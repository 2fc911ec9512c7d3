SPECIFICATION Spec
CONSTANTS
  camera = camera
  r1 = r1
  r2 = r2
  Caps <- Camera
  Allowed <- Camera
  Tasks <- TwoTasks
  MaxEvents = 2
  MaxRetries = 2
INVARIANT TypeOK
INVARIANT DownIsAttended
INVARIANT OfferIsAnswered
PROPERTY InterruptionRecovers
PROPERTY ConsentShown
PROPERTY DeadAddressIsUnreachable
CHECK_DEADLOCK FALSE
