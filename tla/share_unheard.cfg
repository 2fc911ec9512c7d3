SPECIFICATION Spec
CONSTANTS
  camera = camera
  r1 = r1
  r2 = r2
  Caps <- Camera
  Allowed <- Camera
  Tasks <- TwoTasks
  MaxEvents = 0
  MaxRetries = 2
PROPERTY AcceptedShareIsSeen
CHECK_DEADLOCK FALSE
