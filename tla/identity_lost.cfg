SPECIFICATION Spec
CONSTANTS
  screen = screen
  None = None
  Reqs <- Slots
  Caps = {screen}
  Agent = 0
  Faults = {"lost"}
  AskOps <- AllOps
  MaxTries = 2
  MaxAsked = 1
  MaxStarts = 2
PROPERTY IdentityKept
CHECK_DEADLOCK FALSE
