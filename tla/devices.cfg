SPECIFICATION FairSpec
CONSTANTS
  screen = screen
  None = None
  Reqs <- Slots
  Caps = {screen}
  Agent = 0
  Faults = {"crash", "drop"}
  AskOps <- AllOps
  MaxTries = 2
  MaxAsked = 1
  MaxStarts = 3
INVARIANT TypeOK
INVARIANT CodeEnrolsOnce
INVARIANT CutCodeIsDead
INVARIANT SecretNeverReturns
PROPERTY IdentityKept
PROPERTY AgentSettles
PROPERTY RevokedAgentLeaves
PROPERTY PolicyReaches
CHECK_DEADLOCK FALSE
