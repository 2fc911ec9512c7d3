SPECIFICATION Spec
CONSTANTS
  t1 = t1
  t2 = t2
  c1 = c1
  c2 = c2
  o1 = o1
  o2 = o2
  j1 = j1
  p1 = p1
  p2 = p2
  k1 = k1
  b1 = b1
  b2 = b2
  None = None
  Reqs <- PageSlots
  Passwords = {p1, p2}
  Secrets = {k1}
  Codes = {b1}
  MaxAttempts = 2
  Jars = {j1}
  Tabs <- OneTab
  JarOf <- OneJar
  Calls <- TwoCalls
  TabOf <- SameTab
  CallOps <- PageOps
  OutsideOps <- AllOps
  MaxMoves = 2
SYMMETRY SlotSymmetry
INVARIANT TypeOK
INVARIANT SignOutSticks
INVARIANT LinkRedeemedOnce
INVARIANT ChallengeAnsweredOnce
INVARIANT LockNeedsFailures
INVARIANT NoSelfReuse
 
INVARIANT WaiterHasRefresh
CHECK_DEADLOCK FALSE
