SPECIFICATION Spec
CONSTANTS
  t1 = t1
  t2 = t2
  c1 = c1
  c2 = c2
  o1 = o1
  o2 = o2
  j1 = j1
  p1 = p1
  p2 = p2
  k1 = k1
  b1 = b1
  b2 = b2
  None = None
  Reqs <- TabSlots
  Passwords = {p1, p2}
  Secrets = {k1}
  Codes = {b1}
  MaxAttempts = 2
  Jars = {j1}
  Tabs <- TwoTabs
  JarOf <- OneJar
  Calls <- NoCalls
  TabOf <- SameTab
  CallOps <- PageOps
  OutsideOps <- AllOps
  MaxMoves = 0

CHECK_DEADLOCK FALSE
INVARIANT NoSelfReuse
