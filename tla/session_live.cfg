SPECIFICATION FairSpec
CONSTANTS
  s1 = s1
  s2 = s2
  t1 = t1
  a1 = a1
  a2 = a2
  Sessions <- OneSession
  NoSession = NoSession
  Tabs <- OneTab
  TabSession <- WatchFirst
  AgentConns <- OneConn
  NoConn = NoConn
  Faults <- NoFaults
  MaxRestarts = 0
PROPERTY AgentGoneEndsRows
PROPERTY ReadyGetsOffer
PROPERTY LeavingEndsService
CHECK_DEADLOCK FALSE
