SPECIFICATION Spec
CONSTANTS
  s1 = s1
  s2 = s2
  t1 = t1
  a1 = a1
  a2 = a2
  Sessions <- TwoSessions
  NoSession = NoSession
  Tabs <- OneTab
  TabSession <- WatchFirst
  AgentConns <- OneConn
  NoConn = NoConn
  Faults <- EndFaults
  MaxRestarts = 0
INVARIANT TypeOK
INVARIANT RelayIsolation
INVARIANT OfferFollowsJoin
INVARIANT ReadyFollowsVerdict
PROPERTY LifecycleSpec
CHECK_DEADLOCK FALSE
