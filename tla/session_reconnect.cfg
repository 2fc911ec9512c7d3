SPECIFICATION Spec
CONSTANTS
  s1 = s1
  s2 = s2
  t1 = t1
  a1 = a1
  a2 = a2
  Sessions <- TwoSessions
  NoSession = NoSession
  Tabs <- NoTabs
  TabSession <- WatchFirst
  AgentConns <- TwoConns
  NoConn = NoConn
  Faults <- FaultKinds
  MaxRestarts = 1
SYMMETRY ConnSymmetry
INVARIANT ActiveRowHasAgent
INVARIANT PresenceHasSocket
CHECK_DEADLOCK FALSE
