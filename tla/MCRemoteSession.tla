---------------------------- MODULE MCRemoteSession ----------------------------
(***************************************************************************)
(* Small instances of RemoteSession for TLC.                               *)
(***************************************************************************)
EXTENDS RemoteSession, TLC

CONSTANTS s1, s2, t1, a1, a2

OneSession  == {s1}
TwoSessions == {s1, s2}
NoTabs == {}
OneTab == {t1}
OneConn  == {a1}
TwoConns == {a1, a2}  \* one reconnect, or one relaunch, of the agent

\* The pages watch the first session; the second is requested by someone
\* whose page never opens, or competes for the agent.
WatchFirst == [t \in Tabs |-> s1]

NoFaults   == {}
EndFaults  == {"crash", "silence"}  \* each end may go without a word

\* The agent's sockets are interchangeable until it opens one.
ConnSymmetry == Permutations(TwoConns)
===============================================================================
