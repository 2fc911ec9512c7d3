-------------------------- MODULE RemoteSession_proofs --------------------------
(***************************************************************************)
(* Theorems about RemoteSession, for every set of sessions, pages, sockets *)
(* and faults.                                                             *)
(***************************************************************************)
EXTENDS RemoteSession, SequenceTheorems, TLAPS

LEMMA ConnParts == AgentConns \subseteq Conns /\ Tabs \subseteq Conns
BY DEF Conns

\* What the typing of an action's new queues rests on.
LEMMA FrameType ==
  ASSUME NEW type \in FrameTypes, NEW s \in Sessions
  PROVE  Frame(type, s) \in Frames
BY DEF Frame, Frames

\* Delivering a frame keeps every inbox a queue of frames.
LEMMA DeliverType ==
  ASSUME TypeOK, NEW f \in Frames, NEW R
  PROVE  Deliver(f, R) \in [Conns -> Seq(Frames)]
BY DEF Deliver, TypeOK

\* So does writing frames, at either end.
LEMMA SendType ==
  ASSUME TypeOK, NEW c \in Conns, NEW fs \in Seq(Frames)
  PROVE  Send(c, fs) \in [Conns -> Seq(Frames)]
BY DEF Send, TypeOK

LEMMA HeadTail ==
  ASSUME NEW q \in Seq(Frames), q # <<>>
  PROVE  /\ Head(q) \in Frames
         /\ Tail(q) \in Seq(Frames)
         /\ Head(q).type \in FrameTypes
         /\ Head(q).session \in Sessions
<1>1. Head(q) \in Frames /\ Tail(q) \in Seq(Frames)
  BY HeadTailProperties
<1> QED BY <1>1 DEF Frames

\* The queues a client writes at once.
LEMMA ShortQueues ==
  /\ <<>> \in Seq(Frames)
  /\ \A f \in Frames : <<f>> \in Seq(Frames)
  /\ \A f, g \in Frames : <<f, g>> \in Seq(Frames)
  /\ \A f, g, h \in Frames : <<f, g, h>> \in Seq(Frames)
OBVIOUS

LEMMA ExitType ==
  ASSUME TypeOK, AgentExits
  PROVE  up' \in [Conns -> BOOLEAN] /\ inbox' \in [Conns -> Seq(Frames)]
BY ShortQueues DEF AgentExits, TypeOK

LEMMA TypeInit == Init => TypeOK
BY SMT DEF Init, TypeOK

LEMMA TypeStep == TypeOK /\ [Next]_vars => TypeOK'
<1> SUFFICES ASSUME TypeOK, [Next]_vars PROVE TypeOK'
  OBVIOUS
<1>1. ASSUME NEW s \in Sessions, CreateCheck(s) PROVE TypeOK'
  BY <1>1 DEF CreateCheck, TypeOK, server, net, agent
<1>2. ASSUME NEW s \in Sessions, CreateInsert(s) PROVE TypeOK'
  BY <1>2 DEF CreateInsert, TypeOK, server, net, agent
<1>3. ASSUME NEW s \in Sessions, CreateInvite(s) PROVE TypeOK'
  BY <1>3, FrameType, DeliverType DEF CreateInvite, TypeOK, server, net, agent, FrameTypes
<1>4. ASSUME NEW s \in Sessions, MarkActive(s) PROVE TypeOK'
  BY <1>4 DEF MarkActive, Statement, TypeOK, server, net, agent
<1>5. ASSUME NEW s \in Sessions, MarkDenied(s) PROVE TypeOK'
  BY <1>5 DEF MarkDenied, Statement, TypeOK, server, net, agent
<1>6. ASSUME NEW s \in Sessions, MarkEnded(s) PROVE TypeOK'
  BY <1>6, SMTT(30) DEF MarkEnded, Statement, TypeOK, server, net, agent
<1>7. ASSUME NEW s \in Sessions, TerminateLookup(s) PROVE TypeOK'
  BY <1>7 DEF TerminateLookup, TypeOK, db, server, net, agent, Statements
<1>8. ASSUME NEW s \in Sessions, Terminate(s) PROVE TypeOK'
  BY <1>8 DEF Terminate, Statement, TypeOK, server, net, agent
<1>9. ASSUME NEW c \in Conns, AgentAdmit(c) PROVE TypeOK'
  BY <1>9 DEF AgentAdmit, TypeOK, db, net, agent
<1>10. ASSUME NEW c \in Conns, AgentListen(c) PROVE TypeOK'
  <2>1. \/ stage' = [stage EXCEPT ![c] = "open"]
        \/ stage' = [stage EXCEPT ![c] = "zombie"]
    BY <1>10, Zenon DEF AgentListen
  <2>2. UNCHANGED <<db, presence, joined, members, deviceChan, queries, writes, net, agent, tab,
                    restarts>>
    BY <1>10, Zenon DEF AgentListen
  <2> QED BY <2>1, <2>2 DEF TypeOK, db, net, agent
<1>11. ASSUME NEW c \in Conns, TabAdmit(c) PROVE TypeOK'
  <2>1. \/ stage' = [stage EXCEPT ![c] = "open"]
        \/ stage' = [stage EXCEPT ![c] = "zombie"]
    BY <1>11, Zenon DEF TabAdmit
  <2>2. UNCHANGED <<db, presence, joined, members, deviceChan, queries, writes, net, agent, tab,
                    restarts>>
    BY <1>11, Zenon DEF TabAdmit
  <2> QED BY <2>1, <2>2 DEF TypeOK, db, net, agent
<1>12. ASSUME NEW c \in Conns, DropEarly(c) PROVE TypeOK'
  BY <1>12, HeadTail DEF DropEarly, TypeOK, db, server, agent
<1>13. ASSUME NEW c \in Conns, RecvJoin(c) PROVE TypeOK'
  BY <1>13, HeadTail DEF RecvJoin, TypeOK, db, agent
<1>14. ASSUME NEW c \in Conns, RecvRelay(c) PROVE TypeOK'
  <2> DEFINE f == Head(outbox[c])
  <2>1. f \in Frames /\ f.session \in Sessions /\ Tail(outbox[c]) \in Seq(Frames)
    BY <1>14, HeadTail, HeadTailProperties DEF RecvRelay, TypeOK
  <2>2. inbox' \in [Conns -> Seq(Frames)]
    BY <1>14, <2>1, DeliverType DEF RecvRelay, TypeOK
  <2>3. StatementsOf(c, f) \subseteq Statements \X Sessions
    BY <2>1 DEF StatementsOf, Statements
  <2>4. writes' \in SUBSET (Statements \X Sessions)
    BY <1>14, <2>3 DEF RecvRelay, TypeOK
  <2> QED BY <1>14, <2>1, <2>2, <2>4 DEF RecvRelay, TypeOK, db, server, agent
<1>15. ASSUME NEW c \in Conns, ServerClose(c) PROVE TypeOK'
  BY <1>15 DEF ServerClose, TypeOK, db, agent
<1>16. ASSUME NEW c \in Conns, CleanupRows(c) PROVE TypeOK'
  BY <1>16 DEF CleanupRows, TypeOK, net, agent
<1>17. ASSUME NEW c \in Conns, CleanupPresence(c) PROVE TypeOK'
  BY <1>17 DEF CleanupPresence, TypeOK, db, net, agent
<1>18. ASSUME NEW c \in Conns, ServerHangsUp(c) PROVE TypeOK'
  BY <1>18 DEF ServerHangsUp, TypeOK, db, server, agent
<1>19. ASSUME NEW c \in Conns, Lose(c) PROVE TypeOK'
  BY <1>19 DEF Lose, TypeOK, db, server, agent
<1>20. ASSUME NEW c \in Conns, NEW s \in Sessions, JoinDone(c, s) PROVE TypeOK'
  <2>1. Frame("state:denied", s) \in Frames /\ Frame("ready", s) \in Frames
    BY FrameType DEF FrameTypes
  <2>2. CASE row[s] \in {"none", "ended"}
    BY <1>20, <2>2 DEF JoinDone, TypeOK, db, agent
  <2>3. CASE row[s] \notin {"none", "ended"}
    <3>1. /\ joined' = [joined EXCEPT ![c] = @ \cup {s}]
          /\ members' = [members EXCEPT ![s] = @ \cup {c}]
      BY <1>20, <2>3, Zenon DEF JoinDone
    <3>2. \A d \in Conns : \/ inbox'[d] = inbox[d]
                           \/ \E f \in Frames : inbox'[d] = Append(inbox[d], f)
      BY <1>20, <2>3, <2>1, Zenon DEF JoinDone
    <3>3. inbox' = [d \in Conns |-> inbox'[d]]
      BY <1>20, <2>3, Zenon DEF JoinDone
    <3>4. inbox' \in [Conns -> Seq(Frames)]
      <4>1. ASSUME NEW d \in Conns PROVE inbox'[d] \in Seq(Frames)
        <5>1. inbox[d] \in Seq(Frames)
          BY DEF TypeOK
        <5> QED BY <3>2, <5>1, AppendProperties, SMTT(30)
      <4> QED BY <3>3, <4>1, Zenon
    <3> QED BY <1>20, <3>1, <3>4 DEF JoinDone, TypeOK, db, agent
  <2> QED BY <2>2, <2>3
<1>21. CASE PresenceLapse
  BY <1>21 DEF PresenceLapse, TypeOK, db, net, agent
<1>22. CASE ServerRestart
  BY <1>22 DEF ServerRestart, TypeOK, agent
<1>23. CASE AgentInvite
  <2>1. Taken \in Sessions /\ Tail(inbox[agentConn]) \in Seq(Frames) /\ agentConn \in Conns
    BY <1>23, ConnParts, HeadTail DEF AgentInvite, AgentTakes, Taken, TypeOK
  <2>2. \A type \in FrameTypes : Frame(type, Taken) \in Frames
    BY <2>1, FrameType
  <2>3. outbox' \in [Conns -> Seq(Frames)]
    <3>1. \A fs \in Seq(Frames) : Send(agentConn, fs) \in [Conns -> Seq(Frames)]
      BY <2>1, SendType, ConnParts
    <3>2. \/ outbox' = outbox
          \/ outbox' = Send(agentConn, <<Frame("join", Taken), Frame("deny", Taken)>>)
          \/ outbox' = Send(agentConn, <<Frame("join", Taken), Frame("accept", Taken)>>)
          \/ outbox' = Send(agentConn, Answers("accept", Taken) \o <<Frame("offer", Taken)>>)
      BY <1>23, Zenon DEF AgentInvite, Refuses, AcceptSession, Answers
    <3>3. /\ Frame("join", Taken) \in Frames /\ Frame("deny", Taken) \in Frames
          /\ Frame("accept", Taken) \in Frames /\ Frame("offer", Taken) \in Frames
      BY <2>2 DEF FrameTypes
    <3>4. /\ <<Frame("join", Taken), Frame("deny", Taken)>> \in Seq(Frames)
          /\ <<Frame("join", Taken), Frame("accept", Taken)>> \in Seq(Frames)
          /\ Answers("accept", Taken) \o <<Frame("offer", Taken)>> \in Seq(Frames)
      BY <3>3, ShortQueues, ConcatProperties DEF Answers
    <3> QED BY <3>1, <3>2, <3>4, ZenonT(60) DEF TypeOK
  <2>4. inbox' \in [Conns -> Seq(Frames)]
    BY <1>23, ConnParts, <2>1 DEF AgentInvite, AgentTakes, TypeOK
  <2> QED BY <1>23, ConnParts, <2>1, <2>3, <2>4 DEF AgentInvite, Refuses, AcceptSession, TypeOK,
                                                    db, server
<1>24. CASE AgentEnd
  BY <1>24, ConnParts, HeadTail DEF AgentEnd, AgentTakes, TypeOK, db, server
<1>25. CASE AgentReady
  <2>1. Taken \in Sessions /\ Tail(inbox[agentConn]) \in Seq(Frames) /\ agentConn \in Conns
    BY <1>25, ConnParts, HeadTail DEF AgentReady, AgentTakes, Taken, TypeOK
  <2>2. outbox' \in [Conns -> Seq(Frames)]
    <3>1. Send(agentConn, <<Frame("offer", Taken)>>) \in [Conns -> Seq(Frames)]
      BY <2>1, FrameType, SendType, ShortQueues DEF FrameTypes
    <3> QED BY <1>25, <3>1 DEF AgentReady, TypeOK
  <2> QED BY <1>25, ConnParts, <2>1, <2>2 DEF AgentReady, AgentTakes, TypeOK, db, server
<1>26. CASE AgentAnswer
  BY <1>26, ConnParts, HeadTail DEF AgentAnswer, AgentTakes, TypeOK, db, server
<1>27. CASE AgentNoticesLoss
  BY <1>27, ConnParts DEF AgentNoticesLoss, TypeOK, db, server
<1>28. ASSUME NEW c \in AgentConns, AgentConnect(c) PROVE TypeOK'
  <2>1. outbox' \in [Conns -> Seq(Frames)]
    <3>1. CASE active = NoSession
      BY <1>28, ConnParts, <3>1 DEF AgentConnect, TypeOK
    <3>2. CASE active # NoSession
      <4>1. Frame("join", active) \in Frames /\ Frame("offer", active) \in Frames
        BY <3>2, FrameType DEF FrameTypes, TypeOK
      <4>2. <<Frame("join", active), Frame("offer", active)>> \in Seq(Frames)
        BY <4>1, ShortQueues
      <4>3. outbox' = [outbox EXCEPT ![c] = <<Frame("join", active), Frame("offer", active)>>]
        BY <1>28, <3>2 DEF AgentConnect
      <4> QED BY <4>2, <4>3 DEF TypeOK
    <3> QED BY <3>1, <3>2
  <2> QED BY <1>28, ConnParts, <2>1 DEF AgentConnect, TypeOK, db
<1>29. CASE AgentLocalEnd
  <2>1. agentConn \in Conns /\ Frame("end", active) \in Frames
    BY <1>29, ConnParts, FrameType DEF AgentLocalEnd, FrameTypes, TypeOK
  <2>2. outbox' \in [Conns -> Seq(Frames)]
    BY <1>29, <2>1, SendType, ConnParts, ShortQueues DEF AgentLocalEnd
  <2> QED BY <1>29, ConnParts, <2>2 DEF AgentLocalEnd, TypeOK, db, server
<1>30. CASE AgentQuit
  <2>1. outbox' \in [Conns -> Seq(Frames)]
    <3>1. CASE active = NoSession
      BY <1>30, ConnParts, <3>1 DEF AgentQuit, TypeOK
    <3>2. CASE active # NoSession
      <4>1. agentConn \in Conns /\ Frame("end", active) \in Frames
        BY <1>30, ConnParts, <3>2, FrameType DEF AgentQuit, FrameTypes, TypeOK
      <4> QED BY <1>30, <3>2, <4>1, SendType, ConnParts, ShortQueues DEF AgentQuit
    <3> QED BY <3>1, <3>2
  <2> QED BY <1>30, ConnParts, <2>1, ExitType DEF AgentQuit, AgentExits, TypeOK, db
<1>31. CASE AgentCrash
  BY <1>31, ConnParts, ExitType DEF AgentCrash, AgentExits, TypeOK, db
<1>32. CASE AgentGivesUp
  BY <1>32, ConnParts, ExitType DEF AgentGivesUp, AgentExits, TypeOK, db
<1>33. ASSUME NEW t \in Tabs, TabRecv(t) PROVE TypeOK'
  <2>1. Head(inbox[t]).session \in Sessions /\ Tail(inbox[t]) \in Seq(Frames)
    BY <1>33, ConnParts, HeadTail DEF TabRecv, TypeOK
  <2>2. outbox' \in [Conns -> Seq(Frames)]
    <3>1. Frame("answer", Head(inbox[t]).session) \in Frames
      BY <2>1, FrameType DEF FrameTypes
    <3>2. Send(t, <<Frame("answer", Head(inbox[t]).session)>>) \in [Conns -> Seq(Frames)]
      BY <3>1, SendType, ConnParts, ShortQueues
    <3> QED BY <1>33, ConnParts, <3>2 DEF TabRecv, TypeOK
  <2>3. /\ inbox' \in [Conns -> Seq(Frames)]
        /\ up' \in [Conns -> BOOLEAN]
        /\ tab' \in [Tabs -> {"unopened", "waiting", "answered", "denied", "ended", "failed",
                             "left", "gone"}]
    <3>1. CASE Teardown(t, "denied")
      BY <3>1, ShortQueues DEF Teardown, TypeOK
    <3>2. CASE Teardown(t, "ended")
      BY <3>2, ShortQueues DEF Teardown, TypeOK
    <3>3. CASE /\ tab' = [tab EXCEPT ![t] = "answered"]
               /\ inbox' = [inbox EXCEPT ![t] = Tail(@)]
               /\ UNCHANGED up
      BY <3>3, <2>1 DEF TypeOK
    <3> QED BY <1>33, <3>1, <3>2, <3>3, Zenon DEF TabRecv
  <2> QED BY <1>33, ConnParts, <2>2, <2>3 DEF TabRecv, TypeOK, db, server, agent
<1>34. ASSUME NEW t \in Tabs, TabNoticesLoss(t) PROVE TypeOK'
  BY <1>34, ConnParts DEF TabNoticesLoss, Teardown, Watching, TypeOK, db, server, agent
<1>35. ASSUME NEW t \in Tabs, TabOpen(t) PROVE TypeOK'
  <2>1. <<Frame("join", TabSession[t])>> \in Seq(Frames)
    BY TabsAssumption, FrameType, ShortQueues DEF FrameTypes
  <2>2. outbox' \in [Conns -> Seq(Frames)]
    <3>1. \/ outbox' = outbox
          \/ outbox' = [outbox EXCEPT ![t] = <<Frame("join", TabSession[t])>>]
      BY <1>35 DEF TabOpen
    <3> QED BY <2>1, <3>1 DEF TypeOK
  <2>3. /\ stage' \in [Conns -> {"unused", "auth", "added", "open", "closing", "dropping",
                               "closed", "zombie"}]
        /\ up' \in [Conns -> BOOLEAN]
        /\ tab' \in [Tabs -> {"unopened", "waiting", "answered", "denied", "ended", "failed",
                             "left", "gone"}]
    <3>1. CASE row[TabSession[t]] \in {"ended", "denied"}
      <4>1. /\ tab' = [tab EXCEPT ![t] = row[TabSession[t]]]
            /\ UNCHANGED <<stage, up>>
        BY <1>35, <3>1, Zenon DEF TabOpen
      <4> QED BY <3>1, <4>1 DEF TypeOK
    <3>2. CASE row[TabSession[t]] \notin {"ended", "denied"}
      <4>1. /\ tab' = [tab EXCEPT ![t] = "waiting"]
            /\ stage' = [stage EXCEPT ![t] = "auth"]
            /\ up' = [up EXCEPT ![t] = TRUE]
        BY <1>35, <3>2, Zenon DEF TabOpen
      <4> QED BY <4>1 DEF TypeOK
    <3> QED BY <3>1, <3>2
  <2> QED BY <1>35, ConnParts, <2>2, <2>3 DEF TabOpen, TypeOK, db, agent
<1>36. ASSUME NEW t \in Tabs, TabDisconnect(t) PROVE TypeOK'
  <2>1. outbox' \in [Conns -> Seq(Frames)]
    <3>1. <<Frame("end", TabSession[t])>> \in Seq(Frames)
      BY TabsAssumption, FrameType, ShortQueues DEF FrameTypes
    <3> QED BY <1>36, <3>1, SendType, ConnParts DEF TabDisconnect
  <2>2. writes' \in SUBSET (Statements \X Sessions)
    BY <1>36, ConnParts, TabsAssumption DEF TabDisconnect, TypeOK, Statements
  <2> QED BY <1>36, ConnParts, <2>1, <2>2, ShortQueues DEF TabDisconnect, Teardown, TypeOK, db, server, agent
<1>37. ASSUME NEW t \in Tabs, TabClose(t) PROVE TypeOK'
  BY <1>37, ConnParts DEF TabClose, Teardown, TypeOK, db, server, agent
<1>38. CASE UNCHANGED vars
  BY <1>38 DEF vars, TypeOK, db, server, net, agent
<1> QED
  BY <1>1, <1>2, <1>3, <1>4, <1>5, <1>6, <1>7, <1>8, <1>9, <1>10, <1>11, <1>12, <1>13, <1>14,
     <1>15, <1>16, <1>17, <1>18, <1>19, <1>20, <1>21, <1>22, <1>23, <1>24, <1>25, <1>26, <1>27,
     <1>28, <1>29, <1>30, <1>31, <1>32, <1>33, <1>34, <1>35, <1>36, <1>37, <1>38
  DEF Next, Create, Database, ServerSocket, AgentReceives, AgentOther, TabReceives

\* The state of the session protocol keeps its type through every step.
THEOREM TypeCorrect == Spec => []TypeOK
<1>1. Init => TypeOK
  BY TypeInit
<1>2. TypeOK /\ [Next]_vars => TypeOK'
  BY TypeStep
<1> QED BY <1>1, <1>2, PTL DEF Spec

-------------------------------------------------------------------------------
(* The inductive invariant.                                                 *)

ClientTypes == {"join", "accept", "deny", "end", "offer", "answer"}

\* The agent holds one socket: every other is dead and drained.
OneSocket ==
  \A c \in AgentConns : c # agentConn => inbox[c] = <<>> /\ ~up[c]

\* A row exists exactly once its request has inserted it.
RowsRequested ==
  \A s \in Sessions : row[s] = "none" <=> req[s] \in {"idle", "checked"}

\* Only a session whose invitation was sent has a verdict.
DecidedInvited ==
  \A s \in Sessions : verdict[s] # "open" => req[s] = "invited"

\* An invitation still in the agent's inbox is the only one for its session,
\* and is not decided yet.
InvitesOpen ==
  \A c \in Conns : \A i \in 1 .. Len(inbox[c]) :
    inbox[c][i].type = "invite" =>
      /\ c \in AgentConns
      /\ req[inbox[c][i].session] = "invited"
      /\ verdict[inbox[c][i].session] = "open"
      /\ \A j \in 1 .. Len(inbox[c]) : inbox[c][j] = inbox[c][i] => j = i

\* What a client has sent: an answer to an invitation tells the verdict, and
\* the agent joins only what it has decided on.
SentFrames ==
  \A c \in Conns : \A i \in 1 .. Len(outbox[c]) :
    LET f == outbox[c][i] IN
      /\ f.type \in ClientTypes
      /\ f.type = "accept" => verdict[f.session] = "accepted"
      /\ f.type = "deny" => verdict[f.session] = "refused"
      /\ c \in AgentConns /\ f.type = "join" => verdict[f.session] # "open"

\* The statements in flight tell the verdict too; terminate has seen a row.
StatementsDecided ==
  \A s \in Sessions :
    /\ <<"active", s>> \in writes => verdict[s] = "accepted"
    /\ <<"denied", s>> \in writes => verdict[s] = "refused"
    /\ <<"terminate", s>> \in writes => row[s] # "none"

\* The hub's channels hold only sockets that joined, and the agent's sockets
\* join, or ask to join, only what the agent has decided on.
ChannelsJoined ==
  /\ \A s \in Sessions : \A c \in members[s] : s \in joined[c]
  /\ \A c \in AgentConns, s \in Sessions :
       s \in joined[c] \/ <<c, s>> \in queries => verdict[s] # "open"

\* The agent serves only what it accepted.
ServedAccepted == active # NoSession => verdict[active] = "accepted"

IInv ==
  /\ OneSocket
  /\ RowsRequested
  /\ DecidedInvited
  /\ InvitesOpen
  /\ SentFrames
  /\ StatementsDecided
  /\ ChannelsJoined
  /\ RelayIsolation
  /\ ServedAccepted
  /\ ReadyFollowsVerdict

\* Each part depends on a few variables only.
LEMMA Keep ==
  ASSUME IInv
  PROVE  /\ UNCHANGED <<inbox, up, agentConn>> => OneSocket'
         /\ UNCHANGED <<row, req>> => RowsRequested'
         /\ UNCHANGED <<req, verdict>> => DecidedInvited'
         /\ UNCHANGED <<inbox, req, verdict>> => InvitesOpen'
         /\ UNCHANGED <<outbox, verdict>> => SentFrames'
         /\ UNCHANGED <<writes, verdict, row>> => StatementsDecided'
         /\ UNCHANGED <<members, joined, queries, verdict>> => ChannelsJoined'
         /\ UNCHANGED <<inbox, joined>> => RelayIsolation'
         /\ UNCHANGED <<active, verdict>> => ServedAccepted'
         /\ UNCHANGED <<pendingReady, verdict>> => ReadyFollowsVerdict'
<1>1. UNCHANGED <<inbox, up, agentConn>> => OneSocket'
  BY DEF IInv, OneSocket
<1>2. UNCHANGED <<row, req>> => RowsRequested'
  BY DEF IInv, RowsRequested
<1>3. UNCHANGED <<inbox, req, verdict>> => InvitesOpen'
  BY DEF IInv, InvitesOpen
<1>4. UNCHANGED <<outbox, verdict>> => SentFrames'
  BY DEF IInv, SentFrames
<1>5. UNCHANGED <<writes, verdict, row>> => StatementsDecided'
  BY DEF IInv, StatementsDecided
<1>6. UNCHANGED <<members, joined, queries, verdict>> => ChannelsJoined'
  BY DEF IInv, ChannelsJoined
<1>7. UNCHANGED <<inbox, joined>> => RelayIsolation'
  BY DEF IInv, RelayIsolation
<1>8. UNCHANGED <<active, verdict>> => ServedAccepted'
  BY DEF IInv, ServedAccepted
<1>9. UNCHANGED <<pendingReady, verdict>> => ReadyFollowsVerdict'
  BY DEF IInv, ReadyFollowsVerdict
<1>10. UNCHANGED <<req, verdict>> => DecidedInvited'
  BY DEF IInv, DecidedInvited
<1> QED BY <1>1, <1>2, <1>3, <1>4, <1>5, <1>6, <1>7, <1>8, <1>9, <1>10, Zenon

\* A queue one of whose ends is taken from, or which is dropped.
Shrunk(q2, q) == q2 = q \/ q2 = <<>> \/ (q # <<>> /\ q2 = Tail(q))

LEMMA ShrunkElements ==
  ASSUME NEW q \in Seq(Frames), NEW q2, Shrunk(q2, q)
  PROVE  \E k \in {0, 1} : \A i \in 1 .. Len(q2) :
           i + k \in 1 .. Len(q) /\ q2[i] = q[i + k]
<1>1. CASE q2 = q
  BY <1>1
<1>2. CASE q2 = <<>>
  BY <1>2
<1>3. CASE q # <<>> /\ q2 = Tail(q)
  <2>1. Len(Tail(q)) = Len(q) - 1 /\ Len(q) \in Nat
        /\ \A i \in 1 .. Len(Tail(q)) : Tail(q)[i] = q[i + 1]
    BY <1>3, HeadTailProperties
  <2>2. \A i \in 1 .. Len(q2) : i + 1 \in 1 .. Len(q) /\ q2[i] = q[i + 1]
    BY <1>3, <2>1
  <2> QED BY <2>2
<1> QED BY <1>1, <1>2, <1>3 DEF Shrunk

LEMMA InboxShrinks ==
  ASSUME TypeOK, IInv, \A c \in Conns : Shrunk(inbox'[c], inbox[c])
  PROVE  /\ UNCHANGED joined => RelayIsolation'
         /\ UNCHANGED <<req, verdict>> => InvitesOpen'
<1>1. ASSUME NEW c \in Conns
      PROVE  \E k \in {0, 1} : \A i \in 1 .. Len(inbox'[c]) :
               i + k \in 1 .. Len(inbox[c]) /\ inbox'[c][i] = inbox[c][i + k]
  <2>1. inbox[c] \in Seq(Frames)
    BY DEF TypeOK
  <2> QED BY <2>1, ShrunkElements
<1>2. ASSUME UNCHANGED joined PROVE RelayIsolation'
  <2> SUFFICES ASSUME NEW c \in Conns, NEW i \in 1 .. Len(inbox'[c])
               PROVE  \/ inbox'[c][i].type = "invite" /\ c \in AgentConns
                      \/ inbox'[c][i].session \in joined'[c]
    BY DEF RelayIsolation
  <2>1. PICK k \in {0, 1} : i + k \in 1 .. Len(inbox[c]) /\ inbox'[c][i] = inbox[c][i + k]
    BY <1>1
  <2> QED BY <2>1, <1>2 DEF IInv, RelayIsolation
<1>3. ASSUME UNCHANGED <<req, verdict>> PROVE InvitesOpen'
  <2> SUFFICES ASSUME NEW c \in Conns, NEW i \in 1 .. Len(inbox'[c]),
                      inbox'[c][i].type = "invite"
               PROVE  /\ c \in AgentConns
                      /\ req[inbox'[c][i].session] = "invited"
                      /\ verdict[inbox'[c][i].session] = "open"
                      /\ \A j \in 1 .. Len(inbox'[c]) : inbox'[c][j] = inbox'[c][i] => j = i
    BY <1>3 DEF InvitesOpen
  <2>1. PICK k \in {0, 1} : \A j \in 1 .. Len(inbox'[c]) :
          j + k \in 1 .. Len(inbox[c]) /\ inbox'[c][j] = inbox[c][j + k]
    BY <1>1
  <2>2. /\ c \in AgentConns
        /\ req[inbox[c][i + k].session] = "invited"
        /\ verdict[inbox[c][i + k].session] = "open"
        /\ \A j \in 1 .. Len(inbox[c]) : inbox[c][j] = inbox[c][i + k] => j = i + k
    BY <2>1 DEF IInv, InvitesOpen
  <2>3. ASSUME NEW j \in 1 .. Len(inbox'[c]), inbox'[c][j] = inbox'[c][i] PROVE j = i
    <3>1. j + k = i + k
      BY <2>1, <2>2, <2>3
    <3> QED BY <3>1
  <2> QED BY <2>1, <2>2, <2>3
<1> QED BY <1>2, <1>3

LEMMA OutboxShrinks ==
  ASSUME TypeOK, IInv, \A c \in Conns : Shrunk(outbox'[c], outbox[c]), UNCHANGED verdict
  PROVE  SentFrames'
<1> SUFFICES ASSUME NEW c \in Conns, NEW i \in 1 .. Len(outbox'[c])
             PROVE  LET f == outbox'[c][i] IN
                      /\ f.type \in ClientTypes
                      /\ f.type = "accept" => verdict[f.session] = "accepted"
                      /\ f.type = "deny" => verdict[f.session] = "refused"
                      /\ c \in AgentConns /\ f.type = "join" => verdict[f.session] # "open"
  BY DEF SentFrames
<1>1. outbox[c] \in Seq(Frames)
  BY DEF TypeOK
<1>2. PICK k \in {0, 1} : i + k \in 1 .. Len(outbox[c]) /\ outbox'[c][i] = outbox[c][i + k]
  BY <1>1, ShrunkElements
<1> QED BY <1>2 DEF IInv, SentFrames

\* A frame other than an invitation reaches only sockets that joined.
LEMMA Delivered ==
  ASSUME TypeOK, IInv, NEW f \in Frames, f.type # "invite",
         NEW R, \A c \in R : Reachable(c) /\ f.session \in joined[c],
         inbox' = Deliver(f, R), UNCHANGED <<joined, req, verdict, up, agentConn>>
  PROVE  RelayIsolation' /\ InvitesOpen' /\ OneSocket'
<1>1. ASSUME NEW c \in Conns, NEW i \in 1 .. Len(inbox'[c])
      PROVE  \/ i \in 1 .. Len(inbox[c]) /\ inbox'[c][i] = inbox[c][i]
             \/ c \in R /\ inbox'[c][i] = f
  <2>1. inbox[c] \in Seq(Frames)
    BY DEF TypeOK
  <2>2. CASE c \in R
    <3>1. inbox'[c] = Append(inbox[c], f)
      BY <2>2 DEF Deliver
    <3> QED BY <2>1, <2>2, <3>1, AppendProperties
  <2>3. CASE c \notin R
    BY <2>1, <2>3 DEF Deliver
  <2> QED BY <2>2, <2>3
<1>2. RelayIsolation'
  BY <1>1 DEF IInv, RelayIsolation
<1>3. InvitesOpen'
  <2> SUFFICES ASSUME NEW c \in Conns, NEW i \in 1 .. Len(inbox'[c]),
                      inbox'[c][i].type = "invite"
               PROVE  /\ c \in AgentConns
                      /\ req[inbox'[c][i].session] = "invited"
                      /\ verdict[inbox'[c][i].session] = "open"
                      /\ \A j \in 1 .. Len(inbox'[c]) : inbox'[c][j] = inbox'[c][i] => j = i
    BY DEF InvitesOpen
  <2>1. i \in 1 .. Len(inbox[c]) /\ inbox'[c][i] = inbox[c][i]
    BY <1>1
  <2> QED BY <1>1, <2>1 DEF IInv, InvitesOpen
<1>4. OneSocket'
  <2> SUFFICES ASSUME NEW c \in AgentConns, c # agentConn
               PROVE  inbox'[c] = <<>> /\ ~up[c]
    BY DEF OneSocket
  <2>1. inbox[c] = <<>> /\ ~up[c]
    BY DEF IInv, OneSocket
  <2>2. c \notin R
    BY <2>1 DEF Reachable
  <2> QED BY <2>1, <2>2, ConnParts DEF Deliver
<1> QED BY <1>2, <1>3, <1>4

\* Frames that say nothing of a verdict can be sent at any time.
LEMMA Sent ==
  ASSUME TypeOK, IInv, NEW c \in Conns, NEW f \in Frames,
         f.type \in {"end", "offer", "answer"},
         outbox' = Send(c, <<f>>), UNCHANGED verdict
  PROVE  SentFrames'
<1> SUFFICES ASSUME NEW d \in Conns, NEW i \in 1 .. Len(outbox'[d])
             PROVE  LET g == outbox'[d][i] IN
                      /\ g.type \in ClientTypes
                      /\ g.type = "accept" => verdict[g.session] = "accepted"
                      /\ g.type = "deny" => verdict[g.session] = "refused"
                      /\ d \in AgentConns /\ g.type = "join" => verdict[g.session] # "open"
  BY DEF SentFrames
<1>1. outbox[d] \in Seq(Frames)
  BY DEF TypeOK
<1>2. CASE outbox'[d] = outbox[d]
  BY <1>2 DEF IInv, SentFrames
<1>3. CASE outbox'[d] = outbox[d] \o <<f>>
  <2>1. \/ i \in 1 .. Len(outbox[d]) /\ outbox'[d][i] = outbox[d][i]
        \/ outbox'[d][i] = f
    BY <1>1, <1>3
  <2> QED BY <2>1 DEF IInv, SentFrames, ClientTypes
<1> QED BY <1>2, <1>3 DEF Send, TypeOK

LEMMA Queued ==
  ASSUME TypeOK, NEW c \in Conns
  PROVE  /\ \A i \in 1 .. Len(inbox[c]) : inbox[c][i] \in Frames /\ inbox[c][i].session \in Sessions
         /\ \A i \in 1 .. Len(outbox[c]) : outbox[c][i] \in Frames /\ outbox[c][i].session \in Sessions
<1>1. inbox[c] \in Seq(Frames) /\ outbox[c] \in Seq(Frames)
  BY DEF TypeOK
<1>2. \A f \in Frames : f.session \in Sessions
  BY DEF Frames
<1> QED BY <1>1, <1>2, ElementOfSeq

LEMMA InvInit == Init => IInv
<1> SUFFICES ASSUME Init PROVE IInv
  OBVIOUS
<1>1. \A c \in Conns : Len(inbox[c]) = 0 /\ Len(outbox[c]) = 0 /\ inbox[c] = <<>>
  BY DEF Init
<1>2. OneSocket /\ RowsRequested /\ DecidedInvited /\ StatementsDecided /\ ChannelsJoined /\ ServedAccepted
  BY <1>1, ConnParts DEF Init, OneSocket, RowsRequested, DecidedInvited, StatementsDecided, ChannelsJoined,
                         ServedAccepted
<1>3. InvitesOpen /\ SentFrames /\ RelayIsolation
  BY <1>1 DEF InvitesOpen, SentFrames, RelayIsolation
<1>4. ReadyFollowsVerdict
  BY SessionsAssumption DEF Init, ReadyFollowsVerdict
<1> QED BY <1>2, <1>3, <1>4 DEF IInv

\* The steps of POST /sessions.
LEMMA CreateKeeps ==
  ASSUME TypeOK, IInv, NEW s \in Sessions, Create(s)
  PROVE  IInv'
<1>1. CASE CreateCheck(s)
  <2>1. RowsRequested'
    BY <1>1 DEF CreateCheck, IInv, RowsRequested, TypeOK
  <2>2. InvitesOpen'
    <3>1. UNCHANGED <<inbox, verdict>> /\ req' = [req EXCEPT ![s] = "checked"] /\ req[s] = "idle"
      BY <1>1 DEF CreateCheck, net, agent
    <3>2. \A r \in Sessions : req[r] = "invited" => req'[r] = "invited"
      BY <3>1 DEF TypeOK
    <3>3. \A c \in Conns : \A i \in 1 .. Len(inbox[c]) : inbox[c][i].session \in Sessions
      BY Queued
    <3> QED BY <3>1, <3>2, <3>3 DEF IInv, InvitesOpen
  <2>3. DecidedInvited'
    BY <1>1 DEF CreateCheck, agent, IInv, DecidedInvited, TypeOK
  <2> QED BY <1>1, <2>1, <2>2, <2>3, Keep DEF CreateCheck, server, net, agent, IInv
<1>2. CASE CreateInsert(s)
  <2>1. RowsRequested'
    BY <1>2 DEF CreateInsert, IInv, RowsRequested, TypeOK
  <2>2. InvitesOpen'
    <3>1. UNCHANGED <<inbox, verdict>> /\ req' = [req EXCEPT ![s] = "inserted"]
          /\ req[s] = "checked"
      BY <1>2 DEF CreateInsert, net, agent
    <3>2. \A r \in Sessions : req[r] = "invited" => req'[r] = "invited"
      BY <3>1 DEF TypeOK
    <3>3. \A c \in Conns : \A i \in 1 .. Len(inbox[c]) : inbox[c][i].session \in Sessions
      BY Queued
    <3> QED BY <3>1, <3>2, <3>3 DEF IInv, InvitesOpen
  <2>3. StatementsDecided'
    BY <1>2 DEF CreateInsert, server, agent, IInv, StatementsDecided, TypeOK
  <2>4. DecidedInvited'
    BY <1>2 DEF CreateInsert, agent, IInv, DecidedInvited, TypeOK
  <2> QED BY <1>2, <2>1, <2>2, <2>3, <2>4, Keep DEF CreateInsert, server, net, agent, IInv
<1>3. CASE CreateInvite(s)
  <2> DEFINE f == Frame("invite", s)
             R == Hearers(deviceChan, "invite")
  <2>1. /\ f \in Frames /\ f.type = "invite" /\ f.session = s
        /\ \A c \in R : c \in AgentConns /\ up[c]
    BY FrameType DEF FrameTypes, Frame, Hearers, Reachable, TypeOK
  <2>2. /\ inbox' = Deliver(f, R)
        /\ req' = [req EXCEPT ![s] = "invited"] /\ req[s] = "inserted"
        /\ UNCHANGED <<row, joined, members, queries, writes, up, outbox, agentConn, active,
                       pendingReady, verdict>>
    BY <1>3 DEF CreateInvite, server, agent
  <2>3. ASSUME NEW c \in Conns, NEW i \in 1 .. Len(inbox'[c])
        PROVE  \/ i \in 1 .. Len(inbox[c]) /\ inbox'[c][i] = inbox[c][i]
               \/ c \in R /\ inbox'[c][i] = f /\ i = Len(inbox[c]) + 1
    <3>1. inbox[c] \in Seq(Frames)
      BY DEF TypeOK
    <3>2. CASE c \in R
      <4>1. inbox'[c] = Append(inbox[c], f)
        BY <2>2, <3>2 DEF Deliver
      <4> QED BY <2>1, <3>1, <3>2, <4>1, AppendProperties
    <3>3. CASE c \notin R
      BY <2>2, <3>1, <3>3 DEF Deliver
    <3> QED BY <3>2, <3>3
  <2>4. RowsRequested'
    BY <2>2 DEF IInv, RowsRequested, TypeOK
  <2>5. RelayIsolation'
    BY <2>1, <2>2, <2>3 DEF IInv, RelayIsolation
  <2>6. verdict[s] = "open"
    BY <2>2 DEF IInv, DecidedInvited, TypeOK
  <2>7. ASSUME NEW c \in Conns, NEW i \in 1 .. Len(inbox[c]) PROVE inbox[c][i] # f
    BY <2>1, <2>2 DEF IInv, InvitesOpen
  <2>8. \A r \in Sessions : req[r] = "invited" => req'[r] = "invited"
    BY <2>2 DEF TypeOK
  <2>9. InvitesOpen'
    <3> SUFFICES ASSUME NEW c \in Conns, NEW i \in 1 .. Len(inbox'[c]),
                        inbox'[c][i].type = "invite"
                 PROVE  /\ c \in AgentConns
                        /\ req'[inbox'[c][i].session] = "invited"
                        /\ verdict'[inbox'[c][i].session] = "open"
                        /\ \A j \in 1 .. Len(inbox'[c]) : inbox'[c][j] = inbox'[c][i] => j = i
      BY DEF InvitesOpen
    <3>1. CASE i \in 1 .. Len(inbox[c]) /\ inbox'[c][i] = inbox[c][i]
      <4>1. /\ c \in AgentConns
            /\ req[inbox[c][i].session] = "invited"
            /\ verdict[inbox[c][i].session] = "open"
            /\ \A j \in 1 .. Len(inbox[c]) : inbox[c][j] = inbox[c][i] => j = i
        BY <3>1 DEF IInv, InvitesOpen
      <4>2. inbox[c][i].session \in Sessions
        BY <3>1, Queued
      <4>3. inbox[c][i] # f
        BY <2>7, <3>1
      <4> QED BY <2>2, <2>3, <2>8, <3>1, <4>1, <4>2, <4>3
    <3>2. CASE c \in R /\ inbox'[c][i] = f /\ i = Len(inbox[c]) + 1
      <4>1. \A j \in 1 .. Len(inbox'[c]) : inbox'[c][j] = f => j = i
        BY <2>3, <2>7, <3>2
      <4> QED BY <2>1, <2>2, <2>6, <3>2, <4>1 DEF TypeOK
    <3> QED BY <2>3, <3>1, <3>2
  <2>10. OneSocket'
    BY <2>1, <2>2, ConnParts DEF IInv, OneSocket, Deliver
  <2>11. DecidedInvited'
    BY <2>2, <2>8 DEF IInv, DecidedInvited
  <2> QED BY <2>2, <2>4, <2>5, <2>9, <2>10, <2>11, Keep DEF IInv
<1> QED BY <1>1, <1>2, <1>3 DEF Create

\* The statements on rows.
LEMMA DatabaseKeeps ==
  ASSUME TypeOK, IInv, NEW s \in Sessions, Database(s)
  PROVE  IInv'
<1>1. /\ UNCHANGED <<req, server, net, agent>>
      /\ \/ row' = row
         \/ row[s] # "none" /\ \E v \in {"active", "denied", "ended"} :
                                 row' = [row EXCEPT ![s] = v]
      /\ \/ writes' \subseteq writes
         \/ writes' \subseteq writes \cup {<<"terminate", s>>} /\ row'[s] # "none"
  <2>1. CASE MarkActive(s)
    BY <2>1 DEF MarkActive, Statement
  <2>2. CASE MarkDenied(s)
    BY <2>2 DEF MarkDenied, Statement
  <2>3. CASE MarkEnded(s)
    BY <2>3 DEF MarkEnded, Statement, Live
  <2>4. CASE TerminateLookup(s)
    BY <2>4 DEF TerminateLookup, db
  <2>5. CASE Terminate(s)
    BY <2>5 DEF Terminate, Statement, IInv, StatementsDecided
  <2> QED BY <2>1, <2>2, <2>3, <2>4, <2>5 DEF Database
<1>2. \A r \in Sessions : row'[r] = "none" <=> row[r] = "none"
  BY <1>1 DEF TypeOK
<1>3. RowsRequested'
  BY <1>1, <1>2 DEF IInv, RowsRequested
<1>4. StatementsDecided'
  BY <1>1, <1>2 DEF agent, IInv, StatementsDecided
<1> QED BY <1>1, <1>3, <1>4, Keep DEF server, net, agent, IInv

\* A queue of which nothing, the head, or everything is taken.
LEMMA Taking ==
  ASSUME NEW q \in [Conns -> Seq(Frames)], NEW c \in Conns
  PROVE  /\ \A d \in Conns : Shrunk(q[d], q[d])
         /\ \A d \in Conns : Shrunk([q EXCEPT ![c] = <<>>][d], q[d])
         /\ q[c] # <<>> => \A d \in Conns : Shrunk([q EXCEPT ![c] = Tail(@)][d], q[d])
BY DEF Shrunk

LEMMA HeadQueued ==
  ASSUME NEW q \in Seq(Frames), q # <<>>
  PROVE  1 \in 1 .. Len(q) /\ q[1] = Head(q)
OBVIOUS

\* The relay and the join handler deliver to the channel; the rest of a
\* socket's life in the server sends nothing.
LEMMA RelayKeeps ==
  ASSUME TypeOK, IInv, NEW c \in Conns, RecvRelay(c)
  PROVE  IInv'
<1> DEFINE f == Head(outbox[c])
<1>1. /\ outbox[c] # <<>> /\ outbox' = [outbox EXCEPT ![c] = Tail(@)]
      /\ UNCHANGED <<db, server, up, agent>>
      /\ \/ /\ f.session \in joined[c]
            /\ inbox' = Deliver(f, Hearers(members[f.session], f.type))
            /\ writes' = writes \cup StatementsOf(c, f)
         \/ UNCHANGED <<inbox, writes>>
  BY Zenon DEF RecvRelay
<1>2. /\ f \in Frames /\ f.session \in Sessions /\ f.type \in ClientTypes
      /\ f.type = "accept" => verdict[f.session] = "accepted"
      /\ f.type = "deny" => verdict[f.session] = "refused"
  <2>1. outbox[c] \in Seq(Frames)
    BY DEF TypeOK
  <2>2. f = outbox[c][1] /\ 1 \in 1 .. Len(outbox[c])
    BY <1>1, <2>1, HeadQueued
  <2> QED BY <2>2, Queued DEF IInv, SentFrames
<1>3. SentFrames'
  BY <1>1, Taking, OutboxShrinks DEF TypeOK, agent
<1>4. RelayIsolation' /\ InvitesOpen' /\ OneSocket'
  <2>1. CASE inbox' = Deliver(f, Hearers(members[f.session], f.type))
    <3>1. \A d \in Hearers(members[f.session], f.type) : Reachable(d) /\ f.session \in joined[d]
      BY <1>2 DEF Hearers, IInv, ChannelsJoined
    <3> QED BY <1>1, <1>2, <2>1, <3>1, Delivered DEF ClientTypes, db, server, agent
  <2>2. CASE UNCHANGED inbox
    BY <1>1, <2>2, Keep DEF db, server, agent, IInv
  <2> QED BY <1>1, <2>1, <2>2
<1>5. StatementsDecided'
  <2>1. StatementsOf(c, f) \subseteq
          (IF verdict[f.session] = "accepted" THEN {<<"active", f.session>>} ELSE {})
          \cup (IF verdict[f.session] = "refused" THEN {<<"denied", f.session>>} ELSE {})
          \cup {<<"end", f.session>>}
    BY <1>2 DEF StatementsOf
  <2>2. writes' \subseteq writes \cup StatementsOf(c, f)
    BY <1>1
  <2> QED BY <1>1, <2>1, <2>2 DEF IInv, StatementsDecided, db, agent
<1> QED BY <1>1, <1>3, <1>4, <1>5, Keep DEF db, server, agent, IInv

LEMMA JoinKeeps ==
  ASSUME TypeOK, IInv, NEW c \in Conns, NEW s \in Sessions, JoinDone(c, s)
  PROVE  IInv'
<1>1. /\ <<c, s>> \in queries /\ queries' = queries \ {<<c, s>>}
      /\ UNCHANGED <<db, presence, stage, deviceChan, writes, up, outbox, agent>>
  BY DEF JoinDone
<1>2. CASE row[s] \in {"none", "ended"}
  <2>1. UNCHANGED <<joined, members, inbox>>
    BY <1>2 DEF JoinDone
  <2>2. ChannelsJoined'
    BY <1>1, <2>1 DEF IInv, ChannelsJoined, agent
  <2> QED BY <1>1, <2>1, <2>2, Keep DEF db, agent, IInv
<1>3. CASE row[s] \notin {"none", "ended"}
  <2> DEFINE state == Frame("state:denied", s)
             ready == Frame("ready", s)
  <2>1. /\ joined' = [joined EXCEPT ![c] = @ \cup {s}]
        /\ members' = [members EXCEPT ![s] = @ \cup {c}]
    BY <1>3, Zenon DEF JoinDone
  <2>2. \A d \in Conns :
          \/ inbox'[d] = inbox[d]
          \/ d = c /\ Reachable(d) /\ inbox'[d] = Append(inbox[d], state)
          \/ d \in members[s] \cup {c} /\ Reachable(d) /\ inbox'[d] = Append(inbox[d], ready)
    BY <1>3 DEF JoinDone, Hearers
  <2>3. /\ state \in Frames /\ ready \in Frames
        /\ state.session = s /\ ready.session = s
        /\ state.type # "invite" /\ ready.type # "invite"
    BY FrameType DEF FrameTypes, Frame
  <2>4. ChannelsJoined'
    BY <1>1, <2>1 DEF IInv, ChannelsJoined, TypeOK, agent
  <2>5. ASSUME NEW d \in Conns, NEW i \in 1 .. Len(inbox'[d])
        PROVE  \/ i \in 1 .. Len(inbox[d]) /\ inbox'[d][i] = inbox[d][i]
               \/ /\ d \in members[s] \cup {c} /\ inbox'[d][i] \in {state, ready}
    <3>1. inbox[d] \in Seq(Frames)
      BY DEF TypeOK
    <3>2. CASE inbox'[d] = inbox[d]
      BY <3>2
    <3>3. ASSUME NEW f \in {state, ready}, inbox'[d] = Append(inbox[d], f)
          PROVE  \/ i \in 1 .. Len(inbox[d]) /\ inbox'[d][i] = inbox[d][i]
                 \/ inbox'[d][i] = f
      BY <2>3, <3>1, <3>3, AppendProperties
    <3> QED BY <2>2, <3>2, <3>3
  <2>6. \A d \in Conns : joined[d] \subseteq joined'[d]
    BY <2>1 DEF TypeOK
  <2>7. \A d \in members[s] \cup {c} : s \in joined'[d]
    BY <2>1, <2>6 DEF IInv, ChannelsJoined, TypeOK
  <2>8. RelayIsolation'
    BY <2>3, <2>5, <2>6, <2>7 DEF IInv, RelayIsolation
  <2>9. InvitesOpen'
    <3> SUFFICES ASSUME NEW d \in Conns, NEW i \in 1 .. Len(inbox'[d]),
                        inbox'[d][i].type = "invite"
                 PROVE  /\ d \in AgentConns
                        /\ req[inbox'[d][i].session] = "invited"
                        /\ verdict[inbox'[d][i].session] = "open"
                        /\ \A j \in 1 .. Len(inbox'[d]) : inbox'[d][j] = inbox'[d][i] => j = i
      BY <1>1 DEF InvitesOpen, db, agent
    <3>1. i \in 1 .. Len(inbox[d]) /\ inbox'[d][i] = inbox[d][i]
      BY <2>3, <2>5
    <3>2. ASSUME NEW j \in 1 .. Len(inbox'[d]), inbox'[d][j] = inbox'[d][i] PROVE j = i
      <4>1. j \in 1 .. Len(inbox[d]) /\ inbox'[d][j] = inbox[d][j]
        BY <2>3, <2>5, <3>1, <3>2
      <4> QED BY <3>1, <3>2, <4>1 DEF IInv, InvitesOpen
    <3> QED BY <3>1, <3>2 DEF IInv, InvitesOpen
  <2>10. OneSocket'
    BY <1>1, <2>2, ConnParts DEF IInv, OneSocket, Reachable, agent
  <2> QED BY <1>1, <2>4, <2>8, <2>9, <2>10, Keep DEF db, agent, IInv
<1> QED BY <1>2, <1>3

\* The rest of a socket's life in the server.
LEMMA SocketKeeps ==
  ASSUME TypeOK, IInv, NEW c \in Conns,
         \/ AgentAdmit(c) \/ AgentListen(c) \/ TabAdmit(c) \/ DropEarly(c) \/ RecvJoin(c)
         \/ ServerClose(c) \/ CleanupRows(c) \/ CleanupPresence(c)
         \/ ServerHangsUp(c) \/ Lose(c)
  PROVE  IInv'
<1>1. CASE AgentAdmit(c) \/ AgentListen(c) \/ TabAdmit(c) \/ CleanupPresence(c)
  <2>1. UNCHANGED <<db, joined, members, queries, writes, net, agent>>
    BY <1>1, Zenon DEF AgentAdmit, AgentListen, TabAdmit, CleanupPresence
  <2> QED BY <2>1, Keep DEF db, net, agent, IInv
<1>2. CASE DropEarly(c)
  <2>1. SentFrames'
    BY <1>2, Taking, OutboxShrinks DEF DropEarly, TypeOK, agent
  <2> QED BY <1>2, <2>1, Keep DEF DropEarly, db, server, agent, IInv
<1>3. CASE RecvJoin(c)
  <2>1. SentFrames'
    BY <1>3, Taking, OutboxShrinks DEF RecvJoin, TypeOK, agent
  <2>2. outbox[c] \in Seq(Frames) /\ outbox[c] # <<>> /\ Head(outbox[c]).type = "join"
    BY <1>3 DEF RecvJoin, TypeOK
  <2>3. c \in AgentConns => verdict[Head(outbox[c]).session] # "open"
    BY <2>2, HeadQueued DEF IInv, SentFrames
  <2>4. ChannelsJoined'
    BY <1>3, <2>3 DEF RecvJoin, IInv, ChannelsJoined, agent
  <2> QED BY <1>3, <2>1, <2>4, Keep DEF RecvJoin, db, agent, IInv
<1>4. CASE ServerClose(c)
  <2>1. SentFrames'
    BY <1>4, Taking, OutboxShrinks DEF ServerClose, TypeOK, agent
  <2>2. \A s \in Sessions : members'[s] \subseteq members[s]
    BY <1>4 DEF ServerClose
  <2>3. ChannelsJoined'
    BY <1>4, <2>2 DEF ServerClose, IInv, ChannelsJoined, agent
  <2> QED BY <1>4, <2>1, <2>3, Keep DEF ServerClose, db, agent, IInv
<1>5. CASE CleanupRows(c)
  <2>1. \A s \in Sessions : row'[s] = "none" <=> row[s] = "none"
    BY <1>5 DEF CleanupRows, Live
  <2>2. RowsRequested'
    BY <1>5, <2>1 DEF CleanupRows, IInv, RowsRequested
  <2>3. StatementsDecided'
    BY <1>5, <2>1 DEF CleanupRows, IInv, StatementsDecided, agent
  <2> QED BY <1>5, <2>2, <2>3, Keep DEF CleanupRows, net, agent, IInv
<1>6. CASE ServerHangsUp(c) \/ Lose(c)
  <2>1. /\ up' = [up EXCEPT ![c] = FALSE]
        /\ outbox' = outbox \/ outbox' = [outbox EXCEPT ![c] = <<>>]
        /\ UNCHANGED <<db, server, writes, inbox, agent>>
    BY <1>6, Zenon DEF ServerHangsUp, Lose
  <2>2. SentFrames'
    BY <2>1, Taking, OutboxShrinks DEF TypeOK, agent
  <2>3. OneSocket'
    <3>1. \A d \in Conns : ~up[d] => ~up'[d]
      BY <2>1 DEF TypeOK
    <3> QED BY <2>1, <3>1, ConnParts DEF IInv, OneSocket, agent
  <2> QED BY <2>1, <2>2, <2>3, Keep DEF db, server, agent, IInv
<1> QED BY <1>1, <1>2, <1>3, <1>4, <1>5, <1>6

LEMMA RestartKeeps ==
  ASSUME TypeOK, IInv, ServerRestart
  PROVE  IInv'
<1>1. SentFrames'
  <2>1. \A c \in Conns : Shrunk(outbox'[c], outbox[c])
    BY DEF ServerRestart, Shrunk
  <2> QED BY <2>1, OutboxShrinks DEF ServerRestart, agent
<1>2. \A s \in Sessions : /\ req[s] = "invited" <=> req'[s] = "invited"
                         /\ req[s] \in {"idle", "checked"} <=> req'[s] \in {"idle", "checked"}
  BY DEF ServerRestart, TypeOK
<1>3. RowsRequested' /\ DecidedInvited'
  BY <1>2 DEF ServerRestart, IInv, RowsRequested, DecidedInvited, agent
<1>4. InvitesOpen'
  BY <1>2, Queued DEF ServerRestart, IInv, InvitesOpen, agent
<1>5. OneSocket'
  BY ConnParts DEF ServerRestart, IInv, OneSocket, agent
<1>6. ChannelsJoined' /\ StatementsDecided'
  BY DEF ServerRestart, IInv, ChannelsJoined, StatementsDecided, agent
<1> QED BY <1>1, <1>3, <1>4, <1>5, <1>6, Keep DEF ServerRestart, agent, IInv

\* Taking a frame from the agent's inbox.
LEMMA AgentTaking ==
  ASSUME TypeOK, IInv, NEW type, AgentTakes(type)
  PROVE  /\ agentConn \in AgentConns /\ agentConn \in Conns
         /\ Taken \in Sessions
         /\ 1 \in 1 .. Len(inbox[agentConn])
         /\ inbox[agentConn][1].type = type /\ inbox[agentConn][1].session = Taken
         /\ \A c \in Conns : Shrunk(inbox'[c], inbox[c])
         /\ UNCHANGED <<up, agentConn>> => OneSocket'
<1>1. /\ agentConn \in AgentConns /\ agentConn \in Conns
      /\ inbox[agentConn] \in Seq(Frames) /\ inbox[agentConn] # <<>>
      /\ inbox' = [inbox EXCEPT ![agentConn] = Tail(@)]
  BY ConnParts DEF AgentTakes, TypeOK
<1>2. \A c \in Conns : Shrunk(inbox'[c], inbox[c])
  BY <1>1, Taking DEF TypeOK
<1>3. ASSUME UNCHANGED <<up, agentConn>> PROVE OneSocket'
  BY <1>1, <1>3, ConnParts DEF IInv, OneSocket
<1> QED BY <1>1, <1>2, <1>3, HeadQueued, HeadTail DEF AgentTakes, Taken

LEMMA Concatenated ==
  ASSUME NEW p \in Seq(Frames), NEW q \in Seq(Frames), NEW i \in 1 .. Len(p \o q)
  PROVE  \/ i \in 1 .. Len(p) /\ (p \o q)[i] = p[i]
         \/ \E j \in 1 .. Len(q) : (p \o q)[i] = q[j]
<1>1. Len(p) \in Nat /\ Len(q) \in Nat /\ Len(p \o q) = Len(p) + Len(q)
  BY LenProperties, ConcatProperties
<1>2. CASE i \in 1 .. Len(p)
  BY <1>2
<1>3. CASE i \notin 1 .. Len(p)
  <2>1. i - Len(p) \in 1 .. Len(q) /\ (p \o q)[i] = q[i - Len(p)]
    BY <1>1, <1>3
  <2> QED BY <2>1
<1> QED BY <1>2, <1>3

LEMMA AgentInviteKeeps ==
  ASSUME TypeOK, IInv, AgentInvite
  PROVE  IInv'
<1> DEFINE s == Taken
          Telling(v) == {Frame("join", s), Frame("offer", s),
                         Frame(IF v = "accepted" THEN "accept" ELSE "deny", s)}
<1>1. /\ AgentTakes("invite")
      /\ UNCHANGED <<db, server, writes, up, agentConn>>
  BY DEF AgentInvite
<1>2. /\ agentConn \in AgentConns /\ agentConn \in Conns /\ s \in Sessions
      /\ \A c \in Conns : Shrunk(inbox'[c], inbox[c])
      /\ OneSocket'
      /\ 1 \in 1 .. Len(inbox[agentConn])
      /\ inbox[agentConn][1].type = "invite" /\ inbox[agentConn][1].session = s
  BY <1>1, AgentTaking
<1>3. req[s] = "invited" /\ verdict[s] = "open"
  BY <1>2 DEF IInv, InvitesOpen
<1>4. RelayIsolation'
  BY <1>1, <1>2, InboxShrinks DEF server
<1>5. CASE UNCHANGED <<outbox, active, pc, pendingReady, verdict>>
  <2>1. InvitesOpen'
    BY <1>1, <1>2, <1>5, InboxShrinks DEF db
  <2> QED BY <1>1, <1>2, <1>4, <1>5, <2>1, Keep DEF db, server, IInv
<1>6. ASSUME NEW v \in {"accepted", "refused"}, verdict' = [verdict EXCEPT ![s] = v],
             NEW fs \in Seq(Frames), outbox' = Send(agentConn, fs),
             \A i \in 1 .. Len(fs) : fs[i] \in Telling(v),
             active' = active \/ (v = "accepted" /\ active' = s),
             pendingReady' = pendingReady \/ pendingReady' = NoSession
      PROVE  IInv'
  <2>1. \A r \in Sessions : verdict[r] # "open" => verdict'[r] = verdict[r]
    BY <1>3, <1>6 DEF TypeOK
  <2>2. verdict'[s] = v
    BY <1>2, <1>6 DEF TypeOK
  <2>3. DecidedInvited'
    BY <1>1, <1>3, <1>6 DEF db, IInv, DecidedInvited, TypeOK
  <2>4. SentFrames'
    <3> SUFFICES ASSUME NEW d \in Conns, NEW i \in 1 .. Len(outbox'[d])
                 PROVE  LET g == outbox'[d][i] IN
                          /\ g.type \in ClientTypes
                          /\ g.type = "accept" => verdict'[g.session] = "accepted"
                          /\ g.type = "deny" => verdict'[g.session] = "refused"
                          /\ d \in AgentConns /\ g.type = "join" => verdict'[g.session] # "open"
      BY DEF SentFrames
    <3>1. outbox[d] \in Seq(Frames)
      BY DEF TypeOK
    <3>2. \/ i \in 1 .. Len(outbox[d]) /\ outbox'[d][i] = outbox[d][i]
          \/ \E j \in 1 .. Len(fs) : outbox'[d][i] = fs[j]
      <4>1. CASE outbox'[d] = outbox[d]
        BY <4>1
      <4>2. CASE outbox'[d] = outbox[d] \o fs
        BY <1>6, <3>1, <4>2, Concatenated
      <4> QED BY <1>6, <4>1, <4>2 DEF Send, TypeOK
    <3>3. CASE i \in 1 .. Len(outbox[d]) /\ outbox'[d][i] = outbox[d][i]
      <4>1. outbox[d][i].session \in Sessions
        BY <3>3, Queued
      <4> QED BY <2>1, <3>3, <4>1 DEF IInv, SentFrames
    <3>4. CASE \E j \in 1 .. Len(fs) : outbox'[d][i] = fs[j]
      BY <1>6, <2>2, <3>4 DEF ClientTypes, Frame
    <3> QED BY <3>2, <3>3, <3>4
  <2>5. StatementsDecided'
    BY <1>1, <2>1 DEF db, IInv, StatementsDecided
  <2>6. ChannelsJoined'
    BY <1>1, <2>1 DEF server, IInv, ChannelsJoined
  <2>7. ServedAccepted'
    BY <1>6, <2>1, <2>2 DEF IInv, ServedAccepted, TypeOK
  <2>8. ReadyFollowsVerdict'
    BY <1>6, <2>1, SessionsAssumption DEF IInv, ReadyFollowsVerdict
  <2>9. InvitesOpen'
    <3> SUFFICES ASSUME NEW c \in Conns, NEW i \in 1 .. Len(inbox'[c]),
                        inbox'[c][i].type = "invite"
                 PROVE  /\ c \in AgentConns
                        /\ req[inbox'[c][i].session] = "invited"
                        /\ verdict'[inbox'[c][i].session] = "open"
                        /\ \A j \in 1 .. Len(inbox'[c]) : inbox'[c][j] = inbox'[c][i] => j = i
      BY <1>1 DEF InvitesOpen, db
    <3>1. c = agentConn /\ inbox'[c] = Tail(inbox[c]) /\ inbox[c] # <<>>
      <4>1. inbox' = [inbox EXCEPT ![agentConn] = Tail(@)] /\ inbox[agentConn] # <<>>
        BY <1>1 DEF AgentTakes
      <4>2. ASSUME c # agentConn PROVE FALSE
        <5>1. inbox'[c] = inbox[c]
          BY <4>1, <4>2 DEF TypeOK
        <5>2. c \in AgentConns
          BY <5>1 DEF IInv, InvitesOpen
        <5>3. inbox[c] = <<>>
          BY <4>2, <5>2 DEF IInv, OneSocket
        <5> QED BY <5>1, <5>3
      <4> QED BY <1>2, <4>1, <4>2 DEF TypeOK
    <3>2. inbox[c] \in Seq(Frames)
      BY DEF TypeOK
    <3>3. Len(Tail(inbox[c])) = Len(inbox[c]) - 1 /\ Len(inbox[c]) \in Nat
          /\ \A j \in 1 .. Len(Tail(inbox[c])) : Tail(inbox[c])[j] = inbox[c][j + 1]
      BY <3>1, <3>2, HeadTailProperties
    <3>4. \A j \in 1 .. Len(inbox'[c]) : j + 1 \in 1 .. Len(inbox[c]) /\ inbox'[c][j] = inbox[c][j + 1]
      BY <3>1, <3>3
    <3>5. /\ req[inbox[c][i + 1].session] = "invited"
          /\ verdict[inbox[c][i + 1].session] = "open"
          /\ \A j \in 1 .. Len(inbox[c]) : inbox[c][j] = inbox[c][i + 1] => j = i + 1
      BY <3>4 DEF IInv, InvitesOpen
    <3>6. \A j \in 1 .. Len(inbox'[c]) : inbox'[c][j] = inbox'[c][i] => j = i
      BY <3>4, <3>5
    <3>7. inbox[c][i + 1].session # s
      <4>1. inbox[c][i + 1] \in Frames /\ inbox[c][1] \in Frames
        BY <1>2, <3>1, <3>4, Queued
      <4>2. ASSUME inbox[c][i + 1].session = s PROVE inbox[c][1] = inbox[c][i + 1]
        BY <1>2, <3>1, <3>4, <4>1, <4>2 DEF Frames
      <4>3. 1 # i + 1
        OBVIOUS
      <4> QED BY <1>2, <3>1, <3>5, <4>2, <4>3
    <3>8. inbox[c][i + 1].session \in Sessions
      BY <3>4, Queued
    <3> QED BY <1>2, <1>6, <3>1, <3>4, <3>5, <3>6, <3>7, <3>8 DEF TypeOK
  <2> QED BY <1>1, <1>2, <1>4, <2>3, <2>4, <2>5, <2>6, <2>7, <2>8, <2>9, Keep DEF db, server, IInv
<1>7. /\ Frame("join", s) \in Frames /\ Frame("accept", s) \in Frames
      /\ Frame("deny", s) \in Frames /\ Frame("offer", s) \in Frames
  BY <1>2, FrameType DEF FrameTypes
<1>8. CASE Refuses(s)
  <2> DEFINE fs == <<Frame("join", s), Frame("deny", s)>>
  <2>1. fs \in Seq(Frames)
    BY <1>7, ShortQueues
  <2>2. \A i \in 1 .. Len(fs) : fs[i] \in Telling("refused")
    OBVIOUS
  <2>3. outbox' = Send(agentConn, fs) /\ UNCHANGED <<active, pendingReady>>
        /\ verdict' = [verdict EXCEPT ![s] = "refused"]
    BY <1>8 DEF Refuses, Answers
  <2> HIDE DEF fs
  <2> QED BY <1>6, <2>1, <2>2, <2>3
<1>9. CASE /\ verdict' = [verdict EXCEPT ![s] = "accepted"] /\ active' = s
           /\ pendingReady' = NoSession
           /\ outbox' = Send(agentConn, Answers("accept", s) \o <<Frame("offer", s)>>)
  <2> DEFINE fs == Answers("accept", s) \o <<Frame("offer", s)>>
  <2>1. Answers("accept", s) \in Seq(Frames) /\ <<Frame("offer", s)>> \in Seq(Frames)
    BY <1>7, ShortQueues DEF Answers
  <2>2. /\ \A i \in 1 .. Len(Answers("accept", s)) : Answers("accept", s)[i] \in Telling("accepted")
        /\ \A i \in 1 .. Len(<<Frame("offer", s)>>) : <<Frame("offer", s)>>[i] \in Telling("accepted")
    BY DEF Answers
  <2>3. fs \in Seq(Frames)
    BY <2>1, ConcatProperties
  <2>4. \A i \in 1 .. Len(fs) : fs[i] \in Telling("accepted")
    <3> HIDE DEF Telling
    <3> QED BY <2>1, <2>2, Concatenated
  <2>5. outbox' = Send(agentConn, fs)
    BY <1>9
  <2> HIDE DEF fs
  <2> QED BY <1>6, <1>9, <2>3, <2>4, <2>5
<1>10. CASE /\ verdict' = [verdict EXCEPT ![s] = "accepted"] /\ active' = s
            /\ pendingReady' = pendingReady
            /\ outbox' = Send(agentConn, Answers("accept", s))
  <2> DEFINE fs == <<Frame("join", s), Frame("accept", s)>>
  <2>1. fs \in Seq(Frames)
    BY <1>7, ShortQueues
  <2>2. \A i \in 1 .. Len(fs) : fs[i] \in Telling("accepted")
    OBVIOUS
  <2>3. outbox' = Send(agentConn, fs)
    BY <1>10 DEF Answers
  <2> HIDE DEF fs
  <2> QED BY <1>6, <1>10, <2>1, <2>2, <2>3
<1> QED BY <1>5, <1>8, <1>9, <1>10, Zenon DEF AgentInvite, AcceptSession

\* The agent's other frames: its loop only takes them.
LEMMA AgentReceivesKeeps ==
  ASSUME TypeOK, IInv, AgentEnd \/ AgentReady \/ AgentAnswer \/ AgentNoticesLoss
  PROVE  IInv'
<1>1. CASE AgentEnd
  <2>1. AgentTakes("end") /\ UNCHANGED <<db, server, writes, up, outbox, agentConn, pendingReady, verdict>>
    BY <1>1 DEF AgentEnd
  <2>2. RelayIsolation' /\ InvitesOpen' /\ OneSocket'
    BY <2>1, AgentTaking, InboxShrinks DEF db, server
  <2>3. ServedAccepted'
    BY <1>1, <2>1 DEF AgentEnd, IInv, ServedAccepted
  <2> QED BY <2>1, <2>2, <2>3, Keep DEF db, server, IInv
<1>2. CASE AgentReady
  <2>1. AgentTakes("ready") /\ UNCHANGED <<db, server, writes, up, agentConn, active, verdict>>
    BY <1>2 DEF AgentReady
  <2>2. RelayIsolation' /\ InvitesOpen' /\ OneSocket'
    BY <2>1, AgentTaking, InboxShrinks DEF db, server
  <2>3. verdict[Taken] # "open"
    <3>1. Taken \in joined[agentConn] /\ agentConn \in AgentConns /\ Taken \in Sessions
      BY <2>1, AgentTaking DEF IInv, RelayIsolation
    <3> QED BY <3>1 DEF IInv, ChannelsJoined
  <2>4. ReadyFollowsVerdict'
    BY <1>2, <2>1, <2>3 DEF AgentReady, IInv, ReadyFollowsVerdict
  <2>5. SentFrames'
    <3>1. CASE UNCHANGED outbox
      BY <2>1, <3>1, Keep
    <3>2. CASE outbox' = Send(agentConn, <<Frame("offer", Taken)>>)
      <4>1. Frame("offer", Taken) \in Frames /\ Frame("offer", Taken).type = "offer"
        BY <2>1, AgentTaking, FrameType DEF FrameTypes, Frame
      <4> QED BY <2>1, <3>2, <4>1, AgentTaking, Sent
    <3> QED BY <1>2, <3>1, <3>2 DEF AgentReady
  <2> QED BY <2>1, <2>2, <2>4, <2>5, Keep DEF db, server, IInv
<1>3. CASE AgentAnswer
  <2>1. /\ AgentTakes("answer")
        /\ UNCHANGED <<db, server, writes, up, outbox, agentConn, active, pendingReady, verdict>>
    BY <1>3 DEF AgentAnswer
  <2>2. RelayIsolation' /\ InvitesOpen' /\ OneSocket'
    BY <2>1, AgentTaking, InboxShrinks DEF db, server
  <2> QED BY <2>1, <2>2, Keep DEF db, server, IInv
<1>4. CASE AgentNoticesLoss
  <2>1. /\ inbox' = [inbox EXCEPT ![agentConn] = <<>>] /\ ~up[agentConn] /\ agentConn' = NoConn
        /\ agentConn \in AgentConns /\ agentConn \in Conns
        /\ UNCHANGED <<db, server, writes, up, outbox, active, pendingReady, verdict>>
    BY <1>4, ConnParts DEF AgentNoticesLoss, TypeOK
  <2>2. RelayIsolation' /\ InvitesOpen'
    BY <2>1, Taking, InboxShrinks DEF db, server, TypeOK
  <2>3. OneSocket'
    BY <2>1, ConnParts DEF IInv, OneSocket, TypeOK
  <2> QED BY <2>1, <2>2, <2>3, Keep DEF db, server, IInv
<1> QED BY <1>1, <1>2, <1>3, <1>4

\* Connecting, ending, and the ways the process goes.
LEMMA AgentOtherKeeps ==
  ASSUME TypeOK, IInv, AgentOther
  PROVE  IInv'
<1>1. ASSUME NEW c \in AgentConns, AgentConnect(c) PROVE IInv'
  <2>1. /\ agentConn = NoConn /\ agentConn' = c /\ up' = [up EXCEPT ![c] = TRUE]
        /\ c \in Conns
        /\ UNCHANGED <<db, joined, members, queries, writes, inbox, active, pendingReady, verdict>>
    BY <1>1, ConnParts DEF AgentConnect
  <2>2. OneSocket'
    BY <2>1, ConnParts, ConnsAssumption DEF IInv, OneSocket, TypeOK
  <2>3. SentFrames'
    <3>1. CASE active = NoSession
      BY <1>1, <2>1, <3>1, Keep DEF AgentConnect
    <3>2. CASE active # NoSession
      <4> DEFINE fs == <<Frame("join", active), Frame("offer", active)>>
      <4>1. outbox' = [outbox EXCEPT ![c] = fs]
        BY <1>1, <3>2 DEF AgentConnect
      <4>2. \A i \in 1 .. Len(fs) : fs[i].type \in {"join", "offer"} /\ fs[i].session = active
        BY DEF Frame
      <4>3. verdict[active] = "accepted"
        BY <3>2 DEF IInv, ServedAccepted
      <4> HIDE DEF fs
      <4> QED BY <2>1, <4>1, <4>2, <4>3 DEF IInv, SentFrames, ClientTypes, TypeOK
    <3> QED BY <3>1, <3>2
  <2> QED BY <2>1, <2>2, <2>3, Keep DEF db, IInv
<1>2. CASE AgentLocalEnd
  <2>1. /\ agentConn \in Conns /\ active' = NoSession
        /\ Frame("end", active) \in Frames /\ Frame("end", active).type = "end"
        /\ outbox' = Send(agentConn, <<Frame("end", active)>>)
        /\ UNCHANGED <<db, server, writes, up, inbox, agentConn, pendingReady, verdict>>
    BY <1>2, ConnParts, FrameType DEF AgentLocalEnd, FrameTypes, Frame, TypeOK
  <2>2. SentFrames'
    BY <2>1, Sent
  <2>3. ServedAccepted'
    BY <2>1 DEF ServedAccepted
  <2> QED BY <2>1, <2>2, <2>3, Keep DEF db, server, IInv
<1>3. ASSUME AgentExits, SentFrames' PROVE IInv'
  <2>1. /\ up' = [c \in Conns |-> IF c = agentConn THEN FALSE ELSE up[c]]
        /\ inbox' = [c \in Conns |-> IF c = agentConn THEN <<>> ELSE inbox[c]]
        /\ agentConn' = NoConn /\ active' = NoSession /\ pendingReady' = NoSession
        /\ UNCHANGED <<db, joined, members, queries, writes, verdict>>
    BY <1>3 DEF AgentExits
  <2>2. \A c \in Conns : Shrunk(inbox'[c], inbox[c])
    BY <2>1 DEF Shrunk
  <2>3. RelayIsolation' /\ InvitesOpen'
    BY <2>1, <2>2, InboxShrinks DEF db
  <2>4. OneSocket'
    BY <2>1, ConnParts DEF IInv, OneSocket
  <2>5. ServedAccepted' /\ ReadyFollowsVerdict'
    BY <2>1, SessionsAssumption DEF ServedAccepted, ReadyFollowsVerdict
  <2> QED BY <1>3, <2>1, <2>3, <2>4, <2>5, Keep DEF db, IInv
<1>4. CASE AgentQuit
  <2>1. AgentExits
    BY <1>4 DEF AgentQuit
  <2>2. SentFrames'
    <3>1. CASE active = NoSession
      BY <1>4, <2>1, <3>1, Keep DEF AgentQuit, AgentExits
    <3>2. CASE active # NoSession
      <4>1. /\ agentConn \in Conns
            /\ Frame("end", active) \in Frames /\ Frame("end", active).type = "end"
            /\ outbox' = Send(agentConn, <<Frame("end", active)>>)
        BY <1>4, <3>2, ConnParts, FrameType DEF AgentQuit, FrameTypes, Frame, TypeOK
      <4> QED BY <2>1, <4>1, Sent DEF AgentExits
    <3> QED BY <3>1, <3>2
  <2> QED BY <1>3, <2>1, <2>2
<1>5. CASE AgentCrash \/ AgentGivesUp
  <2>1. AgentExits /\ UNCHANGED outbox
    BY <1>5 DEF AgentCrash, AgentGivesUp
  <2>2. SentFrames'
    BY <2>1, Keep DEF AgentExits
  <2> QED BY <1>3, <2>1, <2>2
<1> QED BY <1>1, <1>2, <1>4, <1>5 DEF AgentOther

\* A page writes nothing that tells a verdict, and takes from its own inbox.
LEMMA TabKeeps ==
  ASSUME TypeOK, IInv, NEW t \in Tabs,
         TabReceives(t) \/ TabOpen(t) \/ TabDisconnect(t) \/ TabClose(t)
  PROVE  IInv'
<1>1. t \in Conns /\ t \notin AgentConns /\ TabSession[t] \in Sessions
  BY ConnParts, ConnsAssumption, TabsAssumption
<1>2. ASSUME /\ \A c \in Conns : Shrunk(inbox'[c], inbox[c])
             /\ inbox' = [inbox EXCEPT ![t] = inbox'[t]]
             /\ up' = [up EXCEPT ![t] = up'[t]]
             /\ UNCHANGED <<db, agent, joined, members, queries>>,
             SentFrames', StatementsDecided'
      PROVE  IInv'
  <2>1. RelayIsolation' /\ InvitesOpen'
    BY <1>2, InboxShrinks DEF db, agent
  <2>2. OneSocket'
    BY <1>1, <1>2, ConnParts DEF IInv, OneSocket, agent, TypeOK
  <2> QED BY <1>2, <2>1, <2>2, Keep DEF db, agent, IInv
<1>3. ASSUME NEW phase, Teardown(t, phase)
      PROVE  /\ \A c \in Conns : Shrunk(inbox'[c], inbox[c])
             /\ inbox' = [inbox EXCEPT ![t] = inbox'[t]]
             /\ up' = [up EXCEPT ![t] = up'[t]]
  BY <1>1, <1>3, Taking, ZenonT(60) DEF Teardown, TypeOK
<1>4. CASE TabRecv(t)
  <2>1. UNCHANGED <<db, server, writes, agent>> /\ inbox[t] # <<>>
    BY <1>4 DEF TabRecv
  <2>2. StatementsDecided'
    BY <2>1, Keep DEF db, agent
  <2>3. CASE \E phase : Teardown(t, phase) /\ UNCHANGED outbox
    <3>1. SentFrames'
      BY <2>1, <2>3, Keep DEF agent
    <3> QED BY <1>2, <1>3, <2>1, <2>2, <2>3, <3>1 DEF server
  <2>4. CASE /\ inbox' = [inbox EXCEPT ![t] = Tail(@)]
             /\ outbox' = Send(t, <<Frame("answer", Head(inbox[t]).session)>>)
             /\ UNCHANGED up
    <3>1. Head(inbox[t]).session \in Sessions
      BY <1>1, <2>1, HeadTail DEF TypeOK
    <3>2. /\ Frame("answer", Head(inbox[t]).session) \in Frames
          /\ Frame("answer", Head(inbox[t]).session).type = "answer"
      BY <3>1, FrameType DEF FrameTypes, Frame
    <3>3. SentFrames'
      BY <1>1, <2>1, <2>4, <3>2, Sent DEF agent
    <3>4. /\ \A c \in Conns : Shrunk(inbox'[c], inbox[c])
          /\ inbox' = [inbox EXCEPT ![t] = inbox'[t]]
          /\ up' = [up EXCEPT ![t] = up'[t]]
      BY <1>1, <2>1, <2>4, Taking, ZenonT(60) DEF TypeOK
    <3> QED BY <1>2, <2>1, <2>2, <3>3, <3>4 DEF server
  <2> QED BY <1>4, <2>3, <2>4, Zenon DEF TabRecv
<1>5. CASE TabNoticesLoss(t) \/ TabClose(t)
  <2>1. /\ \E phase : Teardown(t, phase)
        /\ UNCHANGED <<db, server, writes, outbox, agent>>
    BY <1>5 DEF TabNoticesLoss, TabClose
  <2>2. SentFrames' /\ StatementsDecided'
    BY <2>1, Keep DEF db, agent
  <2> QED BY <1>2, <1>3, <2>1, <2>2 DEF server
<1>6. CASE TabDisconnect(t)
  <2>1. /\ outbox' = Send(t, <<Frame("end", TabSession[t])>>)
        /\ writes' = writes \cup {<<"lookup", TabSession[t]>>}
        /\ Teardown(t, "left")
        /\ UNCHANGED <<db, server, agent>>
    BY <1>6 DEF TabDisconnect
  <2>2. Frame("end", TabSession[t]) \in Frames /\ Frame("end", TabSession[t]).type = "end"
    BY <1>1, FrameType DEF FrameTypes, Frame
  <2>3. SentFrames'
    BY <1>1, <2>1, <2>2, Sent DEF agent
  <2>4. StatementsDecided'
    BY <2>1 DEF db, agent, IInv, StatementsDecided
  <2> QED BY <1>2, <1>3, <2>1, <2>3, <2>4 DEF server
<1>7. CASE TabOpen(t)
  <2>1. /\ up' = up \/ up' = [up EXCEPT ![t] = TRUE]
        /\ outbox' = outbox \/ outbox' = [outbox EXCEPT ![t] = <<Frame("join", TabSession[t])>>]
        /\ UNCHANGED <<db, joined, members, queries, writes, inbox, agent>>
    BY <1>7, Zenon DEF TabOpen
  <2>2. SentFrames'
    <3> DEFINE fs == <<Frame("join", TabSession[t])>>
    <3>1. \A i \in 1 .. Len(fs) : fs[i].type = "join"
      BY DEF Frame
    <3>2. outbox' = outbox \/ outbox' = [outbox EXCEPT ![t] = fs]
      BY <2>1
    <3>3. \A c \in AgentConns : outbox'[c] = outbox[c]
      BY <1>1, <3>2, ConnParts DEF TypeOK
    <3>4. \A c \in Conns : outbox'[c] = outbox[c] \/ outbox'[c] = fs
      BY <3>2 DEF TypeOK
    <3> HIDE DEF fs
    <3> QED BY <2>1, <3>1, <3>3, <3>4 DEF agent, IInv, SentFrames, ClientTypes
  <2>3. StatementsDecided'
    BY <2>1, Keep DEF db, agent
  <2>4. /\ \A c \in Conns : Shrunk(inbox'[c], inbox[c])
        /\ inbox' = [inbox EXCEPT ![t] = inbox'[t]]
        /\ up' = [up EXCEPT ![t] = up'[t]]
    BY <1>1, <2>1 DEF Shrunk, TypeOK
  <2> QED BY <1>2, <2>1, <2>2, <2>3, <2>4
<1> QED BY <1>4, <1>5, <1>6, <1>7 DEF TabReceives

LEMMA InvStep == TypeOK /\ IInv /\ [Next]_vars => IInv'
<1> SUFFICES ASSUME TypeOK, IInv, [Next]_vars PROVE IInv'
  OBVIOUS
<1>1. ASSUME NEW s \in Sessions, Create(s) \/ Database(s) PROVE IInv'
  BY <1>1, CreateKeeps, DatabaseKeeps
<1>2. ASSUME NEW c \in Conns, ServerSocket(c) \/ ServerHangsUp(c) \/ Lose(c) PROVE IInv'
  BY <1>2, RelayKeeps, SocketKeeps DEF ServerSocket
<1>3. ASSUME NEW c \in Conns, NEW s \in Sessions, JoinDone(c, s) PROVE IInv'
  BY <1>3, JoinKeeps
<1>4. CASE PresenceLapse
  BY <1>4, Keep DEF PresenceLapse, db, net, agent, IInv
<1>5. CASE ServerRestart
  BY <1>5, RestartKeeps
<1>6. CASE AgentReceives
  BY <1>6, AgentInviteKeeps, AgentReceivesKeeps DEF AgentReceives
<1>7. CASE AgentOther
  BY <1>7, AgentOtherKeeps
<1>8. ASSUME NEW t \in Tabs, TabReceives(t) \/ TabOpen(t) \/ TabDisconnect(t) \/ TabClose(t)
      PROVE  IInv'
  BY <1>8, TabKeeps
<1>9. CASE UNCHANGED vars
  BY <1>9, Keep DEF vars, db, server, net, agent, IInv
<1> QED BY <1>1, <1>2, <1>3, <1>4, <1>5, <1>6, <1>7, <1>8, <1>9 DEF Next

LEMMA Invariant == Spec => [](TypeOK /\ IInv)
<1>1. Init => TypeOK /\ IInv
  BY TypeInit, InvInit
<1>2. TypeOK /\ IInv /\ [Next]_vars => (TypeOK /\ IInv)'
  BY TypeStep, InvStep
<1> QED BY <1>1, <1>2, PTL DEF Spec

\* Whatever sockets die and whenever handlers run, the relay hands a
\* session's frames only to sockets that passed the check of session:join.
THEOREM RelayIsolated == Spec => []RelayIsolation
<1>1. IInv => RelayIsolation
  BY DEF IInv
<1> QED BY <1>1, Invariant, PTL

\* The agent never remembers a session:ready for a session it has yet to
\* decide on, so accept_session never finds one for the session it starts.
THEOREM ReadyIsLate == Spec => []ReadyFollowsVerdict
<1>1. IInv => ReadyFollowsVerdict
  BY DEF IInv
<1> QED BY <1>1, Invariant, PTL

\* The presence entry: only a socket's own admission names it, and any close
\* handler clears it before the socket leaves the stages that may be named.
LEMMA PresenceStep == TypeOK /\ PresenceHasSocket /\ [Next]_vars => PresenceHasSocket'
<1> SUFFICES ASSUME TypeOK, PresenceHasSocket, [Next]_vars PROVE PresenceHasSocket'
  OBVIOUS
<1>1. presence # NoConn => presence \in Conns
  BY ConnParts DEF TypeOK
<1>2. ASSUME UNCHANGED <<presence, stage>> PROVE PresenceHasSocket'
  BY <1>2 DEF PresenceHasSocket
<1>3. ASSUME presence' = NoConn PROVE PresenceHasSocket'
  BY <1>3 DEF PresenceHasSocket
<1>4. ASSUME NEW c \in Conns, UNCHANGED presence,
             NEW v \in {"auth", "added", "open", "closing", "dropping", "closed", "zombie"},
             stage' = [stage EXCEPT ![c] = v],
             v \in {"auth", "closed"} => stage[c] \in {"unused", "auth"} \/ c \in Tabs
      PROVE  PresenceHasSocket'
  <2>1. c = presence => v \notin {"auth", "closed"} \/ presence = NoConn
    BY <1>4, ConnsAssumption DEF PresenceHasSocket, TypeOK
  <2> QED BY <1>1, <1>4, <2>1 DEF PresenceHasSocket, TypeOK
<1>5. ASSUME NEW c \in Conns, ServerSocket(c) PROVE PresenceHasSocket'
  <2>1. CASE AgentAdmit(c)
    BY <2>1 DEF AgentAdmit, PresenceHasSocket, TypeOK
  <2>2. CASE AgentListen(c) \/ TabAdmit(c)
    <3>1. /\ UNCHANGED presence
          /\ stage' = [stage EXCEPT ![c] = "open"] \/ stage' = [stage EXCEPT ![c] = "zombie"]
      BY <2>2, Zenon DEF AgentListen, TabAdmit
    <3> QED BY <1>4, <3>1
  <2>3. CASE DropEarly(c) \/ RecvJoin(c) \/ RecvRelay(c)
    BY <1>2, <2>3 DEF DropEarly, RecvJoin, RecvRelay, server
  <2>4. CASE ServerClose(c)
    <3>1. /\ UNCHANGED presence
          /\ \/ stage' = [stage EXCEPT ![c] = "closing"]
             \/ c \in Tabs /\ stage' = [stage EXCEPT ![c] = "closed"]
      BY <2>4 DEF ServerClose, Conns
    <3> QED BY <1>4, <3>1
  <2>5. CASE CleanupRows(c)
    BY <1>4, <2>5 DEF CleanupRows
  <2>6. CASE CleanupPresence(c)
    BY <1>3, <2>6 DEF CleanupPresence
  <2> QED BY <1>5, <2>1, <2>2, <2>3, <2>4, <2>5, <2>6 DEF ServerSocket
<1>6. ASSUME NEW c \in AgentConns, AgentConnect(c) PROVE PresenceHasSocket'
  <2>1. stage' = [stage EXCEPT ![c] = "auth"] /\ stage[c] = "unused" /\ UNCHANGED presence
    BY <1>6 DEF AgentConnect
  <2> QED BY <1>4, <2>1, ConnParts
<1>7. ASSUME NEW t \in Tabs, TabOpen(t) PROVE PresenceHasSocket'
  <2>1. /\ UNCHANGED presence
        /\ UNCHANGED stage \/ stage' = [stage EXCEPT ![t] = "auth"]
    BY <1>7, Zenon DEF TabOpen
  <2> QED BY <1>2, <1>4, <2>1, ConnParts
<1>8. CASE PresenceLapse \/ ServerRestart \/ AgentQuit
  BY <1>3, <1>8 DEF PresenceLapse, ServerRestart, AgentQuit
<1>9. CASE AgentReceives \/ AgentLocalEnd \/ AgentCrash \/ AgentGivesUp
  BY <1>2, <1>9 DEF AgentReceives, AgentInvite, AgentEnd, AgentReady, AgentAnswer,
     AgentNoticesLoss, AgentLocalEnd, AgentCrash, AgentGivesUp, AgentExits, server
<1>10. ASSUME NEW s \in Sessions, Create(s) \/ Database(s) PROVE PresenceHasSocket'
  BY <1>2, <1>10 DEF Create, CreateCheck, CreateInsert, CreateInvite, Database, MarkActive,
     MarkDenied, MarkEnded, TerminateLookup, Terminate, Statement, server
<1>11. ASSUME NEW c \in Conns, ServerHangsUp(c) \/ Lose(c) PROVE PresenceHasSocket'
  BY <1>2, <1>11 DEF ServerHangsUp, Lose, server
<1>12. ASSUME NEW c \in Conns, NEW s \in Sessions, JoinDone(c, s) PROVE PresenceHasSocket'
  BY <1>2, <1>12 DEF JoinDone
<1>13. ASSUME NEW t \in Tabs, TabReceives(t) \/ TabDisconnect(t) \/ TabClose(t)
       PROVE  PresenceHasSocket'
  BY <1>2, <1>13 DEF TabReceives, TabRecv, TabNoticesLoss, TabDisconnect, TabClose, server
<1>14. CASE UNCHANGED vars
  BY <1>2, <1>14 DEF vars, server
<1> QED BY <1>5, <1>6, <1>7, <1>8, <1>9, <1>10, <1>11, <1>12, <1>13, <1>14 DEF Next, AgentOther

\* Presence never names a socket whose close handler has finished: the device
\* is not "online" through a connection that no longer exists.
THEOREM PresenceIsBacked == Spec => []PresenceHasSocket
<1>1. Init => PresenceHasSocket
  BY DEF Init, PresenceHasSocket
<1>2. TypeOK /\ PresenceHasSocket /\ [Next]_vars => PresenceHasSocket'
  BY PresenceStep
<1> QED BY <1>1, <1>2, TypeCorrect, PTL DEF Spec

-------------------------------------------------------------------------------
(* A row that says "active".                                                *)

\* A socket of the agent that the close handler has yet to account for.
HasAgent(s) == \E c \in AgentConns : s \in joined[c] /\ stage[c] \in {"open", "closing"}

\* The row says "active", or the UPDATE in flight will make it.
GoesActive(s) == row[s] = "active" \/ (row[s] = "pending" /\ <<"active", s>> \in writes)

\* ActiveRowHasAgent is not inductive: the accept's UPDATE may still be in
\* flight when the socket that sent it closes.
RowsServed == restarts = 0 => \A s \in Sessions : GoesActive(s) => HasAgent(s)

\* What keeps it: no row turns active, and no socket of the agent is lost
\* but to its close handler.
LEMMA ServedKept ==
  ASSUME TypeOK, RowsServed, UNCHANGED restarts,
         \A s \in Sessions : GoesActive(s)' => GoesActive(s),
         \A c \in AgentConns : /\ joined[c] \subseteq joined'[c]
                               /\ stage[c] \in {"open", "closing"} => stage'[c] \in {"open", "closing"}
  PROVE  RowsServed'
<1> SUFFICES ASSUME restarts = 0, NEW s \in Sessions, GoesActive(s)' PROVE HasAgent(s)'
  BY DEF RowsServed
<1>1. HasAgent(s)
  BY DEF RowsServed
<1>2. PICK c \in AgentConns : s \in joined[c] /\ stage[c] \in {"open", "closing"}
  BY <1>1 DEF HasAgent
<1> QED BY <1>2 DEF HasAgent

\* A socket's own steps: its stage moves on, and the rows stay.
LEMMA ServedBySocket ==
  ASSUME TypeOK, RowsServed, UNCHANGED <<row, writes, joined, restarts>>,
         NEW c \in Conns,
         UNCHANGED stage \/ /\ c \in AgentConns => stage[c] \notin {"open", "closing"}
                            /\ \E v : stage' = [stage EXCEPT ![c] = v]
  PROVE  RowsServed'
<1>1. \A s \in Sessions : GoesActive(s)' => GoesActive(s)
  BY DEF GoesActive
<1>2. \A d \in AgentConns : stage[d] \in {"open", "closing"} => stage'[d] \in {"open", "closing"}
  BY ConnParts DEF TypeOK
<1> QED BY <1>1, <1>2, ServedKept

LEMMA ServedStep == TypeOK /\ IInv /\ RowsServed /\ [Next]_vars => RowsServed'
<1> SUFFICES ASSUME TypeOK, IInv, RowsServed, [Next]_vars PROVE RowsServed'
  OBVIOUS
<1>1. ASSUME UNCHANGED <<row, writes, stage, joined, restarts>> PROVE RowsServed'
  BY <1>1 DEF RowsServed, GoesActive, HasAgent
<1>2. ASSUME NEW s \in Sessions, CreateInsert(s) PROVE RowsServed'
  <2>1. /\ row' = [row EXCEPT ![s] = "pending"] /\ req[s] = "checked"
        /\ UNCHANGED <<writes, stage, joined, restarts>>
    BY <1>2 DEF CreateInsert, server
  <2>2. <<"active", s>> \notin writes
    BY <2>1 DEF IInv, StatementsDecided, DecidedInvited
  <2>3. \A r \in Sessions : GoesActive(r)' => GoesActive(r)
    BY <2>1, <2>2 DEF GoesActive, TypeOK
  <2> QED BY <2>1, <2>3, ServedKept
<1>3. ASSUME NEW s \in Sessions, Create(s) PROVE RowsServed'
  BY <1>1, <1>2, <1>3 DEF Create, CreateCheck, CreateInvite, server
<1>4. ASSUME NEW s \in Sessions, Database(s) PROVE RowsServed'
  <2>1. /\ UNCHANGED <<stage, joined, restarts>>
        /\ \A r \in Sessions : <<"active", r>> \in writes' => <<"active", r>> \in writes
        /\ \/ row' = row
           \/ \E v \in {"denied", "ended"} : row' = [row EXCEPT ![s] = v]
           \/ GoesActive(s) /\ row' = [row EXCEPT ![s] = "active"]
    <3>1. CASE MarkActive(s)
      BY <3>1 DEF MarkActive, Statement, server, GoesActive
    <3>2. CASE MarkDenied(s)
      BY <3>2 DEF MarkDenied, Statement, server
    <3>3. CASE MarkEnded(s)
      BY <3>3 DEF MarkEnded, Statement, server
    <3>4. CASE TerminateLookup(s)
      BY <3>4 DEF TerminateLookup, server, db
    <3>5. CASE Terminate(s)
      BY <3>5 DEF Terminate, Statement, server
    <3> QED BY <1>4, <3>1, <3>2, <3>3, <3>4, <3>5 DEF Database
  <2>2. \A r \in Sessions : GoesActive(r)' => GoesActive(r)
    BY <2>1 DEF GoesActive, TypeOK
  <2> QED BY <2>1, <2>2, ServedKept
<1>5. ASSUME NEW c \in Conns, RecvRelay(c) PROVE RowsServed'
  <2> DEFINE f == Head(outbox[c])
  <2>1. /\ stage[c] = "open" /\ UNCHANGED <<row, stage, joined, restarts>>
        /\ writes' = writes \/ (f.session \in joined[c] /\ writes' = writes \cup StatementsOf(c, f))
    BY <1>5, Zenon DEF RecvRelay, db, server
  <2> SUFFICES ASSUME restarts = 0, NEW s \in Sessions, GoesActive(s)' PROVE HasAgent(s)
    BY <2>1 DEF RowsServed, HasAgent
  <2>2. CASE GoesActive(s)
    BY <2>2 DEF RowsServed
  <2>3. CASE ~GoesActive(s)
    <3>1. <<"active", s>> \in StatementsOf(c, f) /\ f.session \in joined[c]
      BY <2>1, <2>3 DEF GoesActive
    <3>2. c \in AgentConns /\ f.session = s
      BY <3>1 DEF StatementsOf
    <3> QED BY <2>1, <3>1, <3>2 DEF HasAgent
  <2> QED BY <2>2, <2>3
<1>6. ASSUME NEW c \in Conns, ServerClose(c) PROVE RowsServed'
  <2>1. /\ UNCHANGED <<row, writes, joined, restarts>>
        /\ stage' = [stage EXCEPT ![c] = IF c \in AgentConns THEN "closing" ELSE "closed"]
    BY <1>6 DEF ServerClose, db
  <2>2. \A s \in Sessions : GoesActive(s)' => GoesActive(s)
    BY <2>1 DEF GoesActive
  <2>3. \A d \in AgentConns : stage[d] \in {"open", "closing"} => stage'[d] \in {"open", "closing"}
    BY <2>1, ConnParts DEF TypeOK
  <2> QED BY <2>1, <2>2, <2>3, ServedKept
<1>7. ASSUME NEW c \in Conns, CleanupRows(c) PROVE RowsServed'
  <2>1. \A s \in Sessions : ~GoesActive(s)'
    BY <1>7 DEF CleanupRows, GoesActive, Live
  <2> QED BY <2>1 DEF RowsServed
<1>8. ASSUME NEW c \in Conns, ServerSocket(c) PROVE RowsServed'
  <2>1. CASE AgentAdmit(c) \/ AgentListen(c) \/ TabAdmit(c) \/ CleanupPresence(c)
    <3>1. /\ UNCHANGED <<row, writes, joined, restarts>>
          /\ stage[c] \in {"auth", "added", "dropping"}
          /\ \/ stage' = [stage EXCEPT ![c] = "added"] \/ stage' = [stage EXCEPT ![c] = "open"]
             \/ stage' = [stage EXCEPT ![c] = "zombie"] \/ stage' = [stage EXCEPT ![c] = "closed"]
      BY <2>1, Zenon DEF AgentAdmit, AgentListen, TabAdmit, CleanupPresence, db
    <3> QED BY <3>1, ServedBySocket
  <2>2. CASE DropEarly(c) \/ RecvJoin(c)
    BY <1>1, <2>2 DEF DropEarly, RecvJoin, db, server
  <2> QED BY <1>5, <1>6, <1>7, <1>8, <2>1, <2>2 DEF ServerSocket
<1>9. ASSUME NEW c \in Conns, ServerHangsUp(c) \/ Lose(c) PROVE RowsServed'
  BY <1>1, <1>9 DEF ServerHangsUp, Lose, db, server
<1>10. ASSUME NEW c \in Conns, NEW s \in Sessions, JoinDone(c, s) PROVE RowsServed'
  <2>1. /\ UNCHANGED <<row, writes, stage, restarts>>
        /\ joined' = joined \/ joined' = [joined EXCEPT ![c] = joined[c] \cup {s}]
    BY <1>10, Zenon DEF JoinDone, db
  <2>2. \A r \in Sessions : GoesActive(r)' => GoesActive(r)
    BY <2>1 DEF GoesActive
  <2>3. \A d \in AgentConns : joined[d] \subseteq joined'[d]
    BY <2>1, ConnParts, ZenonT(60) DEF TypeOK
  <2> QED BY <2>1, <2>2, <2>3, ServedKept
<1>11. CASE PresenceLapse
  BY <1>1, <1>11 DEF PresenceLapse, db
<1>12. CASE ServerRestart
  BY <1>12 DEF ServerRestart, RowsServed, TypeOK
<1>13. CASE AgentReceives \/ AgentLocalEnd \/ AgentQuit \/ AgentCrash \/ AgentGivesUp
  BY <1>1, <1>13 DEF AgentReceives, AgentInvite, AgentEnd, AgentReady, AgentAnswer,
     AgentNoticesLoss, AgentLocalEnd, AgentQuit, AgentCrash, AgentGivesUp, AgentExits, db, server
<1>14. ASSUME NEW c \in AgentConns, AgentConnect(c) PROVE RowsServed'
  <2>1. /\ stage[c] = "unused" /\ stage' = [stage EXCEPT ![c] = "auth"]
        /\ UNCHANGED <<row, writes, joined, restarts>>
    BY <1>14 DEF AgentConnect, db
  <2> QED BY <2>1, ConnParts, ServedBySocket
<1>15. ASSUME NEW t \in Tabs, TabOpen(t) PROVE RowsServed'
  <2>1. /\ UNCHANGED <<row, writes, joined, restarts>>
        /\ UNCHANGED stage \/ stage' = [stage EXCEPT ![t] = "auth"]
    BY <1>15, Zenon DEF TabOpen, db
  <2> QED BY <2>1, ConnParts, ConnsAssumption, ServedBySocket
<1>16. ASSUME NEW t \in Tabs, TabDisconnect(t) PROVE RowsServed'
  <2>1. /\ UNCHANGED <<row, stage, joined, restarts>>
        /\ writes' = writes \cup {<<"lookup", TabSession[t]>>}
    BY <1>16 DEF TabDisconnect, db, server
  <2>2. \A s \in Sessions : GoesActive(s)' => GoesActive(s)
    BY <2>1 DEF GoesActive
  <2> QED BY <2>1, <2>2, ServedKept
<1>17. ASSUME NEW t \in Tabs, TabReceives(t) \/ TabClose(t) PROVE RowsServed'
  BY <1>1, <1>17 DEF TabReceives, TabRecv, TabNoticesLoss, TabClose, db, server
<1>18. CASE UNCHANGED vars
  BY <1>1, <1>18 DEF vars, db, server
<1> QED BY <1>3, <1>4, <1>8, <1>9, <1>10, <1>11, <1>12, <1>13, <1>14, <1>15, <1>16, <1>17, <1>18
        DEF Next, AgentOther

\* Whatever the order in which the accept's UPDATE and the agent's close
\* handler run, a server that has not died shows "active" only while the
\* agent that accepted has a socket whose end will still correct the row.
THEOREM ActiveIsBacked == Spec => []ActiveRowHasAgent
<1>1. Init => RowsServed
  BY DEF Init, RowsServed, GoesActive
<1>2. TypeOK /\ IInv /\ RowsServed /\ [Next]_vars => RowsServed'
  BY ServedStep
<1>3. RowsServed => ActiveRowHasAgent
  BY DEF RowsServed, ActiveRowHasAgent, GoesActive, HasAgent
<1> QED BY <1>1, <1>2, <1>3, Invariant, PTL DEF Spec

-------------------------------------------------------------------------------
(* Offers.                                                                  *)

PageJoined(s) == \E t \in Tabs : s \in joined[t]

\* Another socket than c was opened by the agent, now or before.
Replaces(c) == \E d \in AgentConns : d # c /\ stage[d] # "unused"

\* session:ready tells that a page has joined, on its way to the agent ...
ReadyAnnounced ==
  \A c \in AgentConns : \A i \in 1 .. Len(inbox[c]) :
    inbox[c][i].type = "ready" => PageJoined(inbox[c][i].session)

\* ... and once the agent remembers it.
ReadyRemembered == pendingReady # NoSession => PageJoined(pendingReady)

\* So does an offer, unless the agent's socket replaced another.
OffersAnnounced ==
  \A c \in AgentConns : \A i \in 1 .. Len(outbox[c]) :
    outbox[c][i].type = "offer" => PageJoined(outbox[c][i].session) \/ Replaces(c)

\* The agent serves nobody before it has opened a socket.
ServingConnected ==
  /\ agentConn # NoConn => stage[agentConn] # "unused"
  /\ active # NoSession => \E c \in AgentConns : stage[c] # "unused"

OffersInv == ReadyAnnounced /\ ReadyRemembered /\ OffersAnnounced /\ ServingConnected

\* What was joined, and that a socket was opened, is never forgotten.
History ==
  /\ \A c \in Conns : joined[c] \subseteq joined'[c]
  /\ \A c \in AgentConns : stage[c] # "unused" => stage'[c] # "unused"

LEMMA HistoryStep == TypeOK /\ [Next]_vars => History
<1> SUFFICES ASSUME TypeOK, [Next]_vars PROVE History
  OBVIOUS
<1>1. ASSUME UNCHANGED <<joined, stage>> PROVE History
  BY <1>1 DEF History
<1>2. ASSUME UNCHANGED joined, NEW c \in Conns, NEW v, v # "unused",
             UNCHANGED stage \/ stage' = [stage EXCEPT ![c] = v]
      PROVE  History
  BY <1>2, ConnParts DEF History, TypeOK
<1>3. ASSUME NEW s \in Sessions, Create(s) \/ Database(s) PROVE History
  BY <1>1, <1>3 DEF Create, CreateCheck, CreateInsert, CreateInvite, Database, MarkActive,
     MarkDenied, MarkEnded, TerminateLookup, Terminate, Statement, server
<1>4. ASSUME NEW c \in Conns, ServerSocket(c) \/ ServerHangsUp(c) \/ Lose(c) PROVE History
  <2>1. CASE AgentAdmit(c) \/ AgentListen(c) \/ TabAdmit(c) \/ ServerClose(c) \/ CleanupRows(c)
             \/ CleanupPresence(c)
    <3>1. /\ UNCHANGED joined
          /\ \E v \in {"added", "open", "zombie", "closing", "dropping", "closed"} :
               stage' = [stage EXCEPT ![c] = v]
      BY <2>1 DEF AgentAdmit, AgentListen, TabAdmit, ServerClose, CleanupRows, CleanupPresence
    <3> QED BY <1>2, <3>1
  <2>2. CASE DropEarly(c) \/ RecvJoin(c) \/ RecvRelay(c) \/ ServerHangsUp(c) \/ Lose(c)
    BY <1>1, <2>2 DEF DropEarly, RecvJoin, RecvRelay, ServerHangsUp, Lose, server
  <2> QED BY <1>4, <2>1, <2>2 DEF ServerSocket
<1>5. ASSUME NEW c \in Conns, NEW s \in Sessions, JoinDone(c, s) PROVE History
  <2>1. /\ UNCHANGED stage
        /\ joined' = joined \/ joined' = [joined EXCEPT ![c] = joined[c] \cup {s}]
    BY <1>5, Zenon DEF JoinDone
  <2> QED BY <2>1, ZenonT(60) DEF History, TypeOK
<1>6. CASE PresenceLapse \/ AgentReceives \/ AgentLocalEnd \/ AgentQuit \/ AgentCrash
           \/ AgentGivesUp
  BY <1>1, <1>6 DEF PresenceLapse, AgentReceives, AgentInvite, AgentEnd, AgentReady,
     AgentAnswer, AgentNoticesLoss, AgentLocalEnd, AgentQuit, AgentCrash, AgentGivesUp,
     AgentExits, server
<1>7. CASE ServerRestart
  BY <1>7, ConnParts DEF ServerRestart, History
<1>8. ASSUME NEW c \in AgentConns, AgentConnect(c) PROVE History
  BY <1>2, <1>8, ConnParts DEF AgentConnect
<1>9. ASSUME NEW t \in Tabs, TabOpen(t) PROVE History
  <2>1. UNCHANGED joined /\ (UNCHANGED stage \/ stage' = [stage EXCEPT ![t] = "auth"])
    BY <1>9, Zenon DEF TabOpen
  <2> QED BY <1>2, <2>1, ConnParts
<1>10. ASSUME NEW t \in Tabs, TabReceives(t) \/ TabDisconnect(t) \/ TabClose(t) PROVE History
  BY <1>1, <1>10 DEF TabReceives, TabRecv, TabNoticesLoss, TabDisconnect, TabClose, server
<1>11. CASE UNCHANGED vars
  BY <1>1, <1>11 DEF vars, server
<1> QED BY <1>3, <1>4, <1>5, <1>6, <1>7, <1>8, <1>9, <1>10, <1>11 DEF Next, AgentOther

LEMMA HistoryKeeps ==
  ASSUME History
  PROVE  /\ \A s : PageJoined(s) => PageJoined(s)'
         /\ \A c : Replaces(c) => Replaces(c)'
BY ConnParts DEF History, PageJoined, Replaces

LEMMA ShrunkFrom ==
  ASSUME NEW q \in Seq(Frames), NEW q2, Shrunk(q2, q), NEW i \in 1 .. Len(q2)
  PROVE  \E j \in 1 .. Len(q) : q2[i] = q[j]
BY ShrunkElements

\* What a step adds to the agent's inboxes: a session:ready comes from the
\* join of a page.
LEMMA InboxNews ==
  ASSUME TypeOK, IInv, [Next]_vars, NEW c \in AgentConns, NEW i \in 1 .. Len(inbox'[c])
  PROVE  \/ \E j \in 1 .. Len(inbox[c]) : inbox'[c][i] = inbox[c][j]
         \/ inbox'[c][i].type # "ready"
         \/ \E t \in Tabs : inbox'[c][i].session \in joined'[t]
<1> DEFINE Goal == \/ \E j \in 1 .. Len(inbox[c]) : inbox'[c][i] = inbox[c][j]
                   \/ inbox'[c][i].type # "ready"
                   \/ \E t \in Tabs : inbox'[c][i].session \in joined'[t]
<1>1. c \in Conns /\ c \notin Tabs /\ inbox[c] \in Seq(Frames)
  BY ConnParts, ConnsAssumption DEF TypeOK
<1>2. ASSUME Shrunk(inbox'[c], inbox[c]) PROVE Goal
  BY <1>1, <1>2, ShrunkFrom, SMTT(30)
<1>3. ASSUME UNCHANGED inbox PROVE Goal
  BY <1>2, <1>3 DEF Shrunk
<1>4. ASSUME NEW f \in Frames, NEW R, inbox' = Deliver(f, R), f.type # "ready" PROVE Goal
  <2>1. inbox'[c] = inbox[c] \/ inbox'[c] = Append(inbox[c], f)
    BY <1>1, <1>4 DEF Deliver
  <2>2. CASE inbox'[c] = inbox[c]
    BY <1>2, <2>2 DEF Shrunk
  <2>3. CASE inbox'[c] = Append(inbox[c], f)
    BY <1>1, <1>4, <2>3, AppendProperties
  <2> QED BY <2>1, <2>2, <2>3
<1>5. ASSUME NEW s \in Sessions, CreateInvite(s) PROVE Goal
  <2>1. Frame("invite", s) \in Frames /\ Frame("invite", s).type # "ready"
    BY FrameType DEF FrameTypes, Frame
  <2> QED BY <1>4, <1>5, <2>1 DEF CreateInvite
<1>6. ASSUME NEW s \in Sessions, Create(s) \/ Database(s) PROVE Goal
  BY <1>3, <1>5, <1>6 DEF Create, CreateCheck, CreateInsert, Database, MarkActive,
     MarkDenied, MarkEnded, TerminateLookup, Terminate, Statement, net
<1>7. ASSUME NEW d \in Conns, RecvRelay(d) PROVE Goal
  <2>1. /\ outbox[d] # <<>>
        /\ \/ UNCHANGED inbox
           \/ inbox' = Deliver(Head(outbox[d]),
                               Hearers(members[Head(outbox[d]).session], Head(outbox[d]).type))
    BY <1>7, Zenon DEF RecvRelay
  <2>2. outbox[d] \in Seq(Frames)
    BY DEF TypeOK
  <2>3. Head(outbox[d]) \in Frames /\ Head(outbox[d]).type \in ClientTypes
    BY <2>1, <2>2, HeadQueued, HeadTail DEF IInv, SentFrames
  <2> QED BY <1>3, <1>4, <2>1, <2>3 DEF ClientTypes
<1>8. ASSUME NEW d \in Conns, ServerSocket(d) \/ ServerHangsUp(d) \/ Lose(d) PROVE Goal
  BY <1>3, <1>7, <1>8 DEF ServerSocket, AgentAdmit, AgentListen, TabAdmit, DropEarly, RecvJoin,
     ServerClose, CleanupRows, CleanupPresence, ServerHangsUp, Lose, net
<1>9. ASSUME NEW d \in Conns, NEW s \in Sessions, JoinDone(d, s) PROVE Goal
  <2>1. CASE UNCHANGED inbox
    BY <1>3, <2>1
  <2>2. CASE ~UNCHANGED inbox
    <3>1. /\ joined' = [joined EXCEPT ![d] = joined[d] \cup {s}]
          /\ inbox' = [e \in Conns |->
               IF e = d /\ d \in Tabs /\ row[s] = "denied" /\ Reachable(d)
                 THEN Append(inbox[e], Frame("state:denied", s))
               ELSE IF Announces(d) /\ e \in Hearers(members[s] \cup {d}, "ready")
                 THEN Append(inbox[e], Frame("ready", s))
               ELSE inbox[e]]
      BY <1>9, <2>2, Zenon DEF JoinDone
    <3>2. \/ inbox'[c] = inbox[c]
          \/ d \in Tabs /\ inbox'[c] = Append(inbox[c], Frame("ready", s))
      BY <1>1, <3>1 DEF Announces
    <3>3. CASE inbox'[c] = inbox[c]
      BY <1>2, <3>3 DEF Shrunk
    <3>4. CASE d \in Tabs /\ inbox'[c] = Append(inbox[c], Frame("ready", s))
      <4>1. s \in joined'[d]
        BY <3>1 DEF TypeOK
      <4>2. Frame("ready", s) \in Frames /\ Frame("ready", s).session = s
        BY FrameType DEF FrameTypes, Frame
      <4>3. (i \in 1 .. Len(inbox[c]) /\ inbox'[c][i] = inbox[c][i])
            \/ inbox'[c][i] = Frame("ready", s)
        BY <1>1, <3>4, <4>2, AppendProperties
      <4>4. CASE i \in 1 .. Len(inbox[c]) /\ inbox'[c][i] = inbox[c][i]
        BY <4>4
      <4>5. CASE inbox'[c][i] = Frame("ready", s)
        <5>1. s \in joined'[d] /\ d \in Tabs /\ inbox'[c][i].session = s
          BY <3>4, <4>1, <4>2, <4>5
        <5> QED BY <5>1
      <4> QED BY <4>3, <4>4, <4>5
    <3> QED BY <3>2, <3>3, <3>4
  <2> QED BY <2>1, <2>2
<1>10. CASE PresenceLapse \/ ServerRestart \/ AgentLocalEnd
  BY <1>3, <1>10 DEF PresenceLapse, ServerRestart, AgentLocalEnd, net
<1>11. CASE AgentReceives
  <2>1. CASE \E type : AgentTakes(type)
    <3>1. \A d \in Conns : Shrunk(inbox'[d], inbox[d])
      BY <2>1, AgentTaking
    <3> QED BY <1>1, <1>2, <3>1
  <2>2. CASE AgentNoticesLoss
    BY <1>1, <1>2, <2>2 DEF AgentNoticesLoss, Shrunk, TypeOK
  <2> QED BY <1>11, <2>1, <2>2 DEF AgentReceives, AgentInvite, AgentEnd, AgentReady, AgentAnswer
<1>12. CASE AgentQuit \/ AgentCrash \/ AgentGivesUp
  BY <1>1, <1>2, <1>12 DEF AgentQuit, AgentCrash, AgentGivesUp, AgentExits, Shrunk
<1>13. ASSUME NEW d \in AgentConns, AgentConnect(d) PROVE Goal
  BY <1>3, <1>13 DEF AgentConnect
<1>14. ASSUME NEW t \in Tabs, TabReceives(t) \/ TabOpen(t) \/ TabDisconnect(t) \/ TabClose(t)
       PROVE  Goal
  <2>1. \/ UNCHANGED inbox \/ inbox' = [inbox EXCEPT ![t] = <<>>]
        \/ inbox' = [inbox EXCEPT ![t] = Tail(@)]
    BY <1>14, Zenon DEF TabReceives, TabRecv, TabNoticesLoss, TabOpen, TabDisconnect, TabClose,
       Teardown
  <2>2. inbox'[c] = inbox[c]
    BY <1>1, <2>1 DEF TypeOK
  <2> QED BY <1>2, <2>2 DEF Shrunk
<1>15. CASE UNCHANGED vars
  BY <1>3, <1>15 DEF vars, net
<1> QED BY <1>6, <1>8, <1>9, <1>10, <1>11, <1>12, <1>13, <1>14, <1>15 DEF Next, AgentOther

\* What a step adds to the agent's outboxes: an offer follows the page's
\* session:ready or, with an active session, a new socket.
LEMMA OutboxNews ==
  ASSUME TypeOK, IInv, OffersInv, [Next]_vars,
         NEW c \in AgentConns, NEW i \in 1 .. Len(outbox'[c])
  PROVE  \/ \E j \in 1 .. Len(outbox[c]) : outbox'[c][i] = outbox[c][j]
         \/ outbox'[c][i].type # "offer"
         \/ PageJoined(outbox'[c][i].session)
         \/ Replaces(c)
<1> DEFINE Told(f) == f.type # "offer" \/ PageJoined(f.session) \/ Replaces(c)
           Goal == \/ \E j \in 1 .. Len(outbox[c]) : outbox'[c][i] = outbox[c][j]
                   \/ Told(outbox'[c][i])
<1> SUFFICES Goal
  OBVIOUS
<1>1. c \in Conns /\ c \notin Tabs /\ outbox[c] \in Seq(Frames)
  BY ConnParts, ConnsAssumption DEF TypeOK
<1>2. ASSUME Shrunk(outbox'[c], outbox[c]) PROVE Goal
  BY <1>1, <1>2, ShrunkFrom
<1>3. ASSUME UNCHANGED outbox PROVE Goal
  BY <1>2, <1>3 DEF Shrunk
<1>4. ASSUME NEW d \in Conns, NEW fs \in Seq(Frames), outbox' = Send(d, fs),
             d = c => \A k \in 1 .. Len(fs) : Told(fs[k])
      PROVE  Goal
  <2>1. outbox'[c] = outbox[c] \/ (d = c /\ outbox'[c] = outbox[c] \o fs)
    BY <1>1, <1>4 DEF Send, TypeOK
  <2>2. CASE outbox'[c] = outbox[c]
    BY <1>2, <2>2 DEF Shrunk
  <2>3. CASE d = c /\ outbox'[c] = outbox[c] \o fs
    <3>1. \/ i \in 1 .. Len(outbox[c]) /\ outbox'[c][i] = outbox[c][i]
          \/ \E k \in 1 .. Len(fs) : outbox'[c][i] = fs[k]
      <4>1. outbox'[c] = outbox[c] \o fs /\ i \in 1 .. Len(outbox[c] \o fs)
        BY <2>3
      <4>2. outbox[c] \in Seq(Frames) /\ fs \in Seq(Frames)
        BY <1>1
      <4> HIDE DEF Told, Goal
      <4> QED BY ONLY <4>1, <4>2, Concatenated, SMTT(30)
    <3> HIDE DEF Told
    <3> QED BY <1>4, <2>3, <3>1
  <2> QED BY <2>1, <2>2, <2>3
<1>5. ASSUME NEW s \in Sessions, Create(s) \/ Database(s) PROVE Goal
  BY <1>3, <1>5 DEF Create, CreateCheck, CreateInsert, CreateInvite, Database, MarkActive,
     MarkDenied, MarkEnded, TerminateLookup, Terminate, Statement, net
<1>6. ASSUME NEW d \in Conns, ServerSocket(d) \/ ServerHangsUp(d) \/ Lose(d) PROVE Goal
  <2>1. CASE DropEarly(d) \/ RecvJoin(d) \/ RecvRelay(d)
    <3>1. outbox[d] # <<>> /\ outbox' = [outbox EXCEPT ![d] = Tail(@)]
      BY <2>1 DEF DropEarly, RecvJoin, RecvRelay
    <3> QED BY <1>1, <1>2, <3>1, Taking DEF TypeOK
  <2>2. CASE ServerClose(d) \/ ServerHangsUp(d)
    <3>1. outbox' = [outbox EXCEPT ![d] = <<>>]
      BY <2>2 DEF ServerClose, ServerHangsUp
    <3> QED BY <1>1, <1>2, <3>1, Taking DEF TypeOK
  <2>3. CASE AgentAdmit(d) \/ AgentListen(d) \/ TabAdmit(d) \/ CleanupRows(d)
             \/ CleanupPresence(d) \/ Lose(d)
    BY <1>3, <2>3 DEF AgentAdmit, AgentListen, TabAdmit, CleanupRows, CleanupPresence, Lose, net
  <2> QED BY <1>6, <2>1, <2>2, <2>3 DEF ServerSocket
<1>7. ASSUME NEW d \in Conns, NEW s \in Sessions, JoinDone(d, s) PROVE Goal
  BY <1>3, <1>7 DEF JoinDone
<1>8. CASE PresenceLapse \/ AgentEnd \/ AgentAnswer \/ AgentNoticesLoss \/ AgentCrash
           \/ AgentGivesUp
  BY <1>3, <1>8 DEF PresenceLapse, AgentEnd, AgentAnswer, AgentNoticesLoss, AgentCrash,
     AgentGivesUp, net
<1>9. CASE ServerRestart
  BY <1>1, <1>2, <1>9 DEF ServerRestart, Shrunk
<1>10. CASE AgentInvite
  <2> DEFINE s == Taken
  <2>1. agentConn \in Conns /\ s \in Sessions
    BY <1>10, AgentTaking DEF AgentInvite
  <2>2. /\ Frame("join", s) \in Frames /\ Frame("accept", s) \in Frames
        /\ Frame("deny", s) \in Frames /\ Frame("offer", s) \in Frames
    BY <2>1, FrameType DEF FrameTypes
  <2>3. \/ UNCHANGED outbox
        \/ outbox' = Send(agentConn, Answers("deny", s))
        \/ outbox' = Send(agentConn, Answers("accept", s))
        \/ pendingReady = s /\ outbox' = Send(agentConn, Answers("accept", s) \o <<Frame("offer", s)>>)
    BY <1>10, Zenon DEF AgentInvite, AcceptSession, Refuses
  <2>4. ASSUME NEW answer \in {"deny", "accept"}
        PROVE  /\ Answers(answer, s) \in Seq(Frames)
               /\ \A k \in 1 .. Len(Answers(answer, s)) : Told(Answers(answer, s)[k])
    BY <2>2, ShortQueues DEF Answers, Frame
  <2>5. CASE UNCHANGED outbox
    BY <1>3, <2>5
  <2>6. ASSUME NEW answer \in {"deny", "accept"}, outbox' = Send(agentConn, Answers(answer, s))
        PROVE  Goal
    <3> HIDE DEF Told, Goal
    <3> QED BY <1>4, <2>1, <2>4, <2>6
  <2>7. CASE pendingReady = s
             /\ outbox' = Send(agentConn, Answers("accept", s) \o <<Frame("offer", s)>>)
    <3>1. PageJoined(s)
      BY <2>1, <2>7, SessionsAssumption DEF OffersInv, ReadyRemembered
    <3>2. /\ <<Frame("offer", s)>> \in Seq(Frames)
          /\ \A k \in 1 .. Len(<<Frame("offer", s)>>) : Told(<<Frame("offer", s)>>[k])
      BY <2>2, <3>1, ShortQueues DEF Frame
    <3> HIDE DEF Told, Goal
    <3>3. Answers("accept", s) \o <<Frame("offer", s)>> \in Seq(Frames)
      BY <2>4, <3>2, ConcatProperties
    <3>4. \A k \in 1 .. Len(Answers("accept", s) \o <<Frame("offer", s)>>) :
            Told((Answers("accept", s) \o <<Frame("offer", s)>>)[k])
      BY <2>4, <3>2, Concatenated
    <3> QED BY <1>4, <2>1, <2>7, <3>3, <3>4
  <2> QED BY <2>3, <2>5, <2>6, <2>7
<1>11. CASE AgentReady
  <2>1. /\ agentConn \in AgentConns /\ agentConn \in Conns /\ Taken \in Sessions
        /\ 1 \in 1 .. Len(inbox[agentConn])
        /\ inbox[agentConn][1].type = "ready" /\ inbox[agentConn][1].session = Taken
    BY <1>11, AgentTaking DEF AgentReady
  <2>2. PageJoined(Taken)
    BY <2>1 DEF OffersInv, ReadyAnnounced
  <2>3. Frame("offer", Taken) \in Frames /\ Frame("offer", Taken).session = Taken
    BY <2>1, FrameType DEF FrameTypes, Frame
  <2>4. \A k \in 1 .. Len(<<Frame("offer", Taken)>>) : Told(<<Frame("offer", Taken)>>[k])
    BY <2>2, <2>3
  <2>5. UNCHANGED outbox \/ outbox' = Send(agentConn, <<Frame("offer", Taken)>>)
    BY <1>11 DEF AgentReady
  <2> HIDE DEF Told, Goal
  <2> QED BY <1>3, <1>4, <2>1, <2>3, <2>4, <2>5, ShortQueues
<1>12. CASE AgentLocalEnd \/ AgentQuit
  <2>1. /\ agentConn \in Conns
        /\ \/ UNCHANGED outbox
           \/ active # NoSession /\ outbox' = Send(agentConn, <<Frame("end", active)>>)
    BY <1>12, ConnParts DEF AgentLocalEnd, AgentQuit, TypeOK
  <2>2. CASE active # NoSession /\ outbox' = Send(agentConn, <<Frame("end", active)>>)
    <3>1. Frame("end", active) \in Frames /\ Frame("end", active).type = "end"
      BY <2>2, FrameType DEF FrameTypes, Frame, TypeOK
    <3>2. \A k \in 1 .. Len(<<Frame("end", active)>>) : Told(<<Frame("end", active)>>[k])
      BY <3>1
    <3> HIDE DEF Told, Goal
    <3> QED BY <1>4, <2>1, <2>2, <3>1, <3>2, ShortQueues
  <2> QED BY <1>3, <2>1, <2>2
<1>13. ASSUME NEW d \in AgentConns, AgentConnect(d) PROVE Goal
  <2>1. CASE outbox'[c] = outbox[c]
    BY <1>2, <2>1 DEF Shrunk
  <2>2. CASE outbox'[c] # outbox[c]
    <3>1. d = c /\ active # NoSession
      BY <1>1, <1>13, <2>2 DEF AgentConnect, TypeOK
    <3>2. PICK e \in AgentConns : stage[e] # "unused"
      BY <3>1 DEF OffersInv, ServingConnected
    <3>3. e # c
      BY <1>13, <3>1, <3>2 DEF AgentConnect
    <3> QED BY <3>2, <3>3 DEF Replaces
  <2> QED BY <2>1, <2>2
<1>14. ASSUME NEW t \in Tabs, TabReceives(t) \/ TabOpen(t) \/ TabDisconnect(t) \/ TabClose(t)
       PROVE  Goal
  <2>1. \/ UNCHANGED outbox
        \/ \E q : outbox' = [outbox EXCEPT ![t] = q]
    BY <1>14, Zenon DEF TabReceives, TabRecv, TabNoticesLoss, TabOpen, TabDisconnect, TabClose,
       Teardown, Send
  <2>2. outbox'[c] = outbox[c]
    BY <1>1, <2>1 DEF TypeOK
  <2> QED BY <1>2, <2>2 DEF Shrunk
<1>15. CASE UNCHANGED vars
  BY <1>3, <1>15 DEF vars, net
<1> QED BY <1>5, <1>6, <1>7, <1>8, <1>9, <1>10, <1>11, <1>12, <1>13, <1>14, <1>15
        DEF Next, AgentReceives, AgentOther

\* What the agent remembers of session:ready, it has received.
LEMMA RememberedStep ==
  ASSUME TypeOK, IInv, OffersInv, [Next]_vars
  PROVE  pendingReady' \in {pendingReady, NoSession} \/ PageJoined(pendingReady')
<1>1. CASE AgentReady
  <2>1. /\ agentConn \in AgentConns /\ 1 \in 1 .. Len(inbox[agentConn])
        /\ inbox[agentConn][1].type = "ready" /\ inbox[agentConn][1].session = Taken
    BY <1>1, AgentTaking DEF AgentReady
  <2>2. PageJoined(Taken)
    BY <2>1 DEF OffersInv, ReadyAnnounced
  <2>3. pendingReady' = pendingReady \/ pendingReady' = Taken
    BY <1>1 DEF AgentReady
  <2> QED BY <2>2, <2>3
<1>2. CASE AgentInvite \/ AgentEnd \/ AgentAnswer \/ AgentNoticesLoss
  BY <1>2 DEF AgentInvite, AcceptSession, Refuses, AgentEnd, AgentAnswer, AgentNoticesLoss
<1>3. CASE AgentOther
  BY <1>3 DEF AgentOther, AgentConnect, AgentLocalEnd, AgentQuit, AgentCrash, AgentGivesUp, AgentExits
<1>4. ASSUME NEW s \in Sessions, Create(s) \/ Database(s) PROVE UNCHANGED agent
  BY <1>4 DEF Create, CreateCheck, CreateInsert, CreateInvite, Database, MarkActive,
     MarkDenied, MarkEnded, TerminateLookup, Terminate, Statement
<1>5. ASSUME NEW c \in Conns, ServerSocket(c) \/ ServerHangsUp(c) \/ Lose(c) PROVE UNCHANGED agent
  BY <1>5 DEF ServerSocket, AgentAdmit, AgentListen, TabAdmit, DropEarly, RecvJoin, RecvRelay,
     ServerClose, CleanupRows, CleanupPresence, ServerHangsUp, Lose
<1>6. ASSUME NEW c \in Conns, NEW s \in Sessions, JoinDone(c, s) PROVE UNCHANGED agent
  BY <1>6 DEF JoinDone
<1>7. CASE PresenceLapse \/ ServerRestart
  BY <1>7 DEF PresenceLapse, ServerRestart, agent
<1>8. ASSUME NEW t \in Tabs, TabReceives(t) \/ TabOpen(t) \/ TabDisconnect(t) \/ TabClose(t)
      PROVE  UNCHANGED agent
  BY <1>8 DEF TabReceives, TabRecv, TabNoticesLoss, TabOpen, TabDisconnect, TabClose
<1>9. CASE UNCHANGED vars
  BY <1>9 DEF vars, agent
<1>10. CASE UNCHANGED agent
  BY <1>10 DEF agent
<1> QED BY <1>1, <1>2, <1>3, <1>4, <1>5, <1>6, <1>7, <1>8, <1>9, <1>10 DEF Next, AgentReceives

\* The agent accepts a session only while it holds a socket.
LEMMA ConnectedStep ==
  ASSUME TypeOK, IInv, OffersInv, [Next]_vars
  PROVE  /\ agentConn' # NoConn => agentConn' = agentConn \/ (agentConn' \in AgentConns /\ stage'[agentConn'] # "unused")
         /\ active' # NoSession => active # NoSession \/ agentConn # NoConn
<1>1. CASE AgentInvite
  BY <1>1 DEF AgentInvite, AgentTakes
<1>2. CASE AgentReady \/ AgentEnd \/ AgentAnswer \/ AgentNoticesLoss
  BY <1>2 DEF AgentReady, AgentEnd, AgentAnswer, AgentNoticesLoss
<1>3. ASSUME NEW c \in AgentConns, AgentConnect(c) 
      PROVE  /\ agentConn' \in AgentConns /\ stage'[agentConn'] # "unused"
             /\ active' = active
  BY <1>3, ConnParts DEF AgentConnect, TypeOK
<1>4. CASE AgentLocalEnd \/ AgentQuit \/ AgentCrash \/ AgentGivesUp
  BY <1>4 DEF AgentLocalEnd, AgentQuit, AgentCrash, AgentGivesUp, AgentExits
<1>5. ASSUME NEW s \in Sessions, Create(s) \/ Database(s) PROVE UNCHANGED agent
  BY <1>5 DEF Create, CreateCheck, CreateInsert, CreateInvite, Database, MarkActive,
     MarkDenied, MarkEnded, TerminateLookup, Terminate, Statement
<1>6. ASSUME NEW c \in Conns, ServerSocket(c) \/ ServerHangsUp(c) \/ Lose(c) PROVE UNCHANGED agent
  BY <1>6 DEF ServerSocket, AgentAdmit, AgentListen, TabAdmit, DropEarly, RecvJoin, RecvRelay,
     ServerClose, CleanupRows, CleanupPresence, ServerHangsUp, Lose
<1>7. ASSUME NEW c \in Conns, NEW s \in Sessions, JoinDone(c, s) PROVE UNCHANGED agent
  BY <1>7 DEF JoinDone
<1>8. CASE PresenceLapse \/ ServerRestart
  BY <1>8 DEF PresenceLapse, ServerRestart, agent
<1>9. ASSUME NEW t \in Tabs, TabReceives(t) \/ TabOpen(t) \/ TabDisconnect(t) \/ TabClose(t)
      PROVE  UNCHANGED agent
  BY <1>9 DEF TabReceives, TabRecv, TabNoticesLoss, TabOpen, TabDisconnect, TabClose
<1>10. CASE UNCHANGED vars
  BY <1>10 DEF vars, agent
<1>11. CASE UNCHANGED agent
  BY <1>11 DEF agent
<1> QED BY <1>1, <1>2, <1>3, <1>4, <1>5, <1>6, <1>7, <1>8, <1>9, <1>10, <1>11
        DEF Next, AgentReceives, AgentOther

LEMMA OffersStep == TypeOK /\ IInv /\ OffersInv /\ [Next]_vars => OffersInv'
<1> SUFFICES ASSUME TypeOK, IInv, OffersInv, [Next]_vars PROVE OffersInv'
  OBVIOUS
<1>1. History
  BY HistoryStep
<1>2. /\ \A s : PageJoined(s) => PageJoined(s)'
      /\ \A c : Replaces(c) => Replaces(c)'
  BY <1>1, HistoryKeeps
<1>3. ReadyAnnounced'
  <2> SUFFICES ASSUME NEW c \in AgentConns, NEW i \in 1 .. Len(inbox'[c]), 
                      inbox'[c][i].type = "ready"
               PROVE  \E t \in Tabs : inbox'[c][i].session \in joined'[t]
    BY DEF ReadyAnnounced, PageJoined
  <2>1. CASE \E j \in 1 .. Len(inbox[c]) : inbox'[c][i] = inbox[c][j]
    <3>1. PICK j \in 1 .. Len(inbox[c]) : inbox'[c][i] = inbox[c][j]
      BY <2>1
    <3>2. PICK t \in Tabs : inbox[c][j].session \in joined[t]
      BY <3>1 DEF OffersInv, ReadyAnnounced, PageJoined
    <3> QED BY <1>1, <3>1, <3>2, ConnParts DEF History
  <2> QED BY <2>1, InboxNews
<1>4. ReadyRemembered'
  <2>1. CASE PageJoined(pendingReady')
    BY <1>1, <2>1, ConnParts DEF ReadyRemembered, PageJoined, History
  <2>2. CASE pendingReady' \in {pendingReady, NoSession}
    BY <1>1, <2>2, ConnParts DEF OffersInv, ReadyRemembered, PageJoined, History
  <2> QED BY <2>1, <2>2, RememberedStep
<1>5. OffersAnnounced'
  <2> SUFFICES ASSUME NEW c \in AgentConns, NEW i \in 1 .. Len(outbox'[c]),
                      outbox'[c][i].type = "offer"
               PROVE  (\E t \in Tabs : outbox'[c][i].session \in joined'[t]) \/ Replaces(c)'
    BY DEF OffersAnnounced, PageJoined
  <2>1. PageJoined(outbox'[c][i].session) \/ Replaces(c)
    BY OutboxNews DEF OffersInv, OffersAnnounced
  <2>2. CASE Replaces(c)
    BY <1>2, <2>2
  <2>3. CASE PageJoined(outbox'[c][i].session)
    <3>1. PICK t \in Tabs : outbox'[c][i].session \in joined[t]
      BY <2>3 DEF PageJoined
    <3> QED BY <1>1, <3>1, ConnParts DEF History
  <2> QED BY <2>1, <2>2, <2>3
<1>6. ServingConnected'
  <2>1. agentConn # NoConn => agentConn \in AgentConns
    BY DEF TypeOK
  <2> QED BY <1>1, <2>1, ConnectedStep DEF OffersInv, ServingConnected, History
<1> QED BY <1>3, <1>4, <1>5, <1>6 DEF OffersInv

LEMMA OffersInvariant == Spec => []OffersInv
<1>1. Init => OffersInv
  BY ConnParts DEF Init, OffersInv, ReadyAnnounced, ReadyRemembered, OffersAnnounced, ServingConnected
<1>2. TypeOK /\ IInv /\ OffersInv /\ [Next]_vars => OffersInv'
  BY OffersStep
<1> QED BY <1>1, <1>2, Invariant, PTL DEF Spec

\* Every offer an agent sends on the socket it started with follows the join
\* of a page: only a socket that replaced another may offer unasked.
THEOREM OfferIsExpected ==
  Spec => [](\A c \in AgentConns, s \in Sessions :
               Has(outbox[c], "offer", s) => PageJoined(s) \/ Replaces(c))
<1>1. OffersInv => \A c \in AgentConns, s \in Sessions :
                     Has(outbox[c], "offer", s) => PageJoined(s) \/ Replaces(c)
  BY DEF OffersInv, OffersAnnounced, Has, Frame
<1> QED BY <1>1, OffersInvariant, PTL

\* With a single socket, which is what the run checks, that is OfferFollowsJoin.
THEOREM OfferFollowsReady ==
  ASSUME \A c, d \in AgentConns : c = d
  PROVE  Spec => []OfferFollowsJoin
<1>1. OffersInv => OfferFollowsJoin
  BY DEF OffersInv, OffersAnnounced, Replaces, PageJoined, OfferFollowsJoin, Has, Frame
<1> QED BY <1>1, OffersInvariant, PTL

-------------------------------------------------------------------------------
(* The refinement: RemoteSession implements SessionLifecycle.               *)

\* A row that ends keeps the promise of Lifecycle!End.
LEMMA Ending ==
  ASSUME TypeOK, NEW s \in Sessions, row[s] # "none",
         row' = [row EXCEPT ![s] = "ended"], UNCHANGED <<verdict, active>>
  PROVE  Lifecycle!End
<1> DEFINE S == {s}
<1>1. S \in SUBSET {r \in Sessions : row[r] # "none"}
  OBVIOUS
<1>2. row' = [r \in Sessions |-> IF r \in S THEN "ended" ELSE row[r]]
  BY DEF TypeOK
<1> QED BY <1>1, <1>2 DEF Lifecycle!End

\* The statements: each records what the agent decided, or ends the row.
LEMMA DatabaseMaps ==
  ASSUME TypeOK, IInv, NEW s \in Sessions, Database(s)
  PROVE  Lifecycle!Next \/ UNCHANGED Lifecycle!vars
<1>1. UNCHANGED <<verdict, active>>
  BY DEF Database, MarkActive, MarkDenied, MarkEnded, TerminateLookup, Terminate, Statement, agent
<1>2. CASE MarkActive(s)
  <2>1. CASE row[s] = "pending"
    <3>1. Lifecycle!RecordAccept(s)
      BY <1>1, <1>2, <2>1 DEF MarkActive, Statement, IInv, StatementsDecided, Lifecycle!RecordAccept
    <3> QED BY <3>1 DEF Lifecycle!Next
  <2>2. CASE row[s] # "pending"
    BY <1>1, <1>2, <2>2 DEF MarkActive, Lifecycle!vars
  <2> QED BY <2>1, <2>2
<1>3. CASE MarkDenied(s)
  <2>1. CASE row[s] = "pending"
    <3>1. Lifecycle!RecordRefusal(s)
      BY <1>1, <1>3, <2>1 DEF MarkDenied, Statement, IInv, StatementsDecided,
                              Lifecycle!RecordRefusal
    <3> QED BY <3>1 DEF Lifecycle!Next
  <2>2. CASE row[s] # "pending"
    BY <1>1, <1>3, <2>2 DEF MarkDenied, Lifecycle!vars
  <2> QED BY <2>1, <2>2
<1>4. CASE MarkEnded(s)
  <2>1. CASE row[s] \in Live
    BY <1>1, <1>4, <2>1, Ending DEF MarkEnded, Live, Lifecycle!Next
  <2>2. CASE row[s] \notin Live
    BY <1>1, <1>4, <2>2 DEF MarkEnded, Lifecycle!vars
  <2> QED BY <2>1, <2>2
<1>5. CASE TerminateLookup(s)
  BY <1>1, <1>5 DEF TerminateLookup, db, Lifecycle!vars
<1>6. CASE Terminate(s)
  <2>1. row[s] # "none"
    BY <1>6 DEF Terminate, Statement, IInv, StatementsDecided
  <2> QED BY <1>1, <1>6, <2>1, Ending DEF Terminate, Lifecycle!Next
<1> QED BY <1>2, <1>3, <1>4, <1>5, <1>6 DEF Database

\* The invitation is decided once, on a row that exists.
LEMMA InviteMaps ==
  ASSUME TypeOK, IInv, AgentInvite
  PROVE  Lifecycle!Next \/ UNCHANGED Lifecycle!vars
<1>1. UNCHANGED row /\ AgentTakes("invite")
  BY DEF AgentInvite, db
<1>2. /\ agentConn \in Conns /\ Taken \in Sessions
      /\ 1 \in 1 .. Len(inbox[agentConn])
      /\ inbox[agentConn][1].type = "invite" /\ inbox[agentConn][1].session = Taken
  BY <1>1, AgentTaking
<1>3. verdict[Taken] = "open" /\ row[Taken] # "none"
  BY <1>2 DEF IInv, InvitesOpen, RowsRequested
<1>4. CASE UNCHANGED <<verdict, active>>
  BY <1>1, <1>4 DEF Lifecycle!vars
<1>5. CASE verdict' = [verdict EXCEPT ![Taken] = "refused"] /\ UNCHANGED active
  <2>1. Lifecycle!Refuse(Taken)
    BY <1>1, <1>3, <1>5 DEF Lifecycle!Refuse
  <2> QED BY <1>2, <2>1 DEF Lifecycle!Next
<1>6. CASE /\ active = NoSession /\ active' = Taken
           /\ verdict' = [verdict EXCEPT ![Taken] = "accepted"]
  <2>1. Lifecycle!Accept(Taken)
    BY <1>1, <1>3, <1>6 DEF Lifecycle!Accept
  <2> QED BY <1>2, <2>1 DEF Lifecycle!Next
<1> QED BY <1>4, <1>5, <1>6, Zenon DEF AgentInvite, AcceptSession, Refuses

LEMMA StepMaps ==
  TypeOK /\ IInv /\ [Next]_vars => [Lifecycle!Next]_Lifecycle!vars
<1> SUFFICES ASSUME TypeOK, IInv, [Next]_vars
             PROVE  Lifecycle!Next \/ UNCHANGED Lifecycle!vars
  OBVIOUS
<1>1. ASSUME UNCHANGED <<row, verdict, active>> PROVE UNCHANGED Lifecycle!vars
  BY <1>1 DEF Lifecycle!vars
<1>2. ASSUME UNCHANGED <<row, verdict>>, active' = NoSession
      PROVE  Lifecycle!Next \/ UNCHANGED Lifecycle!vars
  <2>1. CASE active = NoSession
    BY <1>2, <2>1 DEF Lifecycle!vars
  <2>2. CASE active # NoSession
    BY <1>2, <2>2 DEF Lifecycle!Release, Lifecycle!Next
  <2> QED BY <2>1, <2>2
<1>3. ASSUME NEW s \in Sessions, Create(s) PROVE Lifecycle!Next \/ UNCHANGED Lifecycle!vars
  <2>1. CASE CreateCheck(s) \/ CreateInvite(s)
    BY <1>1, <2>1 DEF CreateCheck, CreateInvite, agent
  <2>2. CASE CreateInsert(s)
    <3>1. Lifecycle!Request(s)
      BY <2>2 DEF CreateInsert, agent, IInv, RowsRequested, Lifecycle!Request
    <3> QED BY <3>1 DEF Lifecycle!Next
  <2> QED BY <1>3, <2>1, <2>2 DEF Create
<1>4. ASSUME NEW s \in Sessions, Database(s) PROVE Lifecycle!Next \/ UNCHANGED Lifecycle!vars
  BY <1>4, DatabaseMaps
<1>5. ASSUME NEW c \in Conns, CleanupRows(c)
      PROVE  Lifecycle!Next \/ UNCHANGED Lifecycle!vars
  <2> DEFINE S == {s \in Sessions : row[s] \in Live}
  <2>1. S \in SUBSET {s \in Sessions : row[s] # "none"}
    BY DEF Live
  <2>2. /\ row' = [s \in Sessions |-> IF s \in S THEN "ended" ELSE row[s]]
        /\ UNCHANGED <<verdict, active>>
    BY <1>5 DEF CleanupRows, agent
  <2>3. Lifecycle!End
    BY <2>1, <2>2 DEF Lifecycle!End
  <2> QED BY <2>3 DEF Lifecycle!Next
<1>6. ASSUME NEW c \in Conns, ServerSocket(c) \/ ServerHangsUp(c) \/ Lose(c)
      PROVE  Lifecycle!Next \/ UNCHANGED Lifecycle!vars
  <2>1. CASE CleanupRows(c)
    BY <1>5, <2>1
  <2>2. CASE ~CleanupRows(c)
    <3>1. UNCHANGED <<row, verdict, active>>
      BY <1>6, <2>2 DEF ServerSocket, AgentAdmit, AgentListen, TabAdmit, DropEarly, RecvJoin,
         RecvRelay, ServerClose, CleanupPresence, ServerHangsUp, Lose, db, agent
    <3> QED BY <1>1, <3>1
  <2> QED BY <2>1, <2>2
<1>7. ASSUME NEW c \in Conns, NEW s \in Sessions, JoinDone(c, s)
      PROVE  UNCHANGED Lifecycle!vars
  BY <1>1, <1>7 DEF JoinDone, db, agent
<1>8. CASE PresenceLapse \/ ServerRestart
  BY <1>1, <1>8 DEF PresenceLapse, ServerRestart, db, agent
<1>9. CASE AgentReceives
  <2>1. CASE AgentInvite
    BY <2>1, InviteMaps
  <2>2. CASE AgentEnd
    BY <1>1, <1>2, <2>2 DEF AgentEnd, db
  <2>3. CASE AgentReady \/ AgentAnswer \/ AgentNoticesLoss
    BY <1>1, <2>3 DEF AgentReady, AgentAnswer, AgentNoticesLoss, db
  <2> QED BY <1>9, <2>1, <2>2, <2>3 DEF AgentReceives
<1>10. CASE AgentOther
  <2>1. ASSUME NEW c \in AgentConns, AgentConnect(c) PROVE UNCHANGED <<row, verdict, active>>
    BY <2>1 DEF AgentConnect, db
  <2>2. CASE AgentLocalEnd \/ AgentQuit \/ AgentCrash \/ AgentGivesUp
    BY <1>2, <2>2 DEF AgentLocalEnd, AgentQuit, AgentCrash, AgentGivesUp, AgentExits, db
  <2> QED BY <1>1, <1>10, <2>1, <2>2 DEF AgentOther
<1>11. ASSUME NEW t \in Tabs, TabReceives(t) \/ TabOpen(t) \/ TabDisconnect(t) \/ TabClose(t)
       PROVE  UNCHANGED Lifecycle!vars
  BY <1>1, <1>11 DEF TabReceives, TabRecv, TabNoticesLoss, TabOpen, TabDisconnect, TabClose,
                     db, agent
<1>12. CASE UNCHANGED vars
  BY <1>1, <1>12 DEF vars, db, agent
<1> QED BY <1>3, <1>4, <1>6, <1>7, <1>8, <1>9, <1>10, <1>11, <1>12 DEF Next

\* The session protocol, with its sockets, races and crashes, does nothing to
\* a session's row, verdict and service that SessionLifecycle does not allow.
THEOREM Implements == Spec => LifecycleSpec
<1>1. Init => Lifecycle!Init
  BY DEF Init, Lifecycle!Init
<1>2. TypeOK /\ IInv /\ [Next]_vars => [Lifecycle!Next]_Lifecycle!vars
  BY StepMaps
<1> QED BY <1>1, <1>2, Invariant, PTL DEF Spec, LifecycleSpec, Lifecycle!Spec
===============================================================================
