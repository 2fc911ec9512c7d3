----------------------------- MODULE RemoteSession -----------------------------
(***************************************************************************)
(* One device, its agent, and the browser tabs that view it, through the   *)
(* signaling server: the session rows of the database, presence, the hub's *)
(* channels, the server's asynchronous handlers, the two directions of     *)
(* every WebSocket, the agent's event loop and the session page.           *)
(*                                                                         *)
(* A handler that awaits the database is split where it awaits: what it    *)
(* does before is one step, the awaited statement and what follows another. *)
(* Only frames the receiver acts on are delivered (Heeds).                 *)
(*                                                                         *)
(* Definitions marked "Mistake:" are variants of the one that follows, with *)
(* a bug the properties catch; the specification does not use them.        *)
(***************************************************************************)
EXTENDS Naturals, Sequences

CONSTANTS
  Sessions,    \* session ids the controllers may request
  NoSession,   \* Option::None for a session
  Tabs,        \* session pages, each with the one socket it opens
  TabSession,  \* the session of each page's URL
  AgentConns,  \* sockets the agent opens, each once: bounds its reconnects
  NoConn,      \* no socket
  Faults,      \* what may go wrong, see FaultKinds
  MaxRestarts  \* bound on server restarts

FaultKinds == {"loss",     \* a socket dies, with the frames still on it
               "token",    \* a socket outlives the token it was opened with
               "silence",  \* a page sends nothing for the presence TTL
               "lapse",    \* heartbeats stop and the presence entry expires
               "crash",    \* the agent process dies
               "restart"}  \* the server process dies and comes back

ASSUME SessionsAssumption == NoSession \notin Sessions
ASSUME ConnsAssumption == NoConn \notin AgentConns /\ AgentConns \cap Tabs = {}
ASSUME TabsAssumption == TabSession \in [Tabs -> Sessions]
ASSUME FaultsAssumption == Faults \subseteq FaultKinds /\ MaxRestarts \in Nat

Conns == AgentConns \cup Tabs

VARIABLES
  row, endReason,  \* remote_sessions.status and .endReason
  req,             \* progress of POST /sessions for this id
  presence,        \* the socket the presence entry names, or NoConn
  stage,           \* life of a socket in the server process
  joined,          \* connection.sessions
  members,         \* the session channels of the hub
  deviceChan,      \* the device channel of the hub
  queries,         \* session:join handlers awaiting their SELECT
  writes,          \* statements on rows in flight
  up,              \* the client's end of the socket is open
  inbox, outbox,   \* frames to and from the client, in order
  agentConn,       \* the agent's `sender`/`inbound`, or NoConn
  active, pc,      \* the agent's ActiveSession and its peer connection
  pendingReady,    \* the agent's pending_ready
  verdict,         \* what the agent decided on an invitation, ever
  tab,             \* phase of the session page
  restarts

db     == <<row, endReason, req>>
server == <<presence, stage, joined, members, deviceChan, queries>>
net    == <<up, inbox, outbox>>
agent  == <<agentConn, active, pc, pendingReady, verdict>>
vars   == <<db, server, writes, net, agent, tab, restarts>>

\* Mistake: one of the two statuses is forgotten.
LiveButPending == {"active"}
LiveButActive == {"pending"}

Live == {"pending", "active"}  \* no code path ever writes 'reconnecting'

FrameTypes == {"invite", "ready", "join", "accept", "deny", "end",
               "offer", "answer", "state:denied"}
Frame(type, s) == [type |-> type, session |-> s]

Statements == {"active", "denied", "end", "lookup", "terminate"}

\* Mistake: the agent's decoder does not know session:end.
AgentHeedsNoEnd == {"invite", "ready", "answer"}
\* Mistake: the page's decoder does not know webrtc:offer.
PageHeedsNoOffer == {"state:denied", "deny", "end"}

\* The frames each client acts on; any other it drops or only displays.
AgentHeeds == {"invite", "ready", "end", "answer"}
PageHeeds  == {"state:denied", "deny", "end", "offer"}
Heeds(c) == IF c \in AgentConns THEN AgentHeeds ELSE PageHeeds

\* In the hub, with a socket that can still be written to.
Reachable(c) == up[c] /\ stage[c] \in {"added", "open"}

\* Mistake: every socket of the hub gets the frame.
HearersAnywhere(channel, type) == {c \in Conns : Reachable(c) /\ type \in Heeds(c)}

\* The members of a channel that get, and act on, a frame of this type.
Hearers(channel, type) == {c \in channel : Reachable(c) /\ type \in Heeds(c)}

\* An end notices that a socket is gone after it took every frame on it, or
\* earlier if frames can be lost.
Drained(q) == q = <<>> \/ "loss" \in Faults

\* The inboxes once frame f is delivered to the sockets in R.
Deliver(f, R) == [c \in Conns |-> IF c \in R THEN Append(inbox[c], f) ELSE inbox[c]]

\* The outboxes once the client writes frames fs to c; a dead socket loses them.
Send(c, fs) == IF up[c] THEN [outbox EXCEPT ![c] = @ \o fs] ELSE outbox

Init ==
  /\ row = [s \in Sessions |-> "none"]
  /\ endReason = [s \in Sessions |-> "none"]
  /\ req = [s \in Sessions |-> "idle"]
  /\ presence = NoConn
  /\ stage = [c \in Conns |-> "unused"]
  /\ joined = [c \in Conns |-> {}]
  /\ members = [s \in Sessions |-> {}]
  /\ deviceChan = {}
  /\ queries = {} /\ writes = {}
  /\ up = [c \in Conns |-> FALSE]
  /\ inbox = [c \in Conns |-> <<>>]
  /\ outbox = [c \in Conns |-> <<>>]
  /\ agentConn = NoConn /\ active = NoSession /\ pc = "none"
  /\ pendingReady = NoSession
  /\ verdict = [s \in Sessions |-> "open"]
  /\ tab = [t \in Tabs |-> "unopened"]
  /\ restarts = 0

-------------------------------------------------------------------------------
(* POST /sessions: check, INSERT, invite; another request may run between.  *)

CreateCheck(s) ==
  /\ req[s] = "idle"
  /\ presence # NoConn                          \* else DEVICE_OFFLINE
  /\ \A r \in Sessions : row[r] \notin Live     \* else DEVICE_BUSY
  /\ req' = [req EXCEPT ![s] = "checked"]
  /\ UNCHANGED <<row, endReason, server, writes, net, agent, tab, restarts>>

CreateInsert(s) ==
  /\ req[s] = "checked"
  /\ req' = [req EXCEPT ![s] = "inserted"]
  /\ row' = [row EXCEPT ![s] = "pending"]
  /\ UNCHANGED <<endReason, server, writes, net, agent, tab, restarts>>

CreateInvite(s) ==
  /\ req[s] = "inserted"
  /\ req' = [req EXCEPT ![s] = "invited"]
  /\ inbox' = Deliver(Frame("invite", s), Hearers(deviceChan, "invite"))
  /\ UNCHANGED <<row, endReason, server, writes, up, outbox, agent, tab, restarts>>

-------------------------------------------------------------------------------
(* GET /signal: the socket is already open while the token is checked.      *)

\* An agent's socket enters the hub, its device channel and presence.
AgentAdmit(c) ==
  /\ c \in AgentConns /\ stage[c] = "auth"
  /\ stage' = [stage EXCEPT ![c] = "added"]
  /\ deviceChan' = deviceChan \cup {c}
  /\ presence' = c
  /\ UNCHANGED <<db, joined, members, queries, writes, net, agent, tab, restarts>>

\* Presence and audit rows are written: only now are the listeners set. A
\* socket that closed before this has no listener for its close event.
AgentListen(c) ==
  /\ stage[c] = "added"
  /\ \/ stage' = [stage EXCEPT ![c] = "open"]
     \/ ~up[c] /\ stage' = [stage EXCEPT ![c] = "zombie"]
  /\ UNCHANGED <<db, presence, joined, members, deviceChan, queries, writes, net,
                 agent, tab, restarts>>

\* A page's socket is added and listened to without an await between.
TabAdmit(t) ==
  /\ t \in Tabs /\ stage[t] = "auth"
  /\ \/ stage' = [stage EXCEPT ![t] = "open"]
     \/ ~up[t] /\ stage' = [stage EXCEPT ![t] = "zombie"]
  /\ UNCHANGED <<db, presence, joined, members, deviceChan, queries, writes, net,
                 agent, tab, restarts>>

\* A frame that arrives before the listeners are set is lost.
DropEarly(c) ==
  /\ stage[c] \in {"auth", "added"} /\ outbox[c] # <<>>
  /\ outbox' = [outbox EXCEPT ![c] = Tail(@)]
  /\ UNCHANGED <<db, server, writes, up, inbox, agent, tab, restarts>>

-------------------------------------------------------------------------------
(* The message handler.                                                     *)

RecvJoin(c) ==
  /\ stage[c] = "open" /\ outbox[c] # <<>>
  /\ Head(outbox[c]).type = "join"
  /\ outbox' = [outbox EXCEPT ![c] = Tail(@)]
  /\ queries' = queries \cup {<<c, Head(outbox[c]).session>>}
  /\ UNCHANGED <<db, presence, stage, joined, members, deviceChan, writes, up, inbox,
                 agent, tab, restarts>>

\* Mistake: session:ready for whoever joins.
AnnouncesAnyone(c) == TRUE

\* Only a page's join is announced with session:ready.
Announces(c) == c \in Tabs

\* The SELECT answers: the connection joins and, if it is a page's, the page
\* learns a denial and the channel gets session:ready. Otherwise
\* SESSION_NOT_FOUND, which no client acts on.
JoinDone(c, s) ==
  /\ <<c, s>> \in queries
  /\ queries' = queries \ {<<c, s>>}
  /\ IF row[s] \in {"none", "ended"}
       THEN UNCHANGED <<joined, members, inbox>>
       ELSE /\ joined' = [joined EXCEPT ![c] = @ \cup {s}]
            /\ members' = [members EXCEPT ![s] = @ \cup {c}]
            /\ inbox' = [d \in Conns |->
                 IF d = c /\ c \in Tabs /\ row[s] = "denied" /\ Reachable(c)
                   THEN Append(inbox[d], Frame("state:denied", s))
                 ELSE IF Announces(c) /\ d \in Hearers(members[s] \cup {c}, "ready")
                   THEN Append(inbox[d], Frame("ready", s))
                 ELSE inbox[d]]
  /\ UNCHANGED <<db, presence, stage, deviceChan, writes, up, outbox, agent, tab, restarts>>

\* The statement a relayed frame leads to, if any.
StatementsOf(c, f) ==
  CASE f.type = "accept" /\ c \in AgentConns -> {<<"active", f.session>>}
    [] f.type = "deny" /\ c \in AgentConns   -> {<<"denied", f.session>>}
    [] f.type = "end"                        -> {<<"end", f.session>>}
    [] OTHER                                 -> {}

\* A session frame is published to the channel, the sender included, and
\* then recorded; before the join is done it is refused, which the sender
\* only logs.
RecvRelay(c) ==
  /\ stage[c] = "open" /\ outbox[c] # <<>>
  /\ LET f == Head(outbox[c]) IN
       /\ f.type # "join"
       /\ IF f.session \in joined[c]
            THEN /\ inbox' = Deliver(f, Hearers(members[f.session], f.type))
                 /\ writes' = writes \cup StatementsOf(c, f)
            ELSE UNCHANGED <<inbox, writes>>
  /\ outbox' = [outbox EXCEPT ![c] = Tail(@)]
  /\ UNCHANGED <<db, server, up, agent, tab, restarts>>

\* A statement reaches the database. The relay's are conditional on the
\* status they find; terminate's is not, its check was an earlier SELECT.
Statement(kind, s) ==
  /\ <<kind, s>> \in writes
  /\ writes' = writes \ {<<kind, s>>}
  /\ UNCHANGED <<req, server, net, agent, tab, restarts>>

\* Mistake: without "AND status = 'pending'".
MarkActiveAlways(s) ==
  /\ Statement("active", s)
  /\ row' = [row EXCEPT ![s] = "active"]
  /\ UNCHANGED endReason

MarkActive(s) ==
  /\ Statement("active", s)
  /\ row' = IF row[s] = "pending" THEN [row EXCEPT ![s] = "active"] ELSE row
  /\ UNCHANGED endReason

\* Mistake: a status the rest of the code never writes.
MarkDeniedAsFailed(s) ==
  /\ Statement("denied", s)
  /\ row' = IF row[s] = "pending" THEN [row EXCEPT ![s] = "failed"] ELSE row
  /\ UNCHANGED endReason

MarkDenied(s) ==
  /\ Statement("denied", s)
  /\ row' = IF row[s] = "pending" THEN [row EXCEPT ![s] = "denied"] ELSE row
  /\ UNCHANGED endReason

MarkEnded(s) ==
  /\ Statement("end", s)
  /\ IF row[s] \in Live
       THEN /\ row' = [row EXCEPT ![s] = "ended"]
            /\ endReason' = [endReason EXCEPT ![s] = "user"]
       ELSE UNCHANGED <<row, endReason>>

TerminateLookup(s) ==
  /\ <<"lookup", s>> \in writes
  /\ writes' = (writes \ {<<"lookup", s>>})
                 \cup (IF row[s] \in {"none", "ended"} THEN {} ELSE {<<"terminate", s>>})
  /\ UNCHANGED <<db, server, net, agent, tab, restarts>>

Terminate(s) ==
  /\ Statement("terminate", s)
  /\ row' = [row EXCEPT ![s] = "ended"]
  /\ endReason' = [endReason EXCEPT ![s] = "user"]

Database(s) ==
  MarkActive(s) \/ MarkDenied(s) \/ MarkEnded(s) \/ TerminateLookup(s) \/ Terminate(s)

-------------------------------------------------------------------------------
(* The close handler, and what makes the server close a socket.             *)

\* hub.remove; nothing else for a page.
ServerClose(c) ==
  /\ stage[c] = "open" /\ ~up[c] /\ Drained(outbox[c])
  /\ outbox' = [outbox EXCEPT ![c] = <<>>]
  /\ stage' = [stage EXCEPT ![c] = IF c \in AgentConns THEN "closing" ELSE "closed"]
  /\ members' = [s \in Sessions |-> IF s \in joined[c] THEN members[s] \ {c} ELSE members[s]]
  /\ deviceChan' = deviceChan \ {c}
  /\ UNCHANGED <<db, presence, joined, queries, writes, up, inbox, agent, tab, restarts>>

\* UPDATE remote_sessions ... endReason = 'agent_disconnected'.
CleanupRows(c) ==
  /\ stage[c] = "closing"
  /\ stage' = [stage EXCEPT ![c] = "dropping"]
  /\ row' = [s \in Sessions |-> IF row[s] \in Live THEN "ended" ELSE row[s]]
  /\ endReason' = [s \in Sessions |-> IF row[s] \in Live THEN "agent_disconnected"
                                                         ELSE endReason[s]]
  /\ UNCHANGED <<req, presence, joined, members, deviceChan, queries, writes, net, agent,
                 tab, restarts>>

\* Mistake: the entry is spared when it is this socket's own.
CleanupPresenceOfOthers(c) ==
  /\ stage[c] = "dropping"
  /\ stage' = [stage EXCEPT ![c] = "closed"]
  /\ presence' = IF presence = c THEN presence ELSE NoConn
  /\ UNCHANGED <<db, joined, members, deviceChan, queries, writes, net, agent, tab, restarts>>

\* markDeviceOffline, whichever socket the presence entry names by now.
CleanupPresence(c) ==
  /\ stage[c] = "dropping"
  /\ stage' = [stage EXCEPT ![c] = "closed"]
  /\ presence' = NoConn
  /\ UNCHANGED <<db, joined, members, deviceChan, queries, writes, net, agent, tab, restarts>>

\* A frame on an expired token (an agent's heartbeat is always due), or the
\* watchdog on a page that has been silent: the server closes the socket.
ServerHangsUp(c) ==
  /\ stage[c] = "open" /\ up[c]
  /\ \/ "token" \in Faults /\ (c \in AgentConns \/ outbox[c] # <<>>)
     \/ "silence" \in Faults /\ c \in Tabs /\ outbox[c] = <<>>
  /\ up' = [up EXCEPT ![c] = FALSE]
  /\ outbox' = [outbox EXCEPT ![c] = <<>>]
  /\ UNCHANGED <<db, server, writes, inbox, agent, tab, restarts>>

\* The presence entry expires: no open socket refreshes it.
PresenceLapse ==
  /\ presence # NoConn
  /\ "lapse" \in Faults \/ \A c \in AgentConns : ~(stage[c] = "open" /\ up[c])
  /\ presence' = NoConn
  /\ UNCHANGED <<db, stage, joined, members, deviceChan, queries, writes, net, agent,
                 tab, restarts>>

\* A socket dies. Each end takes some of what was on it, then notices.
Lose(c) ==
  /\ "loss" \in Faults /\ up[c]
  /\ up' = [up EXCEPT ![c] = FALSE]
  /\ UNCHANGED <<db, server, writes, inbox, outbox, agent, tab, restarts>>

\* The server process dies before any close handler runs: its memory is
\* gone, the rows stay. A request it was serving fails.
ServerRestart ==
  /\ "restart" \in Faults /\ restarts < MaxRestarts
  /\ restarts' = restarts + 1
  /\ presence' = NoConn
  /\ stage' = [c \in Conns |-> IF stage[c] = "unused" THEN "unused" ELSE "closed"]
  /\ members' = [s \in Sessions |-> {}]
  /\ deviceChan' = {} /\ queries' = {} /\ writes' = {}
  /\ req' = [s \in Sessions |-> IF req[s] = "checked" THEN "idle"
                                ELSE IF req[s] = "inserted" THEN "lost" ELSE req[s]]
  /\ up' = [c \in Conns |-> FALSE]
  /\ outbox' = [c \in Conns |-> <<>>]
  /\ UNCHANGED <<row, endReason, joined, inbox, agent, tab>>

-------------------------------------------------------------------------------
(* The agent: run()'s select loop. A socket lost during a session is       *)
(* replaced without ending the session.                                     *)

\* First connection, or reconnect_signaling succeeding; an active session is
\* rejoined and its ICE restarted.
AgentConnect(c) ==
  /\ c \in AgentConns /\ agentConn = NoConn /\ stage[c] = "unused"
  /\ agentConn' = c
  /\ stage' = [stage EXCEPT ![c] = "auth"]
  /\ up' = [up EXCEPT ![c] = TRUE]
  /\ IF active = NoSession
       THEN UNCHANGED <<outbox, pc>>
       ELSE /\ outbox' = [outbox EXCEPT ![c] = <<Frame("join", active), Frame("offer", active)>>]
            /\ pc' = "offered"
  /\ UNCHANGED <<db, presence, joined, members, deviceChan, queries, writes, inbox,
                 active, pendingReady, verdict, tab, restarts>>

\* inbound.recv() returned None.
AgentNoticesLoss ==
  /\ agentConn # NoConn /\ ~up[agentConn] /\ Drained(inbox[agentConn])
  /\ inbox' = [inbox EXCEPT ![agentConn] = <<>>]
  /\ agentConn' = NoConn
  /\ UNCHANGED <<db, server, writes, up, outbox, active, pc, pendingReady, verdict, tab, restarts>>

\* What the loop takes next.
AgentTakes(type) ==
  /\ agentConn # NoConn /\ inbox[agentConn] # <<>>
  /\ Head(inbox[agentConn]).type = type
  /\ inbox' = [inbox EXCEPT ![agentConn] = Tail(@)]

Taken == Head(inbox[agentConn]).session

\* The answer to an invitation: the channel is joined first.
Answers(answer, s) == <<Frame("join", s), Frame(answer, s)>>

Refuses(s) ==
  /\ verdict' = [verdict EXCEPT ![s] = "refused"]
  /\ outbox' = Send(agentConn, Answers("deny", s))
  /\ UNCHANGED <<active, pc, pendingReady>>

\* accept_session: session::start fails, or the session is accepted and, if
\* its session:ready already came, offered.
AcceptSession(s) ==
  \/ Refuses(s)
  \/ /\ verdict' = [verdict EXCEPT ![s] = "accepted"]
     /\ active' = s
     /\ IF pendingReady = s
          THEN /\ pendingReady' = NoSession
               /\ pc' = "offered"
               /\ outbox' = Send(agentConn, Answers("accept", s) \o <<Frame("offer", s)>>)
          ELSE /\ pc' = "new"
               /\ outbox' = Send(agentConn, Answers("accept", s))
               /\ UNCHANGED pendingReady

\* Mistake: the channel is joined, and then someone at the machine is asked.
AgentInviteAsks ==
  /\ AgentTakes("invite")
  /\ outbox' = Send(agentConn, <<Frame("join", Taken)>>)
  /\ UNCHANGED <<db, server, writes, up, agentConn, active, pc, pendingReady, verdict,
                 tab, restarts>>

\* SessionInvite. A dead socket already fails the join, and the loop goes on.
AgentInvite ==
  /\ AgentTakes("invite")
  /\ \/ ~up[agentConn] /\ UNCHANGED <<outbox, active, pc, pendingReady, verdict>>
     \/ active # NoSession /\ Refuses(Taken)
     \/ active = NoSession /\ AcceptSession(Taken)
  /\ UNCHANGED <<db, server, writes, up, agentConn, tab, restarts>>

\* SessionEnd: only the active session's counts.
AgentEnd ==
  /\ AgentTakes("end")
  /\ IF active = Taken THEN active' = NoSession /\ pc' = "none"
                       ELSE UNCHANGED <<active, pc>>
  /\ UNCHANGED <<db, server, writes, up, outbox, agentConn, pendingReady, verdict, tab, restarts>>

\* SessionReady: offer now, or remember that the page is there.
AgentReady ==
  /\ AgentTakes("ready")
  /\ IF active = Taken
       THEN /\ pc' = "offered"
            /\ outbox' = Send(agentConn, <<Frame("offer", Taken)>>)
            /\ UNCHANGED pendingReady
       ELSE /\ pendingReady' = Taken
            /\ UNCHANGED <<pc, outbox>>
  /\ UNCHANGED <<db, server, writes, up, agentConn, active, verdict, tab, restarts>>

\* WebrtcAnswer: applied to an outstanding offer, an error otherwise.
AgentAnswer ==
  /\ AgentTakes("answer")
  /\ pc' = IF active = Taken /\ pc = "offered" THEN "answered" ELSE pc
  /\ UNCHANGED <<db, server, writes, up, outbox, agentConn, active, pendingReady, verdict,
                 tab, restarts>>

\* 'd' on the console.
AgentLocalEnd ==
  /\ agentConn # NoConn /\ active # NoSession
  /\ active' = NoSession /\ pc' = "none"
  /\ outbox' = Send(agentConn, <<Frame("end", active)>>)
  /\ UNCHANGED <<db, server, writes, up, inbox, agentConn, pendingReady, verdict, tab, restarts>>

\* The process is gone: its socket closes and its memory with it.
AgentExits ==
  /\ up' = [c \in Conns |-> IF c = agentConn THEN FALSE ELSE up[c]]
  /\ inbox' = [c \in Conns |-> IF c = agentConn THEN <<>> ELSE inbox[c]]
  /\ agentConn' = NoConn /\ active' = NoSession /\ pc' = "none" /\ pendingReady' = NoSession
  /\ UNCHANGED <<db, stage, joined, members, deviceChan, queries, writes, verdict, tab, restarts>>

\* 'q' or a stop signal: end the session, POST /agent/disconnect, exit.
AgentQuit ==
  /\ agentConn # NoConn
  /\ outbox' = IF active = NoSession THEN outbox
                                     ELSE Send(agentConn, <<Frame("end", active)>>)
  /\ presence' = NoConn
  /\ AgentExits

AgentCrash ==
  /\ "crash" \in Faults /\ agentConn # NoConn
  /\ AgentExits
  /\ UNCHANGED <<outbox, presence>>

\* reconnect_signaling ran out of attempts.
AgentGivesUp ==
  /\ agentConn = NoConn /\ (active # NoSession \/ pendingReady # NoSession)
  /\ AgentExits
  /\ UNCHANGED <<outbox, presence>>

-------------------------------------------------------------------------------
(* The session page.                                                        *)

Watching == {"waiting", "answered"}

\* connect(): GET /sessions/:id, then the socket, with session:join on open.
TabOpen(t) ==
  LET s == TabSession[t] IN
  /\ tab[t] = "unopened" /\ req[s] = "invited"
  /\ IF row[s] \in {"ended", "denied"}
       THEN /\ tab' = [tab EXCEPT ![t] = row[s]]
            /\ UNCHANGED <<stage, up, outbox>>
       ELSE /\ tab' = [tab EXCEPT ![t] = "waiting"]
            /\ stage' = [stage EXCEPT ![t] = "auth"]
            /\ up' = [up EXCEPT ![t] = TRUE]
            /\ outbox' = [outbox EXCEPT ![t] = <<Frame("join", s)>>]
  /\ UNCHANGED <<db, presence, joined, members, deviceChan, queries, writes, inbox, agent, restarts>>

\* teardown(phase): the page closes its socket and hears nothing more.
Teardown(t, phase) ==
  /\ tab' = [tab EXCEPT ![t] = phase]
  /\ up' = [up EXCEPT ![t] = FALSE]
  /\ inbox' = [inbox EXCEPT ![t] = <<>>]

\* onmessage: a denial or an end tears the page down, an offer is answered.
TabRecv(t) ==
  /\ tab[t] \in Watching /\ inbox[t] # <<>>
  /\ LET f == Head(inbox[t]) IN
       \/ /\ f.type \in {"deny", "state:denied"}
          /\ Teardown(t, "denied")
          /\ UNCHANGED outbox
       \/ /\ f.type = "end"
          /\ Teardown(t, "ended")
          /\ UNCHANGED outbox
       \/ /\ f.type = "offer"
          /\ tab' = [tab EXCEPT ![t] = "answered"]
          /\ inbox' = [inbox EXCEPT ![t] = Tail(@)]
          /\ outbox' = Send(t, <<Frame("answer", f.session)>>)
          /\ UNCHANGED up
  /\ UNCHANGED <<db, server, writes, agent, restarts>>

\* handleDisconnect: session:end, POST terminate, teardown.
TabDisconnect(t) ==
  /\ tab[t] \in Watching
  /\ outbox' = Send(t, <<Frame("end", TabSession[t])>>)
  /\ writes' = writes \cup {<<"lookup", TabSession[t]>>}
  /\ Teardown(t, "left")
  /\ UNCHANGED <<db, server, agent, restarts>>

\* The page is closed or reloaded: only the unmount cleanup runs.
TabClose(t) ==
  /\ tab[t] \in Watching
  /\ Teardown(t, "gone")
  /\ UNCHANGED <<db, server, writes, outbox, agent, restarts>>

\* ws.onclose without a teardown before it.
TabNoticesLoss(t) ==
  /\ tab[t] \in Watching /\ ~up[t] /\ Drained(inbox[t])
  /\ Teardown(t, "failed")
  /\ UNCHANGED <<db, server, writes, outbox, agent, restarts>>

-------------------------------------------------------------------------------
Create(s) == CreateCheck(s) \/ CreateInsert(s) \/ CreateInvite(s)

ServerSocket(c) ==
  \/ AgentAdmit(c) \/ AgentListen(c) \/ TabAdmit(c) \/ DropEarly(c)
  \/ RecvJoin(c) \/ RecvRelay(c)
  \/ ServerClose(c) \/ CleanupRows(c) \/ CleanupPresence(c)

AgentReceives == AgentInvite \/ AgentEnd \/ AgentReady \/ AgentAnswer \/ AgentNoticesLoss

AgentOther ==
  \/ \E c \in AgentConns : AgentConnect(c)
  \/ AgentLocalEnd \/ AgentQuit \/ AgentCrash \/ AgentGivesUp

TabReceives(t) == TabRecv(t) \/ TabNoticesLoss(t)

Next ==
  \/ \E s \in Sessions : Create(s) \/ Database(s)
  \/ \E c \in Conns : ServerSocket(c) \/ ServerHangsUp(c) \/ Lose(c)
  \/ \E c \in Conns, s \in Sessions : JoinDone(c, s)
  \/ PresenceLapse
  \/ ServerRestart
  \/ AgentReceives
  \/ AgentOther
  \/ \E t \in Tabs : TabReceives(t) \/ TabOpen(t) \/ TabDisconnect(t) \/ TabClose(t)

Spec == Init /\ [][Next]_vars

\* Node runs every callback that is due, the agent's loop and a page's event
\* queue take every frame; people, faults and new connections owe nothing.
Fairness ==
  /\ \A s \in Sessions : WF_vars(CreateInsert(s)) /\ WF_vars(CreateInvite(s))
  /\ \A c \in Conns : WF_vars(ServerSocket(c))
  /\ \A c \in Conns, s \in Sessions : WF_vars(JoinDone(c, s))
  /\ \A s \in Sessions : WF_vars(Database(s))
  /\ WF_vars(AgentReceives)
  /\ \A t \in Tabs : WF_vars(TabReceives(t))

FairSpec == Spec /\ Fairness
-------------------------------------------------------------------------------
(* Properties.                                                              *)

Frames == [type : FrameTypes, session : Sessions]

\* The type invariant of the session's state.
TypeOK ==
  /\ row \in [Sessions -> {"none", "pending", "active", "denied", "ended"}]
  /\ endReason \in [Sessions -> {"none", "user", "agent_disconnected"}]
  /\ req \in [Sessions -> {"idle", "checked", "inserted", "invited", "lost"}]
  /\ presence \in AgentConns \cup {NoConn}
  /\ stage \in [Conns -> {"unused", "auth", "added", "open", "closing", "dropping",
                          "closed", "zombie"}]
  /\ joined \in [Conns -> SUBSET Sessions]
  /\ members \in [Sessions -> SUBSET Conns]
  /\ deviceChan \in SUBSET AgentConns
  /\ queries \in SUBSET (Conns \X Sessions)
  /\ writes \in SUBSET (Statements \X Sessions)
  /\ up \in [Conns -> BOOLEAN]
  /\ inbox \in [Conns -> Seq(Frames)]
  /\ outbox \in [Conns -> Seq(Frames)]
  /\ agentConn \in AgentConns \cup {NoConn}
  /\ active \in Sessions \cup {NoSession}
  /\ pc \in {"none", "new", "offered", "answered"}
  /\ pendingReady \in Sessions \cup {NoSession}
  /\ verdict \in [Sessions -> {"open", "accepted", "refused"}]
  /\ tab \in [Tabs -> {"unopened", "waiting", "answered", "denied", "ended", "failed",
                       "left", "gone"}]
  /\ restarts \in Nat

\* What the frames, the statements and the agent's loop do to the session
\* rows, in whatever order they run, is what SessionLifecycle promises: the
\* row never contradicts the agent's decision, which is taken once, and the
\* agent serves one session at a time.
Lifecycle == INSTANCE SessionLifecycle WITH status <- row, serving <- active
LifecycleSpec == Lifecycle!Spec

Has(q, type, s) == \E i \in 1 .. Len(q) : q[i] = Frame(type, s)

\* The relay delivers a session's frames only to sockets that passed the
\* check of session:join for it; an invitation goes to the device instead.
RelayIsolation ==
  \A c \in Conns : \A i \in 1 .. Len(inbox[c]) :
    \/ inbox[c][i].type = "invite" /\ c \in AgentConns
    \/ inbox[c][i].session \in joined[c]

\* session:ready reaches the agent only after it decided on the invitation,
\* because it joins the channel in the handler that decides. So the offer a
\* remembered session:ready should trigger in accept_session is never sent.
ReadyFollowsVerdict ==
  \A s \in Sessions : pendingReady = s => verdict[s] # "open"

\* A row says "active" only while a socket of the agent that joined the
\* session is open or its close handler has yet to end the row, whatever the
\* order of the accept's UPDATE and the handler's. Only a server that died
\* leaves such a row behind.
ActiveRowHasAgent ==
  \A s \in Sessions : row[s] = "active" /\ restarts = 0 =>
    \E c \in AgentConns : s \in joined[c] /\ stage[c] \in {"open", "closing"}

\* The presence entry never outlives the socket that made it: that socket is
\* in the hub, or its close handler is about to delete the entry.
PresenceHasSocket ==
  presence # NoConn => stage[presence] \in {"added", "open", "closing", "dropping", "zombie"}

\* An agent sends an offer only once a page has joined the session (the point
\* of session:ready); a reconnect, which offers without asking, is excluded
\* by checking this with a single socket of the agent.
OfferFollowsJoin ==
  \A c \in AgentConns, s \in Sessions :
    Has(outbox[c], "offer", s) => \E t \in Tabs : s \in joined[t]

\* Once the agent is gone its active rows end.
AgentGoneEndsRows ==
  \A s \in Sessions :
    (row[s] = "active" /\ agentConn = NoConn) ~> (row[s] # "active" \/ agentConn # NoConn)

\* A session:ready the agent receives for the session it serves gets the page
\* that caused it out of waiting, unless the agent stops serving.
ReadyGetsOffer ==
  \A t \in Tabs :
    (/\ tab[t] = "waiting" /\ active = TabSession[t]
     /\ agentConn # NoConn /\ Has(inbox[agentConn], "ready", TabSession[t]))
      ~> (tab[t] # "waiting" \/ active # TabSession[t])

\* When a page that answered the offer disconnects, the agent stops serving.
LeavingEndsService ==
  \A t \in Tabs :
    (tab[t] = "left" /\ active = TabSession[t] /\ pc = "answered") ~> active # TabSession[t]

-------------------------------------------------------------------------------
(* What the repository says of this code and the code does not do.          *)

\* The agent joins before it answers an invitation so that the relay takes
\* the answer, "even a deny". So the row learns of the decision.
VerdictReachesRow ==
  \A s \in Sessions : (verdict[s] # "open") ~> (row[s] # "pending")
===============================================================================
