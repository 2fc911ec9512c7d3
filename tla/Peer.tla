--------------------------------- MODULE Peer ----------------------------------
(***************************************************************************)
(* An accepted session once both ends have joined it: the native agent's   *)
(* event loop, its ICE watcher and its consent-gated captures, and the     *)
(* session page's peer connection, joined by the signaling relay (one FIFO *)
(* each way) and by a network that can fail. How the two got here, and     *)
(* what becomes of the session's row, is RemoteSession's subject.          *)
(*                                                                         *)
(* What distinguishes two descriptions is whether they carry the ICE       *)
(* credentials the agent uses now ("new") or ones it has dropped ("old"):  *)
(* a restart makes everything that was exchanged before it old.            *)
(*                                                                         *)
(* WebRTC itself is not in the repository: Connectable, the ICE states and *)
(* the page's operations chain are modelled from how the code uses them.   *)
(***************************************************************************)
EXTENDS Naturals, Sequences, FiniteSets

CONSTANTS
  Caps,       \* the captures that need a request: "camera", "microphone"
  Allowed,    \* those the agent's own permission mask allows
  Tasks,      \* restart tasks that may be alive at once
  MaxEvents   \* bound on requests, network failures and socket losses

ASSUME CapsAssumption == IsFiniteSet(Caps) /\ Allowed \subseteq Caps
ASSUME BoundsAssumption == MaxEvents \in Nat /\ IsFiniteSet(Tasks)
ASSUME TasksAssumption == {"none", "loop"} \cap Tasks = {}

VARIABLES
  serving,         \* `active` is Some
  loop,            \* what the event loop's current handler has yet to do
  capture,         \* ActiveSession.camera / .microphone is Some, even if its thread died
  sig,             \* signaling state of the agent's peer connection
  latest,          \* who called create_offer last, and has yet to set that offer
  peer,            \* credentials of the answer it applied last
  ice, event,      \* its ICE state; a state change the callback has to see
  scheduled,       \* restart_scheduled
  task,            \* the spawned restart tasks
  phase, ui,       \* the page's phase and its camera and microphone buttons
  pending,         \* pendingCapabilityRequestsRef
  chain,           \* offers queued on the page's operations chain
  remote, have,    \* its remote description; an offer is applied, not answered
  answering,       \* webrtc:offer handlers past setRemoteDescription
  cred,            \* credentials its last answer was made for
  toPage, toAgent, \* frames the relay has taken
  link,            \* the agent's signaling socket
  path, usable,    \* nothing is between the two connections; the pairs found still fit
  events

agentVars == <<serving, loop, capture, sig, latest, peer, ice, event, scheduled, task>>
pageVars  == <<phase, ui, pending, chain, remote, have, answering, cred>>
netVars   == <<toPage, toAgent, link, path, usable, events>>
peerVars  == <<agentVars, pageVars, netVars>>

Creds == {"none", "old", "new"}
Down == {"disconnected", "failed"}
Gone == {"none", "over"}  \* not opened yet; ended, failed or denied
Here == phase \notin Gone

\* "up" until it is lost once; "again" if the agent's new socket could rejoin
\* the session, "refused" if the old one's close handler had ended the row.
Relayed == link \in {"up", "again"}

Frame(type)          == [type |-> type]
Offer(c)             == [type |-> "offer", creds |-> c]
Answer(c)            == [type |-> "answer", creds |-> c]
Request(c, id)       == [type |-> "request", cap |-> c, id |-> id]
Revoke(c)            == [type |-> "revoke", cap |-> c]
Response(c, id, yes) == [type |-> "response", cap |-> c, id |-> id, granted |-> yes]
State(on)            == [type |-> "state", on |-> on]

ToPage(f)  == IF Relayed /\ Here THEN Append(toPage, f) ELSE toPage
ToAgent(f) == IF Relayed THEN Append(toAgent, f) ELSE toAgent

\* A step of the handler that is no frame: set_local_description, and what
\* is left to do if it fails.
Set(otherwise) == [type |-> "set", otherwise |-> otherwise]

Idle == loop = <<>>

\* The agent's side of an accepted session that has yet to be offered.
NativeInit ==
  /\ serving = TRUE /\ loop = <<>> /\ capture = [c \in Caps |-> FALSE]
  /\ sig = "stable" /\ latest = "none" /\ peer = "none" /\ ice = "new" /\ event = FALSE
  /\ phase = "waiting" /\ toAgent = <<Frame("ready")>> /\ link = "up"

\* Everything that starts the same whoever serves.
CommonInit ==
  /\ scheduled = FALSE /\ task = [t \in Tasks |-> "idle"]
  /\ ui = [c \in Caps |-> "idle"] /\ pending = {}
  /\ chain = <<>> /\ remote = "none" /\ have = FALSE /\ answering = 0 /\ cred = "none"
  /\ toPage = <<>> /\ path = TRUE /\ usable = TRUE /\ events = 0

-------------------------------------------------------------------------------
(* Negotiation and its restart, the agent's side.                           *)

AgeCred(c) == IF c = "new" THEN "old" ELSE c
Age(f) == IF f.type \in {"offer", "answer"} THEN [f EXCEPT !.creds = AgeCred(@)] ELSE f
AgeAll(q) == [i \in DOMAIN q |-> Age(q[i])]
AgeTask(s) == IF s = "sendNew" THEN "sendOld" ELSE s

\* perform_ice_restart's create_offer: fresh credentials, whatever was
\* exchanged before no longer fits, and the ICE agent checks anew.
Restart ==
  /\ ice' = IF ice = "new" THEN ice ELSE "checking"
  /\ usable' = TRUE
  /\ peer' = AgeCred(peer)
  /\ chain' = [i \in DOMAIN chain |-> AgeCred(chain[i])]
  /\ remote' = AgeCred(remote) /\ cred' = AgeCred(cred)
  /\ toPage' = AgeAll(toPage) /\ toAgent' = AgeAll(toAgent)

\* set_local_description in the loop: it fails if the watcher has called
\* create_offer meanwhile. A ready is then only logged, a request refused.
AgentSets ==
  /\ ~Idle /\ Head(loop).type = "set"
  /\ IF latest = "loop" THEN sig' = "offered" /\ latest' = "none" /\ loop' = Tail(loop)
                        ELSE loop' = Head(loop).otherwise /\ UNCHANGED <<sig, latest>>
  /\ UNCHANGED <<serving, capture, peer, ice, event, scheduled, task, pageVars,
                 netVars>>

\* The loop's handler writes its next frame; on a dead socket that fails.
AgentWrites ==
  /\ ~Idle /\ Head(loop).type # "set"
  /\ loop' = Tail(loop)
  /\ toPage' = ToPage(Head(loop))
  /\ UNCHANGED <<serving, capture, sig, latest, peer, ice, event, scheduled, task,
                 pageVars, toAgent, link, path, usable, events>>

AgentTakes(type) ==
  /\ Idle /\ toAgent # <<>> /\ Head(toAgent).type = type
  /\ toAgent' = Tail(toAgent)

\* SessionReady for the session it serves: renegotiate(), to its create_offer.
AgentReady ==
  /\ AgentTakes("ready") /\ serving
  /\ latest' = "loop"
  /\ loop' = <<Set(<<>>), Offer("new")>>
  /\ UNCHANGED <<serving, capture, sig, peer, ice, event, scheduled, task, pageVars,
                 toPage, link, path, usable, events>>

\* WebrtcAnswer: applied to whichever offer was set last; with none
\* outstanding it is an error that is only logged.
AgentAnswer ==
  /\ AgentTakes("answer")
  /\ IF serving /\ sig = "offered"
       THEN /\ sig' = "stable" /\ peer' = Head(toAgent).creds
            /\ ice' = IF ice = "new" THEN "checking" ELSE ice
       ELSE UNCHANGED <<sig, peer, ice>>
  /\ UNCHANGED <<serving, loop, capture, latest, event, scheduled, task, pageVars,
                 toPage, link, path, usable, events>>

-------------------------------------------------------------------------------
(* The ICE watcher.                                                         *)

\* Any task that is not alive stands for the next one to be spawned.
Free == CHOOSE t \in Tasks : task[t] = "idle"

\* Mistake: an event is dropped while an earlier task is still at work.
WatchWhileBusy ==
  /\ event /\ \E t \in Tasks : task[t] = "idle"
  /\ event' = FALSE
  /\ IF \E t \in Tasks : task[t] # "idle"
       THEN UNCHANGED <<scheduled, task>>
       ELSE scheduled' = TRUE /\ task' = [task EXCEPT ![Free] = "sleep"]
  /\ UNCHANGED <<serving, loop, capture, sig, latest, peer, ice, pageVars, netVars>>

\* on_ice_connection_state_change: restart_scheduled.swap(true), and a task
\* that sleeps for the grace period unless one already does.
Watch ==
  /\ event /\ \E t \in Tasks : task[t] = "idle"
  /\ event' = FALSE
  /\ scheduled' = TRUE
  /\ task' = IF scheduled THEN task ELSE [task EXCEPT ![Free] = "sleep"]
  /\ UNCHANGED <<serving, loop, capture, sig, latest, peer, ice, pageVars, netVars>>

\* Mistake: the flag is never lowered.
WakeKeepsFlag(t) ==
  /\ task[t] = "sleep"
  /\ task' = [task EXCEPT ![t] = "awake"]
  /\ UNCHANGED <<serving, loop, capture, sig, latest, peer, ice, event, scheduled,
                 pageVars, netVars>>

\* The grace period is over: the flag is lowered before the state is read.
Wake(t) ==
  /\ task[t] = "sleep"
  /\ task' = [task EXCEPT ![t] = "awake"]
  /\ scheduled' = FALSE
  /\ UNCHANGED <<serving, loop, capture, sig, latest, peer, ice, event, pageVars, netVars>>

\* It recovered on its own, or ICE is restarted: create_offer.
Check(t) ==
  /\ task[t] = "awake"
  /\ IF ice \in Down
       THEN /\ Restart
            /\ latest' = t
            /\ task' = [u \in Tasks |-> IF u = t THEN "set" ELSE AgeTask(task[u])]
            /\ loop' = AgeAll(loop)
       ELSE /\ task' = [task EXCEPT ![t] = "idle"]
            /\ UNCHANGED <<latest, ice, usable, peer, chain, remote, cred, toPage, toAgent, loop>>
  /\ UNCHANGED <<serving, capture, sig, event, scheduled, phase, ui, pending, have,
                 answering, link, path, events>>

\* set_local_description; if the loop or another task has called create_offer
\* since, or the session is closed, it fails and the task is over.
RestartSets(t) ==
  /\ task[t] = "set"
  /\ IF latest = t
       THEN sig' = "offered" /\ latest' = "none" /\ task' = [task EXCEPT ![t] = "sendNew"]
       ELSE task' = [task EXCEPT ![t] = "idle"] /\ UNCHANGED <<sig, latest>>
  /\ UNCHANGED <<serving, loop, capture, peer, ice, event, scheduled, pageVars,
                 netVars>>

RestartSends(t) ==
  /\ task[t] \in {"sendNew", "sendOld"}
  /\ toPage' = ToPage(Offer(IF task[t] = "sendNew" THEN "new" ELSE "old"))
  /\ task' = [task EXCEPT ![t] = "idle"]
  /\ UNCHANGED <<serving, loop, capture, sig, latest, peer, ice, event, scheduled,
                 pageVars, toAgent, link, path, usable, events>>

-------------------------------------------------------------------------------
(* Camera and microphone.                                                   *)

\* grant_camera, grant_microphone: the capture runs, and the renegotiation,
\* the broadcast and the confirmation follow; if the renegotiation fails, a
\* refusal alone.
Grant(c, id) ==
  /\ capture' = [capture EXCEPT ![c] = TRUE]
  /\ latest' = "loop"
  /\ loop' = <<Set(<<Response(c, id, FALSE)>>), Offer("new"),
               State([capture EXCEPT ![c] = TRUE]), Response(c, id, TRUE)>>

\* CapabilityRequest: the mask decides. What is granted already is confirmed;
\* a device that cannot be opened is refused.
AgentRequest ==
  /\ AgentTakes("request") /\ serving
  /\ LET c == Head(toAgent).cap
         id == Head(toAgent).id
     IN \/ /\ loop' = <<Response(c, id, c \in Allowed /\ capture[c])>>
           /\ UNCHANGED <<capture, latest>>   \* refused, on already, or no such device
        \/ c \in Allowed /\ ~capture[c] /\ Grant(c, id)
  /\ UNCHANGED <<serving, sig, peer, ice, event, scheduled, task, pageVars,
                 toPage, link, path, usable, events>>

\* Mistake: the capture stops without capability:state.
StopSilently(c) ==
  /\ capture' = [capture EXCEPT ![c] = FALSE]
  /\ UNCHANGED loop

\* stop_camera, stop_microphone: the track stays, the page is told.
Stop(c) ==
  /\ capture' = [capture EXCEPT ![c] = FALSE]
  /\ loop' = <<State(capture')>>

\* CapabilityRevoke, for a capture that runs.
AgentRevoke ==
  /\ AgentTakes("revoke")
  /\ IF serving /\ capture[Head(toAgent).cap]
       THEN Stop(Head(toAgent).cap)
       ELSE UNCHANGED <<capture, loop>>
  /\ UNCHANGED <<serving, sig, latest, peer, ice, event, scheduled, task, pageVars,
                 toPage, link, path, usable, events>>

\* 'c' or 'm' on the agent's console.
LocalStop(c) ==
  /\ Idle /\ serving /\ capture[c]
  /\ Stop(c)
  /\ UNCHANGED <<serving, sig, latest, peer, ice, event, scheduled, task, pageVars, netVars>>

\* ActiveSession::close; a task still asleep finds the connection closed.
Close ==
  /\ serving' = FALSE
  /\ capture' = [c \in Caps |-> FALSE]
  /\ sig' = "stable" /\ latest' = "none" /\ peer' = "none" /\ ice' = "closed" /\ event' = FALSE
  /\ path' = TRUE

\* SessionEnd.
AgentEnd ==
  /\ AgentTakes("end") /\ serving
  /\ Close
  /\ UNCHANGED <<loop, scheduled, task, pageVars, toPage, link, usable, events>>

\* 'd' on the console: closed first, then said.
LocalEnd ==
  /\ Idle /\ serving
  /\ Close
  /\ loop' = <<Frame("end")>>
  /\ UNCHANGED <<scheduled, task, pageVars, toPage, toAgent, link, usable, events>>

\* A frame for a session it no longer serves.
AgentIgnores ==
  /\ ~serving /\ toAgent # <<>> /\ Head(toAgent).type \in {"request", "end"}
  /\ toAgent' = Tail(toAgent)
  /\ UNCHANGED <<agentVars, pageVars, toPage, link, path, usable, events>>

-------------------------------------------------------------------------------
(* The session page.                                                        *)

PageTakes(type) ==
  /\ Here /\ toPage # <<>> /\ Head(toPage).type = type
  /\ toPage' = Tail(toPage)

\* webrtc:offer: setRemoteDescription is queued on the connection.
PageOffer ==
  /\ PageTakes("offer")
  /\ chain' = Append(chain, Head(toPage).creds)
  /\ UNCHANGED <<agentVars, phase, ui, pending, remote, have, answering, cred,
                 toAgent, link, path, usable, events>>

\* Mistake: only the first offer of a session is answered.
PageAppliesOnce ==
  /\ Here /\ chain # <<>>
  /\ chain' = Tail(chain)
  /\ remote' = Head(chain) /\ have' = (remote = "none")
  /\ answering' = answering + 1
  /\ UNCHANGED <<agentVars, phase, ui, pending, cred, netVars>>

\* setRemoteDescription resolves; its handler goes on at the next step.
PageApplies ==
  /\ Here /\ chain # <<>>
  /\ chain' = Tail(chain)
  /\ remote' = Head(chain) /\ have' = TRUE
  /\ answering' = answering + 1
  /\ UNCHANGED <<agentVars, phase, ui, pending, cred, netVars>>

\* createAnswer, setLocalDescription, webrtc:answer. Two handlers may both
\* be here: the first answers the offer applied last, the second finds the
\* connection stable and its handler fails.
PageAnswers ==
  /\ Here /\ answering > 0
  /\ answering' = answering - 1
  /\ have' = FALSE
  /\ IF have THEN cred' = remote /\ toAgent' = ToAgent(Answer(remote))
             ELSE UNCHANGED <<cred, toAgent>>
  /\ UNCHANGED <<agentVars, phase, ui, pending, chain, remote, toPage, link, path, usable, events>>

\* capability:response, for a request this page still remembers.
PageResponse ==
  /\ PageTakes("response")
  /\ LET f == Head(toPage) IN
       IF f.id \in pending
         THEN /\ pending' = pending \ {f.id}
              /\ ui' = [ui EXCEPT ![f.cap] = IF f.granted THEN "active" ELSE "denied"]
         ELSE UNCHANGED <<pending, ui>>
  /\ UNCHANGED <<agentVars, phase, chain, remote, have, answering, cred,
                 toAgent, link, path, usable, events>>

\* capability:state, the agent's snapshot.
PageState ==
  /\ PageTakes("state")
  /\ ui' = [c \in Caps |-> IF Head(toPage).on[c] THEN "active"
                           ELSE IF ui[c] = "active" THEN "idle" ELSE ui[c]]
  /\ UNCHANGED <<agentVars, phase, pending, chain, remote, have, answering, cred,
                 toAgent, link, path, usable, events>>

\* teardown: every channel and the connection is closed, and the buttons are
\* reset. With either end closed there is no path left that could fail.
Teardown ==
  /\ phase' = "over"
  /\ ui' = [c \in Caps |-> "idle"] /\ pending' = {}
  /\ toPage' = <<>>
  /\ chain' = <<>> /\ answering' = 0 /\ have' = FALSE
  /\ remote' = "none" /\ cred' = "none"
  /\ path' = TRUE

\* session:end or session:deny.
PageEnd ==
  /\ Here /\ toPage # <<>> /\ Head(toPage).type \in {"end", "deny"}
  /\ Teardown
  /\ UNCHANGED <<agentVars, toAgent, link, usable, events>>

\* handleDisconnect: the end is sent before the socket is closed.
PageDisconnects ==
  /\ Here
  /\ toAgent' = ToAgent(Frame("end"))
  /\ Teardown
  /\ UNCHANGED <<agentVars, link, usable, events>>

\* The page is unmounted: teardown alone.
PageUnmounts ==
  /\ Here
  /\ Teardown
  /\ UNCHANGED <<agentVars, toAgent, link, usable, events>>

\* requestCapability: the button shows only while the session is active.
PageAsks(c) ==
  /\ phase = "active" /\ ui[c] \in {"idle", "denied"} /\ events < MaxEvents
  /\ events' = events + 1
  /\ ui' = [ui EXCEPT ![c] = "requesting"]
  /\ pending' = pending \cup {events'}
  /\ toAgent' = ToAgent(Request(c, events'))
  /\ UNCHANGED <<agentVars, phase, chain, remote, have, answering, cred,
                 toPage, link, path, usable>>

\* stopCapability.
PageStops(c) ==
  /\ phase = "active" /\ ui[c] = "active"
  /\ ui' = [ui EXCEPT ![c] = "idle"]
  /\ toAgent' = ToAgent(Revoke(c))
  /\ UNCHANGED <<agentVars, phase, pending, chain, remote, have, answering, cred,
                 toPage, link, path, usable, events>>

-------------------------------------------------------------------------------
(* The media path and the signaling socket.                                 *)

\* The ends have the same descriptions, and the network between them works.
Connectable ==
  /\ serving /\ Here /\ path /\ usable
  /\ remote = "new" /\ cred = "new" /\ peer = "new"

\* The loop, or a restart task, has an offer that will be set, if it is not
\* yet, and sent.
LoopOffers == /\ \E i \in DOMAIN loop : loop[i].type = "offer"
              /\ Head(loop).type = "set" => latest = "loop"
TaskOffers(t) == task[t] \in {"sendNew", "sendOld"} \/ (task[t] = "set" /\ latest = t)

\* An offer or its answer is still on its way to an end that takes it.
Exchanging ==
  /\ Relayed /\ Here
  /\ \/ LoopOffers
     \/ \E t \in Tasks : TaskOffers(t)
     \/ \E i \in DOMAIN toPage : toPage[i].type = "offer"
     \/ chain # <<>> \/ answering > 0
     \/ \E i \in DOMAIN toAgent : toAgent[i].type = "answer"

AgentIce(new) ==
  /\ ice' = new
  /\ event' = (event \/ new \in Down)
  /\ UNCHANGED <<serving, loop, capture, sig, latest, peer, scheduled, task, pageVars,
                 netVars>>

AgentConnects == ice \in {"checking", "disconnected"} /\ Connectable /\ AgentIce("connected")
AgentDrops    == ice = "connected" /\ ~Connectable /\ AgentIce("disconnected")

\* Checks outlast an exchange that is under way. (What is disconnected takes
\* longer to fail than the watcher sleeps.)
AgentFails ==
  /\ ice = "checking" /\ ~Connectable /\ ~Exchanging
  /\ AgentIce("failed")

PageIce(new) ==
  /\ phase' = new
  /\ UNCHANGED <<agentVars, ui, pending, chain, remote, have, answering, cred, netVars>>

PageConnects == phase \in {"waiting", "reconnecting"} /\ Connectable /\ PageIce("active")
PageDrops    == phase = "active" /\ ~Connectable /\ PageIce("reconnecting")

\* iceConnectionState 'failed': the page gives up without a word.
PageFails ==
  /\ phase = "reconnecting" /\ ~Connectable
  /\ Teardown
  /\ UNCHANGED <<agentVars, toAgent, link, usable, events>>

\* The network fails for a while, or changes so that only fresh candidates
\* will connect.
Interrupt ==
  /\ serving /\ phase = "active" /\ events < MaxEvents
  /\ events' = events + 1
  /\ \/ path /\ path' = FALSE /\ UNCHANGED usable
     \/ usable /\ usable' = FALSE /\ UNCHANGED path
  /\ UNCHANGED <<agentVars, pageVars, toPage, toAgent, link>>

Heal ==
  /\ ~path /\ path' = TRUE
  /\ UNCHANGED <<agentVars, pageVars, toPage, toAgent, link, usable, events>>

\* The agent's socket dies with what was on it.
SocketLost ==
  /\ link = "up" /\ serving /\ events < MaxEvents
  /\ events' = events + 1
  /\ link' = "lost" /\ toAgent' = <<>>
  /\ UNCHANGED <<agentVars, pageVars, toPage, path, usable>>

\* reconnect_signaling: an active session is rejoined, which only works
\* before the old socket's close handler ends its row, and ICE is restarted.
Reconnect ==
  /\ link = "lost" /\ Idle
  /\ link' \in {"again", "refused"}
  /\ IF serving THEN /\ Restart
                     /\ latest' = "loop"
                     /\ task' = [t \in Tasks |-> AgeTask(task[t])]
                     /\ loop' = <<Set(<<>>), Offer("new")>>
                ELSE UNCHANGED <<latest, ice, usable, peer, chain, remote, cred,
                                 toPage, toAgent, task, loop>>
  /\ UNCHANGED <<serving, capture, sig, event, scheduled, phase, ui, pending, have, answering,
                 path, events>>

-------------------------------------------------------------------------------
AgentLoop == AgentSets \/ AgentWrites \/ AgentReady \/ AgentAnswer \/ AgentRequest
               \/ AgentRevoke \/ AgentEnd \/ AgentIgnores
TaskTurn(t) == Wake(t) \/ Check(t) \/ RestartSets(t) \/ RestartSends(t)
Watcher == Watch \/ \E t \in Tasks : TaskTurn(t)
PageTurn == PageOffer \/ PageApplies \/ PageAnswers \/ PageResponse \/ PageState \/ PageEnd
People == LocalEnd \/ PageDisconnects \/ PageUnmounts
            \/ \E c \in Caps : LocalStop(c) \/ PageAsks(c) \/ PageStops(c)
AgentMedia == AgentConnects \/ AgentDrops \/ AgentFails
PageMedia == PageConnects \/ PageDrops
Network == PageFails \/ Interrupt \/ Heal \/ SocketLost \/ Reconnect

PeerNext == AgentLoop \/ Watcher \/ PageTurn \/ People \/ AgentMedia \/ PageMedia
              \/ Network

PeerSpec == NativeInit /\ CommonInit /\ [][PeerNext]_peerVars

\* The agent's loop and its watcher and the page's handlers always run on; an ICE
\* agent acts on what it sees; an outage passes. That the page gives up, and
\* what people do, is never owed. (Outages and reconnects are bounded, so one
\* fairness does for both.)
PeerFairness ==
  /\ WF_peerVars(AgentLoop) /\ WF_peerVars(PageTurn)
  /\ WF_peerVars(Watcher)
  /\ WF_peerVars(AgentMedia) /\ WF_peerVars(PageMedia)
  /\ WF_peerVars(Heal \/ Reconnect)

FairPeerSpec == PeerSpec /\ PeerFairness

-------------------------------------------------------------------------------
FrameTypes == {"ready", "offer", "answer", "request", "revoke", "response", "state", "end", "deny"}

PeerTypeOK ==
  /\ serving \in BOOLEAN /\ event \in BOOLEAN /\ scheduled \in BOOLEAN /\ have \in BOOLEAN
  /\ path \in BOOLEAN /\ usable \in BOOLEAN
  /\ capture \in [Caps -> BOOLEAN]
  /\ sig \in {"stable", "offered"} /\ latest \in {"none", "loop"} \cup Tasks
  /\ {peer, remote, cred} \subseteq Creds
  /\ ice \in {"new", "checking", "connected", "closed"} \cup Down
  /\ task \in [Tasks -> {"idle", "sleep", "awake", "set", "sendNew", "sendOld"}]
  /\ phase \in {"waiting", "active", "reconnecting"} \cup Gone
  /\ ui \in [Caps -> {"idle", "requesting", "active", "denied"}]
  /\ pending \subseteq 1..MaxEvents /\ events \in 0..MaxEvents /\ answering \in Nat
  /\ link \in {"up", "lost", "again", "refused", "none"}
  /\ \A q \in {toPage, toAgent} : \A i \in DOMAIN q : q[i].type \in FrameTypes
  /\ \A i \in DOMAIN loop : loop[i].type \in FrameTypes \cup {"set"}

\* A connection that is down is being looked after: its event is still to be
\* seen, or a restart task has not yet read the state. (session.rs lowers
\* restart_scheduled before it reads the state, and not after.)
DownIsAttended ==
  ice \in Down => event \/ \E t \in Tasks : task[t] \in {"sleep", "awake"}

\* The agent does not wait for an answer nobody is about to give, as long as
\* the signaling works and the page is there: overlapping offers of the event
\* loop and the watcher leave no offer outstanding for good.
OfferIsAnswered ==
  serving /\ sig = "offered" /\ link = "up" /\ Here => Exchanging

\* "a purely media-path disruption (no signaling drop at all) recovers too":
\* both ends are connected again, unless the session ends, the page gives up
\* first, or the signaling drops as well.
InterruptionRecovers ==
  (serving /\ phase = "reconnecting")
    ~> (ice = "connected" /\ phase = "active") \/ ~serving \/ ~Here \/ link # "up"

\* The page's camera and microphone buttons come to agree with the captures
\* the agent holds, whoever stopped them and in whatever order requests, stops
\* and answers cross, as long as no signaling is lost; but for a capture whose
\* renegotiation fails after it has started: it runs behind a button that says
\* denied. That exception, and a capture thread that ends by itself and leaves
\* its handle, are against the protocol's "Broadcast whenever a capture device
\* starts or stops" (vendor/protocol/signaling.ts:224).
ConsentShown ==
  \A c \in Caps :
    ((ui[c] = "active") # capture[c])
      ~> (\/ (ui[c] = "active") = capture[c]
          \/ (capture[c] /\ ui[c] = "denied")
          \/ ~Here \/ link # "up")
===============================================================================
