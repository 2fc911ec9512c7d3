------------------------------- MODULE AgentRun --------------------------------
(***************************************************************************)
(* The machine's agent as a client of Devices: enroll, self_register, run  *)
(* and reconnect_signaling of src/backend/agent/src/main.rs, with          *)
(* agent.toml (config.rs) and the API calls (api.rs).  The agent makes one *)
(* call at a time, in the request slot Agent; the other slots are the      *)
(* owner's dashboard and another computer that enrolls with the same       *)
(* codes.  Sessions are RemoteSession's business: of the signaling socket  *)
(* only its life is kept, and of the event loop the heartbeat's refresh of *)
(* the configuration.                                                      *)
(***************************************************************************)
EXTENDS Devices

CONSTANTS
  Agent,      \* the request slot of the agent's calls
  Faults,     \* what may go wrong on the way: see FaultKinds
  AskOps,     \* what the dashboard and the other computer ask for
  MaxTries,   \* MAX_ATTEMPTS of reconnect_signaling
  MaxAsked,   \* bound: requests of the dashboard and of the other computer
  MaxStarts   \* bound: starts of the agent's program

FaultKinds == {"lost",    \* an answer that never arrives (a timeout, a 429, a dead network)
               "crash",   \* the agent's process dies
               "drop"}    \* the signaling socket dies

ASSUME AgentAssumption ==
  /\ MaxAsked \in Nat /\ Reqs = 0..MaxAsked /\ Agent = 0
  /\ AskOps \subseteq Owned \cup {"create", "enroll"}
  /\ Faults \subseteq FaultKinds /\ MaxTries \in Nat \ {0}

VARIABLES
  file,    \* agent.toml: [dev, secret], NoFile when there is none
  agent,   \* the program's state
  socket,  \* the signaling socket, as the server sees it
  asked, starts

machine == <<file, agent, socket, asked, starts>>
avars == <<vars, machine>>

NoFile == [dev |-> 0, secret |-> 0]
Off == [st |-> "off", again |-> FALSE, fresh |-> FALSE, ticked |-> FALSE, tries |-> 0,
        mask |-> {}]

\* again: this run already replaced its identity; fresh: its token has not
\* expired; ticked: it was used for a heartbeat; mask: permissions in force.
AgentState ==
  [st: {"off", "enrolling", "registering", "authenticating", "configuring", "online",
        "refreshing", "waiting", "reconnecting"},
   again: BOOLEAN, fresh: BOOLEAN, ticked: BOOLEAN, tries: 0..MaxTries, mask: SUBSET Caps]

Running == {"online", "refreshing"}

-----------------------------------------------------------------------------
(* Calls. *)

Idle == req[Agent].pc = "free"
Call(in) == [req EXCEPT ![Agent] = in]
AuthCall(id) == [Request0("auth") EXCEPT !.dev = id.dev, !.key = id.secret]
ConfigCall(fresh) == [Request0("config") EXCEPT !.dev = file.dev, !.key = IF fresh THEN 1 ELSE 0]

\* parse_or_error: the call is Ok or Err, and Err says nothing of the cause.
Answered(st) == agent.st = st /\ req[Agent].pc = "done"
Hear == req' = Call(Free)
OutcomesTimed == {req[Agent].out = "ok", FALSE}
Outcomes == {req[Agent].out = "ok"} \cup (IF "lost" \in Faults THEN {FALSE} ELSE {})

-----------------------------------------------------------------------------
(* The `enroll` command and self_register, which save what they were given. *)

StartEnroll ==
  /\ agent.st = "off" /\ Idle /\ starts < MaxStarts
  /\ starts' = starts + 1
  /\ \E c \in DOMAIN codes : req' = Call([Request0("enroll") EXCEPT !.key = c])
  /\ agent' = [Off EXCEPT !.st = "enrolling"]
  /\ UNCHANGED <<table, file, socket, asked>>

Saved == [dev |-> req[Agent].dev, secret |-> req[Agent].made]

EnrollReply ==
  /\ Answered("enrolling")
  /\ \E ok \in Outcomes : file' = IF ok THEN Saved ELSE file
  /\ agent' = Off
  /\ Hear
  /\ UNCHANGED <<table, socket, asked, starts>>

\* self_register, then authenticate with the new identity.
RegisterReply ==
  /\ Answered("registering")
  /\ \E ok \in Outcomes :
       /\ file' = IF ok THEN Saved ELSE file
       /\ agent' = IF ok THEN [agent EXCEPT !.st = "authenticating"] ELSE Off
       /\ IF ok THEN req' = Call(AuthCall(Saved)) ELSE Hear
  /\ UNCHANGED <<table, socket, asked, starts>>

-----------------------------------------------------------------------------
(* run, up to its event loop. *)

StartRun ==
  /\ agent.st = "off" /\ Idle /\ starts < MaxStarts
  /\ starts' = starts + 1
  /\ IF file = NoFile
     THEN agent' = [Off EXCEPT !.st = "registering"] /\ req' = Call(Request0("register"))
     ELSE agent' = [Off EXCEPT !.st = "authenticating"] /\ req' = Call(AuthCall(file))
  /\ UNCHANGED <<table, file, socket, asked>>

\* On any error the saved identity is given up for a new one, once per run.
Abandons == ~agent.again

AuthReply ==
  /\ Answered("authenticating")
  /\ \E ok \in Outcomes :
       \/ /\ ok
          /\ agent' = [agent EXCEPT !.st = "configuring", !.fresh = TRUE]
          /\ socket' = "opening"
          /\ req' = Call(ConfigCall(TRUE))
       \/ /\ ~ok /\ Abandons
          /\ agent' = [agent EXCEPT !.st = "registering", !.again = TRUE]
          /\ req' = Call(Request0("register"))
          /\ UNCHANGED socket
       \/ ~ok /\ ~Abandons /\ agent' = Off /\ Hear /\ UNCHANGED socket
  /\ UNCHANGED <<table, file, asked, starts>>

ConfigReply ==
  /\ Answered("configuring")
  /\ \E ok \in Outcomes :
       /\ agent' = IF ok THEN [agent EXCEPT !.st = "online", !.mask = req[Agent].seen.perm]
                   ELSE Off
       /\ socket' = IF ok THEN socket ELSE "closed"
  /\ Hear
  /\ UNCHANGED <<table, file, asked, starts>>

-----------------------------------------------------------------------------
(* The event loop. *)

\* The heartbeat's tick, whose first comes at once: with no session in
\* progress the configuration is read again.
Tick ==
  /\ agent.st = "online"
  /\ agent' = [agent EXCEPT !.st = "refreshing", !.ticked = TRUE]
  /\ req' = Call(ConfigCall(agent.fresh))
  /\ UNCHANGED <<table, file, socket, asked, starts>>

RefreshedNever(ok) == agent.mask
Refreshed(ok) == IF ok THEN req[Agent].seen.perm ELSE agent.mask

TickReply ==
  /\ Answered("refreshing")
  /\ \E ok \in Outcomes : agent' = [agent EXCEPT !.st = "online", !.mask = Refreshed(ok)]
  /\ Hear
  /\ UNCHANGED <<table, file, socket, asked, starts>>

\* inbound ends: re-authenticate with the identity this run started with.
NoticesLoss ==
  /\ agent.st = "online" /\ socket = "closed"
  /\ agent' = [agent EXCEPT !.st = "waiting", !.tries = 0]
  /\ UNCHANGED <<table, file, socket, asked, starts, req>>

Retry ==
  /\ agent.st = "waiting" /\ agent.tries < MaxTries
  /\ agent' = [agent EXCEPT !.st = "reconnecting", !.tries = @ + 1]
  /\ req' = Call(AuthCall(file))
  /\ UNCHANGED <<table, file, socket, asked, starts>>

RetryReply ==
  /\ Answered("reconnecting")
  /\ \E ok \in Outcomes :
       /\ agent' = IF ok THEN [agent EXCEPT !.st = "online", !.fresh = TRUE, !.ticked = FALSE]
                   ELSE [agent EXCEPT !.st = "waiting"]
       /\ socket' = IF ok THEN "opening" ELSE socket
  /\ Hear
  /\ UNCHANGED <<table, file, asked, starts>>

GivesUpNever == FALSE
GivesUp == agent.st = "waiting" /\ agent.tries = MaxTries

GiveUp ==
  /\ GivesUp
  /\ agent' = Off
  /\ UNCHANGED <<table, file, socket, asked, starts, req>>

\* q or Ctrl+C.
Quit ==
  /\ agent.st = "online"
  /\ agent' = Off /\ socket' = "closed"
  /\ UNCHANGED <<table, file, asked, starts, req>>

Crash ==
  /\ "crash" \in Faults /\ agent.st # "off"
  /\ agent' = Off /\ socket' = "closed"
  /\ UNCHANGED <<table, file, asked, starts, req>>

\* The answer to a process that is gone.
Unheard ==
  /\ Answered("off")
  /\ Hear
  /\ UNCHANGED <<table, machine>>

-----------------------------------------------------------------------------
(* The server's side of the socket, and time. *)

\* The upgrade looks the device up again.
Admit ==
  /\ socket = "opening"
  /\ socket' = IF Enrolled(file.dev) THEN "open" ELSE "closed"
  /\ UNCHANGED <<vars, file, agent, asked, starts>>

\* "A socket outlives its token": the next frame, a heartbeat at the latest,
\* closes it.
OverdueNever == FALSE
Overdue == ~agent.fresh

CloseExpired ==
  /\ socket = "open" /\ Overdue
  /\ socket' = "closed"
  /\ UNCHANGED <<vars, file, agent, asked, starts>>

Drop ==
  /\ "drop" \in Faults /\ socket = "open"
  /\ socket' = "closed"
  /\ UNCHANGED <<vars, file, agent, asked, starts>>

\* AGENT_TOKEN_TTL (15 minutes) leaves time for a heartbeat (20 seconds).
TokenLapses ==
  /\ agent.fresh /\ agent.ticked /\ agent.st \in Running
  /\ agent' = [agent EXCEPT !.fresh = FALSE]
  /\ UNCHANGED <<vars, file, socket, asked, starts>>

-----------------------------------------------------------------------------
\* A new name, requests not allowed, a password set or cleared.
Values(op) == CASE op = "rename" -> {1} [] op = "incoming" -> {0} [] op = "unattended" -> 0..1

Submit(in) == req' = [req EXCEPT ![asked + 1] = in]

\* The dashboard's forms, and another computer's enroll; these requests are
\* numbered in the order they arrive.
Ask ==
  /\ asked < MaxAsked
  /\ asked' = asked + 1
  /\ \E op \in AskOps :
       \/ op = "create" /\ Submit(Request0(op))
       \/ op = "enroll" /\ \E c \in DOMAIN codes : Submit([Request0(op) EXCEPT !.key = c])
       \/ \E d \in DOMAIN devices :
            \/ /\ op \in {"rename", "incoming", "unattended"}
               /\ \E v \in Values(op) : Submit([Request0(op) EXCEPT !.dev = d, !.key = v])
            \/ /\ op = "permissions"
               /\ \E v \in 0..1, k \in Caps :
                    Submit([Request0(op) EXCEPT !.dev = d, !.key = v, !.cap = k])
            \/ op \in {"code", "delete", "revoke"} /\ Submit([Request0(op) EXCEPT !.dev = d])
  /\ UNCHANGED <<table, file, agent, socket, starts>>

\* A computer that never ran the agent, with or without a device waiting for
\* it in the dashboard; or one that is enrolled, for whose device the owner
\* may have asked a new code.
Init ==
  /\ \/ devices = <<>> /\ codes = <<>> /\ minted = 0 /\ file = NoFile
     \/ /\ devices = <<NewDevice("user", 0)>> /\ minted = 0 /\ file = NoFile
        /\ codes = <<NewCode(1)>>
     \/ /\ devices = <<NewDevice("user", 1)>> /\ minted = 1
        /\ file = [dev |-> 1, secret |-> 1]
        /\ codes \in {<<>>, <<NewCode(1)>>}
  /\ retired = {}
  /\ req = [r \in Reqs |-> Free]
  /\ agent = Off /\ socket = "closed"
  /\ asked = 0 /\ starts = 0

Server(r) == Step(r) /\ UNCHANGED machine
Replies == EnrollReply \/ RegisterReply \/ AuthReply \/ ConfigReply \/ TickReply \/ RetryReply
Loop == Retry \/ GiveUp

Next ==
  \/ (\E r \in Reqs : Server(r)) \/ Ask
  \/ StartEnroll \/ StartRun \/ Replies \/ Loop \/ Tick \/ NoticesLoss \/ Quit \/ Crash \/ Unheard
  \/ Admit \/ CloseExpired \/ Drop \/ TokenLapses

\* The server finishes what it started, the agent's loop and timers run, and
\* a token's time passes; select! serves the tick, which is due at once when
\* the loop starts over, and the end of the socket.  Nobody has to start, quit or ask anything.
Fairness ==
  /\ \A r \in Reqs : WF_avars(Server(r))
  /\ WF_avars(Replies) /\ WF_avars(Loop) /\ SF_avars(Tick) /\ SF_avars(NoticesLoss)
  /\ WF_avars(Admit) /\ WF_avars(CloseExpired) /\ WF_avars(TokenLapses)

Spec == Init /\ [][Next]_avars
FairSpec == Spec /\ Fairness

-----------------------------------------------------------------------------
\* agent.toml is replaced by a new registration only when what it holds no
\* longer authenticates: "the device row was deleted or revoked server-side"
\* (main.rs:255).
IdentityKept ==
  [][agent.st = "registering" /\ file' # file /\ file # NoFile => ~Valid(file)]_avars

\* A start comes to an end: the agent is online or its program has ended
\* (run; "rather than retrying forever", main.rs:201).
AgentSettles == agent.st \notin Running ~> agent.st \in Running \cup {"off"}

\* An agent whose credential was revoked, replaced or removed does not stay
\* online: its socket lives no longer than its token, and the token is not
\* renewed (signaling/routes.ts:157, main.rs:211). It does stay until then:
\* that a revocation "takes effect immediately rather than when the token
\* expires" (devices/service.ts:399-401; "immediately, not in 15 minutes",
\* authenticate.ts:129) is true of its next request and not of a socket that
\* is open, which nothing but Overdue closes.
RevokedAgentLeaves ==
  agent.st \in Running /\ ~Valid(file) ~> agent.st = "off" \/ Valid(file)

\* A permission change reaches the idle agent "without waiting for the next
\* full reconnect" (main.rs:337), or after it when the token had expired: the
\* agent does not go on with an old mask for as long as it runs.
PolicyReaches ==
  agent.st \in Running /\ Exists(file.dev) /\ agent.mask # devices[file.dev].perm
    ~> agent.st = "off" \/ ~Valid(file) \/ agent.mask = devices[file.dev].perm
===============================================================================
