-------------------------------- MODULE Devices --------------------------------
(***************************************************************************)
(* The device rows of the control plane and the requests that read and     *)
(* write them: src/backend/src/modules/devices/{routes,service}.ts for the *)
(* dashboard, modules/agent/routes.ts for the agents, and the              *)
(* `authenticateAgent` hook.                                               *)
(*                                                                         *)
(* As in Accounts, a request advances by one statement at a time and       *)
(* requests interleave between statements; `seen` is the device row its    *)
(* SELECT returned.  A device row is known by its place in `devices`, an   *)
(* enrollment code by its place in `codes`, and an agent secret (and the   *)
(* Argon2 hash the row stores of it) by the number it was minted as, 0     *)
(* standing for NULL.  The unfinished remote_sessions rows that a          *)
(* revocation or a removal also ends belong to RemoteSession.              *)
(***************************************************************************)
EXTENDS Naturals, Sequences, FiniteSets

CONSTANTS
  Reqs,     \* request slots: each handles one request at a time
  Caps,     \* ALL_CAPABILITIES
  None      \* no device row

VARIABLES
  devices,  \* the rows of devices, with their device_permissions
  codes,    \* the rows of enrollment_codes
  minted,   \* agent secrets generated so far
  retired,  \* history: secrets that were a device's credential and ceased to be
  req       \* the requests

table == <<devices, codes, minted, retired>>
vars == <<devices, codes, minted, retired, req>>

-----------------------------------------------------------------------------
Device == [exists: BOOLEAN, owner: {"user", "auto"}, secret: Nat, revoked: BOOLEAN,
           password: Nat, incoming: BOOLEAN, name: Nat, perm: SUBSET Caps]

\* claims and cut are history: how often the code was redeemed, and whether
\* a revocation or a newer code invalidated it while it was unredeemed.
Code == [dev: Nat \ {0}, used: BOOLEAN, claims: Nat, cut: BOOLEAN]

Settings == {"rename", "incoming", "unattended", "permissions"}
Owned == Settings \cup {"code", "delete", "revoke"}
Ops == Owned \cup {"create", "enroll", "register", "auth", "config"}

Labels == {"free", "done", "owned", "setting", "insert", "retire", "code", "delete",
           "revoke", "select", "claim", "install", "load", "auth", "agent"}

Request == [pc: Labels, op: Ops \cup {None}, dev: Nat, key: Nat, cap: Caps \cup {None},
            seen: Device \cup {None}, out: {"none", "ok", "missing", "refused"}, made: Nat]

Free == [pc |-> "free", op |-> None, dev |-> 0, key |-> 0, cap |-> None, seen |-> None,
         out |-> "none", made |-> 0]

NewDeviceUnowned(owner, secret) ==
  [exists |-> TRUE, owner |-> None, secret |-> secret, revoked |-> FALSE, password |-> 0,
   incoming |-> TRUE, name |-> 0, perm |-> Caps]
\* A new row: DEFAULT_PERMISSIONS grants everything.
NewDevice(owner, secret) ==
  [exists |-> TRUE, owner |-> owner, secret |-> secret, revoked |-> FALSE, password |-> 0,
   incoming |-> TRUE, name |-> 0, perm |-> Caps]

NewCode(d) == [dev |-> d, used |-> FALSE, claims |-> 0, cut |-> FALSE]

Exists(d) == d \in DOMAIN devices /\ devices[d].exists
\* The row an agent may act for: neither revoked nor without a secret.
Enrolled(d) == Exists(d) /\ ~devices[d].revoked /\ devices[d].secret # 0
\* The pair an agent keeps in agent.toml still authenticates.
Valid(id) == Enrolled(id.dev) /\ devices[id.dev].secret = id.secret

First(op) ==
  CASE op \in Owned -> "owned"
    [] op \in {"create", "register"} -> "insert"
    [] op = "enroll" -> "select"
    [] op = "auth" -> "auth"
    [] op = "config" -> "agent"
Request0(op) == [Free EXCEPT !.op = op, !.pc = First(op)]

At(r, op, pc) == req[r].op \in op /\ req[r].pc = pc
Goto(r, pc) == req' = [req EXCEPT ![r].pc = pc]
\* What the caller is left with: the outcome, and the identity it was given.
Answer(r, out) ==
  req' = [req EXCEPT ![r] = [Free EXCEPT !.pc = "done", !.out = out, !.made = req[r].made,
                                         !.dev = req[r].dev]]

-----------------------------------------------------------------------------
(* The owner's dashboard. *)

AfterOwned(op) ==
  CASE op \in Settings -> "setting"
    [] op = "code" -> "retire"
    [] op = "delete" -> "delete"
    [] op = "revoke" -> "revoke"

\* getOwnedDevice: the lookup is the ownership check.
GetOwned(r) ==
  /\ At(r, Owned, "owned")
  /\ LET d == req[r].dev
     IN \/ /\ Exists(d) /\ devices[d].owner = "user"
           /\ req' = [req EXCEPT ![r].pc = AfterOwned(req[r].op), ![r].seen = devices[d]]
        \/ ~(Exists(d) /\ devices[d].owner = "user") /\ Answer(r, "missing")
  /\ UNCHANGED table

\* The row after the UPDATE of a setting.  updatePermissions rewrites every
\* capability column from the row it read; the others write their own column.
WrittenWhole(r, row) == [req[r].seen EXCEPT !.password = req[r].key]
Written(r, row) ==
  LET q == req[r]
  IN CASE q.op = "rename" -> [row EXCEPT !.name = q.key]
       [] q.op = "incoming" -> [row EXCEPT !.incoming = (q.key = 1)]
       [] q.op = "unattended" -> [row EXCEPT !.password = q.key]
       [] q.op = "permissions" ->
            [row EXCEPT !.perm = IF q.key = 1 THEN q.seen.perm \cup {q.cap}
                                 ELSE q.seen.perm \ {q.cap}]

WriteSetting(r) ==
  /\ At(r, Settings, "setting")
  /\ LET d == req[r].dev
     IN devices' = IF Exists(d) THEN [devices EXCEPT ![d] = Written(r, devices[d])] ELSE devices
  /\ Answer(r, IF Exists(req[r].dev) THEN "ok" ELSE "missing")
  /\ UNCHANGED <<codes, minted, retired>>

\* createDevice: the row and its permissions in one batch, then the code.
InsertDevice(r) ==
  /\ At(r, {"create"}, "insert")
  /\ devices' = Append(devices, NewDevice("user", 0))
  /\ req' = [req EXCEPT ![r].pc = "retire", ![r].dev = Len(devices) + 1]
  /\ UNCHANGED <<codes, minted, retired>>

\* UPDATE enrollment_codes SET usedAt WHERE deviceId AND usedAt IS NULL.
SpentIfEnrolled(d) ==
  [c \in DOMAIN codes |->
     IF codes[c].dev = d /\ ~codes[c].used
     THEN [codes[c] EXCEPT !.used = Enrolled(d), !.cut = TRUE] ELSE codes[c]]
Spent(d) ==
  [c \in DOMAIN codes |->
     IF codes[c].dev = d /\ ~codes[c].used
     THEN [codes[c] EXCEPT !.used = TRUE, !.cut = TRUE] ELSE codes[c]]

\* issueEnrollmentCode: two statements.
RetireCodes(r) ==
  /\ At(r, {"create", "code"}, "retire")
  /\ codes' = Spent(req[r].dev)
  /\ Goto(r, "code")
  /\ UNCHANGED <<devices, minted, retired>>

\* The INSERT's foreign key fails when the device has been removed.
IssueCode(r) ==
  /\ At(r, {"create", "code"}, "code")
  /\ \/ /\ Exists(req[r].dev)
        /\ codes' = Append(codes, NewCode(req[r].dev))
        /\ Answer(r, "ok")
     \/ ~Exists(req[r].dev) /\ Answer(r, "missing") /\ UNCHANGED codes
  /\ UNCHANGED <<devices, minted, retired>>

\* A credential that a statement removes or replaces.
Lost(d) == IF devices[d].secret = 0 THEN retired ELSE retired \cup {devices[d].secret}

\* revokeDeviceAccess: one batch.
Revoke(r) ==
  /\ At(r, {"revoke"}, "revoke")
  /\ LET d == req[r].dev
     IN /\ devices' = IF Exists(d)
                      THEN [devices EXCEPT ![d] = [@ EXCEPT !.secret = 0, !.revoked = TRUE,
                                                            !.password = 0]]
                      ELSE devices
        /\ retired' = Lost(d)
        /\ codes' = Spent(d)
  /\ Answer(r, IF Exists(req[r].dev) THEN "ok" ELSE "missing")
  /\ UNCHANGED minted

\* deleteDevice: the codes go with the row (ON DELETE CASCADE); a removed
\* code is one nobody can redeem.
Delete(r) ==
  /\ At(r, {"delete"}, "delete")
  /\ LET d == req[r].dev
     IN /\ devices' = [devices EXCEPT ![d] = [@ EXCEPT !.exists = FALSE, !.secret = 0]]
        /\ retired' = Lost(d)
        /\ codes' = Spent(d)
  /\ Answer(r, "ok")
  /\ UNCHANGED minted

-----------------------------------------------------------------------------
(* The agents. *)

\* POST /enroll: an unknown or used code is refused, and any code may have
\* expired (ENROLLMENT_CODE_TTL_MS).
SelectCode(r) ==
  /\ At(r, {"enroll"}, "select")
  /\ LET c == req[r].key
     IN \/ /\ c \in DOMAIN codes /\ ~codes[c].used
           /\ req' = [req EXCEPT ![r].pc = "claim", ![r].dev = codes[c].dev]
        \/ Answer(r, "refused")
  /\ UNCHANGED table

\* UPDATE ... WHERE id AND usedAt IS NULL: one of several claims wins.
ClaimableAny(c) == TRUE
Claimable(c) == ~codes[c].used

Claim(r) ==
  /\ At(r, {"enroll"}, "claim")
  /\ LET c == req[r].key
     IN \/ /\ Claimable(c)
           /\ codes' = [codes EXCEPT ![c] = [@ EXCEPT !.used = TRUE, !.claims = codes[c].claims + 1]]
           /\ minted' = minted + 1
           /\ req' = [req EXCEPT ![r].pc = "install", ![r].made = minted + 1]
        \/ ~Claimable(c) /\ Answer(r, "refused") /\ UNCHANGED <<codes, minted>>
  /\ UNCHANGED <<devices, retired>>

Install(r) ==
  /\ At(r, {"enroll"}, "install")
  /\ LET d == req[r].dev
     IN \/ /\ Exists(d)
           /\ devices' = [devices EXCEPT ![d] = [@ EXCEPT !.secret = req[r].made,
                                                          !.revoked = FALSE]]
           /\ retired' = Lost(d)
        \/ ~Exists(d) /\ UNCHANGED <<devices, retired>>
  /\ Goto(r, "load")
  /\ UNCHANGED <<codes, minted>>

\* The reply needs the row: a device removed meanwhile is DEVICE_NOT_FOUND.
LoadEnrolled(r) ==
  /\ At(r, {"enroll"}, "load")
  /\ Answer(r, IF Exists(req[r].dev) THEN "ok" ELSE "missing")
  /\ UNCHANGED table

\* POST /register: a disposable owner, then the row with its credential.
Register(r) ==
  /\ At(r, {"register"}, "insert")
  /\ devices' = Append(devices, NewDevice("auto", minted + 1))
  /\ minted' = minted + 1
  /\ req' = [req EXCEPT ![r].pc = "done", ![r].out = "ok", ![r].dev = Len(devices) + 1,
                        ![r].made = minted + 1]
  /\ UNCHANGED <<codes, retired>>

\* POST /auth: one failure for an unknown device and for a wrong secret.
Authenticate(r) ==
  /\ At(r, {"auth"}, "auth")
  /\ LET id == [dev |-> req[r].dev, secret |-> req[r].key]
     IN Answer(r, IF Valid(id) THEN "ok" ELSE "refused")
  /\ UNCHANGED table

\* authenticateAgent: the token is unexpired (key = 1) and its device is
\* still enrolled, with whatever secret.
AuthenticateAgent(r) ==
  /\ At(r, {"config"}, "agent")
  /\ \/ req[r].key = 1 /\ Enrolled(req[r].dev) /\ Goto(r, "load")
     \/ ~(req[r].key = 1 /\ Enrolled(req[r].dev)) /\ Answer(r, "refused")
  /\ UNCHANGED table

\* GET /config
LoadConfig(r) ==
  /\ At(r, {"config"}, "load")
  /\ LET d == req[r].dev
     IN \/ /\ Exists(d)
           /\ req' = [req EXCEPT ![r].pc = "done", ![r].out = "ok", ![r].seen = devices[d]]
        \/ ~Exists(d) /\ Answer(r, "missing")
  /\ UNCHANGED table

Dashboard(r) ==
  \/ GetOwned(r) \/ WriteSetting(r) \/ InsertDevice(r) \/ RetireCodes(r) \/ IssueCode(r)
  \/ Revoke(r) \/ Delete(r)
AgentApi(r) ==
  \/ SelectCode(r) \/ Claim(r) \/ Install(r) \/ LoadEnrolled(r) \/ Register(r)
  \/ Authenticate(r) \/ AuthenticateAgent(r) \/ LoadConfig(r)
Step(r) == Dashboard(r) \/ AgentApi(r)

-----------------------------------------------------------------------------
\* Every row, code and request is of its type (models.ts, routes.ts).
TypeOK ==
  /\ devices \in Seq(Device) /\ codes \in Seq(Code)
  /\ minted \in Nat /\ retired \subseteq 1..minted
  /\ req \in [Reqs -> Request]

\* "Claim the code atomically: two agents racing on the same code must not
\* both end up enrolled" (agent/routes.ts:81).
CodeEnrolsOnce == \A c \in DOMAIN codes : codes[c].claims <= 1

\* A code that a revocation, a removal or a newer code invalidated enrols
\* nobody, not even an agent whose request had already read it as unused.
CutCodeIsDead == \A c \in DOMAIN codes : codes[c].cut => codes[c].claims = 0

\* A credential that was revoked or replaced never works again, whatever
\* requests were between their SELECT and their UPDATE at that moment.
SecretNeverReturns == \A d \in DOMAIN devices : devices[d].secret \notin retired
===============================================================================
