------------------------------- MODULE Browser --------------------------------
(***************************************************************************)
(* The pages of a browser as clients of Accounts: apiClient.ts and         *)
(* AuthContext.tsx of src/frontend/src/lib.  A tab keeps its access token  *)
(* in memory and at most one refresh in flight, which every call that met  *)
(* an expired token waits for; the tabs of one browser share its refresh   *)
(* cookie (a jar).  A call or a refresh uses the request slot of its own   *)
(* name in Accounts; the remaining slots are requests from elsewhere: the  *)
(* account's other browsers, the links it was mailed, and what the server  *)
(* still works on for a page that has given up.                            *)
(*                                                                         *)
(* An answer reaches the page in two steps: the browser stores its cookie  *)
(* when the headers are in, the page its token when it has read the body.  *)
(* Before either, the connection may fail.                                 *)
(***************************************************************************)
EXTENDS Accounts

CONSTANTS
  Jars, Tabs, JarOf,   \* JarOf[t]: the browser tab t is open in
  Calls, TabOf,        \* TabOf[c]: the tab that makes call c
  CallOps, OutsideOps, \* what the calls and the requests from elsewhere ask for
  MaxMoves             \* bound: moves in one behaviour

ASSUME SlotsAssumption ==
  /\ Tabs \cup Calls \subseteq Reqs /\ Tabs \cap Calls = {}
  /\ JarOf \in [Tabs -> Jars] /\ TabOf \in [Calls -> Tabs]
  /\ CallOps \cup OutsideOps \subseteq Ops

VARIABLES
  cookie,    \* [Jars -> Nat]: the refresh token in the jar, 0 when it has none
  access,    \* [Tabs -> accessToken]: the session it names and whether it is unexpired
  flying,    \* [Tabs -> BOOLEAN]: refreshPromise is set
  booted,    \* [Tabs -> BOOLEAN]: bootstrapSession has settled
  call,      \* [Calls -> state of an apiRequest]
  moves,     \* calls, requests from elsewhere, failed fetches and reloads so far
  lost,      \* history: a refresh token was minted, or will be, that no jar gets
  other      \* the session of the account's other browser, 0 when it has none

pages == <<cookie, access, flying, booted, call, moves, lost, other>>
bvars == <<vars, pages>>

NoAccess == [sid |-> 0, fresh |-> FALSE]
Outside == Reqs \ (Tabs \cup Calls)

-----------------------------------------------------------------------------
(* rawRequest: what is sent carries the tab's token of that moment. *)

Signed(in, t) == [in EXCEPT !.sid = access[t].sid, !.fresh = access[t].fresh]
RefreshRequest(t) == Input("refresh", 0, cookie[JarOf[t]], None, None)

StoredOnce(jar, q) ==
  IF q.cookie = "set" /\ cookie[jar] # 0 THEN cookie ELSE [cookie EXCEPT ![jar] = q.tok]
Stored(jar, q) ==
  IF q.cookie = "set" THEN [cookie EXCEPT ![jar] = q.tok] ELSE [cookie EXCEPT ![jar] = 0]

TabFor(r) == IF r \in Tabs THEN r ELSE TabOf[r]

\* The response's headers are in: the browser applies Set-Cookie.
Headers(r) ==
  /\ req[r].pc = "done" /\ req[r].cookie \in {"set", "clear"}
  /\ cookie' = Stored(JarOf[TabFor(r)], req[r])
  /\ req' = [req EXCEPT ![r].cookie = "stored"]
  /\ UNCHANGED <<table, access, flying, booted, call, moves, lost, other>>

\* The body is read.
Arrived(r) == req[r].pc = "done" /\ req[r].cookie \in {"keep", "stored"}

\* fetch rejects, or the body cannot be read.  The server never saw the request
\* or had answered it; or it goes on with it, for nobody.
Gone(r) ==
  /\ req[r].pc \in {First(req[r].op), "done"}
  /\ req' = [req EXCEPT ![r] = Free]
CarriedOn(r) ==
  /\ req[r].pc # "done"
  /\ \E o \in Outside : req[o].pc = "free" /\ req' = [req EXCEPT ![o] = req[r], ![r] = Free]

-----------------------------------------------------------------------------
(* refreshAccessToken, with its single flight. *)

\* bootstrapSession: the first refresh, when the page loads.
Bootstrap(t) ==
  /\ ~booted[t] /\ ~flying[t]
  /\ flying' = [flying EXCEPT ![t] = TRUE]
  /\ req' = [req EXCEPT ![t] = RefreshRequest(t)]
  /\ UNCHANGED <<table, cookie, access, booted, call, moves, lost, other>>

LandedKept(t) == flying
Landed(t) == [flying EXCEPT ![t] = FALSE]

Waiting(t) == {c \in Calls : TabOf[c] = t /\ call[c].st = "waiting"}

\* refreshPromise settles: the token is kept or dropped, and every waiting
\* call is sent once more or fails.
Settles(t, token) ==
  /\ access' = [access EXCEPT ![t] = token]
  /\ call' = [c \in Calls |->
                IF c \in Waiting(t)
                THEN [call[c] EXCEPT !.st = IF token = NoAccess THEN "done" ELSE "resent"]
                ELSE call[c]]
  /\ flying' = Landed(t)
  /\ booted' = [booted EXCEPT ![t] = TRUE]

RefreshReply(t) ==
  /\ flying[t] /\ Arrived(t)
  /\ LET ok == req[t].out = "ok"
         token == IF ok THEN [sid |-> req[t].sid, fresh |-> TRUE] ELSE NoAccess
     IN /\ Settles(t, token)
        /\ req' = [q \in Reqs |->
                     CASE q = t -> Free
                       [] q \in Waiting(t) /\ ok ->
                            [call[q].in EXCEPT !.sid = token.sid, !.fresh = TRUE]
                       [] OTHER -> req[q]]
  /\ UNCHANGED <<table, cookie, moves, lost, other>>

\* Unless its cookie was stored, a token the server grants is lost.
RefreshFails(t) ==
  /\ flying[t] /\ moves < MaxMoves
  /\ \/ Gone(t) /\ lost' = (lost \/ req[t].cookie = "set")
     \/ CarriedOn(t) /\ lost' = TRUE
  /\ Settles(t, NoAccess)
  /\ moves' = moves + 1
  /\ UNCHANGED <<table, cookie, other>>

-----------------------------------------------------------------------------
(* apiRequest. *)

Send(c) ==
  /\ call[c].st = "idle" /\ booted[TabOf[c]] /\ moves < MaxMoves
  /\ moves' = moves + 1
  /\ \E op \in CallOps : \E in \in {[i EXCEPT !.sid = 0, !.fresh = FALSE] : i \in Inputs(op)} :
       LET sent == IF op \in Authenticated THEN Signed(in, TabOf[c]) ELSE in
       IN /\ call' = [call EXCEPT ![c] = [st |-> "sent", in |-> in]]
          /\ req' = [req EXCEPT ![c] = sent]
  /\ UNCHANGED <<table, cookie, access, flying, booted, lost, other>>

\* AuthContext: a sign-in stores its token; logout drops the token whatever
\* its outcome.
TokenAfter(c) ==
  LET q == req[c]
  IN IF q.op = "logout" THEN NoAccess
     ELSE IF q.tok # 0 THEN [sid |-> q.sid, fresh |-> TRUE] ELSE access[TabOf[c]]

\* An expired or invalid token: wait for the refresh in flight, or start it.
MustRefresh(c) == req[c].out = "auth" /\ call[c].st = "sent"

RefreshingNever(t) == FALSE
Refreshing(t) == flying[t]

ReplyAuth(c) ==
  LET t == TabOf[c] IN
  /\ call[c].st = "sent" /\ Arrived(c) /\ MustRefresh(c)
  /\ call' = [call EXCEPT ![c].st = "waiting"]
  /\ flying' = [flying EXCEPT ![t] = TRUE]
  /\ req' = IF Refreshing(t) THEN [req EXCEPT ![c] = Free]
            ELSE [req EXCEPT ![c] = Free, ![t] = RefreshRequest(t)]
  /\ UNCHANGED <<table, cookie, access, booted, moves, lost, other>>

Reply(c) ==
  LET t == TabOf[c] IN
  /\ call[c].st \in {"sent", "resent"} /\ Arrived(c) /\ ~MustRefresh(c)
  /\ call' = [call EXCEPT ![c].st = "done"]
  /\ access' = [access EXCEPT ![t] = TokenAfter(c)]
  /\ req' = [req EXCEPT ![c] = Free]
  /\ UNCHANGED <<table, cookie, flying, booted, moves, lost, other>>

CallFails(c) ==
  /\ call[c].st \in {"sent", "resent"} /\ moves < MaxMoves
  /\ Gone(c) \/ CarriedOn(c)
  /\ call' = [call EXCEPT ![c].st = "done"]
  /\ access' = IF req[c].op = "logout" THEN [access EXCEPT ![TabOf[c]] = NoAccess] ELSE access
  /\ moves' = moves + 1
  /\ UNCHANGED <<table, cookie, flying, booted, lost, other>>

\* What the page had in flight has failed before.
Reload(t) ==
  /\ booted[t] /\ ~flying[t] /\ moves < MaxMoves
  /\ \A c \in Calls : TabOf[c] = t => call[c].st \in {"idle", "done"}
  /\ booted' = [booted EXCEPT ![t] = FALSE]
  /\ access' = [access EXCEPT ![t] = NoAccess]
  /\ moves' = moves + 1
  /\ UNCHANGED <<vars, cookie, flying, call, lost, other>>

AccessLapses(t) ==
  /\ access[t].fresh
  /\ access' = [access EXCEPT ![t].fresh = FALSE]
  /\ UNCHANGED <<vars, cookie, flying, booted, call, moves, lost, other>>

-----------------------------------------------------------------------------
\* The account's other browser has renewed its session once, and presents the
\* session's current token or, restored from a backup, the last one.
OtherTokens == IF other \in DOMAIN rows THEN {rows[other].token, rows[other].prev} ELSE {}

Elsewhere(r) ==
  /\ moves < MaxMoves
  /\ \E op \in OutsideOps : \E in \in Inputs(op) :
       /\ op = "refresh" => in.key \in OtherTokens
       /\ Receive(r, in)
  /\ moves' = moves + 1
  /\ UNCHANGED <<table, cookie, access, flying, booted, call, lost, other>>

Init ==
  /\ \E p \in Passwords, k \in Secrets :
       user \in {Absent(p),
                 [Absent(p) EXCEPT !.exists = TRUE],
                 [Absent(p) EXCEPT !.exists = TRUE, !.verified = TRUE, !.tfa = TRUE,
                                   !.secret = k, !.codes = Codes]}
  /\ \/ rows = <<>> /\ minted = 0 /\ other = 0 /\ cookie = [j \in Jars |-> 0]
     \/ /\ user.exists
        /\ rows = <<Row(1), [Row(3) EXCEPT !.prev = 2]>> /\ minted = 3 /\ other = 2
        /\ \E own \in Jars : cookie = [j \in Jars |-> IF j = own THEN 1 ELSE 0]
  /\ mails = IF user.exists THEN <<[type |-> "password_reset", used |-> FALSE]>> ELSE <<>>
  /\ chal = IF user.tfa THEN <<TRUE>> ELSE <<>>
  /\ fails = 0
  /\ spent = [mail |-> [m \in DOMAIN mails |-> 0], chal |-> [c \in DOMAIN chal |-> 0]]
  /\ moves = 0 /\ lost = FALSE
  /\ req = [r \in Reqs |-> Free]
  /\ access = [t \in Tabs |-> NoAccess]
  /\ flying = [t \in Tabs |-> FALSE] /\ booted = [t \in Tabs |-> FALSE]
  /\ call = [c \in Calls |-> [st |-> "idle", in |-> Free]]

Server(r) == Step(r) /\ UNCHANGED pages
Page(t) ==
  \/ Bootstrap(t) \/ RefreshReply(t) \/ RefreshFails(t) \/ Reload(t)
  \/ \E c \in Calls : TabOf[c] = t /\ (ReplyAuth(c) \/ Reply(c) \/ CallFails(c))

Next ==
  \/ \E r \in Reqs : Server(r)
  \/ \E t \in Tabs : Page(t) \/ AccessLapses(t)
  \/ \E r \in Tabs \cup Calls : Headers(r)
  \/ \E c \in Calls : Send(c)
  \/ \E r \in Outside : Elsewhere(r)
  \/ Lapse /\ UNCHANGED pages

Spec == Init /\ [][Next]_bvars

-----------------------------------------------------------------------------
\* A browser does not retire a refresh token and then present it again:
\* "A single in-flight refresh is shared by every caller" (apiClient.ts:75),
\* so no session is ended for reuse.  It takes that no refresh answer was lost
\* before its cookie was stored: after one, the browser has only the retired
\* token to present, and the server takes that for theft.
NoSelfReuse ==
  ~lost => \A s \in DOMAIN rows \ {other} : rows[s].reason # "reuse"

\* In whatever order the headers and bodies of sign-ins, sign-outs and
\* refreshes arrive, what a jar holds can renew one of the browser's sessions,
\* except while the refresh that retired it awaits its answer.
JarIsCurrent ==
  ~lost => \A j \in Jars : cookie[j] # 0 =>
    \/ \E s \in DOMAIN rows \ {other} : rows[s].token = cookie[j]
    \/ \E t \in Tabs : JarOf[t] = j /\ flying[t]

\* A call that waits for a refresh waits for one that is running: neither a
\* burst of expired calls nor a failed refresh leaves a caller waiting on a
\* refreshPromise that nothing settles.
WaiterHasRefresh ==
  \A c \in Calls : call[c].st = "waiting" =>
    flying[TabOf[c]] /\ req[TabOf[c]].op = "refresh"
=============================================================================
