------------------------------- MODULE Accounts -------------------------------
(***************************************************************************)
(* One account of the control plane and the requests that read and write   *)
(* it: src/backend/src/modules/auth/{routes,service}.ts and the            *)
(* `authenticate` hook of src/backend/src/plugins/authenticate.ts.         *)
(*                                                                         *)
(* The API is one Node process, so the steps of two requests interleave at *)
(* every `await` of a statement and nowhere else.  A request is a record   *)
(* with the label `pc` of its next statement and the row `seen` its last   *)
(* SELECT returned; each action below runs one request from one statement  *)
(* to the next.  A password, a mailed link, a TOTP secret and a backup     *)
(* code are model values; a hash is the value it hashes.  A refresh token  *)
(* is the number it was minted as.                                         *)
(***************************************************************************)
EXTENDS Naturals, Sequences, FiniteSets

CONSTANTS
  Reqs,         \* request slots: each handles one request (a browser reuses its own)
  Passwords,    \* the passwords the account ever has
  Secrets,      \* TOTP secrets
  Codes,        \* the backup codes of the account
  MaxAttempts,  \* env.LOGIN_MAX_ATTEMPTS
  None          \* SQL NULL, an absent value

ASSUME AttemptsAssumption == MaxAttempts \in Nat \ {0}

VARIABLES
  user,    \* the account's row in users
  rows,    \* auth_sessions, in order of insertion
  mails,   \* verification_tokens, in order of insertion
  chal,    \* 2fa:challenge:* in the in-memory store, in order of creation
  minted,  \* refresh tokens generated so far
  req,     \* the requests
  fails,   \* history: wrong passwords the account has seen
  spent    \* history: successful redemptions, per mailed link and challenge

table == <<user, rows, mails, chal, minted, fails, spent>>
vars == <<user, rows, mails, chal, minted, req, fails, spent>>

-----------------------------------------------------------------------------
(* Types and null records. *)

User == [exists: BOOLEAN, pw: Passwords, attempts: Nat,
         until: {"null", "future", "past"}, verified: BOOLEAN,
         tfa: BOOLEAN, secret: Secrets \cup {None}, codes: SUBSET Codes]

AuthSession == [token: Nat, prev: Nat, reason: {"live", "reuse", "ended"}, lapsed: BOOLEAN]

Mail == [type: {"email_verification", "password_reset"}, used: BOOLEAN]

Authenticated == {"read", "logout", "logoutAll", "revoke", "changePassword", "setup",
                  "enable", "disable", "resend"}
Ops == Authenticated \cup
       {"register", "login", "challenge", "refresh", "forgot", "verify", "reset"}

Labels == {"free", "done", "select", "verdict", "second", "issue", "consume", "user",
           "burn", "current", "previous", "reuse", "rotate", "authenticate", "end",
           "endAll", "password", "secret", "enabled", "disabled", "retire", "mail",
           "redeem", "claim", "verified", "insert"}

Request == [pc: Labels, op: Ops \cup {None}, sid: Nat, fresh: BOOLEAN, key: Nat,
            pw: Passwords \cup {None}, code: Secrets \cup Codes \cup {None},
            seen: User \cup {None},
            out: {"none", "ok", "auth", "refused"},
            cookie: {"keep", "set", "clear", "stored"}, \* Set-Cookie, until the browser stored it
            tok: Nat, doomed: SUBSET Nat]

Free == [pc |-> "free", op |-> None, sid |-> 0, fresh |-> FALSE, key |-> 0, pw |-> None,
         code |-> None, seen |-> None, out |-> "none", cookie |-> "keep", tok |-> 0,
         doomed |-> {}]

Absent(p) == [exists |-> FALSE, pw |-> p, attempts |-> 0, until |-> "null",
              verified |-> FALSE, tfa |-> FALSE, secret |-> None, codes |-> {}]
RowNoExpiry(t) == [token |-> t, prev |-> 0, reason |-> "live", lapsed |-> None]
Row(t) == [token |-> t, prev |-> 0, reason |-> "live", lapsed |-> FALSE]

-----------------------------------------------------------------------------
(* How a step moves its request on. *)

Live(s) == rows[s].reason = "live"
LiveSessions == {s \in DOMAIN rows : Live(s)}

At(r, op, pc) == req[r].op \in op /\ req[r].pc = pc
Goto(r, pc) == req' = [req EXCEPT ![r].pc = pc]
See(r, pc) == req' = [req EXCEPT ![r].pc = pc, ![r].seen = user]
Answer(r, out, cookie) ==
  req' = [req EXCEPT ![r].pc = "done", ![r].out = out, ![r].cookie = cookie,
                     ![r].seen = None]

\* A request arrives; its first statement depends on the handler.
Receive(r, in) ==
  /\ req[r].pc = "free"
  /\ req' = [req EXCEPT ![r] = in]

First(op) ==
  CASE op \in Authenticated -> "authenticate"
    [] op = "challenge" -> "consume"
    [] op = "refresh" -> "current"
    [] op \in {"verify", "reset"} -> "redeem"
    [] OTHER -> "select"

-----------------------------------------------------------------------------
(* authenticate: the hook in front of the signed-in routes. *)

AfterAuthenticate(op) ==
  CASE op = "logout" -> "end"
    [] op = "revoke" -> "end"
    [] op = "logoutAll" -> "endAll"
    [] OTHER -> "user"

\* The token must be unexpired and its auth_sessions row live.  (No token at
\* all is AUTHENTICATION_FAILED, which the client does not retry.)
Authenticate(r) ==
  /\ At(r, Authenticated, "authenticate")
  /\ LET q == req[r]
         valid == q.fresh /\ q.sid \in LiveSessions /\ ~rows[q.sid].lapsed
     IN \/ q.sid = 0 /\ Answer(r, "refused", "keep")
        \/ q.sid # 0 /\ ~valid /\ Answer(r, "auth", "keep")
        \/ valid /\ q.op = "read" /\ Answer(r, "ok", "keep")
        \/ /\ valid /\ q.op # "read"
           /\ req' = [req EXCEPT ![r].pc = AfterAuthenticate(q.op), ![r].doomed = LiveSessions]
  /\ UNCHANGED table

\* revokeAuthSession: ending an ended session changes nothing.
Ended(s) == IF s \in LiveSessions THEN [rows EXCEPT ![s].reason = "ended"] ELSE rows

\* logout ends the caller's own session, DELETE /sessions/:id the one it names.
EndSession(r) ==
  /\ At(r, {"logout", "revoke"}, "end")
  /\ LET s == IF req[r].op = "logout" THEN req[r].sid ELSE req[r].key
     IN /\ rows' = Ended(s)
        /\ req' = [req EXCEPT ![r].pc = "done", ![r].out = "ok", ![r].doomed = {s},
                              ![r].cookie = IF s = req[r].sid THEN "clear" ELSE "keep"]
  /\ UNCHANGED <<user, mails, chal, minted, fails, spent>>

\* revokeAllSessions, the last statement of logout-all, of a password reset
\* and of a password change that signs the other sessions out.
EndedBy(r) == LiveSessions \ (IF req[r].op = "changePassword" THEN {req[r].sid} ELSE {})

EndAllSessions(r) ==
  /\ At(r, {"logoutAll", "reset", "changePassword"}, "endAll")
  /\ rows' = [s \in DOMAIN rows |->
                IF s \in EndedBy(r) THEN [rows[s] EXCEPT !.reason = "ended"] ELSE rows[s]]
  /\ Answer(r, "ok", IF req[r].op = "changePassword" THEN "keep" ELSE "clear")
  /\ UNCHANGED <<user, mails, chal, minted, fails, spent>>

-----------------------------------------------------------------------------
(* Registration and sign-in. *)

Register(r) ==
  /\ At(r, {"register"}, "select")
  /\ IF user.exists THEN Answer(r, "refused", "keep") ELSE Goto(r, "insert")
  /\ UNCHANGED table

\* The INSERT fails on the UNIQUE email when another request got there first.
InsertUser(r) ==
  /\ At(r, {"register"}, "insert")
  /\ IF user.exists
     THEN Answer(r, "refused", "keep") /\ UNCHANGED user
     ELSE Goto(r, "retire") /\ user' = [Absent(req[r].pw) EXCEPT !.exists = TRUE]
  /\ UNCHANGED <<rows, mails, chal, minted, fails, spent>>

\* authenticateCredentials: the row is read, then the password is verified
\* against what was read and the counters are written back from it.
SelectCredentials(r) ==
  /\ At(r, {"login"}, "select")
  /\ IF ~user.exists \/ user.until = "future"
     THEN Answer(r, "refused", "keep")
     ELSE See(r, "verdict")
  /\ UNCHANGED table

LocksEarly(attempts) == attempts + 1 >= MaxAttempts
Locks(attempts) == attempts >= MaxAttempts

WrongPassword(r) ==
  /\ At(r, {"login"}, "verdict") /\ req[r].pw # req[r].seen.pw
  /\ LET attempts == req[r].seen.attempts + 1
         lock == Locks(attempts)
     IN user' = [user EXCEPT !.attempts = IF lock THEN 0 ELSE attempts,
                             !.until = IF lock THEN "future" ELSE "null"]
  /\ fails' = fails + 1
  /\ Answer(r, "refused", "keep")
  /\ UNCHANGED <<rows, mails, chal, minted, spent>>

RightPassword(r) ==
  /\ At(r, {"login"}, "verdict") /\ req[r].pw = req[r].seen.pw
  /\ user' = IF req[r].seen.attempts > 0 \/ req[r].seen.until # "null"
             THEN [user EXCEPT !.attempts = 0, !.until = "null"] ELSE user
  /\ IF req[r].seen.tfa THEN Goto(r, "second") ELSE Goto(r, "issue")
  /\ UNCHANGED <<rows, mails, chal, minted, fails, spent>>

\* With two-factor on, a code in the same request is checked and none makes
\* a challenge.
SecondFactor(r) ==
  /\ At(r, {"login"}, "second")
  /\ LET q == req[r]
     IN \/ q.code = None /\ chal' = Append(chal, TRUE) /\ spent' = [spent EXCEPT !.chal = Append(@, 0)]
           /\ Answer(r, "ok", "keep")
        \/ q.code # None /\ q.code = q.seen.secret /\ Goto(r, "issue") /\ UNCHANGED <<chal, spent>>
        \/ q.code # None /\ q.code # q.seen.secret /\ Answer(r, "refused", "keep")
           /\ UNCHANGED <<chal, spent>>
  /\ UNCHANGED <<user, rows, mails, minted, fails>>

DeletedLater(c) == chal
Deleted(c) == [chal EXCEPT ![c] = FALSE]

\* consumeTwoFactorChallenge: the entry is looked up and deleted without an
\* await in between; it may also have outlived its five minutes.
ConsumeChallenge(r) ==
  /\ At(r, {"challenge"}, "consume")
  /\ LET c == req[r].key
     IN \/ /\ c \in DOMAIN chal /\ chal[c]
           /\ chal' = Deleted(c)
           /\ \/ Goto(r, "user") /\ spent' = [spent EXCEPT !.chal[c] = @ + 1]
              \/ Answer(r, "auth", "keep") /\ UNCHANGED spent
        \/ /\ ~(c \in DOMAIN chal /\ chal[c])
           /\ Answer(r, "auth", "keep")
           /\ UNCHANGED <<chal, spent>>
  /\ UNCHANGED <<user, rows, mails, minted, fails>>

\* A TOTP code passes; otherwise a backup code is looked up in the list read.
ChallengeUser(r) ==
  /\ At(r, {"challenge"}, "user")
  /\ \/ ~user.tfa /\ Answer(r, "refused", "keep")
     \/ user.tfa /\ req[r].code = user.secret /\ See(r, "issue")
     \/ user.tfa /\ req[r].code # user.secret /\ req[r].code \in user.codes /\ See(r, "burn")
     \/ user.tfa /\ req[r].code # user.secret /\ req[r].code \notin user.codes
        /\ Answer(r, "refused", "keep")
  /\ UNCHANGED table

\* The list read, less the code used, is written back.
BurnCode(r) ==
  /\ At(r, {"challenge"}, "burn")
  /\ user' = [user EXCEPT !.codes = req[r].seen.codes \ {req[r].code}]
  /\ Goto(r, "issue")
  /\ UNCHANGED <<rows, mails, chal, minted, fails, spent>>

IssueSession(r) ==
  /\ At(r, {"register", "login", "challenge"}, "issue")
  /\ minted' = minted + 1
  /\ rows' = Append(rows, Row(minted + 1))
  /\ req' = [req EXCEPT ![r].pc = "done", ![r].out = "ok", ![r].cookie = "set",
                        ![r].seen = None, ![r].sid = Len(rows) + 1, ![r].tok = minted + 1]
  /\ UNCHANGED <<user, mails, chal, fails, spent>>

-----------------------------------------------------------------------------
(* rotateRefreshToken.  The cookie holds the token `key`. *)

FindCurrent(r) ==
  /\ At(r, {"refresh"}, "current")
  /\ LET k == req[r].key
         found == {s \in DOMAIN rows : rows[s].token = k}
     IN \/ k = 0 /\ Answer(r, "auth", "keep")
        \/ k # 0 /\ found = {} /\ Goto(r, "previous")
        \/ \E s \in found :
             /\ k # 0
             /\ IF Live(s) /\ ~rows[s].lapsed
                THEN req' = [req EXCEPT ![r].pc = "rotate", ![r].sid = s]
                ELSE Answer(r, "auth", "clear")
  /\ UNCHANGED table

\* Not a current token: was it the one retired last?  Any failure tells the
\* browser to drop its cookie.
FindPrevious(r) ==
  /\ At(r, {"refresh"}, "previous")
  /\ LET found == {s \in DOMAIN rows : rows[s].prev = req[r].key}
     IN \/ found = {} /\ Answer(r, "auth", "clear")
        \/ \E s \in found : req' = [req EXCEPT ![r].pc = "reuse", ![r].sid = s]
  /\ UNCHANGED table

RevokeReused(r) ==
  /\ At(r, {"refresh"}, "reuse")
  /\ rows' = [rows EXCEPT ![req[r].sid].reason = "reuse"]
  /\ Answer(r, "refused", "clear")
  /\ UNCHANGED <<user, mails, chal, minted, fails, spent>>

\* As if the whole row that was read were written back.
RotatedRow(row, t, k) == [row EXCEPT !.token = t, !.prev = k, !.lapsed = FALSE, !.reason = "live"]
\* The UPDATE names the row by id alone.
Rotated(row, t, k) == [row EXCEPT !.token = t, !.prev = k, !.lapsed = FALSE]

Rotate(r) ==
  /\ At(r, {"refresh"}, "rotate")
  /\ minted' = minted + 1
  /\ rows' = [rows EXCEPT ![req[r].sid] = Rotated(@, minted + 1, req[r].key)]
  /\ req' = [req EXCEPT ![r].pc = "done", ![r].out = "ok", ![r].cookie = "set",
                        ![r].tok = minted + 1]
  /\ UNCHANGED <<user, mails, chal, fails, spent>>

-----------------------------------------------------------------------------
(* Mailed links: createVerificationToken and consumeVerificationToken. *)

MailType(op) ==
  IF op \in {"forgot", "reset"} THEN "password_reset" ELSE "email_verification"

Forgot(r) ==
  /\ At(r, {"forgot"}, "select")
  /\ IF user.exists THEN Goto(r, "retire") ELSE Answer(r, "ok", "keep")
  /\ UNCHANGED table

Resend(r) ==
  /\ At(r, {"resend"}, "user")
  /\ IF user.verified THEN Answer(r, "ok", "keep") ELSE Goto(r, "retire")
  /\ UNCHANGED table

RetireLinks(r) ==
  /\ At(r, {"register", "resend", "forgot"}, "retire")
  /\ mails' = [m \in DOMAIN mails |->
                 IF mails[m].type = MailType(req[r].op) THEN [mails[m] EXCEPT !.used = TRUE]
                                                         ELSE mails[m]]
  /\ Goto(r, "mail")
  /\ UNCHANGED <<user, rows, chal, minted, fails, spent>>

SendLink(r) ==
  /\ At(r, {"register", "resend", "forgot"}, "mail")
  /\ mails' = Append(mails, [type |-> MailType(req[r].op), used |-> FALSE])
  /\ spent' = [spent EXCEPT !.mail = Append(@, 0)]
  /\ IF req[r].op = "register" THEN Goto(r, "issue") ELSE Answer(r, "ok", "keep")
  /\ UNCHANGED <<user, rows, chal, minted, fails>>

\* The link is looked up: known, of this type, unused and (the second
\* disjunct) not past its expiry.
Redeem(r) ==
  /\ At(r, {"verify", "reset"}, "redeem")
  /\ LET m == req[r].key
     IN \/ m \in DOMAIN mails /\ mails[m] = [type |-> MailType(req[r].op), used |-> FALSE]
           /\ Goto(r, "claim")
        \/ Answer(r, "auth", "keep")
  /\ UNCHANGED table

UnclaimedAny(m) == TRUE
Unclaimed(m) == ~mails[m].used

\* UPDATE ... WHERE id = ? AND usedAt IS NULL, and the number of rows it changed.
Claim(r) ==
  /\ At(r, {"verify", "reset"}, "claim")
  /\ LET m == req[r].key
     IN IF Unclaimed(m)
        THEN /\ mails' = [mails EXCEPT ![m].used = TRUE]
             /\ spent' = [spent EXCEPT !.mail[m] = @ + 1]
             /\ req' = [req EXCEPT ![r].pc = IF req[r].op = "verify" THEN "verified" ELSE "password",
                                   ![r].doomed = LiveSessions]
        ELSE Answer(r, "auth", "keep") /\ UNCHANGED <<mails, spent>>
  /\ UNCHANGED <<user, rows, chal, minted, fails>>

VerifyEmail(r) ==
  /\ At(r, {"verify"}, "verified")
  /\ user' = [user EXCEPT !.verified = TRUE]
  /\ Answer(r, "ok", "keep")
  /\ UNCHANGED <<rows, mails, chal, minted, fails, spent>>

-----------------------------------------------------------------------------
(* Passwords. *)

\* changePassword: the current password, right or wrong, is verified against
\* the row read.
CheckPassword(r) ==
  /\ At(r, {"changePassword"}, "user")
  /\ Goto(r, "password") \/ Answer(r, "refused", "keep")
  /\ UNCHANGED table

\* A reset clears the lockout too and always ends every session; a change
\* ends the other ones when asked to (key = 1).
WritePassword(r) ==
  /\ At(r, {"reset", "changePassword"}, "password")
  /\ user' = IF req[r].op = "reset"
             THEN [user EXCEPT !.pw = req[r].pw, !.attempts = 0, !.until = "null"]
             ELSE [user EXCEPT !.pw = req[r].pw]
  /\ IF req[r].op = "reset" \/ req[r].key = 1 THEN Goto(r, "endAll") ELSE Answer(r, "ok", "keep")
  /\ UNCHANGED <<rows, mails, chal, minted, fails, spent>>

-----------------------------------------------------------------------------
(* Two-factor enrolment: each handler reads the row, checks it and writes. *)

TwoFactor(r, pc, allowed) ==
  /\ IF allowed THEN Goto(r, pc) ELSE Answer(r, "refused", "keep")
  /\ UNCHANGED table

CheckSetup(r) ==
  At(r, {"setup"}, "user") /\ TwoFactor(r, "secret", ~user.tfa)
CheckEnable(r) ==
  At(r, {"enable"}, "user") /\ TwoFactor(r, "enabled", user.secret # None /\ req[r].code = user.secret)
\* Switching it off takes the password, right or wrong, and a code.
CheckDisable(r) ==
  /\ At(r, {"disable"}, "user")
  /\ \/ TwoFactor(r, "disabled",
                  user.tfa /\ (req[r].code = user.secret \/ req[r].code \in user.codes))
     \/ Answer(r, "refused", "keep") /\ UNCHANGED table

WroteTwoFactor(r) ==
  /\ Answer(r, "ok", "keep")
  /\ UNCHANGED <<rows, mails, chal, minted, fails, spent>>

WriteSecret(r) ==
  /\ At(r, {"setup"}, "secret")
  /\ \E k \in Secrets : user' = [user EXCEPT !.secret = k]
  /\ WroteTwoFactor(r)

WriteEnabled(r) ==
  /\ At(r, {"enable"}, "enabled")
  /\ user' = [user EXCEPT !.tfa = TRUE, !.codes = Codes]
  /\ WroteTwoFactor(r)

WriteDisabled(r) ==
  /\ At(r, {"disable"}, "disabled")
  /\ user' = [user EXCEPT !.tfa = FALSE, !.secret = None, !.codes = {}]
  /\ WroteTwoFactor(r)

-----------------------------------------------------------------------------
(* Time: a lockout ends, a session that is not used lapses. *)

LockLapses ==
  /\ user.until = "future"
  /\ user' = [user EXCEPT !.until = "past"]
  /\ UNCHANGED <<rows, mails, chal, minted, req, fails, spent>>

SessionLapses(s) ==
  /\ Live(s) /\ ~rows[s].lapsed
  /\ rows' = [rows EXCEPT ![s].lapsed = TRUE]
  /\ UNCHANGED <<user, mails, chal, minted, req, fails, spent>>

-----------------------------------------------------------------------------
(* The requests that may arrive: any handler, naming anything that exists.  *)
(* A handler that only checks its caller's session is called from the      *)
(* newest one.                                                             *)

Input(op, sid, key, pw, code) ==
  [Free EXCEPT !.op = op, !.pc = First(op), !.fresh = (op \in Authenticated), !.sid = sid,
               !.key = key, !.pw = pw, !.code = code]

\* The session of the caller's token. Bound: where the handler does not look at the
\* session, only the newest one calls.
Callers(op) ==
  IF op \in {"logout", "logoutAll", "revoke", "changePassword"} THEN DOMAIN rows
  ELSE IF op \in Authenticated THEN {Len(rows)} \ {0} ELSE {0}

\* The session, challenge, token or link it names, or an option it sets.
Keys(op) ==
  CASE op = "revoke" -> DOMAIN rows
    [] op = "changePassword" -> 0..1
    [] op = "challenge" -> DOMAIN chal
    [] op = "refresh" -> 0..minted
    [] op \in {"verify", "reset"} -> DOMAIN mails
    [] OTHER -> {0}

TypedPasswords(op) ==
  IF op \in {"register", "login", "changePassword", "reset"} THEN Passwords ELSE {None}

TypedCodes(op) ==
  CASE op = "login" -> Secrets \cup {None}
    [] op = "enable" -> Secrets
    [] op \in {"disable", "challenge"} -> Secrets \cup Codes
    [] OTHER -> {None}

Inputs(op) ==
  {Input(op, s, k, p, c) : s \in Callers(op), k \in Keys(op), p \in TypedPasswords(op),
                           c \in TypedCodes(op)}

Step(r) ==
  \/ Authenticate(r) \/ EndSession(r) \/ EndAllSessions(r)
  \/ Register(r) \/ InsertUser(r) \/ SelectCredentials(r) \/ WrongPassword(r)
  \/ RightPassword(r) \/ SecondFactor(r) \/ ConsumeChallenge(r) \/ ChallengeUser(r)
  \/ BurnCode(r) \/ IssueSession(r)
  \/ FindCurrent(r) \/ FindPrevious(r) \/ RevokeReused(r) \/ Rotate(r)
  \/ Forgot(r) \/ Resend(r) \/ RetireLinks(r) \/ SendLink(r) \/ Redeem(r) \/ Claim(r)
  \/ VerifyEmail(r) \/ CheckPassword(r) \/ WritePassword(r)
  \/ CheckSetup(r) \/ CheckEnable(r) \/ CheckDisable(r)
  \/ WriteSecret(r) \/ WriteEnabled(r) \/ WriteDisabled(r)

Lapse == LockLapses \/ \E s \in DOMAIN rows : SessionLapses(s)

-----------------------------------------------------------------------------
(* Properties. *)

TypeOK ==
  /\ user \in User
  /\ rows \in Seq(AuthSession) /\ mails \in Seq(Mail) /\ chal \in Seq(BOOLEAN)
  /\ minted \in Nat /\ fails \in Nat
  /\ req \in [Reqs -> Request]
  /\ spent \in [mail: Seq(Nat), chal: Seq(Nat)]

\* A bulk sign-out that has answered ended every session that was live when
\* it was admitted (when the link was claimed, for a reset), and no refresh
\* in flight brings one of them back.  resetPassword: "assume the old
\* sessions are hostile" (service.ts:488).
Bulk == {"logoutAll", "reset", "changePassword", "logout", "revoke"}
EndsAll(q) == q.op \in Bulk /\ q.out = "ok" /\ (q.op = "changePassword" => q.key = 1)
KeepsOwn(q) == IF q.op = "changePassword" THEN {q.sid} ELSE {}
SignOutSticks ==
  \A r \in Reqs : EndsAll(req[r]) =>
    \A s \in req[r].doomed \ KeepsOwn(req[r]) : s \in DOMAIN rows => ~Live(s)

\* A mailed link is redeemed at most once, however many requests carry it
\* (service.ts:422, "Single use, and enforced atomically against replay").
LinkRedeemedOnce == \A m \in DOMAIN spent.mail : spent.mail[m] <= 1

\* A two-factor challenge is answered at most once, "whatever the outcome"
\* (service.ts:206).
ChallengeAnsweredOnce == \A c \in DOMAIN spent.chal : spent.chal[c] <= 1

\* Writing the counter back from an old read loses failures and never invents
\* one: a lockout takes at least MaxAttempts wrong passwords.
LockNeedsFailures == user.until # "null" => fails >= MaxAttempts
=============================================================================
