---------------------------- MODULE Browser_proofs ----------------------------
(***************************************************************************)
(* Theorems about Accounts, as Browser drives it: any number of tabs,      *)
(* calls and requests from elsewhere, with any passwords and codes.        *)
(***************************************************************************)
EXTENDS Browser, TableLemmas

-------------------------------------------------------------------------------
(* The invariant.                                                           *)

Tables ==
  /\ user \in User /\ rows \in Seq(AuthSession)
  /\ mails \in Seq(Mail) /\ chal \in Seq(BOOLEAN)
  /\ minted \in Nat /\ fails \in Nat
  /\ spent \in [mail: Seq(Nat), chal: Seq(Nat)]

\* A link that was redeemed is marked used, so that no UPDATE claims it again.
Links ==
  /\ DOMAIN spent.mail = DOMAIN mails
  /\ \A m \in DOMAIN mails : spent.mail[m] <= 1 /\ (spent.mail[m] > 0 => mails[m].used)

\* A challenge that was answered is gone from the store.
Challenges ==
  /\ DOMAIN spent.chal = DOMAIN chal
  /\ \A c \in DOMAIN chal : spent.chal[c] <= 1 /\ (spent.chal[c] > 0 => ~chal[c])

\* The counter never exceeds the failures there were.
Failures == user.attempts <= fails /\ (user.until # "null" => fails >= MaxAttempts)

Running(q) == q.pc \notin {"free", "done"}

\* What a request relies on between two statements.
Placed(q, rs, n) ==
  /\ Running(q) /\ q.op \in {"register", "changePassword", "reset"} => q.pw \in Passwords
  /\ Running(q) /\ q.op = "revoke" => q.key \in DOMAIN rs
  /\ q.pc = "end" /\ q.op = "logout" => q.sid \in DOMAIN rs
  /\ q.pc \in {"verdict", "burn"} => q.seen \in User /\ q.seen.attempts <= n
  /\ q.pc # "done" => q.out = "none"
  /\ q.doomed \subseteq DOMAIN rs
  /\ EndsAll(q) => \A s \in q.doomed \ KeepsOwn(q) : rs[s].reason # "live"

Requests ==
  /\ req \in [Reqs -> Request]
  /\ \A r \in Reqs : Placed(req[r], rows, fails)

\* What a page may send once more.
Opens(in, rs) ==
  /\ in \in Request
  /\ in.pc \notin {"verdict", "burn", "end", "done"} /\ in.out = "none" /\ in.doomed = {}
  /\ Running(in) /\ in.op \in {"register", "changePassword", "reset"} => in.pw \in Passwords
  /\ Running(in) /\ in.op = "revoke" => in.key \in DOMAIN rs

Pages ==
  /\ cookie \in [Jars -> Nat] /\ access \in [Tabs -> [sid: Nat, fresh: BOOLEAN]]
  /\ flying \in [Tabs -> BOOLEAN]
  /\ call \in [Calls -> [st: {"idle", "sent", "waiting", "resent", "done"}, in: Request]]
  /\ \A c \in Calls : Opens(call[c].in, rows)

\* The refresh a tab waits for is its own request.
Flights ==
  /\ \A t \in Tabs : flying[t] => req[t].op = "refresh"
  /\ \A c \in Calls : call[c].st = "waiting" => flying[TabOf[c]]

ServerInv == Tables /\ Links /\ Challenges /\ Failures /\ Requests
Inv == ServerInv /\ Pages /\ Flights

\* Tables only grow, and a session that ended stays ended.
Grows ==
  /\ DOMAIN rows \subseteq DOMAIN rows'
  /\ \A s \in DOMAIN rows : rows[s].reason # "live" => rows'[s].reason # "live"
  /\ fails \in Nat /\ fails' \in Nat /\ fails <= fails'

-------------------------------------------------------------------------------
(* One request moves.                                                       *)

LEMMA StillPlaced ==
  ASSUME Grows, NEW q \in Request, Placed(q, rows, fails)
  PROVE  Placed(q, rows', fails')
<1>1. q.pc \in {"verdict", "burn"} => q.seen \in User /\ q.seen.attempts <= fails'
  BY DEF Grows, Placed, User
<1> QED BY <1>1 DEF Grows, Placed

\* A request moves, the others wait.
Moved(r) ==
  /\ req' \in [Reqs -> Request]
  /\ \A o \in Reqs : o # r => req'[o] = req[o]
  /\ \A o \in Reqs : req'[o].op = req[o].op
  /\ Placed(req'[r], rows', fails')

LEMMA Moves ==
  ASSUME Requests, Grows, NEW r \in Reqs, Moved(r)
  PROVE  Requests'
<1>1. ASSUME NEW o \in Reqs PROVE Placed(req'[o], rows', fails')
  <2>1. CASE o = r BY <2>1 DEF Moved
  <2>2. CASE o # r
    <3>1. req[o] \in Request /\ Placed(req[o], rows, fails) BY DEF Requests
    <3>2. Placed(req[o], rows', fails') BY <3>1, StillPlaced
    <3> QED BY <2>2, <3>2 DEF Moved
  <2> QED BY <2>1, <2>2
<1> QED BY <1>1 DEF Requests, Moved

Waits == {"select", "second", "issue", "consume", "user", "current", "previous", "reuse",
          "rotate", "authenticate", "endAll", "password", "secret", "enabled", "disabled",
          "retire", "mail", "redeem", "claim", "verified", "insert"}

\* It goes on to its next statement.
LEMMA Goes ==
  ASSUME Requests, Grows, NEW r \in Reqs, Running(req[r]), NEW pc \in Waits, Goto(r, pc)
  PROVE  Moved(r)
<1> DEFINE p == req[r]
           q == [p EXCEPT !.pc = pc]
<1>1. p \in Request /\ Placed(p, rows', fails')
  BY StillPlaced DEF Requests
<1>2. /\ q \in Request /\ q.pc = pc /\ q.op = p.op /\ q.pw = p.pw /\ q.key = p.key
      /\ q.sid = p.sid /\ q.out = p.out /\ q.doomed = p.doomed
  BY <1>1 DEF Request, Waits, Labels
<1>3. req' = [req EXCEPT ![r] = q]
  BY DEF Goto, Requests
<1>4. Placed(q, rows', fails')
  BY <1>1, <1>2 DEF Placed, Running, Waits, EndsAll
<1> QED BY <1>2, <1>3, <1>4 DEF Moved, Requests

\* It goes on with the row it read.
LEMMA Sees ==
  ASSUME Requests, Grows, Tables, Failures, NEW r \in Reqs, Running(req[r]),
         NEW pc \in {"verdict", "burn", "issue"}, See(r, pc)
  PROVE  Moved(r)
<1> DEFINE p == req[r]
           q == [p EXCEPT !.pc = pc, !.seen = user]
<1>1. p \in Request /\ Placed(p, rows', fails')
  BY StillPlaced DEF Requests
<1>2. /\ q \in Request /\ q.pc = pc /\ q.op = p.op /\ q.pw = p.pw /\ q.key = p.key
      /\ q.sid = p.sid /\ q.out = p.out /\ q.doomed = p.doomed /\ q.seen = user
  <2>1. user \in User \cup {None} /\ pc \in Labels
    BY DEF Tables, Labels
  <2> QED BY <1>1, <2>1 DEF Request
<1>3. req' = [req EXCEPT ![r] = q]
  BY DEF See, Requests
<1>4. user.attempts <= fails' /\ user \in User
  BY DEF Failures, Grows, Tables, User
<1>5. Placed(q, rows', fails')
  BY <1>1, <1>2, <1>4 DEF Placed, Running, EndsAll
<1> QED BY <1>2, <1>3, <1>5 DEF Moved, Requests

\* It is answered: a sign-out only when what it was to end has ended.
LEMMA Answers ==
  ASSUME Requests, Grows, NEW r \in Reqs, NEW out \in {"ok", "auth", "refused"},
         NEW c \in {"keep", "set", "clear"}, Answer(r, out, c),
         out = "ok" /\ req[r].op \in Bulk /\ (req[r].op = "changePassword" => req[r].key = 1) =>
           \A s \in req[r].doomed \ KeepsOwn(req[r]) : rows'[s].reason # "live"
  PROVE  Moved(r)
<1> DEFINE p == req[r]
           q == [p EXCEPT !.pc = "done", !.out = out, !.cookie = c, !.seen = None]
<1>1. p \in Request /\ Placed(p, rows', fails')
  BY StillPlaced DEF Requests
<1>2. /\ q \in Request /\ q.pc = "done" /\ q.op = p.op /\ q.pw = p.pw /\ q.key = p.key
      /\ q.sid = p.sid /\ q.out = out /\ q.doomed = p.doomed
  <2>1. None \in User \cup {None} /\ "done" \in Labels
    BY DEF Labels
  <2> QED BY <1>1, <2>1 DEF Request
<1>3. req' = [req EXCEPT ![r] = q]
  BY DEF Answer, Requests
<1>4. EndsAll(q) => \A s \in q.doomed \ KeepsOwn(q) : rows'[s].reason # "live"
  BY <1>2 DEF EndsAll, KeepsOwn
<1>5. Placed(q, rows', fails')
  BY <1>1, <1>2, <1>4 DEF Placed, Running
<1> QED BY <1>2, <1>3, <1>5 DEF Moved, Requests

-------------------------------------------------------------------------------
(* Statements that only read.                                               *)

LEMMA Unchanging ==
  ASSUME ServerInv, UNCHANGED table
  PROVE  Grows /\ Tables' /\ Links' /\ Challenges' /\ Failures'
BY DEF table, ServerInv, Grows, Tables, Links, Challenges, Failures

\* The hook lets the request through with the sessions that are live.
LEMMA Admits ==
  ASSUME ServerInv, Grows, NEW r \in Reqs, At(r, Authenticated, "authenticate"),
         req[r].sid \in LiveSessions, NEW pc \in {"end", "endAll", "user"},
         req' = [req EXCEPT ![r].pc = pc, ![r].doomed = LiveSessions]
  PROVE  Moved(r)
<1> DEFINE p == req[r]
           q == [p EXCEPT !.pc = pc, !.doomed = LiveSessions]
<1>1. p \in Request /\ Placed(p, rows', fails') /\ Running(p)
  BY StillPlaced DEF ServerInv, Requests, At, Running
<1>2. LiveSessions \subseteq DOMAIN rows /\ DOMAIN rows \subseteq Nat /\ DOMAIN rows \subseteq DOMAIN rows'
  BY InTable DEF ServerInv, Tables, LiveSessions, Grows
<1>3. /\ q \in Request /\ q.pc = pc /\ q.op = p.op /\ q.pw = p.pw /\ q.key = p.key
      /\ q.sid = p.sid /\ q.out = p.out /\ q.doomed = LiveSessions
  <2>1. LiveSessions \in SUBSET Nat /\ pc \in Labels
    BY <1>2 DEF Labels
  <2> QED BY <1>1, <2>1 DEF Request
<1>4. req' = [req EXCEPT ![r] = q]
  BY DEF ServerInv, Requests
<1>5. ~EndsAll(q)
  BY <1>1, <1>3 DEF Placed, Running, EndsAll
<1>6. Placed(q, rows', fails')
  BY <1>1, <1>2, <1>3, <1>5 DEF Placed, Running
<1> QED BY <1>3, <1>4, <1>6 DEF Moved, ServerInv, Requests

LEMMA AuthenticateStep ==
  ASSUME ServerInv, Grows, NEW r \in Reqs, Authenticate(r)
  PROVE  Moved(r)
<1>1. Requests /\ Running(req[r]) /\ At(r, Authenticated, "authenticate")
  BY DEF ServerInv, Authenticate, At, Running
<1>2. CASE Answer(r, "refused", "keep") \/ Answer(r, "auth", "keep")
  BY <1>1, <1>2, Answers
<1>3. CASE req[r].op = "read" /\ Answer(r, "ok", "keep")
  BY <1>1, <1>3, Answers DEF Bulk
<1>4. CASE /\ req[r].sid \in LiveSessions
           /\ req' = [req EXCEPT ![r].pc = AfterAuthenticate(req[r].op), ![r].doomed = LiveSessions]
  <2>1. AfterAuthenticate(req[r].op) \in {"end", "endAll", "user"}
    BY DEF AfterAuthenticate
  <2> QED BY <1>1, <1>4, <2>1, Admits
<1> QED BY <1>2, <1>3, <1>4 DEF Authenticate

\* A session is found by its token.
LEMMA Finds ==
  ASSUME ServerInv, Grows, NEW r \in Reqs, req[r].op = "refresh", Running(req[r]),
         NEW s \in DOMAIN rows, NEW pc \in {"rotate", "reuse"},
         req' = [req EXCEPT ![r].pc = pc, ![r].sid = s]
  PROVE  Moved(r)
<1> DEFINE p == req[r]
           q == [p EXCEPT !.pc = pc, !.sid = s]
<1>1. p \in Request /\ Placed(p, rows', fails')
  BY StillPlaced DEF ServerInv, Requests
<1>2. /\ q \in Request /\ q.pc = pc /\ q.op = p.op /\ q.pw = p.pw /\ q.key = p.key
      /\ q.out = p.out /\ q.doomed = p.doomed
  <2>1. s \in Nat /\ pc \in Labels
    BY InTable DEF ServerInv, Tables, Labels
  <2> QED BY <1>1, <2>1 DEF Request
<1>3. req' = [req EXCEPT ![r] = q]
  BY DEF ServerInv, Requests
<1>4. Placed(q, rows', fails')
  BY <1>1, <1>2 DEF Placed, Running, EndsAll
<1> QED BY <1>2, <1>3, <1>4 DEF Moved, ServerInv, Requests

LEMMA FindStep ==
  ASSUME ServerInv, Grows, NEW r \in Reqs, FindCurrent(r) \/ FindPrevious(r)
  PROVE  Moved(r)
<1>1. Requests /\ Running(req[r]) /\ req[r].op = "refresh"
  BY DEF ServerInv, FindCurrent, FindPrevious, At, Running
<1>2. CASE Answer(r, "auth", "keep") \/ Answer(r, "auth", "clear")
  BY <1>1, <1>2, Answers
<1>3. CASE Goto(r, "previous")
  BY <1>1, <1>3, Goes DEF Waits
<1>4. CASE \E s \in DOMAIN rows : req' = [req EXCEPT ![r].pc = "rotate", ![r].sid = s]
  BY <1>1, <1>4, Finds
<1>5. CASE \E s \in DOMAIN rows : req' = [req EXCEPT ![r].pc = "reuse", ![r].sid = s]
  BY <1>1, <1>5, Finds
<1> QED BY <1>2, <1>3, <1>4, <1>5 DEF FindCurrent, FindPrevious

LEMMA SelectStep ==
  ASSUME ServerInv, Grows, NEW r \in Reqs,
         \/ Register(r) \/ SelectCredentials(r) \/ ChallengeUser(r) \/ Forgot(r) \/ Resend(r)
         \/ Redeem(r) \/ CheckPassword(r) \/ CheckSetup(r) \/ CheckEnable(r) \/ CheckDisable(r)
  PROVE  Moved(r)
<1>1. Requests /\ Tables /\ Failures /\ Running(req[r])
  BY DEF ServerInv, Register, SelectCredentials, ChallengeUser, Forgot, Resend, Redeem,
         CheckPassword, CheckSetup, CheckEnable, CheckDisable, At, Running
<1>2. CASE Answer(r, "refused", "keep") \/ Answer(r, "auth", "keep")
  BY <1>1, <1>2, Answers
<1>3. CASE req[r].op \in {"forgot", "resend"} /\ Answer(r, "ok", "keep")
  BY <1>1, <1>3, Answers DEF Bulk
<1>4. CASE \E pc \in Waits : Goto(r, pc)
  BY <1>1, <1>4, Goes
<1>5. CASE See(r, "verdict") \/ See(r, "issue") \/ See(r, "burn")
  BY <1>1, <1>5, Sees
<1> QED BY <1>2, <1>3, <1>4, <1>5
     DEF Register, SelectCredentials, ChallengeUser, Forgot, Resend, Redeem, CheckPassword,
         CheckSetup, CheckEnable, CheckDisable, TwoFactor, At, Waits

\* A statement that only reads keeps everything but its own request.
LEMMA ReadStep ==
  ASSUME ServerInv, NEW r \in Reqs,
         \/ Authenticate(r) \/ FindCurrent(r) \/ FindPrevious(r)
         \/ Register(r) \/ SelectCredentials(r) \/ ChallengeUser(r) \/ Forgot(r) \/ Resend(r)
         \/ Redeem(r) \/ CheckPassword(r) \/ CheckSetup(r) \/ CheckEnable(r) \/ CheckDisable(r)
  PROVE  ServerInv' /\ Grows /\ Moved(r)
<1>1. UNCHANGED table
  BY DEF Authenticate, FindCurrent, FindPrevious, Register, SelectCredentials, ChallengeUser,
         Forgot, Resend, Redeem, CheckPassword, CheckSetup, CheckEnable, CheckDisable, TwoFactor
<1>2. Grows /\ Tables' /\ Links' /\ Challenges' /\ Failures'
  BY <1>1, Unchanging
<1>3. Moved(r)
  BY <1>2, AuthenticateStep, FindStep, SelectStep
<1>4. Requests'
  BY <1>2, <1>3, Moves DEF ServerInv
<1> QED BY <1>2, <1>3, <1>4 DEF ServerInv

-------------------------------------------------------------------------------
(* Statements that write the account's row.                                 *)

\* What such a statement must establish; the rest follows.
Wrote(r) ==
  /\ user' \in User /\ Failures'
  /\ fails' \in Nat /\ fails <= fails'
  /\ UNCHANGED <<rows, mails, chal, minted, spent>>

LEMMA UserWritten ==
  ASSUME ServerInv, NEW r \in Reqs, Wrote(r), Grows => Moved(r)
  PROVE  ServerInv' /\ Grows /\ Moved(r)
<1>1. Grows
  BY DEF Grows, Wrote, ServerInv, Tables
<1>2. Requests'
  BY <1>1, Moves DEF ServerInv
<1>3. Tables' /\ Links' /\ Challenges'
  BY DEF Wrote, ServerInv, Tables, Links, Challenges
<1> QED BY <1>1, <1>2, <1>3 DEF Wrote, ServerInv

LEMMA InsertUserStep ==
  ASSUME ServerInv, NEW r \in Reqs, InsertUser(r)
  PROVE  ServerInv' /\ Grows /\ Moved(r)
<1>1. Requests /\ Running(req[r]) /\ user \in User /\ fails \in Nat /\ req[r].pw \in Passwords
  BY DEF ServerInv, Tables, Requests, Placed, InsertUser, At, Running
<1>2. CASE user.exists
  <2>1. Wrote(r)
    BY <1>1, <1>2 DEF InsertUser, Wrote, ServerInv, Failures
  <2>2. Grows => Moved(r)
    BY <1>1, <1>2, Answers DEF InsertUser
  <2> QED BY <2>1, <2>2, UserWritten
<1>3. CASE ~user.exists
  <2>1. /\ user' \in User /\ user'.attempts = 0 /\ user'.until = "null"
        /\ fails' = fails /\ UNCHANGED <<rows, mails, chal, minted, spent>>
    <3> DEFINE new == [Absent(req[r].pw) EXCEPT !.exists = TRUE]
    <3>1. new \in User /\ new.attempts = 0 /\ new.until = "null"
      BY <1>1 DEF Absent, User
    <3>2. user' = new
      BY <1>3 DEF InsertUser
    <3> HIDE DEF new
    <3> QED BY <3>1, <3>2 DEF InsertUser
  <2>2. Wrote(r)
    BY <1>1, <2>1 DEF Wrote, Failures
  <2>3. Grows => Moved(r)
    BY <1>1, <1>3, Goes DEF InsertUser, Waits
  <2> QED BY <2>2, <2>3, UserWritten
<1> QED BY <1>2, <1>3

LEMMA WrongPasswordStep ==
  ASSUME ServerInv, NEW r \in Reqs, WrongPassword(r)
  PROVE  ServerInv' /\ Grows /\ Moved(r)
<1>1. /\ Requests /\ Running(req[r]) /\ user \in User /\ fails \in Nat
      /\ req[r].seen.attempts \in Nat /\ req[r].seen.attempts <= fails
  BY DEF ServerInv, Tables, Requests, Placed, WrongPassword, At, Running, User
<1> DEFINE n == req[r].seen.attempts + 1
<1>2. n \in Nat /\ n <= fails + 1 /\ fails' = fails + 1 /\ MaxAttempts \in Nat
  BY <1>1, AttemptsAssumption DEF WrongPassword
<1> HIDE DEF n
<1>3. user' = [user EXCEPT !.attempts = IF Locks(n) THEN 0 ELSE n,
                           !.until = IF Locks(n) THEN "future" ELSE "null"]
  BY DEF WrongPassword, n
<1>4. CASE Locks(n)
  <2>1. user' \in User /\ user'.attempts = 0
    BY <1>1, <1>3, <1>4 DEF User
  <2>2. Failures'
    BY <1>1, <1>2, <1>4, <2>1 DEF Failures, Locks
  <2> QED BY <1>1, <1>2, <2>1, <2>2, Answers, UserWritten DEF Wrote, WrongPassword
<1>5. CASE ~Locks(n)
  <2>1. user' \in User /\ user'.attempts = n /\ user'.until = "null"
    BY <1>1, <1>2, <1>3, <1>5 DEF User
  <2>2. Failures'
    BY <1>1, <1>2, <2>1 DEF Failures
  <2> QED BY <1>1, <1>2, <2>1, <2>2, Answers, UserWritten DEF Wrote, WrongPassword
<1> QED BY <1>4, <1>5

LEMMA RightPasswordStep ==
  ASSUME ServerInv, NEW r \in Reqs, RightPassword(r)
  PROVE  ServerInv' /\ Grows /\ Moved(r)
<1>1. Requests /\ Running(req[r]) /\ user \in User /\ fails \in Nat /\ Failures
  BY DEF ServerInv, Tables, RightPassword, At, Running
<1>2. fails' = fails /\ UNCHANGED <<rows, mails, chal, minted, spent>>
  BY DEF RightPassword
<1>3. user' \in User /\ (user' = user \/ (user'.attempts = 0 /\ user'.until = "null"))
  <2> DEFINE new == [user EXCEPT !.attempts = 0, !.until = "null"]
  <2>1. new \in User /\ new.attempts = 0 /\ new.until = "null"
    BY <1>1 DEF User
  <2>2. user' = user \/ user' = new
    BY DEF RightPassword
  <2>3. CASE user' = user
    BY <1>1, <2>3
  <2>4. CASE user' = new
    BY <2>1, <2>4
  <2> QED BY <2>2, <2>3, <2>4
<1>4. Wrote(r)
  BY <1>1, <1>2, <1>3 DEF Wrote, Failures
<1>5. Grows => Moved(r)
  BY <1>1, Goes DEF RightPassword, Waits
<1> QED BY <1>4, <1>5, UserWritten

\* The other statements leave the counter and the lockout, or clear them.
LEMMA Cleared ==
  ASSUME ServerInv, NEW r \in Reqs, user' \in User, fails' = fails,
         UNCHANGED <<rows, mails, chal, minted, spent>>,
         \/ user'.attempts = user.attempts /\ user'.until = user.until
         \/ user'.attempts = 0 /\ user'.until = "null"
  PROVE  Wrote(r)
BY DEF Wrote, ServerInv, Tables, Failures

LEMMA BurnCodeStep ==
  ASSUME ServerInv, NEW r \in Reqs, BurnCode(r)
  PROVE  ServerInv' /\ Grows /\ Moved(r)
<1>1. Requests /\ Running(req[r]) /\ user \in User /\ req[r].seen.codes \subseteq Codes
  BY DEF ServerInv, Tables, Requests, Placed, BurnCode, At, Running, User
<1>2. user' \in User /\ user'.attempts = user.attempts /\ user'.until = user.until
  BY <1>1 DEF BurnCode, User
<1>3. Wrote(r)
  BY <1>2, Cleared DEF BurnCode
<1>4. Grows => Moved(r)
  BY <1>1, Goes DEF BurnCode, Waits
<1> QED BY <1>3, <1>4, UserWritten

LEMMA WritePasswordStep ==
  ASSUME ServerInv, NEW r \in Reqs, WritePassword(r)
  PROVE  ServerInv' /\ Grows /\ Moved(r)
<1>1. Requests /\ Running(req[r]) /\ user \in User /\ req[r].pw \in Passwords
  BY DEF ServerInv, Tables, Requests, Placed, WritePassword, At, Running
<1>2. /\ user' \in User
      /\ \/ user'.attempts = user.attempts /\ user'.until = user.until
         \/ user'.attempts = 0 /\ user'.until = "null"
  BY <1>1 DEF WritePassword, User
<1>3. Wrote(r)
  BY <1>2, Cleared DEF WritePassword
<1>4. ASSUME Grows PROVE Moved(r)
  <2>1. CASE req[r].op = "reset" \/ req[r].key = 1
    BY <1>1, <1>4, <2>1, Goes DEF WritePassword, Waits
  <2>2. CASE ~(req[r].op = "reset" \/ req[r].key = 1)
    BY <1>1, <1>4, <2>2, Answers DEF WritePassword, At
  <2> QED BY <2>1, <2>2
<1> QED BY <1>3, <1>4, UserWritten

LEMMA UserStep ==
  ASSUME ServerInv, NEW r \in Reqs,
         VerifyEmail(r) \/ WriteSecret(r) \/ WriteEnabled(r) \/ WriteDisabled(r)
  PROVE  ServerInv' /\ Grows /\ Moved(r)
<1>1. /\ Requests /\ Running(req[r]) /\ user \in User /\ req[r].op \notin Bulk
      /\ Answer(r, "ok", "keep")
  BY DEF ServerInv, Tables, VerifyEmail, WriteSecret, WriteEnabled, WriteDisabled, WroteTwoFactor,
         At, Running, Bulk
<1>2. user' \in User /\ user'.attempts = user.attempts /\ user'.until = user.until
  BY <1>1 DEF User, VerifyEmail, WriteSecret, WriteEnabled, WriteDisabled
<1>3. Wrote(r)
  BY <1>2, Cleared DEF VerifyEmail, WriteSecret, WriteEnabled, WriteDisabled, WroteTwoFactor
<1>4. Grows => Moved(r)
  BY <1>1, Answers
<1> QED BY <1>3, <1>4, UserWritten

-------------------------------------------------------------------------------
(* Statements that write auth_sessions.                                     *)

LEMMA SessionsWritten ==
  ASSUME ServerInv, NEW r \in Reqs, rows' \in Seq(AuthSession), minted' \in Nat,
         DOMAIN rows \subseteq DOMAIN rows',
         \A s \in DOMAIN rows : rows[s].reason # "live" => rows'[s].reason # "live",
         UNCHANGED <<user, mails, chal, fails, spent>>, Grows => Moved(r)
  PROVE  ServerInv' /\ Grows /\ Moved(r)
<1>1. Grows
  BY DEF Grows, ServerInv, Tables
<1>2. Requests'
  BY <1>1, Moves DEF ServerInv
<1>3. Tables' /\ Links' /\ Challenges' /\ Failures'
  BY DEF ServerInv, Tables, Links, Challenges, Failures
<1> QED BY <1>1, <1>2, <1>3 DEF ServerInv

LEMMA EndSessionStep ==
  ASSUME ServerInv, NEW r \in Reqs, EndSession(r)
  PROVE  ServerInv' /\ Grows /\ Moved(r)
<1> DEFINE p == req[r]
           s == IF p.op = "logout" THEN p.sid ELSE p.key
           c == IF s = p.sid THEN "clear" ELSE "keep"
           q == [p EXCEPT !.pc = "done", !.out = "ok", !.doomed = {s}, !.cookie = c]
<1>1. p \in Request /\ Placed(p, rows, fails) /\ s \in DOMAIN rows /\ rows \in Seq(AuthSession)
  BY DEF EndSession, ServerInv, Requests, Tables, At, Placed, Running
<1>2. /\ rows' \in Seq(AuthSession) /\ DOMAIN rows' = DOMAIN rows
      /\ \A x \in DOMAIN rows : rows[x].reason # "live" => rows'[x].reason # "live"
      /\ rows'[s].reason # "live"
  <2>1. CASE s \in LiveSessions
    <3> DEFINE e == [rows[s] EXCEPT !.reason = "ended"]
    <3>1. e \in AuthSession /\ e.reason = "ended"
      <4>1. rows[s] \in AuthSession
        BY <1>1, InTable
      <4> QED BY <4>1 DEF AuthSession
    <3>2. rows' = [rows EXCEPT ![s] = e]
      BY <2>1 DEF EndSession, Ended
    <3> HIDE DEF e, s
    <3> QED BY <1>1, <3>1, <3>2, Updated
  <2>2. CASE s \notin LiveSessions
    BY <1>1, <2>2 DEF EndSession, Ended, LiveSessions, Live
  <2> QED BY <2>1, <2>2
<1>3. /\ q \in Request /\ q.pc = "done" /\ q.op = p.op /\ q.out = "ok" /\ q.doomed = {s}
  <2>1. {s} \in SUBSET Nat /\ "done" \in Labels /\ c \in {"keep", "set", "clear"}
    BY <1>1, InTable DEF Labels
  <2> HIDE DEF s, c
  <2> QED BY <1>1, <2>1 DEF Request
<1>4. req' = [req EXCEPT ![r] = q]
  BY DEF EndSession, ServerInv, Requests
<1>5. Placed(q, rows', fails')
  BY <1>1, <1>2, <1>3 DEF Placed, Running
<1>6. Moved(r)
  BY <1>3, <1>4, <1>5 DEF Moved, ServerInv, Requests
<1> QED BY <1>2, <1>6, SessionsWritten DEF EndSession, ServerInv, Tables

LEMMA EndAllSessionsStep ==
  ASSUME ServerInv, NEW r \in Reqs, EndAllSessions(r)
  PROVE  ServerInv' /\ Grows /\ Moved(r)
<1>1. rows \in Seq(AuthSession) /\ Requests /\ req[r] \in Request /\ Placed(req[r], rows, fails)
  BY DEF ServerInv, Tables, Requests
<1>2. /\ rows' \in Seq(AuthSession) /\ DOMAIN rows' = DOMAIN rows
      /\ \A s \in DOMAIN rows : rows[s].reason # "live" => rows'[s].reason # "live"
      /\ \A s \in EndedBy(r) : rows'[s].reason # "live"
  <2>1. \A s \in DOMAIN rows : rows[s] \in AuthSession
    BY <1>1, InTable
  <2>2. /\ \A s \in DOMAIN rows : rows'[s] \in AuthSession
        /\ \A s \in DOMAIN rows : rows'[s] = rows[s] \/ rows'[s].reason = "ended"
        /\ \A s \in DOMAIN rows \cap EndedBy(r) : rows'[s].reason = "ended"
        /\ rows' \in [DOMAIN rows -> AuthSession]
    BY <2>1 DEF EndAllSessions, AuthSession
  <2>3. EndedBy(r) \subseteq DOMAIN rows
    BY DEF EndedBy, LiveSessions
  <2> QED BY <1>1, <2>2, <2>3, Remade
<1>3. \A s \in req[r].doomed \ KeepsOwn(req[r]) : rows'[s].reason # "live"
  BY <1>1, <1>2 DEF Placed, KeepsOwn, EndedBy, LiveSessions, Live
<1>4. Grows => Moved(r)
  BY <1>1, <1>3, Answers DEF EndAllSessions
<1> QED BY <1>2, <1>4, SessionsWritten DEF EndAllSessions, ServerInv, Tables

LEMMA IssueSessionStep ==
  ASSUME ServerInv, NEW r \in Reqs, IssueSession(r)
  PROVE  ServerInv' /\ Grows /\ Moved(r)
<1> DEFINE p == req[r]
           n == Len(rows) + 1
           t == minted + 1
           q == [p EXCEPT !.pc = "done", !.out = "ok", !.cookie = "set", !.seen = None,
                          !.sid = n, !.tok = t]
<1>1. /\ p \in Request /\ Placed(p, rows, fails) /\ rows \in Seq(AuthSession) /\ t \in Nat
      /\ n \in Nat /\ Row(t) \in AuthSession
  BY InTable DEF ServerInv, Requests, Tables, Row, AuthSession
<1>2. /\ rows' \in Seq(AuthSession) /\ DOMAIN rows \subseteq DOMAIN rows'
      /\ \A s \in DOMAIN rows : rows'[s] = rows[s]
  BY <1>1, Appended DEF IssueSession
<1>3. q \in Request /\ q.pc = "done" /\ q.op = p.op /\ q.doomed = p.doomed
  <2>1. "done" \in Labels
    BY DEF Labels
  <2> HIDE DEF n, t
  <2> QED BY <1>1, <2>1 DEF Request
<1>4. req' = [req EXCEPT ![r] = q]
  BY DEF IssueSession, ServerInv, Requests
<1>5. Placed(q, rows', fails')
  BY <1>1, <1>2, <1>3 DEF Placed, Running, EndsAll, Bulk, IssueSession, At
<1>6. Moved(r)
  BY <1>3, <1>4, <1>5 DEF Moved, ServerInv, Requests
<1> QED BY <1>1, <1>2, <1>6, SessionsWritten DEF IssueSession

LEMMA RevokeReusedStep ==
  ASSUME ServerInv, NEW r \in Reqs, RevokeReused(r)
  PROVE  ServerInv' /\ Grows /\ Moved(r)
<1> DEFINE s == req[r].sid
           e == [rows[s] EXCEPT !.reason = "reuse"]
<1>1. rows \in Seq(AuthSession) /\ Requests
  BY DEF ServerInv, Tables
<1>2. s \in DOMAIN rows => e \in AuthSession /\ e.reason = "reuse"
  <2>1. s \in DOMAIN rows => rows[s] \in AuthSession
    BY <1>1, InTable
  <2> QED BY <2>1 DEF AuthSession
<1>3. rows' = [rows EXCEPT ![s] = e]
  BY DEF RevokeReused
<1> HIDE DEF s, e
<1>4. /\ rows' \in Seq(AuthSession) /\ DOMAIN rows' = DOMAIN rows
      /\ \A x \in DOMAIN rows : rows[x].reason # "live" => rows'[x].reason # "live"
  BY <1>1, <1>2, <1>3, Touched
<1>5. Grows => Moved(r)
  BY <1>1, Answers DEF RevokeReused
<1> QED BY <1>4, <1>5, SessionsWritten DEF RevokeReused, ServerInv, Tables

LEMMA RotateStep ==
  ASSUME ServerInv, NEW r \in Reqs, Rotate(r)
  PROVE  ServerInv' /\ Grows /\ Moved(r)
<1> DEFINE p == req[r]
           s == p.sid
           t == minted + 1
           e == Rotated(rows[s], t, p.key)
           q == [p EXCEPT !.pc = "done", !.out = "ok", !.cookie = "set", !.tok = t]
<1>1. /\ p \in Request /\ Placed(p, rows, fails) /\ rows \in Seq(AuthSession) /\ t \in Nat
      /\ p.key \in Nat
  BY DEF ServerInv, Requests, Tables, Request
<1>2. s \in DOMAIN rows => e \in AuthSession /\ e.reason = rows[s].reason
  <2>1. s \in DOMAIN rows => rows[s] \in AuthSession
    BY <1>1, InTable
  <2> QED BY <1>1, <2>1 DEF AuthSession, Rotated
<1>3. rows' = [rows EXCEPT ![s] = e]
  BY DEF Rotate
<1>4. /\ rows' \in Seq(AuthSession) /\ DOMAIN rows' = DOMAIN rows
      /\ \A x \in DOMAIN rows : rows[x].reason # "live" => rows'[x].reason # "live"
  <2> HIDE DEF s, e
  <2> QED BY <1>1, <1>2, <1>3, Touched
<1>5. q \in Request /\ q.pc = "done" /\ q.op = p.op /\ q.doomed = p.doomed
  <2>1. "done" \in Labels
    BY DEF Labels
  <2> HIDE DEF t
  <2> QED BY <1>1, <2>1 DEF Request
<1>6. req' = [req EXCEPT ![r] = q]
  BY DEF Rotate, ServerInv, Requests
<1>7. Placed(q, rows', fails')
  BY <1>1, <1>4, <1>5 DEF Placed, Running, EndsAll, Bulk, Rotate, At
<1>8. Moved(r)
  BY <1>5, <1>6, <1>7 DEF Moved, ServerInv, Requests
<1> QED BY <1>1, <1>4, <1>8, SessionsWritten DEF Rotate

-------------------------------------------------------------------------------
(* Statements that write the mailed links and the challenges.               *)

LEMMA LinksWritten ==
  ASSUME ServerInv, NEW r \in Reqs, mails' \in Seq(Mail), chal' \in Seq(BOOLEAN),
         spent' \in [mail: Seq(Nat), chal: Seq(Nat)], Links', Challenges',
         UNCHANGED <<user, rows, minted, fails>>, Grows => Moved(r)
  PROVE  ServerInv' /\ Grows /\ Moved(r)
<1>1. Grows
  BY DEF Grows, ServerInv, Tables
<1>2. Requests'
  BY <1>1, Moves DEF ServerInv
<1>3. Tables' /\ Failures'
  BY DEF ServerInv, Tables, Failures
<1> QED BY <1>1, <1>2, <1>3 DEF ServerInv

LEMMA RetireLinksStep ==
  ASSUME ServerInv, NEW r \in Reqs, RetireLinks(r)
  PROVE  ServerInv' /\ Grows /\ Moved(r)
<1>1. mails \in Seq(Mail) /\ \A m \in DOMAIN mails : mails[m] \in Mail
  BY InTable DEF ServerInv, Tables
<1>2. /\ mails' \in [DOMAIN mails -> Mail]
      /\ \A m \in DOMAIN mails : mails[m].used => mails'[m].used
  BY <1>1 DEF RetireLinks, Mail
<1>3. mails' \in Seq(Mail) /\ DOMAIN mails' = DOMAIN mails
  BY <1>1, <1>2, Remade
<1>4. Links'
  BY <1>2, <1>3 DEF Links, ServerInv, RetireLinks
<1>5. Grows => Moved(r)
  BY Goes DEF RetireLinks, Waits, ServerInv, At, Running
<1> QED BY <1>3, <1>4, <1>5, LinksWritten DEF RetireLinks, ServerInv, Tables, Challenges

LEMMA SendLinkStep ==
  ASSUME ServerInv, NEW r \in Reqs, SendLink(r)
  PROVE  ServerInv' /\ Grows /\ Moved(r)
<1> DEFINE ms == Append(mails, [type |-> MailType(req[r].op), used |-> FALSE])
           n == Len(mails) + 1
<1>1. /\ mails \in Seq(Mail) /\ spent.mail \in Seq(Nat) /\ DOMAIN spent.mail = DOMAIN mails
      /\ [type |-> MailType(req[r].op), used |-> FALSE] \in Mail
  BY DEF ServerInv, Tables, Links, MailType, Mail
<1>2. Len(spent.mail) = Len(mails)
  BY <1>1, InTable
<1>3. /\ mails' \in Seq(Mail) /\ DOMAIN mails' = DOMAIN mails \cup {n}
      /\ \A m \in DOMAIN mails : mails'[m] = mails[m]
  BY <1>1, Appended DEF SendLink
<1>4. /\ spent' \in [mail: Seq(Nat), chal: Seq(Nat)] /\ spent'.chal = spent.chal
      /\ spent'.mail = Append(spent.mail, 0)
  <2>1. Append(spent.mail, 0) \in Seq(Nat)
    BY <1>1, Appended
  <2> QED BY <2>1 DEF SendLink, ServerInv, Tables
<1>5. /\ DOMAIN spent'.mail = DOMAIN mails \cup {n} /\ spent'.mail[n] = 0
      /\ \A m \in DOMAIN mails : spent'.mail[m] = spent.mail[m]
  <2>1. PICK s, d : s = spent.mail /\ d = DOMAIN mails
    OBVIOUS
  <2>2. s \in Seq(Nat) /\ 0 \in Nat /\ DOMAIN s = d /\ Len(s) + 1 = n
    BY <1>1, <1>2, <2>1
  <2>3. /\ DOMAIN Append(s, 0) = d \cup {n} /\ Append(s, 0)[n] = 0
        /\ \A m \in d : Append(s, 0)[m] = s[m]
    BY <2>2, Appended
  <2> QED BY <1>4, <2>1, <2>3
<1>6. Links'
  BY <1>3, <1>5 DEF Links, ServerInv
<1>7. Challenges' /\ chal' \in Seq(BOOLEAN)
  BY <1>4 DEF Challenges, ServerInv, Tables, SendLink
<1>8. ASSUME Grows PROVE Moved(r)
  <2>1. Requests /\ Running(req[r])
    BY DEF SendLink, ServerInv, At, Running
  <2>2. CASE Goto(r, "issue")
    BY <1>8, <2>1, <2>2, Goes DEF Waits
  <2>3. CASE req[r].op \notin Bulk /\ Answer(r, "ok", "keep")
    BY <1>8, <2>1, <2>3, Answers
  <2> QED BY <2>2, <2>3 DEF SendLink, At, Bulk
<1> QED BY <1>3, <1>4, <1>6, <1>7, <1>8, LinksWritten DEF SendLink

LEMMA ClaimStep ==
  ASSUME ServerInv, NEW r \in Reqs, Claim(r)
  PROVE  ServerInv' /\ Grows /\ Moved(r)
<1> DEFINE m == req[r].key
           n == spent.mail[m] + 1
           e == [mails[m] EXCEPT !.used = TRUE]
           p == req[r]
           pc == IF p.op = "verify" THEN "verified" ELSE "password"
           q == [p EXCEPT !.pc = pc, !.doomed = LiveSessions]
<1>1. /\ mails \in Seq(Mail) /\ spent.mail \in Seq(Nat) /\ Links /\ Requests
      /\ Running(req[r]) /\ spent \in [mail: Seq(Nat), chal: Seq(Nat)]
  BY DEF ServerInv, Tables, Claim, At, Running
<1>2. CASE ~Unclaimed(m)
  <2>1. UNCHANGED <<mails, spent, user, rows, chal, minted, fails>> /\ Answer(r, "auth", "keep")
    BY <1>2 DEF Claim
  <2> HIDE DEF m
  <2>2. Grows => Moved(r)
    BY <1>1, <2>1, Answers
  <2> QED BY <2>1, <2>2, LinksWritten DEF ServerInv, Tables, Links, Challenges
<1>3. CASE Unclaimed(m)
  <2>1. /\ mails' = [mails EXCEPT ![m] = e]
        /\ spent' = [spent EXCEPT !.mail = [spent.mail EXCEPT ![m] = n]]
        /\ req' = [req EXCEPT ![r].pc = pc, ![r].doomed = LiveSessions]
        /\ UNCHANGED <<user, rows, chal, minted, fails>>
    BY <1>3 DEF Claim
  <2>2. m \in DOMAIN mails => e \in Mail /\ e.used = TRUE
    <3>1. m \in DOMAIN mails => mails[m] \in Mail
      BY <1>1, InTable
    <3> QED BY <3>1 DEF Mail
  <2>3. m \in DOMAIN mails => n \in Nat /\ n <= 1
    <3>1. m \in DOMAIN mails => spent.mail[m] \in Nat
      BY <1>1, InTable DEF Links
    <3> QED BY <1>1, <1>3, <3>1 DEF Links, Unclaimed
  <2>4. /\ mails' \in Seq(Mail) /\ DOMAIN mails' = DOMAIN mails
        /\ \A x \in DOMAIN mails : mails'[x] = IF x = m THEN e ELSE mails[x]
    <3> HIDE DEF m, e
    <3> QED BY <1>1, <2>1, <2>2, Touched
  <2>5. PICK sm : sm = [spent.mail EXCEPT ![m] = n]
    OBVIOUS
  <2>6. /\ sm \in Seq(Nat) /\ DOMAIN sm = DOMAIN mails
        /\ \A x \in DOMAIN mails : sm[x] = IF x = m THEN n ELSE spent.mail[x]
    <3> HIDE DEF m, n
    <3>1. DOMAIN spent.mail = DOMAIN mails
      BY <1>1 DEF Links
    <3> QED BY <1>1, <2>3, <2>5, <3>1, Touched
  <2>7. spent' \in [mail: Seq(Nat), chal: Seq(Nat)] /\ spent'.mail = sm /\ spent'.chal = spent.chal
    BY <1>1, <2>1, <2>5, <2>6
  <2>8. Links'
    <3> HIDE DEF m, n, e
    <3> QED BY <1>1, <2>2, <2>3, <2>4, <2>6, <2>7 DEF Links
  <2>9. Challenges' /\ chal' \in Seq(BOOLEAN)
    BY <2>1, <2>7 DEF Challenges, ServerInv, Tables
  <2>10. ASSUME Grows PROVE Moved(r)
    <3>1. p \in Request /\ Placed(p, rows', fails') /\ p.op \in {"verify", "reset"}
      BY <1>1, <2>10, StillPlaced DEF Requests, Claim, At
    <3>2. LiveSessions \subseteq DOMAIN rows' /\ LiveSessions \in SUBSET Nat
      BY <2>10, InTable DEF ServerInv, Tables, LiveSessions, Grows
    <3>3. /\ q \in Request /\ q.pc = pc /\ q.op = p.op /\ q.pw = p.pw
          /\ q.out = p.out /\ q.doomed = LiveSessions
      <4>1. pc \in Labels
        BY DEF Labels
      <4> HIDE DEF pc
      <4> QED BY <3>1, <3>2, <4>1 DEF Request
    <3>4. req' = [req EXCEPT ![r] = q]
      BY <1>1, <2>1 DEF Requests
    <3>5. Placed(q, rows', fails')
      BY <1>1, <3>1, <3>2, <3>3 DEF Placed, Running, EndsAll
    <3> QED BY <1>1, <3>3, <3>4, <3>5 DEF Moved, Requests
  <2> QED BY <2>1, <2>4, <2>7, <2>8, <2>9, <2>10, LinksWritten
<1> QED BY <1>2, <1>3

LEMMA SecondFactorStep ==
  ASSUME ServerInv, NEW r \in Reqs, SecondFactor(r)
  PROVE  ServerInv' /\ Grows /\ Moved(r)
<1> DEFINE n == Len(chal) + 1
<1>1. /\ chal \in Seq(BOOLEAN) /\ spent.chal \in Seq(Nat) /\ Challenges /\ Links /\ Requests
      /\ Running(req[r]) /\ spent \in [mail: Seq(Nat), chal: Seq(Nat)] /\ mails \in Seq(Mail)
      /\ req[r].op \notin Bulk
  BY DEF ServerInv, Tables, SecondFactor, At, Running, Bulk
<1>2. CASE UNCHANGED <<chal, spent>> /\ (Goto(r, "issue") \/ Answer(r, "refused", "keep"))
  <2>1. Grows => Moved(r)
    BY <1>1, <1>2, Goes, Answers DEF Waits
  <2> QED BY <1>1, <1>2, <2>1, LinksWritten DEF SecondFactor, Links, Challenges
<1>3. CASE /\ chal' = Append(chal, TRUE) /\ spent' = [spent EXCEPT !.chal = Append(spent.chal, 0)]
           /\ Answer(r, "ok", "keep")
  <2>1. Len(spent.chal) = Len(chal)
    BY <1>1, InTable DEF Challenges
  <2>2. /\ chal' \in Seq(BOOLEAN) /\ DOMAIN chal' = DOMAIN chal \cup {n}
        /\ \A c \in DOMAIN chal : chal'[c] = chal[c]
    <3>1. /\ Append(chal, TRUE) \in Seq(BOOLEAN)
          /\ DOMAIN Append(chal, TRUE) = DOMAIN chal \cup {Len(chal) + 1}
          /\ \A c \in DOMAIN chal : Append(chal, TRUE)[c] = chal[c]
      <4>1. ASSUME NEW S, NEW s \in Seq(S), NEW b \in S
            PROVE  /\ Append(s, b) \in Seq(S)
                   /\ DOMAIN Append(s, b) = DOMAIN s \cup {Len(s) + 1}
                   /\ \A c \in DOMAIN s : Append(s, b)[c] = s[c]
        BY Appended
      <4>2. TRUE \in BOOLEAN
        OBVIOUS
      <4> QED BY <1>1, <4>1, <4>2, ZenonT(30)
    <3> QED BY <1>3, <3>1, Zenon
  <2>3. PICK sc : sc = Append(spent.chal, 0)
    OBVIOUS
  <2>4. /\ sc \in Seq(Nat) /\ DOMAIN sc = DOMAIN chal \cup {n} /\ sc[n] = 0
        /\ \A c \in DOMAIN chal : sc[c] = spent.chal[c]
    BY <1>1, <2>1, <2>3, Appended DEF Challenges
  <2>5. spent' \in [mail: Seq(Nat), chal: Seq(Nat)] /\ spent'.chal = sc /\ spent'.mail = spent.mail
    BY <1>1, <1>3, <2>3, <2>4
  <2>6. Challenges'
    BY <1>1, <2>2, <2>4, <2>5 DEF Challenges
  <2>7. Links' /\ mails' \in Seq(Mail)
    BY <1>1, <2>5 DEF Links, SecondFactor
  <2>8. Grows => Moved(r)
    BY <1>1, <1>3, Answers
  <2> QED BY <2>2, <2>5, <2>6, <2>7, <2>8, LinksWritten DEF SecondFactor
<1> QED BY <1>2, <1>3 DEF SecondFactor

LEMMA ConsumeChallengeStep ==
  ASSUME ServerInv, NEW r \in Reqs, ConsumeChallenge(r)
  PROVE  ServerInv' /\ Grows /\ Moved(r)
<1> DEFINE c == req[r].key
           n == spent.chal[c] + 1
<1>1. /\ chal \in Seq(BOOLEAN) /\ spent.chal \in Seq(Nat) /\ Challenges /\ Links /\ Requests
      /\ Running(req[r]) /\ spent \in [mail: Seq(Nat), chal: Seq(Nat)] /\ mails \in Seq(Mail)
  BY DEF ServerInv, Tables, ConsumeChallenge, At, Running
<1>2. Links' /\ mails' \in Seq(Mail) /\ UNCHANGED <<user, rows, minted, fails>>
  <2>1. spent'.mail = spent.mail
    BY <1>1 DEF ConsumeChallenge
  <2> QED BY <1>1, <2>1 DEF ConsumeChallenge, Links
<1>3. Grows => Moved(r)
  BY <1>1, Goes, Answers DEF ConsumeChallenge, Waits
<1>4. CASE UNCHANGED <<chal, spent>>
  BY <1>1, <1>2, <1>3, <1>4, LinksWritten DEF Challenges
<1>5. CASE c \in DOMAIN chal /\ chal[c] /\ chal' = Deleted(c)
  <2>1. /\ chal' \in Seq(BOOLEAN) /\ DOMAIN chal' = DOMAIN chal
        /\ \A x \in DOMAIN chal : chal'[x] = IF x = c THEN FALSE ELSE chal[x]
    <3> HIDE DEF c
    <3> QED BY <1>1, <1>5, Touched DEF Deleted
  <2>2. CASE UNCHANGED spent
    <3>1. Challenges'
      BY <1>1, <2>1, <2>2 DEF Challenges
    <3> QED BY <1>1, <1>2, <1>3, <2>1, <2>2, <3>1, LinksWritten
  <2>3. CASE spent' = [spent EXCEPT !.chal = [spent.chal EXCEPT ![c] = n]]
    <3>1. n \in Nat /\ n <= 1
      <4>1. spent.chal[c] \in Nat
        BY <1>1, <1>5, InTable DEF Challenges
      <4> QED BY <1>1, <1>5, <4>1 DEF Challenges
    <3>2. PICK sc : sc = [spent.chal EXCEPT ![c] = n]
      OBVIOUS
    <3>3. /\ sc \in Seq(Nat) /\ DOMAIN sc = DOMAIN chal
          /\ \A x \in DOMAIN chal : sc[x] = IF x = c THEN n ELSE spent.chal[x]
      <4> HIDE DEF c, n
      <4>1. DOMAIN spent.chal = DOMAIN chal
        BY <1>1 DEF Challenges
      <4> QED BY <1>1, <3>1, <3>2, <4>1, Touched
    <3>4. spent' \in [mail: Seq(Nat), chal: Seq(Nat)] /\ spent'.chal = sc
      BY <1>1, <2>3, <3>2, <3>3
    <3>5. Challenges'
      <4> HIDE DEF c, n
      <4> QED BY <1>1, <2>1, <3>1, <3>3, <3>4 DEF Challenges
    <3> QED BY <1>2, <1>3, <2>1, <3>4, <3>5, LinksWritten
  <2> QED BY <1>5, <2>2, <2>3 DEF ConsumeChallenge
<1> QED BY <1>4, <1>5 DEF ConsumeChallenge

-------------------------------------------------------------------------------
(* Every statement, and the passing of time.                                *)

LEMMA ServerStep ==
  ASSUME ServerInv, NEW r \in Reqs, Step(r)
  PROVE  ServerInv' /\ Grows /\ Moved(r)
BY ReadStep, InsertUserStep, WrongPasswordStep, RightPasswordStep, BurnCodeStep,
   WritePasswordStep, UserStep, EndSessionStep, EndAllSessionsStep, IssueSessionStep,
   RevokeReusedStep, RotateStep, RetireLinksStep, SendLinkStep, ClaimStep, SecondFactorStep,
   ConsumeChallengeStep
   DEF Step

LEMMA LapseStep ==
  ASSUME ServerInv, Lapse
  PROVE  ServerInv' /\ Grows /\ UNCHANGED req
<1>1. CASE LockLapses
  <2>1. /\ user' \in User /\ user'.attempts = user.attempts /\ user.until # "null"
        /\ UNCHANGED <<rows, mails, chal, minted, req, fails, spent>>
    BY <1>1 DEF LockLapses, ServerInv, Tables, User
  <2> QED BY <2>1 DEF ServerInv, Tables, Links, Challenges, Failures, Requests, Grows
<1>2. ASSUME NEW s \in DOMAIN rows, SessionLapses(s)
      PROVE  ServerInv' /\ Grows /\ UNCHANGED req
  <2> DEFINE e == [rows[s] EXCEPT !.lapsed = TRUE]
  <2>1. rows[s] \in AuthSession /\ rows \in Seq(AuthSession)
    BY InTable DEF ServerInv, Tables
  <2>2. e \in AuthSession /\ e.reason = rows[s].reason
    BY <2>1 DEF AuthSession
  <2>3. rows' = [rows EXCEPT ![s] = e] /\ UNCHANGED <<user, mails, chal, minted, req, fails, spent>>
    BY <1>2 DEF SessionLapses
  <2> HIDE DEF e
  <2>4. /\ rows' \in Seq(AuthSession) /\ DOMAIN rows' = DOMAIN rows
        /\ \A x \in DOMAIN rows : rows'[x].reason = rows[x].reason
    BY <2>1, <2>2, <2>3, Updated
  <2>5. Grows
    BY <2>3, <2>4 DEF Grows, ServerInv, Tables
  <2>6. Requests'
    BY <2>3, <2>5, StillPlaced DEF ServerInv, Requests
  <2> QED BY <2>3, <2>4, <2>5, <2>6 DEF ServerInv, Tables, Links, Challenges, Failures
<1> QED BY <1>1, <1>2 DEF Lapse

-------------------------------------------------------------------------------
(* What arrives in a slot.                                                  *)

LEMMA FreeOpens == ASSUME NEW rs PROVE Opens(Free, rs) /\ Free.op = None
<1>1. Free \in Request
  BY DEF Free, Request, Labels
<1> QED BY <1>1 DEF Opens, Free, Running

LEMMA OpensPlaced ==
  ASSUME NEW rs, NEW n, NEW in, Opens(in, rs)
  PROVE  in \in Request /\ Placed(in, rs, n)
BY DEF Opens, Placed, EndsAll

LEMMA StillOpens ==
  ASSUME Grows, NEW in, Opens(in, rows)
  PROVE  Opens(in, rows')
BY DEF Grows, Opens

\* A request carries the token its tab has when it is sent.
LEMMA SignedOpens ==
  ASSUME NEW rs, NEW in, Opens(in, rs), NEW s \in Nat, NEW f \in BOOLEAN
  PROVE  /\ Opens([in EXCEPT !.sid = s, !.fresh = f], rs)
         /\ [in EXCEPT !.sid = s, !.fresh = f].op = in.op
<1> DEFINE q == [in EXCEPT !.sid = s, !.fresh = f]
<1>1. /\ q \in Request /\ q.pc = in.pc /\ q.op = in.op /\ q.out = in.out /\ q.doomed = in.doomed
      /\ q.pw = in.pw /\ q.key = in.key
  BY DEF Opens, Request
<1> QED BY <1>1 DEF Opens, Running

LEMMA InputOpens ==
  ASSUME NEW op \in Ops, NEW s \in Nat, NEW k \in Nat, NEW p \in Passwords \cup {None},
         NEW c \in Secrets \cup Codes \cup {None}, NEW rs,
         op \in {"register", "changePassword", "reset"} => p \in Passwords,
         op = "revoke" => k \in DOMAIN rs
  PROVE  Opens(Input(op, s, k, p, c), rs) /\ Input(op, s, k, p, c).op = op
<1> DEFINE q == Input(op, s, k, p, c)
<1>1. First(op) \in Labels \ {"verdict", "burn", "end", "done"}
  BY DEF First, Labels
<1>2. PICK f \in BOOLEAN : f = (op \in Authenticated)
  <2>1. (op \in Authenticated) \in BOOLEAN
    OBVIOUS
  <2> QED BY <2>1, Zenon
<1>3. q = [pc |-> First(op), op |-> op, sid |-> s, fresh |-> f, key |-> k, pw |-> p,
           code |-> c, seen |-> None, out |-> "none", cookie |-> "keep", tok |-> 0,
           doomed |-> {}]
  <2>1. q = [Free EXCEPT !.op = op, !.pc = First(op), !.fresh = f, !.sid = s, !.key = k,
                         !.pw = p, !.code = c]
    BY <1>2 DEF Input
  <2> QED BY <2>1, ZenonT(60) DEF Free
<1>4. /\ q \in Request /\ q.pc = First(op) /\ q.op = op /\ q.out = "none" /\ q.doomed = {}
      /\ q.pw = p /\ q.key = k
  <2> HIDE DEF q
  <2> QED BY <1>1, <1>2, <1>3 DEF Request
<1> QED BY <1>1, <1>4 DEF Opens

LEMMA InputsOpen ==
  ASSUME Tables, NEW op \in Ops, NEW in \in Inputs(op)
  PROVE  Opens(in, rows) /\ in.op = op
<1>1. PICK s \in Callers(op), k \in Keys(op), p \in TypedPasswords(op), c \in TypedCodes(op) :
        in = Input(op, s, k, p, c)
  BY DEF Inputs
<1>2. /\ DOMAIN rows \subseteq Nat /\ DOMAIN chal \subseteq Nat /\ DOMAIN mails \subseteq Nat
      /\ Len(rows) \in Nat /\ minted \in Nat
  BY InTable DEF Tables
<1>3. s \in Nat
  BY <1>2 DEF Callers
<1>4. k \in Nat /\ (op = "revoke" => k \in DOMAIN rows)
  BY <1>2 DEF Keys
<1>5. /\ p \in Passwords \cup {None}
      /\ op \in {"register", "changePassword", "reset"} => p \in Passwords
  BY DEF TypedPasswords
<1>6. c \in Secrets \cup Codes \cup {None}
  BY DEF TypedCodes
<1> QED BY <1>1, <1>3, <1>4, <1>5, <1>6, InputOpens

LEMMA RefreshOpens ==
  ASSUME Pages, NEW t \in Tabs, NEW rs
  PROVE  Opens(RefreshRequest(t), rs) /\ RefreshRequest(t).op = "refresh"
<1>1. cookie[JarOf[t]] \in Nat
  BY SlotsAssumption DEF Pages
<1>2. PICK k \in Nat : k = cookie[JarOf[t]]
  BY <1>1
<1>3. Opens(Input("refresh", 0, k, None, None), rs) /\ Input("refresh", 0, k, None, None).op = "refresh"
  BY InputOpens DEF Ops
<1> QED BY <1>2, <1>3 DEF RefreshRequest

\* A page fills and empties slots, or leaves what is in one to the server.
LEMMA Filled ==
  ASSUME ServerInv, UNCHANGED table, req' \in [Reqs -> Request],
         \A o \in Reqs : (\E q \in Reqs : req'[o] = req[q]) \/ Opens(req'[o], rows)
  PROVE  ServerInv'
<1>1. Grows /\ Tables' /\ Links' /\ Challenges' /\ Failures'
  BY Unchanging
<1>2. ASSUME NEW o \in Reqs PROVE Placed(req'[o], rows', fails')
  <2>1. ASSUME NEW q \in Reqs, req'[o] = req[q] PROVE Placed(req'[o], rows', fails')
    BY <1>1, <2>1, StillPlaced DEF ServerInv, Requests
  <2>2. CASE Opens(req'[o], rows)
    BY <1>1, <2>2, StillOpens, OpensPlaced
  <2> QED BY <2>1, <2>2
<1> QED BY <1>1, <1>2 DEF ServerInv, Requests

LEMMA StoredJar ==
  ASSUME Pages, Requests, NEW jar, NEW r \in Reqs
  PROVE  Stored(jar, req[r]) \in [Jars -> Nat]
<1>1. req[r].tok \in Nat
  BY DEF Requests, Request
<1> QED BY <1>1 DEF Stored, Pages

-------------------------------------------------------------------------------
(* The pages.                                                               *)

LEMMA BootstrapStep ==
  ASSUME Inv, NEW t \in Tabs, Bootstrap(t)
  PROVE  Inv'
<1>1. /\ t \in Reqs /\ ServerInv /\ Pages /\ Flights /\ req \in [Reqs -> Request]
      /\ flying \in [Tabs -> BOOLEAN] /\ Tabs \subseteq Reqs /\ TabOf \in [Calls -> Tabs]
  BY SlotsAssumption DEF Inv, ServerInv, Requests, Pages
<1>2. PICK q : q = RefreshRequest(t)
  OBVIOUS
<1>3. Opens(q, rows) /\ q \in Request /\ q.op = "refresh"
  BY <1>1, <1>2, RefreshOpens DEF Opens
<1>4. /\ req' = [req EXCEPT ![t] = q] /\ flying' = [flying EXCEPT ![t] = TRUE]
      /\ UNCHANGED <<table, cookie, access, call>>
  BY <1>2 DEF Bootstrap
<1>5. ServerInv'
  BY <1>1, <1>3, <1>4, Filled
<1>6. Pages'
  BY <1>1, <1>4 DEF Pages, table
<1>7. Flights'
  BY <1>1, <1>3, <1>4 DEF Flights
<1> QED BY <1>5, <1>6, <1>7 DEF Inv

LEMMA SendStep ==
  ASSUME Inv, NEW c \in Calls, Send(c)
  PROVE  Inv'
<1>1. /\ c \in Reqs /\ c \notin Tabs /\ ServerInv /\ Pages /\ Flights /\ req \in [Reqs -> Request]
      /\ Tabs \subseteq Reqs /\ TabOf \in [Calls -> Tabs] /\ CallOps \subseteq Ops
  BY SlotsAssumption DEF Inv, ServerInv, Requests
<1>2. PICK op \in CallOps :
        \E in \in {[i EXCEPT !.sid = 0, !.fresh = FALSE] : i \in Inputs(op)} :
          /\ call' = [call EXCEPT ![c] = [st |-> "sent", in |-> in]]
          /\ req' = [req EXCEPT ![c] = IF op \in Authenticated THEN Signed(in, TabOf[c]) ELSE in]
  BY DEF Send
<1>3. PICK in \in {[i EXCEPT !.sid = 0, !.fresh = FALSE] : i \in Inputs(op)} :
        /\ call' = [call EXCEPT ![c] = [st |-> "sent", in |-> in]]
        /\ req' = [req EXCEPT ![c] = IF op \in Authenticated THEN Signed(in, TabOf[c]) ELSE in]
  BY <1>2
<1>4. PICK sent : sent = IF op \in Authenticated THEN Signed(in, TabOf[c]) ELSE in
  OBVIOUS
<1>5. call' = [call EXCEPT ![c] = [st |-> "sent", in |-> in]] /\ req' = [req EXCEPT ![c] = sent]
  BY <1>3, <1>4
<1>6. Opens(in, rows) /\ in \in Request
  <2>1. PICK i \in Inputs(op) : in = [i EXCEPT !.sid = 0, !.fresh = FALSE]
    OBVIOUS
  <2>2. Opens(i, rows)
    BY <1>1, InputsOpen DEF ServerInv
  <2>3. PICK f \in BOOLEAN : f = FALSE
    OBVIOUS
  <2>4. in = [i EXCEPT !.sid = 0, !.fresh = f]
    BY <2>1, <2>3
  <2>5. Opens(in, rows)
    BY <2>2, <2>4, SignedOpens
  <2> QED BY <2>5 DEF Opens
<1>7. Opens(sent, rows) /\ sent \in Request
  <2>1. access[TabOf[c]].sid \in Nat /\ access[TabOf[c]].fresh \in BOOLEAN
    BY <1>1 DEF Pages
  <2>2. Opens(Signed(in, TabOf[c]), rows)
    BY <1>6, <2>1, SignedOpens DEF Signed
  <2> QED BY <1>4, <1>6, <2>2 DEF Opens
<1>8. UNCHANGED <<table, cookie, access, flying>>
  BY DEF Send
<1>9. ServerInv'
  BY <1>1, <1>5, <1>7, <1>8, Filled
<1>10. Pages'
  BY <1>1, <1>5, <1>6, <1>8 DEF Pages, table
<1>11. Flights'
  BY <1>1, <1>5, <1>8 DEF Flights, Pages
<1> QED BY <1>9, <1>10, <1>11 DEF Inv

LEMMA ElsewhereStep ==
  ASSUME Inv, NEW r \in Outside, Elsewhere(r)
  PROVE  Inv'
<1>1. /\ r \in Reqs /\ r \notin Tabs /\ ServerInv /\ Pages /\ Flights /\ req \in [Reqs -> Request]
      /\ Tabs \subseteq Reqs /\ OutsideOps \subseteq Ops
  BY SlotsAssumption DEF Inv, ServerInv, Requests, Outside
<1>2. PICK op \in OutsideOps : \E in \in Inputs(op) : req' = [req EXCEPT ![r] = in]
  BY DEF Elsewhere, Receive
<1>3. PICK in \in Inputs(op) : req' = [req EXCEPT ![r] = in]
  BY <1>2
<1>4. Opens(in, rows) /\ in \in Request
  BY <1>1, InputsOpen DEF Opens, ServerInv
<1>5. UNCHANGED <<table, cookie, access, flying, call>>
  BY DEF Elsewhere
<1>6. ServerInv'
  BY <1>1, <1>3, <1>4, <1>5, Filled
<1>7. Pages'
  BY <1>1, <1>5 DEF Pages, table
<1>8. Flights'
  BY <1>1, <1>3, <1>5 DEF Flights
<1> QED BY <1>6, <1>7, <1>8 DEF Inv

LEMMA ReplyAuthStep ==
  ASSUME Inv, NEW c \in Calls, ReplyAuth(c)
  PROVE  Inv'
<1>1. /\ c \in Reqs /\ c \notin Tabs /\ ServerInv /\ Pages /\ Flights /\ req \in [Reqs -> Request]
      /\ Requests /\ Tabs \subseteq Reqs /\ TabOf \in [Calls -> Tabs]
  BY SlotsAssumption DEF Inv, ServerInv, Requests
<1>2. PICK t \in Tabs : t = TabOf[c]
  BY <1>1
<1>3. PICK q : q = RefreshRequest(t)
  OBVIOUS
<1>4. Opens(q, rows) /\ q \in Request /\ q.op = "refresh"
  BY <1>1, <1>3, RefreshOpens DEF Opens
<1>5. /\ req' = IF Refreshing(t) THEN [req EXCEPT ![c] = Free]
                ELSE [req EXCEPT ![c] = Free, ![t] = q]
      /\ flying' = [flying EXCEPT ![t] = TRUE] /\ call' = [call EXCEPT ![c].st = "waiting"]
      /\ UNCHANGED <<table, cookie, access>>
  BY <1>2, <1>3 DEF ReplyAuth
<1>6. Opens(Free, rows) /\ Free \in Request
  BY FreeOpens DEF Opens
<1>7. /\ req' \in [Reqs -> Request] /\ \A o \in Reqs : o \notin {c, t} => req'[o] = req[o]
      /\ req'[c] = Free /\ req'[t] = IF flying[t] THEN req[t] ELSE q
  BY <1>1, <1>4, <1>5, <1>6 DEF Refreshing
<1>8. ServerInv'
  BY <1>1, <1>4, <1>5, <1>6, <1>7, Filled
<1>9. Pages'
  <2>2. /\ call' \in [Calls -> [st: {"idle", "sent", "waiting", "resent", "done"}, in: Request]]
        /\ \A d \in Calls : call'[d].in = call[d].in
    BY <1>1, <1>5 DEF Pages
  <2> QED BY <1>1, <1>5, <2>2 DEF Pages, table
<1>10. Flights'
  <2>1. flying'[t] /\ \A x \in Tabs : x # t => flying'[x] = flying[x]
    BY <1>1, <1>5 DEF Pages
  <2>2. \A d \in Calls : d # c => call'[d] = call[d]
    BY <1>1, <1>5 DEF Pages
  <2>3. \A x \in Tabs : flying'[x] => req'[x].op = "refresh"
    BY <1>1, <1>4, <1>7, <2>1 DEF Flights
  <2>4. \A d \in Calls : call'[d].st = "waiting" => flying'[TabOf[d]]
    BY <1>1, <1>2, <2>1, <2>2 DEF Flights
  <2> QED BY <2>3, <2>4 DEF Flights
<1> QED BY <1>8, <1>9, <1>10 DEF Inv

LEMMA ReplyStep ==
  ASSUME Inv, NEW c \in Calls, Reply(c)
  PROVE  Inv'
<1>1. /\ c \in Reqs /\ c \notin Tabs /\ ServerInv /\ Pages /\ Flights /\ req \in [Reqs -> Request]
      /\ Requests /\ Tabs \subseteq Reqs /\ TabOf \in [Calls -> Tabs]
  BY SlotsAssumption DEF Inv, ServerInv, Requests
<1>2. PICK t \in Tabs : t = TabOf[c]
  BY <1>1
<1>3. PICK a : a = TokenAfter(c)
  OBVIOUS
<1>4. /\ req' = [req EXCEPT ![c] = Free] /\ call' = [call EXCEPT ![c].st = "done"]
      /\ access' = [access EXCEPT ![t] = a] /\ UNCHANGED <<table, cookie, flying>>
  BY <1>2, <1>3 DEF Reply
<1>5. Opens(Free, rows) /\ Free \in Request
  BY FreeOpens DEF Opens
<1>6. ServerInv'
  BY <1>1, <1>4, <1>5, Filled
<1>7. /\ call' \in [Calls -> [st: {"idle", "sent", "waiting", "resent", "done"}, in: Request]]
      /\ \A d \in Calls : call'[d].in = call[d].in
      /\ \A d \in Calls : call'[d].st = "waiting" => call[d].st = "waiting"
  BY <1>1, <1>4 DEF Pages
<1>8. Pages'
  <2>2. a \in [sid: Nat, fresh: BOOLEAN]
    <3>1. req[c].sid \in Nat /\ access[t] \in [sid: Nat, fresh: BOOLEAN]
      BY <1>1 DEF Pages, Request
    <3> QED BY <1>2, <1>3, <3>1 DEF TokenAfter, NoAccess
  <2> QED BY <1>1, <1>4, <1>7, <2>2 DEF Pages, table
<1>9. Flights'
  BY <1>1, <1>4, <1>7 DEF Flights
<1> QED BY <1>6, <1>8, <1>9 DEF Inv

\* refreshPromise settles and the tab's slot is emptied; the slots of the calls
\* that waited may be filled.
LEMMA SettleStep ==
  ASSUME Inv, NEW t \in Tabs, NEW token \in [sid: Nat, fresh: BOOLEAN], Settles(t, token),
         UNCHANGED <<cookie, table>>, ServerInv', \A x \in Tabs : x # t => req'[x] = req[x]
  PROVE  Inv'
<1>1. /\ ServerInv /\ Pages /\ Flights /\ TabOf \in [Calls -> Tabs]
  BY SlotsAssumption DEF Inv
<1>2. /\ access' = [access EXCEPT ![t] = token] /\ flying' = [flying EXCEPT ![t] = FALSE]
      /\ call' = [c \in Calls |->
                   IF c \in Waiting(t)
                   THEN [call[c] EXCEPT !.st = IF token = NoAccess THEN "done" ELSE "resent"]
                   ELSE call[c]]
  BY DEF Settles, Landed
<1>3. /\ call' \in [Calls -> [st: {"idle", "sent", "waiting", "resent", "done"}, in: Request]]
      /\ \A d \in Calls : call'[d].in = call[d].in
      /\ \A d \in Calls : call'[d].st = "waiting" => call[d].st = "waiting" /\ TabOf[d] # t
  BY <1>1, <1>2 DEF Pages, Waiting
<1>4. Pages'
  BY <1>1, <1>2, <1>3 DEF Pages, table
<1>5. Flights'
  <2>1. ~flying'[t] /\ \A x \in Tabs : x # t => flying'[x] = flying[x]
    BY <1>1, <1>2 DEF Pages
  <2> QED BY <1>1, <1>3, <2>1 DEF Flights
<1> QED BY <1>4, <1>5 DEF Inv

LEMMA RefreshReplyStep ==
  ASSUME Inv, NEW t \in Tabs, RefreshReply(t)
  PROVE  Inv'
<1>1. /\ t \in Reqs /\ ServerInv /\ Pages /\ Flights /\ req \in [Reqs -> Request] /\ Requests
      /\ Tabs \subseteq Reqs /\ Calls \subseteq Reqs /\ Tabs \cap Calls = {}
      /\ TabOf \in [Calls -> Tabs]
  BY SlotsAssumption DEF Inv, ServerInv, Requests
<1> DEFINE ok == req[t].out = "ok"
           token == IF ok THEN [sid |-> req[t].sid, fresh |-> TRUE] ELSE NoAccess
           Resent(q) == [call[q].in EXCEPT !.sid = token.sid, !.fresh = TRUE]
<1>2. req[t].sid \in Nat
  BY <1>1 DEF Request
<1>3. token \in [sid: Nat, fresh: BOOLEAN]
  BY <1>2 DEF NoAccess
<1>4. /\ Settles(t, token)
      /\ req' = [q \in Reqs |-> CASE q = t -> Free
                                  [] q \in Waiting(t) /\ ok -> Resent(q)
                                  [] OTHER -> req[q]]
      /\ UNCHANGED <<cookie, table>>
  BY DEF RefreshReply
<1> HIDE DEF ok, token
<1>5. Opens(Free, rows) /\ Free \in Request
  BY FreeOpens DEF Opens
<1>6. \A q \in Calls : Opens(Resent(q), rows) /\ Resent(q) \in Request
  <2>1. token.sid \in Nat
    BY <1>3
  <2>2. \A q \in Calls : Opens(call[q].in, rows)
    BY <1>1 DEF Pages
  <2>3. PICK f \in BOOLEAN : f = TRUE
    OBVIOUS
  <2>4. \A q \in Calls : Resent(q) = [call[q].in EXCEPT !.sid = token.sid, !.fresh = f]
    BY <2>3
  <2> HIDE DEF Resent
  <2>5. \A q \in Calls : Opens(Resent(q), rows)
    <3> SUFFICES ASSUME NEW q \in Calls PROVE Opens(Resent(q), rows)
      OBVIOUS
    <3>1. PICK i : i = call[q].in
      OBVIOUS
    <3>2. PICK n \in Nat : n = token.sid
      BY <2>1
    <3>3. Opens(i, rows) /\ Resent(q) = [i EXCEPT !.sid = n, !.fresh = f]
      BY <2>2, <2>4, <3>1, <3>2
    <3>4. Opens([i EXCEPT !.sid = n, !.fresh = f], rows)
      BY <3>3, SignedOpens
    <3> QED BY <3>3, <3>4
  <2> QED BY <2>5 DEF Opens
<1> HIDE DEF Resent
<1>7. /\ req' \in [Reqs -> Request]
      /\ \A o \in Reqs : req'[o] = req[o] \/ Opens(req'[o], rows)
      /\ \A x \in Tabs : x # t => req'[x] = req[x]
  BY <1>1, <1>4, <1>5, <1>6 DEF Waiting
<1>8. ServerInv'
  BY <1>1, <1>4, <1>7, Filled
<1> QED BY <1>3, <1>4, <1>7, <1>8, SettleStep

\* A page gives up on a request: its slot is emptied, the others keep what
\* they have or take over what it had.
LEMMA GivenUp ==
  ASSUME Inv, NEW r \in Tabs \cup Calls, Gone(r) \/ CarriedOn(r), UNCHANGED table
  PROVE  ServerInv' /\ req'[r] = Free /\ \A x \in Tabs \cup Calls : x # r => req'[x] = req[x]
<1>1. /\ ServerInv /\ req \in [Reqs -> Request] /\ r \in Reqs /\ Tabs \cup Calls \subseteq Reqs
      /\ Outside \subseteq Reqs /\ Outside \cap (Tabs \cup Calls) = {}
  BY SlotsAssumption DEF Inv, ServerInv, Requests, Outside
<1>2. Opens(Free, rows) /\ Free \in Request
  BY FreeOpens DEF Opens
<1>3. CASE Gone(r)
  <2>1. req' = [req EXCEPT ![r] = Free]
    BY <1>3 DEF Gone
  <2>2. req' \in [Reqs -> Request] /\ req'[r] = Free /\ \A o \in Reqs : o # r => req'[o] = req[o]
    BY <1>1, <1>2, <2>1
  <2>3. ServerInv'
    BY <1>1, <1>2, <2>2, Filled
  <2> QED BY <1>1, <2>2, <2>3
<1>4. CASE CarriedOn(r)
  <2>1. PICK o \in Outside : req' = [req EXCEPT ![o] = req[r], ![r] = Free]
    BY <1>4 DEF CarriedOn
  <2>2. /\ req' \in [Reqs -> Request] /\ req'[r] = Free /\ req'[o] = req[r] /\ o \in Reqs
        /\ \A q \in Reqs \ {o, r} : req'[q] = req[q]
    BY <1>1, <1>2, <2>1
  <2>3. ServerInv'
    BY <1>1, <1>2, <2>2, Filled
  <2> QED BY <1>1, <2>2, <2>3
<1> QED BY <1>3, <1>4

LEMMA RefreshFailsStep ==
  ASSUME Inv, NEW t \in Tabs, RefreshFails(t)
  PROVE  Inv'
<1>1. Settles(t, NoAccess) /\ UNCHANGED <<cookie, table>> /\ (Gone(t) \/ CarriedOn(t))
  BY DEF RefreshFails
<1>2. ServerInv' /\ \A x \in Tabs : x # t => req'[x] = req[x]
  BY <1>1, GivenUp
<1>3. NoAccess \in [sid: Nat, fresh: BOOLEAN]
  BY DEF NoAccess
<1> QED BY <1>1, <1>2, <1>3, SettleStep

LEMMA CallFailsStep ==
  ASSUME Inv, NEW c \in Calls, CallFails(c)
  PROVE  Inv'
<1>1. /\ c \notin Tabs /\ ServerInv /\ Pages /\ Flights /\ TabOf \in [Calls -> Tabs]
  BY SlotsAssumption DEF Inv
<1>2. /\ Gone(c) \/ CarriedOn(c)
      /\ call' = [call EXCEPT ![c].st = "done"] /\ UNCHANGED <<table, cookie, flying>>
      /\ access' = access \/ access' = [access EXCEPT ![TabOf[c]] = NoAccess]
  BY DEF CallFails
<1>3. ServerInv' /\ \A x \in Tabs : req'[x] = req[x]
  BY <1>1, <1>2, GivenUp
<1>4. /\ call' \in [Calls -> [st: {"idle", "sent", "waiting", "resent", "done"}, in: Request]]
      /\ \A d \in Calls : call'[d].in = call[d].in
      /\ \A d \in Calls : call'[d].st = "waiting" => call[d].st = "waiting"
  BY <1>1, <1>2 DEF Pages
<1>5. access' \in [Tabs -> [sid: Nat, fresh: BOOLEAN]]
  <2>1. NoAccess \in [sid: Nat, fresh: BOOLEAN]
    BY DEF NoAccess
  <2>2. access \in [Tabs -> [sid: Nat, fresh: BOOLEAN]]
    BY <1>1 DEF Pages
  <2>3. \A S : access \in [Tabs -> S] /\ NoAccess \in S =>
                (access' = access \/ access' = [access EXCEPT ![TabOf[c]] = NoAccess]
                  => access' \in [Tabs -> S])
    OBVIOUS
  <2> QED BY <1>2, <2>1, <2>2, <2>3
<1>6. Pages'
  BY <1>1, <1>2, <1>4, <1>5 DEF Pages, table
<1>7. Flights'
  BY <1>1, <1>2, <1>3, <1>4 DEF Flights
<1> QED BY <1>3, <1>6, <1>7 DEF Inv

LEMMA ReloadStep ==
  ASSUME Inv, NEW t \in Tabs, Reload(t)
  PROVE  Inv'
<1>1. UNCHANGED <<vars, cookie, flying, call>> /\ access' = [access EXCEPT ![t] = NoAccess]
  BY DEF Reload
<1>2. access' \in [Tabs -> [sid: Nat, fresh: BOOLEAN]]
  BY <1>1 DEF Inv, Pages, NoAccess
<1> QED BY <1>1, <1>2
     DEF Inv, vars, ServerInv, Tables, Links, Challenges, Failures, Requests, Pages, Flights

\* The cookie is stored: the request itself is as it was.
LEMMA HeadersStep ==
  ASSUME Inv, NEW r \in Tabs \cup Calls, Headers(r)
  PROVE  Inv'
<1>1. /\ r \in Reqs /\ Pages /\ Flights /\ ServerInv /\ Requests /\ Tabs \subseteq Reqs
      /\ req \in [Reqs -> Request] /\ Placed(req[r], rows, fails)
  BY SlotsAssumption DEF Inv, ServerInv, Requests
<1>2. /\ cookie' = Stored(JarOf[TabFor(r)], req[r]) /\ UNCHANGED <<table, access, flying, call>>
      /\ req' = [req EXCEPT ![r].cookie = "stored"]
  BY DEF Headers
<1> DEFINE q == [req[r] EXCEPT !.cookie = "stored"]
<1>3. /\ q \in Request /\ q.pc = req[r].pc /\ q.op = req[r].op /\ q.pw = req[r].pw
      /\ q.key = req[r].key /\ q.sid = req[r].sid /\ q.out = req[r].out
      /\ q.doomed = req[r].doomed /\ q.seen = req[r].seen
  BY <1>1 DEF Request
<1>4. req' = [req EXCEPT ![r] = q]
  BY <1>1, <1>2
<1>5. Grows /\ Tables' /\ Links' /\ Challenges' /\ Failures'
  BY <1>1, <1>2, Unchanging
<1>6. Placed(req[r], rows', fails')
  BY <1>1, <1>5, StillPlaced
<1>7. Placed(q, rows', fails')
  BY <1>3, <1>6 DEF Placed, Running, EndsAll, KeepsOwn
<1> HIDE DEF q
<1>8. Moved(r)
  BY <1>1, <1>3, <1>4, <1>7 DEF Moved
<1>9. ServerInv'
  BY <1>1, <1>5, <1>8, Moves DEF ServerInv
<1>10. Pages'
  BY <1>1, <1>2, StoredJar DEF Pages, table
<1>11. Flights'
  BY <1>1, <1>2, <1>8 DEF Flights, Moved
<1> QED BY <1>9, <1>10, <1>11 DEF Inv

-------------------------------------------------------------------------------
(* The theorems.                                                            *)

LEMMA InitInv == Init => Inv
<1> SUFFICES ASSUME Init PROVE Inv
  OBVIOUS
<1>1. Opens(Free, rows) /\ Free \in Request /\ Placed(Free, rows, fails)
  BY FreeOpens, OpensPlaced
<1>2. user \in User /\ Failures /\ fails \in Nat
  <2>1. PICK p \in Passwords, k \in Secrets :
          user \in {Absent(p),
                   [Absent(p) EXCEPT !.exists = TRUE],
                   [Absent(p) EXCEPT !.exists = TRUE, !.verified = TRUE, !.tfa = TRUE,
                                     !.secret = k, !.codes = Codes]}
    BY DEF Init
  <2>2. PICK absent : absent = Absent(p)
    OBVIOUS
  <2>3. absent \in User /\ absent.attempts = 0 /\ absent.until = "null"
    BY <2>2 DEF Absent, User
  <2>4. PICK known : known = [absent EXCEPT !.exists = TRUE]
    OBVIOUS
  <2>5. known \in User /\ known.attempts = 0 /\ known.until = "null"
    BY <2>3, <2>4 DEF User
  <2>6. PICK guarded : guarded = [absent EXCEPT !.exists = TRUE, !.verified = TRUE, !.tfa = TRUE,
                                                !.secret = k, !.codes = Codes]
    OBVIOUS
  <2>7. guarded \in User /\ guarded.attempts = 0 /\ guarded.until = "null"
    BY <2>3, <2>6 DEF User
  <2>8. user \in {absent, known, guarded}
    BY <2>1, <2>2, <2>4, <2>6
  <2>9. user \in User /\ user.attempts = 0 /\ user.until = "null"
    BY <2>3, <2>5, <2>7, <2>8
  <2> QED BY <2>9 DEF Init, Failures
<1>3. rows \in Seq(AuthSession) /\ minted \in Nat /\ cookie \in [Jars -> Nat]
  <2>1. PICK a, b : a = Row(1) /\ b = [Row(3) EXCEPT !.prev = 2]
    OBVIOUS
  <2>2. a \in AuthSession /\ b \in AuthSession
    BY <2>1 DEF Row, AuthSession
  <2>3. rows \in {<<>>, <<a, b>>} /\ minted \in {0, 3}
    BY <2>1 DEF Init
  <2>4. <<>> \in Seq(AuthSession) /\ <<a, b>> \in Seq(AuthSession)
    BY <2>2
  <2>5. cookie \in [Jars -> Nat]
    BY DEF Init
  <2>6. rows \in Seq(AuthSession)
    BY <2>3, <2>4
  <2> QED BY <2>3, <2>5, <2>6
<1>4. mails \in Seq(Mail) /\ chal \in Seq(BOOLEAN)
  <2>1. PICK a, b : a = [type |-> "password_reset", used |-> FALSE] /\ b = TRUE
    OBVIOUS
  <2>2. a \in Mail /\ b \in BOOLEAN
    BY <2>1 DEF Mail
  <2>3. mails \in {<<>>, <<a>>}
    BY <2>1 DEF Init
  <2>4. chal \in {<<>>, <<b>>}
    BY <2>1 DEF Init
  <2>5. <<>> \in Seq(Mail) /\ <<a>> \in Seq(Mail) /\ <<>> \in Seq(BOOLEAN) /\ <<b>> \in Seq(BOOLEAN)
    BY <2>2
  <2> QED BY <2>3, <2>4, <2>5
<1>5. /\ spent.mail = [m \in DOMAIN mails |-> 0] /\ spent.chal = [c \in DOMAIN chal |-> 0]
      /\ spent = [mail |-> spent.mail, chal |-> spent.chal]
  BY DEF Init
<1>6. spent.mail \in Seq(Nat) /\ spent.chal \in Seq(Nat)
  <2>1. ASSUME NEW S, NEW s \in Seq(S) PROVE [i \in DOMAIN s |-> 0] \in Seq(Nat)
    BY InTable, SeqDef
  <2> QED BY <1>4, <1>5, <2>1
<1>7. Tables /\ Links /\ Challenges
  BY <1>2, <1>3, <1>4, <1>5, <1>6 DEF Tables, Links, Challenges
<1>8. Requests
  BY <1>1 DEF Requests, Init
<1>9. Pages /\ Flights
  BY <1>1, <1>3, SlotsAssumption DEF Pages, Flights, Init, NoAccess
<1> QED BY <1>2, <1>7, <1>8, <1>9 DEF Inv, ServerInv

LEMMA NextInv == Inv /\ [Next]_bvars => Inv'
<1> SUFFICES ASSUME Inv, [Next]_bvars PROVE Inv'
  OBVIOUS
<1>1. ServerInv /\ Pages /\ Flights /\ Tabs \subseteq Reqs
  BY SlotsAssumption DEF Inv
<1>2. ASSUME NEW r \in Reqs, Server(r) PROVE Inv'
  <2>1. ServerInv' /\ Grows /\ Moved(r) /\ UNCHANGED <<cookie, access, flying, call>>
    BY <1>1, <1>2, ServerStep DEF Server, pages
  <2>2. Pages'
    BY <1>1, <2>1, StillOpens DEF Pages
  <2>3. Flights'
    BY <1>1, <2>1 DEF Flights, Moved
  <2> QED BY <2>1, <2>2, <2>3 DEF Inv
<1>3. ASSUME NEW t \in Tabs, Page(t) PROVE Inv'
  BY <1>3, BootstrapStep, RefreshReplyStep, RefreshFailsStep, ReloadStep, ReplyAuthStep,
     ReplyStep, CallFailsStep DEF Page
<1>4. ASSUME NEW t \in Tabs, AccessLapses(t) PROVE Inv'
  <2>1. access' \in [Tabs -> [sid: Nat, fresh: BOOLEAN]]
    BY <1>1, <1>4 DEF AccessLapses, Pages
  <2>2. UNCHANGED <<vars, cookie, flying, call>>
    BY <1>4 DEF AccessLapses
  <2> QED BY <1>1, <2>1, <2>2
       DEF Inv, vars, ServerInv, Tables, Links, Challenges, Failures, Requests, Pages, Flights
<1>5. ASSUME Lapse, UNCHANGED pages PROVE Inv'
  <2>1. ServerInv' /\ Grows /\ UNCHANGED req /\ UNCHANGED <<cookie, access, flying, call>>
    BY <1>1, <1>5, LapseStep DEF pages
  <2>2. Pages'
    BY <1>1, <2>1, StillOpens DEF Pages
  <2>3. Flights'
    BY <1>1, <2>1 DEF Flights
  <2> QED BY <2>1, <2>2, <2>3 DEF Inv
<1>6. CASE UNCHANGED bvars
  BY <1>6 DEF bvars, vars, pages, Inv, ServerInv, Tables, Links, Challenges, Failures, Requests,
              Pages, Flights
<1> QED BY <1>2, <1>3, <1>4, <1>5, <1>6, SendStep, ElsewhereStep, HeadersStep DEF Next

LEMMA Invariant == Spec => []Inv
BY InitInv, NextInv, PTL DEF Spec

\* The account's tables and the requests keep their types: no handler writes
\* back a row it has not read, nor a password it was not given.
THEOREM TypeCorrect == Spec => []TypeOK
<1>1. Inv => TypeOK
  BY DEF Inv, ServerInv, Tables, Requests, TypeOK
<1> QED BY <1>1, Invariant, PTL

\* consumeVerificationToken: of all the requests that carry a mailed link at
\* most one redeems it, however their statements interleave.
THEOREM LinkOnce == Spec => []LinkRedeemedOnce
<1>1. Inv => LinkRedeemedOnce
  BY DEF Inv, ServerInv, Links, LinkRedeemedOnce
<1> QED BY <1>1, Invariant, PTL

\* consumeTwoFactorChallenge: a challenge is answered at most once.
THEOREM ChallengeOnce == Spec => []ChallengeAnsweredOnce
<1>1. Inv => ChallengeAnsweredOnce
  BY DEF Inv, ServerInv, Challenges, ChallengeAnsweredOnce
<1> QED BY <1>1, Invariant, PTL

\* authenticateCredentials: parallel failures may be lost from the counter,
\* but a lockout never comes of fewer than MaxAttempts of them.
THEOREM LockEarned == Spec => []LockNeedsFailures
<1>1. Inv => LockNeedsFailures
  BY DEF Inv, ServerInv, Failures, LockNeedsFailures
<1> QED BY <1>1, Invariant, PTL

\* revokeAuthSession and revokeAllSessions: a session that a sign-out ended is
\* not brought back by a refresh that had already found it.
THEOREM SignOutHolds == Spec => []SignOutSticks
<1>1. Inv => SignOutSticks
  BY DEF Inv, ServerInv, Requests, Placed, SignOutSticks, Live
<1> QED BY <1>1, Invariant, PTL

\* refreshAccessToken: a call that waits for a refresh waits for its tab's.
THEOREM WaiterServed == Spec => []WaiterHasRefresh
<1>1. Inv => WaiterHasRefresh
  BY SlotsAssumption DEF Inv, Flights, WaiterHasRefresh
<1> QED BY <1>1, Invariant, PTL
================================================================================
