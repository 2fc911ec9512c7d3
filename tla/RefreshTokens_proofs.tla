-------------------------- MODULE RefreshTokens_proofs --------------------------
(***************************************************************************)
(* Theorems about the refresh tokens of Browser: which session a token     *)
(* renews and who holds it, for any number of browsers with a tab each,    *)
(* of calls and of requests from elsewhere.                                *)
(***************************************************************************)
EXTENDS Browser_proofs

\* Tabs of one browser share the cookie and not the refresh in flight: that
\* two of them retire each other's token is what run tabs_refresh shows.
OneTabEach == \A t, u \in Tabs : JarOf[t] = JarOf[u] => t = u

Own == Tabs \cup Calls

\* A refresh that is not decided yet presents its key; a request that is
\* granted a token carries it back, until its cookie is stored.
Asks(r) == req[r].op = "refresh" /\ Running(req[r])
Asked(r) == IF Asks(r) THEN req[r].key ELSE 0
Granted(r) == IF req[r].cookie = "set" THEN req[r].tok ELSE 0

-------------------------------------------------------------------------------
(* The invariant.                                                           *)

\* No token renews two sessions.
RowTokens ==
  /\ other \in Nat /\ (other # 0 => other \in DOMAIN rows /\ rows[other].prev # 0)
  /\ \A s \in DOMAIN rows : rows[s].token \in 1 .. minted /\ rows[s].prev \in 0 .. minted
  /\ \A s, u \in DOMAIN rows : s # u =>
       /\ rows[s].token # rows[u].token /\ rows[s].token # rows[u].prev
       /\ rows[s].prev # 0 => rows[s].prev # rows[u].prev

Shape(q) ==
  /\ q.cookie = "set" => q.tok # 0
  /\ q.tok # 0 => q.pc = "done" /\ q.out = "ok"
  /\ q.op = "refresh" /\ Running(q) => /\ q.pc \in {"current", "previous", "rotate", "reuse"}
                                       /\ q.pc # "current" => q.key # 0
Unsent(in) == in.tok = 0 /\ in.cookie = "keep" /\ (in.pc # "free" => in.op \in CallOps)
Shapes ==
  /\ \A r \in Reqs : Shape(req[r])
  /\ \A c \in Calls : Unsent(call[c].in) /\ (req[c].pc # "free" => req[c].op \in CallOps)
  /\ \A t \in Tabs : ~flying[t] => req[t] = Free

\* The tokens that the pages hold, and those of the other browser.
Known == {cookie[j] : j \in Jars} \cup {Asked(t) : t \in Tabs} \cup {Granted(r) : r \in Own}

Held == \A k \in Known \ {0} : k <= minted /\ k \notin OtherTokens

Elsewheres ==
  \A o \in Outside : Asks(o) =>
    /\ req[o].key \in 1 .. minted /\ other # 0 /\ req[o].key \notin Known
    /\ \A s \in DOMAIN rows \ {other} : req[o].key # rows[s].token /\ req[o].key # rows[s].prev
    /\ req[o].pc \in {"rotate", "reuse"} => req[o].sid = other

\* A token is held once: in a jar or on its way there, or in the jar it was
\* read from and in the refresh that presents it.
Exclusive ==
  /\ \A i, j \in Jars : cookie[i] = cookie[j] /\ cookie[i] # 0 => i = j
  /\ \A t \in Tabs : Asked(t) # 0 =>
       /\ \A j \in Jars : cookie[j] = Asked(t) => j = JarOf[t]
       /\ \A u \in Tabs : Asked(u) = Asked(t) => u = t
       /\ \A r \in Own : Granted(r) # Asked(t)
  /\ \A r \in Own : Granted(r) # 0 =>
       /\ \A j \in Jars : cookie[j] # Granted(r)
       /\ \A q \in Own : Granted(q) = Granted(r) => q = r

\* A token that was retired stays only in the jar of the tab that had it
\* retired, until that tab's answer replaces it.
Retired ==
  \A s \in DOMAIN rows \ {other} : rows[s].prev # 0 =>
    /\ \A r \in Own : Granted(r) # rows[s].prev
    /\ \A t \in Tabs : Asked(t) # rows[s].prev
    /\ \A j \in Jars : cookie[j] = rows[s].prev => \E t \in Tabs : JarOf[t] = j /\ Granted(t) # 0

\* What was found, and what was granted, stays the session's token.
Current ==
  /\ \A t \in Tabs : Asks(t) =>
       /\ req[t].pc # "reuse"
       /\ req[t].pc = "rotate" => /\ req[t].sid \in DOMAIN rows /\ req[t].sid # other
                                  /\ rows[req[t].sid].token = req[t].key
  /\ \A r \in Own : Granted(r) # 0 =>
       /\ req[r].sid \in DOMAIN rows /\ rows[req[r].sid].token = Granted(r)

ReuseElsewhere == \A s \in DOMAIN rows : rows[s].reason = "reuse" => s = other

\* What a jar holds renews a session, unless its successor is on its way.
Holding ==
  \A j \in Jars : cookie[j] # 0 =>
    \/ \E s \in DOMAIN rows \ {other} : rows[s].token = cookie[j]
    \/ \E t \in Tabs : JarOf[t] = j /\ Granted(t) # 0

TokensInv ==
  /\ RowTokens /\ Shapes /\ Elsewheres /\ Held /\ Exclusive /\ Retired /\ Current
  /\ ReuseElsewhere /\ Holding

-------------------------------------------------------------------------------
(* What most steps leave.                                                   *)

\* Sessions may end and lapse.
SameTokens ==
  /\ DOMAIN rows' = DOMAIN rows /\ minted' = minted /\ other' = other
  /\ \A s \in DOMAIN rows : rows'[s].token = rows[s].token /\ rows'[s].prev = rows[s].prev

\* Nothing new is held, and no grant is taken from a tab.
NothingNew ==
  /\ \A j \in Jars : cookie'[j] = cookie[j] \/ cookie'[j] = 0
  /\ \A t \in Tabs : Asked(t)' = Asked(t) \/ Asked(t)' = 0
  /\ \A r \in Own : Granted(r)' = Granted(r) \/ (r \notin Tabs /\ Granted(r)' = 0)

LEMMA Numbers ==
  ASSUME Inv
  PROVE  /\ minted \in Nat /\ Own \subseteq Reqs /\ Tabs \subseteq Own /\ Calls \subseteq Own
         /\ Tabs \cap Calls = {} /\ Outside \cap Own = {} /\ Outside \subseteq Reqs
         /\ Reqs = Own \cup Outside
         /\ \A t \in Tabs : JarOf[t] \in Jars /\ Asked(t) \in Nat
         /\ \A j \in Jars : cookie[j] \in Nat
         /\ \A r \in Reqs : Granted(r) \in Nat /\ req[r] \in Request
         /\ \A s \in DOMAIN rows : rows[s].token \in Nat /\ rows[s].prev \in Nat
<1>1. Tables /\ Requests /\ Pages
  BY DEF Inv, ServerInv
<1>2. \A r \in Reqs : req[r] \in Request /\ req[r].key \in Nat /\ req[r].tok \in Nat
  BY <1>1 DEF Requests, Request
<1>3. \A s \in DOMAIN rows : rows[s].token \in Nat /\ rows[s].prev \in Nat
  <2>1. \A s \in DOMAIN rows : rows[s] \in AuthSession
    BY <1>1, InTable DEF Tables
  <2> QED BY <2>1 DEF AuthSession
<1> QED BY <1>1, <1>2, <1>3, SlotsAssumption DEF Tables, Pages, Own, Outside, Asked, Granted

LEMMA KnownIs ==
  ASSUME NEW k
  PROVE  k \in Known <=> \/ \E j \in Jars : cookie[j] = k
                         \/ \E t \in Tabs : Asked(t) = k
                         \/ \E r \in Own : Granted(r) = k
BY DEF Known

LEMMA SameRows ==
  ASSUME Inv, RowTokens, SameTokens
  PROVE  RowTokens' /\ OtherTokens' = OtherTokens
<1>1. RowTokens'
  BY Numbers DEF RowTokens, SameTokens
<1>2. OtherTokens' = OtherTokens
  BY DEF OtherTokens, SameTokens, RowTokens
<1> QED BY <1>1, <1>2

LEMMA Kept ==
  ASSUME Inv, TokensInv, SameTokens, NothingNew
  PROVE  /\ RowTokens' /\ Held' /\ Exclusive' /\ Retired' /\ Holding'
         /\ Known' \subseteq Known \cup {0}
<1>1. /\ RowTokens' /\ OtherTokens' = OtherTokens /\ minted' = minted /\ other' = other
      /\ DOMAIN rows' = DOMAIN rows /\ \A s \in DOMAIN rows : rows'[s].prev = rows[s].prev
  BY SameRows DEF TokensInv, SameTokens
<1>2. RowTokens /\ Held /\ Exclusive /\ Retired /\ Tabs \subseteq Own
  BY Numbers DEF TokensInv
<1>3. Known' \subseteq Known \cup {0}
  BY DEF Known, NothingNew
<1>4. Held'
  BY <1>1, <1>2, <1>3 DEF Held
<1>5. Exclusive'
  <2>1. \A i, j \in Jars : cookie'[i] = cookie'[j] /\ cookie'[i] # 0 => i = j
    BY <1>2 DEF Exclusive, NothingNew
  <2>2. ASSUME NEW t \in Tabs, Asked(t)' # 0
        PROVE  /\ \A j \in Jars : cookie'[j] = Asked(t)' => j = JarOf[t]
               /\ \A u \in Tabs : Asked(u)' = Asked(t)' => u = t
               /\ \A r \in Own : Granted(r)' # Asked(t)'
    BY <1>2, <2>2 DEF Exclusive, NothingNew
  <2>3. ASSUME NEW r \in Own, Granted(r)' # 0
        PROVE  /\ \A j \in Jars : cookie'[j] # Granted(r)'
               /\ \A q \in Own : Granted(q)' = Granted(r)' => q = r
    BY <1>2, <2>3 DEF Exclusive, NothingNew
  <2> QED BY <2>1, <2>2, <2>3 DEF Exclusive
<1>6. Retired'
  <2> SUFFICES ASSUME NEW s \in DOMAIN rows \ {other}, rows[s].prev # 0
               PROVE  /\ \A r \in Own : Granted(r)' # rows[s].prev
                      /\ \A t \in Tabs : Asked(t)' # rows[s].prev
                      /\ \A j \in Jars : cookie'[j] = rows[s].prev =>
                           \E t \in Tabs : JarOf[t] = j /\ Granted(t)' # 0
    BY <1>1 DEF Retired
  <2> QED BY <1>2 DEF Retired, NothingNew
<1>7. Holding'
  <2> SUFFICES ASSUME NEW j \in Jars, cookie'[j] # 0
               PROVE  \/ \E s \in DOMAIN rows' \ {other'} : rows'[s].token = cookie'[j]
                      \/ \E t \in Tabs : JarOf[t] = j /\ Granted(t)' # 0
    BY DEF Holding
  <2>1. cookie'[j] = cookie[j]
    BY DEF NothingNew
  <2>2. CASE \E s \in DOMAIN rows \ {other} : rows[s].token = cookie[j]
    BY <2>1, <2>2 DEF SameTokens
  <2>3. CASE \E t \in Tabs : JarOf[t] = j /\ Granted(t) # 0
    BY <1>2, <2>3 DEF NothingNew
  <2> QED BY <2>1, <2>2, <2>3 DEF TokensInv, Holding
<1> QED BY <1>1, <1>3, <1>4, <1>5, <1>6, <1>7

-------------------------------------------------------------------------------
(* Requests that are no refresh.                                            *)

\* The request goes on or is answered; a cookie is set only with a new token.
Turned(r) ==
  /\ \A o \in Reqs : o # r => req'[o] = req[o]
  /\ req'[r].op = req[r].op /\ req'[r].key = req[r].key /\ req'[r].tok = req[r].tok
  /\ req'[r].cookie \in {req[r].cookie, "keep", "clear"}

\* Sessions end, none for reuse.
Ends == SameTokens /\ \A s \in DOMAIN rows : rows'[s].reason = "reuse" => rows[s].reason = "reuse"

LEMMA Turns ==
  ASSUME Inv, NEW r \in Reqs,
         \/ \E pc : Goto(r, pc) \/ See(r, pc)
         \/ \E out : Answer(r, out, "keep") \/ Answer(r, out, "clear")
  PROVE  Turned(r)
<1>1. req \in [Reqs -> Request]
  BY DEF Inv, ServerInv, Requests
<1>2. ASSUME NEW pc, Goto(r, pc) \/ See(r, pc) PROVE Turned(r)
  BY <1>1, <1>2 DEF Goto, See, Turned, Request
<1>3. ASSUME NEW out, NEW c \in {"keep", "clear"}, Answer(r, out, c)
      PROVE  Turned(r)
  <2> DEFINE q == [req[r] EXCEPT !.pc = "done", !.out = out, !.cookie = c, !.seen = None]
  <2>1. req' = [req EXCEPT ![r] = q]
    BY <1>1, <1>3 DEF Answer
  <2>2. q.op = req[r].op /\ q.key = req[r].key /\ q.tok = req[r].tok /\ q.cookie = c
    BY <1>1 DEF Request
  <2> HIDE DEF q
  <2> QED BY <1>1, <1>3, <2>1, <2>2 DEF Turned
<1> QED BY <1>2, <1>3

LEMMA EndsSome ==
  ASSUME Inv, NEW r \in Reqs, EndSession(r) \/ EndAllSessions(r), other' = other
  PROVE  Ends /\ Turned(r) /\ Running(req[r]) /\ req[r].op # "refresh"
<1>1. /\ req \in [Reqs -> Request] /\ rows \in Seq(AuthSession)
      /\ \A s \in DOMAIN rows : rows[s] \in AuthSession
  BY InTable DEF Inv, ServerInv, Requests, Tables
<1>2. CASE EndSession(r)
  <2> DEFINE s == IF req[r].op = "logout" THEN req[r].sid ELSE req[r].key
  <2>1. /\ rows' = Ended(s) /\ minted' = minted /\ req[r].op \in {"logout", "revoke"}
        /\ req[r].pc = "end"
        /\ req' = [req EXCEPT ![r].pc = "done", ![r].out = "ok", ![r].doomed = {s},
                              ![r].cookie = IF s = req[r].sid THEN "clear" ELSE "keep"]
    BY <1>2 DEF EndSession, At
  <2>2. s \in LiveSessions => s \in DOMAIN rows
    BY DEF LiveSessions
  <2> HIDE DEF s
  <2>3. Ends
    BY <1>1, <2>1, <2>2 DEF Ends, SameTokens, Ended, AuthSession
  <2>4. Turned(r)
    BY <1>1, <2>1 DEF Turned, Request
  <2> QED BY <2>1, <2>3, <2>4 DEF Running
<1>3. CASE EndAllSessions(r)
  <2>1. /\ req[r].op \in {"logoutAll", "reset", "changePassword"} /\ req[r].pc = "endAll"
        /\ minted' = minted
        /\ rows' = [s \in DOMAIN rows |->
                      IF s \in EndedBy(r) THEN [rows[s] EXCEPT !.reason = "ended"] ELSE rows[s]]
        /\ Answer(r, "ok", IF req[r].op = "changePassword" THEN "keep" ELSE "clear")
    BY <1>3 DEF EndAllSessions, At
  <2>2. Ends
    BY <1>1, <2>1 DEF Ends, SameTokens, AuthSession
  <2>3. Turned(r)
    BY <2>1, Turns
  <2> QED BY <2>1, <2>2, <2>3 DEF Running
<1> QED BY <1>2, <1>3

\* What neither signs in nor renews leaves the tokens alone.
LEMMA Plainly ==
  ASSUME Inv, NEW r \in Reqs, Step(r), other' = other,
         ~IssueSession(r), ~FindCurrent(r), ~FindPrevious(r), ~RevokeReused(r), ~Rotate(r)
  PROVE  Ends /\ Turned(r) /\ Running(req[r]) /\ req[r].op # "refresh"
<1>1. req \in [Reqs -> Request]
  BY DEF Inv, ServerInv, Requests
<1>2. ASSUME UNCHANGED <<rows, minted>> PROVE Ends
  BY <1>2 DEF Ends, SameTokens
<1>3. CASE EndSession(r) \/ EndAllSessions(r)
  BY <1>3, EndsSome
<1>4. CASE Authenticate(r)
  <2>1. Turned(r)
    BY <1>1, <1>4, Turns DEF Authenticate, Turned, Request
  <2> QED BY <1>2, <1>4, <2>1 DEF Authenticate, At, Authenticated, Running, table
<1>5. CASE Claim(r)
  <2>1. Turned(r)
    BY <1>1, <1>5, Turns DEF Claim, Turned, Request
  <2> QED BY <1>2, <1>5, <2>1 DEF Claim, At, Running
<1>6. CASE \/ Register(r) \/ SelectCredentials(r) \/ ChallengeUser(r) \/ Forgot(r) \/ Resend(r)
           \/ Redeem(r) \/ CheckPassword(r) \/ CheckSetup(r) \/ CheckEnable(r) \/ CheckDisable(r)
  <2>1. Turned(r)
    BY <1>6, Turns
       DEF Register, SelectCredentials, ChallengeUser, Forgot, Resend, Redeem, CheckPassword,
           CheckSetup, CheckEnable, CheckDisable, TwoFactor
  <2> QED BY <1>2, <1>6, <2>1
       DEF Register, SelectCredentials, ChallengeUser, Forgot, Resend, Redeem, CheckPassword,
           CheckSetup, CheckEnable, CheckDisable, TwoFactor, At, Running, table
<1>7. CASE \/ InsertUser(r) \/ WrongPassword(r) \/ RightPassword(r) \/ SecondFactor(r)
           \/ ConsumeChallenge(r) \/ BurnCode(r) \/ RetireLinks(r) \/ SendLink(r)
           \/ VerifyEmail(r) \/ WritePassword(r) \/ WriteSecret(r) \/ WriteEnabled(r)
           \/ WriteDisabled(r)
  <2>1. Turned(r)
    BY <1>7, Turns
       DEF InsertUser, WrongPassword, RightPassword, SecondFactor, ConsumeChallenge, BurnCode,
           RetireLinks, SendLink, VerifyEmail, WritePassword, WriteSecret, WriteEnabled,
           WriteDisabled, WroteTwoFactor
  <2> QED BY <1>2, <1>7, <2>1
       DEF InsertUser, WrongPassword, RightPassword, SecondFactor, ConsumeChallenge, BurnCode,
           RetireLinks, SendLink, VerifyEmail, WritePassword, WriteSecret, WriteEnabled,
           WriteDisabled, WroteTwoFactor, At, Running
<1> QED BY <1>3, <1>4, <1>5, <1>6, <1>7 DEF Step

-------------------------------------------------------------------------------
(* A request goes on.                                                       *)

\* What a refresh may find before it is decided.
Looks(r) ==
  \/ req'[r].pc = "done" /\ req'[r].out # "ok"
  \/ req[r].key # 0 /\ req'[r].pc = "previous"
  \/ /\ req[r].key # 0 /\ req'[r].pc = "rotate"
     /\ req'[r].sid \in DOMAIN rows /\ rows[req'[r].sid].token = req[r].key
  \/ /\ req[r].key # 0 /\ req'[r].pc = "reuse"
     /\ req'[r].sid \in DOMAIN rows /\ rows[req'[r].sid].prev = req[r].key

\* The slot of a tab holds its refresh, those of calls never hold one.
LEMMA SlotOps ==
  ASSUME Inv, Shapes, NEW r \in Reqs, Running(req[r])
  PROVE  /\ r \in Tabs => req[r].op = "refresh" /\ flying[r]
         /\ r \in Calls => req[r].op \in CallOps
         /\ req[r].tok = 0 /\ req[r].cookie # "set"
<1>1. Shape(req[r]) /\ req[r].pc # "free" /\ req[r].pc # "done"
  BY DEF Shapes, Running
<1>2. r \in Tabs => req[r].op = "refresh" /\ flying[r]
  BY <1>1 DEF Inv, Flights, Shapes, Free
<1> QED BY <1>1, <1>2 DEF Shape, Shapes

LEMMA Turning ==
  ASSUME Inv, TokensInv, SameTokens, ReuseElsewhere',
         UNCHANGED <<cookie, access, flying, call>>,
         NEW r \in Reqs, Turned(r), Running(req[r]),
         req[r].op = "refresh" => Looks(r)
  PROVE  TokensInv'
<1>1. /\ RowTokens /\ Shapes /\ Elsewheres /\ Held /\ Retired /\ Current
      /\ DOMAIN rows' = DOMAIN rows /\ minted' = minted /\ other' = other
      /\ \A s \in DOMAIN rows : rows'[s].token = rows[s].token /\ rows'[s].prev = rows[s].prev
  BY DEF TokensInv, SameTokens
<1>2. /\ req[r].tok = 0 /\ req'[r].tok = 0 /\ req[r].cookie # "set" /\ req'[r].cookie # "set"
      /\ req'[r].op = req[r].op /\ req'[r].key = req[r].key
      /\ \A o \in Reqs : o # r => req'[o] = req[o]
  BY <1>1, SlotOps DEF Turned, Shapes, Shape
<1>3. /\ \A o \in Reqs : Granted(o)' = Granted(o)
      /\ \A o \in Reqs : o # r => (Asks(o)' <=> Asks(o)) /\ Asked(o)' = Asked(o)
      /\ Asks(r) <=> req[r].op = "refresh"
      /\ Asks(r)' => Asks(r) /\ Looks(r) /\ req'[r].pc # "done"
      /\ Asked(r)' = Asked(r) \/ Asked(r)' = 0
  BY <1>2 DEF Granted, Asks, Asked, Running
<1>4. NothingNew
  BY <1>3, Numbers DEF NothingNew
<1>5. /\ RowTokens' /\ Held' /\ Exclusive' /\ Retired' /\ Holding'
      /\ Known' \subseteq Known \cup {0}
  BY <1>4, Kept
<1>6. Shapes'
  <2>1. Shape(req'[r])
    BY <1>1, <1>2 DEF Shapes, Shape, Looks, Running
  <2>2. \A o \in Reqs : Shape(req'[o])
    BY <1>1, <1>2, <2>1 DEF Shapes
  <2>3. \A c \in Calls : Unsent(call'[c].in) /\ (req'[c].pc # "free" => req'[c].op \in CallOps)
    BY <1>1, <1>2, SlotOps, Numbers DEF Shapes
  <2>4. \A t \in Tabs : ~flying'[t] => req'[t] = Free
    BY <1>1, <1>2, SlotOps, Numbers DEF Shapes
  <2> QED BY <2>2, <2>3, <2>4 DEF Shapes
<1>7. Elsewheres'
  <2> SUFFICES ASSUME NEW o \in Outside, Asks(o)'
               PROVE  /\ req'[o].key \in 1 .. minted /\ other # 0 /\ req'[o].key \notin Known'
                      /\ \A s \in DOMAIN rows \ {other} :
                           req'[o].key # rows[s].token /\ req'[o].key # rows[s].prev
                      /\ req'[o].pc \in {"rotate", "reuse"} => req'[o].sid = other
    BY <1>1 DEF Elsewheres
  <2>1. Asks(o) /\ req'[o].key = req[o].key /\ o \in Reqs
    BY <1>2, <1>3, Numbers
  <2>2. /\ req[o].key \in 1 .. minted /\ other # 0 /\ req[o].key \notin Known
        /\ \A s \in DOMAIN rows \ {other} : req[o].key # rows[s].token /\ req[o].key # rows[s].prev
        /\ req[o].pc \in {"rotate", "reuse"} => req[o].sid = other
    BY <1>1, <2>1 DEF Elsewheres
  <2>3. req'[o].key \notin Known'
    BY <1>5, <2>1, <2>2
  <2>4. req'[o].pc \in {"rotate", "reuse"} => req'[o].sid = other
    BY <1>2, <1>3, <2>1, <2>2 DEF Looks
  <2> QED BY <2>1, <2>2, <2>3, <2>4
<1>8. Current'
  <2>1. ASSUME NEW t \in Tabs, Asks(t)'
        PROVE  /\ req'[t].pc # "reuse"
               /\ req'[t].pc = "rotate" => /\ req'[t].sid \in DOMAIN rows /\ req'[t].sid # other
                                           /\ rows[req'[t].sid].token = req'[t].key
    <3>1. CASE t # r
      BY <1>1, <1>2, <1>3, <2>1, <3>1, Numbers DEF Current
    <3>2. CASE t = r
      <4>1. Asks(r) /\ Looks(r) /\ req'[r].pc # "done" /\ Asked(r) = req[r].key /\ req[r].key \in Known
        BY <1>3, <2>1, <3>2, KnownIs DEF Asked
      <4>2. \A s \in DOMAIN rows : rows[s].prev = req[r].key /\ s # other => req[r].key = 0
        BY <1>1, <3>2, <4>1 DEF Retired
      <4>3. other \in DOMAIN rows /\ req[r].key # 0 =>
              rows[other].prev # req[r].key /\ rows[other].token # req[r].key
        BY <1>1, <4>1 DEF Held, OtherTokens
      <4> QED BY <1>2, <3>2, <4>1, <4>2, <4>3 DEF Looks
    <3> QED BY <3>1, <3>2
  <2>2. ASSUME NEW o \in Own, Granted(o)' # 0
        PROVE  req'[o].sid \in DOMAIN rows /\ rows[req'[o].sid].token = Granted(o)'
    BY <1>1, <1>2, <1>3, <2>2, Numbers DEF Current, Granted
  <2> QED BY <1>1, <2>1, <2>2 DEF Current
<1> QED BY <1>5, <1>6, <1>7, <1>8 DEF TokensInv

LEMMA LookStep ==
  ASSUME Inv, TokensInv, NEW r \in Reqs, FindCurrent(r) \/ FindPrevious(r) \/ RevokeReused(r),
         UNCHANGED pages, "refresh" \notin CallOps
  PROVE  TokensInv'
<1>1. /\ req \in [Reqs -> Request] /\ req[r].op = "refresh" /\ Running(req[r]) /\ Asks(r)
      /\ Shape(req[r]) /\ RowTokens /\ Elsewheres /\ Current /\ ReuseElsewhere
  BY DEF Inv, ServerInv, Requests, TokensInv, Shapes, FindCurrent, FindPrevious, RevokeReused,
         At, Running, Asks
<1>2. UNCHANGED <<cookie, access, flying, call, other>>
  BY DEF pages
<1>3. ASSUME UNCHANGED table, Turned(r), Looks(r) PROVE TokensInv'
  <2>1. SameTokens /\ ReuseElsewhere'
    BY <1>1, <1>2, <1>3 DEF table, SameTokens, ReuseElsewhere
  <2> QED BY <1>1, <1>2, <1>3, <2>1, Turning
<1>4. ASSUME NEW pc, NEW s, req' = [req EXCEPT ![r].pc = pc, ![r].sid = s]
      PROVE  Turned(r) /\ req'[r].pc = pc /\ req'[r].sid = s
  <2> DEFINE q == [req[r] EXCEPT !.pc = pc, !.sid = s]
  <2>1. req' = [req EXCEPT ![r] = q]
    BY <1>1, <1>4
  <2>2. /\ q.op = req[r].op /\ q.key = req[r].key /\ q.tok = req[r].tok
        /\ q.cookie = req[r].cookie /\ q.pc = pc /\ q.sid = s
    BY <1>1 DEF Request
  <2> HIDE DEF q
  <2> QED BY <1>1, <2>1, <2>2 DEF Turned
<1>5. ASSUME NEW out \in {"auth", "refused"}, NEW c \in {"keep", "clear"}, Answer(r, out, c)
      PROVE  Turned(r) /\ Looks(r)
  <2>1. Turned(r)
    BY <1>1, <1>5, Turns
  <2>2. req'[r].pc = "done" /\ req'[r].out = out
    <3> DEFINE q == [req[r] EXCEPT !.pc = "done", !.out = out, !.cookie = c, !.seen = None]
    <3>1. req' = [req EXCEPT ![r] = q]
      BY <1>1, <1>5 DEF Answer
    <3>2. q.pc = "done" /\ q.out = out
      BY <1>1 DEF Request
    <3> HIDE DEF q
    <3> QED BY <1>1, <3>1, <3>2
  <2> QED BY <2>1, <2>2 DEF Looks
<1>6. CASE FindCurrent(r)
  <2>1. CASE Answer(r, "auth", "keep") \/ Answer(r, "auth", "clear")
    BY <1>3, <1>5, <1>6, <2>1 DEF FindCurrent
  <2>2. CASE req[r].key # 0 /\ Goto(r, "previous")
    <3>1. Turned(r) /\ req'[r].pc = "previous"
      BY <1>1, <2>2, Turns DEF Goto, Request
    <3> QED BY <1>3, <1>6, <2>2, <3>1 DEF FindCurrent, Looks
  <2>3. ASSUME NEW s \in DOMAIN rows, rows[s].token = req[r].key, req[r].key # 0,
               req' = [req EXCEPT ![r].pc = "rotate", ![r].sid = s]
        PROVE  TokensInv'
    <3>1. Turned(r) /\ req'[r].pc = "rotate" /\ req'[r].sid = s
      BY <1>4, <2>3
    <3> QED BY <1>3, <1>6, <2>3, <3>1 DEF FindCurrent, Looks
  <2> QED BY <1>6, <2>1, <2>2, <2>3 DEF FindCurrent
<1>7. CASE FindPrevious(r)
  <2>1. CASE Answer(r, "auth", "clear")
    BY <1>3, <1>5, <1>7, <2>1 DEF FindPrevious
  <2>2. req[r].key # 0
    BY <1>1, <1>7 DEF FindPrevious, At, Shape
  <2>3. ASSUME NEW s \in DOMAIN rows, rows[s].prev = req[r].key,
               req' = [req EXCEPT ![r].pc = "reuse", ![r].sid = s]
        PROVE  TokensInv'
    <3>1. Turned(r) /\ req'[r].pc = "reuse" /\ req'[r].sid = s
      BY <1>4, <2>3
    <3> QED BY <1>3, <1>7, <2>2, <2>3, <3>1 DEF FindPrevious, Looks
  <2> QED BY <1>7, <2>1, <2>3 DEF FindPrevious
\* What was retired is presented by the other browser only.
<1>8. CASE RevokeReused(r)
  <2>1. req[r].pc = "reuse" /\ r \notin Tabs /\ r \notin Calls
    BY <1>1, <1>8, SlotOps DEF RevokeReused, At, Current, TokensInv
  <2>2. req[r].sid = other
    BY <1>1, <2>1 DEF Elsewheres, Outside
  <2>3. /\ rows' = [rows EXCEPT ![other].reason = "reuse"] /\ minted' = minted
        /\ Answer(r, "refused", "clear")
    BY <1>8, <2>2 DEF RevokeReused
  <2>4. SameTokens /\ ReuseElsewhere'
    <3>1. \A s \in DOMAIN rows : rows[s] \in AuthSession
      BY InTable DEF Inv, ServerInv, Tables
    <3>2. DOMAIN rows' = DOMAIN rows /\ \A s \in DOMAIN rows : s # other => rows'[s] = rows[s]
      BY <2>3
    <3>3. other \in DOMAIN rows =>
            rows'[other].token = rows[other].token /\ rows'[other].prev = rows[other].prev
      BY <2>3, <3>1 DEF AuthSession
    <3> QED BY <1>1, <1>2, <2>3, <3>2, <3>3 DEF SameTokens, ReuseElsewhere
  <2> QED BY <1>1, <1>2, <1>5, <2>3, <2>4, Turning
<1> QED BY <1>6, <1>7, <1>8

\* Sessions end; so they do in a statement that is no refresh's.
LEMMA PlainStep ==
  ASSUME Inv, TokensInv, NEW r \in Reqs, Step(r), UNCHANGED pages,
         ~IssueSession(r), ~FindCurrent(r), ~FindPrevious(r), ~RevokeReused(r), ~Rotate(r)
  PROVE  TokensInv'
<1>1. UNCHANGED <<cookie, access, flying, call, other>>
  BY DEF pages
<1>2. Ends /\ Turned(r) /\ Running(req[r]) /\ req[r].op # "refresh"
  BY <1>1, Plainly
<1>3. SameTokens /\ ReuseElsewhere'
  BY <1>1, <1>2 DEF Ends, SameTokens, ReuseElsewhere, TokensInv
<1> QED BY <1>1, <1>2, <1>3, Turning

-------------------------------------------------------------------------------
(* A token is minted.                                                       *)

\* The request that has it minted is granted it.
Grants(r, s) ==
  /\ \A o \in Reqs : o # r => req'[o] = req[o]
  /\ Shape(req'[r]) /\ req'[r].op = req[r].op /\ req'[r].pc = "done"
  /\ req'[r].tok = minted + 1 /\ req'[r].cookie = "set" /\ req'[r].sid = s
  /\ minted' = minted + 1

LEMMA Fresh ==
  ASSUME Inv, TokensInv
  PROVE  /\ minted + 1 \in Nat \ {0} /\ minted + 1 \notin Known
         /\ \A k \in Known : k \in Nat /\ k <= minted /\ k < minted + 1
         /\ \A s \in DOMAIN rows : /\ rows[s].token # minted + 1 /\ rows[s].prev # minted + 1
                                   /\ rows[s].token \in 1 .. minted + 1
                                   /\ rows[s].prev \in 0 .. minted + 1
<1>1. minted \in Nat /\ \A k \in Known : k \in Nat /\ k <= minted
  BY Numbers, KnownIs DEF TokensInv, Held
<1> QED BY <1>1 DEF TokensInv, RowTokens

\* The other requests ask what they asked, and nothing else becomes known.
LEMMA GrantHeld ==
  ASSUME Inv, TokensInv, NEW r \in Reqs, Running(req[r]), NEW s, Grants(r, s),
         cookie' = cookie
  PROVE  /\ \A o \in Reqs : o # r => Granted(o)' = Granted(o) /\ Asked(o)' = Asked(o)
                                     /\ (Asks(o)' <=> Asks(o))
         /\ Granted(r) = 0 /\ Granted(r)' = minted + 1 /\ Asked(r)' = 0 /\ ~Asks(r)'
         /\ Known' \subseteq Known \cup {0, minted + 1}
         /\ r \in Outside => Known' \subseteq Known \cup {0}
         /\ Exclusive'
<1>1. /\ \A o \in Reqs : o # r => Granted(o)' = Granted(o) /\ Asked(o)' = Asked(o)
                                  /\ (Asks(o)' <=> Asks(o))
      /\ Granted(r)' = minted + 1 /\ Asked(r)' = 0 /\ ~Asks(r)'
  BY DEF Grants, Granted, Asked, Asks, Running
<1>2. Granted(r) = 0
  BY SlotOps DEF TokensInv, Granted
<1>3. /\ Known' \subseteq Known \cup {0, minted + 1}
      /\ r \in Outside => Known' \subseteq Known \cup {0}
  BY <1>1, Numbers DEF Known
<1>4. Exclusive'
  <2>1. /\ minted + 1 # 0 /\ \A j \in Jars : cookie[j] # minted + 1
        /\ \A t \in Tabs : Asked(t) # minted + 1
        /\ \A o \in Own : Granted(o) # minted + 1
    BY Fresh, KnownIs
  <2>2. Exclusive /\ Own \subseteq Reqs /\ Tabs \subseteq Own
    BY Numbers DEF TokensInv
  <2>3. ASSUME NEW t \in Tabs, Asked(t)' # 0
        PROVE  /\ \A j \in Jars : cookie[j] = Asked(t)' => j = JarOf[t]
               /\ \A u \in Tabs : Asked(u)' = Asked(t)' => u = t
               /\ \A o \in Own : Granted(o)' # Asked(t)'
    BY <1>1, <2>1, <2>2, <2>3 DEF Exclusive
  <2>4. ASSUME NEW o \in Own, Granted(o)' # 0
        PROVE  /\ \A j \in Jars : cookie[j] # Granted(o)'
               /\ \A q \in Own : Granted(q)' = Granted(o)' => q = o
    BY <1>1, <2>1, <2>2, <2>4 DEF Exclusive
  <2> QED BY <2>2, <2>3, <2>4 DEF Exclusive
<1> QED BY <1>1, <1>2, <1>3, <1>4

LEMMA GrantShapes ==
  ASSUME Inv, TokensInv, NEW r \in Reqs, Running(req[r]), NEW s, Grants(r, s),
         UNCHANGED <<flying, call>>
  PROVE  Shapes'
<1>1. Shapes /\ \A o \in Reqs : o # r => req'[o] = req[o]
  BY DEF TokensInv, Grants
<1>2. \A o \in Reqs : Shape(req'[o])
  BY <1>1 DEF Shapes, Grants
<1>3. \A c \in Calls : Unsent(call'[c].in) /\ (req'[c].pc # "free" => req'[c].op \in CallOps)
  BY <1>1, SlotOps, Numbers DEF Shapes, Grants
<1>4. \A t \in Tabs : ~flying'[t] => req'[t] = Free
  BY <1>1, SlotOps, Numbers DEF Shapes
<1> QED BY <1>2, <1>3, <1>4 DEF Shapes

\* A sign-in.
LEMMA IssueStep ==
  ASSUME Inv, TokensInv, NEW r \in Reqs, IssueSession(r), UNCHANGED pages
  PROVE  TokensInv'
<1> DEFINE m == minted + 1
           n == Len(rows) + 1
<1>1. /\ UNCHANGED <<cookie, access, flying, call, other>> /\ req \in [Reqs -> Request]
      /\ rows \in Seq(AuthSession) /\ Row(m) \in AuthSession /\ minted \in Nat
  BY DEF pages, Inv, ServerInv, Requests, Tables, Row, AuthSession
<1>2. /\ DOMAIN rows' = DOMAIN rows \cup {n} /\ n \notin DOMAIN rows /\ n \in Nat \ {0}
      /\ \A s \in DOMAIN rows : rows'[s] = rows[s]
      /\ rows'[n].token = m /\ rows'[n].prev = 0 /\ rows'[n].reason = "live"
  <2>1. rows' = Append(rows, Row(m))
    BY DEF IssueSession
  <2> QED BY <1>1, <2>1, Appended DEF Row
<1>3. Running(req[r]) /\ req[r].op # "refresh" /\ Grants(r, n)
  <2> DEFINE q == [req[r] EXCEPT !.pc = "done", !.out = "ok", !.cookie = "set", !.seen = None,
                                 !.sid = n, !.tok = m]
  <2>1. req' = [req EXCEPT ![r] = q] /\ minted' = m /\ req[r].op # "refresh" /\ Running(req[r])
    BY <1>1 DEF IssueSession, At, Running
  <2>2. /\ q.pc = "done" /\ q.out = "ok" /\ q.cookie = "set" /\ q.sid = n /\ q.tok = m
        /\ q.op = req[r].op
    BY <1>1 DEF Request
  <2> HIDE DEF q
  <2>3. m # 0
    BY <1>1
  <2> QED BY <1>1, <2>1, <2>2, <2>3 DEF Grants, Shape, Running
<1>4. r \notin Tabs /\ ~Asks(r) /\ Shapes'
  BY <1>1, <1>3, SlotOps, GrantShapes DEF TokensInv, Asks
<1>5. /\ \A o \in Reqs : o # r => Granted(o)' = Granted(o) /\ Asked(o)' = Asked(o)
                                  /\ (Asks(o)' <=> Asks(o)) /\ req'[o] = req[o]
      /\ Granted(r)' = m /\ ~Asks(r)' /\ Known' \subseteq Known \cup {0, m} /\ Exclusive'
      /\ req'[r].sid = n /\ minted' = m
  BY <1>1, <1>3, GrantHeld DEF Grants
<1>6. /\ m \in Nat \ {0} /\ m \notin Known /\ \A k \in Known : k \in Nat /\ k <= minted /\ k < m
      /\ \A s \in DOMAIN rows : /\ rows[s].token # m /\ rows[s].prev # m
                                /\ rows[s].token \in 1 .. m /\ rows[s].prev \in 0 .. m
  BY Fresh
<1>7. RowTokens /\ Elsewheres /\ Held /\ Retired /\ Current /\ ReuseElsewhere /\ Holding
  BY DEF TokensInv
<1> HIDE DEF m, n
<1>8. other # 0 => other \in DOMAIN rows
  BY <1>7 DEF RowTokens
<1>9. OtherTokens' = OtherTokens /\ m \notin OtherTokens
  <2>1. other \in DOMAIN rows' <=> other \in DOMAIN rows
    BY <1>1, <1>2, <1>8
  <2> QED BY <1>1, <1>2, <1>6, <2>1 DEF OtherTokens
<1>10. RowTokens'
  BY <1>1, <1>2, <1>5, <1>6, <1>7 DEF RowTokens
<1>11. Held'
  BY <1>5, <1>6, <1>7, <1>9 DEF Held
<1>12. Elsewheres'
  <2> SUFFICES ASSUME NEW o \in Outside, Asks(o)'
               PROVE  /\ req'[o].key \in 1 .. m /\ other # 0 /\ req'[o].key \notin Known'
                      /\ \A s \in DOMAIN rows' \ {other} :
                           req'[o].key # rows'[s].token /\ req'[o].key # rows'[s].prev
                      /\ req'[o].pc \in {"rotate", "reuse"} => req'[o].sid = other
    BY <1>1, <1>5 DEF Elsewheres
  <2>1. o # r /\ Asks(o) /\ req'[o] = req[o]
    BY <1>5, Numbers
  <2>2. /\ req[o].key \in 1 .. minted /\ other # 0 /\ req[o].key \notin Known
        /\ \A s \in DOMAIN rows \ {other} : req[o].key # rows[s].token /\ req[o].key # rows[s].prev
        /\ req[o].pc \in {"rotate", "reuse"} => req[o].sid = other
    BY <1>7, <2>1 DEF Elsewheres
  <2>3. req[o].key \in 1 .. m /\ req[o].key # m /\ req[o].key # 0
    BY <1>1, <2>2 DEF m
  <2> QED BY <1>2, <1>5, <2>1, <2>2, <2>3
<1>13. Retired'
  <2> SUFFICES ASSUME NEW s \in DOMAIN rows \ {other}, rows[s].prev # 0
               PROVE  /\ \A o \in Own : Granted(o)' # rows[s].prev
                      /\ \A t \in Tabs : Asked(t)' # rows[s].prev
                      /\ \A j \in Jars : cookie[j] = rows[s].prev =>
                           \E t \in Tabs : JarOf[t] = j /\ Granted(t)' # 0
    BY <1>1, <1>2 DEF Retired
  <2> QED BY <1>4, <1>5, <1>6, <1>7, Numbers DEF Retired
<1>14. Current'
  <2>1. ASSUME NEW t \in Tabs, Asks(t)'
        PROVE  /\ req'[t].pc # "reuse"
               /\ req'[t].pc = "rotate" => /\ req'[t].sid \in DOMAIN rows /\ req'[t].sid # other
                                           /\ rows[req'[t].sid].token = req'[t].key
    BY <1>4, <1>5, <1>7, <2>1, Numbers DEF Current
  <2>2. ASSUME NEW o \in Own, Granted(o)' # 0
        PROVE  req'[o].sid \in DOMAIN rows' /\ rows'[req'[o].sid].token = Granted(o)'
    BY <1>2, <1>5, <1>7, <2>2, Numbers DEF Current
  <2> QED BY <1>1, <1>2, <2>1, <2>2 DEF Current
<1>15. ReuseElsewhere'
  BY <1>1, <1>2, <1>7 DEF ReuseElsewhere
<1>16. Holding'
  BY <1>1, <1>2, <1>4, <1>5, <1>7, Numbers DEF Holding
<1> QED BY <1>4, <1>5, <1>10, <1>11, <1>12, <1>13, <1>14, <1>15, <1>16 DEF TokensInv

\* A renewal: the session's token is the key that was presented, and becomes
\* the one it had before.
LEMMA RenewStep ==
  ASSUME Inv, TokensInv, OneTabEach, "refresh" \notin CallOps, NEW r \in Reqs, Rotate(r),
         UNCHANGED pages
  PROVE  TokensInv'
<1> DEFINE m == minted + 1
           x == req[r].sid
           k == req[r].key
<1>1. /\ UNCHANGED <<cookie, access, flying, call, other>> /\ req \in [Reqs -> Request]
      /\ minted \in Nat /\ \A s \in DOMAIN rows : rows[s] \in AuthSession
  BY InTable DEF pages, Inv, ServerInv, Requests, Tables
<1>2. /\ RowTokens /\ Elsewheres /\ Held /\ Retired /\ Current /\ ReuseElsewhere /\ Holding
      /\ Exclusive /\ Shapes
  BY DEF TokensInv
<1>3. /\ Asks(r) /\ Running(req[r]) /\ req[r].pc = "rotate" /\ req[r].op = "refresh"
      /\ Shape(req[r]) /\ r \notin Calls
  BY <1>2, SlotOps DEF Rotate, At, Asks, Running, Shapes
<1>4. Grants(r, x)
  <2> DEFINE q == [req[r] EXCEPT !.pc = "done", !.out = "ok", !.cookie = "set", !.tok = m]
  <2>1. req' = [req EXCEPT ![r] = q] /\ minted' = m
    BY <1>1 DEF Rotate
  <2>2. /\ q.pc = "done" /\ q.out = "ok" /\ q.cookie = "set" /\ q.sid = x /\ q.tok = m
        /\ q.op = req[r].op
    BY <1>1 DEF Request
  <2> HIDE DEF q
  <2>3. m # 0
    BY <1>1
  <2> QED BY <1>1, <2>1, <2>2, <2>3 DEF Grants, Shape, Running
<1>5. /\ \A o \in Reqs : o # r => Granted(o)' = Granted(o) /\ Asked(o)' = Asked(o)
                                  /\ (Asks(o)' <=> Asks(o)) /\ req'[o] = req[o]
      /\ Granted(r)' = m /\ ~Asks(r)' /\ Asked(r)' = 0 /\ Known' \subseteq Known \cup {0, m}
      /\ Exclusive' /\ Shapes' /\ req'[r].sid = x /\ minted' = m
      /\ r \in Outside => Known' \subseteq Known \cup {0}
  BY <1>1, <1>3, <1>4, GrantHeld, GrantShapes DEF Grants
<1>6. /\ m \in Nat \ {0} /\ m \notin Known /\ \A y \in Known : y \in Nat /\ y <= minted /\ y < m
      /\ \A s \in DOMAIN rows : /\ rows[s].token # m /\ rows[s].prev # m
                                /\ rows[s].token \in 1 .. m /\ rows[s].prev \in 0 .. m
  BY Fresh
<1>7. /\ DOMAIN rows' = DOMAIN rows /\ \A s \in DOMAIN rows : s # x => rows'[s] = rows[s]
      /\ x \in DOMAIN rows => rows'[x].token = m /\ rows'[x].prev = k
                              /\ rows'[x].reason = rows[x].reason
  <2> DEFINE e == Rotated(rows[x], m, k)
  <2>1. rows' = [rows EXCEPT ![x] = e]
    BY DEF Rotate
  <2>2. x \in DOMAIN rows => e.token = m /\ e.prev = k /\ e.reason = rows[x].reason
    BY <1>1 DEF Rotated, AuthSession
  <2> HIDE DEF e, m, k
  <2> QED BY <2>1, <2>2
<1>8. k # 0 /\ k \in Nat /\ Asked(r) = k
  BY <1>1, <1>3 DEF Shape, Asked, Request
<1>9. ReuseElsewhere'
  BY <1>1, <1>2, <1>7 DEF ReuseElsewhere
<1>10. other # 0 => other \in DOMAIN rows
  BY <1>2 DEF RowTokens
<1>11. r \in Tabs \/ r \in Outside
  BY <1>3, Numbers DEF Own
<1> HIDE DEF m, x, k
\* A tab renews a session of its own browser.
<1>12. CASE r \in Tabs
  <2>1. x \in DOMAIN rows /\ x # other /\ rows[x].token = k /\ k \in Known
    BY <1>2, <1>3, <1>8, <1>12, KnownIs DEF Current, x, k
  <2>2. OtherTokens' = OtherTokens /\ m \notin OtherTokens
    BY <1>1, <1>6, <1>7, <1>10, <2>1 DEF OtherTokens
  <2>3. RowTokens'
    BY <1>1, <1>2, <1>5, <1>6, <1>7, <1>8, <2>1 DEF RowTokens
  <2>4. Held'
    BY <1>2, <1>5, <1>6, <2>2 DEF Held
  <2>5. Elsewheres'
    <3> SUFFICES ASSUME NEW o \in Outside, Asks(o)'
                 PROVE  /\ req'[o].key \in 1 .. m /\ other # 0 /\ req'[o].key \notin Known'
                        /\ \A s \in DOMAIN rows' \ {other} :
                             req'[o].key # rows'[s].token /\ req'[o].key # rows'[s].prev
                        /\ req'[o].pc \in {"rotate", "reuse"} => req'[o].sid = other
      BY <1>1, <1>5 DEF Elsewheres
    <3>1. o # r /\ Asks(o) /\ req'[o] = req[o]
      BY <1>5, Numbers
    <3>2. /\ req[o].key \in 1 .. minted /\ other # 0 /\ req[o].key \notin Known
          /\ \A s \in DOMAIN rows \ {other} : req[o].key # rows[s].token /\ req[o].key # rows[s].prev
          /\ req[o].pc \in {"rotate", "reuse"} => req[o].sid = other
      BY <1>2, <3>1 DEF Elsewheres
    <3>3. req[o].key \in 1 .. m /\ req[o].key # m /\ req[o].key # 0
      BY <1>1, <3>2 DEF m
    <3>4. req[o].key # k
      BY <2>1, <3>2
    <3> QED BY <1>5, <1>7, <3>1, <3>2, <3>3, <3>4
  <2>6. Retired'
    <3> SUFFICES ASSUME NEW s \in DOMAIN rows \ {other}, rows'[s].prev # 0
                 PROVE  /\ \A o \in Own : Granted(o)' # rows'[s].prev
                        /\ \A t \in Tabs : Asked(t)' # rows'[s].prev
                        /\ \A j \in Jars : cookie[j] = rows'[s].prev =>
                             \E t \in Tabs : JarOf[t] = j /\ Granted(t)' # 0
      BY <1>1, <1>7 DEF Retired
    <3>1. CASE s # x
      BY <1>2, <1>5, <1>6, <1>7, <1>12, <3>1, Numbers DEF Retired
    <3>2. CASE s = x
      <4>1. rows'[s].prev = k
        BY <1>7, <2>1, <3>2
      <4>2. /\ \A j \in Jars : cookie[j] = k => j = JarOf[r]
            /\ \A u \in Tabs : Asked(u) = k => u = r
            /\ \A o \in Own : Granted(o) # k
        BY <1>2, <1>8, <1>12 DEF Exclusive
      <4>3. k # m
        BY <1>6, <2>1
      <4> QED BY <1>5, <1>6, <1>8, <1>12, <4>1, <4>2, <4>3, Numbers
    <3> QED BY <3>1, <3>2
  <2>7. Current'
    <3>1. ASSUME NEW t \in Tabs, Asks(t)'
          PROVE  /\ req'[t].pc # "reuse"
                 /\ req'[t].pc = "rotate" => /\ req'[t].sid \in DOMAIN rows /\ req'[t].sid # other
                                             /\ rows'[req'[t].sid].token = req'[t].key
      <4>1. t # r /\ req'[t] = req[t] /\ Asks(t) /\ Asked(t) = req[t].key
        BY <1>5, <3>1, Numbers DEF Asked
      <4>2. req[t].pc = "rotate" => req[t].sid # x
        BY <1>2, <1>8, <1>12, <2>1, <4>1 DEF Current, Exclusive
      <4> QED BY <1>2, <1>7, <4>1, <4>2 DEF Current
    <3>2. ASSUME NEW o \in Own, Granted(o)' # 0
          PROVE  req'[o].sid \in DOMAIN rows /\ rows'[req'[o].sid].token = Granted(o)'
      <4>1. CASE o = r
        BY <1>5, <1>7, <2>1, <4>1
      <4>2. CASE o # r
        <5>1. Granted(o)' = Granted(o) /\ req'[o] = req[o] /\ Granted(o) # k
          BY <1>2, <1>5, <1>8, <1>12, <4>2, Numbers DEF Exclusive
        <5>2. req[o].sid # x
          BY <1>2, <2>1, <3>2, <5>1 DEF Current
        <5> QED BY <1>2, <1>7, <3>2, <5>1, <5>2 DEF Current
      <4> QED BY <4>1, <4>2
    <3> QED BY <1>1, <1>7, <3>1, <3>2 DEF Current
  <2>8. Holding'
    <3> SUFFICES ASSUME NEW j \in Jars, cookie[j] # 0
                 PROVE  \/ \E s \in DOMAIN rows \ {other} : rows'[s].token = cookie[j]
                        \/ \E t \in Tabs : JarOf[t] = j /\ Granted(t)' # 0
      BY <1>1, <1>7 DEF Holding
    <3>1. CASE cookie[j] = k
      <4>1. j = JarOf[r]
        BY <1>2, <1>8, <1>12, <3>1 DEF Exclusive
      <4> QED BY <1>5, <1>6, <1>12, <4>1
    <3>2. CASE cookie[j] # k
      <4>1. CASE \E s \in DOMAIN rows \ {other} : rows[s].token = cookie[j]
        BY <1>7, <2>1, <3>2, <4>1
      <4>2. CASE \E t \in Tabs : JarOf[t] = j /\ Granted(t) # 0
        BY <1>5, <1>6, <4>2, Numbers
      <4> QED BY <1>2, <4>1, <4>2 DEF Holding
    <3> QED BY <3>1, <3>2
  <2> QED BY <1>5, <1>9, <2>3, <2>4, <2>5, <2>6, <2>7, <2>8 DEF TokensInv
\* The other browser renews its own session.
<1>13. CASE r \in Outside
  <2>1. /\ x = other /\ other \in DOMAIN rows /\ k \notin Known
        /\ \A s \in DOMAIN rows \ {other} : k # rows[s].token /\ k # rows[s].prev
        /\ k \in 1 .. minted
    BY <1>2, <1>3, <1>10, <1>13 DEF Elsewheres, x, k
  <2>2. OtherTokens' = {m, k}
    BY <1>1, <1>7, <2>1 DEF OtherTokens
  <2>3. RowTokens'
    <3>1. /\ other' \in Nat /\ (other' # 0 => other' \in DOMAIN rows' /\ rows'[other'].prev # 0)
      BY <1>1, <1>2, <1>7, <1>8, <2>1 DEF RowTokens
    <3>2. \A s \in DOMAIN rows' : rows'[s].token \in 1 .. minted' /\ rows'[s].prev \in 0 .. minted'
      <4>1. k \in 0 .. m /\ m \in 1 .. m
        BY <1>1, <1>6, <2>1 DEF m
      <4> QED BY <1>5, <1>6, <1>7, <2>1, <4>1
    <3>3. ASSUME NEW s \in DOMAIN rows, NEW u \in DOMAIN rows, s # u
          PROVE  /\ rows'[s].token # rows'[u].token /\ rows'[s].token # rows'[u].prev
                 /\ rows'[s].prev # 0 => rows'[s].prev # rows'[u].prev
      <4>1. k # m
        BY <1>1, <2>1 DEF m
      <4>2. CASE s # other /\ u # other
        BY <1>2, <1>7, <2>1, <3>3, <4>2 DEF RowTokens
      <4>3. CASE s = other
        BY <1>6, <1>7, <2>1, <3>3, <4>1, <4>3
      <4>4. CASE u = other
        BY <1>6, <1>7, <2>1, <3>3, <4>1, <4>4
      <4> QED BY <4>2, <4>3, <4>4
    <3> QED BY <1>7, <3>1, <3>2, <3>3 DEF RowTokens
  <2>4. Held'
    BY <1>2, <1>5, <1>6, <1>13, <2>1, <2>2 DEF Held
  <2>5. Elsewheres'
    <3> SUFFICES ASSUME NEW o \in Outside, Asks(o)'
                 PROVE  /\ req'[o].key \in 1 .. m /\ other # 0 /\ req'[o].key \notin Known'
                        /\ \A s \in DOMAIN rows' \ {other} :
                             req'[o].key # rows'[s].token /\ req'[o].key # rows'[s].prev
                        /\ req'[o].pc \in {"rotate", "reuse"} => req'[o].sid = other
      BY <1>1, <1>5 DEF Elsewheres
    <3>1. o # r /\ Asks(o) /\ req'[o] = req[o]
      BY <1>5, Numbers
    <3>2. /\ req[o].key \in 1 .. minted /\ other # 0 /\ req[o].key \notin Known
          /\ \A s \in DOMAIN rows \ {other} : req[o].key # rows[s].token /\ req[o].key # rows[s].prev
          /\ req[o].pc \in {"rotate", "reuse"} => req[o].sid = other
      BY <1>2, <3>1 DEF Elsewheres
    <3>3. req[o].key \in 1 .. m /\ req[o].key # 0
      BY <1>1, <3>2 DEF m
    <3> QED BY <1>5, <1>7, <1>13, <2>1, <3>1, <3>2, <3>3
  <2>6. Retired'
    <3> SUFFICES ASSUME NEW s \in DOMAIN rows \ {other}, rows[s].prev # 0
                 PROVE  /\ \A o \in Own : Granted(o)' # rows[s].prev
                        /\ \A t \in Tabs : Asked(t)' # rows[s].prev
                        /\ \A j \in Jars : cookie[j] = rows[s].prev =>
                             \E t \in Tabs : JarOf[t] = j /\ Granted(t)' # 0
      BY <1>1, <1>7, <2>1 DEF Retired
    <3> QED BY <1>2, <1>5, <1>13, Numbers DEF Retired
  <2>7. Current'
    <3>1. ASSUME NEW t \in Tabs, Asks(t)'
          PROVE  /\ req'[t].pc # "reuse"
                 /\ req'[t].pc = "rotate" => /\ req'[t].sid \in DOMAIN rows /\ req'[t].sid # other
                                             /\ rows'[req'[t].sid].token = req'[t].key
      BY <1>2, <1>5, <1>7, <1>13, <2>1, <3>1, Numbers DEF Current
    <3>2. ASSUME NEW o \in Own, Granted(o)' # 0
          PROVE  req'[o].sid \in DOMAIN rows /\ rows'[req'[o].sid].token = Granted(o)'
      <4>1. o # r /\ Granted(o)' = Granted(o) /\ req'[o] = req[o] /\ Granted(o) \in Known
        BY <1>5, <1>13, Numbers, KnownIs
      <4>2. req[o].sid # other
        BY <1>2, <2>1, <3>2, <4>1 DEF Current, Held, OtherTokens
      <4> QED BY <1>2, <1>7, <2>1, <3>2, <4>1, <4>2 DEF Current
    <3> QED BY <1>1, <1>7, <3>1, <3>2 DEF Current
  <2>8. Holding'
    BY <1>1, <1>2, <1>5, <1>7, <1>13, <2>1, Numbers DEF Holding
  <2> QED BY <1>5, <1>9, <2>3, <2>4, <2>5, <2>6, <2>7, <2>8 DEF TokensInv
<1> QED BY <1>11, <1>12, <1>13

-------------------------------------------------------------------------------
(* Time, and what the pages do.                                             *)

LEMMA LapsePlain ==
  ASSUME Inv, TokensInv, Lapse, UNCHANGED pages
  PROVE  TokensInv'
<1>1. /\ UNCHANGED <<cookie, access, flying, call, other, req, minted>>
      /\ \A s \in DOMAIN rows : rows[s] \in AuthSession
  BY InTable DEF pages, Inv, ServerInv, Tables, Lapse, LockLapses, SessionLapses
<1>2. SameTokens /\ \A s \in DOMAIN rows : rows'[s].reason = rows[s].reason
  BY <1>1 DEF Lapse, LockLapses, SessionLapses, SameTokens, AuthSession
<1>3. /\ \A r \in Reqs : Granted(r)' = Granted(r) /\ Asked(r)' = Asked(r) /\ (Asks(r)' <=> Asks(r))
      /\ Known' = Known
  BY <1>1 DEF Granted, Asked, Asks, Known
<1>4. NothingNew
  BY <1>1, <1>3, Numbers DEF NothingNew
<1>5. RowTokens' /\ Held' /\ Exclusive' /\ Retired' /\ Holding'
  BY <1>4, <1>2, Kept
<1>6. Shapes' /\ ReuseElsewhere'
  BY <1>1, <1>2 DEF TokensInv, SameTokens, Shapes, ReuseElsewhere
<1>7. Elsewheres' /\ Current'
  BY <1>1, <1>2, <1>3, Numbers DEF TokensInv, SameTokens, Elsewheres, Current
<1> QED BY <1>5, <1>6, <1>7 DEF TokensInv

\* What is left of the invariant when the shapes of requests are known.
Tokens ==
  RowTokens /\ Elsewheres /\ Held /\ Exclusive /\ Retired /\ Current /\ ReuseElsewhere /\ Holding

\* Pages leave the table alone, and what other requests ask.
LEMMA PageKept ==
  ASSUME Inv, TokensInv, UNCHANGED <<rows, minted, other>>, NothingNew,
         \A o \in Outside : Asks(o)' => req'[o] = req[o],
         \A r \in Own : Asks(r)' => r \in Tabs /\ (req'[r] = req[r] \/ req'[r].pc = "current"),
         \A r \in Own : Granted(r)' # 0 => req'[r] = req[r]
  PROVE  Tokens'
<1>1. SameTokens
  BY DEF SameTokens
<1>2. /\ RowTokens' /\ Held' /\ Exclusive' /\ Retired' /\ Holding'
      /\ Known' \subseteq Known \cup {0}
  BY <1>1, Kept
<1>3. Elsewheres'
  <2>1. ASSUME NEW o \in Outside, Asks(o)'
        PROVE  Asks(o) /\ req'[o] = req[o] /\ req[o].key \notin Known'
    <3>1. Asks(o) /\ req'[o] = req[o]
      BY <2>1 DEF Asks
    <3> QED BY <1>2, <3>1 DEF TokensInv, Elsewheres
  <2> QED BY <2>1 DEF TokensInv, Elsewheres
<1>4. Current'
  <2>1. ASSUME NEW t \in Tabs, Asks(t)', req'[t] = req[t]
        PROVE  Asks(t)
    BY <2>1 DEF Asks
  <2>2. ASSUME NEW r \in Own, Granted(r)' # 0
        PROVE  req'[r] = req[r] /\ Granted(r)' = Granted(r)
    BY <2>2 DEF Granted
  <2> QED BY <2>1, <2>2, Numbers DEF TokensInv, Current
<1>5. ReuseElsewhere'
  BY DEF TokensInv, ReuseElsewhere
<1> QED BY <1>2, <1>3, <1>4, <1>5 DEF Tokens

\* A page is done with some of its requests, whose cookies are stored or that
\* brought none; what others carry on is no refresh.
LEMMA Finished ==
  ASSUME Inv, TokensInv, "refresh" \notin CallOps, UNCHANGED <<rows, minted, other, cookie>>,
         \A o \in Own : \/ req'[o] = req[o]
                        \/ Granted(o)' = 0 /\ ~Asks(o)' /\ (o \in Tabs => Granted(o) = 0),
         \A o \in Outside : req'[o] = req[o] \/ ~Asks(o)'
  PROVE  Tokens'
<1>1. \A o \in Own : \/ /\ req'[o] = req[o] /\ Granted(o)' = Granted(o)
                       /\ Asked(o)' = Asked(o) /\ (Asks(o)' <=> Asks(o))
                    \/ /\ Granted(o)' = 0 /\ ~Asks(o)' /\ Asked(o)' = 0
                       /\ o \in Tabs => Granted(o) = 0
  BY DEF Granted, Asked, Asks
<1>2. NothingNew
  BY <1>1, Numbers DEF NothingNew
<1>3. ASSUME NEW o \in Own, Asks(o)' PROVE o \in Tabs /\ req'[o] = req[o]
  <2>1. Running(req[o]) /\ req[o].op = "refresh" /\ req'[o] = req[o] /\ o \in Reqs
    BY <1>1, <1>3, Numbers DEF Asks
  <2> QED BY <2>1, SlotOps DEF TokensInv, Own
<1>4. \A o \in Own : Granted(o)' # 0 => req'[o] = req[o]
  BY <1>1
<1> QED BY <1>2, <1>3, <1>4, PageKept

LEMMA RequestIs ==
  ASSUME NEW t \in Tabs
  PROVE  LET q == RefreshRequest(t)
         IN /\ q.op = "refresh" /\ q.pc = "current" /\ q.key = cookie[JarOf[t]] /\ q.tok = 0
            /\ q.cookie = "keep" /\ q.out = "none"
<1>1. First("refresh") = "current"
  BY DEF First, Authenticated
<1> QED BY <1>1 DEF RefreshRequest, Input, Free

LEMMA StoredIs ==
  ASSUME Inv, Shapes, NEW t \in Tabs, NEW r \in Reqs, cookie' = Stored(JarOf[t], req[r])
  PROVE  /\ \A j \in Jars : j # JarOf[t] => cookie'[j] = cookie[j]
         /\ Granted(r) # 0 => cookie'[JarOf[t]] = Granted(r)
         /\ Granted(r) = 0 => cookie'[JarOf[t]] = 0
<1>1. Shape(req[r]) /\ cookie \in [Jars -> Nat] /\ JarOf[t] \in Jars
  BY SlotsAssumption DEF Inv, Pages, Shapes
<1> QED BY <1>1 DEF Stored, Shape, Granted

\* A tab sends the token of its jar: only when nothing it sent is unanswered.
LEMMA Launched ==
  ASSUME Inv, TokensInv, OneTabEach, UNCHANGED <<rows, minted, other>>, NEW t \in Tabs, ~flying[t],
         req'[t] = RefreshRequest(t),
         cookie' = cookie, \A o \in Outside : req'[o] = req[o],
         \A u \in Tabs : u # t => req'[u] = req[u],
         \A c \in Calls : req'[c] = req[c] \/ req'[c] = Free
  PROVE  Tokens'
<1> DEFINE k == cookie[JarOf[t]]
<1>1. /\ RowTokens /\ Elsewheres /\ Held /\ Retired /\ Current /\ ReuseElsewhere /\ Exclusive
      /\ Holding /\ Shapes /\ req[t] = Free /\ Granted(t) = 0 /\ Asked(t) = 0
  <2>1. Free.tok = 0 /\ Free.pc = "free"
    BY DEF Free
  <2>2. req[t] = Free
    BY DEF TokensInv, Shapes
  <2> QED BY <2>1, <2>2 DEF TokensInv, Granted, Asked, Asks, Running
<1>2. Granted(t)' = 0 /\ Asked(t)' = k /\ req'[t].pc = "current"
  BY RequestIs DEF Granted, Asked, Asks, Running
<1>3. \A u \in Tabs : u # t => Granted(u)' = Granted(u) /\ Asked(u)' = Asked(u)
  BY DEF Granted, Asked, Asks
<1>4. \A c \in Calls : Granted(c)' = 0 \/ (Granted(c)' = Granted(c) /\ req'[c] = req[c])
  BY DEF Granted, Free
<1>5. k \in Known /\ JarOf[t] \in Jars /\ Known' \subseteq Known \cup {0}
  <2>1. k \in Known /\ JarOf[t] \in Jars
    BY Numbers, KnownIs
  <2>2. \A r \in Own : Granted(r)' = Granted(r) \/ Granted(r)' = 0
    BY <1>1, <1>2, <1>3, <1>4, Numbers DEF Own
  <2> QED BY <1>2, <1>3, <2>1, <2>2 DEF Known
<1>6. RowTokens' /\ ReuseElsewhere' /\ OtherTokens' = OtherTokens
  BY <1>1 DEF RowTokens, ReuseElsewhere, OtherTokens
<1>7. Held'
  BY <1>1, <1>5, <1>6 DEF Held
<1>8. Elsewheres'
  <2>1. ASSUME NEW o \in Outside, Asks(o)'
        PROVE  Asks(o) /\ req[o].key \notin Known'
    <3>1. Asks(o)
      BY <2>1 DEF Asks
    <3> QED BY <1>1, <1>5, <3>1 DEF Elsewheres
  <2> QED BY <1>1, <2>1 DEF Elsewheres
<1>9. Current'
  <2>1. \A u \in Tabs : u # t => (Asks(u)' <=> Asks(u))
    BY DEF Asks
  <2>2. ASSUME NEW r \in Own, Granted(r)' # 0
        PROVE  req'[r] = req[r] /\ Granted(r)' = Granted(r)
    BY <1>2, <1>3, <1>4, <2>2 DEF Own
  <2> QED BY <1>1, <1>2, <2>1, <2>2 DEF Current
<1> HIDE DEF k
<1>10. ASSUME k # 0
       PROVE  /\ \A j \in Jars : cookie[j] = k => j = JarOf[t]
              /\ \A u \in Tabs : Asked(u) # k
              /\ \A r \in Own : Granted(r) # k
              /\ \A s \in DOMAIN rows \ {other} : rows[s].prev # k
  <2>1. \A j \in Jars : cookie[j] = k => j = JarOf[t]
    BY <1>1, <1>5, <1>10 DEF Exclusive, k
  <2>2. ASSUME NEW u \in Tabs PROVE Asked(u) # k
    <3>1. CASE u = t
      BY <1>1, <1>10, <3>1
    <3>2. CASE u # t
      BY <1>1, <1>5, <1>10, <3>2 DEF Exclusive, OneTabEach, k
    <3> QED BY <3>1, <3>2
  <2>3. \A r \in Own : Granted(r) # k
    BY <1>1, <1>5, <1>10 DEF Exclusive, k
  <2>4. \A s \in DOMAIN rows \ {other} : rows[s].prev # k
    BY <1>1, <1>5, <1>10 DEF Retired, OneTabEach, k
  <2> QED BY <2>1, <2>2, <2>3, <2>4
<1>11. \A r \in Own : Granted(r)' = Granted(r) \/ (r \notin Tabs /\ Granted(r)' = 0)
  BY <1>1, <1>2, <1>3, <1>4, Numbers DEF Own
<1>12. Exclusive'
  <2>1. \A i, j \in Jars : cookie'[i] = cookie'[j] /\ cookie'[i] # 0 => i = j
    BY <1>1 DEF Exclusive
  <2>2. ASSUME NEW u \in Tabs, Asked(u)' # 0
        PROVE  /\ \A j \in Jars : cookie'[j] = Asked(u)' => j = JarOf[u]
               /\ \A v \in Tabs : Asked(v)' = Asked(u)' => v = u
               /\ \A r \in Own : Granted(r)' # Asked(u)'
    <3>1. CASE u = t
      BY <1>2, <1>3, <1>10, <1>11, <2>2, <3>1
    <3>2. CASE u # t
      BY <1>1, <1>2, <1>3, <1>10, <1>11, <2>2, <3>2 DEF Exclusive
    <3> QED BY <3>1, <3>2
  <2>3. ASSUME NEW r \in Own, Granted(r)' # 0
        PROVE  /\ \A j \in Jars : cookie'[j] # Granted(r)'
               /\ \A q \in Own : Granted(q)' = Granted(r)' => q = r
    BY <1>1, <1>11, <2>3 DEF Exclusive
  <2> QED BY <2>1, <2>2, <2>3 DEF Exclusive
<1>13. Retired'
  <2> SUFFICES ASSUME NEW s \in DOMAIN rows \ {other}, rows[s].prev # 0
               PROVE  /\ \A r \in Own : Granted(r)' # rows[s].prev
                      /\ \A u \in Tabs : Asked(u)' # rows[s].prev
                      /\ \A j \in Jars : cookie'[j] = rows[s].prev =>
                           \E u \in Tabs : JarOf[u] = j /\ Granted(u)' # 0
    BY DEF Retired
  <2> QED BY <1>1, <1>2, <1>3, <1>10, <1>11, Numbers DEF Retired
<1>14. Holding'
  BY <1>1, <1>2, <1>3 DEF Holding
<1> QED BY <1>6, <1>7, <1>8, <1>9, <1>12, <1>13, <1>14 DEF Tokens

LEMMA FreeIs == Free.tok = 0 /\ Free.pc = "free" /\ Free.cookie = "keep" /\ Free.out = "none"
BY DEF Free

LEMMA FreeShape == Shape(Free) /\ Unsent(Free)
BY FreeIs DEF Shape, Unsent, Running

LEMMA BootStep ==
  ASSUME Inv, TokensInv, OneTabEach, NEW t \in Tabs, Bootstrap(t)
  PROVE  TokensInv'
<1>1. /\ ~flying[t] /\ flying' = [flying EXCEPT ![t] = TRUE] /\ flying \in [Tabs -> BOOLEAN]
      /\ req' = [req EXCEPT ![t] = RefreshRequest(t)] /\ req \in [Reqs -> Request]
      /\ UNCHANGED <<rows, minted, cookie, access, call, other>>
  BY DEF Bootstrap, table, Inv, ServerInv, Requests, Pages
<1>2. /\ req'[t] = RefreshRequest(t) /\ \A o \in Reqs : o # t => req'[o] = req[o]
      /\ flying'[t] /\ \A u \in Tabs : u # t => flying'[u] = flying[u]
  BY <1>1, Numbers DEF Own
<1>3. Tokens'
  BY <1>1, <1>2, Launched, Numbers DEF Own
<1>4. Shapes'
  <2>1. Shape(req'[t])
    BY <1>2, RequestIs DEF Shape, Running
  <2> QED BY <1>1, <1>2, <2>1, Numbers DEF TokensInv, Shapes, Own
<1> QED BY <1>3, <1>4 DEF TokensInv, Tokens

\* An expired call: its answer brings no token.
LEMMA ReplyAuthTokens ==
  ASSUME Inv, TokensInv, OneTabEach, "refresh" \notin CallOps, NEW c \in Calls, ReplyAuth(c)
  PROVE  TokensInv'
<1>1. PICK t \in Tabs : t = TabOf[c]
  BY SlotsAssumption
<1>2. /\ req[c].cookie # "set" /\ call' = [call EXCEPT ![c].st = "waiting"]
      /\ flying' = [flying EXCEPT ![t] = TRUE] /\ flying \in [Tabs -> BOOLEAN]
      /\ req' = IF flying[t] THEN [req EXCEPT ![c] = Free]
                ELSE [req EXCEPT ![c] = Free, ![t] = RefreshRequest(t)]
      /\ req \in [Reqs -> Request] /\ UNCHANGED <<rows, minted, cookie, access, other>>
  BY <1>1 DEF ReplyAuth, Arrived, Refreshing, table, Inv, ServerInv, Requests, Pages
<1>3. /\ c \in Own /\ t \in Own /\ c # t /\ c \in Reqs /\ t \in Reqs
      /\ req'[c] = Free /\ \A o \in Reqs : o \notin {c, t} => req'[o] = req[o]
      /\ flying[t] => req'[t] = req[t]
      /\ ~flying[t] => req'[t] = RefreshRequest(t)
      /\ flying'[t] /\ \A u \in Tabs : u # t => flying'[u] = flying[u]
  BY <1>2, Numbers
<1>4. Shapes
  BY DEF TokensInv
<1>5. Tokens'
  <2>1. /\ \A o \in Outside : req'[o] = req[o]
        /\ \A u \in Tabs : u # t => req'[u] = req[u]
        /\ \A d \in Calls : req'[d] = req[d] \/ req'[d] = Free
    BY <1>3, Numbers
  <2>2. CASE ~flying[t]
    <3>1. req'[t] = RefreshRequest(t) /\ UNCHANGED <<rows, minted, other, cookie>>
      BY <1>2, <1>3, <2>2
    <3> QED BY <2>1, <2>2, <3>1, Launched
  <2>3. CASE flying[t]
    <3>1. \A o \in Own : req'[o] = req[o] \/ (o \notin Tabs /\ req'[o] = Free)
      BY <1>3, <2>1, <2>3, Numbers DEF Own
    <3>2. \A o \in Own : req'[o] = Free => Granted(o)' = 0 /\ ~Asks(o)'
      BY FreeIs DEF Granted, Asks, Running
    <3>3. \A o \in Own : \/ req'[o] = req[o]
                         \/ Granted(o)' = 0 /\ ~Asks(o)' /\ (o \in Tabs => Granted(o) = 0)
      BY <3>1, <3>2
    <3> QED BY <1>2, <2>1, <3>3, Finished
  <2> QED BY <2>2, <2>3
<1>6. Shapes'
  <2>1. Shape(req'[t])
    BY <1>3, <1>4, RequestIs DEF Shape, Running, Shapes
  <2>2. \A o \in Reqs : Shape(req'[o])
    BY <1>3, <1>4, <2>1, FreeShape DEF Shapes
  <2>3. \A d \in Calls : Unsent(call'[d].in) /\ (req'[d].pc # "free" => req'[d].op \in CallOps)
    <3>1. \A d \in Calls : call'[d].in = call[d].in
      BY <1>2 DEF Inv, Pages
    <3> QED BY <1>3, <1>4, <3>1, FreeIs, Numbers DEF Shapes
  <2>4. \A u \in Tabs : ~flying'[u] => req'[u] = Free
    BY <1>3, <1>4, Numbers DEF Shapes
  <2> QED BY <2>2, <2>3, <2>4 DEF Shapes
<1> QED BY <1>5, <1>6 DEF TokensInv, Tokens

\* The headers arrive: the token they bring moves from the request to the jar.
LEMMA HeadersTokens ==
  ASSUME Inv, TokensInv, "refresh" \notin CallOps, NEW r \in Own, Headers(r)
  PROVE  TokensInv'
<1> DEFINE t == TabFor(r)
<1>1. /\ RowTokens /\ Elsewheres /\ Held /\ Retired /\ Current /\ ReuseElsewhere /\ Exclusive
      /\ Holding /\ Shapes /\ r \in Reqs /\ t \in Tabs /\ JarOf[t] \in Jars /\ (r \in Tabs => r = t)
  BY Numbers, SlotsAssumption DEF TokensInv, TabFor, Own
<1>2. /\ req[r].pc = "done" /\ cookie' = Stored(JarOf[t], req[r])
      /\ req[r].cookie \in {"set", "clear"} /\ UNCHANGED <<rows, minted, other, flying, call>>
      /\ \A o \in Reqs : o # r => req'[o] = req[o]
      /\ req'[r].cookie = "stored" /\ req'[r].pc = "done" /\ req'[r].op = req[r].op
      /\ req'[r].tok = req[r].tok /\ req'[r].out = req[r].out
  <2>1. req \in [Reqs -> Request]
    BY DEF Inv, ServerInv, Requests
  <2>2. /\ req[r].pc = "done" /\ cookie' = Stored(JarOf[t], req[r])
        /\ req[r].cookie \in {"set", "clear"} /\ UNCHANGED <<rows, minted, other, flying, call>>
        /\ req' = [req EXCEPT ![r].cookie = "stored"]
    BY DEF Headers, table
  <2> DEFINE q == [req[r] EXCEPT !.cookie = "stored"]
  <2>3. req' = [req EXCEPT ![r] = q]
    BY <2>1, <2>2
  <2>4. /\ q.cookie = "stored" /\ q.pc = req[r].pc /\ q.op = req[r].op /\ q.tok = req[r].tok
        /\ q.out = req[r].out
    BY <1>1, <2>1 DEF Request
  <2> HIDE DEF q
  <2> QED BY <1>1, <2>1, <2>2, <2>3, <2>4
<1> HIDE DEF t
<1>3. /\ \A o \in Own \ {r} : req'[o] = req[o] /\ Granted(o)' = Granted(o)
                              /\ (Asks(o)' <=> Asks(o)) /\ Asked(o)' = Asked(o)
      /\ Granted(r)' = 0 /\ ~Asks(r) /\ ~Asks(r)' /\ Asked(r) = 0 /\ Asked(r)' = 0
      /\ \A o \in Outside : req'[o] = req[o] /\ (Asks(o)' <=> Asks(o))
  BY <1>2, Numbers DEF Granted, Asks, Asked, Running
<1>4. /\ \A u \in Tabs : Asked(u)' = Asked(u)
      /\ \A o \in Own : Asks(o)' => req'[o] = req[o] /\ Asks(o) /\ o # r
  BY <1>3, Numbers
<1>5. \A j \in Jars : j # JarOf[t] => cookie'[j] = cookie[j]
  BY <1>1, <1>2, StoredIs
<1>8. Shapes'
  <2>1. Shape(req[r]) /\ Shape(req'[r])
    BY <1>1, <1>2 DEF Shapes, Shape, Running
  <2>2. r \in Tabs => flying[r]
    BY <1>1, <1>2, FreeIs DEF Shapes
  <2> QED BY <1>1, <1>2, <2>1, <2>2, Numbers DEF Shapes
\* An answer that clears the cookie.
<1>6. CASE Granted(r) = 0
  <2>1. cookie'[JarOf[t]] = 0
    BY <1>1, <1>2, <1>6, StoredIs
  <2>2. NothingNew
    BY <1>3, <1>4, <1>5, <1>6, <2>1, Numbers DEF NothingNew
  <2>3. ASSUME NEW o \in Own, Asks(o)' PROVE o \in Tabs /\ req'[o] = req[o]
    <3>1. Running(req[o]) /\ req[o].op = "refresh" /\ req'[o] = req[o] /\ o \in Reqs
      BY <1>4, <2>3, Numbers DEF Asks
    <3> QED BY <1>1, <3>1, SlotOps DEF Own
  <2>4. \A o \in Own : Granted(o)' # 0 => req'[o] = req[o]
    BY <1>3
  <2>5. Tokens'
    BY <1>2, <1>3, <2>2, <2>3, <2>4, PageKept
  <2> QED BY <1>8, <2>5 DEF TokensInv, Tokens
<1>7. CASE Granted(r) # 0
  <2>1. cookie'[JarOf[t]] = Granted(r)
    BY <1>1, <1>2, <1>7, StoredIs
  <2>2. /\ \A j \in Jars : cookie[j] # Granted(r)
        /\ \A o \in Own : Granted(o) = Granted(r) => o = r
        /\ \A u \in Tabs : Asked(u) # Granted(r)
    BY <1>1, <1>7 DEF Exclusive
  <2>3. Known' \subseteq Known \cup {0}
    <3>1. Granted(r) \in Known
      BY KnownIs
    <3> QED BY <1>3, <1>4, <1>5, <2>1, <3>1 DEF Known
  <2>4. RowTokens' /\ ReuseElsewhere' /\ OtherTokens' = OtherTokens
    BY <1>1, <1>2 DEF RowTokens, ReuseElsewhere, OtherTokens
  <2>5. Held'
    BY <1>1, <1>2, <2>3, <2>4 DEF Held
  <2>6. Elsewheres'
    <3>1. ASSUME NEW o \in Outside, Asks(o)'
          PROVE  Asks(o) /\ req'[o] = req[o] /\ req[o].key \notin Known'
      <4>1. Asks(o) /\ req'[o] = req[o]
        BY <1>3, <3>1
      <4> QED BY <1>1, <2>3, <4>1 DEF Elsewheres
    <3> QED BY <1>1, <1>2, <3>1 DEF Elsewheres
  <2>7. Current'
    BY <1>1, <1>2, <1>3, <1>4, Numbers DEF Current
  <2>8. Exclusive'
    <3>1. \A i, j \in Jars : cookie'[i] = cookie'[j] /\ cookie'[i] # 0 => i = j
      BY <1>1, <1>5, <2>1, <2>2 DEF Exclusive
    <3>2. ASSUME NEW u \in Tabs, Asked(u)' # 0
          PROVE  /\ \A j \in Jars : cookie'[j] = Asked(u)' => j = JarOf[u]
                 /\ \A v \in Tabs : Asked(v)' = Asked(u)' => v = u
                 /\ \A o \in Own : Granted(o)' # Asked(u)'
      <4>1. Asked(u)' = Asked(u)
        BY <1>4, <3>2
      <4>2. \A j \in Jars : cookie'[j] = Asked(u) => j = JarOf[u]
        BY <1>1, <1>5, <2>1, <2>2, <3>2, <4>1 DEF Exclusive
      <4>3. \A v \in Tabs : Asked(v)' = Asked(u) => v = u
        BY <1>1, <1>4, <3>2, <4>1 DEF Exclusive
      <4>4. \A o \in Own : Granted(o)' # Asked(u)
        BY <1>1, <1>3, <3>2, <4>1 DEF Exclusive
      <4> QED BY <4>1, <4>2, <4>3, <4>4
    <3>3. ASSUME NEW o \in Own, Granted(o)' # 0
          PROVE  /\ \A j \in Jars : cookie'[j] # Granted(o)'
                 /\ \A q \in Own : Granted(q)' = Granted(o)' => q = o
      <4>1. o # r /\ Granted(o)' = Granted(o)
        BY <1>3, <3>3
      <4>2. \A j \in Jars : cookie'[j] # Granted(o)
        BY <1>1, <1>5, <2>1, <2>2, <3>3, <4>1 DEF Exclusive
      <4>3. \A q \in Own : Granted(q)' = Granted(o) => q = o
        BY <1>1, <1>3, <3>3, <4>1 DEF Exclusive
      <4> QED BY <4>1, <4>2, <4>3
    <3> QED BY <3>1, <3>2, <3>3 DEF Exclusive
  <2>9. Retired'
    <3> SUFFICES ASSUME NEW s \in DOMAIN rows \ {other}, rows[s].prev # 0
                 PROVE  /\ \A o \in Own : Granted(o)' # rows[s].prev
                        /\ \A u \in Tabs : Asked(u)' # rows[s].prev
                        /\ \A j \in Jars : cookie'[j] = rows[s].prev =>
                             \E u \in Tabs : JarOf[u] = j /\ Granted(u)' # 0
      BY <1>2 DEF Retired
    <3>1. /\ \A o \in Own : Granted(o) # rows[s].prev
          /\ \A u \in Tabs : Asked(u) # rows[s].prev
          /\ \A j \in Jars : cookie[j] = rows[s].prev =>
               \E u \in Tabs : JarOf[u] = j /\ Granted(u) # 0
      BY <1>1 DEF Retired
    <3>2. ASSUME NEW j \in Jars, cookie'[j] = rows[s].prev
          PROVE  \E u \in Tabs : JarOf[u] = j /\ Granted(u)' # 0
      <4>1. j # JarOf[t]
        BY <2>1, <3>1, <3>2
      <4>2. PICK u \in Tabs : JarOf[u] = j /\ Granted(u) # 0
        BY <1>5, <3>1, <3>2, <4>1
      <4>3. u # r
        BY <1>1, <4>1, <4>2
      <4> QED BY <1>3, <4>2, <4>3, Numbers
    <3> QED BY <1>3, <1>4, <3>1, <3>2
  <2>10. Holding'
    <3> SUFFICES ASSUME NEW j \in Jars, cookie'[j] # 0
                 PROVE  \/ \E s \in DOMAIN rows \ {other} : rows[s].token = cookie'[j]
                        \/ \E u \in Tabs : JarOf[u] = j /\ Granted(u)' # 0
      BY <1>2 DEF Holding
    <3>1. CASE j = JarOf[t]
      <4>1. req[r].sid \in DOMAIN rows /\ rows[req[r].sid].token = Granted(r)
        BY <1>1, <1>7 DEF Current
      <4>2. Granted(r) \in Known
        BY KnownIs
      <4>3. req[r].sid # other
        BY <1>1, <1>7, <4>1, <4>2 DEF Held, OtherTokens
      <4> QED BY <2>1, <3>1, <4>1, <4>3
    <3>2. CASE j # JarOf[t]
      <4>1. cookie'[j] = cookie[j]
        BY <1>5, <3>2
      <4>2. \A u \in Tabs : JarOf[u] = j /\ Granted(u) # 0 => u # r /\ Granted(u)' = Granted(u)
        BY <1>1, <1>3, <3>2, Numbers
      <4> QED BY <1>1, <4>1, <4>2 DEF Holding
    <3> QED BY <3>1, <3>2
  <2> QED BY <1>8, <2>4, <2>5, <2>6, <2>7, <2>8, <2>9, <2>10 DEF TokensInv
<1> QED BY <1>6, <1>7

\* A call ends, and its slot is emptied; another may carry its request on.
LEMMA CallLeft ==
  ASSUME Inv, TokensInv, "refresh" \notin CallOps, NEW c \in Calls,
         call' = [call EXCEPT ![c].st = "done"], UNCHANGED <<rows, minted, cookie, flying, other>>,
         \/ req' = [req EXCEPT ![c] = Free]
         \/ \E o \in Outside : req' = [req EXCEPT ![o] = req[c], ![c] = Free]
  PROVE  TokensInv'
<1>1. /\ req \in [Reqs -> Request] /\ c \in Own /\ c \notin Tabs /\ c \in Reqs /\ Shapes
  BY Numbers DEF TokensInv, Inv, ServerInv, Requests
<1>2. req'[c] = Free /\ \A o \in Own : o # c => req'[o] = req[o]
  BY <1>1, Numbers
<1>3. \A o \in Outside : req'[o] = req[o] \/ req'[o] = req[c]
  BY <1>1, Numbers
<1>4. ~(req[c].op = "refresh" /\ Running(req[c]))
  BY <1>1 DEF Shapes, Running
<1>5. Tokens'
  <2>1. Granted(c)' = 0 /\ ~Asks(c)'
    BY <1>2, FreeIs DEF Granted, Asks, Running
  <2>2. \A o \in Own : \/ req'[o] = req[o]
                       \/ Granted(o)' = 0 /\ ~Asks(o)' /\ (o \in Tabs => Granted(o) = 0)
    BY <1>1, <1>2, <2>1
  <2>3. \A o \in Outside : req'[o] = req[o] \/ ~Asks(o)'
    BY <1>3, <1>4 DEF Asks
  <2> QED BY <2>2, <2>3, Finished
<1>6. Shapes'
  <2>1. \A o \in Reqs : Shape(req'[o])
    BY <1>1, <1>2, <1>3, FreeShape, Numbers DEF Shapes
  <2>2. \A d \in Calls : Unsent(call'[d].in) /\ (req'[d].pc # "free" => req'[d].op \in CallOps)
    <3>1. \A d \in Calls : call'[d].in = call[d].in
      BY DEF Inv, Pages
    <3> QED BY <1>1, <1>2, <3>1, FreeIs, Numbers DEF Shapes
  <2>3. \A u \in Tabs : ~flying'[u] => req'[u] = Free
    BY <1>1, <1>2, Numbers DEF Shapes
  <2> QED BY <2>1, <2>2, <2>3 DEF Shapes
<1> QED BY <1>5, <1>6 DEF TokensInv, Tokens

LEMMA ReplyTokens ==
  ASSUME Inv, TokensInv, "refresh" \notin CallOps, NEW c \in Calls, Reply(c)
  PROVE  TokensInv'
<1>1. /\ call' = [call EXCEPT ![c].st = "done"] /\ req' = [req EXCEPT ![c] = Free]
      /\ req \in [Reqs -> Request] /\ UNCHANGED <<rows, minted, cookie, flying, other>>
  BY DEF Reply, table, Inv, ServerInv, Requests
<1> QED BY <1>1, CallLeft

LEMMA CallFailsTokens ==
  ASSUME Inv, TokensInv, "refresh" \notin CallOps, NEW c \in Calls, CallFails(c)
  PROVE  TokensInv'
<1>1. /\ call' = [call EXCEPT ![c].st = "done"]
      /\ \/ req' = [req EXCEPT ![c] = Free]
         \/ \E o \in Outside : req' = [req EXCEPT ![o] = req[c], ![c] = Free]
      /\ UNCHANGED <<rows, minted, cookie, flying, other>>
  BY DEF CallFails, Gone, CarriedOn, table
<1> QED BY <1>1, CallLeft

\* What a page sends again is no refresh and carries no answer.
LEMMA SentIs ==
  ASSUME "refresh" \notin CallOps, NEW rs, NEW in, Opens(in, rs), Unsent(in), NEW s, NEW f
  PROVE  LET q == [in EXCEPT !.sid = s, !.fresh = f]
         IN /\ Shape(q) /\ Unsent(q) /\ q.tok = 0 /\ ~(q.op = "refresh" /\ Running(q))
            /\ q.pc # "free" => q.op \in CallOps
<1> DEFINE q == [in EXCEPT !.sid = s, !.fresh = f]
<1>1. in \in Request /\ in.pc # "done"
  BY DEF Opens
<1>2. q.op = in.op /\ q.pc = in.pc /\ q.tok = in.tok /\ q.cookie = in.cookie /\ q.out = in.out
  BY <1>1 DEF Request
<1> HIDE DEF q
<1>3. Shape(q) /\ Unsent(q) /\ q.tok = 0 /\ ~(q.op = "refresh" /\ Running(q))
      /\ (q.pc # "free" => q.op \in CallOps)
  BY <1>1, <1>2 DEF Shape, Unsent, Running
<1> QED BY <1>3 DEF q

\* The refresh is settled, and its cookie was stored or it brought none.
LEMMA SettledTokens ==
  ASSUME Inv, TokensInv, "refresh" \notin CallOps, NEW t \in Tabs, flying[t], Granted(t) = 0,
         NEW token \in [sid: Nat, fresh: BOOLEAN], Settles(t, token),
         UNCHANGED <<rows, minted, cookie, other>>,
         req'[t] = Free, \A o \in Outside : req'[o] = req[o],
         \A u \in Tabs : u # t => req'[u] = req[u],
         \A c \in Calls :
           req'[c] = req[c] \/ (Shape(req'[c]) /\ Unsent(req'[c]) /\ ~Asks(c)')
  PROVE  TokensInv'
<1>1. /\ flying' = [flying EXCEPT ![t] = FALSE] /\ flying \in [Tabs -> BOOLEAN]
      /\ call' = [c \in Calls |->
                   IF c \in Waiting(t)
                   THEN [call[c] EXCEPT !.st = IF token = NoAccess THEN "done" ELSE "resent"]
                   ELSE call[c]]
      /\ \A c \in Calls : call[c] \in [st: {"idle", "sent", "waiting", "resent", "done"}, in: Request]
  BY DEF Settles, Landed, Inv, Pages
<1>2. Shapes /\ t \in Reqs /\ t \in Own
  BY Numbers DEF TokensInv
<1>3. Tokens'
  <2>1. Granted(t)' = 0 /\ ~Asks(t)'
    BY FreeIs DEF Granted, Asks, Running
  <2>2. \A c \in Calls : req'[c] = req[c] \/ (Granted(c)' = 0 /\ ~Asks(c)')
    BY DEF Granted, Unsent
  <2>3. \A o \in Own : \/ req'[o] = req[o]
                       \/ Granted(o)' = 0 /\ ~Asks(o)' /\ (o \in Tabs => Granted(o) = 0)
    BY <2>1, <2>2, Numbers DEF Own
  <2> QED BY <2>3, Finished
<1>4. Shapes'
  <2>1. \A c \in Calls : Shape(req'[c]) /\ (req'[c].pc # "free" => req'[c].op \in CallOps)
    BY <1>2, Numbers DEF Shapes, Unsent
  <2>2. \A o \in Reqs : Shape(req'[o])
    BY <1>2, <2>1, FreeShape, Numbers DEF Shapes, Own
  <2>3. \A c \in Calls : Unsent(call'[c].in)
    <3>1. \A c \in Calls : call'[c].in = call[c].in
      BY <1>1
    <3> QED BY <1>2, <3>1 DEF Shapes
  <2>4. \A u \in Tabs : ~flying'[u] => req'[u] = Free
    BY <1>1, <1>2 DEF Shapes
  <2> QED BY <2>1, <2>2, <2>3, <2>4 DEF Shapes
<1> QED BY <1>3, <1>4 DEF TokensInv, Tokens

LEMMA RefreshReplyTokens ==
  ASSUME Inv, TokensInv, "refresh" \notin CallOps, NEW t \in Tabs, RefreshReply(t)
  PROVE  TokensInv'
<1> DEFINE ok == req[t].out = "ok"
           token == IF ok THEN [sid |-> req[t].sid, fresh |-> TRUE] ELSE NoAccess
           Resent(q) == [call[q].in EXCEPT !.sid = token.sid, !.fresh = TRUE]
<1>1. /\ flying[t] /\ Granted(t) = 0 /\ Settles(t, token)
      /\ req' = [q \in Reqs |-> CASE q = t -> Free
                                  [] q \in Waiting(t) /\ ok -> Resent(q)
                                  [] OTHER -> req[q]]
      /\ UNCHANGED <<rows, minted, cookie, other>>
  BY DEF RefreshReply, Arrived, Granted, table
<1>2. token \in [sid: Nat, fresh: BOOLEAN] /\ Shapes /\ \A c \in Calls : Opens(call[c].in, rows)
  BY Numbers DEF NoAccess, Request, Inv, Pages, TokensInv
<1> HIDE DEF ok, token
<1>3. \A c \in Calls : /\ Shape(Resent(c)) /\ Unsent(Resent(c))
                       /\ ~(Resent(c).op = "refresh" /\ Running(Resent(c)))
  <2> SUFFICES ASSUME NEW c \in Calls
               PROVE  /\ Shape(Resent(c)) /\ Unsent(Resent(c))
                      /\ ~(Resent(c).op = "refresh" /\ Running(Resent(c)))
    OBVIOUS
  <2>1. Opens(call[c].in, rows) /\ Unsent(call[c].in)
    BY <1>2 DEF Shapes
  <2> QED BY <2>1, SentIs
<1> HIDE DEF Resent
<1>4. /\ req'[t] = Free /\ \A o \in Outside : req'[o] = req[o]
      /\ \A u \in Tabs : u # t => req'[u] = req[u]
      /\ \A c \in Calls : req'[c] = req[c] \/ req'[c] = Resent(c)
  BY <1>1, Numbers DEF Waiting
<1>5. \A c \in Calls : req'[c] = req[c] \/ (Shape(req'[c]) /\ Unsent(req'[c]) /\ ~Asks(c)')
  BY <1>3, <1>4 DEF Asks
<1> QED BY <1>1, <1>2, <1>4, <1>5, SettledTokens

\* The refresh fails without a loss: the server never had it, had refused it,
\* or its cookie was stored.
LEMMA RefreshFailsTokens ==
  ASSUME Inv, TokensInv, "refresh" \notin CallOps, NEW t \in Tabs, RefreshFails(t), ~lost'
  PROVE  TokensInv'
<1>1. /\ flying[t] /\ Settles(t, NoAccess) /\ UNCHANGED <<rows, minted, cookie, other>>
      /\ req' = [req EXCEPT ![t] = Free] /\ req[t].cookie # "set"
  BY DEF RefreshFails, Gone, table
<1>2. /\ req'[t] = Free /\ \A o \in Outside : req'[o] = req[o]
      /\ \A u \in Tabs : u # t => req'[u] = req[u]
      /\ \A c \in Calls : req'[c] = req[c]
  <2>1. req \in [Reqs -> Request]
    BY DEF Inv, ServerInv, Requests
  <2> QED BY <1>1, <2>1, Numbers
<1>3. Granted(t) = 0 /\ NoAccess \in [sid: Nat, fresh: BOOLEAN]
  BY <1>1 DEF Granted, NoAccess
<1> QED BY <1>1, <1>2, <1>3, SettledTokens

\* What arrives at the server has no answer yet.
LEMMA InputIs ==
  ASSUME NEW op, NEW in \in Inputs(op)
  PROVE  /\ in.op = op /\ in.pc = First(op) /\ in.tok = 0 /\ in.cookie = "keep" /\ in.out = "none"
         /\ in.pc \notin {"free", "done"} /\ (op = "refresh" => in.pc = "current")
         /\ Shape(in)
<1>1. PICK s \in Callers(op), k \in Keys(op), p \in TypedPasswords(op), c \in TypedCodes(op) :
        in = Input(op, s, k, p, c)
  BY DEF Inputs
<1>2. in.op = op /\ in.pc = First(op) /\ in.tok = 0 /\ in.cookie = "keep" /\ in.out = "none"
  BY <1>1 DEF Input, Free
<1>3. First(op) \notin {"free", "done"} /\ (op = "refresh" => First(op) = "current")
  BY DEF First, Authenticated
<1> QED BY <1>2, <1>3 DEF Shape, Running

LEMMA SendTokens ==
  ASSUME Inv, TokensInv, "refresh" \notin CallOps, NEW c \in Calls, Send(c)
  PROVE  TokensInv'
<1>1. UNCHANGED <<rows, minted, cookie, access, flying, other>>
  BY DEF Send, table
<1>2. /\ call \in [Calls -> [st: {"idle", "sent", "waiting", "resent", "done"}, in: Request]]
      /\ req \in [Reqs -> Request] /\ Tables /\ CallOps \subseteq Ops /\ Shapes
      /\ c \in Own /\ c \notin Tabs /\ c \in Reqs
  BY SlotsAssumption, Numbers DEF Inv, ServerInv, Requests, Pages, TokensInv
<1>3. PICK op \in CallOps :
        \E in \in {[i EXCEPT !.sid = 0, !.fresh = FALSE] : i \in Inputs(op)} :
          /\ call' = [call EXCEPT ![c] = [st |-> "sent", in |-> in]]
          /\ req' = [req EXCEPT ![c] = IF op \in Authenticated THEN Signed(in, TabOf[c]) ELSE in]
  BY DEF Send
<1>4. PICK i \in Inputs(op) :
         LET in == [i EXCEPT !.sid = 0, !.fresh = FALSE]
         IN /\ call' = [call EXCEPT ![c] = [st |-> "sent", in |-> in]]
            /\ req' = [req EXCEPT ![c] = IF op \in Authenticated THEN Signed(in, TabOf[c]) ELSE in]
  BY <1>3
<1>5. PICK in : in = [i EXCEPT !.sid = 0, !.fresh = FALSE]
  OBVIOUS
<1>6. PICK sent : sent = IF op \in Authenticated THEN Signed(in, TabOf[c]) ELSE in
  OBVIOUS
<1>7. /\ call' = [call EXCEPT ![c] = [st |-> "sent", in |-> in]]
       /\ req' = [req EXCEPT ![c] = sent]
  BY <1>4, <1>5, <1>6
<1>8. Opens(in, rows) /\ Unsent(in) /\ Shape(in) /\ in.op = op
  <2>1. Opens(i, rows) /\ Unsent(i)
    BY <1>2, InputsOpen, InputIs DEF Unsent
  <2>2. PICK f \in BOOLEAN : f = FALSE
    OBVIOUS
  <2>3. in = [i EXCEPT !.sid = 0, !.fresh = f]
    BY <1>5, <2>2
  <2>4. Opens(in, rows) /\ in.op = i.op
    BY <2>1, <2>3, SignedOpens
  <2>5. Unsent(in) /\ Shape(in)
    BY <2>1, <2>3, SentIs
  <2> QED BY <2>4, <2>5, InputIs
<1>9. /\ Shape(sent) /\ sent.tok = 0 /\ ~(sent.op = "refresh" /\ Running(sent))
      /\ sent.pc # "free" => sent.op \in CallOps
  <2>1. CASE op \in Authenticated
    <3>1. PICK n, f : n = access[TabOf[c]].sid /\ f = access[TabOf[c]].fresh
      OBVIOUS
    <3>2. sent = [in EXCEPT !.sid = n, !.fresh = f]
      BY <1>6, <2>1, <3>1 DEF Signed
    <3> QED BY <1>8, <3>2, SentIs
  <2>2. CASE op \notin Authenticated
    BY <1>6, <1>8, <2>2 DEF Unsent
  <2> QED BY <2>1, <2>2
<1>10. req'[c] = sent /\ \A o \in Reqs : o # c => req'[o] = req[o]
  BY <1>2, <1>7
<1>11. Tokens'
  <2>1. Granted(c)' = 0 /\ ~Asks(c)'
    BY <1>9, <1>10 DEF Granted, Asks
  <2>2. \A o \in Own : o # c => req'[o] = req[o] /\ Granted(o)' = Granted(o)
    BY <1>10, Numbers DEF Granted
  <2>3. \A u \in Tabs : Asked(u)' = Asked(u)
    BY <1>2, <1>10, Numbers DEF Asked, Asks
  <2>4. NothingNew
    BY <1>1, <1>2, <2>1, <2>2, <2>3 DEF NothingNew
  <2>5. \A o \in Own : Asks(o)' => o \in Tabs /\ req'[o] = req[o]
    <3> SUFFICES ASSUME NEW o \in Own, Asks(o)' PROVE o \in Tabs /\ req'[o] = req[o]
      OBVIOUS
    <3>1. o # c /\ req'[o] = req[o] /\ o \in Reqs
      BY <2>1, <2>2, Numbers
    <3>2. Running(req[o]) /\ req[o].op = "refresh"
      BY <3>1 DEF Asks
    <3> QED BY <1>2, <3>1, <3>2, SlotOps DEF Own
  <2>6. \A o \in Outside : req'[o] = req[o]
    BY <1>2, <1>10, Numbers
  <2>7. \A o \in Own : Granted(o)' # 0 => req'[o] = req[o]
    BY <2>1, <2>2
  <2> QED BY <1>1, <2>4, <2>5, <2>6, <2>7, PageKept
<1>12. Shapes'
  <2>1. \A d \in Calls : Unsent(call'[d].in)
    BY <1>2, <1>7, <1>8 DEF Shapes
  <2> QED BY <1>1, <1>2, <1>9, <1>10, <2>1, Numbers DEF Shapes
<1> QED BY <1>11, <1>12 DEF TokensInv, Tokens

LEMMA ElsewhereTokens ==
  ASSUME Inv, TokensInv, NEW r \in Outside, Elsewhere(r)
  PROVE  TokensInv'
<1>1. /\ UNCHANGED <<rows, minted, cookie, access, flying, call, other>> /\ req \in [Reqs -> Request]
      /\ r \in Reqs /\ r \notin Own
  BY Numbers DEF Elsewhere, table, Inv, ServerInv, Requests
<1>2. PICK op \in OutsideOps :
        \E in \in Inputs(op) :
          req' = [req EXCEPT ![r] = in] /\ (op = "refresh" => in.key \in OtherTokens)
  BY DEF Elsewhere, Receive
<1>3. PICK in \in Inputs(op) :
         req' = [req EXCEPT ![r] = in] /\ (op = "refresh" => in.key \in OtherTokens)
  BY <1>2
<1>4. req'[r] = in /\ \A o \in Reqs : o # r => req'[o] = req[o]
  BY <1>1, <1>3
<1>5. /\ \A o \in Own : req'[o] = req[o] /\ Granted(o)' = Granted(o)
      /\ \A t \in Tabs : Asked(t)' = Asked(t) /\ (Asks(t)' <=> Asks(t))
  BY <1>1, <1>4, Numbers DEF Granted, Asked, Asks
<1>6. SameTokens /\ NothingNew
  BY <1>1, <1>5 DEF SameTokens, NothingNew
<1>7. RowTokens' /\ Held' /\ Exclusive' /\ Retired' /\ Holding' /\ Known' = Known
  <2>1. Known' = Known
    BY <1>1, <1>5 DEF Known
  <2> QED BY <1>6, <2>1, Kept
<1>8. Shapes'
  <2>1. Shape(in)
    BY InputIs
  <2> QED BY <1>1, <1>4, <1>5, <2>1, Numbers DEF TokensInv, Shapes
<1>9. Elsewheres'
  <2> SUFFICES ASSUME NEW o \in Outside, Asks(o)'
               PROVE  /\ req'[o].key \in 1 .. minted /\ other # 0 /\ req'[o].key \notin Known
                      /\ \A s \in DOMAIN rows \ {other} :
                           req'[o].key # rows[s].token /\ req'[o].key # rows[s].prev
                      /\ req'[o].pc \in {"rotate", "reuse"} => req'[o].sid = other
    BY <1>1, <1>7 DEF Elsewheres
  <2>1. CASE o # r
    <3>1. req'[o] = req[o] /\ Asks(o)
      BY <1>4, <2>1, Numbers DEF Asks
    <3> QED BY <3>1 DEF TokensInv, Elsewheres
  <2>2. CASE o = r
    <3>1. in.op = "refresh" /\ op = "refresh" /\ in.pc = "current" /\ in.key \in OtherTokens
      BY <1>3, <1>4, <2>2, InputIs DEF Asks
    <3>2. other \in DOMAIN rows /\ (in.key = rows[other].token \/ in.key = rows[other].prev)
      BY <3>1 DEF OtherTokens
    <3>3. /\ rows[other].token \in 1 .. minted /\ rows[other].prev \in 0 .. minted
          /\ rows[other].prev # 0 /\ other # 0 /\ minted \in Nat
      <4>1. other # 0
        BY <3>2, InTable DEF Inv, ServerInv, Tables
      <4> QED BY <3>2, <4>1, Numbers DEF TokensInv, RowTokens
    <3>4. in.key \in 1 .. minted /\ in.key # 0
      BY <3>2, <3>3
    <3>5. in.key \notin Known
      BY <3>1, <3>4 DEF TokensInv, Held
    <3>6. \A s \in DOMAIN rows \ {other} : in.key # rows[s].token /\ in.key # rows[s].prev
      BY <3>2, <3>3 DEF TokensInv, RowTokens
    <3> QED BY <1>4, <2>2, <3>1, <3>3, <3>4, <3>5, <3>6
  <2> QED BY <2>1, <2>2
<1>10. Current'
  BY <1>1, <1>5, Numbers DEF TokensInv, Current
<1>11. ReuseElsewhere'
  BY <1>1 DEF TokensInv, ReuseElsewhere
<1> QED BY <1>7, <1>8, <1>9, <1>10, <1>11 DEF TokensInv

\* A page drops its access token, or nothing happens.
LEMMA RestTokens ==
  ASSUME Inv, TokensInv, UNCHANGED <<rows, minted, req, cookie, flying, call, other>>
  PROVE  TokensInv'
<1>1. SameTokens /\ \A r \in Reqs : Granted(r)' = Granted(r) /\ Asked(r)' = Asked(r)
  BY DEF SameTokens, Granted, Asked, Asks
<1>2. \A r \in Reqs : Asks(r)' <=> Asks(r)
  BY DEF Asks
<1>3. NothingNew
  BY <1>1, Numbers DEF NothingNew
<1>4. RowTokens' /\ Held' /\ Exclusive' /\ Retired' /\ Holding'
  BY <1>1, <1>3, Kept
<1>5. Shapes' /\ ReuseElsewhere'
  BY DEF TokensInv, Shapes, ReuseElsewhere
<1>6. Known' = Known
  BY <1>1, Numbers DEF Known
<1>7. Elsewheres' /\ Current'
  BY <1>1, <1>2, <1>6, Numbers DEF TokensInv, Elsewheres, Current
<1> QED BY <1>4, <1>5, <1>7 DEF TokensInv

-------------------------------------------------------------------------------
(* The theorems.                                                            *)

LEMMA InitTokens == Init => TokensInv
<1> SUFFICES ASSUME Init PROVE TokensInv
  OBVIOUS
<1>1. Inv
  BY InitInv
<1>2. /\ \A r \in Reqs : req[r] = Free /\ Granted(r) = 0 /\ ~Asks(r)
      /\ \A t \in Tabs : Asked(t) = 0 /\ ~Asks(t)
      /\ \A r \in Own : Granted(r) = 0
      /\ \A c \in Calls : req[c] = Free /\ call[c].in = Free
  <2>1. \A r \in Reqs : req[r] = Free /\ Granted(r) = 0 /\ ~Asks(r)
    BY FreeIs DEF Init, Granted, Asks, Running
  <2>2. \A c \in Calls : call[c].in = Free
    BY DEF Init
  <2> QED BY <1>1, <2>1, <2>2, Numbers DEF Asked
<1>3. Shapes
  BY <1>1, <1>2, FreeIs, FreeShape, Numbers DEF Shapes
<1>4. Elsewheres /\ Current
  BY <1>1, <1>2, Numbers DEF Elsewheres, Current
<1>5. CASE rows = <<>> /\ minted = 0 /\ other = 0 /\ cookie = [j \in Jars |-> 0]
  <2>1. RowTokens /\ Retired /\ ReuseElsewhere
    BY <1>5 DEF RowTokens, Retired, ReuseElsewhere
  <2>2. Known \subseteq {0}
    BY <1>2, <1>5 DEF Known
  <2>3. Held /\ Exclusive /\ Holding
    BY <1>2, <1>5, <2>2 DEF Held, Exclusive, Holding
  <2> QED BY <1>3, <1>4, <2>1, <2>3 DEF TokensInv
<1>6. CASE /\ rows = <<Row(1), [Row(3) EXCEPT !.prev = 2]>> /\ minted = 3 /\ other = 2
           /\ \E own \in Jars : cookie = [j \in Jars |-> IF j = own THEN 1 ELSE 0]
  <2>1. PICK own \in Jars : cookie = [j \in Jars |-> IF j = own THEN 1 ELSE 0]
    BY <1>6
  <2>2. PICK a, b : a = Row(1) /\ b = [Row(3) EXCEPT !.prev = 2]
    OBVIOUS
  <2>3. /\ a.token = 1 /\ a.prev = 0 /\ a.reason = "live"
        /\ b.token = 3 /\ b.prev = 2 /\ b.reason = "live"
    BY <2>2 DEF Row
  <2>4. DOMAIN rows = {1, 2} /\ rows[1] = a /\ rows[2] = b
    BY <1>6, <2>2
  <2>5. RowTokens /\ ReuseElsewhere /\ OtherTokens = {3, 2}
    BY <1>6, <2>3, <2>4 DEF RowTokens, ReuseElsewhere, OtherTokens
  <2>6. Retired
    BY <1>6, <2>3, <2>4 DEF Retired
  <2>7. Known \subseteq {0, 1}
    BY <1>2, <2>1 DEF Known
  <2>8. Held
    BY <1>6, <2>5, <2>7 DEF Held
  <2>9. Exclusive
    BY <1>2, <2>1 DEF Exclusive
  <2>10. Holding
    BY <1>6, <2>1, <2>3, <2>4 DEF Holding
  <2> QED BY <1>3, <1>4, <2>5, <2>6, <2>8, <2>9, <2>10 DEF TokensInv
<1> QED BY <1>5, <1>6 DEF Init

\* Once a token was lost nothing is claimed, and it stays lost.
LEMMA LostStays == [Next]_bvars /\ lost => lost'
<1> SUFFICES ASSUME [Next]_bvars, lost PROVE lost'
  OBVIOUS
<1>1. ASSUME NEW t \in Tabs, Page(t) PROVE lost'
  BY <1>1 DEF Page, Bootstrap, RefreshReply, RefreshFails, Reload, ReplyAuth, Reply, CallFails
<1>2. CASE UNCHANGED lost
  BY <1>2
<1> QED BY <1>1, <1>2
     DEF Next, Server, Headers, AccessLapses, Send, Elsewhere, pages, bvars

LEMMA NextTokens ==
  ASSUME OneTabEach, "refresh" \notin CallOps
  PROVE  Inv /\ (~lost => TokensInv) /\ [Next]_bvars => (~lost => TokensInv)'
<1> SUFFICES ASSUME Inv, ~lost => TokensInv, [Next]_bvars, ~lost' PROVE TokensInv'
  OBVIOUS
<1>0. TokensInv
  BY LostStays
<1>1. ASSUME NEW r \in Reqs, Server(r) PROVE TokensInv'
  <2>1. Step(r) /\ UNCHANGED pages
    BY <1>1 DEF Server
  <2>2. CASE IssueSession(r)
    BY <1>0, <2>1, <2>2, IssueStep
  <2>3. CASE Rotate(r)
    BY <1>0, <2>1, <2>3, RenewStep
  <2>4. CASE FindCurrent(r) \/ FindPrevious(r) \/ RevokeReused(r)
    BY <1>0, <2>1, <2>4, LookStep
  <2> QED BY <1>0, <2>1, <2>2, <2>3, <2>4, PlainStep
<1>2. ASSUME NEW t \in Tabs, Page(t) PROVE TokensInv'
  <2>1. CASE Reload(t)
    BY <1>0, <2>1, RestTokens DEF Reload, vars
  <2> QED BY <1>0, <1>2, <2>1, BootStep, RefreshReplyTokens, RefreshFailsTokens, ReplyAuthTokens,
             ReplyTokens, CallFailsTokens DEF Page
<1>3. ASSUME NEW t \in Tabs, AccessLapses(t) PROVE TokensInv'
  BY <1>0, <1>3, RestTokens DEF AccessLapses, vars
<1>4. CASE UNCHANGED bvars
  BY <1>0, <1>4, RestTokens DEF bvars, vars, pages
<1>5. ASSUME NEW r \in Own, Headers(r) PROVE TokensInv'
  BY <1>0, <1>5, HeadersTokens
<1> QED BY <1>0, <1>1, <1>2, <1>3, <1>4, <1>5, SendTokens, ElsewhereTokens, LapsePlain DEF Next, Own

LEMMA TokensHold ==
  ASSUME OneTabEach, "refresh" \notin CallOps
  PROVE  Spec => [](~lost => TokensInv)
<1>1. Init => (~lost => TokensInv)
  BY InitTokens
<1>2. Inv /\ (~lost => TokensInv) /\ [Next]_bvars => (~lost => TokensInv)'
  BY NextTokens
<1> QED BY <1>1, <1>2, Invariant, PTL DEF Spec

\* refreshAccessToken and rotateAuthSession: as long as no refresh answer is
\* lost before its cookie is stored, browsers that have a tab each never
\* present a refresh token they had retired, so that the server ends no session
\* of theirs for reuse; other calls may fail, and pages be reloaded, at any
\* time.  Pages refresh only through refreshAccessToken.
THEOREM NeverReused ==
  ASSUME OneTabEach, "refresh" \notin CallOps
  PROVE  Spec => []NoSelfReuse
<1>1. (~lost => TokensInv) => NoSelfReuse
  BY DEF TokensInv, ReuseElsewhere, NoSelfReuse
<1> QED BY <1>1, TokensHold, PTL

\* Set-Cookie against refreshAccessToken: under the same conditions what a jar
\* holds renews a session of its browser, whatever the order in which headers
\* and bodies of other answers arrive, unless a refresh is in flight.
THEOREM JarRenews ==
  ASSUME OneTabEach, "refresh" \notin CallOps
  PROVE  Spec => []JarIsCurrent
<1>1. (~lost => TokensInv) => JarIsCurrent
  <2> SUFFICES ASSUME TokensInv, NEW j \in Jars, cookie[j] # 0
               PROVE  \/ \E s \in DOMAIN rows \ {other} : rows[s].token = cookie[j]
                      \/ \E t \in Tabs : JarOf[t] = j /\ flying[t]
    BY DEF JarIsCurrent
  <2>1. ASSUME NEW t \in Tabs, Granted(t) # 0 PROVE flying[t]
    BY <2>1, FreeIs DEF TokensInv, Shapes, Granted
  <2> QED BY <2>1 DEF TokensInv, Holding
<1> QED BY <1>1, TokensHold, PTL

================================================================================
