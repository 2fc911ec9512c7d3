---------------------------- MODULE AgentRun_proofs ----------------------------
(***************************************************************************)
(* Theorems about Devices, as AgentRun drives it: an agent that starts,    *)
(* crashes and reconnects as often as it likes, beside any number of       *)
(* requests of the dashboard and of another computer.                      *)
(***************************************************************************)
EXTENDS AgentRun, TableLemmas

-------------------------------------------------------------------------------
(* The invariant.                                                           *)

Tables ==
  /\ devices \in Seq(Device) /\ codes \in Seq(Code)
  /\ minted \in Nat /\ retired \subseteq 1..minted

\* A code that was redeemed or cut is used, so that no claim finds it.
CodesSpent ==
  \A c \in DOMAIN codes :
    /\ codes[c].claims <= 1
    /\ codes[c].claims > 0 => codes[c].used
    /\ codes[c].cut => codes[c].used /\ codes[c].claims = 0

\* A secret that no device has, or had.
New(s) == s \in 1..minted /\ s \notin retired /\ \A d \in DOMAIN devices : devices[d].secret # s

\* A device's secret was minted, is not retired, and is that device's alone;
\* a row that is gone has none.
SecretsLive ==
  /\ \A d \in DOMAIN devices : devices[d].secret \in 0..minted /\ devices[d].secret \notin retired
  /\ \A d \in DOMAIN devices : devices[d].secret # 0 => devices[d].exists
  /\ \A d, e \in DOMAIN devices : d # e /\ devices[d].secret # 0 => devices[d].secret # devices[e].secret

\* A request that is past its SELECT names a row that is there; an enrolment
\* that has its code holds a secret nobody has yet.
Placed(q) ==
  /\ q.pc \in {"setting", "delete", "revoke"} => q.dev \in DOMAIN devices
  /\ q.pc = "setting" => q.seen \in Device
  /\ q.pc \in {"owned", "setting"} /\ q.op = "permissions" => q.cap \in Caps
  /\ q.pc = "claim" => q.key \in DOMAIN codes /\ q.dev \in Nat
  /\ q.pc = "install" => New(q.made)

Requests ==
  /\ req \in [Reqs -> Request]
  /\ \A r \in Reqs : Placed(req[r])
  /\ \A r, o \in Reqs : r # o /\ req[r].pc = "install" /\ req[o].pc = "install"
                          => req[r].made # req[o].made

Inv == Tables /\ CodesSpent /\ SecretsLive /\ Requests

-------------------------------------------------------------------------------
(* One request moves.                                                       *)

\* It moves without a new secret; the tables are as they were, or have grown.
LEMMA Moves ==
  ASSUME Inv, NEW r, NEW q \in Request, req' = [req EXCEPT ![r] = q],
         q.pc # "install", Placed(q)',
         DOMAIN devices \subseteq DOMAIN devices', DOMAIN codes \subseteq DOMAIN codes',
         \A s : New(s) => New(s)'
  PROVE  Requests'
<1>1. req' \in [Reqs -> Request]
  BY DEF Inv, Requests
<1>2. \A o \in Reqs : req'[o] = IF o = r THEN q ELSE req[o]
  BY DEF Inv, Requests
<1>3. \A o \in Reqs : Placed(req[o]) => Placed(req[o])'
  BY DEF Placed
<1>4. ASSUME NEW o \in Reqs PROVE Placed(req[o])'
  <2>1. CASE o = r
    BY <1>2, <2>1 DEF Placed
  <2>2. CASE o # r
    BY <1>2, <2>2 DEF Placed, Inv, Requests
  <2> QED BY <2>1, <2>2
<1>5. \A x, y \in Reqs : x # y /\ req'[x].pc = "install" /\ req'[y].pc = "install"
                           => req'[x].made # req'[y].made
  BY <1>2 DEF Inv, Requests
<1> QED BY <1>1, <1>4, <1>5 DEF Requests
\* It is answered.
LEMMA Answers ==
  ASSUME Inv, NEW r \in Reqs, NEW out \in {"ok", "missing", "refused"}, Answer(r, out)
  PROVE  \E q \in Request : req' = [req EXCEPT ![r] = q] /\ q.pc = "done"
<1>1. req[r] \in Request
  BY DEF Inv, Requests
<1>2. req[r].made \in Nat /\ req[r].dev \in Nat
  BY <1>1 DEF Request
<1> DEFINE q == [Free EXCEPT !.pc = "done", !.out = out, !.made = req[r].made, !.dev = req[r].dev]
<1>3. q \in Request /\ q.pc = "done"
  BY <1>2 DEF Free, Request, Labels
<1>4. req' = [req EXCEPT ![r] = q]
  BY DEF Answer
<1> QED BY <1>3, <1>4

LEMMA AnswerMoves ==
  ASSUME Inv, NEW r \in Reqs, NEW out \in {"ok", "missing", "refused"}, Answer(r, out),
         DOMAIN devices \subseteq DOMAIN devices', DOMAIN codes \subseteq DOMAIN codes',
         \A s : New(s) => New(s)'
  PROVE  Requests'
<1>1. PICK q \in Request : req' = [req EXCEPT ![r] = q] /\ q.pc = "done"
  BY Answers
<1>2. Placed(q)' /\ q.pc # "install"
  BY <1>1 DEF Placed
<1> QED BY <1>1, <1>2, Moves

\* A request that only reads.
LEMMA Reads ==
  ASSUME Inv, UNCHANGED table, Requests'
  PROVE  Inv'
BY DEF Inv, table, Tables, CodesSpent, SecretsLive

LEMMA ReadMoves ==
  ASSUME Inv, UNCHANGED table, NEW r, NEW q \in Request, req' = [req EXCEPT ![r] = q],
         q.pc # "install", Placed(q)
  PROVE  Inv'
<1>1. Placed(q)'
  BY DEF Placed, New, table
<1>2. /\ DOMAIN devices \subseteq DOMAIN devices' /\ DOMAIN codes \subseteq DOMAIN codes'
      /\ \A s : New(s) => New(s)'
  BY DEF New, table
<1>3. Requests'
  BY <1>1, <1>2, Moves
<1> QED BY <1>3, Reads

LEMMA ReadAnswers ==
  ASSUME Inv, UNCHANGED table, NEW r \in Reqs, NEW out \in {"ok", "missing", "refused"}, Answer(r, out)
  PROVE  Inv'
<1>1. PICK q \in Request : req' = [req EXCEPT ![r] = q] /\ q.pc = "done"
  BY Answers
<1>2. Placed(q) /\ q.pc # "install"
  BY <1>1 DEF Placed
<1> QED BY <1>1, <1>2, ReadMoves

LEMMA Row ==
  ASSUME Inv, NEW d \in DOMAIN devices
  PROVE  devices[d] \in Device /\ d \in Nat \ {0}
BY ElementOfSeq, LenProperties DEF Inv, Tables

LEMMA CodeRow ==
  ASSUME Inv, NEW c \in DOMAIN codes
  PROVE  codes[c] \in Code /\ c \in Nat \ {0}
BY ElementOfSeq, LenProperties DEF Inv, Tables

LEMMA Looking ==
  ASSUME Inv, NEW r \in Reqs,
         GetOwned(r) \/ SelectCode(r) \/ LoadEnrolled(r) \/ Authenticate(r)
           \/ AuthenticateAgent(r) \/ LoadConfig(r)
  PROVE  Inv'
<1>1. req[r] \in Request
  BY DEF Inv, Requests
<1>2. CASE GetOwned(r)
  <2>1. CASE Answer(r, "missing")
    BY <1>2, <2>1, ReadAnswers DEF GetOwned
  <2>2. CASE Exists(req[r].dev) /\ req' = [req EXCEPT ![r].pc = AfterOwned(req[r].op), ![r].seen = devices[req[r].dev]]
    <3> DEFINE q == [req[r] EXCEPT !.pc = AfterOwned(req[r].op), !.seen = devices[req[r].dev]]
    <3>1. req[r].dev \in DOMAIN devices /\ devices[req[r].dev] \in Device
      BY <2>2, Row DEF Exists
    <3>2. AfterOwned(req[r].op) \in {"setting", "retire", "delete", "revoke"}
      BY <1>2 DEF GetOwned, At, AfterOwned, Owned
    <3>3. q \in Request /\ q.pc \in {"setting", "retire", "delete", "revoke"}
          /\ q.dev = req[r].dev /\ q.seen \in Device
          /\ q.op = req[r].op /\ q.cap = req[r].cap
      BY <1>1, <3>1, <3>2 DEF Request, Labels
    <3>4. req' = [req EXCEPT ![r] = q]
      BY <2>2
    <3>5. q.op = "permissions" => q.cap \in Caps
      BY <1>2, <3>3 DEF GetOwned, At, Inv, Requests, Placed
    <3>6. Placed(q) /\ q.pc # "install"
      BY <3>1, <3>3, <3>5 DEF Placed
    <3> HIDE DEF q
    <3> QED BY <1>2, <3>3, <3>4, <3>6, ReadMoves DEF GetOwned
  <2> QED BY <1>2, <2>1, <2>2 DEF GetOwned
<1>3. CASE SelectCode(r)
  <2>1. CASE Answer(r, "refused")
    BY <1>3, <2>1, ReadAnswers DEF SelectCode
  <2>2. CASE req[r].key \in DOMAIN codes
             /\ req' = [req EXCEPT ![r].pc = "claim", ![r].dev = codes[req[r].key].dev]
    <3> DEFINE q == [req[r] EXCEPT !.pc = "claim", !.dev = codes[req[r].key].dev]
    <3>1. codes[req[r].key].dev \in Nat
      BY <2>2, CodeRow DEF Code
    <3>2. q \in Request /\ q.pc = "claim" /\ q.key \in DOMAIN codes /\ q.dev \in Nat
      BY <1>1, <2>2, <3>1 DEF Request, Labels
    <3>3. req' = [req EXCEPT ![r] = q]
      BY <2>2
    <3>4. Placed(q) /\ q.pc # "install"
      BY <3>2 DEF Placed
    <3> HIDE DEF q
    <3> QED BY <1>3, <3>2, <3>3, <3>4, ReadMoves DEF SelectCode
  <2> QED BY <1>3, <2>1, <2>2 DEF SelectCode
<1>4. CASE LoadEnrolled(r)
  <2>1. PICK out \in {"ok", "missing"} : Answer(r, out)
    BY <1>4 DEF LoadEnrolled
  <2> QED BY <1>4, <2>1, ReadAnswers DEF LoadEnrolled
<1>5. CASE Authenticate(r)
  <2>1. PICK out \in {"ok", "refused"} : Answer(r, out)
    BY <1>5 DEF Authenticate
  <2> QED BY <1>5, <2>1, ReadAnswers DEF Authenticate
<1>6. CASE AuthenticateAgent(r)
  <2>1. CASE Answer(r, "refused")
    BY <1>6, <2>1, ReadAnswers DEF AuthenticateAgent
  <2>2. CASE Goto(r, "load")
    <3> DEFINE q == [req[r] EXCEPT !.pc = "load"]
    <3>1. q \in Request /\ q.pc = "load"
      BY <1>1 DEF Request, Labels
    <3>2. req' = [req EXCEPT ![r] = q]
      BY <2>2 DEF Goto
    <3>3. Placed(q) /\ q.pc # "install"
      BY <3>1 DEF Placed
    <3> HIDE DEF q
    <3> QED BY <1>6, <3>1, <3>2, <3>3, ReadMoves DEF AuthenticateAgent
  <2> QED BY <1>6, <2>1, <2>2 DEF AuthenticateAgent
<1>7. CASE LoadConfig(r)
  <2>1. CASE Answer(r, "missing")
    BY <1>7, <2>1, ReadAnswers DEF LoadConfig
  <2>2. CASE Exists(req[r].dev)
             /\ req' = [req EXCEPT ![r].pc = "done", ![r].out = "ok", ![r].seen = devices[req[r].dev]]
    <3> DEFINE q == [req[r] EXCEPT !.pc = "done", !.out = "ok", !.seen = devices[req[r].dev]]
    <3>1. devices[req[r].dev] \in Device
      BY <2>2, Row DEF Exists
    <3>2. q \in Request /\ q.pc = "done"
      BY <1>1, <3>1 DEF Request, Labels
    <3>3. req' = [req EXCEPT ![r] = q]
      BY <2>2
    <3>4. Placed(q) /\ q.pc # "install"
      BY <3>2 DEF Placed
    <3> HIDE DEF q
    <3> QED BY <1>7, <3>2, <3>3, <3>4, ReadMoves DEF LoadConfig
  <2> QED BY <1>7, <2>1, <2>2 DEF LoadConfig
<1> QED BY <1>2, <1>3, <1>4, <1>5, <1>6, <1>7
-------------------------------------------------------------------------------
(* Statements that write.                                                   *)

\* A row's columns other than its secret.
LEMMA RowWritten ==
  ASSUME Inv, NEW d \in DOMAIN devices, NEW row \in Device,
         row.secret = devices[d].secret, row.exists = devices[d].exists,
         devices' = [devices EXCEPT ![d] = row], UNCHANGED <<codes, minted, retired>>
  PROVE  /\ Tables' /\ CodesSpent' /\ SecretsLive'
         /\ DOMAIN devices' = DOMAIN devices
         /\ \A s : New(s) => New(s)'
<1>1. /\ devices' \in Seq(Device) /\ DOMAIN devices' = DOMAIN devices
      /\ \A e \in DOMAIN devices : devices'[e] = IF e = d THEN row ELSE devices[e]
  BY Updated DEF Inv, Tables
<1>2. \A e \in DOMAIN devices : /\ devices'[e].secret = devices[e].secret
                                 /\ devices'[e].exists = devices[e].exists
  BY <1>1
<1>3. Tables' /\ CodesSpent'
  BY <1>1 DEF Inv, Tables, CodesSpent
<1>4. SecretsLive' /\ \A s : New(s) => New(s)'
  BY <1>1, <1>2 DEF Inv, SecretsLive, New
<1> QED BY <1>1, <1>3, <1>4

LEMMA Setting ==
  ASSUME Inv, NEW r \in Reqs, WriteSetting(r)
  PROVE  Inv'
<1>1. /\ req[r] \in Request /\ req[r].dev \in DOMAIN devices /\ req[r].seen \in Device
      /\ req[r].op \in Settings
  BY DEF WriteSetting, At, Inv, Requests, Placed
<1>2. PICK out \in {"ok", "missing"} : Answer(r, out)
  BY DEF WriteSetting
<1>3. CASE Exists(req[r].dev)
  <2> DEFINE d == req[r].dev
             row == Written(r, devices[d])
  <2>1. devices[d] \in Device
    BY <1>1, Row
  <2>2. row \in Device /\ row.secret = devices[d].secret /\ row.exists = devices[d].exists
    <3>1. req[r].key \in Nat
      BY <1>1 DEF Request
    <3>2. CASE req[r].op = "rename"
      <4>1. row = [devices[d] EXCEPT !.name = req[r].key]
        BY <3>2 DEF Written
      <4> QED BY <2>1, <3>1, <4>1 DEF Device
    <3>3. CASE req[r].op = "incoming"
      <4>1. row = [devices[d] EXCEPT !.incoming = (req[r].key = 1)]
        BY <3>3 DEF Written
      <4> QED BY <2>1, <4>1 DEF Device
    <3>4. CASE req[r].op = "unattended"
      <4>1. row = [devices[d] EXCEPT !.password = req[r].key]
        BY <3>4 DEF Written
      <4> QED BY <2>1, <3>1, <4>1 DEF Device
    <3>5. CASE req[r].op = "permissions"
      <4> DEFINE perm == IF req[r].key = 1 THEN req[r].seen.perm \cup {req[r].cap}
                         ELSE req[r].seen.perm \ {req[r].cap}
      <4>1. row = [devices[d] EXCEPT !.perm = perm]
        BY <3>5 DEF Written
      <4>2. perm \in SUBSET Caps
        <5>1. req[r].cap \in Caps /\ req[r].seen.perm \subseteq Caps
          BY <1>1, <3>5 DEF Device, WriteSetting, At, Inv, Requests, Placed
        <5> QED BY <5>1
      <4> QED BY <2>1, <4>1, <4>2 DEF Device
    <3> QED BY <1>1, <3>2, <3>3, <3>4, <3>5 DEF Settings
  <2>3. devices' = [devices EXCEPT ![d] = row] /\ UNCHANGED <<codes, minted, retired>>
    BY <1>3 DEF WriteSetting
  <2> HIDE DEF row
  <2>4. /\ Tables' /\ CodesSpent' /\ SecretsLive'
        /\ DOMAIN devices' = DOMAIN devices /\ \A s : New(s) => New(s)'
    BY <1>1, <2>2, <2>3, RowWritten
  <2>5. Requests'
    BY <1>2, <2>3, <2>4, AnswerMoves
  <2> QED BY <2>4, <2>5 DEF Inv
<1>4. CASE ~Exists(req[r].dev)
  <2>1. UNCHANGED table
    BY <1>4 DEF WriteSetting, table
  <2> QED BY <1>2, <2>1, ReadAnswers
<1> QED BY <1>3, <1>4

LEMMA Inserting ==
  ASSUME Inv, NEW row \in Device, devices' = Append(devices, row), UNCHANGED <<codes, retired>>,
         row.exists,
         \/ row.secret = 0 /\ minted' = minted
         \/ row.secret = minted + 1 /\ minted' = minted + 1
  PROVE  /\ Tables' /\ CodesSpent' /\ SecretsLive'
         /\ DOMAIN devices \subseteq DOMAIN devices' /\ DOMAIN codes \subseteq DOMAIN codes'
         /\ \A s : New(s) => New(s)'
<1> DEFINE n == Len(devices) + 1
<1>1. /\ devices' \in Seq(Device) /\ DOMAIN devices' = DOMAIN devices \cup {n}
      /\ n \notin DOMAIN devices /\ devices'[n] = row
      /\ \A e \in DOMAIN devices : devices'[e] = devices[e]
  BY Appended DEF Inv, Tables
<1> HIDE DEF n
<1>2. minted \in Nat /\ minted' \in Nat /\ minted <= minted' /\ retired \subseteq 1..minted
  BY DEF Inv, Tables
<1>3. Tables' /\ CodesSpent'
  BY <1>1, <1>2 DEF Inv, Tables, CodesSpent
<1>4. row.secret \in 0..minted' /\ row.secret \notin retired
  BY <1>2
<1>5. \A d \in DOMAIN devices : devices[d].secret \in 0..minted /\ devices[d].secret \notin retired
  BY DEF Inv, SecretsLive
<1>6. \A d \in DOMAIN devices : row.secret # 0 => row.secret # devices[d].secret
  BY <1>2, <1>5
<1>7. SecretsLive'
  <2>1. \A d \in DOMAIN devices' : devices'[d].secret \in 0..minted' /\ devices'[d].secret \notin retired
    BY <1>1, <1>2, <1>4, <1>5
  <2>2. \A d, e \in DOMAIN devices' : d # e /\ devices'[d].secret # 0
                                        => devices'[d].secret # devices'[e].secret
    BY <1>1, <1>6 DEF Inv, SecretsLive
  <2>3. \A d \in DOMAIN devices' : devices'[d].secret # 0 => devices'[d].exists
    BY <1>1 DEF Inv, SecretsLive
  <2> QED BY <2>1, <2>2, <2>3 DEF SecretsLive
<1>8. ASSUME NEW s, New(s) PROVE New(s)'
  <2>1. s \in 1..minted' /\ s \notin retired /\ s # row.secret
    BY <1>2, <1>8 DEF New
  <2> QED BY <1>1, <1>8, <2>1 DEF New
<1> QED BY <1>1, <1>3, <1>7, <1>8

LEMMA NewRow ==
  \A n \in Nat, owner \in {"user", "auto"} :
    LET row == NewDevice(owner, n) IN row \in Device /\ row.secret = n /\ row.exists
BY DEF NewDevice, Device

LEMMA Creating ==
  ASSUME Inv, NEW r \in Reqs, InsertDevice(r) \/ Register(r)
  PROVE  Inv'
<1>1. req[r] \in Request /\ minted \in Nat /\ Len(devices) + 1 \in Nat
  BY LenProperties DEF Inv, Requests, Tables
<1>2. CASE InsertDevice(r)
  <2>1. /\ Tables' /\ CodesSpent' /\ SecretsLive'
        /\ DOMAIN devices \subseteq DOMAIN devices' /\ DOMAIN codes \subseteq DOMAIN codes'
        /\ \A s : New(s) => New(s)'
    <3>1. devices' = Append(devices, NewDevice("user", 0)) /\ UNCHANGED <<codes, minted, retired>>
      BY <1>2 DEF InsertDevice
    <3>2. PICK row \in Device : devices' = Append(devices, row) /\ row.secret = 0 /\ row.exists
      BY <3>1, NewRow
    <3> QED BY <3>1, <3>2, Inserting
  <2> DEFINE q == [req[r] EXCEPT !.pc = "retire", !.dev = Len(devices) + 1]
  <2>2. q \in Request /\ q.pc = "retire"
    BY <1>1 DEF Request, Labels
  <2>3. req' = [req EXCEPT ![r] = q]
    BY <1>2 DEF InsertDevice
  <2> HIDE DEF q
  <2>4. PICK p \in Request : req' = [req EXCEPT ![r] = p] /\ p.pc = "retire"
    BY <2>2, <2>3
  <2>5. Placed(p)' /\ p.pc # "install"
    BY <2>4 DEF Placed
  <2>6. Requests'
    BY <2>1, <2>4, <2>5, Moves
  <2> QED BY <2>1, <2>6 DEF Inv
<1>3. CASE Register(r)
  <2>1. /\ Tables' /\ CodesSpent' /\ SecretsLive'
        /\ DOMAIN devices \subseteq DOMAIN devices' /\ DOMAIN codes \subseteq DOMAIN codes'
        /\ \A s : New(s) => New(s)'
    <3>1. minted + 1 \in Nat
      BY <1>1
    <3>2. /\ devices' = Append(devices, NewDevice("auto", minted + 1))
          /\ minted' = minted + 1 /\ UNCHANGED <<codes, retired>>
      BY <1>3 DEF Register
    <3>3. PICK row \in Device : devices' = Append(devices, row) /\ row.secret = minted + 1 /\ row.exists
      BY <3>1, <3>2, NewRow
    <3> QED BY <3>2, <3>3, Inserting
  <2> DEFINE q == [req[r] EXCEPT !.pc = "done", !.out = "ok", !.dev = Len(devices) + 1, !.made = minted + 1]
  <2>2. q \in Request /\ q.pc = "done"
    <3>1. \A n, m \in Nat : LET p == [req[r] EXCEPT !.pc = "done", !.out = "ok", !.dev = n, !.made = m]
                            IN p \in Request /\ p.pc = "done"
      BY <1>1 DEF Request, Labels
    <3>2. minted + 1 \in Nat
      BY <1>1
    <3> QED BY <1>1, <3>1, <3>2
  <2>3. req' = [req EXCEPT ![r] = q]
    BY <1>3 DEF Register
  <2> HIDE DEF q
  <2>4. PICK p \in Request : req' = [req EXCEPT ![r] = p] /\ p.pc = "done"
    BY <2>2, <2>3
  <2>5. Placed(p)' /\ p.pc # "install"
    BY <2>4 DEF Placed
  <2>6. Requests'
    BY <2>1, <2>4, <2>5, Moves
  <2> QED BY <2>1, <2>6 DEF Inv
<1> QED BY <1>2, <1>3

\* Codes that are retired, and a new one.
LEMMA Retiring ==
  ASSUME Inv, NEW d, codes' = Spent(d)
  PROVE  codes' \in Seq(Code) /\ DOMAIN codes' = DOMAIN codes /\ CodesSpent'
<1>1. \A c \in DOMAIN codes : codes[c] \in Code
  BY CodeRow
<1>2. /\ codes' \in [DOMAIN codes -> Code]
      /\ \A c \in DOMAIN codes : \/ codes'[c] = codes[c]
                                 \/ ~codes[c].used /\ codes'[c] = [codes[c] EXCEPT !.used = TRUE, !.cut = TRUE]
  BY <1>1 DEF Spent, Code
<1>3. codes' \in Seq(Code) /\ DOMAIN codes' = DOMAIN codes
  BY <1>2, Remade DEF Inv, Tables
<1>4. ASSUME NEW c \in DOMAIN codes
      PROVE  /\ codes'[c].claims <= 1
             /\ codes'[c].claims > 0 => codes'[c].used
             /\ codes'[c].cut => codes'[c].used /\ codes'[c].claims = 0
  <2>1. CASE codes'[c] = codes[c]
    BY <2>1 DEF Inv, CodesSpent
  <2>2. CASE ~codes[c].used /\ codes'[c] = [codes[c] EXCEPT !.used = TRUE, !.cut = TRUE]
    <3>1. codes[c].claims \in Nat /\ ~(codes[c].claims > 0)
      BY <1>1, <2>2 DEF Code, Inv, CodesSpent
    <3>2. codes'[c].claims = codes[c].claims /\ codes'[c].used
      BY <1>1, <2>2 DEF Code
    <3> QED BY <3>1, <3>2
  <2> QED BY <1>2, <2>1, <2>2
<1> QED BY <1>3, <1>4 DEF CodesSpent

LEMMA Coding ==
  ASSUME Inv, NEW r \in Reqs, RetireCodes(r) \/ IssueCode(r)
  PROVE  Inv'
<1>1. req[r] \in Request
  BY DEF Inv, Requests
<1>2. CASE RetireCodes(r)
  <2>1. codes' \in Seq(Code) /\ DOMAIN codes' = DOMAIN codes /\ CodesSpent'
    BY <1>2, Retiring DEF RetireCodes
  <2>2. Tables' /\ SecretsLive' /\ \A s : New(s) => New(s)'
    BY <1>2, <2>1 DEF RetireCodes, Inv, Tables, SecretsLive, New
  <2> DEFINE q == [req[r] EXCEPT !.pc = "code"]
  <2>3. q \in Request /\ q.pc = "code" /\ req' = [req EXCEPT ![r] = q]
    BY <1>1, <1>2 DEF Request, Labels, RetireCodes, Goto
  <2> HIDE DEF q
  <2>4. PICK p \in Request : req' = [req EXCEPT ![r] = p] /\ p.pc = "code"
    BY <2>3
  <2>5. Placed(p)' /\ p.pc # "install"
    BY <2>4 DEF Placed
  <2>6. DOMAIN devices \subseteq DOMAIN devices'
    BY <1>2 DEF RetireCodes
  <2>7. Requests'
    BY <2>1, <2>2, <2>4, <2>5, <2>6, Moves
  <2> QED BY <2>1, <2>2, <2>7 DEF Inv
<1>3. CASE IssueCode(r) /\ Exists(req[r].dev)
  <2> DEFINE code == NewCode(req[r].dev)
  <2>1. code \in Code /\ code.claims = 0 /\ ~code.cut
    <3>1. req[r].dev \in Nat \ {0}
      BY <1>3, Row DEF Exists
    <3> QED BY <3>1 DEF NewCode, Code
  <2>2. codes' = Append(codes, code) /\ Answer(r, "ok") /\ UNCHANGED <<devices, minted, retired>>
    BY <1>3 DEF IssueCode
  <2> HIDE DEF code
  <2>3. /\ codes' \in Seq(Code) /\ DOMAIN codes' = DOMAIN codes \cup {Len(codes) + 1}
        /\ codes'[Len(codes) + 1] = code /\ \A c \in DOMAIN codes : codes'[c] = codes[c]
    BY <2>1, <2>2, Appended DEF Inv, Tables
  <2>4. CodesSpent'
    BY <2>1, <2>3 DEF Inv, CodesSpent
  <2>5. Tables' /\ SecretsLive' /\ \A s : New(s) => New(s)'
    BY <2>2, <2>3 DEF Inv, Tables, SecretsLive, New
  <2>6. Requests'
    BY <2>2, <2>3, <2>5, AnswerMoves
  <2> QED BY <2>4, <2>5, <2>6 DEF Inv
<1>4. CASE IssueCode(r) /\ ~Exists(req[r].dev)
  BY <1>4, ReadAnswers DEF IssueCode, table
<1> QED BY <1>2, <1>3, <1>4
\* A device loses its secret, whatever its codes.
LEMMA Losing ==
  ASSUME Inv, NEW d \in DOMAIN devices, NEW row \in Device, row.secret = 0,
         devices' = [devices EXCEPT ![d] = row], retired' = Lost(d),
         codes' \in Seq(Code), CodesSpent', UNCHANGED minted
  PROVE  /\ Tables' /\ SecretsLive'
         /\ DOMAIN devices' = DOMAIN devices
         /\ \A s : New(s) => New(s)'
<1>1. /\ devices' \in Seq(Device) /\ DOMAIN devices' = DOMAIN devices
      /\ \A e \in DOMAIN devices : devices'[e] = IF e = d THEN row ELSE devices[e]
  BY Updated DEF Inv, Tables
<1>2. /\ minted \in Nat /\ retired \subseteq 1..minted
      /\ \A e \in DOMAIN devices : devices[e].secret \in 0..minted /\ devices[e].secret \notin retired
  BY DEF Inv, Tables, SecretsLive
<1>3. retired' = retired \cup ({devices[d].secret} \ {0})
  BY <1>2 DEF Lost
<1>4. Tables'
  BY <1>1, <1>2, <1>3 DEF Tables
<1>5. \A e \in DOMAIN devices : e # d /\ devices[e].secret # 0 => devices[e].secret # devices[d].secret
  BY DEF Inv, SecretsLive
<1>6. ASSUME NEW e \in DOMAIN devices
      PROVE  devices'[e].secret \in 0..minted /\ devices'[e].secret \notin retired'
  <2>1. CASE e = d
    BY <1>1, <1>2, <1>3, <2>1
  <2>2. CASE e # d
    BY <1>1, <1>2, <1>3, <1>5, <2>2
  <2> QED BY <2>1, <2>2
<1>7. \A e, f \in DOMAIN devices : e # f /\ devices'[e].secret # 0
                                     => devices'[e].secret # devices'[f].secret
  BY <1>1 DEF Inv, SecretsLive
<1>8. SecretsLive'
  <2>1. \A e \in DOMAIN devices : devices'[e].secret # 0 => devices'[e].exists
    BY <1>1 DEF Inv, SecretsLive
  <2> QED BY <1>1, <1>6, <1>7, <2>1 DEF SecretsLive
<1>9. ASSUME NEW s, New(s) PROVE New(s)'
  <2>1. s # 0 /\ s # devices[d].secret
    BY <1>2, <1>9 DEF New
  <2> QED BY <1>1, <1>3, <1>9, <2>1 DEF New
<1> QED BY <1>1, <1>4, <1>8, <1>9

LEMMA Revoking ==
  ASSUME Inv, NEW r \in Reqs, Revoke(r) \/ Delete(r)
  PROVE  Inv'
<1>1. req[r] \in Request /\ req[r].dev \in DOMAIN devices
  BY DEF Inv, Requests, Placed, Revoke, Delete, At
<1>2. devices[req[r].dev] \in Device
  BY <1>1, Row
<1>3. codes' \in Seq(Code) /\ DOMAIN codes' = DOMAIN codes /\ CodesSpent'
  BY Retiring DEF Revoke, Delete
<1>4. PICK out \in {"ok", "missing"} : Answer(r, out)
  BY DEF Revoke, Delete
<1>5. CASE devices' = devices /\ retired' = Lost(req[r].dev)
           /\ minted' = minted /\ devices[req[r].dev].secret = 0
  <2>1. retired' = retired
    BY <1>5 DEF Lost
  <2>2. Tables' /\ SecretsLive' /\ \A s : New(s) => New(s)'
    BY <1>3, <1>5, <2>1 DEF Inv, Tables, SecretsLive, New
  <2>3. Requests'
    BY <1>3, <1>4, <1>5, <2>2, AnswerMoves
  <2> QED BY <1>3, <2>2, <2>3 DEF Inv
<1>6. ASSUME NEW row \in Device, row.secret = 0, devices' = [devices EXCEPT ![req[r].dev] = row],
             retired' = Lost(req[r].dev), minted' = minted
      PROVE  Inv'
  <2>1. Tables' /\ SecretsLive' /\ DOMAIN devices' = DOMAIN devices /\ \A s : New(s) => New(s)'
    BY <1>1, <1>3, <1>6, Losing
  <2>2. Requests'
    BY <1>3, <1>4, <2>1, AnswerMoves
  <2> QED BY <1>3, <2>1, <2>2 DEF Inv
<1>7. CASE Delete(r)
  <2> DEFINE row == [devices[req[r].dev] EXCEPT !.exists = FALSE, !.secret = 0]
  <2>1. row \in Device /\ row.secret = 0
    BY <1>2 DEF Device
  <2>2. /\ devices' = [devices EXCEPT ![req[r].dev] = row]
        /\ retired' = Lost(req[r].dev) /\ minted' = minted
    BY <1>7 DEF Delete
  <2> HIDE DEF row
  <2> QED BY <1>6, <2>1, <2>2
<1>8. CASE Revoke(r) /\ Exists(req[r].dev)
  <2> DEFINE row == [devices[req[r].dev] EXCEPT !.secret = 0, !.revoked = TRUE, !.password = 0]
  <2>1. row \in Device /\ row.secret = 0
    BY <1>2 DEF Device
  <2>2. /\ devices' = [devices EXCEPT ![req[r].dev] = row]
        /\ retired' = Lost(req[r].dev) /\ minted' = minted
    BY <1>8 DEF Revoke
  <2> HIDE DEF row
  <2> QED BY <1>6, <2>1, <2>2
<1>9. CASE Revoke(r) /\ ~Exists(req[r].dev)
  <2>1. devices[req[r].dev].secret = 0
    BY <1>1, <1>9 DEF Exists, Inv, SecretsLive
  <2> QED BY <1>5, <1>9, <2>1 DEF Revoke
<1> QED BY <1>7, <1>8, <1>9

\* An enrolment: its code is claimed and its secret minted.
LEMMA Claiming ==
  ASSUME Inv, NEW r \in Reqs, Claim(r)
  PROVE  Inv'
<1> DEFINE c == req[r].key
<1>1. req[r] \in Request /\ c \in DOMAIN codes /\ codes[c] \in Code
  BY CodeRow DEF Inv, Requests, Placed, Claim, At
<1>2. CASE ~Claimable(c)
  BY <1>2, ReadAnswers DEF Claim, table
<1>3. CASE Claimable(c)
  <2>1. PICK n \in Nat : n = minted + 1
    BY DEF Inv, Tables
  <2> DEFINE q == [req[r] EXCEPT !.pc = "install", !.made = n]
             code == [codes[c] EXCEPT !.used = TRUE, !.claims = codes[c].claims + 1]
  <2>2. codes[c].claims = 0 /\ ~codes[c].cut
    BY <1>1, <1>3 DEF Claimable, Inv, CodesSpent, Code
  <2>3. /\ codes' = [codes EXCEPT ![c] = code] /\ minted' = n
        /\ req' = [req EXCEPT ![r] = q] /\ UNCHANGED <<devices, retired>>
    <3>1. minted' = n /\ UNCHANGED <<devices, retired>>
      BY <1>3, <2>1 DEF Claim
    <3>2. codes' = [codes EXCEPT ![c] = code]
      BY <1>3 DEF Claim
    <3>3. req' = [req EXCEPT ![r] = q]
      BY <1>3, <2>1 DEF Claim
    <3> QED BY <3>1, <3>2, <3>3
  <2>4. q \in Request /\ q.pc = "install" /\ q.made = n
    BY <1>1 DEF Request, Labels
  <2>5. code \in Code /\ code.claims = 1 /\ code.used /\ ~code.cut
    <3> HIDE DEF c
    <3>1. codes[c] \in Code /\ ~codes[c].cut /\ codes[c].claims + 1 = 1
      BY <1>1, <2>2
    <3>2. code \in Code
      <4>1. code = [codes[c] EXCEPT !.used = TRUE, !.claims = 1]
        BY <3>1
      <4> HIDE DEF code
      <4> QED BY <3>1, <4>1 DEF Code
    <3>3. code.claims = 1 /\ code.used = TRUE /\ code.cut = codes[c].cut
      BY <3>1 DEF Code
    <3> HIDE DEF code
    <3> QED BY <3>1, <3>2, <3>3
  <2> HIDE DEF code, q, c
  <2>6. PICK p \in Request : req' = [req EXCEPT ![r] = p] /\ p.pc = "install" /\ p.made = n
    BY <2>3, <2>4
  <2>7. /\ codes' \in Seq(Code) /\ DOMAIN codes' = DOMAIN codes
        /\ \A e \in DOMAIN codes : codes'[e] = IF e = c THEN code ELSE codes[e]
    BY <1>1, <2>3, <2>5, Updated DEF Inv, Tables
  <2>8. CodesSpent'
    BY <2>5, <2>7 DEF Inv, CodesSpent
  <2>9. minted \in Nat /\ minted' = minted + 1 /\ UNCHANGED <<devices, retired>>
    BY <2>1, <2>3 DEF Inv, Tables
  <2>10. Tables' /\ SecretsLive'
    BY <2>7, <2>9 DEF Inv, Tables, SecretsLive
  <2>11. New(n)'
    <3>1. \A d \in DOMAIN devices : devices[d].secret \in 0..minted
      BY DEF Inv, SecretsLive
    <3>2. n \notin retired /\ n \in 1..minted'
      BY <2>1, <2>9 DEF Inv, Tables
    <3>3. \A d \in DOMAIN devices : devices[d].secret # n
      BY <2>1, <2>9, <3>1
    <3> QED BY <2>9, <3>2, <3>3 DEF New
  <2>12. \A s : New(s) => New(s)' /\ s # n
    BY <2>1, <2>9 DEF New
  <2>13. req' \in [Reqs -> Request] /\ \A o \in Reqs : req'[o] = IF o = r THEN p ELSE req[o]
    BY <2>6 DEF Inv, Requests
  <2>14. \A o \in Reqs : Placed(req[o])'
    <3> SUFFICES ASSUME NEW o \in Reqs PROVE Placed(req[o])'
      OBVIOUS
    <3>1. CASE o = r
      <4>1. Placed(p)'
        BY <2>6, <2>11 DEF Placed
      <4> QED BY <2>13, <3>1, <4>1 DEF Placed
    <3>2. CASE o # r
      <4>1. Placed(req[o]) /\ req'[o] = req[o]
        BY <2>13, <3>2 DEF Inv, Requests
      <4> QED BY <2>7, <2>9, <2>12, <4>1 DEF Placed
    <3> QED BY <3>1, <3>2
  <2>15. \A o \in Reqs : req[o].pc = "install" => req[o].made # n
    BY <2>12 DEF Inv, Requests, Placed
  <2>16. Requests'
    BY <2>6, <2>13, <2>14, <2>15 DEF Inv, Requests
  <2> QED BY <2>8, <2>10, <2>16 DEF Inv
<1> QED BY <1>2, <1>3

\* The enrolment's secret becomes the device's, in place of the one it had.
LEMMA Installing ==
  ASSUME Inv, NEW r \in Reqs, Install(r)
  PROVE  Inv'
<1> DEFINE d == req[r].dev
           s == req[r].made
           q == [req[r] EXCEPT !.pc = "load"]
<1>1. req[r] \in Request /\ New(s) /\ req[r].pc = "install"
  BY DEF Inv, Requests, Placed, Install, At
<1>2. q \in Request /\ q.pc = "load" /\ req' = [req EXCEPT ![r] = q]
  BY <1>1 DEF Request, Labels, Install, Goto
<1>3. CASE ~Exists(d)
  <2>1. UNCHANGED table
    BY <1>3 DEF Install, table
  <2> HIDE DEF q
  <2>2. Placed(q) /\ q.pc # "install"
    BY <1>2 DEF Placed
  <2> QED BY <1>2, <2>1, <2>2, ReadMoves
<1>4. CASE Exists(d)
  <2> DEFINE row == [devices[d] EXCEPT !.secret = s, !.revoked = FALSE]
  <2>1. /\ devices' = [devices EXCEPT ![d] = row] /\ retired' = Lost(d)
        /\ UNCHANGED <<codes, minted>>
    BY <1>4 DEF Install
  <2>2. d \in DOMAIN devices /\ devices[d] \in Device /\ devices[d].exists
    BY <1>4, Row DEF Exists
  <2>3. minted \in Nat /\ s \in 1..minted
    BY <1>1 DEF New, Inv, Tables
  <2>4. row \in Device /\ row.secret = s /\ row.exists
    <3>1. s \in Nat
      BY <2>3
    <3> HIDE DEF s, d
    <3> QED BY <2>2, <3>1 DEF Device
  <2> HIDE DEF row, q
  <2>5. /\ devices' \in Seq(Device) /\ DOMAIN devices' = DOMAIN devices
        /\ \A e \in DOMAIN devices : devices'[e] = IF e = d THEN row ELSE devices[e]
    BY <2>1, <2>2, <2>4, Updated DEF Inv, Tables
  <2>6. /\ retired \subseteq 1..minted
        /\ \A e \in DOMAIN devices : devices[e].secret \in 0..minted /\ devices[e].secret \notin retired
    BY DEF Inv, Tables, SecretsLive
  <2>7. retired' = retired \cup ({devices[d].secret} \ {0})
    BY <2>1, <2>6 DEF Lost
  <2>8. Tables' /\ CodesSpent'
    <3> HIDE DEF s, d
    <3>1. retired' \subseteq 1..minted
      <4>1. devices[d].secret \in 0..minted /\ minted \in Nat
        BY <2>2, <2>3, <2>6
      <4>2. \A x \in retired' : x \in retired \/ (x = devices[d].secret /\ x # 0)
        BY <2>7
      <4>3. devices[d].secret # 0 => devices[d].secret \in 1..minted
        BY <4>1
      <4> QED BY <2>6, <4>2, <4>3
    <3>2. Tables'
      BY <2>1, <2>5, <3>1 DEF Inv, Tables
    <3>3. CodesSpent'
      BY <2>1 DEF Inv, CodesSpent
    <3> QED BY <3>2, <3>3
  <2>9. s \notin retired /\ \A e \in DOMAIN devices : devices[e].secret # s
    BY <1>1 DEF New
  <2>10. SecretsLive'
    <3> HIDE DEF d, s
    <3>1. \A e \in DOMAIN devices : e # d /\ devices[e].secret # 0 => devices[e].secret # devices[d].secret
      BY <2>2 DEF Inv, SecretsLive
    <3>2. \A e \in DOMAIN devices : devices'[e].secret \in 0..minted /\ devices'[e].secret \notin retired'
      <4> SUFFICES ASSUME NEW e \in DOMAIN devices
                   PROVE  devices'[e].secret \in 0..minted /\ devices'[e].secret \notin retired'
        OBVIOUS
      <4>1. CASE e = d
        BY <2>2, <2>3, <2>4, <2>5, <2>7, <2>9, <4>1
      <4>2. CASE e # d
        BY <2>5, <2>6, <2>7, <3>1, <4>2
      <4> QED BY <4>1, <4>2
    <3>3. \A e \in DOMAIN devices : devices'[e].secret # 0 => devices'[e].exists
      BY <2>4, <2>5 DEF Inv, SecretsLive
    <3>4. \A e, f \in DOMAIN devices : e # f /\ devices'[e].secret # 0
                                         => devices'[e].secret # devices'[f].secret
      BY <2>4, <2>5, <2>9 DEF Inv, SecretsLive
    <3> QED BY <2>1, <2>5, <3>2, <3>3, <3>4 DEF SecretsLive
  <2>11. ASSUME NEW t, New(t), t # s PROVE New(t)'
    <3>1. t # 0 /\ t # devices[d].secret
      BY <2>2, <2>3, <2>11 DEF New
    <3> QED BY <2>1, <2>4, <2>5, <2>7, <2>11, <3>1 DEF New
  <2>12. req' \in [Reqs -> Request] /\ \A o \in Reqs : req'[o] = IF o = r THEN q ELSE req[o]
    BY <1>2 DEF Inv, Requests
  <2>13. \A o \in Reqs : Placed(req[o])'
    <3> SUFFICES ASSUME NEW o \in Reqs PROVE Placed(req[o])'
      OBVIOUS
    <3>1. CASE o = r
      BY <1>2, <2>12, <3>1 DEF Placed
    <3>2. CASE o # r
      <4>1. Placed(req[o]) /\ req'[o] = req[o]
        BY <2>12, <3>2 DEF Inv, Requests
      <4>2. req[o].pc = "install" => req[o].made # s
        BY <1>1, <3>2 DEF Inv, Requests
      <4> HIDE DEF s, d
      <4> QED BY <2>1, <2>5, <2>11, <4>1, <4>2 DEF Placed
    <3> QED BY <3>1, <3>2
  <2>14. Requests'
    BY <1>2, <2>12, <2>13 DEF Inv, Requests
  <2> QED BY <2>8, <2>10, <2>14 DEF Inv
<1> QED BY <1>3, <1>4

\* Whatever the server does for a request.
LEMMA Stepping ==
  ASSUME Inv, NEW r \in Reqs, Step(r)
  PROVE  Inv'
BY Looking, Setting, Creating, Coding, Revoking, Claiming, Installing DEF Step, Dashboard, AgentApi

-------------------------------------------------------------------------------
(* The machine: its calls, and the requests of the others.                  *)

Openings ==
  {q \in Request : /\ q.pc \in {"free", "owned", "insert", "select", "auth", "agent"} /\ q.made = 0
                   /\ q.pc = "owned" /\ q.op = "permissions" => q.cap \in Caps}

Identities == [dev: Nat, secret: Nat]

LEMMA Opening ==
  ASSUME NEW op \in Ops, NEW d \in Nat, NEW k \in Nat
  PROVE  /\ Free \in Openings
         /\ \A cap \in Caps : [Request0(op) EXCEPT !.dev = d, !.key = k, !.cap = cap] \in Openings
         /\ op # "permissions" => /\ Request0(op) \in Openings
                                  /\ [Request0(op) EXCEPT !.dev = d] \in Openings
                                  /\ [Request0(op) EXCEPT !.key = k] \in Openings
                                  /\ [Request0(op) EXCEPT !.dev = d, !.key = k] \in Openings
<1>1. PICK pc \in {"owned", "insert", "select", "auth", "agent"} : First(op) = pc
  BY DEF First, Ops, Owned
<1>2. Request0(op) = [Free EXCEPT !.op = op, !.pc = pc]
  BY <1>1 DEF Request0
<1> DEFINE q == [Free EXCEPT !.op = op, !.pc = pc]
<1>3. /\ Free \in Request /\ Free.pc = "free" /\ Free.op = None /\ Free.made = 0
      /\ q \in Request /\ q.pc = pc /\ q.op = op /\ q.made = 0
  BY DEF Free, Request, Labels
<1>4. /\ [q EXCEPT !.dev = d] \in Request /\ [q EXCEPT !.dev = d].pc = pc
      /\ [q EXCEPT !.dev = d].op = op /\ [q EXCEPT !.dev = d].made = 0
  BY <1>3 DEF Request
<1>5. /\ [q EXCEPT !.key = k] \in Request /\ [q EXCEPT !.key = k].pc = pc
      /\ [q EXCEPT !.key = k].op = op /\ [q EXCEPT !.key = k].made = 0
  BY <1>3 DEF Request
<1>6. /\ [q EXCEPT !.dev = d, !.key = k] \in Request /\ [q EXCEPT !.dev = d, !.key = k].pc = pc
      /\ [q EXCEPT !.dev = d, !.key = k].op = op /\ [q EXCEPT !.dev = d, !.key = k].made = 0
  BY <1>3 DEF Request
<1>7. ASSUME NEW cap \in Caps
      PROVE  /\ [q EXCEPT !.dev = d, !.key = k, !.cap = cap] \in Request
             /\ [q EXCEPT !.dev = d, !.key = k, !.cap = cap].pc = pc
             /\ [q EXCEPT !.dev = d, !.key = k, !.cap = cap].cap = cap
             /\ [q EXCEPT !.dev = d, !.key = k, !.cap = cap].made = 0
  BY <1>3 DEF Request
<1>8. Free \in Openings
  BY <1>3 DEF Openings
<1>9. Request0(op) = q
  BY <1>2
<1> HIDE DEF q
<1> QED BY <1>1, <1>2, <1>3, <1>4, <1>5, <1>6, <1>7, <1>8, <1>9 DEF Openings

LEMMA Calling ==
  ASSUME Inv, UNCHANGED table, NEW a, NEW q \in Openings, req' = [req EXCEPT ![a] = q]
  PROVE  Inv'
<1>1. q \in Request /\ q.pc \in {"free", "owned", "insert", "select", "auth", "agent"}
      /\ (q.pc = "owned" /\ q.op = "permissions" => q.cap \in Caps)
  BY DEF Openings
<1>2. Placed(q) /\ q.pc # "install"
  BY <1>1 DEF Placed
<1> QED BY <1>1, <1>2, ReadMoves

LEMMA Asking ==
  ASSUME Inv, Ask
  PROVE  Inv' /\ \E in \in Openings : Submit(in)
<1>1. PICK op \in AskOps :
        \/ op = "create" /\ Submit(Request0(op))
        \/ op = "enroll" /\ \E c \in DOMAIN codes : Submit([Request0(op) EXCEPT !.key = c])
        \/ \E d \in DOMAIN devices :
             \/ /\ op \in {"rename", "incoming", "unattended"}
                /\ \E v \in Values(op) : Submit([Request0(op) EXCEPT !.dev = d, !.key = v])
             \/ /\ op = "permissions"
                /\ \E v \in 0..1, k \in Caps :
                     Submit([Request0(op) EXCEPT !.dev = d, !.key = v, !.cap = k])
             \/ op \in {"code", "delete", "revoke"} /\ Submit([Request0(op) EXCEPT !.dev = d])
  BY DEF Ask
<1>2. UNCHANGED table
  BY DEF Ask
<1>3. /\ \A d \in DOMAIN devices : d \in Nat
      /\ \A c \in DOMAIN codes : c \in Nat
  BY Row, CodeRow
<1>4. op \in Ops /\ 0 \in Nat
  BY AgentAssumption DEF Ops
<1>5. \E in \in Openings : Submit(in)
  <2>1. CASE op = "create"
    BY <1>1, <1>4, <2>1, Opening
  <2>2. CASE op = "enroll"
    BY <1>1, <1>3, <1>4, <2>2, Opening
  <2>3. CASE op \in {"rename", "incoming", "unattended"}
    <3>1. PICK d \in DOMAIN devices, v \in Values(op) : Submit([Request0(op) EXCEPT !.dev = d, !.key = v])
      BY <1>1, <2>3
    <3>2. v \in Nat
      BY <2>3, <3>1 DEF Values
    <3> QED BY <1>3, <1>4, <2>3, <3>1, <3>2, Opening
  <2>4. CASE op = "permissions"
    <3>1. PICK d \in DOMAIN devices, v \in 0..1, k \in Caps :
            Submit([Request0(op) EXCEPT !.dev = d, !.key = v, !.cap = k])
      BY <1>1, <2>4
    <3>2. v \in Nat
      BY <3>1
    <3> QED BY <1>3, <1>4, <3>1, <3>2, Opening
  <2>5. CASE op \in {"code", "delete", "revoke"}
    BY <1>1, <1>3, <1>4, <2>5, Opening
  <2> QED BY <1>1, <2>1, <2>2, <2>3, <2>4, <2>5
<1> QED BY <1>2, <1>5, Calling DEF Submit

\* What the agent does to its slot, whatever it makes of the answers.
LEMMA Acting ==
  ASSUME Inv, file \in Identities,
         StartEnroll \/ StartRun \/ Replies \/ Loop \/ Tick \/ NoticesLoss \/ Quit \/ Crash \/ Unheard
  PROVE  /\ Inv' /\ file' \in Identities /\ UNCHANGED table
         /\ UNCHANGED req \/ \E q \in Openings : req' = [req EXCEPT ![Agent] = q]
<1>1. file.dev \in Nat /\ file.secret \in Nat /\ "enroll" \in Ops /\ "auth" \in Ops
      /\ "config" \in Ops /\ "register" \in Ops
  BY DEF Identities, Ops
<1>2. 0 \in Nat /\ 1 \in Nat
  OBVIOUS
<1>3. Free \in Openings /\ Request0("register") \in Openings
  BY <1>1, <1>2, Opening
<1>4. \A id \in Identities : AuthCall(id) \in Openings
  <2> SUFFICES ASSUME NEW id \in Identities PROVE AuthCall(id) \in Openings
    OBVIOUS
  <2>1. id.dev \in Nat /\ id.secret \in Nat
    BY DEF Identities
  <2> QED BY <1>1, <2>1, Opening DEF AuthCall
<1>5. \A fresh : ConfigCall(fresh) \in Openings
  <2> TAKE fresh
  <2>1. PICK k \in Nat : k = IF fresh THEN 1 ELSE 0
    OBVIOUS
  <2> QED BY <1>1, <2>1, Opening DEF ConfigCall
<1>6. \A c \in DOMAIN codes : [Request0("enroll") EXCEPT !.key = c] \in Openings
  BY <1>1, <1>2, CodeRow, Opening
<1>7. Saved \in Identities
  <2>1. Agent \in Reqs
    BY AgentAssumption
  <2>2. req[Agent].dev \in Nat /\ req[Agent].made \in Nat
    BY <2>1 DEF Inv, Requests, Request
  <2> QED BY <2>2 DEF Saved, Identities
<1>8. UNCHANGED table /\ file' \in Identities
  BY <1>7 DEF StartEnroll, StartRun, Replies, EnrollReply, RegisterReply, AuthReply, ConfigReply,
              TickReply, RetryReply, Loop, Retry, GiveUp, Tick, NoticesLoss, Quit, Crash, Unheard,
              machine, table
<1>9. UNCHANGED req \/ \E q \in Openings : req' = [req EXCEPT ![Agent] = q]
  <2>1. CASE StartEnroll
    BY <1>6, <2>1 DEF StartEnroll, Call
  <2>2. CASE StartRun \/ Retry
    BY <1>3, <1>4, <2>2 DEF StartRun, Retry, Call
  <2>3. CASE RegisterReply
    BY <1>3, <1>4, <1>7, <2>3 DEF RegisterReply, Call, Hear
  <2>4. CASE AuthReply \/ Tick
    BY <1>3, <1>5, <2>4 DEF AuthReply, Tick, Call, Hear
  <2>5. CASE EnrollReply \/ ConfigReply \/ TickReply \/ RetryReply \/ Unheard
    BY <1>3, <2>5 DEF EnrollReply, ConfigReply, TickReply, RetryReply, Unheard, Call, Hear
  <2>6. CASE NoticesLoss \/ GiveUp \/ Quit \/ Crash
    BY <2>6 DEF NoticesLoss, GiveUp, Quit, Crash
  <2> QED BY <2>1, <2>2, <2>3, <2>4, <2>5, <2>6 DEF Replies, Loop
<1>10. Inv'
  <2>1. CASE UNCHANGED req
    <3>1. Requests'
      BY <1>8, <2>1 DEF Inv, Requests, Placed, New, table
    <3> QED BY <1>8, <3>1, Reads
  <2>2. CASE \E q \in Openings : req' = [req EXCEPT ![Agent] = q]
    BY <1>8, <2>2, Calling
  <2> QED BY <1>9, <2>1, <2>2
<1> QED BY <1>8, <1>9, <1>10

LEMMA Resting ==
  ASSUME Inv, UNCHANGED vars
  PROVE  Inv'
<1>1. UNCHANGED table /\ Requests'
  BY DEF Inv, Requests, Placed, New, vars, table
<1> QED BY <1>1, Reads

-------------------------------------------------------------------------------
(* The invariant holds.                                                     *)

LEMMA Starting == Init => Inv /\ file \in Identities
<1> SUFFICES ASSUME Init PROVE Inv /\ file \in Identities
  OBVIOUS
<1>1. file \in Identities
  BY DEF Init, NoFile, Identities
<1>2. \A n \in Nat : NewDevice("user", n) \in Device /\ NewDevice("user", n).secret = n
                  /\ NewDevice("user", n).exists
  BY NewRow
<1>3. NewCode(1) \in Code /\ NewCode(1).claims = 0 /\ ~NewCode(1).cut
  BY DEF NewCode, Code
<1>4. retired = {} /\ minted \in {0, 1}
  BY DEF Init
<1>5. devices \in Seq(Device)
      /\ \A d \in DOMAIN devices : d = 1 /\ devices[d].secret = minted /\ devices[d].exists
  <2>1. CASE devices = <<>>
    BY <2>1
  <2>2. CASE devices = <<NewDevice("user", minted)>>
    BY <1>2, <1>4, <2>2
  <2> QED BY <2>1, <2>2 DEF Init
<1>6. codes \in Seq(Code) /\ \A c \in DOMAIN codes : codes[c].claims = 0 /\ ~codes[c].cut
  <2>1. CASE codes = <<>>
    BY <2>1
  <2>2. CASE codes = <<NewCode(1)>>
    BY <1>3, <2>2
  <2> QED BY <2>1, <2>2 DEF Init
<1>7. Tables /\ CodesSpent /\ SecretsLive
  BY <1>4, <1>5, <1>6 DEF Tables, CodesSpent, SecretsLive
<1>8. Free \in Request /\ Free.pc = "free"
  BY DEF Free, Request, Labels
<1>9. Requests
  BY <1>8 DEF Init, Requests, Placed
<1> QED BY <1>1, <1>7, <1>9 DEF Inv

LEMMA Invariance == Spec => [](Inv /\ file \in Identities)
<1>1. Inv /\ file \in Identities /\ [Next]_avars => (Inv /\ file \in Identities)'
  <2> SUFFICES ASSUME Inv, file \in Identities, [Next]_avars PROVE (Inv /\ file \in Identities)'
    OBVIOUS
  <2>1. CASE \E r \in Reqs : Server(r)
    BY <2>1, Stepping DEF Server, machine
  <2>2. CASE Ask
    BY <2>2, Asking DEF Ask
  <2>3. CASE StartEnroll \/ StartRun \/ Replies \/ Loop \/ Tick \/ NoticesLoss \/ Quit \/ Crash \/ Unheard
    BY <2>3, Acting
  <2>4. CASE Admit \/ CloseExpired \/ Drop \/ TokenLapses
    BY <2>4, Resting DEF Admit, CloseExpired, Drop, TokenLapses
  <2>5. CASE UNCHANGED avars
    BY <2>5, Resting DEF avars, machine
  <2> QED BY <2>1, <2>2, <2>3, <2>4, <2>5 DEF Next
<1> QED BY <1>1, Starting, PTL DEF Spec

\* Every row, code and request stays of its type, however many requests the
\* dashboard and the other computer make (devices/service.ts, agent/routes.ts).
THEOREM TypeCorrect == Spec => []TypeOK
<1>1. Inv => TypeOK
  BY DEF Inv, Tables, Requests, TypeOK
<1> QED BY <1>1, Invariance, PTL

\* "Two agents racing on the same code must not both end up enrolled"
\* (agent/routes.ts:81).
THEOREM CodeOnce == Spec => []CodeEnrolsOnce
<1>1. Inv => CodeEnrolsOnce
  BY DEF Inv, CodesSpent, CodeEnrolsOnce
<1> QED BY <1>1, Invariance, PTL

\* A code that a revocation, a removal or a newer code invalidated enrols
\* nobody (devices/service.ts: issueEnrollmentCode, revokeDeviceAccess).
THEOREM CutCodeDead == Spec => []CutCodeIsDead
<1>1. Inv => CutCodeIsDead
  BY DEF Inv, CodesSpent, CutCodeIsDead
<1> QED BY <1>1, Invariance, PTL

\* No enrolment, registration or setting gives a device a credential that
\* was revoked or replaced, whichever request was halfway at that moment.
THEOREM RetiredStaysRetired == Spec => []SecretNeverReturns
<1>1. Inv => SecretNeverReturns
  BY DEF Inv, SecretsLive, SecretNeverReturns
<1> QED BY <1>1, Invariance, PTL

-------------------------------------------------------------------------------
(* The identity in agent.toml.                                              *)

\* A secret that was minted, and that no enrolment is about to install.
Unawaited(s) ==
  s = 0 \/ (s \in 1..minted /\ \A r \in Reqs : req[r].pc = "install" => req[r].made # s)

\* An identity is handed out when its secret is installed, never before.
Given ==
  /\ asked \in Nat /\ "st" \in DOMAIN agent /\ Unawaited(file.secret)
  /\ \A r \in Reqs : req[r].pc # "install" => Unawaited(req[r].made)

\* A refusal told the truth, and an identity that was refused stays refused.
Authenticating ==
  agent.st = "authenticating" =>
    \/ /\ req[Agent].op = "auth" /\ req[Agent].pc = "auth"
       /\ req[Agent].dev = file.dev /\ req[Agent].key = file.secret
    \/ req[Agent].pc = "done" /\ (req[Agent].out # "ok" => ~Valid(file))
Abandoned == agent.st = "registering" /\ file # NoFile => ~Valid(file)

\* No row takes s for its secret, nor is one with that secret brought back.
RowStays(d) ==
  /\ d \in DOMAIN devices /\ devices'[d].secret = devices[d].secret
  /\ devices'[d].exists = devices[d].exists /\ devices'[d].revoked = devices[d].revoked
Untaken(s) == \A d \in DOMAIN devices' : RowStays(d) \/ devices'[d].secret \in {0} \cup (Nat \ {s})

LEMMA StillInvalid ==
  ASSUME NEW id, Untaken(id.secret), ~Valid(id)
  PROVE  ~Valid(id)'
<1> SUFFICES ASSUME Valid(id)' PROVE FALSE
  OBVIOUS
<1>1. /\ id.dev \in DOMAIN devices' /\ devices'[id.dev].exists /\ ~devices'[id.dev].revoked
      /\ devices'[id.dev].secret # 0 /\ devices'[id.dev].secret = id.secret
  BY DEF Valid, Enrolled, Exists
<1>2. RowStays(id.dev)
  BY <1>1 DEF Untaken
<1> QED BY <1>1, <1>2 DEF RowStays, Valid, Enrolled, Exists

\* A request goes on with the secret it has.
Carries(r) ==
  /\ minted' = minted
  /\ \A o \in Reqs : o # r => req'[o] = req[o]
  /\ req'[r].made = req[r].made /\ req'[r].pc # "install"

LEMMA AnswerCarries ==
  ASSUME Inv, NEW r \in Reqs, NEW out, Answer(r, out), minted' = minted
  PROVE  Carries(r)
<1> DEFINE q == [Free EXCEPT !.pc = "done", !.out = out, !.made = req[r].made, !.dev = req[r].dev]
<1>1. req' = [req EXCEPT ![r] = q] /\ req \in [Reqs -> Request]
  BY DEF Answer, Inv, Requests
<1>2. q.made = req[r].made /\ q.pc = "done"
  BY DEF Free
<1> HIDE DEF q
<1> QED BY <1>1, <1>2 DEF Carries

LEMMA StepCarries ==
  ASSUME Inv, NEW r \in Reqs, Step(r), ~Claim(r), ~Register(r)
  PROVE  Carries(r)
<1>1. req \in [Reqs -> Request]
  BY DEF Inv, Requests
<1>2. CASE GetOwned(r)
  <2>1. CASE Answer(r, "missing")
    BY <1>2, <2>1, AnswerCarries DEF GetOwned, table
  <2>2. CASE req' = [req EXCEPT ![r].pc = AfterOwned(req[r].op), ![r].seen = devices[req[r].dev]]
    <3>1. AfterOwned(req[r].op) # "install"
      BY <1>2 DEF GetOwned, At, Owned, AfterOwned, Settings
    <3> QED BY <1>1, <1>2, <2>2, <3>1 DEF GetOwned, table, Carries, Request
  <2> QED BY <1>2, <2>1, <2>2 DEF GetOwned
<1>3. CASE WriteSetting(r) \/ IssueCode(r) \/ Revoke(r) \/ Delete(r) \/ LoadEnrolled(r) \/ Authenticate(r)
  BY <1>3, AnswerCarries
     DEF WriteSetting, IssueCode, Revoke, Delete, LoadEnrolled, Authenticate, table
<1>4. CASE InsertDevice(r) \/ RetireCodes(r) \/ Install(r)
  BY <1>1, <1>4 DEF InsertDevice, RetireCodes, Install, Goto, Carries, Request
<1>5. CASE SelectCode(r)
  <2>1. CASE Answer(r, "refused")
    BY <1>5, <2>1, AnswerCarries DEF SelectCode, table
  <2> QED BY <1>1, <1>5, <2>1 DEF SelectCode, table, Carries, Request
<1>6. CASE AuthenticateAgent(r)
  <2>1. CASE Answer(r, "refused")
    BY <1>6, <2>1, AnswerCarries DEF AuthenticateAgent, table
  <2> QED BY <1>1, <1>6, <2>1 DEF AuthenticateAgent, Goto, table, Carries, Request
<1>7. CASE LoadConfig(r)
  <2>1. CASE Answer(r, "missing")
    BY <1>7, <2>1, AnswerCarries DEF LoadConfig, table
  <2> QED BY <1>1, <1>7, <2>1 DEF LoadConfig, table, Carries, Request
<1> QED BY <1>2, <1>3, <1>4, <1>5, <1>6, <1>7 DEF Step, Dashboard, AgentApi

LEMMA Giving ==
  ASSUME Inv, Given, NEW r \in Reqs, Step(r), UNCHANGED machine
  PROVE  Given' /\ \A s : Unawaited(s) => Unawaited(s)'
<1>1. /\ req \in [Reqs -> Request] /\ minted \in Nat /\ UNCHANGED <<file, asked, agent>>
      /\ \A o \in Reqs : req[o].pc = "install" => req[o].made \in 1..minted
      /\ \A o, x \in Reqs : o # x /\ req[o].pc = "install" /\ req[x].pc = "install"
                              => req[o].made # req[x].made
  BY DEF Inv, Requests, Placed, New, Tables, machine
<1>2. ASSUME \A s : Unawaited(s) => Unawaited(s)',
             NEW n, req'[r].made = n, req'[r].pc # "install" => Unawaited(n)',
             \A o \in Reqs : o # r => req'[o] = req[o]
      PROVE  Given'
  <2>1. asked' \in Nat /\ "st" \in DOMAIN agent' /\ Unawaited(file.secret)'
    <3>1. \A s : s = file.secret => Unawaited(s)'
      BY <1>2 DEF Given
    <3>2. \A s : s = file.secret /\ Unawaited(s)' => Unawaited(file.secret)'
      BY <1>1
    <3> QED BY <1>1, <3>1, <3>2 DEF Given
  <2>2. ASSUME NEW o \in Reqs, req'[o].pc # "install" PROVE Unawaited(req[o].made)'
    <3>1. PICK m : m = req'[o].made
      OBVIOUS
    <3>2. Unawaited(m)'
      BY <1>2, <2>2, <3>1 DEF Given
    <3> QED BY <3>1, <3>2 DEF Unawaited
  <2> QED BY <2>1, <2>2 DEF Given
<1>3. CASE Carries(r)
  <2>1. ASSUME NEW s, Unawaited(s) PROVE Unawaited(s)'
    BY <1>3, <2>1 DEF Carries, Unawaited
  <2>2. PICK n : n = req[r].made
    OBVIOUS
  <2>3. Unawaited(n)'
    <3>1. CASE req[r].pc = "install"
      BY <1>1, <1>3, <2>2, <3>1 DEF Carries, Unawaited
    <3>2. CASE req[r].pc # "install"
      BY <2>1, <2>2, <3>2 DEF Given
    <3> QED BY <3>1, <3>2
  <2> QED BY <1>2, <1>3, <2>1, <2>2, <2>3 DEF Carries
<1>4. CASE Claim(r)
  <2>1. CASE Claimable(req[r].key)
    <3>1. PICK n \in Nat : n = minted + 1
      BY <1>1
    <3>2. minted' = n /\ req' = [req EXCEPT ![r].pc = "install", ![r].made = n]
      BY <1>4, <2>1, <3>1 DEF Claim
    <3>3. /\ req'[r].pc = "install" /\ req'[r].made = n
          /\ \A o \in Reqs : o # r => req'[o] = req[o]
      BY <1>1, <3>2 DEF Request
    <3>4. ASSUME NEW s, Unawaited(s) PROVE Unawaited(s)'
      BY <1>1, <3>1, <3>2, <3>3, <3>4 DEF Unawaited
    <3> QED BY <1>2, <3>3, <3>4
  <2>2. CASE ~Claimable(req[r].key)
    <3>1. Carries(r)
      BY <1>4, <2>2, AnswerCarries DEF Claim
    <3> QED BY <1>3, <3>1
  <2> QED BY <2>1, <2>2
<1>5. CASE Register(r)
  <2>1. PICK n \in Nat : n = minted + 1
    BY <1>1
  <2>2. /\ minted' = n
        /\ req' = [req EXCEPT ![r].pc = "done", ![r].out = "ok", ![r].dev = Len(devices) + 1,
                              ![r].made = n]
    BY <1>5, <2>1 DEF Register
  <2>3. /\ req'[r].pc = "done" /\ req'[r].made = n
        /\ \A o \in Reqs : o # r => req'[o] = req[o]
    BY <1>1, <2>2 DEF Request
  <2>4. ASSUME NEW s, Unawaited(s) PROVE Unawaited(s)'
    BY <1>1, <2>1, <2>2, <2>3, <2>4 DEF Unawaited
  <2>5. Unawaited(n)'
    BY <1>1, <2>1, <2>2, <2>3 DEF Unawaited
  <2> QED BY <1>2, <2>3, <2>4, <2>5
<1> QED BY <1>3, <1>4, <1>5, StepCarries

LEMMA Keeping ==
  ASSUME Inv, NEW r \in Reqs, Step(r), NEW s, Unawaited(s)
  PROVE  Untaken(s)
<1>1. /\ req[r] \in Request /\ Placed(req[r]) /\ minted \in Nat
      /\ devices \in Seq(Device) /\ \A d \in DOMAIN devices : devices[d] \in Device
  BY Row DEF Inv, Requests, Tables
<1>2. ASSUME UNCHANGED devices PROVE Untaken(s)
  BY <1>2 DEF Untaken, RowStays
<1>3. CASE WriteSetting(r)
  <2> DEFINE d == req[r].dev
             row == Written(r, devices[d])
  <2>1. d \in DOMAIN devices /\ devices[d] \in Device /\ req[r].op \in Settings
    BY <1>1, <1>3 DEF Placed, WriteSetting, At
  <2>2. /\ row.secret = devices[d].secret /\ row.exists = devices[d].exists
        /\ row.revoked = devices[d].revoked
    <3>1. PICK perm : perm = IF req[r].key = 1 THEN req[r].seen.perm \cup {req[r].cap}
                             ELSE req[r].seen.perm \ {req[r].cap}
      OBVIOUS
    <3>2. \/ row = [devices[d] EXCEPT !.name = req[r].key]
          \/ row = [devices[d] EXCEPT !.incoming = (req[r].key = 1)]
          \/ row = [devices[d] EXCEPT !.password = req[r].key]
          \/ row = [devices[d] EXCEPT !.perm = perm]
      BY <2>1, <3>1 DEF Written, Settings
    <3> HIDE DEF row
    <3> QED BY <2>1, <3>2 DEF Device
  <2> HIDE DEF row
  <2>3. UNCHANGED devices \/ devices' = [devices EXCEPT ![d] = row]
    BY <1>3 DEF WriteSetting, row
  <2> QED BY <1>2, <2>1, <2>2, <2>3 DEF Untaken, RowStays
<1>4. CASE InsertDevice(r) \/ Register(r)
  <2>1. PICK row \in Device : /\ devices' = Append(devices, row)
                              /\ row.secret = 0 \/ (row.secret = minted + 1 /\ Register(r))
    <3>1. CASE InsertDevice(r)
      BY <3>1, NewRow DEF InsertDevice
    <3>2. CASE Register(r)
      <4>1. minted + 1 \in Nat
        BY <1>1
      <4> QED BY <3>2, <4>1, NewRow DEF Register
    <3> QED BY <1>4, <3>1, <3>2
  <2>2. row.secret \in {0} \cup (Nat \ {s})
    BY <1>1, <2>1 DEF Unawaited
  <2>3. /\ DOMAIN devices' = DOMAIN devices \cup {Len(devices) + 1}
        /\ \A d \in DOMAIN devices : devices'[d] = devices[d]
        /\ devices'[Len(devices) + 1] = row
    BY <1>1, <2>1, Appended
  <2> QED BY <2>2, <2>3 DEF Untaken, RowStays
<1>5. CASE Revoke(r) \/ Delete(r)
  <2>1. req[r].dev \in DOMAIN devices /\ devices[req[r].dev] \in Device
    BY <1>1, <1>5 DEF Placed, Revoke, Delete, At
  <2>2. \/ UNCHANGED devices
        \/ devices' = [devices EXCEPT ![req[r].dev] = [@ EXCEPT !.secret = 0, !.revoked = TRUE,
                                                                !.password = 0]]
        \/ devices' = [devices EXCEPT ![req[r].dev] = [@ EXCEPT !.exists = FALSE, !.secret = 0]]
    BY <1>5 DEF Revoke, Delete
  <2>3. /\ DOMAIN devices' = DOMAIN devices
        /\ \A d \in DOMAIN devices : d # req[r].dev => devices'[d] = devices[d]
        /\ UNCHANGED devices \/ devices'[req[r].dev].secret = 0
    BY <2>1, <2>2 DEF Device
  <2> QED BY <1>2, <2>1, <2>3 DEF Untaken, RowStays
<1>6. CASE Install(r)
  <2>1. req[r].made \in Nat /\ (req[r].made # s \/ s = 0)
    BY <1>1, <1>6 DEF Install, At, Unawaited, Request
  <2>2. CASE Exists(req[r].dev)
    <3>1. PICK d : d = req[r].dev
      OBVIOUS
    <3>2. PICK n : n = req[r].made
      OBVIOUS
    <3>3. /\ d \in DOMAIN devices /\ devices[d] \in Device
          /\ devices' = [devices EXCEPT ![d] = [@ EXCEPT !.secret = n, !.revoked = FALSE]]
      BY <1>1, <1>6, <2>2, <3>1, <3>2 DEF Install, Exists
    <3>4. /\ DOMAIN devices' = DOMAIN devices /\ devices'[d].secret = n
          /\ \A e \in DOMAIN devices : e # d => devices'[e] = devices[e]
      BY <3>3 DEF Device
    <3>5. n \in {0} \cup (Nat \ {s})
      <4>1. New(n)
        BY <1>1, <1>6, <3>2 DEF Install, At, Placed
      <4>2. n # 0
        BY <1>1, <4>1 DEF New
      <4> QED BY <2>1, <3>2, <4>2
    <3> QED BY <3>3, <3>4, <3>5 DEF Untaken, RowStays
  <2>3. CASE ~Exists(req[r].dev)
    BY <1>2, <1>6, <2>3 DEF Install
  <2> QED BY <2>2, <2>3
<1>7. CASE \/ GetOwned(r) \/ RetireCodes(r) \/ IssueCode(r) \/ SelectCode(r) \/ Claim(r)
           \/ LoadEnrolled(r) \/ Authenticate(r) \/ AuthenticateAgent(r) \/ LoadConfig(r)
  BY <1>2, <1>7 DEF GetOwned, RetireCodes, IssueCode, SelectCode, Claim, LoadEnrolled,
                    Authenticate, AuthenticateAgent, LoadConfig, table
<1> QED BY <1>3, <1>4, <1>5, <1>6, <1>7 DEF Step, Dashboard, AgentApi

\* A request that arrives, or an empty slot, awaits nothing.
LEMMA Opened ==
  ASSUME Inv, Given, UNCHANGED table,
         UNCHANGED req \/ \E a \in Reqs, q \in Openings : req' = [req EXCEPT ![a] = q],
         asked' \in Nat, "st" \in DOMAIN agent', Unawaited(file'.secret)
  PROVE  Given'
<1>1. \A o \in Reqs : req'[o] = req[o] \/ (req'[o].made = 0 /\ req'[o].pc # "install")
  BY DEF Inv, Requests, Openings
<1>2. ASSUME NEW s, Unawaited(s) PROVE Unawaited(s)'
  BY <1>1, <1>2 DEF Unawaited, table
<1>3. Unawaited(file.secret)'
  <2>1. PICK s : s = file'.secret
    OBVIOUS
  <2>2. Unawaited(s)'
    BY <1>2, <2>1
  <2> QED BY <2>1, <2>2 DEF Unawaited
<1>4. ASSUME NEW o \in Reqs, req'[o].pc # "install" PROVE Unawaited(req[o].made)'
  <2>1. PICK m : m = req'[o].made
    OBVIOUS
  <2>2. Unawaited(m)'
    <3>1. CASE req'[o] = req[o]
      BY <1>2, <1>4, <2>1, <3>1 DEF Given
    <3>2. CASE req'[o].made = 0
      BY <2>1, <3>2 DEF Unawaited
    <3> QED BY <1>1, <3>1, <3>2
  <2> QED BY <2>1, <2>2 DEF Unawaited
<1> QED BY <1>3, <1>4 DEF Given

Identity == file \in Identities /\ Given /\ Authenticating /\ Abandoned

LEMMA ServerIdentity ==
  ASSUME Inv, Identity, NEW r \in Reqs, Server(r)
  PROVE  Identity'
<1>1. Step(r) /\ UNCHANGED machine /\ UNCHANGED <<file, agent>> /\ Agent \in Reqs
  BY AgentAssumption DEF Server, machine
<1>2. Given'
  BY <1>1, Giving DEF Identity
<1>3. ~Valid(file) => ~Valid(file)'
  <2>1. PICK id : id = file
    OBVIOUS
  <2>2. Untaken(id.secret)
    BY <1>1, <2>1, Keeping DEF Identity, Given
  <2>3. ~Valid(id) => ~Valid(id)'
    BY <2>2, StillInvalid
  <2> QED BY <1>1, <2>1, <2>3 DEF Valid, Enrolled, Exists
<1>4. Authenticating'
  <2> SUFFICES ASSUME agent.st = "authenticating"
               PROVE  \/ /\ req'[Agent].op = "auth" /\ req'[Agent].pc = "auth"
                         /\ req'[Agent].dev = file.dev /\ req'[Agent].key = file.secret
                      \/ req'[Agent].pc = "done" /\ (req'[Agent].out # "ok" => ~Valid(file)')
    BY <1>1 DEF Authenticating
  <2>1. CASE r # Agent
    <3>1. req'[Agent] = req[Agent]
      <4>1. CASE Carries(r)
        BY <1>1, <2>1, <4>1 DEF Carries
      <4>2. CASE Claim(r) \/ Register(r)
        <5>1. req \in [Reqs -> Request] /\ \E q : req' = [req EXCEPT ![r] = q]
          BY <4>2 DEF Claim, Register, Answer, Inv, Requests
        <5> QED BY <1>1, <2>1, <5>1
      <4> QED BY <1>1, <4>1, <4>2, StepCarries
    <3> QED BY <1>3, <3>1 DEF Identity, Authenticating
  <2>2. CASE r = Agent
    <3>1. req[r].pc # "done"
      BY <1>1
         DEF Step, Dashboard, AgentApi, At, GetOwned, WriteSetting, InsertDevice, RetireCodes,
             IssueCode, Revoke, Delete, SelectCode, Claim, Install, LoadEnrolled, Register,
             Authenticate, AuthenticateAgent, LoadConfig
    <3>2. /\ req[r].op = "auth" /\ req[r].pc = "auth"
          /\ req[r].dev = file.dev /\ req[r].key = file.secret
      BY <2>2, <3>1 DEF Identity, Authenticating
    <3>3. Authenticate(r)
      BY <1>1, <3>2
         DEF Step, Dashboard, AgentApi, At, GetOwned, WriteSetting, InsertDevice, RetireCodes,
             IssueCode, Revoke, Delete, SelectCode, Claim, Install, LoadEnrolled, Register,
             AuthenticateAgent, LoadConfig
    <3>4. PICK out : Answer(r, out) /\ (out = "ok" \/ ~Valid(file))
      <4>1. PICK id : id = [dev |-> req[r].dev, secret |-> req[r].key]
        OBVIOUS
      <4>2. Answer(r, IF Valid(id) THEN "ok" ELSE "refused")
        BY <3>3, <4>1 DEF Authenticate
      <4>3. id.dev = file.dev /\ id.secret = file.secret
        BY <3>2, <4>1
      <4>4. Valid(id) <=> Valid(file)
        BY <4>3 DEF Valid
      <4> QED BY <4>2, <4>4
    <3>5. req'[r].pc = "done" /\ req'[r].out = out
      <4> DEFINE q == [Free EXCEPT !.pc = "done", !.out = out, !.made = req[r].made,
                                   !.dev = req[r].dev]
      <4>1. q.pc = "done" /\ q.out = out
        BY DEF Free
      <4>2. req' = [req EXCEPT ![r] = q] /\ req \in [Reqs -> Request]
        BY <3>4 DEF Answer, Inv, Requests
      <4> HIDE DEF q
      <4> QED BY <4>1, <4>2
    <3> QED BY <1>3, <2>2, <3>4, <3>5
  <2> QED BY <2>1, <2>2
<1>5. Abandoned'
  BY <1>1, <1>3 DEF Identity, Abandoned
<1> QED BY <1>1, <1>2, <1>4, <1>5 DEF Identity

LEMMA AskIdentity ==
  ASSUME Inv, Identity, Ask
  PROVE  Identity'
<1>1. /\ UNCHANGED table /\ UNCHANGED <<file, agent>> /\ asked' = asked + 1 /\ asked \in Nat
      /\ asked < MaxAsked
  BY DEF Ask, Identity, Given
<1>2. PICK in \in Openings : req' = [req EXCEPT ![asked + 1] = in]
  BY Asking DEF Submit
<1>3. asked + 1 \in Reqs /\ req'[Agent] = req[Agent]
  BY <1>1, <1>2, AgentAssumption DEF Inv, Requests
<1>4. Given'
  <2>1. asked' \in Nat /\ "st" \in DOMAIN agent' /\ Unawaited(file'.secret)
    <3>1. Unawaited(file.secret) /\ "st" \in DOMAIN agent
      BY DEF Identity, Given
    <3> QED BY <1>1, <3>1
  <2>2. \E a \in Reqs, q \in Openings : req' = [req EXCEPT ![a] = q]
    BY <1>2, <1>3
  <2> QED BY <1>1, <2>1, <2>2, Opened DEF Identity
<1>5. Valid(file)' <=> Valid(file)
  BY <1>1 DEF Valid, Enrolled, Exists, table
<1> QED BY <1>1, <1>3, <1>4, <1>5 DEF Identity, Authenticating, Abandoned

LEMMA AuthCallIs ==
  ASSUME NEW id
  PROVE  /\ AuthCall(id).op = "auth" /\ AuthCall(id).pc = "auth"
         /\ AuthCall(id).dev = id.dev /\ AuthCall(id).key = id.secret
<1>1. First("auth") = "auth"
  BY DEF First, Owned, Settings
<1> QED BY <1>1 DEF AuthCall, Request0, Free

\* The agent's own steps: with no answer lost, what it takes for a refusal is one.
LEMMA ActIdentity ==
  ASSUME Inv, Identity, "lost" \notin Faults,
         StartEnroll \/ StartRun \/ Replies \/ Loop \/ Tick \/ NoticesLoss \/ Quit \/ Crash \/ Unheard
  PROVE  Identity'
<1>1. /\ file \in Identities /\ file' \in Identities /\ UNCHANGED table /\ Agent \in Reqs
      /\ UNCHANGED req \/ \E q \in Openings : req' = [req EXCEPT ![Agent] = q]
      /\ req \in [Reqs -> Request]
  BY Acting, AgentAssumption DEF Identity, Inv, Requests
<1>2. Given /\ Authenticating /\ Abandoned /\ "st" \in DOMAIN agent /\ "st" \in DOMAIN Off
      /\ Off.st = "off" /\ asked' = asked
  BY DEF Identity, Given, Off, StartEnroll, StartRun, Replies, EnrollReply, RegisterReply, AuthReply,
         ConfigReply, TickReply, RetryReply, Loop, Retry, GiveUp, Tick, NoticesLoss, Quit, Crash,
         Unheard, machine
<1>3. UNCHANGED file => (Valid(file)' <=> Valid(file))
  BY <1>1 DEF Valid, Enrolled, Exists, table
<1>4. \A call : req' = Call(call) => req'[Agent] = call
  BY <1>1 DEF Call
<1>5. CASE StartEnroll \/ EnrollReply \/ ConfigReply \/ TickReply \/ RetryReply \/ Retry \/ GiveUp
           \/ Tick \/ NoticesLoss \/ Quit \/ Crash \/ Unheard
  <2>1. agent'.st \notin {"authenticating", "registering"} /\ "st" \in DOMAIN agent'
    BY <1>2, <1>5
       DEF StartEnroll, EnrollReply, ConfigReply, TickReply, RetryReply, Retry, GiveUp, Tick,
           NoticesLoss, Quit, Crash, Unheard, Answered, machine
  <2>2. UNCHANGED file \/ (file' = Saved /\ req[Agent].pc = "done")
    BY <1>5
       DEF StartEnroll, EnrollReply, ConfigReply, TickReply, RetryReply, Retry, GiveUp, Tick,
           NoticesLoss, Quit, Crash, Unheard, Answered, machine
  <2>3. Unawaited(file'.secret)
    BY <1>1, <1>2, <2>2 DEF Given, Saved
  <2> QED BY <1>1, <1>2, <2>1, <2>3, Opened DEF Identity, Given, Authenticating, Abandoned
<1>6. CASE StartRun
  <2>1. /\ UNCHANGED file
        /\ \/ agent' = [Off EXCEPT !.st = "registering"] /\ file = NoFile
           \/ agent' = [Off EXCEPT !.st = "authenticating"] /\ req' = Call(AuthCall(file))
    BY <1>6 DEF StartRun
  <2>2. /\ "st" \in DOMAIN agent'
        /\ \/ agent'.st = "registering" /\ file = NoFile
           \/ agent'.st = "authenticating" /\ req'[Agent] = AuthCall(file)
    BY <1>2, <1>4, <2>1
  <2>3. Given'
    BY <1>1, <1>2, <2>1, <2>2, Opened DEF Given
  <2>4. Authenticating'
    BY <2>1, <2>2, AuthCallIs DEF Authenticating
  <2>5. Abandoned'
    BY <2>1, <2>2 DEF Abandoned
  <2> QED BY <1>1, <2>3, <2>4, <2>5 DEF Identity
<1>7. CASE RegisterReply
  <2>1. /\ req[Agent].pc = "done"
        /\ \/ /\ file' = Saved /\ agent' = [agent EXCEPT !.st = "authenticating"]
              /\ req' = Call(AuthCall(Saved))
           \/ UNCHANGED file /\ agent' = Off
    BY <1>7 DEF RegisterReply, Answered
  <2>2. /\ "st" \in DOMAIN agent'
        /\ \/ file' = Saved /\ agent'.st = "authenticating" /\ req'[Agent] = AuthCall(file')
           \/ UNCHANGED file /\ agent'.st = "off"
    BY <1>2, <1>4, <2>1
  <2>3. Unawaited(file'.secret)
    BY <1>1, <1>2, <2>1 DEF Given, Saved
  <2>4. Given'
    BY <1>1, <1>2, <2>2, <2>3, Opened DEF Given
  <2>5. Authenticating'
    BY <2>2, AuthCallIs DEF Authenticating
  <2>6. Abandoned'
    BY <2>2 DEF Abandoned
  <2> QED BY <1>1, <2>4, <2>5, <2>6 DEF Identity
<1>8. CASE AuthReply
  <2>1. req[Agent].pc = "done" /\ agent.st = "authenticating" /\ UNCHANGED file
    BY <1>8 DEF AuthReply, Answered
  <2>2. /\ "st" \in DOMAIN agent' /\ agent'.st # "authenticating"
        /\ agent'.st = "registering" => req[Agent].out # "ok"
    <3>1. PICK ok \in Outcomes :
            \/ ok /\ agent' = [agent EXCEPT !.st = "configuring", !.fresh = TRUE]
            \/ ~ok /\ agent' = [agent EXCEPT !.st = "registering", !.again = TRUE]
            \/ ~ok /\ agent' = Off
      BY <1>8 DEF AuthReply
    <3>2. ok = (req[Agent].out = "ok")
      BY DEF Outcomes
    <3> QED BY <1>2, <3>1, <3>2
  <2>3. Given'
    BY <1>1, <1>2, <2>1, <2>2, Opened DEF Given
  <2>4. ~Valid(file) \/ agent'.st # "registering"
    BY <1>2, <2>1, <2>2 DEF Authenticating
  <2> QED BY <1>1, <1>3, <2>1, <2>2, <2>3, <2>4 DEF Identity, Authenticating, Abandoned
<1> QED BY <1>5, <1>6, <1>7, <1>8 DEF Replies, Loop

LEMMA IdentityHolds ==
  ASSUME "lost" \notin Faults
  PROVE  Spec => [](Inv /\ Identity)
<1>1. Init => Inv /\ Identity
  <2> SUFFICES ASSUME Init PROVE Inv /\ Identity
    OBVIOUS
  <2>1. /\ Inv /\ file \in Identities /\ asked = 0 /\ agent = Off /\ Off.st = "off"
        /\ "st" \in DOMAIN Off
    BY Starting DEF Init, Off
  <2>2. \A r \in Reqs : req[r].pc = "free" /\ req[r].made = 0
    BY DEF Init, Free
  <2>3. file.secret = 0 \/ (file.secret = 1 /\ minted = 1)
    BY DEF Init, NoFile
  <2>4. Given
    BY <2>1, <2>2, <2>3 DEF Given, Unawaited
  <2> QED BY <2>1, <2>4 DEF Identity, Authenticating, Abandoned
<1>2. Inv /\ Identity /\ [Next]_avars => (Inv /\ Identity)'
  <2> SUFFICES ASSUME Inv, Identity, [Next]_avars PROVE (Inv /\ Identity)'
    OBVIOUS
  <2>1. CASE \E r \in Reqs : Server(r)
    BY <2>1, Stepping, ServerIdentity DEF Server
  <2>2. CASE Ask
    BY <2>2, Asking, AskIdentity
  <2>3. CASE StartEnroll \/ StartRun \/ Replies \/ Loop \/ Tick \/ NoticesLoss \/ Quit \/ Crash \/ Unheard
    BY <2>3, Acting, ActIdentity DEF Identity
  <2>4. CASE Admit \/ CloseExpired \/ Drop \/ TokenLapses \/ UNCHANGED avars
    <3>1. UNCHANGED <<vars, file, asked>>
      BY <2>4 DEF Admit, CloseExpired, Drop, TokenLapses, avars, machine
    <3>2. "st" \in DOMAIN agent' /\ agent'.st = agent.st
      BY <2>4 DEF Admit, CloseExpired, Drop, TokenLapses, avars, machine, Identity, Given
    <3>3. Inv'
      BY <3>1, Resting
    <3>4. UNCHANGED table /\ UNCHANGED req
      BY <3>1 DEF vars, table
    <3>5. Given'
      BY <3>1, <3>2, <3>4, Opened DEF Identity, Given
    <3>6. Authenticating' /\ Abandoned'
      BY <3>1, <3>2, <3>4
         DEF Identity, Authenticating, Abandoned, Valid, Enrolled, Exists, table
    <3> QED BY <3>1, <3>3, <3>5, <3>6 DEF Identity
  <2> QED BY <2>1, <2>2, <2>3, <2>4 DEF Next
<1> QED BY <1>1, <1>2, PTL DEF Spec

\* run gives up the identity in agent.toml only when it was revoked, replaced
\* or removed (main.rs:255), provided that no answer is lost on the way: an
\* error of any other kind is taken for the same, which run identity_lost shows.
THEOREM IdentityOutlivesStarts ==
  ASSUME "lost" \notin Faults
  PROVE  Spec => IdentityKept
<1>1. Inv /\ Identity =>
        [agent.st = "registering" /\ file' # file /\ file # NoFile => ~Valid(file)]_avars
  BY DEF Identity, Abandoned
<1>2. Spec => [](Inv /\ Identity)
  BY IdentityHolds
<1> QED BY <1>1, <1>2, PTL DEF IdentityKept

===============================================================================
