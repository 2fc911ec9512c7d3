------------------------------ MODULE Share_proofs ------------------------------
(***************************************************************************)
(* Theorems about Share, and so about Peer, for any captures, restart      *)
(* tasks, retries and number of events.                                    *)
(***************************************************************************)
EXTENDS Share, SequenceTheorems, TLAPS

Frames ==
  [type : {"ready", "end", "deny"}] \cup [type : {"offer", "answer"}, creds : Creds]
    \cup [type : {"request"}, cap : Caps, id : 1 .. MaxEvents]
    \cup [type : {"revoke"}, cap : Caps]
    \cup [type : {"response"}, cap : Caps, id : 1 .. MaxEvents, granted : BOOLEAN]
    \cup [type : {"state"}, on : [Caps -> BOOLEAN]]

\* What the loop's handler does: it sends a frame, or sets its description.
Steps == Frames \cup [type : {"set"}, otherwise : Seq(Frames)]

\* Something in q is of this type.
Has(q, type) == \E i \in 1 .. Len(q) : q[i].type = type

-------------------------------------------------------------------------------
(* Frames and queues.                                                       *)

LEMMA FrameParts ==
  ASSUME NEW f \in Frames
  PROVE  /\ f.type \in FrameTypes
         /\ f.type \in {"offer", "answer"} => f.creds \in Creds
         /\ f.type \in {"request", "response"} => f.cap \in Caps /\ f.id \in 1 .. MaxEvents
         /\ f.type = "revoke" => f.cap \in Caps
         /\ f.type = "response" => f.granted \in BOOLEAN
         /\ f.type = "state" => f.on \in [Caps -> BOOLEAN]
BY DEF Frames, FrameTypes

LEMMA StepParts ==
  ASSUME NEW f \in Steps
  PROVE  /\ f.type # "set" => f \in Frames
         /\ f.type = "set" => f.otherwise \in Seq(Frames)
         /\ f.type \in FrameTypes \cup {"set"}
<1>1. CASE f \in Frames
  BY <1>1, FrameParts DEF FrameTypes
<1>2. CASE f \in [type : {"set"}, otherwise : Seq(Frames)]
  BY <1>2
<1> QED BY <1>1, <1>2 DEF Steps

LEMMA FramesAreSteps == Frames \subseteq Steps /\ Seq(Frames) \subseteq Seq(Steps)
<1>1. Frames \subseteq Steps
  BY DEF Steps
<1> QED BY <1>1, SeqDef

LEMMA SetsMade ==
  \A q \in Seq(Frames) : Set(q) \in Steps /\ Set(q).type = "set" /\ Set(q).otherwise = q
BY DEF Set, Steps

LEMMA FramesMade ==
  /\ \A type \in {"ready", "end", "deny"} : Frame(type) \in Frames /\ Frame(type).type = type
  /\ \A c \in Creds : /\ Offer(c) \in Frames /\ Offer(c).type = "offer"
                      /\ Answer(c) \in Frames /\ Answer(c).type = "answer"
  /\ \A c \in Caps : Revoke(c) \in Frames /\ Revoke(c).type = "revoke"
  /\ \A c \in Caps, id \in 1 .. MaxEvents :
       /\ Request(c, id) \in Frames /\ Request(c, id).type = "request"
       /\ \A yes \in BOOLEAN : Response(c, id, yes) \in Frames
  /\ \A on \in [Caps -> BOOLEAN] : State(on) \in Frames /\ State(on).type = "state"
BY DEF Frame, Offer, Answer, Request, Revoke, Response, State, Frames

\* What is left of a queue, and what was taken from it.
LEMMA Taking ==
  ASSUME NEW S, NEW q \in Seq(S), q # <<>>
  PROVE  /\ Head(q) \in S /\ Tail(q) \in Seq(S)
         /\ \A type : Has(q, type) => Has(Tail(q), type) \/ Head(q).type = type
<1>1. /\ Head(q) \in S /\ Head(q) = q[1] /\ Tail(q) \in Seq(S)
      /\ Len(q) \in Nat /\ Len(Tail(q)) = Len(q) - 1
      /\ \A i \in 1 .. Len(q) - 1 : Tail(q)[i] = q[i + 1]
  BY HeadTailProperties, LenProperties
<1>2. ASSUME NEW type, NEW i \in 1 .. Len(q), q[i].type = type, Head(q).type # type
      PROVE  Has(Tail(q), type)
  <2>1. i # 1
    BY <1>1, <1>2
  <2>2. i - 1 \in 1 .. Len(Tail(q)) /\ Tail(q)[i - 1] = q[i]
    <3>1. i - 1 \in 1 .. Len(q) - 1 /\ (i - 1) + 1 = i
      BY <1>1, <2>1
    <3> QED BY <1>1, <3>1
  <2> QED BY <1>2, <2>2 DEF Has
<1> QED BY <1>1, <1>2 DEF Has

LEMMA Putting ==
  ASSUME NEW q \in Seq(Frames), NEW f \in Frames
  PROVE  /\ Append(q, f) \in Seq(Frames)
         /\ Has(Append(q, f), f.type)
         /\ \A type : Has(q, type) => Has(Append(q, f), type)
<1>1. /\ Append(q, f) \in Seq(Frames)
      /\ Len(q) \in Nat /\ Len(Append(q, f)) = Len(q) + 1
      /\ \A i \in 1 .. Len(q) : Append(q, f)[i] = q[i]
      /\ Append(q, f)[Len(q) + 1] = f
  BY AppendProperties, LenProperties
<1>2. /\ Len(q) + 1 \in 1 .. Len(q) + 1
      /\ \A i \in 1 .. Len(q) : i \in 1 .. Len(q) + 1
  BY <1>1
<1>3. Has(Append(q, f), f.type)
  BY <1>1, <1>2 DEF Has
<1>4. \A type : Has(q, type) => Has(Append(q, f), type)
  BY <1>1, <1>2 DEF Has
<1> QED BY <1>1, <1>3, <1>4

LEMMA Aging ==
  /\ \A c \in Creds : AgeCred(c) \in Creds
  /\ \A f \in Frames : Age(f) \in Frames /\ Age(f).type = f.type
  /\ \A f \in Steps : Age(f) \in Steps /\ Age(f).type = f.type
<1>1. \A c \in Creds : AgeCred(c) \in Creds
  BY DEF AgeCred, Creds
<1>2. ASSUME NEW f \in Frames PROVE Age(f) \in Frames /\ Age(f).type = f.type
  <2>1. CASE f.type \in {"offer", "answer"}
    <3>1. f \in [type : {"offer", "answer"}, creds : Creds]
      BY <2>1 DEF Frames
    <3>2. Age(f) = [f EXCEPT !.creds = AgeCred(f.creds)]
      BY <2>1 DEF Age
    <3>3. AgeCred(f.creds) \in Creds
      BY <1>1, <3>1
    <3>4. [f EXCEPT !.creds = AgeCred(f.creds)] \in [type : {"offer", "answer"}, creds : Creds]
      BY <3>1, <3>3
    <3>5. [f EXCEPT !.creds = AgeCred(f.creds)].type = f.type
      BY <3>1
    <3> QED BY <3>2, <3>4, <3>5 DEF Frames
  <2>2. CASE f.type \notin {"offer", "answer"}
    BY <2>2 DEF Age
  <2> QED BY <2>1, <2>2
<1>3. ASSUME NEW f \in Steps PROVE Age(f) \in Steps /\ Age(f).type = f.type
  <2>1. CASE f \in Frames
    BY <1>2, <2>1, FramesAreSteps
  <2>2. CASE f \in [type : {"set"}, otherwise : Seq(Frames)]
    BY <2>2 DEF Age
  <2> QED BY <2>1, <2>2 DEF Steps
<1> QED BY <1>1, <1>2, <1>3

LEMMA AgingAll ==
  ASSUME NEW S, NEW q \in Seq(S), \A f \in S : Age(f) \in S /\ Age(f).type = f.type
  PROVE  /\ AgeAll(q) \in Seq(S) /\ Len(AgeAll(q)) = Len(q)
         /\ \A i \in 1 .. Len(q) : AgeAll(q)[i].type = q[i].type
         /\ \A type : Has(q, type) => Has(AgeAll(q), type)
<1>1. Len(q) \in Nat /\ DOMAIN q = 1 .. Len(q) /\ \A i \in 1 .. Len(q) : q[i] \in S
  BY LenProperties, ElementOfSeq
<1>2. AgeAll(q) = [i \in 1 .. Len(q) |-> Age(q[i])]
  BY <1>1 DEF AgeAll
<1>3. \A i \in 1 .. Len(q) : Age(q[i]) \in S /\ Age(q[i]).type = q[i].type
  BY <1>1
<1>4. AgeAll(q) \in Seq(S) /\ Len(AgeAll(q)) = Len(q)
  <2>1. AgeAll(q) \in [1 .. Len(q) -> S]
    BY <1>2, <1>3
  <2> QED BY <1>1, <2>1, SeqDef, LenProperties
<1>5. \A i \in 1 .. Len(q) : AgeAll(q)[i].type = q[i].type
  BY <1>2, <1>3
<1> QED BY <1>4, <1>5 DEF Has

-------------------------------------------------------------------------------
(* The invariant.                                                           *)

\* The types of Peer's variables; frames are known more closely than PeerTypeOK
\* asks, since what is taken from a queue goes into the state.
Types ==
  /\ serving \in BOOLEAN /\ event \in BOOLEAN /\ scheduled \in BOOLEAN /\ have \in BOOLEAN
  /\ path \in BOOLEAN /\ usable \in BOOLEAN
  /\ capture \in [Caps -> BOOLEAN]
  /\ sig \in {"stable", "offered"} /\ latest \in {"none", "loop"} \cup Tasks
  /\ peer \in Creds /\ remote \in Creds /\ cred \in Creds
  /\ ice \in {"new", "checking", "connected", "closed", "disconnected", "failed"}
  /\ task \in [Tasks -> {"idle", "sleep", "awake", "set", "sendNew", "sendOld"}]
  /\ phase \in {"waiting", "active", "reconnecting", "none", "over"}
  /\ ui \in [Caps -> {"idle", "requesting", "active", "denied"}]
  /\ pending \subseteq 1 .. MaxEvents /\ events \in 0 .. MaxEvents /\ answering \in Nat
  /\ link \in {"up", "lost", "again", "refused", "none"}
  /\ loop \in Seq(Steps) /\ toPage \in Seq(Frames) /\ toAgent \in Seq(Frames)
  /\ chain \in Seq(Creds)

\* A handler sets its description first of all, and then sends it.
SetsFirst ==
  /\ \A i \in 2 .. Len(loop) : loop[i].type # "set"
  /\ loop # <<>> /\ loop[1].type = "set" => Has(loop, "offer")

TabFrames == [type : {"accept", "deny", "end"}]

\* And of Share's.
TabTypes ==
  /\ tab \in {"absent", "registering", "online", "failed", "gone"}
  /\ device \in {"none", "kept", "deleted"}
  /\ socket \in {"none", "auth", "added", "open", "closing", "closed", "zombie"}
  /\ presence \in BOOLEAN /\ invite \in BOOLEAN /\ prompt \in BOOLEAN /\ picker \in BOOLEAN
  /\ stream \in BOOLEAN /\ sharing \in BOOLEAN
  /\ tabOut \in Seq(TabFrames)
  /\ viewer \in {"idle", "guest", "creating", "in", "error"} /\ tries \in 0 .. MaxRetries

\* A native agent serves, or a tab does; only a tab is connected to here.
OneServes ==
  /\ tab # "absent" => ~serving
  /\ viewer # "idle" => tab # "absent"

\* The flag is up only while a task sleeps, so an event that finds it up is
\* the task's to see.
FlagHasSleeper == scheduled => \E t \in Tasks : task[t] = "sleep"

\* What will lead to an answer: an offer on its way or the offer applied last,
\* which the next handler answers, or the answer itself.
InFlight ==
  \/ LoopOffers
  \/ \E t \in Tasks : TaskOffers(t)
  \/ Has(toPage, "offer")
  \/ chain # <<>>
  \/ have
  \/ Has(toAgent, "answer")

\* A handler is past setRemoteDescription for the offer applied last.
AppliedHasHandler == have => answering > 0

OfferLives == serving /\ sig = "offered" /\ link = "up" /\ Here => InFlight

IInv ==
  /\ Types /\ SetsFirst /\ TabTypes /\ OneServes
  /\ FlagHasSleeper /\ DownIsAttended
  /\ AppliedHasHandler /\ OfferLives

-------------------------------------------------------------------------------
(* Types.                                                                   *)

LEMMA SentFrames ==
  ASSUME Types, NEW f \in Frames
  PROVE  /\ ToPage(f) \in Seq(Frames) /\ ToAgent(f) \in Seq(Frames)
         /\ \A type : Has(toPage, type) => Has(ToPage(f), type)
         /\ \A type : Has(toAgent, type) => Has(ToAgent(f), type)
         /\ link = "up" /\ Here => Has(ToPage(f), f.type)
         /\ link = "up" => Has(ToAgent(f), f.type)
BY Putting DEF Types, ToPage, ToAgent, Relayed

LEMMA RestartTypes ==
  ASSUME Types, Restart
  PROVE  /\ usable' = TRUE
         /\ ice' \in {"new", "checking"}
         /\ peer' \in Creds /\ remote' \in Creds /\ cred' \in Creds
         /\ chain' \in Seq(Creds) /\ (chain # <<>> => chain' # <<>>)
         /\ toPage' \in Seq(Frames) /\ toAgent' \in Seq(Frames)
         /\ \A type : Has(toPage, type) => Has(toPage', type)
         /\ \A type : Has(toAgent, type) => Has(toAgent', type)
<1>1. /\ Len(chain) \in Nat /\ DOMAIN chain = 1 .. Len(chain)
      /\ \A i \in 1 .. Len(chain) : chain[i] \in Creds
  BY LenProperties, ElementOfSeq DEF Types
<1>2. chain' = [i \in 1 .. Len(chain) |-> AgeCred(chain[i])]
  BY <1>1 DEF Restart
<1>3. chain' \in Seq(Creds) /\ Len(chain') = Len(chain)
  <2>1. chain' \in [1 .. Len(chain) -> Creds]
    BY <1>1, <1>2, Aging
  <2> QED BY <1>1, <2>1, SeqDef, LenProperties
<1>4. chain # <<>> => chain' # <<>>
  BY <1>1, <1>3, EmptySeq DEF Types
<1> QED BY <1>3, <1>4, Aging, AgingAll DEF Restart, Types

LEMMA TaskAges ==
  \A s \in {"idle", "sleep", "awake", "set", "sendNew", "sendOld"} :
    /\ AgeTask(s) \in {"idle", "sleep", "awake", "set", "sendNew", "sendOld"}
    /\ s \in {"idle", "sleep", "awake", "set"} => AgeTask(s) = s
BY DEF AgeTask

LEMMA FreeIsIdle ==
  ASSUME \E t \in Tasks : task[t] = "idle"
  PROVE  Free \in Tasks /\ task[Free] = "idle"
BY DEF Free

LEMMA AgentTaking ==
  ASSUME Types, NEW type, AgentTakes(type)
  PROVE  /\ Head(toAgent) \in Frames /\ Head(toAgent).type = type
         /\ toAgent' \in Seq(Frames)
         /\ \A other : Has(toAgent, other) => Has(toAgent', other) \/ other = type
         /\ loop = <<>> /\ ~LoopOffers
<1>1. toAgent \in Seq(Frames) /\ toAgent # <<>> /\ toAgent' = Tail(toAgent) /\ loop = <<>>
  BY DEF AgentTakes, Types, Idle
<1>2. ~LoopOffers
  BY <1>1 DEF LoopOffers
<1> QED BY <1>1, <1>2, Taking DEF AgentTakes

LEMMA PageTaking ==
  ASSUME Types, NEW type, PageTakes(type)
  PROVE  /\ Head(toPage) \in Frames /\ Head(toPage).type = type
         /\ toPage' \in Seq(Frames)
         /\ \A other : Has(toPage, other) => Has(toPage', other) \/ other = type
BY Taking DEF PageTakes, Types

LEMMA NoFrames == <<>> \in Seq(Frames) /\ <<>> \in Seq(Creds)
BY EmptySeq

LEMMA FewFrames == /\ \A f \in Frames : <<f>> \in Seq(Frames) /\ <<f>> \in Seq(Steps)
                   /\ \A f, g \in Steps : <<f, g>> \in Seq(Steps)
                   /\ \A f, g, h, i \in Steps : <<f, g, h, i>> \in Seq(Steps)
<1>1. \A f \in Frames : <<f>> \in Seq(Frames)
  OBVIOUS
<1>2. \A f, g \in Steps : <<f, g>> \in Seq(Steps)
  OBVIOUS
<1>3. \A f, g, h, i \in Steps : <<f, g, h, i>> \in Seq(Steps)
  OBVIOUS
<1> QED BY <1>1, <1>2, <1>3, FramesAreSteps

LEMMA Closing ==
  ASSUME Types, Close
  PROVE  /\ serving' = FALSE /\ event' = FALSE /\ capture' \in [Caps -> BOOLEAN]
         /\ sig' = "stable" /\ latest' = "none" /\ peer' = "none" /\ ice' = "closed"
BY DEF Close

LEMMA LoopTypes ==
  ASSUME Types, AgentLoop
  PROVE  Types'
<1>1. CASE AgentWrites
  <2>1. loop # <<>> /\ Head(loop) \in Frames /\ Tail(loop) \in Seq(Steps)
    BY <1>1, Taking, StepParts DEF AgentWrites, Idle, Types
  <2> QED BY <1>1, <2>1, SentFrames DEF AgentWrites, Types, pageVars
<1>8. CASE AgentSets
  <2>1. loop' \in Seq(Steps)
    <3>1. Head(loop) \in Steps /\ Tail(loop) \in Seq(Steps)
      BY <1>8, Taking DEF AgentSets, Idle, Types
    <3>2. Head(loop).otherwise \in Seq(Steps)
      BY <1>8, <3>1, StepParts, FramesAreSteps DEF AgentSets
    <3> QED BY <1>8, <3>1, <3>2 DEF AgentSets
  <2>2. sig' \in {"stable", "offered"}
    BY <1>8 DEF AgentSets, Types
  <2> QED BY <1>8, <2>1, <2>2 DEF AgentSets, Types, pageVars, netVars
<1>2. CASE AgentReady
  <2>1. <<Set(<<>>), Offer("new")>> \in Seq(Steps)
    BY FramesMade, SetsMade, FramesAreSteps, NoFrames, FewFrames DEF Creds
  <2> QED BY <1>2, <2>1, AgentTaking DEF AgentReady, Types, pageVars
<1>3. CASE AgentAnswer
  <2>1. Head(toAgent).creds \in Creds
    BY <1>3, AgentTaking, FrameParts DEF AgentAnswer
  <2> QED BY <1>3, <2>1, AgentTaking DEF AgentAnswer, Types, pageVars
<1>4. CASE AgentRequest
  <2> DEFINE c == Head(toAgent).cap
             Answers(yes) == Response(c, Head(toAgent).id, yes)
             on == [capture EXCEPT ![c] = TRUE]
  <2>1. c \in Caps /\ Head(toAgent).id \in 1 .. MaxEvents /\ toAgent' \in Seq(Frames)
    BY <1>4, AgentTaking, FrameParts DEF AgentRequest, Grant
  <2>2. on \in [Caps -> BOOLEAN]
    BY <2>1 DEF Types
  <2>3. /\ \A yes \in BOOLEAN : Answers(yes) \in Frames
        /\ Offer("new") \in Frames /\ State(on) \in Frames
    BY <2>1, <2>2, FramesMade DEF Creds
  <2>4. CASE loop' = <<Answers(c \in Allowed /\ capture[c])>> /\ UNCHANGED <<capture, latest>>
    <3>1. (c \in Allowed /\ capture[c]) \in BOOLEAN
      BY <2>1 DEF Types
    <3>2. Answers(c \in Allowed /\ capture[c]) \in Frames
      BY <2>3, <3>1
    <3>3. loop' \in Seq(Steps)
      BY <2>4, <3>2, FewFrames
    <3> QED BY <1>4, <2>1, <2>4, <3>3 DEF AgentRequest, Grant, Types, pageVars
  <2>5. CASE /\ loop' = <<Set(<<Answers(FALSE)>>), Offer("new"), State(on), Answers(TRUE)>>
             /\ capture' = on /\ latest' = "loop"
    <3>1. capture' \in [Caps -> BOOLEAN] /\ latest' = "loop"
      BY <2>2, <2>5
    <3>2. loop' \in Seq(Steps)
      <4>1. Answers(TRUE) \in Steps /\ Offer("new") \in Steps /\ State(on) \in Steps
        BY <2>3, FramesAreSteps
      <4>2. Set(<<Answers(FALSE)>>) \in Steps
        BY <2>3, FewFrames, SetsMade
      <4> QED BY <2>5, <4>1, <4>2, FewFrames
    <3> QED BY <1>4, <2>1, <3>1, <3>2 DEF AgentRequest, Grant, Types, pageVars
  <2> QED BY <1>4, <2>4, <2>5 DEF AgentRequest, Grant
<1>5. CASE AgentRevoke
  <2>1. toAgent' \in Seq(Frames) /\ Head(toAgent).cap \in Caps
    BY <1>5, AgentTaking, FrameParts DEF AgentRevoke
  <2>2. capture' \in [Caps -> BOOLEAN] /\ loop' \in Seq(Steps)
    <3>1. CASE Stop(Head(toAgent).cap)
      <4>1. capture' \in [Caps -> BOOLEAN] /\ loop' = <<State(capture')>>
        BY <2>1, <3>1 DEF Stop, Types
      <4>2. State(capture') \in Frames
        BY <4>1, FramesMade
      <4> QED BY <4>1, <4>2, FewFrames
    <3>2. CASE UNCHANGED <<capture, loop>>
      BY <3>2 DEF Types
    <3> QED BY <1>5, <3>1, <3>2 DEF AgentRevoke
  <2> QED BY <1>5, <2>1, <2>2 DEF AgentRevoke, Types, pageVars
<1>6. CASE AgentEnd
  <2>1. toAgent' \in Seq(Frames)
    BY <1>6, AgentTaking DEF AgentEnd
  <2>2. /\ serving' \in BOOLEAN /\ event' \in BOOLEAN /\ capture' \in [Caps -> BOOLEAN]
        /\ sig' = "stable" /\ latest' = "none" /\ peer' = "none" /\ ice' = "closed"
    BY <1>6, Closing DEF AgentEnd
  <2>3. path' = TRUE /\ UNCHANGED <<loop, scheduled, task, pageVars, toPage, link, usable, events>>
    BY <1>6 DEF AgentEnd, Close
  <2> QED BY <2>1, <2>2, <2>3 DEF Types, pageVars, Creds
<1>7. CASE AgentIgnores
  <2>1. toAgent' \in Seq(Frames)
    BY <1>7, Taking DEF AgentIgnores, Types
  <2> QED BY <1>7, <2>1 DEF AgentIgnores, Types, agentVars, pageVars
<1> QED BY <1>1, <1>2, <1>3, <1>4, <1>5, <1>6, <1>7, <1>8 DEF AgentLoop

LEMMA WatcherTypes ==
  ASSUME Types, Watcher
  PROVE  Types'
<1>1. CASE Watch
  <2>1. Free \in Tasks
    BY <1>1, FreeIsIdle DEF Watch
  <2>2. task' \in [Tasks -> {"idle", "sleep", "awake", "set", "sendNew", "sendOld"}]
    BY <1>1, <2>1 DEF Watch, Types
  <2>3. scheduled' \in BOOLEAN /\ event' \in BOOLEAN
    BY <1>1 DEF Watch
  <2>4. UNCHANGED <<serving, loop, capture, sig, latest, peer, ice, pageVars, netVars>>
    BY <1>1 DEF Watch
  <2> QED BY <2>2, <2>3, <2>4 DEF Types, pageVars, netVars
<1>2. ASSUME NEW t \in Tasks, Wake(t) PROVE Types'
  <2>1. task' \in [Tasks -> {"idle", "sleep", "awake", "set", "sendNew", "sendOld"}]
    BY <1>2 DEF Wake, Types
  <2>2. scheduled' \in BOOLEAN
    BY <1>2 DEF Wake
  <2>3. UNCHANGED <<serving, loop, capture, sig, latest, peer, ice, event, pageVars, netVars>>
    BY <1>2 DEF Wake
  <2> QED BY <2>1, <2>2, <2>3 DEF Types, pageVars, netVars
<1>3. ASSUME NEW t \in Tasks, Check(t) PROVE Types'
  <2>1. CASE ice \in Down
    <3>1. Restart /\ loop' = AgeAll(loop)
      BY <1>3, <2>1 DEF Check
    <3>2. loop' \in Seq(Steps)
      BY <3>1, Aging, AgingAll DEF Types
    <3>3. task' \in [Tasks -> {"idle", "sleep", "awake", "set", "sendNew", "sendOld"}]
      <4>1. task' = [u \in Tasks |-> IF u = t THEN "set" ELSE AgeTask(task[u])]
        BY <1>3, <2>1 DEF Check
      <4> QED BY <4>1, TaskAges DEF Types
    <3>4. /\ usable' = TRUE
          /\ ice' \in {"new", "checking"}
          /\ peer' \in Creds /\ remote' \in Creds /\ cred' \in Creds
          /\ chain' \in Seq(Creds)
          /\ toPage' \in Seq(Frames) /\ toAgent' \in Seq(Frames)
      BY <3>1, RestartTypes
    <3>5. latest' \in Tasks
      BY <1>3, <2>1 DEF Check
    <3> QED BY <1>3, <3>2, <3>3, <3>4, <3>5 DEF Check, Types
  <2>2. CASE ice \notin Down
    <3>1. task' \in [Tasks -> {"idle", "sleep", "awake", "set", "sendNew", "sendOld"}]
      BY <1>3, <2>2 DEF Check, Types
    <3> QED BY <1>3, <2>2, <3>1 DEF Check, Types
  <2> QED BY <2>1, <2>2
<1>4. ASSUME NEW t \in Tasks, RestartSends(t) PROVE Types'
  <2>1. Offer(IF task[t] = "sendNew" THEN "new" ELSE "old") \in Frames
    BY FramesMade DEF Creds
  <2>2. toPage' \in Seq(Frames)
    BY <1>4, <2>1, SentFrames DEF RestartSends
  <2>3. task' \in [Tasks -> {"idle", "sleep", "awake", "set", "sendNew", "sendOld"}]
    BY <1>4 DEF RestartSends, Types
  <2> QED BY <1>4, <2>2, <2>3 DEF RestartSends, Types, pageVars
<1>5. ASSUME NEW t \in Tasks, RestartSets(t) PROVE Types'
  <2>1. task' \in [Tasks -> {"idle", "sleep", "awake", "set", "sendNew", "sendOld"}]
    BY <1>5 DEF RestartSets, Types
  <2>2. sig' \in {"stable", "offered"}
    BY <1>5 DEF RestartSets, Types
  <2> QED BY <1>5, <2>1, <2>2 DEF RestartSets, Types, pageVars, netVars
<1> QED BY <1>1, <1>2, <1>3, <1>4, <1>5 DEF Watcher, TaskTurn

LEMMA TeardownTypes ==
  ASSUME Types, Teardown
  PROVE  /\ phase' = "over" /\ ui' \in [Caps -> {"idle", "requesting", "active", "denied"}]
         /\ pending' \subseteq 1 .. MaxEvents
         /\ toPage' \in Seq(Frames) /\ chain' \in Seq(Creds)
         /\ answering' \in Nat /\ have' \in BOOLEAN
         /\ remote' \in Creds /\ cred' \in Creds /\ path' \in BOOLEAN
BY NoFrames DEF Teardown, Creds

LEMMA PageTypes ==
  ASSUME Types, PageTurn
  PROVE  Types'
<1>1. CASE PageOffer
  <2>1. Head(toPage).creds \in Creds /\ toPage' \in Seq(Frames)
    BY <1>1, PageTaking, FrameParts DEF PageOffer
  <2>2. chain' \in Seq(Creds)
    BY <1>1, <2>1, AppendProperties DEF PageOffer, Types
  <2> QED BY <1>1, <2>1, <2>2 DEF PageOffer, Types, agentVars
<1>2. CASE PageApplies
  <2>1. Head(chain) \in Creds /\ Tail(chain) \in Seq(Creds)
    BY <1>2, HeadTailProperties DEF PageApplies, Types
  <2> QED BY <1>2, <2>1 DEF PageApplies, Types, agentVars, netVars
<1>3. CASE PageAnswers
  <2>1. Answer(remote) \in Frames
    BY FramesMade DEF Types
  <2>2. ToAgent(Answer(remote)) \in Seq(Frames)
    BY <2>1, SentFrames
  <2>3. cred' \in Creds /\ toAgent' \in Seq(Frames)
    <3>1. CASE have
      BY <1>3, <2>2, <3>1 DEF PageAnswers, Types
    <3>2. CASE ~have
      BY <1>3, <3>2 DEF PageAnswers, Types
    <3> QED BY <3>1, <3>2
  <2>5. answering' \in Nat
    <3>1. answering \in Nat /\ answering > 0 /\ answering' = answering - 1
      BY <1>3 DEF PageAnswers, Types
    <3> QED BY <3>1
  <2>6. have' \in BOOLEAN
    BY <1>3 DEF PageAnswers
  <2>4. UNCHANGED <<agentVars, phase, ui, pending, chain, remote, toPage, link, path, usable, events>>
    BY <1>3 DEF PageAnswers
  <2> QED BY <2>3, <2>4, <2>5, <2>6 DEF Types, agentVars
<1>4. CASE PageResponse
  <2>1. toPage' \in Seq(Frames)
    BY <1>4, PageTaking DEF PageResponse
  <2>2. pending' \subseteq 1 .. MaxEvents
    BY <1>4 DEF PageResponse, Types
  <2>3. ui' \in [Caps -> {"idle", "requesting", "active", "denied"}]
    BY <1>4 DEF PageResponse, Types
  <2> QED BY <1>4, <2>1, <2>2, <2>3 DEF PageResponse, Types, agentVars
<1>5. CASE PageState
  <2>1. toPage' \in Seq(Frames)
    BY <1>5, PageTaking DEF PageState
  <2>2. ui' \in [Caps -> {"idle", "requesting", "active", "denied"}]
    BY <1>5 DEF PageState, Types
  <2> QED BY <1>5, <2>1, <2>2 DEF PageState, Types, agentVars
<1>6. CASE PageEnd
  <2>1. Teardown
    BY <1>6 DEF PageEnd
  <2>2. /\ phase' = "over"
        /\ ui' \in [Caps -> {"idle", "requesting", "active", "denied"}]
        /\ pending' \subseteq 1 .. MaxEvents
        /\ toPage' \in Seq(Frames) /\ chain' \in Seq(Creds)
        /\ answering' \in Nat /\ have' \in BOOLEAN
        /\ remote' \in Creds /\ cred' \in Creds /\ path' \in BOOLEAN
    BY <2>1, TeardownTypes
  <2>3. UNCHANGED <<agentVars, toAgent, link, usable, events>>
    BY <1>6 DEF PageEnd
  <2> QED BY <2>2, <2>3 DEF Types, agentVars
<1> QED BY <1>1, <1>2, <1>3, <1>4, <1>5, <1>6 DEF PageTurn

LEMMA PeopleTypes ==
  ASSUME Types, People
  PROVE  Types'
<1>1. CASE LocalEnd
  <2>1. /\ serving' \in BOOLEAN /\ event' \in BOOLEAN /\ capture' \in [Caps -> BOOLEAN]
        /\ sig' = "stable" /\ latest' = "none" /\ peer' = "none" /\ ice' = "closed"
    BY <1>1, Closing DEF LocalEnd
  <2>2. <<Frame("end")>> \in Seq(Steps)
    BY FramesMade, FewFrames
  <2>3. /\ loop' = <<Frame("end")>> /\ path' = TRUE
        /\ UNCHANGED <<scheduled, task, pageVars, toPage, toAgent, link, usable, events>>
    BY <1>1 DEF LocalEnd, Close
  <2> QED BY <2>1, <2>2, <2>3 DEF Types, pageVars, Creds
<1>2. CASE PageDisconnects
  <2>1. ToAgent(Frame("end")) \in Seq(Frames)
    BY FramesMade, SentFrames
  <2>2. /\ phase' = "over"
        /\ ui' \in [Caps -> {"idle", "requesting", "active", "denied"}]
        /\ pending' \subseteq 1 .. MaxEvents
        /\ toPage' \in Seq(Frames) /\ chain' \in Seq(Creds)
        /\ answering' \in Nat /\ have' \in BOOLEAN
        /\ remote' \in Creds /\ cred' \in Creds /\ path' \in BOOLEAN
    BY <1>2, TeardownTypes DEF PageDisconnects
  <2> QED BY <1>2, <2>1, <2>2 DEF PageDisconnects, Types, agentVars
<1>3. CASE PageUnmounts
  <2>1. /\ phase' = "over"
        /\ ui' \in [Caps -> {"idle", "requesting", "active", "denied"}]
        /\ pending' \subseteq 1 .. MaxEvents
        /\ toPage' \in Seq(Frames) /\ chain' \in Seq(Creds)
        /\ answering' \in Nat /\ have' \in BOOLEAN
        /\ remote' \in Creds /\ cred' \in Creds /\ path' \in BOOLEAN
    BY <1>3, TeardownTypes DEF PageUnmounts
  <2> QED BY <1>3, <2>1 DEF PageUnmounts, Types, agentVars
<1>4. ASSUME NEW c \in Caps, LocalStop(c) PROVE Types'
  <2>1. capture' \in [Caps -> BOOLEAN] /\ loop' = <<State(capture')>>
    BY <1>4 DEF LocalStop, Stop, Types
  <2>2. loop' \in Seq(Steps)
    BY <2>1, FramesMade, FewFrames
  <2> QED BY <1>4, <2>1, <2>2 DEF LocalStop, Types, pageVars, netVars
<1>5. ASSUME NEW c \in Caps, PageAsks(c) PROVE Types'
  <2>1. events' \in 1 .. MaxEvents
    BY <1>5, BoundsAssumption DEF PageAsks, Types
  <2>2. toAgent' \in Seq(Frames)
    BY <1>5, <2>1, FramesMade, SentFrames DEF PageAsks
  <2>3. events' \in 0 .. MaxEvents /\ pending' \subseteq 1 .. MaxEvents
    BY <1>5, <2>1 DEF PageAsks, Types
  <2> QED BY <1>5, <2>2, <2>3 DEF PageAsks, Types, agentVars
<1>6. ASSUME NEW c \in Caps, PageStops(c) PROVE Types'
  <2>1. toAgent' \in Seq(Frames)
    BY <1>6, FramesMade, SentFrames DEF PageStops
  <2> QED BY <1>6, <2>1 DEF PageStops, Types, agentVars
<1> QED BY <1>1, <1>2, <1>3, <1>4, <1>5, <1>6 DEF People

LEMMA MediaTypes ==
  ASSUME Types, AgentMedia \/ PageMedia
  PROVE  Types'
<1>1. CASE AgentConnects \/ AgentDrops \/ AgentFails
  <2>1. PICK new \in {"connected", "disconnected", "failed"} : AgentIce(new)
    BY <1>1 DEF AgentConnects, AgentDrops, AgentFails
  <2>2. event' \in BOOLEAN
    BY <2>1 DEF AgentIce, Down
  <2> QED BY <2>1, <2>2 DEF AgentIce, Types, pageVars, netVars
<1>2. CASE PageConnects \/ PageDrops
  <2>1. PICK new \in {"active", "reconnecting"} : PageIce(new)
    BY <1>2 DEF PageConnects, PageDrops
  <2> QED BY <2>1 DEF PageIce, Types, agentVars, netVars
<1> QED BY <1>1, <1>2 DEF AgentMedia, PageMedia

LEMMA NetworkTypes ==
  ASSUME Types, Network
  PROVE  Types'
<1>1. CASE PageFails
  <2>1. /\ phase' = "over"
        /\ ui' \in [Caps -> {"idle", "requesting", "active", "denied"}]
        /\ pending' \subseteq 1 .. MaxEvents
        /\ toPage' \in Seq(Frames) /\ chain' \in Seq(Creds)
        /\ answering' \in Nat /\ have' \in BOOLEAN
        /\ remote' \in Creds /\ cred' \in Creds /\ path' \in BOOLEAN
    BY <1>1, TeardownTypes DEF PageFails
  <2> QED BY <1>1, <2>1 DEF PageFails, Types, agentVars
<1>2. CASE Interrupt
  <2>1. events' \in 0 .. MaxEvents
    BY <1>2, BoundsAssumption DEF Interrupt, Types
  <2>2. path' \in BOOLEAN /\ usable' \in BOOLEAN
    BY <1>2 DEF Interrupt, Types
  <2>3. UNCHANGED <<agentVars, pageVars, toPage, toAgent, link>>
    BY <1>2 DEF Interrupt
  <2> QED BY <2>1, <2>2, <2>3 DEF Types, agentVars, pageVars
<1>3. CASE Heal
  BY <1>3 DEF Heal, Types, agentVars, pageVars
<1>4. CASE SocketLost
  <2>1. events' \in 0 .. MaxEvents
    BY <1>4, BoundsAssumption DEF SocketLost, Types
  <2> QED BY <1>4, <2>1, NoFrames DEF SocketLost, Types, agentVars, pageVars
<1>5. CASE Reconnect
  <2>1. CASE serving
    <3>1. /\ Restart /\ loop' = <<Set(<<>>), Offer("new")>> /\ link' \in {"again", "refused"}
          /\ latest' = "loop"
      BY <1>5, <2>1 DEF Reconnect
    <3>3. loop' \in Seq(Steps)
      BY <3>1, FramesMade, SetsMade, FramesAreSteps, NoFrames, FewFrames DEF Creds
    <3>2. task' \in [Tasks -> {"idle", "sleep", "awake", "set", "sendNew", "sendOld"}]
      <4>1. task' = [t \in Tasks |-> AgeTask(task[t])]
        BY <1>5, <2>1 DEF Reconnect
      <4> QED BY <4>1, TaskAges DEF Types
    <3>4. /\ usable' = TRUE
          /\ ice' \in {"new", "checking"}
          /\ peer' \in Creds /\ remote' \in Creds /\ cred' \in Creds
          /\ chain' \in Seq(Creds)
          /\ toPage' \in Seq(Frames) /\ toAgent' \in Seq(Frames)
      BY <3>1, RestartTypes
    <3> QED BY <1>5, <3>1, <3>2, <3>3, <3>4 DEF Reconnect, Types
  <2>2. CASE ~serving
    BY <1>5, <2>2 DEF Reconnect, Types
  <2> QED BY <2>1, <2>2
<1> QED BY <1>1, <1>2, <1>3, <1>4, <1>5 DEF Network

LEMMA PeerTypes ==
  ASSUME Types, PeerNext
  PROVE  Types'
BY LoopTypes, WatcherTypes, PageTypes, PeopleTypes, MediaTypes, NetworkTypes DEF PeerNext

\* Handlers that say something start with what they have to set, if anything.
LEMMA SettingFirst ==
  ASSUME Types, SetsFirst, PeerNext
  PROVE  SetsFirst'
<1>1. ASSUME loop' = loop PROVE SetsFirst'
  BY <1>1 DEF SetsFirst, Has
<1>2. ASSUME loop' \in Seq(Frames) PROVE SetsFirst'
  <2>1. Len(loop') \in Nat /\ \A i \in 1 .. Len(loop') : loop'[i] \in Frames
    BY <1>2, LenProperties, ElementOfSeq
  <2>2. \A i \in 1 .. Len(loop') : loop'[i].type # "set"
    BY <2>1, FrameParts DEF FrameTypes
  <2>3. loop' # <<>> => 1 \in 1 .. Len(loop')
    BY <1>2, <2>1, EmptySeq
  <2> QED BY <2>1, <2>2, <2>3 DEF SetsFirst
<1>3. ASSUME loop # <<>>, loop' = Tail(loop) PROVE SetsFirst'
  <2>1. /\ Len(loop) \in Nat /\ Len(loop') = Len(loop) - 1
        /\ \A i \in 1 .. Len(loop) - 1 : loop'[i] = loop[i + 1]
        /\ loop' \in Seq(Steps)
    BY <1>3, HeadTailProperties, LenProperties DEF Types
  <2>2. \A i \in 1 .. Len(loop') : loop'[i].type # "set"
    <3>1. ASSUME NEW i \in 1 .. Len(loop') PROVE loop'[i].type # "set"
      <4>1. i + 1 \in 2 .. Len(loop) /\ loop'[i] = loop[i + 1]
        BY <2>1, <3>1
      <4> QED BY <4>1 DEF SetsFirst
    <3> QED BY <3>1
  <2>3. loop' # <<>> => 1 \in 1 .. Len(loop')
    BY <2>1, EmptySeq
  <2>4. \A i \in 2 .. Len(loop') : i \in 1 .. Len(loop')
    BY <2>1
  <2> QED BY <2>2, <2>3, <2>4 DEF SetsFirst
<1>4. ASSUME NEW q, loop' = <<Set(q), Offer("new")>> PROVE SetsFirst'
  <2>1. /\ Len(loop') = 2 /\ loop'[2].type = "offer"
    BY <1>4 DEF Offer
  <2>2. 2 \in 1 .. 2 /\ \A i \in 2 .. 2 : i = 2
    OBVIOUS
  <2> QED BY <2>1, <2>2 DEF SetsFirst, Has
<1>5. ASSUME NEW q, NEW f \in Frames, NEW g \in Frames, f.type # "set", g.type # "set",
             loop' = <<Set(q), Offer("new"), f, g>>
      PROVE  SetsFirst'
  <2>1. /\ Len(loop') = 4 /\ loop'[2].type = "offer" /\ loop'[3] = f /\ loop'[4] = g
    BY <1>5 DEF Offer
  <2>2. 2 \in 1 .. 4 /\ \A i \in 2 .. 4 : i \in {2, 3, 4}
    OBVIOUS
  <2> QED BY <1>5, <2>1, <2>2 DEF SetsFirst, Has
<1>6. CASE AgentLoop
  <2>1. CASE AgentWrites
    BY <1>3, <2>1 DEF AgentWrites, Idle
  <2>2. CASE AgentSets
    <3>1. CASE latest = "loop"
      BY <1>3, <2>2, <3>1 DEF AgentSets, Idle
    <3>2. CASE latest # "loop"
      <4>1. Head(loop) \in Steps /\ Head(loop).type = "set" /\ loop' = Head(loop).otherwise
        BY <2>2, <3>2, Taking DEF AgentSets, Idle, Types
      <4> QED BY <1>2, <4>1, StepParts
    <3> QED BY <3>1, <3>2
  <2>3. CASE AgentReady
    BY <1>4, <2>3 DEF AgentReady
  <2>4. CASE AgentRequest
    <3> DEFINE c == Head(toAgent).cap
               Answers(yes) == Response(c, Head(toAgent).id, yes)
               on == [capture EXCEPT ![c] = TRUE]
    <3>1. c \in Caps /\ Head(toAgent).id \in 1 .. MaxEvents
      BY <2>4, AgentTaking, FrameParts DEF AgentRequest, Grant
    <3>2. (c \in Allowed /\ capture[c]) \in BOOLEAN /\ on \in [Caps -> BOOLEAN]
      BY <3>1 DEF Types
    <3>3. /\ \A yes \in BOOLEAN : Answers(yes) \in Frames /\ Answers(yes).type = "response"
          /\ State(on) \in Frames /\ State(on).type = "state"
      BY <3>1, <3>2, FramesMade DEF Response
    <3>4. CASE loop' = <<Answers(c \in Allowed /\ capture[c])>>
      <4>1. Answers(c \in Allowed /\ capture[c]) \in Frames
        BY <3>2, <3>3
      <4> QED BY <1>2, <3>4, <4>1, FewFrames
    <3>5. CASE loop' = <<Set(<<Answers(FALSE)>>), Offer("new"), State(on), Answers(TRUE)>>
      <4>1. Answers(TRUE) \in Frames /\ Answers(TRUE).type = "response"
        BY <3>3
      <4> QED BY <1>5, <3>3, <3>5, <4>1
    <3> QED BY <2>4, <3>4, <3>5 DEF AgentRequest, Grant
  <2>5. CASE AgentRevoke
    <3>1. CASE Stop(Head(toAgent).cap)
      <4>1. Head(toAgent).cap \in Caps
        BY <2>5, AgentTaking, FrameParts DEF AgentRevoke
      <4>2. capture' \in [Caps -> BOOLEAN] /\ loop' = <<State(capture')>>
        BY <3>1, <4>1 DEF Stop, Types
      <4> QED BY <1>2, <4>2, FramesMade, FewFrames
    <3>2. CASE UNCHANGED loop
      BY <1>1, <3>2
    <3> QED BY <2>5, <3>1, <3>2 DEF AgentRevoke
  <2>6. CASE AgentAnswer \/ AgentEnd \/ AgentIgnores
    BY <1>1, <2>6 DEF AgentAnswer, AgentEnd, AgentIgnores, agentVars
  <2> QED BY <1>6, <2>1, <2>2, <2>3, <2>4, <2>5, <2>6 DEF AgentLoop
<1>7. ASSUME loop' = AgeAll(loop) PROVE SetsFirst'
  <2>1. /\ loop' \in Seq(Steps) /\ Len(loop') = Len(loop) /\ Len(loop) \in Nat
        /\ \A i \in 1 .. Len(loop) : loop'[i].type = loop[i].type
        /\ Has(loop, "offer") => Has(loop', "offer")
    BY <1>7, Aging, AgingAll, LenProperties DEF Types
  <2>2. \A i \in 2 .. Len(loop) : i \in 1 .. Len(loop)
    BY <2>1
  <2>3. loop' # <<>> => loop # <<>> /\ 1 \in 1 .. Len(loop)
    BY <2>1, EmptySeq DEF Types
  <2> QED BY <2>1, <2>2, <2>3 DEF SetsFirst
<1>8. CASE Watcher
  BY <1>1, <1>7, <1>8 DEF Watcher, TaskTurn, Watch, Wake, Check, RestartSets, RestartSends
<1>9. CASE PageTurn
  BY <1>1, <1>9 DEF PageTurn, PageOffer, PageApplies, PageAnswers, PageResponse, PageState,
                    PageEnd, agentVars
<1>10. CASE People
  <2>1. CASE LocalEnd
    BY <1>2, <2>1, FramesMade, FewFrames DEF LocalEnd
  <2>2. ASSUME NEW c \in Caps, LocalStop(c) PROVE SetsFirst'
    <3>1. capture' \in [Caps -> BOOLEAN] /\ loop' = <<State(capture')>>
      BY <2>2 DEF LocalStop, Stop, Types
    <3> QED BY <1>2, <3>1, FramesMade, FewFrames
  <2>3. CASE PageDisconnects \/ PageUnmounts \/ \E c \in Caps : PageAsks(c) \/ PageStops(c)
    BY <1>1, <2>3 DEF PageDisconnects, PageUnmounts, PageAsks, PageStops, agentVars
  <2> QED BY <1>10, <2>1, <2>2, <2>3 DEF People
<1>11. CASE AgentMedia \/ PageMedia
  BY <1>1, <1>11 DEF AgentMedia, AgentConnects, AgentDrops, AgentFails, AgentIce, PageMedia,
                     PageConnects, PageDrops, PageIce, agentVars
<1>12. CASE Network
  BY <1>1, <1>4, <1>12 DEF Network, PageFails, Interrupt, Heal, SocketLost, Reconnect, agentVars
<1> QED BY <1>6, <1>8, <1>9, <1>10, <1>11, <1>12 DEF PeerNext
-------------------------------------------------------------------------------
(* What looks after a connection that is down.                              *)

LEMMA Attended ==
  ASSUME Types, FlagHasSleeper, DownIsAttended, PeerNext
  PROVE  FlagHasSleeper' /\ DownIsAttended'
<1>1. ASSUME UNCHANGED <<ice, event, scheduled, task>>
      PROVE  FlagHasSleeper' /\ DownIsAttended'
  BY <1>1 DEF FlagHasSleeper, DownIsAttended
<1>2. ASSUME ice' \notin Down, UNCHANGED <<scheduled, task>>
      PROVE  FlagHasSleeper' /\ DownIsAttended'
  BY <1>2 DEF FlagHasSleeper, DownIsAttended
<1>3. CASE AgentLoop
  <2>1. CASE AgentAnswer
    <3>1. CASE ice' \in Down
      <4>1. ice' = ice /\ UNCHANGED <<event, scheduled, task>>
        BY <2>1, <3>1 DEF AgentAnswer, Down
      <4> QED BY <4>1, <1>1
    <3>2. CASE ice' \notin Down
      BY <1>2, <2>1, <3>2 DEF AgentAnswer
    <3> QED BY <3>1, <3>2
  <2>2. CASE AgentEnd
    BY <1>2, <2>2 DEF AgentEnd, Close, Down
  <2>3. CASE AgentSets \/ AgentWrites \/ AgentReady \/ AgentRequest \/ AgentRevoke \/ AgentIgnores
    BY <1>1, <2>3 DEF AgentSets, AgentWrites, AgentReady, AgentRequest, Grant, AgentRevoke, AgentIgnores,
                      agentVars
  <2> QED BY <1>3, <2>1, <2>2, <2>3 DEF AgentLoop
<1>4. CASE Watch
  <2>1. Free \in Tasks /\ task[Free] = "idle"
    BY <1>4, FreeIsIdle DEF Watch
  <2>2. \E t \in Tasks : task'[t] = "sleep"
    <3>1. CASE scheduled
      BY <1>4, <3>1 DEF Watch, FlagHasSleeper
    <3>2. CASE ~scheduled
      <4>1. task' = [task EXCEPT ![Free] = "sleep"]
        BY <1>4, <3>2 DEF Watch
      <4>2. task'[Free] = "sleep"
        BY <2>1, <4>1 DEF Types
      <4> QED BY <2>1, <4>2
    <3> QED BY <3>1, <3>2
  <2> QED BY <2>2 DEF FlagHasSleeper, DownIsAttended
<1>5. ASSUME NEW t \in Tasks, Wake(t) PROVE FlagHasSleeper' /\ DownIsAttended'
  <2>1. scheduled' = FALSE
    BY <1>5 DEF Wake
  <2>2. task'[t] = "awake"
    BY <1>5 DEF Wake, Types
  <2> QED BY <2>1, <2>2 DEF FlagHasSleeper, DownIsAttended
<1>6. ASSUME NEW t \in Tasks, Check(t) PROVE FlagHasSleeper' /\ DownIsAttended'
  <2>1. \A u \in Tasks : task[u] = "sleep" => task'[u] = "sleep"
    <3>1. CASE ice \in Down
      <4>1. /\ task[t] = "awake"
            /\ task' = [u \in Tasks |-> IF u = t THEN "set" ELSE AgeTask(task[u])]
        BY <1>6, <3>1 DEF Check
      <4> QED BY <4>1 DEF AgeTask
    <3>2. CASE ice \notin Down
      <4>1. task[t] = "awake" /\ task' = [task EXCEPT ![t] = "idle"]
        BY <1>6, <3>2 DEF Check
      <4> QED BY <4>1 DEF Types
    <3> QED BY <3>1, <3>2
  <2>2. ice' \notin Down
    <3>1. CASE ice \in Down
      BY <1>6, <3>1 DEF Check, Restart, Down
    <3>2. CASE ice \notin Down
      BY <1>6, <3>2 DEF Check
    <3> QED BY <3>1, <3>2
  <2>3. scheduled' = scheduled
    BY <1>6 DEF Check
  <2> QED BY <2>1, <2>2, <2>3 DEF FlagHasSleeper, DownIsAttended
<1>7. ASSUME NEW t \in Tasks, RestartSends(t) PROVE FlagHasSleeper' /\ DownIsAttended'
  <2>1. task[t] \in {"sendNew", "sendOld"} /\ task' = [task EXCEPT ![t] = "idle"]
    BY <1>7 DEF RestartSends
  <2>2. \A u \in Tasks : task[u] \in {"sleep", "awake"} => task'[u] = task[u]
    BY <2>1 DEF Types
  <2>3. UNCHANGED <<ice, event, scheduled>>
    BY <1>7 DEF RestartSends
  <2> QED BY <2>2, <2>3 DEF FlagHasSleeper, DownIsAttended
<1>12. ASSUME NEW t \in Tasks, RestartSets(t) PROVE FlagHasSleeper' /\ DownIsAttended'
  <2>1. \A u \in Tasks : task[u] \in {"sleep", "awake"} => task'[u] = task[u]
    BY <1>12 DEF RestartSets, Types
  <2>2. UNCHANGED <<ice, event, scheduled>>
    BY <1>12 DEF RestartSets
  <2> QED BY <2>1, <2>2 DEF FlagHasSleeper, DownIsAttended
<1>8. CASE PageTurn
  BY <1>1, <1>8 DEF PageTurn, PageOffer, PageApplies, PageAnswers, PageResponse, PageState,
                    PageEnd, agentVars
<1>9. CASE People
  <2>1. CASE LocalEnd
    BY <1>2, <2>1 DEF LocalEnd, Close, Down
  <2>2. CASE PageDisconnects \/ PageUnmounts
    BY <1>1, <2>2 DEF PageDisconnects, PageUnmounts, agentVars
  <2>3. ASSUME NEW c \in Caps, LocalStop(c) \/ PageAsks(c) \/ PageStops(c)
        PROVE  FlagHasSleeper' /\ DownIsAttended'
    BY <1>1, <2>3 DEF LocalStop, PageAsks, PageStops, agentVars
  <2> QED BY <1>9, <2>1, <2>2, <2>3 DEF People
<1>10. CASE AgentMedia \/ PageMedia
  <2>1. CASE AgentConnects \/ AgentDrops \/ AgentFails
    <3>1. PICK new : AgentIce(new)
      BY <2>1 DEF AgentConnects, AgentDrops, AgentFails
    <3>2. ice' \in Down => event'
      BY <3>1 DEF AgentIce
    <3>3. UNCHANGED <<scheduled, task>>
      BY <3>1 DEF AgentIce
    <3> QED BY <3>2, <3>3 DEF FlagHasSleeper, DownIsAttended
  <2>2. CASE PageConnects \/ PageDrops
    BY <1>1, <2>2 DEF PageConnects, PageDrops, PageIce, agentVars
  <2> QED BY <1>10, <2>1, <2>2 DEF AgentMedia, PageMedia
<1>11. CASE Network
  <2>1. CASE Reconnect /\ serving
    <3>1. ice' \notin Down
      BY <2>1 DEF Reconnect, Restart, Down
    <3>2. task' = [t \in Tasks |-> AgeTask(task[t])] /\ scheduled' = scheduled
      BY <2>1 DEF Reconnect
    <3>3. \A t \in Tasks : task[t] = "sleep" => task'[t] = "sleep"
      BY <3>2 DEF AgeTask
    <3> QED BY <3>1, <3>2, <3>3 DEF FlagHasSleeper, DownIsAttended
  <2>2. CASE Reconnect /\ ~serving
    BY <1>1, <2>2 DEF Reconnect
  <2>3. CASE PageFails \/ Interrupt \/ Heal \/ SocketLost
    BY <1>1, <2>3 DEF PageFails, Interrupt, Heal, SocketLost, agentVars
  <2> QED BY <1>11, <2>1, <2>2, <2>3 DEF Network
<1> QED BY <1>3, <1>4, <1>5, <1>6, <1>7, <1>8, <1>9, <1>10, <1>11, <1>12 DEF PeerNext, Watcher,
                                                                          TaskTurn
-------------------------------------------------------------------------------
(* What leads to an answer.                                                 *)

\* A step that takes nothing from where an offer or its answer may be.
LEMMA OfferKept ==
  ASSUME InFlight,
         LoopOffers => LoopOffers',
         \A t \in Tasks : TaskOffers(t) => TaskOffers(t)',
         Has(toPage, "offer") => Has(toPage', "offer"),
         chain # <<>> => chain' # <<>>,
         have => have',
         Has(toAgent, "answer") => Has(toAgent', "answer")
  PROVE  InFlight'
BY DEF InFlight

\* They know of nothing but what these name.
LEMMA OfferParts ==
  /\ UNCHANGED <<loop, latest>> => (LoopOffers => LoopOffers')
  /\ UNCHANGED <<task, latest>> => \A t \in Tasks : TaskOffers(t) => TaskOffers(t)'
BY DEF LoopOffers, TaskOffers

\* The agent's session is as it was, or waits for nothing.
LEMMA Waiting ==
  ASSUME OfferLives, UNCHANGED <<serving, sig>>, link' = "up" => link = "up", Here' => Here,
         InFlight => InFlight'
  PROVE  OfferLives'
BY DEF OfferLives

\* A handler that is about to set its description has its offer after that.
LEMMA OfferLoop ==
  ASSUME Types, SetsFirst, OfferLives, AgentLoop
  PROVE  OfferLives'
<1>1. Here' = Here /\ link' = link
  BY DEF AgentLoop, AgentSets, AgentWrites, AgentReady, AgentAnswer, AgentRequest, Grant, AgentRevoke,
         AgentEnd, AgentIgnores, pageVars, netVars, Here
<1>10. ASSUME loop # <<>>, loop' = Tail(loop)
       PROVE  LoopOffers => LoopOffers' \/ Head(loop).type = "offer"
  <2>1. loop' \in Seq(Steps) /\ (Has(loop, "offer") => Has(loop', "offer") \/ Head(loop).type = "offer")
    BY <1>10, Taking DEF Types
  <2>2. \A q \in Seq(Steps) : Has(q, "offer") <=> \E i \in DOMAIN q : q[i].type = "offer"
    BY LenProperties DEF Has
  <2>3. loop' # <<>> => Head(loop').type # "set"
    <3>1. /\ Len(loop) \in Nat /\ Len(loop') = Len(loop) - 1
          /\ \A i \in 1 .. Len(loop) - 1 : loop'[i] = loop[i + 1]
      BY <1>10, HeadTailProperties, LenProperties DEF Types
    <3>2. ASSUME loop' # <<>> PROVE Head(loop').type # "set"
      <4>1. Head(loop') = loop'[1] /\ Len(loop') \in Nat /\ Len(loop') # 0
        BY <2>1, <3>2, HeadTailProperties, LenProperties, EmptySeq
      <4>2. 2 \in 2 .. Len(loop) /\ loop'[1] = loop[2]
        BY <3>1, <4>1
      <4> QED BY <4>1, <4>2 DEF SetsFirst
    <3> QED BY <3>2
  <2>4. Has(loop', "offer") => loop' # <<>>
    BY DEF Has
  <2> QED BY <2>1, <2>2, <2>3, <2>4 DEF LoopOffers, Types
<1>2. CASE AgentWrites
  <2>1. /\ loop # <<>> /\ Head(loop).type # "set"
        /\ loop' = Tail(loop) /\ toPage' = ToPage(Head(loop))
    BY <1>2 DEF AgentWrites, Idle
  <2>2. Head(loop) \in Frames
    BY <2>1, Taking, StepParts DEF Types
  <2>3. /\ Has(toPage, "offer") => Has(toPage', "offer")
        /\ link = "up" /\ Here => Has(toPage', Head(loop).type)
    BY <2>1, <2>2, SentFrames
  <2>4. UNCHANGED <<serving, sig, latest, task, chain, have, toAgent>>
    BY <1>2 DEF AgentWrites, pageVars
  <2>5. LoopOffers => LoopOffers' \/ Head(loop).type = "offer"
    BY <1>10, <2>1, <2>4
  <2>6. \A t \in Tasks : TaskOffers(t) => TaskOffers(t)'
    BY <2>4, OfferParts
  <2> QED BY <1>1, <2>3, <2>4, <2>5, <2>6 DEF OfferLives, InFlight
<1>9. CASE AgentSets
  <2>1. loop # <<>> /\ loop \in Seq(Steps) /\ Head(loop).type = "set"
    BY <1>9 DEF AgentSets, Idle, Types
  <2>2. CASE latest = "loop"
    <3>1. loop' = Tail(loop)
      BY <1>9, <2>2 DEF AgentSets
    <3>2. LoopOffers
      <4>1. Has(loop, "offer")
        BY <2>1, HeadTailProperties DEF SetsFirst
      <4> QED BY <2>1, <2>2, <4>1, LenProperties DEF LoopOffers, Has
    <3>3. LoopOffers'
      BY <1>10, <2>1, <2>2, <3>1, <3>2
    <3> QED BY <3>3 DEF OfferLives, InFlight
  <2>3. CASE latest # "loop"
    <3>1. ~LoopOffers
      BY <2>1, <2>3 DEF LoopOffers
    <3>2. UNCHANGED <<serving, sig, latest, task, toPage, toAgent, chain, have>>
      BY <1>9, <2>3 DEF AgentSets, pageVars, netVars
    <3> QED BY <1>1, <3>1, <3>2, OfferKept, OfferParts, Waiting
  <2> QED BY <2>2, <2>3
<1>3. CASE AgentReady
  <2>1. loop' = <<Set(<<>>), Offer("new")>> /\ latest' = "loop"
    BY <1>3 DEF AgentReady
  <2>2. LoopOffers'
    <3>1. 2 \in DOMAIN loop' /\ loop'[2].type = "offer"
      BY <2>1 DEF Offer
    <3> QED BY <2>1, <3>1 DEF LoopOffers
  <2> QED BY <2>2 DEF OfferLives, InFlight
<1>4. CASE AgentAnswer
  <2>1. ~(serving' /\ sig' = "offered")
    BY <1>4 DEF AgentAnswer
  <2> QED BY <2>1 DEF OfferLives
<1>5. CASE AgentRequest
  <2>1. ~LoopOffers /\ (Has(toAgent, "answer") => Has(toAgent', "answer"))
    BY <1>5, AgentTaking DEF AgentRequest, Grant
  <2>2. UNCHANGED <<serving, sig, task, toPage, chain, have>>
    BY <1>5 DEF AgentRequest, Grant, pageVars
  <2>3. CASE latest' = latest
    BY <1>1, <2>1, <2>2, <2>3, OfferKept, OfferParts, Waiting
  <2>4. CASE latest' # latest
    <3>1. PICK o, f, g : loop' = <<Set(o), Offer("new"), f, g>>
      BY <1>5, <2>4 DEF AgentRequest, Grant
    <3>2. latest' = "loop"
      BY <1>5, <2>4 DEF AgentRequest, Grant
    <3>3. LoopOffers'
      <4>1. 2 \in DOMAIN loop' /\ loop'[2].type = "offer"
        BY <3>1 DEF Offer
      <4> QED BY <3>2, <4>1 DEF LoopOffers
    <3> QED BY <3>3 DEF OfferLives, InFlight
  <2> QED BY <2>3, <2>4
<1>6. CASE AgentRevoke
  <2>1. ~LoopOffers /\ (Has(toAgent, "answer") => Has(toAgent', "answer"))
    BY <1>6, AgentTaking DEF AgentRevoke
  <2>2. UNCHANGED <<serving, sig, latest, task, toPage, chain, have>>
    BY <1>6 DEF AgentRevoke, pageVars
  <2> QED BY <1>1, <2>1, <2>2, OfferKept, OfferParts, Waiting
<1>7. CASE AgentEnd
  BY <1>7 DEF AgentEnd, Close, OfferLives
<1>8. CASE AgentIgnores
  BY <1>8 DEF AgentIgnores, agentVars, OfferLives
<1> QED BY <1>2, <1>3, <1>4, <1>5, <1>6, <1>7, <1>8, <1>9 DEF AgentLoop

LEMMA OfferWatcher ==
  ASSUME Types, OfferLives, Watcher
  PROVE  OfferLives'
<1>1. CASE Watch
  <2>1. Free \in Tasks /\ task[Free] = "idle"
    BY <1>1, FreeIsIdle DEF Watch
  <2>2. \A t \in Tasks : TaskOffers(t) => TaskOffers(t)'
    BY <1>1, <2>1 DEF Watch, TaskOffers, Types
  <2>3. UNCHANGED <<serving, loop, sig, latest, phase, chain, have, toPage, toAgent, link>>
    BY <1>1 DEF Watch, pageVars, netVars
  <2> QED BY <2>2, <2>3, OfferKept, OfferParts, Waiting DEF Here
<1>2. ASSUME NEW t \in Tasks, Wake(t) PROVE OfferLives'
  <2>1. \A u \in Tasks : TaskOffers(u) => TaskOffers(u)'
    BY <1>2 DEF Wake, TaskOffers, Types
  <2>2. UNCHANGED <<serving, loop, sig, latest, phase, chain, have, toPage, toAgent, link>>
    BY <1>2 DEF Wake, pageVars, netVars
  <2> QED BY <2>1, <2>2, OfferKept, OfferParts, Waiting DEF Here
<1>3. ASSUME NEW t \in Tasks, Check(t) PROVE OfferLives'
  <2>1. CASE ice \in Down
    <3>1. task'[t] = "set" /\ latest' = t
      BY <1>3, <2>1 DEF Check
    <3> QED BY <3>1 DEF OfferLives, InFlight, TaskOffers
  <2>2. CASE ice \notin Down
    <3>1. task[t] = "awake" /\ task' = [task EXCEPT ![t] = "idle"]
      BY <1>3, <2>2 DEF Check
    <3>2. UNCHANGED <<serving, loop, sig, latest, phase, chain, have, toPage, toAgent, link>>
      BY <1>3, <2>2 DEF Check
    <3>3. \A u \in Tasks : TaskOffers(u) => TaskOffers(u)'
      BY <3>1, <3>2 DEF TaskOffers, Types
    <3> QED BY <3>2, <3>3, OfferKept, OfferParts, Waiting DEF Here
  <2> QED BY <2>1, <2>2
<1>4. ASSUME NEW t \in Tasks, RestartSends(t) PROVE OfferLives'
  <2>1. PICK c \in Creds : toPage' = ToPage(Offer(c))
    BY <1>4 DEF RestartSends, Creds
  <2>2. Offer(c) \in Frames /\ Offer(c).type = "offer"
    BY FramesMade
  <2>3. link = "up" /\ Here => Has(toPage', "offer")
    BY <2>1, <2>2, SentFrames
  <2>4. UNCHANGED <<phase, link>>
    BY <1>4 DEF RestartSends, pageVars
  <2> QED BY <2>3, <2>4 DEF OfferLives, InFlight, Here
<1>5. ASSUME NEW t \in Tasks, RestartSets(t) PROVE OfferLives'
  <2>1. CASE latest = t
    <3>1. task'[t] = "sendNew"
      BY <1>5, <2>1 DEF RestartSets, Types
    <3> QED BY <3>1 DEF OfferLives, InFlight, TaskOffers
  <2>2. CASE latest # t
    <3>1. task[t] = "set" /\ task' = [task EXCEPT ![t] = "idle"]
      BY <1>5, <2>2 DEF RestartSets
    <3>2. UNCHANGED <<serving, loop, sig, latest, phase, chain, have, toPage, toAgent, link>>
      BY <1>5, <2>2 DEF RestartSets, pageVars, netVars
    <3>3. \A u \in Tasks : TaskOffers(u) => TaskOffers(u)'
      BY <2>2, <3>1, <3>2 DEF TaskOffers, Types
    <3> QED BY <3>2, <3>3, OfferKept, OfferParts, Waiting DEF Here
  <2> QED BY <2>1, <2>2
<1> QED BY <1>1, <1>2, <1>3, <1>4, <1>5 DEF Watcher, TaskTurn

LEMMA OfferPage ==
  ASSUME Types, OfferLives, PageTurn
  PROVE  OfferLives'
<1>1. UNCHANGED <<serving, loop, sig, latest, task, link>>
  <2>1. CASE PageOffer \/ PageApplies \/ PageAnswers
    BY <2>1 DEF PageOffer, PageApplies, PageAnswers, agentVars, netVars
  <2>2. CASE PageResponse \/ PageState \/ PageEnd
    BY <2>2 DEF PageResponse, PageState, PageEnd, agentVars
  <2> QED BY <2>1, <2>2 DEF PageTurn
<1>2. CASE PageOffer
  <2>1. chain' = Append(chain, Head(toPage).creds)
    BY <1>2 DEF PageOffer
  <2>2. Head(toPage).creds \in Creds /\ chain \in Seq(Creds)
    BY <1>2, PageTaking, FrameParts DEF PageOffer, Types
  <2>3. chain' # <<>>
    BY <2>1, <2>2, AppendProperties
  <2> QED BY <2>3 DEF OfferLives, InFlight
<1>3. CASE PageApplies
  BY <1>3 DEF PageApplies, OfferLives, InFlight
<1>4. CASE PageAnswers
  <2>1. CASE have
    <3>1. Answer(remote) \in Frames /\ Answer(remote).type = "answer"
      BY FramesMade DEF Types
    <3>2. toAgent' = ToAgent(Answer(remote)) /\ link' = link
      BY <1>4, <2>1 DEF PageAnswers
    <3>3. link' = "up" => Has(toAgent', "answer")
      BY <3>1, <3>2, SentFrames
    <3> QED BY <3>3 DEF OfferLives, InFlight
  <2>2. CASE ~have
    <3>1. UNCHANGED <<toPage, chain, toAgent, phase>>
      BY <1>4, <2>2 DEF PageAnswers
    <3> QED BY <1>1, <2>2, <3>1, OfferKept, OfferParts, Waiting DEF Here
  <2> QED BY <2>1, <2>2
<1>5. CASE PageResponse \/ PageState
  <2>1. Has(toPage, "offer") => Has(toPage', "offer")
    BY <1>5, PageTaking DEF PageResponse, PageState
  <2>2. UNCHANGED <<chain, have, toAgent, phase>>
    BY <1>5 DEF PageResponse, PageState
  <2> QED BY <1>1, <2>1, <2>2, OfferKept, OfferParts, Waiting DEF Here
<1>6. CASE PageEnd
  <2>1. phase' = "over"
    BY <1>6 DEF PageEnd, Teardown
  <2> QED BY <2>1 DEF OfferLives, Here, Gone
<1> QED BY <1>2, <1>3, <1>4, <1>5, <1>6 DEF PageTurn

LEMMA OfferPeople ==
  ASSUME Types, OfferLives, People
  PROVE  OfferLives'
<1>1. CASE LocalEnd
  BY <1>1 DEF LocalEnd, Close, OfferLives
<1>2. CASE PageDisconnects \/ PageUnmounts
  <2>1. phase' = "over"
    BY <1>2 DEF PageDisconnects, PageUnmounts, Teardown
  <2> QED BY <2>1 DEF OfferLives, Here, Gone
<1>3. ASSUME NEW c \in Caps, LocalStop(c) PROVE OfferLives'
  <2>1. ~LoopOffers
    BY <1>3 DEF LocalStop, Idle, LoopOffers
  <2>2. UNCHANGED <<serving, sig, latest, task, toPage, toAgent, chain, have, phase, link>>
    BY <1>3 DEF LocalStop, pageVars, netVars
  <2> QED BY <2>1, <2>2, OfferKept, OfferParts, Waiting DEF Here
<1>4. ASSUME NEW c \in Caps, PageAsks(c) \/ PageStops(c) PROVE OfferLives'
  <2>1. PICK f \in Frames : toAgent' = ToAgent(f)
    <3>1. CASE PageAsks(c)
      <4>1. events' \in 1 .. MaxEvents
        BY <3>1, BoundsAssumption DEF PageAsks, Types
      <4> QED BY <3>1, <4>1, FramesMade DEF PageAsks
    <3>2. CASE PageStops(c)
      BY <3>2, FramesMade DEF PageStops
    <3> QED BY <1>4, <3>1, <3>2
  <2>2. Has(toAgent, "answer") => Has(toAgent', "answer")
    BY <2>1, SentFrames
  <2>3. UNCHANGED <<serving, loop, sig, latest, task, toPage, chain, have, phase, link>>
    BY <1>4 DEF PageAsks, PageStops, agentVars
  <2> QED BY <2>2, <2>3, OfferKept, OfferParts, Waiting DEF Here
<1> QED BY <1>1, <1>2, <1>3, <1>4 DEF People

LEMMA OfferMedia ==
  ASSUME Types, OfferLives, AgentMedia \/ PageMedia
  PROVE  OfferLives'
<1>1. CASE AgentConnects \/ AgentDrops \/ AgentFails
  <2>1. UNCHANGED <<serving, loop, sig, latest, task, toPage, toAgent, chain, have, phase, link>>
    BY <1>1 DEF AgentConnects, AgentDrops, AgentFails, AgentIce, pageVars, netVars
  <2> QED BY <2>1, OfferKept, OfferParts, Waiting DEF Here
<1>2. CASE PageConnects \/ PageDrops
  <2>1. UNCHANGED <<serving, loop, sig, latest, task, toPage, toAgent, chain, have, link>>
    BY <1>2 DEF PageConnects, PageDrops, PageIce, agentVars, netVars
  <2>2. Here
    BY <1>2 DEF PageConnects, PageDrops, Here, Gone
  <2> QED BY <2>1, <2>2, OfferKept, OfferParts, Waiting
<1> QED BY <1>1, <1>2 DEF AgentMedia, PageMedia

LEMMA OfferNetwork ==
  ASSUME Types, OfferLives, Network
  PROVE  OfferLives'
<1>1. CASE PageFails
  <2>1. phase' = "over"
    BY <1>1 DEF PageFails, Teardown
  <2> QED BY <2>1 DEF OfferLives, Here, Gone
<1>2. CASE Interrupt \/ Heal
  <2>1. UNCHANGED <<serving, loop, sig, latest, task, toPage, toAgent, chain, have, phase, link>>
    BY <1>2 DEF Interrupt, Heal, agentVars, pageVars
  <2> QED BY <2>1, OfferKept, OfferParts, Waiting DEF Here
<1>3. CASE SocketLost \/ Reconnect
  BY <1>3 DEF SocketLost, Reconnect, OfferLives
<1> QED BY <1>1, <1>2, <1>3 DEF Network

LEMMA OfferAlive ==
  ASSUME Types, SetsFirst, OfferLives, PeerNext
  PROVE  OfferLives'
BY OfferLoop, OfferWatcher, OfferPage, OfferPeople, OfferMedia, OfferNetwork DEF PeerNext

LEMMA HandlerAlive ==
  ASSUME Types, AppliedHasHandler, PeerNext
  PROVE  AppliedHasHandler'
<1>1. ASSUME UNCHANGED <<have, answering>> PROVE AppliedHasHandler'
  BY <1>1 DEF AppliedHasHandler
<1>2. ASSUME have' = FALSE PROVE AppliedHasHandler'
  BY <1>2 DEF AppliedHasHandler
<1>3. CASE AgentLoop
  BY <1>1, <1>3 DEF AgentLoop, AgentSets, AgentWrites, AgentReady, AgentAnswer, AgentRequest, Grant, AgentRevoke,
                    AgentEnd, AgentIgnores, pageVars
<1>4. CASE Watcher
  BY <1>1, <1>4 DEF Watcher, TaskTurn, Watch, Wake, Check, RestartSets, RestartSends, pageVars
<1>5. CASE PageTurn
  <2>1. CASE PageApplies
    <3>1. answering \in Nat /\ answering' = answering + 1
      BY <1>5, <2>1 DEF PageApplies, Types
    <3>2. answering' > 0
      BY <3>1
    <3> QED BY <3>2 DEF AppliedHasHandler
  <2>2. CASE PageAnswers \/ PageEnd
    BY <1>2, <2>2 DEF PageAnswers, PageEnd, Teardown
  <2>3. CASE PageOffer \/ PageResponse \/ PageState
    BY <1>1, <2>3 DEF PageOffer, PageResponse, PageState
  <2> QED BY <1>5, <2>1, <2>2, <2>3 DEF PageTurn
<1>6. CASE People
  BY <1>1, <1>2, <1>6 DEF People, LocalEnd, PageDisconnects, PageUnmounts, Teardown, LocalStop,
                          PageAsks, PageStops, pageVars
<1>7. CASE AgentMedia \/ PageMedia
  BY <1>1, <1>7 DEF AgentMedia, AgentConnects, AgentDrops, AgentFails, AgentIce, PageMedia,
                    PageConnects, PageDrops, PageIce, pageVars
<1>8. CASE Network
  BY <1>1, <1>2, <1>8 DEF Network, PageFails, Teardown, Interrupt, Heal, SocketLost, Reconnect,
                          pageVars
<1> QED BY <1>3, <1>4, <1>5, <1>6, <1>7, <1>8 DEF PeerNext
-------------------------------------------------------------------------------
(* The tab and its viewer.                                                  *)

\* Of the session page and the agent, they only bring the page to life.
LEMMA TabLeavesPeer ==
  /\ TabServer \/ TabPage \/ TabLapses \/ TabPerson \/ Connect \/ GuestAttempt => UNCHANGED peerVars
  /\ Create => /\ UNCHANGED <<agentVars, ui, pending, chain, remote, have, answering, cred, netVars>>
               /\ phase' \in {"waiting", phase}
<1>1. TabServer \/ TabPage => UNCHANGED peerVars
  BY DEF TabServer, ServerRegisters, TabAdmitted, TabListened, TabClosed, DeviceDeleted, TabRelayed,
         TabJoined, TabPage, TabGoesOnline, TabInvited, TabTornDown, peerVars, netVars
<1>2. TabLapses \/ TabPerson \/ Connect \/ GuestAttempt => UNCHANGED peerVars
  BY DEF TabLapses, TabPerson, TabAccepts, PickerAnswered, TabDeclines, StreamEnds, Connect,
         GuestAttempt
<1>3. Create => /\ UNCHANGED <<agentVars, ui, pending, chain, remote, have, answering, cred, netVars>>
                /\ phase' \in {"waiting", phase}
  BY DEF Create
<1> QED BY <1>1, <1>2, <1>3

LEMMA TabFramesMade ==
  ASSUME TabTypes, NEW type \in {"accept", "deny", "end"}
  PROVE  TabSends(type) \in Seq(TabFrames)
<1>1. Frame(type) \in TabFrames
  BY DEF Frame, TabFrames
<1> QED BY <1>1, AppendProperties DEF TabSends, TabTypes

LEMMA TabTyped ==
  ASSUME TabTypes, Next
  PROVE  TabTypes'
<1>1. CASE UNCHANGED <<tabVars, viewer, tries>>
  BY <1>1 DEF TabTypes, tabVars
<1>2. CASE TabServer
  <2>1. CASE TabRelayed
    <3>1. tabOut' \in Seq(TabFrames)
      BY <2>1, HeadTailProperties DEF TabRelayed, TabTypes
    <3> QED BY <2>1, <3>1 DEF TabRelayed, TabTypes
  <2>2. CASE ServerRegisters \/ TabAdmitted \/ TabListened \/ TabClosed \/ DeviceDeleted
    BY <2>2, ZenonT(60) DEF ServerRegisters, TabAdmitted, TabListened, TabClosed, DeviceDeleted, TabTypes
  <2> QED BY <1>2, <2>1, <2>2 DEF TabServer
<1>3. CASE TabPage
  <2>1. CASE TabTornDown
    <3>1. tabOut' \in Seq(TabFrames)
      BY <2>1, EmptySeq DEF TabTornDown
    <3> QED BY <2>1, <3>1 DEF TabTornDown, TabTypes
  <2>2. CASE TabGoesOnline \/ TabInvited
    BY <2>2 DEF TabGoesOnline, TabInvited, TabTypes
  <2> QED BY <1>3, <2>1, <2>2 DEF TabPage
<1>4. CASE TabLapses
  <2>1. presence' \in BOOLEAN
    BY <1>4 DEF TabLapses
  <2>2. UNCHANGED <<tab, device, socket, invite, prompt, picker, stream, sharing, tabOut, viewer, tries>>
    BY <1>4 DEF TabLapses
  <2> QED BY <2>1, <2>2 DEF TabTypes
<1>5. CASE TabPerson
  <2>1. tabOut' \in Seq(TabFrames)
    BY <1>5, TabFramesMade DEF TabPerson, TabAccepts, PickerAnswered, TabDeclines, StreamEnds, TabTypes
  <2> QED BY <1>5, <2>1 DEF TabPerson, TabAccepts, PickerAnswered, TabDeclines, StreamEnds, TabTypes
<1>6. CASE Connect
  BY <1>6 DEF Connect, TabTypes, tabVars
<1>7. CASE GuestAttempt
  <2>1. tries' \in 0 .. MaxRetries
    BY <1>7, RetriesAssumption DEF GuestAttempt, TabTypes
  <2> QED BY <1>7, <2>1 DEF GuestAttempt, TabTypes, tabVars
<1>8. CASE Create
  <2>1. viewer' \in {"in", "error"}
    BY <1>8 DEF Create
  <2>2. invite' \in BOOLEAN
    BY <1>8 DEF Create, TabTypes
  <2>3. UNCHANGED <<tab, device, socket, presence, prompt, picker, stream, sharing, tabOut, tries>>
    BY <1>8 DEF Create
  <2> QED BY <2>1, <2>2, <2>3 DEF TabTypes
<1> QED BY <1>1, <1>2, <1>3, <1>4, <1>5, <1>6, <1>7, <1>8 DEF Next, Viewer

LEMMA NoNewServer == PeerNext => serving' = serving \/ serving' = FALSE
<1>1. AgentLoop => serving' = serving \/ serving' = FALSE
  BY DEF AgentLoop, AgentSets, AgentWrites, AgentReady, AgentAnswer, AgentRequest, Grant, AgentRevoke, AgentEnd,
         Close, AgentIgnores, agentVars
<1>2. Watcher => serving' = serving
  BY DEF Watcher, TaskTurn, Watch, Wake, Check, RestartSets, RestartSends
<1>3. PageTurn => serving' = serving
  BY DEF PageTurn, PageOffer, PageApplies, PageAnswers, PageResponse, PageState, PageEnd, agentVars
<1>4. People => serving' = serving \/ serving' = FALSE
  BY DEF People, LocalEnd, Close, PageDisconnects, PageUnmounts, LocalStop, PageAsks, PageStops, agentVars
<1>5. AgentMedia \/ PageMedia => serving' = serving
  BY DEF AgentMedia, PageMedia, AgentConnects, AgentDrops, AgentFails, AgentIce, PageConnects, PageDrops, PageIce, agentVars
<1>6. Network => serving' = serving
  BY DEF Network, PageFails, Interrupt, Heal, SocketLost, Reconnect, agentVars
<1> QED BY <1>1, <1>2, <1>3, <1>4, <1>5, <1>6 DEF PeerNext

LEMMA StillOneServes ==
  ASSUME OneServes, Next
  PROVE  OneServes'
<1>1. CASE PeerNext /\ UNCHANGED <<tabVars, viewer, tries>>
  BY <1>1, NoNewServer DEF OneServes, tabVars
<1>3. CASE TabServer \/ TabPage \/ TabLapses \/ TabPerson
  <2>1. serving' = serving
    <3>1. UNCHANGED peerVars
      BY <1>3, TabLeavesPeer
    <3> QED BY <3>1 DEF peerVars, agentVars
  <2>2. viewer' = viewer /\ (tab' = tab \/ "absent" \notin {tab, tab'})
    <3>1. CASE TabServer
      BY <3>1 DEF TabServer, ServerRegisters, TabAdmitted, TabListened, TabClosed, DeviceDeleted,
                  TabRelayed
    <3>2. CASE TabPage
      BY <3>2 DEF TabPage, TabGoesOnline, TabInvited, TabTornDown
    <3>3. CASE TabLapses \/ TabPerson
      BY <3>3 DEF TabLapses, TabPerson, TabAccepts, PickerAnswered, TabDeclines, StreamEnds
    <3> QED BY <1>3, <3>1, <3>2, <3>3
  <2> QED BY <2>1, <2>2 DEF OneServes
<1>4. CASE Viewer
  <2>1. serving' = serving
    BY <1>4, TabLeavesPeer DEF Viewer, peerVars, agentVars
  <2>2. tab' = tab /\ (viewer' # "idle" => tab # "absent")
    BY <1>4 DEF Viewer, Connect, GuestAttempt, Create, OneServes, tabVars
  <2> QED BY <2>1, <2>2 DEF OneServes
<1> QED BY <1>1, <1>3, <1>4 DEF Next

-------------------------------------------------------------------------------
(* The theorems.                                                            *)

LEMMA Start == Init => IInv
<1> SUFFICES ASSUME Init PROVE IInv
  OBVIOUS
<1>1. CommonInit /\ TabStart
  BY DEF Init
<1>2. PICK first \in {<<>>, <<Frame("ready")>>} : toAgent = first
  BY DEF Init, NativeInit, BrowserInit
<1>3. loop \in Seq(Steps) /\ toPage \in Seq(Frames) /\ toAgent \in Seq(Frames) /\ chain \in Seq(Creds)
  BY <1>1, <1>2, NoFrames, FramesAreSteps, FramesMade, FewFrames DEF Init, NativeInit, BrowserInit, CommonInit
<1>4. tabOut \in Seq(TabFrames)
  BY <1>1, EmptySeq DEF TabStart
<1>5. Types
  <2>1. /\ pending \subseteq 1 .. MaxEvents /\ events \in 0 .. MaxEvents
    BY <1>1, BoundsAssumption DEF CommonInit
  <2>2. CASE NativeInit
    BY <1>1, <1>3, <2>1, <2>2 DEF CommonInit, NativeInit, Types, Creds
  <2>3. CASE BrowserInit
    BY <1>1, <1>3, <2>1, <2>3 DEF CommonInit, BrowserInit, Types, Creds
  <2> QED BY <2>2, <2>3 DEF Init
<1>6. TabTypes
  <2>1. /\ presence \in BOOLEAN /\ invite \in BOOLEAN /\ prompt \in BOOLEAN /\ picker \in BOOLEAN
        /\ stream \in BOOLEAN /\ sharing \in BOOLEAN
    BY <1>1 DEF TabStart
  <2>2. tries \in 0 .. MaxRetries /\ viewer = "idle" /\ device = "none" /\ socket = "none"
    BY <1>1, RetriesAssumption DEF TabStart
  <2>3. tab \in {"absent", "registering"}
    BY DEF Init
  <2> QED BY <1>4, <2>1, <2>2, <2>3 DEF TabTypes
<1>7. OneServes
  BY DEF Init, NativeInit, BrowserInit, TabStart, OneServes
<1>8. FlagHasSleeper /\ AppliedHasHandler
  BY <1>1 DEF CommonInit, FlagHasSleeper, AppliedHasHandler
<1>9. DownIsAttended /\ OfferLives
  BY DEF Init, NativeInit, BrowserInit, DownIsAttended, OfferLives, Down
<1>10. SetsFirst
  <2>1. loop = <<>>
    BY DEF Init, NativeInit, BrowserInit
  <2> QED BY <2>1 DEF SetsFirst
<1> QED BY <1>5, <1>6, <1>7, <1>8, <1>9, <1>10 DEF IInv

LEMMA Step == IInv /\ [Next]_vars => IInv'
<1> SUFFICES ASSUME IInv, [Next]_vars PROVE IInv'
  OBVIOUS
<1>1. CASE UNCHANGED vars
  BY <1>1 DEF vars, peerVars, agentVars, pageVars, netVars, tabVars, IInv, Types, TabTypes, OneServes,
              FlagHasSleeper, DownIsAttended, AppliedHasHandler, OfferLives, InFlight, Here, Has,
              SetsFirst, LoopOffers, TaskOffers
<1>2. CASE Next
  <2>1. TabTypes' /\ OneServes'
    BY <1>2, TabTyped, StillOneServes DEF IInv
  <2>2. CASE PeerNext
    BY <2>1, <2>2, PeerTypes, SettingFirst, Attended, HandlerAlive, OfferAlive DEF IInv
  <2>3. CASE UNCHANGED peerVars
    <3>1. Types'
      BY <2>3 DEF IInv, Types, peerVars, agentVars, pageVars, netVars
    <3>2. FlagHasSleeper' /\ DownIsAttended' /\ AppliedHasHandler'
      BY <2>3 DEF IInv, FlagHasSleeper, DownIsAttended, AppliedHasHandler, peerVars, agentVars, pageVars
    <3>3. OfferLives' /\ SetsFirst'
      BY <2>3 DEF IInv, OfferLives, InFlight, LoopOffers, TaskOffers, SetsFirst, Here, Has, peerVars,
                  agentVars, pageVars, netVars
    <3> QED BY <2>1, <3>1, <3>2, <3>3 DEF IInv
  <2>4. CASE Create
    <3>1. /\ UNCHANGED <<agentVars, ui, pending, chain, remote, have, answering, cred, netVars>>
          /\ phase' \in {"waiting", phase}
      BY <2>4, TabLeavesPeer
    <3>2. Types'
      BY <3>1 DEF IInv, Types, agentVars, netVars
    <3>3. FlagHasSleeper' /\ DownIsAttended' /\ AppliedHasHandler' /\ SetsFirst'
      BY <3>1 DEF IInv, FlagHasSleeper, DownIsAttended, AppliedHasHandler, SetsFirst, Has, agentVars
    <3>4. ~serving'
      BY <2>4, <3>1 DEF Create, IInv, OneServes, agentVars
    <3> QED BY <2>1, <3>2, <3>3, <3>4 DEF IInv, OfferLives
  <2> QED BY <1>2, <2>2, <2>3, <2>4, TabLeavesPeer DEF Next, Viewer
<1> QED BY <1>1, <1>2

LEMMA Invariant == Spec => []IInv
<1> QED BY Start, Step, PTL DEF Spec

\* Every variable of Peer and of Share keeps its type, for any captures, tasks
\* and bounds: the frames a handler takes have the parts it reads.
THEOREM TypeCorrect == Spec => []TypeOK
<1>1. IInv => TypeOK
  <2> SUFFICES ASSUME Types, TabTypes PROVE TypeOK
    BY DEF IInv
  <2>1. \A q \in {toPage, toAgent} : \A i \in DOMAIN q : q[i].type \in FrameTypes
    <3>1. ASSUME NEW q \in Seq(Frames), NEW i \in DOMAIN q PROVE q[i].type \in FrameTypes
      BY FrameParts, ElementOfSeq, LenProperties
    <3> QED BY <3>1 DEF Types
  <2>4. \A i \in DOMAIN loop : loop[i].type \in FrameTypes \cup {"set"}
    BY StepParts, ElementOfSeq, LenProperties DEF Types
  <2>2. PeerTypeOK
    BY <2>1, <2>4 DEF Types, PeerTypeOK, Creds, Down, Gone
  <2>3. \A i \in DOMAIN tabOut : tabOut[i].type \in {"accept", "deny", "end"}
    <3>1. \A i \in DOMAIN tabOut : tabOut[i] \in TabFrames
      BY ElementOfSeq, LenProperties DEF TabTypes
    <3> QED BY <3>1 DEF TabFrames
  <2> QED BY <2>2, <2>3 DEF TypeOK, TabTypes
<1> QED BY <1>1, Invariant, PTL

\* session.rs, install_ice_recovery_watcher: the flag is lowered before the
\* state is read, so a connection that is down is never left without a task
\* or an event that will look at it, whatever the number of tasks.
THEOREM DownAttended == Spec => []DownIsAttended
<1>1. IInv => DownIsAttended
  BY DEF IInv
<1> QED BY <1>1, Invariant, PTL

\* session.rs renegotiates from three places that do not know of each other,
\* and the page answers whichever offer it applied last: still no offer is left
\* outstanding with nothing on its way, as long as the signaling is up.
THEOREM OfferAnswered == Spec => []OfferIsAnswered
<1>1. IInv => OfferIsAnswered
  <2> SUFFICES ASSUME IInv, serving, sig = "offered", link = "up", Here
               PROVE  Exchanging
    BY DEF OfferIsAnswered
  <2>1. InFlight
    BY DEF IInv, OfferLives
  <2>2. ASSUME NEW q \in Seq(Frames), NEW type, Has(q, type)
        PROVE  \E i \in DOMAIN q : q[i].type = type
    BY <2>2, LenProperties DEF Has
  <2>3. /\ Has(toPage, "offer") => \E i \in DOMAIN toPage : toPage[i].type = "offer"
        /\ Has(toAgent, "answer") => \E i \in DOMAIN toAgent : toAgent[i].type = "answer"
    BY <2>2 DEF IInv, Types
  <2>4. have => answering > 0
    BY DEF IInv, AppliedHasHandler
  <2> QED BY <2>1, <2>3, <2>4 DEF InFlight, Exchanging, Relayed
<1> QED BY <1>1, Invariant, PTL
===============================================================================
