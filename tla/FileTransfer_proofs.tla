-------------------------- MODULE FileTransfer_proofs --------------------------
(***************************************************************************)
(* Theorems about FileTransfer, for any transfers and sizes.               *)
(***************************************************************************)
EXTENDS FileTransfer, SequenceTheorems, TLAPS

LEMMA HeadTail ==
  ASSUME NEW S, NEW q \in Seq(S), q # <<>>
  PROVE  /\ Head(q) \in S /\ Tail(q) \in Seq(S)
         /\ 1 \in 1 .. Len(q) /\ Head(q) = q[1]
         /\ Len(Tail(q)) = Len(q) - 1
         /\ \A i \in 1 .. Len(Tail(q)) : i + 1 \in 1 .. Len(q) /\ Tail(q)[i] = q[i + 1]
BY HeadTailProperties

LEMMA Appended ==
  ASSUME NEW S, NEW q \in Seq(S), NEW e \in S
  PROVE  /\ Append(q, e) \in Seq(S)
         /\ Len(Append(q, e)) = Len(q) + 1
         /\ \A i \in 1 .. Len(Append(q, e)) :
              \/ i \in 1 .. Len(q) /\ Append(q, e)[i] = q[i]
              \/ Append(q, e)[i] = e
BY AppendProperties

\* What is taken from and put on the channel is well typed.
LEMMA AgentMsgTypes ==
  /\ \A u \in Uploads : Msg("upload:start", u) \in AgentMsgs
  /\ \A d \in Downloads : Msg("download:start", d) \in AgentMsgs
  /\ \A t \in Transfers : /\ Msg("upload:complete", t) \in AgentMsgs
                          /\ Msg("transfer:cancel", t) \in AgentMsgs
  /\ \A t \in Transfers, n \in Nat : Chunk(t, n) \in Chunks /\ Chunk(t, n) \in AgentMsgs
  /\ \A m \in AgentMsgs :
       /\ m.id \in Transfers
       /\ m.type = "upload:start" => m.id \in Uploads
       /\ m.type = "download:start" => m.id \in Downloads
       /\ m.type = "chunk" => m \in Chunks
BY SMT DEF Msg, Chunk, AgentMsgs, Msgs, Chunks, Transfers

LEMMA PageMsgTypes ==
  /\ \A u \in Uploads : /\ Msg("upload:ready", u) \in PageMsgs
                        /\ Msg("upload:finished", u) \in PageMsgs
  /\ \A d \in Downloads : /\ Msg("download:info", d) \in PageMsgs
                          /\ Msg("download:complete", d) \in PageMsgs
  /\ \A t \in Transfers : Msg("file:error", t) \in PageMsgs
  /\ \A t \in Transfers, n \in Nat : Chunk(t, n) \in PageMsgs
  /\ \A m \in PageMsgs :
       /\ m.id \in Transfers
       /\ m.type \in {"upload:ready", "upload:finished"} => m.id \in Uploads
       /\ m.type \in {"download:info", "download:complete"} => m.id \in Downloads
       /\ m.type = "chunk" => m \in Chunks
BY SMT DEF Msg, Chunk, PageMsgs, Msgs, Chunks, Transfers

LEMMA StateTypes ==
  /\ Nothing \in States
  /\ \A t \in Transfers, status \in {"active", "done", "error", "cancelled"} :
       Shown(t, status) \in States
  /\ \A x \in States : /\ x # Nothing => x.id \in Transfers
                       /\ x.status = "active" => x.id \in Transfers
BY DEF States, Nothing, Shown

\* An emptied or removed file fits its declared size.
LEMMA Emptied ==
  ASSUME TransferTypeOK, NEW u
  PROVE  LET new == [stored EXCEPT ![u] = <<>>] IN
           new \in [Uploads -> Seq(Chunks)] /\ \A v \in Uploads : Len(new[v]) <= Size[v]
<1>1. \A v \in Uploads : Size[v] \in Nat
  BY SizeAssumption DEF Transfers
<1>2. <<>> \in Seq(Chunks) /\ Len(<<>>) = 0
  OBVIOUS
<1>3. /\ stored \in [Uploads -> Seq(Chunks)]
      /\ \A v \in Uploads : Len(stored[v]) <= Size[v]
  BY DEF TransferTypeOK
<1> DEFINE new == [stored EXCEPT ![u] = <<>>]
<1>4. new \in [Uploads -> Seq(Chunks)]
  BY <1>2, <1>3
<1>5. ASSUME NEW v \in Uploads PROVE Len(new[v]) <= Size[v]
  <2>1. CASE v = u
    <3>1. new[v] = <<>>
      BY <1>3, <2>1
    <3> QED BY <1>1, <1>2, <3>1
  <2>2. CASE v # u
    <3>1. new[v] = stored[v]
      BY <1>3, <2>2
    <3> QED BY <1>3, <3>1
  <2> QED BY <2>1, <2>2
<1> QED BY <1>4, <1>5

IInv == TransferTypeOK /\ FileSelected

LEMMA InvInit == Init => IInv
<1> SUFFICES ASSUME Init PROVE IInv
  OBVIOUS
<1>1. TransferTypeOK
  BY SizeAssumption, StateTypes DEF Init, TransferTypeOK, Transfers
<1>2. FileSelected
  BY DEF Init, FileSelected
<1> QED BY <1>1, <1>2 DEF IInv

\* A message that was taken leaves only messages that were there.
LEMMA AgentTaking ==
  ASSUME IInv, NEW type, AgentTakes(type)
  PROVE  /\ Head(toAgent) \in AgentMsgs /\ Head(toAgent).type = type
         /\ toAgent' \in Seq(AgentMsgs)
         /\ type = "upload:start" => uploadFile # NoTransfer
         /\ (\A i \in 1 .. Len(toAgent) : toAgent[i].type # "upload:start") =>
              \A i \in 1 .. Len(toAgent') : toAgent'[i].type # "upload:start"
<1>1. toAgent \in Seq(AgentMsgs) /\ toAgent # <<>> /\ toAgent' = Tail(toAgent)
  BY DEF IInv, TransferTypeOK, AgentTakes
<1> QED BY <1>1, HeadTail DEF IInv, FileSelected, AgentTakes

LEMMA PageTaking ==
  ASSUME IInv, NEW type, PageTakes(type)
  PROVE  /\ Head(toPage) \in PageMsgs /\ Head(toPage).type = type
         /\ toPage' \in Seq(PageMsgs)
         /\ type = "upload:ready" => uploadFile # NoTransfer
         /\ (\A i \in 1 .. Len(toPage) : toPage[i].type # "upload:ready") =>
              \A i \in 1 .. Len(toPage') : toPage'[i].type # "upload:ready"
<1>1. toPage \in Seq(PageMsgs) /\ toPage # <<>> /\ toPage' = Tail(toPage)
  BY DEF IInv, TransferTypeOK, PageTakes
<1> QED BY <1>1, HeadTail DEF IInv, FileSelected, PageTakes

\* Putting a message on the channel that is not the one a selection precedes.
LEMMA ToPageKeeps ==
  ASSUME IInv, NEW m \in PageMsgs, toPage' = Append(toPage, m),
         m.type # "upload:ready" \/ uploadFile # NoTransfer
  PROVE  /\ toPage' \in Seq(PageMsgs)
         /\ uploadFile = NoTransfer =>
              \A i \in 1 .. Len(toPage') : toPage'[i].type # "upload:ready"
<1>1. toPage \in Seq(PageMsgs)
  BY DEF IInv, TransferTypeOK
<1> QED BY <1>1, Appended DEF IInv, FileSelected

\* A loop that goes on keeps its file and sends well-typed messages.
LEMMA LoopGoesOn ==
  ASSUME IInv, NEW u \in Uploads, NEW f \in Uploads, NEW off \in Nat,
         NEW q \in Seq(AgentMsgs), SendNextChunk(u, f, off, q), uploadFile # NoTransfer
  PROVE  /\ toAgent' \in Seq(AgentMsgs)
         /\ loop' \in [Uploads -> [state : {"off", "waiting", "reading"},
                                   file : Uploads \cup {NoTransfer}, at : Nat]]
         /\ \A v \in Uploads : loop'[v].state # "off" => loop'[v].file \in Uploads
<1>1. loop \in [Uploads -> [state : {"off", "waiting", "reading"},
                            file : Uploads \cup {NoTransfer}, at : Nat]]
  BY DEF IInv, TransferTypeOK
<1>2. \A v \in Uploads : loop[v].state # "off" => loop[v].file \in Uploads
  BY DEF IInv, FileSelected
<1>3. transferRef # Nothing => Msg("upload:complete", transferRef.id) \in AgentMsgs
  BY StateTypes, AgentMsgTypes DEF IInv, TransferTypeOK
<1>4. toAgent' \in Seq(AgentMsgs)
  BY <1>3, Appended DEF SendNextChunk
<1>5. \E new \in [state : {"off", "waiting", "reading"}, file : Uploads, at : Nat] :
        loop' = [loop EXCEPT ![u] = new]
  BY DEF SendNextChunk
<1> QED BY <1>1, <1>2, <1>4, <1>5

LEMMA UserKeeps ==
  ASSUME IInv, User
  PROVE  IInv'
<1>1. toAgent \in Seq(AgentMsgs) /\ TransferTypeOK /\ FileSelected
  BY DEF IInv, TransferTypeOK
<1>2. ASSUME NEW d \in Downloads, SelectDownload(d) PROVE IInv'
  <2>1. Msg("download:start", d) \in AgentMsgs /\ Msg("download:start", d).type # "upload:start"
    BY AgentMsgTypes DEF Msg
  <2>2. TransferTypeOK'
    BY <1>1, <1>2, <2>1, Appended DEF SelectDownload, Start, TransferTypeOK, agent, Transfers
  <2>3. FileSelected'
    BY <1>1, <1>2, <2>1, Appended DEF SelectDownload, FileSelected
  <2> QED BY <2>2, <2>3 DEF IInv
<1>3. ASSUME NEW u \in Uploads, SelectUpload(u) PROVE IInv'
  <2>1. Msg("upload:start", u) \in AgentMsgs /\ u \in Transfers /\ u # NoTransfer
    BY AgentMsgTypes, KindsAssumption DEF Transfers
  <2>2. TransferTypeOK'
    BY <1>1, <1>3, <2>1, Appended, StateTypes DEF SelectUpload, Start, Show, TransferTypeOK, agent
  <2>3. FileSelected'
    BY <1>1, <1>3, <2>1 DEF SelectUpload, FileSelected
  <2> QED BY <2>2, <2>3 DEF IInv
<1>4. CASE Cancel
  <2>1. transferRef.id \in Transfers
    BY <1>1, <1>4, StateTypes DEF Cancel, TransferTypeOK
  <2>2. /\ Msg("transfer:cancel", transferRef.id) \in AgentMsgs
        /\ Msg("transfer:cancel", transferRef.id).type # "upload:start"
    BY <2>1, AgentMsgTypes DEF Msg
  <2>3. TransferTypeOK'
    BY <1>1, <1>4, <2>1, <2>2, Appended, StateTypes DEF Cancel, Show, TransferTypeOK, agent
  <2>4. FileSelected'
    BY <1>1, <1>4, <2>2, Appended DEF Cancel, FileSelected
  <2> QED BY <2>3, <2>4 DEF IInv
<1> QED BY <1>2, <1>3, <1>4 DEF User

LEMMA LoopKeeps ==
  ASSUME IInv, NEW u \in Uploads, Loop(u)
  PROVE  IInv'
<1>1. toAgent \in Seq(AgentMsgs) /\ TransferTypeOK /\ uploadOffset \in Nat
  BY DEF IInv, TransferTypeOK
<1>2. loop[u].state # "off"
  BY DEF Loop, LoopResume, LoopSend
<1>3. loop[u].file \in Uploads /\ uploadFile # NoTransfer
  BY <1>2 DEF IInv, FileSelected
<1>4. CASE LoopResume(u)
  <2>1. SendNextChunk(u, loop[u].file, uploadOffset, toAgent)
    BY <1>4 DEF LoopResume
  <2>2. TransferTypeOK'
    BY <1>1, <1>3, <1>4, <2>1, LoopGoesOn DEF LoopResume, TransferTypeOK, agent
  <2>3. FileSelected'
    BY <1>1, <1>3, <1>4, <2>1, LoopGoesOn DEF LoopResume, FileSelected
  <2> QED BY <2>2, <2>3 DEF IInv
<1>5. CASE LoopSend(u)
  <2> DEFINE q == Append(toAgent, Chunk(loop[u].file, loop[u].at + 1))
  <2>1. SendNextChunk(u, loop[u].file, uploadOffset + 1, q)
    BY <1>5 DEF LoopSend
  <2>2. loop[u].at \in Nat /\ loop[u].file \in Transfers
    BY <1>1, <1>3 DEF TransferTypeOK, Transfers
  <2>3. q \in Seq(AgentMsgs) /\ uploadOffset + 1 \in Nat
    BY <1>1, <2>2, AgentMsgTypes, Appended
  <2>4. TransferTypeOK'
    BY <1>1, <1>3, <1>5, <2>1, <2>3, LoopGoesOn DEF LoopSend, TransferTypeOK, agent
  <2>5. FileSelected'
    BY <1>1, <1>3, <1>5, <2>1, <2>3, LoopGoesOn DEF LoopSend, FileSelected
  <2> QED BY <2>4, <2>5 DEF IInv
<1> QED BY <1>4, <1>5 DEF Loop

LEMMA PageKeeps ==
  ASSUME IInv, PageReceives
  PROVE  IInv'
<1>1. TransferTypeOK /\ FileSelected
  BY DEF IInv
<1>2. CASE PageError
  <2>1. PageTakes("file:error")
    BY <1>2 DEF PageError
  <2>2. transfer' \in States
    BY <1>1, <1>2, StateTypes DEF PageError, TransferTypeOK
  <2>3. TransferTypeOK'
    BY <1>1, <1>2, <2>1, <2>2, PageTaking DEF PageError, TransferTypeOK, agent
  <2>4. FileSelected'
    BY <1>1, <1>2, <2>1, PageTaking DEF PageError, FileSelected
  <2> QED BY <2>3, <2>4 DEF IInv
<1>3. CASE PageReady
  <2>1. PageTakes("upload:ready")
    BY <1>3 DEF PageReady
  <2>2. PageId \in Uploads /\ uploadFile \in Uploads /\ uploadFile # NoTransfer
    BY <1>1, <2>1, PageTaking, PageMsgTypes DEF TransferTypeOK, PageId
  <2>3. SendNextChunk(PageId, uploadFile, 0, toAgent) /\ toAgent \in Seq(AgentMsgs)
    BY <1>1, <1>3 DEF PageReady, TransferTypeOK
  <2>4. TransferTypeOK'
    BY <1>1, <1>3, <2>1, <2>2, <2>3, PageTaking, LoopGoesOn DEF PageReady, TransferTypeOK, agent
  <2>5. FileSelected'
    BY <1>1, <1>3, <2>1, <2>2, <2>3, PageTaking, LoopGoesOn DEF PageReady, FileSelected
  <2> QED BY <2>4, <2>5 DEF IInv
<1>4. CASE PageFinished
  <2>1. PageTakes("upload:finished")
    BY <1>4 DEF PageFinished
  <2>2. PageId \in Transfers
    BY <2>1, PageTaking, PageMsgTypes DEF PageId
  <2>3. TransferTypeOK'
    BY <1>1, <1>4, <2>1, <2>2, PageTaking, StateTypes DEF PageFinished, TransferTypeOK, agent
  <2>4. FileSelected'
    BY <1>1, <1>4, <2>1, PageTaking DEF PageFinished, FileSelected
  <2> QED BY <2>3, <2>4 DEF IInv
<1>5. CASE PageInfo
  <2>1. PageTakes("download:info")
    BY <1>5 DEF PageInfo
  <2>2. PageId \in Transfers
    BY <2>1, PageTaking, PageMsgTypes DEF PageId
  <2>3. TransferTypeOK'
    BY <1>1, <1>5, <2>1, <2>2, PageTaking, StateTypes DEF PageInfo, TransferTypeOK, agent
  <2>4. FileSelected'
    BY <1>1, <1>5, <2>1, PageTaking DEF PageInfo, FileSelected
  <2> QED BY <2>3, <2>4 DEF IInv
<1>6. CASE PageChunk
  <2>1. PageTakes("chunk")
    BY <1>6 DEF PageChunk
  <2>2. Head(toPage) \in Chunks
    BY <2>1, PageTaking, PageMsgTypes
  <2>3. TransferTypeOK'
    BY <1>1, <1>6, <2>1, <2>2, PageTaking, Appended DEF PageChunk, TransferTypeOK, agent
  <2>4. FileSelected'
    BY <1>1, <1>6, <2>1, PageTaking DEF PageChunk, FileSelected
  <2> QED BY <2>3, <2>4 DEF IInv
<1>7. CASE PageComplete
  <2>1. PageTakes("download:complete")
    BY <1>7 DEF PageComplete
  <2>2. PageId \in Downloads /\ PageId \in Transfers
    BY <2>1, PageTaking, PageMsgTypes DEF PageId
  <2>3. saved' \in [Downloads -> Seq(Chunks)] /\ chunks' \in Seq(Chunks)
    <3>1. saved \in [Downloads -> Seq(Chunks)] /\ chunks \in Seq(Chunks) /\ <<>> \in Seq(Chunks)
      BY <1>1 DEF TransferTypeOK
    <3>2. \/ saved' = [saved EXCEPT ![PageId] = chunks] /\ chunks' = <<>>
          \/ UNCHANGED <<saved, chunks>>
      BY <1>7 DEF PageComplete
    <3> QED BY <3>1, <3>2
  <2>4. transfer' \in States
    BY <1>1, <1>7, <2>2, StateTypes DEF PageComplete, TransferTypeOK
  <2>5. TransferTypeOK'
    BY <1>1, <1>7, <2>1, <2>3, <2>4, PageTaking DEF PageComplete, TransferTypeOK, agent
  <2>6. FileSelected'
    BY <1>1, <1>7, <2>1, PageTaking DEF PageComplete, FileSelected
  <2> QED BY <2>5, <2>6 DEF IInv
<1> QED BY <1>2, <1>3, <1>4, <1>5, <1>6, <1>7 DEF PageReceives

LEMMA AgentKeeps ==
  ASSUME IInv, AgentReceives
  PROVE  IInv'
<1>1. TransferTypeOK /\ FileSelected
  BY DEF IInv
<1>2. ASSUME UNCHANGED agent, UNCHANGED page, NEW type, AgentTakes(type),
             UNCHANGED toPage \/ Answer("file:error")
      PROVE  IInv'
  <2>1. Msg("file:error", AgentId) \in PageMsgs /\ Msg("file:error", AgentId).type # "upload:ready"
    BY <1>2, AgentTaking, AgentMsgTypes, PageMsgTypes DEF AgentId, Msg
  <2>2. toPage' \in Seq(PageMsgs)
        /\ (uploadFile = NoTransfer =>
              \A i \in 1 .. Len(toPage') : toPage'[i].type # "upload:ready")
    BY <1>1, <1>2, <2>1, ToPageKeeps DEF Answer, TransferTypeOK, FileSelected
  <2>3. TransferTypeOK'
    BY <1>1, <1>2, <2>2, AgentTaking DEF TransferTypeOK, page, agent
  <2>4. FileSelected'
    BY <1>1, <1>2, <2>2, AgentTaking DEF FileSelected, page
  <2> QED BY <2>3, <2>4 DEF IInv
<1>3. CASE RecvUploadStart
  <2>1. AgentTakes("upload:start") /\ UNCHANGED page
    BY <1>3 DEF RecvUploadStart
  <2>2. CASE Conflict \/ Refuse
    BY <1>2, <2>1, <2>2 DEF Conflict, Refuse
  <2>3. CASE /\ active' = AgentId
             /\ stored' = [stored EXCEPT ![AgentId] = <<>>]
             /\ Answer("upload:ready")
             /\ UNCHANGED <<stream, infoDue>>
    <3>1. AgentId \in Uploads /\ AgentId \in Transfers /\ uploadFile # NoTransfer
      BY <2>1, AgentTaking, AgentMsgTypes DEF AgentId
    <3>2. toPage' \in Seq(PageMsgs)
      BY <2>3, <3>1, ToPageKeeps, PageMsgTypes DEF Answer
    <3>3. stored' \in [Uploads -> Seq(Chunks)] /\ \A u \in Uploads : Len(stored'[u]) <= Size[u]
      BY <1>1, <2>3, Emptied
    <3>5. TransferTypeOK'
      BY <1>1, <2>1, <2>3, <3>1, <3>2, <3>3, AgentTaking DEF TransferTypeOK, page
    <3>4. FileSelected'
      BY <1>1, <2>1, <3>1 DEF FileSelected, page
    <3> QED BY <3>4, <3>5 DEF IInv
  <2> QED BY <1>3, <2>2, <2>3, Zenon DEF RecvUploadStart
<1>4. CASE RecvChunk
  <2>1. AgentTakes("chunk") /\ UNCHANGED <<toPage, page, active, stream, infoDue>>
    BY <1>4 DEF RecvChunk
  <2>2. Head(toAgent) \in Chunks
    BY <2>1, AgentTaking, AgentMsgTypes
  <2>3. stored' \in [Uploads -> Seq(Chunks)] /\ \A u \in Uploads : Len(stored'[u]) <= Size[u]
    <3>1. CASE active \in Uploads /\ Fits
      <4>1. stored[active] \in Seq(Chunks)
        BY <1>1, <3>1 DEF TransferTypeOK
      <4>2. /\ Append(stored[active], Head(toAgent)) \in Seq(Chunks)
            /\ Len(Append(stored[active], Head(toAgent))) = Len(stored[active]) + 1
        BY <2>2, <4>1, Appended
      <4> QED BY <1>1, <1>4, <3>1, <4>2 DEF RecvChunk, Fits, TransferTypeOK
    <3>2. CASE ~(active \in Uploads /\ Fits)
      BY <1>1, <1>4, <3>2 DEF RecvChunk, TransferTypeOK
    <3> QED BY <3>1, <3>2
  <2>4. TransferTypeOK'
    BY <1>1, <2>1, <2>3, AgentTaking DEF TransferTypeOK, page
  <2>5. FileSelected'
    BY <1>1, <2>1, AgentTaking DEF FileSelected, page
  <2> QED BY <2>4, <2>5 DEF IInv
<1>5. CASE RecvUploadComplete
  <2>1. AgentTakes("upload:complete") /\ UNCHANGED <<page, stream, infoDue>>
    BY <1>5 DEF RecvUploadComplete
  <2>2. CASE ~Completes(AgentId)
    BY <1>2, <1>5, <2>1, <2>2 DEF RecvUploadComplete, agent
  <2>3. CASE Completes(AgentId)
    <3>1. AgentId \in Uploads /\ AgentId \in Transfers /\ active \in Uploads
      BY <2>3, <2>1, AgentTaking, AgentMsgTypes DEF Completes, AgentId
    <3>2. \E m \in PageMsgs : toPage' = Append(toPage, m) /\ m.type # "upload:ready"
      <4>1. /\ Msg("upload:finished", AgentId) \in PageMsgs
            /\ Msg("file:error", AgentId) \in PageMsgs
            /\ Msg("upload:finished", AgentId).type # "upload:ready"
            /\ Msg("file:error", AgentId).type # "upload:ready"
        BY <3>1, PageMsgTypes DEF Msg
      <4> QED BY <1>5, <2>3, <4>1 DEF RecvUploadComplete, Answer
    <3>3. /\ toPage' \in Seq(PageMsgs)
          /\ uploadFile = NoTransfer =>
               \A i \in 1 .. Len(toPage') : toPage'[i].type # "upload:ready"
      BY <3>2, ToPageKeeps
    <3>4. stored' = stored \/ stored' = [stored EXCEPT ![active] = <<>>]
      BY <1>5, <2>3 DEF RecvUploadComplete
    <3>5. stored' \in [Uploads -> Seq(Chunks)] /\ \A u \in Uploads : Len(stored'[u]) <= Size[u]
      BY <1>1, <3>4, Emptied DEF TransferTypeOK
    <3>6. active' = NoTransfer
      BY <1>5, <2>3 DEF RecvUploadComplete
    <3>7. TransferTypeOK'
      BY <1>1, <2>1, <3>3, <3>5, <3>6, AgentTaking DEF TransferTypeOK, page
    <3>8. FileSelected'
      BY <1>1, <2>1, <3>3, AgentTaking DEF FileSelected, page
    <3> QED BY <3>7, <3>8 DEF IInv
  <2> QED BY <2>2, <2>3
<1>6. CASE RecvDownloadStart
  <2>1. AgentTakes("download:start") /\ UNCHANGED page
    BY <1>6 DEF RecvDownloadStart
  <2>2. CASE Conflict \/ Refuse
    BY <1>2, <2>1, <2>2 DEF Conflict, Refuse
  <2>3. CASE /\ active' = AgentId
             /\ stream' = [stream EXCEPT ![AgentId].state = "running"]
             /\ infoDue' = AgentId
             /\ UNCHANGED <<toPage, stored>>
    <3>1. AgentId \in Downloads /\ AgentId \in Transfers
      BY <2>1, AgentTaking, AgentMsgTypes DEF AgentId
    <3>2. TransferTypeOK'
      BY <1>1, <2>1, <2>3, <3>1, AgentTaking DEF TransferTypeOK, page
    <3>3. FileSelected'
      BY <1>1, <2>1, <2>3, AgentTaking DEF FileSelected, page
    <3> QED BY <3>2, <3>3 DEF IInv
  <2> QED BY <1>6, <2>2, <2>3, Zenon DEF RecvDownloadStart
<1>7. CASE SendInfo
  <2>1. infoDue \in Downloads /\ infoDue \in Transfers
    BY <1>1, <1>7 DEF SendInfo, TransferTypeOK, Transfers
  <2>2. /\ Msg("download:info", infoDue) \in PageMsgs
        /\ Msg("download:info", infoDue).type # "upload:ready"
    BY <2>1, PageMsgTypes DEF Msg
  <2>3. /\ toPage' \in Seq(PageMsgs)
        /\ uploadFile = NoTransfer =>
             \A i \in 1 .. Len(toPage') : toPage'[i].type # "upload:ready"
    BY <1>7, <2>2, ToPageKeeps DEF SendInfo
  <2>4. TransferTypeOK'
    BY <1>1, <1>7, <2>3 DEF SendInfo, TransferTypeOK, page
  <2>5. FileSelected'
    BY <1>1, <1>7, <2>3 DEF SendInfo, FileSelected, page
  <2> QED BY <2>4, <2>5 DEF IInv
<1>8. CASE RecvCancel
  <2>1. AgentTakes("transfer:cancel") /\ UNCHANGED <<toPage, page, stream, infoDue>>
    BY <1>8 DEF RecvCancel
  <2>2. /\ active' \in Transfers \cup {NoTransfer}
        /\ stored' = stored \/ stored' = [stored EXCEPT ![AgentId] = <<>>]
    BY <1>1, <1>8 DEF RecvCancel, TransferTypeOK
  <2>5. stored' \in [Uploads -> Seq(Chunks)] /\ \A u \in Uploads : Len(stored'[u]) <= Size[u]
    BY <1>1, <2>2, Emptied DEF TransferTypeOK
  <2>3. TransferTypeOK'
    BY <1>1, <2>1, <2>2, <2>5, AgentTaking DEF TransferTypeOK, page
  <2>4. FileSelected'
    BY <1>1, <2>1, AgentTaking DEF FileSelected, page
  <2> QED BY <2>3, <2>4 DEF IInv
<1> QED BY <1>3, <1>4, <1>5, <1>6, <1>7, <1>8 DEF AgentReceives

LEMMA StreamKeeps ==
  ASSUME IInv, NEW d \in Downloads, Stream(d)
  PROVE  IInv'
<1>1. TransferTypeOK /\ FileSelected /\ d \in Transfers /\ stream[d].sent \in Nat
  BY DEF IInv, TransferTypeOK, Transfers
<1>2. CASE StreamRelease(d)
  <2>1. TransferTypeOK'
    BY <1>1, <1>2 DEF StreamRelease, TransferTypeOK, page
  <2>2. FileSelected'
    BY <1>1, <1>2 DEF StreamRelease, FileSelected, page
  <2> QED BY <2>1, <2>2 DEF IInv
<1>3. CASE ~StreamRelease(d)
  <2>1. \E m \in PageMsgs : toPage' = Append(toPage, m) /\ m.type # "upload:ready"
    <3> DEFINE n == stream[d].sent + 1
    <3>2. n \in Nat
      BY <1>1
    <3> HIDE DEF n
    <3>1. /\ Chunk(d, n) \in PageMsgs
          /\ Msg("download:complete", d) \in PageMsgs
          /\ Msg("file:error", d) \in PageMsgs
          /\ Chunk(d, n).type # "upload:ready"
          /\ Msg("download:complete", d).type # "upload:ready"
          /\ Msg("file:error", d).type # "upload:ready"
      BY <1>1, <3>2, PageMsgTypes DEF Msg, Chunk
    <3>3. \/ toPage' = Append(toPage, Chunk(d, n))
          \/ toPage' = Append(toPage, Msg("download:complete", d))
          \/ toPage' = Append(toPage, Msg("file:error", d))
      BY <1>3 DEF Stream, StreamChunk, StreamComplete, StreamFail, n
    <3> QED BY <3>1, <3>3
  <2>2. /\ toPage' \in Seq(PageMsgs)
        /\ uploadFile = NoTransfer =>
             \A i \in 1 .. Len(toPage') : toPage'[i].type # "upload:ready"
    BY <2>1, ToPageKeeps
  <2>3. stream' \in [Downloads -> [state : {"none", "running", "ending", "ended"}, sent : Nat]]
    <3>1. stream \in [Downloads -> [state : {"none", "running", "ending", "ended"}, sent : Nat]]
      BY <1>1 DEF TransferTypeOK
    <3>2. \/ stream' = [stream EXCEPT ![d].sent = @ + 1]
          \/ stream' = [stream EXCEPT ![d].state = "ending"]
      BY <1>3 DEF Stream, StreamChunk, StreamComplete, StreamFail
    <3> QED BY <3>1, <3>2
  <2>4. UNCHANGED <<toAgent, page, active, stored, infoDue>>
    BY <1>3 DEF Stream, StreamChunk, StreamComplete, StreamFail
  <2>5. TransferTypeOK'
    BY <1>1, <2>2, <2>3, <2>4 DEF TransferTypeOK, page
  <2>6. FileSelected'
    BY <1>1, <2>2, <2>4 DEF FileSelected, page
  <2> QED BY <2>5, <2>6 DEF IInv
<1> QED BY <1>2, <1>3

LEMMA InvStep == IInv /\ [Next]_vars => IInv'
<1> SUFFICES ASSUME IInv, [Next]_vars PROVE IInv'
  OBVIOUS
<1>1. CASE Render
  BY <1>1 DEF Render, IInv, TransferTypeOK, FileSelected, agent
<1>2. CASE UNCHANGED vars
  BY <1>2 DEF vars, page, agent, IInv, TransferTypeOK, FileSelected
<1> QED BY <1>1, <1>2, UserKeeps, PageKeeps, LoopKeeps, AgentKeeps, StreamKeeps DEF Next

\* Every transfer keeps its type through every step; an upload's file never
\* grows beyond the declared size, however many loops send chunks.
THEOREM TypeCorrect == Spec => []TransferTypeOK
<1>1. Init => IInv
  BY InvInit
<1>2. IInv /\ [Next]_vars => IInv'
  BY InvStep
<1>3. IInv => TransferTypeOK
  BY DEF IInv
<1> QED BY <1>1, <1>2, <1>3, PTL DEF Spec

LEMMA BusyStep == IInv /\ BusyWhileStreaming /\ [Next]_vars => BusyWhileStreaming'
<1> SUFFICES ASSUME IInv, BusyWhileStreaming, [Next]_vars, active' \in Downloads
             PROVE  stream'[active'].state \in {"running", "ending"}
  BY DEF BusyWhileStreaming
<1>1. /\ stream \in [Downloads -> [state : {"none", "running", "ending", "ended"}, sent : Nat]]
      /\ NoTransfer \notin Downloads /\ Uploads \cap Downloads = {}
  BY KindsAssumption DEF IInv, TransferTypeOK, Transfers
<1>2. CASE UNCHANGED agent
  BY <1>2 DEF agent, BusyWhileStreaming
<1>3. CASE AgentReceives
  <2>1. CASE RecvUploadStart
    <3>1. AgentId \in Uploads
      BY <2>1, AgentTaking, AgentMsgTypes DEF RecvUploadStart, AgentId
    <3> QED BY <1>1, <1>2, <2>1, <3>1 DEF RecvUploadStart, Conflict, Refuse
  <2>2. CASE RecvDownloadStart
    <3>1. AgentId \in Downloads
      BY <2>2, AgentTaking, AgentMsgTypes DEF RecvDownloadStart, AgentId
    <3> QED BY <1>1, <1>2, <2>2, <3>1 DEF RecvDownloadStart, Conflict, Refuse
  <2>3. CASE RecvChunk \/ SendInfo
    BY <2>3 DEF RecvChunk, SendInfo, BusyWhileStreaming
  <2>4. CASE RecvUploadComplete \/ RecvCancel
    BY <1>1, <2>4 DEF RecvUploadComplete, RecvCancel, BusyWhileStreaming
  <2> QED BY <1>3, <2>1, <2>2, <2>3, <2>4 DEF AgentReceives
<1>4. ASSUME NEW d \in Downloads, Stream(d) PROVE stream'[active'].state \in {"running", "ending"}
  BY <1>1, <1>4 DEF Stream, StreamChunk, StreamComplete, StreamFail, StreamRelease,
                    BusyWhileStreaming
<1>5. CASE User \/ Render \/ PageReceives \/ \E u \in Uploads : Loop(u)
  BY <1>2, <1>5 DEF User, SelectDownload, SelectUpload, Cancel, Render, PageReceives, PageError,
     PageReady, PageFinished, PageInfo, PageChunk, PageComplete, Loop, LoopResume, LoopSend
<1>6. CASE UNCHANGED vars
  BY <1>2, <1>6 DEF vars
<1> QED BY <1>3, <1>4, <1>5, <1>6 DEF Next

\* No download keeps the agent busy after its task is over, whatever was
\* cancelled, failed or accepted in between.
THEOREM BusyIsStreaming == Spec => []BusyWhileStreaming
<1>1. Init => BusyWhileStreaming
  BY KindsAssumption DEF Init, BusyWhileStreaming, Transfers
<1>2. Spec => []IInv
  BY InvInit, InvStep, PTL DEF Spec
<1> QED BY <1>1, <1>2, BusyStep, PTL DEF Spec
-------------------------------------------------------------------------------
(* Messages on the channel.                                                 *)

\* Where a message is on the channel, whether it is there at most once, and
\* where the chunks of a transfer are.
Once(q, m) == \A i, j \in 1 .. Len(q) : q[i] = m /\ q[j] = m => i = j
At(q, m) == {i \in 1 .. Len(q) : q[i] = m}
ChunksAt(q, t) == {i \in 1 .. Len(q) : q[i].type = "chunk" /\ q[i].id = t}

\* Queue q carries the chunks of t after the c-th up to the e-th, in order.
Carries(q, t, c, e) ==
  /\ c \in Nat /\ e \in Nat /\ c <= e
  /\ \A i \in ChunksAt(q, t) : q[i].n \in c + 1 .. e
  /\ \A i, j \in ChunksAt(q, t) : i < j => q[i].n < q[j].n
  /\ \A n \in c + 1 .. e : \E i \in 1 .. Len(q) : q[i] = Chunk(t, n)

\* Sequence q is the k-th to the c-th chunk of t.
Piece(q, t, k, c) ==
  /\ Len(q) = c + 1 - k
  /\ \A i \in 1 .. Len(q) : q[i] = Chunk(t, k + i - 1)

Info(d) == Msg("download:info", d)
End(d) == Msg("download:complete", d)
Begin(u) == Msg("upload:start", u)
Ready(u) == Msg("upload:ready", u)
Complete(t) == Msg("upload:complete", t)
Finished(u) == Msg("upload:finished", u)
Begins(d) == Msg("download:start", d)
Cancels(t) == Msg("transfer:cancel", t)

LEMMA MsgFields ==
  /\ \A type, t : Msg(type, t).type = type /\ Msg(type, t).id = t
  /\ \A t, n : Chunk(t, n).type = "chunk" /\ Chunk(t, n).id = t /\ Chunk(t, n).n = n
BY DEF Msg, Chunk

\* Any other message is its type and its transfer.
LEMMA MsgIs ==
  \A m \in AgentMsgs \cup PageMsgs : m.type # "chunk" => m = Msg(m.type, m.id)
BY SMT DEF AgentMsgs, PageMsgs, Chunks, Msgs, Msg

\* A chunk is the chunk of its transfer with its number.
LEMMA ChunkIs ==
  \A m \in AgentMsgs \cup PageMsgs : m.type = "chunk" => m = Chunk(m.id, m.n) /\ m.n \in Nat
BY SMT DEF AgentMsgs, PageMsgs, Chunks, Msgs, Chunk

LEMMA AtTail ==
  ASSUME NEW S, NEW q \in Seq(S), q # <<>>, NEW m
  PROVE  /\ \A i : i \in At(Tail(q), m) <=> i \in 1 .. Len(q) - 1 /\ i + 1 \in At(q, m)
         /\ Head(q) # m /\ At(q, m) # {} => At(Tail(q), m) # {}
<1>1. /\ Len(Tail(q)) = Len(q) - 1 /\ Len(q) \in Nat /\ Head(q) = q[1]
      /\ \A i \in 1 .. Len(q) - 1 : Tail(q)[i] = q[i + 1]
  BY HeadTail
<1>2. \A i : i \in At(Tail(q), m) <=> i \in 1 .. Len(q) - 1 /\ i + 1 \in At(q, m)
  BY <1>1 DEF At
<1>3. ASSUME NEW i \in At(q, m), Head(q) # m PROVE i - 1 \in At(Tail(q), m)
  <2>1. i \in 1 .. Len(q) /\ i # 1
    BY <1>1, <1>3 DEF At
  <2> QED BY <1>1, <1>2, <2>1
<1> QED BY <1>2, <1>3

LEMMA AtAppend ==
  ASSUME NEW S, NEW q \in Seq(S), NEW e \in S, NEW m
  PROVE  \A i : i \in At(Append(q, e), m) <=> i \in At(q, m) \/ (i = Len(q) + 1 /\ e = m)
BY AppendProperties DEF At

LEMMA TailAt ==
  ASSUME NEW S, NEW q \in Seq(S), q # <<>>, NEW m
  PROVE  /\ At(Tail(q), m) # {} => At(q, m) # {}
         /\ Once(q, m) => Once(Tail(q), m) /\ (Head(q) = m => At(Tail(q), m) = {})
         /\ Head(q) = m => At(q, m) # {}
<1>1. /\ Len(Tail(q)) = Len(q) - 1 /\ Len(q) \in Nat \ {0} /\ Head(q) = q[1]
      /\ \A i \in 1 .. Len(q) - 1 : Tail(q)[i] = q[i + 1] /\ i + 1 \in 1 .. Len(q)
  BY HeadTail
<1>2. Head(q) = m => 1 \in At(q, m)
  BY <1>1 DEF At
<1>3. Once(q, m) => Once(Tail(q), m)
  BY <1>1 DEF Once
<1>4. ASSUME Once(q, m), Head(q) = m PROVE At(Tail(q), m) = {}
  BY <1>1, <1>4 DEF At, Once
<1> QED BY <1>2, <1>3, <1>4, AtTail

LEMMA AppendAt ==
  ASSUME NEW S, NEW q \in Seq(S), NEW e \in S, NEW m
  PROVE  /\ e # m => At(Append(q, e), m) = At(q, m) /\ (Once(q, m) => Once(Append(q, e), m))
         /\ e = m => At(Append(q, e), m) # {}
         /\ e = m /\ At(q, m) = {} => Once(Append(q, e), m)
<1>1. /\ Len(Append(q, e)) = Len(q) + 1 /\ Len(q) \in Nat /\ Append(q, e)[Len(q) + 1] = e
      /\ \A i \in 1 .. Len(q) : Append(q, e)[i] = q[i]
  BY AppendProperties
<1>2. ASSUME e # m PROVE At(Append(q, e), m) = At(q, m)
  <2>1. \A i : i \in At(Append(q, e), m) <=> i \in At(q, m)
    BY <1>2, AtAppend
  <2> QED BY <2>1, Zenon
<1>3. ASSUME e # m, Once(q, m) PROVE Once(Append(q, e), m)
  BY <1>1, <1>3 DEF Once
<1>4. ASSUME e = m, At(q, m) = {} PROVE Once(Append(q, e), m)
  BY <1>1, <1>4 DEF Once, At
<1> QED BY <1>2, <1>3, <1>4, AtAppend

LEMMA ChunksTail ==
  ASSUME NEW S, NEW q \in Seq(S), q # <<>>, NEW t
  PROVE  \A i : i \in ChunksAt(Tail(q), t) <=> i \in 1 .. Len(q) - 1 /\ i + 1 \in ChunksAt(q, t)
<1>1. /\ Len(Tail(q)) = Len(q) - 1 /\ Len(q) \in Nat
      /\ \A i \in 1 .. Len(q) - 1 : Tail(q)[i] = q[i + 1]
  BY HeadTail
<1> QED BY <1>1 DEF ChunksAt

LEMMA ChunksAppend ==
  ASSUME NEW S, NEW q \in Seq(S), NEW e \in S, NEW t
  PROVE  \A i : i \in ChunksAt(Append(q, e), t) <=>
                  i \in ChunksAt(q, t) \/ (i = Len(q) + 1 /\ e.type = "chunk" /\ e.id = t)
BY AppendProperties DEF ChunksAt

\* Taking a message from a queue that carries the chunks of t.
LEMMA CarriesTail ==
  ASSUME NEW q \in Seq(AgentMsgs \cup PageMsgs), q # <<>>, NEW t, NEW c, NEW e,
         Carries(q, t, c, e)
  PROVE  /\ ~(Head(q).type = "chunk" /\ Head(q).id = t) => Carries(Tail(q), t, c, e)
         /\ Head(q).type = "chunk" /\ Head(q).id = t =>
              Head(q) = Chunk(t, c + 1) /\ c + 1 <= e /\ Carries(Tail(q), t, c + 1, e)
<1>1. /\ Len(Tail(q)) = Len(q) - 1 /\ Len(q) \in Nat \ {0} /\ Head(q) = q[1]
      /\ \A i \in 1 .. Len(q) - 1 : i + 1 \in 1 .. Len(q) /\ Tail(q)[i] = q[i + 1]
      /\ Head(q) \in AgentMsgs \cup PageMsgs
  BY HeadTail
<1>2. /\ c \in Nat /\ e \in Nat /\ c <= e
      /\ \A i \in ChunksAt(q, t) : q[i].n \in c + 1 .. e
      /\ \A i, j \in ChunksAt(q, t) : i < j => q[i].n < q[j].n
      /\ \A n \in c + 1 .. e : \E i \in 1 .. Len(q) : q[i] = Chunk(t, n)
  BY DEF Carries
<1>3. \A i \in ChunksAt(Tail(q), t) :
         i \in 1 .. Len(q) - 1 /\ i + 1 \in ChunksAt(q, t) /\ Tail(q)[i] = q[i + 1]
  BY <1>1, ChunksTail
<1>4. \A i, j \in ChunksAt(Tail(q), t) : i < j => Tail(q)[i].n < Tail(q)[j].n
  BY <1>2, <1>3
<1>5. CASE ~(Head(q).type = "chunk" /\ Head(q).id = t)
  <2>1. ASSUME NEW n \in c + 1 .. e PROVE \E i \in 1 .. Len(Tail(q)) : Tail(q)[i] = Chunk(t, n)
    <3>1. PICK i \in 1 .. Len(q) : q[i] = Chunk(t, n)
      BY <1>2
    <3>2. i # 1
      BY <1>1, <1>5, <3>1, MsgFields
    <3>3. i - 1 \in 1 .. Len(q) - 1 /\ (i - 1) + 1 = i
      BY <1>1, <3>2
    <3> QED BY <1>1, <3>1, <3>3
  <2>2. Carries(Tail(q), t, c, e)
    BY <1>2, <1>3, <1>4, <2>1 DEF Carries
  <2> QED BY <1>5, <2>2
<1>6. CASE Head(q).type = "chunk" /\ Head(q).id = t
  <2>1. 1 \in ChunksAt(q, t)
    BY <1>1, <1>6 DEF ChunksAt
  <2>2. Head(q) = Chunk(t, Head(q).n) /\ Head(q).n \in c + 1 .. e
    BY <1>1, <1>2, <1>6, <2>1, ChunkIs
  <2>3. Head(q).n = c + 1
    <3>1. PICK i \in 1 .. Len(q) : q[i] = Chunk(t, c + 1)
      BY <1>2, <2>2
    <3>2. i \in ChunksAt(q, t) /\ q[i].n = c + 1
      BY <3>1, MsgFields DEF ChunksAt
    <3> QED BY <1>1, <1>2, <2>1, <2>2, <3>2
  <2>4. \A i \in ChunksAt(Tail(q), t) : Tail(q)[i].n \in (c + 1) + 1 .. e
    <3> SUFFICES ASSUME NEW i \in ChunksAt(Tail(q), t)
                 PROVE  Tail(q)[i].n \in (c + 1) + 1 .. e
      OBVIOUS
    <3>1. i + 1 \in ChunksAt(q, t) /\ 1 < i + 1 /\ Tail(q)[i] = q[i + 1]
      BY <1>1, <1>3
    <3>2. q[i + 1].n \in c + 1 .. e /\ q[1].n < q[i + 1].n
      BY <1>2, <2>1, <3>1
    <3>3. q[1].n = c + 1 /\ q[i + 1].n \in Nat
      BY <1>1, <1>2, <2>3, <3>2
    <3>4. q[i + 1].n \in (c + 1) + 1 .. e
      BY <1>2, <3>2, <3>3
    <3> QED BY <3>1, <3>4
  <2>5. ASSUME NEW n \in (c + 1) + 1 .. e
        PROVE  \E i \in 1 .. Len(Tail(q)) : Tail(q)[i] = Chunk(t, n)
    <3>1. PICK i \in 1 .. Len(q) : q[i] = Chunk(t, n)
      BY <1>2
    <3>2. i # 1
      BY <1>1, <1>2, <2>3, <3>1, MsgFields
    <3>3. i - 1 \in 1 .. Len(q) - 1 /\ (i - 1) + 1 = i
      BY <1>1, <3>2
    <3> QED BY <1>1, <3>1, <3>3
  <2>6. c + 1 \in Nat /\ c + 1 <= e
    BY <1>2, <2>2
  <2>7. Carries(Tail(q), t, c + 1, e)
    BY <1>2, <1>4, <2>4, <2>5, <2>6 DEF Carries
  <2> QED BY <1>6, <2>2, <2>3, <2>6, <2>7
<1> QED BY <1>5, <1>6

\* Putting a message on a queue that carries the chunks of t.
LEMMA CarriesAppend ==
  ASSUME NEW q \in Seq(AgentMsgs \cup PageMsgs), NEW m \in AgentMsgs \cup PageMsgs,
         NEW t, NEW c, NEW e, Carries(q, t, c, e)
  PROVE  /\ ~(m.type = "chunk" /\ m.id = t) => Carries(Append(q, m), t, c, e)
         /\ m = Chunk(t, e + 1) => Carries(Append(q, m), t, c, e + 1)
<1> DEFINE r == Append(q, m)
<1>1. /\ Len(r) = Len(q) + 1 /\ Len(q) \in Nat /\ r[Len(q) + 1] = m
      /\ \A i \in 1 .. Len(q) : r[i] = q[i] /\ i \in 1 .. Len(r)
      /\ Len(q) + 1 \in 1 .. Len(r)
  BY AppendProperties
<1>2. /\ c \in Nat /\ e \in Nat /\ c <= e
      /\ \A i \in ChunksAt(q, t) : q[i].n \in c + 1 .. e
      /\ \A i, j \in ChunksAt(q, t) : i < j => q[i].n < q[j].n
      /\ \A n \in c + 1 .. e : \E i \in 1 .. Len(q) : q[i] = Chunk(t, n)
  BY DEF Carries
<1>3. \A i \in ChunksAt(r, t) : \/ i \in ChunksAt(q, t) /\ i \in 1 .. Len(q) /\ r[i] = q[i]
                                \/ i = Len(q) + 1 /\ m.type = "chunk" /\ m.id = t
  BY <1>1, ChunksAppend DEF ChunksAt
<1>4. \A n \in c + 1 .. e : \E i \in 1 .. Len(r) : r[i] = Chunk(t, n)
  BY <1>1, <1>2
<1> HIDE DEF r
<1>5. CASE ~(m.type = "chunk" /\ m.id = t)
  <2>1. Carries(r, t, c, e)
    BY <1>2, <1>3, <1>4, <1>5 DEF Carries
  <2>2. m # Chunk(t, e + 1)
    BY <1>5, MsgFields
  <2> QED BY <1>5, <2>1, <2>2 DEF r
<1>6. CASE m = Chunk(t, e + 1)
  <2>1. m.type = "chunk" /\ m.id = t /\ m.n = e + 1
    BY <1>6, MsgFields
  <2>2. \A i \in ChunksAt(r, t) : r[i].n \in c + 1 .. e + 1
    BY <1>1, <1>2, <1>3, <2>1
  <2>3. \A i, j \in ChunksAt(r, t) : i < j => r[i].n < r[j].n
    <3> SUFFICES ASSUME NEW i \in ChunksAt(r, t), NEW j \in ChunksAt(r, t), i < j
                 PROVE  r[i].n < r[j].n
      OBVIOUS
    <3>1. CASE j \in ChunksAt(q, t) /\ j \in 1 .. Len(q) /\ r[j] = q[j]
      <4>1. i \in ChunksAt(q, t) /\ r[i] = q[i]
        <5>1. i # Len(q) + 1
          BY <1>1, <3>1
        <5> QED BY <1>3, <5>1
      <4> QED BY <1>2, <3>1, <4>1
    <3>2. CASE j = Len(q) + 1
      <4>1. i \in ChunksAt(q, t) /\ r[i] = q[i]
        BY <1>3, <3>2
      <4>2. q[i].n \in c + 1 .. e
        BY <1>2, <4>1
      <4>3. r[i].n < e + 1
        BY <1>2, <4>1, <4>2
      <4>4. r[j].n = e + 1
        BY <1>1, <2>1, <3>2
      <4> QED BY <4>3, <4>4
    <3> QED BY <1>3, <3>1, <3>2
  <2>4. \A n \in c + 1 .. e + 1 : \E i \in 1 .. Len(r) : r[i] = Chunk(t, n)
    BY <1>1, <1>2, <1>4, <1>6
  <2>5. Carries(r, t, c, e + 1)
    BY <1>2, <2>2, <2>3, <2>4 DEF Carries
  <2> QED BY <1>6, <2>1, <2>5 DEF r
<1> QED BY <1>5, <1>6 DEF r

\* A queue without a chunk of t carries none, and one that carries none has none.
LEMMA CarriesNone ==
  ASSUME NEW q, NEW t, NEW c \in Nat, NEW e \in Nat
  PROVE  /\ ChunksAt(q, t) = {} => Carries(q, t, c, c)
         /\ Carries(q, t, c, e) /\ ChunksAt(q, t) = {} => c = e
         /\ Carries(q, t, c, c) => ChunksAt(q, t) = {}
<1>1. ASSUME ChunksAt(q, t) = {} PROVE Carries(q, t, c, c)
  BY <1>1 DEF Carries
<1>2. ASSUME Carries(q, t, c, e), ChunksAt(q, t) = {}, c # e PROVE FALSE
  <2>1. c <= e /\ \A n \in c + 1 .. e : \E i \in 1 .. Len(q) : q[i] = Chunk(t, n)
    BY <1>2 DEF Carries
  <2>2. PICK i \in 1 .. Len(q) : q[i] = Chunk(t, c + 1)
    BY <1>2, <2>1
  <2> QED BY <1>2, <2>2, MsgFields DEF ChunksAt
<1>3. ASSUME Carries(q, t, c, c) PROVE ChunksAt(q, t) = {}
  BY <1>3 DEF Carries
<1> QED BY <1>1, <1>2, <1>3

\* A piece grows by the chunk that follows it.
LEMMA PieceGrows ==
  ASSUME NEW S, NEW q \in Seq(S), NEW t, NEW c \in Nat, NEW k \in 1 .. c + 1,
         Piece(q, t, k, c), Chunk(t, c + 1) \in S
  PROVE  Piece(Append(q, Chunk(t, c + 1)), t, k, c + 1)
<1> DEFINE m == Chunk(t, c + 1)
           r == Append(q, m)
<1>1. /\ Len(r) = Len(q) + 1 /\ Len(q) \in Nat /\ r[Len(q) + 1] = m
      /\ \A i \in 1 .. Len(q) : r[i] = q[i]
  BY AppendProperties
<1>2. Len(q) = c + 1 - k /\ \A i \in 1 .. Len(q) : q[i] = Chunk(t, k + i - 1)
  BY DEF Piece
<1>3. Len(r) = (c + 1) + 1 - k
  BY <1>1, <1>2
<1>4. ASSUME NEW i \in 1 .. Len(r) PROVE r[i] = Chunk(t, k + i - 1)
  <2>1. CASE i \in 1 .. Len(q)
    BY <1>1, <1>2, <2>1
  <2>2. CASE i = Len(q) + 1
    <3>1. k + i - 1 = c + 1
      BY <1>2, <2>2
    <3> QED BY <1>1, <2>2, <3>1
  <2> QED BY <1>1, <2>1, <2>2
<1> QED BY <1>3, <1>4 DEF Piece

LEMMA EmptyPiece ==
  ASSUME NEW t, NEW c \in Nat
  PROVE  c + 1 \in 1 .. c + 1 /\ Piece(<<>>, t, c + 1, c)
BY DEF Piece

-------------------------------------------------------------------------------
(* What was asked for, what is shown.                                       *)

\* The agent is told to cancel only what the user has cancelled.
CancelsAsked == \A t \in Transfers : At(toAgent, Cancels(t)) # {} => t \in cancelled

\* A download is asked for once, and not again once its task runs.
DownloadsAsked ==
  \A d \in Downloads :
    /\ stream[d].state # "none" \/ At(toAgent, Begins(d)) # {} => d \in started
    /\ stream[d].state # "none" => At(toAgent, Begins(d)) = {}
    /\ Once(toAgent, Begins(d))

\* An upload is asked for once, and is not reported before it is over.
UploadsAsked ==
  \A u \in Uploads :
    /\ At(toAgent, Begin(u)) # {} \/ Reported(u) \/ u \in {active, transfer.id, transferRef.id}
         => u \in started
    /\ Once(toAgent, Begin(u))
    /\ At(toAgent, Begin(u)) # {} => active # u
    /\ At(toAgent, Begin(u)) # {} \/ active = u => ~Reported(u)

\* The upload that is shown is the one that was selected last.
UploadShown ==
  /\ transfer.id \in Uploads => transferRef.id = transfer.id
  /\ transferRef.id \in Uploads => uploadFile = transferRef.id

HistoryInv == CancelsAsked /\ DownloadsAsked /\ UploadsAsked /\ UploadShown

\* The channel to the agent: what the user sends, what the loops send, what the
\* agent takes.
LEMMA AgentQueue ==
  ASSUME IInv, [Next]_vars
  PROVE  \/ UNCHANGED <<toAgent, agent>>
         \/ /\ \/ \E d \in Downloads : SelectDownload(d) /\ toAgent' = Append(toAgent, Begins(d))
               \/ \E u \in Uploads : SelectUpload(u) /\ toAgent' = Append(toAgent, Begin(u))
               \/ Cancel /\ transferRef.id \in Transfers
                         /\ toAgent' = Append(toAgent, Cancels(transferRef.id))
            /\ UNCHANGED agent
         \/ /\ PageReady \/ \E u \in Uploads : Loop(u)
            /\ \A m : m.type \notin {"chunk", "upload:complete"} =>
                      At(toAgent', m) = At(toAgent, m) /\ (Once(toAgent, m) => Once(toAgent', m))
            /\ UNCHANGED <<agent, started, cancelled, transfer, transferRef, uploadFile>>
         \/ /\ AgentReceives /\ UNCHANGED page
            /\ toAgent # <<>> /\ toAgent' = Tail(toAgent)
            /\ Head(toAgent) \in AgentMsgs
         \/ /\ SendInfo \/ \E d \in Downloads : Stream(d)
            /\ UNCHANGED <<toAgent, page>>
<1> DEFINE Kept(q) ==
      \A m : m.type \notin {"chunk", "upload:complete"} =>
               At(q, m) = At(toAgent, m) /\ (Once(toAgent, m) => Once(q, m))
<1>1. toAgent \in Seq(AgentMsgs) /\ transferRef \in States
  BY DEF IInv, TransferTypeOK
<1>2. ASSUME NEW q \in Seq(AgentMsgs), Kept(q), NEW u, NEW f, NEW off, SendNextChunk(u, f, off, q)
      PROVE  Kept(toAgent')
  <2>1. CASE toAgent' = q
    BY <1>2, <2>1
  <2>2. CASE transferRef # Nothing /\ toAgent' = Append(q, Complete(transferRef.id))
    <3>1. Complete(transferRef.id) \in AgentMsgs /\ Complete(transferRef.id).type = "upload:complete"
      BY <1>1, <2>2, StateTypes, AgentMsgTypes, MsgFields DEF Complete
    <3> QED BY <1>2, <2>2, <3>1, AppendAt
  <2> QED BY <1>2, <2>1, <2>2 DEF SendNextChunk, Complete
<1>3. CASE User
  <2>1. CASE Cancel
    BY <1>1, <2>1, StateTypes DEF Cancel, Cancels
  <2> QED BY <1>3, <2>1 DEF User, SelectDownload, SelectUpload, Begins, Begin
<1>4. CASE PageReady
  <2>1. SendNextChunk(PageId, uploadFile, 0, toAgent)
        /\ UNCHANGED <<agent, started, cancelled, transfer, transferRef, uploadFile>>
    BY <1>4 DEF PageReady
  <2> QED BY <1>1, <1>2, <1>4, <2>1
<1>5. ASSUME NEW u \in Uploads, Loop(u)
      PROVE  Kept(toAgent') /\ UNCHANGED <<agent, started, cancelled, transfer, transferRef, uploadFile>>
  <2>1. CASE LoopResume(u)
    BY <1>1, <1>2, <2>1 DEF LoopResume
  <2>2. CASE LoopSend(u)
    <3>1. loop[u].file \in Uploads /\ loop[u].at \in Nat
      BY <2>2 DEF LoopSend, IInv, TransferTypeOK, FileSelected
    <3> DEFINE m == Chunk(loop[u].file, loop[u].at + 1)
               q == Append(toAgent, m)
    <3>2. m \in AgentMsgs /\ m.type = "chunk" /\ q \in Seq(AgentMsgs)
      BY <1>1, <3>1, AgentMsgTypes, MsgFields, Appended DEF Transfers
    <3>3. Kept(q)
      BY <1>1, <3>2, AppendAt
    <3>4. SendNextChunk(u, loop[u].file, uploadOffset + 1, q)
          /\ UNCHANGED <<agent, started, cancelled, transfer, transferRef, uploadFile>>
      BY <2>2 DEF LoopSend
    <3> QED BY <1>2, <3>2, <3>3, <3>4
  <2> QED BY <1>5, <2>1, <2>2 DEF Loop
<1>6. CASE AgentReceives
  <2>1. CASE SendInfo
    BY <2>1 DEF SendInfo
  <2>2. CASE ~SendInfo
    <3>1. \E type : AgentTakes(type) /\ UNCHANGED page
      BY <1>6, <2>2 DEF AgentReceives, RecvUploadStart, RecvChunk, RecvUploadComplete,
                       RecvDownloadStart, RecvCancel
    <3> QED BY <1>1, <1>6, <3>1, HeadTail DEF AgentTakes
  <2> QED BY <2>1, <2>2
<1>7. CASE \E d \in Downloads : Stream(d)
  BY <1>7 DEF Stream, StreamChunk, StreamComplete, StreamFail, StreamRelease
<1>8. CASE Render \/ UNCHANGED vars
  BY <1>8 DEF Render, vars, page, agent
<1>9. CASE PageReceives /\ ~PageReady
  BY <1>9 DEF PageReceives, PageError, PageFinished, PageInfo, PageChunk, PageComplete
<1> QED BY <1>3, <1>4, <1>5, <1>6, <1>7, <1>8, <1>9 DEF Next

\* A download has begun: its task runs and its handler owes download:info.
Spawned(d) ==
  /\ infoDue = NoTransfer /\ active = NoTransfer
  /\ toAgent # <<>> /\ Head(toAgent) = Begins(d) /\ toAgent' = Tail(toAgent)
  /\ active' = d /\ infoDue' = d
  /\ stream' = [stream EXCEPT ![d].state = "running"]
  /\ UNCHANGED <<toPage, page, stored>>

\* An upload was accepted.
Accepted(u) ==
  /\ infoDue = NoTransfer /\ active = NoTransfer
  /\ toAgent # <<>> /\ Head(toAgent) = Begin(u) /\ toAgent' = Tail(toAgent)
  /\ active' = u /\ stored' = [stored EXCEPT ![u] = <<>>]
  /\ toPage' = Append(toPage, Ready(u))
  /\ UNCHANGED <<page, stream, infoDue>>

\* The upload in progress is over, whole or not.
Completed(u) ==
  /\ active = u /\ active' = NoTransfer
  /\ toAgent # <<>> /\ Head(toAgent) = Complete(u) /\ toAgent' = Tail(toAgent)
  /\ \/ /\ Len(stored[u]) = Size[u] /\ UNCHANGED stored
        /\ toPage' = Append(toPage, Finished(u))
     \/ /\ stored' = [stored EXCEPT ![u] = <<>>]
        /\ toPage' = Append(toPage, Msg("file:error", u))
  /\ UNCHANGED <<page, stream, infoDue>>

\* A message was dropped or refused.
Ignored ==
  /\ toAgent # <<>> /\ toAgent' = Tail(toAgent)
  /\ Head(toAgent).type \in {"upload:start", "download:start", "upload:complete"}
  /\ \/ UNCHANGED toPage
     \/ \E t \in Transfers : toPage' = Append(toPage, Msg("file:error", t))
  /\ Head(toAgent).type = "upload:complete" =>
       active \notin Uploads \/ Head(toAgent) # Complete(active)
  /\ UNCHANGED <<page, agent>>

LEMMA AgentSteps ==
  ASSUME IInv, AgentReceives
  PROVE  \/ \E d \in Downloads : Spawned(d)
         \/ \E u \in Uploads : Accepted(u) \/ Completed(u)
         \/ Ignored
         \/ RecvChunk \/ RecvCancel \/ SendInfo
<1> DEFINE m == Head(toAgent)
<1>1. ASSUME NEW type, AgentTakes(type)
      PROVE  /\ infoDue = NoTransfer /\ m \in AgentMsgs /\ m.type = type
             /\ toAgent # <<>> /\ toAgent' = Tail(toAgent)
             /\ type # "chunk" => m = Msg(type, m.id)
             /\ m.id \in Transfers
             /\ type = "upload:start" => m.id \in Uploads
             /\ type = "download:start" => m.id \in Downloads
  BY <1>1, AgentTaking, AgentMsgTypes, MsgIs DEF AgentTakes
<1>2. CASE RecvDownloadStart
  <2>1. AgentTakes("download:start") /\ UNCHANGED page
    BY <1>2 DEF RecvDownloadStart
  <2>2. CASE Conflict \/ Refuse
    BY <1>1, <2>1, <2>2 DEF Conflict, Refuse, Answer, AgentId, Ignored
  <2>3. CASE /\ active = NoTransfer
             /\ active' = AgentId
             /\ stream' = [stream EXCEPT ![AgentId].state = "running"]
             /\ infoDue' = AgentId
             /\ UNCHANGED <<toPage, stored>>
    <3>1. Spawned(m.id) /\ m.id \in Downloads
      BY <1>1, <2>1, <2>3 DEF Spawned, AgentId, Begins
    <3> QED BY <3>1
  <2> QED BY <1>2, <2>2, <2>3, Zenon DEF RecvDownloadStart
<1>3. CASE RecvUploadStart
  <2>1. AgentTakes("upload:start") /\ UNCHANGED page
    BY <1>3 DEF RecvUploadStart
  <2>2. CASE Conflict \/ Refuse
    BY <1>1, <2>1, <2>2 DEF Conflict, Refuse, Answer, AgentId, Ignored
  <2>3. CASE /\ active = NoTransfer
             /\ active' = AgentId
             /\ stored' = [stored EXCEPT ![AgentId] = <<>>]
             /\ Answer("upload:ready")
             /\ UNCHANGED <<stream, infoDue>>
    <3>1. Accepted(m.id) /\ m.id \in Uploads
      BY <1>1, <2>1, <2>3 DEF Accepted, AgentId, Begin, Answer, Ready
    <3> QED BY <3>1
  <2> QED BY <1>3, <2>2, <2>3, Zenon DEF RecvUploadStart
<1>4. CASE RecvUploadComplete
  <2>1. AgentTakes("upload:complete") /\ UNCHANGED <<page, stream, infoDue>>
    BY <1>4 DEF RecvUploadComplete
  <2>2. CASE Completes(AgentId)
    <3>1. active \in Uploads /\ m.id = active /\ m = Complete(active) /\ AgentId = active
      BY <1>1, <2>1, <2>2 DEF Completes, AgentId, Complete
    <3>2. Completed(active)
      BY <1>1, <1>4, <2>1, <2>2, <3>1 DEF RecvUploadComplete, Completed, Answer, Finished
    <3> QED BY <3>1, <3>2
  <2>3. CASE ~Completes(AgentId)
    <3>1. active \notin Uploads \/ m # Complete(active)
      BY <2>3, MsgFields DEF Completes, AgentId, Complete
    <3>2. Ignored
      BY <1>1, <1>4, <2>1, <2>3, <3>1 DEF RecvUploadComplete, Ignored, agent
    <3> QED BY <3>2
  <2> QED BY <2>2, <2>3
<1> QED BY <1>2, <1>3, <1>4 DEF AgentReceives

\* The channel to the page: what the page takes, what the agent and its tasks send.
LEMMA PageQueue ==
  ASSUME IInv, [Next]_vars
  PROVE  \/ UNCHANGED toPage
         \/ /\ PageReceives /\ UNCHANGED agent
            /\ toPage # <<>> /\ toPage' = Tail(toPage) /\ Head(toPage) \in PageMsgs
         \/ \E m \in PageMsgs :
              /\ toPage' = Append(toPage, m) /\ UNCHANGED page
              /\ \/ m.type = "file:error"
                 \/ \E u \in Uploads : \/ Accepted(u) /\ m = Ready(u)
                                       \/ Completed(u) /\ m = Finished(u)
                 \/ SendInfo /\ infoDue \in Downloads /\ m = Info(infoDue)
                 \/ \E d \in Downloads : \/ StreamChunk(d) /\ m = Chunk(d, stream[d].sent + 1)
                                         \/ StreamComplete(d) /\ m = End(d)
<1>1. toPage \in Seq(PageMsgs) /\ TransferTypeOK
  BY DEF IInv, TransferTypeOK
<1>2. CASE PageReceives
  <2>1. \E type : PageTakes(type)
    BY <1>2 DEF PageReceives, PageError, PageReady, PageFinished, PageInfo, PageChunk, PageComplete
  <2>2. UNCHANGED agent
    BY <1>2 DEF PageReceives, PageError, PageReady, PageFinished, PageInfo, PageChunk, PageComplete
  <2> QED BY <1>1, <1>2, <2>1, <2>2, HeadTail DEF PageTakes
<1>3. \A t \in Transfers : Msg("file:error", t) \in PageMsgs /\ Msg("file:error", t).type = "file:error"
  BY PageMsgTypes, MsgFields
<1>4. CASE AgentReceives
  <2>1. CASE Ignored
    BY <1>3, <2>1 DEF Ignored
  <2>2. ASSUME NEW u \in Uploads, Accepted(u) PROVE Ready(u) \in PageMsgs /\ toPage' = Append(toPage, Ready(u)) /\ UNCHANGED page
    BY <2>2, PageMsgTypes DEF Accepted, Ready
  <2>3. ASSUME NEW u \in Uploads, Completed(u)
        PROVE  /\ Finished(u) \in PageMsgs /\ Msg("file:error", u) \in PageMsgs /\ UNCHANGED page
               /\ toPage' = Append(toPage, Finished(u)) \/ toPage' = Append(toPage, Msg("file:error", u))
    BY <2>3, PageMsgTypes DEF Completed, Finished, Transfers
  <2>4. CASE SendInfo
    <3>1. infoDue \in Downloads /\ UNCHANGED page /\ toPage' = Append(toPage, Info(infoDue))
      BY <1>1, <2>4 DEF SendInfo, TransferTypeOK, Info
    <3>2. Info(infoDue) \in PageMsgs
      BY <3>1, PageMsgTypes DEF Info
    <3> QED BY <2>4, <3>1, <3>2
  <2>5. CASE RecvChunk \/ RecvCancel \/ \E d \in Downloads : Spawned(d)
    BY <2>5 DEF RecvChunk, RecvCancel, Spawned
  <2>6. CASE \E u \in Uploads : Accepted(u)
    BY <2>2, <2>6
  <2>7. CASE \E u \in Uploads : Completed(u)
    <3>1. PICK u \in Uploads : Completed(u)
      BY <2>7
    <3> QED BY <1>3, <2>3, <3>1, MsgFields
  <2> QED BY <1>4, <2>1, <2>4, <2>5, <2>6, <2>7, AgentSteps
<1>5. ASSUME NEW d \in Downloads, Stream(d)
      PROVE  \/ UNCHANGED toPage
             \/ \E m \in PageMsgs :
                  /\ toPage' = Append(toPage, m) /\ UNCHANGED page
                  /\ \/ m.type = "file:error"
                     \/ StreamChunk(d) /\ m = Chunk(d, stream[d].sent + 1)
                     \/ StreamComplete(d) /\ m = End(d)
  <2>1. d \in Transfers /\ stream[d].sent \in Nat /\ stream[d].sent + 1 \in Nat
    BY <1>1 DEF TransferTypeOK, Transfers
  <2>2. Chunk(d, stream[d].sent + 1) \in PageMsgs /\ End(d) \in PageMsgs
    BY <2>1, PageMsgTypes DEF End
  <2> QED BY <1>3, <1>5, <2>1, <2>2 DEF Stream, StreamChunk, StreamComplete, StreamFail,
             StreamRelease, End
<1>6. CASE User \/ Render \/ UNCHANGED vars \/ \E u \in Uploads : Loop(u)
  BY <1>6 DEF User, SelectDownload, SelectUpload, Cancel, Render, vars, Loop, LoopResume, LoopSend
<1> QED BY <1>2, <1>4, <1>5, <1>6 DEF Next

\* An upload is reported when it was whole and in progress.
LEMMA ReportedStep ==
  ASSUME IInv, [Next]_vars, NEW u \in Uploads, Reported(u)', ~Reported(u)
  PROVE  Completed(u) /\ Len(stored[u]) = Size[u] /\ UNCHANGED stored
<1>1. toPage \in Seq(PageMsgs) /\ Uploads \cap Downloads = {}
  BY KindsAssumption DEF IInv, TransferTypeOK
<1>2. Reported(u)' <=> At(toPage', Finished(u)) # {} \/ transfer' = Shown(u, "done")
  BY DEF Reported, At, Finished
<1>3. Reported(u) <=> At(toPage, Finished(u)) # {} \/ transfer = Shown(u, "done")
  BY DEF Reported, At, Finished
<1>4. transfer' # Shown(u, "done")
  <2>1. CASE PageReceives
    <3>1. CASE PageFinished
      <4>1. Head(toPage) \in PageMsgs /\ Head(toPage).type = "upload:finished" /\ toPage # <<>>
        BY <3>1, PageTaking DEF PageFinished, PageTakes
      <4>2. Head(toPage) = Msg("upload:finished", PageId)
        BY <4>1, MsgIs DEF PageId
      <4>3. Head(toPage) # Finished(u)
        BY <1>1, <1>3, <4>1, TailAt
      <4> QED BY <1>3, <3>1, <4>2, <4>3 DEF PageFinished, Finished, Shown
    <3>2. CASE PageComplete
      <4>1. PageId \in Downloads
        BY <3>2, PageTaking, PageMsgTypes DEF PageComplete, PageId
      <4> QED BY <1>1, <1>3, <3>2, <4>1 DEF PageComplete, Shown
    <3>3. CASE PageError \/ PageReady \/ PageInfo \/ PageChunk
      BY <1>3, <3>3 DEF PageError, PageReady, PageInfo, PageChunk, Shown
    <3> QED BY <2>1, <3>1, <3>2, <3>3 DEF PageReceives
  <2>2. CASE User
    BY <1>3, <2>2 DEF User, SelectDownload, SelectUpload, Cancel, Show, Shown
  <2>3. CASE AgentReceives \/ \E d \in Downloads : Stream(d)
    BY <1>3, <2>3 DEF AgentReceives, RecvUploadStart, RecvChunk, RecvUploadComplete, SendInfo,
       RecvDownloadStart, RecvCancel, Stream, StreamChunk, StreamComplete, StreamFail,
       StreamRelease, page
  <2>4. CASE Render \/ UNCHANGED vars \/ \E v \in Uploads : Loop(v)
    BY <1>3, <2>4 DEF Render, vars, page, Loop, LoopResume, LoopSend
  <2> QED BY <2>1, <2>2, <2>3, <2>4 DEF Next
<1>5. At(toPage', Finished(u)) # {} /\ At(toPage, Finished(u)) = {}
  BY <1>2, <1>3, <1>4
<1>6. toPage' # toPage /\ ~(toPage # <<>> /\ toPage' = Tail(toPage))
  BY <1>1, <1>5, TailAt
<1>7. PICK m \in PageMsgs :
        /\ toPage' = Append(toPage, m)
        /\ \/ m.type = "file:error"
           \/ \E v \in Uploads : \/ Accepted(v) /\ m = Ready(v)
                                 \/ Completed(v) /\ m = Finished(v)
           \/ SendInfo /\ infoDue \in Downloads /\ m = Info(infoDue)
           \/ \E d \in Downloads : \/ StreamChunk(d) /\ m = Chunk(d, stream[d].sent + 1)
                                   \/ StreamComplete(d) /\ m = End(d)
  BY <1>6, PageQueue
<1>8. m = Finished(u)
  BY <1>1, <1>5, <1>7, AppendAt
<1>9. m.type = "upload:finished" /\ m.id = u
  BY <1>8, MsgFields DEF Finished
<1>10. Completed(u)
  BY <1>7, <1>9, MsgFields DEF Ready, Finished, Info, End
<1>11. toPage' # Append(toPage, Msg("file:error", u))
  <2>1. Msg("file:error", u) \in PageMsgs /\ Msg("file:error", u) # Finished(u)
    BY PageMsgTypes, MsgFields DEF Finished, Transfers
  <2>2. At(Append(toPage, Msg("file:error", u)), Finished(u)) = At(toPage, Finished(u))
    BY <1>1, <2>1, AppendAt
  <2> QED BY <1>5, <2>2
<1> QED BY <1>10, <1>11 DEF Completed

\* What becomes the upload in progress was accepted.
LEMMA ActiveStep ==
  ASSUME IInv, [Next]_vars, NEW u \in Uploads, active' = u, active # u
  PROVE  Accepted(u)
<1>1. Uploads \cap Downloads = {} /\ NoTransfer \notin Uploads
  BY KindsAssumption DEF Transfers
<1>2. CASE UNCHANGED agent
  BY <1>2 DEF agent
<1>3. CASE AgentReceives
  BY <1>1, <1>2, <1>3, AgentSteps DEF Spawned, Accepted, Completed, Ignored, RecvChunk, RecvCancel,
     SendInfo
<1>4. CASE \E d \in Downloads : Stream(d)
  BY <1>1, <1>4 DEF Stream, StreamChunk, StreamComplete, StreamFail, StreamRelease
<1>5. CASE SendInfo
  BY <1>5 DEF SendInfo
<1> QED BY <1>2, <1>3, <1>4, <1>5, AgentQueue

\* What is shown was shown before, is a download that was announced, or was
\* selected.
LEMMA ShownStep ==
  ASSUME IInv, [Next]_vars
  PROVE  \/ UNCHANGED <<transfer, transferRef, uploadFile>>
         \/ \E u \in Uploads : SelectUpload(u)
         \/ Cancel /\ transferRef'.id = transferRef.id /\ transfer'.id = transferRef.id
                   /\ UNCHANGED uploadFile
         \/ Render /\ transferRef' = transfer /\ UNCHANGED <<transfer, uploadFile>>
         \/ /\ PageError \/ PageFinished
            /\ transfer'.id = transfer.id /\ UNCHANGED <<transferRef, uploadFile>>
         \/ PageInfo /\ PageId \in Downloads /\ Head(toPage) = Info(PageId)
                     /\ transfer'.id = PageId /\ UNCHANGED <<transferRef, uploadFile>>
         \/ /\ PageComplete /\ PageId \in Downloads /\ Head(toPage) = End(PageId)
            /\ transferRef.id = PageId /\ transfer'.id = PageId
            /\ UNCHANGED <<transferRef, uploadFile>>
<1>1. CASE PageReceives
  <2>1. CASE PageError \/ PageFinished
    BY <2>1 DEF PageError, PageFinished, Shown
  <2>2. CASE PageInfo
    <3>1. Head(toPage) \in PageMsgs /\ Head(toPage).type = "download:info"
      BY <2>2, PageTaking DEF PageInfo
    <3>2. PageId \in Downloads /\ Head(toPage) = Info(PageId)
      BY <3>1, PageMsgTypes, MsgIs DEF PageId, Info
    <3> QED BY <2>2, <3>2 DEF PageInfo, Shown
  <2>3. CASE PageComplete
    <3>1. Head(toPage) \in PageMsgs /\ Head(toPage).type = "download:complete"
      BY <2>3, PageTaking DEF PageComplete
    <3>2. PageId \in Downloads /\ Head(toPage) = End(PageId)
      BY <3>1, PageMsgTypes, MsgIs DEF PageId, End
    <3> QED BY <2>3, <3>2 DEF PageComplete, Shown
  <2> QED BY <1>1, <2>1, <2>2, <2>3 DEF PageReceives, PageReady, PageChunk
<1>2. CASE User
  BY <1>2 DEF User, SelectDownload, Cancel, Show, Shown
<1>3. CASE AgentReceives \/ \E d \in Downloads : Stream(d)
  BY <1>3 DEF AgentReceives, RecvUploadStart, RecvChunk, RecvUploadComplete, SendInfo,
     RecvDownloadStart, RecvCancel, Stream, StreamChunk, StreamComplete, StreamFail,
     StreamRelease, page
<1>4. CASE Render \/ UNCHANGED vars \/ \E v \in Uploads : Loop(v)
  BY <1>4 DEF Render, vars, page, Loop, LoopResume, LoopSend
<1> QED BY <1>1, <1>2, <1>3, <1>4 DEF Next

\* What was started or cancelled once is remembered.
LEMMA Grows == [Next]_vars => started \subseteq started' /\ cancelled \subseteq cancelled'
BY DEF Next, User, SelectDownload, SelectUpload, Start,
     Cancel, Render, PageReceives,
     PageError, PageReady, PageFinished, PageInfo, PageChunk, PageComplete, Loop, LoopResume,
     LoopSend, AgentReceives, RecvUploadStart, RecvChunk, RecvUploadComplete, RecvDownloadStart,
     SendInfo, RecvCancel, Stream, StreamChunk, StreamComplete, StreamFail, StreamRelease,
     vars, page

LEMMA CancelsAskedStep == IInv /\ CancelsAsked /\ [Next]_vars => CancelsAsked'
<1> SUFFICES ASSUME IInv, CancelsAsked, [Next]_vars, NEW t \in Transfers,
                    At(toAgent', Cancels(t)) # {}
             PROVE  t \in cancelled'
  BY DEF CancelsAsked
<1>1. toAgent \in Seq(AgentMsgs) /\ cancelled \subseteq cancelled'
  BY Grows DEF IInv, TransferTypeOK
<1>2. SUFFICES ASSUME At(toAgent, Cancels(t)) = {} PROVE t \in cancelled'
  BY <1>1 DEF CancelsAsked
<1>3. Cancels(t).type = "transfer:cancel"
  BY MsgFields DEF Cancels
<1>4. ASSUME NEW m \in AgentMsgs, toAgent' = Append(toAgent, m) PROVE m = Cancels(t)
  BY <1>1, <1>2, <1>4, AppendAt
<1>5. /\ \A d \in Downloads : Begins(d) \in AgentMsgs /\ Begins(d) # Cancels(t)
      /\ \A u \in Uploads : Begin(u) \in AgentMsgs /\ Begin(u) # Cancels(t)
  BY AgentMsgTypes, MsgFields DEF Begins, Begin, Cancels
<1>6. CASE Cancel /\ transferRef.id \in Transfers /\ toAgent' = Append(toAgent, Cancels(transferRef.id))
  <2>1. Cancels(transferRef.id) = Cancels(t)
    BY <1>4, <1>6, AgentMsgTypes DEF Cancels
  <2>2. transferRef.id = t
    BY <2>1, MsgFields DEF Cancels
  <2> QED BY <1>6, <2>2 DEF Cancel
<1>7. toAgent' # toAgent /\ ~(toAgent # <<>> /\ toAgent' = Tail(toAgent))
  BY <1>1, <1>2, TailAt
<1> QED BY <1>2, <1>3, <1>4, <1>5, <1>6, <1>7, AgentQueue

LEMMA DownloadsAskedStep == IInv /\ DownloadsAsked /\ [Next]_vars => DownloadsAsked'
<1> SUFFICES ASSUME IInv, DownloadsAsked, [Next]_vars, NEW d \in Downloads
             PROVE  /\ stream'[d].state # "none" \/ At(toAgent', Begins(d)) # {} => d \in started'
                    /\ stream'[d].state # "none" => At(toAgent', Begins(d)) = {}
                    /\ Once(toAgent', Begins(d))
  BY DEF DownloadsAsked
<1> DEFINE m == Begins(d)
<1>1. /\ toAgent \in Seq(AgentMsgs) /\ started \subseteq started'
      /\ stream \in [Downloads -> [state : {"none", "running", "ending", "ended"}, sent : Nat]]
  BY Grows DEF IInv, TransferTypeOK
<1>2. /\ stream[d].state # "none" \/ At(toAgent, m) # {} => d \in started
      /\ stream[d].state # "none" => At(toAgent, m) = {}
      /\ Once(toAgent, m)
  BY DEF DownloadsAsked
<1>3. m.type = "download:start" /\ m.id = d
  BY MsgFields DEF Begins
<1> HIDE DEF m
<1>4. CASE UNCHANGED <<toAgent, agent>>
  BY <1>1, <1>2, <1>4 DEF agent, m
<1>5. ASSUME NEW e \in Downloads, SelectDownload(e), toAgent' = Append(toAgent, Begins(e)), UNCHANGED agent
      PROVE  /\ stream'[d].state # "none" \/ At(toAgent', m) # {} => d \in started'
             /\ stream'[d].state # "none" => At(toAgent', m) = {}
             /\ Once(toAgent', m)
  <2>1. stream' = stream /\ e \notin started /\ e \in started' /\ Begins(e) \in AgentMsgs
    BY <1>5, AgentMsgTypes DEF agent, SelectDownload, Start, Begins
  <2>2. CASE e = d
    BY <1>1, <1>2, <1>5, <2>1, <2>2, AppendAt DEF m
  <2>3. CASE e # d
    <3>1. Begins(e) # m
      BY <1>3, <2>3, MsgFields DEF Begins
    <3> QED BY <1>1, <1>2, <1>5, <2>1, <3>1, AppendAt
  <2> QED BY <2>2, <2>3
<1>6. ASSUME NEW e \in AgentMsgs, e.type # "download:start", toAgent' = Append(toAgent, e), UNCHANGED agent
      PROVE  /\ stream'[d].state # "none" \/ At(toAgent', m) # {} => d \in started'
             /\ stream'[d].state # "none" => At(toAgent', m) = {}
             /\ Once(toAgent', m)
  BY <1>1, <1>2, <1>3, <1>6, AppendAt DEF agent
<1>7. /\ \A u \in Uploads : Begin(u) \in AgentMsgs /\ Begin(u).type # "download:start"
      /\ \A t \in Transfers : Cancels(t) \in AgentMsgs /\ Cancels(t).type # "download:start"
  BY AgentMsgTypes, MsgFields DEF Begin, Cancels
<1>8. ASSUME \A e : e.type \notin {"chunk", "upload:complete"} =>
                      At(toAgent', e) = At(toAgent, e) /\ (Once(toAgent, e) => Once(toAgent', e)),
             UNCHANGED agent
      PROVE  /\ stream'[d].state # "none" \/ At(toAgent', m) # {} => d \in started'
             /\ stream'[d].state # "none" => At(toAgent', m) = {}
             /\ Once(toAgent', m)
  BY <1>1, <1>2, <1>3, <1>8 DEF agent
<1>9. CASE AgentReceives /\ toAgent # <<>> /\ toAgent' = Tail(toAgent)
  <2>1. stream'[d].state # stream[d].state => Head(toAgent) = m
    BY <1>1, <1>9, AgentSteps DEF Spawned, Accepted, Completed, Ignored, RecvChunk, RecvCancel,
       SendInfo, agent, m
  <2> QED BY <1>1, <1>2, <1>9, <2>1, TailAt DEF m
<1>10. CASE (SendInfo \/ \E e \in Downloads : Stream(e)) /\ UNCHANGED <<toAgent, page>>
  <2>1. stream'[d].state # "none" => stream[d].state # "none"
    BY <1>1, <1>10 DEF SendInfo, Stream, StreamChunk, StreamComplete, StreamFail, StreamRelease
  <2> QED BY <1>1, <1>2, <1>10, <2>1 DEF m
<1> QED BY <1>4, <1>5, <1>6, <1>7, <1>8, <1>9, <1>10, AgentQueue DEF m

LEMMA UploadsAskedStep == IInv /\ UploadsAsked /\ [Next]_vars => UploadsAsked'
<1> SUFFICES ASSUME IInv, UploadsAsked, [Next]_vars, NEW u \in Uploads
             PROVE  /\ At(toAgent', Begin(u)) # {} \/ Reported(u)'
                         \/ u \in {active', transfer'.id, transferRef'.id} => u \in started'
                    /\ Once(toAgent', Begin(u))
                    /\ At(toAgent', Begin(u)) # {} => active' # u
                    /\ At(toAgent', Begin(u)) # {} \/ active' = u => ~Reported(u)'
  BY DEF UploadsAsked
<1> DEFINE m == Begin(u)
<1>1. /\ toAgent \in Seq(AgentMsgs) /\ started \subseteq started'
      /\ Uploads \cap Downloads = {} /\ NoTransfer \notin Uploads
  BY KindsAssumption, Grows DEF Transfers, IInv, TransferTypeOK
<1>2. /\ At(toAgent, m) # {} \/ Reported(u) \/ u \in {active, transfer.id, transferRef.id}
           => u \in started
      /\ Once(toAgent, m)
      /\ At(toAgent, m) # {} => active # u
      /\ At(toAgent, m) # {} \/ active = u => ~Reported(u)
  BY DEF UploadsAsked
<1>3. m.type = "upload:start" /\ m.id = u
  BY MsgFields DEF Begin
<1> HIDE DEF m
<1>4. /\ Once(toAgent', m)
      /\ At(toAgent', m) # {} => At(toAgent, m) # {} \/ (SelectUpload(u) /\ UNCHANGED agent)
  <2>1. ASSUME NEW e \in AgentMsgs, e # m, toAgent' = Append(toAgent, e)
        PROVE  Once(toAgent', m) /\ At(toAgent', m) = At(toAgent, m)
    BY <1>1, <1>2, <2>1, AppendAt
  <2>2. /\ \A d \in Downloads : Begins(d) \in AgentMsgs /\ Begins(d) # m
        /\ \A t \in Transfers : Cancels(t) \in AgentMsgs /\ Cancels(t) # m
        /\ \A v \in Uploads : Begin(v) \in AgentMsgs /\ (v # u => Begin(v) # m)
    BY <1>3, AgentMsgTypes, MsgFields DEF Begins, Cancels, Begin
  <2>3. ASSUME SelectUpload(u), toAgent' = Append(toAgent, Begin(u)), UNCHANGED agent
        PROVE  Once(toAgent', m)
    <3>1. At(toAgent, m) = {}
      BY <1>2, <2>3 DEF SelectUpload, Start
    <3> QED BY <1>1, <2>2, <2>3, <3>1, AppendAt DEF m
  <2>4. CASE toAgent' = toAgent
    BY <1>2, <2>4
  <2>5. CASE toAgent # <<>> /\ toAgent' = Tail(toAgent)
    BY <1>1, <1>2, <2>5, TailAt
  <2>6. CASE \A e : e.type \notin {"chunk", "upload:complete"} =>
                      At(toAgent', e) = At(toAgent, e) /\ (Once(toAgent, e) => Once(toAgent', e))
    BY <1>2, <1>3, <2>6
  <2>7. CASE /\ \E v \in Uploads : SelectUpload(v) /\ toAgent' = Append(toAgent, Begin(v))
             /\ UNCHANGED agent
    BY <2>1, <2>2, <2>3, <2>7
  <2> QED BY <2>1, <2>2, <2>4, <2>5, <2>6, <2>7, AgentQueue
<1>5. Accepted(u) => At(toAgent, m) # {} /\ At(toAgent', m) = {}
  BY <1>1, <1>2, TailAt DEF Accepted, m
<1>6. Reported(u)' => Reported(u) \/ (active = u /\ active' = NoTransfer)
  BY ReportedStep DEF Completed
<1>7. active' = u => active = u \/ Accepted(u)
  BY ActiveStep
<1>8. u \in {transfer'.id, transferRef'.id} => u \in {transfer.id, transferRef.id} \/ SelectUpload(u)
  BY <1>1, ShownStep DEF SelectUpload, Show, Shown
<1>9. SelectUpload(u) => u \notin started /\ u \in started' /\ UNCHANGED agent
  BY DEF SelectUpload, Start
<1> QED BY <1>1, <1>2, <1>4, <1>5, <1>6, <1>7, <1>8, <1>9 DEF agent, m

LEMMA UploadShownStep == IInv /\ UploadShown /\ [Next]_vars => UploadShown'
<1>1. Uploads \cap Downloads = {}
  BY KindsAssumption
<1> QED BY <1>1, ShownStep DEF UploadShown, SelectUpload, Show, Shown

\* What was asked for holds through every step.
LEMMA HistoryInvariant == Spec => [](IInv /\ HistoryInv)
<1>1. Init => HistoryInv
  <2>1. ASSUME Init PROVE \A m : At(toAgent, m) = {} /\ At(toPage, m) = {} /\ Once(toAgent, m)
    BY <2>1 DEF Init, At, Once
  <2>2. ASSUME Init, NEW u \in Uploads PROVE ~Reported(u) /\ u \notin {active, transfer.id, transferRef.id}
    BY <2>1, <2>2, KindsAssumption DEF Init, Reported, At, Nothing, Shown, Transfers
  <2>3. Init => UploadShown
    BY KindsAssumption DEF Init, UploadShown, Nothing, Shown, Transfers
  <2>4. Init => DownloadsAsked
    BY <2>1 DEF Init, DownloadsAsked
  <2> QED BY <2>1, <2>2, <2>3, <2>4 DEF HistoryInv, CancelsAsked, UploadsAsked
<1>2. HistoryInv /\ IInv /\ [Next]_vars => HistoryInv'
  BY CancelsAskedStep, DownloadsAskedStep, UploadsAskedStep, UploadShownStep DEF HistoryInv
<1> QED BY <1>1, <1>2, InvInit, InvStep, PTL DEF Spec

-------------------------------------------------------------------------------
(* Downloads, as long as the user cancels none.                             *)

\* A download's task owns the agent until it releases it.
OneStream == \A d \in Downloads : stream[d].state \in {"running", "ending"} => active = d

\* Of a download whose task was never spawned nothing is heard but a refusal.
DownloadsUnseen ==
  \A d \in Downloads : stream[d].state = "none" =>
    /\ stream[d].sent = 0 /\ infoDue # d /\ transfer.id # d /\ transferRef.id # d
    /\ At(toPage, Info(d)) = {} /\ At(toPage, End(d)) = {} /\ ChunksAt(toPage, d) = {}

\* download:info comes once, before the panel shows the download.
DownloadsAnnounced ==
  \A d \in Downloads :
    /\ Once(toPage, Info(d))
    /\ infoDue = d => transfer.id # d /\ transferRef.id # d
    /\ d \in {transfer.id, transferRef.id, infoDue} => At(toPage, Info(d)) = {}

\* download:complete comes once, after the last chunk.
DownloadsEnd ==
  \A d \in Downloads :
    /\ stream[d].sent <= Size[d] /\ Once(toPage, End(d))
    /\ At(toPage, End(d)) # {} => stream[d].state \in {"ending", "ended"} /\ stream[d].sent = Size[d]
    /\ \A i \in At(toPage, End(d)), j \in ChunksAt(toPage, d) : j < i

\* The end of d is yet to come when the message at i is taken.
Outlasts(d, i) == stream[d].state = "running" \/ \E j \in At(toPage, End(d)) : j >= i

\* Downloads take turns: when something of one is on the channel, another is
\* over before it or announced after it.
DownloadsTakeTurns ==
  /\ \A d \in Downloads, t \in Transfers : d # t =>
       \A i \in ChunksAt(toPage, t) \cup At(toPage, Info(t)) :
         Outlasts(d, i) => infoDue = d \/ \E j \in At(toPage, Info(d)) : i < j
  /\ \A d \in Downloads : infoDue # NoTransfer /\ stream[d].state = "running" => infoDue = d

\* What the panel has kept of the download it shows, whose end is yet to come,
\* is a piece of it that ends with the last chunk the panel took.
PieceKept ==
  /\ \A d \in Downloads : Outlasts(d, 1) /\ transferRef.id = d => transfer.id = d
  /\ \A d \in Downloads : \E c \in 0 .. Size[d] :
       /\ Carries(toPage, d, c, stream[d].sent)
       /\ Outlasts(d, 1) /\ transfer.id = d =>
            /\ \E k \in 1 .. c + 1 : Piece(chunks, d, k, c)
            /\ transferRef.id \notin Downloads => chunks = <<>>

\* What was saved is the end of the file.
SavedPiece == \A d \in Downloads : \E k \in 1 .. Size[d] + 1 : Piece(saved[d], d, k, Size[d])

DownloadsInv ==
  /\ OneStream
  /\ DownloadsUnseen /\ DownloadsAnnounced /\ DownloadsEnd
  /\ DownloadsTakeTurns /\ PieceKept /\ SavedPiece

\* What a step is to the downloads. Nothing, or the page is sent something else.
Elsewhere ==
  /\ UNCHANGED <<stream, infoDue, transfer, transferRef, chunks, saved>>
  /\ \/ UNCHANGED toPage
     \/ \E m \in PageMsgs : /\ m.type \in {"file:error", "upload:ready", "upload:finished"}
                            /\ toPage' = Append(toPage, m)

\* The user has an upload shown, or what is shown is rendered.
ShowsUpload ==
  /\ transfer' = transferRef' /\ transferRef'.id \notin Downloads
  /\ UNCHANGED <<toPage, stream, infoDue, chunks, saved>>

Rendered ==
  /\ transferRef' = transfer
  /\ UNCHANGED <<toPage, stream, infoDue, transfer, chunks, saved>>

\* The panel takes something else, an announcement, a chunk, the end.
Heard ==
  /\ toPage # <<>> /\ toPage' = Tail(toPage)
  /\ Head(toPage).type \in {"file:error", "upload:ready", "upload:finished"}
  /\ transfer'.id = transfer.id
  /\ UNCHANGED <<stream, infoDue, transferRef, chunks, saved>>

HeardInfo(d) ==
  /\ toPage # <<>> /\ toPage' = Tail(toPage) /\ Head(toPage) = Info(d)
  /\ chunks' = <<>> /\ transfer'.id = d
  /\ UNCHANGED <<stream, infoDue, transferRef, saved>>

HeardChunk(t, n) ==
  /\ toPage # <<>> /\ toPage' = Tail(toPage) /\ Head(toPage) = Chunk(t, n)
  /\ chunks' = IF transferRef.id \in Downloads THEN Append(chunks, Chunk(t, n)) ELSE chunks
  /\ UNCHANGED <<stream, infoDue, transfer, transferRef, saved>>

HeardEnd(d) ==
  /\ toPage # <<>> /\ toPage' = Tail(toPage) /\ Head(toPage) = End(d)
  /\ \/ /\ transferRef.id = d /\ transfer'.id = d /\ chunks' = <<>>
        /\ saved' = [saved EXCEPT ![d] = chunks]
     \/ transferRef.id # d /\ UNCHANGED <<transfer, chunks, saved>>
  /\ UNCHANGED <<stream, infoDue, transferRef>>

Announces(d) ==
  /\ infoDue = d /\ infoDue' = NoTransfer
  /\ toPage' = Append(toPage, Info(d))
  /\ UNCHANGED <<stream, transfer, transferRef, chunks, saved>>

LEMMA DownloadSteps ==
  ASSUME IInv, HistoryInv, [Next]_vars, cancelled' \cap Downloads = {}
  PROVE  \/ Elsewhere \/ ShowsUpload \/ Rendered \/ Heard
         \/ \E t \in Transfers, n \in Nat : HeardChunk(t, n)
         \/ \E d \in Downloads : HeardInfo(d) \/ HeardEnd(d) \/ Announces(d)
                                 \/ Spawned(d) \/ Stream(d)
<1>1. TransferTypeOK /\ Uploads \cap Downloads = {} /\ NoTransfer \notin Transfers
  BY KindsAssumption DEF IInv
<1>2. CASE PageReceives
  <2> DEFINE m == Head(toPage)
  <2>1. ASSUME NEW type, PageTakes(type)
        PROVE  toPage # <<>> /\ toPage' = Tail(toPage) /\ m \in PageMsgs /\ m.type = type
    BY <2>1, PageTaking DEF PageTakes
  <2>2. CASE PageError \/ PageReady \/ PageFinished
    <3>1. UNCHANGED <<stream, infoDue, transferRef, chunks, saved>> /\ transfer'.id = transfer.id
      BY <2>2 DEF PageError, PageReady, PageFinished, Shown, agent
    <3>2. \E type \in {"file:error", "upload:ready", "upload:finished"} : PageTakes(type)
      BY <2>2 DEF PageError, PageReady, PageFinished
    <3> QED BY <2>1, <3>1, <3>2 DEF Heard
  <2>3. CASE PageInfo
    <3>1. m.id \in Downloads /\ m = Info(m.id) /\ PageId = m.id
      BY <2>1, <2>3, PageMsgTypes, MsgIs DEF PageInfo, Info, PageId
    <3>2. HeardInfo(m.id)
      BY <2>1, <2>3, <3>1 DEF PageInfo, HeardInfo, Shown, agent
    <3> QED BY <3>1, <3>2
  <2>4. CASE PageChunk
    <3>1. m.id \in Transfers /\ m.n \in Nat /\ m = Chunk(m.id, m.n)
      BY <2>1, <2>4, PageMsgTypes, ChunkIs DEF PageChunk
    <3>2. HeardChunk(m.id, m.n)
      BY <2>1, <2>4, <3>1 DEF PageChunk, HeardChunk, agent
    <3> QED BY <3>1, <3>2
  <2>5. CASE PageComplete
    <3>1. m.id \in Downloads /\ m = End(m.id) /\ PageId = m.id
      BY <2>1, <2>5, PageMsgTypes, MsgIs DEF PageComplete, End, PageId
    <3>2. HeardEnd(m.id)
      BY <2>1, <2>5, <3>1 DEF PageComplete, HeardEnd, Shown, agent
    <3> QED BY <3>1, <3>2
  <2> QED BY <1>2, <2>2, <2>3, <2>4, <2>5 DEF PageReceives
<1>3. CASE User
  <2>1. CASE \E d \in Downloads : SelectDownload(d)
    BY <2>1 DEF SelectDownload, Elsewhere, agent
  <2>2. CASE \E u \in Uploads : SelectUpload(u)
    BY <1>1, <2>2 DEF SelectUpload, Show, Shown, ShowsUpload, agent
  <2>3. CASE Cancel
    BY <2>3 DEF Cancel, Show, Shown, ShowsUpload, agent
  <2> QED BY <1>3, <2>1, <2>2, <2>3 DEF User
<1>4. CASE AgentReceives
  <2>1. CASE Ignored
    <3>1. \A t \in Transfers : Msg("file:error", t) \in PageMsgs /\ Msg("file:error", t).type = "file:error"
      BY PageMsgTypes, MsgFields
    <3> QED BY <2>1, <3>1 DEF Ignored, Elsewhere, page, agent
  <2>2. ASSUME NEW u \in Uploads, Accepted(u) \/ Completed(u) PROVE Elsewhere
    <3>1. /\ Ready(u) \in PageMsgs /\ Ready(u).type = "upload:ready"
          /\ Finished(u) \in PageMsgs /\ Finished(u).type = "upload:finished"
          /\ Msg("file:error", u) \in PageMsgs /\ Msg("file:error", u).type = "file:error"
      BY PageMsgTypes, MsgFields DEF Ready, Finished, Transfers
    <3> QED BY <2>2, <3>1 DEF Accepted, Completed, Elsewhere, page
  <2>3. CASE RecvChunk \/ RecvCancel
    BY <2>3 DEF RecvChunk, RecvCancel, Elsewhere, page
  <2>4. CASE SendInfo
    <3>1. infoDue \in Downloads /\ Announces(infoDue)
      BY <1>1, <2>4 DEF SendInfo, Announces, TransferTypeOK, Info, page
    <3> QED BY <3>1
  <2> QED BY <1>4, <2>1, <2>2, <2>3, <2>4, AgentSteps
<1>5. CASE Render
  BY <1>5 DEF Render, Rendered, agent
<1>6. CASE UNCHANGED vars \/ \E u \in Uploads : Loop(u)
  BY <1>6 DEF vars, page, agent, Loop, LoopResume, LoopSend, Elsewhere
<1> QED BY <1>2, <1>3, <1>4, <1>5, <1>6 DEF Next

LEMMA OneStreamStep ==
  ASSUME IInv, HistoryInv, OneStream, [Next]_vars, cancelled' \cap Downloads = {}
  PROVE  OneStream'
<1> SUFFICES ASSUME NEW d \in Downloads, stream'[d].state \in {"running", "ending"}
             PROVE  active' = d
  BY DEF OneStream
<1>1. /\ stream \in [Downloads -> [state : {"none", "running", "ending", "ended"}, sent : Nat]]
      /\ Uploads \cap Downloads = {} /\ NoTransfer \notin Transfers
      /\ stream[d].state \in {"running", "ending"} => active = d
      /\ d \notin cancelled
  BY KindsAssumption, Grows DEF IInv, TransferTypeOK, OneStream
<1>2. CASE UNCHANGED agent
  BY <1>1, <1>2 DEF agent
<1>3. CASE AgentReceives
  <2>1. CASE RecvCancel
    <3>1. AgentTakes("transfer:cancel") /\ Head(toAgent) \in AgentMsgs
      BY <2>1, AgentTaking DEF RecvCancel
    <3>2. Head(toAgent) = Cancels(AgentId) /\ AgentId \in Transfers
      BY <3>1, AgentTaking, AgentMsgTypes, MsgIs DEF Cancels, AgentId
    <3>3. At(toAgent, Cancels(AgentId)) # {}
      BY <3>1, <3>2, TailAt DEF IInv, TransferTypeOK, AgentTakes
    <3>4. AgentId # d
      BY <1>1, <3>2, <3>3 DEF HistoryInv, CancelsAsked
    <3> QED BY <1>1, <2>1, <3>4 DEF RecvCancel
  <2>2. CASE \E u \in Uploads : Accepted(u) \/ Completed(u)
    BY <1>1, <2>2 DEF Accepted, Completed, Transfers
  <2>3. CASE \E e \in Downloads : Spawned(e)
    BY <1>1, <2>3 DEF Spawned, Transfers
  <2>4. CASE RecvChunk \/ SendInfo \/ Ignored
    BY <1>1, <2>4 DEF RecvChunk, SendInfo, Ignored, agent
  <2> QED BY <1>3, <2>1, <2>2, <2>3, <2>4, AgentSteps
<1>4. ASSUME NEW e \in Downloads, Stream(e) PROVE active' = d
  BY <1>1, <1>4 DEF OneStream, Stream, StreamChunk, StreamComplete, StreamFail, StreamRelease
<1>5. CASE SendInfo
  BY <1>1, <1>5 DEF SendInfo
<1> QED BY <1>2, <1>3, <1>4, <1>5, AgentQueue

\* The messages about a download, and what else a queue is given or loses.
LEMMA DownloadMsgs ==
  ASSUME NEW d \in Downloads
  PROVE  /\ Info(d) \in PageMsgs /\ Info(d).type = "download:info" /\ Info(d).id = d
         /\ End(d) \in PageMsgs /\ End(d).type = "download:complete" /\ End(d).id = d
         /\ \A n \in Nat : /\ Chunk(d, n) \in PageMsgs
                           /\ Chunk(d, n).type = "chunk" /\ Chunk(d, n).id = d
         /\ Msg("file:error", d) \in PageMsgs
         /\ Msg("file:error", d).type = "file:error" /\ Msg("file:error", d).id = d
BY PageMsgTypes, MsgFields DEF Info, End, Transfers

LEMMA News ==
  ASSUME IInv, NEW m \in PageMsgs, toPage' = Append(toPage, m), NEW t
  PROVE  /\ ~(m.type = "download:info" /\ m.id = t) =>
              /\ At(toPage', Info(t)) = At(toPage, Info(t))
              /\ Once(toPage, Info(t)) => Once(toPage', Info(t))
         /\ ~(m.type = "download:complete" /\ m.id = t) =>
              /\ At(toPage', End(t)) = At(toPage, End(t))
              /\ Once(toPage, End(t)) => Once(toPage', End(t))
         /\ ~(m.type = "chunk" /\ m.id = t) => ChunksAt(toPage', t) = ChunksAt(toPage, t)
<1>1. toPage \in Seq(PageMsgs)
  BY DEF IInv, TransferTypeOK
<1>2. /\ Info(t).type = "download:info" /\ Info(t).id = t
      /\ End(t).type = "download:complete" /\ End(t).id = t
  BY MsgFields DEF Info, End
<1>3. ASSUME ~(m.type = "chunk" /\ m.id = t) PROVE ChunksAt(toPage', t) = ChunksAt(toPage, t)
  <2>1. \A i : i \in ChunksAt(toPage', t) <=> i \in ChunksAt(toPage, t)
    BY <1>1, <1>3, ChunksAppend
  <2> QED BY <2>1, Zenon
<1> QED BY <1>1, <1>2, <1>3, AppendAt

\* Where things are on the channel, after the head was taken.
LEMMA Shifted ==
  ASSUME IInv, toPage # <<>>, toPage' = Tail(toPage), NEW t
  PROVE  /\ \A m, i : i \in At(toPage', m) => i + 1 \in At(toPage, m)
         /\ \A m : \A i \in At(toPage, m) : i # 1 => i - 1 \in At(toPage', m)
         /\ \A m : Once(toPage, m) => Once(toPage', m) /\ (Head(toPage) = m => At(toPage', m) = {})
         /\ \A m : Head(toPage) = m => 1 \in At(toPage, m)
         /\ \A i : i \in ChunksAt(toPage', t) => i + 1 \in ChunksAt(toPage, t)
         /\ Head(toPage).type = "chunk" /\ Head(toPage).id = t => 1 \in ChunksAt(toPage, t)
<1>1. toPage \in Seq(PageMsgs)
  BY DEF IInv, TransferTypeOK
<1>2. Len(toPage) \in Nat \ {0} /\ Head(toPage) = toPage[1]
  BY <1>1, HeadTail
<1>3. \A m : Head(toPage) = m => 1 \in At(toPage, m)
  BY <1>2 DEF At
<1>4. Head(toPage).type = "chunk" /\ Head(toPage).id = t => 1 \in ChunksAt(toPage, t)
  BY <1>2 DEF ChunksAt
<1>5. ASSUME NEW m, NEW i \in At(toPage, m), i # 1 PROVE i - 1 \in At(toPage', m)
  <2>1. i \in 1 .. Len(toPage)
    BY DEF At
  <2>2. i - 1 \in 1 .. Len(toPage) - 1 /\ (i - 1) + 1 = i
    BY <1>2, <1>5, <2>1
  <2> QED BY <1>1, <2>2, AtTail
<1> QED BY <1>1, <1>3, <1>4, <1>5, AtTail, TailAt, ChunksTail

LEMMA UnseenStep ==
  ASSUME IInv, HistoryInv, DownloadsUnseen, [Next]_vars, cancelled' \cap Downloads = {}
  PROVE  DownloadsUnseen'
<1> SUFFICES ASSUME NEW d \in Downloads, stream'[d].state = "none"
             PROVE  /\ stream'[d].sent = 0 /\ infoDue' # d /\ transfer'.id # d /\ transferRef'.id # d
                    /\ At(toPage', Info(d)) = {} /\ At(toPage', End(d)) = {} /\ ChunksAt(toPage', d) = {}
  BY DEF DownloadsUnseen
<1>1. /\ stream \in [Downloads -> [state : {"none", "running", "ending", "ended"}, sent : Nat]]
      /\ NoTransfer \notin Downloads
  BY KindsAssumption DEF IInv, TransferTypeOK, Transfers
<1>2. ASSUME stream[d].state = "none"
      PROVE  /\ stream[d].sent = 0 /\ infoDue # d /\ transfer.id # d /\ transferRef.id # d
             /\ At(toPage, Info(d)) = {} /\ At(toPage, End(d)) = {} /\ ChunksAt(toPage, d) = {}
  BY <1>2 DEF DownloadsUnseen
<1>3. ASSUME toPage # <<>>, toPage' = Tail(toPage), stream[d].state = "none"
      PROVE  At(toPage', Info(d)) = {} /\ At(toPage', End(d)) = {} /\ ChunksAt(toPage', d) = {}
             /\ Head(toPage) # Info(d) /\ Head(toPage) # End(d)
  BY <1>2, <1>3, Shifted
<1>4. ASSUME NEW m \in PageMsgs, toPage' = Append(toPage, m), stream[d].state = "none",
             m.type \in {"chunk", "download:info", "download:complete"} => m.id # d
      PROVE  At(toPage', Info(d)) = {} /\ At(toPage', End(d)) = {} /\ ChunksAt(toPage', d) = {}
  BY <1>2, <1>4, News
<1>5. CASE Elsewhere
  BY <1>2, <1>4, <1>5 DEF Elsewhere
<1>6. CASE ShowsUpload \/ Rendered
  BY <1>2, <1>6 DEF ShowsUpload, Rendered
<1>7. CASE Heard \/ \E t \in Transfers, n \in Nat : HeardChunk(t, n)
  BY <1>2, <1>3, <1>7 DEF Heard, HeardChunk
<1>8. ASSUME NEW e \in Downloads, HeardInfo(e) \/ HeardEnd(e)
      PROVE  /\ stream'[d].sent = 0 /\ infoDue' # d /\ transfer'.id # d /\ transferRef'.id # d
             /\ At(toPage', Info(d)) = {} /\ At(toPage', End(d)) = {} /\ ChunksAt(toPage', d) = {}
  BY <1>2, <1>3, <1>8 DEF HeardInfo, HeardEnd
<1>9. ASSUME NEW e \in Downloads, Announces(e)
      PROVE  /\ stream'[d].sent = 0 /\ infoDue' # d /\ transfer'.id # d /\ transferRef'.id # d
             /\ At(toPage', Info(d)) = {} /\ At(toPage', End(d)) = {} /\ ChunksAt(toPage', d) = {}
  BY <1>1, <1>2, <1>4, <1>9, DownloadMsgs DEF Announces
<1>10. ASSUME NEW e \in Downloads, Spawned(e)
       PROVE  /\ stream'[d].sent = 0 /\ infoDue' # d /\ transfer'.id # d /\ transferRef'.id # d
              /\ At(toPage', Info(d)) = {} /\ At(toPage', End(d)) = {} /\ ChunksAt(toPage', d) = {}
  BY <1>1, <1>2, <1>10 DEF Spawned, page
<1>11. ASSUME NEW e \in Downloads, Stream(e)
       PROVE  /\ stream'[d].sent = 0 /\ infoDue' # d /\ transfer'.id # d /\ transferRef'.id # d
              /\ At(toPage', Info(d)) = {} /\ At(toPage', End(d)) = {} /\ ChunksAt(toPage', d) = {}
  <2>1. /\ UNCHANGED <<infoDue, transfer, transferRef>> /\ stream[e].state # "none"
        /\ \A x \in Downloads \ {e} : stream'[x] = stream[x]
        /\ stream'[e].state # "none"
    BY <1>1, <1>11 DEF Stream, StreamChunk, StreamComplete, StreamFail, StreamRelease, page
  <2>2. d # e /\ stream[d].state = "none" /\ stream'[d] = stream[d]
    BY <2>1
  <2>3. \/ UNCHANGED toPage
        \/ \E m \in PageMsgs : toPage' = Append(toPage, m) /\ m.id = e
    <3>1. stream[e].sent + 1 \in Nat
      BY <1>1
    <3> QED BY <1>11, <3>1, DownloadMsgs DEF Stream, StreamChunk, StreamComplete, StreamFail,
               StreamRelease, End
  <2> QED BY <1>2, <1>4, <2>1, <2>2, <2>3
<1> QED BY <1>5, <1>6, <1>7, <1>8, <1>9, <1>10, <1>11, DownloadSteps

LEMMA AnnouncedStep ==
  ASSUME IInv, HistoryInv, DownloadsUnseen, DownloadsAnnounced, [Next]_vars,
         cancelled' \cap Downloads = {}
  PROVE  DownloadsAnnounced'
<1> SUFFICES ASSUME NEW d \in Downloads
             PROVE  /\ Once(toPage', Info(d))
                    /\ infoDue' = d => transfer'.id # d /\ transferRef'.id # d
                    /\ d \in {transfer'.id, transferRef'.id, infoDue'} => At(toPage', Info(d)) = {}
  BY DEF DownloadsAnnounced
<1>1. /\ stream \in [Downloads -> [state : {"none", "running", "ending", "ended"}, sent : Nat]]
      /\ NoTransfer \notin Downloads /\ toPage \in Seq(PageMsgs)
  BY KindsAssumption DEF IInv, TransferTypeOK, Transfers
<1>2. /\ Once(toPage, Info(d))
      /\ infoDue = d => transfer.id # d /\ transferRef.id # d
      /\ d \in {transfer.id, transferRef.id, infoDue} => At(toPage, Info(d)) = {}
  BY DEF DownloadsAnnounced
<1>3. ASSUME toPage # <<>>, toPage' = Tail(toPage)
      PROVE  /\ Once(toPage', Info(d)) /\ (At(toPage, Info(d)) = {} => At(toPage', Info(d)) = {})
             /\ Head(toPage) = Info(d) => At(toPage', Info(d)) = {} /\ At(toPage, Info(d)) # {}
  BY <1>2, <1>3, Shifted
<1>4. ASSUME NEW m \in PageMsgs, toPage' = Append(toPage, m), m.type = "download:info" => m.id # d
      PROVE  Once(toPage', Info(d)) /\ At(toPage', Info(d)) = At(toPage, Info(d))
  BY <1>2, <1>4, News
<1>5. CASE Elsewhere
  BY <1>2, <1>4, <1>5 DEF Elsewhere
<1>6. CASE ShowsUpload \/ Rendered
  BY <1>2, <1>6 DEF ShowsUpload, Rendered
<1>7. CASE Heard \/ \E t \in Transfers, n \in Nat : HeardChunk(t, n)
  BY <1>2, <1>3, <1>7 DEF Heard, HeardChunk
<1>8. ASSUME NEW e \in Downloads, HeardInfo(e) \/ HeardEnd(e)
      PROVE  /\ Once(toPage', Info(d))
             /\ infoDue' = d => transfer'.id # d /\ transferRef'.id # d
             /\ d \in {transfer'.id, transferRef'.id, infoDue'} => At(toPage', Info(d)) = {}
  BY <1>2, <1>3, <1>8 DEF HeardInfo, HeardEnd
<1>9. ASSUME NEW e \in Downloads, Announces(e)
      PROVE  /\ Once(toPage', Info(d))
             /\ infoDue' = d => transfer'.id # d /\ transferRef'.id # d
             /\ d \in {transfer'.id, transferRef'.id, infoDue'} => At(toPage', Info(d)) = {}
  <2>1. CASE e = d
    BY <1>1, <1>2, <1>9, <2>1, DownloadMsgs, AppendAt DEF Announces
  <2>2. CASE e # d
    BY <1>1, <1>2, <1>4, <1>9, <2>2, DownloadMsgs DEF Announces
  <2> QED BY <2>1, <2>2
<1>10. ASSUME NEW e \in Downloads, Spawned(e)
       PROVE  /\ Once(toPage', Info(d))
              /\ infoDue' = d => transfer'.id # d /\ transferRef'.id # d
              /\ d \in {transfer'.id, transferRef'.id, infoDue'} => At(toPage', Info(d)) = {}
  <2>1. toPage' = toPage /\ transfer' = transfer /\ transferRef' = transferRef /\ infoDue' = e
    BY <1>10 DEF Spawned, page
  <2>2. At(toAgent, Begins(e)) # {}
    BY <1>10, TailAt DEF Spawned, IInv, TransferTypeOK
  <2>3. stream[e].state = "none"
    BY <2>2 DEF HistoryInv, DownloadsAsked
  <2> QED BY <1>2, <2>1, <2>3 DEF DownloadsUnseen
<1>11. ASSUME NEW e \in Downloads, Stream(e)
       PROVE  /\ Once(toPage', Info(d))
              /\ infoDue' = d => transfer'.id # d /\ transferRef'.id # d
              /\ d \in {transfer'.id, transferRef'.id, infoDue'} => At(toPage', Info(d)) = {}
  <2>1. UNCHANGED <<infoDue, transfer, transferRef>>
    BY <1>11 DEF Stream, StreamChunk, StreamComplete, StreamFail, StreamRelease, page
  <2>2. \/ UNCHANGED toPage
        \/ \E m \in PageMsgs : toPage' = Append(toPage, m) /\ m.type # "download:info"
    <3>1. stream[e].sent + 1 \in Nat
      BY <1>1
    <3> QED BY <1>11, <3>1, DownloadMsgs DEF Stream, StreamChunk, StreamComplete, StreamFail,
               StreamRelease, End
  <2> QED BY <1>2, <1>4, <2>1, <2>2
<1> QED BY <1>5, <1>6, <1>7, <1>8, <1>9, <1>10, <1>11, DownloadSteps

\* What a download's task does.
LEMMA StreamSteps ==
  ASSUME IInv, NEW e \in Downloads, Stream(e)
  PROVE  /\ UNCHANGED <<toAgent, page, stored, infoDue>>
         /\ stream[e].state \in {"running", "ending"}
         /\ \A d \in Downloads \ {e} : stream'[d] = stream[d]
         /\ \/ /\ stream[e].state = "running" /\ stream'[e].state = "running"
               /\ stream[e].sent < Size[e] /\ stream'[e].sent = stream[e].sent + 1
               /\ toPage' = Append(toPage, Chunk(e, stream[e].sent + 1))
            \/ /\ stream[e].state = "running" /\ stream'[e].state = "ending"
               /\ stream[e].sent = Size[e] /\ stream'[e].sent = stream[e].sent
               /\ toPage' = Append(toPage, End(e))
            \/ /\ stream[e].state = "running" /\ stream'[e].state = "ending"
               /\ stream'[e].sent = stream[e].sent
               /\ toPage' = Append(toPage, Msg("file:error", e))
            \/ /\ stream[e].state = "ending" /\ stream'[e].state = "ended"
               /\ stream'[e].sent = stream[e].sent
               /\ toPage' = toPage
<1>1. stream \in [Downloads -> [state : {"none", "running", "ending", "ended"}, sent : Nat]]
  BY DEF IInv, TransferTypeOK
<1>2. CASE StreamChunk(e)
  BY <1>1, <1>2 DEF StreamChunk, agent
<1>3. CASE StreamComplete(e)
  BY <1>1, <1>3 DEF StreamComplete, End
<1>4. CASE StreamFail(e)
  BY <1>1, <1>4 DEF StreamFail
<1>5. CASE StreamRelease(e)
  BY <1>1, <1>5 DEF StreamRelease
<1> QED BY <1>2, <1>3, <1>4, <1>5 DEF Stream

\* A download that is spawned was not spawned before.
LEMMA SpawnedSteps ==
  ASSUME IInv, HistoryInv, DownloadsUnseen, NEW e \in Downloads, Spawned(e)
  PROVE  /\ stream[e].state = "none" /\ stream[e].sent = 0
         /\ infoDue # e /\ transfer.id # e /\ transferRef.id # e
         /\ At(toPage, Info(e)) = {} /\ At(toPage, End(e)) = {} /\ ChunksAt(toPage, e) = {}
         /\ stream'[e].state = "running" /\ stream'[e].sent = 0
         /\ \A d \in Downloads \ {e} : stream'[d] = stream[d]
<1>1. stream \in [Downloads -> [state : {"none", "running", "ending", "ended"}, sent : Nat]]
  BY DEF IInv, TransferTypeOK
<1>2. At(toAgent, Begins(e)) # {}
  BY TailAt DEF Spawned, IInv, TransferTypeOK
<1>3. stream[e].state = "none"
  BY <1>2 DEF HistoryInv, DownloadsAsked
<1> QED BY <1>1, <1>3 DEF DownloadsUnseen, Spawned

LEMMA EndStep ==
  ASSUME IInv, HistoryInv, DownloadsUnseen, DownloadsEnd, [Next]_vars,
         cancelled' \cap Downloads = {}
  PROVE  DownloadsEnd'
<1> DEFINE Goal(d) ==
      /\ stream'[d].sent <= Size[d] /\ Once(toPage', End(d))
      /\ At(toPage', End(d)) # {} =>
           stream'[d].state \in {"ending", "ended"} /\ stream'[d].sent = Size[d]
      /\ \A i \in At(toPage', End(d)), j \in ChunksAt(toPage', d) : j < i
<1> SUFFICES ASSUME NEW d \in Downloads PROVE Goal(d)
  BY DEF DownloadsEnd
<1>1. /\ stream \in [Downloads -> [state : {"none", "running", "ending", "ended"}, sent : Nat]]
      /\ toPage \in Seq(PageMsgs) /\ Size[d] \in Nat /\ stream[d].sent \in Nat
  BY SizeAssumption DEF IInv, TransferTypeOK, Transfers
<1>2. /\ stream[d].sent <= Size[d] /\ Once(toPage, End(d))
      /\ At(toPage, End(d)) # {} => stream[d].state \in {"ending", "ended"} /\ stream[d].sent = Size[d]
      /\ \A i \in At(toPage, End(d)), j \in ChunksAt(toPage, d) : j < i
  BY DEF DownloadsEnd
<1>3. ASSUME toPage # <<>>, toPage' = Tail(toPage), stream' = stream PROVE Goal(d)
  <2>1. ASSUME NEW i \in At(toPage', End(d)), NEW j \in ChunksAt(toPage', d) PROVE j < i
    <3>1. i + 1 \in At(toPage, End(d)) /\ j + 1 \in ChunksAt(toPage, d)
      BY <1>3, Shifted
    <3>2. i \in Int /\ j \in Int
      BY DEF At, ChunksAt
    <3> QED BY <1>2, <3>1, <3>2
  <2>2. Once(toPage', End(d)) /\ (At(toPage', End(d)) # {} => At(toPage, End(d)) # {})
    BY <1>2, <1>3, Shifted
  <2> QED BY <1>2, <1>3, <2>1, <2>2
<1>4. ASSUME NEW m \in PageMsgs, toPage' = Append(toPage, m), stream'[d] = stream[d],
             m.type \in {"chunk", "download:complete"} => m.id # d
      PROVE  Goal(d)
  BY <1>2, <1>4, News
<1>5. CASE Elsewhere
  BY <1>2, <1>4, <1>5 DEF Elsewhere
<1>6. CASE ShowsUpload \/ Rendered
  BY <1>2, <1>6 DEF ShowsUpload, Rendered
<1>7. CASE Heard \/ \E t \in Transfers, n \in Nat : HeardChunk(t, n)
  BY <1>3, <1>7 DEF Heard, HeardChunk
<1>8. ASSUME NEW e \in Downloads, HeardInfo(e) \/ HeardEnd(e) PROVE Goal(d)
  BY <1>3, <1>8 DEF HeardInfo, HeardEnd
<1>9. ASSUME NEW e \in Downloads, Announces(e) PROVE Goal(d)
  BY <1>4, <1>9, DownloadMsgs DEF Announces
<1>10. ASSUME NEW e \in Downloads, Spawned(e) PROVE Goal(d)
  <2>1. toPage' = toPage
    BY <1>10 DEF Spawned
  <2>2. CASE e = d
    BY <1>1, <1>2, <1>10, <2>1, <2>2, SpawnedSteps
  <2>3. CASE e # d
    BY <1>2, <1>10, <2>1, <2>3, SpawnedSteps
  <2> QED BY <2>2, <2>3
<1>11. ASSUME NEW e \in Downloads, Stream(e) PROVE Goal(d)
  <2>1. CASE e # d
    <3>1. stream'[d] = stream[d]
      BY <1>11, <2>1, StreamSteps
    <3>2. \/ toPage' = toPage
          \/ \E m \in PageMsgs : toPage' = Append(toPage, m) /\ m.id = e
      <4>1. stream[e].sent + 1 \in Nat
        BY <1>1
      <4> QED BY <1>11, <4>1, StreamSteps, DownloadMsgs
    <3> QED BY <1>2, <1>4, <2>1, <3>1, <3>2
  <2>2. CASE e = d
    <3>1. stream[d].state = "running" => At(toPage, End(d)) = {}
      BY <1>2
    <3>2. CASE /\ stream[d].state = "running" /\ stream[d].sent < Size[d]
               /\ stream'[d].sent = stream[d].sent + 1
               /\ toPage' = Append(toPage, Chunk(d, stream[d].sent + 1))
      <4>1. stream[d].sent + 1 \in Nat
        BY <1>1
      <4>2. /\ Chunk(d, stream[d].sent + 1) \in PageMsgs
            /\ Chunk(d, stream[d].sent + 1).type # "download:complete"
        BY <4>1, DownloadMsgs
      <4>3. At(toPage', End(d)) = {} /\ Once(toPage', End(d))
        BY <1>2, <3>1, <3>2, <4>2, News
      <4> QED BY <1>1, <3>2, <4>3
    <3>3. CASE /\ stream[d].state = "running" /\ stream'[d].state = "ending"
               /\ stream[d].sent = Size[d] /\ stream'[d].sent = stream[d].sent
               /\ toPage' = Append(toPage, End(d))
      <4>1. Once(toPage', End(d)) /\ ChunksAt(toPage', d) = ChunksAt(toPage, d)
        BY <1>1, <3>1, <3>3, AppendAt, News, DownloadMsgs
      <4>2. ASSUME NEW i \in At(toPage', End(d)), NEW j \in ChunksAt(toPage', d) PROVE j < i
        <5>1. i = Len(toPage) + 1
          BY <1>1, <3>1, <3>3, AtAppend, DownloadMsgs
        <5>2. j \in 1 .. Len(toPage)
          BY <4>1 DEF ChunksAt
        <5> QED BY <1>1, <5>1, <5>2
      <4> QED BY <1>1, <3>3, <4>1, <4>2
    <3>4. CASE /\ stream[d].state = "running" /\ stream'[d].sent = stream[d].sent
               /\ toPage' = Append(toPage, Msg("file:error", d))
      <4>1. At(toPage', End(d)) = {} /\ Once(toPage', End(d))
        BY <1>2, <3>1, <3>4, News, DownloadMsgs
      <4> QED BY <1>2, <3>4, <4>1
    <3>5. CASE stream'[d].state = "ended" /\ stream'[d].sent = stream[d].sent /\ toPage' = toPage
      BY <1>2, <3>5
    <3> QED BY <1>11, <2>2, <3>2, <3>3, <3>4, <3>5, StreamSteps
  <2> QED BY <2>1, <2>2
<1> QED BY <1>5, <1>6, <1>7, <1>8, <1>9, <1>10, <1>11, DownloadSteps

\* That the end is yet to come only ever comes true when the download begins.
LEMMA OutlastsStep ==
  ASSUME IInv, HistoryInv, DownloadsUnseen, [Next]_vars, cancelled' \cap Downloads = {},
         NEW d \in Downloads, ~Spawned(d)
  PROVE  /\ toPage # <<>> /\ toPage' = Tail(toPage) /\ UNCHANGED agent =>
              \A i \in Nat : Outlasts(d, i)' => Outlasts(d, i + 1)
         /\ ~(toPage # <<>> /\ toPage' = Tail(toPage) /\ UNCHANGED agent) =>
              \A i \in Nat : Outlasts(d, i)' => Outlasts(d, i)
         /\ (stream'[d].state = "running" => stream[d].state = "running")
<1>1. stream \in [Downloads -> [state : {"none", "running", "ending", "ended"}, sent : Nat]]
  BY DEF IInv, TransferTypeOK
<1>2. stream'[d].state = "running" => stream[d].state = "running"
  <2>1. ASSUME NEW e \in Downloads, Stream(e) PROVE stream'[d].state = "running" => stream[d].state = "running"
    BY <2>1, StreamSteps
  <2>2. ASSUME NEW e \in Downloads, Spawned(e) PROVE stream'[d].state = "running" => stream[d].state = "running"
    BY <2>2, SpawnedSteps
  <2> QED BY <2>1, <2>2, DownloadSteps DEF Elsewhere, ShowsUpload, Rendered, Heard, HeardChunk,
             HeardInfo, HeardEnd, Announces
<1>3. ASSUME toPage # <<>>, toPage' = Tail(toPage), NEW i \in Nat, Outlasts(d, i)'
      PROVE  Outlasts(d, i + 1)
  <2>1. ASSUME NEW j \in At(toPage', End(d)), j >= i PROVE Outlasts(d, i + 1)
    <3>1. j + 1 \in At(toPage, End(d)) /\ j \in Int
      BY <1>3, Shifted DEF At
    <3> QED BY <2>1, <3>1 DEF Outlasts
  <2> QED BY <1>2, <1>3, <2>1 DEF Outlasts
<1>4. ASSUME NEW m \in PageMsgs, toPage' = Append(toPage, m), NEW i \in Nat, Outlasts(d, i)',
             m.type = "download:complete" => m.id # d \/ stream[d].state = "running"
      PROVE  Outlasts(d, i)
  BY <1>2, <1>4, News DEF Outlasts
<1>5. ASSUME NEW i \in Nat, Outlasts(d, i)', toPage' = toPage PROVE Outlasts(d, i)
  BY <1>2, <1>5 DEF Outlasts
<1>6. \/ UNCHANGED toPage
      \/ toPage # <<>> /\ toPage' = Tail(toPage) /\ UNCHANGED agent
      \/ \E m \in PageMsgs : /\ toPage' = Append(toPage, m)
                             /\ m.type = "download:complete" => m.id # d \/ stream[d].state = "running"
  <2>1. /\ \A u \in Uploads : Ready(u).type = "upload:ready" /\ Finished(u).type = "upload:finished"
        /\ \A e \in Downloads : Info(e).type = "download:info"
        /\ \A e \in Downloads, n \in Nat : Chunk(e, n).type = "chunk"
        /\ \A e \in Downloads : End(e).id = e
    BY MsgFields DEF Ready, Finished, Info, End
  <2>2. \A e \in Downloads : StreamComplete(e) => stream[e].state = "running"
    BY DEF StreamComplete
  <2>3. \A e \in Downloads : stream[e].sent + 1 \in Nat
    BY <1>1
  <2> QED BY <2>1, <2>2, <2>3, PageQueue
<1> QED BY <1>2, <1>3, <1>4, <1>5, <1>6

LEMMA TurnsStep ==
  ASSUME IInv, HistoryInv, OneStream, DownloadsUnseen, DownloadsEnd, DownloadsTakeTurns,
         [Next]_vars, cancelled' \cap Downloads = {}
  PROVE  DownloadsTakeTurns'
<1>1. /\ stream \in [Downloads -> [state : {"none", "running", "ending", "ended"}, sent : Nat]]
      /\ toPage \in Seq(PageMsgs) /\ NoTransfer \notin Transfers /\ Downloads \subseteq Transfers
  BY KindsAssumption DEF IInv, TransferTypeOK, Transfers
\* One download has things on the channel, another is yet to end.
<1>2. ASSUME NEW d \in Downloads, NEW t \in Transfers, d # t,
             NEW i \in ChunksAt(toPage', t) \cup At(toPage', Info(t)), Outlasts(d, i)'
      PROVE  infoDue' = d \/ \E j \in At(toPage', Info(d)) : i < j
  <2>1. \A k \in ChunksAt(toPage, t) \cup At(toPage, Info(t)) :
           Outlasts(d, k) => infoDue = d \/ \E j \in At(toPage, Info(d)) : k < j
    BY <1>2 DEF DownloadsTakeTurns
  <2>2. i \in Nat
    BY DEF ChunksAt, At
  <2>3. CASE Spawned(d)
    BY <2>3 DEF Spawned
  <2> SUFFICES ASSUME ~Spawned(d) PROVE infoDue' = d \/ \E j \in At(toPage', Info(d)) : i < j
    BY <2>3
  <2>4. ASSUME toPage # <<>>, toPage' = Tail(toPage), UNCHANGED agent
        PROVE  infoDue' = d \/ \E j \in At(toPage', Info(d)) : i < j
    <3>1. i + 1 \in ChunksAt(toPage, t) \cup At(toPage, Info(t)) /\ Outlasts(d, i + 1)
      BY <1>2, <2>2, <2>4, Shifted, OutlastsStep
    <3>2. CASE infoDue = d
      BY <2>4, <3>2 DEF agent
    <3>3. ASSUME NEW j \in At(toPage, Info(d)), i + 1 < j
          PROVE  \E k \in At(toPage', Info(d)) : i < k
      <4>1. j \in Nat /\ j # 1
        BY <2>2, <3>3 DEF At
      <4>2. j - 1 \in At(toPage', Info(d)) /\ i < j - 1
        BY <2>2, <2>4, <3>3, <4>1, Shifted
      <4> QED BY <4>2
    <3> QED BY <2>1, <3>1, <3>2, <3>3
  <2>5. ASSUME infoDue' = infoDue, At(toPage', Info(d)) = At(toPage, Info(d)), Outlasts(d, i),
               i \in ChunksAt(toPage, t) \cup At(toPage, Info(t))
        PROVE  infoDue' = d \/ \E j \in At(toPage', Info(d)) : i < j
    BY <2>1, <2>5
  <2>6. ASSUME toPage' = toPage, infoDue' = infoDue
        PROVE  infoDue' = d \/ \E j \in At(toPage', Info(d)) : i < j
    <3>1. (Len(Tail(toPage)) = Len(toPage) - 1 /\ Len(toPage) \in Nat) \/ toPage = <<>>
      BY <1>1, HeadTail
    <3>2. ~(toPage # <<>> /\ toPage' = Tail(toPage))
      BY <2>6, <3>1
    <3> QED BY <1>2, <2>2, <2>5, <2>6, <3>2, OutlastsStep
  <2>7. ASSUME NEW m \in PageMsgs, toPage' = Append(toPage, m) PROVE Outlasts(d, i)
    <3>1. Len(toPage') = Len(toPage) + 1 /\ Len(toPage) \in Nat
      BY <1>1, <2>7, Appended
    <3>2. toPage # <<>> => Len(Tail(toPage)) = Len(toPage) - 1
      BY <1>1, HeadTail
    <3>3. ~(toPage # <<>> /\ toPage' = Tail(toPage))
      BY <3>1, <3>2
    <3> QED BY <1>2, <2>2, <3>3, OutlastsStep
  <2>8. ASSUME NEW m \in PageMsgs, toPage' = Append(toPage, m), infoDue' = infoDue,
               m.type \notin {"chunk", "download:info"} \/ (m.type = "chunk" /\ m.id # t)
        PROVE  infoDue' = d \/ \E j \in At(toPage', Info(d)) : i < j
    <3>1. /\ At(toPage', Info(d)) = At(toPage, Info(d))
          /\ At(toPage', Info(t)) = At(toPage, Info(t))
          /\ ChunksAt(toPage', t) = ChunksAt(toPage, t)
      BY <2>8, News
    <3>2. Outlasts(d, i)
      BY <2>7, <2>8
    <3> QED BY <2>5, <2>8, <3>1, <3>2
  <2>9. CASE Elsewhere
    BY <2>6, <2>8, <2>9 DEF Elsewhere
  <2>10. CASE ShowsUpload \/ Rendered
    BY <2>6, <2>10 DEF ShowsUpload, Rendered
  <2>11. ASSUME NEW e \in Downloads, Announces(e)
         PROVE  infoDue' = d \/ \E j \in At(toPage', Info(d)) : i < j
    <3>1. /\ Info(e) \in PageMsgs /\ Info(e).type = "download:info" /\ Info(e).id = e
          /\ toPage' = Append(toPage, Info(e)) /\ infoDue = e
      BY <2>11, DownloadMsgs DEF Announces
    <3>2. Outlasts(d, i) /\ ChunksAt(toPage', t) = ChunksAt(toPage, t)
      BY <2>7, <3>1, News
    <3>3. i \in ChunksAt(toPage, t) \cup At(toPage, Info(t)) \/ (i = Len(toPage) + 1 /\ e = t)
      BY <1>1, <3>1, <3>2, AtAppend, MsgFields DEF Info
    <3>4. CASE e = d
      <4>1. Len(toPage) + 1 \in At(toPage', Info(d))
        BY <1>1, <3>1, <3>4, AtAppend
      <4>2. i \in 1 .. Len(toPage)
        BY <1>2, <3>3, <3>4 DEF ChunksAt, At
      <4>3. i < Len(toPage) + 1
        BY <1>1, <4>2
      <4> QED BY <4>1, <4>3
    <3>5. CASE e # d /\ i \in ChunksAt(toPage, t) \cup At(toPage, Info(t))
      <4>1. At(toPage', Info(d)) = At(toPage, Info(d))
        BY <3>1, <3>5, News
      <4> QED BY <2>1, <3>1, <3>2, <3>5, <4>1
    <3>6. CASE e # d /\ i = Len(toPage) + 1
      <4>1. stream[d].state = "running"
        BY <1>1, <3>2, <3>6 DEF Outlasts, At
      <4>2. infoDue # NoTransfer
        BY <1>1, <3>1
      <4> QED BY <3>1, <3>6, <4>1, <4>2 DEF DownloadsTakeTurns
    <3> QED BY <3>3, <3>4, <3>5, <3>6
  <2>12. ASSUME NEW e \in Downloads, Spawned(e)
         PROVE  infoDue' = d \/ \E j \in At(toPage', Info(d)) : i < j
    <3>1. toPage' = toPage /\ infoDue = NoTransfer /\ infoDue # d
      BY <1>1, <2>12 DEF Spawned
    <3>2. Outlasts(d, i)
      <4>1. toPage # <<>> => Len(Tail(toPage)) = Len(toPage) - 1 /\ Len(toPage) \in Nat
        BY <1>1, HeadTail
      <4>2. ~(toPage # <<>> /\ toPage' = Tail(toPage))
        BY <3>1, <4>1
      <4> QED BY <1>2, <2>2, <4>2, OutlastsStep
    <3> QED BY <2>1, <3>1, <3>2
  <2>13. ASSUME NEW e \in Downloads, Stream(e)
         PROVE  infoDue' = d \/ \E j \in At(toPage', Info(d)) : i < j
    <3>1. infoDue' = infoDue
      BY <2>13, StreamSteps
    <3>2. stream[e].sent + 1 \in Nat
      BY <1>1
    <3> DEFINE m == Chunk(e, stream[e].sent + 1)
    <3>3. m \in PageMsgs /\ m.type = "chunk" /\ m.id = e
      BY <3>2, DownloadMsgs
    <3>4. CASE stream[e].state = "running" /\ toPage' = Append(toPage, m)
      <4>1. CASE e # t
        BY <2>8, <3>1, <3>3, <3>4, <4>1
      <4>2. CASE e = t
        <5>1. Outlasts(d, i)
          BY <2>7, <3>3, <3>4
        <5>2. At(toPage', Info(d)) = At(toPage, Info(d)) /\ At(toPage', Info(t)) = At(toPage, Info(t))
          BY <3>3, <3>4, News
        <5>3. i \in ChunksAt(toPage, t) \cup At(toPage, Info(t)) \/ i = Len(toPage) + 1
          BY <1>1, <3>3, <3>4, <5>2, ChunksAppend
        <5>4. i # Len(toPage) + 1
          <6>1. SUFFICES ASSUME i = Len(toPage) + 1 PROVE FALSE
            OBVIOUS
          <6>2. stream[d].state = "running"
            BY <1>1, <5>1, <6>1 DEF Outlasts, At
          <6> QED BY <1>2, <3>4, <4>2, <6>2 DEF OneStream
        <5> QED BY <2>5, <3>1, <5>1, <5>2, <5>3, <5>4
      <4> QED BY <4>1, <4>2
    <3>5. CASE toPage' = Append(toPage, End(e)) \/ toPage' = Append(toPage, Msg("file:error", e))
      BY <2>8, <3>1, <3>5, DownloadMsgs
    <3>6. CASE toPage' = toPage
      BY <2>6, <3>1, <3>6
    <3> QED BY <2>13, <3>4, <3>5, <3>6, StreamSteps
  <2>14. ASSUME Heard \/ (\E x \in Transfers, n \in Nat : HeardChunk(x, n))
                  \/ (\E e \in Downloads : HeardInfo(e) \/ HeardEnd(e))
         PROVE  infoDue' = d \/ \E j \in At(toPage', Info(d)) : i < j
    <3>1. toPage # <<>> /\ toPage' = Tail(toPage)
      BY <2>14 DEF Heard, HeardChunk, HeardInfo, HeardEnd
    <3>2. Len(Tail(toPage)) = Len(toPage) - 1 /\ Len(toPage) \in Nat
      BY <1>1, <3>1, HeadTail
    <3>3. toPage' # toPage
      <4>1. toPage' = toPage => Len(toPage) = Len(Tail(toPage))
        BY <3>1
      <4> QED BY <3>2, <4>1
    <3>4. ASSUME NEW m \in PageMsgs, toPage' = Append(toPage, m) PROVE FALSE
      <4>1. Len(toPage') = Len(toPage) + 1
        BY <1>1, <3>4, Appended
      <4> QED BY <3>1, <3>2, <4>1
    <3> QED BY <2>4, <3>1, <3>3, <3>4, PageQueue
  <2> QED BY <2>9, <2>10, <2>11, <2>12, <2>13, <2>14, DownloadSteps
\* An announcement is due.
<1>3. ASSUME NEW d \in Downloads, infoDue' # NoTransfer, stream'[d].state = "running"
      PROVE  infoDue' = d
  <2>1. CASE Spawned(d)
    BY <2>1 DEF Spawned
  <2>2. ASSUME NEW e \in Downloads, e # d, Spawned(e) PROVE FALSE
    <3>1. active = NoTransfer /\ stream[d].state = "running"
      BY <1>3, <2>2, SpawnedSteps DEF Spawned
    <3> QED BY <1>1, <3>1 DEF OneStream
  <2>3. CASE infoDue' = infoDue /\ ~Spawned(d)
    BY <1>3, <2>3, OutlastsStep DEF DownloadsTakeTurns
  <2>4. ASSUME NEW e \in Downloads, Announces(e) PROVE FALSE
    BY <1>3, <2>4 DEF Announces
  <2>5. ASSUME NEW e \in Downloads, Stream(e) PROVE infoDue' = infoDue
    BY <2>5, StreamSteps
  <2> QED BY <2>1, <2>2, <2>3, <2>4, <2>5, DownloadSteps DEF Elsewhere, ShowsUpload, Rendered, Heard,
             HeardChunk, HeardInfo, HeardEnd
<1> QED BY <1>2, <1>3 DEF DownloadsTakeTurns

LEMMA KeptStep ==
  ASSUME IInv, HistoryInv, OneStream, DownloadsUnseen, DownloadsAnnounced, DownloadsEnd,
         DownloadsTakeTurns, PieceKept, [Next]_vars, cancelled' \cap Downloads = {}
  PROVE  PieceKept'
<1> DEFINE Goal(d) ==
      /\ Outlasts(d, 1)' /\ transferRef'.id = d => transfer'.id = d
      /\ \E c \in 0 .. Size[d] :
           /\ Carries(toPage', d, c, stream'[d].sent)
           /\ Outlasts(d, 1)' /\ transfer'.id = d =>
                /\ \E k \in 1 .. c + 1 : Piece(chunks', d, k, c)
                /\ transferRef'.id \notin Downloads => chunks' = <<>>
<1> SUFFICES ASSUME NEW d \in Downloads PROVE Goal(d)
  BY DEF PieceKept
<1>1. /\ stream \in [Downloads -> [state : {"none", "running", "ending", "ended"}, sent : Nat]]
      /\ toPage \in Seq(PageMsgs) /\ toPage \in Seq(AgentMsgs \cup PageMsgs)
      /\ chunks \in Seq(Chunks) /\ Size[d] \in Nat /\ NoTransfer \notin Transfers
      /\ Downloads \subseteq Transfers
  BY SizeAssumption, KindsAssumption DEF IInv, TransferTypeOK, Transfers
<1>2. Outlasts(d, 1) /\ transferRef.id = d => transfer.id = d
  BY DEF PieceKept
<1>3. PICK c \in 0 .. Size[d] :
        /\ Carries(toPage, d, c, stream[d].sent)
        /\ Outlasts(d, 1) /\ transfer.id = d =>
             /\ \E k \in 1 .. c + 1 : Piece(chunks, d, k, c)
             /\ transferRef.id \notin Downloads => chunks = <<>>
  BY DEF PieceKept
\* Something of another transfer is at the head: d is not shown.
<1>4. ASSUME NEW t \in Transfers, t # d, Outlasts(d, 1),
             1 \in ChunksAt(toPage, t) \cup At(toPage, Info(t))
      PROVE  transfer.id # d /\ transferRef.id # d
  <2>1. infoDue = d \/ At(toPage, Info(d)) # {}
    BY <1>4 DEF DownloadsTakeTurns
  <2> QED BY <2>1 DEF DownloadsAnnounced
<1>5. ASSUME ~Spawned(d), Outlasts(d, 1)' PROVE Outlasts(d, 1)
  <2>1. Outlasts(d, 2) => Outlasts(d, 1)
    BY DEF Outlasts, At
  <2> QED BY <1>5, <2>1, OutlastsStep
\* Steps that leave what is kept, shown and carried alone.
<1>6. ASSUME ~Spawned(d), Carries(toPage', d, c, stream'[d].sent),
             UNCHANGED chunks,
             \/ UNCHANGED transferRef /\ transfer'.id = transfer.id
             \/ transferRef' = transfer /\ UNCHANGED transfer
             \/ transferRef'.id \notin Downloads /\ transfer'.id = transferRef'.id
      PROVE  Goal(d)
  BY <1>2, <1>3, <1>5, <1>6
<1>7. ASSUME NEW m \in PageMsgs, toPage' = Append(toPage, m), ~(m.type = "chunk" /\ m.id = d),
             stream'[d].sent = stream[d].sent
      PROVE  Carries(toPage', d, c, stream'[d].sent)
  BY <1>1, <1>3, <1>7, CarriesAppend
<1>8. ASSUME toPage # <<>>, toPage' = Tail(toPage), stream' = stream
      PROVE  /\ ~(Head(toPage).type = "chunk" /\ Head(toPage).id = d) =>
                  Carries(toPage', d, c, stream'[d].sent)
             /\ Head(toPage).type = "chunk" /\ Head(toPage).id = d =>
                  /\ Head(toPage) = Chunk(d, c + 1) /\ c + 1 <= stream[d].sent
                  /\ Carries(toPage', d, c + 1, stream'[d].sent)
  BY <1>1, <1>3, <1>8, CarriesTail
<1>9. CASE Spawned(d)
  <2>1. /\ toPage' = toPage /\ transfer' = transfer /\ transferRef' = transferRef
        /\ stream'[d].sent = stream[d].sent /\ transfer.id # d /\ transferRef.id # d
    BY <1>9, SpawnedSteps DEF Spawned, page
  <2> QED BY <1>3, <2>1
<1> SUFFICES ASSUME ~Spawned(d) PROVE Goal(d)
  BY <1>9
<1>10. CASE Elsewhere
  BY <1>3, <1>6, <1>7, <1>10 DEF Elsewhere
<1>11. CASE ShowsUpload \/ Rendered
  BY <1>3, <1>6, <1>11 DEF ShowsUpload, Rendered
<1>12. CASE Heard
  BY <1>6, <1>8, <1>12 DEF Heard
<1>13. ASSUME NEW e \in Downloads, HeardInfo(e) PROVE Goal(d)
  <2>1. /\ toPage # <<>> /\ toPage' = Tail(toPage) /\ Head(toPage) = Info(e)
        /\ chunks' = <<>> /\ transfer'.id = e /\ stream' = stream /\ transferRef' = transferRef
        /\ Head(toPage).type = "download:info"
    BY <1>13, DownloadMsgs DEF HeardInfo
  <2>2. Carries(toPage', d, c, stream'[d].sent)
    BY <1>8, <2>1
  <2>3. CASE e = d
    <3>1. c + 1 \in 1 .. c + 1 /\ Piece(chunks', d, c + 1, c)
      BY <1>1, <2>1, EmptyPiece
    <3> QED BY <2>1, <2>2, <2>3, <3>1
  <2>4. CASE e # d
    <3>1. 1 \in At(toPage, Info(e))
      BY <2>1, Shifted
    <3>2. Outlasts(d, 1) => transferRef.id # d
      BY <1>1, <1>4, <2>4, <3>1
    <3> QED BY <1>5, <2>1, <2>2, <2>4, <3>2
  <2> QED BY <2>3, <2>4
<1>14. ASSUME NEW t \in Transfers, NEW n \in Nat, HeardChunk(t, n) PROVE Goal(d)
  <2>1. /\ toPage # <<>> /\ toPage' = Tail(toPage) /\ Head(toPage) = Chunk(t, n)
        /\ chunks' = IF transferRef.id \in Downloads THEN Append(chunks, Chunk(t, n)) ELSE chunks
        /\ stream' = stream /\ transferRef' = transferRef /\ transfer' = transfer
        /\ Head(toPage).type = "chunk" /\ Head(toPage).id = t
    BY <1>14, MsgFields DEF HeardChunk
  <2>2. CASE t # d
    <3>1. Carries(toPage', d, c, stream'[d].sent)
      BY <1>8, <2>1, <2>2
    <3>2. 1 \in ChunksAt(toPage, t)
      BY <2>1, Shifted
    <3>3. Outlasts(d, 1) => transfer.id # d /\ transferRef.id # d
      BY <1>4, <2>2, <3>2
    <3> QED BY <1>3, <1>5, <2>1, <3>1, <3>3
  <2>3. CASE t = d
    <3>1. /\ Carries(toPage', d, c + 1, stream'[d].sent)
          /\ Chunk(t, n) = Chunk(d, c + 1) /\ c + 1 <= stream[d].sent
      BY <1>8, <2>1, <2>3
    <3>2. c + 1 \in 0 .. Size[d] /\ c \in Nat
      BY <1>1, <3>1 DEF DownloadsEnd
    <3>3. Chunk(d, c + 1) \in Chunks
      BY <1>1, <3>2, AgentMsgTypes
    <3>4. ASSUME Outlasts(d, 1)', transfer'.id = d
          PROVE  /\ \E k \in 1 .. c + 1 + 1 : Piece(chunks', d, k, c + 1)
                 /\ transferRef'.id \notin Downloads => chunks' = <<>>
      <4>1. Outlasts(d, 1) /\ transfer.id = d
        BY <1>5, <2>1, <3>4
      <4>2. CASE transferRef.id \in Downloads
        <5>1. PICK k \in 1 .. c + 1 : Piece(chunks, d, k, c)
          BY <1>3, <4>1
        <5>2. Piece(Append(chunks, Chunk(d, c + 1)), d, k, c + 1)
          BY <1>1, <3>2, <3>3, <5>1, PieceGrows
        <5>3. k \in 1 .. c + 1 + 1
          BY <3>2
        <5> QED BY <2>1, <3>1, <4>2, <5>2, <5>3
      <4>3. CASE transferRef.id \notin Downloads
        <5>1. chunks' = <<>>
          BY <1>3, <2>1, <4>1, <4>3
        <5>2. Piece(<<>>, d, c + 1 + 1, c + 1) /\ c + 1 + 1 \in 1 .. c + 1 + 1
          <6>1. c + 1 \in Nat
            BY <3>2
          <6> QED BY <6>1, EmptyPiece
        <5> QED BY <5>1, <5>2
      <4> QED BY <4>2, <4>3
    <3>5. Outlasts(d, 1)' /\ transferRef'.id = d => transfer'.id = d
      BY <1>2, <1>5, <2>1
    <3> QED BY <3>1, <3>2, <3>4, <3>5
  <2> QED BY <2>2, <2>3
<1>15. ASSUME NEW e \in Downloads, HeardEnd(e) PROVE Goal(d)
  <2>1. /\ toPage # <<>> /\ toPage' = Tail(toPage) /\ Head(toPage) = End(e)
        /\ stream' = stream /\ transferRef' = transferRef
        /\ \/ transferRef.id = e /\ transfer'.id = e
           \/ UNCHANGED <<transfer, chunks>>
        /\ Head(toPage).type = "download:complete"
    BY <1>15, DownloadMsgs DEF HeardEnd
  <2>2. Carries(toPage', d, c, stream'[d].sent)
    BY <1>8, <2>1
  <2>3. CASE e = d
    <3>1. At(toPage', End(d)) = {} /\ At(toPage, End(d)) # {}
      BY <2>1, <2>3, Shifted DEF DownloadsEnd
    <3>2. ~Outlasts(d, 1)'
      BY <2>1, <3>1 DEF Outlasts, DownloadsEnd
    <3> QED BY <2>2, <3>2
  <2>4. CASE transferRef.id = e /\ transfer'.id = e /\ e # d
    BY <2>1, <2>2, <2>4
  <2>5. CASE UNCHANGED <<transfer, chunks>>
    BY <1>6, <2>1, <2>2, <2>5
  <2> QED BY <2>1, <2>3, <2>4, <2>5
<1>16. ASSUME NEW e \in Downloads, Announces(e) PROVE Goal(d)
  BY <1>6, <1>7, <1>16, DownloadMsgs DEF Announces
<1>17. ASSUME NEW e \in Downloads, Spawned(e) PROVE Goal(d)
  <2>1. toPage' = toPage /\ UNCHANGED <<transfer, transferRef, chunks>>
    BY <1>17 DEF Spawned, page
  <2>2. stream'[d] = stream[d]
    BY <1>17, SpawnedSteps
  <2> QED BY <1>3, <1>6, <2>1, <2>2
<1>18. ASSUME NEW e \in Downloads, Stream(e) PROVE Goal(d)
  <2>1. UNCHANGED <<transfer, transferRef, chunks>>
    BY <1>18, StreamSteps DEF page
  <2>2. Carries(toPage', d, c, stream'[d].sent)
    <3>1. stream[e].sent + 1 \in Nat
      BY <1>1
    <3>2. CASE e # d
      <4>1. stream'[d] = stream[d]
        BY <1>18, <3>2, StreamSteps
      <4> QED BY <1>3, <1>7, <1>18, <3>1, <3>2, <4>1, StreamSteps, DownloadMsgs
    <3>3. CASE e = d /\ stream'[d].sent = stream[d].sent
      <4>1. \/ toPage' = toPage
            \/ toPage' = Append(toPage, End(d)) \/ toPage' = Append(toPage, Msg("file:error", d))
        BY <1>1, <1>18, <3>3, StreamSteps
      <4> QED BY <1>3, <1>7, <3>3, <4>1, DownloadMsgs
    <3>4. CASE /\ e = d /\ stream'[d].sent = stream[d].sent + 1
               /\ toPage' = Append(toPage, Chunk(d, stream[d].sent + 1))
      <4>1. Chunk(d, stream[d].sent + 1) \in AgentMsgs \cup PageMsgs
        BY <3>1, <3>4, DownloadMsgs
      <4>2. Carries(Append(toPage, Chunk(d, stream[d].sent + 1)), d, c, stream[d].sent + 1)
        BY <1>1, <1>3, <4>1, CarriesAppend
      <4> QED BY <3>4, <4>2
    <3> QED BY <1>18, <3>2, <3>3, <3>4, StreamSteps
  <2> QED BY <1>6, <2>1, <2>2
<1> QED BY <1>10, <1>11, <1>12, <1>13, <1>14, <1>15, <1>16, <1>17, <1>18, DownloadSteps

LEMMA SavedStep ==
  ASSUME IInv, HistoryInv, DownloadsEnd, PieceKept, SavedPiece, [Next]_vars,
         cancelled' \cap Downloads = {}
  PROVE  SavedPiece'
<1> SUFFICES ASSUME NEW d \in Downloads
             PROVE  \E k \in 1 .. Size[d] + 1 : Piece(saved'[d], d, k, Size[d])
  BY DEF SavedPiece
<1>1. /\ saved \in [Downloads -> Seq(Chunks)] /\ Size[d] \in Nat
      /\ stream \in [Downloads -> [state : {"none", "running", "ending", "ended"}, sent : Nat]]
  BY SizeAssumption DEF IInv, TransferTypeOK, Transfers
<1>2. CASE saved'[d] = saved[d]
  BY <1>2 DEF SavedPiece
<1>3. ASSUME HeardEnd(d), saved' = [saved EXCEPT ![d] = chunks], transferRef.id = d
      PROVE  \E k \in 1 .. Size[d] + 1 : Piece(saved'[d], d, k, Size[d])
  <2>1. 1 \in At(toPage, End(d))
    BY <1>3, Shifted DEF HeardEnd
  <2>2. stream[d].sent = Size[d] /\ ChunksAt(toPage, d) = {} /\ Outlasts(d, 1)
    <3>1. \A j \in ChunksAt(toPage, d) : j < 1 /\ j \in Nat \ {0}
      BY <2>1 DEF DownloadsEnd, ChunksAt
    <3> QED BY <2>1, <3>1 DEF DownloadsEnd, Outlasts
  <2>3. PICK c \in 0 .. Size[d] :
          /\ Carries(toPage, d, c, stream[d].sent)
          /\ \E k \in 1 .. c + 1 : Piece(chunks, d, k, c)
    BY <1>3, <2>2 DEF PieceKept
  <2>4. c = Size[d]
    <3>1. c \in Nat /\ stream[d].sent \in Nat
      BY <1>1
    <3> QED BY <2>2, <2>3, <3>1, CarriesNone
  <2> QED BY <1>1, <1>3, <2>3, <2>4
<1>4. ASSUME NEW e \in Downloads, HeardEnd(e)
      PROVE  saved'[d] = saved[d] \/ (e = d /\ saved' = [saved EXCEPT ![d] = chunks] /\ transferRef.id = d)
  BY <1>1, <1>4 DEF HeardEnd
<1>5. CASE \E e \in Downloads : Spawned(e) \/ Stream(e)
  BY <1>2, <1>5, StreamSteps DEF Spawned, page
<1> QED BY <1>2, <1>3, <1>4, <1>5, DownloadSteps DEF Elsewhere, ShowsUpload, Rendered, Heard,
           HeardChunk, HeardInfo, Announces

\* A piece that ends with the last chunk is the end of the file.
LEMMA PieceIs ==
  ASSUME NEW q \in Seq(Chunks), NEW t \in Transfers, NEW k \in 1 .. Size[t] + 1,
         Piece(q, t, k, Size[t])
  PROVE  q = SubSeq(Whole(t), k, Size[t]) /\ (k = 1 => q = Whole(t))
<1>1. Size[t] \in Nat /\ Len(q) = Size[t] + 1 - k /\ \A i \in 1 .. Len(q) : q[i] = Chunk(t, k + i - 1)
  BY SizeAssumption DEF Piece
<1>2. /\ Whole(t) \in Seq(Chunks) /\ Len(Whole(t)) = Size[t]
      /\ \A n \in 1 .. Size[t] : Whole(t)[n] = Chunk(t, n)
  <2>1. Whole(t) = [n \in 1 .. Size[t] |-> Chunk(t, n)]
    BY DEF Whole
  <2>2. \A n \in 1 .. Size[t] : Chunk(t, n) \in Chunks
    BY <1>1, AgentMsgTypes
  <2>3. Whole(t) \in Seq(Chunks)
    <3>1. Whole(t) \in [1 .. Size[t] -> Chunks]
      BY <2>1, <2>2
    <3>2. Whole(t) \in UNION {[1 .. n -> Chunks] : n \in Nat}
      BY <1>1, <3>1
    <3> QED BY <3>2, SeqDef, Zenon
  <2> QED BY <1>1, <2>1, <2>3
<1>3. /\ SubSeq(Whole(t), k, Size[t]) \in Seq(Chunks)
      /\ Len(SubSeq(Whole(t), k, Size[t])) = Size[t] + 1 - k
      /\ \A i \in 1 .. Size[t] + 1 - k : SubSeq(Whole(t), k, Size[t])[i] = Chunk(t, k + i - 1)
  <2>1. \A i \in k .. Size[t] : Whole(t)[i] \in Chunks
    BY <1>1, <1>2, AgentMsgTypes
  <2> QED BY <1>1, <1>2, <2>1, SubSeqProperties
<1>4. q = SubSeq(Whole(t), k, Size[t])
  BY <1>1, <1>3, SeqEqual
<1>5. k = 1 => q = Whole(t)
  BY <1>1, <1>2, SeqEqual
<1> QED BY <1>4, <1>5

LEMMA DownloadsInvariant ==
  Spec => [](IInv /\ HistoryInv /\ (cancelled \cap Downloads = {} => DownloadsInv))
<1>1. Init => DownloadsInv
  <2> SUFFICES ASSUME Init PROVE DownloadsInv
    OBVIOUS
  <2>1. \A m, t : At(toPage, m) = {} /\ Once(toPage, m) /\ ChunksAt(toPage, t) = {}
    BY DEF Init, At, Once, ChunksAt
  <2>2. \A d \in Downloads : /\ stream[d].state = "none" /\ stream[d].sent = 0 /\ d # NoTransfer
                             /\ saved[d] = <<>> /\ Size[d] \in Nat
    BY SizeAssumption, KindsAssumption DEF Init, Transfers
  <2>3. infoDue = NoTransfer /\ transfer.id = NoTransfer /\ transferRef.id = NoTransfer
    BY DEF Init, Nothing, Shown
  <2>4. OneStream /\ DownloadsUnseen /\ DownloadsAnnounced /\ DownloadsTakeTurns
    BY <2>1, <2>2, <2>3 DEF OneStream, DownloadsUnseen, DownloadsAnnounced, DownloadsTakeTurns
  <2>5. DownloadsEnd
    BY <2>1, <2>2 DEF DownloadsEnd
  <2>6. PieceKept
    <3>1. ASSUME NEW d \in Downloads PROVE 0 \in 0 .. Size[d] /\ Carries(toPage, d, 0, stream[d].sent)
      BY <2>1, <2>2, CarriesNone
    <3> QED BY <2>2, <2>3, <3>1 DEF PieceKept
  <2>7. SavedPiece
    BY <2>2, EmptyPiece DEF SavedPiece
  <2> QED BY <2>4, <2>5, <2>6, <2>7 DEF DownloadsInv
<1>2. IInv /\ HistoryInv /\ (cancelled \cap Downloads = {} => DownloadsInv) /\ [Next]_vars
        => (cancelled \cap Downloads = {} => DownloadsInv)'
  <2> SUFFICES ASSUME IInv, HistoryInv, [Next]_vars, cancelled' \cap Downloads = {},
                      cancelled \cap Downloads = {} => DownloadsInv
               PROVE  DownloadsInv'
    OBVIOUS
  <2>1. DownloadsInv
    BY Grows
  <2> QED BY <2>1, OneStreamStep, UnseenStep, AnnouncedStep, EndStep, TurnsStep, KeptStep,
             SavedStep DEF DownloadsInv
<1> QED BY <1>1, <1>2, HistoryInvariant, PTL DEF Spec

\* As long as the user cancels no download, what the browser saves for one is
\* the end of its file: finishDownload joins whatever chunks are at hand, and
\* the tasks, the announcements and the rendering of the panel leave it none of
\* another transfer.
THEOREM SavedIsItsEnd == Spec => []SavedIsOwn
<1>1. IInv /\ (cancelled \cap Downloads = {} => DownloadsInv) => SavedIsOwn
  <2> SUFFICES ASSUME IInv, DownloadsInv, NEW d \in Downloads
               PROVE  \E k \in 1 .. Size[d] + 1 : saved[d] = SubSeq(Whole(d), k, Size[d])
    BY DEF SavedIsOwn
  <2>1. PICK k \in 1 .. Size[d] + 1 : Piece(saved[d], d, k, Size[d])
    BY DEF DownloadsInv, SavedPiece
  <2>2. saved[d] \in Seq(Chunks) /\ d \in Transfers
    BY DEF IInv, TransferTypeOK, Transfers
  <2> QED BY <2>1, <2>2, PieceIs
<1> QED BY <1>1, DownloadsInvariant, PTL

-------------------------------------------------------------------------------
(* Uploads, as long as the user cancels nothing.                            *)

\* Only the upload in progress has, or will have, a loop.
LoopsActive ==
  \A u \in Uploads :
    /\ loop[u].state # "off" => active = u
    /\ At(toPage, Ready(u)) # {} => active = u /\ loop[u].state = "off"
    /\ Once(toPage, Ready(u))

\* The panel turned to another transfer before the upload was complete: it
\* stays in progress for good.
Lost == active \in Uploads /\ transferRef.id # active /\ At(toAgent, Complete(active)) = {}

\* Nothing of an upload is on its way to an agent that has none in progress.
UploadsQuiet ==
  \A t \in Transfers :
    /\ ChunksAt(toAgent, t) # {} => active \in Uploads
    /\ At(toAgent, Complete(t)) # {} => active \in Uploads /\ (t = active \/ Lost)

\* An upload in progress is about to be read, is being read, or was read to its
\* end; what the agent has written and what is on its way is the file so far.
Accepting(u) ==
  /\ At(toPage, Ready(u)) # {} /\ At(toAgent, Complete(u)) = {}
  /\ Carries(toAgent, u, Len(stored[u]), 0)

Sending(u) ==
  /\ loop[u].state # "off" /\ loop[u].file = u /\ uploadOffset <= Size[u]
  /\ loop[u].state = "reading" => loop[u].at = uploadOffset /\ uploadOffset < Size[u]
  /\ At(toAgent, Complete(u)) = {}
  /\ Carries(toAgent, u, Len(stored[u]), uploadOffset)

Sent(u) ==
  /\ At(toPage, Ready(u)) = {} /\ loop[u].state = "off"
  /\ At(toAgent, Complete(u)) # {} /\ Once(toAgent, Complete(u))
  /\ \A i \in At(toAgent, Complete(u)), j \in ChunksAt(toAgent, u) : j < i
  /\ Carries(toAgent, u, Len(stored[u]), Size[u])

UploadSoFar ==
  \A u \in Uploads : active = u /\ ~Lost =>
    /\ Piece(stored[u], u, 1, Len(stored[u]))
    /\ \A t \in Transfers : t # u => ChunksAt(toAgent, t) = {}
    /\ Accepting(u) \/ Sending(u) \/ Sent(u)

\* A reported upload is stored whole.
ReportedWhole == \A u \in Uploads : Reported(u) => Piece(stored[u], u, 1, Size[u])

UploadsInv == LoopsActive /\ UploadsQuiet /\ UploadSoFar /\ ReportedWhole

\* What a step is to the uploads. Nothing, or something else is on the channel,
\* or the agent turns from one download to another.
Aside ==
  /\ UNCHANGED <<uploadFile, uploadOffset, loop, stored, transferRef>>
  /\ active' = active \/ (active \notin Uploads /\ active' \notin Uploads)
  /\ \/ UNCHANGED toAgent
     \/ \E m \in AgentMsgs : m.type \notin {"chunk", "upload:complete"} /\ toAgent' = Append(toAgent, m)
     \/ /\ toAgent # <<>> /\ toAgent' = Tail(toAgent)
        /\ Head(toAgent).type # "chunk" /\ (active \in Uploads => Head(toAgent) # Complete(active))
  /\ \/ UNCHANGED toPage
     \/ \E m \in PageMsgs : m.type # "upload:ready" /\ toPage' = Append(toPage, m)
     \/ toPage # <<>> /\ toPage' = Tail(toPage) /\ Head(toPage).type # "upload:ready"

\* The user selects one, and it is shown at once; what is shown is rendered.
Selects(u) ==
  /\ u \notin started /\ uploadFile' = u /\ transferRef'.id = u
  /\ toAgent' = Append(toAgent, Begin(u))
  /\ UNCHANGED <<toPage, uploadOffset, loop, active, stored>>

Renders ==
  /\ transferRef' = transfer
  /\ UNCHANGED <<toAgent, toPage, uploadFile, uploadOffset, loop, active, stored>>

\* A loop starts.
HeardReady(u) ==
  /\ toPage # <<>> /\ toPage' = Tail(toPage) /\ Head(toPage) = Ready(u)
  /\ uploadOffset' = 0
  /\ SendNextChunk(u, uploadFile, 0, toAgent)
  /\ UNCHANGED <<uploadFile, active, stored, transferRef>>

LEMMA UploadSteps ==
  ASSUME IInv, HistoryInv, OneStream, [Next]_vars, cancelled' = {}
  PROVE  \/ Aside \/ Renders \/ RecvChunk
         \/ \E u \in Uploads : Selects(u) \/ HeardReady(u) \/ Loop(u) \/ Accepted(u) \/ Completed(u)
<1>1. /\ TransferTypeOK /\ Uploads \cap Downloads = {} /\ NoTransfer \notin Transfers /\ cancelled = {}
      /\ Downloads \subseteq Transfers
  BY KindsAssumption, Grows DEF IInv, Transfers
<1>2. CASE PageReceives
  <2> DEFINE m == Head(toPage)
  <2>1. ASSUME NEW type, PageTakes(type)
        PROVE  toPage # <<>> /\ toPage' = Tail(toPage) /\ m \in PageMsgs /\ m.type = type
    BY <2>1, PageTaking DEF PageTakes
  <2>2. CASE PageReady
    <3>1. m.id \in Uploads /\ m = Ready(m.id) /\ PageId = m.id
      BY <2>1, <2>2, PageMsgTypes, MsgIs DEF PageReady, Ready, PageId
    <3>2. HeardReady(m.id)
      BY <2>1, <2>2, <3>1 DEF PageReady, HeardReady, agent
    <3> QED BY <3>1, <3>2
  <2>3. CASE ~PageReady
    <3>1. \E type : type # "upload:ready" /\ PageTakes(type)
      BY <1>2, <2>3 DEF PageReceives, PageError, PageFinished, PageInfo, PageChunk, PageComplete
    <3>2. UNCHANGED <<toAgent, uploadFile, uploadOffset, loop, stored, transferRef, active>>
      BY <1>2, <2>3 DEF PageReceives, PageError, PageFinished, PageInfo, PageChunk, PageComplete, agent
    <3> QED BY <2>1, <3>1, <3>2 DEF Aside
  <2> QED BY <2>2, <2>3
<1>3. CASE User
  <2>1. ASSUME NEW d \in Downloads, SelectDownload(d) PROVE Aside
    <3>1. Msg("download:start", d) \in AgentMsgs /\ Msg("download:start", d).type = "download:start"
      BY AgentMsgTypes, MsgFields
    <3> QED BY <2>1, <3>1 DEF SelectDownload, Aside, agent
  <2>2. ASSUME NEW u \in Uploads, SelectUpload(u) PROVE Selects(u)
    BY <2>2 DEF SelectUpload, Start, Show, Shown, Selects, Begin, agent
  <2>3. ~Cancel
    BY <1>1 DEF Cancel
  <2> QED BY <1>3, <2>1, <2>2, <2>3 DEF User
<1>4. CASE AgentReceives
  <2>1. CASE Ignored
    <3>1. \A t \in Transfers : Msg("file:error", t) \in PageMsgs /\ Msg("file:error", t).type = "file:error"
      BY PageMsgTypes, MsgFields
    <3>2. Head(toAgent).type # "chunk" /\ (active \in Uploads => Head(toAgent) # Complete(active))
      BY <2>1, MsgFields DEF Ignored, Complete
    <3> QED BY <2>1, <3>1, <3>2 DEF Ignored, Aside, page, agent
  <2>2. CASE \E d \in Downloads : Spawned(d)
    <3>1. PICK d \in Downloads : Spawned(d)
      BY <2>2
    <3>2. Head(toAgent).type = "download:start" /\ Complete(active).type = "upload:complete"
      BY <3>1, MsgFields DEF Spawned, Begins, Complete
    <3> QED BY <1>1, <3>1, <3>2 DEF Spawned, Aside, page, Transfers
  <2>3. ~RecvCancel
    <3>1. SUFFICES ASSUME RecvCancel PROVE FALSE
      OBVIOUS
    <3>2. AgentTakes("transfer:cancel") /\ Head(toAgent) \in AgentMsgs
      BY <3>1, AgentTaking DEF RecvCancel
    <3>3. Head(toAgent) = Cancels(Head(toAgent).id) /\ Head(toAgent).id \in Transfers
      BY <3>2, AgentTaking, AgentMsgTypes, MsgIs DEF Cancels
    <3>4. At(toAgent, Cancels(Head(toAgent).id)) # {}
      BY <3>2, <3>3, TailAt DEF IInv, TransferTypeOK, AgentTakes
    <3> QED BY <1>1, <3>3, <3>4 DEF HistoryInv, CancelsAsked
  <2>4. CASE SendInfo
    <3>1. infoDue \in Downloads
      BY <1>1, <2>4 DEF SendInfo, TransferTypeOK
    <3>2. Msg("download:info", infoDue) \in PageMsgs /\ Msg("download:info", infoDue).type = "download:info"
      BY <3>1, PageMsgTypes, MsgFields
    <3> QED BY <2>4, <3>2 DEF SendInfo, Aside, page
  <2> QED BY <1>4, <2>1, <2>2, <2>3, <2>4, AgentSteps
<1>5. ASSUME NEW d \in Downloads, Stream(d) PROVE Aside
  <2>1. UNCHANGED <<toAgent, page, stored>>
    BY <1>5, StreamSteps
  <2>2. active' = active \/ (active \notin Uploads /\ active' \notin Uploads)
    BY <1>1, <1>5 DEF Stream, StreamChunk, StreamComplete, StreamFail, StreamRelease, OneStream, Transfers
  <2>3. toPage' = toPage \/ \E m \in PageMsgs : m.type # "upload:ready" /\ toPage' = Append(toPage, m)
    <3>1. stream[d].sent + 1 \in Nat
      BY <1>1 DEF TransferTypeOK
    <3> QED BY <1>5, <3>1, StreamSteps, DownloadMsgs
  <2> QED BY <2>1, <2>2, <2>3 DEF Aside, page
<1>6. CASE Render
  BY <1>6 DEF Render, Renders, agent
<1>7. CASE UNCHANGED vars
  BY <1>7 DEF vars, page, agent, Aside
<1> QED BY <1>2, <1>3, <1>4, <1>5, <1>6, <1>7 DEF Next

\* What is on its way to the agent after something else was sent or taken.
LEMMA OtherMessage ==
  ASSUME NEW q \in Seq(AgentMsgs), NEW r, NEW u,
         \/ \E m \in AgentMsgs : /\ m.type \notin {"chunk", "upload:complete"} /\ r = Append(q, m)
         \/ q # <<>> /\ r = Tail(q) /\ Head(q).type # "chunk" /\ Head(q) # Complete(u)
         \/ r = q
  PROVE  /\ At(r, Complete(u)) = {} <=> At(q, Complete(u)) = {}
         /\ Once(q, Complete(u)) => Once(r, Complete(u))
         /\ \A t : ChunksAt(q, t) = {} => ChunksAt(r, t) = {}
         /\ \A t : At(q, Complete(t)) = {} => At(r, Complete(t)) = {}
         /\ \A c, e : Carries(q, u, c, e) => Carries(r, u, c, e)
         /\ (\A i \in At(q, Complete(u)), j \in ChunksAt(q, u) : j < i) =>
              \A i \in At(r, Complete(u)), j \in ChunksAt(r, u) : j < i
<1>1. q \in Seq(AgentMsgs \cup PageMsgs) /\ \A t : Complete(t).type = "upload:complete"
  BY MsgFields DEF Complete
<1>2. ASSUME NEW m \in AgentMsgs, m.type \notin {"chunk", "upload:complete"}, r = Append(q, m)
      PROVE  /\ \A t : At(r, Complete(t)) = At(q, Complete(t)) /\ (Once(q, Complete(t)) => Once(r, Complete(t)))
             /\ \A t : ChunksAt(r, t) = ChunksAt(q, t)
             /\ \A c, e : Carries(q, u, c, e) => Carries(r, u, c, e)
  <2>2. ASSUME NEW t PROVE ChunksAt(r, t) = ChunksAt(q, t)
    <3>1. \A i : i \in ChunksAt(r, t) <=> i \in ChunksAt(q, t)
      BY <1>2, ChunksAppend
    <3> QED BY <3>1, Zenon
  <2>3. \A c, e : Carries(q, u, c, e) => Carries(r, u, c, e)
    BY <1>1, <1>2, CarriesAppend
  <2> QED BY <1>1, <1>2, <2>2, <2>3, AppendAt
<1>3. ASSUME q # <<>>, r = Tail(q), Head(q).type # "chunk", Head(q) # Complete(u)
      PROVE  /\ At(r, Complete(u)) = {} <=> At(q, Complete(u)) = {}
             /\ Once(q, Complete(u)) => Once(r, Complete(u))
             /\ \A t : ChunksAt(q, t) = {} => ChunksAt(r, t) = {}
             /\ \A t : At(q, Complete(t)) = {} => At(r, Complete(t)) = {}
             /\ \A c, e : Carries(q, u, c, e) => Carries(r, u, c, e)
             /\ (\A i \in At(q, Complete(u)), j \in ChunksAt(q, u) : j < i) =>
                  \A i \in At(r, Complete(u)), j \in ChunksAt(r, u) : j < i
  <2>1. At(r, Complete(u)) = {} <=> At(q, Complete(u)) = {}
    BY <1>3, AtTail, TailAt
  <2>2. \A t : ChunksAt(q, t) = {} => ChunksAt(r, t) = {}
    BY <1>3, ChunksTail
  <2>3. \A t : At(q, Complete(t)) = {} => At(r, Complete(t)) = {}
    BY <1>3, TailAt
  <2>4. \A c, e : Carries(q, u, c, e) => Carries(r, u, c, e)
    BY <1>1, <1>3, CarriesTail
  <2>5. ASSUME \A i \in At(q, Complete(u)), j \in ChunksAt(q, u) : j < i,
               NEW i \in At(r, Complete(u)), NEW j \in ChunksAt(r, u)
        PROVE  j < i
    <3>1. i + 1 \in At(q, Complete(u)) /\ j + 1 \in ChunksAt(q, u)
      BY <1>3, AtTail, ChunksTail
    <3>2. i \in Int /\ j \in Int
      BY DEF At, ChunksAt
    <3> QED BY <2>5, <3>1, <3>2
  <2> QED BY <1>3, <2>1, <2>2, <2>3, <2>4, <2>5, TailAt
<1> QED BY <1>2, <1>3

\* A loop goes on to wait or to read, or the upload is completed.
LEMMA LoopPhase ==
  ASSUME IInv, NEW u \in Uploads, NEW off \in Nat, off <= Size[u], NEW q \in Seq(AgentMsgs),
         SendNextChunk(u, u, off, q), Carries(q, u, Len(stored[u]), off),
         At(q, Complete(u)) = {}, transferRef.id = u,
         uploadOffset' = off, stored' = stored, At(toPage', Ready(u)) = {}
  PROVE  /\ Sending(u)' \/ Sent(u)'
         /\ \A t : ChunksAt(q, t) = {} => ChunksAt(toAgent', t) = {}
<1>1. /\ loop \in [Uploads -> [state : {"off", "waiting", "reading"},
                               file : Uploads \cup {NoTransfer}, at : Nat]]
      /\ Size[u] \in Nat /\ transferRef # Nothing
      /\ Complete(u) \in AgentMsgs /\ Complete(u).type = "upload:complete"
  BY SizeAssumption, KindsAssumption, AgentMsgTypes, MsgFields, SMTT(30)
     DEF IInv, TransferTypeOK, Complete, Transfers, Nothing, Shown
<1>2. CASE /\ loop' = [loop EXCEPT ![u] = [state |-> "waiting", file |-> u, at |-> 0]]
           /\ toAgent' = q
  <2>1. loop'[u].state = "waiting" /\ loop'[u].file = u
    BY <1>1, <1>2
  <2>2. Sending(u)'
    BY <1>2, <2>1 DEF Sending
  <2> QED BY <1>2, <2>2
<1>3. CASE /\ off < Size[u]
           /\ loop' = [loop EXCEPT ![u] = [state |-> "reading", file |-> u, at |-> off]]
           /\ toAgent' = q
  <2>1. loop'[u].state = "reading" /\ loop'[u].file = u /\ loop'[u].at = off
    BY <1>1, <1>3
  <2>2. Sending(u)'
    BY <1>3, <2>1 DEF Sending
  <2> QED BY <1>3, <2>2
<1>4. CASE /\ off >= Size[u]
           /\ loop' = [loop EXCEPT ![u] = [state |-> "off", file |-> u, at |-> 0]]
           /\ toAgent' = Append(q, Complete(u))
  <2>1. loop'[u].state = "off" /\ off = Size[u]
    BY <1>1, <1>4
  <2>2. At(toAgent', Complete(u)) # {} /\ Once(toAgent', Complete(u))
    BY <1>1, <1>4, AppendAt
  <2>3. \A t, i : i \in ChunksAt(toAgent', t) <=> i \in ChunksAt(q, t)
    BY <1>1, <1>4, ChunksAppend
  <2>4. ASSUME NEW i \in At(toAgent', Complete(u)), NEW j \in ChunksAt(toAgent', u) PROVE j < i
    <3>1. i = Len(q) + 1
      BY <1>1, <1>4, AtAppend
    <3>2. j \in 1 .. Len(q)
      BY <2>3 DEF ChunksAt
    <3> QED BY <3>1, <3>2
  <2>5. Carries(toAgent', u, Len(stored[u]), off)
    <3>1. q \in Seq(AgentMsgs \cup PageMsgs)
      OBVIOUS
    <3> QED BY <1>1, <1>4, <3>1, CarriesAppend
  <2>6. Sent(u)'
    BY <2>1, <2>2, <2>4, <2>5 DEF Sent
  <2> QED BY <2>3, <2>6
<1> QED BY <1>1, <1>2, <1>3, <1>4 DEF SendNextChunk, Complete

\* Whoever the completion names, it was sent by the loop of an upload that was
\* read to its end.
LEMMA LoopMessages ==
  ASSUME IInv, NEW u \in Uploads, HeardReady(u) \/ Loop(u), NEW x
  PROVE  /\ At(toAgent', Complete(x)) # {} => At(toAgent, Complete(x)) # {} \/ x = transferRef.id
         /\ x # u /\ x \in Uploads => loop'[x] = loop[x]
         /\ UNCHANGED <<stored, active, transferRef, uploadFile>>
         /\ Loop(u) => toPage' = toPage /\ loop[u].state # "off"
<1>1. /\ toAgent \in Seq(AgentMsgs) /\ transferRef \in States
      /\ loop \in [Uploads -> [state : {"off", "waiting", "reading"},
                               file : Uploads \cup {NoTransfer}, at : Nat]]
  BY DEF IInv, TransferTypeOK
<1>2. ASSUME NEW q \in Seq(AgentMsgs), NEW f, NEW off, SendNextChunk(u, f, off, q)
      PROVE  /\ At(toAgent', Complete(x)) # {} => At(q, Complete(x)) # {} \/ x = transferRef.id
             /\ x # u /\ x \in Uploads => loop'[x] = loop[x]
  <2>1. transferRef # Nothing => Complete(transferRef.id) \in AgentMsgs
    BY <1>1, StateTypes, AgentMsgTypes DEF Complete
  <2>2. x # transferRef.id => Complete(transferRef.id) # Complete(x)
    BY MsgFields DEF Complete
  <2>3. toAgent' = q \/ (transferRef # Nothing /\ toAgent' = Append(q, Complete(transferRef.id)))
    BY <1>2 DEF SendNextChunk, Complete
  <2>4. At(toAgent', Complete(x)) # {} => At(q, Complete(x)) # {} \/ x = transferRef.id
    <3>1. CASE transferRef # Nothing /\ x # transferRef.id
      <4>1. At(Append(q, Complete(transferRef.id)), Complete(x)) = At(q, Complete(x))
        BY <1>2, <2>1, <2>2, <3>1, AppendAt
      <4> QED BY <2>3, <4>1
    <3> QED BY <2>3, <3>1
  <2> QED BY <1>1, <1>2, <2>4 DEF SendNextChunk
<1>3. Loop(u) => toPage' = toPage /\ loop[u].state # "off"
  BY DEF Loop, LoopResume, LoopSend
<1>4. CASE HeardReady(u)
  <2>1. SendNextChunk(u, uploadFile, 0, toAgent) /\ UNCHANGED <<stored, active, transferRef, uploadFile>>
    BY <1>4 DEF HeardReady
  <2> QED BY <1>1, <1>2, <1>3, <2>1
<1>5. CASE LoopResume(u)
  BY <1>1, <1>2, <1>5 DEF LoopResume, agent
<1>6. CASE LoopSend(u)
  <2>1. loop[u].file \in Uploads /\ loop[u].at + 1 \in Nat
    BY <1>1, <1>6 DEF LoopSend, IInv, FileSelected
  <2> DEFINE m == Chunk(loop[u].file, loop[u].at + 1)
             q == Append(toAgent, m)
  <2>2. m \in AgentMsgs /\ m.type = "chunk" /\ q \in Seq(AgentMsgs)
    BY <1>1, <2>1, AgentMsgTypes, MsgFields, Appended DEF Transfers
  <2>3. m # Complete(x)
    BY <2>2, MsgFields DEF Complete
  <2>4. At(q, Complete(x)) = At(toAgent, Complete(x))
    BY <1>1, <2>2, <2>3, AppendAt
  <2>5. /\ SendNextChunk(u, loop[u].file, uploadOffset + 1, q)
        /\ UNCHANGED <<stored, active, transferRef, uploadFile, toPage>> /\ loop[u].state # "off"
    BY <1>6 DEF LoopSend, agent
  <2> QED BY <1>2, <1>6, <2>2, <2>4, <2>5
<1> QED BY <1>4, <1>5, <1>6 DEF Loop, LoopResume, LoopSend

\* An upload that was left behind stays so.
LEMMA LostStep ==
  ASSUME IInv, HistoryInv, OneStream, [Next]_vars, cancelled' = {}, Lost
  PROVE  Lost' /\ active' = active
<1>1. /\ active \in Uploads /\ transferRef.id # active /\ At(toAgent, Complete(active)) = {}
      /\ toAgent \in Seq(AgentMsgs) /\ NoTransfer \notin Transfers /\ Uploads \subseteq Transfers
  BY KindsAssumption DEF Lost, IInv, TransferTypeOK, Transfers
<1>2. /\ active \in started
      /\ transfer.id = active => transferRef.id = active
  BY <1>1 DEF HistoryInv, UploadsAsked, UploadShown
<1>3. CASE Aside
  BY <1>1, <1>3, OtherMessage DEF Aside, Lost
<1>4. CASE Renders
  BY <1>1, <1>2, <1>4 DEF Renders, Lost
<1>5. CASE RecvChunk
  <2>1. toAgent # <<>> /\ toAgent' = Tail(toAgent) /\ active' = active /\ transferRef' = transferRef
    BY <1>5 DEF RecvChunk, AgentTakes, page
  <2> QED BY <1>1, <2>1, TailAt DEF Lost
<1>6. ASSUME NEW u \in Uploads, Selects(u) PROVE Lost' /\ active' = active
  <2>1. Begin(u) \in AgentMsgs /\ Begin(u).type = "upload:start"
    BY AgentMsgTypes, MsgFields DEF Begin
  <2>2. At(toAgent', Complete(active)) = {}
    BY <1>1, <1>6, <2>1, OtherMessage DEF Selects
  <2> QED BY <1>1, <1>2, <1>6, <2>2 DEF Selects, Lost
<1>7. ASSUME NEW u \in Uploads, HeardReady(u) \/ Loop(u) PROVE Lost' /\ active' = active
  <2>1. active' = active /\ transferRef' = transferRef
    BY <1>7, LoopMessages
  <2>2. At(toAgent', Complete(active)) = {}
    BY <1>1, <1>7, LoopMessages
  <2> QED BY <1>1, <2>1, <2>2 DEF Lost
<1>8. ASSUME NEW u \in Uploads, Accepted(u) PROVE FALSE
  BY <1>1, <1>8 DEF Accepted
<1>9. ASSUME NEW u \in Uploads, Completed(u) PROVE FALSE
  BY <1>1, <1>9, TailAt DEF Completed
<1> QED BY <1>3, <1>4, <1>5, <1>6, <1>7, <1>8, <1>9, UploadSteps

\* Where an upload in progress that was not left behind stands.
LEMMA Standing ==
  ASSUME LoopsActive, UploadSoFar, NEW u \in Uploads, active = u, ~Lost
  PROVE  /\ At(toPage, Ready(u)) # {} => Accepting(u)
         /\ loop[u].state # "off" => Sending(u)
         /\ At(toAgent, Complete(u)) # {} => Sent(u)
         /\ At(toAgent, Complete(u)) = {} => transferRef.id = u
BY DEF LoopsActive, UploadSoFar, Accepting, Sending, Sent, Lost

LEMMA LoopsStep ==
  ASSUME IInv, HistoryInv, OneStream, LoopsActive, UploadSoFar, [Next]_vars, cancelled' = {}
  PROVE  LoopsActive'
<1> DEFINE Goal(u) == /\ loop'[u].state # "off" => active' = u
                      /\ At(toPage', Ready(u)) # {} => active' = u /\ loop'[u].state = "off"
                      /\ Once(toPage', Ready(u))
<1> SUFFICES ASSUME NEW u \in Uploads PROVE Goal(u)
  BY DEF LoopsActive
<1>1. /\ toPage \in Seq(PageMsgs) /\ toAgent \in Seq(AgentMsgs)
      /\ NoTransfer \notin Uploads /\ Ready(u).type = "upload:ready" /\ Ready(u).id = u
  BY KindsAssumption, MsgFields DEF IInv, TransferTypeOK, Transfers, Ready
<1>2. /\ loop[u].state # "off" => active = u
      /\ At(toPage, Ready(u)) # {} => active = u /\ loop[u].state = "off"
      /\ Once(toPage, Ready(u))
  BY DEF LoopsActive
<1>3. ASSUME NEW m \in PageMsgs, toPage' = Append(toPage, m), m # Ready(u)
      PROVE  At(toPage', Ready(u)) = At(toPage, Ready(u)) /\ Once(toPage', Ready(u))
  BY <1>1, <1>2, <1>3, AppendAt
<1>4. ASSUME toPage # <<>>, toPage' = Tail(toPage)
      PROVE  /\ At(toPage', Ready(u)) # {} => At(toPage, Ready(u)) # {}
             /\ Once(toPage', Ready(u))
             /\ Head(toPage) = Ready(u) => At(toPage', Ready(u)) = {} /\ At(toPage, Ready(u)) # {}
  BY <1>1, <1>2, <1>4, TailAt
<1>5. CASE Aside
  <2>1. At(toPage', Ready(u)) # {} => At(toPage, Ready(u)) # {}
    BY <1>1, <1>3, <1>4, <1>5 DEF Aside
  <2>2. Once(toPage', Ready(u))
    BY <1>1, <1>2, <1>3, <1>4, <1>5 DEF Aside
  <2> QED BY <1>2, <1>5, <2>1, <2>2 DEF Aside
<1>6. CASE Renders \/ RecvChunk \/ \E v \in Uploads : Selects(v)
  BY <1>2, <1>6 DEF Renders, RecvChunk, Selects, page
<1>7. ASSUME NEW v \in Uploads, HeardReady(v) PROVE Goal(u)
  <2>1. At(toPage, Ready(v)) # {} /\ active' = active /\ (u # v => loop'[u] = loop[u])
    BY <1>1, <1>7, TailAt, LoopMessages DEF HeardReady
  <2>2. active = v
    BY <2>1 DEF LoopsActive
  <2> QED BY <1>2, <1>4, <1>7, <2>1, <2>2 DEF HeardReady
<1>8. ASSUME NEW v \in Uploads, Loop(v) PROVE Goal(u)
  <2>1. toPage' = toPage /\ active' = active /\ loop[v].state # "off" /\ (u # v => loop'[u] = loop[u])
    BY <1>8, LoopMessages
  <2>2. active = v
    BY <2>1 DEF LoopsActive
  <2> QED BY <1>2, <2>1, <2>2
<1>9. ASSUME NEW v \in Uploads, Accepted(v) PROVE Goal(u)
  <2>1. /\ active = NoTransfer /\ active' = v /\ toPage' = Append(toPage, Ready(v)) /\ loop' = loop
        /\ Ready(v) \in PageMsgs
    BY <1>9, PageMsgTypes DEF Accepted, page, Ready
  <2>2. loop[u].state = "off" /\ At(toPage, Ready(u)) = {}
    BY <1>1, <1>2, <2>1
  <2>3. CASE v = u
    BY <1>1, <2>1, <2>2, <2>3, AppendAt
  <2>4. CASE v # u
    <3>1. Ready(v) # Ready(u)
      BY <2>4, MsgFields DEF Ready
    <3> QED BY <1>3, <2>1, <2>2, <3>1
  <2> QED BY <2>3, <2>4
<1>10. ASSUME NEW v \in Uploads, Completed(v) PROVE Goal(u)
  <2>1. active = v /\ At(toAgent, Complete(v)) # {} /\ loop' = loop
    BY <1>1, <1>10, TailAt DEF Completed, page
  <2>2. ~Lost
    BY <2>1 DEF Lost
  <2>3. Sent(v)
    BY <2>1, <2>2, Standing
  <2>4. loop[u].state = "off" /\ At(toPage, Ready(u)) = {}
    BY <1>2, <2>1, <2>3 DEF Sent
  <2>5. \E m \in PageMsgs : toPage' = Append(toPage, m) /\ m.type # "upload:ready"
    <3>1. /\ Finished(v) \in PageMsgs /\ Finished(v).type # "upload:ready"
          /\ Msg("file:error", v) \in PageMsgs /\ Msg("file:error", v).type # "upload:ready"
      BY PageMsgTypes, MsgFields DEF Finished, Transfers
    <3> QED BY <1>10, <3>1 DEF Completed
  <2> QED BY <1>1, <1>3, <2>1, <2>4, <2>5
<1> QED BY <1>5, <1>6, <1>7, <1>8, <1>9, <1>10, UploadSteps

LEMMA QuietStep ==
  ASSUME IInv, HistoryInv, OneStream, LoopsActive, UploadsQuiet, UploadSoFar,
         [Next]_vars, cancelled' = {}
  PROVE  UploadsQuiet'
<1> DEFINE Goal(t) ==
      /\ ChunksAt(toAgent', t) # {} => active' \in Uploads
      /\ At(toAgent', Complete(t)) # {} => active' \in Uploads /\ (t = active' \/ Lost')
<1> SUFFICES ASSUME NEW t \in Transfers PROVE Goal(t)
  BY DEF UploadsQuiet
<1>1. toAgent \in Seq(AgentMsgs) /\ NoTransfer \notin Uploads
  BY KindsAssumption DEF IInv, TransferTypeOK, Transfers
<1>2. /\ ChunksAt(toAgent, t) # {} => active \in Uploads
      /\ At(toAgent, Complete(t)) # {} => active \in Uploads /\ (t = active \/ Lost)
  BY DEF UploadsQuiet
<1>3. Lost => Lost' /\ active' = active
  BY LostStep
<1>4. ASSUME ChunksAt(toAgent', t) # {} => ChunksAt(toAgent, t) # {},
             At(toAgent', Complete(t)) # {} => At(toAgent, Complete(t)) # {},
             active \in Uploads => active' = active
      PROVE  Goal(t)
  BY <1>2, <1>3, <1>4
<1>5. CASE Aside
  <2>1. /\ ChunksAt(toAgent', t) # {} => ChunksAt(toAgent, t) # {}
        /\ At(toAgent', Complete(t)) # {} => At(toAgent, Complete(t)) # {}
    <3>1. Complete(t).type = "upload:complete"
      BY MsgFields DEF Complete
    <3>2. CASE toAgent' = toAgent
      BY <3>2
    <3>3. CASE \E m \in AgentMsgs : m.type \notin {"chunk", "upload:complete"} /\ toAgent' = Append(toAgent, m)
      BY <1>1, <3>1, <3>3, AppendAt, ChunksAppend
    <3>4. CASE toAgent # <<>> /\ toAgent' = Tail(toAgent)
      BY <1>1, <3>4, TailAt, ChunksTail
    <3> QED BY <1>5, <3>2, <3>3, <3>4 DEF Aside
  <2> QED BY <1>4, <1>5, <2>1 DEF Aside
<1>6. CASE Renders
  BY <1>4, <1>6 DEF Renders
<1>7. CASE RecvChunk
  <2>1. toAgent # <<>> /\ toAgent' = Tail(toAgent) /\ active' = active
    BY <1>7 DEF RecvChunk, AgentTakes
  <2> QED BY <1>1, <1>4, <2>1, TailAt, ChunksTail
<1>8. ASSUME NEW u \in Uploads, Selects(u) PROVE Goal(t)
  <2>1. Begin(u) \in AgentMsgs /\ Begin(u).type = "upload:start" /\ Begin(u) # Complete(t)
    BY AgentMsgTypes, MsgFields DEF Begin, Complete
  <2> QED BY <1>1, <1>4, <1>8, <2>1, AppendAt, ChunksAppend DEF Selects
<1>9. ASSUME NEW u \in Uploads, HeardReady(u) \/ Loop(u) PROVE Goal(t)
  <2>1. /\ active' = active /\ transferRef' = transferRef
        /\ At(toAgent', Complete(t)) # {} => At(toAgent, Complete(t)) # {} \/ t = transferRef.id
    BY <1>9, LoopMessages
  <2>2. active = u /\ (loop[u].state # "off" \/ At(toPage, Ready(u)) # {})
    <3>1. CASE HeardReady(u)
      <4>1. At(toPage, Ready(u)) # {}
        BY <3>1, TailAt DEF HeardReady, IInv, TransferTypeOK
      <4> QED BY <4>1 DEF LoopsActive
    <3>2. CASE Loop(u)
      BY <3>2, LoopMessages DEF LoopsActive
    <3> QED BY <1>9, <3>1, <3>2
  <2>3. Lost \/ transferRef.id = u
    <3>1. ASSUME ~Lost PROVE At(toAgent, Complete(u)) = {}
      BY <2>2, <3>1, Standing DEF Accepting, Sending
    <3> QED BY <2>2, <3>1, Standing
  <2> QED BY <1>2, <1>3, <2>1, <2>2, <2>3
<1>10. ASSUME NEW u \in Uploads, Accepted(u) PROVE Goal(t)
  <2>1. toAgent # <<>> /\ toAgent' = Tail(toAgent) /\ active = NoTransfer
    BY <1>10 DEF Accepted
  <2> QED BY <1>1, <1>2, <2>1, TailAt, ChunksTail
<1>11. ASSUME NEW u \in Uploads, Completed(u) PROVE Goal(t)
  <2>1. active = u /\ toAgent # <<>> /\ toAgent' = Tail(toAgent) /\ Head(toAgent) = Complete(u)
    BY <1>11 DEF Completed
  <2>2. 1 \in At(toAgent, Complete(u))
    BY <1>1, <2>1, HeadTail DEF At
  <2>3. ~Lost
    BY <2>1, <2>2 DEF Lost
  <2>4. Sent(u)
    BY <2>1, <2>2, <2>3, Standing
  <2>5. ChunksAt(toAgent', t) = {}
    <3>1. ChunksAt(toAgent, t) = {}
      <4>1. CASE t = u
        <5>1. \A j \in ChunksAt(toAgent, u) : j < 1 /\ j \in 1 .. Len(toAgent)
          BY <2>2, <2>4 DEF Sent, ChunksAt
        <5> QED BY <1>1, <4>1, <5>1
      <4>2. CASE t # u
        BY <2>1, <2>3, <4>2 DEF UploadSoFar
      <4> QED BY <4>1, <4>2
    <3> QED BY <1>1, <2>1, <3>1, ChunksTail
  <2>6. At(toAgent', Complete(t)) = {}
    <3>1. CASE t = u
      BY <1>1, <2>1, <2>4, <3>1, TailAt DEF Sent
    <3>2. CASE t # u
      BY <1>1, <1>2, <2>1, <2>3, <3>2, TailAt
    <3> QED BY <3>1, <3>2
  <2> QED BY <2>5, <2>6
<1> QED BY <1>5, <1>6, <1>7, <1>8, <1>9, <1>10, <1>11, UploadSteps

LEMMA SoFarStep ==
  ASSUME IInv, HistoryInv, OneStream, LoopsActive, UploadsQuiet, UploadSoFar,
         [Next]_vars, cancelled' = {}
  PROVE  UploadSoFar'
<1> DEFINE Goal(u) == /\ Piece(stored'[u], u, 1, Len(stored'[u]))
                      /\ \A t \in Transfers : t # u => ChunksAt(toAgent', t) = {}
                      /\ Accepting(u)' \/ Sending(u)' \/ Sent(u)'
<1> SUFFICES ASSUME NEW u \in Uploads, active' = u, ~Lost' PROVE Goal(u)
  BY DEF UploadSoFar
<1>1. /\ toAgent \in Seq(AgentMsgs) /\ toPage \in Seq(PageMsgs)
      /\ toAgent \in Seq(AgentMsgs \cup PageMsgs)
      /\ stored \in [Uploads -> Seq(Chunks)] /\ Size[u] \in Nat /\ u \in Transfers
      /\ uploadOffset \in Nat /\ NoTransfer \notin Uploads
  BY SizeAssumption, KindsAssumption DEF IInv, TransferTypeOK, Transfers
<1>2. Len(stored[u]) \in Nat
  BY <1>1
\* An upload that is accepted was not in progress; nothing of one is on its way.
<1>3. ASSUME NEW v \in Uploads, Accepted(v) PROVE Goal(u)
  <2>1. /\ v = u /\ active = NoTransfer /\ toAgent # <<>> /\ toAgent' = Tail(toAgent)
        /\ stored' = [stored EXCEPT ![u] = <<>>] /\ toPage' = Append(toPage, Ready(u))
        /\ Ready(u) \in PageMsgs
    BY <1>3, PageMsgTypes DEF Accepted, Ready
  <2>2. \A t \in Transfers : ChunksAt(toAgent, t) = {} /\ At(toAgent, Complete(t)) = {}
    BY <1>1, <2>1 DEF UploadsQuiet
  <2>3. \A t \in Transfers : ChunksAt(toAgent', t) = {} /\ At(toAgent', Complete(t)) = {}
    BY <1>1, <2>1, <2>2, TailAt, ChunksTail, ZenonT(60)
  <2>4. stored'[u] = <<>> /\ Len(stored'[u]) = 0
    BY <1>1, <2>1
  <2>5. At(toPage', Ready(u)) # {}
    <3>1. At(Append(toPage, Ready(u)), Ready(u)) # {}
      <4>1. toPage \in Seq(PageMsgs) /\ Ready(u) \in PageMsgs
        BY <1>1, <2>1
      <4> QED BY <4>1, AppendAt
    <3>2. toPage' = Append(toPage, Ready(u))
      BY <2>1
    <3> QED BY <3>1, <3>2, Zenon
  <2>6. Carries(toAgent', u, 0, 0)
    BY <1>1, <2>3, CarriesNone
  <2>7. Accepting(u)'
    BY <1>1, <2>3, <2>4, <2>5, <2>6 DEF Accepting
  <2>8. Piece(stored'[u], u, 1, Len(stored'[u]))
    BY <2>4, EmptyPiece
  <2> QED BY <2>3, <2>7, <2>8
<1>4. ASSUME NEW v \in Uploads, Completed(v) PROVE FALSE
  BY <1>1, <1>4 DEF Completed
<1> SUFFICES ASSUME \A v \in Uploads : ~Accepted(v) /\ ~Completed(v) PROVE Goal(u)
  BY <1>3, <1>4
<1>5. active = u /\ ~Lost
  BY ActiveStep, LostStep
<1>6. /\ Piece(stored[u], u, 1, Len(stored[u]))
      /\ \A t \in Transfers : t # u => ChunksAt(toAgent, t) = {}
      /\ Accepting(u) \/ Sending(u) \/ Sent(u)
  BY <1>5 DEF UploadSoFar
\* Something else is sent to or taken by the agent.
<1>7. ASSUME \/ \E m \in AgentMsgs : /\ m.type \notin {"chunk", "upload:complete"}
                                     /\ toAgent' = Append(toAgent, m)
             \/ /\ toAgent # <<>> /\ toAgent' = Tail(toAgent)
                /\ Head(toAgent).type # "chunk" /\ Head(toAgent) # Complete(u)
             \/ toAgent' = toAgent,
             UNCHANGED <<loop, uploadOffset, stored>>,
             At(toPage', Ready(u)) = {} <=> At(toPage, Ready(u)) = {}
      PROVE  Goal(u)
  <2>1. /\ At(toAgent', Complete(u)) = {} <=> At(toAgent, Complete(u)) = {}
        /\ Once(toAgent, Complete(u)) => Once(toAgent', Complete(u))
        /\ \A t : ChunksAt(toAgent, t) = {} => ChunksAt(toAgent', t) = {}
        /\ \A c, e : Carries(toAgent, u, c, e) => Carries(toAgent', u, c, e)
        /\ (\A i \in At(toAgent, Complete(u)), j \in ChunksAt(toAgent, u) : j < i) =>
             \A i \in At(toAgent', Complete(u)), j \in ChunksAt(toAgent', u) : j < i
    BY <1>1, <1>7, OtherMessage
  <2>2. stored'[u] = stored[u] /\ loop'[u] = loop[u] /\ uploadOffset' = uploadOffset
    BY <1>7
  <2>3. CASE Accepting(u)
    BY <1>6, <1>7, <2>1, <2>2, <2>3 DEF Accepting
  <2>4. CASE Sending(u)
    BY <1>6, <1>7, <2>1, <2>2, <2>4 DEF Sending
  <2>5. CASE Sent(u)
    BY <1>6, <1>7, <2>1, <2>2, <2>5 DEF Sent
  <2> QED BY <1>6, <2>3, <2>4, <2>5
<1>8. CASE Aside
  <2>1. At(toPage', Ready(u)) = {} <=> At(toPage, Ready(u)) = {}
    <3>1. Ready(u).type = "upload:ready"
      BY MsgFields DEF Ready
    <3>2. CASE toPage' = toPage
      BY <3>2
    <3>3. CASE \E m \in PageMsgs : m.type # "upload:ready" /\ toPage' = Append(toPage, m)
      <4>1. PICK m \in PageMsgs : m.type # "upload:ready" /\ toPage' = Append(toPage, m)
        BY <3>3
      <4>2. m # Ready(u)
        BY <3>1, <4>1
      <4>3. At(Append(toPage, m), Ready(u)) = At(toPage, Ready(u))
        BY <1>1, <4>2, AppendAt
      <4> QED BY <4>1, <4>3, Zenon
    <3>4. CASE toPage # <<>> /\ toPage' = Tail(toPage) /\ Head(toPage).type # "upload:ready"
      BY <1>1, <3>1, <3>4, AtTail, TailAt
    <3> QED BY <1>8, <3>2, <3>3, <3>4 DEF Aside
  <2> QED BY <1>5, <1>7, <1>8, <2>1 DEF Aside
<1>9. CASE Renders
  BY <1>7, <1>9 DEF Renders
<1>10. ASSUME NEW v \in Uploads, Selects(v) PROVE Goal(u)
  <2>1. Begin(v) \in AgentMsgs /\ Begin(v).type = "upload:start"
    BY AgentMsgTypes, MsgFields DEF Begin
  <2> QED BY <1>7, <1>10, <2>1 DEF Selects
\* The loop of u.
<1>11. ASSUME NEW v \in Uploads, HeardReady(v) \/ Loop(v) PROVE v = u
  <2>1. CASE HeardReady(v)
    <3>1. At(toPage, Ready(v)) # {}
      BY <1>1, <2>1, TailAt DEF HeardReady
    <3> QED BY <1>5, <3>1 DEF LoopsActive
  <2>2. CASE Loop(v)
    BY <1>5, <2>2, LoopMessages DEF LoopsActive
  <2> QED BY <1>11, <2>1, <2>2
<1>12. ASSUME NEW off \in Nat, off <= Size[u], NEW q \in Seq(AgentMsgs),
              SendNextChunk(u, u, off, q), Carries(q, u, Len(stored[u]), off),
              At(q, Complete(u)) = {}, \A t \in Transfers : t # u => ChunksAt(q, t) = {},
              uploadOffset' = off, stored' = stored, At(toPage', Ready(u)) = {},
              transferRef.id = u
       PROVE  Goal(u)
  BY <1>6, <1>12, LoopPhase
<1>13. CASE HeardReady(u)
  <2>1. /\ At(toPage, Ready(u)) # {} /\ At(toPage', Ready(u)) = {}
        /\ SendNextChunk(u, uploadFile, 0, toAgent) /\ uploadOffset' = 0 /\ stored' = stored
    BY <1>1, <1>13, TailAt DEF HeardReady, LoopsActive
  <2>2. Accepting(u)
    BY <1>5, <2>1, Standing
  <2>3. transferRef.id = u
    BY <1>5, <2>2, Standing DEF Accepting
  <2>4. uploadFile = u
    BY <2>3 DEF HistoryInv, UploadShown
  <2>5. /\ Carries(toAgent, u, Len(stored[u]), 0) /\ At(toAgent, Complete(u)) = {}
        /\ SendNextChunk(u, u, 0, toAgent)
    BY <2>1, <2>2, <2>4 DEF Accepting
  <2>6. 0 \in Nat /\ 0 <= Size[u]
    BY <1>1
  <2> QED BY <1>1, <1>6, <1>12, <2>1, <2>3, <2>5, <2>6
<1>14. CASE Loop(u)
  <2>1. toPage' = toPage /\ loop[u].state # "off" /\ UNCHANGED stored
    BY <1>14, LoopMessages
  <2>2. Sending(u) /\ At(toPage', Ready(u)) = {}
    BY <1>5, <2>1, Standing DEF LoopsActive
  <2>3. transferRef.id = u
    BY <1>5, <2>2, Standing DEF Sending
  <2>4. CASE LoopResume(u)
    <3>1. SendNextChunk(u, u, uploadOffset, toAgent) /\ uploadOffset' = uploadOffset
      BY <2>2, <2>4 DEF LoopResume, Sending
    <3> QED BY <1>1, <1>6, <1>12, <2>1, <2>2, <2>3, <3>1 DEF Sending
  <2>5. CASE LoopSend(u)
    <3> DEFINE m == Chunk(u, uploadOffset + 1)
               q == Append(toAgent, m)
    <3>1. /\ loop[u].at = uploadOffset /\ uploadOffset < Size[u] /\ loop[u].file = u
          /\ At(toAgent, Complete(u)) = {}
          /\ Carries(toAgent, u, Len(stored[u]), uploadOffset)
      BY <2>2, <2>5 DEF LoopSend, Sending
    <3>2. SendNextChunk(u, u, uploadOffset + 1, q) /\ uploadOffset' = uploadOffset + 1
      BY <2>5, <3>1 DEF LoopSend
    <3>3. uploadOffset + 1 \in Nat /\ uploadOffset + 1 <= Size[u]
      BY <1>1, <3>1
    <3>4. /\ m \in AgentMsgs /\ m \in AgentMsgs \cup PageMsgs /\ m.type = "chunk" /\ m.id = u
          /\ Complete(u).type = "upload:complete"
      BY <1>1, <3>3, AgentMsgTypes, MsgFields DEF Complete
    <3>5. q \in Seq(AgentMsgs) /\ At(q, Complete(u)) = {}
      BY <1>1, <3>1, <3>4, AppendAt, Appended
    <3>6. Carries(q, u, Len(stored[u]), uploadOffset + 1)
      BY <1>1, <3>1, <3>4, CarriesAppend
    <3>7. \A t \in Transfers : t # u => ChunksAt(q, t) = {}
      BY <1>1, <1>6, <3>4, ChunksAppend
    <3> HIDE DEF q
    <3> QED BY <1>12, <2>1, <2>2, <2>3, <3>2, <3>3, <3>5, <3>6, <3>7
  <2> QED BY <1>14, <2>4, <2>5 DEF Loop
\* A chunk is written.
<1>15. CASE RecvChunk
  <2>1. /\ toAgent # <<>> /\ toAgent' = Tail(toAgent) /\ Head(toAgent).type = "chunk"
        /\ UNCHANGED <<toPage, loop, uploadOffset>> /\ Head(toAgent) \in AgentMsgs
        /\ Head(toAgent).id \in Transfers
    BY <1>1, <1>15, HeadTail, AgentMsgTypes DEF RecvChunk, AgentTakes, page
  <2>2. Head(toAgent).id = u
    <3>1. \E i : i \in ChunksAt(toAgent, Head(toAgent).id)
      BY <1>1, <2>1, HeadTail DEF ChunksAt
    <3> QED BY <1>6, <2>1, <3>1
  <2> DEFINE n == Len(stored[u])
  <2>3. ASSUME NEW e, Carries(toAgent, u, n, e), e <= Size[u]
        PROVE  /\ Carries(toAgent', u, n + 1, e)
               /\ stored'[u] = Append(stored[u], Chunk(u, n + 1))
    <3>1. Head(toAgent) = Chunk(u, n + 1) /\ n + 1 <= e /\ Carries(toAgent', u, n + 1, e)
      BY <1>1, <2>1, <2>2, <2>3, CarriesTail
    <3>2. e \in Nat
      BY <2>3 DEF Carries
    <3>3. Fits
      BY <1>1, <1>2, <1>5, <2>3, <3>1, <3>2 DEF Fits
    <3>4. stored' = [stored EXCEPT ![u] = Append(stored[u], Head(toAgent))]
      BY <1>5, <1>15, <3>3 DEF RecvChunk
    <3> QED BY <1>1, <3>1, <3>4
  <2>4. \E e : Carries(toAgent, u, n, e) /\ e <= Size[u]
    BY <1>1, <1>6 DEF Accepting, Sending, Sent
  <2>5. stored'[u] = Append(stored[u], Chunk(u, n + 1)) /\ Len(stored'[u]) = n + 1
    <3>1. stored'[u] = Append(stored[u], Chunk(u, n + 1))
      BY <2>3, <2>4
    <3>2. Chunk(u, n + 1) \in Chunks /\ stored[u] \in Seq(Chunks)
      BY <1>1, <1>2, AgentMsgTypes
    <3> QED BY <3>1, <3>2, Appended
  <2>6. Piece(stored'[u], u, 1, n + 1)
    <3>1. Chunk(u, n + 1) \in Chunks /\ stored[u] \in Seq(Chunks) /\ 1 \in 1 .. n + 1 /\ n \in Nat
      BY <1>1, <1>2, AgentMsgTypes
    <3> HIDE DEF n
    <3>2. Piece(stored[u], u, 1, n)
      BY <1>6 DEF n
    <3> QED BY <2>5, <3>1, <3>2, PieceGrows
  <2>7. /\ \A t : ChunksAt(toAgent, t) = {} => ChunksAt(toAgent', t) = {}
        /\ Head(toAgent) # Complete(u)
    BY <1>1, <2>1, ChunksTail, MsgFields DEF Complete
  <2>8. /\ At(toAgent', Complete(u)) = {} <=> At(toAgent, Complete(u)) = {}
        /\ Once(toAgent, Complete(u)) => Once(toAgent', Complete(u))
    BY <1>1, <2>1, <2>7, AtTail, TailAt
  <2>9. Accepting(u)' \/ Sending(u)' \/ Sent(u)'
    <3>1. CASE Accepting(u)
      BY <1>1, <2>1, <2>3, <2>5, <2>8, <3>1 DEF Accepting
    <3>2. CASE Sending(u)
      BY <2>1, <2>3, <2>5, <2>8, <3>2 DEF Sending
    <3>3. CASE Sent(u)
      <4>1. ASSUME NEW i \in At(toAgent', Complete(u)), NEW j \in ChunksAt(toAgent', u) PROVE j < i
        <5>1. i + 1 \in At(toAgent, Complete(u)) /\ j + 1 \in ChunksAt(toAgent, u)
          BY <1>1, <2>1, AtTail, ChunksTail
        <5>2. i \in Int /\ j \in Int
          BY DEF At, ChunksAt
        <5> QED BY <3>3, <5>1, <5>2 DEF Sent
      <4> QED BY <1>1, <2>1, <2>3, <2>5, <2>8, <3>3, <4>1 DEF Sent
    <3> QED BY <1>6, <3>1, <3>2, <3>3
  <2> QED BY <1>6, <2>5, <2>6, <2>7, <2>9
<1> QED BY <1>8, <1>9, <1>10, <1>11, <1>13, <1>14, <1>15, UploadSteps

LEMMA WholeStep ==
  ASSUME IInv, HistoryInv, OneStream, LoopsActive, UploadSoFar, ReportedWhole,
         [Next]_vars, cancelled' = {}
  PROVE  ReportedWhole'
<1> SUFFICES ASSUME NEW u \in Uploads, Reported(u)' PROVE Piece(stored'[u], u, 1, Size[u])
  BY DEF ReportedWhole
<1>1. toAgent \in Seq(AgentMsgs) /\ stored \in [Uploads -> Seq(Chunks)]
  BY DEF IInv, TransferTypeOK
<1>2. CASE ~Reported(u)
  <2>1. Completed(u) /\ Len(stored[u]) = Size[u] /\ UNCHANGED stored
    BY <1>2, ReportedStep
  <2>2. active = u /\ At(toAgent, Complete(u)) # {}
    BY <1>1, <2>1, TailAt DEF Completed
  <2>3. ~Lost
    BY <2>2 DEF Lost
  <2> QED BY <2>1, <2>2, <2>3 DEF UploadSoFar
<1>3. CASE Reported(u)
  <2>1. At(toAgent, Begin(u)) = {} /\ active # u
    BY <1>3 DEF HistoryInv, UploadsAsked
  <2>2. ASSUME NEW v \in Uploads, Accepted(v) PROVE stored'[u] = stored[u]
    <3>1. v # u
      BY <1>1, <2>1, <2>2, TailAt DEF Accepted
    <3> QED BY <1>1, <2>2, <3>1 DEF Accepted
  <2>3. ASSUME NEW v \in Uploads, Completed(v) PROVE stored'[u] = stored[u]
    BY <1>1, <2>1, <2>3 DEF Completed
  <2>4. ASSUME RecvChunk PROVE stored'[u] = stored[u]
    BY <1>1, <2>1, <2>4 DEF RecvChunk
  <2>5. ASSUME NEW v \in Uploads, HeardReady(v) \/ Loop(v) PROVE stored' = stored
    BY <2>5, LoopMessages
  <2>6. ASSUME Aside \/ Renders \/ \E v \in Uploads : Selects(v) PROVE stored' = stored
    BY <2>6 DEF Aside, Renders, Selects
  <2>7. stored'[u] = stored[u]
    <3>1. CASE \E v \in Uploads : Accepted(v)
      BY <2>2, <3>1
    <3>2. CASE \E v \in Uploads : Completed(v)
      BY <2>3, <3>2
    <3>3. CASE \E v \in Uploads : HeardReady(v) \/ Loop(v)
      BY <2>5, <3>3
    <3>4. CASE Aside \/ Renders \/ \E v \in Uploads : Selects(v)
      BY <2>6, <3>4
    <3>5. \/ Aside \/ Renders \/ RecvChunk
          \/ \E v \in Uploads : Selects(v) \/ HeardReady(v) \/ Loop(v) \/ Accepted(v) \/ Completed(v)
      BY UploadSteps
    <3> QED BY <2>4, <3>1, <3>2, <3>3, <3>4, <3>5
  <2> QED BY <1>3, <2>7 DEF ReportedWhole
<1> QED BY <1>2, <1>3

\* As long as the user cancels nothing, an upload that is reported as finished
\* is the file that was selected, chunk by chunk: although every loop reads
\* through shared references, and the agent writes a chunk to whichever upload
\* is in progress.
THEOREM FinishedIsIntact == Spec => []UploadIntact
<1>1. Init => UploadsInv
  <2> SUFFICES ASSUME Init PROVE UploadsInv
    OBVIOUS
  <2>1. \A m, t : /\ At(toPage, m) = {} /\ Once(toPage, m)
                  /\ At(toAgent, m) = {} /\ ChunksAt(toAgent, t) = {}
    BY DEF Init, At, Once, ChunksAt
  <2>2. \A u \in Uploads : loop[u].state = "off" /\ active # u
    BY KindsAssumption DEF Init, Transfers
  <2>3. \A u \in Uploads : ~Reported(u)
    BY <2>1, KindsAssumption DEF Init, Reported, At, Nothing, Shown, Transfers
  <2> QED BY <2>1, <2>2, <2>3 DEF UploadsInv, LoopsActive, UploadsQuiet, UploadSoFar, ReportedWhole
<1>2. /\ IInv /\ HistoryInv /\ (cancelled \cap Downloads = {} => DownloadsInv)
      /\ (cancelled = {} => UploadsInv) /\ [Next]_vars
      => (cancelled = {} => UploadsInv)'
  <2> SUFFICES ASSUME IInv, HistoryInv, cancelled \cap Downloads = {} => DownloadsInv,
                      cancelled = {} => UploadsInv, [Next]_vars, cancelled' = {}
               PROVE  UploadsInv'
    OBVIOUS
  <2>1. cancelled = {}
    BY Grows
  <2>2. OneStream /\ UploadsInv
    BY <2>1 DEF DownloadsInv
  <2> QED BY <2>2, LoopsStep, QuietStep, SoFarStep, WholeStep DEF UploadsInv
<1>3. IInv /\ (cancelled = {} => UploadsInv) => UploadIntact
  <2> SUFFICES ASSUME IInv, UploadsInv, NEW u \in Uploads, Reported(u) PROVE stored[u] = Whole(u)
    BY DEF UploadIntact
  <2>1. Piece(stored[u], u, 1, Size[u])
    BY DEF UploadsInv, ReportedWhole
  <2>2. stored[u] \in Seq(Chunks) /\ u \in Transfers /\ 1 \in 1 .. Size[u] + 1
    BY SizeAssumption DEF IInv, TransferTypeOK, Transfers
  <2> QED BY <2>1, <2>2, PieceIs
<1> QED BY <1>1, <1>2, <1>3, DownloadsInvariant, PTL DEF Spec

===============================================================================
