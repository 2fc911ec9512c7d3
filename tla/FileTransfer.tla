----------------------------- MODULE FileTransfer -----------------------------
(***************************************************************************)
(* File transfers of one session over the `md-files` DataChannel: the file *)
(* manager panel of the page, whose React state reaches its callbacks only *)
(* when it is rendered, the agent's message handler, which runs one message *)
(* at a time, and the agent's download tasks, which run beside it.         *)
(*                                                                         *)
(* A chunk is the id of the file it was read from and its number. On the   *)
(* wire it has neither: no handler looks at them, only the properties do.  *)
(* Definitions marked "Mistake:" are variants of the one that follows.     *)
(***************************************************************************)
EXTENDS Naturals, Sequences, FiniteSets

CONSTANTS
  Uploads, Downloads,  \* transfer ids (crypto.randomUUID), each used once
  Size,                \* chunks in the file of each transfer
  NoTransfer,          \* null, None
  MaxStarted           \* bound on the transfers the user starts

Transfers == Uploads \cup Downloads

ASSUME KindsAssumption ==
  Uploads \cap Downloads = {} /\ NoTransfer \notin Transfers
ASSUME SizeAssumption == Size \in [Transfers -> Nat] /\ MaxStarted \in Nat

VARIABLES
  toAgent, toPage,  \* the channel: reliable, ordered
  started,          \* ids in use
  cancelled,        \* transfers the user ever cancelled
  transfer,         \* the panel's state, every queued update applied
  transferRef,      \* the state as last rendered, and transferRef.current
  uploadFile,       \* uploadFileRef: the upload that was last selected
  uploadOffset,     \* uploadOffsetRef
  loop,             \* sendNextChunk loops, each started by one upload:ready
  chunks,           \* downloadChunksRef
  saved,            \* what finishDownload handed to the browser
  active,           \* Inner.active
  stored,           \* chunks written to an upload's destination
  stream,           \* the download tasks
  infoDue           \* download whose handler has yet to send download:info

page  == <<started, cancelled, transfer, transferRef, uploadFile, uploadOffset, loop,
           chunks, saved>>
agent == <<active, stored, stream, infoDue>>
vars  == <<toAgent, toPage, page, agent>>

Msg(type, t) == [type |-> type, id |-> t, n |-> 0]
Chunk(t, n) == [type |-> "chunk", id |-> t, n |-> n]
Whole(t) == [n \in 1 .. Size[t] |-> Chunk(t, n)]

Shown(t, status) == [id |-> t, status |-> status]
Nothing == Shown(NoTransfer, "none")

Init ==
  /\ toAgent = <<>> /\ toPage = <<>>
  /\ started = {} /\ cancelled = {}
  /\ transfer = Nothing /\ transferRef = Nothing
  /\ uploadFile = NoTransfer /\ uploadOffset = 0
  /\ loop = [u \in Uploads |-> [state |-> "off", file |-> NoTransfer, at |-> 0]]
  /\ chunks = <<>>
  /\ saved = [d \in Downloads |-> <<>>]
  /\ active = NoTransfer
  /\ stored = [u \in Uploads |-> <<>>]
  /\ stream = [d \in Downloads |-> [state |-> "none", sent |-> 0]]
  /\ infoDue = NoTransfer

-------------------------------------------------------------------------------
(* What the user does. A click renders at once what it sets.                *)

Show(t, status) ==
  transfer' = Shown(t, status) /\ transferRef' = transfer'

Start(t) ==
  /\ t \notin started /\ Cardinality(started) < MaxStarted
  /\ transferRef.status # "active"
  /\ started' = started \cup {t}

\* handleDownload: nothing is shown before the agent's answer.
SelectDownload(d) ==
  /\ Start(d)
  /\ toAgent' = Append(toAgent, Msg("download:start", d))
  /\ UNCHANGED <<toPage, cancelled, transfer, transferRef, uploadFile, uploadOffset,
                 loop, chunks, saved, agent>>

\* handleFileSelected.
SelectUpload(u) ==
  /\ Start(u)
  /\ uploadFile' = u
  /\ Show(u, "active")
  /\ toAgent' = Append(toAgent, Msg("upload:start", u))
  /\ UNCHANGED <<toPage, cancelled, uploadOffset, loop, chunks, saved, agent>>

\* handleCancelTransfer. A loop that sends chunks is not told.
Cancel ==
  /\ transferRef.status = "active"
  /\ cancelled' = cancelled \cup {transferRef.id}
  /\ Show(transferRef.id, "cancelled")
  /\ toAgent' = Append(toAgent, Msg("transfer:cancel", transferRef.id))
  /\ UNCHANGED <<toPage, started, uploadFile, uploadOffset, loop, chunks, saved, agent>>

\* The panel renders; its effect then copies the state to transferRef.
Render ==
  /\ transferRef # transfer
  /\ transferRef' = transfer
  /\ UNCHANGED <<toAgent, toPage, started, cancelled, transfer, uploadFile,
                 uploadOffset, loop, chunks, saved, agent>>

-------------------------------------------------------------------------------
(* The panel's sendNextChunk loops.                                         *)

\* sendNextChunk in loop u, over file f, with the offset at off and queue q
\* sent already: wait for the send buffer to drain, start to read a slice, or
\* complete the transfer that is shown by then.
SendNextChunk(u, f, off, q) ==
  \/ /\ loop' = [loop EXCEPT ![u] = [state |-> "waiting", file |-> f, at |-> 0]]
     /\ toAgent' = q
  \/ /\ off < Size[f]
     /\ loop' = [loop EXCEPT ![u] = [state |-> "reading", file |-> f, at |-> off]]
     /\ toAgent' = q
  \/ /\ off >= Size[f]
     /\ loop' = [loop EXCEPT ![u] = [state |-> "off", file |-> f, at |-> 0]]
     /\ toAgent' = IF transferRef = Nothing THEN q
                   ELSE Append(q, Msg("upload:complete", transferRef.id))

\* The buffer may have drained: sendNextChunk again.
LoopResume(u) ==
  /\ loop[u].state = "waiting"
  /\ SendNextChunk(u, loop[u].file, uploadOffset, toAgent)
  /\ UNCHANGED <<toPage, started, cancelled, transfer, transferRef, uploadFile,
                 uploadOffset, chunks, saved, agent>>

\* The slice is there: it is sent, and the offset that all loops share moves.
LoopSend(u) ==
  /\ loop[u].state = "reading"
  /\ uploadOffset' = uploadOffset + 1
  /\ SendNextChunk(u, loop[u].file, uploadOffset + 1,
                   Append(toAgent, Chunk(loop[u].file, loop[u].at + 1)))
  /\ UNCHANGED <<toPage, started, cancelled, transfer, transferRef, uploadFile,
                 chunks, saved, agent>>

-------------------------------------------------------------------------------
(* The panel's handleMessage.                                               *)

PageTakes(type) ==
  /\ toPage # <<>> /\ Head(toPage).type = type
  /\ toPage' = Tail(toPage)

PageId == Head(toPage).id

\* file:error: what is shown by now fails, if the id was the rendered one.
PageError ==
  /\ PageTakes("file:error")
  /\ transfer' = IF transferRef.id = PageId /\ transfer # Nothing
                   THEN Shown(transfer.id, "error") ELSE transfer
  /\ UNCHANGED <<toAgent, started, cancelled, transferRef, uploadFile, uploadOffset,
                 loop, chunks, saved, agent>>

\* upload:ready: a loop starts over the file that was selected last.
PageReady ==
  /\ PageTakes("upload:ready")
  /\ uploadOffset' = 0
  /\ SendNextChunk(PageId, uploadFile, 0, toAgent)
  /\ UNCHANGED <<started, cancelled, transfer, transferRef, uploadFile, chunks, saved, agent>>

PageFinished ==
  /\ PageTakes("upload:finished")
  /\ transfer' = IF transfer.id = PageId THEN Shown(PageId, "done") ELSE transfer
  /\ UNCHANGED <<toAgent, started, cancelled, transferRef, uploadFile, uploadOffset,
                 loop, chunks, saved, agent>>

\* Mistake: the chunks of the last download are kept.
PageInfoKeeps ==
  /\ PageTakes("download:info")
  /\ transfer' = Shown(PageId, "active")
  /\ UNCHANGED <<toAgent, started, cancelled, transferRef, uploadFile, uploadOffset,
                 loop, chunks, saved, agent>>

PageInfo ==
  /\ PageTakes("download:info")
  /\ chunks' = <<>>
  /\ transfer' = Shown(PageId, "active")
  /\ UNCHANGED <<toAgent, started, cancelled, transferRef, uploadFile, uploadOffset,
                 loop, saved, agent>>

\* A chunk is kept while a download is rendered, whichever and in any status.
PageChunk ==
  /\ PageTakes("chunk")
  /\ chunks' = IF transferRef.id \in Downloads THEN Append(chunks, Head(toPage)) ELSE chunks
  /\ UNCHANGED <<toAgent, started, cancelled, transfer, transferRef, uploadFile,
                 uploadOffset, loop, saved, agent>>

\* download:complete: finishDownload, unless the download is not rendered yet.
PageComplete ==
  /\ PageTakes("download:complete")
  /\ IF transferRef.id = PageId
       THEN /\ saved' = [saved EXCEPT ![PageId] = chunks]
            /\ chunks' = <<>>
            /\ transfer' = Shown(PageId, "done")
       ELSE UNCHANGED <<saved, chunks, transfer>>
  /\ UNCHANGED <<toAgent, started, cancelled, transferRef, uploadFile, uploadOffset,
                 loop, agent>>

-------------------------------------------------------------------------------
(* The agent's message handler: one message at a time, answer included.     *)

AgentTakes(type) ==
  /\ infoDue = NoTransfer
  /\ toAgent # <<>> /\ Head(toAgent).type = type
  /\ toAgent' = Tail(toAgent)

AgentId == Head(toAgent).id

Answer(type) == toPage' = Append(toPage, Msg(type, AgentId))

\* The permissions, the path or the file system refuse: with file:error, for
\* some causes without the transferId, which the panel then only displays.
Refuse ==
  /\ Answer("file:error") \/ UNCHANGED toPage
  /\ UNCHANGED agent

\* A transfer is in progress already.
Conflict == active # NoTransfer /\ Answer("file:error") /\ UNCHANGED agent

RecvUploadStart ==
  /\ AgentTakes("upload:start")
  /\ \/ Conflict
     \/ active = NoTransfer /\ Refuse
     \/ /\ active = NoTransfer
        /\ active' = AgentId
        /\ stored' = [stored EXCEPT ![AgentId] = <<>>]
        /\ Answer("upload:ready")
        /\ UNCHANGED <<stream, infoDue>>
  /\ UNCHANGED page

\* Mistake: one chunk too many is taken.
FitsLoosely == Len(stored[active]) <= Size[active]

\* written + chunk.len() <= expected_size.
Fits == Len(stored[active]) + 1 <= Size[active]

\* handle_chunk: written to the upload in progress, if any; one that does not
\* fit is an error, which is logged and leaves the upload as it is.
RecvChunk ==
  /\ AgentTakes("chunk")
  /\ stored' = IF active \in Uploads /\ Fits
                 THEN [stored EXCEPT ![active] = Append(@, Head(toAgent))]
                 ELSE stored
  /\ UNCHANGED <<toPage, page, active, stream, infoDue>>

\* Mistake: whichever upload is in progress is completed.
CompletesAny(t) == active \in Uploads

Completes(t) == active \in Uploads /\ active = t

\* upload:complete: finished if all that was declared was written, otherwise
\* the file is removed.
RecvUploadComplete ==
  /\ AgentTakes("upload:complete")
  /\ IF ~Completes(AgentId)
       THEN UNCHANGED <<toPage, active, stored>>
       ELSE /\ active' = NoTransfer
            /\ IF Len(stored[active]) = Size[active]
                 THEN Answer("upload:finished") /\ UNCHANGED stored
                 ELSE Answer("file:error") /\ stored' = [stored EXCEPT ![active] = <<>>]
  /\ UNCHANGED <<page, stream, infoDue>>

\* download:start: the task is spawned before download:info is sent.
RecvDownloadStart ==
  /\ AgentTakes("download:start")
  /\ \/ Conflict
     \/ active = NoTransfer /\ Refuse
     \/ /\ active = NoTransfer
        /\ active' = AgentId
        /\ stream' = [stream EXCEPT ![AgentId].state = "running"]
        /\ infoDue' = AgentId
        /\ UNCHANGED <<toPage, stored>>
  /\ UNCHANGED page

SendInfo ==
  /\ infoDue # NoTransfer
  /\ toPage' = Append(toPage, Msg("download:info", infoDue))
  /\ infoDue' = NoTransfer
  /\ UNCHANGED <<toAgent, page, active, stored, stream>>

\* transfer:cancel. A cancelled upload's file is removed. A cancelled
\* download's handle is taken by the test for an upload and dropped, which
\* detaches its task instead of aborting it.
RecvCancel ==
  /\ AgentTakes("transfer:cancel")
  /\ IF active = AgentId
       THEN /\ active' = NoTransfer
            /\ stored' = IF AgentId \in Uploads THEN [stored EXCEPT ![AgentId] = <<>>] ELSE stored
       ELSE UNCHANGED <<active, stored>>
  /\ UNCHANGED <<toPage, page, stream, infoDue>>

-------------------------------------------------------------------------------
(* The download tasks.                                                      *)

StreamChunk(d) ==
  /\ stream[d].state = "running" /\ stream[d].sent < Size[d]
  /\ stream' = [stream EXCEPT ![d].sent = @ + 1]
  /\ toPage' = Append(toPage, Chunk(d, stream[d].sent + 1))
  /\ UNCHANGED <<toAgent, page, active, stored, infoDue>>

StreamComplete(d) ==
  /\ stream[d].state = "running" /\ stream[d].sent = Size[d]
  /\ stream' = [stream EXCEPT ![d].state = "ending"]
  /\ toPage' = Append(toPage, Msg("download:complete", d))
  /\ UNCHANGED <<toAgent, page, active, stored, infoDue>>

\* Mistake: a download that fails does not release the agent.
StreamFailKeeps(d) ==
  /\ stream[d].state = "running"
  /\ stream' = [stream EXCEPT ![d].state = "ended"]
  /\ toPage' = Append(toPage, Msg("file:error", d))
  /\ UNCHANGED <<toAgent, page, active, stored, infoDue>>

\* The file cannot be opened or read.
StreamFail(d) ==
  /\ stream[d].state = "running"
  /\ stream' = [stream EXCEPT ![d].state = "ending"]
  /\ toPage' = Append(toPage, Msg("file:error", d))
  /\ UNCHANGED <<toAgent, page, active, stored, infoDue>>

\* The task's last statement, whichever transfer is in progress by then.
StreamRelease(d) ==
  /\ stream[d].state = "ending"
  /\ stream' = [stream EXCEPT ![d].state = "ended"]
  /\ active' = NoTransfer
  /\ UNCHANGED <<toAgent, toPage, page, stored, infoDue>>

-------------------------------------------------------------------------------
User ==
  \/ \E d \in Downloads : SelectDownload(d)
  \/ \E u \in Uploads : SelectUpload(u)
  \/ Cancel

PageReceives ==
  \/ PageError \/ PageReady \/ PageFinished \/ PageInfo \/ PageChunk \/ PageComplete

Loop(u) == LoopResume(u) \/ LoopSend(u)

AgentReceives ==
  \/ RecvUploadStart \/ RecvChunk \/ RecvUploadComplete
  \/ RecvDownloadStart \/ SendInfo \/ RecvCancel

Stream(d) ==
  StreamChunk(d) \/ StreamComplete(d) \/ StreamFail(d) \/ StreamRelease(d)

Next ==
  \/ User
  \/ Render
  \/ PageReceives
  \/ \E u \in Uploads : Loop(u)
  \/ AgentReceives
  \/ \E d \in Downloads : Stream(d)

Spec == Init /\ [][Next]_vars

-------------------------------------------------------------------------------
(* Properties.                                                              *)

Msgs(types, ids) == [type : types, id : ids, n : {0}]
Chunks == [type : {"chunk"}, id : Transfers, n : Nat]
AgentMsgs == Chunks \cup Msgs({"upload:start"}, Uploads) \cup Msgs({"download:start"}, Downloads)
                    \cup Msgs({"upload:complete", "transfer:cancel"}, Transfers)
PageMsgs == Chunks \cup Msgs({"upload:ready", "upload:finished"}, Uploads)
                   \cup Msgs({"download:info", "download:complete"}, Downloads)
                   \cup Msgs({"file:error"}, Transfers)
States == {Nothing} \cup [id : Transfers, status : {"active", "done", "error", "cancelled"}]

\* The type invariant; an upload never grows beyond what it declared.
TransferTypeOK ==
  /\ toAgent \in Seq(AgentMsgs) /\ toPage \in Seq(PageMsgs)
  /\ started \in SUBSET Transfers /\ cancelled \in SUBSET Transfers
  /\ transfer \in States /\ transferRef \in States
  /\ uploadFile \in Uploads \cup {NoTransfer} /\ uploadOffset \in Nat
  /\ loop \in [Uploads -> [state : {"off", "waiting", "reading"},
                           file : Uploads \cup {NoTransfer}, at : Nat]]
  /\ chunks \in Seq(Chunks)
  /\ saved \in [Downloads -> Seq(Chunks)]
  /\ active \in Transfers \cup {NoTransfer}
  /\ stored \in [Uploads -> Seq(Chunks)]
  /\ \A u \in Uploads : Len(stored[u]) <= Size[u]
  /\ stream \in [Downloads -> [state : {"none", "running", "ending", "ended"}, sent : Nat]]
  /\ infoDue \in Downloads \cup {NoTransfer}

\* A loop has a file to read because the user selected one before anything
\* of an upload was on the channel.
FileSelected ==
  /\ uploadFile = NoTransfer =>
       /\ \A i \in 1 .. Len(toAgent) : toAgent[i].type # "upload:start"
       /\ \A i \in 1 .. Len(toPage) : toPage[i].type # "upload:ready"
  /\ \A u \in Uploads : loop[u].state # "off" => uploadFile # NoTransfer /\ loop[u].file \in Uploads

\* The agent told the page that upload u is finished.
Reported(u) ==
  \/ \E i \in 1 .. Len(toPage) : toPage[i] = Msg("upload:finished", u)
  \/ transfer = Shown(u, "done")

\* As long as the user cancels nothing, an upload that the agent reports as
\* finished is the selected file, every chunk once and in order: whatever
\* transfers run, are refused or are left behind meanwhile, and although the
\* panel reads the file and names the transfer through shared references.
\* (A cancelled download streams on, and when it ends it releases the transfer
\* that is in progress by then: a second upload may be accepted while the first
\* one's loop still sends.)
UploadIntact ==
  cancelled = {} =>
    \A u \in Uploads : Reported(u) => stored[u] = Whole(u)

\* As long as the user cancels no download, what the browser saves for one is
\* the end of its file in order: chunks that come before the panel has
\* rendered the download are lost, but none of another transfer is mixed in.
SavedIsOwn ==
  cancelled \cap Downloads = {} =>
    \A d \in Downloads : \E k \in 1 .. Size[d] + 1 : saved[d] = SubSeq(Whole(d), k, Size[d])

\* The agent is busy with a download only while the download's task runs and
\* has yet to release it: a stream that fails, is cancelled and detached, or
\* outlives its transfer leaves the agent no transfer that nobody will end.
BusyWhileStreaming ==
  active \in Downloads => stream[active].state \in {"running", "ending"}

-------------------------------------------------------------------------------
(* What the repository says of this code and the code does not do.          *)

\* The transfers whose bytes may be on their way through the agent.
InFlight == {d \in Downloads : stream[d].state = "running"} \cup ({active} \cap Uploads)

\* "there is never more than one transfer in flight to interleave".
OneTransferInFlight == \A t, s \in InFlight : t = s
===============================================================================
