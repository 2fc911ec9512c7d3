# MineDesk: verification project

MineDesk is a remote desktop: an **agent** (Rust, `backend/agent`) runs on the
device, a **page** (React, `frontend`) shows and controls it, and a **server**
(Node/Fastify with MySQL, `backend/src`) introduces the two. Video, input and
files go peer to peer over WebRTC; everything that leads to that connection, and
the record of it, goes through the server.

This directory models the parts of that system whose correctness depends on the
order in which things happen. TLC checks the models on small instances; TLAPS
proves the central theorems for every value of the constants.

    tlc -workers 2 -config session_pair.cfg MCRemoteSession.tla
    tlapm RemoteSession_proofs.tla

`PROJECT.json` lists the runs with their modules, and maps every definition to the
lines it models. No run takes more than three minutes.

| module | what it is |
| --- | --- |
| `SessionLifecycle` | abstract: what the remote-session service promises |
| `RemoteSession` | the session protocol: server, database, sockets, agent loop, pages |
| `MCRemoteSession` | its instances for TLC |
| `RemoteSession_proofs` | its theorems, and that it implements `SessionLifecycle` |
| `FileTransfer` | transfers between the file manager panel and the agent |
| `MCFileTransfer` | its instances for TLC |
| `FileTransfer_proofs` | its theorems |
| `Accounts` | the requests on one account, statement by statement |
| `Browser` | the tabs of a browser as its clients: access token, shared refresh, cookie |
| `MCBrowser` | their instances for TLC |
| `Browser_proofs` | their theorems on the account |
| `RefreshTokens_proofs` | their theorems on the refresh tokens |
| `Devices` | the requests on devices, codes and agent secrets, statement by statement |
| `AgentRun` | the agent's program as their client: enrol, register, run, reconnect |
| `MCAgentRun` | their instances for TLC |
| `AgentRun_proofs` | their theorems |
| `Peer` | an accepted session: negotiation, ICE restarts, camera and microphone |
| `Share` | the browser tab that shares its screen instead of an agent, and its viewer |
| `MCPeer` | their instances for TLC |
| `Share_proofs` | their theorems |
| `TableLemmas` | what an INSERT and an UPDATE do to a table kept as a sequence |

## 1. Inventory

What each part keeps, what it does, what is hard about it, what makes it
correct. `PROJECT.json` lists the same parts with their files, and under
`hazards` every place where an order nobody tested can hurt.

**Remote sessions API** (`modules/sessions/routes.ts`). State: the rows of
`remote_sessions` (status, end reason, activity flags). `POST /sessions` checks
presence, then looks for a live session of the device, then inserts the row,
then publishes `session:invite` to the device's channel; `POST /:id/terminate`
selects, then updates. Hard: every `await` lets another request run. Correct if
a row never contradicts what the agent decided.

**Signaling gateway** (`modules/signaling/routes.ts`, `hub.ts`). State: the
hub's channels (one per device, one per session), the connections with the
sessions each joined, a heartbeat watchdog per socket. Operations: admit a
socket, `session:join`, relay a frame to the session's channel and record it in
the row, clean up when an agent's socket closes. Hard: a frame is handled while
the `session:join` before it still awaits its query; listeners are set only
after awaits; an old socket's close handler runs while a new socket is already
there; the process may die. Correct if frames stay within the session and rows
of lost agents end.

**Presence** (`lib/presence.ts`, `lib/store.ts`). State: one entry per device,
naming the socket, with a TTL that heartbeats refresh. Hard: entry and socket
have separate lives. Correct if an entry always stands for a socket.

**Agent event loop** (`agent/src/main.rs`, `signaling.rs`). State: the active
session, a remembered `session:ready`, the socket. One `select!` loop takes
frames, console commands and stop signals; a lost socket is replaced without
ending the session. Hard: frames written to a dying socket are lost; frames of
different sessions arrive interleaved. Correct if it serves one session, and
one it accepted.

**Session page** (`pages/RemoteSessionPage.tsx`). State: the phase, one socket,
one peer connection. Reads the session, opens the socket, joins, answers offers,
tears down on denial, end or loss. Correct if it leaves waiting when it can, and
if leaving it ends the agent's service.

**Agent peer connection** (`session.rs`). Offers, answers, ICE restarts, channels,
camera and microphone. Hard: an ICE watcher and renegotiations share the one
connection. Correct if what is down is repaired, no offer stays outstanding and the
buttons show what is captured.

**File transfer** (`filetransfer.rs`, `FileManagerPanel.tsx`, `paths.rs`). State:
the agent's one active transfer and its download tasks; the panel's React state,
the refs its callbacks read, its chunk loops. Hard: chunks carry no id; tasks run
beside the handler; callbacks see state as last rendered; a cancel stops only
some of what runs. Correct if a transfer reported done has the right bytes.

**Clipboard bridge** (`clipboard.rs`). A poller and remote writes share the last
text seen. Correct if a remote text is not echoed.

**Accounts** (`modules/auth`, `lib/tokens.ts`, `plugins/authenticate.ts`). State: the
user row, sessions with their current and previous refresh token, mailed links,
two-factor challenges. Hard: every handler reads and then writes across awaits,
so two requests act on rows that are no longer so. Correct if links and
challenges are spent once, a lockout is earned, and a sign-out is final.

**API client** (`lib/apiClient.ts`, `AuthContext.tsx`). State: the access token in
memory, `refreshPromise`; the refresh cookie belongs to the browser and is shared by
its tabs. Hard: calls that meet an expired token together, answers that arrive in
another order than they were made. Correct if a live session can always be
renewed and no caller waits for nothing.

**Devices and agent identity** (`modules/devices`, `modules/agent`,
`agent/src/main.rs`, `config.rs`, `api.rs`). State: device rows with their permissions
and secret, enrolment codes, `agent.toml`, the agent's token and its mask. Hard:
revocations and enrolments between each other's statements; an agent that learns of
a revocation only when it next authenticates; lost answers. Correct if a code enrols
once, a revoked secret stays revoked, and the running agent follows the owner.

**Browser agent** (`QuickConnectPage.tsx`). State: the tab's registration, its socket,
the invitation shown, the screen picker and the stream. Hard: the tab may close
between any two awaits, while the server is still admitting it. Correct if the
address dies with the tab and the viewer learns of consent.

**Unattended password lockout** (`lib/unattendedLockout.ts`). A counter and its
expiry.

**Without order-dependent state of their own**: request authentication, audit log,
protocol schemas and path checks (pure functions), input, capture and codecs
(operating-system calls), mail, health, configuration, the other pages
(rendering), the desktop shell (it starts and stops a sidecar). `webrtc-dtls` is
vendored third-party code.

Interactions: page → API by HTTP; page and agent ↔ gateway by WebSocket; gateway
and API → database by awaited statements, → each other through the hub and the
store; agent ↔ page by DataChannels once connected.

## 2. RemoteSession

### State and code

| variables | code |
| --- | --- |
| `row`, `endReason` | `remote_sessions.status`, `.endReason` |
| `req` | how far a `POST /sessions` request is |
| `presence` | the socket named by the presence entry |
| `stage` | life of a socket in the server: token check (`auth`), in the hub (`added`), listeners set (`open`), close handler before each of its two statements (`closing`, `dropping`), `closed`; `zombie` closed before its listeners were set |
| `joined`, `members`, `deviceChan` | `connection.sessions`, the hub's channels |
| `queries`, `writes` | handlers that await a SELECT, statements in flight |
| `up`, `inbox`, `outbox` | the client's end of the socket, frames each way in order |
| `agentConn`, `active`, `pc`, `pendingReady` | locals of the agent's `run` |
| `verdict` | history: what the agent decided on an invitation |
| `tab` | the page's phase |

Each handler is an action, split where it awaits the database: what it does before is
one action, the statement and what follows it another. Node runs a handler without
interruption between awaits, and the agent's loop takes one thing at a time, so
nothing finer can be seen. `PROJECT.json` maps each definition to its lines.

### What is abstracted

- One device, with one agent process at a time. The pages are one user's; tokens
  are valid when a socket is opened (`token` is the fault that they run out).
- A frame is its type and session. Only frames that the receiver acts on are
  delivered (`AgentHeeds`, `PageHeeds`); error frames are only logged by both clients.
  ICE candidates and capability frames are not distinguished here
  (section 6 has the latter).
- `endReason = "user"` stands for every reason but `agent_disconnected`.
- Merged, because no other party can see between them: the presence and the busy
  check of a request; an agent's socket entering hub, channel and
  presence; the page's reading of the status and opening of its socket; the
  `POST /agent/disconnect` of a quitting agent and its exit.
- `joined` is kept after a socket is gone; the code drops the object, which nobody
  can then reach.
- The heartbeat and TTL clocks are nondeterministic: silence, expiry and lapse
  may happen whenever the fault is enabled.
- Not here: browser agents, camera and microphone requests and ICE restarts beyond
  "an offer is outstanding", which are section 6; graceful shutdown beyond what a
  restart does.

`Faults` chooses what may go wrong: lost sockets with the frames on them, expired
tokens, silent pages, lapsed presence, crashed agent, restarted server.

### Runs

| run | instance | shows |
| --- | --- | --- |
| `session_pair` | 2 sessions, 1 page, 1 agent socket; crash, silence; 892 k states | `TypeOK`, `RelayIsolation`, `OfferFollowsJoin`, `ReadyFollowsVerdict`, and that it implements `SessionLifecycle`: two requests race for the agent, a page and a console end sessions, the agent refuses, dies or falls silent |
| `session_reconnect` | 2 sessions, no page, 2 agent sockets, every fault, 1 restart; 2.1 M states | `ActiveRowHasAgent`, `PresenceHasSocket` while an old socket's close handler runs beside its successor, of a reconnect, a relaunch or a restarted server |
| `session_live` | 1 session, 1 page, 1 socket, no faults; 21 k states | `AgentGoneEndsRows`, `ReadyGetsOffer`, `LeavingEndsService` under fairness |
| `verdict_refused` | 1 session, 1 page, 1 socket | the finding below |

Why the bounds suffice: a race needs two parties, and every one here is between
two sockets, two sessions, or a handler and a socket; with two of each the
cases all happen. A page opens once per run, but a second page of the same session would
only add another listener to the channel. Sockets are never reused, so two agent
sockets give one reconnect or one relaunch, with the old handler still running.
Symmetry is used for the agent's sockets in `session_reconnect`, which checks only
invariants. Deadlock is not checked, here and below: requests, sockets and events are
bounded and people may stop, so the systems do stop.

### Fairness

`FairSpec` assumes that Node runs every callback that is due, that a statement
in flight is answered, and that the agent's loop and a page's event queue take every
frame. Users, faults, new connections and requests owe nothing: no property
relies on somebody clicking. The liveness run has no faults, so nothing is lost;
the properties end with "unless the agent stops serving".

### What the code does and a reader may not expect

`verdict_refused` is a disagreement with a comment, which TLC shows with a trace: the
agent sends `session:join` and its answer back to back; the answer is handled while the
join awaits its query, and is refused. The row stays pending.
`agent/src/main.rs:479-484` joins first so that this cannot happen, "even to a deny".

Four more things follow from the actions, and limit what a property can promise:

- The server announces a page once, when its join is done, to the agents in
  the channel then. The agent joins in a handler of its own: if the page's query answers
  first, the agent never hears `session:ready` and the page waits.
  `ReadyGetsOffer` is therefore about an announcement the agent received. For the
  same reason the branch of `accept_session` for a remembered `session:ready`
  (`main.rs:686-695`) is never taken, which `ReadyFollowsVerdict` states.
- The row of an agent whose socket dropped ends as `agent_disconnected`
  (`signaling/routes.ts:316-322`), while the agent by design keeps serving
  (`main.rs:25`). `ActiveRowHasAgent` states the direction that does hold.
- A close handler deletes the presence entry whoever it names by then (`CleanupPresence`), the one
  of a newer socket included, and no heartbeat restores it; `PresenceHasSocket` is the direction
  that holds. Rows that were live when the server died stay so until their agent's next
  socket closes: nothing sweeps them at the start, and `ActiveRowHasAgent` stops there.
- The watchdog closes a page that sends nothing for the presence TTL; a page that
  only watches sends nothing (`signaling/routes.ts:139`).

### Proofs

`RemoteSession_proofs` proves, for any sessions, pages, sockets, faults and
number of restarts:

- `TypeCorrect`: `Spec => []TypeOK`.
- `RelayIsolated`: a session's frames reach only sockets that passed the
  check of `session:join` for it.
- `ReadyIsLate`: the agent remembers a `session:ready` only for a session it has decided.
- `PresenceIsBacked`: presence never names a socket whose close handler is done.
- `ActiveIsBacked`: until the server restarts, a row says "active" only while a socket of
  the agent is in the channel that its close handler has yet to account for.
- `OfferIsExpected`: an offer on its way follows the join of a page, unless the socket it is
  sent on replaced another. With one agent socket, as in the run, that is
  `OfferFollowsJoin` (`OfferFollowsReady`): an agent that reconnects offers again
  unasked, so more cannot be promised.
- `Implements`: the protocol implements `SessionLifecycle`, with
  `status <- row`, `serving <- active`.

The assumptions are `SessionsAssumption` (NoSession is no session),
`ConnsAssumption` (agent and page sockets differ, NoConn is neither) and
`TabsAssumption` (each page has a session).

None of these invariants is inductive. That a row says "active" only of an accepted
session depends on the UPDATE in flight, which depends on the frame that led to
it, which the agent sent when it decided, on an invitation that had
not been decided before. `IInv` follows that chain backwards:

- `OneSocket`: the agent's sockets other than its current one are dead and their inboxes
  empty, so an invitation is in one inbox only.
- `RowsRequested`, `InvitesOpen`: an invitation on its way belongs to a request that
  inserted its row, is there once, and is undecided; so a verdict is given once,
  which is what `Accept` and `Refuse` of the abstraction ask.
- `DecidedInvited`: a decided session was invited, so its row exists.
- `SentFrames`: an accept or deny that a client has sent agrees with the verdict; so does
  every statement in flight (`StatementsDecided`), which makes the UPDATE of
  the row a `RecordAccept` or `RecordRefusal`.
- `ServedAccepted`: the session served was accepted.
- `ChannelsJoined`: a channel's members have joined the session, from which
  `RelayIsolation` follows at every publication; and an agent's socket joins, or asks to
  join, only what the agent has decided, from which, with `RelayIsolation`,
  `ReadyFollowsVerdict` follows.

The proof that a step keeps `IInv` has one lemma per group of actions; that a
step maps to a step of the abstraction, one case per action, most of which leave
`row`, `verdict` and `active` alone. `PresenceHasSocket` is inductive with `TypeOK`.

`ActiveRowHasAgent` is not inductive either: an accept's UPDATE may be in flight when the
socket that sent it closes. `RowsServed` counts a pending row with that UPDATE in flight as
active: the relay issued it for a channel the socket had joined, and the close handler's own
UPDATE ends pending rows as well, so that a later one finds nothing pending. `OffersInv`
follows an offer back to its cause: `session:ready` on its way (`ReadyAnnounced`) or
remembered (`ReadyRemembered`) means a page has joined. Only liveness is model-checked
alone.

## 3. FileTransfer

One session's `md-files` channel. The agent handles one message at a time, holding a
lock until `active` is set; a download's task runs beside it. The panel's
callbacks read refs: `transferRef` is the state as last rendered (`Render`), while
`transfer` is the state with all queued updates. A click renders at once
(React flushes what a discrete event set), a message does not. Each
`upload:ready` starts a `sendNextChunk` loop that reads its file and shares its
offset with every other loop. A chunk is its file and number, which no
handler looks at: on the wire it is bytes.

Abstracted: a chunk is one unit of size; backpressure may pause a loop at any
time; progress messages and byte counts, which nothing decides on; the reasons of
a refusal, which come with or without the transfer id as in the code. Disk writes
succeed. Listing, mkdir, rename and delete, closing the panel and ending the session are
not modelled.

| run | instance | shows |
| --- | --- | --- |
| `files_mix` | any 3 of 2 uploads of 2 chunks and 2 downloads of 1; 2.6 M states | `TransferTypeOK`, `UploadIntact`, `SavedIsOwn`, `BusyWhileStreaming` |
| `files_interleave` | any 2 transfers | the finding below |

Three transfers are the smallest number with which the panel's shared references go
wrong in each way: one transfer shown, one that the agent has, one just selected
(an upload's `upload:complete` names the shown transfer; its loop reads the file selected
last). Two of each kind, of one size, are interchangeable, hence the symmetry. The
user may stop, so deadlock is not checked.

`UploadIntact` holds only as long as the user cancels nothing, `SavedIsOwn` only as long as
no download is cancelled. That is the code, not the model: a cancelled upload's loop keeps
sending and moves the offset it shares with the next upload's, and a cancelled download keeps streaming. The latter also harms uploads: when it
ends it releases whatever transfer is in progress, so that a second upload can be accepted
while the first one's loop still sends. That takes four transfers, one more than the run
has; it came up in the proof, when the invariant for "no upload is cancelled" was not
inductive. `SavedIsOwn` says that what is saved is the *end* of the file, since chunks that
arrive before the panel has rendered the download are dropped, and the download is still
shown as done.

Finding, `files_interleave`: `transfer:cancel` takes a download out of `active` with the
test for an upload, so that its task is detached and never aborted
(`filetransfer.rs:450`). It goes on sending untagged chunks while the next
transfer runs, and frees the agent in the middle of that one when it ends.
`vendor/protocol/filetransfer.ts:10-14` rests on there never being two.

`FileTransfer_proofs` proves, for any transfers and sizes, `TypeCorrect` (which
includes that a file never outgrows its declared size, whatever loops send),
`BusyIsStreaming`, `SavedIsItsEnd` and `FinishedIsIntact`. Assumptions: `KindsAssumption`
(uploads and downloads differ, NoTransfer is neither) and `SizeAssumption`. `TransferTypeOK` needs
`FileSelected`: a loop has a file, because the user selected one before an
`upload:start`, and so an `upload:ready`, was on the channel. The last two need what is on the
channel and in what order, written with the positions of messages in the queue (`At`,
`ChunksAt`, `Piece`); TLC checked both invariants before they were proved.

- `SavedIsItsEnd`, from `DownloadsInv`: one task at a time owns the agent (`OneStream`);
  `download:info` comes once, before the panel shows the download, and
  `download:complete` once, after the last chunk (`DownloadsAnnounced`, `DownloadsEnd`); when
  anything of one download is on the channel, every other is over before it or announced after it
  (`DownloadsTakeTurns`). So what the panel has kept of a download it shows is a piece of it
  that ends where the channel goes on (`PieceKept`), and what it saves is the end of the file.
- `FinishedIsIntact`, from `UploadsInv`: only the upload in progress has a loop (`LoopsActive`),
  and nothing of one is on its way to an agent that has none (`UploadsQuiet`). What the
  agent has written and what is on its way is the file so far, and the loop goes on where that ends
  (`UploadSoFar`). The exception is an upload that is `Lost`: its loop ended after the panel
  had turned to another transfer, so that `upload:complete` never names it. It stays in
  progress for good and is never reported.

## 4. Accounts and Browser

`Accounts` is one account and the requests on it. The API is one Node process, so
requests interleave at every awaited statement and nowhere else: a request is a record
with the label `pc` of its next statement and the row `seen` its last SELECT
returned, and each action runs one request from a statement to the next. `Browser` adds
the clients: tabs with their access token, `refreshPromise` (`flying`) and the calls
waiting for it, and a cookie jar the tabs share. Calls and refreshes use the request
slots of their own names; other slots are requests from elsewhere, with any
operation and any argument that exists.

| code | here |
| --- | --- |
| `users` | `user`; `until` is `lockedUntil`: null, in the future, or past |
| `auth_sessions` | `rows`: current and previous token, revoked or not, lapsed or not |
| `verification_tokens`, `2fa:challenge:*` | `mails`, `chal` |
| a refresh token | the number it was minted as; a hash is what it hashes |
| a password, a TOTP secret, a backup code | model values |
| `Set-Cookie` of a response | `cookie` of the request: applied by `Headers`, before the page reads the body |
| `fetch` rejects, or the body cannot be read | `RefreshFails`, `CallFails` |

`Init` is an account that does not exist, exists, or has two factors; with no session,
or with one of this browser and one of another that has been renewed once, whose
current and last token the requests from elsewhere may present.

An answer reaches a page in two steps (`apiClient.ts:52` and `:61`): `Headers` stores the cookie,
`RefreshReply`, `ReplyAuth` or `Reply` the token. Before either, the connection may fail: the
request never reached the server, was answered in vain (`Gone`), or goes on with nobody waiting
(`CarriedOn`, which moves it to a slot of a request from elsewhere). A page may also be reloaded;
what it had in flight has then failed before. `lost` remembers that a refresh
token was, or will be, minted for this browser that no jar gets. `MaxMoves` bounds
calls, requests from elsewhere, failures and reloads together; clocks (a token's expiry, a lockout's end, a session's lapse) are
nondeterministic. Guests, profile changes and the delivery of mail are left out.

| run | instance | shows |
| --- | --- | --- |
| `accounts` | 1 tab, 2 calls, 2 outside slots, 2 moves; lockout after 2; 1.2 M states | `TypeOK`, `SignOutSticks`, `LinkRedeemedOnce`, `ChallengeAnsweredOnce`, `LockNeedsFailures`; `NoSelfReuse`, `JarIsCurrent`, `WaiterHasRefresh` of the client |
| `tabs_refresh` | 2 tabs, no moves | the finding below |

Two requests at once are enough for any race of two handlers, and a tab's boot runs
beside them, so that three sequences of statements interleave; or one request or the boot fails, or the
page is reloaded, while another request runs. Symmetry exchanges
outside slots, calls and passwords; only invariants are checked.

Finding, `tabs_refresh`: the single flight is per tab, the cookie is per browser. Two
tabs that load together send the same token; the one handled after the other's UPDATE
finds it as the previous token, and the session is ended for reuse, which
`service.ts:262-264` takes for "theft or a broken client".

The actions also show what nobody promises, and no property claims: parallel wrong
passwords are counted once (`service.ts:147`), so `LockNeedsFailures` has only the
direction that holds; two requests may use one backup code (`routes.ts:171`), whose
list is read, filtered and written back; two requests for a link may leave two live
ones (`service.ts:407`); a login that read the old password may insert a session after
the reset's `revokeAllSessions`, so `SignOutSticks` speaks of sessions that were
there.

Two more limit what the client can be promised:

- A refresh whose answer is lost after the server's UPDATE leaves the retired token in the jar
  (`apiClient.ts:89-92` only drops the access token). The next refresh, of the same single tab,
  presents it and ends the session for reuse: again neither theft nor a broken client
  (`service.ts:262-264`). `NoSelfReuse` and `JarIsCurrent` therefore say nothing once
  `lost` is true.
- The jar and the access token may name different sessions: between the headers of a
  login and its body, and until the next refresh when the headers and bodies of a login
  and a refresh arrive crosswise. `JarIsCurrent` says what is left: the cookie renews *a*
  session of the browser.

### Proofs

`Browser_proofs` proves, for any tabs, jars, calls, requests, passwords and codes,
`TypeCorrect`, `LinkOnce`, `ChallengeOnce`, `LockEarned`, `SignOutHolds` and `WaiterServed`
(the properties of the first run but two), from `SlotsAssumption` and
`AttemptsAssumption`. `Inv` says what a request relies on between two statements (`Placed`):

- the row it will write back from was read, and had no more failures than there were:
  that makes `Failures` inductive, hence `LockNeedsFailures`;
- the sessions it found live are in the table, and once it has answered a sign-out
  they are dead. `Grows` (an ended session stays ended, whatever statement comes
  next, the UPDATE of a refresh included) keeps that for a request that has answered;
- a password it will write was given to it, and so `user` keeps its type.

`Links` and `Challenges` tie each count of redemptions to the row's own flag, which the
claiming statement tests and sets in one step. Each action is a lemma that concludes
`ServerInv'`, `Grows` and `Moved` (only its own request moved); the pages' actions only fill and
empty slots (`Filled`). 

`RefreshTokens_proofs` goes on to the refresh tokens, for any browsers, calls, failures, reloads and
requests from elsewhere, where each jar has one tab (`OneTabEach`; `tabs_refresh` shows that with
two `NoSelfReuse` is false) and refreshing is left to `refreshAccessToken`, as in the pages:

- `NeverReused`: `NoSelfReuse`. No session but the other browser's is ended for reuse.
- `JarRenews`: `JarIsCurrent`. What a jar holds renews a session of its browser, unless a refresh
  of its tab is in flight.

`TokensInv`, which holds until `lost`, says where every token is. No token renews two sessions (`RowTokens`), and a token is
held once: in a jar, in an answer whose headers are not in yet, or in the jar it was read from and in the
refresh that presents it (`Exclusive`), never outside the account's own pages (`Held`,
`Elsewheres`). A retired token stays only in the jar of the tab that had it retired, until its
answer replaces it (`Retired`), which is where the single flight enters: no second refresh
reads the jar before that. What a refresh found, and what was granted, stays the session's token
(`Current`), since nobody else can present it; so a token in a jar renews a session or its
successor is on its way (`Holding`).

## 5. Devices and AgentRun

`Devices` has the device rows, permissions, enrolment codes and secrets in the same
style: `owned` is `getOwnedDevice`, then one action per statement. A secret and its
Argon2 hash are the number it was minted as; 0 is NULL. `retired` remembers every secret
that ceased to be a credential, `claims` and `cut` what happened to a code.
`AgentRun` is the agent's program: `enroll`, `self_register`, `run` up to its loop, the
heartbeat's refresh of the permission mask, `reconnect_signaling`, crash and relaunch,
with `agent.toml` (`file`) between runs. Its calls go through the slot 0; the other
slots are the owner's dashboard and another computer that has the same code.

A call's answer is `ok` or an error that says nothing of its cause, as in
`parse_or_error`; the fault `lost` turns any answer into an error. A socket that was
admitted lives until its token has expired: the server checks at the next frame.
The end of `remote_sessions` rows by a revocation is `RemoteSession`'s; listing, history,
downloads, the REST heartbeat and disconnect are not here, nor the `enroll` command
run beside a running agent.

| run | instance | shows |
| --- | --- | --- |
| `devices` | 1 other request of any kind, 3 starts, 2 reconnect attempts; crash, lost socket; 179 k states | `TypeOK`, `CodeEnrolsOnce`, `CutCodeIsDead`, `SecretNeverReturns`, `IdentityKept`, `AgentSettles`, `RevokedAgentLeaves`, `PolicyReaches` |
| `identity_lost` | lost answers, 2 starts | the finding below |

Three starts are an enrolment, a run, and a relaunch; the other request may be a revocation, a
removal, a new code or another enrolment at any of their statements. The proofs below
need no such bound.

Fairness: requests in the server, answers, the reconnect loop, admission and the token's clock
go on (weak). The tick and the end of the socket are strongly fair, because both are
arms of one `select!` that is entered again and again: tokio polls its arms in random order,
and the first tick is due at once. A token lapses only after a heartbeat, since it
lasts 15 minutes and a heartbeat comes every 20 seconds.

Finding, `identity_lost`: every error of `authenticate` at start, a timeout or a busy server
included, is taken for a dead identity; the agent registers anew and overwrites
`agent.toml`. `main.rs:255` speaks of a row "deleted or revoked server-side".

A disagreement that no run of its own shows, since `RevokedAgentLeaves` is stated as what the
code does: a revocation does not "take effect immediately rather than when the token expires"
(`devices/service.ts:399-401`, and `authenticate.ts:129`, "immediately, not in 15 minutes") for an
agent that is online. Its next request is refused, but its socket was authenticated when it
was opened, nothing closes it or tells the agent, and the relay goes on taking its frames
until the token of that socket has expired (`Overdue`, up to 15 minutes). With the guard of
`CloseExpired` gone (`OverdueNever`, the property's mutant) such an agent never leaves.

Not promised by anything, and possible: of two permission changes one is lost
(`service.ts:284` rewrites every column from the row it read), and so are two changes of the
shared folders (`DeviceDetailPage.tsx:75`); an unattended password written by a request that
raced a revocation stays; an enrolment that had its code undoes a revocation
(`agent/routes.ts:91`), with a new secret, never an old one.

### Proofs

`AgentRun_proofs` proves `TypeCorrect`, `CodeOnce`, `CutCodeDead`,
`RetiredStaysRetired` and `IdentityOutlivesStarts` (the first five properties above) for any
number of requests, starts and retries, from `AgentAssumption`; the last if answers are not
lost, since `identity_lost` shows it false otherwise. The statements of different requests
interleave freely, so the invariant says what a request between two of them may rely on
(`Placed`): a row it selected has not left the table, a code it will claim is in the table, and an
enrolment that claimed its code holds a secret that no device has or had and no other
enrolment holds. `CodesSpent` makes the first two properties inductive: a redeemed or cut code is
used, and a claim needs one that is not. For `SecretNeverReturns`, `SecretsLive`
adds that devices never share a secret, so that retiring one device's leaves the
others' alone, and that a removed row has none.

`IdentityKept` speaks of the moment the agent overwrites its file, many steps after the server
refused what is in it. `Identity` bridges them: a refusal was true when it was given
(`Authenticating`) and stays true until the file is replaced (`Abandoned`), because a secret is
handed out only when it has been installed (`Given`), so no enrolment still in flight can
make the refused one a credential (`Unawaited`).

## 6. Peer and Share

`Peer` is an accepted session: the agent's event loop, its ICE watcher's tasks, its captures, the
page's peer connection and buttons, one FIFO each way, and a network. The page runs
JavaScript, so its `webrtc:offer` handler is split where it awaits; WebRTC queues
descriptions on the connection (`chain`). A description is abstracted to whose ICE
credentials it carries, those the agent uses now (`new`) or dropped ones (`old`): a restart
makes all that was exchanged before old, and the ends connect only when both have
`new` ones. That keeps the number of restarts unbounded in a finite model.
WebRTC's own behaviour, ICE states included, is external, modelled from how the code uses it.

The loop and the watcher's tasks make offers on one connection, in two awaits each: `create_offer`
(`AgentReady`, `Grant`, `Reconnect`; `Check`) and `set_local_description` (`AgentSets`;
`RestartSets`). `latest` is who created last and has yet to set it: only that offer can be set. What
the handler in the loop does otherwise is part of the step (`Set`): after `session:ready` the error
is only logged, a request for a capture is refused; a task only warns. That `create_offer`
itself fails only on a closed connection is an assumption about WebRTC.

`Share` puts a second kind of agent at the other end: the browser tab that registers when it
loads, is admitted, invited, asks its user for a screen, and closes whenever it likes; and
the viewer that connects to it as a guest, with `guestConnectWithRetry`.

| run | instance | shows |
| --- | --- | --- |
| `peer` | camera, 2 restart tasks, 2 events, 2 retries; 250 k states | `TypeOK`, `DownIsAttended`, `OfferIsAnswered`, `InterruptionRecovers`, `ConsentShown`, `DeadAddressIsUnreachable` |
| `share_unheard` | no events | the finding below |

The microphone is the camera's code again. Two tasks are one that sleeps while another
restarts; more need a third loss within one grace period. An event is a capability request, an
interruption or the loss of the agent's socket: two of them are a loss during a
renegotiation, two requests, or an interruption and a lost socket. Five retries in the
code are two here; the count is a parameter of the proofs.

Fairness: the agent's loop, its watcher and tasks (as one), the page's handlers, the tab's own code and the server
go on; an ICE agent acts on what it sees; an outage passes; presence that nobody
refreshes expires. Neither end's user owes anything, and the page's giving up (`failed`) is
never owed. Two clocks are assumed: a check does not fail while an offer or answer
is on its way, and what is disconnected takes longer to fail (25 s) than the watcher's
grace period (8 s).

A page that is gone is `over`, whatever it displays, and the path between two connections is no
longer looked at once one of them is closed.

What the properties leave open, because the code does: after overlapping offers the two ends
may hold different credentials, and only the watcher repairs it, which is why
`InterruptionRecovers` rests on `DownIsAttended`; after a reconnect the agent does not
broadcast `capability:state` again, so a button whose answer was on the lost socket stays as
it was, and `ConsentShown` ends with "unless the signaling was lost"; a page that fails or
is closed sends no `session:end`, and the camera stays on; a request is granted by the
agent's mask without asking anyone, though `vendor/protocol/signaling.ts:200-203` says it
reaches a human. Candidates, data channels, chat, recording and drawing are left out.

`ConsentShown` has one more exception, which the run reaches (without it the property
fails): `grant_camera` starts the capture and then renegotiates
(`session.rs:238-241`); if a restart task calls `create_offer` between the two awaits, the offer
cannot be set, the broadcast is skipped and the request is answered `granted: false`
(`main.rs:580-586`). The button says denied while the camera runs, until the next request, which
`grant_camera` confirms as "already on". Likewise a capture thread that ends by itself, when the
device fails (`session.rs:675-703`), leaves its handle behind and tells nobody; in the model
`capture` is the handle, whether or not the thread lives. `vendor/protocol/signaling.ts:224` says of
`capability:state`: "Broadcast whenever a capture device starts or stops, so both UIs light up".

Of the tab: a picker that is answered after the page was left starts a capture that nobody
stops; `incoming` is not cleared when its session ends; a second accepted stream
overwrites the first. A tab that closes between registration and the moment its close
handler is set keeps its row, which `QuickConnectPage.tsx:117-119` says is deleted;
`DeadAddressIsUnreachable` shows that it cannot be reached all the same, because presence
lapses. Favourites, settings and the desktop's polling are left out.

Finding, `share_unheard`: only `RemoteSessionPage` sends `session:join`. The tab never does,
so the relay refuses its `session:accept` and all that follows, `session:ready` never comes,
and the viewer waits "for approval forever", which `pendingReadyRef`
(`QuickConnectPage.tsx:172-175`) is there to prevent.

### Proofs

`Share_proofs` proves `TypeCorrect`, `DownAttended` and `OfferAnswered` for any captures,
tasks, events and retries, from `CapsAssumption`, `BoundsAssumption` and
`RetriesAssumption`; `TasksAssumption` only keeps the names in `latest` apart.

- `DownIsAttended` needs `FlagHasSleeper`: `restart_scheduled` is up only while a task
  sleeps, so a state change that finds it up may be dropped: the sleeper will read the
  state. That the flag is lowered before the state is read, and not after, is what makes it so.
- `OfferIsAnswered` follows an outstanding offer along its way (`InFlight`): the loop, a task
  (`LoopOffers`, `TaskOffers`: one that will be set, or has been; `SetsFirst`: the loop sets an
  offer before it writes anything else), the relay, the page's chain, the offer applied, the answer back. `AppliedHasHandler` says that an offer
  that was applied has a handler past `setRemoteDescription`; which of two handlers answers does not
  matter. `OneServes` keeps a viewer's new page away from a native agent's session.

The liveness properties are checked by TLC only.

## 7. What is proved and what is checked

| module | proved for every instance | model-checked only |
| --- | --- | --- |
| `RemoteSession` | `TypeOK`, `RelayIsolation`, `ReadyFollowsVerdict`, `PresenceHasSocket`, `ActiveRowHasAgent`, `OfferFollowsJoin` (one agent socket), implements `SessionLifecycle` | `AgentGoneEndsRows`, `ReadyGetsOffer`, `LeavingEndsService` |
| `FileTransfer` | `TransferTypeOK`, `BusyWhileStreaming`, `UploadIntact`, `SavedIsOwn` | |
| `Accounts`, `Browser` | `TypeOK`, `LinkRedeemedOnce`, `ChallengeAnsweredOnce`, `LockNeedsFailures`, `SignOutSticks`, `WaiterHasRefresh`, `NoSelfReuse`, `JarIsCurrent` (one tab to a jar) | |
| `Devices`, `AgentRun` | `TypeOK`, `CodeEnrolsOnce`, `CutCodeIsDead`, `SecretNeverReturns`, `IdentityKept` (no lost answers) | `AgentSettles`, `RevokedAgentLeaves`, `PolicyReaches` |
| `Peer`, `Share` | `TypeOK`, `DownIsAttended`, `OfferIsAnswered` | `InterruptionRecovers`, `ConsentShown`, `DeadAddressIsUnreachable` |

Every invariant and action property of a passing run is a theorem. The rest is liveness under
fairness, out of the prover's reach: its backends know nothing of ENABLED. Worth modelling
next: the session rows a revocation ends, composed with `RemoteSession`; the path and permission
checks as operators.

## 8. Not modelled

- **Clipboard bridge.** One poller and one writer around one remembered text. The poller
  reads the clipboard before it takes the lock, and `write_from_remote` sets `last_seen`
  before `set_text` (`clipboard.rs:67-90`), so the old text and then the remote one can be sent
  back, contrary to the function's comment. There is nothing beyond that race to model.
- **Unattended password lockout.** A counter and a lockout in the store, each touched without an
  await; the password is verified between the check and the count, so requests that
  passed the check together are all tried, as with logins in section 4.
- **Input injection, capture, codecs**: operating-system calls.
- **Mail, health checks, configuration, audit log, rendering, the desktop shell**: input and
  output, append-only writes, packaging.
- **Protocol validation and path checks**: pure functions of one frame or path.
- **`webrtc-dtls`**: third-party code.
