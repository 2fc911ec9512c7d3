--------------------------------- MODULE Share ---------------------------------
(***************************************************************************)
(* Who may be at the other end of a session page: the native agent of Peer *)
(* or a plain browser tab that registers itself as a screen-only device    *)
(* when it loads and forgets its address when it closes. One viewer uses   *)
(* the tab's address, as a guest.                                          *)
(*                                                                         *)
(* The tab never sends session:join, so the relay takes no frame of it and *)
(* sends it none of the session: its handlers for session:ready, for       *)
(* answers and candidates and for session:end are never entered, and are   *)
(* not actions here.                                                       *)
(***************************************************************************)
EXTENDS Peer

CONSTANT MaxRetries  \* length of guestConnectWithRetry's delaysMs

ASSUME RetriesAssumption == MaxRetries \in Nat

VARIABLES
  tab,              \* the tab's progress; "absent" if a native agent serves
  device,           \* the tab's row in devices
  socket,           \* its signaling socket, in the server
  presence,         \* its presence entry
  invite,           \* a session:invite on its way to the tab
  prompt, picker,   \* `incoming` is shown; getDisplayMedia is open
  stream, sharing,  \* a capture runs; the tab says it is sharing
  tabOut,           \* the tab's frames on their way to the server
  viewer, tries     \* the Connect button of the viewer

tabVars == <<tab, device, socket, presence, invite, prompt, picker, stream, sharing, tabOut>>
vars == <<peerVars, tabVars, viewer, tries>>

TabStart ==
  /\ device = "none" /\ socket = "none" /\ presence = FALSE /\ invite = FALSE
  /\ prompt = FALSE /\ picker = FALSE /\ stream = FALSE /\ sharing = FALSE
  /\ tabOut = <<>> /\ viewer = "idle" /\ tries = 0

BrowserInit ==
  /\ serving = FALSE /\ loop = <<>> /\ capture = [c \in Caps |-> FALSE]
  /\ sig = "stable" /\ latest = "none" /\ peer = "none" /\ ice = "closed" /\ event = FALSE
  /\ phase = "none" /\ toAgent = <<>> /\ link = "none"

Init ==
  /\ CommonInit /\ TabStart
  /\ \/ NativeInit /\ tab = "absent"
     \/ BrowserInit /\ tab = "registering"

-------------------------------------------------------------------------------
(* The tab's address.                                                       *)

\* POST /agent/register, whether or not the tab still waits for it.
ServerRegisters ==
  /\ tab # "absent" /\ device = "none"
  /\ device' = "kept"
  /\ UNCHANGED <<peerVars, tab, socket, presence, invite, prompt, picker, stream, sharing,
                 tabOut, viewer, tries>>

\* /agent/auth and /agent/config, then the socket; or an error that leaves the
\* tab without an address.
TabGoesOnline ==
  /\ tab = "registering" /\ device = "kept"
  /\ \/ tab' = "online" /\ socket' = "auth"
     \/ tab' = "failed" /\ UNCHANGED socket
  /\ UNCHANGED <<peerVars, device, presence, invite, prompt, picker, stream, sharing,
                 tabOut, viewer, tries>>

\* GET /signal: the socket enters the hub and presence.
TabAdmitted ==
  /\ socket = "auth"
  /\ socket' = "added" /\ presence' = TRUE
  /\ UNCHANGED <<peerVars, tab, device, invite, prompt, picker, stream, sharing, tabOut,
                 viewer, tries>>

\* Only now are its listeners set: a close before this is not noticed.
TabListened ==
  /\ socket = "added"
  /\ socket' = IF tab = "online" THEN "open" ELSE "zombie"
  /\ UNCHANGED <<peerVars, tab, device, presence, invite, prompt, picker, stream, sharing,
                 tabOut, viewer, tries>>

\* teardownShare: the page is left, or its socket died. A screen picker that
\* is open stays open unless the whole tab goes.
TabTornDown ==
  /\ tab \in {"registering", "online", "failed"}
  /\ tab' = "gone"
  /\ picker' \in {picker, FALSE}
  /\ stream' = FALSE /\ sharing' = FALSE /\ prompt' = FALSE /\ invite' = FALSE
  /\ tabOut' = <<>>
  /\ UNCHANGED <<peerVars, device, socket, presence, viewer, tries>>

\* The close handler.
TabClosed ==
  /\ socket = "open" /\ tab = "gone"
  /\ socket' = "closing"
  /\ UNCHANGED <<peerVars, tab, device, presence, invite, prompt, picker, stream, sharing,
                 tabOut, viewer, tries>>

\* An ephemeral device is deleted; its presence entry is left to lapse.
DeviceDeleted ==
  /\ socket = "closing"
  /\ socket' = "closed" /\ device' = "deleted"
  /\ UNCHANGED <<peerVars, tab, presence, invite, prompt, picker, stream, sharing, tabOut,
                 viewer, tries>>

\* Mistake: the entry lasts until the close handler has run.
LapseAfterClose ==
  /\ presence /\ socket = "closed"
  /\ presence' = FALSE
  /\ UNCHANGED <<peerVars, tab, device, socket, invite, prompt, picker, stream, sharing,
                 tabOut, viewer, tries>>

\* No heartbeat refreshes the presence entry any more.
TabLapses ==
  /\ presence /\ ~(socket \in {"added", "open"} /\ tab = "online")
  /\ presence' = FALSE
  /\ UNCHANGED <<peerVars, tab, device, socket, invite, prompt, picker, stream, sharing,
                 tabOut, viewer, tries>>

-------------------------------------------------------------------------------
(* The invitation, the consent and the capture.                             *)

TabInvited ==
  /\ invite /\ tab = "online"
  /\ invite' = FALSE /\ prompt' = TRUE
  /\ UNCHANGED <<peerVars, tab, device, socket, presence, picker, stream, sharing, tabOut,
                 viewer, tries>>

\* acceptIncoming up to getDisplayMedia.
TabAccepts ==
  /\ prompt
  /\ prompt' = FALSE /\ picker' = TRUE
  /\ UNCHANGED <<peerVars, tab, device, socket, presence, invite, stream, sharing, tabOut,
                 viewer, tries>>

\* sendSignal: nothing is sent once the socket is gone.
TabSends(type) == IF tab = "online" THEN Append(tabOut, Frame(type)) ELSE tabOut

\* The picker is answered, even after a teardown: a screen and
\* session:accept, or session:deny.
PickerAnswered ==
  /\ picker /\ picker' = FALSE
  /\ \/ /\ stream' = TRUE /\ sharing' = TRUE
        /\ tabOut' = TabSends("accept")
     \/ /\ tabOut' = TabSends("deny")
        /\ UNCHANGED <<stream, sharing>>
  /\ UNCHANGED <<peerVars, tab, device, socket, presence, invite, prompt, viewer, tries>>

\* declineIncoming.
TabDeclines ==
  /\ prompt
  /\ prompt' = FALSE
  /\ tabOut' = TabSends("deny")
  /\ UNCHANGED <<peerVars, tab, device, socket, presence, invite, picker, stream, sharing,
                 viewer, tries>>

\* The track's 'ended', from the browser's own stop button.
StreamEnds ==
  /\ stream
  /\ stream' = FALSE /\ sharing' = FALSE
  /\ tabOut' = TabSends("end")
  /\ UNCHANGED <<peerVars, tab, device, socket, presence, invite, prompt, picker, viewer, tries>>

\* connection.sessions of the tab's socket: only a session:join adds to it.
TabJoined == FALSE

\* The relay's guard: PERMISSION_DENIED, an error frame the tab ignores.
TabRelayed ==
  /\ socket \in {"added", "open"} /\ tabOut # <<>>
  /\ tabOut' = Tail(tabOut)
  /\ toPage' = IF socket = "open" /\ TabJoined /\ Here THEN Append(toPage, Head(tabOut)) ELSE toPage
  /\ UNCHANGED <<agentVars, pageVars, toAgent, link, path, usable, events, tab, device,
                 socket, presence, invite, prompt, picker, stream, sharing, viewer, tries>>

-------------------------------------------------------------------------------
(* The viewer: connectTo, with a guest account if there is no other.        *)

Connect ==
  /\ tab # "absent" /\ viewer = "idle"
  /\ viewer' \in {"guest", "creating"}
  /\ UNCHANGED <<peerVars, tabVars, tries>>

\* Mistake: one attempt too many.
GuestRetriesOnceMore ==
  /\ viewer = "guest"
  /\ \/ viewer' = "creating" /\ UNCHANGED tries
     \/ tries <= MaxRetries /\ tries' = tries + 1 /\ UNCHANGED viewer
     \/ tries > MaxRetries /\ viewer' = "error" /\ UNCHANGED tries
  /\ UNCHANGED <<peerVars, tabVars>>

\* guestConnectWithRetry: a server that is still waking up is tried again.
GuestAttempt ==
  /\ viewer = "guest"
  /\ \/ viewer' = "creating" /\ UNCHANGED tries
     \/ tries < MaxRetries /\ tries' = tries + 1 /\ UNCHANGED viewer
     \/ tries = MaxRetries /\ viewer' = "error" /\ UNCHANGED tries
  /\ UNCHANGED <<peerVars, tabVars>>

\* POST /sessions needs a device that is online; the invitation goes to its
\* channel and the viewer to the session page, which joins.
Create ==
  /\ viewer = "creating"
  /\ IF device = "kept" /\ presence
       THEN /\ viewer' = "in" /\ phase' = "waiting"
            /\ invite' = (socket \in {"added", "open"} /\ tab = "online")
       ELSE /\ viewer' = "error" /\ UNCHANGED <<phase, invite>>
  /\ UNCHANGED <<agentVars, ui, pending, chain, remote, have, answering, cred, netVars, tab,
                 device, socket, presence, prompt, picker, stream, sharing, tabOut, tries>>

-------------------------------------------------------------------------------
TabServer == ServerRegisters \/ TabAdmitted \/ TabListened \/ TabClosed \/ DeviceDeleted
               \/ TabRelayed
TabPage == TabGoesOnline \/ TabInvited \/ TabTornDown
TabPerson == TabAccepts \/ PickerAnswered \/ TabDeclines \/ StreamEnds
Viewer == Connect \/ GuestAttempt \/ Create

Next == (PeerNext /\ UNCHANGED <<tabVars, viewer, tries>>)
          \/ TabServer \/ TabPage \/ TabLapses \/ TabPerson \/ Viewer

\* Beside Peer's: the server and the tab's page carry on, an entry nobody
\* refreshes expires. None of this happens twice, so one fairness does for all.
\* The people at the tab and at the viewer owe nothing.
Fairness ==
  /\ PeerFairness
  /\ WF_vars(TabServer \/ TabGoesOnline \/ TabInvited \/ TabLapses)

Spec == Init /\ [][Next]_vars /\ Fairness

-------------------------------------------------------------------------------
TypeOK ==
  /\ PeerTypeOK
  /\ tab \in {"absent", "registering", "online", "failed", "gone"}
  /\ device \in {"none", "kept", "deleted"}
  /\ socket \in {"none", "auth", "added", "open", "closing", "closed", "zombie"}
  /\ {presence, invite, prompt, picker, stream, sharing} \subseteq BOOLEAN
  /\ \A i \in DOMAIN tabOut : tabOut[i].type \in {"accept", "deny", "end"}
  /\ viewer \in {"idle", "guest", "creating", "in", "error"} /\ tries \in 0..MaxRetries

\* A viewer can only reach an address whose row and presence entry both exist.
Addressable == device = "kept" /\ presence

\* The address of a tab that closed, or lost its connection, stops being one
\* a viewer can connect to and never is again, also when it closed while the
\* server was still registering it or letting its socket in.
DeadAddressIsUnreachable == (tab = "gone") ~> []~Addressable

\* The tab's session:accept is about to be handled by the server.
Accepting == socket = "open" /\ tabOut # <<>> /\ Head(tabOut).type = "accept"

\* Violated: pendingReadyRef is there so that the viewer does not wait "for
\* approval forever even though the screen share was, in fact, approved". Once
\* the tab's acceptance reaches the server, the viewer's page stops waiting, or
\* the person stops sharing.
AcceptedShareIsSeen == (Accepting /\ phase = "waiting") ~> (phase # "waiting" \/ ~stream)
===============================================================================
