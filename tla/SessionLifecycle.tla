--------------------------- MODULE SessionLifecycle ---------------------------
(***************************************************************************)
(* What the remote-session service promises, with no sockets and no        *)
(* frames: every requested session has a database status and one verdict   *)
(* of the device's agent; the verdict is final, the status never contradicts *)
(* it, and the agent serves at most one session, one it accepted.          *)
(* RemoteSession is shown to implement this specification.                 *)
(***************************************************************************)
CONSTANTS Sessions, NoSession

VARIABLES status,   \* remote_sessions.status, "none" before the INSERT
          verdict,  \* the agent's decision on the invitation
          serving   \* the session the agent is serving, or NoSession

vars == <<status, verdict, serving>>

Init ==
  /\ status  = [s \in Sessions |-> "none"]
  /\ verdict = [s \in Sessions |-> "open"]
  /\ serving = NoSession

\* A controller's request creates the row.
Request(s) ==
  /\ status[s] = "none"
  /\ status' = [status EXCEPT ![s] = "pending"]
  /\ UNCHANGED <<verdict, serving>>

\* The agent takes the session on. It decides from its own state and from
\* the invitation alone: the row may have ended meanwhile.
Accept(s) ==
  /\ status[s] # "none"
  /\ verdict[s] = "open"
  /\ serving = NoSession
  /\ verdict' = [verdict EXCEPT ![s] = "accepted"]
  /\ serving' = s
  /\ UNCHANGED status

\* The agent turns the session down: it is busy, or could not start.
Refuse(s) ==
  /\ status[s] # "none"
  /\ verdict[s] = "open"
  /\ verdict' = [verdict EXCEPT ![s] = "refused"]
  /\ UNCHANGED <<status, serving>>

\* The agent stops serving, whatever the reason.
Release ==
  /\ serving # NoSession
  /\ serving' = NoSession
  /\ UNCHANGED <<status, verdict>>

\* The row follows the verdict, if nothing ended it first.
RecordAccept(s) ==
  /\ status[s] = "pending"
  /\ verdict[s] = "accepted"
  /\ status' = [status EXCEPT ![s] = "active"]
  /\ UNCHANGED <<verdict, serving>>

RecordRefusal(s) ==
  /\ status[s] = "pending"
  /\ verdict[s] = "refused"
  /\ status' = [status EXCEPT ![s] = "denied"]
  /\ UNCHANGED <<verdict, serving>>

\* Sessions end for good; one statement may end several. A denied one can
\* still be marked ended by its requester.
End ==
  \E S \in SUBSET {s \in Sessions : status[s] # "none"} :
    /\ status' = [s \in Sessions |-> IF s \in S THEN "ended" ELSE status[s]]
    /\ UNCHANGED <<verdict, serving>>

Next ==
  \/ \E s \in Sessions :
       Request(s) \/ Accept(s) \/ Refuse(s) \/ RecordAccept(s) \/ RecordRefusal(s)
  \/ Release
  \/ End

Spec == Init /\ [][Next]_vars
===============================================================================
