--------------------------------- MODULE MCPeer --------------------------------
(***************************************************************************)
(* A small instance of Share, and with it of Peer, for TLC.                *)
(***************************************************************************)
EXTENDS Share

CONSTANTS camera, r1, r2

Camera == {camera}  \* the microphone is handled the same
TwoTasks == {r1, r2}  \* one asleep while another restarts
===============================================================================
