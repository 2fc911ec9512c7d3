------------------------------ MODULE MCAgentRun ------------------------------
(***************************************************************************)
(* Small instances of AgentRun (and of Devices below it) for TLC.          *)
(***************************************************************************)
EXTENDS AgentRun, TLC

CONSTANT screen

Slots == 0..MaxAsked
AllOps == Owned \cup {"create", "enroll"}
===============================================================================
