----------------------------- MODULE MCSelfUpdate -----------------------------
(***************************************************************************)
(* Two releases above a build without a version, two requests, two workers *)
(* and two jobs: enough for answers to arrive out of order, for a job to   *)
(* be enqueued behind the one it should have been refused for, and for a   *)
(* process to end in the middle of a swap.                                 *)
(***************************************************************************)
EXTENDS SelfUpdate
=============================================================================
