------------------------------- MODULE MCEvents -------------------------------
(* The instances of Events that TLC checks. *)
EXTENDS Events
=============================================================================
