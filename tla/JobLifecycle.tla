----------------------------- MODULE JobLifecycle -----------------------------
(***************************************************************************)
(* What the worker promises about a row of the jobs table: it is created   *)
(* as queued, it may become running, it ends at most once, and an outcome  *)
(* that was recorded is never replaced by another.                         *)
(***************************************************************************)
CONSTANT Jobs

VARIABLE status

Ended == {"done", "failed", "canceled"}

Init == status = [j \in Jobs |-> "absent"]

Becomes(j, from, to) == /\ status[j] \in from
                        /\ \E s \in to : status' = [status EXCEPT ![j] = s]

\* A job that never started cannot be done.
Create(j) == Becomes(j, {"absent"}, {"queued"})
Start(j) == Becomes(j, {"queued"}, {"running"})
Drop(j) == Becomes(j, {"queued"}, {"failed", "canceled"})
End(j) == Becomes(j, {"running"}, Ended)

Next == \E j \in Jobs : Create(j) \/ Start(j) \/ Drop(j) \/ End(j)

Spec == Init /\ [][Next]_status
=============================================================================
