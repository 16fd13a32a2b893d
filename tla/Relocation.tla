------------------------------ MODULE Relocation ------------------------------
(***************************************************************************)
(* What an organize run and its undo promise about a set of books: the     *)
(* disk may be rearranged at any time, but the database changes its mind   *)
(* about where the books are only when the disk already agrees, for the    *)
(* whole run at once on the way out and book by book on the way back.      *)
(***************************************************************************)
CONSTANT Books

VARIABLES atOld,  \* books whose every file is at its original path
          atNew,  \* books whose every file is at its planned path
          db      \* where the database says each book is

vars == <<atOld, atNew, db>>

Init == /\ atOld = Books
        /\ atNew \in SUBSET Books
        /\ db = [b \in Books |-> "old"]

\* Files come and go between the two layouts; the rows stay.
Rearrange == /\ atOld' \in SUBSET Books
             /\ atNew' \in SUBSET Books
             /\ UNCHANGED db

\* Every row is switched in one transaction, once every file has arrived.
Commit == /\ atNew = Books
          /\ \A b \in Books : db[b] = "old"
          /\ db' = [b \in Books |-> "new"]
          /\ UNCHANGED <<atOld, atNew>>

\* A row is put back only after every file of the run is back.
Revert(b) == /\ atOld = Books
             /\ db' = [db EXCEPT ![b] = "old"]
             /\ UNCHANGED <<atOld, atNew>>

Next == Rearrange \/ Commit \/ \E b \in Books : Revert(b)

Spec == Init /\ [][Next]_vars
=============================================================================
