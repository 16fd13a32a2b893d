------------------------------ MODULE MCOrganize ------------------------------
(***************************************************************************)
(* A library in which book 1 moves from folder "o" to a new folder "a/b",  *)
(* gets new tags and leaves "o" empty, and book 2, a loose file of folder  *)
(* "a", changes only the case of its name.                                 *)
(***************************************************************************)
EXTENDS Organize, OrganizePlan

MCFiles == {"f1", "f2"}
MCForeign == {"x"}
MCPaths == {"o/f1", "a/b/f1", "a/f2", "a/F2", "a/f2.tmp", "a/b/x"}
MCTemps == {"a/f2.tmp"}
MCDirs == {"o", "a", "a/b"}
MCWithin == [p \in MCPaths \cup MCDirs |->
  CASE p \in {"o", "o/f1"} -> {"o"}
    [] p \in {"a/b", "a/b/f1", "a/b/x"} -> {"a", "a/b"}
    [] OTHER -> {"a"}]
MCBookOf == [f \in MCFiles |-> IF f = "f1" THEN 1 ELSE 2]
MCLoose == {2}
MCPrior == [b \in 1 .. 2 |-> IF b = 1 THEN "matched" ELSE "organized"]
MCOld == [f \in MCFiles |-> IF f = "f1" THEN "o/f1" ELSE "a/f2"]
MCNew == [f \in MCFiles |-> IF f = "f1" THEN "a/b/f1" ELSE "a/F2"]
MCPlan == <<
  [oldDir |-> "o", newDir |-> "a/b",
   moves |-> <<[from |-> "o/f1", to |-> "a/b/f1", temp |-> "none", tags |-> TRUE]>>],
  [oldDir |-> "a", newDir |-> "a",
   moves |-> <<[from |-> "a/f2", to |-> "a/F2", temp |-> "a/f2.tmp", tags |-> FALSE]>>]>>
MCSteps == BuildSteps(MCPlan, MCWithin, {"o", "a"})
=============================================================================
