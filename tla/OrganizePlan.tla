----------------------------- MODULE OrganizePlan -----------------------------
(***************************************************************************)
(* The pure half of Execute: from the planned books to the ordered list of *)
(* journaled steps.                                                        *)
(***************************************************************************)
EXTENDS Integers, Sequences, FiniteSets, SequencesExt

\* fitting: the folders of a chain that are there already. Depth: how many
\* folders lie between one and the root, which orders paths as their length does.
Shallow(within, S) == SetToSortSeq(S, LAMBDA d, e : Cardinality(within[d]) < Cardinality(within[e]))

\* ancestorDirs of every target folder that do not exist yet, parents first.
Mkdirs(plan, within, exists) ==
  LET S == UNION {within[b.newDir] : b \in ToSet(plan)} \ exists
  IN [i \in 1 .. Cardinality(S) |->
        [kind |-> "mkdir", src |-> "none", dst |-> Shallow(within, S)[i]]]

\* One step for a file that changes its path, two for one that changes only case.
MoveSteps(m) ==
  CASE m.from = m.to -> <<>>
    [] m.from # m.to /\ m.temp = "none" ->
         <<[kind |-> "move", src |-> m.from, dst |-> m.to]>>
    [] OTHER -> <<[kind |-> "leg1", src |-> m.from, dst |-> m.temp],
                  [kind |-> "leg2", src |-> m.temp, dst |-> m.to]>>
MovesOf(plan) == FlattenSeq([b \in 1 .. Len(plan) |->
  FlattenSeq([i \in 1 .. Len(plan[b].moves) |-> MoveSteps(plan[b].moves[i])])])

\* emptyingDirs of every book that leaves its folder, children first: the old
\* folder and its parents, but none that also holds the book's new folder.
Rmdirs(plan, within) ==
  LET S == UNION {within[b.oldDir] \ within[b.newDir] :
                    b \in {c \in ToSet(plan) : c.oldDir # c.newDir}}
      deep == Reverse(Shallow(within, S))
  IN [i \in 1 .. Cardinality(S) |-> [kind |-> "rmdir", src |-> "none", dst |-> deep[i]]]

\* A tag write for every file whose embedded tags differ from the wanted ones.
TagSteps(plan) == FlattenSeq([b \in 1 .. Len(plan) |->
  LET changed == SelectSeq(plan[b].moves, LAMBDA m : m.tags)
  IN [i \in 1 .. Len(changed) |->
        [kind |-> "tag", src |-> "none", dst |-> changed[i].to]]])

BuildSteps(plan, within, exists) ==
  Mkdirs(plan, within, exists) \o MovesOf(plan) \o Rmdirs(plan, within) \o TagSteps(plan)
=============================================================================
