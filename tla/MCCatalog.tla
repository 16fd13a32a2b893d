------------------------------ MODULE MCCatalog ------------------------------
EXTENDS Catalog
CONSTANTS root, top, sub, c1, c2, u1

MCBelow == [d \in Dirs |-> CASE d = root -> Dirs [] d = top -> {top, sub} \cap Dirs [] d = sub -> {sub}]
MCOrder == SelectSeq(<<root, top, sub>>, LAMBDA d : d \in Dirs)
MCRenamed == [c \in Contents |-> 2]
MCCover == (c1 :> u1) @@ (c2 :> None)
MCResults == {<<>>, <<c2, c1>>, <<c1>>}
MCStart == {[d \in Dirs |-> IF d = e THEN 1 ELSE None] : e \in {root, top}}
MCAtRoot == {[d \in Dirs |-> IF d = root THEN 1 ELSE None]}
Symmetry == Permutations(Ids) \cup Permutations(Workers)
=============================================================================
