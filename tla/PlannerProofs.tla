---------------------------- MODULE PlannerProofs ----------------------------
(***************************************************************************)
(* Theorems of Planner, for every library: what a scan makes of a tree,     *)
(* what a plan promises, and what a run makes of both.                      *)
(*                                                                         *)
(* The folds and the recursive functions of the model are reasoned about by *)
(* instances of FoldProofs, one for each.                                    *)
(***************************************************************************)
EXTENDS Planner, DataProofs

-----------------------------------------------------------------------------
(* Paths, as the file system compares them. *)

\* A name as the file system sees it.
NameKey(n) == IF world.exact THEN n ELSE Folded(n)

\* Paths are the same file if their names are.
LEMMA KeyParts ==
  ASSUME NEW p, NEW q, IsList(p), IsList(q)
  PROVE  Key(p) = Key(q) <=> Len(p) = Len(q) /\ \A i \in 1 .. Len(p) : NameKey(p[i]) = NameKey(q[i])
<1>1. /\ Len(p) \in Nat /\ DOMAIN p = 1 .. Len(p) /\ p = [i \in 1 .. Len(p) |-> p[i]]
      /\ Len(q) \in Nat /\ DOMAIN q = 1 .. Len(q) /\ q = [i \in 1 .. Len(q) |-> q[i]]
  BY ListParts
<1>2. CASE world.exact
  <2>1. Key(p) = p /\ Key(q) = q /\ \A n : NameKey(n) = n
    BY <1>2 DEF Key, KeyIn, NameKey
  <2>2. p = q <=> Len(p) = Len(q) /\ \A i \in 1 .. Len(p) : p[i] = q[i]
    BY ListEqual
  <2> QED BY <2>1, <2>2
<1>3. CASE ~ world.exact
  <2> DEFINE a == [i \in 1 .. Len(p) |-> Folded(p[i])]
             b == [i \in 1 .. Len(q) |-> Folded(q[i])]
  <2>1. Key(p) = a /\ Key(q) = b /\ \A n : NameKey(n) = Folded(n)
    BY <1>1, <1>3 DEF Key, KeyIn, FoldedPath, NameKey
  <2>2. ASSUME a = b PROVE Len(p) = Len(q) /\ \A i \in 1 .. Len(p) : Folded(p[i]) = Folded(q[i])
    <3>1. 1 .. Len(p) = 1 .. Len(q)
      BY <2>2
    <3>2. Len(p) = Len(q)
      BY <1>1, <3>1, SameInterval
    <3>3. \A i \in 1 .. Len(p) : a[i] = Folded(p[i]) /\ b[i] = Folded(q[i])
      BY <3>1
    <3> QED BY <2>2, <3>2, <3>3
  <2>3. ASSUME Len(p) = Len(q), \A i \in 1 .. Len(p) : Folded(p[i]) = Folded(q[i]) PROVE a = b
    BY <2>3
  <2> QED BY <2>1, <2>2, <2>3
<1> QED BY <1>2, <1>3

\* One file has one name without case.
LEMMA KeyFolds ==
  ASSUME NEW p, NEW q, Key(p) = Key(q)
  PROVE  FoldedPath(p) = FoldedPath(q)
  BY DEF Key, KeyIn

\* The place of a moved file is where it was to go, with the name it was to have.
LEMMA MovedKey ==
  ASSUME NEW files, \A f \in files : IsList(f.path), NEW to, IsList(to), to # <<>>,
         NEW new, new = Append(Resolve(files, Front(to)), Last(to))
  PROVE  IsList(new) /\ new # <<>> /\ Len(new) = Len(to) /\ Key(new) = Key(to) /\ Last(new) = Last(to)
<1> DEFINE dir == Front(to)
           res == Resolve(files, dir)
           There(i) == {f.path[i] : f \in {g \in files : /\ Len(g.path) > i
                                                         /\ Key(SubSeq(g.path, 1, i)) = Key(SubSeq(dir, 1, i))}}
<1>1. /\ IsList(dir) /\ Len(to) \in Nat \ {0} /\ Len(dir) = Len(to) - 1 /\ Len(dir) \in Nat
      /\ DOMAIN dir = 1 .. Len(dir) /\ \A i \in 1 .. Len(dir) : dir[i] = to[i]
  BY ListFront, ListParts
<1> HIDE DEF dir
<1>2. res = [i \in 1 .. Len(dir) |-> IF There(i) = {} THEN dir[i] ELSE CHOOSE n \in There(i) : TRUE]
  BY <1>1 DEF Resolve
<1>3. \A i \in 1 .. Len(dir) : NameKey(res[i]) = NameKey(dir[i])
  <2>1. SUFFICES ASSUME NEW i \in 1 .. Len(dir) PROVE NameKey(res[i]) = NameKey(dir[i])
    OBVIOUS
  <2>2. CASE There(i) = {}
    <3>1. res[i] = dir[i]
      <4> HIDE DEF There
      <4> QED BY <1>2, <2>2
    <3> QED BY <3>1
  <2>3. CASE There(i) # {}
    <3>1. res[i] \in There(i)
      <4> HIDE DEF There
      <4> QED BY <1>2, <2>3
    <3>2. PICK g \in files : Len(g.path) > i /\ Key(SubSeq(g.path, 1, i)) = Key(SubSeq(dir, 1, i)) /\ res[i] = g.path[i]
      BY <3>1
    <3>3. Len(g.path) \in Nat /\ IsList(g.path)
      BY ListParts
    <3>4. 1 \in Nat \ {0} /\ i \in Nat /\ i <= Len(g.path) /\ i <= Len(dir) /\ 1 <= i + 1 /\ i + 1 - 1 = i /\ i \in 1 .. i
          /\ 1 + i - 1 = i
      BY <1>1, <3>2, <3>3
    <3>5. /\ IsList(SubSeq(g.path, 1, i)) /\ Len(SubSeq(g.path, 1, i)) = i + 1 - 1
          /\ \A k \in 1 .. i + 1 - 1 : SubSeq(g.path, 1, i)[k] = g.path[1 + k - 1]
      BY <3>3, <3>4, ListSub
    <3>6. /\ IsList(SubSeq(dir, 1, i)) /\ Len(SubSeq(dir, 1, i)) = i + 1 - 1
          /\ \A k \in 1 .. i + 1 - 1 : SubSeq(dir, 1, i)[k] = dir[1 + k - 1]
      BY <1>1, <3>4, ListSub
    <3>7. SubSeq(g.path, 1, i)[i] = g.path[i] /\ SubSeq(dir, 1, i)[i] = dir[i]
      BY <3>4, <3>5, <3>6
    <3>8. NameKey(SubSeq(g.path, 1, i)[i]) = NameKey(SubSeq(dir, 1, i)[i])
      <4>1. \A k \in 1 .. Len(SubSeq(g.path, 1, i)) : NameKey(SubSeq(g.path, 1, i)[k]) = NameKey(SubSeq(dir, 1, i)[k])
        BY <3>2, <3>5, <3>6, KeyParts
      <4> QED BY <3>4, <3>5, <4>1
    <3> QED BY <3>2, <3>7, <3>8
  <2> QED BY <2>2, <2>3
<1> HIDE DEF There
<1>4. IsList(res) /\ Len(res) = Len(dir)
  <2>1. res = [i \in 1 .. Len(dir) |-> res[i]]
    BY <1>2
  <2> HIDE DEF res
  <2> QED BY <1>1, <2>1, ListOf
<1> HIDE DEF res
<1>5. /\ IsList(new) /\ Len(new) = Len(res) + 1 /\ new # <<>>
      /\ \A i \in 1 .. Len(res) : new[i] = res[i]
      /\ new[Len(res) + 1] = Last(to)
  <2>1. new = Append(res, Last(to))
    BY DEF res, dir
  <2> QED BY <1>4, <2>1, ListAppend
<1>6. Len(new) = Len(to) /\ Last(new) = Last(to)
  <2>1. Len(new) = Len(to) /\ Len(res) + 1 = Len(new)
    BY <1>1, <1>4, <1>5
  <2> QED BY <1>5, <2>1 DEF Last
<1>7. \A i \in 1 .. Len(new) : NameKey(new[i]) = NameKey(to[i])
  <2>1. SUFFICES ASSUME NEW i \in 1 .. Len(new) PROVE NameKey(new[i]) = NameKey(to[i])
    OBVIOUS
  <2>2. CASE i \in 1 .. Len(dir)
    BY <1>1, <1>3, <1>4, <1>5, <2>2
  <2>3. CASE i = Len(to)
    BY <1>6, <2>3 DEF Last
  <2>4. i \in 1 .. Len(dir) \/ i = Len(to)
    BY <1>1, <1>6
  <2> QED BY <2>2, <2>3, <2>4
<1> QED BY <1>5, <1>6, <1>7, KeyParts

-----------------------------------------------------------------------------
(* The moves of a run. *)

\* Files on a disk: no two have one id, or one path.
IsTree(t) ==
  /\ IsFiniteSet(t)
  /\ \A f \in t : /\ f = [id |-> f.id, path |-> f.path, parts |-> f.parts]
                  /\ IsList(f.path) /\ f.path # <<>> /\ f.parts # Error
  /\ \A f, g \in t : f = g \/ (f.id # g.id /\ Key(f.path) # Key(g.path))

\* Steps that move files of the tree; two for one file move it to the same place.
StepsFit(S) ==
  /\ IsList(S)
  /\ \A j \in 1 .. Len(S) : /\ IsList(S[j].to) /\ S[j].to # <<>>
                            /\ \E f \in tree : Key(S[j].from) = Key(f.path)
  /\ \A i, j \in 1 .. Len(S) : Key(S[i].from) = Key(S[j].from) => S[i].to = S[j].to

\* What file f of the tree is after k steps.
Became(S, k, f, g) ==
  /\ g = [id |-> f.id, path |-> g.path, parts |-> f.parts] /\ IsList(g.path) /\ g.path # <<>>
  /\ (\A j \in 1 .. k : Key(S[j].from) # Key(f.path)) => g = f
  /\ \A j \in 1 .. k : Key(S[j].from) = Key(f.path) => Key(g.path) = Key(S[j].to) /\ Last(g.path) = Last(S[j].to)

\* The files after k steps: the same files, and still no two with one path.
Trace(S, k, files) ==
  /\ IsFiniteSet(files)
  /\ \A f \in tree : \E g \in files : Became(S, k, f, g)
  /\ \A g \in files : \E f \in tree : Became(S, k, f, g)
  /\ \A g, h \in files : Key(g.path) = Key(h.path) => g = h

\* Before the first step.
LEMMA TraceStart ==
  ASSUME IsTree(tree), NEW S
  PROVE  Trace(S, 0, tree)
<1>1. \A f \in tree : Became(S, 0, f, f)
  BY DEF IsTree, Became
<1> QED BY <1>1 DEF Trace, IsTree

\* A step that is done moves one file, and it was not moved before, or to the same place.
LEMMA TraceStep ==
  ASSUME IsTree(tree), NEW S, StepsFit(S), NEW k \in 1 .. Len(S), NEW files, Trace(S, k - 1, files),
         files # {}, CanMove(files, S[k])
  PROVE  Trace(S, k, DoMove(files, S[k]))
<1> DEFINE m == S[k]
           all == tree \cup files
<1>0. Len(S) \in Nat /\ k \in Nat /\ k - 1 \in Nat /\ (\A j \in 1 .. k - 1 : j \in 1 .. Len(S) /\ j \in 1 .. k)
      /\ (\A j \in 1 .. k : j \in 1 .. k - 1 \/ j = k) /\ k \in 1 .. k
  <2>1. Len(S) \in Nat
    BY ListParts DEF StepsFit
  <2> QED BY <2>1
<1>1. PICK h \in files : Key(h.path) = Key(m.from)
  BY DEF CanMove, FilesAt
<1>2. FilesAt(files, m.from) = {h}
  BY <1>1 DEF FilesAt, Trace
<1>3. \A g \in files : Key(g.path) = Key(m.to) => g = h
  BY <1>2 DEF CanMove, FilesAt
<1> DEFINE path == Append(Resolve(all, Front(m.to)), Last(m.to))
           new == [h EXCEPT !.path = path]
<1>4. DoMove(files, m) = (files \ {h}) \cup {new}
  BY <1>2 DEF DoMove
<1>5. IsList(path) /\ path # <<>> /\ Key(path) = Key(m.to) /\ Last(path) = Last(m.to)
  <2>1. \A f \in all : IsList(f.path)
    BY DEF IsTree, Trace, Became
  <2>2. IsList(m.to) /\ m.to # <<>>
    BY DEF StepsFit
  <2>3. path = Append(Resolve(all, Front(m.to)), Last(m.to))
    OBVIOUS
  <2>4. PICK to, ff, pp : to = m.to /\ ff = all /\ pp = path
    OBVIOUS
  <2>5. /\ \A f \in ff : IsList(f.path)
        /\ IsList(to) /\ to # <<>> /\ pp = Append(Resolve(ff, Front(to)), Last(to))
    BY <2>1, <2>2, <2>3, <2>4
  <2> HIDE DEF all, path
  <2>6. IsList(pp) /\ pp # <<>> /\ Key(pp) = Key(to) /\ Last(pp) = Last(to)
    BY <2>5, MovedKey, ZenonT(30)
  <2> QED BY <2>4, <2>6
<1> HIDE DEF path, all
<1>6. PICK f0 \in tree : Became(S, k - 1, f0, h)
  BY DEF Trace
<1>7. new = [id |-> f0.id, path |-> path, parts |-> f0.parts]
  BY <1>6 DEF Became
<1>8. Key(m.from) = Key(f0.path)
  <2>1. PICK f1 \in tree : Key(m.from) = Key(f1.path)
    BY DEF StepsFit
  <2>2. PICK g \in files : Became(S, k - 1, f1, g)
    BY DEF Trace
  <2>3. g = h
    <3>1. CASE \A j \in 1 .. k - 1 : Key(S[j].from) # Key(f1.path)
      BY <1>1, <2>1, <2>2, <3>1 DEF Became, Trace
    <3>2. CASE \E j \in 1 .. k - 1 : Key(S[j].from) = Key(f1.path)
      <4>1. PICK j \in 1 .. k - 1 : Key(S[j].from) = Key(f1.path)
        BY <3>2
      <4>2. Key(g.path) = Key(S[j].to)
        BY <2>2, <4>1 DEF Became
      <4>3. S[j].to = m.to
        BY <1>0, <2>1, <4>1 DEF StepsFit
      <4> QED BY <1>3, <4>2, <4>3
    <3> QED BY <3>1, <3>2
  <2>4. f1.id = f0.id
    <3>1. h.id = f0.id
      BY <1>6 DEF Became
    <3>2. g.id = f1.id
      BY <2>2 DEF Became
    <3> QED BY <2>3, <3>1, <3>2
  <2> QED BY <2>1, <2>4 DEF IsTree
<1>9. Became(S, k, f0, new)
  <2>1. new.path = path
    BY <1>7
  <2>2. ASSUME NEW j \in 1 .. k, Key(S[j].from) = Key(f0.path)
        PROVE  Key(path) = Key(S[j].to) /\ Last(path) = Last(S[j].to)
    <3>1. S[j].to = m.to
      BY <1>0, <1>8, <2>2 DEF StepsFit
    <3> QED BY <1>5, <3>1
  <2>3. ~ (\A j \in 1 .. k : Key(S[j].from) # Key(f0.path))
    BY <1>0, <1>8
  <2> HIDE DEF new
  <2> QED BY <1>5, <1>7, <2>1, <2>2, <2>3 DEF Became
<1>10. ASSUME NEW f \in tree, f # f0, NEW g, Became(S, k - 1, f, g) PROVE Became(S, k, f, g)
  <2>1. Key(m.from) # Key(f.path)
    BY <1>8, <1>10 DEF IsTree
  <2> QED BY <1>0, <1>10, <2>1 DEF Became
<1>11. \A f \in tree : \E g \in DoMove(files, m) : Became(S, k, f, g)
  <2>1. SUFFICES ASSUME NEW f \in tree PROVE \E g \in DoMove(files, m) : Became(S, k, f, g)
    OBVIOUS
  <2>2. CASE f = f0
    <3> HIDE DEF new
    <3> QED BY <1>4, <1>9, <2>2
  <2>3. CASE f # f0
    <3>1. PICK g \in files : Became(S, k - 1, f, g)
      BY DEF Trace
    <3>2. g # h
      <4>1. g.id = f.id
        BY <3>1 DEF Became
      <4>2. h.id = f0.id
        BY <1>6 DEF Became
      <4> QED BY <2>3, <4>1, <4>2 DEF IsTree
    <3> QED BY <1>4, <1>10, <2>3, <3>1, <3>2
  <2> QED BY <2>2, <2>3
<1>12. \A g \in DoMove(files, m) : \E f \in tree : Became(S, k, f, g)
  <2>1. SUFFICES ASSUME NEW g \in files, g # h PROVE \E f \in tree : Became(S, k, f, g)
    <3> HIDE DEF new
    <3> QED BY <1>4, <1>9
  <2>2. PICK f \in tree : Became(S, k - 1, f, g)
    BY DEF Trace
  <2>3. f # f0
    <3>1. SUFFICES ASSUME f = f0 PROVE FALSE
      OBVIOUS
    <3>2. Key(g.path) = Key(h.path)
      <4>1. CASE \A j \in 1 .. k - 1 : Key(S[j].from) # Key(f0.path)
        BY <1>6, <2>2, <3>1, <4>1 DEF Became
      <4>2. CASE \E j \in 1 .. k - 1 : Key(S[j].from) = Key(f0.path)
        BY <1>6, <2>2, <3>1, <4>2 DEF Became
      <4> QED BY <4>1, <4>2
    <3> QED BY <2>1, <3>2 DEF Trace
  <2> QED BY <1>10, <2>2, <2>3
<1>13. \A g, x \in DoMove(files, m) : Key(g.path) = Key(x.path) => g = x
  <2>1. new.path = path
    BY <1>7
  <2>2. \A g \in files \ {h} : Key(g.path) # Key(new.path)
    BY <1>3, <1>5, <2>1
  <2> HIDE DEF new
  <2> QED BY <1>4, <2>2 DEF Trace
<1>14. IsFiniteSet(DoMove(files, m))
  <2>1. IsFiniteSet(files \ {h})
    BY FS_RemoveElement DEF Trace
  <2> HIDE DEF new
  <2> QED BY <1>4, <2>1, FS_AddElement
<1> QED BY <1>11, <1>12, <1>13, <1>14 DEF Trace

\* The files after each of the moves.
IsMoves(F, S, n) ==
  DOMAIN F = 0 .. n /\ F[0] = tree /\ \A k \in 1 .. n : F[k] = MoveStep(F[k - 1], S[k])

\* As long as the moves are done.
THEOREM MovesTrace ==
  ASSUME IsTree(tree), NEW S, StepsFit(S), NEW F, IsMoves(F, S, Len(S))
  PROVE  \A k \in 0 .. Len(S) : F[k] # {} => Trace(S, k, F[k])
<1> DEFINE K == {k \in Nat : k <= Len(S) => (F[k] # {} => Trace(S, k, F[k]))}
<1>0. Len(S) \in Nat
  BY ListParts DEF StepsFit
<1>1. 0 \in K
  BY TraceStart DEF IsMoves
<1>2. ASSUME NEW k \in Nat, k \in K PROVE k + 1 \in K
  <2>1. SUFFICES ASSUME k + 1 <= Len(S), F[k + 1] # {} PROVE Trace(S, k + 1, F[k + 1])
    OBVIOUS
  <2>2. k + 1 \in 1 .. Len(S) /\ (k + 1) - 1 = k /\ k <= Len(S)
    BY <1>0, <2>1
  <2>3. F[k + 1] = MoveStep(F[k], S[k + 1])
    BY <2>2 DEF IsMoves
  <2>4. F[k] # {} /\ CanMove(F[k], S[k + 1]) /\ F[k + 1] = DoMove(F[k], S[k + 1])
    BY <2>1, <2>3 DEF MoveStep
  <2>5. Trace(S, k, F[k])
    BY <1>2, <2>2, <2>4
  <2>6. Trace(S, k + 1, DoMove(F[k], S[k + 1]))
    BY <2>2, <2>4, <2>5, TraceStep
  <2> QED BY <2>4, <2>6
<1>3. Nat \subseteq K
  <2> HIDE DEF K
  <2> QED BY <1>1, <1>2, NatInd
<1> QED BY <1>0, <1>3

-----------------------------------------------------------------------------
(* The files of a book in their order, and the steps of a plan. *)

\* listBookFiles has every file of the book once.
LEMMA FilesArranged ==
  ASSUME NEW r, IsList(r.files)
  PROVE  \E at : IsArrangement(at, r.files, Files(r))
<1> DEFINE s == r.files
           Before(f, g) == f.track < g.track \/ (f.track = g.track /\ PathBefore(f.rel, g.rel))
           at == InOrder(DOMAIN s, LAMBDA i, j : Before(s[i], s[j]))
<1>1. IsFiniteSet(DOMAIN s) /\ Cardinality(DOMAIN s) = Len(s) /\ DOMAIN s = 1 .. Len(s)
  <2>1. DOMAIN s = 1 .. Len(s) /\ Len(s) \in Nat
    BY ListParts
  <2> QED BY <2>1, FS_Interval
<1>2. at \in Bijection(1 .. Cardinality(DOMAIN s), DOMAIN s)
  <2>1. Bijection(1 .. Cardinality(DOMAIN s), DOMAIN s) # {}
    BY <1>1, Arrangement
  <2> HIDE DEF s, Before
  <2> QED BY <2>1 DEF InOrder
<1>3. Files(r) = [k \in DOMAIN s |-> s[at[k]]]
  BY DEF Files, Sort
<1> HIDE DEF at
<1> QED BY <1>1, <1>2, <1>3 DEF IsArrangement

\* The files that move, by book and by file.
MovePlaces(books) ==
  UNION {{p} \X {i \in DOMAIN books[p].moves : books[p].moves[i].from # books[p].moves[i].to} : p \in DOMAIN books}

\* S has these moves, each once, and src says whose they are.
IsSource(src, books, S) ==
  /\ IsList(S) /\ DOMAIN src = DOMAIN S /\ IsInjective(src) /\ Range(src) = MovePlaces(books)
  /\ \A k \in DOMAIN S : S[k] = books[src[k][1]].moves[src[k][2]]

\* Steps has the moves of all the books, but those that go nowhere.
LEMMA StepsSource ==
  ASSUME NEW books, IsList(books), \A p \in DOMAIN books : IsList(books[p].moves)
  PROVE  \E src : IsSource(src, books, Steps(books))
<1> DEFINE ss == [i \in DOMAIN books |-> books[i].moves]
           flat == FlattenSeq(ss)
           places == {i \in DOMAIN flat : flat[i].from # flat[i].to}
           n == Cardinality(places)
           S == [k \in 1 .. n |-> flat[Nth(places, k)]]
<1>1. DOMAIN books = 1 .. Len(books) /\ Len(books) \in Nat
  BY ListParts
<1>2. IsList(ss) /\ Len(ss) = Len(books) /\ DOMAIN ss = DOMAIN books /\ \A i \in DOMAIN ss : ss[i] = books[i].moves
  <2>1. ss = [i \in 1 .. Len(books) |-> ss[i]] /\ DOMAIN ss = DOMAIN books /\ \A i \in DOMAIN ss : ss[i] = books[i].moves
    BY <1>1
  <2> HIDE DEF ss
  <2> QED BY <1>1, <2>1, ListOf
<1>3. Steps(books) = S
  BY DEF Steps, Filter
<1> HIDE DEF ss
<1>4. PICK at : IsListing(at, flat, ss, Len(ss))
  BY <1>2, Flattened
<1> HIDE DEF flat
<1>5. /\ IsList(flat) /\ DOMAIN flat = 1 .. Len(flat) /\ Len(flat) \in Nat
      /\ DOMAIN at = DOMAIN flat /\ IsInjective(at) /\ Range(at) = Places(ss, Len(ss))
      /\ \A k \in DOMAIN flat : flat[k] = ss[at[k][1]][at[k][2]]
  BY <1>4, ListParts DEF IsListing
<1>6. \A k \in DOMAIN flat : \E p \in DOMAIN books : \E i \in DOMAIN books[p].moves : at[k] = <<p, i>>
  <2>1. \A k \in DOMAIN flat : at[k] \in Places(ss, Len(ss))
    BY <1>5 DEF Range
  <2> QED BY <1>1, <1>2, <2>1 DEF Places
<1>7. \A k \in DOMAIN flat : flat[k] = books[at[k][1]].moves[at[k][2]]
  BY <1>2, <1>5, <1>6
<1>8. \A p \in DOMAIN books : \A i \in DOMAIN books[p].moves : \E k \in DOMAIN flat : at[k] = <<p, i>>
  <2>1. SUFFICES ASSUME NEW p \in DOMAIN books, NEW i \in DOMAIN books[p].moves
                 PROVE  \E k \in DOMAIN flat : at[k] = <<p, i>>
    OBVIOUS
  <2>2. <<p, i>> \in Places(ss, Len(ss))
    BY <1>1, <1>2 DEF Places
  <2> QED BY <1>5, <2>2 DEF Range
<1>9. /\ n \in Nat
      /\ \A k \in 1 .. n : Nth(places, k) \in places /\ Count(places, Nth(places, k)) = k
      /\ \A i \in places : Count(places, i) \in 1 .. n /\ Nth(places, Count(places, i)) = i
  <2>1. places \in SUBSET (1 .. Len(flat)) /\ Len(flat) \in Nat
    BY <1>5
  <2> HIDE DEF places
  <2>2. n \in 0 .. Len(flat)
    BY <2>1, NthPlace
  <2> QED BY <2>1, <2>2, NthPlace
<1> DEFINE src == [k \in 1 .. n |-> at[Nth(places, k)]]
<1>10. \A i \in places : i \in DOMAIN flat /\ flat[i].from # flat[i].to
  OBVIOUS
<1>11. \A i \in DOMAIN flat : flat[i].from # flat[i].to => i \in places
  OBVIOUS
<1> HIDE DEF places, n
<1>12. IsList(S) /\ DOMAIN S = 1 .. n
  <2>1. S = [k \in 1 .. n |-> S[k]]
    OBVIOUS
  <2> HIDE DEF S
  <2> QED BY <1>9, <2>1, ListOf
<1>13. DOMAIN src = DOMAIN S /\ \A k \in DOMAIN S : src[k] = at[Nth(places, k)] /\ S[k] = flat[Nth(places, k)] /\ k \in 1 .. n
  BY <1>12
<1> HIDE DEF S, src
<1>14. IsInjective(src)
  <2>1. SUFFICES ASSUME NEW j \in DOMAIN S, NEW k \in DOMAIN S, src[j] = src[k] PROVE j = k
    BY <1>13 DEF IsInjective
  <2>2. Nth(places, j) = Nth(places, k)
    BY <1>5, <1>9, <1>10, <1>13, <2>1 DEF IsInjective
  <2> QED BY <1>9, <1>13, <2>2
<1>15. \A k \in DOMAIN S : S[k] = books[src[k][1]].moves[src[k][2]]
  BY <1>7, <1>9, <1>10, <1>13
<1>16. ASSUME NEW k \in DOMAIN S PROVE src[k] \in MovePlaces(books)
  <2>1. Nth(places, k) \in DOMAIN flat /\ flat[Nth(places, k)].from # flat[Nth(places, k)].to
    BY <1>9, <1>10, <1>13
  <2>2. PICK p \in DOMAIN books : \E i \in DOMAIN books[p].moves : src[k] = <<p, i>>
    BY <1>6, <1>13, <2>1
  <2>3. PICK i \in DOMAIN books[p].moves : src[k] = <<p, i>>
    BY <2>2
  <2>4. books[p].moves[i].from # books[p].moves[i].to
    BY <1>7, <1>13, <2>1, <2>3
  <2> QED BY <2>3, <2>4 DEF MovePlaces
<1>17. ASSUME NEW x \in MovePlaces(books) PROVE \E k \in DOMAIN S : src[k] = x
  <2>1. PICK p \in DOMAIN books : \E i \in DOMAIN books[p].moves :
            x = <<p, i>> /\ books[p].moves[i].from # books[p].moves[i].to
    BY <1>17 DEF MovePlaces
  <2>2. PICK i \in DOMAIN books[p].moves : x = <<p, i>> /\ books[p].moves[i].from # books[p].moves[i].to
    BY <2>1
  <2>3. PICK j \in DOMAIN flat : at[j] = <<p, i>>
    BY <1>8
  <2>4. j \in places
    BY <1>7, <1>11, <2>2, <2>3
  <2>5. Count(places, j) \in DOMAIN S /\ src[Count(places, j)] = at[j]
    BY <1>9, <1>12, <1>13, <2>4
  <2> QED BY <2>2, <2>3, <2>5
<1>18. Range(src) = MovePlaces(books)
  BY <1>13, <1>16, <1>17 DEF Range
<1>19. IsSource(src, books, S)
  BY <1>12, <1>13, <1>14, <1>15, <1>18 DEF IsSource
<1> QED BY <1>3, <1>19

\* Active has the books that are not skipped.
LEMMA ActiveIs ==
  ASSUME NEW books, IsList(books)
  PROVE  \E at : /\ IsList(Active(books)) /\ DOMAIN at = DOMAIN Active(books) /\ IsInjective(at)
                 /\ Range(at) = {p \in DOMAIN books : books[p].skip = ""}
                 /\ \A a \in DOMAIN at : Active(books)[a] = books[at[a]]
<1> DEFINE places == {i \in DOMAIN books : books[i].skip = ""}
           n == Cardinality(places)
           A == [k \in 1 .. n |-> books[Nth(places, k)]]
           at == [k \in 1 .. n |-> Nth(places, k)]
<1>1. Active(books) = A
  BY DEF Active, Filter
<1>2. DOMAIN books = 1 .. Len(books) /\ Len(books) \in Nat
  BY ListParts
<1>3. /\ n \in Nat
      /\ \A k \in 1 .. n : Nth(places, k) \in places /\ Count(places, Nth(places, k)) = k
      /\ \A i \in places : Count(places, i) \in 1 .. n /\ Nth(places, Count(places, i)) = i
  <2>1. places \in SUBSET (1 .. Len(books)) /\ Len(books) \in Nat
    BY <1>2
  <2> HIDE DEF places
  <2>2. n \in 0 .. Len(books)
    BY <2>1, NthPlace
  <2> QED BY <2>1, <2>2, NthPlace
<1> HIDE DEF places, n
<1>4. IsList(A) /\ DOMAIN A = 1 .. n
  <2>1. A = [k \in 1 .. n |-> A[k]]
    OBVIOUS
  <2> HIDE DEF A
  <2> QED BY <1>3, <2>1, ListOf
<1>5. DOMAIN at = 1 .. n /\ (\A k \in 1 .. n : at[k] = Nth(places, k)) /\ \A k \in 1 .. n : A[k] = books[at[k]]
  OBVIOUS
<1> HIDE DEF A, at
<1>6. IsInjective(at)
  BY <1>3, <1>5 DEF IsInjective
<1>7. Range(at) = places
  BY <1>3, <1>5 DEF Range
<1> QED BY <1>1, <1>4, <1>5, <1>6, <1>7 DEF places

\* As a set.
LEMMA ActiveSet ==
  ASSUME NEW books, IsList(books)
  PROVE  /\ IsList(Active(books))
         /\ \A b : b \in ToSet(Active(books)) <=> \E p \in DOMAIN books : b = books[p] /\ books[p].skip = ""
<1>1. PICK at : /\ IsList(Active(books)) /\ DOMAIN at = DOMAIN Active(books) /\ IsInjective(at)
                /\ Range(at) = {p \in DOMAIN books : books[p].skip = ""}
                /\ \A a \in DOMAIN at : Active(books)[a] = books[at[a]]
  BY ActiveIs
<1>2. \A a \in DOMAIN at : at[a] \in DOMAIN books /\ books[at[a]].skip = ""
  BY <1>1 DEF Range
<1>3. \A p \in DOMAIN books : books[p].skip = "" => \E a \in DOMAIN at : at[a] = p
  BY <1>1 DEF Range
<1>4. ASSUME NEW b \in ToSet(Active(books)) PROVE \E p \in DOMAIN books : b = books[p] /\ books[p].skip = ""
  <2>1. PICK a \in DOMAIN at : b = Active(books)[a]
    BY <1>1 DEF ToSet
  <2> QED BY <1>1, <1>2, <2>1
<1>5. ASSUME NEW p \in DOMAIN books, books[p].skip = "" PROVE books[p] \in ToSet(Active(books))
  <2>1. PICK a \in DOMAIN at : at[a] = p
    BY <1>3, <1>5
  <2>2. Active(books)[a] = books[p]
    BY <1>1, <2>1
  <2> QED BY <1>1, <2>2 DEF ToSet
<1> QED BY <1>1, <1>4, <1>5

-----------------------------------------------------------------------------
(* The invariant. *)

\* Files on a disk: no two have one id, or one path.
TreeIn(x, t) ==
  /\ IsFiniteSet(t)
  /\ \A f \in t : /\ f = [id |-> f.id, path |-> f.path, parts |-> f.parts]
                  /\ IsList(f.path) /\ f.path # <<>> /\ f.parts # Error
  /\ \A f, g \in t : f = g \/ (f.id # g.id /\ KeyIn(x, f.path) # KeyIn(x, g.path))

\* A book as it is stored.
IsRow(r) ==
  /\ r = [id |-> r.id, dir |-> r.dir, layout |-> r.layout, state |-> r.state, meta |-> r.meta, files |-> r.files]
  /\ IsList(r.dir) /\ IsList(r.files) /\ r.files # <<>>
  /\ \A i \in DOMAIN r.files : IsList(r.files[i].rel) /\ r.files[i].rel # <<>>
  /\ r.state \in {"unmatched", "matched", "organized"} /\ (r.state \in Accepted <=> r.meta # None)
  /\ r.layout = "single" <=> Len(r.files) = 1

\* Where the i-th file of a book is.
PathOf(r, i) == r.dir \o r.files[i].rel

\* Books with a folder and an id of their own; one that is new in this run is still in the
\* folder it has its id from.
RowsIn(n, rs) ==
  /\ \A r \in rs : /\ IsRow(r) /\ r.id = <<r.id[1], r.id[2]>>
                   /\ r.id[1] \in 0 .. n /\ (r.id[1] = n => r.id[2] = r.dir)
  /\ \A r, s \in rs : r.id = s.id \/ r.dir = s.dir => r = s

\* The file of a path that is the i-th of a book.
Filed(x, r, i, path) == KeyIn(x, PathOf(r, i)) = KeyIn(x, path) /\ Last(path) = Last(r.files[i].rel)

\* The files of the books are those of the disk, and each is one book's.
Fits(x, rs, t) ==
  /\ \A r \in rs : \A i \in DOMAIN r.files : \E f \in t : Filed(x, r, i, f.path)
  /\ \A r, s \in rs : \A i \in DOMAIN r.files, j \in DOMAIN s.files :
        KeyIn(x, PathOf(r, i)) = KeyIn(x, PathOf(s, j)) => r = s /\ i = j
  /\ rs # {} => \A f \in t : \E r \in rs : \E i \in DOMAIN r.files : Filed(x, r, i, f.path)

-----------------------------------------------------------------------------
(* A scan. *)

\* The files of the walk.
Walk == {[path |-> f.path, track |-> TagTrack(f)] : f \in tree}

\* The walk finds every file once.
LEMMA WalkIs ==
  ASSUME TreeIn(world.exact, tree)
  PROVE  /\ IsWalk(Walk) /\ (\A w \in Walk : \E f \in tree : f.path = w.path)
         /\ \A f \in tree : \E w \in Walk : w.path = f.path
<1>1. IsFiniteSet(Walk)
  <2> DEFINE h == [f \in tree |-> [path |-> f.path, track |-> TagTrack(f)]]
  <2>1. IsFiniteSet(Range(h))
    BY ImageFinite DEF TreeIn
  <2>2. Range(h) = Walk
    BY DEF Range, Walk
  <2> QED BY <2>1, <2>2
<1>2. \A w \in Walk : \E f \in tree : w = [path |-> f.path, track |-> TagTrack(f)]
  BY DEF Walk
<1>3. \A f \in tree : [path |-> f.path, track |-> TagTrack(f)] \in Walk
  BY DEF Walk
<1>4. \A v, w \in Walk : v.path = w.path => v = w
  <2>1. SUFFICES ASSUME NEW v \in Walk, NEW w \in Walk, v.path = w.path PROVE v = w
    OBVIOUS
  <2>2. PICK f \in tree : v = [path |-> f.path, track |-> TagTrack(f)]
    BY <1>2
  <2>3. PICK g \in tree : w = [path |-> g.path, track |-> TagTrack(g)]
    BY <1>2
  <2>4. f = g
    BY <2>1, <2>2, <2>3 DEF TreeIn
  <2> QED BY <2>2, <2>3, <2>4
<1>5. \A w \in Walk : IsList(w.path) /\ w.path # <<>>
  BY <1>2 DEF TreeIn
<1>6. IsWalk(Walk)
  BY <1>1, <1>4, <1>5 DEF IsWalk
<1>7. \A w \in Walk : \E f \in tree : f.path = w.path
  BY <1>2
<1>8. \A f \in tree : \E w \in Walk : w.path = f.path
  BY <1>3
<1> QED BY <1>6, <1>7, <1>8

\* What a scan makes of a unit.
LEMMA ScannedBook ==
  ASSUME TreeIn(world.exact, tree), runs \in Nat, RowsIn(runs, rows), NEW u \in ToSet(Group(Walk))
  PROVE  LET r == Upserted(u)
         IN /\ IsRow(r) /\ r.dir = u.dir /\ DOMAIN r.files = DOMAIN u.files
            /\ \A i \in DOMAIN u.files :
                 PathOf(r, i) = u.files[i].file.path /\ Last(r.files[i].rel) = Last(u.files[i].file.path)
            /\ \/ r.id = <<runs, u.dir>> /\ \A k \in rows : k.dir # u.dir
               \/ \E k \in rows : k.dir = u.dir /\ r.id = k.id
<1> DEFINE r == Upserted(u)
           known == {k \in rows : k.dir = u.dir}
           old == CHOOSE k \in known : TRUE
           kept == known # {} /\ old.state \in Accepted
<1>1. IsWalk(Walk)
  BY WalkIs
<1>2. u.dir \in Dirs(Walk) /\ IsUnit(u, Share(Walk, u.dir))
  BY <1>1, GroupUnits
<1>3. \A f \in Share(Walk, u.dir) :
         /\ IsList(f.path) /\ f.path # <<>> /\ IsList(u.dir)
         /\ Front(f.path) = u.dir \/ (Front(f.path) # <<>> /\ IsList(Front(f.path)) /\ Front(Front(f.path)) = u.dir)
  BY <1>1, <1>2, SharesCover DEF IsWalk
<1>4. IsList(u.dir)
  BY <1>2, <1>3 DEF IsUnit
<1>5. /\ IsList(FileRows(u)) /\ DOMAIN FileRows(u) = DOMAIN u.files /\ Len(FileRows(u)) = Len(u.files)
      /\ FileRows(u) # <<>>
      /\ \A i \in DOMAIN u.files :
           /\ IsList(FileRows(u)[i].rel) /\ FileRows(u)[i].rel # <<>>
           /\ u.dir \o FileRows(u)[i].rel = u.files[i].file.path
           /\ Last(FileRows(u)[i].rel) = Last(u.files[i].file.path)
  BY <1>2, <1>3, <1>4, FileRowsAre
<1>6. r = [id |-> IF known = {} THEN <<runs, u.dir>> ELSE old.id, dir |-> u.dir, layout |-> u.layout,
           state |-> IF kept THEN old.state ELSE "unmatched", meta |-> IF kept THEN old.meta ELSE None,
           files |-> FileRows(u)]
  BY DEF Upserted
<1>7. known # {} => old \in rows /\ old.dir = u.dir /\ IsRow(old)
  BY DEF RowsIn
<1>8. /\ r.id = (IF known = {} THEN <<runs, u.dir>> ELSE old.id) /\ r.dir = u.dir /\ r.layout = u.layout
      /\ r.state = (IF kept THEN old.state ELSE "unmatched") /\ r.meta = (IF kept THEN old.meta ELSE None)
      /\ r.files = FileRows(u)
      /\ r = [id |-> r.id, dir |-> r.dir, layout |-> r.layout, state |-> r.state, meta |-> r.meta, files |-> r.files]
  <2> HIDE DEF kept, known, old, r
  <2> QED BY <1>6
<1> HIDE DEF r
<1>9. r.state \in {"unmatched", "matched", "organized"} /\ (r.state \in Accepted <=> r.meta # None)
  <2>1. CASE kept
    <3>1. r.state = old.state /\ r.meta = old.meta /\ IsRow(old)
      BY <1>7, <1>8, <2>1
    <3> HIDE DEF kept, known, old
    <3> QED BY <3>1 DEF IsRow
  <2>2. CASE ~ kept
    <3> HIDE DEF kept, known, old
    <3> QED BY <1>8, <2>2 DEF Accepted
  <2> QED BY <2>1, <2>2
<1>10. r.layout = "single" <=> Len(r.files) = 1
  BY <1>2, <1>5, <1>8 DEF IsUnit
<1>11. \A i \in DOMAIN r.files : IsList(r.files[i].rel) /\ r.files[i].rel # <<>>
  BY <1>5, <1>8
<1>12. IsRow(r)
  BY <1>4, <1>5, <1>8, <1>9, <1>10, <1>11 DEF IsRow
<1>13. DOMAIN r.files = DOMAIN u.files /\ \A i \in DOMAIN u.files :
          PathOf(r, i) = u.files[i].file.path /\ Last(r.files[i].rel) = Last(u.files[i].file.path)
  BY <1>5, <1>8 DEF PathOf
<1>14. \/ r.id = <<runs, u.dir>> /\ \A k \in rows : k.dir # u.dir
       \/ \E k \in rows : k.dir = u.dir /\ r.id = k.id
  BY <1>7, <1>8
<1> QED BY <1>8, <1>12, <1>13, <1>14 DEF r

\* A scan makes rows that fit the disk.
LEMMA ScanFits ==
  ASSUME TreeIn(world.exact, tree), runs \in Nat, RowsIn(runs, rows)
  PROVE  RowsIn(runs, Scanned) /\ Fits(world.exact, Scanned, tree)
<1> DEFINE U == ToSet(Group(Walk))
           x == world.exact
<1>1. Scanned = {Upserted(u) : u \in U}
  BY DEF Scanned, Walk
<1>2. \A r \in Scanned : \E u \in U : r = Upserted(u)
  BY <1>1
<1>3. \A u \in U : Upserted(u) \in Scanned
  BY <1>1
<1>4. IsWalk(Walk)
  BY WalkIs
<1>5. \A u, v \in U : u.dir = v.dir => u = v
  BY <1>4, GroupUnits
<1>6. \A u \in U : u.dir \in Dirs(Walk) /\ IsUnit(u, Share(Walk, u.dir))
  BY <1>4, GroupUnits
<1>7. \A d \in Dirs(Walk) : \E u \in U : u.dir = d
  BY <1>4, GroupUnits
<1> HIDE DEF U
<1>8. \A u \in U : /\ IsRow(Upserted(u)) /\ Upserted(u).dir = u.dir /\ DOMAIN Upserted(u).files = DOMAIN u.files
                   /\ \A i \in DOMAIN u.files : /\ PathOf(Upserted(u), i) = u.files[i].file.path
                                                /\ Last(Upserted(u).files[i].rel) = Last(u.files[i].file.path)
                   /\ \/ Upserted(u).id = <<runs, u.dir>> /\ \A k \in rows : k.dir # u.dir
                      \/ \E k \in rows : k.dir = u.dir /\ Upserted(u).id = k.id
  BY ScannedBook DEF U
<1>9. \A r, s \in Scanned : r.dir = s.dir => r = s
  BY <1>2, <1>5, <1>8
<1>10. ASSUME NEW r \in Scanned
       PROVE  IsRow(r) /\ r.id = <<r.id[1], r.id[2]>> /\ r.id[1] \in 0 .. runs /\ (r.id[1] = runs => r.id[2] = r.dir)
  <2>1. PICK u \in U : r = Upserted(u)
    BY <1>2
  <2>2. IsRow(r) /\ r.dir = u.dir
    BY <1>8, <2>1
  <2>3. CASE r.id = <<runs, u.dir>>
    BY <2>2, <2>3
  <2>4. CASE \E k \in rows : k.dir = u.dir /\ r.id = k.id
    BY <2>2, <2>4 DEF RowsIn
  <2> QED BY <1>8, <2>1, <2>2, <2>3, <2>4
<1>11. ASSUME NEW r \in Scanned, NEW s \in Scanned, r.id = s.id PROVE r = s
  <2>1. PICK u \in U : r = Upserted(u)
    BY <1>2
  <2>2. PICK v \in U : s = Upserted(v)
    BY <1>2
  <2>3. SUFFICES u.dir = v.dir
    BY <1>5, <2>1, <2>2
  <2>4. CASE r.id = <<runs, u.dir>> /\ s.id = <<runs, v.dir>>
    <3>1. <<runs, u.dir>> = <<runs, v.dir>>
      BY <1>11, <2>4
    <3> QED BY <3>1
  <2>5. CASE r.id = <<runs, u.dir>> /\ (\A k \in rows : k.dir # u.dir) /\ \E k \in rows : k.dir = v.dir /\ s.id = k.id
    <3>1. PICK k \in rows : k.dir = v.dir /\ s.id = k.id
      BY <2>5
    <3>2. k.id = <<runs, u.dir>> /\ k.dir # u.dir
      BY <1>11, <2>5, <3>1
    <3>3. k.id[1] = runs /\ k.id[2] = u.dir
      BY <3>2
    <3> QED BY <3>2, <3>3 DEF RowsIn
  <2>6. CASE s.id = <<runs, v.dir>> /\ (\A k \in rows : k.dir # v.dir) /\ \E k \in rows : k.dir = u.dir /\ r.id = k.id
    <3>1. PICK k \in rows : k.dir = u.dir /\ r.id = k.id
      BY <2>6
    <3>2. k.id = <<runs, v.dir>> /\ k.dir # v.dir
      BY <1>11, <2>6, <3>1
    <3>3. k.id[1] = runs /\ k.id[2] = v.dir
      BY <3>2
    <3> QED BY <3>2, <3>3 DEF RowsIn
  <2>7. CASE (\E k \in rows : k.dir = u.dir /\ r.id = k.id) /\ \E k \in rows : k.dir = v.dir /\ s.id = k.id
    <3>1. PICK k \in rows : k.dir = u.dir /\ r.id = k.id
      BY <2>7
    <3>2. PICK l \in rows : l.dir = v.dir /\ s.id = l.id
      BY <2>7
    <3>3. k = l
      BY <1>11, <3>1, <3>2 DEF RowsIn
    <3> QED BY <3>1, <3>2, <3>3
  <2> QED BY <1>8, <2>1, <2>2, <2>4, <2>5, <2>6, <2>7
<1>12. RowsIn(runs, Scanned)
  BY <1>9, <1>10, <1>11 DEF RowsIn
<1>13. ASSUME NEW r \in Scanned, NEW i \in DOMAIN r.files
       PROVE  \E f \in tree : PathOf(r, i) = f.path /\ Last(f.path) = Last(r.files[i].rel)
  <2>1. PICK u \in U : r = Upserted(u)
    BY <1>2
  <2>2. i \in DOMAIN u.files /\ PathOf(r, i) = u.files[i].file.path /\ Last(r.files[i].rel) = Last(u.files[i].file.path)
    BY <1>8, <2>1
  <2>3. u.files[i].file \in Walk
    BY <1>4, <1>6, <2>2, SharesCover DEF IsUnit
  <2> QED BY <2>2, <2>3, WalkIs
<1>14. ASSUME NEW r \in Scanned, NEW s \in Scanned, NEW i \in DOMAIN r.files, NEW j \in DOMAIN s.files,
              PathOf(r, i) = PathOf(s, j)
       PROVE  r = s /\ i = j
  <2>1. PICK u \in U : r = Upserted(u)
    BY <1>2
  <2>2. PICK v \in U : s = Upserted(v)
    BY <1>2
  <2>3. i \in DOMAIN u.files /\ PathOf(r, i) = u.files[i].file.path
    BY <1>8, <2>1
  <2>4. j \in DOMAIN v.files /\ PathOf(s, j) = v.files[j].file.path
    BY <1>8, <2>2
  <2>5. u.files[i].file \in Share(Walk, u.dir) /\ u.dir \in Dirs(Walk) /\ u.files[i].file \in Walk
    BY <1>4, <1>6, <2>3, SharesCover DEF IsUnit
  <2>6. v.files[j].file \in Share(Walk, v.dir) /\ v.dir \in Dirs(Walk) /\ v.files[j].file \in Walk
    BY <1>4, <1>6, <2>4, SharesCover DEF IsUnit
  <2>7. u.files[i].file = v.files[j].file
    BY <1>4, <1>14, <2>3, <2>4, <2>5, <2>6 DEF IsWalk
  <2>8. u = v
    BY <1>4, <1>5, <2>5, <2>6, <2>7, SharesCover
  <2>9. i = j
    BY <1>6, <2>3, <2>4, <2>7, <2>8 DEF IsUnit
  <2> QED BY <2>1, <2>2, <2>8, <2>9
<1>15. \A r, s \in Scanned : \A i \in DOMAIN r.files, j \in DOMAIN s.files :
         KeyIn(x, PathOf(r, i)) = KeyIn(x, PathOf(s, j)) => r = s /\ i = j
  <2>1. SUFFICES ASSUME NEW r \in Scanned, NEW s \in Scanned, NEW i \in DOMAIN r.files, NEW j \in DOMAIN s.files,
                        KeyIn(x, PathOf(r, i)) = KeyIn(x, PathOf(s, j))
                 PROVE  r = s /\ i = j
    OBVIOUS
  <2>2. PICK f \in tree : PathOf(r, i) = f.path
    BY <1>13
  <2>3. PICK g \in tree : PathOf(s, j) = g.path
    BY <1>13
  <2>4. f = g
    BY <2>1, <2>2, <2>3 DEF TreeIn
  <2> QED BY <1>14, <2>2, <2>3, <2>4
<1>16. ASSUME NEW f \in tree PROVE \E r \in Scanned : \E i \in DOMAIN r.files : Filed(x, r, i, f.path)
  <2>1. PICK w \in Walk : w.path = f.path
    BY WalkIs
  <2>2. PICK d \in Dirs(Walk) : w \in Share(Walk, d)
    BY <1>4, SharesCover
  <2>3. PICK u \in U : u.dir = d
    BY <1>7
  <2>4. PICK i \in DOMAIN u.files : u.files[i].file = w
    BY <1>6, <2>2, <2>3 DEF IsUnit
  <2>5. Upserted(u) \in Scanned /\ i \in DOMAIN Upserted(u).files /\ Filed(x, Upserted(u), i, f.path)
    BY <1>3, <1>8, <2>1, <2>4 DEF Filed
  <2> QED BY <2>5
<1>17. \A r \in Scanned : \A i \in DOMAIN r.files : \E f \in tree : Filed(x, r, i, f.path)
  <2>1. SUFFICES ASSUME NEW r \in Scanned, NEW i \in DOMAIN r.files PROVE \E f \in tree : Filed(x, r, i, f.path)
    OBVIOUS
  <2>2. PICK f \in tree : PathOf(r, i) = f.path /\ Last(f.path) = Last(r.files[i].rel)
    BY <1>13
  <2> QED BY <2>2 DEF Filed
<1>18. Fits(x, Scanned, tree)
  BY <1>15, <1>16, <1>17 DEF Fits
<1> QED BY <1>12, <1>18

-----------------------------------------------------------------------------
(* The folds and the recursive functions of the model. *)

MoveRuns == INSTANCE FoldProofs WITH Op <- LAMBDA p, files, m : MoveStep(files, m)
Planning == INSTANCE FoldProofs WITH Op <- LAMBDA p, books, id : Append(books, Decide(books, PlanBook(Row(id))))

-----------------------------------------------------------------------------
(* Folds as runs. *)

\* Moved is what the last move leaves.
LEMMA MovesRun ==
  ASSUME NEW S, IsList(S), S = Steps(Active(plan))
  PROVE  \E F : IsMoves(F, S, Len(S)) /\ Moved = F[Len(S)]
<1>1. Len(S) \in Nat /\ DOMAIN S = 1 .. Len(S)
  BY ListParts
<1>2. PICK F : MoveRuns!IsRun(F, 0, tree, S, Len(S)) /\ MoveRuns!Fold(0, tree, S) = F[Len(S)]
  BY <1>1, MoveRuns!FoldSteps
<1>3. MoveRuns!Fold(0, tree, S) = FoldLeft(MoveStep, tree, S)
  BY DEF MoveRuns!Fold, MoveRuns!IsIter, MoveRuns!Pick, FoldLeft, MapThenFoldSet, Max
<1>4. Moved = FoldLeft(MoveStep, tree, S)
  BY DEF Moved
<1>5. IsMoves(F, S, Len(S))
  BY <1>2 DEF IsMoves, MoveRuns!IsRun
<1> QED
  BY <1>2, <1>3, <1>4, <1>5

\* The books planned after each of the selected.
IsPlanning(f, s, n) ==
  DOMAIN f = 0 .. n /\ f[0] = <<>> /\ \A k \in 1 .. n : f[k] = Append(f[k - 1], Decide(f[k - 1], PlanBook(Row(s[k]))))

\* BuildPlan plans the selected books one after the other.
LEMMA PlanningRun ==
  ASSUME NEW s, IsList(s)
  PROVE  \E f : IsPlanning(f, s, Len(s)) /\ BuildPlan(s) = f[Len(s)]
<1>1. Len(s) \in Nat /\ DOMAIN s = 1 .. Len(s)
  BY ListParts
<1>2. PICK f : Planning!IsRun(f, 0, <<>>, s, Len(s)) /\ Planning!Fold(0, <<>>, s) = f[Len(s)]
  BY <1>1, Planning!FoldSteps
<1>3. BuildPlan(s) = Planning!Fold(0, <<>>, s)
  BY DEF BuildPlan, Planning!Fold, Planning!IsIter, Planning!Pick, FoldLeft, MapThenFoldSet, Max
<1>4. IsPlanning(f, s, Len(s))
  BY <1>2 DEF IsPlanning, Planning!IsRun
<1> QED
  BY <1>2, <1>3, <1>4

\* A plan for one book.
LEMMA PlanForOne ==
  ASSUME NEW a
  PROVE  BuildPlan(<<a>>) = <<Decide(<<>>, PlanBook(Row(a)))>>
<1> DEFINE s == <<a>>
<1>1. IsList(s) /\ Len(s) = 1 /\ s[1] = a
  BY Short
<1> HIDE DEF s
<1>2. PICK f : IsPlanning(f, s, 1) /\ BuildPlan(s) = f[1]
  BY <1>1, PlanningRun
<1>3. f[0] = <<>> /\ f[1] = Append(f[0], Decide(f[0], PlanBook(Row(s[1]))))
  <2>1. 1 \in 1 .. 1 /\ 1 - 1 = 0 OBVIOUS
  <2> QED BY <1>2, <2>1 DEF IsPlanning
<1>4. BuildPlan(s) = <<Decide(<<>>, PlanBook(Row(a)))>>
  BY <1>1, <1>2, <1>3, Short
<1> QED BY <1>4 DEF s

\* The second book of two is decided with the first in view.
LEMMA PlanForTwo ==
  ASSUME NEW a, NEW b
  PROVE  \E first, second :
           /\ BuildPlan(<<a, b>>) = <<first, second>>
           /\ first = Decide(<<>>, PlanBook(Row(a)))
           /\ second = Decide(<<first>>, PlanBook(Row(b)))
<1> DEFINE s == <<a, b>>
<1>1. IsList(s) /\ Len(s) = 2 /\ s[1] = a /\ s[2] = b
  BY Short
<1> HIDE DEF s
<1>2. PICK f : IsPlanning(f, s, 2) /\ BuildPlan(s) = f[2]
  BY <1>1, PlanningRun
<1>3. /\ f[0] = <<>> /\ f[1] = Append(f[0], Decide(f[0], PlanBook(Row(s[1]))))
      /\ f[2] = Append(f[1], Decide(f[1], PlanBook(Row(s[2]))))
  <2>1. 1 \in 1 .. 2 /\ 2 \in 1 .. 2 /\ 1 - 1 = 0 /\ 2 - 1 = 1 OBVIOUS
  <2> QED BY <1>2, <2>1 DEF IsPlanning
<1> DEFINE first == Decide(<<>>, PlanBook(Row(a)))
           second == Decide(<<first>>, PlanBook(Row(b)))
<1>4. f[1] = <<first>>
  BY <1>1, <1>3, Short
<1>5. f[2] = Append(<<first>>, second)
  BY <1>1, <1>3, <1>4
<1>6. f[2] = <<first, second>>
  <2> HIDE DEF first, second
  <2> QED BY <1>5, Short
<1>7. BuildPlan(s) = <<first, second>>
  BY <1>2, <1>6
<1> QED BY <1>7 DEF s

-----------------------------------------------------------------------------
(* Templates. *)

\* The token that a brace opens.
LEMMA TokenAt ==
  ASSUME NEW t, NEW n \in Nat, n = Len(t), NEW i \in 1 .. n, NEW tv,
         NEW a \in 1 .. n, a = i + 1, NEW b \in 1 .. n, b = i + 2, Braced(t, i, a, b)
  PROVE  Value(t, i, tv) = tv[t[a]]
<1>1. PICK I : I = {k \in i .. n : t[k] = "}"}
  OBVIOUS
<1>2. b \in i .. n
  OBVIOUS
<1>3. b \in I /\ i \notin I /\ a \notin I
  <2>1. t[a] # "}"
    BY TokensAssumption DEF Braced
  <2> QED BY <1>1, <1>2, <2>1 DEF Braced
<1>4. I \subseteq i .. n
  BY <1>1
<1>5. I \subseteq Nat
  BY <1>4
<1>6. Min(I) \in I /\ \A y \in I : Min(I) <= y
  BY <1>3, <1>5, Least
<1>7. PICK m \in i .. n : m = Min(I) /\ m \in I
  BY <1>4, <1>6
<1>8. m = b
  <2>1. m <= b /\ m # i /\ m # a
    BY <1>3, <1>6, <1>7
  <2> QED BY <2>1
<1>9. End(t, i) = IF (IF I # {} THEN Min(I) ELSE 0) = 0 THEN n ELSE (IF I # {} THEN Min(I) ELSE 0)
  BY <1>1 DEF End, SelectInSubSeq
<1>10. End(t, i) = b
  <2>1. I # {}
    BY <1>3
  <2>2. m # 0
    OBVIOUS
  <2> QED BY <1>7, <1>8, <1>9, <2>1, <2>2
<1>11. Known(t, i)
  BY <1>10 DEF Known, Braced
<1> QED BY <1>11 DEF Value

\* A template that is accepted leaves no brace in a text, if the values of its tokens have none.
LEMMA RenderText ==
  ASSUME NEW t, IsList(t), ValidateTemplate(t), NEW tv, \A x \in Tokens : IsText(tv[x])
  PROVE  IsText(Render(t, tv))
<1> DEFINE G == Parts(t, tv) \ {"{"}
<1>1. PICK n \in Nat : n = Len(t) /\ DOMAIN t = 1 .. n
  BY ListParts
<1>2. \A x \in Tokens : Over(G, tv[x])
  <2>1. SUFFICES ASSUME NEW x \in Tokens PROVE Over(G, tv[x])
    OBVIOUS
  <2>2. IsList(tv[x]) /\ "{" \notin Range(tv[x])
    BY DEF IsText
  <2>3. ASSUME NEW i \in DOMAIN tv[x] PROVE tv[x][i] \in G
    <3>1. tv[x][i] \in Range(tv[x])
      BY DEF Range
    <3>2. tv[x][i] \in Parts(t, tv)
      BY <3>1 DEF Parts
    <3>3. tv[x][i] # "{"
      BY <2>2, <3>1
    <3> QED BY <3>2, <3>3
  <2> HIDE DEF G
  <2> QED BY <2>2, <2>3 DEF Over
<1>3. \A i \in 1 .. n : t[i] # "{" => t[i] \in G
  BY <1>1 DEF Parts, Range
<1> HIDE DEF G
<1> DEFINE Opens(s, m, i) == \E a, b \in 1 .. m : a = i + 1 /\ b = i + 2 /\ Braced(s, i, a, b)
<1>4. \A i \in 1 .. n : t[i] = "{" => Opens(t, n, i)
  <2>1. ASSUME NEW i \in 1 .. n, i + 2 <= n PROVE i + 1 \in 1 .. n /\ i + 2 \in 1 .. n
    BY <2>1
  <2>2. ASSUME NEW i \in 1 .. n, t[i] = "{" PROVE i + 2 <= n /\ Braced(t, i, i + 1, i + 2)
    BY <1>1, <2>2 DEF ValidateTemplate, Braced
  <2> QED BY <2>1, <2>2
<1>5. ASSUME NEW s, NEW m \in Nat, m = Len(s), NEW i \in 1 .. m,
             s[i] = "{" => Opens(s, m, i), s[i] # "{" => s[i] \in G
      PROVE  Over(G, SubstitutePiece(s, tv, i))
  <2>1. CASE s[i] = "{"
    <3>1. PICK a \in 1 .. m, b \in 1 .. m : a = i + 1 /\ b = i + 2 /\ Braced(s, i, a, b)
      BY <1>5, <2>1
    <3>2. Value(s, i, tv) = tv[s[a]]
      <4>1. m = Len(s)
        BY <1>5
      <4> HIDE DEF Opens
      <4> QED BY <3>1, <4>1, TokenAt
    <3>3. s[a] \in Tokens
      BY <3>1 DEF Braced
    <3> QED BY <1>2, <2>1, <3>2, <3>3 DEF SubstitutePiece
  <2>2. CASE s[i] # "{"
    BY <1>5, <2>2, OverShort DEF SubstitutePiece
  <2> QED BY <2>1, <2>2
<1>6. ASSUME NEW i \in 1 .. n PROVE Over(G, RenderPiece(t, tv, i))
  <2>1. CASE IsGroup(t, i)
    <3>1. PICK c \in i + 1 .. n : /\ c = FindClose(t, i) /\ Depth(t, c) < Depth(t, i)
                                 /\ ~(Depth(t, c - 1) < Depth(t, i))
      <4>1. /\ FindClose(t, i) \in i + 1 .. n /\ Depth(t, FindClose(t, i)) < Depth(t, i)
            /\ \A k \in i .. FindClose(t, i) - 1 : ~(Depth(t, k) < Depth(t, i))
        BY <1>1, <2>1, CloseIn DEF IsGroup
      <4>2. PICK c \in i + 1 .. n : c = FindClose(t, i)
        BY <4>1
      <4>3. c - 1 \in i .. c - 1
        OBVIOUS
      <4> QED BY <4>1, <4>2, <4>3
    <3>2. t[c] = "]"
      <4>1. Depth(t, c) \in Int /\ Depth(t, c - 1) \in Int /\ Depth(t, i) \in Int
        <5>1. c \in Nat /\ c - 1 \in Nat /\ i \in Nat
          OBVIOUS
        <5> QED BY <5>1, DepthInt
      <4>2. c \in 1 .. n /\ Depth(t, c) < Depth(t, c - 1)
        BY <3>1, <4>1
      <4> QED BY <4>2, DepthStep
    <3>3. PICK inner : inner = SubSeq(t, i + 1, c - 1)
      OBVIOUS
    <3>4. PICK m \in Nat : m = c - 1 - i
      OBVIOUS
    <3>5. IsList(inner) /\ m = Len(inner) /\ \A j \in 1 .. m : inner[j] = t[i + j]
      <4>1. i + 1 \in Nat \ {0} /\ c - 1 \in Nat /\ c - 1 <= n /\ i + 1 <= (c - 1) + 1
        OBVIOUS
      <4>2. /\ IsList(inner) /\ Len(inner) = (c - 1) + 1 - (i + 1)
            /\ \A j \in 1 .. (c - 1) + 1 - (i + 1) : inner[j] = t[(i + 1) + j - 1]
        BY <1>1, <3>3, <4>1, ListSub
      <4>3. (c - 1) + 1 - (i + 1) = m /\ \A j \in 1 .. m : (i + 1) + j - 1 = i + j
        BY <3>4
      <4> QED BY <4>2, <4>3
    <3>6. ASSUME NEW j \in 1 .. m PROVE Over(G, SubstitutePiece(inner, tv, j))
      <4>1. PICK p \in 1 .. n : p = i + j /\ p < c
        BY <3>4
      <4>2. inner[j] = t[p]
        BY <3>5, <4>1
      <4>3. CASE t[p] # "{"
        <5> HIDE DEF Opens
        <5> QED BY <1>3, <1>5, <3>5, <4>2, <4>3
      <4>4. CASE t[p] = "{"
        <5>1. PICK a \in 1 .. n, b \in 1 .. n : a = p + 1 /\ b = p + 2 /\ Braced(t, p, a, b)
          BY <1>4, <4>4
        <5>2. c # a /\ c # b
          <6>1. t[a] # "]"
            BY <5>1, TokensAssumption DEF Braced
          <6> QED BY <3>2, <5>1, <6>1 DEF Braced
        <5>3. j + 1 \in 1 .. m /\ j + 2 \in 1 .. m /\ i + (j + 1) = a /\ i + (j + 2) = b
          BY <3>4, <4>1, <5>1, <5>2, InsideAt
        <5>4. PICK x \in 1 .. m, y \in 1 .. m : x = j + 1 /\ y = j + 2 /\ i + x = a /\ i + y = b
          BY <5>3
        <5>5. inner[x] = t[a] /\ inner[y] = t[b]
          BY <3>5, <5>4
        <5>6. Opens(inner, m, j)
          BY <4>2, <5>1, <5>4, <5>5 DEF Braced
        <5> HIDE DEF Opens
        <5> QED BY <1>5, <3>5, <4>2, <4>4, <5>6
      <4> QED BY <4>3, <4>4
    <3>7. Over(G, Substitute(inner, tv))
      BY <3>5, <3>6, SubstituteOver
    <3>8. Over(G, RenderGroup(inner, tv))
      BY <3>7, OverShort DEF RenderGroup
    <3> QED BY <2>1, <3>1, <3>3, <3>8 DEF RenderPiece
  <2>2. CASE ~IsGroup(t, i)
    <3>1. Over(G, SubstitutePiece(t, tv, i))
      <4> HIDE DEF Opens
      <4> QED BY <1>1, <1>3, <1>4, <1>5
    <3> QED BY <2>2, <3>1 DEF RenderPiece
  <2> QED BY <2>1, <2>2
<1>7. Over(G, Render(t, tv))
  BY <1>1, <1>6, RenderOver
<1>8. "{" \notin G
  BY DEF G
<1> QED BY <1>7, <1>8 DEF Over, IsText, Range

-----------------------------------------------------------------------------
(* A plan. *)

BlockedIn(x, t, m) == m.from # m.to /\ (\E f \in t : KeyIn(x, f.path) = KeyIn(x, m.to)) /\ ~EqualFold(m.from, m.to)

\* The plan of a book that can be organized: each of its files goes to a name of its own.
MovesFor(x, t, r, bp) ==
  /\ r.state \in Accepted /\ IsList(bp.dir) /\ DOMAIN bp.moves = DOMAIN r.files
  /\ \A i \in DOMAIN r.files : /\ bp.moves[i].from = r.dir \o Files(r)[i].rel
                               /\ bp.moves[i].to = Append(bp.dir, Last(bp.moves[i].to))
                               /\ ~BlockedIn(x, t, bp.moves[i])
  /\ \A i, j \in DOMAIN r.files : Folded(Last(bp.moves[i].to)) = Folded(Last(bp.moves[j].to)) => i = j

\* In a folder that is no other book's.
RunsFor(x, rs, t, r, bp) == MovesFor(x, t, r, bp) /\ \A s \in rs : s.dir = bp.dir => s = r
PlannedFor(x, rs, t, r, bp) ==
  /\ bp.id = r.id /\ IsList(bp.moves)
  /\ IF bp.skip = "" THEN RunsFor(x, rs, t, r, bp) ELSE bp.moves = <<>>

\* Two books of a plan do not go to one place.
Apart(a, b) ==
  /\ FoldedPath(a.dir) # FoldedPath(b.dir)
  /\ \A i \in DOMAIN a.moves, j \in DOMAIN b.moves :
       a.moves[i].from # a.moves[i].to /\ b.moves[j].from # b.moves[j].to =>
         FoldedPath(a.moves[i].to) # FoldedPath(b.moves[j].to)

\* What holds of a plan for as long as it is reviewed.
PlanIn(x, rs, t, ps) ==
  /\ IsList(ps)
  /\ \A p \in DOMAIN ps : \E r \in rs : PlannedFor(x, rs, t, r, ps[p])
  /\ \A p, q \in DOMAIN ps : ps[p].skip = "" /\ ps[q].skip = "" =>
        IF ps[p].id = ps[q].id THEN ps[p] = ps[q] ELSE Apart(ps[p], ps[q])

\* The folder a book is to have is a list of names.
LEMMA DirList ==
  ASSUME NEW m
  PROVE  IsList(BookDirSegments(m))
<1> DEFINE author == IF AuthorFolderName(m) = <<>> THEN <<>> ELSE <<SanitizeSegment(AuthorFolderName(m))>>
           series == IF m.series = <<>> THEN <<>> ELSE <<SanitizeSegment(m.series)>>
           title == <<SanitizeSegment(Render(BookDirTemplate, TokenValues(m, <<>>, 0)))>>
<1>1. IsList(author) /\ IsList(series) /\ IsList(title)
  BY Short
<1>2. BookDirSegments(m) = (IF lib.mode = "series_first" THEN series \o author ELSE author \o series) \o title
  BY DEF BookDirSegments
<1> HIDE DEF author, series, title
<1>3. IsList(series \o author) /\ IsList(author \o series)
  BY <1>1, ListConcat
<1>4. IsList((series \o author) \o title) /\ IsList((author \o series) \o title)
  BY <1>1, <1>3, ListConcat
<1> QED BY <1>2, <1>4

\* One move for each file.
MovesInto(r, dir, names, moves) ==
  /\ IsList(moves) /\ DOMAIN moves = DOMAIN r.files
  /\ \A i \in DOMAIN r.files : /\ moves[i].from = r.dir \o Files(r)[i].rel
                               /\ moves[i].to = Append(dir, Last(moves[i].to)) /\ Last(moves[i].to) = names[i]

\* The moves of a plan are the book's, one for each file.
LEMMA MovesAre ==
  ASSUME NEW r, IsRow(r), NEW dir, IsList(dir), NEW names, DOMAIN names = DOMAIN r.files,
         NEW moves, moves = Moves(r, Files(r), dir, names)
  PROVE  MovesInto(r, dir, names, moves)
<1>1. IsList(r.files)
  BY DEF IsRow
<1>2. DOMAIN Files(r) = DOMAIN r.files /\ DOMAIN r.files = 1 .. Len(r.files) /\ Len(r.files) \in Nat
  BY <1>1, FilesArranged, ArrangementParts
<1>3. moves = [i \in 1 .. Len(r.files) |-> moves[i]] /\ DOMAIN moves = DOMAIN r.files
      /\ \A i \in DOMAIN r.files : /\ moves[i].from = r.dir \o Files(r)[i].rel
                                   /\ moves[i].to = Append(dir, names[i])
  BY <1>2 DEF Moves
<1>4. IsList(moves)
  BY <1>2, <1>3, ListOf
<1>5. ASSUME NEW i \in DOMAIN r.files
      PROVE  /\ moves[i].from = r.dir \o Files(r)[i].rel
             /\ moves[i].to = Append(dir, Last(moves[i].to)) /\ Last(moves[i].to) = names[i]
  <2>1. moves[i].from = r.dir \o Files(r)[i].rel /\ moves[i].to = Append(dir, names[i])
    BY <1>3
  <2>2. Last(Append(dir, names[i])) = names[i]
    <3>1. PICK y : y = names[i]
      OBVIOUS
    <3>2. Len(Append(dir, y)) = Len(dir) + 1 /\ Append(dir, y)[Len(dir) + 1] = y
      BY ListAppend
    <3> QED BY <3>1, <3>2 DEF Last
  <2> QED BY <2>1, <2>2
<1> QED BY <1>3, <1>4, <1>5 DEF MovesInto

\* The files of the invariant are those of the moves.
LEMMA TreeIs ==
  ASSUME NEW t
  PROVE  TreeIn(world.exact, t) <=> IsTree(t)
  BY DEF TreeIn, IsTree, Key

\* What is planned of a book on its own.
PlannedBook(x, t, r, bp) ==
  /\ bp.id = r.id /\ IsList(bp.moves)
  /\ IF bp.skip = "" THEN MovesFor(x, t, r, bp) ELSE bp.moves = <<>>

\* The last step of it, for moves that are not in one another's way.
LEMMA PlanMovesIs ==
  ASSUME NEW r, IsRow(r), r.state \in Accepted, NEW dir, IsList(dir), NEW names, DOMAIN names = DOMAIN r.files,
         \A i, j \in DOMAIN names : Folded(names[i]) = Folded(names[j]) => i = j
  PROVE  PlannedBook(world.exact, tree, r, PlanMoves(r, dir, Moves(r, Files(r), dir, names)))
<1>1. PICK moves : moves = Moves(r, Files(r), dir, names)
  OBVIOUS
<1>2. /\ IsList(moves) /\ DOMAIN moves = DOMAIN r.files
      /\ \A i \in DOMAIN r.files : /\ moves[i].from = r.dir \o Files(r)[i].rel
                                   /\ moves[i].to = Append(dir, Last(moves[i].to)) /\ Last(moves[i].to) = names[i]
  <2>1. MovesInto(r, dir, names, moves)
    BY <1>1, MovesAre
  <2> QED BY <2>1 DEF MovesInto
<1> DEFINE bp == PlanMoves(r, dir, moves)
<1>3. CASE \E m \in ToSet(moves) : Blocked(m)
  <2>1. bp = Skipped(r, "blocked")
    BY <1>3 DEF PlanMoves
  <2>2. bp.id = r.id /\ bp.skip # "" /\ bp.moves = <<>>
    <3> HIDE DEF bp
    <3> QED BY <2>1 DEF Skipped
  <2>3. PlannedBook(world.exact, tree, r, bp)
    <3> HIDE DEF bp
    <3> QED BY <2>2, Short DEF PlannedBook
  <2> QED BY <1>1, <2>3
<1>4. CASE \A m \in ToSet(moves) : ~Blocked(m)
  <2>1. bp = [id |-> r.id, skip |-> "", dir |-> dir, moves |-> moves, tags |-> IF lib.writeTags THEN CheckBookTags(r) ELSE {}]
    BY <1>4 DEF PlanMoves
  <2>2. bp.id = r.id /\ bp.skip = "" /\ bp.dir = dir /\ bp.moves = moves
    <3> HIDE DEF bp
    <3> QED BY <2>1
  <2>3. \A i \in DOMAIN moves : ~BlockedIn(world.exact, tree, moves[i])
    <3>1. SUFFICES ASSUME NEW i \in DOMAIN moves PROVE ~BlockedIn(world.exact, tree, moves[i])
      OBVIOUS
    <3>2. ~Blocked(moves[i])
      BY <1>4 DEF ToSet
    <3>3. PICK m : m = moves[i]
      OBVIOUS
    <3>4. BlockedIn(world.exact, tree, m) => Blocked(m)
      BY DEF Blocked, BlockedIn, FilesAt, Key
    <3> QED BY <3>2, <3>3, <3>4
  <2> HIDE DEF bp
  <2>4. PlannedBook(world.exact, tree, r, bp)
    BY <1>2, <1>4, <2>2, <2>3 DEF PlannedBook, MovesFor
  <2> QED BY <1>1, <2>4 DEF bp
<1> QED BY <1>3, <1>4

\* planBook: one check after the other.
LEMMA PlanBookIs ==
  ASSUME NEW r, IsRow(r)
  PROVE  PlannedBook(world.exact, tree, r, PlanBook(r))
<1> DEFINE bp == PlanBook(r)
<1>1. ASSUME NEW why, why # "", bp = Skipped(r, why) PROVE PlannedBook(world.exact, tree, r, bp)
  <2>1. bp.id = r.id /\ bp.skip # "" /\ bp.moves = <<>>
    <3> HIDE DEF bp
    <3> QED BY <1>1 DEF Skipped
  <2> HIDE DEF bp
  <2> QED BY <2>1, Short DEF PlannedBook
<1> DEFINE files == Files(r)
           names == FileNames(r, files, EffectiveTracks(r))
           whole == BookDirSegments(r.meta)
           budget == Budget(names)
           dir == FitDirSegments(whole, budget)
<1>2. DOMAIN names = DOMAIN r.files
  <2>1. DOMAIN files = DOMAIN r.files
    BY FilesArranged, ArrangementParts DEF IsRow
  <2> QED BY <2>1 DEF FileNames
<1>3. IsList(dir)
  <2>1. IsList(whole)
    BY DirList
  <2> HIDE DEF whole, budget
  <2> QED BY <2>1, FittedList
<1>4. CASE ~Placeable(r)
  BY <1>1, <1>4 DEF PlanBook
<1>5. CASE Placeable(r)
  <2>1. bp = PlanDir(r, names, budget, dir)
    BY <1>5 DEF PlanBook, PlanNames
  <2>2. r.state \in Accepted
    BY <1>5 DEF Placeable
  <2> HIDE DEF bp, names, budget, dir, files, whole
  <2>3. CASE ChainLen(dir) > budget
    <3>1. bp = Skipped(r, "too long")
      BY <2>1, <2>3 DEF PlanDir
    <3>2. PlannedBook(world.exact, tree, r, bp)
      BY <1>1, <3>1
    <3> QED BY <3>2 DEF bp
  <2>4. CASE ~(ChainLen(dir) > budget) /\ ~IsInjective([i \in DOMAIN names |-> Folded(names[i])])
    <3>1. bp = Skipped(r, "same name")
      BY <2>1, <2>4 DEF PlanDir
    <3>2. PlannedBook(world.exact, tree, r, bp)
      BY <1>1, <3>1
    <3> QED BY <3>2 DEF bp
  <2>5. CASE ~(ChainLen(dir) > budget) /\ IsInjective([i \in DOMAIN names |-> Folded(names[i])])
    <3>1. bp = PlanMoves(r, dir, Moves(r, Files(r), dir, names))
      BY <2>1, <2>5 DEF PlanDir
    <3>2. \A i, j \in DOMAIN names : Folded(names[i]) = Folded(names[j]) => i = j
      BY <2>5 DEF IsInjective
    <3>3. PICK d, ns : d = dir /\ ns = names
      OBVIOUS
    <3>4. PlannedBook(world.exact, tree, r, PlanMoves(r, d, Moves(r, Files(r), d, ns)))
      BY <1>2, <1>3, <2>2, <3>2, <3>3, PlanMovesIs
    <3>5. PlannedBook(world.exact, tree, r, bp)
      BY <3>1, <3>3, <3>4
    <3> QED BY <3>5 DEF bp
  <2> QED BY <2>3, <2>4, <2>5
<1> QED BY <1>4, <1>5

\* Every move of a book claims its target.
LEMMA TargetsAre ==
  ASSUME NEW bp, IsList(bp.moves), NEW i \in DOMAIN bp.moves, bp.moves[i].from # bp.moves[i].to
  PROVE  FoldedPath(bp.moves[i].to) \in Targets(bp)
<1>1. PICK books : books = <<bp>>
  OBVIOUS
<1>2. IsList(books) /\ DOMAIN books = 1 .. 1 /\ books[1] = bp
  BY <1>1, Short
<1>3. PICK S : S = Steps(books)
  OBVIOUS
<1>4. PICK src : IsSource(src, books, S)
  BY <1>2, <1>3, StepsSource
<1>5. <<1, i>> \in MovePlaces(books)
  BY <1>2 DEF MovePlaces
<1>6. PICK k \in DOMAIN S : src[k] = <<1, i>>
  BY <1>4, <1>5 DEF IsSource, Range
<1>7. S[k] = bp.moves[i]
  BY <1>2, <1>4, <1>6 DEF IsSource
<1>8. bp.moves[i] \in ToSet(S)
  BY <1>4, <1>7 DEF ToSet, IsSource
<1>9. Targets(bp) = {FoldedPath(m.to) : m \in ToSet(S)}
  BY <1>1, <1>3 DEF Targets
<1> QED BY <1>8, <1>9

\* A book keeps clear of those planned before it.
Clear(a, b) == Targets(a) \cap Targets(b) = {} /\ FoldedPath(a.dir) # FoldedPath(b.dir)

\* So that their moves go to different places.
LEMMA ClearApart ==
  ASSUME NEW a, NEW b, IsList(a.moves), IsList(b.moves), Clear(a, b)
  PROVE  Apart(a, b) /\ Apart(b, a)
<1>1. ASSUME NEW i \in DOMAIN a.moves, NEW j \in DOMAIN b.moves,
             a.moves[i].from # a.moves[i].to, b.moves[j].from # b.moves[j].to
      PROVE  FoldedPath(a.moves[i].to) # FoldedPath(b.moves[j].to)
  <2>1. FoldedPath(a.moves[i].to) \in Targets(a)
    BY <1>1, TargetsAre
  <2>2. FoldedPath(b.moves[j].to) \in Targets(b)
    BY <1>1, TargetsAre
  <2> QED BY <2>1, <2>2 DEF Clear
<1> QED BY <1>1 DEF Apart, Clear

\* What the books so far make of a book.
LEMMA DecideIs ==
  ASSUME RowsIn(runs, rows), NEW r \in rows, NEW books, IsList(books)
  PROVE  LET bp == Decide(books, PlanBook(r))
         IN /\ PlannedFor(world.exact, rows, tree, r, bp)
            /\ bp.skip = "" => \A p \in DOMAIN books : books[p].skip = "" /\ books[p].id # r.id => Clear(books[p], bp)
<1>1. PICK pb : pb = PlanBook(r)
  OBVIOUS
<1>2. PlannedBook(world.exact, tree, r, pb)
  BY <1>1, PlanBookIs DEF RowsIn
<1>3. PICK held : held = {b \in ToSet(Active(books)) : b.id # pb.id}
  OBVIOUS
<1>4. \A p \in DOMAIN books : books[p].skip = "" /\ books[p].id # r.id => books[p] \in held
  BY <1>2, <1>3, ActiveSet DEF PlannedBook
<1>5. Decide(books, pb) =
        IF pb.skip # "" THEN pb
        ELSE IF \E b \in held : Targets(b) \cap Targets(pb) # {} \/ FoldedPath(b.dir) = FoldedPath(pb.dir)
             THEN Skipped(pb, "collides")
        ELSE IF \E s \in rows : s.dir = pb.dir /\ s.id # pb.id THEN Skipped(pb, "occupied") ELSE pb
  BY <1>3 DEF Decide
<1> DEFINE Good(bp) == /\ PlannedFor(world.exact, rows, tree, r, bp)
                       /\ bp.skip = "" => \A p \in DOMAIN books : books[p].skip = "" /\ books[p].id # r.id => Clear(books[p], bp)
<1>6. ASSUME NEW why, why # "", NEW bp, bp = Skipped(pb, why) PROVE Good(bp)
  <2>1. bp.id = r.id /\ bp.skip # "" /\ bp.moves = <<>>
    BY <1>2, <1>6 DEF Skipped, PlannedBook
  <2> QED BY <2>1, Short DEF PlannedFor
<1>7. CASE pb.skip # ""
  <2>1. Good(pb)
    BY <1>2, <1>7 DEF PlannedFor, PlannedBook
  <2> HIDE DEF Good
  <2>2. Good(Decide(books, pb))
    BY <1>5, <1>7, <2>1
  <2> QED BY <1>1, <2>2 DEF Good
<1>8. CASE pb.skip = "" /\ \E b \in held : Targets(b) \cap Targets(pb) # {} \/ FoldedPath(b.dir) = FoldedPath(pb.dir)
  <2>1. PICK bp : bp = Decide(books, pb)
    OBVIOUS
  <2>2. bp = Skipped(pb, "collides")
    BY <1>5, <1>8, <2>1
  <2> HIDE DEF Good
  <2>3. Good(bp)
    BY <1>6, <2>2
  <2> QED BY <1>1, <2>1, <2>3 DEF Good
<1>9. CASE /\ pb.skip = "" /\ \A b \in held : Targets(b) \cap Targets(pb) = {} /\ FoldedPath(b.dir) # FoldedPath(pb.dir)
           /\ \E s \in rows : s.dir = pb.dir /\ s.id # pb.id
  <2>1. PICK bp : bp = Decide(books, pb)
    OBVIOUS
  <2>2. bp = Skipped(pb, "occupied")
    BY <1>5, <1>9, <2>1
  <2> HIDE DEF Good
  <2>3. Good(bp)
    BY <1>6, <2>2
  <2> QED BY <1>1, <2>1, <2>3 DEF Good
<1>10. CASE /\ pb.skip = "" /\ \A b \in held : Targets(b) \cap Targets(pb) = {} /\ FoldedPath(b.dir) # FoldedPath(pb.dir)
            /\ \A s \in rows : s.dir = pb.dir => s.id = pb.id
  <2>1. Decide(books, pb) = pb
    BY <1>5, <1>10
  <2>2. \A s \in rows : s.dir = pb.dir => s = r
    BY <1>2, <1>10 DEF PlannedBook, RowsIn
  <2>3. PlannedFor(world.exact, rows, tree, r, pb)
    BY <1>2, <1>10, <2>2 DEF PlannedFor, PlannedBook, RunsFor
  <2>4. \A p \in DOMAIN books : books[p].skip = "" /\ books[p].id # r.id => Clear(books[p], pb)
    BY <1>4, <1>10 DEF Clear
  <2> QED BY <1>1, <2>1, <2>3, <2>4
<1> QED BY <1>7, <1>8, <1>9, <1>10

\* A book does not see itself.
LEMMA DecideAlone ==
  ASSUME NEW books, IsList(books), NEW pb, \A p \in DOMAIN books : books[p].id = pb.id
  PROVE  Decide(books, pb) = Decide(<<>>, pb)
<1>1. ASSUME NEW b \in ToSet(Active(books)) PROVE b.id = pb.id
  <2>1. PICK p \in DOMAIN books : b = books[p]
    BY ActiveSet
  <2> QED BY <2>1
<1>2. ToSet(Active(<<>>)) = {}
  <2>1. PICK e : e = <<>>
    OBVIOUS
  <2>2. IsList(e) /\ Len(e) = 0
    BY <2>1, Short
  <2>3. DOMAIN e = {}
    BY <2>2, ListParts
  <2>4. \A b : b \notin ToSet(Active(e))
    BY <2>2, <2>3, ActiveSet
  <2> QED BY <2>1, <2>4
<1>3. {b \in ToSet(Active(books)) : b.id # pb.id} = {} /\ {b \in ToSet(Active(<<>>)) : b.id # pb.id} = {}
  BY <1>1, <1>2
<1> QED BY <1>3 DEF Decide

\* The row of an id.
LEMMA RowIs ==
  ASSUME NEW n, RowsIn(n, rows), NEW r \in rows
  PROVE  Row(r.id) = r
  BY DEF Row, RowsIn

\* BuildPlan plans books that can be run together.
LEMMA PreviewPlan ==
  ASSUME RowsIn(runs, rows), NEW s \in Selections
  PROVE  PlanIn(world.exact, rows, tree, BuildPlan(s))
<1>1. CASE \E i \in Ids : s = <<i>>
  <2>1. PICK r \in rows : s = <<r.id>>
    BY <1>1 DEF Ids
  <2>2. PICK bp : bp = Decide(<<>>, PlanBook(r))
    OBVIOUS
  <2>3. PlannedFor(world.exact, rows, tree, r, bp)
    <3>1. PICK e : e = <<>>
      OBVIOUS
    <3>2. IsList(e)
      BY <3>1, Short
    <3>3. PlannedFor(world.exact, rows, tree, r, Decide(e, PlanBook(r)))
      BY <3>2, DecideIs
    <3> QED BY <2>2, <3>1, <3>3
  <2>4. BuildPlan(s) = <<bp>>
    <3>1. BuildPlan(<<r.id>>) = <<Decide(<<>>, PlanBook(Row(r.id)))>>
      BY PlanForOne
    <3> QED BY <2>1, <2>2, <3>1, RowIs
  <2>5. PICK ps : ps = <<bp>>
    OBVIOUS
  <2>6. IsList(ps) /\ (\A p \in DOMAIN ps : ps[p] = bp)
    <3>1. IsList(ps) /\ DOMAIN ps = 1 .. 1 /\ ps[1] = bp
      BY <2>5, Short
    <3> QED BY <3>1
  <2>7. PlanIn(world.exact, rows, tree, ps)
    BY <2>3, <2>6 DEF PlanIn
  <2> QED BY <2>4, <2>5, <2>7
<1>2. CASE \E i, j \in Ids : s = <<i, j>>
  <2>1. PICK r \in rows, q \in rows : s = <<r.id, q.id>>
    BY <1>2 DEF Ids
  <2>2. PICK first, second : /\ BuildPlan(<<r.id, q.id>>) = <<first, second>>
                             /\ first = Decide(<<>>, PlanBook(Row(r.id)))
                             /\ second = Decide(<<first>>, PlanBook(Row(q.id)))
    BY PlanForTwo
  <2>3. first = Decide(<<>>, PlanBook(r)) /\ second = Decide(<<first>>, PlanBook(q))
    BY <2>2, RowIs
  <2>4. PlannedFor(world.exact, rows, tree, r, first)
    <3>1. PICK e : e = <<>>
      OBVIOUS
    <3>2. IsList(e)
      BY <3>1, Short
    <3>3. PlannedFor(world.exact, rows, tree, r, Decide(e, PlanBook(r)))
      BY <3>2, DecideIs
    <3> QED BY <2>3, <3>1, <3>3
  <2>5. PICK one : one = <<first>>
    OBVIOUS
  <2>6. IsList(one) /\ DOMAIN one = 1 .. 1 /\ one[1] = first
    BY <2>5, Short
  <2>7. /\ PlannedFor(world.exact, rows, tree, q, second)
        /\ second.skip = "" => \A p \in DOMAIN one : one[p].skip = "" /\ one[p].id # q.id => Clear(one[p], second)
    BY <2>3, <2>5, <2>6, DecideIs
  <2>8. first.id = r.id /\ IsList(first.moves) /\ second.id = q.id /\ IsList(second.moves)
    BY <2>4, <2>7 DEF PlannedFor
  <2>9. r.id # q.id /\ first.skip = "" /\ second.skip = "" => Apart(first, second) /\ Apart(second, first)
    <3>1. SUFFICES ASSUME r.id # q.id, first.skip = "", second.skip = "" PROVE Apart(first, second) /\ Apart(second, first)
      OBVIOUS
    <3>2. 1 \in DOMAIN one
      BY <2>6
    <3>3. Clear(first, second)
      BY <2>6, <2>7, <2>8, <3>1, <3>2
    <3> QED BY <2>8, <3>3, ClearApart
  <2>10. r.id = q.id => first = second
    <3>1. SUFFICES ASSUME r.id = q.id PROVE first = second
      OBVIOUS
    <3>2. PICK pb : pb = PlanBook(r)
      OBVIOUS
    <3>3. r = q /\ pb.id = r.id
      BY <3>1, <3>2, PlanBookIs DEF RowsIn, PlannedBook
    <3>4. Decide(one, pb) = Decide(<<>>, pb)
      BY <2>6, <2>8, <3>3, DecideAlone
    <3> QED BY <2>3, <2>5, <3>2, <3>3, <3>4
  <2>11. PICK ps : ps = <<first, second>>
    OBVIOUS
  <2>12. IsList(ps) /\ DOMAIN ps = 1 .. 2 /\ ps[1] = first /\ ps[2] = second
    BY <2>11, Short
  <2>13. \A p \in DOMAIN ps : ps[p] = first \/ ps[p] = second
    BY <2>12
  <2>14. \A p \in DOMAIN ps : \E k \in rows : PlannedFor(world.exact, rows, tree, k, ps[p])
    BY <2>4, <2>7, <2>13
  <2>15. \A p, m \in DOMAIN ps : ps[p].skip = "" /\ ps[m].skip = "" =>
           IF ps[p].id = ps[m].id THEN ps[p] = ps[m] ELSE Apart(ps[p], ps[m])
    BY <2>8, <2>9, <2>10, <2>13
  <2>16. PlanIn(world.exact, rows, tree, ps)
    BY <2>12, <2>14, <2>15 DEF PlanIn
  <2> QED BY <2>1, <2>2, <2>11, <2>16
<1> QED BY <1>1, <1>2 DEF Selections

-----------------------------------------------------------------------------
(* The steps of a run. *)

\* Which file of the row is the i-th to be named.
Named(r) == CHOOSE at : IsArrangement(at, r.files, Files(r))

\* Each file is named once.
LEMMA NamedIs ==
  ASSUME NEW r, IsRow(r)
  PROVE  /\ \A i \in DOMAIN r.files : Named(r)[i] \in DOMAIN r.files /\ Files(r)[i] = r.files[Named(r)[i]]
         /\ \A i, j \in DOMAIN r.files : Named(r)[i] = Named(r)[j] => i = j
         /\ \A j \in DOMAIN r.files : \E i \in DOMAIN r.files : Named(r)[i] = j
<1>1. IsList(r.files)
  BY DEF IsRow
<1>2. IsArrangement(Named(r), r.files, Files(r))
  BY <1>1, FilesArranged DEF Named
<1>3. PICK at, s, t : at = Named(r) /\ s = r.files /\ t = Files(r)
  OBVIOUS
<1>4. IsList(s) /\ IsArrangement(at, s, t)
  BY <1>1, <1>2, <1>3
<1>5. /\ \A k \in DOMAIN s : at[k] \in DOMAIN s /\ t[k] = s[at[k]]
      /\ \A j, k \in DOMAIN s : at[j] = at[k] => j = k
      /\ \A i \in DOMAIN s : \E k \in DOMAIN s : at[k] = i
  BY <1>4, ArrangementParts
<1> QED BY <1>3, <1>5

\* The run will move book r as bp says.
Runs(r, bp) == bp.id = r.id /\ bp.skip = "" /\ IsList(bp.moves) /\ RunsFor(world.exact, rows, tree, r, bp)

\* The books that are moved, each one book of the library, and none in the way of another.
LEMMA ActivePlan ==
  ASSUME PlanIn(world.exact, rows, tree, plan)
  PROVE  /\ IsList(Active(plan))
         /\ \A b \in ToSet(Active(plan)) : \E r \in rows : Runs(r, b)
         /\ \A a, b \in ToSet(Active(plan)) : IF a.id = b.id THEN a = b ELSE Apart(a, b)
<1>1. IsList(plan)
  BY DEF PlanIn
<1>2. \A b : b \in ToSet(Active(plan)) <=> \E p \in DOMAIN plan : b = plan[p] /\ plan[p].skip = ""
  BY <1>1, ActiveSet
<1>3. ASSUME NEW b \in ToSet(Active(plan)) PROVE \E r \in rows : Runs(r, b)
  <2>1. PICK p \in DOMAIN plan : b = plan[p] /\ plan[p].skip = ""
    BY <1>2
  <2>2. PICK r \in rows : PlannedFor(world.exact, rows, tree, r, b)
    BY <2>1 DEF PlanIn
  <2> QED BY <2>1, <2>2 DEF PlannedFor, Runs
<1>4. ASSUME NEW a \in ToSet(Active(plan)), NEW b \in ToSet(Active(plan))
      PROVE  IF a.id = b.id THEN a = b ELSE Apart(a, b)
  <2>1. PICK p \in DOMAIN plan : a = plan[p] /\ plan[p].skip = ""
    BY <1>2
  <2>2. PICK q \in DOMAIN plan : b = plan[q] /\ plan[q].skip = ""
    BY <1>2
  <2> QED BY <2>1, <2>2 DEF PlanIn
<1> QED BY <1>1, <1>3, <1>4, ActiveSet

\* The moves of a book start where its files are.
LEMMA FromIs ==
  ASSUME NEW r, IsRow(r), NEW b, Runs(r, b), NEW i \in DOMAIN r.files
  PROVE  /\ Named(r)[i] \in DOMAIN r.files /\ b.moves[i].from = PathOf(r, Named(r)[i])
         /\ IsList(b.moves[i].from) /\ Last(b.moves[i].from) = Last(r.files[Named(r)[i]].rel)
         /\ i \in DOMAIN b.moves
         /\ IsList(b.moves[i].to) /\ b.moves[i].to # <<>>
<1>1. Named(r)[i] \in DOMAIN r.files /\ Files(r)[i] = r.files[Named(r)[i]]
  BY NamedIs
<1>2. b.moves[i].from = r.dir \o Files(r)[i].rel /\ b.moves[i].to = Append(b.dir, Last(b.moves[i].to)) /\ IsList(b.dir)
      /\ DOMAIN b.moves = DOMAIN r.files
  BY DEF Runs, RunsFor, MovesFor
<1>3. PICK d, rel : d = r.dir /\ rel = r.files[Named(r)[i]].rel
  OBVIOUS
<1>4. IsList(d) /\ IsList(rel) /\ rel # <<>>
  BY <1>1, <1>3 DEF IsRow
<1>5. IsList(d \o rel) /\ Last(d \o rel) = Last(rel)
  BY <1>4, LastBelow
<1>6. IsList(b.moves[i].to) /\ b.moves[i].to # <<>>
  <2>1. PICK n : n = Last(b.moves[i].to)
    OBVIOUS
  <2>2. IsList(Append(b.dir, n)) /\ Append(b.dir, n) # <<>>
    BY <1>2, ListAppend
  <2> QED BY <1>2, <2>1, <2>2
<1> QED BY <1>1, <1>2, <1>3, <1>5, <1>6 DEF PathOf

\* Two moves of one file are the same.
LEMMA OneSource ==
  ASSUME PlanIn(world.exact, rows, tree, plan), RowsIn(runs, rows), Fits(world.exact, rows, tree),
         NEW r \in rows, NEW b \in ToSet(Active(plan)), Runs(r, b), NEW i \in DOMAIN r.files,
         NEW s \in rows, NEW c \in ToSet(Active(plan)), Runs(s, c), NEW j \in DOMAIN s.files,
         Key(b.moves[i].from) = Key(c.moves[j].from)
  PROVE  r = s /\ b = c /\ i = j
<1>1. IsRow(r) /\ IsRow(s)
  BY DEF RowsIn
<1>2. Named(r)[i] \in DOMAIN r.files /\ b.moves[i].from = PathOf(r, Named(r)[i])
  BY <1>1, FromIs
<1>3. Named(s)[j] \in DOMAIN s.files /\ c.moves[j].from = PathOf(s, Named(s)[j])
  BY <1>1, FromIs
<1>4. KeyIn(world.exact, PathOf(r, Named(r)[i])) = KeyIn(world.exact, PathOf(s, Named(s)[j]))
  BY <1>2, <1>3 DEF Key
<1>5. r = s /\ Named(r)[i] = Named(s)[j]
  BY <1>2, <1>3, <1>4 DEF Fits
<1>6. i = j
  BY <1>1, <1>5, NamedIs
<1>7. b.id = c.id
  BY <1>5 DEF Runs
<1> QED BY <1>5, <1>6, <1>7, ActivePlan

\* The steps are the moves of the books that go somewhere.
LEMMA PlanSteps ==
  ASSUME PlanIn(world.exact, rows, tree, plan), NEW S, S = Steps(Active(plan))
  PROVE  /\ IsList(S)
         /\ \A k \in DOMAIN S : \E b \in ToSet(Active(plan)) : \E i \in DOMAIN b.moves : S[k] = b.moves[i] /\ b.moves[i].from # b.moves[i].to
         /\ \A b \in ToSet(Active(plan)) : \A i \in DOMAIN b.moves :
              b.moves[i].from # b.moves[i].to => \E k \in DOMAIN S : S[k] = b.moves[i]
<1>1. PICK A : A = Active(plan)
  OBVIOUS
<1>2. IsList(A) /\ \A b \in ToSet(A) : IsList(b.moves)
  BY <1>1, ActivePlan DEF Runs
<1>3. \A p \in DOMAIN A : A[p] \in ToSet(A)
  BY DEF ToSet
<1>4. PICK src : IsSource(src, A, S)
  BY <1>1, <1>2, <1>3, StepsSource
<1>5. ASSUME NEW k \in DOMAIN S
      PROVE  \E b \in ToSet(A) : \E i \in DOMAIN b.moves : S[k] = b.moves[i] /\ b.moves[i].from # b.moves[i].to
  <2>1. src[k] \in MovePlaces(A) /\ S[k] = A[src[k][1]].moves[src[k][2]]
    BY <1>4 DEF IsSource, Range
  <2>2. PICK p \in DOMAIN A : \E i \in DOMAIN A[p].moves : src[k] = <<p, i>> /\ A[p].moves[i].from # A[p].moves[i].to
    BY <2>1 DEF MovePlaces
  <2>3. PICK i \in DOMAIN A[p].moves : src[k] = <<p, i>> /\ A[p].moves[i].from # A[p].moves[i].to
    BY <2>2
  <2> QED BY <1>3, <2>1, <2>3
<1>6. ASSUME NEW b \in ToSet(A), NEW i \in DOMAIN b.moves, b.moves[i].from # b.moves[i].to
      PROVE  \E k \in DOMAIN S : S[k] = b.moves[i]
  <2>1. PICK p \in DOMAIN A : b = A[p]
    BY <1>2 DEF ToSet
  <2>2. <<p, i>> \in MovePlaces(A)
    BY <1>6, <2>1 DEF MovePlaces
  <2>3. PICK k \in DOMAIN S : src[k] = <<p, i>>
    BY <1>4, <2>2 DEF IsSource, Range
  <2> QED BY <1>4, <2>1, <2>3 DEF IsSource
<1> QED BY <1>1, <1>4, <1>5, <1>6 DEF IsSource

\* What holds when a plan is run.
Ready ==
  /\ runs \in Nat /\ TreeIn(world.exact, tree) /\ RowsIn(runs, rows) /\ Fits(world.exact, rows, tree)
  /\ PlanIn(world.exact, rows, tree, plan)

\* A step of the run is the move of a file of a book.
IsStep(r, b, i, m) == Runs(r, b) /\ i \in DOMAIN r.files /\ m = b.moves[i] /\ m.from # m.to

\* Whose move a step is.
LEMMA StepIs ==
  ASSUME Ready, NEW S, S = Steps(Active(plan)), NEW k \in DOMAIN S
  PROVE  \E r \in rows : \E b \in ToSet(Active(plan)) : \E i \in DOMAIN r.files : IsStep(r, b, i, S[k])
<1>1. PICK b \in ToSet(Active(plan)) : \E i \in DOMAIN b.moves : S[k] = b.moves[i] /\ b.moves[i].from # b.moves[i].to
  BY PlanSteps DEF Ready
<1>2. PICK i \in DOMAIN b.moves : S[k] = b.moves[i] /\ b.moves[i].from # b.moves[i].to
  BY <1>1
<1>3. PICK r \in rows : Runs(r, b)
  BY ActivePlan DEF Ready
<1>4. i \in DOMAIN r.files
  BY <1>3 DEF Runs, RunsFor, MovesFor
<1> QED BY <1>2, <1>3, <1>4 DEF IsStep

\* The steps of a plan move files that are there, each to one place.
LEMMA PlanFits ==
  ASSUME Ready, NEW S, S = Steps(Active(plan))
  PROVE  StepsFit(S)
<1>1. IsList(S)
  BY PlanSteps DEF Ready
<1>2. DOMAIN S = 1 .. Len(S)
  BY <1>1, ListParts
<1>3. ASSUME NEW j \in 1 .. Len(S)
      PROVE  IsList(S[j].to) /\ S[j].to # <<>> /\ \E f \in tree : Key(S[j].from) = Key(f.path)
  <2>1. PICK r \in rows, b \in ToSet(Active(plan)) : \E i \in DOMAIN r.files : IsStep(r, b, i, S[j])
    BY <1>2, StepIs
  <2>2. PICK i \in DOMAIN r.files : IsStep(r, b, i, S[j])
    BY <2>1
  <2>3. IsRow(r)
    BY DEF Ready, RowsIn
  <2>4. /\ Named(r)[i] \in DOMAIN r.files /\ b.moves[i].from = PathOf(r, Named(r)[i])
        /\ IsList(b.moves[i].to) /\ b.moves[i].to # <<>>
    BY <2>2, <2>3, FromIs DEF IsStep
  <2>5. PICK f \in tree : Filed(world.exact, r, Named(r)[i], f.path)
    BY <2>4 DEF Ready, Fits
  <2>6. Key(b.moves[i].from) = Key(f.path)
    BY <2>4, <2>5 DEF Filed, Key
  <2> QED BY <2>2, <2>4, <2>6 DEF IsStep
<1>4. ASSUME NEW k \in 1 .. Len(S), NEW l \in 1 .. Len(S), Key(S[k].from) = Key(S[l].from) PROVE S[k].to = S[l].to
  <2>1. PICK r \in rows, b \in ToSet(Active(plan)) : \E i \in DOMAIN r.files : IsStep(r, b, i, S[k])
    BY <1>2, StepIs
  <2>2. PICK i \in DOMAIN r.files : IsStep(r, b, i, S[k])
    BY <2>1
  <2>3. PICK s \in rows, c \in ToSet(Active(plan)) : \E j \in DOMAIN s.files : IsStep(s, c, j, S[l])
    BY <1>2, StepIs
  <2>4. PICK j \in DOMAIN s.files : IsStep(s, c, j, S[l])
    BY <2>3
  <2>5. b = c /\ i = j
    BY <1>4, <2>2, <2>4, OneSource DEF Ready, IsStep
  <2> QED BY <2>2, <2>4, <2>5 DEF IsStep
<1> QED BY <1>1, <1>3, <1>4 DEF StepsFit

\* After the moves, if all were done, the same files are there.
LEMMA MovedTrace ==
  ASSUME Ready, MovesDone, NEW S, S = Steps(Active(plan))
  PROVE  Trace(S, Len(S), Moved)
<1>1. IsTree(tree)
  BY TreeIs DEF Ready
<1>2. StepsFit(S)
  BY PlanFits
<1>3. IsList(S)
  BY <1>2 DEF StepsFit
<1>4. PICK F : IsMoves(F, S, Len(S)) /\ Moved = F[Len(S)]
  BY <1>3, MovesRun
<1>5. \A k \in 0 .. Len(S) : F[k] # {} => Trace(S, k, F[k])
  BY <1>1, <1>2, <1>4, MovesTrace
<1>6. Len(S) \in 0 .. Len(S)
  BY <1>3, ListParts
<1> QED BY <1>4, <1>5, <1>6 DEF MovesDone

\* A file of a book of the plan is where the plan says.
LEMMA Follows ==
  ASSUME Ready, NEW S, S = Steps(Active(plan)), NEW r \in rows, NEW b \in ToSet(Active(plan)), Runs(r, b),
         NEW i \in DOMAIN r.files, NEW f \in tree, Filed(world.exact, r, Named(r)[i], f.path),
         NEW g, Became(S, Len(S), f, g)
  PROVE  Key(g.path) = Key(b.moves[i].to) /\ Last(g.path) = Last(b.moves[i].to)
<1>1. IsRow(r)
  BY DEF Ready, RowsIn
<1>2. /\ Named(r)[i] \in DOMAIN r.files /\ b.moves[i].from = PathOf(r, Named(r)[i]) /\ i \in DOMAIN b.moves
      /\ Last(b.moves[i].from) = Last(r.files[Named(r)[i]].rel)
  BY <1>1, FromIs
<1>3. Key(b.moves[i].from) = Key(f.path) /\ Last(f.path) = Last(b.moves[i].from)
  BY <1>2 DEF Filed, Key
<1>4. IsList(S) /\ DOMAIN S = 1 .. Len(S)
  BY PlanSteps, ListParts DEF Ready
<1>5. CASE b.moves[i].from # b.moves[i].to
  <2>1. PICK k \in DOMAIN S : S[k] = b.moves[i]
    BY <1>2, <1>5, PlanSteps DEF Ready
  <2> QED BY <1>3, <1>4, <2>1 DEF Became
<1>6. CASE b.moves[i].from = b.moves[i].to
  <2>1. ASSUME NEW k \in 1 .. Len(S), Key(S[k].from) = Key(f.path) PROVE FALSE
    <3>1. PICK s \in rows, c \in ToSet(Active(plan)) : \E j \in DOMAIN s.files : IsStep(s, c, j, S[k])
      BY <1>4, StepIs
    <3>2. PICK j \in DOMAIN s.files : IsStep(s, c, j, S[k])
      BY <3>1
    <3>3. b = c /\ i = j
      BY <1>3, <2>1, <3>2, OneSource DEF Ready, IsStep
    <3> QED BY <1>6, <3>2, <3>3 DEF IsStep
  <2>2. g = f
    BY <2>1 DEF Became
  <2> QED BY <1>3, <1>6, <2>2
<1> QED BY <1>5, <1>6

\* A file of another book is where it was.
LEMMA Stays ==
  ASSUME Ready, NEW S, S = Steps(Active(plan)), NEW r \in rows, \A b \in ToSet(Active(plan)) : b.id # r.id,
         NEW i \in DOMAIN r.files, NEW f \in tree, Filed(world.exact, r, i, f.path),
         NEW g, Became(S, Len(S), f, g)
  PROVE  g = f
<1>1. IsList(S) /\ DOMAIN S = 1 .. Len(S)
  BY PlanSteps, ListParts DEF Ready
<1>2. ASSUME NEW k \in 1 .. Len(S), Key(S[k].from) = Key(f.path) PROVE FALSE
  <2>1. PICK s \in rows, c \in ToSet(Active(plan)) : \E j \in DOMAIN s.files : IsStep(s, c, j, S[k])
    BY <1>1, StepIs
  <2>2. PICK j \in DOMAIN s.files : IsStep(s, c, j, S[k])
    BY <2>1
  <2>3. IsRow(s) /\ Runs(s, c)
    BY <2>2 DEF Ready, RowsIn, IsStep
  <2>4. Named(s)[j] \in DOMAIN s.files /\ S[k].from = PathOf(s, Named(s)[j])
    BY <2>2, <2>3, FromIs DEF IsStep
  <2>5. KeyIn(world.exact, PathOf(s, Named(s)[j])) = KeyIn(world.exact, PathOf(r, i))
    BY <1>2, <2>4 DEF Filed, Key
  <2>6. s = r
    BY <2>4, <2>5 DEF Ready, Fits
  <2> QED BY <2>3, <2>6 DEF Runs
<1> QED BY <1>2 DEF Became

\* What FinalizeOrganize records.
LEMMA FinalizedIs ==
  ASSUME RowsIn(runs, rows), NEW r \in rows, NEW b, Runs(r, b)
  PROVE  LET s == Finalized(b)
         IN /\ IsRow(s) /\ s.id = r.id /\ s.dir = b.dir /\ DOMAIN s.files = DOMAIN r.files
            /\ \A i \in DOMAIN r.files : PathOf(s, i) = b.moves[i].to /\ Last(s.files[i].rel) = Last(b.moves[i].to)
<1>1. IsRow(r) /\ Row(b.id) = r
  BY RowIs DEF RowsIn, Runs
<1>2. /\ IsList(b.moves) /\ IsList(b.dir) /\ DOMAIN b.moves = DOMAIN r.files /\ r.state \in Accepted
      /\ \A i \in DOMAIN r.files : b.moves[i].to = Append(b.dir, Last(b.moves[i].to))
  BY DEF Runs, RunsFor, MovesFor
<1>3. IsList(r.files) /\ r.files # <<>> /\ DOMAIN r.files = 1 .. Len(r.files) /\ Len(r.files) \in Nat
  BY <1>1, ListParts DEF IsRow
<1> DEFINE files == [i \in DOMAIN b.moves |-> [rel |-> <<Last(b.moves[i].to)>>, track |-> Files(r)[i].track]]
<1>4. Finalized(b) = [r EXCEPT !.dir = b.dir, !.state = "organized", !.files = files]
  BY <1>1 DEF Finalized
<1>5. files = [i \in 1 .. Len(r.files) |-> files[i]] /\ DOMAIN files = DOMAIN r.files
      /\ \A i \in DOMAIN r.files : files[i].rel = <<Last(b.moves[i].to)>>
  BY <1>2, <1>3
<1> HIDE DEF files
<1>6. IsList(files) /\ Len(files) = Len(r.files) /\ files # <<>>
  <2>1. IsList(files) /\ Len(files) = Len(r.files)
    BY <1>3, <1>5, ListOf
  <2> QED BY <1>3, <2>1, EmptyIs
<1>7. \A i \in DOMAIN r.files : /\ IsList(files[i].rel) /\ files[i].rel # <<>> /\ Last(files[i].rel) = Last(b.moves[i].to)
                                /\ b.dir \o files[i].rel = b.moves[i].to
  <2>1. SUFFICES ASSUME NEW i \in DOMAIN r.files
                 PROVE  /\ IsList(files[i].rel) /\ files[i].rel # <<>> /\ Last(files[i].rel) = Last(b.moves[i].to)
                        /\ b.dir \o files[i].rel = b.moves[i].to
    OBVIOUS
  <2>2. PICK n, one, d : n = Last(b.moves[i].to) /\ one = <<n>> /\ d = b.dir
    OBVIOUS
  <2>3. IsList(one) /\ Len(one) = 1 /\ one[1] = n /\ one # <<>>
    BY <2>2, Short, EmptyIs
  <2>4. Last(one) = n
    BY <2>3 DEF Last
  <2>5. d \o one = Append(d, n)
    BY <1>2, <2>2, AppendIs
  <2> QED BY <1>2, <1>5, <2>2, <2>3, <2>4, <2>5
<1> DEFINE s == Finalized(b)
<1>8. /\ s.id = r.id /\ s.dir = b.dir /\ s.layout = r.layout /\ s.state = "organized" /\ s.meta = r.meta /\ s.files = files
      /\ s = [id |-> s.id, dir |-> s.dir, layout |-> s.layout, state |-> s.state, meta |-> s.meta, files |-> s.files]
  <2>1. r = [id |-> r.id, dir |-> r.dir, layout |-> r.layout, state |-> r.state, meta |-> r.meta, files |-> r.files]
    BY <1>1 DEF IsRow
  <2> HIDE DEF s
  <2>2. s = [r EXCEPT !.dir = b.dir, !.state = "organized", !.files = files]
    BY <1>4 DEF s
  <2>3. s = [id |-> r.id, dir |-> b.dir, layout |-> r.layout, state |-> "organized", meta |-> r.meta, files |-> files]
    BY <2>1, <2>2
  <2> QED BY <2>3
<1> HIDE DEF s
<1>9. IsRow(s)
  <2>1. r.meta # None
    BY <1>1, <1>2 DEF IsRow
  <2>2. "organized" \in Accepted
    BY DEF Accepted
  <2>3. r.layout = "single" <=> Len(r.files) = 1
    BY <1>1 DEF IsRow
  <2> QED BY <1>2, <1>5, <1>6, <1>7, <1>8, <2>1, <2>2, <2>3 DEF IsRow
<1>10. \A i \in DOMAIN r.files : PathOf(s, i) = b.moves[i].to /\ Last(s.files[i].rel) = Last(b.moves[i].to)
  BY <1>7, <1>8 DEF PathOf
<1> QED BY <1>5, <1>8, <1>9, <1>10 DEF s

\* A book after a run that succeeds, and the books and files.
After(r) ==
  IF \E bp \in ToSet(Active(plan)) : bp.id = r.id
  THEN Finalized(CHOOSE bp \in ToSet(Active(plan)) : bp.id = r.id) ELSE r
RanRows == {After(r) : r \in rows}
RanTree == {[g EXCEPT !.parts = TagWrite(g).parts] : g \in Moved}

\* The i-th file of book s is the at[i]-th of book r.
Placed(S, r, s, at) ==
  /\ IsRow(s) /\ s.id = r.id /\ DOMAIN s.files = DOMAIN r.files
  /\ \A i \in DOMAIN r.files : at[i] \in DOMAIN r.files
  /\ \A i, j \in DOMAIN r.files : at[i] = at[j] => i = j
  /\ \A j \in DOMAIN r.files : \E i \in DOMAIN r.files : at[i] = j
  /\ \A i \in DOMAIN r.files, f \in tree :
       Filed(world.exact, r, at[i], f.path) =>
         \A g : Became(S, Len(S), f, g) => Filed(world.exact, s, i, g.path)

\* Each book has its files after the run.
LEMMA AfterIs ==
  ASSUME Ready, NEW S, S = Steps(Active(plan)), NEW r \in rows
  PROVE  /\ \E at : Placed(S, r, After(r), at)
         /\ \/ After(r) = r
            \/ \E b \in ToSet(Active(plan)) : Runs(r, b) /\ After(r).dir = b.dir
<1>1. IsRow(r) /\ RowsIn(runs, rows)
  BY DEF Ready, RowsIn
<1>2. CASE \E bp \in ToSet(Active(plan)) : bp.id = r.id
  <2>1. PICK b : b = CHOOSE bp \in ToSet(Active(plan)) : bp.id = r.id
    OBVIOUS
  <2>2. b \in ToSet(Active(plan)) /\ b.id = r.id /\ After(r) = Finalized(b)
    BY <1>2, <2>1 DEF After
  <2>3. PICK q \in rows : Runs(q, b)
    BY <2>2, ActivePlan DEF Ready
  <2>4. Runs(r, b)
    BY <1>1, <2>2, <2>3 DEF Runs, RowsIn
  <2>5. PICK s : s = Finalized(b)
    OBVIOUS
  <2>6. /\ IsRow(s) /\ s.id = r.id /\ s.dir = b.dir /\ DOMAIN s.files = DOMAIN r.files
        /\ \A i \in DOMAIN r.files : PathOf(s, i) = b.moves[i].to /\ Last(s.files[i].rel) = Last(b.moves[i].to)
    BY <1>1, <2>4, <2>5, FinalizedIs
  <2>7. ASSUME NEW i \in DOMAIN r.files, NEW f \in tree, Filed(world.exact, r, Named(r)[i], f.path),
               NEW g, Became(S, Len(S), f, g)
        PROVE  Filed(world.exact, s, i, g.path)
    <3>1. Key(g.path) = Key(b.moves[i].to) /\ Last(g.path) = Last(b.moves[i].to)
      BY <2>2, <2>4, <2>7, Follows
    <3> QED BY <2>6, <3>1 DEF Filed, Key
  <2>8. PICK at : at = Named(r)
    OBVIOUS
  <2>9. Placed(S, r, s, at)
    BY <1>1, <2>6, <2>7, <2>8, NamedIs DEF Placed
  <2> QED BY <2>2, <2>4, <2>5, <2>6, <2>9
<1>3. CASE \A bp \in ToSet(Active(plan)) : bp.id # r.id
  <2>1. After(r) = r
    BY <1>3 DEF After
  <2>2. PICK at : at = [i \in DOMAIN r.files |-> i]
    OBVIOUS
  <2>3. \A i \in DOMAIN r.files : at[i] = i
    BY <2>2
  <2>4. ASSUME NEW i \in DOMAIN r.files, NEW f \in tree, Filed(world.exact, r, at[i], f.path),
               NEW g, Became(S, Len(S), f, g)
        PROVE  Filed(world.exact, r, i, g.path)
    <3>1. Filed(world.exact, r, i, f.path)
      BY <2>3, <2>4
    <3>2. g = f
      BY <1>3, <2>4, <3>1, Stays
    <3> QED BY <3>1, <3>2
  <2>5. Placed(S, r, r, at)
    BY <1>1, <2>3, <2>4 DEF Placed
  <2> QED BY <2>1, <2>5
<1> QED BY <1>2, <1>3

\* A file of the tree is one file after the run.
LEMMA BecameOne ==
  ASSUME NEW S, Trace(S, Len(S), Moved), NEW f \in tree, NEW g \in Moved, NEW h \in Moved,
         Became(S, Len(S), f, g), Became(S, Len(S), f, h)
  PROVE  g = h
<1>1. CASE \A j \in 1 .. Len(S) : Key(S[j].from) # Key(f.path)
  BY <1>1 DEF Became
<1>2. CASE \E j \in 1 .. Len(S) : Key(S[j].from) = Key(f.path)
  <2>1. PICK j \in 1 .. Len(S) : Key(S[j].from) = Key(f.path)
    BY <1>2
  <2>2. Key(g.path) = Key(S[j].to) /\ Key(h.path) = Key(S[j].to)
    BY <2>1 DEF Became
  <2> QED BY <2>2 DEF Trace
<1> QED BY <1>1, <1>2

\* A tag write leaves a file.
LEMMA TaggedParts ==
  ASSUME NEW g, g.parts # Error
  PROVE  TagWrite(g).parts # Error
<1>1. CASE Due(g) = {}
  BY <1>1 DEF TagWrite
<1>2. CASE Due(g) # {}
  <2>1. PICK ts, w : ts = (CHOOSE d \in Due(g) : TRUE) /\ w = Write(Ext(g.path), g.parts, ts)
    OBVIOUS
  <2>2. TagWrite(g) = Tagged(g, ts, w)
    BY <1>2, <2>1 DEF TagWrite
  <2>3. Tagged(g, ts, w).parts = IF w = Error THEN g.parts ELSE w
    BY DEF Tagged
  <2> QED BY <2>2, <2>3
<1> QED BY <1>1, <1>2

\* The files after a run.
LEMMA RanTreeIs ==
  ASSUME Ready, MovesDone, NEW S, S = Steps(Active(plan))
  PROVE  /\ TreeIn(world.exact, RanTree)
         /\ \A g \in Moved : \E t \in RanTree : t.path = g.path
         /\ \A t \in RanTree : \E g \in Moved : t.path = g.path
<1>1. Trace(S, Len(S), Moved)
  BY MovedTrace
<1> DEFINE h == [g \in Moved |-> [g EXCEPT !.parts = TagWrite(g).parts]]
<1>2. RanTree = {h[g] : g \in Moved}
  BY DEF RanTree
<1>3. \A g \in Moved : h[g] = [id |-> g.id, path |-> g.path, parts |-> TagWrite(g).parts]
  <2>1. SUFFICES ASSUME NEW g \in Moved PROVE h[g] = [id |-> g.id, path |-> g.path, parts |-> TagWrite(g).parts]
    OBVIOUS
  <2>2. PICK f \in tree : Became(S, Len(S), f, g)
    BY <1>1 DEF Trace
  <2>3. g = [id |-> f.id, path |-> g.path, parts |-> f.parts]
    BY <2>2 DEF Became
  <2>4. PICK w : w = TagWrite(g).parts
    OBVIOUS
  <2>5. h[g] = [g EXCEPT !.parts = w]
    BY <2>4
  <2> HIDE DEF h
  <2>6. h[g] = [id |-> g.id, path |-> g.path, parts |-> w]
    BY <2>3, <2>5
  <2> QED BY <2>4, <2>6
<1>4. IsFiniteSet(RanTree)
  <2>1. IsFiniteSet(Moved) /\ DOMAIN h = Moved
    BY <1>1 DEF Trace
  <2>2. RanTree = Range(h)
    BY <1>2, <2>1 DEF Range
  <2> HIDE DEF h
  <2> QED BY <2>1, <2>2, ImageFinite
<1> HIDE DEF h
<1>5. \A g \in Moved : /\ h[g].id = g.id /\ h[g].path = g.path /\ h[g].parts = TagWrite(g).parts
                       /\ h[g] = [id |-> h[g].id, path |-> h[g].path, parts |-> h[g].parts]
  <2>1. SUFFICES ASSUME NEW g \in Moved
                 PROVE  /\ h[g].id = g.id /\ h[g].path = g.path /\ h[g].parts = TagWrite(g).parts
                        /\ h[g] = [id |-> h[g].id, path |-> h[g].path, parts |-> h[g].parts]
    OBVIOUS
  <2>2. PICK t, w : t = h[g] /\ w = TagWrite(g).parts
    OBVIOUS
  <2>3. t = [id |-> g.id, path |-> g.path, parts |-> w]
    BY <1>3, <2>2
  <2>4. t.id = g.id /\ t.path = g.path /\ t.parts = w /\ t = [id |-> t.id, path |-> t.path, parts |-> t.parts]
    BY <2>3
  <2> QED BY <2>2, <2>4
<1>6. ASSUME NEW t \in RanTree
      PROVE  /\ t = [id |-> t.id, path |-> t.path, parts |-> t.parts]
             /\ IsList(t.path) /\ t.path # <<>> /\ t.parts # Error
  <2>1. PICK g \in Moved : t = h[g]
    BY <1>2
  <2>2. PICK f \in tree : Became(S, Len(S), f, g)
    BY <1>1 DEF Trace
  <2>3. IsList(g.path) /\ g.path # <<>>
    BY <2>2 DEF Became
  <2>4. g.parts # Error
    <3>1. g.parts = f.parts
      BY <2>2 DEF Became
    <3> QED BY <3>1 DEF Ready, TreeIn
  <2> QED BY <1>5, <2>1, <2>3, <2>4, TaggedParts
<1>7. ASSUME NEW t \in RanTree, NEW u \in RanTree, t # u
      PROVE  t.id # u.id /\ KeyIn(world.exact, t.path) # KeyIn(world.exact, u.path)
  <2>1. PICK g \in Moved : t = h[g]
    BY <1>2
  <2>2. PICK k \in Moved : u = h[k]
    BY <1>2
  <2>3. g # k
    BY <1>7, <2>1, <2>2
  <2>4. KeyIn(world.exact, g.path) # KeyIn(world.exact, k.path)
    BY <1>1, <2>3 DEF Trace, Key
  <2>5. PICK f \in tree : Became(S, Len(S), f, g)
    BY <1>1 DEF Trace
  <2>6. PICK e \in tree : Became(S, Len(S), e, k)
    BY <1>1 DEF Trace
  <2>7. e # f
    BY <1>1, <2>3, <2>5, <2>6, BecameOne
  <2>8. g.id = f.id /\ k.id = e.id
    BY <2>5, <2>6 DEF Became
  <2>9. e.id # f.id
    BY <2>7 DEF Ready, TreeIn
  <2> QED BY <1>5, <2>1, <2>2, <2>4, <2>8, <2>9
<1>8. TreeIn(world.exact, RanTree)
  BY <1>4, <1>6, <1>7 DEF TreeIn
<1> QED BY <1>2, <1>5, <1>8

\* Files that are in one place after the run were one before it.
LEMMA OneOrigin ==
  ASSUME Ready, MovesDone, NEW S, S = Steps(Active(plan)),
         NEW r \in rows, NEW s, NEW at, Placed(S, r, s, at), NEW i \in DOMAIN s.files,
         NEW p \in rows, NEW q, NEW to, Placed(S, p, q, to), NEW j \in DOMAIN q.files,
         KeyIn(world.exact, PathOf(s, i)) = KeyIn(world.exact, PathOf(q, j))
  PROVE  r = p /\ at[i] = to[j]
<1>1. Trace(S, Len(S), Moved)
  BY MovedTrace
<1>2. i \in DOMAIN r.files /\ at[i] \in DOMAIN r.files /\ j \in DOMAIN p.files /\ to[j] \in DOMAIN p.files
  BY DEF Placed
<1>3. PICK f \in tree : Filed(world.exact, r, at[i], f.path)
  BY <1>2 DEF Ready, Fits
<1>4. PICK e \in tree : Filed(world.exact, p, to[j], e.path)
  BY <1>2 DEF Ready, Fits
<1>5. PICK g \in Moved : Became(S, Len(S), f, g)
  BY <1>1 DEF Trace
<1>6. PICK k \in Moved : Became(S, Len(S), e, k)
  BY <1>1 DEF Trace
<1>7. Filed(world.exact, s, i, g.path) /\ Filed(world.exact, q, j, k.path)
  BY <1>2, <1>3, <1>4, <1>5, <1>6 DEF Placed
<1>8. KeyIn(world.exact, g.path) = KeyIn(world.exact, k.path)
  BY <1>7 DEF Filed
<1>9. g = k
  BY <1>1, <1>8 DEF Trace, Key
<1>10. f.id = e.id
  <2>1. g.id = f.id
    BY <1>5 DEF Became
  <2>2. k.id = e.id
    BY <1>6 DEF Became
  <2> QED BY <1>9, <2>1, <2>2
<1>11. f = e
  BY <1>10 DEF Ready, TreeIn
<1>12. KeyIn(world.exact, PathOf(r, at[i])) = KeyIn(world.exact, PathOf(p, to[j]))
  BY <1>3, <1>4, <1>11 DEF Filed
<1> QED BY <1>2, <1>12 DEF Ready, Fits

\* The books after a run.
LEMMA RanRowsIn ==
  ASSUME Ready
  PROVE  RowsIn(runs + 1, RanRows)
<1>1. PICK S : S = Steps(Active(plan))
  OBVIOUS
<1>2. \A s \in RanRows : \E r \in rows : s = After(r)
  BY DEF RanRows
<1>3. \A r \in rows : IsRow(After(r)) /\ After(r).id = r.id
  BY <1>1, AfterIs DEF Placed
<1>4. ASSUME NEW s \in RanRows
      PROVE  /\ IsRow(s) /\ s.id = <<s.id[1], s.id[2]>>
             /\ s.id[1] \in 0 .. runs + 1 /\ (s.id[1] = runs + 1 => s.id[2] = s.dir)
  <2>1. PICK r \in rows : s = After(r)
    BY <1>2
  <2>2. r.id = <<r.id[1], r.id[2]>> /\ r.id[1] \in 0 .. runs /\ runs \in Nat
    BY DEF Ready, RowsIn
  <2>3. r.id[1] \in 0 .. runs + 1 /\ r.id[1] # runs + 1
    BY <2>2
  <2> QED BY <1>3, <2>1, <2>2, <2>3
<1>5. ASSUME NEW s \in RanRows, NEW q \in RanRows, s.id = q.id \/ s.dir = q.dir PROVE s = q
  <2>1. PICK r \in rows : s = After(r)
    BY <1>2
  <2>2. PICK p \in rows : q = After(p)
    BY <1>2
  <2>3. \A a, b \in rows : a.id = b.id \/ a.dir = b.dir => a = b
    BY DEF Ready, RowsIn
  <2>4. CASE s.id = q.id
    BY <1>3, <2>1, <2>2, <2>3, <2>4
  <2>5. CASE s.dir = q.dir
    <3>1. s = r \/ \E b \in ToSet(Active(plan)) : Runs(r, b) /\ s.dir = b.dir
      BY <1>1, <2>1, AfterIs
    <3>2. q = p \/ \E c \in ToSet(Active(plan)) : Runs(p, c) /\ q.dir = c.dir
      BY <1>1, <2>2, AfterIs
    <3>3. CASE s = r /\ q = p
      BY <2>1, <2>2, <2>3, <2>5, <3>3
    <3>4. CASE s = r /\ \E c \in ToSet(Active(plan)) : Runs(p, c) /\ q.dir = c.dir
      <4>1. r = p
        BY <2>5, <3>4 DEF Runs, RunsFor
      <4> QED BY <2>1, <2>2, <4>1
    <3>5. CASE q = p /\ \E b \in ToSet(Active(plan)) : Runs(r, b) /\ s.dir = b.dir
      <4>1. r = p
        BY <2>5, <3>5 DEF Runs, RunsFor
      <4> QED BY <2>1, <2>2, <4>1
    <3>6. CASE /\ \E b \in ToSet(Active(plan)) : Runs(r, b) /\ s.dir = b.dir
               /\ \E c \in ToSet(Active(plan)) : Runs(p, c) /\ q.dir = c.dir
      <4>1. PICK b \in ToSet(Active(plan)) : Runs(r, b) /\ s.dir = b.dir
        BY <3>6
      <4>2. PICK c \in ToSet(Active(plan)) : Runs(p, c) /\ q.dir = c.dir
        BY <3>6
      <4>3. b.id = c.id
        BY <2>5, <4>1, <4>2, ActivePlan DEF Ready, Apart
      <4>4. r = p
        BY <2>3, <4>1, <4>2, <4>3 DEF Runs
      <4> QED BY <2>1, <2>2, <4>4
    <3> QED BY <3>1, <3>2, <3>3, <3>4, <3>5, <3>6
  <2> QED BY <1>5, <2>4, <2>5
<1> QED BY <1>4, <1>5 DEF RowsIn

\* The books and the files after a run fit.
LEMMA RanFits ==
  ASSUME Ready, MovesDone
  PROVE  Fits(world.exact, RanRows, RanTree)
<1>1. PICK S : S = Steps(Active(plan))
  OBVIOUS
<1>2. \A s \in RanRows : \E r \in rows : s = After(r)
  BY DEF RanRows
<1>3. \A r \in rows : After(r) \in RanRows
  BY DEF RanRows
<1>4. \A r \in rows : \E at : Placed(S, r, After(r), at)
  BY <1>1, AfterIs
<1>5. Trace(S, Len(S), Moved)
  BY <1>1, MovedTrace
<1>6. /\ \A g \in Moved : \E t \in RanTree : t.path = g.path
      /\ \A t \in RanTree : \E g \in Moved : t.path = g.path
  BY <1>1, RanTreeIs
<1>7. ASSUME NEW s \in RanRows, NEW i \in DOMAIN s.files PROVE \E t \in RanTree : Filed(world.exact, s, i, t.path)
  <2>1. PICK r \in rows : s = After(r)
    BY <1>2
  <2>2. PICK at : Placed(S, r, s, at)
    BY <1>4, <2>1
  <2>3. i \in DOMAIN r.files /\ at[i] \in DOMAIN r.files
    BY <2>2 DEF Placed
  <2>4. PICK f \in tree : Filed(world.exact, r, at[i], f.path)
    BY <2>3 DEF Ready, Fits
  <2>5. PICK g \in Moved : Became(S, Len(S), f, g)
    BY <1>5 DEF Trace
  <2>6. Filed(world.exact, s, i, g.path)
    BY <2>2, <2>3, <2>4, <2>5 DEF Placed
  <2>7. PICK t \in RanTree : t.path = g.path
    BY <1>6
  <2> QED BY <2>6, <2>7
<1>8. ASSUME NEW s \in RanRows, NEW q \in RanRows, NEW i \in DOMAIN s.files, NEW j \in DOMAIN q.files,
             KeyIn(world.exact, PathOf(s, i)) = KeyIn(world.exact, PathOf(q, j))
      PROVE  s = q /\ i = j
  <2>1. PICK r \in rows : s = After(r)
    BY <1>2
  <2>2. PICK p \in rows : q = After(p)
    BY <1>2
  <2>3. PICK at : Placed(S, r, s, at)
    BY <1>4, <2>1
  <2>4. PICK to : Placed(S, p, q, to)
    BY <1>4, <2>2
  <2>5. r = p
    BY <1>1, <1>8, <2>3, <2>4, OneOrigin
  <2>6. s = q
    BY <2>1, <2>2, <2>5
  <2>7. j \in DOMAIN s.files /\ KeyIn(world.exact, PathOf(s, i)) = KeyIn(world.exact, PathOf(s, j))
    BY <1>8, <2>6
  <2>8. at[i] = at[j]
    BY <1>1, <2>3, <2>7, OneOrigin
  <2>9. i = j
    BY <2>3, <2>7, <2>8 DEF Placed
  <2> QED BY <2>6, <2>9
<1>9. ASSUME NEW t \in RanTree PROVE RanRows # {} => \E s \in RanRows : \E i \in DOMAIN s.files : Filed(world.exact, s, i, t.path)
  <2>1. SUFFICES ASSUME RanRows # {} PROVE \E s \in RanRows : \E i \in DOMAIN s.files : Filed(world.exact, s, i, t.path)
    OBVIOUS
  <2>2. rows # {}
    BY <1>2, <2>1
  <2>3. PICK g \in Moved : t.path = g.path
    BY <1>6
  <2>4. PICK f \in tree : Became(S, Len(S), f, g)
    BY <1>5 DEF Trace
  <2>5. PICK r \in rows : \E j \in DOMAIN r.files : Filed(world.exact, r, j, f.path)
    BY <2>2 DEF Ready, Fits
  <2>6. PICK j \in DOMAIN r.files : Filed(world.exact, r, j, f.path)
    BY <2>5
  <2>7. PICK s, at : s = After(r) /\ Placed(S, r, s, at)
    BY <1>4
  <2>8. PICK i \in DOMAIN r.files : at[i] = j
    BY <2>7 DEF Placed
  <2>9. Filed(world.exact, s, i, g.path) /\ i \in DOMAIN s.files
    BY <2>4, <2>6, <2>7, <2>8 DEF Placed
  <2> QED BY <1>3, <2>3, <2>7, <2>9
<1> QED BY <1>7, <1>8, <1>9 DEF Fits

\* Files with the same paths fit the books as well.
LEMMA SamePaths ==
  ASSUME NEW x, NEW rs, NEW t, NEW u, Fits(x, rs, t),
         \A f \in t : \E g \in u : g.path = f.path, \A g \in u : \E f \in t : g.path = f.path
  PROVE  Fits(x, rs, u)
<1>1. ASSUME NEW r \in rs, NEW i \in DOMAIN r.files PROVE \E g \in u : Filed(x, r, i, g.path)
  <2>1. PICK f \in t : Filed(x, r, i, f.path)
    BY DEF Fits
  <2>2. PICK g \in u : g.path = f.path
    OBVIOUS
  <2> QED BY <2>1, <2>2
<1>2. ASSUME rs # {}, NEW g \in u PROVE \E r \in rs : \E i \in DOMAIN r.files : Filed(x, r, i, g.path)
  <2>1. PICK f \in t : g.path = f.path
    OBVIOUS
  <2> QED BY <1>2, <2>1 DEF Fits
<1> QED BY <1>1, <1>2 DEF Fits

\* The tree in which f is where the file of its id was.
With(f) == {IF g.id = f.id THEN f ELSE g : g \in tree}

\* A failed run leaves the files, one of them perhaps with other contents.
LEMMA SpoiltTree ==
  ASSUME Ready, MovesDone, NEW f \in Spoilt
  PROVE  TreeIn(world.exact, With(f)) /\ Fits(world.exact, rows, With(f))
<1>1. PICK e \in tree, g \in Moved : f = [e EXCEPT !.parts = TagWrite(g).parts] /\ e.id = g.id
  <2>1. PICK p \in tree \X Moved : p[1].id = p[2].id /\ f = [p[1] EXCEPT !.parts = TagWrite(p[2]).parts]
    BY DEF Spoilt
  <2>2. PICK a, b : a = p[1] /\ b = p[2] /\ a \in tree /\ b \in Moved
    BY <2>1
  <2> QED BY <2>1, <2>2
<1>2. PICK w : w = TagWrite(g).parts
  OBVIOUS
<1>3. w # Error
  <2>1. PICK S : S = Steps(Active(plan))
    OBVIOUS
  <2>2. PICK h \in tree : Became(S, Len(S), h, g)
    BY <2>1, MovedTrace DEF Trace
  <2>3. g.parts = h.parts
    BY <2>2 DEF Became
  <2>4. g.parts # Error
    BY <2>3 DEF Ready, TreeIn
  <2> QED BY <1>2, <2>4, TaggedParts
<1>4. f = [id |-> e.id, path |-> e.path, parts |-> w]
  <2>1. e = [id |-> e.id, path |-> e.path, parts |-> e.parts]
    BY DEF Ready, TreeIn
  <2> QED BY <1>1, <1>2, <2>1
<1>5. f.id = e.id /\ f.path = e.path /\ f.parts = w /\ f = [id |-> f.id, path |-> f.path, parts |-> f.parts]
  BY <1>4
<1> DEFINE h == [k \in tree |-> IF k.id = f.id THEN f ELSE k]
<1>6. With(f) = Range(h) /\ DOMAIN h = tree /\ \A k \in tree : h[k] = IF k.id = f.id THEN f ELSE k
  BY DEF With, Range
<1>7. IsFiniteSet(With(f))
  <2> HIDE DEF h
  <2> QED BY <1>6, ImageFinite DEF Ready, TreeIn
<1> HIDE DEF h
<1>8. \A k \in tree : h[k] \in With(f) /\ h[k].path = k.path /\ h[k].id = k.id
                      /\ h[k] = [id |-> h[k].id, path |-> h[k].path, parts |-> h[k].parts] /\ h[k].parts # Error
  <2>1. SUFFICES ASSUME NEW k \in tree
                 PROVE  h[k] \in With(f) /\ h[k].path = k.path /\ h[k].id = k.id
                        /\ h[k] = [id |-> h[k].id, path |-> h[k].path, parts |-> h[k].parts] /\ h[k].parts # Error
    OBVIOUS
  <2>2. h[k] \in With(f)
    BY <1>6 DEF Range
  <2>3. CASE k.id = f.id
    <3>1. k = e
      BY <1>5, <2>3 DEF Ready, TreeIn
    <3> QED BY <1>3, <1>5, <1>6, <2>2, <2>3, <3>1
  <2>4. CASE k.id # f.id
    <3>1. h[k] = k
      BY <1>6, <2>4
    <3>2. k = [id |-> k.id, path |-> k.path, parts |-> k.parts] /\ k.parts # Error
      BY DEF Ready, TreeIn
    <3> QED BY <2>2, <3>1, <3>2
  <2> QED BY <2>3, <2>4
<1>9. \A t \in With(f) : \E k \in tree : t = h[k]
  BY <1>6 DEF Range
<1>10. TreeIn(world.exact, With(f))
  <2>1. ASSUME NEW t \in With(f)
        PROVE  /\ t = [id |-> t.id, path |-> t.path, parts |-> t.parts]
               /\ IsList(t.path) /\ t.path # <<>> /\ t.parts # Error
    <3>1. PICK k \in tree : t = h[k]
      BY <1>9
    <3>2. IsList(k.path) /\ k.path # <<>>
      BY DEF Ready, TreeIn
    <3> QED BY <1>8, <3>1, <3>2
  <2>2. ASSUME NEW t \in With(f), NEW u \in With(f), t # u
        PROVE  t.id # u.id /\ KeyIn(world.exact, t.path) # KeyIn(world.exact, u.path)
    <3>1. PICK k \in tree : t = h[k]
      BY <1>9
    <3>2. PICK l \in tree : u = h[l]
      BY <1>9
    <3>3. k # l
      BY <2>2, <3>1, <3>2
    <3>4. k.id # l.id /\ KeyIn(world.exact, k.path) # KeyIn(world.exact, l.path)
      BY <3>3 DEF Ready, TreeIn
    <3> QED BY <1>8, <3>1, <3>2, <3>4
  <2> QED BY <1>7, <2>1, <2>2 DEF TreeIn
<1>11. Fits(world.exact, rows, With(f))
  <2>1. /\ \A k \in tree : \E t \in With(f) : t.path = k.path
        /\ \A t \in With(f) : \E k \in tree : t.path = k.path
    <3>1. \A k \in tree : h[k] \in With(f) /\ h[k].path = k.path
      BY <1>8
    <3>2. \A k \in tree : \E t \in With(f) : t.path = k.path
      BY <3>1
    <3>3. ASSUME NEW t \in With(f) PROVE \E k \in tree : t.path = k.path
      <4>1. PICK k \in tree : t = h[k]
        BY <1>9
      <4> QED BY <3>1, <4>1
    <3> QED BY <3>2, <3>3
  <2>2. Fits(world.exact, rows, tree)
    BY DEF Ready
  <2>3. PICK x, u : x = world.exact /\ u = With(f)
    OBVIOUS
  <2>4. Fits(x, rows, u)
    BY <2>1, <2>2, <2>3, SamePaths
  <2> QED BY <2>3, <2>4
<1> QED BY <1>10, <1>11

-----------------------------------------------------------------------------
(* Why a plan can be run. *)

\* The steps of different books start in different places.
LEMMA DistinctSteps ==
  ASSUME Ready, Distinct, NEW S, S = Steps(Active(plan)), NEW k \in DOMAIN S, NEW l \in DOMAIN S,
         Key(S[k].from) = Key(S[l].from)
  PROVE  k = l
<1>1. PICK A : A = Active(plan)
  OBVIOUS
<1>2. IsList(plan)
  BY DEF Ready, PlanIn
<1>3. PICK at : /\ IsList(A) /\ DOMAIN at = DOMAIN A /\ IsInjective(at)
                /\ Range(at) = {p \in DOMAIN plan : plan[p].skip = ""}
                /\ \A a \in DOMAIN at : A[a] = plan[at[a]]
  BY <1>1, <1>2, ActiveIs
<1>4. \A p \in DOMAIN A : A[p] \in ToSet(A)
  BY DEF ToSet
<1>5. \A p \in DOMAIN A : \E r \in rows : Runs(r, A[p])
  BY <1>1, <1>4, ActivePlan DEF Ready
<1>6. \A p \in DOMAIN A : IsList(A[p].moves)
  BY <1>5 DEF Runs
<1>7. PICK src : IsSource(src, A, S)
  BY <1>1, <1>3, <1>6, StepsSource
<1>8. ASSUME NEW n \in DOMAIN S
      PROVE  \E a \in DOMAIN A : \E i \in DOMAIN A[a].moves : src[n] = <<a, i>> /\ S[n] = A[a].moves[i]
  <2>1. src[n] \in MovePlaces(A) /\ S[n] = A[src[n][1]].moves[src[n][2]]
    BY <1>7 DEF IsSource, Range
  <2>2. PICK p \in DOMAIN A : \E i \in DOMAIN A[p].moves : src[n] = <<p, i>>
    BY <2>1 DEF MovePlaces
  <2>3. PICK i \in DOMAIN A[p].moves : src[n] = <<p, i>>
    BY <2>2
  <2> QED BY <2>1, <2>3
<1>9. PICK a \in DOMAIN A : \E i \in DOMAIN A[a].moves : src[k] = <<a, i>> /\ S[k] = A[a].moves[i]
  BY <1>8
<1>10. PICK i \in DOMAIN A[a].moves : src[k] = <<a, i>> /\ S[k] = A[a].moves[i]
  BY <1>9
<1>11. PICK c \in DOMAIN A : \E j \in DOMAIN A[c].moves : src[l] = <<c, j>> /\ S[l] = A[c].moves[j]
  BY <1>8
<1>12. PICK j \in DOMAIN A[c].moves : src[l] = <<c, j>> /\ S[l] = A[c].moves[j]
  BY <1>11
<1>13. PICK r \in rows : Runs(r, A[a])
  BY <1>5
<1>14. PICK s \in rows : Runs(s, A[c])
  BY <1>5
<1>15. PICK b, d : b = A[a] /\ d = A[c]
  OBVIOUS
<1>16. /\ b \in ToSet(Active(plan)) /\ d \in ToSet(Active(plan)) /\ Runs(r, b) /\ Runs(s, d)
       /\ i \in DOMAIN r.files /\ j \in DOMAIN s.files /\ Key(b.moves[i].from) = Key(d.moves[j].from)
  BY <1>1, <1>4, <1>10, <1>12, <1>13, <1>14, <1>15 DEF Runs, RunsFor, MovesFor
<1>17. b = d /\ i = j
  BY <1>16, OneSource DEF Ready
<1>18. plan[at[a]].id = plan[at[c]].id /\ at[a] \in DOMAIN plan /\ at[c] \in DOMAIN plan
  BY <1>3, <1>15, <1>17 DEF Range
<1>19. at[a] = at[c]
  <2>1. \A p, q \in DOMAIN plan : plan[p].id = plan[q].id => p = q
    BY DEF Distinct, IsInjective
  <2> QED BY <1>18, <2>1
<1>20. a = c
  BY <1>3, <1>19 DEF IsInjective
<1> QED BY <1>7, <1>10, <1>12, <1>17, <1>20 DEF IsSource, IsInjective

\* And go to different places.
LEMMA DistinctTargets ==
  ASSUME Ready, Distinct, NEW S, S = Steps(Active(plan)), NEW k \in DOMAIN S, NEW l \in DOMAIN S,
         FoldedPath(S[k].to) = FoldedPath(S[l].to)
  PROVE  k = l
<1>1. PICK r \in rows, b \in ToSet(Active(plan)) : \E i \in DOMAIN r.files : IsStep(r, b, i, S[k])
  BY StepIs
<1>2. PICK i \in DOMAIN r.files : IsStep(r, b, i, S[k])
  BY <1>1
<1>3. PICK s \in rows, c \in ToSet(Active(plan)) : \E j \in DOMAIN s.files : IsStep(s, c, j, S[l])
  BY StepIs
<1>4. PICK j \in DOMAIN s.files : IsStep(s, c, j, S[l])
  BY <1>3
<1>5. /\ Runs(r, b) /\ Runs(s, c) /\ S[k] = b.moves[i] /\ S[l] = c.moves[j]
      /\ b.moves[i].from # b.moves[i].to /\ c.moves[j].from # c.moves[j].to
  BY <1>2, <1>4 DEF IsStep
<1>6. IsRow(r) /\ IsRow(s)
  BY DEF Ready, RowsIn
<1>7. i \in DOMAIN b.moves /\ j \in DOMAIN c.moves
  BY <1>5, <1>6, FromIs
<1>8. b = c
  <2>1. ~Apart(b, c)
    BY <1>5, <1>7 DEF Apart
  <2> QED BY <2>1, ActivePlan DEF Ready
<1>9. r = s
  BY <1>5, <1>8 DEF Runs, Ready, RowsIn
<1>10. IsList(b.moves[i].to) /\ b.moves[i].to # <<>> /\ IsList(b.moves[j].to) /\ b.moves[j].to # <<>>
  BY <1>5, <1>6, <1>8, <1>9, FromIs
<1>11. Folded(Last(b.moves[i].to)) = Folded(Last(b.moves[j].to))
  BY <1>5, <1>8, <1>10, FoldedLast
<1>12. i = j
  BY <1>5, <1>8, <1>9, <1>11 DEF Runs, RunsFor, MovesFor
<1>13. S[k] = S[l]
  BY <1>5, <1>8, <1>12
<1> QED BY <1>13, DistinctSteps

\* A step that was not in the plan's view: its target was there in another case.
LEMMA StepCanMove ==
  ASSUME Ready, Distinct, ~CaseTaken, NEW S, S = Steps(Active(plan)), NEW k \in 1 .. Len(S),
         NEW files, files # {}, Trace(S, k - 1, files)
  PROVE  CanMove(files, S[k])
<1>1. IsList(S) /\ DOMAIN S = 1 .. Len(S) /\ Len(S) \in Nat
  BY PlanSteps, ListParts DEF Ready
<1>2. k \in Nat /\ \A j \in 1 .. k - 1 : j \in DOMAIN S /\ j # k
  BY <1>1
<1>3. PICK m : m = S[k]
  OBVIOUS
<1>4. PICK f \in tree : Key(m.from) = Key(f.path)
  BY <1>1, <1>3, PlanFits DEF StepsFit
<1>5. \A j \in 1 .. k - 1 : Key(S[j].from) # Key(m.from)
  BY <1>1, <1>2, <1>3, DistinctSteps
<1>6. f \in files
  <2>1. PICK g \in files : Became(S, k - 1, f, g)
    BY DEF Trace
  <2>2. g = f
    BY <1>4, <1>5, <2>1 DEF Became
  <2> QED BY <2>1, <2>2
<1>7. FilesAt(files, m.from) # {}
  BY <1>4, <1>6 DEF FilesAt
<1>8. ASSUME NEW h \in files, Key(h.path) = Key(m.to) PROVE Key(h.path) = Key(m.from)
  <2>1. PICK e \in tree : Became(S, k - 1, e, h)
    BY DEF Trace
  <2>2. CASE \A j \in 1 .. k - 1 : Key(S[j].from) # Key(e.path)
    <3>1. h = e
      BY <2>1, <2>2 DEF Became
    <3>2. PICK r \in rows, b \in ToSet(Active(plan)) : \E i \in DOMAIN r.files : IsStep(r, b, i, m)
      BY <1>1, <1>3, StepIs
    <3>3. PICK i \in DOMAIN r.files : IsStep(r, b, i, m)
      BY <3>2
    <3>4. ~BlockedIn(world.exact, tree, m) /\ m.from # m.to
      BY <3>3 DEF IsStep, Runs, RunsFor, MovesFor
    <3>5. FoldedPath(m.from) = FoldedPath(m.to)
      BY <1>8, <3>1, <3>4 DEF BlockedIn, EqualFold, Key
    <3>6. e \in FilesAt(tree, m.to)
      BY <1>8, <3>1 DEF FilesAt
    <3>7. m \in ToSet(S)
      BY <1>1, <1>3 DEF ToSet
    <3>8. FilesAt(tree, m.from) = FilesAt(tree, m.to)
      BY <3>5, <3>6, <3>7 DEF CaseTaken
    <3> QED BY <3>1, <3>6, <3>8 DEF FilesAt
  <2>3. CASE \E j \in 1 .. k - 1 : Key(S[j].from) = Key(e.path)
    <3>1. PICK j \in 1 .. k - 1 : Key(S[j].from) = Key(e.path)
      BY <2>3
    <3>2. Key(S[j].to) = Key(S[k].to)
      BY <1>3, <1>8, <2>1, <3>1 DEF Became
    <3>3. FoldedPath(S[j].to) = FoldedPath(S[k].to)
      BY <3>2, KeyFolds
    <3> QED BY <1>1, <1>2, <3>3, DistinctTargets
  <2> QED BY <2>2, <2>3
<1>9. FilesAt(files, m.to) \subseteq FilesAt(files, m.from)
  BY <1>8 DEF FilesAt
<1> QED BY <1>3, <1>7, <1>9 DEF CanMove

\* So that all of them are done.
LEMMA AllMoves ==
  ASSUME Ready, Distinct, ~CaseTaken, Active(plan) # <<>>
  PROVE  MovesDone
<1>1. PICK S : S = Steps(Active(plan))
  OBVIOUS
<1>2. StepsFit(S) /\ IsList(S) /\ Len(S) \in Nat
  BY <1>1, PlanFits, ListParts DEF StepsFit
<1>3. PICK F : IsMoves(F, S, Len(S)) /\ Moved = F[Len(S)]
  BY <1>1, <1>2, MovesRun
<1>4. \A k \in 0 .. Len(S) : F[k] # {} => Trace(S, k, F[k])
  BY <1>2, <1>3, MovesTrace, TreeIs DEF Ready
<1> DEFINE K == {k \in Nat : k <= Len(S) => F[k] # {}}
<1>5. 0 \in K
  <2>1. PICK A : A = Active(plan)
    OBVIOUS
  <2>2. IsList(A) /\ Len(A) \in Nat /\ Len(A) # 0 /\ DOMAIN A = 1 .. Len(A)
    BY <2>1, ActivePlan, EmptyIs, ListParts DEF Ready
  <2>3. A[1] \in ToSet(A)
    BY <2>2 DEF ToSet
  <2>4. PICK r \in rows : Runs(r, A[1])
    BY <2>1, <2>3, ActivePlan DEF Ready
  <2>5. IsList(r.files) /\ r.files # <<>>
    BY DEF Ready, RowsIn, IsRow
  <2>6. 1 \in DOMAIN r.files
    BY <2>5, EmptyIs, ListParts
  <2>7. tree # {}
    BY <2>6 DEF Ready, Fits
  <2> QED BY <1>3, <2>7 DEF IsMoves
<1>6. ASSUME NEW k \in Nat, k \in K PROVE k + 1 \in K
  <2>1. SUFFICES ASSUME k + 1 <= Len(S) PROVE F[k + 1] # {}
    OBVIOUS
  <2>2. k + 1 \in 1 .. Len(S) /\ (k + 1) - 1 = k /\ k \in 0 .. Len(S)
    BY <1>2, <2>1
  <2>3. F[k] # {} /\ F[k + 1] = MoveStep(F[k], S[k + 1])
    BY <1>3, <1>6, <2>2 DEF IsMoves
  <2>4. Trace(S, k, F[k])
    BY <1>4, <2>2, <2>3
  <2>5. CanMove(F[k], S[k + 1])
    BY <1>1, <2>2, <2>3, <2>4, StepCanMove
  <2>6. F[k + 1] = DoMove(F[k], S[k + 1])
    BY <2>3, <2>5 DEF MoveStep
  <2> QED BY <2>6 DEF DoMove
<1>7. Nat \subseteq K
  <2> HIDE DEF K
  <2> QED BY <1>5, <1>6, NatInd
<1>8. F[Len(S)] # {}
  BY <1>2, <1>7
<1> QED BY <1>3, <1>8 DEF MovesDone

-----------------------------------------------------------------------------
(* The invariant holds. *)

\* The books and the files agree, and a plan that is reviewed still holds.
IInv ==
  /\ world \in Worlds /\ lib \in world.libs \cup world.later
  /\ runs \in 0 .. MaxRuns /\ (plan # <<>> => runs < MaxRuns)
  /\ TreeIn(world.exact, tree) /\ RowsIn(runs, rows) /\ Fits(world.exact, rows, tree)
  /\ PlanIn(world.exact, rows, tree, plan)

\* No plan is a plan.
LEMMA NoPlan ==
  ASSUME NEW x, NEW rs, NEW t
  PROVE  PlanIn(x, rs, t, <<>>)
<1>1. PICK e : e = <<>>
  OBVIOUS
<1>2. IsList(e) /\ Len(e) = 0
  BY <1>1, Short
<1>3. IsList(e) /\ DOMAIN e = {}
  BY <1>2, ListParts
<1>4. PlanIn(x, rs, t, e)
  BY <1>3 DEF PlanIn
<1> QED BY <1>1, <1>4

\* A library starts with files and no books.
LEMMA InitInv ==
  ASSUME Init
  PROVE  IInv
<1>1. world \in Worlds /\ lib \in world.libs /\ tree = world.tree /\ rows = {} /\ plan = <<>> /\ runs = 0
  BY DEF Init
<1>2. TreeIn(world.exact, tree)
  <2>1. IsFiniteSet(tree) /\ \A f \in tree : IsFile(f)
    BY <1>1, WorldsAssumption
  <2>2. \A f, g \in tree : f = g \/ (f.id # g.id /\ KeyIn(world.exact, f.path) # KeyIn(world.exact, g.path))
    BY <1>1, WorldsAssumption
  <2> QED BY <2>1, <2>2 DEF TreeIn, IsFile, IsPath
<1>3. RowsIn(runs, rows) /\ Fits(world.exact, rows, tree)
  BY <1>1 DEF RowsIn, Fits
<1>4. runs \in 0 .. MaxRuns
  BY <1>1, BoundsAssumption
<1> QED BY <1>1, <1>2, <1>3, <1>4, NoPlan DEF IInv

\* A match changes nothing of where the files of a book are.
LEMMA Matched ==
  ASSUME NEW n, NEW rs, RowsIn(n, rs), NEW x, NEW t, Fits(x, rs, t),
         NEW r \in rs, NEW q, IsRow(q), q.id = r.id, q.dir = r.dir, q.files = r.files,
         NEW new, new = (rs \ {r}) \cup {q}
  PROVE  RowsIn(n, new) /\ Fits(x, new, t)
<1> DEFINE Same(s, o) == s.id = o.id /\ s.dir = o.dir /\ s.files = o.files
<1>1. \A s \in new : \E o \in rs : Same(s, o) /\ IsRow(s)
  <2>1. SUFFICES ASSUME NEW s \in new PROVE \E o \in rs : Same(s, o) /\ IsRow(s)
    OBVIOUS
  <2>2. CASE s = q
    BY <2>2
  <2>3. CASE s # q
    <3>1. s \in rs /\ IsRow(s)
      BY <2>3 DEF RowsIn
    <3> QED BY <3>1
  <2> QED BY <2>2, <2>3
<1>2. \A o \in rs : \E s \in new : Same(s, o)
  OBVIOUS
<1>3. ASSUME NEW s \in new, NEW u \in new, NEW o \in rs, Same(s, o), Same(u, o) PROVE s = u
  <2>1. \A a, b \in rs : a.id = b.id => a = b
    BY DEF RowsIn
  <2> QED BY <1>3, <2>1
<1>4. \A s, o : Same(s, o) => \A i : PathOf(s, i) = PathOf(o, i)
  BY DEF PathOf
<1>5. RowsIn(n, new)
  <2>1. ASSUME NEW s \in new
        PROVE  IsRow(s) /\ s.id = <<s.id[1], s.id[2]>> /\ s.id[1] \in 0 .. n /\ (s.id[1] = n => s.id[2] = s.dir)
    BY <1>1 DEF RowsIn
  <2>2. ASSUME NEW s \in new, NEW u \in new, s.id = u.id \/ s.dir = u.dir PROVE s = u
    <3>1. PICK o \in rs : Same(s, o)
      BY <1>1
    <3>2. PICK p \in rs : Same(u, p)
      BY <1>1
    <3>3. o = p
      BY <2>2, <3>1, <3>2 DEF RowsIn
    <3> QED BY <1>3, <3>1, <3>2, <3>3
  <2> QED BY <2>1, <2>2 DEF RowsIn
<1>6. ASSUME NEW s \in new, NEW i \in DOMAIN s.files PROVE \E f \in t : Filed(x, s, i, f.path)
  <2>1. PICK o \in rs : Same(s, o)
    BY <1>1
  <2>2. PICK f \in t : Filed(x, o, i, f.path)
    BY <2>1 DEF Fits
  <2> QED BY <1>4, <2>1, <2>2 DEF Filed
<1>7. ASSUME NEW s \in new, NEW u \in new, NEW i \in DOMAIN s.files, NEW j \in DOMAIN u.files,
             KeyIn(x, PathOf(s, i)) = KeyIn(x, PathOf(u, j))
      PROVE  s = u /\ i = j
  <2>1. PICK o \in rs : Same(s, o)
    BY <1>1
  <2>2. PICK p \in rs : Same(u, p)
    BY <1>1
  <2>3. KeyIn(x, PathOf(o, i)) = KeyIn(x, PathOf(p, j)) /\ i \in DOMAIN o.files /\ j \in DOMAIN p.files
    BY <1>4, <1>7, <2>1, <2>2
  <2>4. o = p /\ i = j
    BY <2>3 DEF Fits
  <2> QED BY <1>3, <2>1, <2>2, <2>4
<1>8. ASSUME NEW f \in t PROVE \E s \in new : \E i \in DOMAIN s.files : Filed(x, s, i, f.path)
  <2>1. PICK o \in rs : \E i \in DOMAIN o.files : Filed(x, o, i, f.path)
    BY DEF Fits
  <2>2. PICK i \in DOMAIN o.files : Filed(x, o, i, f.path)
    BY <2>1
  <2>3. PICK s \in new : Same(s, o)
    BY <1>2
  <2>4. i \in DOMAIN s.files /\ Filed(x, s, i, f.path)
    BY <1>4, <2>2, <2>3 DEF Filed
  <2> QED BY <2>4
<1> QED BY <1>5, <1>6, <1>7, <1>8 DEF Fits

\* A match by the matcher or the user.
LEMMA MatchStep ==
  ASSUME IInv, NEW r \in rows, NEW m \in world.metas, SetBookMatch(r, m)
  PROVE  IInv'
<1>1. /\ plan = <<>> /\ rows' = (rows \ {r}) \cup {[r EXCEPT !.state = "matched", !.meta = m]}
      /\ world' = world /\ lib' = lib /\ tree' = tree /\ plan' = plan /\ runs' = runs
  BY DEF SetBookMatch
<1>2. IsMeta(m)
  BY WorldsAssumption DEF IInv
<1>3. PICK q : q = [r EXCEPT !.state = "matched", !.meta = m]
  OBVIOUS
<1>4. IsRow(r)
  BY DEF IInv, RowsIn
<1>5. q = [id |-> r.id, dir |-> r.dir, layout |-> r.layout, state |-> "matched", meta |-> m, files |-> r.files]
  BY <1>3, <1>4 DEF IsRow
<1>6. /\ q.id = r.id /\ q.dir = r.dir /\ q.layout = r.layout /\ q.state = "matched" /\ q.meta = m /\ q.files = r.files
      /\ q = [id |-> q.id, dir |-> q.dir, layout |-> q.layout, state |-> q.state, meta |-> q.meta, files |-> q.files]
  BY <1>5
<1>7. IsRow(q)
  <2>1. m # None /\ "matched" \in Accepted
    BY <1>2 DEF IsMeta, Accepted
  <2> QED BY <1>4, <1>6, <2>1 DEF IsRow
<1>8. RowsIn(runs, rows') /\ Fits(world.exact, rows', tree)
  <2>1. PICK n, rs, x, t, new : n = runs /\ rs = rows /\ x = world.exact /\ t = tree /\ new = rows'
    OBVIOUS
  <2>2. RowsIn(n, rs) /\ Fits(x, rs, t) /\ r \in rs /\ new = (rs \ {r}) \cup {q}
    BY <1>1, <1>3, <2>1 DEF IInv
  <2>3. RowsIn(n, new) /\ Fits(x, new, t)
    BY <1>6, <1>7, <2>2, Matched
  <2> QED BY <2>1, <2>3
<1>9. PlanIn(world.exact, rows', tree, plan)
  BY <1>1, NoPlan
<1> QED BY <1>1, <1>8, <1>9 DEF IInv

\* A scan.
LEMMA ScanStep ==
  ASSUME IInv, Scan
  PROVE  IInv'
<1>1. /\ plan = <<>> /\ rows' = Scanned
      /\ world' = world /\ lib' = lib /\ tree' = tree /\ plan' = plan /\ runs' = runs
  BY DEF Scan
<1>2. runs \in Nat
  BY BoundsAssumption DEF IInv
<1>3. RowsIn(runs, Scanned) /\ Fits(world.exact, Scanned, tree)
  BY <1>2, ScanFits DEF IInv
<1>4. PlanIn(world.exact, rows', tree, plan)
  BY <1>1, NoPlan
<1> QED BY <1>1, <1>3, <1>4 DEF IInv

\* A preview.
LEMMA PreviewStep ==
  ASSUME IInv, NEW s \in Selections, Preview(s)
  PROVE  IInv'
<1>1. /\ runs < MaxRuns /\ plan' = BuildPlan(s)
      /\ world' = world /\ lib' = lib /\ tree' = tree /\ rows' = rows /\ runs' = runs
  BY DEF Preview
<1>2. PlanIn(world.exact, rows, tree, BuildPlan(s))
  BY PreviewPlan DEF IInv
<1> QED BY <1>1, <1>2 DEF IInv

\* New settings.
LEMMA UpdateStep ==
  ASSUME IInv, NEW l \in world.later, UpdateLibrary(l)
  PROVE  IInv'
<1>1. /\ plan = <<>> /\ lib' = l
      /\ world' = world /\ tree' = tree /\ rows' = rows /\ plan' = plan /\ runs' = runs
  BY DEF UpdateLibrary
<1> QED BY <1>1 DEF IInv

\* Books are older after a run.
LEMMA Older ==
  ASSUME NEW n \in Nat, NEW rs, RowsIn(n, rs)
  PROVE  RowsIn(n + 1, rs)
<1>1. ASSUME NEW r \in rs
      PROVE  /\ IsRow(r) /\ r.id = <<r.id[1], r.id[2]>>
             /\ r.id[1] \in 0 .. n + 1 /\ (r.id[1] = n + 1 => r.id[2] = r.dir)
  <2>1. r.id = <<r.id[1], r.id[2]>> /\ r.id[1] \in 0 .. n /\ IsRow(r)
    BY DEF RowsIn
  <2>2. r.id[1] \in 0 .. n + 1 /\ r.id[1] # n + 1
    BY <2>1
  <2> QED BY <2>1, <2>2
<1>2. \A r, s \in rs : r.id = s.id \/ r.dir = s.dir => r = s
  BY DEF RowsIn
<1> QED BY <1>1, <1>2 DEF RowsIn

\* What holds when a plan is run.
LEMMA IsReady ==
  ASSUME IInv
  PROVE  Ready
<1>1. runs \in Nat
  BY BoundsAssumption DEF IInv
<1> QED BY <1>1 DEF IInv, Ready

\* A run that succeeds, and one that fails.
LEMMA ExecuteStep ==
  ASSUME IInv, Execute
  PROVE  IInv'
<1>1. Ready
  BY IsReady
<1>2. plan # <<>> /\ plan' = <<>> /\ runs' = runs + 1 /\ world' = world /\ lib' = lib
  BY DEF Execute
<1>3. runs + 1 \in 0 .. MaxRuns /\ runs \in Nat
  BY <1>2, BoundsAssumption DEF IInv
<1>4. CASE Succeeds
  <2>1. tree' = RanTree
    BY <1>4 DEF Execute, RanTree
  <2>2. rows' = RanRows
    BY <1>4 DEF Execute, RanRows, After
  <2>3. MovesDone
    BY <1>4 DEF Succeeds
  <2>4. TreeIn(world.exact, RanTree)
    BY <1>1, <2>3, RanTreeIs
  <2>5. RowsIn(runs + 1, RanRows) /\ Fits(world.exact, RanRows, RanTree)
    BY <1>1, <2>3, RanRowsIn, RanFits
  <2>6. PlanIn(world.exact, RanRows, RanTree, <<>>)
    BY NoPlan
  <2> QED BY <1>2, <1>3, <2>1, <2>2, <2>4, <2>5, <2>6 DEF IInv
<1>5. CASE ~Succeeds
  <2>1. rows' = rows
    BY <1>5 DEF Execute
  <2>2. RowsIn(runs + 1, rows)
    BY <1>3, Older DEF IInv
  <2>3. TreeIn(world.exact, tree') /\ Fits(world.exact, rows, tree')
    <3>1. CASE Active(plan) = <<>> \/ ~MovesDone
      <4>1. tree' = tree
        BY <1>5, <3>1 DEF Execute
      <4> QED BY <4>1 DEF IInv
    <3>2. CASE ~(Active(plan) = <<>> \/ ~MovesDone)
      <4>1. PICK f \in Spoilt : tree' = With(f)
        BY <1>5, <3>2 DEF Execute, With
      <4>2. TreeIn(world.exact, With(f)) /\ Fits(world.exact, rows, With(f))
        BY <1>1, <3>2, SpoiltTree
      <4> QED BY <4>1, <4>2
    <3> QED BY <3>1, <3>2
  <2>4. PlanIn(world.exact, rows, tree', <<>>)
    BY NoPlan
  <2> QED BY <1>2, <1>3, <2>1, <2>2, <2>3, <2>4 DEF IInv
<1> QED BY <1>4, <1>5

\* The books and the files agree, and a plan that is reviewed still holds, whatever the
\* users, the scans and the runs do.
THEOREM Invariance == Spec => []IInv
<1>1. Init => IInv
  BY InitInv
<1>2. IInv /\ [Next]_vars => IInv'
  <2>1. SUFFICES ASSUME IInv, [Next]_vars PROVE IInv'
    OBVIOUS
  <2>2. ASSUME NEW l \in world.later, UpdateLibrary(l) PROVE IInv'
    BY <2>1, <2>2, UpdateStep
  <2>3. CASE Scan
    BY <2>1, <2>3, ScanStep
  <2>4. ASSUME NEW r \in rows, NEW m \in world.metas, SetBookMatch(r, m) PROVE IInv'
    BY <2>1, <2>4, MatchStep
  <2>5. ASSUME NEW s \in Selections, Preview(s) PROVE IInv'
    BY <2>1, <2>5, PreviewStep
  <2>6. CASE Execute
    BY <2>1, <2>6, ExecuteStep
  <2>7. CASE UNCHANGED vars
    BY <2>1, <2>7 DEF IInv, vars
  <2> QED BY <2>1, <2>2, <2>3, <2>4, <2>5, <2>6, <2>7 DEF Next
<1> QED BY <1>1, <1>2, PTL DEF Spec

\* The parts of a plan for a book of the library.
LEMMA PlanParts ==
  ASSUME IInv, NEW i \in DOMAIN plan
  PROVE  plan[i].skip = "" <=> Len(plan[i].moves) = Len(Row(plan[i].id).files)
<1>1. PICK r \in rows : PlannedFor(world.exact, rows, tree, r, plan[i])
  BY DEF IInv, PlanIn
<1>2. Row(plan[i].id) = r
  <2>1. plan[i].id = r.id
    BY <1>1 DEF PlannedFor
  <2> QED BY <2>1, RowIs DEF IInv
<1>3. IsList(r.files) /\ r.files # <<>>
  BY DEF IInv, RowsIn, IsRow
<1>4. CASE plan[i].skip = ""
  <2>1. IsList(plan[i].moves) /\ DOMAIN plan[i].moves = DOMAIN r.files
    BY <1>1, <1>4 DEF PlannedFor, RunsFor, MovesFor
  <2>2. PICK m, f : m = plan[i].moves /\ f = r.files
    OBVIOUS
  <2>3. Len(m) \in Nat /\ Len(f) \in Nat /\ 1 .. Len(m) = 1 .. Len(f)
    BY <1>3, <2>1, <2>2, ListParts
  <2>4. Len(m) = Len(f)
    BY <2>3, SameInterval
  <2> QED BY <1>2, <1>4, <2>2, <2>4
<1>5. CASE plan[i].skip # ""
  <2>1. plan[i].moves = <<>>
    BY <1>1, <1>5 DEF PlannedFor
  <2>2. Len(r.files) # 0
    BY <1>3, EmptyIs
  <2>3. Len(<<>>) = 0
    BY Short
  <2> QED BY <1>2, <1>5, <2>1, <2>2, <2>3
<1> QED BY <1>4, <1>5

\* Books, files and plans have the shape the code's records have, and a plan moves all
\* files of a book or none.
THEOREM TypeCorrect == Spec => []TypeOK
<1>1. IInv => TypeOK
  <2>1. SUFFICES ASSUME IInv PROVE TypeOK
    OBVIOUS
  <2>2. world \in Worlds /\ lib \in world.libs \cup world.later /\ runs \in 0 .. MaxRuns
    BY <2>1 DEF IInv
  <2>3. \A f \in tree : Len(f.path) >= 1 /\ f.parts # Error
    <3>1. SUFFICES ASSUME NEW f \in tree PROVE Len(f.path) >= 1 /\ f.parts # Error
      OBVIOUS
    <3>2. IsList(f.path) /\ f.path # <<>> /\ f.parts # Error
      BY <2>1 DEF IInv, TreeIn
    <3>3. Len(f.path) \in Nat /\ Len(f.path) # 0
      BY <3>2, ListParts, EmptyIs
    <3> QED BY <3>2, <3>3
  <2>4. \A r \in rows : /\ r.state \in {"unmatched", "matched", "organized"} /\ r.files # <<>>
                        /\ r.state \in Accepted <=> r.meta # None
                        /\ r.layout = "single" <=> Len(r.files) = 1
    BY <2>1 DEF IInv, RowsIn, IsRow
  <2> QED BY <2>1, <2>2, <2>3, <2>4, PlanParts DEF TypeOK
<1> QED BY <1>1, Invariance, PTL

\* Every file is one file of one book.
LEMMA OneEach ==
  ASSUME IInv, rows # {}
  PROVE  Cardinality(tree) = Cardinality(UNION {{r} \X DOMAIN r.files : r \in rows})
<1> DEFINE P == UNION {{r} \X DOMAIN r.files : r \in rows}
           x == world.exact
           h == [f \in tree |-> CHOOSE p \in P : Filed(x, p[1], p[2], f.path)]
<1>1. \A p \in P : p[1] \in rows /\ p[2] \in DOMAIN p[1].files /\ p = <<p[1], p[2]>>
  OBVIOUS
<1>2. \A r \in rows : \A i \in DOMAIN r.files : <<r, i>> \in P
  OBVIOUS
<1>3. \A f \in tree : \E r \in rows : \E i \in DOMAIN r.files : Filed(x, r, i, f.path)
  BY DEF IInv, Fits
<1> HIDE DEF P
<1>4. \A f \in tree : h[f] \in P /\ Filed(x, h[f][1], h[f][2], f.path)
  <2>1. SUFFICES ASSUME NEW f \in tree PROVE h[f] \in P /\ Filed(x, h[f][1], h[f][2], f.path)
    OBVIOUS
  <2>2. PICK r \in rows : \E i \in DOMAIN r.files : Filed(x, r, i, f.path)
    BY <1>3
  <2>3. PICK i \in DOMAIN r.files : Filed(x, r, i, f.path)
    BY <2>2
  <2>4. PICK p : p = <<r, i>>
    OBVIOUS
  <2>5. p \in P /\ p[1] = r /\ p[2] = i
    BY <1>2, <2>4
  <2>6. \E p2 \in P : Filed(x, p2[1], p2[2], f.path)
    BY <2>3, <2>5
  <2> QED BY <2>6
<1>5. DOMAIN h = tree
  OBVIOUS
<1> HIDE DEF h
<1>6. \A f, g \in tree : h[f] = h[g] => f = g
  <2>1. SUFFICES ASSUME NEW f \in tree, NEW g \in tree, h[f] = h[g] PROVE f = g
    OBVIOUS
  <2>2. KeyIn(x, f.path) = KeyIn(x, g.path)
    BY <1>4, <2>1 DEF Filed
  <2> QED BY <2>2 DEF IInv, TreeIn
<1>7. \A p \in P : \E f \in tree : h[f] = p
  <2>1. SUFFICES ASSUME NEW p \in P PROVE \E f \in tree : h[f] = p
    OBVIOUS
  <2>2. PICK r, i : r = p[1] /\ i = p[2] /\ r \in rows /\ i \in DOMAIN r.files /\ p = <<r, i>>
    BY <1>1
  <2>3. PICK f \in tree : Filed(x, r, i, f.path)
    BY <2>2 DEF IInv, Fits
  <2>4. PICK s, j : s = h[f][1] /\ j = h[f][2] /\ s \in rows /\ j \in DOMAIN s.files /\ h[f] = <<s, j>>
    BY <1>1, <1>4
  <2>5. KeyIn(x, PathOf(r, i)) = KeyIn(x, PathOf(s, j))
    BY <1>4, <2>3, <2>4 DEF Filed
  <2>6. r = s /\ i = j
    BY <2>2, <2>4, <2>5 DEF IInv, Fits
  <2> QED BY <2>2, <2>4, <2>6
<1>8. h \in Bijection(tree, P)
  <2>1. h \in [tree -> P]
    <3>1. h = [f \in tree |-> h[f]]
      BY DEF h
    <3> QED BY <1>4, <3>1
  <2> QED BY <1>5, <1>6, <1>7, <2>1 DEF Bijection, Injection, Surjection, IsInjective
<1>9. ExistsBijection(tree, P)
  BY <1>8 DEF ExistsBijection
<1>10. IsFiniteSet(tree)
  BY DEF IInv, TreeIn
<1> QED BY <1>9, <1>10, FS_Bijection DEF P

\* Once scanned, every file is one book's, every file of a book is there, and a folder is
\* one book's: the UNIQUE index of FinalizeOrganize never fires.
THEOREM RowsAgree == Spec => []RowsAgreeWithDisk
<1>1. IInv => RowsAgreeWithDisk
  <2>1. SUFFICES ASSUME IInv, rows # {} PROVE RowsAgreeWithDisk
    BY DEF RowsAgreeWithDisk
  <2>2. \A r, s \in rows : r.dir = s.dir => r = s
    BY <2>1 DEF IInv, RowsIn
  <2>3. \A f \in tree : \E r \in rows : \E g \in ToSet(r.files) : Key(r.dir \o g.rel) = Key(f.path)
    <3>1. SUFFICES ASSUME NEW f \in tree
                   PROVE  \E r \in rows : \E g \in ToSet(r.files) : Key(r.dir \o g.rel) = Key(f.path)
      OBVIOUS
    <3>2. PICK r \in rows : \E i \in DOMAIN r.files : Filed(world.exact, r, i, f.path)
      BY <2>1 DEF IInv, Fits
    <3>3. PICK i \in DOMAIN r.files : Filed(world.exact, r, i, f.path)
      BY <3>2
    <3>4. r.files[i] \in ToSet(r.files) /\ Key(r.dir \o r.files[i].rel) = Key(f.path)
      BY <3>3 DEF ToSet, Filed, PathOf, Key
    <3> QED BY <3>4
  <2> QED BY <2>1, <2>2, <2>3, OneEach DEF RowsAgreeWithDisk
<1> QED BY <1>1, Invariance, PTL

\* A plan for different books can be run as it was reviewed: no move is in the way of
\* another, or of a file that is there, but for CaseTaken and TagRefused.
THEOREM PlansRun == Spec => []PlanRuns
<1>1. IInv => PlanRuns
  BY IsReady, AllMoves DEF PlanRuns, Succeeds, TagRefused
<1> QED BY <1>1, Invariance, PTL

-----------------------------------------------------------------------------
(* Names. *)

\* A segment is text if its name is.
LEMMA SegmentText ==
  ASSUME SaneText, NEW name, IsText(name)
  PROVE  IsText(SanitizeSegment(name))
<1>1. PICK G : G = {"Unknown", "_"} \cup {Sane(name[i]) : i \in DOMAIN name}
  OBVIOUS
<1>2. "Unknown" \in G /\ "_" \in G /\ \A i \in DOMAIN name : Sane(name[i]) \in G
  BY <1>1
<1>3. "{" \notin G
  <2>1. \A i \in DOMAIN name : name[i] # "{"
    BY DEF IsText, Range
  <2>2. \A i \in DOMAIN name : Sane(name[i]) # "{"
    BY <2>1 DEF SaneText
  <2> QED BY <1>1, <2>2
<1>4. Over(G, SanitizeSegment(name))
  BY <1>2, SegmentOver DEF IsText
<1> QED BY <1>3, <1>4 DEF Over, IsText, Range

\* Text is a list of pieces that are no brace.
LEMMA TextOf ==
  ASSUME NEW s
  PROVE  /\ IsText(s) => Over(Range(s) \ {"{"}, s)
         /\ \A G : Over(G, s) /\ "{" \notin G => IsText(s)
  BY DEF IsText, Over, Range

\* Short texts, and longer ones.
LEMMA TextShort ==
  ASSUME NEW x, x # "{"
  PROVE  IsText(<<>>) /\ IsText(<<x>>) /\ \A s : IsText(s) => IsText(Append(s, x))
<1>1. PICK G : G = {x}
  OBVIOUS
<1>2. IsText(<<>>) /\ IsText(<<x>>)
  <2>1. Over(G, <<>>) /\ Over(G, <<x>>)
    BY <1>1, OverShort
  <2> QED BY <1>1, <2>1, TextOf
<1>3. ASSUME NEW s, IsText(s) PROVE IsText(Append(s, x))
  <2>1. PICK H : H = (Range(s) \ {"{"}) \cup {x}
    OBVIOUS
  <2>2. Over(H, s)
    BY <1>3, <2>1, TextOf DEF Over
  <2>3. Over(H, Append(s, x))
    BY <2>1, <2>2, OverAppend
  <2> QED BY <2>1, <2>3, TextOf
<1> QED BY <1>2, <1>3

\* No number becomes a brace.
TrackText == \A n : Track2(n) # "{"
LibLists == IsList(lib.single) /\ IsList(lib.multi)

\* The values of the tokens are lists of pieces, and text.
LEMMA TokensAre ==
  ASSUME NEW m, IsMeta(m), NEW ext, NEW track, NEW tv, tv = TokenValues(m, ext, track), NEW x \in Tokens
  PROVE  /\ IsList(ext) => IsList(tv[x])
         /\ TrackText /\ IsText(ext) => IsText(tv[x])
<1>1. PICK year, number : year = Year[m.year] /\ number = Track2(track)
  OBVIOUS
<1>2. tv[x] \in {m.title, m.author, m.series, year, ext, <<>>, <<number>>}
  <2>1. x \in {"title", "author", "series", "year", "ext", "track2"}
    BY TokensAssumption
  <2>2. CASE x = "title"
    BY <2>2 DEF TokenValues
  <2>3. CASE x = "author"
    BY <2>3 DEF TokenValues
  <2>4. CASE x = "series"
    BY <2>4 DEF TokenValues
  <2>5. CASE x = "year"
    BY <1>1, <2>5 DEF TokenValues
  <2>6. CASE x = "ext"
    BY <2>6 DEF TokenValues
  <2>7. CASE x = "track2"
    BY <1>1, <2>7 DEF TokenValues
  <2> QED BY <2>1, <2>2, <2>3, <2>4, <2>5, <2>6, <2>7
<1>3. IsText(m.title) /\ IsText(m.author) /\ IsText(m.series) /\ IsText(year)
  BY <1>1 DEF IsMeta
<1>4. IsList(<<>>) /\ IsList(<<number>>)
  BY Short
<1>5. IsList(ext) => IsList(tv[x])
  BY <1>2, <1>3, <1>4 DEF IsText
<1>6. TrackText => IsText(<<>>) /\ IsText(<<number>>)
  BY <1>1, TextShort DEF TrackText
<1> QED BY <1>2, <1>3, <1>5, <1>6

\* The name of a file: a list of pieces that ends in its extension, and has no brace if
\* neither the settings nor the extension have one.
LEMMA FileNameIs ==
  ASSUME NEW r, IsMeta(r.meta), LibLists, NEW f, NEW track, NEW name, name = FileName(r, f, track)
  PROVE  /\ IsList(name) /\ name # <<>> /\ Last(name) = Ext(f.rel)
         /\ SaneText /\ TrackText /\ ValidSettings(lib) /\ Ext(f.rel) # "{" => IsText(name)
<1>1. PICK ext, tv, t : /\ ext = Ext(f.rel) /\ tv = TokenValues(r.meta, <<ext>>, track)
                        /\ t = IF r.layout = "multi" THEN lib.multi ELSE lib.single
  OBVIOUS
<1>2. PICK text, seg : text = Render(t, tv) /\ seg = SanitizeSegment(text)
  OBVIOUS
<1>3. name = IF Last(seg) = ext THEN seg ELSE Append(seg, ext)
  BY <1>1, <1>2 DEF FileName
<1>4. IsList(t)
  BY <1>1 DEF LibLists
<1>5. IsList(text)
  <2>1. IsList(<<ext>>)
    BY Short
  <2>2. \A x \in Tokens : IsList(tv[x])
    BY <1>1, <2>1, TokensAre
  <2> QED BY <1>2, <1>4, <2>2, RenderList
<1>6. IsList(seg) /\ seg # <<>>
  BY <1>2, <1>5, SegmentList
<1>7. IsList(Append(seg, ext)) /\ Append(seg, ext) # <<>> /\ Last(Append(seg, ext)) = ext
  <2>1. /\ IsList(Append(seg, ext)) /\ Len(Append(seg, ext)) = Len(seg) + 1
        /\ Append(seg, ext)[Len(seg) + 1] = ext /\ Append(seg, ext) # <<>>
    BY <1>6, ListAppend
  <2> QED BY <2>1 DEF Last
<1>8. IsList(name) /\ name # <<>> /\ Last(name) = ext
  BY <1>3, <1>6, <1>7
<1>9. ASSUME SaneText, TrackText, ValidSettings(lib), ext # "{" PROVE IsText(name)
  <2>1. IsText(<<ext>>)
    BY <1>9, TextShort
  <2>2. \A x \in Tokens : IsText(tv[x])
    BY <1>1, <1>9, <2>1, TokensAre
  <2>3. ValidateTemplate(t)
    BY <1>1, <1>9 DEF ValidSettings
  <2>4. IsText(text)
    BY <1>2, <1>4, <2>2, <2>3, RenderText
  <2>5. IsText(seg)
    BY <1>2, <1>9, <2>4, SegmentText
  <2>6. IsText(Append(seg, ext))
    BY <1>9, <2>5, TextShort
  <2> QED BY <1>3, <2>5, <2>6
<1> QED BY <1>1, <1>8, <1>9

-----------------------------------------------------------------------------
(* The length of a path. *)

\* The folder of a book is a list of names.
LEMMA SegmentsAre ==
  ASSUME NEW m, IsMeta(m)
  PROVE  Lengthy(BookDirSegments(m))
<1> DEFINE Names == {s \in {SanitizeSegment(AuthorFolderName(m)), SanitizeSegment(m.series),
                            SanitizeSegment(Render(BookDirTemplate, TokenValues(m, <<>>, 0)))} : IsList(s)}
           author == IF AuthorFolderName(m) = <<>> THEN <<>> ELSE <<SanitizeSegment(AuthorFolderName(m))>>
           series == IF m.series = <<>> THEN <<>> ELSE <<SanitizeSegment(m.series)>>
           title == <<SanitizeSegment(Render(BookDirTemplate, TokenValues(m, <<>>, 0)))>>
<1>1. SanitizeSegment(AuthorFolderName(m)) \in Names
  <2>1. IsList(AuthorFolderName(m))
    BY DEF IsMeta, IsText, AuthorFolderName, FirstNonEmpty
  <2> QED BY <2>1, SegmentList
<1>2. SanitizeSegment(m.series) \in Names
  BY SegmentList DEF IsMeta, IsText
<1>3. SanitizeSegment(Render(BookDirTemplate, TokenValues(m, <<>>, 0))) \in Names
  <2>1. PICK t, tv : t = BookDirTemplate /\ tv = TokenValues(m, <<>>, 0)
    OBVIOUS
  <2>2. IsList(t)
    <3>1. BookDirTemplate \in Seq({"{", "title", "}", "[", "year", "]"})
      BY DEF BookDirTemplate
    <3> QED BY <2>1, <3>1, SeqList
  <2>3. \A x \in Tokens : IsList(tv[x])
    BY <2>1, Short, TokensAre
  <2>4. IsList(Render(t, tv))
    BY <2>2, <2>3, RenderList
  <2> QED BY <2>1, <2>4, SegmentList
<1> HIDE DEF Names
<1>4. Over(Names, author) /\ Over(Names, series) /\ Over(Names, title)
  BY <1>1, <1>2, <1>3, OverShort
<1>5. BookDirSegments(m) = (IF lib.mode = "series_first" THEN series \o author ELSE author \o series) \o title
  BY DEF BookDirSegments
<1> HIDE DEF author, series, title
<1>6. Over(Names, series \o author) /\ Over(Names, author \o series)
  BY <1>4, OverConcat
<1>7. Over(Names, (series \o author) \o title) /\ Over(Names, (author \o series) \o title)
  BY <1>4, <1>6, OverConcat
<1>8. \A s \in Names : IsList(s)
  BY DEF Names
<1> QED BY <1>5, <1>7, <1>8 DEF Over, Lengthy

\* What is left for the folder when the longest name has its place.
LEMMA BudgetIs ==
  ASSUME NEW names, Lengthy(names), names # <<>>
  PROVE  Budget(names) \in Int /\ \A i \in DOMAIN names : Len(names[i]) <= MaxPathLen - 2 - Budget(names)
<1>1. PICK n \in Nat : n = Len(names) /\ DOMAIN names = 1 .. n /\ n > 0
  BY ListParts, EmptyIs DEF Lengthy
<1>2. PICK f : f = [i \in 1 .. n |-> Len(names[i])]
  OBVIOUS
<1>3. \A i \in 1 .. n : f[i] = Len(names[i]) /\ f[i] \in Nat
  BY <1>1, <1>2, ListParts DEF Lengthy
<1>4. PICK k \in 1 .. n : \A i \in 1 .. n : f[k] >= f[i]
  <2>1. n > 0 /\ \A i \in 1 .. n : f[i] \in Int
    BY <1>1, <1>3
  <2> QED BY <2>1, Greatest
<1>5. PICK S : S = {Len(name) : name \in Range(names)}
  OBVIOUS
<1>6. f[k] \in S /\ (\A y \in S : \E i \in 1 .. n : y = f[i]) /\ \A i \in 1 .. n : f[i] \in S
  BY <1>1, <1>3, <1>5 DEF Range
<1>7. PICK m : m = Max(S)
  OBVIOUS
<1>8. m \in S /\ \A y \in S : m >= y
  <2>1. \A y \in S : f[k] >= y
    BY <1>4, <1>6
  <2> QED BY <1>6, <1>7, <2>1 DEF Max
<1>9. m \in Nat
  BY <1>3, <1>6, <1>8
<1>10. PICK b \in Int : b = MaxPathLen - 2 - m /\ b = Budget(names)
  <2>1. MaxPathLen - 2 - m \in Int
    BY <1>9, BoundsAssumption
  <2> QED BY <1>5, <1>7, <2>1 DEF Budget
<1>11. MaxPathLen - 2 - b = m
  BY <1>9, <1>10, BoundsAssumption
<1> QED BY <1>1, <1>3, <1>6, <1>8, <1>10, <1>11

-----------------------------------------------------------------------------
(* Paths that fit. *)

\* A book that is skipped.
LEMMA SkippedIs ==
  ASSUME NEW r, NEW why, why # "", NEW b, b = Skipped(r, why)
  PROVE  b.skip # "" /\ b.moves = <<>> /\ b.id = r.id
  BY DEF Skipped

\* The planned folder and moves of a book that can be organized.
IsPlaced(r, bp, names) ==
  /\ r.state \in Accepted /\ names = FileNames(r, Files(r), EffectiveTracks(r)) /\ DOMAIN names = DOMAIN r.files
  /\ bp.dir = FitDirSegments(BookDirSegments(r.meta), Budget(names)) /\ ~(ChainLen(bp.dir) > Budget(names))
  /\ MovesInto(r, bp.dir, names, bp.moves)

\* planBook finds a folder and names, or skips the book.
LEMMA PlanBookParts ==
  ASSUME NEW r, IsRow(r), NEW bp, bp = PlanBook(r)
  PROVE  IF bp.skip = "" THEN \E names : IsPlaced(r, bp, names) ELSE bp.moves = <<>>
<1>1. \A why : why # "" /\ bp = Skipped(r, why) => bp.skip # "" /\ bp.moves = <<>>
  BY SkippedIs
<1>2. PICK files, names : files = Files(r) /\ names = FileNames(r, files, EffectiveTracks(r))
  OBVIOUS
<1>3. DOMAIN names = DOMAIN r.files
  <2>1. DOMAIN files = DOMAIN r.files
    BY <1>2, FilesArranged, ArrangementParts DEF IsRow
  <2> QED BY <1>2, <2>1 DEF FileNames
<1>4. PICK whole, budget : whole = BookDirSegments(r.meta) /\ budget = Budget(names)
  OBVIOUS
<1>5. PICK dir : dir = FitDirSegments(whole, budget)
  OBVIOUS
<1>6. IsList(dir)
  BY <1>4, <1>5, DirList, FittedList
<1>7. CASE ~Placeable(r)
  BY <1>1, <1>7 DEF PlanBook
<1>8. CASE Placeable(r)
  <2>1. bp = PlanDir(r, names, budget, dir)
    BY <1>2, <1>4, <1>5, <1>8 DEF PlanBook, PlanNames
  <2>2. r.state \in Accepted
    BY <1>8 DEF Placeable
  <2>3. CASE ChainLen(dir) > budget
    BY <1>1, <2>1, <2>3 DEF PlanDir
  <2>4. CASE ~(ChainLen(dir) > budget) /\ ~IsInjective([i \in DOMAIN names |-> Folded(names[i])])
    BY <1>1, <2>1, <2>4 DEF PlanDir
  <2>5. CASE ~(ChainLen(dir) > budget) /\ IsInjective([i \in DOMAIN names |-> Folded(names[i])])
    <3>1. PICK moves : moves = Moves(r, files, dir, names)
      OBVIOUS
    <3>2. bp = PlanMoves(r, dir, moves)
      BY <1>2, <2>1, <2>5, <3>1 DEF PlanDir
    <3>3. CASE \E m \in ToSet(moves) : Blocked(m)
      BY <1>1, <3>2, <3>3 DEF PlanMoves
    <3>4. CASE ~(\E m \in ToSet(moves) : Blocked(m))
      <4>1. PICK tags : tags = IF lib.writeTags THEN CheckBookTags(r) ELSE {}
        OBVIOUS
      <4>2. bp.skip = "" /\ bp.dir = dir /\ bp.moves = moves
        <5>1. PICK b : b = [id |-> r.id, skip |-> "", dir |-> dir, moves |-> moves, tags |-> tags]
          OBVIOUS
        <5>2. b.skip = "" /\ b.dir = dir /\ b.moves = moves
          BY <5>1
        <5>3. bp = b
          BY <3>2, <3>4, <4>1, <5>1 DEF PlanMoves
        <5> QED BY <5>2, <5>3
      <4>3. MovesInto(r, dir, names, moves)
        BY <1>2, <1>3, <1>6, <3>1, MovesAre
      <4>4. IsPlaced(r, bp, names)
        BY <1>2, <1>3, <1>4, <1>5, <2>2, <2>5, <4>2, <4>3 DEF IsPlaced
      <4> QED BY <4>2, <4>4
    <3> QED BY <3>3, <3>4
  <2> QED BY <2>3, <2>4, <2>5
<1> QED BY <1>7, <1>8

\* The names of the files.
LEMMA NamesAre ==
  ASSUME NEW r, IsRow(r), IsMeta(r.meta), LibLists, NEW bp, NEW names, IsPlaced(r, bp, names)
  PROVE  /\ Lengthy(names) /\ names # <<>>
         /\ \A i \in DOMAIN r.files : \E track : names[i] = FileName(r, Files(r)[i], track)
<1>1. PICK n \in Nat : n = Len(r.files) /\ DOMAIN r.files = 1 .. n /\ n # 0
  BY ListParts, EmptyIs DEF IsRow
<1>2. PICK files, tracks : files = Files(r) /\ tracks = EffectiveTracks(r)
  OBVIOUS
<1>3. names = [i \in 1 .. n |-> names[i]] /\ \A i \in 1 .. n : names[i] = FileName(r, files[i], tracks[i])
  BY <1>1, <1>2 DEF IsPlaced, FileNames
<1>4. IsList(names) /\ Len(names) = n
  BY <1>3, ListOf
<1>5. names # <<>>
  BY <1>1, <1>4, EmptyIs
<1>6. \A i \in 1 .. n : IsList(names[i])
  <2>1. SUFFICES ASSUME NEW i \in 1 .. n PROVE IsList(names[i])
    OBVIOUS
  <2>2. PICK name, f, track : name = names[i] /\ f = files[i] /\ track = tracks[i]
    OBVIOUS
  <2>3. name = FileName(r, f, track)
    BY <1>3, <2>2
  <2> QED BY <2>2, <2>3, FileNameIs
<1> QED BY <1>1, <1>2, <1>3, <1>4, <1>5, <1>6 DEF Lengthy, IsPlaced

\* A book whose paths are short enough, in folders that are still names.
BookFits(m, bp) ==
  /\ \A i \in DOMAIN bp.moves : ChainLen(bp.moves[i].to) + 1 <= MaxPathLen
  /\ LET whole == BookDirSegments(m)
     IN \A i \in DOMAIN whole : Len(bp.dir[i]) >= Min({MinSegment, Len(whole[i])})

\* planBook plans no others.
LEMMA PlacedFits ==
  ASSUME NEW r, IsRow(r), IsMeta(r.meta), LibLists, NEW bp, NEW names, IsPlaced(r, bp, names)
  PROVE  BookFits(r.meta, bp)
<1>1. PICK whole : whole = BookDirSegments(r.meta)
  OBVIOUS
<1>2. PICK n \in Nat : n = Len(whole) /\ DOMAIN whole = 1 .. n /\ Lengthy(whole)
  BY <1>1, SegmentsAre, ListParts DEF Lengthy
<1>3. PICK budget \in Int : budget = Budget(names) /\ \A i \in DOMAIN names : Len(names[i]) <= MaxPathLen - 2 - budget
  BY NamesAre, BudgetIs
<1>4. CutFrom(whole, bp.dir, n)
  BY <1>1, <1>2, <1>3, FittedCuts DEF IsPlaced
<1>5. PICK dir, c : dir = bp.dir /\ c = ChainLen(dir)
  OBVIOUS
<1>6. Lengthy(dir)
  BY <1>4, <1>5 DEF CutFrom
<1>7. c \in Int /\ c <= budget
  <2>1. c \in Int
    BY <1>5, <1>6, ChainInt
  <2>2. ~(c > budget)
    BY <1>3, <1>5 DEF IsPlaced
  <2> QED BY <2>1, <2>2
<1>8. ASSUME NEW i \in DOMAIN bp.moves PROVE ChainLen(bp.moves[i].to) + 1 <= MaxPathLen
  <2>1. i \in DOMAIN r.files
    BY DEF IsPlaced, MovesInto
  <2>2. PICK name : name = names[i]
    OBVIOUS
  <2>3. bp.moves[i].to = Append(dir, name)
    BY <1>5, <2>1, <2>2 DEF IsPlaced, MovesInto
  <2>4. PICK l \in Nat : l = Len(name) /\ l <= MaxPathLen - 2 - budget
    <3>1. i \in DOMAIN names
      BY <2>1 DEF IsPlaced
    <3>2. Len(name) \in Nat
      BY <2>2, <3>1, NamesAre, ListParts DEF Lengthy
    <3> QED BY <1>3, <2>2, <3>1, <3>2
  <2>5. ChainLen(Append(dir, name)) = c + 1 + l
    BY <1>5, <1>6, <2>4, ChainAppend
  <2>6. c + 1 + l + 1 <= MaxPathLen
    BY <1>7, <2>4, BoundsAssumption
  <2> QED BY <2>3, <2>5, <2>6
<1> QED BY <1>1, <1>2, <1>4, <1>8 DEF BookFits, CutFrom

\* A book of the plan is as planBook has it, or does not move.
LEMMA DecideParts ==
  ASSUME NEW books, NEW pb, NEW bp, bp = Decide(books, pb)
  PROVE  bp = pb \/ (bp.skip # "" /\ bp.moves = <<>> /\ bp.id = pb.id)
<1>1. \A why : why # "" /\ bp = Skipped(pb, why) => bp.skip # "" /\ bp.moves = <<>> /\ bp.id = pb.id
  BY SkippedIs
<1>2. bp = pb \/ bp = Skipped(pb, "collides") \/ bp = Skipped(pb, "occupied")
  BY DEF Decide
<1> QED BY <1>1, <1>2

\* The plan of a book.
PlanOf(r, bp) == bp.id = r.id /\ (bp = PlanBook(r) \/ (bp.skip # "" /\ bp.moves = <<>>))

\* And is a book of the library.
LEMMA PlannedOf ==
  ASSUME RowsIn(runs, rows), NEW s \in Selections, NEW ps, ps = BuildPlan(s)
  PROVE  IsList(ps) /\ \A i \in DOMAIN ps : \E r \in rows : PlanOf(r, ps[i])
<1>1. ASSUME NEW r \in rows, NEW books, NEW bp, bp = Decide(books, PlanBook(Row(r.id)))
      PROVE  PlanOf(r, bp)
  <2>1. PICK pb, b : pb = PlanBook(r) /\ b = bp
    OBVIOUS
  <2>2. b = Decide(books, pb)
    BY <1>1, <2>1, RowIs
  <2>3. pb.id = r.id
    BY <2>1, PlanBookIs DEF RowsIn, PlannedBook
  <2>4. b = pb \/ (b.skip # "" /\ b.moves = <<>> /\ b.id = pb.id)
    BY <2>2, DecideParts
  <2>5. PlanOf(r, b)
    BY <2>1, <2>3, <2>4 DEF PlanOf
  <2> QED BY <2>1, <2>5
<1>2. CASE \E i \in Ids : s = <<i>>
  <2>1. PICK r \in rows : s = <<r.id>>
    BY <1>2 DEF Ids
  <2>2. PICK bp : bp = Decide(<<>>, PlanBook(Row(r.id)))
    OBVIOUS
  <2>3. PlanOf(r, bp)
    BY <1>1, <2>2
  <2>4. ps = <<bp>>
    BY <2>1, <2>2, PlanForOne
  <2>5. PICK one : one = <<bp>>
    OBVIOUS
  <2>6. IsList(one) /\ DOMAIN one = 1 .. 1 /\ one[1] = bp
    BY <2>5, Short
  <2> QED BY <2>3, <2>4, <2>5, <2>6
<1>3. CASE \E i, j \in Ids : s = <<i, j>>
  <2>1. PICK r \in rows, q \in rows : s = <<r.id, q.id>>
    BY <1>3 DEF Ids
  <2>2. PICK first, second : /\ BuildPlan(<<r.id, q.id>>) = <<first, second>>
                             /\ first = Decide(<<>>, PlanBook(Row(r.id)))
                             /\ second = Decide(<<first>>, PlanBook(Row(q.id)))
    BY PlanForTwo
  <2>3. PlanOf(r, first) /\ PlanOf(q, second)
    BY <1>1, <2>2
  <2>4. PICK two : two = <<first, second>>
    OBVIOUS
  <2>5. IsList(two) /\ DOMAIN two = 1 .. 2 /\ two[1] = first /\ two[2] = second
    BY <2>4, Short
  <2>6. \A i \in 1 .. 2 : i = 1 \/ i = 2
    OBVIOUS
  <2>7. ps = two
    BY <2>1, <2>2, <2>4
  <2> QED BY <2>3, <2>5, <2>6, <2>7
<1> QED BY <1>2, <1>3 DEF Selections

\* What an accepted book was matched with is still known.
Matches == \A r \in rows : r.state \in Accepted => r.meta \in world.metas

\* A scan keeps the match of a book that is accepted.
LEMMA ScanMatches ==
  ASSUME Matches, NEW s \in Scanned, s.state \in Accepted
  PROVE  s.meta \in world.metas
<1>1. PICK u : s = Upserted(u)
  BY DEF Scanned
<1>2. PICK known : known = {r \in rows : r.dir = u.dir}
  OBVIOUS
<1>3. PICK r : r = CHOOSE k \in known : TRUE
  OBVIOUS
<1>4. PICK kept \in BOOLEAN : kept <=> known # {} /\ r.state \in Accepted
  OBVIOUS
<1>5. s.state = (IF kept THEN r.state ELSE "unmatched") /\ s.meta = (IF kept THEN r.meta ELSE None)
  <2>1. PICK id, files : /\ id = (IF known = {} THEN <<runs, u.dir>> ELSE r.id) /\ files = FileRows(u)
    OBVIOUS
  <2>2. s = [id |-> id, dir |-> u.dir, layout |-> u.layout, state |-> IF kept THEN r.state ELSE "unmatched",
             meta |-> IF kept THEN r.meta ELSE None, files |-> files]
    BY <1>1, <1>2, <1>3, <1>4, <2>1 DEF Upserted
  <2> QED BY <2>2
<1>6. kept
  BY <1>5 DEF Accepted
<1>7. r \in rows
  BY <1>2, <1>3, <1>4, <1>6
<1> QED BY <1>4, <1>5, <1>6, <1>7 DEF Matches

\* And so does a run.
LEMMA RunMatches ==
  ASSUME Ready, Matches, NEW r \in rows, After(r).state \in Accepted
  PROVE  After(r).meta \in world.metas
<1>1. CASE ~(\E bp \in ToSet(Active(plan)) : bp.id = r.id)
  BY <1>1 DEF After, Matches
<1>2. CASE \E bp \in ToSet(Active(plan)) : bp.id = r.id
  <2>1. PICK b : b = CHOOSE bp \in ToSet(Active(plan)) : bp.id = r.id
    OBVIOUS
  <2>2. b \in ToSet(Active(plan)) /\ b.id = r.id /\ After(r) = Finalized(b)
    BY <1>2, <2>1 DEF After
  <2>3. PICK q \in rows : Runs(q, b)
    BY <2>2, ActivePlan DEF Ready
  <2>4. q = r /\ Row(b.id) = r /\ r.state \in Accepted
    <3>1. q.id = r.id /\ q.state \in Accepted
      BY <2>2, <2>3 DEF Runs, RunsFor, MovesFor
    <3>2. q = r
      BY <3>1 DEF Ready, RowsIn
    <3> QED BY <2>2, <3>1, <3>2, RowIs DEF Ready
  <2>5. PICK dir, files : /\ dir = b.dir
                          /\ files = [i \in DOMAIN b.moves |-> [rel |-> <<Last(b.moves[i].to)>>, track |-> Files(r)[i].track]]
    OBVIOUS
  <2>6. Finalized(b) = [r EXCEPT !.dir = dir, !.state = "organized", !.files = files]
    BY <2>4, <2>5 DEF Finalized
  <2>7. [r EXCEPT !.dir = dir, !.state = "organized", !.files = files].meta = r.meta
    <3>1. r = [id |-> r.id, dir |-> r.dir, layout |-> r.layout, state |-> r.state, meta |-> r.meta, files |-> r.files]
      BY DEF Ready, RowsIn, IsRow
    <3> QED BY <3>1
  <2> QED BY <2>2, <2>4, <2>6, <2>7 DEF Matches
<1> QED BY <1>1, <1>2

\* Every step keeps the matches.
LEMMA MatchesStep ==
  ASSUME IInv, Matches, [Next]_vars
  PROVE  Matches'
<1>1. ASSUME NEW l \in world.later, UpdateLibrary(l) PROVE Matches'
  BY <1>1 DEF UpdateLibrary, Matches
<1>2. CASE Scan
  <2>1. rows' = Scanned /\ world' = world
    BY <1>2 DEF Scan
  <2> QED BY <2>1, ScanMatches DEF Matches
<1>3. ASSUME NEW r \in rows, NEW m \in world.metas, SetBookMatch(r, m) PROVE Matches'
  <2>1. PICK q : q = [r EXCEPT !.state = "matched", !.meta = m]
    OBVIOUS
  <2>2. rows' = (rows \ {r}) \cup {q} /\ world' = world
    BY <1>3, <2>1 DEF SetBookMatch
  <2>3. q.meta = m
    <3>1. r = [id |-> r.id, dir |-> r.dir, layout |-> r.layout, state |-> r.state, meta |-> r.meta, files |-> r.files]
      BY DEF IInv, RowsIn, IsRow
    <3> QED BY <2>1, <3>1
  <2> QED BY <2>2, <2>3 DEF Matches
<1>4. ASSUME NEW s \in Selections, Preview(s) PROVE Matches'
  BY <1>4 DEF Preview, Matches
<1>5. CASE Execute
  <2>1. world' = world
    BY <1>5 DEF Execute
  <2>2. rows' = RanRows \/ rows' = rows
    BY <1>5 DEF Execute, RanRows, After
  <2>3. \A s \in RanRows : s.state \in Accepted => s.meta \in world.metas
    BY IsReady, RunMatches DEF RanRows
  <2> QED BY <2>1, <2>2, <2>3 DEF Matches
<1>6. CASE UNCHANGED vars
  BY <1>6 DEF vars, Matches
<1> QED BY <1>1, <1>2, <1>3, <1>4, <1>5, <1>6 DEF Next

\* An accepted book keeps what a user or the matcher accepted for it, through scans, runs
\* and new settings.
THEOREM MatchesKept == Spec => []Matches
<1>1. Init => Matches
  BY DEF Init, Matches
<1> QED BY <1>1, MatchesStep, Invariance, PTL DEF Spec

\* What is known of an accepted book and of the settings is text.
LEMMA BookMeta ==
  ASSUME IInv, Matches, NEW r \in rows, r.state \in Accepted
  PROVE  IsRow(r) /\ IsMeta(r.meta) /\ LibLists
<1>1. r.meta \in world.metas
  BY DEF Matches
<1>2. LibLists
  BY WorldsAssumption DEF IInv, LibLists
<1> QED BY <1>1, <1>2, WorldsAssumption DEF IInv, RowsIn

\* A plan fits when it is made.
LEMMA PreviewFits ==
  ASSUME IInv, Matches, NEW s \in Selections, NEW ps, ps = BuildPlan(s), NEW bp \in ToSet(Active(ps))
  PROVE  BookFits(Row(bp.id).meta, bp)
<1>1. RowsIn(runs, rows)
  BY DEF IInv
<1>2. PICK qs : qs = ps
  OBVIOUS
<1>3. IsList(qs) /\ \A i \in DOMAIN qs : \E r \in rows : PlanOf(r, qs[i])
  BY <1>1, <1>2, PlannedOf
<1>4. PICK i \in DOMAIN qs : bp = qs[i] /\ bp.skip = ""
  BY <1>2, <1>3, ActiveSet
<1>5. PICK r \in rows : PlanOf(r, bp)
  BY <1>3, <1>4
<1>6. bp = PlanBook(r) /\ Row(bp.id) = r
  BY <1>1, <1>4, <1>5, RowIs DEF PlanOf
<1>7. IsRow(r)
  BY <1>1 DEF RowsIn
<1>8. PICK names : IsPlaced(r, bp, names)
  BY <1>4, <1>6, <1>7, PlanBookParts
<1>9. r.state \in Accepted
  BY <1>8 DEF IsPlaced
<1>10. BookFits(r.meta, bp)
  BY <1>8, <1>9, BookMeta, PlacedFits
<1> QED BY <1>6, <1>10

\* Nothing is planned.
LEMMA NoneActive == ToSet(Active(<<>>)) = {}
<1>1. PICK e : e = <<>>
  OBVIOUS
<1>2. IsList(e) /\ Len(e) = 0
  BY <1>1, Short
<1>3. IsList(e) /\ DOMAIN e = {}
  BY <1>2, ListParts
<1>4. \A b : b \notin ToSet(Active(e))
  BY <1>3, ActiveSet
<1> QED BY <1>1, <1>4

\* No planned path is longer than the platform allows, and no folder is cut to less than
\* what is still a name, whatever the names, the templates and the lengths are.
THEOREM PathsAreShort == Spec => []PathsFit
<1>1. Init => PathsFit
  BY NoneActive DEF Init, PathsFit
<1>2. IInv /\ Matches /\ PathsFit /\ [Next]_vars => PathsFit'
  <2>1. SUFFICES ASSUME IInv, Matches, PathsFit, [Next]_vars PROVE PathsFit'
    OBVIOUS
  <2>2. CASE plan' = <<>>
    <3>1. ToSet(Active(plan')) = {}
      BY <2>2, NoneActive
    <3>2. ToSet(Active(plan))' = {}
      BY <3>1 DEF ToSet, Active, Filter
    <3> QED BY <3>2 DEF PathsFit
  <2>3. ASSUME NEW s \in Selections, Preview(s) PROVE PathsFit'
    <3>1. plan' = BuildPlan(s) /\ rows' = rows /\ lib' = lib
      BY <2>3 DEF Preview
    <3>2. \A bp \in ToSet(Active(plan')) : BookFits(Row(bp.id).meta, bp)
      BY <2>1, <3>1, PreviewFits
    <3>3. \A id : Row(id)' = Row(id)
      BY <3>1 DEF Row
    <3>4. \A m : BookDirSegments(m)' = BookDirSegments(m)
      BY <3>1 DEF BookDirSegments, AuthorFolderName
    <3>5. \A bp : BookFits(Row(bp.id).meta, bp)' <=> BookFits(Row(bp.id).meta, bp)
      BY <3>3, <3>4 DEF BookFits
    <3>6. (\A bp \in ToSet(Active(plan)) : BookFits(Row(bp.id).meta, bp))'
      BY <3>2, <3>5
    <3> QED BY <3>6 DEF PathsFit, BookFits, ToSet
  <2>4. CASE UNCHANGED vars
    <3>1. plan' = plan /\ rows' = rows /\ lib' = lib
      BY <2>4 DEF vars
    <3>2. \A id : Row(id)' = Row(id)
      BY <3>1 DEF Row
    <3>3. \A m : BookDirSegments(m)' = BookDirSegments(m)
      BY <3>1 DEF BookDirSegments, AuthorFolderName
    <3>4. \A bp : BookFits(Row(bp.id).meta, bp)' <=> BookFits(Row(bp.id).meta, bp)
      BY <3>2, <3>3 DEF BookFits
    <3>5. PathsFit <=> \A bp \in ToSet(Active(plan)) : BookFits(Row(bp.id).meta, bp)
      BY DEF PathsFit, BookFits, ToSet
    <3>6. PathsFit' <=> (\A bp \in ToSet(Active(plan)) : BookFits(Row(bp.id).meta, bp))'
      BY DEF PathsFit, BookFits, ToSet
    <3> QED BY <2>1, <3>1, <3>4, <3>5, <3>6
  <2>5. Next => plan' = <<>> \/ \E s \in Selections : Preview(s)
    BY DEF Next, UpdateLibrary, Scan, SetBookMatch, Execute
  <2> QED BY <2>1, <2>2, <2>3, <2>4, <2>5
<1> QED BY <1>1, <1>2, Invariance, MatchesKept, PTL DEF Spec

-----------------------------------------------------------------------------
(* Names without tokens. *)

\* Names of a plan, and names of files.
PlanText(ps) ==
  \A p \in DOMAIN ps : \A i \in DOMAIN ps[p].moves :
    IsText(Last(ps[p].moves[i].to)) /\ Last(ps[p].moves[i].to) # <<>>
TreeText(t) == \A f \in t : Ext(f.path) # "{"
Texts == ValidSettings(lib) /\ TreeText(tree) /\ PlanText(plan)

\* The end of a text.
LEMMA LastText ==
  ASSUME NEW s, IsText(s), s # <<>>
  PROVE  Last(s) # "{"
<1>1. PICK n \in Nat : n = Len(s) /\ DOMAIN s = 1 .. n /\ n # 0
  BY ListParts, EmptyIs DEF IsText
<1>2. n \in 1 .. n
  BY <1>1
<1>3. s[n] \in Range(s)
  BY <1>1, <1>2 DEF Range
<1> QED BY <1>1, <1>3 DEF IsText, Last

\* A book is planned to names without tokens.
LEMMA PlacedText ==
  ASSUME SaneText, TrackText, IInv, Matches, Texts, NEW r \in rows, NEW bp, NEW names, IsPlaced(r, bp, names),
         NEW i \in DOMAIN bp.moves
  PROVE  IsText(Last(bp.moves[i].to)) /\ Last(bp.moves[i].to) # <<>>
<1>1. IsRow(r) /\ IsMeta(r.meta) /\ LibLists
  BY BookMeta DEF IsPlaced
<1>2. i \in DOMAIN r.files /\ Last(bp.moves[i].to) = names[i]
  BY DEF IsPlaced, MovesInto
<1>3. PICK track : names[i] = FileName(r, Files(r)[i], track)
  BY <1>1, <1>2, NamesAre
<1>4. PICK f : f = Files(r)[i]
  OBVIOUS
<1>5. Ext(f.rel) # "{"
  <2>1. PICK k \in DOMAIN r.files : f = r.files[k]
    BY <1>1, <1>2, <1>4, NamedIs
  <2>2. PICK g \in tree : Filed(world.exact, r, k, g.path)
    BY DEF IInv, Fits
  <2>3. Ext(g.path) = Ext(f.rel)
    BY <2>1, <2>2 DEF Filed, Ext
  <2> QED BY <2>3 DEF Texts, TreeText
<1>6. PICK name : name = FileName(r, f, track)
  OBVIOUS
<1>7. IsText(name) /\ name # <<>>
  BY <1>1, <1>5, <1>6, FileNameIs DEF Texts
<1> QED BY <1>2, <1>3, <1>4, <1>6, <1>7

\* And so is every book of a plan.
LEMMA PreviewText ==
  ASSUME SaneText, TrackText, IInv, Matches, Texts, NEW s \in Selections, NEW ps, ps = BuildPlan(s)
  PROVE  PlanText(ps)
<1>1. RowsIn(runs, rows)
  BY DEF IInv
<1>2. PICK qs : qs = ps
  OBVIOUS
<1>3. IsList(qs) /\ \A p \in DOMAIN qs : \E r \in rows : PlanOf(r, qs[p])
  BY <1>1, <1>2, PlannedOf
<1>4. SUFFICES ASSUME NEW p \in DOMAIN qs, NEW i \in DOMAIN qs[p].moves
               PROVE  IsText(Last(qs[p].moves[i].to)) /\ Last(qs[p].moves[i].to) # <<>>
  BY <1>2 DEF PlanText
<1>5. PICK bp : bp = qs[p]
  OBVIOUS
<1>6. PICK r \in rows : PlanOf(r, bp)
  BY <1>3, <1>5
<1>7. bp.moves # <<>>
  <2>1. DOMAIN <<>> = {}
    OBVIOUS
  <2> QED BY <1>4, <1>5, <2>1
<1>8. bp = PlanBook(r) /\ IsRow(r)
  BY <1>1, <1>6, <1>7 DEF PlanOf, RowsIn
<1>9. PICK names : IsPlaced(r, bp, names)
  BY <1>7, <1>8, PlanBookParts
<1>10. IsText(Last(bp.moves[i].to)) /\ Last(bp.moves[i].to) # <<>>
  BY <1>4, <1>5, <1>9, PlacedText
<1> QED BY <1>5, <1>10

\* The files keep names without a brace at the end.
LEMMA MovedText ==
  ASSUME IInv, Texts, MovesDone, NEW g \in Moved
  PROVE  Ext(g.path) # "{"
<1>1. Ready
  BY IsReady
<1>2. PICK S : S = Steps(Active(plan))
  OBVIOUS
<1>3. PICK f \in tree : Became(S, Len(S), f, g)
  BY <1>1, <1>2, MovedTrace DEF Trace
<1>4. CASE \A j \in 1 .. Len(S) : Key(S[j].from) # Key(f.path)
  BY <1>3, <1>4 DEF Became, Texts, TreeText
<1>5. CASE \E j \in 1 .. Len(S) : Key(S[j].from) = Key(f.path)
  <2>1. PICK j \in 1 .. Len(S) : Key(S[j].from) = Key(f.path)
    BY <1>5
  <2>2. Last(g.path) = Last(S[j].to)
    BY <1>3, <2>1 DEF Became
  <2>3. j \in DOMAIN S
    BY <1>1, <1>2, PlanSteps, ListParts DEF Ready
  <2>4. PICK r \in rows, b \in ToSet(Active(plan)) : \E i \in DOMAIN r.files : IsStep(r, b, i, S[j])
    BY <1>1, <1>2, <2>3, StepIs
  <2>5. PICK i \in DOMAIN r.files : IsStep(r, b, i, S[j])
    BY <2>4
  <2>6. PICK p \in DOMAIN plan : b = plan[p]
    BY <2>4, ActiveSet DEF IInv, PlanIn
  <2>7. i \in DOMAIN b.moves /\ S[j] = b.moves[i]
    BY <2>5 DEF IsStep, Runs, RunsFor, MovesFor
  <2>8. IsText(Last(S[j].to)) /\ Last(S[j].to) # <<>>
    BY <2>6, <2>7 DEF Texts, PlanText
  <2> QED BY <2>2, <2>8, LastText DEF Ext
<1> QED BY <1>4, <1>5

\* A run that succeeds, and one that fails.
LEMMA ExecuteText ==
  ASSUME IInv, Texts, Execute
  PROVE  TreeText(tree')
<1>1. CASE Succeeds
  <2>1. tree' = RanTree
    BY <1>1 DEF Execute, RanTree
  <2>2. MovesDone
    BY <1>1 DEF Succeeds
  <2>3. \A t \in RanTree : \E g \in Moved : t.path = g.path
    BY <2>2, IsReady, RanTreeIs
  <2> QED BY <2>1, <2>2, <2>3, MovedText DEF TreeText, Ext
<1>2. CASE ~Succeeds
  <2>1. CASE Active(plan) = <<>> \/ ~MovesDone
    BY <1>2, <2>1 DEF Execute, Texts
  <2>2. CASE ~(Active(plan) = <<>> \/ ~MovesDone)
    <3>1. PICK f \in Spoilt : tree' = With(f)
      BY <1>2, <2>2 DEF Execute, With
    <3>2. PICK e \in tree : f.path = e.path
      <4>1. PICK p \in tree \X Moved : f = [p[1] EXCEPT !.parts = TagWrite(p[2]).parts]
        BY DEF Spoilt
      <4>2. PICK e, w : e = p[1] /\ w = TagWrite(p[2]).parts /\ e \in tree
        BY <4>1
      <4>3. e = [id |-> e.id, path |-> e.path, parts |-> e.parts]
        BY <4>2 DEF IInv, TreeIn
      <4>4. [e EXCEPT !.parts = w].path = e.path
        BY <4>3
      <4> QED BY <4>1, <4>2, <4>4
    <3>3. \A t \in With(f) : \E d \in tree : t.path = d.path
      BY <3>2 DEF With
    <3> QED BY <3>1, <3>3 DEF Texts, TreeText, Ext
  <2> QED BY <2>1, <2>2
<1> QED BY <1>1, <1>2

\* No plan has no names.
LEMMA NoText == PlanText(<<>>)
<1>1. DOMAIN <<>> = {}
  OBVIOUS
<1> QED BY <1>1 DEF PlanText

\* Every step keeps the names free of tokens.
LEMMA TextsStep ==
  ASSUME SaneText, TrackText, IInv, Matches, Texts, [Next]_vars
  PROVE  Texts'
<1>1. ASSUME NEW l \in world.later, UpdateLibrary(l) PROVE Texts'
  BY <1>1 DEF UpdateLibrary, Texts, ValidSettings
<1>2. CASE Scan
  BY <1>2 DEF Scan, Texts, ValidSettings
<1>3. ASSUME NEW r \in rows, NEW m \in world.metas, SetBookMatch(r, m) PROVE Texts'
  BY <1>3 DEF SetBookMatch, Texts, ValidSettings
<1>4. ASSUME NEW s \in Selections, Preview(s) PROVE Texts'
  <2>1. plan' = BuildPlan(s) /\ lib' = lib /\ tree' = tree
    BY <1>4 DEF Preview
  <2>2. PlanText(BuildPlan(s))
    BY PreviewText
  <2> QED BY <2>1, <2>2 DEF Texts, ValidSettings
<1>5. CASE Execute
  <2>1. plan' = <<>> /\ lib' = lib
    BY <1>5 DEF Execute
  <2>2. TreeText(tree')
    BY <1>5, ExecuteText
  <2> QED BY <2>1, <2>2, NoText DEF Texts, ValidSettings
<1>6. CASE UNCHANGED vars
  BY <1>6 DEF vars, Texts, ValidSettings
<1> QED BY <1>1, <1>2, <1>3, <1>4, <1>5, <1>6 DEF Next

\* A template that a library's settings accept leaves no token in the name of a file, at any
\* depth of groups, if no piece of text becomes a brace when it is made safe for a path.
THEOREM TemplatesRendered ==
  ASSUME SaneText, TrackText
  PROVE  Spec => []TemplatesRender
<1>1. Init => Texts
  <2>1. SUFFICES ASSUME Init PROVE Texts
    OBVIOUS
  <2>2. ValidSettings(lib) /\ tree = world.tree /\ plan = <<>> /\ world \in Worlds
    BY <2>1 DEF Init
  <2>3. TreeText(tree)
    BY <2>2, WorldsAssumption DEF IsFile, TreeText
  <2> QED BY <2>2, <2>3, NoText DEF Texts
<1>2. IInv /\ Matches /\ Texts /\ [Next]_vars => Texts'
  BY TextsStep
<1>3. Texts => TemplatesRender
  <2>1. SUFFICES ASSUME Texts, NEW bp \in ToSet(plan), NEW m \in ToSet(bp.moves) PROVE "{" \notin ToSet(Last(m.to))
    BY DEF TemplatesRender
  <2>2. PICK p \in DOMAIN plan : bp = plan[p]
    BY DEF ToSet
  <2>3. PICK i \in DOMAIN bp.moves : m = bp.moves[i]
    BY DEF ToSet
  <2>4. IsText(Last(m.to))
    BY <2>1, <2>2, <2>3 DEF Texts, PlanText
  <2> QED BY <2>4 DEF IsText, Range, ToSet
<1> QED BY <1>1, <1>2, <1>3, Invariance, MatchesKept, PTL DEF Spec

-----------------------------------------------------------------------------
(* Books that a scan finds again. *)

\* The files of a book are all in its folder, or on discs in it, more than one.
Shaped(files) ==
  \/ \A i \in DOMAIN files : Len(files[i].rel) = 1
  \/ /\ \A i \in DOMAIN files : Len(files[i].rel) = 2 /\ IsDisc(<<files[i].rel[1]>>)
     /\ \E i, j \in DOMAIN files : files[i].rel[1] # files[j].rel[1]
Shapes == \A r \in rows : Shaped(r.files)

\* A scan finds books of these two shapes.
LEMMA ScannedShape ==
  ASSUME TreeIn(world.exact, tree), runs \in Nat, RowsIn(runs, rows), NEW u \in ToSet(Group(Walk))
  PROVE  Shaped(Upserted(u).files)
<1>1. IsWalk(Walk)
  BY WalkIs
<1>2. PICK p : p = u.dir
  OBVIOUS
<1>3. p \in Dirs(Walk) /\ IsUnit(u, Share(Walk, p))
  BY <1>1, <1>2, GroupUnits
<1>4. PICK r : r = Upserted(u)
  OBVIOUS
<1>5. /\ IsRow(r) /\ r.dir = p /\ DOMAIN r.files = DOMAIN u.files
      /\ \A i \in DOMAIN u.files : PathOf(r, i) = u.files[i].file.path
  BY <1>2, <1>4, ScannedBook
<1>6. \A i \in DOMAIN u.files : u.files[i].file \in Share(Walk, p) /\ u.files[i].file \in Walk
  BY <1>1, <1>3, SharesCover DEF IsUnit
<1>7. /\ IsList(p)
      /\ \A i \in DOMAIN u.files : LET rel == r.files[i].rel
                                       path == u.files[i].file.path
                                   IN IsList(rel) /\ path = p \o rel /\ IsList(path) /\ path # <<>> /\ Len(path) - Len(p) = Len(rel)
  <2>1. IsList(p) /\ \A i \in DOMAIN u.files : IsList(r.files[i].rel) /\ u.files[i].file.path = p \o r.files[i].rel
    BY <1>5 DEF IsRow, PathOf
  <2>2. \A i \in DOMAIN u.files : IsList(u.files[i].file.path) /\ u.files[i].file.path # <<>>
    BY <1>1, <1>6 DEF IsWalk
  <2>3. \A rel : IsList(rel) => Len(p \o rel) - Len(p) = Len(rel)
    <3>1. SUFFICES ASSUME NEW rel, IsList(rel) PROVE Len(p \o rel) - Len(p) = Len(rel)
      OBVIOUS
    <3>2. Len(p \o rel) = Len(p) + Len(rel) /\ Len(p) \in Nat /\ Len(rel) \in Nat
      BY <2>1, <3>1, ListConcat, ListParts
    <3> QED BY <3>2
  <2> QED BY <2>1, <2>2, <2>3
<1>8. CASE p \in Folders(Walk)
  <2>1. ASSUME NEW i \in DOMAIN u.files PROVE Len(r.files[i].rel) = 1
    <3>1. PICK path : path = u.files[i].file.path
      OBVIOUS
    <3>2. Front(path) = p /\ IsList(path) /\ path # <<>>
      BY <1>6, <1>7, <1>8, <3>1 DEF Share, Inside
    <3>3. Len(path) - Len(p) = 1
      BY <3>2, Above
    <3> QED BY <1>7, <3>1, <3>3
  <2> QED BY <1>4, <1>5, <2>1 DEF Shaped
<1>9. CASE p \notin Folders(Walk)
  <2>1. p \in DiscParents(Walk)
    BY <1>3, <1>9 DEF Dirs
  <2>2. ASSUME NEW i \in DOMAIN u.files
        PROVE  /\ Len(r.files[i].rel) = 2 /\ IsDisc(<<r.files[i].rel[1]>>)
               /\ Front(u.files[i].file.path) = Append(p, r.files[i].rel[1])
    <3>1. PICK path, rel, d : path = u.files[i].file.path /\ rel = r.files[i].rel /\ d = Front(path)
      OBVIOUS
    <3>2. d \in Kids(Walk, p)
      BY <1>6, <1>9, <3>1 DEF Share, OnDiscs
    <3>3. d \in Folders(Walk) /\ d # <<>> /\ Front(d) = p /\ IsDisc(d)
      BY <2>1, <3>2 DEF Kids, DiscParents
    <3>4. IsList(d) /\ d # p
      BY <1>1, <1>9, <3>3, FoldersFinite
    <3>5. Len(rel) \in {1, 2} /\ Len(rel) # 1
      <4>1. /\ IsList(path) /\ path # <<>> /\ Len(path) - Len(p) = Len(rel)
        BY <1>7, <3>1
      <4>2. Len(path) - Len(p) \in {1, 2} /\ (Front(path) = p <=> Len(path) - Len(p) = 1)
        BY <3>1, <3>3, <3>4, <4>1, Above
      <4> QED BY <3>1, <3>4, <4>1, <4>2
    <3>6. Front(p \o rel) = Append(p, rel[1]) /\ Last(Front(p \o rel)) = rel[1]
      BY <1>7, <3>1, <3>5, FrontIs
    <3>7. d = Append(p, rel[1]) /\ Last(d) = rel[1]
      BY <1>7, <3>1, <3>6
    <3>8. IsDisc(<<rel[1]>>)
      BY <3>3, <3>7, DiscName
    <3> QED BY <3>1, <3>5, <3>7, <3>8
  <2>3. IsFiniteSet(Kids(Walk, p)) /\ Kids(Walk, p) \subseteq Folders(Walk)
    <3>1. Kids(Walk, p) \subseteq Folders(Walk)
      BY DEF Kids
    <3> QED BY <1>1, <3>1, FoldersFinite, FS_Subset
  <2>4. PICK d \in Kids(Walk, p), e \in Kids(Walk, p) : d # e
    <3>1. Cardinality(Kids(Walk, p)) >= 2
      BY <2>1 DEF DiscParents
    <3> QED BY <2>3, <3>1, TwoAtLeast
  <2>5. ASSUME NEW k \in Kids(Walk, p) PROVE \E i \in DOMAIN u.files : Append(p, r.files[i].rel[1]) = k
    <3>1. PICK f \in Inside(Walk, k) : TRUE
      BY <1>1, <2>3, FoldersFinite
    <3>2. f \in Share(Walk, p) /\ Front(f.path) = k
      BY <1>9 DEF Inside, Share, OnDiscs
    <3>3. PICK i \in DOMAIN u.files : u.files[i].file = f
      BY <1>3, <3>2 DEF IsUnit
    <3> QED BY <2>2, <3>2, <3>3
  <2>6. PICK i \in DOMAIN u.files : Append(p, r.files[i].rel[1]) = d
    BY <2>5
  <2>7. PICK j \in DOMAIN u.files : Append(p, r.files[j].rel[1]) = e
    BY <2>5
  <2>8. r.files[i].rel[1] # r.files[j].rel[1]
    BY <2>4, <2>6, <2>7
  <2>9. \A k \in DOMAIN r.files : Len(r.files[k].rel) = 2 /\ IsDisc(<<r.files[k].rel[1]>>)
    BY <1>5, <2>2
  <2> QED BY <1>4, <1>5, <2>8, <2>9 DEF Shaped
<1> QED BY <1>8, <1>9

\* A run gives a book one folder.
LEMMA RunShape ==
  ASSUME Ready, Shapes, NEW r \in rows
  PROVE  Shaped(After(r).files)
<1>1. CASE ~(\E bp \in ToSet(Active(plan)) : bp.id = r.id)
  BY <1>1 DEF After, Shapes
<1>2. CASE \E bp \in ToSet(Active(plan)) : bp.id = r.id
  <2>1. PICK b : b = CHOOSE bp \in ToSet(Active(plan)) : bp.id = r.id
    OBVIOUS
  <2>2. b \in ToSet(Active(plan)) /\ b.id = r.id /\ After(r) = Finalized(b)
    BY <1>2, <2>1 DEF After
  <2>3. PICK q \in rows : Runs(q, b)
    BY <2>2, ActivePlan DEF Ready
  <2>4. Row(b.id) = r /\ r.state \in Accepted
    <3>1. q.id = r.id /\ q.state \in Accepted
      BY <2>2, <2>3 DEF Runs, RunsFor, MovesFor
    <3>2. q = r
      BY <3>1 DEF Ready, RowsIn
    <3> QED BY <2>2, <3>1, <3>2, RowIs DEF Ready
  <2>5. PICK dir, files : /\ dir = b.dir
                          /\ files = [i \in DOMAIN b.moves |-> [rel |-> <<Last(b.moves[i].to)>>, track |-> Files(r)[i].track]]
    OBVIOUS
  <2>6. Finalized(b) = [r EXCEPT !.dir = dir, !.state = "organized", !.files = files]
    BY <2>4, <2>5 DEF Finalized
  <2>7. [r EXCEPT !.dir = dir, !.state = "organized", !.files = files].files = files
    <3>1. r = [id |-> r.id, dir |-> r.dir, layout |-> r.layout, state |-> r.state, meta |-> r.meta, files |-> r.files]
      BY DEF Ready, RowsIn, IsRow
    <3> QED BY <3>1
  <2>8. \A i \in DOMAIN files : Len(files[i].rel) = 1
    BY <2>5
  <2> QED BY <2>2, <2>6, <2>7, <2>8 DEF Shaped
<1> QED BY <1>1, <1>2

\* Every step keeps the shapes.
LEMMA ShapesStep ==
  ASSUME IInv, Shapes, [Next]_vars
  PROVE  Shapes'
<1>1. ASSUME NEW l \in world.later, UpdateLibrary(l) PROVE Shapes'
  BY <1>1 DEF UpdateLibrary, Shapes
<1>2. CASE Scan
  <2>1. rows' = Scanned
    BY <1>2 DEF Scan
  <2>2. ASSUME NEW s \in Scanned PROVE Shaped(s.files)
    <3>1. PICK u \in ToSet(Group(Walk)) : s = Upserted(u)
      BY DEF Scanned, Walk
    <3> QED BY <3>1, ScannedShape DEF IInv
  <2> QED BY <2>1, <2>2 DEF Shapes
<1>3. ASSUME NEW r \in rows, NEW m \in world.metas, SetBookMatch(r, m) PROVE Shapes'
  <2>1. PICK q : q = [r EXCEPT !.state = "matched", !.meta = m]
    OBVIOUS
  <2>2. rows' = (rows \ {r}) \cup {q}
    BY <1>3, <2>1 DEF SetBookMatch
  <2>3. q.files = r.files
    <3>1. r = [id |-> r.id, dir |-> r.dir, layout |-> r.layout, state |-> r.state, meta |-> r.meta, files |-> r.files]
      BY DEF IInv, RowsIn, IsRow
    <3> QED BY <2>1, <3>1
  <2> QED BY <2>2, <2>3 DEF Shapes
<1>4. ASSUME NEW s \in Selections, Preview(s) PROVE Shapes'
  BY <1>4 DEF Preview, Shapes
<1>5. CASE Execute
  <2>1. rows' = RanRows \/ rows' = rows
    BY <1>5 DEF Execute, RanRows, After
  <2>2. \A s \in RanRows : Shaped(s.files)
    BY IsReady, RunShape DEF RanRows
  <2> QED BY <2>1, <2>2 DEF Shapes
<1>6. CASE UNCHANGED vars
  BY <1>6 DEF vars, Shapes
<1> QED BY <1>1, <1>2, <1>3, <1>4, <1>5, <1>6 DEF Next

\* A book whose folder is that of a unit keeps its row.
LEMMA KeptBook ==
  ASSUME IInv, NEW r \in rows, r.dir \in Dirs(Walk)
  PROVE  Kept(r)
<1>1. IsWalk(Walk)
  BY WalkIs DEF IInv
<1>2. PICK u \in ToSet(Group(Walk)) : u.dir = r.dir
  BY <1>1, GroupUnits
<1>3. Upserted(u) \in Scanned
  BY DEF Scanned, Walk
<1>4. \/ \A k \in rows : k.dir # u.dir
      \/ \E k \in rows : k.dir = u.dir /\ Upserted(u).id = k.id
  BY ScannedBook DEF IInv
<1>5. PICK k \in rows : k.dir = u.dir /\ Upserted(u).id = k.id
  BY <1>2, <1>4
<1>6. k = r
  BY <1>2, <1>5 DEF IInv, RowsIn
<1> QED BY <1>3, <1>5, <1>6 DEF Kept

\* A book in one folder, found there, is a unit unless it is taken for a disc.
LEMMA FlatKept ==
  ASSUME IInv, NEW r \in rows, Recorded(r), ~IsDisc(r.dir), \A i \in DOMAIN r.files : Len(r.files[i].rel) = 1
  PROVE  r.dir \in Dirs(Walk)
<1>1. IsWalk(Walk) /\ \A f \in tree : \E w \in Walk : w.path = f.path
  BY WalkIs DEF IInv
<1>2. IsRow(r)
  BY DEF IInv, RowsIn
<1>3. PICK i \in DOMAIN r.files : TRUE
  <2>1. DOMAIN r.files = 1 .. Len(r.files) /\ Len(r.files) \in Nat /\ Len(r.files) # 0
    BY <1>2, ListParts, EmptyIs DEF IsRow
  <2>2. 1 \in DOMAIN r.files
    BY <2>1
  <2> QED BY <2>2
<1>4. PICK g \in tree : g.path = r.dir \o r.files[i].rel
  BY DEF Recorded, ToSet
<1>5. Front(g.path) = r.dir
  BY <1>2, <1>4, FrontIs DEF IsRow
<1>6. r.dir \in Folders(Walk)
  BY <1>1, <1>5 DEF Folders
<1>7. \A k \in Merged(Walk) : IsDisc(k)
  BY DEF Merged, DiscParents
<1> QED BY <1>6, <1>7 DEF Dirs

\* A book on discs that has its folder to itself is found there again.
LEMMA DiscsKept ==
  ASSUME IInv, NEW r \in rows, Recorded(r), Alone(r),
         \A i \in DOMAIN r.files : Len(r.files[i].rel) = 2 /\ IsDisc(<<r.files[i].rel[1]>>),
         \E i, j \in DOMAIN r.files : r.files[i].rel[1] # r.files[j].rel[1]
  PROVE  r.dir \in Dirs(Walk)
<1>1. /\ IsWalk(Walk) /\ (\A f \in tree : \E w \in Walk : w.path = f.path)
      /\ \A w \in Walk : \E f \in tree : f.path = w.path
  BY WalkIs DEF IInv
<1>2. IsRow(r)
  BY DEF IInv, RowsIn
<1>3. PICK p : p = r.dir
  OBVIOUS
<1>4. ASSUME NEW i \in DOMAIN r.files
      PROVE  LET rel == r.files[i].rel
                 up == Front(p \o rel)
             IN up = Append(p, rel[1]) /\ up # <<>> /\ up # p /\ Front(up) = p /\ Last(up) = rel[1] /\ IsDisc(up)
  <2>1. PICK rel : rel = r.files[i].rel
    OBVIOUS
  <2>2. IsList(rel) /\ IsList(p) /\ Len(rel) = 2 /\ IsDisc(<<rel[1]>>)
    BY <1>2, <1>3, <2>1 DEF IsRow
  <2>3. PICK up : up = Front(p \o rel)
    OBVIOUS
  <2>4. up = Append(p, rel[1]) /\ up # <<>> /\ up # p /\ Front(up) = p /\ Last(up) = rel[1]
    BY <2>2, <2>3, FrontIs
  <2>5. IsDisc(up)
    BY <2>2, <2>4, DiscName
  <2> QED BY <2>1, <2>3, <2>4, <2>5
<1>5. ASSUME NEW i \in DOMAIN r.files PROVE Append(p, r.files[i].rel[1]) \in Kids(Walk, p)
  <2>1. PICK g \in tree : g.path = p \o r.files[i].rel
    BY <1>3 DEF Recorded, ToSet
  <2>2. Front(g.path) \in Folders(Walk)
    BY <1>1 DEF Folders
  <2> QED BY <1>4, <2>1, <2>2 DEF Kids
<1>6. ASSUME NEW g \in tree, p \in {Front(g.path), Front(Front(g.path))}
      PROVE  \E i \in DOMAIN r.files : g.path = p \o r.files[i].rel
  BY <1>3, <1>6 DEF Alone, ToSet
<1>7. p \notin Folders(Walk)
  <2>1. SUFFICES ASSUME p \in Folders(Walk) PROVE FALSE
    OBVIOUS
  <2>2. PICK g \in tree : Front(g.path) = p
    BY <1>1, <2>1 DEF Folders
  <2>3. PICK i \in DOMAIN r.files : g.path = p \o r.files[i].rel
    BY <1>6, <2>2
  <2> QED BY <1>4, <2>2, <2>3
<1>8. ASSUME NEW k \in Kids(Walk, p) PROVE IsDisc(k)
  <2>1. k \in Folders(Walk) /\ Front(k) = p
    BY DEF Kids
  <2>2. PICK g \in tree : Front(g.path) = k
    BY <1>1, <2>1 DEF Folders
  <2>3. PICK i \in DOMAIN r.files : g.path = p \o r.files[i].rel
    BY <1>6, <2>1, <2>2
  <2> QED BY <1>4, <2>2, <2>3
<1>9. IsFiniteSet(Kids(Walk, p))
  <2>1. Kids(Walk, p) \subseteq Folders(Walk)
    BY DEF Kids
  <2> QED BY <1>1, <2>1, FoldersFinite, FS_Subset
<1>10. PICK i \in DOMAIN r.files, j \in DOMAIN r.files : r.files[i].rel[1] # r.files[j].rel[1]
  OBVIOUS
<1>11. Append(p, r.files[i].rel[1]) # Append(p, r.files[j].rel[1])
  <2>1. PICK a, b : a = r.files[i].rel[1] /\ b = r.files[j].rel[1]
    OBVIOUS
  <2>2. Last(Append(p, a)) = a /\ Last(Append(p, b)) = b
    BY <1>4, <2>1
  <2> QED BY <1>10, <2>1, <2>2
<1>12. Cardinality(Kids(Walk, p)) >= 2
  BY <1>5, <1>9, <1>11, TwoAtLeast
<1>13. p \in {Front(d) : d \in Folders(Walk) \ {<<>>}}
  BY <1>5 DEF Kids
<1>14. p \in DiscParents(Walk)
  BY <1>7, <1>8, <1>12, <1>13 DEF DiscParents
<1> QED BY <1>3, <1>14 DEF Dirs

\* A scan finds an accepted book again, with the row that has its match, as long as its files
\* are where the row says, its folder is not taken for a disc, and it is a book of one
\* folder or has its folder to itself; whatever else is in the library.
THEOREM BooksAreKept == Spec => []ScanKeepsBooks
<1>1. Init => Shapes
  BY DEF Init, Shapes
<1>2. IInv /\ Shapes => ScanKeepsBooks
  <2>1. SUFFICES ASSUME IInv, Shapes, NEW r \in rows, Recorded(r), ~IsDisc(r.dir), Flat(r) \/ Alone(r)
                 PROVE  Kept(r)
    BY DEF ScanKeepsBooks
  <2>2. Shaped(r.files)
    BY <2>1 DEF Shapes
  <2>3. CASE \A i \in DOMAIN r.files : Len(r.files[i].rel) = 1
    BY <2>1, <2>3, FlatKept, KeptBook
  <2>4. CASE ~ \A i \in DOMAIN r.files : Len(r.files[i].rel) = 1
    <3>1. Alone(r)
      BY <2>1, <2>4 DEF Flat, ToSet
    <3>2. r.dir \in Dirs(Walk)
      BY <2>1, <2>2, <2>4, <3>1, DiscsKept DEF Shaped
    <3> QED BY <2>1, <3>2, KeptBook
  <2> QED BY <2>3, <2>4
<1> QED BY <1>1, <1>2, ShapesStep, Invariance, PTL DEF Spec

-----------------------------------------------------------------------------
(* What a run does to audio. *)

\* A planned book keeps the extensions of its files, and tags only what can be.
MovesKeepExt(bp) == \A i \in DOMAIN bp.moves : Ext(bp.moves[i].to) = Ext(bp.moves[i].from)
TagsOwn(r, tags) == \A f \in tags : f \in ToSet(r.files) /\ Writable(Ext(f.rel))
Tagging(rs, bp) == bp.skip = "" => MovesKeepExt(bp) /\ \E r \in rs : r.id = bp.id /\ TagsOwn(r, bp.tags)
AudioPlan1(rs, ps) == \A p \in DOMAIN ps : Tagging(rs, ps[p])
AudioTree(t) == \A f \in t : IsAudio(Ext(f.path), f.parts)
Audio == AudioTree(tree) /\ AudioPlan1(rows, plan)

\* A skipped book lists no tags.
LEMMA SkippedTags ==
  ASSUME NEW r, NEW why
  PROVE  TagsOwn(r, Skipped(r, why).tags)
<1>1. PICK b : b = [id |-> r.id, skip |-> why, dir |-> <<>>, moves |-> <<>>, tags |-> {}]
  OBVIOUS
<1>2. b.tags = {}
  BY <1>1
<1>3. TagsOwn(r, b.tags)
  BY <1>2 DEF TagsOwn
<1> QED BY <1>1, <1>3 DEF Skipped

\* The tags a plan lists are of files of the book that can be written.
LEMMA PlanBookTags ==
  ASSUME NEW r, NEW bp, bp = PlanBook(r), bp.skip = ""
  PROVE  TagsOwn(r, bp.tags)
<1>1. \A why : bp = Skipped(r, why) => TagsOwn(r, bp.tags)
  BY SkippedTags
<1>2. \A moves, dir : bp = PlanMoves(r, dir, moves) => TagsOwn(r, bp.tags)
  <2>1. SUFFICES ASSUME NEW moves, NEW dir, bp = PlanMoves(r, dir, moves), ~\E m \in ToSet(moves) : Blocked(m)
                 PROVE  TagsOwn(r, bp.tags)
    BY <1>1 DEF PlanMoves
  <2>2. PICK tags : tags = IF lib.writeTags THEN CheckBookTags(r) ELSE {}
    OBVIOUS
  <2>3. PICK b : b = [id |-> r.id, skip |-> "", dir |-> dir, moves |-> moves, tags |-> tags]
    OBVIOUS
  <2>4. b.tags = tags
    BY <2>3
  <2>5. bp = b
    BY <2>1, <2>2, <2>3 DEF PlanMoves
  <2>6. TagsOwn(r, tags)
    BY <2>2 DEF TagsOwn, CheckBookTags
  <2>7. bp.tags = tags
    BY <2>4, <2>5
  <2> QED BY <2>6, <2>7
<1>3. \A names, budget, dir : bp = PlanDir(r, names, budget, dir) => TagsOwn(r, bp.tags)
  BY <1>1, <1>2 DEF PlanDir
<1> QED BY <1>1, <1>3 DEF PlanBook, PlanNames

\* The extension of a file of a book, wherever the book's folder is.
LEMMA ExtBelow ==
  ASSUME NEW dir, IsList(dir), NEW rel, IsList(rel), rel # <<>>
  PROVE  Ext(dir \o rel) = Ext(rel)
  BY LastBelow DEF Ext

\* A book is planned to names with the extensions of its files.
LEMMA PlacedExt ==
  ASSUME IInv, Matches, NEW r \in rows, NEW bp, NEW names, IsPlaced(r, bp, names)
  PROVE  MovesKeepExt(bp)
<1>1. IsRow(r) /\ IsMeta(r.meta) /\ LibLists
  BY BookMeta DEF IsPlaced
<1>2. ASSUME NEW i \in DOMAIN bp.moves PROVE Ext(bp.moves[i].to) = Ext(bp.moves[i].from)
  <2>1. i \in DOMAIN r.files /\ Last(bp.moves[i].to) = names[i]
    BY DEF IsPlaced, MovesInto
  <2>2. PICK f : f = Files(r)[i]
    OBVIOUS
  <2>3. PICK track : names[i] = FileName(r, f, track)
    BY <1>1, <2>1, <2>2, NamesAre
  <2>4. PICK name : name = FileName(r, f, track) /\ name = names[i]
    BY <2>3
  <2>5. Last(name) = Ext(f.rel)
    BY <1>1, <2>4, FileNameIs
  <2>6. bp.moves[i].from = r.dir \o f.rel
    BY <2>1, <2>2 DEF IsPlaced, MovesInto
  <2>7. PICK k \in DOMAIN r.files : f = r.files[k]
    BY <1>1, <2>1, <2>2, NamedIs
  <2>8. IsList(f.rel) /\ f.rel # <<>> /\ IsList(r.dir)
    BY <1>1, <2>7 DEF IsRow
  <2>9. PICK d, rel : d = r.dir /\ rel = f.rel
    OBVIOUS
  <2>10. Ext(d \o rel) = Ext(rel)
    BY <2>8, <2>9, ExtBelow
  <2> QED BY <2>1, <2>4, <2>5, <2>6, <2>9, <2>10 DEF Ext
<1> QED BY <1>2 DEF MovesKeepExt

\* And so is every book of a plan.
LEMMA PreviewTagging ==
  ASSUME IInv, Matches, NEW s \in Selections, NEW ps, ps = BuildPlan(s)
  PROVE  AudioPlan1(rows, ps)
<1>1. RowsIn(runs, rows)
  BY DEF IInv
<1>2. PICK qs : qs = ps
  OBVIOUS
<1>3. IsList(qs) /\ \A p \in DOMAIN qs : \E r \in rows : PlanOf(r, qs[p])
  BY <1>1, <1>2, PlannedOf
<1>4. SUFFICES ASSUME NEW p \in DOMAIN qs, qs[p].skip = "" PROVE Tagging(rows, qs[p])
  BY <1>2 DEF AudioPlan1, Tagging
<1>5. PICK bp : bp = qs[p]
  OBVIOUS
<1>6. PICK r \in rows : PlanOf(r, bp)
  BY <1>3, <1>5
<1>7. bp = PlanBook(r) /\ IsRow(r) /\ bp.id = r.id
  BY <1>1, <1>4, <1>5, <1>6 DEF PlanOf, RowsIn
<1>8. PICK names : IsPlaced(r, bp, names)
  BY <1>4, <1>5, <1>7, PlanBookParts
<1>9. MovesKeepExt(bp)
  BY <1>8, PlacedExt
<1>10. TagsOwn(r, bp.tags)
  BY <1>4, <1>5, <1>7, PlanBookTags
<1> QED BY <1>5, <1>7, <1>9, <1>10 DEF Tagging

\* A book that is moved keeps its extensions.
LEMMA ActiveTagging ==
  ASSUME IInv, Audio, NEW b \in ToSet(Active(plan))
  PROVE  Tagging(rows, b) /\ b.skip = ""
<1>1. PICK p \in DOMAIN plan : b = plan[p] /\ plan[p].skip = ""
  BY ActiveSet DEF IInv, PlanIn
<1> QED BY <1>1 DEF Audio, AudioPlan1

\* A file keeps its extension in a run.
LEMMA MovedExt ==
  ASSUME IInv, Audio, NEW S, S = Steps(Active(plan)), NEW f \in tree, NEW g, Became(S, Len(S), f, g)
  PROVE  Ext(g.path) = Ext(f.path)
<1>1. Ready
  BY IsReady
<1>2. CASE \A j \in 1 .. Len(S) : Key(S[j].from) # Key(f.path)
  BY <1>2 DEF Became
<1>3. CASE \E j \in 1 .. Len(S) : Key(S[j].from) = Key(f.path)
  <2>1. PICK j \in 1 .. Len(S) : Key(S[j].from) = Key(f.path)
    BY <1>3
  <2>2. Last(g.path) = Last(S[j].to)
    BY <2>1 DEF Became
  <2>3. j \in DOMAIN S
    BY <1>1, PlanSteps, ListParts DEF Ready
  <2>4. PICK r \in rows, b \in ToSet(Active(plan)) : \E i \in DOMAIN r.files : IsStep(r, b, i, S[j])
    BY <1>1, <2>3, StepIs
  <2>5. PICK i \in DOMAIN r.files : IsStep(r, b, i, S[j])
    BY <2>4
  <2>6. IsRow(r) /\ Runs(r, b) /\ S[j] = b.moves[i]
    BY <1>1, <2>5 DEF Ready, RowsIn, IsStep
  <2>7. /\ Named(r)[i] \in DOMAIN r.files /\ b.moves[i].from = PathOf(r, Named(r)[i])
        /\ Last(b.moves[i].from) = Last(r.files[Named(r)[i]].rel) /\ i \in DOMAIN b.moves
    BY <2>6, FromIs
  <2>8. PICK e \in tree : Filed(world.exact, r, Named(r)[i], e.path)
    BY <1>1, <2>7 DEF Ready, Fits
  <2>9. Key(e.path) = Key(f.path)
    BY <2>1, <2>6, <2>7, <2>8 DEF Filed, Key
  <2>10. e = f
    BY <1>1, <2>9 DEF Ready, TreeIn, Key
  <2>11. Last(f.path) = Last(b.moves[i].from)
    BY <2>7, <2>8, <2>10 DEF Filed
  <2>12. Ext(b.moves[i].to) = Ext(b.moves[i].from)
    BY <2>7, ActiveTagging DEF Tagging, MovesKeepExt
  <2> QED BY <2>2, <2>6, <2>11, <2>12 DEF Ext
<1> QED BY <1>2, <1>3

\* Only files that can be written are tagged.
LEMMA DueWritable ==
  ASSUME IInv, Audio, MovesDone, NEW g \in Moved, Due(g) # {}
  PROVE  Writable(Ext(g.path))
<1>1. Ready
  BY IsReady
<1>2. PICK S : S = Steps(Active(plan))
  OBVIOUS
<1>3. Trace(S, Len(S), Moved)
  BY <1>1, <1>2, MovedTrace
<1>4. PICK b \in ToSet(Active(plan)) : Planned(b, g) # {}
  BY DEF Due
<1>5. PICK f \in b.tags : \E m \in ToSet(b.moves) : m.from = Row(b.id).dir \o f.rel /\ Key(m.to) = Key(g.path)
  BY <1>4 DEF Planned
<1>6. PICK m \in ToSet(b.moves) : m.from = Row(b.id).dir \o f.rel /\ Key(m.to) = Key(g.path)
  BY <1>5
<1>7. PICK r \in rows : Runs(r, b)
  BY <1>1, ActivePlan DEF Ready
<1>8. IsRow(r) /\ Row(b.id) = r
  BY <1>1, <1>7, RowIs DEF Ready, RowsIn, Runs
<1>9. PICK s \in rows : s.id = b.id /\ TagsOwn(s, b.tags)
  BY ActiveTagging DEF Tagging
<1>10. s = r
  BY <1>1, <1>7, <1>9 DEF Ready, RowsIn, Runs
<1>11. f \in ToSet(r.files) /\ Writable(Ext(f.rel))
  BY <1>9, <1>10 DEF TagsOwn
<1>12. Ext(m.from) = Ext(f.rel)
  <2>1. PICK d, rel : d = r.dir /\ rel = f.rel
    OBVIOUS
  <2>2. IsList(d) /\ IsList(rel) /\ rel # <<>>
    BY <1>8, <1>11, <2>1 DEF IsRow, ToSet
  <2>3. Ext(d \o rel) = Ext(rel)
    BY <2>2, ExtBelow
  <2> QED BY <1>6, <1>8, <2>1, <2>3
<1>13. PICK i \in DOMAIN r.files : m = b.moves[i]
  BY <1>7 DEF Runs, RunsFor, MovesFor, ToSet
<1>14. Named(r)[i] \in DOMAIN r.files /\ i \in DOMAIN b.moves
  BY <1>7, <1>8, FromIs
<1>15. PICK e \in tree : Filed(world.exact, r, Named(r)[i], e.path)
  BY <1>1, <1>14 DEF Ready, Fits
<1>16. PICK h \in Moved : Became(S, Len(S), e, h)
  BY <1>3 DEF Trace
<1>17. Key(h.path) = Key(m.to) /\ Last(h.path) = Last(m.to)
  BY <1>1, <1>2, <1>7, <1>13, <1>15, <1>16, Follows
<1>18. h = g
  BY <1>3, <1>6, <1>17 DEF Trace
<1>19. Ext(m.to) = Ext(m.from)
  BY <1>13, <1>14, ActiveTagging DEF Tagging, MovesKeepExt
<1> QED BY <1>11, <1>12, <1>17, <1>18, <1>19 DEF Ext

\* Tags of the metadata of a world have a length.
TagLengths == \A w \in Worlds : \A m \in w.metas : \A n, l : TagLen([meta |-> m, track |-> n, total |-> l]) \in Nat

\* The tags that are due are of a book with metadata of the world.
LEMMA DueLength ==
  ASSUME TagLengths, IInv, Matches, NEW g \in Moved, NEW ts \in Due(g)
  PROVE  TagLen(ts) \in Nat
<1>1. PICK b \in ToSet(Active(plan)) : \E f \in Planned(b, g) : ts = Desired(Row(b.id), f)
  BY DEF Due
<1>2. PICK f : ts = Desired(Row(b.id), f)
  BY <1>1
<1>3. Ready
  BY IsReady
<1>4. PICK r \in rows : Runs(r, b)
  BY <1>3, ActivePlan DEF Ready
<1>5. r.state \in Accepted /\ b.id = r.id
  BY <1>4 DEF Runs, RunsFor, MovesFor
<1>6. Row(b.id) = r
  BY <1>3, <1>5, RowIs DEF Ready
<1>7. r.meta \in world.metas /\ world \in Worlds
  BY <1>5 DEF Matches, IInv
<1>8. PICK m, n, l : ts = [meta |-> m, track |-> n, total |-> l] /\ m = r.meta
  BY <1>2, <1>6 DEF Desired
<1> QED BY <1>7, <1>8 DEF TagLengths

\* With w in the place of parts a file still plays, and is as readable.
KeepsAudio(ext, parts, w) ==
  /\ IsAudio(ext, w) /\ Plays(parts, w)
  /\ Readable(ext, parts) /\ ~OpenEnded(parts) => Readable(ext, w)

\* A tag write keeps the audio.
LEMMA TagKeeps ==
  ASSUME TagLengths, IInv, Matches, Audio, MovesDone, NEW g \in Moved, NEW ext, ext = Ext(g.path), IsAudio(ext, g.parts)
  PROVE  KeepsAudio(ext, g.parts, TagWrite(g).parts)
<1>1. KeepsAudio(ext, g.parts, g.parts)
  BY DEF KeepsAudio, Plays
<1>2. CASE Due(g) = {}
  BY <1>1, <1>2 DEF TagWrite
<1>3. CASE Due(g) # {}
  <2>1. PICK ts, w : ts = (CHOOSE d \in Due(g) : TRUE) /\ w = Write(ext, g.parts, ts)
    OBVIOUS
  <2>2. TagWrite(g) = Tagged(g, ts, w)
    BY <1>3, <2>1 DEF TagWrite
  <2>3. Tagged(g, ts, w).parts = IF w = Error THEN g.parts ELSE w
    BY DEF Tagged
  <2>4. Writable(ext) /\ TagLen(ts) \in Nat
    <3>1. ts \in Due(g)
      BY <1>3, <2>1
    <3> QED BY <1>3, <3>1, DueWritable, DueLength
  <2>5. CASE w = Error
    BY <1>1, <2>2, <2>3, <2>5
  <2>6. CASE w # Error
    <3>1. PICK parts : parts = g.parts
      OBVIOUS
    <3>2. KeepsAudio(ext, parts, w)
      BY <2>1, <2>4, <2>6, <3>1, WriteKeeps DEF KeepsAudio
    <3> QED BY <2>2, <2>3, <2>6, <3>1, <3>2
  <2> QED BY <2>5, <2>6
<1> QED BY <1>2, <1>3

\* g is f after a step.
Lasts(f, g) == g.id = f.id /\ Ext(g.path) = Ext(f.path) /\ KeepsAudio(Ext(f.path), f.parts, g.parts)

\* Of a file that is where it was.
LEMMA LastsSame ==
  ASSUME Audio, NEW f \in tree
  PROVE  Lasts(f, f)
  BY DEF Audio, AudioTree, Lasts, KeepsAudio, Plays

\* A file and what became of it and its tags.
LEMMA MovedLasts ==
  ASSUME TagLengths, IInv, Matches, Audio, MovesDone, NEW S, S = Steps(Active(plan)),
         NEW f \in tree, NEW k \in Moved, Became(S, Len(S), f, k)
  PROVE  k.id = f.id /\ Ext(k.path) = Ext(f.path) /\ KeepsAudio(Ext(f.path), f.parts, TagWrite(k).parts)
<1>1. k.id = f.id /\ k.parts = f.parts
  BY DEF Became
<1>2. Ext(k.path) = Ext(f.path)
  BY MovedExt
<1>3. IsAudio(Ext(k.path), k.parts)
  BY <1>1, <1>2 DEF Audio, AudioTree
<1>4. KeepsAudio(Ext(k.path), k.parts, TagWrite(k).parts)
  BY <1>3, TagKeeps
<1> QED BY <1>1, <1>2, <1>4

\* After a run that succeeds.
LEMMA RanLasts ==
  ASSUME TagLengths, IInv, Matches, Audio, MovesDone
  PROVE  /\ \A f \in tree : \E g \in RanTree : Lasts(f, g)
         /\ \A g \in RanTree : \E f \in tree : Lasts(f, g)
<1>1. PICK S : S = Steps(Active(plan))
  OBVIOUS
<1>2. Trace(S, Len(S), Moved)
  BY <1>1, IsReady, MovedTrace
<1>3. ASSUME NEW f \in tree, NEW k \in Moved, Became(S, Len(S), f, k)
      PROVE  Lasts(f, [k EXCEPT !.parts = TagWrite(k).parts])
  <2>1. PICK w : w = TagWrite(k).parts
    OBVIOUS
  <2>2. k = [id |-> f.id, path |-> k.path, parts |-> f.parts]
    BY <1>3 DEF Became
  <2>3. PICK g : g = [k EXCEPT !.parts = w]
    OBVIOUS
  <2>4. g.id = k.id /\ g.path = k.path /\ g.parts = w
    BY <2>2, <2>3
  <2>5. k.id = f.id /\ Ext(k.path) = Ext(f.path) /\ KeepsAudio(Ext(f.path), f.parts, w)
    BY <1>1, <1>3, <2>1, MovedLasts
  <2>6. Lasts(f, g)
    BY <2>4, <2>5 DEF Lasts
  <2> QED BY <2>1, <2>3, <2>6
<1>4. ASSUME NEW f \in tree PROVE \E g \in RanTree : Lasts(f, g)
  <2>1. PICK k \in Moved : Became(S, Len(S), f, k)
    BY <1>2 DEF Trace
  <2>2. PICK g : g = [k EXCEPT !.parts = TagWrite(k).parts]
    OBVIOUS
  <2>3. g \in RanTree
    BY <2>2 DEF RanTree
  <2>4. Lasts(f, g)
    BY <1>3, <2>1, <2>2
  <2> QED BY <2>3, <2>4
<1>5. ASSUME NEW g \in RanTree PROVE \E f \in tree : Lasts(f, g)
  <2>1. PICK k \in Moved : g = [k EXCEPT !.parts = TagWrite(k).parts]
    BY DEF RanTree
  <2>2. PICK f \in tree : Became(S, Len(S), f, k)
    BY <1>2 DEF Trace
  <2> QED BY <1>3, <2>1, <2>2
<1> QED BY <1>4, <1>5

\* After one that fails when the tags are written.
LEMMA SpoiltLasts ==
  ASSUME TagLengths, IInv, Matches, Audio, MovesDone, NEW s \in Spoilt
  PROVE  /\ \A f \in tree : \E g \in With(s) : Lasts(f, g)
         /\ \A g \in With(s) : \E f \in tree : Lasts(f, g)
<1>1. PICK S : S = Steps(Active(plan))
  OBVIOUS
<1>2. Trace(S, Len(S), Moved) /\ Ready
  BY <1>1, IsReady, MovedTrace
<1>3. PICK e \in tree, k \in Moved : s = [e EXCEPT !.parts = TagWrite(k).parts] /\ e.id = k.id
  <2>1. PICK p \in tree \X Moved : p[1].id = p[2].id /\ s = [p[1] EXCEPT !.parts = TagWrite(p[2]).parts]
    BY DEF Spoilt
  <2>2. PICK a, b : a = p[1] /\ b = p[2] /\ a \in tree /\ b \in Moved
    BY <2>1
  <2> QED BY <2>1, <2>2
<1>4. PICK d \in tree : Became(S, Len(S), d, k)
  BY <1>2 DEF Trace
<1>5. PICK w : w = TagWrite(k).parts
  OBVIOUS
<1>6. k.id = d.id /\ KeepsAudio(Ext(d.path), d.parts, w)
  BY <1>1, <1>4, <1>5, MovedLasts
<1>7. d = e
  BY <1>2, <1>3, <1>6 DEF Ready, TreeIn
<1>8. s.id = e.id /\ s.path = e.path /\ s.parts = w
  <2>1. e = [id |-> e.id, path |-> e.path, parts |-> e.parts]
    BY <1>2 DEF Ready, TreeIn
  <2> QED BY <1>3, <1>5, <2>1
<1>9. Lasts(e, s)
  BY <1>6, <1>7, <1>8 DEF Lasts
<1>10. \A f \in tree : f.id = s.id => f = e
  BY <1>2, <1>8 DEF Ready, TreeIn
<1>11. \A f \in tree : Lasts(f, IF f.id = s.id THEN s ELSE f)
  BY <1>9, <1>10, LastsSame
<1> QED BY <1>11 DEF With

\* No book is planned.
LEMMA NoTagging ==
  ASSUME NEW rs
  PROVE  AudioPlan1(rs, <<>>)
<1>1. DOMAIN <<>> = {}
  OBVIOUS
<1> QED BY <1>1 DEF AudioPlan1

\* Every file is there after a step, and plays.
AllLast(t) == (\A f \in tree : \E g \in t : Lasts(f, g)) /\ \A g \in t : \E f \in tree : Lasts(f, g)

\* A step that leaves the files alone.
LEMMA TreeSame ==
  ASSUME Audio, tree' = tree
  PROVE  AllLast(tree')
  BY LastsSame DEF AllLast

\* Every step keeps the audio, and every plan the extensions.
LEMMA AudioStep ==
  ASSUME TagLengths, IInv, Matches, Audio, [Next]_vars
  PROVE  AllLast(tree') /\ AudioPlan1(rows', plan')
<1>1. ASSUME NEW l \in world.later, UpdateLibrary(l) PROVE AllLast(tree') /\ AudioPlan1(rows', plan')
  BY <1>1, TreeSame DEF UpdateLibrary, Audio
<1>2. CASE Scan
  <2>1. tree' = tree /\ plan' = <<>>
    BY <1>2 DEF Scan
  <2> QED BY <2>1, TreeSame, NoTagging
<1>3. ASSUME NEW r \in rows, NEW m \in world.metas, SetBookMatch(r, m) PROVE AllLast(tree') /\ AudioPlan1(rows', plan')
  <2>1. tree' = tree /\ plan' = <<>>
    BY <1>3 DEF SetBookMatch
  <2> QED BY <2>1, TreeSame, NoTagging
<1>4. ASSUME NEW s \in Selections, Preview(s) PROVE AllLast(tree') /\ AudioPlan1(rows', plan')
  <2>1. tree' = tree /\ rows' = rows /\ plan' = BuildPlan(s)
    BY <1>4 DEF Preview
  <2>2. AudioPlan1(rows, BuildPlan(s))
    BY PreviewTagging
  <2> QED BY <2>1, <2>2, TreeSame
<1>5. CASE Execute
  <2>1. plan' = <<>>
    BY <1>5 DEF Execute
  <2>2. AllLast(tree')
    <3>1. CASE Succeeds
      <4>1. tree' = RanTree /\ MovesDone
        BY <1>5, <3>1 DEF Execute, RanTree, Succeeds
      <4> QED BY <4>1, RanLasts DEF AllLast
    <3>2. CASE ~Succeeds /\ (Active(plan) = <<>> \/ ~MovesDone)
      <4>1. tree' = tree
        BY <1>5, <3>2 DEF Execute
      <4> QED BY <4>1, TreeSame
    <3>3. CASE ~Succeeds /\ ~(Active(plan) = <<>> \/ ~MovesDone)
      <4>1. PICK s \in Spoilt : tree' = With(s)
        BY <1>5, <3>3 DEF Execute, With
      <4>2. MovesDone
        BY <3>3
      <4> QED BY <4>1, <4>2, SpoiltLasts DEF AllLast
    <3> QED BY <3>1, <3>2, <3>3
  <2> QED BY <2>1, <2>2, NoTagging
<1>6. CASE UNCHANGED vars
  BY <1>6, TreeSame DEF vars, Audio
<1> QED BY <1>1, <1>2, <1>3, <1>4, <1>5, <1>6 DEF Next

\* A run keeps the audio of every file: its media, and where the chunks of its tracks are in
\* it; and what was a readable container still is one. After a run that fails, too, and
\* whatever chain of tags a moov has and wherever it is; if every tag set has a length.
THEOREM AudioKept ==
  ASSUME TagLengths
  PROVE  Spec => AudioIsKept
<1>1. Init => Audio
  <2>1. SUFFICES ASSUME Init PROVE Audio
    OBVIOUS
  <2>2. tree = world.tree /\ plan = <<>> /\ world \in Worlds
    BY <2>1 DEF Init
  <2>3. AudioTree(tree)
    BY <2>2, WorldsAssumption DEF IsFile, AudioTree
  <2> QED BY <2>2, <2>3, NoTagging DEF Audio
<1>2. IInv /\ Matches /\ Audio /\ [Next]_vars => Audio'
  <2>1. SUFFICES ASSUME IInv, Matches, Audio, [Next]_vars PROVE Audio'
    OBVIOUS
  <2>2. AllLast(tree') /\ AudioPlan1(rows', plan')
    BY <2>1, AudioStep
  <2>3. AudioTree(tree')
    BY <2>2 DEF AllLast, AudioTree, Lasts, KeepsAudio
  <2> QED BY <2>2, <2>3 DEF Audio
<1>3. IInv /\ Matches /\ Audio /\ [Next]_vars =>
        [\A f \in tree : \E g \in tree' :
           /\ g.id = f.id /\ Media(g.parts) = Media(f.parts) /\ Chunks(g.parts) = Chunks(f.parts)
           /\ Readable(Ext(f.path), f.parts) /\ ~OpenEnded(f.parts) => Readable(Ext(g.path), g.parts)]_vars
  <2>1. SUFFICES ASSUME IInv, Matches, Audio, [Next]_vars, NEW f \in tree
                 PROVE  \E g \in tree' :
                          /\ g.id = f.id /\ Media(g.parts) = Media(f.parts) /\ Chunks(g.parts) = Chunks(f.parts)
                          /\ Readable(Ext(f.path), f.parts) /\ ~OpenEnded(f.parts) => Readable(Ext(g.path), g.parts)
    OBVIOUS
  <2>2. PICK g \in tree' : Lasts(f, g)
    BY <2>1, AudioStep DEF AllLast
  <2>3. g.id = f.id /\ Media(g.parts) = Media(f.parts) /\ Chunks(g.parts) = Chunks(f.parts)
    BY <2>2 DEF Lasts, KeepsAudio, Plays
  <2>4. Readable(Ext(f.path), f.parts) /\ ~OpenEnded(f.parts) => Readable(Ext(g.path), g.parts)
    BY <2>2 DEF Lasts, KeepsAudio
  <2> QED BY <2>3, <2>4
<1> QED BY <1>1, <1>2, <1>3, Invariance, MatchesKept, PTL DEF Spec, AudioIsKept
===============================================================================
