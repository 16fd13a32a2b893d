------------------------------ MODULE Grouping ------------------------------
(***************************************************************************)
(* How a scan turns the audio below a library root into books: a folder is  *)
(* a book, disc folders are merged into their parent, and the tracks come   *)
(* from the tags or are found among the digit runs of the file names.       *)
(* A name is a sequence of pieces (a word, a run of digits, an extension),  *)
(* a path a sequence of names from the root.                                *)
(***************************************************************************)
EXTENDS Integers, Sequences, FiniteSets, SequencesExt, Functions, Lists

CONSTANTS
  Sorted,     \* the pieces, in byte order
  Num,        \* Num[s]: the value of piece s, for the runs of digits
  NonIndexRun,\* the value of a run too long for an int
  DiscWords   \* "CD", "Disc", ...

Rank(piece) == CHOOSE i \in DOMAIN Sorted : Sorted[i] = piece
Lexicographic(s, t, Less(_, _)) ==
  \E i \in DOMAIN t : /\ \A j \in 1 .. i - 1 : j <= Len(s) /\ s[j] = t[j]
                      /\ i > Len(s) \/ Less(s[i], t[i])
NameBefore(m, n) == Lexicographic(m, n, LAMBDA a, b : Rank(a) < Rank(b))
PathBefore(p, q) == Lexicographic(p, q, NameBefore)
ByPath(files) == InOrder(files, LAMBDA f, g : PathBefore(f.path, g.path))

\* A file of a walk is a record with its path and its track tag (0: none).
Folders(tree) == {Front(f.path) : f \in tree}
In(tree, dir) == ByPath({f \in tree : Front(f.path) = dir})
-----------------------------------------------------------------------------
(* Which digit run of the names is the track. *)

NumberRuns(f) ==
  LET runs == Filter(Last(f.path), LAMBDA s : s \in DOMAIN Num)
  IN [i \in DOMAIN runs |-> Num[runs[i]]]

\* Distinct from one another, starting at 0 or 1; gaps are fine.
TrackRun(vals) ==
  /\ IsInjective(vals) /\ Range(vals) \cap {0, 1} # {} /\ NonIndexRun \notin Range(vals)
Start(vals) == IF 0 \in Range(vals) THEN 0 ELSE 1

AlignedRun(runs, pos, fromEnd) ==
  [i \in DOMAIN runs |-> runs[i][IF fromEnd THEN Len(runs[i]) + 1 - pos ELSE pos]]

\* The first position all names share, from the start and then from the end, whose
\* runs are a track numbering; <<>> if there is none.
SequenceIndex(files) ==
  LET runs == [i \in DOMAIN files |-> NumberRuns(files[i])]
      least == Min({Len(runs[i]) : i \in DOMAIN files})
      aligned == [k \in 1 .. 2 * least |->
                    AlignedRun(runs, IF k <= least THEN k ELSE k - least, k > least)]
      good == Filter(aligned, TrackRun)
  IN IF Len(files) < 2 \/ good = <<>> THEN <<>>
     ELSE [i \in DOMAIN files |-> good[1][i] + 1 - Start(good[1])]

\* Mutant: the numbering of the names is not used.
TrackNumberByPosition(tag, seq, pos) == IF tag > 0 THEN tag ELSE pos

\* The tag, else the numbering of the names, else the position.
TrackNumber(tag, seq, pos) == IF tag > 0 THEN tag ELSE IF seq > 0 THEN seq ELSE pos
-----------------------------------------------------------------------------
(* Units: [dir, layout, files], each file with its place in the numbering.  *)

WithIndex(files, index) ==
  [i \in DOMAIN files |-> [file |-> files[i], seq |-> IF index = <<>> THEN 0 ELSE index[i]]]

UnitForDir(tree, dir) ==
  LET files == In(tree, dir)
  IN [dir |-> dir, layout |-> IF Len(files) = 1 THEN "single" ELSE "multi",
      files |-> WithIndex(files, SequenceIndex(files))]

IsDisc(dir) == /\ dir # <<>> /\ Len(Last(dir)) = 2 /\ Last(dir)[1] \in DiscWords
               /\ Last(dir)[2] \in DOMAIN Num /\ Num[Last(dir)[2]] # NonIndexRun
Disc(dir) == IF IsDisc(dir) THEN Num[Last(dir)[2]] ELSE 0
Kids(tree, parent) == {d \in Folders(tree) : d # <<>> /\ Front(d) = parent}

\* Mutant: one disc is enough.
DiscParentsSome(tree) ==
  {p \in {Front(d) : d \in Folders(tree) \ {<<>>}} :
     /\ Cardinality(Kids(tree, p)) >= 2 /\ p \notin Folders(tree)
     /\ \E k \in Kids(tree, p) : IsDisc(k)}

\* The folders with nothing but two discs or more.
DiscParents(tree) ==
  {p \in {Front(d) : d \in Folders(tree) \ {<<>>}} :
     /\ Cardinality(Kids(tree, p)) >= 2 /\ p \notin Folders(tree)
     /\ \A k \in Kids(tree, p) : IsDisc(k)}

\* Mutant: by path.
DiscBeforeByPath(j, k) == PathBefore(j, k)

\* sortDiscs: by number, so that disc 2 precedes disc 10.
DiscBefore(j, k) == Disc(j) < Disc(k) \/ (Disc(j) = Disc(k) /\ PathBefore(j, k))

MergeDiscs(tree, parent) ==
  LET kids == InOrder(Kids(tree, parent), DiscBefore)
      all == FlattenSeq([i \in DOMAIN kids |-> In(tree, kids[i])])
  IN [dir |-> parent, layout |-> "multi",
      files |-> WithIndex(all, [i \in DOMAIN all |-> i])]

\* mergeDiscFolders, and then every unit's files and the units by path.
Group(tree) ==
  LET parents == DiscParents(tree)
      merged == UNION {Kids(tree, p) : p \in parents}
      units == {MergeDiscs(tree, p) : p \in parents}
               \cup {UnitForDir(tree, d) : d \in Folders(tree) \ merged}
  IN InOrder(
       {[u EXCEPT !.files = Sort(@, LAMBDA f, g : PathBefore(f.file.path, g.file.path))] : u \in units},
       LAMBDA u, v : PathBefore(u.dir, v.dir))

\* fileRows: a book of one file has no track.
FileRows(u) ==
  [i \in DOMAIN u.files |->
     LET f == u.files[i] IN
     [rel |-> SubSeq(f.file.path, Len(u.dir) + 1, Len(f.file.path)),
      track |-> IF u.layout = "multi" THEN TrackNumber(f.file.track, f.seq, i) ELSE 0]]
=============================================================================
