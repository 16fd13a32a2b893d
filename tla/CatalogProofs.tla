----------------------------- MODULE CatalogProofs -----------------------------
(***************************************************************************)
(* For any number of rows, folders, workers and requests: rows, covers and *)
(* the copies goroutines hold keep their types, one row stands for one     *)
(* folder, a user's decision is lost only to a goroutine that read the     *)
(* book before it, covers follow their book, and an undisturbed scan       *)
(* repairs what anybody left.                                              *)
(*                                                                         *)
(* What a goroutine holds is a copy, read in an earlier step: nothing in   *)
(* the invariant says that it is still true of the rows, except what a     *)
(* calm scan holds.                                                        *)
(***************************************************************************)
EXTENDS Catalog, FiniteSetTheorems, TLAPS

-----------------------------------------------------------------------------
(* Types. *)

Urls == {Cover[c] : c \in Cands} \cup {None}
Copies == UNION {[S -> Row] : S \in SUBSET Ids}
Units == UNION {[S -> Contents] : S \in SUBSET Dirs}

\* What a listing returned was open then.
Todos == UNION {[S -> {r \in Row : r.state \in Open}] : S \in SUBSET Ids}

\* What goroutines hold at each place of their programs.
Kinds == {"match", "auto", "top", "accept"}
Walking == [at : {"walk"}, left : SUBSET Dirs, units : Units]
Saving == [at : {"save"}, units : Units, left : SUBSET Dirs, index : Copies]
Choosing == [at : {"next"}, kind : {"match", "top"}, todo : Todos]
Searching == [at : {"search"}, kind : {"match", "auto"}, book : Ids, copy : Row, todo : Todos]
Settling == [at : {"settle"}, kind : {"match", "auto"}, book : Ids, copy : Row, state : Open, todo : Todos]
Applying == [at : {"apply"}, kind : Kinds, book : Ids, copy : Row, cand : Cands, todo : Todos]
Covering == [at : {"look", "drop", "fetch", "download"}, kind : Kinds, book : Ids, url : Urls, todo : Todos]
Removing == [at : {"remove"}, book : Ids, dir : Dirs]
Forgetting == [at : {"forget"}, book : Ids]
Moving == [at : {"move", "finalize", "unmove", "restore"}, run : Nat]

Matching == Choosing \cup Searching \cup Settling \cup Applying \cup Covering \cup {Idle}
Working == Matching \cup Walking \cup Saving \cup Moving
Serving == Matching \cup Removing \cup Forgetting

Entry == [book : Ids, from : Dirs, to : Dirs, was : Contents, state : Accepted, fits : BOOLEAN,
         run : Nat, status : {"running", "done", "back"}]

\* The tables and the folders.
Data ==
  /\ disk \in [Dirs -> Contents \cup {None}]
  /\ rows \in [Ids -> Row \cup {None}] /\ stored \in [Ids -> Results] /\ cover \in [Ids -> Urls]
  /\ decided \in [Ids -> [cand : Cands \cup {None}, sort : BOOLEAN]]
  /\ journal \subseteq Entry /\ calls \in 0 .. MaxCalls

\* One row stands for one folder, in the table and in a copy of it.
OneRow == \A b, x \in Ids : Exists(b) /\ Exists(x) /\ rows[b].dir = rows[x].dir => b = x
OneCopy(r) == /\ r.left \subseteq DOMAIN r.units
              /\ \A b, x \in DOMAIN r.index : r.index[b].dir = r.index[x].dir => b = x

\* The goroutines: a scan's copy of the table has one row for one folder, and a bulk
\* accept applies what was open when it was listed.
Fits(p, r) ==
  /\ \/ r \in Matching
     \/ p \in Workers /\ r \in Walking \cup Saving \cup Moving
     \/ p \in Requests /\ r \in Removing \cup Forgetting
  /\ r.at = "save" => OneCopy(r)
  /\ r.at = "apply" /\ r.kind = "top" => r.copy.state \in Open
Held == /\ proc \in [Procs -> Working \cup Serving]
        /\ \A p \in Procs : Fits(p, proc[p])

\* With a row goes what hangs on it.
Cascade == \A b \in Ids : Exists(b) \/ (stored[b] = <<>> /\ cover[b] = None /\ decided[b] = Undecided)

\* One organize or undo job at a time, and its run is in the journal, once.
Organizing(w) == proc[w].at \in {"move", "finalize", "unmove", "restore"}
Gated ==
  /\ \A v, w \in Workers : Organizing(v) /\ Organizing(w) => v = w
  /\ \A w \in Workers : Organizing(w) => \E j \in journal : j.run = proc[w].run
Runs == /\ \A j, k \in journal : j.run = k.run => j = k
        /\ \A j \in journal : j.run <= calls

CInv == Data /\ Held /\ OneRow /\ Cascade /\ Gated /\ Runs /\ calm \subseteq Workers

-----------------------------------------------------------------------------
(* What the place of a goroutine says about what it holds. *)

\* Nothing is left to do after an empty listing, and a list of nothing is one.
LEMMA NoTodo == <<>> \in Todos /\ <<>> \in Units
<1>1. DOMAIN <<>> = {}
  OBVIOUS
<1>2. <<>> = [x \in {} |-> None]
  OBVIOUS
<1> QED
  BY <1>1, <1>2 DEF Todos, Units

\* Nobody is idle and busy.
LEMMA AtIs ==
  ASSUME Held, NEW p \in Procs
  PROVE  /\ proc[p].at = "walk" => proc[p] \in Walking /\ p \in Workers
         /\ proc[p].at = "save" => proc[p] \in Saving /\ p \in Workers
         /\ proc[p].at = "next" => proc[p] \in Choosing
         /\ proc[p].at = "search" => proc[p] \in Searching
         /\ proc[p].at = "settle" => proc[p] \in Settling
         /\ proc[p].at = "apply" => proc[p] \in Applying
         /\ proc[p].at \in {"look", "drop", "fetch", "download"} => proc[p] \in Covering
         /\ proc[p].at = "remove" => proc[p] \in Removing
         /\ proc[p].at = "forget" => proc[p] \in Forgetting
         /\ proc[p].at \in {"move", "finalize", "unmove", "restore"} => proc[p] \in Moving /\ p \in Workers
         /\ proc[p].at = "idle" => proc[p] = Idle
<1>1. Fits(p, proc[p])
  BY DEF Held
<1>2. \/ proc[p] \in Choosing \/ proc[p] \in Searching \/ proc[p] \in Settling \/ proc[p] \in Applying
      \/ proc[p] \in Covering \/ proc[p] = Idle
      \/ p \in Workers /\ (proc[p] \in Walking \/ proc[p] \in Saving \/ proc[p] \in Moving)
      \/ proc[p] \in Removing \/ proc[p] \in Forgetting
  BY <1>1 DEF Fits, Matching
<1>3. /\ \A x \in Choosing : x.at = "next"
      /\ \A x \in Searching : x.at = "search"
      /\ \A x \in Settling : x.at = "settle"
      /\ \A x \in Applying : x.at = "apply"
      /\ \A x \in Covering : x.at \in {"look", "drop", "fetch", "download"}
      /\ \A x \in Walking : x.at = "walk"
      /\ \A x \in Saving : x.at = "save"
      /\ \A x \in Moving : x.at \in {"move", "finalize", "unmove", "restore"}
      /\ \A x \in Removing : x.at = "remove"
      /\ \A x \in Forgetting : x.at = "forget"
      /\ Idle.at = "idle"
  BY DEF Choosing, Searching, Settling, Applying, Covering, Walking, Saving, Moving, Removing, Forgetting, Idle
<1> QED
  BY <1>2, <1>3


\* What a goroutine holds next.
LEMMA Goes ==
  ASSUME Held, NEW p \in Procs, NEW r, Go(p, r), Fits(p, r)
  PROVE  /\ Held' /\ proc'[p] = r
         /\ \A q \in Procs : q # p => proc'[q] = proc[q]
<1>1. r \in Working \cup Serving
  BY DEF Fits, Working, Serving
<1> QED
  BY <1>1 DEF Held, Go, Fits

\* Whoever is not organizing leaves the gate as it is.
LEMMA GateStays ==
  ASSUME Held, Gated, NEW p \in Procs, NEW r, Go(p, r),
         r.at \notin {"move", "finalize", "unmove", "restore"},
         \A j \in journal : \E k \in journal' : k.run = j.run
  PROVE  Gated'
<1>1. /\ \A q \in Procs : q # p => proc'[q] = proc[q]
      /\ proc'[p] = r /\ Workers \subseteq Procs
  BY DEF Go, Held, Procs
<1>2. \A v \in Workers : Organizing(v)' => Organizing(v) /\ v # p /\ proc'[v] = proc[v]
  BY <1>1 DEF Organizing
<1> QED
  BY <1>2 DEF Gated

\* A step of one goroutine that changes no table and no folder.
LEMMA OnlyGoes ==
  ASSUME CInv, NEW p \in Procs, NEW r, Go(p, r), Fits(p, r),
         r.at \notin {"move", "finalize", "unmove", "restore"},
         UNCHANGED <<disk, books, journal>>, calls' = calls \/ Call, calm' \subseteq Workers
  PROVE  CInv'
<1>1. Held' /\ Gated'
  BY Goes, GateStays DEF CInv
<1>2. calls' \in 0 .. MaxCalls /\ calls \in Int /\ calls' \in Int /\ calls <= calls'
  BY CatalogAssumption DEF CInv, Data, Call
<1>3. Data'
  BY <1>2 DEF CInv, Data, books
<1>4. OneRow' /\ Cascade'
  BY DEF CInv, OneRow, Cascade, Exists, books
<1>5. Runs'
  BY <1>2 DEF CInv, Runs, Data, Entry
<1> QED
  BY <1>1, <1>3, <1>4, <1>5 DEF CInv

\* What is there is a row.
LEMMA RowIs ==
  ASSUME Data, NEW b \in Ids
  PROVE  Exists(b) <=> rows[b] \in Row
BY CatalogAssumption DEF Data, Exists

\* The next book of the listing, or nothing.
LEMMA ThenFits ==
  ASSUME Held, NEW p \in Procs,
         proc[p].at \in {"search", "settle", "apply", "look", "drop", "fetch", "download"}
  PROVE  Fits(p, Then(p)) /\ Then(p).at \in {"next", "idle"}
<1>1. proc[p].kind \in Kinds /\ proc[p].todo \in Todos
  BY AtIs DEF Searching, Settling, Applying, Covering, Kinds
<1>2. CASE proc[p].kind \in {"match", "top"}
  <2>1. Then(p) = [at |-> "next", kind |-> proc[p].kind, todo |-> proc[p].todo]
    BY <1>2 DEF Then, NextBook
  <2>2. Then(p) \in Choosing
    BY <1>1, <1>2, <2>1 DEF Choosing
  <2> QED
    BY <2>1, <2>2 DEF Fits, Matching
<1>3. CASE proc[p].kind \notin {"match", "top"}
  <2>1. Then(p) = Idle
    BY <1>3 DEF Then, NextBook
  <2> QED
    BY <2>1 DEF Fits, Matching, Idle
<1> QED
  BY <1>2, <1>3

\* Nothing to do fits everybody.
LEMMA IdleFits == ASSUME NEW p PROVE Fits(p, Idle) /\ Idle.at = "idle"
BY DEF Fits, Matching, Idle

\* What is left of a listing is one.
LEMMA WithoutFits ==
  ASSUME NEW todo \in Todos, NEW b \in DOMAIN todo
  PROVE  Without(todo, b) \in Todos /\ b \in Ids /\ todo[b] \in Row /\ todo[b].state \in Open
<1>1. PICK S \in SUBSET Ids : todo \in [S -> {r \in Row : r.state \in Open}]
  BY DEF Todos
<1>2. Without(todo, b) \in [S \ {b} -> {r \in Row : r.state \in Open}] /\ S \ {b} \in SUBSET Ids
  BY <1>1 DEF Without
<1> QED
  BY <1>1, <1>2 DEF Todos


-----------------------------------------------------------------------------
(* Steps that only read. *)

\* A scan begins.
LEMMA ScanStartKeeps ==
  ASSUME CInv, NEW w \in Workers, ScanStart(w), calm' \subseteq Workers
  PROVE  CInv'
<1> DEFINE r == [at |-> "walk", left |-> Dirs, units |-> <<>>]
<1>1. Go(w, r) /\ UNCHANGED <<disk, books, journal>> /\ Call
  BY DEF ScanStart
<1>2. r \in Walking /\ r.at = "walk"
  BY NoTodo DEF Walking
<1>3. Fits(w, r)
  BY <1>2 DEF Fits
<1> HIDE DEF r
<1> QED
  BY <1>1, <1>2, <1>3, OnlyGoes DEF Procs

\* What a walk has seen with one folder more.
LEMMA UnitsGrow ==
  ASSUME NEW units \in Units, NEW d \in Dirs, NEW c \in Contents
  PROVE  [x \in DOMAIN units \cup {d} |-> IF x = d THEN c ELSE units[x]] \in Units
<1>1. PICK S \in SUBSET Dirs : units \in [S -> Contents]
  BY DEF Units
<1>2. /\ [x \in DOMAIN units \cup {d} |-> IF x = d THEN c ELSE units[x]] \in [S \cup {d} -> Contents]
      /\ S \cup {d} \in SUBSET Dirs
  BY <1>1
<1> QED
  BY <1>2 DEF Units

\* A scan looks into the next folder.
LEMMA ScanWalkKeeps ==
  ASSUME CInv, NEW w \in Workers, ScanWalk(w), calm' \subseteq Workers
  PROVE  CInv'
<1>1. proc[w] \in Walking /\ w \in Procs
  BY AtIs DEF CInv, ScanWalk, Procs
<1>2. PICK d \in First(proc[w].left) :
        Go(w, [proc[w] EXCEPT !.left = @ \ {d},
                 !.units = IF disk[d] = None THEN @ ELSE [x \in DOMAIN @ \cup {d} |->
                             IF x = d THEN disk[d] ELSE @[x]]])
  BY DEF ScanWalk
<1> DEFINE u == IF disk[d] = None THEN proc[w].units
                ELSE [x \in DOMAIN proc[w].units \cup {d} |-> IF x = d THEN disk[d] ELSE proc[w].units[x]]
           r == [proc[w] EXCEPT !.left = @ \ {d}, !.units = u]
<1>3. Go(w, r)
  BY <1>2
<1>4. u \in Units
  <2>1. proc[w].units \in Units /\ d \in Dirs /\ (disk[d] = None \/ disk[d] \in Contents)
    BY <1>1 DEF Walking, CInv, Data, First
  <2> QED
    BY <2>1, UnitsGrow
<1> HIDE DEF u
<1>5. r \in Walking /\ r.at = "walk"
  BY <1>1, <1>4 DEF Walking
<1>6. Fits(w, r)
  BY <1>5 DEF Fits
<1> HIDE DEF r
<1> QED
  BY <1>1, <1>3, <1>5, <1>6, OnlyGoes DEF ScanWalk

\* The copy of the table that a scan takes.
LEMMA Indexed ==
  ASSUME Data, OneRow
  PROVE  LET index == [b \in {i \in Ids : Exists(i)} |-> rows[b]]
         IN /\ index \in Copies
            /\ \A b, x \in DOMAIN index : index[b].dir = index[x].dir => b = x
<1> DEFINE S == {i \in Ids : Exists(i)}
           index == [b \in S |-> rows[b]]
<1>1. S \in SUBSET Ids /\ index \in [S -> Row]
  BY RowIs
<1>2. index \in Copies
  BY <1>1 DEF Copies
<1> QED
  BY <1>2 DEF OneRow

\* A scan reads the table.
LEMMA ScanIndexKeeps ==
  ASSUME CInv, NEW w \in Workers, ScanIndex(w), calm' \subseteq Workers
  PROVE  CInv'
<1> DEFINE index == [b \in {i \in Ids : Exists(i)} |-> rows[b]]
           r == [at |-> "save", units |-> proc[w].units, left |-> DOMAIN proc[w].units, index |-> index]
<1>1. proc[w] \in Walking /\ w \in Procs /\ Go(w, r)
  BY AtIs DEF CInv, ScanIndex, Procs
<1>2. index \in Copies /\ \A b, x \in DOMAIN index : index[b].dir = index[x].dir => b = x
  BY Indexed DEF CInv
<1> HIDE DEF index
<1>3. proc[w].units \in Units /\ DOMAIN proc[w].units \in SUBSET Dirs
  BY <1>1 DEF Walking, Units
<1>4. r \in Saving /\ OneCopy(r) /\ r.at = "save"
  BY <1>2, <1>3 DEF Saving, OneCopy
<1>5. Fits(w, r)
  BY <1>4 DEF Fits
<1> HIDE DEF r
<1> QED
  BY <1>1, <1>4, <1>5, OnlyGoes DEF ScanIndex

\* A scan gives up.
LEMMA ScanFailsKeeps ==
  ASSUME CInv, NEW w \in Workers, ScanFails(w), calm' \subseteq Workers
  PROVE  CInv'
BY IdleFits, OnlyGoes DEF ScanFails, Procs

\* A listing is taken.
LEMMA ListKeeps ==
  ASSUME CInv, NEW p \in Procs, NEW kind \in {"match", "top"}, List(p, kind), calm' \subseteq Workers
  PROVE  CInv'
<1> DEFINE r == [at |-> "next", kind |-> kind, todo |-> Listing]
<1>1. Go(p, r) /\ UNCHANGED <<disk, books, journal>> /\ Call
  BY DEF List, NextBook
<1>2. Listing \in Todos
  <2> DEFINE S == {i \in Ids : Exists(i) /\ rows[i].state \in Open}
  <2>1. S \in SUBSET Ids /\ \A i \in S : rows[i] \in Row /\ rows[i].state \in Open
    BY RowIs DEF CInv
  <2>2. [b \in S |-> rows[b]] \in [S -> {x \in Row : x.state \in Open}]
    BY <2>1
  <2>3. Listing = [b \in S |-> rows[b]]
    BY DEF Listing
  <2> HIDE DEF S
  <2> QED
    BY <2>1, <2>2, <2>3 DEF Todos
<1>3. r \in Choosing /\ r.at = "next"
  BY <1>2 DEF Choosing
<1>4. Fits(p, r)
  BY <1>3 DEF Fits, Matching
<1> HIDE DEF r
<1> QED
  BY <1>1, <1>3, <1>4, OnlyGoes

\* A match job takes its next book.
LEMMA MatchNextKeeps ==
  ASSUME CInv, NEW p \in Procs, MatchNext(p), calm' \subseteq Workers
  PROVE  CInv'
<1>1. proc[p] \in Choosing
  BY AtIs DEF CInv, MatchNext
<1>2. PICK b \in DOMAIN proc[p].todo :
        Go(p, IF Exists(b) THEN [at |-> "search", kind |-> "match", book |-> b, copy |-> rows[b],
                                 todo |-> Without(proc[p].todo, b)]
              ELSE [proc[p] EXCEPT !.todo = Without(@, b)])
  BY DEF MatchNext
<1>3. Without(proc[p].todo, b) \in Todos /\ b \in Ids
  BY <1>1, WithoutFits DEF Choosing
<1>4. UNCHANGED <<disk, books, journal, calls>>
  BY DEF MatchNext
<1>5. CASE Exists(b)
  <2> DEFINE r == [at |-> "search", kind |-> "match", book |-> b, copy |-> rows[b],
                   todo |-> Without(proc[p].todo, b)]
  <2>1. Go(p, r) /\ r.at = "search"
    BY <1>2, <1>5
  <2>2. r \in Searching
    BY <1>3, <1>5, RowIs DEF Searching, CInv
  <2>3. Fits(p, r)
    BY <2>1, <2>2 DEF Fits, Matching
  <2> HIDE DEF r
  <2> QED
    BY <1>4, <2>1, <2>3, OnlyGoes
<1>6. CASE ~Exists(b)
  <2> DEFINE r == [proc[p] EXCEPT !.todo = Without(@, b)]
  <2>1. Go(p, r)
    BY <1>2, <1>6
  <2>2. r \in Choosing /\ r.at = "next"
    BY <1>1, <1>3 DEF Choosing
  <2>3. Fits(p, r)
    BY <2>2 DEF Fits, Matching
  <2> HIDE DEF r
  <2> QED
    BY <1>4, <2>1, <2>2, <2>3, OnlyGoes
<1> QED
  BY <1>5, <1>6

\* A bulk accept takes its next book, or passes it over.
LEMMA TopNextKeeps ==
  ASSUME CInv, NEW p \in Procs, TopNext(p), calm' \subseteq Workers
  PROVE  CInv'
<1>1. proc[p] \in Choosing
  BY AtIs DEF CInv, TopNext
<1>2. PICK b \in DOMAIN proc[p].todo :
        \/ Go(p, [proc[p] EXCEPT !.todo = Without(@, b)])
        \/ /\ stored[b] # <<>>
           /\ Go(p, [at |-> "apply", kind |-> "top", book |-> b, copy |-> proc[p].todo[b],
                     cand |-> stored[b][1], todo |-> Without(proc[p].todo, b)])
  BY DEF TopNext
<1>3. /\ Without(proc[p].todo, b) \in Todos /\ b \in Ids
      /\ proc[p].todo[b] \in Row /\ proc[p].todo[b].state \in Open
  BY <1>1, WithoutFits DEF Choosing
<1>4. UNCHANGED <<disk, books, journal, calls>>
  BY DEF TopNext
<1>5. CASE Go(p, [proc[p] EXCEPT !.todo = Without(@, b)])
  <2> DEFINE r == [proc[p] EXCEPT !.todo = Without(@, b)]
  <2>1. Go(p, r)
    BY <1>5
  <2>2. r \in Choosing /\ r.at = "next"
    BY <1>1, <1>3 DEF Choosing
  <2>3. Fits(p, r)
    BY <2>2 DEF Fits, Matching
  <2> HIDE DEF r
  <2> QED
    BY <1>4, <2>1, <2>2, <2>3, OnlyGoes
<1>6. CASE /\ stored[b] # <<>>
           /\ Go(p, [at |-> "apply", kind |-> "top", book |-> b, copy |-> proc[p].todo[b],
                     cand |-> stored[b][1], todo |-> Without(proc[p].todo, b)])
  <2> DEFINE r == [at |-> "apply", kind |-> "top", book |-> b, copy |-> proc[p].todo[b],
                   cand |-> stored[b][1], todo |-> Without(proc[p].todo, b)]
  <2>1. Go(p, r) /\ r.at = "apply" /\ r.copy = proc[p].todo[b]
    BY <1>6
  <2>2. stored[b][1] \in Cands
    <3>1. stored[b] \in Seq(Cands)
      BY <1>3, CatalogAssumption DEF CInv, Data
    <3> QED
      BY <1>6, <3>1
  <2>3. r \in Applying
    BY <1>3, <2>2 DEF Applying, Kinds
  <2>4. Fits(p, r)
    BY <1>3, <2>1, <2>3 DEF Fits, Matching
  <2> HIDE DEF r
  <2> QED
    BY <1>4, <2>1, <2>4, OnlyGoes
<1> QED
  BY <1>2, <1>5, <1>6

\* A listing is done.
LEMMA ListEndsKeeps ==
  ASSUME CInv, NEW p \in Procs, ListEnds(p), calm' \subseteq Workers
  PROVE  CInv'
BY IdleFits, OnlyGoes DEF ListEnds

\* A request to match one book, or to accept a candidate of it, reads the row.
LEMMA AutoMatchKeeps ==
  ASSUME CInv, NEW r \in Requests, AutoMatch(r), calm' \subseteq Workers
  PROVE  CInv'
<1>1. PICK b \in Ids : Exists(b) /\ Go(r, [at |-> "search", kind |-> "auto", book |-> b,
                                           copy |-> rows[b], todo |-> <<>>])
  BY DEF AutoMatch
<1> DEFINE x == [at |-> "search", kind |-> "auto", book |-> b, copy |-> rows[b], todo |-> <<>>]
<1>2. x \in Searching /\ x.at = "search"
  BY <1>1, RowIs, NoTodo DEF Searching, CInv
<1>3. Go(r, x) /\ Fits(r, x)
  BY <1>1, <1>2 DEF Fits, Matching
<1> HIDE DEF x
<1> QED
  BY <1>2, <1>3, OnlyGoes DEF AutoMatch, Procs

\* So does one to accept a candidate.
LEMMA AcceptKeeps ==
  ASSUME CInv, NEW r \in Requests, Accept(r), calm' \subseteq Workers
  PROVE  CInv'
<1>1. PICK b \in Ids, c \in Cands :
        Exists(b) /\ Go(r, [at |-> "apply", kind |-> "accept", book |-> b,
                            copy |-> rows[b], cand |-> c, todo |-> <<>>])
  BY DEF Accept
<1> DEFINE x == [at |-> "apply", kind |-> "accept", book |-> b, copy |-> rows[b], cand |-> c, todo |-> <<>>]
<1>2. x \in Applying /\ x.at = "apply" /\ x.kind = "accept"
  BY <1>1, RowIs, NoTodo DEF Applying, Kinds, CInv
<1>3. Go(r, x) /\ Fits(r, x)
  BY <1>1, <1>2 DEF Fits, Matching
<1> HIDE DEF x
<1> QED
  BY <1>2, <1>3, OnlyGoes DEF Accept, Procs

\* Where a goroutine goes when it is done with the cover, or before a download.
LEMMA FetchFits ==
  ASSUME Held, NEW p \in Procs, proc[p].at \in {"look", "drop", "fetch", "download"}
  PROVE  /\ Fits(p, ThenFetch(p)) /\ ThenFetch(p).at \in {"next", "idle", "fetch"}
         /\ \A place \in {"look", "drop", "fetch", "download"} :
              Fits(p, [proc[p] EXCEPT !.at = place]) /\ [proc[p] EXCEPT !.at = place].at = place
<1>1. proc[p] \in Covering
  BY AtIs
<1>2. \A place \in {"look", "drop", "fetch", "download"} :
        /\ [proc[p] EXCEPT !.at = place] \in Covering
        /\ [proc[p] EXCEPT !.at = place].at = place
  BY <1>1 DEF Covering
<1>3. \A place \in {"look", "drop", "fetch", "download"} : Fits(p, [proc[p] EXCEPT !.at = place])
  BY <1>2 DEF Fits, Matching
<1> QED
  BY <1>2, <1>3, ThenFits DEF ThenFetch

\* A goroutine looks at the cover.
LEMMA LookAtCoverKeeps ==
  ASSUME CInv, NEW p \in Procs, LookAtCover(p), calm' \subseteq Workers
  PROVE  CInv'
<1>1. /\ proc[p].at = "look" /\ Held /\ UNCHANGED <<disk, books, journal, calls>>
      /\ Go(p, ThenFetch(p)) \/ Go(p, [proc[p] EXCEPT !.at = "drop"])
  BY DEF CInv, LookAtCover
<1>2. /\ Fits(p, ThenFetch(p)) /\ ThenFetch(p).at \in {"next", "idle", "fetch"}
      /\ Fits(p, [proc[p] EXCEPT !.at = "drop"]) /\ [proc[p] EXCEPT !.at = "drop"].at = "drop"
  BY <1>1, FetchFits
<1> QED
  BY <1>1, <1>2, OnlyGoes

\* It looks whether there is one, before the download.
LEMMA FetchCoverKeeps ==
  ASSUME CInv, NEW p \in Procs, FetchCover(p), calm' \subseteq Workers
  PROVE  CInv'
<1>1. /\ proc[p].at = "fetch" /\ Held /\ UNCHANGED <<disk, books, journal, calls>>
      /\ Go(p, Then(p)) \/ Go(p, [proc[p] EXCEPT !.at = "download"])
  BY DEF CInv, FetchCover
<1>2. /\ Fits(p, Then(p)) /\ Then(p).at \in {"next", "idle"}
      /\ Fits(p, [proc[p] EXCEPT !.at = "download"]) /\ [proc[p] EXCEPT !.at = "download"].at = "download"
  BY <1>1, FetchFits, ThenFits
<1> QED
  BY <1>1, <1>2, OnlyGoes

\* The download fails.
LEMMA DownloadFailsKeeps ==
  ASSUME CInv, NEW p \in Procs, DownloadFails(p), calm' \subseteq Workers
  PROVE  CInv'
<1>1. Fits(p, Then(p)) /\ Then(p).at \in {"next", "idle"}
  BY ThenFits DEF CInv, DownloadFails
<1> QED
  BY <1>1, OnlyGoes DEF DownloadFails

\* A deletion begins.
LEMMA DeleteBookKeeps ==
  ASSUME CInv, NEW r \in Requests, DeleteBook(r), calm' \subseteq Workers
  PROVE  CInv'
<1>1. PICK b \in Ids : Exists(b) /\ Go(r, [at |-> "remove", book |-> b, dir |-> rows[b].dir])
  BY DEF DeleteBook
<1> DEFINE x == [at |-> "remove", book |-> b, dir |-> rows[b].dir]
<1>2. x \in Removing /\ x.at = "remove"
  BY <1>1, RowIs DEF Removing, Row, CInv
<1>3. Go(r, x) /\ Fits(r, x)
  BY <1>1, <1>2 DEF Fits
<1> HIDE DEF x
<1> QED
  BY <1>2, <1>3, OnlyGoes DEF DeleteBook, Procs

\* It gives up.
LEMMA DeleteFailsKeeps ==
  ASSUME CInv, NEW r \in Requests, DeleteFails(r), calm' \subseteq Workers
  PROVE  CInv'
BY IdleFits, OnlyGoes DEF DeleteFails, Procs


-----------------------------------------------------------------------------
(* Steps that write rows, covers or candidates. *)

\* A step of one goroutine that may change the tables and the folders.
LEMMA StepKeeps ==
  ASSUME CInv, NEW p \in Procs, NEW r, Go(p, r), Fits(p, r),
         r.at \notin {"move", "finalize", "unmove", "restore"},
         journal' = journal, calls' = calls, calm' \subseteq Workers,
         Data', OneRow', Cascade'
  PROVE  CInv'
<1>1. Held' /\ Gated'
  BY Goes, GateStays DEF CInv
<1>2. Runs'
  BY DEF CInv, Runs
<1> QED
  BY <1>1, <1>2 DEF CInv

\* A row that keeps its folder changes nothing for the others.
LEMMA RowChanges ==
  ASSUME Data, OneRow, NEW b \in Ids, Exists(b), NEW r \in Row, r.dir = rows[b].dir,
         rows' = [rows EXCEPT ![b] = r]
  PROVE  /\ rows' \in [Ids -> Row \cup {None}] /\ OneRow'
         /\ \A x \in Ids : Exists(x)' <=> Exists(x)
         /\ \A x \in Ids \ {b} : rows'[x] = rows[x]
         /\ rows'[b] = r
<1>1. /\ rows' \in [Ids -> Row \cup {None}] /\ rows'[b] = r /\ r # None
      /\ \A x \in Ids \ {b} : rows'[x] = rows[x]
  BY CatalogAssumption DEF Data
<1>2. \A x \in Ids : Exists(x)' <=> Exists(x)
  BY <1>1 DEF Exists
<1>3. OneRow'
  BY <1>1, <1>2 DEF OneRow
<1> QED
  BY <1>1, <1>2, <1>3

\* A state is set on a row that is there.
LEMMA StateIsSet ==
  ASSUME Data, OneRow, NEW b \in Ids, NEW s \in Open \cup Accepted \cup {"error"}, SetState(b, s)
  PROVE  /\ rows' \in [Ids -> Row \cup {None}] /\ OneRow'
         /\ \A x \in Ids : Exists(x)' <=> Exists(x)
         /\ \A x \in Ids \ {b} : rows'[x] = rows[x]
         /\ Exists(b) => rows'[b] = [rows[b] EXCEPT !.state = s]
<1>1. CASE Exists(b)
  <2> DEFINE r == [rows[b] EXCEPT !.state = s]
  <2>1. rows[b] \in Row
    BY <1>1, RowIs
  <2>2. r \in Row /\ r.dir = rows[b].dir /\ rows' = [rows EXCEPT ![b] = r]
    BY <1>1, <2>1 DEF SetState, Row
  <2> HIDE DEF r
  <2>3. /\ rows' \in [Ids -> Row \cup {None}] /\ OneRow'
        /\ \A x \in Ids : Exists(x)' <=> Exists(x)
        /\ \A x \in Ids \ {b} : rows'[x] = rows[x]
        /\ rows'[b] = r
    BY <1>1, <2>2, RowChanges
  <2> QED
    BY <2>3 DEF r
<1>2. CASE ~Exists(b)
  <2>1. rows' = rows
    BY <1>2 DEF SetState
  <2> QED
    BY <1>2, <2>1 DEF Data, OneRow, Exists
<1> QED
  BY <1>1, <1>2

\* Rows go, and with them all that hangs on them.
LEMMA RowsGo ==
  ASSUME CInv, NEW S, DeleteRows(S)
  PROVE  /\ rows' \in [Ids -> Row \cup {None}] /\ stored' \in [Ids -> Results]
         /\ cover' \in [Ids -> Urls] /\ decided' \in [Ids -> [cand : Cands \cup {None}, sort : BOOLEAN]]
         /\ OneRow' /\ Cascade'
<1>1. Undecided \in [cand : Cands \cup {None}, sort : BOOLEAN]
  BY DEF Undecided
<1>2. <<>> \in Results /\ None \in Urls
  BY CatalogAssumption DEF Urls
<1>3. rows' \in [Ids -> Row \cup {None}] /\ stored' \in [Ids -> Results] /\ cover' \in [Ids -> Urls]
  BY <1>2 DEF CInv, Data, DeleteRows
<1>4. decided' \in [Ids -> [cand : Cands \cup {None}, sort : BOOLEAN]]
  BY <1>1 DEF CInv, Data, DeleteRows
<1>5. \A b \in Ids : IF b \in S THEN ~Exists(b)' ELSE rows'[b] = rows[b] /\ (Exists(b)' <=> Exists(b))
  BY DEF DeleteRows, Exists
<1>6. OneRow'
  BY <1>5 DEF CInv, OneRow
<1>7. Cascade'
  BY <1>5 DEF CInv, Cascade, DeleteRows
<1> QED
  BY <1>3, <1>4, <1>6, <1>7

\* A scan prunes.
LEMMA ScanPruneKeeps ==
  ASSUME CInv, NEW w \in Workers, ScanPrune(w), calm' \subseteq Workers
  PROVE  CInv'
<1> DEFINE S == Stale(proc[w].index, proc[w].units)
<1>1. DeleteRows(S) /\ Go(w, Idle) /\ UNCHANGED <<disk, journal, calls>>
  BY DEF ScanPrune
<1> HIDE DEF S
<1>2. /\ rows' \in [Ids -> Row \cup {None}] /\ stored' \in [Ids -> Results]
      /\ cover' \in [Ids -> Urls] /\ decided' \in [Ids -> [cand : Cands \cup {None}, sort : BOOLEAN]]
      /\ OneRow' /\ Cascade'
  BY <1>1, RowsGo
<1>3. Data'
  BY <1>1, <1>2 DEF CInv, Data
<1> QED
  BY <1>1, <1>2, <1>3, IdleFits, StepKeeps DEF Procs

\* A request deletes its row.
LEMMA DeleteBooksKeeps ==
  ASSUME CInv, NEW r \in Requests, DeleteBooks(r), calm' \subseteq Workers
  PROVE  CInv'
<1> DEFINE S == {proc[r].book}
<1>1. DeleteRows(S) /\ Go(r, Idle) /\ UNCHANGED <<disk, journal, calls>>
  BY DEF DeleteBooks
<1> HIDE DEF S
<1>2. /\ rows' \in [Ids -> Row \cup {None}] /\ stored' \in [Ids -> Results]
      /\ cover' \in [Ids -> Urls] /\ decided' \in [Ids -> [cand : Cands \cup {None}, sort : BOOLEAN]]
      /\ OneRow' /\ Cascade'
  BY <1>1, RowsGo
<1>3. Data'
  BY <1>1, <1>2 DEF CInv, Data
<1> QED
  BY <1>1, <1>2, <1>3, IdleFits, StepKeeps DEF Procs

\* It removes the folder.
LEMMA RemoveBookFromDiskKeeps ==
  ASSUME CInv, NEW r \in Requests, RemoveBookFromDisk(r), calm' \subseteq Workers
  PROVE  CInv'
<1> DEFINE x == [at |-> "forget", book |-> proc[r].book]
<1>1. proc[r] \in Removing /\ Go(r, x) /\ UNCHANGED <<books, journal, calls>>
  BY AtIs DEF CInv, RemoveBookFromDisk, Procs
<1>2. x \in Forgetting /\ x.at = "forget"
  BY <1>1 DEF Removing, Forgetting
<1>3. Fits(r, x)
  BY <1>2 DEF Fits
<1>4. disk' \in [Dirs -> Contents \cup {None}]
  BY DEF CInv, Data, RemoveBookFromDisk
<1>5. Data' /\ OneRow' /\ Cascade'
  BY <1>1, <1>4 DEF CInv, Data, OneRow, Cascade, Exists, books
<1> HIDE DEF x
<1> QED
  BY <1>1, <1>2, <1>3, <1>5, StepKeeps DEF Procs

\* The error of a search is recorded, by a library job.
LEMMA ErrorIsKept ==
  ASSUME CInv, NEW p \in Procs, proc[p].at = "search", MatchError(p),
         UNCHANGED <<disk, stored, cover, decided, journal, calls>>, calm' \subseteq Workers
  PROVE  CInv'
<1>1. proc[p].book \in Ids /\ Fits(p, Then(p)) /\ Then(p).at \in {"next", "idle"} /\ Go(p, Then(p))
  BY AtIs, ThenFits DEF CInv, Searching, MatchError
<1>2. /\ rows' \in [Ids -> Row \cup {None}] /\ OneRow' /\ \A x \in Ids : Exists(x)' <=> Exists(x)
  <2>1. CASE SetState(proc[p].book, "error")
    BY <1>1, <2>1, StateIsSet DEF CInv
  <2>2. CASE UNCHANGED rows
    BY <2>2 DEF CInv, Data, OneRow, Exists
  <2> QED
    BY <2>1, <2>2 DEF MatchError
<1>3. Data' /\ Cascade'
  BY <1>2 DEF CInv, Data, Cascade
<1> QED
  BY <1>1, <1>2, <1>3, StepKeeps


\* A search fails.
LEMMA SearchFailsKeeps ==
  ASSUME CInv, NEW p \in Procs, SearchFails(p), calm' \subseteq Workers
  PROVE  CInv'
BY ErrorIsKept DEF SearchFails

\* A search returns: its results are stored, and the first of them is applied, or
\* a state is chosen.
LEMMA SearchReturnsKeeps ==
  ASSUME CInv, NEW p \in Procs, SearchReturns(p), calm' \subseteq Workers
  PROVE  CInv'
<1> DEFINE b == proc[p].book
           x(found) == [at |-> "apply", kind |-> proc[p].kind, book |-> b, copy |-> proc[p].copy,
                        cand |-> found[1], todo |-> proc[p].todo]
           y(found) == [at |-> "settle", kind |-> proc[p].kind, book |-> b, copy |-> proc[p].copy,
                        state |-> IF found = <<>> THEN "unmatched" ELSE "needs_review",
                        todo |-> proc[p].todo]
<1>1. proc[p] \in Searching /\ proc[p].at = "search"
  BY AtIs DEF CInv, SearchReturns
<1>2. UNCHANGED <<disk, cover, decided, journal, calls>>
  BY DEF SearchReturns
<1>3. PICK found \in Results :
       \/ /\ Exists(b) \/ found = <<>>
          /\ stored' = IF Exists(b) THEN [stored EXCEPT ![b] = found] ELSE stored
          /\ (found # <<>> /\ Go(p, x(found))) \/ Go(p, y(found))
          /\ UNCHANGED rows
       \/ ~Exists(b) /\ found # <<>> /\ MatchError(p) /\ UNCHANGED stored
  BY DEF SearchReturns
<1>4. CASE MatchError(p) /\ UNCHANGED stored
  BY <1>1, <1>2, <1>4, ErrorIsKept
<1>5. CASE /\ stored' = IF Exists(b) THEN [stored EXCEPT ![b] = found] ELSE stored
           /\ (found # <<>> /\ Go(p, x(found))) \/ Go(p, y(found))
           /\ UNCHANGED rows
  <2>1. Data' /\ OneRow' /\ Cascade'
    BY <1>1, <1>2, <1>5 DEF CInv, Data, OneRow, Cascade, Exists, Searching
  <2>2. CASE found # <<>> /\ Go(p, x(found))
    <3>1. found[1] \in Cands
      BY <2>2, CatalogAssumption
    <3>2. x(found) \in Applying /\ x(found).at = "apply" /\ x(found).kind # "top"
      BY <1>1, <3>1 DEF Applying, Searching, Kinds
    <3>3. Fits(p, x(found))
      BY <3>2 DEF Fits, Matching
    <3> HIDE DEF x
    <3> QED
      BY <1>2, <2>1, <2>2, <3>2, <3>3, StepKeeps
  <2>3. CASE Go(p, y(found))
    <3>1. y(found) \in Settling /\ y(found).at = "settle"
      BY <1>1 DEF Settling, Searching, Open
    <3>2. Fits(p, y(found))
      BY <3>1 DEF Fits, Matching
    <3> HIDE DEF y
    <3> QED
      BY <1>2, <2>1, <2>3, <3>1, <3>2, StepKeeps
  <2> QED
    BY <1>5, <2>2, <2>3
<1> QED
  BY <1>3, <1>4, <1>5

\* A match without a pick sets a state.
LEMMA SettleKeeps ==
  ASSUME CInv, NEW p \in Procs, Settle(p), calm' \subseteq Workers
  PROVE  CInv'
<1>1. /\ proc[p].book \in Ids /\ proc[p].state \in Open
      /\ Fits(p, Then(p)) /\ Then(p).at \in {"next", "idle"} /\ Go(p, Then(p))
      /\ UNCHANGED <<disk, stored, cover, decided, journal, calls>>
  BY AtIs, ThenFits DEF CInv, Settling, Settle
<1>2. /\ rows' \in [Ids -> Row \cup {None}] /\ OneRow' /\ \A x \in Ids : Exists(x)' <=> Exists(x)
  <2>1. CASE SetState(proc[p].book, proc[p].state)
    BY <1>1, <2>1, StateIsSet DEF CInv
  <2>2. CASE UNCHANGED rows
    BY <2>2 DEF CInv, Data, OneRow, Exists
  <2> QED
    BY <2>1, <2>2 DEF Settle
<1>3. Data' /\ Cascade'
  BY <1>1, <1>2 DEF CInv, Data, Cascade
<1> QED
  BY <1>1, <1>2, <1>3, StepKeeps

\* What a match makes of a row.
LEMMA AppliedIs ==
  ASSUME NEW r \in Row, NEW copy \in Row, NEW c \in Cands
  PROVE  /\ Applied(r, copy, c) \in Row /\ Applied(r, copy, c).dir = r.dir /\ Applied(r, copy, c).fp = r.fp
         /\ Applied(r, copy, c).state = "matched" /\ Applied(r, copy, c).cand = c
         /\ Applied(r, copy, c).sort = copy.sort
BY DEF Applied, Row, Accepted

\* A candidate is applied: to the row, if it is there.
LEMMA ApplyWrites ==
  ASSUME CInv, NEW p \in Procs, Apply(p), Exists(proc[p].book)
  PROVE  LET b == proc[p].book
             r == Applied(rows[b], proc[p].copy, proc[p].cand)
         IN /\ b \in Ids /\ r \in Row /\ r.dir = rows[b].dir /\ rows' = [rows EXCEPT ![b] = r]
            /\ decided' = CASE proc[p].kind = "accept" -> [decided EXCEPT ![b].cand = proc[p].cand]
                            [] proc[p].kind = "auto" -> [decided EXCEPT ![b].cand = None]
                            [] OTHER -> decided
            /\ Go(p, [at |-> "look", kind |-> proc[p].kind, book |-> b,
                      url |-> Cover[proc[p].cand], todo |-> proc[p].todo])
<1> DEFINE b == proc[p].book
           r == Applied(rows[b], proc[p].copy, proc[p].cand)
<1>1. /\ proc[p] \in Applying /\ b \in Ids /\ rows[b] \in Row
      /\ proc[p].copy \in Row /\ proc[p].cand \in Cands
  BY AtIs, RowIs DEF CInv, Apply, Applying
<1>2. r \in Row /\ r.dir = rows[b].dir
  <2> DEFINE row == rows[b]
             copy == proc[p].copy
             c == proc[p].cand
  <2>1. row \in Row /\ copy \in Row /\ c \in Cands
    BY <1>1
  <2> HIDE DEF row, copy, c
  <2>2. Applied(row, copy, c) \in Row /\ Applied(row, copy, c).dir = row.dir
    BY <2>1, AppliedIs
  <2> QED
    BY <2>2 DEF row, copy, c
<1>3. rows' = [rows EXCEPT ![b] = r]
  BY DEF Apply
<1>4. /\ decided' = CASE proc[p].kind = "accept" -> [decided EXCEPT ![b].cand = proc[p].cand]
                      [] proc[p].kind = "auto" -> [decided EXCEPT ![b].cand = None]
                      [] OTHER -> decided
      /\ Go(p, [at |-> "look", kind |-> proc[p].kind, book |-> b,
                url |-> Cover[proc[p].cand], todo |-> proc[p].todo])
  BY DEF Apply
<1> HIDE DEF r
<1> QED
  BY <1>1, <1>2, <1>3, <1>4 DEF r

\* So the tables stay as they should be.
LEMMA ApplyKeeps ==
  ASSUME CInv, NEW p \in Procs, Apply(p), calm' \subseteq Workers
  PROVE  CInv'
<1> DEFINE b == proc[p].book
           r == Applied(rows[b], proc[p].copy, proc[p].cand)
           x == [at |-> "look", kind |-> proc[p].kind, book |-> b,
                 url |-> Cover[proc[p].cand], todo |-> proc[p].todo]
<1>1. proc[p] \in Applying /\ proc[p].at = "apply" /\ b \in Ids
  BY AtIs DEF CInv, Apply, Applying
<1>2. UNCHANGED <<disk, stored, cover, journal, calls>>
  BY DEF Apply
<1>3. CASE Exists(b)
  <2>1. /\ r \in Row /\ r.dir = rows[b].dir /\ rows' = [rows EXCEPT ![b] = r]
        /\ decided' = CASE proc[p].kind = "accept" -> [decided EXCEPT ![b].cand = proc[p].cand]
                        [] proc[p].kind = "auto" -> [decided EXCEPT ![b].cand = None]
                        [] OTHER -> decided
        /\ Go(p, x)
    BY <1>3, ApplyWrites
  <2> HIDE DEF r
  <2>2. rows' \in [Ids -> Row \cup {None}] /\ OneRow' /\ \A i \in Ids : Exists(i)' <=> Exists(i)
    BY <1>1, <1>3, <2>1, RowChanges DEF CInv
  <2>3. decided' \in [Ids -> [cand : Cands \cup {None}, sort : BOOLEAN]]
    <3>1. decided \in [Ids -> [cand : Cands \cup {None}, sort : BOOLEAN]] /\ proc[p].cand \in Cands
      BY <1>1 DEF CInv, Data, Applying
    <3>2. \A c \in Cands \cup {None} :
            [decided EXCEPT ![b].cand = c] \in [Ids -> [cand : Cands \cup {None}, sort : BOOLEAN]]
      BY <3>1
    <3> QED
      BY <2>1, <3>1, <3>2
  <2>4. \A i \in Ids \ {b} : decided'[i] = decided[i]
    BY <2>1 DEF CInv, Data
  <2>5. Data' /\ Cascade'
    BY <1>2, <1>3, <2>2, <2>3, <2>4 DEF CInv, Data, Cascade
  <2>6. x \in Covering /\ x.at = "look"
    BY <1>1, CatalogAssumption DEF Applying, Covering, Urls
  <2>7. Fits(p, x)
    BY <2>6 DEF Fits, Matching
  <2> HIDE DEF x
  <2> QED
    BY <1>2, <2>1, <2>2, <2>5, <2>6, <2>7, StepKeeps
<1>4. CASE ~Exists(b)
  <2>1. UNCHANGED <<rows, decided>> /\ (Go(p, Idle) \/ Go(p, Then(p)))
    BY <1>4 DEF Apply
  <2>2. Fits(p, Then(p)) /\ Then(p).at \in {"next", "idle"}
    BY <1>1, ThenFits DEF CInv
  <2>3. Data' /\ OneRow' /\ Cascade'
    BY <1>2, <2>1 DEF CInv, Data, OneRow, Cascade, Exists
  <2> QED
    BY <1>2, <2>1, <2>2, <2>3, IdleFits, StepKeeps
<1> QED
  BY <1>3, <1>4

\* A stale cover is deleted.
LEMMA DropCoverKeeps ==
  ASSUME CInv, NEW p \in Procs, DropCover(p), calm' \subseteq Workers
  PROVE  CInv'
<1>1. /\ proc[p].at = "drop" /\ Go(p, ThenFetch(p)) /\ cover' = [cover EXCEPT ![proc[p].book] = None]
      /\ UNCHANGED <<disk, rows, stored, decided, journal, calls>>
  BY DEF DropCover
<1>2. Fits(p, ThenFetch(p)) /\ ThenFetch(p).at \in {"next", "idle", "fetch"}
  BY <1>1, FetchFits DEF CInv
<1>3. Data' /\ OneRow' /\ Cascade'
  BY <1>1 DEF CInv, Data, OneRow, Cascade, Exists, Urls
<1> QED
  BY <1>1, <1>2, <1>3, StepKeeps

\* A cover is stored, of a row that is there.
LEMMA StoreCoverKeeps ==
  ASSUME CInv, NEW p \in Procs, StoreCover(p), calm' \subseteq Workers
  PROVE  CInv'
<1>1. /\ proc[p].at = "download" /\ Go(p, Then(p)) /\ cover' = [cover EXCEPT ![proc[p].book] = proc[p].url]
      /\ Exists(proc[p].book) /\ UNCHANGED <<disk, rows, stored, decided, journal, calls>>
  BY DEF StoreCover
<1>2. Fits(p, Then(p)) /\ Then(p).at \in {"next", "idle"} /\ proc[p] \in Covering
  BY <1>1, ThenFits, AtIs DEF CInv
<1>3. proc[p].url \in Urls
  BY <1>2 DEF Covering
<1>4. Data' /\ OneRow' /\ Cascade'
  BY <1>1, <1>3 DEF CInv, Data, OneRow, Cascade, Exists
<1> QED
  BY <1>1, <1>2, <1>4, StepKeeps

\* Nobody goes anywhere, and no run changes.
LEMMA StillKeeps ==
  ASSUME CInv, UNCHANGED <<journal, proc>>, calls' = calls \/ Call, calm' \subseteq Workers,
         disk' \in [Dirs -> Contents \cup {None}], rows' \in [Ids -> Row \cup {None}], OneRow', Cascade',
         stored' = stored, cover' = cover,
         decided' \in [Ids -> [cand : Cands \cup {None}, sort : BOOLEAN]]
  PROVE  CInv'
<1>1. Held' /\ Gated'
  BY DEF CInv, Held, Fits, Gated, Organizing
<1>2. calls' \in 0 .. MaxCalls /\ calls \in Int /\ calls' \in Int /\ calls <= calls'
  BY CatalogAssumption DEF CInv, Data, Call
<1>3. Data'
  BY <1>2 DEF CInv, Data
<1>4. Runs'
  BY <1>2 DEF CInv, Runs, Data, Entry
<1> QED
  BY <1>1, <1>3, <1>4 DEF CInv

\* Somebody changes audio by hand.
LEMMA ChangeAudioKeeps ==
  ASSUME CInv, NEW d \in Dirs, ChangeAudio(d), calm' \subseteq Workers
  PROVE  CInv'
<1>1. /\ disk' \in [Dirs -> Contents \cup {None}] /\ Call
      /\ UNCHANGED <<rows, stored, cover, decided, journal, proc>>
  BY DEF ChangeAudio, books, CInv, Data
<1>2. OneRow' /\ Cascade' /\ rows' \in [Ids -> Row \cup {None}]
      /\ decided' \in [Ids -> [cand : Cands \cup {None}, sort : BOOLEAN]]
  BY <1>1 DEF CInv, OneRow, Cascade, Exists, Data
<1> QED
  BY <1>1, <1>2, StillKeeps

\* The user edits a sort name.
LEMMA PatchAuthorSortKeeps ==
  ASSUME CInv, NEW b \in Ids, PatchAuthorSort(b), calm' \subseteq Workers
  PROVE  CInv'
<1> DEFINE r == [rows[b] EXCEPT !.sort = "manual"]
<1>1. /\ Exists(b) /\ Call /\ rows' = [rows EXCEPT ![b] = r] /\ decided' = [decided EXCEPT ![b].sort = TRUE]
      /\ UNCHANGED <<disk, stored, cover, journal, proc>>
  BY DEF PatchAuthorSort
<1>2. r \in Row /\ r.dir = rows[b].dir
  BY <1>1, RowIs DEF CInv, Row
<1> HIDE DEF r
<1>3. rows' \in [Ids -> Row \cup {None}] /\ OneRow' /\ \A i \in Ids : Exists(i)' <=> Exists(i)
  BY <1>1, <1>2, RowChanges DEF CInv
<1>4. decided' \in [Ids -> [cand : Cands \cup {None}, sort : BOOLEAN]]
  BY <1>1 DEF CInv, Data
<1>5. Cascade'
  BY <1>1, <1>3 DEF CInv, Cascade, Data
<1>6. disk' \in [Dirs -> Contents \cup {None}]
  BY <1>1 DEF CInv, Data
<1> QED
  BY <1>1, <1>3, <1>4, <1>5, <1>6, StillKeeps


-----------------------------------------------------------------------------
(* A scan saves a book. *)

\* What is saved is a row of the folder, as the folder is.
LEMMA Built ==
  ASSUME NEW index \in Copies, NEW d \in Dirs, NEW fp \in Contents
  PROVE  BuildBook(index, d, fp) \in Row /\ BuildBook(index, d, fp).dir = d /\ BuildBook(index, d, fp).fp = fp
<1> DEFINE kept == {b \in Known(index, d) : index[b].state \in Accepted}
           c == CHOOSE b \in kept : TRUE
<1>1. CASE kept = {}
  <2>1. BuildBook(index, d, fp) = [dir |-> d, state |-> "unmatched", fp |-> fp, cand |-> None, sort |-> "derived"]
    BY <1>1 DEF BuildBook
  <2> QED
    BY <2>1 DEF Row, Open
<1>2. CASE kept # {}
  <2>1. BuildBook(index, d, fp) = [index[c] EXCEPT !.fp = fp]
    BY <1>2 DEF BuildBook
  <2>2. c \in kept
    BY <1>2
  <2>3. PICK S \in SUBSET Ids : index \in [S -> Row]
    BY DEF Copies
  <2>4. index[c] \in Row /\ index[c].dir = d
    BY <2>2, <2>3 DEF Known
  <2> HIDE DEF c, kept
  <2> QED
    BY <2>1, <2>4 DEF Row
<1> QED
  BY <1>1, <1>2

\* The folder that is saved was seen by the walk.
LEMMA SavesSeen ==
  ASSUME CInv, NEW w \in Workers, proc[w].at = "save", NEW d \in First(proc[w].left)
  PROVE  /\ proc[w] \in Saving /\ w \in Procs /\ OneCopy(proc[w])
         /\ d \in Dirs /\ d \in proc[w].left /\ proc[w].index \in Copies
         /\ d \in DOMAIN proc[w].units /\ proc[w].units[d] \in Contents
<1>1. proc[w] \in Saving /\ w \in Procs /\ OneCopy(proc[w])
  BY AtIs DEF CInv, Held, Fits, Procs
<1>2. d \in proc[w].left /\ d \in Dirs /\ proc[w].index \in Copies /\ proc[w].units \in Units
  BY <1>1 DEF Saving, First
<1>3. d \in DOMAIN proc[w].units /\ proc[w].units[d] \in Contents
  BY <1>1, <1>2 DEF OneCopy, Units
<1> QED
  BY <1>1, <1>2, <1>3

\* A row that is saved is the only one of its folder.
LEMMA UpsertRows ==
  ASSUME Data, OneRow, Cascade, NEW d \in Dirs, NEW b \in (IF At(d) # {} THEN At(d) ELSE Fresh),
         NEW r \in Row, r.dir = d, Upsert(b, r)
  PROVE  /\ b \in Ids /\ rows' \in [Ids -> Row \cup {None}] /\ OneRow'
         /\ rows'[b] = r /\ Exists(b)'
         /\ \A x \in Ids \ {b} : rows'[x] = rows[x] /\ (Exists(x)' <=> Exists(x))
<1>1. b \in Ids /\ r # None /\ rows' = [rows EXCEPT ![b] = r]
  BY CatalogAssumption DEF At, Fresh, Upsert
<1>2. rows' \in [Ids -> Row \cup {None}]
  BY <1>1 DEF Data
<1>3. \A x \in Ids \ {b} : rows'[x] = rows[x] /\ (Exists(x)' <=> Exists(x))
  BY <1>1 DEF Data, Exists
<1>4. rows'[b] = r /\ Exists(b)'
  BY <1>1 DEF Data, Exists
<1>5. \A x \in Ids \ {b} : Exists(x) => rows[x].dir # d
  <2>1. CASE At(d) # {}
    BY <2>1 DEF At, OneRow
  <2>2. CASE At(d) = {}
    BY <2>2 DEF At
  <2> QED
    BY <2>1, <2>2
<1>6. OneRow'
  BY <1>3, <1>4, <1>5 DEF OneRow
<1> QED
  BY <1>1, <1>2, <1>3, <1>4, <1>6

\* The runs are the same ones, but for whether their snapshots fit.
LEMMA UpsertRuns ==
  ASSUME Data, Runs, NEW b, NEW r, Upsert(b, r), calls' = calls
  PROVE  /\ journal' \subseteq Entry /\ Runs'
         /\ \A j \in journal : \E k \in journal' : k.run = j.run
<1> DEFINE f(j) == [j EXCEPT !.fits = @ /\ j.book # b]
<1>1. journal' = {f(j) : j \in journal}
  BY DEF Upsert
<1>2. \A j \in journal : f(j) \in Entry /\ f(j).run = j.run
  <2> TAKE j \in journal
  <2>1. j \in Entry
    BY DEF Data
  <2>2. (j.fits /\ j.book # b) \in BOOLEAN
    OBVIOUS
  <2> DEFINE y == j.fits /\ j.book # b
  <2>3. f(j) = [j EXCEPT !.fits = y] /\ y \in BOOLEAN
    BY <2>2
  <2> HIDE DEF y, f
  <2> QED
    BY <2>1, <2>3 DEF Entry
<1> HIDE DEF f
<1> QED
  BY <1>1, <1>2 DEF Runs

\* So the tables stay as they should be.
LEMMA ScanSaveKeeps ==
  ASSUME CInv, NEW w \in Workers, ScanSave(w), calm' \subseteq Workers
  PROVE  CInv'
<1> DEFINE index == proc[w].index
<1>1. PICK d \in First(proc[w].left) :
         /\ Go(w, [proc[w] EXCEPT !.left = @ \ {d}])
         /\ \/ UNCHANGED <<rows, journal>>
            \/ \E b \in (IF At(d) # {} THEN At(d) ELSE Fresh) :
                 Upsert(b, BuildBook(index, d, proc[w].units[d]))
  BY DEF ScanSave
<1>2. proc[w].at = "save" /\ UNCHANGED <<disk, stored, cover, decided, calls>>
  BY DEF ScanSave
<1>3. /\ proc[w] \in Saving /\ w \in Procs /\ OneCopy(proc[w]) /\ d \in Dirs
      /\ index \in Copies /\ proc[w].units[d] \in Contents
  BY <1>2, SavesSeen
<1> DEFINE x == [proc[w] EXCEPT !.left = @ \ {d}]
<1>4. x \in Saving /\ OneCopy(x) /\ x.at = "save"
  BY <1>3 DEF Saving, OneCopy
<1>5. Fits(w, x)
  BY <1>4 DEF Fits
<1>6. Go(w, x)
  BY <1>1
<1> HIDE DEF x
<1>7. CASE UNCHANGED <<rows, journal>>
  <2>1. Data' /\ OneRow' /\ Cascade'
    BY <1>2, <1>7 DEF CInv, Data, OneRow, Cascade, Exists
  <2> QED
    BY <1>2, <1>3, <1>4, <1>5, <1>6, <1>7, <2>1, StepKeeps
<1>8. CASE \E b \in (IF At(d) # {} THEN At(d) ELSE Fresh) : Upsert(b, BuildBook(index, d, proc[w].units[d]))
  <2> DEFINE r == BuildBook(index, d, proc[w].units[d])
  <2>1. r \in Row /\ r.dir = d
    BY <1>3, Built
  <2> HIDE DEF r
  <2>2. PICK b \in (IF At(d) # {} THEN At(d) ELSE Fresh) : Upsert(b, r)
    BY <1>8 DEF r
  <2>3. /\ b \in Ids /\ rows' \in [Ids -> Row \cup {None}] /\ OneRow' /\ Exists(b)'
        /\ \A i \in Ids \ {b} : rows'[i] = rows[i] /\ (Exists(i)' <=> Exists(i))
    BY <1>3, <2>1, <2>2, UpsertRows DEF CInv
  <2>4. /\ journal' \subseteq Entry /\ Runs' /\ \A j \in journal : \E k \in journal' : k.run = j.run
    BY <1>2, <2>2, UpsertRuns DEF CInv
  <2>5. Data' /\ Cascade'
    BY <1>2, <2>3, <2>4 DEF CInv, Data, Cascade
  <2>6. Held' /\ Gated'
    BY <1>3, <1>4, <1>5, <1>6, <2>4, Goes, GateStays DEF CInv
  <2> QED
    BY <2>3, <2>4, <2>5, <2>6 DEF CInv
<1> QED
  BY <1>1, <1>7, <1>8


-----------------------------------------------------------------------------
(* Organize and undo. *)

\* The run that an organizer works on, and it alone.
LEMMA RunIs ==
  ASSUME CInv, NEW w \in Workers, proc[w].at \in {"move", "finalize", "unmove", "restore"}
  PROVE  /\ Run(w) \in journal /\ Run(w) \in Entry /\ Run(w).run = proc[w].run
         /\ proc[w] \in Moving /\ w \in Procs /\ Organizing(w)
<1>1. proc[w] \in Moving /\ w \in Procs
  BY AtIs DEF CInv, Procs
<1>2. \E j \in journal : j.run = proc[w].run
  BY DEF CInv, Gated, Organizing
<1>3. Run(w) \in journal /\ Run(w).run = proc[w].run
  BY <1>2 DEF Run
<1> QED
  BY <1>1, <1>3 DEF CInv, Data, Organizing

\* Who enters the gate, or is inside, keeps everybody else out.
LEMMA OrganizerGoes ==
  ASSUME Held, Gated, NEW w \in Workers, Organizing(w) \/ Gate, NEW r, Go(w, r),
         r.at \in {"move", "finalize", "unmove", "restore"} => \E k \in journal' : k.run = r.run
  PROVE  Gated'
<1>1. /\ \A q \in Procs : q # w => proc'[q] = proc[q]
      /\ proc'[w] = r /\ Workers \subseteq Procs
  BY DEF Go, Held, Procs
<1>2. \A v \in Workers : v # w => ~Organizing(v)
  BY DEF Gate, Gated, Organizing
<1>3. \A v \in Workers : Organizing(v)' => v = w
  BY <1>1, <1>2 DEF Organizing
<1>4. Organizing(w)' => \E k \in journal' : k.run = (proc[w].run)'
  BY <1>1 DEF Organizing
<1> QED
  BY <1>3, <1>4 DEF Gated

\* What a move makes of the folders.
LEMMA MovedIs ==
  ASSUME Data, NEW d \in Dirs, NEW to \in Dirs, NEW c \in Contents
  PROVE  Moved(d, to, c) \in [Dirs -> Contents \cup {None}]
BY DEF Moved, Data

\* A run is given another state.
LEMMA JournalIs ==
  ASSUME Data, Runs, NEW j \in journal, NEW s \in {"running", "done", "back"}, Journal(j, s), calls' = calls
  PROVE  /\ journal' \subseteq Entry /\ Runs' /\ \E k \in journal' : k.run = j.run
<1> DEFINE k == [j EXCEPT !.status = s]
<1>1. k \in Entry /\ k.run = j.run /\ j \in Entry
  BY DEF Data, Entry
<1>2. journal' = (journal \ {j}) \cup {k}
  BY DEF Journal
<1> HIDE DEF k
<1>3. journal' \subseteq Entry /\ k \in journal'
  BY <1>1, <1>2 DEF Data
<1>4. Runs'
  BY <1>1, <1>2 DEF Runs
<1> QED
  BY <1>1, <1>3, <1>4

\* A run is forgotten.
LEMMA JournalWithout ==
  ASSUME Data, Runs, NEW j, journal' = journal \ {j}, calls' = calls
  PROVE  journal' \subseteq Entry /\ Runs'
BY DEF Data, Runs

\* A book is planned.
LEMMA PlanBookKeeps ==
  ASSUME CInv, NEW w \in Workers, PlanBook(w), calm' \subseteq Workers
  PROVE  CInv'
<1>1. PICK b \in Ids, to \in Dirs \ {Root} :
       /\ Exists(b) /\ rows[b].state \in Accepted /\ At(to) \subseteq {b}
       /\ disk[rows[b].dir] # None
       /\ journal' = journal \cup
            {[book |-> b, from |-> rows[b].dir, to |-> to, was |-> disk[rows[b].dir],
              state |-> rows[b].state, fits |-> TRUE, run |-> calls', status |-> "running"]}
  BY DEF PlanBook
<1> DEFINE k == [book |-> b, from |-> rows[b].dir, to |-> to, was |-> disk[rows[b].dir],
                 state |-> rows[b].state, fits |-> TRUE, run |-> calls', status |-> "running"]
           x == [at |-> "move", run |-> calls']
<1>2. Gate /\ Go(w, x) /\ w \in Procs /\ UNCHANGED <<disk, books>>
  BY DEF PlanBook, Procs
<1>3. calls' \in 0 .. MaxCalls /\ calls \in Int /\ calls' \in Nat /\ calls' = calls + 1
  BY CatalogAssumption DEF CInv, Data, PlanBook, Call
<1>4. rows[b] \in Row
  BY <1>1, RowIs DEF CInv
<1>5. rows[b].dir \in Dirs /\ disk[rows[b].dir] \in Contents
  BY <1>1, <1>4 DEF Row, CInv, Data
<1>6. k \in Entry /\ k.run = calls'
  BY <1>1, <1>3, <1>5 DEF Entry
<1>7. journal' = journal \cup {k}
  BY <1>1
<1>8. x \in Moving /\ x.at = "move" /\ x.run = calls'
  BY <1>3 DEF Moving
<1>9. Fits(w, x)
  BY <1>8 DEF Fits
<1> HIDE DEF k, x
<1>10. Held' /\ Gated'
  BY <1>2, <1>6, <1>7, <1>8, <1>9, Goes, OrganizerGoes DEF CInv
<1>11. Data' /\ OneRow' /\ Cascade'
  BY <1>2, <1>3, <1>6, <1>7 DEF CInv, Data, OneRow, Cascade, Exists, books
<1>12. Runs'
  <2>1. \A j \in journal : j.run \in Int /\ j.run <= calls
    BY DEF CInv, Runs, Data, Entry
  <2> QED
    BY <1>3, <1>6, <1>7, <2>1 DEF CInv, Runs
<1> QED
  BY <1>10, <1>11, <1>12 DEF CInv

\* Its audio is moved, or the run fails.
LEMMA MoveAudioKeeps ==
  ASSUME CInv, NEW w \in Workers, MoveAudio(w), calm' \subseteq Workers
  PROVE  CInv'
<1> DEFINE j == Run(w)
           x == [proc[w] EXCEPT !.at = "finalize"]
<1>1. /\ j \in journal /\ j \in Entry /\ j.run = proc[w].run /\ proc[w] \in Moving
      /\ w \in Procs /\ Organizing(w)
  BY RunIs DEF MoveAudio
<1>2. \/ /\ disk[j.from] # None
         /\ disk' = Moved(j.from, j.to, Renamed[disk[j.from]])
         /\ Go(w, x) /\ UNCHANGED journal
      \/ /\ Go(w, Idle) /\ journal' = journal \ {j}
         /\ UNCHANGED disk
  BY DEF MoveAudio
<1>3. UNCHANGED <<rows, stored, cover, decided, calls>>
  BY DEF MoveAudio, books
<1> HIDE DEF j
<1>4. OneRow' /\ Cascade'
  BY <1>3 DEF CInv, OneRow, Cascade, Exists
<1>5. CASE /\ disk[j.from] # None
           /\ disk' = Moved(j.from, j.to, Renamed[disk[j.from]])
           /\ Go(w, x) /\ UNCHANGED journal
  <2>1. x \in Moving /\ x.at = "finalize" /\ x.run = j.run
    BY <1>1 DEF Moving
  <2>2. Fits(w, x)
    BY <2>1 DEF Fits
  <2> HIDE DEF x
  <2>3. Held' /\ Gated'
    BY <1>1, <1>5, <2>1, <2>2, Goes, OrganizerGoes DEF CInv
  <2>4. disk' \in [Dirs -> Contents \cup {None}]
    <3>1. j.from \in Dirs /\ j.to \in Dirs /\ Renamed[disk[j.from]] \in Contents
      BY <1>1, <1>5, CatalogAssumption DEF Entry, CInv, Data
    <3> QED
      BY <1>5, <3>1, MovedIs DEF CInv
  <2>5. Data' /\ Runs'
    BY <1>3, <1>5, <2>4 DEF CInv, Data, Runs
  <2> QED
    BY <1>4, <2>3, <2>5 DEF CInv
<1>6. CASE Go(w, Idle) /\ journal' = journal \ {j} /\ UNCHANGED disk
  <2>1. Held' /\ Gated'
    BY <1>1, <1>6, IdleFits, Goes, OrganizerGoes DEF CInv
  <2>2. Data' /\ Runs'
    BY <1>3, <1>6, JournalWithout DEF CInv, Data
  <2> QED
    BY <1>4, <2>1, <2>2 DEF CInv
<1> QED
  BY <1>2, <1>5, <1>6

\* A book gets the folder and the state of its run, if no other has the folder.
LEMMA RowMoves ==
  ASSUME Data, OneRow, NEW b \in Ids, Exists(b), NEW to \in Dirs, NEW s \in Accepted, At(to) \subseteq {b},
         rows' = [rows EXCEPT ![b].dir = to, ![b].state = s]
  PROVE  /\ rows' \in [Ids -> Row \cup {None}] /\ OneRow'
         /\ \A x \in Ids : Exists(x)' <=> Exists(x)
         /\ \A x \in Ids : x # b => rows'[x] = rows[x]
         /\ rows'[b].cand = rows[b].cand /\ rows'[b].sort = rows[b].sort /\ rows'[b].state = s
<1> DEFINE r == [[rows[b] EXCEPT !.dir = to] EXCEPT !.state = s]
<1>1. rows[b] \in Row
  BY RowIs
<1>2. r \in Row /\ r.dir = to /\ r.cand = rows[b].cand /\ r.sort = rows[b].sort /\ r.state = s
  BY <1>1 DEF Row
<1>3. rows' = [rows EXCEPT ![b] = r]
  BY DEF Data
<1> HIDE DEF r
<1>4. rows' \in [Ids -> Row \cup {None}] /\ rows'[b] = r /\ r # None
  <2>1. r # None
    BY <1>2, CatalogAssumption
  <2>2. [rows EXCEPT ![b] = r] \in [Ids -> Row \cup {None}] /\ [rows EXCEPT ![b] = r][b] = r
    BY <1>2 DEF Data
  <2> QED
    BY <1>3, <2>1, <2>2
<1>5. \A x \in Ids : x # b => rows'[x] = rows[x] /\ (Exists(x) => rows[x].dir # to)
  BY <1>3 DEF Data, At
<1>6. \A x \in Ids : Exists(x)' <=> Exists(x)
  BY <1>4, <1>5 DEF Exists
<1>7. OneRow'
  BY <1>2, <1>4, <1>5, <1>6 DEF OneRow
<1> QED
  BY <1>2, <1>4, <1>5, <1>6, <1>7

\* The run is recorded, or taken back.
LEMMA FinalizeKeeps ==
  ASSUME CInv, NEW w \in Workers, Finalize(w), calm' \subseteq Workers
  PROVE  CInv'
<1> DEFINE j == Run(w)
<1>1. /\ j \in journal /\ j \in Entry /\ j.run = proc[w].run /\ proc[w] \in Moving
      /\ w \in Procs /\ Organizing(w)
  BY RunIs DEF Finalize
<1>2. \/ /\ Exists(j.book) /\ At(j.to) \subseteq {j.book}
         /\ rows' = [rows EXCEPT ![j.book].dir = j.to, ![j.book].state = "organized"]
         /\ Journal(j, "done") /\ UNCHANGED disk
      \/ /\ disk' = disk \/ disk' = Moved(j.to, j.from, j.was)
         /\ journal' = journal \ {j} /\ UNCHANGED rows
  BY DEF Finalize
<1>3. Go(w, Idle) /\ UNCHANGED <<stored, cover, decided, calls>>
  BY DEF Finalize
<1> HIDE DEF j
<1>4. Held' /\ Gated'
  BY <1>1, <1>3, IdleFits, Goes, OrganizerGoes DEF CInv
<1>5. j.from \in Dirs /\ j.to \in Dirs /\ j.was \in Contents /\ j.book \in Ids
  BY <1>1 DEF Entry
<1>6. CASE /\ Exists(j.book) /\ At(j.to) \subseteq {j.book}
           /\ rows' = [rows EXCEPT ![j.book].dir = j.to, ![j.book].state = "organized"]
           /\ Journal(j, "done") /\ UNCHANGED disk
  <2>1. journal' \subseteq Entry /\ Runs'
    BY <1>1, <1>3, <1>6, JournalIs DEF CInv
  <2>2. /\ rows' \in [Ids -> Row \cup {None}] /\ OneRow'
        /\ \A x \in Ids : Exists(x)' <=> Exists(x)
    BY <1>5, <1>6, RowMoves DEF CInv, Accepted
  <2>3. Data' /\ Cascade'
    BY <1>3, <1>6, <2>1, <2>2 DEF CInv, Data, Cascade
  <2> QED
    BY <1>4, <2>1, <2>2, <2>3 DEF CInv
<1>7. CASE /\ disk' = disk \/ disk' = Moved(j.to, j.from, j.was)
           /\ journal' = journal \ {j} /\ UNCHANGED rows
  <2>1. journal' \subseteq Entry /\ Runs'
    BY <1>3, <1>7, JournalWithout DEF CInv
  <2>2. disk' \in [Dirs -> Contents \cup {None}]
    BY <1>5, <1>7, MovedIs DEF CInv, Data
  <2>3. Data' /\ OneRow' /\ Cascade'
    BY <1>3, <1>7, <2>1, <2>2 DEF CInv, Data, OneRow, Cascade, Exists
  <2> QED
    BY <1>4, <2>1, <2>3 DEF CInv
<1> QED
  BY <1>2, <1>6, <1>7

\* An undo begins with a run of the journal.
LEMMA UndoKeeps ==
  ASSUME CInv, NEW w \in Workers, Undo(w), calm' \subseteq Workers
  PROVE  CInv'
<1>1. PICK j \in journal : Go(w, [at |-> IF j.status = "done" THEN "unmove" ELSE "restore", run |-> j.run])
  BY DEF Undo
<1> DEFINE x == [at |-> IF j.status = "done" THEN "unmove" ELSE "restore", run |-> j.run]
<1>2. Gate /\ Go(w, x) /\ w \in Procs /\ UNCHANGED <<disk, books, journal>>
  BY <1>1 DEF Undo, Procs
<1>3. calls' \in 0 .. MaxCalls /\ calls \in Int /\ calls' \in Int /\ calls <= calls'
  BY CatalogAssumption DEF CInv, Data, Undo, Call
<1>4. j.run \in Nat
  BY DEF CInv, Data, Entry
<1>5. x \in Moving /\ x.run = j.run
  BY <1>4 DEF Moving
<1>6. Fits(w, x)
  BY <1>5 DEF Fits, Moving
<1> HIDE DEF x
<1>7. Held' /\ Gated'
  BY <1>2, <1>5, <1>6, Goes, OrganizerGoes DEF CInv
<1>8. Data' /\ OneRow' /\ Cascade'
  BY <1>2, <1>3 DEF CInv, Data, OneRow, Cascade, Exists, books
<1>9. Runs'
  BY <1>2, <1>3 DEF CInv, Runs, Data, Entry
<1> QED
  BY <1>7, <1>8, <1>9 DEF CInv

\* The audio goes back.
LEMMA UndoMoveKeeps ==
  ASSUME CInv, NEW w \in Workers, UndoMove(w), calm' \subseteq Workers
  PROVE  CInv'
<1> DEFINE j == Run(w)
           x == [proc[w] EXCEPT !.at = "restore"]
<1>1. /\ j \in journal /\ j \in Entry /\ j.run = proc[w].run /\ proc[w] \in Moving
      /\ w \in Procs /\ Organizing(w)
  BY RunIs DEF UndoMove
<1>2. /\ \/ /\ disk' = disk \/ disk' = Moved(j.to, j.from, j.was)
            /\ Journal(j, "back") /\ Go(w, x)
         \/ Go(w, Idle) /\ UNCHANGED <<disk, journal>>
      /\ UNCHANGED <<books, calls>>
  BY DEF UndoMove
<1> HIDE DEF j
<1>3. OneRow' /\ Cascade' /\ UNCHANGED <<rows, stored, cover, decided, calls>>
  BY <1>2 DEF CInv, OneRow, Cascade, Exists, books
<1>4. CASE /\ disk' = disk \/ disk' = Moved(j.to, j.from, j.was)
           /\ Journal(j, "back") /\ Go(w, x)
  <2>1. journal' \subseteq Entry /\ Runs' /\ \E k \in journal' : k.run = j.run
    BY <1>1, <1>3, <1>4, JournalIs DEF CInv
  <2>2. disk' \in [Dirs -> Contents \cup {None}]
    BY <1>1, <1>4, MovedIs DEF CInv, Data, Entry
  <2>3. Data'
    BY <1>3, <2>1, <2>2 DEF CInv, Data
  <2>4. x \in Moving /\ x.run = j.run
    BY <1>1 DEF Moving
  <2>5. Fits(w, x)
    BY <2>4 DEF Fits, Moving
  <2> HIDE DEF x
  <2>6. Held' /\ Gated'
    BY <1>1, <1>4, <2>1, <2>4, <2>5, Goes, OrganizerGoes DEF CInv
  <2> QED
    BY <1>3, <2>1, <2>3, <2>6 DEF CInv
<1>5. CASE Go(w, Idle) /\ UNCHANGED <<disk, journal>>
  <2>1. Held' /\ Gated'
    BY <1>1, <1>5, IdleFits, Goes, OrganizerGoes DEF CInv
  <2>2. Data' /\ Runs'
    BY <1>3, <1>5 DEF CInv, Data, Runs
  <2> QED
    BY <1>3, <2>1, <2>2 DEF CInv
<1> QED
  BY <1>2, <1>4, <1>5

\* The row goes back.
LEMMA UndoRestoreKeeps ==
  ASSUME CInv, NEW w \in Workers, UndoRestore(w), calm' \subseteq Workers
  PROVE  CInv'
<1> DEFINE j == Run(w)
<1>1. /\ j \in journal /\ j \in Entry /\ w \in Procs /\ Organizing(w)
  BY RunIs DEF UndoRestore
<1>2. \/ /\ Exists(j.book) /\ At(j.from) \subseteq {j.book}
         /\ rows' = [rows EXCEPT ![j.book].dir = j.from, ![j.book].state = j.state]
         /\ journal' = journal \ {j}
      \/ UNCHANGED <<rows, journal>>
  BY DEF UndoRestore
<1>3. Go(w, Idle) /\ UNCHANGED <<disk, stored, cover, decided, calls>>
  BY DEF UndoRestore
<1> HIDE DEF j
<1>4. Held' /\ Gated'
  BY <1>1, <1>3, IdleFits, Goes, OrganizerGoes DEF CInv
<1>5. j.from \in Dirs /\ j.state \in Accepted /\ j.book \in Ids
  BY <1>1 DEF Entry
<1>6. CASE /\ Exists(j.book) /\ At(j.from) \subseteq {j.book}
           /\ rows' = [rows EXCEPT ![j.book].dir = j.from, ![j.book].state = j.state]
           /\ journal' = journal \ {j}
  <2>1. journal' \subseteq Entry /\ Runs'
    BY <1>3, <1>6, JournalWithout DEF CInv
  <2>2. /\ rows' \in [Ids -> Row \cup {None}] /\ OneRow'
        /\ \A x \in Ids : Exists(x)' <=> Exists(x)
    BY <1>5, <1>6, RowMoves DEF CInv
  <2>3. Data' /\ Cascade'
    BY <1>3, <2>1, <2>2 DEF CInv, Data, Cascade
  <2> QED
    BY <1>4, <2>1, <2>2, <2>3 DEF CInv
<1>7. CASE UNCHANGED <<rows, journal>>
  <2>1. Data' /\ OneRow' /\ Cascade' /\ Runs'
    BY <1>3, <1>7 DEF CInv, Data, OneRow, Cascade, Exists, Runs
  <2> QED
    BY <1>4, <2>1 DEF CInv
<1> QED
  BY <1>2, <1>6, <1>7


-----------------------------------------------------------------------------
(* The invariant holds at first, and every step keeps it. *)

\* At first one row stands for one folder with audio, and nobody does anything.
LEMMA InitCInv == ASSUME Init, calm = {} PROVE CInv
<1>1. /\ disk \in [Dirs -> Contents \cup {None}]
      /\ stored = [b \in Ids |-> <<>>]
      /\ journal = {} /\ proc = [p \in Procs |-> Idle] /\ calls = 0
  BY CatalogAssumption DEF Init
<1>2. PICK at \in [Ids -> Dirs \cup {None}], chosen \in [Ids -> Accepts \cup {None}] :
       /\ \A d \in Dirs : Cardinality({b \in Ids : at[b] = d}) = (IF disk[d] = None THEN 0 ELSE 1)
       /\ \A b \in Ids : at[b] = None => chosen[b] = None
       /\ rows = [b \in Ids |-> IF at[b] = None THEN None ELSE
                   [dir |-> at[b], fp |-> disk[at[b]], cand |-> chosen[b], sort |-> "derived",
                    state |-> IF chosen[b] = None THEN "unmatched" ELSE "matched"]]
       /\ decided = [b \in Ids |-> [Undecided EXCEPT !.cand = chosen[b]]]
       /\ cover = [b \in Ids |-> IF chosen[b] = None THEN None ELSE Cover[chosen[b]]]
  BY DEF Init
<1>3. \A d \in Dirs : IsFiniteSet({b \in Ids : at[b] = d})
  BY FS_Subset, CatalogAssumption
<1>4. \A b \in Ids : at[b] # None => at[b] \in Dirs /\ disk[at[b]] \in Contents
  <2> TAKE b \in Ids
  <2> HAVE at[b] # None
  <2>1. at[b] \in Dirs /\ b \in {x \in Ids : at[x] = at[b]}
    OBVIOUS
  <2>2. Cardinality({x \in Ids : at[x] = at[b]}) # 0
    BY <1>3, <2>1, FS_EmptySet
  <2>3. disk[at[b]] # None
    BY <1>2, <2>1, <2>2
  <2> QED
    BY <1>1, <2>1, <2>3
<1>5. \A b, x \in Ids : at[b] # None /\ at[b] = at[x] => b = x
  <2> TAKE b, x \in Ids
  <2> HAVE at[b] # None /\ at[b] = at[x]
  <2> DEFINE S == {y \in Ids : at[y] = at[b]}
  <2>1. at[b] \in Dirs /\ disk[at[b]] # None
    BY <1>4, CatalogAssumption
  <2>2. Cardinality(S) = 1 /\ IsFiniteSet(S)
    BY <1>2, <1>3, <2>1
  <2>3. \E y : S = {y}
    BY <2>2, FS_Singleton
  <2> QED
    BY <2>3
<1>6. \A b \in Ids : rows[b] \in Row \cup {None} /\ (Exists(b) <=> at[b] # None)
  <2> TAKE b \in Ids
  <2>1. CASE at[b] = None
    BY <1>2, <2>1 DEF Exists
  <2>2. CASE at[b] # None
    <3> DEFINE r == [dir |-> at[b], fp |-> disk[at[b]], cand |-> chosen[b], sort |-> "derived",
                     state |-> IF chosen[b] = None THEN "unmatched" ELSE "matched"]
    <3>1. chosen[b] \in Cands \cup {None}
      BY CatalogAssumption
    <3>2. r \in Row
      BY <1>4, <2>2, <3>1 DEF Row, Open, Accepted
    <3>3. rows[b] = r
      BY <1>2, <2>2
    <3> HIDE DEF r
    <3> QED
      BY <2>2, <3>2, <3>3, CatalogAssumption DEF Exists
  <2> QED
    BY <2>1, <2>2
<1>7. Data
  <2>1. rows \in [Ids -> Row \cup {None}]
    BY <1>2, <1>6
  <2>2. cover \in [Ids -> Urls]
    BY <1>2, CatalogAssumption DEF Urls
  <2>3. decided \in [Ids -> [cand : Cands \cup {None}, sort : BOOLEAN]]
    BY <1>2, CatalogAssumption DEF Undecided
  <2> QED
    BY <1>1, <2>1, <2>2, <2>3, CatalogAssumption DEF Data
<1>8. OneRow
  BY <1>2, <1>5, <1>6 DEF OneRow
<1>9. Cascade
  BY <1>1, <1>2, <1>6 DEF Cascade, Undecided
<1>10. Held
  BY <1>1, IdleFits DEF Held, Idle, Fits, Working, Serving, Matching
<1>11. Gated /\ Runs
  BY <1>1 DEF Gated, Runs, Organizing, Idle, Procs
<1> QED
  BY <1>7, <1>8, <1>9, <1>10, <1>11 DEF CInv

\* One step per action.
LEMMA StepCInv == ASSUME CInv, Step, calm' \subseteq Workers PROVE CInv'
<1>1. ASSUME NEW d \in Dirs, ChangeAudio(d) PROVE CInv'
  BY <1>1, ChangeAudioKeeps
<1>2. ASSUME NEW b \in Ids, PatchAuthorSort(b) PROVE CInv'
  BY <1>2, PatchAuthorSortKeeps
<1>3. ASSUME NEW w \in Workers, MatchLibrary(w) PROVE CInv'
  BY <1>3, ListKeeps DEF MatchLibrary, Procs
<1>4. ASSUME NEW w \in Workers, Scan(w) PROVE CInv'
  BY <1>4, ScanStartKeeps, ScanWalkKeeps, ScanIndexKeeps, ScanSaveKeeps, ScanPruneKeeps, ScanFailsKeeps DEF Scan
<1>5. ASSUME NEW w \in Workers, Organize(w) PROVE CInv'
  BY <1>5, PlanBookKeeps, MoveAudioKeeps, FinalizeKeeps, UndoKeeps, UndoMoveKeeps, UndoRestoreKeeps DEF Organize
<1>6. ASSUME NEW p \in Procs, Match(p) PROVE CInv'
  BY <1>6, MatchNextKeeps, TopNextKeeps, ListEndsKeeps, SearchReturnsKeeps, SearchFailsKeeps, SettleKeeps,
     ApplyKeeps, LookAtCoverKeeps, DropCoverKeeps, FetchCoverKeeps, StoreCoverKeeps, DownloadFailsKeeps DEF Match
<1>7. ASSUME NEW r \in Requests, Request(r) PROVE CInv'
  <2>1. CASE AcceptTopCandidates(r)
    BY <2>1, ListKeeps DEF AcceptTopCandidates, Procs
  <2> QED
    BY <1>7, <2>1, AutoMatchKeeps, AcceptKeeps, DeleteBookKeeps, RemoveBookFromDiskKeeps, DeleteBooksKeeps,
       DeleteFailsKeeps DEF Request
<1> QED
  BY <1>1, <1>2, <1>3, <1>4, <1>5, <1>6, <1>7 DEF Step

\* And a step of nobody.
LEMMA NextCInv == ASSUME CInv, [Next]_vars PROVE CInv'
<1>1. CASE Next
  <2>1. calm' \subseteq Workers
    BY <1>1 DEF Next
  <2> QED
    BY <1>1, <2>1, StepCInv DEF Next
<1>2. CASE UNCHANGED vars
  <2>1. UNCHANGED <<disk, rows, stored, cover, journal, proc, decided, calm, calls>>
    BY <1>2 DEF vars
  <2>2. Data' /\ OneRow' /\ Cascade'
    BY <2>1 DEF CInv, Data, OneRow, Cascade, Exists
  <2>3. Held' /\ Gated' /\ Runs'
    BY <2>1 DEF CInv, Held, Fits, Gated, Organizing, Runs
  <2> QED
    BY <2>1, <2>2, <2>3 DEF CInv
<1> QED
  BY <1>1, <1>2

\* What the invariant says of every state that can be reached.
THEOREM CatalogInvariance == Spec => []CInv
<1>1. Init => CInv
  BY InitCInv DEF Init
<1>2. CInv /\ [Next]_vars => CInv'
  BY NextCInv
<1> QED
  BY <1>1, <1>2, PTL DEF Spec

\* A folder has at most one row, for any number of rows.
LEMMA AtMostOne == ASSUME OneRow, NEW d \in Dirs PROVE Cardinality(At(d)) <= 1
<1>1. CASE At(d) = {}
  BY <1>1, FS_EmptySet
<1>2. CASE At(d) # {}
  <2>1. PICK b \in At(d) : TRUE
    BY <1>2
  <2>2. At(d) = {b}
    BY <2>1 DEF At, OneRow
  <2>3. Cardinality({b}) = 1
    BY FS_Singleton
  <2> QED
    BY <2>2, <2>3
<1> QED
  BY <1>1, <1>2

\* Every place of a goroutine is one of its program.
LEMMA Places ==
  ASSUME Held, NEW p \in Procs
  PROVE  proc[p].at \in {"idle"} \cup (IF p \in Workers THEN {"walk", "save", "move", "finalize", "unmove", "restore"}
                                     ELSE {"remove", "forget"})
                    \cup {"next", "search", "settle", "apply", "look", "drop", "fetch", "download"}
<1>1. Fits(p, proc[p])
  BY DEF Held
<1>2. \A r \in Matching : r.at \in {"idle", "next", "search", "settle", "apply", "look", "drop", "fetch", "download"}
  BY DEF Matching, Choosing, Searching, Settling, Applying, Covering, Idle
<1>3. \A r \in Walking \cup Saving \cup Moving :
        r.at \in {"walk", "save", "move", "finalize", "unmove", "restore"}
  BY DEF Walking, Saving, Moving
<1>4. \A r \in Removing \cup Forgetting : r.at \in {"remove", "forget"}
  BY DEF Removing, Forgetting
<1>5. p \in Requests => p \notin Workers
  BY CatalogAssumption
<1> QED
  BY <1>1, <1>2, <1>3, <1>4, <1>5 DEF Fits

\* Rows, local copies and history have their types, there is one row per folder, and
\* candidates, covers and decisions are of rows that are there (scan, match,
\* organize, undo and delete at the same time).
THEOREM TypeCorrect == Spec => []TypeOK
<1>1. ASSUME CInv PROVE TypeOK
  <2>1. Data /\ Held /\ OneRow /\ Cascade /\ calm \subseteq Workers
    BY <1>1 DEF CInv
  <2>2. cover \in [Ids -> {Cover[c] : c \in Cands} \cup {None}]
    BY <2>1 DEF Data, Urls
  <2>3. \A j \in journal : /\ j.book \in Ids /\ {j.from, j.to} \subseteq Dirs /\ j.was \in Contents
                           /\ j.state \in Accepted /\ j.fits \in BOOLEAN
                           /\ j.status \in {"running", "done", "back"}
    BY <2>1 DEF Data, Entry
  <2> QED
    BY <2>1, <2>2, <2>3, AtMostOne, Places DEF TypeOK, Data, Cascade
<1> QED
  BY <1>1, CatalogInvariance, PTL


-----------------------------------------------------------------------------
(* Decisions. *)

\* A decision is lost in a step, and who may lose one.
Lost(b) == Stands(b) /\ ~(Exists(b)' /\ Agrees(rows[b], b)')
Blamed(b) == \E p \in Procs : proc'[p] # proc[p] /\ (Overtaken(p, b) \/ Ends(p, b))

\* Nothing is lost where the row keeps its match, its sort name and, if it was accepted,
\* a state that says so.
LEMMA StillStands ==
  ASSUME NEW b \in Ids, Exists(b) => Exists(b)' /\ rows'[b].cand = rows[b].cand /\ rows'[b].sort = rows[b].sort,
         rows[b].state \in Accepted => rows'[b].state \in Accepted, decided'[b] = decided[b]
  PROVE  ~Lost(b)
BY DEF Lost, Stands, Agrees

\* Nor where nothing changes.
LEMMA SameStands == ASSUME NEW b \in Ids, rows'[b] = rows[b], decided'[b] = decided[b] PROVE ~Lost(b)
BY StillStands DEF Exists

\* A scan that saves writes back its copy of the row, or derives it afresh.
LEMMA ScanSaveStands ==
  ASSUME CInv, NEW w \in Workers, ScanSave(w), NEW b \in Ids, Lost(b)
  PROVE  Blamed(b)
<1> DEFINE index == proc[w].index
<1>1. proc[w].at = "save" /\ decided' = decided
  BY DEF ScanSave
<1>2. PICK d \in First(proc[w].left) :
         /\ Go(w, [proc[w] EXCEPT !.left = @ \ {d}])
         /\ \/ UNCHANGED <<rows, journal>>
            \/ \E x \in (IF At(d) # {} THEN At(d) ELSE Fresh) :
                 Upsert(x, BuildBook(index, d, proc[w].units[d]))
  BY DEF ScanSave
<1>3. /\ proc[w] \in Saving /\ w \in Procs /\ OneCopy(proc[w]) /\ d \in Dirs /\ d \in proc[w].left
      /\ index \in Copies /\ proc[w].units[d] \in Contents
  BY <1>1, SavesSeen
<1>4. rows' # rows
  BY <1>1, SameStands
<1>5. PICK x \in (IF At(d) # {} THEN At(d) ELSE Fresh) : Upsert(x, BuildBook(index, d, proc[w].units[d]))
  BY <1>2, <1>4
<1>6. x = b
  <2>1. CASE x # b
    <3>1. rows'[b] = rows[b]
      BY <1>5, <2>1 DEF Upsert, CInv, Data
    <3> QED
      BY <1>1, <3>1, SameStands
  <2> QED
    BY <2>1
<1>7. Exists(b) /\ Agrees(rows[b], b)
  BY DEF Lost, Stands
<1>8. rows[b].dir = d
  BY <1>5, <1>6, <1>7 DEF At, Fresh
<1>9. ASSUME b \in DOMAIN index, index[b].dir = d, index[b].state \in Accepted, Agrees(index[b], b)
      PROVE  FALSE
  <2> DEFINE kept == {i \in Known(index, d) : index[i].state \in Accepted}
             r == [index[b] EXCEPT !.fp = proc[w].units[d]]
  <2>1. kept = {b}
    BY <1>3, <1>9 DEF Known, OneCopy
  <2>2. BuildBook(index, d, proc[w].units[d]) = r
    <3>1. BuildBook(index, d, proc[w].units[d]) =
            [index[CHOOSE i \in kept : TRUE] EXCEPT !.fp = proc[w].units[d]]
      BY <2>1 DEF BuildBook
    <3>2. (CHOOSE i \in kept : TRUE) = b
      BY <2>1
    <3> QED
      BY <3>1, <3>2
  <2>3. index[b] \in Row
    BY <1>3, <1>9 DEF Copies
  <2>4. r \in Row /\ r.cand = index[b].cand /\ r.sort = index[b].sort /\ r.state = index[b].state
    BY <1>3, <2>3 DEF Row
  <2> HIDE DEF r
  <2>5. rows'[b] = r
    BY <1>5, <1>6, <2>2 DEF Upsert, CInv, Data
  <2>6. r # None
    BY <2>4, CatalogAssumption
  <2> QED
    BY <1>1, <1>9, <2>4, <2>5, <2>6 DEF Lost, Agrees, Exists
<1>10. Overtaken(w, b)
  BY <1>1, <1>8, <1>9 DEF Overtaken
<1>11. proc'[w] # proc[w]
  <2> DEFINE x1 == [proc[w] EXCEPT !.left = @ \ {d}]
  <2>1. x1.left = proc[w].left \ {d}
    BY <1>3 DEF Saving
  <2>2. proc'[w] = x1
    BY <1>2, <1>3 DEF Go, CInv, Held
  <2> HIDE DEF x1
  <2> QED
    BY <1>3, <2>1, <2>2
<1> QED
  BY <1>3, <1>10, <1>11 DEF Blamed

\* A goroutine that goes elsewhere has moved.
LEMMA Moves ==
  ASSUME Held, NEW p \in Procs, NEW r, Go(p, r), r.at # proc[p].at
  PROVE  proc'[p] # proc[p]
BY DEF Go, Held

\* A scan that prunes found no audio where its copy says.
LEMMA ScanPruneStands ==
  ASSUME CInv, NEW w \in Workers, ScanPrune(w), NEW b \in Ids, Lost(b)
  PROVE  Blamed(b)
<1>1. proc[w].at = "save" /\ w \in Procs /\ Go(w, Idle) /\ DeleteRows(Stale(proc[w].index, proc[w].units))
  BY DEF ScanPrune, Procs
<1>2. b \in Stale(proc[w].index, proc[w].units)
  <2>1. CASE b \notin Stale(proc[w].index, proc[w].units)
    <3>1. rows'[b] = rows[b] /\ decided'[b] = decided[b]
      BY <1>1, <2>1 DEF DeleteRows
    <3> QED
      BY <3>1, SameStands
  <2> QED
    BY <2>1
<1>3. b \in DOMAIN proc[w].index /\ proc[w].index[b].dir \notin DOMAIN proc[w].units
  BY <1>2 DEF Stale
<1>4. Overtaken(w, b) \/ Ends(w, b)
  BY <1>1, <1>3 DEF Overtaken, Ends
<1>5. proc'[w] # proc[w]
  BY <1>1, Moves DEF CInv, Idle
<1> QED
  BY <1>1, <1>4, <1>5 DEF Blamed

\* A request that deletes a row ends it.
LEMMA DeleteBooksStands ==
  ASSUME CInv, NEW r \in Requests, DeleteBooks(r), NEW b \in Ids, Lost(b)
  PROVE  Blamed(b)
<1>1. proc[r].at = "forget" /\ r \in Procs /\ Go(r, Idle) /\ DeleteRows({proc[r].book})
  BY DEF DeleteBooks, Procs
<1>2. b = proc[r].book
  <2>1. CASE b # proc[r].book
    <3>1. rows'[b] = rows[b] /\ decided'[b] = decided[b]
      BY <1>1, <2>1 DEF DeleteRows
    <3> QED
      BY <3>1, SameStands
  <2> QED
    BY <2>1
<1>3. proc'[r] # proc[r]
  BY <1>1, Moves DEF CInv, Idle
<1> QED
  BY <1>1, <1>2, <1>3 DEF Blamed, Ends

\* A state that is set costs a decision only where a candidate was decided on.
LEMMA StateSetStands ==
  ASSUME Data, OneRow, NEW x \in Ids, NEW s \in Open \cup Accepted \cup {"error"}, SetState(x, s),
         decided' = decided, NEW b \in Ids, Lost(b)
  PROVE  b = x /\ decided[b].cand # None
<1>1. Exists(b) /\ Agrees(rows[b], b)
  BY DEF Lost, Stands
<1>2. /\ \A i \in Ids : Exists(i)' <=> Exists(i)
      /\ \A i \in Ids \ {x} : rows'[i] = rows[i]
      /\ Exists(x) => rows'[x] = [rows[x] EXCEPT !.state = s]
  BY StateIsSet
<1>3. b = x
  BY <1>2, SameStands
<1>4. rows[b] \in Row
  BY <1>1, RowIs
<1>5. Exists(b)' /\ rows'[b].sort = rows[b].sort
  BY <1>1, <1>2, <1>3, <1>4 DEF Row
<1> QED
  BY <1>1, <1>3, <1>5 DEF Lost, Agrees

\* The error of a search, in a job that listed the book as open.
LEMMA ErrorStands ==
  ASSUME CInv, NEW p \in Procs, proc[p].at = "search", MatchError(p), decided' = decided,
         NEW b \in Ids, Lost(b)
  PROVE  Blamed(b)
<1>1. proc[p].book \in Ids /\ Go(p, Then(p)) /\ Then(p).at \in {"next", "idle"}
  BY AtIs, ThenFits DEF CInv, Searching, MatchError
<1>2. proc[p].kind = "match" /\ SetState(proc[p].book, "error")
  BY SameStands DEF MatchError
<1>3. b = proc[p].book /\ decided[b].cand # None
  BY <1>1, <1>2, StateSetStands DEF CInv
<1>4. proc'[p] # proc[p]
  BY <1>1, Moves DEF CInv
<1> QED
  BY <1>2, <1>3, <1>4 DEF Blamed, Overtaken

\* A match without a pick.
LEMMA SettleStands ==
  ASSUME CInv, NEW p \in Procs, Settle(p), NEW b \in Ids, Lost(b)
  PROVE  Blamed(b)
<1>1. /\ proc[p].book \in Ids /\ proc[p].state \in Open /\ Go(p, Then(p)) /\ Then(p).at \in {"next", "idle"}
      /\ proc[p].at = "settle" /\ decided' = decided
  BY AtIs, ThenFits DEF CInv, Settling, Settle
<1>2. proc[p].copy.state \notin Accepted /\ SetState(proc[p].book, proc[p].state)
  BY <1>1, SameStands DEF Settle
<1>3. b = proc[p].book /\ decided[b].cand # None
  BY <1>1, <1>2, StateSetStands DEF CInv
<1>4. proc'[p] # proc[p]
  BY <1>1, Moves DEF CInv
<1> QED
  BY <1>1, <1>2, <1>3, <1>4 DEF Blamed, Overtaken, Agrees

\* A match that is applied.
LEMMA ApplyStands ==
  ASSUME CInv, NEW p \in Procs, Apply(p), NEW b \in Ids, Lost(b)
  PROVE  Blamed(b)
<1> DEFINE r == Applied(rows[b], proc[p].copy, proc[p].cand)
           x == [at |-> "look", kind |-> proc[p].kind, book |-> proc[p].book,
                 url |-> Cover[proc[p].cand], todo |-> proc[p].todo]
<1>1. proc[p].at = "apply" /\ proc[p] \in Applying /\ Exists(b) /\ Agrees(rows[b], b) /\ decided[b] # Undecided
  BY AtIs DEF CInv, Apply, Lost, Stands
<1>2. Exists(proc[p].book)
  BY SameStands DEF Apply
<1>3. /\ rows' = [rows EXCEPT ![proc[p].book] = Applied(rows[proc[p].book], proc[p].copy, proc[p].cand)]
      /\ decided' = CASE proc[p].kind = "accept" -> [decided EXCEPT ![proc[p].book].cand = proc[p].cand]
                      [] proc[p].kind = "auto" -> [decided EXCEPT ![proc[p].book].cand = None]
                      [] OTHER -> decided
      /\ Go(p, x)
  BY <1>2, ApplyWrites
<1>4. proc[p].book = b
  <2>1. CASE proc[p].book # b
    <3>1. rows'[b] = rows[b] /\ decided'[b] = decided[b]
      BY <1>3, <2>1 DEF CInv, Data
    <3> QED
      BY <3>1, SameStands
  <2> QED
    BY <2>1
<1>5. /\ rows[b] \in Row /\ proc[p].copy \in Row /\ proc[p].cand \in Cands
      /\ decided[b] \in [cand : Cands \cup {None}, sort : BOOLEAN]
  BY <1>1, RowIs DEF CInv, Data, Applying
<1>6. /\ r \in Row /\ r.state = "matched" /\ r.cand = proc[p].cand /\ r.sort = proc[p].copy.sort
      /\ rows'[b] = r
  <2> DEFINE row == rows[b]
             copy == proc[p].copy
             c == proc[p].cand
  <2>1. row \in Row /\ copy \in Row /\ c \in Cands
    BY <1>5
  <2> HIDE DEF row, copy, c
  <2>2. /\ Applied(row, copy, c) \in Row /\ Applied(row, copy, c).state = "matched"
        /\ Applied(row, copy, c).cand = c /\ Applied(row, copy, c).sort = copy.sort
    BY <2>1, AppliedIs
  <2>3. rows'[b] = Applied(rows[b], proc[p].copy, proc[p].cand)
    BY <1>3, <1>4 DEF CInv, Data
  <2> QED
    BY <2>2, <2>3 DEF row, copy, c
<1> HIDE DEF r
<1>7. Exists(b)' /\ r.state \in Accepted
  BY <1>6, CatalogAssumption DEF Exists, Accepted
<1>8. decided'[b].sort = decided[b].sort
  <2>1. \A c \in Cands \cup {None} : [decided EXCEPT ![b].cand = c][b].sort = decided[b].sort
    BY <1>5 DEF CInv, Data
  <2> QED
    BY <1>3, <1>4, <1>5, <2>1
<1>9. ~ /\ decided'[b].cand # None => r.state \in Accepted /\ r.cand = decided'[b].cand
        /\ decided'[b].sort => r.sort = "manual"
  BY <1>6, <1>7 DEF Lost, Agrees
<1>10. Overtaken(p, b)
  <2>1. CASE decided[b].sort /\ proc[p].copy.sort # "manual"
    BY <1>1, <1>4, <2>1 DEF Overtaken, Agrees
  <2>2. CASE ~(decided[b].sort /\ proc[p].copy.sort # "manual")
    <3>1. decided'[b].cand # None /\ r.cand # decided'[b].cand
      BY <1>6, <1>7, <1>8, <1>9, <2>2
    <3>2. proc[p].kind # "accept"
      <4>1. CASE proc[p].kind = "accept"
        <5>1. decided'[b].cand = proc[p].cand
          BY <1>3, <1>4, <1>5, <4>1 DEF CInv, Data
        <5> QED
          BY <1>6, <3>1, <5>1
      <4> QED
        BY <4>1
    <3>3. proc[p].kind # "auto"
      <4>1. CASE proc[p].kind = "auto"
        <5>1. decided'[b].cand = None
          BY <1>3, <1>4, <1>5, <4>1 DEF CInv, Data
        <5> QED
          BY <3>1, <5>1
      <4> QED
        BY <4>1
    <3>4. decided' = decided
      BY <1>3, <3>2, <3>3
    <3>5. CASE proc[p].kind = "match"
      BY <1>1, <1>4, <3>1, <3>4, <3>5 DEF Overtaken
    <3>6. CASE proc[p].kind = "top"
      <4>1. proc[p].copy.state \in Open
        BY <1>1, <3>6 DEF CInv, Held, Fits
      <4>2. proc[p].copy.state \notin Accepted
        BY <4>1 DEF Open, Accepted
      <4> QED
        BY <1>1, <1>4, <3>1, <3>4, <4>2 DEF Overtaken, Agrees
    <3> QED
      BY <1>1, <3>2, <3>3, <3>5, <3>6 DEF Applying, Kinds
  <2> QED
    BY <2>1, <2>2
<1>11. proc'[p] # proc[p]
  BY <1>1, <1>3, Moves DEF CInv
<1> QED
  BY <1>10, <1>11 DEF Blamed


\* The user edits a sort name: that is a decision.
LEMMA PatchStands ==
  ASSUME CInv, NEW x \in Ids, PatchAuthorSort(x), NEW b \in Ids
  PROVE  ~Lost(b)
<1>1. /\ Exists(x) /\ rows' = [rows EXCEPT ![x].sort = "manual"] /\ decided' = [decided EXCEPT ![x].sort = TRUE]
  BY DEF PatchAuthorSort
<1>2. CASE b # x
  <2>1. rows'[b] = rows[b] /\ decided'[b] = decided[b]
    BY <1>1, <1>2 DEF CInv, Data
  <2> QED
    BY <2>1, SameStands
<1>3. CASE b = x
  <2>1. rows[b] \in Row /\ decided[b] \in [cand : Cands \cup {None}, sort : BOOLEAN]
    BY <1>1, <1>3, RowIs DEF CInv, Data
  <2> DEFINE r == [rows[b] EXCEPT !.sort = "manual"]
  <2>2. r \in Row /\ r.sort = "manual" /\ r.state = rows[b].state /\ r.cand = rows[b].cand
    BY <2>1 DEF Row
  <2>3. rows'[b] = r
    BY <1>1, <1>3 DEF CInv, Data
  <2>4. r # None
    BY <2>2, CatalogAssumption
  <2> HIDE DEF r
  <2>5. decided'[b].cand = decided[b].cand
    BY <1>1, <1>3, <2>1 DEF CInv, Data
  <2> QED
    BY <2>2, <2>3, <2>4, <2>5 DEF Lost, Stands, Agrees, Exists
<1> QED
  BY <1>2, <1>3

\* A row that moves keeps its match and is accepted.
LEMMA MovedRowStands ==
  ASSUME Data, OneRow, NEW x \in Ids, Exists(x), NEW to \in Dirs, NEW s \in Accepted, At(to) \subseteq {x},
         rows' = [rows EXCEPT ![x].dir = to, ![x].state = s], decided' = decided, NEW b \in Ids
  PROVE  ~Lost(b)
<1>1. /\ \A i \in Ids : Exists(i)' <=> Exists(i)
      /\ \A i \in Ids : i # x => rows'[i] = rows[i]
      /\ rows'[x].cand = rows[x].cand /\ rows'[x].sort = rows[x].sort /\ rows'[x].state = s
  BY RowMoves
<1>2. CASE b # x
  BY <1>1, <1>2, SameStands
<1>3. CASE b = x
  BY <1>1, <1>3, StillStands
<1> QED
  BY <1>2, <1>3

\* An organize or undo job loses no decision.
LEMMA OrganizeStands ==
  ASSUME CInv, NEW w \in Workers, Organize(w), NEW b \in Ids
  PROVE  ~Lost(b)
<1> DEFINE j == Run(w)
<1>1. ASSUME proc[w].at \in {"finalize", "restore"}
      PROVE  j.book \in Ids /\ j.from \in Dirs /\ j.to \in Dirs /\ j.state \in Accepted /\ "organized" \in Accepted
  BY <1>1, RunIs DEF Entry, Accepted
<1>2. CASE Finalize(w)
  <2>1. /\ proc[w].at = "finalize" /\ decided' = decided
        /\ \/ /\ Exists(j.book) /\ At(j.to) \subseteq {j.book}
              /\ rows' = [rows EXCEPT ![j.book].dir = j.to, ![j.book].state = "organized"]
           \/ UNCHANGED rows
    BY <1>2 DEF Finalize
  <2> HIDE DEF j
  <2> QED
    BY <1>1, <2>1, MovedRowStands, SameStands DEF CInv
<1>3. CASE UndoRestore(w)
  <2>1. /\ proc[w].at = "restore" /\ decided' = decided
        /\ \/ /\ Exists(j.book) /\ At(j.from) \subseteq {j.book}
              /\ rows' = [rows EXCEPT ![j.book].dir = j.from, ![j.book].state = j.state]
           \/ UNCHANGED rows
    BY <1>3 DEF UndoRestore
  <2> HIDE DEF j
  <2> QED
    BY <1>1, <2>1, MovedRowStands, SameStands DEF CInv
<1>4. CASE PlanBook(w) \/ MoveAudio(w) \/ Undo(w) \/ UndoMove(w)
  <2>1. UNCHANGED <<rows, decided>>
    BY <1>4 DEF PlanBook, MoveAudio, Undo, UndoMove, books
  <2> QED
    BY <2>1, SameStands
<1> QED
  BY <1>2, <1>3, <1>4 DEF Organize

\* Who loses a decision had read the book before it, or ends the book.
LEMMA StepStands == ASSUME CInv, Step, NEW b \in Ids, Lost(b) PROVE Blamed(b)
<1>1. rows' # rows \/ decided' # decided
  BY SameStands
<1>2. ASSUME NEW d \in Dirs, ChangeAudio(d) PROVE FALSE
  BY <1>1, <1>2 DEF ChangeAudio, books
<1>3. ASSUME NEW x \in Ids, PatchAuthorSort(x) PROVE FALSE
  BY <1>3, PatchStands
<1>4. ASSUME NEW w \in Workers, MatchLibrary(w) PROVE FALSE
  BY <1>1, <1>4 DEF MatchLibrary, List, books
<1>5. ASSUME NEW w \in Workers, Scan(w) PROVE Blamed(b)
  <2>1. ASSUME ScanStart(w) \/ ScanWalk(w) \/ ScanIndex(w) \/ ScanFails(w) PROVE FALSE
    BY <1>1, <2>1 DEF ScanStart, ScanWalk, ScanIndex, ScanFails, books
  <2> QED
    BY <1>5, <2>1, ScanSaveStands, ScanPruneStands DEF Scan
<1>6. ASSUME NEW w \in Workers, Organize(w) PROVE FALSE
  BY <1>6, OrganizeStands
<1>7. ASSUME NEW p \in Procs, Match(p) PROVE Blamed(b)
  <2>1. ASSUME \/ MatchNext(p) \/ TopNext(p) \/ ListEnds(p) \/ LookAtCover(p) \/ DropCover(p) \/ FetchCover(p)
               \/ StoreCover(p) \/ DownloadFails(p)
        PROVE  FALSE
    BY <1>1, <2>1 DEF MatchNext, TopNext, ListEnds, LookAtCover, DropCover, FetchCover, StoreCover,
       DownloadFails, books
  <2>2. CASE SearchReturns(p)
    <3>1. proc[p].at = "search" /\ decided' = decided /\ (UNCHANGED rows \/ MatchError(p))
      BY <2>2 DEF SearchReturns
    <3> QED
      BY <1>1, <3>1, ErrorStands
  <2>3. CASE SearchFails(p)
    BY <2>3, ErrorStands DEF SearchFails
  <2> QED
    BY <1>7, <2>1, <2>2, <2>3, SettleStands, ApplyStands DEF Match
<1>8. ASSUME NEW r \in Requests, Request(r) PROVE Blamed(b)
  <2>1. ASSUME \/ AcceptTopCandidates(r) \/ AutoMatch(r) \/ Accept(r) \/ DeleteBook(r)
               \/ RemoveBookFromDisk(r) \/ DeleteFails(r)
        PROVE  FALSE
    BY <1>1, <2>1 DEF AcceptTopCandidates, List, AutoMatch, Accept, DeleteBook, RemoveBookFromDisk,
       DeleteFails, books
  <2> QED
    BY <1>8, <2>1, DeleteBooksStands DEF Request
<1> QED
  BY <1>2, <1>3, <1>4, <1>5, <1>6, <1>7, <1>8 DEF Step

\* A decision of the user (an accepted candidate, an edited sort name) is lost only to
\* a goroutine that read the book before it, or with the book (scan, match, accept,
\* organize, undo and delete at the same time).
THEOREM DecisionsHold == Spec => DecisionsStand
<1>1. ASSUME CInv, [Next]_vars
      PROVE  [\A b \in Ids : Stands(b) /\ ~(Exists(b)' /\ Agrees(rows[b], b)') =>
                \E p \in Procs : proc'[p] # proc[p] /\ (Overtaken(p, b) \/ Ends(p, b))]_vars
  <2>1. CASE Next
    <3>1. \A b \in Ids : Lost(b) => Blamed(b)
      BY <1>1, <2>1, StepStands DEF Next
    <3> QED
      BY <3>1 DEF Lost, Blamed
  <2> QED
    BY <1>1, <2>1
<1> QED
  BY <1>1, CatalogInvariance, PTL DEF Spec, DecisionsStand


-----------------------------------------------------------------------------
(* Covers. *)

\* A cover goes stale in a step, and who may make it so.
Spoiled(b) == FreshCover(b) /\ ~FreshCover(b)'
Spoils(b) == \E p \in Procs : /\ proc'[p] # proc[p]
                              /\ \/ /\ proc[p].at \in {"look", "drop", "download"} /\ proc[p].book = b
                                    /\ proc[p].url # Url(b)
                                 \/ Rematched(p, b)

\* The row of b has no other match than before.
SameMatch(b) == Exists(b)' => Exists(b) /\ rows'[b].cand = rows[b].cand

\* While nobody who checks the cover moves, it is being checked.
LEMMA CheckingStays ==
  ASSUME Held, NEW p \in Procs, NEW r, Go(p, r), proc[p].at \notin {"look", "drop"}, NEW b
  PROVE  Checking(b) => Checking(b)'
<1>1. \A q \in Procs : q # p => proc'[q] = proc[q]
  BY DEF Held, Go
<1> QED
  BY <1>1 DEF Checking

\* What changes neither match nor cover spoils nothing.
LEMMA StaysFresh ==
  ASSUME NEW b, SameMatch(b), cover'[b] = cover[b], Checking(b) => Checking(b)'
  PROVE  ~Spoiled(b)
BY DEF SameMatch, Spoiled, FreshCover, Url

\* In particular a step that writes no row and no cover.
LEMMA ReaderKeepsFresh ==
  ASSUME Held, NEW p \in Procs, NEW r, Go(p, r), proc[p].at \notin {"look", "drop"}, UNCHANGED <<rows, cover>>, NEW b
  PROVE  ~Spoiled(b)
BY CheckingStays, StaysFresh DEF SameMatch, Exists

\* A state that is set is no match.
LEMMA StateKeepsMatch ==
  ASSUME Data, OneRow, NEW x \in Ids, NEW s \in Open \cup Accepted \cup {"error"}, SetState(x, s), NEW b \in Ids
  PROVE  SameMatch(b)
<1>1. /\ \A i \in Ids : Exists(i)' <=> Exists(i)
      /\ \A i \in Ids \ {x} : rows'[i] = rows[i]
      /\ Exists(x) => rows'[x] = [rows[x] EXCEPT !.state = s]
  BY StateIsSet
<1>2. Exists(x) => rows[x] \in Row
  BY RowIs
<1> QED
  BY <1>1, <1>2 DEF SameMatch, Row

\* Nor is a place.
LEMMA MoveKeepsMatch ==
  ASSUME Data, OneRow, NEW x \in Ids, Exists(x), NEW to \in Dirs, NEW s \in Accepted, At(to) \subseteq {x},
         rows' = [rows EXCEPT ![x].dir = to, ![x].state = s], NEW b \in Ids
  PROVE  SameMatch(b)
<1>1. /\ \A i \in Ids : Exists(i)' <=> Exists(i)
      /\ \A i \in Ids : i # x => rows'[i] = rows[i]
      /\ rows'[x].cand = rows[x].cand
  BY RowMoves
<1> QED
  BY <1>1 DEF SameMatch

\* A scan that saves writes back the match of its copy, or none.
LEMMA ScanSaveCovers ==
  ASSUME CInv, NEW w \in Workers, ScanSave(w), NEW b \in Ids, Spoiled(b)
  PROVE  Spoils(b)
<1> DEFINE index == proc[w].index
<1>1. proc[w].at = "save" /\ cover' = cover
  BY DEF ScanSave
<1>2. PICK d \in First(proc[w].left) :
         /\ Go(w, [proc[w] EXCEPT !.left = @ \ {d}])
         /\ \/ UNCHANGED <<rows, journal>>
            \/ \E x \in (IF At(d) # {} THEN At(d) ELSE Fresh) :
                 Upsert(x, BuildBook(index, d, proc[w].units[d]))
  BY DEF ScanSave
<1>3. /\ proc[w] \in Saving /\ w \in Procs /\ OneCopy(proc[w]) /\ d \in Dirs /\ d \in proc[w].left
      /\ index \in Copies /\ proc[w].units[d] \in Contents
  BY <1>1, SavesSeen
<1>4. Checking(b) => Checking(b)'
  BY <1>1, <1>2, <1>3, CheckingStays DEF CInv
<1>5. ~SameMatch(b)
  BY <1>1, <1>4, StaysFresh
<1>6. PICK x \in (IF At(d) # {} THEN At(d) ELSE Fresh) : Upsert(x, BuildBook(index, d, proc[w].units[d]))
  BY <1>2, <1>5 DEF SameMatch, Exists
<1> DEFINE r == BuildBook(index, d, proc[w].units[d])
<1>7. r \in Row
  BY <1>3, Built
<1>8. x = b
  <2>1. CASE x # b
    <3>1. rows'[b] = rows[b]
      BY <1>6, <2>1 DEF Upsert, CInv, Data
    <3> QED
      BY <1>5, <3>1 DEF SameMatch, Exists
  <2> QED
    BY <2>1
<1>9. rows'[b] = r
  BY <1>6, <1>8 DEF Upsert, CInv, Data
<1>10. Exists(b)
  <2>1. CASE ~Exists(b)
    <3>1. cover'[b] = None
      BY <1>1, <2>1 DEF CInv, Cascade
    <3> QED
      BY <3>1 DEF Spoiled, FreshCover
  <2> QED
    BY <2>1
<1>11. rows[b].dir = d
  BY <1>6, <1>8, <1>10 DEF At, Fresh
<1>12. r.cand # None /\ r.cand # rows[b].cand
  BY <1>5, <1>9, <1>10 DEF SameMatch, Spoiled, FreshCover
<1>13. ASSUME b \in DOMAIN index, index[b].dir = d, index[b].cand = rows[b].cand
       PROVE  FALSE
  <2> DEFINE kept == {i \in Known(index, d) : index[i].state \in Accepted}
  <2>1. kept \subseteq {b}
    BY <1>3, <1>13 DEF Known, OneCopy
  <2>2. CASE kept = {}
    <3>1. r = [dir |-> d, state |-> "unmatched", fp |-> proc[w].units[d], cand |-> None, sort |-> "derived"]
      BY <2>2 DEF BuildBook
    <3>2. r.cand = None
      BY <3>1
    <3> QED
      BY <1>12, <3>2
  <2>3. CASE kept = {b}
    <3>1. r = [index[CHOOSE i \in kept : TRUE] EXCEPT !.fp = proc[w].units[d]]
      BY <2>3 DEF BuildBook
    <3>2. (CHOOSE i \in kept : TRUE) = b
      BY <2>3
    <3>3. index[b] \in Row
      BY <1>3, <1>13 DEF Copies
    <3>4. [index[b] EXCEPT !.fp = proc[w].units[d]].cand = index[b].cand
      BY <3>3 DEF Row
    <3>5. r.cand = index[b].cand
      BY <3>1, <3>2, <3>4
    <3> QED
      BY <1>12, <1>13, <3>5
  <2> QED
    BY <2>1, <2>2, <2>3
<1>14. Rematched(w, b)
  BY <1>1, <1>11, <1>13 DEF Rematched
<1>15. proc'[w] # proc[w]
  <2> DEFINE x1 == [proc[w] EXCEPT !.left = @ \ {d}]
  <2>1. x1.left = proc[w].left \ {d}
    BY <1>3 DEF Saving
  <2>2. proc'[w] = x1
    BY <1>2, <1>3 DEF Go, CInv, Held
  <2> HIDE DEF x1
  <2> QED
    BY <1>3, <2>1, <2>2
<1> QED
  BY <1>3, <1>14, <1>15 DEF Spoils

\* Rows that go take their covers with them.
LEMMA DeletionCovers ==
  ASSUME CInv, NEW p \in Procs, NEW S, DeleteRows(S), Go(p, Idle), proc[p].at \in {"save", "forget"}, NEW b \in Ids
  PROVE  ~Spoiled(b)
<1>1. CASE b \in S
  BY <1>1 DEF DeleteRows, Spoiled, FreshCover, Exists
<1>2. CASE b \notin S
  <2>1. cover'[b] = cover[b] /\ SameMatch(b)
    BY <1>2 DEF DeleteRows, SameMatch, Exists
  <2>2. Checking(b) => Checking(b)'
    BY CheckingStays DEF CInv
  <2> QED
    BY <2>1, <2>2, StaysFresh
<1> QED
  BY <1>1, <1>2

\* A search that fails to store its results, or finds nothing, changes at most a state.
LEMMA SearchCovers ==
  ASSUME CInv, NEW p \in Procs, SearchReturns(p) \/ SearchFails(p) \/ Settle(p), NEW b \in Ids
  PROVE  ~Spoiled(b)
<1>1. proc[p].at \in {"search", "settle"} /\ cover' = cover /\ \E r : Go(p, r)
  BY DEF SearchReturns, SearchFails, Settle, MatchError
<1>2. Checking(b) => Checking(b)'
  BY <1>1, CheckingStays DEF CInv
<1>3. proc[p].book \in Ids /\ (proc[p].at = "settle" => proc[p].state \in Open)
  BY <1>1, AtIs DEF CInv, Searching, Settling
<1>4. SameMatch(b)
  <2>1. CASE rows' = rows
    BY <2>1 DEF SameMatch, Exists
  <2>2. CASE SetState(proc[p].book, "error")
    BY <1>3, <2>2, StateKeepsMatch DEF CInv
  <2>3. CASE proc[p].at = "settle" /\ SetState(proc[p].book, proc[p].state)
    BY <1>3, <2>3, StateKeepsMatch DEF CInv
  <2>4. rows' = rows \/ SetState(proc[p].book, "error")
        \/ (proc[p].at = "settle" /\ SetState(proc[p].book, proc[p].state))
    BY DEF SearchReturns, SearchFails, Settle, MatchError
  <2> QED
    BY <2>1, <2>2, <2>3, <2>4
<1> QED
  BY <1>1, <1>2, <1>4, StaysFresh

\* Whoever applies a match looks at the cover next.
LEMMA ApplyCovers ==
  ASSUME CInv, NEW p \in Procs, Apply(p), NEW b \in Ids
  PROVE  ~Spoiled(b)
<1>1. proc[p].at = "apply" /\ cover' = cover
  BY DEF Apply
<1>2. CASE ~Exists(proc[p].book)
  <2>1. UNCHANGED rows /\ \E r : Go(p, r)
    BY <1>2 DEF Apply
  <2> QED
    BY <1>1, <2>1, ReaderKeepsFresh DEF CInv
<1>3. CASE Exists(proc[p].book)
  <2> DEFINE x == [at |-> "look", kind |-> proc[p].kind, book |-> proc[p].book,
                   url |-> Cover[proc[p].cand], todo |-> proc[p].todo]
  <2>1. /\ rows' = [rows EXCEPT ![proc[p].book] = Applied(rows[proc[p].book], proc[p].copy, proc[p].cand)]
        /\ Go(p, x)
    BY <1>3, ApplyWrites
  <2>2. CASE b = proc[p].book
    <3>1. proc'[p] = x /\ x.at = "look" /\ x.book = b
      BY <2>1, <2>2 DEF Go, CInv, Held
    <3> HIDE DEF x
    <3>2. Checking(b)'
      BY <3>1 DEF Checking
    <3> QED
      BY <3>2 DEF Spoiled, FreshCover
  <2>3. CASE b # proc[p].book
    <3>1. SameMatch(b)
      BY <2>1, <2>3 DEF CInv, Data, SameMatch, Exists
    <3>2. Checking(b) => Checking(b)'
      BY <1>1, <2>1, CheckingStays DEF CInv
    <3> QED
      BY <1>1, <3>1, <3>2, StaysFresh
  <2> QED
    BY <2>2, <2>3
<1> QED
  BY <1>2, <1>3


\* Whoever looks at the cover of its book and goes on either finds it fresh, or deletes
\* it next, or has another address in hand.
LEMMA LookCovers ==
  ASSUME CInv, NEW p \in Procs, LookAtCover(p), NEW b \in Ids, Spoiled(b)
  PROVE  Spoils(b)
<1>1. /\ proc[p].at = "look" /\ UNCHANGED <<rows, cover>> /\ proc[p] \in Covering
      /\ Go(p, IF cover[proc[p].book] \in {None, proc[p].url} THEN ThenFetch(p)
               ELSE [proc[p] EXCEPT !.at = "drop"])
  BY AtIs DEF CInv, LookAtCover, books
<1>2. SameMatch(b) /\ cover'[b] = cover[b]
  BY <1>1 DEF SameMatch, Exists
<1>3. Checking(b) /\ ~Checking(b)' /\ cover[b] \notin {None, Url(b)}
  BY <1>1, <1>2, StaysFresh DEF Spoiled, FreshCover, Url, Exists
<1>4. /\ \A q \in Procs : q # p => proc'[q] = proc[q]
      /\ proc'[p] = IF cover[proc[p].book] \in {None, proc[p].url} THEN ThenFetch(p)
                    ELSE [proc[p] EXCEPT !.at = "drop"]
  BY <1>1 DEF CInv, Held, Go
<1>5. proc[p].book = b
  BY <1>3, <1>4 DEF Checking
<1>6. proc'[p] # [proc[p] EXCEPT !.at = "drop"]
  <2> DEFINE x == [proc[p] EXCEPT !.at = "drop"]
  <2>1. x.at = "drop" /\ x.book = b
    BY <1>1, <1>5 DEF Covering
  <2> HIDE DEF x
  <2>2. proc'[p] # x
    BY <1>3, <2>1 DEF Checking
  <2> QED
    BY <2>2 DEF x
<1>7. cover[b] = proc[p].url
  BY <1>3, <1>4, <1>5, <1>6
<1>8. proc'[p] # proc[p]
  BY <1>1, <1>3, <1>5 DEF Checking
<1> QED
  BY <1>1, <1>3, <1>5, <1>7, <1>8 DEF Spoils

\* A cover that is deleted is not stale.
LEMMA DropCovers ==
  ASSUME CInv, NEW p \in Procs, DropCover(p), NEW b \in Ids
  PROVE  ~Spoiled(b)
<1>1. /\ proc[p].at = "drop" /\ rows' = rows /\ Go(p, ThenFetch(p))
      /\ cover' = [cover EXCEPT ![proc[p].book] = None]
  BY DEF DropCover
<1>2. CASE b = proc[p].book
  BY <1>1, <1>2 DEF CInv, Data, Spoiled, FreshCover
<1>3. CASE b # proc[p].book
  <2>1. cover'[b] = cover[b] /\ SameMatch(b)
    BY <1>1, <1>3 DEF CInv, Data, SameMatch, Exists
  <2>2. \A q \in Procs : q # p => proc'[q] = proc[q]
    BY <1>1 DEF CInv, Held, Go
  <2>3. Checking(b) => Checking(b)'
    BY <1>3, <2>2 DEF Checking
  <2> QED
    BY <2>1, <2>3, StaysFresh
<1> QED
  BY <1>2, <1>3

\* Whoever stores a cover of another address had it in hand.
LEMMA StoreCovers ==
  ASSUME CInv, NEW p \in Procs, StoreCover(p), NEW b \in Ids, Spoiled(b)
  PROVE  Spoils(b)
<1>1. /\ proc[p].at = "download" /\ rows' = rows /\ Go(p, Then(p))
      /\ cover' = [cover EXCEPT ![proc[p].book] = proc[p].url]
  BY DEF StoreCover
<1>2. Checking(b) => Checking(b)'
  BY <1>1, CheckingStays DEF CInv
<1>3. SameMatch(b)
  BY <1>1 DEF SameMatch, Exists
<1>4. cover'[b] # cover[b]
  BY <1>2, <1>3, StaysFresh
<1>5. b = proc[p].book /\ cover'[b] = proc[p].url
  BY <1>1, <1>4 DEF CInv, Data
<1>6. proc[p].url # Url(b)
  BY <1>1, <1>5 DEF Spoiled, FreshCover, Url
<1>7. proc'[p] # proc[p]
  <2>1. Then(p).at \in {"next", "idle"}
    BY <1>1, ThenFits DEF CInv
  <2> QED
    BY <1>1, <2>1, Moves DEF CInv
<1> QED
  BY <1>1, <1>5, <1>6, <1>7 DEF Spoils

\* Nor does anything outside of matching and scanning make a cover stale.
LEMMA OrganizeCovers ==
  ASSUME CInv, NEW w \in Workers, Organize(w), NEW b \in Ids
  PROVE  ~Spoiled(b)
<1> DEFINE j == Run(w)
<1>1. ASSUME proc[w].at \in {"finalize", "restore"}
      PROVE  j.book \in Ids /\ j.from \in Dirs /\ j.to \in Dirs /\ j.state \in Accepted /\ "organized" \in Accepted
  BY <1>1, RunIs DEF Entry, Accepted
<1>2. cover' = cover /\ proc[w].at \notin {"look", "drop"} /\ w \in Procs /\ \E r : Go(w, r)
  <2>1. w \in Procs /\ Idle.at = "idle"
    BY IdleFits DEF Procs
  <2>2. CASE PlanBook(w)
    BY <2>1, <2>2 DEF PlanBook, books
  <2>3. CASE MoveAudio(w)
    BY <2>1, <2>3 DEF MoveAudio, books
  <2>4. CASE Finalize(w)
    BY <2>1, <2>4 DEF Finalize
  <2>5. CASE Undo(w)
    BY <2>1, <2>5 DEF Undo, books
  <2>6. CASE UndoMove(w)
    BY <2>1, <2>6 DEF UndoMove, books
  <2>7. CASE UndoRestore(w)
    BY <2>1, <2>7 DEF UndoRestore
  <2> QED
    BY <2>2, <2>3, <2>4, <2>5, <2>6, <2>7 DEF Organize
<1>3. Checking(b) => Checking(b)'
  BY <1>2, CheckingStays DEF CInv
<1>4. SameMatch(b)
  <2>1. CASE Finalize(w)
    <3>1. /\ proc[w].at = "finalize"
          /\ \/ /\ Exists(j.book) /\ At(j.to) \subseteq {j.book}
                /\ rows' = [rows EXCEPT ![j.book].dir = j.to, ![j.book].state = "organized"]
             \/ UNCHANGED rows
      BY <2>1 DEF Finalize
    <3> HIDE DEF j
    <3>2. CASE UNCHANGED rows
      BY <3>2 DEF SameMatch, Exists
    <3> QED
      BY <1>1, <3>1, <3>2, MoveKeepsMatch DEF CInv
  <2>2. CASE UndoRestore(w)
    <3>1. /\ proc[w].at = "restore"
          /\ \/ /\ Exists(j.book) /\ At(j.from) \subseteq {j.book}
                /\ rows' = [rows EXCEPT ![j.book].dir = j.from, ![j.book].state = j.state]
             \/ UNCHANGED rows
      BY <2>2 DEF UndoRestore
    <3> HIDE DEF j
    <3>2. CASE UNCHANGED rows
      BY <3>2 DEF SameMatch, Exists
    <3> QED
      BY <1>1, <3>1, <3>2, MoveKeepsMatch DEF CInv
  <2>3. CASE PlanBook(w) \/ MoveAudio(w) \/ Undo(w) \/ UndoMove(w)
    <3>1. UNCHANGED rows
      BY <2>3 DEF PlanBook, MoveAudio, Undo, UndoMove, books
    <3> QED
      BY <3>1 DEF SameMatch, Exists
  <2> QED
    BY <2>1, <2>2, <2>3 DEF Organize
<1> QED
  BY <1>2, <1>3, <1>4, StaysFresh

\* An edited sort name is no match.
LEMMA PatchCovers ==
  ASSUME CInv, NEW x \in Ids, PatchAuthorSort(x), NEW b \in Ids
  PROVE  ~Spoiled(b)
<1>1. Exists(x) /\ rows' = [rows EXCEPT ![x].sort = "manual"] /\ UNCHANGED <<cover, proc>>
  BY DEF PatchAuthorSort
<1>2. rows[x] \in Row
  BY <1>1, RowIs DEF CInv
<1>3. SameMatch(b)
  BY <1>1, <1>2 DEF CInv, Data, SameMatch, Exists, Row
<1>4. Checking(b) => Checking(b)'
  BY <1>1 DEF Checking
<1> QED
  BY <1>1, <1>3, <1>4, StaysFresh

\* Who makes a cover stale is a match that another one overtook, or a scan that one did.
LEMMA StepCovers == ASSUME CInv, Step, NEW b \in Ids, Spoiled(b) PROVE Spoils(b)
<1>1. ASSUME NEW d \in Dirs, ChangeAudio(d) PROVE FALSE
  BY <1>1, StaysFresh DEF ChangeAudio, books, SameMatch, Exists, Checking
<1>2. ASSUME NEW x \in Ids, PatchAuthorSort(x) PROVE FALSE
  BY <1>2, PatchCovers
<1>3. ASSUME NEW p \in Procs, NEW kind, List(p, kind) PROVE FALSE
  <2>1. proc[p].at \notin {"look", "drop"} /\ UNCHANGED <<rows, cover>> /\ \E r : Go(p, r)
    BY <1>3 DEF List, books, Idle
  <2> QED
    BY <2>1, ReaderKeepsFresh DEF CInv
<1>4. ASSUME NEW w \in Workers, Scan(w) PROVE Spoils(b)
  <2>1. ASSUME ScanStart(w) \/ ScanWalk(w) \/ ScanIndex(w) \/ ScanFails(w) PROVE FALSE
    <3>1. proc[w].at \notin {"look", "drop"} /\ UNCHANGED <<rows, cover>> /\ w \in Procs /\ \E r : Go(w, r)
      <4>1. w \in Procs /\ Idle.at = "idle"
        BY IdleFits DEF Procs
      <4>2. CASE ScanStart(w)
        BY <4>1, <4>2 DEF ScanStart, books
      <4>3. CASE ScanWalk(w)
        BY <4>1, <4>3 DEF ScanWalk, books
      <4>4. CASE ScanIndex(w)
        BY <4>1, <4>4 DEF ScanIndex, books
      <4>5. CASE ScanFails(w)
        BY <4>1, <4>5 DEF ScanFails, books
      <4> QED
        BY <2>1, <4>2, <4>3, <4>4, <4>5
    <3> QED
      BY <3>1, ReaderKeepsFresh DEF CInv
  <2>2. ASSUME ScanPrune(w) PROVE FALSE
    BY <2>2, DeletionCovers DEF ScanPrune, Procs
  <2> QED
    BY <1>4, <2>1, <2>2, ScanSaveCovers DEF Scan
<1>5. ASSUME NEW w \in Workers, Organize(w) PROVE FALSE
  BY <1>5, OrganizeCovers
<1>6. ASSUME NEW p \in Procs, Match(p) PROVE Spoils(b)
  <2>1. ASSUME MatchNext(p) \/ TopNext(p) \/ ListEnds(p) \/ FetchCover(p) \/ DownloadFails(p) PROVE FALSE
    <3>1. proc[p].at \notin {"look", "drop"} /\ UNCHANGED <<rows, cover>> /\ \E r : Go(p, r)
      BY <2>1 DEF MatchNext, TopNext, ListEnds, FetchCover, DownloadFails, books
    <3> QED
      BY <3>1, ReaderKeepsFresh DEF CInv
  <2> QED
    BY <1>6, <2>1, SearchCovers, ApplyCovers, LookCovers, DropCovers, StoreCovers DEF Match
<1>7. ASSUME NEW r \in Requests, Request(r) PROVE FALSE
  <2>1. ASSUME AutoMatch(r) \/ Accept(r) \/ DeleteBook(r) \/ RemoveBookFromDisk(r) \/ DeleteFails(r) PROVE FALSE
    <3>1. proc[r].at \notin {"look", "drop"} /\ UNCHANGED <<rows, cover>> /\ r \in Procs /\ \E x : Go(r, x)
      <4>1. r \in Procs /\ Idle.at = "idle"
        BY IdleFits DEF Procs
      <4>2. CASE AutoMatch(r) \/ Accept(r)
        BY <4>1, <4>2 DEF AutoMatch, Accept, books
      <4>3. CASE DeleteBook(r)
        BY <4>1, <4>3 DEF DeleteBook, books
      <4>4. CASE RemoveBookFromDisk(r) \/ DeleteFails(r)
        BY <4>1, <4>4 DEF RemoveBookFromDisk, DeleteFails, books
      <4> QED
        BY <2>1, <4>2, <4>3, <4>4
    <3> QED
      BY <3>1, ReaderKeepsFresh DEF CInv
  <2>2. ASSUME DeleteBooks(r) PROVE FALSE
    BY <2>2, DeletionCovers DEF DeleteBooks, Procs
  <2>3. ASSUME AcceptTopCandidates(r) PROVE FALSE
    BY <1>3, <2>3 DEF AcceptTopCandidates, Procs
  <2> QED
    BY <1>7, <2>1, <2>2, <2>3 DEF Request
<1> QED
  BY <1>1, <1>2, <1>3, <1>4, <1>5, <1>6, <1>7 DEF Step, MatchLibrary, Procs

\* A cached cover is of its book's current address, unless a match that another one
\* overtook stores or spares one, or a scan writes back another match (match, accept,
\* scan, organize and delete at the same time).
THEOREM CoversFollow == Spec => CoversStayFresh
<1>1. ASSUME CInv, [Next]_vars
      PROVE  [\A b \in Ids : FreshCover(b) /\ ~FreshCover(b)' =>
                \E p \in Procs : /\ proc'[p] # proc[p]
                                 /\ \/ /\ proc[p].at \in {"look", "drop", "download"} /\ proc[p].book = b
                                       /\ proc[p].url # Url(b)
                                    \/ Rematched(p, b)]_vars
  <2>1. CASE Next
    <3>1. \A b \in Ids : Spoiled(b) => Spoils(b)
      BY <1>1, <2>1, StepCovers DEF Next
    <3> QED
      BY <3>1 DEF Spoiled, Spoils
  <2> QED
    BY <1>1, <2>1
<1> QED
  BY <1>1, CatalogInvariance, PTL DEF Spec, CoversStayFresh


-----------------------------------------------------------------------------
(* Scans that nobody disturbs. *)

\* What the walk has seen of S is what is there.
Sees(units, S) == /\ DOMAIN units = {d \in S : disk[d] # None}
                  /\ \A d \in DOMAIN units : units[d] = disk[d]

\* A folder that is still to be saved has the row of the copy; one that was saved has a
\* row of what the walk saw, and the pruning will spare that row.
Unsaved(index, d) == At(d) = Known(index, d) /\ \A b \in At(d) : rows[b].fp = index[b].fp
Saved(index, d, fp) == \E b \in At(d) : rows[b].fp = fp /\ (b \in DOMAIN index => index[b].dir = d)

CalmWalk(w) == proc[w].at = "walk" => Sees(proc[w].units, Dirs \ proc[w].left)
CalmSave(w) ==
  proc[w].at = "save" =>
    /\ Sees(proc[w].units, Dirs)
    /\ \A d \in Dirs : IF d \in DOMAIN proc[w].units \ proc[w].left
                       THEN Saved(proc[w].index, d, proc[w].units[d])
                       ELSE Unsaved(proc[w].index, d)
Calm == \A w \in calm : Scanning(w) /\ CalmWalk(w) /\ CalmSave(w)

\* While nobody changes a folder or a row's place, rows are where they were.
LEMMA PlacesStay ==
  ASSUME Data, Data', \A b \in Ids : Place(b)' = Place(b)
  PROVE  /\ \A d \in Dirs : At(d)' = At(d)
         /\ \A b \in Ids : Exists(b) => rows'[b].fp = rows[b].fp
<1>1. \A b \in Ids : /\ Exists(b)' <=> Exists(b)
                     /\ Exists(b) => rows'[b].dir = rows[b].dir /\ rows'[b].fp = rows[b].fp
  <2> TAKE b \in Ids
  <2> DEFINE old == <<rows[b].dir, rows[b].fp>>
             new == <<rows'[b].dir, rows'[b].fp>>
  <2>1. (IF Exists(b)' THEN new ELSE <<>>) = (IF Exists(b) THEN old ELSE <<>>)
    BY DEF Place
  <2>2. old # <<>> /\ new # <<>>
    OBVIOUS
  <2>3. old = new => rows'[b].dir = rows[b].dir /\ rows'[b].fp = rows[b].fp
    OBVIOUS
  <2> HIDE DEF old, new
  <2> QED
    BY <2>1, <2>2, <2>3
<1> QED
  BY <1>1 DEF At

\* So the scan holds what it held.
LEMMA CalmStays ==
  ASSUME CInv, CInv', Calm, NEW w \in calm, proc'[w] = proc[w], disk' = disk,
         \A b \in Ids : Place(b)' = Place(b)
  PROVE  (Scanning(w) /\ CalmWalk(w) /\ CalmSave(w))'
<1>1. /\ \A d \in Dirs : At(d)' = At(d)
      /\ \A b \in Ids : Exists(b) => rows'[b].fp = rows[b].fp
  BY PlacesStay DEF CInv
<1>2. Scanning(w) /\ CalmWalk(w) /\ CalmSave(w)
  BY DEF Calm
<1>3. Scanning(w)' /\ CalmWalk(w)'
  BY <1>2 DEF Scanning, CalmWalk, Sees
<1>4. CalmSave(w)'
  <2>1. \A d \in Dirs : \A b \in At(d) : rows'[b].fp = rows[b].fp
    BY <1>1 DEF At
  <2>2. CASE proc[w].at # "save"
    BY <2>2 DEF CalmSave
  <2>3. CASE proc[w].at = "save"
    <3>1. Sees(proc[w].units, Dirs)
      BY <1>2, <2>3 DEF CalmSave
    <3>2. \A d \in Dirs : IF d \in DOMAIN proc[w].units \ proc[w].left
                       THEN Saved(proc[w].index, d, proc[w].units[d])
                       ELSE Unsaved(proc[w].index, d)
      BY <1>2, <2>3 DEF CalmSave
    <3>3. Sees(proc[w].units, Dirs)'
      BY <3>1 DEF Sees
    <3>4. ASSUME NEW d \in Dirs
          PROVE  (IF d \in DOMAIN proc[w].units \ proc[w].left
                       THEN Saved(proc[w].index, d, proc[w].units[d])
                       ELSE Unsaved(proc[w].index, d))'
      <4>1. CASE d \in DOMAIN proc[w].units \ proc[w].left
        <5>1. PICK b \in At(d) : /\ rows[b].fp = proc[w].units[d]
                                 /\ b \in DOMAIN proc[w].index => proc[w].index[b].dir = d
          BY <3>2, <4>1 DEF Saved
        <5>2. b \in At(d)' /\ rows'[b].fp = proc'[w].units[d]
              /\ (b \in DOMAIN proc'[w].index => proc'[w].index[b].dir = d)
          BY <1>1, <2>1, <5>1
        <5> QED
          BY <4>1, <5>2 DEF Saved
      <4>2. CASE d \notin DOMAIN proc[w].units \ proc[w].left
        <5>1. At(d) = Known(proc[w].index, d) /\ \A b \in At(d) : rows[b].fp = proc[w].index[b].fp
          BY <3>2, <4>2 DEF Unsaved
        <5>2. At(d)' = Known(proc'[w].index, d) /\ \A b \in At(d)' : rows'[b].fp = proc'[w].index[b].fp
          BY <1>1, <2>1, <5>1
        <5> QED
          BY <4>2, <5>2 DEF Unsaved, Known
      <4> QED
        BY <4>1, <4>2
    <3> QED
      BY <3>3, <3>4 DEF CalmSave
  <2> QED
    BY <2>2, <2>3
<1> QED
  BY <1>3, <1>4

\* A scan that begins has seen nothing.
LEMMA CalmStart ==
  ASSUME CInv, NEW w \in Workers, ScanStart(w)
  PROVE  (CalmWalk(w) /\ CalmSave(w))'
<1> DEFINE r == [at |-> "walk", left |-> Dirs, units |-> <<>>]
<1>1. Go(w, r) /\ w \in Procs
  BY DEF ScanStart, Procs
<1>2. proc'[w] = r
  BY <1>1 DEF CInv, Held, Go
<1>3. r.at = "walk" /\ r.left = Dirs /\ r.units = <<>>
  OBVIOUS
<1>4. DOMAIN <<>> = {}
  OBVIOUS
<1> HIDE DEF r
<1>5. Sees(<<>>, Dirs \ Dirs)'
  BY <1>4 DEF Sees
<1>6. proc'[w].units = <<>> /\ proc'[w].left = Dirs /\ proc'[w].at = "walk"
  BY <1>2, <1>3
<1>7. Sees(proc[w].units, Dirs \ proc[w].left)'
  BY <1>4, <1>6 DEF Sees
<1> QED
  BY <1>6, <1>7 DEF CalmWalk, CalmSave

\* A walk that looks into one folder more has seen it.
LEMMA CalmWalks ==
  ASSUME CInv, NEW w \in Workers, ScanWalk(w), CalmWalk(w)
  PROVE  (CalmWalk(w) /\ CalmSave(w))'
<1>1. proc[w] \in Walking /\ w \in Procs /\ disk' = disk /\ proc[w].at = "walk"
  BY AtIs DEF CInv, ScanWalk, Procs
<1>2. PICK d \in First(proc[w].left) :
        Go(w, [proc[w] EXCEPT !.left = @ \ {d},
                 !.units = IF disk[d] = None THEN @ ELSE [x \in DOMAIN @ \cup {d} |->
                             IF x = d THEN disk[d] ELSE @[x]]])
  BY DEF ScanWalk
<1> DEFINE u == IF disk[d] = None THEN proc[w].units
                ELSE [x \in DOMAIN proc[w].units \cup {d} |-> IF x = d THEN disk[d] ELSE proc[w].units[x]]
           r == [proc[w] EXCEPT !.left = @ \ {d}, !.units = u]
<1>3. Go(w, r)
  BY <1>2
<1>4. d \in proc[w].left /\ d \in Dirs /\ proc[w].left \subseteq Dirs
  BY <1>1 DEF First, Walking
<1>5. DOMAIN proc[w].units = {x \in Dirs \ proc[w].left : disk[x] # None}
      /\ \A x \in DOMAIN proc[w].units : proc[w].units[x] = disk[x]
  BY <1>1 DEF CalmWalk, Sees
<1>6. DOMAIN u = {x \in Dirs \ (proc[w].left \ {d}) : disk[x] # None}
      /\ \A x \in DOMAIN u : u[x] = disk[x]
  <2>1. CASE disk[d] = None
    BY <1>4, <1>5, <2>1
  <2>2. CASE disk[d] # None
    <3>1. DOMAIN u = DOMAIN proc[w].units \cup {d}
      BY <2>2
    <3>2. \A x \in DOMAIN proc[w].units \cup {d} : u[x] = disk[x]
      BY <1>5, <2>2
    <3> QED
      BY <1>4, <1>5, <2>2, <3>1, <3>2
  <2> QED
    BY <2>1, <2>2
<1> HIDE DEF u
<1>7. r.at = "walk" /\ r.left = proc[w].left \ {d} /\ r.units = u
  BY <1>1 DEF Walking
<1>8. proc'[w] = r
  BY <1>1, <1>3 DEF CInv, Held, Go
<1> HIDE DEF r
<1>9. Sees(proc[w].units, Dirs \ proc[w].left)'
  BY <1>1, <1>6, <1>7, <1>8 DEF Sees
<1> QED
  BY <1>7, <1>8, <1>9 DEF CalmWalk, CalmSave

\* A scan that reads the table holds the rows as they are.
LEMMA CalmIndex ==
  ASSUME CInv, NEW w \in Workers, ScanIndex(w), CalmWalk(w)
  PROVE  (CalmWalk(w) /\ CalmSave(w))'
<1> DEFINE index == [b \in {i \in Ids : Exists(i)} |-> rows[b]]
           r == [at |-> "save", units |-> proc[w].units, left |-> DOMAIN proc[w].units, index |-> index]
<1>1. /\ proc[w].at = "walk" /\ proc[w].left = {} /\ w \in Procs /\ Go(w, r)
      /\ disk' = disk /\ rows' = rows
  BY DEF ScanIndex, Procs, books
<1>2. Sees(proc[w].units, Dirs)
  BY <1>1 DEF CalmWalk, Sees
<1>3. \A d \in Dirs : Unsaved(index, d)
  BY DEF Unsaved, Known, At
<1>4. proc'[w] = r
  BY <1>1 DEF CInv, Held, Go
<1>5. r.at = "save" /\ r.units = proc[w].units /\ r.left = DOMAIN proc[w].units /\ r.index = index
  OBVIOUS
<1> HIDE DEF r
<1>6. Sees(proc[w].units, Dirs)'
  BY <1>1, <1>2, <1>4, <1>5 DEF Sees
<1>7. \A d \in Dirs : (Unsaved(proc[w].index, d))'
  BY <1>1, <1>3, <1>4, <1>5 DEF Unsaved, Known, At, Exists
<1>8. DOMAIN proc'[w].units \ proc'[w].left = {}
  BY <1>4, <1>5
<1> QED
  BY <1>4, <1>5, <1>6, <1>7, <1>8 DEF CalmWalk, CalmSave


\* A scan that saves a folder gives it a row that the pruning spares, and touches the
\* rows of no other folder.
LEMMA CalmSaves ==
  ASSUME CInv, NEW w \in Workers, ScanSave(w), CalmSave(w)
  PROVE  (CalmWalk(w) /\ CalmSave(w))'
<1> DEFINE index == proc[w].index
           units == proc[w].units
<1>1. proc[w].at = "save" /\ disk' = disk
  BY DEF ScanSave
<1>2. PICK d \in First(proc[w].left) :
         /\ Go(w, [proc[w] EXCEPT !.left = @ \ {d}])
         /\ \/ /\ \E b \in Known(index, d) : index[b].fp = units[d]
               /\ UNCHANGED <<rows, journal>>
            \/ \E x \in (IF At(d) # {} THEN At(d) ELSE Fresh) : Upsert(x, BuildBook(index, d, units[d]))
  BY DEF ScanSave
<1>3. /\ proc[w] \in Saving /\ w \in Procs /\ OneCopy(proc[w]) /\ d \in Dirs /\ d \in proc[w].left
      /\ index \in Copies /\ d \in DOMAIN units /\ units[d] \in Contents
  BY <1>1, SavesSeen
<1>4. /\ Sees(units, Dirs)
      /\ \A x \in Dirs : IF x \in DOMAIN units \ proc[w].left THEN Saved(index, x, units[x]) ELSE Unsaved(index, x)
  BY <1>1 DEF CalmSave
<1> DEFINE r == [proc[w] EXCEPT !.left = @ \ {d}]
<1>5. r.at = "save" /\ r.left = proc[w].left \ {d} /\ r.units = units /\ r.index = index
  BY <1>1, <1>3 DEF Saving
<1>6. proc'[w] = r
  BY <1>2, <1>3 DEF CInv, Held, Go
<1> HIDE DEF r
<1>7. \E b \in Ids : /\ Exists(b)' /\ rows'[b].dir = d /\ rows'[b].fp = units[d]
                     /\ b \in DOMAIN index => index[b].dir = d
                     /\ \A i \in Ids : Exists(i) /\ rows[i].dir = d => i = b
                     /\ \A i \in Ids \ {b} : rows'[i] = rows[i]
                     /\ Exists(b) => rows[b].dir = d
  <2>1. Unsaved(index, d)
    BY <1>3, <1>4
  <2>2. CASE /\ \E b \in Known(index, d) : index[b].fp = units[d]
             /\ UNCHANGED <<rows, journal>>
    <3>1. PICK b \in Known(index, d) : index[b].fp = units[d]
      BY <2>2
    <3>2. b \in At(d) /\ rows[b].fp = units[d] /\ index[b].dir = d
      BY <2>1, <3>1 DEF Unsaved, Known
    <3>3. b \in Ids /\ Exists(b) /\ rows[b].dir = d /\ \A i \in Ids : Exists(i) /\ rows[i].dir = d => i = b
      BY <3>2 DEF At, CInv, OneRow
    <3>4. Exists(b)' /\ rows' = rows
      BY <2>2, <3>3 DEF Exists
    <3> QED
      BY <3>2, <3>3, <3>4
  <2>3. CASE \E x \in (IF At(d) # {} THEN At(d) ELSE Fresh) : Upsert(x, BuildBook(index, d, units[d]))
    <3> DEFINE y == BuildBook(index, d, units[d])
    <3>1. y \in Row /\ y.dir = d /\ y.fp = units[d]
      BY <1>3, Built
    <3> HIDE DEF y
    <3>2. PICK x \in (IF At(d) # {} THEN At(d) ELSE Fresh) : Upsert(x, y)
      BY <2>3 DEF y
    <3>3. /\ x \in Ids /\ rows'[x] = y /\ Exists(x)'
          /\ \A i \in Ids \ {x} : rows'[i] = rows[i]
      BY <1>3, <3>1, <3>2, UpsertRows DEF CInv
    <3>4. CASE At(d) # {}
      <4>1. x \in At(d) /\ x \in Known(index, d)
        BY <2>1, <3>2, <3>4 DEF Unsaved
      <4>2. Exists(x) /\ rows[x].dir = d /\ index[x].dir = d
        BY <4>1 DEF At, Known
      <4>3. \A i \in Ids : Exists(i) /\ rows[i].dir = d => i = x
        BY <3>3, <4>2 DEF CInv, OneRow
      <4> QED
        BY <3>1, <3>3, <4>2, <4>3
    <3>5. CASE At(d) = {}
      <4>1. x \in Fresh
        BY <3>2, <3>5
      <4>2. ~Exists(x) /\ x \notin DOMAIN index
        <5>1. "index" \in DOMAIN proc[w]
          BY <1>3 DEF Saving
        <5> QED
          BY <1>3, <4>1, <5>1 DEF Fresh, Refers
      <4>3. \A i \in Ids : ~(Exists(i) /\ rows[i].dir = d)
        BY <3>5 DEF At
      <4> QED
        BY <3>1, <3>3, <4>2, <4>3
    <3> QED
      BY <3>4, <3>5
  <2> QED
    BY <1>2, <2>2, <2>3
<1>8. PICK b \in Ids : /\ Exists(b)' /\ rows'[b].dir = d /\ rows'[b].fp = units[d]
                       /\ b \in DOMAIN index => index[b].dir = d
                       /\ \A i \in Ids : Exists(i) /\ rows[i].dir = d => i = b
                       /\ \A i \in Ids \ {b} : rows'[i] = rows[i]
                       /\ Exists(b) => rows[b].dir = d
  BY <1>7
<1>9. \A x \in Dirs \ {d} : At(x)' = At(x) /\ \A i \in At(x) : rows'[i] = rows[i]
  <2>1. \A x \in Dirs \ {d} : \A i \in Ids : (Exists(i)' /\ rows'[i].dir = x) <=> (Exists(i) /\ rows[i].dir = x)
    BY <1>8 DEF Exists
  <2>2. \A x \in Dirs \ {d} : \A i \in At(x) : i # b /\ i \in Ids
    BY <1>8 DEF At
  <2> QED
    BY <1>8, <2>1, <2>2 DEF At
<1>10. Sees(proc[w].units, Dirs)'
  BY <1>1, <1>4, <1>5, <1>6 DEF Sees
<1>11. ASSUME NEW x \in Dirs
       PROVE  (IF x \in DOMAIN proc[w].units \ proc[w].left
               THEN Saved(proc[w].index, x, proc[w].units[x])
               ELSE Unsaved(proc[w].index, x))'
  <2>1. proc'[w].units = units /\ proc'[w].left = proc[w].left \ {d} /\ proc'[w].index = index
    BY <1>5, <1>6
  <2>2. CASE x = d
    <3>1. b \in At(x)'
      BY <1>8, <2>2 DEF At
    <3>2. rows'[b].fp = proc'[w].units[x] /\ (b \in DOMAIN proc'[w].index => proc'[w].index[b].dir = x)
      BY <1>8, <2>1, <2>2
    <3>3. Saved(proc[w].index, x, proc[w].units[x])'
      BY <3>1, <3>2 DEF Saved
    <3>4. (x \in DOMAIN proc[w].units \ proc[w].left)'
      BY <1>3, <2>1, <2>2
    <3> QED
      BY <3>3, <3>4
  <2>3. CASE x # d /\ x \in DOMAIN units \ proc[w].left
    <3>1. PICK i \in At(x) : rows[i].fp = units[x] /\ (i \in DOMAIN index => index[i].dir = x)
      BY <1>4, <2>3 DEF Saved
    <3>2. i \in At(x)' /\ rows'[i] = rows[i]
      BY <1>9, <2>3
    <3>3. Saved(proc[w].index, x, proc[w].units[x])'
      BY <2>1, <3>1, <3>2 DEF Saved
    <3>4. (x \in DOMAIN proc[w].units \ proc[w].left)'
      BY <2>1, <2>3
    <3> QED
      BY <3>3, <3>4
  <2>4. CASE x # d /\ x \notin DOMAIN units \ proc[w].left
    <3>1. At(x) = Known(index, x) /\ \A i \in At(x) : rows[i].fp = index[i].fp
      BY <1>4, <2>4 DEF Unsaved
    <3>2. At(x)' = Known(index, x) /\ \A i \in At(x)' : rows'[i].fp = index[i].fp
      BY <1>9, <2>4, <3>1
    <3>3. Unsaved(proc[w].index, x)'
      BY <2>1, <3>2 DEF Unsaved, Known
    <3>4. (x \notin DOMAIN proc[w].units \ proc[w].left)'
      BY <2>1, <2>4
    <3> QED
      BY <3>3, <3>4
  <2> QED
    BY <2>2, <2>3, <2>4
<1>12. proc'[w].at = "save"
  BY <1>5, <1>6
<1> QED
  BY <1>10, <1>11, <1>12 DEF CalmWalk, CalmSave

\* What an undisturbed scan leaves when it has pruned.
LEMMA PruneReconciles ==
  ASSUME CInv, NEW w \in Workers, ScanPrune(w), CalmSave(w)
  PROVE  Reconciled'
<1> DEFINE index == proc[w].index
           units == proc[w].units
<1>1. /\ proc[w].at = "save" /\ proc[w].left = {} /\ disk' = disk /\ DeleteRows(Stale(index, units))
  BY DEF ScanPrune
<1>2. /\ DOMAIN units = {d \in Dirs : disk[d] # None}
      /\ \A d \in DOMAIN units : units[d] = disk[d]
      /\ \A d \in Dirs : IF d \in DOMAIN units THEN Saved(index, d, units[d]) ELSE Unsaved(index, d)
  BY <1>1 DEF CalmSave, Sees
<1> DEFINE gone == Stale(index, units)
<1>3. \A b \in Ids : /\ Exists(b)' <=> Exists(b) /\ b \notin gone
                     /\ b \notin gone => rows'[b] = rows[b]
  BY <1>1 DEF DeleteRows, Exists
<1>4. \A b \in Ids : Exists(b)' => rows'[b] = rows[b] /\ rows[b].dir \in DOMAIN units
  <2> TAKE b \in Ids
  <2> HAVE Exists(b)'
  <2>1. Exists(b) /\ b \notin gone /\ rows'[b] = rows[b]
    BY <1>3
  <2>2. rows[b].dir \in Dirs
    BY <2>1, RowIs DEF CInv, Row
  <2>3. rows[b].dir \in DOMAIN units
    <3>1. CASE rows[b].dir \notin DOMAIN units
      <4>1. b \in Known(index, rows[b].dir)
        BY <1>2, <2>1, <2>2, <3>1 DEF Unsaved, At
      <4>2. b \in gone
        BY <3>1, <4>1 DEF Known, Stale
      <4> QED
        BY <2>1, <4>2
    <3> QED
      BY <3>1
  <2> QED
    BY <2>1, <2>3
<1>5. \A d \in DOMAIN units : \E b \in Ids : Exists(b)' /\ rows[b].dir = d /\ rows[b].fp = disk[d]
  <2> TAKE d \in DOMAIN units
  <2>1. PICK b \in At(d) : rows[b].fp = units[d] /\ (b \in DOMAIN index => index[b].dir = d)
    BY <1>2 DEF Saved
  <2>2. b \notin gone
    BY <2>1 DEF Stale
  <2>3. b \in Ids /\ Exists(b) /\ rows[b].dir = d
    BY DEF At
  <2> QED
    BY <1>2, <1>3, <2>1, <2>2, <2>3
<1>6. \A b \in Ids : Exists(b)' => rows[b].fp = disk[rows[b].dir]
  <2> TAKE b \in Ids
  <2> HAVE Exists(b)'
  <2>1. PICK x \in Ids : Exists(x)' /\ rows[x].dir = rows[b].dir /\ rows[x].fp = disk[rows[b].dir]
    BY <1>4, <1>5
  <2>2. x = b
    BY <1>3, <2>1 DEF CInv, OneRow
  <2> QED
    BY <2>1, <2>2
<1> HIDE DEF gone
<1>7. {rows'[b].dir : b \in {i \in Ids : Exists(i)'}} = DOMAIN units
  BY <1>4, <1>5
<1>8. \A b \in Ids : Exists(b)' => rows'[b].fp = disk'[rows'[b].dir]
  BY <1>1, <1>4, <1>6
<1>9. {d \in Dirs : disk'[d] # None} = DOMAIN units
  BY <1>1, <1>2
<1> QED
  BY <1>7, <1>8, <1>9 DEF Reconciled


\* Only the steps of its scan make a worker walk or save, or go on doing so.
LEMMA OthersLeave ==
  ASSUME CInv, NEW p \in Procs, NEW r, Go(p, r), r.at \notin {"walk", "save"}, NEW w \in Procs, proc'[w] # proc[w]
  PROVE  ~Scanning(w)'
<1>1. proc'[p] = r /\ \A q \in Procs : q # p => proc'[q] = proc[q]
  BY DEF CInv, Held, Go
<1>2. proc'[w] = r
  BY <1>1
<1> QED
  BY <1>2 DEF Scanning

\* Where a match goes next.
LEMMA MatchGoes ==
  ASSUME CInv, NEW p \in Procs, Match(p)
  PROVE  \E r : Go(p, r) /\ r.at \notin {"walk", "save"}
<1>1. Idle.at = "idle"
  BY IdleFits
<1>2. proc[p].at \in {"search", "settle", "apply", "look", "drop", "fetch", "download"}
        => Then(p).at \in {"next", "idle"}
  BY ThenFits DEF CInv
<1>3. proc[p].at \in {"look", "drop", "fetch", "download"} =>
        /\ ThenFetch(p).at \in {"next", "idle", "fetch"}
        /\ [proc[p] EXCEPT !.at = "drop"].at = "drop"
        /\ [proc[p] EXCEPT !.at = "download"].at = "download"
  BY FetchFits DEF CInv
<1>4. CASE MatchNext(p) \/ TopNext(p)
  <2>1. proc[p] \in Choosing
    BY <1>4, AtIs DEF CInv, MatchNext, TopNext
  <2>2. \A b : [proc[p] EXCEPT !.todo = Without(@, b)].at = "next"
    BY <2>1 DEF Choosing
  <2>3. CASE MatchNext(p)
    <3>1. PICK b \in DOMAIN proc[p].todo :
       Go(p, IF Exists(b) THEN [at |-> "search", kind |-> "match", book |-> b, copy |-> rows[b],
                                todo |-> Without(proc[p].todo, b)]
             ELSE [proc[p] EXCEPT !.todo = Without(@, b)])
      BY <2>3 DEF MatchNext
    <3> DEFINE x == [at |-> "search", kind |-> "match", book |-> b, copy |-> rows[b],
                     todo |-> Without(proc[p].todo, b)]
               y == [proc[p] EXCEPT !.todo = Without(@, b)]
    <3>2. Go(p, x) \/ Go(p, y)
      BY <3>1
    <3>3. x.at = "search" /\ y.at = "next"
      BY <2>2
    <3> HIDE DEF x, y
    <3> QED
      BY <3>2, <3>3
  <2>4. CASE TopNext(p)
    <3>1. PICK b \in DOMAIN proc[p].todo :
       \/ Go(p, [proc[p] EXCEPT !.todo = Without(@, b)])
       \/ Go(p, [at |-> "apply", kind |-> "top", book |-> b, copy |-> proc[p].todo[b],
                 cand |-> stored[b][1], todo |-> Without(proc[p].todo, b)])
      BY <2>4 DEF TopNext
    <3> DEFINE x == [at |-> "apply", kind |-> "top", book |-> b, copy |-> proc[p].todo[b],
                     cand |-> stored[b][1], todo |-> Without(proc[p].todo, b)]
               y == [proc[p] EXCEPT !.todo = Without(@, b)]
    <3>2. Go(p, x) \/ Go(p, y)
      BY <3>1
    <3>3. x.at = "apply" /\ y.at = "next"
      BY <2>2
    <3> HIDE DEF x, y
    <3> QED
      BY <3>2, <3>3
  <2> QED
    BY <1>4, <2>3, <2>4
<1>5. CASE ListEnds(p)
  BY <1>1, <1>5 DEF ListEnds
<1>6. CASE SearchReturns(p)
  <2>1. PICK found \in Results :
       \/ Go(p, [at |-> "apply", kind |-> proc[p].kind, book |-> proc[p].book, copy |-> proc[p].copy,
                 cand |-> found[1], todo |-> proc[p].todo])
       \/ Go(p, [at |-> "settle", kind |-> proc[p].kind, book |-> proc[p].book, copy |-> proc[p].copy,
                 state |-> IF found = <<>> THEN "unmatched" ELSE "needs_review", todo |-> proc[p].todo])
       \/ Go(p, Then(p))
    BY <1>6 DEF SearchReturns, MatchError
  <2> DEFINE x == [at |-> "apply", kind |-> proc[p].kind, book |-> proc[p].book, copy |-> proc[p].copy,
                   cand |-> found[1], todo |-> proc[p].todo]
             y == [at |-> "settle", kind |-> proc[p].kind, book |-> proc[p].book, copy |-> proc[p].copy,
                   state |-> IF found = <<>> THEN "unmatched" ELSE "needs_review", todo |-> proc[p].todo]
  <2>2. x.at = "apply" /\ y.at = "settle" /\ Then(p).at \in {"next", "idle"}
    BY <1>2, <1>6 DEF SearchReturns
  <2>3. Go(p, x) \/ Go(p, y) \/ Go(p, Then(p))
    BY <2>1
  <2> HIDE DEF x, y
  <2> QED
    BY <2>2, <2>3
<1>7. CASE SearchFails(p) \/ Settle(p) \/ StoreCover(p) \/ DownloadFails(p)
  <2>1. /\ proc[p].at \in {"search", "settle", "download"}
        /\ Go(p, Then(p))
    BY <1>7 DEF SearchFails, Settle, MatchError, StoreCover, DownloadFails
  <2> QED
    BY <1>2, <2>1
<1>8. CASE Apply(p)
  <2>1. proc[p].at = "apply"
    BY <1>8 DEF Apply
  <2>2. CASE Exists(proc[p].book)
    <3> DEFINE x == [at |-> "look", kind |-> proc[p].kind, book |-> proc[p].book,
                     url |-> Cover[proc[p].cand], todo |-> proc[p].todo]
    <3>1. Go(p, x) /\ x.at = "look"
      BY <1>8, <2>2, ApplyWrites
    <3> HIDE DEF x
    <3> QED
      BY <3>1
  <2>3. CASE ~Exists(proc[p].book)
    <3>1. Go(p, Idle) \/ Go(p, Then(p))
      BY <1>8, <2>3 DEF Apply
    <3> QED
      BY <1>1, <1>2, <2>1, <3>1
  <2> QED
    BY <2>2, <2>3
<1>9. CASE LookAtCover(p) \/ DropCover(p) \/ FetchCover(p)
  <2> DEFINE x == [proc[p] EXCEPT !.at = "drop"]
             y == [proc[p] EXCEPT !.at = "download"]
  <2>1. /\ proc[p].at \in {"look", "drop", "fetch"}
        /\ Go(p, Then(p)) \/ Go(p, ThenFetch(p)) \/ Go(p, x) \/ Go(p, y)
    BY <1>9 DEF LookAtCover, DropCover, FetchCover
  <2>2. x.at = "drop" /\ y.at = "download" /\ ThenFetch(p).at \in {"next", "idle", "fetch"} /\ Then(p).at \in {"next", "idle"}
    BY <1>2, <1>3, <2>1
  <2> HIDE DEF x, y
  <2> QED
    BY <2>1, <2>2
<1> QED
  BY <1>4, <1>5, <1>6, <1>7, <1>8, <1>9 DEF Match

\* Where an organize or undo job goes next.
LEMMA OrganizeGoes ==
  ASSUME CInv, NEW w \in Workers, Organize(w)
  PROVE  \E r : Go(w, r) /\ r.at \notin {"walk", "save"}
<1>1. Idle.at = "idle" /\ (proc[w].at \in {"move", "unmove"} => proc[w] \in Moving)
  BY IdleFits, AtIs DEF CInv, Procs
<1>2. CASE PlanBook(w)
  <2>1. Go(w, [at |-> "move", run |-> calls'])
    BY <1>2 DEF PlanBook
  <2> QED
    BY <2>1
<1>3. CASE MoveAudio(w)
  <2> DEFINE x == [proc[w] EXCEPT !.at = "finalize"]
  <2>1. Go(w, x) \/ Go(w, Idle)
    BY <1>3 DEF MoveAudio
  <2>2. x.at = "finalize"
    BY <1>1, <1>3 DEF MoveAudio, Moving
  <2> HIDE DEF x
  <2> QED
    BY <1>1, <2>1, <2>2
<1>4. CASE Finalize(w) \/ UndoRestore(w)
  BY <1>1, <1>4 DEF Finalize, UndoRestore
<1>5. CASE Undo(w)
  <2>1. PICK j \in journal : Go(w, [at |-> IF j.status = "done" THEN "unmove" ELSE "restore", run |-> j.run])
    BY <1>5 DEF Undo
  <2> QED
    BY <2>1
<1>6. CASE UndoMove(w)
  <2> DEFINE x == [proc[w] EXCEPT !.at = "restore"]
  <2>1. Go(w, x) \/ Go(w, Idle)
    BY <1>6 DEF UndoMove
  <2>2. x.at = "restore"
    BY <1>1, <1>6 DEF UndoMove, Moving
  <2> HIDE DEF x
  <2> QED
    BY <1>1, <2>1, <2>2
<1> QED
  BY <1>2, <1>3, <1>4, <1>5, <1>6 DEF Organize

\* Where a request goes next.
LEMMA RequestGoes ==
  ASSUME CInv, NEW q \in Requests, Request(q)
  PROVE  \E r : Go(q, r) /\ r.at \notin {"walk", "save"}
<1>1. Idle.at = "idle"
  BY IdleFits
<1>2. CASE AcceptTopCandidates(q)
  <2>1. Go(q, [at |-> "next", kind |-> "top", todo |-> Listing])
    BY <1>2 DEF AcceptTopCandidates, List, NextBook
  <2> QED
    BY <2>1
<1>3. CASE AutoMatch(q)
  <2>1. PICK b \in Ids : Go(q, [at |-> "search", kind |-> "auto", book |-> b, copy |-> rows[b], todo |-> <<>>])
    BY <1>3 DEF AutoMatch
  <2> QED
    BY <2>1
<1>4. CASE Accept(q)
  <2>1. PICK b \in Ids, c \in Cands :
          Go(q, [at |-> "apply", kind |-> "accept", book |-> b, copy |-> rows[b], cand |-> c, todo |-> <<>>])
    BY <1>4 DEF Accept
  <2> QED
    BY <2>1
<1>5. CASE DeleteBook(q)
  <2>1. PICK b \in Ids : Go(q, [at |-> "remove", book |-> b, dir |-> rows[b].dir])
    BY <1>5 DEF DeleteBook
  <2> QED
    BY <2>1
<1>6. CASE RemoveBookFromDisk(q)
  <2>1. Go(q, [at |-> "forget", book |-> proc[q].book])
    BY <1>6 DEF RemoveBookFromDisk
  <2> QED
    BY <2>1
<1>7. CASE DeleteBooks(q) \/ DeleteFails(q)
  BY <1>1, <1>7 DEF DeleteBooks, DeleteFails
<1> QED
  BY <1>2, <1>3, <1>4, <1>5, <1>6, <1>7 DEF Request

\* So a worker that moves and is scanning then took a step of its scan.
LEMMA ScanningOnly ==
  ASSUME CInv, Step, NEW w \in Workers, proc'[w] # proc[w], Scanning(w)'
  PROVE  ScanStart(w) \/ ScanWalk(w) \/ ScanIndex(w) \/ ScanSave(w)
<1>1. w \in Procs /\ Idle.at = "idle"
  BY IdleFits DEF Procs
<1>2. ASSUME NEW d \in Dirs, ChangeAudio(d) PROVE FALSE
  BY <1>2 DEF ChangeAudio
<1>3. ASSUME NEW x \in Ids, PatchAuthorSort(x) PROVE FALSE
  BY <1>3 DEF PatchAuthorSort
<1>4. ASSUME NEW p \in Workers, MatchLibrary(p) PROVE FALSE
  <2>1. Go(p, [at |-> "next", kind |-> "match", todo |-> Listing]) /\ p \in Procs
    BY <1>4 DEF MatchLibrary, List, NextBook, Procs
  <2> QED
    BY <1>1, <2>1, OthersLeave
<1>5. ASSUME NEW p \in Workers, Scan(p)
      PROVE  ScanStart(w) \/ ScanWalk(w) \/ ScanIndex(w) \/ ScanSave(w)
  <2>1. p = w
    <3>1. p \in Procs /\ \E r : Go(p, r)
      BY <1>5 DEF Scan, ScanStart, ScanWalk, ScanIndex, ScanSave, ScanPrune, ScanFails, Procs
    <3> QED
      BY <1>1, <3>1 DEF CInv, Held, Go
  <2>2. ASSUME ScanPrune(w) \/ ScanFails(w) PROVE FALSE
    BY <1>1, <2>2, OthersLeave DEF ScanPrune, ScanFails
  <2> QED
    BY <1>5, <2>1, <2>2 DEF Scan
<1>6. ASSUME NEW p \in Workers, Organize(p) PROVE FALSE
  BY <1>1, <1>6, OrganizeGoes, OthersLeave DEF Procs
<1>7. ASSUME NEW p \in Procs, Match(p) PROVE FALSE
  BY <1>1, <1>7, MatchGoes, OthersLeave
<1>8. ASSUME NEW q \in Requests, Request(q) PROVE FALSE
  BY <1>1, <1>8, RequestGoes, OthersLeave DEF Procs
<1> QED
  BY <1>2, <1>3, <1>4, <1>5, <1>6, <1>7, <1>8 DEF Step

\* A scan stays calm until somebody else changes a folder or a row's place.
LEMMA NextCalm == ASSUME CInv, CInv', Calm, [Next]_vars PROVE Calm'
<1>1. CASE Next
  <2> SUFFICES ASSUME NEW w \in calm'
               PROVE  (Scanning(w) /\ CalmWalk(w) /\ CalmSave(w))'
    BY DEF Calm
  <2>1. /\ w \in Workers /\ Scanning(w)'
        /\ proc[w] = proc'[w] => w \in calm /\ disk' = disk /\ \A b \in Ids : Place(b)' = Place(b)
        /\ proc[w] # proc'[w] => w \in calm \/ proc[w] = Idle
    BY <1>1 DEF Next
  <2>2. CASE proc[w] = proc'[w]
    BY <2>1, <2>2, CalmStays
  <2>3. CASE proc[w] # proc'[w]
    <3>1. ScanStart(w) \/ ScanWalk(w) \/ ScanIndex(w) \/ ScanSave(w)
      BY <1>1, <2>1, <2>3, ScanningOnly DEF Next
    <3>2. proc[w].at \in {"walk", "save"} => w \in calm
      BY <2>1, <2>3, IdleFits
    <3>3. w \in calm => CalmWalk(w) /\ CalmSave(w)
      BY DEF Calm
    <3>4. /\ ScanWalk(w) => proc[w].at = "walk"
          /\ ScanIndex(w) => proc[w].at = "walk"
          /\ ScanSave(w) => proc[w].at = "save"
      BY DEF ScanWalk, ScanIndex, ScanSave
    <3>5. (CalmWalk(w) /\ CalmSave(w))'
      BY <2>1, <3>1, <3>2, <3>3, <3>4, CalmStart, CalmWalks, CalmIndex, CalmSaves
    <3> QED
      BY <2>1, <3>5
  <2> QED
    BY <2>2, <2>3
<1>2. CASE UNCHANGED vars
  <2>1. UNCHANGED <<disk, rows, stored, cover, journal, proc, decided, calm, calls>>
    BY <1>2 DEF vars
  <2> SUFFICES ASSUME NEW w \in calm
               PROVE  (Scanning(w) /\ CalmWalk(w) /\ CalmSave(w))'
    BY <2>1 DEF Calm
  <2>2. \A b \in Ids : Place(b)' = Place(b)
    BY <2>1 DEF Place, Exists
  <2> QED
    BY <2>1, <2>2, CalmStays
<1> QED
  BY <1>1, <1>2

\* A scan during which nobody else changed a folder or a row's place leaves one row for
\* every folder with audio, of what the folder holds, and no other row, whatever an
\* interrupted deletion, a failed undo or an earlier race left.
THEOREM ScansReconcile == Spec => ScanReconciles
<1>1. Init => CInv /\ Calm
  <2>1. Init => calm = {}
    BY DEF Init
  <2> QED
    BY <2>1, InitCInv DEF Calm
<1>2. CInv /\ Calm /\ [Next]_vars => (CInv /\ Calm)'
  BY NextCInv, NextCalm
<1>3. ASSUME CInv, Calm, [Next]_vars
      PROVE  [\A w \in Workers : ScanPrune(w) /\ w \in calm => Reconciled']_vars
  <2>1. \A w \in Workers : ScanPrune(w) /\ w \in calm => Reconciled'
    BY <1>3, PruneReconciles DEF Calm
  <2> QED
    BY <2>1
<1> QED
  BY <1>1, <1>2, <1>3, PTL DEF Spec, ScanReconciles
===============================================================================
