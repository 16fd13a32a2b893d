------------------------------- MODULE Catalog -------------------------------
(***************************************************************************)
(* The rows of one library and the folders they stand for, under everything *)
(* that changes them at the same time: scan and match jobs, organize and    *)
(* undo jobs, and API requests that match, accept, edit and delete. Each    *)
(* reads rows first and writes them later; a database call is one step (the *)
(* pool has one connection), so is the removal or the move of one folder.   *)
(***************************************************************************)
EXTENDS Integers, Sequences, FiniteSets, SequencesExt

CONSTANTS
  Ids,       \* row ids (uuids)
  Dirs,      \* folders that may hold audio
  Order,     \* the folders in the order of their paths
  Below,     \* Below[d]: d and the folders inside it
  Root,      \* the library root, one of Dirs
  Contents,  \* states of a folder's audio, which the fingerprint tells apart
  Renamed,   \* Renamed[c]: the same audio under the names the template gives
  Cands,     \* metadata candidates
  Cover,     \* Cover[c]: the cover address of a candidate, or None
  Results,   \* ranked lists a search may return
  Workers,   \* goroutines of the worker pool
  Requests,  \* API requests that can be served at a time
  None,
  Start,     \* bound: what the folders hold at first
  Accepts,   \* bound: the candidates accepted at first
  MaxCalls   \* bound: requests, jobs other than scans, and changes by hand

Open == {"unmatched", "needs_review"}
Accepted == {"matched", "organized"}
Row == [dir : Dirs, state : Open \cup Accepted \cup {"error"}, fp : Contents,
        cand : Cands \cup {None}, sort : {"derived", "manual"}]

ASSUME CatalogAssumption ==
  /\ Below \in [Dirs -> SUBSET Dirs] /\ \A d \in Dirs : d \in Below[d]
  /\ Root \in Dirs /\ Order \in Seq(Dirs) /\ ToSet(Order) = Dirs
  /\ Renamed \in [Contents -> Contents]
  /\ Results \subseteq Seq(Cands) /\ <<>> \in Results
  /\ DOMAIN Cover = Cands
  /\ Workers \cap Requests = {} /\ IsFiniteSet(Ids)
  /\ None \notin Ids \cup Dirs \cup Contents \cup Cands \cup Row
  /\ Start \subseteq [Dirs -> Contents \cup {None}] /\ Accepts \subseteq Cands /\ MaxCalls \in Nat

VARIABLES
  disk,     \* folder -> its audio, or None
  rows,     \* books: id -> row, or None
  stored,   \* candidates: id -> ranked list
  cover,    \* book_covers: id -> address the image came from, or None
  journal,  \* organize runs: what each moved, its snapshot, its state
  proc,     \* what each goroutine is doing, with the copies it holds
  decided,  \* history: what the user decided about a book
  calm,     \* history: the scans since whose walk began nobody else changed a folder or a row's place
  calls     \* bound

vars == <<disk, rows, stored, cover, journal, proc, decided, calm, calls>>
books == <<rows, stored, cover, decided>>

Procs == Workers \cup Requests
Undecided == [cand |-> None, sort |-> FALSE]
Idle == [at |-> "idle"]

Exists(b) == rows[b] # None
At(d) == {b \in Ids : Exists(b) /\ rows[b].dir = d}   \* BookIDAt, at most one
Go(p, r) == proc' = [proc EXCEPT ![p] = r]
Call == calls < MaxCalls /\ calls' = calls + 1

\* A library after a scan: a row for every folder with audio. Some of the books
\* were matched since, by the user's choice, and have their cover.
Init ==
  /\ disk \in Start
  /\ \E at \in [Ids -> Dirs \cup {None}], chosen \in [Ids -> Accepts \cup {None}] :
       /\ \A d \in Dirs : Cardinality({b \in Ids : at[b] = d}) = (IF disk[d] = None THEN 0 ELSE 1)
       /\ \A b \in Ids : at[b] = None => chosen[b] = None
       /\ rows = [b \in Ids |-> IF at[b] = None THEN None ELSE
                   [dir |-> at[b], fp |-> disk[at[b]], cand |-> chosen[b], sort |-> "derived",
                    state |-> IF chosen[b] = None THEN "unmatched" ELSE "matched"]]
       /\ decided = [b \in Ids |-> [Undecided EXCEPT !.cand = chosen[b]]]
       /\ cover = [b \in Ids |-> IF chosen[b] = None THEN None ELSE Cover[chosen[b]]]
  /\ stored = [b \in Ids |-> <<>>]
  /\ journal = {} /\ proc = [p \in Procs |-> Idle] /\ calm = {} /\ calls = 0

\* Mutant: no cascade to the candidates.
DeleteRowsAlone(S) ==
  /\ rows' = [b \in Ids |-> IF b \in S THEN None ELSE rows[b]]
  /\ cover' = [b \in Ids |-> IF b \in S THEN None ELSE cover[b]]
  /\ decided' = [b \in Ids |-> IF b \in S THEN Undecided ELSE decided[b]]
  /\ UNCHANGED stored

\* DELETE FROM books: candidates and cover go with the row.
DeleteRows(S) ==
  /\ rows' = [b \in Ids |-> IF b \in S THEN None ELSE rows[b]]
  /\ stored' = [b \in Ids |-> IF b \in S THEN <<>> ELSE stored[b]]
  /\ cover' = [b \in Ids |-> IF b \in S THEN None ELSE cover[b]]
  /\ decided' = [b \in Ids |-> IF b \in S THEN Undecided ELSE decided[b]]

\* Somebody adds, changes or removes audio by hand.
ChangeAudio(d) ==
  /\ Call
  /\ \E c \in Contents \cup {None} : c # disk[d] /\ disk' = [disk EXCEPT ![d] = c]
  /\ UNCHANGED <<books, journal, proc>>
-----------------------------------------------------------------------------
(* The scan job: walk the folders, then read all rows, then save book by    *)
(* book, then prune the rows whose folder was not seen.                     *)

\* Both the walk and the units are in the order of paths.
First(left) == {d \in left : \A k \in DOMAIN Order : Order[k] \in left => \E i \in 1 .. k : Order[i] = d}

ScanStart(w) ==
  /\ proc[w] = Idle /\ Call
  /\ Go(w, [at |-> "walk", left |-> Dirs, units |-> <<>>])
  /\ UNCHANGED <<disk, books, journal>>

ScanWalk(w) ==
  /\ proc[w].at = "walk"
  /\ \E d \in First(proc[w].left) :
       Go(w, [proc[w] EXCEPT !.left = @ \ {d},
                !.units = IF disk[d] = None THEN @ ELSE [x \in DOMAIN @ \cup {d} |->
                            IF x = d THEN disk[d] ELSE @[x]]])
  /\ UNCHANGED <<disk, books, journal, calls>>

ScanIndex(w) ==
  /\ proc[w].at = "walk" /\ proc[w].left = {}
  /\ Go(w, [at |-> "save", units |-> proc[w].units, left |-> DOMAIN proc[w].units,
            index |-> [b \in {i \in Ids : Exists(i)} |-> rows[b]]])
  /\ UNCHANGED <<disk, books, journal, calls>>

Known(index, d) == {b \in DOMAIN index : index[b].dir = d}

\* What is accepted is kept as it was read; anything else is derived afresh.
BuildBook(index, d, fp) ==
  LET kept == {b \in Known(index, d) : index[b].state \in Accepted}
  IN IF kept = {}
     THEN [dir |-> d, state |-> "unmatched", fp |-> fp, cand |-> None, sort |-> "derived"]
     ELSE [index[CHOOSE b \in kept : TRUE] EXCEPT !.fp = fp]

\* uuid.NewString: an id nobody refers to.
Refers(p, b) == \/ "book" \in DOMAIN proc[p] /\ proc[p].book = b
                \/ "index" \in DOMAIN proc[p] /\ b \in DOMAIN proc[p].index
                \/ "todo" \in DOMAIN proc[p] /\ b \in DOMAIN proc[p].todo
Fresh == {b \in Ids : /\ ~Exists(b) /\ \A j \in journal : j.book # b
                      /\ \A p \in Procs : ~Refers(p, b)}

\* UpsertBookWithFiles, by identity. The file rows are replaced: they get new
\* ids, and a snapshot that names the old ones no longer fits.
Upsert(b, r) ==
  /\ rows' = [rows EXCEPT ![b] = r]
  /\ journal' = {[j EXCEPT !.fits = @ /\ j.book # b] : j \in journal}

ScanSave(w) ==
  /\ proc[w].at = "save"
  /\ \E d \in First(proc[w].left) :
       LET index == proc[w].index
           fp == proc[w].units[d]
       IN /\ Go(w, [proc[w] EXCEPT !.left = @ \ {d}])
          /\ \/ /\ \E b \in Known(index, d) : index[b].fp = fp
                /\ UNCHANGED <<rows, journal>>
             \/ /\ \A b \in Known(index, d) : index[b].fp # fp
                /\ \E b \in (IF At(d) # {} THEN At(d) ELSE Fresh) : Upsert(b, BuildBook(index, d, fp))
  /\ UNCHANGED <<disk, stored, cover, decided, calls>>

\* Mutant: what the user accepted is not pruned.
StaleUnlessAccepted(index, units) ==
  {b \in DOMAIN index : index[b].dir \notin DOMAIN units /\ index[b].state \notin Accepted}

\* seen is every unit's identity, whether it was saved or skipped.
Stale(index, units) == {b \in DOMAIN index : index[b].dir \notin DOMAIN units}

ScanPrune(w) ==
  /\ proc[w].at = "save" /\ proc[w].left = {}
  /\ DeleteRows(Stale(proc[w].index, proc[w].units))
  /\ Go(w, Idle)
  /\ UNCHANGED <<disk, journal, calls>>

\* Canceled, a folder or file that cannot be read, a write that fails: nothing
\* is pruned.
ScanFails(w) ==
  /\ proc[w].at \in {"walk", "save"}
  /\ Go(w, Idle)
  /\ UNCHANGED <<disk, books, journal, calls>>
-----------------------------------------------------------------------------
(* Matching. kind: "match" a library job, "auto" a request to match one     *)
(* book, "top" the bulk accept, "accept" the user's choice of a candidate.  *)
(* todo: books still to do, with the copies the listing returned.           *)

NextBook(p, kind, todo) ==
  IF kind \in {"match", "top"} THEN [at |-> "next", kind |-> kind, todo |-> todo] ELSE Idle
Then(p) == NextBook(p, proc[p].kind, proc[p].todo)
Without(todo, b) == [x \in DOMAIN todo \ {b} |-> todo[x]]
Listing == [b \in {i \in Ids : Exists(i) /\ rows[i].state \in Open} |-> rows[b]]

\* ListBooks, for a library job or a bulk accept.
List(p, kind) ==
  /\ proc[p] = Idle /\ Call
  /\ Go(p, NextBook(p, kind, Listing))
  /\ UNCHANGED <<disk, books, journal>>
MatchLibrary(w) == List(w, "match")
AcceptTopCandidates(r) == List(r, "top")

\* The job's next book, read afresh (a book that is gone is passed over).
MatchNext(p) ==
  /\ proc[p].at = "next" /\ proc[p].kind = "match"
  /\ \E b \in DOMAIN proc[p].todo :
       Go(p, IF Exists(b) THEN [at |-> "search", kind |-> "match", book |-> b, copy |-> rows[b],
                                todo |-> Without(proc[p].todo, b)]
             ELSE [proc[p] EXCEPT !.todo = Without(@, b)])
  /\ UNCHANGED <<disk, books, journal, calls>>

\* The bulk accept's next book, as it was listed; no candidate, or one below the
\* bar, is passed over.
TopNext(p) ==
  /\ proc[p].at = "next" /\ proc[p].kind = "top"
  /\ \E b \in DOMAIN proc[p].todo :
       \/ Go(p, [proc[p] EXCEPT !.todo = Without(@, b)])
       \/ /\ stored[b] # <<>>
          /\ Go(p, [at |-> "apply", kind |-> "top", book |-> b, copy |-> proc[p].todo[b],
                    cand |-> stored[b][1], todo |-> Without(proc[p].todo, b)])
  /\ UNCHANGED <<disk, books, journal, calls>>

\* Nothing left to do, or canceled.
ListEnds(p) ==
  /\ proc[p].at = "next"
  /\ Go(p, Idle)
  /\ UNCHANGED <<disk, books, journal, calls>>

AutoMatch(r) ==
  /\ proc[r] = Idle /\ Call
  /\ \E b \in Ids : Exists(b) /\ Go(r, [at |-> "search", kind |-> "auto", book |-> b,
                                        copy |-> rows[b], todo |-> <<>>])
  /\ UNCHANGED <<disk, books, journal>>

\* A stored candidate (of any earlier search) or one entered by hand.
Accept(r) ==
  /\ proc[r] = Idle /\ Call
  /\ \E b \in Ids, c \in Cands :
       Exists(b) /\ Go(r, [at |-> "apply", kind |-> "accept", book |-> b,
                           copy |-> rows[b], cand |-> c, todo |-> <<>>])
  /\ UNCHANGED <<disk, books, journal>>

SetState(b, s) == rows' = IF Exists(b) THEN [rows EXCEPT ![b].state = s] ELSE rows

\* A library job records the error, whatever the row's state is by then.
MatchError(p) ==
  /\ IF proc[p].kind = "match" THEN SetState(proc[p].book, "error") ELSE UNCHANGED rows
  /\ Go(p, Then(p))

\* The search returns, its results replace the stored ones (which needs the
\* row), and AutoPick takes the first or none.
SearchReturns(p) ==
  /\ proc[p].at = "search"
  /\ LET b == proc[p].book IN
     \E found \in Results :
       \/ /\ Exists(b) \/ found = <<>>
          /\ stored' = IF Exists(b) THEN [stored EXCEPT ![b] = found] ELSE stored
          /\ \/ /\ found # <<>>
                /\ Go(p, [at |-> "apply", kind |-> proc[p].kind, book |-> b, copy |-> proc[p].copy,
                          cand |-> found[1], todo |-> proc[p].todo])
             \/ Go(p, [at |-> "settle", kind |-> proc[p].kind, book |-> b, copy |-> proc[p].copy,
                       state |-> IF found = <<>> THEN "unmatched" ELSE "needs_review",
                       todo |-> proc[p].todo])
          /\ UNCHANGED rows
       \/ /\ ~Exists(b) /\ found # <<>>
          /\ MatchError(p) /\ UNCHANGED stored
  /\ UNCHANGED <<disk, cover, decided, journal, calls>>

SearchFails(p) ==
  /\ proc[p].at = "search"
  /\ MatchError(p)
  /\ UNCHANGED <<disk, stored, cover, decided, journal, calls>>

\* No pick: the state changes unless the row, as it was read, was accepted.
Settle(p) ==
  /\ proc[p].at = "settle"
  /\ IF proc[p].copy.state \in Accepted THEN UNCHANGED rows
     ELSE SetState(proc[p].book, proc[p].state)
  /\ Go(p, Then(p))
  /\ UNCHANGED <<disk, stored, cover, decided, journal, calls>>

\* Mutant: the sort name always comes from the candidate.
AppliedDerived(r, copy, c) == [r EXCEPT !.state = "matched", !.cand = c, !.sort = "derived"]

\* SetBookMatch: metadata, state and sort name, the latter kept from the copy if
\* it is manual there. It fails if the row is gone. A choice of the user is a
\* decision; a request to match again takes one back.
Applied(r, copy, c) == [r EXCEPT !.state = "matched", !.cand = c, !.sort = copy.sort]

Apply(p) ==
  /\ proc[p].at = "apply"
  /\ LET b == proc[p].book IN
     \/ /\ Exists(b)
        /\ rows' = [rows EXCEPT ![b] = Applied(@, proc[p].copy, proc[p].cand)]
        /\ decided' = CASE proc[p].kind = "accept" -> [decided EXCEPT ![b].cand = proc[p].cand]
                        [] proc[p].kind = "auto" -> [decided EXCEPT ![b].cand = None]
                        [] OTHER -> decided
        /\ Go(p, [at |-> "look", kind |-> proc[p].kind, book |-> b,
                  url |-> Cover[proc[p].cand], todo |-> proc[p].todo])
     \/ /\ ~Exists(b)
        /\ Go(p, IF proc[p].kind = "top" THEN Idle ELSE Then(p))
        /\ UNCHANGED <<rows, decided>>
  /\ UNCHANGED <<disk, stored, cover, journal, calls>>

\* A bulk accept fetches no cover, and a book without an address has none.
ThenFetch(p) ==
  IF proc[p].kind = "top" \/ proc[p].url = None THEN Then(p) ELSE [proc[p] EXCEPT !.at = "fetch"]

\* Mutant: a cover of another address is left alone.
LookPast(p) ==
  /\ proc[p].at = "look"
  /\ Go(p, ThenFetch(p))
  /\ UNCHANGED <<disk, books, journal, calls>>

\* invalidateStaleCover: look, and delete in a second statement.
LookAtCover(p) ==
  /\ proc[p].at = "look"
  /\ Go(p, IF cover[proc[p].book] \in {None, proc[p].url} THEN ThenFetch(p)
           ELSE [proc[p] EXCEPT !.at = "drop"])
  /\ UNCHANGED <<disk, books, journal, calls>>

DropCover(p) ==
  /\ proc[p].at = "drop"
  /\ cover' = [cover EXCEPT ![proc[p].book] = None]
  /\ Go(p, ThenFetch(p))
  /\ UNCHANGED <<disk, rows, stored, decided, journal, calls>>

\* fetchCover: a cover that is there is taken for fresh; the download comes
\* between the look and the write, which needs the row.
FetchCover(p) ==
  /\ proc[p].at = "fetch"
  /\ Go(p, IF cover[proc[p].book] # None THEN Then(p) ELSE [proc[p] EXCEPT !.at = "download"])
  /\ UNCHANGED <<disk, books, journal, calls>>

StoreCover(p) ==
  /\ proc[p].at = "download"
  /\ Exists(proc[p].book)
  /\ cover' = [cover EXCEPT ![proc[p].book] = proc[p].url]
  /\ Go(p, Then(p))
  /\ UNCHANGED <<disk, rows, stored, decided, journal, calls>>

DownloadFails(p) ==
  /\ proc[p].at = "download"
  /\ Go(p, Then(p))
  /\ UNCHANGED <<disk, books, journal, calls>>

\* patchBook: the user edits the author's sort name.
PatchAuthorSort(b) ==
  /\ Exists(b) /\ Call
  /\ rows' = [rows EXCEPT ![b].sort = "manual"]
  /\ decided' = [decided EXCEPT ![b].sort = TRUE]
  /\ UNCHANGED <<disk, stored, cover, journal, proc>>
-----------------------------------------------------------------------------
(* Deletion: read the row, remove the files, then the row.                  *)

DeleteBook(r) ==
  /\ proc[r] = Idle /\ Call
  /\ \E b \in Ids : Exists(b) /\ Go(r, [at |-> "remove", book |-> b, dir |-> rows[b].dir])
  /\ UNCHANGED <<disk, books, journal>>

\* The folder with all it holds; of a book in the root only its own files.
Removed(d) == IF d = Root THEN {d} ELSE Below[d]

RemoveBookFromDisk(r) ==
  /\ proc[r].at = "remove"
  /\ disk' = [d \in Dirs |-> IF d \in Removed(proc[r].dir) THEN None ELSE disk[d]]
  /\ Go(r, [at |-> "forget", book |-> proc[r].book])
  /\ UNCHANGED <<books, journal, calls>>

DeleteBooks(r) ==
  /\ proc[r].at = "forget"
  /\ DeleteRows({proc[r].book})
  /\ Go(r, Idle)
  /\ UNCHANGED <<disk, journal, calls>>

\* The files cannot be removed, or the rows cannot: the rest is not done.
DeleteFails(r) ==
  /\ proc[r].at \in {"remove", "forget"}
  /\ Go(r, Idle)
  /\ UNCHANGED <<disk, books, journal, calls>>
-----------------------------------------------------------------------------
(* Organize and undo, one at a time (the gate). A run moves the audio of a  *)
(* book and then records all in one transaction; Organize.tla has the steps *)
(* in between.                                                              *)

Gate == \A w \in Workers : proc[w].at \notin {"move", "finalize", "unmove", "restore"}
Moved(d, to, c) == [x \in Dirs |-> CASE x = to -> c [] x = d /\ d # to -> None [] OTHER -> disk[x]]

\* planBook and BuildPlan: an accepted book whose audio is there, a target folder
\* without audio and without another row.
PlanBook(w) ==
  /\ proc[w] = Idle /\ Gate /\ Call
  /\ \E b \in Ids, to \in Dirs \ {Root} :
       /\ Exists(b) /\ rows[b].state \in Accepted /\ At(to) \subseteq {b}
       /\ disk[rows[b].dir] # None
       /\ to = rows[b].dir \/ disk[to] = None
       /\ journal' = journal \cup
            {[book |-> b, from |-> rows[b].dir, to |-> to, was |-> disk[rows[b].dir],
              state |-> rows[b].state, fits |-> TRUE, run |-> calls', status |-> "running"]}
  /\ Go(w, [at |-> "move", run |-> calls'])
  /\ UNCHANGED <<disk, books>>

Run(w) == CHOOSE j \in journal : j.run = proc[w].run
Journal(j, s) == journal' = (journal \ {j}) \cup {[j EXCEPT !.status = s]}

MoveAudio(w) ==
  /\ proc[w].at = "move"
  /\ LET j == Run(w) IN
     \/ /\ disk[j.from] # None /\ (j.to = j.from \/ disk[j.to] = None)
        /\ disk' = Moved(j.from, j.to, Renamed[disk[j.from]])
        /\ Go(w, [proc[w] EXCEPT !.at = "finalize"])
        /\ UNCHANGED journal
     \/ /\ disk[j.from] = None \/ (j.to # j.from /\ disk[j.to] # None)
        /\ Go(w, Idle) /\ journal' = journal \ {j}
        /\ UNCHANGED disk
  /\ UNCHANGED <<books, calls>>

\* The row, its identity and its file rows must still be what the plan saw;
\* otherwise the moves are rolled back (as far as that is possible).
Finalize(w) ==
  /\ proc[w].at = "finalize"
  /\ LET j == Run(w) IN
     \/ /\ Exists(j.book) /\ At(j.to) \subseteq {j.book} /\ j.fits
        /\ rows' = [rows EXCEPT ![j.book].dir = j.to, ![j.book].state = "organized"]
        /\ Journal(j, "done")
        /\ UNCHANGED disk
     \/ /\ disk' = IF disk[j.to] # None /\ (j.to = j.from \/ disk[j.from] = None)
                   THEN Moved(j.to, j.from, j.was) ELSE disk
        /\ journal' = journal \ {j}
        /\ UNCHANGED rows
  /\ Go(w, Idle)
  /\ UNCHANGED <<stored, cover, decided, calls>>

Undo(w) ==
  /\ proc[w] = Idle /\ Gate /\ Call
  /\ \E j \in journal : Go(w, [at |-> IF j.status = "done" THEN "unmove" ELSE "restore", run |-> j.run])
  /\ UNCHANGED <<disk, books, journal>>

\* Pass 1, reverseMove: the audio goes back, or is back already.
UndoMove(w) ==
  /\ proc[w].at = "unmove"
  /\ LET j == Run(w)
         back == j.to # j.from /\ disk[j.to] = None /\ disk[j.from] # None
         free == disk[j.to] # None /\ (j.to = j.from \/ disk[j.from] = None)
     IN \/ /\ back \/ free
           /\ disk' = IF back THEN disk ELSE Moved(j.to, j.from, j.was)
           /\ Journal(j, "back")
           /\ Go(w, [proc[w] EXCEPT !.at = "restore"])
        \/ /\ ~back /\ ~free
           /\ Go(w, Idle)
           /\ UNCHANGED <<disk, journal>>
  /\ UNCHANGED <<books, calls>>

\* Pass 2, RestoreBookSnapshot: it fails if the row is gone, its old identity is
\* taken, or the snapshot names file rows that no longer exist.
UndoRestore(w) ==
  /\ proc[w].at = "restore"
  /\ LET j == Run(w) IN
     \/ /\ Exists(j.book) /\ At(j.from) \subseteq {j.book} /\ j.fits
        /\ rows' = [rows EXCEPT ![j.book].dir = j.from, ![j.book].state = j.state]
        /\ journal' = journal \ {j}
     \/ /\ ~(Exists(j.book) /\ At(j.from) \subseteq {j.book} /\ j.fits)
        /\ UNCHANGED <<rows, journal>>
  /\ Go(w, Idle)
  /\ UNCHANGED <<disk, stored, cover, decided, calls>>
-----------------------------------------------------------------------------
Scan(w) == ScanStart(w) \/ ScanWalk(w) \/ ScanIndex(w) \/ ScanSave(w) \/ ScanPrune(w) \/ ScanFails(w)
Match(p) == \/ MatchNext(p) \/ TopNext(p) \/ ListEnds(p) \/ SearchReturns(p) \/ SearchFails(p)
            \/ Settle(p) \/ Apply(p) \/ LookAtCover(p) \/ DropCover(p)
            \/ FetchCover(p) \/ StoreCover(p) \/ DownloadFails(p)
Request(r) == \/ AcceptTopCandidates(r) \/ AutoMatch(r) \/ Accept(r)
              \/ DeleteBook(r) \/ RemoveBookFromDisk(r) \/ DeleteBooks(r) \/ DeleteFails(r)
Organize(w) == \/ PlanBook(w) \/ MoveAudio(w) \/ Finalize(w)
               \/ Undo(w) \/ UndoMove(w) \/ UndoRestore(w)

Step ==
  \/ \E d \in Dirs : ChangeAudio(d)
  \/ \E b \in Ids : PatchAuthorSort(b)
  \/ \E w \in Workers : MatchLibrary(w) \/ Scan(w) \/ Organize(w)
  \/ \E p \in Procs : Match(p)
  \/ \E r \in Requests : Request(r)

Place(b) == IF Exists(b) THEN <<rows[b].dir, rows[b].fp>> ELSE <<>>
Scanning(w) == proc[w].at \in {"walk", "save"}
Next ==
  /\ Step
  /\ calm' = {w \in Workers :
       /\ Scanning(w)'
       /\ proc[w] = proc'[w] => w \in calm /\ disk' = disk /\ \A b \in Ids : Place(b)' = Place(b)
       /\ proc[w] # proc'[w] => w \in calm \/ proc[w] = Idle}

Spec == Init /\ [][Next]_vars
-----------------------------------------------------------------------------
\* Rows, local copies and history have their types; one row per identity, and
\* candidates and covers only of rows that are there.
TypeOK ==
  /\ disk \in [Dirs -> Contents \cup {None}]
  /\ rows \in [Ids -> Row \cup {None}] /\ \A d \in Dirs : Cardinality(At(d)) <= 1
  /\ stored \in [Ids -> Results] /\ cover \in [Ids -> {Cover[c] : c \in Cands} \cup {None}]
  /\ decided \in [Ids -> [cand : Cands \cup {None}, sort : BOOLEAN]]
  /\ \A b \in Ids : Exists(b) \/ (stored[b] = <<>> /\ cover[b] = None /\ decided[b] = Undecided)
  /\ \A j \in journal : /\ j.book \in Ids /\ {j.from, j.to} \subseteq Dirs /\ j.was \in Contents
                        /\ j.state \in Accepted /\ j.fits \in BOOLEAN
                        /\ j.status \in {"running", "done", "back"}
  /\ \A p \in Procs :
       proc[p].at \in {"idle"} \cup (IF p \in Workers THEN {"walk", "save", "move", "finalize", "unmove", "restore"}
                                   ELSE {"remove", "forget"})
                  \cup {"next", "search", "settle", "apply", "look", "drop", "fetch", "download"}
  /\ calm \subseteq Workers /\ calls \in 0 .. MaxCalls

Agrees(r, b) == /\ decided[b].cand # None => r.state \in Accepted /\ r.cand = decided[b].cand
                /\ decided[b].sort => r.sort = "manual"
Stands(b) == decided[b] # Undecided /\ Exists(b) /\ Agrees(rows[b], b)

\* What a goroutine is about to write over b was read before the decision, or is
\* derived afresh because nobody had accepted the book when the scan read it.
Overtaken(p, b) ==
  \/ /\ proc[p].at = "save"
     /\ \/ b \notin DOMAIN proc[p].index \/ proc[p].index[b].dir # rows[b].dir
        \/ proc[p].index[b].state \notin Accepted \/ ~Agrees(proc[p].index[b], b)
  \/ /\ proc[p].at \in {"settle", "apply"} /\ proc[p].book = b /\ ~Agrees(proc[p].copy, b)
  \/ /\ proc[p].at \in {"search", "settle", "apply"} /\ proc[p].book = b
     /\ proc[p].kind = "match" /\ decided[b].cand # None  \* the job listed it as open

\* The request to delete the book, and a scan that found no audio where the row says.
Ends(p, b) ==
  \/ proc[p].at = "forget" /\ proc[p].book = b
  \/ proc[p].at = "save" /\ rows[b].dir \notin DOMAIN proc[p].units

\* A decision of the user (an accepted candidate, an edited sort name) is lost
\* only to a goroutine that read the book before it (Overtaken), or with the book.
DecisionsStand ==
  [][\A b \in Ids : Stands(b) /\ ~(Exists(b)' /\ Agrees(rows[b], b)') =>
       \E p \in Procs : proc'[p] # proc[p] /\ (Overtaken(p, b) \/ Ends(p, b))]_vars

Url(b) == IF rows[b].cand = None THEN None ELSE Cover[rows[b].cand]
Checking(b) == \E p \in Procs : proc[p].at \in {"look", "drop"} /\ proc[p].book = b
FreshCover(b) == Exists(b) /\ rows[b].cand # None => cover[b] \in {None, Url(b)} \/ Checking(b)

\* The copy of b that a scan is about to write over it is of another match, or of no row of its own.
Rematched(p, b) == /\ proc[p].at = "save"
                   /\ \/ b \notin DOMAIN proc[p].index \/ proc[p].index[b].dir # rows[b].dir
                      \/ proc[p].index[b].cand # rows[b].cand

\* matcher.go, invalidateStaleCover: a cached cover is of its book's current
\* address. Only a match that another one overtook, or a scan that one did, breaks it.
CoversStayFresh ==
  [][\A b \in Ids : FreshCover(b) /\ ~FreshCover(b)' =>
       \E p \in Procs : /\ proc'[p] # proc[p]
                        /\ \/ /\ proc[p].at \in {"look", "drop", "download"} /\ proc[p].book = b
                              /\ proc[p].url # Url(b)
                           \/ Rematched(p, b)]_vars

\* A scan during which nobody else changed a folder or a row's place leaves one
\* row for every folder with audio, of what the folder holds, and no other row:
\* whatever an interrupted deletion, a failed undo or an earlier race left.
Reconciled ==
  /\ {rows[b].dir : b \in {i \in Ids : Exists(i)}} = {d \in Dirs : disk[d] # None}
  /\ \A b \in Ids : Exists(b) => rows[b].fp = disk[rows[b].dir]
ScanReconciles == [][\A w \in Workers : ScanPrune(w) /\ w \in calm => Reconciled']_vars

\* README.md: every run is journaled and can be undone. When the audio of a run
\* is back, nothing stands in the way of its row but another row or none.
UndoCanFinish ==
  \A j \in journal : j.status = "back" /\ Exists(j.book) /\ At(j.from) \subseteq {j.book} => j.fits

\* books_delete.go: the folder holds exactly this one book. Removing a book takes
\* no audio out of a folder that is the place of another.
DeleteSparesOthers ==
  [][\A r \in Requests, b \in Ids :
       proc[r].at = "remove" /\ proc'[r].at = "forget" /\ Exists(b) /\ b # proc[r].book
         => disk'[rows[b].dir] = disk[rows[b].dir]]_vars
=============================================================================
