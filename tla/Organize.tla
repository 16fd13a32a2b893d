------------------------------- MODULE Organize -------------------------------
(***************************************************************************)
(* One organize job of internal/organize: Execute with its journal         *)
(* (rename_ops rows), rollback, and Undo, over the library's files and     *)
(* folders and the book rows that describe them.                           *)
(*                                                                         *)
(* Every journaled step is three atomic actions - insert the row, touch    *)
(* the disk, flip the row - so that an error, a cancellation or a crash    *)
(* can fall between any two of them. The plan is a constant: the steps     *)
(* Execute derives from it (OrganizePlan!BuildSteps) in execution order.   *)
(***************************************************************************)
EXTENDS Integers, Sequences

CONSTANTS Files,      \* audio files the run is about
          Foreign,    \* files somebody else may put into the library
          Paths,      \* file paths under the library root
          Temps,      \* those that are uniquely named case-fix temporaries
          Dirs,       \* folders under the library root
          Within,     \* path or folder -> the folders from it up to the root
          NBooks,     \* the run's books are 1..NBooks, in plan order
          BookOf,     \* file -> its book
          Loose,      \* books stored by SourceFile, not by SourceDir + rel_path
          Prior,      \* book -> state before the run
          Old, New,   \* file -> its path before and after
          Steps,      \* the steps, records [kind, src, dst]
          None,
          MaxMishaps, \* bound: failing calls, cancellations, crashes and drops
          MaxUndos    \* bound: undo requests

Books == 1 .. NBooks
Ops == 1 .. Len(Steps)
Kind(i) == Steps[i].kind
Src(i) == Steps[i].src
Dst(i) == Steps[i].dst
MoveKinds == {"move", "leg1", "leg2"}
Kinds == MoveKinds \cup {"mkdir", "rmdir", "tag"}
Moves == {i \in Ops : Kind(i) \in MoveKinds}
TagOps == {i \in Ops : Kind(i) = "tag"}
DirOps == {i \in Ops : Kind(i) \in {"mkdir", "rmdir"}}
TagVals == {"old", "new", "wrong"}

\* What a path or a backup holds: a copy of some file, with its embedded tags.
Copies == [file : Files \cup Foreign, tags : TagVals]
NoCopy == [file |-> None, tags |-> "none"]

ASSUME OrganizeAssumption ==
  /\ NBooks \in Nat /\ MaxMishaps \in Nat /\ MaxUndos \in Nat
  /\ None \notin Files \cup Foreign /\ Files \cap Foreign = {}
  /\ Temps \subseteq Paths
  /\ Within \in [Paths \cup Dirs -> SUBSET Dirs]
  /\ BookOf \in [Files -> Books] /\ Loose \subseteq Books
  /\ Prior \in [Books -> {"matched", "organized"}]
  /\ Old \in [Files -> Paths \ Temps] /\ New \in [Files -> Paths \ Temps]
  /\ Steps \in Seq([kind : Kinds, src : Paths \cup {None}, dst : Paths \cup Dirs])
  /\ \A i \in Moves \cup TagOps : Dst(i) \in Paths
  /\ \A i \in Moves : Src(i) \in Paths /\ (Kind(i) = "leg1" <=> Dst(i) \in Temps)
  /\ \A i, j \in Moves : Kind(i) = "leg1" /\ Dst(i) = Dst(j) => i = j
  /\ \A i \in Moves, j \in TagOps : i < j
  /\ \A i \in DirOps : Dst(i) \in Dirs

\* What the planner and Execute's loops make of any library. A file that changes its
\* path is moved once, directly or by the two legs of a case fix, and nothing is
\* planned to where another file is (plan.go:374-383); folders are made before
\* anything else, parents first, and those to prune were there before.
MovedBy(f, i) == Kind(i) = "move" /\ Src(i) = Old[f] /\ Dst(i) = New[f]
FixedBy(f, i) == /\ Kind(i) = "leg1" /\ Src(i) = Old[f]
                 /\ i + 1 \in Moves /\ Kind(i + 1) = "leg2"
                 /\ Src(i + 1) = Dst(i) /\ Dst(i + 1) = New[f]
Created == {Dst(i) : i \in {j \in Ops : Kind(j) = "mkdir"}}
InitialDirs == Dirs \ Created

ASSUME PlanAssumption ==
  /\ \A f, g \in Files : Old[f] = Old[g] \/ New[f] = New[g] \/ Old[f] = New[g] => f = g
  /\ \A f \in Files : Old[f] # New[f] => \E i \in Moves : MovedBy(f, i) \/ FixedBy(f, i)
  /\ \A i \in Moves : \E f \in Files :
       Old[f] # New[f] /\ IF Kind(i) = "leg2" THEN Dst(i) = New[f] ELSE Src(i) = Old[f]
  /\ \A i, j \in Moves : Src(i) = Src(j) \/ Dst(i) = Dst(j) => i = j
  /\ \A i \in TagOps : \E f \in Files : Dst(i) = New[f]
  /\ \A i, j \in TagOps : Dst(i) = Dst(j) => i = j
  /\ \A i, j \in Ops : Kind(i) = "mkdir" /\ Kind(j) # "mkdir" => i < j
  /\ \A i, j \in Ops : Kind(i) = "mkdir" /\ Kind(j) = "mkdir" /\ i < j =>
       Dst(j) \notin Within[Dst(i)]
  /\ \A i \in Ops : Kind(i) = "rmdir" => Dst(i) \notin Created
  /\ \A i, j \in Ops : Kind(i) = "rmdir" /\ Kind(j) = "rmdir" /\ Dst(i) = Dst(j) => i = j
  /\ \A d \in Dirs : d \in Within[d]

\* No file lies in a folder that has yet to be made, and a folder is pruned for a book
\* all of whose files have moved out of it (execute.go:76-86, plan.go:614-626).
ASSUME PruneAssumption ==
  /\ \A f \in Files : Within[Old[f]] \cap Created = {}
  /\ \A i \in Ops : Kind(i) = "rmdir" => \E j \in Moves, f \in Files :
       j < i /\ Src(j) = Old[f] /\ Dst(i) \in Within[Old[f]]

VARIABLES
  fs,        \* path -> the copy there
  dirs,      \* the folders that exist
  backup,    \* tag step -> the copy in its backup file
  row,       \* journal status of each step
  snap,      \* journal status of each book's snapshot row
  book,      \* books and book_files rows
  job,       \* jobs.status of the organize job
  undo,      \* jobs.status of its latest undo job
  phase,     \* what the one goroutine inside the organize gate is doing
  pos, sub,  \* Execute's current step, and which third of it comes next
  completed, \* Execute's completed slice (in memory)
  ctxDone,   \* the running job's context has been canceled
  rbErr,     \* rollback returned errors
  mishaps, undos, crashed

disk == <<fs, dirs, backup>>
journal == <<row, snap>>
jobs == <<job, undo>>
control == <<phase, pos, sub, completed, ctxDone, rbErr>>
bounds == <<mishaps, undos, crashed>>
vars == <<disk, journal, book, jobs, control, bounds>>

Init ==
  /\ fs = [p \in Paths |-> IF \E f \in Files : Old[f] = p
                           THEN [file |-> CHOOSE f \in Files : Old[f] = p,
                                 tags |-> "old"]
                           ELSE NoCopy]
  /\ dirs = InitialDirs
  /\ backup = [i \in Ops |-> NoCopy]
  /\ row = [i \in Ops |-> "none"] /\ snap = [b \in Books |-> "none"]
  /\ book = [b \in Books |-> [at |-> "old", base |-> "dir", state |-> Prior[b]]]
  /\ job = "queued" /\ undo = "none"
  /\ phase = "idle" /\ pos = 1 /\ sub = "insert"
  /\ completed = {} /\ ctxDone = FALSE /\ rbErr = FALSE
  /\ mishaps = 0 /\ undos = 0 /\ crashed = FALSE

-----------------------------------------------------------------------------
(* Helpers shared by Execute, rollback and Undo. *)

\* k of the bounded mishaps happen in this step.
Spend(k) == /\ mishaps + k <= MaxMishaps
            /\ mishaps' = mishaps + k
            /\ UNCHANGED <<undos, crashed>>

\* os.Remove succeeds on a folder only when nothing is left in it.
Empty(d) == /\ \A p \in Paths : fs[p] # NoCopy => d \notin Within[p]
            /\ \A e \in dirs \ {d} : d \notin Within[e]

\* Bug: doMove without its look at the destination.
RenamedOver(p, q) == /\ fs[p] # NoCopy
                     /\ fs' = [fs EXCEPT ![p] = NoCopy, ![q] = fs[p]]
                     /\ dirs' = dirs \cup Within[q]

\* doMove returning nil: destination free, its folder made, file renamed or copied.
Renamed(p, q) == /\ fs[p] # NoCopy
                 /\ fs[q] = NoCopy
                 /\ fs' = [fs EXCEPT ![p] = NoCopy, ![q] = fs[p]]
                 /\ dirs' = dirs \cup Within[q]

\* doMove (or the containment check before it) returning an error: the
\* destination is taken, the source is not there, or, as one mishap, a call
\* fails before or after MkdirAll. A cross-device move may then leave the copy
\* beside the source.
NotRenamed(p, q, k) ==
  \/ k = 0 /\ fs[q] # NoCopy /\ UNCHANGED <<fs, dirs>>
  \/ k = 0 /\ fs[q] = NoCopy /\ fs[p] = NoCopy
     /\ dirs' = dirs \cup Within[q] /\ UNCHANGED fs
  \/ k = 1 /\ UNCHANGED <<fs, dirs>>
  \/ k = 1 /\ fs[q] = NoCopy /\ fs[p] # NoCopy
     /\ dirs' = dirs \cup Within[q]
     /\ fs' \in {fs, [fs EXCEPT ![q] = fs[p]]}

\* Bug: a file at the old path is taken for the one that was moved.
AlreadyBackIfTaken(i) == fs[Src(i)] # NoCopy

\* Bug: a move that is back already is moved again.
AlreadyBackNever(i) == FALSE

\* reverseMove's test for a step somebody has already put back.
AlreadyBack(i) == fs[Dst(i)] = NoCopy /\ fs[Src(i)] # NoCopy

Mark(i, status) == row' = [row EXCEPT ![i] = status]

\* CurrentTagBackupOwner names step i: its row is the done one for that file.
OwnsBackup(i) == row[i] = "done" /\ backup[i] # NoCopy

\* restoreTagFile returning nil: the owner's backup is copied to the path its tags
\* were written at, whatever is there now.
RestoreTags(i) ==
  IF OwnsBackup(i)
  THEN fs' = [fs EXCEPT ![Dst(i)] = backup[i]] /\ dirs' = dirs \cup Within[Dst(i)]
  ELSE UNCHANGED <<fs, dirs>>

\* restoreTagFile failing, before or after it has made the folder.
NotRestored(i) == /\ UNCHANGED fs
                  /\ \E made \in {{}, Within[Dst(i)]} :
                       (OwnsBackup(i) \/ made = {}) /\ dirs' = dirs \cup made

-----------------------------------------------------------------------------
(* Execute *)

\* The worker starts the job and the planner's and executor's up-front checks
\* run; one of them failing ends the job before anything is touched.
StartRun ==
  /\ phase = "idle" /\ job = "queued"
  /\ \/ Spend(0) /\ job' = "running" /\ phase' = "exec"
     \/ Spend(1) /\ job' = "failed" /\ phase' = "idle"
  /\ UNCHANGED <<disk, journal, book, undo, pos, sub, completed, ctxDone, rbErr>>

GiveUp == phase' = "rollback" /\ sub' = "act"

\* The loops over folders to make, files to move and tags to write look at the
\* context before each step; the loop over folders to prune does not, and the
\* second leg of a case fix follows the first without looking.
ChecksContext(i) == Kind(i) \notin {"rmdir", "leg2"}

StopAtCancel ==
  /\ phase = "exec" /\ sub = "insert" /\ pos \in Ops
  /\ ctxDone /\ ChecksContext(pos)
  /\ GiveUp
  /\ UNCHANGED <<disk, journal, book, jobs, pos, completed, ctxDone, rbErr, bounds>>

\* Bug: a failed journal insert is logged and the step carried out anyway.
InsertOpOrNot ==
  /\ phase = "exec" /\ sub = "insert" /\ pos \in Ops
  /\ ctxDone => ~ChecksContext(pos)
  /\ \/ Spend(0) /\ Mark(pos, "pending") /\ sub' = "act"
     \/ Spend(1) /\ sub' = "act" /\ UNCHANGED row
  /\ UNCHANGED <<disk, snap, book, jobs, phase, pos, completed, ctxDone, rbErr>>

\* InsertRenameOp: nothing is touched before the row is there.
InsertOp ==
  /\ phase = "exec" /\ sub = "insert" /\ pos \in Ops
  /\ ctxDone => ~ChecksContext(pos)
  /\ \/ Spend(0) /\ Mark(pos, "pending") /\ sub' = "act" /\ UNCHANGED phase
     \/ Spend(1) /\ GiveUp /\ UNCHANGED row
  /\ UNCHANGED <<disk, snap, book, jobs, pos, completed, ctxDone, rbErr>>

\* Bug: a status the journal does not know.
JournalFailureAsError(k) == \/ Spend(k) /\ Mark(pos, "error")
                            \/ Spend(k + 1) /\ UNCHANGED row

\* A step failed with k mishaps: markFailed, whose own failure is only logged.
JournalFailure(k) == \/ Spend(k) /\ Mark(pos, "failed")
                     \/ Spend(k + 1) /\ UNCHANGED row

Abort(k) == JournalFailure(k) /\ GiveUp /\ UNCHANGED completed

\* Bug: the step is remembered only once its row has been flipped.
AppliedLater == /\ sub' = "mark"
                /\ Spend(0) /\ UNCHANGED <<row, phase, completed>>

\* The physical change is done and remembered before its row is flipped.
Applied == /\ completed' = completed \cup {pos}
           /\ sub' = "mark"
           /\ Spend(0) /\ UNCHANGED <<row, phase>>

Acting(kinds) == phase = "exec" /\ sub = "act" /\ Kind(pos) \in kinds

Mkdir ==
  /\ Acting({"mkdir"})
  /\ \/ Applied /\ dirs' = dirs \cup Within[Dst(pos)]
     \/ Abort(1) /\ UNCHANGED dirs
  /\ UNCHANGED <<fs, backup, snap, book, jobs, pos, ctxDone, rbErr>>

Move ==
  /\ Acting({"move"})
  /\ \/ Applied /\ Renamed(Src(pos), Dst(pos))
     \/ \E k \in {0, 1} : NotRenamed(Src(pos), Dst(pos), k) /\ Abort(k)
  /\ UNCHANGED <<backup, snap, book, jobs, pos, ctxDone, rbErr>>

\* First leg of a case fix: a bare rename to a fresh temporary name.
CaseFixLeg1 ==
  /\ Acting({"leg1"})
  /\ \/ /\ Applied /\ fs[Src(pos)] # NoCopy
        /\ fs' = [fs EXCEPT ![Src(pos)] = NoCopy, ![Dst(pos)] = fs[Src(pos)]]
     \/ Abort(1) /\ UNCHANGED fs
  /\ UNCHANGED <<dirs, backup, snap, book, jobs, pos, ctxDone, rbErr>>

\* Second leg: an occupied destination aborts without journaling the failure.
CaseFixLeg2 ==
  /\ Acting({"leg2"})
  /\ \/ /\ Applied /\ fs[Dst(pos)] = NoCopy
        /\ fs' = [fs EXCEPT ![Src(pos)] = NoCopy, ![Dst(pos)] = fs[Src(pos)]]
     \/ /\ fs[Dst(pos)] # NoCopy
        /\ Spend(0) /\ GiveUp /\ UNCHANGED <<fs, row, completed>>
     \/ Abort(1) /\ UNCHANGED fs
  /\ UNCHANGED <<dirs, backup, snap, book, jobs, pos, ctxDone, rbErr>>

\* A folder that cannot be pruned is journaled as failed and the run goes on.
Rmdir ==
  /\ Acting({"rmdir"})
  /\ \/ /\ Applied /\ Dst(pos) \in dirs /\ Empty(Dst(pos))
        /\ dirs' = dirs \ {Dst(pos)} /\ UNCHANGED pos
     \/ /\ \E k \in {0, 1} :
             /\ JournalFailure(k)
             /\ k = 0 => Dst(pos) \notin dirs \/ ~Empty(Dst(pos))
        /\ pos' = pos + 1 /\ sub' = "insert"
        /\ UNCHANGED <<dirs, phase, completed>>
  /\ UNCHANGED <<fs, backup, snap, book, jobs, ctxDone, rbErr>>

\* executeTagWrite, first half: the file's bytes go to the backup.
BackupTags ==
  /\ Acting({"tag"}) /\ backup[pos] = NoCopy
  /\ \/ /\ fs[Dst(pos)] # NoCopy /\ Spend(0)
        /\ backup' = [backup EXCEPT ![pos] = fs[Dst(pos)]]
        /\ UNCHANGED <<row, phase, sub, completed>>
     \/ Abort(1) /\ UNCHANGED backup
  /\ UNCHANGED <<fs, dirs, snap, book, jobs, pos, ctxDone, rbErr>>

\* Second half: the atomic write and the re-read that verifies it. Until its row
\* is done the step is not in completed, whatever the file now holds.
WriteTags ==
  /\ Acting({"tag"}) /\ backup[pos] # NoCopy
  /\ \/ /\ fs[Dst(pos)] # NoCopy /\ Spend(0)
        /\ fs' = [fs EXCEPT ![Dst(pos)].tags = "new"] /\ sub' = "mark"
        /\ UNCHANGED <<row, phase, completed>>
     \/ Abort(1) /\ UNCHANGED fs
     \/ /\ fs[Dst(pos)] # NoCopy /\ Abort(1)
        /\ \E t \in {"new", "wrong"} : fs' = [fs EXCEPT ![Dst(pos)].tags = t]
  /\ UNCHANGED <<dirs, backup, snap, book, jobs, pos, ctxDone, rbErr>>

\* markDone, and for a tag write the append to completed that follows it.
MarkDone ==
  /\ phase = "exec" /\ sub = "mark"
  /\ \/ /\ Spend(0) /\ Mark(pos, "done")
        /\ completed' = completed \cup {pos}
        /\ pos' = pos + 1 /\ sub' = "insert" /\ UNCHANGED phase
     \/ Spend(1) /\ GiveUp /\ UNCHANGED <<row, pos, completed>>
  /\ UNCHANGED <<disk, snap, book, jobs, ctxDone, rbErr>>

\* FinalizeOrganize: snapshots and book rows in one transaction.
Finalize ==
  /\ phase = "exec" /\ sub = "insert" /\ pos = Len(Steps) + 1
  /\ \/ /\ Spend(0)
        /\ snap' = [b \in Books |-> "done"]
        /\ book' = [b \in Books |->
                      [at |-> "new", base |-> "dir", state |-> "organized"]]
        /\ phase' = "cleanup" /\ UNCHANGED sub
     \/ Spend(1) /\ GiveUp /\ UNCHANGED <<snap, book>>
  /\ UNCHANGED <<disk, row, jobs, pos, completed, ctxDone, rbErr>>

\* The committed run drops its tag backups; one that cannot be removed stays.
Cleanup ==
  /\ phase = "cleanup"
  /\ \E kept \in SUBSET TagOps :
       /\ Spend(IF kept = {} THEN 0 ELSE 1)
       /\ backup' = [i \in Ops |-> IF i \in kept THEN backup[i] ELSE NoCopy]
  /\ phase' = "idle" /\ job' = "done"
  /\ UNCHANGED <<fs, dirs, journal, book, undo, pos, sub, completed, ctxDone, rbErr>>

-----------------------------------------------------------------------------
(* rollback: completed steps, newest first. A consumed tag backup that     *)
(* cannot be removed is only logged.                                       *)

\* The last member of a set of steps or books (none, of an empty set).
Newest(S) == {i \in S : \A j \in S : j <= i}

\* The reversal of step i returned nil, leaving everything outside <<fs, dirs>>
\* to the caller.
ReversedMove(i) == \/ AlreadyBack(i) /\ UNCHANGED <<fs, dirs>>
                   \/ ~AlreadyBack(i) /\ Renamed(Dst(i), Src(i))

\* Rollback reverses step i, or records that it could not.
RollsBack(i) ==
  \/ /\ Spend(0) /\ sub' = "mark" /\ UNCHANGED <<completed, rbErr>>
     /\ \/ i \in Moves /\ ReversedMove(i) /\ UNCHANGED backup
        \/ /\ Kind(i) = "mkdir" /\ (Dst(i) \in dirs => Empty(Dst(i)))
           /\ dirs' = dirs \ {Dst(i)} /\ UNCHANGED <<fs, backup>>
        \/ /\ Kind(i) = "rmdir"
           /\ dirs' = dirs \cup Within[Dst(i)] /\ UNCHANGED <<fs, backup>>
        \/ /\ Kind(i) = "tag" /\ RestoreTags(i)
           /\ backup' = [backup EXCEPT ![i] = NoCopy]
  \/ /\ Kind(i) = "tag" /\ OwnsBackup(i)
     /\ Spend(1) /\ sub' = "mark" /\ RestoreTags(i)
     /\ UNCHANGED <<backup, completed, rbErr>>
  \/ /\ completed' = completed \ {i} /\ rbErr' = TRUE /\ UNCHANGED <<sub, backup>>
     /\ \/ /\ i \in Moves /\ ~AlreadyBack(i)
           /\ \E k \in {0, 1} : NotRenamed(Dst(i), Src(i), k) /\ Spend(k)
        \/ /\ Kind(i) = "mkdir" /\ Dst(i) \in dirs /\ ~Empty(Dst(i))
           /\ Spend(0) /\ UNCHANGED <<fs, dirs>>
        \/ Kind(i) = "tag" /\ Spend(1) /\ NotRestored(i)
        \/ Kind(i) \in {"mkdir", "rmdir"} /\ Spend(1) /\ UNCHANGED <<fs, dirs>>

RollbackAct ==
  /\ phase = "rollback" /\ sub = "act"
  /\ \E i \in Newest(completed) : RollsBack(i)
  /\ UNCHANGED <<journal, book, jobs, phase, pos, ctxDone>>

RollbackMark ==
  /\ phase = "rollback" /\ sub = "mark"
  /\ \E i \in Newest(completed) :
     /\ completed' = completed \ {i} /\ sub' = "act"
     /\ \/ Spend(0) /\ Mark(i, "reverted") /\ UNCHANGED rbErr
        \/ Spend(1) /\ rbErr' = TRUE /\ UNCHANGED row
  /\ UNCHANGED <<disk, snap, book, jobs, phase, pos, ctxDone>>

\* Execute returns its error; the worker records canceled if the context is done.
RollbackEnd ==
  /\ phase = "rollback" /\ sub = "act" /\ completed = {}
  /\ phase' = "idle" /\ job' = IF ctxDone THEN "canceled" ELSE "failed"
  /\ UNCHANGED <<disk, journal, book, undo, pos, sub, completed, ctxDone, rbErr, bounds>>

-----------------------------------------------------------------------------
(* Undo *)

Pending == {i \in Ops : row[i] = "done"}
SnapsLeft == {b \in Books : snap[b] = "done"}

\* undoJob's guard: the target has stopped and no undo of it is active.
UndoAllowed == job \notin {"queued", "running"} /\ undo # "running"

RequestUndo ==
  /\ phase = "idle" /\ UndoAllowed /\ undos < MaxUndos
  /\ undos' = undos + 1 /\ ctxDone' = FALSE
  /\ IF Pending \cup SnapsLeft = {}
     THEN undo' = "done" /\ UNCHANGED <<phase, sub>>
     ELSE undo' = "running" /\ phase' = "undo" /\ sub' = "act"
  /\ UNCHANGED <<disk, journal, book, job, pos, completed, rbErr, mishaps, crashed>>

UndoFails == phase' = "idle" /\ undo' = IF ctxDone THEN "canceled" ELSE "failed"

\* Undo reverses step i, or ends without. A folder the run made is kept when it
\* cannot be removed, and its step counts as reversed.
Undoes(i) ==
  \/ /\ Spend(0) /\ sub' = "mark" /\ UNCHANGED <<phase, undo>>
     /\ \/ i \in Moves /\ ReversedMove(i)
        \/ /\ Kind(i) = "mkdir"
           /\ dirs' = IF Empty(Dst(i)) THEN dirs \ {Dst(i)} ELSE dirs
           /\ UNCHANGED fs
        \/ /\ Kind(i) = "rmdir"
           /\ dirs' = dirs \cup Within[Dst(i)] /\ UNCHANGED fs
        \/ Kind(i) = "tag" /\ RestoreTags(i)
  \/ /\ Kind(i) = "mkdir" /\ Spend(1) /\ sub' = "mark"
     /\ UNCHANGED <<fs, dirs, phase, undo>>
  \/ /\ UndoFails /\ UNCHANGED sub
     /\ \/ /\ i \in Moves /\ ~AlreadyBack(i)
           /\ \E k \in {0, 1} : NotRenamed(Dst(i), Src(i), k) /\ Spend(k)
        \/ Kind(i) = "rmdir" /\ Spend(1) /\ UNCHANGED <<fs, dirs>>
        \/ Kind(i) = "tag" /\ Spend(1) /\ NotRestored(i)

\* Pass 1, newest first, over the steps whose row is done.
UndoAct ==
  /\ phase = "undo" /\ sub = "act" /\ ~ctxDone
  /\ \E i \in Newest(Pending) : Undoes(i)
  /\ UNCHANGED <<backup, journal, book, job, pos, completed, ctxDone, rbErr>>

\* markReverted; only then is a consumed tag backup removed.
UndoMark ==
  /\ phase = "undo" /\ sub = "mark"
  /\ \E i \in Newest(Pending) :
     \/ /\ Spend(0) /\ Mark(i, "reverted") /\ sub' = "act"
        /\ backup' = [backup EXCEPT ![i] = NoCopy] /\ UNCHANGED <<phase, undo>>
     \/ Spend(1) /\ UndoFails /\ UNCHANGED <<row, sub, backup>>
  /\ UNCHANGED <<fs, dirs, snap, book, job, pos, completed, ctxDone, rbErr>>

\* The context is looked at before every row of pass 1, whatever its status.
UndoStopAtCancel ==
  /\ phase = "undo" /\ sub = "act" /\ ctxDone
  /\ UndoFails
  /\ UNCHANGED <<disk, journal, book, job, pos, sub, completed, ctxDone, rbErr, bounds>>

\* Bug: pass 2 begins while steps are left to reverse.
BeginPass2Early ==
  /\ phase = "undo" /\ sub = "act"
  /\ sub' = "restore"
  /\ UNCHANGED <<disk, journal, book, jobs, phase, pos, completed, ctxDone, rbErr, bounds>>

\* Pass 1 has run to its end: no step is left that still says done.
BeginPass2 ==
  /\ phase = "undo" /\ sub = "act" /\ Pending = {}
  /\ sub' = "restore"
  /\ UNCHANGED <<disk, journal, book, jobs, phase, pos, completed, ctxDone, rbErr, bounds>>

\* Pass 2: RestoreBookSnapshot. The snapshot's file paths are the planner's
\* root-relative ones, stored as they are.
RestoreBook ==
  /\ phase = "undo" /\ sub = "restore"
  /\ \E b \in Newest(SnapsLeft) :
     \/ /\ Spend(0) /\ sub' = "marksnap" /\ UNCHANGED <<phase, undo>>
        /\ book' = [book EXCEPT ![b] =
                      [at |-> "old", base |-> "root", state |-> Prior[b]]]
     \/ Spend(1) /\ UndoFails /\ UNCHANGED <<sub, book>>
  /\ UNCHANGED <<disk, journal, job, pos, completed, ctxDone, rbErr>>

MarkSnapshot ==
  /\ phase = "undo" /\ sub = "marksnap"
  /\ \E b \in Newest(SnapsLeft) :
     \/ /\ Spend(0) /\ snap' = [snap EXCEPT ![b] = "reverted"]
        /\ sub' = "restore" /\ UNCHANGED <<phase, undo>>
     \/ Spend(1) /\ UndoFails /\ UNCHANGED <<snap, sub>>
  /\ UNCHANGED <<disk, row, book, job, pos, completed, ctxDone, rbErr>>

UndoEnd ==
  /\ phase = "undo" /\ sub = "restore" /\ SnapsLeft = {}
  /\ phase' = "idle" /\ undo' = "done"
  /\ UNCHANGED <<disk, journal, book, job, pos, sub, completed, ctxDone, rbErr, bounds>>

-----------------------------------------------------------------------------
(* Around the executor *)

\* Manager.Cancel reaches the running job's context.
Cancel ==
  /\ phase # "idle" /\ ~ctxDone /\ ctxDone' = TRUE /\ Spend(1)
  /\ UNCHANGED <<disk, journal, book, jobs, phase, pos, sub, completed, rbErr>>

\* The process dies and is started again: memory is gone, files, journal and job
\* rows are as they were, and no start-up code looks at them.
Crash ==
  /\ phase # "idle" /\ mishaps < MaxMishaps
  /\ mishaps' = mishaps + 1 /\ crashed' = TRUE
  /\ phase' = "idle" /\ sub' = "act" /\ completed' = {} /\ ctxDone' = FALSE
  /\ UNCHANGED <<disk, journal, book, jobs, pos, rbErr, undos>>

\* Somebody puts a file into a folder that exists.
DropFile ==
  /\ \E p \in Paths \ Temps, x \in Foreign :
       /\ fs[p] = NoCopy /\ Within[p] \subseteq dirs
       /\ \A q \in Paths : fs[q].file # x
       /\ fs' = [fs EXCEPT ![p] = [file |-> x, tags |-> "old"]]
  /\ Spend(1)
  /\ UNCHANGED <<dirs, backup, journal, book, jobs, control>>

Execute == \/ StartRun \/ StopAtCancel \/ InsertOp \/ Mkdir \/ Move
           \/ CaseFixLeg1 \/ CaseFixLeg2 \/ Rmdir \/ BackupTags \/ WriteTags
           \/ MarkDone \/ Finalize \/ Cleanup
Rollback == RollbackAct \/ RollbackMark \/ RollbackEnd
Undo == \/ UndoAct \/ UndoMark \/ UndoStopAtCancel
        \/ BeginPass2 \/ RestoreBook \/ MarkSnapshot \/ UndoEnd
Program == Execute \/ Rollback \/ Undo

Next == Program \/ RequestUndo \/ Cancel \/ Crash \/ DropFile

Spec == Init /\ [][Next]_vars

\* A goroutine that can step does, and the user asks for an undo, again and
\* again while one is allowed.
FairSpec == Spec /\ WF_vars(Program) /\ WF_vars(RequestUndo)
-----------------------------------------------------------------------------
(* Properties *)

\* The variables hold values of the kinds the code gives them.
TypeOK ==
  /\ fs \in [Paths -> Copies \cup {NoCopy}]
  /\ dirs \subseteq Dirs
  /\ backup \in [Ops -> Copies \cup {NoCopy}]
  /\ row \in [Ops -> {"none", "pending", "done", "failed", "reverted"}]
  /\ snap \in [Books -> {"none", "done", "reverted"}]
  /\ book \in [Books -> [at : {"old", "new"}, base : {"dir", "root"},
                         state : {"matched", "organized"}]]
  /\ job \in {"queued", "running", "done", "failed", "canceled"}
  /\ undo \in {"none", "running", "done", "failed", "canceled"}
  /\ phase \in {"idle", "exec", "cleanup", "rollback", "undo"}
  /\ pos \in 1 .. Len(Steps) + 1
  /\ sub \in {"insert", "act", "mark", "restore", "marksnap"}
  /\ completed \subseteq Ops
  /\ ctxDone \in BOOLEAN /\ rbErr \in BOOLEAN /\ crashed \in BOOLEAN
  /\ mishaps \in 0 .. MaxMishaps /\ undos \in 0 .. MaxUndos

\* The disk shows no effect of a step whose journal row was never inserted:
\* "the journal row must be durably written before the filesystem change"
\* (execute.go:158), at every instant a crash can strike.
Untouched(i) ==
  CASE i \in Moves -> fs[Dst(i)].file \notin Files
    [] Kind(i) = "mkdir" -> Dst(i) \notin dirs
    [] Kind(i) = "rmdir" -> Dst(i) \in dirs
    [] Kind(i) = "tag" -> backup[i] = NoCopy
                          /\ fs[Dst(i)].tags \in {"old", "none"}
WriteAhead == \A i \in Ops : row[i] = "none" => Untouched(i)

\* An undo copies a tag backup over another file that has come to its path.
Overwritten(x) == phase = "undo" /\ \E i \in TagOps :
  /\ OwnsBackup(i) /\ backup[i].file # x
  /\ fs[Dst(i)].file = x /\ fs'[Dst(i)] = backup[i]

\* No step of a run, a rollback or an undo, except undo's restoring of tags, makes
\* the last copy of anybody's file disappear: neither one of the run's files nor
\* one dropped in its way.
Stays(x) == (\E p \in Paths : fs[p].file = x) => (\E p \in Paths : fs'[p].file = x)
KeepsFiles == \A x \in Files \cup Foreign : Stays(x) \/ Overwritten(x)
NothingLost == [][KeepsFiles]_vars

\* A tag write that fails after the file was replaced is not in completed
\* (tags.go:59-68), and its row never says done: rollback and undo pass over it.
KeptNewTags(f) ==
  \E i \in Ops : Kind(i) = "tag" /\ Dst(i) = New[f] /\ row[i] \in {"pending", "failed"}

\* A run that failed or was canceled, and whose rollback reported no error, left
\* files, folders, book rows and, but for one write that failed late, embedded tags
\* as it found them, and nothing for undo to do.
CleanRollback ==
  phase = "idle" /\ job \in {"failed", "canceled"} /\ ~rbErr /\ undos = 0 =>
    /\ \A f \in Files : /\ fs[Old[f]].file = f
                      /\ (fs[Old[f]].tags = "old" \/ KeptNewTags(f))
    /\ dirs = InitialDirs
    /\ \A b \in Books : book[b].at = "old"
    /\ Pending \cup SnapsLeft = {}

\* A move that undo cannot reverse: it was applied but its row never said done,
\* so undo passes over it; its row is done and there is a file at both its ends, or
\* at neither, one journal write having been lost; or it is the first leg of a case fix
\* that a rollback took for reversed, the second leg's reversal having failed and
\* a foreign file having come to the old name.
Stuck(i) == \/ row[i] \in {"pending", "failed"} /\ fs[Dst(i)].file \in Files
            \/ row[i] = "done" /\ (fs[Dst(i)] = NoCopy <=> fs[Src(i)] = NoCopy)
            \/ row[i] = "reverted" /\ Dst(i) \in Temps /\ fs[Dst(i)].file \in Files

\* A rollback could not restore the tags and has moved the file away all the same:
\* undo then leaves the copy with the old tags where the file no longer is.
Doubled(f) == Old[f] # New[f] /\ fs[New[f]].file = f

\* When an undo has returned without error, every file is back, every pruned
\* folder exists again and every book row was restored, however many failed
\* attempts came before it and wherever they stopped; after a run that failed,
\* the file's embedded tags are back too.
UndoneMeansOriginal ==
  undo = "done" =>
    /\ Pending \cup SnapsLeft = {}
    /\ InitialDirs \subseteq dirs
    /\ \A b \in Books : book[b].at = "old" /\ book[b].state = Prior[b]
    /\ \/ \E i \in Moves : Stuck(i)
       \/ \A f \in Files :
            /\ fs[Old[f]].file = f
            /\ \/ fs[Old[f]].tags = "old" \/ job = "done"
               \/ KeptNewTags(f) \/ Doubled(f)

\* The database is switched to the new layout only when every file of the run is
\* there, and back only when every file is back (execute.go:392-398).
BooksAt(place) == {b \in Books : \A f \in Files : BookOf[f] = b => fs[place[f]].file = f}
Rel == INSTANCE Relocation WITH
         atOld <- BooksAt(Old), atNew <- BooksAt(New),
         db <- [b \in Books |-> book[b].at]
Relocated == Rel!Spec

\* Asking for undo again after each failed attempt ends with the library where
\* it was and stays there, unless the process died in the middle or a move is
\* stuck.
UndoConverges ==
  <>[](/\ phase = "idle"
       /\ \/ /\ \A f \in Files : fs[Old[f]].file = f
             /\ \A b \in Books : book[b].at = "old"
          \/ crashed
          \/ \E i \in Moves : Stuck(i))

-----------------------------------------------------------------------------
(* What the comments say and the code does not do *)

\* execute.go:376-378: "never delete user data". No step loses a file that
\* somebody else has put into the library.
NeverDeletesUserData == [][\A x \in Foreign : Stays(x)]_vars

\* execute.go:24-25: undo restores "the database rows exactly", so afterwards a
\* row leads to its file again (fileAbs: SourceFile, or SourceDir + rel_path).
FileAbs(f) ==
  LET r == book[BookOf[f]] IN
  CASE r.at = "old" /\ BookOf[f] \in Loose -> Old[f]
    [] r.base # "dir" -> None
    [] r.at = "old" -> Old[f]
    [] OTHER -> New[f]
UndoRestoresRows ==
  undo = "done" /\ job = "done" => \A f \in Files : FileAbs(f) = Old[f]
=============================================================================
