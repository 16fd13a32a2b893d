---------------------------- MODULE OrganizeProofs ----------------------------
(***************************************************************************)
(* For every library, plan, number of mishaps and number of undo requests: *)
(* the variables of Organize keep their types, and no step loses a file.   *)
(*                                                                         *)
(* A file can only be lost where a rename goes ahead without looking at    *)
(* its destination, and that is the first leg of a case fix. Its           *)
(* destination is a name nobody else uses, which is free from the moment   *)
(* the job is queued until the step has run: the inductive invariant below *)
(* follows that through, with what is needed to know that Execute is at a  *)
(* step of its plan whenever it acts on one. The other way is a tag backup *)
(* that is copied over a file: a run and its rollback copy it over the     *)
(* file it was taken from, only a later undo may meet another.             *)
(*                                                                         *)
(* And a run that fails or is canceled, and whose rollback reports no      *)
(* error, leaves files, folders, rows and tags as it found them            *)
(* (CleanRollback); and the database follows the disk, never the other way *)
(* round: Organize implements Relocation (Relocated). Both rest on knowing *)
(* where every file is. The steps that are in effect determine it, and     *)
(* they always form a set without gaps: all that Execute has carried out,  *)
(* all that rollback has not yet reversed, all that the journal of a       *)
(* committed run still calls done. Each act on the disk moves one file     *)
(* from the place one such set gives it to the place the next one does,    *)
(* and leaves the others where they are, because a destination is looked   *)
(* at before it is taken.                                                  *)
(***************************************************************************)
EXTENDS Organize, TLAPS

\* Nothing has happened yet to a job that is still queued.
Fresh == job = "queued" =>
  phase = "idle" /\ pos = 1 /\ sub = "insert" /\ undo = "none"

\* Between inserting a step's row and flipping it, Execute is at that step.
AtStep == phase = "exec" =>
  sub \in {"insert", "act", "mark"} /\ (sub # "insert" => pos \in Ops)

\* The temporary name of a first leg still to come is free.
ToCome(j) == pos < j \/ (pos = j /\ sub # "mark")
TempsFree == job = "queued" \/ phase = "exec" =>
  \A j \in Moves : Kind(j) = "leg1" /\ ToCome(j) => fs[Dst(j)] = NoCopy

\* The file a backup was taken from stays where its tags are written, until the
\* run is over.
Behind(i) == i < pos \/ (i = pos /\ sub # "insert")
Backed ==
  /\ job = "queued" \/ phase = "exec" =>
       \A i \in TagOps : backup[i] # NoCopy =>
         Behind(i) /\ fs[Dst(i)].file = backup[i].file
  /\ phase = "rollback" =>
       \A i \in TagOps \cap completed : backup[i] # NoCopy =>
         fs[Dst(i)].file = backup[i].file

IInv == TypeOK /\ Fresh /\ AtStep /\ TempsFree /\ Backed

-----------------------------------------------------------------------------
(* What the helpers do. *)

FsTypes == [Paths -> Copies \cup {NoCopy}]
BackupTypes == [Ops -> Copies \cup {NoCopy}]

\* A rename moves a file within the library and makes folders of the library.
LEMMA RenamedTypes ==
  ASSUME fs \in FsTypes, dirs \subseteq Dirs, NEW p \in Paths, NEW q \in Paths,
         Renamed(p, q)
  PROVE  fs' \in FsTypes /\ dirs' \subseteq Dirs
BY OrganizeAssumption DEF Renamed, FsTypes

\* So does one that fails, with a copy at most.
LEMMA NotRenamedTypes ==
  ASSUME fs \in FsTypes, dirs \subseteq Dirs, NEW p \in Paths, NEW q \in Paths,
         NEW k, NotRenamed(p, q, k)
  PROVE  fs' \in FsTypes /\ dirs' \subseteq Dirs
BY OrganizeAssumption DEF NotRenamed, FsTypes

\* A step of the plan has paths and folders of the library at its ends.
LEMMA StepTypes ==
  /\ \A i \in Moves : i \in Ops /\ Src(i) \in Paths /\ Dst(i) \in Paths
  /\ \A i \in DirOps : i \in Ops /\ Dst(i) \in Dirs /\ Within[Dst(i)] \subseteq Dirs
  /\ \A i \in TagOps : i \in Ops /\ Dst(i) \in Paths
  /\ Len(Steps) \in Nat /\ Ops = 1 .. Len(Steps)
BY OrganizeAssumption DEF Moves, DirOps, TagOps, Ops

\* A step that is applied, or aborts the run, leaves these well-typed.
StepTyped == /\ row' \in [Ops -> {"none", "pending", "done", "failed", "reverted"}]
             /\ phase' \in {"exec", "rollback"} /\ sub' \in {"act", "mark"}
             /\ completed' \subseteq Ops /\ crashed' \in BOOLEAN
             /\ mishaps' \in 0 .. MaxMishaps /\ undos' \in 0 .. MaxUndos

\* A mishap that is spent stays within the bound.
LEMMA SpendTypes ==
  ASSUME TypeOK, NEW k \in Nat, Spend(k)
  PROVE  /\ mishaps' \in 0 .. MaxMishaps /\ undos' \in 0 .. MaxUndos
         /\ crashed' \in BOOLEAN
BY OrganizeAssumption DEF Spend, TypeOK

\* Marking a step leaves a journal of known statuses.
LEMMA MarkTypes ==
  ASSUME TypeOK, NEW i \in Ops, NEW s \in {"pending", "done", "failed", "reverted"},
         Mark(i, s)
  PROVE  row' \in [Ops -> {"none", "pending", "done", "failed", "reverted"}]
BY DEF Mark, TypeOK

\* So does journaling a failure, whether the write lands or not.
LEMMA JournalFailureTypes ==
  ASSUME TypeOK, pos \in Ops, NEW k \in Nat, JournalFailure(k)
  PROVE  /\ row' \in [Ops -> {"none", "pending", "done", "failed", "reverted"}]
         /\ mishaps' \in 0 .. MaxMishaps /\ undos' \in 0 .. MaxUndos
         /\ crashed' \in BOOLEAN
<1>1. CASE Spend(k) /\ Mark(pos, "failed")
  BY <1>1, SpendTypes, MarkTypes
<1>2. CASE Spend(k + 1) /\ UNCHANGED row
  BY <1>2, SpendTypes DEF TypeOK
<1> QED
  BY <1>1, <1>2 DEF JournalFailure

\* A step that aborts the run leaves its control state well typed.
LEMMA AbortTypes ==
  ASSUME TypeOK, pos \in Ops, NEW k \in Nat, Abort(k)
  PROVE  StepTyped /\ phase' = "rollback" /\ sub' = "act"
<1>1. JournalFailure(k) /\ GiveUp /\ UNCHANGED completed
  BY DEF Abort
<1> QED
  BY <1>1, JournalFailureTypes DEF GiveUp, StepTyped, TypeOK

\* So does a step that was applied.
LEMMA AppliedTypes ==
  ASSUME TypeOK, pos \in Ops, phase = "exec", Applied
  PROVE  StepTyped /\ phase' = "exec" /\ sub' = "mark"
<1>1. Spend(0)
  BY DEF Applied
<1> QED
  BY <1>1, SpendTypes DEF Applied, StepTyped, TypeOK

\* The invariant holds initially: the plan stands at its first step, every
\* temporary name is free.
THEOREM InitIInv == Init => IInv
<1> SUFFICES ASSUME Init PROVE IInv
  OBVIOUS
<1>1. TypeOK
  <2>1. fs \in FsTypes
    BY DEF Init, FsTypes, Copies, TagVals
  <2>2. /\ dirs \subseteq Dirs
        /\ backup \in BackupTypes
        /\ row \in [Ops -> {"none", "pending", "done", "failed", "reverted"}]
        /\ snap \in [Books -> {"none", "done", "reverted"}]
    BY DEF Init, InitialDirs, BackupTypes
  <2>3. book \in [Books -> [at : {"old", "new"}, base : {"dir", "root"},
                            state : {"matched", "organized"}]]
    BY OrganizeAssumption DEF Init
  <2>4. /\ pos \in 1 .. Len(Steps) + 1
        /\ mishaps \in 0 .. MaxMishaps /\ undos \in 0 .. MaxUndos
    BY OrganizeAssumption, StepTypes DEF Init
  <2> QED
    BY <2>1, <2>2, <2>3, <2>4 DEF Init, TypeOK, FsTypes, BackupTypes
<1>2. Fresh /\ AtStep
  BY DEF Init, Fresh, AtStep
<1>3. TempsFree
  <2> SUFFICES ASSUME NEW j \in Moves, Kind(j) = "leg1" PROVE fs[Dst(j)] = NoCopy
    BY DEF TempsFree
  <2>1. Dst(j) \in Paths /\ Dst(j) \in Temps
    BY StepTypes, OrganizeAssumption
  <2>2. \A f \in Files : Old[f] # Dst(j)
    BY <2>1, OrganizeAssumption
  <2> QED
    BY <2>1, <2>2 DEF Init
<1>4. Backed
  BY DEF Init, Backed, TagOps
<1> QED
  BY <1>1, <1>2, <1>3, <1>4 DEF IInv

-----------------------------------------------------------------------------
(* Execute keeps the invariant. *)

\* StartRun keeps the invariant.
LEMMA StartRunKeeps == IInv /\ StartRun => IInv'
<1> SUFFICES ASSUME IInv, StartRun PROVE IInv'
  OBVIOUS
<1> USE DEF IInv, StartRun, Spend, disk, journal
<1>1. TypeOK'
  BY OrganizeAssumption DEF TypeOK
<1>2. Fresh' /\ AtStep'
  BY DEF Fresh, AtStep
<1>3. TempsFree'
  BY DEF TempsFree, ToCome, Fresh, Moves, Ops, Kind, Dst
<1>4. Backed'
  BY StepTypes DEF Backed, Behind, Fresh, AtStep, TypeOK, TagOps, Ops, Kind, Dst
<1> QED
  BY <1>1, <1>2, <1>3, <1>4

\* InsertOp keeps the invariant.
LEMMA InsertOpKeeps == IInv /\ InsertOp => IInv'
<1> SUFFICES ASSUME IInv, InsertOp PROVE IInv'
  OBVIOUS
<1> USE DEF IInv, InsertOp, Spend, disk, jobs, GiveUp, Mark
<1>1. TypeOK'
  BY OrganizeAssumption DEF TypeOK
<1>2. Fresh' /\ AtStep'
  BY DEF Fresh, AtStep
<1>3. TempsFree'
  BY DEF TempsFree, ToCome, Fresh, Moves, Ops, Kind, Dst
<1>4. Backed'
  BY StepTypes DEF Backed, Behind, Fresh, AtStep, TypeOK, TagOps, Ops, Kind, Dst
<1> QED
  BY <1>1, <1>2, <1>3, <1>4

\* StopAtCancel keeps the invariant.
LEMMA StopAtCancelKeeps == IInv /\ StopAtCancel => IInv'
<1> SUFFICES ASSUME IInv, StopAtCancel PROVE IInv'
  OBVIOUS
<1> USE DEF IInv, StopAtCancel, GiveUp, disk, journal, jobs, bounds
<1>1. TypeOK'
  BY OrganizeAssumption DEF TypeOK
<1>2. Fresh' /\ AtStep'
  BY DEF Fresh, AtStep, TypeOK
<1>3. TempsFree'
  BY DEF TempsFree, ToCome, Fresh, TypeOK, Moves, Ops, Kind, Dst
<1>4. Backed'
  BY StepTypes DEF Backed, Behind, Fresh, AtStep, TypeOK, TagOps, Ops, Kind, Dst
<1> QED
  BY <1>1, <1>2, <1>3, <1>4

\* What every action on the current step has in common.
LEMMA ActKeeps ==
  ASSUME IInv, phase = "exec", pos \in Ops, StepTyped,
         fs' \in FsTypes, dirs' \subseteq Dirs, backup' \in BackupTypes,
         UNCHANGED <<snap, book, jobs, pos, ctxDone, rbErr>>,
         phase' = "exec" => TempsFree', Backed'
  PROVE  IInv'
<1>1. TypeOK /\ job # "queued"
  BY DEF IInv, Fresh
<1>2. TypeOK'
  BY <1>1 DEF TypeOK, StepTyped, FsTypes, BackupTypes, jobs
<1>3. Fresh' /\ AtStep'
  BY <1>1 DEF Fresh, AtStep, StepTyped, Ops, jobs
<1>4. TempsFree'
  BY <1>1 DEF TempsFree, StepTyped, jobs
<1> QED
  BY <1>2, <1>3, <1>4 DEF IInv

\* Acting on a step, Execute stands inside its plan.
LEMMA ActingFacts ==
  ASSUME IInv, NEW kinds \in SUBSET Kinds, Acting(kinds)
  PROVE  /\ TypeOK /\ phase = "exec" /\ pos \in Ops /\ sub = "act" /\ Kind(pos) \in kinds
         /\ fs \in FsTypes /\ dirs \subseteq Dirs
         /\ backup \in BackupTypes
BY DEF IInv, Acting, AtStep, TypeOK, FsTypes, BackupTypes

\* While no file moves, the temporaries stay as they are.
LEMMA TempsUntouched ==
  ASSUME IInv, phase = "exec", UNCHANGED <<fs, pos>>, sub = "act", sub' \in {"act", "mark"}
  PROVE  TempsFree'
BY DEF IInv, TempsFree, ToCome, Moves, Ops, Kind, Dst

\* A rename takes the name of no first leg to come.
LEMMA TempsAfterRename ==
  ASSUME IInv, phase = "exec", pos \in Moves, UNCHANGED pos, sub' = "mark",
         fs' = [fs EXCEPT ![Src(pos)] = NoCopy, ![Dst(pos)] = fs[Src(pos)]]
  PROVE  TempsFree'
<1> SUFFICES ASSUME NEW j \in Moves, Kind(j) = "leg1", pos < j PROVE fs'[Dst(j)] = NoCopy
  BY DEF TempsFree, ToCome, Moves, Ops, Kind, Dst
<1>1. fs \in FsTypes /\ fs[Dst(j)] = NoCopy /\ pos \in Int /\ j \in Int
  BY DEF IInv, TypeOK, FsTypes, TempsFree, ToCome, Moves, Ops
<1>2. Dst(j) \in Paths /\ Dst(pos) \in Paths /\ Src(pos) \in Paths
  BY StepTypes
<1>3. Dst(j) # Dst(pos)
  BY <1>1, OrganizeAssumption
<1> QED
  BY <1>1, <1>2, <1>3 DEF FsTypes

\* While no file moves and no backup is made, the backups stay backed.
LEMMA BackedUntouched ==
  ASSUME IInv, phase = "exec", UNCHANGED <<fs, backup, pos>>, sub' # "insert"
  PROVE  Backed'
BY DEF IInv, Backed, Behind, TagOps, Ops, Kind, Dst

\* There is no backup yet while files move.
LEMMA BackedAfterMove ==
  ASSUME IInv, phase = "exec", pos \in Moves, UNCHANGED <<backup, pos>>
  PROVE  Backed'
<1>1. \A i \in TagOps : pos < i /\ pos \in Int /\ i \in Int
  BY OrganizeAssumption, StepTypes DEF TagOps, Moves, Ops
<1>2. \A i \in TagOps : backup[i] = NoCopy
  BY <1>1 DEF IInv, Backed, Behind
<1> QED
  BY <1>2 DEF Backed, TagOps, Ops, Kind

\* Mkdir keeps the invariant.
LEMMA MkdirKeeps == IInv /\ Mkdir => IInv'
<1> SUFFICES ASSUME IInv, Mkdir PROVE IInv'
  OBVIOUS
<1>1. Acting({"mkdir"}) /\ UNCHANGED <<fs, backup, snap, book, jobs, pos, ctxDone, rbErr>>
  BY DEF Mkdir
<1>2. /\ TypeOK /\ phase = "exec" /\ pos \in DirOps /\ pos \in Ops /\ sub = "act"
      /\ fs \in FsTypes /\ dirs \subseteq Dirs
      /\ backup \in BackupTypes
  BY <1>1, ActingFacts DEF Kinds, DirOps
<1>3. StepTyped
  BY <1>2, AppliedTypes, AbortTypes DEF Mkdir
<1>4. dirs' \subseteq Dirs
  BY <1>2, StepTypes DEF Mkdir
<1>5. TempsFree'
  BY <1>1, <1>2, <1>3, TempsUntouched DEF StepTyped
<1>6. sub' # "insert"
  BY <1>3 DEF StepTyped
<1> QED
  BY <1>1, <1>2, <1>3, <1>4, <1>5, <1>6, BackedUntouched, ActKeeps

\* Move keeps the invariant.
LEMMA MoveKeeps == IInv /\ Move => IInv'
<1> SUFFICES ASSUME IInv, Move PROVE IInv'
  OBVIOUS
<1>1. Acting({"move"}) /\ UNCHANGED <<backup, snap, book, jobs, pos, ctxDone, rbErr>>
  BY DEF Move
<1>2. /\ TypeOK /\ phase = "exec" /\ pos \in Moves /\ pos \in Ops /\ sub = "act"
      /\ fs \in FsTypes /\ dirs \subseteq Dirs
      /\ backup \in BackupTypes
  BY <1>1, ActingFacts DEF Kinds, MoveKinds, Moves
<1>3. Src(pos) \in Paths /\ Dst(pos) \in Paths
  BY <1>2, StepTypes
<1>4. CASE Applied /\ Renamed(Src(pos), Dst(pos))
  <2>1. StepTyped /\ sub' = "mark"
    BY <1>2, <1>4, AppliedTypes
  <2>2. fs' \in FsTypes /\ dirs' \subseteq Dirs
    BY <1>2, <1>3, <1>4, RenamedTypes
  <2>3. TempsFree'
    BY <1>1, <1>2, <1>4, <2>1, TempsAfterRename DEF Renamed
  <2> QED
    BY <1>1, <1>2, <2>1, <2>2, <2>3, BackedAfterMove, ActKeeps
<1>5. CASE \E k \in {0, 1} : NotRenamed(Src(pos), Dst(pos), k) /\ Abort(k)
  <2>1. StepTyped /\ phase' = "rollback"
    BY <1>2, <1>5, AbortTypes
  <2>2. fs' \in FsTypes /\ dirs' \subseteq Dirs
    BY <1>2, <1>3, <1>5, NotRenamedTypes
  <2> QED
    BY <1>1, <1>2, <2>1, <2>2, BackedAfterMove, ActKeeps
<1> QED
  BY <1>4, <1>5 DEF Move

\* CaseFixLeg1 keeps the invariant.
LEMMA CaseFixLeg1Keeps == IInv /\ CaseFixLeg1 => IInv'
<1> SUFFICES ASSUME IInv, CaseFixLeg1 PROVE IInv'
  OBVIOUS
<1>1. Acting({"leg1"}) /\ UNCHANGED <<dirs, backup, snap, book, jobs, pos, ctxDone, rbErr>>
  BY DEF CaseFixLeg1
<1>2. /\ TypeOK /\ phase = "exec" /\ pos \in Moves /\ pos \in Ops /\ sub = "act"
      /\ fs \in FsTypes /\ dirs \subseteq Dirs
      /\ backup \in BackupTypes
  BY <1>1, ActingFacts DEF Kinds, MoveKinds, Moves
<1>3. Src(pos) \in Paths /\ Dst(pos) \in Paths
  BY <1>2, StepTypes
<1>4. CASE Applied /\ fs' = [fs EXCEPT ![Src(pos)] = NoCopy, ![Dst(pos)] = fs[Src(pos)]]
  <2>1. StepTyped /\ sub' = "mark"
    BY <1>2, <1>4, AppliedTypes
  <2>2. fs' \in FsTypes
    BY <1>2, <1>3, <1>4 DEF FsTypes
  <2>3. TempsFree'
    BY <1>1, <1>2, <1>4, <2>1, TempsAfterRename
  <2> QED
    BY <1>1, <1>2, <2>1, <2>2, <2>3, BackedAfterMove, ActKeeps
<1>5. CASE Abort(1) /\ UNCHANGED fs
  <2>1. StepTyped /\ phase' = "rollback"
    BY <1>2, <1>5, AbortTypes
  <2> QED
    BY <1>1, <1>2, <1>5, <2>1, BackedAfterMove, ActKeeps
<1> QED
  BY <1>4, <1>5 DEF CaseFixLeg1

\* CaseFixLeg2 keeps the invariant.
LEMMA CaseFixLeg2Keeps == IInv /\ CaseFixLeg2 => IInv'
<1> SUFFICES ASSUME IInv, CaseFixLeg2 PROVE IInv'
  OBVIOUS
<1>1. Acting({"leg2"}) /\ UNCHANGED <<dirs, backup, snap, book, jobs, pos, ctxDone, rbErr>>
  BY DEF CaseFixLeg2
<1>2. /\ TypeOK /\ phase = "exec" /\ pos \in Moves /\ pos \in Ops /\ sub = "act"
      /\ fs \in FsTypes /\ dirs \subseteq Dirs
      /\ backup \in BackupTypes
  BY <1>1, ActingFacts DEF Kinds, MoveKinds, Moves
<1>3. Src(pos) \in Paths /\ Dst(pos) \in Paths
  BY <1>2, StepTypes
<1>4. CASE Applied /\ fs' = [fs EXCEPT ![Src(pos)] = NoCopy, ![Dst(pos)] = fs[Src(pos)]]
  <2>1. StepTyped /\ sub' = "mark"
    BY <1>2, <1>4, AppliedTypes
  <2>2. fs' \in FsTypes
    BY <1>2, <1>3, <1>4 DEF FsTypes
  <2>3. TempsFree'
    BY <1>1, <1>2, <1>4, <2>1, TempsAfterRename
  <2> QED
    BY <1>1, <1>2, <2>1, <2>2, <2>3, BackedAfterMove, ActKeeps
<1>5. CASE Abort(1) /\ UNCHANGED fs
  <2>1. StepTyped /\ phase' = "rollback"
    BY <1>2, <1>5, AbortTypes
  <2> QED
    BY <1>1, <1>2, <1>5, <2>1, BackedAfterMove, ActKeeps
<1>6. CASE Spend(0) /\ GiveUp /\ UNCHANGED <<fs, row, completed>>
  <2>1. StepTyped /\ phase' = "rollback"
    BY <1>2, <1>6, SpendTypes DEF GiveUp, StepTyped, TypeOK
  <2> QED
    BY <1>1, <1>2, <1>6, <2>1, BackedAfterMove, ActKeeps
<1> QED
  BY <1>4, <1>5, <1>6 DEF CaseFixLeg2

\* BackupTags keeps the invariant.
LEMMA BackupTagsKeeps == IInv /\ BackupTags => IInv'
<1> SUFFICES ASSUME IInv, BackupTags PROVE IInv'
  OBVIOUS
<1>1. Acting({"tag"}) /\ UNCHANGED <<fs, dirs, snap, book, jobs, pos, ctxDone, rbErr>>
  BY DEF BackupTags
<1>2. /\ TypeOK /\ phase = "exec" /\ pos \in Ops /\ sub = "act"
      /\ fs \in FsTypes /\ dirs \subseteq Dirs
      /\ backup \in BackupTypes
  BY <1>1, ActingFacts DEF Kinds
<1>3. CASE /\ fs[Dst(pos)] # NoCopy /\ Spend(0)
           /\ backup' = [backup EXCEPT ![pos] = fs[Dst(pos)]]
           /\ UNCHANGED <<row, phase, sub, completed>>
  <2>1. StepTyped
    BY <1>2, <1>3, SpendTypes DEF StepTyped, TypeOK
  <2>2. backup' \in BackupTypes
    <3>1. Dst(pos) \in Paths
      BY <1>1, <1>2, StepTypes DEF Acting, TagOps
    <3> QED
      BY <1>2, <1>3, <3>1 DEF FsTypes, BackupTypes
  <2>3. TempsFree'
    BY <1>1, <1>2, <1>3, TempsUntouched
  <2>4. Backed'
    BY <1>1, <1>2, <1>3 DEF IInv, Backed, Behind, TagOps, Ops, Kind, Dst, BackupTypes
  <2> QED
    BY <1>1, <1>2, <2>1, <2>2, <2>3, <2>4, ActKeeps
<1>4. CASE Abort(1) /\ UNCHANGED backup
  <2>1. StepTyped /\ phase' = "rollback" /\ sub' # "insert"
    BY <1>2, <1>4, AbortTypes
  <2> QED
    BY <1>1, <1>2, <1>4, <2>1, BackedUntouched, ActKeeps
<1> QED
  BY <1>3, <1>4 DEF BackupTags

\* A tag write changes no file but its tags.
LEMMA Retagged ==
  ASSUME IInv, phase = "exec", sub = "act", pos \in TagOps, fs[Dst(pos)] # NoCopy,
         NEW t \in {"new", "wrong"}, fs' = [fs EXCEPT ![Dst(pos)].tags = t]
  PROVE  /\ fs' \in FsTypes
         /\ \A p \in Paths : fs'[p].file = fs[p].file /\ (fs[p] = NoCopy <=> fs'[p] = NoCopy)
<1>1. fs \in FsTypes /\ Dst(pos) \in Paths
  BY StepTypes DEF IInv, TypeOK, FsTypes
<1>2. fs[Dst(pos)] \in Copies
  BY <1>1 DEF FsTypes
<1>3. fs'[Dst(pos)] = [fs[Dst(pos)] EXCEPT !.tags = t]
  BY <1>1 DEF FsTypes
<1>4. fs'[Dst(pos)] \in Copies /\ fs'[Dst(pos)].file = fs[Dst(pos)].file
  BY <1>2, <1>3 DEF Copies, TagVals
<1>5. fs'[Dst(pos)] # NoCopy
  BY <1>4, OrganizeAssumption DEF Copies, NoCopy
<1>6. \A p \in Paths \ {Dst(pos)} : fs'[p] = fs[p]
  BY <1>1 DEF FsTypes
<1>7. fs' \in FsTypes
  BY <1>1, <1>4, <1>6 DEF FsTypes
<1> QED
  BY <1>4, <1>5, <1>6, <1>7

\* WriteTags keeps the invariant.
LEMMA WriteTagsKeeps == IInv /\ WriteTags => IInv'
<1> SUFFICES ASSUME IInv, WriteTags PROVE IInv'
  OBVIOUS
<1>1. Acting({"tag"}) /\ UNCHANGED <<dirs, backup, snap, book, jobs, pos, ctxDone, rbErr>>
  BY DEF WriteTags
<1>2. /\ TypeOK /\ phase = "exec" /\ pos \in Ops /\ sub = "act"
      /\ fs \in FsTypes /\ dirs \subseteq Dirs
      /\ backup \in BackupTypes
  BY <1>1, ActingFacts DEF Kinds
<1>3. CASE UNCHANGED fs /\ Abort(1)
  <2>1. StepTyped /\ phase' = "rollback" /\ sub' # "insert"
    BY <1>2, <1>3, AbortTypes
  <2> QED
    BY <1>1, <1>2, <1>3, <2>1, BackedUntouched, ActKeeps
<1>4. CASE /\ fs[Dst(pos)] # NoCopy
           /\ \E t \in {"new", "wrong"} : fs' = [fs EXCEPT ![Dst(pos)].tags = t]
           /\ \/ Spend(0) /\ sub' = "mark" /\ UNCHANGED <<row, phase, completed>>
              \/ Abort(1)
  <2>1. pos \in TagOps
    BY <1>1, <1>2 DEF Acting, TagOps
  <2>2. /\ fs' \in FsTypes
        /\ \A p \in Paths : fs'[p].file = fs[p].file /\ (fs[p] = NoCopy <=> fs'[p] = NoCopy)
    BY <1>2, <1>4, <2>1, Retagged
  <2>3. StepTyped /\ sub' # "insert" /\ (phase' = "exec" => sub' = "mark")
    BY <1>2, <1>4, AbortTypes, SpendTypes DEF StepTyped, TypeOK
  <2>4. phase' = "exec" => TempsFree'
    BY <1>1, <1>2, <2>2, <2>3, StepTypes
       DEF IInv, TempsFree, ToCome, Moves, Ops, Kind, Dst
  <2>5. Backed'
    BY <1>1, <1>2, <2>2, <2>3, StepTypes DEF IInv, Backed, Behind, TagOps, Ops, Kind, Dst
  <2> QED
    BY <1>1, <1>2, <2>2, <2>3, <2>4, <2>5, ActKeeps
<1> QED
  BY <1>3, <1>4 DEF WriteTags

\* MarkDone keeps the invariant.
LEMMA MarkDoneKeeps == IInv /\ MarkDone => IInv'
<1> SUFFICES ASSUME IInv, MarkDone PROVE IInv'
  OBVIOUS
<1>1. pos \in Ops /\ pos \in Nat /\ phase = "exec" /\ TypeOK /\ job # "queued" /\ sub = "mark"
  BY DEF IInv, MarkDone, AtStep, Fresh, Ops
<1>2. UNCHANGED <<disk, snap, book, jobs, ctxDone, rbErr>>
  BY DEF MarkDone
<1> USE DEF jobs, disk
<1>3. CASE /\ Spend(0) /\ Mark(pos, "done") /\ completed' = completed \cup {pos}
           /\ pos' = pos + 1 /\ sub' = "insert" /\ UNCHANGED phase
  <2>1. pos' \in 1 .. Len(Steps) + 1
    BY <1>1, <1>3, StepTypes
  <2>2. TypeOK'
    BY <1>1, <1>2, <1>3, <2>1, SpendTypes, MarkTypes DEF TypeOK
  <2>3. Fresh' /\ AtStep'
    BY <1>1, <1>2, <1>3 DEF Fresh, AtStep
  <2>4. TempsFree'
    BY <1>1, <1>2, <1>3 DEF IInv, TempsFree, ToCome, Moves, Ops, Kind, Dst
  <2>5. Backed'
    BY <1>1, <1>2, <1>3, StepTypes DEF IInv, Backed, Behind, TagOps, Ops, Kind, Dst
  <2> QED
    BY <2>2, <2>3, <2>4, <2>5 DEF IInv
<1>4. CASE Spend(1) /\ GiveUp /\ UNCHANGED <<row, pos, completed>>
  <2>1. TypeOK'
    BY <1>1, <1>2, <1>4, SpendTypes DEF TypeOK, GiveUp
  <2>2. Fresh' /\ AtStep' /\ TempsFree'
    BY <1>1, <1>2, <1>4 DEF Fresh, AtStep, TempsFree, GiveUp
  <2>3. Backed'
    BY <1>1, <1>2, <1>4, BackedUntouched DEF GiveUp
  <2> QED
    BY <2>1, <2>2, <2>3 DEF IInv
<1> QED
  BY <1>3, <1>4 DEF MarkDone

\* Finalize keeps the invariant.
LEMMA FinalizeKeeps == IInv /\ Finalize => IInv'
<1> SUFFICES ASSUME IInv, Finalize PROVE IInv'
  OBVIOUS
<1> USE DEF IInv, Finalize, GiveUp, Spend, disk, jobs
<1>1. TypeOK'
  BY OrganizeAssumption, StepTypes DEF TypeOK
<1>2. Fresh' /\ AtStep'
  BY DEF Fresh, AtStep, TypeOK
<1>3. TempsFree'
  BY DEF TempsFree, ToCome, Fresh, TypeOK, Moves, Ops, Kind, Dst
<1>4. Backed'
  BY StepTypes DEF Backed, Behind, Fresh, AtStep, TypeOK, TagOps, Ops, Kind, Dst
<1> QED
  BY <1>1, <1>2, <1>3, <1>4

\* Cleanup keeps the invariant.
LEMMA CleanupKeeps == IInv /\ Cleanup => IInv'
<1> SUFFICES ASSUME IInv, Cleanup PROVE IInv'
  OBVIOUS
<1> USE DEF IInv, Cleanup, Spend, journal
<1>1. TypeOK'
  BY OrganizeAssumption, StepTypes DEF TypeOK
<1>2. Fresh' /\ AtStep'
  BY DEF Fresh, AtStep, TypeOK
<1>3. TempsFree'
  BY DEF TempsFree, ToCome, Fresh, TypeOK, Moves, Ops, Kind, Dst
<1>4. Backed'
  BY StepTypes DEF Backed, Behind, Fresh, AtStep, TypeOK, TagOps, Ops, Kind, Dst
<1> QED
  BY <1>1, <1>2, <1>3, <1>4

\* Rmdir keeps the invariant.
LEMMA RmdirKeeps == IInv /\ Rmdir => IInv'
<1> SUFFICES ASSUME IInv, Rmdir PROVE IInv'
  OBVIOUS
<1>1. Acting({"rmdir"}) /\ UNCHANGED <<fs, backup, snap, book, jobs, ctxDone, rbErr>>
  BY DEF Rmdir
<1>2. /\ TypeOK /\ phase = "exec" /\ pos \in Ops /\ sub = "act"
      /\ fs \in FsTypes /\ dirs \subseteq Dirs
      /\ backup \in BackupTypes
  BY <1>1, ActingFacts DEF Kinds
<1>3. CASE Applied /\ dirs' = dirs \ {Dst(pos)} /\ UNCHANGED pos
  <2>1. StepTyped /\ sub' = "mark"
    BY <1>2, <1>3, AppliedTypes
  <2>2. TempsFree'
    BY <1>1, <1>2, <1>3, <2>1, TempsUntouched
  <2> QED
    BY <1>1, <1>2, <1>3, <2>1, <2>2, BackedUntouched, ActKeeps
<1>4. CASE /\ \E k \in {0, 1} : JournalFailure(k)
           /\ pos' = pos + 1 /\ sub' = "insert" /\ UNCHANGED <<dirs, phase, completed>>
  <2>1. pos' \in 1 .. Len(Steps) + 1 /\ pos \in Nat
    BY <1>2, <1>4, StepTypes
  <2>2. TypeOK'
    BY <1>1, <1>2, <1>4, <2>1, JournalFailureTypes DEF TypeOK, jobs
  <2>3. Fresh' /\ AtStep'
    BY <1>1, <1>2, <1>4 DEF IInv, Fresh, AtStep, jobs
  <2>4. TempsFree'
    BY <1>1, <1>2, <1>4, <2>1 DEF IInv, TempsFree, ToCome, Moves, Ops, Kind, Dst, jobs
  <2>5. Backed'
    BY <1>1, <1>2, <1>4, <2>1, StepTypes
       DEF IInv, Backed, Behind, TagOps, Ops, Kind, Dst, jobs
  <2> QED
    BY <2>2, <2>3, <2>4, <2>5 DEF IInv
<1> QED
  BY <1>3, <1>4 DEF Rmdir

-----------------------------------------------------------------------------
(* So do rollback, Undo and what happens around them: outside Execute, and *)
(* once the job is no longer queued, only the types and, in rollback, the  *)
(* backups are at stake.                                                   *)

\* Outside Execute's own steps and rollback the invariant asks no more than types.
LEMMA OffExecKeeps ==
  ASSUME IInv, TypeOK', phase' # "exec", job' # "queued",
         phase' = "rollback" => Backed'
  PROVE  IInv'
BY DEF IInv, Fresh, AtStep, TempsFree, Backed

\* Outside the idle phase the job has left the queue.
LEMMA Busy == ASSUME IInv, phase # "idle" PROVE job # "queued" /\ TypeOK
BY DEF IInv, Fresh

\* A reversal moves a file within the library.
LEMMA ReversedMoveTypes ==
  ASSUME TypeOK, NEW i \in Moves, ReversedMove(i)
  PROVE  fs' \in FsTypes /\ dirs' \subseteq Dirs
<1>1. fs \in FsTypes /\ dirs \subseteq Dirs /\ Src(i) \in Paths /\ Dst(i) \in Paths
  BY StepTypes DEF TypeOK, FsTypes
<1> QED
  BY <1>1, RenamedTypes DEF ReversedMove

\* So does one that fails.
LEMMA NotReversedTypes ==
  ASSUME TypeOK, NEW i \in Moves, NEW k, NotRenamed(Dst(i), Src(i), k)
  PROVE  fs' \in FsTypes /\ dirs' \subseteq Dirs
<1>1. fs \in FsTypes /\ dirs \subseteq Dirs /\ Src(i) \in Paths /\ Dst(i) \in Paths
  BY StepTypes DEF TypeOK, FsTypes
<1> QED
  BY <1>1, NotRenamedTypes

\* A backup is copied to a path of the library, and its folder is made.
LEMMA RestoreTagsTypes ==
  ASSUME TypeOK, NEW i \in TagOps, RestoreTags(i) \/ NotRestored(i)
  PROVE  fs' \in FsTypes /\ dirs' \subseteq Dirs
<1>1. /\ fs \in FsTypes /\ dirs \subseteq Dirs /\ i \in Ops /\ Dst(i) \in Paths
      /\ backup[i] \in Copies \cup {NoCopy} /\ Within[Dst(i)] \subseteq Dirs
  BY StepTypes, OrganizeAssumption DEF TypeOK, FsTypes
<1> QED
  BY <1>1 DEF RestoreTags, NotRestored, FsTypes

\* A backup that a rollback copies back goes over the file it was taken from.
LEMMA RestoredBacked ==
  ASSUME IInv, phase = "rollback", NEW i \in TagOps \cap completed, RestoreTags(i)
  PROVE  \A p \in Paths : fs'[p].file = fs[p].file
<1>1. Dst(i) \in Paths /\ fs \in FsTypes
  BY StepTypes DEF IInv, TypeOK, FsTypes
<1>2. CASE UNCHANGED fs
  BY <1>2
<1>3. CASE OwnsBackup(i) /\ fs' = [fs EXCEPT ![Dst(i)] = backup[i]]
  <2>1. backup[i].file = fs[Dst(i)].file
    BY <1>3 DEF IInv, Backed, OwnsBackup
  <2> QED
    BY <1>1, <1>3, <2>1 DEF FsTypes
<1> QED
  BY <1>2, <1>3 DEF RestoreTags

\* RollbackAct keeps the invariant.
LEMMA RollbackActKeeps == IInv /\ RollbackAct => IInv'
<1> SUFFICES ASSUME IInv, RollbackAct PROVE IInv'
  OBVIOUS
<1>1. /\ phase = "rollback" /\ phase # "idle"
      /\ UNCHANGED <<journal, book, jobs, phase, pos, ctxDone>>
  BY DEF RollbackAct
<1>2. TypeOK /\ job # "queued"
  BY <1>1, Busy
<1>3. PICK i \in Newest(completed) : RollsBack(i)
  BY DEF RollbackAct
<1>4. i \in Ops /\ i \in completed /\ completed' \subseteq completed
  BY <1>2, <1>3 DEF Newest, TypeOK, RollsBack
<1>5. /\ mishaps' \in 0 .. MaxMishaps /\ undos' \in 0 .. MaxUndos /\ crashed' \in BOOLEAN
      /\ completed' \subseteq Ops /\ rbErr' \in BOOLEAN
      /\ sub' \in {"insert", "act", "mark", "restore", "marksnap"}
  BY <1>2, <1>3, <1>4, SpendTypes DEF TypeOK, RollsBack
<1>6. Kind(i) = "rmdir" => Within[Dst(i)] \subseteq Dirs
  BY <1>4, StepTypes DEF DirOps
<1>7. Kind(i) = "tag" => i \in TagOps
  BY <1>4 DEF TagOps
<1>8. fs' \in FsTypes /\ dirs' \subseteq Dirs
  BY <1>2, <1>3, <1>6, <1>7, ReversedMoveTypes, NotReversedTypes, RestoreTagsTypes
     DEF TypeOK, FsTypes, RollsBack
<1>9. backup' \in BackupTypes
  BY <1>2, <1>3, <1>4 DEF TypeOK, BackupTypes, RollsBack
<1>10. TypeOK'
  BY <1>1, <1>2, <1>5, <1>8, <1>9 DEF TypeOK, FsTypes, BackupTypes, journal, jobs
<1>11. Backed'
  <2> SUFFICES ASSUME NEW j \in TagOps, j \in completed', backup'[j] # NoCopy
               PROVE  fs'[Dst(j)].file = backup'[j].file
    BY <1>1, <1>2 DEF Backed, jobs, TagOps, Ops, Kind, Dst
  <2>1. backup'[j] = backup[j] /\ Dst(j) \in Paths /\ fs[Dst(j)].file = backup[j].file
    <3>1. backup'[j] = backup[j]
      BY <1>2, <1>3, <1>4, StepTypes DEF TypeOK, RollsBack
    <3> QED
      BY <1>1, <1>4, <3>1, StepTypes DEF IInv, Backed
  <2>2. i \notin Moves
    BY <1>3, <1>4, OrganizeAssumption DEF Newest, Moves, TagOps, Ops
  <2>3. CASE UNCHANGED fs
    BY <2>1, <2>3
  <2>4. CASE Kind(i) = "tag" /\ RestoreTags(i)
    BY <1>1, <1>4, <1>7, <2>1, <2>4, RestoredBacked
  <2> QED
    BY <1>3, <2>2, <2>3, <2>4 DEF RollsBack, NotRestored
<1> QED
  BY <1>1, <1>2, <1>10, <1>11, OffExecKeeps DEF jobs

\* RollbackMark keeps the invariant.
LEMMA RollbackMarkKeeps == IInv /\ RollbackMark => IInv'
<1> SUFFICES ASSUME IInv, RollbackMark PROVE IInv'
  OBVIOUS
<1>1. /\ phase = "rollback" /\ phase # "idle" /\ TypeOK /\ job # "queued"
      /\ UNCHANGED <<disk, snap, book, jobs, phase, pos, ctxDone>>
  BY Busy DEF RollbackMark
<1>2. PICK i \in Newest(completed) :
        /\ completed' = completed \ {i} /\ sub' = "act"
        /\ \/ Spend(0) /\ Mark(i, "reverted") /\ UNCHANGED rbErr
           \/ Spend(1) /\ rbErr' = TRUE /\ UNCHANGED row
  BY DEF RollbackMark
<1>3. i \in Ops
  BY <1>1 DEF Newest, TypeOK
<1>4. /\ mishaps' \in 0 .. MaxMishaps /\ undos' \in 0 .. MaxUndos /\ crashed' \in BOOLEAN
      /\ row' \in [Ops -> {"none", "pending", "done", "failed", "reverted"}]
      /\ rbErr' \in BOOLEAN
  BY <1>1, <1>2, <1>3, SpendTypes, MarkTypes DEF TypeOK
<1>5. TypeOK'
  BY <1>1, <1>2, <1>4 DEF TypeOK, disk, jobs
<1>6. Backed'
  BY <1>1, <1>2 DEF IInv, Backed, disk, jobs, TagOps, Ops, Kind, Dst
<1> QED
  BY <1>1, <1>5, <1>6, OffExecKeeps DEF jobs

\* RollbackEnd keeps the invariant.
LEMMA RollbackEndKeeps == IInv /\ RollbackEnd => IInv'
<1> SUFFICES ASSUME IInv, RollbackEnd PROVE IInv'
  OBVIOUS
<1>1. TypeOK /\ job' # "queued" /\ phase' = "idle"
  BY Busy DEF RollbackEnd
<1>2. TypeOK'
  BY <1>1 DEF RollbackEnd, TypeOK, disk, journal, bounds
<1> QED
  BY <1>1, <1>2, OffExecKeeps

\* UndoAct keeps the invariant.
LEMMA UndoActKeeps == IInv /\ UndoAct => IInv'
<1> SUFFICES ASSUME IInv, UndoAct PROVE IInv'
  OBVIOUS
<1>1. /\ phase = "undo" /\ phase # "idle" /\ TypeOK /\ job # "queued"
      /\ UNCHANGED <<backup, journal, book, job, pos, completed, ctxDone, rbErr>>
  BY Busy DEF UndoAct
<1>2. PICK i \in Newest(Pending) : Undoes(i)
  BY DEF UndoAct
<1>3. i \in Ops
  BY DEF Newest, Pending
<1>4. /\ mishaps' \in 0 .. MaxMishaps /\ undos' \in 0 .. MaxUndos /\ crashed' \in BOOLEAN
      /\ sub' \in {"insert", "act", "mark", "restore", "marksnap"}
      /\ undo' \in {"none", "running", "done", "failed", "canceled"}
      /\ phase' \in {"undo", "idle"}
  BY <1>1, <1>2, SpendTypes DEF TypeOK, UndoFails, Undoes
<1>5. Kind(i) = "rmdir" => Within[Dst(i)] \subseteq Dirs
  BY <1>3, StepTypes DEF DirOps
<1>6. Kind(i) = "tag" => i \in TagOps
  BY <1>3 DEF TagOps
<1>7. fs' \in FsTypes /\ dirs' \subseteq Dirs
  BY <1>1, <1>2, <1>5, <1>6, ReversedMoveTypes, NotReversedTypes, RestoreTagsTypes
     DEF TypeOK, FsTypes, Undoes
<1>8. TypeOK'
  BY <1>1, <1>4, <1>7 DEF TypeOK, FsTypes, journal
<1> QED
  BY <1>1, <1>4, <1>8, OffExecKeeps

\* UndoMark keeps the invariant.
LEMMA UndoMarkKeeps == IInv /\ UndoMark => IInv'
<1> SUFFICES ASSUME IInv, UndoMark PROVE IInv'
  OBVIOUS
<1>1. /\ phase = "undo" /\ phase # "idle" /\ TypeOK /\ job # "queued"
      /\ UNCHANGED <<fs, dirs, snap, book, job, pos, completed, ctxDone, rbErr>>
  BY Busy DEF UndoMark
<1>2. PICK i \in Newest(Pending) :
     \/ /\ Spend(0) /\ Mark(i, "reverted") /\ sub' = "act"
        /\ backup' = [backup EXCEPT ![i] = NoCopy] /\ UNCHANGED <<phase, undo>>
     \/ Spend(1) /\ UndoFails /\ UNCHANGED <<row, sub, backup>>
  BY DEF UndoMark
<1>3. i \in Ops
  BY DEF Newest, Pending
<1>4. /\ mishaps' \in 0 .. MaxMishaps /\ undos' \in 0 .. MaxUndos /\ crashed' \in BOOLEAN
      /\ row' \in [Ops -> {"none", "pending", "done", "failed", "reverted"}]
      /\ backup' \in BackupTypes
      /\ undo' \in {"none", "running", "done", "failed", "canceled"}
      /\ phase' \in {"undo", "idle"}
  BY <1>1, <1>2, <1>3, SpendTypes, MarkTypes DEF TypeOK, UndoFails, BackupTypes
<1>5. TypeOK'
  BY <1>1, <1>2, <1>4 DEF TypeOK, BackupTypes
<1> QED
  BY <1>1, <1>4, <1>5, OffExecKeeps

\* RestoreBook keeps the invariant.
LEMMA RestoreBookKeeps == IInv /\ RestoreBook => IInv'
<1> SUFFICES ASSUME IInv, RestoreBook PROVE IInv'
  OBVIOUS
<1>1. /\ phase = "undo" /\ phase # "idle" /\ TypeOK /\ job # "queued"
      /\ UNCHANGED <<disk, journal, job, pos, completed, ctxDone, rbErr>>
  BY Busy DEF RestoreBook
<1>2. PICK b \in Newest(SnapsLeft) :
     \/ /\ Spend(0) /\ sub' = "marksnap" /\ UNCHANGED <<phase, undo>>
        /\ book' = [book EXCEPT ![b] =
                      [at |-> "old", base |-> "root", state |-> Prior[b]]]
     \/ Spend(1) /\ UndoFails /\ UNCHANGED <<sub, book>>
  BY DEF RestoreBook
<1>3. b \in Books /\ Prior[b] \in {"matched", "organized"}
  BY OrganizeAssumption DEF Newest, SnapsLeft
<1>4. book' \in [Books -> [at : {"old", "new"}, base : {"dir", "root"},
                          state : {"matched", "organized"}]]
  BY <1>1, <1>2, <1>3 DEF TypeOK
<1>5. /\ mishaps' \in 0 .. MaxMishaps /\ undos' \in 0 .. MaxUndos /\ crashed' \in BOOLEAN
      /\ undo' \in {"none", "running", "done", "failed", "canceled"}
      /\ phase' \in {"undo", "idle"}
  BY <1>1, <1>2, SpendTypes DEF TypeOK, UndoFails
<1>6. TypeOK'
  BY <1>1, <1>2, <1>4, <1>5 DEF TypeOK, disk, journal
<1> QED
  BY <1>1, <1>5, <1>6, OffExecKeeps

\* MarkSnapshot keeps the invariant.
LEMMA MarkSnapshotKeeps == IInv /\ MarkSnapshot => IInv'
<1> SUFFICES ASSUME IInv, MarkSnapshot PROVE IInv'
  OBVIOUS
<1>1. /\ phase = "undo" /\ phase # "idle" /\ TypeOK /\ job # "queued"
      /\ UNCHANGED <<disk, row, book, job, pos, completed, ctxDone, rbErr>>
  BY Busy DEF MarkSnapshot
<1>2. PICK b \in Newest(SnapsLeft) :
     \/ /\ Spend(0) /\ snap' = [snap EXCEPT ![b] = "reverted"]
        /\ sub' = "restore" /\ UNCHANGED <<phase, undo>>
     \/ Spend(1) /\ UndoFails /\ UNCHANGED <<snap, sub>>
  BY DEF MarkSnapshot
<1>3. /\ mishaps' \in 0 .. MaxMishaps /\ undos' \in 0 .. MaxUndos /\ crashed' \in BOOLEAN
      /\ snap' \in [Books -> {"none", "done", "reverted"}]
      /\ undo' \in {"none", "running", "done", "failed", "canceled"}
      /\ phase' \in {"undo", "idle"}
  BY <1>1, <1>2, SpendTypes DEF TypeOK, UndoFails
<1>4. TypeOK'
  BY <1>1, <1>2, <1>3 DEF TypeOK, disk
<1> QED
  BY <1>1, <1>3, <1>4, OffExecKeeps

\* UndoStopAtCancel keeps the invariant.
LEMMA UndoStopAtCancelKeeps == IInv /\ UndoStopAtCancel => IInv'
<1> SUFFICES ASSUME IInv, UndoStopAtCancel PROVE IInv'
  OBVIOUS
<1>1. TypeOK /\ job' # "queued" /\ phase' \notin {"exec", "rollback"}
  BY Busy DEF UndoStopAtCancel, UndoFails, disk, journal, bounds
<1>2. TypeOK'
  BY <1>1, OrganizeAssumption DEF TypeOK, UndoStopAtCancel, UndoFails, disk, journal, bounds
<1> QED
  BY <1>1, <1>2, OffExecKeeps

\* BeginPass2 keeps the invariant.
LEMMA BeginPass2Keeps == IInv /\ BeginPass2 => IInv'
<1> SUFFICES ASSUME IInv, BeginPass2 PROVE IInv'
  OBVIOUS
<1>1. TypeOK /\ job' # "queued" /\ phase' \notin {"exec", "rollback"}
  BY Busy DEF BeginPass2, disk, journal, jobs, bounds
<1>2. TypeOK'
  BY <1>1, OrganizeAssumption DEF TypeOK, BeginPass2, disk, journal, jobs, bounds
<1> QED
  BY <1>1, <1>2, OffExecKeeps

\* UndoEnd keeps the invariant.
LEMMA UndoEndKeeps == IInv /\ UndoEnd => IInv'
<1> SUFFICES ASSUME IInv, UndoEnd PROVE IInv'
  OBVIOUS
<1>1. TypeOK /\ job' # "queued" /\ phase' \notin {"exec", "rollback"}
  BY Busy DEF UndoEnd, disk, journal, bounds
<1>2. TypeOK'
  BY <1>1, OrganizeAssumption DEF TypeOK, UndoEnd, disk, journal, bounds
<1> QED
  BY <1>1, <1>2, OffExecKeeps

\* RequestUndo keeps the invariant.
LEMMA RequestUndoKeeps == IInv /\ RequestUndo => IInv'
<1> SUFFICES ASSUME IInv, RequestUndo PROVE IInv'
  OBVIOUS
<1>1. TypeOK /\ job' # "queued" /\ phase' \notin {"exec", "rollback"}
  BY DEF IInv, RequestUndo, UndoAllowed, disk, journal
<1>2. undos' \in 0 .. MaxUndos
  BY <1>1, OrganizeAssumption DEF TypeOK, RequestUndo
<1>3. /\ undo' \in {"done", "running"} /\ phase' \in {phase, "undo"}
      /\ sub' \in {sub, "act"} /\ ctxDone' = FALSE
      /\ UNCHANGED <<disk, journal, book, job, pos, completed, rbErr, mishaps, crashed>>
  BY DEF RequestUndo
<1>4. TypeOK'
  BY <1>1, <1>2, <1>3 DEF TypeOK, disk, journal
<1> QED
  BY <1>1, <1>4, OffExecKeeps

\* Cancel keeps the invariant.
LEMMA CancelKeeps == IInv /\ Cancel => IInv'
<1> SUFFICES ASSUME IInv, Cancel PROVE IInv'
  OBVIOUS
<1>1. TypeOK /\ job # "queued" /\ phase # "idle"
  BY Busy DEF Cancel
<1>2. TypeOK'
  BY <1>1, OrganizeAssumption DEF TypeOK, Cancel, Spend, disk, journal, jobs
<1>3. UNCHANGED <<fs, backup, job, phase, pos, sub, undo, completed>>
  BY DEF Cancel, disk, jobs
<1> QED
  BY <1>2, <1>3 DEF IInv, Fresh, AtStep, TempsFree, ToCome, Backed, Behind,
                   Moves, TagOps, Ops, Kind, Dst

\* Crash keeps the invariant.
LEMMA CrashKeeps == IInv /\ Crash => IInv'
<1> SUFFICES ASSUME IInv, Crash PROVE IInv'
  OBVIOUS
<1>1. TypeOK /\ job' # "queued" /\ phase' \notin {"exec", "rollback"}
  BY Busy DEF Crash, disk, journal, jobs
<1>2. mishaps' \in 0 .. MaxMishaps
  BY <1>1, OrganizeAssumption DEF TypeOK, Crash
<1>3. TypeOK'
  BY <1>1, <1>2 DEF TypeOK, Crash, disk, journal, jobs
<1> QED
  BY <1>1, <1>3, OffExecKeeps

\* A file somebody drops takes a free name, and not a temporary one.
LEMMA DropFileKeeps == IInv /\ DropFile => IInv'
<1> SUFFICES ASSUME IInv, DropFile PROVE IInv'
  OBVIOUS
<1>1. PICK p \in Paths \ Temps, x \in Foreign :
        fs[p] = NoCopy /\ fs' = [fs EXCEPT ![p] = [file |-> x, tags |-> "old"]]
  BY DEF DropFile
<1>2. UNCHANGED <<dirs, backup, journal, book, jobs, control>> /\ Spend(1) /\ TypeOK
  BY DEF DropFile, IInv
<1>3. fs \in FsTypes /\ [file |-> x, tags |-> "old"] \in Copies
  BY <1>2 DEF TypeOK, FsTypes, Copies, TagVals
<1>4. fs' \in FsTypes
  BY <1>1, <1>3 DEF FsTypes
<1> USE DEF journal, jobs, control
<1>5. TypeOK'
  BY <1>2, <1>4, SpendTypes DEF TypeOK, FsTypes
<1>6. Fresh' /\ AtStep'
  BY <1>2 DEF IInv, Fresh, AtStep, Ops
<1>7. TempsFree'
  <2> SUFFICES ASSUME job = "queued" \/ phase = "exec",
                      NEW j \in Moves, Kind(j) = "leg1", ToCome(j)
               PROVE  fs'[Dst(j)] = NoCopy
    BY <1>2 DEF TempsFree, ToCome, Moves, Ops, Kind, Dst
  <2>1. Dst(j) \in Temps /\ Dst(j) \in Paths
    BY StepTypes, OrganizeAssumption
  <2>2. fs[Dst(j)] = NoCopy
    BY DEF IInv, TempsFree
  <2> QED
    BY <1>1, <1>3, <2>1, <2>2 DEF FsTypes
<1>8. Backed'
  <2>1. \A i \in TagOps : /\ Dst(i) \in Paths
                          /\ backup[i] # NoCopy => backup[i].file # None
    BY <1>2, StepTypes, OrganizeAssumption DEF TypeOK, Copies
  <2>2. \A i \in TagOps : backup[i] # NoCopy /\ fs[Dst(i)].file = backup[i].file =>
                            fs'[Dst(i)] = fs[Dst(i)]
    BY <1>1, <1>3, <2>1 DEF FsTypes, NoCopy
  <2> QED
    BY <1>2, <2>2 DEF IInv, Backed, Behind, TagOps, Ops, Kind, Dst
<1> QED
  BY <1>5, <1>6, <1>7, <1>8 DEF IInv

\* A step that changes nothing keeps the invariant.
LEMMA StutterKeeps == IInv /\ UNCHANGED vars => IInv'
<1> SUFFICES ASSUME IInv, UNCHANGED vars PROVE IInv'
  OBVIOUS
<1> USE DEF vars, disk, journal, jobs, control, bounds
<1>1. TypeOK'
  BY DEF IInv, TypeOK
<1>2. Fresh' /\ AtStep' /\ TempsFree'
  BY DEF IInv, Fresh, AtStep, TempsFree, ToCome, Moves, Ops, Kind, Dst
<1>3. Backed'
  BY DEF IInv, Backed, Behind, TagOps, Ops, Kind, Dst
<1> QED
  BY <1>1, <1>2, <1>3 DEF IInv

-----------------------------------------------------------------------------

\* Every step keeps the invariant.
THEOREM NextIInv == IInv /\ [Next]_vars => IInv'
BY StartRunKeeps, StopAtCancelKeeps, InsertOpKeeps, MkdirKeeps, MoveKeeps,
   CaseFixLeg1Keeps, CaseFixLeg2Keeps, RmdirKeeps, BackupTagsKeeps,
   WriteTagsKeeps, MarkDoneKeeps, FinalizeKeeps, CleanupKeeps, RollbackActKeeps,
   RollbackMarkKeeps, RollbackEndKeeps, UndoActKeeps, UndoMarkKeeps,
   UndoStopAtCancelKeeps, BeginPass2Keeps, RestoreBookKeeps, MarkSnapshotKeeps,
   UndoEndKeeps, RequestUndoKeeps, CancelKeeps, CrashKeeps, DropFileKeeps,
   StutterKeeps
   DEF Next, Program, Execute, Rollback, Undo

\* The invariant holds throughout every run.
THEOREM Invariance == Spec => []IInv
<1>1. Init => IInv
  BY InitIInv
<1>2. IInv /\ [Next]_vars => IInv'
  BY NextIInv
<1> QED
  BY <1>1, <1>2, PTL DEF Spec

\* The variables of a run hold values of the kinds the code gives them.
THEOREM TypeCorrect == Spec => []TypeOK
<1>1. IInv => TypeOK
  BY DEF IInv
<1> QED
  BY <1>1, Invariance, PTL

-----------------------------------------------------------------------------
(* No step loses a file. *)

\* While no path changes its file nothing is lost.
LEMMA SameFilesKeep ==
  ASSUME \A p \in Paths : fs'[p].file = fs[p].file
  PROVE  KeepsFiles
BY DEF KeepsFiles, Stays

\* In particular while no path changes at all.
LEMMA SameFsKeeps == UNCHANGED fs => KeepsFiles
BY SameFilesKeep

\* Every file that has a copy is at a path with one.
LEMMA FreeHoldsNothing == \A x \in Files \cup Foreign : x # NoCopy.file
BY OrganizeAssumption DEF NoCopy

\* A rename to a free name loses nothing, nor does a copy to one.
LEMMA RenameKeeps ==
  ASSUME fs \in FsTypes, NEW p \in Paths, NEW q \in Paths, fs[q] = NoCopy,
         \/ fs' = [fs EXCEPT ![p] = NoCopy, ![q] = fs[p]]
         \/ fs' = [fs EXCEPT ![q] = fs[p]]
  PROVE  KeepsFiles
<1> SUFFICES ASSUME NEW x \in Files \cup Foreign, NEW r \in Paths, fs[r].file = x
             PROVE  \E t \in Paths : fs'[t].file = x
  BY DEF KeepsFiles, Stays
<1>1. r # q
  BY FreeHoldsNothing
<1>2. CASE r = p
  BY <1>1, <1>2 DEF FsTypes
<1>3. CASE r # p
  BY <1>1, <1>3 DEF FsTypes
<1> QED
  BY <1>2, <1>3

\* A rename that fails loses nothing.
LEMMA NotRenamedKeeps ==
  ASSUME fs \in FsTypes, NEW p \in Paths, NEW q \in Paths, NEW k, NotRenamed(p, q, k)
  PROVE  KeepsFiles
<1>1. CASE fs' = fs
  BY <1>1, SameFsKeeps
<1>2. CASE fs[q] = NoCopy /\ fs' = [fs EXCEPT ![q] = fs[p]]
  BY <1>2, RenameKeeps
<1> QED
  BY <1>1, <1>2 DEF NotRenamed

\* A reversal, successful or not, loses nothing.
LEMMA ReversalKeeps ==
  ASSUME TypeOK, NEW i \in Moves,
         ReversedMove(i) \/ \E k \in {0, 1} : NotRenamed(Dst(i), Src(i), k)
  PROVE  KeepsFiles
<1>1. fs \in FsTypes /\ Src(i) \in Paths /\ Dst(i) \in Paths
  BY StepTypes DEF TypeOK, FsTypes
<1>2. CASE UNCHANGED fs
  BY <1>2, SameFsKeeps
<1>3. CASE Renamed(Dst(i), Src(i))
  BY <1>1, <1>3, RenameKeeps DEF Renamed
<1>4. CASE \E k \in {0, 1} : NotRenamed(Dst(i), Src(i), k)
  BY <1>1, <1>4, NotRenamedKeeps
<1> QED
  BY <1>2, <1>3, <1>4 DEF ReversedMove

\* A move or a leg of a case fix loses no file.
LEMMA ExecMoveKeepsFiles == IInv /\ (Move \/ CaseFixLeg1 \/ CaseFixLeg2) => KeepsFiles
<1> SUFFICES ASSUME IInv, Move \/ CaseFixLeg1 \/ CaseFixLeg2 PROVE KeepsFiles
  OBVIOUS
<1>1. Acting({"move"}) \/ Acting({"leg1"}) \/ Acting({"leg2"})
  BY DEF Move, CaseFixLeg1, CaseFixLeg2
<1>2. fs \in FsTypes /\ phase = "exec" /\ sub = "act" /\ pos \in Moves
  BY <1>1, ActingFacts DEF Kinds, MoveKinds, Moves
<1>3. Src(pos) \in Paths /\ Dst(pos) \in Paths
  BY <1>2, StepTypes
<1>4. Kind(pos) = "leg1" => fs[Dst(pos)] = NoCopy
  BY <1>2 DEF IInv, TempsFree, ToCome
<1>5. CASE UNCHANGED fs
  BY <1>5, SameFsKeeps
<1>6. CASE /\ fs[Dst(pos)] = NoCopy
           /\ fs' = [fs EXCEPT ![Src(pos)] = NoCopy, ![Dst(pos)] = fs[Src(pos)]]
  BY <1>2, <1>3, <1>6, RenameKeeps
<1>7. CASE \E k \in {0, 1} : NotRenamed(Src(pos), Dst(pos), k)
  BY <1>2, <1>3, <1>7, NotRenamedKeeps
<1>8. CASE Move
  BY <1>6, <1>7, <1>8 DEF Move, Renamed
<1>9. CASE CaseFixLeg1
  BY <1>4, <1>5, <1>6, <1>9 DEF CaseFixLeg1, Acting
<1>10. CASE CaseFixLeg2
  BY <1>5, <1>6, <1>10 DEF CaseFixLeg2
<1> QED
  BY <1>8, <1>9, <1>10

\* Nor does a tag write.
LEMMA TagsKeepFiles == IInv /\ WriteTags => KeepsFiles
<1> SUFFICES ASSUME IInv, WriteTags PROVE KeepsFiles
  OBVIOUS
<1>1. phase = "exec" /\ sub = "act" /\ pos \in TagOps
  BY ActingFacts DEF WriteTags, Kinds, TagOps, Acting
<1>2. CASE UNCHANGED fs
  BY <1>2, SameFsKeeps
<1>3. CASE fs[Dst(pos)] # NoCopy /\ \E t \in {"new", "wrong"} : fs' = [fs EXCEPT ![Dst(pos)].tags = t]
  BY <1>1, <1>3, Retagged, SameFilesKeep
<1> QED
  BY <1>2, <1>3 DEF WriteTags

\* Nor does a rollback, whose backups go back over the files they were taken from.
LEMMA RollbackKeepsFiles == IInv /\ RollbackAct => KeepsFiles
<1> SUFFICES ASSUME IInv, RollbackAct PROVE KeepsFiles
  OBVIOUS
<1>1. TypeOK /\ phase = "rollback"
  BY DEF IInv, RollbackAct
<1>2. PICK i \in Newest(completed) : RollsBack(i)
  BY DEF RollbackAct
<1>3. i \in completed /\ i \in Ops
  BY <1>1 DEF Newest, TypeOK
<1>4. CASE UNCHANGED fs
  BY <1>4, SameFsKeeps
<1>5. CASE i \in Moves /\ (ReversedMove(i) \/ \E k \in {0, 1} : NotRenamed(Dst(i), Src(i), k))
  BY <1>1, <1>5, ReversalKeeps
<1>6. CASE Kind(i) = "tag" /\ RestoreTags(i)
  BY <1>1, <1>3, <1>6, RestoredBacked, SameFilesKeep DEF TagOps
<1> QED
  BY <1>2, <1>4, <1>5, <1>6 DEF RollsBack, NotRestored

\* What a backup is copied over is lost only if it is another file than the backup's.
LEMMA RestoreKeeps ==
  ASSUME TypeOK, phase = "undo", NEW i \in TagOps, RestoreTags(i)
  PROVE  KeepsFiles
<1>1. fs \in FsTypes /\ Dst(i) \in Paths
  BY StepTypes DEF TypeOK, FsTypes
<1>2. CASE UNCHANGED fs
  BY <1>2, SameFsKeeps
<1>3. CASE OwnsBackup(i) /\ fs' = [fs EXCEPT ![Dst(i)] = backup[i]]
  <2> SUFFICES ASSUME NEW x \in Files \cup Foreign, NEW r \in Paths, fs[r].file = x,
                      ~Overwritten(x)
               PROVE  \E t \in Paths : fs'[t].file = x
    BY DEF KeepsFiles, Stays
  <2>1. fs'[Dst(i)] = backup[i]
    BY <1>1, <1>3 DEF FsTypes
  <2>2. CASE r = Dst(i)
    BY <1>1, <1>3, <2>1, <2>2 DEF Overwritten
  <2>3. CASE r # Dst(i)
    BY <1>1, <1>3, <2>3 DEF FsTypes
  <2> QED
    BY <2>2, <2>3
<1> QED
  BY <1>2, <1>3 DEF RestoreTags

\* Nor does an undo lose a file in any other way.
LEMMA UndoKeepsFiles == IInv /\ UndoAct => KeepsFiles
<1> SUFFICES ASSUME IInv, UndoAct PROVE KeepsFiles
  OBVIOUS
<1>1. TypeOK /\ phase = "undo"
  BY DEF IInv, UndoAct
<1>2. CASE UNCHANGED fs
  BY <1>2, SameFsKeeps
<1>3. CASE \E i \in Moves : ReversedMove(i) \/ \E k \in {0, 1} : NotRenamed(Dst(i), Src(i), k)
  BY <1>1, <1>3, ReversalKeeps
<1>4. CASE \E i \in TagOps : RestoreTags(i)
  BY <1>1, <1>4, RestoreKeeps
<1> QED
  BY <1>2, <1>3, <1>4 DEF UndoAct, Undoes, NotRestored, Newest, Pending, TagOps

\* Nor does a file that is dropped.
LEMMA DropKeepsFiles == IInv /\ DropFile => KeepsFiles
<1> SUFFICES ASSUME IInv, DropFile, NEW y \in Files \cup Foreign,
                    NEW r \in Paths, fs[r].file = y
             PROVE  \E t \in Paths : fs'[t].file = y
  BY DEF KeepsFiles, Stays
<1>1. fs \in FsTypes
  BY DEF IInv, TypeOK, FsTypes
<1>2. fs'[r] = fs[r]
  BY <1>1, FreeHoldsNothing DEF DropFile, FsTypes
<1> QED
  BY <1>2

\* Whatever fails, and whenever the process dies, the files of the run and the
\* files of others stay in the library: nothing is ever renamed over, and a tag
\* backup is copied over another file only by an undo.
THEOREM FilesAreKept == Spec => NothingLost
<1>1. IInv /\ [Next]_vars => [KeepsFiles]_vars
  <2> SUFFICES ASSUME IInv, Next PROVE KeepsFiles
    OBVIOUS
  <2>1. CASE UNCHANGED fs
    BY <2>1, SameFsKeeps
  <2>2. CASE StartRun \/ StopAtCancel \/ InsertOp \/ Mkdir \/ Rmdir \/ BackupTags
             \/ MarkDone \/ Finalize \/ Cleanup
    BY <2>1, <2>2 DEF StartRun, StopAtCancel, InsertOp, Mkdir, Rmdir, BackupTags,
                      MarkDone, Finalize, Cleanup, disk
  <2>3. CASE RollbackMark \/ RollbackEnd \/ UndoMark \/ UndoStopAtCancel
             \/ BeginPass2 \/ RestoreBook \/ MarkSnapshot \/ UndoEnd
    BY <2>1, <2>3 DEF RollbackMark, RollbackEnd, UndoMark, UndoStopAtCancel,
                      BeginPass2, RestoreBook, MarkSnapshot, UndoEnd, disk
  <2>4. CASE RequestUndo \/ Cancel \/ Crash
    BY <2>1, <2>4 DEF RequestUndo, Cancel, Crash, disk
  <2> QED
    BY <2>2, <2>3, <2>4, ExecMoveKeepsFiles, TagsKeepFiles, RollbackKeepsFiles,
       UndoKeepsFiles, DropKeepsFiles DEF Next, Program, Execute, Rollback, Undo
<1> QED
  BY <1>1, Invariance, PTL DEF Spec, NothingLost

-----------------------------------------------------------------------------
(***************************************************************************)
(* For every library and plan: at every instant, also right after a crash, *)
(* the disk shows no effect of a step that is not in the journal.          *)
(*                                                                         *)
(* A step is not the only one that touches its paths: the reversal of      *)
(* another step puts a file somewhere, a move makes folders on its way, a  *)
(* tag write changes a file that another step has moved. That none of them *)
(* forges the effect of a step still to be journaled rests on two things:  *)
(* rows are inserted in the order of the plan, so the steps without a row  *)
(* are those behind the current one; and the plan never goes where another *)
(* of its files is or was.                                                 *)
(***************************************************************************)
\* Rows are inserted in plan order: Execute's position parts the steps with a row
\* from those without. What was carried out has a row.
InOrder ==
  /\ \A i \in Ops : (i < pos => row[i] # "none") /\ (i > pos => row[i] = "none")
  /\ pos \in Ops /\ (job = "queued" \/ phase = "exec") =>
       row[pos] = IF sub = "insert" THEN "none" ELSE "pending"
  /\ \A i \in completed : row[i] # "none"

\* Until the first tag write is journaled no file has new tags.
AllOld == (\A i \in TagOps : row[i] = "none") =>
            \A p \in Paths : fs[p].tags \in {"old", "none"}

\* What WriteAhead says of a step without a row, kind by kind: no file of the run has
\* come to its destination, its folder is not there or still there, its file has the
\* tags it had and no backup.
NotMoved == \A i \in Moves : row[i] = "none" => fs[Dst(i)].file \notin Files
NotMade == \A i \in Ops : Kind(i) = "mkdir" /\ row[i] = "none" => Dst(i) \notin dirs
NotPruned == \A i \in Ops : Kind(i) = "rmdir" /\ row[i] = "none" => Dst(i) \in dirs
NotTagged == \A i \in TagOps : row[i] = "none" =>
               backup[i] = NoCopy /\ fs[Dst(i)].tags \in {"old", "none"}
NoEffect == NotMoved /\ NotMade /\ NotPruned /\ NotTagged

Journaled == InOrder /\ AllOld /\ NoEffect
JInv == IInv /\ Journaled

-----------------------------------------------------------------------------
(* What the plan looks like. *)

\* A step moves a file, writes tags, or makes or prunes a folder.
LEMMA Kinded == \A i \in Ops : i \in Moves \/ Kind(i) = "tag" \/ Kind(i) \in {"mkdir", "rmdir"}
<1> SUFFICES ASSUME NEW i \in Ops PROVE Kind(i) \in Kinds
  BY DEF Moves, Kinds
<1> DEFINE R == [kind : Kinds, src : Paths \cup {None}, dst : Paths \cup Dirs]
<1>1. Steps \in Seq(R)
  BY OrganizeAssumption
<1> HIDE DEF R
<1>2. Steps[i] \in R
  BY <1>1 DEF Ops
<1> QED
  BY <1>2 DEF Kind, R

\* Every move is a move of its own or one leg of a case fix.
LEMMA MoveShape ==
  \A i \in Moves : \E f \in Files :
    /\ Old[f] # New[f]
    /\ MovedBy(f, i) \/ FixedBy(f, i) \/ (i - 1 \in Moves /\ FixedBy(f, i - 1))
<1> SUFFICES ASSUME NEW i \in Moves
             PROVE  \E f \in Files :
                      /\ Old[f] # New[f]
                      /\ MovedBy(f, i) \/ FixedBy(f, i) \/ (i - 1 \in Moves /\ FixedBy(f, i - 1))
  OBVIOUS
<1>1. PICK f \in Files : /\ Old[f] # New[f]
                         /\ IF Kind(i) = "leg2" THEN Dst(i) = New[f] ELSE Src(i) = Old[f]
  BY PlanAssumption
<1>2. PICK j \in Moves : MovedBy(f, j) \/ FixedBy(f, j)
  BY <1>1, PlanAssumption
<1>3. CASE MovedBy(f, j)
  <2>1. i = j
    BY <1>1, <1>3, PlanAssumption DEF MovedBy
  <2> QED
    BY <1>1, <1>3, <2>1
<1>4. CASE FixedBy(f, j)
  <2>1. CASE Kind(i) = "leg2"
    <3>1. i = j + 1 /\ j \in Int
      BY SMTT(20), <1>1, <1>4, <2>1, PlanAssumption DEF FixedBy, Moves, Ops
    <3> QED
      BY <1>1, <1>4, <3>1
  <2>2. CASE Kind(i) # "leg2"
    <3>1. i = j
      BY <1>1, <1>4, <2>2, PlanAssumption DEF FixedBy
    <3> QED
      BY <1>1, <1>4, <3>1
  <2> QED
    BY <2>1, <2>2
<1> QED
  BY <1>2, <1>3, <1>4

\* A step takes its file from where another one puts it only between the two legs
\* of a case fix.
LEMMA Apart ==
  ASSUME NEW i \in Moves, NEW j \in Moves, Dst(i) = Src(j)
  PROVE  i = j - 1
<1>1. PICK f \in Files :
        /\ Old[f] # New[f]
        /\ MovedBy(f, j) \/ FixedBy(f, j) \/ (j - 1 \in Moves /\ FixedBy(f, j - 1))
  BY MoveShape
<1>2. CASE j - 1 \in Moves /\ FixedBy(f, j - 1)
  <2>1. Dst(i) = Dst(j - 1)
    BY <1>2, StepTypes DEF FixedBy, Moves, Ops
  <2> QED
    BY <1>2, <2>1, PlanAssumption
<1>3. CASE Src(j) = Old[f]
  <2>1. PICK g \in Files :
          /\ Old[g] # New[g]
          /\ MovedBy(g, i) \/ FixedBy(g, i) \/ (i - 1 \in Moves /\ FixedBy(g, i - 1))
    BY MoveShape
  <2>2. Dst(i) = New[g] \/ Dst(i) \in Temps
    BY <2>1, StepTypes, OrganizeAssumption DEF MovedBy, FixedBy, Moves, Ops
  <2> QED
    BY <1>1, <1>3, <2>1, <2>2, PlanAssumption, OrganizeAssumption
<1> QED
  BY <1>1, <1>2, <1>3 DEF MovedBy, FixedBy

\* No step takes a file from where tags are to be written.
LEMMA TagApart ==
  ASSUME NEW i \in TagOps, NEW j \in Moves
  PROVE  Dst(i) # Src(j)
<1>1. PICK f \in Files :
        /\ Old[f] # New[f]
        /\ MovedBy(f, j) \/ FixedBy(f, j) \/ (j - 1 \in Moves /\ FixedBy(f, j - 1))
  BY MoveShape
<1>2. PICK g \in Files : Dst(i) = New[g]
  BY PlanAssumption
<1>3. Src(j) = Old[f] \/ Src(j) \in Temps
  BY <1>1, StepTypes, OrganizeAssumption DEF MovedBy, FixedBy, Moves, Ops
<1> QED
  BY <1>1, <1>2, <1>3, PlanAssumption, OrganizeAssumption

\* A step with a row has every earlier step with a row before it.
LEMMA Earlier ==
  ASSUME TypeOK, InOrder, NEW i \in Ops, NEW j \in Ops, i < j, row[j] # "none"
  PROVE  row[i] # "none"
BY StepTypes DEF TypeOK, InOrder

-----------------------------------------------------------------------------
(* What keeps the effects of steps without a row off the disk. *)

RowsStay == \A i \in Ops : row[i] # "none" => row'[i] # "none"

\* No file moves or changes: at most folders come and go, and backups go.
LEMMA FoldersApart ==
  ASSUME TypeOK, Journaled, RowsStay, UNCHANGED fs,
         \A i \in Ops : backup'[i] \in {backup[i], NoCopy},
         \A i \in Ops : Kind(i) = "mkdir" /\ row'[i] = "none" /\ Dst(i) \in dirs' =>
                          Dst(i) \in dirs,
         \A i \in Ops : Kind(i) = "rmdir" /\ row'[i] = "none" /\ Dst(i) \in dirs =>
                          Dst(i) \in dirs'
  PROVE  AllOld' /\ NoEffect'
<1>1. \A i \in Ops : row'[i] = "none" => row[i] = "none"
  BY DEF RowsStay
<1>2. AllOld' /\ NotTagged' /\ NotMoved'
  BY <1>1 DEF Journaled, AllOld, NoEffect, NotTagged, NotMoved, TagOps, Moves, Ops, Kind, Dst
<1>3. NotMade' /\ NotPruned'
  BY <1>1 DEF Journaled, NoEffect, NotMade, NotPruned, Ops, Kind, Dst
<1> QED
  BY <1>2, <1>3 DEF NoEffect

\* A file goes from one end of a journaled move to the other, or is copied there.
LEMMA MovesApart ==
  ASSUME TypeOK, Journaled, RowsStay, UNCHANGED backup, dirs \subseteq dirs',
         NEW j \in Moves, row[j] # "none", NEW p \in Paths, NEW q \in Paths,
         \/ p = Src(j) /\ q = Dst(j) /\ \A i \in TagOps : row[i] = "none"
         \/ p = Dst(j) /\ q = Src(j),
         \/ fs' = fs
         \/ fs' = [fs EXCEPT ![p] = NoCopy, ![q] = fs[p]]
         \/ fs' = [fs EXCEPT ![q] = fs[p]]
  PROVE  AllOld' /\ NoEffect'
<1>1. fs \in FsTypes /\ \A i \in Ops : row'[i] = "none" => row[i] = "none"
  BY DEF RowsStay, TypeOK, FsTypes
<1>2. \A r \in Paths : fs'[r] = fs[r] \/ (r = p /\ fs'[r] = NoCopy) \/ (r = q /\ fs'[r] = fs[p])
  BY <1>1 DEF FsTypes
<1>3. AllOld'
  <2> SUFFICES ASSUME \A i \in TagOps : row'[i] = "none", NEW r \in Paths
               PROVE  fs'[r].tags \in {"old", "none"}
    BY DEF AllOld, TagOps, Ops, Kind
  <2>1. \A s \in Paths : fs[s].tags \in {"old", "none"}
    BY <1>1 DEF Journaled, AllOld, TagOps
  <2> QED
    BY <1>2, <2>1 DEF NoCopy
<1>4. NotMoved'
  <2> SUFFICES ASSUME NEW i \in Moves, row'[i] = "none" PROVE fs'[Dst(i)].file \notin Files
    BY DEF NotMoved, Moves, Ops, Kind, Dst
  <2>1. row[i] = "none" /\ fs[Dst(i)].file \notin Files /\ Dst(i) \in Paths /\ i # j
    BY <1>1, StepTypes DEF Journaled, NoEffect, NotMoved
  <2>2. Dst(i) # Dst(j)
    BY <2>1, PlanAssumption
  <2>3. Dst(i) # Src(j)
    <3> SUFFICES ASSUME Dst(i) = Src(j) PROVE FALSE
      OBVIOUS
    <3>1. i = j - 1 /\ i < j
      BY Apart, StepTypes DEF Moves, Ops
    <3> QED
      BY <2>1, <3>1, Earlier, StepTypes DEF Journaled
  <2> QED
    BY <1>2, <2>1, <2>2, <2>3
<1>5. NotMade'
  <2> SUFFICES ASSUME NEW i \in Ops, Kind(i) = "mkdir", row'[i] = "none" PROVE FALSE
    BY DEF NotMade, Ops, Kind, Dst
  <2>1. i < j /\ j \in Ops
    BY PlanAssumption, StepTypes DEF Moves, MoveKinds
  <2> QED
    BY <1>1, <2>1, Earlier DEF Journaled
<1>6. NotPruned'
  BY <1>1 DEF Journaled, NoEffect, NotPruned, Ops, Kind, Dst
<1>7. NotTagged'
  <2> SUFFICES ASSUME NEW i \in TagOps, row'[i] = "none"
               PROVE  backup'[i] = NoCopy /\ fs'[Dst(i)].tags \in {"old", "none"}
    BY DEF NotTagged, TagOps, Ops, Kind, Dst
  <2>1. /\ row[i] = "none" /\ backup[i] = NoCopy /\ fs[Dst(i)].tags \in {"old", "none"}
        /\ Dst(i) \in Paths /\ Dst(i) # Src(j)
    BY <1>1, StepTypes, TagApart DEF Journaled, NoEffect, NotTagged, TagOps
  <2>2. Dst(i) = q => fs[p].tags \in {"old", "none"}
    BY <2>1 DEF Journaled, AllOld
  <2> QED
    BY <1>2, <2>1, <2>2 DEF NoCopy
<1> QED
  BY <1>3, <1>4, <1>5, <1>6, <1>7 DEF NoEffect

\* The tags, or the backup, of a journaled tag write change.
LEMMA TagsApart ==
  ASSUME TypeOK, Journaled, RowsStay, dirs \subseteq dirs', NEW j \in TagOps, row[j] # "none",
         \A p \in Paths : p # Dst(j) => fs'[p] = fs[p],
         \A i \in Ops : i # j => backup'[i] = backup[i]
  PROVE  AllOld' /\ NoEffect'
<1>1. \A i \in Ops : row'[i] = "none" => row[i] = "none"
  BY DEF RowsStay
<1>2. \A i \in Moves : row'[i] # "none"
  BY <1>1, Earlier, StepTypes, OrganizeAssumption DEF Journaled
<1>3. \A i \in Ops : Kind(i) = "mkdir" => row'[i] # "none"
  <2> SUFFICES ASSUME NEW i \in Ops, Kind(i) = "mkdir" PROVE row'[i] # "none"
    OBVIOUS
  <2>1. i < j /\ j \in Ops
    BY PlanAssumption, StepTypes DEF TagOps
  <2> QED
    BY <1>1, <2>1, Earlier DEF Journaled
<1>4. AllOld'
  BY StepTypes DEF AllOld, RowsStay
<1>5. NotMoved' /\ NotMade' /\ NotPruned'
  BY <1>1, <1>2, <1>3 DEF Journaled, NoEffect, NotMoved, NotMade, NotPruned, Ops, Moves, Kind, Dst
<1>6. NotTagged'
  <2> SUFFICES ASSUME NEW i \in TagOps, row'[i] = "none"
               PROVE  backup'[i] = NoCopy /\ fs'[Dst(i)].tags \in {"old", "none"}
    BY DEF NotTagged, TagOps, Ops, Kind, Dst
  <2>1. i \in Ops /\ i # j /\ Dst(i) # Dst(j) /\ Dst(i) \in Paths /\ row[i] = "none"
    BY <1>1, StepTypes, PlanAssumption
  <2> QED
    BY <2>1 DEF Journaled, NoEffect, NotTagged
<1> QED
  BY <1>4, <1>5, <1>6 DEF NoEffect

\* The rows only ever move on.
LEMMA MarkRows ==
  ASSUME TypeOK, NEW i \in Ops, NEW s \in {"pending", "done", "failed", "reverted"}, Mark(i, s)
  PROVE  RowsStay /\ row'[i] = s /\ \A j \in Ops : j # i => row'[j] = row[j]
BY DEF TypeOK, Mark, RowsStay

\* The position stays, as do the steps that have a row.
LEMMA OrderStays ==
  ASSUME TypeOK, InOrder, RowsStay, UNCHANGED pos,
         \A i \in Ops : row'[i] # "none" => row[i] # "none",
         \A i \in completed' : i \in Ops /\ row[i] # "none",
         pos \in Ops /\ (job' = "queued" \/ phase' = "exec") =>
           row'[pos] = IF sub' = "insert" THEN "none" ELSE "pending"
  PROVE  InOrder'
BY DEF InOrder, RowsStay, Ops

\* Execute acts on a step whose row is pending.
LEMMA ActingPending ==
  ASSUME JInv, NEW kinds \in SUBSET Kinds, Acting(kinds)
  PROVE  /\ TypeOK /\ Journaled /\ pos \in Ops /\ row[pos] = "pending"
         /\ phase = "exec" /\ sub = "act" /\ job # "queued" /\ Kind(pos) \in kinds
BY ActingFacts DEF JInv, IInv, Fresh, Journaled, InOrder

\* It is carried out, or its failure is journaled and the run is given up.
LEMMA ActOrder ==
  ASSUME TypeOK, Journaled, pos \in Ops, row[pos] = "pending",
         phase = "exec", sub = "act", job # "queued", UNCHANGED <<pos, jobs>>,
         Applied \/ \E k \in {0, 1} : Abort(k)
  PROVE  InOrder' /\ RowsStay
<1>1. \A i \in completed : i \in Ops /\ row[i] # "none"
  BY DEF TypeOK, Journaled, InOrder
<1>2. CASE Applied
  BY <1>1, <1>2, OrderStays DEF Applied, RowsStay, Journaled
<1>3. CASE \E k \in {0, 1} : Abort(k)
  <2>1. UNCHANGED row \/ Mark(pos, "failed")
    BY <1>3 DEF Abort, JournalFailure
  <2>2. RowsStay /\ \A i \in Ops : row'[i] # "none" => row[i] # "none"
    BY <2>1, MarkRows DEF RowsStay
  <2>3. phase' = "rollback" /\ job' # "queued" /\ UNCHANGED completed
    BY <1>3 DEF Abort, GiveUp, jobs
  <2> QED
    BY <1>1, <2>2, <2>3, OrderStays DEF Journaled
<1> QED
  BY <1>2, <1>3

-----------------------------------------------------------------------------
(* Execute. *)

\* At first nothing is journaled, and nothing has been touched.
LEMMA InitJournaled == Init => Journaled
<1> SUFFICES ASSUME Init PROVE Journaled
  OBVIOUS
<1>1. InOrder
  BY StepTypes DEF Init, InOrder
<1>2. AllOld
  BY DEF Init, AllOld, NoCopy
<1>3. NotMoved
  <2> SUFFICES ASSUME NEW i \in Moves PROVE fs[Dst(i)].file \notin Files
    BY DEF NotMoved
  <2>1. PICK g \in Files :
          /\ Old[g] # New[g]
          /\ MovedBy(g, i) \/ FixedBy(g, i) \/ (i - 1 \in Moves /\ FixedBy(g, i - 1))
    BY MoveShape
  <2>2. Dst(i) = New[g] \/ Dst(i) \in Temps
    BY <2>1, StepTypes, OrganizeAssumption DEF MovedBy, FixedBy, Moves, Ops
  <2>3. ASSUME NEW f \in Files, Old[f] = Dst(i) PROVE FALSE
    <3>1. Old[f] \notin Temps
      BY OrganizeAssumption
    <3>2. Old[f] = New[g] /\ f # g
      BY <2>1, <2>2, <2>3, <3>1
    <3> QED
      BY <3>2, PlanAssumption
  <2> QED
    BY <2>3, StepTypes, FreeHoldsNothing DEF Init
<1>4. NotMade /\ NotPruned
  <2>1. \A i \in Ops : Kind(i) = "mkdir" => Dst(i) \in Created
    BY DEF Created
  <2>2. \A i \in Ops : Kind(i) = "rmdir" => Dst(i) \in Dirs \ Created
    BY PlanAssumption, StepTypes, OrganizeAssumption DEF DirOps
  <2> QED
    BY <2>1, <2>2 DEF Init, NotMade, NotPruned, InitialDirs
<1>5. NotTagged
  BY StepTypes DEF Init, NotTagged, NoCopy
<1> QED
  BY <1>1, <1>2, <1>3, <1>4, <1>5 DEF Journaled, NoEffect

\* The worker starts the job, or fails before anything is touched.
LEMMA StartRunJournaled == JInv /\ StartRun => Journaled'
<1> SUFFICES ASSUME JInv, StartRun PROVE Journaled'
  OBVIOUS
<1>1. /\ TypeOK /\ Journaled /\ job = "queued" /\ sub = "insert" /\ job' # "queued"
      /\ UNCHANGED <<fs, dirs, backup, row, pos, sub, completed>>
  BY DEF JInv, IInv, Fresh, StartRun, disk, journal
<1>2. RowsStay
  BY <1>1 DEF RowsStay
<1>3. InOrder'
  BY <1>1 DEF Journaled, InOrder, Ops
<1> QED
  BY <1>1, <1>2, <1>3, FoldersApart DEF Journaled

\* The row of the current step is inserted, or the run is given up.
LEMMA InsertOpJournaled == JInv /\ InsertOp => Journaled'
<1> SUFFICES ASSUME JInv, InsertOp PROVE Journaled'
  OBVIOUS
<1>1. /\ TypeOK /\ Journaled /\ pos \in Ops /\ phase = "exec" /\ job # "queued"
      /\ UNCHANGED <<fs, dirs, backup, job, pos, completed>>
  BY DEF JInv, IInv, Fresh, InsertOp, disk, jobs
<1>2. CASE Mark(pos, "pending") /\ sub' = "act" /\ UNCHANGED phase
  <2>1. RowsStay /\ row'[pos] = "pending" /\ \A j \in Ops : j # pos => row'[j] = row[j]
    BY <1>1, <1>2, MarkRows
  <2>2. InOrder'
    BY <1>1, <1>2, <2>1 DEF Journaled, InOrder, Ops, TypeOK
  <2> QED
    BY <1>1, <2>1, <2>2, FoldersApart DEF Journaled
<1>3. CASE GiveUp /\ UNCHANGED row
  <2>1. RowsStay
    BY <1>3 DEF RowsStay
  <2>2. InOrder'
    BY <1>1, <1>3 DEF Journaled, InOrder, Ops, GiveUp
  <2> QED
    BY <1>1, <2>1, <2>2, FoldersApart DEF Journaled
<1> QED
  BY <1>2, <1>3 DEF InsertOp

\* A folder is made; the folders still to come are not above it.
LEMMA MkdirJournaled == JInv /\ Mkdir => Journaled'
<1> SUFFICES ASSUME JInv, Mkdir PROVE Journaled'
  OBVIOUS
<1>1. /\ TypeOK /\ Journaled /\ pos \in Ops /\ row[pos] = "pending"
      /\ phase = "exec" /\ sub = "act" /\ job # "queued" /\ Kind(pos) = "mkdir"
      /\ UNCHANGED <<fs, backup, jobs, pos>>
  BY ActingPending DEF Mkdir, Kinds
<1>2. InOrder' /\ RowsStay
  BY <1>1, ActOrder DEF Mkdir
<1>3. dirs' = dirs \/ dirs' = dirs \cup Within[Dst(pos)]
  BY DEF Mkdir
<1>4. ASSUME NEW i \in Ops, Kind(i) = "mkdir", row'[i] = "none", Dst(i) \in dirs'
      PROVE  Dst(i) \in dirs
  <2>1. row[i] = "none" /\ i # pos
    BY <1>1, <1>2, <1>4 DEF RowsStay
  <2>2. pos < i
    BY <1>1, <2>1, StepTypes DEF Journaled, InOrder
  <2>3. Dst(i) \notin Within[Dst(pos)]
    BY <1>1, <1>4, <2>2, PlanAssumption
  <2> QED
    BY <1>3, <1>4, <2>3
<1> QED
  BY <1>1, <1>2, <1>3, <1>4, FoldersApart DEF Journaled

\* A folder is pruned, or a failure to prune it passed over.
LEMMA RmdirJournaled == JInv /\ Rmdir => Journaled'
<1> SUFFICES ASSUME JInv, Rmdir PROVE Journaled'
  OBVIOUS
<1>1. /\ TypeOK /\ Journaled /\ pos \in Ops /\ row[pos] = "pending"
      /\ phase = "exec" /\ sub = "act" /\ job # "queued" /\ Kind(pos) = "rmdir"
      /\ UNCHANGED <<fs, backup, jobs>>
  BY ActingPending DEF Rmdir, Kinds
<1>2. CASE Applied /\ dirs' = dirs \ {Dst(pos)} /\ UNCHANGED pos
  <2>1. InOrder' /\ RowsStay
    BY <1>1, <1>2, ActOrder
  <2>2. ASSUME NEW i \in Ops, Kind(i) = "rmdir", row'[i] = "none", Dst(i) \in dirs
        PROVE  Dst(i) \in dirs'
    <3>1. i # pos
      BY <1>1, <2>1, <2>2 DEF RowsStay
    <3> QED
      BY <1>1, <1>2, <2>2, <3>1, PlanAssumption
  <2> QED
    BY <1>1, <1>2, <2>1, <2>2, FoldersApart DEF Journaled
<1>3. CASE /\ \E k \in {0, 1} : JournalFailure(k)
           /\ pos' = pos + 1 /\ sub' = "insert" /\ UNCHANGED <<dirs, phase, completed>>
  <2>1. UNCHANGED row \/ Mark(pos, "failed")
    BY <1>3 DEF JournalFailure
  <2>2. RowsStay /\ row'[pos] # "none" /\ \A j \in Ops : j # pos => row'[j] = row[j]
    BY <1>1, <2>1, MarkRows DEF RowsStay
  <2>3. InOrder'
    BY <1>1, <1>3, <2>2, StepTypes DEF Journaled, InOrder, TypeOK
  <2> QED
    BY <1>1, <1>3, <2>2, <2>3, FoldersApart DEF Journaled
<1> QED
  BY <1>2, <1>3 DEF Rmdir

\* A file is moved, directly or by one of two legs.
LEMMA MovesJournaled == JInv /\ (Move \/ CaseFixLeg1 \/ CaseFixLeg2) => Journaled'
<1> SUFFICES ASSUME JInv, Move \/ CaseFixLeg1 \/ CaseFixLeg2 PROVE Journaled'
  OBVIOUS
<1>1. Acting({"move"}) \/ Acting({"leg1"}) \/ Acting({"leg2"})
  BY DEF Move, CaseFixLeg1, CaseFixLeg2
<1>2. /\ TypeOK /\ Journaled /\ pos \in Moves /\ pos \in Ops /\ row[pos] = "pending"
      /\ phase = "exec" /\ sub = "act" /\ job # "queued"
  BY <1>1, ActingPending DEF Kinds, MoveKinds, Moves
<1>3. /\ Src(pos) \in Paths /\ Dst(pos) \in Paths
      /\ \A i \in TagOps : row[i] = "none"
  BY <1>2, StepTypes, OrganizeAssumption DEF Journaled, InOrder, Moves
<1>4. UNCHANGED <<backup, jobs, pos>> /\ dirs \subseteq dirs'
  BY DEF Move, CaseFixLeg1, CaseFixLeg2, Renamed, NotRenamed
<1>5. \/ fs' = fs
      \/ fs' = [fs EXCEPT ![Src(pos)] = NoCopy, ![Dst(pos)] = fs[Src(pos)]]
      \/ fs' = [fs EXCEPT ![Dst(pos)] = fs[Src(pos)]]
  BY DEF Move, CaseFixLeg1, CaseFixLeg2, Renamed, NotRenamed
<1>6. \/ Applied \/ \E k \in {0, 1} : Abort(k)
      \/ GiveUp /\ UNCHANGED <<row, completed>>
  BY DEF Move, CaseFixLeg1, CaseFixLeg2
<1>7. InOrder' /\ RowsStay
  <2>1. CASE GiveUp /\ UNCHANGED <<row, completed>>
    <3>1. RowsStay /\ phase' # "exec" /\ job' # "queued"
      BY <1>2, <1>4, <2>1 DEF RowsStay, GiveUp, jobs
    <3> QED
      BY <1>2, <1>4, <2>1, <3>1, OrderStays DEF Journaled, TypeOK, InOrder
  <2> QED
    BY <1>2, <1>4, <1>6, <2>1, ActOrder
<1> QED
  BY <1>2, <1>3, <1>4, <1>5, <1>7, MovesApart DEF Journaled

\* Tags are backed up, then written.
LEMMA TagsJournaled == JInv /\ (BackupTags \/ WriteTags) => Journaled'
<1> SUFFICES ASSUME JInv, BackupTags \/ WriteTags PROVE Journaled'
  OBVIOUS
<1>1. Acting({"tag"}) /\ UNCHANGED <<dirs, jobs, pos>>
  BY DEF BackupTags, WriteTags
<1>2. /\ TypeOK /\ Journaled /\ pos \in Ops /\ pos \in TagOps /\ row[pos] = "pending"
      /\ phase = "exec" /\ sub = "act" /\ job # "queued" /\ fs \in FsTypes
  BY <1>1, ActingPending, ActingFacts DEF Kinds, TagOps, JInv
<1>3. /\ \A p \in Paths : p # Dst(pos) => fs'[p] = fs[p]
      /\ \A i \in Ops : i # pos => backup'[i] = backup[i]
  BY <1>2 DEF BackupTags, WriteTags, FsTypes, TypeOK
<1>4. InOrder' /\ RowsStay
  <2>1. (\E k \in {0, 1} : Abort(k)) \/ (UNCHANGED <<row, phase, completed>> /\ sub' \in {"act", "mark"})
    BY <1>2 DEF BackupTags, WriteTags
  <2> QED
    BY <1>1, <1>2, <2>1, ActOrder, OrderStays DEF Journaled, InOrder, RowsStay, jobs
<1> QED
  BY <1>1, <1>2, <1>3, <1>4, TagsApart DEF Journaled

\* The row of a step that was carried out is flipped.
LEMMA MarkDoneJournaled == JInv /\ MarkDone => Journaled'
<1> SUFFICES ASSUME JInv, MarkDone PROVE Journaled'
  OBVIOUS
<1>1. /\ TypeOK /\ Journaled /\ pos \in Ops /\ phase = "exec" /\ job # "queued"
      /\ UNCHANGED <<fs, dirs, backup, job>>
  BY DEF JInv, IInv, Fresh, AtStep, MarkDone, disk, jobs
<1>2. CASE /\ Mark(pos, "done") /\ completed' = completed \cup {pos}
           /\ pos' = pos + 1 /\ sub' = "insert" /\ UNCHANGED phase
  <2>1. RowsStay /\ row'[pos] = "done" /\ \A j \in Ops : j # pos => row'[j] = row[j]
    BY <1>1, <1>2, MarkRows
  <2>2. InOrder'
    BY <1>1, <1>2, <2>1, StepTypes DEF Journaled, InOrder, TypeOK
  <2> QED
    BY <1>1, <2>1, <2>2, FoldersApart DEF Journaled
<1>3. CASE GiveUp /\ UNCHANGED <<row, pos, completed>>
  <2>1. RowsStay
    BY <1>3 DEF RowsStay
  <2>2. InOrder'
    BY <1>1, <1>3 DEF Journaled, InOrder, GiveUp, Ops
  <2> QED
    BY <1>1, <2>1, <2>2, FoldersApart DEF Journaled
<1> QED
  BY <1>2, <1>3 DEF MarkDone

-----------------------------------------------------------------------------
(* What leaves Execute, or happens outside it: no row is inserted any more. *)

\* Outside Execute's loops, only the steps that have a row matter.
LEMMA OutsideOrder ==
  ASSUME JInv, RowsStay, UNCHANGED pos, job' # "queued", phase' # "exec",
         \A i \in Ops : row'[i] # "none" => row[i] # "none",
         completed' \subseteq completed
  PROVE  InOrder'
BY OrderStays DEF JInv, IInv, TypeOK, Journaled, InOrder

\* The steps that touch neither files nor folders.
LEMMA QuietJournaled ==
  ASSUME JInv, UNCHANGED <<fs, dirs, row, pos>>, job' # "queued", phase' # "exec",
         completed' \subseteq completed, \A i \in Ops : backup'[i] \in {backup[i], NoCopy}
  PROVE  Journaled'
<1>1. RowsStay
  BY DEF RowsStay
<1> QED
  BY <1>1, OutsideOrder, FoldersApart DEF JInv, IInv, Journaled

\* So do those that flip one row.
LEMMA FlipJournaled ==
  ASSUME JInv, UNCHANGED <<fs, dirs, pos>>, job' # "queued", phase' # "exec",
         completed' \subseteq completed, \A i \in Ops : backup'[i] \in {backup[i], NoCopy},
         NEW i \in Ops, row[i] # "none", Mark(i, "reverted")
  PROVE  Journaled'
<1>1. RowsStay /\ \A j \in Ops : row'[j] # "none" => row[j] # "none"
  BY MarkRows DEF JInv, IInv
<1> QED
  BY <1>1, OutsideOrder, FoldersApart DEF JInv, IInv, Journaled

\* The steps that touch neither the disk nor a journal row.
LEMMA EndsJournaled ==
  JInv /\ (\/ StopAtCancel \/ Finalize \/ Cleanup \/ RollbackEnd \/ UndoStopAtCancel
           \/ BeginPass2 \/ RestoreBook \/ MarkSnapshot \/ UndoEnd \/ RequestUndo \/ Crash)
    => Journaled'
<1> SUFFICES ASSUME JInv,
                    \/ StopAtCancel \/ Finalize \/ Cleanup \/ RollbackEnd \/ UndoStopAtCancel
                    \/ BeginPass2 \/ RestoreBook \/ MarkSnapshot \/ UndoEnd \/ RequestUndo \/ Crash
             PROVE  Journaled'
  OBVIOUS
<1>1. phase # "idle" => job # "queued"
  BY DEF JInv, IInv, Fresh
<1> USE <1>1, QuietJournaled DEF disk, journal, jobs, UndoFails, GiveUp, UndoAllowed
<1>2. CASE StopAtCancel
  BY <1>2 DEF StopAtCancel
<1>3. CASE Finalize
  BY <1>3 DEF Finalize
<1>4. CASE Cleanup
  <2>1. \A i \in Ops : backup'[i] \in {backup[i], NoCopy}
    BY <1>4 DEF Cleanup
  <2> QED
    BY <1>4, <2>1 DEF Cleanup
<1>5. CASE RollbackEnd
  BY <1>5 DEF RollbackEnd
<1>6. CASE UndoStopAtCancel
  BY <1>6 DEF UndoStopAtCancel
<1>7. CASE BeginPass2
  BY <1>7 DEF BeginPass2
<1>8. CASE RestoreBook
  BY <1>8 DEF RestoreBook
<1>9. CASE MarkSnapshot
  BY <1>9 DEF MarkSnapshot
<1>10. CASE UndoEnd
  BY <1>10 DEF UndoEnd
<1>11. CASE RequestUndo
  BY <1>11 DEF RequestUndo
<1>12. CASE Crash
  BY <1>12 DEF Crash
<1> QED
  BY <1>2, <1>3, <1>4, <1>5, <1>6, <1>7, <1>8, <1>9, <1>10, <1>11, <1>12

\* A rollback reverses a step that was carried out, and so journaled.
LEMMA RollbackJournaled == JInv /\ RollbackAct => Journaled'
<1> SUFFICES ASSUME JInv, RollbackAct PROVE Journaled'
  OBVIOUS
<1>1. /\ TypeOK /\ Journaled /\ phase' # "exec" /\ job' # "queued" /\ fs \in FsTypes
      /\ UNCHANGED <<row, pos>>
  BY DEF JInv, IInv, TypeOK, FsTypes, Fresh, RollbackAct, journal, jobs
<1>2. PICK i \in Newest(completed) : RollsBack(i)
  BY DEF RollbackAct
<1>3. i \in completed /\ i \in Ops /\ row[i] # "none" /\ completed' \subseteq completed
  BY <1>1, <1>2 DEF Newest, TypeOK, Journaled, InOrder, RollsBack
<1>4. RowsStay /\ InOrder'
  BY <1>1, <1>3, OutsideOrder DEF RowsStay
<1>5. CASE i \in Moves
  <2>1. Src(i) \in Paths /\ Dst(i) \in Paths /\ Kind(i) \notin {"mkdir", "rmdir", "tag"}
    BY <1>5, StepTypes DEF Moves, MoveKinds
  <2>2. UNCHANGED backup /\ dirs \subseteq dirs'
    BY <1>2, <2>1 DEF RollsBack, ReversedMove, Renamed, NotRenamed
  <2>3. \/ fs' = fs
        \/ fs' = [fs EXCEPT ![Dst(i)] = NoCopy, ![Src(i)] = fs[Dst(i)]]
        \/ fs' = [fs EXCEPT ![Src(i)] = fs[Dst(i)]]
    BY <1>2, <2>1 DEF RollsBack, ReversedMove, Renamed, NotRenamed
  <2> QED
    BY <1>1, <1>3, <1>4, <1>5, <2>1, <2>2, <2>3, MovesApart DEF Journaled
<1>6. CASE Kind(i) = "tag"
  <2>1. i \in TagOps /\ i \notin Moves /\ Dst(i) \in Paths
    BY <1>3, <1>6, StepTypes DEF TagOps, Moves, MoveKinds
  <2>2. /\ \A p \in Paths : p # Dst(i) => fs'[p] = fs[p]
        /\ dirs \subseteq dirs'
        /\ \A j \in Ops : j # i => backup'[j] = backup[j]
    BY <1>1, <1>2, <1>6, <2>1 DEF RollsBack, RestoreTags, NotRestored, FsTypes, TypeOK
  <2> QED
    BY <1>1, <1>3, <1>4, <2>1, <2>2, TagsApart DEF Journaled
<1>7. CASE Kind(i) \in {"mkdir", "rmdir"}
  <2>1. UNCHANGED <<fs, backup>> /\ i \notin Moves
    BY <1>2, <1>7 DEF RollsBack, Moves, MoveKinds
  <2>2. ASSUME NEW j \in Ops, Kind(j) = "mkdir", row'[j] = "none", Dst(j) \in dirs'
        PROVE  Dst(j) \in dirs
    <3>1. row[j] = "none" /\ j # i /\ (Kind(i) = "rmdir" => j < i)
      BY <1>1, <1>3, <2>2, PlanAssumption
    <3>2. Kind(i) = "mkdir"
      BY <1>1, <1>3, <1>7, <3>1, Earlier DEF Journaled
    <3> QED
      BY <1>2, <2>1, <2>2, <3>2 DEF RollsBack
  <2>3. ASSUME NEW j \in Ops, Kind(j) = "rmdir", row'[j] = "none", Dst(j) \in dirs
        PROVE  Dst(j) \in dirs'
    <3>1. Dst(j) \notin Created
      BY <2>3, PlanAssumption
    <3>2. Kind(i) = "mkdir" => Dst(i) # Dst(j)
      BY <1>3, <3>1 DEF Created
    <3> QED
      BY <1>2, <1>7, <2>1, <2>3, <3>2 DEF RollsBack
  <2> QED
    BY <1>1, <1>4, <2>1, <2>2, <2>3, FoldersApart DEF Journaled
<1> QED
  BY <1>3, <1>5, <1>6, <1>7, Kinded

\* So does an undo.
LEMMA UndoJournaled == JInv /\ UndoAct => Journaled'
<1> SUFFICES ASSUME JInv, UndoAct PROVE Journaled'
  OBVIOUS
<1>1. /\ TypeOK /\ Journaled /\ phase' # "exec" /\ job' # "queued" /\ fs \in FsTypes
      /\ UNCHANGED <<backup, row, pos, completed>>
  BY DEF JInv, IInv, TypeOK, FsTypes, Fresh, UndoAct, Undoes, UndoFails, journal
<1>2. PICK i \in Newest(Pending) : Undoes(i)
  BY DEF UndoAct
<1>3. i \in Ops /\ row[i] # "none"
  BY DEF Newest, Pending
<1>4. RowsStay /\ InOrder'
  BY <1>1, OutsideOrder DEF RowsStay
<1>5. CASE i \in Moves
  <2>1. Src(i) \in Paths /\ Dst(i) \in Paths /\ Kind(i) \notin {"mkdir", "rmdir", "tag"}
    BY <1>5, StepTypes DEF Moves, MoveKinds
  <2>2. dirs \subseteq dirs'
    BY <1>2, <2>1 DEF Undoes, ReversedMove, Renamed, NotRenamed
  <2>3. \/ fs' = fs
        \/ fs' = [fs EXCEPT ![Dst(i)] = NoCopy, ![Src(i)] = fs[Dst(i)]]
        \/ fs' = [fs EXCEPT ![Src(i)] = fs[Dst(i)]]
    BY <1>2, <2>1 DEF Undoes, ReversedMove, Renamed, NotRenamed
  <2> QED
    BY <1>1, <1>3, <1>4, <1>5, <2>1, <2>2, <2>3, MovesApart DEF Journaled
<1>6. CASE Kind(i) = "tag"
  <2>1. i \in TagOps /\ i \notin Moves /\ Dst(i) \in Paths
    BY <1>3, <1>6, StepTypes DEF TagOps, Moves, MoveKinds
  <2>2. /\ \A p \in Paths : p # Dst(i) => fs'[p] = fs[p]
        /\ dirs \subseteq dirs'
    BY <1>1, <1>2, <1>6, <2>1 DEF Undoes, RestoreTags, NotRestored, FsTypes
  <2> QED
    BY <1>1, <1>3, <1>4, <2>1, <2>2, TagsApart DEF Journaled
<1>7. CASE Kind(i) \in {"mkdir", "rmdir"}
  <2>1. UNCHANGED fs /\ i \notin Moves
    BY <1>2, <1>7 DEF Undoes, Moves, MoveKinds
  <2>2. ASSUME NEW j \in Ops, Kind(j) = "mkdir", row'[j] = "none", Dst(j) \in dirs'
        PROVE  Dst(j) \in dirs
    <3>1. row[j] = "none" /\ j # i /\ (Kind(i) = "rmdir" => j < i)
      BY <1>1, <1>3, <2>2, PlanAssumption
    <3>2. Kind(i) = "mkdir"
      BY <1>1, <1>3, <1>7, <3>1, Earlier DEF Journaled
    <3> QED
      BY <1>2, <2>1, <2>2, <3>2 DEF Undoes
  <2>3. ASSUME NEW j \in Ops, Kind(j) = "rmdir", row'[j] = "none", Dst(j) \in dirs
        PROVE  Dst(j) \in dirs'
    <3>1. Dst(j) \notin Created
      BY <2>3, PlanAssumption
    <3>2. Kind(i) = "mkdir" => Dst(i) # Dst(j)
      BY <1>3, <3>1 DEF Created
    <3> QED
      BY <1>2, <1>7, <2>1, <2>3, <3>2 DEF Undoes
  <2> QED
    BY <1>1, <1>4, <2>1, <2>2, <2>3, FoldersApart DEF Journaled
<1> QED
  BY <1>3, <1>5, <1>6, <1>7, Kinded

\* The row of a step that was reversed is flipped, or was not.
LEMMA MarksJournaled == JInv /\ (RollbackMark \/ UndoMark) => Journaled'
<1> SUFFICES ASSUME JInv, RollbackMark \/ UndoMark PROVE Journaled'
  OBVIOUS
<1>1. /\ TypeOK /\ Journaled /\ job' # "queued" /\ phase' # "exec"
      /\ UNCHANGED <<fs, dirs, pos>> /\ completed' \subseteq completed
  BY DEF JInv, IInv, Fresh, RollbackMark, UndoMark, UndoFails, disk, jobs
<1>2. \A i \in Ops : backup'[i] \in {backup[i], NoCopy}
  BY <1>1 DEF RollbackMark, UndoMark, disk, TypeOK
<1>3. UNCHANGED row \/ \E i \in Ops : row[i] # "none" /\ Mark(i, "reverted")
  BY <1>1 DEF RollbackMark, UndoMark, Newest, Pending, Journaled, InOrder, TypeOK
<1> QED
  BY <1>1, <1>2, <1>3, QuietJournaled, FlipJournaled

\* A job is canceled, or nothing happens.
LEMMA CancelJournaled == JInv /\ (Cancel \/ UNCHANGED vars) => Journaled'
<1> SUFFICES ASSUME JInv, Cancel \/ UNCHANGED vars PROVE Journaled'
  OBVIOUS
<1>1. UNCHANGED <<fs, dirs, backup, row, pos, sub, completed, job, phase>>
  BY DEF Cancel, vars, disk, journal, jobs, control
<1> QED
  BY <1>1 DEF JInv, Journaled, InOrder, AllOld, NoEffect, NotMoved, NotMade, NotPruned,
              NotTagged, Ops, Moves, TagOps, Kind, Dst

\* A file that somebody drops is none of the run's.
LEMMA DropJournaled == JInv /\ DropFile => Journaled'
<1> SUFFICES ASSUME JInv, DropFile PROVE Journaled'
  OBVIOUS
<1>1. PICK p \in Paths \ Temps, x \in Foreign : fs' = [fs EXCEPT ![p] = [file |-> x, tags |-> "old"]]
  BY DEF DropFile
<1>2. fs \in FsTypes /\ UNCHANGED <<dirs, backup, row, pos, sub, completed, job, phase>>
  BY DEF JInv, IInv, TypeOK, FsTypes, DropFile, journal, jobs, control
<1>3. \A r \in Paths : fs'[r] = fs[r] \/ fs'[r] = [file |-> x, tags |-> "old"]
  BY <1>1, <1>2 DEF FsTypes
<1>4. InOrder' /\ NotMade' /\ NotPruned'
  BY <1>2 DEF JInv, Journaled, NoEffect, InOrder, NotMade, NotPruned, Ops, Kind, Dst
<1>5. AllOld'
  BY <1>2, <1>3 DEF JInv, Journaled, AllOld, TagOps, Ops, Kind
<1>6. NotMoved'
  BY <1>2, <1>3, StepTypes, OrganizeAssumption
     DEF JInv, Journaled, NoEffect, NotMoved, Moves, Ops, Kind, Dst
<1>7. NotTagged'
  BY <1>2, <1>3, StepTypes DEF JInv, Journaled, NoEffect, NotTagged, TagOps, Ops, Kind, Dst
<1> QED
  BY <1>4, <1>5, <1>6, <1>7 DEF Journaled, NoEffect

-----------------------------------------------------------------------------

\* Every step keeps the journal ahead of the disk.
THEOREM NextJInv == JInv /\ [Next]_vars => JInv'
<1> SUFFICES ASSUME JInv, [Next]_vars PROVE JInv'
  OBVIOUS
<1>1. IInv'
  BY NextIInv DEF JInv
<1>2. Journaled'
  BY StartRunJournaled, InsertOpJournaled, MkdirJournaled, RmdirJournaled, MovesJournaled,
     TagsJournaled, MarkDoneJournaled, EndsJournaled, RollbackJournaled, UndoJournaled,
     MarksJournaled, CancelJournaled, DropJournaled
     DEF Next, Program, Execute, Rollback, Undo
<1> QED
  BY <1>1, <1>2 DEF JInv

\* The invariant holds throughout every run.
THEOREM JournalInvariance == Spec => []JInv
<1>1. Init => JInv
  BY InitIInv, InitJournaled DEF JInv
<1>2. JInv /\ [Next]_vars => JInv'
  BY NextJInv
<1> QED
  BY <1>1, <1>2, PTL DEF Spec

\* Whatever step is not in the journal has left no effect on the disk: what a crash,
\* at whatever instant, leaves behind is covered by the rows that undo reads.
THEOREM JournalFirst == Spec => []WriteAhead
<1>1. JInv => WriteAhead
  <2> SUFFICES ASSUME JInv, NEW i \in Ops, row[i] = "none" PROVE Untouched(i)
    BY DEF WriteAhead
  <2>1. CASE i \in Moves
    BY <2>1 DEF JInv, Journaled, NoEffect, NotMoved, Untouched, Moves, MoveKinds
  <2>2. CASE Kind(i) \in {"mkdir", "rmdir", "tag"}
    BY <2>2 DEF JInv, Journaled, NoEffect, NotMade, NotPruned, NotTagged, Untouched,
                TagOps, Moves, MoveKinds
  <2> QED
    BY <2>1, <2>2, Kinded
<1> QED
  BY <1>1, JournalInvariance, PTL

-----------------------------------------------------------------------------
(* Where a file is when the steps of a set are in effect. *)

\* The path a file is at once the steps of S have been carried out: its new one, the
\* temporary name between two legs, or still its old one.
FirstStop(f) == Dst(CHOOSE i \in Moves : Src(i) = Old[f])
Place(f, S) == IF \E i \in Moves \cap S : Dst(i) = New[f] THEN New[f]
               ELSE IF \E i \in Moves \cap S : Src(i) = Old[f] THEN FirstStop(f)
               ELSE Old[f]

\* In the file system d every file of the run is at the place S gives it.
Held(d, S) == \A f \in Files : d[Place(f, S)].file = f

-----------------------------------------------------------------------------
(* The inductive invariant. *)

\* The run, its rollback as long as that reported no error, and what they leave.
RunOver == phase = "idle" /\ job \in {"failed", "canceled"} /\ undos = 0
OnTrack == job = "queued" \/ phase = "exec" \/ (~rbErr /\ (phase = "rollback" \/ RunOver))

\* The steps in effect: rollback has already reversed the one it is about to mark.
Eff == IF phase = "rollback" /\ sub = "mark" THEN completed \ Newest(completed) ELSE completed

\* Which job states go with what the goroutine does.
Jobs ==
  /\ phase \in {"exec", "cleanup", "rollback"} => job = "running"
  /\ phase = "undo" => job \in {"done", "failed", "canceled"} /\ undos > 0
  /\ job = "queued" => undos = 0
  /\ job = "queued" \/ (phase = "idle" /\ OnTrack) => completed = {}
  /\ phase = "rollback" => sub \in {"act", "mark"}
  /\ phase = "undo" /\ sub \in {"restore", "marksnap"} => Pending = {}

\* Moves are carried out, and folders made, without a gap; rollback takes the steps
\* back from the end.
Ground == {i \in Ops : i \in Moves \/ Kind(i) = "mkdir"}
Gapless ==
  /\ \A i \in completed, j \in Ground : j < i => j \in completed
  /\ phase = "exec" =>
       /\ \A j \in Ground : j < pos \/ (j = pos /\ sub = "mark") => j \in completed
       /\ \A j \in completed : j < pos \/ (j = pos /\ sub = "mark" /\ j \notin TagOps)
       /\ \A j \in Moves : j < pos => row[j] = "done"
  /\ OnTrack => Pending \subseteq completed

\* The files are where the steps in effect have put them.
Located == OnTrack => Held(fs, Eff)

\* The folders are those the steps in effect have left.
Built(ds, S) ==
  /\ \A d \in InitialDirs : d \in ds \/ \E i \in S : Kind(i) = "rmdir" /\ Dst(i) = d
  /\ \A d \in Created \cap ds : \E i \in S : Kind(i) = "mkdir" /\ Dst(i) = d
Folders == OnTrack => Built(dirs, Eff)

\* A backup is of the file its step is about, as it was before the run; a tag write
\* in effect still has its own.
BackedUp ==
  /\ \A i \in TagOps : backup[i] # NoCopy =>
       backup[i].tags = "old" /\ \E f \in Files : New[f] = Dst(i) /\ backup[i].file = f
  /\ OnTrack => \A i \in TagOps : /\ i \in completed => row[i] = "done"
                                  /\ i \in Eff => backup[i] # NoCopy
  /\ phase = "exec" /\ pos \in TagOps =>
       /\ sub = "act" => fs[Dst(pos)].tags \in {"old", "none"}
       /\ sub = "mark" => backup[pos] # NoCopy

\* A file has new tags only through a tag write in effect, or one that failed late.
Known(S) == \A f \in Files : \/ fs[Place(f, S)].tags = "old"
                             \/ KeptNewTags(f)
                             \/ \E i \in TagOps \cap S : Dst(i) = New[f]
TagsKnown == OnTrack => Known(Eff)

\* Book rows and snapshots change only when the whole run has gone through.
Uncommitted ==
  OnTrack \/ phase = "rollback" \/ job \in {"failed", "canceled"} =>
    \A b \in Books : snap[b] = "none" /\ book[b].at = "old"

\* After a run that went through, undo has put back the last of the moves: all but those
\* still to reverse, or, its row not flipped, one more.
Committed == job = "done" \/ phase = "cleanup"
Left == IF phase = "undo" /\ sub = "mark" THEN Pending \ Newest(Pending) ELSE Pending
Retreating ==
  /\ Committed =>
       /\ Held(fs, Left) \/ \E i \in Newest(Pending) \cap Moves : Held(fs, Pending \ {i})
       /\ \A i \in Pending, j \in Moves : j < i => j \in Pending
  /\ phase = "cleanup" => Moves \subseteq Pending

Returns == /\ Jobs /\ Gapless /\ Located /\ Folders /\ BackedUp /\ TagsKnown
           /\ Uncommitted /\ Retreating
RInv == JInv /\ Returns

-----------------------------------------------------------------------------
(* Places. *)

\* A step of a file's way: the whole of it, or one leg.
Carries(f, i) == /\ Old[f] # New[f]
                 /\ MovedBy(f, i) \/ FixedBy(f, i) \/ (i - 1 \in Moves /\ FixedBy(f, i - 1))

\* The ends of a step of one file are no places of another.
LEMMA EndsOfOthers ==
  ASSUME NEW i \in Moves, NEW f \in Files, Carries(f, i), NEW g \in Files, g # f
  PROVE  Dst(i) # New[g] /\ Src(i) # Old[g]
<1>1. Dst(i) = New[f] \/ Dst(i) \in Temps
  BY StepTypes, OrganizeAssumption DEF Carries, MovedBy, FixedBy, Moves, Ops
<1>2. Src(i) = Old[f] \/ Src(i) \in Temps
  BY StepTypes, OrganizeAssumption DEF Carries, MovedBy, FixedBy, Moves, Ops
<1>3. New[g] \notin Temps /\ Old[g] \notin Temps
  BY OrganizeAssumption
<1> QED
  BY <1>1, <1>2, <1>3, PlanAssumption

\* A step takes its file from the place the steps before it give that file to the
\* place it has with the step, and no other file's place changes.
LEMMA Placed ==
  ASSUME NEW S \in SUBSET Ops, NEW i \in Moves, i \notin S,
         Kind(i) = "leg2" => i - 1 \in S, Kind(i) = "leg1" => i + 1 \notin S
  PROVE  \E f \in Files :
           /\ Place(f, S) = Src(i) /\ Place(f, S \cup {i}) = Dst(i)
           /\ \A g \in Files : g # f => Place(g, S \cup {i}) = Place(g, S)
<1>1. PICK f \in Files : Carries(f, i)
  BY MoveShape DEF Carries
<1>2. ASSUME NEW g \in Files, g # f PROVE Place(g, S \cup {i}) = Place(g, S)
  <2>1. Dst(i) # New[g] /\ Src(i) # Old[g]
    BY <1>1, <1>2, EndsOfOthers
  <2>2. (\E j \in Moves \cap (S \cup {i}) : Dst(j) = New[g]) <=> \E j \in Moves \cap S : Dst(j) = New[g]
    BY <2>1
  <2>3. (\E j \in Moves \cap (S \cup {i}) : Src(j) = Old[g]) <=> \E j \in Moves \cap S : Src(j) = Old[g]
    BY <2>1
  <2> QED
    BY <2>2, <2>3 DEF Place
<1>3. \A j, k \in Moves : Src(j) = Src(k) \/ Dst(j) = Dst(k) => j = k
  BY PlanAssumption
<1>4. i \in Nat /\ i \in Ops
  BY StepTypes
<1>5. CASE MovedBy(f, i)
  <2>1. Place(f, S) = Old[f]
    BY <1>3, <1>5 DEF Place, MovedBy
  <2>2. Place(f, S \cup {i}) = New[f]
    BY <1>5 DEF Place, MovedBy
  <2> QED
    BY <1>2, <1>5, <2>1, <2>2 DEF MovedBy
<1>6. CASE FixedBy(f, i)
  <2>1. \A j \in Moves \cap (S \cup {i}) : Dst(j) # New[f]
    BY <1>3, <1>4, <1>6 DEF FixedBy
  <2>2. Place(f, S) = Old[f]
    BY <1>3, <1>6, <2>1 DEF Place, FixedBy
  <2>3. FirstStop(f) = Dst(i)
    BY <1>3, <1>6 DEF FirstStop, FixedBy
  <2>4. Place(f, S \cup {i}) = Dst(i)
    BY <1>6, <2>1, <2>3 DEF Place, FixedBy
  <2> QED
    BY <1>2, <1>6, <2>2, <2>4 DEF FixedBy
<1>7. CASE i - 1 \in Moves /\ FixedBy(f, i - 1)
  <2>1. /\ Kind(i) = "leg2" /\ Src(i) = Dst(i - 1) /\ Dst(i) = New[f] /\ i - 1 \in S
        /\ Src(i - 1) = Old[f]
    BY <1>4, <1>7 DEF FixedBy
  <2>2. \A j \in Moves \cap S : Dst(j) # New[f]
    BY <1>3, <2>1
  <2>3. FirstStop(f) = Dst(i - 1)
    BY <1>3, <1>7, <2>1 DEF FirstStop
  <2>4. Place(f, S) = Src(i)
    BY <1>7, <2>1, <2>2, <2>3 DEF Place
  <2>5. Place(f, S \cup {i}) = Dst(i)
    BY <2>1 DEF Place
  <2> QED
    BY <1>2, <2>4, <2>5
<1> QED
  BY <1>1, <1>5, <1>6, <1>7 DEF Carries

\* Without steps every file is at its old place, with all of them at its new one.
LEMMA Extremes ==
  ASSUME NEW S, NEW f \in Files
  PROVE  /\ Moves \cap S = {} => Place(f, S) = Old[f]
         /\ Moves \subseteq S => Place(f, S) = New[f]
<1>1. Moves \cap S = {} => Place(f, S) = Old[f]
  BY DEF Place
<1>2. ASSUME Moves \subseteq S PROVE Place(f, S) = New[f]
  <2>1. CASE Old[f] = New[f]
    <3>1. \A i \in Moves : Src(i) # Old[f]
      <4> SUFFICES ASSUME NEW i \in Moves, Src(i) = Old[f] PROVE FALSE
        OBVIOUS
      <4>1. PICK g \in Files : Carries(g, i)
        BY MoveShape DEF Carries
      <4>2. g # f
        BY <2>1, <4>1 DEF Carries
      <4> QED
        BY <4>1, <4>2, EndsOfOthers
    <3> QED
      BY <2>1, <3>1 DEF Place
  <2>2. CASE Old[f] # New[f]
    <3>1. PICK i \in Moves : MovedBy(f, i) \/ FixedBy(f, i)
      BY <2>2, PlanAssumption
    <3>2. \E j \in Moves \cap S : Dst(j) = New[f]
      BY <1>2, <3>1 DEF MovedBy, FixedBy
    <3> QED
      BY <3>2 DEF Place
  <2> QED
    BY <2>1, <2>2
<1> QED
  BY <1>1, <1>2

\* Only moves matter.
LEMMA OnlyMoves ==
  ASSUME NEW S, NEW T, Moves \cap S = Moves \cap T, NEW f \in Files
  PROVE  Place(f, S) = Place(f, T)
BY DEF Place

\* A place is a path of the library.
LEMMA PlacesArePaths ==
  ASSUME NEW S, NEW f \in Files PROVE Place(f, S) \in Paths
<1>1. Old[f] \in Paths /\ New[f] \in Paths
  BY OrganizeAssumption
<1>2. ASSUME NEW i \in Moves, Src(i) = Old[f] PROVE FirstStop(f) \in Paths
  BY <1>2, StepTypes DEF FirstStop
<1> QED
  BY <1>1, <1>2 DEF Place

\* While no path gets another file of the run, the files stay at their places.
LEMMA HeldKeeps ==
  ASSUME NEW d, NEW e, NEW S, Held(d, S),
         \A p \in Paths : d[p].file \in Files => e[p].file = d[p].file
  PROVE  Held(e, S)
BY PlacesArePaths DEF Held

\* A file that a step is to take is where the step looks for it.
LEMMA HeldAtSrc ==
  ASSUME NEW d, NEW S \in SUBSET Ops, NEW i \in Moves, i \notin S,
         Kind(i) = "leg2" => i - 1 \in S, Kind(i) = "leg1" => i + 1 \notin S,
         Held(d, S)
  PROVE  d[Src(i)].file \in Files
BY Placed DEF Held

\* A file that a step took is where the step has put it.
LEMMA HeldAtDst ==
  ASSUME NEW d, NEW S \in SUBSET Ops, NEW i \in Moves, i \in S,
         Kind(i) = "leg2" => i - 1 \in S, Kind(i) = "leg1" => i + 1 \notin S,
         Held(d, S)
  PROVE  d[Dst(i)].file \in Files
<1> DEFINE T == S \ {i}
<1>1. T \in SUBSET Ops /\ i \notin T /\ S = T \cup {i} /\ i - 1 # i /\ i + 1 # i
  BY StepTypes
<1> HIDE DEF T
<1>2. PICK f \in Files : Place(f, S) = Dst(i)
  BY <1>1, Placed
<1> QED
  BY <1>2 DEF Held

\* The file system after a rename.
Moved(d, p, q) == [d EXCEPT ![p] = NoCopy, ![q] = d[p]]

\* A rename to a free path carries the step out: every file has moved with its tags
\* to the place it has now.
LEMMA Advance ==
  ASSUME NEW d \in FsTypes, NEW S \in SUBSET Ops, NEW i \in Moves, i \notin S,
         Kind(i) = "leg2" => i - 1 \in S, Kind(i) = "leg1" => i + 1 \notin S,
         Held(d, S), d[Dst(i)] = NoCopy
  PROVE  \A f \in Files : Moved(d, Src(i), Dst(i))[Place(f, S \cup {i})] = d[Place(f, S)]
<1> DEFINE e == Moved(d, Src(i), Dst(i))
<1>1. PICK f \in Files :
        /\ Place(f, S) = Src(i) /\ Place(f, S \cup {i}) = Dst(i)
        /\ \A g \in Files : g # f => Place(g, S \cup {i}) = Place(g, S)
  BY Placed
<1>2. e[Dst(i)] = d[Src(i)] /\ \A p \in Paths : p \notin {Src(i), Dst(i)} => e[p] = d[p]
  BY StepTypes DEF FsTypes, Moved
<1>3. ASSUME NEW g \in Files, g # f PROVE Place(g, S) \notin {Src(i), Dst(i)}
  <2>1. d[Place(g, S)].file = g /\ d[Src(i)].file = f
    BY <1>1 DEF Held
  <2> QED
    BY <1>3, <2>1, FreeHoldsNothing
<1> QED
  BY <1>1, <1>2, <1>3, PlacesArePaths

\* A rename back to a free path takes the step back.
LEMMA Retreat ==
  ASSUME NEW d \in FsTypes, NEW S \in SUBSET Ops, NEW i \in Moves, i \in S,
         Kind(i) = "leg2" => i - 1 \in S, Kind(i) = "leg1" => i + 1 \notin S,
         Held(d, S), d[Src(i)] = NoCopy
  PROVE  \A f \in Files : Moved(d, Dst(i), Src(i))[Place(f, S \ {i})] = d[Place(f, S)]
<1> DEFINE T == S \ {i}
           e == Moved(d, Dst(i), Src(i))
<1>0. T \in SUBSET Ops /\ i \notin T /\ S = T \cup {i} /\ i - 1 # i /\ i + 1 # i
  BY StepTypes
<1> HIDE DEF T
<1>1. PICK f \in Files :
        /\ Place(f, T) = Src(i) /\ Place(f, S) = Dst(i)
        /\ \A g \in Files : g # f => Place(g, S) = Place(g, T)
  BY <1>0, Placed
<1>2. e[Src(i)] = d[Dst(i)] /\ \A p \in Paths : p \notin {Src(i), Dst(i)} => e[p] = d[p]
  <2>1. d[Dst(i)].file = f
    BY <1>1 DEF Held
  <2>2. Dst(i) # Src(i)
    BY <2>1, FreeHoldsNothing
  <2> QED
    BY <2>2, StepTypes DEF FsTypes, Moved
<1>3. ASSUME NEW g \in Files, g # f PROVE Place(g, S) \notin {Src(i), Dst(i)}
  <2>1. d[Place(g, S)].file = g /\ d[Dst(i)].file = f
    BY <1>1 DEF Held
  <2> QED
    BY <1>3, <2>1, FreeHoldsNothing
<1>4. \A g \in Files : e[Place(g, T)] = d[Place(g, S)]
  BY <1>1, <1>2, <1>3, PlacesArePaths
<1> QED
  BY <1>4 DEF T

-----------------------------------------------------------------------------
(* Execute. *)

\* While Execute is in its loops, all that was carried out is in effect.
LEMMA OnExec ==
  ASSUME RInv, phase = "exec"
  PROVE  /\ TypeOK /\ Journaled /\ fs \in FsTypes /\ completed \in SUBSET Ops /\ pos \in Nat
         /\ job = "running" /\ ~Committed /\ OnTrack /\ Eff = completed
         /\ Held(fs, completed) /\ Built(dirs, completed) /\ Known(completed)
         /\ Gapless /\ BackedUp
<1>1. /\ TypeOK /\ Journaled /\ Returns
      /\ fs \in FsTypes /\ completed \in SUBSET Ops /\ pos \in Nat
  BY StepTypes DEF RInv, JInv, IInv, TypeOK, FsTypes
<1>2. job = "running" /\ ~Committed /\ OnTrack /\ Eff = completed
  BY <1>1 DEF Returns, Jobs, Committed, OnTrack, Eff
<1> QED
  BY <1>1, <1>2 DEF Returns, Located, Folders, TagsKnown

\* What an action of Execute's loops has to keep, whether it goes on or gives up.
LEMMA ExecReturns ==
  ASSUME RInv, phase = "exec", UNCHANGED <<snap, book, job>>,
         phase' = "exec" \/ (phase' = "rollback" /\ sub' = "act"),
         Gapless', BackedUp', Held(fs', completed'), Built(dirs', completed'), Known(completed)'
  PROVE  Returns'
<1>1. job' = "running" /\ OnTrack /\ Eff' = completed'
  BY OnExec DEF Eff
<1>2. Jobs' /\ Retreating'
  BY <1>1 DEF Jobs, Retreating, Committed, OnTrack, RunOver
<1>3. Uncommitted'
  BY <1>1 DEF RInv, Returns, Uncommitted
<1>4. Located' /\ Folders' /\ TagsKnown'
  BY <1>1 DEF Located, Folders, TagsKnown
<1> QED
  BY <1>2, <1>3, <1>4 DEF Returns

\* A late failure is not forgotten while its row stays.
LEMMA KnownKeeps ==
  ASSUME NEW f \in Files, KeptNewTags(f),
         \A i \in TagOps : row[i] \in {"pending", "failed"} => row'[i] \in {"pending", "failed"}
  PROVE  KeptNewTags(f)'
BY DEF KeptNewTags, TagOps, Ops, Kind, Dst

\* Acting on a step.
LEMMA ActingReturns ==
  ASSUME RInv, NEW kinds \in SUBSET Kinds, Acting(kinds)
  PROVE  /\ phase = "exec" /\ sub = "act" /\ pos \in Ops /\ Kind(pos) \in kinds
         /\ row[pos] = "pending" /\ pos \notin completed
         /\ \A i \in completed : i < pos
         /\ \A i \in Ground : i < pos => i \in completed
<1>1. phase = "exec" /\ sub = "act" /\ pos \in Ops /\ Kind(pos) \in kinds /\ row[pos] = "pending"
  BY ActingPending DEF RInv
<1>2. Gapless /\ pos \in Nat
  BY <1>1, OnExec
<1> QED
  BY <1>1, <1>2 DEF Gapless

\* A step other than a tag write is carried out.
LEMMA AppliedGapless ==
  ASSUME RInv, Acting(Kinds), pos \notin TagOps, Applied, UNCHANGED pos
  PROVE  /\ Gapless' /\ completed' = completed \cup {pos} /\ phase' = "exec"
         /\ \A f \in Files : KeptNewTags(f) => KeptNewTags(f)'
<1>1. /\ phase = "exec" /\ sub = "act" /\ pos \in Ops /\ Gapless /\ OnTrack /\ pos \in Nat
      /\ \A i \in completed : i < pos /\ i \in Nat
      /\ \A i \in Ground : i < pos => i \in completed
  BY ActingReturns, OnExec, StepTypes
<1>2. completed' = completed \cup {pos} /\ sub' = "mark" /\ UNCHANGED <<row, phase>>
  BY DEF Applied
<1>3. Pending' = Pending
  BY <1>2 DEF Pending, Ops
<1>4. Gapless'
  <2>1. \A i \in completed', j \in Ground : j < i => j \in completed'
    BY <1>1, <1>2 DEF Gapless
  <2>2. /\ \A j \in Ground : j < pos' \/ (j = pos' /\ sub' = "mark") => j \in completed'
        /\ \A j \in completed' : j < pos' \/ (j = pos' /\ sub' = "mark" /\ j \notin TagOps)
        /\ \A j \in Moves : j < pos' => row'[j] = "done"
    BY <1>1, <1>2 DEF Gapless
  <2>3. Pending' \subseteq completed'
    BY <1>1, <1>2, <1>3 DEF Gapless
  <2> QED
    BY <2>1, <2>2, <2>3 DEF Gapless, Ground, Moves, TagOps, Ops, Kind
<1> QED
  BY <1>1, <1>2, <1>4, KnownKeeps

\* A step fails.
LEMMA AbortGapless ==
  ASSUME RInv, Acting(Kinds), UNCHANGED pos, NEW k \in {0, 1}, Abort(k)
  PROVE  /\ Gapless' /\ UNCHANGED completed /\ phase' = "rollback" /\ sub' = "act"
         /\ \A f \in Files : KeptNewTags(f) => KeptNewTags(f)'
         /\ row'[pos] \in {"pending", "failed"} /\ \A j \in Ops : j # pos => row'[j] = row[j]
<1>1. /\ phase = "exec" /\ pos \in Ops /\ Gapless /\ OnTrack /\ TypeOK /\ row[pos] = "pending"
  BY ActingReturns, OnExec
<1>2. UNCHANGED row \/ Mark(pos, "failed")
  BY DEF Abort, JournalFailure
<1>3. row'[pos] \in {"pending", "failed"} /\ \A j \in Ops : j # pos => row'[j] = row[j]
  BY <1>1, <1>2, MarkRows
<1>4. Pending' \subseteq Pending
  BY <1>3 DEF Pending, Ops
<1>5. UNCHANGED completed /\ phase' = "rollback" /\ sub' = "act"
  BY DEF Abort, GiveUp
<1>6. Gapless'
  BY <1>1, <1>4, <1>5 DEF Gapless, Ground, Moves, TagOps, Ops, Kind
<1>7. \A f \in Files : KeptNewTags(f) => KeptNewTags(f)'
  BY <1>3, KnownKeeps, StepTypes
<1> QED
  BY <1>3, <1>5, <1>6, <1>7

\* Backups and the rows of tag writes are left alone.
LEMMA BackedUpKeeps ==
  ASSUME RInv, phase = "exec", UNCHANGED backup, \A i \in Ops : i # pos => row'[i] = row[i],
         phase' = "exec" \/ (phase' = "rollback" /\ sub' = "act"),
         phase' = "exec" => pos' \notin TagOps,
         \A i \in TagOps \cap completed' : i \in completed /\ i # pos
  PROVE  BackedUp'
<1>1. BackedUp /\ OnTrack /\ Eff = completed /\ Eff' = completed'
  BY OnExec DEF Eff
<1>2. \A i \in TagOps : backup[i] # NoCopy =>
        backup[i].tags = "old" /\ \E f \in Files : New[f] = Dst(i) /\ backup[i].file = f
  BY <1>1 DEF BackedUp
<1>3. \A i \in TagOps : /\ i \in completed' => row'[i] = "done"
                        /\ i \in completed' => backup'[i] # NoCopy
  BY <1>1, StepTypes DEF BackedUp
<1> QED
  BY <1>1, <1>2, <1>3 DEF BackedUp, TagOps, Ops, Kind, Dst

\* The row of the current step is inserted, or the run is given up.
LEMMA InsertOpReturns == RInv /\ InsertOp => Returns'
<1> SUFFICES ASSUME RInv, InsertOp PROVE Returns'
  OBVIOUS
<1>1. /\ phase = "exec" /\ sub = "insert" /\ pos \in Ops
      /\ UNCHANGED <<fs, dirs, backup, snap, book, job, pos, completed>>
  BY DEF InsertOp, disk, jobs
<1>2. /\ TypeOK /\ Journaled /\ Gapless /\ BackedUp /\ OnTrack /\ Eff = completed
      /\ Held(fs, completed) /\ Built(dirs, completed) /\ Known(completed)
      /\ job = "running" /\ pos \in Nat
  BY <1>1, OnExec
<1>3. row[pos] = "none"
  BY <1>1, <1>2 DEF Journaled, InOrder
<1>4. /\ \A i \in Ops : i # pos => row'[i] = row[i]
      /\ row'[pos] \in {"none", "pending"}
      /\ \/ phase' = "exec" /\ sub' = "act"
         \/ phase' = "rollback" /\ sub' = "act"
  BY <1>1, <1>2, <1>3, MarkRows DEF InsertOp, GiveUp
<1>5. Pending' = Pending
  BY <1>3, <1>4 DEF Pending, Ops
<1>6. Gapless'
  BY <1>1, <1>2, <1>3, <1>4, <1>5, StepTypes DEF Gapless, Ground, Moves, TagOps, Ops, Kind
<1>7. Known(completed)'
  <2>1. \A f \in Files : KeptNewTags(f) => KeptNewTags(f)'
    BY <1>3, <1>4, KnownKeeps, StepTypes
  <2> QED
    BY <1>1, <1>2, <2>1, OnlyMoves DEF Known, TagOps, Ops, Kind, Dst, Place, Moves, FirstStop, Src
<1>8. BackedUp'
  <2>1. pos \in TagOps => fs[Dst(pos)].tags \in {"old", "none"}
    BY <1>2, <1>3 DEF Journaled, NoEffect, NotTagged
  <2>2. \A i \in TagOps \cap completed : i # pos
    BY <1>2, <1>3 DEF BackedUp
  <2>3. Eff' = completed
    BY <1>1, <1>4 DEF Eff
  <2>4. \A i \in TagOps : /\ i \in completed => row'[i] = "done"
                          /\ i \in completed => backup[i] # NoCopy
    BY <1>2, <1>4, <2>2, StepTypes DEF BackedUp
  <2> QED
    BY <1>1, <1>2, <1>4, <2>1, <2>3, <2>4 DEF BackedUp, TagOps, Ops, Kind, Dst
<1> QED
  BY <1>1, <1>2, <1>4, <1>6, <1>7, <1>8, ExecReturns

\* The run is given up at a cancellation.
LEMMA StopReturns ==
  ASSUME RInv, phase = "exec", GiveUp,
         UNCHANGED <<fs, dirs, backup, row, snap, book, job, pos, completed>>
  PROVE  Returns'
<1>1. /\ Gapless /\ BackedUp /\ OnTrack /\ Eff = completed
      /\ Held(fs, completed) /\ Built(dirs, completed) /\ Known(completed)
  BY OnExec
<1>2. Gapless'
  BY <1>1 DEF Gapless, GiveUp, Pending, Ground, Moves, TagOps, Ops, Kind
<1>3. BackedUp'
  BY <1>1 DEF BackedUp, GiveUp, Eff, TagOps, Ops, Kind, Dst
<1>4. Known(completed)'
  BY <1>1 DEF Known, KeptNewTags, TagOps, Ops, Kind, Dst, Place, Moves, FirstStop, Src
<1> QED
  BY <1>1, <1>2, <1>3, <1>4, ExecReturns DEF GiveUp

\* A folder is made; or it is not.
LEMMA MkdirReturns == RInv /\ Mkdir => Returns'
<1> SUFFICES ASSUME RInv, Mkdir PROVE Returns'
  OBVIOUS
<1>1. Acting({"mkdir"}) /\ UNCHANGED <<fs, backup, snap, book, jobs, pos>>
  BY DEF Mkdir
<1>2. /\ Acting(Kinds) /\ phase = "exec" /\ pos \in Ops /\ Kind(pos) = "mkdir"
      /\ pos \notin TagOps /\ pos \notin Moves /\ pos \in Nat
      /\ \A i \in completed : i < pos
      /\ \A i \in Ground : i < pos => i \in completed
  BY <1>1, ActingReturns, OnExec DEF Acting, Kinds, TagOps, Moves, MoveKinds
<1>3. /\ Held(fs, completed) /\ Built(dirs, completed) /\ Known(completed)
      /\ completed \in SUBSET Ops
  BY <1>2, OnExec
<1>4. CASE Applied /\ dirs' = dirs \cup Within[Dst(pos)]
  <2>1. /\ Gapless' /\ completed' = completed \cup {pos} /\ phase' = "exec" /\ UNCHANGED row
        /\ \A f \in Files : KeptNewTags(f) => KeptNewTags(f)'
    BY <1>1, <1>2, <1>4, AppliedGapless DEF Applied
  <2>2. \A f \in Files : Place(f, completed') = Place(f, completed)
    BY <1>2, <2>1, OnlyMoves
  <2>3. Held(fs', completed') /\ Known(completed)'
    BY <1>1, <1>3, <2>1, <2>2 DEF Held, Known, TagOps, Ops, Kind, Dst
  <2>4. BackedUp'
    BY <1>1, <1>2, <2>1, BackedUpKeeps
  <2>5. Built(dirs', completed')
    <3>1. ASSUME NEW d \in Created, d \in dirs'
          PROVE  \E i \in completed' : Kind(i) = "mkdir" /\ Dst(i) = d
      <4>1. PICK j \in Ops : Kind(j) = "mkdir" /\ Dst(j) = d
        BY <3>1 DEF Created
      <4>2. CASE j \in completed'
        BY <4>1, <4>2
      <4>3. CASE j \notin completed'
        <5>1. pos < j
          BY <1>2, <2>1, <4>1, <4>3, StepTypes DEF Ground
        <5>2. Dst(j) \notin Within[Dst(pos)]
          BY <1>2, <4>1, <5>1, PlanAssumption
        <5> QED
          BY <1>3, <1>4, <2>1, <3>1, <4>1, <5>2 DEF Built
      <4> QED
        BY <4>2, <4>3
    <3> QED
      BY <1>3, <1>4, <2>1, <3>1 DEF Built
  <2> QED
    BY <1>1, <1>2, <2>1, <2>3, <2>4, <2>5, ExecReturns DEF jobs
<1>5. CASE Abort(1) /\ UNCHANGED dirs
  <2>1. /\ Gapless' /\ UNCHANGED completed /\ phase' = "rollback" /\ sub' = "act"
        /\ \A f \in Files : KeptNewTags(f) => KeptNewTags(f)'
        /\ \A j \in Ops : j # pos => row'[j] = row[j]
    BY <1>1, <1>2, <1>5, AbortGapless
  <2>2. Known(completed)'
    BY <1>1, <1>3, <2>1 DEF Known, TagOps, Ops, Kind, Dst, Place, Moves, FirstStop, Src
  <2>3. BackedUp'
    BY <1>1, <1>2, <2>1, BackedUpKeeps
  <2> QED
    BY <1>1, <1>2, <1>3, <1>5, <2>1, <2>2, <2>3, ExecReturns DEF jobs
<1> QED
  BY <1>4, <1>5 DEF Mkdir

\* Once anything but a folder is carried out, every folder to be made has been.
LEMMA AllMade ==
  ASSUME NEW S \in SUBSET Ops, NEW ds, NEW es, Built(ds, S), ds \subseteq es, NEW i \in Ops,
         Kind(i) # "mkdir", \A j \in Ground : j < i => j \in S
  PROVE  Built(es, S)
<1>1. ASSUME NEW d \in Created PROVE \E j \in S : Kind(j) = "mkdir" /\ Dst(j) = d
  <2>1. PICK j \in Ops : Kind(j) = "mkdir" /\ Dst(j) = d
    BY DEF Created
  <2>2. j < i /\ j \in Ground
    BY <2>1, PlanAssumption DEF Ground
  <2> QED
    BY <2>1, <2>2
<1> QED
  BY <1>1 DEF Built

\* A second leg follows its first.
LEMMA LegTwo == \A i \in Moves : Kind(i) = "leg2" => i - 1 \in Moves
BY MoveShape DEF MovedBy, FixedBy

\* Whatever is at a free path, or somebody else's, no file of the run is.
LEMMA AwayFromOthers ==
  ASSUME NEW d \in FsTypes, NEW S, Held(d, S), NEW q \in Paths, d[q].file \notin Files,
         NEW e, \A p \in Paths : p # q => e[p] = d[p]
  PROVE  \A f \in Files : e[Place(f, S)] = d[Place(f, S)]
BY PlacesArePaths DEF Held

\* A file is moved, directly or by a leg of a case fix; or it is not.
LEMMA MovesReturn == RInv /\ (Move \/ CaseFixLeg1 \/ CaseFixLeg2) => Returns'
<1> SUFFICES ASSUME RInv, Move \/ CaseFixLeg1 \/ CaseFixLeg2 PROVE Returns'
  OBVIOUS
<1>1. /\ Acting({"move"}) \/ Acting({"leg1"}) \/ Acting({"leg2"})
      /\ UNCHANGED <<backup, snap, book, jobs, pos>>
  BY DEF Move, CaseFixLeg1, CaseFixLeg2
<1>2. /\ Acting(Kinds) /\ phase = "exec" /\ pos \in Ops /\ pos \in Moves
      /\ sub = "act" /\ pos \notin TagOps /\ pos \notin completed /\ Kind(pos) # "mkdir"
      /\ \A i \in completed : i < pos
      /\ \A i \in Ground : i < pos => i \in completed
  BY <1>1, ActingReturns DEF Acting, Kinds, TagOps, Moves, MoveKinds
<1>3. /\ Held(fs, completed) /\ Built(dirs, completed) /\ Known(completed)
      /\ completed \in SUBSET Ops /\ fs \in FsTypes /\ pos \in Nat
      /\ Src(pos) \in Paths /\ Dst(pos) \in Paths
  BY <1>2, OnExec, StepTypes
<1>4. /\ Kind(pos) = "leg2" => pos - 1 \in completed
      /\ Kind(pos) = "leg1" => pos + 1 \notin completed
  BY <1>2, <1>3, LegTwo DEF Ground, Moves
<1>5. dirs \subseteq dirs'
  BY DEF Move, CaseFixLeg1, CaseFixLeg2, Renamed, NotRenamed
<1>6. Kind(pos) = "leg1" => fs[Dst(pos)] = NoCopy
  BY <1>2 DEF RInv, JInv, IInv, TempsFree, ToCome
<1>7. CASE /\ Applied /\ fs[Dst(pos)] = NoCopy
           /\ fs' = Moved(fs, Src(pos), Dst(pos))
  <2>1. /\ Gapless' /\ completed' = completed \cup {pos} /\ phase' = "exec" /\ UNCHANGED row
        /\ \A f \in Files : KeptNewTags(f) => KeptNewTags(f)'
    BY <1>1, <1>2, <1>7, AppliedGapless DEF Applied
  <2>2. \A f \in Files : fs'[Place(f, completed')] = fs[Place(f, completed)]
    <3>1. /\ fs \in FsTypes /\ completed \in SUBSET Ops /\ pos \in Moves /\ pos \notin completed
          /\ Held(fs, completed) /\ fs[Dst(pos)] = NoCopy
      BY <1>2, <1>3, <1>7
    <3>2. \A f \in Files : fs'[Place(f, completed \cup {pos})] = fs[Place(f, completed)]
      BY <1>4, <1>7, <3>1, Advance
    <3> QED
      BY <2>1, <3>2
  <2>3. Held(fs', completed') /\ Known(completed)'
    BY <1>3, <2>1, <2>2 DEF Held, Known, TagOps, Ops, Kind, Dst
  <2>4. BackedUp'
    BY <1>1, <1>2, <2>1, BackedUpKeeps
  <2>5. Built(dirs', completed)
    BY <1>2, <1>3, <1>5, AllMade
  <2>6. Built(dirs', completed')
    BY <2>1, <2>5, <1>2 DEF Built, Moves, MoveKinds
  <2> QED
    BY <1>1, <1>2, <2>1, <2>3, <2>4, <2>6, ExecReturns DEF jobs
<1>8. ASSUME \/ \E k \in {0, 1} : Abort(k)
             \/ Kind(pos) = "leg2" /\ GiveUp /\ UNCHANGED <<row, completed>>,
             \/ UNCHANGED fs
             \/ fs[Dst(pos)] = NoCopy /\ fs' = [fs EXCEPT ![Dst(pos)] = fs[Src(pos)]]
      PROVE  Returns'
  <2>1. /\ Gapless' /\ UNCHANGED completed /\ phase' = "rollback" /\ sub' = "act"
        /\ \A f \in Files : KeptNewTags(f) => KeptNewTags(f)'
        /\ \A j \in Ops : j # pos => row'[j] = row[j]
    <3>1. CASE \E k \in {0, 1} : Abort(k)
      BY <1>1, <1>2, <3>1, AbortGapless
    <3>2. CASE GiveUp /\ UNCHANGED <<row, completed>>
      <4>1. Gapless /\ OnTrack
        BY <1>2, OnExec
      <4> QED
        BY <1>1, <1>2, <3>2, <4>1, KnownKeeps
           DEF GiveUp, Gapless, Pending, Ground, Moves, TagOps, Ops, Kind
    <3> QED
      BY <1>8, <3>1, <3>2
  <2>2. \A f \in Files : fs'[Place(f, completed)] = fs[Place(f, completed)]
    <3>1. CASE fs[Dst(pos)] = NoCopy /\ fs' = [fs EXCEPT ![Dst(pos)] = fs[Src(pos)]]
      <4>1. fs[Dst(pos)].file \notin Files /\ \A p \in Paths : p # Dst(pos) => fs'[p] = fs[p]
        BY <1>3, <3>1, FreeHoldsNothing DEF FsTypes
      <4> QED
        BY <1>3, <4>1, AwayFromOthers
    <3> QED
      BY <1>8, <3>1
  <2>3. Held(fs', completed') /\ Known(completed)'
    BY <1>3, <2>1, <2>2 DEF Held, Known, TagOps, Ops, Kind, Dst
  <2>4. BackedUp'
    BY <1>1, <1>2, <2>1, BackedUpKeeps
  <2>5. Built(dirs', completed')
    BY <1>2, <1>3, <1>5, <2>1, AllMade
  <2> QED
    BY <1>1, <1>2, <2>1, <2>3, <2>4, <2>5, ExecReturns DEF jobs
<1>9. CASE Move
  BY <1>7, <1>8, <1>9 DEF Move, Renamed, NotRenamed, Moved
<1>10. CASE CaseFixLeg1
  BY <1>6, <1>7, <1>8, <1>10 DEF CaseFixLeg1, Acting, Moved
<1>11. CASE CaseFixLeg2
  BY <1>7, <1>8, <1>11 DEF CaseFixLeg2, Acting, Moved
<1> QED
  BY <1>9, <1>10, <1>11

\* A folder is pruned, or a failure to prune it passed over.
LEMMA RmdirReturns == RInv /\ Rmdir => Returns'
<1> SUFFICES ASSUME RInv, Rmdir PROVE Returns'
  OBVIOUS
<1>1. Acting({"rmdir"}) /\ UNCHANGED <<fs, backup, snap, book, jobs>>
  BY DEF Rmdir
<1>2. /\ Acting(Kinds) /\ phase = "exec" /\ pos \in Ops /\ Kind(pos) = "rmdir"
      /\ pos \notin TagOps /\ pos \notin Moves /\ pos \in Nat /\ row[pos] = "pending"
      /\ \A i \in completed : i < pos
      /\ \A i \in Ground : i < pos => i \in completed
  BY <1>1, ActingReturns, OnExec DEF Acting, Kinds, TagOps, Moves, MoveKinds
<1>3. /\ Held(fs, completed) /\ Built(dirs, completed) /\ Known(completed)
      /\ completed \in SUBSET Ops /\ Gapless /\ BackedUp /\ TypeOK /\ OnTrack /\ Eff = completed
  BY <1>2, OnExec
<1>4. CASE Applied /\ dirs' = dirs \ {Dst(pos)} /\ UNCHANGED pos
  <2>1. /\ Gapless' /\ completed' = completed \cup {pos} /\ phase' = "exec" /\ UNCHANGED row
        /\ \A f \in Files : KeptNewTags(f) => KeptNewTags(f)'
    BY <1>1, <1>2, <1>4, AppliedGapless DEF Applied
  <2>2. \A f \in Files : Place(f, completed') = Place(f, completed)
    BY <1>2, <2>1, OnlyMoves
  <2>3. Held(fs', completed') /\ Known(completed)'
    BY <1>1, <1>3, <2>1, <2>2 DEF Held, Known, TagOps, Ops, Kind, Dst
  <2>4. BackedUp'
    BY <1>1, <1>2, <1>4, <2>1, BackedUpKeeps
  <2>5. Built(dirs', completed')
    BY <1>2, <1>3, <1>4, <2>1 DEF Built
  <2> QED
    BY <1>1, <1>2, <2>1, <2>3, <2>4, <2>5, ExecReturns DEF jobs
<1>5. CASE /\ \E k \in {0, 1} : JournalFailure(k)
           /\ pos' = pos + 1 /\ sub' = "insert" /\ UNCHANGED <<dirs, phase, completed>>
  <2>1. UNCHANGED row \/ Mark(pos, "failed")
    BY <1>5 DEF JournalFailure
  <2>2. row'[pos] \in {"pending", "failed"} /\ \A j \in Ops : j # pos => row'[j] = row[j]
    BY <1>2, <1>3, <2>1, MarkRows
  <2>3. Pending' = Pending
    BY <1>2, <2>2 DEF Pending, Ops
  <2>4. \A i \in Ops : i < pos' => i < pos \/ i = pos
    BY <1>2, <1>5, StepTypes
  <2>5. Gapless'
    <3>1. pos \notin Ground /\ \A i \in completed : i < pos'
      BY <1>2, <1>3, <1>5, StepTypes DEF Ground
    <3> QED
      BY <1>2, <1>3, <1>5, <2>2, <2>3, <2>4, <3>1, StepTypes
         DEF Gapless, Ground, Moves, TagOps, Ops, Kind
  <2>6. Known(completed)'
    <3>1. \A f \in Files : KeptNewTags(f) => KeptNewTags(f)'
      BY <1>2, <2>2, KnownKeeps, StepTypes
    <3> QED
      BY <1>1, <1>3, <1>5, <3>1 DEF Known, TagOps, Ops, Kind, Dst, Place, Moves, FirstStop, Src
  <2>7. BackedUp'
    <3>1. \A i \in TagOps : i # pos /\ row'[i] = row[i]
      BY <1>2, <2>2, StepTypes
    <3>2. Eff' = completed
      BY <1>2, <1>5 DEF Eff
    <3> QED
      BY <1>1, <1>3, <1>5, <3>1, <3>2 DEF BackedUp, TagOps, Ops, Kind, Dst
  <2> QED
    BY <1>1, <1>2, <1>3, <1>5, <2>5, <2>6, <2>7, ExecReturns DEF jobs
<1> QED
  BY <1>4, <1>5 DEF Rmdir

\* At a tag write every file has come to its new place.
LEMMA TagActing ==
  ASSUME RInv, Acting({"tag"})
  PROVE  /\ phase = "exec" /\ sub = "act" /\ pos \in Ops /\ pos \in TagOps /\ row[pos] = "pending"
         /\ Acting(Kinds) /\ pos \notin completed
         /\ Dst(pos) \in Paths /\ TypeOK /\ fs \in FsTypes
         /\ \A f \in Files : Place(f, completed) = New[f] /\ fs[New[f]].file = f
<1>1. /\ phase = "exec" /\ sub = "act" /\ pos \in Ops /\ pos \in TagOps /\ row[pos] = "pending"
      /\ Acting(Kinds) /\ pos \notin completed
      /\ \A i \in Ground : i < pos => i \in completed
  BY ActingReturns DEF Acting, Kinds, TagOps
<1>2. TypeOK /\ fs \in FsTypes /\ Held(fs, completed) /\ Dst(pos) \in Paths
  BY <1>1, OnExec, StepTypes
<1>3. Moves \subseteq completed
  BY <1>1, OrganizeAssumption DEF Ground, Moves
<1> QED
  BY <1>1, <1>2, <1>3, Extremes DEF Held

\* A file's tags are backed up.
LEMMA BackupTagsReturns == RInv /\ BackupTags => Returns'
<1> SUFFICES ASSUME RInv, BackupTags PROVE Returns'
  OBVIOUS
<1>1. Acting({"tag"}) /\ UNCHANGED <<fs, dirs, snap, book, jobs, pos>>
  BY DEF BackupTags
<1>2. /\ phase = "exec" /\ sub = "act" /\ pos \in Ops /\ pos \in TagOps /\ row[pos] = "pending"
      /\ Acting(Kinds) /\ pos \notin completed
      /\ Dst(pos) \in Paths /\ TypeOK /\ fs \in FsTypes
      /\ \A f \in Files : Place(f, completed) = New[f] /\ fs[New[f]].file = f
  BY <1>1, TagActing
<1>3. /\ Held(fs, completed) /\ Built(dirs, completed) /\ Known(completed)
      /\ Gapless /\ BackedUp /\ OnTrack /\ Eff = completed
  BY <1>2, OnExec
<1>4. CASE /\ fs[Dst(pos)] # NoCopy /\ backup' = [backup EXCEPT ![pos] = fs[Dst(pos)]]
           /\ UNCHANGED <<row, phase, sub, completed>>
  <2>1. Gapless'
    BY <1>1, <1>3, <1>4 DEF Gapless, OnTrack, RunOver, Pending, jobs, Ground, Moves, TagOps, Ops, Kind
  <2>2. Known(completed)'
    BY <1>1, <1>3, <1>4 DEF Known, KeptNewTags, TagOps, Ops, Kind, Dst, Place, Moves, FirstStop, Src
  <2>3. backup'[pos] = fs[Dst(pos)] /\ \A i \in Ops : i # pos => backup'[i] = backup[i]
    BY <1>2, <1>4 DEF TypeOK
  <2>4. fs[Dst(pos)].tags = "old" /\ \E f \in Files : New[f] = Dst(pos) /\ fs[Dst(pos)].file = f
    <3>1. fs[Dst(pos)].tags \in {"old", "none"} /\ fs[Dst(pos)] \in Copies
      BY <1>2, <1>3, <1>4 DEF BackedUp, FsTypes
    <3>2. fs[Dst(pos)].tags = "old"
      BY <3>1 DEF Copies, TagVals
    <3> QED
      BY <1>2, <3>2, PlanAssumption
  <2>5. BackedUp'
    <3>1. \A i \in TagOps : backup'[i] # NoCopy =>
            backup'[i].tags = "old" /\ \E f \in Files : New[f] = Dst(i) /\ backup'[i].file = f
      BY <1>3, <2>3, <2>4, StepTypes DEF BackedUp
    <3>2. Eff' = completed
      BY <1>2, <1>4 DEF Eff
    <3>3. \A i \in TagOps : /\ i \in completed => row[i] = "done"
                            /\ i \in completed => backup'[i] # NoCopy
      BY <1>2, <1>3, <2>3, StepTypes DEF BackedUp
    <3> QED
      BY <1>1, <1>2, <1>3, <1>4, <3>1, <3>2, <3>3 DEF BackedUp, TagOps, Ops, Kind, Dst
  <2> QED
    BY <1>1, <1>2, <1>3, <1>4, <2>1, <2>2, <2>5, ExecReturns DEF jobs
<1>5. CASE Abort(1) /\ UNCHANGED backup
  <2>1. /\ Gapless' /\ UNCHANGED completed /\ phase' = "rollback" /\ sub' = "act"
        /\ \A f \in Files : KeptNewTags(f) => KeptNewTags(f)'
        /\ \A j \in Ops : j # pos => row'[j] = row[j]
    BY <1>1, <1>2, <1>5, AbortGapless
  <2>2. Known(completed)'
    BY <1>1, <1>3, <2>1 DEF Known, TagOps, Ops, Kind, Dst, Place, Moves, FirstStop, Src
  <2>3. BackedUp'
    BY <1>1, <1>2, <1>5, <2>1, BackedUpKeeps
  <2> QED
    BY <1>1, <1>2, <1>3, <2>1, <2>2, <2>3, ExecReturns DEF jobs
<1> QED
  BY <1>4, <1>5 DEF BackupTags

\* The tags are written; or they are not, or something else is.
LEMMA WriteTagsReturns == RInv /\ WriteTags => Returns'
<1> SUFFICES ASSUME RInv, WriteTags PROVE Returns'
  OBVIOUS
<1>1. Acting({"tag"}) /\ backup[pos] # NoCopy /\ UNCHANGED <<dirs, backup, snap, book, jobs, pos>>
  BY DEF WriteTags
<1>2. /\ phase = "exec" /\ sub = "act" /\ pos \in Ops /\ pos \in TagOps /\ row[pos] = "pending"
      /\ Acting(Kinds) /\ pos \notin completed
      /\ Dst(pos) \in Paths /\ TypeOK /\ fs \in FsTypes
      /\ \A f \in Files : Place(f, completed) = New[f] /\ fs[New[f]].file = f
  BY <1>1, TagActing
<1>3. /\ Held(fs, completed) /\ Built(dirs, completed) /\ Known(completed)
      /\ Gapless /\ BackedUp /\ OnTrack /\ Eff = completed
  BY <1>2, OnExec
<1>4. /\ \A p \in Paths : fs'[p].file = fs[p].file /\ (p # Dst(pos) => fs'[p] = fs[p])
      /\ UNCHANGED completed
      /\ \/ \E k \in {0, 1} : Abort(k)
         \/ phase' = "exec" /\ sub' = "mark" /\ UNCHANGED row
  <2>1. CASE \E t \in {"new", "wrong"} : /\ fs[Dst(pos)] # NoCopy
                                         /\ fs' = [fs EXCEPT ![Dst(pos)].tags = t]
    <3>1. \A p \in Paths : p # Dst(pos) => fs'[p] = fs[p]
      BY <1>2, <2>1 DEF FsTypes
    <3> QED
      BY <1>2, <2>1, <3>1, Retagged DEF WriteTags, Abort, RInv, JInv
  <2>2. CASE Abort(1) /\ UNCHANGED fs
    BY <2>2 DEF Abort
  <2> QED
    BY <2>1, <2>2 DEF WriteTags
<1>5. Held(fs', completed)
  BY <1>3, <1>4, HeldKeeps
<1>6. /\ \A j \in Ops : j # pos => row'[j] = row[j]
      /\ row'[pos] \in {"pending", "failed"}
      /\ Gapless'
      /\ phase' = "exec" \/ (phase' = "rollback" /\ sub' = "act")
  <2>1. CASE \E k \in {0, 1} : Abort(k)
    BY <1>1, <1>2, <2>1, AbortGapless
  <2>2. CASE phase' = "exec" /\ sub' = "mark" /\ UNCHANGED row
    <3>1. Gapless'
      <4>1. pos \notin Ground
        BY <1>2 DEF Ground, Moves, MoveKinds, TagOps
      <4>2. \A j \in completed : j < pos
        BY <1>2, <1>3 DEF Gapless
      <4>3. Pending' = Pending
        BY <2>2 DEF Pending, Ops
      <4>4. \A j \in Ground : (j < pos \/ j = pos) => j \in completed
        BY <1>2, <1>3, <4>1 DEF Gapless
      <4> QED
        BY <1>1, <1>2, <1>3, <1>4, <2>2, <4>2, <4>3, <4>4
           DEF Gapless, Ground, Moves, TagOps, Ops, Kind
    <3> QED
      BY <1>2, <2>2, <3>1
  <2> QED
    BY <1>4, <2>1, <2>2
<1>7. Known(completed)'
  <2> SUFFICES ASSUME NEW f \in Files
               PROVE  \/ fs'[New[f]].tags = "old"
                      \/ KeptNewTags(f)'
                      \/ \E i \in TagOps \cap completed : Dst(i) = New[f]
    BY SMTT(20), <1>2, <1>4 DEF Known, TagOps, Ops, Kind, Dst, Place, Moves, FirstStop, Src
  <2>1. CASE New[f] = Dst(pos)
    BY <1>2, <1>6, <2>1 DEF KeptNewTags, TagOps, Ops, Kind, Dst
  <2>2. CASE New[f] # Dst(pos)
    <3>1. fs'[New[f]] = fs[New[f]]
      BY <1>4, <2>2, OrganizeAssumption
    <3>2. KeptNewTags(f) => KeptNewTags(f)'
      BY <1>6, KnownKeeps, StepTypes
    <3> QED
      BY <1>2, <1>3, <3>1, <3>2 DEF Known
  <2> QED
    BY <2>1, <2>2
<1>8. BackedUp'
  <2>1. Eff' = completed
    BY <1>4, <1>6 DEF Eff
  <2>2. \A i \in TagOps : /\ i \in completed => row'[i] = "done"
                          /\ i \in completed => backup[i] # NoCopy
    BY <1>2, <1>3, <1>6, StepTypes DEF BackedUp
  <2>3. \A i \in TagOps : backup[i] # NoCopy =>
          backup[i].tags = "old" /\ \E f \in Files : New[f] = Dst(i) /\ backup[i].file = f
    BY <1>3 DEF BackedUp
  <2>4. phase' = "exec" => sub' = "mark"
    BY <1>4 DEF Abort, GiveUp
  <2> QED
    BY <1>1, <1>2, <2>1, <2>2, <2>3, <2>4, <1>4 DEF BackedUp, TagOps, Ops, Kind, Dst
<1> QED
  BY <1>1, <1>2, <1>3, <1>4, <1>5, <1>6, <1>7, <1>8, ExecReturns DEF jobs

\* The row of a step that was carried out is flipped, or the run is given up.
LEMMA MarkDoneReturns == RInv /\ MarkDone => Returns'
<1> SUFFICES ASSUME RInv, MarkDone PROVE Returns'
  OBVIOUS
<1>1. /\ phase = "exec" /\ sub = "mark" /\ pos \in Ops
      /\ UNCHANGED <<fs, dirs, backup, snap, book, job>>
  BY DEF MarkDone, disk, jobs, RInv, JInv, IInv, AtStep
<1>2. /\ Held(fs, completed) /\ Built(dirs, completed) /\ Known(completed) /\ TypeOK
      /\ Gapless /\ BackedUp /\ OnTrack /\ Eff = completed /\ pos \in Nat /\ Journaled
      /\ completed \in SUBSET Ops
  BY <1>1, OnExec
<1>3. CASE /\ Mark(pos, "done") /\ completed' = completed \cup {pos}
           /\ pos' = pos + 1 /\ sub' = "insert" /\ UNCHANGED phase
  <2>1. row'[pos] = "done" /\ \A j \in Ops : j # pos => row'[j] = row[j]
    BY <1>1, <1>2, <1>3, MarkRows
  <2>2. Pending' = Pending \cup {pos}
    BY <1>1, <2>1 DEF Pending, Ops
  <2>3. \A i \in Ops : (i < pos' <=> i < pos \/ i = pos) /\ (i < pos => i # pos)
    BY <1>2, <1>3, StepTypes
  <2>4. Gapless'
    <3>1. \A i \in completed', j \in Ground : j < i => j \in completed'
      BY <1>1, <1>2, <1>3 DEF Gapless
    <3>2. /\ \A j \in Ground : j < pos' => j \in completed'
          /\ \A j \in completed' : j < pos'
          /\ \A j \in Moves : j < pos' => row'[j] = "done"
      BY <1>1, <1>2, <1>3, <2>1, <2>3, StepTypes DEF Gapless, Ground
    <3>3. Pending' \subseteq completed'
      BY <1>2, <1>3, <2>2 DEF Gapless
    <3> QED
      BY <1>3, <3>1, <3>2, <3>3 DEF Gapless, Ground, Moves, TagOps, Ops, Kind
  <2>5. \A f \in Files : Place(f, completed') = Place(f, completed)
    <3>1. pos \in Moves => pos \in completed
      BY <1>1, <1>2 DEF Gapless, Ground
    <3> QED
      BY <1>3, <3>1, OnlyMoves
  <2>6. Held(fs', completed')
    BY <1>1, <1>2, <2>5 DEF Held
  <2>7. Built(dirs', completed')
    <3>1. \A d \in Created \cap dirs : \E i \in completed' : Kind(i) = "mkdir" /\ Dst(i) = d
      BY <1>2, <1>3 DEF Built
    <3>2. \A d \in InitialDirs : d \in dirs \/ \E i \in completed' : Kind(i) = "rmdir" /\ Dst(i) = d
      BY <1>2, <1>3 DEF Built
    <3> QED
      BY <1>1, <3>1, <3>2 DEF Built
  <2>8. Known(completed)'
    <3> SUFFICES ASSUME NEW f \in Files
                 PROVE  \/ fs[Place(f, completed)].tags = "old"
                        \/ KeptNewTags(f)'
                        \/ \E i \in TagOps \cap completed' : Dst(i) = New[f]
      BY <1>1, <2>5 DEF Known, TagOps, Ops, Kind, Dst, Place, Moves, FirstStop, Src
    <3>1. KeptNewTags(f) => KeptNewTags(f)' \/ \E i \in TagOps \cap completed' : Dst(i) = New[f]
      BY <1>1, <1>3, <2>1 DEF KeptNewTags, TagOps, Ops, Kind, Dst
    <3> QED
      BY <1>2, <1>3, <3>1 DEF Known
  <2>9. BackedUp'
    <3>1. Eff' = completed'
      BY <1>1, <1>3 DEF Eff
    <3>2. \A i \in TagOps : /\ i \in completed' => row'[i] = "done"
                            /\ i \in completed' => backup[i] # NoCopy
      BY <1>1, <1>2, <1>3, <2>1, StepTypes DEF BackedUp
    <3>3. \A i \in TagOps : backup[i] # NoCopy =>
            backup[i].tags = "old" /\ \E f \in Files : New[f] = Dst(i) /\ backup[i].file = f
      BY <1>2 DEF BackedUp
    <3> QED
      BY <1>1, <1>3, <3>1, <3>2, <3>3 DEF BackedUp, TagOps, Ops, Kind, Dst
  <2> QED
    BY <1>1, <1>3, <2>4, <2>6, <2>7, <2>8, <2>9, ExecReturns
<1>4. CASE GiveUp /\ UNCHANGED <<row, pos, completed>>
  BY <1>1, <1>4, StopReturns
<1> QED
  BY <1>3, <1>4 DEF MarkDone

\* The database is switched once everything has been carried out.
LEMMA AllMoved ==
  ASSUME RInv, phase = "exec", pos = Len(Steps) + 1
  PROVE  Moves \subseteq completed /\ Moves \subseteq Pending
<1>1. Gapless
  BY OnExec
<1>2. \A i \in Moves : i < pos /\ i \in Ops
  BY StepTypes
<1> QED
  BY <1>1, <1>2 DEF Gapless, Ground, Pending

\* The database is switched and the run has gone through; or it is given up.
LEMMA FinalizeReturns == RInv /\ Finalize => Returns'
<1> SUFFICES ASSUME RInv, Finalize PROVE Returns'
  OBVIOUS
<1>1. /\ phase = "exec" /\ pos = Len(Steps) + 1
      /\ UNCHANGED <<fs, dirs, backup, row, job, undos, pos, completed, rbErr>>
  BY DEF Finalize, disk, jobs, Spend
<1>2. /\ Held(fs, completed) /\ TypeOK /\ Gapless /\ BackedUp /\ job = "running"
  BY <1>1, OnExec
<1>3. CASE phase' = "cleanup"
  <2>1. ~OnTrack' /\ job' = "running"
    BY <1>1, <1>2, <1>3 DEF OnTrack, RunOver
  <2>2. Moves \subseteq completed /\ Moves \subseteq Pending
    BY <1>1, AllMoved
  <2>3. Left' = Pending /\ Pending' = Pending
    BY <1>1, <1>3 DEF Left, Pending, Ops
  <2>4. \A f \in Files : Place(f, completed) = Place(f, Pending)
    BY <2>2, OnlyMoves
  <2>5. Held(fs', Left')
    BY <1>1, <1>2, <2>3, <2>4 DEF Held
  <2>6. Retreating'
    BY <1>1, <2>2, <2>3, <2>5 DEF Retreating, Moves, Ops, Kind
  <2>7. Jobs' /\ Uncommitted'
    BY <1>1, <1>2, <1>3, <2>1 DEF Jobs, Uncommitted
  <2>8. Gapless' /\ BackedUp'
    BY <1>1, <1>2, <1>3, <2>1 DEF Gapless, BackedUp, Ground, Moves, TagOps, Ops, Kind, Dst
  <2> QED
    BY <2>1, <2>6, <2>7, <2>8 DEF Returns, Located, Folders, TagsKnown
<1>4. CASE GiveUp /\ UNCHANGED <<snap, book>>
  BY <1>1, <1>4, StopReturns
<1> QED
  BY <1>3, <1>4 DEF Finalize

\* The backups of a committed run go.
LEMMA CleanupReturns == RInv /\ Cleanup => Returns'
<1> SUFFICES ASSUME RInv, Cleanup PROVE Returns'
  OBVIOUS
<1>1. /\ phase = "cleanup" /\ phase' = "idle" /\ job' = "done" /\ job # "queued"
      /\ UNCHANGED <<fs, dirs, row, snap, book, completed, pos>>
      /\ \A i \in Ops : backup'[i] \in {backup[i], NoCopy}
  BY DEF Cleanup, journal, RInv, JInv, IInv, Fresh
<1>2. Gapless /\ BackedUp /\ Retreating
  BY DEF RInv, Returns
<1>3. ~OnTrack'
  BY <1>1 DEF OnTrack, RunOver
<1>4. Pending' = Pending /\ Left = Pending /\ Left' = Pending
  BY <1>1 DEF Pending, Left, Ops
<1>5. Retreating'
  BY <1>1, <1>2, <1>4 DEF Retreating, Committed, Newest, Moves, Ops, Kind
<1>6. Jobs' /\ Uncommitted'
  BY <1>1, <1>3 DEF Jobs, Uncommitted
<1>7. Gapless' /\ BackedUp'
  <2>1. \A i \in TagOps : i \in Ops
    BY StepTypes
  <2> QED
    BY <1>1, <1>2, <1>3, <2>1 DEF Gapless, BackedUp, Ground, Moves, TagOps, Ops, Kind, Dst
<1> QED
  BY <1>3, <1>5, <1>6, <1>7 DEF Returns, Located, Folders, TagsKnown

\* The worker starts the job, or fails before anything is touched.
LEMMA StartRunReturns == RInv /\ StartRun => Returns'
<1> SUFFICES ASSUME RInv, StartRun PROVE Returns'
  OBVIOUS
<1>1. /\ phase = "idle" /\ job = "queued" /\ pos = 1 /\ sub = "insert" /\ completed = {}
      /\ UNCHANGED <<fs, dirs, backup, row, snap, book, undos, pos, sub, completed, rbErr>>
      /\ \/ job' = "running" /\ phase' = "exec"
         \/ job' = "failed" /\ phase' = "idle"
  BY DEF StartRun, Spend, disk, journal, RInv, JInv, IInv, Fresh, Returns, Jobs
<1>2. /\ Located /\ Folders /\ TagsKnown /\ Gapless /\ BackedUp /\ Uncommitted /\ OnTrack /\ Eff = completed
  BY <1>1 DEF RInv, Returns, OnTrack, Eff
<1>3. Eff' = completed /\ Pending' = Pending
  BY <1>1 DEF Eff, Pending, Ops
<1>4. Jobs' /\ Retreating' /\ Uncommitted'
  BY <1>1, <1>2 DEF Jobs, Retreating, Committed, Uncommitted
<1>5. Gapless' /\ BackedUp'
  BY <1>1, <1>2, <1>3, StepTypes
     DEF Gapless, BackedUp, Ground, Moves, TagOps, Ops, Kind, Dst
<1>6. Located' /\ Folders'
  BY <1>1, <1>2, <1>3 DEF Located, Folders
<1>7. TagsKnown'
  BY <1>1, <1>2, <1>3
     DEF TagsKnown, Known, KeptNewTags, TagOps, Ops, Kind, Dst, Place, Moves, FirstStop, Src
<1> QED
  BY <1>4, <1>5, <1>6, <1>7 DEF Returns

\* A cancellation ends Execute's loops.
LEMMA StopAtCancelReturns == RInv /\ StopAtCancel => Returns'
BY StopReturns DEF StopAtCancel, disk, journal, jobs

-----------------------------------------------------------------------------
(* Rollback. *)

\* There is one newest step.
LEMMA OneNewest ==
  ASSUME NEW S \in SUBSET Ops, NEW i \in Newest(S)
  PROVE  /\ i \in S /\ i \in Ops /\ S \ Newest(S) = S \ {i}
         /\ \A j \in S : j <= i /\ j \in Nat
         /\ i \in Nat
BY StepTypes DEF Newest

\* What an action of rollback has to keep: nothing more than the order of the steps
\* once it has failed to reverse one.
LEMMA RollbackReturns ==
  ASSUME RInv, phase = "rollback", phase' = "rollback", sub' \in {"act", "mark"},
         UNCHANGED <<snap, book, job>>,
         \A i \in completed', j \in Ground : j < i => j \in completed',
         \A i \in Ops : backup'[i] \in {backup[i], NoCopy},
         \/ rbErr'
         \/ /\ Pending' \subseteq completed'
            /\ Held(fs', Eff') /\ Built(dirs', Eff') /\ Known(Eff)'
            /\ \A i \in TagOps : (i \in completed' => row'[i] = "done") /\ (i \in Eff' => backup'[i] # NoCopy)
  PROVE  Returns'
<1>1. job' = "running" /\ BackedUp /\ Uncommitted
  BY DEF RInv, Returns, Jobs
<1>2. Jobs' /\ Uncommitted' /\ Retreating'
  BY <1>1 DEF Jobs, Uncommitted, Retreating, Committed
<1>3. OnTrack' => ~rbErr'
  BY <1>1 DEF OnTrack, RunOver
<1>4. Gapless'
  BY <1>3 DEF Gapless, Ground, Moves, TagOps, Ops, Kind
<1>5. \A i \in TagOps : backup'[i] # NoCopy =>
        backup'[i].tags = "old" /\ \E f \in Files : New[f] = Dst(i) /\ backup'[i].file = f
  BY <1>1, StepTypes DEF BackedUp
<1>6. BackedUp'
  BY <1>3, <1>5 DEF BackedUp, TagOps, Ops, Kind, Dst
<1> QED
  BY <1>2, <1>3, <1>4, <1>6 DEF Returns, Located, Folders, TagsKnown

\* Rollback reverses the newest of the steps in effect.
LEMMA RollbackActReturns == RInv /\ RollbackAct => Returns'
<1> SUFFICES ASSUME RInv, RollbackAct PROVE Returns'
  OBVIOUS
<1>1. /\ phase = "rollback" /\ sub = "act" /\ phase' = "rollback"
      /\ UNCHANGED <<row, snap, book, job, pos>>
  BY DEF RollbackAct, journal, jobs
<1>2. PICK i \in Newest(completed) : RollsBack(i)
  BY DEF RollbackAct
<1>3. /\ TypeOK /\ fs \in FsTypes /\ completed \in SUBSET Ops /\ Gapless
      /\ backup \in BackupTypes /\ Eff = completed
  BY <1>1 DEF RInv, JInv, IInv, TypeOK, FsTypes, BackupTypes, Returns, Eff
<1>4. /\ i \in completed /\ i \in Ops /\ completed \ Newest(completed) = completed \ {i} /\ i \in Nat
      /\ \A j \in completed : j <= i /\ j \in Nat
      /\ \A j \in Ground : j < i => j \in completed
  BY <1>3, OneNewest DEF Gapless
<1>5. /\ sub' \in {"act", "mark"} /\ completed' \subseteq completed
      /\ \A k \in completed', j \in Ground : j < k => j \in completed'
  <2>1. completed' = completed \/ completed' = completed \ {i}
    BY <1>2 DEF RollsBack
  <2>2. \A k \in completed \ {i}, j \in Ground : j < k => j \in completed \ {i}
    BY <1>3, <1>4, StepTypes DEF Gapless, Ground
  <2>3. \A k \in completed, j \in Ground : j < k => j \in completed
    BY <1>3 DEF Gapless
  <2> QED
    BY <1>1, <1>2, <2>1, <2>2, <2>3 DEF RollsBack
<1>6. \A j \in Ops : backup'[j] \in {backup[j], NoCopy}
  BY <1>2, <1>3, <1>4 DEF RollsBack, BackupTypes
<1>7. CASE rbErr \/ rbErr'
  <2>1. rbErr'
    BY <1>2, <1>7 DEF RollsBack
  <2> QED
    BY <1>1, <1>5, <1>6, <2>1, RollbackReturns
<1>8. CASE ~rbErr /\ ~rbErr'
  <2>1. sub' = "mark" /\ UNCHANGED completed
    BY <1>2, <1>8 DEF RollsBack
  <2>2. Eff' = completed \ {i}
    BY <1>1, <1>4, <2>1 DEF Eff, Newest
  <2>3. /\ Held(fs, completed) /\ Built(dirs, completed) /\ Known(completed)
        /\ Pending \subseteq completed /\ BackedUp /\ OnTrack
    BY <1>1, <1>3, <1>8 DEF RInv, Returns, OnTrack, Located, Folders, TagsKnown, Gapless
  <2>4. Pending' \subseteq completed'
    BY <1>1, <2>1, <2>3 DEF Pending, Ops
  <2>5. ASSUME Held(fs', completed \ {i}), Built(dirs', completed \ {i}),
               \A f \in Files : \/ fs'[Place(f, completed \ {i})].tags = "old"
                                \/ KeptNewTags(f)
                                \/ \E j \in TagOps \cap (completed \ {i}) : Dst(j) = New[f],
               \A j \in TagOps : j # i => backup'[j] = backup[j]
        PROVE  Returns'
    <3>1. Known(Eff)'
      BY <1>1, <2>2, <2>5 DEF Known, KeptNewTags, TagOps, Ops, Kind, Dst, Place, Moves, FirstStop, Src
    <3>2. \A j \in TagOps : (j \in completed' => row'[j] = "done") /\ (j \in Eff' => backup'[j] # NoCopy)
      BY <1>1, <1>3, <2>1, <2>2, <2>3, <2>5 DEF BackedUp
    <3> QED
      BY <1>1, <1>5, <1>6, <2>2, <2>4, <2>5, <3>1, <3>2, RollbackReturns
  <2>6. CASE i \in Moves
    <3>1. /\ i \notin TagOps /\ Kind(i) \notin {"mkdir", "rmdir", "tag"}
          /\ Src(i) \in Paths /\ Dst(i) \in Paths
      BY <2>6, StepTypes DEF TagOps, Moves, MoveKinds
    <3>2. /\ Kind(i) = "leg2" => i - 1 \in completed
          /\ Kind(i) = "leg1" => i + 1 \notin completed
      BY <1>3, <1>4, <2>6, LegTwo DEF Ground, Moves
    <3>3. fs[Dst(i)].file \in Files
      BY <1>3, <1>4, <2>3, <2>6, <3>2, HeldAtDst
    <3>4. Renamed(Dst(i), Src(i)) /\ UNCHANGED backup
      BY <1>2, <1>8, <3>1, <3>3, FreeHoldsNothing DEF RollsBack, ReversedMove, AlreadyBack
    <3>5. fs' = Moved(fs, Dst(i), Src(i)) /\ fs[Src(i)] = NoCopy /\ dirs \subseteq dirs'
      BY <3>4 DEF Renamed, Moved
    <3>6. \A f \in Files : fs'[Place(f, completed \ {i})] = fs[Place(f, completed)]
      BY <1>3, <1>4, <2>3, <2>6, <3>2, <3>5, Retreat
    <3>7. Held(fs', completed \ {i})
      BY <2>3, <3>6 DEF Held
    <3>8. Built(dirs', completed)
      BY <1>3, <1>4, <2>3, <3>1, <3>5, AllMade
    <3>9. Built(dirs', completed \ {i})
      BY <3>1, <3>8 DEF Built
    <3>10. \A f \in Files : \/ fs'[Place(f, completed \ {i})].tags = "old"
                            \/ KeptNewTags(f)
                            \/ \E j \in TagOps \cap (completed \ {i}) : Dst(j) = New[f]
      BY <2>3, <3>1, <3>6 DEF Known
    <3> QED
      BY <2>5, <3>4, <3>7, <3>9, <3>10
  <2>7. CASE Kind(i) \in {"mkdir", "rmdir"}
    <3>1. i \notin TagOps /\ i \notin Moves /\ UNCHANGED <<fs, backup>>
      BY <1>2, <1>8, <2>7 DEF RollsBack, TagOps, Moves, MoveKinds
    <3>2. \A f \in Files : Place(f, completed \ {i}) = Place(f, completed)
      BY <3>1, OnlyMoves
    <3>3. Held(fs', completed \ {i})
      BY <2>3, <3>1, <3>2 DEF Held
    <3>4. \A f \in Files : \/ fs'[Place(f, completed \ {i})].tags = "old"
                           \/ KeptNewTags(f)
                           \/ \E j \in TagOps \cap (completed \ {i}) : Dst(j) = New[f]
      BY <2>3, <3>1, <3>2 DEF Known
    <3>5. Built(dirs', completed \ {i})
      <4>1. CASE Kind(i) = "mkdir"
        <5>1. dirs' = dirs \ {Dst(i)} /\ Dst(i) \in Created
          BY <1>2, <1>4, <1>8, <3>1, <4>1 DEF RollsBack, Created
        <5> QED
          BY <2>3, <4>1, <5>1 DEF Built, InitialDirs
      <4>2. CASE Kind(i) = "rmdir"
        <5>1. dirs' = dirs \cup Within[Dst(i)] /\ Dst(i) \in Within[Dst(i)]
          BY <1>2, <1>4, <1>8, <3>1, <4>2, PlanAssumption, StepTypes DEF RollsBack, DirOps
        <5>2. Built(dirs', completed)
          BY <1>3, <1>4, <2>3, <4>2, <5>1, AllMade
        <5> QED
          BY <4>2, <5>1, <5>2 DEF Built
      <4> QED
        BY <2>7, <4>1, <4>2
    <3> QED
      BY <2>5, <3>1, <3>3, <3>4, <3>5
  <2>8. CASE Kind(i) = "tag"
    <3>1. i \in TagOps /\ i \notin Moves /\ RestoreTags(i) /\ Dst(i) \in Paths
      BY <1>2, <1>4, <1>8, <2>8, StepTypes DEF RollsBack, TagOps, Moves, MoveKinds
    <3>2. OwnsBackup(i) /\ backup[i].tags = "old"
      BY <1>3, <1>4, <2>3, <3>1 DEF BackedUp, OwnsBackup
    <3>3. /\ fs' = [fs EXCEPT ![Dst(i)] = backup[i]] /\ dirs \subseteq dirs'
          /\ \A p \in Paths : fs'[p].file = fs[p].file
      BY <1>1, <1>4, <3>1, <3>2, RestoredBacked DEF RestoreTags, RInv, JInv
    <3>4. \A j \in TagOps : j # i => backup'[j] = backup[j]
      BY <1>2, <1>3, <1>8, <3>1, StepTypes DEF RollsBack, BackupTypes
    <3>5. Moves \subseteq completed \ {i}
      BY <1>4, <3>1, OrganizeAssumption DEF Ground, Moves
    <3>6. \A f \in Files : Place(f, completed \ {i}) = New[f] /\ Place(f, completed) = New[f]
      BY <3>5, Extremes
    <3>7. Held(fs', completed \ {i})
      <4> SUFFICES ASSUME NEW f \in Files PROVE fs'[Place(f, completed \ {i})].file = f
        BY DEF Held
      <4>1. Place(f, completed \ {i}) = Place(f, completed) /\ Place(f, completed) \in Paths
        BY <3>6, PlacesArePaths
      <4>2. fs[Place(f, completed)].file = f
        BY <2>3 DEF Held
      <4> QED
        BY <3>3, <4>1, <4>2
    <3>8. Built(dirs', completed)
      BY <1>3, <1>4, <2>3, <2>8, <3>3, AllMade
    <3>9. Built(dirs', completed \ {i})
      BY <2>8, <3>8 DEF Built
    <3>10. ASSUME NEW f \in Files
           PROVE  \/ fs'[Place(f, completed \ {i})].tags = "old"
                  \/ KeptNewTags(f)
                  \/ \E j \in TagOps \cap (completed \ {i}) : Dst(j) = New[f]
      <4>1. CASE New[f] = Dst(i)
        BY <1>3, <3>1, <3>2, <3>3, <3>6, <4>1 DEF FsTypes
      <4>2. CASE New[f] # Dst(i)
        <5>1. fs'[New[f]] = fs[New[f]]
          BY <1>3, <3>3, <4>2, OrganizeAssumption DEF FsTypes
        <5> QED
          BY <2>3, <3>6, <4>2, <5>1 DEF Known
      <4> QED
        BY <4>1, <4>2
    <3> QED
      BY <2>5, <3>4, <3>7, <3>9, <3>10
  <2> QED
    BY <1>4, <2>6, <2>7, <2>8, Kinded
<1> QED
  BY <1>7, <1>8

\* The row of a step that was reversed is flipped, or rollback reports that it was not.
LEMMA RollbackMarkReturns == RInv /\ RollbackMark => Returns'
<1> SUFFICES ASSUME RInv, RollbackMark PROVE Returns'
  OBVIOUS
<1>1. /\ phase = "rollback" /\ sub = "mark" /\ phase' = "rollback" /\ sub' = "act"
      /\ UNCHANGED <<fs, dirs, backup, snap, book, job, pos>>
  BY DEF RollbackMark, disk, jobs
<1>2. PICK i \in Newest(completed) :
        /\ completed' = completed \ {i}
        /\ \/ Mark(i, "reverted") /\ UNCHANGED rbErr
           \/ rbErr' = TRUE /\ UNCHANGED row
  BY DEF RollbackMark
<1>3. TypeOK /\ completed \in SUBSET Ops /\ Gapless
  BY DEF RInv, JInv, IInv, TypeOK, Returns
<1>4. /\ i \in completed /\ i \in Ops /\ completed \ Newest(completed) = completed \ {i}
      /\ \A j \in completed : j <= i /\ j \in Nat
  BY <1>3, OneNewest
<1>5. \A k \in completed', j \in Ground : j < k => j \in completed'
  BY <1>2, <1>3, <1>4, StepTypes DEF Gapless, Ground
<1>6. CASE rbErr \/ rbErr'
  BY <1>1, <1>2, <1>5, <1>6, RollbackReturns
<1>7. CASE ~rbErr /\ ~rbErr'
  <2>1. Eff = completed \ {i} /\ Eff' = completed \ {i}
    BY <1>1, <1>2, <1>4 DEF Eff
  <2>2. /\ Held(fs, completed \ {i}) /\ Built(dirs, completed \ {i}) /\ Known(completed \ {i})
        /\ Pending \subseteq completed /\ BackedUp /\ OnTrack
    BY <1>1, <1>7, <2>1 DEF RInv, Returns, OnTrack, Located, Folders, TagsKnown, Gapless
  <2>3. row'[i] = "reverted" /\ \A j \in Ops : j # i => row'[j] = row[j]
    BY <1>2, <1>3, <1>4, <1>7, MarkRows
  <2>4. Pending' \subseteq completed'
    BY <1>2, <2>2, <2>3 DEF Pending, Ops
  <2>5. \A f \in Files : KeptNewTags(f) => KeptNewTags(f)'
    <3>1. i \in TagOps => row[i] = "done"
      BY <1>4, <2>2 DEF BackedUp
    <3> QED
      BY <2>3, <3>1, KnownKeeps, StepTypes
  <2>6. Known(Eff)'
    BY <1>1, <2>1, <2>2, <2>5 DEF Known, TagOps, Ops, Kind, Dst, Place, Moves, FirstStop, Src
  <2>7. \A j \in TagOps : (j \in completed' => row'[j] = "done") /\ (j \in Eff' => backup'[j] # NoCopy)
    BY <1>1, <1>2, <2>1, <2>2, <2>3, StepTypes DEF BackedUp
  <2> QED
    BY <1>1, <1>5, <2>1, <2>2, <2>4, <2>6, <2>7, RollbackReturns
<1> QED
  BY <1>6, <1>7

\* Rollback is done, and the job has failed or was canceled.
LEMMA RollbackEndReturns == RInv /\ RollbackEnd => Returns'
<1> SUFFICES ASSUME RInv, RollbackEnd PROVE Returns'
  OBVIOUS
<1>1. /\ phase = "rollback" /\ sub = "act" /\ completed = {} /\ phase' = "idle"
      /\ job' \in {"failed", "canceled"}
      /\ UNCHANGED <<fs, dirs, backup, row, snap, book, pos, sub, completed, rbErr, undos>>
  BY DEF RollbackEnd, disk, journal, bounds
<1>2. Eff = completed /\ Eff' = completed /\ Pending' = Pending
  BY <1>1 DEF Eff, Pending, Ops
<1>3. OnTrack' => OnTrack
  BY <1>1 DEF OnTrack, RunOver
<1>4. /\ Located /\ Folders /\ TagsKnown /\ Gapless /\ BackedUp /\ Uncommitted
  BY DEF RInv, Returns
<1>5. Jobs' /\ Retreating' /\ Uncommitted'
  BY <1>1, <1>4 DEF Jobs, Retreating, Committed, Uncommitted
<1>6. Gapless' /\ BackedUp'
  BY <1>1, <1>2, <1>3, <1>4 DEF Gapless, BackedUp, Ground, Moves, TagOps, Ops, Kind, Dst
<1>7. Located' /\ Folders'
  BY <1>1, <1>2, <1>3, <1>4 DEF Located, Folders
<1>8. TagsKnown'
  BY <1>1, <1>2, <1>3, <1>4
     DEF TagsKnown, Known, KeptNewTags, TagOps, Ops, Kind, Dst, Place, Moves, FirstStop, Src
<1> QED
  BY <1>5, <1>6, <1>7, <1>8 DEF Returns


-----------------------------------------------------------------------------
(* Undo, and what goes on around the executor. *)

\* Before the run every file, folder and row is where it was.
LEMMA InitReturns == Init => Returns
<1> SUFFICES ASSUME Init PROVE Returns
  OBVIOUS
<1>1. /\ job = "queued" /\ phase = "idle" /\ completed = {} /\ undos = 0 /\ dirs = InitialDirs
      /\ Eff = {} /\ Pending = {} /\ ~Committed
  BY DEF Init, Eff, Pending, Committed
<1>2. ASSUME NEW f \in Files PROVE fs[Old[f]].file = f /\ fs[Old[f]].tags = "old"
  <2>1. Old[f] \in Paths
    BY OrganizeAssumption
  <2>2. (CHOOSE g \in Files : Old[g] = Old[f]) = f
    BY PlanAssumption
  <2>3. fs[Old[f]] = [file |-> f, tags |-> "old"]
    BY <2>1, <2>2 DEF Init
  <2> QED
    BY <2>3
<1>3. \A f \in Files : Place(f, {}) = Old[f]
  BY Extremes
<1>4. Located /\ TagsKnown
  BY <1>1, <1>2, <1>3 DEF Located, TagsKnown, Held, Known
<1>5. Folders
  BY <1>1 DEF Folders, Built, InitialDirs
<1>6. BackedUp
  BY <1>1, StepTypes DEF BackedUp, Init
<1>7. Jobs /\ Gapless /\ Uncommitted /\ Retreating
  BY <1>1 DEF Jobs, Gapless, Uncommitted, Retreating, Init
<1> QED
  BY <1>4, <1>5, <1>6, <1>7 DEF Returns

\* Nothing changes that the invariant is about.
LEMMA QuietReturns ==
  ASSUME Returns, UNCHANGED <<fs, dirs, backup, row, snap, book, job, phase, pos, sub,
                              completed, rbErr, undos>>
  PROVE  Returns'
<1>1. OnTrack' = OnTrack /\ Pending' = Pending /\ Eff' = Eff
  BY DEF OnTrack, RunOver, Pending, Eff, Newest, Ops
<1>2. Jobs' /\ Gapless' /\ Uncommitted'
  BY <1>1 DEF Returns, Jobs, Gapless, Uncommitted, Ground, Moves, TagOps, Ops, Kind
<1>3. Located' /\ Folders' /\ BackedUp'
  BY <1>1 DEF Returns, Located, Folders, BackedUp, TagOps, Ops, Kind, Dst
<1>4. TagsKnown'
  BY <1>1 DEF Returns, TagsKnown, Known, KeptNewTags, TagOps, Ops, Kind, Dst, Place, Moves, FirstStop, Src
<1>5. Retreating'
  BY <1>1 DEF Returns, Retreating, Committed, Left, Newest, Moves, Ops, Kind
<1> QED
  BY <1>2, <1>3, <1>4, <1>5 DEF Returns

\* Somebody's file comes to a free path.
LEMMA DropFileReturns == RInv /\ DropFile => Returns'
<1> SUFFICES ASSUME RInv, DropFile PROVE Returns'
  OBVIOUS
<1>1. PICK p \in Paths \ Temps, x \in Foreign :
        fs[p] = NoCopy /\ fs' = [fs EXCEPT ![p] = [file |-> x, tags |-> "old"]]
  BY DEF DropFile
<1>2. UNCHANGED <<dirs, backup, row, snap, book, job, phase, pos, sub, completed, rbErr, undos>>
  BY DEF DropFile, Spend, journal, jobs, control
<1>3. fs \in FsTypes /\ Returns /\ pos \in Nat
  BY StepTypes DEF RInv, JInv, IInv, TypeOK, FsTypes
<1>4. /\ fs'[p].tags = "old" /\ fs[p].file \notin Files
      /\ \A q \in Paths : q # p => fs'[q] = fs[q]
  BY <1>1, <1>3, FreeHoldsNothing DEF FsTypes
<1>5. \A q \in Paths : fs[q].file \in Files => fs'[q] = fs[q]
  BY <1>4
<1>6. OnTrack' = OnTrack /\ Pending' = Pending /\ Eff' = Eff
  BY <1>2 DEF OnTrack, RunOver, Pending, Eff, Newest, Ops
<1>7. Jobs' /\ Gapless' /\ Uncommitted' /\ Folders'
  BY <1>2, <1>3, <1>6
     DEF Returns, Jobs, Gapless, Uncommitted, Folders, Ground, Moves, TagOps, Ops, Kind
<1>8. Located'
  BY <1>3, <1>5, <1>6, HeldKeeps DEF Returns, Located
<1>9. BackedUp'
  <2>1. pos \in TagOps /\ fs[Dst(pos)].tags \in {"old", "none"} => fs'[Dst(pos)].tags \in {"old", "none"}
    BY <1>4, StepTypes
  <2> QED
    BY <1>2, <1>3, <1>6, <2>1 DEF Returns, BackedUp, TagOps, Ops, Kind, Dst
<1>10. TagsKnown'
  <2> SUFFICES ASSUME OnTrack' PROVE Known(Eff)'
    BY DEF TagsKnown
  <2>1. Held(fs, Eff) /\ Known(Eff)
    BY <1>3, <1>6 DEF Returns, Located, TagsKnown
  <2>2. \A f \in Files : fs'[Place(f, Eff)] = fs[Place(f, Eff)]
    BY <1>5, <2>1, PlacesArePaths DEF Held
  <2> QED
    BY <1>2, <1>6, <2>1, <2>2 DEF Known, KeptNewTags, TagOps, Ops, Kind, Dst, Place, Moves, FirstStop, Src
<1>11. Retreating'
  <2>1. Left' = Left /\ Committed' = Committed
    BY <1>2, <1>6 DEF Left, Committed, Newest
  <2>2. \A S \in SUBSET Ops : Held(fs, S) => Held(fs', S)
    BY <1>5, HeldKeeps
  <2>3. Left \in SUBSET Ops /\ Pending \in SUBSET Ops
    BY DEF Left, Pending
  <2> QED
    BY <1>2, <1>3, <1>6, <2>1, <2>2, <2>3 DEF Returns, Retreating, Newest, Moves, Ops, Kind
<1> QED
  BY <1>7, <1>8, <1>9, <1>10, <1>11 DEF Returns


\* What undo, its request and a crash have to keep: they go on, at most, about a run
\* that went through.
LEMMA OffTrackReturns ==
  ASSUME RInv, ~OnTrack', phase' \in {"idle", "undo"}, job' = job, completed' \in {completed, {}},
         phase' = "undo" => job \in {"done", "failed", "canceled"} /\ undos' > 0,
         phase' = "undo" /\ sub' \in {"restore", "marksnap"} => Pending' = {},
         \A i \in Ops : backup'[i] \in {backup[i], NoCopy},
         job \in {"failed", "canceled"} => \A b \in Books : snap'[b] = "none" /\ book'[b].at = "old",
         job = "done" =>
           /\ Held(fs', Left') \/ \E i \in Newest(Pending') \cap Moves : Held(fs', Pending' \ {i})
           /\ \A i \in Pending', j \in Moves : j < i => j \in Pending'
  PROVE  Returns'
<1>1. job' # "queued" /\ BackedUp /\ Gapless
  BY DEF OnTrack, RInv, Returns
<1>2. Jobs' /\ Uncommitted'
  BY <1>1 DEF Jobs, Uncommitted
<1>3. Gapless'
  BY <1>1 DEF Gapless, Ground, Moves, Ops, Kind
<1>4. BackedUp'
  BY <1>1, StepTypes DEF BackedUp, TagOps, Ops, Kind, Dst
<1>5. Retreating'
  BY DEF Retreating, Committed, Moves, Ops, Kind
<1> QED
  BY <1>2, <1>3, <1>4, <1>5 DEF Returns, Located, Folders, TagsKnown

\* Wherever undo stops, the files are where the rows say, but for one move.
LEMMA StopsRetreating ==
  ASSUME RInv, job = "done", UNCHANGED row, phase' = "idle",
         \A p \in Paths : fs[p].file \in Files => fs'[p].file = fs[p].file
  PROVE  /\ Held(fs', Left') \/ \E i \in Newest(Pending') \cap Moves : Held(fs', Pending' \ {i})
         /\ \A i \in Pending', j \in Moves : j < i => j \in Pending'
<1>0. \A S \in SUBSET Ops : Held(fs, S) => Held(fs', S)
  BY HeldKeeps
<1>1. Left' = Pending /\ Pending' = Pending /\ Pending \in SUBSET Ops
  BY DEF Left, Pending, Ops
<1>2. /\ Held(fs, Left) \/ \E i \in Newest(Pending) \cap Moves : Held(fs, Pending \ {i})
      /\ \A i \in Pending, j \in Moves : j < i => j \in Pending
  BY DEF Retreating, Committed, RInv, Returns
<1>3. CASE Held(fs, Left) /\ phase = "undo" /\ sub = "mark" /\ Newest(Pending) # {}
  <2>1. PICK i \in Newest(Pending) : TRUE
    BY <1>3
  <2>2. Left = Pending \ {i}
    BY <1>3, <2>1, OneNewest DEF Left, Pending
  <2>3. CASE i \in Moves
    BY <1>0, <1>1, <1>2, <1>3, <2>1, <2>2, <2>3
  <2>4. CASE i \notin Moves
    <3>1. \A f \in Files : Place(f, Pending \ {i}) = Place(f, Pending)
      BY <2>4, OnlyMoves
    <3>2. Held(fs, Pending)
      BY <1>3, <2>2, <3>1 DEF Held
    <3> QED
      BY <1>0, <1>1, <1>2, <3>2
  <2> QED
    BY <2>3, <2>4
<1>4. CASE ~(phase = "undo" /\ sub = "mark" /\ Newest(Pending) # {})
  <2>1. Left = Pending
    BY <1>4 DEF Left
  <2> QED
    BY <1>0, <1>1, <1>2, <2>1
<1>5. CASE ~Held(fs, Left)
  BY <1>0, <1>1, <1>2, <1>5
<1> QED
  BY <1>3, <1>4, <1>5

\* The process dies.
LEMMA CrashReturns == RInv /\ Crash => Returns'
<1> SUFFICES ASSUME RInv, Crash PROVE Returns'
  OBVIOUS
<1>1. /\ phase # "idle" /\ phase' = "idle" /\ completed' = {}
      /\ UNCHANGED <<fs, dirs, backup, row, snap, book, job, undos>>
  BY DEF Crash, disk, journal, jobs
<1>2. TypeOK /\ Jobs /\ Uncommitted /\ job # "queued"
  BY <1>1, Busy DEF RInv, JInv, IInv, Returns
<1>3. ~OnTrack'
  BY <1>1, <1>2 DEF OnTrack, RunOver, Jobs, TypeOK
<1>4. job \in {"failed", "canceled"} => \A b \in Books : snap'[b] = "none" /\ book'[b].at = "old"
  BY <1>1, <1>2 DEF Uncommitted
<1> QED
  BY <1>1, <1>3, <1>4, StopsRetreating, OffTrackReturns

\* An undo is asked for.
LEMMA RequestUndoReturns == RInv /\ RequestUndo => Returns'
<1> SUFFICES ASSUME RInv, RequestUndo PROVE Returns'
  OBVIOUS
<1>1. /\ phase = "idle" /\ UndoAllowed /\ phase' \in {"idle", "undo"}
      /\ phase' = "undo" => sub' = "act"
      /\ undos' = undos + 1
      /\ UNCHANGED <<fs, dirs, backup, row, snap, book, job, completed>>
  BY DEF RequestUndo, disk, journal
<1>2. TypeOK /\ Uncommitted /\ Retreating /\ undos \in Nat /\ undos' > 0
  BY <1>1, OrganizeAssumption DEF RInv, JInv, IInv, Returns, TypeOK
<1>3. ~OnTrack' /\ job \in {"done", "failed", "canceled"}
  BY <1>1, <1>2 DEF OnTrack, RunOver, UndoAllowed, TypeOK
<1>4. Pending' = Pending /\ Left' = Pending /\ Left = Pending
  BY <1>1 DEF Left, Pending, Ops
<1>5. job = "done" =>
        /\ Held(fs', Left') \/ \E i \in Newest(Pending') \cap Moves : Held(fs', Pending' \ {i})
        /\ \A i \in Pending', j \in Moves : j < i => j \in Pending'
  BY <1>1, <1>2, <1>4 DEF Retreating, Committed
<1>6. job \in {"failed", "canceled"} => \A b \in Books : snap'[b] = "none" /\ book'[b].at = "old"
  BY <1>1, <1>2 DEF Uncommitted
<1> QED
  BY <1>1, <1>2, <1>3, <1>5, <1>6, OffTrackReturns


\* Undo is at work on a job that has ended, for which none of the clauses about the run hold.
LEMMA OnUndo ==
  ASSUME RInv, phase = "undo", phase' \in {"idle", "undo"}, UNCHANGED <<job, undos>>
  PROVE  /\ job \in {"done", "failed", "canceled"} /\ undos > 0 /\ undos' > 0 /\ ~OnTrack'
         /\ job \in {"failed", "canceled"} => \A b \in Books : snap[b] = "none" /\ book[b].at = "old"
         /\ sub \in {"restore", "marksnap"} => Pending = {}
         /\ fs \in FsTypes /\ Pending \in SUBSET Ops /\ TypeOK
<1>1. Jobs /\ Uncommitted /\ TypeOK
  BY DEF RInv, JInv, IInv, Returns
<1>2. job \in {"done", "failed", "canceled"} /\ undos > 0 /\ undos' > 0
  BY <1>1 DEF Jobs
<1>3. ~OnTrack'
  BY <1>1, <1>2 DEF OnTrack, RunOver, TypeOK
<1> QED
  BY <1>1, <1>2, <1>3 DEF Jobs, Uncommitted, TypeOK, FsTypes, Pending

\* Undo passes over to the book rows, comes to its end, or ends without reversing.
LEMMA PassReturns ==
  ASSUME RInv, phase = "undo", UNCHANGED <<fs, dirs, backup, row, job, undos, completed>>,
         job \in {"failed", "canceled"} => \A b \in Books : snap'[b] = "none" /\ book'[b].at = "old",
         phase' = "idle" \/ (phase' = "undo" /\ sub' # "mark" /\ Pending = {})
  PROVE  Returns'
<1>1. /\ job \in {"done", "failed", "canceled"} /\ undos' > 0 /\ ~OnTrack'
      /\ Pending' = Pending
  BY OnUndo DEF Pending, Ops
<1>2. CASE phase' = "idle"
  BY <1>1, <1>2, StopsRetreating, OffTrackReturns
<1>3. CASE phase' = "undo" /\ sub' # "mark" /\ Pending = {}
  <2>1. Left = {} /\ Left' = {} /\ Newest(Pending) = {}
    BY <1>1, <1>3 DEF Left, Newest
  <2>2. job = "done" => Held(fs', Left')
    BY <2>1 DEF RInv, Returns, Retreating, Committed
  <2> QED
    BY <1>1, <1>3, <2>2, OffTrackReturns
<1> QED
  BY <1>2, <1>3

\* Neither a cancellation, nor the book rows, nor the end of undo moves a file.
LEMMA PassesReturn ==
  RInv /\ (UndoStopAtCancel \/ BeginPass2 \/ RestoreBook \/ MarkSnapshot \/ UndoEnd) => Returns'
<1> SUFFICES ASSUME RInv, UndoStopAtCancel \/ BeginPass2 \/ RestoreBook \/ MarkSnapshot \/ UndoEnd
             PROVE  Returns'
  OBVIOUS
<1>1. /\ phase = "undo" /\ UNCHANGED <<fs, dirs, backup, row, job, undos, completed>>
      /\ phase' \in {"idle", "undo"}
  BY DEF UndoStopAtCancel, BeginPass2, RestoreBook, MarkSnapshot, UndoEnd, UndoFails,
         disk, journal, jobs, bounds, Spend
<1>2. /\ job \in {"failed", "canceled"} => \A b \in Books : snap[b] = "none" /\ book[b].at = "old"
      /\ sub \in {"restore", "marksnap"} => Pending = {}
  BY <1>1, OnUndo
<1>3. job \in {"failed", "canceled"} => SnapsLeft = {} /\ Newest(SnapsLeft) = {}
  BY <1>2 DEF SnapsLeft, Newest
<1>4. job \in {"failed", "canceled"} => \A b \in Books : snap'[b] = "none" /\ book'[b].at = "old"
  <2>1. job \in {"failed", "canceled"} => UNCHANGED <<snap, book>>
    BY <1>3 DEF UndoStopAtCancel, BeginPass2, RestoreBook, MarkSnapshot, UndoEnd, journal
  <2> QED
    BY <1>2, <2>1
<1>5. phase' = "idle" \/ (phase' = "undo" /\ sub' # "mark" /\ Pending = {})
  BY <1>1, <1>2 DEF UndoStopAtCancel, BeginPass2, RestoreBook, MarkSnapshot, UndoEnd, UndoFails
<1> QED
  BY <1>1, <1>4, <1>5, PassReturns


\* The row of a step that undo has reversed is flipped, or undo ends without.
LEMMA UndoMarkReturns == RInv /\ UndoMark => Returns'
<1> SUFFICES ASSUME RInv, UndoMark PROVE Returns'
  OBVIOUS
<1>1. /\ phase = "undo" /\ sub = "mark" /\ UNCHANGED <<fs, dirs, snap, book, job, undos, completed>>
      /\ phase' \in {"idle", "undo"}
  BY DEF UndoMark, UndoFails, Spend
<1>2. PICK i \in Newest(Pending) :
        \/ Mark(i, "reverted") /\ sub' = "act" /\ phase' = "undo"
           /\ backup' = [backup EXCEPT ![i] = NoCopy]
        \/ phase' = "idle" /\ UNCHANGED <<row, backup>>
  BY <1>1 DEF UndoMark, UndoFails
<1>3. /\ job \in {"done", "failed", "canceled"} /\ undos' > 0 /\ ~OnTrack'
      /\ job \in {"failed", "canceled"} => \A b \in Books : snap[b] = "none" /\ book[b].at = "old"
      /\ Pending \in SUBSET Ops /\ TypeOK
  BY <1>1, OnUndo
<1>4. /\ i \in Pending /\ i \in Ops /\ Pending \ Newest(Pending) = Pending \ {i}
      /\ \A j \in Pending : j <= i /\ j \in Nat
      /\ i \in Nat
  BY <1>3, OneNewest
<1>5. CASE phase' = "idle" /\ UNCHANGED <<row, backup>>
  BY <1>1, <1>3, <1>5, StopsRetreating, OffTrackReturns
<1>6. CASE /\ Mark(i, "reverted") /\ sub' = "act" /\ phase' = "undo"
           /\ backup' = [backup EXCEPT ![i] = NoCopy]
  <2>1. row'[i] = "reverted" /\ \A j \in Ops : j # i => row'[j] = row[j]
    BY <1>3, <1>4, <1>6, MarkRows
  <2>2. Pending' = Pending \ {i} /\ Left' = Pending \ {i} /\ Left = Pending \ {i}
    BY <1>1, <1>4, <1>6, <2>1 DEF Pending, Left, Ops
  <2>3. ASSUME job = "done"
        PROVE  Held(fs', Left') /\ \A k \in Pending', j \in Moves : j < k => j \in Pending'
    <3>1. /\ Held(fs, Left) \/ \E k \in Newest(Pending) \cap Moves : Held(fs, Pending \ {k})
          /\ \A k \in Pending, j \in Moves : j < k => j \in Pending
      BY <2>3 DEF RInv, Returns, Retreating, Committed
    <3>2. \A k \in Newest(Pending) : k = i
      BY <1>2, <1>3, <1>4, OneNewest
    <3>3. Held(fs', Left')
      BY <1>1, <2>2, <3>1, <3>2
    <3>4. \A k \in Pending', j \in Moves : j < k => j \in Pending'
      BY <1>4, <2>2, <3>1, StepTypes
    <3> QED
      BY <3>3, <3>4
  <2>4. \A j \in Ops : backup'[j] \in {backup[j], NoCopy}
    BY <1>3, <1>4, <1>6 DEF TypeOK
  <2> QED
    BY <1>1, <1>3, <1>6, <2>3, <2>4, OffTrackReturns
<1> QED
  BY <1>2, <1>5, <1>6


\* Undo reverses the newest step its journal calls done, or ends without.
LEMMA UndoActReturns == RInv /\ UndoAct => Returns'
<1> SUFFICES ASSUME RInv, UndoAct PROVE Returns'
  OBVIOUS
<1>1. /\ phase = "undo" /\ sub = "act"
      /\ UNCHANGED <<backup, row, snap, book, job, completed>>
  BY DEF UndoAct, journal
<1>2. PICK i \in Newest(Pending) : Undoes(i)
  BY DEF UndoAct
<1>3. /\ undos' = undos
      /\ (phase' = "undo" /\ sub' = "mark") \/ (phase' = "idle" /\ sub' = "act")
  BY <1>1, <1>2 DEF Undoes, UndoFails, Spend
<1>4. /\ job \in {"done", "failed", "canceled"} /\ undos' > 0 /\ ~OnTrack'
      /\ job \in {"failed", "canceled"} => \A b \in Books : snap[b] = "none" /\ book[b].at = "old"
      /\ fs \in FsTypes /\ Pending \in SUBSET Ops /\ TypeOK
  BY <1>1, <1>3, OnUndo
<1>5. /\ i \in Pending /\ i \in Ops /\ Pending \ Newest(Pending) = Pending \ {i} /\ i \in Nat
      /\ \A j \in Pending : j <= i /\ j \in Nat
      /\ \A k \in Newest(Pending) : k = i
  <2>1. \A k \in Newest(Pending) : k \in Pending /\ k \in Nat /\ \A j \in Pending : j <= k
    BY <1>4, OneNewest
  <2> QED
    BY <1>2, <1>4, <2>1, OneNewest
<1>6. Pending' = Pending
  BY <1>1 DEF Pending, Ops
<1>7. CASE phase' = "idle"
  <2>1. \A p \in Paths : fs[p].file \in Files => fs'[p].file = fs[p].file
    <3>1. \/ UNCHANGED fs
          \/ /\ i \in Moves /\ fs[Src(i)] = NoCopy
             /\ fs' = [fs EXCEPT ![Src(i)] = fs[Dst(i)]]
      BY <1>1, <1>2, <1>7 DEF Undoes, NotRenamed, NotRestored
    <3> QED
      BY <1>4, <3>1, FreeHoldsNothing DEF FsTypes
  <2> QED
    BY <1>1, <1>4, <1>7, <2>1, StopsRetreating, OffTrackReturns
<1>8. CASE phase' = "undo" /\ sub' = "mark"
  <2>1. Left = Pending /\ Left' = Pending \ {i}
    BY <1>1, <1>5, <1>6, <1>8 DEF Left, Newest
  <2>2. ASSUME job = "done"
        PROVE  Held(fs', Pending \ {i}) /\ \A k \in Pending', j \in Moves : j < k => j \in Pending'
    <3>1. /\ Held(fs, Pending) \/ (i \in Moves /\ Held(fs, Pending \ {i}))
          /\ \A k \in Pending, j \in Moves : j < k => j \in Pending
      BY <1>5, <2>1, <2>2 DEF RInv, Returns, Retreating, Committed
    <3>2. CASE i \in Moves
      <4>1. /\ i \notin TagOps /\ Kind(i) \notin {"mkdir", "rmdir", "tag"}
            /\ Src(i) \in Paths /\ Dst(i) \in Paths
        BY <3>2, StepTypes DEF TagOps, Moves, MoveKinds
      <4>2. /\ Kind(i) = "leg2" => i - 1 \in Pending
            /\ Kind(i) = "leg1" => i + 1 \notin Pending
        BY <1>5, <3>1, <3>2, LegTwo
      <4>3. ReversedMove(i)
        BY <1>2, <1>8, <4>1 DEF Undoes, UndoFails
      <4>4. CASE Held(fs, Pending)
        <5>1. fs[Dst(i)].file \in Files
          BY <1>4, <1>5, <3>2, <4>2, <4>4, HeldAtDst
        <5>2. Renamed(Dst(i), Src(i))
          BY <4>3, <5>1, FreeHoldsNothing DEF ReversedMove, AlreadyBack
        <5>3. fs' = Moved(fs, Dst(i), Src(i)) /\ fs[Src(i)] = NoCopy
          BY <5>2 DEF Renamed, Moved
        <5>4. \A f \in Files : fs'[Place(f, Pending \ {i})] = fs[Place(f, Pending)]
          BY <1>4, <1>5, <3>2, <4>2, <4>4, <5>3, Retreat
        <5> QED
          BY <3>1, <1>6, <4>4, <5>4 DEF Held
      <4>5. CASE Held(fs, Pending \ {i})
        <5> DEFINE T == Pending \ {i}
        <5>1. /\ T \in SUBSET Ops /\ i \notin T
              /\ Kind(i) = "leg2" => i - 1 \in T
              /\ Kind(i) = "leg1" => i + 1 \notin T
          BY <1>4, <1>5, <4>2
        <5> HIDE DEF T
        <5>2. Held(fs, T)
          BY <4>5 DEF T
        <5>3. fs[Src(i)].file \in Files
          BY <3>2, <5>1, <5>2, HeldAtSrc
        <5>4. UNCHANGED fs
          BY <4>3, <5>3, FreeHoldsNothing DEF ReversedMove, Renamed
        <5> QED
          BY <1>6, <3>1, <4>5, <5>4
      <4> QED
        BY <3>1, <4>4, <4>5
    <3>3. CASE i \notin Moves
      <4>1. Held(fs, Pending) /\ \A f \in Files : Place(f, Pending \ {i}) = Place(f, Pending)
        BY <3>1, <3>3, OnlyMoves
      <4>2. Held(fs, Pending \ {i})
        BY <4>1 DEF Held
      <4>3. CASE i \in TagOps
        <5>1. Moves \subseteq Pending
          BY <1>5, <3>1, <4>3, OrganizeAssumption
        <5>2. RestoreTags(i)
          BY <1>2, <1>8, <3>3, <4>3 DEF Undoes, UndoFails, TagOps
        <5>3. CASE ~OwnsBackup(i)
          BY <1>6, <3>1, <4>2, <5>2, <5>3 DEF RestoreTags
        <5>4. CASE OwnsBackup(i)
          <6>1. PICK f \in Files : New[f] = Dst(i) /\ backup[i].file = f
            BY <4>3, <5>4 DEF RInv, Returns, BackedUp, OwnsBackup
          <6>2. fs[Dst(i)].file = f
            BY <4>1, <5>1, <6>1, Extremes DEF Held
          <6>3. fs' = [fs EXCEPT ![Dst(i)] = backup[i]]
            BY <5>2, <5>4 DEF RestoreTags
          <6>4. \A p \in Paths : fs[p].file \in Files => fs'[p].file = fs[p].file
            BY <1>4, <6>1, <6>2, <6>3 DEF FsTypes
          <6>5. Held(fs', Pending \ {i})
            BY <4>2, <6>4, HeldKeeps
          <6> QED
            BY <1>6, <3>1, <6>5
        <5> QED
          BY <5>3, <5>4
      <4>4. CASE i \notin TagOps
        <5>1. UNCHANGED fs
          BY <1>2, <1>5, <1>8, <3>3, <4>4 DEF Undoes, UndoFails, TagOps
        <5> QED
          BY <1>6, <3>1, <4>2, <5>1
      <4> QED
        BY <4>3, <4>4
    <3> QED
      BY <3>2, <3>3
  <2> QED
    BY <1>1, <1>4, <1>8, <2>1, <2>2, OffTrackReturns
<1> QED
  BY <1>3, <1>7, <1>8


\* A cancellation only asks; whoever is at work will see.
LEMMA CancelQuiet == RInv /\ Cancel => Returns'
BY QuietReturns DEF RInv, Cancel, Spend, disk, journal, jobs

-----------------------------------------------------------------------------
(* The results. *)

\* Every step keeps the files where the steps in effect have put them.
THEOREM NextRInv == RInv /\ [Next]_vars => RInv'
<1> SUFFICES ASSUME RInv, [Next]_vars PROVE RInv'
  OBVIOUS
<1>1. JInv'
  BY NextJInv DEF RInv
<1>2. CASE Next
  BY <1>1, <1>2, StartRunReturns, StopAtCancelReturns, InsertOpReturns, MkdirReturns, MovesReturn,
     RmdirReturns, BackupTagsReturns, WriteTagsReturns, MarkDoneReturns, FinalizeReturns,
     CleanupReturns, RollbackActReturns, RollbackMarkReturns, RollbackEndReturns,
     UndoActReturns, UndoMarkReturns, PassesReturn, RequestUndoReturns, CancelQuiet,
     CrashReturns, DropFileReturns
     DEF Next, Program, Execute, Rollback, Undo, RInv
<1>3. CASE UNCHANGED vars
  <2>1. Returns'
    BY <1>3, QuietReturns DEF RInv, vars, disk, journal, jobs, control, bounds
  <2> QED
    BY <1>1, <2>1 DEF RInv
<1> QED
  BY <1>1, <1>2, <1>3 DEF RInv

\* The invariant holds throughout every run.
THEOREM ReturnsInvariance == Spec => []RInv
<1>1. Init => RInv
  BY InitIInv, InitJournaled, InitReturns DEF RInv, JInv
<1>2. RInv /\ [Next]_vars => RInv'
  BY NextRInv
<1> QED
  BY <1>1, <1>2, PTL DEF Spec

\* A run that failed or was canceled, and whose rollback reported no error, has left
\* the library as it found it, and nothing for undo to do.
THEOREM RollsBackClean == Spec => []CleanRollback
<1>1. RInv => CleanRollback
  <2> SUFFICES ASSUME RInv, phase = "idle", job \in {"failed", "canceled"}, ~rbErr, undos = 0
               PROVE  /\ \A f \in Files : /\ fs[Old[f]].file = f
                                          /\ (fs[Old[f]].tags = "old" \/ KeptNewTags(f))
                      /\ dirs = InitialDirs
                      /\ \A b \in Books : book[b].at = "old"
                      /\ Pending \cup SnapsLeft = {}
    BY DEF CleanRollback
  <2>1. OnTrack /\ completed = {} /\ Eff = {} /\ Returns /\ dirs \subseteq Dirs
    BY DEF OnTrack, RunOver, RInv, JInv, IInv, TypeOK, Returns, Jobs, Eff
  <2>2. \A f \in Files : Place(f, {}) = Old[f]
    BY Extremes
  <2>3. \A f \in Files : fs[Old[f]].file = f
    BY <2>1, <2>2 DEF Returns, Located, Held
  <2>4. \A f \in Files : fs[Old[f]].tags = "old" \/ KeptNewTags(f)
    BY <2>1, <2>2 DEF Returns, TagsKnown, Known
  <2>5. dirs = InitialDirs
    BY <2>1 DEF Returns, Folders, Built, InitialDirs
  <2>6. \A b \in Books : book[b].at = "old" /\ snap[b] = "none"
    BY <2>1 DEF Returns, Uncommitted
  <2>7. Pending = {} /\ SnapsLeft = {}
    BY <2>1, <2>6 DEF Returns, Gapless, SnapsLeft
  <2> QED
    BY <2>3, <2>4, <2>5, <2>6, <2>7
<1> QED
  BY <1>1, ReturnsInvariance, PTL

-----------------------------------------------------------------------------
(* Organize implements Relocation. *)

\* Where every file is at its place of a layout, every book is.
LEMMA AllThere ==
  ASSUME NEW place, \A f \in Files : fs[place[f]].file = f
  PROVE  BooksAt(place) = Books
BY DEF BooksAt

\* The rows are switched once every file has arrived.
LEMMA FinalizeCommits == RInv /\ Finalize /\ ~UNCHANGED book => Rel!Commit
<1> SUFFICES ASSUME RInv, Finalize, ~UNCHANGED book PROVE Rel!Commit
  OBVIOUS
<1>1. /\ phase = "exec" /\ pos = Len(Steps) + 1 /\ UNCHANGED fs
      /\ \A b \in Books : book'[b].at = "new"
  BY DEF Finalize, disk
<1>2. Moves \subseteq completed /\ Held(fs, completed) /\ OnTrack
  BY <1>1, AllMoved, OnExec
<1>3. BooksAt(New) = Books
  BY <1>2, Extremes, AllThere DEF Held
<1>4. \A b \in Books : book[b].at = "old"
  BY <1>2 DEF RInv, Returns, Uncommitted
<1>5. BooksAt(Old)' = BooksAt(Old) /\ BooksAt(New)' = BooksAt(New)
  BY <1>1 DEF BooksAt
<1> QED
  BY <1>1, <1>3, <1>4, <1>5 DEF Rel!Commit

\* A row is put back when every file is.
LEMMA RestoreReverts ==
  RInv /\ RestoreBook /\ ~UNCHANGED book => \E b \in Books : Rel!Revert(b)
<1> SUFFICES ASSUME RInv, RestoreBook, ~UNCHANGED book PROVE \E b \in Books : Rel!Revert(b)
  OBVIOUS
<1>1. /\ phase = "undo" /\ sub = "restore" /\ UNCHANGED <<fs, job, undos>>
      /\ phase' \in {"idle", "undo"}
  BY DEF RestoreBook, disk, UndoFails, Spend
<1>2. PICK b \in Newest(SnapsLeft) :
        book' = [book EXCEPT ![b] = [at |-> "old", base |-> "root", state |-> Prior[b]]]
  BY DEF RestoreBook
<1>3. b \in Books /\ snap[b] = "done"
  BY DEF Newest, SnapsLeft
<1>4. Pending = {} /\ job = "done" /\ TypeOK
  BY <1>1, <1>3, OnUndo
<1>5. Held(fs, {})
  BY <1>1, <1>4 DEF RInv, Returns, Retreating, Committed, Left, Newest
<1>6. BooksAt(Old) = Books
  BY <1>5, Extremes, AllThere DEF Held
<1>7. BooksAt(Old)' = BooksAt(Old) /\ BooksAt(New)' = BooksAt(New)
  BY <1>1 DEF BooksAt
<1>8. \A c \in Books : book'[c].at = IF c = b THEN "old" ELSE book[c].at
  BY <1>2, <1>3, <1>4 DEF TypeOK
<1> QED
  BY <1>3, <1>6, <1>7, <1>8 DEF Rel!Revert

\* Only these two touch where a book's rows say it is.
LEMMA RowsStayPut == [Next]_vars => Finalize \/ RestoreBook \/ UNCHANGED book
BY DEF Next, Program, Execute, Rollback, Undo, vars, disk, journal, jobs, control, bounds,
       StartRun, StopAtCancel, InsertOp, Mkdir, Move, CaseFixLeg1, CaseFixLeg2, Rmdir,
       BackupTags, WriteTags, MarkDone, Cleanup, RollbackAct, RollbackMark, RollbackEnd,
       UndoAct, UndoMark, UndoStopAtCancel, BeginPass2, MarkSnapshot, UndoEnd, RequestUndo,
       Cancel, Crash, DropFile

\* The database follows the disk: the run implements the relocation of its books.
THEOREM FollowsTheDisk == Spec => Relocated
<1>1. Init => Rel!Init
  <2> SUFFICES ASSUME Init PROVE Rel!Init
    OBVIOUS
  <2>1. Returns /\ job = "queued" /\ completed = {} /\ phase = "idle"
    BY InitReturns DEF Init
  <2>2. Held(fs, {})
    BY <2>1 DEF Returns, Located, OnTrack, Eff
  <2>3. BooksAt(Old) = Books
    BY <2>2, Extremes, AllThere DEF Held
  <2>4. BooksAt(New) \in SUBSET Books
    BY DEF BooksAt
  <2>5. [b \in Books |-> book[b].at] = [b \in Books |-> "old"]
    BY DEF Init
  <2> QED
    BY <2>3, <2>4, <2>5 DEF Rel!Init
<1>2. RInv /\ [Next]_vars => [Rel!Next]_Rel!vars
  <2> SUFFICES ASSUME RInv, [Next]_vars PROVE Rel!Next
    OBVIOUS
  <2>1. CASE UNCHANGED book
    <3>1. BooksAt(Old)' \in SUBSET Books /\ BooksAt(New)' \in SUBSET Books
      BY DEF BooksAt, Books
    <3> QED
      BY <2>1, <3>1 DEF Rel!Next, Rel!Rearrange, Books
  <2>2. CASE ~UNCHANGED book
    BY <2>2, RowsStayPut, FinalizeCommits, RestoreReverts DEF Rel!Next
  <2> QED
    BY <2>1, <2>2
<1> QED
  BY <1>1, <1>2, ReturnsInvariance, PTL DEF Spec, Relocated, Rel!Spec

-----------------------------------------------------------------------------
(***************************************************************************)
(* For every library and plan: when an undo has returned without error,    *)
(* the library is as it was before the run, whatever failed before it.     *)
(*                                                                         *)
(* After a rollback that reported errors the steps in effect have gaps,    *)
(* and a file may have a copy at each end of a move, so it no longer has   *)
(* one place. What is left of it is enough: no file leaves the few paths   *)
(* of its own way; a row says reverted only once the file is off its new   *)
(* path; the tags of a file are the old ones wherever no tag write of it   *)
(* is still to be taken back, or else it has two copies; and a pruned      *)
(* folder comes back with the file that was moved out of it.               *)
(***************************************************************************)
\* The steps that have been taken back, whether their row says so already or not.
Reversed == {i \in Ops : row[i] = "reverted"}
            \cup (IF phase = "rollback" /\ sub = "mark" THEN Newest(completed) ELSE {})
            \cup (IF phase = "undo" /\ sub = "mark" THEN Newest(Pending) ELSE {})
Forward == job = "queued" \/ phase \in {"exec", "cleanup"} =>
             \A i \in Ops : row[i] # "reverted"

\* The paths of a file: its old one, its new one, the temporary one of its case fix.
Way(f) == {Old[f], New[f]} \cup {Dst(i) : i \in {j \in Moves : FixedBy(f, j)}}
OnItsWay == \A f \in Files :
  /\ \E p \in Paths : fs[p].file = f
  /\ \A p \in Paths : fs[p].file = f => p \in Way(f)

\* Once the step that brought it to its new path was taken back, it is elsewhere.
Aside(f) == \E p \in Paths \ {New[f]} : fs[p].file = f
Back == \A f \in Files, i \in Moves \cap Reversed : Dst(i) = New[f] => Aside(f)

\* Where no tag write is left to take back, a file has its old tags, or two copies, one
\* of them with these: the tags were restored at a path the file had left.
OldTags(f) == \A p \in Paths : fs[p].file = f => fs[p].tags = "old"
Twice(f) == \E p, q \in Paths : p # q /\ fs[p].file = f /\ fs[q].file = f
Settled(f) == OldTags(f) \/ Twice(f)
Restored(j) == \/ row[j] = "none" \/ j \in Reversed
               \/ row[j] = "done" /\ backup[j] = NoCopy
Untagged(f) == \A j \in TagOps : Dst(j) = New[f] => Restored(j)
TagsBack == job # "done" => \A f \in Files : Untagged(f) => Settled(f)
RowsDone == phase \in {"exec", "rollback"} => \A i \in completed \cap TagOps : row[i] = "done"

\* The folders of a file at its old path exist, and a folder from before the run that
\* was pruned comes back with a move that is still to be taken back.
Housed == \A f \in Files : fs[Old[f]] # NoCopy => Within[Old[f]] \subseteq dirs
Emptied(i) == row[i] = "done" /\ i \notin Reversed
FoldersBack == \A d \in InitialDirs : d \in dirs \/ \E i \in Moves, f \in Files :
                 Emptied(i) /\ Src(i) = Old[f] /\ d \in Within[Old[f]]

\* A book row is as before the run until the commit and after its snapshot was restored.
AsBefore(b) == book[b].at = "old" /\ book[b].state = Prior[b]
RowsBack ==
  /\ \A b \in Books : snap[b] # "done" => AsBefore(b)
  /\ phase = "undo" /\ sub = "marksnap" => \A b \in Newest(SnapsLeft) : AsBefore(b)

\* An undo that is done has nothing left to do.
Undone ==
  /\ undo = "done" => phase = "idle" /\ job \notin {"queued", "running"} /\ Pending \cup SnapsLeft = {}
  /\ phase = "undo" => undo = "running"

Undoable == /\ Forward /\ OnItsWay /\ Back /\ TagsBack /\ RowsDone /\ Housed /\ FoldersBack
            /\ RowsBack /\ Undone
UInv == RInv /\ Undoable

-----------------------------------------------------------------------------
(* The ways of the files. *)

\* A move takes a file of the run along its way, away from its old path or to its new one.
LEMMA OnTheWay ==
  ASSUME NEW i \in Moves
  PROVE  \E f \in Files : /\ Carries(f, i)
                          /\ Src(i) \in Way(f) \ {New[f]} /\ Dst(i) \in Way(f) \ {Old[f]}
                          /\ Src(i) # Dst(i)
<1>1. PICK f \in Files : Carries(f, i)
  BY MoveShape DEF Carries
<1>2. /\ Old[f] # New[f] /\ Old[f] \notin Temps /\ New[f] \notin Temps /\ i \in Int
      /\ \A j \in Moves : Kind(j) = "leg1" => Dst(j) \in Temps
  BY <1>1, StepTypes, OrganizeAssumption DEF Carries
<1>3. CASE MovedBy(f, i)
  BY <1>1, <1>2, <1>3 DEF MovedBy, Way
<1>4. CASE FixedBy(f, i)
  BY <1>1, <1>2, <1>4 DEF FixedBy, Way
<1>5. CASE i - 1 \in Moves /\ FixedBy(f, i - 1)
  <2>1. Src(i) = Dst(i - 1) /\ Dst(i) = New[f] /\ Dst(i - 1) \in Temps
    BY <1>2, <1>5 DEF FixedBy
  <2> QED
    BY <1>1, <1>2, <1>5, <2>1 DEF Way
<1> QED
  BY <1>1, <1>3, <1>4, <1>5 DEF Carries

\* Two files have no path in common.
LEMMA WaysApart ==
  ASSUME NEW f \in Files, NEW g \in Files, f # g
  PROVE  Way(f) \cap Way(g) = {}
<1>1. /\ {Old[f], New[f]} \cap {Old[g], New[g]} = {}
      /\ \A x \in Files : Old[x] \notin Temps /\ New[x] \notin Temps
  BY PlanAssumption, OrganizeAssumption
<1>2. \A j \in Moves, x \in Files : FixedBy(x, j) => Dst(j) \in Temps /\ Src(j) = Old[x]
  BY OrganizeAssumption DEF FixedBy
<1>3. ASSUME NEW j \in Moves, NEW k \in Moves, FixedBy(f, j), FixedBy(g, k), Dst(j) = Dst(k)
      PROVE  FALSE
  <2>1. j = k
    BY <1>3, PlanAssumption
  <2> QED
    BY <1>1, <1>2, <1>3, <2>1
<1> QED
  BY <1>1, <1>2, <1>3 DEF Way

\* A way consists of paths of the library.
LEMMA WaysArePaths == \A f \in Files : Way(f) \subseteq Paths /\ Old[f] \in Paths /\ New[f] \in Paths
BY StepTypes, OrganizeAssumption DEF Way

\* No move goes to where a file was.
LEMMA NotToOld == \A i \in Moves, f \in Files : Dst(i) # Old[f]
<1> SUFFICES ASSUME NEW i \in Moves, NEW f \in Files, Dst(i) = Old[f] PROVE FALSE
  OBVIOUS
<1>1. PICK g \in Files : Dst(i) \in Way(g) \ {Old[g]}
  BY OnTheWay
<1>2. Old[f] \in Way(f)
  BY DEF Way
<1> QED
  BY <1>1, <1>2, WaysApart

-----------------------------------------------------------------------------
(* What a step does to the copies of the files. *)

\* The files stay on their ways, and no file gets other tags or fewer copies.
NoWorse == /\ OnItsWay'
           /\ \A f \in Files : (OldTags(f) => OldTags(f)') /\ (Twice(f) => Twice(f)')
AsideStay == \A f \in Files : Aside(f) => Aside(f)'

\* A move, its reversal, or either failing with a copy beside the file.
LEMMA Rearranged ==
  ASSUME fs \in FsTypes, OnItsWay, NEW i \in Moves, NEW p, NEW q,
         <<p, q>> \in {<<Src(i), Dst(i)>>, <<Dst(i), Src(i)>>},
         \/ fs' = fs
         \/ fs[q] = NoCopy /\ fs' = [fs EXCEPT ![p] = NoCopy, ![q] = fs[p]]
         \/ fs[q] = NoCopy /\ fs' = [fs EXCEPT ![q] = fs[p]]
  PROVE  NoWorse /\ (q = Src(i) => AsideStay)
<1>1. PICK g \in Files : /\ Src(i) \in Way(g) \ {New[g]} /\ Dst(i) \in Way(g) \ {Old[g]}
                         /\ Src(i) # Dst(i)
  BY OnTheWay
<1>2. CASE fs' = fs
  BY <1>2 DEF NoWorse, OnItsWay, OldTags, Twice, Aside, AsideStay, Way
<1>3. CASE fs[q] = NoCopy /\ fs' # fs
  <2>1. /\ p \in Way(g) /\ q \in Way(g) /\ p # q /\ p \in Paths /\ q \in Paths
        /\ q = Src(i) => q # New[g]
    BY <1>1, WaysArePaths
  <2>2. /\ fs'[q] = fs[p] /\ fs'[p] \in {fs[p], NoCopy}
        /\ \A r \in Paths : r \notin {p, q} => fs'[r] = fs[r]
    BY <1>3, <2>1 DEF FsTypes
  <2>3. \A f \in Files : fs[q].file # f /\ NoCopy.file # f
    BY <1>3, FreeHoldsNothing
  <2>4. fs[p].file \in Files => fs[p].file = g
    BY <1>1, <2>1, WaysApart DEF OnItsWay
  <2>5. \A f \in Files, r \in Paths : fs'[r].file = f =>
          r \in Way(f) /\ \E s \in Paths : fs[s].file = f /\ fs'[r] = fs[s]
    BY <2>1, <2>2, <2>3, <2>4 DEF OnItsWay
  <2>6. \A f \in Files, r \in Paths : fs[r].file = f =>
          fs'[IF r = p /\ fs'[p] # fs[p] THEN q ELSE r].file = f
    BY <2>1, <2>2, <2>3
  <2>7. OnItsWay'
    <3>1. \A f \in Files : \E r \in Paths : fs'[r].file = f
      BY <2>1, <2>6 DEF OnItsWay
    <3> QED
      BY <2>5, <3>1 DEF OnItsWay, Way
  <2>8. ASSUME NEW f \in Files, OldTags(f) PROVE OldTags(f)'
    BY <2>5, <2>8 DEF OldTags
  <2>9. ASSUME NEW f \in Files, Twice(f) PROVE Twice(f)'
    <3>1. PICK r, s \in Paths : r # s /\ fs[r].file = f /\ fs[s].file = f
      BY <2>9 DEF Twice
    <3>2. r # q /\ s # q
      BY <2>3, <3>1
    <3> QED
      BY <2>1, <2>6, <3>1, <3>2 DEF Twice
  <2>10. ASSUME NEW f \in Files, Aside(f), q = Src(i) PROVE Aside(f)'
    <3>1. PICK r \in Paths \ {New[f]} : fs[r].file = f
      BY <2>10 DEF Aside
    <3>2. CASE r = p /\ fs'[p] # fs[p]
      BY <2>1, <2>4, <2>6, <2>10, <3>1, <3>2 DEF Aside
    <3>3. CASE ~(r = p /\ fs'[p] # fs[p])
      BY <2>6, <3>1, <3>3 DEF Aside
    <3> QED
      BY <3>2, <3>3
  <2> QED
    BY <2>7, <2>8, <2>9, <2>10 DEF NoWorse, AsideStay
<1> QED
  BY <1>2, <1>3

\* Where a reversed move leaves its file.
LEMMA TakenBack ==
  ASSUME fs \in FsTypes, OnItsWay, NEW i \in Moves, ReversedMove(i), NEW f \in Files, Dst(i) = New[f]
  PROVE  Aside(f)'
<1>1. PICK g \in Files : /\ Src(i) \in Way(g) \ {New[g]} /\ Dst(i) \in Way(g) \ {Old[g]}
                         /\ Src(i) # Dst(i)
  BY OnTheWay
<1>2. g = f
  BY <1>1, WaysApart DEF Way
<1>3. Src(i) \in Paths /\ Dst(i) \in Paths /\ Src(i) # New[f]
  BY <1>1, <1>2, StepTypes
<1>4. PICK p \in Paths : fs[p].file = f
  BY DEF OnItsWay
<1>5. CASE AlreadyBack(i) /\ UNCHANGED fs
  BY <1>4, <1>5, FreeHoldsNothing DEF AlreadyBack, Aside
<1>6. CASE Renamed(Dst(i), Src(i))
  <2>1. p # Src(i)
    BY <1>4, <1>6, FreeHoldsNothing DEF Renamed
  <2>2. fs'[Src(i)] = fs[Dst(i)] /\ \A r \in Paths : r \notin {Src(i), Dst(i)} => fs'[r] = fs[r]
    BY <1>1, <1>3, <1>6 DEF Renamed, FsTypes
  <2>3. CASE p = Dst(i)
    BY <1>3, <1>4, <2>2, <2>3 DEF Aside
  <2>4. CASE p # Dst(i)
    BY <1>3, <1>4, <2>1, <2>2, <2>4 DEF Aside
  <2> QED
    BY <2>3, <2>4
<1> QED
  BY <1>5, <1>6 DEF ReversedMove

\* A tag backup is copied to the new path of its file.
LEMMA TagsRestored ==
  ASSUME RInv, OnItsWay, NEW i \in TagOps, RestoreTags(i)
  PROVE  /\ NoWorse /\ AsideStay
         /\ OwnsBackup(i) => \A f \in Files : Dst(i) = New[f] => Settled(f)'
<1>1. CASE ~OwnsBackup(i)
  BY <1>1 DEF RestoreTags, NoWorse, OnItsWay, OldTags, Twice, Aside, AsideStay, Way
<1>2. CASE OwnsBackup(i)
  <2>1. PICK g \in Files : New[g] = Dst(i) /\ backup[i].file = g /\ backup[i].tags = "old"
    BY <1>2 DEF RInv, Returns, BackedUp, OwnsBackup
  <2>2. fs \in FsTypes /\ Dst(i) \in Paths /\ Dst(i) \in Way(g)
    BY <2>1, StepTypes DEF RInv, JInv, IInv, TypeOK, FsTypes, Way
  <2>3. fs'[Dst(i)] = backup[i] /\ \A r \in Paths : r # Dst(i) => fs'[r] = fs[r]
    BY <1>2, <2>2 DEF RestoreTags, FsTypes
  <2>4. fs[Dst(i)].file \in Files => fs[Dst(i)].file = g
    BY <2>2, WaysApart DEF OnItsWay
  <2>5. \A f \in Files, r \in Paths :
          /\ fs[r].file = f => fs'[r].file = f
          /\ fs'[r].file = f => r \in Way(f) /\ (fs'[r].tags = "old" \/ fs'[r] = fs[r])
    BY <2>1, <2>2, <2>3, <2>4 DEF OnItsWay
  <2>6. OnItsWay'
    BY <2>5 DEF OnItsWay, Way
  <2>7. \A f \in Files : (OldTags(f) => OldTags(f)') /\ (Twice(f) => Twice(f)')
    BY <2>5 DEF OldTags, Twice
  <2>8. \A f \in Files : Aside(f) => Aside(f)'
    BY <2>5 DEF Aside
  <2>9. ASSUME NEW f \in Files, Dst(i) = New[f] PROVE Settled(f)'
    <3>1. f = g
      BY <2>1, <2>9, PlanAssumption
    <3> QED
      BY <2>1, <2>2, <2>3, <3>1 DEF Settled, OldTags, Twice
  <2> QED
    BY <2>6, <2>7, <2>8, <2>9 DEF NoWorse, AsideStay
<1> QED
  BY <1>1, <1>2

\* New tags are written to a file at its new path; every other keeps its own.
LEMMA Retagging ==
  ASSUME fs \in FsTypes, OnItsWay, NEW i \in TagOps,
         \A p \in Paths : fs'[p].file = fs[p].file, \A p \in Paths : p # Dst(i) => fs'[p] = fs[p]
  PROVE  /\ OnItsWay'
         /\ \A f \in Files : New[f] # Dst(i) /\ Settled(f) => Settled(f)'
<1>1. PICK g \in Files : New[g] = Dst(i)
  BY PlanAssumption
<1>2. Dst(i) \in Paths /\ Dst(i) \in Way(g)
  BY <1>1, StepTypes DEF Way
<1>3. \A f \in Files : New[f] # Dst(i) => fs[Dst(i)].file # f
  BY <1>1, <1>2, WaysApart DEF OnItsWay
<1>4. OnItsWay'
  BY DEF OnItsWay, Way
<1>5. \A f \in Files : New[f] # Dst(i) /\ OldTags(f) => OldTags(f)'
  BY <1>2, <1>3 DEF OldTags
<1>6. \A f \in Files : Twice(f) => Twice(f)'
  BY DEF Twice
<1> QED
  BY <1>4, <1>5, <1>6 DEF Settled

\* Somebody's file comes to a free path.
LEMMA DroppedBeside ==
  ASSUME fs \in FsTypes, OnItsWay, NEW p \in Paths, NEW x \in Foreign, fs[p] = NoCopy,
         fs' = [fs EXCEPT ![p] = [file |-> x, tags |-> "old"]]
  PROVE  NoWorse /\ AsideStay
<1>1. \A f \in Files : fs[p].file # f /\ fs'[p].file # f
  BY FreeHoldsNothing, OrganizeAssumption DEF FsTypes
<1>2. \A r \in Paths : r # p => fs'[r] = fs[r]
  BY DEF FsTypes
<1>3. OnItsWay'
  BY <1>1, <1>2 DEF OnItsWay, Way
<1>4. \A f \in Files : (OldTags(f) => OldTags(f)') /\ (Twice(f) => Twice(f)') /\ (Aside(f) => Aside(f)')
  BY <1>1, <1>2 DEF OldTags, Twice, Aside
<1> QED
  BY <1>3, <1>4 DEF NoWorse, AsideStay

-----------------------------------------------------------------------------
(* What keeps each part of the invariant. *)

\* No file is less settled, and no tag write is taken back or forgotten.
LEMMA TagsKeep ==
  ASSUME TagsBack, job' # "done" => job # "done",
         \A f \in Files : Untagged(f)' => Settled(f)' \/ (Untagged(f) /\ (Settled(f) => Settled(f)'))
  PROVE  TagsBack'
BY DEF TagsBack

\* A file that gets no worse stays settled.
LEMMA NoWorseSettles == NoWorse => \A f \in Files : Settled(f) => Settled(f)'
BY DEF NoWorse, Settled

\* Folders are only added.
LEMMA HousedKeeps ==
  ASSUME Housed, dirs \subseteq dirs',
         \A f \in Files : fs'[Old[f]] # NoCopy => fs[Old[f]] # NoCopy \/ Within[Old[f]] \subseteq dirs'
  PROVE  Housed'
BY DEF Housed

\* Or an empty one is removed.
LEMMA HousedKeepsEmpty ==
  ASSUME Housed, UNCHANGED fs, NEW d, dirs' = dirs \ {d}, Empty(d)
  PROVE  Housed'
BY WaysArePaths DEF Housed, Empty

\* What was there before the run stays, or waits for the same move.
LEMMA FoldersKeep ==
  ASSUME FoldersBack, InitialDirs \cap dirs \subseteq dirs',
         \A i \in Moves : Emptied(i) =>
            Emptied(i)' \/ \A f \in Files : Src(i) = Old[f] => Within[Old[f]] \subseteq dirs'
  PROVE  FoldersBack'
<1> SUFFICES ASSUME NEW d \in InitialDirs, d \notin dirs'
             PROVE  \E i \in Moves, f \in Files : Emptied(i)' /\ Src(i) = Old[f] /\ d \in Within[Old[f]]
  BY DEF FoldersBack, InitialDirs, Created, Moves, Ops, Kind, Dst, Src
<1>1. PICK i \in Moves, f \in Files : Emptied(i) /\ Src(i) = Old[f] /\ d \in Within[Old[f]]
  BY DEF FoldersBack
<1> QED
  BY <1>1

\* A step touches neither files nor folders, and at most flips the row of a step that has
\* been taken back, or drops its backup.
LEMMA QuietUndoable ==
  ASSUME UInv, UNCHANGED <<fs, dirs>>, job' # "done" => job # "done",
         Reversed' \subseteq Reversed,
         \A i \in Ops : row'[i] = row[i] \/ (i \in Reversed /\ row'[i] = "reverted"),
         \A i \in TagOps : backup'[i] = backup[i] \/ i \in Reversed \/ job' = "done",
         Forward', RowsDone', RowsBack', Undone'
  PROVE  Undoable'
<1>1. OnItsWay' /\ Housed' /\ \A f \in Files : (Aside(f) <=> Aside(f)') /\ (Settled(f) <=> Settled(f)')
  BY DEF UInv, Undoable, OnItsWay, Way, Housed, Aside, Settled, OldTags, Twice
<1>2. Back'
  BY <1>1 DEF UInv, Undoable, Back, Moves, Ops, Kind, Dst
<1>3. FoldersBack'
  <2>1. \A i \in Moves : Emptied(i) => Emptied(i)'
    BY StepTypes DEF Emptied
  <2> QED
    BY <2>1, FoldersKeep DEF UInv, Undoable
<1>4. TagsBack'
  <2>1. CASE job' = "done"
    BY <2>1 DEF TagsBack
  <2>2. CASE job' # "done"
    <3>1. \A i \in TagOps : Restored(i)' => Restored(i)
      BY <2>2, StepTypes DEF Restored
    <3>2. \A f \in Files : Untagged(f)' => Untagged(f)
      BY <3>1 DEF Untagged, TagOps, Ops, Kind, Dst
    <3> QED
      BY <1>1, <3>2, TagsKeep DEF UInv, Undoable
  <2> QED
    BY <2>1, <2>2
<1> QED
  BY <1>1, <1>2, <1>3, <1>4 DEF Undoable

\* The parts about memory, rows and jobs, in Execute.
LEMMA ExecUndoable ==
  ASSUME UInv, phase = "exec", UNCHANGED <<snap, book, jobs>>,
         phase' = "exec" \/ (phase' = "rollback" /\ sub' = "act"),
         \A i \in Ops : row'[i] = row[i] \/ (i = pos /\ row[i] # "done" /\ row'[i] \in {"pending", "done", "failed"}),
         \A i \in completed' \cap TagOps : i \in completed \/ row'[i] = "done",
         OnItsWay', TagsBack', Housed', FoldersBack'
  PROVE  Undoable'
<1>1. /\ \A i \in Ops : row[i] # "reverted"
      /\ \A i \in completed \cap TagOps : row[i] = "done"
      /\ RowsBack /\ undo # "done"
  BY DEF UInv, Undoable, Forward, RowsDone, Undone
<1>2. \A i \in Ops : row'[i] # "reverted"
  BY <1>1
<1>3. Reversed' = {} /\ Back'
  BY <1>2 DEF Reversed, Back, Ops
<1>4. RowsDone'
  BY <1>1, StepTypes DEF RowsDone, TagOps, Ops, Kind
<1>5. RowsBack' /\ Undone' /\ Forward'
  BY <1>1, <1>2 DEF RowsBack, Undone, Forward, AsBefore, jobs, Ops
<1> QED
  BY <1>3, <1>4, <1>5 DEF Undoable

\* In Execute nothing counts as taken back that did not before.
LEMMA ExecUntagged ==
  ASSUME UInv, phase = "exec", phase' = "exec" \/ (phase' = "rollback" /\ sub' = "act"),
         \A i \in Ops : row'[i] = row[i] \/ (i = pos /\ row[i] # "done" /\ row'[i] \in {"pending", "done", "failed"}),
         \A i \in TagOps : backup'[i] = NoCopy => backup[i] = NoCopy,
         pos \in TagOps /\ row'[pos] = "done" => backup'[pos] # NoCopy
  PROVE  \A f \in Files : Untagged(f)' => Untagged(f)
<1>1. \A i \in Ops : row[i] # "reverted" /\ row'[i] # "reverted"
  BY DEF UInv, Undoable, Forward
<1>2. Reversed' = {}
  BY <1>1 DEF Reversed, Ops
<1>3. \A i \in TagOps : Restored(i)' => Restored(i)
  BY <1>2, StepTypes DEF Restored
<1> QED
  BY <1>3 DEF Untagged, TagOps, Ops, Kind, Dst

\* The moves that have emptied a folder stay, row and all.
LEMMA ExecFolders ==
  ASSUME UInv, phase = "exec", phase' = "exec" \/ (phase' = "rollback" /\ sub' = "act"),
         \A i \in Ops : row'[i] = row[i] \/ (i = pos /\ row[i] # "done" /\ row'[i] \in {"pending", "done", "failed"}),
         InitialDirs \cap dirs \subseteq dirs'
  PROVE  FoldersBack'
<1>1. \A i \in Ops : row[i] # "reverted" /\ row'[i] # "reverted"
  BY DEF UInv, Undoable, Forward
<1>2. Reversed' = {}
  BY <1>1 DEF Reversed, Ops
<1>3. \A i \in Moves : Emptied(i) => Emptied(i)'
  BY <1>2, StepTypes DEF Emptied
<1> QED
  BY <1>3, FoldersKeep DEF UInv, Undoable

-----------------------------------------------------------------------------
(* Execute. *)

\* What is known of a step that Execute acts on.
LEMMA ExecFacts ==
  ASSUME UInv, phase = "exec"
  PROVE  /\ fs \in FsTypes /\ backup \in BackupTypes /\ TypeOK /\ pos \in Nat
         /\ job = "running" /\ OnItsWay /\ TagsBack /\ Housed /\ FoldersBack
         /\ \A i \in Ops : row[i] # "reverted"
         /\ \A i \in Moves : i < pos => row[i] = "done"
         /\ sub = "act" => pos \in Ops /\ row[pos] = "pending"
         /\ sub = "mark" => pos \in Ops /\ row[pos] = "pending"
<1>1. /\ TypeOK /\ Gapless /\ Journaled /\ pos \in Nat /\ job = "running" /\ fs \in FsTypes
  BY OnExec DEF UInv
<1>2. backup \in BackupTypes
  BY <1>1 DEF TypeOK, BackupTypes
<1>3. \A i \in Moves : i < pos => row[i] = "done"
  BY <1>1 DEF Gapless
<1>4. sub \in {"act", "mark"} => pos \in Ops /\ row[pos] = "pending"
  BY <1>1 DEF UInv, RInv, JInv, IInv, AtStep, Journaled, InOrder
<1> QED
  BY <1>1, <1>2, <1>3, <1>4 DEF UInv, Undoable, Forward

\* How a step ends that is carried out, or fails.
LEMMA ActRows ==
  ASSUME UInv, phase = "exec", sub = "act", UNCHANGED pos,
         \/ Applied
         \/ \E k \in {0, 1} : Abort(k)
         \/ GiveUp /\ UNCHANGED <<row, completed>>
  PROVE  /\ phase' = "exec" \/ (phase' = "rollback" /\ sub' = "act")
         /\ \A i \in Ops : row'[i] = row[i]
                           \/ (i = pos /\ row[i] # "done" /\ row'[i] \in {"pending", "done", "failed"})
         /\ row'[pos] \in {"pending", "failed"}
         /\ completed' \in {completed, completed \cup {pos}}
         /\ pos \in TagOps /\ ~Applied => completed' = completed
<1>1. pos \in Ops /\ row[pos] = "pending" /\ TypeOK
  BY ExecFacts
<1>2. CASE Applied
  BY <1>1, <1>2 DEF Applied
<1>3. CASE ~Applied
  <2>1. UNCHANGED row \/ Mark(pos, "failed")
    BY <1>3 DEF Abort, JournalFailure
  <2>2. \A i \in Ops : row'[i] = row[i] \/ (i = pos /\ row'[i] = "failed")
    BY <1>1, <2>1, MarkRows
  <2>3. UNCHANGED completed /\ phase' = "rollback" /\ sub' = "act"
    BY <1>3 DEF Abort, GiveUp
  <2> QED
    BY <1>1, <2>2, <2>3
<1> QED
  BY <1>2, <1>3

\* A file is moved, or it is not.
LEMMA MovesUndoable == UInv /\ (Move \/ CaseFixLeg1 \/ CaseFixLeg2) => Undoable'
<1> SUFFICES ASSUME UInv, Move \/ CaseFixLeg1 \/ CaseFixLeg2 PROVE Undoable'
  OBVIOUS
<1>1. /\ Acting({"move"}) \/ Acting({"leg1"}) \/ Acting({"leg2"})
      /\ UNCHANGED <<backup, snap, book, jobs, pos>>
  BY DEF Move, CaseFixLeg1, CaseFixLeg2
<1>2. /\ phase = "exec" /\ sub = "act" /\ pos \in Ops /\ pos \in Moves /\ pos \notin TagOps
      /\ row[pos] = "pending"
  BY <1>1, ExecFacts DEF Acting, TagOps, Moves, MoveKinds
<1>3. /\ Applied \/ (\E k \in {0, 1} : Abort(k)) \/ (GiveUp /\ UNCHANGED <<row, completed>>)
      /\ dirs \subseteq dirs'
  BY DEF Move, CaseFixLeg1, CaseFixLeg2, Renamed, NotRenamed
<1>4. /\ phase' = "exec" \/ (phase' = "rollback" /\ sub' = "act")
      /\ \A i \in Ops : row'[i] = row[i]
                        \/ (i = pos /\ row[i] # "done" /\ row'[i] \in {"pending", "done", "failed"})
      /\ \A i \in completed' \cap TagOps : i \in completed
  BY <1>1, <1>2, <1>3, ActRows
<1>5. /\ fs \in FsTypes /\ OnItsWay /\ Housed /\ FoldersBack /\ TagsBack /\ job = "running"
      /\ Src(pos) \in Paths /\ Dst(pos) \in Paths /\ Src(pos) # Dst(pos)
      /\ \A f \in Files : Dst(pos) # Old[f] /\ Old[f] \in Paths
  BY <1>2, ExecFacts, StepTypes, OnTheWay, NotToOld, WaysArePaths
<1>6. Kind(pos) = "leg1" => fs[Dst(pos)] = NoCopy
  BY <1>2 DEF UInv, RInv, JInv, IInv, TempsFree, ToCome
<1>7. \/ fs' = fs
      \/ fs[Dst(pos)] = NoCopy /\ fs' = [fs EXCEPT ![Src(pos)] = NoCopy, ![Dst(pos)] = fs[Src(pos)]]
      \/ fs[Dst(pos)] = NoCopy /\ fs' = [fs EXCEPT ![Dst(pos)] = fs[Src(pos)]]
  <2>1. CASE Move
    BY <2>1 DEF Move, Renamed, NotRenamed
  <2>2. CASE CaseFixLeg1
    BY <1>6, <2>2 DEF CaseFixLeg1, Acting
  <2>3. CASE CaseFixLeg2
    BY <2>3 DEF CaseFixLeg2
  <2> QED
    BY <2>1, <2>2, <2>3
<1>8. NoWorse
  BY <1>2, <1>5, <1>7, Rearranged
<1>9. Housed'
  <2>1. \A f \in Files : fs'[Old[f]] \in {fs[Old[f]], NoCopy}
    BY <1>5, <1>7 DEF FsTypes
  <2> QED
    BY <1>3, <1>5, <2>1, HousedKeeps
<1>10. \A f \in Files : Untagged(f)' => Untagged(f)
  BY <1>1, <1>2, <1>4, ExecUntagged
<1>11. TagsBack'
  BY <1>1, <1>5, <1>8, <1>10, NoWorseSettles, TagsKeep DEF jobs
<1>12. FoldersBack'
  BY <1>2, <1>3, <1>4, <1>5, ExecFolders
<1> QED
  BY <1>1, <1>2, <1>4, <1>8, <1>9, <1>11, <1>12, ExecUndoable DEF NoWorse

\* A step of Execute that leaves the files alone.
LEMMA ExecQuiet ==
  ASSUME UInv, phase = "exec", UNCHANGED <<fs, snap, book, jobs>>,
         phase' = "exec" \/ (phase' = "rollback" /\ sub' = "act"),
         \A i \in Ops : row'[i] = row[i] \/ (i = pos /\ row[i] # "done" /\ row'[i] \in {"pending", "done", "failed"}),
         \A i \in completed' \cap TagOps : i \in completed \/ row'[i] = "done",
         \A i \in TagOps : backup'[i] = NoCopy => backup[i] = NoCopy,
         pos \in TagOps /\ row'[pos] = "done" => backup'[pos] # NoCopy,
         (Housed' /\ FoldersBack') \/ dirs \subseteq dirs'
  PROVE  Undoable'
<1>1. /\ OnItsWay /\ TagsBack /\ Housed /\ FoldersBack /\ job = "running"
  BY ExecFacts
<1>2. OnItsWay' /\ \A f \in Files : Settled(f) <=> Settled(f)'
  BY <1>1 DEF OnItsWay, Way, Settled, OldTags, Twice
<1>3. \A f \in Files : Untagged(f)' => Untagged(f)
  BY ExecUntagged
<1>4. TagsBack'
  BY <1>1, <1>2, <1>3, TagsKeep DEF jobs
<1>5. Housed' /\ FoldersBack'
  <2>1. CASE dirs \subseteq dirs'
    <3>1. Housed'
      BY <1>1, <2>1, HousedKeeps
    <3> QED
      BY <2>1, <3>1, ExecFolders
  <2> QED
    BY <2>1
<1> QED
  BY <1>2, <1>4, <1>5, ExecUndoable

\* A step is journaled, or Execute stops before it.
LEMMA InsertUndoable == UInv /\ (InsertOp \/ StopAtCancel) => Undoable'
<1> SUFFICES ASSUME UInv, InsertOp \/ StopAtCancel PROVE Undoable'
  OBVIOUS
<1>1. /\ phase = "exec" /\ sub = "insert" /\ pos \in Ops
      /\ UNCHANGED <<fs, dirs, backup, snap, book, jobs, completed>>
      /\ phase' = "exec" \/ (phase' = "rollback" /\ sub' = "act")
      /\ Mark(pos, "pending") \/ UNCHANGED row
  BY DEF InsertOp, StopAtCancel, GiveUp, disk, journal
<1>2. TypeOK /\ row[pos] = "none"
  BY <1>1 DEF UInv, RInv, JInv, IInv, Journaled, InOrder
<1>3. \A i \in Ops : row'[i] = row[i] \/ (i = pos /\ row'[i] = "pending")
  BY <1>1, <1>2, MarkRows
<1> QED
  BY <1>1, <1>2, <1>3, ExecQuiet

\* A folder is made, or it is not.
LEMMA MkdirUndoable == UInv /\ Mkdir => Undoable'
<1> SUFFICES ASSUME UInv, Mkdir PROVE Undoable'
  OBVIOUS
<1>1. /\ phase = "exec" /\ sub = "act" /\ UNCHANGED <<fs, backup, snap, book, jobs, pos>>
      /\ Applied \/ \E k \in {0, 1} : Abort(k)
      /\ pos \notin TagOps
  BY DEF Mkdir, Acting, TagOps
<1>2. dirs \subseteq dirs'
  BY DEF Mkdir
<1>3. \A i \in completed' \cap TagOps : i \in completed
  BY <1>1, ActRows
<1> QED
  BY <1>1, <1>2, <1>3, ActRows, ExecQuiet

\* A folder is pruned, or it is not and the run goes on.
LEMMA RmdirUndoable == UInv /\ Rmdir => Undoable'
<1> SUFFICES ASSUME UInv, Rmdir PROVE Undoable'
  OBVIOUS
<1>1. /\ phase = "exec" /\ sub = "act" /\ UNCHANGED <<fs, backup, snap, book, jobs>>
      /\ pos \in Ops /\ pos \notin TagOps /\ Kind(pos) = "rmdir" /\ row[pos] = "pending"
      /\ TypeOK /\ pos \in Nat /\ Housed /\ FoldersBack
      /\ \A i \in Moves : i < pos => row[i] = "done"
  BY ExecFacts DEF Rmdir, Acting, TagOps
<1>2. CASE Applied /\ UNCHANGED pos /\ Empty(Dst(pos)) /\ dirs' = dirs \ {Dst(pos)}
  <2>1. /\ UNCHANGED <<row, phase>>
        /\ \A i \in completed' \cap TagOps : i \in completed
    BY <1>1, <1>2 DEF Applied
  <2>2. Housed'
    BY <1>1, <1>2, HousedKeepsEmpty
  <2>3. PICK j \in Moves, f \in Files : j < pos /\ Src(j) = Old[f] /\ Dst(pos) \in Within[Old[f]]
    BY <1>1, PruneAssumption
  <2>4. \A i \in Ops : row'[i] # "reverted"
    BY <1>1, <2>1, ExecFacts
  <2>5. Reversed' = {} /\ Emptied(j)'
    BY <1>1, <2>1, <2>3, <2>4 DEF Reversed, Ops, Emptied, Moves
  <2>6. \A i \in Moves : Emptied(i) => Emptied(i)'
    BY <2>1, <2>5, StepTypes DEF Emptied
  <2>7. FoldersBack'
    <3> SUFFICES ASSUME NEW d \in InitialDirs, d \notin dirs'
                 PROVE  \E i \in Moves, g \in Files :
                          Emptied(i)' /\ Src(i) = Old[g] /\ d \in Within[Old[g]]
      BY DEF FoldersBack, InitialDirs, Created, Moves, Ops, Kind, Dst, Src
    <3>1. CASE d = Dst(pos)
      BY <2>3, <2>5, <3>1
    <3>2. CASE d # Dst(pos)
      <4>1. PICK i \in Moves, g \in Files : Emptied(i) /\ Src(i) = Old[g] /\ d \in Within[Old[g]]
        BY <1>1, <1>2, <3>2 DEF FoldersBack
      <4> QED
        BY <2>6, <4>1
    <3> QED
      BY <3>1, <3>2
  <2> QED
    BY <1>1, <2>1, <2>2, <2>7, ExecQuiet
<1>3. CASE /\ \E k \in {0, 1} : JournalFailure(k)
           /\ UNCHANGED <<dirs, phase, completed>>
  <2>1. \A i \in Ops : row'[i] = row[i] \/ (i = pos /\ row'[i] = "failed")
    <3>1. UNCHANGED row \/ Mark(pos, "failed")
      BY <1>3 DEF JournalFailure
    <3> QED
      BY <1>1, <3>1, MarkRows
  <2> QED
    BY <1>1, <1>3, <2>1, ExecQuiet
<1> QED
  BY <1>2, <1>3 DEF Rmdir

\* The file is copied to its backup, or it is not.
LEMMA BackupUndoable == UInv /\ BackupTags => Undoable'
<1> SUFFICES ASSUME UInv, BackupTags PROVE Undoable'
  OBVIOUS
<1>1. /\ phase = "exec" /\ sub = "act" /\ UNCHANGED <<fs, dirs, snap, book, jobs, pos>>
      /\ pos \in Ops /\ row[pos] = "pending" /\ backup \in BackupTypes
      /\ \/ fs[Dst(pos)] # NoCopy /\ backup' = [backup EXCEPT ![pos] = fs[Dst(pos)]]
            /\ UNCHANGED <<row, phase, completed>>
         \/ Abort(1) /\ UNCHANGED backup
  BY ExecFacts DEF BackupTags, Acting
<1>2. \A i \in TagOps : backup'[i] = NoCopy => backup[i] = NoCopy
  BY <1>1, StepTypes DEF BackupTypes
<1>3. CASE Abort(1)
  <2>1. completed' = completed
    BY <1>3 DEF Abort
  <2> QED
    BY <1>1, <1>2, <1>3, <2>1, ActRows, ExecQuiet
<1>4. CASE UNCHANGED <<row, phase, completed>>
  BY <1>1, <1>2, <1>4, ExecQuiet
<1> QED
  BY <1>1, <1>3, <1>4

\* The file gets its new tags, or wrong ones, or keeps the old.
LEMMA WriteUndoable == UInv /\ WriteTags => Undoable'
<1> SUFFICES ASSUME UInv, WriteTags PROVE Undoable'
  OBVIOUS
<1>1. /\ phase = "exec" /\ sub = "act" /\ UNCHANGED <<dirs, backup, snap, book, jobs, pos>>
      /\ pos \in Ops /\ pos \in TagOps /\ row[pos] = "pending"
      /\ fs \in FsTypes /\ OnItsWay /\ Housed /\ TagsBack /\ job = "running"
  BY ExecFacts DEF WriteTags, Acting, TagOps
<1>2. /\ phase' = "exec" \/ (phase' = "rollback" /\ sub' = "act")
      /\ \A i \in Ops : row'[i] = row[i] \/ (i = pos /\ row'[i] = "failed")
      /\ row'[pos] \in {"pending", "failed"} /\ completed' = completed
  <2>1. CASE Abort(1)
    <3>1. UNCHANGED row \/ Mark(pos, "failed")
      BY <2>1 DEF Abort, JournalFailure
    <3>2. TypeOK
      BY <1>1, ExecFacts
    <3> QED
      BY <1>1, <2>1, <3>1, <3>2, MarkRows DEF Abort, GiveUp
  <2>2. CASE UNCHANGED <<row, phase, completed>>
    BY <1>1, <2>2
  <2> QED
    BY <2>1, <2>2 DEF WriteTags
<1>3. CASE UNCHANGED fs
  BY <1>1, <1>2, <1>3, ExecQuiet
<1>4. CASE /\ fs[Dst(pos)] # NoCopy
           /\ \E t \in {"new", "wrong"} : fs' = [fs EXCEPT ![Dst(pos)].tags = t]
  <2>1. PICK t \in {"new", "wrong"} : fs' = [fs EXCEPT ![Dst(pos)].tags = t]
    BY <1>4
  <2>2. \A p \in Paths : fs'[p].file = fs[p].file /\ (fs[p] = NoCopy <=> fs'[p] = NoCopy)
    BY <1>1, <1>4, <2>1, Retagged DEF UInv, RInv, JInv
  <2>3. \A p \in Paths : p # Dst(pos) => fs'[p] = fs[p]
    BY <1>1, <2>1 DEF FsTypes
  <2>4. OnItsWay' /\ \A f \in Files : New[f] # Dst(pos) /\ Settled(f) => Settled(f)'
    BY <1>1, <2>2, <2>3, Retagging
  <2>5. Housed'
    BY <1>1, <2>2, WaysArePaths DEF Housed
  <2>6. FoldersBack'
    BY <1>1, <1>2, ExecFolders
  <2>7. \A f \in Files : Untagged(f)' => Untagged(f) /\ New[f] # Dst(pos)
    <3>1. \A i \in Ops : row'[i] # "reverted"
      BY <1>1, <1>2, ExecFacts
    <3>2. ~Restored(pos)'
      BY <1>1, <1>2, <3>1 DEF Restored, Reversed, Ops
    <3> QED
      BY <1>1, <1>2, <3>2, ExecUntagged DEF Untagged, TagOps, Ops, Kind, Dst
  <2>8. TagsBack'
    BY <1>1, <2>4, <2>7, TagsKeep DEF jobs
  <2> QED
    BY <1>1, <1>2, <2>4, <2>5, <2>6, <2>8, ExecUndoable
<1> QED
  BY <1>3, <1>4 DEF WriteTags

\* A step's row is flipped to done, or the run stops with the step in effect.
LEMMA MarkDoneUndoable == UInv /\ MarkDone => Undoable'
<1> SUFFICES ASSUME UInv, MarkDone PROVE Undoable'
  OBVIOUS
<1>1. /\ phase = "exec" /\ sub = "mark" /\ UNCHANGED <<fs, dirs, backup, snap, book, jobs>>
      /\ pos \in Ops /\ row[pos] = "pending" /\ TypeOK
  BY ExecFacts DEF MarkDone, disk
<1>2. pos \in TagOps => backup[pos] # NoCopy
  BY <1>1 DEF UInv, RInv, Returns, BackedUp
<1>3. CASE Mark(pos, "done") /\ completed' = completed \cup {pos} /\ UNCHANGED phase
  <2>1. row'[pos] = "done" /\ \A i \in Ops : i # pos => row'[i] = row[i]
    BY <1>1, <1>3, MarkRows
  <2> QED
    BY <1>1, <1>2, <1>3, <2>1, ExecQuiet
<1>4. CASE GiveUp /\ UNCHANGED <<row, completed>>
  BY <1>1, <1>4, ExecQuiet DEF GiveUp
<1> QED
  BY <1>3, <1>4 DEF MarkDone

-----------------------------------------------------------------------------
(* Steps that touch no file and no folder. *)

\* What holds between the steps.
LEMMA AnyFacts ==
  ASSUME UInv
  PROVE  /\ TypeOK /\ Jobs /\ fs \in FsTypes /\ completed \in SUBSET Ops /\ Pending \in SUBSET Ops
         /\ job = "queued" => phase = "idle" /\ undo = "none"
         /\ Forward /\ OnItsWay /\ Back /\ TagsBack /\ RowsDone /\ Housed /\ FoldersBack
         /\ RowsBack /\ Undone
BY DEF UInv, RInv, Returns, JInv, IInv, Fresh, Undoable, TypeOK, FsTypes, Pending

\* Execute begins, commits, or does not; the committed run cleans up.
LEMMA RunUndoable == UInv /\ (StartRun \/ Finalize \/ Cleanup) => Undoable'
<1> SUFFICES ASSUME UInv, StartRun \/ Finalize \/ Cleanup PROVE Undoable'
  OBVIOUS
<1>1. /\ TypeOK /\ Jobs /\ Forward /\ RowsDone /\ RowsBack /\ Undone
      /\ job = "queued" => phase = "idle" /\ undo = "none"
  BY AnyFacts
<1>2. /\ UNCHANGED <<fs, dirs, row, completed>>
      /\ job = "queued" \/ phase \in {"exec", "cleanup"}
      /\ job' # "queued" /\ job # "done"
      /\ phase' \in {"exec", "idle", "cleanup"} \/ (phase' = "rollback" /\ sub' = "act")
      /\ UNCHANGED undo
  BY <1>1 DEF StartRun, Finalize, Cleanup, GiveUp, disk, journal, jobs, Jobs
<1>3. \A i \in Ops : row[i] # "reverted" /\ row'[i] # "reverted"
  BY <1>1, <1>2 DEF Forward
<1>4. Reversed' = {} /\ Forward'
  BY <1>2, <1>3 DEF Reversed, Forward, Ops
<1>5. \A i \in TagOps : backup'[i] = backup[i] \/ job' = "done"
  BY DEF StartRun, Finalize, Cleanup, disk
<1>6. RowsDone'
  <2>1. phase = "exec" \/ completed = {} \/ phase' = "idle"
    BY <1>1 DEF StartRun, Finalize, Cleanup, Jobs
  <2> QED
    BY <1>1, <1>2, <2>1 DEF RowsDone, TagOps, Ops, Kind
<1>7. RowsBack'
  BY <1>1, <1>2 DEF RowsBack, AsBefore, StartRun, Finalize, Cleanup, journal, Books
<1>8. Undone'
  BY <1>1, <1>2 DEF Undone
<1> QED
  BY <1>2, <1>3, <1>4, <1>5, <1>6, <1>7, <1>8, QuietUndoable

\* An undo's second pass restores book rows, newest first.
LEMMA PassUndoable == UInv /\ (RestoreBook \/ MarkSnapshot) => Undoable'
<1> SUFFICES ASSUME UInv, RestoreBook \/ MarkSnapshot PROVE Undoable'
  OBVIOUS
<1>1. TypeOK /\ Jobs /\ RowsBack /\ Undone /\ job # "queued"
  BY AnyFacts DEF RestoreBook, MarkSnapshot
<1>2. /\ phase = "undo" /\ UNCHANGED <<fs, dirs, backup, row, job>>
      /\ \/ phase' = "undo" /\ sub' \in {"restore", "marksnap"} /\ UNCHANGED undo
         \/ phase' = "idle" /\ undo' \in {"canceled", "failed"}
  <2>1. CASE RestoreBook
    BY <2>1 DEF RestoreBook, UndoFails, disk, journal
  <2>2. CASE MarkSnapshot
    BY <2>2 DEF MarkSnapshot, UndoFails, disk
  <2> QED
    BY <2>1, <2>2
<1>3. Reversed' \subseteq Reversed /\ Forward' /\ RowsDone'
  BY <1>1, <1>2 DEF Reversed, Forward, RowsDone, Ops
<1>4. Undone'
  BY <1>1, <1>2 DEF Undone, Pending, SnapsLeft
<1>5. RowsBack'
  <2>1. /\ \A b, c \in Newest(SnapsLeft) : b = c
        /\ \A b \in Newest(SnapsLeft) : b \in Books
    BY OrganizeAssumption DEF Newest, SnapsLeft, Books
  <2>2. CASE RestoreBook
    <3>1. UNCHANGED snap /\ Newest(SnapsLeft)' = Newest(SnapsLeft)
      BY <2>2 DEF RestoreBook, journal, Newest, SnapsLeft, Books
    <3>2. CASE UNCHANGED book /\ phase' = "idle"
      BY <1>1, <3>1, <3>2 DEF RowsBack, AsBefore, Books
    <3>3. CASE \E b \in Newest(SnapsLeft) :
                 book' = [book EXCEPT ![b] = [at |-> "old", base |-> "root", state |-> Prior[b]]]
      <4>1. PICK b \in Newest(SnapsLeft) :
                 book' = [book EXCEPT ![b] = [at |-> "old", base |-> "root", state |-> Prior[b]]]
        BY <3>3
      <4>2. AsBefore(b)' /\ \A c \in Books : c # b => book'[c] = book[c]
        BY <1>1, <2>1, <4>1 DEF AsBefore, TypeOK
      <4> QED
        BY <1>1, <2>1, <3>1, <4>1, <4>2 DEF RowsBack, AsBefore, Books
    <3> QED
      BY <2>2, <3>2, <3>3 DEF RestoreBook, UndoFails
  <2>3. CASE MarkSnapshot
    <3>1. PICK b \in Newest(SnapsLeft) :
            \/ snap' = [snap EXCEPT ![b] = "reverted"] /\ sub' = "restore"
            \/ UNCHANGED snap /\ phase' = "idle"
      BY <2>3 DEF MarkSnapshot, UndoFails
    <3>2. AsBefore(b) /\ UNCHANGED book
      BY <1>1, <2>3 DEF MarkSnapshot, RowsBack
    <3>3. \A c \in Books : snap'[c] # "done" => snap[c] # "done" \/ c = b
      BY <1>1, <3>1 DEF TypeOK
    <3> QED
      BY <1>1, <3>1, <3>2, <3>3 DEF RowsBack, AsBefore, Books
  <2> QED
    BY <2>2, <2>3
<1> QED
  BY <1>1, <1>2, <1>3, <1>4, <1>5, QuietUndoable

\* A rollback or an undo ends, an undo is asked for, a job is canceled, the process dies.
LEMMA EndsUndoable ==
  UInv /\ (\/ RollbackEnd \/ UndoStopAtCancel \/ BeginPass2 \/ UndoEnd \/ RequestUndo
           \/ Crash \/ Cancel \/ UNCHANGED vars) => Undoable'
<1> SUFFICES ASSUME UInv,
                    \/ RollbackEnd \/ UndoStopAtCancel \/ BeginPass2 \/ UndoEnd \/ RequestUndo
                    \/ Crash \/ Cancel \/ UNCHANGED vars
             PROVE  Undoable'
  OBVIOUS
<1>1. /\ TypeOK /\ Jobs /\ Forward /\ RowsDone /\ RowsBack /\ Undone
      /\ job = "queued" => phase = "idle" /\ undo = "none"
  BY AnyFacts
<1>2. /\ UNCHANGED <<fs, dirs, backup, row, snap, book>>
      /\ \/ UNCHANGED <<phase, sub, job, undo, completed>>
         \/ phase' = "idle" /\ job # "queued" /\ job' \notin {"queued", "done"} \ {job}
         \/ phase' = "undo" /\ sub' \in {"act", "restore"} /\ undo' = "running"
            /\ job # "queued" /\ UNCHANGED job
         \/ RequestUndo /\ UNCHANGED <<phase, sub, job, completed>>
  <2>1. CASE RollbackEnd
    BY <1>1, <2>1 DEF RollbackEnd, disk, journal
  <2>2. CASE UndoStopAtCancel \/ UndoEnd
    BY <1>1, <2>2 DEF UndoStopAtCancel, UndoEnd, UndoFails, disk, journal
  <2>3. CASE BeginPass2
    BY <1>1, <2>3 DEF BeginPass2, disk, journal, jobs, Undone
  <2>4. CASE RequestUndo
    BY <2>4 DEF RequestUndo, UndoAllowed, disk, journal
  <2>5. CASE Crash
    BY <1>1, <2>5 DEF Crash, disk, journal, jobs
  <2>6. CASE Cancel \/ UNCHANGED vars
    BY <2>6 DEF Cancel, vars, disk, journal, jobs, control
  <2> QED
    BY <2>1, <2>2, <2>3, <2>4, <2>5, <2>6
<1>3. Reversed' \subseteq Reversed
  BY <1>2 DEF Reversed, Ops, Pending
<1>4. Forward' /\ RowsDone'
  BY <1>1, <1>2 DEF Forward, RowsDone, Ops
<1>5. RowsBack'
  BY <1>1, <1>2 DEF RowsBack, AsBefore, Books, SnapsLeft
<1>6. Undone'
  <2>1. UNCHANGED <<Pending, SnapsLeft>>
    BY <1>2 DEF Pending, SnapsLeft, Ops, Books
  <2>2. CASE RequestUndo
    BY <1>1, <2>1, <2>2 DEF RequestUndo, UndoAllowed, Undone
  <2>3. CASE UndoEnd
    BY <1>1, <2>1, <2>3 DEF UndoEnd, Undone, Jobs
  <2>4. CASE RollbackEnd \/ UndoStopAtCancel \/ BeginPass2
    BY <1>1, <2>1, <2>4 DEF RollbackEnd, UndoStopAtCancel, BeginPass2, UndoFails, Undone, jobs
  <2>5. CASE Crash \/ Cancel \/ UNCHANGED vars
    BY <1>1, <2>1, <2>5 DEF Crash, Cancel, Undone, jobs, vars, control
  <2> QED
    BY <2>2, <2>3, <2>4, <2>5
<1>7. job' # "done" => job # "done"
  <2>1. RollbackEnd => job = "running"
    BY <1>1 DEF Jobs, RollbackEnd
  <2> QED
    BY <2>1 DEF RollbackEnd, UndoStopAtCancel, BeginPass2, UndoEnd, RequestUndo, Crash, Cancel, vars, jobs
<1> QED
  BY <1>2, <1>3, <1>4, <1>5, <1>6, <1>7, QuietUndoable

\* The row of a step that was taken back is flipped, or stays as it is.
LEMMA MarksUndoable == UInv /\ (RollbackMark \/ UndoMark) => Undoable'
<1> SUFFICES ASSUME UInv, RollbackMark \/ UndoMark PROVE Undoable'
  OBVIOUS
<1>1. /\ TypeOK /\ Jobs /\ RowsDone /\ RowsBack /\ Undone /\ job # "queued"
      /\ completed \in SUBSET Ops /\ Pending \in SUBSET Ops
  BY AnyFacts DEF RollbackMark, UndoMark
<1>2. PICK i \in Reversed :
        /\ i \in Ops
        /\ Mark(i, "reverted") \/ UNCHANGED row
        /\ UNCHANGED backup \/ backup' = [backup EXCEPT ![i] = NoCopy]
  <2>1. CASE RollbackMark
    BY <1>1, <2>1, OneNewest DEF RollbackMark, Reversed, disk
  <2>2. CASE UndoMark
    BY <1>1, <2>2, OneNewest DEF UndoMark, Reversed
  <2> QED
    BY <2>1, <2>2
<1>3. \A j \in Ops : row'[j] = row[j] \/ (j = i /\ row'[j] = "reverted")
  BY <1>1, <1>2, MarkRows
<1>4. /\ UNCHANGED <<fs, dirs, snap, book, job>> /\ completed' \subseteq completed
      /\ UNCHANGED undo \/ undo' \in {"canceled", "failed"}
      /\ phase' \in {"rollback", "undo", "idle"}
      /\ phase' \in {"rollback", "undo"} => sub' = "act" /\ UNCHANGED undo
  <2>1. CASE RollbackMark
    BY <2>1 DEF RollbackMark, disk, jobs
  <2>2. CASE UndoMark
    BY <2>2 DEF UndoMark, UndoFails
  <2> QED
    BY <2>1, <2>2
<1>5. Reversed' \subseteq Reversed
  BY <1>2, <1>3, <1>4 DEF Reversed, Ops
<1>6. Forward' /\ RowsDone' /\ RowsBack'
  <2>1. Forward' /\ RowsBack'
    BY <1>1, <1>4 DEF Forward, RowsBack, AsBefore, Books
  <2>2. phase' = "rollback" => RollbackMark /\ phase = "rollback"
    BY DEF RollbackMark, UndoMark, UndoFails
  <2>3. RowsDone'
    <3> SUFFICES ASSUME phase' = "rollback", NEW j \in completed' \cap TagOps PROVE row'[j] = "done"
      BY <1>4 DEF RowsDone, TagOps, Ops, Kind
    <3>1. row[j] = "done" /\ RollbackMark
      BY <1>1, <1>4, <2>2 DEF RowsDone
    <3>2. PICK k \in Newest(completed) :
            completed' = completed \ {k} /\ (Mark(k, "reverted") \/ UNCHANGED row)
      BY <3>1 DEF RollbackMark
    <3>3. k \in Ops /\ j \in Ops /\ j # k
      BY <1>1, <3>2, OneNewest, StepTypes
    <3> QED
      BY <1>1, <3>1, <3>2, <3>3, MarkRows
  <2> QED
    BY <2>1, <2>3
<1>7. Undone'
  BY <1>1, <1>4 DEF Undone, RollbackMark, UndoMark
<1>8. \A j \in TagOps : backup'[j] = backup[j] \/ j \in Reversed
  BY <1>1, <1>2, StepTypes DEF TypeOK
<1> QED
  BY <1>2, <1>3, <1>4, <1>5, <1>6, <1>7, <1>8, QuietUndoable

-----------------------------------------------------------------------------
(* Steps taken back. *)

\* What a step has to do to the disk that takes back the step i, or nothing.
LEMMA BackUndoable ==
  ASSUME UInv, UNCHANGED <<row, snap, book, job>>, NEW i,
         NoWorse, AsideStay, Housed', InitialDirs \cap dirs \subseteq dirs',
         Reversed' \subseteq Reversed \cup {i},
         \A j \in TagOps : backup'[j] = backup[j] \/ j = i,
         i \in Moves \cap Reversed' =>
           \A f \in Files : /\ Dst(i) = New[f] => Aside(f)'
                            /\ Src(i) = Old[f] => Within[Old[f]] \subseteq dirs',
         i \in TagOps => \/ Restored(i)' => Restored(i)
                         \/ \A f \in Files : Dst(i) = New[f] => Settled(f)',
         Forward', RowsDone', RowsBack', Undone'
  PROVE  Undoable'
<1>1. Back /\ TagsBack /\ FoldersBack
  BY AnyFacts
<1>2. Back'
  <2> SUFFICES ASSUME NEW f \in Files, NEW j \in Moves \cap Reversed', Dst(j) = New[f] PROVE Aside(f)'
    BY DEF Back, Moves, Ops, Kind, Dst
  <2>1. CASE j = i
    BY <2>1
  <2>2. CASE j # i
    BY <1>1, <2>2 DEF Back, AsideStay
  <2> QED
    BY <2>1, <2>2
<1>3. TagsBack'
  <2>1. \A j \in TagOps : j # i => (Restored(j)' => Restored(j))
    BY StepTypes DEF Restored
  <2>2. ASSUME NEW f \in Files, Untagged(f)' PROVE Settled(f)' \/ Untagged(f)
    <3>1. \A j \in TagOps : Dst(j) = New[f] => Restored(j)'
      BY <2>2 DEF Untagged, TagOps, Ops, Kind, Dst
    <3>2. CASE i \in TagOps /\ Dst(i) = New[f] /\ ~Restored(i)
      BY <3>1, <3>2
    <3>3. CASE ~(i \in TagOps /\ Dst(i) = New[f] /\ ~Restored(i))
      BY <2>1, <3>1, <3>3 DEF Untagged
    <3> QED
      BY <3>2, <3>3
  <2> QED
    BY <1>1, <2>2, NoWorseSettles, TagsKeep
<1>4. FoldersBack'
  <2>1. \A j \in Moves : Emptied(j) => Emptied(j)' \/ j = i
    BY StepTypes DEF Emptied
  <2>2. i \in Moves /\ Emptied(i) =>
          Emptied(i)' \/ \A f \in Files : Src(i) = Old[f] => Within[Old[f]] \subseteq dirs'
    BY StepTypes DEF Emptied
  <2> QED
    BY <1>1, <2>1, <2>2, FoldersKeep
<1> QED
  BY <1>2, <1>3, <1>4 DEF NoWorse, Undoable

\* Somebody drops a file.
LEMMA DropUndoable == UInv /\ DropFile => Undoable'
<1> SUFFICES ASSUME UInv, DropFile PROVE Undoable'
  OBVIOUS
<1>1. /\ fs \in FsTypes /\ OnItsWay /\ Housed /\ Forward /\ RowsDone /\ RowsBack /\ Undone
  BY AnyFacts
<1>2. PICK p \in Paths, x \in Foreign :
        /\ fs[p] = NoCopy /\ Within[p] \subseteq dirs
        /\ fs' = [fs EXCEPT ![p] = [file |-> x, tags |-> "old"]]
  BY DEF DropFile
<1>3. UNCHANGED <<dirs, backup, row, snap, book, job, undo, phase, sub, completed>>
  BY DEF DropFile, journal, jobs, control
<1>4. NoWorse /\ AsideStay
  BY <1>1, <1>2, DroppedBeside
<1>5. Housed'
  <2>1. \A f \in Files : fs'[Old[f]] # NoCopy => fs[Old[f]] # NoCopy \/ Within[Old[f]] \subseteq dirs'
    BY <1>1, <1>2, <1>3, WaysArePaths DEF FsTypes
  <2> QED
    BY <1>1, <1>3, <2>1, HousedKeeps
<1>6. Reversed' = Reversed
  BY <1>3 DEF Reversed, Ops, Pending
<1>7. Forward' /\ RowsDone' /\ RowsBack' /\ Undone'
  BY <1>1, <1>3 DEF Forward, RowsDone, RowsBack, AsBefore, Undone, Pending, SnapsLeft, Ops, Books, TagOps, Kind
<1>8. 0 \notin Moves /\ 0 \notin TagOps
  BY StepTypes
<1> QED
  BY <1>3, <1>4, <1>5, <1>6, <1>7, <1>8, BackUndoable

\* What every step of rollback and undo does for the files and folders.
Undisturbed == NoWorse /\ AsideStay /\ Housed' /\ InitialDirs \cap dirs \subseteq dirs'

\* A step at folders leaves the files as they are.
LEMMA FoldersBeside ==
  ASSUME UInv, UNCHANGED fs,
         \/ dirs \subseteq dirs'
         \/ \E d \in Created : dirs' = dirs \ {d} /\ (d \in dirs => Empty(d))
  PROVE  Undisturbed
<1>1. OnItsWay /\ Housed
  BY AnyFacts
<1>2. NoWorse /\ AsideStay
  BY <1>1 DEF NoWorse, AsideStay, OnItsWay, Way, OldTags, Twice, Aside
<1>3. CASE dirs \subseteq dirs'
  BY <1>1, <1>2, <1>3, HousedKeeps DEF Undisturbed
<1>4. CASE \E d \in Created : dirs' = dirs \ {d} /\ (d \in dirs => Empty(d))
  <2>1. PICK d \in Created : dirs' = dirs \ {d} /\ (d \in dirs => Empty(d))
    BY <1>4
  <2>2. Housed'
    <3>1. CASE d \in dirs
      BY <1>1, <2>1, <3>1, HousedKeepsEmpty
    <3>2. CASE d \notin dirs
      BY <1>1, <2>1, <3>2, HousedKeeps
    <3> QED
      BY <3>1, <3>2
  <2> QED
    BY <1>2, <2>1, <2>2 DEF Undisturbed, InitialDirs
<1> QED
  BY <1>3, <1>4

\* A move is reversed: its file is off the new path, and its old folders are there.
LEMMA MoveBack ==
  ASSUME UInv, NEW i \in Moves, ReversedMove(i)
  PROVE  /\ Undisturbed
         /\ \A f \in Files : /\ Dst(i) = New[f] => Aside(f)'
                             /\ Src(i) = Old[f] => Within[Old[f]] \subseteq dirs'
<1>1. /\ fs \in FsTypes /\ OnItsWay /\ Housed /\ Src(i) \in Paths /\ Dst(i) \in Paths
      /\ \A f \in Files : Dst(i) # Old[f] /\ Old[f] \in Paths
  BY AnyFacts, StepTypes, NotToOld, WaysArePaths
<1>2. \A f \in Files : Dst(i) = New[f] => Aside(f)'
  BY <1>1, TakenBack
<1>3. CASE AlreadyBack(i) /\ UNCHANGED <<fs, dirs>>
  BY <1>1, <1>2, <1>3, FoldersBeside DEF AlreadyBack, Housed
<1>4. CASE Renamed(Dst(i), Src(i))
  <2>1. /\ fs[Src(i)] = NoCopy /\ fs' = [fs EXCEPT ![Dst(i)] = NoCopy, ![Src(i)] = fs[Dst(i)]]
        /\ dirs' = dirs \cup Within[Src(i)]
    BY <1>4 DEF Renamed
  <2>2. NoWorse /\ AsideStay
    <3>1. <<Dst(i), Src(i)>> \in {<<Src(i), Dst(i)>>, <<Dst(i), Src(i)>>}
      OBVIOUS
    <3>2. \/ fs' = fs
          \/ fs[Src(i)] = NoCopy /\ fs' = [fs EXCEPT ![Dst(i)] = NoCopy, ![Src(i)] = fs[Dst(i)]]
          \/ fs[Src(i)] = NoCopy /\ fs' = [fs EXCEPT ![Src(i)] = fs[Dst(i)]]
      BY <2>1
    <3> QED
      BY <1>1, <3>1, <3>2, Rearranged
  <2>3. \A f \in Files : fs'[Old[f]] # NoCopy => fs[Old[f]] # NoCopy \/ Src(i) = Old[f]
    BY <1>1, <2>1 DEF FsTypes
  <2>4. Housed'
    BY <1>1, <2>1, <2>3, HousedKeeps
  <2> QED
    BY <1>2, <2>1, <2>2, <2>4 DEF Undisturbed
<1> QED
  BY <1>3, <1>4 DEF ReversedMove

\* It is not: a copy may have come to its old path.
LEMMA MoveNotBack ==
  ASSUME UInv, NEW i \in Moves, NEW k, NotRenamed(Dst(i), Src(i), k)
  PROVE  Undisturbed
<1>1. /\ fs \in FsTypes /\ OnItsWay /\ Housed /\ Src(i) \in Paths /\ Dst(i) \in Paths
      /\ \A f \in Files : Old[f] \in Paths
  BY AnyFacts, StepTypes, WaysArePaths
<1>2. dirs \subseteq dirs'
  BY DEF NotRenamed
<1>3. CASE UNCHANGED fs
  BY <1>2, <1>3, FoldersBeside
<1>4. CASE /\ fs[Src(i)] = NoCopy /\ fs' = [fs EXCEPT ![Src(i)] = fs[Dst(i)]]
           /\ dirs' = dirs \cup Within[Src(i)]
  <2>1. NoWorse /\ AsideStay
    <3>1. <<Dst(i), Src(i)>> \in {<<Src(i), Dst(i)>>, <<Dst(i), Src(i)>>}
      OBVIOUS
    <3>2. \/ fs' = fs
          \/ fs[Src(i)] = NoCopy /\ fs' = [fs EXCEPT ![Dst(i)] = NoCopy, ![Src(i)] = fs[Dst(i)]]
          \/ fs[Src(i)] = NoCopy /\ fs' = [fs EXCEPT ![Src(i)] = fs[Dst(i)]]
      BY <1>4
    <3> QED
      BY <1>1, <3>1, <3>2, Rearranged
  <2>2. \A f \in Files : fs'[Old[f]] # NoCopy => fs[Old[f]] # NoCopy \/ Src(i) = Old[f]
    BY <1>1, <1>4 DEF FsTypes
  <2>3. Housed'
    BY <1>1, <1>2, <1>4, <2>2, HousedKeeps
  <2> QED
    BY <1>2, <2>1, <2>3 DEF Undisturbed
<1> QED
  BY <1>3, <1>4 DEF NotRenamed

\* The tags of a file are restored, or there was nothing to restore.
LEMMA TagBack ==
  ASSUME UInv, NEW i \in TagOps, row[i] = "done", RestoreTags(i)
  PROVE  /\ Undisturbed
         /\ Restored(i) \/ \A f \in Files : Dst(i) = New[f] => Settled(f)'
<1>1. /\ fs \in FsTypes /\ OnItsWay /\ Housed /\ Dst(i) \in Paths /\ RInv
      /\ \A f \in Files : Old[f] \in Paths
  BY AnyFacts, StepTypes, WaysArePaths DEF UInv
<1>2. CASE ~OwnsBackup(i)
  BY <1>2, FoldersBeside DEF RestoreTags, OwnsBackup, Restored
<1>3. CASE OwnsBackup(i)
  <2>1. fs' = [fs EXCEPT ![Dst(i)] = backup[i]] /\ dirs' = dirs \cup Within[Dst(i)]
    BY <1>3 DEF RestoreTags
  <2>2. NoWorse /\ AsideStay /\ \A f \in Files : Dst(i) = New[f] => Settled(f)'
    BY <1>1, <1>3, TagsRestored
  <2>3. \A f \in Files : fs'[Old[f]] # NoCopy => fs[Old[f]] # NoCopy \/ Dst(i) = Old[f]
    BY <1>1, <2>1 DEF FsTypes
  <2>4. Housed'
    BY <1>1, <2>1, <2>3, HousedKeeps
  <2> QED
    BY <2>1, <2>2, <2>4 DEF Undisturbed
<1> QED
  BY <1>2, <1>3

\* The step taken back is the newest one.
LEMMA NewestReversed ==
  ASSUME NEW S \in SUBSET Ops, NEW i \in Newest(S)
  PROVE  Newest(S) = {i}
BY OneNewest DEF Newest

\* A step is taken back, as rollback and undo do it.
LEMMA Reversal ==
  ASSUME UInv, NEW i \in Ops, i \in TagOps => row[i] = "done",
         \/ i \in Moves /\ ReversedMove(i)
         \/ Kind(i) = "mkdir" /\ UNCHANGED fs
            /\ (UNCHANGED dirs \/ (dirs' = dirs \ {Dst(i)} /\ (Dst(i) \in dirs => Empty(Dst(i)))))
         \/ Kind(i) = "rmdir" /\ UNCHANGED fs /\ dirs \subseteq dirs'
         \/ Kind(i) = "tag" /\ RestoreTags(i)
  PROVE  /\ Undisturbed
         /\ i \in Moves => \A f \in Files : /\ Dst(i) = New[f] => Aside(f)'
                                            /\ Src(i) = Old[f] => Within[Old[f]] \subseteq dirs'
         /\ i \in TagOps => Restored(i) \/ \A f \in Files : Dst(i) = New[f] => Settled(f)'
<1>1. CASE i \in Moves /\ ReversedMove(i)
  BY <1>1, MoveBack DEF Moves, TagOps, MoveKinds
<1>2. CASE Kind(i) = "tag" /\ RestoreTags(i)
  BY <1>2, TagBack DEF Moves, TagOps, MoveKinds
<1>3. CASE /\ Kind(i) \in {"mkdir", "rmdir"} /\ UNCHANGED fs
           /\ \/ dirs \subseteq dirs'
              \/ Kind(i) = "mkdir" /\ dirs' = dirs \ {Dst(i)} /\ (Dst(i) \in dirs => Empty(Dst(i)))
  <2>1. Kind(i) = "mkdir" => Dst(i) \in Created
    BY DEF Created
  <2>2. Undisturbed
    BY <1>3, <2>1, FoldersBeside
  <2> QED
    BY <1>3, <2>2 DEF Moves, TagOps, MoveKinds
<1> QED
  BY <1>1, <1>2, <1>3

\* Rollback takes back a step, or records that it could not.
LEMMA RollbackUndoable == UInv /\ RollbackAct => Undoable'
<1> SUFFICES ASSUME UInv, RollbackAct PROVE Undoable'
  OBVIOUS
<1>1. /\ phase = "rollback" /\ sub = "act" /\ UNCHANGED <<row, snap, book, job, undo, phase>>
      /\ Jobs /\ RowsDone /\ RowsBack /\ Undone /\ Forward /\ completed \in SUBSET Ops
      /\ job = "running"
  BY AnyFacts DEF RollbackAct, journal, jobs, Jobs
<1>2. PICK i \in Newest(completed) : RollsBack(i)
  BY DEF RollbackAct
<1>3. /\ i \in Ops /\ i \in completed /\ Newest(completed) = {i}
      /\ i \in TagOps => row[i] = "done"
  BY <1>1, <1>2, OneNewest, NewestReversed DEF RowsDone
<1>4. completed' \subseteq completed
  BY <1>2 DEF RollsBack
<1>5. Forward' /\ RowsDone' /\ RowsBack' /\ Undone'
  BY <1>1, <1>4 DEF Forward, RowsDone, RowsBack, AsBefore, Undone, Books, TagOps, Ops, Kind
<1> DEFINE TakesBack ==
             /\ UNCHANGED completed
             /\ \/ i \in Moves /\ ReversedMove(i) /\ UNCHANGED backup
                \/ /\ Kind(i) = "mkdir" /\ (Dst(i) \in dirs => Empty(Dst(i)))
                   /\ dirs' = dirs \ {Dst(i)} /\ UNCHANGED <<fs, backup>>
                \/ /\ Kind(i) = "rmdir"
                   /\ dirs' = dirs \cup Within[Dst(i)] /\ UNCHANGED <<fs, backup>>
                \/ /\ Kind(i) = "tag" /\ RestoreTags(i)
                   /\ backup' = [backup EXCEPT ![i] = NoCopy] \/ UNCHANGED backup
           Fails ==
             /\ completed' = completed \ {i} /\ UNCHANGED <<sub, backup>>
             /\ \/ i \in Moves /\ \E k \in {0, 1} : NotRenamed(Dst(i), Src(i), k)
                \/ UNCHANGED fs /\ dirs \subseteq dirs'
<1>6. CASE TakesBack
  <2>1. /\ Undisturbed
        /\ i \in Moves => \A f \in Files : /\ Dst(i) = New[f] => Aside(f)'
                                           /\ Src(i) = Old[f] => Within[Old[f]] \subseteq dirs'
        /\ i \in TagOps => Restored(i) \/ \A f \in Files : Dst(i) = New[f] => Settled(f)'
    BY <1>3, <1>6, Reversal
  <2>2. Reversed' \subseteq Reversed \cup {i}
    BY <1>1, <1>3, <1>6 DEF Reversed, Ops, Newest
  <2>3. \A j \in TagOps : backup'[j] = backup[j] \/ j = i
    BY <1>6, StepTypes, AnyFacts DEF TypeOK
  <2> QED
    BY <1>1, <1>5, <2>1, <2>2, <2>3, BackUndoable DEF Undisturbed
<1>7. CASE Fails
  <2>1. Undisturbed
    BY <1>7, MoveNotBack, FoldersBeside
  <2>2. Reversed' \subseteq Reversed
    BY <1>1, <1>7 DEF Reversed, Ops
  <2>3. 0 \notin Moves /\ 0 \notin TagOps
    BY StepTypes
  <2> QED
    BY <1>1, <1>5, <1>7, <2>1, <2>2, <2>3, BackUndoable DEF Undisturbed
<1>8. TakesBack \/ Fails
  BY <1>2 DEF RollsBack, NotRestored
<1> QED
  BY <1>6, <1>7, <1>8

\* Undo takes back a step, or ends without.
LEMMA UndoActUndoable == UInv /\ UndoAct => Undoable'
<1> SUFFICES ASSUME UInv, UndoAct PROVE Undoable'
  OBVIOUS
<1>1. /\ phase = "undo" /\ sub = "act" /\ UNCHANGED <<backup, row, snap, book, job, completed>>
      /\ Jobs /\ RowsDone /\ RowsBack /\ Undone /\ Forward /\ Pending \in SUBSET Ops
      /\ job # "queued"
  BY AnyFacts DEF UndoAct, journal
<1>2. PICK i \in Newest(Pending) : Undoes(i)
  BY DEF UndoAct
<1>3. i \in Ops /\ i \in Pending /\ Newest(Pending) = {i} /\ row[i] = "done"
  BY <1>1, <1>2, OneNewest, NewestReversed DEF Pending
<1>4. \/ sub' = "mark" /\ UNCHANGED <<phase, undo>>
      \/ phase' = "idle" /\ undo' \in {"canceled", "failed"}
  BY <1>2 DEF Undoes, UndoFails
<1>5. Forward' /\ RowsDone' /\ RowsBack' /\ Undone'
  BY <1>1, <1>4 DEF Forward, RowsDone, RowsBack, AsBefore, Undone, Books
<1> DEFINE TakesBack ==
             /\ sub' = "mark" /\ UNCHANGED phase
             /\ \/ i \in Moves /\ ReversedMove(i)
                \/ Kind(i) = "mkdir" /\ UNCHANGED fs
                   /\ (UNCHANGED dirs \/ (dirs' = dirs \ {Dst(i)} /\ (Dst(i) \in dirs => Empty(Dst(i)))))
                \/ Kind(i) = "rmdir" /\ UNCHANGED fs /\ dirs \subseteq dirs'
                \/ Kind(i) = "tag" /\ RestoreTags(i)
           Fails ==
             /\ phase' = "idle"
             /\ \/ i \in Moves /\ \E k \in {0, 1} : NotRenamed(Dst(i), Src(i), k)
                \/ UNCHANGED fs /\ dirs \subseteq dirs'
<1>6. CASE TakesBack
  <2>1. /\ Undisturbed
        /\ i \in Moves => \A f \in Files : /\ Dst(i) = New[f] => Aside(f)'
                                           /\ Src(i) = Old[f] => Within[Old[f]] \subseteq dirs'
        /\ i \in TagOps => Restored(i) \/ \A f \in Files : Dst(i) = New[f] => Settled(f)'
    BY <1>3, <1>6, Reversal
  <2>2. Reversed' \subseteq Reversed \cup {i}
    BY <1>1, <1>3, <1>6 DEF Reversed, Ops, Newest, Pending
  <2> QED
    BY <1>1, <1>5, <2>1, <2>2, BackUndoable DEF Undisturbed
<1>7. CASE Fails
  <2>1. Undisturbed
    BY <1>7, MoveNotBack, FoldersBeside
  <2>2. Reversed' \subseteq Reversed
    BY <1>1, <1>7 DEF Reversed, Ops
  <2>3. 0 \notin Moves /\ 0 \notin TagOps
    BY StepTypes
  <2> QED
    BY <1>1, <1>5, <2>1, <2>2, <2>3, BackUndoable DEF Undisturbed
<1>8. TakesBack \/ Fails
  BY <1>2 DEF Undoes, UndoFails, NotRestored
<1> QED
  BY <1>6, <1>7, <1>8

-----------------------------------------------------------------------------
(* The invariant, and what it is for. *)

\* Before the run every file is at its old path, in folders that exist.
LEMMA InitUndoable == Init => Undoable
<1> SUFFICES ASSUME Init PROVE Undoable
  OBVIOUS
<1>1. \A f \in Files, p \in Paths : fs[p].file = f <=> p = Old[f]
  <2> SUFFICES ASSUME NEW f \in Files, NEW p \in Paths PROVE fs[p].file = f <=> p = Old[f]
    OBVIOUS
  <2>1. CASE \E g \in Files : Old[g] = p
    <3> DEFINE h == CHOOSE g \in Files : Old[g] = p
    <3>1. h \in Files /\ Old[h] = p
      BY <2>1
    <3>2. fs[p].file = h
      BY <2>1 DEF Init
    <3> HIDE DEF h
    <3> QED
      BY <3>1, <3>2, PlanAssumption
  <2>2. CASE ~\E g \in Files : Old[g] = p
    <3>1. fs[p] = NoCopy
      BY <2>2 DEF Init
    <3> QED
      BY <2>2, <3>1, FreeHoldsNothing
  <2> QED
    BY <2>1, <2>2
<1>2. \A p \in Paths, f \in Files : fs[p].file = f => fs[p].tags = "old"
  BY FreeHoldsNothing DEF Init
<1>3. OnItsWay
  BY <1>1, WaysArePaths DEF OnItsWay, Way
<1>4. TagsBack
  BY <1>2 DEF TagsBack, Settled, OldTags
<1>5. Housed
  <2>1. \A f \in Files : Within[Old[f]] \subseteq Dirs
    BY OrganizeAssumption, WaysArePaths
  <2> QED
    BY <2>1, PruneAssumption DEF Housed, InitialDirs, Init
<1>6. /\ phase = "idle" /\ undo = "none" /\ dirs = InitialDirs
      /\ \A i \in Ops : row[i] = "none"
      /\ \A b \in Books : AsBefore(b)
  BY DEF Init, AsBefore
<1>7. Forward /\ Back /\ RowsDone /\ FoldersBack /\ RowsBack /\ Undone
  BY <1>6, StepTypes DEF Forward, Back, Reversed, RowsDone, FoldersBack, RowsBack, Undone
<1> QED
  BY <1>3, <1>4, <1>5, <1>7 DEF Undoable

\* Every step of the program keeps the invariant.
THEOREM NextUInv == UInv /\ [Next]_vars => UInv'
<1> SUFFICES ASSUME UInv, [Next]_vars PROVE UInv'
  OBVIOUS
<1>1. RInv'
  BY NextRInv DEF UInv
<1>2. Undoable'
  <2>1. CASE Execute
    BY <2>1, RunUndoable, InsertUndoable, MkdirUndoable, MovesUndoable, RmdirUndoable,
       BackupUndoable, WriteUndoable, MarkDoneUndoable DEF Execute
  <2>2. CASE Rollback
    BY <2>2, RollbackUndoable, MarksUndoable, EndsUndoable DEF Rollback
  <2>3. CASE Undo
    BY <2>3, UndoActUndoable, MarksUndoable, PassUndoable, EndsUndoable DEF Undo
  <2>4. CASE RequestUndo \/ Cancel \/ Crash \/ UNCHANGED vars
    BY <2>4, EndsUndoable
  <2>5. CASE DropFile
    BY <2>5, DropUndoable
  <2> QED
    BY <2>1, <2>2, <2>3, <2>4, <2>5 DEF Next, Program
<1> QED
  BY <1>1, <1>2 DEF UInv

\* What is left of a run can be undone, at every instant of every run, rollback and undo:
\* wherever they fail, are canceled or die, and whatever the rollback could not do.
THEOREM UndoInvariance == Spec => []UInv
<1>1. Init => RInv
  BY InitIInv, InitJournaled, InitReturns DEF RInv, JInv
<1>2. Init => UInv
  BY <1>1, InitUndoable DEF UInv
<1> QED
  BY <1>2, NextUInv, PTL DEF Spec

\* After an undo a file that is not stuck can only be at its old path or, a second copy,
\* at its new one.
LEMMA NotBetween ==
  ASSUME UInv, Pending = {}, ~\E i \in Moves : Stuck(i), NEW f \in Files, NEW p \in Paths,
         fs[p].file = f
  PROVE  p \in {Old[f], New[f]}
<1> SUFFICES ASSUME NEW j \in Moves, FixedBy(f, j), p = Dst(j) PROVE FALSE
  BY AnyFacts DEF OnItsWay, Way
<1>1. Kind(j) = "leg1" /\ Dst(j) \in Temps /\ j \in Ops
  BY OrganizeAssumption, StepTypes DEF FixedBy
<1>2. row[j] # "none"
  BY DEF UInv, RInv, JInv, Journaled, NoEffect, NotMoved
<1>3. row[j] \in {"pending", "failed", "reverted"}
  BY <1>1, <1>2, AnyFacts DEF TypeOK, Pending
<1> QED
  BY <1>1, <1>3 DEF Stuck

\* And it is at its old path.
LEMMA BackAtOld ==
  ASSUME UInv, Pending = {}, ~\E i \in Moves : Stuck(i), NEW f \in Files
  PROVE  fs[Old[f]].file = f
<1>1. PICK p \in Paths : fs[p].file = f
  BY AnyFacts DEF OnItsWay
<1> SUFFICES ASSUME Old[f] # New[f], p = New[f] PROVE fs[Old[f]].file = f
  BY <1>1, NotBetween
<1>2. PICK j \in Moves : Dst(j) = New[f]
  BY PlanAssumption, StepTypes DEF MovedBy, FixedBy
<1>3. row[j] # "none" /\ j \in Ops
  BY <1>1, <1>2, StepTypes DEF UInv, RInv, JInv, Journaled, NoEffect, NotMoved
<1>4. row[j] = "reverted"
  BY <1>1, <1>2, <1>3, AnyFacts DEF TypeOK, Pending, Stuck
<1>5. PICK q \in Paths \ {New[f]} : fs[q].file = f
  BY <1>2, <1>3, <1>4, AnyFacts DEF Reversed, Back, Aside
<1> QED
  BY <1>5, NotBetween

\* An undo that has returned without error has brought everything back: the pruned
\* folders, the book rows and, unless a move is stuck, every file, with its old tags
\* where the run failed and no write of new ones was passed over.
THEOREM BroughtBack == Spec => []UndoneMeansOriginal
<1>1. UInv => UndoneMeansOriginal
  <2> SUFFICES ASSUME UInv, undo = "done" PROVE UndoneMeansOriginal
    BY DEF UndoneMeansOriginal
  <2>1. Pending = {} /\ SnapsLeft = {}
    BY AnyFacts DEF Undone
  <2>2. InitialDirs \subseteq dirs
    BY <2>1, AnyFacts, StepTypes DEF FoldersBack, Emptied, Pending
  <2>3. \A b \in Books : book[b].at = "old" /\ book[b].state = Prior[b]
    BY <2>1, AnyFacts DEF RowsBack, AsBefore, SnapsLeft
  <2>4. ASSUME ~\E i \in Moves : Stuck(i), NEW f \in Files,
               job # "done", ~KeptNewTags(f), ~Doubled(f)
        PROVE  fs[Old[f]].tags = "old"
    <3>1. Untagged(f)
      <4> SUFFICES ASSUME NEW j \in TagOps, Dst(j) = New[f] PROVE Restored(j)
        BY DEF Untagged
      <4>1. row[j] \in {"none", "reverted"} /\ j \in Ops
        BY <2>1, <2>4, StepTypes, AnyFacts DEF KeptNewTags, TagOps, TypeOK, Pending
      <4> QED
        BY <4>1 DEF Restored, Reversed
    <3>2. Settled(f)
      BY <2>4, <3>1, AnyFacts DEF TagsBack
    <3>3. ~Twice(f)
      BY <2>1, <2>4, NotBetween DEF Twice, Doubled
    <3> QED
      BY <2>1, <2>4, <3>2, <3>3, BackAtOld, WaysArePaths DEF Settled, OldTags
  <2> QED
    BY <2>1, <2>2, <2>3, <2>4, BackAtOld DEF UndoneMeansOriginal
<1> QED
  BY <1>1, UndoInvariance, PTL
=============================================================================
