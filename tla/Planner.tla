------------------------------- MODULE Planner -------------------------------
(***************************************************************************)
(* What an organize run would do to a library, and what the run and the     *)
(* scans after it make of that: the rows of a scan (Grouping), the plan for *)
(* the selected books (Names), the moves and the tags (Containers) of the   *)
(* run. A run is one step here; what happens between its steps is in        *)
(* Organize and Catalog.                                                    *)
(***************************************************************************)
EXTENDS Grouping, Names, Containers

CONSTANTS
  Worlds,     \* a library's first settings and files, what is found for its books, its file system
  None,       \* no metadata
  Year,       \* Year[y]: the name of a year, <<>> if it is not known
  Track2(_),  \* Track2(n): the piece for track n
  MaxPathLen, \* the longest path
  MaxRuns     \* bound: organize runs

VARIABLES
  world, \* fixed: [libs, later, tree, metas, exact]; exact: case matters to the file system
  lib,   \* the library's settings
  tree,  \* its audio files, [id, path, parts]; the id only follows a file around
  rows,  \* its books
  plan,  \* the plan being reviewed or run, or <<>>
  runs,  \* bound; with the folder it names a new row
  ran    \* history: the books that the last step organized

vars == <<world, lib, tree, rows, plan, runs, ran>>

Accepted == {"matched", "organized"}
Row(id) == CHOOSE r \in rows : r.id = id
KeyIn(exact, path) == IF exact THEN path ELSE FoldedPath(path)
Key(path) == KeyIn(world.exact, path)
FilesAt(files, path) == {f \in files : Key(f.path) = Key(path)}
Ext(path) == Last(Last(path))

\* What a world is: files on a disk, each with a path of its own by the rules of the file
\* system, and text where text belongs. The piece "{" is that of templates; a brace in a
\* title is part of a word.
IsPath(p) == IsList(p) /\ p # <<>> /\ \A i \in DOMAIN p : IsList(p[i])
IsFile(f) ==
  f = [id |-> f.id, path |-> f.path, parts |-> f.parts] /\ IsPath(f.path) /\ Ext(f.path) # "{"
  /\ f.parts # Error /\ IsAudio(Ext(f.path), f.parts)
IsText(s) == IsList(s) /\ "{" \notin Range(s)
IsMeta(m) ==
  m # None /\ IsText(m.title) /\ IsText(m.author) /\ IsText(m.sort) /\ IsText(m.series) /\ IsText(Year[m.year])
ASSUME WorldsAssumption ==
  \A w \in Worlds :
    /\ IsFiniteSet(w.tree) /\ \A f \in w.tree : IsFile(f)
    /\ \A f, g \in w.tree : f = g \/ (f.id # g.id /\ KeyIn(w.exact, f.path) # KeyIn(w.exact, g.path))
    /\ \A m \in w.metas : IsMeta(m)
    /\ \A l \in w.libs \cup w.later : IsList(l.single) /\ IsList(l.multi)
ASSUME TokensAssumption == Tokens \subseteq {"title", "author", "series", "year", "ext", "track2"}
ASSUME BoundsAssumption == MaxPathLen \in Nat /\ MaxRuns \in Nat

ValidSettings(l) == ValidateTemplate(l.single) /\ ValidateTemplate(l.multi)

\* createLibrary.
Init ==
  /\ world \in Worlds
  /\ lib \in {l \in world.libs : ValidSettings(l)}
  /\ tree = world.tree
  /\ rows = {} /\ plan = <<>> /\ runs = 0 /\ ran = {}

UpdateLibrary(l) ==
  /\ plan = <<>> /\ ValidSettings(l)
  /\ lib' = l /\ ran' = {}
  /\ UNCHANGED <<world, tree, rows, plan, runs>>

\* readTags: a file that cannot be read has none.
TagsOf(f) == IF Readable(Ext(f.path), f.parts) THEN Read(Ext(f.path), f.parts) ELSE NoTags
TagTrack(f) == IF TagsOf(f) = NoTags THEN 0 ELSE TagsOf(f)[1].track

\* Mutant: a scan resets the metadata of an accepted book.
UpsertedAnew(u) ==
  LET known == {r \in rows : r.dir = u.dir}
      r == CHOOSE k \in known : TRUE
      kept == known # {} /\ r.state \in Accepted
  IN [id |-> IF known = {} THEN <<runs, u.dir>> ELSE r.id, dir |-> u.dir, layout |-> u.layout,
      state |-> IF kept THEN r.state ELSE "unmatched", meta |-> None, files |-> FileRows(u)]

\* UpsertBookWithFiles for every unit, then the prune: an accepted book keeps its
\* metadata and state.
Upserted(u) ==
  LET known == {r \in rows : r.dir = u.dir}
      r == CHOOSE k \in known : TRUE
      kept == known # {} /\ r.state \in Accepted
  IN [id |-> IF known = {} THEN <<runs, u.dir>> ELSE r.id, dir |-> u.dir, layout |-> u.layout,
      state |-> IF kept THEN r.state ELSE "unmatched", meta |-> IF kept THEN r.meta ELSE None,
      files |-> FileRows(u)]
Scanned == {Upserted(u) : u \in ToSet(Group({[path |-> f.path, track |-> TagTrack(f)] : f \in tree}))}

Scan ==
  /\ plan = <<>>
  /\ rows' = Scanned /\ ran' = {}
  /\ UNCHANGED <<world, lib, tree, plan, runs>>

\* A match, by the matcher or by the user.
SetBookMatch(r, m) ==
  /\ plan = <<>>
  /\ rows' = (rows \ {r}) \cup {[r EXCEPT !.state = "matched", !.meta = m]}
  /\ ran' = {}
  /\ UNCHANGED <<world, lib, tree, plan, runs>>
-----------------------------------------------------------------------------
(* planBook.                                                                *)

\* listBookFiles: by track, then by path.
Files(r) == Sort(r.files, LAMBDA f, g : f.track < g.track \/ (f.track = g.track /\ PathBefore(f.rel, g.rel)))

\* The stored tracks if they are positive and distinct, else the positions.
EffectiveTracks(r) ==
  LET files == Files(r)
      tracks == [i \in DOMAIN files |-> files[i].track]
  IN IF r.layout # "multi" THEN [i \in DOMAIN files |-> 0]
     ELSE IF IsInjective(tracks) /\ 0 \notin Range(tracks) THEN tracks ELSE [i \in DOMAIN files |-> i]

FirstNonEmpty(a, b) == IF a # <<>> THEN a ELSE b
AuthorFolderName(m) == IF lib.author = "name" THEN FirstNonEmpty(m.author, m.sort)
                                              ELSE FirstNonEmpty(m.sort, m.author)
Placeable(r) ==
  /\ r.state \in Accepted
  /\ r.meta.title # <<>>
  /\ lib.mode = "author_first" => AuthorFolderName(r.meta) # <<>>
  /\ lib.mode = "series_first" => r.meta.series # <<>> \/ AuthorFolderName(r.meta) # <<>>

TokenValues(m, ext, track) ==
  [t \in Tokens |-> CASE t = "title" -> m.title
                      [] t = "author" -> m.author
                      [] t = "series" -> m.series
                      [] t = "year" -> Year[m.year]
                      [] t = "ext" -> ext
                      [] t = "track2" -> IF track = 0 THEN <<>> ELSE <<Track2(track)>>]

\* The extension is put back if the template or the cut lost it.
FileName(r, f, track) ==
  LET ext == Ext(f.rel)
      name == SanitizeSegment(Render(IF r.layout = "multi" THEN lib.multi ELSE lib.single,
                                     TokenValues(r.meta, <<ext>>, track)))
  IN IF Last(name) = ext THEN name ELSE Append(name, ext)

BookDirTemplate == <<"{", "title", "}", "[", "{", "year", "}", "]">>
BookDirSegments(m) ==
  LET author == IF AuthorFolderName(m) = <<>> THEN <<>> ELSE <<SanitizeSegment(AuthorFolderName(m))>>
      series == IF m.series = <<>> THEN <<>> ELSE <<SanitizeSegment(m.series)>>
      title == <<SanitizeSegment(Render(BookDirTemplate, TokenValues(m, <<>>, 0)))>>
  IN (IF lib.mode = "series_first" THEN series \o author ELSE author \o series) \o title

\* Mutant: the track is the place in the folder.
DesiredByPlace(r, f) ==
  LET numbered == r.layout = "multi" /\ f.track > 0
      place == SelectInSeq(r.files, LAMBDA g : g = f)
  IN [meta |-> r.meta, track |-> IF numbered THEN place ELSE 0,
      total |-> IF numbered /\ Len(r.files) > 1 THEN Len(r.files) ELSE 0]

\* tagwrite.Desired.
Desired(r, f) ==
  LET numbered == r.layout = "multi" /\ f.track > 0
  IN [meta |-> r.meta, track |-> IF numbered THEN f.track ELSE 0,
      total |-> IF numbered /\ Len(r.files) > 1 THEN Len(r.files) ELSE 0]

\* The files whose tags can be read and differ.
CheckBookTags(r) ==
  {f \in ToSet(r.files) :
     /\ Writable(Ext(f.rel))
     /\ \E g \in FilesAt(tree, r.dir \o f.rel) :
          Readable(Ext(f.rel), g.parts) /\ Read(Ext(f.rel), g.parts) # <<Desired(r, f)>>}

\* skip is "" if the book can be organized. The moves include those of files that
\* are in place; tags says which files would be rewritten.
Skipped(r, why) == [id |-> r.id, skip |-> why, dir |-> <<>>, moves |-> <<>>, tags |-> {}]
FileNames(r, files, tracks) == [i \in DOMAIN files |-> FileName(r, files[i], tracks[i])]
Budget(names) == MaxPathLen - 2 - Max({Len(name) : name \in Range(names)})
Moves(r, files, dir, names) ==
  [i \in DOMAIN files |-> [from |-> r.dir \o files[i].rel, to |-> Append(dir, names[i])]]
Blocked(m) == m.from # m.to /\ FilesAt(tree, m.to) # {} /\ ~EqualFold(m.from, m.to)

PlanMoves(r, dir, moves) ==
  IF \E m \in ToSet(moves) : Blocked(m) THEN Skipped(r, "blocked")
  ELSE [id |-> r.id, skip |-> "", dir |-> dir, moves |-> moves,
        tags |-> IF lib.writeTags THEN CheckBookTags(r) ELSE {}]
PlanDir(r, names, budget, dir) ==
  IF ChainLen(dir) > budget THEN Skipped(r, "too long")
  ELSE IF ~IsInjective([i \in DOMAIN names |-> Folded(names[i])]) THEN Skipped(r, "same name")
  ELSE PlanMoves(r, dir, Moves(r, Files(r), dir, names))
PlanNames(r, names) ==
  PlanDir(r, names, Budget(names), FitDirSegments(BookDirSegments(r.meta), Budget(names)))
PlanBook(r) ==
  IF ~Placeable(r) THEN Skipped(r, "unplaceable")
  ELSE PlanNames(r, FileNames(r, Files(r), EffectiveTracks(r)))
-----------------------------------------------------------------------------
(* BuildPlan.                                                               *)

Steps(books) ==
  Filter(FlattenSeq([i \in DOMAIN books |-> books[i].moves]), LAMBDA m : m.from # m.to)
Targets(bp) == {FoldedPath(m.to) : m \in ToSet(Steps(<<bp>>))}
Active(books) == Filter(books, LAMBDA bp : bp.skip = "")

\* Mutant: only the files are claimed.
DecideByFiles(books, bp) ==
  LET held == {b \in ToSet(Active(books)) : b.id # bp.id}
  IN IF bp.skip = "" /\ (\E b \in held : Targets(b) \cap Targets(bp) # {})
     THEN Skipped(bp, "collides") ELSE bp

\* A book that is not skipped claims its targets and its folder.
Decide(books, bp) ==
  LET held == {b \in ToSet(Active(books)) : b.id # bp.id}
  IN IF bp.skip # "" THEN bp
     ELSE IF \E b \in held : Targets(b) \cap Targets(bp) # {} \/ FoldedPath(b.dir) = FoldedPath(bp.dir)
          THEN Skipped(bp, "collides")
     ELSE IF \E r \in rows : r.dir = bp.dir /\ r.id # bp.id THEN Skipped(bp, "occupied")
     ELSE bp

BuildPlan(selected) ==
  FoldLeft(LAMBDA books, id : Append(books, Decide(books, PlanBook(Row(id)))), <<>>, selected)

Preview(selected) ==
  /\ plan = <<>> /\ runs < MaxRuns
  /\ plan' = BuildPlan(selected) /\ ran' = {}
  /\ UNCHANGED <<world, lib, tree, rows, runs>>
-----------------------------------------------------------------------------
(* Execute. The folders that were there stay there until every file moved.  *)

\* A folder that is there keeps its name: it is found by any case.
Resolve(files, dir) ==
  [i \in DOMAIN dir |->
     LET there == {f.path[i] : f \in {g \in files : /\ Len(g.path) > i
                                                    /\ Key(SubSeq(g.path, 1, i)) = Key(SubSeq(dir, 1, i))}}
     IN IF there = {} THEN dir[i] ELSE CHOOSE n \in there : TRUE]

\* doMove, or the two legs of a case fix: the source is there, and at the
\* destination there is nothing but the source.
CanMove(files, m) ==
  LET moved == FilesAt(files, m.from)
  IN moved # {} /\ FilesAt(files, m.to) \subseteq moved
DoMove(files, m) ==
  LET f == CHOOSE g \in FilesAt(files, m.from) : TRUE
  IN (files \ {f}) \cup {[f EXCEPT !.path = Append(Resolve(tree \cup files, Front(m.to)), Last(m.to))]}

\* The files after a step, {} once one could not be done.
MoveStep(files, m) == IF files # {} /\ CanMove(files, m) THEN DoMove(files, m) ELSE {}
Moved == FoldLeft(MoveStep, tree, Steps(Active(plan)))

\* executeTagWrite for a file the plan lists, at its new place.
Planned(bp, g) ==
  {f \in bp.tags : \E m \in ToSet(bp.moves) : m.from = Row(bp.id).dir \o f.rel /\ Key(m.to) = Key(g.path)}
Due(g) == UNION {{Desired(Row(bp.id), f) : f \in Planned(bp, g)} : bp \in ToSet(Active(plan))}
Tagged(g, ts, written) ==
  [parts |-> IF written = Error THEN g.parts ELSE written, ok |-> Verified(Ext(g.path), written, ts)]
TagWrite(g) ==
  IF Due(g) = {} THEN [parts |-> g.parts, ok |-> TRUE]
  ELSE LET ts == CHOOSE d \in Due(g) : TRUE IN Tagged(g, ts, Write(Ext(g.path), g.parts, ts))
MovesDone == Moved # {}
TagsDone == \A g \in Moved : TagWrite(g).ok
Succeeds == Active(plan) # <<>> /\ MovesDone /\ TagsDone

\* Mutant: the new names go to the files in another order.
FinalizedByPath(bp) ==
  LET r == Row(bp.id) IN
  [r EXCEPT !.dir = bp.dir, !.state = "organized",
            !.files = [i \in DOMAIN bp.moves |-> [rel |-> <<Last(bp.moves[i].to)>>, track |-> r.files[i].track]]]

\* FinalizeOrganize.
Finalized(bp) ==
  LET r == Row(bp.id) IN
  [r EXCEPT !.dir = bp.dir, !.state = "organized",
            !.files = [i \in DOMAIN bp.moves |-> [rel |-> <<Last(bp.moves[i].to)>>, track |-> Files(r)[i].track]]]

\* The file of a failed run whose tags did not read back as they were written is in no
\* list of what was done: rollback moves it back and leaves its bytes.
Spoilt == {[p[1] EXCEPT !.parts = TagWrite(p[2]).parts] :
             p \in {q \in tree \X Moved : q[1].id = q[2].id /\ ~TagWrite(q[2]).ok}}

\* All of it or, after a rollback, nothing else.
Execute ==
  /\ plan # <<>>
  /\ IF Succeeds
     THEN /\ tree' = {[g EXCEPT !.parts = TagWrite(g).parts] : g \in Moved}
          /\ ran' = {bp.id : bp \in ToSet(Active(plan))}
          /\ rows' = {IF \E bp \in ToSet(Active(plan)) : bp.id = r.id
                      THEN Finalized(CHOOSE bp \in ToSet(Active(plan)) : bp.id = r.id) ELSE r : r \in rows}
     ELSE /\ IF Active(plan) = <<>> \/ ~MovesDone THEN UNCHANGED tree
             ELSE \E f \in Spoilt : tree' = {IF g.id = f.id THEN f ELSE g : g \in tree}
          /\ ran' = {} /\ UNCHANGED rows
  /\ plan' = <<>> /\ runs' = runs + 1
  /\ UNCHANGED <<world, lib>>

Ids == {r.id : r \in rows}
Selections == {<<i>> : i \in Ids} \cup {<<i, j>> : i, j \in Ids}

Next ==
  \/ \E l \in world.later : UpdateLibrary(l)
  \/ Scan
  \/ \E r \in rows, m \in world.metas : SetBookMatch(r, m)
  \/ \E s \in Selections : Preview(s)
  \/ Execute

Spec == Init /\ [][Next]_vars
-----------------------------------------------------------------------------
(* Properties.                                                              *)

\* Books, files and plans have the shape the code's records have, and a plan names
\* each selected book, in order.
TypeOK ==
  /\ world \in Worlds /\ lib \in world.libs \cup world.later /\ runs \in 0 .. MaxRuns
  /\ \A f \in tree : Len(f.path) >= 1 /\ f.parts # Error
  /\ \A r \in rows : /\ r.state \in {"unmatched", "matched", "organized"} /\ r.files # <<>>
                     /\ r.state \in Accepted <=> r.meta # None
                     /\ r.layout = "single" <=> Len(r.files) = 1
  /\ \A i \in DOMAIN plan : plan[i].skip = "" <=> Len(plan[i].moves) = Len(Row(plan[i].id).files)

\* The rows and the disk agree: once scanned, every file is one book's, every file of
\* a book is there, and a folder is one book's, through matches, conflicts, case
\* changes and runs (the UNIQUE index of FinalizeOrganize never fires).
RowsAgreeWithDisk ==
  rows # {} =>
    /\ \A r, s \in rows : r.dir = s.dir => r = s
    /\ \A f \in tree : \E r \in rows : \E g \in ToSet(r.files) : Key(r.dir \o g.rel) = Key(f.path)
    /\ Cardinality(tree) = Cardinality(UNION {{r} \X DOMAIN r.files : r \in rows})

\* Two things a plan does not foresee. On a file system with case, another file may
\* have the name a case fix wants; and a file the plan would tag may not be writable.
CaseTaken == \E m \in ToSet(Steps(Active(plan))) :
               FoldedPath(m.from) = FoldedPath(m.to) /\ FilesAt(tree, m.from) # FilesAt(tree, m.to)
               /\ FilesAt(tree, m.to) # {}
TagRefused == MovesDone /\ ~TagsDone
Distinct == IsInjective([i \in DOMAIN plan |-> plan[i].id])

\* A plan for different books can be run as it was reviewed: the moves do not meet
\* one another or what is there, and the tags can be written, but for CaseTaken and
\* TagRefused (plan.go 370-382, 77-80).
PlanRuns == Active(plan) # <<>> /\ Distinct => Succeeds \/ CaseTaken \/ TagRefused

StaysPut(bp) == bp.skip = "" /\ Steps(<<bp>>) = <<>>
InPlace(bp) == bp = Decide(<<>>, bp) /\ StaysPut(bp) /\ bp.tags = {}

\* Organize is idempotent: right after a run the books it organized plan to nothing,
\* no move and no tag, whatever their tracks, names, case, template and tags were.
Settles == \A id \in ran : InPlace(PlanBook(Row(id)))

\* The disk has the very names the row has. On a file system without case a folder
\* that only changes case keeps its name, and the row records another.
Recorded(r) == \A f \in ToSet(r.files) : \E g \in tree : g.path = r.dir \o f.rel
\* The tags say nothing of tracks, or all there is to say.
UniformTags(r) ==
  LET tags == {TagTrack(f) : f \in {g \in tree : Front(g.path) = r.dir}}
  IN tags = {0} \/ (0 \notin tags /\ Cardinality(tags) = Len(r.files))

\* And it stays so: the next scan finds the same tracks in the names the run gave, so
\* that the books still plan to no move, if the disk has the names of the rows and
\* the tags of a book's files are uniform.
StaysSettled ==
  ran # {} /\ (\A r \in rows : Recorded(r)) =>
    \A r \in Scanned : r.id \in ran /\ UniformTags(r) =>
      StaysPut(PlanBook(r))

\* A book of one folder; and one that has what is in its folder, and in the folders
\* of that, to itself.
Flat(r) == \A f \in ToSet(r.files) : Len(f.rel) = 1
Alone(r) ==
  \A g \in tree : r.dir \in {Front(g.path), Front(Front(g.path))} => \E f \in ToSet(r.files) : g.path = r.dir \o f.rel

\* A scan keeps every accepted book whose files are there, unless its folder has
\* another case (Recorded) or the name of a disc, or it is one of merged discs and
\* another book has moved in next to them or below.
Kept(r) == \E s \in Scanned : s.id = r.id
ScanKeepsBooks ==
  \A r \in rows : r.state \in Accepted /\ Recorded(r) /\ ~IsDisc(r.dir) /\ (Flat(r) \/ Alone(r)) => Kept(r)

\* As the scan and the matcher promise it, without the exceptions. False.
RescanKeepsBooks == \A r \in rows : r.state \in Accepted => Kept(r)

\* No planned path is longer than the platform allows, and a folder is never cut to
\* less than what is still a name.
PathsFit ==
  \A bp \in ToSet(Active(plan)) :
    /\ \A m \in ToSet(bp.moves) : ChainLen(m.to) + 1 <= MaxPathLen
    /\ LET whole == BookDirSegments(Row(bp.id).meta)
       IN \A i \in DOMAIN whole : Len(bp.dir[i]) >= Min({MinSegment, Len(whole[i])})

\* A template that was accepted leaves no token in a name, at any depth of groups.
TemplatesRender ==
  \A bp \in ToSet(plan) : \A m \in ToSet(bp.moves) : "{" \notin ToSet(Last(m.to))

\* The numbers on the disk are the tracks: if the files of a book have no track tags
\* and names that differ in one run of digits only, and these start at 0 or 1,
\* each file's track is its number (one more if there is a 0), gaps and all,
\* whatever other digits the names have; through runs and scans.
Numbers(r, i) == [k \in DOMAIN r.files |-> Num[Last(r.files[k].rel)[i]]]
Numbered(r, i) ==
  /\ Len(r.files) > 1
  /\ \A f, g \in ToSet(r.files) :
       LET m == Last(f.rel)
           n == Last(g.rel)
       IN Len(f.rel) = 1 /\ Len(m) = Len(n) /\ \A j \in DOMAIN m : j # i => m[j] = n[j]
  /\ \A f \in ToSet(r.files) : i \in DOMAIN Last(f.rel) /\ Last(f.rel)[i] \in DOMAIN Num
  /\ IsInjective(Numbers(r, i)) /\ Range(Numbers(r, i)) \cap {0, 1} # {}
Untagged(r) == \A f \in ToSet(r.files) : \A g \in FilesAt(tree, r.dir \o f.rel) : TagTrack(g) = 0
NumberingKept ==
  \A r \in rows : Untagged(r) => \A i \in 1 .. 4 : Numbered(r, i) =>
    \A k \in DOMAIN r.files :
      r.files[k].track = Numbers(r, i)[k] + (IF 0 \in Range(Numbers(r, i)) THEN 1 ELSE 0)

\* The files of merged disc folders are played in the order of the discs, disc 10
\* after disc 2, when their files are untagged: discs tag tracks of their own.
OnDisc(f) == Len(f.rel) = 2
Disced(r) == \A f \in ToSet(r.files) : OnDisc(f)
InDiscOrder(r) ==
  LET files == Files(r) IN \A i, j \in DOMAIN files : i < j => Disc(Front(files[i].rel)) <= Disc(Front(files[j].rel))
DiscsInOrder == \A r \in rows : Disced(r) /\ Untagged(r) => InDiscOrder(r)
-----------------------------------------------------------------------------
\* A tag write keeps the audio: after a run, one that failed too, every file has the
\* same media as before, every chunk offset of every track points to the same place
\* of it, and what was a readable container still is one (but for OpenEnded); wherever
\* moov is, whatever chain it had.
AudioIsKept ==
  [][\A f \in tree : \E g \in tree' :
       /\ g.id = f.id /\ Media(g.parts) = Media(f.parts) /\ Chunks(g.parts) = Chunks(f.parts)
       /\ Readable(Ext(f.path), f.parts) /\ ~OpenEnded(f.parts) => Readable(Ext(g.path), g.parts)]_vars
=============================================================================
