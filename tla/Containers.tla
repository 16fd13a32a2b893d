----------------------------- MODULE Containers -----------------------------
(***************************************************************************)
(* Audio files as the tag writers see them: a sequence of boxes (for MP3 and *)
(* FLAC, of tags, blocks and audio). Lengths are in units: a header is 1. A  *)
(* box records its size; 0 means "to the end of the file". The levels        *)
(* between trak and its chunk table are left out.                            *)
(***************************************************************************)
EXTENDS Integers, Sequences, FiniteSets, SequencesExt, Lists

CONSTANTS
  MaxOffset,  \* the largest offset of an stco table
  TagLen(_)   \* the length of a tag set in a file

Box(typ, len, kids, data) ==
  [typ |-> typ, len |-> len, kids |-> kids, data |-> data,
   size |-> FoldLeft(LAMBDA n, k : n + k.size, 1 + len, kids)]

\* Nothing written; also the tags of a file that has none.
Error == <<>>
NoTags == <<>>

Find(boxes, typ) == SelectInSeq(boxes, LAMBDA b : b.typ = typ)
Has(boxes, typ) == Find(boxes, typ) # 0
At(moov, path) == FoldLeft(LAMBDA b, i : b.kids[i], moov, path)
-----------------------------------------------------------------------------
(* Where the tags of an MP4 are: paths from moov.                           *)

Below(box, path, typ) == IF Has(box.kids, typ) THEN <<Append(path, Find(box.kids, typ))>> ELSE <<>>
Chains(moov) ==
  LET udta == Below(moov, <<>>, "udta")
      inner == FlattenSeq([i \in DOMAIN udta |-> Below(At(moov, udta[i]), udta[i], "meta")])
      metas == inner \o Below(moov, <<>>, "meta")
  IN FlattenSeq([i \in DOMAIN metas |-> Below(At(moov, metas[i]), metas[i], "ilst")])

\* The boxes on the way to a path, the innermost first, and which child each goes on to.
Ancestors(moov, path) ==
  [k \in DOMAIN path |-> LET depth == Len(path) - k
                         IN [box |-> At(moov, SubSeq(path, 1, depth)), place |-> path[depth + 1]]]

\* The box at the path is replaced, and its ancestors record delta more.
Replaced(moov, path, new, delta) ==
  FoldLeft(LAMBDA child, a : [a.box EXCEPT !.kids[a.place] = child, !.size = @ + delta], new, Ancestors(moov, path))

\* A box gets one more child, in front or at the end.
Adopt(moov, path, kid, front) ==
  LET box == At(moov, path)
      kids == IF front THEN <<kid>> \o box.kids ELSE Append(box.kids, kid)
  IN Replaced(moov, path, [box EXCEPT !.kids = kids, !.size = @ + kid.size], kid.size)

\* createChain: only ever under udta.
CreateChain(moov, ilst) ==
  LET meta == Box("meta", 0, <<Box("hdlr", 0, <<>>, <<>>), ilst>>, <<>>)
      udta == Below(moov, <<>>, "udta")
  IN IF udta = <<>> THEN Adopt(moov, <<>>, Box("udta", 0, <<meta>>, <<>>), FALSE)
     ELSE LET inner == Below(At(moov, udta[1]), udta[1], "meta")
          IN IF inner = <<>> THEN Adopt(moov, udta[1], meta, FALSE) ELSE Adopt(moov, inner[1], ilst, TRUE)

\* The length a box really has.
Length(box) == Box("", box.len, box.kids, <<>>).size
Resized(box) == [box EXCEPT !.size = Length(box)]

SpliceIlst(moov, ilst) ==
  LET chains == Chains(moov)
  IN IF chains = <<>>
     THEN Resized(CreateChain(moov, ilst))
     ELSE Replaced(moov, chains[1], ilst, ilst.size - At(moov, chains[1]).size)

\* Every table of every track.
Shifted(table, delta) ==
  IF table.typ \in {"stco", "co64"} THEN [table EXCEPT !.data = [i \in DOMAIN @ |-> @[i] + delta]] ELSE table
ShiftedTrack(trak, delta) == [trak EXCEPT !.kids = [j \in DOMAIN @ |-> Shifted(@[j], delta)]]
ShiftChunkOffsets(moov, delta) ==
  [moov EXCEPT !.kids = [i \in DOMAIN @ |-> IF @[i].typ = "trak" THEN ShiftedTrack(@[i], delta) ELSE @[i]]]
Overflows(moov) ==
  \E i \in DOMAIN moov.kids : moov.kids[i].typ = "trak" /\ \E t \in ToSet(moov.kids[i].kids) :
     \E off \in ToSet(t.data) : off < 0 \/ (t.typ = "stco" /\ off > MaxOffset)

\* Mutant: nothing is shifted.
RebuildMoovInPlace(moov, ts, mdatAfter) == SpliceIlst(moov, Box("ilst", TagLen(ts), <<>>, <<ts>>))

\* The bytes after moov, mdat among them, move by what moov has grown.
Followed(moov, new, mdatAfter) ==
  IF mdatAfter THEN ShiftChunkOffsets(new, Length(new) - Length(moov)) ELSE new
RebuildMoov(moov, ts, mdatAfter) ==
  Followed(moov, SpliceIlst(moov, Box("ilst", TagLen(ts), <<>>, <<ts>>)), mdatAfter)

WithMoov(top, m, new) == IF Overflows(new) THEN Error ELSE [top EXCEPT ![m] = new]
WriteMP4(top, ts) ==
  LET m == Find(top, "moov")
      mdats == {i \in DOMAIN top : top[i].typ = "mdat"}
  IN IF \/ m = 0 \/ Has(top, "moof")
        \/ (\E i \in mdats : i < m) /\ (\E i \in mdats : i > m)
     THEN Error
     ELSE WithMoov(top, m, RebuildMoov(top[m], ts, \E i \in mdats : i > m))

\* Boxes are read one after the other, each by the size it records.
Sound(box) == box.size = Length(box)
WellFormed(top) ==
  \A i \in DOMAIN top :
     /\ Sound(top[i]) \/ (top[i].size = 0 /\ i = Len(top))
     /\ \A kid \in ToSet(top[i].kids) : Sound(kid) /\ \A inner \in ToSet(kid.kids) : Sound(inner)
ReadableMP4(top) == Has(top, "moov") /\ WellFormed(top)
ReadMP4(top) ==
  LET moov == top[Find(top, "moov")]
      chains == Chains(moov)
  IN IF chains = <<>> THEN NoTags ELSE At(moov, chains[1]).data
-----------------------------------------------------------------------------
(* MP3: an ID3v2 tag, perhaps with a footer, the audio, an ID3v1 tag.        *)

AudioStart(parts) ==
  IF parts[1].typ # "id3v2" THEN 1 ELSE IF parts[2].typ = "footer" THEN 3 ELSE 2

AudioEnd(parts) == IF Last(parts).typ = "id3v1" THEN Len(parts) - 1 ELSE Len(parts)

WriteMP3(parts, ts) ==
  <<Box("id3v2", TagLen(ts), <<>>, <<ts>>)>> \o SubSeq(parts, AudioStart(parts), AudioEnd(parts))
ReadMP3(parts) == IF parts[1].typ = "id3v2" THEN parts[1].data ELSE NoTags
-----------------------------------------------------------------------------
(* FLAC: metadata blocks, then the frames.                                  *)

WriteFLAC(parts, ts) ==
  LET kept == Filter(parts, LAMBDA b : b.typ \notin {"comment", "picture", "padding", "frames"})
  IN kept \o <<Box("comment", TagLen(ts), <<>>, <<ts>>), Box("padding", 1, <<>>, <<>>), Last(parts)>>
ReadFLAC(parts) == IF Has(parts, "comment") THEN parts[Find(parts, "comment")].data ELSE NoTags
-----------------------------------------------------------------------------
(* WriterFor: by extension.                                                 *)

Writable(ext) == ext \in {".mp3", ".m4b", ".flac"}
Write(ext, parts, ts) ==
  CASE ext = ".mp3" -> WriteMP3(parts, ts)
    [] ext = ".m4b" -> WriteMP4(parts, ts)
    [] ext = ".flac" -> WriteFLAC(parts, ts)
Readable(ext, parts) == ext = ".m4b" => ReadableMP4(parts)
Read(ext, parts) ==
  CASE ext = ".mp3" -> ReadMP3(parts)
    [] ext = ".m4b" -> ReadMP4(parts)
    [] ext = ".flac" -> ReadFLAC(parts)
    [] OTHER -> NoTags

\* The tags are read back before the step counts as done.
Verified(ext, written, ts) == written # Error /\ Readable(ext, written) /\ Read(ext, written) = <<ts>>
-----------------------------------------------------------------------------
(* What a player needs, and does not look for in the tags: the boxes that   *)
(* are no tags, in order, and where the chunks of the tracks are in their    *)
(* media data.                                                              *)

TagBoxes == {"id3v2", "footer", "id3v1", "comment", "picture", "padding", "moov"}
Media(parts) == Filter(parts, LAMBDA b : b.typ \notin TagBoxes)
Offset(parts, i) == FoldLeft(LAMBDA n, l : n + l, 0, [k \in 1 .. i - 1 |-> Length(parts[k])])
Tables(parts) ==
  IF ~Has(parts, "moov") THEN {}
  ELSE UNION {ToSet(k.kids) : k \in {t \in ToSet(parts[Find(parts, "moov")].kids) : t.typ = "trak"}}
Chunks(parts) ==
  {[i \in DOMAIN t.data |-> t.data[i] - Offset(parts, Find(parts, "mdat"))] : t \in Tables(parts)}

\* A moov that runs to the end of the file is given a size when its ilst is replaced,
\* and not its own (addToBoxSize adds to 0).
OpenEnded(parts) ==
  LET m == Find(parts, "moov") IN m # 0 /\ parts[m].size = 0 /\ Chains(parts[m]) # <<>>

\* Boxes within boxes, as deep as tags are. A track's tables have offsets, its other boxes
\* nothing that matters here.
IsBox(b) ==
  /\ b = [typ |-> b.typ, len |-> b.len, kids |-> b.kids, data |-> b.data, size |-> b.size]
  /\ b.len \in Int /\ b.size \in Int /\ IsList(b.kids) /\ IsList(b.data)
Built1(b) == IsBox(b) /\ \A k \in ToSet(b.kids) : IsBox(k)
Built2(b) == IsBox(b) /\ \A k \in ToSet(b.kids) : Built1(k)
Built3(b) == IsBox(b) /\ \A k \in ToSet(b.kids) : Built2(k)
IsTable(t) ==
  IF t.typ \in {"stco", "co64"} THEN \A i \in DOMAIN t.data : t.data[i] \in Int ELSE t.data = <<>>

\* What a file of each kind is made of: in an MP3 and a FLAC there is audio, in a FLAC at the
\* end.
IsAudio(ext, parts) ==
  /\ IsList(parts)
  /\ ext \in {".mp3", ".flac"} => \A i \in DOMAIN parts : parts[i].typ # "moov"
  /\ ext = ".mp3" => \E i \in DOMAIN parts : parts[i].typ \notin TagBoxes
  /\ ext = ".flac" => parts # <<>> /\ \A i \in DOMAIN parts : parts[i].typ = "frames" <=> i = Len(parts)
  /\ ext = ".m4b" => (\A i \in DOMAIN parts : Built3(parts[i])) /\ \A t \in Tables(parts) : IsTable(t)

=============================================================================
