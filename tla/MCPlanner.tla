------------------------------ MODULE MCPlanner ------------------------------
(* Libraries chosen for what can go wrong in each: the data of the run.     *)
EXTENDS Planner

MCSorted ==
  <<"(84)", ".flac", ".m4b", ".mp3", ".ogg", "01", "02", "03", "04", "1", "10", "1984", "2", "9876543210123456789",
    "A", "B", "C", "CD", "CON", "Du:ne", "Dune", "Herbert", "Unknown", "Vol", "[", "]", "_", "dune", "in",
    "title", "z", "{", "}">>
MCNum == [s \in {"01", "02", "03", "04", "1", "10", "1984", "2", "9876543210123456789"} |->
            CASE s \in {"01", "1"} -> 1 [] s \in {"02", "2"} -> 2 [] s = "03" -> 3 [] s = "04" -> 4
              [] s = "10" -> 10 [] s = "1984" -> 1984 [] OTHER -> NonIndexRun]
MCTokens == {"title", "author", "series", "year", "ext", "track2"}
MCSane(s) == IF s = "Du:ne" THEN "Dune" ELSE s
MCLower == [s \in ToSet(MCSorted) |-> IF s = "Dune" THEN "dune" ELSE s]
MCYear == [y \in {0, 84} |-> IF y = 0 THEN <<>> ELSE <<"(84)">>]
MCTrack2(n) == IF n \in 1 .. 4 THEN <<"01", "02", "03", "04">>[n] ELSE "99"
MCTagLen(ts) == Len(ts.meta.title) + (IF ts.track > 0 THEN 1 ELSE 0)

\* Metadata, also of those who tagged a file before.
Meta(title, author, series, year) == [title |-> title, author |-> author, sort |-> <<>>, series |-> series, year |-> year]
Dune == Meta(<<"Dune">>, <<"Herbert">>, <<>>, 0)
Dune84 == Meta(<<"Du:ne">>, <<"Herbert">>, <<>>, 84)
LowerDune == Meta(<<"dune">>, <<"Herbert">>, <<>>, 0)
Vol(n) == Meta(<<"Vol", n>>, <<"Herbert">>, <<>>, 0)
Foreign == Meta(<<"A", "B">>, <<>>, <<>>, 0)

TemplateOf(pieces) == FlattenSeq([i \in DOMAIN pieces |-> IF pieces[i] \in MCTokens THEN <<"{", pieces[i], "}">> ELSE <<pieces[i]>>])
Lib(mode, multi) ==
  [mode |-> mode, author |-> "name", single |-> TemplateOf(<<"title", "ext">>), multi |-> TemplateOf(multi),
   writeTags |-> FALSE]
Plain == Lib("author_first", <<"title", "track2", "ext">>)
Tagging == [Plain EXCEPT !.writeTags = TRUE]
BySeries == [Lib("series_first", <<"title", "ext">>) EXCEPT !.author = "sort"]

Mpeg == <<Box("audio", 3, <<>>, <<>>)>>
Id3(n) == <<Box("id3v2", 2, <<>>, <<[meta |-> Foreign, track |-> n, total |-> 0]>>)>>
File(id, path, parts) == [id |-> id, path |-> path, parts |-> parts]
World(libs, later, files, metas, exact) == [libs |-> libs, later |-> later, tree |-> files, metas |-> metas, exact |-> exact]
In1 == <<"in", "1">>
In2 == <<"in", "2">>
-----------------------------------------------------------------------------
(* Templates of up to four pieces, of which a group and a token are two each. *)
Templates == SeqOf({"[", "]", "{", "}", "title", "z"}, 4)
TemplateWorlds ==
  {World({[Plain EXCEPT !.single = t] : t \in Templates}, {}, {File(1, <<In1, <<"A", ".mp3">>>>, Mpeg)}, {Dune}, TRUE)}

(* Two or three books, one of them perhaps in the place another goes to.    *)
Crowd == {File(1, <<In1, <<"A", ".mp3">>>>, Mpeg), File(2, <<In2, <<"B", ".ogg">>>>, Mpeg)}
There(name) == File(3, <<<<"Herbert">>, <<name>>, <<name, ".mp3">>>>, Mpeg)
CrowdWorlds ==
  {World({Plain}, {}, files, {Dune, LowerDune}, exact) :
     files \in {Crowd, Crowd \cup {There("Dune")}, Crowd \cup {There("dune")}}, exact \in BOOLEAN}
  \cup {World({Plain}, {}, {There("Dune"), [There("dune") EXCEPT !.id = 4]}, {Dune, LowerDune}, TRUE)}
  \cup {World({Plain}, {}, {File(n, <<<<"Herbert">>, <<"dune">>, <<name, "01", ".mp3">>>>, Mpeg) : <<n, name>> \in {<<1, "Dune">>, <<2, "dune">>}}, {LowerDune}, TRUE)}
  \cup {World({Plain}, {BySeries}, {There("Dune")}, {Dune, Dune84, LowerDune}, FALSE)}

(* Volumes as titles.                                                       *)
VolumeWorlds == {World({Plain}, {}, Crowd, {Vol("1"), Vol("2"), Dune}, TRUE)}

(* A book of several files, with the names and tags of its first owner.     *)
Folder(names, tags) ==
  {File(i, <<In1, names[i]>>, IF tags[i] = 0 THEN Mpeg ELSE Id3(tags[i]) \o Mpeg) : i \in DOMAIN names}
Names1 == <<<<"1984", "02", ".mp3">>, <<"1984", "01", ".mp3">>, <<"1984", "04", ".mp3">>>>
Names2 == <<<<"03", "Dune", ".mp3">>, <<"02", "Dune", ".mp3">>>>
Names3 == <<<<"A", "9876543210123456789", "01", ".mp3">>, <<"B", "1984", "02", ".mp3">>>>
FolderWorlds ==
  {World({l}, {BySeries}, Folder(names, tags), {Dune}, TRUE) :
     l \in {Plain, Tagging}, names \in {Names1, Names2, Names3},
     tags \in {<<0, 0, 0>>, <<1, 2, 4>>, <<2, 2, 1>>, <<3, 0, 0>>}}
Swapped == {File(n, <<<<"Herbert">>, <<"Dune">>, <<"Dune", MCTrack2(n), ".mp3">>>>, Id3(3 - n) \o Mpeg) : n \in 1 .. 2}
SwappedWorlds == {World({l}, {BySeries}, Swapped, {Dune, LowerDune}, exact) : l \in {Plain, Tagging}, exact \in BOOLEAN}

(* Discs.                                                                   *)
Discs(tags) ==
  {File(i, <<In1, <<"CD", <<"1", "2", "10">>[i]>>, <<"A", ".mp3">>>>,
        IF tags[i] = 0 THEN Mpeg ELSE Id3(tags[i]) \o Mpeg) : i \in 1 .. 3}
DiscWorlds == {World({l}, {}, Discs(tags), {Dune}, TRUE) : l \in {Plain, Tagging}, tags \in {<<0, 0, 0>>, <<1, 1, 1>>, <<3, 1, 2>>}}

(* A book of discs, and one that may move in below it.                      *)
BelowWorlds ==
  {World({Plain}, {},
         {File(n, <<<<"Herbert">>, <<"Dune">>, <<"CD", <<"1", "2">>[n]>>, <<"A", ".mp3">>>>, Mpeg) : n \in 1 .. 2}
         \cup {File(3, <<In1, <<"A", ".mp3">>>>, Mpeg)}, {Dune, Meta(<<"A">>, <<"Herbert">>, <<"Dune">>, 0)}, TRUE)}

(* Long names.                                                              *)
Long == Meta(<<"A", "B", "C", "A", "B", "C">>, <<"Herbert", "A">>, <<"A", "B", "C">>, 84)
Longer == Meta(<<"A", "B", "C">>, <<"A", "B", "C", "A">>, <<"A", "B", "C", "B">>, 84)
NoAuthor == Meta(<<"CON">>, <<>>, <<"Dune">>, 0)
LongWorlds == {World({Plain}, {BySeries}, {f}, {Long, Longer, NoAuthor}, TRUE) : f \in Crowd}

(* Containers.                                                              *)
Leaf(typ, len) == Box(typ, len, <<>>, <<>>)
Ilst == Box("ilst", 5, <<>>, <<[meta |-> Foreign, track |-> 0, total |-> 0]>>)
Trak(typ, offs) == Box("trak", 0, <<Leaf("tkhd", 1), Box(typ, Len(offs), <<>>, offs)>>, <<>>)
Chained == {<<>>, <<Leaf("udta", 0)>>, <<Box("udta", 1, <<Box("meta", 0, <<Leaf("hdlr", 0)>>, <<>>)>>, <<>>)>>,
         <<Box("udta", 0, <<Box("meta", 0, <<Leaf("hdlr", 0), Ilst, Leaf("free", 1)>>, <<>>)>>, <<>>)>>,
         <<Box("meta", 0, <<Leaf("hdlr", 0), Ilst>>, <<>>)>>,
         <<Leaf("udta", 0), Box("meta", 0, <<Leaf("hdlr", 0)>>, <<>>)>>}
\* moov before its mdat, after it, and both, with the offsets of the two chunks.
Moov(kids, typ, offs) == Box("moov", 0, <<Leaf("mvhd", 1)>> \o <<Trak(typ, offs)>> \o kids, <<>>)
Early(kids, typ) == LET base == 3 + Moov(kids, typ, <<0, 0>>).size
                    IN <<Leaf("ftyp", 1), Moov(kids, typ, <<base, base + 2>>), Leaf("mdat", 4)>>
Late(kids, size) == <<Leaf("ftyp", 1), Leaf("mdat", 4), [Moov(kids, "stco", <<3, 5>>) EXCEPT !.size = IF size THEN @ ELSE 0]>>
MP4s == {Early(k, typ) : k \in Chained, typ \in {"stco", "co64"}} \cup {Late(k, size) : k \in Chained, size \in BOOLEAN}
        \cup {<<Moov(<<>>, "stco", <<8>>), Leaf("moof", 1), Leaf("mdat", 1)>>}
        \cup {<<Leaf("mdat", 1), Moov(<<>>, "stco", <<1>>), Leaf("mdat", 1)>>, <<Leaf("mdat", 1)>>}
MP3s == {a \o b \o c : a \in {<<>>, Id3(1), Id3(1) \o <<Leaf("footer", 0)>>}, b \in {Mpeg},
                       c \in {<<>>, <<Leaf("id3v1", 2)>>}}
FLACs == {<<Leaf("streaminfo", 1)>> \o a \o <<Leaf("seektable", 1), Leaf("frames", 3)>> :
            a \in {<<>>, <<Box("comment", 2, <<>>, <<[meta |-> Foreign, track |-> 2, total |-> 0]>>), Leaf("picture", 2), Leaf("padding", 3)>>}}
ContainerWorlds ==
  {World({Tagging}, {}, {File(1, <<In1, <<"A", ext>>>>, parts)}, {Dune, Long}, TRUE) :
     <<ext, parts>> \in ({".m4b"} \X MP4s) \cup ({".mp3"} \X MP3s) \cup ({".flac"} \X FLACs)}

MCWorlds ==
  TemplateWorlds \cup CrowdWorlds \cup VolumeWorlds \cup FolderWorlds \cup SwappedWorlds
  \cup DiscWorlds \cup BelowWorlds \cup LongWorlds \cup ContainerWorlds
=============================================================================
