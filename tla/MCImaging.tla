------------------------------ MODULE MCImaging ------------------------------
(***************************************************************************)
(* Files for Imaging: photographs with the EXIF segment behind others, in  *)
(* both byte orders and with every orientation; JPEGs whose segment is not *)
(* what it should be; and images of every extent about the bounds.         *)
(***************************************************************************)
EXTENDS Imaging

-----------------------------------------------------------------------------
(***************************************************************************)
(* What a camera writes.                                                   *)
(***************************************************************************)
TwoBytes(v, little) ==
  IF little THEN <<v % 256, v \div 256>> ELSE <<v \div 256, v % 256>>

SOI == <<255, 216>>
RST == <<255, 208>>
SOS == <<255, 218, 0, 2>>

Segment(marker, payload) == <<255, marker>> \o TwoBytes(Len(payload) + 2, FALSE) \o payload

Comment == Segment(254, <<>>)
Jfif == Segment(224, <<74, 70, 73, 70, 0>>)
Xmp == Segment(225, <<104, 116, 116, 112, 58, 47, 47>>)
Short == Segment(225, <<69, 120>>)

DirEntry(tag, type, value, little) ==
  TwoBytes(tag, little) \o TwoBytes(type, little)
    \o (IF little THEN <<1, 0, 0, 0>> ELSE <<0, 0, 0, 1>>)
    \o TwoBytes(value, little) \o <<0, 0>>

Make(little) == DirEntry(271, 2, 7, little)
Tag(value, little) == DirEntry(274, 3, value, little)

Tiff(magic, ifd, gap, count, entries, little) ==
  (IF little THEN <<73, 73>> ELSE <<77, 77>>)
    \o TwoBytes(magic, little)
    \o (IF little THEN <<ifd, 0, 0, 0>> ELSE <<0, 0, 0, ifd>>)
    \o gap \o TwoBytes(count, little) \o entries

ExifSegment(block) == Segment(225, Exif \o block)

\* One entry, or two with the tag second and the directory a byte further on.
Plain(v, little) == Tiff(42, 8, <<>>, 1, Tag(v, little), little)
Padded(v, little) == Tiff(42, 9, <<0>>, 2, Make(little) \o Tag(v, little), little)

-----------------------------------------------------------------------------
(***************************************************************************)
(* Files, without the image data that follows SOS.                         *)
(***************************************************************************)
Jpeg(bytes, extents, declared) ==
  [bytes |-> bytes, format |-> "jpeg", header |-> TRUE,
   width |-> extents[1], height |-> extents[2], decodes |-> TRUE,
   frame |-> extents, declared |-> declared]

Before == {<<>>, RST, Comment, Jfif, Xmp, Short, Jfif \o Xmp, RST \o Comment \o RST}

\* Every orientation on every way to it, and with extents of every shape.
Photographs ==
  {Jpeg(SOI \o b \o ExifSegment(Padded(v, little)) \o SOS, <<5, 3>>, v) :
     b \in Before, little \in BOOLEAN, v \in 1 .. 8}
  \cup
  {Jpeg(SOI \o ExifSegment(Plain(v, TRUE)) \o SOS, e, v) :
     v \in 1 .. 8, e \in {<<8, 1>>, <<1, 8>>, <<7, 5>>, <<4, 4>>, <<2, 3>>, <<8, 5>>}}

\* TIFF blocks that are not as they should be.
BadBlocks ==
  LET little == TRUE
  IN  { <<>>, <<73, 73, 42, 0, 8>>,
        <<74>> \o Tail(Plain(6, little)),
        Tiff(43, 8, <<>>, 1, Tag(6, little), little),
        Tiff(42, 7, <<>>, 1, Tag(6, little), little),
        Tiff(42, 23, <<>>, 1, Tag(6, little), little),
        Tiff(42, 8, <<>>, 0, Tag(6, little), little),
        Tiff(42, 8, <<>>, 3, Make(little), little),
        Tiff(42, 8, <<>>, 1, SubSeq(Tag(6, little), 1, 11), little),
        Tiff(42, 8, <<>>, 2, DirEntry(274, 4, 6, little) \o Tag(6, little), little),
        Plain(0, little), Plain(9, little) }

\* And files in which the scan does not come to it, though a decoder takes them: no
\* segment, the segment behind the start of the image, a fill byte, a stray one.
Astray ==
  { SOI \o SOS, SOI \o Jfif \o SOS,
    SOI \o SOS \o ExifSegment(Plain(6, TRUE)),
    SOI \o <<255>> \o ExifSegment(Plain(6, TRUE)) \o SOS,
    SOI \o <<0>> \o ExifSegment(Plain(6, TRUE)) \o SOS }

Malformed ==
  {Jpeg(SOI \o ExifSegment(block) \o SOS, <<3, 2>>, 1) : block \in BadBlocks}
  \cup {Jpeg(bytes, <<3, 2>>, 1) : bytes \in Astray}

Other(format, header, extents, decodes, frame) ==
  [bytes |-> <<>>, format |-> format, header |-> header,
   width |-> extents[1], height |-> extents[2], decodes |-> decodes,
   frame |-> frame, declared |-> 1]

AllExtents == (0 .. 13) \X (0 .. 13) \cup {<<96, 1>>, <<1, 96>>, <<30, 2>>}

\* The header of a GIF may be of no extent, and a frame of it smaller than the header.
Images ==
  {Other("gif", TRUE, e, TRUE, e) : e \in AllExtents}
  \cup {Other("gif", TRUE, <<6, 5>>, TRUE, e) : e \in {<<0, 0>>, <<0, 5>>, <<3, 5>>}}
  \cup {Other("png", TRUE, <<7, 6>>, decodes, <<7, 6>>) : decodes \in BOOLEAN}
  \cup {Other("png", FALSE, <<0, 0>>, FALSE, <<0, 0>>)}

AllFiles == Photographs \cup Malformed \cup Images

\* Every one of the files declares what the standards make of its bytes: the places of
\* its markers show it.
Places(bytes) ==
  LET place[k \in 0 .. Len(bytes)] ==
        IF k = 0 THEN 2
        ELSE LET i == place[k - 1]
             IN  IF PassedAt(bytes, i) THEN NextAt(bytes, i) ELSE i
  IN  {place[k] : k \in 0 .. Len(bytes)}

ASSUME FilesAreAsDeclared ==
  \A f \in AllFiles :
    LET S == Places(f.bytes)
    IN  UntaggedBy(f, S) \/ \E p \in S : TaggedBy(f, S, p)

AllEdges == <<7, 5, 2, 1>>
=============================================================================
