------------------------------- MODULE Imaging -------------------------------
(***************************************************************************)
(* Prepare (internal/imaging/imaging.go): the header's extents are         *)
(* checked, the file is decoded, the orientation a camera declared in the  *)
(* EXIF segment is found and applied, and the upright image is scaled to   *)
(* the display image and each thumbnail.                                   *)
(*                                                                         *)
(* The scan for the segment is one action per marker, over bytes; what the *)
(* decoders of the standard library make of a file is part of the file.    *)
(* An image is its extents, and what is done to its pixels is which of     *)
(* them each new one is made of.                                           *)
(***************************************************************************)
EXTENDS Integers, Sequences

CONSTANTS
  Files,        \* the files Prepare may be given
  Edges,        \* longest side of the display image, then of each thumbnail
  MaxEdge,      \* longest side of an image that is decoded at all
  MaxPixels,    \* most pixels of one
  IntMax        \* largest value of Go's int

Formats == {"jpeg", "png", "gif"}

\* header, decodes: what DecodeConfig and Decode return; frame: the extents of the
\* decoded image, which in a GIF may be less than the header's; declared: the
\* orientation the camera recorded, 1 if none or not in the form the scan follows.
File ==
  [bytes : Seq(0 .. 255), format : Formats, header : BOOLEAN, width : Nat, height : Nat,
   decodes : BOOLEAN, frame : Nat \X Nat, declared : 1 .. 8]

ASSUME ImagingAssumption ==
  /\ Files \subseteq File
  /\ \A f \in Files : f.decodes => f.frame[1] <= f.width /\ f.frame[2] <= f.height
  /\ Edges \in Seq(Nat \ {0})
  /\ MaxEdge \in Nat /\ MaxPixels \in Nat /\ IntMax \in Nat
  /\ MaxEdge * MaxEdge <= IntMax
  /\ 4 * MaxPixels <= IntMax

VARIABLES
  file,         \* the upload
  step,         \* what Prepare does next
  at,           \* index of the scan in the file, from 0
  tiff,         \* the TIFF block the scan found, empty if none
  orientation,
  size,         \* extents of the image in hand
  renditions,   \* extents of the renditions made so far
  error

vars == <<file, step, at, tiff, orientation, size, renditions, error>>

Steps == {"header", "decode", "scan", "orient", "render", "done"}

Init ==
  /\ file \in Files
  /\ step = "header"
  /\ at = 0
  /\ tiff = <<>>
  /\ orientation = 1
  /\ size = <<0, 0>>
  /\ renditions = <<>>
  /\ error = "none"

-----------------------------------------------------------------------------
(***************************************************************************)
(* Header and decoding.                                                    *)
(***************************************************************************)

\* Mutant of checkBounds: pixels alone are counted.
CheckBoundsPixels(w, h) ==
  IF w <= 0 \/ h <= 0 THEN "NotAnImage"
  ELSE IF w * h > MaxPixels THEN "TooLarge"
  ELSE "none"

checkBounds(w, h) ==
  IF w <= 0 \/ h <= 0 THEN "NotAnImage"
  ELSE IF w > MaxEdge \/ h > MaxEdge \/ w * h > MaxPixels THEN "TooLarge"
  ELSE "none"

Fail(err) ==
  /\ error' = err
  /\ step' = "done"
  /\ UNCHANGED <<file, at, tiff, orientation, size, renditions>>

\* The error of Dimensions, and of Prepare before it decodes.
headerError(f) ==
  IF f.header THEN checkBounds(f.width, f.height) ELSE "NotAnImage"

RefuseHeader ==
  /\ step = "header"
  /\ headerError(file) # "none"
  /\ Fail(headerError(file))

AcceptHeader ==
  /\ step = "header"
  /\ headerError(file) = "none"
  /\ step' = "decode"
  /\ UNCHANGED <<file, at, tiff, orientation, size, renditions, error>>

DecodeFails ==
  /\ step = "decode"
  /\ ~file.decodes
  /\ Fail("NotAnImage")

\* Only JPEG carries the tag.  The scan begins behind the two bytes of SOI.
Decode ==
  /\ step = "decode"
  /\ file.decodes
  /\ size' = file.frame
  /\ IF file.format # "jpeg" THEN step' = "render" /\ UNCHANGED at
     ELSE IF Len(file.bytes) >= 4 /\ SubSeq(file.bytes, 1, 2) = <<255, 216>>
          THEN step' = "scan" /\ at' = 2
          ELSE step' = "orient" /\ UNCHANGED at
  /\ UNCHANGED <<file, tiff, orientation, renditions, error>>

-----------------------------------------------------------------------------
(***************************************************************************)
(* findExifSegment.                                                        *)
(***************************************************************************)
Byte(i) == file.bytes[i + 1]

Exif == <<69, 120, 105, 102, 0, 0>>

MoreSegments == at + 4 <= Len(file.bytes)

Standalone(marker) == marker = 1 \/ marker \in 208 .. 217

\* At a marker with a length, and the length is inside the file.
SegmentLength == 256 * Byte(at + 2) + Byte(at + 3)

Payload == SubSeq(file.bytes, at + 5, at + 2 + SegmentLength)

AtSegment ==
  /\ step = "scan"
  /\ MoreSegments
  /\ Byte(at) = 255
  /\ Byte(at + 1) # 218
  /\ ~Standalone(Byte(at + 1))

SegmentFits == SegmentLength >= 2 /\ at + 2 + SegmentLength <= Len(file.bytes)

HasExif ==
  /\ Byte(at + 1) = 225
  /\ Len(Payload) >= 6
  /\ SubSeq(Payload, 1, 6) = Exif

\* The end of the file, no marker, or the start of the image data.
ScanEnds ==
  /\ step = "scan"
  /\ MoreSegments => Byte(at) # 255 \/ Byte(at + 1) = 218
  /\ step' = "orient"
  /\ UNCHANGED <<file, at, tiff, orientation, size, renditions, error>>

SkipStandalone ==
  /\ step = "scan"
  /\ MoreSegments
  /\ Byte(at) = 255
  /\ Standalone(Byte(at + 1))
  /\ at' = at + 2
  /\ UNCHANGED <<file, step, tiff, orientation, size, renditions, error>>

SegmentBroken ==
  /\ AtSegment
  /\ ~SegmentFits
  /\ step' = "orient"
  /\ UNCHANGED <<file, at, tiff, orientation, size, renditions, error>>

FindExif ==
  /\ AtSegment
  /\ SegmentFits
  /\ HasExif
  /\ tiff' = SubSeq(Payload, 7, Len(Payload))
  /\ step' = "orient"
  /\ UNCHANGED <<file, at, orientation, size, renditions, error>>

\* Mutant of SkipSegment: the length's own two bytes are taken off, not the marker's
\* put on, so that an empty segment is met again for ever.
SkipSegmentStuck ==
  /\ AtSegment
  /\ SegmentFits
  /\ ~HasExif
  /\ at' = at + SegmentLength - 2
  /\ UNCHANGED <<file, step, tiff, orientation, size, renditions, error>>

SkipSegment ==
  /\ AtSegment
  /\ SegmentFits
  /\ ~HasExif
  /\ at' = at + 2 + SegmentLength
  /\ UNCHANGED <<file, step, tiff, orientation, size, renditions, error>>

-----------------------------------------------------------------------------
(***************************************************************************)
(* ReadOrientation and applyOrientation.                                   *)
(***************************************************************************)

\* binary.ByteOrder: the number in the two, or four, bytes behind the first i.
Uint16(bytes, i, little) ==
  IF little THEN bytes[i + 1] + 256 * bytes[i + 2] ELSE 256 * bytes[i + 1] + bytes[i + 2]
Uint32(bytes, i, little) ==
  IF little THEN Uint16(bytes, i, little) + 65536 * Uint16(bytes, i + 2, little)
  ELSE 65536 * Uint16(bytes, i, little) + Uint16(bytes, i + 2, little)

\* The value of the first entry 0x0112 of the first directory, 1 if there is none or
\* anything on the way to it is not as it should be.
DirectoryTag(block, little) ==
  LET ifd == Uint32(block, 4, little)
      Entry(i) == ifd + 2 + 12 * i
      tagged == {i \in 0 .. Uint16(block, ifd, little) - 1 :
                   /\ Entry(i) + 12 <= Len(block)
                   /\ Uint16(block, Entry(i), little) = 274}
      first == CHOOSE i \in tagged : \A j \in tagged : i <= j
  IN  IF /\ Uint16(block, 2, little) = 42
         /\ ifd >= 8 /\ ifd + 2 <= Len(block)
         /\ tagged # {}
         /\ Uint16(block, Entry(first) + 2, little) = 3
      THEN Uint16(block, Entry(first) + 8, little) ELSE 1

ByteOrder(little) == IF little THEN <<73, 73>> ELSE <<77, 77>>

OrientationTag(block) ==
  IF Len(block) < 8 THEN 1
  ELSE IF SubSeq(block, 1, 2) = ByteOrder(TRUE) THEN DirectoryTag(block, TRUE)
  ELSE IF SubSeq(block, 1, 2) = ByteOrder(FALSE) THEN DirectoryTag(block, FALSE)
  ELSE 1

\* Mutant of Declared: any value is taken.
DeclaredAny(value) == value

Declared(value) == IF value \in 1 .. 8 THEN value ELSE 1

ReadOrientation(block) == Declared(OrientationTag(block))

\* Values 5 to 8 involve a quarter turn.
Turned(o, extents) == IF o >= 5 THEN <<extents[2], extents[1]>> ELSE extents

\* Mutant of Source: 6 and 8 swapped.
SourceSwapped(o, w, h, x, y) ==
  CASE o = 2 -> <<w - 1 - x, y>>
    [] o = 3 -> <<w - 1 - x, h - 1 - y>>
    [] o = 4 -> <<x, h - 1 - y>>
    [] o = 5 -> <<y, x>>
    [] o = 6 -> <<w - 1 - y, x>>
    [] o = 7 -> <<w - 1 - y, h - 1 - x>>
    [] o = 8 -> <<y, h - 1 - x>>
    [] OTHER -> <<x, y>>

\* The pixel of the w by h image that becomes the pixel x, y of the upright one.
Source(o, w, h, x, y) ==
  CASE o = 2 -> <<w - 1 - x, y>>
    [] o = 3 -> <<w - 1 - x, h - 1 - y>>
    [] o = 4 -> <<x, h - 1 - y>>
    [] o = 5 -> <<y, x>>
    [] o = 6 -> <<y, h - 1 - x>>
    [] o = 7 -> <<w - 1 - y, h - 1 - x>>
    [] o = 8 -> <<w - 1 - y, x>>
    [] OTHER -> <<x, y>>

Orient ==
  /\ step = "orient"
  /\ orientation' = ReadOrientation(tiff)
  /\ size' = Turned(orientation', size)
  /\ step' = "render"
  /\ UNCHANGED <<file, at, tiff, renditions, error>>

-----------------------------------------------------------------------------
(***************************************************************************)
(* Fit.                                                                    *)
(***************************************************************************)
AtLeastOne(n) == IF n < 1 THEN 1 ELSE n

\* Mutant of Fit: no side is kept from vanishing.
FitVanishing(w, h, edge) ==
  IF w <= 0 \/ h <= 0 \/ (w <= edge /\ h <= edge) THEN <<w, h>>
  ELSE IF w >= h THEN <<edge, (h * edge) \div w>>
  ELSE <<(w * edge) \div h, edge>>

\* Nothing is upscaled; the longer side becomes the edge.
Fit(w, h, edge) ==
  IF w <= 0 \/ h <= 0 \/ (w <= edge /\ h <= edge) THEN <<w, h>>
  ELSE IF w >= h THEN <<edge, AtLeastOne((h * edge) \div w)>>
  ELSE <<AtLeastOne((w * edge) \div h), edge>>

\* Mutant of BoxEnd: boxes as wide as the quotient.
BoxEndFloor(k, n, m) == (k * n) \div m + n \div m

\* Of n rows or columns scaled to m, those the k-th is the mean of, from 0.
BoxStart(k, n, m) == (k * n) \div m
BoxEnd(k, n, m) ==
  LET end == ((k + 1) * n) \div m
  IN  IF end <= BoxStart(k, n, m) THEN BoxStart(k, n, m) + 1 ELSE end

Box(k, n, m) == BoxStart(k, n, m) .. BoxEnd(k, n, m) - 1

\* The next rendition, of the upright image and not of the last rendition.
Render ==
  /\ step = "render"
  /\ Len(renditions) < Len(Edges)
  /\ renditions' = Append(renditions,
                          Fit(size[1], size[2], Edges[Len(renditions) + 1]))
  /\ UNCHANGED <<file, step, at, tiff, orientation, size, error>>

Return ==
  /\ step = "render"
  /\ Len(renditions) = Len(Edges)
  /\ step' = "done"
  /\ UNCHANGED <<file, at, tiff, orientation, size, renditions, error>>

-----------------------------------------------------------------------------
Next ==
  \/ RefuseHeader \/ AcceptHeader
  \/ DecodeFails \/ Decode
  \/ ScanEnds \/ SkipStandalone \/ SegmentBroken \/ FindExif \/ SkipSegment
  \/ Orient
  \/ Render \/ Return

Spec == Init /\ [][Next]_vars

\* A function that runs to its end.
FairSpec == Spec /\ WF_vars(Next)

-----------------------------------------------------------------------------
(***************************************************************************)
(* Properties.                                                             *)
(***************************************************************************)

\* Where the parts of an image are, by the EXIF standard: the first row of the file
\* is at the side RowSide of the upright image, its first column at ColumnSide.
RowSide(o) == <<"top", "top", "bottom", "bottom", "left", "right", "right", "left">>[o]
ColumnSide(o) == <<"left", "right", "right", "left", "top", "top", "bottom", "bottom">>[o]

\* The upright place of the file's pixel sx, sy in an image of w by h.
FromSide(side, i, w, h) ==
  CASE side = "top" -> i
    [] side = "bottom" -> h - 1 - i
    [] side = "left" -> i
    [] side = "right" -> w - 1 - i

Shown(o, w, h, sx, sy) ==
  IF RowSide(o) \in {"top", "bottom"}
  THEN <<FromSide(ColumnSide(o), sx, w, h), FromSide(RowSide(o), sy, w, h)>>
  ELSE <<FromSide(RowSide(o), sy, w, h), FromSide(ColumnSide(o), sx, w, h)>>

\* What a JPEG has between SOI and the start of the image: markers, most with a
\* segment, whose length counts its own two bytes.
MarkerAt(bytes, i) ==
  i + 4 <= Len(bytes) /\ bytes[i + 1] = 255 /\ bytes[i + 2] # 218
SegmentEnd(bytes, i) == i + 2 + Uint16(bytes, i + 2, FALSE)
SegmentAt(bytes, i) ==
  /\ MarkerAt(bytes, i)
  /\ ~Standalone(bytes[i + 2])
  /\ SegmentEnd(bytes, i) \in i + 4 .. Len(bytes)
ExifAt(bytes, i) ==
  /\ SegmentAt(bytes, i)
  /\ bytes[i + 2] = 225
  /\ i + 10 <= SegmentEnd(bytes, i)
  /\ SubSeq(bytes, i + 5, i + 10) = Exif
ExifBlock(bytes, i) == SubSeq(bytes, i + 11, SegmentEnd(bytes, i))

\* Something that is not the EXIF segment, and where it ends.
PassedAt(bytes, i) ==
  /\ MarkerAt(bytes, i)
  /\ \/ Standalone(bytes[i + 2])
     \/ SegmentAt(bytes, i) /\ ~ExifAt(bytes, i)
NextAt(bytes, i) ==
  IF Standalone(bytes[i + 2]) THEN i + 2 ELSE SegmentEnd(bytes, i)

\* In a TIFF block of one byte order, the first entry of the directory that has the tag
\* 0x0112 is the one behind j others; it has the type SHORT and the value v.
Tags(block, v, little, j) ==
  LET ifd == Uint32(block, 4, little)
      EntryAt(i) == ifd + 2 + 12 * i
  IN  /\ Len(block) >= 8
      /\ SubSeq(block, 1, 2) = ByteOrder(little)
      /\ Uint16(block, 2, little) = 42
      /\ ifd >= 8
      /\ EntryAt(j) + 12 <= Len(block)
      /\ j < Uint16(block, ifd, little)
      /\ Uint16(block, EntryAt(j), little) = 274
      /\ Uint16(block, EntryAt(j) + 2, little) = 3
      /\ Uint16(block, EntryAt(j) + 8, little) = v
      /\ \A i \in 0 .. j - 1 : Uint16(block, EntryAt(i), little) # 274

\* The orientation of such an entry, and 1 if there is none or it has another value.
Declares(block, v) ==
  \/ v \in 1 .. 8
     /\ \E little \in BOOLEAN, j \in 0 .. Len(block) : Tags(block, v, little, j)
  \/ v = 1
     /\ \A u \in 2 .. 8, little \in BOOLEAN, j \in 0 .. Len(block) :
          ~Tags(block, u, little, j)

\* f is a JPEG with a marker at every place of S up to the EXIF segment at p, and
\* declared what the block there does.
TaggedBy(f, S, p) ==
  /\ f.format = "jpeg"
  /\ SubSeq(f.bytes, 1, 2) = <<255, 216>>
  /\ 2 \in S
  /\ \A i \in S \ {p} : PassedAt(f.bytes, i) /\ NextAt(f.bytes, i) \in S
  /\ ExifAt(f.bytes, p)
  /\ Declares(ExifBlock(f.bytes, p), f.declared)

\* f is no JPEG, or none of its markers is an EXIF segment, and declared nothing.
UntaggedBy(f, S) ==
  /\ f.declared = 1
  /\ f.format = "jpeg" =>
       /\ 2 \in S
       /\ \A i \in S : /\ ~ExifAt(f.bytes, i)
                       /\ PassedAt(f.bytes, i) => NextAt(f.bytes, i) \in S

\* f.declared is what the standards make of the bytes of f.
AsDeclared(f) ==
  \E S \in SUBSET Nat : UntaggedBy(f, S) \/ \E p \in Nat : TaggedBy(f, S, p)

\* Every variable has its type; the scan stays inside the file.
TypeOK ==
  /\ file \in Files
  /\ step \in Steps
  /\ at \in 0 .. Len(file.bytes)
  /\ tiff \in Seq(0 .. 255)
  /\ orientation \in 1 .. 8
  /\ size \in Nat \X Nat
  /\ renditions \in Seq(Nat \X Nat)
  /\ Len(renditions) <= Len(Edges)
  /\ error \in {"none", "NotAnImage", "TooLarge"}

Extents == {size} \cup {renditions[i] : i \in DOMAIN renditions}

\* The camera's photograph comes out upright: whatever segments stand before the EXIF
\* one and in whichever byte order, each pixel is the one the standard puts there for
\* the orientation the camera declared.
PhotographIsUpright ==
  step \in {"render", "done"} /\ error = "none" =>
    LET w == file.frame[1]
        h == file.frame[2]
    IN  /\ size = Turned(file.declared, file.frame)
        /\ \A x \in 0 .. size[1] - 1, y \in 0 .. size[2] - 1 :
             LET from == Source(orientation, w, h, x, y)
             IN  /\ from \in (0 .. w - 1) \X (0 .. h - 1)
                 /\ Shown(file.declared, size[1], size[2], from[1], from[2]) = <<x, y>>

\* "Nothing is ever upscaled", and renditions of one photograph agree: each side is at
\* least a pixel, at most the edge and what it was; the longer side is the edge, the
\* other follows the ratio to a pixel; the shape is kept; and a rendition for a smaller
\* edge is nowhere larger.
RenditionsAgree ==
  size[1] > 0 /\ size[2] > 0 =>
    \A i \in DOMAIN renditions :
      LET r == renditions[i]
          w == size[1]
          h == size[2]
      IN  /\ r[1] \in 1 .. w /\ r[2] \in 1 .. h
          /\ r[1] <= Edges[i] /\ r[2] <= Edges[i]
          /\ r = size \/ r[1] = Edges[i] \/ r[2] = Edges[i]
          /\ r[2] = 1 \/ w < h \/ r[1] * h - r[2] * w \in 0 .. w - 1
          /\ r[1] = 1 \/ h < w \/ r[2] * w - r[1] * h \in 0 .. h - 1
          /\ (w >= h => r[1] >= r[2]) /\ (h >= w => r[2] >= r[1])
          /\ \A j \in DOMAIN renditions : Edges[i] <= Edges[j] =>
               r[1] <= renditions[j][1] /\ r[2] <= renditions[j][2]

\* "This loop touches every source pixel exactly once": along either side the boxes of
\* a rendition are within the image, none is empty, no two share a pixel, and every
\* pixel is in one.
EveryPixelOnce ==
  \A i \in DOMAIN renditions, side \in {1, 2} :
    LET n == size[side]
        m == renditions[i][side]
    IN  /\ \A k \in 0 .. m - 1 :
             Box(k, n, m) # {} /\ Box(k, n, m) \subseteq 0 .. n - 1
        /\ \A k, l \in 0 .. m - 1 : k # l => Box(k, n, m) \cap Box(l, n, m) = {}
        /\ \A p \in 0 .. n - 1 : \E k \in 0 .. m - 1 : p \in Box(k, n, m)

\* No int overflows on a build where it has 32 bits: the products of Fit, and the
\* index behind the last byte of an image of four bytes per pixel.
ProductsFit ==
  \A e \in Extents, i \in DOMAIN Edges :
    /\ 4 * e[1] * e[2] <= IntMax
    /\ size[1] * e[1] <= IntMax /\ size[2] * e[2] <= IntMax
    /\ size[1] > Edges[i] \/ size[2] > Edges[i] =>
         IF size[1] >= size[2] THEN size[2] * Edges[i] <= IntMax
         ELSE size[1] * Edges[i] <= IntMax

\* Prepare comes to an end on every file.
PrepareReturns == <>(step = "done")
=============================================================================
