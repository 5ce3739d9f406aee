---------------------------- MODULE ImagingProofs ----------------------------
(***************************************************************************)
(* Theorems about Imaging, for every file, every edge and every bound: the *)
(* turns, the fitting and its arithmetic, and the scan for the EXIF block, *)
(* which is shown to find the first block that the file has and to end.    *)
(***************************************************************************)
EXTENDS Imaging, SequenceTheorems, Loops

-----------------------------------------------------------------------------
(***************************************************************************)
(* Arithmetic.                                                             *)
(***************************************************************************)

LEMMA Products ==
  ASSUME NEW a \in Nat, NEW b \in Nat, NEW c \in Nat, NEW d \in Nat, a <= b, c <= d
  PROVE  /\ a * c \in Nat
         /\ a * c <= b * d
<1>1. a * c <= a * d
  BY SMT
<1>2. a * d <= b * d
  BY SMT
<1> QED
  BY <1>1, <1>2, SMT

\* A quotient, by the products on either side.
LEMMA Quotient ==
  ASSUME NEW a \in Nat, NEW b \in Nat, b > 0
  PROVE  /\ a \div b \in Nat
         /\ (a \div b) * b <= a
         /\ a < (a \div b + 1) * b
BY SMT

LEMMA QuotientAtMost ==
  ASSUME NEW a \in Nat, NEW b \in Nat, b > 0, NEW c \in Nat, a <= c * b
  PROVE  a \div b <= c
<1>1. (a \div b) * b <= c * b /\ a \div b \in Nat
  BY Quotient, SMT
<1>2. SUFFICES ASSUME a \div b >= c + 1 PROVE FALSE
  BY <1>1
<1>3. (c + 1) * b <= (a \div b) * b
  BY <1>1, <1>2, Products
<1> QED
  BY <1>1, <1>3, SMT

LEMMA QuotientAtLeast ==
  ASSUME NEW a \in Nat, NEW b \in Nat, b > 0, NEW c \in Nat, c * b <= a
  PROVE  c <= a \div b
<1>1. c * b < (a \div b + 1) * b /\ a \div b \in Nat
  BY Quotient, SMT
<1>2. SUFFICES ASSUME a \div b + 1 <= c PROVE FALSE
  BY <1>1
<1>3. (a \div b + 1) * b <= c * b
  BY <1>1, <1>2, Products
<1> QED
  BY <1>1, <1>3, SMT

-----------------------------------------------------------------------------
(***************************************************************************)
(* The turns.                                                              *)
(***************************************************************************)

\* The pixel x, y of the upright image is one of the w by h image, and the one that the
\* EXIF standard puts there.
Exact(o, w, h, x, y) ==
  LET from == Source(o, w, h, x, y)
      upright == Turned(o, <<w, h>>)
  IN  /\ from \in (0 .. w - 1) \X (0 .. h - 1)
      /\ Shown(o, upright[1], upright[2], from[1], from[2]) = <<x, y>>

\* For every orientation and extents, applyOrientation puts each pixel where it belongs.
THEOREM TurnsAreExact ==
  ASSUME NEW o \in 1 .. 8, NEW w \in Nat, NEW h \in Nat,
         NEW x \in 0 .. Turned(o, <<w, h>>)[1] - 1,
         NEW y \in 0 .. Turned(o, <<w, h>>)[2] - 1
  PROVE  Exact(o, w, h, x, y)
<1>1. CASE o \in 1 .. 4
  <2>1. Turned(o, <<w, h>>) = <<w, h>>
    BY <1>1 DEF Turned
  <2> QED
    BY <1>1, <2>1 DEF Exact, Source, Shown, RowSide, ColumnSide, FromSide
<1>2. CASE o \in 5 .. 8
  <2>1. Turned(o, <<w, h>>) = <<h, w>>
    BY <1>2 DEF Turned
  <2> QED
    BY <1>2, <2>1 DEF Exact, Source, Shown, RowSide, ColumnSide, FromSide
<1> QED
  BY <1>1, <1>2

-----------------------------------------------------------------------------
(***************************************************************************)
(* The boxes.                                                              *)
(***************************************************************************)

\* Of n pixels scaled to no more: the boxes are within the image and not empty, no two
\* share a pixel, and every pixel is in one.
Partition(n, m) ==
  /\ \A k \in 0 .. m - 1 : Box(k, n, m) # {} /\ Box(k, n, m) \subseteq 0 .. n - 1
  /\ \A k, l \in 0 .. m - 1 : k # l => Box(k, n, m) \cap Box(l, n, m) = {}
  /\ \A p \in 0 .. n - 1 : \E k \in 0 .. m - 1 : p \in Box(k, n, m)

\* The guard against an empty box never acts: a box ends where the next starts.
LEMMA BoxesAdjoin ==
  ASSUME NEW n \in Nat, NEW m \in Nat \ {0}, m <= n, NEW k \in Nat
  PROVE  /\ BoxStart(k, n, m) \in Nat /\ BoxStart(k + 1, n, m) \in Nat
         /\ BoxEnd(k, n, m) = BoxStart(k + 1, n, m)
         /\ BoxStart(k, n, m) < BoxStart(k + 1, n, m)
<1> DEFINE s == (k * n) \div m
<1>1. k * n \in Nat /\ (k + 1) * n \in Nat /\ (k + 1) * n = k * n + n
  BY SMT
<1>2. s \in Nat /\ s * m <= k * n
  BY <1>1, Quotient
<1>3. (s + 1) * m = s * m + m
  BY <1>2, SMT
<1>4. (s + 1) * m <= (k + 1) * n
  BY <1>1, <1>2, <1>3, SMT
<1>5. s + 1 <= ((k + 1) * n) \div m
  <2>1. s + 1 \in Nat
    BY <1>2
  <2> QED
    BY <1>1, <1>4, <2>1, QuotientAtLeast
<1>6. ((k + 1) * n) \div m \in Nat
  BY <1>1, Quotient
<1> QED
  BY <1>2, <1>5, <1>6 DEF BoxStart, BoxEnd

LEMMA BoxStartMonotone ==
  ASSUME NEW n \in Nat, NEW m \in Nat \ {0}, NEW k \in Nat, NEW l \in Nat, k <= l
  PROVE  BoxStart(k, n, m) <= BoxStart(l, n, m)
<1>1. k * n <= l * n /\ k * n \in Nat /\ l * n \in Nat
  BY Products
<1>2. (k * n) \div m \in Nat /\ ((k * n) \div m) * m <= k * n
  BY <1>1, Quotient
<1>3. ((k * n) \div m) * m <= l * n
  BY <1>1, <1>2, SMT
<1> QED
  BY <1>1, <1>2, <1>3, QuotientAtLeast DEF BoxStart

\* The last box ends with the image.
LEMMA LastBox ==
  ASSUME NEW n \in Nat, NEW m \in Nat \ {0}
  PROVE  BoxStart(m, n, m) = n
<1>1. m * n \in Nat /\ n * m = m * n
  BY SMT
<1>2. n <= (m * n) \div m
  BY <1>1, QuotientAtLeast
<1>3. (m * n) \div m <= n
  BY <1>1, QuotientAtMost
<1>4. (m * n) \div m \in Nat
  BY <1>1, Quotient
<1> QED
  BY <1>2, <1>3, <1>4 DEF BoxStart

LEMMA BoxesPartition ==
  ASSUME NEW n \in Nat, NEW m \in Nat, m <= n, m = 0 => n = 0
  PROVE  Partition(n, m)
<1>1. CASE m = 0
  BY <1>1 DEF Partition
<1>2. CASE m # 0
  <2> m \in Nat \ {0}
    BY <1>2
  <2>1. ASSUME NEW k \in 0 .. m - 1
        PROVE  Box(k, n, m) # {} /\ Box(k, n, m) \subseteq 0 .. n - 1
    <3>1. BoxStart(k + 1, n, m) <= n
      BY BoxStartMonotone, LastBox
    <3>2. BoxStart(k, n, m) \in Box(k, n, m)
      BY BoxesAdjoin DEF Box
    <3>3. ASSUME NEW p \in Box(k, n, m) PROVE p \in 0 .. n - 1
      BY <3>1, <3>3, BoxesAdjoin DEF Box
    <3> QED
      BY <3>2, <3>3
  <2>2. ASSUME NEW k \in 0 .. m - 1, NEW l \in 0 .. m - 1, k < l
        PROVE  Box(k, n, m) \cap Box(l, n, m) = {}
    <3>1. BoxEnd(k, n, m) <= BoxStart(l, n, m)
      BY <2>2, BoxesAdjoin, BoxStartMonotone
    <3>2. BoxEnd(k, n, m) \in Nat
      <4>1. k \in Nat
        OBVIOUS
      <4> QED
        BY <4>1, BoxesAdjoin
    <3>3. BoxStart(l, n, m) \in Nat
      <4>1. l \in Nat
        OBVIOUS
      <4> QED
        BY <4>1, BoxesAdjoin
    <3> QED
      BY <3>1, <3>2, <3>3 DEF Box
  <2>3. ASSUME NEW k \in 0 .. m - 1, NEW l \in 0 .. m - 1, k # l
        PROVE  Box(k, n, m) \cap Box(l, n, m) = {}
    <3>1. CASE k < l
      BY <2>2, <3>1
    <3>2. CASE l < k
      BY <2>2, <3>2
    <3> QED
      BY <2>3, <3>1, <3>2
  <2>4. ASSUME NEW p \in 0 .. n - 1
        PROVE  \E k \in 0 .. m - 1 : p \in Box(k, n, m)
    <3> DEFINE q == (p + 1) * m
               k == (q - 1) \div n
    <3>1. q \in Nat /\ q >= 1 /\ q <= n * m /\ n * m = m * n
      <4>1. 1 * 1 <= (p + 1) * m
        BY Products
      <4>2. (p + 1) * m <= n * m
        BY Products
      <4> QED
        BY <4>1, <4>2, SMT
    <3>2. k \in Nat /\ k * n <= q - 1 /\ q - 1 < (k + 1) * n
      BY <3>1, Quotient
    <3>3. k \in 0 .. m - 1
      <4>1. k * n < m * n
        BY <3>1, <3>2, SMT
      <4>2. SUFFICES ASSUME m <= k PROVE FALSE
        BY <3>2
      <4>3. m * n <= k * n
        BY <3>2, <4>2, Products
      <4> QED
        BY <3>2, <4>1, <4>3, SMT
    <3>4. BoxStart(k, n, m) <= p
      <4>1. BoxStart(k, n, m) \in Nat /\ BoxStart(k, n, m) * m <= k * n
        <5>1. k * n \in Nat
          BY <3>2, SMT
        <5> QED
          BY <5>1, Quotient DEF BoxStart
      <4>2. BoxStart(k, n, m) * m < (p + 1) * m
        BY <3>1, <3>2, <4>1, SMT
      <4>3. SUFFICES ASSUME p + 1 <= BoxStart(k, n, m) PROVE FALSE
        BY <4>1
      <4>4. (p + 1) * m <= BoxStart(k, n, m) * m
        BY <4>1, <4>3, Products
      <4> QED
        BY <3>1, <4>1, <4>2, <4>4, SMT
    <3>5. p < BoxStart(k + 1, n, m)
      <4>1. (k + 1) * n \in Nat /\ (p + 1) * m <= (k + 1) * n
        BY <3>1, <3>2, SMT
      <4>2. p + 1 <= ((k + 1) * n) \div m
        BY <4>1, QuotientAtLeast
      <4>3. ((k + 1) * n) \div m \in Nat
        BY <4>1, Quotient
      <4> QED
        BY <4>2, <4>3 DEF BoxStart
    <3> HIDE DEF k
    <3>6. p \in Box(k, n, m)
      BY <3>3, <3>4, <3>5, BoxesAdjoin DEF Box
    <3> QED
      BY <3>3, <3>6
  <2> QED
    BY <2>1, <2>3, <2>4 DEF Partition
<1> QED
  BY <1>1, <1>2

-----------------------------------------------------------------------------
(***************************************************************************)
(* Fit.                                                                    *)
(***************************************************************************)

\* The side that is not the longest one of an image of which it is.
Follows(side, longest, edge) == AtLeastOne((side * edge) \div longest)

LEMMA FollowingSide ==
  ASSUME NEW s \in Nat \ {0}, NEW l \in Nat \ {0}, s <= l, NEW e \in Nat \ {0}, e <= l
  PROVE  /\ Follows(s, l, e) \in 1 .. s
         /\ Follows(s, l, e) <= e
         /\ Follows(s, l, e) = 1 \/ e * s - Follows(s, l, e) * l \in 0 .. l - 1
<1> DEFINE q == (s * e) \div l
<1>1. s * e \in Nat /\ e * s = s * e /\ s * e <= s * l /\ s * e <= l * e /\ l * e = e * l
  <2>1. s * e <= s * l /\ s * e <= l * e
    BY Products
  <2> QED
    BY <2>1, SMT
<1>2. q \in Nat /\ q * l <= s * e /\ s * e < (q + 1) * l
  BY <1>1, Quotient
<1>3. q <= s /\ q <= e
  <2>1. q <= s
    BY <1>1, QuotientAtMost
  <2>2. q <= e
    BY <1>1, QuotientAtMost
  <2> QED
    BY <2>1, <2>2
<1>4. q < 1 \/ s * e - q * l \in 0 .. l - 1
  <2>1. (q + 1) * l = q * l + l /\ q * l \in Nat
    BY <1>2, SMT
  <2> QED
    BY <1>1, <1>2, <2>1, SMT
<1>5. Follows(s, l, e) = IF q < 1 THEN 1 ELSE q
  BY DEF Follows, AtLeastOne
<1> HIDE DEF q
<1> QED
  BY <1>1, <1>2, <1>3, <1>4, <1>5

LEMMA FollowsMonotone ==
  ASSUME NEW s \in Nat \ {0}, NEW l \in Nat \ {0},
         NEW d \in Nat \ {0}, NEW e \in Nat \ {0}, d <= e
  PROVE  Follows(s, l, d) <= Follows(s, l, e)
<1>1. s * d \in Nat /\ s * e \in Nat /\ s * d <= s * e
  BY Products
<1>2. (s * d) \div l \in Nat /\ ((s * d) \div l) * l <= s * d
  BY <1>1, Quotient
<1>3. ((s * d) \div l) * l <= s * e
  BY <1>1, <1>2, SMT
<1>4. (s * d) \div l <= (s * e) \div l
  BY <1>1, <1>2, <1>3, QuotientAtLeast
<1>5. (s * e) \div l \in Nat
  BY <1>1, Quotient
<1> QED
  BY <1>2, <1>4, <1>5 DEF Follows, AtLeastOne

\* Fit by the side it scales to the edge.
LEMMA FitCases ==
  ASSUME NEW w \in Nat \ {0}, NEW h \in Nat \ {0}, NEW e \in Nat \ {0}
  PROVE  \/ w <= e /\ h <= e /\ Fit(w, h, e) = <<w, h>>
         \/ w >= h /\ e < w /\ Fit(w, h, e) = <<e, Follows(h, w, e)>>
         \/ w < h /\ e < h /\ Fit(w, h, e) = <<Follows(w, h, e), e>>
BY DEF Fit, Follows

\* An image r made of one of w by h for the edge e.
Shaped(r, w, h, e) ==
  /\ r \in (1 .. w) \X (1 .. h)
  /\ r[1] <= e /\ r[2] <= e
  /\ r = <<w, h>> \/ r[1] = e \/ r[2] = e
  /\ r[2] = 1 \/ w < h \/ r[1] * h - r[2] * w \in 0 .. w - 1
  /\ r[1] = 1 \/ h < w \/ r[2] * w - r[1] * h \in 0 .. h - 1
  /\ (w >= h => r[1] >= r[2]) /\ (h >= w => r[2] >= r[1])

LEMMA FitShape ==
  ASSUME NEW w \in Nat \ {0}, NEW h \in Nat \ {0}, NEW e \in Nat \ {0}
  PROVE  Shaped(Fit(w, h, e), w, h, e)
<1>1. CASE w <= e /\ h <= e /\ Fit(w, h, e) = <<w, h>>
  <2>1. w * h = h * w /\ w * h \in Nat
    BY SMT
  <2>2. w * h - h * w = 0 /\ h * w - w * h = 0
    BY <2>1, SMT
  <2> QED
    BY <1>1, <2>2 DEF Shaped
<1>2. CASE w >= h /\ e < w /\ Fit(w, h, e) = <<e, Follows(h, w, e)>>
  <2>1. /\ Follows(h, w, e) \in 1 .. h
        /\ Follows(h, w, e) <= e
        /\ Follows(h, w, e) = 1 \/ e * h - Follows(h, w, e) * w \in 0 .. w - 1
    BY <1>2, FollowingSide
  <2>2. w = h => Follows(h, w, e) = e
    <3>1. SUFFICES ASSUME w = h PROVE (h * e) \div w = e
      BY DEF Follows, AtLeastOne
    <3>2. h * e \in Nat /\ h * e = e * w
      BY <3>1, SMT
    <3>3. (h * e) \div w <= e /\ e <= (h * e) \div w
      BY <3>2, QuotientAtMost, QuotientAtLeast
    <3>4. (h * e) \div w \in Nat
      BY <3>2, Quotient
    <3> QED
      BY <3>3, <3>4
  <2>3. w = h => e * w - e * h = 0
    BY SMT
  <2> QED
    BY <1>2, <2>1, <2>2, <2>3 DEF Shaped
<1>3. CASE w < h /\ e < h /\ Fit(w, h, e) = <<Follows(w, h, e), e>>
  <2>1. /\ Follows(w, h, e) \in 1 .. w
        /\ Follows(w, h, e) <= e
        /\ Follows(w, h, e) = 1 \/ e * w - Follows(w, h, e) * h \in 0 .. h - 1
    BY <1>3, FollowingSide
  <2> QED
    BY <1>3, <2>1 DEF Shaped
<1> QED
  BY <1>1, <1>2, <1>3, FitCases

\* A smaller edge never gives a larger image.
LEMMA FitMonotone ==
  ASSUME NEW w \in Nat \ {0}, NEW h \in Nat \ {0},
         NEW d \in Nat \ {0}, NEW e \in Nat \ {0}, d <= e
  PROVE  Fit(w, h, d)[1] <= Fit(w, h, e)[1] /\ Fit(w, h, d)[2] <= Fit(w, h, e)[2]
<1>1. Fit(w, h, d) \in (1 .. w) \X (1 .. h)
  BY FitShape DEF Shaped
<1>2. CASE w <= e /\ h <= e /\ Fit(w, h, e) = <<w, h>>
  BY <1>1, <1>2
<1>3. CASE w >= h /\ e < w /\ Fit(w, h, e) = <<e, Follows(h, w, e)>>
  <2>1. Fit(w, h, d) = <<d, Follows(h, w, d)>>
    BY <1>3, FitCases
  <2> QED
    BY <1>3, <2>1, FollowsMonotone
<1>4. CASE w < h /\ e < h /\ Fit(w, h, e) = <<Follows(w, h, e), e>>
  <2>1. Fit(w, h, d) = <<Follows(w, h, d), d>>
    BY <1>4, FitCases
  <2> QED
    BY <1>4, <2>1, FollowsMonotone
<1> QED
  BY <1>2, <1>3, <1>4, FitCases

\* Of an image without a pixel Fit makes nothing.
LEMMA FitEmpty ==
  ASSUME NEW w \in Nat, NEW h \in Nat, NEW e, w = 0 \/ h = 0
  PROVE  Fit(w, h, e) = <<w, h>>
BY DEF Fit

-----------------------------------------------------------------------------
(***************************************************************************)
(* The inductive invariant: every rendition is the Fit of the image in     *)
(* hand, which is the decoded frame, turned once the orientation is known, *)
(* and within the bounds the header was checked against.                   *)
(***************************************************************************)
Fitted ==
  /\ step \notin {"render", "done"} => renditions = <<>> /\ orientation = 1
  /\ \A i \in DOMAIN renditions : renditions[i] = Fit(size[1], size[2], Edges[i])

InBounds ==
  /\ size[1] <= MaxEdge /\ size[2] <= MaxEdge
  /\ size[1] * size[2] <= MaxPixels
  /\ step \notin {"header", "done"} => headerError(file) = "none"

FromFrame ==
  /\ step \in {"scan", "orient"} => size = file.frame
  /\ step \in {"render", "done"} /\ error = "none" => size = Turned(orientation, file.frame)

IInv ==
  /\ TypeOK
  /\ Fitted
  /\ InBounds
  /\ FromFrame

LEMMA FileType ==
  ASSUME NEW f \in Files
  PROVE  /\ f.bytes \in Seq(0 .. 255)
         /\ f.width \in Nat /\ f.height \in Nat
         /\ f.frame \in Nat \X Nat
         /\ f.decodes => f.frame[1] <= f.width /\ f.frame[2] <= f.height
BY ImagingAssumption DEF File

LEMMA BoundsType ==
  MaxEdge \in Nat /\ MaxPixels \in Nat /\ IntMax \in Nat
BY ImagingAssumption

\* What the header's check admits.
LEMMA Admitted ==
  ASSUME NEW f \in Files, headerError(f) = "none"
  PROVE  f.width <= MaxEdge /\ f.height <= MaxEdge /\ f.width * f.height <= MaxPixels
<1>1. f.width \in Nat /\ f.height \in Nat /\ f.width * f.height \in Nat
  BY FileType, SMT
<1> QED
  BY <1>1, BoundsType DEF headerError, checkBounds

LEMMA HeaderErrors ==
  ASSUME NEW f
  PROVE  headerError(f) \in {"none", "NotAnImage", "TooLarge"}
BY DEF headerError, checkBounds

LEMMA OrientationType ==
  ASSUME NEW block
  PROVE  ReadOrientation(block) \in 1 .. 8
BY DEF ReadOrientation, Declared

LEMMA FitType ==
  ASSUME NEW w \in Nat, NEW h \in Nat, NEW e \in Nat \ {0}
  PROVE  Fit(w, h, e) \in (0 .. w) \X (0 .. h)
<1>1. CASE w = 0 \/ h = 0
  BY <1>1, FitEmpty
<1>2. CASE w # 0 /\ h # 0
  <2>1. w \in Nat \ {0} /\ h \in Nat \ {0}
    BY <1>2
  <2>2. Fit(w, h, e) \in (1 .. w) \X (1 .. h)
    BY <2>1, FitShape DEF Shaped
  <2> QED
    BY <2>2
<1> QED
  BY <1>1, <1>2

LEMMA Bytes ==
  ASSUME NEW s \in Seq(0 .. 255)
  PROVE  /\ \A i \in 1 .. Len(s) : s[i] \in 0 .. 255
         /\ \A i \in Nat \ {0}, j \in Nat :
              j <= Len(s) => SubSeq(s, i, j) \in Seq(0 .. 255)
<1>1. \A i \in 1 .. Len(s) : s[i] \in 0 .. 255
  BY ElementOfSeq
<1>2. ASSUME NEW i \in Nat \ {0}, NEW j \in Nat, j <= Len(s)
      PROVE  SubSeq(s, i, j) \in Seq(0 .. 255)
  <2>1. \A k \in i .. j : s[k] \in 0 .. 255
    BY <1>1, <1>2
  <2> QED
    BY <2>1, SubSeqProperties, SMT
<1> QED
  BY <1>1, <1>2

LEMMA BigEndian ==
  ASSUME NEW a \in 0 .. 255, NEW b \in 0 .. 255
  PROVE  256 * a + b \in Nat
OBVIOUS

\* Where the scan stands, and what it reads there.
LEMMA ScanBytes ==
  ASSUME TypeOK, MoreSegments
  PROVE  /\ SegmentLength \in Nat
         /\ SegmentFits => Payload \in Seq(0 .. 255)
<1>1. file.bytes \in Seq(0 .. 255) /\ at \in Nat /\ at + 4 <= Len(file.bytes)
  BY FileType DEF TypeOK, MoreSegments
<1>2. \A i \in 1 .. Len(file.bytes) : file.bytes[i] \in 0 .. 255
  BY <1>1, Bytes
<1>3. Byte(at + 2) \in 0 .. 255 /\ Byte(at + 3) \in 0 .. 255
  BY <1>1, <1>2 DEF Byte
<1>4. SegmentLength \in Nat
  BY <1>3, BigEndian DEF SegmentLength
<1>5. ASSUME SegmentFits PROVE Payload \in Seq(0 .. 255)
  <2>1. /\ at + 5 \in Nat \ {0}
        /\ at + 2 + SegmentLength \in Nat
        /\ at + 2 + SegmentLength <= Len(file.bytes)
    BY <1>1, <1>4, <1>5 DEF SegmentFits
  <2> QED
    BY <1>1, <2>1, Bytes DEF Payload
<1> QED
  BY <1>4, <1>5

-----------------------------------------------------------------------------
LEMMA InitHolds == Init => IInv
<1> SUFFICES ASSUME Init PROVE IInv
  OBVIOUS
<1>1. file.bytes \in Seq(0 .. 255)
  BY FileType DEF Init
<1>2. TypeOK
  <2>1. at \in 0 .. Len(file.bytes)
    BY <1>1, LenProperties DEF Init
  <2>2. tiff \in Seq(0 .. 255) /\ renditions \in Seq(Nat \X Nat) /\ Len(renditions) = 0
    BY EmptySeq DEF Init
  <2>3. Len(Edges) \in Nat
    BY ImagingAssumption, LenProperties
  <2> QED
    BY <2>1, <2>2, <2>3 DEF Init, TypeOK, Steps
<1>3. Fitted
  BY DEF Init, Fitted
<1>4. InBounds
  BY BoundsType DEF Init, InBounds
<1>5. FromFrame
  BY DEF Init, FromFrame
<1> QED
  BY <1>2, <1>3, <1>4, <1>5 DEF IInv

\* A step that leaves the image alone: all that can change is the place in the file,
\* the TIFF block, the error, and what is next.
LEMMA SameImage ==
  ASSUME IInv,
         UNCHANGED <<file, orientation, size, renditions>>,
         step' \in Steps,
         at' \in 0 .. Len(file.bytes),
         tiff' \in Seq(0 .. 255),
         error' \in {"none", "NotAnImage", "TooLarge"},
         step' \in {"render", "done"} =>
           step = "render" \/ error' # "none" \/ (orientation = 1 /\ size = file.frame),
         step' \in {"render", "done"} /\ step = "render" => error' = error,
         step' \in {"scan", "orient"} => size = file.frame,
         step' \notin {"render", "done"} => step \notin {"render", "done"},
         step' \notin {"header", "done"} => headerError(file) = "none"
  PROVE  IInv'
<1>1. TypeOK'
  BY DEF IInv, TypeOK
<1>2. Fitted'
  BY DEF IInv, Fitted
<1>3. InBounds'
  BY DEF IInv, InBounds
<1>4. FromFrame'
  BY DEF IInv, FromFrame, Turned
<1> QED
  BY <1>1, <1>2, <1>3, <1>4 DEF IInv

LEMMA HeaderStep ==
  ASSUME IInv, RefuseHeader \/ AcceptHeader \/ DecodeFails
  PROVE  IInv'
<1>1. headerError(file) \in {"none", "NotAnImage", "TooLarge"}
  BY HeaderErrors
<1> QED
  BY <1>1, SameImage
     DEF IInv, TypeOK, Steps, InBounds, RefuseHeader, AcceptHeader, DecodeFails, Fail

LEMMA DecodeStep ==
  ASSUME IInv, Decode
  PROVE  IInv'
<1>1. file \in Files /\ file' = file /\ file.decodes /\ size' = file.frame
  BY DEF IInv, TypeOK, Decode
<1>2. headerError(file) = "none" /\ renditions = <<>> /\ orientation = 1
  BY DEF IInv, Fitted, InBounds, Decode
<1>3. /\ file.frame \in Nat \X Nat
      /\ file.frame[1] <= file.width /\ file.frame[2] <= file.height
      /\ file.width \in Nat /\ file.height \in Nat
  BY <1>1, FileType
<1>4. file.width <= MaxEdge /\ file.height <= MaxEdge /\ file.width * file.height <= MaxPixels
  BY <1>1, <1>2, Admitted
<1>5. TypeOK'
  <2>1. at' \in 0 .. Len(file.bytes)
    BY DEF IInv, TypeOK, Decode
  <2> QED
    BY <1>1, <1>3, <2>1 DEF IInv, TypeOK, Steps, Decode
<1>6. Fitted'
  <2>1. renditions' = <<>> /\ orientation' = 1
    BY <1>2 DEF Decode
  <2> QED
    BY <2>1 DEF Fitted
<1>7. InBounds'
  <2>1. file.frame[1] * file.frame[2] <= file.width * file.height
    BY <1>3, Products
  <2>2. file.frame[1] * file.frame[2] \in Nat /\ file.width * file.height \in Nat
    BY <1>3, SMT
  <2>3. size'[1] * size'[2] <= MaxPixels
    BY <1>1, <1>4, <2>1, <2>2, BoundsType
  <2>4. size'[1] <= MaxEdge /\ size'[2] <= MaxEdge
    BY <1>1, <1>3, <1>4, BoundsType
  <2> QED
    BY <1>1, <1>2, <2>3, <2>4 DEF InBounds
<1>8. FromFrame'
  BY <1>1, <1>2, <1>3 DEF Decode, FromFrame, Turned
<1> QED
  BY <1>5, <1>6, <1>7, <1>8 DEF IInv

\* Wherever the scan turns, it stays inside the file.
LEMMA ScanStep ==
  ASSUME IInv, ScanEnds \/ SkipStandalone \/ SegmentBroken \/ FindExif \/ SkipSegment
  PROVE  IInv'
<1>1. /\ step = "scan" /\ file \in Files /\ at \in 0 .. Len(file.bytes)
      /\ size = file.frame /\ orientation = 1 /\ headerError(file) = "none"
      /\ error \in {"none", "NotAnImage", "TooLarge"} /\ tiff \in Seq(0 .. 255)
  BY DEF IInv, TypeOK, Fitted, InBounds, FromFrame, ScanEnds, SkipStandalone, SegmentBroken,
         FindExif, SkipSegment, AtSegment
<1>2. Len(file.bytes) \in Nat
  BY <1>1, FileType, LenProperties
<1>3. CASE ScanEnds \/ SegmentBroken
  BY <1>1, <1>3, SameImage DEF ScanEnds, SegmentBroken, Steps
<1>4. CASE SkipStandalone
  <2>1. at' \in 0 .. Len(file.bytes)
    BY <1>1, <1>2, <1>4 DEF SkipStandalone, MoreSegments
  <2> QED
    BY <1>1, <1>4, <2>1, SameImage DEF SkipStandalone, Steps
<1>5. CASE FindExif
  <2>1. Payload \in Seq(0 .. 255)
    BY <1>5, ScanBytes DEF IInv, FindExif, AtSegment
  <2>2. Len(Payload) \in Nat
    BY <2>1, LenProperties
  <2>3. tiff' \in Seq(0 .. 255)
    BY <1>5, <2>1, <2>2, Bytes DEF FindExif
  <2> QED
    BY <1>1, <1>5, <2>3, SameImage DEF FindExif, Steps
<1>6. CASE SkipSegment
  <2>1. SegmentLength \in Nat
    BY <1>6, ScanBytes DEF IInv, SkipSegment, AtSegment
  <2>2. at' \in 0 .. Len(file.bytes)
    BY <1>1, <1>2, <1>6, <2>1 DEF SkipSegment, SegmentFits
  <2> QED
    BY <1>1, <1>6, <2>2, SameImage DEF SkipSegment, Steps
<1> QED
  BY <1>3, <1>4, <1>5, <1>6

LEMMA OrientStep ==
  ASSUME IInv, Orient
  PROVE  IInv'
<1>1. /\ size \in Nat \X Nat /\ size = file.frame /\ renditions = <<>>
      /\ file' = file /\ renditions' = <<>> /\ step' = "render"
      /\ size' = Turned(orientation', size)
  BY DEF IInv, TypeOK, Fitted, FromFrame, Orient
<1>2. orientation' \in 1 .. 8
  BY OrientationType DEF Orient
<1>3. size' = size \/ size' = <<size[2], size[1]>>
  BY <1>1 DEF Turned
<1>4. TypeOK'
  BY <1>1, <1>2, <1>3 DEF IInv, TypeOK, Orient, Steps
<1>5. Fitted'
  BY <1>1 DEF Fitted
<1>6. InBounds'
  <2>1. size[1] * size[2] = size[2] * size[1]
    BY <1>1, SMT
  <2>2. headerError(file) = "none"
    BY DEF IInv, InBounds, Orient
  <2> QED
    BY <1>1, <1>3, <2>1, <2>2 DEF IInv, InBounds
<1>7. FromFrame'
  BY <1>1 DEF FromFrame
<1> QED
  BY <1>4, <1>5, <1>6, <1>7 DEF IInv

LEMMA RenderStep ==
  ASSUME IInv, Render
  PROVE  IInv'
<1> DEFINE n == Len(renditions) + 1
           new == Fit(size[1], size[2], Edges[n])
<1>1. /\ size \in Nat \X Nat /\ renditions \in Seq(Nat \X Nat)
      /\ Edges \in Seq(Nat \ {0}) /\ Len(renditions) < Len(Edges)
      /\ renditions' = Append(renditions, new)
      /\ UNCHANGED <<file, step, at, tiff, orientation, size, error>>
  BY ImagingAssumption DEF IInv, TypeOK, Render
<1>2. Len(renditions) \in Nat /\ Len(Edges) \in Nat
  BY <1>1, LenProperties
<1>3. n \in 1 .. Len(Edges)
  BY <1>1, <1>2
<1>4. Edges[n] \in Nat \ {0}
  BY <1>1, <1>3, ElementOfSeq
<1>5. new \in Nat \X Nat
  <2>1. size[1] \in Nat /\ size[2] \in Nat
    BY <1>1
  <2>2. new \in (0 .. size[1]) \X (0 .. size[2])
    BY <1>4, <2>1, FitType
  <2> QED
    BY <2>2
<1>6. /\ renditions' \in Seq(Nat \X Nat)
      /\ Len(renditions') = n
      /\ \A i \in 1 .. Len(renditions) : renditions'[i] = renditions[i]
      /\ renditions'[n] = new
  BY <1>1, <1>5, AppendProperties
<1>7. TypeOK'
  BY <1>1, <1>3, <1>6 DEF IInv, TypeOK
<1>8. Fitted'
  <2>1. ASSUME NEW i \in DOMAIN renditions'
        PROVE  renditions'[i] = Fit(size[1], size[2], Edges[i])
    <3>1. i \in 1 .. n
      BY <1>6, LenProperties
    <3>2. CASE i = n
      BY <1>6, <3>2
    <3>3. CASE i # n
      <4>1. i \in 1 .. Len(renditions)
        BY <1>2, <3>1, <3>3
      <4>2. i \in DOMAIN renditions
        BY <1>1, <4>1, LenProperties
      <4> QED
        BY <1>6, <4>1, <4>2 DEF IInv, Fitted
    <3> QED
      BY <3>2, <3>3
  <2>2. step = "render"
    BY DEF Render
  <2> QED
    BY <1>1, <2>1, <2>2 DEF Fitted
<1>9. InBounds' /\ FromFrame'
  BY <1>1 DEF IInv, InBounds, FromFrame
<1> QED
  BY <1>7, <1>8, <1>9 DEF IInv

LEMMA ReturnStep ==
  ASSUME IInv, Return
  PROVE  IInv'
BY SameImage DEF IInv, TypeOK, Return, Steps

LEMMA NextHolds == IInv /\ [Next]_vars => IInv'
<1> SUFFICES ASSUME IInv, [Next]_vars PROVE IInv'
  OBVIOUS
<1>1. CASE UNCHANGED vars
  BY <1>1 DEF vars, IInv, TypeOK, Fitted, InBounds, FromFrame
<1> QED
  BY <1>1, HeaderStep, DecodeStep, ScanStep, OrientStep, RenderStep, ReturnStep DEF Next

LEMMA Invariance == Spec => []IInv
BY InitHolds, NextHolds, PTL DEF Spec

-----------------------------------------------------------------------------
(***************************************************************************)
(* What Prepare returns.                                                   *)
(***************************************************************************)

\* Every variable has its type; the scan of findExifSegment stays inside the file,
\* whatever its bytes.
THEOREM TypeCorrect == Spec => []TypeOK
BY Invariance, PTL DEF IInv

LEMMA EdgeType ==
  ASSUME IInv, NEW i \in DOMAIN renditions
  PROVE  i \in DOMAIN Edges /\ Edges[i] \in Nat \ {0}
<1>1. Len(renditions) \in Nat /\ Len(Edges) \in Nat /\ Len(renditions) <= Len(Edges)
  BY ImagingAssumption, LenProperties DEF IInv, TypeOK
<1>2. i \in 1 .. Len(Edges)
  BY <1>1, LenProperties DEF IInv, TypeOK
<1> QED
  BY <1>2, ImagingAssumption, ElementOfSeq, LenProperties

LEMMA RenditionsAgreeOnce == IInv => RenditionsAgree
<1> SUFFICES ASSUME IInv, size[1] > 0, size[2] > 0 PROVE RenditionsAgree
  BY DEF RenditionsAgree
<1>1. size \in Nat \X Nat /\ size[1] \in Nat \ {0} /\ size[2] \in Nat \ {0}
  BY DEF IInv, TypeOK
<1>2. ASSUME NEW i \in DOMAIN renditions
      PROVE  renditions[i] = Fit(size[1], size[2], Edges[i]) /\ Edges[i] \in Nat \ {0}
  BY EdgeType DEF IInv, Fitted
<1>3. ASSUME NEW i \in DOMAIN renditions
      PROVE  Shaped(renditions[i], size[1], size[2], Edges[i])
  <2>1. renditions[i] = Fit(size[1], size[2], Edges[i]) /\ Edges[i] \in Nat \ {0}
    BY <1>2
  <2> QED
    BY <1>1, <2>1, FitShape, Zenon
<1>4. ASSUME NEW i \in DOMAIN renditions, NEW j \in DOMAIN renditions, Edges[i] <= Edges[j]
      PROVE  renditions[i][1] <= renditions[j][1] /\ renditions[i][2] <= renditions[j][2]
  BY <1>1, <1>2, <1>4, FitMonotone
<1>5. size = <<size[1], size[2]>>
  BY <1>1
<1> QED
  BY <1>3, <1>4, <1>5 DEF RenditionsAgree, Shaped

\* Nothing is upscaled, and the renditions of one photograph agree in shape and order.
THEOREM RenditionsAlwaysAgree == Spec => []RenditionsAgree
BY Invariance, RenditionsAgreeOnce, PTL

LEMMA EveryPixelOnceOnce == IInv => EveryPixelOnce
<1> SUFFICES ASSUME IInv, NEW i \in DOMAIN renditions, NEW side \in {1, 2}
             PROVE  Partition(size[side], renditions[i][side])
  BY DEF EveryPixelOnce, Partition
<1>1. /\ size \in Nat \X Nat /\ size[1] \in Nat /\ size[2] \in Nat
      /\ renditions[i] = Fit(size[1], size[2], Edges[i])
      /\ Edges[i] \in Nat \ {0}
  BY EdgeType DEF IInv, TypeOK, Fitted
<1>2. CASE size[1] = 0 \/ size[2] = 0
  <2>1. renditions[i] = <<size[1], size[2]>>
    BY <1>1, <1>2, FitEmpty
  <2>2. renditions[i][side] = size[side] /\ size[side] \in Nat
    BY <1>1, <2>1
  <2> QED
    BY <2>2, BoxesPartition
<1>3. CASE size[1] # 0 /\ size[2] # 0
  <2>1. size[1] \in Nat \ {0} /\ size[2] \in Nat \ {0}
    BY <1>1, <1>3
  <2>2. renditions[i] \in (1 .. size[1]) \X (1 .. size[2])
    <3>1. Shaped(renditions[i], size[1], size[2], Edges[i])
      BY <1>1, <2>1, FitShape, Zenon
    <3> QED
      BY <3>1 DEF Shaped
  <2>3. renditions[i][side] \in 1 .. size[side] /\ size[side] \in Nat
    BY <2>1, <2>2
  <2> QED
    BY <2>3, BoxesPartition
<1> QED
  BY <1>2, <1>3

\* Fit averages every source pixel into exactly one pixel of a rendition.
THEOREM PixelsArePartitioned == Spec => []EveryPixelOnce
BY Invariance, EveryPixelOnceOnce, PTL

\* What is within the bounds of an image multiplies without overflow.
LEMMA SmallProducts ==
  ASSUME NEW a \in Nat, NEW b \in Nat, a <= MaxEdge, b <= MaxEdge
  PROVE  a * b <= IntMax
<1>1. a * b <= MaxEdge * MaxEdge /\ a * b \in Nat
  BY BoundsType, Products
<1>2. MaxEdge * MaxEdge <= IntMax /\ MaxEdge * MaxEdge \in Nat
  BY ImagingAssumption, SMT
<1> QED
  BY <1>1, <1>2, BoundsType

LEMMA ProductsFitOnce == IInv => ProductsFit
<1> SUFFICES ASSUME IInv PROVE ProductsFit
  OBVIOUS
<1>1. /\ size \in Nat \X Nat /\ size[1] \in Nat /\ size[2] \in Nat
      /\ size[1] <= MaxEdge /\ size[2] <= MaxEdge /\ size[1] * size[2] <= MaxPixels
  BY DEF IInv, TypeOK, InBounds
<1>2. ASSUME NEW e \in Extents
      PROVE  e \in (0 .. size[1]) \X (0 .. size[2])
  <2>1. CASE e = size
    BY <1>1, <2>1
  <2>2. ASSUME NEW i \in DOMAIN renditions, e = renditions[i]
        PROVE  e \in (0 .. size[1]) \X (0 .. size[2])
    <3>1. e = Fit(size[1], size[2], Edges[i]) /\ Edges[i] \in Nat \ {0}
      BY <2>2, EdgeType DEF IInv, Fitted
    <3> QED
      BY <1>1, <3>1, FitType
  <2> QED
    BY <2>1, <2>2 DEF Extents
<1>3. ASSUME NEW e \in Extents
      PROVE  /\ 4 * e[1] * e[2] <= IntMax
             /\ size[1] * e[1] <= IntMax /\ size[2] * e[2] <= IntMax
  <2>1. /\ e[1] \in Nat /\ e[2] \in Nat
        /\ e[1] <= size[1] /\ e[2] <= size[2]
        /\ e[1] <= MaxEdge /\ e[2] <= MaxEdge
    BY <1>1, <1>2, BoundsType
  <2>2. size[1] * e[1] <= IntMax /\ size[2] * e[2] <= IntMax
    BY <1>1, <2>1, SmallProducts
  <2>3. e[1] * e[2] <= size[1] * size[2] /\ e[1] * e[2] \in Nat
    BY <1>1, <2>1, Products
  <2>4. size[1] * size[2] \in Nat
    BY <1>1, SMT
  <2>5. 4 * (e[1] * e[2]) <= IntMax
    BY <1>1, <2>3, <2>4, ImagingAssumption
  <2>6. 4 * e[1] * e[2] = 4 * (e[1] * e[2])
    BY <2>1, SMT
  <2> QED
    BY <2>2, <2>5, <2>6
<1>4. ASSUME NEW i \in DOMAIN Edges, size[1] > Edges[i] \/ size[2] > Edges[i]
      PROVE  IF size[1] >= size[2] THEN size[2] * Edges[i] <= IntMax
             ELSE size[1] * Edges[i] <= IntMax
  <2>1. Edges[i] \in Nat
    BY ImagingAssumption, ElementOfSeq, LenProperties
  <2>2. Edges[i] <= MaxEdge
    BY <1>1, <1>4, <2>1, BoundsType
  <2> QED
    BY <1>1, <2>1, <2>2, SmallProducts
<1> QED
  BY <1>3, <1>4 DEF ProductsFit

\* No product of Fit's, nor an index into the pixels, is more than an int holds.
THEOREM ProductsAlwaysFit == Spec => []ProductsFit
BY Invariance, ProductsFitOnce, PTL

LEMMA UprightOnce == IInv /\ orientation = file.declared => PhotographIsUpright
<1> SUFFICES ASSUME IInv, orientation = file.declared,
                    step \in {"render", "done"}, error = "none"
             PROVE  PhotographIsUpright
  BY DEF PhotographIsUpright
<1> DEFINE w == file.frame[1]
           h == file.frame[2]
<1>1. /\ orientation \in 1 .. 8
      /\ file.frame \in Nat \X Nat
      /\ size = Turned(orientation, file.frame)
  BY FileType DEF IInv, TypeOK, FromFrame
<1>2. w \in Nat /\ h \in Nat /\ file.frame = <<w, h>>
  BY <1>1
<1>3. size = Turned(orientation, <<w, h>>)
  BY <1>1, <1>2
<1> HIDE DEF w, h
<1>4. ASSUME NEW x \in 0 .. size[1] - 1, NEW y \in 0 .. size[2] - 1
      PROVE  Exact(orientation, w, h, x, y)
  <2>1. /\ x \in 0 .. Turned(orientation, <<w, h>>)[1] - 1
        /\ y \in 0 .. Turned(orientation, <<w, h>>)[2] - 1
    BY <1>3, Zenon
  <2> QED
    BY <1>1, <1>2, <2>1, TurnsAreExact, Zenon
<1> QED
  BY <1>1, <1>3, <1>4 DEF PhotographIsUpright, Exact, w, h

\* A photograph whose declared orientation the scan has read is upright, whatever its
\* extents.  That the scan reads it is PhotographsAreUpright.
THEOREM DeclaredIsUpright ==
  Spec => [](orientation = file.declared => PhotographIsUpright)
BY Invariance, UprightOnce, PTL

-----------------------------------------------------------------------------
(***************************************************************************)
(* ReadOrientation finds what the block declares.                          *)
(***************************************************************************)
Place(block, little, i) == Uint32(block, 4, little) + 2 + 12 * i

\* The entries with the tag that are inside the block.
Tagged(block, little) ==
  {i \in 0 .. Uint16(block, Uint32(block, 4, little), little) - 1 :
     /\ Place(block, little, i) + 12 <= Len(block)
     /\ Uint16(block, Place(block, little, i), little) = 274}

FirstTagged(block, little) ==
  CHOOSE i \in Tagged(block, little) : \A j \in Tagged(block, little) : i <= j

\* Bytes make numbers.
LEMMA Uint16Type ==
  ASSUME NEW block \in Seq(0 .. 255), NEW little \in BOOLEAN,
         NEW i \in Nat, i + 2 <= Len(block)
  PROVE  Uint16(block, i, little) \in Nat
<1>1. Len(block) \in Nat /\ i + 1 \in 1 .. Len(block) /\ i + 2 \in 1 .. Len(block)
  BY LenProperties
<1>2. block[i + 1] \in 0 .. 255 /\ block[i + 2] \in 0 .. 255
  BY <1>1, Bytes
<1>3. /\ 256 * block[i + 1] + block[i + 2] \in Nat
      /\ block[i + 1] + 256 * block[i + 2] \in Nat
  <2>1. \A a, b \in 0 .. 255 : 256 * a + b \in Nat /\ a + 256 * b \in Nat
    OBVIOUS
  <2> QED
    BY <1>2, <2>1, Zenon
<1> QED
  BY <1>3, Zenon DEF Uint16

LEMMA Uint32Type ==
  ASSUME NEW block \in Seq(0 .. 255), NEW little \in BOOLEAN,
         NEW i \in Nat, i + 4 <= Len(block)
  PROVE  Uint32(block, i, little) \in Nat
<1>1. Len(block) \in Nat /\ i + 2 \in Nat /\ i + 2 <= Len(block) /\ i + 2 + 2 <= Len(block)
  BY LenProperties
<1>2. Uint16(block, i, little) \in Nat /\ Uint16(block, i + 2, little) \in Nat
  BY <1>1, Uint16Type
<1> QED
  BY <1>2 DEF Uint32

\* The entries with the tag are numbered, and the first of them is the one with the
\* least number.
LEMMA FirstIsLeast ==
  ASSUME NEW block \in Seq(0 .. 255), NEW little \in BOOLEAN
  PROVE  /\ Tagged(block, little) \subseteq Nat
         /\ Tagged(block, little) # {} =>
              /\ FirstTagged(block, little) \in Tagged(block, little)
              /\ \A i \in Tagged(block, little) : FirstTagged(block, little) <= i
         /\ \A i \in Tagged(block, little) :
              (\A k \in Tagged(block, little) : i <= k) => FirstTagged(block, little) = i
<1>1. Tagged(block, little) \subseteq Nat
  BY DEF Tagged
<1>2. ASSUME Tagged(block, little) # {}
      PROVE  /\ FirstTagged(block, little) \in Tagged(block, little)
             /\ \A i \in Tagged(block, little) : FirstTagged(block, little) <= i
  <2>1. \E i \in Tagged(block, little) : \A k \in Tagged(block, little) : i <= k
    BY <1>1, <1>2, LeastElement
  <2> QED
    BY <2>1, Zenon DEF FirstTagged
<1>3. ASSUME NEW i \in Tagged(block, little), \A k \in Tagged(block, little) : i <= k
      PROVE  FirstTagged(block, little) = i
  BY <1>1, <1>2, <1>3
<1> QED
  BY <1>1, <1>2, <1>3

\* The parts of DirectoryTag by name.
LEMMA DirectoryTagMeans ==
  ASSUME NEW block, NEW little
  PROVE  DirectoryTag(block, little) =
           IF /\ Uint16(block, 2, little) = 42
              /\ Uint32(block, 4, little) >= 8
              /\ Uint32(block, 4, little) + 2 <= Len(block)
              /\ Tagged(block, little) # {}
              /\ Uint16(block, Place(block, little, FirstTagged(block, little)) + 2,
                        little) = 3
           THEN Uint16(block, Place(block, little, FirstTagged(block, little)) + 8, little)
           ELSE 1
BY DEF DirectoryTag, FirstTagged, Tagged, Place

\* The first entry with the tag is the one that Tags speaks of.
LEMMA TagsMeans ==
  ASSUME NEW block \in Seq(0 .. 255), NEW v, NEW little \in BOOLEAN, NEW j \in Nat
  PROVE  Tags(block, v, little, j) <=>
           /\ Len(block) >= 8
           /\ SubSeq(block, 1, 2) = ByteOrder(little)
           /\ Uint16(block, 2, little) = 42
           /\ Uint32(block, 4, little) >= 8
           /\ Tagged(block, little) # {}
           /\ j = FirstTagged(block, little)
           /\ Uint16(block, Place(block, little, j) + 2, little) = 3
           /\ Uint16(block, Place(block, little, j) + 8, little) = v
<1> DEFINE ifd == Uint32(block, 4, little)
           count == Uint16(block, ifd, little)
           PlaceOf(i) == Place(block, little, i)
           TagOf(i) == Uint16(block, PlaceOf(i), little)
<1>1. ASSUME Len(block) >= 8
      PROVE  ifd \in Nat
  BY <1>1, Uint32Type, LenProperties
<1>2. ASSUME ifd \in Nat, NEW i \in Nat, PlaceOf(i) + 12 <= Len(block)
      PROVE  /\ PlaceOf(i) \in Nat
             /\ count \in Nat
             /\ \A k \in 0 .. i - 1 : PlaceOf(k) + 12 <= Len(block)
  <2>1. PlaceOf(i) = ifd + 2 + 12 * i
    BY DEF Place
  <2>2. ifd + 2 <= Len(block) /\ PlaceOf(i) \in Nat
    BY <1>2, <2>1, LenProperties
  <2>3. count \in Nat
    BY <1>2, <2>2, Uint16Type
  <2>4. ASSUME NEW k \in 0 .. i - 1
        PROVE  PlaceOf(k) + 12 <= Len(block)
    <3>1. PlaceOf(k) = ifd + 2 + 12 * k
      BY DEF Place
    <3> QED
      BY <1>2, <2>1, <3>1, LenProperties
  <2> QED
    BY <2>2, <2>3, <2>4
<1>3. ASSUME NEW i
      PROVE  i \in Tagged(block, little) <=>
               i \in 0 .. count - 1 /\ PlaceOf(i) + 12 <= Len(block) /\ TagOf(i) = 274
  BY DEF Tagged
<1>4. Tags(block, v, little, j) <=>
        /\ Len(block) >= 8
        /\ SubSeq(block, 1, 2) = ByteOrder(little)
        /\ Uint16(block, 2, little) = 42
        /\ ifd >= 8
        /\ PlaceOf(j) + 12 <= Len(block)
        /\ j < count
        /\ TagOf(j) = 274
        /\ Uint16(block, PlaceOf(j) + 2, little) = 3
        /\ Uint16(block, PlaceOf(j) + 8, little) = v
        /\ \A i \in 0 .. j - 1 : TagOf(i) # 274
  BY DEF Tags, Place
<1> HIDE DEF ifd, count, PlaceOf, TagOf
<1>5. ASSUME ifd \in Nat, PlaceOf(j) + 12 <= Len(block), j < count, TagOf(j) = 274,
             \A i \in 0 .. j - 1 : TagOf(i) # 274
      PROVE  Tagged(block, little) # {} /\ j = FirstTagged(block, little)
  <2>1. count \in Nat
    BY <1>2, <1>5
  <2>2. j \in Tagged(block, little)
    BY <1>3, <1>5, <2>1
  <2>3. ASSUME NEW k \in Tagged(block, little)
        PROVE  j <= k
    <3>1. k \in 0 .. count - 1 /\ TagOf(k) = 274
      BY <1>3
    <3> QED
      BY <1>5, <2>1, <3>1
  <2> QED
    BY <2>2, <2>3, FirstIsLeast
<1>6. ASSUME ifd \in Nat, Tagged(block, little) # {}, j = FirstTagged(block, little)
      PROVE  /\ PlaceOf(j) + 12 <= Len(block) /\ j < count /\ TagOf(j) = 274
             /\ \A i \in 0 .. j - 1 : TagOf(i) # 274
  <2>1. j \in Tagged(block, little) /\ \A k \in Tagged(block, little) : j <= k
    BY <1>6, FirstIsLeast
  <2>2. j \in 0 .. count - 1 /\ PlaceOf(j) + 12 <= Len(block) /\ TagOf(j) = 274
    BY <1>3, <2>1
  <2>3. count \in Nat /\ \A k \in 0 .. j - 1 : PlaceOf(k) + 12 <= Len(block)
    BY <1>2, <1>6, <2>2
  <2>4. ASSUME NEW i \in 0 .. j - 1, TagOf(i) = 274
        PROVE  FALSE
    <3>1. i \in 0 .. count - 1
      BY <2>2, <2>3
    <3>2. i \in Tagged(block, little)
      BY <1>3, <2>3, <2>4, <3>1
    <3> QED
      BY <2>1, <3>2
  <2> QED
    BY <2>2, <2>3, <2>4
<1> QED
  BY <1>1, <1>4, <1>5, <1>6 DEF ifd, PlaceOf

\* ReadOrientation reads what the block declares, in either byte order, with the tag at
\* any place of the directory, and 1 where it declares nothing.
LEMMA DeclaredIsRead ==
  ASSUME NEW block \in Seq(0 .. 255), NEW v, Declares(block, v)
  PROVE  ReadOrientation(block) = v
<1>1. ASSUME NEW u, NEW little \in BOOLEAN, NEW j \in 0 .. Len(block),
             Tags(block, u, little, j)
      PROVE  OrientationTag(block) = u
  <2>1. j \in Nat
    OBVIOUS
  <2>2. /\ Len(block) >= 8
        /\ SubSeq(block, 1, 2) = ByteOrder(little)
        /\ Uint16(block, 2, little) = 42
        /\ Uint32(block, 4, little) >= 8
        /\ Tagged(block, little) # {}
        /\ j = FirstTagged(block, little)
        /\ Uint16(block, Place(block, little, j) + 2, little) = 3
        /\ Uint16(block, Place(block, little, j) + 8, little) = u
    BY <1>1, <2>1, TagsMeans
  <2>3. Uint32(block, 4, little) + 2 <= Len(block)
    <3>1. Uint32(block, 4, little) \in Nat
      BY <2>2, Uint32Type, LenProperties
    <3>2. Place(block, little, j) + 12 <= Len(block)
      BY <2>2, FirstIsLeast DEF Tagged
    <3> QED
      BY <2>1, <3>1, <3>2, LenProperties DEF Place
  <2>4. DirectoryTag(block, little) = u
    BY <2>2, <2>3, DirectoryTagMeans, Zenon
  <2>5. ByteOrder(TRUE) # ByteOrder(FALSE)
    BY DEF ByteOrder
  <2>6. ~(Len(block) < 8)
    BY <2>2, LenProperties
  <2> QED
    BY <2>2, <2>4, <2>5, <2>6, Zenon DEF OrientationTag
<1>2. ASSUME OrientationTag(block) # 1
      PROVE  \E little \in BOOLEAN, j \in 0 .. Len(block) :
               Tags(block, OrientationTag(block), little, j)
  <2>1. PICK little \in BOOLEAN :
          /\ Len(block) >= 8
          /\ SubSeq(block, 1, 2) = ByteOrder(little)
          /\ OrientationTag(block) = DirectoryTag(block, little)
    <3>0. Len(block) \in Nat
      BY LenProperties
    <3>1. ~(Len(block) < 8)
      BY <1>2, Zenon DEF OrientationTag
    <3>2. \/ /\ SubSeq(block, 1, 2) = ByteOrder(TRUE)
             /\ OrientationTag(block) = DirectoryTag(block, TRUE)
          \/ /\ SubSeq(block, 1, 2) = ByteOrder(FALSE)
             /\ OrientationTag(block) = DirectoryTag(block, FALSE)
      BY <1>2, <3>1, Zenon DEF OrientationTag
    <3>3. Len(block) >= 8
      BY <3>0, <3>1
    <3> QED
      BY <3>2, <3>3, Zenon
  <2> DEFINE j == FirstTagged(block, little)
  <2>2. /\ Uint16(block, 2, little) = 42
        /\ Uint32(block, 4, little) >= 8
        /\ Tagged(block, little) # {}
        /\ Uint16(block, Place(block, little, j) + 2, little) = 3
        /\ Uint16(block, Place(block, little, j) + 8, little) = OrientationTag(block)
    BY <1>2, <2>1, DirectoryTagMeans, Zenon
  <2>3. j \in Nat /\ j \in Tagged(block, little)
    BY <2>2, FirstIsLeast
  <2>4. Tags(block, OrientationTag(block), little, j)
    BY <2>1, <2>2, <2>3, TagsMeans
  <2>5. j \in 0 .. Len(block)
    <3>1. Uint32(block, 4, little) \in Nat
      BY <2>1, Uint32Type, LenProperties
    <3>2. Uint32(block, 4, little) + 2 + 12 * j + 12 <= Len(block)
      BY <2>3 DEF Tagged, Place
    <3> HIDE DEF j
    <3> QED
      BY <2>3, <3>1, <3>2, LenProperties
  <2> QED
    BY <2>4, <2>5
<1>3. CASE v \in 1 .. 8 /\ \E little \in BOOLEAN, j \in 0 .. Len(block) :
                            Tags(block, v, little, j)
  BY <1>1, <1>3 DEF ReadOrientation, Declared
<1>4. CASE v = 1 /\ \A u \in 2 .. 8, little \in BOOLEAN, j \in 0 .. Len(block) :
                       ~Tags(block, u, little, j)
  <2>1. OrientationTag(block) \notin 2 .. 8
    BY <1>2, <1>4
  <2> QED
    BY <1>4, <2>1 DEF ReadOrientation, Declared
<1> QED
  BY <1>3, <1>4 DEF Declares

-----------------------------------------------------------------------------
(***************************************************************************)
(* The scan comes to the EXIF segment: it goes from marker to marker as a  *)
(* JPEG is laid out, and stops at the segment or where there is none.      *)
(***************************************************************************)
\* The library's SubSeqOfSubSeq, with parts that may be empty.
LEMMA PartOfPart ==
  ASSUME NEW s \in Seq(0 .. 255), NEW m \in 1 .. Len(s), NEW n \in 0 .. Len(s),
         NEW i \in Nat \ {0}, NEW j \in Nat, m + j <= n + 1
  PROVE  SubSeq(SubSeq(s, m, n), i, j) = SubSeq(s, m + i - 1, m + j - 1)
OBVIOUS

\* What each action of the scan has seen at the place where it is.
LEMMA ScanSees ==
  ASSUME TypeOK
  PROVE  /\ ScanEnds => ~MarkerAt(file.bytes, at)
         /\ SegmentBroken => /\ ~Standalone(file.bytes[at + 2])
                             /\ ~SegmentAt(file.bytes, at)
         /\ SkipStandalone \/ SkipSegment =>
              PassedAt(file.bytes, at) /\ at' = NextAt(file.bytes, at)
         /\ FindExif => /\ ExifAt(file.bytes, at)
                        /\ tiff' = ExifBlock(file.bytes, at)
<1> DEFINE b == file.bytes
           L == SegmentLength
<1>1. b \in Seq(0 .. 255) /\ at \in Nat /\ Len(b) \in Nat
  BY FileType, LenProperties DEF TypeOK
<1>2. /\ Byte(at) = b[at + 1] /\ Byte(at + 1) = b[at + 2]
      /\ Byte(at + 2) = b[at + 3] /\ Byte(at + 3) = b[at + 4]
  BY <1>1 DEF Byte
<1>3. SegmentEnd(b, at) = at + 2 + L
  BY <1>1, <1>2 DEF SegmentEnd, SegmentLength, Uint16
<1>4. MoreSegments => L \in Nat
  BY ScanBytes
<1>5. MarkerAt(b, at) <=> MoreSegments /\ Byte(at) = 255 /\ Byte(at + 1) # 218
  BY <1>2 DEF MarkerAt, MoreSegments
<1> HIDE DEF b, L
<1>6. SegmentAt(b, at) <=> MarkerAt(b, at) /\ ~Standalone(Byte(at + 1)) /\ SegmentFits
  BY <1>1, <1>2, <1>3, <1>4, <1>5 DEF SegmentAt, SegmentFits, b, L
<1>7. ASSUME SegmentAt(b, at)
      PROVE  /\ HasExif <=> ExifAt(b, at)
             /\ HasExif => SubSeq(Payload, 7, Len(Payload)) = ExifBlock(b, at)
  <2>1. L \in Nat /\ L >= 2 /\ at + 2 + L <= Len(b) /\ at + 4 <= Len(b)
    BY <1>4, <1>5, <1>6, <1>7 DEF SegmentFits, MoreSegments, b, L
  <2>2. Payload = SubSeq(b, at + 5, at + 2 + L)
    BY DEF Payload, b, L
  <2>3. Len(Payload) = L - 2
    BY <1>1, <2>1, <2>2
  <2>4. ASSUME L >= 8
        PROVE  /\ SubSeq(Payload, 1, 6) = SubSeq(b, at + 5, at + 10)
               /\ SubSeq(Payload, 7, Len(Payload)) = SubSeq(b, at + 11, at + 2 + L)
    <3>1. at + 5 \in 1 .. Len(b) /\ at + 2 + L \in 0 .. Len(b) /\ L - 2 \in Nat
      BY <1>1, <2>1, <2>4
    <3>2. SubSeq(Payload, 1, 6) = SubSeq(b, at + 5 + 1 - 1, at + 5 + 6 - 1)
      BY <1>1, <2>1, <2>2, <2>4, <3>1, PartOfPart
    <3>3. SubSeq(Payload, 7, L - 2) = SubSeq(b, at + 5 + 7 - 1, at + 5 + (L - 2) - 1)
      BY <1>1, <2>1, <2>2, <2>4, <3>1, PartOfPart
    <3>4. /\ at + 5 + 1 - 1 = at + 5 /\ at + 5 + 6 - 1 = at + 10
          /\ at + 5 + 7 - 1 = at + 11 /\ at + 5 + (L - 2) - 1 = at + 2 + L
      BY <1>1, <2>1
    <3> QED
      BY <2>3, <3>2, <3>3, <3>4
  <2>5. (at + 10 <= at + 2 + L <=> L >= 8) /\ (Len(Payload) >= 6 <=> L >= 8)
    BY <1>1, <2>1, <2>3
  <2> QED
    BY <1>2, <1>3, <1>7, <2>4, <2>5 DEF HasExif, ExifAt, ExifBlock
<1>8. ASSUME ScanEnds
      PROVE  ~MarkerAt(b, at)
  BY <1>5, <1>8 DEF ScanEnds
<1>9. ASSUME SegmentBroken
      PROVE  ~Standalone(b[at + 2]) /\ ~SegmentAt(b, at)
  BY <1>2, <1>6, <1>9 DEF SegmentBroken, AtSegment, b
<1>10. ASSUME SkipStandalone
       PROVE  PassedAt(b, at) /\ at' = NextAt(b, at)
  <2>1. Standalone(b[at + 2]) /\ b[at + 2] # 218 /\ at' = at + 2
    BY <1>2, <1>10 DEF SkipStandalone, Standalone, b
  <2>2. MarkerAt(b, at)
    BY <1>2, <1>5, <1>10, <2>1 DEF SkipStandalone, b
  <2> QED
    BY <2>1, <2>2 DEF PassedAt, NextAt
<1>11. ASSUME AtSegment, SegmentFits
       PROVE  SegmentAt(b, at) /\ MarkerAt(b, at) /\ ~Standalone(b[at + 2])
  BY <1>2, <1>5, <1>6, <1>11 DEF AtSegment, b
<1>12. ASSUME SkipSegment
       PROVE  PassedAt(b, at) /\ at' = NextAt(b, at)
  <2>1. at' = at + 2 + L /\ ~HasExif
    BY <1>12 DEF SkipSegment, L
  <2> QED
    BY <1>3, <1>7, <1>11, <1>12, <2>1 DEF SkipSegment, PassedAt, NextAt
<1>13. ASSUME FindExif
       PROVE  ExifAt(b, at) /\ tiff' = ExifBlock(b, at)
  BY <1>7, <1>11, <1>13 DEF FindExif
<1> QED
  BY <1>8, <1>9, <1>10, <1>12, <1>13 DEF b

\* How far the scan of a file with an EXIF segment at p has come.
OnTheWay(S, p) ==
  /\ step = "scan" => at \in S
  /\ step = "orient" => tiff = ExifBlock(file.bytes, p)
  /\ step \in {"render", "done"} /\ error = "none" => orientation = file.declared

\* How far the scan of a file without one has come.
Astray(S) ==
  /\ step = "scan" => file.format = "jpeg" /\ at \in S
  /\ step \in {"header", "decode", "scan", "orient"} => tiff = <<>>
  /\ step \in {"render", "done"} /\ error = "none" => orientation = file.declared

ScanInv(S, p) ==
  /\ TaggedBy(file, S, p) => OnTheWay(S, p)
  /\ UntaggedBy(file, S) => Astray(S)

\* Outside the scan, and but for the step that applies it, the orientation is kept.
LEMMA OtherSteps ==
  ASSUME IInv, NEW S \in SUBSET Nat, NEW p \in Nat, ScanInv(S, p),
         \/ RefuseHeader \/ AcceptHeader \/ DecodeFails \/ Render \/ Return
         \/ UNCHANGED vars
  PROVE  ScanInv(S, p)'
<1>1. file' = file /\ at' = at /\ tiff' = tiff /\ orientation' = orientation
  BY DEF RefuseHeader, AcceptHeader, DecodeFails, Render, Return, Fail, vars
<1>2. step' \in {"scan", "orient"} => step' = step
  BY DEF RefuseHeader, AcceptHeader, DecodeFails, Render, Return, Fail, vars
<1>3. step' \in {"header", "decode"} => step \in {"header", "decode"}
  BY DEF RefuseHeader, AcceptHeader, DecodeFails, Render, Return, Fail, vars
<1>4. step' \in {"render", "done"} /\ error' = "none" =>
        step \in {"render", "done"} /\ error = "none"
  BY DEF RefuseHeader, AcceptHeader, DecodeFails, Render, Return, Fail, vars
<1>5. OnTheWay(S, p) => OnTheWay(S, p)'
  BY <1>1, <1>2, <1>4 DEF OnTheWay
<1>6. Astray(S) => Astray(S)'
  BY <1>1, <1>2, <1>3, <1>4 DEF Astray
<1> QED
  BY <1>1, <1>5, <1>6 DEF ScanInv

LEMMA DecodeFinds ==
  ASSUME IInv, NEW S \in SUBSET Nat, NEW p \in Nat, ScanInv(S, p), Decode
  PROVE  ScanInv(S, p)'
<1>1. /\ file' = file /\ tiff' = tiff /\ orientation' = orientation
      /\ step = "decode" /\ orientation = 1
  BY DEF Decode, IInv, Fitted
<1>2. /\ file.format # "jpeg" => step' = "render"
      /\ file.format = "jpeg" =>
           \/ step' = "scan" /\ at' = 2
           \/ /\ step' = "orient"
              /\ ~(Len(file.bytes) >= 4 /\ SubSeq(file.bytes, 1, 2) = <<255, 216>>)
  BY DEF Decode
<1>3. ASSUME TaggedBy(file, S, p)
      PROVE  OnTheWay(S, p)'
  <2>1. 2 \in S /\ file.format = "jpeg" /\ SubSeq(file.bytes, 1, 2) = <<255, 216>>
    BY <1>3 DEF TaggedBy
  <2>2. MarkerAt(file.bytes, 2)
    BY <1>3, <2>1 DEF TaggedBy, PassedAt, ExifAt, SegmentAt
  <2>3. Len(file.bytes) >= 4
    <3>1. Len(file.bytes) \in Nat
      BY FileType, LenProperties DEF IInv, TypeOK
    <3> QED
      BY <2>2, <3>1 DEF MarkerAt
  <2> QED
    BY <1>1, <1>2, <2>1, <2>3 DEF OnTheWay
<1>4. ASSUME UntaggedBy(file, S)
      PROVE  Astray(S)'
  <2>1. tiff = <<>> /\ file.declared = 1 /\ (file.format = "jpeg" => 2 \in S)
    BY <1>1, <1>4 DEF ScanInv, Astray, UntaggedBy
  <2> QED
    BY <1>1, <1>2, <2>1 DEF Astray
<1> QED
  BY <1>1, <1>3, <1>4 DEF ScanInv

LEMMA ScanFinds ==
  ASSUME IInv, NEW S \in SUBSET Nat, NEW p \in Nat, ScanInv(S, p),
         ScanEnds \/ SkipStandalone \/ SegmentBroken \/ FindExif \/ SkipSegment
  PROVE  ScanInv(S, p)'
<1> DEFINE b == file.bytes
<1>1. /\ file' = file /\ orientation' = orientation
      /\ step = "scan" /\ step' \in {"scan", "orient"}
  BY DEF ScanEnds, SkipStandalone, SegmentBroken, FindExif, SkipSegment, AtSegment
<1>2. /\ ScanEnds => ~MarkerAt(b, at)
      /\ SegmentBroken => ~Standalone(b[at + 2]) /\ ~SegmentAt(b, at)
      /\ SkipStandalone \/ SkipSegment => PassedAt(b, at) /\ at' = NextAt(b, at)
      /\ FindExif => ExifAt(b, at) /\ tiff' = ExifBlock(b, at)
  BY ScanSees DEF IInv
<1>3. /\ ScanEnds \/ SegmentBroken => step' = "orient" /\ tiff' = tiff
      /\ SkipStandalone \/ SkipSegment => step' = "scan" /\ tiff' = tiff
      /\ FindExif => step' = "orient"
  BY <1>1 DEF ScanEnds, SegmentBroken, SkipStandalone, SkipSegment, FindExif
<1>4. PassedAt(b, at) => MarkerAt(b, at) /\ ~ExifAt(b, at)
  BY DEF PassedAt, ExifAt, SegmentAt
<1>5. ExifAt(b, at) => MarkerAt(b, at) /\ SegmentAt(b, at)
  BY DEF ExifAt, SegmentAt
<1>6. PassedAt(b, at) => Standalone(b[at + 2]) \/ SegmentAt(b, at)
  BY DEF PassedAt
<1>7. ASSUME TaggedBy(file, S, p)
      PROVE  OnTheWay(S, p)'
  <2>1. at \in S
    BY <1>1, <1>7 DEF ScanInv, OnTheWay
  <2>2. ExifAt(b, p) /\ (at # p => PassedAt(b, at) /\ NextAt(b, at) \in S)
    BY <1>7, <2>1 DEF TaggedBy
  <2>3. ~ScanEnds /\ ~SegmentBroken
    BY <1>2, <1>4, <1>5, <1>6, <2>2
  <2>4. FindExif => tiff' = ExifBlock(b, p)
    BY <1>2, <1>4, <2>2
  <2>5. SkipStandalone \/ SkipSegment => at' \in S
    BY <1>2, <1>4, <2>2
  <2> QED
    BY <1>1, <1>3, <2>3, <2>4, <2>5 DEF OnTheWay
<1>8. ASSUME UntaggedBy(file, S)
      PROVE  Astray(S)'
  <2>1. file.format = "jpeg" /\ at \in S /\ tiff = <<>>
    BY <1>1, <1>8 DEF ScanInv, Astray
  <2>2. ~ExifAt(b, at) /\ (PassedAt(b, at) => NextAt(b, at) \in S)
    BY <1>8, <2>1 DEF UntaggedBy
  <2>3. ~FindExif
    BY <1>2, <2>2
  <2> QED
    BY <1>1, <1>2, <1>3, <2>1, <2>2, <2>3 DEF Astray
<1> QED
  BY <1>1, <1>7, <1>8 DEF ScanInv

\* Of a file without a block the orientation is 1.
LEMMA NoBlock == ReadOrientation(<<>>) = 1
<1>1. Len(<<>>) = 0
  OBVIOUS
<1>2. OrientationTag(<<>>) = 1
  BY <1>1 DEF OrientationTag
<1> QED
  BY <1>2 DEF ReadOrientation, Declared

LEMMA OrientApplies ==
  ASSUME IInv, NEW S \in SUBSET Nat, NEW p \in Nat, ScanInv(S, p), Orient
  PROVE  ScanInv(S, p)'
<1>1. /\ file' = file /\ step = "orient" /\ step' = "render"
      /\ orientation' = ReadOrientation(tiff) /\ tiff \in Seq(0 .. 255)
  BY DEF Orient, IInv, TypeOK
<1>2. ASSUME TaggedBy(file, S, p)
      PROVE  orientation' = file.declared
  <2>1. Declares(tiff, file.declared)
    BY <1>1, <1>2 DEF ScanInv, OnTheWay, TaggedBy
  <2> QED
    BY <1>1, <2>1, DeclaredIsRead
<1>3. ASSUME UntaggedBy(file, S)
      PROVE  orientation' = file.declared
  <2>1. tiff = <<>> /\ file.declared = 1
    BY <1>1, <1>3 DEF ScanInv, Astray, UntaggedBy
  <2> QED
    BY <1>1, <2>1, NoBlock
<1> QED
  BY <1>1, <1>2, <1>3 DEF ScanInv, OnTheWay, Astray

Scanned == \A S \in SUBSET Nat, p \in Nat : ScanInv(S, p)

LEMMA InitScanned == Init => Scanned
BY DEF Init, Scanned, ScanInv, OnTheWay, Astray

LEMMA NextScanned == IInv /\ Scanned /\ [Next]_vars => Scanned'
<1> SUFFICES ASSUME IInv, [Next]_vars, NEW S \in SUBSET Nat, NEW p \in Nat, ScanInv(S, p)
             PROVE  ScanInv(S, p)'
  BY DEF Scanned
<1> QED
  BY OtherSteps, DecodeFinds, ScanFinds, OrientApplies DEF Next

\* The camera's photograph comes out upright: for every file whose bytes declare its
\* orientation as the standards have it - behind any number of segments and markers, in
\* either byte order, at any place of the directory - or that is no JPEG or has no EXIF
\* segment, Prepare reads that orientation and applies it.
THEOREM PhotographsAreUpright == Spec => [](AsDeclared(file) => PhotographIsUpright)
<1>1. IInv /\ Scanned /\ AsDeclared(file) => PhotographIsUpright
  <2> SUFFICES ASSUME IInv, Scanned, AsDeclared(file),
                      step \in {"render", "done"}, error = "none"
               PROVE  PhotographIsUpright
    BY DEF PhotographIsUpright
  <2>1. PICK S \in SUBSET Nat : UntaggedBy(file, S) \/ \E p \in Nat : TaggedBy(file, S, p)
    BY DEF AsDeclared
  <2>2. orientation = file.declared
    <3>1. CASE UntaggedBy(file, S)
      BY <3>1 DEF Scanned, ScanInv, Astray
    <3>2. CASE \E p \in Nat : TaggedBy(file, S, p)
      BY <3>2 DEF Scanned, ScanInv, OnTheWay
    <3> QED
      BY <2>1, <3>1, <3>2
  <2> QED
    BY <2>2, UprightOnce
<1> QED
  BY <1>1, Invariance, InitScanned, NextScanned, PTL DEF Spec

-----------------------------------------------------------------------------
(***************************************************************************)
(* Prepare ends.  PrepareReturns needs fairness and stays with the model   *)
(* checker; that no file can keep the scan going, because each segment it  *)
(* skips is at least its marker long, is a matter of safety.               *)
(***************************************************************************)

\* Bytes the scan has yet to see, and renditions to be made.
BytesLeft == Len(file.bytes) - at
EdgesLeft == Len(Edges) - Len(renditions)

\* The most steps Prepare may still take.
StepsLeft ==
  CASE step = "header" -> Len(file.bytes) + EdgesLeft + 5
    [] step = "decode" -> Len(file.bytes) + EdgesLeft + 4
    [] step = "scan"   -> BytesLeft + EdgesLeft + 3
    [] step = "orient" -> EdgesLeft + 2
    [] step = "render" -> EdgesLeft + 1
    [] OTHER           -> 0

LEMMA LeftType ==
  ASSUME IInv
  PROVE  /\ BytesLeft \in Nat /\ EdgesLeft \in Nat
         /\ BytesLeft <= Len(file.bytes) /\ Len(file.bytes) \in Nat
         /\ EdgesLeft <= Len(Edges) /\ Len(Edges) \in Nat
<1>1. Len(file.bytes) \in Nat /\ Len(Edges) \in Nat /\ Len(renditions) \in Nat
  BY FileType, ImagingAssumption, LenProperties DEF IInv, TypeOK
<1>2. at \in 0 .. Len(file.bytes) /\ Len(renditions) <= Len(Edges)
  BY DEF IInv, TypeOK
<1>3. \A m, n \in Nat : n <= m => m - n \in Nat /\ m - n <= m
  OBVIOUS
<1>4. at \in Nat /\ at <= Len(file.bytes)
  BY <1>1, <1>2
<1> QED
  BY <1>1, <1>2, <1>3, <1>4, Zenon DEF BytesLeft, EdgesLeft

\* Each step leaves fewer, whatever the bytes of the file.
THEOREM PrepareTakesFewSteps ==
  Spec => /\ [](StepsLeft \in 0 .. Len(file.bytes) + Len(Edges) + 5)
          /\ [][StepsLeft' < StepsLeft]_vars
<1>1. IInv => StepsLeft \in 0 .. Len(file.bytes) + Len(Edges) + 5
  <2> SUFFICES ASSUME IInv
               PROVE  StepsLeft \in 0 .. Len(file.bytes) + Len(Edges) + 5
    OBVIOUS
  <2> DEFINE m == Len(file.bytes)
             n == Len(Edges)
  <2>1. /\ BytesLeft \in 0 .. m /\ m \in Nat
        /\ EdgesLeft \in 0 .. n /\ n \in Nat
    BY LeftType
  <2>2. StepsLeft \in {m + EdgesLeft + 5, m + EdgesLeft + 4, BytesLeft + EdgesLeft + 3,
                       EdgesLeft + 2, EdgesLeft + 1, 0}
    BY DEF StepsLeft
  <2> HIDE DEF m, n
  <2>3. StepsLeft \in 0 .. m + n + 5
    BY <2>1, <2>2
  <2> QED
    BY <2>3 DEF m, n
<1>2. IInv /\ IInv' /\ [Next]_vars => [StepsLeft' < StepsLeft]_vars
  <2> SUFFICES ASSUME IInv, IInv', Next
               PROVE  StepsLeft' < StepsLeft
    OBVIOUS
  <2>1. BytesLeft \in Nat /\ EdgesLeft \in Nat /\ step \in Steps
    BY LeftType DEF IInv, TypeOK
  <2>2. ASSUME UNCHANGED renditions
        PROVE  EdgesLeft' = EdgesLeft
    BY <2>2 DEF EdgesLeft
  <2>3. ASSUME UNCHANGED <<file, at>>
        PROVE  BytesLeft' = BytesLeft
    BY <2>3 DEF BytesLeft
  <2>4. ASSUME step # "done", step' = "done"
        PROVE  StepsLeft' < StepsLeft
    BY <2>1, <2>4 DEF StepsLeft, Steps
  <2>5. CASE RefuseHeader \/ DecodeFails \/ Return
    BY <2>4, <2>5 DEF RefuseHeader, DecodeFails, Return, Fail
  <2>6. CASE AcceptHeader
    BY <2>1, <2>2, <2>3, <2>6 DEF AcceptHeader, StepsLeft
  <2>7. CASE Decode
    <3>1. EdgesLeft' = EdgesLeft /\ file' = file /\ step = "decode"
      BY <2>2, <2>7 DEF Decode
    <3>2. CASE UNCHANGED at /\ step' \in {"render", "orient"}
      BY <2>1, <3>1, <3>2 DEF StepsLeft
    <3>3. CASE step' = "scan" /\ at' = 2
      <4>1. BytesLeft' \in Nat
        <5>1. at' \in 0 .. Len(file.bytes)
          BY <3>1 DEF IInv, TypeOK
        <5> QED
          BY <3>1, <5>1, FileType, LenProperties DEF BytesLeft, IInv, TypeOK
      <4>2. BytesLeft' <= Len(file.bytes)
        <5>1. Len(file.bytes) \in Nat
          BY LeftType
        <5> QED
          BY <3>1, <3>3, <5>1 DEF BytesLeft
      <4> QED
        BY <2>1, <3>1, <3>3, <4>1, <4>2 DEF StepsLeft
    <3> QED
      BY <2>7, <3>2, <3>3 DEF Decode
  <2>8. CASE ScanEnds \/ SegmentBroken \/ FindExif
    <3>1. EdgesLeft' = EdgesLeft /\ step = "scan" /\ step' = "orient"
      BY <2>2, <2>8 DEF ScanEnds, SegmentBroken, FindExif, AtSegment
    <3> QED
      BY <2>1, <3>1 DEF StepsLeft
  <2>9. ASSUME NEW n \in Nat \ {0}, at' = at + n, file' = file, step = "scan",
               step' = "scan", EdgesLeft' = EdgesLeft
        PROVE  StepsLeft' < StepsLeft
    <3>1. BytesLeft' = BytesLeft - n
      <4>1. at \in Nat /\ Len(file.bytes) \in Nat
        BY LeftType DEF IInv, TypeOK
      <4> QED
        BY <2>9, <4>1 DEF BytesLeft
    <3> QED
      BY <2>1, <2>9, <3>1 DEF StepsLeft
  <2>10. CASE SkipStandalone
    BY <2>2, <2>9, <2>10 DEF SkipStandalone
  <2>11. CASE SkipSegment
    <3>1. SegmentLength \in Nat
      BY <2>11, ScanBytes DEF IInv, SkipSegment, AtSegment
    <3>2. 2 + SegmentLength \in Nat \ {0} /\ at' = at + (2 + SegmentLength)
      <4>1. at \in Nat
        BY LeftType DEF IInv, TypeOK
      <4> QED
        BY <2>11, <3>1, <4>1 DEF SkipSegment
    <3> QED
      BY <2>2, <2>9, <2>11, <3>2 DEF SkipSegment, AtSegment
  <2>12. CASE Orient
    BY <2>1, <2>2, <2>12 DEF Orient, StepsLeft
  <2>13. CASE Render
    <3>1. Len(renditions') = Len(renditions) + 1
      BY <2>13, AppendProperties DEF Render, IInv, TypeOK
    <3>2. Len(renditions) \in Nat /\ Len(Edges) \in Nat
      BY ImagingAssumption, LenProperties DEF IInv, TypeOK
    <3>3. EdgesLeft' = EdgesLeft - 1 /\ step = "render" /\ step' = "render"
      BY <2>13, <3>1, <3>2 DEF EdgesLeft, Render
    <3> QED
      BY <2>1, <3>3 DEF StepsLeft
  <2> QED
    BY <2>5, <2>6, <2>7, <2>8, <2>10, <2>11, <2>12, <2>13 DEF Next
<1> QED
  BY <1>1, <1>2, Invariance, PTL DEF Spec
=============================================================================
