--------------------------- MODULE RenditionProofs ---------------------------
(***************************************************************************)
(* What the two loops over a body's renditions compute (validRenditions    *)
(* and smallestRendition of nathejk/table/photo/table.go), for a body with *)
(* any number of renditions of any sizes.  Each loop is a recursive        *)
(* function in Projection: it is shown to exist, and what it computes by   *)
(* induction over the rounds of the loop.  What the rows' thumbnail column *)
(* holds follows.                                                          *)
(***************************************************************************)
EXTENDS ProjectionProofs, Loops

-----------------------------------------------------------------------------
(***************************************************************************)
(* validRenditions keeps the renditions with a usable ref, and no others.  *)
(***************************************************************************)
Elements(s) == {s[i] : i \in DOMAIN s}

LEMMA ElementsOfAppend ==
  ASSUME NEW s \in Seq(Rendition), NEW r \in Rendition
  PROVE  /\ Append(s, r) \in Seq(Rendition)
         /\ Elements(Append(s, r)) = Elements(s) \cup {r}
<1> DEFINE a == Append(s, r)
<1>1. /\ a \in Seq(Rendition)
      /\ DOMAIN s = 1 .. Len(s) /\ Len(s) \in Nat
      /\ DOMAIN a = 1 .. Len(s) + 1
      /\ \A i \in 1 .. Len(s) : a[i] = s[i]
      /\ a[Len(s) + 1] = r
  OBVIOUS
<1> HIDE DEF a
<1>2. Elements(a) \subseteq Elements(s) \cup {r}
  <2> SUFFICES ASSUME NEW i \in 1 .. Len(s) + 1
               PROVE  a[i] \in Elements(s) \cup {r}
    BY <1>1 DEF Elements
  <2>1. i \in 1 .. Len(s) \/ i = Len(s) + 1
    BY <1>1
  <2> QED
    BY <1>1, <2>1 DEF Elements
<1>3. Elements(s) \cup {r} \subseteq Elements(a)
  <2>1. Len(s) + 1 \in DOMAIN a /\ 1 .. Len(s) \subseteq DOMAIN a
    BY <1>1
  <2> QED
    BY <1>1, <2>1 DEF Elements
<1> QED
  BY <1>1, <1>2, <1>3 DEF a

\* The loop over the renditions of v, round by round.
KeepsValid(g, rs) ==
  g = [i \in 0 .. Len(rs) |->
         IF i = 0 THEN <<>>
         ELSE IF rs[i].ref = BadRef THEN g[i - 1]
         ELSE Append(g[i - 1], rs[i])]

LEMMA ValidRenditionsLoop ==
  ASSUME NEW v, v.renditions \in Seq(Rendition)
  PROVE  \E g : KeepsValid(g, v.renditions)
                /\ validRenditions(v) = g[Len(v.renditions)]
<1> DEFINE rs == v.renditions
           n == Len(rs)
           F == [p \in Seq(Rendition) \X (1 .. n) |->
                   IF rs[p[2]].ref = BadRef THEN p[1] ELSE Append(p[1], rs[p[2]])]
<1>1. n \in Nat /\ \A i \in 1 .. n : rs[i] \in Rendition
  OBVIOUS
<1>2. F \in [Seq(Rendition) \X (1 .. n) -> Seq(Rendition)]
  <2> SUFFICES ASSUME NEW p \in Seq(Rendition) \X (1 .. n)
               PROVE  /\ p[1] \in Seq(Rendition)
                      /\ Append(p[1], rs[p[2]]) \in Seq(Rendition)
    OBVIOUS
  <2>1. p[1] \in Seq(Rendition) /\ rs[p[2]] \in Rendition
    BY <1>1
  <2> QED
    BY <2>1
<1>3. PICK h \in [0 .. n -> Seq(Rendition)] :
        Rounds(h, <<>>, F, n)
  <2> DEFINE S == Seq(Rendition)
             base == <<>>
  <2>1. base \in S
    OBVIOUS
  <2>3. F \in [S \X (1 .. n) -> S]
    BY <1>2
  <2> HIDE DEF F, n, S, base
  <2>2. \E h \in [0 .. n -> S] : Rounds(h, base, F, n)
    BY <1>1, <2>1, <2>3, LoopExists
  <2> QED
    BY <2>2 DEF S, base
<1>4. ASSUME NEW i \in 1 .. n
      PROVE  h[i] = IF rs[i].ref = BadRef THEN h[i - 1] ELSE Append(h[i - 1], rs[i])
  <2>0. i - 1 \in 0 .. n
    BY <1>1
  <2> HIDE DEF F, n
  <2>1. h[i - 1] \in Seq(Rendition) /\ h[i] = F[<<h[i - 1], i>>]
    BY <1>3, <2>0 DEF Rounds
  <2>2. <<h[i - 1], i>> \in Seq(Rendition) \X (1 .. n)
    BY <2>1
  <2> QED
    BY <2>1, <2>2 DEF F
<1>5. KeepsValid(h, rs)
  <2>1. \A i \in 0 .. n :
          h[i] = IF i = 0 THEN <<>>
                 ELSE IF rs[i].ref = BadRef THEN h[i - 1]
                 ELSE Append(h[i - 1], rs[i])
    BY <1>1, <1>3, <1>4 DEF Rounds
  <2>2. h = [i \in 0 .. n |-> h[i]]
    BY <1>3
  <2> HIDE DEF F, rs
  <2> QED
    BY <2>1, <2>2, Zenon DEF KeepsValid
<1> DEFINE g == CHOOSE f : KeepsValid(f, rs)
<1>6. KeepsValid(g, rs)
  BY <1>5
<1>7. validRenditions(v) = g[n]
  BY DEF validRenditions, KeepsValid
<1> QED
  BY <1>6, <1>7

\* A rendition is kept exactly if its ref is a content hash, whatever the others are.
LEMMA ValidRenditionsMeans ==
  ASSUME NEW v, v.renditions \in Seq(Rendition)
  PROVE  /\ validRenditions(v) \in Seq(Rendition)
         /\ Elements(validRenditions(v)) =
              {r \in Elements(v.renditions) : r.ref # BadRef}
<1> DEFINE rs == v.renditions
           n == Len(rs)
<1>1. PICK g : KeepsValid(g, rs) /\ validRenditions(v) = g[n]
  BY ValidRenditionsLoop
<1>2. n \in Nat /\ \A i \in 1 .. n : rs[i] \in Rendition
  OBVIOUS
<1>3. /\ g[0] = <<>>
      /\ \A i \in 1 .. n :
           g[i] = IF rs[i].ref = BadRef THEN g[i - 1] ELSE Append(g[i - 1], rs[i])
  <2>1. \A i \in 0 .. n :
          g[i] = IF i = 0 THEN <<>>
                 ELSE IF rs[i].ref = BadRef THEN g[i - 1]
                 ELSE Append(g[i - 1], rs[i])
    BY <1>1, Zenon DEF KeepsValid
  <2>2. 0 \in 0 .. n /\ \A i \in 1 .. n : i \in 0 .. n /\ i # 0
    BY <1>2
  <2> HIDE DEF rs, n
  <2> QED
    BY <2>1, <2>2
<1> DEFINE UsableUpTo(i) == {rs[j] : j \in {k \in 1 .. i : rs[k].ref # BadRef}}
           T == {i \in 0 .. n :
                   g[i] \in Seq(Rendition) /\ Elements(g[i]) = UsableUpTo(i)}
<1> HIDE DEF rs
<1>4. 0 \in T
  <2>1. Elements(<<>>) = {} /\ <<>> \in Seq(Rendition)
    BY DEF Elements
  <2>2. UsableUpTo(0) = {}
    OBVIOUS
  <2>3. g[0] \in Seq(Rendition) /\ Elements(g[0]) = UsableUpTo(0)
    BY <1>3, <2>1, <2>2
  <2> HIDE DEF Usable
  <2> QED
    BY <1>2, <2>3
<1>5. ASSUME NEW i \in 1 .. n, i - 1 \in T
      PROVE  i \in T
  <2>1. g[i - 1] \in Seq(Rendition) /\ Elements(g[i - 1]) = UsableUpTo(i - 1)
    BY <1>5
  <2>2. CASE rs[i].ref = BadRef
    <3>1. UsableUpTo(i) = UsableUpTo(i - 1)
      BY <1>2, <2>2
    <3> QED
      BY <1>3, <2>1, <2>2, <3>1
  <2>3. CASE rs[i].ref # BadRef
    <3> DEFINE s == g[i - 1]
    <3>1. g[i] = Append(s, rs[i])
      BY <1>3, <2>3
    <3>2. UsableUpTo(i) = UsableUpTo(i - 1) \cup {rs[i]}
      BY <1>2, <2>3
    <3>3. rs[i] \in Rendition /\ s \in Seq(Rendition)
      BY <1>2, <2>1
    <3>4. /\ Append(s, rs[i]) \in Seq(Rendition)
          /\ Elements(Append(s, rs[i])) = Elements(s) \cup {rs[i]}
      BY <3>3, ElementsOfAppend
    <3>5. g[i] \in Seq(Rendition) /\ Elements(g[i]) = UsableUpTo(i)
      BY <2>1, <3>1, <3>2, <3>4
    <3> HIDE DEF Usable
    <3> QED
      BY <1>2, <3>5
  <2> QED
    BY <2>2, <2>3
<1>6. n \in T
  <2>1. 0 .. n \subseteq T
    <3> HIDE DEF T, n
    <3> QED
      BY <1>2, <1>4, <1>5, BoundedInduction
  <2> HIDE DEF T
  <2> QED
    BY <1>2, <2>1
<1>7. UsableUpTo(n) = {r \in Elements(rs) : r.ref # BadRef}
  BY <1>2 DEF Elements, rs
<1> QED
  BY <1>1, <1>6, <1>7 DEF rs

-----------------------------------------------------------------------------
(***************************************************************************)
(* smallestRendition returns one of the renditions it is given, with the   *)
(* least of the edges that are known.                                      *)
(***************************************************************************)

\* The better of the best so far and the next one.
Better(best, r) ==
  IF best.edge = 0 \/ (r.edge > 0 /\ r.edge < best.edge) THEN r ELSE best

\* The loop over rs, round by round.
TakesBest(g, rs) ==
  g = [i \in DOMAIN rs |-> IF i = 1 THEN rs[1] ELSE Better(g[i - 1], rs[i])]

LEMMA SmallestRenditionLoop ==
  ASSUME NEW rs \in Seq(Rendition), rs # <<>>
  PROVE  \E g : TakesBest(g, rs) /\ smallestRendition(rs) = g[Len(rs)]
<1> DEFINE n == Len(rs)
           F == [p \in Rendition \X (1 .. n) |->
                   IF p[2] = 1 THEN rs[1] ELSE Better(p[1], rs[p[2]])]
<1>1. /\ n \in Nat /\ DOMAIN rs = 1 .. n /\ rs[1] \in Rendition
      /\ \A i \in 1 .. n : rs[i] \in Rendition
  OBVIOUS
<1>2. F \in [Rendition \X (1 .. n) -> Rendition]
  BY <1>1 DEF Better
<1>3. PICK h \in [0 .. n -> Rendition] : Rounds(h, rs[1], F, n)
  <2> HIDE DEF F, n
  <2> QED
    BY <1>1, <1>2, LoopExists
<1> DEFINE best == [i \in 1 .. n |-> h[i]]
<1>4. ASSUME NEW i \in 1 .. n
      PROVE  best[i] = IF i = 1 THEN rs[1] ELSE Better(best[i - 1], rs[i])
  <2>0. i - 1 \in 0 .. n /\ (i # 1 => i - 1 \in 1 .. n)
    BY <1>1
  <2> HIDE DEF F, n
  <2>1. h[i - 1] \in Rendition /\ h[i] = F[<<h[i - 1], i>>]
    BY <1>3, <2>0 DEF Rounds
  <2>2. <<h[i - 1], i>> \in Rendition \X (1 .. n)
    BY <2>1
  <2>3. h[i] = IF i = 1 THEN rs[1] ELSE Better(h[i - 1], rs[i])
    BY <2>1, <2>2 DEF F
  <2> QED
    BY <2>0, <2>3
<1>5. TakesBest(best, rs)
  <2>1. best = [i \in 1 .. n |-> best[i]]
    OBVIOUS
  <2> HIDE DEF best, n
  <2> QED
    BY <1>1, <1>4, <2>1, Zenon DEF TakesBest
<1> DEFINE g == CHOOSE f : TakesBest(f, rs)
<1>6. TakesBest(g, rs)
  BY <1>5
<1>7. smallestRendition(rs) = g[n]
  BY DEF smallestRendition, TakesBest, Better
<1> QED
  BY <1>6, <1>7

\* An unknown size never beats a known one, wherever in the list it comes.
LEMMA SmallestRenditionMeans ==
  ASSUME NEW rs \in Seq(Rendition), rs # <<>>
  PROVE  /\ smallestRendition(rs) \in Elements(rs)
         /\ \A r \in Elements(rs) :
              r.edge > 0 => smallestRendition(rs).edge \in 1 .. r.edge
<1> DEFINE n == Len(rs)
<1>1. /\ n \in Nat \ {0} /\ DOMAIN rs = 1 .. n
      /\ \A i \in 1 .. n : rs[i] \in Rendition
  OBVIOUS
<1>2. PICK g : TakesBest(g, rs) /\ smallestRendition(rs) = g[n]
  BY SmallestRenditionLoop
<1>3. \A i \in 1 .. n : g[i] = IF i = 1 THEN rs[1] ELSE Better(g[i - 1], rs[i])
  <2> HIDE DEF n
  <2> QED
    BY <1>1, <1>2, Zenon DEF TakesBest
<1> DEFINE Least(i) ==
             /\ \E j \in 1 .. i : g[i] = rs[j]
             /\ \A j \in 1 .. i : rs[j].edge > 0 => g[i].edge \in 1 .. rs[j].edge
           T == {i \in 0 .. n : i > 0 => Least(i)}
<1> HIDE DEF n
<1>4. 0 \in T
  BY <1>1
<1>5. ASSUME NEW i \in 1 .. n, i - 1 \in T
      PROVE  i \in T
  <2>1. rs[i] \in Rendition /\ rs[i].edge \in Nat
    BY <1>1 DEF Rendition
  <2>2. CASE i = 1
    <3>1. g[i] = rs[i] /\ \A j \in 1 .. i : j = i
      BY <1>3, <2>2
    <3>2. Least(i)
      BY <2>1, <2>2, <3>1
    <3> HIDE DEF Least
    <3> QED
      BY <1>1, <3>2
  <2>3. CASE i # 1
    <3>1. Least(i - 1)
      <4> HIDE DEF Least
      <4> QED
        BY <1>5, <2>3
    <3>2. g[i] = Better(g[i - 1], rs[i])
      BY <1>3, <2>3
    <3>3. g[i - 1] \in Rendition /\ g[i - 1].edge \in Nat
      BY <1>1, <3>1 DEF Rendition
    <3>4. \E j \in 1 .. i : g[i] = rs[j]
      BY <1>1, <3>1, <3>2 DEF Better
    <3>5. ASSUME NEW j \in 1 .. i, rs[j].edge > 0
          PROVE  g[i].edge \in 1 .. rs[j].edge
      <4>1. CASE j = i
        BY <2>1, <3>2, <3>3, <3>5, <4>1 DEF Better
      <4>2. CASE j # i
        <5>1. j \in 1 .. i - 1 /\ j \in 1 .. n
          BY <4>2, <1>1
        <5>2. g[i - 1].edge \in 1 .. rs[j].edge /\ rs[j].edge \in Nat
          BY <1>1, <3>1, <3>5, <5>1 DEF Rendition
        <5> QED
          BY <2>1, <3>2, <3>3, <5>2 DEF Better
      <4> QED
        BY <4>1, <4>2
    <3>6. Least(i)
      BY <3>4, <3>5
    <3> HIDE DEF Least
    <3> QED
      BY <1>1, <3>6
  <2> QED
    BY <2>2, <2>3
<1>6. Least(n)
  <2>1. 0 .. n \subseteq T
    <3> HIDE DEF T
    <3> QED
      BY <1>1, <1>4, <1>5, BoundedInduction
  <2> HIDE DEF Least
  <2> QED
    BY <1>1, <2>1
<1> QED
  BY <1>1, <1>2, <1>6 DEF Elements

-----------------------------------------------------------------------------
(***************************************************************************)
(* The thumbnail column.                                                   *)
(***************************************************************************)

\* What the column is for a body with any renditions, of known and unknown sizes.
LEMMA ThumbMeans ==
  ASSUME NEW v \in Values
  PROVE  /\ Recorded(v).thumb = NoRef <=> Usable(v) = {}
         /\ \A r \in Usable(v) : r.edge > 0 =>
              \E q \in Usable(v) : /\ q.ref = Recorded(v).thumb
                                    /\ q.edge \in 1 .. r.edge
<1> DEFINE valid == validRenditions(v)
           best == smallestRendition(valid)
<1>1. v.renditions \in Seq(Rendition)
  BY ConstantsAssumption
<1>2. valid \in Seq(Rendition) /\ Elements(valid) = Usable(v)
  BY <1>1, ValidRenditionsMeans DEF Usable, Elements
<1>3. Recorded(v).thumb = IF valid = <<>> THEN NoRef ELSE best.ref
  BY DEF Recorded
<1>4. CASE valid = <<>>
  <2>1. Usable(v) = {}
    BY <1>2, <1>4 DEF Elements
  <2> QED
    BY <1>3, <1>4, <2>1
<1>5. CASE valid # <<>>
  <2> HIDE DEF valid
  <2>1. /\ best \in Elements(valid)
        /\ \A r \in Elements(valid) : r.edge > 0 => best.edge \in 1 .. r.edge
    BY <1>2, <1>5, SmallestRenditionMeans
  <2>2. best \in Rendition /\ best.ref # BadRef
    BY <1>2, <2>1 DEF Elements, Usable
  <2>3. best.ref # NoRef
    BY <2>2, ConstantsAssumption DEF Rendition
  <2> HIDE DEF best
  <2> QED
    BY <1>2, <1>3, <1>5, <2>1, <2>3
<1> QED
  BY <1>4, <1>5

\* No rendition of known size is smaller than a row's thumbnail.
THEOREM ThumbnailIsCheapest == Spec => []ThumbIsCheapest
<1>1. IInv => ThumbIsCheapest
  <2> SUFFICES ASSUME IInv, NEW k \in Keys, rows[k] # NoRow
               PROVE  \E i \in DOMAIN log :
                        /\ log[i].kind = "photographed"
                        /\ Touches(log[i], k)
                        /\ rows[k].value.renditions = {r.ref : r \in Usable(log[i].value)}
                        /\ rows[k].value.thumb = NoRef <=> Usable(log[i].value) = {}
                        /\ \A r \in Usable(log[i].value) : r.edge > 0 =>
                             \E q \in Usable(log[i].value) :
                               q.ref = rows[k].value.thumb /\ q.edge \in 1 .. r.edge
    BY DEF ThumbIsCheapest
  <2>1. PICK i \in DOMAIN log :
          /\ log[i].kind = "photographed"
          /\ Touches(log[i], k)
          /\ rows[k].value = Recorded(log[i].value)
    BY DEF IInv, NoRowFromNowhere
  <2> DEFINE v == log[i].value
  <2>2. v \in Values
    <3>1. log[i] \in Event
      BY DEF IInv, TypeOK
    <3> QED
      BY <2>1, <3>1 DEF Event, Photographed, Photopurged
  <2>3. rows[k].value.renditions = {r.ref : r \in Usable(v)}
    BY <2>1 DEF Recorded, Usable
  <2> QED
    BY <2>1, <2>2, <2>3, ThumbMeans
<1> QED
  BY <1>1, Invariant, PTL
=============================================================================
