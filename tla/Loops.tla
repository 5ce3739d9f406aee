------------------------------- MODULE Loops -------------------------------
(***************************************************************************)
(* Facts about bounded loops for the proofs of this project: the least of  *)
(* some natural numbers, induction up to a bound, and the states that a    *)
(* loop runs through.  The library states induction for a predicate given  *)
(* as an operator; here the predicate is the set of numbers it holds for,  *)
(* and the induction rests on < being well-founded on Nat.                 *)
(***************************************************************************)
EXTENDS Naturals, WellFoundedInduction, TLAPS

\* Among some natural numbers one is the least.
LEMMA LeastElement ==
  ASSUME NEW T, T \subseteq Nat, T # {}
  PROVE  \E x \in T : \A y \in T : x <= y
<1> DEFINE R == {p \in Nat \X Nat : p[1] < p[2]}
<1>1. IsWellFoundedOn(R, Nat)
  BY NatLessThanWellFounded DEF OpToRel
<1>2. PICK x \in T : \A y \in T : ~(<<y, x>> \in R)
  <2> HIDE DEF R
  <2> QED
    BY <1>1, WFMin, Zenon
<1>3. \A y \in T : x <= y
  <2> SUFFICES ASSUME NEW y \in T, ~(x <= y)
               PROVE  FALSE
    OBVIOUS
  <2>1. <<y, x>> \in R
    OBVIOUS
  <2> QED
    BY <1>2, <2>1
<1> QED
  BY <1>3

\* Among some numbers up to a bound one is the greatest.
LEMMA GreatestElement ==
  ASSUME NEW n \in Nat, NEW T, T \subseteq 0 .. n, T # {}
  PROVE  \E x \in T : \A y \in T : y <= x
<1> DEFINE D == {n - x : x \in T}
<1>1. D \subseteq Nat /\ D # {}
  <2>1. \A x \in T : n - x \in Nat
    OBVIOUS
  <2> QED
    BY <2>1
<1>2. PICK d \in D : \A e \in D : d <= e
  <2> HIDE DEF D
  <2> QED
    BY <1>1, LeastElement
<1>3. PICK x \in T : d = n - x
  BY <1>2
<1>4. \A y \in T : n - x <= n - y
  BY <1>2, <1>3
<1>5. \A y \in T : y <= x
  BY <1>4
<1> QED
  BY <1>5

\* A set that has 0, and with each number below n the next one, has all up to n.
LEMMA BoundedInduction ==
  ASSUME NEW n \in Nat, NEW T,
         0 \in T,
         \A i \in 1 .. n : i - 1 \in T => i \in T
  PROVE  0 .. n \subseteq T
<1> DEFINE missing == (0 .. n) \ T
<1> SUFFICES ASSUME missing # {}
             PROVE  FALSE
  OBVIOUS
<1>1. missing \subseteq Nat
  OBVIOUS
<1>2. PICK x \in missing : \A y \in missing : x <= y
  <2> HIDE DEF missing
  <2> QED
    BY <1>1, LeastElement
<1>3. x \in 1 .. n /\ x - 1 \in 0 .. n
  BY <1>2
<1>4. x - 1 \in T
  BY <1>2, <1>3
<1> QED
  BY <1>2, <1>3, <1>4

\* h[i] is the state after i rounds of a loop that begins in base, and F[<<s, i>>] the
\* state that round i makes of s.
Rounds(h, base, F, n) ==
  h[0] = base /\ \A i \in 1 .. n : h[i] = F[<<h[i - 1], i>>]

\* A loop of n rounds over a state of S runs through states of S.
LEMMA LoopExists ==
  ASSUME NEW n \in Nat, NEW S, NEW base \in S, NEW F \in [S \X (1 .. n) -> S]
  PROVE  \E h \in [0 .. n -> S] : Rounds(h, base, F, n)
<1> DEFINE Run(m, h) == Rounds(h, base, F, m)
           T == {m \in 0 .. n : \E h \in [0 .. m -> S] : Run(m, h)}
<1>1. 0 \in T
  <2> DEFINE g == [i \in 0 .. 0 |-> base]
  <2>1. g \in [0 .. 0 -> S]
    OBVIOUS
  <2>2. Run(0, g)
    BY DEF Rounds
  <2> HIDE DEF g, Run
  <2> QED
    BY <2>1, <2>2
<1>2. ASSUME NEW i \in 1 .. n, i - 1 \in T
      PROVE  i \in T
  <2>1. PICK h \in [0 .. i - 1 -> S] : Run(i - 1, h)
    BY <1>2
  <2> DEFINE g == [j \in 0 .. i |-> IF j < i THEN h[j] ELSE F[<<h[i - 1], i>>]]
  <2>2. h[i - 1] \in S /\ F[<<h[i - 1], i>>] \in S
    BY <2>1
  <2>3. g \in [0 .. i -> S]
    BY <2>1, <2>2
  <2>4. Run(i, g)
    <3>1. g[0] = base
      BY <2>1 DEF Rounds
    <3>2. ASSUME NEW j \in 1 .. i
          PROVE  g[j] = F[<<g[j - 1], j>>]
      <4>1. g[j - 1] = h[j - 1]
        OBVIOUS
      <4>2. CASE j < i
        <5>1. j \in 1 .. i - 1 /\ g[j] = h[j]
          BY <4>2
        <5>2. h[j] = F[<<h[j - 1], j>>]
          <6> HIDE DEF g
          <6> QED
            BY <2>1, <5>1, Zenon DEF Rounds
        <5> QED
          BY <4>1, <5>1, <5>2
      <4>3. CASE j = i
        <5>1. g[i] = F[<<h[i - 1], i>>]
          OBVIOUS
        <5> HIDE DEF g
        <5> QED
          BY <4>1, <4>3, <5>1
      <4>4. j < i \/ j = i
        OBVIOUS
      <4> HIDE DEF g
      <4> QED
        BY <4>2, <4>3, <4>4
    <3> HIDE DEF g
    <3> QED
      BY <3>1, <3>2 DEF Rounds
  <2> HIDE DEF g, Run
  <2> QED
    BY <2>3, <2>4
<1>3. 0 .. n \subseteq T
  <2> HIDE DEF T
  <2> QED
    BY <1>1, <1>2, BoundedInduction
<1> QED
  BY <1>3
=============================================================================
