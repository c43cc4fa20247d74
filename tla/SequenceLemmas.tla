-------------------------- MODULE SequenceLemmas --------------------------
(***************************************************************************)
(* Lemmas about numbers and sequences that need induction.  The induction  *)
(* theorems of the library take a predicate as a parameter; here they are  *)
(* stated for sets, from the well-foundedness of < alone.                  *)
(***************************************************************************)
EXTENDS Integers, SequencesExt, TLAPS, WellFoundedInduction

----------------------------------------------------------------------------
(* Sets of naturals.                                                       *)

(* A set of naturals has a least element.                                  *)
LEMMA Least ==
    ASSUME NEW T \in SUBSET Nat, T # {}
    PROVE  \E n \in T : \A m \in T : n <= m
<1> DEFINE R == OpToRel(<, Nat)
<1>1. IsWellFoundedOn(R, Nat)
  BY NatLessThanWellFounded DEF OpToRel
<1>2. \A m, n \in Nat : m < n => <<m, n>> \in R
  BY DEF OpToRel
<1> HIDE DEF R
<1>3. PICK x \in T : \A y \in T : ~(<<y, x>> \in R)
  BY <1>1, WFMin
<1>4. \A y \in T : x <= y
  <2> TAKE y \in T
  <2>1. ~(y < x)
    BY <1>2, <1>3
  <2> QED
    BY <2>1
<1> QED
  BY <1>4

(* A set of naturals that is bounded has a greatest one.                   *)
LEMMA Greatest ==
    ASSUME NEW n \in Nat, NEW T \in SUBSET (1..n), T # {}
    PROVE  \E x \in T : \A y \in T : y <= x
<1> DEFINE U == {k \in Nat : \A y \in T : y <= k}
<1>1. U \in SUBSET Nat /\ n \in U
  OBVIOUS
<1>2. PICK u \in U : \A v \in U : u <= v
  <2> HIDE DEF U
  <2> QED 
    BY <1>1, Least
<1>3. u \in T
  <2> SUFFICES ASSUME u \notin T PROVE FALSE
    OBVIOUS
  <2>1. \A y \in T : y <= u - 1 /\ y \in Nat
    OBVIOUS
  <2>2. PICK y \in T : TRUE
    OBVIOUS
  <2>3. u - 1 \in Nat /\ \A z \in T : z <= u - 1
    BY <2>1, <2>2
  <2>4. u - 1 \in U
    BY <2>3
  <2> QED
    BY <1>2, <2>4
<1> QED
  BY <1>1, <1>2, <1>3

(* Induction up to n, for membership in a set.                             *)
LEMMA Upto ==
    ASSUME NEW n \in Nat, NEW T, 0 \in T, \A i \in 0..(n-1) : i \in T => i + 1 \in T
    PROVE  0..n \subseteq T
<1> DEFINE U == (0..n) \ T
<1> SUFFICES ASSUME U # {} PROVE FALSE
  OBVIOUS
<1>1. U \in SUBSET Nat
  OBVIOUS
<1>2. PICK u \in U : \A v \in U : u <= v
  <2> HIDE DEF U
  <2> QED
    BY <1>1, Least
<1>3. u # 0 /\ u \in 0..n
  OBVIOUS
<1>4. u - 1 \in 0..(n-1) /\ u - 1 \notin U
  BY <1>2, <1>3
<1> QED
  BY <1>3, <1>4


----------------------------------------------------------------------------
(* Sequences.                                                              *)

(* What is in a concatenation is what is in either part.                   *)
LEMMA ConcatRange ==
    ASSUME NEW S, NEW s \in Seq(S), NEW t \in Seq(S)
    PROVE  Range(s \o t) = Range(s) \cup Range(t)
<1>1. ASSUME NEW i \in DOMAIN (s \o t) PROVE (s \o t)[i] \in Range(s) \cup Range(t)
  <2>1. CASE i <= Len(s)
    BY <1>1, <2>1 DEF Range
  <2>2. CASE i > Len(s)
    <3>1. i - Len(s) \in DOMAIN t /\ (s \o t)[i] = t[i - Len(s)]
      BY <1>1, <2>2
    <3> QED
      BY <3>1 DEF Range
  <2> QED
    BY <1>1, <2>1, <2>2
<1>2. ASSUME NEW i \in DOMAIN s PROVE s[i] \in Range(s \o t)
  <2>1. i \in DOMAIN (s \o t) /\ (s \o t)[i] = s[i]
    BY <1>2
  <2> QED
    BY <2>1 DEF Range
<1>3. ASSUME NEW i \in DOMAIN t PROVE t[i] \in Range(s \o t)
  <2>1. Len(s) + i \in DOMAIN (s \o t) /\ (s \o t)[Len(s) + i] = t[i]
    BY <1>3
  <2> QED
    BY <2>1 DEF Range
<1> QED
  BY <1>1, <1>2, <1>3 DEF Range

(* FlattenSeq joins sequences: what is in the result is what is in one of  *)
(* them.                                                                   *)
LEMMA FlattenRange ==
    ASSUME NEW S, NEW ss \in Seq(Seq(S))
    PROVE  /\ FlattenSeq(ss) \in Seq(S)
           /\ Range(FlattenSeq(ss)) = UNION {Range(ss[i]) : i \in DOMAIN ss}
<1> DEFINE L == Len(ss)
           flatten[i \in 1..L] == IF i = 1 THEN ss[i] ELSE flatten[i-1] \o ss[i]
           Step(f, i) == IF i = 1 THEN ss[i] ELSE f[i-1] \o ss[i]
<1>1. FlattenSeq(ss) = IF L = 0 THEN ss ELSE flatten[L]
  BY Zenon DEF FlattenSeq
<1>2. flatten = CHOOSE f : f = [i \in 1..L |-> Step(f, i)]
  BY Zenon
<1>3. L \in Nat /\ DOMAIN ss = 1..L /\ \A i \in 1..L : ss[i] \in Seq(S)
  OBVIOUS
<1> HIDE DEF L, flatten
<1>4. \E f : f = [i \in 1..L |-> Step(f, i)]
  <2> DEFINE T == {n \in 0..L : \E f : f = [i \in 1..n |-> Step(f, i)]}
  <2>1. 0 \in T
    <3> DEFINE e == [i \in 1..0 |-> <<>>]
    <3>1. e = [i \in 1..0 |-> Step(e, i)]
      OBVIOUS
    <3>2. 0 \in 0..L
      BY <1>3
    <3> HIDE DEF e, Step
    <3> QED
      BY <3>1, <3>2
  <2>2. ASSUME NEW n \in 0..(L - 1), n \in T PROVE n + 1 \in T
    <3>1. PICK f : f = [i \in 1..n |-> Step(f, i)]
      BY <2>2
    <3> DEFINE g == [i \in 1..(n + 1) |-> Step(f, i)]
    <3>2. ASSUME NEW i \in 1..n PROVE g[i] = f[i]
      <4>1. i \in 1..(n + 1)
        BY <1>3
      <4>2. g[i] = Step(f, i)
        BY <4>1
      <4>3. f[i] = [j \in 1..n |-> Step(f, j)][i]
        BY <3>1
      <4> HIDE DEF Step, g
      <4> QED
        BY <4>2, <4>3
    <3>3. \A i \in 1..(n + 1) : Step(f, i) = Step(g, i)
      <4> TAKE i \in 1..(n + 1)
      <4> HIDE DEF g
      <4>1. CASE i = 1
        BY <4>1
      <4>2. CASE i # 1
        <5>1. i - 1 \in 1..n
          BY <4>2, <1>3
        <5>2. g[i - 1] = f[i - 1]
          BY <3>2, <5>1
        <5> QED
          BY <4>2, <5>2
      <4> QED
        BY <4>1, <4>2
    <3>4. g = [i \in 1..(n + 1) |-> Step(g, i)]
      <4> HIDE DEF Step
      <4> QED
        BY <3>3
    <3>5. n + 1 \in 0..L
      BY <1>3
    <3> HIDE DEF g, Step
    <3> QED
      BY <3>4, <3>5
  <2>3. L \in T
    <3> HIDE DEF T
    <3>1. \A n \in 0..(L - 1) : n \in T => n + 1 \in T
      BY <2>2
    <3>2. 0..L \subseteq T
      BY <1>3, <2>1, <3>1, Upto
    <3> QED
      BY <1>3, <3>2
  <2> HIDE DEF Step
  <2> QED
    BY <2>3
<1>5. flatten = [i \in 1..L |-> Step(flatten, i)]
  <2> HIDE DEF Step
  <2> QED
    BY <1>2, <1>4
<1>6. ASSUME L # 0
      PROVE  /\ flatten[L] \in Seq(S)
             /\ Range(flatten[L]) = UNION {Range(ss[k]) : k \in 1..L}
  <2> DEFINE Joined(i) == /\ flatten[i] \in Seq(S)
                          /\ Range(flatten[i]) = UNION {Range(ss[k]) : k \in 1..i}
             T == {n \in 0..L : n # 0 => Joined(n)}
  <2>1. \A i \in 1..L : flatten[i] = Step(flatten, i)
    <3> HIDE DEF Step
    <3> QED
      BY <1>5
  <2>2. Joined(1)
    <3>1. flatten[1] = ss[1] /\ ss[1] \in Seq(S)
      BY <1>3, <1>6, <2>1
    <3>2. {Range(ss[k]) : k \in 1..1} = {Range(ss[1])}
      OBVIOUS
    <3> QED
      BY <3>1, <3>2
  <2>3. ASSUME NEW n \in 0..(L - 1), n \in T PROVE n + 1 \in T
    <3>1. CASE n = 0
      <4>1. n + 1 = 1 /\ n + 1 \in 0..L
        BY <1>3, <1>6, <3>1
      <4> HIDE DEF Joined
      <4> QED
        BY <2>2, <4>1
    <3>2. CASE n # 0
      <4>1. Joined(n) /\ n + 1 \in 1..L /\ n \in Nat
        BY <1>3, <2>3, <3>2
      <4>2. flatten[n + 1] = flatten[n] \o ss[n + 1]
        <5>1. flatten[n + 1] = Step(flatten, n + 1)
          BY <2>1, <4>1
        <5>2. n + 1 # 1 /\ (n + 1) - 1 = n
          BY <3>2, <4>1
        <5> HIDE DEF T, Joined
        <5> QED
          BY <5>1, <5>2
      <4>3. ss[n + 1] \in Seq(S)
        BY <1>3, <4>1
      <4>4. flatten[n + 1] \in Seq(S)
        BY <4>1, <4>2, <4>3
      <4>5. Range(flatten[n + 1]) = Range(flatten[n]) \cup Range(ss[n + 1])
        BY <4>1, <4>2, <4>3, ConcatRange
      <4>6. UNION {Range(ss[k]) : k \in 1..(n + 1)}
                = (UNION {Range(ss[k]) : k \in 1..n}) \cup Range(ss[n + 1])
        <5>1. 1..(n + 1) = (1..n) \cup {n + 1}
          BY <4>1
        <5> QED
          BY <5>1
      <4>7. Joined(n + 1)
        BY <4>1, <4>4, <4>5, <4>6
      <4> QED
        BY <1>3, <4>1, <4>7
    <3> QED
      BY <3>1, <3>2
  <2>4. 0 \in T
    BY <1>3
  <2>5. L \in T
    <3> HIDE DEF T
    <3>1. \A n \in 0..(L - 1) : n \in T => n + 1 \in T
      BY <2>3
    <3>2. 0..L \subseteq T
      BY <1>3, <2>4, <3>1, Upto
    <3> QED
      BY <1>3, <3>2
  <2> QED
    BY <1>6, <2>5
<1>7. CASE L = 0
  <2>1. FlattenSeq(ss) = ss /\ ss = <<>>
    BY <1>1, <1>7 DEF L
  <2>2. Range(<<>>) = {} /\ DOMAIN ss = {}
    BY <2>1 DEF Range
  <2>3. <<>> \in Seq(S)
    OBVIOUS
  <2> QED
    BY <2>1, <2>2, <2>3
<1>8. CASE L # 0
  BY <1>1, <1>3, <1>6, <1>8
<1> QED
  BY <1>7, <1>8

=============================================================================
