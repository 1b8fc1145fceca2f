---------------------------- MODULE SequenceFacts ----------------------------
(* Induction over the natural numbers, and what follows from it about          *)
(* sequences.  The induction theorems of the library take an operator; a set   *)
(* of numbers does the same, by the well-foundedness of the subset ordering.   *)
EXTENDS Integers, Sequences, SequencesExt, FiniteSetTheorems, WellFoundedInduction, TLAPS

LEMMA NatsAreReached ==
    ASSUME NEW S, 0 \in S, \A n \in Nat : n \in S => n + 1 \in S
    PROVE  Nat \subseteq S
  <1> SUFFICES ASSUME NEW m \in Nat, m \notin S PROVE FALSE
    OBVIOUS
  <1> DEFINE T == {0..n : n \in Nat \ S}
  <1>1. T # {} /\ T \subseteq FiniteSubsetsOf(Nat)
    <2>1. \A n \in Nat : IsFiniteSet(0..n) /\ 0..n \subseteq Nat
      BY FS_Interval
    <2> QED
      BY <2>1 DEF FiniteSubsetsOf
  <1>2. PICK x \in T : \A y \in T : <<y, x>> \notin StrictSubsetOrdering(Nat)
    <2> HIDE DEF T
    <2> QED
      BY <1>1, FS_StrictSubsetOrderingWellFounded, WFMin
  <1>3. PICK n \in Nat \ S : x = 0..n
    OBVIOUS
  <1>4. n - 1 \in Nat \ S
    OBVIOUS
  <1>5. <<0..(n - 1), 0..n>> \in StrictSubsetOrdering(Nat)
    <2>1. /\ 0..(n - 1) \subseteq Nat /\ 0..n \subseteq Nat
          /\ 0..(n - 1) \subseteq 0..n /\ n \in 0..n /\ n \notin 0..(n - 1)
      OBVIOUS
    <2> QED
      BY <2>1 DEF StrictSubsetOrdering
  <1> QED
    BY <1>2, <1>3, <1>4, <1>5

(* Any finite set of positions can be put in ascending order. *)
LEMMA PositionsCanBeSorted ==
    ASSUME NEW k \in Nat, NEW S \in SUBSET (1..k)
    PROVE  \E at \in [1..Cardinality(S) -> S] :
             \A n, m \in 1..Cardinality(S) : n < m => at[n] < at[m]
  <1> DEFINE Sorted(R) == \E at \in [1..Cardinality(R) -> R] :
                            \A n, m \in 1..Cardinality(R) : n < m => at[n] < at[m]
             T == {l \in Nat : \A R \in SUBSET (1..l) : Sorted(R)}
  <1>1. 0 \in T
    <2>1. Sorted({})
      <3>1. Cardinality({}) = 0
        BY FS_EmptySet
      <3>2. [n \in 1..0 |-> n] \in [1..0 -> {}]
        OBVIOUS
      <3> QED
        BY <3>1, <3>2
    <2>2. \A R \in SUBSET (1..0) : R = {}
      OBVIOUS
    <2> HIDE DEF Sorted
    <2> QED
      BY <2>1, <2>2
  <1>2. ASSUME NEW l \in Nat, l \in T PROVE l + 1 \in T
    <2> SUFFICES ASSUME NEW R \in SUBSET (1..(l + 1)) PROVE Sorted(R)
      <3> HIDE DEF Sorted
      <3> QED
        OBVIOUS
    <2>0. \A i \in R : i \in 1..l \/ i = l + 1
      OBVIOUS
    <2> DEFINE Q == R \cap (1..l)
    <2>1. Sorted(Q)
      BY <1>2
    <2>2. CASE l + 1 \notin R
      <3>1. Q = R
        BY <2>0, <2>2
      <3> QED
        BY <2>1, <3>1
    <2>3. CASE l + 1 \in R
      <3> DEFINE c == Cardinality(Q)
      <3>1. IsFiniteSet(Q) /\ R = Q \cup {l + 1} /\ l + 1 \notin Q
        <4>1. IsFiniteSet(1..l) /\ Q \in SUBSET (1..l)
          BY FS_Interval
        <4>2. IsFiniteSet(Q)
          BY <4>1, FS_Subset
        <4>3. R = Q \cup {l + 1} /\ l + 1 \notin Q
          <5> HIDE DEF Sorted
          <5>1. \A i \in R : i \in Q \/ i = l + 1
            BY <2>0
          <5>2. l + 1 \notin 1..l
            OBVIOUS
          <5> QED
            BY <2>3, <5>1, <5>2
        <4> QED
          BY <4>2, <4>3
      <3>2. c \in Nat /\ Cardinality(R) = c + 1
        BY <3>1, FS_AddElement, FS_CardinalityType
      <3>3. PICK at \in [1..c -> Q] : \A n, m \in 1..c : n < m => at[n] < at[m]
        BY <2>1
      <3> DEFINE new == [n \in 1..(c + 1) |-> IF n = c + 1 THEN l + 1 ELSE at[n]]
      <3>4. \A n \in 1..c : at[n] \in 1..l /\ at[n] \in R /\ new[n] = at[n]
        <4>1. ASSUME NEW n \in 1..c PROVE at[n] \in Q /\ n \in 1..(c + 1) /\ n # c + 1
          <5> HIDE DEF c, Q, Sorted
          <5> QED
            BY <3>2, <3>3
        <4> QED
          BY <4>1
      <3>5. new \in [1..(c + 1) -> R] /\ new[c + 1] = l + 1
        <4>1. \A n \in 1..(c + 1) : n \in 1..c \/ n = c + 1
          BY <3>2
        <4>2. \A n \in 1..(c + 1) : new[n] \in R
          BY <2>3, <3>4, <4>1
        <4>3. new[c + 1] = l + 1
          <5> HIDE DEF c, Q, Sorted
          <5> QED
            BY <3>2
        <4> QED
          BY <4>2, <4>3
      <3> HIDE DEF new, c
      <3>6. ASSUME NEW n \in 1..(c + 1), NEW m \in 1..(c + 1), n < m
            PROVE  new[n] < new[m]
        <4>1. n \in 1..c
          BY <3>2, <3>6
        <4>2. CASE m = c + 1
          BY <3>4, <3>5, <4>1, <4>2
        <4>3. CASE m # c + 1
          BY <3>2, <3>3, <3>4, <3>6, <4>1, <4>3
        <4> QED
          BY <4>2, <4>3
      <3> QED
        BY <3>2, <3>5, <3>6
    <2> QED
      BY <2>2, <2>3
  <1> HIDE DEF T
  <1>3. Nat \subseteq T
    BY <1>1, <1>2, NatsAreReached
  <1> QED
    BY <1>3 DEF T

-----------------------------------------------------------------------------
(* FlattenSeq *)

(* What the function that FlattenSeq defines by recursion is, as far as n. *)
Flattens(f, seqs, n) ==
    \A i \in 1..n : f[i] = IF i = 1 THEN seqs[i] ELSE f[i - 1] \o seqs[i]

LEMMA SomethingFlattens ==
    ASSUME NEW S, NEW seqs \in Seq(Seq(S))
    PROVE  \E f \in [1..Len(seqs) -> Seq(S)] : Flattens(f, seqs, Len(seqs))
  <1> DEFINE Good(n) == \E f \in [1..n -> Seq(S)] : Flattens(f, seqs, n)
             T == {n \in Nat : n <= Len(seqs) => Good(n)}
  <1>1. Good(0)
    <2>1. [i \in 1..0 |-> seqs] \in [1..0 -> Seq(S)]
      OBVIOUS
    <2>2. \A f : Flattens(f, seqs, 0)
      BY DEF Flattens
    <2> QED
      BY <2>1, <2>2
  <1>2. ASSUME NEW n \in Nat, n + 1 <= Len(seqs), Good(n) PROVE Good(n + 1)
    <2>1. PICK f \in [1..n -> Seq(S)] : Flattens(f, seqs, n)
      BY <1>2
    <2> DEFINE next == IF n + 1 = 1 THEN seqs[n + 1] ELSE f[n] \o seqs[n + 1]
               g == [i \in 1..(n + 1) |-> IF i = n + 1 THEN next ELSE f[i]]
    <2>2. next \in Seq(S)
      <3>1. seqs[n + 1] \in Seq(S)
        BY <1>2
      <3>2. CASE n = 0
        BY <3>1, <3>2
      <3>3. CASE n # 0
        <4>1. f[n] \in Seq(S)
          BY <3>3
        <4> QED
          BY <3>1, <3>3, <4>1
      <3> QED
        BY <3>2, <3>3
    <2> HIDE DEF next
    <2>3. g \in [1..(n + 1) -> Seq(S)]
      BY <2>2
    <2>4. ASSUME NEW i \in 1..(n + 1)
          PROVE  g[i] = IF i = 1 THEN seqs[i] ELSE g[i - 1] \o seqs[i]
      <3>1. CASE i = n + 1
        BY <3>1 DEF next
      <3>2. CASE i # n + 1
        <4>1. g[i] = f[i] /\ (i # 1 => g[i - 1] = f[i - 1])
          BY <3>2
        <4>2. i \in 1..n
          BY <3>2
        <4>3. f[i] = IF i = 1 THEN seqs[i] ELSE f[i - 1] \o seqs[i]
          BY <2>1, <4>2, Zenon DEF Flattens
        <4> QED
          BY <4>1, <4>3
      <3> QED
        BY <3>1, <3>2
    <2>5. Flattens(g, seqs, n + 1)
      BY <2>4 DEF Flattens
    <2> QED
      BY <2>3, <2>5
  <1> HIDE DEF Good
  <1>3. Nat \subseteq T
    <2>1. 0 \in T /\ \A n \in Nat : n \in T => n + 1 \in T
      BY <1>1, <1>2
    <2> HIDE DEF T
    <2> QED
      BY <2>1, NatsAreReached
  <1>4. Good(Len(seqs))
    BY <1>3
  <1> QED
    BY <1>4 DEF Good

LEMMA FlatteningsAreSequences ==
    ASSUME NEW S, NEW seqs \in Seq(Seq(S)), NEW f, Flattens(f, seqs, Len(seqs))
    PROVE  \A n \in 1..Len(seqs) : f[n] \in Seq(S)
  <1> DEFINE T == {n \in Nat : n + 1 <= Len(seqs) => f[n + 1] \in Seq(S)}
  <1>1. 0 \in T
    <2>1. ASSUME 1 <= Len(seqs) PROVE f[1] = seqs[1] /\ seqs[1] \in Seq(S)
      BY <2>1 DEF Flattens
    <2> QED
      BY <2>1
  <1>2. ASSUME NEW n \in Nat, n \in T PROVE n + 1 \in T
    <2> SUFFICES ASSUME n + 2 <= Len(seqs) PROVE f[n + 2] \in Seq(S)
      OBVIOUS
    <2>1. f[n + 1] \in Seq(S) /\ seqs[n + 2] \in Seq(S)
      BY <1>2
    <2>2. f[n + 2] = f[n + 1] \o seqs[n + 2]
      <3>1. n + 2 \in 1..Len(seqs) /\ n + 2 # 1 /\ (n + 2) - 1 = n + 1
        OBVIOUS
      <3>2. \A i \in 1..Len(seqs) : f[i] = IF i = 1 THEN seqs[i] ELSE f[i - 1] \o seqs[i]
        BY Zenon DEF Flattens
      <3> QED
        BY <3>1, <3>2
    <2> QED
      BY <2>1, <2>2
  <1>3. Nat \subseteq T
    <2> HIDE DEF T
    <2> QED
      BY <1>1, <1>2, NatsAreReached
  <1>4. ASSUME NEW n \in 1..Len(seqs) PROVE f[n] \in Seq(S)
    <2>1. n - 1 \in Nat /\ (n - 1) + 1 = n /\ n <= Len(seqs)
      OBVIOUS
    <2> QED
      BY <1>3, <2>1
  <1> QED
    BY <1>4

LEMMA FlattenSeqType ==
    ASSUME NEW S, NEW seqs \in Seq(Seq(S))
    PROVE  FlattenSeq(seqs) \in Seq(S)
  <1>1. CASE Len(seqs) = 0
    BY <1>1 DEF FlattenSeq
  <1>2. CASE Len(seqs) # 0
    <2> DEFINE N == Len(seqs)
               Is(f) == f = [i \in 1..N |-> IF i = 1 THEN seqs[i] ELSE f[i - 1] \o seqs[i]]
               flatten == CHOOSE f : Is(f)
    <2>1. FlattenSeq(seqs) = flatten[N]
      BY <1>2, Zenon DEF FlattenSeq
    <2>2. \E f : Is(f)
      <3>1. PICK f \in [1..N -> Seq(S)] : Flattens(f, seqs, N)
        BY SomethingFlattens
      <3>2. Is(f)
        BY <3>1 DEF Flattens
      <3> QED
        BY <3>2
    <2>3. Is(flatten)
      <3> HIDE DEF Is
      <3> QED
        BY <2>2
    <2> HIDE DEF flatten
    <2>4. Flattens(flatten, seqs, N)
      BY <2>3 DEF Flattens
    <2> QED
      BY <1>2, <2>1, <2>4, FlatteningsAreSequences
  <1> QED
    BY <1>1, <1>2
==============================================================================
