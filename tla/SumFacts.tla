------------------------------ MODULE SumFacts ------------------------------
(* What a sum over a finite set is, element by element: SumFunctionOnSet is    *)
(* defined by recursion over the subsets of the set.                           *)
EXTENDS Functions, FiniteSets, SequenceFacts

(* The value the recursion gives a set from those of its subsets. *)
SumFrom(g, f, s) ==
    IF s = {} THEN 0 ELSE LET x == CHOOSE y \in s : TRUE IN f[x] + g[s \ {x}]

(* g follows the recursion on all subsets of S of up to n elements. *)
SumsUpTo(g, f, S, n) ==
    \A s \in SUBSET S : Cardinality(s) <= n => g[s] = SumFrom(g, f, s)

LEMMA SumsExist ==
    ASSUME NEW f, NEW S, IsFiniteSet(S), NEW n \in Nat
    PROVE  \E g : g = [s \in SUBSET S |-> g[s]] /\ SumsUpTo(g, f, S, n)
  <1> DEFINE Good(m) == \E g : g = [s \in SUBSET S |-> g[s]] /\ SumsUpTo(g, f, S, m)
             T == {m \in Nat : Good(m)}
  <1>0. \A s \in SUBSET S : IsFiniteSet(s) /\ Cardinality(s) \in Nat
    BY FS_Subset, FS_CardinalityType
  <1>a. ASSUME NEW s \in SUBSET S, s # {}
        PROVE  LET x == CHOOSE y \in s : TRUE
               IN  x \in s /\ s \ {x} \in SUBSET S
                   /\ Cardinality(s \ {x}) = Cardinality(s) - 1
    <2> DEFINE x == CHOOSE y \in s : TRUE
    <2>1. x \in s
      BY <1>a
    <2> HIDE DEF x
    <2>2. Cardinality(s \ {x}) = Cardinality(s) - 1
      BY <1>0, <2>1, FS_RemoveElement
    <2> QED
      BY <2>1, <2>2 DEF x
  <1>1. Good(0)
    <2> DEFINE g == [s \in SUBSET S |-> 0]
    <2>1. \A s \in SUBSET S : Cardinality(s) <= 0 => s = {}
      BY <1>0, FS_EmptySet
    <2>2. SumsUpTo(g, f, S, 0)
      BY <2>1 DEF SumsUpTo, SumFrom
    <2>3. g = [s \in SUBSET S |-> g[s]]
      OBVIOUS
    <2> HIDE DEF g
    <2> QED
      BY <2>2, <2>3
  <1>2. ASSUME NEW m \in Nat, Good(m) PROVE Good(m + 1)
    <2>1. PICK g : g = [s \in SUBSET S |-> g[s]] /\ SumsUpTo(g, f, S, m)
      BY <1>2
    <2> DEFINE h == [s \in SUBSET S |->
                       IF Cardinality(s) <= m THEN g[s] ELSE SumFrom(g, f, s)]
    <2>2. h = [s \in SUBSET S |-> h[s]]
      OBVIOUS
    <2>3. \A s \in SUBSET S : Cardinality(s) <= m => h[s] = g[s]
      OBVIOUS
    <2>4. ASSUME NEW s \in SUBSET S, Cardinality(s) <= m + 1
          PROVE  h[s] = SumFrom(h, f, s)
      <3>1. h[s] = SumFrom(g, f, s)
        <4>1. CASE Cardinality(s) <= m
          BY <2>1, <4>1 DEF SumsUpTo
        <4>2. CASE ~(Cardinality(s) <= m)
          BY <4>2
        <4> QED
          BY <4>1, <4>2
      <3> HIDE DEF h
      <3>2. CASE s = {}
        BY <3>1, <3>2 DEF SumFrom
      <3>3. CASE s # {}
        <4> DEFINE x == CHOOSE y \in s : TRUE
        <4>1. s \ {x} \in SUBSET S /\ Cardinality(s \ {x}) = Cardinality(s) - 1
          BY <1>a, <3>3
        <4> HIDE DEF x
        <4>2. h[s \ {x}] = g[s \ {x}]
          <5>1. Cardinality(s \ {x}) <= m
            BY <1>0, <2>4, <4>1
          <5> QED
            BY <2>3, <4>1, <5>1
        <4> QED
          BY <3>1, <3>3, <4>2 DEF SumFrom, x
      <3> QED
        BY <3>2, <3>3
    <2> HIDE DEF h
    <2>5. SumsUpTo(h, f, S, m + 1)
      BY <2>4 DEF SumsUpTo
    <2> QED
      BY <2>2, <2>5
  <1> HIDE DEF Good
  <1>3. Nat \subseteq T
    <2>1. 0 \in T /\ \A m \in Nat : m \in T => m + 1 \in T
      BY <1>1, <1>2
    <2> HIDE DEF T
    <2> QED
      BY <2>1, NatsAreReached
  <1> QED
    BY <1>3 DEF Good

Sums(g, f, S) == \A s \in SUBSET S : g[s] = SumFrom(g, f, s)

LEMMA SumIsRecursive ==
    ASSUME NEW f, NEW S, IsFiniteSet(S)
    PROVE  \E g : Sums(g, f, S) /\ SumFunctionOnSet(f, S) = g[S]
  <1> DEFINE Is(g) == g = [s \in SUBSET S |->
                            IF s = {} THEN 0
                            ELSE LET x == CHOOSE y \in s : TRUE
                                 IN  f[x] + g[s \ {x}]]
             iter == CHOOSE g : Is(g)
  <1>1. SumFunctionOnSet(f, S) = iter[S]
    BY DEF SumFunctionOnSet, FoldFunctionOnSet, MapThenFoldSet
  <1>2. \E g : Is(g)
    <2>1. Cardinality(S) \in Nat
      BY FS_CardinalityType
    <2>2. PICK g : g = [s \in SUBSET S |-> g[s]] /\ SumsUpTo(g, f, S, Cardinality(S))
      BY <2>1, SumsExist
    <2>3. \A s \in SUBSET S : Cardinality(s) <= Cardinality(S)
      BY FS_Subset
    <2>4. \A s \in SUBSET S : g[s] = SumFrom(g, f, s)
      BY <2>2, <2>3 DEF SumsUpTo
    <2> DEFINE h == [s \in SUBSET S |->
                      IF s = {} THEN 0
                      ELSE LET x == CHOOSE y \in s : TRUE IN f[x] + g[s \ {x}]]
    <2>5. \A s \in SUBSET S : h[s] = g[s]
      BY <2>4 DEF SumFrom
    <2>6. h = [s \in SUBSET S |-> h[s]]
      OBVIOUS
    <2>7. g = h
      <3> HIDE DEF h
      <3> QED
        BY <2>2, <2>5, <2>6
    <2> QED
      BY <2>7, Zenon
  <1>3. Is(iter)
    <2> HIDE DEF Is
    <2> QED
      BY <1>2
  <1> HIDE DEF iter
  <1>4. Sums(iter, f, S)
    BY <1>3 DEF Sums, SumFrom
  <1> QED
    BY <1>1, <1>4

(* Two functions that follow the recursion agree where both are defined. *)
LEMMA SumsAgree ==
    ASSUME NEW f, NEW S, IsFiniteSet(S), NEW R \in SUBSET S,
           NEW g, Sums(g, f, S), NEW h, Sums(h, f, R)
    PROVE  g[R] = h[R]
  <1> DEFINE T == {n \in Nat : \A s \in SUBSET R : Cardinality(s) <= n => g[s] = h[s]}
  <1>0. \A s \in SUBSET R : IsFiniteSet(s) /\ Cardinality(s) \in Nat
    BY FS_Subset, FS_CardinalityType
  <1>1. 0 \in T
    <2>1. \A s \in SUBSET R : Cardinality(s) <= 0 => s = {}
      BY <1>0, FS_EmptySet
    <2>2. g[{}] = 0 /\ h[{}] = 0
      BY DEF Sums, SumFrom
    <2> QED
      BY <2>1, <2>2
  <1>2. ASSUME NEW n \in Nat, n \in T PROVE n + 1 \in T
    <2> SUFFICES ASSUME NEW s \in SUBSET R, Cardinality(s) <= n + 1, s # {}
                 PROVE  g[s] = h[s]
      BY DEF Sums, SumFrom
    <2> DEFINE x == CHOOSE y \in s : TRUE
    <2>1. x \in s
      OBVIOUS
    <2>2. g[s] = f[x] + g[s \ {x}] /\ h[s] = f[x] + h[s \ {x}]
      BY DEF Sums, SumFrom
    <2> HIDE DEF x
    <2>3. Cardinality(s \ {x}) = Cardinality(s) - 1
      BY <1>0, <2>1, FS_RemoveElement
    <2>4. Cardinality(s \ {x}) <= n
      BY <1>0, <2>3
    <2>5. g[s \ {x}] = h[s \ {x}]
      BY <1>2, <2>4
    <2> QED
      BY <2>2, <2>5
  <1> HIDE DEF T
  <1>3. Nat \subseteq T
    BY <1>1, <1>2, NatsAreReached
  <1>4. Cardinality(R) \in T
    BY <1>0, <1>3
  <1> QED
    BY <1>0, <1>4 DEF T

LEMMA EmptySum ==
    ASSUME NEW f
    PROVE  SumFunctionOnSet(f, {}) = 0
  <1>1. IsFiniteSet({})
    BY FS_EmptySet
  <1>2. PICK g : Sums(g, f, {}) /\ SumFunctionOnSet(f, {}) = g[{}]
    BY <1>1, SumIsRecursive
  <1> QED
    BY <1>2 DEF Sums, SumFrom

(* The sum of a set is that without the element CHOOSE takes, and that element. *)
LEMMA SumUnrolls ==
    ASSUME NEW f, NEW S, IsFiniteSet(S), S # {}
    PROVE  \E x \in S : SumFunctionOnSet(f, S) = f[x] + SumFunctionOnSet(f, S \ {x})
  <1> DEFINE x == CHOOSE y \in S : TRUE
  <1>1. x \in S
    OBVIOUS
  <1>2. PICK g : Sums(g, f, S) /\ SumFunctionOnSet(f, S) = g[S]
    BY SumIsRecursive
  <1>3. g[S] = f[x] + g[S \ {x}]
    BY <1>2 DEF Sums, SumFrom
  <1> HIDE DEF x
  <1>4. IsFiniteSet(S \ {x})
    BY FS_Subset
  <1>5. PICK h : Sums(h, f, S \ {x}) /\ SumFunctionOnSet(f, S \ {x}) = h[S \ {x}]
    BY <1>4, SumIsRecursive
  <1>6. g[S \ {x}] = h[S \ {x}]
    BY <1>2, <1>5, SumsAgree
  <1> QED
    BY <1>1, <1>2, <1>3, <1>5, <1>6

LEMMA SumType ==
    ASSUME NEW D, NEW f \in [D -> Nat], NEW S \in SUBSET D, IsFiniteSet(S)
    PROVE  SumFunctionOnSet(f, S) \in Nat
  <1> DEFINE T == {n \in Nat : \A s \in SUBSET S :
                     Cardinality(s) <= n => SumFunctionOnSet(f, s) \in Nat}
  <1>0. \A s \in SUBSET S : IsFiniteSet(s) /\ Cardinality(s) \in Nat
    BY FS_Subset, FS_CardinalityType
  <1>1. 0 \in T
    <2>1. \A s \in SUBSET S : Cardinality(s) <= 0 => s = {}
      BY <1>0, FS_EmptySet
    <2> QED
      BY <2>1, EmptySum
  <1>2. ASSUME NEW n \in Nat, n \in T PROVE n + 1 \in T
    <2> SUFFICES ASSUME NEW s \in SUBSET S, Cardinality(s) <= n + 1, s # {}
                 PROVE  SumFunctionOnSet(f, s) \in Nat
      BY EmptySum
    <2>1. PICK x \in s : SumFunctionOnSet(f, s) = f[x] + SumFunctionOnSet(f, s \ {x})
      BY <1>0, SumUnrolls
    <2>2. Cardinality(s \ {x}) = Cardinality(s) - 1
      BY <1>0, FS_RemoveElement
    <2>3. SumFunctionOnSet(f, s \ {x}) \in Nat
      BY <1>0, <1>2, <2>2
    <2> QED
      BY <2>1, <2>3
  <1> HIDE DEF T
  <1>3. Nat \subseteq T
    BY <1>1, <1>2, NatsAreReached
  <1>4. Cardinality(S) \in T
    BY <1>0, <1>3
  <1> QED
    BY <1>0, <1>4 DEF T

(* Which element is taken first makes no difference. *)
LEMMA SumAddsElement ==
    ASSUME NEW D, NEW f \in [D -> Nat], NEW S \in SUBSET D, IsFiniteSet(S),
           NEW x \in D \ S
    PROVE  SumFunctionOnSet(f, S \cup {x}) = SumFunctionOnSet(f, S) + f[x]
  <1> DEFINE Sum(s) == SumFunctionOnSet(f, s)
             Adds(s) == \A y \in D \ s : Sum(s \cup {y}) = Sum(s) + f[y]
             T == {n \in Nat : \A s \in SUBSET S : Cardinality(s) <= n => Adds(s)}
  <1>0. \A s \in SUBSET S : IsFiniteSet(s) /\ Cardinality(s) \in Nat
    BY FS_Subset, FS_CardinalityType
  <1>a. \A y \in D : f[y] \in Nat
    OBVIOUS
  <1>b. \A s \in SUBSET D : IsFiniteSet(s) => Sum(s) \in Nat
    BY SumType
  <1>1. 0 \in T
    <2>1. \A s \in SUBSET S : Cardinality(s) <= 0 => s = {}
      BY <1>0, FS_EmptySet
    <2>2. ASSUME NEW y \in D PROVE Sum({y}) = f[y]
      <3>1. IsFiniteSet({y})
        BY FS_Singleton
      <3>2. PICK z \in {y} : Sum({y}) = f[z] + Sum({y} \ {z})
        BY <3>1, SumUnrolls
      <3>3. z = y /\ {y} \ {z} = {}
        OBVIOUS
      <3> QED
        BY <1>a, <3>2, <3>3, EmptySum
    <2>3. Adds({})
      <3>1. \A y \in D : {} \cup {y} = {y}
        OBVIOUS
      <3> QED
        BY <1>a, <2>2, <3>1, EmptySum
    <2> HIDE DEF Adds
    <2> QED
      BY <2>1, <2>3
  <1>2. ASSUME NEW n \in Nat, n \in T PROVE n + 1 \in T
    <2> SUFFICES ASSUME NEW s \in SUBSET S, Cardinality(s) <= n + 1, NEW y \in D \ s
                 PROVE  Sum(s \cup {y}) = Sum(s) + f[y]
      OBVIOUS
    <2>1. IsFiniteSet(s \cup {y}) /\ IsFiniteSet(s)
      BY <1>0, FS_AddElement
    <2>2. PICK z \in s \cup {y} : Sum(s \cup {y}) = f[z] + Sum((s \cup {y}) \ {z})
      BY <2>1, SumUnrolls
    <2>3. CASE z = y
      <3>1. (s \cup {y}) \ {z} = s
        BY <2>3
      <3> QED
        BY <1>a, <1>b, <2>1, <2>2, <2>3, <3>1
    <2>4. CASE z # y
      <3> DEFINE q == s \ {z}
      <3>1. z \in s /\ (s \cup {y}) \ {z} = q \cup {y} /\ q \cup {z} = s
        BY <2>4
      <3>2. Cardinality(q) = Cardinality(s) - 1
        BY <1>0, <3>1, FS_RemoveElement
      <3>3. Cardinality(q) <= n /\ q \in SUBSET S /\ IsFiniteSet(q)
        BY <1>0, <3>2
      <3>4. Adds(q)
        BY <1>2, <3>3
      <3>5. y \in D \ q /\ z \in D \ q
        BY <3>1
      <3>6. Sum(q \cup {y}) = Sum(q) + f[y] /\ Sum(q \cup {z}) = Sum(q) + f[z]
        BY <3>4, <3>5
      <3>7. Sum(q) \in Nat /\ f[y] \in Nat /\ f[z] \in Nat
        BY <1>a, <1>b, <3>3, <3>5
      <3>8. Sum((s \cup {y}) \ {z}) = Sum(q \cup {y}) /\ Sum(q \cup {z}) = Sum(s)
        BY <3>1
      <3> HIDE DEF q, Sum
      <3> QED
        BY <2>2, <3>6, <3>7, <3>8
    <2> QED
      BY <2>3, <2>4
  <1> HIDE DEF T
  <1>3. Nat \subseteq T
    BY <1>1, <1>2, NatsAreReached
  <1>4. Cardinality(S) \in T
    BY <1>0, <1>3
  <1> QED
    BY <1>0, <1>4 DEF T

(* Nor does a subset have a larger sum. *)
LEMMA SumIsMonotone ==
    ASSUME NEW D, NEW f \in [D -> Nat], NEW S \in SUBSET D, IsFiniteSet(S),
           NEW R \in SUBSET S
    PROVE  SumFunctionOnSet(f, R) <= SumFunctionOnSet(f, S)
  <1> DEFINE Sum(s) == SumFunctionOnSet(f, s)
             T == {n \in Nat : \A s \in SUBSET S :
                     Cardinality(s) <= n => Sum(S \ s) <= Sum(S)}
  <1>0. \A s \in SUBSET S : IsFiniteSet(s) /\ Cardinality(s) \in Nat /\ Sum(s) \in Nat
    BY FS_Subset, FS_CardinalityType, SumType
  <1>a. Sum(S \ {}) <= Sum(S)
    <2>1. S \ {} = S /\ Sum(S) <= Sum(S)
      BY <1>0
    <2> HIDE DEF Sum
    <2> QED
      BY <2>1
  <1>1. 0 \in T
    <2>1. \A s \in SUBSET S : Cardinality(s) <= 0 => s = {}
      BY <1>0, FS_EmptySet
    <2> HIDE DEF Sum
    <2> QED
      BY <1>a, <2>1
  <1>2. ASSUME NEW n \in Nat, n \in T PROVE n + 1 \in T
    <2> SUFFICES ASSUME NEW s \in SUBSET S, Cardinality(s) <= n + 1
                 PROVE  Sum(S \ s) <= Sum(S)
      OBVIOUS
    <2>1. CASE s = {}
      BY <1>a, <2>1
    <2>2. CASE s # {}
      <3>1. PICK x \in s : TRUE
        BY <2>2
      <3>2. Cardinality(s \ {x}) = Cardinality(s) - 1
        BY <1>0, FS_RemoveElement
      <3>3. Sum(S \ (s \ {x})) <= Sum(S)
        BY <1>0, <1>2, <3>2
      <3>4. /\ S \ (s \ {x}) = (S \ s) \cup {x}
            /\ x \in D \ (S \ s) /\ S \ s \in SUBSET D
        OBVIOUS
      <3>5. Sum(S \ (s \ {x})) = Sum(S \ s) + f[x] /\ f[x] \in Nat
        BY <1>0, <3>4, SumAddsElement
      <3> QED
        BY <1>0, <3>3, <3>5
    <2> QED
      BY <2>1, <2>2
  <1> HIDE DEF T
  <1>3. Nat \subseteq T
    BY <1>1, <1>2, NatsAreReached
  <1>4. S \ R \in SUBSET S /\ S \ (S \ R) = R
    OBVIOUS
  <1>5. Cardinality(S \ R) \in T
    BY <1>0, <1>3, <1>4
  <1> QED
    BY <1>0, <1>4, <1>5 DEF T
==============================================================================
