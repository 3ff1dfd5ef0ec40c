--------------------------- MODULE CardRefundsProofs ---------------------------
(***************************************************************************)
(* Proofs about CardRefunds for any payments, bills, operators and bounds: *)
(* sums, how an amount is spread, what the provider holds against what the *)
(* rows count, and what a plan gives back.                                 *)
(***************************************************************************)
EXTENDS CardRefunds, FiniteSetTheorems, SequenceTheorems, TLAPS

-----------------------------------------------------------------------------
(* Sums.  The community modules define a sum by choosing its next summand; *)
(* that it exists and is what it should be goes by the least counterexample. *)

(* A nonempty set of numbers has a least one.                              *)
LEMMA LeastNumber ==
  ASSUME NEW T \in SUBSET Nat, T # {}
  PROVE  \E n \in T : \A m \in T : n <= m
<1> PICK top \in T : TRUE
  OBVIOUS
<1> DEFINE S == 0 .. top
           P == {0 .. k : k \in T \cap S}
<1>1. P \subseteq FiniteSubsetsOf(S) /\ P # {}
  <2>1. \A k \in T \cap S : IsFiniteSet(0 .. k) /\ 0 .. k \subseteq S
    BY FS_Interval
  <2> QED BY <2>1 DEF FiniteSubsetsOf
<1>2. \E p \in P : \A r \in P : ~ (<<r, p>> \in StrictSubsetOrdering(S))
  <2> HIDE DEF P, S
  <2> QED BY <1>1, WFMin, FS_StrictSubsetOrderingWellFounded
<1>3. PICK n \in T \cap S : \A r \in P : ~ (<<r, 0 .. n>> \in StrictSubsetOrdering(S))
  BY <1>2
<1>4. \A m \in T : m < n => 0 .. m \in P /\ <<0 .. m, 0 .. n>> \in StrictSubsetOrdering(S)
  <2> SUFFICES ASSUME NEW m \in T, m < n PROVE 0 .. m \in P /\ <<0 .. m, 0 .. n>> \in StrictSubsetOrdering(S)
    OBVIOUS
  <2>1. m \in T \cap S /\ n \in 0 .. n /\ n \notin 0 .. m /\ 0 .. m \subseteq 0 .. n /\ 0 .. n \subseteq S
    OBVIOUS
  <2> QED BY <2>1 DEF StrictSubsetOrdering
<1>5. \A m \in T : ~ (m < n)
  <2> HIDE DEF P
  <2> QED BY <1>3, <1>4
<1>6. \A m \in T : m \in Nat /\ n \in Nat
  OBVIOUS
<1>7. \A m \in T : n <= m
  BY <1>5, <1>6
<1> QED BY <1>7

PickOf(s) == CHOOSE x \in s : TRUE
SumStep(f, g, s) == IF s = {} THEN 0 ELSE f[PickOf(s)] + g[s \ {PickOf(s)}]
IsSum(f, D, g) == g = [s \in D |-> SumStep(f, g, s)]

LEMMA SumIs == ASSUME NEW f, NEW S PROVE SumFunctionOnSet(f, S) = (CHOOSE g : IsSum(f, SUBSET S, g))[S]
BY DEF SumFunctionOnSet, FoldFunctionOnSet, MapThenFoldSet, IsSum, SumStep, PickOf

Small(S, n) == {s \in SUBSET S : Cardinality(s) <= n}

LEMMA Picked ==
  ASSUME NEW S, IsFiniteSet(S), NEW s \in SUBSET S, s # {}
  PROVE  /\ PickOf(s) \in s /\ s \ {PickOf(s)} \in SUBSET S
         /\ Cardinality(s) \in Nat /\ Cardinality(s \ {PickOf(s)}) = Cardinality(s) - 1
<1>1. IsFiniteSet(s)
  BY FS_Subset
<1>2. PickOf(s) \in s
  BY DEF PickOf
<1>3. Cardinality(s) \in Nat
  BY <1>1, FS_CardinalityType
<1> QED BY <1>1, <1>2, <1>3, FS_RemoveElement

LEMMA SumNone ==
  ASSUME NEW f, NEW S
  PROVE  \E g : IsSum(f, {{}}, g)
<1>1. IsSum(f, {{}}, [s \in {{}} |-> 0])
  BY DEF IsSum, SumStep
<1> QED BY <1>1

LEMMA SumNext ==
  ASSUME NEW f, NEW S, IsFiniteSet(S), NEW n \in Nat, NEW g, IsSum(f, Small(S, n), g)
  PROVE  \E h : IsSum(f, Small(S, n + 1), h)
<1> DEFINE h == [s \in Small(S, n + 1) |-> SumStep(f, g, s)]
<1>1. \A s \in Small(S, n) : s \in Small(S, n + 1) /\ h[s] = g[s]
  <2>1. \A s \in Small(S, n) : s \in Small(S, n + 1)
    <3>1. \A s \in SUBSET S : Cardinality(s) \in Nat
      BY FS_Subset, FS_CardinalityType
    <3> QED BY <3>1 DEF Small
  <2>2. \A s \in Small(S, n) : g[s] = SumStep(f, g, s)
    BY DEF IsSum
  <2> QED BY <2>1, <2>2
<1>2. \A s \in Small(S, n + 1) : s # {} => s \ {PickOf(s)} \in Small(S, n)
  BY Picked DEF Small
<1>3. \A s \in Small(S, n + 1) : SumStep(f, g, s) = SumStep(f, h, s)
  <2> HIDE DEF h
  <2> QED BY <1>1, <1>2 DEF SumStep
<1>4. h = [s \in Small(S, n + 1) |-> SumStep(f, h, s)]
  BY <1>3
<1> QED BY <1>4 DEF IsSum

LEMMA SumExists ==
  ASSUME NEW f, NEW S, IsFiniteSet(S)
  PROVE  \E g : IsSum(f, SUBSET S, g)
<1> DEFINE Bad == {n \in Nat : ~ \E g : IsSum(f, Small(S, n), g)}
<1>1. 0 \notin Bad
  <2>1. \A s \in SUBSET S : IsFiniteSet(s) /\ Cardinality(s) \in Nat /\ (Cardinality(s) = 0 <=> s = {})
    BY FS_Subset, FS_CardinalityType, FS_EmptySet
  <2>2. Small(S, 0) = {{}}
    BY <2>1 DEF Small
  <2> QED BY <2>2, SumNone
<1>2. \A n \in Nat : n \notin Bad => n + 1 \notin Bad
  BY SumNext
<1>3. Bad = {}
  <2> HIDE DEF Bad
  <2> SUFFICES ASSUME Bad # {} PROVE FALSE
    OBVIOUS
  <2>0. Bad \in SUBSET Nat
    BY DEF Bad
  <2>1. PICK n \in Bad : \A m \in Bad : n <= m
    BY <2>0, LeastNumber
  <2>2. n \in Nat /\ n # 0 /\ n - 1 \in Nat /\ (n - 1) + 1 = n /\ ~ (n <= n - 1)
    BY <2>0, <1>1
  <2> QED BY <2>1, <2>2, <1>2
<1>4. Cardinality(S) \in Nat /\ \A s \in SUBSET S : Cardinality(s) <= Cardinality(S)
  BY FS_Subset, FS_CardinalityType
<1>5. Small(S, Cardinality(S)) = SUBSET S
  BY <1>4 DEF Small
<1> QED BY <1>3, <1>4, <1>5

(* Two sums agree where both are defined, and where the summands do.       *)
LEMMA SumsAgree ==
  ASSUME NEW f, NEW g, NEW S, NEW T, IsFiniteSet(S), NEW a, NEW b,
         IsSum(f, SUBSET S, a), IsSum(g, SUBSET T, b),
         NEW U \in SUBSET (S \cap T), \A x \in U : f[x] = g[x]
  PROVE  a[U] = b[U]
<1> DEFINE Bad == {n \in Nat : \E s \in SUBSET U : Cardinality(s) = n /\ a[s] # b[s]}
<1>1. Bad = {}
  <2> SUFFICES ASSUME Bad # {} PROVE FALSE
    OBVIOUS
  <2>1. PICK n \in Bad : \A m \in Bad : n <= m
    <3>1. Bad \in SUBSET Nat
      OBVIOUS
    <3> HIDE DEF Bad
    <3> QED BY <3>1, LeastNumber
  <2>2. PICK s \in SUBSET U : Cardinality(s) = n /\ a[s] # b[s]
    OBVIOUS
  <2>3. a[s] = SumStep(f, a, s) /\ b[s] = SumStep(g, b, s)
    BY DEF IsSum
  <2>4. s # {}
    BY <2>2, <2>3 DEF SumStep
  <2>5. PickOf(s) \in s /\ s \ {PickOf(s)} \in SUBSET U /\ n \in Nat /\ Cardinality(s \ {PickOf(s)}) = n - 1
    BY <2>2, <2>4, Picked, FS_Subset
  <2>6. a[s \ {PickOf(s)}] = b[s \ {PickOf(s)}]
    <3>1. n - 1 \notin Bad
      <4> HIDE DEF Bad
      <4> QED BY <2>1, <2>5
    <3>2. n - 1 \in Nat
      <4>1. n # 0
        BY <2>2, <2>4, FS_Subset, FS_EmptySet
      <4> QED BY <4>1, <2>5
    <3> QED BY <3>1, <3>2, <2>5
  <2> QED BY <2>2, <2>3, <2>4, <2>5, <2>6 DEF SumStep
<1>2. Cardinality(U) \in Nat
  BY FS_Subset, FS_CardinalityType
<1> QED BY <1>1, <1>2

Sum(f, S) == SumFunctionOnSet(f, S)

(* What a sum is, by its own choice of the next summand.                   *)
LEMMA SumUnfolds ==
  ASSUME NEW f, NEW S, IsFiniteSet(S)
  PROVE  Sum(f, S) = IF S = {} THEN 0 ELSE f[PickOf(S)] + Sum(f, S \ {PickOf(S)})
<1> DEFINE a == CHOOSE g : IsSum(f, SUBSET S, g)
           T == S \ {PickOf(S)}
           b == CHOOSE g : IsSum(f, SUBSET T, g)
<1>1. IsSum(f, SUBSET S, a)
  BY SumExists
<1>2. IsFiniteSet(T) /\ T \subseteq S
  BY FS_Subset
<1>3. IsSum(f, SUBSET T, b)
  BY <1>2, SumExists
<1>4. Sum(f, S) = a[S] /\ Sum(f, T) = b[T]
  BY SumIs DEF Sum
<1>5. a[S] = SumStep(f, a, S)
  BY <1>1 DEF IsSum
<1>6. a[T] = b[T]
  <2> HIDE DEF a, b, T
  <2>1. T \in SUBSET (S \cap T)
    BY <1>2
  <2> QED BY <1>1, <1>2, <1>3, <2>1, SumsAgree
<1> QED BY <1>4, <1>5, <1>6 DEF SumStep

(* Sums of equal summands are equal.                                       *)
LEMMA SumEqual ==
  ASSUME NEW f, NEW g, NEW S, IsFiniteSet(S), \A x \in S : f[x] = g[x]
  PROVE  Sum(f, S) = Sum(g, S)
<1> DEFINE a == CHOOSE h : IsSum(f, SUBSET S, h)
           b == CHOOSE h : IsSum(g, SUBSET S, h)
<1>1. IsSum(f, SUBSET S, a) /\ IsSum(g, SUBSET S, b)
  BY SumExists
<1>2. Sum(f, S) = a[S] /\ Sum(g, S) = b[S]
  BY SumIs DEF Sum
<1>3. a[S] = b[S]
  <2> HIDE DEF a, b
  <2>1. S \in SUBSET (S \cap S)
    OBVIOUS
  <2> QED BY <1>1, <2>1, SumsAgree
<1> QED BY <1>2, <1>3

(* Induction over the parts of a finite set.                               *)
LEMMA PartsInduction ==
  ASSUME NEW T, IsFiniteSet(T), NEW Good \in SUBSET (SUBSET T), {} \in Good,
         \A s \in Good : \A x \in T \ s : s \cup {x} \in Good
  PROVE  Good = SUBSET T
<1> DEFINE Bad == {n \in Nat : \E s \in SUBSET T : s \notin Good /\ Cardinality(s) = n}
<1>1. Bad = {}
  <2> SUFFICES ASSUME Bad # {} PROVE FALSE
    OBVIOUS
  <2>1. PICK n \in Bad : \A m \in Bad : n <= m
    <3>1. Bad \in SUBSET Nat
      OBVIOUS
    <3> HIDE DEF Bad
    <3> QED BY <3>1, LeastNumber
  <2>2. PICK s \in SUBSET T : s \notin Good /\ Cardinality(s) = n
    OBVIOUS
  <2>3. PICK x \in s : TRUE
    BY <2>2
  <2>4. s \ {x} \in SUBSET T /\ x \in T \ (s \ {x}) /\ s = (s \ {x}) \cup {x}
    OBVIOUS
  <2>5. Cardinality(s \ {x}) = n - 1 /\ n - 1 \in Nat
    <3>1. IsFiniteSet(s) /\ IsFiniteSet(s \ {x})
      BY FS_Subset
    <3>2. Cardinality(s \ {x}) = Cardinality(s) - 1 /\ Cardinality(s \ {x}) \in Nat
      BY <3>1, FS_RemoveElement, FS_CardinalityType
    <3> QED BY <2>2, <3>2
  <2>6. n - 1 \notin Bad
    <3>1. n \in Nat /\ ~(n <= n - 1)
      OBVIOUS
    <3> HIDE DEF Bad
    <3> QED BY <2>1, <3>1
  <2>7. s \ {x} \in Good
    BY <2>4, <2>5, <2>6
  <2> QED BY <2>2, <2>4, <2>7
<1>2. \A s \in SUBSET T : Cardinality(s) \in Nat
  BY FS_Subset, FS_CardinalityType
<1> QED BY <1>1, <1>2

(* Induction over the numbers.                                             *)
LEMMA NumberInduction ==
  ASSUME NEW Good, 0 \in Good, \A k \in Nat : k \in Good => k + 1 \in Good
  PROVE  Nat \subseteq Good
<1> SUFFICES ASSUME Nat \ Good # {} PROVE FALSE
  OBVIOUS
<1>1. PICK n \in Nat \ Good : \A m \in Nat \ Good : n <= m
  BY LeastNumber
<1>2. n # 0 /\ n - 1 \in Nat /\ (n - 1) + 1 = n /\ ~(n <= n - 1)
  OBVIOUS
<1> QED BY <1>1, <1>2

LEMMA SumOfNone == ASSUME NEW f PROVE Sum(f, {}) = 0
BY SumUnfolds, FS_EmptySet

(* A sum is any of its summands and the sum of the others.                 *)
LEMMA SumRemove ==
  ASSUME NEW f, NEW T, IsFiniteSet(T), \A x \in T : f[x] \in Int
  PROVE  Sum(f, T) \in Int /\ \A x \in T : Sum(f, T) = f[x] + Sum(f, T \ {x})
<1> DEFINE Q(s) == Sum(f, s) \in Int /\ \A x \in s : Sum(f, s) = f[x] + Sum(f, s \ {x})
           Bad == {n \in Nat : \E s \in SUBSET T : ~Q(s) /\ Cardinality(s) = n}
<1>1. Bad = {}
  <2> SUFFICES ASSUME Bad # {} PROVE FALSE
    OBVIOUS
  <2>1. PICK n \in Bad : \A m \in Bad : n <= m
    <3>1. Bad \in SUBSET Nat
      OBVIOUS
    <3> HIDE DEF Bad
    <3> QED BY <3>1, LeastNumber
  <2>2. PICK s \in SUBSET T : ~Q(s) /\ Cardinality(s) = n
    OBVIOUS
  <2>3. IsFiniteSet(s) /\ \A x \in s : IsFiniteSet(s \ {x})
    BY FS_Subset
  <2>4. \A x \in s : Q(s \ {x})
    <3> SUFFICES ASSUME NEW x \in s, ~Q(s \ {x}) PROVE FALSE
      OBVIOUS
    <3>1. Cardinality(s \ {x}) = n - 1 /\ n - 1 \in Nat /\ s \ {x} \in SUBSET T
      <4>1. Cardinality(s \ {x}) = Cardinality(s) - 1 /\ Cardinality(s \ {x}) \in Nat
        BY <2>3, FS_RemoveElement, FS_CardinalityType
      <4> QED BY <2>2, <4>1
    <3>2. n - 1 \in Bad
      <4> HIDE DEF Q
      <4> QED BY <3>1
    <3>3. n - 1 \in Nat /\ n \in Nat /\ ~(n <= n - 1)
      BY <3>1
    <3> HIDE DEF Bad
    <3> QED BY <2>1, <3>2, <3>3
  <2>5. s # {}
    <3>1. Q({})
      BY SumOfNone
    <3> HIDE DEF Q
    <3> QED BY <2>2, <3>1
  <2>6. PICK y \in s : Sum(f, s) = f[y] + Sum(f, s \ {y})
    <3>1. PickOf(s) \in s
      BY <2>5 DEF PickOf
    <3> QED BY <2>3, <2>5, <3>1, SumUnfolds
  <2>7. Sum(f, s) \in Int
    <3>1. f[y] \in Int /\ Sum(f, s \ {y}) \in Int
      BY <2>4
    <3> QED BY <2>6, <3>1
  <2>8. ASSUME NEW x \in s PROVE Sum(f, s) = f[x] + Sum(f, s \ {x})
    <3>1. CASE x = y
      BY <2>6, <3>1
    <3>2. CASE x # y
      <4>1. x \in s \ {y} /\ y \in s \ {x} /\ (s \ {y}) \ {x} = (s \ {x}) \ {y}
        BY <3>2
      <4>2. PICK rest : rest = Sum(f, (s \ {x}) \ {y})
        OBVIOUS
      <4>3. Sum(f, s \ {y}) = f[x] + rest
        BY <2>4, <4>1, <4>2
      <4>4. Sum(f, s \ {x}) = f[y] + rest
        BY <2>4, <4>1, <4>2
      <4>5. f[x] \in Int /\ f[y] \in Int /\ Sum(f, s \ {x}) \in Int
        BY <2>4
      <4>6. rest \in Int
        <5>1. Q(s \ {y})
          BY <2>4
        <5>2. IsFiniteSet((s \ {x}) \ {y})
          BY <2>3, FS_Subset
        <5>3. Cardinality((s \ {x}) \ {y}) = n - 2 /\ n - 2 \in Nat /\ (s \ {x}) \ {y} \in SUBSET T
          <6>1. Cardinality(s) \in Nat /\ Cardinality(s \ {x}) = Cardinality(s) - 1
                /\ Cardinality((s \ {x}) \ {y}) = Cardinality(s \ {x}) - 1 /\ Cardinality((s \ {x}) \ {y}) \in Nat
            BY <2>3, <4>1, <5>2, FS_RemoveElement, FS_CardinalityType
          <6> QED BY <2>2, <6>1
        <5>4. n - 2 \notin Bad
          <6>1. n \in Nat /\ ~(n <= n - 2)
            OBVIOUS
          <6> HIDE DEF Bad
          <6> QED BY <2>1, <6>1
        <5>5. Q((s \ {x}) \ {y})
          <6> HIDE DEF Q
          <6> QED BY <5>3, <5>4
        <5> QED BY <4>2, <5>5
      <4> QED BY <2>6, <4>3, <4>4, <4>5, <4>6
    <3> QED BY <3>1, <3>2
  <2> QED BY <2>2, <2>7, <2>8
<1>2. Cardinality(T) \in Nat
  BY FS_CardinalityType
<1>3. Q(T)
  <2> HIDE DEF Q
  <2> QED BY <1>1, <1>2
<1> QED BY <1>3

LEMMA SumAdd ==
  ASSUME NEW f, NEW S, IsFiniteSet(S), NEW x, x \notin S, \A y \in S \cup {x} : f[y] \in Int
  PROVE  /\ Sum(f, S \cup {x}) = f[x] + Sum(f, S) /\ Sum(f, S) \in Int /\ f[x] \in Int
         /\ Sum(f, S \cup {x}) \in Int
<1>1. IsFiniteSet(S \cup {x}) /\ (S \cup {x}) \ {x} = S
  BY FS_AddElement
<1>2. Sum(f, S) \in Int /\ Sum(f, S \cup {x}) \in Int
  BY <1>1, SumRemove
<1> QED BY <1>1, <1>2, SumRemove

(* Two sums over one set, added up or compared summand by summand.         *)
LEMMA SumPlus ==
  ASSUME NEW f, NEW g, NEW h, NEW T, IsFiniteSet(T),
         \A x \in T : f[x] \in Int /\ g[x] \in Int /\ h[x] = f[x] + g[x]
  PROVE  Sum(h, T) = Sum(f, T) + Sum(g, T)
<1> DEFINE Good == {s \in SUBSET T : Sum(h, s) = Sum(f, s) + Sum(g, s)}
<1>1. {} \in Good
  BY SumOfNone
<1>2. ASSUME NEW s \in Good, NEW x \in T \ s PROVE s \cup {x} \in Good
  <2>1. IsFiniteSet(s) /\ s \cup {x} \in SUBSET T
    BY FS_Subset
  <2>2. \A y \in s \cup {x} : f[y] \in Int /\ g[y] \in Int /\ h[y] \in Int
    BY <2>1
  <2>3. /\ Sum(f, s \cup {x}) = f[x] + Sum(f, s) /\ Sum(f, s) \in Int /\ f[x] \in Int
        /\ Sum(g, s \cup {x}) = g[x] + Sum(g, s) /\ Sum(g, s) \in Int /\ g[x] \in Int
        /\ Sum(h, s \cup {x}) = h[x] + Sum(h, s) /\ Sum(h, s) \in Int /\ h[x] \in Int
    BY <2>1, <2>2, SumAdd
  <2>4. h[x] = f[x] + g[x] /\ Sum(h, s) = Sum(f, s) + Sum(g, s)
    OBVIOUS
  <2>5. Sum(h, s \cup {x}) = Sum(f, s \cup {x}) + Sum(g, s \cup {x})
    BY <2>3, <2>4
  <2> QED BY <2>1, <2>5
<1>3. Good = SUBSET T
  <2>1. Good \in SUBSET (SUBSET T)
    OBVIOUS
  <2> HIDE DEF Good
  <2> QED BY <1>1, <1>2, <2>1, PartsInduction
<1> QED BY <1>3

LEMMA SumLess ==
  ASSUME NEW f, NEW g, NEW T, IsFiniteSet(T), \A x \in T : f[x] \in Int /\ g[x] \in Int /\ f[x] <= g[x]
  PROVE  Sum(f, T) <= Sum(g, T)
<1> DEFINE Good == {s \in SUBSET T : Sum(f, s) <= Sum(g, s)}
<1>1. {} \in Good
  BY SumOfNone
<1>2. ASSUME NEW s \in Good, NEW x \in T \ s PROVE s \cup {x} \in Good
  <2>1. IsFiniteSet(s) /\ s \cup {x} \in SUBSET T
    BY FS_Subset
  <2>3. /\ Sum(f, s \cup {x}) = f[x] + Sum(f, s) /\ Sum(f, s) \in Int /\ f[x] \in Int
        /\ Sum(g, s \cup {x}) = g[x] + Sum(g, s) /\ Sum(g, s) \in Int /\ g[x] \in Int
    BY <2>1, SumAdd
  <2>4. f[x] <= g[x] /\ Sum(f, s) <= Sum(g, s)
    OBVIOUS
  <2>5. Sum(f, s \cup {x}) <= Sum(g, s \cup {x})
    BY <2>3, <2>4
  <2> QED BY <2>1, <2>5
<1>3. Good = SUBSET T
  <2>1. Good \in SUBSET (SUBSET T)
    OBVIOUS
  <2> HIDE DEF Good
  <2> QED BY <1>1, <1>2, <2>1, PartsInduction
<1> QED BY <1>3

LEMMA SumNat ==
  ASSUME NEW f, NEW T, IsFiniteSet(T), \A x \in T : f[x] \in Nat
  PROVE  Sum(f, T) \in Nat
<1> DEFINE Good == {s \in SUBSET T : Sum(f, s) \in Nat}
<1>1. {} \in Good
  BY SumOfNone
<1>2. ASSUME NEW s \in Good, NEW x \in T \ s PROVE s \cup {x} \in Good
  <2>1. IsFiniteSet(s) /\ s \cup {x} \in SUBSET T
    BY FS_Subset
  <2>2. Sum(f, s \cup {x}) = f[x] + Sum(f, s) /\ f[x] \in Nat /\ Sum(f, s) \in Nat
    BY <2>1, SumAdd
  <2> QED BY <2>1, <2>2
<1>3. Good = SUBSET T
  <2>1. Good \in SUBSET (SUBSET T)
    OBVIOUS
  <2> HIDE DEF Good
  <2> QED BY <1>1, <1>2, <2>1, PartsInduction
<1> QED BY <1>3

(* Two sets with nothing in common.                                        *)
LEMMA SumJoin ==
  ASSUME NEW f, NEW S, NEW T, IsFiniteSet(S), IsFiniteSet(T), S \cap T = {}, \A x \in S \cup T : f[x] \in Int
  PROVE  Sum(f, S \cup T) = Sum(f, S) + Sum(f, T)
<1> DEFINE Good == {s \in SUBSET T : Sum(f, S \cup s) = Sum(f, S) + Sum(f, s)}
<1>0. Sum(f, S) \in Int
  BY SumRemove
<1>1. {} \in Good
  <2>1. S \cup {} = S
    OBVIOUS
  <2> QED BY <1>0, <2>1, SumOfNone
<1>2. ASSUME NEW s \in Good, NEW x \in T \ s PROVE s \cup {x} \in Good
  <2>1. IsFiniteSet(s) /\ s \cup {x} \in SUBSET T /\ IsFiniteSet(S \cup s) /\ x \notin S \cup s
        /\ S \cup (s \cup {x}) = (S \cup s) \cup {x}
    <3>1. IsFiniteSet(s)
      BY FS_Subset
    <3>2. IsFiniteSet(S \cup s)
      BY <3>1, FS_Union
    <3> QED BY <3>1, <3>2
  <2>2. Sum(f, s \cup {x}) = f[x] + Sum(f, s) /\ Sum(f, s) \in Int /\ f[x] \in Int
    BY <2>1, SumAdd
  <2>3. Sum(f, (S \cup s) \cup {x}) = f[x] + Sum(f, S \cup s) /\ Sum(f, S \cup s) \in Int
    BY <2>1, SumAdd
  <2>4. Sum(f, S \cup s) = Sum(f, S) + Sum(f, s)
    OBVIOUS
  <2>5. Sum(f, S \cup (s \cup {x})) = f[x] + Sum(f, S \cup s)
    BY <2>1, <2>3
  <2>6. f[x] + (Sum(f, S) + Sum(f, s)) = Sum(f, S) + (f[x] + Sum(f, s))
    BY <1>0, <2>2
  <2>7. Sum(f, S \cup (s \cup {x})) = Sum(f, S) + Sum(f, s \cup {x})
    BY <2>2, <2>4, <2>5, <2>6
  <2> QED BY <2>1, <2>7
<1>3. Good = SUBSET T
  <2>1. Good \in SUBSET (SUBSET T)
    OBVIOUS
  <2> HIDE DEF Good
  <2> QED BY <1>1, <1>2, <2>1, PartsInduction
<1> QED BY <1>3

LEMMA SumPart ==
  ASSUME NEW f, NEW S, NEW T, IsFiniteSet(T), S \subseteq T, \A x \in T : f[x] \in Nat
  PROVE  Sum(f, S) <= Sum(f, T) /\ Sum(f, S) \in Nat /\ Sum(f, T) \in Nat
<1>1. IsFiniteSet(S) /\ IsFiniteSet(T \ S) /\ S \cap (T \ S) = {} /\ S \cup (T \ S) = T
  BY FS_Subset
<1>2. Sum(f, T) = Sum(f, S) + Sum(f, T \ S)
  BY <1>1, SumJoin
<1>3. Sum(f, S) \in Nat /\ Sum(f, T \ S) \in Nat
  BY <1>1, SumNat
<1> QED BY <1>2, <1>3

(* What has a summand of its own worth as much adds up to no more.         *)
LEMMA SumInto ==
  ASSUME NEW f, NEW g, NEW S, NEW T, IsFiniteSet(T), NEW h \in [S -> T], \A x, y \in S : h[x] = h[y] => x = y,
         \A x \in S : f[x] \in Int /\ f[x] <= g[h[x]], \A y \in T : g[y] \in Nat
  PROVE  IsFiniteSet(S) /\ Sum(f, S) <= Sum(g, T) /\ Sum(g, T) \in Nat
<1>0. IsFiniteSet(S)
  <2>1. h \in Injection(S, T)
    BY DEF Injection, IsInjective
  <2> QED BY <2>1, FS_Injection
<1> DEFINE im(s) == {h[x] : x \in s}
           Good == {s \in SUBSET S : Sum(f, s) <= Sum(g, im(s))}
<1>1. {} \in Good
  <2>1. im({}) = {}
    OBVIOUS
  <2> QED BY <2>1, SumOfNone
<1>2. ASSUME NEW s \in Good, NEW x \in S \ s PROVE s \cup {x} \in Good
  <2>1. IsFiniteSet(s) /\ s \cup {x} \in SUBSET S
    BY <1>0, FS_Subset
  <2>2. im(s) \subseteq T /\ IsFiniteSet(im(s)) /\ h[x] \in T /\ h[x] \notin im(s) /\ im(s \cup {x}) = im(s) \cup {h[x]}
    <3>1. im(s) \subseteq T
      OBVIOUS
    <3>2. IsFiniteSet(im(s))
      BY <3>1, FS_Subset
    <3> QED BY <3>1, <3>2
  <2>3. Sum(f, s \cup {x}) = f[x] + Sum(f, s) /\ Sum(f, s) \in Int /\ f[x] \in Int
    BY <2>1, SumAdd
  <2>4. Sum(g, im(s) \cup {h[x]}) = g[h[x]] + Sum(g, im(s)) /\ Sum(g, im(s)) \in Int /\ g[h[x]] \in Int
    <3>1. \A y \in im(s) \cup {h[x]} : g[y] \in Int
      BY <2>2
    <3> HIDE DEF im
    <3> QED BY <2>2, <3>1, SumAdd
  <2>5. Sum(f, s) <= Sum(g, im(s)) /\ f[x] <= g[h[x]]
    OBVIOUS
  <2>6. Sum(f, s \cup {x}) <= Sum(g, im(s \cup {x}))
    <3> HIDE DEF im
    <3> QED BY <2>2, <2>3, <2>4, <2>5
  <2> QED BY <2>1, <2>6
<1>3. Good = SUBSET S
  <2>1. Good \in SUBSET (SUBSET S)
    OBVIOUS
  <2> HIDE DEF Good
  <2> QED BY <1>0, <1>1, <1>2, <2>1, PartsInduction
<1>4. Sum(f, S) <= Sum(g, im(S)) /\ im(S) \subseteq T
  BY <1>3
<1>5. Sum(g, im(S)) <= Sum(g, T) /\ Sum(g, im(S)) \in Nat /\ Sum(g, T) \in Nat
  <2> HIDE DEF im
  <2> QED BY <1>4, SumPart
<1>6. Sum(f, S) \in Int
  BY <1>0, SumRemove
<1> QED BY <1>0, <1>4, <1>5, <1>6

LEMMA SumOver ==
  ASSUME NEW f
  PROVE  SumFunction(f) = Sum(f, DOMAIN f)
BY DEF SumFunction, FoldFunction, Sum, SumFunctionOnSet

LEMMA SumOne ==
  ASSUME NEW f, NEW x, f[x] \in Int
  PROVE  Sum(f, {x}) = f[x]
<1>1. Sum(f, {} \cup {x}) = f[x] + Sum(f, {})
  BY FS_EmptySet, SumAdd
<1>2. {} \cup {x} = {x}
  OBVIOUS
<1> QED BY <1>1, <1>2, SumOfNone

(* Adding up rows first or columns first.                                  *)
Table(F, G, S, T, rows, columns) ==
  /\ IsFiniteSet(S) /\ IsFiniteSet(T) /\ \A x \in S, y \in T : F[x][y] \in Int /\ G[y][x] = F[x][y]
  /\ \A x \in S : rows[x] = Sum(F[x], T)
  /\ \A y \in T : columns[y] = Sum(G[y], S)

LEMMA SumSwap ==
  ASSUME NEW F, NEW G, NEW S, NEW T, NEW rows, NEW columns, Table(F, G, S, T, rows, columns)
  PROVE  Sum(rows, S) = Sum(columns, T)
<1> USE DEF Table
<1> DEFINE across == [x \in S |-> Sum(F[x], T)]
           down(y) == [x \in S |-> F[x][y]]
           by(s) == [y \in T |-> Sum(down(y), s)]
           Good == {s \in SUBSET S : Sum(across, s) = Sum(by(s), T)}
<1>0. \A x \in S : across[x] \in Int /\ across[x] = Sum(F[x], T)
  BY SumRemove
<1>1. {} \in Good
  <2>1. \A y \in T : by({})[y] = 0
    BY SumOfNone
  <2>2. Sum(by({}), T) = Sum([y \in T |-> 0], T)
    <3>1. \A y \in T : by({})[y] = [z \in T |-> 0][y]
      BY <2>1
    <3> HIDE DEF by
    <3> QED BY <3>1, SumEqual
  <2>3. Sum([y \in T |-> 0], T) = 0
    <3> DEFINE z == [y \in T |-> 0]
    <3>1. \A y \in T : z[y] \in Int /\ z[y] = z[y] + z[y]
      OBVIOUS
    <3> HIDE DEF z
    <3>2. Sum(z, T) = Sum(z, T) + Sum(z, T) /\ Sum(z, T) \in Int
      BY <3>1, SumPlus, SumRemove
    <3>3. PICK n \in Int : n = Sum(z, T)
      BY <3>2
    <3>4. n = n + n
      BY <3>2, <3>3
    <3>5. n = 0
      BY <3>4
    <3> QED BY <3>3, <3>5 DEF z
  <2> QED BY <2>2, <2>3, SumOfNone
<1>2. ASSUME NEW s \in Good, NEW x \in S \ s PROVE s \cup {x} \in Good
  <2>1. IsFiniteSet(s) /\ s \cup {x} \in SUBSET S
    BY FS_Subset
  <2>2. Sum(across, s \cup {x}) = across[x] + Sum(across, s)
    <3>1. \A z \in s \cup {x} : across[z] \in Int
      BY <1>0, <2>1
    <3> HIDE DEF across
    <3> QED BY <2>1, <3>1, SumAdd
  <2>3. \A y \in T : F[x][y] \in Int /\ by(s)[y] \in Int /\ by(s \cup {x})[y] = F[x][y] + by(s)[y]
    <3> TAKE y \in T
    <3>1. \A z \in s \cup {x} : down(y)[z] \in Int /\ down(y)[x] = F[x][y]
      BY <2>1
    <3>2. F[x][y] \in Int
      OBVIOUS
    <3>3. Sum(down(y), s \cup {x}) = down(y)[x] + Sum(down(y), s) /\ Sum(down(y), s) \in Int
      <4> HIDE DEF down
      <4> QED BY <2>1, <3>1, SumAdd
    <3>4. by(s)[y] = Sum(down(y), s) /\ by(s \cup {x})[y] = Sum(down(y), s \cup {x})
      BY DEF down, by
    <3> HIDE DEF down, by
    <3> QED BY <3>1, <3>2, <3>3, <3>4
  <2>4. Sum(by(s \cup {x}), T) = Sum(F[x], T) + Sum(by(s), T)
    <3>1. PICK f, g, h : f = F[x] /\ g = by(s) /\ h = by(s \cup {x})
      OBVIOUS
    <3>2. \A y \in T : f[y] \in Int /\ g[y] \in Int /\ h[y] = f[y] + g[y]
      <4> HIDE DEF by
      <4> QED BY <2>3, <3>1
    <3>3. Sum(h, T) = Sum(f, T) + Sum(g, T)
      BY <3>2, SumPlus
    <3> HIDE DEF by
    <3> QED BY <3>1, <3>3
  <2>5. across[x] = Sum(F[x], T) /\ Sum(across, s) = Sum(by(s), T)
    OBVIOUS
  <2> HIDE DEF across, by
  <2> QED BY <2>1, <2>2, <2>4, <2>5
<1>3. Good = SUBSET S
  <2>1. Good \in SUBSET (SUBSET S)
    OBVIOUS
  <2> HIDE DEF Good
  <2> QED BY <1>1, <1>2, <2>1, PartsInduction
<1>4. Sum(across, S) = Sum(by(S), T)
  BY <1>3
<1>5. \A x \in S : rows[x] = across[x]
  BY <1>0
<1>6. \A y \in T : columns[y] = by(S)[y]
  <2> TAKE y \in T
  <2>1. \A x \in S : G[y][x] = down(y)[x]
    OBVIOUS
  <2>2. by(S)[y] = Sum(down(y), S)
    BY DEF by
  <2> HIDE DEF down, by
  <2>3. Sum(G[y], S) = Sum(down(y), S)
    BY <2>1, SumEqual
  <2> QED BY <2>2, <2>3
<1> HIDE DEF across, by
<1> QED BY <1>4, <1>5, <1>6, SumEqual

-----------------------------------------------------------------------------
(* Spreading an amount.                                                    *)

LEMMA Smaller ==
  ASSUME NEW a \in Int, NEW b \in Int
  PROVE  /\ AtLeastZero(a) \in Nat /\ AtLeastZero(a) >= a /\ (a >= 0 => AtLeastZero(a) = a) /\ (a <= 0 => AtLeastZero(a) = 0)
         /\ Least(a, b) \in Int /\ Least(a, b) <= a /\ Least(a, b) <= b /\ (Least(a, b) = a \/ Least(a, b) = b)
BY DEF AtLeastZero, Least

RestStep(amount, caps, rest, i) ==
  IF i = 0 THEN amount ELSE rest[i - 1] - AtLeastZero(Least(rest[i - 1], caps[i]))
IsRest(amount, caps, n, rest) == rest = [i \in 0 .. n |-> RestStep(amount, caps, rest, i)]
RestOf(amount, caps) == CHOOSE rest : IsRest(amount, caps, Len(caps), rest)

LEMMA SpreadIs ==
  ASSUME NEW amount, NEW caps
  PROVE  Spread(amount, caps) = [parts |-> [i \in DOMAIN caps |-> RestOf(amount, caps)[i - 1] - RestOf(amount, caps)[i]],
                                 rest |-> RestOf(amount, caps)[Len(caps)]]
BY DEF Spread, RestOf, IsRest, RestStep

LEMMA RestExists ==
  ASSUME NEW amount, NEW caps, NEW n \in Nat
  PROVE  \E rest : IsRest(amount, caps, n, rest)
<1> DEFINE Good == {k \in Nat : \E rest : IsRest(amount, caps, k, rest)}
<1>1. 0 \in Good
  <2>1. IsRest(amount, caps, 0, [i \in 0 .. 0 |-> amount])
    BY DEF IsRest, RestStep
  <2> QED BY <2>1
<1>2. \A k \in Nat : k \in Good => k + 1 \in Good
  <2> SUFFICES ASSUME NEW k \in Nat, k \in Good PROVE k + 1 \in Good
    OBVIOUS
  <2>1. PICK rest : IsRest(amount, caps, k, rest)
    OBVIOUS
  <2> DEFINE more == [i \in 0 .. k + 1 |-> RestStep(amount, caps, rest, i)]
  <2>2. \A i \in 0 .. k : more[i] = rest[i]
    <3>1. \A i \in 0 .. k : i \in 0 .. k + 1
      OBVIOUS
    <3>2. \A i \in 0 .. k : rest[i] = RestStep(amount, caps, rest, i)
      BY <2>1 DEF IsRest
    <3> QED BY <3>1, <3>2
  <2>3. \A i \in 0 .. k + 1 : RestStep(amount, caps, rest, i) = RestStep(amount, caps, more, i)
    <3> SUFFICES ASSUME NEW i \in 0 .. k + 1 PROVE RestStep(amount, caps, rest, i) = RestStep(amount, caps, more, i)
      OBVIOUS
    <3>1. CASE i = 0
      BY <3>1 DEF RestStep
    <3>2. CASE i # 0
      <4>1. i - 1 \in 0 .. k
        BY <3>2
      <4>2. more[i - 1] = rest[i - 1]
        <5> HIDE DEF more
        <5> QED BY <2>2, <4>1
      <4> HIDE DEF more
      <4> QED BY <3>2, <4>2 DEF RestStep
    <3> QED BY <3>1, <3>2
  <2>4. IsRest(amount, caps, k + 1, more)
    BY <2>3 DEF IsRest
  <2> QED BY <2>4
<1>3. Nat \subseteq Good
  <2> HIDE DEF Good
  <2> QED BY <1>1, <1>2, NumberInduction
<1> QED BY <1>3

(* How what is left goes down, from one cap to the next.                   *)
LEMMA RestSteps ==
  ASSUME NEW amount \in Nat, NEW caps \in Seq(Int)
  PROVE  LET rest == RestOf(amount, caps) IN
         /\ rest[0] = amount
         /\ \A i \in 1 .. Len(caps) : rest[i] = rest[i - 1] - AtLeastZero(Least(rest[i - 1], caps[i]))
         /\ \A i \in 0 .. Len(caps) : rest[i] \in 0 .. amount
         /\ \A i, j \in 0 .. Len(caps) : i <= j => rest[j] <= rest[i]
<1> DEFINE rest == RestOf(amount, caps)
           n == Len(caps)
<1>0. n \in Nat
  OBVIOUS
<1>1. IsRest(amount, caps, n, rest)
  BY <1>0, RestExists DEF RestOf
<1>2. \A i \in 0 .. n : rest[i] = RestStep(amount, caps, rest, i)
  BY <1>1 DEF IsRest
<1>3. rest[0] = amount
  BY <1>0, <1>2 DEF RestStep
<1>4. \A i \in 1 .. n : rest[i] = rest[i - 1] - AtLeastZero(Least(rest[i - 1], caps[i]))
  BY <1>2 DEF RestStep
<1> HIDE DEF rest
<1>5. \A k \in Nat : k + 1 <= n /\ rest[k] \in 0 .. amount => rest[k + 1] \in 0 .. rest[k]
  <2> SUFFICES ASSUME NEW k \in Nat, k + 1 <= n, rest[k] \in 0 .. amount PROVE rest[k + 1] \in 0 .. rest[k]
    OBVIOUS
  <2>1. rest[k + 1] = rest[k] - AtLeastZero(Least(rest[k], caps[k + 1])) /\ caps[k + 1] \in Int
    <3>1. k + 1 \in 1 .. n /\ (k + 1) - 1 = k
      BY <1>0
    <3> QED BY <1>4, <3>1
  <2>2. AtLeastZero(Least(rest[k], caps[k + 1])) \in 0 .. rest[k]
    <3>1. rest[k] \in Int /\ rest[k] >= 0
      OBVIOUS
    <3> HIDE DEF n
    <3> QED BY <2>1, <3>1 DEF AtLeastZero, Least
  <2> HIDE DEF n
  <2> QED BY <2>1, <2>2
<1>6. \A i \in 0 .. n : rest[i] \in 0 .. amount
  <2> DEFINE Good == {k \in Nat : k <= n => rest[k] \in 0 .. amount}
  <2>1. 0 \in Good
    BY <1>3
  <2>2. \A k \in Nat : k \in Good => k + 1 \in Good
    <3> HIDE DEF n
    <3> QED BY <1>0, <1>5
  <2>3. Nat \subseteq Good
    <3> HIDE DEF Good
    <3> QED BY <2>1, <2>2, NumberInduction
  <2> QED BY <2>3
<1>7. \A i, j \in 0 .. n : i <= j => rest[j] <= rest[i]
  <2> SUFFICES ASSUME NEW i \in 0 .. n PROVE \A j \in 0 .. n : i <= j => rest[j] <= rest[i]
    OBVIOUS
  <2> DEFINE Good == {k \in Nat : k <= n /\ i <= k => rest[k] <= rest[i]}
  <2>1. 0 \in Good
    BY <1>6
  <2>2. \A k \in Nat : k \in Good => k + 1 \in Good
    <3> SUFFICES ASSUME NEW k \in Nat, k \in Good, k + 1 <= n /\ i <= k + 1 PROVE rest[k + 1] <= rest[i]
      <4>1. \A k \in Nat : k + 1 \in Nat
        OBVIOUS
      <4> QED BY <4>1
    <3>1. rest[k] \in Int /\ rest[k + 1] \in Int /\ rest[i] \in Int /\ rest[k + 1] <= rest[k]
      <4> HIDE DEF n
      <4> QED BY <1>0, <1>5, <1>6
    <3>2. CASE i = k + 1
      BY <3>1, <3>2
    <3>3. CASE i # k + 1
      <4>1. rest[k] <= rest[i]
        BY <1>0, <3>3
      <4> QED BY <3>1, <4>1
    <3> QED BY <3>2, <3>3
  <2>3. Nat \subseteq Good
    <3> HIDE DEF Good
    <3> QED BY <2>1, <2>2, NumberInduction
  <2> QED BY <2>3
<1> QED BY <1>3, <1>4, <1>6, <1>7 DEF rest

(* The parts come from the caps in order, and with the rest to the amount. *)
LEMMA SpreadParts ==
  ASSUME NEW amount \in Nat, NEW caps \in Seq(Int)
  PROVE  LET parts == Spread(amount, caps).parts
             rest  == Spread(amount, caps).rest IN
         /\ parts \in [DOMAIN caps -> Nat] /\ parts \in Seq(Nat) /\ rest \in Nat
         /\ \A i \in DOMAIN caps : parts[i] <= AtLeastZero(caps[i])
         /\ \A p \in DOMAIN caps : parts[p] > 0 => \A q \in 1 .. p - 1 : parts[q] = AtLeastZero(caps[q])
         /\ SumFunction(parts) \in Nat /\ SumFunction(parts) + rest = amount
<1> DEFINE r == RestOf(amount, caps)
           n == Len(caps)
<1>0. n \in Nat /\ DOMAIN caps = 1 .. n
  OBVIOUS
<1>1. PICK parts, rest : /\ parts = [i \in DOMAIN caps |-> r[i - 1] - r[i]] /\ rest = r[n]
                         /\ parts = Spread(amount, caps).parts /\ rest = Spread(amount, caps).rest
  BY SpreadIs
<1>2. /\ r[0] = amount
      /\ \A i \in 1 .. n : r[i] = r[i - 1] - AtLeastZero(Least(r[i - 1], caps[i]))
      /\ \A i \in 0 .. n : r[i] \in 0 .. amount
      /\ \A i, j \in 0 .. n : i <= j => r[j] <= r[i]
  BY RestSteps
<1>3. \A i \in 1 .. n : caps[i] \in Int
  OBVIOUS
<1> HIDE DEF r, n
<1>4. \A i \in 1 .. n : /\ r[i - 1] \in Nat /\ r[i] \in Nat /\ r[i] <= r[i - 1] /\ parts[i] = r[i - 1] - r[i]
                        /\ parts[i] = AtLeastZero(Least(r[i - 1], caps[i])) /\ parts[i] \in Nat
  <2> TAKE i \in 1 .. n
  <2>1. i \in 0 .. n /\ i - 1 \in 0 .. n /\ i - 1 <= i
    BY <1>0
  <2>2. r[i - 1] \in Nat /\ r[i] \in Nat /\ r[i] <= r[i - 1]
    BY <1>2, <2>1
  <2>3. parts[i] = r[i - 1] - r[i]
    BY <1>0, <1>1
  <2>4. AtLeastZero(Least(r[i - 1], caps[i])) \in Nat
    <3>1. r[i - 1] \in Int /\ caps[i] \in Int
      BY <1>3, <2>2
    <3>2. Least(r[i - 1], caps[i]) \in Int
      BY <3>1, Smaller
    <3> QED BY <3>2, Smaller
  <2>5. r[i] = r[i - 1] - AtLeastZero(Least(r[i - 1], caps[i]))
    BY <1>2
  <2>6. parts[i] = AtLeastZero(Least(r[i - 1], caps[i]))
    BY <2>2, <2>3, <2>4, <2>5
  <2> QED BY <2>2, <2>3, <2>4, <2>6
<1>5. parts \in [DOMAIN caps -> Nat] /\ parts \in Seq(Nat) /\ rest \in Nat
  <2>1. parts \in [1 .. n -> Nat]
    BY <1>0, <1>1, <1>4
  <2>2. rest \in Nat
    <3>1. n \in 0 .. n
      BY <1>0
    <3>2. r[n] \in 0 .. amount
      BY <1>2, <3>1
    <3>3. r[n] \in Nat
      BY <3>2
    <3> QED BY <1>1, <3>3
  <2> QED BY <1>0, <2>1, <2>2
<1>6. \A i \in 1 .. n : parts[i] <= AtLeastZero(caps[i])
  <2> TAKE i \in 1 .. n
  <2>1. r[i - 1] \in Int /\ caps[i] \in Int /\ parts[i] = AtLeastZero(Least(r[i - 1], caps[i]))
    BY <1>3, <1>4
  <2> QED BY <2>1 DEF AtLeastZero, Least
<1>7. ASSUME NEW p \in 1 .. n, parts[p] > 0, NEW q \in 1 .. p - 1 PROVE parts[q] = AtLeastZero(caps[q])
  <2>1. q \in 1 .. n /\ q \in 0 .. n /\ p - 1 \in 0 .. n /\ q <= p - 1
    BY <1>0
  <2>2. r[p - 1] > 0 /\ r[p - 1] <= r[q]
    <3>1. r[p - 1] \in Nat /\ r[p] \in Nat /\ parts[p] = r[p - 1] - r[p]
      BY <1>4
    <3> QED BY <1>2, <1>7, <2>1, <3>1
  <2>3. r[q] > 0 /\ r[q] \in Nat /\ r[q - 1] \in Nat /\ parts[q] = r[q - 1] - r[q]
        /\ parts[q] = AtLeastZero(Least(r[q - 1], caps[q])) /\ caps[q] \in Int /\ r[p - 1] \in Nat
    BY <1>3, <1>4, <2>1, <2>2
  <2> QED BY <2>3 DEF AtLeastZero, Least
<1>8. Sum(parts, 1 .. n) = amount - rest /\ Sum(parts, 1 .. n) \in Nat
  <2> DEFINE Good == {k \in Nat : k <= n => Sum(parts, 1 .. k) = amount - r[k]}
  <2>1. 0 \in Good
    <3>1. 1 .. 0 = {}
      OBVIOUS
    <3> QED BY <1>2, <3>1, SumOfNone
  <2>2. \A k \in Nat : k \in Good => k + 1 \in Good
    <3> SUFFICES ASSUME NEW k \in Nat, k \in Good, k + 1 <= n PROVE Sum(parts, 1 .. k + 1) = amount - r[k + 1]
      OBVIOUS
    <3>1. 1 .. k + 1 = (1 .. k) \cup {k + 1} /\ k + 1 \notin 1 .. k /\ k + 1 \in 1 .. n /\ (k + 1) - 1 = k /\ 1 .. k \subseteq 1 .. n
      BY <1>0
    <3>2. IsFiniteSet(1 .. k)
      BY FS_Interval
    <3>3. \A i \in (1 .. k) \cup {k + 1} : parts[i] \in Int
      BY <1>4, <3>1
    <3>4. Sum(parts, 1 .. k + 1) = parts[k + 1] + Sum(parts, 1 .. k)
      BY <3>1, <3>2, <3>3, SumAdd
    <3>5. Sum(parts, 1 .. k) = amount - r[k]
      BY <1>0
    <3>6. parts[k + 1] = r[k] - r[k + 1] /\ r[k] \in Nat /\ r[k + 1] \in Nat
      BY <1>4, <3>1
    <3> QED BY <3>4, <3>5, <3>6
  <2>3. Nat \subseteq Good
    <3> HIDE DEF Good
    <3> QED BY <2>1, <2>2, NumberInduction
  <2>4. Sum(parts, 1 .. n) = amount - r[n] /\ r[n] \in 0 .. amount
    BY <1>0, <1>2, <2>3
  <2> QED BY <1>1, <2>4
<1>9. SumFunction(parts) = Sum(parts, 1 .. n)
  BY <1>0, <1>5, SumOver
<1>10. SumFunction(parts) \in Nat /\ SumFunction(parts) + rest = amount
  BY <1>5, <1>8, <1>9
<1> QED BY <1>0, <1>1, <1>5, <1>6, <1>7, <1>10

(* An amount within the caps leaves nothing over.                          *)
LEMMA SpreadAll ==
  ASSUME NEW amount \in Nat, NEW caps \in Seq(Nat), amount <= SumFunction(caps)
  PROVE  Spread(amount, caps).rest = 0
<1> DEFINE r == RestOf(amount, caps)
           n == Len(caps)
<1>0. n \in Nat /\ DOMAIN caps = 1 .. n /\ caps \in Seq(Int) /\ caps \in [1 .. n -> Nat]
  OBVIOUS
<1>1. PICK parts, rest : /\ parts = [i \in DOMAIN caps |-> r[i - 1] - r[i]] /\ rest = r[n]
                         /\ parts = Spread(amount, caps).parts /\ rest = Spread(amount, caps).rest
  BY <1>0, SpreadIs
<1>2. /\ \A i \in 1 .. n : r[i] = r[i - 1] - AtLeastZero(Least(r[i - 1], caps[i]))
      /\ \A i \in 0 .. n : r[i] \in 0 .. amount
      /\ \A i, j \in 0 .. n : i <= j => r[j] <= r[i]
  BY <1>0, RestSteps
<1>3. parts \in Seq(Nat) /\ rest \in Nat /\ SumFunction(parts) \in Nat /\ SumFunction(parts) + rest = amount
  BY <1>0, <1>1, SpreadParts
<1>4. ASSUME rest # 0 PROVE FALSE
  <2> HIDE DEF r, n
  <2>1. ASSUME NEW i \in 1 .. n PROVE r[i - 1] - r[i] = caps[i]
    <3>1. i \in 0 .. n /\ i - 1 \in 0 .. n /\ n \in 0 .. n /\ i <= n
      BY <1>0
    <3>2. r[i] \in Nat /\ r[i - 1] \in Nat /\ r[n] <= r[i] /\ caps[i] \in Nat /\ r[n] \in Nat
      BY <1>0, <1>2, <3>1
    <3>3. r[i] > 0
      BY <1>1, <1>3, <1>4, <3>2
    <3>4. r[i] = r[i - 1] - AtLeastZero(Least(r[i - 1], caps[i]))
      BY <1>2
    <3> QED BY <3>2, <3>3, <3>4 DEF AtLeastZero, Least
  <2>2. parts = caps
    BY <1>0, <1>1, <2>1
  <2> QED BY <1>3, <1>4, <2>2
<1> QED BY <1>1, <1>4

-----------------------------------------------------------------------------
(* What is due.                                                            *)

LEMMA Scaled ==
  ASSUME NEW a \in Int, NEW b \in Int, NEW d \in Nat, a <= b
  PROVE  a * d <= b * d
<1>1. PICK c \in Nat : b = a + c
  <2>1. b - a \in Nat /\ b = a + (b - a)
    OBVIOUS
  <2> QED BY <2>1
<1>2. b * d = a * d + c * d
  BY <1>1
<1>3. c * d \in Nat /\ a * d \in Int
  OBVIOUS
<1> QED BY <1>2, <1>3

LEMMA Quotient ==
  ASSUME NEW a \in Nat, NEW d \in Nat, d > 0
  PROVE  (a \div d) \in Nat /\ (a \div d) * d <= a /\ a < (a \div d) * d + d
<1>1. (a \div d) \in Int /\ a = d * (a \div d) + (a % d) /\ a % d \in 0 .. d - 1
  OBVIOUS
<1>2. PICK q \in Int, r \in 0 .. d - 1 : q = a \div d /\ a = d * q + r
  BY <1>1
<1>3. q * d <= a /\ a < q * d + d
  BY <1>2
<1>4. q \in Nat
  <2>1. CASE q < 0
    <3>1. q * d <= (0 - 1) * d
      BY <2>1, Scaled
    <3> QED BY <1>2, <3>1
  <2> QED BY <2>1
<1> QED BY <1>2, <1>3, <1>4

LEMMA HeldValueNat ==
  ASSUME NEW b \in Basis
  PROVE  HeldValue(b) \in Nat
<1> DEFINE f == [i \in DOMAIN b.held |-> AtLeastZero(b.held[i][1]) * AtLeastZero(b.held[i][2])]
<1>1. b.held \in Seq(Int \X Int)
  BY DEF Basis
<1>2. \A i \in DOMAIN b.held : f[i] \in Nat
  <2> SUFFICES ASSUME NEW i \in DOMAIN b.held PROVE AtLeastZero(b.held[i][1]) * AtLeastZero(b.held[i][2]) \in Nat
    OBVIOUS
  <2>1. b.held[i] \in Int \X Int
    BY <1>1
  <2>2. PICK m, n \in Nat : AtLeastZero(b.held[i][1]) = m /\ AtLeastZero(b.held[i][2]) = n
    BY <2>1 DEF AtLeastZero
  <2>3. m * n \in Nat
    OBVIOUS
  <2> QED BY <2>2, <2>3
<1>3. IsFiniteSet(DOMAIN b.held)
  <2>1. DOMAIN b.held = 1 .. Len(b.held) /\ Len(b.held) \in Nat
    BY <1>1
  <2> QED BY <2>1, FS_Interval
<1>4. DOMAIN f = DOMAIN b.held
  OBVIOUS
<1> HIDE DEF f
<1>5. Sum(f, DOMAIN f) \in Nat
  BY <1>2, <1>3, <1>4, SumNat
<1>6. SumFunction(f) \in Nat
  BY <1>5, SumOver
<1> QED BY <1>6 DEF HeldValue, f

(* What is due, rounded down: an amount exceeds it exactly when it is above *)
(* the share and the credit the code computes.                             *)
LEMMA DueIs ==
  ASSUME NEW b \in Basis
  PROVE  \E due \in Int :
           /\ \A card : ComputeCancelRefund(b, card) = Least(AtLeastZero(due), AtLeastZero(card))
           /\ \A n \in Int : Exceeds(b, n) <=> n > due
<1> DEFINE period == AtLeastZero(b.end - b.start)
           unused == Least(AtLeastZero(b.end - b.at), period)
           share  == IF b.paid /\ period > 0 THEN UnusedShare(HeldValue(b), unused, period) ELSE 0
           left   == IF ~b.paid \/ b.at >= b.end THEN 0
                     ELSE IF b.at <= b.start THEN b.end - b.start ELSE b.end - b.at
           credit == AtLeastZero(b.credit) - b.pending
           due    == share - b.pending + AtLeastZero(b.credit)
<1>1. b.start \in Int /\ b.end \in Int /\ b.at \in Int /\ b.paid \in BOOLEAN /\ b.pending \in Int /\ b.credit \in Int
  BY DEF Basis
<1>2. period \in Nat /\ unused \in Nat /\ unused <= period /\ credit \in Int /\ left \in Int
  <2>1. period \in Nat /\ unused \in Nat /\ unused <= period
    BY <1>1 DEF AtLeastZero, Least
  <2>2. credit \in Int
    BY <1>1 DEF AtLeastZero
  <2>3. left \in Int
    BY <1>1
  <2> QED BY <2>1, <2>2, <2>3
<1>3. PICK held \in Nat : held = HeldValue(b)
  BY HeldValueNat
<1>4. held * unused \in Nat /\ held * left \in Int
  BY <1>2
<1>5. share \in Nat
  BY <1>2, <1>3, <1>4, Quotient DEF UnusedShare
<1>6. due \in Int /\ due = share + credit
  <2> HIDE DEF share
  <2> QED BY <1>1, <1>5 DEF AtLeastZero
<1>7. \A card : ComputeCancelRefund(b, card) = Least(AtLeastZero(due), AtLeastZero(card))
  BY DEF ComputeCancelRefund
<1>8. ASSUME NEW n \in Int PROVE Exceeds(b, n) <=> n > due
  <2>1. CASE b.end <= b.start
    <3>1. share = 0
      BY <1>1, <2>1 DEF AtLeastZero
    <3>2. due = credit
      <4> HIDE DEF share, credit, due
      <4> QED BY <1>2, <1>6, <3>1
    <3>3. Exceeds(b, n) <=> n > credit
      BY <2>1 DEF Exceeds
    <3> QED BY <3>2, <3>3
  <2>2. CASE ~(b.end <= b.start)
    <3>1. period = b.end - b.start /\ period > 0
      BY <1>1, <2>2 DEF AtLeastZero
    <3>2. Exceeds(b, n) <=> (n - credit) * period > held * left
      BY <1>3, <2>2, <3>1, Zenon DEF Exceeds
    <3>3. share * period <= held * left /\ held * left < share * period + period
      <4>1. CASE b.paid
        <5>1. left = unused
          BY <1>1, <2>2, <4>1 DEF AtLeastZero, Least
        <5>2. share = (held * unused) \div period
          BY <1>3, <3>1, <4>1 DEF UnusedShare
        <5>3. PICK a \in Nat : a = held * unused
          BY <1>4
        <5> HIDE DEF share, period, left, unused
        <5>4. share * period <= a /\ a < share * period + period
          BY <1>2, <3>1, <5>2, <5>3, Quotient
        <5> QED BY <5>1, <5>3, <5>4
      <4>2. CASE ~b.paid
        <5>1. left = 0 /\ share = 0
          BY <4>2
        <5> HIDE DEF left, share, period
        <5> QED BY <1>2, <1>3, <3>1, <5>1
      <4> QED BY <4>1, <4>2
    <3>4. PICK k, p, s, most \in Int : k = n - credit /\ p = period /\ s = share /\ most = held * left
      BY <1>2, <1>4, <1>5
    <3> HIDE DEF period, credit, share, left, due
    <3>5. k \in Int /\ p \in Nat /\ p > 0 /\ s \in Nat /\ s * p <= most /\ most < s * p + p
      BY <1>2, <1>5, <3>1, <3>3, <3>4
    <3>6. k * p > most <=> k > s
      <4>1. CASE k <= s
        <5>1. k * p <= s * p
          BY <3>5, <4>1, Scaled
        <5>2. PICK x, y \in Int : x = k * p /\ y = s * p
          BY <3>5
        <5> QED BY <3>4, <3>5, <4>1, <5>1, <5>2
      <4>2. CASE k > s
        <5>1. (s + 1) * p <= k * p
          BY <3>5, <4>2, Scaled
        <5>2. (s + 1) * p = s * p + p
          BY <3>5
        <5>3. PICK x, y \in Int : x = k * p /\ y = s * p
          BY <3>5
        <5> QED BY <3>4, <3>5, <4>2, <5>1, <5>2, <5>3
      <4> QED BY <3>5, <4>1, <4>2
    <3>7. n > due <=> k > s
      BY <1>2, <1>5, <1>6, <3>4
    <3> QED BY <3>2, <3>4, <3>6, <3>7
  <2> QED BY <2>1, <2>2
<1> HIDE DEF due
<1>9. \A n \in Int : Exceeds(b, n) <=> n > due
  BY <1>8
<1> QED BY <1>6, <1>7, <1>9, Zenon

(* ExactlyDue, of the total that is planned and what is refundable.        *)
DueExactly(b, planned, card) ==
  /\ planned = 0 \/ ~Exceeds(b, planned)
  /\ planned = card \/ (planned < card /\ Exceeds(b, planned + 1))

LEMMA RefundIsDue ==
  ASSUME NEW b \in Basis, NEW card \in Nat
  PROVE  /\ ComputeCancelRefund(b, card) \in Nat /\ ComputeCancelRefund(b, card) <= card
         /\ DueExactly(b, ComputeCancelRefund(b, card), card)
<1>1. PICK due \in Int : /\ \A c : ComputeCancelRefund(b, c) = Least(AtLeastZero(due), AtLeastZero(c))
                         /\ \A n \in Int : Exceeds(b, n) <=> n > due
  BY DueIs
<1>2. PICK planned \in Nat : planned = ComputeCancelRefund(b, card) /\ planned <= card
                             /\ (planned = 0 \/ planned <= due) /\ (planned = card \/ (planned < card /\ planned + 1 > due))
  <2>1. Least(AtLeastZero(due), AtLeastZero(card)) \in Nat
    BY DEF Least, AtLeastZero
  <2>2. PICK planned \in Nat : planned = Least(AtLeastZero(due), AtLeastZero(card))
    BY <2>1
  <2>3. planned <= card /\ (planned = 0 \/ planned <= due) /\ (planned = card \/ (planned < card /\ planned + 1 > due))
    BY <2>2 DEF Least, AtLeastZero
  <2> QED BY <1>1, <2>2, <2>3
<1>3. planned \in Int /\ planned + 1 \in Int
  OBVIOUS
<1>4. DueExactly(b, planned, card)
  BY <1>1, <1>2, <1>3 DEF DueExactly
<1> QED BY <1>2, <1>4

-----------------------------------------------------------------------------
(***************************************************************************)
(* The invariant.                                                          *)
(***************************************************************************)

Worth(i) == SumFunction(adjustments[i].items)
LinesOf(p) == DOMAIN Lines[p]

(* A new plan starts from an empty queue, before the plan has ended; its   *)
(* parts go to the newest payment first and come to what is due.           *)
PlannedOK ==
  /\ job.caps \in [Payments -> Nat] /\ job.parts \in [Payments -> Nat]
  /\ \A p \in Payments : job.parts[p] > 0 => \A q \in 1 .. p - 1 : job.parts[q] = job.caps[q]
  /\ SumFunction(job.parts) = ComputeCancelRefund(job.basis, SumFunction(job.caps))

JobOK ==
  /\ pc \in {"plan", "save"} => ~ended /\ Queued = {}
  /\ pc = "save" => PlannedOK
  /\ pc \in {"cancel", "list", "create", "settle"} => job.rows \subseteq Queued
  /\ pc \in {"list", "create", "settle"} => ended
  /\ pc \in {"create", "settle"} => job.row \in job.rows
  /\ pc = "create" => /\ Existing(job.row) = {}
                      /\ DOMAIN job.items = LinesOf(remedy[job.row].payment)
                      /\ SumFunction(job.items) = remedy[job.row].amount
  /\ pc = "settle" => job.refund \in Existing(job.row)

(* A row follows the refund it names, which is its own.                    *)
StatusOK(r) ==
  /\ remedy[r].status = "queued" => remedy[r].attempts < Setups[setup].attempts
  /\ remedy[r].cause = "make_it_right" => remedy[r].status \notin {"queued", "failed"} /\ remedy[r].ref # 0
  /\ remedy[r].status \in {"rejected", "reversed"} => remedy[r].ref # 0 /\ ~HoldsMoney(remedy[r].ref)

NamesOK(r) ==
  remedy[r].ref # 0 =>
    /\ remedy[r].ref \in DOMAIN adjustments
    /\ adjustments[remedy[r].ref].row = IF remedy[r].cause = "cancel" THEN r ELSE 0
    /\ adjustments[remedy[r].ref].payment = remedy[r].payment
    /\ Worth(remedy[r].ref) = remedy[r].amount

RowOK(r) == StatusOK(r) /\ NamesOK(r)

RowsOK ==
  /\ \A r \in DOMAIN remedy : RowOK(r)
  /\ \A r, s \in DOMAIN remedy : remedy[r].ref = remedy[s].ref /\ remedy[r].ref # 0 => r = s

(* A refund is a row's and worth its amount, or an operator's, who is      *)
(* about to save it, has saved it, or has lost it.                         *)
SavedBy(i) == \E r \in DOMAIN remedy : remedy[r].ref = i
SavingBy(i) == \E o \in Operators : op[o].step = "save" /\ op[o].refund = i

SentOK(i) ==
  /\ DOMAIN adjustments[i].items = LinesOf(adjustments[i].payment)
  /\ adjustments[i].row # 0 =>
       /\ ended /\ adjustments[i].row \in DOMAIN remedy
       /\ remedy[adjustments[i].row].cause = "cancel"
       /\ remedy[adjustments[i].row].payment = adjustments[i].payment
       /\ remedy[adjustments[i].row].amount = Worth(i)

AdjustmentOK(i) ==
  /\ SentOK(i)
  /\ adjustments[i].row = 0 => i \in lost \/ SavingBy(i) \/ SavedBy(i)

AdjustmentsOK ==
  /\ \A i \in DOMAIN adjustments : AdjustmentOK(i)
  /\ \A i, j \in DOMAIN adjustments : adjustments[i].row = adjustments[j].row /\ adjustments[i].row # 0 => i = j

OperatorOK(o) ==
  /\ op[o].step # "idle" => op[o].payment \in Payments /\ op[o].amount > 0
  /\ op[o].step \in {"list", "create"} => op[o].refund = 0
  /\ op[o].step = "create" => /\ DOMAIN op[o].items = LinesOf(op[o].payment)
                              /\ SumFunction(op[o].items) = op[o].amount
  /\ op[o].step = "save" =>
       /\ op[o].refund \in DOMAIN adjustments /\ ~SavedBy(op[o].refund)
       /\ adjustments[op[o].refund].row = 0
       /\ adjustments[op[o].refund].payment = op[o].payment
       /\ Worth(op[o].refund) = op[o].amount

OperatorsOK ==
  /\ \A o \in Operators : OperatorOK(o)
  /\ \A o, q \in Operators : op[o].step = "save" /\ op[q].step = "save" /\ op[o].refund = op[q].refund => o = q

(* A report tells a state that was reached, and the last ones last.        *)
InboxOK == \A e \in inbox :
  /\ e[1] \in DOMAIN adjustments /\ e[2] # "pending"
  /\ e[2] \in {"rejected", "reversed"} => adjustments[e[1]].state = e[2]

IInv == TypeOK /\ setup \in DOMAIN Setups /\ JobOK /\ RowsOK /\ AdjustmentsOK /\ OperatorsOK /\ InboxOK

(* What is queued on a payment is one row, and the job has given nothing   *)
(* back on that payment but for it.                                        *)
QueuedOK ==
  /\ \A r, s \in Queued : remedy[r].payment = remedy[s].payment => r = s
  /\ \A r \in Queued, i \in DOMAIN adjustments :
       adjustments[i].row # 0 /\ adjustments[i].payment = remedy[r].payment => adjustments[i].row = r

OneAtATime ==
  ~Setups[setup].overlap => /\ pc # "idle" => Busy = {}
                            /\ \A o, q \in Busy : o = q

HeldOK == \A p \in Payments : Held(p) <= Amount(p)

(* There is room for what is planned, and then for what an operator asks.  *)
RoomOK ==
  ~Setups[setup].overlap /\ lost = {} =>
    /\ pc = "save" => \A p \in Payments : job.parts[p] > 0 => Held(p) + job.parts[p] <= Amount(p)
    /\ \A r \in Queued : Existing(r) = {} =>
         /\ Held(remedy[r].payment) + remedy[r].amount <= Amount(remedy[r].payment)
         /\ \A o \in Operators : op[o].step \in {"list", "create"} /\ op[o].payment = remedy[r].payment =>
              Held(remedy[r].payment) + remedy[r].amount + op[o].amount <= Amount(remedy[r].payment)

PlanInv == QueuedOK /\ OneAtATime /\ HeldOK /\ RoomOK

-----------------------------------------------------------------------------
(* What the types say.                                                     *)

LEMMA SetupTypes ==
  ASSUME setup \in DOMAIN Setups
  PROVE  /\ Lines \in Seq(Seq(Nat)) /\ Payments = 1 .. Len(Lines) /\ Len(Lines) \in Nat /\ IsFiniteSet(Payments)
         /\ Setups[setup].attempts \in Nat \ {0} /\ IsFiniteSet(Operators)
         /\ Setups[setup].bases \subseteq Basis /\ NoJob.basis \in Setups[setup].bases
<1>1. Setups[setup] \in Range(Setups)
  BY DEF Range
<1>2. PICK s : s = Setups[setup]
  OBVIOUS
<1>3. /\ s.lines \in Seq(Seq(Nat)) /\ s.bases # {} /\ s.bases \subseteq Basis /\ IsFiniteSet(s.operators)
      /\ s.attempts \in Nat \ {0}
  BY <1>1, <1>2, SetupAssumption
<1>4. Lines = s.lines /\ Operators = s.operators
  BY <1>2 DEF Lines, Operators
<1>5. Payments = 1 .. Len(Lines) /\ Len(Lines) \in Nat
  BY <1>3, <1>4 DEF Payments
<1>6. NoJob.basis \in s.bases
  BY <1>2, <1>3 DEF NoJob
<1>7. IsFiniteSet(Payments)
  BY <1>5, FS_Interval
<1> QED BY <1>2, <1>3, <1>4, <1>5, <1>6, <1>7

LEMMA LineTypes ==
  ASSUME setup \in DOMAIN Setups, NEW p \in Payments
  PROVE  /\ Lines[p] \in Seq(Nat) /\ LinesOf(p) = 1 .. Len(Lines[p]) /\ Len(Lines[p]) \in Nat
         /\ IsFiniteSet(LinesOf(p)) /\ \A l \in LinesOf(p) : Lines[p][l] \in Nat
         /\ Amount(p) = Sum(Lines[p], LinesOf(p)) /\ Amount(p) \in Nat
<1>1. Lines[p] \in Seq(Nat)
  BY SetupTypes
<1>2. LinesOf(p) = 1 .. Len(Lines[p]) /\ Len(Lines[p]) \in Nat /\ \A l \in LinesOf(p) : Lines[p][l] \in Nat
  BY <1>1 DEF LinesOf
<1>3. IsFiniteSet(LinesOf(p))
  BY <1>2, FS_Interval
<1>4. Amount(p) = Sum(Lines[p], LinesOf(p))
  BY SumOver DEF Amount, LinesOf
<1>5. Sum(Lines[p], LinesOf(p)) \in Nat
  BY <1>2, <1>3, SumNat
<1> QED BY <1>1, <1>2, <1>3, <1>4, <1>5

(* A sequence of natural numbers adds up to one.                           *)
LEMMA SumOfSeq ==
  ASSUME NEW s \in Seq(Nat)
  PROVE  SumFunction(s) \in Nat /\ SumFunction(s) = Sum(s, DOMAIN s) /\ IsFiniteSet(DOMAIN s)
<1>1. DOMAIN s = 1 .. Len(s) /\ Len(s) \in Nat /\ \A i \in DOMAIN s : s[i] \in Nat
  OBVIOUS
<1>2. IsFiniteSet(DOMAIN s)
  BY <1>1, FS_Interval
<1>3. SumFunction(s) = Sum(s, DOMAIN s)
  BY SumOver
<1> QED BY <1>1, <1>2, <1>3, SumNat

LEMMA AdjustmentTypes ==
  ASSUME TypeOK
  PROVE  /\ DOMAIN adjustments = 1 .. Len(adjustments) /\ Len(adjustments) \in Nat /\ IsFiniteSet(DOMAIN adjustments)
         /\ \A i \in DOMAIN adjustments :
              /\ i \in Nat \ {0} /\ adjustments[i] \in Adjustment
              /\ adjustments[i].payment \in Payments /\ adjustments[i].row \in Nat
              /\ adjustments[i].items \in Seq(Nat) /\ adjustments[i].state \in AdjustmentStates
              /\ Worth(i) \in Nat
<1>1. adjustments \in Seq(Adjustment)
  BY DEF TypeOK
<1>2. DOMAIN adjustments = 1 .. Len(adjustments) /\ Len(adjustments) \in Nat /\ \A i \in DOMAIN adjustments : adjustments[i] \in Adjustment
  BY <1>1
<1>3. IsFiniteSet(DOMAIN adjustments)
  BY <1>2, FS_Interval
<1>4. ASSUME NEW i \in DOMAIN adjustments
      PROVE  /\ i \in Nat \ {0} /\ adjustments[i] \in Adjustment
             /\ adjustments[i].payment \in Payments /\ adjustments[i].row \in Nat
             /\ adjustments[i].items \in Seq(Nat) /\ adjustments[i].state \in AdjustmentStates
  BY <1>2 DEF Adjustment
<1>5. \A i \in DOMAIN adjustments : Worth(i) \in Nat
  BY <1>4, SumOfSeq DEF Worth
<1> QED BY <1>2, <1>3, <1>4, <1>5

LEMMA RowTypes ==
  ASSUME TypeOK
  PROVE  /\ DOMAIN remedy = 1 .. Len(remedy) /\ Len(remedy) \in Nat /\ IsFiniteSet(DOMAIN remedy)
         /\ \A r \in DOMAIN remedy :
              /\ r \in Nat \ {0} /\ remedy[r] \in Remedy
              /\ remedy[r].payment \in Payments /\ remedy[r].amount \in Nat \ {0}
              /\ remedy[r].status \in LiveStatuses \cup {"rejected", "reversed", "failed"}
              /\ remedy[r].cause \in {"cancel", "make_it_right"} /\ remedy[r].attempts \in 0 .. Setups[setup].attempts
              /\ remedy[r].ref \in Nat
<1>1. remedy \in Seq(Remedy)
  BY DEF TypeOK
<1>2. DOMAIN remedy = 1 .. Len(remedy) /\ Len(remedy) \in Nat /\ \A r \in DOMAIN remedy : remedy[r] \in Remedy
  BY <1>1
<1>3. IsFiniteSet(DOMAIN remedy)
  BY <1>2, FS_Interval
<1>4. ASSUME NEW r \in DOMAIN remedy
      PROVE  /\ r \in Nat \ {0} /\ remedy[r] \in Remedy
             /\ remedy[r].payment \in Payments /\ remedy[r].amount \in Nat \ {0}
             /\ remedy[r].status \in LiveStatuses \cup {"rejected", "reversed", "failed"}
             /\ remedy[r].cause \in {"cancel", "make_it_right"} /\ remedy[r].attempts \in 0 .. Setups[setup].attempts
             /\ remedy[r].ref \in Nat
  BY <1>2 DEF Remedy
<1> QED BY <1>2, <1>3, <1>4

LEMMA OperatorTypes ==
  ASSUME TypeOK, NEW o \in Operators
  PROVE  /\ op[o].step \in {"idle", "list", "create", "save"} /\ op[o].payment \in Payments \cup {0}
         /\ op[o].amount \in Nat /\ op[o].items \in Seq(Nat) /\ op[o].refund \in Nat
BY DEF TypeOK

-----------------------------------------------------------------------------
(* The sums of the ledger.                                                 *)

RowAmount == [r \in DOMAIN remedy |-> remedy[r].amount]
RefundWorth == [i \in DOMAIN adjustments |-> Worth(i)]
LiveRows(p) == {r \in DOMAIN remedy : remedy[r].payment = p /\ remedy[r].status \in LiveStatuses}

LEMMA RowSums ==
  ASSUME TypeOK, NEW S \in SUBSET DOMAIN remedy
  PROVE  /\ SumFunction([r \in S |-> remedy[r].amount]) = Sum(RowAmount, S) /\ Sum(RowAmount, S) \in Nat
         /\ IsFiniteSet(S) /\ \A r \in S : RowAmount[r] \in Nat /\ RowAmount[r] = remedy[r].amount
<1> DEFINE f == [r \in S |-> remedy[r].amount]
<1>1. IsFiniteSet(S) /\ \A r \in S : RowAmount[r] \in Nat /\ RowAmount[r] = remedy[r].amount /\ f[r] = remedy[r].amount
  BY RowTypes, FS_Subset DEF RowAmount
<1>2. DOMAIN f = S
  OBVIOUS
<1> HIDE DEF f
<1>3. SumFunction(f) = Sum(f, S) /\ Sum(f, S) = Sum(RowAmount, S)
  BY <1>1, <1>2, SumOver, SumEqual
<1>4. Sum(RowAmount, S) \in Nat
  BY <1>1, SumNat
<1> QED BY <1>1, <1>3, <1>4 DEF f

LEMMA RefundSums ==
  ASSUME TypeOK, NEW S \in SUBSET DOMAIN adjustments
  PROVE  /\ HeldBy(S) = Sum(RefundWorth, S) /\ HeldBy(S) \in Nat
         /\ IsFiniteSet(S) /\ \A i \in S : RefundWorth[i] \in Nat /\ RefundWorth[i] = Worth(i)
<1> DEFINE f == [i \in S |-> SumFunction(adjustments[i].items)]
<1>1. IsFiniteSet(S) /\ \A i \in S : RefundWorth[i] \in Nat /\ RefundWorth[i] = Worth(i) /\ f[i] = Worth(i)
  BY AdjustmentTypes, FS_Subset DEF RefundWorth, Worth
<1>2. DOMAIN f = S
  OBVIOUS
<1>3. HeldBy(S) = SumFunction(f)
  BY DEF HeldBy
<1> HIDE DEF f
<1>4. SumFunction(f) = Sum(f, S) /\ Sum(f, S) = Sum(RefundWorth, S)
  BY <1>1, <1>2, SumOver, SumEqual
<1>5. Sum(RefundWorth, S) \in Nat
  BY <1>1, SumNat
<1> QED BY <1>1, <1>3, <1>4, <1>5

LEMMA RefundedSum ==
  ASSUME TypeOK, NEW p
  PROVE  Refunded(p) = Sum(RowAmount, LiveRows(p)) /\ Refunded(p) \in Nat /\ IsFiniteSet(LiveRows(p))
<1>1. LiveRows(p) \in SUBSET DOMAIN remedy
  BY DEF LiveRows
<1>2. Refunded(p) = SumFunction([r \in LiveRows(p) |-> remedy[r].amount])
  BY DEF Refunded, LiveRows
<1> QED BY <1>1, <1>2, RowSums

-----------------------------------------------------------------------------
(* What the provider holds, the rows stand for.                            *)

RowFor(i) == IF adjustments[i].row # 0 THEN adjustments[i].row ELSE CHOOSE r \in DOMAIN remedy : remedy[r].ref = i

LEMMA RefundTypes ==
  ASSUME NEW p, NEW i \in RefundsOf(p)
  PROVE  i \in DOMAIN adjustments /\ adjustments[i].payment = p /\ HoldsMoney(i)
BY DEF RefundsOf

LEMMA StoodFor ==
  ASSUME IInv, NEW p, NEW i \in RefundsOf(p), ~GivenUp(i), adjustments[i].row # 0 \/ SavedBy(i)
  PROVE  /\ RowFor(i) \in LiveRows(p) \ Unsent(p) /\ remedy[RowFor(i)].amount = Worth(i)
         /\ adjustments[i].row # 0 => RowFor(i) = adjustments[i].row /\ remedy[RowFor(i)].cause = "cancel"
         /\ adjustments[i].row = 0 => remedy[RowFor(i)].ref = i /\ remedy[RowFor(i)].cause = "make_it_right"
<1>1. TypeOK /\ i \in DOMAIN adjustments /\ adjustments[i].payment = p /\ HoldsMoney(i) /\ AdjustmentOK(i) /\ i # 0
  BY RefundTypes, AdjustmentTypes DEF IInv, AdjustmentsOK
<1>2. \A r \in DOMAIN remedy : RowOK(r) /\ r # 0
  BY <1>1, RowTypes DEF IInv, RowsOK
<1>3. CASE adjustments[i].row # 0
  <2>1. PICK r \in DOMAIN remedy : r = adjustments[i].row /\ r = RowFor(i)
    BY <1>1, <1>3 DEF AdjustmentOK, SentOK, RowFor
  <2>2. remedy[r].cause = "cancel" /\ remedy[r].payment = p /\ remedy[r].amount = Worth(i)
    BY <1>1, <1>3, <2>1 DEF AdjustmentOK, SentOK
  <2>3. remedy[r].status # "failed"
    BY <1>3, <2>1 DEF GivenUp
  <2>4. remedy[r].status \notin {"rejected", "reversed"}
    <3> SUFFICES ASSUME remedy[r].status \in {"rejected", "reversed"} PROVE FALSE
      OBVIOUS
    <3>1. remedy[r].ref # 0 /\ ~HoldsMoney(remedy[r].ref) /\ remedy[r].ref \in DOMAIN adjustments
          /\ adjustments[remedy[r].ref].row = r
      BY <1>2, <2>2 DEF RowOK, StatusOK, NamesOK
    <3>2. remedy[r].ref = i
      BY <1>1, <1>3, <2>1, <3>1 DEF IInv, AdjustmentsOK
    <3> QED BY <1>1, <3>1, <3>2
  <2>5. remedy[r].status \in LiveStatuses
    BY <1>1, <2>3, <2>4, RowTypes
  <2>6. r \notin Unsent(p)
    <3>1. i \in Existing(r)
      BY <1>1, <2>1 DEF Existing
    <3> QED BY <3>1 DEF Unsent
  <2> QED BY <1>3, <2>1, <2>2, <2>5, <2>6 DEF LiveRows
<1>4. CASE adjustments[i].row = 0
  <2>1. PICK r \in DOMAIN remedy : remedy[r].ref = i /\ r = RowFor(i)
    BY <1>4 DEF SavedBy, RowFor
  <2>2. /\ adjustments[i].row = IF remedy[r].cause = "cancel" THEN r ELSE 0
        /\ remedy[r].payment = p /\ remedy[r].amount = Worth(i)
    BY <1>1, <1>2, <2>1 DEF RowOK, StatusOK, NamesOK
  <2>3. remedy[r].cause = "make_it_right"
    BY <1>1, <1>2, <1>4, <2>2, RowTypes
  <2>4. remedy[r].status \notin {"queued", "failed"}
    BY <1>2, <2>3 DEF RowOK, StatusOK
  <2>5. remedy[r].status \notin {"rejected", "reversed"}
    BY <1>1, <1>2, <2>1 DEF RowOK, StatusOK, NamesOK
  <2>6. remedy[r].status \in LiveStatuses
    BY <1>1, <2>4, <2>5, RowTypes
  <2>7. r \notin Unsent(p)
    BY <2>4 DEF Unsent, Queued
  <2> QED BY <1>4, <2>1, <2>2, <2>3, <2>6, <2>7 DEF LiveRows
<1> QED BY <1>3, <1>4

(* Each stands for one refund, and what was not sent yet comes on top.     *)
LEMMA RowsStandFor ==
  ASSUME IInv, NEW p, NEW S \in SUBSET RefundsOf(p),
         \A i \in S : ~GivenUp(i) /\ (adjustments[i].row # 0 \/ SavedBy(i))
  PROVE  /\ HeldBy(S) + SumFunction([r \in Unsent(p) |-> remedy[r].amount]) <= Refunded(p)
         /\ HeldBy(S) \in Nat /\ SumFunction([r \in Unsent(p) |-> remedy[r].amount]) \in Nat /\ Refunded(p) \in Nat
<1> DEFINE T == LiveRows(p) \ Unsent(p)
           h == [i \in S |-> RowFor(i)]
<1>1. TypeOK /\ S \in SUBSET DOMAIN adjustments
  BY RefundTypes DEF IInv
<1>2. T \in SUBSET DOMAIN remedy /\ Unsent(p) \in SUBSET DOMAIN remedy /\ LiveRows(p) = T \cup Unsent(p) /\ T \cap Unsent(p) = {}
  BY DEF LiveRows, Unsent, Queued, LiveStatuses
<1>3. IsFiniteSet(T) /\ IsFiniteSet(Unsent(p)) /\ \A r \in LiveRows(p) : RowAmount[r] \in Nat /\ RowAmount[r] = remedy[r].amount
  BY <1>1, <1>2, RowSums
<1>4. h \in [S -> T]
  BY StoodFor
<1>5. \A i, j \in S : h[i] = h[j] => i = j
  <2> SUFFICES ASSUME NEW i \in S, NEW j \in S, h[i] = h[j] PROVE i = j
    OBVIOUS
  <2>1. RowFor(i) = RowFor(j) /\ i \in DOMAIN adjustments /\ j \in DOMAIN adjustments
    BY <1>1
  <2>2. adjustments[i].row # 0 <=> adjustments[j].row # 0
    BY <2>1, StoodFor
  <2>3. CASE adjustments[i].row # 0
    <3>1. adjustments[i].row = adjustments[j].row
      BY <2>1, <2>2, <2>3, StoodFor
    <3> QED BY <2>1, <2>3, <3>1 DEF IInv, AdjustmentsOK
  <2>4. CASE adjustments[i].row = 0
    BY <2>1, <2>2, <2>4, StoodFor
  <2> QED BY <2>3, <2>4
<1>6. \A i \in S : RefundWorth[i] \in Int /\ RefundWorth[i] <= RowAmount[h[i]]
  <2> TAKE i \in S
  <2>1. RefundWorth[i] \in Nat /\ RefundWorth[i] = Worth(i)
    BY <1>1, RefundSums
  <2>2. h[i] = RowFor(i) /\ RowFor(i) \in LiveRows(p) /\ remedy[RowFor(i)].amount = Worth(i)
    BY StoodFor
  <2>3. RowAmount[h[i]] = Worth(i)
    BY <1>3, <2>2
  <2> QED BY <2>1, <2>3
<1>7. Sum(RefundWorth, S) <= Sum(RowAmount, T) /\ Sum(RowAmount, T) \in Nat
  <2>1. \A y \in T : RowAmount[y] \in Nat
    BY <1>3
  <2> HIDE DEF T, h
  <2> QED BY <1>3, <1>4, <1>5, <1>6, <2>1, SumInto
<1>8. Sum(RowAmount, LiveRows(p)) = Sum(RowAmount, T) + Sum(RowAmount, Unsent(p))
  <2>1. \A y \in T \cup Unsent(p) : RowAmount[y] \in Int
    BY <1>2, <1>3
  <2> HIDE DEF T
  <2> QED BY <1>2, <1>3, <2>1, SumJoin
<1>9. HeldBy(S) = Sum(RefundWorth, S) /\ HeldBy(S) \in Nat
  BY <1>1, RefundSums
<1>10. /\ SumFunction([r \in Unsent(p) |-> remedy[r].amount]) = Sum(RowAmount, Unsent(p)) 
       /\ Sum(RowAmount, Unsent(p)) \in Nat
  BY <1>1, <1>2, RowSums
<1>11. Refunded(p) = Sum(RowAmount, LiveRows(p)) /\ Refunded(p) \in Nat
  BY <1>1, RefundedSum
<1> HIDE DEF T
<1> QED BY <1>7, <1>8, <1>9, <1>10, <1>11

Saving(p) == {o \in Operators : op[o].step = "save" /\ op[o].payment = p}
OperatorFor(i) == CHOOSE o \in Operators : op[o].step = "save" /\ op[o].refund = i
OpAmount == [o \in Operators |-> op[o].amount]

LEMMA SavingSum ==
  ASSUME IInv, NEW p
  PROVE  /\ SumFunction([o \in Saving(p) |-> op[o].amount]) = Sum(OpAmount, Saving(p)) /\ Sum(OpAmount, Saving(p)) \in Nat
         /\ IsFiniteSet(Saving(p)) /\ \A o \in Saving(p) : OpAmount[o] \in Nat /\ OpAmount[o] = op[o].amount
<1> DEFINE f == [o \in Saving(p) |-> op[o].amount]
<1>1. Saving(p) \subseteq Operators /\ IsFiniteSet(Operators)
  BY SetupTypes DEF Saving, IInv
<1>2. IsFiniteSet(Saving(p))
  BY <1>1, FS_Subset
<1>3. \A o \in Saving(p) : OpAmount[o] \in Nat /\ OpAmount[o] = op[o].amount /\ f[o] = op[o].amount
  BY <1>1, OperatorTypes DEF OpAmount, IInv
<1>4. DOMAIN f = Saving(p)
  OBVIOUS
<1> HIDE DEF f
<1>5. SumFunction(f) = Sum(f, Saving(p)) /\ Sum(f, Saving(p)) = Sum(OpAmount, Saving(p))
  BY <1>2, <1>3, <1>4, SumOver, SumEqual
<1>6. Sum(OpAmount, Saving(p)) \in Nat
  BY <1>2, <1>3, SumNat
<1> QED BY <1>2, <1>3, <1>5, <1>6 DEF f

(* Operators about to save stand for the refunds no row names yet.         *)
LEMMA OperatorsStandFor ==
  ASSUME IInv, NEW p, NEW S \in SUBSET RefundsOf(p),
         \A i \in S : adjustments[i].row = 0 /\ SavingBy(i)
  PROVE  HeldBy(S) <= Sum(OpAmount, Saving(p)) /\ HeldBy(S) \in Nat
<1> DEFINE h == [i \in S |-> OperatorFor(i)]
<1>1. TypeOK /\ S \in SUBSET DOMAIN adjustments
  BY RefundTypes DEF IInv
<1>2. ASSUME NEW i \in S PROVE OperatorFor(i) \in Saving(p) /\ op[OperatorFor(i)].refund = i /\ op[OperatorFor(i)].amount = Worth(i)
  <2>1. adjustments[i].payment = p /\ SavingBy(i)
    BY RefundTypes
  <2>2. PICK o \in Operators : o = OperatorFor(i) /\ op[o].step = "save" /\ op[o].refund = i
    BY <2>1 DEF SavingBy, OperatorFor
  <2>3. OperatorOK(o)
    BY DEF IInv, OperatorsOK
  <2>4. adjustments[op[o].refund].payment = op[o].payment /\ Worth(op[o].refund) = op[o].amount
    BY <2>2, <2>3 DEF OperatorOK
  <2> QED BY <2>1, <2>2, <2>4 DEF Saving
<1>3. h \in [S -> Saving(p)]
  BY <1>2
<1>4. \A i, j \in S : h[i] = h[j] => i = j
  BY <1>2
<1>5. \A i \in S : RefundWorth[i] \in Int /\ RefundWorth[i] <= OpAmount[h[i]]
  <2> TAKE i \in S
  <2>1. RefundWorth[i] \in Nat /\ RefundWorth[i] = Worth(i)
    BY <1>1, RefundSums
  <2>2. h[i] = OperatorFor(i) /\ OperatorFor(i) \in Saving(p) /\ op[OperatorFor(i)].amount = Worth(i)
    BY <1>2
  <2>3. OpAmount[h[i]] = Worth(i)
    BY <2>2, SavingSum
  <2> QED BY <2>1, <2>3
<1>6. IsFiniteSet(Saving(p)) /\ \A o \in Saving(p) : OpAmount[o] \in Nat
  BY SavingSum
<1> HIDE DEF h
<1>7. Sum(RefundWorth, S) <= Sum(OpAmount, Saving(p))
  BY <1>3, <1>4, <1>5, <1>6, SumInto
<1> QED BY <1>1, <1>7, RefundSums

(* The invariant says that no refund the provider holds is missed.         *)
LEMMA LedgerCovered ==
  ASSUME IInv
  PROVE  LedgerCovers
<1> SUFFICES ASSUME NEW p \in Payments
             PROVE  HeldBy({i \in RefundsOf(p) \ lost : ~GivenUp(i)})
                      <= Refunded(p) + SumFunction([o \in Saving(p) |-> op[o].amount])
  BY DEF LedgerCovers, Saving
<1> DEFINE A == {i \in RefundsOf(p) \ lost : ~GivenUp(i)}
           R == {i \in A : adjustments[i].row # 0 \/ SavedBy(i)}
           O == A \ R
<1>1. TypeOK /\ A \in SUBSET DOMAIN adjustments /\ R \in SUBSET RefundsOf(p) /\ O \in SUBSET RefundsOf(p)
      /\ R \in SUBSET DOMAIN adjustments /\ O \in SUBSET DOMAIN adjustments /\ R \cup O = A /\ R \cap O = {}
  BY RefundTypes DEF IInv
<1>2. \A i \in R : ~GivenUp(i) /\ (adjustments[i].row # 0 \/ SavedBy(i))
  OBVIOUS
<1>3. \A i \in O : adjustments[i].row = 0 /\ SavingBy(i)
  <2> TAKE i \in O
  <2>1. i \in DOMAIN adjustments /\ AdjustmentOK(i) /\ i \notin lost /\ adjustments[i].row = 0 /\ ~SavedBy(i)
    BY <1>1 DEF IInv, AdjustmentsOK
  <2> QED BY <2>1 DEF AdjustmentOK
<1> HIDE DEF A, R, O
<1>4. HeldBy(R) <= Refunded(p) /\ HeldBy(R) \in Nat /\ Refunded(p) \in Nat
  <2>1. PICK unsent \in Nat : HeldBy(R) + unsent <= Refunded(p) /\ HeldBy(R) \in Nat /\ Refunded(p) \in Nat
    BY <1>1, <1>2, RowsStandFor
  <2> QED BY <2>1
<1>5. HeldBy(O) <= Sum(OpAmount, Saving(p)) /\ HeldBy(O) \in Nat
  BY <1>1, <1>3, OperatorsStandFor
<1>6. HeldBy(A) = HeldBy(R) + HeldBy(O)
  <2>1. /\ HeldBy(A) = Sum(RefundWorth, A) /\ HeldBy(R) = Sum(RefundWorth, R) /\ HeldBy(O) = Sum(RefundWorth, O)
        /\ IsFiniteSet(R) /\ IsFiniteSet(O) /\ \A i \in A : RefundWorth[i] \in Int
    BY <1>1, RefundSums
  <2>2. \A i \in R \cup O : RefundWorth[i] \in Int
    BY <1>1, <2>1
  <2>3. Sum(RefundWorth, R \cup O) = Sum(RefundWorth, R) + Sum(RefundWorth, O)
    BY <1>1, <2>1, <2>2, SumJoin
  <2> QED BY <1>1, <2>1, <2>3
<1>7. SumFunction([o \in Saving(p) |-> op[o].amount]) = Sum(OpAmount, Saving(p)) /\ Sum(OpAmount, Saving(p)) \in Nat
  BY SavingSum
<1>8. HeldBy(A) <= Refunded(p) + Sum(OpAmount, Saving(p))
  BY <1>4, <1>5, <1>6, <1>7
<1>9. HeldBy(A) <= Refunded(p) + SumFunction([o \in Saving(p) |-> op[o].amount])
  BY <1>7, <1>8
<1> QED BY <1>9 DEF A

-----------------------------------------------------------------------------
(* How the ledger moves.                                                   *)

RefundsStay ==
  \A i \in DOMAIN adjustments :
    /\ i \in DOMAIN adjustments' /\ adjustments'[i].payment = adjustments[i].payment
    /\ adjustments'[i].row = adjustments[i].row /\ adjustments'[i].items = adjustments[i].items
    /\ HoldsMoney(i)' => HoldsMoney(i)

RowsStay ==
  \A r \in DOMAIN remedy :
    /\ r \in DOMAIN remedy' /\ remedy'[r].payment = remedy[r].payment
    /\ remedy'[r].amount = remedy[r].amount /\ remedy'[r].cause = remedy[r].cause
    /\ \/ remedy'[r].ref = remedy[r].ref
       \/ remedy[r].ref = 0 /\ remedy[r].cause = "cancel" /\ remedy'[r].ref \in Existing(r)'

LEMMA SameSetup ==
  ASSUME setup' = setup
  PROVE  /\ Lines' = Lines /\ Operators' = Operators /\ Payments' = Payments /\ NoJob' = NoJob
         /\ Remedy' = Remedy /\ Adjustment' = Adjustment
         /\ \A p : Amount(p)' = Amount(p) /\ LinesOf(p)' = LinesOf(p)
<1>1. Lines' = Lines /\ Operators' = Operators /\ NoJob' = NoJob
  BY DEF Lines, Operators, NoJob
<1>2. Payments' = Payments
  BY <1>1 DEF Payments
<1>3. \A p : Amount(p)' = Amount(p) /\ LinesOf(p)' = LinesOf(p)
  BY <1>1 DEF Amount, LinesOf
<1>4. Remedy' = Remedy /\ Adjustment' = Adjustment
  BY <1>2 DEF Remedy, Adjustment
<1> QED BY <1>1, <1>2, <1>3, <1>4

LEMMA SentStays ==
  ASSUME IInv, setup' = setup, RefundsStay, RowsStay, ended => ended', NEW i \in DOMAIN adjustments
  PROVE  SentOK(i)' /\ Worth(i)' = Worth(i)
<1>1. SentOK(i)
  BY DEF IInv, AdjustmentsOK, AdjustmentOK
<1>2. /\ i \in DOMAIN adjustments' /\ adjustments'[i].payment = adjustments[i].payment
      /\ adjustments'[i].row = adjustments[i].row /\ adjustments'[i].items = adjustments[i].items
  BY DEF RefundsStay
<1>3. Worth(i)' = Worth(i)
  BY <1>2 DEF Worth
<1>4. LinesOf(adjustments[i].payment)' = DOMAIN adjustments'[i].items
  <2>1. LinesOf(adjustments'[i].payment) = DOMAIN adjustments[i].items
    BY <1>1, <1>2 DEF SentOK
  <2>2. LinesOf(adjustments[i].payment)' = LinesOf(adjustments'[i].payment)
    BY SameSetup DEF LinesOf
  <2> QED BY <1>2, <2>1, <2>2
<1>5. adjustments[i].row # 0 => /\ adjustments[i].row \in DOMAIN remedy'
                                /\ remedy'[adjustments[i].row].cause = "cancel"
                                /\ remedy'[adjustments[i].row].payment = adjustments[i].payment
                                /\ remedy'[adjustments[i].row].amount = Worth(i)
  BY <1>1 DEF SentOK, RowsStay
<1> QED BY <1>1, <1>2, <1>3, <1>4, <1>5 DEF SentOK

LEMMA NamesStay ==
  ASSUME IInv, setup' = setup, RefundsStay, RowsStay, ended => ended', NEW r \in DOMAIN remedy,
         \A i \in DOMAIN adjustments' : SentOK(i)'
  PROVE  NamesOK(r)'
<1>1. /\ r \in DOMAIN remedy' /\ remedy'[r].payment = remedy[r].payment
      /\ remedy'[r].amount = remedy[r].amount /\ remedy'[r].cause = remedy[r].cause
  BY DEF RowsStay
<1>2. NamesOK(r)
  BY DEF IInv, RowsOK, RowOK
<1>3. CASE remedy'[r].ref = remedy[r].ref /\ remedy[r].ref # 0
  <2>1. PICK i \in DOMAIN adjustments : i = remedy[r].ref
    BY <1>2, <1>3 DEF NamesOK
  <2>2. /\ i \in DOMAIN adjustments' /\ adjustments'[i].payment = adjustments[i].payment
        /\ adjustments'[i].row = adjustments[i].row /\ Worth(i)' = Worth(i)
    BY SentStays DEF RefundsStay
  <2>3. Worth(remedy[r].ref)' = Worth(i)'
    BY <1>3, <2>1 DEF Worth
  <2> QED BY <1>1, <1>2, <1>3, <2>1, <2>2, <2>3 DEF NamesOK
<1>4. CASE remedy'[r].ref = remedy[r].ref /\ remedy[r].ref = 0
  BY <1>4 DEF NamesOK
<1>5. CASE remedy[r].ref = 0 /\ remedy[r].cause = "cancel" /\ remedy'[r].ref \in Existing(r)'
  <2>1. PICK i \in DOMAIN adjustments' : i = remedy'[r].ref /\ adjustments'[i].row = r
    BY <1>5 DEF Existing
  <2>2. r # 0
    BY RowTypes DEF IInv
  <2>3. SentOK(i)'
    OBVIOUS
  <2>4. remedy'[r].payment = adjustments'[i].payment /\ remedy'[r].amount = Worth(i)'
    BY <2>1, <2>2, <2>3 DEF SentOK
  <2>5. Worth(remedy[r].ref)' = Worth(i)'
    BY <2>1 DEF Worth
  <2> QED BY <1>1, <1>5, <2>1, <2>4, <2>5 DEF NamesOK
<1> QED BY <1>3, <1>4, <1>5 DEF RowsStay

LEMMA SavedStays ==
  ASSUME RowsStay, NEW i, i # 0, SavedBy(i)
  PROVE  SavedBy(i)'
BY DEF RowsStay, SavedBy

(* The rows and the refunds of a step, from what it adds and what it moves. *)
LEMMA LedgerMoves ==
  ASSUME IInv, setup' = setup, RefundsStay, RowsStay, ended => ended', lost \subseteq lost',
         \A i \in DOMAIN adjustments' \ DOMAIN adjustments : AdjustmentOK(i)',
         \A i \in DOMAIN adjustments' \ DOMAIN adjustments, j \in DOMAIN adjustments' :
           adjustments'[i].row = adjustments'[j].row /\ adjustments'[i].row # 0 => i = j,
         \A r \in DOMAIN remedy' \ DOMAIN remedy : RowOK(r)',
         \A r \in DOMAIN remedy' \ DOMAIN remedy, q \in DOMAIN remedy' :
           remedy'[r].ref = remedy'[q].ref /\ remedy'[r].ref # 0 => r = q,
         \A r \in DOMAIN remedy : StatusOK(r)',
         \A i \in DOMAIN adjustments : SavingBy(i) => i \in lost' \/ SavingBy(i)' \/ SavedBy(i)'
  PROVE  RowsOK' /\ AdjustmentsOK'
<1>1. \A i \in DOMAIN adjustments : SentOK(i)'
  BY SentStays
<1>2. \A i \in DOMAIN adjustments : AdjustmentOK(i)'
  <2> TAKE i \in DOMAIN adjustments
  <2>1. i # 0 /\ AdjustmentOK(i) /\ adjustments'[i].row = adjustments[i].row
    BY AdjustmentTypes DEF IInv, AdjustmentsOK, RefundsStay
  <2>2. adjustments[i].row = 0 => i \in lost \/ SavingBy(i) \/ SavedBy(i)
    BY <2>1 DEF AdjustmentOK
  <2>3. adjustments'[i].row = 0 => i \in lost' \/ SavingBy(i)' \/ SavedBy(i)'
    BY <2>1, <2>2, SavedStays
  <2> QED BY <1>1, <2>3 DEF AdjustmentOK
<1>3. \A i \in DOMAIN adjustments' : AdjustmentOK(i)' /\ SentOK(i)'
  BY <1>2 DEF AdjustmentOK
<1>4. \A i, j \in DOMAIN adjustments' : adjustments'[i].row = adjustments'[j].row /\ adjustments'[i].row # 0 => i = j
  <2> SUFFICES ASSUME NEW i \in DOMAIN adjustments', NEW j \in DOMAIN adjustments',
                      adjustments'[i].row = adjustments'[j].row, adjustments'[i].row # 0
               PROVE  i = j
    OBVIOUS
  <2>1. CASE i \in DOMAIN adjustments /\ j \in DOMAIN adjustments
    BY <2>1 DEF IInv, AdjustmentsOK, RefundsStay
  <2> QED BY <2>1
<1>5. \A r \in DOMAIN remedy : RowOK(r)'
  BY <1>3, NamesStay DEF RowOK
<1>6. \A r \in DOMAIN remedy' : RowOK(r)'
  BY <1>5
<1>7. \A r, q \in DOMAIN remedy' : remedy'[r].ref = remedy'[q].ref /\ remedy'[r].ref # 0 => r = q
  <2> SUFFICES ASSUME NEW r \in DOMAIN remedy', NEW q \in DOMAIN remedy',
                      remedy'[r].ref = remedy'[q].ref, remedy'[r].ref # 0
               PROVE  r = q
    OBVIOUS
  <2>1. CASE r \in DOMAIN remedy /\ q \in DOMAIN remedy
    <3>1. /\ adjustments'[remedy'[r].ref].row = IF remedy'[r].cause = "cancel" THEN r ELSE 0
          /\ adjustments'[remedy'[r].ref].row = IF remedy'[q].cause = "cancel" THEN q ELSE 0
      BY <1>6 DEF RowOK, NamesOK
    <3>2. r # 0 /\ q # 0 /\ remedy[r].cause \in {"cancel", "make_it_right"} /\ remedy[q].cause \in {"cancel", "make_it_right"}
      BY <2>1, RowTypes DEF IInv
    <3>3. /\ remedy'[r].cause = remedy[r].cause /\ remedy'[q].cause = remedy[q].cause
          /\ remedy[r].cause # "cancel" => remedy'[r].ref = remedy[r].ref
          /\ remedy[q].cause # "cancel" => remedy'[q].ref = remedy[q].ref
      BY <2>1 DEF RowsStay
    <3>4. CASE remedy[r].cause = "cancel"
      BY <3>1, <3>2, <3>3, <3>4
    <3>5. CASE remedy[r].cause = "make_it_right"
      <4>1. remedy[q].cause = "make_it_right"
        BY <3>1, <3>2, <3>3, <3>5
      <4>2. remedy[r].ref = remedy[q].ref /\ remedy[r].ref # 0
        BY <3>3, <3>5, <4>1
      <4> QED BY <2>1, <4>2 DEF IInv, RowsOK
    <3> QED BY <3>2, <3>4, <3>5
  <2> QED BY <2>1
<1> QED BY <1>3, <1>4, <1>6, <1>7 DEF RowsOK, AdjustmentsOK

(* An operator who does nothing in a step stands for what it stood for.    *)
LEMMA OperatorStays ==
  ASSUME IInv, setup' = setup, RefundsStay, RowsStay, ended => ended',
         NEW o \in Operators, op'[o] = op[o],
         \A r \in DOMAIN remedy' \ DOMAIN remedy : remedy'[r].ref # 0 /\ op[o].step = "save" => remedy'[r].ref # op[o].refund
  PROVE  OperatorOK(o)'
<1>1. OperatorOK(o)
  BY DEF IInv, OperatorsOK
<1>2. Payments' = Payments /\ \A p : LinesOf(p)' = LinesOf(p)
  BY SameSetup
<1>3. op[o].step = "create" => LinesOf(op[o].payment)' = LinesOf(op[o].payment) /\ LinesOf(op'[o].payment) = LinesOf(op[o].payment)
  BY <1>2
<1>4. ASSUME op[o].step = "save"
      PROVE  /\ op[o].refund \in DOMAIN adjustments' /\ ~SavedBy(op[o].refund)'
             /\ adjustments'[op[o].refund].row = 0
             /\ adjustments'[op[o].refund].payment = op[o].payment
             /\ Worth(op[o].refund)' = op[o].amount
  <2>1. PICK i \in DOMAIN adjustments : i = op[o].refund
    BY <1>1, <1>4 DEF OperatorOK
  <2>2. adjustments[i].row = 0 /\ adjustments[i].payment = op[o].payment /\ Worth(i) = op[o].amount /\ ~SavedBy(i)
    BY <1>1, <1>4, <2>1 DEF OperatorOK
  <2>3. i \in DOMAIN adjustments' /\ adjustments'[i].row = 0 /\ adjustments'[i].payment = op[o].payment
    BY <2>2 DEF RefundsStay
  <2>4. Worth(i)' = Worth(i)
    BY SentStays
  <2>5. \A r \in DOMAIN remedy' : remedy'[r].ref # i
    <3> SUFFICES ASSUME NEW r \in DOMAIN remedy', remedy'[r].ref = i PROVE FALSE
      OBVIOUS
    <3>1. i # 0
      BY AdjustmentTypes DEF IInv
    <3>2. r \in DOMAIN remedy
      BY <1>4, <2>1, <3>1
    <3>3. remedy[r].ref # i
      BY <2>2, <3>2 DEF SavedBy
    <3>4. i \in Existing(r)' /\ r # 0
      BY <3>2, <3>3, RowTypes DEF RowsStay, IInv
    <3> QED BY <2>3, <3>4 DEF Existing
  <2>6. ~SavedBy(i)'
    BY <2>5 DEF SavedBy
  <2> QED BY <2>1, <2>2, <2>3, <2>4, <2>6
<1>5. Operators' = Operators
  BY SameSetup
<1> QED BY <1>1, <1>2, <1>3, <1>4 DEF OperatorOK

LEMMA OperatorsMove ==
  ASSUME IInv, setup' = setup, RefundsStay, RowsStay, ended => ended',
         NEW q \in Operators, \A o \in Operators \ {q} : op'[o] = op[o], OperatorOK(q)',
         op'[q].step = "save" => op'[q].refund \notin DOMAIN adjustments,
         \A r \in DOMAIN remedy' \ DOMAIN remedy :
           remedy'[r].ref # 0 => op[q].step = "save" /\ remedy'[r].ref = op[q].refund
  PROVE  OperatorsOK'
<1>1. \A o \in Operators \ {q} : OperatorOK(o)'
  <2> TAKE o \in Operators \ {q}
  <2>1. op'[o] = op[o] /\ o # q
    OBVIOUS
  <2>2. \A r \in DOMAIN remedy' \ DOMAIN remedy : remedy'[r].ref # 0 /\ op[o].step = "save" => remedy'[r].ref # op[o].refund
    BY <2>1 DEF IInv, OperatorsOK
  <2> QED BY <2>1, <2>2, OperatorStays
<1>2. Operators' = Operators
  BY SameSetup
<1>3. \A o \in Operators : op[o].step = "save" => op[o].refund \in DOMAIN adjustments
  BY DEF IInv, OperatorsOK, OperatorOK
<1>4. \A o, r \in Operators : op'[o].step = "save" /\ op'[r].step = "save" /\ op'[o].refund = op'[r].refund => o = r
  <2> SUFFICES ASSUME NEW o \in Operators, NEW r \in Operators,
                      op'[o].step = "save" /\ op'[r].step = "save" /\ op'[o].refund = op'[r].refund
               PROVE  o = r
    OBVIOUS
  <2>1. CASE o # q /\ r # q
    <3>1. op[o].step = "save" /\ op[r].step = "save" /\ op[o].refund = op[r].refund
      BY <2>1
    <3> QED BY <3>1 DEF IInv, OperatorsOK
  <2>2. CASE o = q /\ r # q
    BY <1>3, <2>2
  <2>3. CASE o # q /\ r = q
    BY <1>3, <2>3
  <2> QED BY <2>1, <2>2, <2>3
<1> QED BY <1>1, <1>2, <1>4 DEF OperatorsOK

LEMMA OperatorsStay ==
  ASSUME IInv, setup' = setup, RefundsStay, RowsStay, ended => ended', op' = op,
         \A r \in DOMAIN remedy' \ DOMAIN remedy : remedy'[r].ref = 0
  PROVE  OperatorsOK'
<1>1. \A o \in Operators : OperatorOK(o)'
  <2> TAKE o \in Operators
  <2>1. op'[o] = op[o]
    OBVIOUS
  <2> QED BY <2>1, OperatorStays
<1>2. Operators' = Operators
  BY SameSetup
<1> QED BY <1>1, <1>2 DEF IInv, OperatorsOK

(* What the job is at stays as it is while others move.                    *)
LEMMA JobStays ==
  ASSUME IInv, setup' = setup, RefundsStay, RowsStay, ended' = ended, pc' = pc, job' = job, Queued' = Queued,
         \A r \in DOMAIN remedy : Existing(r)' = Existing(r)
  PROVE  JobOK'
<1>1. Payments' = Payments /\ \A p : LinesOf(p)' = LinesOf(p)
  BY SameSetup
<1>2. JobOK
  BY DEF IInv
<1>3. pc = "save" => PlannedOK'
  BY <1>1, <1>2 DEF JobOK, PlannedOK
<1>4. pc \in {"create", "settle"} => job.row \in DOMAIN remedy /\ job.row \in job.rows
  BY <1>2 DEF JobOK, Queued
<1>5. pc = "create" => /\ Existing(job.row)' = {}
                       /\ DOMAIN job'.items = LinesOf(remedy[job.row].payment)'
                       /\ SumFunction(job'.items) = remedy'[job.row].amount
  <2> SUFFICES ASSUME pc = "create"
               PROVE  /\ Existing(job.row)' = {}
                      /\ DOMAIN job'.items = LinesOf(remedy[job.row].payment)'
                      /\ SumFunction(job'.items) = remedy'[job.row].amount
    OBVIOUS
  <2>1. PICK r \in DOMAIN remedy : r = job.row
    BY <1>4
  <2>2. Existing(r)' = Existing(r) /\ Existing(job.row)' = Existing(r)'
    BY <2>1 DEF Existing
  <2>3. remedy'[r].payment = remedy[r].payment /\ remedy'[r].amount = remedy[r].amount
    BY DEF RowsStay
  <2>4. LinesOf(remedy[job.row].payment)' = LinesOf(remedy[r].payment)
    BY <1>1, <2>1, <2>3
  <2> QED BY <1>2, <2>1, <2>2, <2>3, <2>4 DEF JobOK
<1>6. pc = "settle" => job.refund \in Existing(job.row)'
  <2> SUFFICES ASSUME pc = "settle" PROVE job.refund \in Existing(job.row)'
    OBVIOUS
  <2>1. PICK r \in DOMAIN remedy : r = job.row
    BY <1>4
  <2>2. Existing(r)' = Existing(r) /\ Existing(job.row)' = Existing(r)'
    BY <2>1 DEF Existing
  <2> QED BY <1>2, <2>1, <2>2 DEF JobOK
<1> QED BY <1>2, <1>3, <1>5, <1>6 DEF JobOK

(* The n-th adjustment is new: a refund of p that the row asked for, or    *)
(* an operator.                                                            *)
RefundAt(n, p, row, items, state) ==
  /\ n \in Nat \ {0} /\ n \notin DOMAIN adjustments /\ DOMAIN adjustments' = DOMAIN adjustments \cup {n}
  /\ adjustments' \in Seq(Adjustment)
  /\ adjustments'[n] = [payment |-> p, row |-> row, items |-> items, state |-> state]
  /\ \A i \in DOMAIN adjustments : adjustments'[i] = adjustments[i]
  /\ RefundsStay /\ InboxOK' /\ inbox' \subseteq (Nat \X AdjustmentStates)

(* The provider's books with one refund more.                              *)
LEMMA RefundMade ==
  ASSUME IInv, setup' = setup, NEW p \in Payments, NEW row \in Nat, NEW items \in Seq(Nat),
         NEW state \in {"pending", "approved"}, Adjust(p, row, items, state), NEW n, n = Len(adjustments) + 1
  PROVE  RefundAt(n, p, row, items, state)
<1> DEFINE new == [payment |-> p, row |-> row, items |-> items, state |-> state]
<1>1. adjustments \in Seq(Adjustment) /\ DOMAIN adjustments = 1 .. Len(adjustments) /\ Len(adjustments) \in Nat
  BY AdjustmentTypes DEF IInv, TypeOK
<1>2. new \in Adjustment
  BY DEF Adjustment, AdjustmentStates
<1>3. adjustments' = Append(adjustments, new)
  BY DEF Adjust
<1> HIDE DEF new
<1>4. /\ n \in Nat \ {0} /\ n \notin DOMAIN adjustments /\ DOMAIN adjustments' = DOMAIN adjustments \cup {n}
      /\ adjustments' \in Seq(Adjustment) /\ adjustments'[n] = new
      /\ \A i \in DOMAIN adjustments : adjustments'[i] = adjustments[i]
  BY <1>1, <1>2, <1>3
<1>5. RefundsStay
  BY <1>4 DEF RefundsStay, HoldsMoney
<1>6. inbox' = inbox \/ inbox' = inbox \cup {<<n, state>>}
  BY DEF Adjust
<1>7. inbox' \subseteq (Nat \X AdjustmentStates)
  <2>1. <<n, state>> \in Nat \X AdjustmentStates
    BY <1>4 DEF AdjustmentStates
  <2> QED BY <1>6, <2>1 DEF IInv, TypeOK
<1>8. InboxOK'
  <2> SUFFICES ASSUME NEW e \in inbox'
               PROVE  /\ e[1] \in DOMAIN adjustments' /\ e[2] # "pending"
                      /\ e[2] \in {"rejected", "reversed"} => adjustments'[e[1]].state = e[2]
    BY DEF InboxOK
  <2>1. CASE e \in inbox
    BY <1>4, <2>1 DEF IInv, InboxOK
  <2>2. CASE e \notin inbox
    <3>1. e = <<n, state>> /\ state # "pending"
      BY <1>6, <2>2 DEF Adjust
    <3> QED BY <1>4, <3>1
  <2> QED BY <2>1, <2>2
<1> QED BY <1>4, <1>5, <1>7, <1>8 DEF RefundAt, new

JobType == [basis : Setups[setup].bases, rows : SUBSET Nat, row : Nat,
            caps : Seq(Nat), parts : Seq(Nat), items : Seq(Nat), refund : Nat]
OpType == [step : {"idle", "list", "create", "save"}, payment : Payments \cup {0},
           amount : Nat, items : Seq(Nat), refund : Nat]
Steps == {"idle", "plan", "save", "cancel", "list", "create", "settle"}

LEMMA TypeParts ==
  ASSUME IInv, setup' = setup,
         adjustments' \in Seq(Adjustment), inbox' \subseteq (Nat \X AdjustmentStates), remedy' \in Seq(Remedy),
         ended' \in BOOLEAN, pc' \in Steps, job' \in JobType, op' \in [Operators -> OpType],
         lost' \subseteq DOMAIN adjustments', faults' \in Nat
  PROVE  TypeOK'
<1>1. Adjustment' = Adjustment /\ Remedy' = Remedy /\ Operators' = Operators /\ Payments' = Payments
  BY SameSetup
<1>2. JobType' = JobType /\ OpType' = OpType
  BY <1>1 DEF JobType, OpType
<1>3. adjustments' \in Seq(Adjustment)' /\ remedy' \in Seq(Remedy)' /\ job' \in JobType' /\ op' \in [Operators -> OpType]'
  BY <1>1, <1>2
<1> HIDE DEF Adjustment, Remedy
<1> QED BY <1>3 DEF TypeOK, JobType, OpType, Steps

LEMMA Types ==
  ASSUME IInv
  PROVE  /\ adjustments \in Seq(Adjustment) /\ inbox \subseteq (Nat \X AdjustmentStates) /\ remedy \in Seq(Remedy)
         /\ ended \in BOOLEAN /\ pc \in Steps /\ job \in JobType /\ op \in [Operators -> OpType]
         /\ lost \subseteq DOMAIN adjustments /\ faults \in Nat
BY DEF IInv, TypeOK, JobType, OpType, Steps

LEMMA Unmoved ==
  ASSUME setup' = setup, adjustments' = adjustments, remedy' = remedy
  PROVE  /\ RefundsStay /\ RowsStay /\ Queued' = Queued /\ \A r : Existing(r)' = Existing(r)
         /\ \A r : StatusOK(r) => StatusOK(r)'
<1>1. Queued' = Queued /\ \A r : Existing(r)' = Existing(r)
  BY DEF Queued, Existing
<1>2. RefundsStay /\ RowsStay
  BY DEF RefundsStay, RowsStay, HoldsMoney
<1>3. \A r : StatusOK(r) => StatusOK(r)'
  BY DEF StatusOK, HoldsMoney
<1> QED BY <1>1, <1>2, <1>3

LEMMA LedgerRests ==
  ASSUME IInv, setup' = setup, adjustments' = adjustments, remedy' = remedy, ended => ended', lost \subseteq lost',
         \A i \in DOMAIN adjustments : SavingBy(i) => i \in lost' \/ SavingBy(i)' \/ SavedBy(i)'
  PROVE  RowsOK' /\ AdjustmentsOK'
<1>1. \A r \in DOMAIN remedy : StatusOK(r)
  BY DEF IInv, RowsOK, RowOK
<1>2. RefundsStay /\ RowsStay /\ \A r \in DOMAIN remedy : StatusOK(r)'
  BY <1>1, Unmoved
<1>3. DOMAIN adjustments' \ DOMAIN adjustments = {} /\ DOMAIN remedy' \ DOMAIN remedy = {}
  OBVIOUS
<1> QED BY <1>2, <1>3, LedgerMoves

(* A step of the job that only moves the job.                              *)
LEMMA JobAlone ==
  ASSUME IInv, setup' = setup, adjustments' = adjustments, inbox' = inbox, remedy' = remedy, op' = op, lost' = lost,
         ended => ended', ended' \in BOOLEAN, faults' \in Nat, pc' \in Steps, job' \in JobType, JobOK'
  PROVE  IInv'
<1>1. TypeOK'
  BY Types, TypeParts
<1>2. RowsOK' /\ AdjustmentsOK'
  <2>1. \A i \in DOMAIN adjustments : SavingBy(i) => SavingBy(i)'
    BY SameSetup DEF SavingBy
  <2> QED BY <2>1, LedgerRests
<1>3. OperatorsOK'
  <2>1. RefundsStay /\ RowsStay
    BY Unmoved
  <2> QED BY <2>1, OperatorsStay
<1>4. InboxOK'
  BY DEF IInv, InboxOK
<1> QED BY <1>1, <1>2, <1>3, <1>4 DEF IInv

(* A step of an operator that only moves the operator.                     *)
LEMMA OperatorAlone ==
  ASSUME IInv, setup' = setup, adjustments' = adjustments, inbox' = inbox, remedy' = remedy, ended' = ended,
         pc' = pc, job' = job, NEW q \in Operators, NEW new \in OpType, op' = [op EXCEPT ![q] = new],
         new.step # "save", OperatorOK(q)', op[q].step = "save" => op[q].refund \in lost',
         lost \subseteq lost', lost' \subseteq DOMAIN adjustments, faults' \in Nat
  PROVE  IInv'
<1>1. op' \in [Operators -> OpType] /\ op'[q] = new /\ \A o \in Operators \ {q} : op'[o] = op[o]
  BY Types
<1>2. TypeOK'
  BY <1>1, Types, TypeParts
<1>3. RowsOK' /\ AdjustmentsOK'
  <2>1. ASSUME NEW i \in DOMAIN adjustments, SavingBy(i)
        PROVE  i \in lost' \/ SavingBy(i)'
    <3>1. PICK o \in Operators : op[o].step = "save" /\ op[o].refund = i
      BY <2>1 DEF SavingBy
    <3>2. CASE o = q
      BY <3>1, <3>2
    <3>3. CASE o # q
      BY <1>1, <3>1, <3>3, SameSetup DEF SavingBy
    <3> QED BY <3>2, <3>3
  <2> QED BY <2>1, LedgerRests
<1>4. RefundsStay /\ RowsStay /\ Queued' = Queued /\ \A r : Existing(r)' = Existing(r)
  BY Unmoved
<1>5. OperatorsOK'
  BY <1>1, <1>4, OperatorsMove
<1>6. JobOK'
  BY <1>4, JobStays
<1>7. InboxOK'
  BY DEF IInv, InboxOK
<1> QED BY <1>2, <1>3, <1>5, <1>6, <1>7 DEF IInv

(* A step that moves one row, and may add a refund of it.                  *)
LEMMA RowMoves ==
  ASSUME IInv, setup' = setup, NEW r \in DOMAIN remedy, NEW new \in Remedy, remedy' = [remedy EXCEPT ![r] = new],
         new.payment = remedy[r].payment, new.amount = remedy[r].amount, new.cause = remedy[r].cause,
         new.ref = remedy[r].ref \/ (remedy[r].ref = 0 /\ remedy[r].cause = "cancel" /\ new.ref \in Existing(r)')
  PROVE  /\ RowsStay /\ remedy' \in Seq(Remedy) /\ DOMAIN remedy' = DOMAIN remedy
         /\ remedy'[r] = new /\ \A q \in DOMAIN remedy \ {r} : remedy'[q] = remedy[q]
         /\ \A q \in DOMAIN remedy \ {r} : RefundsStay => StatusOK(q)'
         /\ Queued' \ {r} = Queued \ {r}
<1>1. remedy' \in Seq(Remedy) /\ DOMAIN remedy' = DOMAIN remedy
  BY Types
<1>2. remedy'[r] = new /\ \A q \in DOMAIN remedy \ {r} : remedy'[q] = remedy[q]
  OBVIOUS
<1>3. RowsStay
  BY <1>1, <1>2 DEF RowsStay
<1>4. ASSUME RefundsStay, NEW q \in DOMAIN remedy \ {r} PROVE StatusOK(q)'
  <2>1. StatusOK(q) /\ NamesOK(q) /\ remedy'[q] = remedy[q]
    BY <1>2 DEF IInv, RowsOK, RowOK
  <2>2. remedy[q].ref # 0 => (HoldsMoney(remedy[q].ref)' => HoldsMoney(remedy[q].ref))
    <3> SUFFICES ASSUME remedy[q].ref # 0, HoldsMoney(remedy[q].ref)' PROVE HoldsMoney(remedy[q].ref)
      OBVIOUS
    <3>1. PICK i \in DOMAIN adjustments : i = remedy[q].ref /\ i = remedy'[q].ref
      BY <2>1 DEF NamesOK
    <3>2. HoldsMoney(i)'
      BY <3>1 DEF HoldsMoney
    <3>3. HoldsMoney(i)
      BY <1>4, <3>2 DEF RefundsStay
    <3> QED BY <3>1, <3>3
  <2> QED BY <2>1, <2>2 DEF StatusOK
<1>5. Queued' \ {r} = Queued \ {r}
  BY <1>1, <1>2 DEF Queued
<1> QED BY <1>1, <1>2, <1>3, <1>4, <1>5

-----------------------------------------------------------------------------
(* The job's steps.                                                        *)

LEMMA NoJobType ==
  ASSUME setup \in DOMAIN Setups
  PROVE  /\ NoJob \in JobType /\ \A S \in SUBSET Nat : [NoJob EXCEPT !.rows = S] \in JobType
         /\ NoJob.rows = {} /\ \A S : [NoJob EXCEPT !.rows = S].rows = S
<1>1. PICK b \in Setups[setup].bases : b = (CHOOSE c \in Setups[setup].bases : TRUE)
  BY SetupTypes DEF NoJob
<1>2. NoJob = [basis |-> b, rows |-> {}, row |-> 0, caps |-> <<>>, parts |-> <<>>, items |-> <<>>, refund |-> 0]
  BY <1>1 DEF NoJob
<1>3. <<>> \in Seq(Nat)
  OBVIOUS
<1> QED BY <1>2, <1>3 DEF JobType

LEMMA QueuedRows ==
  ASSUME IInv
  PROVE  Queued \subseteq DOMAIN remedy /\ Queued \in SUBSET Nat
BY RowTypes DEF Queued, IInv

LEMMA StartOK ==
  ASSUME IInv, setup' = setup, Start
  PROVE  IInv'
<1>1. UNCHANGED <<adjustments, inbox, remedy, ended, op, lost, faults>>
  BY DEF Start, Provider
<1>2. setup \in DOMAIN Setups /\ NoJob' = NoJob /\ Queued' = Queued
  BY <1>1, Unmoved, SameSetup DEF IInv
<1>3. CASE Queued = {}
  <2>1. ~ended /\ pc' = "plan" /\ job' = NoJob
    BY <1>3 DEF Start, Goto
  <2>2. JobOK'
    BY <1>1, <1>2, <1>3, <2>1 DEF JobOK
  <2>3. job' \in JobType /\ pc' \in Steps
    BY <1>2, <2>1, NoJobType DEF Steps
  <2> QED BY <1>1, <2>2, <2>3, JobAlone, Types
<1>4. CASE Queued # {}
  <2>1. pc' = (IF ended THEN "list" ELSE "cancel") /\ job' = [NoJob EXCEPT !.rows = Queued]
    BY <1>4 DEF Start, Goto
  <2>2. job' \in JobType /\ pc' \in Steps /\ job'.rows = Queued
    BY <1>2, <2>1, NoJobType, QueuedRows DEF Steps
  <2>3. JobOK'
    BY <1>1, <1>2, <2>1, <2>2 DEF JobOK
  <2> QED BY <1>1, <2>2, <2>3, JobAlone, Types
<1> QED BY <1>3, <1>4

LEMMA CancelOK ==
  ASSUME IInv, setup' = setup, Cancel
  PROVE  IInv'
<1>1. UNCHANGED <<adjustments, inbox, remedy, op, lost, faults>> /\ ended' = TRUE /\ pc = "cancel"
      /\ pc' = (IF job.rows = {} THEN "idle" ELSE "list") /\ job' = IF pc' = "idle" THEN NoJob ELSE job
  BY DEF Cancel, Provider, Goto
<1>2. setup \in DOMAIN Setups /\ Queued' = Queued
  BY <1>1, Unmoved DEF IInv
<1>3. job' \in JobType /\ pc' \in Steps
  BY <1>1, <1>2, NoJobType, Types DEF Steps
<1>4. job.rows \subseteq Queued
  BY <1>1 DEF IInv, JobOK
<1>5. JobOK'
  BY <1>1, <1>2, <1>4 DEF JobOK
<1>6. ended' \in BOOLEAN /\ faults' \in Nat /\ (ended => ended')
  BY <1>1, Types
<1> QED BY <1>1, <1>3, <1>5, <1>6, JobAlone

LEMMA CrashOK ==
  ASSUME IInv, setup' = setup, Crash
  PROVE  IInv'
<1>1. UNCHANGED <<adjustments, inbox, remedy, ended, op, lost>> /\ pc' = "idle" /\ job' = NoJob /\ faults' = faults + 1
  BY DEF Crash, Provider, Goto, Fault
<1>2. job' \in JobType /\ pc' \in Steps
  BY <1>1, NoJobType DEF Steps, IInv
<1>3. JobOK'
  BY <1>1 DEF JobOK
<1>4. ended' \in BOOLEAN /\ faults' \in Nat /\ (ended => ended')
  BY <1>1, Types
<1> QED BY <1>1, <1>2, <1>3, <1>4, JobAlone

(* A plan of what is due, newest payment first.                            *)
LEMMA PlanMakes ==
  ASSUME IInv, setup' = setup, Plan
  PROVE  /\ UNCHANGED <<adjustments, inbox, remedy, ended, op, lost, faults>> /\ pc = "plan" /\ pc' = "save"
         /\ job' \in JobType /\ PlannedOK'
         /\ job'.parts \in [Payments -> Nat] /\ \A p \in Payments : job'.parts[p] <= Refundable(p)
<1>1. setup \in DOMAIN Setups /\ TypeOK /\ job \in JobType
  BY Types DEF IInv
<1>2. PICK b \in Setups[setup].bases :
        Goto("save", [job EXCEPT !.basis = b, !.caps = [p \in Payments |-> Refundable(p)],
               !.parts = Spread(ComputeCancelRefund(b, SumFunction([p \in Payments |-> Refundable(p)])),
                                [p \in Payments |-> Refundable(p)]).parts])
  BY DEF Plan
<1>3. PICK caps : caps = [p \in Payments |-> Refundable(p)]
  OBVIOUS
<1>4. \A p \in Payments : Refundable(p) \in Nat
  BY <1>1, LineTypes, RefundedSum DEF Refundable, AtLeastZero
<1>5. caps \in [Payments -> Nat] /\ caps \in Seq(Nat) /\ caps \in Seq(Int) /\ DOMAIN caps = Payments /\ b \in Basis
  <2>1. Payments = 1 .. Len(Lines) /\ Len(Lines) \in Nat
    BY <1>1, SetupTypes
  <2>2. caps \in [Payments -> Nat]
    BY <1>3, <1>4
  <2>3. caps \in [1 .. Len(Lines) -> Nat] /\ caps \in [1 .. Len(Lines) -> Int]
    BY <2>1, <2>2
  <2>4. caps \in Seq(Nat) /\ caps \in Seq(Int)
    BY <2>1, <2>3
  <2>5. b \in Basis
    BY <1>1, SetupTypes
  <2> QED BY <2>2, <2>4, <2>5
<1>6. PICK card \in Nat : card = SumFunction(caps)
  BY <1>5, SumOfSeq
<1>7. PICK amount \in Nat : amount = ComputeCancelRefund(b, card) /\ amount <= card
  BY <1>5, RefundIsDue
<1>8. PICK parts : parts = Spread(amount, caps).parts
  OBVIOUS
<1>9. /\ parts \in [Payments -> Nat] /\ parts \in Seq(Nat)
      /\ \A i \in Payments : parts[i] <= AtLeastZero(caps[i])
      /\ \A p \in Payments : parts[p] > 0 => \A q \in 1 .. p - 1 : parts[q] = AtLeastZero(caps[q])
      /\ SumFunction(parts) = amount
  <2>1. PICK rest \in Nat :
          /\ rest = Spread(amount, caps).rest
          /\ parts \in [DOMAIN caps -> Nat] /\ parts \in Seq(Nat)
          /\ \A i \in DOMAIN caps : parts[i] <= AtLeastZero(caps[i])
          /\ \A p \in DOMAIN caps : parts[p] > 0 => \A q \in 1 .. p - 1 : parts[q] = AtLeastZero(caps[q])
          /\ SumFunction(parts) \in Nat /\ SumFunction(parts) + rest = amount
    BY <1>5, <1>8, SpreadParts
  <2>2. rest = 0
    BY <1>5, <1>6, <1>7, <2>1, SpreadAll
  <2> QED BY <1>5, <2>1, <2>2
<1>10. \A i \in Payments : AtLeastZero(caps[i]) = caps[i]
  BY <1>5 DEF AtLeastZero
<1>11. pc' = "save" /\ job' = [job EXCEPT !.basis = b, !.caps = caps, !.parts = parts]
  BY <1>2, <1>3, <1>6, <1>7, <1>8 DEF Goto
<1>12. job' \in JobType /\ job'.basis = b /\ job'.caps = caps /\ job'.parts = parts
  BY <1>1, <1>5, <1>9, <1>11 DEF JobType
<1>13. \A p \in Payments : parts[p] > 0 => \A q \in 1 .. p - 1 : parts[q] = caps[q]
  <2> SUFFICES ASSUME NEW p \in Payments, parts[p] > 0, NEW q \in 1 .. p - 1 PROVE parts[q] = caps[q]
    OBVIOUS
  <2>1. q \in Payments
    BY <1>1, SetupTypes
  <2> QED BY <1>9, <1>10, <2>1
<1>14. PlannedOK'
  BY <1>5, <1>6, <1>7, <1>9, <1>12, <1>13, SameSetup DEF PlannedOK
<1>15. \A p \in Payments : parts[p] <= Refundable(p)
  BY <1>3, <1>9, <1>10
<1>16. pc = "plan" /\ UNCHANGED <<adjustments, inbox, remedy, ended, op, lost, faults>>
  BY DEF Plan, Provider
<1> QED BY <1>9, <1>11, <1>12, <1>14, <1>15, <1>16

LEMMA PlanOK ==
  ASSUME IInv, setup' = setup, Plan
  PROVE  IInv'
<1>1. /\ UNCHANGED <<adjustments, inbox, remedy, ended, op, lost, faults>> /\ pc = "plan" /\ pc' = "save"
      /\ job' \in JobType /\ PlannedOK'
  BY PlanMakes
<1>2. Queued' = Queued /\ ~ended /\ Queued = {}
  BY <1>1, Unmoved DEF IInv, JobOK
<1>3. JobOK'
  BY <1>1, <1>2 DEF JobOK
<1> QED BY <1>1, <1>3, JobAlone, Types DEF Steps

(* The rows of a plan: one for each payment that gives something back.     *)
LEMMA SaveRowsMakes ==
  ASSUME IInv, setup' = setup, SaveRows
  PROVE  /\ UNCHANGED <<adjustments, inbox, ended, op, lost, faults>> /\ pc = "save" /\ pc' = "cancel"
         /\ job' = [NoJob EXCEPT !.rows = NewRows]
         /\ job.parts \in [Payments -> Nat] /\ remedy' \in Seq(Remedy) /\ NewRows \in SUBSET Nat
         /\ \A r \in DOMAIN remedy : r \in DOMAIN remedy' /\ remedy'[r] = remedy[r]
         /\ \A r \in NewRows : /\ remedy'[r].payment \in Payments /\ remedy'[r].amount = job.parts[remedy'[r].payment]
                               /\ remedy'[r].amount > 0 /\ remedy'[r].status = "queued" /\ remedy'[r].cause = "cancel"
                               /\ remedy'[r].attempts = 0 /\ remedy'[r].ref = 0
         /\ \A r, q \in NewRows : remedy'[r].payment = remedy'[q].payment => r = q
         /\ \A p \in Payments : job.parts[p] > 0 => \E r \in NewRows : remedy'[r].payment = p
<1> DEFINE due == {p \in Payments : job.parts[p] > 0}
           m == Cardinality(due)
           n == Len(remedy)
<1>1. /\ pc = "save" /\ pc' = "cancel" /\ UNCHANGED <<adjustments, inbox, ended, op, lost, faults>>
      /\ job' = [NoJob EXCEPT !.rows = NewRows]
  BY DEF SaveRows, Goto, Provider, NewRows
<1>2. job.parts \in [Payments -> Nat]
  BY <1>1 DEF IInv, JobOK, PlannedOK
<1>3. IsFiniteSet(due) /\ m \in Nat
  <2>1. IsFiniteSet(Payments) /\ due \subseteq Payments
    BY SetupTypes DEF IInv
  <2> QED BY <2>1, FS_Subset, FS_CardinalityType
<1>4. PICK order \in [1 .. m -> due] :
        /\ \A j, k \in DOMAIN order : j < k => order[j] < order[k]
        /\ remedy' = remedy \o [k \in DOMAIN order |-> Row(order[k], job.parts[order[k]], "queued", "cancel", 0)]
  BY DEF SaveRows
<1>5. \A k \in 1 .. m : order[k] \in Payments /\ job.parts[order[k]] \in Nat \ {0} /\ order[k] \in Nat
  <2> TAKE k \in 1 .. m
  <2>1. order[k] \in Payments /\ job.parts[order[k]] > 0
    <3>1. order[k] \in due
      OBVIOUS
    <3> HIDE DEF m
    <3> QED BY <3>1
  <2>2. Payments \subseteq Nat
    BY SetupTypes DEF IInv
  <2>3. job.parts[order[k]] \in Nat
    <3> HIDE DEF due, m
    <3> QED BY <1>2, <2>1
  <2>4. order[k] \in Nat
    <3> HIDE DEF due, m
    <3> QED BY <2>1, <2>2
  <2>5. PICK part \in Nat : part = job.parts[order[k]]
    BY <2>3
  <2>6. part > 0
    BY <2>1, <2>5
  <2>7. part \in Nat \ {0}
    BY <2>6
  <2> HIDE DEF due, m
  <2> QED BY <2>1, <2>4, <2>5, <2>7
<1> HIDE DEF due, m
<1>6. \A j, k \in 1 .. m : order[j] = order[k] => j = k
  <2> SUFFICES ASSUME NEW j \in 1 .. m, NEW k \in 1 .. m, order[j] = order[k] PROVE j = k
    OBVIOUS
  <2>1. ~(j < k) /\ ~(k < j)
    BY <1>4, <1>5
  <2> QED BY <1>3, <2>1
<1>7. \A p \in due : \E k \in 1 .. m : order[k] = p
  <2>1. order \in Injection(1 .. m, due)
    BY <1>6 DEF Injection, IsInjective
  <2>2. Cardinality(1 .. m) = m
    BY <1>3, FS_Interval
  <2>3. order \in Surjection(1 .. m, due)
    BY <1>3, <2>1, <2>2, FS_Injection DEF m
  <2> QED BY <2>3 DEF Surjection
<1>8. PICK rows : rows = [k \in 1 .. m |-> Row(order[k], job.parts[order[k]], "queued", "cancel", 0)]
  OBVIOUS
<1>9. \A k \in 1 .. m : /\ rows[k] \in Remedy /\ rows[k].payment = order[k] /\ rows[k].amount = job.parts[order[k]]
                        /\ rows[k].status = "queued" /\ rows[k].cause = "cancel" /\ rows[k].attempts = 0 /\ rows[k].ref = 0
  <2> TAKE k \in 1 .. m
  <2>1. rows[k] = Row(order[k], job.parts[order[k]], "queued", "cancel", 0)
    BY <1>8
  <2>2. 0 \in 0 .. Setups[setup].attempts
    BY SetupTypes DEF IInv
  <2> QED BY <1>5, <2>1, <2>2 DEF Row, Remedy, LiveStatuses
<1>10. rows \in Seq(Remedy) /\ Len(rows) = m /\ remedy' = remedy \o rows
  <2>1. rows \in [1 .. m -> Remedy]
    BY <1>8, <1>9
  <2>2. DOMAIN order = 1 .. m
    OBVIOUS
  <2>3. rows \in Seq(Remedy) /\ Len(rows) = m
    BY <1>3, <2>1
  <2> QED BY <1>4, <1>8, <2>2, <2>3
<1>11. remedy \in Seq(Remedy) /\ n \in Nat /\ DOMAIN remedy = 1 .. n
  BY Types
<1>12. /\ remedy' \in Seq(Remedy) /\ DOMAIN remedy' = 1 .. n + m
       /\ \A r \in 1 .. n : remedy'[r] = remedy[r]
       /\ \A k \in 1 .. m : remedy'[n + k] = rows[k]
  <2>1. PICK before, after : before = remedy /\ after = remedy'
    OBVIOUS
  <2>2. before \in Seq(Remedy) /\ Len(before) = n /\ after = before \o rows
    BY <1>10, <1>11, <2>1
  <2>3. after \in Seq(Remedy) /\ Len(after) = n + m
    BY <1>10, <2>2
  <2> HIDE DEF n
  <2>4. DOMAIN after = 1 .. n + m
    BY <1>3, <1>11, <2>3
  <2>5. \A i \in 1 .. n + m : after[i] = IF i <= n THEN before[i] ELSE rows[i - n]
    BY <1>10, <2>2, ConcatProperties
  <2>6. \A r \in 1 .. n : after[r] = before[r]
    BY <1>3, <1>11, <2>5
  <2>7. \A k \in 1 .. m : after[n + k] = rows[k]
    <3> TAKE k \in 1 .. m
    <3>1. n + k \in 1 .. n + m /\ ~(n + k <= n) /\ (n + k) - n = k
      BY <1>3, <1>11
    <3> QED BY <2>5, <3>1
  <2> QED BY <2>1, <2>3, <2>4, <2>6, <2>7
<1> HIDE DEF n
<1>13. NewRows = {n + k : k \in 1 .. m}
  <2>1. NewRows = (1 .. n + m) \ (1 .. n)
    BY <1>11, <1>12 DEF NewRows
  <2>2. \A r \in (1 .. n + m) \ (1 .. n) : r - n \in 1 .. m /\ r = n + (r - n)
    BY <1>3, <1>11
  <2>3. \A k \in 1 .. m : n + k \in (1 .. n + m) \ (1 .. n)
    BY <1>3, <1>11
  <2> QED BY <2>1, <2>2, <2>3
<1>14. ASSUME NEW r \in NewRows
       PROVE  \E k \in 1 .. m : r = n + k /\ remedy'[r] = rows[k]
  BY <1>12, <1>13
<1>15. \A r \in NewRows : /\ remedy'[r].payment \in Payments /\ remedy'[r].amount = job.parts[remedy'[r].payment]
                          /\ remedy'[r].amount > 0 /\ remedy'[r].status = "queued" /\ remedy'[r].cause = "cancel"
                          /\ remedy'[r].attempts = 0 /\ remedy'[r].ref = 0
  <2> TAKE r \in NewRows
  <2>1. PICK k \in 1 .. m : r = n + k /\ remedy'[r] = rows[k]
    BY <1>14
  <2> QED BY <1>5, <1>9, <2>1
<1>16. ASSUME NEW r \in NewRows, NEW q \in NewRows, remedy'[r].payment = remedy'[q].payment PROVE r = q
  <2>1. PICK j \in 1 .. m : r = n + j /\ remedy'[r] = rows[j]
    BY <1>14
  <2>2. PICK k \in 1 .. m : q = n + k /\ remedy'[q] = rows[k]
    BY <1>14
  <2> QED BY <1>6, <1>9, <1>16, <2>1, <2>2
<1>17. ASSUME NEW p \in Payments, job.parts[p] > 0 PROVE \E r \in NewRows : remedy'[r].payment = p
  <2>1. PICK k \in 1 .. m : order[k] = p
    BY <1>7, <1>17 DEF due
  <2>2. n + k \in NewRows /\ remedy'[n + k] = rows[k]
    BY <1>12, <1>13
  <2> QED BY <1>9, <2>1, <2>2
<1>18. NewRows \in SUBSET Nat /\ \A r \in DOMAIN remedy : r \in DOMAIN remedy' /\ remedy'[r] = remedy[r]
  BY <1>3, <1>11, <1>12 DEF NewRows
<1> QED BY <1>1, <1>2, <1>12, <1>15, <1>16, <1>17, <1>18

LEMMA SaveRowsOK ==
  ASSUME IInv, setup' = setup, SaveRows
  PROVE  IInv'
<1>1. /\ UNCHANGED <<adjustments, inbox, ended, op, lost, faults>> /\ pc = "save" /\ pc' = "cancel"
      /\ job' = [NoJob EXCEPT !.rows = NewRows] /\ remedy' \in Seq(Remedy) /\ NewRows \in SUBSET Nat
      /\ \A r \in DOMAIN remedy : r \in DOMAIN remedy' /\ remedy'[r] = remedy[r]
      /\ \A r \in NewRows : /\ remedy'[r].status = "queued" /\ remedy'[r].cause = "cancel"
                            /\ remedy'[r].attempts = 0 /\ remedy'[r].ref = 0
  BY SaveRowsMakes
<1>2. setup \in DOMAIN Setups /\ Setups[setup].attempts \in Nat \ {0}
  BY SetupTypes DEF IInv
<1>3. job' \in JobType /\ job'.rows = NewRows
  BY <1>1, <1>2, NoJobType
<1>4. TypeOK'
  BY <1>1, <1>3, Types, TypeParts DEF Steps
<1>5. RefundsStay /\ RowsStay
  BY <1>1 DEF RefundsStay, RowsStay, HoldsMoney
<1>6. JobOK'
  <2>1. NewRows \subseteq Queued'
    BY <1>1 DEF Queued, NewRows
  <2> QED BY <1>1, <1>3, <2>1 DEF JobOK
<1>7. RowsOK' /\ AdjustmentsOK'
  <2>1. \A r \in DOMAIN remedy : StatusOK(r)'
    <3> TAKE r \in DOMAIN remedy
    <3>1. StatusOK(r) /\ remedy'[r] = remedy[r]
      BY <1>1 DEF IInv, RowsOK, RowOK
    <3> QED BY <1>1, <3>1 DEF StatusOK, HoldsMoney
  <2>2. \A r \in DOMAIN remedy' \ DOMAIN remedy : RowOK(r)' /\ remedy'[r].ref = 0
    BY <1>1, <1>2 DEF RowOK, StatusOK, NamesOK, NewRows
  <2>3. DOMAIN adjustments' \ DOMAIN adjustments = {}
    BY <1>1
  <2>4. \A i \in DOMAIN adjustments : SavingBy(i) => SavingBy(i)'
    BY <1>1, SameSetup DEF SavingBy
  <2> QED BY <1>1, <1>5, <2>1, <2>2, <2>3, <2>4, LedgerMoves
<1>8. OperatorsOK'
  BY <1>1, <1>5, OperatorsStay DEF NewRows
<1>9. InboxOK'
  BY <1>1 DEF IInv, InboxOK
<1> QED BY <1>2, <1>4, <1>6, <1>7, <1>8, <1>9 DEF IInv

LEMMA QueuedRow ==
  ASSUME IInv, NEW r \in Queued
  PROVE  /\ r \in DOMAIN remedy /\ r \in Nat \ {0} /\ remedy[r].status = "queued" /\ remedy[r].cause = "cancel"
         /\ remedy[r].attempts < Setups[setup].attempts /\ remedy[r].payment \in Payments /\ remedy[r].amount \in Nat \ {0}
         /\ remedy[r].attempts \in Nat /\ remedy[r].ref \in Nat
<1>1. r \in DOMAIN remedy /\ remedy[r].status = "queued"
  BY DEF Queued
<1>2. StatusOK(r)
  BY <1>1 DEF IInv, RowsOK, RowOK
<1>3. Setups[setup].attempts \in Nat
  BY SetupTypes DEF IInv
<1> QED BY <1>1, <1>2, <1>3, RowTypes DEF IInv, StatusOK

LEMMA NextRowOK ==
  ASSUME IInv, setup' = setup, NEW r, job.rows \subseteq Queued, ended' = ended, ended, NextRow(r),
         Queued' \ {r} = Queued \ {r}
  PROVE  pc' \in Steps /\ job' \in JobType /\ JobOK'
<1>1. \/ pc' = "idle" /\ job' = NoJob
      \/ pc' = "list" /\ job' = [NoJob EXCEPT !.rows = job.rows \ {r}]
  BY DEF NextRow, Goto
<1>2. job.rows \ {r} \in SUBSET Nat
  BY QueuedRows
<1>3. pc' \in Steps /\ job' \in JobType /\ (pc' = "list" => job'.rows = job.rows \ {r})
  BY <1>1, <1>2, NoJobType DEF Steps, IInv
<1>4. job.rows \ {r} \subseteq Queued'
  OBVIOUS
<1>5. JobOK'
  BY <1>1, <1>3, <1>4 DEF JobOK
<1> QED BY <1>3, <1>5

(* One row moves to what it is now; a refund it did not have is its own.   *)
RowNow(r, new) ==
  /\ new \in Remedy /\ remedy' = [remedy EXCEPT ![r] = new]
  /\ new.payment = remedy[r].payment /\ new.amount = remedy[r].amount /\ new.cause = remedy[r].cause
  /\ \/ new.ref = remedy[r].ref
     \/ remedy[r].ref = 0 /\ new.ref \in Existing(r)'

NewRefundsOf(r) ==
  \A i \in DOMAIN adjustments' \ DOMAIN adjustments :
    /\ adjustments'[i].row = r /\ adjustments'[i].payment = remedy[r].payment
    /\ DOMAIN adjustments'[i].items = LinesOf(remedy[r].payment) /\ Worth(i)' = remedy[r].amount
    /\ \A j \in DOMAIN adjustments' : adjustments'[j].row = r => i = j

(* The job is done with a row: sent, given up, or to be tried again.       *)
LEMMA RowDone ==
  ASSUME IInv, setup' = setup, pc \in {"list", "create", "settle"}, NEW r \in job.rows, NextRow(r),
         NEW new, RowNow(r, new), NewRefundsOf(r),
         StatusOK(r)', ended' = ended, op' = op, lost' = lost, faults' \in Nat,
         RefundsStay, adjustments' \in Seq(Adjustment), inbox' \subseteq (Nat \X AdjustmentStates), InboxOK'
  PROVE  IInv'
<1>1. job.rows \subseteq Queued /\ ended
  BY DEF IInv, JobOK
<1>2. r \in Queued /\ r \in DOMAIN remedy /\ r # 0 /\ remedy[r].cause = "cancel"
  BY <1>1, QueuedRow
<1>3. /\ RowsStay /\ remedy' \in Seq(Remedy) /\ DOMAIN remedy' = DOMAIN remedy /\ remedy'[r] = new
      /\ \A q \in DOMAIN remedy \ {r} : StatusOK(q)'
      /\ Queued' \ {r} = Queued \ {r}
  BY <1>2, RowMoves DEF RowNow
<1>4. pc' \in Steps /\ job' \in JobType /\ JobOK'
  BY <1>1, <1>3, NextRowOK
<1>5. lost' \subseteq DOMAIN adjustments'
  BY Types DEF RefundsStay
<1>6. TypeOK'
  BY <1>3, <1>4, <1>5, Types, TypeParts
<1>7. RowsOK' /\ AdjustmentsOK'
  <2>0. \A i \in DOMAIN adjustments' \ DOMAIN adjustments, j \in DOMAIN adjustments' :
          adjustments'[i].row = adjustments'[j].row /\ adjustments'[i].row # 0 => i = j
    BY DEF NewRefundsOf
  <2>1. ASSUME NEW i \in DOMAIN adjustments' \ DOMAIN adjustments
        PROVE  AdjustmentOK(i)' /\ adjustments'[i].row = r
    <3>1. /\ adjustments'[i].row = r /\ adjustments'[i].payment = remedy[r].payment
          /\ DOMAIN adjustments'[i].items = LinesOf(remedy[r].payment) /\ Worth(i)' = remedy[r].amount
      BY DEF NewRefundsOf
    <3>2. LinesOf(adjustments[i].payment)' = LinesOf(remedy[r].payment)
      BY <3>1, SameSetup DEF LinesOf
    <3>3. r \in DOMAIN remedy' /\ remedy'[r].cause = "cancel" /\ remedy'[r].payment = remedy[r].payment
          /\ remedy'[r].amount = remedy[r].amount
      BY <1>2, <1>3 DEF RowNow
    <3>4. DOMAIN adjustments'[i].items = LinesOf(adjustments[i].payment)'
      BY <3>1, <3>2
    <3>5. SentOK(i)'
      BY <1>1, <3>1, <3>3, <3>4 DEF SentOK
    <3> QED BY <1>2, <3>1, <3>5 DEF AdjustmentOK
  <2>2. \A r_1 \in DOMAIN remedy : StatusOK(r_1)'
    BY <1>3
  <2>3. \A i \in DOMAIN adjustments : SavingBy(i) => SavingBy(i)'
    BY SameSetup DEF SavingBy
  <2> QED BY <1>3, <2>0, <2>1, <2>2, <2>3, LedgerMoves
<1>8. OperatorsOK'
  BY <1>3, OperatorsStay
<1>9. setup' \in DOMAIN Setups
  BY DEF IInv
<1> QED BY <1>4, <1>6, <1>7, <1>8, <1>9 DEF IInv

LEMMA RefundFailedMakes ==
  ASSUME IInv, setup' = setup, NEW r \in Queued, RefundFailed(r)
  PROVE  \E new : RowNow(r, new) /\ StatusOK(r)'
<1>1. r \in DOMAIN remedy /\ remedy[r] \in Remedy /\ remedy[r].status = "queued" /\ remedy[r].attempts < Setups[setup].attempts
      /\ Setups[setup].attempts \in Nat /\ remedy[r].attempts \in Nat
  BY QueuedRow, RowTypes, SetupTypes DEF IInv
<1> DEFINE status == IF remedy[r].attempts + 1 >= Setups[setup].attempts THEN "failed" ELSE "queued"
           new == [remedy[r] EXCEPT !.attempts = remedy[r].attempts + 1, !.status = status]
<1>2. remedy' = [remedy EXCEPT ![r] = new]
  BY <1>1 DEF RefundFailed
<1>3. PICK n \in 0 .. Setups[setup].attempts : n = remedy[r].attempts + 1
  BY <1>1
<1>4. PICK st \in {"queued", "failed"} : st = status /\ (st = "queued" => n < Setups[setup].attempts)
  BY <1>1, <1>3
<1>5. new = [remedy[r] EXCEPT !.attempts = n, !.status = st]
  BY <1>3, <1>4
<1> HIDE DEF new
<1>6. /\ new \in Remedy /\ new.payment = remedy[r].payment /\ new.amount = remedy[r].amount /\ new.cause = remedy[r].cause
      /\ new.ref = remedy[r].ref /\ new.status = st /\ new.attempts = n
  BY <1>1, <1>5 DEF Remedy, LiveStatuses
<1>7. RowNow(r, new)
  BY <1>2, <1>6 DEF RowNow
<1>8. StatusOK(r)'
  <2>1. remedy'[r] = new /\ new.cause = "cancel"
    BY <1>1, <1>2, <1>6, QueuedRow
  <2> QED BY <1>4, <1>6, <2>1 DEF StatusOK
<1> QED BY <1>7, <1>8

(* An attempt failed and made no refund.                                   *)
LEMMA RefundFailedOK ==
  ASSUME IInv, setup' = setup, pc \in {"list", "create"}, NEW r \in job.rows, RefundFailed(r),
         UNCHANGED <<adjustments, inbox, ended, op, lost>>, faults' \in Nat
  PROVE  IInv'
<1>1. r \in Queued
  BY DEF IInv, JobOK
<1>2. PICK new : RowNow(r, new)
  BY <1>1, RefundFailedMakes
<1>3. StatusOK(r)'
  BY <1>1, RefundFailedMakes
<1>4. NextRow(r)
  BY DEF RefundFailed
<1>5. RefundsStay
  BY DEF RefundsStay, HoldsMoney
<1>6. adjustments' \in Seq(Adjustment) /\ inbox' \subseteq (Nat \X AdjustmentStates) /\ InboxOK'
  BY Types DEF IInv, InboxOK
<1>7. NewRefundsOf(r)
  BY DEF NewRefundsOf
<1>8. pc \in {"list", "create", "settle"} /\ ended' = ended /\ op' = op /\ lost' = lost
  OBVIOUS
<1> QED BY <1>2, <1>3, <1>4, <1>5, <1>6, <1>7, <1>8, RowDone

(* What the lines have left, and how a refund is spread over them.         *)
LineSums(p, l) == [i \in RefundsOf(p) |-> adjustments[i].items[l]]

LEMMA ItemTypes ==
  ASSUME IInv, NEW p \in Payments, NEW i \in RefundsOf(p)
  PROVE  /\ DOMAIN adjustments[i].items = LinesOf(p) /\ \A l \in LinesOf(p) : adjustments[i].items[l] \in Nat
         /\ Worth(i) = Sum(adjustments[i].items, LinesOf(p)) /\ Worth(i) \in Nat
<1>1. i \in DOMAIN adjustments /\ adjustments[i].payment = p
  BY RefundTypes
<1>2. adjustments[i].items \in Seq(Nat)
  BY <1>1, AdjustmentTypes DEF IInv
<1>3. DOMAIN adjustments[i].items = LinesOf(p)
  BY <1>1 DEF IInv, AdjustmentsOK, AdjustmentOK, SentOK
<1> QED BY <1>2, <1>3, SumOfSeq DEF Worth

LEMMA LineSum ==
  ASSUME IInv, NEW p \in Payments, NEW l \in LinesOf(p)
  PROVE  /\ SumFunction([i \in RefundsOf(p) |-> adjustments[i].items[l]]) = Sum(LineSums(p, l), RefundsOf(p))
         /\ Sum(LineSums(p, l), RefundsOf(p)) \in Nat /\ LeftByLine(p)[l] = Lines[p][l] - Sum(LineSums(p, l), RefundsOf(p))
         /\ LeftByLine(p)[l] \in Int /\ IsFiniteSet(RefundsOf(p))
<1>1. IsFiniteSet(RefundsOf(p))
  <2>1. RefundsOf(p) \in SUBSET DOMAIN adjustments
    BY RefundTypes
  <2> QED BY <2>1, RefundSums DEF IInv
<1>2. \A i \in RefundsOf(p) : LineSums(p, l)[i] \in Nat
  BY ItemTypes DEF LineSums
<1>3. SumFunction(LineSums(p, l)) = Sum(LineSums(p, l), RefundsOf(p))
  <2>1. DOMAIN LineSums(p, l) = RefundsOf(p)
    BY DEF LineSums
  <2> QED BY <2>1, SumOver
<1>4. Sum(LineSums(p, l), RefundsOf(p)) \in Nat
  BY <1>1, <1>2, SumNat
<1>5. LeftByLine(p)[l] = Lines[p][l] - SumFunction(LineSums(p, l))
  BY DEF LeftByLine, LineSums, LinesOf
<1>6. Lines[p][l] \in Nat
  BY LineTypes DEF IInv
<1> QED BY <1>1, <1>3, <1>4, <1>5, <1>6 DEF LineSums

LEMMA SplitOK ==
  ASSUME IInv, NEW p \in Payments, NEW amount \in Nat, NEW split, split = Spread(amount, LeftByLine(p))
  PROVE  /\ split.parts \in Seq(Nat) /\ DOMAIN split.parts = LinesOf(p) /\ split.rest \in Nat
         /\ split.rest = 0 => SumFunction(split.parts) = amount
<1>1. LinesOf(p) = 1 .. Len(Lines[p]) /\ Len(Lines[p]) \in Nat
  BY LineTypes DEF IInv
<1>2. LeftByLine(p) = [l \in LinesOf(p) |-> LeftByLine(p)[l]]
  BY DEF LeftByLine, LinesOf
<1>3. LeftByLine(p) \in [1 .. Len(Lines[p]) -> Int]
  BY <1>1, <1>2, LineSum
<1>4. LeftByLine(p) \in Seq(Int) /\ DOMAIN LeftByLine(p) = LinesOf(p)
  BY <1>1, <1>3
<1>5. PICK caps \in Seq(Int) : caps = LeftByLine(p)
  BY <1>4
<1>6. /\ split.parts \in [DOMAIN caps -> Nat] /\ split.parts \in Seq(Nat) /\ split.rest \in Nat
      /\ SumFunction(split.parts) \in Nat /\ SumFunction(split.parts) + split.rest = amount
  BY <1>5, SpreadParts
<1> QED BY <1>4, <1>5, <1>6

LEMMA ListRefundsOK ==
  ASSUME IInv, setup' = setup, ListRefunds
  PROVE  IInv'
<1>1. pc = "list" /\ UNCHANGED <<adjustments, inbox, ended, op, lost, faults>>
  BY DEF ListRefunds, Provider
<1>2. PICK r \in job.rows : \E split :
        /\ split = Spread(remedy[r].amount, LeftByLine(remedy[r].payment))
        /\ \/ /\ Existing(r) # {}
              /\ Goto("settle", [job EXCEPT !.row = r, !.refund = CHOOSE i \in Existing(r) : TRUE])
              /\ UNCHANGED remedy
           \/ Existing(r) = {} /\ split.rest > 0 /\ RefundFailed(r)
           \/ /\ Existing(r) = {} /\ split.rest = 0
              /\ Goto("create", [job EXCEPT !.row = r, !.items = split.parts])
              /\ UNCHANGED remedy
  BY DEF ListRefunds
<1>21. PICK split :
        /\ split = Spread(remedy[r].amount, LeftByLine(remedy[r].payment))
        /\ \/ /\ Existing(r) # {}
              /\ Goto("settle", [job EXCEPT !.row = r, !.refund = CHOOSE i \in Existing(r) : TRUE])
              /\ UNCHANGED remedy
           \/ Existing(r) = {} /\ split.rest > 0 /\ RefundFailed(r)
           \/ /\ Existing(r) = {} /\ split.rest = 0
              /\ Goto("create", [job EXCEPT !.row = r, !.items = split.parts])
              /\ UNCHANGED remedy
  BY <1>2
<1>3. job.rows \subseteq Queued /\ r \in Queued /\ ended /\ job \in JobType
  BY <1>1, Types DEF IInv, JobOK
<1>4. r \in Nat /\ r \in DOMAIN remedy /\ remedy[r].payment \in Payments /\ remedy[r].amount \in Nat
  BY <1>3, QueuedRow
<1>5. CASE Existing(r) # {} /\ Goto("settle", [job EXCEPT !.row = r, !.refund = CHOOSE i \in Existing(r) : TRUE]) /\ UNCHANGED remedy
  <2>1. PICK i \in Existing(r) : i = CHOOSE k \in Existing(r) : TRUE
    BY <1>5
  <2>2. i \in Nat
    BY <2>1, AdjustmentTypes DEF Existing, IInv
  <2>3. pc' = "settle" /\ job' = [job EXCEPT !.row = r, !.refund = i]
    BY <1>5, <2>1 DEF Goto
  <2>4. job' \in JobType /\ job'.rows = job.rows /\ job'.row = r /\ job'.refund = i
    BY <1>3, <1>4, <2>2, <2>3 DEF JobType
  <2>5. Queued' = Queued /\ Existing(r)' = Existing(r)
    BY <1>1, <1>5, Unmoved
  <2>6. Existing(job'.row) = Existing(r) /\ Existing(job.row)' = Existing(r)'
    BY <2>4 DEF Existing
  <2>7. JobOK'
    BY <1>1, <1>3, <2>1, <2>3, <2>4, <2>5, <2>6 DEF JobOK
  <2>8. pc' \in Steps /\ ended' \in BOOLEAN /\ faults' \in Nat /\ remedy' = remedy
    BY <1>1, <1>5, <2>3, Types DEF Steps
  <2> QED BY <1>1, <2>4, <2>7, <2>8, JobAlone
<1>6. CASE RefundFailed(r)
  <2>1. faults' \in Nat
    BY <1>1, Types
  <2> QED BY <1>1, <1>6, <2>1, RefundFailedOK
<1>7. CASE Existing(r) = {} /\ split.rest = 0 /\ Goto("create", [job EXCEPT !.row = r, !.items = split.parts]) /\ UNCHANGED remedy
  <2>1. split.parts \in Seq(Nat) /\ DOMAIN split.parts = LinesOf(remedy[r].payment) /\ SumFunction(split.parts) = remedy[r].amount
    BY <1>21, <1>4, <1>7, SplitOK
  <2>2. pc' = "create" /\ job' = [job EXCEPT !.row = r, !.items = split.parts]
    BY <1>7 DEF Goto
  <2>3. job' \in JobType /\ job'.rows = job.rows /\ job'.row = r /\ job'.items = split.parts
    BY <1>3, <1>4, <2>1, <2>2 DEF JobType
  <2>4. Queued' = Queued /\ Existing(r)' = Existing(r) /\ remedy' = remedy
    BY <1>1, <1>7, Unmoved
  <2>5. Existing(job.row)' = Existing(r)'
    BY <2>3 DEF Existing
  <2>6. LinesOf(remedy[job.row].payment)' = LinesOf(remedy[r].payment)
    BY <2>3, <2>4, SameSetup DEF LinesOf
  <2>7. JobOK'
    BY <1>1, <1>3, <1>7, <2>1, <2>2, <2>3, <2>4, <2>5, <2>6 DEF JobOK
  <2>8. pc' \in Steps /\ ended' \in BOOLEAN /\ faults' \in Nat
    BY <1>1, <2>2, Types DEF Steps
  <2> QED BY <1>1, <2>3, <2>4, <2>7, <2>8, JobAlone
<1> QED BY <1>21, <1>5, <1>6, <1>7

(* A refund of the row in hand, made by the call or by one that failed.    *)
LEMMA SentMakes ==
  ASSUME IInv, setup' = setup, pc = "create",
         NEW state \in {"pending", "approved"}, Adjust(remedy[job.row].payment, job.row, job.items, state)
  PROVE  \E n \in Nat, r \in job.rows :
         /\ n = Len(adjustments) + 1 /\ r = job.row /\ r \in Queued /\ n \notin DOMAIN adjustments
         /\ DOMAIN adjustments' = DOMAIN adjustments \cup {n} /\ n \in DOMAIN adjustments'
         /\ \A i \in DOMAIN adjustments : adjustments'[i] = adjustments[i]
         /\ adjustments' \in Seq(Adjustment) /\ inbox' \subseteq (Nat \X AdjustmentStates) /\ InboxOK' /\ RefundsStay
         /\ adjustments'[n].row = r /\ adjustments'[n].payment = remedy[r].payment /\ Worth(n)' = remedy[r].amount
         /\ NewRefundsOf(r) /\ Existing(r)' = {n} /\ adjustments'[n].items = job.items
<1>1. PICK r : r = job.row
  OBVIOUS
<1>2. r \in job.rows /\ r \in Queued /\ Existing(r) = {} /\ DOMAIN job.items = LinesOf(remedy[r].payment)
      /\ SumFunction(job.items) = remedy[r].amount /\ job.items \in Seq(Nat)
  BY <1>1, Types DEF IInv, JobOK, JobType
<1>3. r \in Nat /\ remedy[r].payment \in Payments
  BY <1>2, QueuedRow
<1>4. PICK n \in Nat \ {0} :
      /\ n = Len(adjustments) + 1 /\ n \notin DOMAIN adjustments /\ DOMAIN adjustments' = DOMAIN adjustments \cup {n}
      /\ adjustments' \in Seq(Adjustment)
      /\ adjustments'[n] = [payment |-> remedy[r].payment, row |-> r, items |-> job.items, state |-> state]
      /\ \A i \in DOMAIN adjustments : adjustments'[i] = adjustments[i]
      /\ RefundsStay /\ InboxOK' /\ inbox' \subseteq (Nat \X AdjustmentStates)
  <2>1. PICK p, items : p = remedy[r].payment /\ items = job.items
    OBVIOUS
  <2>2. p \in Payments /\ items \in Seq(Nat) /\ Adjust(p, r, items, state)
    BY <1>1, <1>2, <1>3, <2>1
  <2>3. PICK n : n = Len(adjustments) + 1
    OBVIOUS
  <2>4. RefundAt(n, p, r, items, state)
    BY <1>3, <2>2, <2>3, RefundMade
  <2> QED BY <2>1, <2>3, <2>4 DEF RefundAt
<1>5. adjustments'[n].row = r /\ adjustments'[n].payment = remedy[r].payment /\ adjustments'[n].items = job.items
  BY <1>4
<1>6. Worth(n)' = remedy[r].amount
  <2>1. Worth(n)' = SumFunction(adjustments'[n].items)
    BY DEF Worth
  <2> QED BY <1>2, <1>5, <2>1
<1>7. \A j \in DOMAIN adjustments' : adjustments'[j].row = r => j = n
  BY <1>2, <1>4 DEF Existing
<1>8. NewRefundsOf(r)
  <2> SUFFICES ASSUME NEW i \in DOMAIN adjustments' \ DOMAIN adjustments
               PROVE  /\ adjustments'[i].row = r /\ adjustments'[i].payment = remedy[r].payment
                      /\ DOMAIN adjustments'[i].items = LinesOf(remedy[r].payment) /\ Worth(i)' = remedy[r].amount
                      /\ \A j \in DOMAIN adjustments' : adjustments'[j].row = r => i = j
    BY DEF NewRefundsOf
  <2>1. i = n
    BY <1>4
  <2>2. Worth(i)' = remedy[r].amount
    BY <1>6, <2>1
  <2> QED BY <1>2, <1>5, <1>7, <2>1, <2>2
<1>9. {i \in DOMAIN adjustments' : adjustments'[i].row = r} = {n}
  BY <1>4, <1>5, <1>7
<1>10. Existing(r)' = {n}
  BY <1>9 DEF Existing
<1> HIDE DEF Adjustment
<1> QED BY <1>1, <1>2, <1>4, <1>5, <1>6, <1>8, <1>10

LEMMA CreateRefundOK ==
  ASSUME IInv, setup' = setup, CreateRefund
  PROVE  IInv'
<1>1. pc = "create" /\ UNCHANGED <<ended, op, lost, faults>> /\ job.row \in job.rows /\ ended /\ faults' \in Nat
  BY Types DEF CreateRefund, IInv, JobOK
<1>2. ASSUME NEW state \in {"pending", "approved"}, Adjust(remedy[job.row].payment, job.row, job.items, state),
             Goto("settle", [job EXCEPT !.refund = Len(adjustments) + 1]), UNCHANGED remedy
      PROVE  IInv'
  <2>1. PICK n \in Nat, r \in job.rows :
         /\ n = Len(adjustments) + 1 /\ r = job.row /\ r \in Queued /\ n \notin DOMAIN adjustments
         /\ DOMAIN adjustments' = DOMAIN adjustments \cup {n} /\ n \in DOMAIN adjustments'
         /\ \A i \in DOMAIN adjustments : adjustments'[i] = adjustments[i]
         /\ adjustments' \in Seq(Adjustment) /\ inbox' \subseteq (Nat \X AdjustmentStates) /\ InboxOK' /\ RefundsStay
         /\ NewRefundsOf(r) /\ Existing(r)' = {n}
    BY <1>1, <1>2, SentMakes
  <2>2. pc' = "settle" /\ job' = [job EXCEPT !.refund = n] /\ job' \in JobType /\ job'.row = r /\ job'.refund = n
        /\ job'.rows = job.rows
    BY <1>2, <2>1, Types DEF Goto, JobType
  <2>3. RowsStay /\ Queued' = Queued
    BY <1>2 DEF RowsStay, Queued
  <2>4. TypeOK'
    <3>1. pc' \in Steps /\ ended' \in BOOLEAN /\ lost' \subseteq DOMAIN adjustments' /\ remedy' \in Seq(Remedy)
          /\ op' \in [Operators -> OpType]
      BY <1>1, <1>2, <2>1, <2>2, Types DEF Steps
    <3> QED BY <1>1, <2>1, <2>2, <3>1, TypeParts
  <2>5. JobOK'
    <3>1. Existing(job.row)' = {n}
      BY <2>1, <2>2 DEF Existing
    <3>2. job'.rows \subseteq Queued
      BY <1>1, <2>2 DEF IInv, JobOK
    <3> QED BY <1>1, <2>1, <2>2, <2>3, <3>1, <3>2 DEF JobOK
  <2>6. RowsOK' /\ AdjustmentsOK'
    <3>1. \A i \in DOMAIN adjustments' \ DOMAIN adjustments : AdjustmentOK(i)' /\ adjustments'[i].row = r
      <4> SUFFICES ASSUME NEW i \in DOMAIN adjustments' \ DOMAIN adjustments
                   PROVE  AdjustmentOK(i)' /\ adjustments'[i].row = r
        OBVIOUS
      <4>1. /\ adjustments'[i].row = r /\ adjustments'[i].payment = remedy[r].payment
            /\ DOMAIN adjustments'[i].items = LinesOf(remedy[r].payment) /\ Worth(i)' = remedy[r].amount
        BY <2>1 DEF NewRefundsOf
      <4>2. LinesOf(adjustments[i].payment)' = LinesOf(remedy[r].payment)
        BY <4>1, SameSetup DEF LinesOf
      <4>3. r \in DOMAIN remedy /\ r # 0 /\ remedy[r].cause = "cancel"
        BY <2>1, QueuedRow
      <4> QED BY <1>1, <1>2, <4>1, <4>2, <4>3 DEF AdjustmentOK, SentOK
    <3>2. \A i \in DOMAIN adjustments' \ DOMAIN adjustments, j \in DOMAIN adjustments' :
            adjustments'[i].row = adjustments'[j].row /\ adjustments'[i].row # 0 => i = j
      BY <2>1 DEF NewRefundsOf
    <3>3. \A q \in DOMAIN remedy : StatusOK(q)'
      <4> TAKE q \in DOMAIN remedy
      <4>1. StatusOK(q) /\ NamesOK(q)
        BY DEF IInv, RowsOK, RowOK
      <4>2. remedy[q].ref # 0 => (HoldsMoney(remedy[q].ref)' => HoldsMoney(remedy[q].ref))
        <5> SUFFICES ASSUME remedy[q].ref # 0, HoldsMoney(remedy[q].ref)' PROVE HoldsMoney(remedy[q].ref)
          OBVIOUS
        <5>1. PICK i \in DOMAIN adjustments : i = remedy[q].ref
          BY <4>1 DEF NamesOK
        <5>2. HoldsMoney(i)'
          BY <1>2, <5>1 DEF HoldsMoney
        <5>3. HoldsMoney(i)
          BY <2>1, <5>2 DEF RefundsStay
        <5> QED BY <5>1, <5>3
      <4> QED BY <1>2, <4>1, <4>2 DEF StatusOK
    <3>4. DOMAIN remedy' \ DOMAIN remedy = {}
      BY <1>2
    <3>5. \A i \in DOMAIN adjustments : SavingBy(i) => SavingBy(i)'
      BY <1>1, SameSetup DEF SavingBy
    <3> QED BY <1>1, <2>1, <2>3, <3>1, <3>2, <3>3, <3>4, <3>5, LedgerMoves
  <2>7. OperatorsOK'
    <3>1. DOMAIN remedy' \ DOMAIN remedy = {}
      BY <1>2
    <3> QED BY <1>1, <2>1, <2>3, <3>1, OperatorsStay
  <2> QED BY <2>1, <2>4, <2>5, <2>6, <2>7 DEF IInv
<1>3. ASSUME RefundFailed(job.row), UNCHANGED Provider PROVE IInv'
  BY <1>1, <1>3, RefundFailedOK DEF Provider
<1> QED BY <1>2, <1>3 DEF CreateRefund

LEMMA SendFailsOK ==
  ASSUME IInv, setup' = setup, SendFails
  PROVE  IInv'
<1>1. pc \in {"list", "create"} /\ UNCHANGED <<ended, op, lost>> /\ faults' \in Nat
  <2>1. faults' = faults + 1 /\ faults \in Nat
    BY Types DEF SendFails, Fault
  <2> QED BY <2>1 DEF SendFails
<1>2. PICK r \in job.rows :
        /\ pc = "create" => r = job.row
        /\ RefundFailed(r)
        /\ \/ UNCHANGED Provider
           \/ /\ pc = "create" /\ Takes(remedy[r].payment, job.items)
              /\ \E state \in {"pending", "approved"} : Adjust(remedy[r].payment, r, job.items, state)
  BY DEF SendFails
<1>3. CASE UNCHANGED Provider
  BY <1>1, <1>2, <1>3, RefundFailedOK DEF Provider
<1>4. ASSUME pc = "create", NEW state \in {"pending", "approved"}, Adjust(remedy[r].payment, r, job.items, state)
      PROVE  IInv'
  <2>1. r = job.row /\ Adjust(remedy[job.row].payment, job.row, job.items, state)
    BY <1>2, <1>4
  <2>2. PICK q \in job.rows : /\ q = job.row /\ adjustments' \in Seq(Adjustment) /\ inbox' \subseteq (Nat \X AdjustmentStates)
                              /\ InboxOK' /\ RefundsStay /\ NewRefundsOf(q)
    BY <1>4, <2>1, SentMakes
  <2>3. r \in Queued /\ q = r
    BY <1>1, <2>1, <2>2 DEF IInv, JobOK
  <2>4. PICK new : RowNow(r, new)
    BY <1>2, <2>3, RefundFailedMakes
  <2>5. StatusOK(r)'
    BY <1>2, <2>3, RefundFailedMakes
  <2>6. NextRow(r)
    BY <1>2 DEF RefundFailed
  <2>7. pc \in {"list", "create", "settle"} /\ ended' = ended /\ op' = op /\ lost' = lost /\ NewRefundsOf(r)
    BY <1>1, <2>2, <2>3
  <2> QED BY <1>1, <2>2, <2>4, <2>5, <2>6, <2>7, RowDone
<1> QED BY <1>2, <1>3, <1>4

LEMMA SettleOK ==
  ASSUME IInv, setup' = setup, Settle
  PROVE  IInv'
<1>1. pc = "settle" /\ UNCHANGED <<adjustments, inbox, ended, op, lost, faults>> /\ faults' \in Nat
  BY Types DEF Settle, Provider
<1>2. PICK r, i : r = job.row /\ i = job.refund
  OBVIOUS
<1>3. r \in job.rows /\ r \in Queued /\ i \in Existing(r) /\ NextRow(r)
  BY <1>1, <1>2 DEF IInv, JobOK, Settle
<1>4. r \in DOMAIN remedy /\ remedy[r] \in Remedy /\ remedy[r].cause = "cancel" /\ r # 0 /\ StatusOK(r) /\ NamesOK(r)
  BY <1>3, QueuedRow, RowTypes DEF IInv, RowsOK, RowOK
<1>5. i \in DOMAIN adjustments /\ adjustments[i].row = r /\ i \in Nat \ {0} /\ adjustments[i].state \in AdjustmentStates
  BY <1>3, AdjustmentTypes DEF Existing, IInv
<1>6. PICK st : st = StatusOf(adjustments[i].state)
  OBVIOUS
<1>7. st \in {"initiated", "approved", "rejected", "reversed"} /\ (st \in {"rejected", "reversed"} => ~HoldsMoney(i))
  BY <1>5, <1>6 DEF StatusOf, AdjustmentStates, HoldsMoney
<1> DEFINE new == [remedy[r] EXCEPT !.status = st, !.ref = i]
<1>8. remedy' = [remedy EXCEPT ![r] = new]
  BY <1>1, <1>2, <1>4, <1>6 DEF Settle
<1>9. /\ new \in Remedy /\ new.payment = remedy[r].payment /\ new.amount = remedy[r].amount /\ new.cause = remedy[r].cause
      /\ new.ref = i /\ new.status = st
  BY <1>4, <1>5, <1>7 DEF Remedy, LiveStatuses
<1> HIDE DEF new
<1>10. remedy[r].ref = 0 \/ remedy[r].ref = i
  BY <1>4, <1>5 DEF NamesOK, IInv, AdjustmentsOK
<1>11. Existing(r)' = Existing(r)
  BY <1>1 DEF Existing
<1>12. RowNow(r, new)
  BY <1>3, <1>8, <1>9, <1>10, <1>11 DEF RowNow
<1>13. StatusOK(r)'
  <2>1. remedy'[r] = new /\ i # 0
    BY <1>4, <1>5, <1>8
  <2>2. HoldsMoney(i)' = HoldsMoney(i)
    BY <1>1 DEF HoldsMoney
  <2>3. HoldsMoney(remedy[r].ref)' = HoldsMoney(i)'
    BY <1>9, <2>1 DEF HoldsMoney
  <2> QED BY <1>4, <1>7, <1>9, <2>1, <2>2, <2>3 DEF StatusOK
<1>14. RefundsStay /\ NewRefundsOf(r) /\ InboxOK'
  BY <1>1 DEF RefundsStay, HoldsMoney, NewRefundsOf, InboxOK, IInv
<1>15. adjustments' \in Seq(Adjustment) /\ inbox' \subseteq (Nat \X AdjustmentStates)
  BY <1>1, Types
<1>16. pc \in {"list", "create", "settle"} /\ ended' = ended /\ op' = op /\ lost' = lost
  BY <1>1
<1> QED BY <1>1, <1>3, <1>12, <1>13, <1>14, <1>15, <1>16, RowDone

LEMMA DiscardOK ==
  ASSUME IInv, setup' = setup, Discard
  PROVE  IInv'
<1>1. pc = "idle" /\ UNCHANGED <<adjustments, inbox, ended, pc, job, op, lost, faults>>
  BY DEF Discard, Provider
<1>2. PICK r \in Queued : remedy' = [remedy EXCEPT ![r].status = "failed"]
  BY DEF Discard
<1>3. r \in DOMAIN remedy /\ remedy[r] \in Remedy /\ remedy[r].cause = "cancel" /\ remedy[r].status = "queued"
  BY QueuedRow, RowTypes DEF IInv
<1> DEFINE new == [remedy[r] EXCEPT !.status = "failed"]
<1>4. remedy' = [remedy EXCEPT ![r] = new]
  BY <1>2
<1>5. /\ new \in Remedy /\ new.payment = remedy[r].payment /\ new.amount = remedy[r].amount /\ new.cause = remedy[r].cause
      /\ new.ref = remedy[r].ref /\ new.status = "failed"
  BY <1>3 DEF Remedy
<1> HIDE DEF new
<1>6. RefundsStay
  BY <1>1 DEF RefundsStay, HoldsMoney
<1>7. /\ RowsStay /\ remedy' \in Seq(Remedy) /\ DOMAIN remedy' = DOMAIN remedy /\ remedy'[r] = new
      /\ \A q \in DOMAIN remedy \ {r} : StatusOK(q)'
  BY <1>3, <1>4, <1>5, <1>6, RowMoves
<1>8. StatusOK(r)'
  BY <1>3, <1>5, <1>7 DEF StatusOK
<1>9. TypeOK'
  BY <1>1, <1>7, Types, TypeParts
<1>10. JobOK'
  BY <1>1 DEF JobOK
<1>11. RowsOK' /\ AdjustmentsOK'
  <2>1. \A q \in DOMAIN remedy : StatusOK(q)'
    BY <1>7, <1>8
  <2>2. DOMAIN adjustments' \ DOMAIN adjustments = {} /\ DOMAIN remedy' \ DOMAIN remedy = {}
    BY <1>1, <1>7
  <2>3. \A i \in DOMAIN adjustments : SavingBy(i) => SavingBy(i)'
    BY <1>1, SameSetup DEF SavingBy
  <2> QED BY <1>1, <1>6, <1>7, <2>1, <2>2, <2>3, LedgerMoves
<1>12. OperatorsOK'
  BY <1>1, <1>6, <1>7, OperatorsStay
<1>13. InboxOK' /\ setup' \in DOMAIN Setups
  BY <1>1 DEF IInv, InboxOK
<1> QED BY <1>9, <1>10, <1>11, <1>12, <1>13 DEF IInv

-----------------------------------------------------------------------------
(* The operators' steps.                                                   *)

LEMMA NoOpOK ==
  ASSUME IInv, setup' = setup, NEW q \in Operators, op'[q] = NoOp
  PROVE  NoOp \in OpType /\ NoOp.step = "idle" /\ OperatorOK(q)'
<1>1. <<>> \in Seq(Nat)
  OBVIOUS
<1> QED BY <1>1 DEF NoOp, OpType, OperatorOK

LEMMA OpAt ==
  ASSUME IInv, NEW q \in Operators, NEW new, op' = [op EXCEPT ![q] = new]
  PROVE  op'[q] = new /\ \A o \in Operators \ {q} : op'[o] = op[o]
BY Types

LEMMA ApplyRemedyOK ==
  ASSUME IInv, setup' = setup, NEW q \in Operators, ApplyRemedy(q)
  PROVE  IInv'
<1>1. UNCHANGED <<adjustments, inbox, remedy, ended, pc, job, lost, faults>> /\ op[q].step = "idle"
  BY DEF ApplyRemedy, Provider
<1>2. PICK p \in Payments :
       \/ /\ Refunded(p) = 0 /\ Amount(p) > 0
          /\ Move(q, [NoOp EXCEPT !.step = "create", !.payment = p, !.amount = Amount(p), !.items = Lines[p]])
       \/ \E amount \in 1 .. Refundable(p) :
            Move(q, [NoOp EXCEPT !.step = "list", !.payment = p, !.amount = amount])
  BY DEF ApplyRemedy
<1>3. Lines[p] \in Seq(Nat) /\ Amount(p) \in Nat /\ DOMAIN Lines[p] = LinesOf(p) /\ Amount(p) = SumFunction(Lines[p])
  BY LineTypes DEF IInv, Amount, LinesOf
<1>4. Payments' = Payments /\ \A x : LinesOf(x)' = LinesOf(x)
  BY SameSetup
<1>5. lost' \subseteq DOMAIN adjustments /\ lost \subseteq lost' /\ faults' \in Nat
  BY <1>1, Types
<1>6. ASSUME Amount(p) > 0,
             Move(q, [NoOp EXCEPT !.step = "create", !.payment = p, !.amount = Amount(p), !.items = Lines[p]])
      PROVE  IInv'
  <2> DEFINE new == [NoOp EXCEPT !.step = "create", !.payment = p, !.amount = Amount(p), !.items = Lines[p]]
  <2>1. op' = [op EXCEPT ![q] = new]
    BY <1>6 DEF Move
  <2>2. /\ new \in OpType /\ new.step = "create" /\ new.payment = p /\ new.amount = Amount(p) /\ new.items = Lines[p]
        /\ new.refund = 0
    BY <1>3 DEF NoOp, OpType
  <2> HIDE DEF new
  <2>3. op'[q] = new
    BY <2>1, OpAt
  <2>4. LinesOf(op[q].payment)' = LinesOf(p)
    BY <1>4, <2>2, <2>3 DEF LinesOf
  <2>5. OperatorOK(q)'
    BY <1>3, <1>4, <1>6, <2>2, <2>3, <2>4 DEF OperatorOK
  <2>6. new.step # "save" /\ op[q].step # "save"
    BY <1>1, <2>2
  <2> QED BY <1>1, <1>5, <2>1, <2>2, <2>5, <2>6, OperatorAlone
<1>7. ASSUME NEW amount \in 1 .. Refundable(p), Move(q, [NoOp EXCEPT !.step = "list", !.payment = p, !.amount = amount])
      PROVE  IInv'
  <2> DEFINE new == [NoOp EXCEPT !.step = "list", !.payment = p, !.amount = amount]
  <2>1. op' = [op EXCEPT ![q] = new]
    BY <1>7 DEF Move
  <2>2. <<>> \in Seq(Nat) /\ amount \in Nat /\ amount > 0
    <3>1. Refundable(p) \in Int
      BY <1>3, RefundedSum DEF Refundable, AtLeastZero, IInv
    <3> QED BY <3>1
  <2>3. /\ new \in OpType /\ new.step = "list" /\ new.payment = p /\ new.amount = amount /\ new.refund = 0
    BY <2>2 DEF NoOp, OpType
  <2> HIDE DEF new
  <2>4. op'[q] = new
    BY <2>1, OpAt
  <2>5. OperatorOK(q)'
    BY <1>4, <2>2, <2>3, <2>4 DEF OperatorOK
  <2>6. new.step # "save" /\ op[q].step # "save"
    BY <1>1, <2>3
  <2> QED BY <1>1, <1>5, <2>1, <2>3, <2>5, <2>6, OperatorAlone
<1> QED BY <1>2, <1>6, <1>7

LEMMA ListForOK ==
  ASSUME IInv, setup' = setup, NEW q \in Operators, ListFor(q)
  PROVE  IInv'
<1>1. UNCHANGED <<adjustments, inbox, remedy, ended, pc, job, lost, faults>> /\ op[q].step = "list"
  BY DEF ListFor, Provider
<1>2. PICK split : /\ split = Spread(op[q].amount, LeftByLine(op[q].payment))
                   /\ Move(q, IF split.rest > 0 THEN NoOp ELSE [op[q] EXCEPT !.step = "create", !.items = split.parts])
  BY DEF ListFor
<1>3. lost' \subseteq DOMAIN adjustments /\ lost \subseteq lost' /\ faults' \in Nat
  BY <1>1, Types
<1>4. op[q] \in OpType /\ op[q].payment \in Payments /\ op[q].amount \in Nat /\ op[q].amount > 0 /\ op[q].refund = 0
  BY <1>1, Types DEF IInv, OperatorsOK, OperatorOK, OpType
<1>5. CASE split.rest > 0
  <2>1. op' = [op EXCEPT ![q] = NoOp]
    BY <1>2, <1>5 DEF Move
  <2>2. NoOp \in OpType /\ NoOp.step = "idle" /\ OperatorOK(q)'
    BY <2>1, OpAt, NoOpOK
  <2>3. NoOp.step # "save" /\ op[q].step # "save"
    BY <1>1, <2>2
  <2> QED BY <1>1, <1>3, <2>1, <2>2, <2>3, OperatorAlone
<1>6. CASE ~(split.rest > 0)
  <2> DEFINE new == [op[q] EXCEPT !.step = "create", !.items = split.parts]
  <2>1. op' = [op EXCEPT ![q] = new]
    BY <1>2, <1>6 DEF Move
  <2>2. split.parts \in Seq(Nat) /\ DOMAIN split.parts = LinesOf(op[q].payment) /\ SumFunction(split.parts) = op[q].amount
    <3>1. PICK p \in Payments, amount \in Nat : p = op[q].payment /\ amount = op[q].amount
      BY <1>4
    <3>2. /\ split.parts \in Seq(Nat) /\ DOMAIN split.parts = LinesOf(p) /\ split.rest \in Nat
          /\ split.rest = 0 => SumFunction(split.parts) = amount
      BY <1>2, <3>1, SplitOK
    <3>3. split.rest = 0
      BY <1>6, <3>2
    <3> QED BY <3>1, <3>2, <3>3
  <2>3. /\ new \in OpType /\ new.step = "create" /\ new.payment = op[q].payment /\ new.amount = op[q].amount
        /\ new.items = split.parts /\ new.refund = 0
    BY <1>4, <2>2 DEF OpType
  <2> HIDE DEF new
  <2>4. op'[q] = new
    BY <2>1, OpAt
  <2>5. LinesOf(op[q].payment)' = LinesOf(op[q].payment)
    BY <2>3, <2>4, SameSetup DEF LinesOf
  <2>6. OperatorOK(q)'
    BY <1>4, <2>2, <2>3, <2>4, <2>5, SameSetup DEF OperatorOK
  <2>7. new.step # "save" /\ op[q].step # "save"
    BY <1>1, <2>3
  <2> QED BY <1>1, <1>3, <2>1, <2>3, <2>6, <2>7, OperatorAlone
<1> QED BY <1>5, <1>6

LEMMA StatusStays ==
  ASSUME IInv, setup' = setup, RefundsStay, NEW r \in DOMAIN remedy, remedy'[r] = remedy[r]
  PROVE  StatusOK(r)'
<1>1. StatusOK(r) /\ NamesOK(r)
  BY DEF IInv, RowsOK, RowOK
<1>2. remedy[r].ref # 0 => (HoldsMoney(remedy[r].ref)' => HoldsMoney(remedy[r].ref))
  <2> SUFFICES ASSUME remedy[r].ref # 0, HoldsMoney(remedy[r].ref)' PROVE HoldsMoney(remedy[r].ref)
    OBVIOUS
  <2>1. PICK i \in DOMAIN adjustments : i = remedy[r].ref /\ i = remedy'[r].ref
    BY <1>1 DEF NamesOK
  <2>2. HoldsMoney(i)'
    BY <2>1 DEF HoldsMoney
  <2>3. HoldsMoney(i)
    BY <2>2 DEF RefundsStay
  <2> QED BY <2>1, <2>3
<1> QED BY <1>1, <1>2 DEF StatusOK

(* An operator's refund is made: he saves it next, or it is lost.          *)
LEMMA OperatorSends ==
  ASSUME IInv, setup' = setup, NEW q \in Operators, op[q].step = "create",
         NEW state \in {"pending", "approved"}, Adjust(op[q].payment, 0, op[q].items, state),
         UNCHANGED <<remedy, ended, pc, job>>, faults' \in Nat,
         NEW n, n = Len(adjustments) + 1,
         \/ op' = [op EXCEPT ![q] = [op[q] EXCEPT !.step = "save", !.refund = n]] /\ lost' = lost
         \/ op' = [op EXCEPT ![q] = NoOp] /\ lost' = lost \cup {n}
  PROVE  IInv'
<1>1. PICK p, items : p = op[q].payment /\ items = op[q].items
  OBVIOUS
<1>2. /\ p \in Payments /\ items \in Seq(Nat) /\ op[q] \in OpType /\ op[q].amount > 0 /\ op[q].refund = 0
      /\ DOMAIN items = LinesOf(p) /\ SumFunction(items) = op[q].amount
  BY <1>1, Types DEF IInv, OperatorsOK, OperatorOK, OpType
<1>3. /\ n \in Nat \ {0} /\ n \notin DOMAIN adjustments /\ DOMAIN adjustments' = DOMAIN adjustments \cup {n}
      /\ adjustments' \in Seq(Adjustment)
      /\ adjustments'[n] = [payment |-> p, row |-> 0, items |-> items, state |-> state]
      /\ \A i \in DOMAIN adjustments : adjustments'[i] = adjustments[i]
      /\ RefundsStay /\ InboxOK' /\ inbox' \subseteq (Nat \X AdjustmentStates)
  <2>1. PICK none \in Nat : none = 0
    OBVIOUS
  <2>2. p \in Payments /\ items \in Seq(Nat) /\ Adjust(p, none, items, state)
    BY <1>1, <1>2, <2>1
  <2>3. RefundAt(n, p, none, items, state)
    BY <2>2, RefundMade
  <2> QED BY <2>1, <2>3 DEF RefundAt
<1>4. RowsStay /\ Queued' = Queued /\ \A r \in DOMAIN remedy : Existing(r)' = Existing(r)
  <2>1. \A r \in DOMAIN remedy : 0 # r
    BY RowTypes DEF IInv
  <2>2. adjustments'[n].row = 0
    BY <1>3
  <2>3. \A r \in DOMAIN remedy : Existing(r)' = Existing(r)
    BY <1>3, <2>1, <2>2 DEF Existing
  <2> QED BY <2>3 DEF RowsStay, Queued
<1>5. adjustments'[n].row = 0 /\ adjustments'[n].payment = p /\ adjustments'[n].items = items
  BY <1>3
<1>6. Worth(n)' = op[q].amount
  <2>1. Worth(n)' = SumFunction(adjustments'[n].items)
    BY DEF Worth
  <2> QED BY <1>2, <1>5, <2>1
<1>7. ~SavedBy(n)'
  <2>1. \A r \in DOMAIN remedy : remedy[r].ref # n
    <3> SUFFICES ASSUME NEW r \in DOMAIN remedy, remedy[r].ref = n PROVE FALSE
      OBVIOUS
    <3>1. NamesOK(r)
      BY DEF IInv, RowsOK, RowOK
    <3> QED BY <1>3, <3>1 DEF NamesOK
  <2> QED BY <2>1 DEF SavedBy
<1>8. PICK new \in OpType : /\ op' = [op EXCEPT ![q] = new] /\ op'[q] = new /\ \A o \in Operators \ {q} : op'[o] = op[o]
        /\ \/ /\ new.step = "save" /\ new.refund = n /\ new.payment = p /\ new.amount = op[q].amount /\ lost' = lost
           \/ new = NoOp /\ lost' = lost \cup {n}
  <2>1. CASE op' = [op EXCEPT ![q] = NoOp] /\ lost' = lost \cup {n}
    <3>1. op'[q] = NoOp /\ \A o \in Operators \ {q} : op'[o] = op[o]
      BY <2>1, OpAt
    <3>2. NoOp \in OpType
      BY <3>1, NoOpOK
    <3> QED BY <2>1, <3>1, <3>2
  <2>2. CASE op' = [op EXCEPT ![q] = [op[q] EXCEPT !.step = "save", !.refund = n]] /\ lost' = lost
    <3>1. PICK new : new = [op[q] EXCEPT !.step = "save", !.refund = n]
      OBVIOUS
    <3>2. /\ new \in OpType /\ new.step = "save" /\ new.refund = n /\ new.payment = p /\ new.amount = op[q].amount
      BY <1>1, <1>2, <1>3, <3>1 DEF OpType
    <3>3. op' = [op EXCEPT ![q] = new]
      BY <2>2, <3>1
    <3>4. op'[q] = new /\ \A o \in Operators \ {q} : op'[o] = op[o]
      BY <3>3, OpAt
    <3> QED BY <2>2, <3>2, <3>3, <3>4
  <2> QED BY <2>1, <2>2
<1>9. OperatorOK(q)'
  <2>1. CASE new = NoOp
    BY <1>8, <2>1, NoOpOK
  <2>2. CASE new.step = "save" /\ new.refund = n /\ new.payment = p /\ new.amount = op[q].amount
    <3>1. op'[q].step = "save" /\ op'[q].refund = n /\ op'[q].payment = p /\ op'[q].amount = op[q].amount
      BY <1>8, <2>2
    <3>2. Worth(op[q].refund)' = Worth(n)' /\ SavedBy(op[q].refund)' = SavedBy(n)'
      BY <3>1 DEF Worth, SavedBy
    <3>3. p \in Payments' /\ n \in DOMAIN adjustments'
      BY <1>2, <1>3, SameSetup
    <3> QED BY <1>2, <1>5, <1>6, <1>7, <3>1, <3>2, <3>3 DEF OperatorOK
  <2> QED BY <1>8, <2>1, <2>2
<1>10. DOMAIN remedy' \ DOMAIN remedy = {} /\ lost \subseteq lost' /\ lost' \subseteq DOMAIN adjustments' /\ (ended => ended')
  BY <1>3, <1>8, Types
<1>11. OperatorsOK'
  <2>1. op'[q].step = "save" => op'[q].refund \notin DOMAIN adjustments
    BY <1>3, <1>8 DEF NoOp
  <2> QED BY <1>3, <1>4, <1>8, <1>9, <1>10, <2>1, OperatorsMove
<1>12. JobOK'
  BY <1>3, <1>4, JobStays
<1>13. RowsOK' /\ AdjustmentsOK'
  <2>1. n \in lost' \/ SavingBy(n)'
    BY <1>8, SameSetup DEF SavingBy
  <2>2. AdjustmentOK(n)'
    <3>1. LinesOf(adjustments[n].payment)' = LinesOf(p)
      BY <1>5, SameSetup DEF LinesOf
    <3> QED BY <1>2, <1>5, <2>1, <3>1 DEF AdjustmentOK, SentOK
  <2>3. \A i \in DOMAIN adjustments' \ DOMAIN adjustments : i = n
    BY <1>3
  <2>4. \A i \in DOMAIN adjustments' \ DOMAIN adjustments : AdjustmentOK(i)'
    BY <2>2, <2>3
  <2>5. \A i \in DOMAIN adjustments : SavingBy(i) => SavingBy(i)'
    <3> SUFFICES ASSUME NEW i, SavingBy(i) PROVE SavingBy(i)'
      OBVIOUS
    <3>1. PICK o \in Operators : op[o].step = "save" /\ op[o].refund = i
      BY DEF SavingBy
    <3>2. o # q
      BY <3>1
    <3> QED BY <1>8, <3>1, <3>2, SameSetup DEF SavingBy
  <2>6. \A i \in DOMAIN adjustments' \ DOMAIN adjustments, j \in DOMAIN adjustments' :
           adjustments'[i].row = adjustments'[j].row /\ adjustments'[i].row # 0 => i = j
    BY <1>5, <2>3
  <2>7. \A r \in DOMAIN remedy : StatusOK(r)'
    BY <1>3, StatusStays
  <2> QED BY <1>3, <1>4, <1>10, <2>4, <2>5, <2>6, <2>7, LedgerMoves
<1>14. TypeOK'
  <2>1. op' \in [Operators -> OpType]
    BY <1>8, Types
  <2> QED BY <1>3, <1>10, <2>1, Types, TypeParts
<1> QED BY <1>3, <1>11, <1>12, <1>13, <1>14 DEF IInv

LEMMA CreateForOK ==
  ASSUME IInv, setup' = setup, NEW q \in Operators, CreateFor(q)
  PROVE  IInv'
<1>1. UNCHANGED <<remedy, ended, pc, job, lost, faults>> /\ op[q].step = "create" /\ faults' \in Nat
  BY Types DEF CreateFor
<1>2. ASSUME NEW state \in {"pending", "approved"}, Adjust(op[q].payment, 0, op[q].items, state),
             Move(q, [op[q] EXCEPT !.step = "save", !.refund = Len(adjustments) + 1])
      PROVE  IInv'
  <2>1. PICK n : n = Len(adjustments) + 1
    OBVIOUS
  <2>2. op' = [op EXCEPT ![q] = [op[q] EXCEPT !.step = "save", !.refund = n]]
    BY <1>2, <2>1 DEF Move
  <2> QED BY <1>1, <1>2, <2>1, <2>2, OperatorSends
<1>3. ASSUME Move(q, NoOp), UNCHANGED Provider PROVE IInv'
  <2>1. op' = [op EXCEPT ![q] = NoOp]
    BY <1>3 DEF Move
  <2>2. NoOp \in OpType /\ NoOp.step = "idle" /\ OperatorOK(q)'
    BY <2>1, OpAt, NoOpOK
  <2>3. NoOp.step # "save" /\ op[q].step # "save"
    BY <1>1, <2>2
  <2>4. lost' \subseteq DOMAIN adjustments /\ lost \subseteq lost'
    BY <1>1, Types
  <2> QED BY <1>1, <1>3, <2>1, <2>2, <2>3, <2>4, OperatorAlone DEF Provider
<1> QED BY <1>2, <1>3 DEF CreateFor

LEMMA OperatorFailsOK ==
  ASSUME IInv, setup' = setup, NEW q \in Operators, OperatorFails(q)
  PROVE  IInv'
<1>1. UNCHANGED <<remedy, ended, pc, job>> /\ op' = [op EXCEPT ![q] = NoOp] /\ faults' \in Nat
  <2>1. faults' = faults + 1 /\ faults \in Nat
    BY Types DEF OperatorFails, Fault
  <2> QED BY <2>1 DEF OperatorFails, Move
<1>2. ASSUME UNCHANGED Provider, lost' = lost \cup ({op[q].refund} \ {0}) PROVE IInv'
  <2>1. NoOp \in OpType /\ NoOp.step = "idle" /\ OperatorOK(q)'
    BY <1>1, OpAt, NoOpOK
  <2>2. op[q].refund = 0 \/ op[q].refund \in DOMAIN adjustments
    <3>1. CASE op[q].step = "idle"
      BY <3>1 DEF OperatorFails
    <3>2. CASE op[q].step # "idle"
      BY <3>2, OperatorTypes DEF IInv, OperatorsOK, OperatorOK
    <3> QED BY <3>1, <3>2
  <2>3. op[q].step = "save" => op[q].refund \in DOMAIN adjustments /\ op[q].refund # 0
    BY AdjustmentTypes DEF IInv, OperatorsOK, OperatorOK
  <2>4. lost \subseteq lost' /\ lost' \subseteq DOMAIN adjustments /\ (op[q].step = "save" => op[q].refund \in lost')
    BY <1>2, <2>2, <2>3, Types
  <2>5. NoOp.step # "save"
    BY <2>1
  <2> QED BY <1>1, <1>2, <2>1, <2>4, <2>5, OperatorAlone DEF Provider
<1>3. ASSUME op[q].step = "create", NEW state \in {"pending", "approved"}, Adjust(op[q].payment, 0, op[q].items, state),
             lost' = lost \cup {Len(adjustments) + 1}
      PROVE  IInv'
  <2>1. PICK n : n = Len(adjustments) + 1
    OBVIOUS
  <2>2. lost' = lost \cup {n}
    BY <1>3, <2>1
  <2> QED BY <1>1, <1>3, <2>1, <2>2, OperatorSends
<1> QED BY <1>2, <1>3 DEF OperatorFails

LEMMA SaveRemedyOK ==
  ASSUME IInv, setup' = setup, NEW q \in Operators, SaveRemedy(q)
  PROVE  IInv'
<1>1. UNCHANGED <<adjustments, inbox, ended, pc, job, lost, faults>> /\ op[q].step = "save" /\ op' = [op EXCEPT ![q] = NoOp]
  BY DEF SaveRemedy, Provider, Move
<1>2. PICK p, amount, i : p = op[q].payment /\ amount = op[q].amount /\ i = op[q].refund
  OBVIOUS
<1>3. /\ p \in Payments /\ amount \in Nat \ {0} /\ i \in DOMAIN adjustments /\ i \in Nat \ {0} /\ ~SavedBy(i)
      /\ adjustments[i].row = 0 /\ adjustments[i].payment = p /\ Worth(i) = amount
  <2>1. OperatorOK(q) /\ op[q].amount \in Nat
    BY OperatorTypes DEF IInv, OperatorsOK
  <2>2. i \in DOMAIN adjustments
    BY <1>1, <1>2, <2>1 DEF OperatorOK
  <2>3. i \in Nat \ {0}
    BY <2>2, AdjustmentTypes DEF IInv
  <2> QED BY <1>1, <1>2, <2>1, <2>2, <2>3 DEF OperatorOK
<1>4. PICK new : new = Row(p, amount, "initiated", "make_it_right", i)
  OBVIOUS
<1>5. /\ new \in Remedy /\ new.payment = p /\ new.amount = amount /\ new.status = "initiated" /\ new.cause = "make_it_right"
      /\ new.ref = i
  <2>1. Setups[setup].attempts \in Nat
    BY SetupTypes DEF IInv
  <2> QED BY <1>3, <1>4, <2>1 DEF Row, Remedy, LiveStatuses
<1>6. remedy' = Append(remedy, new)
  BY <1>2, <1>4 DEF SaveRemedy
<1>7. PICK n \in Nat : n = Len(remedy) + 1
  BY RowTypes DEF IInv
<1>8. /\ DOMAIN remedy' = DOMAIN remedy \cup {n} /\ n \notin DOMAIN remedy /\ remedy' \in Seq(Remedy) /\ remedy'[n] = new
      /\ \A r \in DOMAIN remedy : remedy'[r] = remedy[r]
  <2>1. remedy \in Seq(Remedy) /\ DOMAIN remedy = 1 .. Len(remedy) /\ Len(remedy) \in Nat
    BY Types, RowTypes DEF IInv
  <2> HIDE DEF Remedy
  <2> QED BY <1>5, <1>6, <1>7, <2>1
<1>9. RefundsStay /\ RowsStay /\ \A r \in DOMAIN remedy : Existing(r)' = Existing(r)
  <2>1. RefundsStay /\ \A r \in DOMAIN remedy : Existing(r)' = Existing(r)
    BY <1>1 DEF RefundsStay, HoldsMoney, Existing
  <2> QED BY <1>8, <2>1 DEF RowsStay
<1>10. Queued' = Queued
  BY <1>5, <1>8 DEF Queued
<1>11. op'[q] = NoOp /\ NoOp \in OpType /\ NoOp.step = "idle" /\ OperatorOK(q)' /\ \A o \in Operators \ {q} : op'[o] = op[o]
  BY <1>1, OpAt, NoOpOK
<1>12. \A r \in DOMAIN remedy' \ DOMAIN remedy : r = n /\ remedy'[r].ref = i
  BY <1>5, <1>8
<1>13. OperatorsOK'
  <2>1. \A r \in DOMAIN remedy' \ DOMAIN remedy : remedy'[r].ref # 0 => op[q].step = "save" /\ remedy'[r].ref = op[q].refund
    BY <1>1, <1>2, <1>12
  <2>2. op'[q].step = "save" => op'[q].refund \notin DOMAIN adjustments
    BY <1>11
  <2> QED BY <1>1, <1>9, <1>11, <2>1, <2>2, OperatorsMove
<1>14. JobOK'
  BY <1>1, <1>9, <1>10, JobStays
<1>15. RowOK(n)'
  <2>1. StatusOK(n)'
    BY <1>3, <1>5, <1>8 DEF StatusOK
  <2>2. adjustments'[i] = adjustments[i] /\ Worth(i)' = amount /\ remedy'[n].ref = i
    BY <1>1, <1>3, <1>5, <1>8 DEF Worth
  <2>3. Worth(remedy[n].ref)' = amount
    BY <2>2 DEF Worth
  <2>4. NamesOK(n)'
    BY <1>1, <1>3, <1>5, <1>8, <2>2, <2>3 DEF NamesOK
  <2> QED BY <2>1, <2>4 DEF RowOK
<1>16. RowsOK' /\ AdjustmentsOK'
  <2>1. \A r \in DOMAIN remedy' \ DOMAIN remedy : RowOK(r)'
    BY <1>12, <1>15
  <2>2. \A r \in DOMAIN remedy' \ DOMAIN remedy, s \in DOMAIN remedy' :
          remedy'[r].ref = remedy'[s].ref /\ remedy'[r].ref # 0 => r = s
    <3> SUFFICES ASSUME NEW r \in DOMAIN remedy' \ DOMAIN remedy, NEW s \in DOMAIN remedy', remedy'[r].ref = remedy'[s].ref
                 PROVE  r = s
      OBVIOUS
    <3>1. r = n /\ remedy'[s].ref = i
      BY <1>12
    <3>2. s \notin DOMAIN remedy
      BY <1>3, <1>8, <3>1 DEF SavedBy
    <3> QED BY <1>8, <3>1, <3>2
  <2>3. \A r \in DOMAIN remedy : StatusOK(r)'
    BY <1>8, <1>9, StatusStays
  <2>4. \A j \in DOMAIN adjustments : SavingBy(j) => SavingBy(j)' \/ SavedBy(j)'
    <3> SUFFICES ASSUME NEW j, SavingBy(j) PROVE SavingBy(j)' \/ SavedBy(j)'
      OBVIOUS
    <3>1. PICK o \in Operators : op[o].step = "save" /\ op[o].refund = j
      BY DEF SavingBy
    <3>2. CASE o = q
      <4>1. n \in DOMAIN remedy' /\ remedy'[n].ref = j
        BY <1>2, <1>5, <1>8, <3>1, <3>2
      <4> QED BY <4>1 DEF SavedBy
    <3>3. CASE o # q
      BY <1>11, <3>1, <3>3, SameSetup DEF SavingBy
    <3> QED BY <3>2, <3>3
  <2>5. DOMAIN adjustments' \ DOMAIN adjustments = {} /\ lost \subseteq lost' /\ (ended => ended')
    BY <1>1
  <2> QED BY <1>9, <2>1, <2>2, <2>3, <2>4, <2>5, LedgerMoves
<1>17. TypeOK'
  <2>1. op' \in [Operators -> OpType]
    BY <1>1, <1>11, Types
  <2> QED BY <1>1, <1>8, <2>1, Types, TypeParts
<1>18. InboxOK' /\ setup' \in DOMAIN Setups
  BY <1>1 DEF IInv, InboxOK
<1> QED BY <1>13, <1>14, <1>16, <1>17, <1>18 DEF IInv

-----------------------------------------------------------------------------
(* The provider decides and reports.                                       *)

LEMMA DecideOK ==
  ASSUME IInv, setup' = setup, NEW i \in DOMAIN adjustments, Decide(i)
  PROVE  IInv'
<1>1. PICK state \in AdjustmentStates \ {"pending"} :
        /\ IF state = "reversed" THEN adjustments[i].state = "approved" ELSE adjustments[i].state = "pending"
        /\ adjustments' = [adjustments EXCEPT ![i].state = state]
        /\ inbox' = inbox \cup {<<i, state>>}
        /\ UNCHANGED <<remedy, ended, pc, job, op, lost, faults>>
  BY DEF Decide
<1>2. /\ DOMAIN adjustments' = DOMAIN adjustments /\ adjustments' \in Seq(Adjustment) /\ adjustments'[i].state = state
      /\ \A j \in DOMAIN adjustments : /\ adjustments'[j].payment = adjustments[j].payment
                                       /\ adjustments'[j].row = adjustments[j].row
                                       /\ adjustments'[j].items = adjustments[j].items
                                       /\ j # i => adjustments'[j] = adjustments[j]
  <2>1. PICK new : new = [adjustments[i] EXCEPT !.state = state]
    OBVIOUS
  <2>2. adjustments[i] \in Adjustment
    BY AdjustmentTypes DEF IInv
  <2>3. /\ new \in Adjustment /\ new.payment = adjustments[i].payment /\ new.row = adjustments[i].row
        /\ new.items = adjustments[i].items /\ new.state = state
    BY <2>1, <2>2 DEF Adjustment
  <2>4. adjustments' = [adjustments EXCEPT ![i] = new]
    BY <1>1, <2>1
  <2>5. adjustments \in Seq(Adjustment)
    BY Types
  <2> HIDE DEF Adjustment
  <2> QED BY <2>3, <2>4, <2>5
<1>3. RefundsStay
  <2>1. HoldsMoney(i)' => HoldsMoney(i)
    BY <1>1, <1>2 DEF HoldsMoney
  <2>2. \A j \in DOMAIN adjustments : HoldsMoney(j)' => HoldsMoney(j)
    BY <1>2, <2>1 DEF HoldsMoney
  <2> QED BY <1>2, <2>2 DEF RefundsStay
<1>4. RowsStay /\ Queued' = Queued /\ \A r : Existing(r)' = Existing(r)
  BY <1>1, <1>2 DEF RowsStay, Queued, Existing
<1>5. inbox' \subseteq (Nat \X AdjustmentStates)
  <2>1. i \in Nat
    BY AdjustmentTypes DEF IInv
  <2> QED BY <1>1, <2>1, Types
<1>6. InboxOK'
  <2> SUFFICES ASSUME NEW e \in inbox'
               PROVE  /\ e[1] \in DOMAIN adjustments' /\ e[2] # "pending"
                      /\ e[2] \in {"rejected", "reversed"} => adjustments'[e[1]].state = e[2]
    BY DEF InboxOK
  <2>1. CASE e = <<i, state>>
    BY <1>2, <2>1
  <2>2. CASE e \in inbox
    <3>1. e[1] \in DOMAIN adjustments /\ e[2] # "pending" /\ (e[2] \in {"rejected", "reversed"} => adjustments[e[1]].state = e[2])
      BY <2>2 DEF IInv, InboxOK
    <3>2. CASE e[1] # i
      BY <1>2, <3>1, <3>2
    <3>3. CASE e[1] = i
      BY <1>1, <1>2, <3>1, <3>3
    <3> QED BY <3>2, <3>3
  <2> QED BY <1>1, <2>1, <2>2
<1>7. TypeOK'
  BY <1>1, <1>2, <1>5, Types, TypeParts
<1>8. JobOK'
  BY <1>1, <1>3, <1>4, JobStays
<1>9. DOMAIN adjustments' \ DOMAIN adjustments = {} /\ DOMAIN remedy' \ DOMAIN remedy = {}
  BY <1>1, <1>2
<1>10. OperatorsOK'
  BY <1>1, <1>3, <1>4, <1>9, OperatorsStay
<1>11. RowsOK' /\ AdjustmentsOK'
  <2>1. \A r \in DOMAIN remedy : StatusOK(r)'
    BY <1>1, <1>3, StatusStays
  <2>2. \A j \in DOMAIN adjustments : SavingBy(j) => SavingBy(j)'
    BY <1>1, SameSetup DEF SavingBy
  <2> QED BY <1>1, <1>3, <1>4, <1>9, <2>1, <2>2, LedgerMoves
<1>12. setup' \in DOMAIN Setups
  BY DEF IInv
<1> QED BY <1>6, <1>7, <1>8, <1>10, <1>11, <1>12 DEF IInv

LEMMA ApplyRefundUpdateOK ==
  ASSUME IInv, setup' = setup, NEW e \in inbox, ApplyRefundUpdate(e)
  PROVE  IInv'
<1>1. pc = "idle" /\ inbox' = inbox \ {e} /\ UNCHANGED <<adjustments, ended, pc, job, op, lost, faults>>
  BY DEF ApplyRefundUpdate
<1>2. PICK i, st : i = e[1] /\ st = e[2]
  OBVIOUS
<1>3. /\ i \in DOMAIN adjustments /\ i \in Nat \ {0} /\ st \in {"approved", "rejected", "reversed"}
      /\ st \in {"rejected", "reversed"} => adjustments[i].state = st
  <2>1. i \in DOMAIN adjustments /\ st # "pending" /\ (st \in {"rejected", "reversed"} => adjustments[i].state = st)
    BY <1>2 DEF IInv, InboxOK
  <2>2. st \in AdjustmentStates
    BY <1>2, Types
  <2>3. i \in Nat \ {0}
    BY <2>1, AdjustmentTypes DEF IInv
  <2> QED BY <2>1, <2>2, <2>3 DEF AdjustmentStates
<1>4. PICK moved : moved = {r \in RowOf(i) : remedy[r].status \in SettleFrom(st)}
  OBVIOUS
<1>5. remedy' = [r \in DOMAIN remedy |-> IF r \in moved THEN [remedy[r] EXCEPT !.status = st, !.ref = i] ELSE remedy[r]]
  BY <1>2, <1>4 DEF ApplyRefundUpdate
<1>6. \A r \in moved : /\ r \in DOMAIN remedy /\ (remedy[r].ref = i \/ (adjustments[i].row = r /\ remedy[r].ref = 0))
                       /\ remedy[r].ref # 0 => remedy[r].ref = i
  BY <1>4 DEF RowOf
<1>7. DOMAIN remedy' = DOMAIN remedy /\ \A r \in DOMAIN remedy :
        /\ remedy'[r] \in Remedy /\ remedy'[r].payment = remedy[r].payment /\ remedy'[r].amount = remedy[r].amount
        /\ remedy'[r].cause = remedy[r].cause
        /\ r \in moved => remedy'[r].status = st /\ remedy'[r].ref = i
        /\ r \notin moved => remedy'[r] = remedy[r]
  <2>1. DOMAIN remedy' = DOMAIN remedy
    BY <1>5
  <2>2. ASSUME NEW r \in DOMAIN remedy, r \in moved
        PROVE  /\ remedy'[r] \in Remedy /\ remedy'[r].payment = remedy[r].payment /\ remedy'[r].amount = remedy[r].amount
               /\ remedy'[r].cause = remedy[r].cause /\ remedy'[r].status = st /\ remedy'[r].ref = i
    <3>1. remedy[r] \in Remedy
      BY RowTypes DEF IInv
    <3>2. PICK new : new = [remedy[r] EXCEPT !.status = st, !.ref = i]
      OBVIOUS
    <3>3. /\ new \in Remedy /\ new.payment = remedy[r].payment /\ new.amount = remedy[r].amount
          /\ new.cause = remedy[r].cause /\ new.status = st /\ new.ref = i
      BY <1>3, <3>1, <3>2 DEF Remedy, LiveStatuses
    <3>4. remedy'[r] = new
      BY <1>5, <2>2, <3>2
    <3> QED BY <3>3, <3>4
  <2>3. ASSUME NEW r \in DOMAIN remedy, r \notin moved
        PROVE  remedy'[r] = remedy[r] /\ remedy'[r] \in Remedy
    BY <1>5, <2>3, RowTypes DEF IInv
  <2> QED BY <2>1, <2>2, <2>3
<1>8. remedy' \in Seq(Remedy)
  <2>1. DOMAIN remedy' = 1 .. Len(remedy) /\ Len(remedy) \in Nat /\ \A r \in 1 .. Len(remedy) : remedy'[r] \in Remedy
    BY <1>7, RowTypes DEF IInv
  <2>2. remedy' = [r \in 1 .. Len(remedy) |-> remedy'[r]]
    BY <1>5, <2>1
  <2> HIDE DEF Remedy
  <2> QED BY <2>1, <2>2
<1>9. RefundsStay /\ \A r : Existing(r)' = Existing(r)
  BY <1>1 DEF RefundsStay, HoldsMoney, Existing
<1>10. RowsStay
  <2> SUFFICES ASSUME NEW r \in DOMAIN remedy
               PROVE  \/ remedy'[r].ref = remedy[r].ref
                      \/ remedy[r].ref = 0 /\ remedy[r].cause = "cancel" /\ remedy'[r].ref \in Existing(r)'
    BY <1>7 DEF RowsStay
  <2>1. CASE r \notin moved \/ remedy[r].ref = i
    BY <1>7, <2>1
  <2>2. CASE r \in moved /\ remedy[r].ref = 0 /\ adjustments[i].row = r
    <3>1. i \in Existing(r) /\ remedy'[r].ref = i
      BY <1>3, <1>7, <2>2 DEF Existing
    <3>2. r # 0 /\ SentOK(i)
      BY <1>3, RowTypes DEF IInv, AdjustmentsOK, AdjustmentOK
    <3>3. remedy[r].cause = "cancel"
      BY <2>2, <3>2 DEF SentOK
    <3> QED BY <1>9, <2>2, <3>1, <3>3
  <2> QED BY <1>6, <2>1, <2>2
<1>11. \A r \in DOMAIN remedy : StatusOK(r)'
  <2> TAKE r \in DOMAIN remedy
  <2>1. CASE r \notin moved
    BY <1>7, <1>9, <2>1, StatusStays
  <2>2. CASE r \in moved
    <3>1. remedy'[r].status = st /\ remedy'[r].ref = i /\ remedy'[r].cause = remedy[r].cause
      BY <1>7, <2>2
    <3>2. st \in {"rejected", "reversed"} => ~HoldsMoney(i)'
      BY <1>1, <1>3 DEF HoldsMoney
    <3>3. HoldsMoney(remedy[r].ref)' = HoldsMoney(i)'
      BY <3>1 DEF HoldsMoney
    <3> QED BY <1>3, <3>1, <3>2, <3>3 DEF StatusOK
  <2> QED BY <2>1, <2>2
<1>12. TypeOK'
  BY <1>1, <1>8, Types, TypeParts
<1>13. JobOK'
  BY <1>1 DEF JobOK
<1>14. DOMAIN adjustments' \ DOMAIN adjustments = {} /\ DOMAIN remedy' \ DOMAIN remedy = {}
  BY <1>1, <1>7
<1>15. OperatorsOK'
  BY <1>1, <1>9, <1>10, <1>14, OperatorsStay
<1>16. RowsOK' /\ AdjustmentsOK'
  <2>1. \A j \in DOMAIN adjustments : SavingBy(j) => SavingBy(j)'
    BY <1>1, SameSetup DEF SavingBy
  <2> QED BY <1>1, <1>9, <1>10, <1>11, <1>14, <2>1, LedgerMoves
<1>17. InboxOK' /\ setup' \in DOMAIN Setups
  BY <1>1 DEF IInv, InboxOK
<1> QED BY <1>12, <1>13, <1>15, <1>16, <1>17 DEF IInv

-----------------------------------------------------------------------------
(* The invariant holds.                                                    *)

LEMMA InitOK == Init => IInv /\ PlanInv
<1> SUFFICES ASSUME Init PROVE IInv /\ PlanInv
  OBVIOUS
<1>1. /\ setup \in DOMAIN Setups /\ adjustments = <<>> /\ inbox = {} /\ remedy = <<>> /\ ended = FALSE
      /\ pc = "idle" /\ job = NoJob /\ op = [o \in Operators |-> NoOp] /\ lost = {} /\ faults = 0
  BY DEF Init
<1>2. DOMAIN adjustments = {} /\ DOMAIN remedy = {} /\ adjustments \in Seq(Adjustment) /\ remedy \in Seq(Remedy)
  BY <1>1
<1>3. job \in JobType
  BY <1>1, NoJobType
<1>4. op \in [Operators -> OpType] /\ \A o \in Operators : op[o].step = "idle"
  <2>1. <<>> \in Seq(Nat)
    OBVIOUS
  <2>2. NoOp \in OpType /\ NoOp.step = "idle"
    BY <2>1 DEF NoOp, OpType
  <2> QED BY <1>1, <2>2
<1>5. TypeOK
  BY <1>1, <1>2, <1>3, <1>4 DEF TypeOK, JobType, OpType
<1>6. JobOK
  BY <1>1 DEF JobOK
<1>7. RowsOK /\ AdjustmentsOK /\ InboxOK
  BY <1>1, <1>2 DEF RowsOK, AdjustmentsOK, InboxOK
<1>8. OperatorsOK
  BY <1>4 DEF OperatorsOK, OperatorOK
<1>9. IInv
  BY <1>1, <1>5, <1>6, <1>7, <1>8 DEF IInv
<1>10. Queued = {}
  BY <1>2 DEF Queued
<1>11. QueuedOK /\ OneAtATime /\ RoomOK
  BY <1>1, <1>4, <1>10 DEF QueuedOK, OneAtATime, Busy, RoomOK
<1>12. HeldOK
  <2> SUFFICES ASSUME NEW p \in Payments PROVE Held(p) <= Amount(p)
    BY DEF HeldOK
  <2>1. RefundsOf(p) = {}
    BY <1>2 DEF RefundsOf
  <2>2. Held(p) = Sum([i \in RefundsOf(p) |-> SumFunction(adjustments[i].items)], {})
    BY <2>1, SumOver DEF Held, HeldBy
  <2>3. Held(p) = 0
    BY <2>2, SumOfNone
  <2> QED BY <1>1, <2>3, LineTypes
<1> QED BY <1>9, <1>11, <1>12 DEF PlanInv

LEMMA StepOK ==
  ASSUME IInv, [Next /\ UNCHANGED setup]_vars
  PROVE  IInv'
<1>1. CASE UNCHANGED vars
  <2>1. /\ setup' = setup /\ adjustments' = adjustments /\ inbox' = inbox /\ remedy' = remedy /\ ended' = ended /\ pc' = pc
        /\ job' = job /\ op' = op /\ lost' = lost /\ faults' = faults
    BY <1>1 DEF vars
  <2>2. RefundsStay /\ RowsStay /\ Queued' = Queued /\ \A r : Existing(r)' = Existing(r)
    BY <2>1, Unmoved
  <2>3. JobOK'
    BY <2>1, <2>2, JobStays
  <2>4. ended' \in BOOLEAN /\ pc' \in Steps /\ job' \in JobType /\ faults' \in Nat /\ (ended => ended')
    BY <2>1, Types
  <2> QED BY <2>1, <2>3, <2>4, JobAlone
<1>2. CASE Next /\ UNCHANGED setup
  <2>1. setup' = setup
    BY <1>2
  <2>2. CASE Start
    BY <2>1, <2>2, StartOK
  <2>3. CASE Discard
    BY <2>1, <2>3, DiscardOK
  <2>4. CASE Plan
    BY <2>1, <2>4, PlanOK
  <2>5. CASE SaveRows
    BY <2>1, <2>5, SaveRowsOK
  <2>6. CASE Cancel
    BY <2>1, <2>6, CancelOK
  <2>7. CASE ListRefunds
    BY <2>1, <2>7, ListRefundsOK
  <2>8. CASE CreateRefund
    BY <2>1, <2>8, CreateRefundOK
  <2>9. CASE SendFails
    BY <2>1, <2>9, SendFailsOK
  <2>10. CASE Settle
    BY <2>1, <2>10, SettleOK
  <2>11. CASE Crash
    BY <2>1, <2>11, CrashOK
  <2>12. CASE \E o \in Operators : ApplyRemedy(o) \/ ListFor(o) \/ CreateFor(o) \/ SaveRemedy(o) \/ OperatorFails(o)
    BY <2>1, <2>12, ApplyRemedyOK, ListForOK, CreateForOK, SaveRemedyOK, OperatorFailsOK
  <2>13. CASE \E i \in DOMAIN adjustments : Decide(i)
    BY <2>1, <2>13, DecideOK
  <2>14. CASE \E e \in inbox : ApplyRefundUpdate(e)
    BY <2>1, <2>14, ApplyRefundUpdateOK
  <2> QED BY <1>2, <2>2, <2>3, <2>4, <2>5, <2>6, <2>7, <2>8, <2>9, <2>10, <2>11, <2>12, <2>13, <2>14 DEF Next
<1> QED BY <1>1, <1>2

LEMMA Invariant == Spec => []IInv
<1>1. Init => IInv
  BY InitOK
<1>2. IInv /\ [Next /\ UNCHANGED setup]_vars => IInv'
  BY StepOK
<1> QED BY <1>1, <1>2, PTL DEF Spec

(* The amounts stay in their ranges, and every refund the provider holds   *)
(* is counted by a row or by an operator about to write it, whichever of   *)
(* the job, its retries, the operators and the reports came first          *)
(* (liveRefundTotals).                                                     *)
THEOREM LedgerHeld == Spec => []LedgerHolds
<1>1. IInv => LedgerHolds
  BY LedgerCovered DEF IInv, LedgerHolds
<1> QED BY <1>1, Invariant, PTL

-----------------------------------------------------------------------------
(* A plan is what is due.                                                  *)

LEMMA PlannedParts ==
  ASSUME IInv, setup' = setup, SaveRows
  PROVE  /\ \A p \in Payments : PlannedOn(p) = job.parts[p]
         /\ SumFunction([p \in Payments |-> PlannedOn(p)]) = SumFunction(job.parts)
<1>1. /\ job.parts \in [Payments -> Nat] /\ NewRows \in SUBSET Nat
      /\ \A r \in NewRows : /\ remedy'[r].payment \in Payments /\ remedy'[r].amount = job.parts[remedy'[r].payment]
      /\ \A r, q \in NewRows : remedy'[r].payment = remedy'[q].payment => r = q
      /\ \A p \in Payments : job.parts[p] > 0 => \E r \in NewRows : remedy'[r].payment = p
  BY SaveRowsMakes
<1>2. ASSUME NEW p \in Payments PROVE PlannedOn(p) = job.parts[p]
  <2> DEFINE rows == {r \in NewRows : remedy'[r].payment = p}
             f == [r \in rows |-> remedy'[r].amount]
  <2>1. PlannedOn(p) = Sum(f, rows)
    <3>1. DOMAIN f = rows /\ PlannedOn(p) = SumFunction(f)
      BY DEF PlannedOn
    <3> HIDE DEF f, rows
    <3> QED BY <3>1, SumOver
  <2>2. CASE rows = {}
    <3>1. job.parts[p] = 0
      BY <1>1, <2>2
    <3> HIDE DEF f, rows
    <3> QED BY <2>1, <2>2, <3>1, SumOfNone
  <2>3. CASE rows # {}
    <3>1. PICK r \in rows : TRUE
      BY <2>3
    <3>2. rows = {r}
      <4>1. r \in NewRows /\ remedy'[r].payment = p
        OBVIOUS
      <4>2. \A q \in NewRows : remedy'[q].payment = p => q = r
        BY <1>1, <4>1
      <4> QED BY <4>1, <4>2
    <3>3. f[r] = job.parts[p] /\ job.parts[p] \in Int
      BY <1>1, <3>1
    <3> HIDE DEF f, rows
    <3>4. Sum(f, {r}) = f[r]
      BY <3>3, SumOne
    <3> QED BY <2>1, <3>2, <3>3, <3>4
  <2> QED BY <2>2, <2>3
<1>3. PICK parts : parts = job.parts
  OBVIOUS
<1>4. [p \in Payments |-> PlannedOn(p)] = [p \in Payments |-> parts[p]]
  BY <1>2, <1>3
<1>5. [p \in Payments |-> parts[p]] = parts
  BY <1>1, <1>3
<1> QED BY <1>2, <1>3, <1>4, <1>5

LEMMA RowsSaved ==
  ASSUME Next, pc = "save", pc' = "cancel"
  PROVE  SaveRows
<1>1. ~Start /\ ~Discard /\ ~Plan /\ ~Cancel /\ ~ListRefunds /\ ~CreateRefund /\ ~SendFails /\ ~Settle
  BY DEF Start, Discard, Plan, Cancel, ListRefunds, CreateRefund, SendFails, Settle
<1>2. ~Crash
  BY DEF Crash, Goto
<1>3. \A o \in Operators : ~ApplyRemedy(o) /\ ~ListFor(o) /\ ~CreateFor(o) /\ ~SaveRemedy(o) /\ ~OperatorFails(o)
  BY DEF ApplyRemedy, ListFor, CreateFor, SaveRemedy, OperatorFails
<1>4. /\ \A i \in DOMAIN adjustments : ~Decide(i)
      /\ \A e \in inbox : ~ApplyRefundUpdate(e)
  BY DEF Decide, ApplyRefundUpdate
<1> QED BY <1>1, <1>2, <1>3, <1>4 DEF Next

LEMMA Newest ==
  ASSUME IInv, setup' = setup, SaveRows, NEW p \in Payments, PlannedOn(p) > 0, NEW q \in 1 .. p - 1
  PROVE  PlannedOn(q) = job.caps[q]
<1>1. PlannedOK
  BY DEF IInv, JobOK, SaveRows
<1>2. q \in Payments
  BY SetupTypes DEF IInv
<1> QED BY <1>1, <1>2, PlannedParts DEF PlannedOK

LEMMA PlannedDue ==
  ASSUME IInv, setup' = setup, SaveRows
  PROVE  DueExactly(job.basis, SumFunction([p \in Payments |-> PlannedOn(p)]), SumFunction(job.caps))
<1>1. PlannedOK
  BY DEF IInv, JobOK, SaveRows
<1>2. PICK b \in Basis : b = job.basis
  <2>1. job.basis \in Basis
    BY Types, SetupTypes DEF JobType, IInv
  <2> QED BY <2>1
<1>3. PICK card \in Nat : card = SumFunction(job.caps)
  <2>1. job.caps \in [1 .. Len(Lines) -> Nat] /\ Len(Lines) \in Nat
    BY <1>1, SetupTypes DEF PlannedOK, Payments, IInv
  <2>2. job.caps \in Seq(Nat)
    BY <2>1
  <2> QED BY <2>2, SumOfSeq
<1>4. SumFunction(job.parts) = ComputeCancelRefund(b, card)
  BY <1>1, <1>2, <1>3 DEF PlannedOK
<1>5. DueExactly(b, SumFunction(job.parts), card)
  BY <1>4, RefundIsDue
<1> QED BY <1>2, <1>3, <1>5, PlannedParts

(* A plan gives back a payment only when every newer one is given back in  *)
(* full, as far as the plan found it refundable, and it comes to exactly   *)
(* what is due, or to all that is refundable when that is less             *)
(* (refundablePayments, allocateCancelRefund, computeCancelRefund).        *)
THEOREM PlanDue == Spec => PlanIsDue
<1> DEFINE First == pc = "save" /\ pc' = "cancel" =>
                      \A p \in Payments : PlannedOn(p) > 0 => \A q \in 1 .. p - 1 : PlannedOn(q) = job.caps[q]
           Due == pc = "save" /\ pc' = "cancel" =>
                    DueExactly(job.basis, SumFunction([p \in Payments |-> PlannedOn(p)]), SumFunction(job.caps))
<1>1. IInv /\ [Next /\ UNCHANGED setup]_vars => [First]_vars
  BY RowsSaved, Newest
<1>2. IInv /\ [Next /\ UNCHANGED setup]_vars => [Due]_vars
  BY RowsSaved, PlannedDue
<1>3. [][First]_vars => NewestFirst
  BY DEF NewestFirst
<1>4. [][Due]_vars => ExactlyDue
  BY DEF ExactlyDue, DueExactly
<1> HIDE DEF First, Due
<1>5. Spec => [][First]_vars
  BY <1>1, Invariant, PTL DEF Spec
<1>6. Spec => [][Due]_vars
  BY <1>2, Invariant, PTL DEF Spec
<1> QED BY <1>3, <1>4, <1>5, <1>6 DEF PlanIsDue

-----------------------------------------------------------------------------
(* What is held on a payment.                                              *)

LEMMA HeldSum ==
  ASSUME IInv, NEW p
  PROVE  /\ Held(p) = Sum(RefundWorth, RefundsOf(p)) /\ Held(p) \in Nat /\ IsFiniteSet(RefundsOf(p))
         /\ RefundsOf(p) \in SUBSET DOMAIN adjustments
         /\ \A i \in RefundsOf(p) : RefundWorth[i] \in Nat /\ RefundWorth[i] = Worth(i)
<1>1. RefundsOf(p) \in SUBSET DOMAIN adjustments
  BY RefundTypes
<1>2. PICK S \in SUBSET DOMAIN adjustments : S = RefundsOf(p)
  BY <1>1
<1>3. TypeOK
  BY DEF IInv
<1>4. /\ HeldBy(S) = Sum(RefundWorth, S) /\ HeldBy(S) \in Nat
      /\ IsFiniteSet(S) /\ \A i \in S : RefundWorth[i] \in Nat /\ RefundWorth[i] = Worth(i)
  BY <1>3, RefundSums
<1> QED BY <1>1, <1>2, <1>4 DEF Held

LEMMA HeldShrinks ==
  ASSUME IInv, RefundsStay, DOMAIN adjustments' = DOMAIN adjustments, NEW p
  PROVE  Held(p)' <= Held(p) /\ Held(p) \in Nat /\ Held(p)' \in Nat
<1>1. PICK S, T : S = RefundsOf(p) /\ T = RefundsOf(p)'
  OBVIOUS
<1>2. T \subseteq S
  BY <1>1 DEF RefundsOf, RefundsStay
<1>3. /\ Held(p) = Sum(RefundWorth, S) /\ IsFiniteSet(S) /\ S \in SUBSET DOMAIN adjustments /\ Held(p) \in Nat
      /\ \A i \in S : RefundWorth[i] \in Nat
  BY <1>1, HeldSum
<1>4. Held(p)' = HeldBy(T)
  <2>1. Held(p)' = SumFunction([i \in T |-> SumFunction(adjustments'[i].items)])
    BY <1>1 DEF Held, HeldBy
  <2>2. \A i \in T : SumFunction(adjustments'[i].items) = SumFunction(adjustments[i].items)
    <3> TAKE i \in T
    <3>1. adjustments'[i].items = adjustments[i].items
      BY <1>2, <1>3 DEF RefundsStay
    <3> QED BY <3>1
  <2>3. [i \in T |-> SumFunction(adjustments'[i].items)] = [i \in T |-> SumFunction(adjustments[i].items)]
    BY <2>2
  <2> QED BY <2>1, <2>3 DEF HeldBy
<1>5. HeldBy(T) = Sum(RefundWorth, T)
  BY <1>2, <1>3, RefundSums DEF IInv
<1>6. Sum(RefundWorth, T) <= Sum(RefundWorth, S) /\ Sum(RefundWorth, T) \in Nat
  BY <1>2, <1>3, SumPart
<1> QED BY <1>3, <1>4, <1>5, <1>6

(* A refund more, of one payment.                                          *)
OneMore(n, p, items) ==
  /\ n \notin DOMAIN adjustments /\ DOMAIN adjustments' = DOMAIN adjustments \cup {n}
  /\ \A i \in DOMAIN adjustments : adjustments'[i] = adjustments[i]
  /\ adjustments'[n].payment = p /\ adjustments'[n].items = items /\ HoldsMoney(n)'

LEMMA HeldGrows ==
  ASSUME IInv, NEW n, NEW p, NEW items \in Seq(Nat), OneMore(n, p, items)
  PROVE  Held(p)' = Held(p) + SumFunction(items) /\ \A q : q # p => Held(q)' = Held(q)
<1>1. \A i \in DOMAIN adjustments : HoldsMoney(i)' = HoldsMoney(i)
  BY DEF OneMore, HoldsMoney
<1>2. RefundsOf(p)' = RefundsOf(p) \cup {n}
  BY <1>1 DEF OneMore, RefundsOf
<1>3. \A q : q # p => Held(q)' = Held(q)
  <2> SUFFICES ASSUME NEW q, q # p PROVE Held(q)' = Held(q)
    OBVIOUS
  <2>1. RefundsOf(q)' = RefundsOf(q)
    BY <1>1 DEF OneMore, RefundsOf
  <2>2. PICK S : S = RefundsOf(q)
    OBVIOUS
  <2>3. \A i \in S : adjustments'[i] = adjustments[i]
    BY <2>2, RefundTypes DEF OneMore
  <2>4. [i \in S |-> SumFunction(adjustments'[i].items)] = [i \in S |-> SumFunction(adjustments[i].items)]
    BY <2>3
  <2> QED BY <2>1, <2>2, <2>4 DEF Held, HeldBy
<1>4. PICK S : S = RefundsOf(p)
  OBVIOUS
<1>5. /\ Held(p) = Sum(RefundWorth, S) /\ IsFiniteSet(S) /\ S \in SUBSET DOMAIN adjustments
      /\ \A i \in S : RefundWorth[i] \in Nat /\ RefundWorth[i] = Worth(i)
  BY <1>4, HeldSum
<1> DEFINE f == [i \in S \cup {n} |-> SumFunction(adjustments'[i].items)]
<1>6. Held(p)' = SumFunction(f) /\ DOMAIN f = S \cup {n}
  BY <1>2, <1>4 DEF Held, HeldBy
<1>7. f[n] = SumFunction(items) /\ f[n] \in Nat
  BY SumOfSeq DEF OneMore
<1>8. \A i \in S : f[i] = RefundWorth[i]
  <2> TAKE i \in S
  <2>1. adjustments'[i] = adjustments[i]
    BY <1>5 DEF OneMore
  <2>2. f[i] = SumFunction(adjustments[i].items)
    BY <2>1
  <2> QED BY <1>5, <2>2 DEF Worth
<1>9. n \notin S
  BY <1>5 DEF OneMore
<1> HIDE DEF f
<1>10. SumFunction(f) = Sum(f, S \cup {n})
  BY <1>6, SumOver
<1>11. Sum(f, S \cup {n}) = f[n] + Sum(f, S) /\ Sum(f, S) \in Int
  <2>1. \A i \in S \cup {n} : f[i] \in Int
    BY <1>5, <1>7, <1>8
  <2> QED BY <1>5, <1>9, <2>1, SumAdd
<1>12. Sum(f, S) = Sum(RefundWorth, S)
  BY <1>5, <1>8, SumEqual
<1>13. Held(p)' = Held(p) + SumFunction(items)
  BY <1>5, <1>6, <1>7, <1>10, <1>11, <1>12
<1> QED BY <1>3, <1>13

(* What every line can take, the payment can take.                         *)
LEMMA TakesFit ==
  ASSUME IInv, NEW p \in Payments, NEW items \in Seq(Nat), DOMAIN items = LinesOf(p), Takes(p, items)
  PROVE  Held(p) + SumFunction(items) <= Amount(p) /\ Held(p) \in Nat /\ Amount(p) \in Nat /\ SumFunction(items) \in Nat
<1>1. PICK S, T : S = RefundsOf(p) /\ T = LinesOf(p)
  OBVIOUS
<1>2. /\ Held(p) = Sum(RefundWorth, S) /\ Held(p) \in Nat /\ IsFiniteSet(S)
      /\ \A i \in S : RefundWorth[i] = Worth(i) /\ RefundWorth[i] \in Nat
  BY <1>1, HeldSum
<1>3. IsFiniteSet(T) /\ (\A l \in T : Lines[p][l] \in Nat) /\ Amount(p) = Sum(Lines[p], T) /\ Amount(p) \in Nat
  BY <1>1, LineTypes DEF IInv
<1>4. \A i \in S : /\ DOMAIN adjustments[i].items = T /\ \A l \in T : adjustments[i].items[l] \in Nat
                   /\ Worth(i) = Sum(adjustments[i].items, T)
  BY <1>1, ItemTypes
<1> DEFINE F == [i \in S |-> [l \in T |-> adjustments[i].items[l]]]
           G == [l \in T |-> [i \in S |-> F[i][l]]]
           g == [l \in T |-> Sum(G[l], S)]
           h == [l \in T |-> items[l] + g[l]]
           across == [i \in S |-> Sum(F[i], T)]
<1>5. \A i \in S, l \in T : F[i][l] \in Int /\ F[i][l] = adjustments[i].items[l]
  BY <1>4
<1>6. Sum(across, S) = Held(p)
  <2>1. ASSUME NEW i \in S PROVE across[i] = RefundWorth[i]
    <3>1. \A l \in T : F[i][l] = adjustments[i].items[l]
      BY <1>5
    <3>2. across[i] = Sum(F[i], T)
      OBVIOUS
    <3> HIDE DEF F, across
    <3>3. Sum(F[i], T) = Sum(adjustments[i].items, T)
      BY <1>3, <3>1, SumEqual
    <3> QED BY <1>2, <1>4, <3>2, <3>3
  <2> HIDE DEF across
  <2>2. Sum(across, S) = Sum(RefundWorth, S)
    BY <1>2, <2>1, SumEqual
  <2> QED BY <1>2, <2>2
<1>7. Sum(g, T) = Held(p)
  <2>1. \A l \in T : g[l] = Sum(G[l], S)
    OBVIOUS
  <2>2. \A i \in S : across[i] = Sum(F[i], T)
    OBVIOUS
  <2>3. \A i \in S, l \in T : F[i][l] \in Int /\ G[l][i] = F[i][l]
    BY <1>5
  <2> HIDE DEF F, G, across, g
  <2>4. Sum(across, S) = Sum(g, T)
    <3>1. IsFiniteSet(S) /\ IsFiniteSet(T)
      BY <1>2, <1>3
    <3>2. Table(F, G, S, T, across, g)
      BY <2>1, <2>2, <2>3, <3>1 DEF Table
    <3> QED BY <3>2, SumSwap
  <2> QED BY <1>6, <2>4
<1>8. ASSUME NEW l \in T
      PROVE  g[l] \in Nat /\ items[l] \in Nat /\ items[l] + g[l] <= Lines[p][l]
  <2>1. \A i \in S : G[l][i] = LineSums(p, l)[i]
    BY <1>1, <1>5 DEF LineSums
  <2>2. g[l] = Sum(LineSums(p, l), RefundsOf(p))
    <3>1. g[l] = Sum(G[l], S)
      OBVIOUS
    <3> HIDE DEF g, G
    <3>2. Sum(G[l], S) = Sum(LineSums(p, l), S)
      BY <1>2, <2>1, SumEqual
    <3> QED BY <1>1, <3>1, <3>2
  <2>3. /\ Sum(LineSums(p, l), RefundsOf(p)) \in Nat /\ LeftByLine(p)[l] = Lines[p][l] - Sum(LineSums(p, l), RefundsOf(p))
    BY <1>1, LineSum
  <2>4. items[l] <= LeftByLine(p)[l] /\ items[l] \in Nat
    BY <1>1 DEF Takes
  <2> HIDE DEF g
  <2> QED BY <1>3, <2>2, <2>3, <2>4
<1> HIDE DEF F, G, g, across
<1>9. \A l \in T : h[l] \in Int /\ h[l] = items[l] + g[l] /\ h[l] <= Lines[p][l]
  BY <1>8
<1> HIDE DEF h
<1>10. Sum(h, T) = Sum(items, T) + Sum(g, T)
  BY <1>3, <1>8, <1>9, SumPlus
<1>11. Sum(h, T) <= Sum(Lines[p], T)
  BY <1>3, <1>9, SumLess
<1>12. SumFunction(items) = Sum(items, T) /\ SumFunction(items) \in Nat
  BY <1>1, SumOfSeq
<1> QED BY <1>2, <1>3, <1>7, <1>10, <1>11, <1>12

-----------------------------------------------------------------------------
(* What a step leaves of the plan's room.                                  *)

QueueStays ==
  \A r \in Queued' : /\ r \in Queued /\ remedy'[r].payment = remedy[r].payment
                     /\ remedy'[r].amount = remedy[r].amount

LEMMA QueueMoves ==
  ASSUME NEW r \in Queued, NEW new, remedy' = [remedy EXCEPT ![r] = new],
         new.payment = remedy[r].payment, new.amount = remedy[r].amount
  PROVE  QueueStays
<1>1. r \in DOMAIN remedy
  BY DEF Queued
<1>2. DOMAIN remedy' = DOMAIN remedy /\ remedy'[r] = new /\ \A q \in DOMAIN remedy \ {r} : remedy'[q] = remedy[q]
  BY <1>1
<1> QED BY <1>1, <1>2 DEF QueueStays, Queued

LEMMA TurnsStay ==
  ASSUME setup' = setup, OneAtATime, Busy' \subseteq Busy, pc' # "idle" => pc # "idle"
  PROVE  OneAtATime'
BY DEF OneAtATime

LEMMA QueuedStays ==
  ASSUME QueuedOK, RefundsStay, QueueStays,
         \A i \in DOMAIN adjustments' \ DOMAIN adjustments :
           adjustments'[i].row # 0 =>
             adjustments'[i].row \in Queued /\ adjustments'[i].payment = remedy[adjustments'[i].row].payment
  PROVE  QueuedOK'
<1>1. \A r, s \in Queued' : remedy'[r].payment = remedy'[s].payment => r = s
  BY DEF QueuedOK, QueueStays
<1>2. ASSUME NEW r \in Queued', NEW i \in DOMAIN adjustments',
             adjustments'[i].row # 0, adjustments'[i].payment = remedy'[r].payment
      PROVE  adjustments'[i].row = r
  <2>1. r \in Queued /\ remedy'[r].payment = remedy[r].payment
    BY DEF QueueStays
  <2>2. CASE i \in DOMAIN adjustments
    BY <1>2, <2>1, <2>2 DEF QueuedOK, RefundsStay
  <2>3. CASE i \notin DOMAIN adjustments
    BY <1>2, <2>1, <2>3 DEF QueuedOK
  <2> QED BY <2>2, <2>3
<1> QED BY <1>1, <1>2 DEF QueuedOK

(* An operator asks for nothing it did not ask for before.                 *)
AsksStay ==
  \A o \in Operators : op'[o].step \in {"list", "create"} =>
    op[o].step \in {"list", "create"} /\ op'[o].payment = op[o].payment /\ op'[o].amount = op[o].amount

LEMMA RoomStays ==
  ASSUME IInv, RoomOK, setup' = setup, RefundsStay, DOMAIN adjustments' = DOMAIN adjustments, QueueStays, AsksStay,
         lost \subseteq lost', pc' = "save" => pc = "save" /\ job' = job
  PROVE  RoomOK'
<1> SUFFICES ASSUME ~Setups[setup].overlap, lost' = {} PROVE
      /\ pc' = "save" => \A p \in Payments' : job'.parts[p] > 0 => Held(p)' + job'.parts[p] <= Amount(p)'
      /\ \A r \in Queued' : Existing(r)' = {} =>
           /\ Held(remedy[r].payment)' + remedy'[r].amount <= Amount(remedy[r].payment)'
           /\ \A o \in Operators' : op'[o].step \in {"list", "create"} /\ op'[o].payment = remedy'[r].payment =>
                Held(remedy[r].payment)' + remedy'[r].amount + op'[o].amount <= Amount(remedy[r].payment)'
  BY DEF RoomOK
<1>1. lost = {} /\ setup \in DOMAIN Setups
  BY DEF IInv
<1>2. Payments' = Payments /\ Operators' = Operators /\ \A p : Amount(p)' = Amount(p)
  BY SameSetup
<1>3. \A p : Held(p)' <= Held(p) /\ Held(p) \in Nat /\ Held(p)' \in Nat
  BY HeldShrinks
<1>4. \A p \in Payments : Amount(p) \in Nat
  BY <1>1, LineTypes
<1>5. ASSUME pc' = "save", NEW p \in Payments, job'.parts[p] > 0
      PROVE  Held(p)' + job'.parts[p] <= Amount(p)'
  <2>1. job' = job /\ Held(p) + job.parts[p] <= Amount(p)
    BY <1>1, <1>5 DEF RoomOK
  <2>2. PlannedOK
    BY <1>5 DEF IInv, JobOK
  <2>3. job.parts[p] \in Nat
    BY <2>2 DEF PlannedOK
  <2> QED BY <1>2, <1>3, <1>4, <2>1, <2>3
<1>6. ASSUME NEW r \in Queued', Existing(r)' = {}
      PROVE  /\ Held(remedy[r].payment)' + remedy'[r].amount <= Amount(remedy[r].payment)'
             /\ \A o \in Operators' : op'[o].step \in {"list", "create"} /\ op'[o].payment = remedy'[r].payment =>
                  Held(remedy[r].payment)' + remedy'[r].amount + op'[o].amount <= Amount(remedy[r].payment)'
  <2>1. r \in Queued /\ remedy'[r].payment = remedy[r].payment /\ remedy'[r].amount = remedy[r].amount
    BY DEF QueueStays
  <2>2. Existing(r) = {}
    BY <1>6 DEF Existing, RefundsStay
  <2>3. PICK p, n : p = remedy[r].payment /\ n = remedy[r].amount
    OBVIOUS
  <2>4. p \in Payments /\ n \in Nat
    BY <2>1, <2>3, QueuedRow
  <2>5. /\ Held(p) + n <= Amount(p)
        /\ \A o \in Operators : op[o].step \in {"list", "create"} /\ op[o].payment = p => Held(p) + n + op[o].amount <= Amount(p)
    BY <1>1, <2>1, <2>2, <2>3 DEF RoomOK
  <2>6. /\ Held(remedy[r].payment)' = Held(p)' /\ Amount(remedy[r].payment)' = Amount(p)
        /\ Held(p)' \in Nat /\ Held(p) \in Nat /\ Held(p)' <= Held(p) /\ Amount(p) \in Nat
    BY <1>2, <1>3, <1>4, <2>1, <2>3, <2>4 DEF Held, RefundsOf, Amount
  <2>7. Held(remedy[r].payment)' + remedy'[r].amount <= Amount(remedy[r].payment)'
    BY <2>1, <2>3, <2>4, <2>5, <2>6
  <2>8. ASSUME NEW o \in Operators', op'[o].step \in {"list", "create"}, op'[o].payment = remedy'[r].payment
        PROVE  Held(remedy[r].payment)' + remedy'[r].amount + op'[o].amount <= Amount(remedy[r].payment)'
    <3>1. o \in Operators
      BY <1>2
    <3>2. op[o].step \in {"list", "create"} /\ op'[o].payment = op[o].payment /\ op'[o].amount = op[o].amount
      BY <2>8, <3>1 DEF AsksStay
    <3>3. PICK m \in Nat : m = op[o].amount
      BY <3>1, OperatorTypes DEF IInv
    <3>4. Held(p) + n + m <= Amount(p)
      BY <2>1, <2>3, <2>5, <2>8, <3>1, <3>2, <3>3
    <3> QED BY <2>1, <2>3, <2>4, <2>6, <3>2, <3>3, <3>4
  <2> QED BY <2>7, <2>8
<1> QED BY <1>2, <1>5, <1>6

(* A step that makes no refund, plans nothing and asks for nothing more.   *)
LEMMA PlanStays ==
  ASSUME IInv, PlanInv, setup' = setup, RefundsStay, DOMAIN adjustments' = DOMAIN adjustments, QueueStays, AsksStay,
         lost \subseteq lost', pc' = "save" => pc = "save" /\ job' = job, OneAtATime'
  PROVE  PlanInv'
<1>1. QueuedOK'
  BY QueuedStays DEF PlanInv
<1>2. HeldOK'
  <2> SUFFICES ASSUME NEW p \in Payments PROVE Held(p)' <= Amount(p)
    BY SameSetup DEF HeldOK
  <2>1. Held(p)' <= Held(p) /\ Held(p) \in Nat /\ Held(p)' \in Nat
    BY HeldShrinks
  <2>2. Amount(p) \in Nat /\ Held(p) <= Amount(p)
    BY LineTypes DEF PlanInv, HeldOK, IInv
  <2> QED BY <2>1, <2>2
<1>3. RoomOK'
  BY RoomStays DEF PlanInv
<1> QED BY <1>1, <1>2, <1>3 DEF PlanInv

LEMMA JobRests ==
  ASSUME IInv, PlanInv, setup' = setup, adjustments' = adjustments, QueueStays, op' = op, lost' = lost,
         pc' # "idle" => pc # "idle", pc' = "save" => pc = "save" /\ job' = job
  PROVE  PlanInv'
<1>1. RefundsStay /\ DOMAIN adjustments' = DOMAIN adjustments /\ lost \subseteq lost'
  BY DEF RefundsStay, HoldsMoney
<1>2. AsksStay /\ Busy' = Busy
  BY SameSetup DEF AsksStay, Busy
<1>3. OneAtATime'
  BY <1>2, TurnsStay DEF PlanInv
<1> QED BY <1>1, <1>2, <1>3, PlanStays

LEMMA QueueRests ==
  ASSUME remedy' = remedy
  PROVE  QueueStays
BY DEF QueueStays, Queued

LEMMA GivenUpQueue ==
  ASSUME IInv, NEW r \in Queued, RefundFailed(r)
  PROVE  QueueStays
<1>1. r \in DOMAIN remedy /\ remedy[r] \in Remedy
  BY QueuedRow, RowTypes DEF IInv
<1>2. PICK new : new = [[remedy[r] EXCEPT !.attempts = @ + 1] EXCEPT !.status =
                        IF remedy[r].attempts + 1 >= Setups[setup].attempts THEN "failed" ELSE @]
  OBVIOUS
<1>3. new.payment = remedy[r].payment /\ new.amount = remedy[r].amount
  BY <1>1, <1>2 DEF Remedy
<1>4. remedy' = [remedy EXCEPT ![r] = new]
  BY <1>1, <1>2 DEF RefundFailed
<1> QED BY <1>3, <1>4, QueueMoves

(* A step that makes a refund of what the lines can take.                  *)
RoomFor(p, items) ==
  \A r \in Queued' : Existing(r)' = {} /\ remedy[r].payment = p =>
    Held(p) + remedy[r].amount + SumFunction(items) <= Amount(p)

LEMMA PlanSends ==
  ASSUME IInv, PlanInv, setup' = setup, RefundsStay, QueueStays, OneAtATime', lost \subseteq lost',
         NEW n, NEW p \in Payments, NEW items \in Seq(Nat), DOMAIN items = LinesOf(p), Takes(p, items), OneMore(n, p, items),
         adjustments'[n].row # 0 => adjustments'[n].row \in Queued /\ p = remedy[adjustments'[n].row].payment,
         ~Setups[setup].overlap /\ lost' = {} =>
           /\ pc' # "save" /\ RoomFor(p, items)
           /\ \A o \in Operators : op'[o].step \notin {"list", "create"}
  PROVE  PlanInv'
<1>1. Payments' = Payments /\ Operators' = Operators /\ \A q : Amount(q)' = Amount(q)
  BY SameSetup
<1>2. Held(p)' = Held(p) + SumFunction(items) /\ \A q : q # p => Held(q)' = Held(q)
  BY HeldGrows
<1>3. Held(p) + SumFunction(items) <= Amount(p) /\ Held(p) \in Nat /\ Amount(p) \in Nat /\ SumFunction(items) \in Nat
  BY TakesFit
<1>4. QueuedOK'
  <2>1. \A i \in DOMAIN adjustments' \ DOMAIN adjustments : i = n /\ adjustments'[i].payment = p
    BY DEF OneMore
  <2> QED BY <2>1, QueuedStays DEF PlanInv
<1>5. HeldOK'
  BY <1>1, <1>2, <1>3 DEF PlanInv, HeldOK
<1>6. ASSUME ~Setups[setup].overlap, lost' = {}, NEW r \in Queued', Existing(r)' = {}
      PROVE  Held(remedy[r].payment)' + remedy'[r].amount <= Amount(remedy[r].payment)'
  <2>1. r \in Queued /\ remedy'[r].payment = remedy[r].payment /\ remedy'[r].amount = remedy[r].amount
    BY DEF QueueStays
  <2>2. PICK q, m : q = remedy[r].payment /\ m = remedy[r].amount
    OBVIOUS
  <2>3. q \in Payments /\ m \in Nat
    BY <2>1, <2>2, QueuedRow
  <2>4. Held(remedy[r].payment)' = Held(q)' /\ Amount(remedy[r].payment)' = Amount(q)
    BY <1>1, <2>1, <2>2 DEF Held, RefundsOf, Amount
  <2>5. CASE q = p
    <3>1. Held(p) + m + SumFunction(items) <= Amount(p)
      BY <1>6, <2>2, <2>5 DEF RoomFor
    <3>2. Held(p)' + m <= Amount(p)
      BY <1>2, <1>3, <2>3, <3>1
    <3> QED BY <2>1, <2>2, <2>4, <2>5, <3>2
  <2>6. CASE q # p
    <3>1. Existing(r) = {} /\ lost = {}
      BY <1>6 DEF Existing, RefundsStay
    <3>2. Held(q) + m <= Amount(q)
      BY <1>6, <2>1, <2>2, <3>1 DEF PlanInv, RoomOK
    <3> QED BY <1>2, <2>1, <2>2, <2>4, <2>6, <3>2
  <2> QED BY <2>5, <2>6
<1>7. RoomOK'
  BY <1>1, <1>6 DEF RoomOK
<1> QED BY <1>4, <1>5, <1>7 DEF PlanInv

-----------------------------------------------------------------------------
(* The room there is, by the rows.                                         *)

(* What the provider holds and what is not sent, the rows count.           *)
LEMMA RowsCover ==
  ASSUME IInv, lost = {}, Busy = {}, NEW p,
         \A i \in DOMAIN adjustments : adjustments[i].row # 0 => adjustments[i].payment # p
  PROVE  /\ Held(p) + SumFunction([r \in Unsent(p) |-> remedy[r].amount]) <= Refunded(p)
         /\ Held(p) \in Nat /\ SumFunction([r \in Unsent(p) |-> remedy[r].amount]) \in Nat /\ Refunded(p) \in Nat
<1>1. \A i \in RefundsOf(p) : ~GivenUp(i) /\ SavedBy(i)
  <2> TAKE i \in RefundsOf(p)
  <2>1. i \in DOMAIN adjustments /\ adjustments[i].row = 0
    BY RefundTypes
  <2>2. ~SavingBy(i)
    BY DEF Busy, SavingBy
  <2>3. SavedBy(i)
    BY <2>1, <2>2 DEF IInv, AdjustmentsOK, AdjustmentOK
  <2> QED BY <2>1, <2>3 DEF GivenUp
<1>2. RefundsOf(p) \in SUBSET RefundsOf(p)
  OBVIOUS
<1>3. /\ HeldBy(RefundsOf(p)) + SumFunction([r \in Unsent(p) |-> remedy[r].amount]) <= Refunded(p)
      /\ HeldBy(RefundsOf(p)) \in Nat /\ SumFunction([r \in Unsent(p) |-> remedy[r].amount]) \in Nat /\ Refunded(p) \in Nat
  <2>1. PICK S \in SUBSET RefundsOf(p) : S = RefundsOf(p)
    OBVIOUS
  <2>2. \A i \in S : ~GivenUp(i) /\ (adjustments[i].row # 0 \/ SavedBy(i))
    BY <1>1
  <2>3. /\ HeldBy(S) + SumFunction([r \in Unsent(p) |-> remedy[r].amount]) <= Refunded(p)
        /\ HeldBy(S) \in Nat /\ SumFunction([r \in Unsent(p) |-> remedy[r].amount]) \in Nat /\ Refunded(p) \in Nat
    BY <2>2, RowsStandFor
  <2> QED BY <2>1, <2>3
<1> QED BY <1>3 DEF Held

LEMMA UnsentSum ==
  ASSUME IInv, NEW p
  PROVE  /\ SumFunction([r \in Unsent(p) |-> remedy[r].amount]) = Sum(RowAmount, Unsent(p))
         /\ Sum(RowAmount, Unsent(p)) \in Nat /\ \A r \in Unsent(p) : remedy[r].amount <= Sum(RowAmount, Unsent(p))
<1>1. Unsent(p) \in SUBSET DOMAIN remedy
  BY DEF Unsent, Queued
<1>2. PICK S \in SUBSET DOMAIN remedy : S = Unsent(p)
  BY <1>1
<1>3. TypeOK
  BY DEF IInv
<1>4. /\ SumFunction([r \in S |-> remedy[r].amount]) = Sum(RowAmount, S) /\ Sum(RowAmount, S) \in Nat
      /\ IsFiniteSet(S) /\ \A r \in S : RowAmount[r] \in Nat /\ RowAmount[r] = remedy[r].amount
  BY <1>3, RowSums
<1>5. ASSUME NEW r \in S PROVE remedy[r].amount <= Sum(RowAmount, S)
  <2>1. {r} \subseteq S /\ \A x \in S : RowAmount[x] \in Nat
    BY <1>4
  <2>2. Sum(RowAmount, {r}) <= Sum(RowAmount, S)
    BY <1>4, <2>1, SumPart
  <2>3. RowAmount[r] \in Int /\ RowAmount[r] = remedy[r].amount
    BY <1>4
  <2>4. Sum(RowAmount, {r}) = RowAmount[r]
    BY <2>3, SumOne
  <2> QED BY <2>2, <2>3, <2>4
<1> QED BY <1>2, <1>4, <1>5

-----------------------------------------------------------------------------
(* The room of a plan, step by step.                                       *)

LEMMA JobAside ==
  ASSUME IInv, PlanInv, setup' = setup,
         Start \/ Discard \/ Cancel \/ ListRefunds \/ Settle \/ Crash
  PROVE  PlanInv'
<1>1. CASE Start
  <2>1. /\ adjustments' = adjustments /\ remedy' = remedy /\ op' = op /\ lost' = lost
        /\ pc' # "save" /\ (Setups[setup].overlap \/ Busy = {})
    BY <1>1 DEF Start, Provider, Goto
  <2>2. RefundsStay /\ DOMAIN adjustments' = DOMAIN adjustments /\ lost \subseteq lost' /\ QueueStays
    BY <2>1, QueueRests DEF RefundsStay, HoldsMoney
  <2>3. AsksStay /\ Busy' = Busy
    BY <2>1, SameSetup DEF AsksStay, Busy
  <2>4. OneAtATime'
    BY <2>1, <2>3 DEF PlanInv, OneAtATime
  <2> QED BY <2>1, <2>2, <2>3, <2>4, PlanStays
<1>2. CASE Discard
  <2>1. adjustments' = adjustments /\ op' = op /\ lost' = lost /\ pc' = pc /\ job' = job
    BY <1>2 DEF Discard, Provider
  <2>2. PICK r \in Queued : remedy' = [remedy EXCEPT ![r].status = "failed"]
    BY <1>2 DEF Discard
  <2>3. QueueStays
    <3>1. r \in DOMAIN remedy /\ remedy[r] \in Remedy
      BY QueuedRow, RowTypes DEF IInv
    <3>2. PICK new : new = [remedy[r] EXCEPT !.status = "failed"]
      OBVIOUS
    <3>3. new.payment = remedy[r].payment /\ new.amount = remedy[r].amount
      BY <3>1, <3>2 DEF Remedy
    <3>4. remedy' = [remedy EXCEPT ![r] = new]
      BY <2>2, <3>2
    <3> QED BY <3>3, <3>4, QueueMoves
  <2> QED BY <2>1, <2>3, JobRests
<1>3. CASE Cancel
  <2>1. /\ adjustments' = adjustments /\ remedy' = remedy /\ op' = op /\ lost' = lost /\ pc # "idle" /\ pc' # "save"
    BY <1>3 DEF Cancel, Provider, Goto
  <2> QED BY <2>1, QueueRests, JobRests
<1>4. CASE ListRefunds
  <2>1. adjustments' = adjustments /\ op' = op /\ lost' = lost /\ pc = "list" /\ job.rows \subseteq Queued
    BY <1>4 DEF ListRefunds, Provider, IInv, JobOK
  <2>2. PICK r \in job.rows : RefundFailed(r) \/ (remedy' = remedy /\ pc' # "save")
    BY <1>4 DEF ListRefunds, Goto
  <2>3. QueueStays /\ pc' # "save"
    <3>1. RefundFailed(r) => pc' # "save"
      BY DEF RefundFailed, NextRow, Goto
    <3> QED BY <2>1, <2>2, <3>1, QueueRests, GivenUpQueue
  <2> QED BY <2>1, <2>3, JobRests
<1>5. CASE Settle
  <2>1. adjustments' = adjustments /\ op' = op /\ lost' = lost /\ pc = "settle" /\ pc' # "save" /\ job.row \in Queued
    BY <1>5 DEF Settle, Provider, NextRow, Goto, IInv, JobOK
  <2>2. PICK r, i, st : r = job.row /\ i = job.refund /\ st = StatusOf(adjustments[job.refund].state)
    OBVIOUS
  <2>3. PICK new : new = [remedy[r] EXCEPT !.status = st, !.ref = i]
    OBVIOUS
  <2>4. r \in DOMAIN remedy /\ remedy[r] \in Remedy
    BY <2>1, <2>2, QueuedRow, RowTypes DEF IInv
  <2>5. new.payment = remedy[r].payment /\ new.amount = remedy[r].amount
    BY <2>3, <2>4 DEF Remedy
  <2>6. remedy' = [remedy EXCEPT ![r] = new]
    BY <1>5, <2>2, <2>3, <2>4 DEF Settle
  <2>7. QueueStays
    BY <2>1, <2>2, <2>5, <2>6, QueueMoves
  <2> QED BY <2>1, <2>7, JobRests
<1>6. CASE Crash
  <2>1. adjustments' = adjustments /\ remedy' = remedy /\ op' = op /\ lost' = lost /\ pc' = "idle"
    BY <1>6 DEF Crash, Provider, Goto
  <2> QED BY <2>1, QueueRests, JobRests
<1> QED BY <1>1, <1>2, <1>3, <1>4, <1>5, <1>6

LEMMA PlanRoom ==
  ASSUME IInv, PlanInv, setup' = setup, Plan
  PROVE  PlanInv'
<1>1. /\ adjustments' = adjustments /\ remedy' = remedy /\ op' = op /\ lost' = lost /\ pc = "plan" /\ pc' = "save"
      /\ job'.parts \in [Payments -> Nat] /\ \A p \in Payments : job'.parts[p] <= Refundable(p)
  BY PlanMakes
<1>2. Queued' = Queued /\ Queued = {} /\ ~ended
  BY <1>1 DEF IInv, JobOK, Queued
<1>3. Busy' = Busy /\ Payments' = Payments /\ (\A p : Amount(p)' = Amount(p) /\ Held(p)' = Held(p))
  BY <1>1, SameSetup DEF Busy, Held, HeldBy, RefundsOf, HoldsMoney
<1>4. OneAtATime'
  BY <1>1, <1>3 DEF PlanInv, OneAtATime
<1>5. QueuedOK'
  BY <1>2 DEF QueuedOK
<1>6. HeldOK'
  BY <1>3 DEF PlanInv, HeldOK
<1>7. ASSUME ~Setups[setup].overlap, lost = {}, NEW p \in Payments, job'.parts[p] > 0
      PROVE  Held(p) + job'.parts[p] <= Amount(p)
  <2>1. Busy = {}
    BY <1>1, <1>7 DEF PlanInv, OneAtATime
  <2>2. \A i \in DOMAIN adjustments : adjustments[i].row = 0
    BY <1>2 DEF IInv, AdjustmentsOK, AdjustmentOK, SentOK
  <2>3. PICK unsent \in Nat : Held(p) + unsent <= Refunded(p) /\ Held(p) \in Nat /\ Refunded(p) \in Nat
    BY <1>7, <2>1, <2>2, RowsCover
  <2>4. PICK part \in Nat : part = job'.parts[p]
    BY <1>1
  <2>5. part <= Refundable(p)
    BY <1>1, <2>4
  <2>6. Amount(p) \in Nat
    BY LineTypes DEF IInv
  <2>7. part <= Amount(p) - Refunded(p)
    BY <1>7, <2>3, <2>4, <2>5, <2>6 DEF Refundable, AtLeastZero
  <2> QED BY <2>3, <2>4, <2>6, <2>7
<1>8. RoomOK'
  BY <1>1, <1>2, <1>3, <1>7 DEF RoomOK
<1> QED BY <1>4, <1>5, <1>6, <1>8 DEF PlanInv

LEMMA SaveRoom ==
  ASSUME IInv, PlanInv, setup' = setup, SaveRows
  PROVE  PlanInv'
<1>1. /\ UNCHANGED <<adjustments, op, lost>> /\ pc = "save" /\ pc' = "cancel"
      /\ \A r \in DOMAIN remedy : r \in DOMAIN remedy' /\ remedy'[r] = remedy[r]
      /\ \A r \in NewRows : /\ remedy'[r].payment \in Payments /\ remedy'[r].amount = job.parts[remedy'[r].payment]
                            /\ remedy'[r].amount > 0
      /\ \A r, q \in NewRows : remedy'[r].payment = remedy'[q].payment => r = q
  BY SaveRowsMakes
<1>2. Queued = {} /\ ~ended
  BY <1>1 DEF IInv, JobOK
<1>3. Queued' \subseteq NewRows
  BY <1>1, <1>2 DEF Queued, NewRows
<1>4. \A i \in DOMAIN adjustments : adjustments[i].row = 0
  BY <1>2 DEF IInv, AdjustmentsOK, AdjustmentOK, SentOK
<1>5. Busy' = Busy /\ Payments' = Payments /\ Operators' = Operators /\ (\A p : Amount(p)' = Amount(p) /\ Held(p)' = Held(p))
  BY <1>1, SameSetup DEF Busy, Held, HeldBy, RefundsOf, HoldsMoney
<1>6. OneAtATime'
  BY <1>1, <1>5 DEF PlanInv, OneAtATime
<1>7. QueuedOK'
  BY <1>1, <1>3, <1>4 DEF QueuedOK
<1>8. HeldOK'
  BY <1>5 DEF PlanInv, HeldOK
<1>9. RoomOK'
  <2> SUFFICES ASSUME ~Setups[setup].overlap, lost = {}, NEW r \in Queued'
               PROVE  /\ Held(remedy[r].payment)' + remedy'[r].amount <= Amount(remedy[r].payment)'
                      /\ \A o \in Operators : op[o].step = "idle"
    BY <1>1, <1>5 DEF RoomOK
  <2>1. \A o \in Operators : op[o].step = "idle"
    BY <1>1 DEF PlanInv, OneAtATime, Busy
  <2>2. PICK p \in Payments : p = remedy'[r].payment /\ remedy'[r].amount = job.parts[p] /\ job.parts[p] > 0
    BY <1>1, <1>3
  <2>3. Held(p) + job.parts[p] <= Amount(p)
    BY <1>1, <2>2 DEF PlanInv, RoomOK
  <2>4. Held(remedy[r].payment)' = Held(p)' /\ Amount(remedy[r].payment)' = Amount(p)'
    BY <2>2 DEF Held, RefundsOf, Amount
  <2> QED BY <1>5, <2>1, <2>2, <2>3, <2>4
<1> QED BY <1>6, <1>7, <1>8, <1>9 DEF PlanInv

(* A refund of the row in hand leaves the others their room.               *)
LEMMA SentRoom ==
  ASSUME IInv, PlanInv, setup' = setup, pc = "create", pc' # "save", NEW state \in {"pending", "approved"},
         Adjust(remedy[job.row].payment, job.row, job.items, state), Takes(remedy[job.row].payment, job.items),
         QueueStays, op' = op, lost' = lost
  PROVE  PlanInv'
<1>1. PICK n \in Nat, r \in job.rows :
         /\ n = Len(adjustments) + 1 /\ r = job.row /\ r \in Queued /\ n \notin DOMAIN adjustments
         /\ DOMAIN adjustments' = DOMAIN adjustments \cup {n} /\ n \in DOMAIN adjustments'
         /\ \A i \in DOMAIN adjustments : adjustments'[i] = adjustments[i]
         /\ RefundsStay
         /\ adjustments'[n].row = r /\ adjustments'[n].payment = remedy[r].payment
         /\ Existing(r)' = {n} /\ adjustments'[n].items = job.items
  BY SentMakes
<1>2. PICK p, items : p = remedy[r].payment /\ items = job.items
  OBVIOUS
<1>3. p \in Payments /\ items \in Seq(Nat) /\ DOMAIN items = LinesOf(p) /\ Takes(p, items)
  <2>1. DOMAIN job.items = LinesOf(remedy[job.row].payment)
    BY DEF IInv, JobOK
  <2> QED BY <1>1, <1>2, <2>1, QueuedRow, Types DEF JobType
<1>4. HoldsMoney(n)'
  <2>1. adjustments'[n].state = state
    <3>1. adjustments' = Append(adjustments, [payment |-> p, row |-> r, items |-> items, state |-> state])
      BY <1>1, <1>2 DEF Adjust
    <3>2. adjustments \in Seq(Adjustment)
      BY Types
    <3> HIDE DEF Adjustment
    <3> QED BY <1>1, <3>1, <3>2
  <2> QED BY <2>1 DEF HoldsMoney
<1>5. OneMore(n, p, items)
  BY <1>1, <1>2, <1>4 DEF OneMore
<1>6. OneAtATime' /\ (~Setups[setup].overlap => \A o \in Operators : op'[o].step \notin {"list", "create"})
  <2>1. Busy' = Busy
    BY SameSetup DEF Busy
  <2>2. OneAtATime'
    BY <2>1, TurnsStay DEF PlanInv
  <2>3. ~Setups[setup].overlap => Busy = {}
    BY DEF PlanInv, OneAtATime
  <2> QED BY <2>2, <2>3 DEF Busy
<1>7. RoomFor(p, items)
  <2> SUFFICES ASSUME NEW q \in Queued', Existing(q)' = {}, remedy[q].payment = p PROVE FALSE
    BY DEF RoomFor
  <2>1. q \in Queued
    BY DEF QueueStays
  <2>2. q = r
    BY <1>1, <1>2, <2>1 DEF PlanInv, QueuedOK
  <2> QED BY <1>1, <2>2
<1>8. adjustments'[n].row \in Queued /\ p = remedy[adjustments'[n].row].payment /\ lost \subseteq lost'
  BY <1>1, <1>2
<1> QED BY <1>1, <1>3, <1>5, <1>6, <1>7, <1>8, PlanSends

LEMMA SendRoom ==
  ASSUME IInv, PlanInv, setup' = setup, CreateRefund \/ SendFails
  PROVE  PlanInv'
<1>1. op' = op /\ lost' = lost /\ pc \in {"list", "create"} /\ job.rows \subseteq Queued
  BY DEF CreateRefund, SendFails, IInv, JobOK
<1>2. \A r : RefundFailed(r) => pc' # "save"
  BY DEF RefundFailed, NextRow, Goto
<1>3. ASSUME NEW r \in job.rows, RefundFailed(r), adjustments' = adjustments PROVE PlanInv'
  BY <1>1, <1>2, <1>3, GivenUpQueue, JobRests
<1>4. CASE CreateRefund
  <2>1. pc = "create" /\ job.row \in job.rows
    BY <1>4 DEF CreateRefund, IInv, JobOK
  <2>2. \/ /\ remedy' = remedy /\ pc' # "save" /\ Takes(remedy[job.row].payment, job.items)
           /\ \E state \in {"pending", "approved"} : Adjust(remedy[job.row].payment, job.row, job.items, state)
        \/ RefundFailed(job.row) /\ adjustments' = adjustments
    BY <1>4 DEF CreateRefund, Goto, Provider
  <2> QED BY <1>1, <1>3, <2>1, <2>2, QueueRests, SentRoom
<1>5. CASE SendFails
  <2>1. PICK r \in job.rows :
        /\ pc = "create" => r = job.row
        /\ RefundFailed(r)
        /\ \/ UNCHANGED Provider
           \/ /\ pc = "create" /\ Takes(remedy[r].payment, job.items)
              /\ \E state \in {"pending", "approved"} : Adjust(remedy[r].payment, r, job.items, state)
    BY <1>5 DEF SendFails
  <2>2. CASE UNCHANGED Provider
    BY <1>3, <2>1, <2>2 DEF Provider
  <2>3. CASE /\ pc = "create" /\ Takes(remedy[r].payment, job.items)
             /\ \E state \in {"pending", "approved"} : Adjust(remedy[r].payment, r, job.items, state)
    <3>1. r = job.row /\ QueueStays /\ pc' # "save"
      BY <1>1, <1>2, <2>1, <2>3, GivenUpQueue
    <3> QED BY <1>1, <2>3, <3>1, SentRoom
  <2> QED BY <2>1, <2>2, <2>3
<1> QED BY <1>4, <1>5

LEMMA AskRoom ==
  ASSUME IInv, PlanInv, setup' = setup, NEW q \in Operators, ApplyRemedy(q)
  PROVE  PlanInv'
<1>1. /\ adjustments' = adjustments /\ remedy' = remedy /\ pc' = pc /\ job' = job /\ lost' = lost /\ op[q].step = "idle"
      /\ Setups[setup].overlap \/ (pc = "idle" /\ Busy = {})
  BY DEF ApplyRemedy, Provider
<1>2. PICK p, new :
        /\ p \in Payments /\ op' = [op EXCEPT ![q] = new] /\ new.payment = p /\ new.step \in {"list", "create"}
        /\ \/ Refunded(p) = 0 /\ new.amount = Amount(p)
           \/ new.amount \in 1 .. Refundable(p)
  <2>1. PICK p \in Payments :
         \/ /\ Refunded(p) = 0 /\ Amount(p) > 0
            /\ Move(q, [NoOp EXCEPT !.step = "create", !.payment = p, !.amount = Amount(p), !.items = Lines[p]])
         \/ \E amount \in 1 .. Refundable(p) :
              Move(q, [NoOp EXCEPT !.step = "list", !.payment = p, !.amount = amount])
    BY DEF ApplyRemedy
  <2>2. CASE /\ Refunded(p) = 0 /\ Amount(p) > 0
             /\ Move(q, [NoOp EXCEPT !.step = "create", !.payment = p, !.amount = Amount(p), !.items = Lines[p]])
    <3>1. PICK new : new = [NoOp EXCEPT !.step = "create", !.payment = p, !.amount = Amount(p), !.items = Lines[p]]
      OBVIOUS
    <3>2. new.payment = p /\ new.step = "create" /\ new.amount = Amount(p)
      BY <3>1 DEF NoOp
    <3> QED BY <2>2, <3>1, <3>2 DEF Move
  <2>3. CASE \E amount \in 1 .. Refundable(p) : Move(q, [NoOp EXCEPT !.step = "list", !.payment = p, !.amount = amount])
    <3>1. PICK amount \in 1 .. Refundable(p) : Move(q, [NoOp EXCEPT !.step = "list", !.payment = p, !.amount = amount])
      BY <2>3
    <3>2. PICK new : new = [NoOp EXCEPT !.step = "list", !.payment = p, !.amount = amount]
      OBVIOUS
    <3>3. new.payment = p /\ new.step = "list" /\ new.amount = amount
      BY <3>2 DEF NoOp
    <3> QED BY <3>1, <3>2, <3>3 DEF Move
  <2> QED BY <2>1, <2>2, <2>3
<1>3. op'[q] = new /\ \A o \in Operators \ {q} : op'[o] = op[o]
  BY <1>2, OpAt
<1>4. RefundsStay /\ QueueStays /\ Queued' = Queued
  BY <1>1, Unmoved, QueueRests
<1>5. Payments' = Payments /\ Operators' = Operators /\ (\A x : Amount(x)' = Amount(x) /\ Held(x)' = Held(x))
  BY <1>1, SameSetup DEF Held, HeldBy, RefundsOf, HoldsMoney
<1>6. OneAtATime'
  <2>1. CASE Setups[setup].overlap
    BY <2>1 DEF OneAtATime
  <2>2. CASE pc = "idle" /\ Busy = {}
    <3>1. Busy' \subseteq {q}
      BY <1>3, <1>5, <2>2 DEF Busy
    <3> QED BY <1>1, <2>2, <3>1 DEF OneAtATime
  <2> QED BY <1>1, <2>1, <2>2
<1>7. QueuedOK'
  BY <1>1, <1>4, QueuedStays DEF PlanInv
<1>8. HeldOK'
  BY <1>5 DEF PlanInv, HeldOK
<1>9. RoomOK'
  <2> SUFFICES ASSUME ~Setups[setup].overlap, lost = {}
               PROVE  \A r \in Queued : Existing(r) = {} =>
                        /\ Held(remedy[r].payment) + remedy[r].amount <= Amount(remedy[r].payment)
                        /\ \A o \in Operators : op'[o].step \in {"list", "create"} /\ op'[o].payment = remedy[r].payment =>
                             Held(remedy[r].payment) + remedy[r].amount + op'[o].amount <= Amount(remedy[r].payment)
    <3>1. /\ \A r : Existing(r)' = Existing(r) /\ Held(remedy[r].payment)' = Held(remedy[r].payment)
          /\ \A r : Amount(remedy[r].payment)' = Amount(remedy[r].payment)
      BY <1>1, SameSetup DEF Existing, Held, HeldBy, RefundsOf, HoldsMoney, Amount
    <3>2. pc' # "save" \/ Setups[setup].overlap
      BY <1>1
    <3> QED BY <1>1, <1>4, <1>5, <3>1, <3>2 DEF RoomOK
  <2>1. Busy = {} /\ \A o \in Operators : op[o].step = "idle"
    BY <1>1 DEF Busy
  <2>2. ASSUME NEW r \in Queued, Existing(r) = {}, NEW o \in Operators,
               op'[o].step \in {"list", "create"}, op'[o].payment = remedy[r].payment
        PROVE  Held(remedy[r].payment) + remedy[r].amount + op'[o].amount <= Amount(remedy[r].payment)
    <3>1. o = q /\ op'[o] = new /\ remedy[r].payment = p
      BY <1>2, <1>3, <2>1, <2>2
    <3>2. \A i \in DOMAIN adjustments : adjustments[i].row # 0 => adjustments[i].payment # p
      BY <2>2, <3>1 DEF PlanInv, QueuedOK, Existing
    <3>3. PICK unsent \in Nat : /\ unsent = SumFunction([s \in Unsent(p) |-> remedy[s].amount])
                                /\ Held(p) + unsent <= Refunded(p) /\ Held(p) \in Nat /\ Refunded(p) \in Nat
      BY <2>1, <3>2, RowsCover
    <3>4. r \in Unsent(p)
      BY <2>2, <3>1 DEF Unsent
    <3>5. PICK m \in Nat \ {0} : m = remedy[r].amount
      BY QueuedRow
    <3>6. m <= unsent
      BY <3>3, <3>4, <3>5, UnsentSum
    <3>7. Amount(p) \in Nat
      <4>1. p \in Payments /\ setup \in DOMAIN Setups
        BY <3>1, QueuedRow DEF IInv
      <4> QED BY <4>1, LineTypes
    <3>8. CASE Refunded(p) = 0
      BY <3>3, <3>5, <3>6, <3>8
    <3>9. CASE new.amount \in 1 .. Refundable(p)
      <4>1. PICK k \in Nat : k = new.amount /\ k > 0 /\ k <= Refundable(p)
        <5>1. Refundable(p) \in Nat
          BY <3>3, <3>7 DEF Refundable, AtLeastZero
        <5> QED BY <3>9, <5>1
      <4>2. k <= Amount(p) - Refunded(p)
        BY <3>3, <3>7, <4>1 DEF Refundable, AtLeastZero
      <4>3. Held(p) + m + k <= Amount(p)
        BY <3>3, <3>6, <3>7, <4>2
      <4> QED BY <3>1, <3>5, <4>1, <4>3
    <3> QED BY <1>2, <3>8, <3>9
  <2>3. \A r \in Queued : Existing(r) = {} => Held(remedy[r].payment) + remedy[r].amount <= Amount(remedy[r].payment)
    BY DEF PlanInv, RoomOK
  <2> QED BY <2>2, <2>3
<1> QED BY <1>6, <1>7, <1>8, <1>9 DEF PlanInv

(* An operator's refund takes the room it was checked for.                 *)
LEMMA OperatorSendsRoom ==
  ASSUME IInv, PlanInv, setup' = setup, NEW q \in Operators, op[q].step = "create",
         NEW state \in {"pending", "approved"}, Adjust(op[q].payment, 0, op[q].items, state),
         Takes(op[q].payment, op[q].items), UNCHANGED <<remedy, pc>>, lost \subseteq lost',
         NEW new, op' = [op EXCEPT ![q] = new], new.step \in {"idle", "save"}
  PROVE  PlanInv'
<1>1. PICK p, items : p = op[q].payment /\ items = op[q].items
  OBVIOUS
<1>2. /\ p \in Payments /\ items \in Seq(Nat) /\ DOMAIN items = LinesOf(p) /\ SumFunction(items) = op[q].amount
  <2>1. OperatorOK(q) /\ op[q].items \in Seq(Nat)
    BY OperatorTypes DEF IInv, OperatorsOK
  <2> QED BY <1>1, <2>1 DEF OperatorOK
<1>0. PICK n : n = Len(adjustments) + 1
  OBVIOUS
<1>3. /\ n \in Nat \ {0} /\ n \notin DOMAIN adjustments /\ DOMAIN adjustments' = DOMAIN adjustments \cup {n}
      /\ adjustments' \in Seq(Adjustment)
      /\ adjustments'[n] = [payment |-> p, row |-> 0, items |-> items, state |-> state]
      /\ \A i \in DOMAIN adjustments : adjustments'[i] = adjustments[i]
      /\ RefundsStay /\ InboxOK' /\ inbox' \subseteq (Nat \X AdjustmentStates)
  <2>1. PICK none \in Nat : none = 0
    OBVIOUS
  <2>2. p \in Payments /\ items \in Seq(Nat) /\ Adjust(p, none, items, state)
    BY <1>1, <1>2, <2>1
  <2>3. RefundAt(n, p, none, items, state)
    BY <1>0, <2>2, RefundMade
  <2> QED BY <2>1, <2>3 DEF RefundAt
<1>4. OneMore(n, p, items) /\ adjustments'[n].row = 0
  <2>1. HoldsMoney(n)'
    BY <1>3 DEF HoldsMoney
  <2> QED BY <1>3, <2>1 DEF OneMore
<1>5. op'[q] = new /\ \A o \in Operators \ {q} : op'[o] = op[o]
  BY OpAt
<1>6. q \in Busy /\ Busy' \subseteq Busy
  BY <1>5, SameSetup DEF Busy
<1>7. OneAtATime'
  BY <1>6, TurnsStay DEF PlanInv
<1>8. ASSUME ~Setups[setup].overlap, lost' = {}
      PROVE  /\ pc' # "save" /\ RoomFor(p, items)
             /\ \A o \in Operators : op'[o].step \notin {"list", "create"}
  <2>1. pc = "idle" /\ \A o \in Busy : o = q
    BY <1>6, <1>8 DEF PlanInv, OneAtATime
  <2>2. \A o \in Operators : op'[o].step \notin {"list", "create"}
    BY <1>5, <2>1 DEF Busy
  <2>3. RoomFor(p, items)
    <3> SUFFICES ASSUME NEW r \in Queued', Existing(r)' = {}, remedy[r].payment = p
                 PROVE  Held(p) + remedy[r].amount + SumFunction(items) <= Amount(p)
      BY DEF RoomFor
    <3>1. r \in Queued /\ Existing(r) = {} /\ lost = {}
      BY <1>3, <1>8 DEF Queued, Existing, RefundsStay
    <3> QED BY <1>1, <1>2, <1>8, <3>1 DEF PlanInv, RoomOK
  <2> QED BY <2>1, <2>2, <2>3
<1>9. QueueStays /\ Takes(p, items)
  BY <1>1, QueueRests
<1> QED BY <1>2, <1>3, <1>4, <1>7, <1>8, <1>9, PlanSends

LEMMA OperatorRoom ==
  ASSUME IInv, PlanInv, setup' = setup, NEW q \in Operators,
         ListFor(q) \/ CreateFor(q) \/ SaveRemedy(q) \/ OperatorFails(q)
  PROVE  PlanInv'
<1>1. pc' = pc /\ job' = job /\ lost \subseteq lost'
  BY DEF ListFor, CreateFor, SaveRemedy, OperatorFails
<1>2. op[q].step # "idle"
  BY DEF ListFor, CreateFor, SaveRemedy, OperatorFails
<1>3. ASSUME NEW new, op' = [op EXCEPT ![q] = new], adjustments' = adjustments, QueueStays,
             new.step = "idle" \/ (op[q].step = "list" /\ new.payment = op[q].payment /\ new.amount = op[q].amount)
      PROVE  PlanInv'
  <2>1. op'[q] = new /\ \A o \in Operators \ {q} : op'[o] = op[o]
    BY <1>3, OpAt
  <2>2. AsksStay
    BY <1>3, <2>1 DEF AsksStay
  <2>3. Busy' \subseteq Busy
    BY <1>2, <2>1, SameSetup DEF Busy
  <2>4. OneAtATime'
    BY <1>1, <2>3, TurnsStay DEF PlanInv
  <2>5. RefundsStay /\ DOMAIN adjustments' = DOMAIN adjustments
    BY <1>3 DEF RefundsStay, HoldsMoney
  <2> QED BY <1>1, <1>3, <2>2, <2>4, <2>5, PlanStays
<1>4. NoOp.step = "idle"
  BY DEF NoOp
<1>5. CASE ListFor(q)
  <2>1. PICK items : Move(q, NoOp) \/ Move(q, [op[q] EXCEPT !.step = "create", !.items = items])
    BY <1>5 DEF ListFor
  <2>2. op[q].step = "list" /\ adjustments' = adjustments /\ QueueStays
    BY <1>5, QueueRests DEF ListFor, Provider
  <2>3. CASE Move(q, NoOp)
    BY <1>3, <1>4, <2>2, <2>3 DEF Move
  <2>4. CASE Move(q, [op[q] EXCEPT !.step = "create", !.items = items])
    <3>1. PICK new : new = [op[q] EXCEPT !.step = "create", !.items = items]
      OBVIOUS
    <3>2. op[q] \in OpType
      BY Types
    <3>3. new.payment = op[q].payment /\ new.amount = op[q].amount
      BY <3>1, <3>2 DEF OpType
    <3>4. op' = [op EXCEPT ![q] = new]
      BY <2>4, <3>1 DEF Move
    <3> QED BY <1>3, <2>2, <3>3, <3>4
  <2> QED BY <2>1, <2>3, <2>4
<1>6. CASE CreateFor(q)
  <2>1. op[q].step = "create" /\ remedy' = remedy
    BY <1>6 DEF CreateFor
  <2>2. CASE Move(q, NoOp) /\ UNCHANGED Provider
    <3>1. adjustments' = adjustments /\ QueueStays /\ op' = [op EXCEPT ![q] = NoOp]
      BY <2>1, <2>2, QueueRests DEF Provider, Move
    <3> QED BY <1>3, <1>4, <3>1
  <2>3. ASSUME NEW state \in {"pending", "approved"}, Adjust(op[q].payment, 0, op[q].items, state),
               Takes(op[q].payment, op[q].items), Move(q, [op[q] EXCEPT !.step = "save", !.refund = Len(adjustments) + 1])
        PROVE  PlanInv'
    <3>1. PICK new : new = [op[q] EXCEPT !.step = "save", !.refund = Len(adjustments) + 1]
      OBVIOUS
    <3>2. op[q] \in OpType
      BY Types
    <3>3. new.step = "save" /\ op' = [op EXCEPT ![q] = new]
      BY <2>3, <3>1, <3>2 DEF OpType, Move
    <3> QED BY <1>1, <2>1, <2>3, <3>3, OperatorSendsRoom
  <2> QED BY <1>6, <2>2, <2>3 DEF CreateFor
<1>7. CASE SaveRemedy(q)
  <2>1. adjustments' = adjustments /\ op' = [op EXCEPT ![q] = NoOp]
    BY <1>7 DEF SaveRemedy, Provider, Move
  <2>2. QueueStays
    <3>1. PICK row : remedy' = Append(remedy, row) /\ row.status = "initiated"
      BY <1>7 DEF SaveRemedy, Row
    <3>2. remedy \in Seq(Remedy)
      BY Types
    <3>3. PICK n \in Nat : n = Len(remedy)
      BY <3>2
    <3>4. DOMAIN remedy = 1 .. n /\ DOMAIN remedy' = 1 .. n + 1 /\ remedy'[n + 1] = row /\ \A r \in 1 .. n : remedy'[r] = remedy[r]
      <4> HIDE DEF Remedy
      <4> QED BY <3>1, <3>2, <3>3
    <3> QED BY <3>1, <3>4 DEF QueueStays, Queued
  <2> QED BY <1>3, <1>4, <2>1, <2>2
<1>8. CASE OperatorFails(q)
  <2>1. op' = [op EXCEPT ![q] = NoOp] /\ remedy' = remedy /\ QueueStays
    BY <1>8, QueueRests DEF OperatorFails, Move
  <2>2. CASE UNCHANGED Provider
    BY <1>3, <1>4, <2>1, <2>2 DEF Provider
  <2>3. CASE /\ op[q].step = "create" /\ Takes(op[q].payment, op[q].items)
             /\ \E state \in {"pending", "approved"} : Adjust(op[q].payment, 0, op[q].items, state)
    BY <1>1, <1>4, <2>1, <2>3, OperatorSendsRoom
  <2> QED BY <1>8, <2>2, <2>3 DEF OperatorFails
<1> QED BY <1>5, <1>6, <1>7, <1>8

LEMMA ReportRoom ==
  ASSUME IInv, PlanInv, setup' = setup, (\E i \in DOMAIN adjustments : Decide(i)) \/ (\E e \in inbox : ApplyRefundUpdate(e))
  PROVE  PlanInv'
<1>1. pc' = pc /\ job' = job /\ op' = op /\ lost' = lost
  BY DEF Decide, ApplyRefundUpdate
<1>2. AsksStay /\ OneAtATime'
  <2>1. Busy' = Busy
    BY <1>1, SameSetup DEF Busy
  <2> QED BY <1>1, <2>1, TurnsStay DEF PlanInv, AsksStay
<1>3. ASSUME NEW i \in DOMAIN adjustments, Decide(i) PROVE PlanInv'
  <2>1. PICK state \in AdjustmentStates \ {"pending"} :
          /\ IF state = "reversed" THEN adjustments[i].state = "approved" ELSE adjustments[i].state = "pending"
          /\ adjustments' = [adjustments EXCEPT ![i].state = state] /\ remedy' = remedy
    BY <1>3 DEF Decide
  <2>2. adjustments[i] \in Adjustment /\ DOMAIN adjustments' = DOMAIN adjustments
    BY <2>1, AdjustmentTypes DEF IInv
  <2>3. PICK new : new = [adjustments[i] EXCEPT !.state = state]
    OBVIOUS
  <2>4. new.payment = adjustments[i].payment /\ new.row = adjustments[i].row /\ new.items = adjustments[i].items /\ new.state = state
    BY <2>2, <2>3 DEF Adjustment
  <2>5. adjustments' = [adjustments EXCEPT ![i] = new]
    BY <2>1, <2>3
  <2>6. adjustments'[i] = new /\ \A j \in DOMAIN adjustments \ {i} : adjustments'[j] = adjustments[j]
    BY <2>5
  <2>7. \A j \in DOMAIN adjustments : HoldsMoney(j)' => HoldsMoney(j)
    BY <2>1, <2>4, <2>6 DEF HoldsMoney
  <2>8. RefundsStay
    BY <2>2, <2>4, <2>6, <2>7 DEF RefundsStay
  <2> QED BY <1>1, <1>2, <2>1, <2>2, <2>8, QueueRests, PlanStays
<1>4. ASSUME NEW e \in inbox, ApplyRefundUpdate(e) PROVE PlanInv'
  <2>1. adjustments' = adjustments
    BY <1>4 DEF ApplyRefundUpdate
  <2>2. RefundsStay /\ DOMAIN adjustments' = DOMAIN adjustments
    BY <2>1 DEF RefundsStay, HoldsMoney
  <2>3. PICK i, st : i = e[1] /\ st = e[2]
    OBVIOUS
  <2>4. st \in {"approved", "rejected", "reversed"}
    BY <2>3, Types DEF IInv, InboxOK, AdjustmentStates
  <2>5. PICK moved : remedy' = [r \in DOMAIN remedy |-> IF r \in moved THEN [remedy[r] EXCEPT !.status = st, !.ref = i] ELSE remedy[r]]
    BY <1>4, <2>3 DEF ApplyRefundUpdate
  <2>6. QueueStays
    <3> SUFFICES ASSUME NEW r \in Queued'
                 PROVE  r \in Queued /\ remedy'[r].payment = remedy[r].payment /\ remedy'[r].amount = remedy[r].amount
      BY DEF QueueStays
    <3>1. r \in DOMAIN remedy /\ remedy'[r].status = "queued"
      BY <2>5 DEF Queued
    <3>2. remedy[r] \in Remedy
      BY <3>1, RowTypes DEF IInv
    <3>3. [remedy[r] EXCEPT !.status = st, !.ref = i].status = st
      BY <3>2 DEF Remedy
    <3>4. r \notin moved
      BY <2>4, <2>5, <3>1, <3>3
    <3>5. remedy'[r] = remedy[r]
      BY <2>5, <3>1, <3>4
    <3> QED BY <3>1, <3>5 DEF Queued
  <2> QED BY <1>1, <1>2, <2>2, <2>6, PlanStays
<1> QED BY <1>3, <1>4

LEMMA PlanStep ==
  ASSUME IInv, PlanInv, [Next /\ UNCHANGED setup]_vars
  PROVE  PlanInv'
<1>1. CASE UNCHANGED vars
  <2>1. /\ setup' = setup /\ adjustments' = adjustments /\ remedy' = remedy /\ op' = op /\ lost' = lost /\ pc' = pc /\ job' = job
    BY <1>1 DEF vars
  <2> QED BY <2>1, QueueRests, JobRests
<1>2. CASE Next /\ UNCHANGED setup
  <2>1. setup' = setup
    BY <1>2
  <2>2. CASE Start \/ Discard \/ Cancel \/ ListRefunds \/ Settle \/ Crash
    BY <2>1, <2>2, JobAside
  <2>3. CASE Plan
    BY <2>1, <2>3, PlanRoom
  <2>4. CASE SaveRows
    BY <2>1, <2>4, SaveRoom
  <2>5. CASE CreateRefund \/ SendFails
    BY <2>1, <2>5, SendRoom
  <2>6. CASE \E o \in Operators : ApplyRemedy(o) \/ ListFor(o) \/ CreateFor(o) \/ SaveRemedy(o) \/ OperatorFails(o)
    BY <2>1, <2>6, AskRoom, OperatorRoom
  <2>7. CASE (\E i \in DOMAIN adjustments : Decide(i)) \/ (\E e \in inbox : ApplyRefundUpdate(e))
    BY <2>1, <2>7, ReportRoom
  <2> QED BY <1>2, <2>2, <2>3, <2>4, <2>5, <2>6, <2>7 DEF Next
<1> QED BY <1>1, <1>2

LEMMA RoomIsEnough ==
  ASSUME IInv, PlanInv
  PROVE  PlanPayable
<1> SUFFICES ASSUME ~Setups[setup].overlap, lost = {}, NEW p \in Payments
             PROVE  Held(p) + SumFunction([r \in Unsent(p) |-> remedy[r].amount]) <= Amount(p)
  BY DEF PlanPayable
<1>1. Held(p) <= Amount(p) /\ Held(p) \in Nat /\ Amount(p) \in Nat
  BY HeldSum, LineTypes DEF PlanInv, HeldOK, IInv
<1>2. SumFunction([r \in Unsent(p) |-> remedy[r].amount]) = Sum(RowAmount, Unsent(p))
  BY UnsentSum
<1>3. CASE Unsent(p) = {}
  BY <1>1, <1>2, <1>3, SumOfNone
<1>4. CASE Unsent(p) # {}
  <2>1. PICK r \in Unsent(p) : TRUE
    BY <1>4
  <2>2. r \in Queued /\ remedy[r].payment = p /\ Existing(r) = {}
    BY DEF Unsent
  <2>3. Unsent(p) = {r}
    <3>1. \A s \in Unsent(p) : s \in Queued /\ remedy[s].payment = p
      BY DEF Unsent
    <3>2. \A s \in Unsent(p) : s = r
      BY <2>2, <3>1 DEF PlanInv, QueuedOK
    <3> QED BY <3>2
  <2>4. r \in DOMAIN remedy /\ remedy[r].amount \in Nat
    BY <2>2, QueuedRow
  <2>5. RowAmount[r] = remedy[r].amount
    BY <2>4 DEF RowAmount
  <2>6. Sum(RowAmount, {r}) = remedy[r].amount
    BY <2>4, <2>5, SumOne
  <2>7. Held(p) + remedy[r].amount <= Amount(p)
    BY <2>2 DEF PlanInv, RoomOK
  <2> QED BY <1>2, <2>3, <2>6, <2>7
<1> QED BY <1>3, <1>4

(* What the job has planned and not sent can still be paid, whatever the   *)
(* provider decides and whatever remedies operators apply between the      *)
(* job's runs, each of them saved and none overlapping another             *)
(* (planRefund, assertRefundable and the caps of refundInvoicePayment).    *)
THEOREM PlanPaid == Spec => []PlanPayable
<1>1. Init => PlanInv
  BY InitOK
<1>2. IInv /\ PlanInv /\ [Next /\ UNCHANGED setup]_vars => PlanInv'
  BY PlanStep
<1>3. IInv /\ PlanInv => PlanPayable
  BY RoomIsEnough
<1> QED BY <1>1, <1>2, <1>3, Invariant, PTL DEF Spec
=============================================================================
