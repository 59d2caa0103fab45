------------------------------- MODULE SumFacts -------------------------------
(***************************************************************************)
(* Sums over finite sets.  The totals of the models are written with the   *)
(* community operators SumFunction and SumFunctionOnSet, which fold a      *)
(* function over a set; these are the facts about them the proofs of the   *)
(* other modules rest on.  Induction over finite sets is derived from the  *)
(* library's theorem that strict inclusion of finite sets is well-founded, *)
(* for sets of sets instead of predicates, so that it can be applied.      *)
(***************************************************************************)
EXTENDS Integers, Sequences, FiniteSetsExt, Functions, FiniteSetTheorems,
        WellFoundedInduction, TLAPS

\* A set of natural numbers that is not empty has a least element.
LEMMA LeastNatural ==
    ASSUME NEW B \in SUBSET Nat, B # {}
    PROVE  \E n \in B : \A m \in B : n <= m
<1>. DEFINE T == {1..n : n \in B}
<1>1. T # {} /\ T \subseteq FiniteSubsetsOf(Nat)
  <2>1. \A n \in B : IsFiniteSet(1..n) /\ 1..n \in SUBSET Nat
    BY FS_Interval
  <2>. QED  BY <2>1 DEF FiniteSubsetsOf
<1>2. PICK x \in T : \A y \in T : ~(<<y, x>> \in StrictSubsetOrdering(Nat))
  <2>. HIDE DEF T
  <2>. QED  BY <1>1, WFMin, FS_StrictSubsetOrderingWellFounded, Zenon
<1>3. PICK n \in B : x = 1..n
    OBVIOUS
<1>4. ASSUME NEW m \in B, ~(n <= m) PROVE FALSE
  <2>1. 1..m \subseteq 1..n /\ 1..m # 1..n /\ n \in 1..n /\ ~(n \in 1..m)
    BY <1>4
  <2>2. <<1..m, 1..n>> \in StrictSubsetOrdering(Nat)
    BY <2>1 DEF StrictSubsetOrdering
  <2>. QED BY <2>2, <1>2, <1>3, <1>4
<1>. QED  BY <1>4

\* A set that holds 0 and the successor of each of its naturals holds them all.
LEMMA NaturalInduction ==
    ASSUME NEW B, 0 \in B, \A n \in Nat : n \in B => n + 1 \in B
    PROVE  Nat \subseteq B
<1>. SUFFICES ASSUME Nat \ B # {} PROVE FALSE
    OBVIOUS
<1>1. PICK n \in Nat \ B : \A m \in Nat \ B : n <= m
    BY LeastNatural
<1>2. n # 0 /\ n - 1 \in Nat /\ ~(n <= n - 1)
    BY <1>1
<1>3. n - 1 \in B
    BY <1>1, <1>2
<1>4. (n - 1) + 1 \in B
  BY <1>2, <1>3
<1>. QED  BY <1>1, <1>2, <1>4

\* A collection that holds the empty set, and with a part of the finite set S
\* also that part with one element of S more, holds S.
LEMMA FiniteInduction ==
    ASSUME NEW S, IsFiniteSet(S), NEW B, {} \in B,
           \A T \in SUBSET S, x \in S : T \in B /\ x \notin T => T \cup {x} \in B
    PROVE  S \in B
<1>. DEFINE N == {n \in Nat : \A T \in SUBSET S : Cardinality(T) = n => T \in B}
<1>1. 0 \in N
    BY FS_EmptySet, FS_Subset
<1>2. ASSUME NEW n \in Nat, n \in N PROVE n + 1 \in N
  <2>. SUFFICES ASSUME NEW T \in SUBSET S, Cardinality(T) = n + 1
                PROVE  T \in B
      OBVIOUS
  <2>1. IsFiniteSet(T) /\ T # {}
      BY FS_Subset, FS_EmptySet
  <2>2. PICK x \in T : TRUE
      BY <2>1
  <2>3. Cardinality(T \ {x}) = n
    <3>1. Cardinality(T \ {x}) = Cardinality(T) - 1
        BY <2>1, <2>2, FS_RemoveElement, Zenon
    <3>. QED  BY <3>1
  <2>4. T \ {x} \in B /\ T = (T \ {x}) \cup {x}
      BY <1>2, <2>2, <2>3
  <2>. QED  BY <2>4, <2>2
<1>3. Nat \subseteq N
  <2>. HIDE DEF N
  <2>. QED  BY <1>1, <1>2, NaturalInduction
<1>. QED  BY <1>3, FS_CardinalityType

-----------------------------------------------------------------------------
(* The step of the fold, and the functions that take it everywhere.        *)

Picked(T) == CHOOSE x \in T : TRUE
SumStep(f, g, T) == IF T = {} THEN 0 ELSE f[Picked(T)] + g[T \ {Picked(T)}]

IsSumTable(g, f, S) == g = [T \in SUBSET S |-> SumStep(f, g, T)]

\* The definition of the fold, for addition.
LEMMA SumShape ==
    ASSUME NEW f, NEW S
    PROVE SumFunctionOnSet(f, S) = (CHOOSE g : IsSumTable(g, f, S))[S]
BY DEF IsSumTable, SumFunctionOnSet, FoldFunctionOnSet, MapThenFoldSet, SumStep, Picked

\* The element the fold takes first is one of the set.
LEMMA PickedElement ==
    ASSUME NEW T, T # {}
    PROVE  Picked(T) \in T
BY DEF Picked

\* The fold recurs over the subsets of S: there is a function that does.
LEMMA SumTableExists ==
    ASSUME NEW f, NEW S, IsFiniteSet(S)
    PROVE  \E g : g = [T \in SUBSET S |-> SumStep(f, g, T)]
<1>. DEFINE Sub(n) == {T \in SUBSET S : Cardinality(T) <= n}
            N == {n \in Nat : \E g : g = [T \in Sub(n) |-> SumStep(f, g, T)]}
<1>1. 0 \in N
  <2>1. Sub(0) = {{}}
      BY FS_EmptySet, FS_Subset, FS_CardinalityType
  <2>2. [T \in Sub(0) |-> 0] = [T \in Sub(0) |-> SumStep(f, [U \in Sub(0) |-> 0], T)]
      BY <2>1 DEF SumStep
  <2>. QED  BY <2>2
<1>2. ASSUME NEW n \in Nat, n \in N PROVE n + 1 \in N
  <2>1. PICK g : g = [T \in Sub(n) |-> SumStep(f, g, T)]
      BY <1>2
  <2>. DEFINE h == [T \in Sub(n+1) |-> SumStep(f, g, T)]
  <2>2. ASSUME NEW T \in Sub(n + 1), T # {}
        PROVE  h[T \ {Picked(T)}] = g[T \ {Picked(T)}]
    <3>1. Picked(T) \in T
        BY <2>2, PickedElement
    <3>2. T \ {Picked(T)} \in Sub(n) /\ T \ {Picked(T)} \in Sub(n + 1)
      <4>1. IsFiniteSet(T) /\ Cardinality(T) \in Nat
          BY FS_Subset, FS_CardinalityType
      <4>2. Cardinality(T \ {Picked(T)}) = Cardinality(T) - 1
          BY <3>1, <4>1, FS_RemoveElement
      <4>. QED  BY <4>1, <4>2
    <3>3. g[T \ {Picked(T)}] = SumStep(f, g, T \ {Picked(T)})
        BY <2>1, <3>2
    <3>. QED  BY <3>2, <3>3
  <2>3. ASSUME NEW T \in Sub(n + 1) PROVE SumStep(f, g, T) = SumStep(f, h, T)
    <3>. HIDE DEF h, Sub
    <3>. QED  BY <2>2 DEF SumStep
  <2>4. h = [T \in Sub(n+1) |-> SumStep(f, h, T)]
      BY <2>3
  <2>5. \E k : k = [T \in Sub(n+1) |-> SumStep(f, k, T)]
    <3>. HIDE DEF h, Sub
    <3>. QED  BY <2>4
  <2>6. n + 1 \in Nat
      OBVIOUS
  <2>. QED  BY <2>5, <2>6, Zenon
<1>3. Cardinality(S) \in N
  <2>1. Nat \subseteq N
    <3>. HIDE DEF N
    <3>. QED  BY <1>1, <1>2, NaturalInduction
  <2>. QED  BY <2>1, FS_CardinalityType
<1>4. Sub(Cardinality(S)) = SUBSET S
    BY FS_Subset
<1>. QED  BY <1>3, <1>4

\* Two such functions for the same values agree, also when they recur over
\* different sets.
LEMMA SumTableUnique ==
    ASSUME NEW f, NEW h, NEW S, NEW R, IsFiniteSet(S), S \subseteq R,
           \A x \in S : f[x] = h[x],
           NEW g, IsSumTable(g, f, S),
           NEW k, IsSumTable(k, h, R)
    PROVE  g[S] = k[S]
<1>. DEFINE N == {n \in Nat : \A T \in SUBSET S : Cardinality(T) = n => g[T] = k[T]}
<1>0. \A T \in SUBSET S : g[T] = SumStep(f, g, T) /\ k[T] = SumStep(h, k, T)
    BY DEF IsSumTable
<1>1. 0 \in N
  <2>. SUFFICES ASSUME NEW T \in SUBSET S, Cardinality(T) = 0 PROVE g[T] = k[T]
      OBVIOUS
  <2>1. T = {}
      BY FS_EmptySet, FS_Subset
  <2>. QED  BY <1>0, <2>1 DEF SumStep
<1>2. ASSUME NEW n \in Nat, n \in N PROVE n + 1 \in N
  <2>0. n + 1 \in Nat
      OBVIOUS
  <2>1. ASSUME NEW T \in SUBSET S, Cardinality(T) = n + 1 PROVE g[T] = k[T]
    <3>1. T # {} /\ IsFiniteSet(T)
        BY <2>1, FS_EmptySet, FS_Subset
    <3>2. Picked(T) \in T
        BY <3>1, PickedElement
    <3>3. Cardinality(T \ {Picked(T)}) = Cardinality(T) - 1
        BY <3>1, <3>2, FS_RemoveElement, Zenon
    <3>4. Cardinality(T \ {Picked(T)}) = n /\ T \ {Picked(T)} \in SUBSET S
        BY <2>1, <3>3
    <3>5. g[T \ {Picked(T)}] = k[T \ {Picked(T)}]
        BY <1>2, <3>4, Zenon
    <3>6. g[T] = SumStep(f, g, T) /\ k[T] = SumStep(h, k, T)
        BY <1>0
    <3>7. f[Picked(T)] = h[Picked(T)]
        BY <3>2
    <3>. QED  BY <3>1, <3>5, <3>6, <3>7, Zenon DEF SumStep
  <2>. QED  BY <2>0, <2>1, Zenon
<1>3. Nat \subseteq N
  <2>. HIDE DEF N
  <2>. QED  BY <1>1, <1>2, NaturalInduction
<1>. QED  BY <1>3, FS_CardinalityType

\* The sum is what such a function gives for S.
LEMMA SumTable ==
    ASSUME NEW f, NEW S, IsFiniteSet(S)
    PROVE  \E g : /\ IsSumTable(g, f, S)
                  /\ SumFunctionOnSet(f, S) = g[S]
<1>. DEFINE g == CHOOSE g : IsSumTable(g, f, S)
<1>1. IsSumTable(g, f, S)
    BY SumTableExists DEF IsSumTable
<1>2. SumFunctionOnSet(f, S) = g[S]
    BY SumShape
<1>. HIDE DEF g
<1>. QED  BY <1>1, <1>2

\* The sum depends only on the values at the elements of the set.
LEMMA SumSame ==
    ASSUME NEW f, NEW h, NEW S, IsFiniteSet(S), \A x \in S : f[x] = h[x]
    PROVE  SumFunctionOnSet(f, S) = SumFunctionOnSet(h, S)
<1>1. PICK g : /\ IsSumTable(g, f, S)
               /\ SumFunctionOnSet(f, S) = g[S]
    BY SumTable
<1>2. PICK k : /\ IsSumTable(k, h, S)
               /\ SumFunctionOnSet(h, S) = k[S]
    BY SumTable
<1>3. g[S] = k[S]
    BY <1>1, <1>2, SumTableUnique, SMT
<1>. QED  BY <1>1, <1>2, <1>3

\* The sum of nothing is 0.
LEMMA SumEmpty ==
    ASSUME NEW f
    PROVE  SumFunctionOnSet(f, {}) = 0
<1>1. PICK g : /\ IsSumTable(g, f, {})
               /\ SumFunctionOnSet(f, {}) = g[{}]
    BY SumTable, FS_EmptySet
<1>2. g[{}] = SumStep(f, g, {})
    BY <1>1 DEF IsSumTable
<1>. QED  BY <1>1, <1>2 DEF SumStep

\* The sum is the value the fold takes first and the sum of the others.
LEMMA SumPick ==
    ASSUME NEW f, NEW S, IsFiniteSet(S), S # {}
    PROVE  SumFunctionOnSet(f, S)
              = f[Picked(S)] + SumFunctionOnSet(f, S \ {Picked(S)})
<1>1. PICK g : /\ IsSumTable(g, f, S)
               /\ SumFunctionOnSet(f, S) = g[S]
    BY SumTable
<1>. DEFINE R == S \ {Picked(S)}
<1>2. IsFiniteSet(R) /\ R \in SUBSET S
    BY FS_Subset
<1>3. PICK k : /\ IsSumTable(k, f, R)
               /\ SumFunctionOnSet(f, R) = k[R]
    BY SumTable, <1>2
<1>4. k[R] = g[R]
  <2>. HIDE DEF R
  <2>1. R \subseteq S /\ \A x \in R : f[x] = f[x]
      BY <1>2
  <2>. QED  BY <1>1, <1>2, <1>3, <2>1, SumTableUnique, SMT
<1>5. g[S] = f[Picked(S)] + g[R]
    BY <1>1 DEF SumStep, IsSumTable
<1>. QED  BY <1>1, <1>3, <1>4, <1>5

\* The sum of integers is an integer.
LEMMA SumInt ==
    ASSUME NEW S, IsFiniteSet(S), NEW f, \A x \in S : f[x] \in Int
    PROVE  SumFunctionOnSet(f, S) \in Int
<1>. DEFINE N == {n \in Nat : \A T \in SUBSET S : Cardinality(T) = n => SumFunctionOnSet(f, T) \in Int}
<1>1. 0 \in N
    BY FS_EmptySet, FS_Subset, SumEmpty
<1>2. ASSUME NEW n \in Nat, n \in N PROVE n + 1 \in N
  <2>0. n + 1 \in Nat
      OBVIOUS
  <2>1. ASSUME NEW T \in SUBSET S, Cardinality(T) = n + 1 PROVE SumFunctionOnSet(f, T) \in Int
    <3>1. T # {} /\ IsFiniteSet(T)
        BY <2>1, FS_EmptySet, FS_Subset
    <3>2. Picked(T) \in T
        BY <3>1, PickedElement
    <3>3. Cardinality(T \ {Picked(T)}) = Cardinality(T) - 1
        BY <3>1, <3>2, FS_RemoveElement, Zenon
    <3>4. Cardinality(T \ {Picked(T)}) = n /\ T \ {Picked(T)} \in SUBSET S
        BY <2>1, <3>3
    <3>5. SumFunctionOnSet(f, T \ {Picked(T)}) \in Int
        BY <1>2, <3>4, Zenon
    <3>6. f[Picked(T)] \in Int
        BY <3>2
    <3>. QED  BY <3>1, <3>5, <3>6, SumPick
  <2>. QED  BY <2>0, <2>1, Zenon
<1>3. Nat \subseteq N
  <2>. HIDE DEF N
  <2>. QED  BY <1>1, <1>2, NaturalInduction
<1>. QED  BY <1>3, FS_CardinalityType

\* Any element can be taken out of a sum.
LEMMA SumRemove ==
    ASSUME NEW S, IsFiniteSet(S), NEW f, \A x \in S : f[x] \in Int, NEW x \in S
    PROVE  SumFunctionOnSet(f, S) = f[x] + SumFunctionOnSet(f, S \ {x})
<1>. DEFINE Q(T) == \A y \in T : SumFunctionOnSet(f, T) = f[y] + SumFunctionOnSet(f, T \ {y})
            N == {n \in Nat : \A T \in SUBSET S : Cardinality(T) = n => Q(T)}
<1>1. 0 \in N
  <2>. HIDE DEF Q
  <2>1. Q({})
    BY DEF Q
  <2>. QED  BY <2>1, FS_EmptySet, FS_Subset
<1>2. ASSUME NEW n \in Nat, n \in N PROVE n + 1 \in N
  <2>0. n + 1 \in Nat
      OBVIOUS
  <2>1. ASSUME NEW T \in SUBSET S, Cardinality(T) = n + 1 PROVE Q(T)
    <3>. SUFFICES ASSUME NEW y \in T, y # Picked(T)
                  PROVE  SumFunctionOnSet(f, T) = f[y] + SumFunctionOnSet(f, T \ {y})
      <4>1. IsFiniteSet(T) /\ (Q(T) <=> \A y \in T : y = Picked(T) \/ SumFunctionOnSet(f, T) = f[y] + SumFunctionOnSet(f, T \ {y}))
          BY FS_Subset, SumPick
      <4>. QED  BY <4>1
    <3>. DEFINE p == Picked(T)
                P == T \ {p}
                Y == T \ {y}
    <3>1. T # {} /\ IsFiniteSet(T)
        BY <2>1, FS_EmptySet, FS_Subset
    <3>2. p \in T
        BY <3>1, PickedElement
    <3>3. Cardinality(P) = Cardinality(T) - 1 /\ Cardinality(Y) = Cardinality(T) - 1
        BY <3>1, <3>2, FS_RemoveElement, Zenon
    <3>4. Cardinality(P) = n /\ P \in SUBSET S /\ Cardinality(Y) = n /\ Y \in SUBSET S
        BY <2>1, <3>3
    <3>5. Q(P) /\ Q(Y)
      <4>. HIDE DEF Q
      <4>. QED  BY <1>2, <3>4, Zenon
    <3>6. p \in Y /\ y \in P
        BY <3>2
    <3>7. SumFunctionOnSet(f, T) = f[p] + SumFunctionOnSet(f, P)
        BY <3>1, SumPick
    <3>8. SumFunctionOnSet(f, P) = f[y] + SumFunctionOnSet(f, P \ {y})
        BY <3>5, <3>6
    <3>9. SumFunctionOnSet(f, Y) = f[p] + SumFunctionOnSet(f, Y \ {p})
        BY <3>5, <3>6
    <3>10. P \ {y} = Y \ {p}
        OBVIOUS
    <3>11. SumFunctionOnSet(f, Y) = f[p] + SumFunctionOnSet(f, P \ {y})
        BY <3>9, <3>10
    <3>12. f[p] \in Int /\ f[y] \in Int /\ SumFunctionOnSet(f, P \ {y}) \in Int
      <4>1. IsFiniteSet(P \ {y}) /\ P \ {y} \in SUBSET S
          BY FS_Subset
      <4>. QED  BY <3>2, <4>1, SumInt
    <3>. DEFINE a == f[p]
                b == f[y]
                c == SumFunctionOnSet(f, P \ {y})
    <3>13. SumFunctionOnSet(f, T) = a + (b + c) /\ f[y] + SumFunctionOnSet(f, Y) = b + (a + c)
        BY <3>7, <3>8, <3>11
    <3>14. a \in Int /\ b \in Int /\ c \in Int
        BY <3>12
    <3>15. a + (b + c) = b + (a + c)
      <4>. HIDE DEF a, b, c
      <4>. QED  BY <3>14
    <3>. QED  BY <3>13, <3>15, Zenon
  <2>. HIDE DEF Q
  <2>. QED  BY <2>0, <2>1, Zenon
<1>3. Nat \subseteq N
  <2>. HIDE DEF N
  <2>. QED  BY <1>1, <1>2, NaturalInduction
<1>4. Q(S)
  <2>. HIDE DEF Q
  <2>. QED  BY <1>3, FS_CardinalityType
<1>. QED  BY <1>4

\* One element more adds its value.
LEMMA SumAdd ==
    ASSUME NEW S, IsFiniteSet(S), NEW f, \A x \in S : f[x] \in Int,
           NEW T \in SUBSET S, NEW x \in S, x \notin T
    PROVE  /\ SumFunctionOnSet(f, T \cup {x}) = SumFunctionOnSet(f, T) + f[x]
           /\ SumFunctionOnSet(f, T) \in Int
<1>1. IsFiniteSet(T) /\ IsFiniteSet(T \cup {x}) /\ (T \cup {x}) \ {x} = T
    BY FS_Subset
<1>2. SumFunctionOnSet(f, T \cup {x}) = f[x] + SumFunctionOnSet(f, (T \cup {x}) \ {x})
    BY <1>1, SumRemove
<1>3. SumFunctionOnSet(f, T) \in Int
    BY <1>1, SumInt
<1>4. f[x] \in Int
    OBVIOUS
<1>5. SumFunctionOnSet(f, T \cup {x}) = f[x] + SumFunctionOnSet(f, T)
    BY <1>1, <1>2
<1>. QED  BY <1>3, <1>4, <1>5

\* A sum over a table to which a row is added, and over rows it belongs to or
\* not.
LEMMA SumAppend ==
    ASSUME NEW D, IsFiniteSet(D), NEW k, k \notin D, NEW f, NEW g,
           \A x \in D : f[x] \in Int /\ g[x] = f[x], g[k] \in Int,
           NEW S \in SUBSET D, NEW T, T = S \/ T = S \cup {k}
    PROVE  SumFunctionOnSet(g, T)
              = SumFunctionOnSet(f, S) + (IF k \in T THEN g[k] ELSE 0)
<1>1. IsFiniteSet(S)
    BY FS_Subset
<1>2. SumFunctionOnSet(g, S) = SumFunctionOnSet(f, S)
  <2>1. \A x \in S : g[x] = f[x]
      OBVIOUS
  <2>. QED  BY <1>1, <2>1, SumSame
<1>3. SumFunctionOnSet(f, S) \in Int
  <2>1. \A x \in S : f[x] \in Int
      OBVIOUS
  <2>. QED  BY <1>1, <2>1, SumInt
<1>4. CASE T = S
    BY <1>2, <1>3, <1>4
<1>5. CASE T = S \cup {k}
  <2>1. IsFiniteSet(T)
      BY <1>1, <1>5, FS_AddElement
  <2>2. \A x \in T : g[x] \in Int
      BY <1>5
  <2>3. S \in SUBSET T /\ k \in T /\ k \notin S
      BY <1>5
  <2>4. SumFunctionOnSet(g, S \cup {k}) = SumFunctionOnSet(g, S) + g[k]
      BY <2>1, <2>2, <2>3, SumAdd
  <2>. QED  BY <1>2, <1>5, <2>3, <2>4
<1>. QED  BY <1>4, <1>5

\* The sum over the rows of a table to which a row is added.
LEMMA SumAppendRow ==
    ASSUME NEW n \in Nat, NEW f, NEW g,
           \A k \in 1..n : f[k] \in Int /\ g[k] = f[k], g[n + 1] \in Int
    PROVE  SumFunctionOnSet(g, 1..(n + 1)) = SumFunctionOnSet(f, 1..n) + g[n + 1]
<1>. DEFINE D == 1..n
<1>1. IsFiniteSet(D) /\ n + 1 \notin D /\ 1..(n + 1) = D \cup {n + 1}
  <2>1. IsFiniteSet(D)
      BY FS_Interval
  <2>. QED  BY <2>1
<1>2. /\ \A k \in D : f[k] \in Int /\ g[k] = f[k]
      /\ D \in SUBSET D
    OBVIOUS
<1>3. PICK T : T = D \cup {n + 1}
    OBVIOUS
<1>4. SumFunctionOnSet(g, T)
        = SumFunctionOnSet(f, D) + (IF n + 1 \in T THEN g[n + 1] ELSE 0)
  <2>. HIDE DEF D
  <2>. QED  BY <1>1, <1>2, <1>3, SumAppend
<1>. QED  BY <1>1, <1>3, <1>4

\* The sum of one number.
LEMMA SumSingle ==
    ASSUME NEW f, NEW x, f[x] \in Int
    PROVE  SumFunctionOnSet(f, {x}) = f[x]
<1>1. IsFiniteSet({x}) /\ \A y \in {x} : f[y] \in Int
    BY FS_Singleton
<1>2. SumFunctionOnSet(f, {x}) = f[x] + SumFunctionOnSet(f, {x} \ {x})
    BY <1>1, SumRemove
<1>3. {x} \ {x} = {}
    OBVIOUS
<1>. QED  BY <1>2, <1>3, SumEmpty

\* A sum is that over a part of the set and that over the rest.
LEMMA SumUnion ==
    ASSUME NEW S, IsFiniteSet(S), NEW f, \A x \in S : f[x] \in Int,
           NEW A \in SUBSET S
    PROVE  SumFunctionOnSet(f, S)
              = SumFunctionOnSet(f, A) + SumFunctionOnSet(f, S \ A)
<1>. DEFINE Q(T) == SumFunctionOnSet(f, A \cup T)
                       = SumFunctionOnSet(f, A) + SumFunctionOnSet(f, T)
            R == S \ A
            B == {T \in SUBSET R : Q(T)}
<1>0. IsFiniteSet(R) /\ IsFiniteSet(A)
    BY FS_Subset
<1>1. Q({})
  <2>1. A \cup {} = A /\ SumFunctionOnSet(f, A) \in Int
      BY <1>0, SumInt
  <2>. QED  BY <2>1, SumEmpty
<1>2. ASSUME NEW T \in SUBSET R, NEW x \in R, Q(T), x \notin T
      PROVE  Q(T \cup {x})
  <2>1. /\ SumFunctionOnSet(f, T \cup {x}) = SumFunctionOnSet(f, T) + f[x]
        /\ SumFunctionOnSet(f, T) \in Int
      BY <1>2, SumAdd
  <2>2. /\ SumFunctionOnSet(f, (A \cup T) \cup {x}) = SumFunctionOnSet(f, A \cup T) + f[x]
        /\ SumFunctionOnSet(f, A \cup T) \in Int
      BY <1>2, SumAdd
  <2>3. A \cup (T \cup {x}) = (A \cup T) \cup {x} /\ f[x] \in Int
      OBVIOUS
  <2>4. SumFunctionOnSet(f, A) \in Int
      BY <1>0, SumInt
  <2>5. SumFunctionOnSet(f, A \cup (T \cup {x})) = SumFunctionOnSet(f, A \cup T) + f[x]
      BY <2>2, <2>3
  <2>6. SumFunctionOnSet(f, A \cup T) = SumFunctionOnSet(f, A) + SumFunctionOnSet(f, T)
      BY <1>2
  <2>. QED  BY <2>1, <2>3, <2>4, <2>5, <2>6
<1>3. R \in B
  <2>. HIDE DEF Q, R
  <2>1. {} \in B
      BY <1>1
  <2>2. \A T \in SUBSET R, x \in R : T \in B /\ x \notin T => T \cup {x} \in B
      BY <1>2
  <2>. HIDE DEF B
  <2>. QED  BY <1>0, <2>1, <2>2, FiniteInduction
<1>4. A \cup R = S
    OBVIOUS
<1>. QED  BY <1>3, <1>4

\* The sum of the sums of values is the sum of their sums.
LEMMA SumPlus ==
    ASSUME NEW S, IsFiniteSet(S), NEW f, NEW g, NEW h,
           \A x \in S : f[x] \in Int /\ g[x] \in Int /\ h[x] = f[x] + g[x]
    PROVE  SumFunctionOnSet(h, S)
              = SumFunctionOnSet(f, S) + SumFunctionOnSet(g, S)
<1>. DEFINE Q(T) == SumFunctionOnSet(h, T)
                       = SumFunctionOnSet(f, T) + SumFunctionOnSet(g, T)
            B == {T \in SUBSET S : Q(T)}
<1>1. Q({})
    BY SumEmpty
<1>2. ASSUME NEW T \in SUBSET S, NEW x \in S, Q(T), x \notin T
      PROVE  Q(T \cup {x})
  <2>1. /\ SumFunctionOnSet(f, T \cup {x}) = SumFunctionOnSet(f, T) + f[x]
        /\ SumFunctionOnSet(f, T) \in Int
      BY <1>2, SumAdd
  <2>2. /\ SumFunctionOnSet(g, T \cup {x}) = SumFunctionOnSet(g, T) + g[x]
        /\ SumFunctionOnSet(g, T) \in Int
      BY <1>2, SumAdd
  <2>3. \A y \in S : h[y] \in Int
      OBVIOUS
  <2>4. SumFunctionOnSet(h, T \cup {x}) = SumFunctionOnSet(h, T) + h[x]
      BY <1>2, <2>3, SumAdd
  <2>5. f[x] \in Int /\ g[x] \in Int /\ h[x] = f[x] + g[x]
      OBVIOUS
  <2>. QED  BY <1>2, <2>1, <2>2, <2>4, <2>5
<1>3. S \in B
  <2>. HIDE DEF Q
  <2>1. {} \in B
      BY <1>1
  <2>2. \A T \in SUBSET S, x \in S : T \in B /\ x \notin T => T \cup {x} \in B
      BY <1>2
  <2>. HIDE DEF B
  <2>. QED  BY <2>1, <2>2, FiniteInduction
<1>. QED  BY <1>3

\* No larger values, no larger sum.
LEMMA SumAtMost ==
    ASSUME NEW S, IsFiniteSet(S), NEW f, NEW g,
           \A x \in S : f[x] \in Int /\ g[x] \in Int /\ f[x] <= g[x]
    PROVE  SumFunctionOnSet(f, S) <= SumFunctionOnSet(g, S)
<1>. DEFINE Q(T) == SumFunctionOnSet(f, T) <= SumFunctionOnSet(g, T)
            B == {T \in SUBSET S : Q(T)}
<1>1. Q({})
    BY SumEmpty
<1>2. ASSUME NEW T \in SUBSET S, NEW x \in S, Q(T), x \notin T
      PROVE  Q(T \cup {x})
  <2>1. /\ SumFunctionOnSet(f, T \cup {x}) = SumFunctionOnSet(f, T) + f[x]
        /\ SumFunctionOnSet(f, T) \in Int
      BY <1>2, SumAdd
  <2>2. /\ SumFunctionOnSet(g, T \cup {x}) = SumFunctionOnSet(g, T) + g[x]
        /\ SumFunctionOnSet(g, T) \in Int
      BY <1>2, SumAdd
  <2>3. f[x] \in Int /\ g[x] \in Int /\ f[x] <= g[x]
      OBVIOUS
  <2>. QED  BY <1>2, <2>1, <2>2, <2>3
<1>3. S \in B
  <2>. HIDE DEF Q
  <2>1. {} \in B
      BY <1>1
  <2>2. \A T \in SUBSET S, x \in S : T \in B /\ x \notin T => T \cup {x} \in B
      BY <1>2
  <2>. HIDE DEF B
  <2>. QED  BY <2>1, <2>2, FiniteInduction
<1>. QED  BY <1>3

\* Zeros sum to 0.
LEMMA SumOfZeros ==
    ASSUME NEW S, IsFiniteSet(S), NEW f, \A x \in S : f[x] = 0
    PROVE  SumFunctionOnSet(f, S) = 0
<1>. DEFINE Q(T) == SumFunctionOnSet(f, T) = 0
            B == {T \in SUBSET S : Q(T)}
<1>1. Q({})
    BY SumEmpty
<1>2. ASSUME NEW T \in SUBSET S, NEW x \in S, Q(T), x \notin T
      PROVE  Q(T \cup {x})
  <2>1. SumFunctionOnSet(f, T \cup {x}) = SumFunctionOnSet(f, T) + f[x]
      BY <1>2, SumAdd
  <2>. QED  BY <1>2, <2>1
<1>3. S \in B
  <2>. HIDE DEF Q
  <2>1. {} \in B
      BY <1>1
  <2>2. \A T \in SUBSET S, x \in S : T \in B /\ x \notin T => T \cup {x} \in B
      BY <1>2
  <2>. HIDE DEF B
  <2>. QED  BY <2>1, <2>2, FiniteInduction
<1>. QED  BY <1>3

\* The sum of natural numbers is one.
LEMMA SumNat ==
    ASSUME NEW S, IsFiniteSet(S), NEW f, \A x \in S : f[x] \in Nat
    PROVE  SumFunctionOnSet(f, S) \in Nat
<1>. DEFINE g == [x \in S |-> 0]
<1>1. SumFunctionOnSet(g, S) = 0
    BY SumOfZeros
<1>2. SumFunctionOnSet(f, S) \in Int
    BY SumInt
<1>3. SumFunctionOnSet(g, S) <= SumFunctionOnSet(f, S)
  <2>1. \A x \in S : g[x] \in Int /\ f[x] \in Int /\ g[x] <= f[x]
      OBVIOUS
  <2>. HIDE DEF g
  <2>. QED  BY <2>1, SumAtMost
<1>. QED  BY <1>1, <1>2, <1>3

\* Zeros can be left out of a sum.
LEMMA SumWithoutZeros ==
    ASSUME NEW S, IsFiniteSet(S), NEW f, \A x \in S : f[x] \in Int,
           NEW A \in SUBSET S, \A x \in S \ A : f[x] = 0
    PROVE  SumFunctionOnSet(f, S) = SumFunctionOnSet(f, A)
<1>1. SumFunctionOnSet(f, S) = SumFunctionOnSet(f, A) + SumFunctionOnSet(f, S \ A)
    BY SumUnion
<1>2. IsFiniteSet(S \ A) /\ IsFiniteSet(A)
    BY FS_Subset
<1>3. SumFunctionOnSet(f, S \ A) = 0 /\ SumFunctionOnSet(f, A) \in Int
    BY <1>2, SumOfZeros, SumInt
<1>. QED  BY <1>1, <1>3

\* Fewer values, none of them larger, and all those left out natural numbers,
\* give no larger sum.
LEMMA SumShrinks ==
    ASSUME NEW S, IsFiniteSet(S), NEW R \in SUBSET S, NEW f, NEW g,
           \A x \in R : f[x] \in Int /\ f[x] <= g[x],
           \A x \in S : g[x] \in Int,
           \A x \in S \ R : g[x] >= 0
    PROVE  SumFunctionOnSet(f, R) <= SumFunctionOnSet(g, S)
<1>1. IsFiniteSet(R) /\ IsFiniteSet(S \ R)
    BY FS_Subset
<1>2. SumFunctionOnSet(f, R) <= SumFunctionOnSet(g, R)
    BY <1>1, SumAtMost
<1>3. SumFunctionOnSet(g, S \ R) \in Nat
    BY <1>1, SumNat
<1>4. SumFunctionOnSet(g, S) = SumFunctionOnSet(g, R) + SumFunctionOnSet(g, S \ R)
    BY SumUnion
<1>5. SumFunctionOnSet(f, R) \in Int /\ SumFunctionOnSet(g, R) \in Int
    BY <1>1, SumInt
<1>. QED  BY <1>2, <1>3, <1>4, <1>5

\* When one value changes, the sum changes by as much.
LEMMA SumChange ==
    ASSUME NEW S, IsFiniteSet(S), NEW f, NEW g, NEW x \in S,
           \A y \in S : f[y] \in Int, \A y \in S : g[y] \in Int,
           \A y \in S : y # x => f[y] = g[y]
    PROVE  SumFunctionOnSet(g, S) = SumFunctionOnSet(f, S) + (g[x] - f[x])
<1>1. SumFunctionOnSet(f, S) = f[x] + SumFunctionOnSet(f, S \ {x})
    BY SumRemove
<1>2. SumFunctionOnSet(g, S) = g[x] + SumFunctionOnSet(g, S \ {x})
    BY SumRemove
<1>3. IsFiniteSet(S \ {x})
    BY FS_Subset
<1>4. SumFunctionOnSet(f, S \ {x}) = SumFunctionOnSet(g, S \ {x})
    BY <1>3, SumSame
<1>5. SumFunctionOnSet(f, S \ {x}) \in Int
    BY <1>3, SumInt
<1>. QED  BY <1>1, <1>2, <1>4, <1>5

\* the elements of S that h maps to k
Group(S, h, k) == {x \in S : h[x] = k}

\* Values summed by group, and then over the groups, give their sum: h[x] is
\* the group of x, g[k] the sum of the group k.
LEMMA SumByGroup ==
    ASSUME NEW S, IsFiniteSet(S), NEW f, \A x \in S : f[x] \in Int,
           NEW K, IsFiniteSet(K), NEW h, \A x \in S : h[x] \in K,
           NEW g, \A k \in K : g[k] = SumFunctionOnSet(f, Group(S, h, k))
    PROVE  SumFunctionOnSet(f, S) = SumFunctionOnSet(g, K)
<1>. DEFINE Of(T) == {x \in S : h[x] \in T}
            Q(T) == SumFunctionOnSet(f, Of(T)) = SumFunctionOnSet(g, T)
            B == {T \in SUBSET K : Q(T)}
<1>0. \A k \in K : g[k] \in Int
  <2>. TAKE k \in K
  <2>1. Group(S, h, k) \in SUBSET S /\ IsFiniteSet(Group(S, h, k))
      BY FS_Subset DEF Group
  <2>. QED  BY <2>1, SumInt
<1>1. Q({})
  <2>1. Of({}) = {}
      OBVIOUS
  <2>. QED  BY <2>1, SumEmpty
<1>2. ASSUME NEW T \in SUBSET K, NEW k \in K, Q(T), k \notin T
      PROVE  Q(T \cup {k})
  <2>. DEFINE Z == Group(S, h, k)
              U == Of(T \cup {k})
  <2>1. Z \in SUBSET U /\ U \ Z = Of(T) /\ U \in SUBSET S
      BY <1>2 DEF Group
  <2>2. IsFiniteSet(U) /\ IsFiniteSet(Z) /\ IsFiniteSet(Of(T))
      BY <2>1, FS_Subset
  <2>3. SumFunctionOnSet(f, U) = SumFunctionOnSet(f, Z) + SumFunctionOnSet(f, U \ Z)
    <3>1. \A x \in U : f[x] \in Int
        BY <2>1
    <3>. HIDE DEF U, Z
    <3>. QED  BY <2>1, <2>2, <3>1, SumUnion
  <2>4. SumFunctionOnSet(g, T \cup {k}) = SumFunctionOnSet(g, T) + g[k]
      BY <1>0, <1>2, SumAdd
  <2>5. SumFunctionOnSet(f, Z) = g[k] /\ g[k] \in Int
      BY <1>0
  <2>6. SumFunctionOnSet(g, T) \in Int
      BY <1>0, <1>2, SumAdd
  <2>7. SumFunctionOnSet(f, U \ Z) = SumFunctionOnSet(g, T)
      BY <1>2, <2>1
  <2>8. SumFunctionOnSet(f, U) = SumFunctionOnSet(g, T \cup {k})
    <3>. HIDE DEF Z, U
    <3>. QED  BY <2>3, <2>4, <2>5, <2>6, <2>7
  <2>. QED  BY <2>8
<1>3. K \in B
  <2>. HIDE DEF Q
  <2>1. {} \in B
      BY <1>1
  <2>2. \A T \in SUBSET K, x \in K : T \in B /\ x \notin T => T \cup {x} \in B
      BY <1>2
  <2>. HIDE DEF B
  <2>. QED  BY <2>1, <2>2, FiniteInduction
<1>4. Of(K) = S
    OBVIOUS
<1>. QED  BY <1>3, <1>4

\* A sum over the elements that count, where all others have 0.
LEMMA SumFilter ==
    ASSUME NEW S, IsFiniteSet(S), NEW A \in SUBSET S, NEW f, NEW g,
           \A x \in A : f[x] \in Int /\ g[x] = f[x], \A x \in S \ A : g[x] = 0
    PROVE  /\ SumFunctionOnSet(g, S) = SumFunctionOnSet(f, A)
           /\ SumFunctionOnSet(f, A) \in Int
<1>1. IsFiniteSet(A)
    BY FS_Subset
<1>2. SumFunctionOnSet(g, A) = SumFunctionOnSet(f, A)
    BY <1>1, SumSame
<1>3. \A x \in S : g[x] \in Int
    OBVIOUS
<1>4. SumFunctionOnSet(g, S) = SumFunctionOnSet(g, A)
    BY <1>3, SumWithoutZeros
<1>5. SumFunctionOnSet(f, A) \in Int
    BY <1>1, SumInt
<1>. QED  BY <1>2, <1>4, <1>5

\* A table summed by its rows has the sum that it has by its columns: t is the
\* transposed table of f, row[x] and col[y] the sums of a row and a column.
LEMMA SumSwap ==
    ASSUME NEW S, IsFiniteSet(S), NEW T, IsFiniteSet(T),
           NEW f, \A x \in S, y \in T : f[x][y] \in Int,
           NEW row, \A x \in S : row[x] = SumFunctionOnSet(f[x], T),
           NEW t, \A x \in S, y \in T : t[y][x] = f[x][y],
           NEW col, \A y \in T : col[y] = SumFunctionOnSet(t[y], S)
    PROVE  SumFunctionOnSet(row, S) = SumFunctionOnSet(col, T)
<1>. DEFINE Upto(R) == [y \in T |-> SumFunctionOnSet(t[y], R)]
            Q(R) == SumFunctionOnSet(row, R) = SumFunctionOnSet(Upto(R), T)
            B == {R \in SUBSET S : Q(R)}
<1>1. \A x \in S : row[x] \in Int
    BY SumInt
<1>2. \A y \in T : \A x \in S : t[y][x] \in Int
    OBVIOUS
<1>3. ASSUME NEW R \in SUBSET S
      PROVE  \A y \in T : Upto(R)[y] \in Int
  <2>. TAKE y \in T
  <2>. DEFINE c == t[y]
  <2>1. IsFiniteSet(R) /\ \A x \in R : c[x] \in Int
      BY FS_Subset
  <2>2. Upto(R)[y] = SumFunctionOnSet(c, R)
      OBVIOUS
  <2>. HIDE DEF c, Upto
  <2>. QED  BY <2>1, <2>2, SumInt
<1>4. Q({})
  <2>1. \A y \in T : Upto({})[y] = 0
      BY SumEmpty
  <2>2. SumFunctionOnSet(row, {}) = 0
      BY SumEmpty
  <2>. HIDE DEF Upto
  <2>3. SumFunctionOnSet(Upto({}), T) = 0
      BY <2>1, SumOfZeros
  <2>. QED  BY <2>2, <2>3
<1>5. ASSUME NEW R \in SUBSET S, NEW x \in S, Q(R), x \notin R
      PROVE  Q(R \cup {x})
  <2>1. SumFunctionOnSet(row, R \cup {x}) = SumFunctionOnSet(row, R) + row[x]
      BY <1>1, <1>5, SumAdd
  <2>. DEFINE u == Upto(R)
              v == Upto(R \cup {x})
  <2>2. \A y \in T : u[y] \in Int
      BY <1>3
  <2>3. ASSUME NEW y \in T
        PROVE  v[y] = u[y] + f[x][y]
    <3>. DEFINE c == t[y]
    <3>1. \A z \in S : c[z] \in Int
        OBVIOUS
    <3>2. c[x] = f[x][y] /\ u[y] = SumFunctionOnSet(c, R)
          /\ v[y] = SumFunctionOnSet(c, R \cup {x})
        OBVIOUS
    <3>. HIDE DEF c, u, v
    <3>. QED  BY <1>5, <3>1, <3>2, SumAdd
  <2>4. \A y \in T : u[y] \in Int /\ f[x][y] \in Int /\ v[y] = u[y] + f[x][y]
      BY <2>2, <2>3
  <2>. DEFINE w == f[x]
  <2>. HIDE DEF u, v, w
  <2>5. SumFunctionOnSet(v, T) = SumFunctionOnSet(u, T) + SumFunctionOnSet(w, T)
    <3>1. \A y \in T : u[y] \in Int /\ w[y] \in Int /\ v[y] = u[y] + w[y]
        BY <2>4 DEF w
    <3>. QED  BY ONLY <3>1, IsFiniteSet(T), SumPlus
  <2>6. row[x] = SumFunctionOnSet(w, T)
      BY DEF w
  <2>. QED  BY <1>5, <2>1, <2>5, <2>6 DEF u, v
<1>6. S \in B
  <2>. HIDE DEF Q
  <2>1. {} \in B
      BY <1>4
  <2>2. \A R \in SUBSET S, x \in S : R \in B /\ x \notin R => R \cup {x} \in B
      BY <1>5
  <2>. HIDE DEF B
  <2>. QED  BY <2>1, <2>2, FiniteInduction
<1>7. SumFunctionOnSet(Upto(S), T) = SumFunctionOnSet(col, T)
  <2>. DEFINE u == Upto(S)
  <2>1. \A y \in T : u[y] = col[y]
      OBVIOUS
  <2>. HIDE DEF u
  <2>2. SumFunctionOnSet(u, T) = SumFunctionOnSet(col, T)
      BY <2>1, SumSame
  <2>. QED  BY <2>2 DEF u
<1>. QED  BY <1>6, <1>7

-----------------------------------------------------------------------------
(* The greatest of a set of numbers, and tables that rows are added to.    *)

\* A finite set of numbers has a greatest.
LEMMA MaxOfSet ==
    ASSUME NEW S, IsFiniteSet(S), S \subseteq Nat, S # {}
    PROVE  Max(S) \in S /\ \A y \in S : y <= Max(S)
<1>. DEFINE B == {P \in SUBSET S : P = {} \/ \E x \in P : \A y \in P : x >= y}
<1>1. {} \in B
    OBVIOUS
<1>2. ASSUME NEW P \in SUBSET S, NEW x \in S, P \in B, x \notin P
      PROVE  P \cup {x} \in B
  <2>1. CASE P = {}
      BY <2>1
  <2>2. CASE P # {}
    <3>1. PICK z \in P : \A y \in P : z >= y
        BY <1>2, <2>2
    <3>2. CASE x <= z
        BY <3>1, <3>2
    <3>3. CASE ~(x <= z)
        BY <3>1, <3>3
    <3>. QED  BY <3>2, <3>3
  <2>. QED  BY <2>1, <2>2
<1>3. S \in B
  <2>. HIDE DEF B
  <2>. QED  BY <1>1, <1>2, FiniteInduction
<1>. QED  BY <1>3 DEF Max

\* What holds of the empty set, and of a set when it holds of the set without
\* its greatest number, holds of all finite sets of numbers.
LEMMA MaxInduction ==
    ASSUME NEW S, IsFiniteSet(S), S \subseteq Nat, NEW B, {} \in B,
           \A P \in SUBSET S : P # {} /\ P \ {Max(P)} \in B => P \in B
    PROVE  SUBSET S \subseteq B
<1>. DEFINE N == {n \in Nat : \A P \in SUBSET S : Cardinality(P) = n => P \in B}
<1>1. 0 \in N
    BY FS_EmptySet, FS_Subset
<1>2. ASSUME NEW n \in Nat, n \in N PROVE n + 1 \in N
  <2>1. ASSUME NEW P \in SUBSET S, Cardinality(P) = n + 1
        PROVE  P \in B
    <3>0. Cardinality(P) # 0
        BY <2>1
    <3>1. IsFiniteSet(P) /\ P # {}
        BY <3>0, FS_EmptySet, FS_Subset
    <3>2. Max(P) \in P
        BY <3>1, MaxOfSet
    <3>3. Cardinality(P \ {Max(P)}) = Cardinality(P) - 1
        BY <3>1, <3>2, FS_RemoveElement
    <3>4. Cardinality(P \ {Max(P)}) = n
        BY <2>1, <3>3
    <3>. QED  BY <1>2, <3>1, <3>4
  <2>. QED  BY <2>1
<1>3. Nat \subseteq N
  <2>. HIDE DEF N
  <2>. QED  BY <1>1, <1>2, NaturalInduction
<1>4. ASSUME NEW P \in SUBSET S PROVE P \in B
  <2>1. Cardinality(P) \in Nat
      BY FS_Subset, FS_CardinalityType
  <2>. QED  BY <1>3, <2>1
<1>. QED  BY <1>4

\* A table with a row exchanged is a table of the same length.
LEMMA RowChanged ==
    ASSUME NEW X, NEW q \in Seq(X), NEW i \in DOMAIN q, NEW e \in X
    PROVE  /\ [q EXCEPT ![i] = e] \in Seq(X)
           /\ DOMAIN [q EXCEPT ![i] = e] = DOMAIN q
           /\ Len([q EXCEPT ![i] = e]) = Len(q)
OBVIOUS

\* The rows of a table are numbered from 1 and have its type.
LEMMA TableRows ==
    ASSUME NEW X, NEW q \in Seq(X)
    PROVE  /\ Len(q) \in Nat
           /\ DOMAIN q = 1..Len(q)
           /\ DOMAIN q \subseteq Nat \ {0}
           /\ IsFiniteSet(DOMAIN q)
           /\ \A i \in DOMAIN q : q[i] \in X
<1>1. Len(q) \in Nat /\ DOMAIN q = 1..Len(q) /\ \A i \in DOMAIN q : q[i] \in X
    OBVIOUS
<1>2. IsFiniteSet(1..Len(q))
    BY <1>1, FS_Interval
<1>. QED  BY <1>1, <1>2

\* Equal intervals are equally long.
LEMMA IntervalLength ==
    ASSUME NEW m \in Nat, NEW n \in Nat, 1..m = 1..n
    PROVE  m = n
<1>1. m \in 1..m \/ m = 0
    OBVIOUS
<1>2. n \in 1..n \/ n = 0
    OBVIOUS
<1>. QED  BY <1>1, <1>2

\* Tables with the same rows are of the same length.
LEMMA SameLength ==
    ASSUME NEW X, NEW p \in Seq(X), NEW q \in Seq(X), DOMAIN p = DOMAIN q
    PROVE  Len(p) = Len(q)
<1>1. /\ DOMAIN p = 1..Len(p) /\ Len(p) \in Nat
      /\ DOMAIN q = 1..Len(q) /\ Len(q) \in Nat
    BY TableRows
<1>. QED  BY ONLY <1>1, DOMAIN p = DOMAIN q, IntervalLength

\* A row more in a table.
LEMMA RowAdded ==
    ASSUME NEW X, NEW q \in Seq(X), NEW e
    PROVE  /\ DOMAIN Append(q, e) = DOMAIN q \cup {Len(q) + 1}
           /\ Len(q) + 1 \notin DOMAIN q
           /\ Len(Append(q, e)) = Len(q) + 1
           /\ Append(q, e)[Len(q) + 1] = e
           /\ \A i \in DOMAIN q : Append(q, e)[i] = q[i]
OBVIOUS

\* A sum with at most one element more, which is at most v, grows by no more.
LEMMA SumOneMore ==
    ASSUME NEW S, IsFiniteSet(S), NEW x, NEW R, R \subseteq S \cup {x},
           NEW f, NEW g, NEW v \in Nat,
           \A y \in R : f[y] \in Nat, \A y \in S : g[y] \in Nat,
           \A y \in R : y \in S => f[y] = g[y],
           x \in R => x \in S \/ f[x] <= v
    PROVE  SumFunctionOnSet(f, R) <= SumFunctionOnSet(g, S) + v
<1>1. IsFiniteSet(S \cup {x})
    BY FS_AddElement
<1>2. IsFiniteSet(R)
    BY <1>1, FS_Subset
<1>3. \A y \in R : f[y] \in Int
    OBVIOUS
<1>. DEFINE T == R \cap S
<1>4. T \in SUBSET R /\ T \in SUBSET S /\ IsFiniteSet(T)
    BY FS_Subset
<1>5. SumFunctionOnSet(f, T) <= SumFunctionOnSet(g, S)
  <2>1. /\ \A y \in T : f[y] \in Int /\ f[y] <= g[y]
        /\ \A y \in S : g[y] \in Int
        /\ \A y \in S \ T : g[y] >= 0
      OBVIOUS
  <2>. HIDE DEF T
  <2>. QED  BY ONLY <1>4, <2>1, IsFiniteSet(S), SumShrinks
<1>6. SumFunctionOnSet(f, T) \in Int /\ SumFunctionOnSet(g, S) \in Int
  <2>1. \A y \in T : f[y] \in Int
      OBVIOUS
  <2>2. \A y \in S : g[y] \in Int
      OBVIOUS
  <2>. QED  BY <1>4, <2>1, <2>2, SumInt
<1>7. CASE R = T
  <2>. HIDE DEF T
  <2>. QED  BY <1>5, <1>6, <1>7
<1>8. CASE R # T
  <2>1. x \in R /\ R \ {x} = T /\ x \notin S
      BY <1>8
  <2>. HIDE DEF T
  <2>2. SumFunctionOnSet(f, R) = f[x] + SumFunctionOnSet(f, T)
      BY <1>2, <1>3, <2>1, SumRemove
  <2>3. f[x] \in Nat /\ f[x] <= v
      BY <2>1
  <2>. QED  BY <1>5, <1>6, <2>2, <2>3
<1>. QED  BY <1>7, <1>8
===============================================================================
