------------------------------ MODULE SumLemmas ------------------------------
(***************************************************************************)
(* Facts about the totals the properties compare: the sum of f[x] over the *)
(* elements x of a finite set S, SumFunctionOnSet(f, S) of the community   *)
(* modules.  Its definition folds over S in an order it does not fix.      *)
(*                                                                         *)
(* They are proved by induction over the cardinality of the set.  An       *)
(* induction is a statement about a set of numbers here: the set of those  *)
(* n for which the fact holds has no least counterexample.                 *)
(***************************************************************************)
EXTENDS Integers, FiniteSets, Functions, FiniteSetTheorems, TLAPS

\* A set of numbers with 0, and with n + 1 when it has n, has all of them.
LEMMA AllNumbers ==
  ASSUME NEW N, 0 \in N, \A n \in Nat : n \in N => n + 1 \in N
  PROVE  \A n \in Nat : n \in N
<1> SUFFICES ASSUME Nat \ N # {} PROVE FALSE
  OBVIOUS
<1>1. \E x \in Nat \ N : \A y \in Nat \ N : ~(<<y, x>> \in OpToRel(<, Nat))
  <2>1. Nat \ N \subseteq Nat
    OBVIOUS
  <2>2. QED BY <2>1, NatLessThanWellFounded, WFMin
<1>2. PICK x \in Nat \ N : \A y \in Nat \ N : ~(<<y, x>> \in OpToRel(<, Nat))
  BY <1>1
<1>3. x # 0 /\ x - 1 \in Nat /\ (x - 1) + 1 = x
  OBVIOUS
<1>4. x - 1 \notin N
  BY <1>3
<1>5. <<x - 1, x>> \in OpToRel(<, Nat)
  BY <1>3 DEF OpToRel
<1>6. QED BY <1>2, <1>3, <1>4, <1>5

-----------------------------------------------------------------------------
(* The recursion behind SumFunctionOnSet is well founded *)

\* The element a sum over T adds first.
First(T) == CHOOSE x \in T : TRUE

\* g holds the sum of f over each subset T of S.
IsSum(g, f, S) ==
  g = [T \in SUBSET S |-> IF T = {} THEN 0
                          ELSE f[First(T)] + g[T \ {First(T)}]]

LEMMA FirstIn == \A T : T # {} => First(T) \in T
  BY DEF First

LEMMA SumIsChosen ==
  ASSUME NEW f, NEW S
  PROVE  SumFunctionOnSet(f, S) = (CHOOSE g : IsSum(g, f, S))[S]
BY DEF SumFunctionOnSet, FoldFunctionOnSet, MapThenFoldSet, IsSum, First

LEMMA SmallerRest ==
  ASSUME NEW T, IsFiniteSet(T), NEW x \in T
  PROVE  /\ IsFiniteSet(T \ {x})
         /\ Cardinality(T) \in Nat /\ Cardinality(T \ {x}) \in Nat
         /\ Cardinality(T \ {x}) = Cardinality(T) - 1
BY FS_RemoveElement, FS_CardinalityType

\* There is such a function for every finite S.
LEMMA SumExists ==
  ASSUME NEW S, IsFiniteSet(S), NEW f, \A x \in S : f[x] \in Int
  PROVE  \E g \in [SUBSET S -> Int] : IsSum(g, f, S)
<1> DEFINE Step(g, T) == IF T = {} THEN 0
                         ELSE f[First(T)] + g[T \ {First(T)}]
           UpTo(g, n) == \A T \in SUBSET S : Cardinality(T) <= n =>
                                               g[T] = Step(g, T)
           N == {n \in Nat : \E g \in [SUBSET S -> Int] : UpTo(g, n)}
<1>1. ASSUME NEW T \in SUBSET S
      PROVE  /\ IsFiniteSet(T) /\ Cardinality(T) \in Nat
             /\ Cardinality(T) <= Cardinality(S)
             /\ Cardinality(T) = 0 <=> T = {}
  BY FS_Subset, FS_CardinalityType, FS_EmptySet
<1>2. ASSUME NEW T \in SUBSET S, T # {}
      PROVE  /\ First(T) \in S /\ T \ {First(T)} \in SUBSET S
             /\ Cardinality(T \ {First(T)}) = Cardinality(T) - 1
  BY <1>1, <1>2, FirstIn, SmallerRest
<1>3. 0 \in N
  <2> DEFINE g == [T \in SUBSET S |-> 0]
  <2>1. g \in [SUBSET S -> Int] /\ UpTo(g, 0)
    BY <1>1
  <2>2. QED BY <2>1
<1>4. ASSUME NEW n \in Nat, n \in N PROVE n + 1 \in N
  <2>1. PICK g \in [SUBSET S -> Int] : UpTo(g, n)
    BY <1>4
  <2> DEFINE h == [T \in SUBSET S |-> IF Cardinality(T) <= n THEN g[T]
                                                            ELSE Step(g, T)]
  <2>2. h \in [SUBSET S -> Int]
    <3>1. ASSUME NEW T \in SUBSET S PROVE Step(g, T) \in Int
      BY <1>2
    <3> HIDE DEF Step
    <3>2. QED BY <3>1
  <2>3. ASSUME NEW T \in SUBSET S, Cardinality(T) <= n + 1
        PROVE  h[T] = Step(h, T)
    <3>1. h[T] = Step(g, T)
      BY <2>1
    <3>2. CASE T = {}
      BY <3>1, <3>2
    <3>3. CASE T # {}
      <4>1. h[T \ {First(T)}] = g[T \ {First(T)}]
        BY <1>1, <1>2, <2>3, <3>3
      <4>2. QED BY <3>1, <3>3, <4>1
    <3>4. QED BY <3>2, <3>3
  <2>4. UpTo(h, n + 1)
    BY <2>3
  <2> HIDE DEF UpTo, h
  <2>5. QED BY <2>2, <2>4
<1>5. Cardinality(S) \in Nat /\ Cardinality(S) \in N
  <2> HIDE DEF N
  <2>1. QED BY <1>3, <1>4, AllNumbers, FS_CardinalityType
<1>6. PICK g \in [SUBSET S -> Int] : UpTo(g, Cardinality(S))
  BY <1>5
<1>7. \A T \in SUBSET S : g[T] = Step(g, T)
  BY <1>1, <1>6
<1>8. IsSum(g, f, S)
  BY <1>7 DEF IsSum
<1>9. QED BY <1>8

-----------------------------------------------------------------------------
(* What the total is *)

\* A sum over a part of S is the same whether the recursion starts at S or at
\* that part.
LEMMA SumUnique ==
  ASSUME NEW S, NEW R, IsFiniteSet(S), R \subseteq S,
         NEW f, NEW g, NEW h, IsSum(g, f, S), IsSum(h, f, R)
  PROVE  \A T \in SUBSET R : g[T] = h[T]
<1> DEFINE N == {n \in Nat : \A T \in SUBSET R : Cardinality(T) = n =>
                                                g[T] = h[T]}
<1>1. ASSUME NEW T \in SUBSET R
      PROVE  /\ IsFiniteSet(T) /\ Cardinality(T) \in Nat
             /\ Cardinality(T) = 0 <=> T = {}
  BY FS_Subset, FS_CardinalityType, FS_EmptySet
<1>2. ASSUME NEW T \in SUBSET R, T # {}
      PROVE  /\ g[T] = f[First(T)] + g[T \ {First(T)}]
             /\ h[T] = f[First(T)] + h[T \ {First(T)}]
             /\ T \ {First(T)} \in SUBSET R
             /\ Cardinality(T \ {First(T)}) = Cardinality(T) - 1
  <2>1. T \in SUBSET S
    OBVIOUS
  <2>2. QED BY <1>1, <1>2, <2>1, FirstIn, SmallerRest DEF IsSum
<1>3. 0 \in N
  BY <1>1 DEF IsSum
<1>4. ASSUME NEW n \in Nat, n \in N PROVE n + 1 \in N
  <2> SUFFICES ASSUME NEW T \in SUBSET R, Cardinality(T) = n + 1
               PROVE  g[T] = h[T]
    OBVIOUS
  <2>1. T # {}
    BY <1>1
  <2>2. Cardinality(T \ {First(T)}) = n /\ T \ {First(T)} \in SUBSET R
    BY <1>2, <2>1
  <2>3. QED BY <1>2, <1>4, <2>1, <2>2
<1>5. ASSUME NEW T \in SUBSET R PROVE Cardinality(T) \in N
  <2> HIDE DEF N
  <2>1. QED BY <1>1, <1>3, <1>4, <1>5, AllNumbers
<1>6. QED BY <1>1, <1>5

\* The total of nothing, and the total of a nonempty part of S.
LEMMA SumRecursion ==
  ASSUME NEW S, IsFiniteSet(S), NEW f, \A x \in S : f[x] \in Int
  PROVE  /\ SumFunctionOnSet(f, S) \in Int
         /\ SumFunctionOnSet(f, {}) = 0
         /\ S # {} => SumFunctionOnSet(f, S) =
              f[First(S)] + SumFunctionOnSet(f, S \ {First(S)})
<1> DEFINE G(R) == CHOOSE g : IsSum(g, f, R)
<1>1. ASSUME NEW R, R \subseteq S
      PROVE  \E g \in [SUBSET R -> Int] : IsSum(g, f, R)
  BY <1>1, SumExists, FS_Subset
<1>2. ASSUME NEW R, R \subseteq S
      PROVE  IsSum(G(R), f, R) /\ SumFunctionOnSet(f, R) = G(R)[R]
  BY <1>1, <1>2, SumIsChosen
<1> HIDE DEF G
<1>3. SumFunctionOnSet(f, {}) = 0
  BY <1>2 DEF IsSum
<1>4. SumFunctionOnSet(f, S) \in Int
  <2>1. PICK g \in [SUBSET S -> Int] : IsSum(g, f, S)
    BY <1>1
  <2>2. G(S)[S] = g[S]
    BY <1>2, <2>1, SumUnique
  <2>3. QED BY <1>2, <2>1, <2>2
<1>5. ASSUME S # {}
      PROVE  SumFunctionOnSet(f, S) =
               f[First(S)] + SumFunctionOnSet(f, S \ {First(S)})
  <2> DEFINE R == S \ {First(S)}
  <2>1. G(S)[S] = f[First(S)] + G(S)[R]
    BY <1>2, <1>5 DEF IsSum
  <2>2. G(S)[R] = G(R)[R]
    BY <1>2, SumUnique
  <2>3. QED BY <1>2, <2>1, <2>2
<1>6. QED BY <1>3, <1>4, <1>5

\* The order does not matter: any element can be taken out of the total.
LEMMA SumTakeOut ==
  ASSUME NEW S, IsFiniteSet(S), NEW f, \A x \in S : f[x] \in Int, NEW x \in S
  PROVE  SumFunctionOnSet(f, S) = f[x] + SumFunctionOnSet(f, S \ {x})
<1> DEFINE Sum(T) == SumFunctionOnSet(f, T)
           N == {n \in Nat : \A T \in SUBSET S, y \in S :
                   Cardinality(T) = n /\ y \in T =>
                     Sum(T) = f[y] + Sum(T \ {y})}
<1>1. ASSUME NEW T \in SUBSET S
      PROVE  /\ IsFiniteSet(T) /\ Cardinality(T) \in Nat
             /\ Cardinality(T) = 0 <=> T = {}
             /\ Sum(T) \in Int
             /\ T # {} => Sum(T) = f[First(T)] + Sum(T \ {First(T)})
  BY FS_Subset, FS_CardinalityType, FS_EmptySet, SumRecursion
<1> HIDE DEF Sum
<1>2. 0 \in N
  BY <1>1
<1>3. ASSUME NEW n \in Nat, n \in N PROVE n + 1 \in N
  <2> SUFFICES ASSUME NEW T \in SUBSET S, NEW y \in S,
                      Cardinality(T) = n + 1, y \in T
               PROVE  Sum(T) = f[y] + Sum(T \ {y})
    OBVIOUS
  <2> DEFINE c == First(T)
  <2>1. c \in T /\ Sum(T) = f[c] + Sum(T \ {c})
    BY <1>1, FirstIn
  <2> HIDE DEF c
  <2>2. CASE y = c
    BY <2>1, <2>2
  <2>3. CASE y # c
    <3> DEFINE U == T \ {c}
               V == T \ {y}
    <3>1. /\ U \in SUBSET S /\ V \in SUBSET S /\ y \in U /\ c \in V
          /\ c \in S
      BY <2>1, <2>3
    <3>2. Cardinality(U) = n /\ Cardinality(V) = n
      <4>1. ASSUME NEW z \in T PROVE Cardinality(T \ {z}) = n
        <5>1. IsFiniteSet(T)
          BY <1>1
        <5>2. Cardinality(T \ {z}) = Cardinality(T) - 1
          BY <5>1, SmallerRest
        <5>3. QED BY <5>2
      <4>2. QED BY <2>1, <4>1
    <3>3. U \ {y} = V \ {c}
      OBVIOUS
    <3>4. U \ {y} \in SUBSET S
      OBVIOUS
    <3> HIDE DEF U, V
    <3>5. Sum(U) = f[y] + Sum(U \ {y}) /\ Sum(V) = f[c] + Sum(V \ {c})
      BY <1>3, <3>1, <3>2
    <3>6. Sum(V) = f[c] + Sum(U \ {y})
      BY <3>3, <3>5, Zenon
    <3>7. Sum(U \ {y}) \in Int /\ f[y] \in Int /\ f[c] \in Int
      BY <1>1, <3>1, <3>4
    <3>8. Sum(T) = f[c] + Sum(U)
      BY <2>1 DEF U
    <3>9. Sum(T) = f[y] + Sum(V)
      BY <3>5, <3>6, <3>7, <3>8
    <3>10. QED BY <3>9 DEF V
  <2>4. QED BY <2>2, <2>3
<1>4. Cardinality(S) \in N
  <2> HIDE DEF N
  <2>1. QED BY <1>1, <1>2, <1>3, AllNumbers
<1>5. QED BY <1>4 DEF Sum

\* A new element adds its value.
LEMMA SumAdd ==
  ASSUME NEW S, IsFiniteSet(S), NEW x, x \notin S,
         NEW f, f[x] \in Int, \A y \in S : f[y] \in Int
  PROVE  SumFunctionOnSet(f, S \cup {x}) = SumFunctionOnSet(f, S) + f[x]
<1> DEFINE T == S \cup {x}
<1>1. IsFiniteSet(T) /\ x \in T /\ \A y \in T : f[y] \in Int
  BY FS_AddElement
<1>2. T \ {x} = S
  OBVIOUS
<1> HIDE DEF T
<1>3. SumFunctionOnSet(f, T) = f[x] + SumFunctionOnSet(f, T \ {x})
  BY <1>1, SumTakeOut
<1>4. SumFunctionOnSet(f, T) = f[x] + SumFunctionOnSet(f, S)
  BY <1>2, <1>3, Zenon
<1>5. SumFunctionOnSet(f, S) \in Int
  BY SumRecursion
<1>6. QED BY <1>4, <1>5 DEF T

\* The total depends on the values of f on S only, and grows with them.
LEMMA SumAtMost ==
  ASSUME NEW S, IsFiniteSet(S), NEW f, NEW g,
         \A x \in S : f[x] \in Int /\ g[x] \in Int /\ f[x] <= g[x]
  PROVE  SumFunctionOnSet(f, S) <= SumFunctionOnSet(g, S)
<1> DEFINE Sum(h, T) == SumFunctionOnSet(h, T)
           N == {n \in Nat : \A T \in SUBSET S : Cardinality(T) = n =>
                                                Sum(f, T) <= Sum(g, T)}
<1>1. ASSUME NEW T \in SUBSET S
      PROVE  /\ IsFiniteSet(T) /\ Cardinality(T) \in Nat
             /\ Cardinality(T) = 0 <=> T = {}
             /\ Sum(f, T) \in Int /\ Sum(g, T) \in Int
             /\ Sum(f, {}) = 0 /\ Sum(g, {}) = 0
  BY FS_Subset, FS_CardinalityType, FS_EmptySet, SumRecursion
<1>2. ASSUME NEW T \in SUBSET S, T # {}
      PROVE  /\ First(T) \in S /\ T \ {First(T)} \in SUBSET S
             /\ Cardinality(T \ {First(T)}) = Cardinality(T) - 1
             /\ Sum(f, T) = f[First(T)] + Sum(f, T \ {First(T)})
             /\ Sum(g, T) = g[First(T)] + Sum(g, T \ {First(T)})
  BY <1>1, <1>2, FirstIn, SmallerRest, SumRecursion
<1> HIDE DEF Sum
<1>3. 0 \in N
  BY <1>1
<1>4. ASSUME NEW n \in Nat, n \in N PROVE n + 1 \in N
  <2> SUFFICES ASSUME NEW T \in SUBSET S, Cardinality(T) = n + 1
               PROVE  Sum(f, T) <= Sum(g, T)
    OBVIOUS
  <2> DEFINE R == T \ {First(T)}
  <2>1. T # {}
    BY <1>1
  <2>2. R \in SUBSET S /\ Cardinality(R) = n /\ First(T) \in S
    BY <1>2, <2>1
  <2>3. Sum(f, T) = f[First(T)] + Sum(f, R) /\ Sum(g, T) = g[First(T)] + Sum(g, R)
    BY <1>2, <2>1
  <2> HIDE DEF R
  <2>4. Sum(f, R) <= Sum(g, R) /\ Sum(f, R) \in Int /\ Sum(g, R) \in Int
    BY <1>1, <1>4, <2>2
  <2>5. QED BY <2>2, <2>3, <2>4
<1>5. Cardinality(S) \in N
  <2> HIDE DEF N
  <2>1. QED BY <1>1, <1>3, <1>4, AllNumbers
<1>6. QED BY <1>5 DEF Sum

LEMMA SumSame ==
  ASSUME NEW S, IsFiniteSet(S), NEW f, NEW g,
         \A x \in S : f[x] \in Int /\ g[x] = f[x]
  PROVE  SumFunctionOnSet(f, S) = SumFunctionOnSet(g, S)
<1>1. /\ SumFunctionOnSet(f, S) <= SumFunctionOnSet(g, S)
      /\ SumFunctionOnSet(g, S) <= SumFunctionOnSet(f, S)
  BY SumAtMost
<1>2. SumFunctionOnSet(f, S) \in Int /\ SumFunctionOnSet(g, S) \in Int
  BY SumRecursion
<1>3. QED BY <1>1, <1>2

\* A change of one value changes the total by as much.
LEMMA SumChange ==
  ASSUME NEW S, IsFiniteSet(S), NEW f, NEW g, NEW x \in S,
         \A y \in S : f[y] \in Int,
         \A y \in S \ {x} : g[y] = f[y],
         g[x] \in Int
  PROVE  SumFunctionOnSet(g, S) = SumFunctionOnSet(f, S) - f[x] + g[x]
<1>1. \A y \in S : g[y] \in Int
  OBVIOUS
<1>2. /\ SumFunctionOnSet(f, S) = f[x] + SumFunctionOnSet(f, S \ {x})
      /\ SumFunctionOnSet(g, S) = g[x] + SumFunctionOnSet(g, S \ {x})
  BY <1>1, SumTakeOut
<1>3. IsFiniteSet(S \ {x})
  BY FS_RemoveElement
<1>4. /\ SumFunctionOnSet(f, S \ {x}) = SumFunctionOnSet(g, S \ {x})
      /\ SumFunctionOnSet(f, S \ {x}) \in Int
  BY <1>3, SumSame, SumRecursion
<1>5. QED BY <1>2, <1>4

\* A total of zeros is zero.
LEMMA SumZero ==
  ASSUME NEW S, IsFiniteSet(S), NEW f, \A x \in S : f[x] = 0
  PROVE  SumFunctionOnSet(f, S) = 0
<1> DEFINE Sum(T) == SumFunctionOnSet(f, T)
           N == {n \in Nat : \A T \in SUBSET S : Cardinality(T) = n =>
                                                Sum(T) = 0}
<1>1. \A x \in S : f[x] \in Int
  OBVIOUS
<1>2. ASSUME NEW T \in SUBSET S
      PROVE  /\ IsFiniteSet(T) /\ Cardinality(T) \in Nat
             /\ Cardinality(T) = 0 <=> T = {}
             /\ Sum({}) = 0
  BY <1>1, FS_Subset, FS_CardinalityType, FS_EmptySet, SumRecursion
<1>3. ASSUME NEW T \in SUBSET S, T # {}
      PROVE  /\ First(T) \in S /\ T \ {First(T)} \in SUBSET S
             /\ Cardinality(T \ {First(T)}) = Cardinality(T) - 1
             /\ Sum(T) = f[First(T)] + Sum(T \ {First(T)})
  BY <1>1, <1>2, <1>3, FirstIn, SmallerRest, SumRecursion
<1> HIDE DEF Sum
<1>4. 0 \in N
  BY <1>2
<1>5. ASSUME NEW n \in Nat, n \in N PROVE n + 1 \in N
  <2> SUFFICES ASSUME NEW T \in SUBSET S, Cardinality(T) = n + 1
               PROVE  Sum(T) = 0
    OBVIOUS
  <2>1. T # {}
    BY <1>2
  <2>2. Sum(T \ {First(T)}) = 0
    BY <1>5, <1>3, <2>1
  <2>3. QED BY <1>3, <2>1, <2>2
<1>6. Cardinality(S) \in N
  <2> HIDE DEF N
  <2>1. QED BY <1>2, <1>4, <1>5, AllNumbers
<1>7. QED BY <1>6 DEF Sum

\* A total of ones counts.
LEMMA SumOnes ==
  ASSUME NEW S, IsFiniteSet(S), NEW f, \A x \in S : f[x] = 1
  PROVE  SumFunctionOnSet(f, S) = Cardinality(S)
<1> DEFINE N == {n \in Nat : \A T \in SUBSET S : Cardinality(T) = n =>
                               SumFunctionOnSet(f, T) = n}
<1>1. ASSUME NEW T \in SUBSET S
      PROVE  IsFiniteSet(T) /\ Cardinality(T) \in Nat /\ (Cardinality(T) = 0 <=> T = {})
  BY FS_Subset, FS_CardinalityType, FS_EmptySet
<1>2. 0 \in N
  <2>1. SumFunctionOnSet(f, {}) = 0
    BY FS_EmptySet, SumZero
  <2> QED
    BY <1>1, <2>1
<1>3. ASSUME NEW n \in Nat, n \in N PROVE n + 1 \in N
  <2> SUFFICES ASSUME NEW T \in SUBSET S, Cardinality(T) = n + 1
               PROVE  SumFunctionOnSet(f, T) = n + 1
    OBVIOUS
  <2>1. PICK x \in T : TRUE
    BY <1>1
  <2>2. T \ {x} \in SUBSET S /\ Cardinality(T \ {x}) = n
    BY <1>1, <2>1, SmallerRest
  <2>3. SumFunctionOnSet(f, T \ {x}) = n
    BY <1>3, <2>2
  <2>4. SumFunctionOnSet(f, T) = f[x] + SumFunctionOnSet(f, T \ {x})
    <3>1. \A y \in T : f[y] \in Int
      OBVIOUS
    <3> QED
      BY <1>1, <2>1, <3>1, SumTakeOut
  <2> QED
    BY <2>1, <2>3, <2>4
<1>4. Cardinality(S) \in N
  <2> HIDE DEF N
  <2> QED
    BY <1>1, <1>2, <1>3, AllNumbers
<1> QED
  BY <1>4

\* A total of values that are not negative is not either, and not less
\* than one of them.
LEMMA SumNat ==
  ASSUME NEW S, IsFiniteSet(S), NEW f, \A x \in S : f[x] \in Nat
  PROVE  /\ SumFunctionOnSet(f, S) \in Nat
         /\ \A x \in S : f[x] <= SumFunctionOnSet(f, S)
<1>1. ASSUME NEW T, IsFiniteSet(T), T \subseteq S
      PROVE  SumFunctionOnSet(f, T) \in Nat
  <2> DEFINE z == [x \in T |-> 0]
  <2>1. \A x \in T : z[x] \in Int /\ f[x] \in Int /\ z[x] <= f[x]
    BY <1>1
  <2>2. SumFunctionOnSet(z, T) \in Int /\ SumFunctionOnSet(f, T) \in Int
    BY <1>1, <2>1, SumRecursion
  <2>3. SumFunctionOnSet(z, T) <= SumFunctionOnSet(f, T)
    BY <1>1, <2>1, SumAtMost
  <2>4. SumFunctionOnSet(z, T) = 0
    BY <1>1, SumZero
  <2>5. QED BY <2>2, <2>3, <2>4
<1>2. ASSUME NEW x \in S PROVE f[x] <= SumFunctionOnSet(f, S)
  <2>1. SumFunctionOnSet(f, S) = f[x] + SumFunctionOnSet(f, S \ {x})
    BY SumTakeOut
  <2>2. SumFunctionOnSet(f, S \ {x}) \in Nat
    BY <1>1, FS_RemoveElement
  <2>3. QED BY <2>1, <2>2
<1>3. QED BY <1>1, <1>2
=============================================================================
