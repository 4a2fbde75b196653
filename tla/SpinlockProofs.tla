---------------------------- MODULE SpinlockProofs ----------------------------
(***************************************************************************)
(* Theorems about the spinlock (module Spinlock), for any depth of nested  *)
(* interrupt handlers and any number of holds of each.  The first part has *)
(* lemmas about sums over a finite set, SumFunctionOnSet of the community  *)
(* module Functions, with which the properties add up what each level      *)
(* holds.                                                                  *)
(*                                                                         *)
(* The sum is a recursive function on the subsets of the set, that takes   *)
(* out one chosen element after the other.  That the function exists, and  *)
(* that the order of the elements does not matter, are proved by the least *)
(* counterexample, with the well-foundedness of the natural numbers.       *)
(***************************************************************************)
EXTENDS Spinlock, FiniteSets, FiniteSetTheorems, WellFoundedInduction, TLAPS

-------------------------------------------------------------------------------
(* Induction: a set of natural numbers that is not empty has a least one.  *)
Less == {ss \in Nat \X Nat : ss[1] < ss[2]}

LEMMA LeastNatural ==
  ASSUME NEW T \in SUBSET Nat, T # {}
  PROVE  \E n \in T : \A m \in T : n =< m
<1>1. IsWellFoundedOn(Less, Nat)
  BY NatLessThanWellFounded, Zenon DEF OpToRel, Less
<1>2. PICK n \in T : \A m \in T : ~(<<m, n>> \in Less)
  BY <1>1, WFMin
<1>3. \A m \in T : ~(m < n)
  BY <1>2 DEF Less
<1>4. QED
  BY <1>3

LEMMA InductionOverSet ==
  ASSUME NEW T \in SUBSET Nat, 0 \in T, \A n \in Nat : n \in T => n + 1 \in T
  PROVE  T = Nat
<1> SUFFICES ASSUME Nat \ T # {} PROVE FALSE
  OBVIOUS
<1>1. PICK n \in Nat \ T : \A m \in Nat \ T : n =< m
  BY LeastNatural
<1>2. n - 1 \in Nat /\ n - 1 \in T
  BY <1>1
<1>3. QED
  BY <1>1, <1>2

-------------------------------------------------------------------------------
(* The function on the subsets of S that the fold computes.                *)
TakenFrom(s) == CHOOSE x \in s : TRUE

IsSum(iter, f, S) ==
  iter = [s \in SUBSET S |-> IF s = {} THEN 0
                             ELSE f[TakenFrom(s)] + iter[s \ {TakenFrom(s)}]]

LEMMA SumIsFold ==
  ASSUME NEW f, NEW S
  PROVE  SumFunctionOnSet(f, S) = (CHOOSE iter : IsSum(iter, f, S))[S]
BY DEF SumFunctionOnSet, FoldFunctionOnSet, MapThenFoldSet, IsSum, TakenFrom

LEMMA TakenIn == ASSUME NEW s, s # {} PROVE TakenFrom(s) \in s
BY DEF TakenFrom

(* As much of it as the subsets of at most n elements need.                *)
AtMost(S, n) == {s \in SUBSET S : Cardinality(s) =< n}
Equation(iter, f, s) ==
  iter[s] = IF s = {} THEN 0 ELSE f[TakenFrom(s)] + iter[s \ {TakenFrom(s)}]

LEMMA OneLess ==
  ASSUME NEW S, IsFiniteSet(S), NEW s \in SUBSET S, s # {}
  PROVE  /\ IsFiniteSet(s) /\ Cardinality(s) \in Nat \ {0}
         /\ s \ {TakenFrom(s)} \in SUBSET S
         /\ IsFiniteSet(s \ {TakenFrom(s)})
         /\ Cardinality(s \ {TakenFrom(s)}) = Cardinality(s) - 1
<1>1. IsFiniteSet(s)
  BY FS_Subset
<1>2. Cardinality(s) \in Nat /\ Cardinality(s) # 0
  BY <1>1, FS_CardinalityType, FS_EmptySet
<1>3. QED
  BY <1>1, <1>2, TakenIn, FS_RemoveElement

LEMMA PartExists ==
  ASSUME NEW f, NEW S, IsFiniteSet(S)
  PROVE  \A n \in Nat : \E iter : \A s \in AtMost(S, n) : Equation(iter, f, s)
<1> DEFINE T == {n \in Nat : \E iter : \A s \in AtMost(S, n) : Equation(iter, f, s)}
<1>1. 0 \in T
  <2> DEFINE iter == [s \in SUBSET S |-> 0]
  <2>1. ASSUME NEW s \in AtMost(S, 0) PROVE s = {}
    <3>1. s \in SUBSET S /\ Cardinality(s) =< 0
      BY <2>1 DEF AtMost
    <3>2. s # {} => Cardinality(s) \in Nat \ {0}
      BY <3>1, OneLess
    <3>3. QED
      BY <3>1, <3>2
  <2>2. ASSUME NEW s \in AtMost(S, 0) PROVE Equation(iter, f, s)
    BY <2>1, <2>2 DEF Equation, AtMost
  <2>3. QED
    BY <2>2
<1>2. ASSUME NEW n \in Nat, n \in T PROVE n + 1 \in T
  <2>1. PICK iter : \A s \in AtMost(S, n) : Equation(iter, f, s)
    BY <1>2
  <2> DEFINE more == [s \in AtMost(S, n + 1) |-> IF s = {} THEN 0
                        ELSE f[TakenFrom(s)] + iter[s \ {TakenFrom(s)}]]
  <2>2. ASSUME NEW s \in AtMost(S, n + 1) PROVE Equation(more, f, s)
    <3>1. CASE s = {}
      BY <2>2, <3>1 DEF Equation
    <3>2. CASE s # {}
      <4> DEFINE t == s \ {TakenFrom(s)}
      <4>1. t \in AtMost(S, n) /\ t \in AtMost(S, n + 1)
        BY <2>2, <3>2, OneLess DEF AtMost
      <4>2. Equation(iter, f, t)
        BY <2>1, <4>1
      <4>3. more[t] = iter[t]
        BY <4>1, <4>2 DEF Equation
      <4>4. more[s] = f[TakenFrom(s)] + iter[t]
        BY <3>2
      <4>5. QED
        BY <3>2, <4>3, <4>4 DEF Equation
    <3>3. QED
      BY <3>1, <3>2
  <2> HIDE DEF more
  <2>3. QED
    BY <2>2
<1> HIDE DEF T
<1>3. T \in SUBSET Nat
  BY DEF T
<1>4. T = Nat
  BY <1>1, <1>2, <1>3, InductionOverSet
<1>5. QED
  BY <1>4 DEF T

LEMMA SumExists ==
  ASSUME NEW f, NEW S, IsFiniteSet(S)
  PROVE  \E iter : IsSum(iter, f, S)
<1>1. Cardinality(S) \in Nat
  BY FS_CardinalityType
<1>2. PICK part : \A s \in AtMost(S, Cardinality(S)) : Equation(part, f, s)
  BY <1>1, PartExists
<1>3. AtMost(S, Cardinality(S)) = SUBSET S
  BY FS_Subset DEF AtMost
<1> DEFINE iter == [s \in SUBSET S |-> part[s]]
<1>4. ASSUME NEW s \in SUBSET S
      PROVE  iter[s] = IF s = {} THEN 0 ELSE f[TakenFrom(s)] + iter[s \ {TakenFrom(s)}]
  <2>1. s \ {TakenFrom(s)} \in SUBSET S
    OBVIOUS
  <2>2. QED
    BY <1>2, <1>3, <2>1 DEF Equation
<1>5. iter = [s \in SUBSET S |-> IF s = {} THEN 0
                                 ELSE f[TakenFrom(s)] + iter[s \ {TakenFrom(s)}]]
  <2> DEFINE rhs == [s \in SUBSET S |-> IF s = {} THEN 0
                                 ELSE f[TakenFrom(s)] + iter[s \ {TakenFrom(s)}]]
  <2>1. \A s \in SUBSET S : iter[s] = rhs[s]
    BY <1>4
  <2>2. QED
    BY <2>1
<1>6. QED
  BY <1>5 DEF IsSum

-------------------------------------------------------------------------------
(* Two such functions, on the subsets of different sets, agree wherever    *)
(* both are defined.                                                       *)
LEMMA SumUnique ==
  ASSUME NEW f, NEW S, NEW T, IsFiniteSet(S), IsFiniteSet(T),
         NEW i, IsSum(i, f, S), NEW j, IsSum(j, f, T),
         NEW U, U \subseteq S, U \subseteq T
  PROVE  i[U] = j[U]
<1> DEFINE Bad == {n \in Nat : \E s \in SUBSET U : Cardinality(s) = n /\ i[s] # j[s]}
<1>1. ASSUME NEW n \in Bad PROVE \E m \in Bad : m < n
  <2>1. PICK s \in SUBSET U : Cardinality(s) = n /\ i[s] # j[s]
    OBVIOUS
  <2>2. s \in SUBSET S /\ s \in SUBSET T
    BY <2>1
  <2>3. i[s] = (IF s = {} THEN 0 ELSE f[TakenFrom(s)] + i[s \ {TakenFrom(s)}])
    BY <2>2 DEF IsSum
  <2>4. j[s] = (IF s = {} THEN 0 ELSE f[TakenFrom(s)] + j[s \ {TakenFrom(s)}])
    BY <2>2 DEF IsSum
  <2>5. s # {} /\ i[s \ {TakenFrom(s)}] # j[s \ {TakenFrom(s)}]
    BY <2>1, <2>3, <2>4
  <2>6. /\ s \ {TakenFrom(s)} \in SUBSET U
        /\ Cardinality(s) \in Nat \ {0}
        /\ Cardinality(s \ {TakenFrom(s)}) = Cardinality(s) - 1
    BY <2>1, <2>2, <2>5, OneLess
  <2>7. n - 1 \in Bad
    BY <2>1, <2>5, <2>6
  <2>8. QED
    BY <2>7
<1>2. Bad = {}
  <2> HIDE DEF Bad
  <2>1. Bad \in SUBSET Nat
    BY DEF Bad
  <2>2. SUFFICES ASSUME Bad # {} PROVE FALSE
    OBVIOUS
  <2>3. PICK n \in Bad : \A m \in Bad : n =< m
    BY <2>1, <2>2, LeastNatural
  <2>4. PICK m \in Bad : m < n
    BY <1>1
  <2>5. QED
    BY <2>1, <2>3, <2>4
<1>3. IsFiniteSet(U) /\ Cardinality(U) \in Nat
  BY FS_Subset, FS_CardinalityType
<1>4. QED
  BY <1>2, <1>3

(* What the sum of a finite set is: 0, or one element and the sum of the   *)
(* others.                                                                 *)
LEMMA SumUnfolds ==
  ASSUME NEW f, NEW S, IsFiniteSet(S)
  PROVE  SumFunctionOnSet(f, S) =
           IF S = {} THEN 0
           ELSE f[TakenFrom(S)] + SumFunctionOnSet(f, S \ {TakenFrom(S)})
<1> DEFINE R == S \ {TakenFrom(S)}
           i == CHOOSE iter : IsSum(iter, f, S)
           j == CHOOSE iter : IsSum(iter, f, R)
<1>1. IsFiniteSet(R)
  BY FS_Subset
<1>2. IsSum(i, f, S)
  BY SumExists
<1>3. IsSum(j, f, R)
  BY <1>1, SumExists
<1>4. SumFunctionOnSet(f, S) = i[S] /\ SumFunctionOnSet(f, R) = j[R]
  BY SumIsFold
<1> HIDE DEF i, j
<1>5. i[R] = j[R]
  BY <1>1, <1>2, <1>3, SumUnique
<1>6. i[S] = IF S = {} THEN 0 ELSE f[TakenFrom(S)] + i[R]
  BY <1>2 DEF IsSum
<1>7. QED
  BY <1>4, <1>5, <1>6

LEMMA SumOfNone == ASSUME NEW f PROVE SumFunctionOnSet(f, {}) = 0
BY SumUnfolds, FS_EmptySet

-------------------------------------------------------------------------------
(* The sum of integers is an integer, and any element may be taken out     *)
(* first.                                                                  *)
Order(f, S) ==
  /\ SumFunctionOnSet(f, S) \in Int
  /\ \A x \in S : SumFunctionOnSet(f, S) = f[x] + SumFunctionOnSet(f, S \ {x})

LEMMA SumOrder ==
  ASSUME NEW f, NEW S, IsFiniteSet(S), \A x \in S : f[x] \in Int
  PROVE  Order(f, S)
<1> DEFINE Bad == {n \in Nat : \E s \in SUBSET S : Cardinality(s) = n /\ ~Order(f, s)}
<1>1. ASSUME NEW n \in Bad, \A m \in Bad : n =< m PROVE FALSE
  <2>1. PICK s \in SUBSET S : Cardinality(s) = n /\ ~Order(f, s)
    OBVIOUS
  <2>2. IsFiniteSet(s)
    BY FS_Subset
  <2>3. ASSUME NEW t \in SUBSET s, t # s PROVE Order(f, t)
    <3>1. IsFiniteSet(t) /\ Cardinality(t) \in Nat /\ Cardinality(s) \in Nat
          /\ Cardinality(t) =< Cardinality(s) /\ Cardinality(t) # Cardinality(s)
      BY <2>2, <2>3, FS_Subset, FS_CardinalityType
    <3>2. Cardinality(t) \notin Bad
      BY <1>1, <2>1, <3>1
    <3>3. QED
      BY <3>1, <3>2
  <2>4. s # {}
    <3>1. Order(f, {})
      BY SumOfNone DEF Order
    <3>2. QED
      BY <2>1, <3>1
  <2> DEFINE y == TakenFrom(s)
  <2>5. y \in s /\ SumFunctionOnSet(f, s) = f[y] + SumFunctionOnSet(f, s \ {y})
    BY <2>2, <2>4, SumUnfolds, TakenIn
  <2> HIDE DEF y
  <2>6. Order(f, s \ {y})
    BY <2>3, <2>5
  <2>7. SumFunctionOnSet(f, s) \in Int
    BY <2>5, <2>6 DEF Order
  <2>8. ASSUME NEW x \in s
        PROVE  SumFunctionOnSet(f, s) = f[x] + SumFunctionOnSet(f, s \ {x})
    <3>1. CASE x = y
      BY <2>5, <3>1
    <3>2. CASE x # y
      <4>1. SumFunctionOnSet(f, s \ {y}) = f[x] + SumFunctionOnSet(f, (s \ {y}) \ {x})
        BY <2>6, <2>8, <3>2 DEF Order
      <4>2. Order(f, s \ {x})
        BY <2>3
      <4>3. SumFunctionOnSet(f, s \ {x}) = f[y] + SumFunctionOnSet(f, (s \ {x}) \ {y})
        BY <2>5, <3>2, <4>2 DEF Order
      <4>4. (s \ {x}) \ {y} = (s \ {y}) \ {x}
        OBVIOUS
      <4>5. Order(f, (s \ {x}) \ {y})
        BY <2>3
      <4>6. SumFunctionOnSet(f, (s \ {x}) \ {y}) \in Int /\ f[x] \in Int /\ f[y] \in Int
        BY <2>5, <2>8, <4>5 DEF Order
      <4>7. PICK c \in Int : c = SumFunctionOnSet(f, (s \ {x}) \ {y})
        BY <4>6
      <4>8. SumFunctionOnSet(f, s \ {y}) = f[x] + c
        BY <4>1, <4>4, <4>7
      <4>9. SumFunctionOnSet(f, s) = f[y] + (f[x] + c) /\ SumFunctionOnSet(f, s \ {x}) = f[y] + c
        BY <2>5, <4>3, <4>7, <4>8
      <4>10. QED
        BY <4>6, <4>7, <4>9
    <3>3. QED
      BY <3>1, <3>2
  <2>9. QED
    BY <2>1, <2>7, <2>8 DEF Order
<1>2. Bad = {}
  <2> HIDE DEF Bad
  <2>1. Bad \in SUBSET Nat
    BY DEF Bad
  <2>2. QED
    BY <1>1, <2>1, LeastNatural
<1>3. Cardinality(S) \in Nat
  BY FS_CardinalityType
<1>4. QED
  BY <1>2, <1>3

-------------------------------------------------------------------------------
(* The facts for use elsewhere.                                            *)

(* The sum over S with one element more.                                   *)
LEMMA SumWith ==
  ASSUME NEW f, NEW S, IsFiniteSet(S), NEW x, x \notin S,
         \A y \in S \union {x} : f[y] \in Int
  PROVE  /\ SumFunctionOnSet(f, S) \in Int
         /\ SumFunctionOnSet(f, S \union {x}) = SumFunctionOnSet(f, S) + f[x]
<1>1. IsFiniteSet(S \union {x})
  BY FS_AddElement
<1>2. Order(f, S \union {x}) /\ Order(f, S)
  BY <1>1, SumOrder
<1>3. (S \union {x}) \ {x} = S
  OBVIOUS
<1>4. SumFunctionOnSet(f, S \union {x}) = f[x] + SumFunctionOnSet(f, S)
  BY <1>2, <1>3 DEF Order
<1>5. SumFunctionOnSet(f, S) \in Int /\ f[x] \in Int
  BY <1>2 DEF Order
<1>6. QED
  BY <1>4, <1>5

(* Functions with the same values have the same sum.                       *)
LEMMA SumOfSame ==
  ASSUME NEW f, NEW g, NEW S, IsFiniteSet(S), \A x \in S : f[x] = g[x]
  PROVE  SumFunctionOnSet(f, S) = SumFunctionOnSet(g, S)
<1> DEFINE Bad == {n \in Nat : \E s \in SUBSET S : /\ Cardinality(s) = n
                      /\ SumFunctionOnSet(f, s) # SumFunctionOnSet(g, s)}
<1>1. ASSUME NEW n \in Bad PROVE \E m \in Bad : m < n
  <2>1. PICK s \in SUBSET S : /\ Cardinality(s) = n
                              /\ SumFunctionOnSet(f, s) # SumFunctionOnSet(g, s)
    OBVIOUS
  <2>2. IsFiniteSet(s)
    BY FS_Subset
  <2>3. s # {}
    BY <2>1, SumOfNone
  <2> DEFINE r == s \ {TakenFrom(s)}
  <2>4. /\ SumFunctionOnSet(f, s) = f[TakenFrom(s)] + SumFunctionOnSet(f, r)
        /\ SumFunctionOnSet(g, s) = g[TakenFrom(s)] + SumFunctionOnSet(g, r)
    BY <2>2, <2>3, SumUnfolds
  <2>5. TakenFrom(s) \in S
    BY <2>1, <2>3, TakenIn
  <2>6. SumFunctionOnSet(f, r) # SumFunctionOnSet(g, r)
    BY <2>1, <2>4, <2>5
  <2>7. r \in SUBSET S /\ Cardinality(s) \in Nat \ {0} /\ Cardinality(r) = Cardinality(s) - 1
    BY <2>1, <2>3, OneLess
  <2>8. n - 1 \in Bad
    BY <2>1, <2>6, <2>7
  <2>9. QED
    BY <2>8
<1>2. Bad = {}
  <2> HIDE DEF Bad
  <2>1. Bad \in SUBSET Nat
    BY DEF Bad
  <2>2. SUFFICES ASSUME Bad # {} PROVE FALSE
    OBVIOUS
  <2>3. PICK n \in Bad : \A m \in Bad : n =< m
    BY <2>1, <2>2, LeastNatural
  <2>4. PICK m \in Bad : m < n
    BY <1>1
  <2>5. QED
    BY <2>1, <2>3, <2>4
<1>3. Cardinality(S) \in Nat
  BY FS_CardinalityType
<1>4. QED
  BY <1>2, <1>3

(* A change at one element changes the sum by as much.                     *)
LEMMA SumOfChange ==
  ASSUME NEW f, NEW g, NEW S, IsFiniteSet(S), NEW x \in S,
         \A y \in S : f[y] \in Int /\ g[y] \in Int,
         \A y \in S \ {x} : f[y] = g[y]
  PROVE  /\ SumFunctionOnSet(f, S) \in Int
         /\ SumFunctionOnSet(g, S) = SumFunctionOnSet(f, S) - f[x] + g[x]
<1>1. IsFiniteSet(S \ {x})
  BY FS_RemoveElement
<1>2. SumFunctionOnSet(f, S \ {x}) = SumFunctionOnSet(g, S \ {x})
  BY <1>1, SumOfSame
<1>3. Order(f, S) /\ Order(g, S) /\ Order(f, S \ {x})
  BY <1>1, SumOrder
<1>4. PICK c \in Int : c = SumFunctionOnSet(f, S \ {x})
  BY <1>3 DEF Order
<1>5. SumFunctionOnSet(f, S) = f[x] + c /\ SumFunctionOnSet(g, S) = g[x] + c
  BY <1>2, <1>3, <1>4 DEF Order
<1>6. QED
  BY <1>4, <1>5

(* A sum of natural numbers is one, is at least as large as each of them,  *)
(* and is at most the bound of them times their number.                    *)
LEMMA SumBounds ==
  ASSUME NEW S, IsFiniteSet(S), NEW b \in Nat, NEW f, \A x \in S : f[x] \in 0 .. b
  PROVE  /\ SumFunctionOnSet(f, S) \in 0 .. (b * Cardinality(S))
         /\ \A x \in S : f[x] =< SumFunctionOnSet(f, S)
<1> DEFINE In(s) == SumFunctionOnSet(f, s) \in 0 .. (b * Cardinality(s))
           Bad == {n \in Nat : \E s \in SUBSET S : Cardinality(s) = n /\ ~In(s)}
<1>1. ASSUME NEW n \in Bad PROVE \E m \in Bad : m < n
  <2>1. PICK s \in SUBSET S : Cardinality(s) = n /\ ~In(s)
    OBVIOUS
  <2>2. IsFiniteSet(s)
    BY FS_Subset
  <2>3. s # {}
    <3>1. 0 \in 0 .. (b * 0)
      OBVIOUS
    <3>2. In({})
      BY <3>1, SumOfNone, FS_EmptySet
    <3>3. QED
      BY <2>1, <3>2
  <2> DEFINE r == s \ {TakenFrom(s)}
  <2>4. SumFunctionOnSet(f, s) = f[TakenFrom(s)] + SumFunctionOnSet(f, r)
    BY <2>2, <2>3, SumUnfolds
  <2>5. f[TakenFrom(s)] \in 0 .. b
    BY <2>1, <2>3, TakenIn
  <2>6. r \in SUBSET S /\ Cardinality(s) \in Nat \ {0} /\ Cardinality(r) = Cardinality(s) - 1
    BY <2>1, <2>3, OneLess
  <2>7. ~In(r)
    <3>1. SUFFICES ASSUME In(r) PROVE In(s)
      BY <2>1
    <3>2. PICK k \in Nat : Cardinality(r) = k /\ Cardinality(s) = k + 1
      BY <2>6
    <3>3. b * (k + 1) = b * k + b /\ b * k \in Nat
      BY <3>2
    <3>4. QED
      BY <2>4, <2>5, <3>1, <3>2, <3>3
  <2>8. n - 1 \in Bad
    BY <2>1, <2>6, <2>7
  <2>9. QED
    BY <2>8
<1>2. Bad = {}
  <2> HIDE DEF Bad
  <2>1. Bad \in SUBSET Nat
    BY DEF Bad
  <2>2. SUFFICES ASSUME Bad # {} PROVE FALSE
    OBVIOUS
  <2>3. PICK n \in Bad : \A m \in Bad : n =< m
    BY <2>1, <2>2, LeastNatural
  <2>4. PICK m \in Bad : m < n
    BY <1>1
  <2>5. QED
    BY <2>1, <2>3, <2>4
<1>3. ASSUME NEW s \in SUBSET S PROVE In(s)
  <2>1. IsFiniteSet(s) /\ Cardinality(s) \in Nat
    BY FS_Subset, FS_CardinalityType
  <2>2. QED
    BY <1>2, <2>1
<1>4. ASSUME NEW x \in S PROVE f[x] =< SumFunctionOnSet(f, S)
  <2>1. SumFunctionOnSet(f, S) = f[x] + SumFunctionOnSet(f, S \ {x})
    BY SumOrder DEF Order
  <2>2. In(S \ {x}) /\ IsFiniteSet(S \ {x})
    BY <1>3, FS_RemoveElement
  <2>3. SumFunctionOnSet(f, S \ {x}) \in Nat
    BY <2>2, FS_CardinalityType
  <2>4. QED
    BY <2>1, <2>3
<1>5. QED
  BY <1>3, <1>4

(* Elements that count nothing may be left out.                            *)
LEMMA SumWithoutZeros ==
  ASSUME NEW f, NEW S, IsFiniteSet(S), \A x \in S : f[x] \in Int,
         NEW T \in SUBSET S, \A x \in S \ T : f[x] = 0
  PROVE  SumFunctionOnSet(f, S) = SumFunctionOnSet(f, T)
<1> DEFINE Bad == {n \in Nat : \E s \in SUBSET (S \ T) : /\ Cardinality(s) = n
                      /\ SumFunctionOnSet(f, T \union s) # SumFunctionOnSet(f, T)}
<1>1. ASSUME NEW n \in Bad PROVE \E m \in Bad : m < n
  <2>1. PICK s \in SUBSET (S \ T) :
          /\ Cardinality(s) = n
          /\ SumFunctionOnSet(f, T \union s) # SumFunctionOnSet(f, T)
    OBVIOUS
  <2>2. s # {}
    BY <2>1
  <2> DEFINE x == TakenFrom(s)
             r == s \ {x}
  <2>3. /\ x \in s /\ s \in SUBSET S
        /\ Cardinality(s) \in Nat \ {0} /\ Cardinality(r) = Cardinality(s) - 1
    BY <2>1, <2>2, TakenIn, OneLess
  <2> HIDE DEF x
  <2>4. T \union r = (T \union s) \ {x} /\ f[x] = 0
    BY <2>1, <2>3
  <2>5. IsFiniteSet(T \union s) /\ IsFiniteSet(T \union r)
        /\ (\A y \in T \union s : f[y] \in Int)
    BY <2>1, FS_Subset
  <2>6. SumFunctionOnSet(f, T \union s) = f[x] + SumFunctionOnSet(f, (T \union s) \ {x})
    BY <2>3, <2>5, SumOrder DEF Order
  <2>7. SumFunctionOnSet(f, T \union r) \in Int
    BY <2>5, SumOrder DEF Order
  <2>8. SumFunctionOnSet(f, T \union s) = SumFunctionOnSet(f, T \union r)
    BY <2>4, <2>6, <2>7
  <2>9. r \in SUBSET (S \ T) /\ n - 1 \in Nat /\ Cardinality(r) = n - 1
    BY <2>1, <2>3
  <2>10. PICK m : m = n - 1
    OBVIOUS
  <2>11. m \in Nat /\ m < n
    BY <2>9, <2>10
  <2>12. SumFunctionOnSet(f, T \union r) # SumFunctionOnSet(f, T) /\ Cardinality(r) = m
    BY <2>1, <2>8, <2>9, <2>10
  <2>13. m \in Bad
    BY <2>9, <2>11, <2>12
  <2> HIDE DEF Bad
  <2>14. QED
    BY <2>11, <2>13
<1>2. Bad = {}
  <2> HIDE DEF Bad
  <2>1. Bad \in SUBSET Nat
    BY DEF Bad
  <2>2. SUFFICES ASSUME Bad # {} PROVE FALSE
    OBVIOUS
  <2>3. PICK n \in Bad : \A m \in Bad : n =< m
    BY <2>1, <2>2, LeastNatural
  <2>4. PICK m \in Bad : m < n
    BY <1>1
  <2>5. QED
    BY <2>1, <2>3, <2>4
<1>3. IsFiniteSet(S \ T) /\ Cardinality(S \ T) \in Nat
  BY FS_Subset, FS_CardinalityType
<1>4. SumFunctionOnSet(f, T \union (S \ T)) = SumFunctionOnSet(f, T)
  BY <1>2, <1>3
<1>5. T \union (S \ T) = S
  OBVIOUS
<1>6. QED
  BY <1>4, <1>5

-------------------------------------------------------------------------------
(* The levels and what they claim.                                         *)
Most == MaxHold * (MaxLevel + 1)     \* the claims that there can be

LEMMA LevelsFinite ==
  /\ IsFiniteSet(Levels) /\ Cardinality(Levels) = MaxLevel + 1
  /\ \A c \in Levels : c \in Nat /\ UpTo(c) \in SUBSET Levels /\ IsFiniteSet(UpTo(c)) /\ c \in UpTo(c)
<1>1. IsFiniteSet(Levels) /\ Cardinality(Levels) = MaxLevel + 1
  BY SpinlockAssumption, FS_Interval DEF Levels
<1>2. ASSUME NEW c \in Levels
      PROVE  c \in Nat /\ UpTo(c) \in SUBSET Levels /\ IsFiniteSet(UpTo(c)) /\ c \in UpTo(c)
  BY SpinlockAssumption, FS_Interval DEF Levels, UpTo
<1>3. QED
  BY <1>1, <1>2

LEMMA MostIsNat == Most \in Nat /\ MaxHold \in Nat /\ MaxHold * Cardinality(Levels) = Most
BY LevelsFinite, SpinlockAssumption DEF Most

(* A level claims the lock as often as it may hold it, or less.            *)
ClaimsOf(h, p) == [c \in Levels |-> h[c] + (IF p[c] = "spin" THEN 1 ELSE 0)]

LEMMA ClaimsType ==
  ASSUME NEW h \in [Levels -> 0 .. MaxHold], NEW p,
         \A c \in Levels : p[c] \in {"increment", "spin"} => h[c] < MaxHold
  PROVE  /\ DOMAIN ClaimsOf(h, p) = Levels
         /\ \A c \in Levels : ClaimsOf(h, p)[c] \in 0 .. MaxHold
         /\ \A c \in Levels : ClaimsOf(h, p)[c] = h[c] + (IF p[c] = "spin" THEN 1 ELSE 0)
         /\ \A c \in Levels : ClaimsOf(h, p)[c] \in Int /\ h[c] =< ClaimsOf(h, p)[c]
<1>1. ASSUME NEW c \in Levels
      PROVE  /\ ClaimsOf(h, p)[c] \in 0 .. MaxHold
             /\ ClaimsOf(h, p)[c] = h[c] + (IF p[c] = "spin" THEN 1 ELSE 0)
             /\ h[c] =< ClaimsOf(h, p)[c]
  <2>1. h[c] \in 0 .. MaxHold /\ MaxHold \in Nat
    BY SpinlockAssumption
  <2>2. QED
    BY <2>1 DEF ClaimsOf
<1>2. QED
  BY <1>1, SpinlockAssumption DEF ClaimsOf

(* If those above n claim nothing, the claims of all are those up to n.    *)
LEMMA SumAtLevel ==
  ASSUME NEW g, DOMAIN g = Levels, \A c \in Levels : g[c] \in 0 .. MaxHold,
         NEW n \in Levels, \A c \in Levels : c > n => g[c] = 0
  PROVE  /\ SumFunction(g) = SumFunctionOnSet(g, Levels)
         /\ SumFunctionOnSet(g, Levels) \in 0 .. Most
         /\ \A c \in Levels : g[c] =< SumFunctionOnSet(g, Levels)
         /\ SumFunctionOnSet(g, UpTo(n)) = SumFunctionOnSet(g, Levels)
<1>1. \A c \in Levels \ UpTo(n) : g[c] = 0
  BY DEF UpTo, Levels
<1>2. \A c \in Levels : g[c] \in Int
  BY SpinlockAssumption
<1>3. SumFunctionOnSet(g, UpTo(n)) = SumFunctionOnSet(g, Levels)
  BY <1>1, <1>2, LevelsFinite, SumWithoutZeros
<1>4. /\ SumFunctionOnSet(g, Levels) \in 0 .. Most
      /\ \A c \in Levels : g[c] =< SumFunctionOnSet(g, Levels)
  BY LevelsFinite, MostIsNat, SumBounds
<1>5. SumFunction(g) = SumFunctionOnSet(g, Levels)
  BY DEF SumFunction
<1>6. QED
  BY <1>3, <1>4, <1>5

(* If one level changes its claim, the sum changes by as much.             *)
LEMMA ClaimChanges ==
  ASSUME NEW f, NEW g, \A c \in Levels : f[c] \in Int /\ g[c] \in Int,
         NEW n \in Levels, \A c \in Levels \ {n} : f[c] = g[c]
  PROVE  SumFunctionOnSet(g, Levels) = SumFunctionOnSet(f, Levels) - f[n] + g[n]
<1>1. IsFiniteSet(Levels)
  BY LevelsFinite
<1>2. QED
  BY <1>1, SumOfChange

(* In a state of the invariant: depth is that sum, so it bounds every      *)
(* claim, and it is what the running level has loaded or found.            *)
LEMMA DepthFacts ==
  ASSUME IInv
  PROVE  /\ level \in Levels /\ Claims = ClaimsOf(holds, pc) /\ DOMAIN Claims = Levels
         /\ \A c \in Levels : Claims[c] \in 0 .. MaxHold /\ Claims[c] \in Int
         /\ depth = SumFunctionOnSet(Claims, Levels) /\ depth \in 0 .. Most
         /\ depth = SumFunctionOnSet(Claims, UpTo(level))
         /\ \A c \in Levels : Claims[c] =< depth
         /\ \A c \in Levels : holds[c] =< depth /\ holds[c] \in Nat
<1>1. TypeOK /\ LevelShape /\ depth = SumFunction(Claims)
  BY DEF IInv, DepthCountsHolders
<1>2. /\ holds \in [Levels -> 0 .. MaxHold] /\ level \in Levels
      /\ \A c \in Levels : pc[c] \in {"increment", "spin"} => holds[c] < MaxHold
  BY <1>1 DEF TypeOK, LevelShape
<1>3. Claims = ClaimsOf(holds, pc)
  BY DEF Claims, ClaimsOf
<1>4. /\ DOMAIN Claims = Levels
      /\ \A c \in Levels : Claims[c] \in 0 .. MaxHold
      /\ \A c \in Levels : Claims[c] = holds[c] + (IF pc[c] = "spin" THEN 1 ELSE 0)
      /\ \A c \in Levels : Claims[c] \in Int /\ holds[c] =< Claims[c]
  BY <1>2, <1>3, ClaimsType
<1>5. \A c \in Levels : c > level => Claims[c] = 0
  BY <1>1, <1>4 DEF LevelShape
<1>6. /\ depth = SumFunctionOnSet(Claims, Levels) /\ depth \in 0 .. Most
      /\ depth = SumFunctionOnSet(Claims, UpTo(level))
      /\ \A c \in Levels : Claims[c] =< depth
  BY <1>1, <1>2, <1>4, <1>5, SumAtLevel
<1>7. ASSUME NEW c \in Levels PROVE holds[c] =< depth /\ holds[c] \in Nat
  <2>1. Claims[c] \in Int /\ holds[c] =< Claims[c] /\ Claims[c] =< depth
    BY <1>4, <1>6
  <2>2. holds[c] \in Nat /\ depth \in Int
    BY <1>2, <1>6, MostIsNat
  <2>3. QED
    BY <2>1, <2>2
<1>8. QED
  BY <1>2, <1>3, <1>4, <1>6, <1>7

-------------------------------------------------------------------------------
(* init_spinlock.                                                          *)
LEMMA InitHolds == Init => IInv
<1> SUFFICES ASSUME Init PROVE IInv
  OBVIOUS
<1>1. 0 \in Levels /\ 0 \in 0 .. MaxHold /\ 0 \in 0 .. Most
  BY SpinlockAssumption, MostIsNat DEF Levels
<1>2. TypeOK
  BY <1>1 DEF Init, TypeOK, Steps, Most
<1>3. LevelShape
  BY DEF Init, LevelShape, Asserting
<1>4. DOMAIN Claims = Levels /\ \A c \in Levels : Claims[c] = 0
  BY DEF Claims, Init
<1>5. DepthCountsHolders
  <2>1. SumFunctionOnSet(Claims, Levels) \in 0 .. (0 * Cardinality(Levels))
    BY <1>4, LevelsFinite, SumBounds
  <2>2. SumFunctionOnSet(Claims, Levels) = 0
    BY <2>1, LevelsFinite, SpinlockAssumption
  <2>3. QED
    BY <1>4, <2>2 DEF DepthCountsHolders, Init, SumFunction
<1>6. LoadedExact /\ ClearsUnheld /\ LockedForAReason /\ HeldMeansLocked
  BY DEF Init, LoadedExact, ClearsUnheld, LockedForAReason, HeldMeansLocked
<1>7. QED
  BY <1>2, <1>3, <1>5, <1>6 DEF IInv

-------------------------------------------------------------------------------
(* A step of the running level.  It changes the claim of that level by as  *)
(* much as depth; the levels below it are suspended, and those above claim *)
(* nothing.                                                                *)
LEMMA LevelSteps ==
  ASSUME IInv, level' = level, locked' \in {0, 1}, pc' \in [Levels -> Steps],
         holds' \in [Levels -> 0 .. MaxHold], LevelShape',
         loaded' \in [Levels -> 0 .. Most],
         \A d \in Levels \ {level} : pc'[d] = pc[d] /\ holds'[d] = holds[d] /\ loaded'[d] = loaded[d],
         depth' = depth - Claims[level] + ClaimsOf(holds', pc')[level],
         pc'[level] \in {"increment", "decrement"} => loaded'[level] = depth',
         pc'[level] = "clear" => depth' = 0
  PROVE  TypeOK' /\ DepthCountsHolders' /\ LoadedExact' /\ ClearsUnheld'
<1> DEFINE new == ClaimsOf(holds', pc')
<1>1. /\ level \in Levels /\ Claims = ClaimsOf(holds, pc)
      /\ \A c \in Levels : Claims[c] \in Int
      /\ depth = SumFunctionOnSet(Claims, Levels) /\ depth \in 0 .. Most
      /\ depth = SumFunctionOnSet(Claims, UpTo(level))
  BY DepthFacts
<1>2. /\ DOMAIN new = Levels
      /\ \A c \in Levels : new[c] \in 0 .. MaxHold
      /\ \A c \in Levels : new[c] = holds'[c] + (IF pc'[c] = "spin" THEN 1 ELSE 0)
      /\ \A c \in Levels : new[c] \in Int
  BY ClaimsType DEF LevelShape
<1>3. \A d \in Levels \ {level} : Claims[d] = new[d]
  BY <1>1, <1>2 DEF ClaimsOf
<1>4. Claims' = new
  BY DEF Claims, ClaimsOf
<1>5. SumFunctionOnSet(new, Levels) = depth'
  <2>1. depth' = depth - Claims[level] + new[level]
    OBVIOUS
  <2>2. \A c \in Levels : Claims[c] \in Int /\ new[c] \in Int
    BY <1>1, <1>2
  <2>3. PICK f, g : f = Claims /\ g = new
    OBVIOUS
  <2>4. /\ level \in Levels /\ \A c \in Levels : f[c] \in Int /\ g[c] \in Int
        /\ \A c \in Levels \ {level} : f[c] = g[c]
    BY <1>1, <1>3, <2>2, <2>3
  <2>5. SumFunctionOnSet(g, Levels) = SumFunctionOnSet(f, Levels) - f[level] + g[level]
    BY <2>4, ClaimChanges
  <2>6. QED
    BY <1>1, <2>1, <2>3, <2>5
<1> HIDE DEF new
<1>6. \A c \in Levels : c > level => new[c] = 0
  BY <1>2 DEF LevelShape
<1>7. /\ SumFunction(new) = SumFunctionOnSet(new, Levels)
      /\ SumFunctionOnSet(new, Levels) \in 0 .. Most
      /\ SumFunctionOnSet(new, UpTo(level)) = SumFunctionOnSet(new, Levels)
  BY <1>1, <1>2, <1>6, SumAtLevel
<1>8. ASSUME NEW d \in Levels, d < level
      PROVE  SumFunctionOnSet(Claims, UpTo(d)) = SumFunctionOnSet(new, UpTo(d))
  <2>1. \A x \in UpTo(d) : x \in Levels \ {level}
    BY <1>1, <1>8, SpinlockAssumption DEF UpTo, Levels
  <2>2. QED
    BY <1>3, <2>1, LevelsFinite, SumOfSame
<1>9. TypeOK'
  BY <1>1, <1>5, <1>7 DEF IInv, TypeOK, Most
<1>10. DepthCountsHolders'
  BY <1>4, <1>5, <1>7 DEF DepthCountsHolders
<1>11. \A d \in Levels : d < level \/ d = level \/ d > level
  BY <1>1, LevelsFinite
<1>12. LoadedExact'
  <2>1. ASSUME NEW d \in Levels, pc'[d] \in {"increment", "decrement"}
        PROVE  loaded'[d] = SumFunctionOnSet(new, UpTo(d))
    <3>1. CASE d = level
      BY <1>5, <1>7, <2>1, <3>1
    <3>2. CASE d < level
      <4>1. pc'[d] = pc[d] /\ loaded'[d] = loaded[d]
        BY <1>1, <3>2, LevelsFinite
      <4>2. QED
        BY <1>8, <2>1, <3>2, <4>1 DEF IInv, LoadedExact
    <3>3. CASE d > level
      BY <2>1, <3>3 DEF LevelShape
    <3>4. QED
      BY <1>11, <3>1, <3>2, <3>3
  <2>2. QED
    BY <1>4, <2>1 DEF LoadedExact, UpTo
<1>13. ClearsUnheld'
  <2>1. ASSUME NEW d \in Levels, pc'[d] = "clear"
        PROVE  SumFunctionOnSet(new, UpTo(d)) = 0
    <3>1. CASE d = level
      BY <1>5, <1>7, <2>1, <3>1
    <3>2. CASE d < level
      <4>1. pc'[d] = pc[d]
        BY <1>1, <3>2, LevelsFinite
      <4>2. QED
        BY <1>8, <2>1, <3>2, <4>1 DEF IInv, ClearsUnheld
    <3>3. CASE d > level
      BY <2>1, <3>3 DEF LevelShape
    <3>4. QED
      BY <1>11, <3>1, <3>2, <3>3
  <2>2. QED
    BY <1>4, <2>1 DEF ClearsUnheld, UpTo
<1>14. QED
  BY <1>9, <1>10, <1>12, <1>13

-------------------------------------------------------------------------------
(* The steps of lock_spinlock.                                             *)
LEMMA LevelGoes ==
  ASSUME IInv, NEW c \in Levels, level = c, NEW w \in Steps, Goto(c, w)
  PROVE  /\ pc' \in [Levels -> Steps] /\ pc'[c] = w
         /\ \A d \in Levels \ {level} : pc'[d] = pc[d]
         /\ \A d \in Levels : d > level => d # level
         /\ pc \in [Levels -> Steps] /\ pc[c] \in Steps
         /\ holds \in [Levels -> 0 .. MaxHold] /\ holds[c] \in 0 .. MaxHold /\ MaxHold \in Nat
         /\ loaded \in [Levels -> 0 .. Most] /\ locked \in {0, 1} /\ depth \in Int
         /\ Claims[c] = holds[c] + (IF pc[c] = "spin" THEN 1 ELSE 0)
         /\ ClaimsOf(holds', pc')[c] = holds'[c] + (IF w = "spin" THEN 1 ELSE 0)
<1>1. pc \in [Levels -> Steps] /\ pc' = [pc EXCEPT ![c] = w]
  BY DEF IInv, TypeOK, Goto
<1>2. \A d \in Levels : d > level => d # level
  BY LevelsFinite
<1>3. depth \in Int
  BY DepthFacts, MostIsNat
<1>4. /\ holds \in [Levels -> 0 .. MaxHold] /\ MaxHold \in Nat
      /\ loaded \in [Levels -> 0 .. Most] /\ locked \in {0, 1}
  BY MostIsNat DEF IInv, TypeOK, Most
<1>5. QED
  BY <1>1, <1>2, <1>3, <1>4 DEF Claims, ClaimsOf

(* The load of ++depth.                                                    *)
LEMMA LockPreserves == ASSUME IInv, NEW c \in Levels, lock_spinlock(c) PROVE IInv'
<1>1. /\ level = c /\ pc[c] = "idle" /\ holds[c] < MaxHold /\ Goto(c, "increment")
      /\ loaded' = [loaded EXCEPT ![c] = depth]
      /\ UNCHANGED <<locked, depth, level, holds>>
  BY DEF lock_spinlock, At
<1>2. "increment" \in Steps
  BY DEF Steps
<1>3. /\ pc' \in [Levels -> Steps] /\ pc'[c] = "increment"
      /\ \A d \in Levels \ {level} : pc'[d] = pc[d]
      /\ \A d \in Levels : d > level => d # level
  BY <1>1, <1>2, LevelGoes
<1>4. /\ holds \in [Levels -> 0 .. MaxHold] /\ holds[c] \in 0 .. MaxHold
      /\ loaded \in [Levels -> 0 .. Most] /\ locked \in {0, 1} /\ depth \in Int
      /\ Claims[c] = holds[c] /\ ClaimsOf(holds', pc')[c] = holds'[c]
  BY <1>1, <1>2, LevelGoes
<1>5. LevelShape'
  BY <1>1, <1>3 DEF IInv, LevelShape, Asserting
<1>6. depth \in 0 .. Most
  BY DepthFacts
<1>7. /\ loaded' \in [Levels -> 0 .. Most] /\ loaded'[c] = depth
      /\ \A d \in Levels \ {level} : loaded'[d] = loaded[d]
  BY <1>1, <1>4, <1>6
<1>8. TypeOK' /\ DepthCountsHolders' /\ LoadedExact' /\ ClearsUnheld'
  <2>1. depth' = depth - Claims[level] + ClaimsOf(holds', pc')[level]
    BY <1>1, <1>4
  <2>2. QED
    BY <1>1, <1>3, <1>4, <1>5, <1>7, <2>1, LevelSteps
<1>9. LockedForAReason' /\ HeldMeansLocked'
  BY <1>1, <1>3 DEF IInv, LockedForAReason, HeldMeansLocked
<1>10. QED
  BY <1>5, <1>8, <1>9 DEF IInv

(* The store of ++depth: nobody but the level itself has a claim that it   *)
(* did not load.                                                           *)
LEMMA IncrementPreserves == ASSUME IInv, NEW c \in Levels, Increment(c) PROVE IInv'
<1>1. /\ level = c /\ pc[c] = "increment" /\ Goto(c, "spin") /\ depth' = loaded[c] + 1
      /\ UNCHANGED <<locked, level, loaded, holds>>
  BY DEF Increment, At
<1>2. "spin" \in Steps
  BY DEF Steps
<1>3. /\ pc' \in [Levels -> Steps] /\ pc'[c] = "spin"
      /\ \A d \in Levels \ {level} : pc'[d] = pc[d]
      /\ \A d \in Levels : d > level => d # level
  BY <1>1, <1>2, LevelGoes
<1>4. /\ holds \in [Levels -> 0 .. MaxHold] /\ holds[c] \in 0 .. MaxHold
      /\ loaded \in [Levels -> 0 .. Most] /\ locked \in {0, 1} /\ depth \in Int
      /\ Claims[c] = holds[c] /\ ClaimsOf(holds', pc')[c] = holds'[c] + 1
  BY <1>1, <1>2, LevelGoes
<1>5. LevelShape'
  BY <1>1, <1>3 DEF IInv, LevelShape, Asserting
<1>6. loaded[c] = depth
  BY <1>1, DepthFacts DEF IInv, LoadedExact
<1>7. TypeOK' /\ DepthCountsHolders' /\ LoadedExact' /\ ClearsUnheld'
  <2>1. depth' = depth - Claims[level] + ClaimsOf(holds', pc')[level]
    BY <1>1, <1>4, <1>6
  <2>2. QED
    BY <1>1, <1>3, <1>4, <1>5, <2>1, LevelSteps
<1>8. depth' > 0
  BY <1>1, <1>4, <1>6, DepthFacts, MostIsNat
<1>9. LockedForAReason' /\ HeldMeansLocked'
  BY <1>1, <1>8 DEF IInv, LockedForAReason, HeldMeansLocked
<1>10. QED
  BY <1>5, <1>7, <1>9 DEF IInv

(* The exchange: the claim becomes a hold, or stays a claim.               *)
LEMMA SpinPreserves == ASSUME IInv, NEW c \in Levels, Spin(c) PROVE IInv'
<1>1. /\ level = c /\ pc[c] = "spin" /\ locked' = 1
      /\ UNCHANGED <<depth, level, loaded>>
  BY DEF Spin, ExchangeUntil, At, atomic_exchange
<1>2. "idle" \in Steps /\ "spin" \in Steps
  BY DEF Steps
<1>3. holds[c] < MaxHold
  BY <1>1 DEF IInv, LevelShape
<1>4. PICK w \in {"idle", "spin"} :
        /\ Goto(c, w)
        /\ holds' = [holds EXCEPT ![c] = @ + (IF w = "idle" THEN 1 ELSE 0)]
  <2>1. CASE locked = 1
    BY <2>1 DEF Spin, ExchangeUntil
  <2>2. CASE locked # 1
    <3>1. pc' = pc /\ holds' = holds /\ pc \in [Levels -> Steps]
          /\ holds \in [Levels -> 0 .. MaxHold]
      BY <2>2 DEF Spin, ExchangeUntil, IInv, TypeOK
    <3>2. pc' = [pc EXCEPT ![c] = "spin"]
      BY <1>1, <3>1
    <3>3. holds' = [holds EXCEPT ![c] = @ + 0]
      BY <3>1, SpinlockAssumption
    <3>4. QED
      BY <3>2, <3>3 DEF Goto
  <2>3. QED
    BY <2>1, <2>2
<1>5. /\ pc' \in [Levels -> Steps] /\ pc'[c] = w
      /\ \A d \in Levels \ {level} : pc'[d] = pc[d]
      /\ \A d \in Levels : d > level => d # level
  BY <1>1, <1>2, <1>4, LevelGoes
<1>6. /\ holds \in [Levels -> 0 .. MaxHold] /\ holds[c] \in 0 .. MaxHold /\ MaxHold \in Nat
      /\ loaded \in [Levels -> 0 .. Most] /\ depth \in Int
      /\ Claims[c] = holds[c] + 1
      /\ ClaimsOf(holds', pc')[c] = holds'[c] + (IF w = "spin" THEN 1 ELSE 0)
  BY <1>1, <1>2, <1>4, LevelGoes
<1>7. /\ holds' \in [Levels -> 0 .. MaxHold]
      /\ holds'[c] = holds[c] + (IF w = "idle" THEN 1 ELSE 0)
      /\ \A d \in Levels \ {level} : holds'[d] = holds[d]
  BY <1>1, <1>3, <1>4, <1>6
<1>8. LevelShape'
  <2>1. w = "spin" => holds'[c] < MaxHold
    BY <1>3, <1>6, <1>7
  <2>2. ASSUME NEW d \in Levels, d # level
        PROVE  pc'[d] = pc[d] /\ holds'[d] = holds[d]
    BY <1>5, <1>7, <2>2
  <2>3. QED
    BY <1>1, <1>4, <1>5, <2>1, <2>2 DEF IInv, LevelShape, Asserting
<1>9. TypeOK' /\ DepthCountsHolders' /\ LoadedExact' /\ ClearsUnheld'
  <2>1. depth' = depth - Claims[level] + ClaimsOf(holds', pc')[level]
    BY <1>1, <1>4, <1>6, <1>7
  <2>2. locked' \in {0, 1}
    BY <1>1
  <2>3. \A d \in Levels \ {level} : pc'[d] = pc[d] /\ holds'[d] = holds[d] /\ loaded'[d] = loaded[d]
    BY <1>1, <1>5, <1>7
  <2>4. pc'[level] \notin {"increment", "decrement", "clear"}
    BY <1>1, <1>4, <1>5
  <2>5. QED
    BY <1>1, <1>5, <1>6, <1>7, <1>8, <2>1, <2>2, <2>3, <2>4, LevelSteps
<1>10. depth' > 0
  <2>1. Claims[c] =< depth
    BY DepthFacts
  <2>2. QED
    BY <1>1, <1>6, <2>1
<1>11. LockedForAReason' /\ HeldMeansLocked'
  BY <1>1, <1>10 DEF LockedForAReason, HeldMeansLocked
<1>12. QED
  BY <1>8, <1>9, <1>11 DEF IInv

-------------------------------------------------------------------------------
(* The steps of unlock_spinlock.  Its assertion holds when it is called:   *)
(* the lock is locked because the caller holds it, and depth counts the    *)
(* hold of the caller.                                                     *)
LEMMA HolderMayUnlock ==
  ASSUME IInv, NEW c \in Levels, holds[c] > 0
  PROVE  locked = 1 /\ depth > 0
<1>1. locked = 1
  BY DEF IInv, HeldMeansLocked
<1>2. holds[c] =< depth /\ holds[c] \in Nat /\ depth \in Nat
  BY DepthFacts, MostIsNat
<1>3. QED
  BY <1>1, <1>2

(* A step that reads and goes on, from the code outside or from a read of  *)
(* the lock to the next: it changes nothing that the others see.           *)
LEMMA ReadPreserves ==
  ASSUME IInv, NEW c \in Levels, level = c, pc[c] \in Asserting \union {"idle", "asked"},
         NEW w \in Asserting \union {"idle", "asked", "aborted"}, Goto(c, w),
         w \in Asserting => holds[c] > 0,
         UNCHANGED <<locked, depth, level, loaded, holds>>
  PROVE  IInv'
<1>1. w \in Steps
  BY DEF Steps
<1>2. /\ pc' \in [Levels -> Steps] /\ pc'[c] = w
      /\ \A d \in Levels \ {level} : pc'[d] = pc[d]
      /\ \A d \in Levels : d > level => d # level
  BY <1>1, LevelGoes
<1>3. /\ pc[c] # "spin" /\ pc[c] \notin {"test", "clear"}
      /\ w \notin {"increment", "spin", "decrement", "test", "clear"}
  BY DEF Asserting
<1>4. /\ holds \in [Levels -> 0 .. MaxHold] /\ holds[c] \in 0 .. MaxHold
      /\ loaded \in [Levels -> 0 .. Most] /\ locked \in {0, 1} /\ depth \in Int
      /\ Claims[c] = holds[c] /\ ClaimsOf(holds', pc')[c] = holds'[c]
  BY <1>1, <1>3, LevelGoes
<1>5. LevelShape'
  BY <1>2, <1>3 DEF IInv, LevelShape
<1>6. TypeOK' /\ DepthCountsHolders' /\ LoadedExact' /\ ClearsUnheld'
  <2>1. depth' = depth - Claims[level] + ClaimsOf(holds', pc')[level]
    BY <1>4
  <2>2. pc'[level] \notin {"increment", "decrement", "clear"}
    BY <1>2, <1>3
  <2>3. QED
    BY <1>2, <1>4, <1>5, <2>1, <2>2, LevelSteps
<1>7. LockedForAReason' /\ HeldMeansLocked'
  <2>1. \A d \in Levels : pc[d] \in {"test", "clear"} => pc'[d] = pc[d]
    BY <1>2, <1>3
  <2>2. QED
    BY <2>1 DEF IInv, LockedForAReason, HeldMeansLocked
<1>8. QED
  BY <1>5, <1>6, <1>7 DEF IInv

(* The reads of the assertion.                                             *)
LEMMA UnlockPreserves == ASSUME IInv, NEW c \in Levels, unlock_spinlock(c) PROVE IInv'
<1>1. /\ level = c /\ pc[c] = "idle" /\ holds[c] > 0
      /\ UNCHANGED <<locked, depth, level, loaded, holds>>
  BY DEF unlock_spinlock, At
<1>2. PICK w \in Asserting : Goto(c, w)
  BY DEF unlock_spinlock, Asserting
<1>3. QED
  BY <1>1, <1>2, ReadPreserves

LEMMA CheckUnlockPreserves == ASSUME IInv, NEW c \in Levels, CheckUnlock(c) PROVE IInv'
<1>1. /\ level = c /\ pc[c] \in Asserting
      /\ UNCHANGED <<locked, depth, level, loaded, holds>>
  BY DEF CheckUnlock, Assertion, At, Asserting
<1>2. PICK w \in Asserting \union {"aborted"} : Goto(c, w)
  BY DEF CheckUnlock, Assertion, Asserting
<1>3. holds[c] > 0
  BY <1>1 DEF IInv, LevelShape
<1>4. QED
  BY <1>1, <1>2, <1>3, ReadPreserves

(* The load of --depth.                                                    *)
LEMMA LoadPreserves == ASSUME IInv, NEW c \in Levels, Load(c) PROVE IInv'
<1>0. level = c /\ pc[c] = "load" /\ UNCHANGED <<locked, depth, level, holds>>
  BY DEF Load, At
<1>1. /\ level = c /\ pc[c] = "load" /\ holds[c] > 0 /\ locked = 1 /\ depth > 0
      /\ UNCHANGED <<locked, depth, level, holds>>
  BY <1>0, HolderMayUnlock DEF IInv, LevelShape, Asserting
<1>2. Goto(c, "decrement") /\ loaded' = [loaded EXCEPT ![c] = depth]
  BY DEF Load
<1>3. "decrement" \in Steps
  BY DEF Steps
<1>4. /\ pc' \in [Levels -> Steps] /\ pc'[c] = "decrement"
      /\ \A d \in Levels \ {level} : pc'[d] = pc[d]
      /\ \A d \in Levels : d > level => d # level
  BY <1>1, <1>2, <1>3, LevelGoes
<1>5. /\ holds \in [Levels -> 0 .. MaxHold] /\ holds[c] \in 0 .. MaxHold
      /\ loaded \in [Levels -> 0 .. Most] /\ locked \in {0, 1} /\ depth \in Int
      /\ Claims[c] = holds[c] /\ ClaimsOf(holds', pc')[c] = holds'[c]
  BY <1>1, <1>2, <1>3, LevelGoes
<1>6. LevelShape'
  BY <1>1, <1>4 DEF IInv, LevelShape
<1>7. depth \in 0 .. Most
  BY DepthFacts
<1>8. /\ loaded' \in [Levels -> 0 .. Most] /\ loaded'[c] = depth
      /\ \A d \in Levels \ {level} : loaded'[d] = loaded[d]
  BY <1>1, <1>2, <1>5, <1>7
<1>9. TypeOK' /\ DepthCountsHolders' /\ LoadedExact' /\ ClearsUnheld'
  <2>1. depth' = depth - Claims[level] + ClaimsOf(holds', pc')[level]
    BY <1>1, <1>5
  <2>2. QED
    BY <1>1, <1>4, <1>5, <1>6, <1>8, <2>1, LevelSteps
<1>10. LockedForAReason' /\ HeldMeansLocked'
  BY <1>1 DEF LockedForAReason, HeldMeansLocked
<1>11. QED
  BY <1>6, <1>9, <1>10 DEF IInv

(* The store of --depth.                                                   *)
LEMMA DecrementPreserves == ASSUME IInv, NEW c \in Levels, Decrement(c) PROVE IInv'
<1>1. /\ level = c /\ pc[c] = "decrement" /\ Goto(c, "test") /\ depth' = loaded[c] - 1
      /\ holds' = [holds EXCEPT ![c] = @ - 1]
      /\ UNCHANGED <<locked, level, loaded>>
  BY DEF Decrement, StoreDepth, At
<1>2. "test" \in Steps
  BY DEF Steps
<1>3. /\ pc' \in [Levels -> Steps] /\ pc'[c] = "test"
      /\ \A d \in Levels \ {level} : pc'[d] = pc[d]
      /\ \A d \in Levels : d > level => d # level
  BY <1>1, <1>2, LevelGoes
<1>4. /\ holds \in [Levels -> 0 .. MaxHold] /\ holds[c] \in 0 .. MaxHold /\ MaxHold \in Nat
      /\ loaded \in [Levels -> 0 .. Most] /\ locked \in {0, 1} /\ depth \in Int
      /\ Claims[c] = holds[c]
  BY <1>1, <1>2, LevelGoes
<1>5. holds[c] > 0 /\ loaded[c] = depth
  BY <1>1, DepthFacts DEF IInv, LevelShape, LoadedExact
<1>6. /\ holds' \in [Levels -> 0 .. MaxHold] /\ holds'[c] = holds[c] - 1
      /\ \A d \in Levels \ {level} : holds'[d] = holds[d]
  BY <1>1, <1>4, <1>5
<1>7. LevelShape'
  <2>1. ASSUME NEW d \in Levels, d # level
        PROVE  pc'[d] = pc[d] /\ holds'[d] = holds[d]
    BY <1>3, <1>6, <2>1
  <2>2. QED
    BY <1>1, <1>3, <2>1 DEF IInv, LevelShape, Asserting
<1>8. TypeOK' /\ DepthCountsHolders' /\ LoadedExact' /\ ClearsUnheld'
  <2>0. ClaimsOf(holds', pc')[c] = holds'[c] /\ holds'[c] \in Int
    BY <1>3, <1>4, <1>6 DEF ClaimsOf
  <2>1. depth' = depth - Claims[level] + ClaimsOf(holds', pc')[level]
    BY <1>1, <1>4, <1>5, <1>6, <2>0
  <2>2. \A d \in Levels \ {level} : pc'[d] = pc[d] /\ holds'[d] = holds[d] /\ loaded'[d] = loaded[d]
    BY <1>1, <1>3, <1>6
  <2>3. pc'[level] = "test"
    BY <1>1, <1>3
  <2>4. QED
    BY <1>1, <1>3, <1>4, <1>6, <1>7, <2>1, <2>2, <2>3, LevelSteps
<1>9. LockedForAReason'
  BY <1>3 DEF LockedForAReason
<1>10. HeldMeansLocked'
  <2>1. \A d \in Levels : holds'[d] > 0 => holds[d] > 0
    BY <1>1, <1>5, <1>6
  <2>2. QED
    BY <1>1, <2>1 DEF IInv, HeldMeansLocked
<1>11. QED
  BY <1>7, <1>8, <1>9, <1>10 DEF IInv

(* The test of depth: whoever is about to clear the lock found no claim.   *)
LEMMA TestPreserves == ASSUME IInv, NEW c \in Levels, Test(c) PROVE IInv'
<1> DEFINE w == IF depth = 0 THEN "clear" ELSE "idle"
<1>1. /\ level = c /\ pc[c] = "test" /\ Goto(c, w)
      /\ UNCHANGED <<locked, depth, level, loaded, holds>>
  BY DEF Test, TestDepth, At
<1>2. w \in Steps
  BY DEF Steps
<1>3. /\ pc' \in [Levels -> Steps] /\ pc'[c] = w
      /\ \A d \in Levels \ {level} : pc'[d] = pc[d]
      /\ \A d \in Levels : d > level => d # level
  BY <1>1, <1>2, LevelGoes
<1>4. /\ holds \in [Levels -> 0 .. MaxHold] /\ holds[c] \in 0 .. MaxHold
      /\ loaded \in [Levels -> 0 .. Most] /\ locked \in {0, 1} /\ depth \in Int
      /\ Claims[c] = holds[c] /\ ClaimsOf(holds', pc')[c] = holds'[c]
  BY <1>1, <1>2, LevelGoes
<1>5. LevelShape'
  BY <1>1, <1>3 DEF IInv, LevelShape, Asserting
<1>6. TypeOK' /\ DepthCountsHolders' /\ LoadedExact' /\ ClearsUnheld'
  <2>1. depth' = depth - Claims[level] + ClaimsOf(holds', pc')[level]
    BY <1>1, <1>4
  <2>2. /\ pc'[level] \notin {"increment", "decrement"}
        /\ pc'[level] = "clear" => depth' = 0
    BY <1>1, <1>3
  <2>3. QED
    BY <1>1, <1>3, <1>4, <1>5, <2>1, <2>2, LevelSteps
<1>7. LockedForAReason'
  <2>1. CASE depth = 0
    BY <1>3, <2>1 DEF LockedForAReason
  <2>2. CASE depth # 0
    <3>1. depth > 0
      BY <2>2, DepthFacts, MostIsNat
    <3>2. QED
      BY <1>1, <3>1 DEF LockedForAReason
  <2>3. QED
    BY <2>1, <2>2
<1>8. HeldMeansLocked'
  BY <1>1 DEF IInv, HeldMeansLocked
<1>9. QED
  BY <1>5, <1>6, <1>7, <1>8 DEF IInv

(* The exchange that frees the lock: nobody claims it, neither the code    *)
(* below, which the level saw when it tested depth, nor a handler.         *)
LEMMA ClearPreserves == ASSUME IInv, NEW c \in Levels, Clear(c) PROVE IInv'
<1>1. /\ level = c /\ pc[c] = "clear" /\ Goto(c, "idle") /\ locked' = 0
      /\ UNCHANGED <<depth, level, loaded, holds>>
  BY DEF Clear, At, atomic_exchange
<1>2. "idle" \in Steps
  BY DEF Steps
<1>3. /\ pc' \in [Levels -> Steps] /\ pc'[c] = "idle"
      /\ \A d \in Levels \ {level} : pc'[d] = pc[d]
      /\ \A d \in Levels : d > level => d # level
  BY <1>1, <1>2, LevelGoes
<1>4. /\ holds \in [Levels -> 0 .. MaxHold] /\ holds[c] \in 0 .. MaxHold
      /\ loaded \in [Levels -> 0 .. Most] /\ depth \in Int
      /\ Claims[c] = holds[c] /\ ClaimsOf(holds', pc')[c] = holds'[c]
  BY <1>1, <1>2, LevelGoes
<1>5. LevelShape'
  BY <1>1, <1>3 DEF IInv, LevelShape, Asserting
<1>6. TypeOK' /\ DepthCountsHolders' /\ LoadedExact' /\ ClearsUnheld'
  <2>1. depth' = depth - Claims[level] + ClaimsOf(holds', pc')[level]
    BY <1>1, <1>4
  <2>2. pc'[level] = "idle" /\ locked' \in {0, 1}
    BY <1>1, <1>3
  <2>3. QED
    BY <1>1, <1>3, <1>4, <1>5, <2>1, <2>2, LevelSteps
<1>7. depth = 0
  BY <1>1, DepthFacts DEF IInv, ClearsUnheld
<1>8. \A d \in Levels : ~(holds'[d] > 0)
  BY <1>1, <1>7, DepthFacts
<1>9. LockedForAReason' /\ HeldMeansLocked'
  BY <1>1, <1>8 DEF LockedForAReason, HeldMeansLocked
<1>10. QED
  BY <1>5, <1>6, <1>9 DEF IInv

-------------------------------------------------------------------------------
(* is_locked_spinlock called by itself may find a lock that is being       *)
(* unlocked, and then aborts; it changes nothing else.                     *)
LEMMA IsLockedPreserves == ASSUME IInv, NEW c \in Levels, is_locked_spinlock(c) PROVE IInv'
<1>1. /\ level = c /\ pc[c] = "idle"
      /\ UNCHANGED <<locked, depth, level, loaded, holds>>
  BY DEF is_locked_spinlock, At
<1>2. PICK w \in {"asked", "idle"} : Goto(c, w)
  BY DEF is_locked_spinlock
<1>3. QED
  BY <1>1, <1>2, ReadPreserves DEF Asserting

LEMMA CheckAskedPreserves == ASSUME IInv, NEW c \in Levels, CheckAsked(c) PROVE IInv'
<1>1. /\ level = c /\ pc[c] = "asked"
      /\ UNCHANGED <<locked, depth, level, loaded, holds>>
  BY DEF CheckAsked, Assertion, At
<1>2. PICK w \in {"aborted", "idle"} : Goto(c, w)
  BY DEF CheckAsked, Assertion
<1>3. QED
  BY <1>1, <1>2, ReadPreserves DEF Asserting

-------------------------------------------------------------------------------
(* A handler comes, and returns when it holds nothing: neither changes the *)
(* lock or what anyone claims.                                             *)
LEMMA OnlyLevelChanges ==
  ASSUME IInv, level' \in Levels, UNCHANGED <<locked, depth, pc, loaded, holds>>,
         \A c \in Levels : c > level' => pc[c] = "idle" /\ holds[c] = 0
  PROVE  IInv'
<1>1. TypeOK'
  BY DEF IInv, TypeOK
<1>2. LevelShape'
  BY DEF IInv, LevelShape
<1>3. Claims' = Claims
  BY DEF Claims
<1>4. DepthCountsHolders' /\ LoadedExact' /\ ClearsUnheld'
  BY <1>3 DEF IInv, DepthCountsHolders, LoadedExact, ClearsUnheld, UpTo
<1>5. LockedForAReason' /\ HeldMeansLocked'
  BY DEF IInv, LockedForAReason, HeldMeansLocked
<1>6. QED
  BY <1>1, <1>2, <1>4, <1>5 DEF IInv

LEMMA InterruptPreserves == ASSUME IInv, Interrupt PROVE IInv'
<1>1. level \in Levels /\ level < MaxLevel /\ level' = level + 1
  BY DEF IInv, TypeOK, Interrupt
<1>2. level' \in Levels /\ \A c \in Levels : c > level' => c > level
  BY <1>1, SpinlockAssumption DEF Levels
<1>3. UNCHANGED <<locked, depth, pc, loaded, holds>>
  BY DEF Interrupt
<1>4. QED
  BY <1>2, <1>3, OnlyLevelChanges DEF IInv, LevelShape

LEMMA ReturnPreserves == ASSUME IInv, NEW c \in Levels, Return(c) PROVE IInv'
<1>1. /\ c > 0 /\ level = c /\ pc[c] = "idle" /\ holds[c] = 0 /\ level' = c - 1
      /\ UNCHANGED <<locked, depth, pc, loaded, holds>>
  BY DEF Return, At
<1>2. level' \in Levels /\ \A d \in Levels : d > level' => d > level \/ d = c
  BY <1>1, SpinlockAssumption DEF Levels
<1>3. \A d \in Levels : d > level' => pc[d] = "idle" /\ holds[d] = 0
  BY <1>1, <1>2 DEF IInv, LevelShape
<1>4. QED
  BY <1>1, <1>2, <1>3, OnlyLevelChanges

-------------------------------------------------------------------------------
LEMMA NextPreserves == ASSUME IInv, [Next]_vars PROVE IInv'
<1>1. ASSUME NEW c \in Levels,
             Inside(c) \/ lock_spinlock(c) \/ unlock_spinlock(c) \/ is_locked_spinlock(c) \/ Return(c)
      PROVE  IInv'
  BY <1>1, LockPreserves, IncrementPreserves, SpinPreserves, UnlockPreserves,
     CheckUnlockPreserves, LoadPreserves, DecrementPreserves, TestPreserves, ClearPreserves,
     IsLockedPreserves, CheckAskedPreserves, ReturnPreserves DEF Inside
<1>2. CASE Interrupt
  BY <1>2, InterruptPreserves
<1>3. CASE UNCHANGED vars
  BY <1>3, OnlyLevelChanges DEF vars, IInv, TypeOK, LevelShape
<1>4. QED
  BY <1>1, <1>2, <1>3 DEF Next

(* The inductive invariant: depth counts the claims, what a suspended      *)
(* level has loaded still counts those up to it, and only a lock without   *)
(* a claim is cleared (spinlock.c:10-23).                                  *)
THEOREM InvariantHolds == Spec => []IInv
<1>1. Init => IInv
  BY InitHolds
<1>2. IInv /\ [Next]_vars => IInv'
  BY NextPreserves
<1>3. QED
  BY <1>1, <1>2, PTL DEF Spec

(* The assertion of unlock_spinlock holds for every holder (spinlock.c:17). *)
THEOREM AssertionHolds == Spec => []UnlockAsserts
<1>1. IInv => UnlockAsserts
  BY HolderMayUnlock DEF UnlockAsserts
<1>2. QED
  BY <1>1, InvariantHolds, PTL

(* The counter is exact at any nesting, although its updates can be        *)
(* interrupted in the middle (spinlock.c:11, 18).                          *)
THEOREM CounterExact == Spec => []DepthCountsHolders
<1>1. IInv => DepthCountsHolders
  BY DEF IInv
<1>2. QED
  BY <1>1, InvariantHolds, PTL

(* No unlock frees the lock under a level that holds it                    *)
(* (spinlock.c:18-21).                                                     *)
THEOREM HeldIsLocked == Spec => []HeldMeansLocked
<1>1. IInv => HeldMeansLocked
  BY DEF IInv
<1>2. QED
  BY <1>1, InvariantHolds, PTL

(* A lock without a claim, that nobody is unlocking, is free.              *)
LEMMA UnclaimedIsFree == ASSUME IInv PROVE FreeWhenUnused
<1> SUFFICES ASSUME \A c \in Levels : pc[c] = "idle" /\ holds[c] = 0
             PROVE  locked = 0 /\ depth = 0
  BY DEF FreeWhenUnused
<1>1. /\ depth = SumFunctionOnSet(Claims, Levels) /\ DOMAIN Claims = Levels
      /\ locked \in {0, 1}
  BY DepthFacts DEF IInv, TypeOK
<1>2. \A c \in Levels : Claims[c] \in 0 .. 0
  BY DEF Claims
<1>3. depth \in 0 .. (0 * Cardinality(Levels))
  BY <1>1, <1>2, LevelsFinite, SumBounds
<1>4. depth = 0
  BY <1>3, LevelsFinite, SpinlockAssumption
<1>5. locked = 0
  BY <1>1, <1>4 DEF IInv, LockedForAReason
<1>6. QED
  BY <1>4, <1>5

(* No interleaving leaves the lock locked for ever (spinlock.c:19-22).     *)
THEOREM UnusedIsFree == Spec => []FreeWhenUnused
<1>1. IInv => FreeWhenUnused
  BY UnclaimedIsFree
<1>2. QED
  BY <1>1, InvariantHolds, PTL

(* As long as only the kernel's own code asks, and no handler, the         *)
(* assertion in is_locked_spinlock never fails: the lock is inconsistent   *)
(* only while the level below is unlocking it (spinlock.c:18-21, 27-28).   *)
(* Code that found the lock locked holds it, however long handlers         *)
(* suspend it before it reads depth.                                       *)
AskedBelow == \A c \in Levels : pc[c] # "aborted" /\ (pc[c] = "asked" => holds[c] > 0)

(* The other steps of a level do not go where an assertion fails.          *)
ElseWhere == {"increment", "spin", "test", "clear", "decrement", "idle"} \union Asserting

LEMMA OthersGo ==
  ASSUME IInv, NEW c \in Levels,
         Increment(c) \/ Spin(c) \/ Load(c) \/ Decrement(c) \/ Test(c) \/ Clear(c)
           \/ lock_spinlock(c) \/ unlock_spinlock(c)
  PROVE  /\ \A d \in Levels \ {c} : pc'[d] = pc[d] /\ holds'[d] = holds[d]
         /\ pc'[c] \in ElseWhere
<1>1. pc \in [Levels -> Steps] /\ holds \in [Levels -> 0 .. MaxHold]
  BY DEF IInv, TypeOK
<1>2. QED
  BY <1>1 DEF Increment, Spin, ExchangeUntil, Load, Decrement, StoreDepth, Test, TestDepth,
              Clear, lock_spinlock, unlock_spinlock, Goto, At, ElseWhere, Asserting

LEMMA AskedStays ==
  ASSUME Askers \subseteq {0}, IInv, AskedBelow, [Next]_vars
  PROVE  AskedBelow'
<1>1. pc \in [Levels -> Steps] /\ level \in Levels
  BY DEF IInv, TypeOK
<1>2. ASSUME NEW c \in Levels, is_locked_spinlock(c) PROVE AskedBelow'
  <2>1. c = 0 /\ level = 0 /\ pc[c] = "idle" /\ holds' = holds
        /\ pc' = [pc EXCEPT ![c] = IF locked = 1 THEN "asked" ELSE "idle"]
    BY <1>2 DEF is_locked_spinlock, At, Goto
  <2>2. \A d \in Levels : d = 0 \/ d > level
    BY <2>1, SpinlockAssumption DEF Levels
  <2>3. \A d \in Levels : d # 0 => pc[d] = "idle" /\ holds[d] = 0
    BY <2>2 DEF IInv, LevelShape
  <2>4. locked = 1 => holds[c] # 0
    BY <2>1, <2>3, UnclaimedIsFree DEF FreeWhenUnused
  <2>5. holds[c] \in Nat
    BY DepthFacts
  <2>6. QED
    BY <1>1, <2>1, <2>4, <2>5 DEF AskedBelow
<1>3. ASSUME NEW c \in Levels, CheckAsked(c) PROVE AskedBelow'
  <2>1. pc[c] = "asked" /\ holds' = holds
        /\ pc' = [pc EXCEPT ![c] = IF depth > 0 THEN "idle" ELSE "aborted"]
    BY <1>3 DEF CheckAsked, Assertion, At, Goto
  <2>2. depth > 0
    BY <2>1, HolderMayUnlock DEF AskedBelow
  <2>3. QED
    BY <1>1, <2>1, <2>2 DEF AskedBelow
<1>4. ASSUME NEW c \in Levels, CheckUnlock(c) PROVE AskedBelow'
  <2>1. holds' = holds /\ pc[c] \in Asserting
    BY <1>4 DEF CheckUnlock, Assertion, At, Asserting
  <2>2. locked = 1 /\ depth > 0
    BY <2>1, HolderMayUnlock DEF IInv, LevelShape
  <2>3. PICK w \in Asserting : pc' = [pc EXCEPT ![c] = w]
    BY <1>4, <2>2 DEF CheckUnlock, Assertion, Goto, Asserting
  <2>4. QED
    BY <1>1, <2>1, <2>3 DEF AskedBelow, Asserting
<1>5. ASSUME NEW c \in Levels,
             Increment(c) \/ Spin(c) \/ Load(c) \/ Decrement(c) \/ Test(c) \/ Clear(c)
               \/ lock_spinlock(c) \/ unlock_spinlock(c)
      PROVE  AskedBelow'
  BY <1>5, OthersGo DEF AskedBelow, ElseWhere, Asserting
<1>6. CASE (\E c \in Levels : Return(c)) \/ Interrupt \/ UNCHANGED vars
  BY <1>6 DEF Return, Interrupt, vars, AskedBelow
<1>7. QED
  BY <1>2, <1>3, <1>4, <1>5, <1>6 DEF Next, Inside

THEOREM AskingBelowIsSafe == ASSUME Askers \subseteq {0} PROVE Spec => []LockedMeansDepth
<1>1. Init => AskedBelow
  BY DEF Init, AskedBelow
<1>2. IInv /\ AskedBelow /\ [Next]_vars => AskedBelow'
  BY AskedStays
<1>3. AskedBelow => LockedMeansDepth
  BY SpinlockAssumption DEF AskedBelow, LockedMeansDepth, At
<1>4. QED
  BY <1>1, <1>2, <1>3, InvariantHolds, PTL DEF Spec
===============================================================================
