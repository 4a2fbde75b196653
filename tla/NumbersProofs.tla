---------------------------- MODULE NumbersProofs -----------------------------
(***************************************************************************)
(* Theorems about the printing of numbers (module Numbers), for every      *)
(* width of the integers.                                                  *)
(***************************************************************************)
EXTENDS Numbers, WellFoundedInduction, TLAPS

-------------------------------------------------------------------------------
(***************************************************************************)
(* Induction, by the least counterexample.                                 *)
(***************************************************************************)
Less == {ss \in Nat \X Nat : ss[1] < ss[2]}

LEMMA InductionOverSet ==
  ASSUME NEW T \in SUBSET Nat, 0 \in T, \A n \in Nat : n \in T => n + 1 \in T
  PROVE  T = Nat
<1> SUFFICES ASSUME Nat \ T # {} PROVE FALSE
  OBVIOUS
<1>1. IsWellFoundedOn(Less, Nat)
  BY NatLessThanWellFounded, Zenon DEF OpToRel, Less
<1>2. PICK n \in Nat \ T : \A m \in Nat \ T : ~(<<m, n>> \in Less)
  <2>1. Nat \ T \subseteq Nat
    OBVIOUS
  <2>2. QED
    BY <1>1, <2>1, WFMin
<1>3. \A m \in Nat \ T : ~(m < n)
  BY <1>2 DEF Less
<1>4. n - 1 \in Nat /\ n - 1 \in T
  BY <1>3
<1>5. n - 1 + 1 \in T
  BY <1>4
<1>6. QED
  BY <1>5

-------------------------------------------------------------------------------
(***************************************************************************)
(* Functions defined by v[0] = a, v[k + 1] = v[k] * b + d[k + 1]: they     *)
(* exist, and where their digits agree they do.                            *)
(***************************************************************************)
IsPart(v, n, a, b, d) ==
  /\ v \in [0 .. n -> Nat]
  /\ v[0] = a
  /\ \A k \in 0 .. n - 1 : v[k + 1] = v[k] * b + d[k + 1]

LEMMA PartExists ==
  ASSUME NEW a \in Nat, NEW b \in Nat, NEW d \in [Nat -> Nat]
  PROVE  \A n \in Nat : \E v : IsPart(v, n, a, b, d)
<1> DEFINE T == {n \in Nat : \E v : IsPart(v, n, a, b, d)}
<1>1. 0 \in T
  <2>1. IsPart([k \in 0 .. 0 |-> a], 0, a, b, d)
    BY DEF IsPart
  <2>2. QED
    BY <2>1
<1>2. ASSUME NEW n \in Nat, n \in T PROVE n + 1 \in T
  <2>1. PICK v : IsPart(v, n, a, b, d)
    BY <1>2
  <2>2. PICK e \in Nat : e = v[n] * b + d[n + 1]
    <3>1. n \in 0 .. n /\ n + 1 \in Nat
      OBVIOUS
    <3>2. v[n] \in Nat /\ d[n + 1] \in Nat
      BY <2>1, <3>1 DEF IsPart
    <3>3. QED
      BY <3>2
  <2>3. PICK w : w = [k \in 0 .. n + 1 |-> IF k = n + 1 THEN e ELSE v[k]]
    OBVIOUS
  <2>4. w \in [0 .. n + 1 -> Nat]
    <3>1. ASSUME NEW k \in 0 .. n + 1, k # n + 1 PROVE v[k] \in Nat
      <4>1. k \in 0 .. n
        BY <3>1
      <4>2. QED
        BY <2>1, <4>1 DEF IsPart
    <3>2. QED
      BY <2>3, <3>1
  <2>5. w[0] = a
    BY <2>1, <2>3 DEF IsPart
  <2>6. ASSUME NEW k \in 0 .. n PROVE w[k + 1] = w[k] * b + d[k + 1]
    <3>1. w[k] = v[k]
      BY <2>3
    <3>2. CASE k = n
      BY <2>2, <2>3, <3>1, <3>2
    <3>3. CASE k # n
      <4>1. k \in 0 .. n - 1 /\ w[k + 1] = v[k + 1]
        BY <2>3, <3>3
      <4>2. QED
        BY <2>1, <3>1, <4>1 DEF IsPart
    <3>4. QED
      BY <3>2, <3>3
  <2>7. IsPart(w, n + 1, a, b, d)
    <3>1. \A k \in 0 .. (n + 1) - 1 : w[k + 1] = w[k] * b + d[k + 1]
      <4>1. 0 .. (n + 1) - 1 = 0 .. n
        OBVIOUS
      <4>2. QED
        BY <2>6, <4>1
    <3>2. QED
      BY <2>4, <2>5, <2>6, <3>1 DEF IsPart
  <2>8. QED
    BY <2>7
<1>3. T = Nat
  BY <1>1, <1>2, InductionOverSet
<1>4. QED
  BY <1>3

LEMMA PartUnique ==
  ASSUME NEW v, NEW w, NEW n \in Nat, NEW m \in Nat, NEW a, NEW b, NEW d, NEW e, n =< m,
         IsPart(v, n, a, b, d), IsPart(w, m, a, b, e), \A k \in 1 .. n : d[k] = e[k]
  PROVE  \A k \in 0 .. n : v[k] = w[k]
<1> DEFINE T == {k \in Nat : k =< n => v[k] = w[k]}
<1>1. 0 \in T
  BY DEF IsPart
<1>2. ASSUME NEW k \in Nat, k \in T PROVE k + 1 \in T
  <2>1. SUFFICES ASSUME k + 1 =< n PROVE v[k + 1] = w[k + 1]
    OBVIOUS
  <2>2. v[k] = w[k] /\ k \in 0 .. n - 1 /\ k \in 0 .. m - 1 /\ k + 1 \in 1 .. n
    BY <1>2, <2>1
  <2>3. v[k + 1] = v[k] * b + d[k + 1] /\ w[k + 1] = w[k] * b + e[k + 1]
    BY <2>2 DEF IsPart
  <2>4. d[k + 1] = e[k + 1]
    BY <2>2
  <2>5. QED
    BY <2>2, <2>3, <2>4
<1>3. T = Nat
  BY <1>1, <1>2, InductionOverSet
<1>4. QED
  BY <1>3

LEMMA WholeExists ==
  ASSUME NEW a \in Nat, NEW b \in Nat, NEW d \in [Nat -> Nat]
  PROVE  \E v \in [Nat -> Nat] : v[0] = a /\ \A k \in Nat : v[k + 1] = v[k] * b + d[k + 1]
<1> DEFINE part(n) == CHOOSE v : IsPart(v, n, a, b, d)
<1>1. ASSUME NEW n \in Nat PROVE IsPart(part(n), n, a, b, d)
  BY PartExists
<1> HIDE DEF part
<1>2. PICK v : v = [n \in Nat |-> part(n)[n]]
  OBVIOUS
<1>3. ASSUME NEW n \in Nat PROVE v[n] \in Nat
  BY <1>1, <1>2 DEF IsPart
<1>4. v \in [Nat -> Nat]
  BY <1>2, <1>3
<1>5. v[0] = a
  BY <1>1, <1>2 DEF IsPart
<1>6. ASSUME NEW n \in Nat PROVE v[n + 1] = v[n] * b + d[n + 1]
  <2>1. IsPart(part(n), n, a, b, d) /\ IsPart(part(n + 1), n + 1, a, b, d)
    BY <1>1
  <2>2. \A k \in 0 .. n : part(n)[k] = part(n + 1)[k]
    BY <2>1, PartUnique
  <2>3. part(n + 1)[n + 1] = part(n + 1)[n] * b + d[n + 1]
    BY <2>1 DEF IsPart
  <2>4. v[n] = part(n + 1)[n] /\ v[n + 1] = part(n + 1)[n + 1]
    BY <1>2, <2>2
  <2>5. QED
    BY <2>3, <2>4
<1>7. QED
  BY <1>4, <1>5, <1>6

-------------------------------------------------------------------------------
(***************************************************************************)
(* Division.                                                               *)
(***************************************************************************)
LEMMA DividedBy ==
  ASSUME NEW a \in Nat, NEW b \in Nat \ {0}
  PROVE  \E q, r \in Nat : q = a \div b /\ r = a % b /\ r < b /\ a = b * q + r
<1>1. \E q, r \in Int : q = a \div b /\ r = a % b /\ a = b * q + r
  OBVIOUS
<1>2. PICK q \in Int, r \in Int : q = a \div b /\ r = a % b /\ a = b * q + r
  BY <1>1
<1>3. q \in Nat /\ r \in Nat /\ r < b
  BY <1>2
<1>4. QED
  BY <1>2, <1>3

(* There is but one of each.                                               *)
LEMMA DivisionUnique ==
  ASSUME NEW b \in Nat \ {0}, NEW q \in Nat, NEW r \in Nat, r < b
  PROVE  (b * q + r) \div b = q /\ (b * q + r) % b = r
<1>1. PICK a \in Nat : a = b * q + r
  OBVIOUS
<1>2. PICK p, s \in Nat : p = a \div b /\ s = a % b /\ s < b /\ a = b * p + s
  BY DividedBy
<1>3. b * (p - q) = r - s
  <2>1. b * (p - q) = b * p - b * q
    OBVIOUS
  <2>2. b * p \in Int /\ b * q \in Int
    OBVIOUS
  <2>3. QED
    BY <1>1, <1>2, <2>1, <2>2
<1>4. ~(p - q >= 1)
  <2>1. SUFFICES ASSUME p - q >= 1 PROVE FALSE
    OBVIOUS
  <2>2. b * (p - q) >= b * 1
    BY <2>1
  <2>3. QED
    BY <1>2, <1>3, <2>2
<1>5. ~(p - q =< -1)
  <2>1. SUFFICES ASSUME q - p >= 1 PROVE FALSE
    OBVIOUS
  <2>2. b * (q - p) >= b * 1 /\ b * (q - p) = -(b * (p - q))
    BY <2>1
  <2>3. QED
    BY <1>2, <1>3, <2>2
<1>6. p = q
  BY <1>4, <1>5
<1>7. QED
  BY <1>1, <1>2, <1>6

(* Dividing by a product is dividing twice.                                *)
LEMMA DividedTwice ==
  ASSUME NEW a \in Nat, NEW b \in Nat \ {0}, NEW c \in Nat \ {0}
  PROVE  a \div (b * c) = (a \div b) \div c
<1>1. PICK q, r \in Nat : q = a \div b /\ r = a % b /\ r < b /\ a = b * q + r
  BY DividedBy
<1>2. PICK p, s \in Nat : p = q \div c /\ s = q % c /\ s < c /\ q = c * p + s
  BY DividedBy
<1>3. PICK t \in Nat : t = b * s + r
  OBVIOUS
<1>4. PICK d \in Nat \ {0} : d = b * c
  OBVIOUS
<1>5. t < d
  <2>1. b * s =< b * (c - 1) /\ b * (c - 1) = b * c - b
    BY <1>2
  <2>2. b * s \in Nat /\ b * c \in Nat
    OBVIOUS
  <2>3. QED
    BY <1>1, <1>3, <1>4, <2>1, <2>2
<1>6. a = d * p + t
  <2>1. PICK u \in Nat : u = (b * c) * p
    OBVIOUS
  <2>2. PICK v \in Nat : v = b * s
    OBVIOUS
  <2>3. b * (c * p + s) = u + v
    <3>1. b * (c * p + s) = (b * c) * p + b * s
      OBVIOUS
    <3>2. QED
      BY <3>1, <2>1, <2>2
  <2>4. b * q = u + v
    BY <1>2, <2>3, Zenon
  <2>5. a = u + v + r /\ t = v + r
    <3>1. PICK w \in Nat : w = b * q
      OBVIOUS
    <3>2. QED
      BY <1>1, <1>3, <2>2, <2>4
  <2>6. a = u + t
    BY <2>5
  <2>7. QED
    BY <1>4, <2>1, <2>6, Zenon
<1>7. a \div d = p /\ a % d = t
  BY <1>5, <1>6, DivisionUnique
<1>8. a \div (b * c) = p /\ a % (b * c) = t
  BY <1>4, <1>7, Zenon
<1>9. (a \div b) \div c = p
  BY <1>1, <1>2, Zenon
<1>10. QED
  BY <1>8, <1>9, Zenon

-------------------------------------------------------------------------------
(***************************************************************************)
(* Powers.                                                                 *)
(***************************************************************************)
LEMMA PowerUnfolds ==
  ASSUME NEW b \in Nat
  PROVE  /\ Power(b, 0) = 1
         /\ \A n \in Nat : Power(b, n) \in Nat /\ Power(b, n + 1) = Power(b, n) * b
<1> DEFINE Body(p) == [k \in Nat |-> IF k = 0 THEN 1 ELSE p[k - 1] * b]
           pow     == CHOOSE p : p = Body(p)
<1>1. PICK v \in [Nat -> Nat] : v[0] = 1 /\ \A k \in Nat : v[k + 1] = v[k] * b + 0
  <2>1. PICK d : d = [k \in Nat |-> 0]
    OBVIOUS
  <2>2. d \in [Nat -> Nat] /\ 1 \in Nat
    BY <2>1
  <2>3. PICK v \in [Nat -> Nat] : v[0] = 1 /\ \A k \in Nat : v[k + 1] = v[k] * b + d[k + 1]
    BY <2>2, WholeExists
  <2>4. QED
    BY <2>1, <2>3
<1>2. v = Body(v)
  <2>1. ASSUME NEW k \in Nat PROVE v[k] = IF k = 0 THEN 1 ELSE v[k - 1] * b
    <3>1. CASE k = 0
      BY <1>1, <3>1
    <3>2. CASE k # 0
      <4>1. k - 1 \in Nat /\ k - 1 + 1 = k
        BY <3>2
      <4>2. v[k - 1 + 1] = v[k - 1] * b + 0 /\ v[k - 1] * b \in Nat
        BY <1>1, <4>1
      <4>3. QED
        BY <3>2, <4>1, <4>2
    <3>3. QED
      BY <3>1, <3>2
  <2>2. QED
    BY <2>1
<1>3. pow = Body(pow)
  BY <1>2
<1>4. \A n : Power(b, n) = pow[n]
  BY DEF Power
<1> HIDE DEF pow
<1>5. pow[0] = 1 /\ \A n \in Nat : pow[n + 1] = pow[n] * b
  BY <1>3
<1> DEFINE T == {n \in Nat : pow[n] \in Nat}
<1>6. 0 \in T
  BY <1>5
<1>7. ASSUME NEW n \in Nat, n \in T PROVE n + 1 \in T
  BY <1>5, <1>7
<1>8. T = Nat
  BY <1>6, <1>7, InductionOverSet
<1>9. \A n \in Nat : pow[n] \in Nat
  BY <1>8
<1> HIDE DEF T
<1>10. QED
  BY <1>4, <1>5, <1>9

LEMMA PowerPositive ==
  ASSUME NEW b \in Nat, b >= 1 PROVE \A n \in Nat : Power(b, n) >= 1
<1> DEFINE T == {n \in Nat : Power(b, n) >= 1}
<1>1. 0 \in T
  BY PowerUnfolds
<1>2. ASSUME NEW n \in Nat, n \in T PROVE n + 1 \in T
  <2>1. PICK p \in Nat : p = Power(b, n) /\ p >= 1 /\ Power(b, n + 1) = p * b
    BY <1>2, PowerUnfolds
  <2>2. p * b >= 1
    BY <2>1
  <2>3. QED
    BY <2>1, <2>2
<1>3. T = Nat
  BY <1>1, <1>2, InductionOverSet
<1>4. QED
  BY <1>3

LEMMA PowerGrows ==
  ASSUME NEW b \in Nat, b >= 1, NEW m \in Nat
  PROVE  \A k \in Nat : Power(b, m) =< Power(b, m + k)
<1> DEFINE T == {k \in Nat : Power(b, m) =< Power(b, m + k)}
<1>1. 0 \in T
  BY PowerUnfolds
<1>2. ASSUME NEW k \in Nat, k \in T PROVE k + 1 \in T
  <2>1. PICK p \in Nat, q \in Nat : p = Power(b, m) /\ q = Power(b, m + k) /\ p =< q
                                     /\ Power(b, m + k + 1) = q * b
    <3>1. m + k \in Nat
      OBVIOUS
    <3>2. Power(b, m) \in Nat /\ Power(b, m + k) \in Nat
      BY <3>1, PowerUnfolds
    <3>3. Power(b, m + k + 1) = Power(b, m + k) * b
      BY <3>1, PowerUnfolds
    <3>4. QED
      BY <1>2, <3>2, <3>3
  <2>2. q * b >= q * 1
    BY <2>1
  <2>3. m + (k + 1) = m + k + 1
    OBVIOUS
  <2>4. QED
    BY <2>1, <2>2, <2>3
<1>3. T = Nat
  BY <1>1, <1>2, InductionOverSet
<1>4. QED
  BY <1>3

(* A digit in a base of 8 or more is worth at least three bits.            *)
LEMMA ThreeBits ==
  ASSUME NEW b \in Nat, b >= 8
  PROVE  \A k \in Nat : Power(2, 3 * k) =< Power(b, k)
<1> DEFINE T == {k \in Nat : Power(2, 3 * k) =< Power(b, k)}
<1>0. 2 \in Nat
  OBVIOUS
<1>1. 0 \in T
  <2>1. 3 * 0 = 0
    OBVIOUS
  <2>2. QED
    BY <1>0, <2>1, PowerUnfolds
<1>2. ASSUME NEW k \in Nat, k \in T PROVE k + 1 \in T
  <2>1. PICK p \in Nat, q \in Nat : p = Power(2, 3 * k) /\ q = Power(b, k) /\ p =< q
                                     /\ Power(b, k + 1) = q * b
    BY <1>0, <1>2, PowerUnfolds
  <2>2. PICK n \in Nat : n = 3 * k /\ 3 * (k + 1) = n + 1 + 1 + 1
    OBVIOUS
  <2>3. Power(2, n + 1 + 1 + 1) = p * 2 * 2 * 2
    <3>1. Power(2, n + 1) = p * 2
      BY <1>0, <2>1, <2>2, PowerUnfolds
    <3>2. Power(2, n + 1 + 1) = p * 2 * 2
      BY <1>0, <3>1, PowerUnfolds
    <3>3. QED
      BY <1>0, <3>2, PowerUnfolds
  <2>4. q * b >= q * 8
    BY <2>1
  <2>5. p * 2 * 2 * 2 =< q * b
    BY <2>1, <2>4
  <2>6. QED
    BY <2>1, <2>2, <2>3, <2>5
<1>3. T = Nat
  BY <1>1, <1>2, InductionOverSet
<1>4. QED
  BY <1>3

-------------------------------------------------------------------------------
(***************************************************************************)
(* The value of a sequence of digits.                                      *)
(***************************************************************************)
LEMMA ValueIsPart ==
  ASSUME NEW b \in Nat, NEW ds \in Seq(Nat)
  PROVE  \E v : IsPart(v, Len(ds), 0, b, ds) /\ Value(b, ds) = v[Len(ds)]
<1> DEFINE Body(p) == [k \in 0 .. Len(ds) |-> IF k = 0 THEN 0 ELSE p[k - 1] * b + ds[k]]
           val     == CHOOSE p : p = Body(p)
<1>1. PICK n \in Nat : n = Len(ds)
  OBVIOUS
<1>2. PICK v : IsPart(v, n, 0, b, ds)
  <2>1. PICK d : d = [k \in Nat |-> IF k \in 1 .. n THEN ds[k] ELSE 0]
    OBVIOUS
  <2>2. \A k \in 1 .. n : ds[k] \in Nat
    BY <1>1
  <2>3. d \in [Nat -> Nat] /\ 0 \in Nat
    BY <2>1, <2>2
  <2>4. PICK v : IsPart(v, n, 0, b, d)
    BY <2>3, PartExists
  <2>5. ASSUME NEW k \in 0 .. n - 1 PROVE v[k + 1] = v[k] * b + ds[k + 1]
    <3>1. d[k + 1] = ds[k + 1]
      BY <2>1
    <3>2. v[k + 1] = v[k] * b + d[k + 1]
      BY <2>4 DEF IsPart
    <3>3. QED
      BY <3>1, <3>2
  <2>6. IsPart(v, n, 0, b, ds)
    BY <2>4, <2>5 DEF IsPart
  <2>7. QED
    BY <2>6
<1>3. v = Body(v)
  <2>1. ASSUME NEW k \in 0 .. n PROVE v[k] = IF k = 0 THEN 0 ELSE v[k - 1] * b + ds[k]
    <3>1. CASE k = 0
      BY <1>2, <3>1 DEF IsPart
    <3>2. CASE k # 0
      <4>1. k - 1 \in 0 .. n - 1 /\ k - 1 + 1 = k
        BY <3>2
      <4>2. v[k - 1 + 1] = v[k - 1] * b + ds[k - 1 + 1]
        BY <1>2, <4>1 DEF IsPart
      <4>3. QED
        BY <3>2, <4>1, <4>2
    <3>3. QED
      BY <3>1, <3>2
  <2>2. v = [k \in 0 .. n |-> v[k]]
    BY <1>2 DEF IsPart
  <2>3. QED
    BY <1>1, <2>1, <2>2
<1>4. val = Body(val)
  BY <1>3
<1>5. Value(b, ds) = val[Len(ds)]
  BY DEF Value
<1> HIDE DEF val
<1>6. val[0] = 0 /\ \A k \in 0 .. n - 1 : val[k + 1] = val[k] * b + ds[k + 1]
  <2>1. val[0] = 0
    BY <1>1, <1>4
  <2>2. ASSUME NEW k \in 0 .. n - 1 PROVE val[k + 1] = val[k] * b + ds[k + 1]
    <3>1. k + 1 \in 0 .. n /\ k + 1 # 0 /\ (k + 1) - 1 = k
      OBVIOUS
    <3>2. val[k + 1] = val[(k + 1) - 1] * b + ds[k + 1]
      BY <1>1, <1>4, <3>1
    <3>3. QED
      BY <3>1, <3>2
  <2>3. QED
    BY <2>1, <2>2
<1> DEFINE T == {k \in Nat : k =< n => val[k] = v[k]}
<1>7. 0 \in T
  BY <1>2, <1>6 DEF IsPart
<1>8. ASSUME NEW k \in Nat, k \in T PROVE k + 1 \in T
  <2>1. SUFFICES ASSUME k + 1 =< n PROVE val[k + 1] = v[k + 1]
    OBVIOUS
  <2>2. k \in 0 .. n - 1 /\ val[k] = v[k]
    BY <1>8, <2>1
  <2>3. v[k + 1] = v[k] * b + ds[k + 1]
    BY <1>2, <2>2 DEF IsPart
  <2>4. QED
    BY <1>6, <2>2, <2>3
<1>9. T = Nat
  BY <1>7, <1>8, InductionOverSet
<1>10. val[n] = v[n]
  BY <1>9
<1>11. QED
  BY <1>1, <1>2, <1>5, <1>10

LEMMA ValueOfNone == ASSUME NEW b \in Nat PROVE Value(b, <<>>) = 0
<1>1. <<>> \in Seq(Nat) /\ Len(<<>>) = 0
  OBVIOUS
<1>2. PICK v : IsPart(v, Len(<<>>), 0, b, <<>>) /\ Value(b, <<>>) = v[Len(<<>>)]
  BY <1>1, ValueIsPart
<1>3. QED
  BY <1>1, <1>2 DEF IsPart

(* A digit more multiplies the value by the base and adds the digit.       *)
LEMMA ValueOfMore ==
  ASSUME NEW b \in Nat, NEW ds \in Seq(Nat), NEW x \in Nat
  PROVE  Value(b, ds) \in Nat /\ Value(b, Append(ds, x)) = Value(b, ds) * b + x
<1>1. PICK n \in Nat, es \in Seq(Nat) : n = Len(ds) /\ es = Append(ds, x) /\ Len(es) = n + 1
  <2>1. Len(ds) \in Nat /\ Append(ds, x) \in Seq(Nat) /\ Len(Append(ds, x)) = Len(ds) + 1
    OBVIOUS
  <2>2. QED
    BY <2>1, Zenon
<1>2. PICK v : IsPart(v, n, 0, b, ds) /\ Value(b, ds) = v[n]
  BY <1>1, ValueIsPart
<1>3. PICK w : IsPart(w, n + 1, 0, b, es) /\ Value(b, es) = w[n + 1]
  <2>1. PICK w : IsPart(w, Len(es), 0, b, es) /\ Value(b, es) = w[Len(es)]
    BY ValueIsPart
  <2>2. QED
    BY <1>1, <2>1
<1>4. (\A k \in 1 .. n : ds[k] = es[k]) /\ es[n + 1] = x
  BY <1>1
<1>5. v[n] = w[n]
  <2>1. n =< n + 1 /\ n + 1 \in Nat
    OBVIOUS
  <2>2. \A k \in 0 .. n : v[k] = w[k]
    BY <1>2, <1>3, <1>4, <2>1, PartUnique
  <2>3. QED
    BY <2>2
<1>6. w[n + 1] = w[n] * b + es[n + 1]
  <2>1. n \in 0 .. (n + 1) - 1
    OBVIOUS
  <2>2. QED
    BY <1>3, <2>1 DEF IsPart
<1>7. v[n] \in Nat
  BY <1>2 DEF IsPart
<1>8. Value(b, es) = Value(b, ds) * b + x
  BY <1>2, <1>3, <1>4, <1>5, <1>6
<1>9. QED
  BY <1>1, <1>2, <1>7, <1>8

-------------------------------------------------------------------------------
(***************************************************************************)
(* The leading parts of a number.                                          *)
(***************************************************************************)
(* The number M without its last k digits.                                 *)
Part(M, b, k) == M \div Power(b, k)

LEMMA PartFacts ==
  ASSUME NEW M \in Nat, NEW b \in Nat, b >= 1, NEW k \in Nat
  PROVE  /\ Part(M, b, 0) = M
         /\ Part(M, b, k) \in Nat
         /\ Power(b, k) * Part(M, b, k) =< M
         /\ Part(M, b, k + 1) = Part(M, b, k) \div b
         /\ \E r \in Nat : /\ r = Part(M, b, k) % b /\ r < b
                           /\ Part(M, b, k) = b * Part(M, b, k + 1) + r
<1>1. PICK p \in Nat \ {0} : p = Power(b, k)
  BY PowerUnfolds, PowerPositive
<1>2. PICK q, r \in Nat : q = M \div p /\ r = M % p /\ r < p /\ M = p * q + r
  BY DividedBy
<1>3. Part(M, b, k) = q
  BY <1>1, <1>2, Zenon DEF Part
<1>4. p * q =< M
  <2>1. PICK t \in Nat : t = p * q
    OBVIOUS
  <2>2. QED
    BY <1>2, <2>1
<1>5. Part(M, b, 0) = M
  <2>1. M \div 1 = M
    OBVIOUS
  <2>2. QED
    BY <2>1, PowerUnfolds DEF Part
<1>6. Part(M, b, k + 1) = q \div b
  <2>1. b \in Nat \ {0}
    OBVIOUS
  <2>2. M \div (p * b) = (M \div p) \div b
    BY <2>1, DividedTwice
  <2>3. Power(b, k + 1) = p * b
    BY <1>1, PowerUnfolds
  <2>4. QED
    BY <1>2, <2>2, <2>3 DEF Part
<1>7. PICK s, t \in Nat : s = q \div b /\ t = q % b /\ t < b /\ q = b * s + t
  <2>1. b \in Nat \ {0}
    OBVIOUS
  <2>2. QED
    BY <2>1, DividedBy
<1>8. QED
  BY <1>1, <1>3, <1>4, <1>5, <1>6, <1>7

(* The next digit of the number is what the division by the base leaves.   *)
DigitTaken(M, b, k) ==
  \E p, q, r \in Nat : /\ p = Part(M, b, k) /\ q = Part(M, b, k + 1)
                       /\ q = p \div b /\ r = p % b
                       /\ r < b /\ p = b * q + r

LEMMA PartNext ==
  ASSUME NEW M \in Nat, NEW b \in Nat, b >= 2
  PROVE  \A k \in Nat : DigitTaken(M, b, k)
<1> TAKE k \in Nat
<1>1. b >= 1 /\ k + 1 \in Nat
  OBVIOUS
<1>2. PICK p \in Nat : p = Part(M, b, k)
  BY <1>1, PartFacts
<1>3. PICK q \in Nat : q = Part(M, b, k + 1)
  BY <1>1, PartFacts
<1>4. q = p \div b
  BY <1>1, <1>2, <1>3, PartFacts
<1>5. PICK r \in Nat : r = p % b /\ r < b /\ p = b * q + r
  BY <1>1, <1>2, <1>3, PartFacts
<1>6. QED
  BY <1>2, <1>3, <1>4, <1>5 DEF DigitTaken

(* Behind a leading part of at most the base there are none greater than   *)
(* one.                                                                    *)
LEMMA PartsBehind ==
  ASSUME NEW M \in Nat, NEW b \in Nat, b >= 2, NEW d \in Nat, Part(M, b, d) =< b
  PROVE  \A k \in Nat : Part(M, b, d + 1 + k) =< 1
<1> DEFINE T == {k \in Nat : Part(M, b, d + 1 + k) =< 1}
<1>1. ASSUME NEW n \in Nat, n =< b PROVE n \div b =< 1
  <2>1. b \in Nat \ {0}
    OBVIOUS
  <2>2. PICK q, r \in Nat : q = n \div b /\ r < b /\ n = b * q + r
    BY <2>1, DividedBy
  <2>3. ~(q >= 2)
    <3>1. SUFFICES ASSUME q >= 2 PROVE FALSE
      OBVIOUS
    <3>2. b * q >= b * 2 /\ b * q \in Nat
      BY <3>1
    <3>3. QED
      BY <1>1, <2>2, <3>2
  <2>4. QED
    BY <2>2, <2>3
<1>2. 0 \in T
  <2>1. Part(M, b, d) \in Nat /\ Part(M, b, d + 1) = Part(M, b, d) \div b
    BY PartFacts
  <2>2. d + 1 + 0 = d + 1
    OBVIOUS
  <2>3. QED
    BY <1>1, <2>1, <2>2
<1>3. ASSUME NEW k \in Nat, k \in T PROVE k + 1 \in T
  <2>1. PICK n \in Nat : n = d + 1 + k /\ d + 1 + (k + 1) = n + 1
    OBVIOUS
  <2>2. Part(M, b, n) \in Nat /\ Part(M, b, n + 1) = Part(M, b, n) \div b
    <3>1. DigitTaken(M, b, n)
      BY <2>1, PartNext
    <3>2. QED
      BY <3>1 DEF DigitTaken
  <2>3. Part(M, b, n) =< b
    BY <1>3, <2>1, <2>2
  <2>4. QED
    BY <1>1, <2>1, <2>2, <2>3
<1>4. T = Nat
  BY <1>2, <1>3, InductionOverSet
<1>5. QED
  BY <1>4

-------------------------------------------------------------------------------
(***************************************************************************)
(* The stack of calls and the digits printed, for a number M in base b.    *)
(***************************************************************************)
(* The calls are those for the leading parts of the number, and each but   *)
(* the innermost has found its number greater than the base.               *)
CallsLead(cs, M, b) ==
  /\ \A j \in 1 .. Len(cs) : cs[j] = Part(M, b, Len(cs) - j)
  /\ \A j \in 2 .. Len(cs) : cs[j] > b

(* The innermost call was the first whose number is not greater than the   *)
(* base; if it is the base, a 0 has been printed for it.  Otherwise the    *)
(* digits are those of the leading part that the next call goes on with.   *)
DigitsLead(cs, o, M, b) ==
  LET d == Len(cs) + Len(o) - 1
  IN  /\ d >= 0
      /\ Part(M, b, d) =< b
      /\ \A j \in 0 .. d - 1 : Part(M, b, j) > b
      /\ Value(b, o) = Part(M, b, Len(cs)) - (IF Part(M, b, d) = b THEN Power(b, Len(o)) ELSE 0)

LEMMA Descends ==
  ASSUME NEW M \in Nat, NEW b \in Nat, b >= 2, NEW cs \in Seq(Nat), cs # <<>>,
         CallsLead(cs, M, b), cs[1] > b
  PROVE  LET ds == <<cs[1] \div b>> \o cs
         IN  ds \in Seq(Nat) /\ ds # <<>> /\ CallsLead(ds, M, b)
<1>1. PICK n \in Nat : n = Len(cs) /\ n >= 1
  OBVIOUS
<1>2. cs[1] \in Nat /\ cs[1] = Part(M, b, n - 1) /\ n - 1 \in Nat /\ (n - 1) + 1 = n
  BY <1>1 DEF CallsLead
<1>3. cs[1] \div b \in Nat /\ cs[1] \div b = Part(M, b, n)
  <2>1. Part(M, b, (n - 1) + 1) = Part(M, b, n - 1) \div b /\ Part(M, b, n) \in Nat
    BY <1>2, PartFacts
  <2>2. QED
    BY <1>2, <2>1
<1>4. PICK x \in Nat : x = cs[1] \div b
  BY <1>3
<1>10. PICK ds : ds = <<x>> \o cs
  OBVIOUS
<1>5. ds \in Seq(Nat) /\ Len(ds) = n + 1 /\ ds[1] = x
      /\ \A j \in 1 .. n : ds[j + 1] = cs[j]
  BY <1>1, <1>10
<1>6. ASSUME NEW j \in 1 .. n + 1 PROVE ds[j] = Part(M, b, (n + 1) - j) /\ (j >= 2 => ds[j] > b)
  <2>1. CASE j = 1
    BY <1>3, <1>4, <1>5, <2>1
  <2>2. CASE j # 1
    <3>1. PICK k \in 1 .. n : j = k + 1 /\ (n + 1) - j = n - k
      BY <2>2
    <3>2. ds[j] = cs[k] /\ cs[k] = Part(M, b, n - k)
      BY <1>1, <1>5, <3>1 DEF CallsLead
    <3>3. cs[k] > b
      <4>1. CASE k = 1
        BY <4>1
      <4>2. CASE k # 1
        BY <1>1, <4>2 DEF CallsLead
      <4>3. QED
        BY <4>1, <4>2
    <3>4. QED
      BY <3>1, <3>2, <3>3
  <2>3. QED
    BY <2>1, <2>2
<1>7. CallsLead(ds, M, b)
  BY <1>5, <1>6 DEF CallsLead
<1>8. ds # <<>>
  BY <1>5
<1>9. QED
  BY <1>4, <1>5, <1>7, <1>8, <1>10, Zenon

LEMMA TurnsBack ==
  ASSUME NEW M \in Nat, NEW b \in Nat, b >= 2, NEW cs \in Seq(Nat), cs # <<>>,
         CallsLead(cs, M, b), ~(cs[1] > b)
  PROVE  DigitsLead(cs, <<>>, M, b)
<1>1. PICK n \in Nat : n = Len(cs) /\ n >= 1
  OBVIOUS
<1>2. PICK d \in Nat : d = n - 1 /\ d = Len(cs) + Len(<<>>) - 1 /\ n = d + 1
  BY <1>1
<1>3. cs[1] \in Nat /\ cs[1] = Part(M, b, d)
  BY <1>1, <1>2 DEF CallsLead
<1>4. ASSUME NEW j \in 0 .. d - 1 PROVE Part(M, b, j) > b
  <2>1. PICK k \in 2 .. n : k = n - j /\ n - k = j
    BY <1>2
  <2>2. k \in 1 .. n
    OBVIOUS
  <2>3. cs[k] = Part(M, b, n - k) /\ cs[k] > b
    BY <1>1, <2>2 DEF CallsLead
  <2>4. QED
    BY <2>1, <2>3
<1>5. Value(b, <<>>) = 0 /\ Power(b, Len(<<>>)) = 1
  BY ValueOfNone, PowerUnfolds
<1>6. PICK p \in Nat, q \in Nat, r \in Nat :
         p = Part(M, b, d) /\ q = Part(M, b, d + 1) /\ p = b * q + r /\ r < b
  <2>1. DigitTaken(M, b, d)
    BY <1>2, PartNext
  <2>2. QED
    BY <2>1 DEF DigitTaken
<1>7. p =< b
  BY <1>3, <1>6
<1>8. q = IF p = b THEN 1 ELSE 0
  <2>1. ~(q >= 2)
    <3>1. SUFFICES ASSUME q >= 2 PROVE FALSE
      OBVIOUS
    <3>2. b * q >= b * 2 /\ b * q \in Nat
      BY <3>1
    <3>3. QED
      BY <1>6, <1>7, <3>2
  <2>2. CASE q = 0
    BY <1>6, <2>2
  <2>3. CASE q = 1
    BY <1>6, <1>7, <2>3
  <2>4. QED
    BY <2>1, <2>2, <2>3
<1>9. Value(b, <<>>) = Part(M, b, Len(cs)) - (IF Part(M, b, d) = b THEN Power(b, Len(<<>>)) ELSE 0)
  BY <1>1, <1>2, <1>5, <1>6, <1>8
<1>10. QED
  BY <1>2, <1>4, <1>6, <1>7, <1>9 DEF DigitsLead

LEMMA PutsDigit ==
  ASSUME NEW M \in Nat, NEW b \in Nat, b >= 2, NEW cs \in Seq(Nat), cs # <<>>, NEW o \in Seq(Nat),
         CallsLead(cs, M, b), DigitsLead(cs, o, M, b)
  PROVE  /\ Tail(cs) \in Seq(Nat) /\ Append(o, cs[1] % b) \in Seq(Nat)
         /\ CallsLead(Tail(cs), M, b) /\ DigitsLead(Tail(cs), Append(o, cs[1] % b), M, b)
<1>1. PICK n \in Nat : Len(cs) = n + 1
  <2>1. Len(cs) \in Nat /\ Len(cs) # 0
    OBVIOUS
  <2>2. Len(cs) - 1 \in Nat /\ Len(cs) = (Len(cs) - 1) + 1
    BY <2>1
  <2>3. QED
    BY <2>2
<1>2. PICK ts : ts = Tail(cs)
  OBVIOUS
<1>3. ts \in Seq(Nat) /\ Len(ts) = n /\ \A j \in 1 .. n : ts[j] = cs[j + 1]
  BY <1>1, <1>2
<1>4. CallsLead(ts, M, b)
  <2>1. ASSUME NEW j \in 1 .. n PROVE ts[j] = Part(M, b, n - j) /\ ts[j] > b
    <3>1. j + 1 \in 2 .. n + 1 /\ j + 1 \in 1 .. n + 1 /\ (n + 1) - (j + 1) = n - j
      OBVIOUS
    <3>2. QED
      BY <1>1, <1>3, <3>1 DEF CallsLead
  <2>2. QED
    BY <1>3, <2>1 DEF CallsLead
<1>5. cs[1] \in Nat /\ cs[1] = Part(M, b, n)
  <2>1. (n + 1) - 1 = n /\ 1 \in 1 .. n + 1
    OBVIOUS
  <2>2. QED
    BY <1>1, <2>1 DEF CallsLead
<1>6. PICK p \in Nat, q \in Nat, r \in Nat :
         p = Part(M, b, n) /\ q = Part(M, b, n + 1) /\ p = b * q + r /\ r < b /\ r = p % b
  <2>1. DigitTaken(M, b, n)
    BY <1>1, PartNext
  <2>2. QED
    BY <2>1 DEF DigitTaken
<1>7. PICK m \in Nat, e \in Seq(Nat) : m = Len(o) /\ e = Append(o, r) /\ Len(e) = m + 1
  <2>1. Len(o) \in Nat /\ Append(o, r) \in Seq(Nat) /\ Len(Append(o, r)) = Len(o) + 1
    OBVIOUS
  <2>2. QED
    BY <2>1, Zenon
<1>8. PICK d \in Int : d = n + m /\ d = Len(cs) + Len(o) - 1 /\ d = Len(ts) + Len(e) - 1
  <2>1. n + m \in Int /\ n + m = (n + 1) + m - 1 /\ n + m = n + (m + 1) - 1
    OBVIOUS
  <2>2. QED
    BY <1>1, <1>3, <1>7, <2>1
<1>9. /\ d >= 0 /\ Part(M, b, d) =< b /\ \A j \in 0 .. d - 1 : Part(M, b, j) > b
      /\ Value(b, o) = q - (IF Part(M, b, d) = b THEN Power(b, m) ELSE 0)
  BY <1>1, <1>6, <1>7, <1>8 DEF DigitsLead
<1>10. PICK v \in Nat, w \in Nat : v = Value(b, o) /\ w = Power(b, m) /\ Power(b, m + 1) = w * b
                                   /\ Value(b, e) = v * b + r
  <2>1. Value(b, o) \in Nat /\ Value(b, Append(o, r)) = Value(b, o) * b + r
    BY ValueOfMore
  <2>2. Power(b, m) \in Nat /\ Power(b, m + 1) = Power(b, m) * b
    BY PowerUnfolds
  <2>3. QED
    BY <1>7, <2>1, <2>2
<1>11. Value(b, e) = p - (IF Part(M, b, d) = b THEN Power(b, m + 1) ELSE 0)
  <2>1. CASE Part(M, b, d) = b
    <3>1. v = q - w
      BY <1>9, <1>10, <2>1
    <3>2. v * b = b * q - w * b
      BY <3>1
    <3>3. PICK bq \in Nat, wb \in Nat, vb \in Nat : bq = b * q /\ wb = w * b /\ vb = v * b
      OBVIOUS
    <3>4. v * b + r = p - w * b
      <4>1. vb = bq - wb /\ p = bq + r
        BY <1>6, <3>2, <3>3
      <4>2. vb + r = p - wb
        BY <4>1
      <4>3. QED
        BY <3>3, <4>2, Zenon
    <3>5. QED
      BY <1>10, <2>1, <3>4
  <2>2. CASE Part(M, b, d) # b
    <3>1. v = q
      BY <1>9, <1>10, <2>2
    <3>2. v * b + r = p
      BY <1>6, <3>1
    <3>3. QED
      BY <1>6, <1>10, <2>2, <3>2
  <2>3. QED
    BY <2>1, <2>2
<1>12. DigitsLead(ts, e, M, b)
  BY <1>3, <1>6, <1>7, <1>8, <1>9, <1>11 DEF DigitsLead
<1>13. cs[1] % b = r
  BY <1>5, <1>6, Zenon
<1>14. QED
  BY <1>2, <1>3, <1>4, <1>7, <1>12, <1>13, Zenon

(* Of the leading parts of a number that has no more bits than an integer, *)
(* the one that the recursion ends with is the only one that can be the    *)
(* base, and it is among the first.                                        *)
LEMMA BaseIsLast ==
  ASSUME NEW w \in Nat, NEW M \in Nat, M < Power(2, w), NEW b \in Nat, b >= 8, NEW d \in Nat,
         Part(M, b, d) =< b, \A j \in 0 .. d - 1 : Part(M, b, j) > b
  PROVE  (\E k \in 0 .. w \div 3 : Part(M, b, k) = b) <=> Part(M, b, d) = b
<1>1. ASSUME NEW k \in Nat, Part(M, b, k) = b PROVE k = d
  <2>1. ~(k < d)
    <3>1. SUFFICES ASSUME k < d PROVE FALSE
      OBVIOUS
    <3>2. k \in 0 .. d - 1
      BY <3>1
    <3>3. Part(M, b, k) > b
      BY <3>2
    <3>4. QED
      BY <1>1, <3>3
  <2>2. ~(k > d)
    <3>1. SUFFICES ASSUME k > d PROVE FALSE
      OBVIOUS
    <3>2. PICK m \in Nat : m = k - d - 1 /\ k = d + 1 + m
      BY <3>1
    <3>3. b >= 2
      OBVIOUS
    <3>4. Part(M, b, d + 1 + m) =< 1
      BY <3>3, PartsBehind
    <3>5. QED
      BY <1>1, <3>2, <3>4
  <2>3. QED
    BY <2>1, <2>2
<1>2. ASSUME Part(M, b, d) = b PROVE d \in 0 .. w \div 3
  <2>1. PICK c \in Nat : c = w \div 3 + 1 /\ 3 * c >= w
    OBVIOUS
  <2>2. SUFFICES ASSUME d >= c PROVE FALSE
    BY <2>1
  <2>3. PICK p \in Nat : p = Power(b, d) /\ p >= 1 /\ p * b =< M
    <3>1. b >= 1
      OBVIOUS
    <3>2. Power(b, d) \in Nat /\ Power(b, d) >= 1
      BY <3>1, PowerUnfolds, PowerPositive
    <3>3. Power(b, d) * Part(M, b, d) =< M
      BY <3>1, PartFacts
    <3>4. QED
      BY <1>2, <3>2, <3>3
  <2>4. Power(b, c) =< p
    <3>1. d - c \in Nat /\ c + (d - c) = d /\ b >= 1
      BY <2>2
    <3>2. Power(b, c) =< Power(b, c + (d - c))
      BY <3>1, PowerGrows
    <3>3. QED
      BY <2>3, <3>1, <3>2
  <2>5. Power(2, 3 * c) =< Power(b, c)
    BY ThreeBits
  <2>6. Power(2, w) =< Power(2, 3 * c)
    <3>1. PICK e \in Nat : e = 3 * c - w /\ w + e = 3 * c
      BY <2>1
    <3>2. 2 \in Nat /\ 2 >= 1
      OBVIOUS
    <3>3. Power(2, w) =< Power(2, w + e)
      BY <3>2, PowerGrows
    <3>4. QED
      BY <3>1, <3>3
  <2>7. Power(2, w) \in Nat /\ Power(2, 3 * c) \in Nat /\ Power(b, c) \in Nat
    <3>1. 3 * c \in Nat /\ 2 \in Nat
      OBVIOUS
    <3>2. QED
      BY <3>1, PowerUnfolds
  <2>8. p * b >= p
    <3>1. p * b >= p * 1
      OBVIOUS
    <3>2. QED
      BY <3>1
  <2>9. p * b \in Nat
    OBVIOUS
  <2>10. QED
    BY <2>3, <2>4, <2>5, <2>6, <2>7, <2>8, <2>9
<1>3. \A k \in 0 .. w \div 3 : k \in Nat
  OBVIOUS
<1>4. QED
  BY <1>1, <1>2, <1>3

(* Two calls or more are there only for a number with as many digits.      *)
LEMMA CallsBelow ==
  ASSUME NEW M \in Nat, NEW b \in Nat, b >= 2, NEW cs \in Seq(Nat), CallsLead(cs, M, b), Len(cs) > 1
  PROVE  Power(b, Len(cs) - 1) < M
<1>1. PICK n \in Nat : Len(cs) = n + 2
  <2>1. Len(cs) \in Nat
    OBVIOUS
  <2>2. Len(cs) - 2 \in Nat /\ Len(cs) = (Len(cs) - 2) + 2
    BY <2>1
  <2>3. QED
    BY <2>2
<1>2. cs[2] = Part(M, b, n) /\ cs[2] > b
  <2>1. 2 \in 1 .. n + 2 /\ 2 \in 2 .. n + 2 /\ (n + 2) - 2 = n
    OBVIOUS
  <2>2. QED
    BY <1>1, <2>1 DEF CallsLead
<1>3. b >= 1
  OBVIOUS
<1>4. PICK p \in Nat : p = Power(b, n) /\ p >= 1 /\ Power(b, n + 1) = p * b
  BY <1>3, PowerUnfolds, PowerPositive
<1>5. PICK q \in Nat : q = Part(M, b, n) /\ p * q =< M
  BY <1>3, <1>4, PartFacts
<1>6. p * q > p * b
  <2>1. q > b
    BY <1>2, <1>5
  <2>2. PICK x \in Nat : x = q - b - 1 /\ q = b + 1 + x
    BY <2>1
  <2>3. PICK u \in Nat, v \in Nat : u = p * b /\ v = p * x
    OBVIOUS
  <2>4. p * q = u + p + v
    <3>1. p * (b + 1 + x) = p * b + p + p * x
      OBVIOUS
    <3>2. QED
      BY <2>2, <2>3, <3>1, Zenon
  <2>5. u + p + v > u
    BY <1>4
  <2>6. QED
    BY <2>3, <2>4, <2>5, Zenon
<1>7. p * b \in Nat /\ p * q \in Nat
  OBVIOUS
<1>8. (n + 2) - 1 = n + 1
  OBVIOUS
<1>9. QED
  BY <1>1, <1>4, <1>5, <1>6, <1>7, <1>8

-------------------------------------------------------------------------------
(***************************************************************************)
(* The inductive invariant.                                                *)
(***************************************************************************)
TypeOK ==
  /\ option \in {"d", "u", "x"}
  /\ arg \in Int
  /\ step \in {"option", "descend", "return", "done"}
  /\ calls \in Seq(Nat)
  /\ out \in Seq(Nat)
  /\ minus \in BOOLEAN

(* The number fits an integer of the machine, and only %d has a sign.      *)
ArgFits == Magnitude < Power(2, Bits) /\ (option # "d" => arg >= 0)

(* The sign is printed first.                                              *)
SignFirst == minus = (step # "option" /\ arg < 0)

(* When there are calls, and when there are digits.                        *)
Stages ==
  /\ step \in {"option", "descend"} => out = <<>>
  /\ step \in {"option", "done"} <=> calls = <<>>

Leading == CallsLead(calls, Magnitude, base)

DigitsSoFar == step \in {"return", "done"} => DigitsLead(calls, out, Magnitude, base)

IInv == TypeOK /\ ArgFits /\ SignFirst /\ Stages /\ Leading /\ DigitsSoFar

LEMMA BaseFacts == base \in Nat /\ base >= 8 /\ base >= 2
BY DEF base

LEMMA MagnitudeFacts == TypeOK => Magnitude \in Nat
BY DEF TypeOK, Magnitude

(* The numbers of a machine are smaller than 2 to the power of its bits.   *)
LEMMA HalfRange ==
  /\ Power(2, Bits) \in Nat /\ Power(2, Bits - 1) \in Nat
  /\ Power(2, Bits) >= 1
  /\ Power(2, Bits - 1) < Power(2, Bits)
<1>1. Bits \in Nat /\ Bits - 1 \in Nat /\ (Bits - 1) + 1 = Bits /\ 2 \in Nat /\ 2 >= 1
  BY BitsAssumption
<1>2. Power(2, Bits) \in Nat /\ Power(2, Bits - 1) \in Nat
  BY <1>1, PowerUnfolds
<1>3. Power(2, Bits - 1) >= 1
  BY <1>1, PowerPositive
<1>4. Power(2, (Bits - 1) + 1) = Power(2, Bits - 1) * 2
  BY <1>1, PowerUnfolds
<1>5. QED
  BY <1>1, <1>2, <1>3, <1>4

(* The first call is for the whole number.                                 *)
LEMMA FirstCall ==
  ASSUME NEW M \in Nat, NEW b \in Nat, b >= 2
  PROVE  <<M>> \in Seq(Nat) /\ <<M>> # <<>> /\ CallsLead(<<M>>, M, b)
<1>1. Part(M, b, 0) = M
  <2>1. b >= 1 /\ 0 \in Nat
    OBVIOUS
  <2>2. QED
    BY <2>1, PartFacts
<1>2. QED
  BY <1>1 DEF CallsLead

LEMMA InitInv == Init => IInv
<1> SUFFICES ASSUME Init PROVE IInv
  OBVIOUS
<1>1. arg \in Int /\ Magnitude < Power(2, Bits) /\ (option # "d" => arg >= 0)
  BY HalfRange DEF Init, Signed, Unsigned, Magnitude
<1>2. TypeOK
  <2>1. minus \in BOOLEAN
    BY Zenon DEF Init
  <2>2. <<>> \in Seq(Nat)
    OBVIOUS
  <2>3. QED
    BY <1>1, <2>1, <2>2 DEF Init, TypeOK
<1>3. ArgFits /\ SignFirst /\ Stages /\ DigitsSoFar
  BY <1>1 DEF Init, ArgFits, SignFirst, Stages, DigitsSoFar
<1>4. Leading
  BY DEF Init, Leading, CallsLead
<1>5. QED
  BY <1>2, <1>3, <1>4 DEF IInv

(* What a number without a sign, or with the sign put aside, starts with.  *)
LEMMA WriteInv == IInv /\ write_nb => IInv'
<1> SUFFICES ASSUME IInv, write_nb PROVE IInv'
  OBVIOUS
<1> USE DEF IInv
<1>1. arg \in Nat /\ Magnitude = arg
  BY DEF TypeOK, ArgFits, write_nb, Magnitude
<1>2. base' = base /\ Magnitude' = Magnitude
  BY DEF write_nb, base, Magnitude
<1>3. <<arg>> \in Seq(Nat) /\ <<arg>> # <<>> /\ CallsLead(<<arg>>, Magnitude, base)
  BY <1>1, BaseFacts, FirstCall
<1>4. TypeOK'
  BY <1>3 DEF TypeOK, write_nb
<1>5. ArgFits' /\ SignFirst'
  BY <1>1, <1>2 DEF ArgFits, SignFirst, TypeOK, write_nb
<1>6. Stages' /\ DigitsSoFar'
  BY <1>3 DEF Stages, DigitsSoFar, write_nb
<1>7. Leading'
  BY <1>2, <1>3 DEF Leading, write_nb
<1>8. QED
  BY <1>4, <1>5, <1>6, <1>7

LEMMA WriteSignedInv == IInv /\ write_nb_signed => IInv'
<1> SUFFICES ASSUME IInv, write_nb_signed PROVE IInv'
  OBVIOUS
<1> USE DEF IInv
<1>1. -arg \in Nat /\ Magnitude = -arg /\ -arg < Power(2, Bits) /\ arg < 0
  BY DEF TypeOK, ArgFits, write_nb_signed, Magnitude
<1>2. (-arg) % Power(2, Bits) = -arg
  <2>1. PICK a \in Nat, p \in Nat \ {0} : a = -arg /\ p = Power(2, Bits) /\ a < p
    BY <1>1, HalfRange
  <2>2. (p * 0 + a) % p = a
    BY <2>1, DivisionUnique
  <2>3. p * 0 + a = a
    OBVIOUS
  <2>4. QED
    BY <2>1, <2>2, <2>3, Zenon
<1>3. base' = base /\ Magnitude' = Magnitude
  BY DEF write_nb_signed, base, Magnitude
<1>4. <<-arg>> \in Seq(Nat) /\ <<-arg>> # <<>> /\ CallsLead(<<-arg>>, Magnitude, base)
  BY <1>1, BaseFacts, FirstCall
<1>5. calls' = <<-arg>>
  BY <1>2 DEF write_nb_signed
<1>6. TypeOK'
  BY <1>4, <1>5 DEF TypeOK, write_nb_signed
<1>7. ArgFits' /\ SignFirst'
  BY <1>1, <1>3 DEF ArgFits, SignFirst, TypeOK, write_nb_signed
<1>8. Stages' /\ DigitsSoFar'
  BY <1>4, <1>5 DEF Stages, DigitsSoFar, write_nb_signed
<1>9. Leading'
  BY <1>3, <1>4, <1>5 DEF Leading
<1>10. QED
  BY <1>6, <1>7, <1>8, <1>9

LEMMA DescendInv == IInv /\ descend => IInv'
<1> SUFFICES ASSUME IInv, descend PROVE IInv'
  OBVIOUS
<1> USE DEF IInv
<1>1. base' = base /\ Magnitude' = Magnitude
  BY DEF descend, DescendIf, base, Magnitude
<1>2. Magnitude \in Nat /\ base \in Nat /\ base >= 2
  BY BaseFacts, MagnitudeFacts
<1>3. calls \in Seq(Nat) /\ calls # <<>> /\ CallsLead(calls, Magnitude, base) /\ out = <<>>
  BY DEF TypeOK, Stages, Leading, descend, DescendIf
<1>4. ArgFits' /\ SignFirst'
  BY <1>1 DEF ArgFits, SignFirst, descend, DescendIf
<1>5. CASE calls[1] > base
  <2>1. calls' = <<calls[1] \div base>> \o calls /\ step' = "descend"
    BY <1>5 DEF descend, DescendIf
  <2>2. calls' \in Seq(Nat) /\ calls' # <<>> /\ CallsLead(calls', Magnitude, base)
    BY <1>2, <1>3, <1>5, <2>1, Descends
  <2>3. TypeOK'
    BY <2>1, <2>2 DEF TypeOK, descend, DescendIf
  <2>4. Stages' /\ DigitsSoFar'
    BY <1>3, <2>1, <2>2 DEF Stages, DigitsSoFar, descend, DescendIf
  <2>5. Leading'
    BY <1>1, <2>2 DEF Leading
  <2>6. QED
    BY <1>4, <2>3, <2>4, <2>5
<1>6. CASE ~(calls[1] > base)
  <2>1. calls' = calls /\ step' = "return" /\ out' = <<>>
    BY <1>3, <1>6 DEF descend, DescendIf
  <2>2. DigitsLead(calls, <<>>, Magnitude, base)
    BY <1>2, <1>3, <1>6, TurnsBack
  <2>3. TypeOK'
    BY <2>1 DEF TypeOK, descend, DescendIf
  <2>4. Stages'
    BY <1>3, <2>1 DEF Stages
  <2>5. Leading' /\ DigitsSoFar'
    BY <1>1, <1>3, <2>1, <2>2 DEF Leading, DigitsSoFar
  <2>6. QED
    BY <1>4, <2>3, <2>4, <2>5
<1>7. QED
  BY <1>5, <1>6

LEMMA ReturnInv == IInv /\ return => IInv'
<1> SUFFICES ASSUME IInv, return PROVE IInv'
  OBVIOUS
<1> USE DEF IInv
<1>1. base' = base /\ Magnitude' = Magnitude
  BY DEF return, PutDigit, base, Magnitude
<1>2. Magnitude \in Nat /\ base \in Nat /\ base >= 2
  BY BaseFacts, MagnitudeFacts
<1>3. /\ calls \in Seq(Nat) /\ calls # <<>> /\ out \in Seq(Nat)
      /\ CallsLead(calls, Magnitude, base) /\ DigitsLead(calls, out, Magnitude, base)
  BY DEF TypeOK, Stages, Leading, DigitsSoFar, return, PutDigit
<1>4. calls' = Tail(calls) /\ out' = Append(out, calls[1] % base)
      /\ step' = IF Tail(calls) = <<>> THEN "done" ELSE "return"
  BY DEF return, PutDigit
<1>5. /\ calls' \in Seq(Nat) /\ out' \in Seq(Nat)
      /\ CallsLead(calls', Magnitude, base) /\ DigitsLead(calls', out', Magnitude, base)
  BY <1>2, <1>3, <1>4, PutsDigit
<1>6. TypeOK'
  BY <1>4, <1>5 DEF TypeOK, return, PutDigit
<1>7. ArgFits' /\ SignFirst'
  BY <1>1, <1>4 DEF ArgFits, SignFirst, return, PutDigit
<1>8. Stages'
  BY <1>4 DEF Stages
<1>9. Leading' /\ DigitsSoFar'
  BY <1>1, <1>5 DEF Leading, DigitsSoFar
<1>10. QED
  BY <1>6, <1>7, <1>8, <1>9

LEMMA NextInv == IInv /\ [Next]_vars => IInv'
<1> SUFFICES ASSUME IInv, [Next]_vars PROVE IInv'
  OBVIOUS
<1>1. CASE write_nb
  BY <1>1, WriteInv
<1>2. CASE write_nb_signed
  BY <1>2, WriteSignedInv
<1>3. CASE descend
  BY <1>3, DescendInv
<1>4. CASE return
  BY <1>4, ReturnInv
<1>5. CASE done \/ UNCHANGED vars
  <2>1. UNCHANGED vars
    BY <1>5 DEF done
  <2>2. TypeOK' /\ ArgFits' /\ SignFirst' /\ Stages' /\ Leading' /\ DigitsSoFar'
    BY <2>1 DEF vars, IInv, TypeOK, ArgFits, SignFirst, Stages, Leading, DigitsSoFar,
                Magnitude, base
  <2>3. QED
    BY <2>2 DEF IInv
<1>6. QED
  BY <1>1, <1>2, <1>3, <1>4, <1>5 DEF Next

LEMMA Invariance == Spec => []IInv
<1>1. Init => IInv
  BY InitInv
<1>2. IInv /\ [Next]_vars => IInv'
  BY NextInv
<1>3. QED
  BY <1>1, <1>2, PTL DEF Spec

-------------------------------------------------------------------------------
(***************************************************************************)
(* The theorems.                                                           *)
(***************************************************************************)
(* At every moment the recursion has no more calls in progress than the    *)
(* number has digits (serial.c:67).                                        *)
THEOREM RecursionBounded == Spec => []StackBounded
<1>1. IInv => StackBounded
  <2>1. SUFFICES ASSUME IInv, Len(calls) > 1
                 PROVE  Power(base, Len(calls) - 1) < Magnitude
    BY DEF StackBounded
  <2>2. Magnitude \in Nat /\ base \in Nat /\ base >= 2
    BY <2>1, BaseFacts, MagnitudeFacts DEF IInv
  <2>3. calls \in Seq(Nat) /\ CallsLead(calls, Magnitude, base)
    BY <2>1 DEF IInv, TypeOK, Leading
  <2>4. QED
    BY <2>1, <2>2, <2>3, CallsBelow
<1>2. QED
  BY <1>1, Invariance, PTL

(* A number is printed as itself except when one of its leading parts is   *)
(* the base, and then never (serial.c:67, 71, vga.c:135, 139).             *)
THEOREM TextIsTheNumber == Spec => []WrongOnlyAtBase
<1>1. IInv => WrongOnlyAtBase
  <2>1. SUFFICES ASSUME IInv, step = "done" PROVE Reading = arg <=> ~LeadingPartIsBase
    BY DEF WrongOnlyAtBase
  <2>2. Magnitude \in Nat /\ base \in Nat /\ base >= 8 /\ base >= 2
    BY <2>1, BaseFacts, MagnitudeFacts DEF IInv
  <2>3. PICK M \in Nat, b \in Nat : M = Magnitude /\ b = base /\ b >= 8 /\ b >= 2
    BY <2>2
  <2>4. out \in Seq(Nat) /\ DigitsLead(<<>>, out, M, b) /\ M < Power(2, Bits)
    BY <2>1, <2>3 DEF IInv, TypeOK, Stages, DigitsSoFar, ArgFits
  <2>5. PICK d \in Nat : /\ Part(M, b, d) =< b
                         /\ \A j \in 0 .. d - 1 : Part(M, b, j) > b
                         /\ Value(b, out) = Part(M, b, 0)
                              - (IF Part(M, b, d) = b THEN Power(b, Len(out)) ELSE 0)
    <3>1. Len(out) \in Nat /\ Len(<<>>) = 0
      BY <2>4
    <3>2. PICK d \in Int : d = Len(<<>>) + Len(out) - 1
      BY <3>1
    <3>3. QED
      BY <2>4, <3>1, <3>2 DEF DigitsLead
  <2>6. Part(M, b, 0) = M
    <3>1. b >= 1 /\ 0 \in Nat
      BY <2>3
    <3>2. QED
      BY <3>1, PartFacts
  <2>7. LeadingPartIsBase <=> Part(M, b, d) = b
    <3>1. (\E k \in 0 .. Bits \div 3 : Part(M, b, k) = b) <=> Part(M, b, d) = b
      BY <2>3, <2>4, <2>5, BitsAssumption, BaseIsLast
    <3>2. QED
      BY <2>3, <3>1 DEF LeadingPartIsBase, Part
  <2>8. PICK w \in Nat : w = Power(b, Len(out)) /\ w >= 1
    <3>1. PICK n \in Nat : n = Len(out)
      BY <2>4
    <3>2. b >= 1
      BY <2>3
    <3>3. Power(b, n) \in Nat /\ Power(b, n) >= 1
      BY <3>2, PowerUnfolds, PowerPositive
    <3>4. QED
      BY <3>1, <3>3
  <2>9. Value(b, out) = M - (IF Part(M, b, d) = b THEN w ELSE 0)
    BY <2>5, <2>6, <2>8
  <2>10. PICK v \in Int : v = Value(b, out) /\ (v = M <=> Part(M, b, d) # b)
    BY <2>8, <2>9
  <2>11. Reading = (IF minus THEN -1 ELSE 1) * v
    BY <2>3, <2>10 DEF Reading
  <2>12. arg \in Int /\ minus = (arg < 0)
    BY <2>1 DEF IInv, TypeOK, SignFirst
  <2>13. Reading = arg <=> v = M
    <3>1. CASE arg < 0
      <4>1. minus
        BY <2>12, <3>1, Zenon
      <4>2. Reading = (-1) * v
        BY <2>11, <4>1, Zenon
      <4>3. M = -arg
        BY <2>3, <3>1 DEF Magnitude
      <4>4. QED
        BY <2>12, <4>2, <4>3
    <3>2. CASE ~(arg < 0)
      <4>1. ~minus
        BY <2>12, <3>2, Zenon
      <4>2. Reading = 1 * v
        BY <2>11, <4>1, Zenon
      <4>3. M = arg
        BY <2>3, <3>2 DEF Magnitude
      <4>4. QED
        BY <2>12, <4>2, <4>3
    <3>3. QED
      BY <3>1, <3>2
  <2>14. QED
    BY <2>7, <2>10, <2>13
<1>2. QED
  BY <1>1, Invariance, PTL

===============================================================================
