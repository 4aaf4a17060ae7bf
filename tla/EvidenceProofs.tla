--------------------------- MODULE EvidenceProofs ---------------------------
(***************************************************************************)
(* Proofs about the way of a measurement to the contract: that base 58     *)
(* brings back the digest it was made from, for all bases and lengths;     *)
(* that what the oracle scripts sign is what the API accepts and that the  *)
(* order of arrival does not matter, for any answers of the upstreams; and *)
(* that a lone dissenter among the sources is named, for lists of reports  *)
(* of any length.                                                          *)
(*                                                                         *)
(* They begin with what stands in for induction: a set of numbers has a    *)
(* least one, so that what passes to a number from all below it holds.     *)
(***************************************************************************)
EXTENDS OracleAdapters, CrossSource, FiniteSetTheorems, SequenceTheorems, TLAPS

\* Every set of natural numbers that is not empty has a least element: of the
\* intervals from 0 to its elements, a smallest one exists.
LEMMA LeastNumber ==
  ASSUME NEW T \in SUBSET Nat, T # {}
  PROVE  \E m \in T : \A k \in T : m <= k
<1> DEFINE R == StrictSubsetOrdering(Nat)
           U == {0..n : n \in T}
<1>1. U \subseteq FiniteSubsetsOf(Nat) /\ U # {}
  <2>1. ASSUME NEW n \in T
        PROVE  0..n \in FiniteSubsetsOf(Nat)
    <3> DEFINE I == 0..n
    <3>1. IsFiniteSet(I)
      BY FS_Interval
    <3>2. I \in SUBSET Nat
      OBVIOUS
    <3> HIDE DEF I
    <3>3. I \in FiniteSubsetsOf(Nat)
      BY <3>1, <3>2 DEF FiniteSubsetsOf
    <3> QED
      BY <3>3 DEF I
  <2> QED
    BY <2>1
<1>2. IsWellFoundedOn(R, FiniteSubsetsOf(Nat))
  BY FS_StrictSubsetOrderingWellFounded
<1>3. \E x \in U : \A y \in U : <<y, x>> \notin R
  <2> HIDE DEF R, U
  <2> QED
    BY <1>1, <1>2, WFMin
<1>4. PICK m \in T : \A y \in U : <<y, 0..m>> \notin R
  BY <1>3
<1>5. ASSUME NEW k \in T, k < m
      PROVE  FALSE
  <2> DEFINE A == 0..k
             B == 0..m
  <2>1. A \in SUBSET Nat /\ B \in SUBSET Nat /\ A \subseteq B /\ m \in B /\ m \notin A /\ A \in U
    BY <1>5
  <2>2. <<B, B>> \notin R /\ <<A, B>> \notin R
    BY <1>4, <2>1
  <2> HIDE DEF A, B
  <2> QED
    BY <2>1, <2>2 DEF StrictSubsetOrdering
<1> QED
  BY <1>5

\* A property of 0 that passes to a number from all below it holds up to n.
LEMMA UpTo ==
  ASSUME NEW n \in Nat, NEW S, 0 \in S,
         \A i \in 1..n : (\A j \in 0..(i - 1) : j \in S) => i \in S
  PROVE  \A i \in 0..n : i \in S
<1> SUFFICES ASSUME NEW x \in 0..n, x \notin S PROVE FALSE
  OBVIOUS
<1> DEFINE T == {i \in 0..n : i \notin S}
<1>1. PICK m \in T : \A k \in T : m <= k
  <2>1. T \in SUBSET Nat /\ T # {}
    OBVIOUS
  <2> QED
    BY <2>1, LeastNumber
<1>2. m \in 1..n
  BY <1>1
<1>3. \A j \in 0..(m - 1) : j \in S
  BY <1>1, <1>2
<1> QED
  BY <1>1, <1>2, <1>3

(***************************************************************************)
(* A function on 0..n may be defined by its value at 0, base, and a step   *)
(* to every other value from an earlier one: prev says from which.         *)
(***************************************************************************)
Steps(n, V, base, prev, step) ==
  /\ base \in V /\ prev \in [1..n -> Nat] /\ step \in [1..n -> [V -> V]]
  /\ \A i \in 1..n : prev[i] < i

Follows(f, n, V, base, prev, step) ==
  f \in [0..n -> V] /\ f[0] = base /\ \A i \in 1..n : f[i] = step[i][f[prev[i]]]

\* Such a function exists.
LEMMA Recursion ==
  ASSUME NEW n \in Nat, NEW V, NEW base, NEW prev, NEW step, Steps(n, V, base, prev, step)
  PROVE  \E f : Follows(f, n, V, base, prev, step)
<1> USE DEF Steps
<1> DEFINE Good(k, f) == f[0] = base /\ \A i \in 1..k : f[i] = step[i][f[prev[i]]]
           S == {k \in 0..n : \E f \in [0..k -> V] : Good(k, f)}
<1>1. 0 \in S
  <2> DEFINE f == [i \in 0..0 |-> base]
  <2>1. f \in [0..0 -> V] /\ Good(0, f)
    OBVIOUS
  <2> HIDE DEF f, Good
  <2> QED
    BY <2>1
<1>2. ASSUME NEW k \in 1..n, k - 1 \in S
      PROVE  k \in S
  <2>1. PICK f \in [0..(k - 1) -> V] : Good(k - 1, f)
    BY <1>2
  <2> DEFINE g == [i \in 0..k |-> IF i = k THEN step[k][f[prev[k]]] ELSE f[i]]
  <2>2. prev[k] \in 0..(k - 1) /\ \A i \in 1..(k - 1) : prev[i] \in 0..(k - 1) /\ prev[i] # k
    OBVIOUS
  <2>3. f[prev[k]] \in V /\ step[k] \in [V -> V]
    BY <2>2
  <2>4. g \in [0..k -> V]
    BY <2>3
  <2>5. Good(k, g)
    <3>1. g[0] = base
      BY <2>1
    <3>2. ASSUME NEW i \in 1..(k - 1)
          PROVE  g[i] = step[i][g[prev[i]]]
      BY <2>1, <2>2
    <3>3. g[k] = step[k][g[prev[k]]]
      BY <2>2
    <3> HIDE DEF g
    <3>4. \A i \in 1..k : i = k \/ i \in 1..(k - 1)
      OBVIOUS
    <3> QED
      BY <3>1, <3>2, <3>3, <3>4
  <2> HIDE DEF g, Good
  <2> QED
    BY <2>4, <2>5
<1>3. n \in S
  <2> HIDE DEF S
  <2>1. ASSUME NEW i \in 1..n, \A j \in 0..(i - 1) : j \in S
        PROVE  i \in S
    <3>1. i - 1 \in 0..(i - 1)
      OBVIOUS
    <3> QED
      BY <3>1, <2>1, <1>2
  <2>2. \A i \in 0..n : i \in S
    BY <1>1, <2>1, UpTo
  <2> QED
    BY <2>2
<1> QED
  BY <1>3 DEF Follows

-----------------------------------------------------------------------------
(***************************************************************************)
(* Digits in a base, least significant first: g[k] is the number that the  *)
(* digits after the k-th stand for, g[0] that of all.                      *)
(***************************************************************************)
Worth(D, b, g) ==
  /\ g \in [0..Len(D) -> Nat] /\ g[Len(D)] = 0
  /\ \A k \in 1..Len(D) : g[k - 1] = D[k] + b * g[k]

Base == Nat \ {0, 1}
DigitOf(b) == 0..(b - 1)

\* One digit at least, and no zero in front of others.
Canonical(D, b) ==
  D \in Seq(DigitOf(b)) /\ Len(D) >= 1 /\ (Len(D) > 1 => D[Len(D)] # 0)

\* Digits are numbers below the base.
LEMMA DigitTypes ==
  ASSUME NEW b \in Base, NEW D \in Seq(DigitOf(b)), NEW k \in 1..Len(D)
  PROVE  D[k] \in DigitOf(b) /\ D[k] \in Nat /\ D[k] < b
<1>1. D[k] \in DigitOf(b)
  OBVIOUS
<1> QED
  BY <1>1 DEF DigitOf, Base

\* Division with remainder.
LEMMA Division ==
  ASSUME NEW x \in Nat, NEW b \in Base
  PROVE  x % b \in DigitOf(b) /\ x \div b \in Nat /\ x = (x % b) + b * (x \div b) /\ (x > 0 => x \div b < x)
<1>1. x % b \in DigitOf(b) /\ x \div b \in Nat /\ x = (x % b) + b * (x \div b)
  BY SMT DEF Base, DigitOf
<1>2. ASSUME NEW q \in Nat, q >= x, x = (x % b) + b * q, x > 0
      PROVE  FALSE
  <2>1. b * q >= 2 * q
    BY SMT DEF Base
  <2> QED
    BY <1>1, <1>2, <2>1 DEF DigitOf, Base
<1> QED
  BY <1>1, <1>2

\* ... of which there is one.
LEMMA OneDivision ==
  ASSUME NEW b \in Base, NEW d \in DigitOf(b), NEW e \in DigitOf(b), NEW q \in Nat, NEW r \in Nat,
         d + b * q = e + b * r
  PROVE  d = e /\ q = r
<1>1. ASSUME NEW m \in Nat, NEW n \in Nat, m < n
      PROVE  b * m + b <= b * n
  <2>1. b * (m + 1) <= b * n
    BY <1>1, SMT DEF Base
  <2>2. b * (m + 1) = b * m + b
    BY SMT DEF Base
  <2> QED
    BY <2>1, <2>2 DEF Base
<1>2. b * q \in Nat /\ b * r \in Nat
  BY DEF Base
<1>3. q = r
  <2>1. CASE q < r
    BY <2>1, <1>1, <1>2 DEF DigitOf, Base
  <2>2. CASE r < q
    BY <2>2, <1>1, <1>2 DEF DigitOf, Base
  <2> QED
    BY <2>1, <2>2
<1> QED
  BY <1>2, <1>3 DEF DigitOf

\* A digit put before the others.
LEMMA WorthCons ==
  ASSUME NEW b \in Base, NEW D \in Seq(DigitOf(b)), NEW g, Worth(D, b, g), NEW d \in DigitOf(b)
  PROVE  LET E == <<d>> \o D
             h == [k \in 0..Len(E) |-> IF k = 0 THEN d + b * g[0] ELSE g[k - 1]]
         IN E \in Seq(DigitOf(b)) /\ Worth(E, b, h) /\ h[0] = d + b * g[0]
<1> DEFINE E == <<d>> \o D
           h == [k \in 0..Len(E) |-> IF k = 0 THEN d + b * g[0] ELSE g[k - 1]]
<1>1. /\ E \in Seq(DigitOf(b)) /\ Len(E) = Len(D) + 1 /\ E[1] = d
      /\ \A k \in 2..Len(E) : E[k] = D[k - 1]
  OBVIOUS
<1>2. Len(D) \in Nat /\ g \in [0..Len(D) -> Nat] /\ d + b * g[0] \in Nat
  <2>1. g \in [0..Len(D) -> Nat] /\ g[0] \in Nat
    BY DEF Worth
  <2>2. b * g[0] \in Nat /\ d \in Nat
    BY <2>1 DEF Base, DigitOf
  <2> QED
    BY <2>1, <2>2
<1>3. h \in [0..Len(E) -> Nat] /\ h[Len(E)] = 0
  BY <1>1, <1>2 DEF Worth
<1>4. ASSUME NEW k \in 1..Len(E)
      PROVE  h[k - 1] = E[k] + b * h[k]
  <2>1. CASE k = 1
    BY <2>1, <1>1, <1>2
  <2>2. CASE k # 1
    <3>1. k - 1 \in 1..Len(D) /\ g[k - 2] = D[k - 1] + b * g[k - 1]
      <4>1. k - 1 \in 1..Len(D) /\ (k - 1) - 1 = k - 2
        BY <2>2, <1>1, <1>2
      <4>2. \A i \in 1..Len(D) : g[i - 1] = D[i] + b * g[i]
        BY DEF Worth
      <4> HIDE DEF h, E
      <4> QED
        BY <4>1, <4>2
    <3>2. E[k] = D[k - 1]
      BY <2>2, <1>1
    <3>3. k - 1 \in 0..Len(E) /\ k \in 0..Len(E) /\ k # 0 /\ k - 1 # 0 /\ (k - 1) - 1 = k - 2
      BY <2>2, <1>1, <1>2
    <3>4. h[k - 1] = g[(k - 1) - 1] /\ h[k] = g[k - 1]
      <4> HIDE DEF E
      <4> QED
        BY <3>3
    <3> HIDE DEF h, E
    <3> QED
      BY <3>1, <3>2, <3>3, <3>4
  <2> QED
    BY <2>1, <2>2
<1> HIDE DEF h, E
<1>5. Worth(E, b, h)
  BY <1>3, <1>4 DEF Worth
<1> QED
  BY <1>1, <1>5 DEF h, E

\* Digits that stand for x, of which the last is not zero.
Digits(D, b, x) ==
  /\ D \in Seq(DigitOf(b)) /\ (x > 0 => Len(D) >= 1) /\ (Len(D) >= 1 => D[Len(D)] # 0)
  /\ \E g : Worth(D, b, g) /\ g[0] = x

\* A digit before them adds itself and multiplies by the base.
LEMMA DigitsCons ==
  ASSUME NEW b \in Base, NEW D, NEW y \in Nat, Digits(D, b, y), NEW d \in DigitOf(b), d + b * y > 0
  PROVE  Digits(<<d>> \o D, b, d + b * y)
<1> DEFINE E == <<d>> \o D
           x == d + b * y
<1>1. PICK g : Worth(D, b, g) /\ g[0] = y
  BY DEF Digits
<1>2. D \in Seq(DigitOf(b)) /\ (Len(D) >= 1 => D[Len(D)] # 0) /\ (Len(D) = 0 => y = 0)
  BY DEF Digits
<1>3. E \in Seq(DigitOf(b)) /\ \E h : Worth(E, b, h) /\ h[0] = x
  <2> DEFINE h == [k \in 0..Len(E) |-> IF k = 0 THEN d + b * g[0] ELSE g[k - 1]]
  <2>1. E \in Seq(DigitOf(b)) /\ Worth(E, b, h) /\ h[0] = x
    BY <1>1, <1>2, WorthCons
  <2> HIDE DEF h, E, x
  <2> QED
    BY <2>1
<1>4. Len(E) = Len(D) + 1 /\ E[1] = d /\ \A k \in 1..Len(D) : E[k + 1] = D[k]
  BY <1>2
<1>5. E[Len(E)] # 0
  <2>1. CASE Len(D) >= 1
    BY <2>1, <1>2, <1>4
  <2>2. CASE Len(D) = 0
    <3>1. d > 0
      BY <2>2, <1>2 DEF Base, DigitOf
    <3> QED
      BY <3>1, <2>2, <1>4
  <2> QED
    BY <2>1, <2>2, <1>2
<1> HIDE DEF E, x
<1> QED
  BY <1>2, <1>3, <1>4, <1>5 DEF Digits, E, x

\* What the digits of a carry stand for is the carry.
LEMMA ExpandDigits ==
  ASSUME NEW c \in Nat, NEW b \in Base
  PROVE  Digits(Expand(c, b), b, c)
<1> DEFINE V == Seq(DigitOf(b))
           prev == [x \in 1..c |-> x \div b]
           step == [x \in 1..c |-> [s \in V |-> <<x % b>> \o s]]
           base == <<>>
           Def(f) == [x \in 0..c |-> IF x = 0 THEN <<>> ELSE <<x % b>> \o f[x \div b]]
           e == CHOOSE h : h = Def(h)
           S == {x \in 0..c : Digits(e[x], b, x)}
<1>1. \A x \in 1..c : x % b \in DigitOf(b) /\ x \div b \in 0..(x - 1) /\ x = (x % b) + b * (x \div b)
  <2> SUFFICES ASSUME NEW x \in 1..c
               PROVE  x % b \in DigitOf(b) /\ x \div b \in 0..(x - 1) /\ x = (x % b) + b * (x \div b)
    OBVIOUS
  <2>1. x \in Nat /\ x > 0
    OBVIOUS
  <2>2. x % b \in DigitOf(b) /\ x \div b \in Nat /\ x = (x % b) + b * (x \div b) /\ x \div b < x
    BY <2>1, Division
  <2> QED
    BY <2>2
<1>2. PICK f : f \in [0..c -> V] /\ f[0] = base /\ \A x \in 1..c : f[x] = step[x][f[prev[x]]]
  <2>1. base \in V /\ prev \in [1..c -> Nat] /\ \A x \in 1..c : prev[x] < x
    BY <1>1
  <2>2. step \in [1..c -> [V -> V]]
    BY <1>1
  <2> HIDE DEF V, prev, step, base
  <2>3. Steps(c, V, base, prev, step)
    BY <2>1, <2>2 DEF Steps
  <2>4. PICK f : Follows(f, c, V, base, prev, step)
    BY <2>3, Recursion
  <2> QED
    BY <2>4 DEF Follows
<1>3. ASSUME NEW x \in 1..c
      PROVE  f[x] = <<x % b>> \o f[x \div b]
  <2>1. x \div b \in 0..c /\ prev[x] = x \div b
    BY <1>1
  <2>2. f[x] = step[x][f[x \div b]] /\ f[x \div b] \in V
    BY <1>2, <2>1
  <2> HIDE DEF V
  <2> QED
    BY <2>2
<1>4. f = Def(f)
  <2> HIDE DEF V
  <2> DEFINE R(x) == IF x = 0 THEN <<>> ELSE <<x % b>> \o f[x \div b]
  <2>1. ASSUME NEW x \in 0..c
        PROVE  f[x] = R(x)
    <3>1. CASE x = 0
      BY <3>1, <1>2
    <3>2. CASE x # 0
      <4>1. x \in 1..c
        BY <3>2
      <4> QED
        BY <4>1, <3>2, <1>3
    <3> QED
      BY <3>1, <3>2
  <2>2. f = [x \in 0..c |-> f[x]]
    <3> HIDE DEF V
    <3> QED
      BY <1>2
  <2> HIDE DEF R
  <2>3. f = [x \in 0..c |-> R(x)]
    BY <2>1, <2>2
  <2> QED
    BY <2>3, Zenon DEF R
<1>5. e = Def(e) /\ Expand(c, b) = e[c]
  BY <1>4, Zenon DEF Expand
<1> HIDE DEF e
<1>6. e[0] = <<>> /\ \A x \in 1..c : e[x] = <<x % b>> \o e[x \div b]
  <2>1. 0 \in 0..c /\ \A x \in 1..c : x \in 0..c /\ x # 0
    OBVIOUS
  <2> DEFINE R(x) == IF x = 0 THEN <<>> ELSE <<x % b>> \o e[x \div b]
  <2>2. \A x \in 0..c : e[x] = R(x)
    <3> HIDE DEF R
    <3> QED
      BY <1>5 DEF R
  <2> QED
    BY <2>1, <2>2
<1>7. 0 \in S
  <2>1. Worth(<<>>, b, [k \in 0..0 |-> 0])
    BY DEF Worth
  <2>2. Digits(<<>>, b, 0)
    BY <2>1 DEF Digits
  <2> QED
    BY <1>6, <2>2
<1>8. ASSUME NEW x \in 1..c, \A y \in 0..(x - 1) : y \in S
      PROVE  x \in S
  <2>1. /\ x % b \in DigitOf(b) /\ x \div b \in Nat /\ x = (x % b) + b * (x \div b)
        /\ Digits(e[x \div b], b, x \div b)
    BY <1>1, <1>8
  <2>2. Digits(<<x % b>> \o e[x \div b], b, (x % b) + b * (x \div b))
    BY <2>1, DigitsCons
  <2>3. Digits(e[x], b, x)
    BY <2>1, <2>2, <1>6
  <2> QED
    BY <2>3
<1>9. c \in S
  <2> HIDE DEF S
  <2>1. \A x \in 0..c : x \in S
    BY <1>7, <1>8, UpTo
  <2> QED
    BY <2>1
<1> QED
  BY <1>5, <1>9

-----------------------------------------------------------------------------
\* The carries of one round of the conversion.
IsCarry(carry, D, next, from, to) ==
  /\ carry \in [0..Len(D) -> Nat] /\ carry[0] = next
  /\ \A i \in 1..Len(D) : carry[i] = (carry[i - 1] + D[i] * from) \div to
  /\ Shift(D, next, from, to) =
       [i \in 1..Len(D) |-> (carry[i - 1] + D[i] * from) % to] \o Expand(carry[Len(D)], to)

\* The carries that Shift defines are these.
LEMMA Carries ==
  ASSUME NEW to \in Base, NEW from \in Base, NEW D \in Seq(DigitOf(to)), NEW next \in Nat
  PROVE  \E carry : IsCarry(carry, D, next, from, to)
<1> DEFINE n == Len(D)
           prev == [i \in 1..n |-> i - 1]
           Next(i, c) == (c + D[i] * from) \div to
           step == [i \in 1..n |-> [c \in Nat |-> Next(i, c)]]
           Def(f) == [i \in 0..n |-> IF i = 0 THEN next ELSE Next(i, f[i - 1])]
           carry == CHOOSE f : f = Def(f)
<1>1. n \in Nat /\ \A i \in 1..n : D[i] * from \in Nat
  BY DEF Base, DigitOf
<1>2. ASSUME NEW i \in 1..n, NEW c \in Nat
      PROVE  Next(i, c) \in Nat
  <2>1. c + D[i] * from \in Nat
    BY <1>1
  <2> QED
    BY <2>1, Division
<1>3. Steps(n, Nat, next, prev, step)
  <2> HIDE DEF Next, n
  <2> QED
    BY <1>1, <1>2 DEF Steps
<1>4. PICK f : Follows(f, n, Nat, next, prev, step)
  <2> HIDE DEF step, prev, n
  <2> QED
    BY <1>1, <1>3, Recursion
<1>5. f \in [0..n -> Nat] /\ f[0] = next
  BY <1>4 DEF Follows
<1>6. ASSUME NEW i \in 1..n
      PROVE  f[i] = Next(i, f[i - 1])
  <2>1. i - 1 \in 0..n /\ f[i - 1] \in Nat
    BY <1>5
  <2>2. f[i] = step[i][f[i - 1]]
    BY <1>4 DEF Follows
  <2> HIDE DEF Next
  <2> QED
    BY <2>1, <2>2
<1> HIDE DEF Next, n
<1>7. f = Def(f)
  BY <1>5, <1>6
<1>8. carry = Def(carry)
  BY <1>7
<1>9. Shift(D, next, from, to) =
        [i \in 1..Len(D) |-> (carry[i - 1] + D[i] * from) % to] \o Expand(carry[Len(D)], to)
  BY DEF Shift, Next, n
<1> HIDE DEF carry
<1>10. carry[0] = next
  BY <1>1, <1>8
<1>11. ASSUME NEW i \in 1..n
       PROVE  carry[i] = Next(i, carry[i - 1])
  <2>1. i \in 0..n /\ i # 0
    BY <1>1
  <2>2. \A j \in 0..n : carry[j] = IF j = 0 THEN next ELSE Next(j, carry[j - 1])
    BY <1>8
  <2> QED
    BY <2>1, <2>2
<1>12. \A i \in 0..n : carry[i] \in Nat
  <2> DEFINE S == {j \in 0..n : carry[j] \in Nat}
  <2>1. 0 \in S
    BY <1>1, <1>10
  <2>2. ASSUME NEW i \in 1..n, \A j \in 0..(i - 1) : j \in S
        PROVE  i \in S
    <3>1. i - 1 \in S
      BY <2>2, <1>1
    <3>2. carry[i - 1] \in Nat /\ i \in 0..n
      BY <3>1, <1>1
    <3>3. carry[i] \in Nat
      <4> HIDE DEF S
      <4>1. carry[i] = Next(i, carry[i - 1])
        BY <1>11
      <4> QED
        BY <4>1, <3>2, <1>2
    <3> QED
      BY <3>2, <3>3
  <2>3. \A i \in 0..n : i \in S
    <3> HIDE DEF S
    <3> QED
      BY <2>1, <2>2, <1>1, UpTo
  <2> QED
    BY <2>3
<1>13. carry \in [0..n -> Nat]
  BY <1>8, <1>12
<1>14. IsCarry(carry, D, next, from, to)
  BY <1>9, <1>10, <1>11, <1>13 DEF n, Next, IsCarry
<1> QED
  BY <1>14

\* One digit of such a round.
LEMMA ShiftStep ==
  ASSUME NEW to \in Nat, NEW from \in Nat, NEW d \in Nat, NEW v \in Nat, NEW before \in Nat,
         NEW after \in Nat, NEW left \in Nat, before + d * from = left + to * after
  PROVE  (d + to * v) * from + before = left + to * (v * from + after)
<1>1. (d + to * v) * from = d * from + to * (v * from)
  OBVIOUS
<1>2. to * (v * from + after) = to * (v * from) + to * after
  OBVIOUS
<1>3. d * from \in Nat /\ to * (v * from) \in Nat /\ to * after \in Nat
  OBVIOUS
<1> QED
  BY <1>1, <1>2, <1>3

\* One digit more multiplies what the digits stand for by the old base.
LEMMA ShiftWorth ==
  ASSUME NEW to \in Base, NEW from \in Base, NEW D, Canonical(D, to), NEW g, Worth(D, to, g),
         NEW next \in Nat
  PROVE  LET E == Shift(D, next, from, to)
         IN Canonical(E, to) /\ \E h : Worth(E, to, h) /\ h[0] = g[0] * from + next
<1> DEFINE n == Len(D)
           E == Shift(D, next, from, to)
<1>1. D \in Seq(DigitOf(to)) /\ n \in Nat /\ n >= 1 /\ (n > 1 => D[n] # 0)
  BY DEF Canonical
<1>2. g \in [0..n -> Nat] /\ g[n] = 0 /\ \A k \in 1..n : g[k - 1] = D[k] + to * g[k]
  BY DEF Worth
<1>3. PICK carry :
        /\ carry \in [0..n -> Nat] /\ carry[0] = next
        /\ \A i \in 1..n : carry[i] = (carry[i - 1] + D[i] * from) \div to
        /\ E = [i \in 1..n |-> (carry[i - 1] + D[i] * from) % to] \o Expand(carry[n], to)
  <2>1. PICK carry : IsCarry(carry, D, next, from, to)
    <3> HIDE DEF n, E
    <3> QED
      BY <1>1, Carries
  <2> QED
    BY <2>1 DEF IsCarry
<1> DEFINE F == Expand(carry[n], to)
           old == [i \in 1..n |-> (carry[i - 1] + D[i] * from) % to]
<1>4. Digits(F, to, carry[n])
  BY <1>1, <1>3, ExpandDigits
<1>5. PICK f : Worth(F, to, f) /\ f[0] = carry[n]
  BY <1>4 DEF Digits
<1>6. ASSUME NEW i \in 1..n
      PROVE  /\ old[i] \in DigitOf(to) /\ carry[i - 1] + D[i] * from = old[i] + to * carry[i]
             /\ carry[i - 1] \in Nat /\ D[i] \in Nat /\ D[i] < to
  <2>1. i - 1 \in 0..n /\ D[i] \in DigitOf(to)
    BY <1>1
  <2>2. carry[i - 1] \in Nat /\ D[i] \in Nat /\ D[i] < to
    <3> HIDE DEF n
    <3>1. carry[i - 1] \in Nat
      BY <2>1, <1>3
    <3> QED
      BY <3>1, <2>1 DEF DigitOf, Base
  <2>3. D[i] * from \in Nat
    BY <2>2 DEF Base
  <2> DEFINE x == carry[i - 1] + D[i] * from
  <2>4. x \in Nat
    BY <2>2, <2>3
  <2>5. carry[i] = x \div to /\ old[i] = x % to
    BY <1>3
  <2> HIDE DEF x, old
  <2>6. old[i] \in DigitOf(to) /\ x = old[i] + to * carry[i]
    BY <2>4, <2>5, Division
  <2> QED
    BY <2>2, <2>6 DEF x
<1>7. F \in Seq(DigitOf(to)) /\ old \in Seq(DigitOf(to)) /\ Len(old) = n
  BY <1>1, <1>4, <1>6 DEF Digits
<1> HIDE DEF old, F, E, n
<1>8. /\ E \in Seq(DigitOf(to)) /\ Len(E) = n + Len(F) /\ Len(F) \in Nat
      /\ \A k \in 1..n : E[k] = old[k]
      /\ \A k \in 1..Len(F) : E[n + k] = F[k]
  BY <1>1, <1>3, <1>7 DEF old, F
<1>9. Canonical(E, to)
  <2>1. ASSUME Len(E) > 1
        PROVE  E[Len(E)] # 0
    <3>1. CASE Len(F) >= 1
      BY <3>1, <1>4, <1>8 DEF Digits
    <3>2. CASE Len(F) = 0
      <4>1. carry[n] = 0 /\ n > 1 /\ D[n] # 0
        BY <3>2, <2>1, <1>1, <1>3, <1>4, <1>8 DEF Digits
      <4>2. /\ carry[n - 1] + D[n] * from = old[n] + to * carry[n]
            /\ carry[n - 1] \in Nat /\ D[n] \in Nat
        BY <1>1, <1>6
      <4>3. D[n] * from > 0
        BY <4>1, <4>2 DEF Base
      <4>4. to * carry[n] = 0
        BY <4>1 DEF Base
      <4>5. old[n] # 0
        <5>1. D[n] * from \in Int
          BY <4>2 DEF Base
        <5> QED
          BY <4>2, <4>3, <4>4, <5>1
      <4> QED
        BY <4>5, <3>2, <1>1, <1>8
    <3> QED
      BY <3>1, <3>2, <1>8
  <2> QED
    BY <2>1, <1>1, <1>8 DEF Canonical
<1> DEFINE h == [k \in 0..Len(E) |-> IF k <= n THEN g[k] * from + carry[k] ELSE f[k - n]]
<1>10. f \in [0..Len(F) -> Nat] /\ f[Len(F)] = 0 /\ \A k \in 1..Len(F) : f[k - 1] = F[k] + to * f[k]
  BY <1>5 DEF Worth
<1>11. h[n] = f[0] /\ n \in 0..Len(E)
  <2>1. n \in 0..Len(E) /\ h[n] = g[n] * from + carry[n]
    BY <1>1, <1>8
  <2>2. g[n] * from = 0
    BY <1>2 DEF Base
  <2> QED
    BY <2>1, <2>2, <1>1, <1>3, <1>5
<1>12. \A k \in 0..Len(E) : h[k] \in Nat
  <2> SUFFICES ASSUME NEW k \in 0..Len(E) PROVE h[k] \in Nat
    OBVIOUS
  <2>1. CASE k <= n
    <3>1. g[k] \in Nat /\ carry[k] \in Nat
      BY <2>1, <1>1, <1>2, <1>3, <1>8
    <3>2. g[k] * from \in Nat
      BY <3>1 DEF Base
    <3> QED
      BY <3>1, <3>2, <2>1
  <2>2. CASE ~(k <= n)
    <3>1. k - n \in 0..Len(F)
      BY <2>2, <1>1, <1>8
    <3> QED
      BY <3>1, <2>2, <1>10
  <2> QED
    BY <2>1, <2>2
<1>13. h[Len(E)] = 0
  <2>1. CASE Len(F) = 0
    BY <2>1, <1>1, <1>8, <1>10, <1>11
  <2>2. CASE Len(F) # 0
    BY <2>2, <1>1, <1>8, <1>10
  <2> QED
    BY <2>1, <2>2
<1>14. ASSUME NEW k \in 1..Len(E)
       PROVE  h[k - 1] = E[k] + to * h[k]
  <2>1. CASE k <= n
    <3>1. k \in 1..n /\ k - 1 \in 0..n /\ k \in 0..n /\ E[k] = old[k]
      BY <2>1, <1>1, <1>8
    <3>2. g[k - 1] = D[k] + to * g[k] /\ g[k] \in Nat /\ carry[k] \in Nat
      BY <3>1, <1>2, <1>3
    <3>3. /\ carry[k - 1] + D[k] * from = old[k] + to * carry[k]
          /\ carry[k - 1] \in Nat /\ D[k] \in Nat /\ old[k] \in Nat
      BY <3>1, <1>6 DEF DigitOf, Base
    <3>4. h[k - 1] = g[k - 1] * from + carry[k - 1] /\ h[k] = g[k] * from + carry[k]
      BY <3>1, <1>1, <1>8
    <3>5. (D[k] + to * g[k]) * from + carry[k - 1] = old[k] + to * (g[k] * from + carry[k])
      <4> DEFINE d == D[k]
                 v == g[k]
                 before == carry[k - 1]
                 after == carry[k]
                 left == old[k]
      <4>1. /\ to \in Nat /\ from \in Nat /\ d \in Nat /\ v \in Nat
            /\ before \in Nat /\ after \in Nat /\ left \in Nat
        BY <3>2, <3>3 DEF Base
      <4>2. before + d * from = left + to * after
        BY <3>3
      <4> HIDE DEF h, d, v, before, after, left
      <4>3. (d + to * v) * from + before = left + to * (v * from + after)
        BY <4>1, <4>2, ShiftStep
      <4> QED
        BY <4>3 DEF d, v, before, after, left
    <3> HIDE DEF h
    <3> QED
      BY <3>1, <3>2, <3>4, <3>5
  <2>2. CASE ~(k <= n)
    <3>1. k - n \in 1..Len(F) /\ k \in 0..Len(E) /\ k - 1 \in 0..Len(E)
      BY <2>2, <1>1, <1>8
    <3>2. E[k] = F[k - n] /\ h[k] = f[k - n]
      <4>1. n + (k - n) = k
        BY <1>1
      <4> QED
        BY <4>1, <3>1, <2>2, <1>8
    <3>3. h[k - 1] = f[(k - n) - 1]
      <4>1. CASE k = n + 1
        BY <4>1, <1>1, <1>11
      <4>2. CASE k # n + 1
        BY <4>2, <3>1, <2>2, <1>1
      <4> QED
        BY <4>1, <4>2
    <3> QED
      BY <3>1, <3>2, <3>3, <1>10
  <2> QED
    BY <2>1, <2>2
<1>15. h[0] = g[0] * from + next /\ h \in [0..Len(E) -> Nat]
  <2>1. h[0] = g[0] * from + next
    BY <1>1, <1>3, <1>8
  <2> QED
    BY <2>1, <1>12
<1> HIDE DEF h
<1>16. Worth(E, to, h)
  BY <1>13, <1>14, <1>15 DEF Worth
<1> QED
  BY <1>9, <1>15, <1>16 DEF E

\* Whatever digits there are, they stand for a number.
LEMMA WorthExists ==
  ASSUME NEW b \in Base, NEW D \in Seq(DigitOf(b))
  PROVE  \E g : Worth(D, b, g)
<1> DEFINE n == Len(D)
           prev == [i \in 1..n |-> i - 1]
           Next(i, v) == D[n - i + 1] + b * v
           step == [i \in 1..n |-> [v \in Nat |-> Next(i, v)]]
<1>1. n \in Nat /\ b \in Nat
  BY DEF Base
<1>2. ASSUME NEW i \in 1..n, NEW v \in Nat
      PROVE  Next(i, v) \in Nat
  <2>1. D[n - i + 1] \in Nat
    <3>1. n - i + 1 \in 1..n
      BY <1>1
    <3> QED
      BY <3>1, DigitTypes
  <2>2. b * v \in Nat
    BY <1>1
  <2> QED
    BY <2>1, <2>2
<1>3. Steps(n, Nat, 0, prev, step)
  <2> HIDE DEF Next, n
  <2> QED
    BY <1>1, <1>2 DEF Steps
<1>4. PICK f : Follows(f, n, Nat, 0, prev, step)
  <2> HIDE DEF step, prev, n
  <2> QED
    BY <1>1, <1>3, Recursion
<1>5. f \in [0..n -> Nat] /\ f[0] = 0
  BY <1>4 DEF Follows
<1>6. ASSUME NEW i \in 1..n
      PROVE  f[i] = Next(i, f[i - 1])
  <2>1. i - 1 \in 0..n /\ f[i - 1] \in Nat
    BY <1>5
  <2>2. f[i] = step[i][f[i - 1]]
    BY <1>4 DEF Follows
  <2> HIDE DEF Next
  <2> QED
    BY <2>1, <2>2
<1> DEFINE g == [k \in 0..n |-> f[n - k]]
<1>7. g \in [0..n -> Nat] /\ g[n] = 0
  <2> HIDE DEF n
  <2> QED
    BY <1>1, <1>5
<1>8. ASSUME NEW k \in 1..n
      PROVE  g[k - 1] = D[k] + b * g[k]
  <2> DEFINE i == n - k + 1
  <2>1. i \in 1..n /\ n - i + 1 = k /\ n - (k - 1) = i /\ i - 1 = n - k /\ k - 1 \in 0..n
    BY <1>1
  <2>2. f[i] = Next(i, f[i - 1])
    BY <1>6, <2>1
  <2> HIDE DEF i, n
  <2> QED
    BY <2>1, <2>2
<1> HIDE DEF g
<1>9. Worth(D, b, g)
  BY <1>7, <1>8 DEF Worth
<1> QED
  BY <1>9

\* Of two canonical numerals of a number the longer has zeros more, so no more.
LEMMA OneNumeralUpTo ==
  ASSUME NEW b \in Base, NEW D, NEW E, Canonical(D, b), Canonical(E, b), NEW g, NEW h,
         Worth(D, b, g), Worth(E, b, h), g[0] = h[0], Len(D) <= Len(E)
  PROVE  D = E
<1> DEFINE m == Len(D)
           n == Len(E)
<1>1. /\ D \in Seq(DigitOf(b)) /\ E \in Seq(DigitOf(b)) /\ m \in Nat /\ n \in Nat /\ m >= 1 /\ m <= n
      /\ g \in [0..m -> Nat] /\ h \in [0..n -> Nat] /\ g[m] = 0 /\ h[n] = 0
  BY DEF Canonical, Worth
<1>2. /\ \A k \in 1..m : g[k - 1] = D[k] + b * g[k]
      /\ \A k \in 1..n : h[k - 1] = E[k] + b * h[k]
  BY DEF Worth
<1> HIDE DEF m, n
<1>3. ASSUME NEW k \in 1..m, g[k - 1] = h[k - 1]
      PROVE  D[k] = E[k] /\ g[k] = h[k]
  <2>1. k \in 1..n /\ k \in 0..m /\ k \in 0..n
    BY <1>1
  <2>2. D[k] \in DigitOf(b) /\ E[k] \in DigitOf(b) /\ g[k] \in Nat /\ h[k] \in Nat
    BY <1>1, <2>1 DEF m, n
  <2>3. D[k] + b * g[k] = E[k] + b * h[k]
    BY <1>2, <1>3, <2>1
  <2> QED
    <3> DEFINE d == D[k]
               e == E[k]
               q == g[k]
               r == h[k]
    <3>1. d \in DigitOf(b) /\ e \in DigitOf(b) /\ q \in Nat /\ r \in Nat /\ d + b * q = e + b * r
      BY <2>2, <2>3
    <3> HIDE DEF d, e, q, r
    <3>2. d = e /\ q = r
      BY <3>1, OneDivision
    <3> QED
      BY <3>2 DEF d, e, q, r
<1>4. \A k \in 0..m : g[k] = h[k]
  <2> DEFINE S == {k \in 0..m : g[k] = h[k]}
  <2>1. 0 \in S
    BY <1>1
  <2>2. ASSUME NEW k \in 1..m, \A j \in 0..(k - 1) : j \in S
        PROVE  k \in S
    <3>1. k - 1 \in S
      BY <2>2, <1>1
    <3>2. k \in 0..m /\ g[k] = h[k]
      BY <3>1, <1>1, <1>3
    <3> QED
      BY <3>2
  <2>3. \A k \in 0..m : k \in S
    <3> HIDE DEF S
    <3> QED
      BY <2>1, <2>2, <1>1, UpTo
  <2> QED
    BY <2>3
<1>5. \A k \in 1..m : D[k] = E[k]
  <2> SUFFICES ASSUME NEW k \in 1..m PROVE D[k] = E[k]
    OBVIOUS
  <2>1. k - 1 \in 0..m
    BY <1>1
  <2> QED
    BY <2>1, <1>3, <1>4
<1>6. m = n
  <2> SUFFICES ASSUME m < n PROVE FALSE
    BY <1>1
  <2> DEFINE S == {k \in 0..n : k >= m => h[k] = 0}
  <2>1. h[m] = 0
    BY <1>1, <1>4
  <2>2. 0 \in S
    BY <1>1
  <2>3. ASSUME NEW k \in 1..n, \A j \in 0..(k - 1) : j \in S
        PROVE  k \in S
    <3>1. CASE k <= m
      BY <3>1, <2>1, <1>1
    <3>2. CASE k > m
      <4>1. k - 1 \in S /\ k - 1 >= m
        BY <2>3, <3>2, <1>1
      <4>2. h[k - 1] = 0 /\ h[k - 1] = E[k] + b * h[k]
        BY <4>1, <1>2
      <4>3. h[k] \in Nat /\ E[k] \in Nat
        <5> HIDE DEF S
        <5>1. h[k] \in Nat
          BY <1>1
        <5>2. E \in Seq(DigitOf(b)) /\ k \in 1..Len(E)
          BY <1>1 DEF n
        <5>3. E[k] \in Nat
          BY <5>2, DigitTypes
        <5> QED
          BY <5>1, <5>3
      <4>4. b * h[k] \in Nat /\ (h[k] > 0 => b * h[k] > 0)
        BY <4>3 DEF Base
      <4>5. h[k] = 0
        BY <4>2, <4>3, <4>4
      <4> QED
        BY <4>5
    <3> QED
      BY <3>1, <3>2, <1>1
  <2>4. \A k \in 0..n : k \in S
    <3> HIDE DEF S
    <3> QED
      BY <2>2, <2>3, <1>1, UpTo
  <2>5. h[n - 1] = 0
    BY <2>4, <1>1
  <2>6. h[n - 1] = E[n] + b * h[n] /\ b * h[n] = 0 /\ E[n] \in Nat
    <3>1. n \in 1..n
      BY <1>1
    <3>2. E[n] \in Nat
      BY <3>1, <1>1, DigitTypes DEF n
    <3> HIDE DEF S
    <3> QED
      BY <3>1, <3>2, <1>1, <1>2 DEF Base
  <2>7. E[n] = 0
    BY <2>5, <2>6
  <2> QED
    BY <2>7, <1>1 DEF Canonical, n
<1> QED
  BY <1>1, <1>5, <1>6 DEF m, n

\* A number has one canonical numeral in a base.
LEMMA OneNumeral ==
  ASSUME NEW b \in Base, NEW D, NEW E, Canonical(D, b), Canonical(E, b), NEW g, NEW h,
         Worth(D, b, g), Worth(E, b, h), g[0] = h[0]
  PROVE  D = E
<1>1. Len(D) \in Nat /\ Len(E) \in Nat
  BY DEF Canonical
<1>2. Len(D) <= Len(E) \/ Len(E) <= Len(D)
  BY <1>1
<1> QED
  BY <1>2, OneNumeralUpTo

\* Reversed twice, a sequence is itself.
LEMMA ReverseTwice ==
  ASSUME NEW S, NEW s \in Seq(S)
  PROVE  /\ Reverse(s) \in Seq(S) /\ Len(Reverse(s)) = Len(s)
         /\ \A i \in 1..Len(s) : Reverse(s)[i] = s[Len(s) - i + 1]
         /\ Reverse(Reverse(s)) = s
<1> DEFINE n == Len(s)
           r == [i \in 1..n |-> s[(n - i) + 1]]
<1>1. n \in Nat /\ Reverse(s) = r
  BY DEF Reverse
<1>2. \A i \in 1..n : (n - i) + 1 \in 1..n /\ n - ((n - i) + 1) + 1 = i
  BY <1>1
<1>3. r \in Seq(S) /\ Len(r) = n
  BY <1>1, <1>2
<1>4. Reverse(r) = [i \in 1..n |-> r[(n - i) + 1]]
  BY <1>3 DEF Reverse
<1>5. Reverse(r) = [i \in 1..n |-> s[i]]
  <2> HIDE DEF n
  <2> QED
    BY <1>2, <1>4
<1>6. s = [i \in 1..n |-> s[i]]
  OBVIOUS
<1> QED
  BY <1>1, <1>3, <1>5, <1>6

\* The conversion keeps what the digits stand for.
LEMMA ConvertWorth ==
  ASSUME NEW from \in Base, NEW to \in Base, NEW s \in Seq(DigitOf(from)), NEW g,
         Worth(Reverse(s), from, g)
  PROVE  LET C == Convert(s, from, to)
         IN Canonical(C, to) /\ \E h : Worth(C, to, h) /\ h[0] = g[0]
<1> DEFINE n == Len(s)
           base == <<0>>
           V == {D \in Seq(DigitOf(to)) : Canonical(D, to) /\ \E h : Worth(D, to, h)}
           prev == [i \in 1..n |-> i - 1]
           Next(i, D) == Shift(D, s[i], from, to)
           step == [i \in 1..n |-> [D \in V |-> Next(i, D)]]
           Def(f) == [i \in 0..n |-> IF i = 0 THEN base ELSE Next(i, f[i - 1])]
           e == CHOOSE f : f = Def(f)
<1>1. n \in Nat
  OBVIOUS
<1>2. ASSUME NEW i \in 1..n, NEW D \in V
      PROVE  Next(i, D) \in V
  <2>1. s[i] \in Nat
    BY DigitTypes
  <2>2. PICK h : Canonical(D, to) /\ Worth(D, to, h)
    OBVIOUS
  <2>3. LET E == Shift(D, s[i], from, to)
        IN Canonical(E, to) /\ \E k : Worth(E, to, k)
    BY <2>1, <2>2, ShiftWorth
  <2> QED
    BY <2>3 DEF Canonical
<1>3. base \in V /\ Worth(base, to, [k \in 0..1 |-> 0]) /\ Canonical(base, to)
  <2>1. base \in Seq(DigitOf(to)) /\ Len(base) = 1 /\ base[1] = 0
    BY DEF DigitOf, Base
  <2>2. Worth(base, to, [k \in 0..1 |-> 0])
    BY <2>1 DEF Worth, Base
  <2>3. Canonical(base, to)
    BY <2>1 DEF Canonical
  <2> QED
    BY <2>1, <2>2, <2>3
<1>4. Steps(n, V, base, prev, step)
  <2> HIDE DEF Next, n, V, base
  <2> QED
    BY <1>1, <1>2, <1>3 DEF Steps
<1>5. PICK f : Follows(f, n, V, base, prev, step)
  <2> HIDE DEF step, prev, n, V, base
  <2> QED
    BY <1>1, <1>4, Recursion
<1>6. f \in [0..n -> V] /\ f[0] = base
  BY <1>5 DEF Follows
<1>7. ASSUME NEW i \in 1..n
      PROVE  f[i] = Next(i, f[i - 1])
  <2> HIDE DEF V, base
  <2>1. i - 1 \in 0..n /\ f[i - 1] \in V
    BY <1>6
  <2>2. f[i] = step[i][f[i - 1]]
    BY <1>5 DEF Follows
  <2> HIDE DEF Next
  <2> QED
    BY <2>1, <2>2
<1> HIDE DEF V
<1>8. e = Def(e)
  <2>1. f = Def(f)
    <3> HIDE DEF Next, n, base
    <3> QED
      BY <1>6, <1>7
  <2> QED
    BY <2>1
<1>9. Convert(s, from, to) = e[n]
  BY DEF Convert
<1> HIDE DEF e, n, base, Next
<1>10. e[0] = base /\ \A i \in 1..n : e[i] = Next(i, e[i - 1])
  <2>1. \A i \in 0..n : e[i] = IF i = 0 THEN base ELSE Next(i, e[i - 1])
    BY <1>8
  <2>2. 0 \in 0..n /\ \A i \in 1..n : i \in 0..n /\ i # 0
    BY <1>1
  <2> QED
    BY <2>1, <2>2
<1> DEFINE Good(i) == Canonical(e[i], to) /\ \E h : Worth(e[i], to, h) /\ h[0] = g[n - i]
           S == {i \in 0..n : Good(i)}
<1>11. /\ g \in [0..n -> Nat] /\ g[n] = 0
       /\ \A i \in 1..n : g[n - i] = s[i] + from * g[n - (i - 1)]
  <2>1. Len(Reverse(s)) = n /\ \A i \in 1..n : Reverse(s)[i] = s[n - i + 1]
    BY ReverseTwice DEF n
  <2>2. g \in [0..n -> Nat] /\ g[n] = 0 /\ \A k \in 1..n : g[k - 1] = Reverse(s)[k] + from * g[k]
    BY <2>1 DEF Worth
  <2>3. ASSUME NEW i \in 1..n
        PROVE  g[n - i] = s[i] + from * g[n - (i - 1)]
    <3> DEFINE k == n - i + 1
    <3>1. k \in 1..n /\ k - 1 = n - i /\ k = n - (i - 1) /\ n - k + 1 = i
      BY <1>1
    <3> HIDE DEF k
    <3>2. Reverse(s)[k] = s[i]
      BY <3>1, <2>1
    <3>3. g[k - 1] = Reverse(s)[k] + from * g[k]
      BY <3>1, <2>2
    <3> QED
      BY <3>1, <3>2, <3>3
  <2> QED
    BY <2>2, <2>3
<1>12. 0 \in S
  <2>1. n - 0 = n /\ 0 \in 0..n /\ [k \in 0..1 |-> 0][0] = 0
    BY <1>1
  <2> QED
    BY <2>1, <1>3, <1>10, <1>11
<1>13. ASSUME NEW i \in 1..n, \A j \in 0..(i - 1) : j \in S
       PROVE  i \in S
  <2>1. i - 1 \in S
    BY <1>13, <1>1
  <2>2. PICK h : Canonical(e[i - 1], to) /\ Worth(e[i - 1], to, h) /\ h[0] = g[n - (i - 1)]
    BY <2>1
  <2>3. s[i] \in Nat
    BY DigitTypes DEF n
  <2>4. Canonical(Next(i, e[i - 1]), to) /\ \E k : Worth(Next(i, e[i - 1]), to, k) /\ k[0] = h[0] * from + s[i]
    <3> DEFINE D == e[i - 1]
               E == Shift(D, s[i], from, to)
    <3>1. Canonical(D, to) /\ Worth(D, to, h)
      BY <2>2
    <3> HIDE DEF D
    <3>2. Canonical(E, to) /\ \E k : Worth(E, to, k) /\ k[0] = h[0] * from + s[i]
      <4> DEFINE next == s[i]
      <4>1. next \in Nat
        BY <2>3
      <4> HIDE DEF next
      <4>2. LET F == Shift(D, next, from, to)
            IN Canonical(F, to) /\ \E k : Worth(F, to, k) /\ k[0] = h[0] * from + next
        BY <4>1, <3>1, ShiftWorth
      <4> QED
        BY <4>2 DEF next
    <3>3. Next(i, e[i - 1]) = E
      BY DEF Next, D
    <3> HIDE DEF E
    <3> QED
      BY <3>2, <3>3
  <2>5. h[0] * from + s[i] = g[n - i]
    <3>1. n - (i - 1) \in 0..n
      BY <1>1
    <3>2. h[0] \in Nat /\ from \in Nat
      BY <3>1, <2>2, <1>11 DEF Base
    <3>3. h[0] * from = from * h[0] /\ h[0] * from \in Nat
      BY <3>2
    <3> QED
      BY <3>3, <2>2, <2>3, <1>11
  <2>6. e[i] = Next(i, e[i - 1]) /\ i \in 0..n
    BY <1>1, <1>10
  <2>7. Good(i)
    BY <2>4, <2>5, <2>6
  <2> QED
    BY <2>6, <2>7
<1>14. n \in S
  <2> HIDE DEF S
  <2>1. \A i \in 0..n : i \in S
    BY <1>1, <1>12, <1>13, UpTo
  <2> QED
    BY <2>1, <1>1
<1>15. n - n = 0
  BY <1>1
<1> QED
  BY <1>9, <1>14, <1>15

\* Without a zero in front there are no leading zeros.
LEMMA NoZeros ==
  ASSUME NEW s \in Seq(Nat), Len(s) >= 1, s[1] # 0
  PROVE  Zeros(s) = 0
<1> DEFINE t == Append(s, 1)
           I == {i \in 1..Len(t) : t[i] # 0}
<1>1. 1 \in I /\ \A i \in I : 1 <= i
  OBVIOUS
<1>2. Min(I) = 1
  <2>1. Min(I) \in I /\ \A i \in I : Min(I) <= i
    <3> HIDE DEF I
    <3> QED
      BY <1>1 DEF Min
  <2>2. Min(I) <= 1 /\ 1 <= Min(I) /\ Min(I) \in Int
    <3>1. I \subseteq Int
      OBVIOUS
    <3> HIDE DEF I
    <3> QED
      BY <1>1, <2>1, <3>1
  <2> HIDE DEF I
  <2> QED
    BY <2>2
<1>3. Zeros(s) = Min(I) - 1
  <2>1. Zeros(s) = (IF I # {} THEN Min(I) ELSE 0) - 1
    BY DEF Zeros, SelectInSeq
  <2> HIDE DEF I
  <2> QED
    BY <1>1, <2>1
<1> HIDE DEF I
<1> QED
  BY <1>2, <1>3

\* Nothing put before or after a sequence.
LEMMA NoPadding ==
  ASSUME NEW S, NEW s \in Seq(S)
  PROVE  [i \in 1..0 |-> 0] \o s = s /\ s \o [i \in 1..0 |-> 0] = s
<1>1. [i \in 1..0 |-> 0] = <<>>
  OBVIOUS
<1>2. <<>> \o s = s /\ s \o <<>> = s
  OBVIOUS
<1> QED
  BY <1>1, <1>2

(***************************************************************************)
(* Base 58 and back: bytes of which the first is not zero, as the two of   *)
(* the prefix are not.                                                     *)
(***************************************************************************)
LEMMA Base58RoundTrip ==
  ASSUME NEW bytes \in Seq(Byte), Len(bytes) >= 1, bytes[1] # 0
  PROVE  base58Decode(base58Encode(bytes)) = bytes
<1> DEFINE C == Convert(bytes, ByteBase, TextBase)
           text == Reverse(C)
           B == Convert(text, TextBase, ByteBase)
           R == Reverse(bytes)
<1>1. /\ ByteBase \in Base /\ TextBase \in Base
      /\ bytes \in Seq(DigitOf(ByteBase)) /\ bytes \in Seq(Nat)
  BY CidAssumption DEF Base, Byte, DigitOf
<1>2. /\ R \in Seq(DigitOf(ByteBase)) /\ Len(R) = Len(bytes) /\ R[Len(R)] = bytes[1] /\ Reverse(R) = bytes
      /\ Canonical(R, ByteBase)
  BY <1>1, ReverseTwice DEF Canonical
<1>3. PICK g : Worth(R, ByteBase, g)
  BY <1>1, <1>2, WorthExists
<1>4. PICK h : Canonical(C, TextBase) /\ Worth(C, TextBase, h) /\ h[0] = g[0]
  BY <1>1, <1>3, ConvertWorth
<1>5. /\ text \in Seq(DigitOf(TextBase)) /\ Len(text) = Len(C) /\ text[1] = C[Len(C)] /\ Reverse(text) = C
      /\ text \in Seq(Nat)
  BY <1>1, <1>4, ReverseTwice DEF Canonical, DigitOf, Base
<1>6. PICK k : Canonical(B, ByteBase) /\ Worth(B, ByteBase, k) /\ k[0] = g[0]
  BY <1>1, <1>4, <1>5, ConvertWorth
<1>7. B = R
  BY <1>1, <1>2, <1>3, <1>6, OneNumeral
<1>8. text[1] # 0
  <2>1. Len(C) >= 1 /\ (Len(C) > 1 => C[Len(C)] # 0)
    BY <1>4 DEF Canonical
  <2>2. ASSUME Len(C) = 1, C[1] = 0
        PROVE  FALSE
    <3> DEFINE Z == [i \in 0..1 |-> 0]
    <3>1. h[0] = 0
      <4> HIDE DEF C
      <4>1. Len(C) \in Nat /\ h \in [0..1 -> Nat] /\ h[1] = 0 /\ h[0] = C[1] + TextBase * h[1]
        BY <1>4, <2>2 DEF Worth
      <4>2. TextBase * 0 = 0
        BY <1>1 DEF Base
      <4> QED
        BY <2>2, <4>1, <4>2
    <3>2. Canonical(<<0>>, ByteBase) /\ Worth(<<0>>, ByteBase, Z) /\ Z[0] = 0
      BY <1>1 DEF Canonical, Worth, DigitOf, Base
    <3>3. g[0] = 0
      BY <1>4, <3>1
    <3> HIDE DEF Z, R
    <3>4. R = <<0>>
      BY <1>1, <1>2, <1>3, <3>2, <3>3, OneNumeral
    <3> QED
      BY <1>2, <3>4
  <2> HIDE DEF C
  <2> QED
    BY <1>5, <2>1, <2>2
<1>9. base58Encode(bytes) = text
  BY <1>1, <1>5, NoZeros, NoPadding DEF base58Encode
<1>10. base58Decode(text) = Reverse(B)
  BY <1>4, <1>5, <1>6, <1>8, NoZeros, NoPadding DEF base58Decode, Canonical
<1> QED
  BY <1>2, <1>7, <1>9, <1>10

\* Two items before a sequence.
LEMMA TwoAndMore ==
  ASSUME NEW S, NEW s \in Seq(S), NEW t \in Seq(S), Len(s) = 2
  PROVE  /\ s \o t \in Seq(S) /\ Len(s \o t) = Len(t) + 2
         /\ \A i \in 1..2 : (s \o t)[i] = s[i]
         /\ \A i \in 1..Len(t) : (s \o t)[i + 2] = t[i]
<1>1. s \o t \in Seq(S) /\ Len(s \o t) = Len(s) + Len(t)
  BY ConcatProperties
<1>2. \A i \in 1..(Len(s) + Len(t)) : (s \o t)[i] = IF i <= Len(s) THEN s[i] ELSE t[i - Len(s)]
  BY ConcatProperties
<1>3. Len(t) \in Nat
  OBVIOUS
<1>4. \A i \in 1..2 : (s \o t)[i] = s[i]
  BY <1>2, <1>3
<1>5. \A i \in 1..Len(t) : (s \o t)[i + 2] = t[i]
  <2> SUFFICES ASSUME NEW i \in 1..Len(t) PROVE (s \o t)[i + 2] = t[i]
    OBVIOUS
  <2> DEFINE j == i + 2
             k == j - Len(s)
  <2>1. j \in 1..(Len(s) + Len(t)) /\ ~(j <= Len(s)) /\ k = i
    BY <1>3
  <2> HIDE DEF j
  <2>2. (s \o t)[j] = t[k]
    BY <1>2, <2>1
  <2> HIDE DEF k
  <2> QED
    BY <2>1, <2>2 DEF j
<1> QED
  BY <1>1, <1>3, <1>4, <1>5

\* A digest behind the prefix is what a CIDv0 holds.
LEMMA Prefixed ==
  ASSUME NEW d \in Digest
  PROVE  LET bytes == CIDV0_PREFIX \o d
         IN /\ bytes \in Seq(Byte) /\ Len(bytes) = DigestLength + 2 /\ bytes[1] # 0
            /\ SubSeq(bytes, 1, 2) = CIDV0_PREFIX /\ SubSeq(bytes, 3, Len(bytes)) = d
<1> DEFINE bytes == CIDV0_PREFIX \o d
<1>1. d \in Seq(Byte) /\ Len(d) = DigestLength /\ DigestLength \in Nat
  BY CidAssumption DEF Digest
<1>2. CIDV0_PREFIX \in Seq(Byte) /\ Len(CIDV0_PREFIX) = 2 /\ CIDV0_PREFIX[1] # 0
  <2>1. PICK a \in Byte, b \in Byte : CIDV0_PREFIX = <<a, b>> /\ CIDV0_PREFIX[1] # 0
    <3>1. CIDV0_PREFIX \in Byte \X (Byte \ {0}) /\ CIDV0_PREFIX[1] # 0
      BY CidAssumption
    <3> HIDE DEF Byte
    <3> QED
      BY <3>1
  <2> HIDE DEF Byte
  <2> QED
    BY <2>1
<1>3. /\ bytes \in Seq(Byte) /\ Len(bytes) = DigestLength + 2
      /\ \A i \in 1..2 : bytes[i] = CIDV0_PREFIX[i]
      /\ \A i \in 1..DigestLength : bytes[i + 2] = d[i]
  BY <1>1, <1>2, TwoAndMore
<1>4. bytes[1] # 0
  <2> HIDE DEF bytes
  <2> QED
    BY <1>2, <1>3
<1>5. SubSeq(bytes, 1, 2) = CIDV0_PREFIX
  <2> HIDE DEF bytes
  <2> QED
    BY <1>2, <1>3
<1>6. SubSeq(bytes, 3, Len(bytes)) = d
  <2> HIDE DEF bytes
  <2>1. Len(SubSeq(bytes, 3, Len(bytes))) = DigestLength /\ SubSeq(bytes, 3, Len(bytes)) \in Seq(Byte)
    BY <1>1, <1>3
  <2>2. \A i \in 1..DigestLength : SubSeq(bytes, 3, Len(bytes))[i] = d[i]
    BY <1>1, <1>3
  <2> QED
    BY <1>1, <2>1, <2>2
<1> HIDE DEF bytes
<1>7. bytes \in Seq(Byte) /\ Len(bytes) = DigestLength + 2 /\ bytes[1] # 0
  BY <1>3, <1>4
<1> QED
  BY <1>5, <1>6, <1>7 DEF bytes

\* The digest that a CIDv0 was made from comes out of it, on either side, and a
\* digest that does not look like a CIDv1 is shown as that CIDv0.
THEOREM DigestsSurvive ==
  \A d \in Digest : /\ d # NoDigest /\ ipfsCidV0FromBytes(d) = CidOf(d)
                    /\ tryExtractDigest(CidOf(d)) = d /\ decodeCidV0(CidOf(d)) = d
                    /\ d[1] # CidV1 => decodeCid(d) = CidOf(d)
<1> SUFFICES ASSUME NEW d \in Digest
             PROVE  /\ d # NoDigest /\ ipfsCidV0FromBytes(d) = CidOf(d)
                    /\ tryExtractDigest(CidOf(d)) = d /\ decodeCidV0(CidOf(d)) = d
                    /\ d[1] # CidV1 => decodeCid(d) = CidOf(d)
  OBVIOUS
<1> DEFINE bytes == CIDV0_PREFIX \o d
<1>1. /\ bytes \in Seq(Byte) /\ Len(bytes) = DigestLength + 2 /\ bytes[1] # 0
      /\ SubSeq(bytes, 1, 2) = CIDV0_PREFIX /\ SubSeq(bytes, 3, Len(bytes)) = d
  BY Prefixed
<1>2. /\ d \in Seq(Byte) /\ Len(d) = DigestLength /\ d # <<>>
      /\ DigestLength \in Nat /\ DigestLength >= 1
  BY CidAssumption DEF Digest
<1>3. base58Decode(base58Encode(bytes)) = bytes
  <2> HIDE DEF bytes
  <2> QED
    BY <1>1, <1>2, Base58RoundTrip
<1>4. CidOf(d) = [form |-> "cidv0", text |-> base58Encode(bytes)]
  BY DEF CidOf, Cid
<1> HIDE DEF bytes
<1>5. tryExtractDigest(CidOf(d)) = d /\ decodeCidV0(CidOf(d)) = d
  BY <1>1, <1>3, <1>4 DEF tryExtractDigest, decodeCidV0, decodeBase58btc
<1>6. ipfsCidV0FromBytes(d) = CidOf(d)
  BY DEF ipfsCidV0FromBytes, encodeBase58btc, CidOf
<1>7. d[1] # CidV1 => decodeCid(d) = CidOf(d)
  BY <1>2, <1>4 DEF decodeCid, bytes, Cid
<1> QED
  BY <1>2, <1>5, <1>6, <1>7 DEF NoDigest

-----------------------------------------------------------------------------
(***************************************************************************)
(* The oracle scripts.                                                     *)
(***************************************************************************)

\* JavaScript's undefined is neither a quotient nor a signature.
NeverUndefined == /\ \A a, b : Undefined # [num |-> a, den |-> b]
                  /\ \A a, b : Undefined # [secret |-> a, text |-> b]

\* What a signature is made from does not change on the way.
LEMMA ManifestVerifies ==
  ASSUME NeverUndefined, NEW input, NEW at, "signature" \notin DOMAIN input,
         NEW m, m = createSignedManifest(input, at), EvidenceManifestSchema(m),
         {"project_id", "methodology", "carbon_sequestered"} \subseteq DOMAIN input,
         input.carbon_sequestered # Undefined
  PROVE  verifyManifest(Received(m))
<1> DEFINE payload == With(input, "generated_at", at)
           signature == signEvidence(payload, DEFAULT_MANIFEST_SECRET)
           r == Received(m)
           rest == [k \in DOMAIN r \ {"signature"} |-> r[k]]
<1>1. /\ DOMAIN payload = DOMAIN input \cup {"generated_at"} /\ "signature" \notin DOMAIN payload
      /\ \A k \in DOMAIN input \ {"generated_at"} : payload[k] = input[k]
  BY DEF With
<1>2. /\ DOMAIN m = DOMAIN payload \cup {"signature"} /\ m["signature"] = signature
      /\ \A k \in DOMAIN payload : m[k] = payload[k]
  BY <1>1 DEF createSignedManifest, With
<1>3. signature = [secret |-> DEFAULT_MANIFEST_SECRET, text |-> canonicalJson(payload)]
  BY DEF signEvidence
<1>4. signature # Undefined
  BY <1>3 DEF NeverUndefined
<1> HIDE DEF payload, signature
<1>5. DOMAIN r = {k \in DOMAIN m : m[k] # Undefined} /\ \A k \in DOMAIN r : r[k] = m[k]
  BY DEF Received, canonicalJson
<1> HIDE DEF r
<1>6. "signature" \in DOMAIN r /\ r["signature"] = signature
  BY <1>2, <1>4, <1>5
<1>7. canonicalJson(rest) = canonicalJson(payload)
  <2> DEFINE kept == {k \in DOMAIN rest : rest[k] # Undefined}
             all == {k \in DOMAIN payload : payload[k] # Undefined}
  <2>1. DOMAIN rest = DOMAIN r \ {"signature"} /\ \A k \in DOMAIN rest : rest[k] = r[k]
    OBVIOUS
  <2> HIDE DEF rest
  <2>2. kept = all
    BY <2>1, <1>1, <1>2, <1>5
  <2>3. \A k \in all : rest[k] = payload[k]
    BY <2>1, <2>2, <1>1, <1>2, <1>5
  <2> QED
    BY <2>2, <2>3 DEF canonicalJson
<1>8. r["signature"] = signEvidence(rest, DEFAULT_MANIFEST_SECRET)
  <2> HIDE DEF rest
  <2> QED
    BY <1>3, <1>6, <1>7 DEF signEvidence
<1>9. EvidenceManifestSchema(r)
  <2>1. /\ m["project_id"] # Undefined /\ m["methodology"] # Undefined
        /\ NonNegative(m["carbon_sequestered"])
    BY DEF EvidenceManifestSchema
  <2>2. m["carbon_sequestered"] # Undefined
    BY <1>1, <1>2
  <2>3. {"project_id", "methodology", "carbon_sequestered"} \subseteq DOMAIN r
    BY <2>1, <2>2, <1>1, <1>2, <1>5
  <2>4. /\ r["project_id"] # Undefined /\ r["methodology"] # Undefined
        /\ NonNegative(r["carbon_sequestered"])
    BY <2>1, <2>3, <1>5
  <2> QED
    BY <2>4 DEF EvidenceManifestSchema
<1> QED
  BY <1>8, <1>9 DEF verifyManifest, r

\* Whatever the adapter, carbon is a quotient.
LEMMA CarbonIsAQuotient ==
  ASSUME NEW adapter \in Adapter, NEW p, NEW s
  PROVE  \E a, b : CarbonOf(adapter, p, s) = [num |-> a, den |-> b]
<1>1. CASE adapter = "verra"
  BY <1>1 DEF CarbonOf, VerraCarbon
<1>2. CASE adapter = "satellite"
  <2> DEFINE change == calculateBiomassChange(p.baseline, SumFunction([i \in DOMAIN s |-> s[i].ndvi]),
                                          Cardinality(DOMAIN s))
  <2>1. PICK a, b : change = [num |-> a, den |-> b]
    BY DEF calculateBiomassChange, NaN
  <2> QED
    BY <1>2, <2>1 DEF CarbonOf, estimateCarbonSequestration
<1>3. CASE adapter = "iot"
  <2> DEFINE mean == meanSoilCarbonDeltaPpm(s)
  <2>1. PICK a, b : mean = [num |-> a, den |-> b]
    BY Zenon DEF meanSoilCarbonDeltaPpm
  <2> HIDE DEF mean
  <2>2. PICK c : Floored(mean) = [num |-> c, den |-> b]
    BY <2>1 DEF Floored
  <2>3. CarbonOf(adapter, p, s) = [Floored(mean) EXCEPT !.num = @ * p.area * KG_CO2E_PER_HA_PER_PPM]
    BY <1>3, Zenon DEF CarbonOf, mean
  <2> QED
    BY <2>2, <2>3
<1>4. CASE adapter = "blue-carbon"
  BY <1>4 DEF CarbonOf, carbonSequesteredKg, meanCarbonStockTonnesPerHa
<1> QED
  BY <1>1, <1>2, <1>3, <1>4 DEF Adapter

\* A day that is sent in seconds comes back as the same day.
LEMMA DayOfSeconds ==
  ASSUME NEW day \in Nat, day * DaySeconds < MsFrom
  PROVE  DateOf(day * DaySeconds) = day
<1> DEFINE t == day * DaySeconds
           q == t \div DaySeconds
<1>1. DaySeconds \in Nat /\ DaySeconds >= 1
  BY EvidenceAssumption
<1>2. t \in Nat /\ q \in Nat /\ DaySeconds * q <= t /\ t < DaySeconds * q + DaySeconds
  BY <1>1, SMT
<1>3. ASSUME NEW m \in Nat, NEW n \in Nat, m < n
      PROVE  DaySeconds * m + DaySeconds <= DaySeconds * n
  <2>1. DaySeconds * (m + 1) <= DaySeconds * n
    BY <1>1, <1>3, SMT
  <2>2. DaySeconds * (m + 1) = DaySeconds * m + DaySeconds
    BY <1>1, SMT
  <2> QED
    BY <2>1, <2>2
<1>4. t = DaySeconds * day
  BY <1>1, SMT
<1>5. DateOf(t) = q
  BY DEF DateOf
<1> HIDE DEF q, t
<1>6. q = day
  <2>1. DaySeconds * day \in Nat /\ DaySeconds * q \in Nat
    BY <1>1, <1>2
  <2>2. ~(q < day) /\ ~(day < q)
    BY <1>1, <1>2, <1>3, <1>4, <2>1
  <2> QED
    BY <1>2, <2>2
<1> QED
  BY <1>5, <1>6 DEF t

\* A job that runs or ended: what it was asked and, with a report, that the
\* report was made from what it was sent.
Asked(j) ==
  \E a \in Adapter, q \in Season : \E c, p, e, r : \E i \in Seq(Item[a]) :
    j = [adapter |-> a, client |-> c, project |-> p, period |-> q, items |-> i, error |-> e, report |-> r]

Reported == job.report # Null => \E d \in Digest : job.report = buildOracleReport(ReportInput, d, 0)

AdapterInv == (job = Idle \/ Asked(job)) /\ Reported

\* It is inductive.
LEMMA AdapterInvariant == AdapterSpec => []AdapterInv
<1>1. AdapterInit => AdapterInv
  BY DEF AdapterInit, AdapterInv, Reported, Idle
<1>2. AdapterInv /\ [AdapterNext]_adapterVars => AdapterInv'
  <2> SUFFICES ASSUME AdapterInv, [AdapterNext]_adapterVars PROVE AdapterInv'
    OBVIOUS
  <2>1. CASE UNCHANGED adapterVars
    BY <2>1 DEF AdapterInv, Asked, Reported, ReportInput, adapterVars
  <2>2. ASSUME NEW a \in Adapter, NEW c \in Client, NEW q \in Season, NEW p \in Site[a], Ask(a, c, p, q)
        PROVE  AdapterInv'
    <3> DEFINE i == <<>>
               e == "none"
    <3>1. i \in Seq(Item[a])
      OBVIOUS
    <3>2. job' = [adapter |-> a, client |-> c, project |-> p, period |-> q, items |-> i, error |-> e,
                  report |-> Null]
      BY <2>2 DEF Ask, Idle
    <3> HIDE DEF i, e
    <3>3. Asked(job)'
      BY <3>1, <3>2 DEF Asked
    <3>4. Reported'
      BY <3>2 DEF Reported
    <3> QED
      BY <3>3, <3>4 DEF AdapterInv
  <2>3. ASSUME NEW x, x \in UNION {Item[a] : a \in Adapter \cap {job.adapter}}, Deliver(x)
        PROVE  AdapterInv'
    <3>1. job # Idle /\ job.report = Null /\ job' = [job EXCEPT !.items = Append(@, x)]
      BY <2>3 DEF Deliver, Running
    <3>2. PICK a \in Adapter, q \in Season : \E c, p, e, r : \E i \in Seq(Item[a]) :
            job = [adapter |-> a, client |-> c, project |-> p, period |-> q, items |-> i, error |-> e,
                   report |-> r]
      BY <3>1 DEF AdapterInv, Asked
    <3>3. PICK c, p, e, r : \E i \in Seq(Item[a]) :
            job = [adapter |-> a, client |-> c, project |-> p, period |-> q, items |-> i, error |-> e,
                   report |-> r]
      BY <3>2
    <3>4. PICK i \in Seq(Item[a]) :
            job = [adapter |-> a, client |-> c, project |-> p, period |-> q, items |-> i, error |-> e,
                   report |-> r]
      BY <3>3
    <3> DEFINE more == Append(i, x)
    <3>5. more \in Seq(Item[a])
      <4>1. x \in Item[a]
        BY <2>3, <3>4
      <4> QED
        BY <4>1
    <3>6. job' = [adapter |-> a, client |-> c, project |-> p, period |-> q, items |-> more,
                  error |-> e, report |-> Null]
      BY <3>1, <3>4
    <3> HIDE DEF more
    <3> QED
      BY <3>5, <3>6 DEF AdapterInv, Asked, Reported
  <2>4. ASSUME NEW first, NEW second, NEW d \in Digest, Answer(first, second, d)
        PROVE  AdapterInv'
    <3> DEFINE report == IF Failure(first, second) = "none" THEN buildOracleReport(ReportInput, d, 0) ELSE Null
               error == IF Failure(first, second) # "none" THEN Failure(first, second)
                        ELSE IF report = Null THEN "OracleValidationError" ELSE "none"
    <3>1. job # Idle /\ job' = [job EXCEPT !.report = report, !.error = error]
      BY <2>4 DEF Answer, Running
    <3>2. PICK a \in Adapter, q \in Season : \E c, p, e, r : \E i \in Seq(Item[a]) :
            job = [adapter |-> a, client |-> c, project |-> p, period |-> q, items |-> i, error |-> e,
                   report |-> r]
      BY <3>1 DEF AdapterInv, Asked
    <3>3. PICK c, p, e, r : \E i \in Seq(Item[a]) :
            job = [adapter |-> a, client |-> c, project |-> p, period |-> q, items |-> i, error |-> e,
                   report |-> r]
      BY <3>2
    <3>4. PICK i \in Seq(Item[a]) :
            job = [adapter |-> a, client |-> c, project |-> p, period |-> q, items |-> i, error |-> e,
                   report |-> r]
      BY <3>3
    <3>5. report # Null => report = buildOracleReport(ReportInput, d, 0)
      OBVIOUS
    <3> HIDE DEF report, error
    <3>6. job' = [adapter |-> a, client |-> c, project |-> p, period |-> q, items |-> i, error |-> error,
                  report |-> report]
      BY <3>1, <3>4
    <3>7. ReportInput' = ReportInput
      BY <3>4, <3>6 DEF ReportInput
    <3>8. Asked(job)'
      BY <3>6 DEF Asked
    <3>9. Reported'
      <4>1. job'.report = report
        BY <3>6
      <4> QED
        BY <4>1, <3>5, <3>7 DEF Reported
    <3> QED
      BY <3>8, <3>9 DEF AdapterInv
  <2>5. ASSUME Again
        PROVE  AdapterInv'
    BY <2>5 DEF Again, AdapterInv, Reported, Idle
  <2> QED
    BY <2>1, <2>2, <2>3, <2>4, <2>5 DEF AdapterNext
<1> QED
  BY <1>1, <1>2, PTL DEF AdapterSpec

(***************************************************************************)
(* SignedReportsAreAccepted: a report exists when its manifest passed the  *)
(* schema and the report the check for the contract, so the manifest has   *)
(* the values that a verifier needs and the period is one that its seconds *)
(* bring back.                                                             *)
(***************************************************************************)
LEMMA AcceptedIfReported == NeverUndefined /\ AdapterInv => SignedReportsAreAccepted
<1> DEFINE r == job.report
           dto == [r EXCEPT !.period_start = @ * DaySeconds, !.period_end = @ * DaySeconds]
<1> SUFFICES ASSUME NeverUndefined, AdapterInv, r # Null
             PROVE  /\ verifyManifest(Received(r.manifest))
                    /\ verifyManifestMatchesReport(r.manifest, dto)
                    /\ isValidEvidenceHash(r.ipfs_evidence_hash)
                    /\ encodeCid(r.ipfs_evidence_hash) = decodeCidV0(r.ipfs_evidence_hash)
  BY DEF SignedReportsAreAccepted
<1>1. PICK d \in Digest : r = buildOracleReport(ReportInput, d, 0)
  BY DEF AdapterInv, Reported
<1>2. job.adapter \in Adapter /\ job.period \in Season
  <2>1. job # Idle
    BY DEF Idle
  <2> QED
    BY <2>1 DEF AdapterInv, Asked
<1> DEFINE input == ReportInput
           m == createSignedManifest(input, 0)
           report == With(With(input, "manifest", m), "ipfs_evidence_hash", ipfsCidV0FromBytes(d))
           Keys == {"project_id", "provider", "methodology", "period_start", "period_end",
                    "carbon_sequestered", "raw_observations", "mean_ndwi"}
<1>3. r = report /\ EvidenceManifestSchema(report.manifest) /\ validateForOnChain(report)
  BY <1>1 DEF buildOracleReport
<1>4. /\ DOMAIN input = Keys /\ \E a, b : input.carbon_sequestered = [num |-> a, den |-> b]
      /\ input.period_start = job.period.start /\ input.period_end = job.period.end
  <2> DEFINE usable == Usable(job.adapter, job.items, job.period)
             carbon == CarbonOf(job.adapter, job.project, usable)
  <2>1. input = [project_id |-> job.project.id, provider |-> job.adapter,
                 methodology |-> MethodologyOf(job.adapter, job.project),
                 period_start |-> job.period.start, period_end |-> job.period.end,
                 carbon_sequestered |-> carbon, raw_observations |-> usable, mean_ndwi |-> Undefined]
    BY DEF ReportInput
  <2>2. \E a, b : carbon = [num |-> a, den |-> b]
    BY <1>2, CarbonIsAQuotient
  <2> HIDE DEF usable, carbon, input
  <2> QED
    BY <2>1, <2>2
<1> HIDE DEF input
<1>5. /\ "signature" \notin Keys /\ "generated_at" \notin Keys /\ "manifest" \notin Keys
      /\ "ipfs_evidence_hash" \notin Keys
  OBVIOUS
<1>6. \A k \in Keys : k \in DOMAIN m /\ m[k] = input[k]
  BY <1>4, <1>5 DEF createSignedManifest, With
<1> HIDE DEF m
<1>7. /\ report["manifest"] = m /\ report["ipfs_evidence_hash"] = ipfsCidV0FromBytes(d)
      /\ \A k \in Keys : k \in DOMAIN report /\ report[k] = input[k]
  BY <1>4, <1>5 DEF With
<1> HIDE DEF report
<1>8. verifyManifest(Received(m))
  <2>1. EvidenceManifestSchema(m)
    BY <1>3, <1>7
  <2>2. input.carbon_sequestered # Undefined
    BY <1>4 DEF NeverUndefined
  <2> QED
    BY <1>4, <1>5, <2>1, <2>2, ManifestVerifies DEF m
<1>9. verifyManifestMatchesReport(m, dto)
  <2> DEFINE start == job.period.start
             end == job.period.end
  <2>1. start \in Nat /\ end \in Nat /\ end * DaySeconds < MsFrom
    BY <1>2, SeasonAssumption
  <2>2. report["period_start"] = start /\ report["period_end"] = end
    BY <1>4, <1>7
  <2>3. start < end
    BY <1>3, <2>1, <2>2 DEF validateForOnChain
  <2> HIDE DEF start, end
  <2>4. start * DaySeconds < MsFrom
    <3>1. start * DaySeconds <= end * DaySeconds
      BY <2>1, <2>3, EvidenceAssumption, SMT
    <3>2. start * DaySeconds \in Nat /\ end * DaySeconds \in Nat /\ MsFrom \in Nat
      BY <2>1, EvidenceAssumption
    <3> QED
      BY <2>1, <3>1, <3>2
  <2>5. DateOf(start * DaySeconds) = start /\ DateOf(end * DaySeconds) = end
    BY <2>1, <2>4, DayOfSeconds
  <2>6. /\ dto["period_start"] = start * DaySeconds /\ dto["period_end"] = end * DaySeconds
        /\ \A k \in {"project_id", "methodology", "carbon_sequestered"} : dto[k] = input[k]
    <3> HIDE DEF r
    <3> QED
      BY <1>3, <1>7, <2>2
  <2>7. m["period_start"] = start /\ m["period_end"] = end
    BY <1>6, <1>7, <2>2
  <2> HIDE DEF dto
  <2> QED
    BY <1>6, <2>5, <2>6, <2>7 DEF verifyManifestMatchesReport
<1>10. /\ r.manifest = m /\ r.ipfs_evidence_hash = CidOf(d)
       /\ tryExtractDigest(CidOf(d)) = d /\ decodeCidV0(CidOf(d)) = d /\ d # NoDigest
  BY <1>3, <1>7, DigestsSurvive
<1> HIDE DEF r, dto
<1> QED
  BY <1>8, <1>9, <1>10 DEF isValidEvidenceHash, encodeCid

\* SignedReportsAreAccepted holds in every reachable state.
THEOREM ReportsAreAccepted ==
  ASSUME NeverUndefined
  PROVE  AdapterSpec => []SignedReportsAreAccepted
BY AdapterInvariant, AcceptedIfReported, PTL

-----------------------------------------------------------------------------
\* An order in which any two of some places compare.
Total(R, M) == \A i, j \in M : /\ <<i, j>> \in R \/ <<j, i>> \in R
                               /\ \A k \in M : <<i, j>> \in R /\ <<j, k>> \in R => <<i, k>> \in R

\* Places are finitely many.
LEMMA SomePlaces ==
  ASSUME NEW N \in Nat, NEW M \in SUBSET (1..N)
  PROVE  IsFiniteSet(M) /\ Cardinality(M) \in Nat
<1>1. IsFiniteSet(1..N)
  BY FS_Interval
<1>2. IsFiniteSet(M)
  BY <1>1, FS_Subset
<1> QED
  BY <1>2, FS_CardinalityType

\* Places of a sequence have a last one in every such order.
LEMMA LastPlace ==
  ASSUME NEW N \in Nat, NEW M \in SUBSET (1..N), M # {}, NEW R, Total(R, M)
  PROVE  \E i \in M : \A j \in M : <<j, i>> \in R
<1> DEFINE upto(k) == {i \in M : i <= k}
           S == {k \in 0..N : upto(k) = {} \/ \E i \in upto(k) : \A j \in upto(k) : <<j, i>> \in R}
<1>1. \A i \in M : i \in Int /\ 1 <= i /\ i <= N
  OBVIOUS
<1>2. 0 \in S
  <2>1. \A i \in M : ~(i <= 0)
    BY <1>1
  <2>2. upto(0) = {}
    BY <2>1
  <2> HIDE DEF upto
  <2> QED
    BY <2>2
<1>3. ASSUME NEW k \in 1..N, \A j \in 0..(k - 1) : j \in S
      PROVE  k \in S
  <2>1. k - 1 \in S
    BY <1>3
  <2>2. CASE k \notin M
    <3>1. upto(k) = upto(k - 1)
      <4>1. \A i \in M : i <= k <=> i <= k - 1
        BY <1>1, <2>2
      <4> QED
        BY <4>1
    <3> HIDE DEF upto
    <3> QED
      BY <2>1, <3>1
  <2>3. CASE k \in M
    <3>1. upto(k) = upto(k - 1) \cup {k} /\ upto(k - 1) \subseteq M
      <4>1. \A i \in M : i <= k <=> i <= k - 1 \/ i = k
        BY <1>1
      <4> QED
        BY <2>3, <4>1
    <3>2. <<k, k>> \in R
      BY <2>3 DEF Total
    <3> HIDE DEF upto
    <3>3. CASE upto(k - 1) = {}
      BY <3>1, <3>2, <3>3
    <3>4. ASSUME NEW i \in upto(k - 1), \A j \in upto(k - 1) : <<j, i>> \in R
          PROVE  k \in S
      <4>1. CASE <<i, k>> \in R
        <5>1. \A j \in upto(k) : <<j, k>> \in R
          BY <2>3, <3>1, <3>2, <3>4, <4>1 DEF Total
        <5> QED
          BY <3>1, <5>1
      <4>2. CASE <<k, i>> \in R
        <5>1. \A j \in upto(k) : <<j, i>> \in R
          BY <3>1, <3>4, <4>2
        <5> QED
          BY <3>1, <5>1
      <4>3. <<i, k>> \in R \/ <<k, i>> \in R
        <5>1. i \in M
          BY <3>1, <3>4
        <5> QED
          BY <2>3, <5>1 DEF Total
      <4> HIDE DEF S
      <4> QED
        BY <4>1, <4>2, <4>3
    <3> QED
      BY <2>1, <3>3, <3>4
  <2> QED
    BY <2>2, <2>3
<1>4. N \in S
  <2> HIDE DEF S
  <2>1. \A k \in 0..N : k \in S
    BY <1>2, <1>3, UpTo
  <2> QED
    BY <2>1
<1>5. upto(N) = M
  BY <1>1
<1> HIDE DEF upto
<1> QED
  BY <1>4, <1>5

\* The first and the last of sorted readings are an earliest and a latest one.
LEMMA SortedEnds ==
  ASSUME NEW N \in Nat, NEW M \in SUBSET (1..N), Cardinality(M) >= 2,
         NEW s, \A i \in M : s[i].at \in Int
  PROVE  LET sorted == ByTime(s, M)
             n == Cardinality(M)
         IN /\ sorted[1] \in M /\ \A j \in M : s[sorted[1]].at <= s[j].at
            /\ sorted[n] \in M /\ \A j \in M : s[j].at <= s[sorted[n]].at
<1> DEFINE sorted == ByTime(s, M)
           n == Cardinality(M)
           below(i) == {j \in M : NoLater(s, j, i)}
           R == {p \in M \X M : NoLater(s, p[1], p[2])}
           Q == {p \in M \X M : NoLater(s, p[2], p[1])}
<1>1. IsFiniteSet(M) /\ n \in Nat /\ n >= 2 /\ M # {}
  <2>1. IsFiniteSet(M) /\ n \in Nat
    BY SomePlaces
  <2> QED
    BY <2>1, FS_EmptySet
<1>2. \A i \in M : i \in Int /\ s[i].at \in Int
  OBVIOUS
<1>3. \A i, j \in M : /\ NoLater(s, i, j) \/ NoLater(s, j, i)
                      /\ NoLater(s, i, j) /\ NoLater(s, j, i) => i = j
                      /\ NoLater(s, i, j) => s[i].at <= s[j].at
                      /\ \A k \in M : NoLater(s, i, j) /\ NoLater(s, j, k) => NoLater(s, i, k)
  BY <1>2 DEF NoLater
<1>4. Total(R, M) /\ Total(Q, M)
  BY <1>3 DEF Total
<1>5. PICK last \in M : \A j \in M : NoLater(s, j, last)
  <2>1. \E i \in M : \A j \in M : <<j, i>> \in R
    <3> HIDE DEF R
    <3> QED
      BY <1>1, <1>4, LastPlace
  <2> QED
    BY <2>1
<1>6. PICK first \in M : \A j \in M : NoLater(s, first, j)
  <2>1. \E i \in M : \A j \in M : <<j, i>> \in Q
    <3> HIDE DEF Q
    <3> QED
      BY <1>1, <1>4, LastPlace
  <2> QED
    BY <2>1
<1>7. below(last) = M /\ below(first) = {first}
  <2>1. below(last) = M
    BY <1>5
  <2>2. NoLater(s, first, first)
    BY <1>6
  <2>3. \A j \in M : NoLater(s, j, first) => j = first
    BY <1>3, <1>6
  <2> QED
    BY <2>1, <2>2, <2>3
<1>8. \A i \in M : below(i) \subseteq M /\ i \in below(i)
  BY <1>3
<1>9. sorted = [k \in 1..n |-> CHOOSE i \in M : Cardinality(below(i)) = k]
  BY DEF ByTime
<1> HIDE DEF sorted, n, below, R, Q
<1>10. sorted[n] \in M /\ Cardinality(below(sorted[n])) = n
  <2>1. Cardinality(below(last)) = n
    BY <1>7 DEF n
  <2>2. n \in 1..n
    BY <1>1
  <2> QED
    BY <1>5, <1>9, <2>1, <2>2
<1>11. sorted[1] \in M /\ Cardinality(below(sorted[1])) = 1
  <2>1. Cardinality(below(first)) = 1
    BY <1>7, FS_Singleton
  <2>2. 1 \in 1..n
    BY <1>1
  <2> QED
    BY <1>6, <1>9, <2>1, <2>2
<1>12. below(sorted[n]) = M
  BY <1>1, <1>8, <1>10, FS_Subset DEF n
<1>13. below(sorted[1]) = {sorted[1]}
  <2>1. PICK x : below(sorted[1]) = {x}
    <3>1. IsFiniteSet(below(sorted[1]))
      BY <1>1, <1>8, <1>11, FS_Subset
    <3> QED
      BY <3>1, <1>11, FS_Singleton
  <2> QED
    BY <2>1, <1>8, <1>11
<1>14. \A j \in M : s[j].at <= s[sorted[n]].at
  BY <1>3, <1>10, <1>12 DEF below
<1>15. \A j \in M : s[sorted[1]].at <= s[j].at
  BY <1>3, <1>11, <1>13 DEF below
<1> QED
  BY <1>10, <1>11, <1>14, <1>15 DEF sorted, n

\* A report keeps what it was made from.
LEMMA InputKept ==
  ASSUME NEW input, NEW d, NEW r, r = buildOracleReport(input, d, 0), r # Null,
         NEW k \in DOMAIN input, k \notin {"manifest", "ipfs_evidence_hash"}
  PROVE  r[k] = input[k]
<1> DEFINE m == createSignedManifest(input, 0)
           report == With(With(input, "manifest", m), "ipfs_evidence_hash", ipfsCidV0FromBytes(d))
<1>1. r = report
  BY DEF buildOracleReport
<1> HIDE DEF m
<1>2. report[k] = input[k]
  BY DEF With
<1> QED
  BY <1>1, <1>2

(***************************************************************************)
(* CarbonIgnoresArrivalOrder: of the usable readings those with carbon are *)
(* the ones of the answer, and sorting puts an earliest first and a latest *)
(* last, so the changes that are summed are between extremes.              *)
(***************************************************************************)
LEMMA CarbonIfReported == AdapterInv => CarbonIgnoresArrivalOrder
<1> DEFINE s == job.items
           U == {i \in DOMAIN s : s[i].ppm # Null \/ s[i].water # Null}
           usable == Restrict(s, U)
           mine(d) == {i \in DOMAIN s : s[i].device = d /\ s[i].ppm # Null}
           own(d) == {i \in DOMAIN usable : usable[i].device = d /\ usable[i].ppm # Null}
           many == {d \in Devices : Cardinality(mine(d)) >= 2}
           sorted(d) == ByTime(usable, mine(d))
           change(d) == usable[sorted(d)[Cardinality(mine(d))]].ppm - usable[sorted(d)[1]].ppm
           delta == [d \in many |-> change(d)]
           paired == {d \in Devices : Extremes(d) # {}}
           carbon(pick) == [num |-> (IF SumFunction(pick) < 0 THEN 0 ELSE SumFunction(pick))
                                      * job.project.area * KG_CO2E_PER_HA_PER_PPM,
                            den |-> Cardinality(many)]
<1> SUFFICES ASSUME AdapterInv, job.report # Null, job.adapter = "iot"
             PROVE  \E pick \in [paired -> UNION {Extremes(d) : d \in paired}] :
                      /\ \A d \in paired : pick[d] \in Extremes(d)
                      /\ job.report.carbon_sequestered =
                           [num |-> (IF SumFunction(pick) < 0 THEN 0 ELSE SumFunction(pick))
                                      * job.project.area * KG_CO2E_PER_HA_PER_PPM,
                            den |-> Cardinality(paired)]
  BY DEF CarbonIgnoresArrivalOrder
<1>1. s \in Seq(Item["iot"]) /\ Len(s) \in Nat /\ DOMAIN s = 1..Len(s) /\ \A i \in DOMAIN s : s[i].at \in Int
  <2>1. job # Idle
    BY DEF Idle
  <2>2. s \in Seq(Item["iot"])
    BY <2>1 DEF AdapterInv, Asked
  <2> HIDE DEF s
  <2> QED
    BY <2>2, ReadingAssumption
<1>2. DOMAIN usable = U /\ (\A i \in U : usable[i] = s[i]) /\ U \subseteq DOMAIN s
  BY DEF Restrict
<1>3. Devices = {s[i].device : i \in DOMAIN s}
  BY DEF Devices
<1>4. \A d : Extremes(d) = IF Cardinality(mine(d)) < 2 THEN {}
                           ELSE {s[l].ppm - s[f].ppm :
                                   f \in {i \in mine(d) : \A j \in mine(d) : s[i].at <= s[j].at},
                                   l \in {i \in mine(d) : \A j \in mine(d) : s[j].at <= s[i].at}}
  BY DEF Extremes
<1>5. meanSoilCarbonDeltaPpm(usable) =
        LET pairs == {d \in {usable[i].device : i \in DOMAIN usable} : Cardinality(own(d)) >= 2}
            each == [d \in pairs |-> usable[ByTime(usable, own(d))[Cardinality(own(d))]].ppm
                                       - usable[ByTime(usable, own(d))[1]].ppm]
        IN [num |-> SumFunction(each), den |-> Cardinality(pairs)]
  BY Zenon DEF meanSoilCarbonDeltaPpm
<1>6. job.report.carbon_sequestered = CarbonOf("iot", job.project, usable)
  <2>1. PICK d \in Digest : job.report = buildOracleReport(ReportInput, d, 0)
    BY DEF AdapterInv, Reported
  <2>2. usable = Usable(job.adapter, job.items, job.period)
    BY DEF Usable
  <2> HIDE DEF usable
  <2>3. /\ "carbon_sequestered" \in DOMAIN ReportInput
        /\ ReportInput["carbon_sequestered"] = CarbonOf("iot", job.project, usable)
    BY <2>2 DEF ReportInput
  <2> QED
    BY <2>1, <2>3, InputKept
<1> HIDE DEF s, usable, U
<1>7. \A d : /\ own(d) = mine(d) /\ mine(d) \in SUBSET (1..Len(s))
             /\ \A i \in mine(d) : usable[i] = s[i] /\ s[i].at \in Int
  BY <1>1, <1>2 DEF U
<1>8. ASSUME NEW d, Cardinality(mine(d)) >= 2
      PROVE  d \in {usable[i].device : i \in DOMAIN usable} /\ d \in Devices
  <2>1. mine(d) # {}
    BY <1>8, FS_EmptySet
  <2>2. PICK i \in mine(d) : TRUE
    BY <2>1
  <2> QED
    BY <2>2, <1>1, <1>2, <1>3 DEF U
<1>9. {d \in {usable[i].device : i \in DOMAIN usable} : Cardinality(own(d)) >= 2} = many
  BY <1>7, <1>8, Zenon
<1>10. meanSoilCarbonDeltaPpm(usable) = [num |-> SumFunction(delta), den |-> Cardinality(many)]
  BY <1>5, <1>7, <1>9, Zenon
<1>11. ASSUME NEW d, Cardinality(mine(d)) >= 2
       PROVE  change(d) \in Extremes(d)
  <2> DEFINE M == mine(d)
             f == sorted(d)[1]
             l == sorted(d)[Cardinality(M)]
  <2>1. /\ M \in SUBSET (1..Len(s)) /\ Cardinality(M) >= 2
        /\ \A i \in M : usable[i] = s[i] /\ usable[i].at = s[i].at /\ usable[i].at \in Int
    BY <1>7, <1>11
  <2>2. /\ f \in M /\ \A j \in M : usable[f].at <= usable[j].at
        /\ l \in M /\ \A j \in M : usable[j].at <= usable[l].at
    <3> DEFINE ends == ByTime(usable, M)
    <3> HIDE DEF M
    <3>1. /\ ends[1] \in M /\ \A j \in M : usable[ends[1]].at <= usable[j].at
          /\ ends[Cardinality(M)] \in M /\ \A j \in M : usable[j].at <= usable[ends[Cardinality(M)]].at
      BY <1>1, <2>1, SortedEnds
    <3> QED
      BY <3>1 DEF M
  <2>3. change(d) = usable[l].ppm - usable[f].ppm
    OBVIOUS
  <2>4. Extremes(d) = {s[b].ppm - s[a].ppm : a \in {i \in M : \A j \in M : s[i].at <= s[j].at},
                                             b \in {i \in M : \A j \in M : s[j].at <= s[i].at}}
    <3>1. Cardinality(M) \in Nat
      BY <1>1, <2>1, SomePlaces
    <3>2. ~(Cardinality(M) < 2)
      BY <2>1, <3>1
    <3> QED
      BY <1>4, <3>2
  <2> HIDE DEF M, f, l, change
  <2>5. /\ f \in {i \in M : \A j \in M : s[i].at <= s[j].at}
        /\ l \in {i \in M : \A j \in M : s[j].at <= s[i].at}
    BY <2>1, <2>2
  <2>6. change(d) = s[l].ppm - s[f].ppm
    BY <2>1, <2>2, <2>3
  <2> QED
    BY <2>4, <2>5, <2>6
<1>12. paired = many
  <2>1. ASSUME NEW d
        PROVE  Extremes(d) # {} <=> Cardinality(mine(d)) >= 2
    <3>1. Cardinality(mine(d)) \in Nat
      BY <1>1, <1>7, SomePlaces
    <3>2. CASE Cardinality(mine(d)) < 2
      BY <1>4, <3>1, <3>2
    <3>3. CASE Cardinality(mine(d)) >= 2
      BY <1>11, <3>3
    <3> QED
      BY <3>1, <3>2, <3>3
  <2> QED
    BY <2>1
<1>13. job.report.carbon_sequestered = carbon(delta)
  <2> DEFINE mean == [num |-> SumFunction(delta), den |-> Cardinality(many)]
  <2>1. job.report.carbon_sequestered =
          [Floored(mean) EXCEPT !.num = @ * job.project.area * KG_CO2E_PER_HA_PER_PPM]
    BY <1>6, <1>10, Zenon DEF CarbonOf
  <2> HIDE DEF delta, many
  <2>2. Floored(mean) = [num |-> IF SumFunction(delta) < 0 THEN 0 ELSE SumFunction(delta),
                         den |-> Cardinality(many)]
    BY DEF Floored
  <2> QED
    BY <2>1, <2>2
<1>14. delta \in [many -> UNION {Extremes(d) : d \in many}] /\ \A d \in many : delta[d] \in Extremes(d)
  <2> HIDE DEF change
  <2>1. \A d \in many : change(d) \in Extremes(d)
    BY <1>11
  <2> HIDE DEF many
  <2> QED
    BY <2>1
<1> HIDE DEF delta, many, paired
<1> QED
  BY <1>12, <1>13, <1>14

\* CarbonIgnoresArrivalOrder holds in every reachable state.
THEOREM CarbonIsByTime == AdapterSpec => []CarbonIgnoresArrivalOrder
BY AdapterInvariant, CarbonIfReported, PTL

-----------------------------------------------------------------------------
(***************************************************************************)
(* The comparison of sources.                                              *)
(***************************************************************************)

\* Every tolerance is a percentage.
LEMMA ToleranceType == \A words : toleranceFor(words) \in Nat
<1> SUFFICES ASSUME NEW words PROVE toleranceFor(words) \in Nat
  OBVIOUS
<1>1. \A family \in {"VERRA-VCS", "REMOTE-SENSING", "IOT-SENSORS", "BLUE-CARBON", "UNKNOWN"} :
        METHODOLOGY_TOLERANCE[family] \in Nat
  BY DEF METHODOLOGY_TOLERANCE
<1>2. /\ Len(FAMILY_ALIASES) = 4
      /\ \A i \in 1..4 : FAMILY_ALIASES[i].family \in {"VERRA-VCS", "REMOTE-SENSING", "IOT-SENSORS", "BLUE-CARBON"}
  BY DEF FAMILY_ALIASES
<1>3. normalizeMethodology(words) \in {"VERRA-VCS", "REMOTE-SENSING", "IOT-SENSORS", "BLUE-CARBON", "UNKNOWN"}
  <2> DEFINE I == {i \in 1..Len(FAMILY_ALIASES) : FAMILY_ALIASES[i].patterns \cap words # {}}
             found == IF I # {} THEN Min(I) ELSE 0
  <2>1. normalizeMethodology(words) = IF found = 0 THEN "UNKNOWN" ELSE FAMILY_ALIASES[found].family
    BY DEF normalizeMethodology, SelectInSeq
  <2>2. CASE I = {}
    BY <2>1, <2>2
  <2>3. CASE I # {}
    <3>1. PICK i \in I : \A j \in I : i <= j
      <4>1. I \in SUBSET Nat
        BY <1>2
      <4> QED
        BY <4>1, <2>3, LeastNumber
    <3>2. Min(I) \in I
      BY <3>1 DEF Min
    <3> QED
      BY <2>1, <2>3, <3>2, <1>2
  <2> QED
    BY <2>2, <2>3
<1> QED
  BY <1>1, <1>3 DEF toleranceFor

\* A report on the list.
Filed == [project : {"p"}, period : Interval, source : Feed, methodology : Words,
          carbon : Amount, status : {"Pending", "Verified", "Rejected"}]

ListedType == listed \in Seq(Filed)

\* The list has no other.
LEMMA CrossTypes == CrossSpec => []ListedType
<1>1. CrossInit => ListedType
  BY DEF CrossInit, ListedType
<1>2. ListedType /\ [CrossNext]_listed => ListedType'
  <2> SUFFICES ASSUME ListedType, [CrossNext]_listed PROVE ListedType'
    OBVIOUS
  <2>1. CASE UNCHANGED listed
    BY <2>1 DEF ListedType
  <2>2. ASSUME NEW s \in Feed, NEW w \in Words, NEW c \in Amount, NEW p \in Interval,
               FileReport(s, w, c, p)
        PROVE  ListedType'
    <3> DEFINE r == [project |-> "p", period |-> p, source |-> s, methodology |-> w,
                     carbon |-> c, status |-> "Pending"]
    <3>1. r \in Filed
      BY DEF Filed
    <3>2. listed' = Append(listed, r)
      BY <2>2 DEF FileReport
    <3> QED
      BY <3>1, <3>2 DEF ListedType
  <2>3. ASSUME NEW i \in DOMAIN listed, NEW status \in {"Verified", "Rejected"}, SettleReport(i, status)
        PROVE  ListedType'
    <3>1. listed' = [listed EXCEPT ![i].status = status]
      BY <2>3 DEF SettleReport
    <3>2. listed[i] \in Filed
      BY DEF ListedType
    <3>3. [listed[i] EXCEPT !.status = status] \in Filed
      BY <3>2 DEF Filed
    <3> QED
      BY <3>1, <3>3 DEF ListedType
  <2> QED
    BY <2>1, <2>2, <2>3 DEF CrossNext
<1> QED
  BY <1>1, <1>2, PTL DEF CrossSpec

\* Twice the median of at least three values, of which all but one are the
\* same, is twice that one.
LEMMA MedianOfPeers ==
  ASSUME NEW ids, IsFiniteSet(ids), Cardinality(ids) >= 3, NEW i \in ids,
         NEW carbon \in [ids -> Nat], NEW v \in Nat,
         \A j \in ids \ {i} : carbon[j] = v, carbon[i] # v
  PROVE  median(carbon) = 2 * v
<1> DEFINE n == Cardinality(ids)
           w == carbon[i]
           rest == ids \ {i}
           below(x) == Cardinality({j \in ids : carbon[j] < x})
           upto(x) == Cardinality({j \in ids : carbon[j] <= x})
           values == {carbon[j] : j \in ids}
           sorted(k) == CHOOSE x \in values : below(x) < k /\ k <= upto(x)
<1>1. /\ n \in Nat /\ IsFiniteSet(rest) /\ Cardinality(rest) = n - 1
      /\ Cardinality({}) = 0 /\ Cardinality({i}) = 1
  BY FS_CardinalityType, FS_RemoveElement, FS_EmptySet, FS_Singleton
<1>2. values = {v, w}
  <2>1. rest # {}
    BY <1>1
  <2> QED
    BY <2>1
<1>3. ASSUME NEW k \in 2..(n - 1)
      PROVE  sorted(k) = v
  <2> DEFINE In(x) == below(x) < k /\ k <= upto(x)
  <2>1. CASE w < v
    <3>1. {j \in ids : carbon[j] < v} = {i} /\ {j \in ids : carbon[j] <= v} = ids
      BY <2>1
    <3>2. {j \in ids : carbon[j] <= w} = {i}
      BY <2>1
    <3>3. below(v) = 1 /\ upto(v) = n /\ upto(w) = 1
      BY <3>1, <3>2, <1>1
    <3> HIDE DEF n, below, upto, w
    <3>4. In(v) /\ ~In(w)
      BY <3>3, <1>1
    <3> QED
      BY <3>4, <1>2
  <2>2. CASE w > v
    <3>1. {j \in ids : carbon[j] < v} = {} /\ {j \in ids : carbon[j] <= v} = rest
      BY <2>2
    <3>2. {j \in ids : carbon[j] < w} = rest
      BY <2>2
    <3>3. below(v) = 0 /\ upto(v) = n - 1 /\ below(w) = n - 1
      BY <3>1, <3>2, <1>1
    <3> HIDE DEF n, below, upto, w
    <3>4. In(v) /\ ~In(w)
      BY <3>3, <1>1
    <3> QED
      BY <3>4, <1>2
  <2>3. w < v \/ w > v
    OBVIOUS
  <2> QED
    BY <2>1, <2>2, <2>3
<1>4. median(carbon) = IF n = 0 THEN 0 ELSE IF n % 2 # 0 THEN 2 * sorted((n \div 2) + 1)
                                           ELSE sorted(n \div 2) + sorted((n \div 2) + 1)
  <2>1. DOMAIN carbon = ids
    OBVIOUS
  <2> QED
    BY <2>1 DEF median
<1> HIDE DEF sorted
<1>5. CASE n % 2 # 0
  <2>1. (n \div 2) + 1 \in 2..(n - 1) /\ n # 0
    BY <1>1, <1>5
  <2>2. sorted((n \div 2) + 1) = v
    BY <1>3, <2>1
  <2> QED
    BY <1>4, <1>5, <2>1, <2>2
<1>6. CASE n % 2 = 0
  <2>1. (n \div 2) + 1 \in 2..(n - 1) /\ n \div 2 \in 2..(n - 1) /\ n # 0
    BY <1>1, <1>6
  <2>2. sorted((n \div 2) + 1) = v /\ sorted(n \div 2) = v
    BY <1>3, <2>1
  <2> QED
    BY <1>4, <1>6, <2>1, <2>2
<1> QED
  BY <1>5, <1>6, <1>1

\* What assessCrossSourceAnomaly makes of such a cluster.
LEMMA DissenterNamed ==
  ASSUME NEW values, LET ids == DOMAIN values IN
           /\ IsFiniteSet(ids) /\ Cardinality(ids) >= 3
           /\ values = [j \in ids |-> values[j]] /\ \A j \in ids : values[j].carbon \in Nat,
         NEW i \in DOMAIN values,
         \A j, k \in DOMAIN values \ {i} : values[j].carbon = values[k].carbon,
         \A j \in DOMAIN values \ {i} :
           DeviatesBeyond(values[i].carbon, 2 * values[j].carbon,
                          toleranceFor(values[Min(DOMAIN values)].methodology))
  PROVE  LET verdict == assessCrossSourceAnomaly(values)
         IN verdict.kind = "outlier" /\ verdict.outliers = {values[i].source}
<1> DEFINE ids == DOMAIN values
           carbon == [j \in ids |-> values[j].carbon]
           percent == toleranceFor(values[Min(ids)].methodology)
           med == median(carbon)
           beyond(p) == {j \in ids : DeviatesBeyond(values[j].carbon, med, p)}
           w == values[i].carbon
<1>1. PICK k \in ids \ {i} : TRUE
  <2>1. Cardinality(ids) \in Nat /\ Cardinality(ids \ {i}) = Cardinality(ids) - 1 /\ Cardinality({}) = 0
    BY FS_CardinalityType, FS_RemoveElement, FS_EmptySet
  <2> QED
    BY <2>1
<1>2. Cardinality(ids) \in Nat /\ Cardinality({i}) = 1
  BY FS_CardinalityType, FS_Singleton
<1> DEFINE v == values[k].carbon
<1>3. percent \in Nat
  BY ToleranceType
<1>4. v \in Nat /\ w \in Nat /\ DeviatesBeyond(w, 2 * v, percent) /\ ~DeviatesBeyond(v, 2 * v, percent)
  BY <1>1, <1>3 DEF DeviatesBeyond
<1>5. carbon \in [ids -> Nat] /\ (\A j \in ids \ {i} : carbon[j] = v) /\ carbon[i] # v
  BY <1>1, <1>4
<1>6. med = 2 * v
  BY <1>4, <1>5, MedianOfPeers
<1>7. beyond(percent) = {i}
  BY <1>1, <1>4, <1>6
<1>8. Cardinality(ids) \in Nat /\ Cardinality(ids) >= 3 /\ Cardinality({i}) = 1
  BY FS_CardinalityType, FS_Singleton
<1> DEFINE verdict == assessCrossSourceAnomaly(values)
           outliers == beyond(percent)
           critical == beyond(2 * percent)
<1>9. verdict =
        CASE Cardinality(ids) < 2 -> [kind |-> "missing_source", severity |-> "info", outliers |-> {}]
          [] Cardinality(ids) >= 2 /\ outliers = {} -> [kind |-> "normal", severity |-> "info", outliers |-> {}]
          [] OTHER -> [kind |-> IF Cardinality(outliers) = 1 THEN "outlier" ELSE "conflicting_sources",
                       severity |-> IF critical = {} THEN "warning" ELSE "critical",
                       outliers |-> {values[j].source : j \in outliers}]
  BY DEF assessCrossSourceAnomaly
<1>10. {values[j].source : j \in {i}} = {values[i].source}
  OBVIOUS
<1>11. outliers = {i} /\ {values[j].source : j \in outliers} = {values[i].source}
  BY <1>7, <1>10
<1> HIDE DEF verdict, outliers, critical, ids
<1>12. verdict.kind = "outlier" /\ verdict.outliers = {values[i].source}
  <2>1. verdict = [kind |-> "outlier", severity |-> IF critical = {} THEN "warning" ELSE "critical",
                   outliers |-> {values[j].source : j \in outliers}]
    BY <1>8, <1>9, <1>11
  <2> QED
    BY <2>1, <1>11
<1> QED
  BY <1>12 DEF verdict

(***************************************************************************)
(* LoneDissenterIsNamed: the reports of the period that the filter leaves  *)
(* are the peers, so both detectors assess the same cluster, which has     *)
(* all but one of its values alike.                                        *)
(***************************************************************************)
LEMMA NamedIfListed == ListedType => LoneDissenterIsNamed
<1> SUFFICES ASSUME ListedType, NEW i \in DOMAIN listed,
                    LET key == PeriodKey(listed[i])
                        peers == {j \in DOMAIN listed : PeriodKey(listed[j]) = key /\ listed[j].status = "Verified"}
                        first == CHOOSE j \in peers : \A k \in peers : j <= k
                        percent == toleranceFor(listed[first].methodology)
                    IN /\ i \in peers /\ Cardinality(peers) >= 3
                       /\ \A j, k \in peers \ {i} : listed[j].carbon = listed[k].carbon
                       /\ \A j \in peers \ {i} : DeviatesBeyond(listed[i].carbon, 2 * listed[j].carbon, percent)
             PROVE  LET key == PeriodKey(listed[i])
                        verified == Restrict(listed, {j \in DOMAIN listed : isVerified(listed[j])})
                    IN \A verdict \in {computeCrossSourceAnomalies(listed)[key], groupAndAssess(verified)[key]} :
                         verdict.kind = "outlier" /\ verdict.outliers = {listed[i].source}
  BY DEF LoneDissenterIsNamed
<1> DEFINE key == PeriodKey(listed[i])
           peers == {j \in DOMAIN listed : PeriodKey(listed[j]) = key /\ listed[j].status = "Verified"}
           ids == {j \in DOMAIN listed : isVerified(listed[j])}
           verified == Restrict(listed, ids)
           values == [j \in peers |-> listed[j]]
<1>1. /\ IsFiniteSet(peers) /\ peers \subseteq Nat /\ peers # {}
      /\ \A j \in peers : listed[j].carbon \in Nat
  <2>1. DOMAIN listed = 1..Len(listed) /\ Len(listed) \in Nat /\ \A j \in DOMAIN listed : listed[j] \in Filed
    BY DEF ListedType
  <2>2. peers \in SUBSET (1..Len(listed)) /\ IsFiniteSet(1..Len(listed))
    BY <2>1, FS_Interval
  <2>3. IsFiniteSet(peers)
    BY <2>2, FS_Subset
  <2>4. \A j \in peers : listed[j].carbon \in Nat
    BY <2>1, CrossAssumption DEF Filed
  <2> QED
    BY <2>2, <2>3, <2>4
<1>2. Restrict(verified, {j \in DOMAIN verified : PeriodKey(verified[j]) = key}) = values
  <2>1. DOMAIN verified = ids /\ \A j \in ids : verified[j] = listed[j]
    BY DEF Restrict
  <2>2. {j \in DOMAIN verified : PeriodKey(verified[j]) = key} = peers
    BY <2>1 DEF isVerified
  <2> QED
    BY <2>1, <2>2 DEF Restrict, isVerified
<1>3. Min(peers) = CHOOSE j \in peers : \A k \in peers : j <= k
  BY DEF Min
<1>4. LET verdict == assessCrossSourceAnomaly(values)
      IN verdict.kind = "outlier" /\ verdict.outliers = {listed[i].source}
  <2>1. DOMAIN values = peers /\ \A j \in peers : values[j] = listed[j]
    OBVIOUS
  <2>2. Min(peers) \in peers
    <3>1. \E m \in peers : \A k \in peers : m <= k
      BY <1>1, LeastNumber
    <3> QED
      BY <3>1, <1>3
  <2>3. /\ IsFiniteSet(DOMAIN values) /\ Cardinality(DOMAIN values) >= 3
        /\ values = [j \in DOMAIN values |-> values[j]]
        /\ \A j \in DOMAIN values : values[j].carbon \in Nat
        /\ i \in DOMAIN values
    BY <2>1, <1>1
  <2>4. \A j, k \in DOMAIN values \ {i} : values[j].carbon = values[k].carbon
    BY <2>1, <2>3
  <2>5. \A j \in DOMAIN values \ {i} :
          DeviatesBeyond(values[i].carbon, 2 * values[j].carbon,
                         toleranceFor(values[Min(DOMAIN values)].methodology))
    BY <2>1, <2>2, <2>3, <1>3
  <2> HIDE DEF values, peers
  <2>6. LET verdict == assessCrossSourceAnomaly(values)
        IN verdict.kind = "outlier" /\ verdict.outliers = {values[i].source}
    BY <2>3, <2>4, <2>5, DissenterNamed
  <2> QED
    BY <2>1, <2>3, <2>6
<1>5. key \in {PeriodKey(verified[j]) : j \in DOMAIN verified}
  BY DEF Restrict, isVerified
<1>6. computeCrossSourceAnomalies(listed)[key] = assessCrossSourceAnomaly(values)
  BY <1>2, <1>5 DEF computeCrossSourceAnomalies, assessCluster
<1>7. groupAndAssess(verified)[key] = assessCrossSourceAnomaly(values)
  BY <1>2, <1>5 DEF groupAndAssess
<1> QED
  BY <1>4, <1>6, <1>7

\* LoneDissenterIsNamed holds in every reachable state.
THEOREM DissentersAreNamed == CrossSpec => []LoneDissenterIsNamed
BY CrossTypes, NamedIfListed, PTL
=============================================================================
