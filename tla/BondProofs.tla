----------------------------- MODULE BondProofs -----------------------------
(***************************************************************************)
(* Proofs about the issuer, and about the router composed with it: for     *)
(* every set of addresses, projects, tranche configurations, orders and    *)
(* assets, every amount and price, every cap and every time bound.  They   *)
(* begin with the lemmas about sums that the proofs of the other contracts *)
(* use as well.                                                            *)
(***************************************************************************)
EXTENDS DexRouter, FiniteSetTheorems, Functions, TLAPS

(* The units of one key number its amount.                                 *)
LEMMA SlotSize ==
  ASSUME NEW x, NEW n \in Nat
  PROVE  /\ IsFiniteSet({x} \X (1..n))
         /\ Cardinality({x} \X (1..n)) = n
<1> DEFINE S == 1..n
           T == {x} \X (1..n)
           g == [i \in S |-> <<x, i>>]
<1>1. /\ IsFiniteSet(S)
      /\ Cardinality(S) = n
  BY FS_Interval
<1>2. g \in Bijection(S, T)
  BY DEF Bijection, Injection, Surjection, IsInjective
<1>3. ExistsBijection(S, T)
  BY <1>2 DEF ExistsBijection
<1> QED
  BY <1>1, <1>3, FS_Bijection

(* When a ledger changes at key x only, the units of the new ledger g are  *)
(* those of the other keys of f, and g[x] of key x.                        *)
LEMMA UnitsExcept ==
  ASSUME NEW S, NEW f \in [S -> Nat], NEW g \in [S -> Nat], NEW x \in S,
         \A y \in S : y # x => g[y] = f[y]
  PROVE  Units(g) = (Units(f) \ ({x} \X (1..f[x]))) \cup ({x} \X (1..g[x]))
<1> DEFINE Other == UNION {{y} \X (1..f[y]) : y \in S \ {x}}
<1>1. Units(g) = {x} \X (1..g[x]) \cup Other
  BY DEF Units
<1>2. Units(f) = {x} \X (1..f[x]) \cup Other
  BY DEF Units
<1>3. ({x} \X (1..f[x])) \cap Other = {}
  OBVIOUS
<1> HIDE DEF Other
<1> QED
  BY <1>1, <1>2, <1>3

(* Changing the amount of one key from f[x] to n changes the sum by the    *)
(* difference, and a finite ledger stays finite.                           *)
LEMMA TallyExcept ==
  ASSUME NEW S, NEW f \in [S -> Nat], NEW x \in S, NEW n \in Nat,
         IsFiniteSet(Units(f))
  PROVE  /\ IsFiniteSet(Units([f EXCEPT ![x] = n]))
         /\ Tally([f EXCEPT ![x] = n]) = Tally(f) - f[x] + n
         /\ Tally(f) \in Nat
         /\ f[x] <= Tally(f)
<1> DEFINE A == {x} \X (1..f[x])
           B == {x} \X (1..n)
           R == Units(f) \ A
<1>1. /\ IsFiniteSet(A) /\ Cardinality(A) = f[x]
      /\ IsFiniteSet(B) /\ Cardinality(B) = n
  BY SlotSize
<1>2. A \subseteq Units(f)
  BY DEF Units
<1>3. Units(f) \cap A = A
  BY <1>2
<1>4. /\ IsFiniteSet(R)
      /\ Cardinality(R) = Cardinality(Units(f)) - f[x]
  <2>1. /\ IsFiniteSet(Units(f) \ A)
        /\ Cardinality(Units(f) \ A) = Cardinality(Units(f)) - Cardinality(Units(f) \cap A)
    BY FS_Difference
  <2> QED BY <1>1, <1>3, <2>1
<1>5. R \cap B = {}
  BY DEF Units
<1>6. /\ IsFiniteSet(R \cup B)
      /\ Cardinality(R \cup B) = Cardinality(R) + n
  <2>1. Cardinality(R \cap B) = 0
    BY <1>5, FS_EmptySet
  <2>2. Cardinality(R) \in Nat
    BY <1>4, FS_CardinalityType
  <2>3. /\ IsFiniteSet(R \cup B)
        /\ Cardinality(R \cup B) = Cardinality(R) + Cardinality(B) - Cardinality(R \cap B)
    <3> HIDE DEF R, B
    <3> QED BY <1>1, <1>4, FS_Union
  <2> HIDE DEF R, B
  <2> QED BY <1>1, <2>1, <2>2, <2>3
<1>7. Units([f EXCEPT ![x] = n]) = R \cup B
  <2> DEFINE g == [f EXCEPT ![x] = n]
  <2>1. g \in [S -> Nat] /\ g[x] = n /\ \A y \in S : y # x => g[y] = f[y]
    OBVIOUS
  <2> HIDE DEF g
  <2>2. Units(g) = (Units(f) \ ({x} \X (1..f[x]))) \cup ({x} \X (1..g[x]))
    BY <2>1, UnitsExcept
  <2>3. Units(g) = R \cup B
    BY <2>1, <2>2
  <2> QED BY <2>3 DEF g
<1>8. Cardinality(Units(f)) \in Nat /\ f[x] <= Cardinality(Units(f))
  BY <1>1, <1>2, FS_CardinalityType, FS_Subset
<1> QED
  BY <1>4, <1>6, <1>7, <1>8 DEF Tally

(* A ledger of zeros has no units.                                         *)
LEMMA TallyZero ==
  ASSUME NEW S
  PROVE  /\ IsFiniteSet(Units([x \in S |-> 0]))
         /\ Tally([x \in S |-> 0]) = 0
<1>1. Units([x \in S |-> 0]) = {}
  BY DEF Units
<1> QED
  BY <1>1, FS_EmptySet DEF Tally

(* A ledger g that differs from f at key x only has the sum of f, less f[x] *)
(* and plus g[x].                                                          *)
LEMMA TallyChange ==
  ASSUME NEW S, NEW f \in [S -> Nat], NEW g \in [S -> Nat], NEW x \in S,
         \A y \in S : y # x => g[y] = f[y], IsFiniteSet(Units(f))
  PROVE  /\ IsFiniteSet(Units(g))
         /\ Tally(g) = Tally(f) - f[x] + g[x]
<1>1. g = [f EXCEPT ![x] = g[x]]
  OBVIOUS
<1>2. g[x] \in Nat
  OBVIOUS
<1> QED
  BY <1>1, <1>2, TallyExcept

(* A new key adds its amount to the sum.                                   *)
LEMMA TallyNewKey ==
  ASSUME NEW S, NEW x, x \notin S, NEW f \in [S -> Nat], NEW g \in [S \cup {x} -> Nat],
         \A y \in S : g[y] = f[y], IsFiniteSet(Units(f))
  PROVE  /\ IsFiniteSet(Units(g))
         /\ Tally(g) = Tally(f) + g[x]
<1> DEFINE A == {x} \X (1..g[x])
<1>1. g[x] \in Nat
  OBVIOUS
<1>2. IsFiniteSet(A) /\ Cardinality(A) = g[x]
  BY <1>1, SlotSize
<1>3. Units(g) = Units(f) \cup A
  BY DEF Units
<1>4. Units(f) \cap A = {}
  BY DEF Units
<1> HIDE DEF A
<1>5. /\ IsFiniteSet(Units(f) \cup A)
      /\ Cardinality(Units(f) \cup A) = Cardinality(Units(f)) + Cardinality(A) - Cardinality({})
  BY <1>2, <1>4, FS_Union
<1>6. Cardinality({}) = 0 /\ Cardinality(Units(f)) \in Nat
  BY FS_EmptySet, FS_CardinalityType
<1> QED
  BY <1>1, <1>2, <1>3, <1>5, <1>6 DEF Tally

(* A ledger that is smaller at every key has the smaller sum.              *)
LEMMA TallyMonotone ==
  ASSUME NEW S, NEW f \in [S -> Nat], NEW g \in [S -> Nat],
         \A x \in S : f[x] <= g[x], IsFiniteSet(Units(g))
  PROVE  /\ IsFiniteSet(Units(f))
         /\ Tally(f) <= Tally(g)
<1>1. ASSUME NEW x \in S PROVE {x} \X (1..f[x]) \subseteq {x} \X (1..g[x])
  OBVIOUS
<1>2. Units(f) \subseteq Units(g)
  BY <1>1 DEF Units
<1> QED
  BY <1>2, FS_Subset DEF Tally

(* Position j of unit i, when every unit is split into k: the numbers that *)
(* arise are those up to k * n, each once.                                 *)
LEMMA Position ==
  ASSUME NEW k \in Nat, NEW i \in Nat, NEW j \in 1..k, NEW n \in Nat, i < n
  PROVE  k * i + j \in 1..k * n
<1>1. i + 1 <= n
  OBVIOUS
<1>2. k * (i + 1) <= k * n
  <2>1. PICK d \in Nat : n = (i + 1) + d
    <3>1. n - (i + 1) \in Nat /\ n = (i + 1) + (n - (i + 1))
      BY <1>1
    <3> QED
      BY <3>1
  <2>2. k * n = k * (i + 1) + k * d
    BY <2>1
  <2>3. k * d \in Nat /\ k * (i + 1) \in Nat
    BY <2>1
  <2> QED
    BY <2>2, <2>3
<1>3. k * (i + 1) = k * i + k /\ k * i \in Nat /\ k * n \in Nat
  OBVIOUS
<1> QED
  BY <1>2, <1>3

LEMMA PositionsDiffer ==
  ASSUME NEW k \in Nat, NEW i \in Nat, NEW j \in 1..k, NEW ii \in Nat, NEW jj \in 1..k,
         k * i + j = k * ii + jj
  PROVE  i = ii /\ j = jj
<1>1. ASSUME NEW a \in Nat, NEW b \in Nat, NEW u \in 1..k, NEW v \in 1..k, a < b
      PROVE  k * a + u # k * b + v
  <2>1. k * a + u \in 1..k * b
    BY <1>1, Position
  <2>2. k * b \in Nat
    BY <1>1
  <2> QED
    BY <2>1, <2>2
<1>2. ~(i < ii) /\ ~(ii < i)
  BY <1>1
<1>3. i = ii
  BY <1>2
<1>4. k * i \in Nat
  OBVIOUS
<1> QED
  BY <1>3, <1>4

(* Every number up to k * n is such a position.                            *)
LEMMA PositionFound ==
  ASSUME NEW k \in Nat, NEW n \in Nat, NEW m \in 1..k * n
  PROVE  \E i \in 0..n - 1, j \in 1..k : m = k * i + j
<1>1. k # 0
  <2>1. ASSUME k = 0 PROVE FALSE
    <3>1. k * n = 0
      BY <2>1
    <3> QED
      BY <3>1
  <2> QED
    BY <2>1
<1> DEFINE i == (m - 1) \div k
           j == ((m - 1) % k) + 1
<1>2. k * n \in Nat /\ m - 1 \in Nat
  OBVIOUS
<1>3. i \in Int /\ j - 1 \in 0..k - 1 /\ m - 1 = k * i + (j - 1)
  BY <1>1, <1>2
<1>4. i >= 0
  BY <1>1, <1>2
<1>5. m = k * i + j /\ j \in 1..k
  <2>1. j \in Int
    BY <1>1, <1>2
  <2> HIDE DEF i, j
  <2>2. k * i \in Int
    BY <1>3
  <2> QED
    BY <1>3, <2>1, <2>2
<1>6. i < n
  <2> HIDE DEF i
  <2>1. ASSUME n <= i PROVE FALSE
    <3>1. PICK d \in Nat : i = n + d
      <4>1. i - n \in Nat /\ i = n + (i - n)
        BY <1>3, <1>4, <2>1
      <4> QED
        BY <4>1
    <3>2. k * i = k * n + k * d /\ k * d \in Nat
      BY <3>1
    <3> HIDE DEF j
    <3> QED
      BY <1>2, <1>5, <3>2
  <2> QED
    BY <1>3, <2>1
<1>7. i \in 0..n - 1
  BY <1>3, <1>4, <1>6
<1> QED
  BY <1>5, <1>7

(* Multiplying every amount by k multiplies the sum by k.                  *)
LEMMA TallyScale ==
  ASSUME NEW S, NEW f \in [S -> Nat], NEW k \in Nat, IsFiniteSet(Units(f))
  PROVE  /\ IsFiniteSet(Units([x \in S |-> k * f[x]]))
         /\ Tally([x \in S |-> k * f[x]]) = k * Tally(f)
<1> DEFINE g == [x \in S |-> k * f[x]]
           A == Units(f) \X (1..k)
           pos(u) == k * (u[1][2] - 1) + u[2]
           h == [u \in A |-> <<u[1][1], pos(u)>>]
<1>1. /\ Units(f) = {<<x, i>> : x \in S, i \in Nat} \cap
                    {u \in S \X Nat : u[2] \in 1..f[u[1]]}
      /\ Units(g) = {u \in S \X Nat : u[2] \in 1..k * f[u[1]]}
  BY DEF Units
<1>2. ASSUME NEW u \in A
      PROVE  /\ u[1][1] \in S /\ u[1][2] - 1 \in Nat /\ u[2] \in 1..k
             /\ u[1][2] - 1 < f[u[1][1]] /\ u = <<<<u[1][1], u[1][2]>>, u[2]>>
  BY <1>1
<1>3. ASSUME NEW u \in A PROVE h[u] \in Units(g)
  <2>1. pos(u) \in 1..k * f[u[1][1]]
    BY <1>2, Position
  <2>2. k * f[u[1][1]] \in Nat
    BY <1>2
  <2> QED
    BY <1>1, <1>2, <2>1, <2>2
<1>4. ASSUME NEW u \in A, NEW v \in A, h[u] = h[v] PROVE u = v
  <2>1. u[1][1] = v[1][1] /\ pos(u) = pos(v)
    BY <1>4
  <2>2. u[1][2] - 1 = v[1][2] - 1 /\ u[2] = v[2]
    BY <1>2, <2>1, PositionsDiffer
  <2>3. u[1][2] \in Nat /\ v[1][2] \in Nat
    BY <1>1
  <2> QED
    BY <1>2, <2>1, <2>2, <2>3
<1>5. ASSUME NEW w \in Units(g) PROVE \E u \in A : h[u] = w
  <2>1. w[1] \in S /\ w[2] \in 1..k * f[w[1]] /\ w = <<w[1], w[2]>>
    BY <1>1
  <2>2. PICK i \in 0..f[w[1]] - 1, j \in 1..k : w[2] = k * i + j
    BY <2>1, PositionFound
  <2> DEFINE u == <<<<w[1], i + 1>>, j>>
  <2>3. u \in A
    BY <1>1, <2>1, <2>2
  <2>4. (i + 1) - 1 = i
    OBVIOUS
  <2>5. h[u] = w
    BY <2>1, <2>2, <2>3, <2>4
  <2> QED
    BY <2>3, <2>5
<1>6. h \in Bijection(A, Units(g))
  <2> HIDE DEF A
  <2>1. h \in [A -> Units(g)]
    BY <1>3
  <2> HIDE DEF h
  <2> QED
    BY <1>4, <1>5, <2>1 DEF Bijection, Injection, Surjection, IsInjective
<1>7. IsFiniteSet(A) /\ Cardinality(A) = Cardinality(Units(f)) * k
  <2>1. IsFiniteSet(1..k) /\ Cardinality(1..k) = k
    BY FS_Interval
  <2> QED
    BY <2>1, FS_Product
<1>8. IsFiniteSet(Units(g)) /\ Cardinality(Units(g)) = Cardinality(A)
  BY <1>6, <1>7, FS_Bijection DEF ExistsBijection
<1>9. Cardinality(Units(f)) \in Nat
  BY FS_CardinalityType
<1> QED
  BY <1>7, <1>8, <1>9 DEF Tally
-----------------------------------------------------------------------------
\* The configurations are well typed, so their numbers can be reasoned about.
LEMMA ConfigTypes ==
  ASSUME NEW config \in Configs
  PROVE  /\ config.face_value \in Int
         /\ config.total_supply \in Int
         /\ config.maturity_date \in Nat
<1> QED
  BY IssuerAssumption, I128Assumption DEF I128

\* Amounts offered to calls are integers.
LEMMA AmountTypes == Amount \subseteq Int
<1> QED
  BY IssuerAssumption, I128Assumption DEF I128
-----------------------------------------------------------------------------
(***************************************************************************)
(* TypeOK alone is not inductive: redeem subtracts from total_subscribed   *)
(* after checking the holder's balance only, so that total stays           *)
(* non-negative because it is the sum of the balances.  A tranche that has *)
(* not been issued yet must have no subscriptions, because issue_bond      *)
(* starts its total at 0.                                                  *)
(***************************************************************************)
Backed(b) ==
  /\ IsFiniteSet(Units(holderBalance[b]))
  /\ Tally(holderBalance[b]) = totalSubscribed[b]
  /\ b > bondCount => totalSubscribed[b] = 0

IInv == TypeOK /\ \A b \in BondId : Backed(b)

\* The inductive invariant holds when the contract has been deployed.
LEMMA InvInit == Init => IInv
<1> SUFFICES ASSUME Init PROVE IInv
  OBVIOUS
<1>1. TypeOK
  <2>1. bondConfig \in Seq(Configs) /\ Len(bondConfig) = bondCount
    BY DEF Init
  <2>2. holderBalance \in [BondId -> [Address -> Nat]]
    BY DEF Init
  <2>3. /\ totalSubscribed \in [BondId -> Nat] /\ redemptionPool \in [BondId -> Nat]
        /\ nonce \in [Address -> Nat] /\ status \in [BondId -> BondStatus]
    BY DEF Init, BondStatus
  <2>4. /\ now \in Nat /\ project \in [Project -> Registry] /\ admin \in Address
        /\ bondCount \in 0..MaxBonds
    BY IssuerAssumption DEF Init
  <2>5. registryLinked \in BOOLEAN
    BY DEF Init
  <2> QED
    BY <2>1, <2>2, <2>3, <2>4, <2>5 DEF TypeOK
<1>2. ASSUME NEW b \in BondId PROVE Backed(b)
  <2>1. holderBalance[b] = [a \in Address |-> 0]
    BY DEF Init
  <2>2. /\ IsFiniteSet(Units(holderBalance[b]))
        /\ Tally(holderBalance[b]) = 0
    BY <2>1, TallyZero
  <2> QED
    BY <2>2 DEF Init, Backed
<1> QED
  BY <1>1, <1>2 DEF IInv

\* A call that leaves the ledgers and the list of tranches alone preserves
\* what the invariant says of them.
LEMMA BackedUnchanged ==
  ASSUME IInv, UNCHANGED <<bondCount, totalSubscribed, holderBalance>>
  PROVE  \A b \in BondId : Backed(b)'
<1> SUFFICES ASSUME NEW b \in BondId PROVE Backed(b)'
  OBVIOUS
<1> QED
  BY Zenon DEF IInv, Backed

\* The calls that only touch roles, links, the pool or the status.
LEMMA RolesInv ==
  ASSUME IInv, NEW a \in Address, NEW c \in Address, NEW n \in 0..MaxNonce,
         set_admin(a, c) \/ set_project_registry(a, n)
  PROVE  IInv'
<1>1. TypeOK'
  <2>1. CASE set_admin(a, c)
    BY <2>1 DEF IInv, TypeOK, set_admin
  <2>2. CASE set_project_registry(a, n)
    <3>1. nonce' \in [Address -> Nat]
      BY <2>2 DEF IInv, TypeOK, set_project_registry, consume_nonce
    <3> QED
      BY <2>2, <3>1 DEF IInv, TypeOK, set_project_registry
  <2> QED
    BY <2>1, <2>2
<1>2. UNCHANGED <<bondCount, totalSubscribed, holderBalance>>
  BY DEF set_admin, set_project_registry
<1> QED
  BY <1>1, <1>2, BackedUnchanged DEF IInv

\* mature_bond changes a status and no ledger.
LEMMA MatureInv ==
  ASSUME IInv, NEW a \in Address, NEW n \in 0..MaxNonce, NEW b \in BondId,
         mature_bond(a, b, n)
  PROVE  IInv'
<1>1. TypeOK'
  BY DEF IInv, TypeOK, mature_bond, consume_nonce, BondStatus
<1>2. UNCHANGED <<bondCount, totalSubscribed, holderBalance>>
  BY DEF mature_bond
<1> QED
  BY <1>1, <1>2, BackedUnchanged DEF IInv

\* fund_redemption adds to the redemption pool and to no ledger of tokens.
LEMMA FundInv ==
  ASSUME IInv, NEW a \in Address, NEW n \in 0..MaxNonce, NEW b \in BondId,
         NEW amount \in Amount, fund_redemption(a, b, amount, n)
  PROVE  IInv'
<1>1. amount \in Nat
  BY AmountTypes DEF fund_redemption
<1>2. TypeOK'
  BY <1>1 DEF IInv, TypeOK, fund_redemption, consume_nonce
<1>3. UNCHANGED <<bondCount, totalSubscribed, holderBalance>>
  BY DEF fund_redemption
<1> QED
  BY <1>2, <1>3, BackedUnchanged DEF IInv

\* A new tranche starts with an empty ledger.
LEMMA IssueInv ==
  ASSUME IInv, NEW a \in Address, NEW n \in 0..MaxNonce, NEW config \in Configs,
         issue_bond(a, config, n)
  PROVE  IInv'
<1>1. nonce' \in [Address -> Nat]
  BY DEF IInv, TypeOK, issue_bond, consume_nonce
<1>2. bondCount' \in 0..MaxBonds /\ bondCount' = bondCount + 1
  BY IssuerAssumption DEF IInv, TypeOK, issue_bond
<1>3. bondConfig' \in Seq(Configs) /\ Len(bondConfig') = bondCount'
  BY <1>2 DEF IInv, TypeOK, issue_bond
<1>4. /\ status' \in [BondId -> BondStatus]
      /\ totalSubscribed' \in [BondId -> Nat]
  BY DEF IInv, TypeOK, issue_bond, BondStatus
<1>5. TypeOK'
  BY <1>1, <1>2, <1>3, <1>4 DEF IInv, TypeOK, issue_bond
<1>6. totalSubscribed' = totalSubscribed
  <2>1. bondCount + 1 \in BondId /\ totalSubscribed[bondCount + 1] = 0
    BY <1>2, IssuerAssumption DEF IInv, Backed, TypeOK, BondId, issue_bond
  <2> QED
    BY <2>1 DEF IInv, TypeOK, issue_bond
<1>7. ASSUME NEW b \in BondId PROVE Backed(b)'
  BY <1>2, <1>6 DEF IInv, TypeOK, BondId, Backed, issue_bond
<1> QED
  BY <1>5, <1>7 DEF IInv

\* Subscribing adds the same amount to one balance and to the total.
LEMMA SubscribeInv ==
  ASSUME IInv, NEW a \in Address, NEW n \in 0..MaxNonce, NEW b \in BondId,
         NEW amount \in Amount, subscribe(a, b, amount, n)
  PROVE  IInv'
<1>1. amount \in Nat
  BY AmountTypes DEF subscribe
<1>2. nonce' \in [Address -> Nat]
  BY DEF IInv, TypeOK, subscribe, consume_nonce
<1>3. Credited(b, a, amount) \in Nat
  BY <1>1 DEF IInv, TypeOK, Credited
<1>4. holderBalance' \in [BondId -> [Address -> Nat]]
  BY <1>3 DEF IInv, TypeOK, subscribe
<1>5. totalSubscribed' \in [BondId -> Nat]
  BY <1>1 DEF IInv, TypeOK, subscribe
<1>6. TypeOK'
  BY <1>2, <1>4, <1>5 DEF IInv, TypeOK, subscribe
<1>7. Backed(b)'
  <2> DEFINE f == holderBalance[b]
             m == Credited(b, a, amount)
  <2>1. f \in [Address -> Nat] /\ IsFiniteSet(Units(f)) /\ Tally(f) = totalSubscribed[b]
    BY DEF IInv, TypeOK, Backed
  <2>2. /\ IsFiniteSet(Units([f EXCEPT ![a] = m]))
        /\ Tally([f EXCEPT ![a] = m]) = Tally(f) - f[a] + m
        /\ f[a] <= Tally(f)
    BY <2>1, <1>3, TallyExcept
  <2>3. holderBalance'[b] = [f EXCEPT ![a] = m]
    BY DEF IInv, TypeOK, subscribe
  <2>4. totalSubscribed'[b] = totalSubscribed[b] + amount
    BY DEF IInv, TypeOK, subscribe
  <2>5. bondCount' = bondCount /\ b <= bondCount
    BY DEF IInv, TypeOK, subscribe, IsLive, BondExists
  <2>6. m = f[a] + amount
    BY DEF Credited
  <2>7. totalSubscribed[b] \in Nat /\ f[a] \in Nat /\ bondCount \in Nat
    BY DEF IInv, TypeOK
  <2> HIDE DEF f, m
  <2> QED
    BY <1>1, <2>1, <2>2, <2>3, <2>4, <2>5, <2>6, <2>7 DEF Backed, BondId
<1>8. ASSUME NEW c \in BondId, c # b PROVE Backed(c)'
  BY <1>8 DEF IInv, TypeOK, Backed, subscribe
<1> QED
  BY <1>6, <1>7, <1>8 DEF IInv

\* A transfer moves an amount between two balances; the total is left alone.
LEMMA TransferInv ==
  ASSUME IInv, NEW from \in Address, NEW to \in Address, NEW n \in 0..MaxNonce,
         NEW b \in BondId, NEW amount \in Amount, Transferred(from, to, b, amount, n),
         UNCHANGED <<now, project>>
  PROVE  IInv'
<1>1. amount \in Nat /\ to # from
  BY AmountTypes DEF Transferred
<1>2. nonce' \in [Address -> Nat]
  BY DEF IInv, TypeOK, Transferred, consume_nonce
<1>3. Credited(b, to, amount) \in Nat /\ Debited(b, from, amount) \in Nat
  BY <1>1 DEF IInv, TypeOK, Transferred, HasBalance, Credited, Debited
<1>4. holderBalance' \in [BondId -> [Address -> Nat]]
  BY <1>3 DEF IInv, TypeOK, Transferred
<1>5. TypeOK'
  BY <1>2, <1>4 DEF IInv, TypeOK, Transferred
<1>6. Backed(b)'
  <2> DEFINE f == holderBalance[b]
             d == Debited(b, from, amount)
             m == Credited(b, to, amount)
             g == [f EXCEPT ![from] = d]
  <2>1. f \in [Address -> Nat] /\ IsFiniteSet(Units(f)) /\ Tally(f) = totalSubscribed[b]
    BY DEF IInv, TypeOK, Backed
  <2>2. /\ IsFiniteSet(Units(g))
        /\ Tally(g) = Tally(f) - f[from] + d
        /\ Tally(f) \in Nat
    BY <2>1, <1>3, TallyExcept
  <2>3. g \in [Address -> Nat] /\ g[to] = f[to]
    BY <2>1, <1>1, <1>3
  <2>4. d = f[from] - amount /\ m = f[to] + amount
    BY DEF Debited, Credited
  <2>5. f[from] \in Nat /\ f[to] \in Nat /\ totalSubscribed[b] \in Nat
    BY DEF IInv, TypeOK
  <2>6. holderBalance'[b] = [g EXCEPT ![to] = m]
    BY DEF IInv, TypeOK, Transferred
  <2>7. m \in Nat
    BY <1>3
  <2> HIDE DEF f, d, m, g
  <2>8. /\ IsFiniteSet(Units([g EXCEPT ![to] = m]))
        /\ Tally([g EXCEPT ![to] = m]) = Tally(g) - g[to] + m
    <3>1. g \in [Address -> Nat] /\ IsFiniteSet(Units(g))
      BY <2>2, <2>3
    <3> QED
      BY <3>1, <2>7, TallyExcept
  <2>9. Tally(holderBalance'[b]) = totalSubscribed[b]
    BY <1>1, <2>1, <2>2, <2>3, <2>4, <2>5, <2>6, <2>8
  <2>10. totalSubscribed' = totalSubscribed /\ bondCount' = bondCount
    BY DEF Transferred
  <2> QED
    BY <2>6, <2>8, <2>9, <2>10 DEF IInv, Backed
<1>7. ASSUME NEW c \in BondId, c # b PROVE Backed(c)'
  BY <1>7 DEF IInv, TypeOK, Backed, Transferred
<1> QED
  BY <1>5, <1>6, <1>7 DEF IInv

\* Redeeming takes the same amount out of one balance and out of the total.
LEMMA RedeemInv ==
  ASSUME IInv, NEW a \in Address, NEW n \in 0..MaxNonce, NEW b \in BondId,
         NEW amount \in Amount, redeem(a, b, amount, n)
  PROVE  IInv'
<1> DEFINE f == holderBalance[b]
           d == Debited(b, a, amount)
<1>1. amount \in Nat
  BY AmountTypes DEF redeem
<1>2. nonce' \in [Address -> Nat]
  BY DEF IInv, TypeOK, redeem, consume_nonce
<1>3. d \in Nat /\ d = f[a] - amount
  BY <1>1 DEF IInv, TypeOK, redeem, HasBalance, Debited
<1>4. f \in [Address -> Nat] /\ IsFiniteSet(Units(f)) /\ Tally(f) = totalSubscribed[b]
  BY DEF IInv, TypeOK, Backed
<1>5. /\ IsFiniteSet(Units([f EXCEPT ![a] = d]))
      /\ Tally([f EXCEPT ![a] = d]) = Tally(f) - f[a] + d
      /\ f[a] <= Tally(f)
  BY <1>3, <1>4, TallyExcept
<1>6. totalSubscribed[b] \in Nat /\ f[a] \in Nat
  BY DEF IInv, TypeOK
<1>7. totalSubscribed[b] - amount \in Nat
  <2> HIDE DEF f, d
  <2> QED
    BY <1>1, <1>3, <1>4, <1>5, <1>6
<1>8. holderBalance' \in [BondId -> [Address -> Nat]]
  BY <1>3 DEF IInv, TypeOK, redeem
<1>9. totalSubscribed' \in [BondId -> Nat]
  BY <1>7 DEF IInv, TypeOK, redeem
<1>10. redemptionPool' \in [BondId -> Nat]
  <2>1. bondConfig[b] \in Configs
    BY DEF IInv, TypeOK, redeem, BondExists
  <2>2. Payout(b, amount) \in Int
    BY <1>1, <2>1, ConfigTypes DEF Payout
  <2> QED
    BY <2>2 DEF IInv, TypeOK, redeem
<1>11. TypeOK'
  BY <1>2, <1>8, <1>9, <1>10 DEF IInv, TypeOK, redeem
<1>12. Backed(b)'
  <2>1. holderBalance'[b] = [f EXCEPT ![a] = d]
    BY DEF IInv, TypeOK, redeem
  <2>2. totalSubscribed'[b] = totalSubscribed[b] - amount
    BY DEF IInv, TypeOK, redeem
  <2>3. bondCount' = bondCount /\ b <= bondCount /\ bondCount \in Nat
    BY DEF IInv, TypeOK, redeem, BondExists
  <2> HIDE DEF f, d
  <2> QED
    BY <1>1, <1>3, <1>4, <1>5, <1>6, <2>1, <2>2, <2>3 DEF Backed, BondId
<1>13. ASSUME NEW c \in BondId, c # b PROVE Backed(c)'
  BY <1>13 DEF IInv, TypeOK, Backed, redeem
<1> QED
  BY <1>11, <1>12, <1>13 DEF IInv

\* The environment: time and the registry.
LEMMA EnvironmentInv ==
  ASSUME IInv, Tick \/ RegistryStep \/ UNCHANGED vars
  PROVE  IInv'
<1>1. TypeOK'
  BY DEF IInv, TypeOK, Tick, LedgerCloses, RegistryStep, vars, issuerVars
<1>2. UNCHANGED <<bondCount, totalSubscribed, holderBalance>>
  BY DEF Tick, LedgerCloses, RegistryStep, vars, issuerVars
<1> QED
  BY <1>1, <1>2, BackedUnchanged DEF IInv

\* Every call, and every step of the environment, preserves the inductive
\* invariant.
LEMMA InvNext == IInv /\ [Next]_vars => IInv'
<1> SUFFICES ASSUME IInv, [Next]_vars PROVE IInv'
  OBVIOUS
<1>1. ASSUME NEW a \in Address, NEW n \in 0..MaxNonce, IssuerCall(a, n)
      PROVE  IInv'
  <2>1. CASE set_project_registry(a, n)
    BY <2>1, RolesInv
  <2>2. ASSUME NEW config \in Configs, issue_bond(a, config, n) PROVE IInv'
    BY <2>2, IssueInv
  <2>3. ASSUME NEW b \in BondId, NEW amount \in Amount, subscribe(a, b, amount, n)
        PROVE  IInv'
    BY <2>3, SubscribeInv
  <2>4. ASSUME NEW b \in BondId, NEW amount \in Amount, NEW to \in Address,
               transfer(a, to, b, amount, n)
        PROVE  IInv'
    BY <2>4, TransferInv DEF transfer
  <2>5. ASSUME NEW b \in BondId, NEW amount \in Amount, fund_redemption(a, b, amount, n)
        PROVE  IInv'
    BY <2>5, FundInv
  <2>6. ASSUME NEW b \in BondId, NEW amount \in Amount, redeem(a, b, amount, n)
        PROVE  IInv'
    BY <2>6, RedeemInv
  <2>7. ASSUME NEW b \in BondId, mature_bond(a, b, n) PROVE IInv'
    BY <2>7, MatureInv
  <2> QED
    BY <1>1, <2>1, <2>2, <2>3, <2>4, <2>5, <2>6, <2>7 DEF IssuerCall
<1>2. ASSUME NEW a \in Address, NEW c \in Address, set_admin(a, c) PROVE IInv'
  <2>1. 0 \in 0..MaxNonce
    BY IssuerAssumption
  <2> QED
    BY <1>2, <2>1, RolesInv
<1>3. CASE Tick \/ RegistryStep \/ UNCHANGED vars
  BY <1>3, EnvironmentInv
<1> QED
  BY <1>1, <1>2, <1>3 DEF Next

(* Whatever calls are made, the storage keeps its types and each tranche's *)
(* total equals the sum of its balances, of which finitely many are not 0  *)
(* (issue_bond, subscribe, transfer, redeem).                              *)
THEOREM InductiveInvariant == Spec => []IInv
<1> QED
  BY InvInit, InvNext, PTL DEF Spec

(* Balances, totals and pools never become negative and every tranche has  *)
(* a configuration, whatever calls are made (BondIssuer storage).          *)
THEOREM TypeCorrect == Spec => []TypeOK
<1>1. IInv => TypeOK
  BY DEF IInv
<1> QED
  BY <1>1, InductiveInvariant, PTL

(* total_subscribed is the sum of the holder balances of the tranche, for  *)
(* any set of accounts and any number of tranches.                         *)
THEOREM SupplyIsConserved == Spec => []SupplyConserved
<1>1. IInv => SupplyConserved
  BY DEF IInv, Backed, SupplyConserved
<1> QED
  BY <1>1, InductiveInvariant, PTL
-----------------------------------------------------------------------------
\* A step that keeps the tranches and sells nothing keeps every tranche within
\* its supply.
LEMMA SupplyKept ==
  ASSUME IInv, NeverOversubscribed, UNCHANGED <<bondCount, bondConfig>>,
         \A b \in 1..bondCount : totalSubscribed'[b] <= totalSubscribed[b],
         totalSubscribed' \in [BondId -> Nat]
  PROVE  NeverOversubscribed'
<1> SUFFICES ASSUME NEW b \in 1..bondCount
             PROVE  /\ totalSubscribed'[b] <= bondConfig[b].total_supply
                    /\ bondConfig[b].total_supply <= MAX_SUPPLY
  BY DEF NeverOversubscribed
<1>1. b \in BondId
  BY IssuerAssumption DEF IInv, TypeOK, BondId
<1>2. bondConfig[b] \in Configs
  BY DEF IInv, TypeOK
<1>3. bondConfig[b].total_supply \in Int
  BY <1>2, ConfigTypes
<1>4. totalSubscribed[b] \in Nat /\ totalSubscribed'[b] \in Nat
  BY <1>1 DEF IInv, TypeOK
<1> QED
  BY <1>3, <1>4 DEF NeverOversubscribed

\* No call takes a tranche that is within its supply over it: subscribe checks
\* the supply and every other call keeps or lowers the total.
LEMMA OversubscribedNext ==
  ASSUME IInv, IInv', NeverOversubscribed, [Next]_vars
  PROVE  NeverOversubscribed'
<1>0. totalSubscribed' \in [BondId -> Nat] /\ totalSubscribed \in [BondId -> Nat]
  BY DEF IInv, TypeOK
<1>00. \A b \in 1..bondCount : b \in BondId
  BY IssuerAssumption DEF IInv, TypeOK, BondId
<1>1. ASSUME NEW a \in Address, NEW n \in 0..MaxNonce, NEW config \in Configs,
             issue_bond(a, config, n)
      PROVE  NeverOversubscribed'
  <2> SUFFICES ASSUME NEW b \in 1..bondCount'
               PROVE  /\ totalSubscribed'[b] <= bondConfig'[b].total_supply
                      /\ bondConfig'[b].total_supply <= MAX_SUPPLY
    BY DEF NeverOversubscribed
  <2>1. bondCount \in Nat /\ bondCount' = bondCount + 1 /\ bondCount + 1 \in BondId
    BY <1>1, IssuerAssumption DEF IInv, TypeOK, BondId, issue_bond
  <2>2. CASE b = bondCount + 1
    <3>1. totalSubscribed'[b] = 0
      BY <1>0, <1>1, <2>1, <2>2 DEF issue_bond
    <3>2. bondConfig'[b] = config
      BY <1>1, <2>2 DEF IInv, TypeOK, issue_bond
    <3>3. config.total_supply \in 1..MAX_SUPPLY
      BY <1>1 DEF issue_bond, ValidConfig
    <3> QED
      BY <3>1, <3>2, <3>3, IssuerAssumption
  <2>3. CASE b \in 1..bondCount
    <3>1. totalSubscribed'[b] = totalSubscribed[b]
      BY <1>0, <1>00, <1>1, <2>1, <2>3 DEF issue_bond
    <3>2. bondConfig'[b] = bondConfig[b]
      BY <1>1, <2>3 DEF IInv, TypeOK, issue_bond
    <3> QED
      BY <2>3, <3>1, <3>2 DEF NeverOversubscribed
  <2> QED
    BY <2>1, <2>2, <2>3
<1>2. ASSUME NEW a \in Address, NEW n \in 0..MaxNonce, NEW b \in BondId,
             NEW amount \in Amount, subscribe(a, b, amount, n)
      PROVE  NeverOversubscribed'
  <2> SUFFICES ASSUME NEW c \in 1..bondCount
               PROVE  /\ totalSubscribed'[c] <= bondConfig[c].total_supply
                      /\ bondConfig[c].total_supply <= MAX_SUPPLY
    BY <1>2 DEF NeverOversubscribed, subscribe
  <2>1. CASE c = b
    BY <1>0, <1>2, <2>1 DEF subscribe, FitsSupply, NeverOversubscribed
  <2>2. CASE c # b
    BY <1>0, <1>00, <1>2, <2>2 DEF subscribe, NeverOversubscribed
  <2> QED
    BY <2>1, <2>2
<1>3. ASSUME NEW a \in Address, NEW n \in 0..MaxNonce, NEW b \in BondId,
             NEW amount \in Amount, redeem(a, b, amount, n)
      PROVE  NeverOversubscribed'
  <2>1. amount \in Nat
    BY <1>3, AmountTypes DEF redeem
  <2>2. \A c \in 1..bondCount : totalSubscribed'[c] <= totalSubscribed[c]
    BY <1>0, <1>00, <1>3, <2>1 DEF redeem
  <2>3. UNCHANGED <<bondCount, bondConfig>>
    BY <1>3 DEF redeem
  <2> QED
    BY <1>0, <2>2, <2>3, SupplyKept
<1>4. CASE UNCHANGED <<bondCount, bondConfig, totalSubscribed>>
  BY <1>4 DEF NeverOversubscribed
<1>5. \/ \E a \in Address, n \in 0..MaxNonce :
           \/ \E config \in Configs : issue_bond(a, config, n)
           \/ \E b \in BondId, amount \in Amount :
                subscribe(a, b, amount, n) \/ redeem(a, b, amount, n)
      \/ UNCHANGED <<bondCount, bondConfig, totalSubscribed>>
  <2>1. ASSUME NEW a \in Address, NEW n \in 0..MaxNonce, IssuerCall(a, n)
        PROVE  \/ \E config \in Configs : issue_bond(a, config, n)
               \/ \E b \in BondId, amount \in Amount :
                    subscribe(a, b, amount, n) \/ redeem(a, b, amount, n)
               \/ UNCHANGED <<bondCount, bondConfig, totalSubscribed>>
    BY <2>1 DEF IssuerCall, set_project_registry, transfer, Transferred,
                fund_redemption, mature_bond
  <2>2. ASSUME NEW a \in Address, NEW c \in Address, set_admin(a, c)
        PROVE  UNCHANGED <<bondCount, bondConfig, totalSubscribed>>
    BY <2>2 DEF set_admin
  <2>3. CASE Tick \/ RegistryStep \/ UNCHANGED vars
    BY <2>3 DEF Tick, LedgerCloses, RegistryStep, vars, issuerVars
  <2> QED
    BY <2>1, <2>2, <2>3 DEF Next
<1> QED
  BY <1>1, <1>2, <1>3, <1>4, <1>5

(* No order of subscriptions takes the outstanding amount of a tranche     *)
(* over the supply it was issued with (subscribe, redeem).                 *)
THEOREM SupplyIsCapped == Spec => []NeverOversubscribed
<1>1. Init => NeverOversubscribed
  BY DEF Init, NeverOversubscribed
<1> QED
  BY <1>1, OversubscribedNext, InductiveInvariant, PTL DEF Spec
-----------------------------------------------------------------------------
(* From the maturity date on no balance grows, before the admin matures    *)
(* the bond as well as after (subscribe, transfer).                        *)
THEOREM SupplyIsFrozen == Spec => FrozenAtMaturity
<1> DEFINE Frozen == \A b \in 1..bondCount : now >= bondConfig[b].maturity_date =>
                       \A h \in Address : holderBalance'[b][h] <= holderBalance[b][h]
<1>1. ASSUME IInv, Next PROVE Frozen
  <2> SUFFICES ASSUME NEW b \in 1..bondCount, now >= bondConfig[b].maturity_date,
                      NEW h \in Address
               PROVE  holderBalance'[b][h] <= holderBalance[b][h]
    OBVIOUS
  <2>0. bondCount \in 0..MaxBonds /\ MaxBonds \in Nat
    BY <1>1, IssuerAssumption DEF IInv, TypeOK
  <2>1. b \in BondId /\ holderBalance \in [BondId -> [Address -> Nat]] /\ now \in Nat
    BY <1>1, <2>0 DEF IInv, TypeOK, BondId
  <2>2. bondConfig[b].maturity_date \in Nat
    BY <1>1, ConfigTypes DEF IInv, TypeOK
  <2>3. ~IsLive(b)
    BY <2>1, <2>2 DEF IsLive
  <2>4. ASSUME NEW a \in Address, NEW n \in 0..MaxNonce, NEW c \in BondId,
               NEW amount \in Amount, subscribe(a, c, amount, n)
        PROVE  holderBalance'[b][h] <= holderBalance[b][h]
    <3>1. c # b
      BY <2>3, <2>4 DEF subscribe
    <3> QED
      BY <2>1, <2>4, <3>1 DEF subscribe
  <2>5. ASSUME NEW a \in Address, NEW n \in 0..MaxNonce, NEW c \in BondId,
               NEW amount \in Amount, NEW to \in Address, transfer(a, to, c, amount, n)
        PROVE  holderBalance'[b][h] <= holderBalance[b][h]
    <3>1. c # b
      BY <2>3, <2>5 DEF transfer, Transferred
    <3> QED
      BY <2>1, <2>5, <3>1 DEF transfer, Transferred
  <2>6. ASSUME NEW a \in Address, NEW n \in 0..MaxNonce, NEW c \in BondId,
               NEW amount \in Amount, redeem(a, c, amount, n)
        PROVE  holderBalance'[b][h] <= holderBalance[b][h]
    <3>1. amount \in Nat
      BY <2>6, AmountTypes DEF redeem
    <3> QED
      BY <2>1, <2>6, <3>1 DEF redeem, Debited
  <2>7. CASE UNCHANGED holderBalance
    BY <2>1, <2>7
  <2>8. \/ \E a \in Address, n \in 0..MaxNonce, c \in BondId, amount \in Amount :
             \/ subscribe(a, c, amount, n)
             \/ \E to \in Address : transfer(a, to, c, amount, n)
             \/ redeem(a, c, amount, n)
        \/ UNCHANGED holderBalance
    BY <1>1 DEF Next, issuerVars, IssuerCall, set_admin, set_project_registry, issue_bond,
                fund_redemption, mature_bond, Tick, LedgerCloses, RegistryStep
  <2> QED
    BY <2>4, <2>5, <2>6, <2>7, <2>8
<1>2. IInv /\ [Next]_vars => [Frozen]_vars
  BY <1>1
<1> QED
  BY <1>2, InductiveInvariant, PTL DEF Spec, FrozenAtMaturity

(* A matured bond whose pool covers the principal stays covered: what is   *)
(* paid to one holder leaves what the others are owed (redeem).            *)
THEOREM CoverageIsKept == Spec => CoverageNeverLost
<1> DEFINE Kept == \A b \in 1..bondCount :
                     (status[b] = "Matured" /\ shortfall(b) = 0) => (shortfall(b))' = 0
<1>1. ASSUME IInv, IInv', Next PROVE Kept
  <2> SUFFICES ASSUME NEW b \in 1..bondCount, status[b] = "Matured", shortfall(b) = 0
               PROVE  (shortfall(b))' = 0
    OBVIOUS
  <2> DEFINE T == totalSubscribed[b]
             F == bondConfig[b].face_value
             P == redemptionPool[b]
  <2>0. bondCount \in 0..MaxBonds /\ MaxBonds \in Nat
    BY <1>1, IssuerAssumption DEF IInv, TypeOK
  <2>1. b \in BondId
    BY <2>0 DEF BondId
  <2>2. T \in Nat /\ P \in Nat /\ F \in Int
    BY <1>1, <2>1, ConfigTypes DEF IInv, TypeOK
  <2>3. T * F <= P
    <3>1. T * F \in Int
      BY <2>2
    <3>2. T * F > P => T * F - P # 0
      BY <2>2, <3>1
    <3> QED
      BY <3>1, <3>2, <2>2 DEF shortfall, total_principal_due
  <2>4. SUFFICES ~(totalSubscribed'[b] * bondConfig'[b].face_value > redemptionPool'[b])
    BY Zenon DEF shortfall, total_principal_due
  <2>5. CASE UNCHANGED <<totalSubscribed, redemptionPool>> /\ bondConfig'[b] = bondConfig[b]
    <3>1. T * F \in Int
      BY <2>2
    <3> QED
      BY <2>2, <2>3, <2>5, <3>1
  <2>6. ASSUME NEW a \in Address, NEW n \in 0..MaxNonce, NEW config \in Configs,
               issue_bond(a, config, n)
        PROVE  ~(totalSubscribed'[b] * bondConfig'[b].face_value > redemptionPool'[b])
    <3>1. b # bondCount + 1
      BY <2>0
    <3>2. totalSubscribed'[b] = T /\ redemptionPool'[b] = P
      BY <1>1, <2>1, <2>6, <3>1 DEF IInv, TypeOK, issue_bond
    <3>3. bondConfig'[b] = bondConfig[b]
      BY <1>1, <2>6 DEF IInv, TypeOK, issue_bond
    <3>4. T * F \in Int
      BY <2>2
    <3> QED
      BY <2>2, <2>3, <3>2, <3>3, <3>4
  <2>7. ASSUME NEW a \in Address, NEW n \in 0..MaxNonce, NEW c \in BondId,
               NEW amount \in Amount, subscribe(a, c, amount, n)
        PROVE  ~(totalSubscribed'[b] * bondConfig'[b].face_value > redemptionPool'[b])
    <3>1. c # b
      BY <2>7 DEF subscribe, IsLive
    <3>2. totalSubscribed'[b] = T /\ redemptionPool'[b] = P /\ bondConfig'[b] = bondConfig[b]
      BY <1>1, <2>1, <2>7, <3>1 DEF IInv, TypeOK, subscribe
    <3>3. T * F \in Int
      BY <2>2
    <3> QED
      BY <2>2, <2>3, <3>2, <3>3
  <2>8. ASSUME NEW a \in Address, NEW n \in 0..MaxNonce, NEW c \in BondId,
               NEW amount \in Amount, fund_redemption(a, c, amount, n)
        PROVE  ~(totalSubscribed'[b] * bondConfig'[b].face_value > redemptionPool'[b])
    <3>1. amount \in Nat
      BY <2>8, AmountTypes DEF fund_redemption
    <3>2. redemptionPool'[b] >= P /\ redemptionPool'[b] \in Nat
      BY <1>1, <2>1, <2>8, <3>1 DEF IInv, TypeOK, fund_redemption
    <3>3. totalSubscribed'[b] = T /\ bondConfig'[b] = bondConfig[b]
      BY <2>8 DEF fund_redemption
    <3>4. T * F \in Int
      BY <2>2
    <3> QED
      BY <2>2, <2>3, <3>2, <3>3, <3>4
  <2>9. ASSUME NEW a \in Address, NEW n \in 0..MaxNonce, NEW c \in BondId,
               NEW amount \in Amount, redeem(a, c, amount, n)
        PROVE  ~(totalSubscribed'[b] * bondConfig'[b].face_value > redemptionPool'[b])
    <3>1. amount \in Nat /\ bondConfig' = bondConfig
      BY <2>9, AmountTypes DEF redeem
    <3>2. T * F \in Int /\ amount * F \in Int
      BY <2>2, <3>1
    <3>3. CASE c = b
      <4>1. totalSubscribed'[b] = T - amount /\ redemptionPool'[b] = P - amount * F
        BY <1>1, <2>1, <2>9, <3>3 DEF IInv, TypeOK, redeem, Payout
      <4>2. (T - amount) * F = T * F - amount * F
        BY <2>2, <3>1
      <4> HIDE DEF T, F, P
      <4>3. (T - amount) * F <= P - amount * F
        BY <2>2, <2>3, <3>2, <4>2
      <4>4. (T - amount) * F \in Int /\ P - amount * F \in Int
        BY <2>2, <3>2, <4>2
      <4>5. bondConfig'[b].face_value = F
        BY <3>1 DEF F
      <4> QED
        BY <4>1, <4>3, <4>4, <4>5
    <3>4. CASE c # b
      <4>1. totalSubscribed'[b] = T /\ redemptionPool'[b] = P
        BY <1>1, <2>1, <2>9, <3>4 DEF IInv, TypeOK, redeem
      <4> QED
        BY <2>2, <2>3, <3>1, <3>2, <4>1
    <3> QED
      BY <3>3, <3>4
  <2>10. \/ \E a \in Address, n \in 0..MaxNonce :
              \/ \E config \in Configs : issue_bond(a, config, n)
              \/ \E c \in BondId, amount \in Amount :
                   \/ subscribe(a, c, amount, n) \/ fund_redemption(a, c, amount, n)
                   \/ redeem(a, c, amount, n)
         \/ UNCHANGED <<totalSubscribed, bondConfig, redemptionPool>>
    <3>1. ASSUME NEW a \in Address, NEW n \in 0..MaxNonce, IssuerCall(a, n)
          PROVE  \/ \E config \in Configs : issue_bond(a, config, n)
                 \/ \E c \in BondId, amount \in Amount :
                      \/ subscribe(a, c, amount, n) \/ fund_redemption(a, c, amount, n)
                      \/ redeem(a, c, amount, n)
                 \/ UNCHANGED <<totalSubscribed, bondConfig, redemptionPool>>
      BY <3>1 DEF IssuerCall, set_project_registry, transfer, Transferred, mature_bond
    <3>2. ASSUME NEW a \in Address, NEW c \in Address, set_admin(a, c)
          PROVE  UNCHANGED <<totalSubscribed, bondConfig, redemptionPool>>
      BY <3>2 DEF set_admin
    <3>3. CASE Tick \/ RegistryStep
      BY <3>3 DEF Tick, LedgerCloses, RegistryStep, issuerVars
    <3> QED
      BY <1>1, <3>1, <3>2, <3>3 DEF Next
  <2> QED
    BY <2>5, <2>6, <2>7, <2>8, <2>9, <2>10
<1>2. IInv /\ IInv' /\ [Next]_vars => [Kept]_vars
  BY <1>1
<1> QED
  BY <1>2, InductiveInvariant, PTL DEF Spec, CoverageNeverLost

-----------------------------------------------------------------------------
(***************************************************************************)
(* The router, composed with the issuer.                                   *)
(***************************************************************************)

\* What the orders hold for seller s of bond b, order by order.
Held(b, s) == [id \in OrderId |-> Listed(id, b, s)]

\* What one order holds.
Claim(order) ==
  IF order.status \in {"Open", "PartiallyFilled", "Expired"} THEN order.amount ELSE 0

DexTypeOK ==
  /\ dexAdmin \in Address
  /\ dexNonce \in [Address -> Nat]
  /\ orders \in Seq(Order)
  /\ quote \in [Asset -> [Address -> Nat]]
  /\ escrow \in [BondId -> [Address -> Nat]]

(***************************************************************************)
(* A release subtracts from the escrow counter without looking at it, so   *)
(* the counter stays a natural number only because it is the sum of what   *)
(* the orders hold: types and sums have to be proved together.  The sums   *)
(* are of finitely many units, as a cardinality says nothing otherwise.    *)
(* The issuer's invariant is part of it, since a purchase moves balances.  *)
(***************************************************************************)
FiniteHoldings == \A b \in BondId, s \in Address : IsFiniteSet(Units(Held(b, s)))
FiniteQuotes == \A q \in Asset : IsFiniteSet(Units(quote[q]))

DexInv == IInv /\ DexTypeOK /\ FiniteHoldings /\ FiniteQuotes /\ EscrowMatchesOrders

\* The part of the invariant that is about the order book.
BookInv ==
  /\ orders \in Seq(Order)
  /\ escrow \in [BondId -> [Address -> Nat]]
  /\ FiniteHoldings
  /\ EscrowMatchesOrders

\* What Listed says, order by order.
LEMMA ListedIsClaim ==
  ASSUME NEW id, NEW b, NEW s
  PROVE  Listed(id, b, s) =
           IF orders[id].seller = s /\ orders[id].bond_id = b THEN Claim(orders[id]) ELSE 0
<1> QED
  BY DEF Listed, Claim

\* The holdings are ledgers of natural numbers.
LEMMA HeldType ==
  ASSUME orders \in Seq(Order), NEW b, NEW s
  PROVE  /\ Held(b, s) \in [OrderId -> Nat]
         /\ OrderId = 1..Len(orders) /\ Len(orders) \in Nat
         /\ \A id \in OrderId : orders[id] \in Order /\ Claim(orders[id]) \in Nat
<1>1. OrderId = 1..Len(orders) /\ Len(orders) \in Nat
  BY DEF OrderId
<1>2. ASSUME NEW id \in OrderId PROVE orders[id] \in Order /\ Claim(orders[id]) \in Nat
  <2>1. orders[id] \in Order
    BY <1>2 DEF OrderId
  <2> QED
    BY <2>1 DEF Order, Claim
<1>3. ASSUME NEW id \in OrderId PROVE Listed(id, b, s) \in Nat
  BY <1>2, <1>3, ListedIsClaim
<1> QED
  BY <1>1, <1>2, <1>3 DEF Held

\* What the router starts with.
LEMMA DexInvInit == Init /\ DexInit => DexInv
<1> SUFFICES ASSUME Init, DexInit PROVE DexInv
  OBVIOUS
<1>1. IInv
  BY InvInit
<1>2. DexTypeOK
  BY DEF DexInit, DexTypeOK
<1>3. ASSUME NEW b \in BondId, NEW s \in Address
      PROVE  IsFiniteSet(Units(Held(b, s))) /\ Tally(Held(b, s)) = 0
  <2>1. OrderId = {}
    BY DEF DexInit, OrderId
  <2>2. Held(b, s) = [id \in {} |-> 0]
    BY <2>1 DEF Held
  <2> QED
    BY <2>2, TallyZero
<1>4. EscrowMatchesOrders
  BY <1>3 DEF EscrowMatchesOrders, Held, DexInit
<1>5. FiniteQuotes
  <2>1. \A q \in Asset : quote[q] = [a \in Address |-> 0]
    BY DEF DexInit
  <2> QED
    BY <2>1, TallyZero DEF FiniteQuotes
<1> QED
  BY <1>1, <1>2, <1>3, <1>4, <1>5 DEF DexInv, FiniteHoldings

\* Steps after which every order holds what it held before.
LEMMA SameHoldings ==
  ASSUME BookInv, escrow' = escrow, orders' \in Seq(Order), OrderId' = OrderId,
         \A id \in OrderId, b \in BondId, s \in Address : Listed(id, b, s)' = Listed(id, b, s)
  PROVE  BookInv'
<1>1. ASSUME NEW b \in BondId, NEW s \in Address PROVE Held(b, s)' = Held(b, s)
  BY DEF Held
<1>2. FiniteHoldings'
  BY <1>1 DEF BookInv, FiniteHoldings
<1>3. \A b \in BondId, s \in Address : escrow[b][s] = Tally(Held(b, s))
  BY DEF BookInv, EscrowMatchesOrders, Held
<1>4. \A b \in BondId, s \in Address : escrow'[b][s] = Tally(Held(b, s)')
  BY <1>1, <1>3
<1>5. EscrowMatchesOrders'
  BY <1>4 DEF EscrowMatchesOrders, Held
<1> QED
  BY <1>2, <1>5 DEF BookInv

\* A seller's escrow covers each of the seller's orders.
LEMMA EscrowCovers ==
  ASSUME BookInv, NEW id \in OrderId
  PROVE  /\ orders[id] \in Order /\ orders[id].bond_id \in BondId /\ orders[id].seller \in Address
         /\ escrow[orders[id].bond_id][orders[id].seller] \in Nat
         /\ escrow[orders[id].bond_id][orders[id].seller] >= Claim(orders[id])
<1> DEFINE b == orders[id].bond_id
           s == orders[id].seller
<1>1. orders[id] \in Order
  BY HeldType DEF BookInv
<1>2. b \in BondId /\ s \in Address
  BY <1>1 DEF Order
<1>3. escrow[b][s] \in Nat
  BY <1>2 DEF BookInv
<1>4. Listed(id, b, s) = Claim(orders[id])
  BY ListedIsClaim
<1>5. Held(b, s)[id] = Claim(orders[id])
  BY <1>4 DEF Held
<1>6. Held(b, s) \in [OrderId -> Nat] /\ IsFiniteSet(Units(Held(b, s))) /\ Claim(orders[id]) \in Nat
  BY <1>2, HeldType DEF BookInv, FiniteHoldings
<1>7. Held(b, s)[id] <= Tally(Held(b, s))
  BY <1>6, TallyExcept
<1>8. escrow[b][s] = Tally(Held(b, s))
  BY <1>2 DEF BookInv, EscrowMatchesOrders, Held
<1> QED
  BY <1>1, <1>2, <1>3, <1>5, <1>6, <1>7, <1>8

\* An order is replaced and the seller's escrow follows what it holds.
LEMMA OneOrder ==
  ASSUME BookInv, NEW id \in OrderId, NEW o \in Order,
         o.seller = orders[id].seller, o.bond_id = orders[id].bond_id,
         orders' = [orders EXCEPT ![id] = o],
         escrow' = [escrow EXCEPT ![o.bond_id][o.seller] = @ - Claim(orders[id]) + Claim(o)]
  PROVE  BookInv'
<1>1. orders \in Seq(Order) /\ escrow \in [BondId -> [Address -> Nat]]
  BY DEF BookInv
<1>2. /\ orders' \in Seq(Order) /\ OrderId' = OrderId /\ orders'[id] = o
      /\ \A k \in OrderId : k # id => orders'[k] = orders[k]
  BY <1>1 DEF OrderId
<1>3. o.bond_id \in BondId /\ o.seller \in Address /\ Claim(o) \in Nat /\ Claim(orders[id]) \in Nat
  BY <1>1, HeldType DEF Order, Claim
<1>4. escrow[o.bond_id][o.seller] \in Nat /\ escrow[o.bond_id][o.seller] >= Claim(orders[id])
  BY EscrowCovers
<1>5. escrow' \in [BondId -> [Address -> Nat]]
  <2>1. escrow[o.bond_id][o.seller] - Claim(orders[id]) + Claim(o) \in Nat
    BY <1>3, <1>4
  <2> QED
    BY <1>1, <1>3, <2>1
<1>6. ASSUME NEW b \in BondId, NEW s \in Address
      PROVE  /\ IsFiniteSet(Units(Held(b, s)'))
             /\ escrow'[b][s] = Tally(Held(b, s)')
  <2>1. Held(b, s) \in [OrderId -> Nat] /\ Held(b, s)' \in [OrderId -> Nat]
    <3>1. ASSUME NEW k \in OrderId PROVE Listed(k, b, s)' \in Nat
      <4>1. orders'[k] \in Order
        BY <1>2, <3>1 DEF OrderId
      <4> QED
        BY <4>1 DEF Listed, Order
    <3> QED
      BY <1>1, <1>2, <3>1, HeldType DEF Held
  <2>2. ASSUME NEW k \in OrderId, k # id PROVE Held(b, s)'[k] = Held(b, s)[k]
    <3>1. Listed(k, b, s)' = Listed(k, b, s)
      BY <1>2, <2>2 DEF Listed
    <3> QED
      BY <1>2, <3>1 DEF Held
  <2>3. IsFiniteSet(Units(Held(b, s))) /\ escrow[b][s] = Tally(Held(b, s))
    BY DEF BookInv, FiniteHoldings, EscrowMatchesOrders, Held
  <2>4. /\ IsFiniteSet(Units(Held(b, s)'))
        /\ Tally(Held(b, s)') = Tally(Held(b, s)) - Held(b, s)[id] + Held(b, s)'[id]
    BY <2>1, <2>2, <2>3, TallyChange
  <2>5. /\ Held(b, s)[id] = Listed(id, b, s)
        /\ Held(b, s)'[id] = Listed(id, b, s)'
    BY <1>2 DEF Held
  <2>6. CASE b = o.bond_id /\ s = o.seller
    <3>1. Listed(id, b, s) = Claim(orders[id]) /\ Listed(id, b, s)' = Claim(o)
      BY <1>2, <2>6 DEF Listed, Claim
    <3>2. escrow'[b][s] = escrow[b][s] - Claim(orders[id]) + Claim(o)
      BY <1>1, <1>3, <2>6
    <3> QED
      BY <2>3, <2>4, <2>5, <3>1, <3>2
  <2>7. CASE ~(b = o.bond_id /\ s = o.seller)
    <3>1. Listed(id, b, s) = 0 /\ Listed(id, b, s)' = 0
      BY <1>2, <2>7 DEF Listed
    <3>2. escrow'[b][s] = escrow[b][s]
      BY <1>1, <1>3, <2>7
    <3>3. escrow[b][s] \in Nat
      BY <1>1
    <3> QED
      BY <2>3, <2>4, <2>5, <3>1, <3>2, <3>3
  <2> QED
    BY <2>6, <2>7
<1>7. FiniteHoldings' /\ EscrowMatchesOrders'
  BY <1>6 DEF FiniteHoldings, EscrowMatchesOrders, Held
<1> QED
  BY <1>2, <1>5, <1>7 DEF BookInv

\* A listing adds an order, and its amount to the seller's escrow.
LEMMA ListBook ==
  ASSUME BookInv, NEW a \in Address, NEW b \in BondId, NEW amount \in Amount,
         NEW price \in Price, NEW asset \in Asset, NEW l \in Lifetime, NEW n, now \in Nat,
         list_bond_tokens(a, b, amount, price, asset, l, n)
  PROVE  BookInv'
<1> DEFINE o == [seller |-> a, bond_id |-> b, amount |-> amount, price_per_token |-> price,
                 quote_asset |-> asset, status |-> "Open", expires_at |-> now + l]
<1>0. PICK top : top = Len(orders) + 1
  OBVIOUS
<1>1. amount \in Nat /\ price \in Nat /\ l \in Nat
  <2>1. amount \in Int /\ price \in Int /\ amount > 0 /\ price > 0
    BY AmountTypes, DexAssumption, I128Assumption DEF I128, list_bond_tokens
  <2> QED
    BY <2>1, DexAssumption
<1>2. o \in Order
  BY <1>1 DEF Order, OrderStatus
<1>3. orders \in Seq(Order) /\ escrow \in [BondId -> [Address -> Nat]]
  BY DEF BookInv
<1>4. orders' = Append(orders, o) /\ escrow' = [escrow EXCEPT ![b][a] = @ + amount]
  BY DEF list_bond_tokens
<1> HIDE DEF o
<1>5. /\ orders' \in Seq(Order) /\ orders'[top] = o /\ top \notin OrderId
      /\ OrderId' = OrderId \cup {top} /\ \A k \in OrderId : orders'[k] = orders[k]
  BY <1>0, <1>2, <1>3, <1>4 DEF OrderId
<1>6. escrow' \in [BondId -> [Address -> Nat]]
  BY <1>1, <1>3, <1>4
<1>7. ASSUME NEW k \in OrderId' PROVE orders'[k] \in Order
  <2>1. orders' \in Seq(Order)
    BY <1>5
  <2> QED
    BY <1>7, <2>1 DEF OrderId
<1>8. ASSUME NEW c \in BondId, NEW s \in Address
      PROVE  /\ IsFiniteSet(Units(Held(c, s)'))
             /\ escrow'[c][s] = Tally(Held(c, s)')
  <2>1. Held(c, s) \in [OrderId -> Nat]
    BY <1>3, HeldType
  <2>2. Held(c, s)' \in [OrderId \cup {top} -> Nat]
    <3>1. ASSUME NEW k \in OrderId' PROVE Listed(k, c, s)' \in Nat
      BY <1>7, <3>1 DEF Listed, Order
    <3> QED
      BY <1>5, <3>1 DEF Held
  <2>3. ASSUME NEW k \in OrderId PROVE Held(c, s)'[k] = Held(c, s)[k]
    <3>1. Listed(k, c, s)' = Listed(k, c, s)
      BY <1>5, <2>3 DEF Listed
    <3> QED
      BY <1>5, <3>1 DEF Held
  <2>4. IsFiniteSet(Units(Held(c, s))) /\ escrow[c][s] = Tally(Held(c, s)) /\ escrow[c][s] \in Nat
    BY <1>3 DEF BookInv, FiniteHoldings, EscrowMatchesOrders, Held
  <2>5. /\ IsFiniteSet(Units(Held(c, s)'))
        /\ Tally(Held(c, s)') = Tally(Held(c, s)) + Held(c, s)'[top]
    <3> DEFINE f == Held(c, s)
               g == Held(c, s)'
    <3>1. /\ top \notin OrderId /\ f \in [OrderId -> Nat] /\ g \in [OrderId \cup {top} -> Nat]
          /\ \A k \in OrderId : g[k] = f[k]
          /\ IsFiniteSet(Units(f))
      BY <1>5, <2>1, <2>2, <2>3, <2>4
    <3> HIDE DEF f, g
    <3>2. IsFiniteSet(Units(g)) /\ Tally(g) = Tally(f) + g[top]
      BY <3>1, TallyNewKey
    <3> QED
      BY <3>2 DEF f, g
  <2>6. Held(c, s)'[top] = IF c = b /\ s = a THEN amount ELSE 0
    <3>1. Listed(top, c, s)' = IF c = b /\ s = a THEN amount ELSE 0
      BY <1>5 DEF Listed, o
    <3> QED
      BY <1>5, <3>1 DEF Held
  <2>7. escrow'[c][s] = escrow[c][s] + (IF c = b /\ s = a THEN amount ELSE 0)
    BY <1>3, <1>4, <2>4
  <2> QED
    BY <2>4, <2>5, <2>6, <2>7
<1>9. FiniteHoldings' /\ EscrowMatchesOrders'
  BY <1>8 DEF FiniteHoldings, EscrowMatchesOrders, Held
<1> QED
  BY <1>5, <1>6, <1>9 DEF BookInv

\* A cancellation releases what the order still held.
LEMMA CancelBook ==
  ASSUME BookInv, NEW a \in Address, NEW id \in OrderId, NEW n, cancel_listing(a, id, n)
  PROVE  BookInv'
<1> DEFINE o == [orders[id] EXCEPT !.status = "Cancelled"]
<1>1. orders[id] \in Order /\ orders \in Seq(Order) /\ escrow \in [BondId -> [Address -> Nat]]
  BY EscrowCovers DEF BookInv
<1>2. /\ o \in Order /\ o.seller = orders[id].seller /\ o.bond_id = orders[id].bond_id
      /\ o.status = "Cancelled"
  BY <1>1 DEF Order, OrderStatus
<1>3. /\ a = orders[id].seller /\ orders' = [orders EXCEPT ![id] = o]
      /\ escrow' = [escrow EXCEPT ![orders[id].bond_id][a] = @ - orders[id].amount]
      /\ IsOpen(orders[id])
  BY DEF cancel_listing
<1> HIDE DEF o
<1>4. Claim(o) = 0 /\ Claim(orders[id]) = orders[id].amount
  BY <1>2, <1>3 DEF Claim, IsOpen
<1>5. escrow' = [escrow EXCEPT ![o.bond_id][o.seller] = @ - Claim(orders[id]) + Claim(o)]
  <2>1. escrow[o.bond_id][o.seller] \in Nat /\ orders[id].amount \in Nat
    BY <1>1, <1>2 DEF Order
  <2>2. escrow[o.bond_id][o.seller] - orders[id].amount + 0 = escrow[o.bond_id][o.seller] - orders[id].amount
    BY <2>1
  <2> QED
    BY <1>1, <1>2, <1>3, <1>4, <2>2
<1> QED
  BY <1>2, <1>3, <1>5, OneOrder

\* What a purchase leaves of the order.
LEMMA FilledOrder ==
  ASSUME NEW order \in Order, IsOpen(order), NEW amount \in Nat, amount <= order.amount
  PROVE  /\ Filled(order, amount) \in Order
         /\ Filled(order, amount).seller = order.seller
         /\ Filled(order, amount).bond_id = order.bond_id
         /\ Claim(order) = order.amount
         /\ Claim(Filled(order, amount)) = order.amount - amount
         /\ \/ Filled(order, amount).status = "Filled" /\ amount = order.amount
            \/ /\ Filled(order, amount).status = "PartiallyFilled"
               /\ Filled(order, amount).amount = order.amount - amount
<1>1. Claim(order) = order.amount
  BY DEF IsOpen, Claim
<1>2. CASE amount = order.amount
  <2> DEFINE o == [order EXCEPT !.status = "Filled"]
  <2>1. /\ o \in Order /\ o.seller = order.seller /\ o.bond_id = order.bond_id
        /\ o.status = "Filled"
    BY DEF Order, OrderStatus
  <2>2. Filled(order, amount) = o
    BY <1>2 DEF Filled
  <2> HIDE DEF o
  <2>3. Claim(o) = order.amount - amount
    <3>1. order.amount - amount = 0
      BY <1>2
    <3> QED
      BY <2>1, <3>1 DEF Claim
  <2> QED
    BY <1>1, <1>2, <2>1, <2>2, <2>3
<1>3. CASE amount # order.amount
  <2> DEFINE o == [order EXCEPT !.status = "PartiallyFilled", !.amount = @ - amount]
  <2>0. order.amount \in Nat /\ order.amount - amount \in Nat
    BY DEF Order
  <2>1. /\ o \in Order /\ o.seller = order.seller /\ o.bond_id = order.bond_id
        /\ o.status = "PartiallyFilled" /\ o.amount = order.amount - amount
    BY <2>0 DEF Order, OrderStatus
  <2>2. Filled(order, amount) = o
    BY <1>3 DEF Filled
  <2> HIDE DEF o
  <2> QED
    BY <1>1, <2>1, <2>2 DEF Claim
<1> QED
  BY <1>2, <1>3

\* The values that a purchase works with.
LEMMA PurchaseTypes ==
  ASSUME DexInv, NEW a \in Address, NEW id \in OrderId, NEW price \in Price,
         NEW amount \in Amount, NEW n, execute_purchase(a, id, price, amount, n)
  PROVE  /\ orders[id] \in Order /\ IsOpen(orders[id]) /\ a # orders[id].seller
         /\ amount \in Nat /\ amount > 0 /\ amount <= orders[id].amount
         /\ amount * orders[id].price_per_token \in Nat
         /\ quote[orders[id].quote_asset][a] >= amount * orders[id].price_per_token
         /\ orders' = [orders EXCEPT ![id] = Filled(orders[id], amount)]
         /\ escrow' = [escrow EXCEPT ![orders[id].bond_id][orders[id].seller] = @ - amount]
         /\ PayQuote(orders[id].quote_asset, a, orders[id].seller,
                     amount * orders[id].price_per_token)
         /\ Transferred(orders[id].seller, a, orders[id].bond_id, amount, nonce[orders[id].seller])
<1>1. orders[id] \in Order
  BY HeldType DEF DexInv, DexTypeOK
<1>2. /\ IsOpen(orders[id]) /\ a # orders[id].seller
      /\ amount > 0 /\ amount <= orders[id].amount
      /\ quote[orders[id].quote_asset][a] >= amount * orders[id].price_per_token
      /\ orders' = [orders EXCEPT ![id] = Filled(orders[id], amount)]
      /\ escrow' = [escrow EXCEPT ![orders[id].bond_id][orders[id].seller] = @ - amount]
      /\ PayQuote(orders[id].quote_asset, a, orders[id].seller,
                  amount * orders[id].price_per_token)
      /\ Transferred(orders[id].seller, a, orders[id].bond_id, amount, nonce[orders[id].seller])
  BY DEF execute_purchase
<1>3. amount \in Nat
  BY <1>2, AmountTypes
<1>4. orders[id].price_per_token \in Nat
  BY <1>1 DEF Order
<1> QED
  BY <1>1, <1>2, <1>3, <1>4

\* A purchase takes what was bought out of the order and out of the escrow.
LEMMA PurchaseBook ==
  ASSUME DexInv, BookInv, NEW a \in Address, NEW id \in OrderId, NEW price \in Price,
         NEW amount \in Amount, NEW n, execute_purchase(a, id, price, amount, n)
  PROVE  BookInv'
<1> DEFINE o == Filled(orders[id], amount)
<1>1. /\ orders[id] \in Order /\ IsOpen(orders[id])
      /\ amount \in Nat /\ amount <= orders[id].amount
      /\ orders' = [orders EXCEPT ![id] = o]
      /\ escrow' = [escrow EXCEPT ![orders[id].bond_id][orders[id].seller] = @ - amount]
  BY PurchaseTypes
<1>2. /\ o \in Order /\ o.seller = orders[id].seller /\ o.bond_id = orders[id].bond_id
      /\ Claim(orders[id]) = orders[id].amount /\ Claim(o) = orders[id].amount - amount
  BY <1>1, FilledOrder
<1> HIDE DEF o
<1>3. /\ orders[id].bond_id \in BondId /\ orders[id].seller \in Address
      /\ escrow[orders[id].bond_id][orders[id].seller] \in Nat
      /\ escrow \in [BondId -> [Address -> Nat]] /\ orders[id].amount \in Nat
  BY <1>1, EscrowCovers DEF BookInv, Order
<1>4. escrow[o.bond_id][o.seller] - Claim(orders[id]) + Claim(o) = escrow[o.bond_id][o.seller] - amount
  BY <1>1, <1>2, <1>3
<1>5. escrow' = [escrow EXCEPT ![o.bond_id][o.seller] = @ - Claim(orders[id]) + Claim(o)]
  BY <1>1, <1>2, <1>3, <1>4
<1> QED
  BY <1>1, <1>2, <1>5, OneOrder

\* The sweep marks orders, and an expired order holds what it held.
LEMMA SweepBook ==
  ASSUME BookInv, NEW start, NEW limit, SweepOrders(start, limit), escrow' = escrow
  PROVE  /\ BookInv'
         /\ \A id \in OrderId : /\ orders'[id].amount = orders[id].amount
                                /\ orders'[id] = orders[id] \/ orders'[id].status = "Expired"
<1>1. orders \in Seq(Order) /\ OrderId = 1..Len(orders) /\ Len(orders) \in Nat
  BY HeldType DEF BookInv
<1>2. ASSUME NEW id \in OrderId
      PROVE  \/ orders'[id] = orders[id]
             \/ IsOpen(orders[id]) /\ orders'[id] = [orders[id] EXCEPT !.status = "Expired"]
  BY <1>2 DEF SweepOrders, mark_order_expired
<1>3. ASSUME NEW id \in OrderId
      PROVE  /\ orders'[id] \in Order
             /\ orders'[id].seller = orders[id].seller
             /\ orders'[id].bond_id = orders[id].bond_id
             /\ orders'[id].amount = orders[id].amount
             /\ orders'[id] = orders[id] \/ orders'[id].status = "Expired"
             /\ Claim(orders'[id]) = Claim(orders[id])
  <2>1. orders[id] \in Order
    BY <1>1, <1>3
  <2>2. CASE orders'[id] = orders[id]
    BY <2>1, <2>2
  <2>3. CASE IsOpen(orders[id]) /\ orders'[id] = [orders[id] EXCEPT !.status = "Expired"]
    <3> DEFINE o == [orders[id] EXCEPT !.status = "Expired"]
    <3>1. /\ o \in Order /\ o.seller = orders[id].seller /\ o.bond_id = orders[id].bond_id
          /\ o.amount = orders[id].amount /\ o.status = "Expired"
      BY <2>1 DEF Order, OrderStatus
    <3> HIDE DEF o
    <3>2. orders'[id] = o
      BY <2>3 DEF o
    <3> QED
      BY <2>3, <3>1, <3>2 DEF Claim, IsOpen
  <2> QED
    BY <1>2, <1>3, <2>2, <2>3
<1>4. orders' \in [1..Len(orders) -> Order]
  <2>1. orders' = [id \in 1..Len(orders) |-> orders'[id]]
    BY <1>1 DEF SweepOrders
  <2> QED
    BY <1>1, <1>3, <2>1
<1>5. orders' \in Seq(Order) /\ OrderId' = OrderId
  BY <1>1, <1>4 DEF OrderId
<1>6. ASSUME NEW id \in OrderId, NEW b \in BondId, NEW s \in Address
      PROVE  Listed(id, b, s)' = Listed(id, b, s)
  BY <1>3, <1>6 DEF Listed, Claim
<1>7. BookInv'
  BY <1>5, <1>6, SameHoldings
<1> QED
  BY <1>3, <1>7
-----------------------------------------------------------------------------
\* A payment moves quote assets from the buyer to the seller and leaves their
\* sum as it was.
LEMMA QuotePaid ==
  ASSUME quote \in [Asset -> [Address -> Nat]], FiniteQuotes, NEW asset \in Asset,
         NEW buyer \in Address, NEW seller \in Address, buyer # seller, NEW proceeds \in Nat,
         quote[asset][buyer] >= proceeds, PayQuote(asset, buyer, seller, proceeds)
  PROVE  /\ quote' \in [Asset -> [Address -> Nat]] /\ FiniteQuotes'
         /\ Tally(quote'[asset]) = Tally(quote[asset])
         /\ quote'[asset][seller] = quote[asset][seller] + proceeds
<1> DEFINE f == quote[asset]
           paid == f[buyer] - proceeds
           got == f[seller] + proceeds
           g == [f EXCEPT ![buyer] = paid]
           h == [g EXCEPT ![seller] = got]
<1>1. f \in [Address -> Nat] /\ IsFiniteSet(Units(f))
  BY DEF FiniteQuotes
<1>2. paid \in Nat /\ got \in Nat /\ f[buyer] \in Nat /\ f[seller] \in Nat
  BY <1>1
<1>3. /\ g \in [Address -> Nat] /\ g[buyer] = paid /\ g[seller] = f[seller]
      /\ h \in [Address -> Nat] /\ h[seller] = got
  BY <1>1, <1>2
<1>4. quote' = [quote EXCEPT ![asset] = h]
  BY <1>1, <1>3 DEF PayQuote
<1> HIDE DEF f, g, h, paid, got
<1>5. IsFiniteSet(Units(g)) /\ Tally(g) = Tally(f) - f[buyer] + paid /\ Tally(f) \in Nat
  BY <1>1, <1>2, TallyExcept DEF g
<1>6. IsFiniteSet(Units(h)) /\ Tally(h) = Tally(g) - g[seller] + got
  <2>1. g \in [Address -> Nat] /\ got \in Nat /\ IsFiniteSet(Units(g))
    BY <1>2, <1>3, <1>5
  <2>2. /\ IsFiniteSet(Units([g EXCEPT ![seller] = got]))
        /\ Tally([g EXCEPT ![seller] = got]) = Tally(g) - g[seller] + got
    BY <2>1, TallyExcept
  <2> QED
    BY <2>2 DEF h
<1>7. Tally(h) = Tally(f)
  BY <1>2, <1>3, <1>5, <1>6 DEF paid, got
<1>8. quote' \in [Asset -> [Address -> Nat]] /\ quote'[asset] = h
  BY <1>3, <1>4
<1>9. FiniteQuotes'
  BY <1>4, <1>6, <1>8 DEF FiniteQuotes
<1> QED
  BY <1>3, <1>7, <1>8, <1>9 DEF f, got

\* Deposits and withdrawals.
LEMMA QuoteMoved ==
  ASSUME quote \in [Asset -> [Address -> Nat]], FiniteQuotes, NEW asset \in Asset,
         NEW a \in Address, NEW amount \in Amount, NEW n,
         deposit_quote(a, asset, amount, n) \/ withdraw_quote(a, asset, amount, n)
  PROVE  quote' \in [Asset -> [Address -> Nat]] /\ FiniteQuotes'
<1>1. PICK m \in Nat : quote' = [quote EXCEPT ![asset][a] = m]
  <2>1. amount \in Int /\ quote[asset][a] \in Nat
    BY AmountTypes
  <2>2. CASE deposit_quote(a, asset, amount, n)
    <3>1. quote[asset][a] + amount \in Nat
      BY <2>1, <2>2 DEF deposit_quote
    <3> QED
      BY <2>2, <3>1 DEF deposit_quote
  <2>3. CASE withdraw_quote(a, asset, amount, n)
    <3>1. quote[asset][a] - amount \in Nat
      BY <2>1, <2>3 DEF withdraw_quote, HasQuote
    <3> QED
      BY <2>3, <3>1 DEF withdraw_quote
  <2> QED
    BY <2>2, <2>3
<1>2. quote[asset] \in [Address -> Nat] /\ IsFiniteSet(Units(quote[asset]))
  BY DEF FiniteQuotes
<1>3. IsFiniteSet(Units([quote[asset] EXCEPT ![a] = m]))
  BY <1>2, TallyExcept
<1>4. quote' = [quote EXCEPT ![asset] = [quote[asset] EXCEPT ![a] = m]]
  BY <1>1
<1> QED
  BY <1>2, <1>3, <1>4 DEF FiniteQuotes
-----------------------------------------------------------------------------
\* The calls that leave the issuer alone keep its invariant.
LEMMA IssuerUntouched ==
  ASSUME IInv, UNCHANGED vars
  PROVE  IInv'
<1> QED
  BY InvNext

\* A purchase keeps the issuer's invariant: it is a transfer there.
LEMMA PurchaseIssuer ==
  ASSUME DexInv, NEW a \in Address, NEW id \in OrderId, NEW price \in Price,
         NEW amount \in Amount, NEW n, execute_purchase(a, id, price, amount, n)
  PROVE  IInv'
<1> DEFINE s == orders[id].seller
           b == orders[id].bond_id
<1>1. /\ orders[id] \in Order
      /\ Transferred(s, a, b, amount, nonce[s])
      /\ UNCHANGED <<now, project>>
  BY PurchaseTypes DEF execute_purchase
<1>2. s \in Address /\ b \in BondId
  BY <1>1 DEF Order
<1>3. IInv /\ nonce[s] \in Nat
  BY <1>2 DEF DexInv, IInv, TypeOK
<1>4. nonce[s] \in 0..MaxNonce
  BY <1>1, <1>3, IssuerAssumption DEF Transferred, consume_nonce
<1> HIDE DEF s, b
<1> QED
  BY <1>1, <1>2, <1>3, <1>4, TransferInv

\* Using up a nonce keeps the nonces natural numbers.
LEMMA NonceUsed ==
  ASSUME DexTypeOK, NEW a \in Address, NEW n \in 0..MaxNonce, use_nonce(a, n)
  PROVE  dexNonce' \in [Address -> Nat]
<1> QED
  BY IssuerAssumption DEF DexTypeOK, use_nonce

\* Every call of the router keeps the invariant.
LEMMA DexCallInv ==
  ASSUME DexInv, NEW a \in Address, NEW n \in 0..MaxNonce, DexCall(a, n)
  PROVE  DexInv'
<1>1. IInv /\ DexTypeOK /\ BookInv /\ FiniteQuotes /\ now \in Nat
  BY DEF DexInv, DexTypeOK, BookInv, IInv, TypeOK
<1>2. quote \in [Asset -> [Address -> Nat]] /\ dexAdmin \in Address
  BY <1>1 DEF DexTypeOK
<1>3. ASSUME IInv', BookInv', FiniteQuotes', use_nonce(a, n), dexAdmin' = dexAdmin,
             quote' \in [Asset -> [Address -> Nat]]
      PROVE  DexInv'
  <2>1. dexNonce' \in [Address -> Nat]
    BY <1>1, <1>3, NonceUsed
  <2> QED
    BY <1>2, <1>3, <2>1 DEF DexInv, DexTypeOK, BookInv
<1>4. ASSUME UNCHANGED <<orders, escrow>> PROVE BookInv'
  <2>1. OrderId' = OrderId /\ orders' \in Seq(Order)
    BY <1>1, <1>4 DEF OrderId, BookInv
  <2>2. \A id \in OrderId, b \in BondId, s \in Address : Listed(id, b, s)' = Listed(id, b, s)
    BY <1>4 DEF Listed
  <2> QED
    BY <1>1, <1>4, <2>1, <2>2, SameHoldings
<1>5. ASSUME quote' = quote PROVE FiniteQuotes' /\ quote' \in [Asset -> [Address -> Nat]]
  BY <1>1, <1>2, <1>5 DEF FiniteQuotes
<1>6. ASSUME NEW b \in BondId, NEW amount \in Amount, NEW price \in Price, NEW asset \in Asset,
             NEW l \in Lifetime, list_bond_tokens(a, b, amount, price, asset, l, n)
      PROVE  DexInv'
  <2>1. use_nonce(a, n) /\ UNCHANGED <<vars, dexAdmin, quote>>
    BY <1>6 DEF list_bond_tokens
  <2>2. BookInv' /\ IInv'
    BY <1>1, <1>6, <2>1, ListBook, IssuerUntouched
  <2> QED
    BY <1>3, <1>5, <2>1, <2>2
<1>7. ASSUME NEW id \in OrderId, cancel_listing(a, id, n) PROVE DexInv'
  <2>1. use_nonce(a, n) /\ UNCHANGED <<vars, dexAdmin, quote>>
    BY <1>7 DEF cancel_listing
  <2>2. BookInv' /\ IInv'
    BY <1>1, <1>7, <2>1, CancelBook, IssuerUntouched
  <2> QED
    BY <1>3, <1>5, <2>1, <2>2
<1>8. ASSUME NEW id \in OrderId, NEW price \in Price, NEW amount \in Amount,
             execute_purchase(a, id, price, amount, n)
      PROVE  DexInv'
  <2>1. use_nonce(a, n) /\ dexAdmin' = dexAdmin
    BY <1>8 DEF execute_purchase
  <2>2. BookInv' /\ IInv'
    BY <1>1, <1>8, PurchaseBook, PurchaseIssuer
  <2> DEFINE order == orders[id]
             proceeds == amount * order.price_per_token
  <2>3. /\ order \in Order /\ a # order.seller /\ proceeds \in Nat
        /\ quote[order.quote_asset][a] >= proceeds
        /\ PayQuote(order.quote_asset, a, order.seller, proceeds)
    BY <1>8, PurchaseTypes
  <2>4. order.quote_asset \in Asset /\ order.seller \in Address
    BY <2>3 DEF Order
  <2> HIDE DEF order, proceeds
  <2>5. quote' \in [Asset -> [Address -> Nat]] /\ FiniteQuotes'
    BY <1>1, <1>2, <2>3, <2>4, QuotePaid
  <2> QED
    BY <1>3, <2>1, <2>2, <2>5
<1>9. ASSUME NEW asset \in Asset, NEW amount \in Amount,
             deposit_quote(a, asset, amount, n) \/ withdraw_quote(a, asset, amount, n)
      PROVE  DexInv'
  <2>1. use_nonce(a, n) /\ UNCHANGED <<vars, dexAdmin, orders, escrow>>
    BY <1>9 DEF deposit_quote, withdraw_quote
  <2>2. quote' \in [Asset -> [Address -> Nat]] /\ FiniteQuotes'
    BY <1>1, <1>2, <1>9, QuoteMoved
  <2>3. BookInv' /\ IInv'
    BY <1>1, <1>4, <2>1, IssuerUntouched
  <2> QED
    BY <1>3, <2>1, <2>2, <2>3
<1>10. ASSUME NEW start, NEW limit, clean_expired_orders(a, start, limit, n) PROVE DexInv'
  <2>1. use_nonce(a, n) /\ UNCHANGED <<vars, dexAdmin, quote, escrow>> /\ SweepOrders(start, limit)
    BY <1>10 DEF clean_expired_orders
  <2>2. BookInv' /\ IInv'
    BY <1>1, <2>1, SweepBook, IssuerUntouched
  <2> QED
    BY <1>3, <1>5, <2>1, <2>2
<1> QED
  BY <1>6, <1>7, <1>8, <1>9, <1>10 DEF DexCall

\* Steps of the issuer and of the router's admin leave the market alone.
LEMMA DexInvStep == DexInv /\ [DexNext]_marketVars => DexInv'
<1> SUFFICES ASSUME DexInv, [DexNext]_marketVars PROVE DexInv'
  OBVIOUS
<1>1. ASSUME IInv', dexAdmin' \in Address, UNCHANGED <<dexNonce, orders, quote, escrow>>
      PROVE  DexInv'
  <2>1. OrderId' = OrderId
    BY <1>1 DEF OrderId
  <2>2. \A id, b, s : Listed(id, b, s)' = Listed(id, b, s)
    BY <1>1 DEF Listed
  <2>3. \A b \in BondId, s \in Address : Held(b, s)' = Held(b, s)
    BY <2>1, <2>2 DEF Held
  <2>4. FiniteHoldings' /\ FiniteQuotes'
    BY <1>1, <2>3 DEF DexInv, FiniteHoldings, FiniteQuotes
  <2>5. \A b \in BondId, s \in Address : escrow[b][s] = Tally(Held(b, s))
    BY DEF DexInv, EscrowMatchesOrders, Held
  <2>6. \A b \in BondId, s \in Address : escrow'[b][s] = Tally(Held(b, s)')
    BY <1>1, <2>3, <2>5
  <2>7. EscrowMatchesOrders'
    BY <2>6 DEF EscrowMatchesOrders, Held
  <2>8. DexTypeOK'
    BY <1>1 DEF DexInv, DexTypeOK
  <2> QED
    BY <1>1, <2>4, <2>7, <2>8 DEF DexInv
<1>2. IInv /\ dexAdmin \in Address
  BY DEF DexInv, DexTypeOK
<1>3. ASSUME NEW a \in Address, NEW c \in Address, dex_set_admin(a, c) PROVE DexInv'
  <2>1. UNCHANGED vars /\ dexAdmin' = c /\ UNCHANGED <<dexNonce, orders, quote, escrow>>
    BY <1>3 DEF dex_set_admin
  <2> QED
    BY <1>1, <1>2, <2>1, IssuerUntouched
<1>4. CASE Next /\ UNCHANGED dexVars
  <2>1. IInv'
    BY <1>2, <1>4, InvNext
  <2> QED
    BY <1>1, <1>2, <1>4, <2>1 DEF dexVars
<1>5. CASE UNCHANGED marketVars
  <2>1. UNCHANGED vars /\ UNCHANGED dexVars
    BY <1>5 DEF marketVars
  <2> QED
    BY <1>1, <1>2, <2>1, IssuerUntouched DEF dexVars
<1> QED
  BY <1>3, <1>4, <1>5, DexCallInv DEF DexNext

(* The invariant of the market, in every reachable state.                  *)
LEMMA DexInvariant == DexSpec => []DexInv
<1> QED
  BY DexInvInit, DexInvStep, PTL DEF DexSpec

\* The escrow counter of every seller is what the seller's orders hold,
\* through any listings, fills, cancellations and sweeps
\* (list_bond_tokens, execute_purchase, cancel_listing, clean_expired_orders).
THEOREM EscrowIsExact == DexSpec => []EscrowMatchesOrders
<1>1. DexInv => EscrowMatchesOrders
  BY DEF DexInv
<1> QED
  BY <1>1, DexInvariant, PTL

\* Trading on the router keeps the issuer's total the sum of its balances:
\* a purchase moves tokens and creates none (BondIssuer.transfer).
THEOREM TradingConservesSupply == DexSpec => []SupplyConserved
<1>1. DexInv => SupplyConserved
  BY DEF DexInv, IInv, Backed, SupplyConserved
<1> QED
  BY <1>1, DexInvariant, PTL
-----------------------------------------------------------------------------
\* What DeliveryAgainstPayment asks of a step, for one order.
Delivered(id) ==
  LET order == orders[id] IN
    (orders'[id].amount # order.amount \/ orders'[id].status = "Filled") /\ orders'[id] # order =>
      LET sold == IF orders'[id].status = "Filled"
                  THEN order.amount ELSE order.amount - orders'[id].amount
          asset == order.quote_asset
      IN  /\ Tally(quote'[asset]) = Tally(quote[asset])
          /\ quote'[asset][order.seller] =
               quote[asset][order.seller] + sold * order.price_per_token
          /\ holderBalance'[order.bond_id][order.seller] =
               holderBalance[order.bond_id][order.seller] - sold

\* A purchase delivers what the order loses, and is paid for it.
LEMMA PurchaseDelivers ==
  ASSUME DexInv, NEW a \in Address, NEW id \in OrderId, NEW price \in Price,
         NEW amount \in Amount, NEW n, execute_purchase(a, id, price, amount, n)
  PROVE  \A k \in OrderId : Delivered(k)
<1> DEFINE order == orders[id]
           proceeds == amount * order.price_per_token
           o == Filled(order, amount)
<1>1. /\ order \in Order /\ IsOpen(order) /\ a # order.seller
      /\ amount \in Nat /\ amount <= order.amount
      /\ proceeds \in Nat /\ quote[order.quote_asset][a] >= proceeds
      /\ orders' = [orders EXCEPT ![id] = o]
      /\ PayQuote(order.quote_asset, a, order.seller, proceeds)
      /\ Transferred(order.seller, a, order.bond_id, amount, nonce[order.seller])
  <2>1. /\ order \in Order /\ IsOpen(order) /\ a # order.seller
        /\ amount \in Nat /\ amount <= order.amount
        /\ proceeds \in Nat /\ quote[order.quote_asset][a] >= proceeds
    BY PurchaseTypes
  <2>2. orders' = [orders EXCEPT ![id] = o]
    BY DEF execute_purchase
  <2>3. PayQuote(order.quote_asset, a, order.seller, proceeds)
    BY DEF execute_purchase
  <2>4. Transferred(order.seller, a, order.bond_id, amount, nonce[order.seller])
    BY PurchaseTypes
  <2> QED
    BY <2>1, <2>2, <2>3, <2>4
<1>2. \/ o.status = "Filled" /\ amount = order.amount
      \/ o.status = "PartiallyFilled" /\ o.amount = order.amount - amount
  <2> HIDE DEF order
  <2> QED
    BY <1>1, FilledOrder
<1>3. /\ order.quote_asset \in Asset /\ order.seller \in Address /\ order.bond_id \in BondId
      /\ order.amount \in Nat
  BY <1>1 DEF Order
<1>4. orders \in Seq(Order) /\ quote \in [Asset -> [Address -> Nat]] /\ FiniteQuotes
  BY DEF DexInv, DexTypeOK
<1>5. orders'[id] = o /\ \A k \in OrderId : k # id => orders'[k] = orders[k]
  BY <1>1, <1>4 DEF OrderId
<1>6. holderBalance'[order.bond_id][order.seller] =
        holderBalance[order.bond_id][order.seller] - amount
  <2>1. holderBalance \in [BondId -> [Address -> Nat]]
    BY DEF DexInv, IInv, TypeOK
  <2> HIDE DEF order
  <2>2. holderBalance' =
          [holderBalance EXCEPT ![order.bond_id][order.seller] = Debited(order.bond_id, order.seller, amount),
                                ![order.bond_id][a] = Credited(order.bond_id, a, amount)]
    BY <1>1 DEF Transferred
  <2>3. holderBalance'[order.bond_id][order.seller] = Debited(order.bond_id, order.seller, amount)
    BY <1>1, <1>3, <2>1, <2>2
  <2> QED
    BY <2>3 DEF Debited
<1>7. /\ Tally(quote'[order.quote_asset]) = Tally(quote[order.quote_asset])
      /\ quote'[order.quote_asset][order.seller] = quote[order.quote_asset][order.seller] + proceeds
  <2> HIDE DEF order, proceeds
  <2> QED
    BY <1>1, <1>3, <1>4, QuotePaid
<1>8. Delivered(id)
  <2> DEFINE sold == IF orders'[id].status = "Filled"
                     THEN orders[id].amount ELSE orders[id].amount - orders'[id].amount
  <2>1. sold = amount
    BY <1>1, <1>2, <1>3, <1>5
  <2>2. sold * orders[id].price_per_token = proceeds
    BY <2>1
  <2> HIDE DEF sold, o, proceeds
  <2>3. /\ Tally(quote'[orders[id].quote_asset]) = Tally(quote[orders[id].quote_asset])
        /\ quote'[orders[id].quote_asset][orders[id].seller] =
             quote[orders[id].quote_asset][orders[id].seller] + sold * orders[id].price_per_token
        /\ holderBalance'[orders[id].bond_id][orders[id].seller] =
             holderBalance[orders[id].bond_id][orders[id].seller] - sold
    BY <1>6, <1>7, <2>1, <2>2
  <2> QED
    BY <2>3 DEF Delivered, sold
<1>9. ASSUME NEW k \in OrderId, k # id PROVE Delivered(k)
  BY <1>5, <1>9 DEF Delivered
<1> QED
  BY <1>8, <1>9

\* Every step of the market delivers against payment.
LEMMA StepDelivers ==
  ASSUME DexInv, DexNext
  PROVE  \A id \in OrderId : Delivered(id)
<1>0. BookInv /\ orders \in Seq(Order)
  BY DEF DexInv, DexTypeOK, BookInv
<1>1. ASSUME \A id \in OrderId : orders'[id] = orders[id]
      PROVE  \A id \in OrderId : Delivered(id)
  BY <1>1 DEF Delivered
<1>2. ASSUME \A id \in OrderId : /\ orders'[id].amount = orders[id].amount
                                 /\ orders'[id] = orders[id] \/ orders'[id].status # "Filled"
      PROVE  \A id \in OrderId : Delivered(id)
  BY <1>2 DEF Delivered
<1>3. ASSUME NEW a \in Address, NEW n \in 0..MaxNonce, DexCall(a, n)
      PROVE  \A id \in OrderId : Delivered(id)
  <2>1. ASSUME NEW b \in BondId, NEW amount \in Amount, NEW price \in Price, NEW asset \in Asset,
               NEW l \in Lifetime, list_bond_tokens(a, b, amount, price, asset, l, n)
        PROVE  \A id \in OrderId : orders'[id] = orders[id]
    <3>1. PICK o : orders' = Append(orders, o)
      BY <2>1 DEF list_bond_tokens
    <3> QED
      BY <1>0, <3>1 DEF OrderId
  <2>2. ASSUME NEW id \in OrderId, cancel_listing(a, id, n)
        PROVE  \A k \in OrderId : /\ orders'[k].amount = orders[k].amount
                                  /\ orders'[k] = orders[k] \/ orders'[k].status # "Filled"
    <3> DEFINE o == [orders[id] EXCEPT !.status = "Cancelled"]
    <3>1. orders' = [orders EXCEPT ![id] = o]
      BY <2>2 DEF cancel_listing
    <3>2. orders[id] \in Order
      BY <1>0, EscrowCovers
    <3>3. o.amount = orders[id].amount /\ o.status = "Cancelled"
      BY <3>2 DEF Order
    <3> HIDE DEF o
    <3>4. orders'[id] = o /\ \A k \in OrderId : k # id => orders'[k] = orders[k]
      BY <1>0, <3>1 DEF OrderId
    <3> QED
      BY <3>3, <3>4
  <2>3. ASSUME NEW start, NEW limit, clean_expired_orders(a, start, limit, n)
        PROVE  \A k \in OrderId : /\ orders'[k].amount = orders[k].amount
                                  /\ orders'[k] = orders[k] \/ orders'[k].status # "Filled"
    <3>1. SweepOrders(start, limit) /\ escrow' = escrow
      BY <2>3 DEF clean_expired_orders
    <3>2. \A k \in OrderId : /\ orders'[k].amount = orders[k].amount
                             /\ orders'[k] = orders[k] \/ orders'[k].status = "Expired"
      BY <1>0, <3>1, SweepBook
    <3> QED
      BY <3>2
  <2>4. ASSUME NEW asset \in Asset, NEW amount \in Amount,
               deposit_quote(a, asset, amount, n) \/ withdraw_quote(a, asset, amount, n)
        PROVE  \A id \in OrderId : orders'[id] = orders[id]
    BY <2>4 DEF deposit_quote, withdraw_quote
  <2> QED
    BY <1>1, <1>2, <1>3, <2>1, <2>2, <2>3, <2>4, PurchaseDelivers DEF DexCall
<1>4. ASSUME NEW a \in Address, NEW c \in Address, dex_set_admin(a, c)
      PROVE  \A id \in OrderId : Delivered(id)
  BY <1>1, <1>4 DEF dex_set_admin
<1>5. CASE Next /\ UNCHANGED dexVars
  BY <1>1, <1>5 DEF dexVars
<1> QED
  BY <1>3, <1>4, <1>5 DEF DexNext

\* Whatever leaves an order leaves the seller's balance at the issuer, and is
\* paid for at the listed price out of quote assets that already existed
\* (execute_purchase).
THEOREM PaidOnDelivery == DexSpec => DeliveryAgainstPayment
<1> DEFINE Step == \A id \in OrderId : Delivered(id)
<1>1. DexInv /\ [DexNext]_marketVars => [Step]_marketVars
  BY StepDelivers
<1> HIDE DEF Step
<1>2. DexSpec => [][Step]_marketVars
  BY <1>1, DexInvariant, PTL DEF DexSpec
<1> QED
  BY <1>2 DEF Step, Delivered, DeliveryAgainstPayment
=============================================================================
