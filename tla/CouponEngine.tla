---------------------------- MODULE CouponEngine ----------------------------
(***************************************************************************)
(* The CouponEngine contract (contracts/coupon-engine/src/lib.rs): turns   *)
(* verified reports into credits and shares them among the holders of a    *)
(* bond, composed with the BondIssuer whose balances it reads and the      *)
(* OracleConsumer whose reports it reads.                                  *)
(*                                                                         *)
(* A period is distributed in batches over a holder list that the admin    *)
(* passes with every batch; each batch is a transaction of its own and     *)
(* reads the balances of its own moment.  An optional value is a set with  *)
(* at most one element.                                                    *)
(***************************************************************************)
EXTENDS BondIssuer, OracleConsumer

CONSTANTS
  HolderList,            \* the holder lists offered to a batch
  FIXED_POINT, CREDIT_DIVISOR, CREDIT_MINOR_UNITS,
  HABITAT_CREDIT_RATE, SPECIES_CREDIT_RATE, UNIT_CREDIT_RATE,
  MAX_COUPON_BATCH_SIZE,
  MaxPeriods,            \* bound: coupon periods
  MaxCouponNonce         \* bound: calls per address

ASSUME CouponAssumption ==
  /\ HolderList \subseteq Seq(Address)
  /\ FIXED_POINT \in Nat \ {0} /\ CREDIT_DIVISOR \in Nat \ {0}
  /\ CREDIT_MINOR_UNITS \in Nat /\ HABITAT_CREDIT_RATE \in Nat \ {0}
  /\ SPECIES_CREDIT_RATE \in Nat /\ UNIT_CREDIT_RATE \in Nat
  /\ MAX_COUPON_BATCH_SIZE \in Nat /\ MaxPeriods \in Nat /\ MaxCouponNonce \in Nat

VARIABLES
  couponAdmin,        \* DataKey::Admin
  couponNonce,        \* DataKey::Nonce(address)
  couponBond,         \* DataKey::BondProject(id) and BondCreditType(id)
  period,             \* DataKey::PeriodInfo(id, index) and PeriodBatchCursor(id, index)
  periodCount,        \* DataKey::PeriodCount(id)
  accrued,            \* DataKey::AccruedCredits(id, holder)
  accruedByType,      \* DataKey::AccruedCreditsByType(id, holder, type)
  periodHolder,       \* DataKey::PeriodHolder(id, index, holder, type)
  undistributedTotal, \* DataKey::UndistributedTotal(id)
  claimed,            \* history: what each holder has claimed
  swept               \* history: what has been swept

ledgerVars == <<period, periodCount, accrued, accruedByType, periodHolder, undistributedTotal,
                claimed, swept>>
couponVars == <<couponAdmin, couponNonce, couponBond, ledgerVars>>

Period == 0..MaxPeriods - 1

\* The credit types that holders accrue: blue carbon accrues as carbon.
AccrualType == {"Carbon", "Biodiversity"}

CouponInit ==
  LET none == [a \in Address |-> 0]
  IN  /\ couponAdmin \in Address
      /\ couponNonce = none
      /\ couponBond = [b \in BondId |-> {}]
      /\ period = [b \in BondId |-> [i \in Period |-> {}]]
      /\ periodCount = [b \in BondId |-> 0]
      /\ accrued = [b \in BondId |-> none]
      /\ accruedByType = [b \in BondId |-> [t \in AccrualType |-> none]]
      /\ periodHolder = [b \in BondId |-> [i \in Period |-> [t \in AccrualType |-> none]]]
      /\ undistributedTotal = [b \in BondId |-> 0]
      /\ claimed = [b \in BondId |-> none]
      /\ swept = [b \in BondId |-> 0]
-----------------------------------------------------------------------------
coupon_use_nonce(addr, n) ==
  /\ n = couponNonce[addr]
  /\ n < MaxCouponNonce
  /\ couponNonce' = [couponNonce EXCEPT ![addr] = n + 1]

\* The project is the admin's word; the credit type comes from the bond.
register_bond(caller, b, project_id, n) ==
  /\ coupon_use_nonce(caller, n)
  /\ caller = couponAdmin
  /\ BondExists(b)
  /\ couponBond' = [couponBond EXCEPT ![b] =
       {[project_id |-> project_id, credit_type |-> bondConfig[b].credit_type]}]
  /\ UNCHANGED <<couponAdmin, ledgerVars>>

Saturated(x) == IF x > I128Max THEN I128Max ELSE x

compute_biodiversity_credits(m) ==
  LET weighted == Saturated(Saturated(Saturated(m[1] * HABITAT_CREDIT_RATE)
                                      + Saturated(m[2] * SPECIES_CREDIT_RATE))
                            + Saturated(m[3] * UNIT_CREDIT_RATE))
  IN  Saturated(weighted * CREDIT_MINOR_UNITS) \div HABITAT_CREDIT_RATE

carbon_credits(data) == (data.carbon_sequestered \div CREDIT_DIVISOR) * CREDIT_MINOR_UNITS

\* What a report is worth to a bond, by the type that accrues.
ReportCredits(credit_type, data) ==
  LET carbon       == carbon_credits(data)
      biodiversity == compute_biodiversity_credits(CHOOSE m \in data.biodiversity : TRUE)
  IN  CASE credit_type \in {"Carbon", "BlueCarbon"} -> [Carbon |-> carbon, Biodiversity |-> 0]
        [] credit_type = "Biodiversity" -> [Carbon |-> 0, Biodiversity |-> biodiversity]
        [] credit_type = "Basket" -> [Carbon |-> carbon, Biodiversity |-> biodiversity]

NeedsMetrics(credit_type) == credit_type \in {"Biodiversity", "Basket"}

total_credits(credits) == credits.Carbon + credits.Biodiversity

IsVerified(id) == reports[id].status = "Verified"

\* A report that this bond may be paid on.
Payable(b, id) ==
  /\ couponBond[b] # {}
  /\ id \in DOMAIN reports
  /\ IsVerified(id)
  /\ carbon_credits(reports[id].data) <= I128Max
  /\ \A bond \in couponBond[b] :
       /\ bond.project_id = reports[id].project_id
       /\ NeedsMetrics(bond.credit_type) => reports[id].data.biodiversity # {}

Worth(b, id) == ReportCredits((CHOOSE bond \in couponBond[b] : TRUE).credit_type, reports[id].data)

checked_ratio(value, multiplier, divisor) == (value * multiplier) \div divisor

\* A holder's share by the balance and the subscription of this moment.
Share(b, credits, type, holder) ==
  IF totalSubscribed[b] = 0 THEN 0
  ELSE checked_ratio(checked_ratio(credits[type], FIXED_POINT, totalSubscribed[b]),
                     holderBalance[b][holder], FIXED_POINT)

\* No ratio and no sum of the batch overflows.
BatchFits(b, i, credits, batch) ==
  /\ total_credits(credits) <= I128Max
  /\ totalSubscribed[b] > 0 => total_credits(credits) * FIXED_POINT <= I128Max
  /\ \A h \in batch, t \in AccrualType :
       /\ totalSubscribed[b] > 0 =>
            checked_ratio(credits[t], FIXED_POINT, totalSubscribed[b]) * holderBalance[b][h] <= I128Max
       /\ accruedByType[b][t][h] + Share(b, credits, t, h) <= I128Max
       /\ periodHolder[b][i][t][h] + Share(b, credits, t, h) <= I128Max
  /\ \A h \in batch : accrued[b][h] + Share(b, credits, "Carbon", h)
                      + Share(b, credits, "Biodiversity", h) <= I128Max

appears_before_Never(holders, i) == FALSE

appears_before(holders, i) == \E j \in 1..i - 1 : holders[j] = holders[i]

batch_cursor(b, i) == IF period[b][i] = {} THEN 0 ELSE (CHOOSE p \in period[b][i] : TRUE).cursor

earned_before(b, i) ==
  IF period[b][i] = {} THEN 0 ELSE (CHOOSE p \in period[b][i] : TRUE).total_credits_earned

\* A started period is not finished and is paid on the report it started with.
MayContinue(b, i, id) == \A p \in period[b][i] : ~p.distributed /\ p.report_id = id

\* What a completed period leaves to be swept; nothing if it overpaid.
Sweepable(remainder) == IF remainder > 0 THEN remainder ELSE 0

distribute_coupon_batch(caller, b, i, holders, id, offset, limit, n) ==
  /\ coupon_use_nonce(caller, n)
  /\ caller = couponAdmin
  /\ Payable(b, id)
  /\ MayContinue(b, i, id)
  /\ limit <= MAX_COUPON_BATCH_SIZE
  /\ offset + limit <= Len(holders)
  /\ offset = batch_cursor(b, i)
  /\ \A k \in offset + 1 .. offset + limit : ~appears_before(holders, k)
  /\ LET credits  == Worth(b, id)
         batch    == {holders[k] : k \in offset + 1 .. offset + limit}
         times(h) == Cardinality({k \in offset + 1 .. offset + limit : holders[k] = h})
         gain     == [t \in AccrualType |-> [h \in Address |->
                        times(h) * Share(b, credits, t, h)]]
         earned   == earned_before(b, i) + Tally(gain["Carbon"]) + Tally(gain["Biodiversity"])
         complete == offset + limit = Len(holders)
         left     == IF complete THEN total_credits(credits) - earned ELSE 0
     IN  /\ BatchFits(b, i, credits, batch)
         /\ earned <= I128Max
         /\ accrued' = [accrued EXCEPT ![b] =
              [h \in Address |-> @[h] + gain["Carbon"][h] + gain["Biodiversity"][h]]]
         /\ accruedByType' = [accruedByType EXCEPT ![b] =
              [t \in AccrualType |-> [h \in Address |-> @[t][h] + gain[t][h]]]]
         /\ periodHolder' = [periodHolder EXCEPT ![b][i] =
              [t \in AccrualType |-> [h \in Address |-> @[t][h] + gain[t][h]]]]
         /\ period' = [period EXCEPT ![b][i] =
              {[total_credits_earned |-> earned, distributed |-> complete, report_id |-> id,
                undistributed |-> left, cursor |-> offset + limit]}]
         /\ undistributedTotal[b] + Sweepable(left) <= I128Max
         /\ undistributedTotal' = [undistributedTotal EXCEPT ![b] = @ + Sweepable(left)]
         /\ periodCount' = [periodCount EXCEPT ![b] = IF complete THEN @ + 1 ELSE @]
  /\ UNCHANGED <<couponAdmin, couponBond, claimed, swept>>

\* The whole list in one batch.
distribute_coupon(caller, b, i, holders, id, n) ==
  distribute_coupon_batch(caller, b, i, holders, id, 0, Len(holders), n)

\* The types that a claim on a bond clears.
ClearedTypes_CarbonOnly(b) == {"Carbon"}

ClearedTypes(b) ==
  UNION {CASE bond.credit_type \in {"Carbon", "BlueCarbon"} -> {"Carbon"}
           [] bond.credit_type = "Biodiversity" -> {"Biodiversity"}
           [] bond.credit_type = "Basket" -> AccrualType : bond \in couponBond[b]}

\* Only the periods below PeriodCount are cleared in the itemised ledger.
claim_credits(caller, b, n) ==
  /\ coupon_use_nonce(caller, n)
  /\ accrued' = [accrued EXCEPT ![b][caller] = 0]
  /\ claimed' = [claimed EXCEPT ![b][caller] = @ + accrued[b][caller]]
  /\ IF accrued[b][caller] > 0
     THEN /\ accruedByType' = [accruedByType EXCEPT ![b] = [t \in AccrualType |->
               IF t \in ClearedTypes(b) THEN [@[t] EXCEPT ![caller] = 0] ELSE @[t]]]
          /\ periodHolder' = [periodHolder EXCEPT ![b] = [i \in Period |->
               IF i < periodCount[b]
               THEN [t \in AccrualType |-> [@[i][t] EXCEPT ![caller] = 0]] ELSE @[i]]]
     ELSE UNCHANGED <<accruedByType, periodHolder>>
  /\ UNCHANGED <<couponAdmin, couponBond, period, periodCount, undistributedTotal, swept>>

sweep_undistributed(caller, b, n) ==
  /\ coupon_use_nonce(caller, n)
  /\ caller = couponAdmin
  /\ swept' = [swept EXCEPT ![b] = @ + undistributedTotal[b]]
  /\ undistributedTotal' = [undistributedTotal EXCEPT ![b] = 0]
  /\ UNCHANGED <<couponAdmin, couponBond, period, periodCount, accrued, accruedByType,
                 periodHolder, claimed>>

coupon_set_admin(current_admin, new_admin, n) ==
  /\ coupon_use_nonce(current_admin, n)
  /\ current_admin = couponAdmin
  /\ couponAdmin' = new_admin
  /\ UNCHANGED <<couponBond, ledgerVars>>
-----------------------------------------------------------------------------

\* The calls of this contract that an account can make.
CouponCall(a, n) ==
  \/ \E b \in BondId, key \in Project : register_bond(a, b, key, n)
  \/ \E b \in BondId, i \in Period, holders \in HolderList, id \in DOMAIN reports :
       \/ distribute_coupon(a, b, i, holders, id, n)
       \/ \E offset, limit \in 0..MAX_COUPON_BATCH_SIZE :
            distribute_coupon_batch(a, b, i, holders, id, offset, limit, n)
  \/ \E b \in BondId : claim_credits(a, b, n) \/ sweep_undistributed(a, b, n)
  \/ \E c \in Address : coupon_set_admin(a, c, n)

CouponNext ==
  \/ \E a \in Address, n \in 0..MaxCouponNonce : CouponCall(a, n) /\ UNCHANGED <<vars, oracleVars>>
  \/ \E a \in Address, n \in 0..MaxNonce : IssuerCall(a, n) /\ UNCHANGED <<oracleVars, couponVars>>
  \/ \E a \in Address, n \in 0..MaxOracleNonce :
       OracleCall(a, n) /\ UNCHANGED <<project, issuerVars, couponVars>>
  \/ \E a, c \in Address : set_admin(a, c) /\ UNCHANGED <<oracleVars, couponVars>>
  \/ \E a, c \in Address : oracle_set_admin(a, c) /\ UNCHANGED <<project, issuerVars, couponVars>>
  \/ Tick /\ UNCHANGED <<oracleVars, couponVars>>

CouponSpec ==
  Init /\ OracleInit /\ CouponInit /\ [][CouponNext]_<<vars, oracleVars, couponVars>>
-----------------------------------------------------------------------------
(***************************************************************************)
(* Properties                                                              *)
(***************************************************************************)
\* The combined ledger a claim pays out from and the ledgers by type stay in
\* step, whatever mix of bond types, batches and claims has happened.
LedgersAgree ==
  \A b \in BondId, h \in Address :
    accrued[b][h] = accruedByType[b]["Carbon"][h] + accruedByType[b]["Biodiversity"][h]

\* A period that one transaction distributes from start to end never hands
\* out more than its report is worth: rounding goes down, no holder is counted
\* twice, and the issuer's balances add up to its total (SupplyConserved).
OneBatchNeverOverpays ==
  [][\A b \in BondId, i \in Period : period[b][i] = {} =>
       \A p \in period'[b][i] : p.total_credits_earned <= total_credits(Worth(b, p.report_id))
    ]_<<vars, oracleVars, couponVars>>
=============================================================================
