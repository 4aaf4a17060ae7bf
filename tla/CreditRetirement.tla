-------------------------- MODULE CreditRetirement --------------------------
(***************************************************************************)
(* The CreditRetirement contract (contracts/credit-retirement/src/lib.rs): *)
(* a holder of a bond retires credits against what the CouponEngine says   *)
(* has accrued, and gets a numbered record for it.                         *)
(*                                                                         *)
(* HolderRetirements is an index of retirements.  The certificate is a     *)
(* hash that must not be all zero, and the credit type of a record is the  *)
(* caller's word, checked against nothing: neither is kept here, and the   *)
(* calls considered carry a certificate that passes.                       *)
(***************************************************************************)
EXTENDS CouponEngine

CONSTANTS
  Retirable,        \* the amounts offered to retire_credits
  MaxRetireNonce    \* bound: calls per address

ASSUME RetireAssumption == Retirable \subseteq I128 /\ MaxRetireNonce \in Nat

VARIABLES
  retireAdmin,      \* DataKey::Admin
  retireNonce,      \* DataKey::Nonce(address)
  retirements,      \* DataKey::Retirement(id), id \in 1..RetirementCount
  retiredPerBond,   \* DataKey::RetiredPerBond(id, holder)
  retiredCredits    \* DataKey::RetiredCredits(holder)

retireVars == <<retireAdmin, retireNonce, retirements, retiredPerBond, retiredCredits>>
creditVars == <<vars, oracleVars, couponVars, retireVars>>

RetireInit ==
  /\ retireAdmin \in Address
  /\ retireNonce = [a \in Address |-> 0]
  /\ retirements = << >>
  /\ retiredPerBond = [b \in BondId |-> [a \in Address |-> 0]]
  /\ retiredCredits = [a \in Address |-> 0]
-----------------------------------------------------------------------------
retire_use_nonce(addr, n) ==
  /\ n = retireNonce[addr]
  /\ n < MaxRetireNonce
  /\ retireNonce' = [retireNonce EXCEPT ![addr] = n + 1]

Remaining_IgnoresRetired(b, holder) == accrued[b][holder]

\* What the holder may still retire: the engine's ledger is read, not debited.
Remaining(b, holder) == accrued[b][holder] - retiredPerBond[b][holder]

retire_credits(holder, b, amount, n) ==
  /\ retire_use_nonce(holder, n)
  /\ amount > 0
  /\ holderBalance[b][holder] > 0
  /\ amount <= Remaining(b, holder)
  /\ retiredCredits[holder] + amount <= I128Max
  /\ retiredPerBond' = [retiredPerBond EXCEPT ![b][holder] = @ + amount]
  /\ retiredCredits' = [retiredCredits EXCEPT ![holder] = @ + amount]
  /\ retirements' = Append(retirements, [holder |-> holder, bond_id |-> b, amount |-> amount])
  /\ UNCHANGED retireAdmin

retire_set_admin(current_admin, new_admin, n) ==
  /\ retire_use_nonce(current_admin, n)
  /\ current_admin = retireAdmin
  /\ retireAdmin' = new_admin
  /\ UNCHANGED <<retirements, retiredPerBond, retiredCredits>>

\* The calls of this contract that an account can make.
RetireCall(a, n) ==
  \/ \E b \in BondId, amount \in Retirable : retire_credits(a, b, amount, n)
  \/ \E c \in Address : retire_set_admin(a, c, n)

RetireNext ==
  \/ \E a \in Address, n \in 0..MaxRetireNonce :
       RetireCall(a, n) /\ UNCHANGED <<vars, oracleVars, couponVars>>
  \/ CouponNext /\ UNCHANGED retireVars

RetireSpec == Init /\ OracleInit /\ CouponInit /\ RetireInit /\ [][RetireNext]_creditVars
-----------------------------------------------------------------------------
EverAccrued(b, h) == accrued[b][h] + claimed[b][h]

\* The records, the per-bond counters and the per-holder counters tell the
\* same story; and nobody retires more than has ever accrued to them,
\* whatever was claimed in between.
RetirementsAreBacked ==
  \A h \in Address :
    /\ Tally([i \in DOMAIN retirements |->
                IF retirements[i].holder = h THEN retirements[i].amount ELSE 0]) = retiredCredits[h]
    /\ Tally([b \in BondId |-> retiredPerBond[b][h]]) = retiredCredits[h]
    /\ \A b \in BondId : retiredPerBond[b][h] <= EverAccrued(b, h)
=============================================================================
