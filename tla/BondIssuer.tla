----------------------------- MODULE BondIssuer -----------------------------
(***************************************************************************)
(* The BondIssuer contract (contracts/bond-issuer/src/lib.rs): issuance of *)
(* bond tranches, primary subscription, transfers, maturity and redemption *)
(* against an escrowed pool.                                               *)
(*                                                                         *)
(* Bond ids are 1..bondCount.  A storage read with unwrap_or(0) is a       *)
(* function that is 0 where nothing was stored.                            *)
(***************************************************************************)
EXTENDS ContractHost

CONSTANTS
  Configs,      \* the BondConfig values offered to issue_bond
  Registry,     \* the registry entries the linked registry may hold
  Amount,       \* the amounts offered to calls
  MAX_SUPPLY,   \* cap on total_supply
  MaxBonds,     \* bound: tranches issued
  MaxNonce      \* bound: calls per address

ASSUME IssuerAssumption ==
  /\ Address # {}
  /\ Configs \subseteq [project_id : Project, face_value : I128,
                        coupon_schedule : SUBSET Nat, credit_type : CreditType,
                        maturity_date : Nat, total_supply : I128]
  /\ Registry \subseteq ProjectEntry
  /\ Amount \subseteq I128
  /\ MAX_SUPPLY \in Nat /\ MAX_SUPPLY <= I128Max
  /\ MaxBonds \in Nat /\ MaxNonce \in Nat /\ MaxTime \in Nat

BondId == 1..MaxBonds

VARIABLES
  project,          \* what the ProjectRegistry contract answers
  admin,            \* DataKey::Admin
  registryLinked,   \* DataKey::ProjectRegistry is set
  bondCount,        \* DataKey::BondCount
  bondConfig,       \* DataKey::BondConfig(id)
  status,           \* DataKey::BondState(id).status
  totalSubscribed,  \* DataKey::BondState(id).total_subscribed
  holderBalance,    \* DataKey::HolderBalance(id, holder)
  redemptionPool,   \* DataKey::RedemptionPool(id)
  nonce             \* DataKey::Nonce(address)

issuerVars == <<admin, registryLinked, bondCount, bondConfig, status,
                totalSubscribed, holderBalance, redemptionPool, nonce>>
vars == <<now, project, issuerVars>>

BondExists(b) == b \in 1..bondCount

TypeOK ==
  /\ now \in Nat
  /\ project \in [Project -> Registry]
  /\ admin \in Address
  /\ registryLinked \in BOOLEAN
  /\ bondCount \in 0..MaxBonds
  /\ bondConfig \in Seq(Configs) /\ Len(bondConfig) = bondCount
  /\ status \in [BondId -> BondStatus]
  /\ totalSubscribed \in [BondId -> Nat]
  /\ holderBalance \in [BondId -> [Address -> Nat]]
  /\ redemptionPool \in [BondId -> Nat]
  /\ nonce \in [Address -> Nat]

Init ==
  /\ now = 0
  /\ project \in [Project -> Registry]
  /\ admin \in Address
  /\ registryLinked = FALSE
  /\ bondCount = 0
  /\ bondConfig = << >>
  /\ status = [b \in BondId |-> "Active"]
  /\ totalSubscribed = [b \in BondId |-> 0]
  /\ holderBalance = [b \in BondId |-> [a \in Address |-> 0]]
  /\ redemptionPool = [b \in BondId |-> 0]
  /\ nonce = [a \in Address |-> 0]
-----------------------------------------------------------------------------
require_admin(caller) == caller = admin

\* The caller passes the nonce it read; only the current one is accepted.
consume_nonce(addr, n) ==
  /\ n = nonce[addr]
  /\ n < MaxNonce
  /\ nonce' = [nonce EXCEPT ![addr] = n + 1]

set_admin(current_admin, new_admin) ==
  /\ require_admin(current_admin)
  /\ admin' = new_admin
  /\ UNCHANGED <<now, project, registryLinked, bondCount, bondConfig, status,
                 totalSubscribed, holderBalance, redemptionPool, nonce>>

set_project_registry(caller, n) ==
  /\ consume_nonce(caller, n)
  /\ require_admin(caller)
  /\ registryLinked' = TRUE
  /\ UNCHANGED <<now, project, admin, bondCount, bondConfig, status,
                 totalSubscribed, holderBalance, redemptionPool>>

ValidConfig(config) ==
  /\ config.face_value > 0
  /\ config.total_supply \in 1..MAX_SUPPLY
  /\ config.maturity_date > now
  /\ config.coupon_schedule # {}
  /\ \A date \in config.coupon_schedule : date < config.maturity_date

\* Only checked when a registry has been linked.
ProjectBacks(config) ==
  registryLinked =>
    /\ has_approved_project(project, config.project_id)
    /\ methodology_compatible(get_project_methodology(project, config.project_id),
                              config.credit_type)

issue_bond(caller, config, n) ==
  /\ consume_nonce(caller, n)
  /\ require_admin(caller)
  /\ ValidConfig(config)
  /\ ProjectBacks(config)
  /\ bondCount < MaxBonds
  /\ bondCount' = bondCount + 1
  /\ bondConfig' = Append(bondConfig, config)
  /\ status' = [status EXCEPT ![bondCount + 1] = "Active"]
  /\ totalSubscribed' = [totalSubscribed EXCEPT ![bondCount + 1] = 0]
  /\ UNCHANGED <<now, project, admin, registryLinked, holderBalance, redemptionPool>>

\* Trading and subscription stop at the maturity date, whether or not the
\* admin has matured the bond.
IsLive_IgnoresDate(b) == BondExists(b) /\ status[b] = "Active"

IsLive(b) == BondExists(b) /\ status[b] = "Active" /\ now < bondConfig[b].maturity_date

FitsSupply_ChecksBefore(b, amount) == totalSubscribed[b] < bondConfig[b].total_supply

FitsSupply(b, amount) == totalSubscribed[b] + amount <= bondConfig[b].total_supply

Credited_Overwrites(b, holder, amount) == amount

\* The new balance of an account that receives or gives up tokens.
Credited(b, holder, amount) == holderBalance[b][holder] + amount
Debited(b, holder, amount) == holderBalance[b][holder] - amount

HasBalance(b, holder, amount) == holderBalance[b][holder] >= amount

subscribe(investor, b, amount, n) ==
  /\ consume_nonce(investor, n)
  /\ amount > 0
  /\ IsLive(b)
  /\ FitsSupply(b, amount)
  /\ Credited(b, investor, amount) <= I128Max
  /\ holderBalance' = [holderBalance EXCEPT ![b][investor] = Credited(b, investor, amount)]
  /\ totalSubscribed' = [totalSubscribed EXCEPT ![b] = @ + amount]
  /\ UNCHANGED <<now, project, admin, registryLinked, bondCount, bondConfig,
                 status, redemptionPool>>

\* What a call of transfer does to this contract's own storage; a purchase on
\* the DEX router makes the same call.
Transferred(from, to, b, amount, n) ==
  /\ consume_nonce(from, n)
  /\ to # from
  /\ amount > 0
  /\ IsLive(b)
  /\ HasBalance(b, from, amount)
  /\ Credited(b, to, amount) <= I128Max
  /\ holderBalance' = [holderBalance EXCEPT ![b][from] = Debited(b, from, amount),
                                            ![b][to] = Credited(b, to, amount)]
  /\ UNCHANGED <<admin, registryLinked, bondCount, bondConfig, status,
                 totalSubscribed, redemptionPool>>

transfer(from, to, b, amount, n) ==
  /\ Transferred(from, to, b, amount, n)
  /\ UNCHANGED <<now, project>>

fund_redemption(caller, b, amount, n) ==
  /\ consume_nonce(caller, n)
  /\ require_admin(caller)
  /\ amount > 0
  /\ BondExists(b)
  /\ redemptionPool[b] + amount <= I128Max
  /\ redemptionPool' = [redemptionPool EXCEPT ![b] = @ + amount]
  /\ UNCHANGED <<now, project, admin, registryLinked, bondCount, bondConfig,
                 status, totalSubscribed, holderBalance>>

Payout_RoundsUp(b, amount) == amount * bondConfig[b].face_value + 1

Payout(b, amount) == amount * bondConfig[b].face_value

redeem(holder, b, amount, n) ==
  /\ consume_nonce(holder, n)
  /\ amount > 0
  /\ BondExists(b)
  /\ status[b] = "Matured"
  /\ HasBalance(b, holder, amount)
  /\ Payout(b, amount) <= I128Max
  /\ redemptionPool[b] >= Payout(b, amount)
  /\ redemptionPool' = [redemptionPool EXCEPT ![b] = @ - Payout(b, amount)]
  /\ holderBalance' = [holderBalance EXCEPT ![b][holder] = Debited(b, holder, amount)]
  /\ totalSubscribed' = [totalSubscribed EXCEPT ![b] = @ - amount]
  /\ UNCHANGED <<now, project, admin, registryLinked, bondCount, bondConfig, status>>

mature_bond(caller, b, n) ==
  /\ consume_nonce(caller, n)
  /\ require_admin(caller)
  /\ BondExists(b)
  /\ status[b] = "Active"
  /\ now >= bondConfig[b].maturity_date
  /\ status' = [status EXCEPT ![b] = "Matured"]
  /\ UNCHANGED <<now, project, admin, registryLinked, bondCount, bondConfig,
                 totalSubscribed, holderBalance, redemptionPool>>
-----------------------------------------------------------------------------

total_principal_due(b) == totalSubscribed[b] * bondConfig[b].face_value

shortfall(b) ==
  IF total_principal_due(b) > redemptionPool[b]
  THEN total_principal_due(b) - redemptionPool[b] ELSE 0
-----------------------------------------------------------------------------
Tick == LedgerCloses /\ UNCHANGED <<project, issuerVars>>

\* The ProjectRegistry contract changes its records; nothing is assumed of how.
RegistryStep == /\ project' \in [Project -> Registry]
                /\ UNCHANGED <<now, issuerVars>>

\* The calls of this contract that an account can make.
IssuerCall(a, n) ==
  \/ set_project_registry(a, n)
  \/ \E config \in Configs : issue_bond(a, config, n)
  \/ \E b \in BondId, amount \in Amount :
       \/ subscribe(a, b, amount, n)
       \/ \E to \in Address : transfer(a, to, b, amount, n)
       \/ fund_redemption(a, b, amount, n)
       \/ redeem(a, b, amount, n)
  \/ \E b \in BondId : mature_bond(a, b, n)

Next == \/ \E a \in Address, n \in 0..MaxNonce : IssuerCall(a, n)
        \/ \E a, c \in Address : set_admin(a, c)
        \/ RegistryStep
        \/ Tick

Spec == Init /\ [][Next]_vars
-----------------------------------------------------------------------------
(***************************************************************************)
(* Properties                                                              *)
(***************************************************************************)
\* The running total that caps subscriptions and sizes coupons
\* (total_subscribed) is exactly what the holders hold, whatever mix of
\* subscriptions, transfers and redemptions has happened.
SupplyConserved ==
  \A b \in BondId : Tally(holderBalance[b]) = totalSubscribed[b]

\* A tranche is never oversubscribed: no interleaving of subscriptions pushes
\* the outstanding amount over the supply it was issued with.
NeverOversubscribed ==
  \A b \in 1..bondCount :
    /\ totalSubscribed[b] <= bondConfig[b].total_supply
    /\ bondConfig[b].total_supply <= MAX_SUPPLY

\* Once the maturity date has passed, no balance ever grows again and no
\* tokens change hands: the supply is frozen on schedule, before the admin
\* has matured the bond as well as after (subscribe, transfer).
FrozenAtMaturity ==
  [][\A b \in 1..bondCount : now >= bondConfig[b].maturity_date =>
       \A h \in Address : holderBalance'[b][h] <= holderBalance[b][h]]_vars

\* A matured bond whose pool covers the whole principal stays covered: paying
\* some holders never takes what the others are owed (redeem).
CoverageNeverLost ==
  [][\A b \in 1..bondCount :
       (status[b] = "Matured" /\ shortfall(b) = 0) => (shortfall(b))' = 0]_vars
=============================================================================
