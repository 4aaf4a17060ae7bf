----------------------------- MODULE MCCoupons -----------------------------
(* Small instances of CouponEngine and CreditRetirement for TLC. *)
EXTENDS CreditRetirement, TLC

CONSTANTS A1, A2, P1, M1, CouponType

MCAddress == {A1, A2}
MCProject == {P1}
MCAmount == {1}
MCRegistry == {[status |-> "Approved", methodology |-> "other"]}
MCConfigs == {[project_id |-> P1, face_value |-> 1, coupon_schedule |-> {0},
               credit_type |-> CouponType, maturity_date |-> 1, total_supply |-> 3]}
MCMethodology == {M1}
MCMeasurement == {[period_start |-> 0, period_end |-> 1, carbon_sequestered |-> 5,
                   biodiversity |-> {<<1, 1, 1>>}]}
MCStake == {1}
MCThreshold == {1}
MCHolderList == {<<A1, A2>>, <<A1, A1>>}
MCRetirable == {0, 2}

\* Coupon season: A2, the admin of the issuer, has issued a tranche, A1 bought
\* two tokens of it and A2 one; A1, the admin of the other contracts, has
\* registered A2 as a provider, A2 has reported, and A1 has verified the
\* report.
SeasonInit ==
  /\ now = 0 /\ project = [p \in Project |-> [status |-> "Approved", methodology |-> "other"]]
  /\ admin = A2 /\ registryLinked = FALSE
  /\ bondCount = 1 /\ bondConfig = <<CHOOSE c \in MCConfigs : TRUE>>
  /\ status = <<"Active">> /\ totalSubscribed = <<3>>
  /\ holderBalance = <<(A1 :> 2) @@ (A2 :> 1)>>
  /\ redemptionPool = <<0>> /\ nonce = (A1 :> 1) @@ (A2 :> 2)
  /\ oracleAdmin = A1 /\ oracleNonce = (A1 :> 2) @@ (A2 :> 1)
  /\ provider = (A1 :> [registered |-> FALSE, active |-> FALSE, stake |-> 0]) @@
                (A2 :> [registered |-> TRUE, active |-> TRUE, stake |-> 0])
  /\ reports = <<[provider |-> A2, project_id |-> P1, methodology |-> M1,
                  data |-> CHOOSE m \in MCMeasurement : TRUE, status |-> "Verified",
                  submitted_at |-> 0, verified_at |-> 0, provider_stake_at_verification |-> 0,
                  verifiers |-> {A1}, verification_count |-> 1, challenge |-> "none"]>>
  /\ slashes = [a \in Address |-> << >>]
  /\ signatureThreshold = 1 /\ minVerifierStake = 1
  /\ CouponInit /\ couponAdmin = A1
  /\ RetireInit /\ retireAdmin = A1

\* The steps that matter to a season: every call of the engine and of the
\* retirement contract, transfers at the issuer, and disputes over the report.
SeasonStep ==
  \/ \E a \in Address, n \in 0..MaxCouponNonce : CouponCall(a, n) /\ UNCHANGED <<vars, oracleVars>>
  \/ \E a, to \in Address, b \in BondId, amount \in Amount, n \in 0..MaxNonce :
       transfer(a, to, b, amount, n) /\ UNCHANGED <<oracleVars, couponVars>>
  \/ \E a \in Address, id \in DOMAIN reports, n \in 0..MaxOracleNonce :
       /\ challenge_report(a, id, n) \/ \E r \in ReportStatus : resolve_challenge(a, id, r, n)
       /\ UNCHANGED <<project, issuerVars, couponVars>>

RetireStep ==
  \E a \in Address, n \in 0..MaxRetireNonce : RetireCall(a, n) /\ UNCHANGED <<vars, oracleVars, couponVars>>

SeasonNext == (SeasonStep /\ UNCHANGED retireVars) \/ RetireStep
SeasonSpec == SeasonInit /\ [][SeasonNext]_creditVars
=============================================================================
