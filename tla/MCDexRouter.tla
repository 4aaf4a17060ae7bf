---------------------------- MODULE MCDexRouter ----------------------------
(* Small instance of DexRouter for TLC. *)
EXTENDS DexRouter, TLC

CONSTANTS A1, A2, P1, USDC

MCAddress == {A1, A2}
MCProject == {P1}
MCAmount == {1, 2}
MCRegistry == {[status |-> "Approved", methodology |-> "other"]}
MCConfigs == {[project_id |-> P1, face_value |-> 1, coupon_schedule |-> {0},
               credit_type |-> "Carbon", maturity_date |-> 2, total_supply |-> 2]}

\* The market opens on a tranche that A2, the admin, issued (one call) and A1
\* bought up (one call).
MarketInit ==
  /\ now = 0 /\ project \in [Project -> Registry]
  /\ admin = A2 /\ registryLinked = FALSE
  /\ bondCount = 1 /\ bondConfig = <<CHOOSE c \in MCConfigs : TRUE>>
  /\ status = <<"Active">> /\ totalSubscribed = <<2>>
  /\ holderBalance = <<(A1 :> 2) @@ (A2 :> 0)>>
  /\ redemptionPool = <<0>> /\ nonce = [a \in Address |-> 1]
  /\ DexInit /\ dexAdmin = A2

\* The steps that matter to a market on that tranche: every call of the
\* router, transfers at the issuer behind its back, and time.
MarketNext ==
  \/ \E a \in Address, n \in 0..MaxNonce :
       \/ DexCall(a, n)
       \/ \E to \in Address, b \in BondId, amount \in Amount :
            transfer(a, to, b, amount, n) /\ UNCHANGED dexVars
  \/ \E a, c \in Address : a # c /\ dex_set_admin(a, c)
  \/ Tick /\ UNCHANGED dexVars

MarketSpec == MarketInit /\ [][MarketNext]_marketVars

MCAsset == {USDC}
MCPrice == {1, 2}
MCLifetime == {0, 1}
MCLimit == {0, 2}
=============================================================================
