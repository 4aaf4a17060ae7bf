---------------------------- MODULE SharedTypes ----------------------------
(***************************************************************************)
(* Types shared by the contracts (contracts/shared) and the two reads of   *)
(* the project registry that other contracts make.                         *)
(*                                                                         *)
(* A contract call is one atomic step: Soroban reverts every write of a    *)
(* call that returns an error or traps, nonce consumption included, so a   *)
(* failing call leaves the state alone and the guard of an action is the   *)
(* conjunction of the conditions under which the call succeeds.  An        *)
(* address passed to require_auth is assumed to have signed the call.      *)
(***************************************************************************)
EXTENDS Integers, FiniteSets

CONSTANT I128Max        \* largest i128 (2^127 - 1 in the code)

ASSUME I128Assumption == I128Max \in Nat \ {0}

I128 == (-I128Max)..I128Max

CreditType == {"Carbon", "Biodiversity", "Basket", "BlueCarbon"}

ProjectStatus == {"Pending", "Approved", "Rejected", "Inactive"}

BondStatus == {"Active", "Matured"}

ReportStatus == {"Pending", "Verified", "Challenged", "Rejected"}

\* The classes of methodology symbols that methodology_compatible tells apart;
\* "none" stands for the empty symbol of an unregistered project.
Methodology == {"blue_carbon", "biodiversity", "other"}

\* A registry entry; an id that was never registered has status "None".
ProjectEntry == [status : ProjectStatus \cup {"None"},
                 methodology : Methodology \cup {"none"}]

has_approved_project(projects, key) == projects[key].status = "Approved"

get_project_methodology(projects, key) == projects[key].methodology

\* Methodology of the backing project against the credit type of the bond.
methodology_compatible(methodology, credit_type) ==
  CASE credit_type = "Carbon"       -> methodology \notin {"blue_carbon", "biodiversity"}
    [] credit_type = "BlueCarbon"   -> methodology = "blue_carbon"
    [] credit_type = "Biodiversity" -> methodology = "biodiversity"
    [] credit_type = "Basket"       -> TRUE
-----------------------------------------------------------------------------
(***************************************************************************)
(* The contracts keep many ledgers of the form key -> amount (holder       *)
(* balances, listed amounts, accrued credits) beside one running total.    *)
(* The sum of such a ledger is written as the number of units in it: the   *)
(* amount f[x] of a key x is the set {x} \X 1..f[x] of its units, and      *)
(* Tally(f) counts the units of every key.  For amounts in Nat this is the *)
(* ordinary sum (MCBondIssuer evaluates the two side by side), and unlike  *)
(* a recursive sum it can be reasoned about with the cardinality theorems  *)
(* of finite sets (BondProofs).                                            *)
(***************************************************************************)
Units(f) == UNION {{x} \X (1..f[x]) : x \in DOMAIN f}

Tally(f) == Cardinality(Units(f))
=============================================================================
