---------------------------- MODULE MCBondIssuer ----------------------------
(* Small instance of BondIssuer for TLC. *)
EXTENDS BondIssuer, Functions

CONSTANTS A1, A2, P1

MCAddress == {A1, A2}
MCProject == {P1}
MCAmount == {-1, 1, 2}
MCRegistry == {[status |-> "Approved", methodology |-> "other"],
               [status |-> "Approved", methodology |-> "blue_carbon"],
               [status |-> "Inactive", methodology |-> "other"]}
Config(face, supply, maturity) ==
  [project_id |-> P1, face_value |-> face, coupon_schedule |-> {0},
   credit_type |-> "Carbon", maturity_date |-> maturity, total_supply |-> supply]
\* Two valid tranches (the second one's principal can overflow), then a zero
\* face value, no supply, too much supply, a date already past, an empty
\* schedule and a coupon on the maturity date.
MCConfigs ==
  {Config(2, 3, 1), Config(4, 2, 1), Config(0, 3, 1), Config(2, 0, 1), Config(2, 4, 1),
   Config(2, 3, 0), [Config(2, 3, 1) EXCEPT !.coupon_schedule = {}],
   [Config(2, 3, 1) EXCEPT !.coupon_schedule = {1}]}

\* Tally is the ordinary sum.
ASSUME \A f \in [MCAddress -> 0..3] : Tally(f) = SumFunction(f)
=============================================================================
