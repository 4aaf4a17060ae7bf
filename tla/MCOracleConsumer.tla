-------------------------- MODULE MCOracleConsumer --------------------------
(* Small instance of OracleConsumer for TLC. *)
EXTENDS OracleConsumer, TLC

CONSTANTS A1, A2, A3, P1, M1

MCAddress == {A1, A2, A3}
MCSymmetry == Permutations(MCAddress)
MCProject == {P1}
MCMethodology == {M1}
MCStake == {-1, 1, 3}
MCThreshold == {0, 2}
Data(start, end, carbon, biodiversity) ==
  [period_start |-> start, period_end |-> end, carbon_sequestered |-> carbon,
   biodiversity |-> biodiversity]
\* Two adjacent periods and one that covers both, then an empty period, a
\* negative amount and a negative metric.
MCMeasurement == {Data(0, 1, 1, {}), Data(1, 2, 1, {}), Data(0, 2, 1, {<<1, 1, 1>>}),
                  Data(1, 1, 1, {}), Data(0, 1, -1, {}), Data(0, 1, 1, {<<1, 1, -1>>})}
=============================================================================
