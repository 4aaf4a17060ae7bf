---------------------------- MODULE MCHolderIndex ----------------------------
(* A small instance of HolderIndex for TLC. *)
EXTENDS HolderIndex, TLC

CONSTANTS A1, A2, T1, T2

MCAddress == {A1, A2}
MCTask == {T1, T2}

\* An earlier process indexed everybody; an interrupted write makes the empty
\* file of a first start.
MCEarlierFile == {[holders |-> MCAddress, known |-> MCAddress, touched |-> TRUE]}
MCSymmetry == Permutations(MCAddress) \cup Permutations(MCTask)
=============================================================================
