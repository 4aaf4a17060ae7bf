------------------------ MODULE MCGovernedRegistry ------------------------
(* Small instance of GovernedRegistry for TLC: two signers, who also execute, *)
(* an outsider who owns projects and whom the registry may be handed to, and  *)
(* every governed call.                                                       *)
EXTENDS GovernedRegistry, TLC

CONSTANTS S1, S2, U1, H0, H1

MCSigner == {S1, S2}
MCAccount == {U1, Gov}
MCHash == {H0, H1}
MCCall == {CallOn("approve_project", 1), CallOn("reject_project", 1),
           CallOn("deactivate_project", 1), CallOn("set_admin", U1)}
MCSymmetry == Permutations(MCSigner)
=============================================================================
