---------------------------- MODULE ContractHost ----------------------------
(***************************************************************************)
(* The Soroban host as the issuer and the oracle contract see it: who can  *)
(* sign a call, which project keys exist, and env.ledger().timestamp().    *)
(***************************************************************************)
EXTENDS SharedTypes, Sequences

CONSTANT Project   \* BytesN<32> keys of the project registry
CONSTANT Address   \* signers, people and contracts alike
CONSTANT MaxTime   \* bound: timestamps

VARIABLE now

\* One more ledger, as long as the bound allows.
LedgerCloses == now' = now + 1 /\ now' \leq MaxTime
=============================================================================
