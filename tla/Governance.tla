----------------------------- MODULE Governance -----------------------------
(***************************************************************************)
(* The Governance contract (contracts/governance/src/lib.rs): signers      *)
(* propose calls on other contracts, vote on them, and anyone executes a   *)
(* queued proposal after its timelock.                                     *)
(*                                                                         *)
(* A stored vote is TRUE for an approval; a veto stores FALSE, which reads *)
(* the same as no vote.  What the target of a call does is left to the     *)
(* module that composes this one with a target: here it may accept any     *)
(* call, and a call it refuses reverts the whole execution.                *)
(***************************************************************************)
EXTENDS Integers, Sequences, FiniteSets

CONSTANTS
  Caller,           \* accounts
  Signer,           \* the signers, a subset of Caller
  Call,             \* what can be proposed: [target, method, arg]
  Threshold,
  Timelock,
  MaxProposals,     \* bound: proposals
  MaxGovNonce,      \* bound: calls per account
  MaxGovTime        \* bound: ledger timestamps

Target == {c.target : c \in Call}
Method == {<<c.target, c.method>> : c \in Call}

\* __constructor: no empty signer list, a threshold the signers can reach.
ASSUME GovAssumption ==
  /\ Signer \subseteq Caller /\ Signer # {} /\ IsFiniteSet(Signer)
  /\ Threshold \in 1..Cardinality(Signer)
  /\ Timelock \in Nat
  /\ MaxProposals \in Nat /\ MaxGovNonce \in Nat /\ MaxGovTime \in Nat

VARIABLES
  clock,       \* ledger timestamp
  proposals,   \* DataKey::Proposal(id), id \in 1..ProposalCount
  vote,        \* DataKey::Vote(id, signer)
  allowList,   \* DataKey::AllowList(target, method)
  govNonce,    \* DataKey::Nonce(address)
  execNonce    \* DataKey::ExecutionNonce(target)

govVars == <<clock, proposals, vote, allowList, govNonce, execNonce>>

ProposalId == 1..MaxProposals

ProposalStatus == {"Pending", "Queued", "Executed", "Rejected", "Cancelled"}

Proposal == [call : Call, status : ProposalStatus, approval_count : 0..Threshold,
             veto_count : 0..Threshold, queued_at : Nat, executed_at : Nat]

\* Types of the governance storage; voting stops at the threshold.
GovTypeOK ==
  /\ clock \in Nat
  /\ proposals \in Seq(Proposal) /\ Len(proposals) <= MaxProposals
  /\ vote \in [ProposalId -> [Signer -> BOOLEAN]]
  /\ allowList \subseteq Method
  /\ govNonce \in [Caller -> Nat]
  /\ execNonce \in [Target -> Nat]

GovInit ==
  /\ clock = 0
  /\ proposals = << >>
  /\ vote = [id \in ProposalId |-> [s \in Signer |-> FALSE]]
  /\ allowList = {}
  /\ govNonce = [a \in Caller |-> 0]
  /\ execNonce = [t \in Target |-> 0]
-----------------------------------------------------------------------------
check_nonce(addr, n) ==
  /\ n = govNonce[addr]
  /\ n < MaxGovNonce
  /\ govNonce' = [govNonce EXCEPT ![addr] = n + 1]

require_signer(caller) == caller \in Signer

\* Any one signer edits the allow list.
add_to_allow_list(caller, method, n) ==
  /\ check_nonce(caller, n)
  /\ require_signer(caller)
  /\ allowList' = allowList \cup {method}
  /\ UNCHANGED <<clock, proposals, vote, execNonce>>

remove_from_allow_list(caller, method, n) ==
  /\ check_nonce(caller, n)
  /\ require_signer(caller)
  /\ allowList' = allowList \ {method}
  /\ UNCHANGED <<clock, proposals, vote, execNonce>>

propose(caller, call, n) ==
  /\ check_nonce(caller, n)
  /\ require_signer(caller)
  /\ <<call.target, call.method>> \in allowList
  /\ Len(proposals) < MaxProposals
  /\ proposals' = Append(proposals,
       [call |-> call, status |-> "Pending", approval_count |-> 0, veto_count |-> 0,
        queued_at |-> 0, executed_at |-> 0])
  /\ UNCHANGED <<clock, vote, allowList, execNonce>>

IsPending(id) == id \in DOMAIN proposals /\ proposals[id].status = "Pending"

HasApproved_Never(id, caller) == FALSE

\* AlreadyVoted is only raised for a stored approval.
HasApproved(id, caller) == vote[id][caller]

ReachesThreshold(count) == count >= Threshold

Approved(proposal) ==
  IF ReachesThreshold(proposal.approval_count + 1)
  THEN [proposal EXCEPT !.approval_count = @ + 1, !.status = "Queued", !.queued_at = clock]
  ELSE [proposal EXCEPT !.approval_count = @ + 1]

vote_approve(caller, id, n) ==
  /\ check_nonce(caller, n)
  /\ require_signer(caller)
  /\ IsPending(id)
  /\ ~HasApproved(id, caller)
  /\ vote' = [vote EXCEPT ![id][caller] = TRUE]
  /\ proposals' = [proposals EXCEPT ![id] = Approved(@)]
  /\ UNCHANGED <<clock, allowList, execNonce>>

Vetoed(proposal) ==
  [proposal EXCEPT !.veto_count = @ + 1,
                   !.status = IF ReachesThreshold(proposal.veto_count + 1) THEN "Rejected" ELSE @]

vote_veto(caller, id, n) ==
  /\ check_nonce(caller, n)
  /\ require_signer(caller)
  /\ IsPending(id)
  /\ ~HasApproved(id, caller)
  /\ vote' = [vote EXCEPT ![id][caller] = FALSE]
  /\ proposals' = [proposals EXCEPT ![id] = Vetoed(@)]
  /\ UNCHANGED <<clock, allowList, execNonce>>

cancel(caller, id, n) ==
  /\ check_nonce(caller, n)
  /\ require_signer(caller)
  /\ IsPending(id)
  /\ proposals' = [proposals EXCEPT ![id].status = "Cancelled"]
  /\ UNCHANGED <<clock, vote, allowList, execNonce>>

IsExecutable_SkipsTimelock(id) ==
  /\ id \in DOMAIN proposals
  /\ proposals[id].status = "Queued"

IsExecutable(id) ==
  /\ id \in DOMAIN proposals
  /\ proposals[id].status = "Queued"
  /\ clock >= proposals[id].queued_at + Timelock

ExecutedStatus(proposal) == [proposal EXCEPT !.status = "Executed", !.executed_at = clock]

\* The call carries the execution nonce of its target as its last argument.
execute(caller, id, n) ==
  /\ check_nonce(caller, n)
  /\ IsExecutable(id)
  /\ execNonce' = [execNonce EXCEPT ![proposals[id].call.target] = @ + 1]
  /\ proposals' = [proposals EXCEPT ![id] = ExecutedStatus(@)]
  /\ UNCHANGED <<clock, vote, allowList>>
-----------------------------------------------------------------------------
GovTick == /\ clock < MaxGovTime
           /\ clock' = clock + 1
           /\ UNCHANGED <<proposals, vote, allowList, govNonce, execNonce>>

\* Everything but executing.
Deliberate(a, n) ==
  \/ \E m \in Method : add_to_allow_list(a, m, n) \/ remove_from_allow_list(a, m, n)
  \/ \E c \in Call : propose(a, c, n)
  \/ \E id \in DOMAIN proposals : vote_approve(a, id, n) \/ vote_veto(a, id, n) \/ cancel(a, id, n)

GovNext ==
  \/ \E a \in Caller, n \in 0..MaxGovNonce :
       Deliberate(a, n) \/ \E id \in DOMAIN proposals : execute(a, id, n)
  \/ GovTick

GovSpec == GovInit /\ [][GovNext]_govVars
-----------------------------------------------------------------------------
\* A proposal is queued or executed only with the approval of a threshold of
\* different signers: "Requires consensus of 3-of-5 signers"
\* (docs/governance.md), whatever mix of approvals and vetoes was cast.
QuorumApproved ==
  \A id \in DOMAIN proposals :
    /\ proposals[id].approval_count = Cardinality({s \in Signer : vote[id][s]})
    /\ proposals[id].status \in {"Queued", "Executed"} <=>
         proposals[id].approval_count >= Threshold
=============================================================================
