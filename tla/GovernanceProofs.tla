-------------------------- MODULE GovernanceProofs --------------------------
(***************************************************************************)
(* Proofs about Governance for every set of signers, every threshold,      *)
(* timelock and set of calls, and about its composition with the registry  *)
(* that it governs, for every set of accounts and projects.                *)
(***************************************************************************)
EXTENDS GovernedRegistry, FiniteSetTheorems, TLAPS

Approvers(id) == {s \in Signer : vote[id][s]}

(***************************************************************************)
(* QuorumApproved is not inductive as it stands.  A new proposal takes the *)
(* next id, and starts with a count of 0, so nobody may have a vote stored *)
(* under an id that is not in use.  The type invariant bounds both counts  *)
(* by the threshold, which holds because a proposal stops being pending    *)
(* when either of them reaches it.                                         *)
(***************************************************************************)
Unused == \A id \in ProposalId : id > Len(proposals) => Approvers(id) = {}

StillOpen == \A id \in DOMAIN proposals :
               proposals[id].status = "Pending" => proposals[id].veto_count < Threshold

GovInv == GovTypeOK /\ QuorumApproved /\ Unused /\ StillOpen

\* The votes of a proposal are finitely many.
LEMMA ApproversFinite ==
  ASSUME NEW id
  PROVE  IsFiniteSet(Approvers(id)) /\ Cardinality(Approvers(id)) \in Nat
<1>1. Approvers(id) \subseteq Signer
  BY DEF Approvers
<1> QED
  BY <1>1, GovAssumption, FS_Subset, FS_CardinalityType

\* The threshold is a positive number.
LEMMA ThresholdType == Threshold \in Nat \ {0}
<1>1. Cardinality(Signer) \in Nat
  BY GovAssumption, FS_CardinalityType
<1> QED
  BY <1>1, GovAssumption

\* What the constructor leaves satisfies the invariant.
LEMMA GovInvInit == GovInit => GovInv
<1> SUFFICES ASSUME GovInit PROVE GovInv
  OBVIOUS
<1>1. GovTypeOK
  BY GovAssumption DEF GovInit, GovTypeOK, ProposalId
<1>2. QuorumApproved /\ StillOpen
  BY DEF GovInit, QuorumApproved, StillOpen
<1>3. Unused
  BY DEF GovInit, Unused, Approvers
<1> QED
  BY <1>1, <1>2, <1>3 DEF GovInv

\* QuorumApproved, said of one proposal with the set that it counts by name.
LEMMA Counted ==
  ASSUME GovInv, NEW id \in DOMAIN proposals
  PROVE  /\ proposals[id].approval_count = Cardinality(Approvers(id))
         /\ proposals[id].status \in {"Queued", "Executed"} <=> proposals[id].approval_count >= Threshold
<1> QED
  BY Zenon DEF GovInv, QuorumApproved, Approvers

\* Both counts of a pending proposal are short of the threshold.
LEMMA PendingCounts ==
  ASSUME GovInv, NEW id \in DOMAIN proposals, proposals[id].status = "Pending"
  PROVE  /\ proposals[id] \in Proposal /\ id \in ProposalId
         /\ proposals[id].approval_count \in Nat /\ proposals[id].approval_count < Threshold
         /\ proposals[id].veto_count \in Nat /\ proposals[id].veto_count < Threshold
<1>1. proposals[id] \in Proposal /\ id \in ProposalId
  BY GovAssumption DEF GovInv, GovTypeOK, ProposalId
<1>2. proposals[id].approval_count \in Nat /\ proposals[id].veto_count \in Nat
  BY <1>1, ThresholdType DEF Proposal
<1> QED
  BY <1>1, <1>2, Counted, ThresholdType DEF GovInv, StillOpen

\* Calls that leave proposals and votes alone keep what is said of them.
LEMMA VotesUntouched ==
  ASSUME GovInv, GovTypeOK', UNCHANGED <<proposals, vote>>
  PROVE  GovInv'
<1>1. \A id : Approvers(id)' = Approvers(id)
  BY DEF Approvers
<1>2. QuorumApproved'
  BY DEF GovInv, QuorumApproved
<1>3. Unused' /\ StillOpen'
  BY <1>1 DEF GovInv, Unused, StillOpen
<1> QED
  BY <1>2, <1>3 DEF GovInv

\* The calls that touch neither a proposal nor a vote.
LEMMA AdminCallsInv ==
  ASSUME GovInv, NEW a \in Caller, NEW n \in 0..MaxGovNonce, NEW m \in Method,
         add_to_allow_list(a, m, n) \/ remove_from_allow_list(a, m, n)
  PROVE  GovInv'
<1>1. GovTypeOK'
  BY GovAssumption DEF GovInv, GovTypeOK, add_to_allow_list, remove_from_allow_list, check_nonce
<1>2. UNCHANGED <<proposals, vote>>
  BY DEF add_to_allow_list, remove_from_allow_list
<1> QED
  BY <1>1, <1>2, VotesUntouched

\* A new proposal starts with no votes.
LEMMA ProposeInv ==
  ASSUME GovInv, NEW a \in Caller, NEW n \in 0..MaxGovNonce, NEW c \in Call, propose(a, c, n)
  PROVE  GovInv'
<1> USE DEF GovInv
<1> DEFINE new == [call |-> c, status |-> "Pending", approval_count |-> 0, veto_count |-> 0,
                   queued_at |-> 0, executed_at |-> 0]
<1>0. PICK top : top = Len(proposals) + 1
  OBVIOUS
<1>1. /\ proposals \in Seq(Proposal) /\ proposals' = Append(proposals, new) /\ vote' = vote
      /\ Len(proposals) < MaxProposals
  BY DEF propose, GovTypeOK
<1>2. new \in Proposal
  BY ThresholdType DEF Proposal, ProposalStatus
<1>3. GovTypeOK'
  BY <1>1, <1>2, GovAssumption DEF GovTypeOK, propose, check_nonce
<1>4. /\ Len(proposals') = top /\ proposals'[top] = new
      /\ \A id \in DOMAIN proposals : proposals'[id] = proposals[id]
      /\ DOMAIN proposals = 1..Len(proposals) /\ DOMAIN proposals' = 1..top
      /\ Len(proposals) \in Nat
  BY <1>0, <1>1, <1>2
<1>5. Approvers(top) = {}
  BY <1>0, <1>1, <1>4, GovAssumption DEF Unused, ProposalId
<1>6. \A id : Approvers(id)' = Approvers(id)
  BY <1>1 DEF Approvers
<1>7. QuorumApproved'
  <2>1. ASSUME NEW id \in DOMAIN proposals'
        PROVE  /\ proposals'[id].approval_count = Cardinality(Approvers(id)')
               /\ proposals'[id].status \in {"Queued", "Executed"}
                    <=> proposals'[id].approval_count >= Threshold
    <3>1. CASE id = top
      <4>1. Cardinality(Approvers(id)') = 0
        BY <1>5, <1>6, <3>1, FS_EmptySet
      <4> QED
        BY <1>4, <3>1, <4>1, ThresholdType
    <3>2. CASE id # top
      <4>1. id \in DOMAIN proposals
        BY <1>0, <1>4, <3>2
      <4> QED
        BY <1>4, <1>6, <4>1, Counted
    <3> QED
      BY <3>1, <3>2
  <2> QED
    BY <2>1 DEF QuorumApproved, Approvers
<1>8. Unused'
  BY <1>0, <1>4, <1>6 DEF Unused, ProposalId
<1>9. StillOpen'
  BY <1>0, <1>4, ThresholdType DEF StillOpen
<1> QED
  BY <1>3, <1>7, <1>8, <1>9

\* A call that changes one proposal: what has to be shown of it, if nobody's
\* vote on another proposal changes.
LEMMA OneProposal ==
  ASSUME GovInv, NEW id \in DOMAIN proposals, NEW p \in Proposal,
         proposals' = [proposals EXCEPT ![id] = p],
         \A other \in ProposalId \ {id} : Approvers(other)' = Approvers(other),
         p.approval_count = Cardinality(Approvers(id)'),
         p.status \in {"Queued", "Executed"} <=> p.approval_count >= Threshold,
         p.status = "Pending" => p.veto_count < Threshold,
         UNCHANGED clock, vote' \in [ProposalId -> [Signer -> BOOLEAN]], UNCHANGED allowList,
         govNonce' \in [Caller -> Nat], execNonce' \in [Target -> Nat]
  PROVE  GovInv'
<1> USE DEF GovInv
<1>1. /\ proposals \in Seq(Proposal) /\ Len(proposals) <= MaxProposals /\ Len(proposals) \in Nat
      /\ DOMAIN proposals = 1..Len(proposals) /\ id \in ProposalId
  BY GovAssumption DEF GovTypeOK, ProposalId
<1>2. /\ proposals' \in Seq(Proposal) /\ Len(proposals') = Len(proposals)
      /\ DOMAIN proposals' = DOMAIN proposals /\ proposals'[id] = p
      /\ \A other \in DOMAIN proposals : other # id => proposals'[other] = proposals[other]
  BY <1>1
<1>3. GovTypeOK'
  BY <1>1, <1>2 DEF GovTypeOK
<1>4. QuorumApproved'
  <2>1. ASSUME NEW i \in DOMAIN proposals'
        PROVE  /\ proposals'[i].approval_count = Cardinality(Approvers(i)')
               /\ proposals'[i].status \in {"Queued", "Executed"}
                    <=> proposals'[i].approval_count >= Threshold
    <3>1. CASE i = id
      BY <1>2, <3>1
    <3>2. CASE i # id
      <4>1. i \in ProposalId
        BY <1>1, <1>2, GovAssumption DEF ProposalId
      <4> QED
        BY <1>2, <3>2, <4>1, Counted
    <3> QED
      BY <3>1, <3>2
  <2> QED
    BY <2>1 DEF QuorumApproved, Approvers
<1>5. Unused'
  BY <1>1, <1>2 DEF Unused
<1>6. StillOpen'
  BY <1>2 DEF StillOpen
<1> QED
  BY <1>3, <1>4, <1>5, <1>6

\* An approval adds its signer to those who approved, who was not one of them.
LEMMA ApproveInv ==
  ASSUME GovInv, NEW a \in Caller, NEW n \in 0..MaxGovNonce, NEW id \in DOMAIN proposals,
         vote_approve(a, id, n)
  PROVE  GovInv'
<1> USE DEF GovInv
<1> DEFINE old == proposals[id]
           p == Approved(old)
<1>1. /\ old \in Proposal /\ id \in ProposalId /\ a \in Signer /\ ~vote[id][a]
      /\ old.status = "Pending" /\ vote \in [ProposalId -> [Signer -> BOOLEAN]]
  BY GovAssumption DEF GovTypeOK, ProposalId, vote_approve, require_signer, IsPending, HasApproved
<1>2. /\ Approvers(id)' = Approvers(id) \cup {a} /\ a \notin Approvers(id)
      /\ \A other \in ProposalId \ {id} : Approvers(other)' = Approvers(other)
  BY <1>1 DEF vote_approve, Approvers
<1>3. Cardinality(Approvers(id)') = old.approval_count + 1
  <2>1. Cardinality(Approvers(id)) = old.approval_count
    BY Counted
  <2> QED
    BY <1>2, <2>1, ApproversFinite, FS_AddElement
<1>4. old.approval_count \in Nat /\ old.approval_count < Threshold
  BY <1>1, PendingCounts
<1>5. p \in Proposal
  <2>1. old.approval_count + 1 \in 0..Threshold /\ clock \in Nat
    BY <1>4, ThresholdType DEF GovTypeOK
  <2> QED
    BY <1>1, <2>1 DEF Proposal, ProposalStatus, Approved
<1>6. /\ p.approval_count = old.approval_count + 1 /\ p.veto_count = old.veto_count
      /\ p.status = IF old.approval_count + 1 >= Threshold THEN "Queued" ELSE "Pending"
  BY <1>1 DEF Proposal, Approved, ReachesThreshold
<1>7. old.veto_count < Threshold
  BY <1>1 DEF StillOpen
<1>8. /\ proposals' = [proposals EXCEPT ![id] = p] /\ UNCHANGED <<clock, allowList, execNonce>>
      /\ vote' \in [ProposalId -> [Signer -> BOOLEAN]] /\ govNonce' \in [Caller -> Nat]
  <2>1. proposals' = [proposals EXCEPT ![id] = p] /\ UNCHANGED <<clock, allowList, execNonce>>
    BY DEF vote_approve
  <2>2. vote' \in [ProposalId -> [Signer -> BOOLEAN]]
    BY <1>1 DEF vote_approve
  <2>3. govNonce' \in [Caller -> Nat]
    BY GovAssumption DEF vote_approve, check_nonce, GovTypeOK
  <2> QED
    BY <2>1, <2>2, <2>3
<1>9. p.status \in {"Queued", "Executed"} <=> p.approval_count >= Threshold
  BY <1>4, <1>6
<1>10. p.status = "Pending" => p.veto_count < Threshold
  BY <1>6, <1>7
<1>11. execNonce' \in [Target -> Nat]
  BY <1>8 DEF GovTypeOK
<1>12. p.approval_count = Cardinality(Approvers(id)')
  BY <1>3, <1>6
<1> HIDE DEF p, GovInv
<1> QED
  BY <1>2, <1>5, <1>8, <1>9, <1>10, <1>11, <1>12, OneProposal

\* A veto leaves the approvals as they are: its signer had none stored.
LEMMA VetoInv ==
  ASSUME GovInv, NEW a \in Caller, NEW n \in 0..MaxGovNonce, NEW id \in DOMAIN proposals,
         vote_veto(a, id, n)
  PROVE  GovInv'
<1> DEFINE old == proposals[id]
           p == Vetoed(old)
<1>1. /\ old \in Proposal /\ id \in ProposalId /\ a \in Signer /\ ~vote[id][a]
      /\ old.status = "Pending" /\ vote \in [ProposalId -> [Signer -> BOOLEAN]]
  BY PendingCounts DEF GovInv, GovTypeOK, vote_veto, require_signer, IsPending, HasApproved
<1>2. \A other \in ProposalId : Approvers(other)' = Approvers(other)
  BY <1>1 DEF vote_veto, Approvers
<1>3. /\ old.veto_count \in Nat /\ old.veto_count < Threshold
      /\ old.approval_count = Cardinality(Approvers(id)) /\ old.approval_count < Threshold
  BY <1>1, PendingCounts, Counted
<1>4. p \in Proposal
  <2>1. old.veto_count + 1 \in 0..Threshold
    BY <1>3, ThresholdType
  <2> QED
    BY <1>1, <2>1 DEF Proposal, ProposalStatus, Vetoed
<1>5. /\ p.approval_count = old.approval_count /\ p.veto_count = old.veto_count + 1
      /\ p.status = IF old.veto_count + 1 >= Threshold THEN "Rejected" ELSE "Pending"
  BY <1>1 DEF Proposal, Vetoed, ReachesThreshold
<1>6. proposals' = [proposals EXCEPT ![id] = p] /\ UNCHANGED <<clock, allowList, execNonce>>
  BY DEF vote_veto
<1>7. vote' \in [ProposalId -> [Signer -> BOOLEAN]]
  BY <1>1 DEF vote_veto
<1>8. govNonce' \in [Caller -> Nat] /\ execNonce' \in [Target -> Nat]
  BY <1>6, GovAssumption DEF vote_veto, check_nonce, GovInv, GovTypeOK
<1>9. /\ p.status \in {"Queued", "Executed"} <=> p.approval_count >= Threshold
      /\ p.status = "Pending" => p.veto_count < Threshold
      /\ p.approval_count = Cardinality(Approvers(id)')
  <2>1. old.approval_count \in Nat
    BY <1>1, PendingCounts
  <2>2. p.approval_count = Cardinality(Approvers(id)')
    BY <1>1, <1>2, <1>3, <1>5
  <2> QED
    BY <1>3, <1>5, <2>1, <2>2, ThresholdType
<1> HIDE DEF p
<1> QED
  BY <1>2, <1>4, <1>6, <1>7, <1>8, <1>9, OneProposal

\* Cancelling and executing change the status of one proposal and no vote.
LEMMA CloseInv ==
  ASSUME GovInv, NEW a \in Caller, NEW n \in 0..MaxGovNonce, NEW id \in DOMAIN proposals,
         cancel(a, id, n) \/ execute(a, id, n)
  PROVE  GovInv'
<1> DEFINE old == proposals[id]
<1>1. /\ old \in Proposal /\ id \in ProposalId /\ clock \in Nat
      /\ old.approval_count = Cardinality(Approvers(id))
      /\ old.status \in {"Queued", "Executed"} <=> old.approval_count >= Threshold
  BY Counted, GovAssumption DEF GovInv, GovTypeOK, ProposalId
<1>2. /\ UNCHANGED <<clock, vote, allowList>> /\ govNonce' \in [Caller -> Nat]
      /\ vote' \in [ProposalId -> [Signer -> BOOLEAN]]
  BY GovAssumption DEF cancel, execute, check_nonce, GovInv, GovTypeOK
<1>3. \A other : Approvers(other)' = Approvers(other)
  BY <1>2 DEF Approvers
<1>4. CASE cancel(a, id, n)
  <2> DEFINE p == [old EXCEPT !.status = "Cancelled"]
  <2>1. /\ proposals' = [proposals EXCEPT ![id] = p] /\ old.status = "Pending"
        /\ UNCHANGED execNonce
    BY <1>4 DEF cancel, IsPending
  <2>2. /\ p \in Proposal /\ p.approval_count = old.approval_count /\ p.status = "Cancelled"
    BY <1>1 DEF Proposal, ProposalStatus
  <2>3. execNonce' \in [Target -> Nat]
    BY <2>1 DEF GovInv, GovTypeOK
  <2>4. /\ p.status \in {"Queued", "Executed"} <=> p.approval_count >= Threshold
        /\ p.status = "Pending" => p.veto_count < Threshold
        /\ p.approval_count = Cardinality(Approvers(id)')
    BY <1>1, <1>3, <2>1, <2>2
  <2> HIDE DEF p
  <2> QED
    BY <1>2, <1>3, <2>1, <2>2, <2>3, <2>4, OneProposal
<1>5. CASE execute(a, id, n)
  <2> DEFINE p == ExecutedStatus(old)
  <2>1. proposals' = [proposals EXCEPT ![id] = p] /\ old.status = "Queued"
    BY <1>5 DEF execute, IsExecutable
  <2>2. /\ p \in Proposal /\ p.approval_count = old.approval_count /\ p.status = "Executed"
    BY <1>1 DEF Proposal, ProposalStatus, ExecutedStatus
  <2>3. execNonce' \in [Target -> Nat]
    <3>1. old.call.target \in Target
      BY <1>1 DEF Proposal, Target
    <3> QED
      BY <1>5, <3>1 DEF execute, GovInv, GovTypeOK
  <2>4. /\ p.status \in {"Queued", "Executed"} <=> p.approval_count >= Threshold
        /\ p.status = "Pending" => p.veto_count < Threshold
        /\ p.approval_count = Cardinality(Approvers(id)')
    BY <1>1, <1>3, <2>1, <2>2
  <2> HIDE DEF p
  <2> QED
    BY <1>2, <1>3, <2>1, <2>2, <2>3, <2>4, OneProposal
<1> QED
  BY <1>4, <1>5

\* Every step of Governance keeps the invariant.
LEMMA GovInvStep == GovInv /\ [GovNext]_govVars => GovInv'
<1> SUFFICES ASSUME GovInv, [GovNext]_govVars PROVE GovInv'
  OBVIOUS
<1>1. ASSUME NEW a \in Caller, NEW n \in 0..MaxGovNonce, Deliberate(a, n) PROVE GovInv'
  BY <1>1, AdminCallsInv, ProposeInv, ApproveInv, VetoInv, CloseInv DEF Deliberate
<1>2. ASSUME NEW a \in Caller, NEW n \in 0..MaxGovNonce, NEW id \in DOMAIN proposals, execute(a, id, n)
      PROVE  GovInv'
  BY <1>2, CloseInv
<1>3. CASE GovTick \/ UNCHANGED govVars
  <2>1. GovTypeOK'
    BY <1>3 DEF GovInv, GovTypeOK, GovTick, govVars
  <2>2. UNCHANGED <<proposals, vote>>
    BY <1>3 DEF GovTick, govVars
  <2> QED
    BY <2>1, <2>2, VotesUntouched
<1> QED
  BY <1>1, <1>2, <1>3 DEF GovNext

\* For every set of signers and every threshold: a proposal is queued or
\* executed (vote_approve, execute) exactly if a threshold of different signers
\* has approved it, in spite of vetoes and cancellations.
THEOREM QuorumIsRequired == GovSpec => []QuorumApproved
<1>1. GovInv => QuorumApproved
  BY DEF GovInv
<1> QED
  BY <1>1, GovInvInit, GovInvStep, PTL DEF GovSpec
-----------------------------------------------------------------------------
(***************************************************************************)
(* The nonce the two contracts agree on is only inductive with the types   *)
(* of the registry's nonces, and a review is only known to be governed     *)
(* with the votes behind a queued proposal, which GovInv carries.          *)
(***************************************************************************)
NoncesOK == instanceNonce \in [Account -> Nat] /\ persistentNonce \in [Account -> Nat]

GovernedInv == GovInv /\ NoncesOK /\ projects \in Seq(Project) /\ ExecutionsAreCounted

\* Every proposed call is on the registry.
LEMMA OnlyTarget ==
  ASSUME GovInv, NEW id \in DOMAIN proposals
  PROVE  proposals[id].call \in Call /\ proposals[id].call.target = RegistryAddr
<1>1. proposals[id] \in Proposal
  BY DEF GovInv, GovTypeOK
<1>2. proposals[id].call \in Call
  BY <1>1 DEF Proposal
<1>3. proposals[id].call.target \in Target
  BY <1>2 DEF Target
<1> QED
  BY <1>2, <1>3, GovernedAssumption

\* The contracts start with no call counted.
LEMMA GovernedInvInit == GovernedInit => GovernedInv
<1> SUFFICES ASSUME GovernedInit PROVE GovernedInv
  OBVIOUS
<1>1. GovInv
  BY GovInvInit DEF GovernedInit
<1>2. NoncesOK /\ projects \in Seq(Project)
  BY DEF GovernedInit, RegistryInit, NoncesOK
<1>3. ExecutionsAreCounted
  BY GovernedAssumption DEF GovernedInit, GovInit, RegistryInit, ExecutionsAreCounted
<1> QED
  BY <1>1, <1>2, <1>3 DEF GovernedInv

\* A review leaves the registry well typed and counts one persistent nonce.
LEMMA ReviewedStep ==
  ASSUME NoncesOK, projects \in Seq(Project), NEW a \in Account, NEW id, NEW n,
         NEW from, NEW to \in ProjectStatus, Reviewed(a, id, from, to, n)
  PROVE  /\ NoncesOK' /\ projects' \in Seq(Project)
         /\ n = persistentNonce[a] /\ a = registryAdmin
         /\ persistentNonce' = [persistentNonce EXCEPT ![a] = n + 1]
         /\ UNCHANGED <<instanceNonce, registryAdmin>>
         /\ id \in DOMAIN projects /\ projects' = [projects EXCEPT ![id].status = to]
<1>1. /\ n = persistentNonce[a] /\ a = registryAdmin
      /\ persistentNonce' = [persistentNonce EXCEPT ![a] = n + 1]
      /\ UNCHANGED <<instanceNonce, registryAdmin>>
      /\ id \in DOMAIN projects /\ projects' = [projects EXCEPT ![id].status = to]
  BY DEF Reviewed, use_persistent_nonce, NonceFits, IsRegistered
<1>2. NoncesOK'
  BY <1>1 DEF NoncesOK
<1>3. [projects[id] EXCEPT !.status = to] \in Project
  <2>1. projects[id] \in Project
    BY <1>1
  <2> QED
    BY <2>1 DEF Project
<1>4. projects' \in Seq(Project)
  BY <1>1, <1>3
<1> QED
  BY <1>1, <1>2, <1>4

\* What the call that Governance makes does: a review, counted in persistent
\* storage, or an admin change, counted in instance storage.
LEMMA InvokedStep ==
  ASSUME NoncesOK, projects \in Seq(Project), NEW c, NEW n, invoke_contract(c, n)
  PROVE  /\ NoncesOK' /\ projects' \in Seq(Project)
         /\ \/ /\ n = persistentNonce[Gov]
               /\ persistentNonce' = [persistentNonce EXCEPT ![Gov] = n + 1]
               /\ instanceNonce' = instanceNonce
            \/ /\ n = instanceNonce[Gov]
               /\ instanceNonce' = [instanceNonce EXCEPT ![Gov] = n + 1]
               /\ persistentNonce' = persistentNonce
<1>0. Gov \in Account /\ {"Approved", "Rejected", "Inactive"} \subseteq ProjectStatus
  BY GovernedAssumption DEF ProjectStatus
<1>1. CASE registry_set_admin(Gov, c.arg, n)
  BY <1>0, <1>1 DEF registry_set_admin, NoncesOK
<1>2. CASE approve_project(Gov, c.arg, n)
  BY <1>0, <1>2, ReviewedStep DEF approve_project
<1>3. CASE reject_project(Gov, c.arg, n)
  BY <1>0, <1>3, ReviewedStep DEF reject_project
<1>4. CASE deactivate_project(Gov, c.arg, n)
  BY <1>0, <1>4, ReviewedStep DEF deactivate_project
<1> QED
  BY <1>1, <1>2, <1>3, <1>4 DEF invoke_contract

\* Executing a proposal is counted once by each of the two contracts.
LEMMA ExecuteInv ==
  ASSUME GovernedInv, NEW a \in Caller, NEW n \in 0..MaxGovNonce,
         NEW id \in DOMAIN proposals, Execute(a, id, n)
  PROVE  GovernedInv'
<1> DEFINE m == execNonce[RegistryAddr]
<1>1. GovInv'
  BY GovInvStep DEF GovernedInv, Execute, GovNext
<1>2. Gov \in Account /\ Target = {RegistryAddr}
  BY GovernedAssumption
<1>3. execNonce \in [Target -> Nat] /\ NoncesOK /\ projects \in Seq(Project) /\ GovInv
  BY DEF GovernedInv, GovInv, GovTypeOK
<1>4. execNonce' = [execNonce EXCEPT ![RegistryAddr] = m + 1]
  BY <1>3, OnlyTarget DEF Execute, execute
<1>5. invoke_contract(proposals[id].call, m)
  BY DEF Execute
<1> HIDE DEF m
<1>6. /\ NoncesOK' /\ projects' \in Seq(Project)
      /\ \/ /\ m = persistentNonce[Gov]
            /\ persistentNonce' = [persistentNonce EXCEPT ![Gov] = m + 1]
            /\ instanceNonce' = instanceNonce
         \/ /\ m = instanceNonce[Gov]
            /\ instanceNonce' = [instanceNonce EXCEPT ![Gov] = m + 1]
            /\ persistentNonce' = persistentNonce
  BY <1>3, <1>5, InvokedStep
<1>7. ExecutionsAreCounted'
  <2>1. /\ m = persistentNonce[Gov] + instanceNonce[Gov]
        /\ persistentNonce[Gov] = 0 \/ instanceNonce[Gov] = 0
    BY DEF GovernedInv, ExecutionsAreCounted, m
  <2>2. persistentNonce[Gov] \in Nat /\ instanceNonce[Gov] \in Nat
    BY <1>2, <1>3 DEF NoncesOK
  <2>3. execNonce'[RegistryAddr] = m + 1
    BY <1>2, <1>3, <1>4
  <2>4. \/ /\ m = persistentNonce[Gov] /\ persistentNonce'[Gov] = m + 1
           /\ instanceNonce'[Gov] = instanceNonce[Gov]
        \/ /\ m = instanceNonce[Gov] /\ instanceNonce'[Gov] = m + 1
           /\ persistentNonce'[Gov] = persistentNonce[Gov]
    BY <1>2, <1>3, <1>6 DEF NoncesOK
  <2>5. CASE /\ m = persistentNonce[Gov] /\ persistentNonce'[Gov] = m + 1
             /\ instanceNonce'[Gov] = instanceNonce[Gov]
    <3>1. instanceNonce[Gov] = 0 /\ m + 1 = (m + 1) + 0
      BY <2>1, <2>2, <2>5
    <3> QED
      BY <2>3, <2>5, <3>1 DEF ExecutionsAreCounted
  <2>6. CASE /\ m = instanceNonce[Gov] /\ instanceNonce'[Gov] = m + 1
             /\ persistentNonce'[Gov] = persistentNonce[Gov]
    <3>1. persistentNonce[Gov] = 0 /\ m + 1 = 0 + (m + 1)
      BY <2>1, <2>2, <2>6
    <3> QED
      BY <2>3, <2>6, <3>1 DEF ExecutionsAreCounted
  <2> QED
    BY <2>4, <2>5, <2>6
<1> QED
  BY <1>1, <1>6, <1>7 DEF GovernedInv

\* The calls of other accounts leave the nonces of Governance alone.
LEMMA OthersInv ==
  ASSUME GovernedInv, NEW a \in Account \ {Gov}, NEW n \in 0..MaxRegistryNonce,
         OwnerCall(a, n) \/ AdminCall(a, n)
  PROVE  /\ NoncesOK' /\ projects' \in Seq(Project)
         /\ persistentNonce'[Gov] = persistentNonce[Gov]
         /\ instanceNonce'[Gov] = instanceNonce[Gov]
<1>0. /\ Gov \in Account /\ {"Pending", "Approved", "Rejected", "Inactive"} \subseteq ProjectStatus
      /\ NoncesOK /\ projects \in Seq(Project)
  BY GovernedAssumption DEF ProjectStatus, GovernedInv
<1>1. CASE \E h \in Hash, m \in Methodology : register_project(a, h, m, n)
  <2> PICK h \in Hash, m \in Methodology : register_project(a, h, m, n)
    BY <1>1
  <2>1. [owner |-> a, metadata_ipfs_hash |-> h, status |-> "Pending", methodology |-> m] \in Project
    BY <1>0 DEF Project
  <2>2. projects' \in Seq(Project)
    BY <1>0, <2>1 DEF register_project
  <2> QED
    BY <1>0, <2>2 DEF register_project, use_persistent_nonce, NonceFits, NoncesOK
<1>2. CASE \E id \in DOMAIN projects, h \in Hash : resubmit_project(a, id, h, n)
  <2> PICK id \in DOMAIN projects, h \in Hash : resubmit_project(a, id, h, n)
    BY <1>2
  <2>1. [projects[id] EXCEPT !.status = "Pending", !.metadata_ipfs_hash = h] \in Project
    <3>1. projects[id] \in Project
      BY <1>0
    <3> QED
      BY <1>0, <3>1 DEF Project
  <2>2. projects' = [projects EXCEPT ![id] = [projects[id] EXCEPT !.status = "Pending",
                                                                  !.metadata_ipfs_hash = h]]
    BY <1>0 DEF resubmit_project
  <2>3. projects' \in Seq(Project)
    BY <1>0, <2>1, <2>2
  <2> QED
    BY <1>0, <2>3 DEF resubmit_project, use_persistent_nonce, NonceFits, NoncesOK
<1>3. CASE \E id \in DOMAIN projects :
             approve_project(a, id, n) \/ reject_project(a, id, n) \/ deactivate_project(a, id, n)
  <2> PICK id \in DOMAIN projects :
             approve_project(a, id, n) \/ reject_project(a, id, n) \/ deactivate_project(a, id, n)
    BY <1>3
  <2>1. PICK from, to \in ProjectStatus : Reviewed(a, id, from, to, n)
    BY <1>0 DEF approve_project, reject_project, deactivate_project
  <2>2. /\ NoncesOK' /\ projects' \in Seq(Project) /\ instanceNonce' = instanceNonce
        /\ persistentNonce' = [persistentNonce EXCEPT ![a] = n + 1]
    BY <1>0, <2>1, ReviewedStep
  <2> QED
    BY <1>0, <2>2 DEF NoncesOK
<1>4. CASE \E c \in Account : registry_set_admin(a, c, n)
  BY <1>0, <1>4 DEF registry_set_admin, NoncesOK
<1> QED
  BY <1>1, <1>2, <1>3, <1>4 DEF OwnerCall, AdminCall

\* Every step of the composition keeps the invariant.
LEMMA GovernedInvStep == GovernedInv /\ [GovernedNext]_governedVars => GovernedInv'
<1> SUFFICES ASSUME GovernedInv, [GovernedNext]_governedVars PROVE GovernedInv'
  OBVIOUS
<1>1. ASSUME [GovNext]_govVars, UNCHANGED <<registryVars, execNonce>> PROVE GovernedInv'
  BY <1>1, GovInvStep DEF GovernedInv, NoncesOK, ExecutionsAreCounted, registryVars
<1>2. ASSUME NEW a \in Caller, NEW n \in 0..MaxGovNonce, Deliberate(a, n), UNCHANGED registryVars
      PROVE  GovernedInv'
  <2>1. execNonce' = execNonce
    BY <1>2 DEF Deliberate, add_to_allow_list, remove_from_allow_list, propose,
                vote_approve, vote_veto, cancel
  <2> QED
    BY <1>1, <1>2, <2>1 DEF GovNext
<1>3. ASSUME NEW a \in Caller, NEW n \in 0..MaxGovNonce, NEW id \in DOMAIN proposals,
             Execute(a, id, n)
      PROVE  GovernedInv'
  BY <1>3, ExecuteInv
<1>4. ASSUME NEW a \in Account \ {Gov}, NEW n \in 0..MaxRegistryNonce,
             OwnerCall(a, n) \/ AdminCall(a, n), UNCHANGED govVars
      PROVE  GovernedInv'
  <2>1. GovInv'
    BY <1>4, GovInvStep DEF GovernedInv
  <2>2. execNonce' = execNonce
    BY <1>4 DEF govVars
  <2> QED
    BY <1>4, <2>1, <2>2, OthersInv DEF GovernedInv, ExecutionsAreCounted
<1>5. ASSUME NEW id \in ProjectId, NEW count, add_project_documents(id, count), UNCHANGED govVars
      PROVE  GovernedInv'
  <2>1. GovInv'
    BY <1>5, GovInvStep DEF GovernedInv
  <2>2. UNCHANGED <<execNonce, projects, instanceNonce, persistentNonce>>
    BY <1>5 DEF govVars, add_project_documents
  <2> QED
    BY <2>1, <2>2 DEF GovernedInv, ExecutionsAreCounted, NoncesOK
<1>6. CASE GovTick /\ UNCHANGED registryVars
  BY <1>1, <1>6 DEF GovTick, GovNext
<1>7. CASE UNCHANGED governedVars
  BY <1>1, <1>7 DEF governedVars, govVars
<1> QED
  BY <1>2, <1>3, <1>4, <1>5, <1>6, <1>7 DEF GovernedNext

\* The invariant of the composition, in every reachable state.
LEMMA GovernedInvariant == GovernedSpec => []GovernedInv
<1> QED
  BY GovernedInvInit, GovernedInvStep, PTL DEF GovernedSpec

\* Governance's execution nonce for the registry is the number of calls that
\* the registry has counted, and these are all reviews or all admin changes
\* (Governance.execute, ProjectRegistry.use_persistent_nonce and set_admin).
THEOREM ExecutionsCounted == GovernedSpec => []ExecutionsAreCounted
<1>1. GovernedInv => ExecutionsAreCounted
  BY DEF GovernedInv
<1> QED
  BY <1>1, GovernedInvariant, PTL
-----------------------------------------------------------------------------
\* An executed proposal was queued by a threshold of signers and is past its
\* timelock.
LEMMA ExecuteIsApproved ==
  ASSUME GovernedInv, NEW a \in Caller, NEW n \in 0..MaxGovNonce,
         NEW id \in DOMAIN proposals, Execute(a, id, n)
  PROVE  ExecutesNow(CallOn(proposals[id].call.method, proposals[id].call.arg))
<1> DEFINE call == proposals[id].call
<1>1. GovInv /\ proposals \in Seq(Proposal)
  BY DEF GovernedInv, GovInv, GovTypeOK
<1>2. call = CallOn(call.method, call.arg)
  <2>1. call \in Call /\ call.target = RegistryAddr
    BY <1>1, OnlyTarget
  <2>2. call = [target |-> call.target, method |-> call.method, arg |-> call.arg]
    BY <2>1, GovernedAssumption
  <2> QED
    BY <2>1, <2>2 DEF CallOn
<1>3. /\ proposals[id].status = "Queued" /\ clock >= proposals[id].queued_at + Timelock
      /\ proposals' = [proposals EXCEPT ![id] = ExecutedStatus(@)]
  BY DEF Execute, execute, IsExecutable
<1>4. proposals'[id].status = "Executed"
  <2>1. proposals[id] \in Proposal
    BY <1>1
  <2> QED
    BY <1>3, <2>1 DEF ExecutedStatus, Proposal
<1>5. Cardinality({s \in Signer : vote[id][s]}) >= Threshold
  <2>1. /\ proposals[id].approval_count = Cardinality(Approvers(id))
        /\ proposals[id].approval_count >= Threshold
    BY <1>1, <1>3, Counted
  <2> QED
    BY <2>1 DEF Approvers
<1> QED
  BY <1>2, <1>3, <1>4, <1>5 DEF ExecutesNow

\* What a step that ReviewsAreGoverned watches must come with.
Governed(id) ==
  /\ projects'[id].status = "Approved" => ExecutesNow(CallOn("approve_project", id))
  /\ projects'[id].status = "Rejected" => ExecutesNow(CallOn("reject_project", id))
  /\ projects'[id].status = "Inactive" => ExecutesNow(CallOn("deactivate_project", id))

GovernedStep ==
  /\ registryAdmin' # Gov => ExecutesNow(CallOn("set_admin", registryAdmin'))
  /\ \A id \in DOMAIN projects : projects'[id].status # projects[id].status => Governed(id)

\* Executing a proposal makes the change that was proposed, and no other.
LEMMA ExecuteIsGoverned ==
  ASSUME GovernedInv, registryAdmin = Gov, NEW a \in Caller, NEW n \in 0..MaxGovNonce,
         NEW id \in DOMAIN proposals, Execute(a, id, n)
  PROVE  GovernedStep
<1> DEFINE call == proposals[id].call
           m == execNonce[RegistryAddr]
<1>0. ExecutesNow(CallOn(call.method, call.arg))
  BY ExecuteIsApproved
<1>1. invoke_contract(call, m)
  BY DEF Execute
<1>2. NoncesOK /\ projects \in Seq(Project) /\ Gov \in Account
  BY GovernedAssumption DEF GovernedInv
<1> HIDE DEF call, m
<1>3. ASSUME NEW from, NEW to \in ProjectStatus, Reviewed(Gov, call.arg, from, to, m)
      PROVE  /\ registryAdmin' = Gov
             /\ \A p \in DOMAIN projects :
                  projects'[p].status # projects[p].status => p = call.arg /\ projects'[p].status = to
  <2>1. /\ registryAdmin' = registryAdmin
        /\ call.arg \in DOMAIN projects /\ projects' = [projects EXCEPT ![call.arg].status = to]
    BY <1>2, <1>3, ReviewedStep
  <2>2. \A p \in DOMAIN projects : p # call.arg => projects'[p] = projects[p]
    BY <1>2, <2>1
  <2>3. projects[call.arg] \in Project
    BY <1>2, <2>1
  <2>4. projects'[call.arg].status = to
    BY <1>2, <2>1, <2>3 DEF Project
  <2> QED
    BY <2>1, <2>2, <2>4
<1>4. CASE call.method = "approve_project" /\ approve_project(Gov, call.arg, m)
  BY <1>0, <1>3, <1>4 DEF approve_project, ProjectStatus, GovernedStep, Governed
<1>5. CASE call.method = "reject_project" /\ reject_project(Gov, call.arg, m)
  BY <1>0, <1>3, <1>5 DEF reject_project, ProjectStatus, GovernedStep, Governed
<1>6. CASE call.method = "deactivate_project" /\ deactivate_project(Gov, call.arg, m)
  BY <1>0, <1>3, <1>6 DEF deactivate_project, ProjectStatus, GovernedStep, Governed
<1>7. CASE call.method = "set_admin" /\ registry_set_admin(Gov, call.arg, m)
  BY <1>0, <1>7 DEF registry_set_admin, GovernedStep
<1> QED
  BY <1>1, <1>4, <1>5, <1>6, <1>7 DEF invoke_contract

\* While Governance is the admin the other accounts can neither review nor
\* hand over; owners only register projects and resubmit them.
LEMMA OthersAreGoverned ==
  ASSUME GovernedInv, registryAdmin = Gov, NEW a \in Account \ {Gov},
         NEW n \in 0..MaxRegistryNonce, OwnerCall(a, n) \/ AdminCall(a, n)
  PROVE  GovernedStep
<1>0. projects \in Seq(Project)
  BY DEF GovernedInv
<1>1. ~AdminCall(a, n)
  BY DEF AdminCall, approve_project, reject_project, deactivate_project, Reviewed,
         registry_set_admin
<1>2. CASE \E h \in Hash, m \in Methodology : register_project(a, h, m, n)
  <2>1. /\ registryAdmin' = registryAdmin
        /\ \A id \in DOMAIN projects : projects'[id] = projects[id]
    BY <1>0, <1>2 DEF register_project
  <2> QED
    BY <2>1 DEF GovernedStep
<1>3. CASE \E id \in DOMAIN projects, h \in Hash : resubmit_project(a, id, h, n)
  <2> PICK id \in DOMAIN projects, h \in Hash : resubmit_project(a, id, h, n)
    BY <1>3
  <2>1. /\ registryAdmin' = registryAdmin
        /\ projects' = [projects EXCEPT ![id] = [projects[id] EXCEPT !.status = "Pending",
                                                                     !.metadata_ipfs_hash = h]]
    BY <1>0 DEF resubmit_project
  <2>2. projects[id] \in Project
    BY <1>0
  <2>3. projects'[id].status = "Pending"
    BY <1>0, <2>1, <2>2 DEF Project
  <2>4. \A p \in DOMAIN projects : p # id => projects'[p] = projects[p]
    BY <1>0, <2>1
  <2> QED
    BY <2>1, <2>3, <2>4 DEF GovernedStep, Governed
<1> QED
  BY <1>1, <1>2, <1>3 DEF OwnerCall

\* While Governance is the admin every review and every change of admin is
\* the execution of a proposal for exactly that call, approved by a threshold
\* of signers and past its timelock (Governance.execute as the only caller
\* that ProjectRegistry accepts).
THEOREM ReviewsGoverned == GovernedSpec => ReviewsAreGoverned
<1> DEFINE Watched ==
      registryAdmin = Gov =>
        /\ registryAdmin' # Gov => ExecutesNow(CallOn("set_admin", registryAdmin'))
        /\ \A id \in DOMAIN projects : projects'[id].status # projects[id].status =>
             CASE projects'[id].status = "Approved" -> ExecutesNow(CallOn("approve_project", id))
               [] projects'[id].status = "Rejected" -> ExecutesNow(CallOn("reject_project", id))
               [] projects'[id].status = "Inactive" -> ExecutesNow(CallOn("deactivate_project", id))
               [] OTHER -> TRUE
<1>1. ASSUME GovernedStep PROVE Watched
  BY <1>1 DEF GovernedStep, Governed
<1>2. ASSUME GovernedInv, registryAdmin = Gov, GovernedNext PROVE GovernedStep
  <2>1. ASSUME UNCHANGED <<registryAdmin, projects>> PROVE GovernedStep
    BY <1>2, <2>1 DEF GovernedStep
  <2>2. ASSUME UNCHANGED registryVars PROVE GovernedStep
    BY <2>1, <2>2 DEF registryVars
  <2>3. ASSUME NEW id, NEW count, add_project_documents(id, count) PROVE GovernedStep
    BY <2>1, <2>3 DEF add_project_documents
  <2> QED
    BY <1>2, <2>2, <2>3, ExecuteIsGoverned, OthersAreGoverned DEF GovernedNext
<1>3. GovernedInv /\ [GovernedNext]_governedVars => [Watched]_governedVars
  BY <1>1, <1>2
<1> QED
  BY <1>3, GovernedInvariant, PTL DEF GovernedSpec, ReviewsAreGoverned
=============================================================================
