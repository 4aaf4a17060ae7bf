-------------------------- MODULE GovernedRegistry --------------------------
(***************************************************************************)
(* Governance as the admin of the ProjectRegistry: the deployment scripts  *)
(* give the registry the Governance contract as its admin, so that every   *)
(* review and every admin change is a proposal.                            *)
(*                                                                         *)
(* Governance.execute calls the target with its own address, the proposed  *)
(* arguments and its execution nonce for that target; the registry refuses *)
(* the call, and with it the execution, unless that number is the nonce it *)
(* stores for the method at hand.                                          *)
(***************************************************************************)
EXTENDS Governance, ProjectRegistry

CONSTANTS
  Gov,          \* address of the Governance contract
  RegistryAddr  \* address of the ProjectRegistry contract

ASSUME GovernedAssumption ==
  /\ Gov \in Account \ Caller
  /\ Target = {RegistryAddr}
  /\ \A c \in Call : c = [target |-> c.target, method |-> c.method, arg |-> c.arg]

governedVars == <<govVars, registryVars>>

GovernedInit == GovInit /\ RegistryInit /\ registryAdmin = Gov

\* The call that Governance makes on the registry.
invoke_contract_ErrorIgnored(call, n) == UNCHANGED registryVars

invoke_contract(call, n) ==
  \/ call.method = "approve_project" /\ approve_project(Gov, call.arg, n)
  \/ call.method = "reject_project" /\ reject_project(Gov, call.arg, n)
  \/ call.method = "deactivate_project" /\ deactivate_project(Gov, call.arg, n)
  \/ call.method = "set_admin" /\ registry_set_admin(Gov, call.arg, n)

Execute(a, id, n) ==
  /\ execute(a, id, n)
  /\ invoke_contract(proposals[id].call, execNonce[RegistryAddr])

GovernedNext ==
  \/ \E a \in Caller, n \in 0..MaxGovNonce :
       \/ Deliberate(a, n) /\ UNCHANGED registryVars
       \/ \E id \in DOMAIN proposals : Execute(a, id, n)
  \/ \E a \in Account \ {Gov}, n \in 0..MaxRegistryNonce :
       (OwnerCall(a, n) \/ AdminCall(a, n)) /\ UNCHANGED govVars
  \/ \E id \in ProjectId, count \in 0..MAX_DOCUMENTS + 1 :
       add_project_documents(id, count) /\ UNCHANGED govVars
  \/ GovTick /\ UNCHANGED registryVars

GovernedSpec == GovernedInit /\ [][GovernedNext]_governedVars
-----------------------------------------------------------------------------
\* The proposal that carries a call, at the moment it is executed.
ExecutesNow(call) ==
  \E id \in DOMAIN proposals :
    /\ proposals[id].call = call
    /\ proposals[id].status = "Queued" /\ proposals'[id].status = "Executed"
    /\ clock >= proposals[id].queued_at + Timelock
    /\ Cardinality({s \in Signer : vote[id][s]}) >= Threshold

CallOn(method, arg) == [target |-> RegistryAddr, method |-> method, arg |-> arg]

\* While Governance is the admin, nobody reviews a project or replaces the
\* admin except by executing a proposal for exactly that call, approved by a
\* threshold of signers and past its timelock.
ReviewsAreGoverned ==
  [][registryAdmin = Gov =>
       /\ registryAdmin' # Gov => ExecutesNow(CallOn("set_admin", registryAdmin'))
       /\ \A id \in DOMAIN projects : projects'[id].status # projects[id].status =>
            CASE projects'[id].status = "Approved" -> ExecutesNow(CallOn("approve_project", id))
              [] projects'[id].status = "Rejected" -> ExecutesNow(CallOn("reject_project", id))
              [] projects'[id].status = "Inactive" -> ExecutesNow(CallOn("deactivate_project", id))
              [] OTHER -> TRUE]_governedVars

\* Governance keeps one execution nonce per target, the registry two nonces
\* per caller.  The calls executed are those the two have counted, and they
\* are all reviews or all admin changes: after one of either kind Governance's
\* number fits no call of the other any more, even if the registry is handed
\* back to it.
ExecutionsAreCounted ==
  /\ execNonce[RegistryAddr] = persistentNonce[Gov] + instanceNonce[Gov]
  /\ persistentNonce[Gov] = 0 \/ instanceNonce[Gov] = 0
=============================================================================
