-------------------------- MODULE ProjectRegistry --------------------------
(***************************************************************************)
(* The ProjectRegistry contract (contracts/project-registry/src/lib.rs):   *)
(* registration and review of the projects that back bonds.                *)
(*                                                                         *)
(* The contract keeps two nonces per address: set_admin uses one in        *)
(* instance storage, every other call one in persistent storage.           *)
(* OwnerProjects is an index of projects.                                  *)
(***************************************************************************)
EXTENDS SharedTypes, Sequences

CONSTANTS
  Account,           \* accounts and contracts that can authorise a call
  Hash,              \* metadata hashes
  ZeroHash,          \* the all-zero hash
  MAX_DOCUMENTS,
  MaxProjects,       \* bound: projects registered
  MaxRegistryNonce   \* bound: calls per address

ASSUME RegistryAssumption ==
  /\ ZeroHash \in Hash
  /\ MAX_DOCUMENTS \in Nat /\ MaxProjects \in Nat /\ MaxRegistryNonce \in Nat

VARIABLES
  registryAdmin,     \* DataKey::Admin
  projects,          \* DataKey::Project(id), id \in 1..ProjectCount
  documents,         \* DataKey::ProjectDocuments(id): how many
  instanceNonce,     \* DataKey::Nonce(address) in instance storage
  persistentNonce    \* DataKey::Nonce(address) in persistent storage

registryVars == <<registryAdmin, projects, documents, instanceNonce, persistentNonce>>

ProjectId == 1..MaxProjects

Project == [owner : Account, metadata_ipfs_hash : Hash, status : ProjectStatus,
            methodology : Methodology]

RegistryInit ==
  /\ registryAdmin \in Account
  /\ projects = << >>
  /\ documents = [id \in ProjectId |-> 0]
  /\ instanceNonce = [a \in Account |-> 0]
  /\ persistentNonce = [a \in Account |-> 0]
-----------------------------------------------------------------------------

\* The nonce passed must be the stored one.
NonceFits(caller, n) == n = persistentNonce[caller]

use_persistent_nonce(caller, n) ==
  /\ NonceFits(caller, n)
  /\ n < MaxRegistryNonce
  /\ persistentNonce' = [persistentNonce EXCEPT ![caller] = n + 1]

IsRegistered(id) == id \in DOMAIN projects

register_project(caller, hash, methodology, n) ==
  /\ use_persistent_nonce(caller, n)
  /\ hash # ZeroHash
  /\ Len(projects) < MaxProjects
  /\ projects' = Append(projects, [owner |-> caller, metadata_ipfs_hash |-> hash,
                                   status |-> "Pending", methodology |-> methodology])
  /\ UNCHANGED <<registryAdmin, documents, instanceNonce>>

\* The shape shared by the three reviews of the admin.
Reviewed(caller, id, from, to, n) ==
  /\ use_persistent_nonce(caller, n)
  /\ caller = registryAdmin
  /\ IsRegistered(id)
  /\ projects[id].status = from
  /\ projects' = [projects EXCEPT ![id].status = to]
  /\ UNCHANGED <<registryAdmin, documents, instanceNonce>>

approve_project(caller, id, n) == Reviewed(caller, id, "Pending", "Approved", n)

reject_project(caller, id, n) == Reviewed(caller, id, "Pending", "Rejected", n)

deactivate_project(caller, id, n) == Reviewed(caller, id, "Approved", "Inactive", n)

CanResubmit(project, caller) == project.owner = caller /\ project.status = "Rejected"

\* The new hash is not checked.
resubmit_project(caller, id, hash, n) ==
  /\ use_persistent_nonce(caller, n)
  /\ IsRegistered(id)
  /\ CanResubmit(projects[id], caller)
  /\ projects' = [projects EXCEPT ![id].status = "Pending", ![id].metadata_ipfs_hash = hash]
  /\ UNCHANGED <<registryAdmin, documents, instanceNonce>>

FitsDocuments(count) == count <= MAX_DOCUMENTS

\* Anyone may replace the documents of any id, registered or not.
add_project_documents(id, count) ==
  /\ FitsDocuments(count)
  /\ documents' = [documents EXCEPT ![id] = count]
  /\ UNCHANGED <<registryAdmin, projects, instanceNonce, persistentNonce>>

registry_set_admin(current_admin, new_admin, n) ==
  /\ n = instanceNonce[current_admin]
  /\ n < MaxRegistryNonce
  /\ instanceNonce' = [instanceNonce EXCEPT ![current_admin] = n + 1]
  /\ current_admin = registryAdmin
  /\ registryAdmin' = new_admin
  /\ UNCHANGED <<projects, documents, persistentNonce>>
-----------------------------------------------------------------------------
\* The calls that owners make.
OwnerCall(a, n) ==
  \/ \E h \in Hash, m \in Methodology : register_project(a, h, m, n)
  \/ \E id \in DOMAIN projects, h \in Hash : resubmit_project(a, id, h, n)

AdminCall(a, n) ==
  \/ \E id \in DOMAIN projects :
       approve_project(a, id, n) \/ reject_project(a, id, n) \/ deactivate_project(a, id, n)
  \/ \E c \in Account : registry_set_admin(a, c, n)

RegistryNext ==
  \/ \E a \in Account, n \in 0..MaxRegistryNonce : OwnerCall(a, n) \/ AdminCall(a, n)
  \/ \E id \in ProjectId, count \in 0..MAX_DOCUMENTS + 1 : add_project_documents(id, count)

RegistrySpec == RegistryInit /\ [][RegistryNext]_registryVars
-----------------------------------------------------------------------------
=============================================================================
