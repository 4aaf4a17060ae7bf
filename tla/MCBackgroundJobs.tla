-------------------------- MODULE MCBackgroundJobs --------------------------
(* Small instances of the scheduled jobs, OrderSweep, Reconciliation and     *)
(* OracleIncidents, one of which runs.                                       *)
EXTENDS OrderSweep, Reconciliation, OracleIncidents, TLC

CONSTANTS A1, A2, P1, USDC, R1, R2, p1, v1

MCAddress == {A1, A2}
MCAmount == {1}
MCPrice == {1}
MCLifetime == {1}
MCLimit == {1}
MCRegistry == {[status |-> "Approved", methodology |-> "other"]}
MCConfigs == {[project_id |-> P1, face_value |-> 1, coupon_schedule |-> {0},
               credit_type |-> "Carbon", maturity_date |-> 9, total_supply |-> 2]}

\* The job starts on a tranche that A2, the admin, issued and A1 bought up.
BookInit ==
  /\ now = 0 /\ project \in [Project -> Registry]
  /\ admin = A2 /\ registryLinked = FALSE
  /\ bondCount = 1 /\ bondConfig = <<CHOOSE c \in MCConfigs : TRUE>>
  /\ status = <<"Active">> /\ totalSubscribed = <<2>>
  /\ holderBalance = <<(A1 :> 2) @@ (A2 :> 0)>>
  /\ redemptionPool = <<0>> /\ nonce = [a \in Address |-> 1]
  /\ DexInit /\ dexAdmin = A2
  /\ SweepInit

MCReportsBy == [p \in Watched |-> "iot"]
MCRaw == <<[occurrences |-> 2, severity |-> "urgent"]>>

VARIABLE part

jobVars == <<part, allVars, reconVars, incidentVars>>

JobsInit ==
  /\ part \in {"sweep", "recon", "incidents"} /\ BookInit /\ ReconInit /\ IncidentInit
  /\ part # "recon" => \A o \in TradeId : book[o] = "Open"

In(running, others) == part = running /\ UNCHANGED <<part, others>>

JobsNext ==
  \/ In("sweep", <<reconVars, incidentVars>>) /\ SweepNext
  \/ In("recon", <<allVars, incidentVars>>) /\ ReconNext
  \/ In("incidents", <<allVars, reconVars>>) /\ IncidentNext

\* A job that is due runs: every process of the sweep, the reconciliation, and
\* a replica of the monitor.
JobsFairness ==
  /\ \A r \in Runner : WF_jobVars(In("sweep", <<reconVars, incidentVars>>) /\ JobStep(r))
  /\ WF_jobVars(In("recon", <<allVars, incidentVars>>) /\ ReconJob)
  /\ WF_jobVars(In("incidents", <<allVars, reconVars>>) /\ (\E r \in Replica : MonitorStep(r)))

JobsSpec == JobsInit /\ [][JobsNext]_jobVars /\ JobsFairness
=============================================================================
