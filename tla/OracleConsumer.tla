--------------------------- MODULE OracleConsumer ---------------------------
(***************************************************************************)
(* The OracleConsumer contract (contracts/oracle-consumer/src/lib.rs):     *)
(* providers stake, submit measurement reports, and verify each other's    *)
(* reports; anyone may challenge a report, and the admin settles it.       *)
(*                                                                         *)
(* A report carries its challenge and its verifiers, which the contract    *)
(* stores under keys of their own.  The counters behind get_provider_stats *)
(* are functions of reports and slashes.  The methodology a provider is    *)
(* registered with is never read and is left out.                          *)
(***************************************************************************)
EXTENDS ContractHost

CONSTANTS
  ReportMethodology,         \* methodology symbols of reports
  Measurement,               \* what a provider may report
  Stake,                     \* amounts offered to the staking calls
  SignatureThreshold,        \* thresholds offered
  CHALLENGE_WINDOW_SECONDS,
  SLASH_PENALTY_PPM, PPM,    \* the penalty rate and its scale
  DEFAULT_SIGNATURE_THRESHOLD,
  DEFAULT_MIN_VERIFIER_STAKE,
  MaxReports,                \* bound: reports
  MaxOracleNonce             \* bound: calls per address

\* Biodiversity metrics are absent ({}) or one (habitat, species, units).
ASSUME OracleAssumption ==
  /\ Measurement \subseteq
       [period_start : Nat, period_end : Nat, carbon_sequestered : I128,
        biodiversity : SUBSET (I128 \X I128 \X I128)]
  /\ Stake \subseteq I128 /\ SignatureThreshold \subseteq Nat
  /\ CHALLENGE_WINDOW_SECONDS \in Nat
  /\ SLASH_PENALTY_PPM \in Nat /\ PPM \in Nat \ {0}
  /\ DEFAULT_SIGNATURE_THRESHOLD \in Nat /\ DEFAULT_MIN_VERIFIER_STAKE \in Nat
  /\ MaxReports \in Nat /\ MaxOracleNonce \in Nat

VARIABLES
  oracleAdmin,        \* DataKey::Admin
  oracleNonce,        \* DataKey::Nonce(address)
  provider,           \* DataKey::Provider(address)
  reports,            \* DataKey::Report(id), id \in 1..ReportCount
  slashes,            \* DataKey::SlashHistory(address)
  signatureThreshold, \* DataKey::SignatureThreshold
  minVerifierStake    \* DataKey::MinimumVerifierStake

oracleVars == <<oracleAdmin, oracleNonce, provider, reports, slashes,
                signatureThreshold, minVerifierStake>>

Provider == [registered : BOOLEAN, active : BOOLEAN, stake : Nat]

Report == [provider : Address, project_id : Project, methodology : ReportMethodology,
           data : Measurement, status : ReportStatus, submitted_at : Nat, verified_at : Nat,
           provider_stake_at_verification : Nat,
           verifiers : SUBSET Address, verification_count : Nat,
           challenge : {"none", "open", "resolved"}]

SlashRecord == [report_id : Nat, penalty : Nat, remaining_stake : Nat]

\* Types of the oracle's storage; a stake is never negative.
OracleTypeOK ==
  /\ now \in Nat
  /\ oracleAdmin \in Address
  /\ oracleNonce \in [Address -> Nat]
  /\ provider \in [Address -> Provider]
  /\ reports \in Seq(Report)
  /\ slashes \in [Address -> Seq(SlashRecord)]
  /\ signatureThreshold \in Nat
  /\ minVerifierStake \in Nat

OracleInit ==
  /\ oracleAdmin \in Address
  /\ oracleNonce = [a \in Address |-> 0]
  /\ provider = [a \in Address |-> [registered |-> FALSE, active |-> FALSE, stake |-> 0]]
  /\ reports = << >>
  /\ slashes = [a \in Address |-> << >>]
  /\ signatureThreshold = DEFAULT_SIGNATURE_THRESHOLD
  /\ minVerifierStake = DEFAULT_MIN_VERIFIER_STAKE
-----------------------------------------------------------------------------
oracle_use_nonce(addr, n) ==
  /\ n = oracleNonce[addr]
  /\ n < MaxOracleNonce
  /\ oracleNonce' = [oracleNonce EXCEPT ![addr] = n + 1]

oracle_set_admin(current_admin, new_admin) ==
  /\ current_admin = oracleAdmin
  /\ oracleAdmin' = new_admin
  /\ UNCHANGED <<now, oracleNonce, provider, reports, slashes, signatureThreshold, minVerifierStake>>

register_provider(caller, p, n) ==
  /\ oracle_use_nonce(caller, n)
  /\ caller = oracleAdmin
  /\ ~provider[p].registered
  /\ provider' = [provider EXCEPT ![p] = [registered |-> TRUE, active |-> TRUE, stake |-> 0]]
  /\ UNCHANGED <<now, oracleAdmin, reports, slashes, signatureThreshold, minVerifierStake>>

remove_provider(caller, p, n) ==
  /\ oracle_use_nonce(caller, n)
  /\ caller = oracleAdmin
  /\ provider[p].registered
  /\ provider' = [provider EXCEPT ![p].active = FALSE]
  /\ UNCHANGED <<now, oracleAdmin, reports, slashes, signatureThreshold, minVerifierStake>>

set_signature_threshold(caller, threshold, n) ==
  /\ oracle_use_nonce(caller, n)
  /\ caller = oracleAdmin
  /\ signatureThreshold' = threshold
  /\ UNCHANGED <<now, oracleAdmin, provider, reports, slashes, minVerifierStake>>

set_minimum_verifier_stake(caller, stake, n) ==
  /\ oracle_use_nonce(caller, n)
  /\ caller = oracleAdmin
  /\ stake >= 0
  /\ minVerifierStake' = stake
  /\ UNCHANGED <<now, oracleAdmin, provider, reports, slashes, signatureThreshold>>

add_stake(p, amount, n) ==
  /\ oracle_use_nonce(p, n)
  /\ amount > 0
  /\ provider[p].registered
  /\ provider[p].stake + amount <= I128Max
  /\ provider' = [provider EXCEPT ![p].stake = @ + amount]
  /\ UNCHANGED <<now, oracleAdmin, reports, slashes, signatureThreshold, minVerifierStake>>

HasStake(p, amount) == provider[p].stake >= amount

\* An inactive provider, and one whose report is disputed, may withdraw too.
withdraw_stake(p, amount, n) ==
  /\ oracle_use_nonce(p, n)
  /\ amount > 0
  /\ provider[p].registered
  /\ HasStake(p, amount)
  /\ provider' = [provider EXCEPT ![p].stake = @ - amount]
  /\ UNCHANGED <<now, oracleAdmin, reports, slashes, signatureThreshold, minVerifierStake>>
-----------------------------------------------------------------------------
ValidMeasurement(data) ==
  /\ data.period_end > data.period_start
  /\ data.carbon_sequestered >= 0
  /\ \A m \in data.biodiversity : m[1] >= 0 /\ m[2] >= 0 /\ m[3] >= 0

PeriodsOverlap_SharedEnd(a, b) ==
  a.period_start < b.period_start /\ b.period_start < a.period_end

\* Reporting windows are half-open.
PeriodsOverlap(a, b) == a.period_start < b.period_end /\ b.period_start < a.period_end

SameSource(report, p, project_id, methodology) ==
  report.provider = p /\ report.project_id = project_id /\ report.methodology = methodology

MayReport(p) == provider[p].registered /\ provider[p].active

submit_report(p, project_id, methodology, data, n) ==
  /\ oracle_use_nonce(p, n)
  /\ MayReport(p)
  /\ ValidMeasurement(data)
  /\ \A id \in DOMAIN reports :
       ~ (SameSource(reports[id], p, project_id, methodology) /\ PeriodsOverlap(data, reports[id].data))
  /\ Len(reports) < MaxReports
  /\ reports' = Append(reports,
       [provider |-> p, project_id |-> project_id, methodology |-> methodology, data |-> data,
        status |-> "Pending", submitted_at |-> now, verified_at |-> 0,
        provider_stake_at_verification |-> 0, verifiers |-> {}, verification_count |-> 0,
        challenge |-> "none"])
  /\ UNCHANGED <<now, oracleAdmin, provider, slashes, signatureThreshold, minVerifierStake>>

\* May verify reports at this moment: the admin, or a staked active provider.
Qualifies(v) ==
  \/ v = oracleAdmin
  \/ provider[v].registered /\ provider[v].active /\ provider[v].stake >= minVerifierStake

qualifying_verifier_count_Recorded(verifiers) == Cardinality(verifiers)

\* Earlier verifiers are counted only if they still qualify.
qualifying_verifier_count(verifiers) == Cardinality({v \in verifiers : Qualifies(v)})

\* The report with the caller's signature, verified if that completes the
\* threshold.
Countersigned(report, caller) ==
  LET verifiers == report.verifiers \cup {caller}
      count     == qualifying_verifier_count(verifiers)
      signed    == [report EXCEPT !.verifiers = verifiers,
                      !.verification_count = IF caller \in report.verifiers THEN @ ELSE count]
  IN  IF count >= signatureThreshold
      THEN [signed EXCEPT !.status = "Verified", !.verified_at = now,
              !.provider_stake_at_verification = provider[report.provider].stake]
      ELSE signed

verify_report(caller, id, n) ==
  /\ oracle_use_nonce(caller, n)
  /\ id \in DOMAIN reports
  /\ reports[id].status = "Pending"
  /\ reports[id].challenge = "none"
  /\ caller # reports[id].provider
  /\ Qualifies(caller)
  /\ reports' = [reports EXCEPT ![id] = Countersigned(@, caller)]
  /\ UNCHANGED <<now, oracleAdmin, provider, slashes, signatureThreshold, minVerifierStake>>

\* The window runs from the verification of a verified report, otherwise from
\* the submission.
InChallengeWindow(report) ==
  LET reference_time == IF report.status = "Verified" THEN report.verified_at
                        ELSE report.submitted_at
  IN  now - reference_time <= CHALLENGE_WINDOW_SECONDS

challenge_report(challenger, id, n) ==
  /\ oracle_use_nonce(challenger, n)
  /\ id \in DOMAIN reports
  /\ reports[id].status \in {"Pending", "Verified"}
  /\ InChallengeWindow(reports[id])
  /\ reports[id].challenge = "none"
  /\ reports' = [reports EXCEPT ![id].challenge = "open", ![id].status = "Challenged"]
  /\ UNCHANGED <<now, oracleAdmin, provider, slashes, signatureThreshold, minVerifierStake>>

\* The release build does not check the multiplication: it wraps.
Wrapped(x) == ((x + I128Max + 1) % (2 * (I128Max + 1))) - (I128Max + 1)

\* A penalty that rounds to nothing, or wraps below it, takes the whole stake.
penalty(stake) ==
  LET product == Wrapped(stake * SLASH_PENALTY_PPM)
      share   == product \div PPM
  IN  IF product < PPM \/ share > stake THEN stake ELSE share

slash_provider(p, id) ==
  LET remaining == provider[p].stake - penalty(provider[p].stake)
  IN  /\ provider' = [provider EXCEPT ![p].stake = remaining,
                                      ![p].active = @ /\ remaining # 0]
      /\ slashes' = [slashes EXCEPT ![p] =
           Append(@, [report_id |-> id, penalty |-> penalty(provider[p].stake),
                      remaining_stake |-> remaining])]

IsResolved_Forgotten(id) == FALSE

IsResolved(id) == reports[id].challenge = "resolved"

\* Resolving a settled challenge again succeeds and changes nothing.
resolve_challenge(caller, id, resolution, n) ==
  /\ oracle_use_nonce(caller, n)
  /\ caller = oracleAdmin
  /\ resolution \in {"Verified", "Rejected"}
  /\ id \in DOMAIN reports
  /\ reports[id].challenge # "none"
  /\ IF IsResolved(id)
     THEN UNCHANGED <<provider, reports, slashes>>
     ELSE /\ reports' = [reports EXCEPT ![id].challenge = "resolved", ![id].status = resolution]
          /\ IF resolution = "Rejected"
             THEN slash_provider(reports[id].provider, id)
             ELSE UNCHANGED <<provider, slashes>>
  /\ UNCHANGED <<now, oracleAdmin, signatureThreshold, minVerifierStake>>
-----------------------------------------------------------------------------
\* The calls of this contract that an account can make.
OracleCall(a, n) ==
  \/ \E p \in Address : register_provider(a, p, n) \/ remove_provider(a, p, n)
  \/ \E t \in SignatureThreshold : set_signature_threshold(a, t, n)
  \/ \E s \in Stake :
       set_minimum_verifier_stake(a, s, n) \/ add_stake(a, s, n) \/ withdraw_stake(a, s, n)
  \/ \E key \in Project, m \in ReportMethodology, data \in Measurement :
       submit_report(a, key, m, data, n)
  \/ \E id \in DOMAIN reports :
       \/ verify_report(a, id, n)
       \/ challenge_report(a, id, n)
       \/ \E r \in ReportStatus : resolve_challenge(a, id, r, n)

OracleNext ==
  \/ \E a \in Address, n \in 0..MaxOracleNonce : OracleCall(a, n)
  \/ \E a, c \in Address : oracle_set_admin(a, c)
  \/ LedgerCloses /\ UNCHANGED oracleVars

OracleStart == now = 0 /\ OracleInit
OracleSpec == OracleStart /\ [][OracleNext]_<<now, oracleVars>>
-----------------------------------------------------------------------------
(***************************************************************************)
(* Properties                                                              *)
(***************************************************************************)
\* One source never counts the same stretch of time twice: two reports of a
\* provider on a project with one methodology cover disjoint moments.
ReportsNeverOverlap ==
  \A i, j \in DOMAIN reports :
    (i # j /\ SameSource(reports[i], reports[j].provider, reports[j].project_id,
                         reports[j].methodology)) =>
      LET moments(r) == r.data.period_start .. r.data.period_end - 1
      IN  moments(reports[i]) \cap moments(reports[j]) = {}

\* A report that no dispute settled becomes verified only while a threshold
\* of verifiers other than its provider stands behind it and still holds the
\* stake, whatever was withdrawn, slashed or reconfigured since they signed.
VerifiedByQuorum ==
  [][\A id \in DOMAIN reports :
       reports[id].status = "Pending" /\ reports'[id].status = "Verified" =>
         Cardinality({v \in reports'[id].verifiers \ {reports[id].provider} : Qualifies(v)})
           >= signatureThreshold]_<<now, oracleVars>>

\* A provider is slashed once for every report that was rejected and for no
\* other, however often the admin resolves the challenge.
SlashedOncePerRejection ==
  \A p \in Address :
    /\ \A i, j \in DOMAIN slashes[p] : i # j => slashes[p][i].report_id # slashes[p][j].report_id
    /\ {slashes[p][i].report_id : i \in DOMAIN slashes[p]} =
         {id \in DOMAIN reports : reports[id].provider = p /\ reports[id].status = "Rejected"}
=============================================================================
