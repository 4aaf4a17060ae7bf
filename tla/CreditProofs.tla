---------------------------- MODULE CreditProofs ----------------------------
(***************************************************************************)
(* Proofs about the way from a report to a retired credit: the oracle      *)
(* contract by itself, for every set of accounts and projects, every       *)
(* measurement, stake, threshold, penalty and window; then the coupon      *)
(* engine and the retirement contract, composed with the issuer and the    *)
(* oracle, for every number of accounts, tranches, reports, periods and    *)
(* holder lists, and for every rate and amount; at last the API's report   *)
(* service in front of the oracle, for any requests, submissions and       *)
(* failures, and any time to live of its lists.                            *)
(***************************************************************************)
EXTENDS CreditRetirement, OracleReports, BondProofs, FiniteSetTheorems, TLAPS

(***************************************************************************)
(* What the properties need to be inductive: the verifiers of a report are *)
(* finitely many and its provider is not one of them; a report that is     *)
(* still pending has never been challenged, so no resolution verifies it;  *)
(* and a rejected one has its challenge resolved, so that it is not        *)
(* rejected, and slashed for, again.                                       *)
(***************************************************************************)
Sound(r) ==
  /\ IsFiniteSet(r.verifiers) /\ r.provider \notin r.verifiers
  /\ r.status = "Pending" => r.challenge = "none"
  /\ r.status = "Rejected" => r.challenge = "resolved"

AllSound == \A id \in DOMAIN reports : Sound(reports[id])

OracleInv == OracleTypeOK /\ AllSound /\ ReportsNeverOverlap /\ SlashedOncePerRejection

\* What is offered to the calls are numbers.
LEMMA OfferTypes ==
  /\ Stake \subseteq Int /\ SignatureThreshold \subseteq Nat /\ I128Max \in Nat \ {0}
  /\ \A d \in Measurement : d.period_start \in Nat /\ d.period_end \in Nat
<1> QED
  BY OracleAssumption, I128Assumption DEF I128

\* slash_provider never takes more than there is, also when the product wraps.
LEMMA PenaltyFits ==
  ASSUME NEW stake \in Nat
  PROVE  penalty(stake) \in Nat /\ penalty(stake) <= stake
<1> DEFINE product == Wrapped(stake * SLASH_PENALTY_PPM)
           share == product \div PPM
<1>1. stake * SLASH_PENALTY_PPM \in Int
  BY OracleAssumption
<1>2. product \in Int
  <2> DEFINE x == stake * SLASH_PENALTY_PPM + I128Max + 1
             w == 2 * (I128Max + 1)
  <2>1. x \in Int /\ w \in Nat \ {0}
    BY <1>1, OfferTypes
  <2> HIDE DEF x, w
  <2>2. x % w \in Int
    BY <2>1
  <2> QED
    BY <2>2, OfferTypes DEF Wrapped, x, w
<1> HIDE DEF product
<1>3. share \in Int /\ (product >= PPM => share >= 0)
  BY <1>2, OracleAssumption
<1>4. penalty(stake) = IF product < PPM \/ share > stake THEN stake ELSE share
  BY DEF penalty, product
<1> HIDE DEF share
<1> QED
  BY <1>2, <1>3, <1>4, OracleAssumption

\* The state in which the contract is deployed.
LEMMA OracleInvInit == OracleStart => OracleInv
<1> SUFFICES ASSUME OracleStart PROVE OracleInv
  OBVIOUS
<1>1. OracleTypeOK
  BY OracleAssumption DEF OracleStart, OracleInit, OracleTypeOK, Provider
<1>2. AllSound /\ ReportsNeverOverlap
  BY DEF OracleStart, OracleInit, AllSound, ReportsNeverOverlap
<1>3. SlashedOncePerRejection
  BY DEF OracleStart, OracleInit, SlashedOncePerRejection
<1> QED
  BY <1>1, <1>2, <1>3 DEF OracleInv

\* Calls about providers and settings leave the reports and slashes alone.
LEMMA ReportsUntouched ==
  ASSUME OracleInv, OracleTypeOK', UNCHANGED <<reports, slashes>>
  PROVE  OracleInv'
<1>1. AllSound' /\ ReportsNeverOverlap'
  BY DEF OracleInv, AllSound, ReportsNeverOverlap
<1>2. SlashedOncePerRejection'
  BY DEF OracleInv, SlashedOncePerRejection
<1> QED
  BY <1>1, <1>2 DEF OracleInv

\* Using a nonce keeps the nonces numbers.
LEMMA NonceType ==
  ASSUME OracleTypeOK, NEW a \in Address, NEW n \in 0..MaxOracleNonce, oracle_use_nonce(a, n)
  PROVE  oracleNonce' \in [Address -> Nat]
<1> QED
  BY OracleAssumption DEF OracleTypeOK, oracle_use_nonce

\* Admin and provider calls, and the passing of time.
LEMMA SettingsInv ==
  ASSUME OracleInv,
         \/ \E a, c \in Address : oracle_set_admin(a, c)
         \/ LedgerCloses /\ UNCHANGED oracleVars
         \/ \E a, p \in Address, n \in 0..MaxOracleNonce :
              register_provider(a, p, n) \/ remove_provider(a, p, n)
         \/ \E a \in Address, t \in SignatureThreshold, n \in 0..MaxOracleNonce :
              set_signature_threshold(a, t, n)
  PROVE  OracleInv'
<1>1. UNCHANGED <<reports, slashes>>
  BY DEF oracle_set_admin, LedgerCloses, oracleVars, register_provider, remove_provider,
         set_signature_threshold
<1>2. OracleTypeOK'
  <2> OracleTypeOK
    BY DEF OracleInv
  <2>1. CASE \E a, c \in Address : oracle_set_admin(a, c)
    BY <2>1 DEF OracleTypeOK, oracle_set_admin
  <2>2. CASE LedgerCloses /\ UNCHANGED oracleVars
    BY <2>2 DEF OracleTypeOK, LedgerCloses, oracleVars
  <2>3. ASSUME NEW a \in Address, NEW p \in Address, NEW n \in 0..MaxOracleNonce,
               register_provider(a, p, n) \/ remove_provider(a, p, n)
        PROVE  OracleTypeOK'
    <3>1. oracleNonce' \in [Address -> Nat]
      BY <2>3, NonceType DEF register_provider, remove_provider
    <3>2. provider' \in [Address -> Provider]
      <4>1. [registered |-> TRUE, active |-> TRUE, stake |-> 0] \in Provider
        BY DEF Provider
      <4>2. [provider[p] EXCEPT !.active = FALSE] \in Provider
        BY DEF OracleTypeOK, Provider
      <4>3. CASE register_provider(a, p, n)
        BY <4>1, <4>3 DEF register_provider, OracleTypeOK
      <4>4. CASE remove_provider(a, p, n)
        BY <4>2, <4>4 DEF remove_provider, OracleTypeOK
      <4> QED
        BY <2>3, <4>3, <4>4
    <3> QED
      BY <2>3, <3>1, <3>2 DEF register_provider, remove_provider, OracleTypeOK
  <2>4. ASSUME NEW a \in Address, NEW t \in SignatureThreshold, NEW n \in 0..MaxOracleNonce,
               set_signature_threshold(a, t, n)
        PROVE  OracleTypeOK'
    BY <2>4, NonceType, OfferTypes DEF set_signature_threshold, OracleTypeOK
  <2> QED
    BY <2>1, <2>2, <2>3, <2>4
<1> QED
  BY <1>1, <1>2, ReportsUntouched

\* Calls that move stakes.
LEMMA StakingInv ==
  ASSUME OracleInv, NEW a \in Address, NEW s \in Stake, NEW n \in 0..MaxOracleNonce,
         set_minimum_verifier_stake(a, s, n) \/ add_stake(a, s, n) \/ withdraw_stake(a, s, n)
  PROVE  OracleInv'
<1>1. UNCHANGED <<reports, slashes>>
  BY DEF set_minimum_verifier_stake, add_stake, withdraw_stake
<1>2. OracleTypeOK'
  <2> OracleTypeOK
    BY DEF OracleInv
  <2>1. oracleNonce' \in [Address -> Nat]
    BY NonceType DEF set_minimum_verifier_stake, add_stake, withdraw_stake
  <2>2. CASE set_minimum_verifier_stake(a, s, n)
    <3>1. minVerifierStake' \in Nat
      BY <2>2, OfferTypes DEF set_minimum_verifier_stake
    <3> QED
      BY <2>1, <2>2, <3>1 DEF set_minimum_verifier_stake, OracleTypeOK
  <2>3. CASE add_stake(a, s, n) \/ withdraw_stake(a, s, n)
    <3>1. provider[a] \in Provider /\ s \in Int /\ provider[a].stake \in Nat
      BY OfferTypes DEF OracleTypeOK, Provider
    <3>2. PICK rest \in Nat : provider' = [provider EXCEPT ![a].stake = rest]
      BY <2>3, <3>1 DEF add_stake, withdraw_stake, HasStake
    <3>3. [provider[a] EXCEPT !.stake = rest] \in Provider
      BY <3>1, <3>2 DEF Provider
    <3>4. provider' \in [Address -> Provider]
      BY <3>2, <3>3 DEF OracleTypeOK
    <3> QED
      BY <2>1, <2>3, <3>4 DEF add_stake, withdraw_stake, OracleTypeOK
  <2> QED
    BY <2>2, <2>3
<1> QED
  BY <1>1, <1>2, ReportsUntouched

\* submit_report compares the new period with all earlier ones of its source.
LEMMA SubmitInv ==
  ASSUME OracleInv, NEW a \in Address, NEW key \in Project, NEW m \in ReportMethodology,
         NEW d \in Measurement, NEW n \in 0..MaxOracleNonce, submit_report(a, key, m, d, n)
  PROVE  OracleInv'
<1> DEFINE new == [provider |-> a, project_id |-> key, methodology |-> m, data |-> d,
                   status |-> "Pending", submitted_at |-> now, verified_at |-> 0,
                   provider_stake_at_verification |-> 0, verifiers |-> {}, verification_count |-> 0,
                   challenge |-> "none"]
<1>0. PICK top : top = Len(reports) + 1
  OBVIOUS
<1>1. /\ reports \in Seq(Report) /\ reports' = Append(reports, new) /\ slashes' = slashes
      /\ new \in Report
  BY DEF OracleInv, OracleTypeOK, submit_report, Report, ReportStatus
<1>2. /\ DOMAIN reports' = DOMAIN reports \cup {top} /\ top \notin DOMAIN reports
      /\ reports'[top] = new /\ \A id \in DOMAIN reports : reports'[id] = reports[id]
      /\ \A id \in DOMAIN reports : reports[id] \in Report
  BY <1>0, <1>1
<1>3. OracleTypeOK'
  BY <1>1, OracleAssumption DEF OracleInv, OracleTypeOK, submit_report, oracle_use_nonce
<1>4. AllSound'
  <2>1. Sound(new)
    BY FS_EmptySet DEF Sound
  <2> QED
    BY <1>2, <2>1 DEF OracleInv, AllSound
<1>5. ReportsNeverOverlap'
  <2> DEFINE moments(r) == r.data.period_start .. r.data.period_end - 1
  <2>1. ASSUME NEW i \in DOMAIN reports, SameSource(reports[i], a, key, m)
        PROVE  moments(reports[i]) \cap moments(new) = {}
    <3>1. ~PeriodsOverlap(d, reports[i].data)
      BY <2>1 DEF submit_report
    <3>2. /\ d.period_start \in Nat /\ d.period_end \in Nat
          /\ reports[i].data.period_start \in Nat /\ reports[i].data.period_end \in Nat
      BY <1>2, OfferTypes DEF Report
    <3> QED
      BY <3>1, <3>2 DEF PeriodsOverlap
  <2>2. ASSUME NEW i \in DOMAIN reports', NEW j \in DOMAIN reports', i # j,
               SameSource(reports'[i], reports'[j].provider, reports'[j].project_id,
                          reports'[j].methodology)
        PROVE  moments(reports'[i]) \cap moments(reports'[j]) = {}
    <3>1. CASE i \in DOMAIN reports /\ j \in DOMAIN reports
      BY <1>2, <2>2, <3>1 DEF OracleInv, ReportsNeverOverlap
    <3>2. CASE i \in DOMAIN reports /\ j = top
      BY <1>2, <2>1, <2>2, <3>2
    <3>3. CASE i = top /\ j \in DOMAIN reports
      <4>1. SameSource(reports[j], a, key, m)
        BY <1>2, <2>2, <3>3 DEF SameSource
      <4> QED
        BY <1>2, <2>1, <3>3, <4>1
    <3> QED
      BY <1>2, <2>2, <3>1, <3>2, <3>3
  <2> QED
    BY <2>2 DEF ReportsNeverOverlap, SameSource
<1>6. SlashedOncePerRejection'
  <2>1. \A p \in Address : {id \in DOMAIN reports' : reports'[id].provider = p /\ reports'[id].status = "Rejected"}
                         = {id \in DOMAIN reports : reports[id].provider = p /\ reports[id].status = "Rejected"}
    BY <1>2
  <2> QED
    BY <1>1, <2>1 DEF OracleInv, SlashedOncePerRejection
<1> QED
  BY <1>3, <1>4, <1>5, <1>6 DEF OracleInv

\* A call that changes what has become of one report, and not what it says.
LEMMA OneReport ==
  ASSUME OracleInv, NEW id \in DOMAIN reports, NEW r \in Report,
         reports' = [reports EXCEPT ![id] = r], Sound(r),
         r.provider = reports[id].provider, r.project_id = reports[id].project_id,
         r.methodology = reports[id].methodology, r.data = reports[id].data
  PROVE  /\ reports' \in Seq(Report) /\ AllSound' /\ ReportsNeverOverlap'
         /\ DOMAIN reports' = DOMAIN reports /\ reports'[id] = r
         /\ \A i \in DOMAIN reports : i # id => reports'[i] = reports[i]
<1>1. /\ reports' \in Seq(Report) /\ DOMAIN reports' = DOMAIN reports /\ reports'[id] = r
      /\ \A i \in DOMAIN reports : i # id => reports'[i] = reports[i]
  BY DEF OracleInv, OracleTypeOK
<1>2. AllSound'
  BY <1>1 DEF OracleInv, AllSound
<1>3. \A i \in DOMAIN reports :
        /\ reports'[i].provider = reports[i].provider /\ reports'[i].project_id = reports[i].project_id
        /\ reports'[i].methodology = reports[i].methodology /\ reports'[i].data = reports[i].data
  BY <1>1
<1>4. ReportsNeverOverlap'
  BY <1>1, <1>3 DEF OracleInv, ReportsNeverOverlap, SameSource
<1> QED
  BY <1>1, <1>2, <1>4

\* The part of the invariant that is about slashes, if no report is rejected.
LEMMA NoneRejected ==
  ASSUME OracleInv, UNCHANGED slashes, DOMAIN reports' = DOMAIN reports,
         \A i \in DOMAIN reports :
           /\ reports'[i].provider = reports[i].provider
           /\ reports'[i].status = "Rejected" <=> reports[i].status = "Rejected"
  PROVE  SlashedOncePerRejection'
<1>1. \A p \in Address : {i \in DOMAIN reports' : reports'[i].provider = p /\ reports'[i].status = "Rejected"}
                       = {i \in DOMAIN reports : reports[i].provider = p /\ reports[i].status = "Rejected"}
  OBVIOUS
<1> QED
  BY <1>1 DEF OracleInv, SlashedOncePerRejection

\* A signature leaves what a report says as it is, and does not reject it.
LEMMA CountersignedReport ==
  ASSUME OracleTypeOK, NEW a \in Address, NEW old \in Report, Sound(old),
         old.status = "Pending", a # old.provider
  PROVE  LET r == Countersigned(old, a) IN
         /\ r \in Report /\ Sound(r) /\ r.status # "Rejected"
         /\ r.provider = old.provider /\ r.project_id = old.project_id
         /\ r.methodology = old.methodology /\ r.data = old.data
<1> DEFINE verifiers == old.verifiers \cup {a}
           count == qualifying_verifier_count(verifiers)
           signed == [old EXCEPT !.verifiers = verifiers,
                        !.verification_count = IF a \in old.verifiers THEN @ ELSE count]
           settled == [signed EXCEPT !.status = "Verified", !.verified_at = now,
                         !.provider_stake_at_verification = provider[old.provider].stake]
<1>1. IsFiniteSet(verifiers) /\ verifiers \subseteq Address
  BY FS_AddElement DEF Sound, Report
<1>2. count \in Nat
  <2>1. IsFiniteSet({v \in verifiers : Qualifies(v)})
    BY <1>1, FS_Subset
  <2> QED
    BY <2>1, FS_CardinalityType DEF qualifying_verifier_count
<1>3. Countersigned(old, a) = IF count >= signatureThreshold THEN settled ELSE signed
  BY DEF Countersigned
<1> HIDE DEF count, verifiers
<1>4. /\ signed \in Report /\ signed.status = "Pending" /\ signed.verifiers = verifiers
      /\ signed.provider = old.provider /\ signed.project_id = old.project_id
      /\ signed.methodology = old.methodology /\ signed.data = old.data
      /\ signed.challenge = old.challenge
  BY <1>1, <1>2 DEF Report
<1> HIDE DEF signed
<1>5. now \in Nat /\ provider[old.provider].stake \in Nat
  BY DEF OracleTypeOK, Report, Provider
<1>6. /\ settled \in Report /\ settled.status = "Verified" /\ settled.verifiers = verifiers
      /\ settled.provider = old.provider /\ settled.project_id = old.project_id
      /\ settled.methodology = old.methodology /\ settled.data = old.data
      /\ settled.challenge = old.challenge
  BY <1>4, <1>5 DEF Report, ReportStatus
<1> HIDE DEF settled
<1>7. old.provider \notin verifiers
  BY DEF Sound, verifiers
<1>8. Sound(signed) /\ Sound(settled)
  BY <1>1, <1>4, <1>6, <1>7 DEF Sound
<1> QED
  BY <1>3, <1>4, <1>6, <1>8

\* verify_report adds a verifier other than the provider, and may verify.
LEMMA VerifyInv ==
  ASSUME OracleInv, NEW a \in Address, NEW id \in DOMAIN reports, NEW n \in 0..MaxOracleNonce,
         verify_report(a, id, n)
  PROVE  OracleInv'
<1> DEFINE old == reports[id]
           r == Countersigned(old, a)
<1>1. /\ OracleTypeOK /\ old \in Report /\ Sound(old) /\ old.status = "Pending"
      /\ old.challenge = "none" /\ a # old.provider
  BY DEF OracleInv, OracleTypeOK, AllSound, verify_report
<1>2. /\ r \in Report /\ Sound(r) /\ r.status # "Rejected"
      /\ r.provider = old.provider /\ r.project_id = old.project_id
      /\ r.methodology = old.methodology /\ r.data = old.data
  BY <1>1, CountersignedReport
<1>3. /\ reports' = [reports EXCEPT ![id] = r]
      /\ UNCHANGED <<now, oracleAdmin, provider, slashes, signatureThreshold, minVerifierStake>>
  BY DEF verify_report
<1> HIDE DEF r
<1>4. /\ reports' \in Seq(Report) /\ AllSound' /\ ReportsNeverOverlap'
      /\ DOMAIN reports' = DOMAIN reports /\ reports'[id] = r
      /\ \A i \in DOMAIN reports : i # id => reports'[i] = reports[i]
  BY <1>2, <1>3, OneReport
<1>5. oracleNonce' \in [Address -> Nat]
  BY <1>1, NonceType DEF verify_report
<1>6. SlashedOncePerRejection'
  BY <1>1, <1>2, <1>3, <1>4, NoneRejected
<1>7. OracleTypeOK'
  BY <1>1, <1>3, <1>4, <1>5 DEF OracleTypeOK
<1> QED
  BY <1>4, <1>6, <1>7 DEF OracleInv

\* challenge_report opens the dispute about a report that had none.
LEMMA ChallengeInv ==
  ASSUME OracleInv, NEW a \in Address, NEW id \in DOMAIN reports, NEW n \in 0..MaxOracleNonce,
         challenge_report(a, id, n)
  PROVE  OracleInv'
<1> DEFINE old == reports[id]
           r == [old EXCEPT !.challenge = "open", !.status = "Challenged"]
<1>1. /\ OracleTypeOK /\ old \in Report /\ Sound(old) /\ old.status # "Rejected"
  BY DEF OracleInv, OracleTypeOK, AllSound, challenge_report
<1>2. /\ r \in Report /\ r.status = "Challenged" /\ r.verifiers = old.verifiers
      /\ r.provider = old.provider /\ r.project_id = old.project_id
      /\ r.methodology = old.methodology /\ r.data = old.data
  BY <1>1 DEF Report, ReportStatus
<1>3. /\ reports' = [reports EXCEPT ![id] = r]
      /\ UNCHANGED <<now, oracleAdmin, provider, slashes, signatureThreshold, minVerifierStake>>
  BY <1>1 DEF challenge_report, OracleTypeOK
<1> HIDE DEF r
<1>4. Sound(r)
  BY <1>1, <1>2 DEF Sound
<1>5. /\ reports' \in Seq(Report) /\ AllSound' /\ ReportsNeverOverlap'
      /\ DOMAIN reports' = DOMAIN reports /\ reports'[id] = r
      /\ \A i \in DOMAIN reports : i # id => reports'[i] = reports[i]
  BY <1>2, <1>3, <1>4, OneReport
<1>6. oracleNonce' \in [Address -> Nat]
  BY <1>1, NonceType DEF challenge_report
<1>7. SlashedOncePerRejection'
  BY <1>1, <1>2, <1>3, <1>5, NoneRejected
<1>8. OracleTypeOK'
  BY <1>1, <1>3, <1>5, <1>6 DEF OracleTypeOK
<1> QED
  BY <1>5, <1>7, <1>8 DEF OracleInv

\* slash_provider keeps its types.
LEMMA SlashTypes ==
  ASSUME OracleTypeOK, NEW id \in DOMAIN reports, NEW p \in Address, slash_provider(p, id)
  PROVE  provider' \in [Address -> Provider] /\ slashes' \in [Address -> Seq(SlashRecord)]
<1> DEFINE taken == penalty(provider[p].stake)
           remaining == provider[p].stake - taken
           slash == [report_id |-> id, penalty |-> taken, remaining_stake |-> remaining]
<1>1. provider[p] \in Provider /\ provider[p].stake \in Nat
  BY DEF OracleTypeOK, Provider
<1>2. taken \in Nat /\ remaining \in Nat
  BY <1>1, PenaltyFits
<1>3. id \in Nat
  BY DEF OracleTypeOK
<1>4. /\ provider' = [provider EXCEPT ![p].stake = remaining, ![p].active = @ /\ remaining # 0]
      /\ slashes' = [slashes EXCEPT ![p] = Append(@, slash)]
  BY DEF slash_provider
<1> HIDE DEF taken, remaining
<1>5. slash \in SlashRecord
  BY <1>2, <1>3 DEF SlashRecord
<1>6. provider' \in [Address -> Provider]
  BY <1>1, <1>2, <1>4 DEF OracleTypeOK, Provider
<1>7. slashes' \in [Address -> Seq(SlashRecord)]
  BY <1>4, <1>5 DEF OracleTypeOK
<1> QED
  BY <1>6, <1>7

\* A provider is slashed for a report that was not rejected before, so not for
\* one that it was slashed for already.
LEMMA SlashCounts ==
  ASSUME OracleInv, NEW id \in DOMAIN reports, reports[id].status # "Rejected",
         slash_provider(reports[id].provider, id),
         DOMAIN reports' = DOMAIN reports, reports'[id].status = "Rejected",
         \A i \in DOMAIN reports : reports'[i].provider = reports[i].provider,
         \A i \in DOMAIN reports : i # id => reports'[i].status = reports[i].status
  PROVE  SlashedOncePerRejection'
<1> DEFINE Ids(p) == {slashes[p][i].report_id : i \in DOMAIN slashes[p]}
           NewIds(p) == {slashes'[p][i].report_id : i \in DOMAIN slashes'[p]}
           Rejects(p) == {i \in DOMAIN reports : reports[i].provider = p /\ reports[i].status = "Rejected"}
           NewRejects(p) == {i \in DOMAIN reports' : reports'[i].provider = p /\ reports'[i].status = "Rejected"}
<1>1. PICK q : q = reports[id].provider
  OBVIOUS
<1>2. q \in Address /\ slashes \in [Address -> Seq(SlashRecord)]
  <2>1. reports[id] \in Report
    BY DEF OracleInv, OracleTypeOK
  <2> QED
    BY <1>1, <2>1 DEF OracleInv, OracleTypeOK, Report
<1>3. PICK slash : slash.report_id = id /\ slashes' = [slashes EXCEPT ![q] = Append(@, slash)]
  BY <1>1 DEF slash_provider
<1>4. \A p \in Address : p # q => slashes'[p] = slashes[p] /\ NewRejects(p) = Rejects(p)
  BY <1>1, <1>2, <1>3
<1>5. NewRejects(q) = Rejects(q) \cup {id}
  BY <1>1
<1>6. PICK k \in Nat : /\ DOMAIN slashes[q] = 1..k /\ DOMAIN slashes'[q] = 1..(k + 1)
                       /\ slashes'[q][k + 1] = slash
                       /\ \A i \in 1..k : slashes'[q][i] = slashes[q][i]
  <2>1. slashes[q] \in Seq(SlashRecord) /\ slashes'[q] = Append(slashes[q], slash)
    BY <1>2, <1>3
  <2> DEFINE k == Len(slashes[q])
  <2>2. k \in Nat /\ DOMAIN slashes[q] = 1..k
    BY <2>1
  <2>3. DOMAIN slashes'[q] = 1..(k + 1) /\ slashes'[q][k + 1] = slash
    BY <2>1
  <2>4. \A i \in 1..k : slashes'[q][i] = slashes[q][i]
    BY <2>1
  <2> QED
    BY <2>2, <2>3, <2>4
<1>7. NewIds(q) = Ids(q) \cup {id}
  BY <1>3, <1>6
<1>8. Ids(q) = Rejects(q)
  BY <1>2 DEF OracleInv, SlashedOncePerRejection
<1>9. id \notin Ids(q)
  BY <1>8
<1>10. \A i, j \in DOMAIN slashes'[q] : i # j => slashes'[q][i].report_id # slashes'[q][j].report_id
  <2>1. \A i, j \in 1..k : i # j => slashes[q][i].report_id # slashes[q][j].report_id
    BY <1>2, <1>6 DEF OracleInv, SlashedOncePerRejection
  <2>2. \A i \in 1..k : slashes[q][i].report_id # id
    BY <1>6, <1>9
  <2> QED
    BY <1>3, <1>6, <2>1, <2>2
<1>11. ASSUME NEW p \in Address
       PROVE  /\ \A i, j \in DOMAIN slashes'[p] : i # j => slashes'[p][i].report_id # slashes'[p][j].report_id
              /\ NewIds(p) = NewRejects(p)
  <2>1. CASE p = q
    <3>1. NewIds(q) = NewRejects(q)
      BY <1>5, <1>7, <1>8
    <3> QED
      BY <1>10, <2>1, <3>1
  <2>2. CASE p # q
    BY <1>4, <2>2 DEF OracleInv, SlashedOncePerRejection
  <2> QED
    BY <2>1, <2>2
<1> QED
  BY <1>11 DEF SlashedOncePerRejection

\* resolve_challenge settles a dispute once.
LEMMA ResolveInv ==
  ASSUME OracleInv, NEW a \in Address, NEW id \in DOMAIN reports, NEW s \in ReportStatus,
         NEW n \in 0..MaxOracleNonce, resolve_challenge(a, id, s, n)
  PROVE  OracleInv'
<1> DEFINE old == reports[id]
           r == [old EXCEPT !.challenge = "resolved", !.status = s]
<1>1. OracleTypeOK /\ old \in Report /\ Sound(old)
  BY DEF OracleInv, OracleTypeOK, AllSound
<1>2. oracleNonce' \in [Address -> Nat]
  BY <1>1, NonceType DEF resolve_challenge
<1>3. UNCHANGED <<now, oracleAdmin, signatureThreshold, minVerifierStake>> /\ s \in {"Verified", "Rejected"}
  BY DEF resolve_challenge
<1>4. CASE IsResolved(id)
  <2>1. UNCHANGED <<provider, reports, slashes>>
    BY <1>4 DEF resolve_challenge
  <2>2. OracleTypeOK'
    BY <1>1, <1>2, <1>3, <2>1 DEF OracleTypeOK
  <2> QED
    BY <2>1, <2>2, ReportsUntouched
<1>5. CASE ~IsResolved(id)
  <2>1. old.status # "Rejected"
    BY <1>1, <1>5 DEF IsResolved, Sound
  <2>2. reports' = [reports EXCEPT ![id] = r]
    BY <1>1, <1>5 DEF resolve_challenge, OracleTypeOK
  <2>3. /\ r \in Report /\ r.status = s /\ r.verifiers = old.verifiers /\ r.challenge = "resolved"
        /\ r.provider = old.provider /\ r.project_id = old.project_id
        /\ r.methodology = old.methodology /\ r.data = old.data
    BY <1>1, <1>3 DEF Report
  <2> HIDE DEF r
  <2>4. Sound(r)
    BY <1>1, <1>3, <2>3 DEF Sound
  <2>5. /\ reports' \in Seq(Report) /\ AllSound' /\ ReportsNeverOverlap'
        /\ DOMAIN reports' = DOMAIN reports /\ reports'[id] = r
        /\ \A i \in DOMAIN reports : i # id => reports'[i] = reports[i]
    BY <2>2, <2>3, <2>4, OneReport
  <2>6. CASE s = "Rejected"
    <3>1. slash_provider(old.provider, id)
      BY <1>5, <2>6 DEF resolve_challenge
    <3>2. old.provider \in Address
      BY <1>1 DEF Report
    <3>3. provider' \in [Address -> Provider] /\ slashes' \in [Address -> Seq(SlashRecord)]
      BY <1>1, <3>1, <3>2, SlashTypes
    <3>4. SlashedOncePerRejection'
      BY <2>1, <2>3, <2>5, <2>6, <3>1, SlashCounts
    <3>5. OracleTypeOK'
      BY <1>1, <1>2, <1>3, <2>5, <3>3 DEF OracleTypeOK
    <3> QED
      BY <2>5, <3>4, <3>5 DEF OracleInv
  <2>7. CASE s = "Verified"
    <3>1. UNCHANGED <<provider, slashes>>
      BY <1>5, <2>7 DEF resolve_challenge
    <3>2. SlashedOncePerRejection'
      BY <2>1, <2>3, <2>5, <2>7, <3>1, NoneRejected
    <3>3. OracleTypeOK'
      BY <1>1, <1>2, <1>3, <2>5, <3>1 DEF OracleTypeOK
    <3> QED
      BY <2>5, <3>2, <3>3 DEF OracleInv
  <2> QED
    BY <1>3, <2>6, <2>7
<1> QED
  BY <1>4, <1>5

\* Every step of the contract keeps the invariant.
LEMMA OracleInvStep == OracleInv /\ [OracleNext]_<<now, oracleVars>> => OracleInv'
<1> SUFFICES ASSUME OracleInv, [OracleNext]_<<now, oracleVars>> PROVE OracleInv'
  OBVIOUS
<1>1. ASSUME NEW a \in Address, NEW n \in 0..MaxOracleNonce, OracleCall(a, n) PROVE OracleInv'
  BY <1>1, SettingsInv, StakingInv, SubmitInv, VerifyInv, ChallengeInv, ResolveInv DEF OracleCall
<1>2. CASE (\E a, c \in Address : oracle_set_admin(a, c)) \/ (LedgerCloses /\ UNCHANGED oracleVars)
  BY <1>2, SettingsInv
<1>3. CASE UNCHANGED <<now, oracleVars>>
  <2>1. OracleTypeOK' /\ UNCHANGED <<reports, slashes>>
    BY <1>3 DEF OracleInv, OracleTypeOK, oracleVars
  <2> QED
    BY <2>1, ReportsUntouched
<1> QED
  BY <1>1, <1>2, <1>3 DEF OracleNext

\* The inductive invariant, for every value of the constants.
THEOREM OracleInvariant == OracleSpec => []OracleInv
<1> QED
  BY OracleInvInit, OracleInvStep, PTL DEF OracleSpec

\* Two reports of one source never share a moment (submit_report's check of
\* the half-open periods is enough for any number of reports).
THEOREM NoOverlap == OracleSpec => []ReportsNeverOverlap
<1>1. OracleInv => ReportsNeverOverlap
  BY DEF OracleInv
<1> QED
  BY <1>1, OracleInvariant, PTL

\* resolve_challenge slashes a provider once for every rejected report, however
\* often it is called, and never for another one.
THEOREM OneSlashPerRejection == OracleSpec => []SlashedOncePerRejection
<1>1. OracleInv => SlashedOncePerRejection
  BY DEF OracleInv
<1> QED
  BY <1>1, OracleInvariant, PTL

\* verify_report counts the signatures that still qualify, and the provider's
\* own is not among them; no other call makes a pending report verified.
THEOREM QuorumVerifies == OracleSpec => VerifiedByQuorum
<1> DEFINE Settled(id) == reports[id].status = "Pending" /\ reports'[id].status = "Verified"
           Quorate(id) == Cardinality({v \in reports'[id].verifiers \ {reports[id].provider} : Qualifies(v)})
                           >= signatureThreshold
           Body == \A id \in DOMAIN reports : Settled(id) => Quorate(id)
<1>1. ASSUME OracleInv, OracleNext PROVE Body
  <2> SUFFICES ASSUME NEW id \in DOMAIN reports, Settled(id) PROVE Quorate(id)
    OBVIOUS
  <2> OracleTypeOK /\ AllSound
    BY <1>1 DEF OracleInv
  <2>1. reports[id] \in Report /\ reports \in Seq(Report)
    BY DEF OracleTypeOK
  <2>2. ~UNCHANGED reports
    OBVIOUS
  <2>3. ASSUME NEW a \in Address, NEW n \in 0..MaxOracleNonce, NEW key \in Project,
               NEW m \in ReportMethodology, NEW d \in Measurement, submit_report(a, key, m, d, n)
        PROVE  FALSE
    <3>1. reports'[id] = reports[id]
      BY <2>1, <2>3 DEF submit_report
    <3> QED
      BY <3>1
  <2>4. ASSUME NEW a \in Address, NEW n \in 0..MaxOracleNonce, NEW i \in DOMAIN reports,
               challenge_report(a, i, n)
        PROVE  FALSE
    BY <2>1, <2>4 DEF challenge_report, Report
  <2>5. ASSUME NEW a \in Address, NEW n \in 0..MaxOracleNonce, NEW i \in DOMAIN reports,
               NEW s \in ReportStatus, resolve_challenge(a, i, s, n)
        PROVE  FALSE
    <3>1. reports[id].challenge = "none"
      BY DEF AllSound, Sound
    <3>2. i # id
      BY <2>5, <3>1 DEF resolve_challenge
    <3>3. reports'[id] = reports[id]
      BY <2>1, <2>5, <3>2 DEF resolve_challenge
    <3> QED
      BY <3>3
  <2>6. ASSUME NEW a \in Address, NEW n \in 0..MaxOracleNonce, NEW i \in DOMAIN reports,
               verify_report(a, i, n)
        PROVE  Quorate(id)
    <3> DEFINE verifiers == reports[id].verifiers \cup {a}
               count == qualifying_verifier_count(verifiers)
    <3>1. i = id
      BY <2>1, <2>6 DEF verify_report
    <3>2. reports'[id] = Countersigned(reports[id], a)
      BY <2>1, <2>6, <3>1 DEF verify_report
    <3>3. count >= signatureThreshold
      <4>1. SUFFICES ASSUME ~(count >= signatureThreshold) PROVE FALSE
        OBVIOUS
      <4>2. Countersigned(reports[id], a).status = reports[id].status
        BY <2>1, <4>1 DEF Countersigned, Report
      <4> QED
        BY <3>2, <4>2
    <3>4. reports'[id].verifiers = verifiers
      BY <2>1, <3>2 DEF Countersigned, Report
    <3>5. reports[id].provider \notin verifiers
      BY <2>6, <3>1 DEF AllSound, Sound, verify_report
    <3>6. {v \in reports'[id].verifiers \ {reports[id].provider} : Qualifies(v)}
            = {v \in verifiers : Qualifies(v)}
      BY <3>4, <3>5
    <3> QED
      BY <3>3, <3>6 DEF qualifying_verifier_count
  <2>7. \/ UNCHANGED reports
        \/ \E a \in Address, n \in 0..MaxOracleNonce :
             \/ \E key \in Project, m \in ReportMethodology, d \in Measurement :
                  submit_report(a, key, m, d, n)
             \/ \E i \in DOMAIN reports : verify_report(a, i, n) \/ challenge_report(a, i, n)
             \/ \E i \in DOMAIN reports, s \in ReportStatus : resolve_challenge(a, i, s, n)
    BY <1>1 DEF OracleNext, OracleCall, oracle_set_admin, LedgerCloses, oracleVars, register_provider,
                remove_provider, set_signature_threshold, set_minimum_verifier_stake, add_stake,
                withdraw_stake
  <2> QED
    BY <2>2, <2>3, <2>4, <2>5, <2>6, <2>7
<1>2. OracleInv /\ [OracleNext]_<<now, oracleVars>> => [Body]_<<now, oracleVars>>
  BY <1>1
<1> QED
  BY <1>2, OracleInvariant, PTL DEF OracleSpec, VerifiedByQuorum
-----------------------------------------------------------------------------
(* The coupon engine and the retirement contract. *)

\* Division rounds down.
LEMMA DivisionFloors ==
  ASSUME NEW a \in Nat, NEW b \in Nat \ {0}
  PROVE  a \div b \in Nat /\ b * (a \div b) <= a
<1>1. a \div b \in Int /\ a % b \in 0..b - 1 /\ a = b * (a \div b) + (a % b)
  OBVIOUS
<1>2. a \div b >= 0
  OBVIOUS
<1>3. b * (a \div b) \in Int
  BY <1>1
<1> QED
  BY <1>1, <1>2, <1>3

\* A common factor can be cancelled.
LEMMA CancelFactor ==
  ASSUME NEW k \in Nat \ {0}, NEW x \in Nat, NEW y \in Nat, k * x <= k * y
  PROVE  x <= y
<1>1. ASSUME x > y PROVE FALSE
  <2>1. PICK d \in Nat \ {0} : x = y + d
    <3>1. x - y \in Nat \ {0} /\ x = y + (x - y)
      BY <1>1
    <3> QED
      BY <3>1
  <2>2. k * x = k * y + k * d /\ k * d \in Nat /\ k * d > 0 /\ k * y \in Nat
    BY <2>1
  <2> QED
    BY <2>2
<1> QED
  BY <1>1

\* Shares of c in proportion to the balances, rounded down twice, add up to
\* at most c when the balances add up to the total (checked_ratio).
LEMMA SharesFit ==
  ASSUME NEW S, NEW bal \in [S -> Nat], IsFiniteSet(Units(bal)), Tally(bal) \in Nat \ {0},
         NEW c \in Nat, NEW F \in Nat \ {0}, NEW g \in [S -> Nat],
         \A h \in S : g[h] <= checked_ratio(checked_ratio(c, F, Tally(bal)), bal[h], F)
  PROVE  IsFiniteSet(Units(g)) /\ Tally(g) \in Nat /\ Tally(g) <= c
<1> DEFINE r == (c * F) \div Tally(bal)
           up == [h \in S |-> F * g[h]]
           top == [h \in S |-> r * bal[h]]
<1>1. c * F \in Nat
  OBVIOUS
<1>2. r \in Nat /\ Tally(bal) * r <= c * F
  BY <1>1, DivisionFloors
<1> HIDE DEF r
<1>3. ASSUME NEW h \in S PROVE r * bal[h] \in Nat /\ F * g[h] \in Nat /\ F * g[h] <= r * bal[h]
  <2>1. bal[h] \in Nat /\ g[h] \in Nat
    BY <1>3
  <2>2. r * bal[h] \in Nat /\ F * g[h] \in Nat
    BY <1>2, <2>1
  <2> DEFINE s == (r * bal[h]) \div F
  <2>3. s \in Nat /\ F * s <= r * bal[h]
    BY <2>2, DivisionFloors
  <2>4. g[h] <= s
    BY <1>3 DEF checked_ratio, r
  <2> HIDE DEF s
  <2>5. PICK d \in Nat : s = g[h] + d
    <3>1. s - g[h] \in Nat /\ s = g[h] + (s - g[h])
      BY <2>1, <2>3, <2>4
    <3> QED
      BY <3>1
  <2>6. F * s = F * g[h] + F * d /\ F * d \in Nat
    BY <2>1, <2>5
  <2> QED
    BY <2>2, <2>3, <2>6
<1>4. up \in [S -> Nat] /\ top \in [S -> Nat] /\ \A h \in S : up[h] <= top[h]
  BY <1>3
<1>5. IsFiniteSet(Units(top)) /\ Tally(top) = r * Tally(bal)
  BY <1>2, TallyScale
<1>6. IsFiniteSet(Units(up)) /\ Tally(up) <= Tally(top)
  <2> HIDE DEF up, top
  <2> QED
    BY <1>4, <1>5, TallyMonotone
<1>7. IsFiniteSet(Units(g))
  <2>1. ASSUME NEW h \in S PROVE g[h] <= up[h]
    <3>1. PICK m \in Nat : F = m + 1
      <4>1. F - 1 \in Nat /\ F = (F - 1) + 1
        OBVIOUS
      <4> QED
        BY <4>1
    <3>2. F * g[h] = m * g[h] + g[h] /\ m * g[h] \in Nat /\ g[h] \in Nat
      <4>1. PICK x \in Nat : x = g[h]
        BY <2>1
      <4>2. (m + 1) * x = m * x + x /\ m * x \in Nat
        BY <3>1
      <4> QED
        BY <3>1, <4>1, <4>2
    <3>3. up[h] = F * g[h]
      BY <2>1
    <3> QED
      BY <3>2, <3>3
  <2> HIDE DEF up
  <2> QED
    BY <1>4, <1>6, <2>1, TallyMonotone
<1>8. Tally(up) = F * Tally(g)
  BY <1>7, TallyScale
<1>9. Tally(g) \in Nat
  BY <1>7, FS_CardinalityType DEF Tally
<1>10. F * Tally(g) <= F * c
  <2>1. r * Tally(bal) = Tally(bal) * r /\ c * F = F * c /\ F * Tally(g) \in Nat
    BY <1>2, <1>9
  <2> QED
    BY <1>1, <1>2, <1>5, <1>6, <1>8, <2>1
<1> QED
  BY <1>7, <1>9, <1>10, CancelFactor
-----------------------------------------------------------------------------
PeriodInfo == [total_credits_earned : Nat, distributed : BOOLEAN, report_id : Nat,
               undistributed : Int, cursor : Nat]

CouponTypeOK ==
  /\ couponAdmin \in Address
  /\ couponNonce \in [Address -> Nat]
  /\ couponBond \in [BondId -> SUBSET [project_id : Project, credit_type : CreditType]]
  /\ period \in [BondId -> [Period -> SUBSET PeriodInfo]]
  /\ periodCount \in [BondId -> Nat]
  /\ accrued \in [BondId -> [Address -> Nat]]
  /\ accruedByType \in [BondId -> [AccrualType -> [Address -> Nat]]]
  /\ periodHolder \in [BondId -> [Period -> [AccrualType -> [Address -> Nat]]]]
  /\ undistributedTotal \in [BondId -> Nat]
  /\ claimed \in [BondId -> [Address -> Nat]]
  /\ swept \in [BondId -> Nat]

\* The types in which a bond of this credit type accrues.
TypesOf(credit_type) ==
  CASE credit_type \in {"Carbon", "BlueCarbon"} -> {"Carbon"}
    [] credit_type = "Biodiversity" -> {"Biodiversity"}
    [] credit_type = "Basket" -> AccrualType

(***************************************************************************)
(* Why a claim that clears only the types of the bond clears everything:   *)
(* the engine's copy of the credit type is the issuer's, which never       *)
(* changes once the bond is issued, so registering a bond again cannot     *)
(* orphan what accrued before; and nothing has accrued in other types.     *)
(***************************************************************************)
Registered ==
  \A b \in BondId : couponBond[b] # {} =>
    /\ b \in 1..bondCount
    /\ \E p \in Project :
         couponBond[b] = {[project_id |-> p, credit_type |-> bondConfig[b].credit_type]}

OnlyClearable ==
  \A b \in BondId, t \in AccrualType, h \in Address : accruedByType[b][t][h] # 0 =>
    couponBond[b] # {} /\ t \in TypesOf(bondConfig[b].credit_type)

\* Reports hold what submit_report let through.
ReportsValid == \A id \in DOMAIN reports : ValidMeasurement(reports[id].data)

CouponInv == CouponTypeOK /\ Registered /\ OnlyClearable /\ LedgersAgree

EngineInv == IInv /\ OracleInv /\ ReportsValid /\ CouponInv

\* The credit type of an issued bond.
LEMMA BondCreditType ==
  ASSUME IInv, NEW b \in 1..bondCount
  PROVE  b \in BondId /\ bondConfig[b] \in Configs /\ bondConfig[b].credit_type \in CreditType
<1>1. bondConfig \in Seq(Configs) /\ Len(bondConfig) = bondCount /\ bondCount \in 0..MaxBonds
  BY DEF IInv, TypeOK
<1>2. b \in BondId /\ bondConfig[b] \in Configs
  BY <1>1, IssuerAssumption DEF BondId
<1> QED
  BY <1>2, IssuerAssumption

\* What a claim clears, and which type a report is worth something in.
LEMMA ClearedAreTypes ==
  ASSUME NEW b \in BondId, NEW p, NEW c \in CreditType,
         couponBond[b] = {[project_id |-> p, credit_type |-> c]}
  PROVE  ClearedTypes(b) = TypesOf(c)
<1> DEFINE x == [project_id |-> p, credit_type |-> c]
<1>1. x.credit_type = c /\ couponBond[b] = {x}
  OBVIOUS
<1> HIDE DEF x
<1> QED
  BY <1>1 DEF ClearedTypes, TypesOf

LEMMA SaturatedNat ==
  ASSUME NEW x \in Nat
  PROVE  Saturated(x) \in Nat
<1> QED
  BY I128Assumption DEF Saturated

\* What a measurement is worth is not negative.
LEMMA CreditsNat ==
  ASSUME NEW data \in Measurement, ValidMeasurement(data)
  PROVE  /\ carbon_credits(data) \in Nat
         /\ data.biodiversity # {} =>
              compute_biodiversity_credits(CHOOSE m \in data.biodiversity : TRUE) \in Nat
<1>1. data.carbon_sequestered \in Nat
  BY OracleAssumption, I128Assumption DEF I128, ValidMeasurement
<1>2. carbon_credits(data) \in Nat
  <2>1. data.carbon_sequestered \div CREDIT_DIVISOR \in Nat
    BY <1>1, CouponAssumption, DivisionFloors
  <2> QED
    BY <2>1, CouponAssumption DEF carbon_credits
<1>3. ASSUME data.biodiversity # {}
      PROVE  compute_biodiversity_credits(CHOOSE m \in data.biodiversity : TRUE) \in Nat
  <2>1. PICK m : m = CHOOSE k \in data.biodiversity : TRUE
    OBVIOUS
  <2>2. m \in data.biodiversity
    BY <1>3, <2>1
  <2>3. data.biodiversity \subseteq I128 \X I128 \X I128
    BY OracleAssumption
  <2>4. m[1] \in Int /\ m[2] \in Int /\ m[3] \in Int
    BY <2>2, <2>3, I128Assumption DEF I128
  <2>5. m[1] \in Nat /\ m[2] \in Nat /\ m[3] \in Nat
    BY <2>2, <2>4 DEF ValidMeasurement
  <2> DEFINE h == Saturated(m[1] * HABITAT_CREDIT_RATE)
             s == Saturated(m[2] * SPECIES_CREDIT_RATE)
             u == Saturated(m[3] * UNIT_CREDIT_RATE)
             w == Saturated(Saturated(h + s) + u)
  <2>6. h \in Nat /\ s \in Nat /\ u \in Nat
    <3>1. /\ m[1] * HABITAT_CREDIT_RATE \in Nat /\ m[2] * SPECIES_CREDIT_RATE \in Nat
          /\ m[3] * UNIT_CREDIT_RATE \in Nat
      BY <2>5, CouponAssumption
    <3> QED
      BY <3>1, SaturatedNat
  <2> HIDE DEF h, s, u
  <2>7. w \in Nat
    <3>1. Saturated(h + s) \in Nat
      BY <2>6, SaturatedNat
    <3> QED
      BY <2>6, <3>1, SaturatedNat
  <2> HIDE DEF w
  <2>8. Saturated(w * CREDIT_MINOR_UNITS) \in Nat
    <3>1. w * CREDIT_MINOR_UNITS \in Nat
      BY <2>7, CouponAssumption
    <3> QED
      BY <3>1, SaturatedNat
  <2>9. Saturated(w * CREDIT_MINOR_UNITS) \div HABITAT_CREDIT_RATE \in Nat
    BY <2>8, CouponAssumption, DivisionFloors
  <2>10. compute_biodiversity_credits(m) = Saturated(w * CREDIT_MINOR_UNITS) \div HABITAT_CREDIT_RATE
    BY DEF compute_biodiversity_credits, w, h, s, u
  <2> QED
    BY <2>1, <2>9, <2>10
<1> QED
  BY <1>2, <1>3

\* What a payable report is worth: nothing in the types that the bond does
\* not accrue in.
LEMMA WorthTypes ==
  ASSUME EngineInv, NEW b \in BondId, NEW id, Payable(b, id)
  PROVE  /\ couponBond[b] # {}
         /\ Worth(b, id) \in [AccrualType -> Nat]
         /\ total_credits(Worth(b, id)) = Worth(b, id)["Carbon"] + Worth(b, id)["Biodiversity"]
         /\ \A t \in AccrualType :
              Worth(b, id)[t] # 0 => t \in TypesOf(bondConfig[b].credit_type)
<1>1. couponBond[b] # {} /\ id \in DOMAIN reports
  BY DEF Payable
<1>2. PICK p \in Project :
        /\ b \in 1..bondCount
        /\ couponBond[b] = {[project_id |-> p, credit_type |-> bondConfig[b].credit_type]}
  BY <1>1 DEF EngineInv, CouponInv, Registered
<1> DEFINE c == bondConfig[b].credit_type
           x == [project_id |-> p, credit_type |-> c]
           data == reports[id].data
<1>3. c \in CreditType
  BY <1>2, BondCreditType DEF EngineInv
<1>4. (CHOOSE bond \in couponBond[b] : TRUE) = x
  BY <1>2
<1>5. x.credit_type = c
  OBVIOUS
<1>6. Worth(b, id) = ReportCredits(c, data)
  BY <1>4, <1>5 DEF Worth
<1>7. data \in Measurement /\ ValidMeasurement(data)
  <2>1. reports[id] \in Report
    BY <1>1 DEF EngineInv, OracleInv, OracleTypeOK
  <2> QED
    BY <1>1, <2>1 DEF EngineInv, ReportsValid, Report
<1>8. NeedsMetrics(c) => data.biodiversity # {}
  BY <1>2, <1>5 DEF Payable
<1> HIDE DEF c, x, data
<1> DEFINE carbon == carbon_credits(data)
           biodiversity == compute_biodiversity_credits(CHOOSE m \in data.biodiversity : TRUE)
<1>9. carbon \in Nat /\ (NeedsMetrics(c) => biodiversity \in Nat)
  BY <1>7, <1>8, CreditsNat
<1>10. ReportCredits(c, data) =
         CASE c \in {"Carbon", "BlueCarbon"} -> [Carbon |-> carbon, Biodiversity |-> 0]
           [] c = "Biodiversity" -> [Carbon |-> 0, Biodiversity |-> biodiversity]
           [] c = "Basket" -> [Carbon |-> carbon, Biodiversity |-> biodiversity]
  BY DEF ReportCredits
<1> HIDE DEF carbon, biodiversity
<1>11. PICK u \in Nat, v \in Nat :
         /\ ReportCredits(c, data) = [Carbon |-> u, Biodiversity |-> v]
         /\ u # 0 => "Carbon" \in TypesOf(c)
         /\ v # 0 => "Biodiversity" \in TypesOf(c)
  <2>1. CASE c \in {"Carbon", "BlueCarbon"}
    BY <1>9, <1>10, <2>1 DEF TypesOf
  <2>2. CASE c = "Biodiversity"
    BY <1>9, <1>10, <2>2 DEF TypesOf, NeedsMetrics
  <2>3. CASE c = "Basket"
    BY <1>9, <1>10, <2>3 DEF TypesOf, NeedsMetrics, AccrualType
  <2> QED
    BY <1>3, <2>1, <2>2, <2>3 DEF CreditType
<1> DEFINE w == Worth(b, id)
<1>12. w = [Carbon |-> u, Biodiversity |-> v]
  BY <1>6, <1>11
<1>13. w.Carbon = u /\ w.Biodiversity = v /\ w["Carbon"] = u /\ w["Biodiversity"] = v
  BY <1>12
<1>14. w \in [AccrualType -> Nat]
  BY <1>11, <1>12 DEF AccrualType
<1> QED
  BY <1>1, <1>11, <1>13, <1>14 DEF total_credits, AccrualType, c
-----------------------------------------------------------------------------
\* How often a batch pays a holder, and what it pays in each type.
Times(holders, offset, limit, h) ==
  Cardinality({k \in offset + 1 .. offset + limit : holders[k] = h})

Gain(b, credits, holders, offset, limit) ==
  [t \in AccrualType |-> [h \in Address |->
     Times(holders, offset, limit, h) * Share(b, credits, t, h)]]

\* No holder is paid twice by a batch.
LEMMA PaidOnce ==
  ASSUME NEW holders, NEW offset \in Nat, NEW limit \in Nat, NEW h,
         \A k \in offset + 1 .. offset + limit : ~appears_before(holders, k)
  PROVE  Times(holders, offset, limit, h) \in {0, 1}
<1> DEFINE K == {k \in offset + 1 .. offset + limit : holders[k] = h}
<1>1. ASSUME NEW j \in K, NEW k \in K, j < k PROVE FALSE
  <2>1. j \in 1..k - 1 /\ holders[j] = holders[k]
    BY <1>1
  <2> QED
    BY <2>1 DEF appears_before
<1>2. \A j \in K, k \in K : j = k
  BY <1>1
<1>3. CASE K = {}
  BY <1>3, FS_EmptySet DEF Times
<1>4. CASE K # {}
  <2>1. PICK k : K = {k}
    BY <1>2, <1>4
  <2> QED
    BY <2>1, FS_Singleton DEF Times
<1> QED
  BY <1>3, <1>4

\* What a batch hands out in a type adds up to at most what the report is
\* worth in it.
LEMMA GainFits ==
  ASSUME IInv, NEW b \in BondId, NEW credits \in [AccrualType -> Nat], NEW t \in AccrualType,
         NEW holders, NEW offset \in Nat, NEW limit \in Nat,
         \A k \in offset + 1 .. offset + limit : ~appears_before(holders, k)
  PROVE  LET g == Gain(b, credits, holders, offset, limit)[t]
         IN  /\ g \in [Address -> Nat]
             /\ Tally(g) \in Nat /\ Tally(g) <= credits[t]
             /\ \A h \in Address : g[h] <= credits[t]
<1> DEFINE g == Gain(b, credits, holders, offset, limit)[t]
           T == totalSubscribed[b]
           bal == holderBalance[b]
<1>1. T \in Nat /\ bal \in [Address -> Nat] /\ IsFiniteSet(Units(bal)) /\ Tally(bal) = T
  BY DEF IInv, TypeOK, Backed
<1>2. credits[t] \in Nat /\ FIXED_POINT \in Nat \ {0}
  BY CouponAssumption
<1>3. ASSUME NEW h \in Address
      PROVE  g[h] = Times(holders, offset, limit, h) * Share(b, credits, t, h)
  BY <1>3 DEF Gain
<1>4. g = [h \in Address |-> g[h]]
  BY DEF Gain
<1>5. ASSUME NEW h \in Address PROVE Times(holders, offset, limit, h) \in {0, 1}
  BY PaidOnce
<1> HIDE DEF g, T, bal
<1>6. CASE T = 0
  <2>1. ASSUME NEW h \in Address PROVE g[h] = 0
    <3>1. Share(b, credits, t, h) = 0
      BY <1>6 DEF Share, T
    <3> QED
      BY <1>3, <1>5, <2>1, <3>1
  <2>2. g = [h \in Address |-> 0]
    BY <1>4, <2>1
  <2>3. Tally(g) = 0
    BY <2>2, TallyZero
  <2> QED
    BY <1>2, <2>1, <2>2, <2>3 DEF g
<1>7. CASE T # 0
  <2>1. ASSUME NEW h \in Address
        PROVE  /\ Share(b, credits, t, h) \in Nat
               /\ Share(b, credits, t, h) =
                    checked_ratio(checked_ratio(credits[t], FIXED_POINT, T), bal[h], FIXED_POINT)
    <3>1. Share(b, credits, t, h) =
            checked_ratio(checked_ratio(credits[t], FIXED_POINT, T), bal[h], FIXED_POINT)
      BY <1>7 DEF Share, T, bal
    <3>2. credits[t] * FIXED_POINT \in Nat /\ bal[h] \in Nat
      BY <1>1, <1>2, <2>1
    <3> DEFINE r == checked_ratio(credits[t], FIXED_POINT, T)
    <3>3. r \in Nat
      BY <1>1, <1>7, <3>2, DivisionFloors DEF checked_ratio
    <3> HIDE DEF r
    <3>4. r * bal[h] \in Nat
      BY <3>2, <3>3
    <3>5. checked_ratio(r, bal[h], FIXED_POINT) \in Nat
      BY <1>2, <3>4, DivisionFloors DEF checked_ratio
    <3> QED
      BY <3>1, <3>5 DEF r
  <2>2. ASSUME NEW h \in Address PROVE g[h] \in Nat /\ g[h] <= Share(b, credits, t, h)
    <3>1. PICK s \in Nat : s = Share(b, credits, t, h)
      BY <2>1, <2>2
    <3>2. g[h] = 0 * s \/ g[h] = 1 * s
      BY <1>3, <1>5, <2>2, <3>1
    <3> QED
      BY <3>1, <3>2
  <2>3. g \in [Address -> Nat]
    BY <1>4, <2>2
  <2>4. \A h \in Address :
          g[h] <= checked_ratio(checked_ratio(credits[t], FIXED_POINT, Tally(bal)), bal[h], FIXED_POINT)
    BY <1>1, <2>1, <2>2
  <2>5. IsFiniteSet(Units(g)) /\ Tally(g) \in Nat /\ Tally(g) <= credits[t]
    BY <1>1, <1>2, <1>7, <2>3, <2>4, SharesFit
  <2>6. ASSUME NEW h \in Address PROVE g[h] <= credits[t]
    <3>1. g[h] <= Tally(g) /\ g[h] \in Nat
      BY <2>3, <2>5, <2>6, TallyExcept
    <3> QED
      BY <1>2, <2>5, <3>1
  <2> QED
    BY <2>3, <2>5, <2>6 DEF g
<1> QED
  BY <1>6, <1>7
-----------------------------------------------------------------------------
\* What the calls that leave the issuer and the bonds alone have to keep.
LEMMA SameBonds ==
  ASSUME EngineInv, UNCHANGED <<vars, couponBond>>, CouponTypeOK', LedgersAgree',
         \A b \in BondId, t \in AccrualType, h \in Address :
           accruedByType'[b][t][h] # 0 =>
             couponBond[b] # {} /\ t \in TypesOf(bondConfig[b].credit_type)
  PROVE  CouponInv'
<1>1. bondCount' = bondCount /\ bondConfig' = bondConfig
  BY DEF vars, issuerVars
<1>2. Registered'
  BY <1>1 DEF EngineInv, CouponInv, Registered
<1>3. OnlyClearable'
  BY <1>1 DEF OnlyClearable
<1> QED
  BY <1>2, <1>3 DEF CouponInv

\* Registering a bond, again too, copies the issuer's credit type.
LEMMA RegisterInv ==
  ASSUME EngineInv, NEW a \in Address, NEW b \in BondId, NEW key \in Project, NEW n \in Nat,
         register_bond(a, b, key, n), UNCHANGED vars
  PROVE  CouponInv'
<1> DEFINE x == [project_id |-> key, credit_type |-> bondConfig[b].credit_type]
<1>1. CouponTypeOK /\ Registered /\ OnlyClearable /\ LedgersAgree /\ IInv
  BY DEF EngineInv, CouponInv
<1>2. /\ couponBond' = [couponBond EXCEPT ![b] = {x}] /\ b \in 1..bondCount
      /\ coupon_use_nonce(a, n) /\ UNCHANGED <<couponAdmin, ledgerVars>>
  BY DEF register_bond, BondExists
<1>3. bondConfig[b].credit_type \in CreditType
  BY <1>1, <1>2, BondCreditType
<1>4. bondCount' = bondCount /\ bondConfig' = bondConfig
  BY DEF vars, issuerVars
<1>5. CouponTypeOK'
  <2>1. couponNonce' \in [Address -> Nat]
    BY <1>1, <1>2 DEF CouponTypeOK, coupon_use_nonce
  <2>2. couponBond' \in [BondId -> SUBSET [project_id : Project, credit_type : CreditType]]
    BY <1>1, <1>2, <1>3 DEF CouponTypeOK
  <2> QED
    BY <1>1, <1>2, <2>1, <2>2 DEF CouponTypeOK, ledgerVars
<1>6. couponBond'[b] = {x} /\ \A c \in BondId : c # b => couponBond'[c] = couponBond[c]
  BY <1>1, <1>2 DEF CouponTypeOK
<1>7. Registered'
  <2> SUFFICES ASSUME NEW c \in BondId, couponBond'[c] # {}
               PROVE  /\ c \in 1..bondCount
                      /\ \E p \in Project :
                           couponBond'[c] = {[project_id |-> p, credit_type |-> bondConfig[c].credit_type]}
    BY <1>4 DEF Registered
  <2>1. CASE c = b
    BY <1>2, <1>6, <2>1
  <2>2. CASE c # b
    BY <1>1, <1>6, <2>2 DEF Registered
  <2> QED
    BY <2>1, <2>2
<1>8. accrued' = accrued /\ accruedByType' = accruedByType
  BY <1>2 DEF ledgerVars
<1>9. OnlyClearable'
  <2> HIDE DEF x
  <2>1. \A c \in BondId : couponBond[c] # {} => couponBond'[c] # {}
    BY <1>6
  <2> QED
    BY <1>1, <1>4, <1>8, <2>1 DEF OnlyClearable
<1>10. LedgersAgree'
  BY <1>1, <1>8 DEF LedgersAgree
<1> QED
  BY <1>5, <1>7, <1>9, <1>10 DEF CouponInv

\* What a batch does to the ledgers.
LEMMA BatchEffect ==
  ASSUME NEW a, NEW b, NEW i, NEW holders, NEW id, NEW offset, NEW limit, NEW n,
         distribute_coupon_batch(a, b, i, holders, id, offset, limit, n)
  PROVE  LET gain     == Gain(b, Worth(b, id), holders, offset, limit)
             earned   == earned_before(b, i) + Tally(gain["Carbon"]) + Tally(gain["Biodiversity"])
             complete == offset + limit = Len(holders)
             left     == IF complete THEN total_credits(Worth(b, id)) - earned ELSE 0
         IN  /\ coupon_use_nonce(a, n) /\ Payable(b, id) /\ offset = batch_cursor(b, i)
             /\ \A k \in offset + 1 .. offset + limit : ~appears_before(holders, k)
             /\ accrued' = [accrued EXCEPT ![b] =
                  [h \in Address |-> @[h] + gain["Carbon"][h] + gain["Biodiversity"][h]]]
             /\ accruedByType' = [accruedByType EXCEPT ![b] =
                  [t \in AccrualType |-> [h \in Address |-> @[t][h] + gain[t][h]]]]
             /\ periodHolder' = [periodHolder EXCEPT ![b][i] =
                  [t \in AccrualType |-> [h \in Address |-> @[t][h] + gain[t][h]]]]
             /\ period' = [period EXCEPT ![b][i] =
                  {[total_credits_earned |-> earned, distributed |-> complete, report_id |-> id,
                    undistributed |-> left, cursor |-> offset + limit]}]
             /\ undistributedTotal' = [undistributedTotal EXCEPT ![b] = @ + Sweepable(left)]
             /\ periodCount' = [periodCount EXCEPT ![b] = IF complete THEN @ + 1 ELSE @]
             /\ UNCHANGED <<couponAdmin, couponBond, claimed, swept>>
<1> QED
  BY DEF distribute_coupon_batch, Gain, Times

\* The engine stays in step when it hands out a batch.
LEMMA BatchInv ==
  ASSUME EngineInv, NEW a \in Address, NEW b \in BondId, NEW i \in Period, NEW holders \in HolderList,
         NEW id \in DOMAIN reports, NEW offset \in Nat, NEW limit \in Nat, NEW n \in Nat,
         distribute_coupon_batch(a, b, i, holders, id, offset, limit, n), UNCHANGED vars
  PROVE  /\ CouponInv'
         /\ period[b][i] = {} => \A p \in period'[b][i] :
              p.report_id = id /\ p.total_credits_earned <= total_credits(Worth(b, id))
         /\ \A c \in BondId, j \in Period : (c # b \/ j # i) => period'[c][j] = period[c][j]
         /\ \A c \in BondId, h \in Address : accrued[c][h] <= accrued'[c][h]
         /\ claimed' = claimed
<1> DEFINE credits  == Worth(b, id)
           gain     == Gain(b, credits, holders, offset, limit)
           earned   == earned_before(b, i) + Tally(gain["Carbon"]) + Tally(gain["Biodiversity"])
           complete == offset + limit = Len(holders)
           left     == IF complete THEN total_credits(credits) - earned ELSE 0
           info     == [total_credits_earned |-> earned, distributed |-> complete, report_id |-> id,
                        undistributed |-> left, cursor |-> offset + limit]
<1>1. /\ coupon_use_nonce(a, n) /\ Payable(b, id)
      /\ \A k \in offset + 1 .. offset + limit : ~appears_before(holders, k)
      /\ accrued' = [accrued EXCEPT ![b] =
           [h \in Address |-> @[h] + gain["Carbon"][h] + gain["Biodiversity"][h]]]
      /\ accruedByType' = [accruedByType EXCEPT ![b] =
           [t \in AccrualType |-> [h \in Address |-> @[t][h] + gain[t][h]]]]
      /\ periodHolder' = [periodHolder EXCEPT ![b][i] =
           [t \in AccrualType |-> [h \in Address |-> @[t][h] + gain[t][h]]]]
      /\ period' = [period EXCEPT ![b][i] = {info}]
      /\ undistributedTotal' = [undistributedTotal EXCEPT ![b] = @ + Sweepable(left)]
      /\ periodCount' = [periodCount EXCEPT ![b] = IF complete THEN @ + 1 ELSE @]
      /\ UNCHANGED <<couponAdmin, couponBond, claimed, swept>>
  BY BatchEffect
<1>2. CouponTypeOK /\ Registered /\ OnlyClearable /\ LedgersAgree /\ IInv
  BY DEF EngineInv, CouponInv
<1>3. /\ couponBond[b] # {} /\ credits \in [AccrualType -> Nat]
      /\ total_credits(credits) = credits["Carbon"] + credits["Biodiversity"]
      /\ \A t \in AccrualType : credits[t] # 0 => t \in TypesOf(bondConfig[b].credit_type)
  BY <1>1, WorthTypes
<1> HIDE DEF credits
<1>4. ASSUME NEW t \in AccrualType
      PROVE  /\ gain[t] \in [Address -> Nat]
             /\ Tally(gain[t]) \in Nat /\ Tally(gain[t]) <= credits[t]
             /\ \A h \in Address : gain[t][h] <= credits[t]
  BY <1>1, <1>2, <1>3, <1>4, GainFits
<1> HIDE DEF gain
<1>5. "Carbon" \in AccrualType /\ "Biodiversity" \in AccrualType
  BY DEF AccrualType
<1>6. earned_before(b, i) \in Nat /\ (period[b][i] = {} => earned_before(b, i) = 0)
  <2>1. period[b][i] \subseteq PeriodInfo
    BY <1>2 DEF CouponTypeOK
  <2>2. CASE period[b][i] = {}
    BY <2>2 DEF earned_before
  <2>3. CASE period[b][i] # {}
    <3>1. PICK p \in PeriodInfo : p = CHOOSE q \in period[b][i] : TRUE
      BY <2>1, <2>3
    <3>2. earned_before(b, i) = p.total_credits_earned
      BY <2>3, <3>1 DEF earned_before
    <3> QED
      BY <2>3, <3>2 DEF PeriodInfo
  <2> QED
    BY <2>2, <2>3
<1>7. earned \in Nat
  BY <1>4, <1>5, <1>6
<1>8. total_credits(credits) \in Nat /\ (period[b][i] = {} => earned <= total_credits(credits))
  <2>1. credits["Carbon"] \in Nat /\ credits["Biodiversity"] \in Nat
    BY <1>3, <1>5
  <2> QED
    BY <1>3, <1>4, <1>5, <1>6, <2>1
<1> HIDE DEF earned
<1>9. left \in Int
  BY <1>7, <1>8
<1>10. id \in Nat /\ complete \in BOOLEAN /\ offset + limit \in Nat
  BY DEF EngineInv, OracleInv, OracleTypeOK
<1> HIDE DEF left, complete
<1>11. info \in PeriodInfo
  BY <1>7, <1>9, <1>10 DEF PeriodInfo
<1>12. info.report_id = id /\ info.total_credits_earned = earned
  OBVIOUS
<1> HIDE DEF info
<1>13. ASSUME NEW c \in BondId, NEW t \in AccrualType, NEW h \in Address
       PROVE  /\ accrued[c][h] \in Nat /\ accruedByType[c][t][h] \in Nat
              /\ gain[t][h] \in Nat
              /\ accrued'[c][h] = accrued[c][h] +
                   (IF c = b THEN gain["Carbon"][h] + gain["Biodiversity"][h] ELSE 0)
              /\ accruedByType'[c][t][h] = accruedByType[c][t][h] + (IF c = b THEN gain[t][h] ELSE 0)
  <2>1. accrued[c][h] \in Nat /\ accruedByType[c][t][h] \in Nat
    BY <1>2, <1>13 DEF CouponTypeOK
  <2>2. gain[t][h] \in Nat /\ gain["Carbon"][h] \in Nat /\ gain["Biodiversity"][h] \in Nat
    BY <1>4, <1>5, <1>13
  <2>3. accrued'[c] = IF c = b THEN [k \in Address |-> accrued[b][k] + gain["Carbon"][k] + gain["Biodiversity"][k]]
                      ELSE accrued[c]
    BY <1>1, <1>2 DEF CouponTypeOK
  <2>4. accruedByType'[c] = IF c = b
          THEN [s \in AccrualType |-> [k \in Address |-> accruedByType[b][s][k] + gain[s][k]]]
          ELSE accruedByType[c]
    BY <1>1, <1>2 DEF CouponTypeOK
  <2> QED
    BY <2>1, <2>2, <2>3, <2>4
<1>14. LedgersAgree'
  <2> SUFFICES ASSUME NEW c \in BondId, NEW h \in Address
               PROVE  accrued'[c][h] = accruedByType'[c]["Carbon"][h] + accruedByType'[c]["Biodiversity"][h]
    BY DEF LedgersAgree
  <2>1. accrued[c][h] = accruedByType[c]["Carbon"][h] + accruedByType[c]["Biodiversity"][h]
    BY <1>2 DEF LedgersAgree
  <2> QED
    BY <1>5, <1>13, <2>1
<1>15. \A c \in BondId, h \in Address : accrued[c][h] <= accrued'[c][h]
  BY <1>5, <1>13
<1>16. ASSUME NEW c \in BondId, NEW t \in AccrualType, NEW h \in Address, accruedByType'[c][t][h] # 0
       PROVE  couponBond[c] # {} /\ t \in TypesOf(bondConfig[c].credit_type)
  <2>1. CASE accruedByType[c][t][h] # 0
    BY <1>2, <2>1 DEF OnlyClearable
  <2>2. CASE accruedByType[c][t][h] = 0
    <3>1. c = b /\ gain[t][h] # 0
      BY <1>13, <1>16, <2>2
    <3>2. credits[t] \in Nat /\ gain[t][h] \in Nat /\ gain[t][h] <= credits[t]
      BY <1>3, <1>4
    <3>3. credits[t] # 0
      BY <3>1, <3>2
    <3> QED
      BY <1>3, <3>1, <3>3
  <2> QED
    BY <2>1, <2>2
<1>17. CouponTypeOK'
  <2>1. couponNonce' \in [Address -> Nat]
    BY <1>1, <1>2 DEF CouponTypeOK, coupon_use_nonce
  <2>2. period' \in [BondId -> [Period -> SUBSET PeriodInfo]]
    BY <1>1, <1>2, <1>11 DEF CouponTypeOK
  <2>3. periodCount' \in [BondId -> Nat]
    BY <1>1, <1>2 DEF CouponTypeOK
  <2>4. accrued' \in [BondId -> [Address -> Nat]]
    <3> DEFINE f == [h \in Address |-> accrued[b][h] + gain["Carbon"][h] + gain["Biodiversity"][h]]
    <3>1. ASSUME NEW h \in Address PROVE accrued[b][h] + gain["Carbon"][h] + gain["Biodiversity"][h] \in Nat
      BY <1>5, <1>13
    <3>2. f \in [Address -> Nat]
      BY <3>1
    <3>3. accrued' = [accrued EXCEPT ![b] = f]
      BY <1>1
    <3> HIDE DEF f
    <3> QED
      BY <1>2, <3>2, <3>3 DEF CouponTypeOK
  <2>5. accruedByType' \in [BondId -> [AccrualType -> [Address -> Nat]]]
    <3> DEFINE f == [t \in AccrualType |-> [h \in Address |-> accruedByType[b][t][h] + gain[t][h]]]
    <3>1. ASSUME NEW t \in AccrualType, NEW h \in Address PROVE accruedByType[b][t][h] + gain[t][h] \in Nat
      BY <1>13
    <3>2. f \in [AccrualType -> [Address -> Nat]]
      BY <3>1
    <3>3. accruedByType' = [accruedByType EXCEPT ![b] = f]
      BY <1>1
    <3> HIDE DEF f
    <3> QED
      BY <1>2, <3>2, <3>3 DEF CouponTypeOK
  <2>6. periodHolder' \in [BondId -> [Period -> [AccrualType -> [Address -> Nat]]]]
    <3> DEFINE f == [t \in AccrualType |-> [h \in Address |-> periodHolder[b][i][t][h] + gain[t][h]]]
    <3>1. ASSUME NEW t \in AccrualType, NEW h \in Address
          PROVE  periodHolder[b][i][t][h] + gain[t][h] \in Nat
      <4>1. periodHolder[b][i][t][h] \in Nat
        BY <1>2, <3>1 DEF CouponTypeOK
      <4> QED
        BY <1>13, <4>1
    <3>2. f \in [AccrualType -> [Address -> Nat]]
      BY <3>1
    <3>3. periodHolder' = [periodHolder EXCEPT ![b][i] = f]
      BY <1>1
    <3> HIDE DEF f
    <3> QED
      BY <1>2, <3>2, <3>3 DEF CouponTypeOK
  <2>7. undistributedTotal' \in [BondId -> Nat]
    <3>1. Sweepable(left) \in Nat
      BY <1>9 DEF Sweepable
    <3> QED
      BY <1>1, <1>2, <3>1 DEF CouponTypeOK
  <2> QED
    BY <1>1, <1>2, <2>1, <2>2, <2>3, <2>4, <2>5, <2>6, <2>7 DEF CouponTypeOK
<1>18. /\ period'[b][i] = {info}
       /\ \A c \in BondId, j \in Period : (c # b \/ j # i) => period'[c][j] = period[c][j]
  BY <1>1, <1>2 DEF CouponTypeOK
<1>19. CouponInv'
  BY <1>1, <1>14, <1>16, <1>17, SameBonds
<1>20. period[b][i] = {} => \A p \in period'[b][i] :
         p.report_id = id /\ p.total_credits_earned <= total_credits(Worth(b, id))
  BY <1>8, <1>12, <1>18 DEF credits
<1> QED
  BY <1>1, <1>15, <1>18, <1>19, <1>20

\* A claim empties what the holder accrued, in the combined ledger and in
\* every type there is anything in, and books it as claimed.
LEMMA ClaimInv ==
  ASSUME EngineInv, NEW a \in Address, NEW b \in BondId, NEW n \in Nat,
         claim_credits(a, b, n), UNCHANGED vars
  PROVE  /\ CouponInv' /\ period' = period
         /\ \A c \in BondId, h \in Address : EverAccrued(c, h)' = EverAccrued(c, h)
<1>1. CouponTypeOK /\ Registered /\ OnlyClearable /\ LedgersAgree /\ IInv
  BY DEF EngineInv, CouponInv
<1>2. /\ coupon_use_nonce(a, n)
      /\ accrued' = [accrued EXCEPT ![b][a] = 0]
      /\ claimed' = [claimed EXCEPT ![b][a] = @ + accrued[b][a]]
      /\ UNCHANGED <<couponAdmin, couponBond, period, periodCount, undistributedTotal, swept>>
  BY DEF claim_credits
<1>3. ASSUME NEW c \in BondId, NEW h \in Address
      PROVE  /\ accrued[c][h] \in Nat /\ claimed[c][h] \in Nat
             /\ accrued'[c][h] = IF c = b /\ h = a THEN 0 ELSE accrued[c][h]
             /\ claimed'[c][h] = IF c = b /\ h = a THEN claimed[c][h] + accrued[c][h] ELSE claimed[c][h]
  BY <1>1, <1>2, <1>3 DEF CouponTypeOK
<1>4. \A c \in BondId, h \in Address : EverAccrued(c, h)' = EverAccrued(c, h)
  BY <1>3 DEF EverAccrued
<1>5. ASSUME NEW c \in BondId, NEW t \in AccrualType, NEW h \in Address
      PROVE  accruedByType'[c][t][h] = IF c = b /\ h = a THEN 0 ELSE accruedByType[c][t][h]
  <2>1. accruedByType[b]["Carbon"][a] \in Nat /\ accruedByType[b]["Biodiversity"][a] \in Nat
    BY <1>1 DEF CouponTypeOK, AccrualType
  <2>2. accrued[b][a] = accruedByType[b]["Carbon"][a] + accruedByType[b]["Biodiversity"][a]
    BY <1>1 DEF LedgersAgree
  <2>3. CASE accrued[b][a] > 0
    <3>1. accruedByType' = [accruedByType EXCEPT ![b] = [s \in AccrualType |->
            IF s \in ClearedTypes(b) THEN [@[s] EXCEPT ![a] = 0] ELSE @[s]]]
      BY <2>3 DEF claim_credits
    <3>2. accruedByType'[c] = IF c = b
            THEN [s \in AccrualType |-> IF s \in ClearedTypes(b) THEN [accruedByType[b][s] EXCEPT ![a] = 0]
                                        ELSE accruedByType[b][s]]
            ELSE accruedByType[c]
      BY <1>1, <3>1 DEF CouponTypeOK
    <3>3. accruedByType[c][t] \in [Address -> Nat]
      BY <1>1, <1>5 DEF CouponTypeOK
    <3>4. CASE c # b
      BY <3>2, <3>4
    <3>5. CASE c = b /\ t \in ClearedTypes(b)
      BY <1>5, <3>2, <3>3, <3>5
    <3>6. CASE c = b /\ t \notin ClearedTypes(b)
      <4>1. accruedByType'[c][t] = accruedByType[c][t]
        BY <1>5, <3>2, <3>6
      <4>2. accruedByType[b][t][a] = 0
        <5>1. SUFFICES ASSUME accruedByType[b][t][a] # 0 PROVE FALSE
          OBVIOUS
        <5>2. couponBond[b] # {} /\ t \in TypesOf(bondConfig[b].credit_type)
          BY <1>1, <1>5, <5>1 DEF OnlyClearable
        <5>3. PICK p \in Project :
                /\ b \in 1..bondCount
                /\ couponBond[b] = {[project_id |-> p, credit_type |-> bondConfig[b].credit_type]}
          BY <1>1, <5>2 DEF Registered
        <5>4. bondConfig[b].credit_type \in CreditType
          BY <1>1, <5>3, BondCreditType
        <5>5. ClearedTypes(b) = TypesOf(bondConfig[b].credit_type)
          BY <5>3, <5>4, ClearedAreTypes
        <5> QED
          BY <3>6, <5>2, <5>5
      <4> QED
        BY <3>6, <4>1, <4>2
    <3> QED
      BY <3>4, <3>5, <3>6
  <2>4. CASE ~(accrued[b][a] > 0)
    <3>1. accruedByType' = accruedByType
      BY <2>4 DEF claim_credits
    <3>2. accruedByType[b]["Carbon"][a] = 0 /\ accruedByType[b]["Biodiversity"][a] = 0
      BY <2>1, <2>2, <2>4
    <3> QED
      BY <1>5, <3>1, <3>2 DEF AccrualType
  <2> QED
    BY <2>3, <2>4
<1>6. LedgersAgree'
  <2> SUFFICES ASSUME NEW c \in BondId, NEW h \in Address
               PROVE  accrued'[c][h] = accruedByType'[c]["Carbon"][h] + accruedByType'[c]["Biodiversity"][h]
    BY DEF LedgersAgree
  <2>1. accrued[c][h] = accruedByType[c]["Carbon"][h] + accruedByType[c]["Biodiversity"][h]
    BY <1>1 DEF LedgersAgree
  <2>2. "Carbon" \in AccrualType /\ "Biodiversity" \in AccrualType
    BY DEF AccrualType
  <2> QED
    BY <1>3, <1>5, <2>1, <2>2
<1>7. ASSUME NEW c \in BondId, NEW t \in AccrualType, NEW h \in Address, accruedByType'[c][t][h] # 0
      PROVE  couponBond[c] # {} /\ t \in TypesOf(bondConfig[c].credit_type)
  <2>1. accruedByType[c][t][h] # 0
    BY <1>5, <1>7
  <2> QED
    BY <1>1, <2>1 DEF OnlyClearable
<1>8. CouponTypeOK'
  <2>1. couponNonce' \in [Address -> Nat]
    BY <1>1, <1>2 DEF CouponTypeOK, coupon_use_nonce
  <2>2. accrued' \in [BondId -> [Address -> Nat]] /\ claimed' \in [BondId -> [Address -> Nat]]
    BY <1>1, <1>2 DEF CouponTypeOK
  <2>3. accruedByType' \in [BondId -> [AccrualType -> [Address -> Nat]]]
    <3> DEFINE f == [s \in AccrualType |->
                       IF s \in ClearedTypes(b) THEN [accruedByType[b][s] EXCEPT ![a] = 0]
                       ELSE accruedByType[b][s]]
    <3>1. f \in [AccrualType -> [Address -> Nat]]
      <4>1. ASSUME NEW s \in AccrualType
            PROVE  /\ accruedByType[b][s] \in [Address -> Nat]
                   /\ [accruedByType[b][s] EXCEPT ![a] = 0] \in [Address -> Nat]
        BY <1>1, <4>1 DEF CouponTypeOK
      <4> QED
        BY <4>1
    <3>2. accruedByType' = accruedByType \/ accruedByType' = [accruedByType EXCEPT ![b] = f]
      BY DEF claim_credits
    <3> HIDE DEF f
    <3> QED
      BY <1>1, <3>1, <3>2 DEF CouponTypeOK
  <2>4. periodHolder' \in [BondId -> [Period -> [AccrualType -> [Address -> Nat]]]]
    <3> DEFINE f == [i \in Period |->
                       IF i < periodCount[b]
                       THEN [t \in AccrualType |-> [periodHolder[b][i][t] EXCEPT ![a] = 0]]
                       ELSE periodHolder[b][i]]
    <3>1. f \in [Period -> [AccrualType -> [Address -> Nat]]]
      <4>1. ASSUME NEW i \in Period, NEW t \in AccrualType
            PROVE  [periodHolder[b][i][t] EXCEPT ![a] = 0] \in [Address -> Nat]
        BY <1>1, <4>1 DEF CouponTypeOK
      <4>2. ASSUME NEW i \in Period
            PROVE  periodHolder[b][i] \in [AccrualType -> [Address -> Nat]]
        BY <1>1, <4>2 DEF CouponTypeOK
      <4>3. ASSUME NEW i \in Period
            PROVE  [t \in AccrualType |-> [periodHolder[b][i][t] EXCEPT ![a] = 0]]
                     \in [AccrualType -> [Address -> Nat]]
        BY <4>1, <4>3
      <4> QED
        BY <4>2, <4>3
    <3>2. periodHolder' = periodHolder \/ periodHolder' = [periodHolder EXCEPT ![b] = f]
      BY DEF claim_credits
    <3> HIDE DEF f
    <3> QED
      BY <1>1, <3>1, <3>2 DEF CouponTypeOK
  <2> QED
    BY <1>1, <1>2, <2>1, <2>2, <2>3, <2>4 DEF CouponTypeOK
<1>9. CouponInv'
  BY <1>2, <1>6, <1>7, <1>8, SameBonds
<1> QED
  BY <1>2, <1>4, <1>9

\* Sweeping and changing the admin leave what the holders accrued alone.
LEMMA SweepInv ==
  ASSUME EngineInv, NEW a \in Address, NEW n \in Nat, UNCHANGED vars,
         \/ \E b \in BondId : sweep_undistributed(a, b, n)
         \/ \E c \in Address : coupon_set_admin(a, c, n)
  PROVE  CouponInv' /\ UNCHANGED <<period, accrued, claimed>>
<1>1. CouponTypeOK /\ OnlyClearable /\ LedgersAgree
  BY DEF EngineInv, CouponInv
<1>2. /\ coupon_use_nonce(a, n)
      /\ UNCHANGED <<couponBond, period, periodCount, accrued, accruedByType, periodHolder, claimed>>
  BY DEF sweep_undistributed, coupon_set_admin, ledgerVars
<1>3. couponNonce' \in [Address -> Nat]
  BY <1>1, <1>2 DEF CouponTypeOK, coupon_use_nonce
<1>4. CouponTypeOK'
  <2>1. CASE \E b \in BondId : sweep_undistributed(a, b, n)
    BY <1>1, <1>2, <1>3, <2>1 DEF CouponTypeOK, sweep_undistributed
  <2>2. CASE \E c \in Address : coupon_set_admin(a, c, n)
    BY <1>1, <1>2, <1>3, <2>2 DEF CouponTypeOK, coupon_set_admin, ledgerVars
  <2> QED
    BY <2>1, <2>2
<1>5. LedgersAgree'
  BY <1>1, <1>2 DEF LedgersAgree
<1>6. \A b \in BondId, t \in AccrualType, h \in Address : accruedByType'[b][t][h] # 0 =>
        couponBond[b] # {} /\ t \in TypesOf(bondConfig[b].credit_type)
  BY <1>1, <1>2 DEF OnlyClearable
<1> QED
  BY <1>2, <1>4, <1>5, <1>6, SameBonds
-----------------------------------------------------------------------------
\* What a step of the composed contracts may do to coupons: overpay no period
\* that one batch completes, and take nothing back that ever accrued.
NoOverpay ==
  \A b \in BondId, i \in Period : period[b][i] = {} =>
    \A p \in period'[b][i] : p.total_credits_earned <= total_credits(Worth(b, p.report_id))

AccrualGrows ==
  \A b \in BondId, h \in Address : EverAccrued(b, h) <= EverAccrued(b, h)'

\* Calls of the oracle leave the clock alone and change no measurement.
LEMMA ReportsKept ==
  ASSUME OracleInv, ReportsValid, NEW a \in Address, NEW n \in 0..MaxOracleNonce, OracleCall(a, n)
  PROVE  ReportsValid' /\ now' = now
<1>1. now' = now
  BY DEF OracleCall, register_provider, remove_provider, set_signature_threshold,
         set_minimum_verifier_stake, add_stake, withdraw_stake, submit_report, verify_report,
         challenge_report, resolve_challenge
<1>2. reports \in Seq(Report) /\ OracleTypeOK
  BY DEF OracleInv, OracleTypeOK
<1>3. ASSUME UNCHANGED reports PROVE ReportsValid'
  BY <1>3 DEF ReportsValid
<1>4. ASSUME NEW id \in DOMAIN reports, NEW r, r.data = reports[id].data,
             reports' = [reports EXCEPT ![id] = r]
      PROVE  ReportsValid'
  <2>1. DOMAIN reports' = DOMAIN reports /\ \A i \in DOMAIN reports : reports'[i].data = reports[i].data
    BY <1>2, <1>4
  <2> QED
    BY <2>1 DEF ReportsValid
<1>5. ASSUME NEW key \in Project, NEW m \in ReportMethodology, NEW data \in Measurement,
             submit_report(a, key, m, data, n)
      PROVE  ReportsValid'
  <2>1. ValidMeasurement(data)
    BY <1>5 DEF submit_report
  <2>2. PICK r : r.data = data /\ reports' = Append(reports, r)
    BY <1>5 DEF submit_report
  <2>3. ASSUME NEW i \in DOMAIN reports'
        PROVE  (i \in DOMAIN reports /\ reports'[i] = reports[i]) \/ reports'[i] = r
    BY <1>2, <2>2, <2>3
  <2> QED
    BY <2>1, <2>2, <2>3 DEF ReportsValid
<1>6. ASSUME NEW id \in DOMAIN reports, verify_report(a, id, n) PROVE ReportsValid'
  <2>1. /\ reports[id] \in Report /\ Sound(reports[id]) /\ reports[id].status = "Pending"
        /\ a # reports[id].provider /\ reports' = [reports EXCEPT ![id] = Countersigned(reports[id], a)]
    BY <1>2, <1>6 DEF OracleInv, AllSound, verify_report
  <2>2. Countersigned(reports[id], a).data = reports[id].data
    BY <1>2, <2>1, CountersignedReport
  <2> QED
    BY <1>4, <2>1, <2>2
<1>7. ASSUME NEW id \in DOMAIN reports, challenge_report(a, id, n) PROVE ReportsValid'
  <2> DEFINE r == [reports[id] EXCEPT !.challenge = "open", !.status = "Challenged"]
  <2>1. reports' = [reports EXCEPT ![id] = r]
    BY <1>2, <1>7 DEF challenge_report
  <2>2. reports[id] \in Report
    BY <1>2
  <2>3. r.data = reports[id].data
    BY <2>2 DEF Report
  <2> HIDE DEF r
  <2> QED
    BY <1>4, <2>1, <2>3
<1>8. ASSUME NEW id \in DOMAIN reports, NEW s \in ReportStatus, resolve_challenge(a, id, s, n)
      PROVE  ReportsValid'
  <2> DEFINE r == [reports[id] EXCEPT !.challenge = "resolved", !.status = s]
  <2>1. reports' = reports \/ reports' = [reports EXCEPT ![id] = r]
    BY <1>2, <1>8 DEF resolve_challenge
  <2>2. reports[id] \in Report
    BY <1>2
  <2>3. r.data = reports[id].data
    BY <2>2 DEF Report
  <2> HIDE DEF r
  <2> QED
    BY <1>3, <1>4, <2>1, <2>3
<1>9. ASSUME \/ \E p \in Address : register_provider(a, p, n) \/ remove_provider(a, p, n)
             \/ \E t \in SignatureThreshold : set_signature_threshold(a, t, n)
             \/ \E s \in Stake :
                  set_minimum_verifier_stake(a, s, n) \/ add_stake(a, s, n) \/ withdraw_stake(a, s, n)
      PROVE  UNCHANGED reports
  BY <1>9 DEF register_provider, remove_provider, set_signature_threshold,
              set_minimum_verifier_stake, add_stake, withdraw_stake
<1>10. ReportsValid'
  BY <1>3, <1>5, <1>6, <1>7, <1>8, <1>9 DEF OracleCall
<1> QED
  BY <1>1, <1>10

\* Issued configurations stay as they were issued.
LEMMA ConfigsKept ==
  ASSUME IInv, [Next]_vars
  PROVE  \A b \in 1..bondCount : b \in 1..bondCount' /\ bondConfig'[b] = bondConfig[b]
<1>1. bondConfig \in Seq(Configs) /\ Len(bondConfig) = bondCount /\ bondCount \in Nat
  BY DEF IInv, TypeOK
<1>2. ASSUME NEW config, NEW a, NEW n, issue_bond(a, config, n)
      PROVE  \A b \in 1..bondCount : b \in 1..bondCount' /\ bondConfig'[b] = bondConfig[b]
  BY <1>1, <1>2 DEF issue_bond
<1>3. ASSUME UNCHANGED <<bondCount, bondConfig>>
      PROVE  \A b \in 1..bondCount : b \in 1..bondCount' /\ bondConfig'[b] = bondConfig[b]
  BY <1>3
<1>4. ASSUME NEW a \in Address, NEW n \in 0..MaxNonce, IssuerCall(a, n)
      PROVE  \/ UNCHANGED <<bondCount, bondConfig>>
             \/ \E config \in Configs : issue_bond(a, config, n)
  <2>1. ASSUME set_project_registry(a, n) PROVE UNCHANGED <<bondCount, bondConfig>>
    BY <2>1 DEF set_project_registry
  <2>2. ASSUME NEW b \in BondId, NEW amount \in Amount,
               \/ subscribe(a, b, amount, n)
               \/ \E to \in Address : transfer(a, to, b, amount, n)
               \/ fund_redemption(a, b, amount, n)
               \/ redeem(a, b, amount, n)
        PROVE  UNCHANGED <<bondCount, bondConfig>>
    BY <2>2 DEF subscribe, transfer, Transferred, fund_redemption, redeem
  <2>3. ASSUME NEW b \in BondId, mature_bond(a, b, n) PROVE UNCHANGED <<bondCount, bondConfig>>
    BY <2>3 DEF mature_bond
  <2> QED
    BY <1>4, <2>1, <2>2, <2>3 DEF IssuerCall
<1>5. ASSUME \/ \E a, c \in Address : set_admin(a, c)
             \/ RegistryStep \/ Tick \/ UNCHANGED vars
      PROVE  UNCHANGED <<bondCount, bondConfig>>
  BY <1>5 DEF set_admin, RegistryStep, Tick, vars, issuerVars
<1> QED
  BY <1>2, <1>3, <1>4, <1>5 DEF Next

\* Steps of the other contracts leave the ledgers of the engine alone.
LEMMA EngineIdle ==
  ASSUME EngineInv, [Next]_vars, UNCHANGED couponVars
  PROVE  CouponInv' /\ NoOverpay /\ AccrualGrows
<1>1. CouponTypeOK /\ Registered /\ OnlyClearable /\ LedgersAgree /\ IInv
  BY DEF EngineInv, CouponInv
<1>2. \A b \in 1..bondCount : b \in 1..bondCount' /\ bondConfig'[b] = bondConfig[b]
  BY <1>1, ConfigsKept
<1>3. CouponTypeOK'
  BY <1>1 DEF couponVars, ledgerVars, CouponTypeOK
<1>4. UNCHANGED <<couponBond, accrued, accruedByType, claimed, period>>
  BY DEF couponVars, ledgerVars
<1>5. Registered'
  BY <1>1, <1>2, <1>4 DEF Registered
<1>6. OnlyClearable'
  <2> SUFFICES ASSUME NEW b \in BondId, NEW t \in AccrualType, NEW h \in Address,
                      accruedByType[b][t][h] # 0
               PROVE  couponBond[b] # {} /\ t \in TypesOf(bondConfig'[b].credit_type)
    BY <1>4 DEF OnlyClearable
  <2>1. couponBond[b] # {} /\ t \in TypesOf(bondConfig[b].credit_type)
    BY <1>1 DEF OnlyClearable
  <2>2. b \in 1..bondCount
    BY <1>1, <2>1 DEF Registered
  <2> QED
    BY <1>2, <2>1, <2>2
<1>7. LedgersAgree'
  BY <1>1, <1>4 DEF LedgersAgree
<1>8. NoOverpay
  BY <1>4 DEF NoOverpay
<1>9. AccrualGrows
  <2>1. \A b \in BondId, h \in Address : EverAccrued(b, h)' = EverAccrued(b, h) /\ EverAccrued(b, h) \in Nat
    BY <1>1, <1>4 DEF EverAccrued, CouponTypeOK
  <2> QED
    BY <2>1 DEF AccrualGrows
<1> QED
  BY <1>3, <1>5, <1>6, <1>7, <1>8, <1>9 DEF CouponInv

\* Every step of the composed contracts keeps the invariant of the engine.
LEMMA EngineStep ==
  ASSUME EngineInv, [CouponNext]_<<vars, oracleVars, couponVars>>
  PROVE  EngineInv' /\ NoOverpay /\ AccrualGrows
<1>1. IInv /\ OracleInv /\ ReportsValid /\ CouponInv /\ CouponTypeOK
  BY DEF EngineInv, CouponInv
<1>2. ASSUME UNCHANGED <<now, oracleVars>> PROVE OracleInv' /\ ReportsValid'
  <2>1. reports' = reports
    BY <1>2 DEF oracleVars
  <2>2. ReportsValid'
    BY <1>1, <2>1 DEF ReportsValid
  <2> QED
    BY <1>1, <1>2, <2>2, OracleInvStep
<1>3. ASSUME UNCHANGED vars PROVE IInv' /\ now' = now
  BY <1>1, <1>3, InvNext DEF vars
<1>4. ASSUME [Next]_vars, OracleInv', ReportsValid', UNCHANGED couponVars
      PROVE  EngineInv' /\ NoOverpay /\ AccrualGrows
  BY <1>1, <1>4, InvNext, EngineIdle DEF EngineInv
<1>5. ASSUME NEW a \in Address, NEW n \in 0..MaxCouponNonce, CouponCall(a, n), UNCHANGED <<vars, oracleVars>>
      PROVE  EngineInv' /\ NoOverpay /\ AccrualGrows
  <2>1. IInv' /\ OracleInv' /\ ReportsValid' /\ n \in Nat /\ UNCHANGED vars
    BY <1>2, <1>3, <1>5, CouponAssumption
  <2>2. ASSUME UNCHANGED <<period, accrued, claimed>> PROVE NoOverpay /\ AccrualGrows
    <3>1. \A b \in BondId, h \in Address : EverAccrued(b, h)' = EverAccrued(b, h) /\ EverAccrued(b, h) \in Nat
      BY <1>1, <2>2 DEF EverAccrued, CouponTypeOK
    <3> QED
      BY <2>2, <3>1 DEF NoOverpay, AccrualGrows
  <2>3. ASSUME NEW b \in BondId, NEW key \in Project, register_bond(a, b, key, n)
        PROVE  CouponInv' /\ NoOverpay /\ AccrualGrows
    <3>1. UNCHANGED <<period, accrued, claimed>>
      BY <2>3 DEF register_bond, ledgerVars
    <3> QED
      BY <2>1, <2>2, <2>3, <3>1, RegisterInv
  <2>4. ASSUME NEW b \in BondId, NEW i \in Period, NEW holders \in HolderList, NEW id \in DOMAIN reports,
               NEW offset \in Nat, NEW limit \in Nat,
               distribute_coupon_batch(a, b, i, holders, id, offset, limit, n)
        PROVE  CouponInv' /\ NoOverpay /\ AccrualGrows
    <3>1. /\ CouponInv'
          /\ period[b][i] = {} => \A p \in period'[b][i] :
               p.report_id = id /\ p.total_credits_earned <= total_credits(Worth(b, id))
          /\ \A c \in BondId, j \in Period : (c # b \/ j # i) => period'[c][j] = period[c][j]
          /\ \A c \in BondId, h \in Address : accrued[c][h] <= accrued'[c][h]
          /\ claimed' = claimed
      BY <2>1, <2>4, BatchInv
    <3>2. NoOverpay
      BY <3>1 DEF NoOverpay
    <3>3. AccrualGrows
      <4>1. ASSUME NEW c \in BondId, NEW h \in Address PROVE EverAccrued(c, h) <= EverAccrued(c, h)'
        <5>1. accrued[c][h] \in Nat /\ accrued'[c][h] \in Nat /\ claimed[c][h] \in Nat
          BY <1>1, <3>1 DEF CouponTypeOK, CouponInv
        <5> QED
          BY <3>1, <5>1 DEF EverAccrued
      <4> QED
        BY <4>1 DEF AccrualGrows
    <3> QED
      BY <3>1, <3>2, <3>3
  <2>5. ASSUME NEW b \in BondId, claim_credits(a, b, n) PROVE CouponInv' /\ NoOverpay /\ AccrualGrows
    <3>1. /\ CouponInv' /\ period' = period
          /\ \A c \in BondId, h \in Address : EverAccrued(c, h)' = EverAccrued(c, h)
      BY <2>1, <2>5, ClaimInv
    <3>2. \A c \in BondId, h \in Address : EverAccrued(c, h) \in Nat
      BY <1>1 DEF EverAccrued, CouponTypeOK
    <3> QED
      BY <3>1, <3>2 DEF NoOverpay, AccrualGrows
  <2>6. ASSUME \/ \E b \in BondId : sweep_undistributed(a, b, n)
               \/ \E c \in Address : coupon_set_admin(a, c, n)
        PROVE  CouponInv' /\ NoOverpay /\ AccrualGrows
    BY <2>1, <2>2, <2>6, SweepInv
  <2>7. ASSUME NEW b \in BondId, NEW i \in Period, NEW holders \in HolderList, NEW id \in DOMAIN reports,
               \/ distribute_coupon(a, b, i, holders, id, n)
               \/ \E offset, limit \in 0..MAX_COUPON_BATCH_SIZE :
                    distribute_coupon_batch(a, b, i, holders, id, offset, limit, n)
        PROVE  CouponInv' /\ NoOverpay /\ AccrualGrows
    <3>1. Len(holders) \in Nat /\ 0..MAX_COUPON_BATCH_SIZE \subseteq Nat
      BY CouponAssumption
    <3> QED
      BY <2>4, <2>7, <3>1 DEF distribute_coupon
  <2>8. CouponInv' /\ NoOverpay /\ AccrualGrows
    BY <1>5, <2>3, <2>5, <2>6, <2>7 DEF CouponCall
  <2> QED
    BY <2>1, <2>8 DEF EngineInv
<1>6. ASSUME NEW a \in Address, NEW n \in 0..MaxNonce, IssuerCall(a, n), UNCHANGED <<oracleVars, couponVars>>
      PROVE  EngineInv' /\ NoOverpay /\ AccrualGrows
  <2>1. now' = now
    <3>1. ASSUME NEW b \in BondId, NEW amount \in Amount,
                 \/ subscribe(a, b, amount, n)
                 \/ \E to \in Address : transfer(a, to, b, amount, n)
                 \/ fund_redemption(a, b, amount, n)
                 \/ redeem(a, b, amount, n)
          PROVE  now' = now
      BY <3>1 DEF subscribe, transfer, fund_redemption, redeem
    <3> QED
      BY <1>6, <3>1 DEF IssuerCall, set_project_registry, issue_bond, mature_bond
  <2>2. [Next]_vars /\ UNCHANGED <<now, oracleVars>>
    BY <1>6, <2>1 DEF Next
  <2> QED
    BY <1>2, <1>4, <1>6, <2>2
<1>7. ASSUME NEW a \in Address, NEW n \in 0..MaxOracleNonce, OracleCall(a, n),
             UNCHANGED <<project, issuerVars, couponVars>>
      PROVE  EngineInv' /\ NoOverpay /\ AccrualGrows
  <2>1. ReportsValid' /\ now' = now
    BY <1>1, <1>7, ReportsKept
  <2>2. OracleInv'
    BY <1>1, <1>7, OracleInvStep DEF OracleNext
  <2>3. UNCHANGED vars
    BY <1>7, <2>1 DEF vars
  <2> QED
    BY <1>4, <1>7, <2>1, <2>2, <2>3
<1>8. ASSUME NEW a \in Address, NEW c \in Address, set_admin(a, c), UNCHANGED <<oracleVars, couponVars>>
      PROVE  EngineInv' /\ NoOverpay /\ AccrualGrows
  <2>1. [Next]_vars /\ UNCHANGED <<now, oracleVars>>
    BY <1>8 DEF Next, set_admin
  <2> QED
    BY <1>2, <1>4, <1>8, <2>1
<1>9. ASSUME NEW a \in Address, NEW c \in Address, oracle_set_admin(a, c),
             UNCHANGED <<project, issuerVars, couponVars>>
      PROVE  EngineInv' /\ NoOverpay /\ AccrualGrows
  <2>1. now' = now /\ reports' = reports
    BY <1>9 DEF oracle_set_admin
  <2>2. OracleInv' /\ ReportsValid'
    BY <1>1, <1>9, <2>1, OracleInvStep DEF OracleNext, ReportsValid
  <2>3. UNCHANGED vars
    BY <1>9, <2>1 DEF vars
  <2> QED
    BY <1>4, <1>9, <2>2, <2>3
<1>10. ASSUME Tick, UNCHANGED <<oracleVars, couponVars>>
       PROVE  EngineInv' /\ NoOverpay /\ AccrualGrows
  <2>1. [Next]_vars
    BY <1>10 DEF Next
  <2>2. reports' = reports
    BY <1>10 DEF oracleVars
  <2>3. OracleInv' /\ ReportsValid'
    BY <1>1, <1>10, <2>2, OracleInvStep DEF Tick, OracleNext, ReportsValid
  <2> QED
    BY <1>4, <1>10, <2>1, <2>3
<1>11. CASE UNCHANGED <<vars, oracleVars, couponVars>>
  <2>1. UNCHANGED vars /\ UNCHANGED couponVars /\ UNCHANGED <<now, oracleVars>>
    BY <1>11, <1>3
  <2> QED
    BY <1>2, <1>4, <2>1
<1> QED
  BY <1>5, <1>6, <1>7, <1>8, <1>9, <1>10, <1>11 DEF CouponNext

\* The contracts as they are deployed.
LEMMA EngineInit == Init /\ OracleInit /\ CouponInit => EngineInv
<1> SUFFICES ASSUME Init, OracleInit, CouponInit PROVE EngineInv
  OBVIOUS
<1>1. IInv
  BY InvInit
<1>2. OracleInv
  BY OracleInvInit DEF OracleStart, Init
<1>3. ReportsValid
  BY DEF ReportsValid, OracleInit
<1>4. CouponTypeOK
  <2>1. accrued \in [BondId -> [Address -> Nat]] /\ claimed \in [BondId -> [Address -> Nat]]
    BY DEF CouponInit
  <2>2. accruedByType \in [BondId -> [AccrualType -> [Address -> Nat]]]
    BY DEF CouponInit
  <2>3. periodHolder \in [BondId -> [Period -> [AccrualType -> [Address -> Nat]]]]
    BY DEF CouponInit
  <2>4. period \in [BondId -> [Period -> SUBSET PeriodInfo]]
    BY DEF CouponInit
  <2> QED
    BY <2>1, <2>2, <2>3, <2>4 DEF CouponInit, CouponTypeOK
<1>5. Registered
  BY DEF CouponInit, Registered
<1>6. \A b \in BondId, t \in AccrualType, h \in Address : accruedByType[b][t][h] = 0
  BY DEF CouponInit
<1>7. OnlyClearable
  BY <1>6 DEF OnlyClearable
<1>8. LedgersAgree
  BY <1>6 DEF CouponInit, LedgersAgree, AccrualType
<1> QED
  BY <1>1, <1>2, <1>3, <1>4, <1>5, <1>7, <1>8 DEF EngineInv, CouponInv

LEMMA EngineInvariant == CouponSpec => []EngineInv
<1> QED
  BY EngineInit, EngineStep, PTL DEF CouponSpec

\* What a claim pays out is what the ledgers by type hold, through any
\* registrations, batches and claims (distribute_coupon_batch, claim_credits).
THEOREM LedgersInStep == CouponSpec => []LedgersAgree
<1>1. EngineInv => LedgersAgree
  BY DEF EngineInv, CouponInv
<1> QED
  BY <1>1, EngineInvariant, PTL

\* A period that one batch distributes from start to end hands out at most
\* what its report is worth, for any balances, rates and list of holders
\* (checked_ratio rounds down, and the balances add up to the total).
THEOREM BatchNeverOverpays == CouponSpec => OneBatchNeverOverpays
<1>1. EngineInv /\ [CouponNext]_<<vars, oracleVars, couponVars>> =>
        [NoOverpay]_<<vars, oracleVars, couponVars>>
  BY EngineStep
<1>2. CouponSpec => [][NoOverpay]_<<vars, oracleVars, couponVars>>
  BY <1>1, EngineInvariant, PTL DEF CouponSpec
<1> QED
  BY <1>2 DEF NoOverpay, OneBatchNeverOverpays
-----------------------------------------------------------------------------
\* What the records, and the counters per bond, say that h has retired.
Recorded(h) ==
  [i \in DOMAIN retirements |-> IF retirements[i].holder = h THEN retirements[i].amount ELSE 0]
PerBond(h) == [b \in BondId |-> retiredPerBond[b][h]]

Retirement == [holder : Address, bond_id : BondId, amount : Nat]

RetireTypeOK ==
  /\ retireAdmin \in Address
  /\ retireNonce \in [Address -> Nat]
  /\ retirements \in Seq(Retirement)
  /\ retiredPerBond \in [BondId -> [Address -> Nat]]
  /\ retiredCredits \in [Address -> Nat]

FiniteRecords ==
  \A h \in Address : IsFiniteSet(Units(Recorded(h))) /\ IsFiniteSet(Units(PerBond(h)))

RetireInv == RetireTypeOK /\ FiniteRecords /\ RetirementsAreBacked

CreditInv == EngineInv /\ RetireInv

LEMMA RetireInitial == RetireInit /\ EngineInv => RetireInv
<1> SUFFICES ASSUME RetireInit, EngineInv PROVE RetireInv
  OBVIOUS
<1>1. RetireTypeOK
  BY DEF RetireInit, RetireTypeOK
<1>2. ASSUME NEW h \in Address
      PROVE  /\ Recorded(h) = [i \in {} |-> 0] /\ PerBond(h) = [b \in BondId |-> 0]
             /\ retiredCredits[h] = 0
  BY DEF RetireInit, Recorded, PerBond
<1>3. ASSUME NEW h \in Address
      PROVE  /\ IsFiniteSet(Units(Recorded(h))) /\ Tally(Recorded(h)) = 0
             /\ IsFiniteSet(Units(PerBond(h))) /\ Tally(PerBond(h)) = 0
  BY <1>2, <1>3, TallyZero
<1>4. ASSUME NEW h \in Address, NEW b \in BondId PROVE retiredPerBond[b][h] <= EverAccrued(b, h)
  <2>1. EverAccrued(b, h) \in Nat
    BY DEF EngineInv, CouponInv, CouponTypeOK, EverAccrued
  <2> QED
    BY <2>1 DEF RetireInit
<1>5. RetirementsAreBacked
  BY <1>2, <1>3, <1>4 DEF RetirementsAreBacked, Recorded, PerBond
<1> QED
  BY <1>1, <1>3, <1>5 DEF RetireInv, FiniteRecords

\* Steps of the other contracts: the records stay, and what they are checked
\* against never shrinks, claims included.
LEMMA RetireIdle ==
  ASSUME RetireInv, EngineInv, EngineInv', AccrualGrows,
         UNCHANGED <<retirements, retiredPerBond, retiredCredits>>, RetireTypeOK'
  PROVE  RetireInv'
<1>1. ASSUME NEW h \in Address PROVE Recorded(h)' = Recorded(h) /\ PerBond(h)' = PerBond(h)
  BY DEF Recorded, PerBond
<1>2. FiniteRecords'
  BY <1>1 DEF RetireInv, FiniteRecords
<1>3. ASSUME NEW h \in Address
      PROVE  Tally(Recorded(h)') = retiredCredits'[h] /\ Tally(PerBond(h)') = retiredCredits'[h]
  <2>1. Tally(Recorded(h)) = retiredCredits[h] /\ Tally(PerBond(h)) = retiredCredits[h]
    BY DEF RetireInv, RetirementsAreBacked, Recorded, PerBond
  <2> QED
    BY <1>1, <2>1
<1>4. ASSUME NEW h \in Address, NEW b \in BondId PROVE retiredPerBond'[b][h] <= EverAccrued(b, h)'
  <2>1. retiredPerBond[b][h] \in Nat /\ EverAccrued(b, h) \in Nat /\ EverAccrued(b, h)' \in Nat
    <3>1. CouponTypeOK /\ CouponTypeOK' /\ RetireTypeOK
      BY DEF RetireInv, EngineInv, CouponInv
    <3>2. /\ accrued[b][h] \in Nat /\ claimed[b][h] \in Nat
          /\ accrued'[b][h] \in Nat /\ claimed'[b][h] \in Nat
      BY <3>1 DEF CouponTypeOK
    <3>3. retiredPerBond[b][h] \in Nat
      BY <3>1 DEF RetireTypeOK
    <3>4. accrued[b][h] + claimed[b][h] \in Nat /\ accrued'[b][h] + claimed'[b][h] \in Nat
      BY <3>2
    <3> QED
      BY <3>3, <3>4 DEF EverAccrued
  <2>2. retiredPerBond[b][h] <= EverAccrued(b, h) /\ EverAccrued(b, h) <= EverAccrued(b, h)'
    BY DEF RetireInv, RetirementsAreBacked, AccrualGrows
  <2> QED
    BY <2>1, <2>2
<1>5. RetirementsAreBacked'
  BY <1>3, <1>4 DEF RetirementsAreBacked, Recorded, PerBond
<1> QED
  BY <1>2, <1>5 DEF RetireInv

\* A retirement is written to the records and to both counters.
LEMMA RetireCredits ==
  ASSUME CreditInv, NEW a \in Address, NEW b \in BondId, NEW amount \in Retirable, NEW n \in Nat,
         retire_credits(a, b, amount, n), UNCHANGED couponVars
  PROVE  RetireInv'
<1> DEFINE rec == [holder |-> a, bond_id |-> b, amount |-> amount]
<1>0. PICK top : top = Len(retirements) + 1
  OBVIOUS
<1>1. RetireTypeOK /\ FiniteRecords /\ RetirementsAreBacked /\ CouponTypeOK
  BY DEF CreditInv, RetireInv, EngineInv, CouponInv
<1>2. amount \in Nat /\ amount > 0
  BY RetireAssumption, I128Assumption DEF I128, retire_credits
<1>3. /\ retire_use_nonce(a, n) /\ amount <= Remaining(b, a) /\ UNCHANGED retireAdmin
      /\ retiredPerBond' = [retiredPerBond EXCEPT ![b][a] = @ + amount]
      /\ retiredCredits' = [retiredCredits EXCEPT ![a] = @ + amount]
      /\ retirements' = Append(retirements, rec)
  BY DEF retire_credits
<1>4. rec \in Retirement /\ rec.holder = a /\ rec.amount = amount
  BY <1>2 DEF Retirement
<1> HIDE DEF rec
<1>5. RetireTypeOK'
  BY <1>1, <1>2, <1>3, <1>4 DEF RetireTypeOK, retire_use_nonce
<1>6. /\ DOMAIN retirements' = DOMAIN retirements \cup {top} /\ top \notin DOMAIN retirements
      /\ retirements'[top] = rec /\ \A i \in DOMAIN retirements : retirements'[i] = retirements[i]
  BY <1>0, <1>1, <1>3, <1>4 DEF RetireTypeOK
<1>7. ASSUME NEW h \in Address
      PROVE  /\ retiredCredits[h] \in Nat
             /\ retiredCredits'[h] = retiredCredits[h] + (IF h = a THEN amount ELSE 0)
             /\ \A c \in BondId :
                  /\ retiredPerBond[c][h] \in Nat
                  /\ retiredPerBond'[c][h] = retiredPerBond[c][h] + (IF c = b /\ h = a THEN amount ELSE 0)
  BY <1>1, <1>2, <1>3, <1>7 DEF RetireTypeOK
<1>8. ASSUME NEW h \in Address
      PROVE  /\ IsFiniteSet(Units(Recorded(h))) /\ Tally(Recorded(h)) = retiredCredits[h]
             /\ IsFiniteSet(Units(PerBond(h))) /\ Tally(PerBond(h)) = retiredCredits[h]
  BY <1>1, <1>8 DEF FiniteRecords, RetirementsAreBacked, Recorded, PerBond
<1>9. ASSUME NEW h \in Address
      PROVE  IsFiniteSet(Units(Recorded(h)')) /\ Tally(Recorded(h)') = retiredCredits'[h]
  <2> DEFINE f == Recorded(h)
             g == Recorded(h)'
  <2>1. f \in [DOMAIN retirements -> Nat]
    <3>1. \A i \in DOMAIN retirements : retirements[i] \in Retirement
      BY <1>1 DEF RetireTypeOK
    <3> QED
      BY <3>1 DEF Recorded, Retirement
  <2>2. g[top] = (IF h = a THEN amount ELSE 0) /\ \A i \in DOMAIN retirements : g[i] = f[i]
    BY <1>4, <1>6 DEF Recorded
  <2>3. g \in [DOMAIN retirements \cup {top} -> Nat]
    <3>1. g = [i \in DOMAIN retirements \cup {top} |-> g[i]]
      BY <1>6 DEF Recorded
    <3>2. ASSUME NEW i \in DOMAIN retirements \cup {top} PROVE g[i] \in Nat
      <4> HIDE DEF g, f
      <4>1. CASE i = top
        BY <1>2, <2>2, <4>1
      <4>2. CASE i \in DOMAIN retirements
        BY <2>1, <2>2, <4>2
      <4> QED
        BY <4>1, <4>2
    <3> HIDE DEF g
    <3> QED
      BY <3>1, <3>2
  <2>4. IsFiniteSet(Units(f)) /\ Tally(f) = retiredCredits[h]
    BY <1>8, <1>9
  <2> HIDE DEF f, g
  <2>5. IsFiniteSet(Units(g)) /\ Tally(g) = Tally(f) + g[top]
    BY <1>6, <2>1, <2>2, <2>3, <2>4, TallyNewKey
  <2>6. Tally(g) = retiredCredits'[h]
    BY <1>7, <2>2, <2>4, <2>5
  <2> QED
    BY <2>5, <2>6 DEF g
<1>10. ASSUME NEW h \in Address
       PROVE  IsFiniteSet(Units(PerBond(h)')) /\ Tally(PerBond(h)') = retiredCredits'[h]
  <2> DEFINE f == PerBond(h)
             g == PerBond(h)'
  <2>1. /\ f \in [BondId -> Nat] /\ g \in [BondId -> Nat]
        /\ \A c \in BondId : c # b => g[c] = f[c]
        /\ g[b] = f[b] + (IF h = a THEN amount ELSE 0) /\ f[b] \in Nat
    BY <1>2, <1>7, <1>10 DEF PerBond
  <2>2. IsFiniteSet(Units(f)) /\ Tally(f) = retiredCredits[h]
    BY <1>8, <1>10
  <2> HIDE DEF f, g
  <2>3. IsFiniteSet(Units(g)) /\ Tally(g) = Tally(f) - f[b] + g[b]
    BY <2>1, <2>2, TallyChange
  <2>4. Tally(g) = retiredCredits'[h]
    BY <1>2, <1>7, <1>10, <2>1, <2>2, <2>3
  <2> QED
    BY <2>3, <2>4 DEF g
<1>11. ASSUME NEW h \in Address, NEW c \in BondId PROVE retiredPerBond'[c][h] <= EverAccrued(c, h)'
  <2>1. EverAccrued(c, h)' = EverAccrued(c, h)
    BY DEF EverAccrued, couponVars, ledgerVars
  <2>2. accrued[c][h] \in Nat /\ claimed[c][h] \in Nat
    BY <1>1, <1>11 DEF CouponTypeOK
  <2>3. retiredPerBond[c][h] <= accrued[c][h] + claimed[c][h]
    BY <1>1, <1>11 DEF RetirementsAreBacked, EverAccrued
  <2>4. c = b /\ h = a => amount <= accrued[c][h] - retiredPerBond[c][h]
    BY <1>3 DEF Remaining
  <2> QED
    BY <1>2, <1>7, <1>11, <2>1, <2>2, <2>3, <2>4 DEF EverAccrued
<1>12. FiniteRecords'
  BY <1>9, <1>10 DEF FiniteRecords
<1>13. RetirementsAreBacked'
  BY <1>9, <1>10, <1>11 DEF RetirementsAreBacked, Recorded, PerBond
<1> QED
  BY <1>5, <1>12, <1>13 DEF RetireInv

LEMMA CreditStep == CreditInv /\ [RetireNext]_creditVars => CreditInv'
<1> SUFFICES ASSUME CreditInv, [RetireNext]_creditVars PROVE CreditInv'
  OBVIOUS
<1>1. EngineInv /\ RetireInv /\ RetireTypeOK
  BY DEF CreditInv, RetireInv
<1>2. ASSUME [CouponNext]_<<vars, oracleVars, couponVars>>, UNCHANGED retireVars PROVE CreditInv'
  <2>1. EngineInv' /\ AccrualGrows
    BY <1>1, <1>2, EngineStep
  <2>2. RetireTypeOK' /\ UNCHANGED <<retirements, retiredPerBond, retiredCredits>>
    BY <1>1, <1>2 DEF retireVars, RetireTypeOK
  <2> QED
    BY <1>1, <2>1, <2>2, RetireIdle DEF CreditInv
<1>3. ASSUME NEW a \in Address, NEW n \in 0..MaxRetireNonce, RetireCall(a, n),
             UNCHANGED <<vars, oracleVars, couponVars>>
      PROVE  CreditInv'
  <2>1. EngineInv' /\ AccrualGrows /\ n \in Nat
    BY <1>1, <1>3, EngineStep, RetireAssumption
  <2>2. ASSUME NEW b \in BondId, NEW amount \in Retirable, retire_credits(a, b, amount, n)
        PROVE  RetireInv'
    BY <1>3, <2>1, <2>2, RetireCredits
  <2>3. ASSUME NEW c \in Address, retire_set_admin(a, c, n) PROVE RetireInv'
    <3>1. RetireTypeOK' /\ UNCHANGED <<retirements, retiredPerBond, retiredCredits>>
      BY <1>1, <2>1, <2>3 DEF retire_set_admin, retire_use_nonce, RetireTypeOK
    <3> QED
      BY <1>1, <2>1, <3>1, RetireIdle
  <2> QED
    BY <1>3, <2>1, <2>2, <2>3 DEF RetireCall, CreditInv
<1>4. CASE UNCHANGED creditVars
  <2>1. UNCHANGED <<vars, oracleVars, couponVars>> /\ UNCHANGED retireVars
    BY <1>4 DEF creditVars
  <2> QED
    BY <1>2, <2>1
<1> QED
  BY <1>2, <1>3, <1>4 DEF RetireNext

LEMMA CreditInvariant == RetireSpec => []CreditInv
<1>1. Init /\ OracleInit /\ CouponInit /\ RetireInit => CreditInv
  BY EngineInit, RetireInitial DEF CreditInv
<1> QED
  BY <1>1, CreditStep, PTL DEF RetireSpec

\* Nobody retires more than ever accrued to them, and the numbered records,
\* the counters per bond and the counters per holder agree, with claims and
\* coupons in any order in between (retire_credits).
THEOREM RetirementsBacked == RetireSpec => []RetirementsAreBacked
<1>1. CreditInv => RetirementsAreBacked
  BY DEF CreditInv, RetireInv
<1> QED
  BY <1>1, CreditInvariant, PTL
-----------------------------------------------------------------------------
(***************************************************************************)
(* The report service in front of the contract.  Two arguments, over one   *)
(* invariant:                                                              *)
(*  - a report is what its submission says, and every submission was       *)
(*    checked against its manifest before it was sent;                     *)
(*  - a list of reports, while it is read and while it is cached, shows a  *)
(*    report as it stands, unless its status changed since the reading     *)
(*    began, or it could not be read.                                      *)
(***************************************************************************)
IsSeq(s) == \E S : s \in Seq(S)

\* What the contract keeps of a report whatever becomes of it.
IsFiled(r) == {"project_id", "methodology", "data"} \subseteq DOMAIN r

AsSubmitted(id) ==
  LET o == origin[id] IN
  /\ <<o.spelling, o.dto>> \in Admitted /\ Integral(o.dto.carbon_sequestered)
  /\ reports[id].project_id = KeyOf[o.spelling] /\ reports[id].methodology = o.dto.methodology
  /\ reports[id].data = Measured(o.dto)

\* What is known of every report of a project, from readings that began at since.
Shows(list, key, todo, since) ==
  \A id \in DOMAIN reports : reports[id].project_id = key =>
    \/ changedAt[id] >= since
    \/ id \in todo \/ id \in list.lost
    \/ \E i \in DOMAIN list.seen : list.seen[i] = decodeReport(id)

IsList(list) == {"seen", "lost", "began", "took", "until"} \subseteq DOMAIN list /\ IsSeq(list.seen)

IsRequest(q) ==
  {"pc", "op", "spelling", "caller", "body", "nonce", "todo", "list"} \subseteq DOMAIN q /\ IsList(q.list)

AskedOK(q) ==
  q.op = "submit" /\ q.pc \in {"nonce", "invoke"} =>
    /\ <<q.spelling, q.body>> \in Admitted
    /\ q.pc = "invoke" => Integral(q.body.carbon_sequestered)

ReadingOK(q) ==
  q.pc = "read" => /\ q.spelling \in Spelling /\ q.list.began \in 0..now
                   /\ Shows(q.list, KeyOf[q.spelling], q.todo, q.list.began)

Since(list) == list.until - ReportTtl - list.took

CachedOK(sp) ==
  LET list == listing[sp] IN
  /\ IsList(list)
  /\ list.until \in Int /\ list.took \in Nat /\ list.until <= now + ReportTtl
  /\ Fresh(sp) => Shows(list, KeyOf[sp], {}, Since(list))

FiledInv ==
  /\ now \in Nat
  /\ IsSeq(reports) /\ Len(reports) <= MaxReports
  /\ origin \in Seq([dto : Dto, spelling : Spelling]) /\ Len(origin) = Len(reports)
  /\ \A id \in DOMAIN reports : IsFiled(reports[id]) /\ AsSubmitted(id)
  /\ changedAt \in [1..MaxReports -> Nat]

ServedInv ==
  /\ request = [r \in Request |-> request[r]]
  /\ \A r \in Request : IsRequest(request[r]) /\ AskedOK(request[r]) /\ ReadingOK(request[r])
  /\ listing = [sp \in Spelling |-> listing[sp]]
  /\ \A sp \in Spelling : CachedOK(sp)

ReportsInv == FiledInv /\ ServedInv

\* A status crosses the interface unharmed.
LEMMA StatusCrosses ==
  ASSUME NEW s \in ReportStatus
  PROVE  reportStatusFromIndex(StatusIndex[s]) = s
<1> QED
  BY DEF reportStatusFromIndex, StatusIndex, ReportStatus

\* What an admitted submission is.
LEMMA AdmittedTypes ==
  ASSUME NEW sp, NEW dto, <<sp, dto>> \in Admitted
  PROVE  /\ sp \in Spelling /\ dto \in Dto /\ Admissible(sp, dto)
         /\ KeyOf[sp] \in Project /\ dto.methodology \in ReportMethodology
         /\ dto.period_start \in Int /\ dto.period_end \in Int
         /\ dto.carbon_sequestered \in [num : Int, den : Int]
<1>1. sp \in Spelling /\ dto \in Dto /\ Admissible(sp, dto)
  BY DEF Admitted
<1> QED
  BY <1>1, ServiceAssumption

\* A whole quotient times its denominator is the numerator.
LEMMA WholeQuotient ==
  ASSUME NEW n \in Int, NEW d \in Nat \ {0}, n % d = 0
  PROVE  n \div d \in Int /\ (n \div d) * d = n
<1> QED
  BY Z3

\* A submission fits its manifest in what the manifest is compared with.
LEMMA ManifestFits ==
  ASSUME NEW dto \in Dto, NEW sp, verifyManifestMatchesReport(dto.manifest, With(dto, "project_id", sp))
  PROVE  /\ dto.manifest.project_id = sp /\ dto.manifest.methodology = dto.methodology
         /\ dto.manifest.carbon_sequestered = dto.carbon_sequestered
<1> DEFINE w == With(dto, "project_id", sp)
<1>1. dto = [methodology |-> dto.methodology, period_start |-> dto.period_start,
             period_end |-> dto.period_end, carbon_sequestered |-> dto.carbon_sequestered,
             evidence |-> dto.evidence, manifest |-> dto.manifest]
  BY ServiceAssumption
<1>2. {"methodology", "carbon_sequestered"} \subseteq DOMAIN dto
  BY <1>1
<1>3. w.project_id = sp /\ w.methodology = dto.methodology
      /\ w.carbon_sequestered = dto.carbon_sequestered
  BY <1>2 DEF With
<1> QED
  BY <1>3 DEF verifyManifestMatchesReport

\* What is filed as it was submitted is anchored as it was signed.
LEMMA SubmittedAsSigned == FiledInv => AnchoredAsSigned
<1> SUFFICES ASSUME FiledInv, NEW id \in DOMAIN reports, origin[id].dto.manifest # NoManifest
             PROVE  LET m == origin[id].dto.manifest IN
                    /\ verifyManifest(m)
                    /\ reports[id].project_id = KeyOf[m.project_id]
                    /\ reports[id].methodology = m.methodology
                    /\ reports[id].data.carbon_sequestered * m.carbon_sequestered.den
                         = m.carbon_sequestered.num
  BY DEF AnchoredAsSigned
<1> DEFINE dto == origin[id].dto
           sp == origin[id].spelling
<1>1. /\ <<sp, dto>> \in Admitted /\ Integral(dto.carbon_sequestered)
      /\ reports[id].project_id = KeyOf[sp] /\ reports[id].methodology = dto.methodology
      /\ reports[id].data = Measured(dto)
  BY DEF FiledInv, AsSubmitted
<1> HIDE DEF dto, sp
<1>2. dto \in Dto /\ Admissible(sp, dto) /\ dto.carbon_sequestered \in [num : Int, den : Int]
  BY <1>1, AdmittedTypes
<1>3. verifyManifest(dto.manifest) /\ verifyManifestMatchesReport(dto.manifest, With(dto, "project_id", sp))
  BY <1>2 DEF Admissible, dto
<1>4. /\ dto.manifest.project_id = sp /\ dto.manifest.methodology = dto.methodology
      /\ dto.manifest.carbon_sequestered = dto.carbon_sequestered
  BY <1>2, <1>3, ManifestFits
<1>5. reports[id].data.carbon_sequestered
        = dto.carbon_sequestered.num \div dto.carbon_sequestered.den
  BY <1>1 DEF Measured
<1>6. (dto.carbon_sequestered.num \div dto.carbon_sequestered.den) * dto.carbon_sequestered.den
        = dto.carbon_sequestered.num
  <2>1. /\ dto.carbon_sequestered.num \in Int /\ dto.carbon_sequestered.den \in Int
        /\ dto.carbon_sequestered.den > 0
        /\ dto.carbon_sequestered.num % dto.carbon_sequestered.den = 0
    BY <1>1, <1>2 DEF Integral
  <2>2. PICK n \in Int, d \in Nat \ {0} :
          n = dto.carbon_sequestered.num /\ d = dto.carbon_sequestered.den
    BY <2>1
  <2>3. n % d = 0
    BY <2>1, <2>2
  <2>4. (n \div d) * d = n
    BY <2>3, WholeQuotient
  <2> QED
    BY <2>2, <2>4, Zenon
<1> QED
  BY <1>1, <1>3, <1>4, <1>5, <1>6 DEF dto
-----------------------------------------------------------------------------
\* A list that shows what matters keeps showing it, whatever happens to the
\* reports: a change of status is noted.
Kept == \A id \in DOMAIN reports : id \in DOMAIN reports' /\ reports'[id].project_id = reports[id].project_id

LEMMA StillShown ==
  ASSUME FiledInv, Kept, IsSeq(reports'), Len(reports') <= MaxReports, Noted,
         NEW list, NEW key, NEW todo, NEW since \in Int, since <= now, Shows(list, key, todo, since)
  PROVE  Shows(list, key, todo, since)'
<1> SUFFICES ASSUME NEW id \in DOMAIN reports', reports'[id].project_id = key
             PROVE  \/ changedAt'[id] >= since
                    \/ id \in todo \/ id \in list.lost
                    \/ \E i \in DOMAIN list.seen : list.seen[i] = decodeReport(id)'
  BY DEF Shows
<1>1. id \in 1..MaxReports /\ now \in Nat /\ changedAt \in [1..MaxReports -> Nat]
  <2>1. id \in 1..Len(reports') /\ Len(reports') \in Nat
    BY DEF IsSeq
  <2>2. MaxReports \in Nat
    BY OracleAssumption
  <2> QED
    BY <2>1, <2>2 DEF FiledInv
<1>2. changedAt'[id] = IF id \notin DOMAIN reports \/ reports'[id].status # reports[id].status
                       THEN now ELSE changedAt[id]
  BY <1>1 DEF Noted
<1>3. CASE id \notin DOMAIN reports \/ reports'[id].status # reports[id].status
  BY <1>1, <1>2, <1>3
<1>4. CASE id \in DOMAIN reports /\ reports'[id].status = reports[id].status
  <2>1. decodeReport(id)' = decodeReport(id)
    BY <1>4 DEF decodeReport
  <2>2. reports[id].project_id = key /\ changedAt'[id] = changedAt[id]
    BY <1>2, <1>4 DEF Kept
  <2> QED
    BY <1>4, <2>1, <2>2 DEF Shows
<1> QED
  BY <1>3, <1>4

\* So do the requests and the cache.
LEMMA StillServed ==
  ASSUME ReportsInv, Kept, IsSeq(reports'), Len(reports') <= MaxReports, Noted, now' = now
  PROVE  /\ \A q : IsRequest(q) /\ ReadingOK(q) => ReadingOK(q)'
         /\ listing' = listing => \A sp \in Spelling : CachedOK(sp)'
<1>1. ASSUME NEW q, ReadingOK(q) PROVE ReadingOK(q)'
  <2> SUFFICES ASSUME q.pc = "read" PROVE ReadingOK(q)'
    BY DEF ReadingOK
  <2>1. q.list.began \in 0..now /\ Shows(q.list, KeyOf[q.spelling], q.todo, q.list.began)
    BY <1>1 DEF ReadingOK
  <2>2. q.list.began \in Int /\ q.list.began <= now
    BY <2>1 DEF ReportsInv, FiledInv
  <2>3. Shows(q.list, KeyOf[q.spelling], q.todo, q.list.began)'
    BY <2>1, <2>2, StillShown DEF ReportsInv
  <2> QED
    BY <1>1, <2>3 DEF ReadingOK
<1>2. ASSUME listing' = listing, NEW sp \in Spelling PROVE CachedOK(sp)'
  <2>0. PICK list : list = listing[sp]
    OBVIOUS
  <2>1. CachedOK(sp)
    BY DEF ReportsInv, ServedInv
  <2>2. list.until \in Int /\ list.took \in Nat /\ list.until <= now + ReportTtl /\ now \in Nat
    BY <2>0, <2>1 DEF CachedOK, ReportsInv, FiledInv
  <2>3. Since(list) \in Int /\ Since(list) <= now
    BY <2>2, ServiceAssumption DEF Since
  <2>4. Fresh(sp)' = Fresh(sp)
    BY <1>2 DEF Fresh
  <2>5. ASSUME Fresh(sp) PROVE Shows(list, KeyOf[sp], {}, Since(list))'
    <3>1. Shows(list, KeyOf[sp], {}, Since(list))
      BY <2>0, <2>1, <2>5 DEF CachedOK
    <3>2. Shows(list, KeyOf[sp], {}, Since(list))'
      BY <2>3, <3>1, StillShown DEF ReportsInv
    <3> QED
      BY <3>2
  <2> QED
    BY <1>2, <2>0, <2>1, <2>4, <2>5 DEF CachedOK
<1> QED
  BY <1>1, <1>2

\* A step that moves one request.
LEMMA RequestMoves ==
  ASSUME ReportsInv, FiledInv', \A q : IsRequest(q) /\ ReadingOK(q) => ReadingOK(q)',
         listing' = [sp \in Spelling |-> listing'[sp]], \A sp \in Spelling : CachedOK(sp)',
         NEW r \in Request, NEW q, Become(r, q), IsRequest(q), AskedOK(q), ReadingOK(q)'
  PROVE  ReportsInv'
<1>1. request' = [x \in Request |-> request'[x]]
      /\ \A x \in Request : request'[x] = IF x = r THEN q ELSE request[x]
  BY DEF Become, ReportsInv, ServedInv
<1>2. ASSUME NEW x \in Request
      PROVE  IsRequest(request'[x]) /\ AskedOK(request'[x]) /\ ReadingOK(request[x])'
  <2>1. CASE x = r
    <3>1. request'[x] = q
      BY <1>1, <2>1
    <3>2. ReadingOK(request[x])'
      BY <3>1 DEF ReadingOK
    <3> QED
      BY <3>1, <3>2
  <2>2. CASE x # r
    <3>1. PICK old : old = request[x]
      OBVIOUS
    <3>2. IsRequest(old) /\ AskedOK(old) /\ ReadingOK(old)'
      BY <3>1 DEF ReportsInv, ServedInv
    <3>3. request'[x] = old
      BY <1>1, <2>2, <3>1
    <3> QED
      BY <3>2, <3>3 DEF ReadingOK
  <2> QED
    BY <2>1, <2>2
<1>3. \A x \in Request : IsRequest(request[x])' /\ AskedOK(request[x])'
  BY <1>2 DEF IsRequest, IsList, AskedOK
<1> QED
  BY <1>1, <1>2, <1>3 DEF ReportsInv, ServedInv

\* What is known does not change with what the invariant does not look at.
LEMMA NothingChanges ==
  ASSUME ReportsInv, UNCHANGED <<now, reports, changedAt, origin>>
  PROVE  /\ FiledInv'
         /\ \A q : IsRequest(q) /\ ReadingOK(q) => ReadingOK(q)'
         /\ \A list, key, todo, since :
              Shows(list, key, todo, since) => Shows(list, key, todo, since)'
         /\ \A sp \in Spelling : listing'[sp] = listing[sp] => CachedOK(sp)'
<1>1. FiledInv'
  BY DEF ReportsInv, FiledInv, AsSubmitted, IsFiled
<1>2. ASSUME NEW list, NEW key, NEW todo, NEW since, Shows(list, key, todo, since)
      PROVE  Shows(list, key, todo, since)'
  BY <1>2 DEF Shows, decodeReport
<1>3. ASSUME NEW q, ReadingOK(q) PROVE ReadingOK(q)'
  BY <1>2, <1>3 DEF ReadingOK
<1>4. ASSUME NEW sp \in Spelling, listing'[sp] = listing[sp] PROVE CachedOK(sp)'
  <2>1. PICK list : list = listing[sp]
    OBVIOUS
  <2>2. CachedOK(sp)
    BY DEF ReportsInv, ServedInv
  <2>3. Fresh(sp) => Shows(list, KeyOf[sp], {}, Since(list))'
    BY <1>2, <2>1, <2>2 DEF CachedOK, Since
  <2>4. Fresh(sp)' = Fresh(sp)
    BY <1>4 DEF Fresh
  <2> QED
    BY <1>4, <2>1, <2>2, <2>3, <2>4 DEF CachedOK
<1> QED
  BY <1>1, <1>2, <1>3, <1>4

\* A request that moves by itself.
LEMMA RequestAlone ==
  ASSUME ReportsInv, UNCHANGED <<now, reports, changedAt, origin, listing>>,
         NEW r \in Request, NEW q, Become(r, q), IsRequest(q), AskedOK(q), ReadingOK(q)
  PROVE  ReportsInv'
<1>1. listing' = [sp \in Spelling |-> listing'[sp]]
  BY DEF ReportsInv, ServedInv
<1> QED
  BY <1>1, NothingChanges, RequestMoves

\* Nothing is asked of a request that is over.
LEMMA NoRequestOK ==
  ASSUME NEW q, q = NoRequest \/ q.pc \in {"evict", "answered", "invoke", "nonce"}, IsRequest(q),
         AskedOK(q)
  PROVE  ReadingOK(q)
<1> QED
  BY DEF ReadingOK, NoRequest

LEMMA NoListOK == IsList(NoList) /\ NoList.until = -1 /\ NoList.took = 0
<1>1. <<>> \in Seq({})
  OBVIOUS
<1> QED
  BY <1>1 DEF IsList, IsSeq, NoList

LEMMA NoRequestType == IsRequest(NoRequest) /\ AskedOK(NoRequest) /\ ReadingOK(NoRequest)
<1> QED
  BY NoListOK DEF IsRequest, AskedOK, ReadingOK, NoRequest

\* No history changes with a list of reports that stays.
LEMMA ChangesNoted ==
  ASSUME FiledInv, Noted
  PROVE  changedAt' \in [1..MaxReports -> Nat]
<1> QED
  BY DEF FiledInv, Noted

\* A report is signed, challenged or settled.
LEMMA ReportChanges ==
  ASSUME ReportsInv, NEW id \in DOMAIN reports, NEW r, IsFiled(r),
         r.project_id = reports[id].project_id, r.methodology = reports[id].methodology,
         r.data = reports[id].data,
         reports' = [reports EXCEPT ![id] = r], UNCHANGED <<now, origin>>, Noted
  PROVE  FiledInv' /\ Kept /\ IsSeq(reports') /\ Len(reports') <= MaxReports
<1>1. PICK S : reports \in Seq(S)
  BY DEF ReportsInv, FiledInv, IsSeq
<1>2. reports \in Seq(S \cup {r}) /\ reports' \in Seq(S \cup {r})
      /\ Len(reports') = Len(reports) /\ DOMAIN reports' = DOMAIN reports
  BY <1>1
<1>3. \A i \in DOMAIN reports : reports'[i] = IF i = id THEN r ELSE reports[i]
  BY <1>1
<1>4. ASSUME NEW i \in DOMAIN reports
      PROVE  /\ IsFiled(reports'[i]) /\ reports'[i].project_id = reports[i].project_id
             /\ reports'[i].methodology = reports[i].methodology
             /\ reports'[i].data = reports[i].data
  <2>1. CASE i = id
    BY <1>3, <2>1
  <2>2. CASE i # id
    BY <1>3, <2>2 DEF ReportsInv, FiledInv
  <2> QED
    BY <2>1, <2>2
<1>5. \A i \in DOMAIN reports : IsFiled(reports[i])' /\ AsSubmitted(i)'
  BY <1>4 DEF IsFiled, AsSubmitted, ReportsInv, FiledInv
<1>6. IsSeq(reports') /\ Len(reports') <= MaxReports
  BY <1>2 DEF IsSeq, ReportsInv, FiledInv
<1>7. Kept
  BY <1>2, <1>4 DEF Kept
<1>8. FiledInv'
  BY <1>2, <1>5, <1>6, ChangesNoted DEF ReportsInv, FiledInv
<1> QED
  BY <1>6, <1>7, <1>8

\* The changes of a report that the contract makes.
LEMMA ContractChanges ==
  ASSUME ReportsInv, NEW a, NEW id \in DOMAIN reports, NEW n, UNCHANGED origin, Noted,
         \/ verify_report(a, id, n) \/ challenge_report(a, id, n)
         \/ \E s \in {"Verified", "Rejected"} : resolve_challenge(a, id, s, n)
  PROVE  FiledInv' /\ Kept /\ IsSeq(reports') /\ Len(reports') <= MaxReports /\ now' = now
<1> DEFINE old == reports[id]
<1>1. IsFiled(old)
  BY DEF ReportsInv, FiledInv
<1>2. CASE verify_report(a, id, n)
  <2> DEFINE r == Countersigned(old, a)
  <2>1. /\ IsFiled(r) /\ r.project_id = old.project_id /\ r.methodology = old.methodology
        /\ r.data = old.data
    <3> HIDE DEF old
    <3> DEFINE verifiers == old.verifiers \cup {a}
               count == qualifying_verifier_count(verifiers)
               m == IF a \in old.verifiers THEN old.verification_count ELSE count
               signed == [old EXCEPT !.verifiers = verifiers, !.verification_count = m]
    <3>0. \/ r = signed
          \/ r = [signed EXCEPT !.status = "Verified", !.verified_at = now,
                    !.provider_stake_at_verification = provider[old.provider].stake]
      BY DEF Countersigned
    <3> HIDE DEF verifiers, m, r
    <3>1. /\ IsFiled(signed) /\ signed.project_id = old.project_id
          /\ signed.methodology = old.methodology /\ signed.data = old.data
      BY <1>1 DEF IsFiled
    <3> HIDE DEF signed
    <3> QED
      BY <3>0, <3>1 DEF IsFiled
  <2>2. reports' = [reports EXCEPT ![id] = r] /\ now' = now
    BY <1>2 DEF verify_report
  <2> HIDE DEF r
  <2> QED
    BY <2>1, <2>2, ReportChanges
<1>3. CASE challenge_report(a, id, n)
  <2> DEFINE r == [old EXCEPT !.challenge = "open", !.status = "Challenged"]
  <2>1. /\ IsFiled(r) /\ r.project_id = old.project_id /\ r.methodology = old.methodology
        /\ r.data = old.data
    BY <1>1 DEF IsFiled
  <2>2. reports' = [reports EXCEPT ![id] = r] /\ now' = now
    BY <1>3 DEF challenge_report
  <2> HIDE DEF r
  <2> QED
    BY <2>1, <2>2, ReportChanges
<1>4. ASSUME NEW s \in {"Verified", "Rejected"}, resolve_challenge(a, id, s, n)
      PROVE  FiledInv' /\ Kept /\ IsSeq(reports') /\ Len(reports') <= MaxReports /\ now' = now
  <2> DEFINE settled == [old EXCEPT !.challenge = "resolved", !.status = s]
             r == IF IsResolved(id) THEN old ELSE settled
  <2>1. /\ IsFiled(r) /\ r.project_id = old.project_id /\ r.methodology = old.methodology
        /\ r.data = old.data
    <3>1. /\ IsFiled(settled) /\ settled.project_id = old.project_id
          /\ settled.methodology = old.methodology /\ settled.data = old.data
      BY <1>1 DEF IsFiled
    <3> HIDE DEF settled, old
    <3> QED
      BY <1>1, <3>1
  <2>2. reports' = [reports EXCEPT ![id] = r] /\ now' = now
    <3>1. PICK S : reports \in Seq(S)
      BY DEF ReportsInv, FiledInv, IsSeq
    <3> QED
      BY <1>4, <3>1 DEF resolve_challenge
  <2> HIDE DEF r
  <2> QED
    BY <2>1, <2>2, ReportChanges
<1> QED
  BY <1>2, <1>3, <1>4

\* A submission is filed as it was admitted.
LEMMA ReportFiled ==
  ASSUME ReportsInv, NEW r \in Request, InvokeSubmit(r)
  PROVE  FiledInv' /\ Kept /\ IsSeq(reports') /\ Len(reports') <= MaxReports /\ now' = now
<1> DEFINE q == request[r]
           new == [provider |-> q.caller, project_id |-> KeyOf[q.spelling],
                   methodology |-> q.body.methodology, data |-> Measured(q.body),
                   status |-> "Pending", submitted_at |-> now, verified_at |-> 0,
                   provider_stake_at_verification |-> 0, verifiers |-> {}, verification_count |-> 0,
                   challenge |-> "none"]
           o == [dto |-> q.body, spelling |-> q.spelling]
<1>1. reports' = Append(reports, new) /\ Len(reports) < MaxReports /\ now' = now
      /\ origin' = Append(origin, o) /\ Noted
  BY DEF InvokeSubmit, submit_report
<1>2. <<q.spelling, q.body>> \in Admitted /\ Integral(q.body.carbon_sequestered)
  BY DEF InvokeSubmit, ReportsInv, ServedInv, AskedOK
<1>3. /\ IsFiled(new) /\ new.project_id = KeyOf[o.spelling] /\ new.methodology = o.dto.methodology
      /\ new.data = Measured(o.dto) /\ <<o.spelling, o.dto>> \in Admitted
      /\ Integral(o.dto.carbon_sequestered)
  BY <1>2 DEF IsFiled
<1>4. o \in [dto : Dto, spelling : Spelling]
  BY <1>2, AdmittedTypes
<1> HIDE DEF q, new, o
<1>5. PICK S : reports \in Seq(S)
  BY DEF ReportsInv, FiledInv, IsSeq
<1>6. PICK N \in Nat : N = Len(reports)
  BY <1>5
<1>7. /\ reports \in Seq(S \cup {new}) /\ reports' \in Seq(S \cup {new}) /\ Len(reports') = N + 1
      /\ DOMAIN reports' = 1..N+1 /\ DOMAIN reports = 1..N
      /\ \A i \in 1..N+1 : reports'[i] = IF i = N + 1 THEN new ELSE reports[i]
  BY <1>1, <1>5, <1>6
<1>8. /\ origin' \in Seq([dto : Dto, spelling : Spelling]) /\ Len(origin') = N + 1
      /\ \A i \in 1..N+1 : origin'[i] = IF i = N + 1 THEN o ELSE origin[i]
  BY <1>1, <1>4, <1>6 DEF ReportsInv, FiledInv
<1>9. ASSUME NEW i \in 1..N+1 PROVE IsFiled(reports[i])' /\ AsSubmitted(i)'
  <2>1. CASE i = N + 1
    BY <1>3, <1>7, <1>8, <2>1 DEF IsFiled, AsSubmitted
  <2>2. CASE i # N + 1
    <3>1. i \in 1..N
      BY <2>2
    <3>2. IsFiled(reports[i]) /\ AsSubmitted(i)
      BY <1>7, <3>1 DEF ReportsInv, FiledInv
    <3>3. reports'[i] = reports[i] /\ origin'[i] = origin[i]
      BY <1>7, <1>8, <2>2
    <3> QED
      BY <3>2, <3>3 DEF IsFiled, AsSubmitted
  <2> QED
    BY <2>1, <2>2
<1>10. IsSeq(reports') /\ Len(reports') <= MaxReports
  BY <1>1, <1>6, <1>7, OracleAssumption DEF IsSeq
<1>11. Kept
  BY <1>7 DEF Kept
<1>12. FiledInv'
  BY <1>1, <1>7, <1>8, <1>9, <1>10, ChangesNoted DEF ReportsInv, FiledInv
<1> QED
  BY <1>1, <1>10, <1>11, <1>12
-----------------------------------------------------------------------------
\* Moving to another place, and being done.
LEMMA Moves ==
  ASSUME ReportsInv, NEW r \in Request
  PROVE  /\ IsRequest(request[r])
         /\ Done(r) => Become(r, NoRequest)
         /\ \A pc : Go(r, pc) => Become(r, [request[r] EXCEPT !.pc = pc])
<1> QED
  BY DEF ReportsInv, ServedInv, Done, Go, Become

\* A request that says something else and is not reading.
LEMMA OtherPlace ==
  ASSUME NEW q, IsRequest(q), NEW pc \in {"nonce", "invoke", "evict", "answered"}, NEW n
  PROVE  /\ \A p \in {[q EXCEPT !.pc = pc, !.nonce = n], [q EXCEPT !.pc = pc]} :
              /\ IsRequest(p) /\ ReadingOK(p) /\ p.pc = pc
              /\ p.op = q.op /\ p.spelling = q.spelling /\ p.body = q.body
<1> QED
  BY DEF IsRequest, ReadingOK

\* Filing: checks, the number, failures, and leaving.
LEMMA WritingInv ==
  ASSUME ReportsInv, NEW r \in Request,
         \/ \E sp \in Spelling, dto \in Dto, p \in Address : submitReport(r, sp, dto, p)
         \/ next(r) \/ InvokeFails(r) \/ Leave(r)
         \/ \E id \in DOMAIN reports, c \in Address : challengeReport(r, id, c)
  PROVE  ReportsInv'
<1> DEFINE q == request[r]
<1>1. UNCHANGED <<now, reports, changedAt, origin, listing>>
  BY DEF submitReport, next, InvokeFails, Leave, challengeReport, oracleVars, historyVars
<1>2. CASE Done(r)
  BY <1>1, <1>2, Moves, NoRequestType, RequestAlone
<1>3. ASSUME NEW sp \in Spelling, NEW dto \in Dto, NEW p \in Address, submitReport(r, sp, dto, p)
      PROVE  ReportsInv'
  <2> DEFINE t == [NoRequest EXCEPT !.pc = "nonce", !.op = "submit", !.spelling = sp, !.caller = p,
                                    !.body = dto]
  <2>1. IsRequest(t) /\ t.pc = "nonce" /\ t.spelling = sp /\ t.body = dto
    BY NoRequestType DEF IsRequest, NoRequest
  <2>2. Become(r, t) /\ <<sp, dto>> \in Admitted
    BY <1>3 DEF submitReport
  <2> HIDE DEF t
  <2>3. AskedOK(t) /\ ReadingOK(t)
    BY <2>1, <2>2 DEF AskedOK, ReadingOK
  <2> QED
    BY <1>1, <2>1, <2>2, <2>3, RequestAlone
<1>4. ASSUME NEW id \in DOMAIN reports, NEW c \in Address, challengeReport(r, id, c)
      PROVE  ReportsInv'
  <2> DEFINE t == [NoRequest EXCEPT !.pc = "nonce", !.op = "challenge", !.caller = c, !.body = id]
  <2>1. IsRequest(t) /\ t.pc = "nonce" /\ t.op = "challenge"
    BY NoRequestType DEF IsRequest, NoRequest
  <2>2. Become(r, t)
    BY <1>4 DEF challengeReport
  <2> HIDE DEF t
  <2>3. AskedOK(t) /\ ReadingOK(t)
    BY <2>1 DEF AskedOK, ReadingOK
  <2> QED
    BY <1>1, <2>1, <2>2, <2>3, RequestAlone
<1>5. CASE next(r) /\ ~Done(r)
  <2> DEFINE t == [q EXCEPT !.pc = "invoke", !.nonce = counter[q.caller]]
  <2>1. Become(r, t) /\ q.pc = "nonce"
        /\ (q.op = "submit" => Integral(q.body.carbon_sequestered))
    BY <1>5 DEF next
  <2>2. IsRequest(q) /\ AskedOK(q)
    BY DEF ReportsInv, ServedInv
  <2> HIDE DEF q
  <2>3. /\ IsRequest(t) /\ t.pc = "invoke" /\ t.op = q.op /\ t.spelling = q.spelling
        /\ t.body = q.body /\ ReadingOK(t)
    BY <2>2 DEF IsRequest, ReadingOK
  <2> HIDE DEF t
  <2>4. AskedOK(t)
    BY <2>1, <2>2, <2>3 DEF AskedOK
  <2> QED
    BY <1>1, <2>1, <2>3, <2>4, RequestAlone
<1> QED
  BY <1>2, <1>3, <1>4, <1>5 DEF next, InvokeFails, Leave

\* Filed: the report stands, and the request goes on to evict or its answer is lost.
LEMMA InvokeSubmitInv ==
  ASSUME ReportsInv, NEW r \in Request, InvokeSubmit(r)
  PROVE  ReportsInv'
<1>1. FiledInv' /\ Kept /\ IsSeq(reports') /\ Len(reports') <= MaxReports /\ now' = now
  BY ReportFiled
<1>2. Noted /\ listing' = listing
  BY DEF InvokeSubmit
<1>3. /\ \A q : IsRequest(q) /\ ReadingOK(q) => ReadingOK(q)'
      /\ \A sp \in Spelling : CachedOK(sp)'
  BY <1>1, <1>2, StillServed
<1>4. listing' = [sp \in Spelling |-> listing'[sp]]
  BY <1>2 DEF ReportsInv, ServedInv
<1>5. CASE Done(r)
  BY <1>1, <1>3, <1>4, <1>5, Moves, NoRequestType, RequestMoves
<1>6. CASE Go(r, "evict")
  <2> DEFINE t == [request[r] EXCEPT !.pc = "evict"]
  <2>1. Become(r, t)
    BY <1>6, Moves
  <2>2. IsRequest(t) /\ t.pc = "evict" /\ ReadingOK(t)
    BY Moves, OtherPlace
  <2> HIDE DEF t
  <2>3. PICK x : x = t
    OBVIOUS
  <2>4. AskedOK(x) /\ ReadingOK(x)' /\ IsRequest(x) /\ Become(r, x)
    BY <1>3, <2>1, <2>2, <2>3 DEF AskedOK
  <2> QED
    BY <1>1, <1>3, <1>4, <2>4, RequestMoves
<1> QED
  BY <1>5, <1>6 DEF InvokeSubmit

\* Challenged by a request, or changed directly.
LEMMA InvokeChallengeInv ==
  ASSUME ReportsInv, NEW r \in Request, InvokeChallenge(r)
  PROVE  ReportsInv'
<1>1. challenge_report(request[r].caller, request[r].body, request[r].nonce)
      /\ request[r].body \in DOMAIN reports /\ Noted /\ UNCHANGED <<listing, origin>> /\ Done(r)
  BY DEF InvokeChallenge, challenge_report
<1>2. FiledInv' /\ Kept /\ IsSeq(reports') /\ Len(reports') <= MaxReports /\ now' = now
  BY <1>1, ContractChanges
<1>3. /\ \A q : IsRequest(q) /\ ReadingOK(q) => ReadingOK(q)'
      /\ \A sp \in Spelling : CachedOK(sp)'
  BY <1>1, <1>2, StillServed
<1>4. listing' = [sp \in Spelling |-> listing'[sp]]
  BY <1>1 DEF ReportsInv, ServedInv
<1> QED
  BY <1>1, <1>2, <1>3, <1>4, Moves, NoRequestType, RequestMoves

LEMMA DirectInv ==
  ASSUME ReportsInv, NEW a, Direct(a)
  PROVE  ReportsInv'
<1>1. Noted /\ UNCHANGED <<origin, listing, request>>
  BY DEF Direct, serviceVars
<1>2. FiledInv' /\ Kept /\ IsSeq(reports') /\ Len(reports') <= MaxReports /\ now' = now
  BY <1>1, ContractChanges DEF Direct
<1>3. /\ \A q : IsRequest(q) /\ ReadingOK(q) => ReadingOK(q)'
      /\ \A sp \in Spelling : CachedOK(sp)'
  BY <1>1, <1>2, StillServed
<1>4. ASSUME NEW r \in Request
      PROVE  IsRequest(request[r])' /\ AskedOK(request[r])' /\ ReadingOK(request[r])'
  <2>1. PICK q : q = request[r]
    OBVIOUS
  <2>2. IsRequest(q) /\ AskedOK(q) /\ ReadingOK(q)'
    BY <1>3, <2>1 DEF ReportsInv, ServedInv
  <2>3. request[r]' = q
    BY <1>1, <2>1
  <2> QED
    BY <2>2, <2>3 DEF IsRequest, IsList, AskedOK, ReadingOK
<1> QED
  BY <1>1, <1>2, <1>3, <1>4 DEF ReportsInv, ServedInv

\* A list that was read, or is cached, when a request begins, goes on and ends.
LEMMA BeginInv ==
  ASSUME ReportsInv, NEW r \in Request, NEW sp \in Spelling, getProjectReports(r, sp)
  PROVE  ReportsInv'
<1>1. UNCHANGED <<now, reports, changedAt, origin, listing>>
  BY DEF getProjectReports, oracleVars, historyVars
<1> DEFINE t == [NoRequest EXCEPT !.pc = "answered", !.op = "list", !.spelling = sp, !.list = listing[sp]]
           w == [NoRequest EXCEPT !.pc = "read", !.op = "list", !.spelling = sp, !.list.began = now,
                                  !.todo = IdsOf(KeyOf[sp])]
<1>2. CASE Fresh(sp)
  <2>1. IsList(listing[sp])
    BY DEF ReportsInv, ServedInv, CachedOK
  <2>2. IsRequest(t) /\ AskedOK(t) /\ ReadingOK(t)
    BY <2>1, NoRequestType DEF IsRequest, AskedOK, ReadingOK, NoRequest
  <2>3. Become(r, t)
    BY <1>2 DEF getProjectReports
  <2> HIDE DEF t
  <2> QED
    BY <1>1, <2>2, <2>3, RequestAlone
<1>3. CASE ~Fresh(sp)
  <2>1. /\ w.pc = "read" /\ w.op = "list" /\ w.spelling = sp /\ w.todo = IdsOf(KeyOf[sp])
        /\ w.list.began = now /\ w.list.seen = NoList.seen /\ IsRequest(w)
    BY NoRequestType DEF IsRequest, IsList, NoRequest, NoList
  <2>2. Become(r, w)
    BY <1>3 DEF getProjectReports
  <2> HIDE DEF w
  <2>3. Shows(w.list, KeyOf[sp], w.todo, now)
    BY <2>1 DEF Shows, IdsOf
  <2>4. now \in 0..now
    BY DEF ReportsInv, FiledInv
  <2>5. AskedOK(w) /\ ReadingOK(w)
    BY <2>1, <2>3, <2>4 DEF AskedOK, ReadingOK
  <2> QED
    BY <1>1, <2>1, <2>2, <2>5, RequestAlone
<1> QED
  BY <1>2, <1>3

LEMMA ReadInv ==
  ASSUME ReportsInv, NEW r \in Request, getReport(r)
  PROVE  ReportsInv'
<1>1. UNCHANGED <<now, reports, changedAt, origin, listing>>
  BY DEF getReport, oracleVars, historyVars
<1> DEFINE q == request[r]
           id == CHOOSE i \in q.todo : \A j \in q.todo : i <= j
           rest == [q EXCEPT !.todo = @ \ {id}]
           found == [rest EXCEPT !.list.seen = Append(@, decodeReport(id))]
           missed == [rest EXCEPT !.list.lost = @ \cup {id}]
<1>2. /\ IsRequest(q) /\ q.pc = "read" /\ q.spelling \in Spelling /\ q.list.began \in 0..now
      /\ Shows(q.list, KeyOf[q.spelling], q.todo, q.list.began)
  BY DEF getReport, ReportsInv, ServedInv, ReadingOK
<1>3. Become(r, found) \/ Become(r, missed)
  BY DEF getReport
<1> HIDE DEF q, id
<1>4. PICK S : q.list.seen \in Seq(S)
  BY <1>2 DEF IsRequest, IsList, IsSeq
<1>5. /\ IsRequest(missed) /\ missed.pc = "read" /\ missed.spelling = q.spelling
      /\ missed.list.began = q.list.began /\ missed.todo = q.todo \ {id}
      /\ missed.list.lost = q.list.lost \cup {id} /\ missed.list.seen = q.list.seen
  BY <1>2 DEF IsRequest, IsList
<1>6. /\ found.pc = "read" /\ found.spelling = q.spelling
      /\ found.list.began = q.list.began /\ found.todo = q.todo \ {id}
      /\ found.list.lost = q.list.lost /\ found.list.seen = Append(q.list.seen, decodeReport(id))
      /\ {"pc", "op", "spelling", "caller", "body", "nonce", "todo", "list"} \subseteq DOMAIN found
      /\ {"seen", "lost", "began", "took", "until"} \subseteq DOMAIN found.list
  BY <1>2 DEF IsRequest, IsList
<1>7. missed.op = q.op /\ found.op = q.op
  BY <1>2 DEF IsRequest
<1> HIDE DEF rest, found, missed
<1>8. Shows(missed.list, KeyOf[q.spelling], missed.todo, q.list.began)
  BY <1>2, <1>5 DEF Shows
<1>9. PICK e : e = decodeReport(id)
  OBVIOUS
<1>10. q.list.seen \in Seq(S \cup {e})
  BY <1>4
<1>11. /\ Append(q.list.seen, e) \in Seq(S \cup {e})
       /\ DOMAIN q.list.seen \subseteq DOMAIN Append(q.list.seen, e)
       /\ \A i \in DOMAIN q.list.seen : Append(q.list.seen, e)[i] = q.list.seen[i]
       /\ \E i \in DOMAIN Append(q.list.seen, e) : Append(q.list.seen, e)[i] = e
  <2> DEFINE old == q.list.seen
             new == Append(old, e)
  <2>1. PICK N \in Nat : N = Len(old)
    BY <1>10
  <2>2. new \in Seq(S \cup {e}) /\ DOMAIN new = 1..N+1 /\ DOMAIN old = 1..N
        /\ \A i \in 1..N+1 : new[i] = IF i = N + 1 THEN e ELSE old[i]
    BY <1>10, <2>1
  <2> HIDE DEF old, new
  <2>3. N + 1 \in DOMAIN new /\ new[N + 1] = e
    BY <2>2
  <2>4. \A i \in 1..N : i \in 1..N+1 /\ i # N + 1
    OBVIOUS
  <2>5. /\ DOMAIN old \subseteq DOMAIN new /\ \A i \in DOMAIN old : new[i] = old[i]
        /\ \E i \in DOMAIN new : new[i] = e
    BY <2>2, <2>3, <2>4
  <2> QED
    BY <2>2, <2>5 DEF old, new
<1>12. IsSeq(found.list.seen)
  BY <1>6, <1>9, <1>11 DEF IsSeq
<1>13. Shows(found.list, KeyOf[q.spelling], found.todo, q.list.began)
  <2> SUFFICES ASSUME NEW x \in DOMAIN reports, reports[x].project_id = KeyOf[q.spelling],
                      ~ (changedAt[x] >= q.list.began), x \notin found.todo, x \notin found.list.lost
               PROVE  \E i \in DOMAIN found.list.seen : found.list.seen[i] = decodeReport(x)
    BY DEF Shows
  <2>1. CASE x = id
    BY <1>6, <1>9, <1>11, <2>1
  <2>2. CASE x # id
    <3>1. PICK i \in DOMAIN q.list.seen : q.list.seen[i] = decodeReport(x)
      BY <1>2, <1>6, <2>2 DEF Shows
    <3> QED
      BY <1>6, <1>9, <1>11, <3>1
  <2> QED
    BY <2>1, <2>2
<1>14. IsRequest(found) /\ ReadingOK(found) /\ ReadingOK(missed)
  BY <1>2, <1>5, <1>6, <1>8, <1>12, <1>13 DEF IsRequest, IsList, ReadingOK
<1>15. AskedOK(found) /\ AskedOK(missed)
  BY <1>5, <1>6 DEF AskedOK
<1> QED
  BY <1>1, <1>3, <1>5, <1>14, <1>15, RequestAlone

\* A list that was read is cached, unless Redis fails, and answered.
LEMMA StoreInv ==
  ASSUME ReportsInv, NEW r \in Request, StoreList(r)
  PROVE  ReportsInv'
<1>1. UNCHANGED <<now, reports, changedAt, origin>>
  BY DEF StoreList, oracleVars, historyVars
<1> DEFINE q == request[r]
           list == [q.list EXCEPT !.began = 0, !.took = now - q.list.began, !.until = Expiry]
           t == [q EXCEPT !.pc = "answered", !.list = list]
<1>2. /\ IsRequest(q) /\ q.pc = "read" /\ q.todo = {} /\ q.spelling \in Spelling
      /\ q.list.began \in 0..now /\ Shows(q.list, KeyOf[q.spelling], {}, q.list.began)
  BY DEF StoreList, ReportsInv, ServedInv, ReadingOK
<1>3. Become(r, t) /\ (listing' = [listing EXCEPT ![q.spelling] = list] \/ listing' = listing)
  BY DEF StoreList
<1> HIDE DEF q
<1>4. /\ list.seen = q.list.seen /\ list.lost = q.list.lost /\ list.until = now + ReportTtl
      /\ list.took = now - q.list.began /\ IsList(list)
  BY <1>2 DEF IsRequest, IsList, Expiry
<1> HIDE DEF list
<1>5. t.pc = "answered" /\ IsRequest(t)
  BY <1>2, <1>4 DEF IsRequest
<1> HIDE DEF t
<1>6. PICK x : x = t
  OBVIOUS
<1>7. now \in Nat /\ ReportTtl \in Nat /\ q.list.began \in Nat /\ q.list.began <= now
  BY <1>2, ServiceAssumption DEF ReportsInv, FiledInv
<1>8. Since(list) = q.list.began /\ list.took \in Nat /\ list.until \in Int
  BY <1>4, <1>7 DEF Since
<1>9. listing' = [sp \in Spelling |-> listing'[sp]]
  BY <1>3 DEF ReportsInv, ServedInv
<1>10. ASSUME NEW sp \in Spelling PROVE CachedOK(sp)'
  <2>1. CASE listing'[sp] = listing[sp]
    BY <1>1, <2>1, NothingChanges
  <2>2. CASE listing'[sp] # listing[sp]
    <3>1. sp = q.spelling /\ listing'[sp] = list
      BY <1>3, <2>2 DEF ReportsInv, ServedInv
    <3>2. PICK l : l = list
      OBVIOUS
    <3>3. Shows(l, KeyOf[sp], {}, q.list.began)
      BY <1>2, <1>4, <3>1, <3>2 DEF Shows
    <3>4. PICK since : since = q.list.began
      OBVIOUS
    <3>5. Shows(l, KeyOf[sp], {}, since)'
      BY <1>1, <3>3, <3>4, NothingChanges
    <3>6. Since(l)' = since
      BY <1>8, <3>2, <3>4 DEF Since
    <3>7. listing'[sp] = l /\ IsList(l) /\ l.until \in Int /\ l.took \in Nat
          /\ l.until <= now' + ReportTtl
      BY <1>1, <1>4, <1>7, <1>8, <3>1, <3>2
    <3>8. Shows(listing[sp], KeyOf[sp], {}, Since(listing[sp]))'
      BY <3>5, <3>6, <3>7 DEF Since, Shows
    <3> QED
      BY <3>7, <3>8 DEF CachedOK, IsList
  <2> QED
    BY <2>1, <2>2
<1>11. Become(r, x) /\ IsRequest(x) /\ AskedOK(x) /\ ReadingOK(x)'
  BY <1>3, <1>5, <1>6 DEF AskedOK, ReadingOK
<1> QED
  BY <1>1, <1>11, <1>9, <1>10, NothingChanges, RequestMoves

\* The lists are evicted under the spelling of the request.
LEMMA EvictInv ==
  ASSUME ReportsInv, NEW r \in Request, Evict(r)
  PROVE  ReportsInv'
<1>1. UNCHANGED <<now, reports, changedAt, origin>> /\ Done(r)
      /\ (listing' = Evicted(request[r].spelling) \/ listing' = listing)
  BY DEF Evict, oracleVars, historyVars
<1>2. listing' = [sp \in Spelling |-> listing'[sp]]
  BY <1>1 DEF ReportsInv, ServedInv, Evicted
<1>3. ASSUME NEW sp \in Spelling PROVE CachedOK(sp)'
  <2>1. CASE listing'[sp] = listing[sp]
    BY <1>1, <2>1, NothingChanges
  <2>2. CASE listing'[sp] = NoList
    <3>1. PICK n \in Nat : n = now'
      BY <1>1 DEF ReportsInv, FiledInv
    <3>2. PICK l : l = NoList
      OBVIOUS
    <3>3. listing'[sp] = l /\ IsList(l) /\ l.until = -1 /\ l.took = 0
      BY <2>2, <3>2, NoListOK
    <3>4. ~Fresh(sp)'
      BY <3>1, <3>3 DEF Fresh
    <3>5. -1 <= n + ReportTtl
      BY ServiceAssumption
    <3> QED
      BY <3>1, <3>3, <3>4, <3>5 DEF CachedOK, IsList
  <2> QED
    BY <1>1, <2>1, <2>2 DEF Evicted, ReportsInv, ServedInv
<1> QED
  BY <1>1, <1>2, <1>3, NothingChanges, Moves, NoRequestType, RequestMoves

\* Time passes, and what is due is forgotten.
LEMMA ReportsTickInv ==
  ASSUME ReportsInv, ReportsTick
  PROVE  ReportsInv'
<1>1. /\ now' = now + 1 /\ UNCHANGED <<reports, changedAt, origin, request>> /\ now \in Nat
      /\ listing' = [sp \in Spelling |-> IF now' < listing[sp].until THEN listing[sp] ELSE NoList]
  BY DEF ReportsTick, LedgerCloses, oracleVars, historyVars, ReportsInv, FiledInv
<1>2. FiledInv'
  BY <1>1 DEF ReportsInv, FiledInv, AsSubmitted, IsFiled
<1>3. ASSUME NEW list, NEW key, NEW todo, NEW since, Shows(list, key, todo, since)
      PROVE  Shows(list, key, todo, since)'
  BY <1>1, <1>3 DEF Shows, decodeReport
<1>4. ASSUME NEW r \in Request
      PROVE  IsRequest(request[r])' /\ AskedOK(request[r])' /\ ReadingOK(request[r])'
  <2>1. PICK q : q = request[r]
    OBVIOUS
  <2>2. IsRequest(q) /\ AskedOK(q) /\ ReadingOK(q)
    BY <2>1 DEF ReportsInv, ServedInv
  <2>3. PICK since : since = q.list.began
    OBVIOUS
  <2>4. q.pc = "read" => /\ q.spelling \in Spelling /\ since \in 0..now'
                         /\ Shows(q.list, KeyOf[q.spelling], q.todo, since)'
    BY <1>1, <1>3, <2>2, <2>3 DEF ReadingOK
  <2>5. request[r]' = q
    BY <1>1, <2>1
  <2> QED
    BY <2>2, <2>3, <2>4, <2>5 DEF IsRequest, IsList, AskedOK, ReadingOK
<1>5. ASSUME NEW sp \in Spelling PROVE CachedOK(sp)'
  <2>0. ReportTtl \in Nat
    BY ServiceAssumption
  <2>1. CASE listing'[sp] = NoList
    BY <1>1, <2>0, <2>1, NoListOK DEF CachedOK, Fresh, IsList
  <2>2. CASE now' < listing[sp].until /\ listing'[sp] = listing[sp]
    <3>1. PICK list : list = listing[sp]
      OBVIOUS
    <3>2. CachedOK(sp)
      BY DEF ReportsInv, ServedInv
    <3>3. IsList(list) /\ list.until \in Int /\ list.took \in Nat /\ list.until <= now' + ReportTtl
      BY <1>1, <2>0, <3>1, <3>2 DEF CachedOK
    <3>4. Fresh(sp)
      BY <1>1, <2>2, <3>1, <3>3 DEF Fresh
    <3>5. Shows(list, KeyOf[sp], {}, Since(list))
      BY <3>1, <3>2, <3>4 DEF CachedOK
    <3>6. Shows(list, KeyOf[sp], {}, Since(list))'
      BY <1>3, <3>5 DEF Since
    <3> QED
      BY <2>2, <3>1, <3>3, <3>6 DEF CachedOK, IsList
  <2> QED
    BY <1>1, <2>1, <2>2
<1> QED
  BY <1>1, <1>2, <1>4, <1>5 DEF ReportsInv, ServedInv

LEMMA ReportsInvNext == ReportsInv /\ [ReportsNext]_reportVars => ReportsInv'
<1> SUFFICES ASSUME ReportsInv, [ReportsNext]_reportVars PROVE ReportsInv'
  OBVIOUS
<1>1. CASE UNCHANGED reportVars
  <2>1. UNCHANGED <<now, reports, changedAt, origin, listing, request>>
    BY <1>1 DEF reportVars, oracleVars, serviceVars, historyVars
  <2>2. ASSUME NEW r \in Request
        PROVE  IsRequest(request[r])' /\ AskedOK(request[r])' /\ ReadingOK(request[r])'
    <3>1. PICK q : q = request[r]
      OBVIOUS
    <3>2. IsRequest(q) /\ AskedOK(q) /\ ReadingOK(q)'
      BY <2>1, <3>1, NothingChanges DEF ReportsInv, ServedInv
    <3>3. request[r]' = q
      BY <2>1, <3>1
    <3> QED
      BY <3>2, <3>3 DEF IsRequest, IsList, AskedOK, ReadingOK
  <2> QED
    BY <2>1, <2>2, NothingChanges DEF ReportsInv, ServedInv
<1>2. ASSUME NEW r \in Writer, Writing(r) PROVE ReportsInv'
  <2>1. r \in Request
    BY DEF Request
  <2> QED
    BY <1>2, <2>1, WritingInv, InvokeSubmitInv, InvokeChallengeInv, EvictInv DEF Writing
<1>3. ASSUME NEW r \in Reader, Reading(r) PROVE ReportsInv'
  <2>1. r \in Request
    BY DEF Request
  <2> QED
    BY <1>3, <2>1, WritingInv, BeginInv, ReadInv, StoreInv DEF Reading
<1> QED
  BY <1>1, <1>2, <1>3, DirectInv, ReportsTickInv DEF ReportsNext

LEMMA ReportsInvInit == ReportsInit => ReportsInv
<1> SUFFICES ASSUME ReportsInit PROVE ReportsInv
  OBVIOUS
<1>1. /\ now = 0 /\ reports = <<>> /\ origin = <<>> /\ changedAt = [id \in 1..MaxReports |-> 0]
      /\ request = [r \in Request |-> NoRequest] /\ listing = [sp \in Spelling |-> NoList]
  BY DEF ReportsInit
<1>2. MaxReports \in Nat /\ ReportTtl \in Nat
  BY OracleAssumption, ServiceAssumption
<1>3. IsSeq(reports) /\ Len(reports) = 0 /\ DOMAIN reports = {}
  <2>1. <<>> \in Seq({})
    OBVIOUS
  <2> QED
    BY <1>1, <2>1 DEF IsSeq
<1>4. FiledInv
  BY <1>1, <1>2, <1>3 DEF FiledInv
<1>5. \A sp \in Spelling : CachedOK(sp)
  BY <1>1, <1>2, NoListOK DEF CachedOK, Fresh
<1> QED
  BY <1>1, <1>4, <1>5, NoRequestType DEF ReportsInv, ServedInv

\* A report that was filed with a manifest stands on the ledger as it was
\* signed, whatever fails between the checks of submitReport and the call.
THEOREM SignedIsAnchored == ReportsSpec => []AnchoredAsSigned
<1> QED
  BY ReportsInvInit, ReportsInvNext, SubmittedAsSigned, PTL DEF ReportsSpec, ReportsInv

\* A list that shows a report as disputed is no ground for a coupon.
LEMMA DisputesAreShown ==
  ASSUME NEW list, NEW key, NEW since, Shows(list, key, {}, since),
         getCouponEligibility(list.seen), NEW id \in IdsOf(key), Disputed(id)
  PROVE  id \in list.lost \/ changedAt[id] >= since
<1> SUFFICES ASSUME NEW i \in DOMAIN list.seen, list.seen[i] = decodeReport(id) PROVE FALSE
  BY DEF Shows, IdsOf
<1>1. reports[id].status \in {"Challenged", "Rejected"}
  BY DEF Disputed
<1>2. list.seen[i].status = reports[id].status
  BY <1>1, StatusCrosses DEF decodeReport, ReportStatus
<1> QED
  BY <1>1, <1>2 DEF getCouponEligibility, Blocks

\* Who is answered has found a list in the cache or finished one.
LEMMA OnlyListsAnswer ==
  ASSUME ReportsInv, [ReportsNext]_reportVars, NEW r \in Request, Answering(r)
  PROVE  StoreList(r) \/ \E sp \in Spelling : getProjectReports(r, sp) /\ Fresh(sp)
<1>1. request'[r] # request[r]
  BY DEF Answering
<1>2. ASSUME NEW x \in Request, NEW q, Become(x, q) PROVE x = r /\ q.pc = "answered"
  BY <1>1, <1>2 DEF Become, ReportsInv, ServedInv, Answering
<1>3. ASSUME NEW x \in Request, Done(x) PROVE FALSE
  BY <1>2, <1>3 DEF Done, NoRequest
<1>4. ASSUME NEW x \in Request, NEW pc \in {"nonce", "evict"}, Go(x, pc) PROVE FALSE
  <2> DEFINE t == [request[x] EXCEPT !.pc = pc]
  <2>1. Become(x, t) /\ t.pc = pc
    BY <1>4, Moves DEF IsRequest
  <2> HIDE DEF t
  <2> QED
    BY <1>2, <2>1
<1>5. ASSUME NEW x \in Request, Writing(x) PROVE FALSE
  <2>1. ASSUME NEW sp \in Spelling, NEW dto \in Dto, NEW p \in Address, submitReport(x, sp, dto, p)
        PROVE  FALSE
    <3> DEFINE t == [NoRequest EXCEPT !.pc = "nonce", !.op = "submit", !.spelling = sp, !.caller = p,
                                      !.body = dto]
    <3>1. Become(x, t) /\ t.pc = "nonce"
      BY <2>1 DEF submitReport, NoRequest
    <3> HIDE DEF t
    <3> QED
      BY <1>2, <3>1
  <2>2. ASSUME NEW id \in DOMAIN reports, NEW c \in Address, challengeReport(x, id, c) PROVE FALSE
    <3> DEFINE t == [NoRequest EXCEPT !.pc = "nonce", !.op = "challenge", !.caller = c, !.body = id]
    <3>1. Become(x, t) /\ t.pc = "nonce"
      BY <2>2 DEF challengeReport, NoRequest
    <3> HIDE DEF t
    <3> QED
      BY <1>2, <3>1
  <2>3. ASSUME next(x) PROVE FALSE
    <3> DEFINE q == request[x]
               t == [q EXCEPT !.pc = "invoke", !.nonce = counter[q.caller]]
    <3>1. Become(x, t)
      BY <1>3, <2>3 DEF next
    <3>2. t.pc = "invoke"
      BY Moves DEF IsRequest
    <3> HIDE DEF t
    <3> QED
      BY <1>2, <3>1, <3>2
  <2> QED
    BY <1>3, <1>4, <1>5, <2>1, <2>2, <2>3
    DEF Writing, InvokeSubmit, InvokeFails, Evict, InvokeChallenge
<1>6. ASSUME NEW x \in Request, Reading(x)
      PROVE  StoreList(r) \/ \E sp \in Spelling : getProjectReports(r, sp) /\ Fresh(sp)
  <2>1. ASSUME NEW sp \in Spelling, getProjectReports(x, sp), ~Fresh(sp) PROVE FALSE
    <3> DEFINE t == [NoRequest EXCEPT !.pc = "read", !.op = "list", !.spelling = sp,
                                      !.list.began = now, !.todo = IdsOf(KeyOf[sp])]
    <3>1. Become(x, t) /\ t.pc = "read"
      BY <2>1 DEF getProjectReports, NoRequest
    <3> HIDE DEF t
    <3> QED
      BY <1>2, <3>1
  <2>2. ASSUME getReport(x) PROVE FALSE
    <3> DEFINE q == request[x]
               id == CHOOSE i \in q.todo : \A j \in q.todo : i <= j
               rest == [q EXCEPT !.todo = @ \ {id}]
               found == [rest EXCEPT !.list.seen = Append(@, decodeReport(id))]
               missed == [rest EXCEPT !.list.lost = @ \cup {id}]
    <3>1. (Become(x, found) \/ Become(x, missed)) /\ q.pc = "read"
      BY <2>2 DEF getReport
    <3> HIDE DEF id
    <3>2. found.pc = q.pc /\ missed.pc = q.pc
      BY Moves DEF IsRequest
    <3> HIDE DEF q, rest, found, missed
    <3> QED
      BY <1>2, <3>1, <3>2
  <2>3. \A q : Become(x, q) => x = r
    BY <1>2
  <2>4. ASSUME StoreList(x) \/ \E sp \in Spelling : getProjectReports(x, sp) /\ Fresh(sp)
        PROVE  x = r
    BY <2>3, <2>4 DEF StoreList, getProjectReports
  <2> QED
    BY <1>3, <1>6, <2>1, <2>2, <2>4 DEF Reading, Leave
<1>7. ~(UNCHANGED reportVars \/ Direct(oracleAdmin) \/ ReportsTick)
  BY <1>1 DEF reportVars, serviceVars, Direct, ReportsTick
<1> QED
  BY <1>5, <1>6, <1>7 DEF ReportsNext, Request

\* What a list is answered with satisfies the property.
LEMMA AnswerBlocks ==
  ASSUME ReportsInv, [ReportsNext]_reportVars, NEW r \in Request, Answering(r),
         getCouponEligibility(request'[r].list.seen),
         NEW id \in IdsOf(KeyOf[request'[r].spelling]), Disputed(id)
  PROVE  id \in request'[r].list.lost \/ now - changedAt[id] <= ReportTtl + request'[r].list.took
<1>1. now \in Nat /\ ReportTtl \in Nat /\ changedAt[id] \in Nat
  <2>1. id \in 1..Len(reports) /\ Len(reports) \in Nat /\ Len(reports) <= MaxReports
    BY DEF IdsOf, ReportsInv, FiledInv, IsSeq
  <2> QED
    BY <2>1, OracleAssumption, ServiceAssumption DEF ReportsInv, FiledInv
<1>2. CASE StoreList(r)
  <2> DEFINE q == request[r]
             list == [q.list EXCEPT !.began = 0, !.took = now - q.list.began, !.until = Expiry]
             t == [q EXCEPT !.pc = "answered", !.list = list]
  <2>1. /\ IsRequest(q) /\ q.list.began \in 0..now
        /\ Shows(q.list, KeyOf[q.spelling], {}, q.list.began)
    BY <1>2 DEF StoreList, ReportsInv, ServedInv, ReadingOK
  <2>2. request'[r] = t
    BY <1>2 DEF StoreList, Become, ReportsInv, ServedInv
  <2> HIDE DEF q
  <2>3. /\ list.seen = q.list.seen /\ list.lost = q.list.lost /\ list.took = now - q.list.began
    BY <2>1 DEF IsRequest, IsList
  <2>4. t.list = list /\ t.spelling = q.spelling
    BY <2>1 DEF IsRequest
  <2> HIDE DEF list, t
  <2>5. id \in q.list.lost \/ changedAt[id] >= q.list.began
    BY <2>1, <2>2, <2>3, <2>4, DisputesAreShown
  <2> QED
    BY <1>1, <2>1, <2>2, <2>3, <2>4, <2>5
<1>3. ASSUME NEW sp \in Spelling, getProjectReports(r, sp), Fresh(sp)
      PROVE  id \in request'[r].list.lost \/ now - changedAt[id] <= ReportTtl + request'[r].list.took
  <2> DEFINE list == listing[sp]
             t == [NoRequest EXCEPT !.pc = "answered", !.op = "list", !.spelling = sp, !.list = list]
  <2>1. /\ list.until \in Int /\ list.took \in Nat /\ Shows(list, KeyOf[sp], {}, Since(list))
    BY <1>3 DEF ReportsInv, ServedInv, CachedOK
  <2>2. request'[r] = t /\ now < list.until
    BY <1>3 DEF getProjectReports, Become, ReportsInv, ServedInv, Fresh
  <2> HIDE DEF list
  <2>3. t.list = list /\ t.spelling = sp
    BY DEF NoRequest
  <2> HIDE DEF t
  <2>4. id \in list.lost \/ changedAt[id] >= Since(list)
    BY <2>1, <2>2, <2>3, DisputesAreShown
  <2> QED
    BY <1>1, <2>1, <2>2, <2>3, <2>4 DEF Since
<1> QED
  BY <1>2, <1>3, OnlyListsAnswer

\* getCouponEligibility lets a coupon through in spite of a dispute only if it
\* could not read the report, or for as long as a list is cached and was read,
\* whatever requests, challenges, failures and resolutions interleave.
THEOREM DisputesBlock == ReportsSpec => DisputesBlockCoupons
<1>1. ReportsInv /\ [ReportsNext]_reportVars =>
        [\A r \in Request : Answering(r) /\ getCouponEligibility(request'[r].list.seen) =>
           LET q == request'[r].list IN
           \A id \in IdsOf(KeyOf[request'[r].spelling]) :
             Disputed(id) => id \in q.lost \/ now - changedAt[id] <= ReportTtl + q.took]_reportVars
  BY AnswerBlocks
<1> QED
  BY <1>1, ReportsInvInit, ReportsInvNext, PTL DEF ReportsSpec, DisputesBlockCoupons
=============================================================================
