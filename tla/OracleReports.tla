--------------------------- MODULE OracleReports ---------------------------
(***************************************************************************)
(* OracleService (api/src/oracle/oracle.service.ts) in front of the        *)
(* OracleConsumer contract: requests that file, challenge, list and judge  *)
(* reports run side by side, with the list of reports cached in Redis and  *)
(* the calls numbered by NonceService, while verifiers and the admin act   *)
(* on the contract directly.                                               *)
(***************************************************************************)
EXTENDS OracleConsumer, Evidence

CONSTANTS
  Writer,      \* requests that file and challenge, in progress at once
  Reader,      \* requests that list and judge, in progress at once
  Spelling,    \* project ids as clients write them
  KeyOf,       \* the project key that toBytes32 makes of each
  Dto,         \* reports to submit
  NoManifest, NoEvidence,
  ReportTtl,   \* how long reports:<id> is cached
  MaxTrouble   \* bound: failures of IPFS, Redis and the network

ASSUME ServiceAssumption ==
  /\ KeyOf \in [Spelling -> Project]
  /\ ReportTtl \in Nat /\ MaxTrouble \in Nat
  /\ \A d \in Dto :
       /\ d = [methodology |-> d.methodology, period_start |-> d.period_start, period_end |-> d.period_end,
               carbon_sequestered |-> d.carbon_sequestered, evidence |-> d.evidence, manifest |-> d.manifest]
       /\ d.methodology \in ReportMethodology /\ {d.period_start, d.period_end} \subseteq Int
       /\ d.carbon_sequestered \in [num : Int, den : Int]

Request == Writer \cup Reader

VARIABLES
  listing,    \* Redis reports:<spelling>
  counter,    \* Redis nonce:<contract>:<address>
  request,
  trouble,    \* failures so far
  changedAt,  \* history: when the status of a report last changed
  origin      \* history: the submission behind every report

serviceVars == <<listing, counter, request, trouble>>
historyVars == <<changedAt, origin>>
reportVars == <<now, oracleVars, serviceVars, historyVars>>

NoList == [seen |-> <<>>, lost |-> {}, began |-> 0, took |-> 0, until |-> -1]
NoRequest == [pc |-> "none", op |-> "none", spelling |-> "none", caller |-> "none", body |-> NoManifest,
              nonce |-> 0, todo |-> {}, list |-> NoList]

Trouble == trouble < MaxTrouble /\ trouble' = trouble + 1
Steady == UNCHANGED trouble

Become(r, q) == request' = [request EXCEPT ![r] = q]
Go(r, pc) == request' = [request EXCEPT ![r].pc = pc]
Done(r) == Become(r, NoRequest)

\* Statuses change on the ledger only; the time of a change is remembered.
Noted == changedAt' = [id \in DOMAIN changedAt |->
           IF id \in DOMAIN reports' /\ (id \notin DOMAIN reports \/ reports'[id].status # reports[id].status)
           THEN now ELSE changedAt[id]]
-----------------------------------------------------------------------------
(* submitReport. *)

Integral(carbon) == carbon.den > 0 /\ carbon.num % carbon.den = 0

\* The checks before anything is done.
Admissible(sp, dto) ==
  /\ dto.evidence # NoEvidence => isValidCid(dto.evidence)
  /\ NonNegative(dto.carbon_sequestered)
  /\ dto.manifest # NoManifest =>
       /\ verifyManifest(dto.manifest)
       /\ verifyManifestMatchesReport(dto.manifest, With(dto, "project_id", sp))

Admitted == {x \in Spelling \X Dto : Admissible(x[1], x[2])}

\* Checked, and its metadata pinned; a request that fails up to here, because
\* IPFS refuses or the evidence cannot be retrieved, leaves nothing behind.
submitReport(r, sp, dto, p) ==
  /\ request[r].pc = "none" /\ <<sp, dto>> \in Admitted
  /\ Become(r, [NoRequest EXCEPT !.pc = "nonce", !.op = "submit", !.spelling = sp, !.caller = p, !.body = dto])
  /\ Steady /\ UNCHANGED <<now, oracleVars, listing, counter, historyVars>>

\* NonceService.next, then the arguments: BigInt throws for a fraction, and
\* the number is spent.
next(r) ==
  LET q == request[r] IN
  /\ q.pc = "nonce" /\ counter[q.caller] < MaxOracleNonce
  /\ counter' = [counter EXCEPT ![q.caller] = @ + 1]
  /\ IF q.op = "submit" /\ ~Integral(q.body.carbon_sequestered) THEN Done(r)
     ELSE Become(r, [q EXCEPT !.pc = "invoke", !.nonce = counter[q.caller]])
  /\ Steady /\ UNCHANGED <<now, oracleVars, listing, historyVars>>

Measured(dto) == [period_start |-> dto.period_start, period_end |-> dto.period_end, biodiversity |-> {},
                  carbon_sequestered |-> dto.carbon_sequestered.num \div dto.carbon_sequestered.den]

\* What the contract asks of a call.
Accepts(q) ==
  /\ q.nonce = oracleNonce[q.caller]
  /\ IF q.op = "submit"
     THEN /\ MayReport(q.caller) /\ ValidMeasurement(Measured(q.body))
          /\ \A id \in DOMAIN reports :
               ~ (/\ SameSource(reports[id], q.caller, KeyOf[q.spelling], q.body.methodology)
                  /\ PeriodsOverlap(Measured(q.body), reports[id].data))
     ELSE /\ reports[q.body].status \in {"Pending", "Verified"} /\ reports[q.body].challenge = "none"
          /\ InChallengeWindow(reports[q.body])

\* The contract runs the call; the answer may get lost on the way back.
InvokeSubmit(r) ==
  LET q == request[r] IN
  /\ q.pc = "invoke" /\ q.op = "submit"
  /\ submit_report(q.caller, KeyOf[q.spelling], q.body.methodology, Measured(q.body), q.nonce)
  /\ (Go(r, "evict") /\ Steady) \/ (Done(r) /\ Trouble)
  /\ origin' = Append(origin, [dto |-> q.body, spelling |-> q.spelling])
  /\ Noted /\ UNCHANGED <<listing, counter>>

\* The call is refused, or never gets there: the number is spent.
InvokeFails(r) ==
  LET q == request[r] IN
  /\ q.pc = "invoke"
  /\ IF Accepts(q) THEN Trouble ELSE Steady
  /\ Done(r)
  /\ UNCHANGED <<now, oracleVars, listing, counter, historyVars>>

Evicted(sp) == [listing EXCEPT ![sp] = NoList]

\* del reports:<id>, under the spelling of this request; a failure of Redis
\* goes unnoticed.
Evict(r) ==
  /\ request[r].pc = "evict"
  /\ \/ listing' = Evicted(request[r].spelling) /\ Steady
     \/ UNCHANGED listing /\ Trouble
  /\ Done(r)
  /\ UNCHANGED <<now, oracleVars, counter, historyVars>>
-----------------------------------------------------------------------------
(* challengeReport evicts the providers only. *)

challengeReport(r, id, c) ==
  /\ request[r].pc = "none"
  /\ Become(r, [NoRequest EXCEPT !.pc = "nonce", !.op = "challenge", !.caller = c, !.body = id])
  /\ Steady /\ UNCHANGED <<now, oracleVars, listing, counter, historyVars>>

InvokeChallenge(r) ==
  LET q == request[r] IN
  /\ q.pc = "invoke" /\ q.op = "challenge"
  /\ challenge_report(q.caller, q.body, q.nonce)
  /\ Done(r) /\ Noted
  /\ Steady /\ UNCHANGED <<listing, counter, origin>>
-----------------------------------------------------------------------------
(* getProjectReports, and getCouponEligibility on top of it. *)

Fresh(sp) == now < listing[sp].until

IdsOf(key) == {id \in DOMAIN reports : reports[id].project_id = key}

\* From the cache, or else the ids first and the reports one by one.
getProjectReports(r, sp) ==
  /\ request[r].pc = "none"
  /\ Become(r, IF Fresh(sp)
               THEN [NoRequest EXCEPT !.pc = "answered", !.op = "list", !.spelling = sp, !.list = listing[sp]]
               ELSE [NoRequest EXCEPT !.pc = "read", !.op = "list", !.spelling = sp, !.list.began = now,
                                      !.todo = IdsOf(KeyOf[sp])])
  /\ Steady /\ UNCHANGED <<now, oracleVars, listing, counter, historyVars>>

\* A status crosses the contract's interface as its position in the enum.
StatusIndex == [Pending |-> 0, Verified |-> 1, Challenged |-> 2, Rejected |-> 3]

reportStatusFromIndex(i) ==
  IF i \in 0..3 THEN <<"Pending", "Verified", "Challenged", "Rejected">>[i + 1] ELSE "Pending"

decodeReport(id) == [id |-> id, status |-> reportStatusFromIndex(StatusIndex[reports[id].status])]

\* A report that cannot be read is left out.
getReport(r) ==
  LET q == request[r]
      id == CHOOSE i \in q.todo : \A j \in q.todo : i <= j
      rest == [q EXCEPT !.todo = @ \ {id}] IN
  /\ q.pc = "read" /\ q.todo # {}
  /\ \/ Become(r, [rest EXCEPT !.list.seen = Append(@, decodeReport(id))]) /\ Steady
     \/ Become(r, [rest EXCEPT !.list.lost = @ \cup {id}]) /\ Trouble
  /\ UNCHANGED <<now, oracleVars, listing, counter, historyVars>>

Expiry_Milliseconds == now + ReportTtl * Milli

\* setEx, 60 seconds.
Expiry == now + ReportTtl

StoreList(r) ==
  LET q == request[r]
      list == [q.list EXCEPT !.began = 0, !.took = now - q.list.began, !.until = Expiry] IN
  /\ q.pc = "read" /\ q.todo = {}
  /\ (listing' = [listing EXCEPT ![q.spelling] = list] /\ Steady) \/ (UNCHANGED listing /\ Trouble)
  /\ Become(r, [q EXCEPT !.pc = "answered", !.list = list])
  /\ UNCHANGED <<now, oracleVars, counter, historyVars>>

Leave(r) == /\ request[r].pc = "answered" /\ Done(r)
            /\ Steady /\ UNCHANGED <<now, oracleVars, listing, counter, historyVars>>

Blocks(status) == status \in {"Challenged", "Rejected"}

\* Reports of one source whose periods overlap also stand in the way.
Conflicting(list) ==
  {e \in {list[i] : i \in DOMAIN list} : \E i \in DOMAIN list :
     LET a == reports[e.id]
         b == reports[list[i].id]
     IN /\ list[i].id # e.id /\ SameSource(a, b.provider, b.project_id, b.methodology)
        /\ PeriodsOverlap(a.data, b.data)}

getCouponEligibility(list) ==
  /\ \E i \in DOMAIN list : list[i].status = "Verified"
  /\ \A i \in DOMAIN list : ~Blocks(list[i].status)
  /\ Conflicting(list) = {}
-----------------------------------------------------------------------------
\* Verifiers, challengers and the admin with tools of their own.
Direct(a) ==
  /\ \E id \in DOMAIN reports :
       \/ verify_report(a, id, oracleNonce[a])
       \/ \E s \in {"Verified", "Rejected"} : resolve_challenge(a, id, s, oracleNonce[a])
  /\ Noted /\ UNCHANGED <<serviceVars, origin>>

ReportsTick ==
  /\ LedgerCloses
  /\ listing' = [sp \in Spelling |-> IF now' < listing[sp].until THEN listing[sp] ELSE NoList]
  /\ UNCHANGED <<oracleVars, counter, request, trouble, historyVars>>

ReportsInit ==
  /\ now = 0 /\ oracleAdmin \in Address /\ oracleNonce = [a \in Address |-> 0]
  /\ provider = [a \in Address |-> [registered |-> a # oracleAdmin, active |-> a # oracleAdmin,
                                    stake |-> DEFAULT_MIN_VERIFIER_STAKE]]
  /\ reports = <<>> /\ slashes = [a \in Address |-> <<>>]
  /\ signatureThreshold = DEFAULT_SIGNATURE_THRESHOLD /\ minVerifierStake = DEFAULT_MIN_VERIFIER_STAKE
  /\ listing = [sp \in Spelling |-> NoList] /\ counter = [a \in Address |-> 0]
  /\ request = [r \in Request |-> NoRequest] /\ trouble = 0
  /\ changedAt = [id \in 1..MaxReports |-> 0] /\ origin = <<>>

Writing(r) ==
  \/ \E sp \in Spelling, dto \in Dto, p \in Address \ {oracleAdmin} : submitReport(r, sp, dto, p)
  \/ next(r) \/ InvokeSubmit(r) \/ InvokeFails(r) \/ Evict(r)
  \/ \E id \in DOMAIN reports, c \in Address \ {oracleAdmin} : challengeReport(r, id, c)
  \/ InvokeChallenge(r)

Reading(r) == (\E sp \in Spelling : getProjectReports(r, sp)) \/ getReport(r) \/ StoreList(r) \/ Leave(r)

ReportsNext ==
  \/ \E r \in Writer : Writing(r)
  \/ \E r \in Reader : Reading(r)
  \/ Direct(oracleAdmin) \/ ReportsTick

ReportsSpec == ReportsInit /\ [][ReportsNext]_reportVars
-----------------------------------------------------------------------------
(***************************************************************************)
(* Properties                                                              *)
(***************************************************************************)
Answering(r) == request'[r].pc = "answered" /\ request[r].pc # "answered"

Disputed(id) == reports[id].status \in {"Challenged", "Rejected"}

\* A dispute stops coupons: getCouponEligibility may overlook one only if the
\* report could not be read, or for as long as the list is cached plus the
\* time that reading it took.
DisputesBlockCoupons ==
  [][\A r \in Request : Answering(r) /\ getCouponEligibility(request'[r].list.seen) =>
       LET q == request'[r].list IN
       \A id \in IdsOf(KeyOf[request'[r].spelling]) :
         Disputed(id) => id \in q.lost \/ now - changedAt[id] <= ReportTtl + q.took
    ]_reportVars

\* A report that was filed with a manifest stands on the ledger as it was
\* signed: its project, its methodology and its carbon.
AnchoredAsSigned ==
  \A id \in DOMAIN reports :
    LET m == origin[id].dto.manifest IN
    m # NoManifest =>
      /\ verifyManifest(m)
      /\ reports[id].project_id = KeyOf[m.project_id] /\ reports[id].methodology = m.methodology
      /\ reports[id].data.carbon_sequestered * m.carbon_sequestered.den = m.carbon_sequestered.num
=============================================================================
