# EcoMint: TLA+ models, checks and proofs

EcoMint issues carbon-credit bonds on Stellar. Soroban contracts (Rust, `contracts/`) keep the
money and the credits; a NestJS API (`api/`) signs and sends transactions, keeps caches, indexes
and idempotency records in Redis and files, and runs scheduled jobs; oracle scripts (`oracle/`)
produce measurement reports; an Angular frontend (`frontend/`) talks to the API.

This directory models the parts that carry the program's own logic: the seven contracts and the
way they call each other, what stands before a request in the API, the services with their caches,
the scheduled jobs, the way of a measurement from a sensor to a coupon, and the two pages of the
frontend with a protocol of their own. `PROJECT.json` maps every definition to the lines it stands
for, lists the hazards that the properties are aimed at, and names a mutant for every property.

## 1. Inventory

| Component | State it keeps | Operations | What is hard | What makes it correct |
|---|---|---|---|---|
| BondIssuer | tranches, status, total subscribed, holder balances, redemption pool, nonces | issue, subscribe, transfer, fund, mature, redeem, set_admin | two books of one amount, rounding, status lagging behind the date | totals are sums, supply is a cap, a covered bond stays covered |
| DEXRouter | orders, escrow counters, quote balances | list, cancel, buy, deposit, withdraw, sweep | balances live in another contract, partial fills, expiry between calls | escrow is what the book holds, delivery against payment |
| ProjectRegistry | projects, documents, two nonces per address | register, approve, reject, deactivate, resubmit, documents, set_admin | two parties changing one record in any order | reviews come from governance only |
| Governance | proposals, votes, allow list, execution nonces | propose, approve, veto, cancel, execute | repeated votes, timelock, calls into contracts that may refuse | quorum, timelock, executed once |
| OracleConsumer | providers and stakes, reports, verifications, challenges, slashes | register, remove, stake, submit, verify, challenge, resolve | stakes and thresholds change while votes accumulate; windows | quorum of those who qualify, no overlapping reports, one punishment per rejection |
| CouponEngine | periods, accrued credits (combined, by type, itemised), undistributed pool | register, distribute in batches, claim, sweep | one payment in several transactions with transfers, claims and disputes between them | ledgers agree, a period paid at once never overpays |
| CreditRetirement | retirements and two counters | retire, set_admin | reads the engine's ledger without debiting it | retired at most what accrued |
| Sign-in, intents, rate limit | Redis challenges, nonces and counters; tokens in tabs | challenge, verify, refresh, sign and check intents | tabs of one browser, expiry, separate check and increment | single use, bounded bursts |
| Idempotency keys | Redis records, requests in progress | look up, reserve, handle, complete | every await interleaves; crash, lost answer, failing Redis | one run per key, faithful replays |
| KYC records | memory, snapshot file, audit log, cached copies | change, expire, judge, load and replay | two files written side by side, copies written back late | an answered change survives, a refusal is honoured |
| Bond, market, project, portfolio services; submission | Redis views, account cache, nonce counters | read through, build, send, evict | eviction before the transaction is applied, stale sequence numbers, races with the contract | outdated views expire, refusals clear, errors say what happened |
| Project documents and metadata | pins, list of documents in Redis, digest on the ledger | upload, register | read-modify-write, several uploads of which one fails | documents are kept, metadata is found |
| Holder index | in-memory and file index of holders | record, prune, reconcile, load, save | balance reads that are stale when used, double load, crash | coupons reach every holder |
| Expired-order sweep, reconciliation, oracle monitor | Redis cursor and nonce; index and report; Postgres incidents | cron on every replica | several processes, lost answers, statements apart | every expired order is swept, divergence is reported, escalation is earned and delivered |
| Oracle scripts, evidence, report service, detectors | upstream data, manifests, cached lists | fetch, aggregate, sign, file, challenge, list, judge, compare | copies of one format in two code bases, order of arrival, cached disputes | what is signed is accepted and anchored, disputes block coupons, the dissenter is named |
| Bond page, marketplace page | view, subscriptions, localStorage | reload, operate, poll; filter, buy, cancel | answers overtake one another, reload of the page | the page shows what was asked for and done |

## 2. How the parts are modelled

A contract call is one atomic step: Soroban reverts every write of a call that returns an error or
panics, so a guard is the conjunction of everything the call checks, wherever in the code it is
checked, and a failing call is no step. `require_auth` means that a call is made by the address it
names. A storage read with `unwrap_or(0)` is a function that is 0 where nothing was stored; an
optional record is a set of at most one element. Checked arithmetic is a guard `<= I128Max`;
the unchecked multiplication of `slash_provider` wraps around at that width, as the release build
does. Events, timestamps nobody reads, and indexes that repeat other storage are left out.

In the API and in the browser every `await`, and every answer to a subscription, is a boundary
between steps: JavaScript runs until it awaits. A failing Redis call is what `RedisService` makes of
it (nothing found, nothing written). A transaction that was sent is applied later, or never. Where a
module has one action per completed await, an operator in lower case with the name of a method
(`reconcileBond`) is what that method does up to its next await.

| Module | Models | Uses |
|---|---|---|
| `SharedTypes`, `ContractHost` | enumerations of `contracts/shared`, the registry's answers, the sum of a ledger as a cardinality; addresses and ledger time | |
| `BondIssuer` | the issuer; the registry it is linked to is a function that may change | ContractHost |
| `DexRouter`, `BondProofs` | the router composed with the issuer it reads and calls (the proofs are about the issuer as well) | BondIssuer |
| `Governance` | proposals and votes, with a target that accepts any call | |
| `ProjectRegistry` | the registry | SharedTypes |
| `GovernedRegistry`, `GovernanceProofs` | Governance as the registry's admin: execute and the called method are one step | Governance, ProjectRegistry |
| `OracleConsumer` | the oracle contract | ContractHost |
| `CouponEngine` | the engine composed with the issuer's balances and the oracle's reports | BondIssuer, OracleConsumer |
| `CreditRetirement`, `CreditProofs` | retirements composed with the engine (the proofs are about the oracle, the engine and the report service as well) | CouponEngine |
| `Admission` | login in two tabs, challenges, tokens, rate limit, admin intents: browser and API | |
| `Idempotency`, `RequestProofs` | interceptor, record service, Redis calls (the proofs are about `Admission` and `KycRecords` as well) | OnceOnly |
| `OnceOnly` | the abstract service that idempotency keys promise | |
| `KycRecords` | KYC store with its two files, cached copies, guard and lookups | |
| `ServiceCaches`, `ServiceProofs` | bond, market, project, portfolio and provider services over Redis, nonces and account cache; a contract's refusal on its way to an HTTP status (the proofs are about `ProjectRecords` as well) | |
| `CidEncoding` | identifiers and digests of `cid.util.ts`, in small bases | |
| `ProjectRecords` | upload policy, pinning, documents, boundaries, metadata | CidEncoding |
| `HolderIndex`, `StoreProofs` | the holder index, its file, and the bond requests that use it (the proofs are about `OracleIncidents` as well) | |
| `OrderSweep` | the API's sweep job over the router's order book | DexRouter |
| `Reconciliation` | comparison of the market's index with the ledger, and repair | |
| `OracleIncidents` | the monitor on several replicas and its table of incidents | |
| `Evidence` | evidence references and signed manifests, on both sides | CidEncoding |
| `OracleAdapters` | the four scripts that turn measurements into signed reports | Evidence |
| `OracleReports` | the API's report service in front of the contract | OracleConsumer, Evidence |
| `CrossSource`, `EvidenceProofs` | the two detectors that compare sources (the proofs are about `CidEncoding`, `Evidence` and `OracleAdapters` as well) | |
| `BondPage` | bond detail component, reload coordinator, pending transactions | |
| `MarketPage`, `PageProofs` | marketplace list and balance panel (the proofs are about both pages) | |

Action names are the names of the functions in the code, with a prefix where two contracts in one
composition share a name (`dex_set_admin`). A definition with a suffix after an underscore
(`FitsSupply_ChecksBefore`) next to one without is a mutant: a plausible mistake in the code
that the properties have to notice. It is used by nothing else.

## 3. Runs

`tlc -config X.cfg MCX` in this directory repeats a run. Bounds cap ids, calls, time and faults; they
are named in the modules (`Max...`). A run over several modules that do not interact picks one of them
in its initial state (`part`, `open`) and keeps the others still, so the behaviours are those of each.

| Run | Shows | Bounds, and why they suffice |
|---|---|---|
| `bond_issuer` | total = sum of balances, supply never exceeded, nothing grows after the date, coverage is kept | one tranche out of two valid and six invalid configurations, two accounts with four calls each: issue, subscribe twice, transfer, fund, mature and redeem in two parts. One tranche has a principal that overflows |
| `dex_router` | escrow = open and expired remainders, delivery against payment | starts from a tranche bought up by one account; two orders, amounts 1 and 2 for partial fills, lifetimes 0 and 1, transfers at the issuer in between |
| `governed_registry` | quorum of different signers, no review or admin change except by an approved proposal past its timelock, executions counted | two signers, both needed, two proposals over all four governed calls, a registry that may be handed to an outsider |
| `oracle_consumer` | no overlapping reports, quorum of verifiers that still qualify, one slash per rejection | three accounts (a provider and two verifiers), thresholds 0 to 2, two reports out of adjacent, overlapping and invalid measurements |
| `coupons` | the ledgers agree, one batch never overpays, retirements backed | a basket bond held 2:1, two periods, batches of one and two, a list with a duplicate, one transfer between batches, disputes, two retirements |
| `holder_index` | what a process recorded stays known, a coupon pays all and only the holders it had to look at | two concurrent requests, one change of a balance (applied transaction or direct call), one restart, starting from a file in which everybody is a holder: prune, change, reconcile; the empty store comes from an interrupted write |
| `request_admission` | challenges and intents act once, bursts are bounded, keys implement `OnceOnly`, replays are faithful, KYC changes survive and are honoured | two tabs, two challenges, a limit of one; three requests on one key with two payloads and two faults (more keys do not interact); two KYC requests on one account, two changes, one fault, a snapshot that may not exist yet |
| `api_services` | outdated views and sequence numbers clear, a buyer whose escrow is gone is asked to deposit, documents are kept | two requests in fourteen scenes, each a cached view with the operations that touch it, two changes of the ledger and two transactions; two uploaders with a batch for every reason to refuse a file |
| `background_jobs` | expired orders are swept, divergence is reported, escalations are earned and delivered (three of these liveness) | sweep: two processes, three orders, one order per batch and two batches per run, so that the cursor wraps and runs overlap, two faults; reconciliation: three balances, one order; monitor: two replicas, two incidents of one subject, one lost statement |
| `oracle_reports` | what scripts sign is accepted, and anchored as signed; disputes block coupons; carbon ignores the order of arrival; a lone dissenter is named | three items per upstream including refused ones; two reports, a cached list and one dispute; four reports of two sources |
| `browser` | a page never shows what was before one's own change, transactions are followed over reloads, the list matches the filter | two calls in flight, one reload of the page, with and without localStorage; two orders of two bonds, one retry, one poll |
| `project_metadata` | violation, see section 4 | digests of three bytes |

Runs on composed contracts start from a state that the listed contracts reach by the calls named in
the MC module, with the nonces those calls have used up, and take the steps that matter there.
Symmetry is used where the permuted accounts or requests are interchangeable in the initial states
and the properties are safety properties.

Deadlock is checked in `bond_issuer` and `browser`; elsewhere a behaviour ends when the budgets of
the bound are used up.

**Fairness** is assumed in `background_jobs` only (`JobsFairness`): weak fairness of each sweep
process, of the reconciliation job, and of the monitor as a whole, because `@nestjs/schedule` fires
every job again and again and a started run goes on to its end or its first error. One replica of
the monitor may stop for good; some replica does not. Nothing is assumed about users or clients,
and faults are possible and never forced.

**Refinement.** `RunsOnce` says that `Idempotency` implements `OnceOnly` under the mapping in
`Idempotency` (`Promise`, `Owners`): a key is free, running, executed, lost with a crashed process,
or void once a handler has thrown or Redis has failed on it. `request_admission` checks it, section 5
proves it.

## 4. Disagreements between code and documentation

One has a run of its own. `project_metadata`: the contracts store the 32-byte digest of an identifier,
and `decodeCid` always writes it out as a version 0 identifier, although its comment promises the
original one (cid.util.ts:95). Metadata pinned as version 1 is then looked up under another name.

The others were met while modelling; the properties state what does hold.

*Contracts*

- docs/architecture.md:222 says that listed tokens "cannot be transferred away via BondIssuer". The
  issuer does not know of escrow (bond-issuer lib.rs:334). `DeliveryAgainstPayment` shows that a
  purchase then fails as a whole.
- docs/coupon-accounting.md:3 says that no credits are "magically created". Each batch reads balances
  anew (coupon-engine lib.rs:308); a token transferred between two batches is paid on twice.
- One report can be paid out in two periods (coupon-engine lib.rs:213; docs/coupon-accounting.md:9); a
  claim before a period's last batch leaves its credits in the itemised view (lib.rs:577-598).
- retire_credits does not reduce what claim_credits pays (credit-retirement lib.rs:131;
  docs/coupon-accounting.md:21).
- A veto is stored as `false` and looked for as `true`: one signer can veto until the threshold
  (governance lib.rs:350-355; docs/governance.md:43).
- Governance has one execution nonce per target, the registry counts reviews and set_admin apart
  (project-registry lib.rs:493): after one executed review an approved set_admin can never be executed
  (docs/governance.md:59). BondIssuer, OracleConsumer and DEXRouter have a set_admin without the nonce
  that governance appends (docs/governance.md:20).
- resolve_challenge marks a report Verified without verifications (oracle-consumer lib.rs:601;
  docs/oracle-design.md:139), and a provider may withdraw its stake before its report is overturned
  (lib.rs:850; docs/oracle-design.md:158). The default threshold is 1 and not 2 (docs/oracle-design.md:141).

*API*

- docs/architecture.md:228 makes the sweep "the cleanup mechanism". NonceService takes a nonce before
  the call and never gives it back (nonce.service.ts:16), so one rejected call stops all later ones.
- Two retries of a failed request run side by side (idempotency.interceptor.ts:62-76; docs/idempotency.md:34);
  a lost answer is recorded as an error and the retry sends a second transaction (docs/idempotency.md:3-5).
- The KYC audit log is not replayed where there is no snapshot (kyc-store.service.ts:158); a torn line
  ends up in front of the next one; listAudit reads ten bytes per entry asked for (line 64); a copy of
  an expired record can overwrite a later verification (kyc.service.ts:88-98). The log line and the
  snapshot are written side by side (kyc-store.service.ts:139-142): when a crash leaves the snapshot of a
  change without its line, replaying the log over it joins the expiry date of that change with the
  status of the one before (line 197), so an account refused only because its date had passed can be
  eligible again. `RefusalIsHonoured` is about refusals by status, which do survive.
- A lost EXPIRE leaves a rate-limit counter for ever.
- reconcileBond swallows failed balance reads and calls touch() all the same, and so do recordSubscribe
  and recordTransfer: getHoldersForCoupon then takes the index for reconciled, and its refusal of a
  failed reconciliation (holder-index.service.ts:158-165) cannot happen. A subscription is recorded
  when it is submitted, so a read before it is applied prunes the holder, and the next coupon of that
  hour misses it. Two first requests load the store twice, and the second load drops what the first
  recorded (`calm`, `reloaded` in `HolderIndex`).
- getBondDetail reads its parts one after the other, where its comment says "Atomically"
  (bonds.service.ts:209-215). The checksums of exportBond and exportProject pass the top-level keys to
  JSON.stringify as a filter, so nested values are left out (bonds.service.ts:716, projects.service.ts:344).
- A failed redis.get makes uploadDocuments overwrite the list (projects.service.ts:167).
- sendTransaction treats TRY_AGAIN_LATER as success; listBondTokens answers with the order id of the
  simulation (dex.service.ts:108). BondError 13 and 14 are missing from ERROR_MAPPINGS, and the
  governance contract from getContractCategory. The race that dex.service.ts:463-466 means to answer
  as a conflict arrives as a ContractException and is answered as a bad request.
- getPriceFeed takes the minimum of the prices and 0 (liquidity.service.ts:43).
- reconcileOrders lists Open orders only, so a partially filled one is always reported missing; its
  escrow check looks at the seller's quote balance; repair leaves the last report in place.

*Oracle*

- challengeReport evicts the providers but not the lists of reports, so eligibility is wrong for up to
  a minute (oracle.service.ts:207-210); a report that cannot be read does not block a coupon.
- Periods of 1e11 and more are matched as milliseconds and anchored as seconds
  (manifest-verification.ts:92-94); a fractional carbon value throws after its nonce was taken.
- SUPPORTED_METHODOLOGIES has names with '-', the scripts write '_'; staleness.ts has hyphenated keys;
  docs/runbook-degraded-providers.md:55-56 gives blue carbon 90 days, the API its default.
- Satellite carbon is NaN at a baseline of 1; two reports of one provider count as independent; the
  tolerance is that of the first report; health.ts:55-58 takes a 4xx for healthy.
- The hash of buildOracleReport covers a payload that is never returned.
- A failed read of reports opens a false incident of staleness.

*Frontend*

- onReconcileHolders never resets its flag on success; mature's answer has no transactionHash, so
  onMature registers nothing; a failed poll marks a transaction failed that may succeed; two tabs
  overwrite each other's list of pending transactions.
- quotePanel of MarketplaceListComponent (line 482) is never assigned, so balances are not refreshed
  after a purchase (620, 700); the panel shows 0 for balances it cannot read; a purchase that succeeds
  closes whatever form is open then.
- The dashboard stays in 'loading' when a section fails after the other settled
  (dashboard.component.ts:563-567, 590-594).

## 5. Proofs

All theorems hold for every value of the constants that satisfies the named assumptions. They give
the constants their types (`IssuerAssumption`, `I128Assumption`, `DexAssumption`, `GovAssumption`,
`OracleAssumption`, `CouponAssumption`, `RetireAssumption`, `IdempotencyAssumption`,
`KycAssumption`, `HolderAssumption`, `RecordsAssumption`, `PageAssumption`, `MarketAssumption`,
`CidAssumption`, `EvidenceAssumption`, `CrossAssumption`, and `ReadingAssumption`: the schema of a
reading refuses one without a whole-number time, schemas.ts:90); the others say a little more:

- `GovernedAssumption`: Governance is an account of the registry but no caller of its own entry points,
  and every call is a record on the registry's address.
- `AdmissionAssumption`: the counter of an IP is nobody's account (the keys have different prefixes,
  auth.service.ts), and there are finitely many tabs.
- `ServiceAssumption` of `ServiceCaches`: the callers of a scene are wallets, among which are the seller
  and the owner. `ServiceAssumption` of `OracleReports`: a submission has the fields of its class, with
  whole periods and a carbon value that is a quotient.
- `ThresholdAssumption` of `OracleIncidents`: the configured thresholds never take an escalation back as
  occurrences add up. The code accepts others (`3:critical,5:warning`); with them an incident becomes
  critical and later a warning again, and between the two statements of the fifth detection it is
  critical with a count that asks for a warning.
- `SeasonAssumption` of `OracleAdapters`: periods lie between 1970 and the day whose seconds look like
  milliseconds (10^11 seconds, the year 5138). A date after that is misread on its way back from the
  manifest (section 4).
- `NeverUndefined`, the hypothesis of `ReportsAreAccepted`: JavaScript's `undefined` is neither a
  quotient nor a signature record. In the runs it is a model value, which differs from both.

| Module | Theorem | Statement |
|---|---|---|
| `BondProofs` | `InductiveInvariant` | `Spec => []IInv` |
| | `TypeCorrect` | `Spec => []TypeOK` |
| | `SupplyIsConserved` | `Spec => []SupplyConserved` |
| | `SupplyIsCapped` | `Spec => []NeverOversubscribed` |
| | `SupplyIsFrozen` | `Spec => FrozenAtMaturity` |
| | `CoverageIsKept` | `Spec => CoverageNeverLost` |
| | `EscrowIsExact` | `DexSpec => []EscrowMatchesOrders` |
| | `TradingConservesSupply` | `DexSpec => []SupplyConserved` |
| | `PaidOnDelivery` | `DexSpec => DeliveryAgainstPayment` |
| `GovernanceProofs` | `QuorumIsRequired` | `GovSpec => []QuorumApproved` |
| | `ExecutionsCounted` | `GovernedSpec => []ExecutionsAreCounted` |
| | `ReviewsGoverned` | `GovernedSpec => ReviewsAreGoverned` |
| `CreditProofs` | `OracleInvariant` | `OracleSpec => []OracleInv` |
| | `NoOverlap` | `OracleSpec => []ReportsNeverOverlap` |
| | `OneSlashPerRejection` | `OracleSpec => []SlashedOncePerRejection` |
| | `QuorumVerifies` | `OracleSpec => VerifiedByQuorum` |
| | `LedgersInStep` | `CouponSpec => []LedgersAgree` |
| | `BatchNeverOverpays` | `CouponSpec => OneBatchNeverOverpays` |
| | `RetirementsBacked` | `RetireSpec => []RetirementsAreBacked` |
| | `SignedIsAnchored` | `ReportsSpec => []AnchoredAsSigned` |
| | `DisputesBlock` | `ReportsSpec => DisputesBlockCoupons` |
| `RequestProofs` | `Faithful` | `Spec => []ReplaysAreFaithful` |
| | `ImplementsOnceOnly` | `Spec => RunsOnce` |
| | `ChallengesSignInOnce` | `AdmSpec => []OneSessionPerChallenge` |
| | `IntentsAreSpent` | `AdmSpec => []IntentsActOnce` |
| | `BurstsAreBounded` | `AdmSpec => []BurstIsBounded` |
| | `ChangesSurvive` | `KycSpec => []AnsweredChangesSurvive` |
| | `RefusalsHonoured` | `KycSpec => []RefusalIsHonoured` |
| `StoreProofs` | `RecordsAreKept` | `HolderSpec => []RecordedIsRemembered` |
| | `CouponsPayHolders` | `HolderSpec => []CouponPaysItsHolders` |
| | `EscalationsEarned` | `IncidentSpec => []EscalationIsEarned` |
| `ServiceProofs` | `ViewsExpire` | `SvcSpec => []OutdatedViewsExpire` |
| | `SequencesClear` | `SvcSpec => []StaleSequencesClear` |
| | `DepositIsAskedFor` | `SvcSpec => []SpentEscrowAsksForDeposit` |
| | `DocumentsKept` | `RecordsSpec => []DocumentsAreKept` |
| `PageProofs` | `OwnChangesShow` | `PageSpec => []RefreshShowsOwnChange` |
| | `TransactionsFollowed` | `PageSpec => []TransactionsAreFollowed` |
| | `ListIsAsAsked` | `MarketSpec => []ListMatchesFilter` |
| `EvidenceProofs` | `DigestsSurvive` | every digest comes back from its CIDv0, on either side |
| | `ReportsAreAccepted` | `NeverUndefined` gives `AdapterSpec => []SignedReportsAreAccepted` |
| | `CarbonIsByTime` | `AdapterSpec => []CarbonIgnoresArrivalOrder` |
| | `DissentersAreNamed` | `CrossSpec => []LoneDissenterIsNamed` |

**BondIssuer.** `TypeOK` is not inductive: `redeem` takes an amount off `total_subscribed` after
looking at the holder's balance only, so that total stays non-negative because it is the sum of the
balances. `IInv` therefore says of every tranche that its units are finitely many, that `Tally` of its
balances is the total, and that a tranche not yet issued has none. One lemma per call shows that it is
preserved; the calls that move tokens cite `TallyExcept`: changing one key of a ledger changes its sum
by the difference. `Tally` counts units as a finite set so that this lemma follows from the cardinality
theorems, with no recursion; `MCBondIssuer` evaluates it against the ordinary sum. The two action
properties follow from `IInv`; `CoverageIsKept` needs that a payout is the same multiple of the face
value as the fall in the principal due.

**DexRouter.** A release subtracts from the escrow counter without looking at it, so types and sums
are proved together here as well. `DexInv` says that what the orders of a seller hold, order by order,
are finitely many units whose `Tally` is the counter; listing appends an order, and every other call
changes one (`OneOrder`). It contains the issuer's `IInv`, since a purchase transfers at the issuer, whose
lemmas are cited for the issuer's calls. `PaidOnDelivery` compares the books across a purchase: what
the issuer moves is what the order loses, and what leaves the buyer's quote balance is what reaches
the seller's (`QuotePaid`).

**Governance.** `GovInv` adds to `QuorumApproved` that nobody has a vote stored under an id that is not
in use, since a new proposal starts at a count of 0, and that a pending proposal has fewer vetoes than
the threshold, which bounds the counts.

**GovernedRegistry.** `GovernedInv` joins `GovInv`, the types of the registry's nonces and projects, and
`ExecutionsAreCounted`. A review fits the execution nonce only while Governance has no instance nonce
counted, an admin change only while it has no persistent one, so either kind shuts the other out.
`ReviewsGoverned` needs `GovInv` as well: the threshold behind an executed proposal is the one that
queued it.

**OracleConsumer.** `OracleInv` adds `Sound`: verifiers are finitely many and never include the
provider, a pending report has never been challenged, and a rejected one has its challenge resolved. The
first makes the count of a quorum a cardinality, the second is why only `verify_report` verifies a
pending report, the third why a rejection is not repeated. `PenaltyFits` shows that a slash never takes
more than the stake, also where the product wraps around.

**CouponEngine.** `EngineInv` joins the invariants of the issuer and the oracle with the engine's own.
The ledgers are written with a credit type that the engine stored at registration and claimed with the
one it has then, so `Registered` says that its copy is the issuer's, which never changes, and
`OnlyClearable` that nothing accrues under a type that a claim of that bond does not clear.
`BatchNeverOverpays` bounds the sum of what a batch pays: a holder occurs once in a batch, shares are
rounded down twice, and scaling a ledger scales its `Tally`, so the shares add up to no more than the
issuer's total allows. `ReportsValid` is there because a negative measurement would turn the rounding
around.

**CreditRetirement.** A retirement is checked against the engine's ledger, which a claim clears:
what ever accrued (`EverAccrued`) never shrinks, so neither does the bound on what has been retired.
The records add up to the counters because a retirement appends one record and raises one counter of
each kind by its amount.

**Report service.** `ReportsInv` says of every report that it is what its submission says, and that the
submission was admitted, and of a request that is filing one that it was admitted already. Of every
list, while it is read and while it is cached, it says that each report of the project is shown as it
stands, unless its status changed since the reading began, is still to be read, or could not be read
(`Shows`). `Noted` is why this stays true: each change of a status leaves its time in `changedAt`.

**Idempotency.** `IdemInv` relates every request's place to the record of its key: one that has
reached the reservation finds a record as long as Redis works, and one that runs the handler finds its
own payload in it; there is a record wherever there is an effect; a stored success is that of a
handler that took effect; and on a key without errors and faults one request at most runs the handler,
before any effect. Two lemmas say what has to be shown of a step that moves one request
(`OneRequest`) or also writes one record (`OneRecord`), so each action has a short proof. For the
refinement, `OtherKeys` and `Abstractly` reduce a step to what it does to one key; `Refused` shows that
the second of two requests never gets to the handler.

**Admission.** The check of a limit and the increment are two steps, so the bound is not the limit:
`BurstInv` counts the requests that were let through and not yet counted as if they were, and with them
a counter is above the limit by no more than the other tabs. `SessionInv` says that a stored challenge
is the account's own and has signed nobody in; `IntentInv` that the nonce of an accepted intent
outlives the intent, which is where the margin of the nonce's lifetime matters.

**KYC records.** `Numbered` says that the log, the line being written and the queue behind it are in
the order in which the changes were made, so the last line of an account is its latest logged change
and replaying the log can only lose what was not yet answered (`Latest`, `Saved`); a request whose
change is not answered yet is in that queue, or done with the files (`Queued`). `Honoured` says of a
refused account that its record, every line since the refusal and every line still queued refuse it,
and that a copy in Redis, or an answer under way, that would let it through was read before the refusal
and has no longer to live than is left since. A refusal by date alone does not survive every crash
(section 4), so the property is about refusals by status.

**HolderIndex.** `RequestOK` says where in its loops a request can be. While no balance has changed
under a read (`calm`), a balance that was read is the one on chain (`AnswerOK`), so pruning never takes
a holder away; then the holders a coupon has to pay are in the index or still to be read, later in its
list or still to be read (`PayOK`). The stores only grow in what they have known, save that a second
load replaces what the first recorded, which is what `reloaded` says.

**Incidents.** `IncidentInv` joins `EscalationIsEarned` with what a replica holds between the two
statements of `recordDetection` (`DueOK`): the row it is about to mark exists, and the count stored in
that row now earns the severity it will write. Rows are never deleted and counts never shrink, so this
survives whatever operators and other replicas do in between; a recurrence after a resolution is a row of
its own.

**Services.** One invariant, `SvcInv`, carries three arguments. While a request holds a version that
version does not age, so the age of a cached view and the time it has left add up to its time to live
and, for a view put together from cached parts, that of its longest-lived part. A remembered account,
and a transaction built on it, are behind the ledger only while the time since the last transaction and
the time left add up to no more than their lifetimes. The error of a failed request is the ledger's
refusal in the version it was judged by, and versions are never rewritten.

**Project documents.** A request about to write the list has read all that is to be kept, because
only a request that was alone from its read to its write adds to that.

**Pages.** On the bond page there is one reload at a time, and it began after the latest change that
the page was told of, because being told begins a reload and drops the one before. What localStorage
keeps is what is listed as long as it works. On the marketplace page there is one request for orders at
a time, and it asks with the chosen filter.

**Identifiers.** What a function defined by recursion computes is proved without an induction theorem.
Of two sets of numbers one of which contains the other strictly the library says that they are ordered
well-foundedly; the initial segments of the naturals are such sets, so a set of numbers that is not
empty has a least one (`LeastNumber`), and what fails somewhere first fails at a number whose
predecessors are in order (`UpTo`). `Recursion` uses this for the equation of a recursive definition
itself. Digits have a `Worth`. Every round of the conversion multiplies it by the old base and adds a
digit, in either direction (`ShiftWorth`), and a number has one numeral without leading zeros
(`OneNumeral`); so base 58 and back is the identity on bytes that do not begin with 0
(`Base58RoundTrip`), and the prefix of a CIDv0 does not. The theorem holds for every pair of bases and
every length of a digest, where the runs have small ones.

**Oracle scripts.** `AdapterInv` says that a report on its way was made from the input of its own job.
`ManifestVerifies` shows that the manifest of such a report verifies: canonical JSON drops what is
undefined in the same way before and after the trip, and the digest comes back by `DigestsSurvive`. The
dates agree with those of the report because the end of a period, in seconds, is not taken for
milliseconds. For `CarbonIgnoresArrivalOrder`, sorting is by rank: the first and the last of the sorted
readings are extremes of the times (`SortedEnds`, `LastPlace`), whatever the order of arrival.

**Comparison of sources.** Where all sources but one agree, the middle ranks of the values in ascending
order all hold the peers' value (`MedianOfPeers`), so that is the median, and the one that is far from
it is the dissenter. What the filters leave is the same set of reports for both detectors, so they
assess the same cluster (`NamedIfListed`).

**Only model-checked.** The liveness of the jobs (`OrderSweep`, `Reconciliation`, `OracleIncidents`),
since fairness is out of this prover's reach, and the violation that the run `project_metadata` exhibits.
Every other property of a run is stated by a theorem.

## 6. Not modelled

- Cryptography (a signature is that of the account that signs, hashes have no collisions), transaction
  encoding, the storage time-to-live of Soroban, Redis clusters failing over, the expiry of
  idempotency records (a run covers one retention window).
- Exports and provenance of bonds and projects, aggregate reads over holders, the preview of a
  subscription, the statistics of providers and the depth calculations of the liquidity service: reads
  that combine what other modules already have, with floating point.
- Dashboard, project, sell, issue and landing pages, and the claimable and eligibility panels of the
  bond page: forms and views without a protocol of their own.
- staleness.ts, health.ts and run.ts of the oracle: one-shot scripts that print what they measured.
- Seed data, deployment scripts, generated bindings and storage fixtures.
