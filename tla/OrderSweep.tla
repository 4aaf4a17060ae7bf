----------------------------- MODULE OrderSweep -----------------------------
(***************************************************************************)
(* The API's hourly job that drives clean_expired_orders                   *)
(* (api/src/marketplace/dex.scheduler.ts, dex.service.ts cleanExpiredOrders)*)
(* over the order book of DexRouter.  The job keeps its place in Redis and *)
(* signs with the admin's nonce, which NonceService counts in Redis as     *)
(* well.  API processes may run the job side by side.                      *)
(*                                                                         *)
(* The contract's nonce and the Redis counter grow without bound; only     *)
(* their difference matters and is kept (skew).                            *)
(***************************************************************************)
EXTENDS DexRouter

CONSTANTS
  Runner,       \* API processes
  BatchSize,    \* DEX_CLEAN_BATCH_SIZE
  MaxBatches,   \* DEX_CLEAN_MAX_BATCHES
  Faults,       \* the faults that may happen, a subset of Fault
  MaxFaults     \* bound: faults that happen

Fault == {"redis",      \* a Redis read or write fails; RedisService swallows it
          "reply",      \* the transaction is applied, its answer is lost
          "rejected"}   \* the transaction is refused or never applied

ASSUME SweepAssumption ==
  /\ BatchSize \in Nat \ {0} /\ MaxBatches \in Nat \ {0}
  /\ Faults \subseteq Fault /\ MaxFaults \in Nat

VARIABLES
  cursor,   \* Redis dex:clean_expired:cursor, 0 while unset
  job,      \* per process: the run in progress
  skew,     \* Redis nonce counter minus the contract's nonce of the admin
  faults    \* faults so far

sweepVars == <<cursor, job, skew, faults>>
allVars == <<marketVars, sweepVars>>

Idle == [pc |-> "idle", startId |-> 0, batches |-> 0, next |-> 0]

Job == [pc : {"idle", "call", "save"}, startId : 0..MaxOrders, batches : 0..MaxBatches,
        next : 0..MaxOrders]

SweepInit == /\ cursor = 0
             /\ job = [r \in Runner |-> Idle]
             /\ skew = 0 /\ faults = 0

Happens(fault) == /\ fault \in Faults /\ faults < MaxFaults
                  /\ faults' = faults + 1
-----------------------------------------------------------------------------

startFrom(stored) == IF stored < 1 THEN 1 ELSE stored

\* The cron fires: read the cursor; a failed read counts as no cursor.
cleanExpiredOrders(r) ==
  /\ job[r].pc = "idle"
  /\ \E stored \in {cursor, 0} :
       /\ IF stored = cursor THEN UNCHANGED faults ELSE Happens("redis")
       /\ job' = [job EXCEPT ![r] = [Idle EXCEPT !.pc = "call", !.startId = startFrom(stored)]]
  /\ UNCHANGED <<marketVars, cursor, skew>>

\* One batch: allocate a nonce and call the contract, which accepts only its
\* own next nonce.
Clean(r) ==
  /\ job[r].pc = "call"
  /\ skew = 0
  /\ SweepOrders(job[r].startId, BatchSize)
  /\ \/ /\ UNCHANGED faults
        /\ job' = [job EXCEPT ![r].pc = "save", ![r].batches = @ + 1,
                              ![r].next = next_start_id(job[r].startId, BatchSize)]
     \/ /\ Happens("reply")
        /\ job' = [job EXCEPT ![r] = Idle]
  /\ UNCHANGED <<vars, dexAdmin, dexNonce, quote, escrow, cursor, skew>>

\* The call fails: refused for its nonce, or for another reason.  The nonce
\* allocated to it is not given back; the job logs the error and stops.
CleanFails(r) ==
  /\ job[r].pc = "call"
  /\ IF skew # 0 THEN UNCHANGED faults ELSE Happens("rejected")
  /\ skew' = (IF skew < MaxFaults THEN skew + 1 ELSE skew)
  /\ job' = [job EXCEPT ![r] = Idle]
  /\ UNCHANGED <<marketVars, cursor>>

\* After the last order the next run starts over.
NextCursor_KeepsLast(j) == IF j.next = 0 THEN j.startId ELSE j.next

NextCursor(j) == IF j.next = 0 THEN 1 ELSE j.next

\* Save the place; go on with the next batch unless the book is finished or
\* the run has used up its batches.
SaveCursor(r) ==
  /\ job[r].pc = "save"
  /\ \E saved \in BOOLEAN :
       IF saved THEN cursor' = NextCursor(job[r]) /\ UNCHANGED faults
       ELSE UNCHANGED cursor /\ Happens("redis")
  /\ job' = [job EXCEPT ![r] =
               IF @.next = 0 \/ @.batches = MaxBatches THEN Idle
               ELSE [@ EXCEPT !.pc = "call", !.startId = job[r].next]]
  /\ UNCHANGED <<marketVars, skew>>
-----------------------------------------------------------------------------
JobStep(r) == cleanExpiredOrders(r) \/ Clean(r) \/ CleanFails(r) \/ SaveCursor(r)

\* Users list and cancel, and time passes, while the job runs.
BookStep ==
  /\ \/ \E a \in Address, n \in 0..MaxNonce :
          \/ \E b \in BondId, amount \in Amount, price \in Price, asset \in Asset, l \in Lifetime :
               list_bond_tokens(a, b, amount, price, asset, l, n)
          \/ \E id \in OrderId : cancel_listing(a, id, n)
     \/ Tick /\ UNCHANGED dexVars
  /\ UNCHANGED sweepVars

SweepNext == BookStep \/ \E r \in Runner : JobStep(r)

\* The cron fires every hour and a run in progress is not abandoned.
SweepFairness == \A r \in Runner : WF_allVars(JobStep(r))

SweepSpec == Init /\ DexInit /\ SweepInit /\ [][SweepNext]_allVars /\ SweepFairness
-----------------------------------------------------------------------------
ExpiredOpen == {id \in OrderId : IsOpen(orders[id]) /\ now >= orders[id].expires_at}

\* Every order past its deadline leaves the open book ("the periodic
\* cursor-batched admin sweep is the cleanup mechanism", docs/architecture.md)
\* as long as no call is rejected: the cursor never settles into a pattern
\* that skips an order, whatever is listed, cancelled, lost by Redis or left
\* unanswered meanwhile, and however processes overlap.
SweptWhileNonceValid == [](skew = 0) => (ExpiredOpen # {} ~> ExpiredOpen = {})
=============================================================================
