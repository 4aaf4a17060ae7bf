----------------------------- MODULE HolderIndex -----------------------------
(***************************************************************************)
(* HolderIndexService and its FileHolderStore, with the requests of        *)
(* BondsService that use them: the list of the addresses that hold one     *)
(* bond, which the API keeps for coupon distribution and reconciles with   *)
(* the balances on chain.                                                  *)
(*                                                                         *)
(* Node runs one request until its next await, so a step of the model is   *)
(* the code between two awaits.  The store is a JSON file that is loaded   *)
(* by the first request of a process and rewritten after every change.     *)
(* Only the truth of "has a balance" is kept of the chain.                 *)
(***************************************************************************)
EXTENDS Naturals

CONSTANTS Address, Task, NoOne,
  EarlierFile,  \* what the first process may find on disk
  MaxRequests,  \* bound: requests served by a behaviour
  MaxMoves,     \* bound: changes of the balances on chain
  MaxRestarts   \* bound: restarts of the process

ASSUME HolderAssumption ==
  /\ NoOne \notin Address
  /\ EarlierFile \subseteq [holders : SUBSET Address, known : SUBSET Address, touched : BOOLEAN]
  /\ {MaxRequests, MaxMoves, MaxRestarts} \subseteq Nat

VARIABLES
  onChain,   \* the addresses with a positive get_holder_balance
  inflight,  \* transactions that sendTransaction submitted and no ledger applied
  data,      \* the store in memory
  file,      \* what load() would make of the file on disk
  loaded,    \* this.loaded
  task,      \* the request each task is serving
  recorded,  \* history: the addresses recorded as holders by this process
  reloaded,  \* history: a load of this process replaced a loaded store
  calm,      \* history: no balance changed and no read failed in this busy spell
  spent      \* how much of each bound is used

holderVars == <<onChain, inflight, data, file, loaded, task, recorded, reloaded, calm, spent>>
history == <<recorded, reloaded>>

\* touched: lastReconciled is not 0.  A missing file and one that does not
\* parse load as the same empty store.
EmptyStore == [holders |-> {}, known |-> {}, touched |-> FALSE]

\* op: the request, a method of BondsService. pc: where it waits. stage: the
\* loop it is in ("reconcile", "recheck" or "scan"). late: by its clock, any
\* touch() lies more than maxStalenessMs back. overlap: its write overlaps
\* another. base: history, the addresses that the coupon had to look at.
Idle == [op |-> "none", pc |-> "idle", stage |-> "none", from |-> NoOne, to |-> NoOne,
         todo |-> {}, seen |-> NoOne, balance |-> "zero", changed |-> FALSE,
         list |-> {}, late |-> FALSE, refused |-> FALSE, raw |-> EmptyStore, overlap |-> FALSE, base |-> {}]

\* A process starts on a file that an earlier one has left.
HolderInit ==
  /\ onChain \in SUBSET Address
  /\ file \in EarlierFile
  /\ inflight = {} /\ data = EmptyStore /\ loaded = FALSE
  /\ task = [t \in Task |-> Idle]
  /\ recorded = {} /\ reloaded = FALSE /\ calm = TRUE
  /\ spent = [requests |-> 0, moves |-> 0, restarts |-> 0]
-----------------------------------------------------------------------------
Spend(kind, bound) == spent[kind] < bound /\ spent' = [spent EXCEPT ![kind] = @ + 1]

Busy(tasks) == \E t \in Task : tasks[t].op # "none"

\* The request of t goes on as r; a spell of requests ends with its last one.
Resume(t, r) ==
  /\ task' = [task EXCEPT ![t] = r]
  /\ calm' = (calm \/ ~Busy(task'))

\* subscribe and transfer return from sendTransaction when the transaction is
\* submitted: it passed simulation, and is applied in a later ledger or never.
Send(t, op, from, to) ==
  /\ task[t] = Idle /\ Spend("requests", MaxRequests)
  /\ from # NoOne => from \in onChain
  /\ inflight' = inflight \cup {[from |-> from, to |-> to]}
  /\ Resume(t, [Idle EXCEPT !.op = op, !.pc = "enter", !.from = from, !.to = to])
  /\ UNCHANGED <<onChain, data, file, loaded, history>>

Ask(t, op, late) ==
  /\ task[t] = Idle /\ Spend("requests", MaxRequests)
  /\ Resume(t, [Idle EXCEPT !.op = op, !.pc = "enter", !.late = late])
  /\ UNCHANGED <<onChain, inflight, data, file, loaded, history>>

\* The requests of BondsService.
subscribe(t, investor) == Send(t, "subscribe", NoOne, investor)
transfer(t, from, to) == Send(t, "transfer", from, to)
getHolders(t) == Ask(t, "getHolders", FALSE)
reconcile(t) == Ask(t, "reconcileBond", FALSE)
\* With one bond, a reindex is a reconciliation of that bond.
reindexHolders(t) == reconcile(t)
distributeCoupon(t) == \E late \in BOOLEAN : Ask(t, "distributeCoupon", late)
-----------------------------------------------------------------------------
(* What a request does with the store d between two awaits: the outcome is  *)
(* the request as it waits next and the store it leaves.                    *)

Outcome(r, d) == [request |-> r, store |-> d]

\* The store's operations.
addHolder(d, a) == [d EXCEPT !.holders = @ \cup {a}]
removeHolder(d, a) == [d EXCEPT !.holders = @ \ {a}]
addKnownAddresses(d, addresses) == [d EXCEPT !.known = @ \cup addresses]
touch(d) == [d EXCEPT !.touched = TRUE]

recordSubscribe(r, d) ==
  Outcome([r EXCEPT !.pc = "save"], touch(addKnownAddresses(addHolder(d, r.to), {r.to})))

recordTransfer_ForgetsReceiver(r, d) ==
  Outcome([r EXCEPT !.pc = "save"], touch(addKnownAddresses(addHolder(d, r.to), {r.from})))

recordTransfer(r, d) ==
  Outcome([r EXCEPT !.pc = "save"], touch(addKnownAddresses(addHolder(d, r.to), {r.from, r.to})))

Pruned(r, d) == Outcome([r EXCEPT !.pc = IF r.changed THEN "save" ELSE "done"], d)

\* getHoldersWithBalances up to its first await; stage tells whether it is
\* the one inside reconcileBond.
getHoldersWithBalances(r, d, stage) ==
  LET begun == [r EXCEPT !.stage = stage, !.todo = d.holders, !.list = {}, !.changed = FALSE]
  IN  IF d.holders = {} THEN Pruned(begun, d) ELSE Outcome([begun EXCEPT !.pc = "read"], d)

\* The loop of reconcileBond is left: touch, then save.
Reconciled(r, d) == Outcome([r EXCEPT !.pc = "save"], touch(d))

candidates_HoldersOnly(d) == d.holders

\* BondsService supplies no extra candidates.
candidates(d) == d.holders \cup d.known

reconcileBond(r, d) ==
  LET begun == [r EXCEPT !.stage = "reconcile", !.todo = candidates(d),
                         !.base = d.holders \cup d.known]
  IN  IF candidates(d) = {} THEN Reconciled(begun, d) ELSE Outcome([begun EXCEPT !.pc = "read"], d)

\* getHoldersForCoupon after the freshness check: an index that was never
\* seeded is refused.
SeededHolders(r, d) ==
  IF d.known = {} /\ d.holders = {}
  THEN Outcome([r EXCEPT !.pc = "done", !.refused = TRUE], d)
  ELSE getHoldersWithBalances(r, d, "scan")

getHoldersForCoupon(r, d) ==
  IF ~d.touched \/ r.late THEN reconcileBond(r, d)
  ELSE SeededHolders([r EXCEPT !.base = d.holders], d)

\* The request of r, from the end of ensureLoaded to its next await.
Proceed(r, d) ==
  CASE r.op = "subscribe"        -> recordSubscribe(r, d)
    [] r.op = "transfer"         -> recordTransfer(r, d)
    [] r.op = "getHolders"       -> getHoldersWithBalances(r, d, "scan")
    [] r.op = "reconcileBond"    -> reconcileBond(r, d)
    [] r.op = "distributeCoupon" -> getHoldersForCoupon(r, d)

\* A finished getHoldersWithBalances inside the reconcileBond of a coupon is
\* followed by a second one; every other request is answered.
Continue(r, d) ==
  IF r.pc = "done" /\ r.stage = "recheck" /\ r.op = "distributeCoupon"
  THEN SeededHolders(r, d)
  ELSE Outcome(r, d)

Settle(t, out) ==
  LET final == Continue(out.request, out.store)
  IN  Resume(t, final.request) /\ data' = final.store

\* history: the addresses that recordSubscribe and recordTransfer recorded.
RecordedBy(r) == IF r.op \in {"subscribe", "transfer"} THEN {r.to} \cup ({r.from} \ {NoOne}) ELSE {}
-----------------------------------------------------------------------------
\* ensureLoaded: a loaded store is used at once, otherwise the file is read.
ensureLoaded(t) ==
  /\ task[t].pc = "enter"
  /\ \/ /\ loaded
        /\ Settle(t, Proceed(task[t], data))
        /\ recorded' = recorded \cup RecordedBy(task[t])
     \/ /\ ~loaded
        /\ Resume(t, [task[t] EXCEPT !.pc = "load"])
        /\ UNCHANGED <<data, recorded>>
  /\ UNCHANGED <<onChain, inflight, file, loaded, reloaded, spent>>

\* The file is read; one that is being rewritten may be read half-written.
readFile(t) ==
  /\ task[t].pc = "load"
  /\ \E text \in {file} \cup {EmptyStore : u \in {u \in Task : task[u].pc = "write"}} :
       Resume(t, [task[t] EXCEPT !.pc = "loaded", !.raw = text])
  /\ UNCHANGED <<onChain, inflight, data, file, loaded, history, spent>>

MarkLoaded == loaded' = TRUE

\* load() replaces the store by what was read, whatever another request has
\* put there meanwhile.
load(t) ==
  /\ task[t].pc = "loaded"
  /\ Settle(t, Proceed([task[t] EXCEPT !.raw = EmptyStore], task[t].raw))
  /\ MarkLoaded
  /\ reloaded' = (reloaded \/ loaded)
  /\ recorded' = recorded \cup RecordedBy(task[t])
  /\ UNCHANGED <<onChain, inflight, file, spent>>

\* getOnChainBalance: the simulated call is answered from the ledger of this
\* moment, or fails.
getOnChainBalance(t) ==
  /\ task[t].pc = "read"
  /\ \E x \in task[t].todo :
       \/ Resume(t, [task[t] EXCEPT !.pc = "answer", !.seen = x, !.todo = @ \ {x},
                                    !.balance = IF x \in onChain THEN "some" ELSE "zero"])
       \/ /\ task' = [task EXCEPT ![t].pc = "answer", ![t].seen = x, ![t].todo = @ \ {x},
                                  ![t].balance = "error"]
          /\ calm' = FALSE
  /\ UNCHANGED <<onChain, inflight, data, file, loaded, history, spent>>

\* The body of the loop of getHoldersWithBalances for one answer.
Listed(r, d) ==
  IF r.balance = "zero"
  THEN Outcome([r EXCEPT !.changed = TRUE], removeHolder(d, r.seen))
  ELSE Outcome([r EXCEPT !.list = @ \cup {r.seen}], d)

\* The body of the loop of reconcileBond for one answer.
Indexed(r, d) ==
  CASE r.balance = "some"  -> Outcome(r, addHolder(d, r.seen))
    [] r.balance = "zero"  -> Outcome(r, removeHolder(d, r.seen))
    [] r.balance = "error" -> Outcome(r, d)

Answer(t) ==
  /\ task[t].pc = "answer"
  /\ LET r    == task[t]
         rec  == r.stage = "reconcile"
         body == IF rec THEN Indexed(r, data) ELSE Listed(r, data)
         next == [body.request EXCEPT !.seen = NoOne, !.balance = "zero"]
     IN  Settle(t, CASE r.todo # {}         -> Outcome([next EXCEPT !.pc = "read"], body.store)
                     [] r.todo = {} /\ rec  -> Reconciled(next, body.store)
                     [] r.todo = {} /\ ~rec -> Pruned(next, body.store))
  /\ UNCHANGED <<onChain, inflight, file, loaded, history, spent>>

Writers == {u \in Task : task[u].pc = "write"}

\* save() after mkdir: the store is serialised and the file opened.
serialize(t) ==
  /\ task[t].pc = "save"
  /\ task' = [u \in Task |->
       IF u = t THEN [task[t] EXCEPT !.pc = "write", !.raw = data, !.overlap = Writers # {}]
       ELSE IF u \in Writers THEN [task[u] EXCEPT !.overlap = TRUE] ELSE task[u]]
  /\ UNCHANGED <<onChain, inflight, data, file, loaded, history, calm, spent>>

\* The request goes on when its save is over, whether or not it failed.
Saved(r, d) ==
  LET written == [r EXCEPT !.raw = EmptyStore, !.overlap = FALSE]
  IN  IF r.stage = "reconcile" THEN getHoldersWithBalances(written, d, "recheck")
      ELSE Outcome([written EXCEPT !.pc = "done"], d)

\* writeFile completes: two that overlap leave either text or a mixture that
\* does not parse. A failure before the file is opened leaves the old text, a
\* later one an unfinished text, and none is reported.
writeFile(t) ==
  /\ task[t].pc = "write"
  /\ \/ file' \in {task[t].raw} \cup (IF task[t].overlap THEN {EmptyStore} ELSE {})
     \/ file' \in {file, EmptyStore}
  /\ Settle(t, Saved(task[t], data))
  /\ UNCHANGED <<onChain, inflight, loaded, recorded, reloaded, spent>>

\* The response is sent.
Respond(t) ==
  /\ task[t].pc = "done"
  /\ Resume(t, Idle)
  /\ UNCHANGED <<onChain, inflight, data, file, loaded, history, spent>>
-----------------------------------------------------------------------------
\* The chain: b receives tokens, and a, if there is a sender, keeps some or none.
Move(a, b) ==
  /\ a # NoOne => a \in onChain
  /\ \E rest \in {onChain, onChain \ {a}} : onChain' = rest \cup {b}
  /\ calm' = (calm /\ ~Busy(task))
  /\ Spend("moves", MaxMoves)

\* A ledger applies a submitted transaction; one whose 30 seconds run out
\* just stays unapplied.
Apply(tx) ==
  /\ inflight' = inflight \ {tx}
  /\ Move(tx.from, tx.to)
  /\ UNCHANGED <<data, file, loaded, task, history>>

\* A wallet calls the contract without the API.
DirectCall(a, b) ==
  /\ Move(a, b)
  /\ UNCHANGED <<inflight, data, file, loaded, task, history>>

\* The process stops and a new one starts; a file that was being rewritten is
\* left old, new or unfinished.
Restart ==
  /\ file' \in {file} \cup UNION {{task[u].raw, EmptyStore} : u \in Writers}
  /\ data' = EmptyStore /\ loaded' = FALSE
  /\ task' = [t \in Task |-> Idle]
  /\ recorded' = {} /\ reloaded' = FALSE /\ calm' = TRUE
  /\ Spend("restarts", MaxRestarts)
  /\ UNCHANGED <<onChain, inflight>>

RequestStep(t) ==
  \/ ensureLoaded(t) \/ readFile(t) \/ load(t)
  \/ getOnChainBalance(t) \/ Answer(t)
  \/ serialize(t) \/ writeFile(t) \/ Respond(t)

HolderNext ==
  \/ \E t \in Task : RequestStep(t)
  \/ \E t \in Task, a \in Address : subscribe(t, a)
  \/ \E t \in Task, a, b \in Address : transfer(t, a, b)
  \/ \E t \in Task : getHolders(t) \/ reconcile(t) \/ reindexHolders(t) \/ distributeCoupon(t)
  \/ \E tx \in inflight : Apply(tx)
  \/ \E a \in Address \cup {NoOne}, b \in Address : DirectCall(a, b)
  \/ Restart

HolderSpec == HolderInit /\ [][HolderNext]_holderVars
-----------------------------------------------------------------------------
(***************************************************************************)
(* recordSubscribe and recordTransfer: what a process has recorded is      *)
(* still known to it, and so a candidate of every later reconciliation,    *)
(* whatever other requests pruned, reconciled or saved meanwhile. Only a   *)
(* second load (two requests that both found the store not loaded) can     *)
(* forget it.                                                              *)
(***************************************************************************)
RecordedIsRemembered == reloaded \/ recorded \subseteq data.known

(***************************************************************************)
(* getHoldersForCoupon: unless a balance changed or a read failed since    *)
(* the first of the requests that ran with it began, a coupon pays only    *)
(* addresses with a balance, and all of those it had to look at: every     *)
(* known address if the index was stale, the indexed ones if not.          *)
(***************************************************************************)
CouponPaysItsHolders ==
  \A t \in Task :
    LET r == task[t]
    IN  r.op = "distributeCoupon" /\ r.pc = "done" /\ ~r.refused /\ calm /\ ~reloaded =>
          r.base \cap onChain \subseteq r.list /\ r.list \subseteq onChain
=============================================================================
