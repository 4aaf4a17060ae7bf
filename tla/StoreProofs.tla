---------------------------- MODULE StoreProofs ----------------------------
(***************************************************************************)
(* Proofs about two stores that several requests or replicas write to.     *)
(* HolderIndex, for any addresses and any number of requests, restarts and *)
(* changes of balance: what a process has recorded it still knows, and a   *)
(* coupon pays the holders it had to look at.  OracleIncidents, for any    *)
(* replicas, subjects and deadlines: an escalation is earned.              *)
(***************************************************************************)
EXTENDS HolderIndex, OracleIncidents, TLAPS

Store == [holders : SUBSET Address, known : SUBSET Address, touched : BOOLEAN]

Early == {"idle", "enter", "load", "loaded"}

Asking ==
  [op : {"none", "subscribe", "transfer", "getHolders", "reconcileBond", "distributeCoupon"},
   pc : Early \cup {"read", "answer", "save", "write", "done"},
   stage : {"none", "reconcile", "recheck", "scan"}, from : Address \cup {NoOne},
   to : Address \cup {NoOne}, todo : SUBSET Address, seen : Address \cup {NoOne},
   balance : {"zero", "some", "error"}, changed : BOOLEAN, list : SUBSET Address,
   late : BOOLEAN, refused : BOOLEAN, raw : Store, overlap : BOOLEAN, base : SUBSET Address]

HolderTypes ==
  /\ onChain \subseteq Address /\ data \in Store /\ file \in Store
  /\ inflight \subseteq [from : Address \cup {NoOne}, to : Address]
  /\ loaded \in BOOLEAN /\ reloaded \in BOOLEAN /\ calm \in BOOLEAN

\* Where a request can be: its loops come after the store is loaded, and are
\* over when it saves or is answered.
RequestOK(r) ==
  /\ r \in Asking
  /\ r.op = "none" => r.pc = "idle"
  /\ r.op \in {"subscribe", "transfer"} => r.to \in Address
  /\ r.op = "subscribe" => r.from = NoOne
  /\ r.op = "transfer" => r.from \in Address
  /\ r.pc \in Early => r.stage = "none"
  /\ r.pc \notin {"read", "answer"} => r.todo = {}
  /\ r.pc # "answer" => r.seen = NoOne
  /\ r.pc = "answer" => r.seen \in Address
  /\ r.op = "distributeCoupon" /\ r.pc \notin Early /\ ~r.refused => r.stage # "none"
  /\ r.pc = "done" => r.stage # "reconcile"

\* A coupon that is answered has been through its last loop.
FinalOK(r) == r.op = "distributeCoupon" /\ r.pc = "done" /\ ~r.refused => r.stage = "scan"

\* The balance that was read is still the one on chain.
AnswerOK(r) == r.pc = "answer" => r.balance = IF r.seen \in onChain THEN "some" ELSE "zero"

Left(r) == r.todo \cup {r.seen}

(***************************************************************************)
(* Where the holders are that a coupon will have to pay: first in the      *)
(* index or still to be read, then in the index, at last in its list or    *)
(* still to be read.                                                       *)
(***************************************************************************)
PayOK(r, d) ==
  r.op = "distributeCoupon" =>
    /\ r.stage = "reconcile" => r.base \cap onChain \subseteq d.holders \cup Left(r)
    /\ r.stage = "recheck" => r.base \cap onChain \subseteq d.holders
    /\ r.stage = "scan" => /\ r.base \cap onChain \subseteq r.list \cup Left(r)
                           /\ r.list \subseteq onChain

HolderInv ==
  /\ HolderTypes
  /\ task = [t \in Task |-> task[t]] /\ \A t \in Task : RequestOK(task[t]) /\ FinalOK(task[t])
  /\ ~loaded => recorded = {} /\ \A t \in Task : task[t].pc \in Early
  /\ RecordedIsRemembered
  /\ calm => \A t \in Task : AnswerOK(task[t])
  /\ calm /\ ~reloaded => \A t \in Task : PayOK(task[t], data)
-----------------------------------------------------------------------------
(* What the operations do with a store and a request *)

\* The request goes on, and nothing that was known is forgotten.
Sound(r, d, out) ==
  /\ RequestOK(out.request) /\ out.request.op = r.op /\ out.request.pc \in {"read", "save", "done"}
  /\ out.store \in Store /\ d.known \subseteq out.store.known

LEMMA EmptyStoreOK == EmptyStore \in Store
<1> QED
  BY DEF EmptyStore, Store

LEMMA IdleOK == RequestOK(Idle) /\ Idle.op = "none" /\ Idle.pc = "idle"
<1>1. Idle \in Asking
  BY EmptyStoreOK DEF Idle, Asking, Early
<1> QED
  BY <1>1 DEF RequestOK, Idle, Early

\* A loop over the holders of the store begins, or there are none to read.
LEMMA ListingOK ==
  ASSUME NEW r \in Asking, r.op # "none", r.op \in {"subscribe", "transfer"} => r.to \in Address,
         r.op = "subscribe" => r.from = NoOne, r.op = "transfer" => r.from \in Address,
         r.seen = NoOne, NEW d \in Store,
         NEW stage \in {"recheck", "scan"}
  PROVE  LET out == getHoldersWithBalances(r, d, stage)
         IN  /\ out.store = d /\ RequestOK(out.request) /\ out.request.op = r.op
             /\ out.request.stage = stage /\ out.request.pc \in {"read", "done"}
             /\ r.base \cap onChain \subseteq d.holders => PayOK(out.request, d)
<1> DEFINE begun == [r EXCEPT !.stage = stage, !.todo = d.holders, !.list = {}, !.changed = FALSE]
           out == getHoldersWithBalances(r, d, stage)
           last == [begun EXCEPT !.pc = "done"]
           first == [begun EXCEPT !.pc = "read"]
<1>1. d.holders \subseteq Address
  BY DEF Store
<1>2. /\ begun \in Asking /\ begun.op = r.op /\ begun.to = r.to /\ begun.from = r.from
      /\ begun.seen = NoOne /\ begun.stage = stage /\ begun.todo = d.holders /\ begun.list = {}
      /\ begun.changed = FALSE /\ begun.base = r.base
  BY <1>1 DEF Asking
<1> HIDE DEF begun
<1>3. ASSUME NEW q \in {first, last}, (q = last => d.holders = {})
      PROVE  /\ RequestOK(q) /\ q.op = r.op /\ q.stage = stage /\ q.pc \in {"read", "done"}
             /\ r.base \cap onChain \subseteq d.holders => PayOK(q, d)
  <2>1. /\ q \in Asking /\ q.op = r.op /\ q.to = r.to /\ q.from = r.from /\ q.seen = NoOne
        /\ q.stage = stage /\ q.todo = d.holders /\ q.list = {} /\ q.base = r.base
        /\ q.pc = "read" \/ (q.pc = "done" /\ d.holders = {})
    <3>1. CASE q = first
      BY <1>2, <3>1 DEF Asking, Early
    <3>2. CASE q = last
      BY <1>2, <1>3, <3>2 DEF Asking, Early
    <3> QED
      BY <3>1, <3>2
  <2> HIDE DEF first, last
  <2>2. RequestOK(q)
    BY <2>1 DEF RequestOK, Early
  <2>3. ASSUME r.base \cap onChain \subseteq d.holders PROVE PayOK(q, d)
    BY <2>1, <2>3 DEF PayOK, Left
  <2> QED
    BY <2>1, <2>2, <2>3
<1>4. CASE d.holders = {}
  <2>1. out = [request |-> last, store |-> d]
    BY <1>2, <1>4 DEF getHoldersWithBalances, Pruned, Outcome, begun
  <2>2. out.request = last /\ out.store = d
    BY <2>1
  <2> HIDE DEF out, first, last
  <2>3. /\ RequestOK(last) /\ last.op = r.op /\ last.stage = stage /\ last.pc \in {"read", "done"}
        /\ r.base \cap onChain \subseteq d.holders => PayOK(last, d)
    BY <1>3, <1>4
  <2> QED
    BY <2>2, <2>3 DEF out
<1>5. CASE d.holders # {}
  <2>1. out = [request |-> first, store |-> d]
    BY <1>5 DEF getHoldersWithBalances, Outcome, begun
  <2>2. first.pc = "read" /\ last.pc = "done"
    BY <1>2 DEF Asking
  <2>0. out.request = first /\ out.store = d
    BY <2>1
  <2> HIDE DEF out, first, last
  <2>3. out.request = first /\ out.store = d /\ first # last
    BY <2>0, <2>2
  <2>4. /\ RequestOK(first) /\ first.op = r.op /\ first.stage = stage /\ first.pc \in {"read", "done"}
        /\ r.base \cap onChain \subseteq d.holders => PayOK(first, d)
    BY <1>3, <2>3
  <2> QED
    BY <2>3, <2>4 DEF out
<1> QED
  BY <1>4, <1>5

\* The last loop of a coupon begins, or the coupon is refused.
LEMMA SeededOK ==
  ASSUME NEW r \in Asking, r.op = "distributeCoupon", r.seen = NoOne, r.todo = {},
         r.stage \in {"none", "recheck"}, NEW d \in Store
  PROVE  LET out == SeededHolders(r, d)
         IN  /\ Sound(r, d, out) /\ out.store = d /\ FinalOK(out.request)
             /\ r.base \cap onChain \subseteq d.holders => PayOK(out.request, d)
<1> DEFINE out == SeededHolders(r, d)
           scan == getHoldersWithBalances(r, d, "scan")
           no == [r EXCEPT !.pc = "done", !.refused = TRUE]
<1>1. CASE d.known = {} /\ d.holders = {}
  <2>1. out.request = no /\ out.store = d
    BY <1>1 DEF SeededHolders, Outcome
  <2>2. /\ no \in Asking /\ no.op = r.op /\ no.seen = NoOne /\ no.todo = {} /\ no.stage = r.stage
        /\ no.base = r.base /\ no.refused = TRUE /\ no.pc = "done"
    BY DEF Asking, Early
  <2> HIDE DEF no, out
  <2>3. RequestOK(no) /\ FinalOK(no)
    BY <2>2 DEF RequestOK, FinalOK, Early
  <2>4. r.base \cap onChain \subseteq d.holders => PayOK(no, d)
    BY <2>2 DEF PayOK
  <2> QED
    BY <2>1, <2>2, <2>3, <2>4 DEF Sound, out
<1>2. CASE ~(d.known = {} /\ d.holders = {})
  <2>1. out = scan
    BY <1>2 DEF SeededHolders
  <2>2. /\ scan.store = d /\ RequestOK(scan.request) /\ scan.request.op = r.op
        /\ scan.request.stage = "scan" /\ scan.request.pc \in {"read", "done"}
        /\ r.base \cap onChain \subseteq d.holders => PayOK(scan.request, d)
    BY ListingOK
  <2> HIDE DEF scan, out
  <2> QED
    BY <2>1, <2>2 DEF Sound, FinalOK, out
<1> QED
  BY <1>1, <1>2

\* A reconciliation begins: every address known or indexed has yet to be read.
LEMMA ReconcileOK ==
  ASSUME NEW r \in Asking, r.op \in {"reconcileBond", "distributeCoupon"}, r.seen = NoOne,
         r.todo = {}, NEW d \in Store
  PROVE  LET out == reconcileBond(r, d)
         IN  /\ Sound(r, d, out) /\ out.store.holders = d.holders /\ FinalOK(out.request)
             /\ PayOK(out.request, out.store)
<1> DEFINE out == reconcileBond(r, d)
           begun == [r EXCEPT !.stage = "reconcile", !.todo = candidates(d),
                              !.base = d.holders \cup d.known]
           saves == [begun EXCEPT !.pc = "save"]
           reads == [begun EXCEPT !.pc = "read"]
<1>1. /\ d.holders \subseteq Address /\ d.known \subseteq Address
      /\ candidates(d) = d.holders \cup d.known /\ candidates(d) \subseteq Address
  BY DEF Store, candidates
<1>2. /\ begun \in Asking /\ begun.op = r.op /\ begun.seen = NoOne /\ begun.stage = "reconcile"
      /\ begun.todo = candidates(d) /\ begun.base = candidates(d)
  BY <1>1 DEF Asking
<1>3. /\ touch(d) \in Store /\ touch(d).known = d.known /\ touch(d).holders = d.holders
  BY DEF touch, Store
<1>4. /\ candidates(d) = {} => out.request = saves /\ out.store = touch(d)
      /\ candidates(d) # {} => out.request = reads /\ out.store = d
  BY DEF reconcileBond, Reconciled, Outcome
<1> HIDE DEF begun, out
<1>5. /\ saves \in Asking /\ saves.op = r.op /\ saves.seen = NoOne /\ saves.stage = "reconcile"
      /\ saves.todo = candidates(d) /\ saves.base = candidates(d) /\ saves.pc = "save"
      /\ reads \in Asking /\ reads.op = r.op /\ reads.seen = NoOne /\ reads.stage = "reconcile"
      /\ reads.todo = candidates(d) /\ reads.base = candidates(d) /\ reads.pc = "read"
  BY <1>2 DEF Asking, Early
<1> HIDE DEF saves, reads
<1>6. CASE candidates(d) = {}
  <2>1. RequestOK(saves) /\ FinalOK(saves) /\ PayOK(saves, touch(d))
    BY <1>5, <1>6 DEF RequestOK, FinalOK, PayOK, Early, Left
  <2> QED
    BY <1>3, <1>4, <1>5, <1>6, <2>1 DEF Sound, out
<1>7. CASE candidates(d) # {}
  <2>1. RequestOK(reads) /\ FinalOK(reads) /\ PayOK(reads, d)
    BY <1>5, <1>7 DEF RequestOK, FinalOK, PayOK, Early, Left
  <2> QED
    BY <1>4, <1>5, <1>7, <2>1 DEF Sound, out
<1> QED
  BY <1>6, <1>7

\* recordSubscribe and recordTransfer.
LEMMA RecordOK ==
  ASSUME NEW r, RequestOK(r), r.pc \in Early, NEW d \in Store, r.op \in {"subscribe", "transfer"},
         NEW out \in {recordSubscribe(r, d), recordTransfer(r, d)},
         r.op = "subscribe" => out = recordSubscribe(r, d),
         r.op = "transfer" => out = recordTransfer(r, d)
  PROVE  /\ Sound(r, d, out) /\ d.holders \subseteq out.store.holders
         /\ RecordedBy(r) \subseteq out.store.known
<1> DEFINE saves == [r EXCEPT !.pc = "save"]
           e == out.store
<1>1. r \in Asking /\ r.to \in Address /\ r.seen = NoOne /\ r.todo = {} /\ r.stage = "none"
      /\ (r.op = "subscribe" => r.from = NoOne) /\ (r.op = "transfer" => r.from \in Address)
  BY DEF RequestOK, Early
<1>2. /\ saves \in Asking /\ saves.op = r.op /\ saves.to = r.to /\ saves.from = r.from
      /\ saves.seen = NoOne /\ saves.todo = {} /\ saves.stage = "none" /\ saves.pc = "save"
  BY <1>1 DEF Asking, Early
<1>3. out.request = saves
  BY DEF recordSubscribe, recordTransfer, Outcome
<1>4. e = touch(addKnownAddresses(addHolder(d, r.to), RecordedBy(r)))
  <2>1. CASE r.op = "subscribe"
    <3>1. RecordedBy(r) = {r.to}
      BY <1>1, <2>1 DEF RecordedBy
    <3> QED
      BY <2>1, <3>1 DEF recordSubscribe, Outcome
  <2>2. CASE r.op = "transfer"
    <3>1. RecordedBy(r) = {r.from, r.to}
      BY <1>1, <2>2, HolderAssumption DEF RecordedBy
    <3> QED
      BY <2>2, <3>1 DEF recordTransfer, Outcome
  <2> QED
    BY <2>1, <2>2
<1>5. RecordedBy(r) \subseteq Address
  BY <1>1, HolderAssumption DEF RecordedBy, Asking
<1>6. e \in Store /\ e.known = d.known \cup RecordedBy(r) /\ e.holders = d.holders \cup {r.to}
  <2> DEFINE a == addHolder(d, r.to)
             b == addKnownAddresses(a, RecordedBy(r))
  <2>1. a \in Store /\ a.known = d.known /\ a.holders = d.holders \cup {r.to}
    BY <1>1 DEF addHolder, Store
  <2> HIDE DEF a
  <2>2. b \in Store /\ b.known = a.known \cup RecordedBy(r) /\ b.holders = a.holders
    BY <1>5, <2>1 DEF addKnownAddresses, Store
  <2> HIDE DEF b
  <2>3. touch(b) \in Store /\ touch(b).known = b.known /\ touch(b).holders = b.holders
    BY <2>2 DEF touch, Store
  <2>4. e = touch(b)
    BY <1>4 DEF a, b
  <2> HIDE DEF e
  <2> QED
    BY <2>1, <2>2, <2>3, <2>4
<1> HIDE DEF saves, e
<1>7. RequestOK(saves)
  BY <1>1, <1>2 DEF RequestOK, Early
<1> QED
  BY <1>2, <1>3, <1>6, <1>7 DEF Sound, e

\* From the end of ensureLoaded to the next await.
LEMMA ProceedOK ==
  ASSUME NEW r, RequestOK(r), r.pc \in Early, r.op # "none", NEW d \in Store
  PROVE  LET out == Proceed(r, d)
         IN  /\ Sound(r, d, out) /\ d.holders \subseteq out.store.holders
             /\ RecordedBy(r) \subseteq out.store.known /\ PayOK(out.request, out.store)
<1> DEFINE out == Proceed(r, d)
<1>1. r \in Asking /\ r.seen = NoOne /\ r.todo = {} /\ r.stage = "none"
  BY DEF RequestOK, Early
<1>2. CASE r.op \in {"subscribe", "transfer"}
  <2>1. /\ r.op = "subscribe" => out = recordSubscribe(r, d)
        /\ r.op = "transfer" => out = recordTransfer(r, d)
    BY DEF Proceed
  <2> HIDE DEF out
  <2>2. /\ Sound(r, d, out) /\ d.holders \subseteq out.store.holders
        /\ RecordedBy(r) \subseteq out.store.known
    BY <1>2, <2>1, RecordOK
  <2>3. PayOK(out.request, out.store)
    BY <1>2, <2>2 DEF Sound, PayOK
  <2> QED
    BY <2>2, <2>3 DEF out
<1>3. CASE r.op \notin {"subscribe", "transfer"}
  <2>0. RecordedBy(r) = {}
    BY <1>3 DEF RecordedBy
  <2>1. CASE r.op = "getHolders"
    <3> DEFINE scan == getHoldersWithBalances(r, d, "scan")
    <3>1. out = scan
      BY <2>1 DEF Proceed
    <3>2. /\ scan.store = d /\ RequestOK(scan.request) /\ scan.request.op = r.op
          /\ scan.request.pc \in {"read", "done"}
      BY <1>1, <2>1, ListingOK
    <3> HIDE DEF scan, out
    <3>3. PayOK(out.request, out.store)
      BY <2>1, <3>1, <3>2 DEF PayOK
    <3> QED
      BY <2>0, <3>1, <3>2, <3>3 DEF Sound, out
  <2>2. CASE out = reconcileBond(r, d) /\ r.op \in {"reconcileBond", "distributeCoupon"}
    <3> HIDE DEF out
    <3>1. /\ Sound(r, d, out) /\ out.store.holders = d.holders /\ PayOK(out.request, out.store)
      BY <1>1, <2>2, ReconcileOK
    <3> QED
      BY <2>0, <3>1 DEF out
  <2>3. CASE r.op = "distributeCoupon" /\ ~(~d.touched \/ r.late)
    <3> DEFINE q == [r EXCEPT !.base = d.holders]
    <3>1. q \in Asking /\ q.op = r.op /\ q.seen = NoOne /\ q.todo = {} /\ q.stage = "none"
          /\ q.base = d.holders
      BY <1>1 DEF Asking, Store
    <3>2. out = SeededHolders(q, d)
      BY <2>3 DEF Proceed, getHoldersForCoupon
    <3> HIDE DEF q, out
    <3>3. Sound(q, d, out) /\ out.store = d /\ (q.base \cap onChain \subseteq d.holders => PayOK(out.request, d))
      BY <2>3, <3>1, <3>2, SeededOK
    <3>4. q.base \cap onChain \subseteq d.holders
      BY <3>1
    <3> QED
      BY <2>0, <3>1, <3>3, <3>4 DEF Sound, out
  <2>4. CASE r.op = "reconcileBond"
    BY <2>2, <2>4 DEF Proceed
  <2>5. CASE r.op = "distributeCoupon" /\ (~d.touched \/ r.late)
    BY <2>2, <2>5 DEF Proceed, getHoldersForCoupon
  <2> QED
    BY <1>1, <1>3, <2>1, <2>3, <2>4, <2>5 DEF Asking
<1> QED
  BY <1>2, <1>3

\* A coupon whose reconciliation is over lists the holders once more.
LEMMA ContinueOK ==
  ASSUME NEW r, RequestOK(r), r.op # "none", r.pc \in {"read", "save", "done"}, NEW d \in Store
  PROVE  LET out == Continue(r, d)
         IN  /\ Sound(r, d, out) /\ out.store = d /\ FinalOK(out.request)
             /\ PayOK(r, d) => PayOK(out.request, d)
<1> DEFINE out == Continue(r, d)
<1>1. CASE r.pc = "done" /\ r.stage = "recheck" /\ r.op = "distributeCoupon"
  <2>1. out = SeededHolders(r, d)
    BY <1>1 DEF Continue
  <2>2. r \in Asking /\ r.seen = NoOne /\ r.todo = {}
    BY <1>1 DEF RequestOK
  <2> HIDE DEF out
  <2>3. /\ Sound(r, d, out) /\ out.store = d /\ FinalOK(out.request)
        /\ r.base \cap onChain \subseteq d.holders => PayOK(out.request, d)
    BY <1>1, <2>1, <2>2, SeededOK
  <2>4. PayOK(r, d) => r.base \cap onChain \subseteq d.holders
    BY <1>1 DEF PayOK
  <2> QED
    BY <2>3, <2>4 DEF out
<1>2. CASE ~(r.pc = "done" /\ r.stage = "recheck" /\ r.op = "distributeCoupon")
  <2>1. out.request = r /\ out.store = d
    BY <1>2 DEF Continue, Outcome
  <2>2. FinalOK(r)
    BY <1>2 DEF FinalOK, RequestOK, Asking, Early
  <2> HIDE DEF out
  <2> QED
    BY <2>1, <2>2 DEF Sound, out
<1> QED
  BY <1>1, <1>2

\* What Answer makes of one answer, before it settles.
Body(r, d) == IF r.stage = "reconcile" THEN Indexed(r, d) ELSE Listed(r, d)

Next(r, d) == [Body(r, d).request EXCEPT !.seen = NoOne, !.balance = "zero"]

Answered(r, d) ==
  CASE r.todo # {} -> Outcome([Next(r, d) EXCEPT !.pc = "read"], Body(r, d).store)
    [] r.todo = {} /\ r.stage = "reconcile" -> Reconciled(Next(r, d), Body(r, d).store)
    [] r.todo = {} /\ r.stage # "reconcile" -> Pruned(Next(r, d), Body(r, d).store)

\* The body of either loop: a balance that was read correctly costs nobody on
\* chain his place in the index, and finds him a place in it or in the list.
LEMMA BodyOK ==
  ASSUME NEW r, RequestOK(r), r.pc = "answer", NEW d \in Store
  PROVE  LET b == Body(r, d)
             q == Next(r, d)
         IN  /\ b.store \in Store /\ b.store.known = d.known
             /\ q \in Asking /\ q.op = r.op /\ q.to = r.to /\ q.from = r.from /\ q.stage = r.stage
             /\ q.todo = r.todo /\ q.seen = NoOne /\ q.base = r.base /\ q.refused = r.refused
             /\ AnswerOK(r) => /\ d.holders \cap onChain \subseteq b.store.holders
                               /\ PayOK(r, d) => PayOK(q, b.store)
<1> DEFINE b == Body(r, d)
           q == Next(r, d)
           d1 == addHolder(d, r.seen)
           d2 == removeHolder(d, r.seen)
           r1 == [r EXCEPT !.changed = TRUE]
           r2 == [r EXCEPT !.list = @ \cup {r.seen}]
<1>1. r \in Asking /\ r.seen \in Address /\ r.balance \in {"zero", "some", "error"} /\ r.list \subseteq Address
  BY DEF RequestOK, Asking
<1>2. /\ d1 \in Store /\ d1.known = d.known /\ d1.holders = d.holders \cup {r.seen}
      /\ d2 \in Store /\ d2.known = d.known /\ d2.holders = d.holders \ {r.seen}
  BY <1>1 DEF addHolder, removeHolder, Store
<1>3. /\ r1 \in Asking /\ r1.op = r.op /\ r1.to = r.to /\ r1.from = r.from /\ r1.stage = r.stage
      /\ r1.todo = r.todo /\ r1.base = r.base /\ r1.refused = r.refused /\ r1.list = r.list
  BY <1>1 DEF Asking
<1>4. /\ r2 \in Asking /\ r2.op = r.op /\ r2.to = r.to /\ r2.from = r.from /\ r2.stage = r.stage
      /\ r2.todo = r.todo /\ r2.base = r.base /\ r2.refused = r.refused
      /\ r2.list = r.list \cup {r.seen}
  BY <1>1 DEF Asking
<1>5. CASE r.stage = "reconcile"
  <2>1. /\ r.balance = "some" => b.request = r /\ b.store = d1
        /\ r.balance = "zero" => b.request = r /\ b.store = d2
        /\ r.balance = "error" => b.request = r /\ b.store = d
    BY <1>5 DEF Body, Indexed, Outcome
  <2> HIDE DEF b, d1, d2
  <2>2. b.request = r /\ b.store \in Store /\ b.store.known = d.known
    BY <1>1, <1>2, <2>1
  <2>3. q = [r EXCEPT !.seen = NoOne, !.balance = "zero"]
    BY <2>2 DEF Next, b
  <2>4. /\ q \in Asking /\ q.op = r.op /\ q.to = r.to /\ q.from = r.from /\ q.stage = r.stage
        /\ q.todo = r.todo /\ q.seen = NoOne /\ q.base = r.base /\ q.refused = r.refused
    BY <1>1, <2>3 DEF Asking
  <2> HIDE DEF q
  <2>5. ASSUME AnswerOK(r)
        PROVE  d.holders \cap onChain \subseteq b.store.holders /\ (PayOK(r, d) => PayOK(q, b.store))
    <3>1. /\ d.holders \cap onChain \subseteq b.store.holders
          /\ r.seen \in onChain => r.seen \in b.store.holders
      BY <1>2, <2>1, <2>5 DEF AnswerOK
    <3>2. PayOK(r, d) => PayOK(q, b.store)
      BY <1>5, <2>4, <3>1 DEF PayOK, Left
    <3> QED
      BY <3>1, <3>2
  <2> QED
    BY <2>2, <2>4, <2>5 DEF b, q
<1>6. CASE r.stage # "reconcile"
  <2>1. /\ r.balance = "zero" => b.request = r1 /\ b.store = d2
        /\ r.balance # "zero" => b.request = r2 /\ b.store = d
    BY <1>6 DEF Body, Listed, Outcome
  <2> HIDE DEF b, d1, d2, r1, r2
  <2>2. /\ b.request \in Asking /\ b.request.op = r.op /\ b.request.to = r.to
        /\ b.request.from = r.from /\ b.request.stage = r.stage /\ b.request.todo = r.todo
        /\ b.request.base = r.base /\ b.request.refused = r.refused
        /\ b.store \in Store /\ b.store.known = d.known
        /\ b.request.list = IF r.balance = "zero" THEN r.list ELSE r.list \cup {r.seen}
    BY <1>2, <1>3, <1>4, <2>1
  <2>3. /\ q \in Asking /\ q.op = r.op /\ q.to = r.to /\ q.from = r.from /\ q.stage = r.stage
        /\ q.todo = r.todo /\ q.seen = NoOne /\ q.base = r.base /\ q.refused = r.refused
        /\ q.list = b.request.list
    <3>1. q = [b.request EXCEPT !.seen = NoOne, !.balance = "zero"]
      BY DEF Next, b
    <3> HIDE DEF q
    <3> QED
      BY <2>2, <3>1 DEF Asking
  <2> HIDE DEF q
  <2>4. ASSUME AnswerOK(r)
        PROVE  d.holders \cap onChain \subseteq b.store.holders /\ (PayOK(r, d) => PayOK(q, b.store))
    <3>1. d.holders \cap onChain \subseteq b.store.holders
      BY <1>2, <2>1, <2>4 DEF AnswerOK
    <3>2. q.list = r.list \cup ({r.seen} \cap onChain)
      BY <2>2, <2>3, <2>4 DEF AnswerOK
    <3>3. PayOK(r, d) => PayOK(q, b.store)
      BY <1>6, <2>3, <3>1, <3>2 DEF PayOK, Left
    <3> QED
      BY <3>1, <3>3
  <2> QED
    BY <2>2, <2>3, <2>4 DEF b, q
<1> QED
  BY <1>5, <1>6

\* After the body the loop goes on, or it is left.
LEMMA AnsweredOK ==
  ASSUME NEW r, RequestOK(r), r.pc = "answer", r.op # "none", NEW d \in Store
  PROVE  LET out == Answered(r, d)
         IN  /\ Sound(r, d, out)
             /\ AnswerOK(r) => /\ d.holders \cap onChain \subseteq out.store.holders
                               /\ PayOK(r, d) => PayOK(out.request, out.store)
<1> DEFINE b == Body(r, d)
           q == Next(r, d)
           out == Answered(r, d)
<1>1. /\ b.store \in Store /\ b.store.known = d.known
      /\ q \in Asking /\ q.op = r.op /\ q.to = r.to /\ q.from = r.from /\ q.stage = r.stage
      /\ q.todo = r.todo /\ q.seen = NoOne /\ q.base = r.base /\ q.refused = r.refused
      /\ AnswerOK(r) => /\ d.holders \cap onChain \subseteq b.store.holders
                        /\ PayOK(r, d) => PayOK(q, b.store)
  BY BodyOK
<1>2. touch(b.store) \in Store /\ touch(b.store).known = b.store.known
      /\ touch(b.store).holders = b.store.holders
  BY <1>1 DEF touch, Store
<1>3. PICK pc \in {"read", "save", "done"} :
        /\ out.request = [q EXCEPT !.pc = pc] /\ out.store \in {b.store, touch(b.store)}
        /\ pc # "read" => r.todo = {}
        /\ pc = "done" => r.stage # "reconcile"
  <2>1. CASE r.todo # {}
    BY <2>1 DEF Answered, Outcome
  <2>2. CASE r.todo = {} /\ r.stage = "reconcile"
    BY <2>2 DEF Answered, Reconciled, Outcome
  <2>3. CASE r.todo = {} /\ r.stage # "reconcile"
    BY <2>3 DEF Answered, Pruned, Outcome
  <2> QED
    BY <2>1, <2>2, <2>3
<1> DEFINE p == [q EXCEPT !.pc = pc]
<1> HIDE DEF b, q, out
<1>4. /\ p \in Asking /\ p.op = r.op /\ p.to = r.to /\ p.from = r.from /\ p.stage = r.stage
      /\ p.todo = r.todo /\ p.seen = NoOne /\ p.base = r.base /\ p.refused = r.refused
      /\ p.pc = pc /\ p.list = q.list
  BY <1>1 DEF Asking
<1>5. out.request = p
  BY <1>3
<1> HIDE DEF p
<1>6. RequestOK(p)
  BY <1>1, <1>3, <1>4 DEF RequestOK, Early
<1>7. Sound(r, d, out)
  BY <1>1, <1>2, <1>3, <1>4, <1>5, <1>6 DEF Sound
<1>8. PayOK(q, b.store) => PayOK(p, out.store)
  BY <1>1, <1>2, <1>3, <1>4 DEF PayOK, Left
<1> QED
  BY <1>1, <1>2, <1>3, <1>5, <1>7, <1>8 DEF out

\* A save is over.
LEMMA SavedOK ==
  ASSUME NEW r, RequestOK(r), r.pc = "write", r.op # "none", NEW d \in Store
  PROVE  LET out == Saved(r, d)
         IN  Sound(r, d, out) /\ out.store = d /\ (PayOK(r, d) => PayOK(out.request, d))
<1> DEFINE written == [r EXCEPT !.raw = EmptyStore, !.overlap = FALSE]
           done == [written EXCEPT !.pc = "done"]
           out == Saved(r, d)
<1>1. r \in Asking /\ r.todo = {} /\ r.seen = NoOne
  BY DEF RequestOK
<1>2. /\ written \in Asking /\ written.op = r.op /\ written.to = r.to /\ written.from = r.from
      /\ written.stage = r.stage /\ written.todo = {} /\ written.seen = NoOne
      /\ written.base = r.base /\ written.refused = r.refused /\ written.list = r.list
  BY <1>1, EmptyStoreOK DEF Asking
<1>3. CASE r.stage = "reconcile"
  <2>1. out = getHoldersWithBalances(written, d, "recheck")
    BY <1>3 DEF Saved
  <2> HIDE DEF written, out
  <2>2. /\ out.store = d /\ RequestOK(out.request) /\ out.request.op = r.op
        /\ out.request.pc \in {"read", "done"}
        /\ r.base \cap onChain \subseteq d.holders => PayOK(out.request, d)
    BY <1>2, <2>1, ListingOK DEF RequestOK
  <2>3. r.op = "distributeCoupon" /\ PayOK(r, d) => r.base \cap onChain \subseteq d.holders
    BY <1>1, <1>3, HolderAssumption DEF PayOK, Left, Asking
  <2>4. r.op # "distributeCoupon" => PayOK(out.request, d)
    BY <2>2 DEF PayOK
  <2> QED
    BY <2>2, <2>3, <2>4 DEF Sound, out
<1>4. CASE r.stage # "reconcile"
  <2>1. out.request = done /\ out.store = d
    BY <1>4 DEF Saved, Outcome
  <2> HIDE DEF written, out
  <2>2. /\ done \in Asking /\ done.op = r.op /\ done.to = r.to /\ done.from = r.from
        /\ done.stage = r.stage /\ done.todo = {} /\ done.seen = NoOne
        /\ done.base = r.base /\ done.refused = r.refused /\ done.list = r.list /\ done.pc = "done"
    BY <1>2 DEF Asking, Early
  <2> HIDE DEF done
  <2>3. RequestOK(done)
    BY <1>4, <2>2 DEF RequestOK, Early
  <2>4. PayOK(r, d) => PayOK(done, d)
    BY <1>1, <2>2 DEF PayOK, Left
  <2> QED
    BY <2>1, <2>2, <2>3, <2>4 DEF Sound, out
<1> QED
  BY <1>3, <1>4
-----------------------------------------------------------------------------
(* Steps *)

\* Between two spells of requests nothing is under way.
LEMMA NobodyBusy ==
  ASSUME NEW tasks, ~Busy(tasks), NEW t \in Task, RequestOK(tasks[t])
  PROVE  /\ tasks[t].op = "none" /\ tasks[t].pc = "idle"
<1> QED
  BY DEF Busy, RequestOK

\* One request goes on: what has to be shown of it and of the store.
LEMMA OneRequest ==
  ASSUME HolderInv, NEW t \in Task, NEW q, RequestOK(q), FinalOK(q), task' = [task EXCEPT ![t] = q],
         calm' \in BOOLEAN, calm' => calm \/ ~Busy(task'), UNCHANGED onChain,
         data' \in Store, file' \in Store,
         inflight' \subseteq [from : Address \cup {NoOne}, to : Address],
         loaded' \in BOOLEAN, loaded => loaded', reloaded' \in BOOLEAN, reloaded => reloaded',
         ~loaded' => recorded' = {} /\ q.pc \in Early, RecordedIsRemembered',
         calm /\ calm' => AnswerOK(q),
         calm /\ ~reloaded' =>
           PayOK(q, data') /\ (loaded => data.holders \cap onChain \subseteq data'.holders)
  PROVE  HolderInv'
<1>1. task' = [u \in Task |-> IF u = t THEN q ELSE task[u]]
  BY DEF HolderInv
<1>2. task'[t] = q /\ \A u \in Task : u # t => task'[u] = task[u]
  BY <1>1
<1>3. HolderTypes'
  BY DEF HolderInv, HolderTypes
<1>4. ASSUME NEW u \in Task PROVE RequestOK(task'[u]) /\ FinalOK(task'[u])
  <2>1. CASE u = t
    BY <1>2, <2>1
  <2>2. CASE u # t
    BY <1>2, <2>2 DEF HolderInv
  <2> QED
    BY <2>1, <2>2
<1>5. ~loaded' => \A u \in Task : task'[u].pc \in Early
  BY <1>2 DEF HolderInv
<1>6. ASSUME calm', NEW u \in Task PROVE AnswerOK(task[u])'
  <2>1. CASE calm
    <3>1. AnswerOK(task'[u])
      BY <1>2, <1>6, <2>1 DEF HolderInv
    <3> QED
      BY <3>1 DEF AnswerOK
  <2>2. CASE ~Busy(task')
    <3>1. task'[u].pc = "idle"
      BY <1>4, <2>2, NobodyBusy
    <3> QED
      BY <3>1 DEF AnswerOK
  <2> QED
    BY <1>6, <2>1, <2>2
<1>7. ASSUME calm', ~reloaded', NEW u \in Task PROVE PayOK(task[u], data)'
  <2>1. CASE ~Busy(task')
    <3>1. task'[u].op = "none"
      BY <1>4, <2>1, NobodyBusy
    <3> QED
      BY <3>1 DEF PayOK
  <2>2. CASE calm /\ u = t
    <3>1. task'[u] = q /\ PayOK(q, data')
      BY <1>2, <1>7, <2>2
    <3> QED
      BY <3>1 DEF PayOK, Left
  <2>3. CASE calm /\ u # t
    <3>1. task'[u] = task[u] /\ RequestOK(task[u]) /\ PayOK(task[u], data)
      BY <1>2, <1>7, <2>3 DEF HolderInv
    <3>2. CASE loaded
      <4>1. data.holders \cap onChain \subseteq data'.holders
        BY <1>7, <2>3, <3>2
      <4> QED
        BY <3>1, <4>1 DEF PayOK, Left
    <3>3. CASE ~loaded
      <4>1. task[u].stage = "none"
        BY <3>1, <3>3 DEF HolderInv, RequestOK
      <4> QED
        BY <3>1, <4>1 DEF PayOK
    <3> QED
      BY <3>2, <3>3
  <2> QED
    BY <1>7, <2>1, <2>2, <2>3
<1>8. task' = [u \in Task |-> task'[u]]
  BY <1>1
<1>9. \A u \in Task : RequestOK(task[u])' /\ FinalOK(task[u])'
  BY <1>4 DEF RequestOK, FinalOK
<1> QED
  BY <1>3, <1>5, <1>6, <1>7, <1>8, <1>9 DEF HolderInv

\* One request goes on and leaves the store and its history alone.
LEMMA OnlyRequest ==
  ASSUME HolderInv, NEW t \in Task, NEW q, RequestOK(q), FinalOK(q), task' = [task EXCEPT ![t] = q],
         calm' \in BOOLEAN, calm' => calm \/ ~Busy(task'),
         UNCHANGED <<onChain, data, file, loaded, history>>,
         inflight' \subseteq [from : Address \cup {NoOne}, to : Address],
         ~loaded => q.pc \in Early, calm /\ calm' => AnswerOK(q), calm /\ ~reloaded => PayOK(q, data)
  PROVE  HolderInv'
<1>1. /\ data' \in Store /\ file' \in Store /\ loaded' \in BOOLEAN /\ reloaded' \in BOOLEAN
      /\ ~loaded' => recorded' = {}
      /\ data' = data /\ reloaded' = reloaded /\ loaded' = loaded /\ UNCHANGED onChain
      /\ RecordedIsRemembered'
  BY DEF HolderInv, HolderTypes, history, RecordedIsRemembered
<1>2. data.holders \cap onChain \subseteq data'.holders
  BY <1>1
<1>3. calm /\ ~reloaded' =>
        PayOK(q, data') /\ (loaded => data.holders \cap onChain \subseteq data'.holders)
  BY <1>1, <1>2
<1>4. (loaded => loaded') /\ (reloaded => reloaded') /\ (~loaded' => recorded' = {} /\ q.pc \in Early)
  BY <1>1
<1> QED
  BY <1>1, <1>3, <1>4, OneRequest

\* One request settles with an outcome.
LEMMA SettleInv ==
  ASSUME HolderInv, NEW t \in Task, NEW out, RequestOK(out.request), out.request.op # "none",
         out.request.pc \in {"read", "save", "done"}, out.store \in Store, Settle(t, out),
         UNCHANGED <<onChain, inflight>>, file' \in Store, loaded' = TRUE, reloaded' \in BOOLEAN,
         reloaded => reloaded', reloaded' \/ recorded' \subseteq out.store.known,
         calm /\ ~reloaded' =>
           /\ PayOK(out.request, out.store)
           /\ loaded => data.holders \cap onChain \subseteq out.store.holders
  PROVE  HolderInv'
<1> DEFINE r == out.request
           final == Continue(r, out.store)
           q == final.request
<1>1. /\ Sound(r, out.store, final) /\ final.store = out.store /\ FinalOK(q)
      /\ PayOK(r, out.store) => PayOK(q, out.store)
  BY ContinueOK
<1>2. /\ task' = [task EXCEPT ![t] = q] /\ calm' = (calm \/ ~Busy(task')) /\ data' = final.store
  BY DEF Settle, Resume
<1>3. /\ RequestOK(q) /\ q.pc # "answer"
  BY <1>1 DEF Sound
<1>4. calm' \in BOOLEAN /\ inflight' \subseteq [from : Address \cup {NoOne}, to : Address] /\ loaded \in BOOLEAN
  BY <1>2 DEF HolderInv, HolderTypes, Busy
<1> HIDE DEF r, final, q
<1>5. RecordedIsRemembered' /\ AnswerOK(q)
  BY <1>1, <1>2, <1>3 DEF RecordedIsRemembered, AnswerOK
<1>6. calm /\ ~reloaded' =>
        PayOK(q, data') /\ (loaded => data.holders \cap onChain \subseteq data'.holders)
  BY <1>1, <1>2 DEF r
<1>7. data' \in Store
  BY <1>1, <1>2
<1> QED
  BY <1>1, <1>2, <1>3, <1>4, <1>5, <1>6, <1>7, OneRequest

\* What a step needs of its request.
LEMMA TaskOK ==
  ASSUME HolderInv, NEW t \in Task
  PROVE  /\ RequestOK(task[t]) /\ task[t] \in Asking /\ task[t].raw \in Store
         /\ task[t].pc # "idle" => task[t].op # "none"
         /\ ~loaded => task[t].pc \in Early
         /\ calm => AnswerOK(task[t])
         /\ calm /\ ~reloaded => PayOK(task[t], data)
<1>1. RequestOK(task[t]) /\ task[t] \in Asking
  BY DEF HolderInv, RequestOK
<1>2. task[t].raw \in Store /\ (task[t].pc # "idle" => task[t].op # "none")
  BY <1>1 DEF Asking, RequestOK
<1> QED
  BY <1>1, <1>2 DEF HolderInv

\* A request arrives.
LEMMA ArrivalInv ==
  ASSUME HolderInv, NEW t \in Task, NEW q, RequestOK(q), q.pc = "enter", Resume(t, q),
         UNCHANGED <<onChain, data, file, loaded, history>>,
         inflight' \subseteq [from : Address \cup {NoOne}, to : Address]
  PROVE  HolderInv'
<1>1. FinalOK(q) /\ AnswerOK(q) /\ PayOK(q, data) /\ q.pc \in Early
  BY DEF FinalOK, AnswerOK, PayOK, RequestOK, Early
<1>2. task' = [task EXCEPT ![t] = q] /\ calm' = (calm \/ ~Busy(task')) /\ calm' \in BOOLEAN
  BY DEF Resume, HolderInv, HolderTypes, Busy
<1> QED
  BY <1>1, <1>2, OnlyRequest

LEMMA SendInv ==
  ASSUME HolderInv, NEW t \in Task, NEW op, NEW from, NEW to \in Address, Send(t, op, from, to),
         \/ op = "subscribe" /\ from = NoOne
         \/ op = "transfer" /\ from \in Address
  PROVE  HolderInv'
<1> DEFINE q == [Idle EXCEPT !.op = op, !.pc = "enter", !.from = from, !.to = to]
<1>1. Idle \in Asking
  BY IdleOK DEF RequestOK
<1>2. q \in Asking /\ q.pc = "enter" /\ q.op = op /\ q.from = from /\ q.to = to
      /\ q.todo = {} /\ q.seen = NoOne /\ q.stage = "none"
  BY <1>1, EmptyStoreOK DEF Idle, Asking, Early
<1>3. /\ Resume(t, q) /\ inflight' = inflight \cup {[from |-> from, to |-> to]}
      /\ UNCHANGED <<onChain, data, file, loaded, history>>
  BY DEF Send
<1> HIDE DEF q
<1>4. RequestOK(q)
  BY <1>2 DEF RequestOK, Early
<1>5. inflight' \subseteq [from : Address \cup {NoOne}, to : Address]
  BY <1>3 DEF HolderInv, HolderTypes
<1> QED
  BY <1>2, <1>3, <1>4, <1>5, ArrivalInv

LEMMA AskInv ==
  ASSUME HolderInv, NEW t \in Task, NEW late \in BOOLEAN,
         NEW op \in {"getHolders", "reconcileBond", "distributeCoupon"}, Ask(t, op, late)
  PROVE  HolderInv'
<1> DEFINE q == [Idle EXCEPT !.op = op, !.pc = "enter", !.late = late]
<1>1. q \in Asking /\ q.pc = "enter" /\ q.op = op /\ q.todo = {} /\ q.seen = NoOne /\ q.stage = "none"
  BY EmptyStoreOK DEF Idle, Asking, Early
<1>2. /\ Resume(t, q) /\ UNCHANGED <<onChain, inflight, data, file, loaded, history>>
  BY DEF Ask
<1> HIDE DEF q
<1>3. RequestOK(q)
  BY <1>1 DEF RequestOK, Early
<1> QED
  BY <1>1, <1>2, <1>3, ArrivalInv DEF HolderInv, HolderTypes

\* A request that finds the store loaded, or has to read the file.
LEMMA EnsureLoadedInv ==
  ASSUME HolderInv, NEW t \in Task, ensureLoaded(t)
  PROVE  HolderInv'
<1> DEFINE r == task[t]
           out == Proceed(r, data)
<1>1. /\ RequestOK(r) /\ r \in Asking /\ r.op # "none" /\ r.pc = "enter" /\ r.pc \in Early
      /\ data \in Store /\ file \in Store /\ loaded \in BOOLEAN /\ reloaded \in BOOLEAN
  BY TaskOK DEF ensureLoaded, Early, HolderInv, HolderTypes
<1>2. UNCHANGED <<onChain, inflight, file, loaded, reloaded>>
  BY DEF ensureLoaded
<1>3. CASE loaded /\ Settle(t, out) /\ recorded' = recorded \cup RecordedBy(r)
  <2>1. /\ Sound(r, data, out) /\ data.holders \subseteq out.store.holders
        /\ RecordedBy(r) \subseteq out.store.known /\ PayOK(out.request, out.store)
    BY <1>1, ProceedOK
  <2> HIDE DEF out
  <2>2. reloaded' \/ recorded' \subseteq out.store.known
    BY <1>2, <1>3, <2>1 DEF HolderInv, RecordedIsRemembered, Sound
  <2> QED
    BY <1>1, <1>2, <1>3, <2>1, <2>2, SettleInv DEF Sound
<1>4. CASE ~loaded /\ Resume(t, [r EXCEPT !.pc = "load"]) /\ UNCHANGED <<data, recorded>>
  <2> DEFINE q == [r EXCEPT !.pc = "load"]
  <2>1. /\ q \in Asking /\ q.op = r.op /\ q.to = r.to /\ q.from = r.from /\ q.stage = r.stage
        /\ q.todo = r.todo /\ q.seen = r.seen /\ q.pc = "load"
    BY <1>1 DEF Asking, Early
  <2> HIDE DEF q
  <2>2. RequestOK(q) /\ FinalOK(q) /\ AnswerOK(q) /\ PayOK(q, data) /\ q.pc \in Early
    BY <1>1, <2>1 DEF RequestOK, FinalOK, AnswerOK, PayOK, Early
  <2>3. task' = [task EXCEPT ![t] = q] /\ calm' = (calm \/ ~Busy(task')) /\ calm' \in BOOLEAN
    BY <1>4 DEF Resume, HolderInv, HolderTypes, Busy, q
  <2>4. UNCHANGED <<onChain, data, file, loaded, history>>
        /\ inflight' \subseteq [from : Address \cup {NoOne}, to : Address]
    BY <1>2, <1>4 DEF history, HolderInv, HolderTypes
  <2> QED
    BY <2>2, <2>3, <2>4, OnlyRequest
<1> QED
  BY <1>3, <1>4 DEF ensureLoaded

LEMMA ReadFileInv ==
  ASSUME HolderInv, NEW t \in Task, readFile(t)
  PROVE  HolderInv'
<1> DEFINE r == task[t]
<1>1. RequestOK(r) /\ r \in Asking /\ r.pc = "load" /\ file \in Store
  BY TaskOK DEF readFile, HolderInv, HolderTypes
<1>2. PICK text \in Store : Resume(t, [r EXCEPT !.pc = "loaded", !.raw = text])
  BY <1>1, EmptyStoreOK DEF readFile
<1> DEFINE q == [r EXCEPT !.pc = "loaded", !.raw = text]
<1>3. /\ q \in Asking /\ q.op = r.op /\ q.to = r.to /\ q.from = r.from /\ q.stage = r.stage
      /\ q.todo = r.todo /\ q.seen = r.seen /\ q.pc = "loaded"
  BY <1>1 DEF Asking, Early
<1>4. task' = [task EXCEPT ![t] = q] /\ calm' = (calm \/ ~Busy(task')) /\ calm' \in BOOLEAN
  BY <1>2 DEF Resume, HolderInv, HolderTypes, Busy
<1> HIDE DEF q
<1>5. RequestOK(q) /\ FinalOK(q) /\ AnswerOK(q) /\ PayOK(q, data) /\ q.pc \in Early
  BY <1>1, <1>3 DEF RequestOK, FinalOK, AnswerOK, PayOK, Early
<1>6. UNCHANGED <<onChain, data, file, loaded, history>>
      /\ inflight' \subseteq [from : Address \cup {NoOne}, to : Address]
  BY DEF readFile, HolderInv, HolderTypes
<1> QED
  BY <1>4, <1>5, <1>6, OnlyRequest

\* The file that was read replaces the store: the first time there is nothing
\* recorded to forget, later the process has reloaded.
LEMMA LoadInv ==
  ASSUME HolderInv, NEW t \in Task, load(t)
  PROVE  HolderInv'
<1> DEFINE r == task[t]
           q == [r EXCEPT !.raw = EmptyStore]
           out == Proceed(q, r.raw)
<1>1. /\ RequestOK(r) /\ r \in Asking /\ r.op # "none" /\ r.pc = "loaded" /\ r.raw \in Store
      /\ file \in Store /\ loaded \in BOOLEAN /\ reloaded \in BOOLEAN
  BY TaskOK DEF load, HolderInv, HolderTypes
<1>2. /\ q \in Asking /\ q.op = r.op /\ q.to = r.to /\ q.from = r.from /\ q.stage = r.stage
      /\ q.todo = r.todo /\ q.seen = r.seen /\ q.pc = "loaded"
  BY <1>1, EmptyStoreOK DEF Asking, Early
<1>3. /\ UNCHANGED <<onChain, inflight, file>> /\ Settle(t, out) /\ loaded' = TRUE
      /\ reloaded' = (reloaded \/ loaded) /\ recorded' = recorded \cup RecordedBy(r)
  BY DEF load, MarkLoaded
<1> HIDE DEF q
<1>4. RequestOK(q) /\ q.pc \in Early /\ RecordedBy(q) = RecordedBy(r)
  BY <1>1, <1>2 DEF RequestOK, Early, RecordedBy
<1>5. /\ Sound(q, r.raw, out) /\ RecordedBy(r) \subseteq out.store.known
      /\ PayOK(out.request, out.store)
  BY <1>1, <1>2, <1>4, ProceedOK
<1> HIDE DEF out
<1>6. reloaded' \/ recorded' \subseteq out.store.known
  BY <1>1, <1>3, <1>5 DEF HolderInv
<1>7. reloaded' \in BOOLEAN /\ (reloaded => reloaded') /\ (~reloaded' => ~loaded) /\ file' \in Store
  BY <1>1, <1>3
<1> QED
  BY <1>1, <1>2, <1>3, <1>5, <1>6, <1>7, SettleInv DEF Sound

\* A balance is read as it is on chain, or the spell is no longer calm.
LEMMA ReadInv ==
  ASSUME HolderInv, NEW t \in Task, getOnChainBalance(t)
  PROVE  HolderInv'
<1> DEFINE r == task[t]
<1>1. /\ RequestOK(r) /\ r \in Asking /\ r.pc = "read" /\ r.op # "none" /\ r.todo \subseteq Address
      /\ r.base \subseteq Address /\ r.seen = NoOne
  BY TaskOK DEF getOnChainBalance, RequestOK, Asking
<1>2. loaded
  BY <1>1, TaskOK DEF Early
<1>3. PICK x \in r.todo, b \in {"zero", "some", "error"} :
        /\ task' = [task EXCEPT ![t] = [r EXCEPT !.pc = "answer", !.seen = x, !.todo = @ \ {x},
                                                 !.balance = b]]
        /\ \/ b = (IF x \in onChain THEN "some" ELSE "zero") /\ calm' = (calm \/ ~Busy(task'))
           \/ calm' = FALSE
  <2>1. PICK x \in r.todo :
          \/ Resume(t, [r EXCEPT !.pc = "answer", !.seen = x, !.todo = @ \ {x},
                                 !.balance = IF x \in onChain THEN "some" ELSE "zero"])
          \/ /\ task' = [task EXCEPT ![t].pc = "answer", ![t].seen = x, ![t].todo = @ \ {x},
                                     ![t].balance = "error"]
             /\ calm' = FALSE
    BY DEF getOnChainBalance
  <2>2. CASE Resume(t, [r EXCEPT !.pc = "answer", !.seen = x, !.todo = @ \ {x},
                                 !.balance = IF x \in onChain THEN "some" ELSE "zero"])
    BY <2>2 DEF Resume
  <2>3. CASE /\ task' = [task EXCEPT ![t].pc = "answer", ![t].seen = x, ![t].todo = @ \ {x},
                                     ![t].balance = "error"]
             /\ calm' = FALSE
    <3>1. task' = [task EXCEPT ![t] = [r EXCEPT !.pc = "answer", !.seen = x, !.todo = @ \ {x},
                                                !.balance = "error"]]
      BY <1>1, <2>3 DEF HolderInv, Asking
    <3> QED
      BY <2>3, <3>1
  <2> QED
    BY <2>1, <2>2, <2>3
<1> DEFINE q == [r EXCEPT !.pc = "answer", !.seen = x, !.todo = @ \ {x}, !.balance = b]
<1>4. /\ q \in Asking /\ q.op = r.op /\ q.to = r.to /\ q.from = r.from /\ q.stage = r.stage
      /\ q.todo = r.todo \ {x} /\ q.seen = x /\ q.pc = "answer" /\ q.base = r.base
      /\ q.list = r.list /\ q.refused = r.refused /\ q.balance = b
  BY <1>1 DEF Asking, Early
<1>5. task' = [task EXCEPT ![t] = q]
  BY <1>3
<1> HIDE DEF q
<1>6. RequestOK(q) /\ FinalOK(q)
  BY <1>1, <1>4 DEF RequestOK, FinalOK, Early
<1>7. PayOK(r, data) => PayOK(q, data)
  BY <1>1, <1>4, HolderAssumption DEF PayOK, Left
<1>8. calm' \in BOOLEAN /\ (calm' => calm \/ ~Busy(task')) /\ (calm' => AnswerOK(q))
  BY <1>3, <1>4 DEF AnswerOK, HolderInv, HolderTypes, Busy
<1>9. UNCHANGED <<onChain, data, file, loaded, history>>
      /\ inflight' \subseteq [from : Address \cup {NoOne}, to : Address]
  BY DEF getOnChainBalance, HolderInv, HolderTypes
<1> QED
  BY <1>2, <1>5, <1>6, <1>7, <1>8, <1>9, TaskOK, OnlyRequest

LEMMA AnswerInv ==
  ASSUME HolderInv, NEW t \in Task, Answer(t)
  PROVE  HolderInv'
<1> DEFINE r == task[t]
           out == Answered(r, data)
<1>1. /\ RequestOK(r) /\ r.pc = "answer" /\ r.op # "none" /\ data \in Store /\ file \in Store
      /\ reloaded \in BOOLEAN
  BY TaskOK DEF Answer, HolderInv, HolderTypes
<1>2. loaded = TRUE
  BY <1>1, TaskOK DEF Early, HolderInv, HolderTypes
<1>3. Settle(t, out) /\ UNCHANGED <<onChain, inflight, file, loaded, history>>
  BY DEF Answer, Answered, Body, Next
<1>4. /\ Sound(r, data, out)
      /\ AnswerOK(r) => /\ data.holders \cap onChain \subseteq out.store.holders
                        /\ PayOK(r, data) => PayOK(out.request, out.store)
  BY <1>1, AnsweredOK
<1> HIDE DEF out
<1>5. reloaded' \/ recorded' \subseteq out.store.known
  BY <1>3, <1>4 DEF HolderInv, RecordedIsRemembered, Sound, history
<1>6. (calm => AnswerOK(r)) /\ (calm /\ ~reloaded => PayOK(r, data))
  BY TaskOK
<1>7. loaded' = TRUE /\ reloaded' = reloaded /\ file' \in Store /\ UNCHANGED <<onChain, inflight>>
  BY <1>1, <1>2, <1>3 DEF history
<1> QED
  BY <1>1, <1>3, <1>4, <1>5, <1>6, <1>7, SettleInv DEF Sound

\* A store is serialised: of the other requests only the overlap changes.
LEMMA SerializeInv ==
  ASSUME HolderInv, NEW t \in Task, serialize(t)
  PROVE  HolderInv'
<1>1. /\ task' = [u \in Task |->
            IF u = t THEN [task[t] EXCEPT !.pc = "write", !.raw = data, !.overlap = Writers # {}]
            ELSE IF u \in Writers THEN [task[u] EXCEPT !.overlap = TRUE] ELSE task[u]]
      /\ UNCHANGED <<onChain, inflight, data, file, loaded, history, calm>> /\ task[t].pc = "save"
  BY DEF serialize
<1>2. loaded /\ data \in Store
  BY <1>1, TaskOK DEF Early, HolderInv, HolderTypes
<1>3. ASSUME NEW u \in Task
      PROVE  /\ task'[u] \in Asking /\ task'[u].op = task[u].op /\ task'[u].to = task[u].to
             /\ task'[u].from = task[u].from /\ task'[u].stage = task[u].stage
             /\ task'[u].todo = task[u].todo /\ task'[u].seen = task[u].seen
             /\ task'[u].base = task[u].base /\ task'[u].refused = task[u].refused
             /\ task'[u].list = task[u].list /\ task'[u].balance = task[u].balance
             /\ \/ task'[u].pc = task[u].pc
                \/ task[u].pc = "save" /\ task'[u].pc = "write"
  <2>1. task[u] \in Asking /\ (Writers # {}) \in BOOLEAN
    BY TaskOK
  <2>2. CASE u = t
    <3>1. PICK w \in BOOLEAN : task'[u] = [task[u] EXCEPT !.pc = "write", !.raw = data, !.overlap = w]
      BY <1>1, <2>2
    <3> DEFINE q == [task[u] EXCEPT !.pc = "write", !.raw = data, !.overlap = w]
    <3>2. /\ q \in Asking /\ q.op = task[u].op /\ q.to = task[u].to /\ q.from = task[u].from
          /\ q.stage = task[u].stage /\ q.todo = task[u].todo /\ q.seen = task[u].seen
          /\ q.base = task[u].base /\ q.refused = task[u].refused /\ q.list = task[u].list
          /\ q.balance = task[u].balance /\ q.pc = "write"
      BY <1>2, <2>1 DEF Asking, Early
    <3>3. task'[u] = q /\ task[u].pc = "save"
      BY <1>1, <2>2, <3>1
    <3> HIDE DEF q
    <3> QED
      BY <3>2, <3>3
  <2>3. CASE u # t /\ u \in Writers
    <3>1. task'[u] = [task[u] EXCEPT !.overlap = TRUE]
      BY <1>1, <2>3
    <3> QED
      BY <2>1, <3>1 DEF Asking
  <2>4. CASE u # t /\ u \notin Writers
    BY <1>1, <2>1, <2>4
  <2> QED
    BY <2>2, <2>3, <2>4
<1>4. ASSUME NEW u \in Task
      PROVE  /\ RequestOK(task[u])' /\ FinalOK(task[u])'
             /\ AnswerOK(task[u]) => AnswerOK(task[u])'
             /\ PayOK(task[u], data) => PayOK(task[u], data)'
  <2>1. RequestOK(task[u]) /\ FinalOK(task[u])
    BY DEF HolderInv
  <2>2. RequestOK(task[u])' /\ FinalOK(task[u])'
    BY <1>3, <2>1 DEF RequestOK, FinalOK, Early
  <2>3. AnswerOK(task[u]) => AnswerOK(task[u])'
    <3>1. task'[u].pc = "answer" => task[u].pc = "answer"
      BY <1>3
    <3>2. onChain' = onChain /\ task'[u].seen = task[u].seen /\ task'[u].balance = task[u].balance
      BY <1>1, <1>3
    <3> QED
      BY <3>1, <3>2 DEF AnswerOK
  <2>4. PayOK(task[u], data) => PayOK(task[u], data)'
    BY <1>1, <1>3 DEF PayOK, Left
  <2> QED
    BY <2>2, <2>3, <2>4
<1>5. HolderTypes' /\ RecordedIsRemembered' /\ loaded' /\ reloaded' = reloaded /\ calm' = calm
  BY <1>1, <1>2 DEF HolderInv, HolderTypes, RecordedIsRemembered, history
<1>6. task' = [u \in Task |-> task'[u]]
  BY <1>1
<1> QED
  BY <1>4, <1>5, <1>6 DEF HolderInv

LEMMA WriteInv ==
  ASSUME HolderInv, NEW t \in Task, writeFile(t)
  PROVE  HolderInv'
<1> DEFINE r == task[t]
           out == Saved(r, data)
<1>1. /\ RequestOK(r) /\ r.pc = "write" /\ r.op # "none" /\ data \in Store /\ file \in Store
      /\ reloaded \in BOOLEAN /\ r.raw \in Store
  BY TaskOK DEF writeFile, HolderInv, HolderTypes
<1>2. loaded = TRUE
  BY <1>1, TaskOK DEF Early, HolderInv, HolderTypes
<1>3. /\ Settle(t, out) /\ UNCHANGED <<onChain, inflight, loaded, recorded, reloaded>>
      /\ file' \in {r.raw, EmptyStore, file}
  BY DEF writeFile
<1>4. Sound(r, data, out) /\ out.store = data /\ (PayOK(r, data) => PayOK(out.request, data))
  BY <1>1, SavedOK
<1> HIDE DEF out
<1>5. reloaded' \/ recorded' \subseteq out.store.known
  BY <1>3, <1>4 DEF HolderInv, RecordedIsRemembered
<1>6. calm /\ ~reloaded => PayOK(r, data)
  BY TaskOK
<1>7. file' \in Store
  BY <1>1, <1>3, EmptyStoreOK
<1>8. data.holders \cap onChain \subseteq out.store.holders
  BY <1>4
<1> QED
  BY <1>1, <1>2, <1>3, <1>4, <1>5, <1>6, <1>7, <1>8, SettleInv DEF Sound

LEMMA RespondInv ==
  ASSUME HolderInv, NEW t \in Task, Respond(t)
  PROVE  HolderInv'
<1>1. FinalOK(Idle) /\ AnswerOK(Idle) /\ PayOK(Idle, data) /\ Idle.pc \in Early
  BY IdleOK DEF FinalOK, AnswerOK, PayOK, Early
<1>2. task' = [task EXCEPT ![t] = Idle] /\ calm' = (calm \/ ~Busy(task')) /\ calm' \in BOOLEAN
  BY DEF Respond, Resume, HolderInv, HolderTypes, Busy
<1>3. UNCHANGED <<onChain, data, file, loaded, history>>
      /\ inflight' \subseteq [from : Address \cup {NoOne}, to : Address]
  BY DEF Respond, HolderInv, HolderTypes
<1> QED
  BY <1>1, <1>2, <1>3, IdleOK, OnlyRequest

\* A balance changes: in a calm spell only between two spells of requests.
LEMMA MoveInv ==
  ASSUME HolderInv, NEW a \in Address \cup {NoOne}, NEW b \in Address, Move(a, b),
         UNCHANGED <<data, file, loaded, task, history>>, inflight' \subseteq inflight
  PROVE  HolderInv'
<1>1. onChain' \subseteq Address /\ calm' = (calm /\ ~Busy(task)) /\ calm' \in BOOLEAN
  BY DEF Move, HolderInv, HolderTypes, Busy
<1>2. HolderTypes' /\ RecordedIsRemembered'
  BY <1>1 DEF HolderInv, HolderTypes, RecordedIsRemembered, history
<1>3. ASSUME calm', NEW t \in Task PROVE AnswerOK(task[t])' /\ PayOK(task[t], data)'
  <2>1. task[t].op = "none" /\ task[t].pc = "idle"
    BY <1>1, <1>3, TaskOK, NobodyBusy
  <2> QED
    BY <2>1 DEF AnswerOK, PayOK
<1>4. \A t \in Task : RequestOK(task[t])' /\ FinalOK(task[t])'
  BY DEF HolderInv, RequestOK, FinalOK
<1> QED
  BY <1>2, <1>3, <1>4 DEF HolderInv, history

\* A process starts: on any file that load() can make something of.
LEMMA FreshInv ==
  ASSUME onChain \subseteq Address, file \in Store,
         inflight \subseteq [from : Address \cup {NoOne}, to : Address],
         data = EmptyStore, loaded = FALSE, task = [t \in Task |-> Idle], recorded = {},
         reloaded = FALSE, calm = TRUE
  PROVE  HolderInv
<1>1. HolderTypes /\ RecordedIsRemembered
  BY EmptyStoreOK DEF HolderTypes, RecordedIsRemembered
<1>2. FinalOK(Idle) /\ AnswerOK(Idle) /\ PayOK(Idle, data) /\ Idle.pc \in Early
  BY IdleOK DEF FinalOK, AnswerOK, PayOK, Early
<1> QED
  BY <1>1, <1>2, IdleOK DEF HolderInv

LEMMA HolderStep ==
  ASSUME HolderInv, [HolderNext]_holderVars
  PROVE  HolderInv'
<1>1. ASSUME NEW t \in Task, RequestStep(t) PROVE HolderInv'
  BY <1>1, EnsureLoadedInv, ReadFileInv, LoadInv, ReadInv, AnswerInv, SerializeInv, WriteInv,
     RespondInv DEF RequestStep
<1>2. ASSUME NEW t \in Task, NEW a \in Address, subscribe(t, a) PROVE HolderInv'
  BY <1>2, SendInv DEF subscribe
<1>3. ASSUME NEW t \in Task, NEW a \in Address, NEW b \in Address, transfer(t, a, b) PROVE HolderInv'
  BY <1>3, SendInv DEF transfer
<1>4. ASSUME NEW t \in Task,
             getHolders(t) \/ reconcile(t) \/ reindexHolders(t) \/ distributeCoupon(t)
      PROVE  HolderInv'
  BY <1>4, AskInv DEF getHolders, reconcile, reindexHolders, distributeCoupon
<1>5. ASSUME NEW tx \in inflight, Apply(tx) PROVE HolderInv'
  <2>1. tx.from \in Address \cup {NoOne} /\ tx.to \in Address
    BY DEF HolderInv, HolderTypes
  <2>2. Move(tx.from, tx.to) /\ UNCHANGED <<data, file, loaded, task, history>> /\ inflight' \subseteq inflight
    BY <1>5 DEF Apply
  <2> QED
    BY <2>1, <2>2, MoveInv
<1>6. ASSUME NEW a \in Address \cup {NoOne}, NEW b \in Address, DirectCall(a, b) PROVE HolderInv'
  <2>1. Move(a, b) /\ UNCHANGED <<data, file, loaded, task, history>> /\ inflight' \subseteq inflight
    BY <1>6 DEF DirectCall
  <2> QED
    BY <2>1, MoveInv
<1>7. CASE Restart
  <2>1. file' \in Store
    <3>1. \A u \in Task : task[u].raw \in Store
      BY TaskOK
    <3> QED
      BY <1>7, <3>1, EmptyStoreOK DEF Restart, Writers, HolderInv, HolderTypes
  <2>2. onChain' \subseteq Address /\ inflight' \subseteq [from : Address \cup {NoOne}, to : Address]
    BY <1>7 DEF Restart, HolderInv, HolderTypes
  <2>3. HolderTypes' /\ RecordedIsRemembered'
    BY <1>7, <2>1, <2>2, EmptyStoreOK DEF Restart, HolderTypes, RecordedIsRemembered
  <2>4. task' = [t \in Task |-> Idle] /\ \A t \in Task : task'[t] = Idle
    BY <1>7 DEF Restart
  <2>5. ASSUME NEW t \in Task
        PROVE  /\ RequestOK(task[t])' /\ FinalOK(task[t])' /\ task'[t].pc \in Early
               /\ AnswerOK(task[t])' /\ PayOK(task[t], data)'
    <3>1. RequestOK(Idle) /\ Idle.op = "none" /\ Idle.pc = "idle" /\ task'[t] = Idle
      BY <2>4, IdleOK
    <3> QED
      BY <3>1 DEF RequestOK, FinalOK, AnswerOK, PayOK, Early
  <2> QED
    BY <1>7, <2>3, <2>4, <2>5 DEF Restart, HolderInv
<1>8. CASE UNCHANGED holderVars
  <2>1. HolderTypes' /\ RecordedIsRemembered'
    BY <1>8 DEF holderVars, HolderInv, HolderTypes, RecordedIsRemembered
  <2>2. \A t \in Task : /\ RequestOK(task[t])' /\ FinalOK(task[t])'
                        /\ AnswerOK(task[t]) => AnswerOK(task[t])'
                        /\ PayOK(task[t], data) => PayOK(task[t], data)'
    BY <1>8 DEF holderVars, HolderInv, RequestOK, FinalOK, AnswerOK, PayOK, Left
  <2> QED
    BY <1>8, <2>1, <2>2 DEF holderVars, HolderInv
<1> QED
  BY <1>1, <1>2, <1>3, <1>4, <1>5, <1>6, <1>7, <1>8 DEF HolderNext

LEMMA HolderInvariant == HolderSpec => []HolderInv
<1>1. HolderInit => HolderInv
  BY FreshInv, HolderAssumption DEF HolderInit, Store
<1> QED
  BY <1>1, HolderStep, PTL DEF HolderSpec

\* recordSubscribe and recordTransfer, for any number of requests, restarts and
\* failed saves: an address that a process has recorded stays a candidate of
\* its reconciliations, unless a second load replaces the store.
THEOREM RecordsAreKept == HolderSpec => []RecordedIsRemembered
<1>1. HolderInv => RecordedIsRemembered
  BY DEF HolderInv
<1> QED
  BY <1>1, HolderInvariant, PTL

\* getHoldersForCoupon, for any addresses and any number of requests that
\* subscribe, transfer, reconcile and prune meanwhile: in a calm spell of a
\* process that loaded its store once, a coupon pays exactly the holders among
\* those it had to look at, and nobody without a balance.
THEOREM CouponsPayHolders == HolderSpec => []CouponPaysItsHolders
<1>1. HolderInv => CouponPaysItsHolders
  <2> SUFFICES ASSUME HolderInv, NEW t \in Task, task[t].op = "distributeCoupon",
                      task[t].pc = "done", ~task[t].refused, calm, ~reloaded
               PROVE  task[t].base \cap onChain \subseteq task[t].list /\ task[t].list \subseteq onChain
    BY DEF CouponPaysItsHolders
  <2>1. /\ RequestOK(task[t]) /\ FinalOK(task[t]) /\ PayOK(task[t], data)
        /\ onChain \subseteq Address
    BY DEF HolderInv, HolderTypes
  <2>2. Left(task[t]) = {NoOne} /\ task[t].stage = "scan"
    BY <2>1 DEF RequestOK, FinalOK, Left
  <2> QED
    BY <2>1, <2>2, HolderAssumption DEF PayOK
<1> QED
  BY <1>1, HolderInvariant, PTL
-----------------------------------------------------------------------------
(***************************************************************************)
(* Incidents.  A replica that is about to escalate has counted enough      *)
(* occurrences of the very row that it is going to mark; a row keeps its   *)
(* number, and its count does not shrink.                                  *)
(***************************************************************************)
Incident == [subject : Subject, status : {"active", "acknowledged", "resolved"},
             severity : OracleIncidentSeverity, count : 1..MaxCount]

Cycle == [pc : {"idle", "record", "escalate"}, todo : SUBSET Subject, row : Nat,
          severity : OracleIncidentSeverity]

Earned(severity, count) == severity = "critical" => severityForOccurrenceCount[count] = "critical"

DueOK(q) ==
  q.pc = "escalate" => q.row \in DOMAIN rows /\ Earned(q.severity, rows[q.row].count)

IncidentInv ==
  /\ rows \in Seq(Incident) /\ cycle \in [Replica -> Cycle]
  /\ EscalationIsEarned
  /\ \A r \in Replica : DueOK(cycle[r])

\* Resting and recording are due nothing.
LEMMA RestingType == Resting \in Cycle /\ Resting.pc = "idle"
<1> QED
  BY DEF Resting, Cycle, OracleIncidentSeverity

\* More occurrences earn no less.
LEMMA EarnedKept ==
  ASSUME NEW severity, NEW m \in 1..MaxCount, NEW n \in 1..MaxCount, m <= n, Earned(severity, m)
  PROVE  Earned(severity, n)
<1> QED
  BY ThresholdAssumption DEF Earned

\* What is due stays due while rows stay and their counts do not shrink.
LEMMA StillDue ==
  ASSUME rows \in Seq(Incident), rows' \in Seq(Incident), DOMAIN rows \subseteq DOMAIN rows',
         \A i \in DOMAIN rows : rows[i].count <= rows'[i].count
  PROVE  \A q : DueOK(q) => DueOK(q)'
<1> SUFFICES ASSUME NEW q, DueOK(q), q.pc = "escalate" PROVE DueOK(q)'
  BY DEF DueOK
<1>1. q.row \in DOMAIN rows /\ Earned(q.severity, rows[q.row].count) /\ q.row \in DOMAIN rows'
  BY DEF DueOK
<1>2. rows[q.row] \in Incident /\ rows'[q.row] \in Incident
  BY <1>1
<1>3. rows[q.row].count \in 1..MaxCount /\ rows'[q.row].count \in 1..MaxCount
  BY <1>2 DEF Incident
<1>4. Earned(q.severity, rows'[q.row].count)
  BY <1>1, <1>3, EarnedKept
<1> QED
  BY <1>1, <1>4 DEF DueOK, Earned

\* Changing one row.
LEMMA RowChanges ==
  ASSUME IncidentInv, NEW i \in DOMAIN rows, NEW row \in Incident,
         rows' = [rows EXCEPT ![i] = row], rows[i].count <= row.count,
         Earned(row.severity, row.count)
  PROVE  /\ rows' \in Seq(Incident) /\ EscalationIsEarned' /\ DOMAIN rows' = DOMAIN rows
         /\ \A j \in DOMAIN rows : rows'[j] = IF j = i THEN row ELSE rows[j]
         /\ \A q : DueOK(q) => DueOK(q)'
<1>1. /\ rows' \in Seq(Incident) /\ DOMAIN rows' = DOMAIN rows /\ rows \in Seq(Incident)
      /\ \A j \in DOMAIN rows : rows'[j] = IF j = i THEN row ELSE rows[j]
  BY DEF IncidentInv
<1>2. \A j \in DOMAIN rows : rows[j].count <= rows'[j].count
  <2> SUFFICES ASSUME NEW j \in DOMAIN rows PROVE rows[j].count <= rows'[j].count
    OBVIOUS
  <2>1. rows[j] \in Incident
    BY <1>1
  <2>2. rows[j].count \in Int
    BY <2>1 DEF Incident
  <2> QED
    BY <1>1, <2>2
<1>3. EscalationIsEarned'
  BY <1>1 DEF IncidentInv, EscalationIsEarned, Earned
<1> QED
  BY <1>1, <1>2, <1>3, StillDue

\* A run that goes on, or is over.
LEMMA CycleMoves ==
  ASSUME IncidentInv, NEW r \in Replica, NEW q \in Cycle,
         rows' \in Seq(Incident), EscalationIsEarned', \A x : DueOK(x) => DueOK(x)',
         DueOK(q)', cycle' = [cycle EXCEPT ![r] = q]
  PROVE  IncidentInv'
<1>1. cycle' \in [Replica -> Cycle]
      /\ \A x \in Replica : cycle'[x] = IF x = r THEN q ELSE cycle[x]
  BY DEF IncidentInv
<1>2. ASSUME NEW x \in Replica PROVE DueOK(cycle[x])'
  <2>1. PICK y : y = cycle'[x]
    OBVIOUS
  <2>2. DueOK(y)'
    <3>1. CASE x = r
      BY <1>1, <2>1, <3>1
    <3>2. CASE x # r
      BY <1>1, <2>1, <3>2 DEF IncidentInv
    <3> QED
      BY <3>1, <3>2
  <2> QED
    BY <2>1, <2>2 DEF DueOK
<1> QED
  BY <1>1, <1>2 DEF IncidentInv

\* recordDetection inserts, or counts one more occurrence.
LEMMA RecordInv ==
  ASSUME IncidentInv, NEW r \in Replica, NEW s \in Subject, recordDetection(r, s)
  PROVE  IncidentInv'
<1> DEFINE q == cycle[r]
           rest == [q EXCEPT !.todo = @ \ {s}]
           fresh == [subject |-> s, status |-> "active", severity |-> "warning", count |-> 1]
           i == IF Open(s) = {} THEN Len(rows) + 1 ELSE CHOOSE j \in Open(s) : TRUE
           more == [rows[i] EXCEPT !.count = IF @ < MaxCount THEN @ + 1 ELSE @]
           row == IF Open(s) = {} THEN fresh ELSE more
           due == [rest EXCEPT !.pc = "escalate", !.row = i,
                     !.severity = severityForOccurrenceCount[row.count]]
<1>1. /\ rows' = IF Open(s) = {} THEN Append(rows, fresh) ELSE [rows EXCEPT ![i] = row]
      /\ cycle' = (IF NeedsEscalation(row) THEN [cycle EXCEPT ![r] = due] ELSE Carry(r, rest))
      /\ q.pc = "record"
  BY DEF recordDetection
<1>2. /\ rows \in Seq(Incident) /\ q \in Cycle /\ MaxCount \in Nat \ {0}
      /\ severityForOccurrenceCount \in [1..MaxCount -> OracleIncidentSeverity]
  BY ThresholdAssumption DEF IncidentInv
<1>3. /\ rows' \in Seq(Incident) /\ EscalationIsEarned' /\ \A x : DueOK(x) => DueOK(x)'
      /\ row \in Incident /\ i \in Nat /\ i \in DOMAIN rows' /\ rows'[i] = row
  <2>1. CASE Open(s) = {}
    <3>1. fresh \in Incident /\ fresh.severity = "warning"
      BY <1>2 DEF Incident, OracleIncidentSeverity
    <3>2. row = fresh /\ i = Len(rows) + 1 /\ rows' = Append(rows, fresh)
      BY <1>1, <2>1
    <3> HIDE DEF fresh, row, i
    <3>3. PICK N \in Nat : N = Len(rows)
      BY <1>2
    <3>4. /\ rows' \in Seq(Incident) /\ DOMAIN rows' = 1..N+1 /\ DOMAIN rows = 1..N
          /\ \A j \in 1..N+1 : rows'[j] = IF j = N + 1 THEN fresh ELSE rows[j]
      BY <1>2, <3>1, <3>2, <3>3
    <3>5. \A j \in 1..N : rows[j].count <= rows'[j].count
      <4> SUFFICES ASSUME NEW j \in 1..N PROVE rows[j].count <= rows'[j].count
        OBVIOUS
      <4>1. rows[j] \in Incident /\ rows'[j] = rows[j]
        BY <1>2, <3>4
      <4>2. rows[j].count \in Int
        BY <4>1 DEF Incident
      <4> QED
        BY <4>1, <4>2
    <3>6. EscalationIsEarned'
      BY <3>1, <3>4 DEF IncidentInv, EscalationIsEarned
    <3>7. \A x : DueOK(x) => DueOK(x)'
      BY <1>2, <3>4, <3>5, StillDue
    <3>8. i \in Nat /\ i \in DOMAIN rows' /\ rows'[i] = row
      BY <3>2, <3>3, <3>4
    <3> QED
      BY <3>1, <3>2, <3>4, <3>6, <3>7, <3>8
  <2>2. CASE Open(s) # {}
    <3>1. i \in DOMAIN rows
      BY <2>2 DEF Open
    <3>2. row = more /\ rows' = [rows EXCEPT ![i] = row]
      BY <1>1, <2>2
    <3> HIDE DEF i
    <3>3. rows[i] \in Incident /\ i \in Nat
      BY <1>2, <3>1
    <3>4. more \in Incident /\ rows[i].count <= more.count /\ more.severity = rows[i].severity
          /\ rows[i].count \in 1..MaxCount /\ more.count \in 1..MaxCount
      <4>1. rows[i].count \in 1..MaxCount
        BY <3>3 DEF Incident
      <4>2. PICK n \in 1..MaxCount :
              n = (IF rows[i].count < MaxCount THEN rows[i].count + 1 ELSE rows[i].count)
        BY <1>2, <4>1
      <4>3. more = [rows[i] EXCEPT !.count = n] /\ rows[i].count <= n
        BY <4>1, <4>2
      <4> HIDE DEF more
      <4> QED
        BY <3>3, <4>1, <4>3 DEF Incident
    <3>5. Earned(rows[i].severity, rows[i].count)
      BY <3>1 DEF IncidentInv, EscalationIsEarned, Earned
    <3> HIDE DEF more
    <3>6. Earned(more.severity, more.count)
      BY <3>4, <3>5, EarnedKept
    <3> HIDE DEF row
    <3>7. PICK j \in DOMAIN rows, w \in Incident : j = i /\ w = row
      BY <3>1, <3>2, <3>4
    <3>8. rows' = [rows EXCEPT ![j] = w] /\ rows[j].count <= w.count /\ Earned(w.severity, w.count)
      BY <3>2, <3>4, <3>6, <3>7
    <3>9. /\ rows' \in Seq(Incident) /\ EscalationIsEarned' /\ DOMAIN rows' = DOMAIN rows
          /\ \A k \in DOMAIN rows : rows'[k] = IF k = j THEN w ELSE rows[k]
          /\ \A q0 : DueOK(q0) => DueOK(q0)'
      BY <3>8, RowChanges
    <3> QED
      BY <3>2, <3>3, <3>4, <3>7, <3>9
  <2> QED
    BY <2>1, <2>2
<1> HIDE DEF row, i, q
<1>4. rest \in Cycle /\ rest.pc = q.pc
  BY <1>2 DEF Cycle
<1>5. CASE NeedsEscalation(row)
  <2>1. row.count \in 1..MaxCount
    BY <1>3 DEF Incident
  <2>2. severityForOccurrenceCount[row.count] \in OracleIncidentSeverity
    BY <1>2, <2>1
  <2>3. /\ due \in Cycle /\ due.pc = "escalate" /\ due.row = i
        /\ due.severity = severityForOccurrenceCount[row.count]
    BY <1>3, <1>4, <2>2 DEF Cycle
  <2> HIDE DEF due
  <2>4. PICK x \in Cycle : x = due
    BY <2>3
  <2>5. DueOK(x)'
    BY <1>3, <2>3, <2>4 DEF DueOK, Earned
  <2> QED
    BY <1>1, <1>3, <1>5, <2>4, <2>5, CycleMoves
<1>6. CASE ~NeedsEscalation(row)
  <2>1. PICK p \in Cycle : p.pc # "escalate" /\ cycle' = [cycle EXCEPT ![r] = p]
    <3> DEFINE w == IF rest.todo = {} THEN Resting ELSE rest
    <3>1. w \in Cycle /\ w.pc # "escalate"
      BY <1>1, <1>4, RestingType
    <3>2. cycle' = [cycle EXCEPT ![r] = w]
      BY <1>1, <1>6 DEF Carry
    <3> HIDE DEF w
    <3> QED
      BY <3>1, <3>2
  <2>2. DueOK(p)'
    BY <2>1 DEF DueOK
  <2> QED
    BY <1>3, <2>1, <2>2, CycleMoves
<1> QED
  BY <1>5, <1>6

\* The second statement marks what was counted.
LEMMA EscalateInv ==
  ASSUME IncidentInv, NEW r \in Replica, Escalate(r)
  PROVE  IncidentInv'
<1> DEFINE q == cycle[r]
           row == [rows[q.row] EXCEPT !.severity = q.severity]
           rest == [q EXCEPT !.pc = "record", !.row = 0, !.severity = "warning"]
<1>1. /\ rows \in Seq(Incident) /\ q \in Cycle /\ q.row \in DOMAIN rows
      /\ Earned(q.severity, rows[q.row].count)
  BY DEF IncidentInv, Escalate, DueOK
<1>2. rows' = [rows EXCEPT ![q.row] = row] /\ cycle' = Carry(r, rest)
  BY DEF Escalate, Escalated
<1> HIDE DEF q
<1>3. rows[q.row] \in Incident /\ q.severity \in OracleIncidentSeverity
  BY <1>1 DEF Cycle
<1>4. /\ row \in Incident /\ row.severity = q.severity /\ row.count = rows[q.row].count
      /\ row.count \in Int
  BY <1>3 DEF Incident
<1>5. rest \in Cycle /\ rest.pc = "record"
  BY <1>1 DEF Cycle, OracleIncidentSeverity
<1> HIDE DEF row, rest
<1>6. rows' \in Seq(Incident) /\ EscalationIsEarned' /\ \A x : DueOK(x) => DueOK(x)'
  <2>1. PICK j \in DOMAIN rows, w \in Incident : j = q.row /\ w = row
    BY <1>1, <1>4
  <2>2. /\ rows' = [rows EXCEPT ![j] = w] /\ rows[j].count <= w.count
        /\ Earned(w.severity, w.count)
    BY <1>1, <1>2, <1>4, <2>1
  <2> QED
    BY <2>2, RowChanges
<1>7. PICK p \in Cycle : p.pc # "escalate" /\ cycle' = [cycle EXCEPT ![r] = p]
  <2> DEFINE w == IF rest.todo = {} THEN Resting ELSE rest
  <2>1. w \in Cycle /\ w.pc # "escalate"
    BY <1>5, RestingType
  <2>2. cycle' = [cycle EXCEPT ![r] = w]
    BY <1>2 DEF Carry
  <2> HIDE DEF w
  <2> QED
    BY <2>1, <2>2
<1>8. DueOK(p)'
  BY <1>7 DEF DueOK
<1> QED
  BY <1>6, <1>7, <1>8, CycleMoves

\* Operators change the status of a row.
LEMMA OperatorInv ==
  ASSUME IncidentInv, NEW i \in DOMAIN rows, acknowledge(i) \/ resolve(i)
  PROVE  IncidentInv'
<1>1. PICK status \in {"acknowledged", "resolved"} :
        rows' = [rows EXCEPT ![i].status = status] /\ cycle' = cycle
  BY DEF acknowledge, resolve
<1> DEFINE row == [rows[i] EXCEPT !.status = status]
<1>2. rows \in Seq(Incident) /\ rows[i] \in Incident
  BY DEF IncidentInv
<1>3. row \in Incident /\ row.count = rows[i].count /\ row.severity = rows[i].severity
      /\ row.count \in Int
  BY <1>2 DEF Incident
<1>4. rows' = [rows EXCEPT ![i] = row]
  BY <1>1
<1> HIDE DEF row
<1>5. rows' \in Seq(Incident) /\ EscalationIsEarned' /\ \A x : DueOK(x) => DueOK(x)'
  <2>1. Earned(rows[i].severity, rows[i].count)
    BY DEF IncidentInv, EscalationIsEarned, Earned
  <2>2. PICK w \in Incident : w = row
    BY <1>3
  <2>3. rows' = [rows EXCEPT ![i] = w] /\ rows[i].count <= w.count /\ Earned(w.severity, w.count)
    BY <1>3, <1>4, <2>1, <2>2
  <2> QED
    BY <2>3, RowChanges
<1>6. ASSUME NEW r \in Replica PROVE DueOK(cycle[r])'
  <2>1. PICK y : y = cycle[r]
    OBVIOUS
  <2>2. DueOK(y)'
    BY <1>5, <2>1 DEF IncidentInv
  <2> QED
    BY <1>1, <2>1, <2>2 DEF DueOK
<1> QED
  BY <1>1, <1>5, <1>6 DEF IncidentInv

LEMMA IncidentNextInv == IncidentInv /\ [IncidentNext]_incidentVars => IncidentInv'
<1> SUFFICES ASSUME IncidentInv, [IncidentNext]_incidentVars PROVE IncidentInv'
  OBVIOUS
<1>1. CASE UNCHANGED <<rows, cycle>>
  BY <1>1 DEF IncidentInv, EscalationIsEarned, DueOK
<1>2. ASSUME NEW r \in Replica, syncIncidents(r) \/ monitorProviderReliability(r) PROVE IncidentInv'
  <2>1. rows' = rows /\ rows' \in Seq(Incident) /\ EscalationIsEarned'
        /\ \A x : DueOK(x) => DueOK(x)'
    BY <1>2 DEF syncIncidents, monitorProviderReliability, IncidentInv, EscalationIsEarned, DueOK
  <2>2. PICK p \in Cycle : p.pc # "escalate" /\ cycle' = [cycle EXCEPT ![r] = p]
    <3>1. CASE monitorProviderReliability(r)
      BY <3>1, RestingType DEF monitorProviderReliability
    <3>2. CASE syncIncidents(r)
      <4>1. PICK read \in {Watched} \cup {Watched \ {p} : p \in Watched} :
              cycle' = [cycle EXCEPT ![r] =
                          [Resting EXCEPT !.pc = "record", !.todo = computeStaleness(read)]]
        BY <3>2 DEF syncIncidents
      <4>2. computeStaleness(read) \subseteq Subject
        BY DEF computeStaleness, Subject
      <4> DEFINE w == [Resting EXCEPT !.pc = "record", !.todo = computeStaleness(read)]
      <4>3. w \in Cycle /\ w.pc = "record"
        BY <4>2, RestingType DEF Cycle
      <4> HIDE DEF w
      <4> QED
        BY <4>1, <4>3 DEF w
    <3> QED
      BY <1>2, <3>1, <3>2
  <2>3. DueOK(p)'
    BY <2>2 DEF DueOK
  <2> QED
    BY <2>1, <2>2, <2>3, CycleMoves
<1>3. ASSUME NEW p \in Watched, NEW v \in Provider, ReportVerified(p, v) PROVE UNCHANGED <<rows, cycle>>
  BY <1>3 DEF ReportVerified
<1> QED
  BY <1>1, <1>2, <1>3, RecordInv, EscalateInv, OperatorInv
  DEF IncidentNext, MonitorStep, TimePasses, incidentVars

\* However the second statement of recordDetection is delayed, past a
\* resolution and a recurrence even, it marks no incident that was not seen
\* often enough, as long as the thresholds do not take an escalation back.
THEOREM EscalationsEarned == IncidentSpec => []EscalationIsEarned
<1>1. IncidentInit => IncidentInv
  <2> SUFFICES ASSUME IncidentInit PROVE IncidentInv
    OBVIOUS
  <2>1. rows = <<>> /\ cycle = [r \in Replica |-> Resting]
    BY DEF IncidentInit
  <2>2. rows \in Seq(Incident) /\ DOMAIN rows = {}
    BY <2>1
  <2> QED
    BY <2>1, <2>2, RestingType DEF IncidentInv, EscalationIsEarned, DueOK
<1>2. IncidentInv => EscalationIsEarned
  BY DEF IncidentInv
<1> QED
  BY <1>1, <1>2, IncidentNextInv, PTL DEF IncidentSpec
=============================================================================
