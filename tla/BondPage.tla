------------------------------ MODULE BondPage ------------------------------
(***************************************************************************)
(* A bond's page in the browser: BondDetailComponent, its reload           *)
(* coordinator and PendingTransactionsService, over ApiService.            *)
(*                                                                         *)
(* The bond is known by how often it has changed, and a transaction by the *)
(* change it makes.  The API answers with the state at some moment between *)
(* request and answer; answers of different requests come in any order.    *)
(* Messages, and the panels for claimable credits and coupon eligibility   *)
(* are left out.                                                           *)
(***************************************************************************)
EXTENDS Integers, Sequences, SequencesExt, FiniteSets

CONSTANTS
  Wallet, Nobody,
  Admin,         \* environment.adminAddress
  MaxVersion,    \* bound: changes of the bond
  MaxCalls,      \* bound: outstanding reloads
  MaxBusy,       \* bound: operations in progress
  MaxRefresh     \* bound: times the browser loads the page again

ASSUME PageAssumption == Nobody \notin Wallet /\ {MaxVersion, MaxCalls, MaxBusy, MaxRefresh} \subseteq Nat

VARIABLES
  served,       \* the bond as the API serves it
  chain,        \* what has become of each transaction
  wallet,       \* signed-in wallet
  secret,       \* AdminIntentService.hasSecret
  view,         \* signals of the component and its coordinator
  press,        \* per operation: its submitting flag and its request
  reloads,      \* detail requests that are subscribed to
  entries, polls, storage,   \* PendingTransactionsService and its localStorage key
  storageWorks, refreshes,
  own, acked    \* history: latest change the page was told of, and all of them ever

trackVars == <<entries, polls, storage>>
pageVars == <<served, chain, wallet, secret, view, press, reloads, trackVars,
              storageWorks, refreshes, own, acked>>

Operation == {"subscribe", "claim", "transfer", "sweep", "mature", "reconcile"}
AdminOperation == {"sweep", "mature", "reconcile"}

\* The answers to mature and reconcile carry no transaction hash, and register
\* ignores a missing one.
Tracked == Operation \ {"mature", "reconcile"}

None == [version |-> -1, matured |-> FALSE]
NoView == [detail |-> None, loading |-> TRUE, error |-> FALSE, prompt |-> FALSE]
NoPress == [submitting |-> FALSE, call |-> "none", version |-> 0]
Unread == None
Without(s, i) == RemoveAt(s, i)
-----------------------------------------------------------------------------
(* PendingTransactionsService. *)

\* localStorage may be unavailable, which goes unnoticed.
persist(shown) == storage' = IF storageWorks THEN shown ELSE storage

poll(h) == polls' = polls \cup {h}

register(h) ==
  LET shown == [x \in DOMAIN entries \cup {h} |-> IF x = h THEN "pending" ELSE entries[x]]
  IN entries' = shown /\ persist(shown) /\ poll(h)

updateStatus(h, status) ==
  LET shown == [entries EXCEPT ![h] = status]
  IN /\ entries' = shown /\ persist(shown)
     /\ polls' = IF status = "pending" THEN polls ELSE polls \ {h}

Resumed_None(shown) == {}

\* The constructor polls again for what was pending before the reload.
Resumed(shown) == {h \in DOMAIN shown : shown[h] = "pending"}

\* The RPC has seen the transaction succeed or fail, or not seen it yet.
getTransactionStatus(h) == chain[h]

\* An answer to a poll; a request that fails counts as a failed transaction.
StatusArrives(h) ==
  /\ h \in polls
  /\ \E status \in {getTransactionStatus(h), "failed"} : updateStatus(h, status)
  /\ UNCHANGED <<served, chain, wallet, secret, view, press, reloads,
                 storageWorks, refreshes, own, acked>>
-----------------------------------------------------------------------------
(* BondDetailReloadCoordinator. *)

Cancelled_Kept(calls) == calls

\* active.unsubscribe()
Cancelled(calls) == <<>>

reload(shown) ==
  /\ Len(Cancelled(reloads)) < MaxCalls
  /\ reloads' = Append(Cancelled(reloads), Unread)
  /\ view' = [shown EXCEPT !.loading = TRUE, !.error = FALSE]

getBondDetail(i) ==
  /\ reloads[i] = Unread
  /\ reloads' = [reloads EXCEPT ![i] = served]
  /\ UNCHANGED <<served, chain, wallet, secret, view, press, trackVars,
                 storageWorks, refreshes, own, acked>>

CommitDetail(i) ==
  /\ reloads[i] # Unread
  /\ view' = [view EXCEPT !.detail = reloads[i], !.loading = FALSE]
  /\ reloads' = Without(reloads, i)
  /\ UNCHANGED <<served, chain, wallet, secret, press, trackVars, storageWorks, refreshes, own, acked>>

FailDetail(i) ==
  /\ view' = [view EXCEPT !.error = TRUE, !.loading = FALSE]
  /\ reloads' = Without(reloads, i)
  /\ UNCHANGED <<served, chain, wallet, secret, press, trackVars,
                 storageWorks, refreshes, own, acked>>

-----------------------------------------------------------------------------
(* The component. *)

maturityReached == view.detail = None \/ view.detail.matured

isAdmin == wallet = Admin

\* A bond that has matured takes no subscription, transfer or maturation.
FrozenFor(op) == op \notin {"claim", "sweep"} /\ maturityReached

Offered(op) ==
  /\ view.detail # None /\ wallet # Nobody /\ ~press[op].submitting /\ ~FrozenFor(op)
  /\ op \in AdminOperation => isAdmin

\* An administrator's request needs a signature: without the secret the
\* request fails before it is sent, and the button is free again.
Submit(op, unlocked) ==
  press' = IF op \in AdminOperation /\ ~unlocked THEN press
           ELSE [press EXCEPT ![op] = [NoPress EXCEPT !.submitting = TRUE, !.call = "sent"]]

\* onSubscribe, onClaim, onTransfer, onMature, onReconcileHolders; onSweep
\* asks for the secret first.
Press(op) ==
  /\ Offered(op) /\ Cardinality({o \in Operation : press[o].call # "none"}) < MaxBusy
  /\ IF op = "sweep" /\ ~secret
     THEN view' = [view EXCEPT !.prompt = TRUE] /\ UNCHANGED press
     ELSE Submit(op, secret) /\ UNCHANGED view
  /\ UNCHANGED <<served, chain, wallet, secret, reloads, trackVars,
                 storageWorks, refreshes, own, acked>>

onSecretUnlocked ==
  /\ view.prompt /\ secret' = TRUE
  /\ view' = [view EXCEPT !.prompt = FALSE] /\ Submit("sweep", TRUE)
  /\ UNCHANGED <<served, chain, wallet, reloads, trackVars,
                 storageWorks, refreshes, own, acked>>

\* The API carries out a request; its answer may get lost.
Execute(op) ==
  LET v == served.version + 1 IN
  /\ press[op].call = "sent" /\ v <= MaxVersion
  /\ served' = [version |-> v, matured |-> served.matured \/ op = "mature"]
  /\ chain' = IF op \in Tracked THEN [chain EXCEPT ![v] = "pending"] ELSE chain
  /\ \E call \in {"done", "failed"} : press' = [press EXCEPT ![op].call = call, ![op].version = v]
  /\ UNCHANGED <<wallet, secret, view, reloads, trackVars, storageWorks, refreshes, own, acked>>

Refuse(op) ==
  /\ press[op].call = "sent" /\ press' = [press EXCEPT ![op].call = "failed"]
  /\ UNCHANGED <<served, chain, wallet, secret, view, reloads, trackVars,
                 storageWorks, refreshes, own, acked>>

\* next: a transaction is registered, and the page reloaded.  The flag of
\* onReconcileHolders is not taken back.
Succeeds(op) ==
  LET v == press[op].version IN
  /\ press[op].call = "done"
  /\ press' = [press EXCEPT ![op] = [NoPress EXCEPT !.submitting = (op = "reconcile")]]
  /\ IF op \in Tracked THEN register(v) /\ acked' = acked \cup {v} ELSE UNCHANGED <<trackVars, acked>>
  /\ reload(view)
  /\ own' = IF v > own THEN v ELSE own
  /\ UNCHANGED <<served, chain, wallet, secret, storageWorks, refreshes>>

Errs(op) ==
  /\ press[op].call = "failed" /\ press' = [press EXCEPT ![op] = NoPress]
  /\ UNCHANGED <<served, chain, wallet, secret, view, reloads, trackVars,
                 storageWorks, refreshes, own, acked>>

onRefresh ==
  /\ view.detail # None /\ reload(view)
  /\ UNCHANGED <<served, chain, wallet, secret, press, trackVars,
                 storageWorks, refreshes, own, acked>>

Connect(w) ==
  /\ wallet' = w /\ w # wallet
  /\ UNCHANGED <<served, chain, secret, view, press, reloads, trackVars,
                 storageWorks, refreshes, own, acked>>

\* The browser loads the page anew: ngOnInit, and nothing remembered but what
\* localStorage has.
Refresh ==
  /\ refreshes < MaxRefresh /\ refreshes' = refreshes + 1
  /\ view' = NoView /\ press' = [op \in Operation |-> NoPress] /\ secret' = FALSE
  /\ reloads' = <<Unread>>
  /\ entries' = storage /\ polls' = Resumed(storage) /\ own' = 0
  /\ UNCHANGED <<served, chain, wallet, storage, storageWorks, acked>>
-----------------------------------------------------------------------------
\* Others and the network.
Elsewhere ==
  /\ \/ /\ served.version < MaxVersion /\ served' = [served EXCEPT !.version = @ + 1]
        /\ UNCHANGED chain
     \/ /\ \E h \in DOMAIN chain, status \in {"confirmed", "failed"} :
             chain[h] = "pending" /\ chain' = [chain EXCEPT ![h] = status]
        /\ UNCHANGED served
  /\ UNCHANGED <<wallet, secret, view, press, reloads, trackVars, storageWorks, refreshes, own, acked>>

PageInit ==
  /\ served = [version |-> 0, matured |-> FALSE] /\ chain = [v \in 1..MaxVersion |-> "none"]
  /\ wallet = Nobody /\ secret = FALSE /\ view = NoView
  /\ press = [op \in Operation |-> NoPress] /\ reloads = <<Unread>>
  /\ entries = <<>> /\ polls = {} /\ storage = <<>> /\ storageWorks \in BOOLEAN
  /\ refreshes = 0 /\ own = 0 /\ acked = {}

PageNext ==
  \/ \E h \in polls : StatusArrives(h)
  \/ \E i \in DOMAIN reloads : getBondDetail(i) \/ CommitDetail(i) \/ FailDetail(i)
  \/ \E op \in Operation : Press(op) \/ Execute(op) \/ Refuse(op) \/ Succeeds(op) \/ Errs(op)
  \/ onSecretUnlocked \/ onRefresh \/ Refresh \/ Elsewhere
  \/ \E w \in Wallet \cup {Nobody} : Connect(w)

PageSpec == PageInit /\ [][PageNext]_pageVars
-----------------------------------------------------------------------------
(***************************************************************************)
(* Properties                                                              *)
(***************************************************************************)
\* No page from before one's own change: once the page has been told that an
\* operation went through, a finished reload never shows the bond as it was
\* before, whichever reload was under way at the time (the coordinator's
\* active subscription).
RefreshShowsOwnChange ==
  view.detail # None /\ ~view.loading /\ ~view.error => view.detail.version >= own

\* Every transaction the user was told of is listed, over reloads of the page
\* if localStorage works, and one that is shown as pending is being polled.
TransactionsAreFollowed ==
  /\ storageWorks => acked \subseteq DOMAIN entries
  /\ \A h \in DOMAIN entries : entries[h] = "pending" => h \in polls
=============================================================================
