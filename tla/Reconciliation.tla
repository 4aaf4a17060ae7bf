--------------------------- MODULE Reconciliation ---------------------------
(***************************************************************************)
(* The job that compares the marketplace as Redis shows it with the ledger *)
(* (dex.reconciliation.service.ts), its schedule, and the operator's       *)
(* repair, next to the traffic that changes both.  The job reads the       *)
(* ledger and Redis one after the other and nothing keeps them still.      *)
(*                                                                         *)
(* One wallet and one asset are sampled; a balance is known by its         *)
(* version, since no two of them need be equal.                            *)
(***************************************************************************)
EXTENDS Integers, FiniteSets

CONSTANTS
  TradeId,      \* order ids
  MaxBalances,  \* bound: changes of the balance
  IndexTtl,     \* 86400 seconds of quote:balance:*, in ticks
  ViewTtl       \* of orders:* and order:*, in ticks

ASSUME ReconAssumption ==
  MaxBalances \in Nat /\ IndexTtl \in Nat \ {0} /\ ViewTtl \in Nat \ {0}

VARIABLES
  balance,   \* get_quote_balance of the wallet
  book,      \* get_order: status of every order
  index,     \* Redis quote:balance:<wallet>:<asset>
  listed,    \* Redis orders:all:Open:1:200
  shown,     \* Redis order:<id>
  recon,     \* the run in progress
  report     \* Redis dex:recon:last: the mismatches of the last run

reconVars == <<balance, book, index, listed, shown, recon, report>>

Status == {"Open", "PartiallyFilled", "Closed"}
isOpenState(s) == s \in {"Open", "PartiallyFilled"}

NoIndex == [val |-> 0, left |-> 0]
NoList == [ids |-> {}, left |-> 0]
NoView == [status |-> "Closed", left |-> 0]
NoJob == [pc |-> "off", onChain |-> 0, open |-> {}, todo |-> {}, id |-> 0, status |-> "Closed", found |-> {}]

ReconInit ==
  /\ balance = 1 /\ book \in [TradeId -> {"Open", "Closed"}]
  /\ index = NoIndex /\ listed = NoList /\ shown = [o \in TradeId |-> NoView]
  /\ recon = NoJob /\ report = {}
-----------------------------------------------------------------------------
(* Traffic. *)

\* A deposit or a withdrawal is applied, or a purchase, which moves balances
\* and leaves the index alone.
BalanceChanges == /\ balance < MaxBalances /\ balance' = balance + 1
                  /\ UNCHANGED <<book, index, listed, shown, recon, report>>

\* invalidateQuoteBalanceIndex, when a deposit or a withdrawal was sent.
invalidateQuoteBalanceIndex == /\ index.left > 0 /\ index' = NoIndex
                               /\ UNCHANGED <<balance, book, listed, shown, recon, report>>

\* An order is filled in part, or filled, cancelled or expired.
OrderMoves(o) == /\ \/ book[o] = "Open" /\ book' = [book EXCEPT ![o] = "PartiallyFilled"]
                    \/ isOpenState(book[o]) /\ book' = [book EXCEPT ![o] = "Closed"]
                 /\ UNCHANGED <<balance, index, listed, shown, recon, report>>

\* Somebody reads an order, or the list, through the cache.
Visited(o) == IF shown[o].left > 0 THEN shown[o] ELSE [status |-> book[o], left |-> ViewTtl]
Listing == IF listed.left > 0 THEN listed ELSE [ids |-> {o \in TradeId : book[o] = "Open"}, left |-> ViewTtl]
Visit(o) == /\ shown' = [shown EXCEPT ![o] = Visited(o)]
            /\ UNCHANGED <<balance, book, index, listed, recon, report>>

\* What was cached expires.
Expires == /\ index' = IF index.left > 1 THEN [index EXCEPT !.left = @ - 1] ELSE NoIndex
           /\ listed' = IF listed.left > 1 THEN [listed EXCEPT !.left = @ - 1] ELSE NoList
           /\ shown' = [o \in TradeId |-> IF shown[o].left > 1 THEN [shown[o] EXCEPT !.left = @ - 1] ELSE NoView]
           /\ UNCHANGED <<balance, book, recon, report>>
-----------------------------------------------------------------------------
(* The run: balances, open orders, then the whole book. *)

\* The cron fires, or an operator asks: resolveWallets lists the open orders
\* for their sellers, and the on-chain balance is read.
runReconciliation == /\ recon.pc = "off"
                     /\ recon' = [NoJob EXCEPT !.pc = "index", !.onChain = balance]
                     /\ listed' = Listing
                     /\ UNCHANGED <<balance, book, index, shown, report>>

Diverges_Older(indexed, onChain) == indexed < onChain - 1
Diverges(indexed, onChain) == indexed # onChain

\* The index is read, and seeded if there is no entry.
compareBalance ==
  /\ recon.pc = "index"
  /\ IF index.left = 0
     THEN /\ index' = [val |-> recon.onChain, left |-> IndexTtl]
          /\ recon' = [recon EXCEPT !.pc = "list"]
     ELSE /\ recon' = [recon EXCEPT !.pc = "list",
                       !.found = IF Diverges(index.val, recon.onChain)
                                 THEN {[type |-> "balance_mismatch", id |-> 0, observed |-> index.val]}
                                 ELSE {}]
          /\ UNCHANGED index
  /\ UNCHANGED <<balance, book, listed, shown, report>>

\* listOrders with status Open, cached.
listOpenOrders ==
  /\ recon.pc = "list"
  /\ listed' = Listing
  /\ recon' = [recon EXCEPT !.pc = "fetch", !.open = Listing.ids, !.todo = Listing.ids]
  /\ UNCHANGED <<balance, book, index, shown, report>>

\* The next order of the list, from the ledger; after the last one the walk
\* begins.
fetchOrder ==
  LET id == CHOOSE o \in recon.todo : \A p \in recon.todo : o <= p IN
  /\ recon.pc = "fetch"
  /\ recon' = IF recon.todo = {} THEN [recon EXCEPT !.pc = "walk", !.id = 1]
              ELSE [recon EXCEPT !.pc = "view", !.id = id, !.todo = @ \ {id}, !.status = book[id]]
  /\ UNCHANGED <<balance, book, index, listed, shown, report>>

\* Open orders that the list does not have.
walkBook ==
  /\ recon.pc = "walk"
  /\ recon' = IF recon.id \notin TradeId THEN [recon EXCEPT !.pc = "persist"]
              ELSE [recon EXCEPT !.id = @ + 1, !.found = @ \cup
                      (IF isOpenState(book[recon.id]) /\ recon.id \notin recon.open
                       THEN {[type |-> "missing_order", id |-> recon.id, observed |-> 0]} ELSE {})]
  /\ UNCHANGED <<balance, book, index, listed, shown, report>>

StaleView(indexed, onChain) == isOpenState(indexed) /\ ~isOpenState(onChain)

\* The same order through the cache; and the seller's quote balance, which
\* need not cover the order, so the escrow mismatch may be reported or not.
compareOrder ==
  LET v == Visited(recon.id) IN
  /\ recon.pc = "view"
  /\ shown' = [shown EXCEPT ![recon.id] = v]
  /\ \E short \in BOOLEAN :
       recon' = [recon EXCEPT !.pc = "fetch", !.id = 0, !.status = "Closed", !.found = @ \cup
         (IF StaleView(v.status, recon.status)
          THEN {[type |-> "stale_order_cache", id |-> recon.id, observed |-> 0]} ELSE {}) \cup
         (IF short THEN {[type |-> "order_escrow_invariant", id |-> recon.id, observed |-> 0]} ELSE {})]
  /\ UNCHANGED <<balance, book, index, listed, report>>

persistReport ==
  /\ recon.pc = "persist"
  /\ report' = recon.found
  /\ recon' = NoJob
  /\ UNCHANGED <<balance, book, index, listed, shown>>

\* An operator repairs what the last report names, mismatch by mismatch; a
\* balance is written and evicted, so an old report does no harm.
repair ==
  LET types == {m.type : m \in report}
      stale == {m.id : m \in {n \in report : n.type = "stale_order_cache"}} IN
  /\ report # {}
  /\ index' = IF "balance_mismatch" \in types THEN NoIndex ELSE index
  /\ shown' = [o \in TradeId |-> IF o \in stale THEN NoView ELSE shown[o]]
  /\ listed' = IF types \ {"balance_mismatch"} # {} THEN NoList ELSE listed
  /\ UNCHANGED <<balance, book, recon, report>>
-----------------------------------------------------------------------------
ReconJob == runReconciliation \/ compareBalance \/ listOpenOrders \/ fetchOrder \/ compareOrder
            \/ walkBook \/ persistReport

ReconNext == \/ BalanceChanges \/ invalidateQuoteBalanceIndex \/ Expires
             \/ \E o \in TradeId : OrderMoves(o) \/ Visit(o)
             \/ ReconJob \/ repair
-----------------------------------------------------------------------------
\* Nothing short of the index's expiry hides a divergence for good: while the
\* job keeps running, an index entry that is wrong is reported or replaced.
DivergenceIsReported ==
  (index.left > 0 /\ index.val # balance)
    ~> \/ index.left = 0 \/ index.val = balance
       \/ \E m \in report : m.type = "balance_mismatch" /\ m.observed = index.val
=============================================================================
