----------------------------- MODULE MarketPage -----------------------------
(***************************************************************************)
(* The marketplace in the browser: MarketplaceListComponent and the        *)
(* QuoteBalanceComponent next to it, over ApiService.                      *)
(*                                                                         *)
(* The user's wallet is connected.  Answers of different requests come in  *)
(* any order, and each tells of a moment since its request was sent.  The  *)
(* filter by status works like the one by bond and is left out.            *)
(***************************************************************************)
EXTENDS Integers, Sequences, SequencesExt, FiniteSets

CONSTANTS
  Order, BondOf, Price,   \* orders, the bond that each offers and its price
  NoOrder, AnyBond,
  Amount,                 \* amounts and prices that the user types
  MaxAmount,
  ORDERS_RETRY_COUNT,
  MaxBalanceCalls, MaxEvents   \* bounds: balance requests outstanding, changes on the server

ASSUME MarketAssumption ==
  /\ NoOrder \notin Order /\ AnyBond \notin {BondOf[o] : o \in Order}
  /\ {ORDERS_RETRY_COUNT, MaxAmount, MaxBalanceCalls, MaxEvents} \subseteq Nat

VARIABLES
  book, escrow,   \* on the server: the orders, and the user's escrowed quote
  events,         \* changes on the server so far
  filter,         \* filterBondId
  shown,          \* orders on the page and the filter they were asked with
  loading, error, \* signals of the list
  fetches,        \* requests for orders that are subscribed to
  form,           \* buyOrderId, the order whose buy form is open
  buy,            \* the purchase in progress
  cancelling,     \* cancellingOrderId
  balance,        \* the quote panel's balance, -1 until balancesLoaded
  balanceCalls    \* loadBalances requests, none of which is ever cancelled

serverVars == <<book, escrow, events>>
listVars == <<shown, loading, error, fetches>>
panelVars == <<balance, balanceCalls>>
actionVars == <<form, buy, cancelling>>
marketVars == <<serverVars, filter, listVars, actionVars, panelVars>>

Bond == {BondOf[o] : o \in Order}
Nothing == [bond |-> AnyBond, rows |-> <<>>]
NoBuy == [step |-> "none", order |-> NoOrder, amount |-> 0, max |-> 0]
Tradable == {"Open", "PartiallyFilled"}
Matches(o, bond) == bond = AnyBond \/ BondOf[o] = bond

\* The rows of the table that offer the buy form.
Offers(o) == o \in DOMAIN shown.rows /\ Matches(o, filter) /\ shown.rows[o].status \in Tradable
-----------------------------------------------------------------------------
(* The list. *)

Superseded_Kept(calls) == calls

\* switchMap drops the request before.
Superseded(calls) == <<>>

\* loadOrders and fetchOrders; a poll in the background shows no spinner.  The
\* request asks with the filter as it is once it is sent.
loadOrders(background, bond) ==
  /\ fetches' = Append(Superseded(fetches), [bond |-> bond, attempt |-> 0, rows |-> Nothing])
  /\ loading' = ~background /\ error' = FALSE /\ UNCHANGED shown

Listed(bond) == [bond |-> bond, rows |-> [o \in {x \in Order : Matches(x, bond)} |-> book[o]]]

getOrders(i) ==
  /\ fetches[i].rows = Nothing
  /\ fetches' = [fetches EXCEPT ![i].rows = Listed(fetches[i].bond)]
  /\ UNCHANGED <<serverVars, filter, shown, loading, error, actionVars, panelVars>>

OrdersArrive(i) ==
  /\ fetches[i].rows # Nothing
  /\ shown' = fetches[i].rows /\ loading' = FALSE
  /\ fetches' = RemoveAt(fetches, i)
  /\ UNCHANGED <<serverVars, filter, error, actionVars, panelVars>>

\* A transient failure is retried, with the filter of that moment.
OrdersFail(i, isTransientError) ==
  /\ IF isTransientError /\ fetches[i].attempt < ORDERS_RETRY_COUNT
     THEN /\ fetches' = [fetches EXCEPT ![i] = [bond |-> filter, attempt |-> @.attempt + 1, rows |-> Nothing]]
          /\ UNCHANGED <<loading, error>>
     ELSE /\ fetches' = RemoveAt(fetches, i)
          /\ loading' = FALSE /\ error' = TRUE
  /\ UNCHANGED <<serverVars, filter, shown, actionVars, panelVars>>

\* The timer, or the user's refresh.
Poll == /\ \E background \in BOOLEAN : loadOrders(background, filter)
        /\ UNCHANGED <<serverVars, filter, actionVars, panelVars>>

onFilterChange(bond) ==
  /\ filter' = bond /\ bond # filter /\ loadOrders(FALSE, bond)
  /\ UNCHANGED <<serverVars, actionVars, panelVars>>
-----------------------------------------------------------------------------
(* The quote panel. *)

loadBalances ==
  /\ Len(balanceCalls) < MaxBalanceCalls
  /\ balanceCalls' = Append(balanceCalls, -1) /\ UNCHANGED balance

getQuoteBalance(i) ==
  /\ balanceCalls[i] = -1
  /\ balanceCalls' = [balanceCalls EXCEPT ![i] = escrow]
  /\ UNCHANGED <<serverVars, filter, listVars, actionVars, balance>>

\* A balance that could not be read counts as none.
BalancesArrive(i) ==
  /\ balance' = IF balanceCalls[i] = -1 THEN 0 ELSE balanceCalls[i]
  /\ balanceCalls' = RemoveAt(balanceCalls, i)
  /\ UNCHANGED <<serverVars, filter, listVars, actionVars>>

\* onSubmit of the panel, from the request to the handler.
DepositOrWithdraw(amount) ==
  /\ events < MaxEvents /\ events' = events + 1
  /\ escrow + amount \in 0..MaxAmount /\ escrow' = escrow + amount
  /\ loadBalances
  /\ UNCHANGED <<book, filter, listVars, actionVars>>
-----------------------------------------------------------------------------
(* Buying and cancelling. *)

actionPending == buy.step # "none" \/ cancelling # NoOrder

\* Another form may be opened at any time.  The quotePanel field is never
\* assigned: opening the form and buying do not load the balances again.
openBuy(o) ==
  /\ Offers(o) /\ o # form
  /\ form' = o
  /\ UNCHANGED <<serverVars, filter, listVars, buy, cancelling, panelVars>>

canConfirm(amount) == balance = -1 \/ amount * Price[form] <= balance

onBuy(amount, max) ==
  /\ form # NoOrder /\ Offers(form)
  /\ ~actionPending /\ amount >= 1 /\ max > 0 /\ canConfirm(amount)
  /\ buy' = [step |-> "check", order |-> form, amount |-> amount, max |-> max]
  /\ UNCHANGED <<serverVars, filter, listVars, form, cancelling, panelVars>>

getOrder(o) == book[o]

\* The order is read again; the purchase is sent if it still fits.
Recheck ==
  LET current == getOrder(buy.order) IN
  /\ buy.step = "check"
  /\ shown' = IF buy.order \in DOMAIN shown.rows THEN [shown EXCEPT !.rows[buy.order] = current] ELSE shown
  /\ buy' = [buy EXCEPT !.step = IF /\ current.status \in Tradable /\ buy.amount <= current.amount
                                    /\ Price[buy.order] <= buy.max
                                 THEN "sent" ELSE "refused"]
  /\ UNCHANGED <<serverVars, filter, loading, error, fetches, form, cancelling, panelVars>>

\* buyBondTokens on the server: 409 if the order has changed since.
Purchase ==
  LET o == buy.order
      left == book[o].amount - buy.amount
      ok == book[o].status \in Tradable /\ left >= 0
      paid == buy.amount * Price[o] IN
  /\ buy.step = "sent"
  /\ IF ok /\ paid <= escrow
     THEN /\ book' = [book EXCEPT ![o] = [status |-> IF left = 0 THEN "Filled" ELSE "PartiallyFilled", amount |-> left]]
          /\ escrow' = escrow - paid
          /\ \E step \in {"bought", "refused"} : buy' = [buy EXCEPT !.step = step]
     ELSE /\ buy' = [buy EXCEPT !.step = IF ok THEN "refused" ELSE "conflict"]
          /\ UNCHANGED <<book, escrow>>
  /\ UNCHANGED <<events, filter, listVars, form, cancelling, panelVars>>

\* The handlers: the form that is open is closed if the purchase went through
\* or met a conflict, and the list is loaded again.
BuyEnds ==
  /\ buy.step \in {"bought", "refused", "conflict"}
  /\ buy' = NoBuy
  /\ form' = IF buy.step = "refused" THEN form ELSE NoOrder
  /\ loadOrders(FALSE, filter)
  /\ UNCHANGED <<serverVars, filter, cancelling, panelVars>>

cancelBuy == /\ form # NoOrder /\ form' = NoOrder
             /\ UNCHANGED <<serverVars, filter, listVars, buy, cancelling, panelVars>>

\* My orders, which the filter does not touch.
Cancellable(o) == o \in DOMAIN shown.rows /\ shown.rows[o].status \in Tradable

onCancel(o) ==
  /\ Cancellable(o) /\ ~actionPending
  /\ cancelling' = o
  /\ UNCHANGED <<serverVars, filter, listVars, form, buy, panelVars>>

\* cancelOrder, carried out or refused, and its handlers.
CancelEnds(done) ==
  /\ cancelling # NoOrder
  /\ done => book[cancelling].status \in Tradable
  /\ book' = IF done THEN [book EXCEPT ![cancelling].status = "Cancelled"] ELSE book
  /\ cancelling' = NoOrder /\ loadOrders(FALSE, filter)
  /\ UNCHANGED <<escrow, events, filter, form, buy, panelVars>>

\* Somebody else buys.
OtherBuys(o) ==
  /\ events < MaxEvents /\ events' = events + 1
  /\ book[o].status \in Tradable
  /\ book' = [book EXCEPT ![o] = [status |-> IF @.amount = 1 THEN "Filled" ELSE "PartiallyFilled",
                                  amount |-> @.amount - 1]]
  /\ UNCHANGED <<escrow, filter, listVars, actionVars, panelVars>>
-----------------------------------------------------------------------------
\* The panel asks twice: in ngOnInit and in the effect on the connection.
MarketInit ==
  /\ book = [o \in Order |-> [status |-> "Open", amount |-> MaxAmount]] /\ escrow = MaxAmount /\ events = 0
  /\ filter = AnyBond /\ shown = Nothing /\ loading = TRUE /\ error = FALSE
  /\ fetches = <<[bond |-> AnyBond, attempt |-> 0, rows |-> Nothing]>>
  /\ form = NoOrder /\ buy = NoBuy /\ cancelling = NoOrder /\ balance = -1 /\ balanceCalls = <<-1, -1>>

MarketNext ==
  \/ \E i \in DOMAIN fetches : getOrders(i) \/ OrdersArrive(i) \/ (\E t \in BOOLEAN : OrdersFail(i, t))
  \/ Poll
  \/ \E bond \in Bond \cup {AnyBond} : onFilterChange(bond)
  \/ \E i \in DOMAIN balanceCalls : getQuoteBalance(i) \/ BalancesArrive(i)
  \/ \E amount \in {-1, 1} : DepositOrWithdraw(amount)
  \/ \E o \in Order : openBuy(o) \/ onCancel(o) \/ OtherBuys(o)
  \/ \E amount, max \in Amount : onBuy(amount, max)
  \/ Recheck \/ Purchase \/ BuyEnds \/ cancelBuy
  \/ \E done \in BOOLEAN : CancelEnds(done)

MarketSpec == MarketInit /\ [][MarketNext]_marketVars
-----------------------------------------------------------------------------
(***************************************************************************)
(* Properties                                                              *)
(***************************************************************************)
\* What is listed is what was asked for: once no request is under way and the
\* last one did not fail, the orders on the page are those of the filter that
\* is chosen (fetchOrders), in spite of polls, retries and purchases.
ListMatchesFilter ==
  fetches = <<>> /\ ~error => /\ ~loading /\ shown.bond = filter
                              /\ \A o \in DOMAIN shown.rows : Matches(o, filter)
=============================================================================
