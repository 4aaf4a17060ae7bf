----------------------------- MODULE DexRouter -----------------------------
(***************************************************************************)
(* The DEXRouter contract (contracts/dex-router/src/lib.rs): the secondary *)
(* market, composed with the BondIssuer whose balances it reads and whose  *)
(* transfer it calls.                                                      *)
(*                                                                         *)
(* Orders are 1..Len(orders).  Listing keeps the tokens with the seller    *)
(* and counts them in an escrow ledger.  SellerOrders and BondOrders are   *)
(* indexes of orders and are not state of their own here.                  *)
(***************************************************************************)
EXTENDS BondIssuer

CONSTANTS
  Asset,            \* quote asset symbols
  Price,            \* the prices offered to calls
  Lifetime,         \* the values of expires_after_seconds offered
  Limit,            \* the batch limits offered to clean_expired_orders
  MAX_CLEAN_BATCH,
  MaxOrders         \* bound: orders listed

ASSUME DexAssumption ==
  /\ Price \subseteq I128
  /\ Lifetime \subseteq Nat /\ Limit \subseteq Nat
  /\ MAX_CLEAN_BATCH \in Nat \ {0} /\ MaxOrders \in Nat

VARIABLES
  dexAdmin,   \* DataKey::Admin
  dexNonce,   \* DataKey::Nonce(address), of the router
  orders,     \* DataKey::Order(id), id \in 1..OrderCount
  quote,      \* DataKey::Balance(asset, address)
  escrow      \* DataKey::BondEscrow(bond, address)

dexVars == <<dexAdmin, dexNonce, orders, quote, escrow>>
marketVars == <<vars, dexVars>>

OrderStatus == {"Open", "PartiallyFilled", "Filled", "Cancelled", "Expired"}

Order == [seller : Address, bond_id : BondId, amount : Nat, price_per_token : Nat,
          quote_asset : Asset, status : OrderStatus, expires_at : Nat]

OrderId == DOMAIN orders

DexInit ==
  /\ dexAdmin \in Address
  /\ dexNonce = [a \in Address |-> 0]
  /\ orders = << >>
  /\ quote = [q \in Asset |-> [a \in Address |-> 0]]
  /\ escrow = [b \in BondId |-> [a \in Address |-> 0]]
-----------------------------------------------------------------------------
use_nonce(addr, n) ==
  /\ n = dexNonce[addr]
  /\ n < MaxNonce
  /\ dexNonce' = [dexNonce EXCEPT ![addr] = n + 1]

\* Open or partially filled: the statuses that can still be bought,
\* cancelled or expired.
IsOpen(order) == order.status \in {"Open", "PartiallyFilled"}

is_order_expired(order) == now >= order.expires_at

verify_holder_balance(holder, b, required) == holderBalance[b][holder] >= required

dex_set_admin(current_admin, new_admin) ==
  /\ current_admin = dexAdmin
  /\ dexAdmin' = new_admin
  /\ UNCHANGED <<vars, dexNonce, orders, quote, escrow>>

list_bond_tokens(seller, b, amount, price, asset, lifetime, n) ==
  /\ use_nonce(seller, n)
  /\ amount > 0 /\ price > 0
  /\ lifetime # 0
  /\ verify_holder_balance(seller, b, amount)
  /\ escrow[b][seller] + amount <= I128Max
  /\ Len(orders) < MaxOrders
  /\ escrow' = [escrow EXCEPT ![b][seller] = @ + amount]
  /\ orders' = Append(orders,
       [seller |-> seller, bond_id |-> b, amount |-> amount, price_per_token |-> price,
        quote_asset |-> asset, status |-> "Open", expires_at |-> now + lifetime])
  /\ UNCHANGED <<vars, dexAdmin, quote>>

cancel_listing(caller, id, n) ==
  /\ use_nonce(caller, n)
  /\ id \in OrderId
  /\ caller = orders[id].seller
  /\ IsOpen(orders[id])
  /\ escrow' = [escrow EXCEPT ![orders[id].bond_id][caller] = @ - orders[id].amount]
  /\ orders' = [orders EXCEPT ![id].status = "Cancelled"]
  /\ UNCHANGED <<vars, dexAdmin, quote>>

\* The order after amount of it was bought: a complete fill keeps the amount.
Filled_KeepsRemainder(order, amount) ==
  IF amount = order.amount
  THEN [order EXCEPT !.status = "Filled"]
  ELSE [order EXCEPT !.status = "PartiallyFilled"]

Filled(order, amount) ==
  IF amount = order.amount
  THEN [order EXCEPT !.status = "Filled"]
  ELSE [order EXCEPT !.status = "PartiallyFilled", !.amount = @ - amount]

PayQuote_BuyerNotDebited(asset, buyer, seller, proceeds) ==
  quote' = [quote EXCEPT ![asset][seller] = @ + proceeds]

PayQuote(asset, buyer, seller, proceeds) ==
  quote' = [quote EXCEPT ![asset][buyer] = @ - proceeds,
                         ![asset][seller] = @ + proceeds]

\* Payment, delivery through BondIssuer.transfer with the seller's own nonce
\* there, release of the escrow and the new order, in one transaction.
execute_purchase(buyer, id, max_price, amount, n) ==
  /\ use_nonce(buyer, n)
  /\ id \in OrderId
  /\ LET order    == orders[id]
         proceeds == amount * order.price_per_token
     IN  /\ IsOpen(order)
         /\ buyer # order.seller
         /\ ~is_order_expired(order)
         /\ amount > 0
         /\ amount <= order.amount
         /\ max_price >= order.price_per_token
         /\ escrow[order.bond_id][order.seller] >= amount
         /\ proceeds <= I128Max
         /\ quote[order.quote_asset][buyer] >= proceeds
         /\ quote[order.quote_asset][order.seller] + proceeds <= I128Max
         /\ PayQuote(order.quote_asset, buyer, order.seller, proceeds)
         /\ Transferred(order.seller, buyer, order.bond_id, amount, nonce[order.seller])
         /\ escrow' = [escrow EXCEPT ![order.bond_id][order.seller] = @ - amount]
         /\ orders' = [orders EXCEPT ![id] = Filled(order, amount)]
  /\ UNCHANGED <<now, project, dexAdmin>>

deposit_quote(caller, asset, amount, n) ==
  /\ use_nonce(caller, n)
  /\ amount > 0
  /\ quote[asset][caller] + amount <= I128Max
  /\ quote' = [quote EXCEPT ![asset][caller] = @ + amount]
  /\ UNCHANGED <<vars, dexAdmin, orders, escrow>>

HasQuote(asset, caller, amount) == quote[asset][caller] >= amount

withdraw_quote(caller, asset, amount, n) ==
  /\ use_nonce(caller, n)
  /\ amount > 0
  /\ HasQuote(asset, caller, amount)
  /\ quote' = [quote EXCEPT ![asset][caller] = @ - amount]
  /\ UNCHANGED <<vars, dexAdmin, orders, escrow>>

\* The ids that one sweep from start_id looks at, none when it starts past
\* the last order, and where the next sweep should start: 0 when the last
\* order was reached.
SweepWindow(start_id, limit) ==
  LET start == IF start_id = 0 THEN 1 ELSE start_id
      batch == IF limit > MAX_CLEAN_BATCH THEN MAX_CLEAN_BATCH ELSE limit
  IN  {id \in OrderId : start <= id /\ id < start + batch}

next_start_id(start_id, limit) ==
  LET window == SweepWindow(start_id, limit)
  IN  IF window = {} \/ Len(orders) \in window THEN 0
      ELSE CHOOSE id \in OrderId : id \notin window /\ id - 1 \in window

mark_order_expired(order) == [order EXCEPT !.status = "Expired"]

\* What a sweep does to the book.  The escrow of an order that expires stays.
SweepOrders(start_id, limit) ==
  orders' = [id \in OrderId |->
               IF /\ id \in SweepWindow(start_id, limit)
                  /\ IsOpen(orders[id])
                  /\ is_order_expired(orders[id])
               THEN mark_order_expired(orders[id]) ELSE orders[id]]

clean_expired_orders(caller, start_id, limit, n) ==
  /\ use_nonce(caller, n)
  /\ caller = dexAdmin
  /\ limit # 0
  /\ SweepOrders(start_id, limit)
  /\ UNCHANGED <<vars, dexAdmin, quote, escrow>>
-----------------------------------------------------------------------------
\* The calls of the router that an account can make.
DexCall(a, n) ==
  \/ \E b \in BondId, amount \in Amount, price \in Price, asset \in Asset, l \in Lifetime :
       list_bond_tokens(a, b, amount, price, asset, l, n)
  \/ \E id \in OrderId : cancel_listing(a, id, n)
  \/ \E id \in OrderId, price \in Price, amount \in Amount :
       execute_purchase(a, id, price, amount, n)
  \/ \E asset \in Asset, amount \in Amount :
       deposit_quote(a, asset, amount, n) \/ withdraw_quote(a, asset, amount, n)
  \/ \E start \in 0..MaxOrders + 1, limit \in Limit : clean_expired_orders(a, start, limit, n)

DexNext == \/ \E a \in Address, n \in 0..MaxNonce : DexCall(a, n)
           \/ \E a, c \in Address : dex_set_admin(a, c)
           \/ Next /\ UNCHANGED dexVars

DexSpec == Init /\ DexInit /\ [][DexNext]_marketVars
-----------------------------------------------------------------------------
(***************************************************************************)
(* Properties                                                              *)
(***************************************************************************)
\* What order id still holds of the tokens that s put in escrow for bond b:
\* cancelled and filled orders nothing, an expired one what was left of it.
Listed(id, b, s) ==
  IF /\ orders[id].seller = s /\ orders[id].bond_id = b
     /\ orders[id].status \in {"Open", "PartiallyFilled", "Expired"}
  THEN orders[id].amount ELSE 0

\* The escrow counter of a seller is exactly what the seller's orders hold,
\* through any mix of listings, partial fills, cancellations and sweeps; so
\* no open order is refused for lack of escrow and no release goes below 0.
EscrowMatchesOrders ==
  \A b \in BondId, s \in Address :
    escrow[b][s] = Tally([id \in OrderId |-> Listed(id, b, s)])

\* Trading neither mints nor burns quote assets, and a seller is paid the
\* listed price for every token that leaves the order book to a buyer
\* (execute_purchase: payment, delivery and the book move together).
DeliveryAgainstPayment ==
  [][\A id \in OrderId : LET order == orders[id] IN
       (orders'[id].amount # order.amount \/ orders'[id].status = "Filled") /\ orders'[id] # order =>
         LET sold == IF orders'[id].status = "Filled"
                     THEN order.amount ELSE order.amount - orders'[id].amount
             asset == order.quote_asset
         IN  /\ Tally(quote'[asset]) = Tally(quote[asset])
             /\ quote'[asset][order.seller] =
                  quote[asset][order.seller] + sold * order.price_per_token
             /\ holderBalance'[order.bond_id][order.seller] =
                  holderBalance[order.bond_id][order.seller] - sold]_marketVars
=============================================================================
