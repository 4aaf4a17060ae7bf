--------------------------- MODULE ServiceCaches ---------------------------
(***************************************************************************)
(* The API services that stand between HTTP and the contracts:             *)
(* BondsService, ProjectsService, DexService, LiquidityService,            *)
(* PortfolioService and OracleService's providers with their Redis caches, *)
(* over ContractService, StellarService and NonceService.  Requests run    *)
(* side by side; a transaction that was sent is applied later, or never.   *)
(*                                                                         *)
(* The ledger is the history of what it held, one version per change; a    *)
(* cached answer is known by the version it shows.  There is one order,    *)
(* with price 1 and one seller, and one quote balance.                     *)
(***************************************************************************)
EXTENDS Integers, Sequences, FiniteSets, FiniteSetsExt

CONSTANTS
  Request,      \* requests that can be in progress at once
  Caller,       \* wallets
  Seller,       \* the wallet that lists
  Owner,        \* the wallet whose portfolio is read
  Ttl,          \* seconds a cached answer is kept, by key, in ticks of 30
  AccountTtl,   \* CACHE_TTL_MS of StellarService
  TxLife,       \* setTimeout of a transaction
  Scene,        \* what the clients of a behaviour do: a set of [keys, ops, callers]
  MaxAmount,    \* bound: tokens of the order, and the quote balance
  MaxVersions,  \* bound: ledger changes
  MaxTx,        \* bound: transactions applied per signing account
  MaxAge        \* bound: ages are counted up to here

Key == {"order", "orders", "pricefeed", "bond", "bonds", "portfolio",
        "project", "projects", "providers"}
Signers == {"admin", "investor", "user"}   \* SigningKeyProvider

ASSUME ServiceAssumption ==
  /\ {Seller, Owner} \subseteq Caller
  /\ Ttl \in [Key -> Nat \ {0}] /\ {AccountTtl, TxLife} \subseteq Nat \ {0}
  /\ {MaxAmount, MaxVersions, MaxTx, MaxAge} \subseteq Nat \ {0}
  /\ \A s \in Scene : s.callers \subseteq Caller

VARIABLES
  scene,     \* the clients' choice
  ledger,    \* every state of the order and the buyer's escrow so far
  age,       \* per version: ticks since it was replaced, see Tick
  cache,     \* Redis, per key
  req,       \* requests in progress
  sequence,  \* sequence number of each signing account on the ledger
  known,     \* StellarService.accountCache
  quiet,     \* ticks since sequence last moved
  pool,      \* transactions the network has accepted and not applied
  counter,   \* Redis nonce:<contract>:<address>
  nonces     \* the contracts' nonces

svcVars == <<scene, ledger, age, cache, req, sequence, known, quiet, pool, counter, nonces>>

Absent == [ver |-> 0, left |-> 0]
NoRequest == [pc |-> "none", op |-> "none", caller |-> Seller, amount |-> 0, max |-> 0,
              view |-> 0, got |-> 0, todo |-> <<>>, nonce |-> 0, seq |-> 0, life |-> 0, error |-> 0]

Now == Len(ledger)
Held(v) == \E r \in Request : req[r].pc # "none" /\ v \in {req[r].view, req[r].got}

SvcInit ==
  /\ scene \in Scene
  /\ ledger \in {<<[status |-> "none", amount |-> 0, escrow |-> MaxAmount]>>,
                  <<[status |-> "open", amount |-> MaxAmount, escrow |-> 1]>>}
  /\ age = [v \in 1..MaxVersions |-> 0]
  /\ cache = [k \in Key |-> Absent]
  /\ req = [r \in Request |-> NoRequest]
  /\ sequence = [s \in Signers |-> 0] /\ known = [s \in Signers |-> [seq |-> 0, left |-> 0]]
  /\ quiet = [s \in Signers |-> AccountTtl + TxLife] /\ pool = {}
  /\ counter = [c \in Caller |-> 0] /\ nonces = [c \in Caller |-> 0]
-----------------------------------------------------------------------------
(* A contract's refusal on its way to an HTTP client: the error numbers of   *)
(* contracts/shared/src/errors.rs, ContractService's table of stable names   *)
(* (contract-errors.ts), and the services' own reading of the numbers.       *)

\* errors.rs: an error's number is its place.
DEXError ==
  <<"NotInitialized", "Unauthorized", "InvalidNonce", "OrderNotFound", "OrderAlreadyFilled",
    "InsufficientBalance", "SelfBuyNotAllowed", "OrderExpired", "ZeroAmount", "InsufficientFunds", "Overflow">>
Number(name) == CHOOSE i \in DOMAIN DEXError : DEXError[i] = name

\* The API's table.  Two errors of BondError, 13 and 14, are not in it.
ERROR_MAPPINGS ==
  [BOND |-> <<"NOT_INITIALIZED", "UNAUTHORIZED", "INVALID_NONCE", "NOT_FOUND", "ALREADY_MATURED",
              "INSUFFICIENT_SUPPLY", "ZERO_AMOUNT", "PROJECT_NOT_APPROVED", "OVERFLOW",
              "REPORT_NOT_VERIFIED", "INVALID_REPORT", "INVALID_SUPPLY">>,
   ORACLE |-> <<"NOT_INITIALIZED", "UNAUTHORIZED", "INVALID_NONCE", "PROVIDER_NOT_FOUND",
                "PROVIDER_ALREADY_EXISTS", "REPORT_NOT_FOUND", "REPORT_ALREADY_VERIFIED",
                "CHALLENGE_WINDOW_EXPIRED", "INSUFFICIENT_STAKE", "INVALID_SIGNATURE",
                "INVALID_RESOLUTION", "OVERLAPPING_REPORT_PERIOD">>,
   DEX |-> <<"NOT_INITIALIZED", "UNAUTHORIZED", "INVALID_NONCE", "ORDER_NOT_FOUND",
             "ORDER_ALREADY_FILLED", "INSUFFICIENT_BALANCE", "SELF_BUY_NOT_ALLOWED", "ORDER_EXPIRED",
             "ZERO_AMOUNT", "INSUFFICIENT_FUNDS", "OVERFLOW">>,
   REGISTRY |-> <<"NOT_INITIALIZED", "UNAUTHORIZED", "PROJECT_NOT_FOUND", "PROJECT_ALREADY_EXISTS",
                  "INVALID_STATUS_TRANSITION", "INVALID_NONCE", "INVALID_ARGUMENT">>,
   CREDIT |-> <<"NOT_INITIALIZED", "UNAUTHORIZED", "INSUFFICIENT_CREDITS", "ALREADY_RETIRED",
                "INVALID_NONCE", "NOT_A_HOLDER", "INVALID_CERTIFICATE", "INVALID_CREDIT_TYPE">>,
   GOVERNANCE |-> <<"NOT_INITIALIZED", "UNAUTHORIZED", "INVALID_NONCE", "NOT_SIGNER",
                    "PROPOSAL_NOT_FOUND", "ALREADY_VOTED", "NOT_PENDING", "TIMELOCK_NOT_ELAPSED",
                    "NOT_QUEUED", "ALREADY_EXECUTED">>]

getContractCategory(contract) ==
  CASE contract \in {"bondIssuer", "couponEngine"} -> "BOND"
    [] contract = "oracleConsumer" -> "ORACLE"
    [] contract = "dexRouter" -> "DEX"
    [] contract = "projectRegistry" -> "REGISTRY"
    [] contract = "creditRetirement" -> "CREDIT"
    [] OTHER -> "UNKNOWN"

mapErrorCodeToStable(category, code) ==
  IF category \in DOMAIN ERROR_MAPPINGS /\ code \in DOMAIN ERROR_MAPPINGS[category]
  THEN <<category, ERROR_MAPPINGS[category][code]>> ELSE <<"UNKNOWN_CONTRACT_ERROR">>

\* The number in a refusal's text or events; 0 where there is none.
extractContractErrorCode(name) == IF \E i \in DOMAIN DEXError : DEXError[i] = name THEN Number(name) ELSE 0

ContractException(contract, code) ==
  [name |-> mapErrorCodeToStable(getContractCategory(contract), code), rawErrorCode |-> code]

DEX_ERROR_CODE_Swapped == [InsufficientFunds |-> 6, InsufficientBalance |-> 10]

DEX_ERROR_CODE == [InsufficientFunds |-> 10, InsufficientBalance |-> 6]

\* What the services answer.  ContractService throws nothing that is not a
\* ContractException, or a BadRequestException without a number.
mapDexError(error) == IF error.rawErrorCode = DEX_ERROR_CODE.InsufficientFunds THEN 402 ELSE 400
mapBondError(error) == 400
-----------------------------------------------------------------------------
(* Reads. *)

setEx_NoExpiry(k, v) == [ver |-> v, left |-> 9 * Ttl[k]]

setEx(k, v) == [ver |-> v, left |-> Ttl[k]]

Hit(k) == cache[k].left > 0

\* What a view is put together from: the price feed from a list of orders, a
\* portfolio from the list and, through findOne, from the bonds held.
Parts(k) == CASE k = "pricefeed" -> <<"orders">>
              [] k = "portfolio" -> <<"orders", "bond">>
              [] OTHER -> <<>>

Goto(r, q) == /\ req' = [req EXCEPT ![r] = q]
              /\ UNCHANGED <<scene, ledger, age, sequence, known, quiet, pool, counter, nonces>>

\* A read that misses its cache starts; a hit is answered at once and changes
\* nothing.
Read(r, k) ==
  /\ req[r].pc = "none" /\ k \in scene.keys /\ ~Hit(k)
  /\ Goto(r, [NoRequest EXCEPT !.pc = "read", !.todo = Append(Parts(k), k), !.view = Now])
  /\ UNCHANGED cache

getOrder(r) == ledger[Now].status # "none" /\ Read(r, "order")
listOrders(r) == Read(r, "orders")
getPriceFeed(r) == Read(r, "pricefeed")
findOne(r) == Read(r, "bond")
findAll(r) == Read(r, "bonds")
getPortfolio(r) == Read(r, "portfolio")
findProject(r) == Read(r, "project")
findProjects(r) == Read(r, "projects")
listProviders(r) == Read(r, "providers")

Older(v, w) == IF v < w THEN v ELSE w
Rest(q) == IF Len(q.todo) = 1 THEN NoRequest ELSE [q EXCEPT !.pc = "read", !.todo = Tail(@), !.got = 0]

\* The next part: from its cache, or from the ledger, to be cached in a later
\* step; the last one is put together from the parts there are.
Fetch(r) ==
  LET q == req[r]
      k == Head(q.todo) IN
  /\ q.pc = "read"
  /\ Goto(r, IF Parts(k) # <<>> THEN [q EXCEPT !.pc = "set", !.got = q.view]
             ELSE IF Hit(k) THEN Rest([q EXCEPT !.view = Older(@, cache[k].ver)])
             ELSE [q EXCEPT !.pc = "set", !.got = Now])
  /\ UNCHANGED cache

Store(r) ==
  LET q == req[r] IN
  /\ q.pc = "set"
  /\ cache' = [cache EXCEPT ![Head(q.todo)] = setEx(Head(q.todo), q.got)]
  /\ Goto(r, Rest([q EXCEPT !.view = Older(@, q.got)]))
-----------------------------------------------------------------------------
(* Mutations: check, take a nonce, build, simulate and send, evict. *)

Signer(op) == IF op \in {"subscribe", "claimCredits", "transfer"} THEN "investor"
              ELSE IF op = "register" THEN "user" ELSE "admin"

\* DexService reads the order afresh for a purchase or a cancellation.
fetchOrderFromLedger(v) == ledger[v]
assertOrderIsActionable(o) == o.status = "open"

\* buyBondTokens: enough is left, the price is accepted and escrowed.
Approved(o, amount, max) ==
  /\ assertOrderIsActionable(o)
  /\ amount <= o.amount /\ max >= 1
  /\ o.escrow >= amount

Start(r, op, c, amount, max) ==
  /\ req[r].pc = "none" /\ op \in scene.ops
  /\ Goto(r, [NoRequest EXCEPT !.pc = "nonce", !.op = op, !.caller = c, !.amount = amount,
                               !.max = max, !.view = Now])
  /\ UNCHANGED cache

buyBondTokens(r, c, amount, max) ==
  /\ Approved(fetchOrderFromLedger(Now), amount, max)
  /\ Start(r, "buyBondTokens", c, amount, max)

cancelOrder(r, c) ==
  /\ assertOrderIsActionable(fetchOrderFromLedger(Now))
  /\ Start(r, "cancelOrder", c, 0, 0)

listBondTokens(r) == Start(r, "listBondTokens", Seller, MaxAmount, 0)
depositQuote(r, c) == Start(r, "depositQuote", c, 0, 0)
withdrawQuote(r, c) == Start(r, "withdrawQuote", c, 0, 0)
create(r, c) == Start(r, "create", c, 0, 0)
subscribe(r, c) == Start(r, "subscribe", c, 0, 0)
distributeCoupon(r, c) == Start(r, "distributeCoupon", c, 0, 0)
claimCredits(r, c) == Start(r, "claimCredits", c, 0, 0)
transfer(r, c) == Start(r, "transfer", c, 0, 0)
sweepUndistributed(r, c) == Start(r, "sweepUndistributed", c, 0, 0)
mature(r, c) == Start(r, "mature", c, 0, 0)
register(r, c) == Start(r, "register", c, 0, 0)
approve(r, c) == Start(r, "approve", c, 0, 0)
reject(r, c) == Start(r, "reject", c, 0, 0)
registerProvider(r, c) == Start(r, "registerProvider", c, 0, 0)
challengeReport(r, c) == Start(r, "challengeReport", c, 0, 0)

getAccount_Milliseconds(s) ==
  IF known[s].left > 0 THEN UNCHANGED known
  ELSE known' = [known EXCEPT ![s] = [seq |-> sequence[s], left |-> 9 * AccountTtl]]

\* The account, from memory or from Horizon.
getAccount(s) ==
  IF known[s].left > 0 THEN UNCHANGED known
  ELSE known' = [known EXCEPT ![s] = [seq |-> sequence[s], left |-> AccountTtl]]

\* NonceService hands out a nonce; the transaction is built on the account's
\* sequence number.
Build(r) ==
  LET q == req[r]
      s == Signer(q.op) IN
  /\ q.pc = "nonce" /\ counter[q.caller] < MaxTx
  /\ counter' = [counter EXCEPT ![q.caller] = @ + 1]
  /\ getAccount(s)
  /\ req' = [req EXCEPT ![r].pc = "send", ![r].nonce = counter[q.caller],
                        ![r].seq = known'[s].seq + 1, ![r].life = TxLife]
  /\ UNCHANGED <<scene, ledger, age, cache, sequence, quiet, pool, nonces>>

\* The order book's rules, execute_purchase and cancel_listing of DEXRouter:
\* the first that is broken.
Refusal(o, q) ==
  CASE q.op \in {"buyBondTokens", "cancelOrder"} /\ o.status = "none" -> "OrderNotFound"
    [] q.op = "cancelOrder" /\ q.caller # Seller -> "Unauthorized"
    [] q.op \in {"buyBondTokens", "cancelOrder"} /\ o.status = "closed" -> "OrderAlreadyFilled"
    [] q.op = "buyBondTokens" /\ q.caller = Seller -> "SelfBuyNotAllowed"
    [] q.op = "buyBondTokens" /\ o.status = "expired" -> "OrderExpired"
    [] q.op = "buyBondTokens" /\ (q.amount > o.amount \/ q.max < 1) -> "InsufficientBalance"
    [] q.op = "buyBondTokens" /\ o.escrow < q.amount -> "InsufficientFunds"
    [] q.op = "listBondTokens" /\ o.status # "none" -> "InsufficientBalance"
    [] q.op = "depositQuote" /\ o.escrow = MaxAmount -> "InsufficientBalance"
    [] q.op = "withdrawQuote" /\ o.escrow = 0 -> "InsufficientBalance"
    [] OTHER -> "none"

Result(o, q) ==
  CASE q.op = "buyBondTokens" -> [o EXCEPT !.amount = @ - q.amount, !.escrow = @ - q.amount,
                                          !.status = IF o.amount = q.amount THEN "closed" ELSE @]
    [] q.op = "cancelOrder" -> [o EXCEPT !.status = "closed"]
    [] q.op = "listBondTokens" -> [o EXCEPT !.status = "open", !.amount = MaxAmount]
    [] q.op = "depositQuote" -> [o EXCEPT !.escrow = @ + 1]
    [] q.op = "withdrawQuote" -> [o EXCEPT !.escrow = @ - 1]
    [] OTHER -> o

simulateCall(q) == IF q.nonce # nonces[q.caller] THEN "InvalidNonce" ELSE Refusal(ledger[Now], q)

\* sendTransaction: refused by the simulation, for its sequence number or for
\* being late; put off by the network, which holds one transaction of an
\* account at a time and which the code takes for success; or accepted.
sendTransaction(r) ==
  LET q == req[r]
      s == Signer(q.op)
      refused == simulateCall(q) # "none" \/ q.seq # sequence[s] + 1 \/ q.life = 0
      waits == \E t \in pool : t.signer = s IN
  /\ q.pc = "send"
  /\ req' = [req EXCEPT ![r] =
               IF refused THEN [q EXCEPT !.pc = "failed", !.view = Now, !.life = 0,
                                         !.error = extractContractErrorCode(simulateCall(q))]
               ELSE [q EXCEPT !.pc = "evict"]]
  /\ pool' = IF refused \/ waits THEN pool
             ELSE pool \cup {[signer |-> s, seq |-> q.seq, nonce |-> q.nonce, op |-> q.op,
                              caller |-> q.caller, amount |-> q.amount, max |-> q.max]}
  /\ UNCHANGED <<scene, ledger, age, cache, sequence, known, quiet, counter, nonces>>

Contract(op) ==
  CASE op \in {"buyBondTokens", "cancelOrder", "listBondTokens", "depositQuote", "withdrawQuote"} -> "dexRouter"
    [] op \in {"register", "approve", "reject"} -> "projectRegistry"
    [] op \in {"registerProvider", "challengeReport"} -> "oracleConsumer"
    [] op \in {"distributeCoupon", "claimCredits", "sweepUndistributed"} -> "couponEngine"
    [] OTHER -> "bondIssuer"

\* The status of a failed request; the others pass the exception on.
HttpStatus(q) ==
  LET error == ContractException(Contract(q.op), q.error) IN
  CASE q.op \in {"buyBondTokens", "cancelOrder"} -> mapDexError(error)
    [] q.op = "mature" -> mapBondError(error)
    [] OTHER -> 400

throwMappedContractError(r) == /\ req[r].pc = "failed"
                               /\ Goto(r, NoRequest) /\ UNCHANGED cache

\* The keys an operation evicts once its transaction is sent.
Evicted(q) ==
  LET own == IF q.caller = Owner THEN {"portfolio"} ELSE {} IN
  CASE q.op = "subscribe" -> {"bond"} \cup own
    [] q.op = "mature" -> {"bond", "portfolio"}
    [] q.op \in {"approve", "reject"} -> {"project"}
    [] q.op = "transfer" -> {"portfolio"}
    [] q.op \in {"registerProvider", "challengeReport"} -> {"providers"}
    [] q.op \in {"claimCredits", "depositQuote", "withdrawQuote"} -> own
    [] q.op \in {"listBondTokens", "buyBondTokens", "cancelOrder"} -> {"orders", "order"} \cup own
    [] OTHER -> {}

\* Listing and buying end by reading the order again, create and register by
\* caching the new bond or project.
Answer(r) ==
  LET q == req[r] IN
  /\ q.pc = "evict"
  /\ cache' = [k \in Key |-> IF k \in Evicted(q) THEN Absent ELSE cache[k]]
  /\ Goto(r, CASE q.op \in {"listBondTokens", "buyBondTokens"} ->
                    [NoRequest EXCEPT !.pc = "read", !.todo = <<"order">>, !.view = Now]
               [] q.op \in {"create", "register"} ->
                    [NoRequest EXCEPT !.pc = "set", !.view = Now, !.got = Now,
                                      !.todo = <<IF q.op = "create" THEN "bond" ELSE "project">>]
               [] OTHER -> NoRequest)
-----------------------------------------------------------------------------
(* The network and time. *)

Change(o) == /\ Now < MaxVersions /\ ledger' = Append(ledger, o)
             /\ UNCHANGED <<scene, age, cache, req, known, counter>>

\* A transaction is applied: the contract judges it again.
Apply(t) ==
  /\ t \in pool /\ t.seq = sequence[t.signer] + 1
  /\ pool' = pool \ {t}
  /\ sequence' = [sequence EXCEPT ![t.signer] = @ + 1]
  /\ quiet' = [quiet EXCEPT ![t.signer] = 0]
  /\ IF simulateCall(t) = "none"
     THEN Change(Result(ledger[Now], t)) /\ nonces' = [nonces EXCEPT ![t.caller] = @ + 1]
     ELSE UNCHANGED <<scene, ledger, age, cache, req, known, counter, nonces>>

\* A transaction that is not applied in time is dropped.
Drop(t) == /\ t \in pool /\ pool' = pool \ {t}
           /\ UNCHANGED <<scene, ledger, age, cache, req, sequence, known, quiet, counter, nonces>>

\* The order's deadline passes: deriveEffectiveStatus shows it as Expired.
deriveEffectiveStatus ==
  /\ ledger[Now].status = "open"
  /\ Change([ledger[Now] EXCEPT !.status = "expired"])
  /\ UNCHANGED <<sequence, quiet, pool, nonces>>

\* 30 seconds pass.  A version's age counts from when it is neither current
\* nor in the hands of a request.
SvcTick ==
  /\ age' = [v \in 1..MaxVersions |->
               IF v < Now /\ ~Held(v) /\ age[v] < MaxAge THEN age[v] + 1 ELSE age[v]]
  /\ cache' = [k \in Key |-> IF cache[k].left > 1 THEN [cache[k] EXCEPT !.left = @ - 1] ELSE Absent]
  /\ known' = [s \in Signers |-> IF known[s].left > 1 THEN [known[s] EXCEPT !.left = @ - 1]
                                ELSE [seq |-> 0, left |-> 0]]
  /\ quiet' = [s \in Signers |-> IF quiet[s] = AccountTtl + TxLife THEN quiet[s] ELSE quiet[s] + 1]
  /\ req' = [r \in Request |-> [req[r] EXCEPT !.life = IF @ > 0 THEN @ - 1 ELSE 0]]
  /\ UNCHANGED <<scene, ledger, sequence, pool, counter, nonces>>
-----------------------------------------------------------------------------
Reads(r) == \/ getOrder(r) \/ listOrders(r) \/ getPriceFeed(r)
            \/ findOne(r) \/ findAll(r) \/ getPortfolio(r)
            \/ findProject(r) \/ findProjects(r) \/ listProviders(r)

Mutations(r, c) ==
  \/ \E amount \in 1..MaxAmount, max \in 0..1 : buyBondTokens(r, c, amount, max)
  \/ cancelOrder(r, c) \/ depositQuote(r, c) \/ withdrawQuote(r, c)
  \/ create(r, c) \/ subscribe(r, c) \/ distributeCoupon(r, c) \/ claimCredits(r, c)
  \/ transfer(r, c) \/ sweepUndistributed(r, c) \/ mature(r, c)
  \/ register(r, c) \/ approve(r, c) \/ reject(r, c)
  \/ registerProvider(r, c) \/ challengeReport(r, c)

SvcNext ==
  \/ \E r \in Request : \/ Reads(r) \/ listBondTokens(r) \/ (\E c \in scene.callers : Mutations(r, c))
                        \/ Fetch(r) \/ Store(r) \/ Build(r) \/ sendTransaction(r)
                        \/ throwMappedContractError(r) \/ Answer(r)
  \/ \E t \in pool : Apply(t) \/ Drop(t)
  \/ deriveEffectiveStatus
  \/ SvcTick

SvcSpec == SvcInit /\ [][SvcNext]_svcVars
-----------------------------------------------------------------------------
\* A cached answer outlives what it shows by no more than its time to live,
\* and that of the cached answers it was put together from, however reads,
\* evictions before the transaction is applied, and rereads interleave.
OutdatedViewsExpire ==
  \A k \in Key : Hit(k) =>
    age[cache[k].ver] < Ttl[k] + Max({Ttl[p] : p \in {Parts(k)[i] : i \in DOMAIN Parts(k)}} \cup {0})

\* A remembered account is behind the ledger only shortly after one of its
\* transactions: what is refused for its sequence number then succeeds once
\* CACHE_TTL_MS has passed without another one.
StaleSequencesClear ==
  \A s \in Signers :
    /\ known[s].left > 0 /\ known[s].seq # sequence[s] => quiet[s] < AccountTtl
    /\ \A r \in Request :
         req[r].pc = "send" /\ req[r].life > 0 /\ Signer(req[r].op) = s /\ req[r].seq # sequence[s] + 1
           => quiet[s] < AccountTtl + TxLife

\* A buyer whose escrow was spent after the check, by another purchase of his,
\* is told to deposit, and nobody else is.
SpentEscrowAsksForDeposit ==
  \A r \in Request : req[r].pc = "failed" /\ req[r].error # Number("InvalidNonce") =>
    ((HttpStatus(req[r]) = 402)
       <=> (req[r].error # 0 /\ Refusal(ledger[req[r].view], req[r]) = "InsufficientFunds"))
=============================================================================
