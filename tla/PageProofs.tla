----------------------------- MODULE PageProofs -----------------------------
(***************************************************************************)
(* Proofs about the two pages of the browser, for any number of wallets,   *)
(* orders and bonds, changes, retries and reloads of the page.             *)
(***************************************************************************)
EXTENDS BondPage, MarketPage, SequenceTheorems, TLAPS

\* A sequence of at most one request is empty once that one is answered.
LEMMA LastRemoved ==
  ASSUME NEW s, \E x : s = <<x>>, NEW i \in DOMAIN s
  PROVE  RemoveAt(s, i) = <<>> /\ i = 1
<1>1. i = 1 /\ Len(s) = 1
  OBVIOUS
<1>2. SubSeq(s, 1, 0) = <<>> /\ SubSeq(s, 2, 1) = <<>>
  OBVIOUS
<1> QED
  BY <1>1, <1>2 DEF RemoveAt

\* A request that replaces the others is the only one.
LEMMA OnlyOne == \A x : Append(<<>>, x) = <<x>>
<1> SUFFICES ASSUME NEW x PROVE Append(<<>>, x) = <<x>>
  OBVIOUS
<1>1. <<>> \in Seq({x}) /\ <<x>> \in Seq({x})
  OBVIOUS
<1>2. Append(<<>>, x) \in Seq({x}) /\ Len(Append(<<>>, x)) = 1
  BY <1>1
<1>3. \A i \in 1..1 : Append(<<>>, x)[i] = <<x>>[i]
  BY <1>1
<1> QED
  BY <1>1, <1>2, <1>3, SeqEqual

-----------------------------------------------------------------------------
(***************************************************************************)
(* The bond page.  There is one reload at a time, and it began after the   *)
(* latest change that the page was told of, because being told begins a    *)
(* reload and drops the one before; so what it brings is as new.           *)
(***************************************************************************)
Served == [version : Nat, matured : BOOLEAN]
Seen == Served \cup {None}

ReloadOK == reloads = <<>> \/ \E x \in Seen : reloads = <<x>> /\ (x = Unread \/ x.version >= own)

PageInv ==
  /\ served \in Served /\ own \in Nat /\ own <= served.version
  /\ view \in [detail : Seen, loading : BOOLEAN, error : BOOLEAN, prompt : BOOLEAN]
  /\ press \in [Operation -> [submitting : BOOLEAN, call : {"none", "sent", "done", "failed"}, version : Nat]]
  /\ \A op \in Operation : press[op].version <= served.version
  /\ ReloadOK
  /\ RefreshShowsOwnChange

\* Nothing was seen of the bond, or a state of it.
LEMMA SeenTypes == \A x \in Seen : x.version \in Int /\ (x # None => x.version \in Nat)
<1> QED
  BY DEF Seen, Served, None

\* The page opens with one reload.
LEMMA PageInitInv == PageInit => PageInv
<1> SUFFICES ASSUME PageInit PROVE PageInv
  OBVIOUS
<1>1. None \in Seen /\ Unread = None
  BY DEF Seen, Unread
<1>2. served \in Served /\ served.version = 0
  BY DEF PageInit, Served
<1>3. view \in [detail : Seen, loading : BOOLEAN, error : BOOLEAN, prompt : BOOLEAN] /\ view.loading
  BY <1>1 DEF PageInit, NoView
<1>4. /\ press \in [Operation -> [submitting : BOOLEAN, call : {"none", "sent", "done", "failed"}, version : Nat]]
      /\ \A op \in Operation : press[op].version = 0
  BY DEF PageInit, NoPress
<1>5. ReloadOK
  BY <1>1 DEF PageInit, ReloadOK
<1> QED
  BY <1>2, <1>3, <1>4, <1>5 DEF PageInv, PageInit, RefreshShowsOwnChange

\* The bond changes while the page's own state stays.
LEMMA ServedGrows ==
  ASSUME PageInv, UNCHANGED <<view, reloads, own>>, served' \in Served, served'.version >= served.version,
         press' \in [Operation -> [submitting : BOOLEAN, call : {"none", "sent", "done", "failed"}, version : Nat]],
         \A op \in Operation : press'[op].version <= served'.version
  PROVE  PageInv'
<1>1. own' \in Nat /\ own' <= served'.version
  BY DEF PageInv, Served
<1> QED
  BY <1>1 DEF PageInv, ReloadOK, RefreshShowsOwnChange

\* A new reload shows the spinner until it has brought what is served.
LEMMA ReloadInv ==
  ASSUME PageInv, reload(view), UNCHANGED served, own' \in Nat, own' <= served.version,
         press' \in [Operation -> [submitting : BOOLEAN, call : {"none", "sent", "done", "failed"}, version : Nat]],
         \A op \in Operation : press'[op].version <= served.version
  PROVE  PageInv'
<1>1. reloads' = <<Unread>> /\ Unread \in Seen
  BY OnlyOne DEF reload, Cancelled, Unread, Seen
<1>2. view' \in [detail : Seen, loading : BOOLEAN, error : BOOLEAN, prompt : BOOLEAN] /\ view'.loading
  BY DEF reload, PageInv
<1>3. ReloadOK'
  BY <1>1 DEF ReloadOK
<1> QED
  BY <1>2, <1>3 DEF PageInv, RefreshShowsOwnChange

\* The page's own state moves without a reload.
LEMMA PageMoves ==
  ASSUME PageInv, UNCHANGED <<served, reloads, own>>,
         press' \in [Operation -> [submitting : BOOLEAN, call : {"none", "sent", "done", "failed"}, version : Nat]],
         \A op \in Operation : press'[op].version <= served.version,
         view' = view \/ \E b \in BOOLEAN : view' = [view EXCEPT !.prompt = b]
  PROVE  PageInv'
<1>1. view' \in [detail : Seen, loading : BOOLEAN, error : BOOLEAN, prompt : BOOLEAN]
      /\ view'.detail = view.detail /\ view'.loading = view.loading /\ view'.error = view.error
  BY DEF PageInv
<1> QED
  BY <1>1 DEF PageInv, ReloadOK, RefreshShowsOwnChange

\* Answers to a reload.
LEMMA DetailInv ==
  ASSUME PageInv, NEW i \in DOMAIN reloads, getBondDetail(i) \/ CommitDetail(i) \/ FailDetail(i)
  PROVE  PageInv'
<1>1. PICK x \in Seen : reloads = <<x>> /\ (x = Unread \/ x.version >= own)
  BY DEF PageInv, ReloadOK
<1>2. i = 1 /\ RemoveAt(reloads, i) = <<>>
  BY <1>1, LastRemoved
<1>3. UNCHANGED <<served, press, own>>
  BY DEF getBondDetail, CommitDetail, FailDetail
<1>4. CASE getBondDetail(i)
  <2>1. reloads' = <<served>> /\ served \in Seen /\ served.version >= own /\ view' = view
    BY <1>1, <1>2, <1>4 DEF getBondDetail, PageInv, Seen, Served
  <2>2. ReloadOK'
    BY <1>3, <2>1 DEF ReloadOK
  <2> QED
    BY <1>3, <2>1, <2>2 DEF PageInv, RefreshShowsOwnChange
<1>5. CASE CommitDetail(i)
  <2>1. reloads' = <<>> /\ view' = [view EXCEPT !.detail = x, !.loading = FALSE] /\ x.version >= own
    BY <1>1, <1>2, <1>5 DEF CommitDetail, Without
  <2>2. view' \in [detail : Seen, loading : BOOLEAN, error : BOOLEAN, prompt : BOOLEAN] /\ view'.detail = x
    BY <2>1 DEF PageInv
  <2> QED
    BY <1>3, <2>1, <2>2 DEF PageInv, ReloadOK, RefreshShowsOwnChange
<1>6. CASE FailDetail(i)
  <2>1. reloads' = <<>> /\ view' = [view EXCEPT !.error = TRUE, !.loading = FALSE]
    BY <1>1, <1>2, <1>6 DEF FailDetail, Without
  <2>2. view' \in [detail : Seen, loading : BOOLEAN, error : BOOLEAN, prompt : BOOLEAN] /\ view'.error
    BY <2>1 DEF PageInv
  <2> QED
    BY <1>3, <2>1, <2>2 DEF PageInv, ReloadOK, RefreshShowsOwnChange
<1> QED
  BY <1>4, <1>5, <1>6

\* Every step of the page keeps the invariant.
LEMMA PageNextInv == PageInv /\ [PageNext]_pageVars => PageInv'
<1> SUFFICES ASSUME PageInv, [PageNext]_pageVars PROVE PageInv'
  OBVIOUS
<1> DEFINE Call == [submitting : BOOLEAN, call : {"none", "sent", "done", "failed"}, version : Nat]
<1>1. /\ served \in Served /\ served.version \in Nat /\ own \in Nat /\ own <= served.version
      /\ press \in [Operation -> Call] /\ \A op \in Operation : press[op].version <= served.version
      /\ view \in [detail : Seen, loading : BOOLEAN, error : BOOLEAN, prompt : BOOLEAN]
  BY DEF PageInv, Served
<1>2. NoPress \in Call /\ NoPress.version = 0
  BY DEF NoPress
<1>3. CASE UNCHANGED pageVars
  BY <1>1, <1>3, PageMoves DEF pageVars
<1>4. ASSUME NEW h \in polls, StatusArrives(h) PROVE PageInv'
  BY <1>1, <1>4, PageMoves DEF StatusArrives
<1>5. ASSUME NEW op \in Operation, NEW unlocked, Submit(op, unlocked)
      PROVE  press' \in [Operation -> Call] /\ \A o \in Operation : press'[o].version <= served.version
  <2> DEFINE c == [NoPress EXCEPT !.submitting = TRUE, !.call = "sent"]
  <2>1. c \in Call /\ c.version = 0
    BY DEF NoPress
  <2> QED
    BY <1>1, <1>5, <2>1 DEF Submit
<1>6. ASSUME NEW op \in Operation, Press(op) PROVE PageInv'
  <2>1. UNCHANGED <<served, reloads, own>>
    BY <1>6 DEF Press
  <2>2. view' = view \/ \E b \in BOOLEAN : view' = [view EXCEPT !.prompt = b]
    BY <1>6 DEF Press
  <2>3. press' = press \/ Submit(op, secret)
    BY <1>6 DEF Press
  <2>4. press' \in [Operation -> Call] /\ \A o \in Operation : press'[o].version <= served.version
    BY <1>1, <1>5, <2>3
  <2> QED
    BY <2>1, <2>2, <2>4, PageMoves
<1>7. ASSUME NEW op \in Operation, Execute(op) PROVE PageInv'
  <2> DEFINE v == served.version + 1
             m == served.matured \/ op = "mature"
  <2>1. UNCHANGED <<view, reloads, own>>
    BY <1>7 DEF Execute
  <2>2. m \in BOOLEAN /\ v \in Nat
    BY <1>1 DEF Served
  <2>3. served' = [version |-> v, matured |-> m]
    BY <1>7 DEF Execute
  <2>4. PICK call \in {"done", "failed"} : press' = [press EXCEPT ![op].call = call, ![op].version = v]
    BY <1>7 DEF Execute
  <2> HIDE DEF m, v
  <2>5. served' \in Served /\ served'.version = v
    BY <2>2, <2>3 DEF Served
  <2>6. press' \in [Operation -> Call] /\ \A o \in Operation : o # op => press'[o] = press[o]
    BY <1>1, <2>2, <2>4
  <2>7. press'[op].version = v
    BY <1>1, <2>4
  <2>8. \A o \in Operation : press'[o].version \in Nat /\ press[o].version \in Nat
    BY <1>1, <2>6
  <2>9. \A o \in Operation : press'[o].version <= served'.version
    BY <1>1, <2>2, <2>5, <2>6, <2>7, <2>8 DEF v
  <2> QED
    BY <1>1, <2>1, <2>5, <2>6, <2>9, ServedGrows DEF v
<1>8. ASSUME NEW op \in Operation, Refuse(op) PROVE PageInv'
  <2>1. press' \in [Operation -> Call] /\ \A o \in Operation : press'[o].version = press[o].version
    BY <1>1, <1>8 DEF Refuse
  <2> QED
    BY <1>1, <1>8, <2>1, PageMoves DEF Refuse
<1>9. ASSUME NEW op \in Operation, Succeeds(op) PROVE PageInv'
  <2> DEFINE c == [NoPress EXCEPT !.submitting = (op = "reconcile")]
             v == press[op].version
  <2>1. c \in Call /\ c.version = 0
    BY DEF NoPress
  <2>2. press' = [press EXCEPT ![op] = c]
    BY <1>9 DEF Succeeds
  <2> HIDE DEF c
  <2>3. press' \in [Operation -> Call] /\ \A o \in Operation : press'[o].version <= served.version
    BY <1>1, <2>1, <2>2
  <2>4. v \in Nat /\ v <= served.version
    BY <1>1
  <2>5. own' \in Nat /\ own' <= served.version
    BY <1>1, <1>9, <2>4 DEF Succeeds
  <2>6. reload(view) /\ UNCHANGED served
    BY <1>9 DEF Succeeds
  <2> QED
    BY <2>3, <2>5, <2>6, ReloadInv
<1>10. ASSUME NEW op \in Operation, Errs(op) PROVE PageInv'
  <2>1. press' \in [Operation -> Call] /\ \A o \in Operation : press'[o].version <= served.version
    BY <1>1, <1>2, <1>10 DEF Errs
  <2> QED
    BY <1>10, <2>1, PageMoves DEF Errs
<1>11. CASE onSecretUnlocked
  <2>1. press' \in [Operation -> Call] /\ \A o \in Operation : press'[o].version <= served.version
    BY <1>5, <1>11 DEF onSecretUnlocked, Operation
  <2>2. view' = [view EXCEPT !.prompt = FALSE]
    BY <1>11 DEF onSecretUnlocked
  <2> QED
    BY <1>11, <2>1, <2>2, PageMoves DEF onSecretUnlocked
<1>12. CASE onRefresh
  BY <1>1, <1>12, ReloadInv DEF onRefresh
<1>13. CASE Refresh
  <2>1. /\ view' = NoView /\ press' = [op \in Operation |-> NoPress] /\ own' = 0
        /\ reloads' = <<Unread>> /\ served' = served
    BY <1>13 DEF Refresh
  <2>2. view' \in [detail : Seen, loading : BOOLEAN, error : BOOLEAN, prompt : BOOLEAN] /\ view'.loading
    BY <2>1 DEF NoView, Seen
  <2>3. press' \in [Operation -> Call] /\ \A o \in Operation : press'[o].version = 0
    BY <1>2, <2>1
  <2>4. ReloadOK'
    BY <2>1 DEF ReloadOK, Unread, Seen
  <2> QED
    BY <1>1, <2>1, <2>2, <2>3, <2>4 DEF PageInv, RefreshShowsOwnChange
<1>14. CASE Elsewhere
  <2>1. served' = served \/ served' = [served EXCEPT !.version = @ + 1]
    BY <1>14 DEF Elsewhere
  <2>2. served' \in Served /\ served'.version >= served.version /\ served'.version \in Nat
    BY <1>1, <2>1 DEF Served
  <2>3. UNCHANGED <<view, reloads, own, press>>
    BY <1>14 DEF Elsewhere
  <2>4. \A o \in Operation : press[o].version \in Nat
    BY <1>1
  <2>5. \A o \in Operation : press'[o].version <= served'.version
    BY <1>1, <2>2, <2>3, <2>4
  <2> QED
    BY <1>1, <2>2, <2>3, <2>5, ServedGrows
<1>15. ASSUME NEW w \in Wallet \cup {Nobody}, Connect(w) PROVE PageInv'
  BY <1>1, <1>15, PageMoves DEF Connect
<1> QED
  BY <1>3, <1>4, <1>6, <1>7, <1>8, <1>9, <1>10, <1>11, <1>12, <1>13, <1>14, <1>15, DetailInv DEF PageNext

\* BondDetailReloadCoordinator keeps one reload: a bond page that has finished
\* loading never shows the bond as it was before one's own change.
THEOREM OwnChangesShow == PageSpec => []RefreshShowsOwnChange
<1>1. PageInv => RefreshShowsOwnChange
  BY DEF PageInv
<1> QED
  BY <1>1, PageInitInv, PageNextInv, PTL DEF PageSpec

\* Following transactions: what localStorage keeps is what is listed.
FollowInv ==
  /\ TransactionsAreFollowed
  /\ storageWorks => storage = entries

\* Every step of the page keeps what follows transactions.  A status that
\* ends the polling is no longer pending, and a page that is loaded anew takes
\* its list and its polls from the same copy.
LEMMA FollowNext == FollowInv /\ [PageNext]_pageVars => FollowInv'
<1> SUFFICES ASSUME FollowInv, [PageNext]_pageVars PROVE FollowInv'
  OBVIOUS
<1>1. CASE UNCHANGED <<trackVars, storageWorks, acked>>
  BY <1>1 DEF FollowInv, TransactionsAreFollowed, trackVars
<1>2. ASSUME NEW h \in polls, StatusArrives(h) PROVE FollowInv'
  <2>1. PICK status : updateStatus(h, status)
    BY <1>2 DEF StatusArrives
  <2>2. DOMAIN entries' = DOMAIN entries
        /\ \A x \in DOMAIN entries : entries'[x] = IF x = h THEN status ELSE entries[x]
    BY <2>1 DEF updateStatus
  <2>3. polls' = IF status = "pending" THEN polls ELSE polls \ {h}
    BY <2>1 DEF updateStatus
  <2>4. \A x \in DOMAIN entries' : entries'[x] = "pending" => x \in polls'
    BY <1>2, <2>2, <2>3 DEF FollowInv, TransactionsAreFollowed
  <2>5. storageWorks' => storage' = entries'
    BY <1>2, <2>1 DEF StatusArrives, updateStatus, persist
  <2>6. storageWorks' = storageWorks /\ acked' = acked
    BY <1>2 DEF StatusArrives
  <2> QED
    BY <2>2, <2>4, <2>5, <2>6 DEF FollowInv, TransactionsAreFollowed
<1>3. ASSUME NEW op \in Operation, Succeeds(op), ~UNCHANGED <<trackVars, acked>> PROVE FollowInv'
  <2> DEFINE v == press[op].version
  <2>1. register(v) /\ acked' = acked \cup {v} /\ storageWorks' = storageWorks
    BY <1>3 DEF Succeeds
  <2> HIDE DEF v
  <2>2. entries' = [x \in DOMAIN entries \cup {v} |-> IF x = v THEN "pending" ELSE entries[x]]
        /\ polls' = polls \cup {v}
    BY <2>1 DEF register, poll
  <2>3. storageWorks' => storage' = entries'
    BY <2>1 DEF register, persist
  <2>4. DOMAIN entries' = DOMAIN entries \cup {v}
        /\ \A x \in DOMAIN entries' : entries'[x] = IF x = v THEN "pending" ELSE entries[x]
    BY <2>2
  <2> QED
    BY <2>1, <2>2, <2>3, <2>4 DEF FollowInv, TransactionsAreFollowed
<1>4. CASE Refresh
  <2>1. entries' = storage /\ polls' = Resumed(storage) /\ UNCHANGED <<storage, storageWorks, acked>>
    BY <1>4 DEF Refresh
  <2>2. \A x \in DOMAIN entries' : entries'[x] = "pending" => x \in polls'
    BY <2>1 DEF Resumed
  <2> QED
    BY <2>1, <2>2 DEF FollowInv, TransactionsAreFollowed
<1>5. ASSUME NEW i \in DOMAIN reloads, getBondDetail(i) \/ CommitDetail(i) \/ FailDetail(i)
      PROVE  UNCHANGED <<trackVars, storageWorks, acked>>
  BY <1>5 DEF getBondDetail, CommitDetail, FailDetail
<1>6. ASSUME NEW op \in Operation, Press(op) \/ Execute(op) \/ Refuse(op) \/ Errs(op)
      PROVE  UNCHANGED <<trackVars, storageWorks, acked>>
  BY <1>6 DEF Press, Execute, Refuse, Errs
<1>7. ASSUME onSecretUnlocked \/ onRefresh \/ Elsewhere \/ \E w \in Wallet \cup {Nobody} : Connect(w)
      PROVE  UNCHANGED <<trackVars, storageWorks, acked>>
  BY <1>7 DEF onSecretUnlocked, onRefresh, Elsewhere, Connect
<1>8. ASSUME NEW op \in Operation, Succeeds(op) PROVE FollowInv'
  BY <1>1, <1>3, <1>8 DEF Succeeds
<1> QED
  BY <1>1, <1>2, <1>4, <1>5, <1>6, <1>7, <1>8 DEF PageNext, pageVars

\* PendingTransactionsService lists every transaction that the user was told
\* of, over reloads of the page if localStorage works, and polls for every one
\* that it shows as pending.
THEOREM TransactionsFollowed == PageSpec => []TransactionsAreFollowed
<1>1. PageInit => FollowInv
  <2> SUFFICES ASSUME PageInit PROVE FollowInv
    OBVIOUS
  <2>1. DOMAIN entries = {} /\ acked = {} /\ storage = entries
    BY DEF PageInit
  <2> QED
    BY <2>1 DEF FollowInv, TransactionsAreFollowed
<1>2. FollowInv => TransactionsAreFollowed
  BY DEF FollowInv
<1> QED
  BY <1>1, <1>2, FollowNext, PTL DEF PageSpec
-----------------------------------------------------------------------------
(***************************************************************************)
(* The marketplace.  There is one request for orders at a time, and it     *)
(* asks with the filter that is chosen, because choosing another one drops *)
(* it.                                                                     *)
(***************************************************************************)
IsListing(l, bond) == l.bond = bond /\ \A o \in DOMAIN l.rows : Matches(o, bond)

FetchOK ==
  \/ fetches = <<>>
  \/ \E f : /\ fetches = <<f>>
            /\ f = [bond |-> f.bond, attempt |-> f.attempt, rows |-> f.rows]
            /\ f.bond = filter
            /\ f.rows = [bond |-> f.rows.bond, rows |-> f.rows.rows]
            /\ f.rows = Nothing \/ IsListing(f.rows, filter)

MarketInv ==
  /\ shown = [bond |-> shown.bond, rows |-> shown.rows]
  /\ FetchOK
  /\ ListMatchesFilter

\* Loading the orders asks with the filter that is chosen from then on.
LEMMA LoadInv ==
  ASSUME MarketInv, NEW background \in BOOLEAN, loadOrders(background, filter')
  PROVE  MarketInv'
<1> DEFINE f == [bond |-> filter', attempt |-> 0, rows |-> Nothing]
<1>1. fetches' = <<f>> /\ UNCHANGED shown
  BY OnlyOne DEF loadOrders, Superseded
<1>2. FetchOK'
  <2>1. f.bond = filter' /\ f.rows = Nothing /\ f = [bond |-> f.bond, attempt |-> f.attempt, rows |-> f.rows]
    OBVIOUS
  <2>2. f.rows = [bond |-> f.rows.bond, rows |-> f.rows.rows]
    BY DEF Nothing
  <2> HIDE DEF f
  <2> QED
    BY <1>1, <2>1, <2>2 DEF FetchOK
<1>3. fetches' # <<>>
  BY <1>1
<1> QED
  BY <1>1, <1>2, <1>3 DEF MarketInv, ListMatchesFilter

\* What the server lists is what it is asked for.
LEMMA ListingOK ==
  ASSUME NEW bond
  PROVE  /\ IsListing(Listed(bond), bond)
         /\ Listed(bond) = [bond |-> Listed(bond).bond, rows |-> Listed(bond).rows]
<1> QED
  BY DEF Listed, IsListing

\* Answers and failures of the request for orders.
LEMMA OrdersInv ==
  ASSUME MarketInv, NEW i \in DOMAIN fetches,
         getOrders(i) \/ OrdersArrive(i) \/ \E t \in BOOLEAN : OrdersFail(i, t)
  PROVE  MarketInv'
<1>1. PICK f : /\ fetches = <<f>>
               /\ f = [bond |-> f.bond, attempt |-> f.attempt, rows |-> f.rows]
               /\ f.bond = filter
               /\ f.rows = [bond |-> f.rows.bond, rows |-> f.rows.rows]
               /\ f.rows = Nothing \/ IsListing(f.rows, filter)
  <2>1. fetches # <<>>
    OBVIOUS
  <2> QED
    BY <2>1 DEF MarketInv, FetchOK
<1>2. i = 1 /\ RemoveAt(fetches, i) = <<>> /\ fetches[i] = f
  BY <1>1, LastRemoved
<1>3. filter' = filter
  BY DEF getOrders, OrdersArrive, OrdersFail
<1>4. CASE getOrders(i)
  <2> DEFINE g == [bond |-> f.bond, attempt |-> f.attempt, rows |-> Listed(f.bond)]
  <2>1. fetches' = [fetches EXCEPT ![i].rows = Listed(f.bond)] /\ shown' = shown
    BY <1>2, <1>4 DEF getOrders
  <2>2. fetches' = <<g>>
    BY <1>1, <1>2, <2>1
  <2>3. /\ g.bond = f.bond /\ g.rows = Listed(f.bond)
        /\ g = [bond |-> g.bond, attempt |-> g.attempt, rows |-> g.rows]
    OBVIOUS
  <2> HIDE DEF g
  <2>4. FetchOK'
    BY <1>1, <1>3, <2>2, <2>3, ListingOK DEF FetchOK
  <2>5. fetches' # <<>>
    BY <2>2
  <2> QED
    BY <2>1, <2>4, <2>5 DEF MarketInv, ListMatchesFilter
<1>5. CASE OrdersArrive(i)
  <2>1. shown' = f.rows /\ loading' = FALSE /\ fetches' = <<>> /\ f.rows # Nothing
    BY <1>2, <1>5 DEF OrdersArrive
  <2> QED
    BY <1>1, <1>3, <2>1 DEF MarketInv, FetchOK, ListMatchesFilter, IsListing
<1>6. ASSUME NEW t \in BOOLEAN, OrdersFail(i, t) PROVE MarketInv'
  <2>1. shown' = shown
    BY <1>6 DEF OrdersFail
  <2>2. CASE fetches' = [fetches EXCEPT ![i] = [bond |-> filter, attempt |-> @.attempt + 1, rows |-> Nothing]]
    <3> DEFINE g == [bond |-> filter, attempt |-> f.attempt + 1, rows |-> Nothing]
    <3>1. fetches' = <<g>>
      BY <1>1, <1>2, <2>2
    <3>2. /\ g.bond = filter /\ g.rows = Nothing
          /\ g = [bond |-> g.bond, attempt |-> g.attempt, rows |-> g.rows]
      OBVIOUS
    <3>3. g.rows = [bond |-> g.rows.bond, rows |-> g.rows.rows]
      BY DEF Nothing
    <3> HIDE DEF g
    <3>4. FetchOK' /\ fetches' # <<>>
      BY <1>3, <3>1, <3>2, <3>3 DEF FetchOK
    <3> QED
      BY <2>1, <3>4 DEF MarketInv, ListMatchesFilter
  <2>3. CASE fetches' = RemoveAt(fetches, i) /\ error' = TRUE
    BY <1>2, <2>1, <2>3 DEF MarketInv, FetchOK, ListMatchesFilter
  <2> QED
    BY <1>6, <2>2, <2>3 DEF OrdersFail
<1> QED
  BY <1>4, <1>5, <1>6

\* An order on the page is replaced by itself, as it is now.
LEMMA RecheckInv ==
  ASSUME MarketInv, Recheck
  PROVE  MarketInv'
<1>1. UNCHANGED <<filter, loading, error, fetches>>
  BY DEF Recheck
<1>2. shown' = shown \/ \E o, row : shown' = [shown EXCEPT !.rows[o] = row]
  BY DEF Recheck
<1>3. /\ shown' = [bond |-> shown'.bond, rows |-> shown'.rows]
      /\ shown'.bond = shown.bond /\ DOMAIN shown'.rows = DOMAIN shown.rows
  <2>1. CASE shown' = shown
    BY <2>1 DEF MarketInv
  <2>2. ASSUME NEW o, NEW row, shown' = [shown EXCEPT !.rows[o] = row]
        PROVE  /\ shown' = [bond |-> shown'.bond, rows |-> shown'.rows]
               /\ shown'.bond = shown.bond /\ DOMAIN shown'.rows = DOMAIN shown.rows
    <3> DEFINE b == shown.bond
               l == shown.rows
               m == [l EXCEPT ![o] = row]
    <3>1. DOMAIN m = DOMAIN l
      OBVIOUS
    <3>2. shown = [bond |-> b, rows |-> l]
      BY DEF MarketInv
    <3>3. shown' = [bond |-> b, rows |-> m]
      BY <2>2, <3>2
    <3> QED
      BY <3>1, <3>2, <3>3
  <2> QED
    BY <1>2, <2>1, <2>2
<1> QED
  BY <1>1, <1>3 DEF MarketInv, FetchOK, ListMatchesFilter

\* Every step of the marketplace keeps the invariant.
LEMMA MarketNextInv == MarketInv /\ [MarketNext]_marketVars => MarketInv'
<1> SUFFICES ASSUME MarketInv, [MarketNext]_marketVars PROVE MarketInv'
  OBVIOUS
<1>1. CASE UNCHANGED <<listVars, filter>>
  BY <1>1 DEF listVars, MarketInv, FetchOK, ListMatchesFilter
<1>2. CASE Poll
  BY <1>2, LoadInv DEF Poll
<1>3. ASSUME NEW bond, onFilterChange(bond) PROVE MarketInv'
  BY <1>3, LoadInv DEF onFilterChange
<1>4. CASE BuyEnds
  BY <1>4, LoadInv DEF BuyEnds
<1>5. ASSUME NEW done \in BOOLEAN, CancelEnds(done) PROVE MarketInv'
  BY <1>5, LoadInv DEF CancelEnds
<1>6. ASSUME NEW i \in DOMAIN balanceCalls, getQuoteBalance(i) \/ BalancesArrive(i)
      PROVE  UNCHANGED <<listVars, filter>>
  BY <1>6 DEF getQuoteBalance, BalancesArrive
<1>7. ASSUME NEW amount, DepositOrWithdraw(amount) PROVE UNCHANGED <<listVars, filter>>
  BY <1>7 DEF DepositOrWithdraw
<1>8. ASSUME NEW o \in Order, openBuy(o) \/ onCancel(o) \/ OtherBuys(o) PROVE UNCHANGED <<listVars, filter>>
  BY <1>8 DEF openBuy, onCancel, OtherBuys
<1>9. ASSUME NEW amount, NEW max, onBuy(amount, max) PROVE UNCHANGED <<listVars, filter>>
  BY <1>9 DEF onBuy
<1>10. ASSUME Purchase \/ cancelBuy PROVE UNCHANGED <<listVars, filter>>
  BY <1>10 DEF Purchase, cancelBuy
<1> QED
  BY <1>1, <1>2, <1>3, <1>4, <1>5, <1>6, <1>7, <1>8, <1>9, <1>10, OrdersInv, RecheckInv
     DEF MarketNext, marketVars

\* MarketplaceListComponent.fetchOrders: once no request is under way and the
\* last one did not fail, the orders listed are those of the chosen filter.
THEOREM ListIsAsAsked == MarketSpec => []ListMatchesFilter
<1>1. MarketInit => MarketInv
  <2> SUFFICES ASSUME MarketInit PROVE MarketInv
    OBVIOUS
  <2> DEFINE f == [bond |-> AnyBond, attempt |-> 0, rows |-> Nothing]
  <2>1. fetches = <<f>> /\ fetches # <<>> /\ shown = Nothing /\ filter = AnyBond
    BY DEF MarketInit
  <2>2. /\ f.bond = AnyBond /\ f.rows = Nothing
        /\ f = [bond |-> f.bond, attempt |-> f.attempt, rows |-> f.rows]
    OBVIOUS
  <2>3. Nothing = [bond |-> Nothing.bond, rows |-> Nothing.rows]
    BY DEF Nothing
  <2> HIDE DEF f
  <2>4. FetchOK
    BY <2>1, <2>2, <2>3 DEF FetchOK
  <2> QED
    BY <2>1, <2>3, <2>4 DEF MarketInv, ListMatchesFilter
<1>2. MarketInv => ListMatchesFilter
  BY DEF MarketInv
<1> QED
  BY <1>1, <1>2, MarketNextInv, PTL DEF MarketSpec
=============================================================================
