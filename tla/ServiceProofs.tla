--------------------------- MODULE ServiceProofs ---------------------------
(***************************************************************************)
(* Proofs about the API's services, for any requests, wallets, amounts,    *)
(* times to live and scenes: cached views and sequence numbers clear, and  *)
(* a refusal is answered as what it was.  And about a project's documents, *)
(* for any uploads.                                                        *)
(***************************************************************************)
EXTENDS ServiceCaches, ProjectRecords, SequenceTheorems, TLAPS

(***************************************************************************)
(* The list of documents.  A request that is about to write the list back  *)
(* has read everything that is to be kept, since only a request that is    *)
(* alone with its copy adds to that.                                       *)
(***************************************************************************)
Upload == [pc : {"none", "pin", "write"}, batch : Seq(File), done : Nat,
           read : SUBSET File, alone : BOOLEAN]

RecordsInv ==
  /\ documents \subseteq File /\ upload \in [Uploader -> Upload]
  /\ DocumentsAreKept
  /\ \A u \in Uploader : upload[u].pc = "write" =>
       kept \subseteq upload[u].read /\ (upload[u].alone => Others(u) = {})

\* A request in its initial state is well typed.
LEMMA NoUploadType == NoUpload \in Upload
<1> QED
  BY DEF NoUpload, Upload

\* A request that moves without writing, and without becoming one that is
\* about to, leaves the others and what is kept as they are.
LEMMA UploadMoves ==
  ASSUME RecordsInv, NEW u \in Uploader, NEW q \in Upload, q.pc # "write",
         upload' = [upload EXCEPT ![u] = q], UNCHANGED <<documents, kept>>
  PROVE  RecordsInv'
<1>1. upload' \in [Uploader -> Upload]
  BY DEF RecordsInv
<1>2. ASSUME NEW w \in Uploader, upload'[w].pc = "write"
      PROVE  /\ w # u /\ upload'[w] = upload[w]
             /\ Others(w)' \subseteq Others(w)
  <2>1. w # u /\ upload'[w] = upload[w]
    BY <1>2 DEF RecordsInv
  <2> QED
    BY <2>1 DEF RecordsInv, Others
<1>3. ASSUME NEW w \in Uploader, upload'[w].pc = "write"
      PROVE  kept' \subseteq upload'[w].read /\ (upload'[w].alone => Others(w)' = {})
  BY <1>2, <1>3 DEF RecordsInv
<1> QED
  BY <1>1, <1>3 DEF RecordsInv, DocumentsAreKept

\* Reading the list.
LEMMA ReadInv ==
  ASSUME RecordsInv, NEW u \in Uploader, ReadDocuments(u)
  PROVE  RecordsInv'
<1>1. PICK read \in {documents, {}} :
        /\ upload' = [w \in Uploader |->
             IF w = u THEN [upload[u] EXCEPT !.pc = "write", !.read = read, !.alone = Others(u) = {}]
             ELSE IF w \in Others(u) THEN [upload[w] EXCEPT !.alone = FALSE] ELSE upload[w]]
        /\ kept' = IF read = documents THEN kept ELSE {}
  BY DEF ReadDocuments
<1>2. documents' = documents /\ read \in SUBSET File
  BY <1>1 DEF ReadDocuments, RecordsInv
<1>3. kept' \subseteq kept /\ kept' \subseteq read
  BY <1>1 DEF RecordsInv, DocumentsAreKept
<1>4. (Others(u) = {}) \in BOOLEAN
  OBVIOUS
<1>5. upload' \in [Uploader -> Upload]
  BY <1>1, <1>2, <1>4 DEF RecordsInv, Upload
<1>6. \A w \in Uploader \ {u} : upload'[w].pc = upload[w].pc /\ upload'[w].read = upload[w].read
  BY <1>1 DEF RecordsInv, Upload
<1>7. Others(u)' = Others(u)
  BY <1>6 DEF Others
<1>8. upload'[u].read = read /\ upload'[u].alone = (Others(u) = {})
  BY <1>1 DEF RecordsInv, Upload
<1>9. ASSUME NEW w \in Uploader, upload'[w].pc = "write"
      PROVE  kept' \subseteq upload'[w].read /\ (upload'[w].alone => Others(w)' = {})
  <2>1. CASE w = u
    BY <2>1, <1>3, <1>7, <1>8
  <2>2. CASE w # u
    <3>1. w \in Others(u)
      BY <1>6, <1>9, <2>2 DEF Others
    <3>2. upload'[w].alone = FALSE
      BY <1>1, <2>2, <3>1 DEF RecordsInv, Upload
    <3> QED
      BY <1>3, <1>6, <2>2, <3>1, <3>2 DEF RecordsInv, Others
  <2> QED
    BY <2>1, <2>2
<1> QED
  BY <1>2, <1>3, <1>5, <1>9 DEF RecordsInv, DocumentsAreKept

\* Writing it back.
LEMMA WriteInv ==
  ASSUME RecordsInv, NEW u \in Uploader, WriteDocuments(u)
  PROVE  RecordsInv'
<1> DEFINE q == upload[u]
<1>1. /\ q \in Upload /\ q.pc = "write" /\ upload' = [upload EXCEPT ![u] = NoUpload]
      /\ kept \subseteq q.read /\ (q.alone => Others(u) = {})
  BY DEF WriteDocuments, RecordsInv
<1>2. CASE UNCHANGED <<documents, kept>>
  BY <1>1, <1>2, NoUploadType, UploadMoves DEF NoUpload
<1>3. CASE /\ documents' = Merged(q.read, Ranged(q.batch))
           /\ kept' = IF q.alone THEN kept \cup Ranged(q.batch) ELSE kept
  <2>1. Ranged(q.batch) \subseteq File
    BY <1>1 DEF Ranged, Upload
  <2>2. documents' \subseteq File /\ kept' \subseteq documents'
    BY <1>1, <1>3, <2>1 DEF Merged, Upload
  <2>3. upload' \in [Uploader -> Upload]
    BY <1>1, NoUploadType DEF RecordsInv
  <2>4. ASSUME NEW w \in Uploader, upload'[w].pc = "write"
        PROVE  kept' \subseteq upload'[w].read /\ (upload'[w].alone => Others(w)' = {})
    <3>1. w # u /\ upload'[w] = upload[w]
      BY <1>1, <2>4 DEF RecordsInv, NoUpload
    <3>2. Others(w)' \subseteq Others(w)
      BY <1>1, NoUploadType DEF RecordsInv, Others, NoUpload
    <3>3. kept' = kept
      BY <1>1, <1>3, <2>4, <3>1 DEF Others
    <3> QED
      BY <2>4, <3>1, <3>2, <3>3 DEF RecordsInv
  <2> QED
    BY <2>2, <2>3, <2>4 DEF RecordsInv, DocumentsAreKept
<1> QED
  BY <1>2, <1>3 DEF WriteDocuments

\* The list of documents never loses a document that was added by a request
\* alone with its copy (ProjectsService.uploadDocuments).
THEOREM DocumentsKept == RecordsSpec => []DocumentsAreKept
<1>1. RecordsInit => RecordsInv
  BY NoUploadType DEF RecordsInit, RecordsInv, DocumentsAreKept, NoUpload
<1>2. RecordsInv /\ [RecordsNext]_recordVars => RecordsInv'
  <2> SUFFICES ASSUME RecordsInv, [RecordsNext]_recordVars PROVE RecordsInv'
    OBVIOUS
  <2>1. CASE UNCHANGED recordVars
    BY <2>1 DEF recordVars, RecordsInv, DocumentsAreKept, Others
  <2>2. ASSUME NEW u \in Uploader, NEW b \in Batch, uploadDocuments(u, b) PROVE RecordsInv'
    <3>1. b \in Seq(File)
      BY RecordsAssumption
    <3>2. [NoUpload EXCEPT !.pc = "pin", !.batch = b] \in Upload
      BY <3>1 DEF NoUpload, Upload
    <3>3. [NoUpload EXCEPT !.pc = "pin", !.batch = b].pc = "pin"
      BY DEF NoUpload
    <3> QED
      BY <2>2, <3>2, <3>3, UploadMoves DEF uploadDocuments
  <2>3. ASSUME NEW u \in Uploader, uploadFile(u) PROVE RecordsInv'
    <3>1. CASE upload' = [upload EXCEPT ![u] = NoUpload]
      BY <2>3, <3>1, NoUploadType, UploadMoves DEF uploadFile, NoUpload
    <3>2. CASE upload' = [upload EXCEPT ![u].done = @ + 1]
      <4> DEFINE q == [upload[u] EXCEPT !.done = @ + 1]
      <4>1. upload[u] \in Upload /\ upload[u].pc = "pin"
        BY <2>3 DEF uploadFile, RecordsInv
      <4>2. q \in Upload /\ q.pc = "pin"
        BY <4>1 DEF Upload
      <4>3. upload' = [upload EXCEPT ![u] = q]
        BY <3>2 DEF RecordsInv
      <4> HIDE DEF q
      <4> QED
        BY <2>3, <4>2, <4>3, UploadMoves DEF uploadFile
    <3> QED
      BY <2>3, <3>1, <3>2 DEF uploadFile
  <2>4. ASSUME NEW b \in Boundary, NEW d \in Digest, registerProject(b, d) PROVE RecordsInv'
    BY <2>4 DEF registerProject, RecordsInv, DocumentsAreKept, Others
  <2> QED
    BY <2>1, <2>2, <2>3, <2>4, ReadInv, WriteInv DEF RecordsNext
<1>3. RecordsInv => DocumentsAreKept
  BY DEF RecordsInv
<1> QED
  BY <1>1, <1>2, <1>3, PTL DEF RecordsSpec
-----------------------------------------------------------------------------
(***************************************************************************)
(* The services.  Three arguments, over one inductive invariant:           *)
(*  - an answer is cached with the age of what it shows, and while a       *)
(*    request holds a version that version does not age, so age and time   *)
(*    left add up to no more than the time to live of the key and, for a   *)
(*    view put together from cached parts, that of its longest-lived part; *)
(*  - a remembered account, and a transaction built on it, are behind the  *)
(*    ledger only while the time since the last transaction and the time   *)
(*    they have left add up to no more than their lifetimes;               *)
(*  - the error of a failed request is the ledger's refusal in the version *)
(*    the request was judged by, and versions are never rewritten.         *)
(***************************************************************************)
Statuses == {"none", "open", "closed", "expired"}
Order == [status : Statuses, amount : Int, escrow : Int]

Operation ==
  {"none", "buyBondTokens", "cancelOrder", "listBondTokens", "depositQuote", "withdrawQuote", "create",
   "subscribe", "distributeCoupon", "claimCredits", "transfer", "sweepUndistributed", "mature",
   "register", "approve", "reject", "registerProvider", "challengeReport"}

PartsOf(k) == {Parts(k)[i] : i \in DOMAIN Parts(k)}
Slack(k) == Max({Ttl[p] : p \in PartsOf(k)} \cup {0})

\* What a read has still to do, and the view it is for.
Todo == {<<k>> : k \in Key}
          \cup {<<"orders", "pricefeed">>, <<"orders", "bond", "portfolio">>, <<"bond", "portfolio">>}
Goal(todo) == todo[Len(todo)]

Call == [pc : {"none", "read", "set", "nonce", "send", "evict", "failed"}, op : Operation,
         caller : Caller, amount : Nat, max : Nat, view : Nat, got : Nat, todo : Todo \cup {<<>>},
         nonce : Nat, seq : Nat, life : Nat, error : Nat]
Transaction == [signer : Signers, seq : Nat, nonce : Nat, op : Operation, caller : Caller,
                amount : Nat, max : Nat]

SvcTypeOK ==
  /\ scene \in Scene
  /\ ledger \in Seq(Order) /\ Now \in 1..MaxVersions
  /\ age \in [1..MaxVersions -> Nat]
  /\ cache \in [Key -> [ver : Nat, left : Nat]]
  /\ req \in [Request -> Call]
  /\ sequence \in [Signers -> Nat] /\ quiet \in [Signers -> Nat]
  /\ known \in [Signers -> [seq : Nat, left : Nat]]
  /\ pool \in SUBSET Transaction
  /\ counter \in [Caller -> Nat] /\ nonces \in [Caller -> Nat]

AgesOK == \A v \in 1..MaxVersions : v >= Now => age[v] = 0

CacheOK(k) == Hit(k) => /\ cache[k].ver \in 1..Now
                        /\ age[cache[k].ver] + cache[k].left <= Ttl[k] + Slack(k)

AccountOK(s) ==
  /\ known[s].left <= AccountTtl
  /\ known[s].left > 0 /\ known[s].seq # sequence[s] => quiet[s] + known[s].left <= AccountTtl

ReadOK(q) ==
  q.pc \in {"read", "set"} =>
    /\ q.todo \in Todo /\ q.view \in 1..Now /\ age[q.view] <= Slack(Goal(q.todo))
    /\ q.pc = "set" => q.got \in 1..Now /\ age[q.got] <= Slack(Head(q.todo))

SendOK(q) ==
  /\ q.life <= TxLife
  /\ q.pc = "send" /\ q.life > 0 /\ q.seq # sequence[Signer(q.op)] + 1
       => quiet[Signer(q.op)] + q.life <= AccountTtl + TxLife

FailOK(q) ==
  q.pc = "failed" =>
    /\ q.view \in 1..Now
    /\ \/ q.error = Number("InvalidNonce")
       \/ q.error = extractContractErrorCode(Refusal(ledger[q.view], q))

SvcInv ==
  /\ SvcTypeOK
  /\ AgesOK
  /\ \A k \in Key : CacheOK(k)
  /\ \A s \in Signers : AccountOK(s)
  /\ \A r \in Request : ReadOK(req[r]) /\ SendOK(req[r]) /\ FailOK(req[r])

\* Times to live are positive.
LEMMA Times ==
  /\ AccountTtl \in Nat \ {0} /\ TxLife \in Nat \ {0}
  /\ MaxVersions \in Nat \ {0} /\ MaxAmount \in Nat \ {0}
  /\ \A k \in Key : Ttl[k] \in Nat \ {0}
<1> QED
  BY ServiceAssumption

\* A view without parts has no slack, one with parts that of the longest.
LEMMA Slacks ==
  ASSUME NEW k \in Key
  PROVE  /\ Slack(k) \in Nat
         /\ Parts(k) = <<>> => Slack(k) = 0
         /\ \A p \in PartsOf(k) : Ttl[p] <= Slack(k)
<1> DEFINE S == {Ttl[p] : p \in PartsOf(k)} \cup {0}
<1>1. CASE k = "pricefeed"
  <2>1. Parts(k) = <<"orders">> /\ Parts(k) # <<>>
    BY <1>1 DEF Parts
  <2>2. PartsOf(k) = {"orders"}
    BY <2>1 DEF PartsOf
  <2>3. S = {Ttl["orders"], 0} /\ Ttl["orders"] \in Nat
    BY <2>2, Times DEF Key
  <2>4. \E x \in S : \A y \in S : x >= y
    BY <2>3
  <2>5. Max(S) \in S /\ \A y \in S : Max(S) >= y
    BY <2>4 DEF Max
  <2> QED
    BY <2>1, <2>2, <2>3, <2>5 DEF Slack
<1>2. CASE k = "portfolio"
  <2>1. Parts(k) = <<"orders", "bond">> /\ Parts(k) # <<>>
    BY <1>2 DEF Parts
  <2>2. PartsOf(k) = {"orders", "bond"}
    BY <2>1 DEF PartsOf
  <2>3. S = {Ttl["orders"], Ttl["bond"], 0} /\ Ttl["orders"] \in Nat /\ Ttl["bond"] \in Nat
    BY <2>2, Times DEF Key
  <2>4. \E x \in S : \A y \in S : x >= y
    <3> DEFINE a == Ttl["orders"]
               b == Ttl["bond"]
    <3>1. CASE a >= b
      <4>1. a \in S /\ \A y \in S : a >= y
        BY <2>3, <3>1
      <4> QED
        BY <4>1
    <3>2. CASE b >= a
      <4>1. b \in S /\ \A y \in S : b >= y
        BY <2>3, <3>2
      <4> QED
        BY <4>1
    <3> QED
      BY <2>3, <3>1, <3>2
  <2>5. Max(S) \in S /\ \A y \in S : Max(S) >= y
    BY <2>4 DEF Max
  <2> QED
    BY <2>1, <2>2, <2>3, <2>5 DEF Slack
<1>3. CASE k \notin {"pricefeed", "portfolio"}
  <2>1. Parts(k) = <<>>
    BY <1>3 DEF Parts
  <2>2. PartsOf(k) = {}
    BY <2>1 DEF PartsOf
  <2>3. S = {0}
    BY <2>2
  <2>4. \E x \in S : \A y \in S : x >= y
    BY <2>3
  <2>5. Max(S) \in S
    BY <2>4 DEF Max
  <2> QED
    BY <2>2, <2>3, <2>5 DEF Slack
<1> QED
  BY <1>1, <1>2, <1>3

\* Short sequences of keys, written out.
LEMMA Appends ==
  ASSUME NEW a \in Key, NEW b \in Key, NEW c \in Key
  PROVE  Append(<<a>>, b) = <<a, b>> /\ Append(<<a, b>>, c) = <<a, b, c>>
<1>1. <<a>> \in Seq(Key) /\ <<a, b>> \in Seq(Key) /\ <<a, b, c>> \in Seq(Key)
  OBVIOUS
<1>2. /\ Append(<<a>>, b) \in Seq(Key) /\ Len(Append(<<a>>, b)) = 2
      /\ Append(<<a, b>>, c) \in Seq(Key) /\ Len(Append(<<a, b>>, c)) = 3
  BY <1>1
<1>3. \A i \in 1..2 : Append(<<a>>, b)[i] = <<a, b>>[i]
  BY <1>1
<1>4. \A i \in 1..3 : Append(<<a, b>>, c)[i] = <<a, b, c>>[i]
  BY <1>1
<1> QED
  BY <1>1, <1>2, <1>3, <1>4, SeqEqual

\* A view starts with its parts.
LEMMA Begins ==
  ASSUME NEW k \in Key
  PROVE  Append(Parts(k), k) \in Todo /\ Goal(Append(Parts(k), k)) = k
<1>1. CASE k = "pricefeed"
  <2>1. Parts(k) = <<"orders">>
    BY <1>1 DEF Parts
  <2>2. Append(Parts(k), k) = <<"orders", "pricefeed">>
    <3>1. "orders" \in Key /\ "pricefeed" \in Key
      BY DEF Key
    <3>2. Append(<<"orders">>, "pricefeed") = <<"orders", "pricefeed">>
      BY <3>1, Appends
    <3> QED
      BY <1>1, <2>1, <3>2
  <2>3. Goal(<<"orders", "pricefeed">>) = "pricefeed"
    BY DEF Goal
  <2> QED
    BY <1>1, <2>2, <2>3 DEF Todo
<1>2. CASE k = "portfolio"
  <2>1. Parts(k) = <<"orders", "bond">>
    BY <1>2 DEF Parts
  <2>2. Append(Parts(k), k) = <<"orders", "bond", "portfolio">>
    <3>1. "orders" \in Key /\ "bond" \in Key /\ "portfolio" \in Key
      BY DEF Key
    <3>2. Append(<<"orders", "bond">>, "portfolio") = <<"orders", "bond", "portfolio">>
      BY <3>1, Appends
    <3> QED
      BY <1>2, <2>1, <3>2
  <2>3. Goal(<<"orders", "bond", "portfolio">>) = "portfolio"
    BY DEF Goal
  <2> QED
    BY <1>2, <2>2, <2>3 DEF Todo
<1>3. CASE k \notin {"pricefeed", "portfolio"}
  <2>1. Parts(k) = <<>>
    BY <1>3 DEF Parts
  <2>2. Append(Parts(k), k) = <<k>>
    BY <2>1
  <2> QED
    BY <2>2 DEF Todo, Goal
<1> QED
  BY <1>1, <1>2, <1>3

\* The steps of a read: a part of the view, which has no parts of its own, and
\* last the view.
LEMMA Continues ==
  ASSUME NEW todo \in Todo
  PROVE  /\ Head(todo) \in Key /\ Goal(todo) \in Key
         /\ Len(todo) = 1 => Goal(todo) = Head(todo)
         /\ Len(todo) # 1 => /\ Tail(todo) \in Todo /\ Goal(Tail(todo)) = Goal(todo)
                             /\ Head(todo) \in PartsOf(Goal(todo)) /\ Parts(Head(todo)) = <<>>
<1>1. CASE \E k \in Key : todo = <<k>>
  BY <1>1 DEF Goal
<1>2. CASE todo = <<"orders", "pricefeed">>
  <2>1. Tail(todo) = <<"pricefeed">> /\ Head(todo) = "orders" /\ Goal(todo) = "pricefeed"
    BY <1>2 DEF Goal
  <2>2. Goal(<<"pricefeed">>) = "pricefeed" /\ <<"pricefeed">> \in Todo
    BY DEF Goal, Todo, Key
  <2>3. Parts("pricefeed") = <<"orders">> /\ Parts("orders") = <<>>
    BY DEF Parts
  <2>4. "orders" \in PartsOf("pricefeed")
    BY <2>3 DEF PartsOf
  <2> QED
    BY <1>2, <2>1, <2>2, <2>3, <2>4 DEF Key
<1>3. CASE todo = <<"orders", "bond", "portfolio">>
  <2>1. Tail(todo) = <<"bond", "portfolio">> /\ Head(todo) = "orders" /\ Goal(todo) = "portfolio"
    BY <1>3 DEF Goal
  <2>2. Goal(<<"bond", "portfolio">>) = "portfolio" /\ <<"bond", "portfolio">> \in Todo
    BY DEF Goal, Todo
  <2>3. Parts("portfolio") = <<"orders", "bond">> /\ Parts("orders") = <<>>
    BY DEF Parts
  <2>4. "orders" \in PartsOf("portfolio")
    BY <2>3 DEF PartsOf
  <2> QED
    BY <1>3, <2>1, <2>2, <2>3, <2>4 DEF Key
<1>4. CASE todo = <<"bond", "portfolio">>
  <2>1. Tail(todo) = <<"portfolio">> /\ Head(todo) = "bond" /\ Goal(todo) = "portfolio"
    BY <1>4 DEF Goal
  <2>2. Goal(<<"portfolio">>) = "portfolio" /\ <<"portfolio">> \in Todo
    BY DEF Goal, Todo, Key
  <2>3. Parts("portfolio") = <<"orders", "bond">> /\ Parts("bond") = <<>>
    BY DEF Parts
  <2>4. "bond" \in PartsOf("portfolio")
    BY <2>3 DEF PartsOf
  <2> QED
    BY <1>4, <2>1, <2>2, <2>3, <2>4 DEF Key
<1> QED
  BY <1>1, <1>2, <1>3, <1>4 DEF Todo

\* The numbers of the errors that the services tell apart.
LEMMA Numbers ==
  /\ Number("InvalidNonce") = 3
  /\ \A name : extractContractErrorCode(name) \in 0..11
  /\ \A name : extractContractErrorCode(name) = 10 <=> name = "InsufficientFunds"
  /\ extractContractErrorCode("InvalidNonce") = 3
<1>1. DOMAIN DEXError = 1..11
  BY DEF DEXError
<1>2. DEXError[3] = "InvalidNonce" /\ DEXError[10] = "InsufficientFunds"
  BY DEF DEXError
<1>3. \A i \in 1..11 : /\ DEXError[i] = "InvalidNonce" => i = 3
                       /\ DEXError[i] = "InsufficientFunds" => i = 10
  BY DEF DEXError
<1>4. Number("InvalidNonce") = 3 /\ Number("InsufficientFunds") = 10
  BY <1>1, <1>2, <1>3 DEF Number
<1>5. ASSUME NEW name, \E i \in DOMAIN DEXError : DEXError[i] = name
      PROVE  Number(name) \in 1..11 /\ DEXError[Number(name)] = name
  BY <1>1, <1>5 DEF Number
<1>6. ASSUME NEW name
      PROVE  /\ extractContractErrorCode(name) \in 0..11
             /\ extractContractErrorCode(name) = 10 <=> name = "InsufficientFunds"
  <2>1. CASE \E i \in DOMAIN DEXError : DEXError[i] = name
    BY <1>2, <1>4, <1>5, <2>1 DEF extractContractErrorCode
  <2>2. CASE ~\E i \in DOMAIN DEXError : DEXError[i] = name
    BY <1>1, <1>2, <2>2 DEF extractContractErrorCode
  <2> QED
    BY <2>1, <2>2
<1> QED
  BY <1>1, <1>2, <1>4, <1>6 DEF extractContractErrorCode
-----------------------------------------------------------------------------
CallOK(q) == q \in Call /\ ReadOK(q) /\ SendOK(q) /\ FailOK(q)

\* A request that has not begun.
LEMMA IdleOK == CallOK(NoRequest)
<1>0. Seller \in Caller
  BY ServiceAssumption
<1>1. NoRequest \in Call
  BY <1>0 DEF NoRequest, Call, Operation
<1>2. NoRequest.pc = "none" /\ NoRequest.life = 0
  BY DEF NoRequest
<1> QED
  BY <1>1, <1>2, Times DEF CallOK, ReadOK, SendOK, FailOK

\* The invariant holds at the start.
LEMMA SvcInitInv == SvcInit => SvcInv
<1> SUFFICES ASSUME SvcInit PROVE SvcInv
  OBVIOUS
<1>1. ledger \in Seq(Order) /\ Len(ledger) = 1
  <2>1. PICK o \in Order : ledger = <<o>>
    <3>1. /\ [status |-> "none", amount |-> 0, escrow |-> MaxAmount] \in Order
          /\ [status |-> "open", amount |-> MaxAmount, escrow |-> 1] \in Order
      BY Times DEF Order, Statuses
    <3> QED
      BY <3>1 DEF SvcInit
  <2> QED
    BY <2>1
<1>2. \A r \in Request : req[r] = NoRequest /\ CallOK(req[r])
  BY IdleOK DEF SvcInit
<1>3. SvcTypeOK
  <2>1. cache \in [Key -> [ver : Nat, left : Nat]]
    BY DEF SvcInit, Absent
  <2>2. req \in [Request -> Call]
    BY <1>2 DEF CallOK, SvcInit
  <2>3. /\ sequence \in [Signers -> Nat] /\ quiet \in [Signers -> Nat]
        /\ known \in [Signers -> [seq : Nat, left : Nat]]
        /\ age \in [1..MaxVersions -> Nat] /\ counter \in [Caller -> Nat] /\ nonces \in [Caller -> Nat]
    BY Times DEF SvcInit
  <2> QED
    BY <1>1, <2>1, <2>2, <2>3, Times DEF SvcTypeOK, SvcInit, Now
<1>4. AgesOK
  BY DEF AgesOK, SvcInit
<1>5. \A k \in Key : CacheOK(k)
  BY DEF CacheOK, Hit, SvcInit, Absent
<1>6. \A s \in Signers : AccountOK(s)
  BY Times DEF AccountOK, SvcInit
<1> QED
  BY <1>2, <1>3, <1>4, <1>5, <1>6 DEF SvcInv, CallOK

\* A request moves, and nothing but the cache changes with it.
LEMMA Moves ==
  ASSUME SvcInv, NEW r \in Request, NEW q, CallOK(q), Goto(r, q),
         cache' \in [Key -> [ver : Nat, left : Nat]], \A k \in Key : CacheOK(k)'
  PROVE  SvcInv'
<1>1. UNCHANGED <<scene, ledger, age, sequence, known, quiet, pool, counter, nonces>>
      /\ req' = [req EXCEPT ![r] = q]
  BY DEF Goto
<1>2. req' \in [Request -> Call] /\ \A w \in Request : req'[w] = IF w = r THEN q ELSE req[w]
  BY <1>1 DEF SvcInv, SvcTypeOK, CallOK
<1>3. SvcTypeOK'
  BY <1>1, <1>2 DEF SvcInv, SvcTypeOK, Now
<1>4. AgesOK' /\ \A s \in Signers : AccountOK(s)'
  BY <1>1 DEF SvcInv, AgesOK, AccountOK, Now
<1>5. ASSUME NEW w \in Request PROVE (ReadOK(req[w]) /\ SendOK(req[w]) /\ FailOK(req[w]))'
  <2> DEFINE p == req'[w]
  <2>1. ReadOK(p) /\ SendOK(p) /\ FailOK(p)
    BY <1>2 DEF SvcInv, CallOK
  <2>2. ReadOK(req[w])'
    BY <1>1, <2>1 DEF ReadOK, Now
  <2>3. SendOK(req[w])'
    BY <1>1, <2>1 DEF SendOK
  <2>4. FailOK(req[w])'
    BY <1>1, <2>1 DEF FailOK, Now
  <2> QED
    BY <2>2, <2>3, <2>4
<1> QED
  BY <1>3, <1>4, <1>5 DEF SvcInv

\* The cache stays as it is while a request moves.
LEMMA MovesOnly ==
  ASSUME SvcInv, NEW r \in Request, NEW q, CallOK(q), Goto(r, q), UNCHANGED cache
  PROVE  SvcInv'
<1>1. \A k \in Key : CacheOK(k)'
  BY DEF SvcInv, CacheOK, Hit, Goto, Now
<1>2. cache' \in [Key -> [ver : Nat, left : Nat]]
  BY DEF SvcInv, SvcTypeOK
<1> QED
  BY <1>1, <1>2, Moves

\* A read that goes on to its next part, or ends.
LEMMA RestOK ==
  ASSUME SvcInv, NEW q \in Call, q.todo \in Todo, q.view \in 1..Now, q.life <= TxLife,
         age[q.view] <= Slack(Goal(q.todo))
  PROVE  CallOK(Rest(q))
<1>1. CASE Len(q.todo) = 1
  BY <1>1, IdleOK DEF Rest
<1>2. CASE Len(q.todo) # 1
  <2> DEFINE p == [q EXCEPT !.pc = "read", !.todo = Tail(@), !.got = 0]
  <2>1. Tail(q.todo) \in Todo /\ Goal(Tail(q.todo)) = Goal(q.todo)
    BY <1>2, Continues
  <2>2. p \in Call /\ p.pc = "read" /\ p.todo = Tail(q.todo) /\ p.view = q.view /\ p.life = q.life
    BY <2>1 DEF Call
  <2>3. ReadOK(p) /\ SendOK(p) /\ FailOK(p)
    BY <2>1, <2>2 DEF ReadOK, SendOK, FailOK
  <2> QED
    BY <1>2, <2>2, <2>3 DEF Rest, CallOK
<1> QED
  BY <1>1, <1>2

\* A read begins.
LEMMA ReadBegins ==
  ASSUME SvcInv, NEW r \in Request, NEW k \in Key, Read(r, k)
  PROVE  SvcInv'
<1> DEFINE q == [NoRequest EXCEPT !.pc = "read", !.todo = Append(Parts(k), k), !.view = Now]
<1>1. Now \in 1..MaxVersions /\ age[Now] = 0
  BY DEF SvcInv, SvcTypeOK, AgesOK
<1>2. Append(Parts(k), k) \in Todo /\ Goal(Append(Parts(k), k)) = k
  BY Begins
<1>3. q \in Call
  <2>1. Now \in Nat
    BY <1>1, Times
  <2> QED
    BY <1>2, <2>1, IdleOK DEF CallOK, Call
<1>4. q.pc = "read" /\ q.todo = Append(Parts(k), k) /\ q.view = Now /\ q.life = 0
  BY DEF NoRequest
<1>5. ReadOK(q)
  BY <1>1, <1>2, <1>4, Slacks DEF ReadOK
<1>6. CallOK(q)
  BY <1>3, <1>4, <1>5, Times DEF CallOK, SendOK, FailOK
<1> QED
  BY <1>6, MovesOnly DEF Read

\* The next part of a read, cached or from the ledger.
LEMMA FetchInv ==
  ASSUME SvcInv, NEW r \in Request, Fetch(r)
  PROVE  SvcInv'
<1> DEFINE q == req[r]
           k == Head(q.todo)
<1>1. /\ q \in Call /\ q.pc = "read" /\ ReadOK(q) /\ q.life <= TxLife /\ UNCHANGED cache
  BY DEF SvcInv, SvcTypeOK, SendOK, Fetch
<1>2. q.todo \in Todo /\ q.view \in 1..Now /\ age[q.view] <= Slack(Goal(q.todo))
  BY <1>1 DEF ReadOK
<1>3. k \in Key /\ Now \in 1..MaxVersions /\ age[Now] = 0
  BY <1>2, Continues DEF SvcInv, SvcTypeOK, AgesOK
<1>4. CASE Parts(k) # <<>>
  <2> DEFINE p == [q EXCEPT !.pc = "set", !.got = q.view]
  <2>1. p \in Call /\ p.pc = "set" /\ p.todo = q.todo /\ p.view = q.view /\ p.got = q.view /\ p.life = q.life
    BY <1>1 DEF Call
  <2>2. Goal(q.todo) = k
    BY <1>2, <1>4, Continues
  <2>3. CallOK(p)
    BY <1>1, <1>2, <2>1, <2>2 DEF CallOK, ReadOK, SendOK, FailOK
  <2>4. Goto(r, p)
    BY <1>4 DEF Fetch
  <2> QED
    BY <1>1, <2>3, <2>4, MovesOnly
<1>5. CASE Parts(k) = <<>> /\ Hit(k)
  <2> DEFINE v == Older(q.view, cache[k].ver)
             p == [q EXCEPT !.view = Older(@, cache[k].ver)]
  <2>1. CASE Len(q.todo) = 1
    <3>1. Rest(p) = NoRequest
      BY <1>1, <2>1 DEF Rest, Call
    <3>2. Goto(r, NoRequest)
      BY <1>5, <3>1 DEF Fetch
    <3> QED
      BY <1>1, <3>2, IdleOK, MovesOnly
  <2>2. CASE Len(q.todo) # 1
    <3>1. k \in PartsOf(Goal(q.todo)) /\ Goal(q.todo) \in Key
      BY <1>2, <2>2, Continues
    <3>2. /\ cache[k].ver \in 1..Now /\ cache[k].left \in Nat
          /\ age[cache[k].ver] + cache[k].left <= Ttl[k] + Slack(k)
      BY <1>3, <1>5 DEF SvcInv, SvcTypeOK, CacheOK
    <3>3. age[cache[k].ver] \in Nat /\ Slack(k) = 0 /\ Ttl[k] <= Slack(Goal(q.todo)) /\ Ttl[k] \in Nat
          /\ Slack(Goal(q.todo)) \in Nat
      BY <1>3, <1>5, <3>1, <3>2, Slacks, Times DEF SvcInv, SvcTypeOK
    <3>4. age[cache[k].ver] <= Slack(Goal(q.todo))
      BY <3>2, <3>3
    <3>5. v \in 1..Now /\ age[v] <= Slack(Goal(q.todo))
      BY <1>2, <3>2, <3>4 DEF Older
    <3>6. p \in Call /\ p.view = v /\ p.todo = q.todo /\ p.life = q.life
      <4>1. v \in Nat /\ p = [q EXCEPT !.view = v]
        BY <1>1, <1>3, <3>5, Times DEF Call
      <4> HIDE DEF p, v
      <4> QED
        BY <1>1, <4>1 DEF Call
    <3>7. CallOK(Rest(p))
      <4> HIDE DEF p, v
      <4> QED
        BY <1>1, <1>2, <3>5, <3>6, RestOK
    <3>8. Goto(r, Rest(p))
      BY <1>5 DEF Fetch
    <3> QED
      BY <1>1, <3>7, <3>8, MovesOnly
  <2> QED
    BY <2>1, <2>2
<1>6. CASE Parts(k) = <<>> /\ ~Hit(k)
  <2> DEFINE p == [q EXCEPT !.pc = "set", !.got = Now]
  <2>1. p \in Call /\ p.pc = "set" /\ p.todo = q.todo /\ p.view = q.view /\ p.got = Now /\ p.life = q.life
    <3>1. Now \in Nat
      BY <1>3, Times
    <3> QED
      BY <1>1, <3>1 DEF Call
  <2>2. CallOK(p)
    BY <1>1, <1>2, <1>3, <1>6, <2>1, Slacks DEF CallOK, ReadOK, SendOK, FailOK
  <2>3. Goto(r, p)
    BY <1>6 DEF Fetch
  <2> QED
    BY <1>1, <2>2, <2>3, MovesOnly
<1> QED
  BY <1>4, <1>5, <1>6

\* A part, or the view, is written to its cache.
LEMMA StoreInv ==
  ASSUME SvcInv, NEW r \in Request, Store(r)
  PROVE  SvcInv'
<1> DEFINE q == req[r]
           k == Head(q.todo)
           v == Older(q.view, q.got)
           p == [q EXCEPT !.view = Older(@, q.got)]
<1>1. /\ q \in Call /\ q.pc = "set" /\ ReadOK(q) /\ q.life <= TxLife
      /\ cache' = [cache EXCEPT ![k] = setEx(k, q.got)] /\ Goto(r, Rest(p))
  BY DEF SvcInv, SvcTypeOK, SendOK, Store
<1>2. /\ q.todo \in Todo /\ q.view \in 1..Now /\ age[q.view] <= Slack(Goal(q.todo))
      /\ q.got \in 1..Now /\ age[q.got] <= Slack(k)
  BY <1>1 DEF ReadOK
<1>3. k \in Key /\ Goal(q.todo) \in Key /\ Now \in 1..MaxVersions
  BY <1>2, Continues DEF SvcInv, SvcTypeOK
<1>4. Slack(k) \in Nat /\ Slack(Goal(q.todo)) \in Nat /\ Ttl[k] \in Nat
  BY <1>3, Slacks, Times
<1>5. cache' \in [Key -> [ver : Nat, left : Nat]]
  BY <1>1, <1>4 DEF setEx, SvcInv, SvcTypeOK, Call
<1>6. ASSUME NEW l \in Key PROVE CacheOK(l)'
  <2>1. CASE l = k
    <3>1. cache'[l] = [ver |-> q.got, left |-> Ttl[k]]
      BY <1>1, <1>3, <2>1 DEF setEx, SvcInv, SvcTypeOK
    <3>2. age[q.got] \in Nat
      BY <1>2, <1>3, Times DEF SvcInv, SvcTypeOK
    <3> QED
      BY <1>1, <1>2, <1>4, <2>1, <3>1, <3>2 DEF CacheOK, Goto, Now
  <2>2. CASE l # k
    <3>1. cache'[l] = cache[l] /\ CacheOK(l)
      BY <1>1, <2>2 DEF SvcInv, SvcTypeOK
    <3> QED
      BY <1>1, <3>1 DEF CacheOK, Hit, Goto, Now
  <2> QED
    BY <2>1, <2>2
<1>7. CallOK(Rest(p))
  <2>1. CASE Len(q.todo) = 1
    <3>1. Rest(p) = NoRequest
      BY <1>1, <2>1 DEF Rest, Call
    <3> QED
      BY <3>1, IdleOK
  <2>2. CASE Len(q.todo) # 1
    <3>1. Slack(k) = 0
      BY <1>2, <1>3, <2>2, Continues, Slacks
    <3>2. age[q.got] <= Slack(Goal(q.todo))
      BY <1>2, <1>3, <1>4, <3>1, Times DEF SvcInv, SvcTypeOK
    <3>3. v \in 1..Now /\ age[v] <= Slack(Goal(q.todo))
      BY <1>2, <3>2 DEF Older
    <3>4. p \in Call /\ p.view = v /\ p.todo = q.todo /\ p.life = q.life
      <4>1. v \in Nat /\ p = [q EXCEPT !.view = v]
        BY <1>1, <1>3, <3>3, Times DEF Call
      <4> HIDE DEF p, v
      <4> QED
        BY <1>1, <4>1 DEF Call
    <3> HIDE DEF p, v
    <3> QED
      BY <1>1, <1>2, <3>3, <3>4, RestOK
  <2> QED
    BY <2>1, <2>2
<1> HIDE DEF p
<1> QED
  BY <1>1, <1>5, <1>6, <1>7, Moves

\* An operation begins.
LEMMA StartInv ==
  ASSUME SvcInv, NEW r \in Request, NEW op \in Operation, NEW c \in Caller,
         NEW amount \in Nat, NEW max \in Nat, Start(r, op, c, amount, max)
  PROVE  SvcInv'
<1> DEFINE q == [NoRequest EXCEPT !.pc = "nonce", !.op = op, !.caller = c, !.amount = amount,
                                  !.max = max, !.view = Now]
<1>1. Now \in Nat
  BY Times DEF SvcInv, SvcTypeOK
<1>2. q \in Call
  BY <1>1, IdleOK DEF CallOK, Call
<1>3. q.pc = "nonce" /\ q.life = 0
  BY DEF NoRequest
<1>4. CallOK(q)
  BY <1>2, <1>3, Times DEF CallOK, ReadOK, SendOK, FailOK
<1> QED
  BY <1>4, MovesOnly DEF Start

\* A request ends by throwing.
LEMMA ThrowInv ==
  ASSUME SvcInv, NEW r \in Request, throwMappedContractError(r)
  PROVE  SvcInv'
<1> QED
  BY IdleOK, MovesOnly DEF throwMappedContractError

\* A request ends by answering, or goes on to read or to cache what it made.
LEMMA AnswerInv ==
  ASSUME SvcInv, NEW r \in Request, Answer(r)
  PROVE  SvcInv'
<1> DEFINE q == req[r]
<1>1. cache' = [k \in Key |-> IF k \in Evicted(q) THEN Absent ELSE cache[k]]
  BY DEF Answer
<1>2. cache' \in [Key -> [ver : Nat, left : Nat]]
  BY <1>1 DEF SvcInv, SvcTypeOK, Absent
<1>3. ASSUME NEW k \in Key, UNCHANGED <<ledger, age>> PROVE CacheOK(k)'
  <2>1. CASE k \in Evicted(q)
    BY <1>1, <2>1 DEF CacheOK, Hit, Absent
  <2>2. CASE k \notin Evicted(q)
    <3>1. cache'[k] = cache[k] /\ CacheOK(k)
      BY <1>1, <2>2 DEF SvcInv
    <3> QED
      BY <1>3, <3>1 DEF CacheOK, Hit, Now
  <2> QED
    BY <2>1, <2>2
<1>4. ASSUME NEW p, CallOK(p), Goto(r, p) PROVE SvcInv'
  BY <1>2, <1>3, <1>4, Moves DEF Goto
<1>5. Now \in 1..MaxVersions /\ Now \in Nat /\ age[Now] = 0
  BY Times DEF SvcInv, SvcTypeOK, AgesOK
<1>6. CASE q.op \in {"listBondTokens", "buyBondTokens"}
  <2> DEFINE todo == <<"order">>
             p == [NoRequest EXCEPT !.pc = "read", !.todo = todo, !.view = Now]
  <2>1. todo \in Todo /\ Goal(todo) \in Key
    BY DEF Todo, Goal, Key
  <2>2. Goto(r, p)
    BY <1>6 DEF Answer
  <2> HIDE DEF todo
  <2>3. p \in Call
    BY <1>5, <2>1, IdleOK DEF CallOK, Call
  <2>4. p.pc = "read" /\ p.todo = todo /\ p.view = Now /\ p.life = 0
    BY DEF NoRequest
  <2>5. CallOK(p)
    BY <1>5, <2>1, <2>3, <2>4, Slacks, Times DEF CallOK, ReadOK, SendOK, FailOK
  <2> QED
    BY <1>4, <2>2, <2>5
<1>7. CASE q.op \in {"create", "register"}
  <2> DEFINE key == IF q.op = "create" THEN "bond" ELSE "project"
             todo == <<key>>
             p == [NoRequest EXCEPT !.pc = "set", !.view = Now, !.got = Now, !.todo = todo]
  <2>1. key \in Key
    BY DEF Key
  <2>2. Goto(r, p)
    BY <1>7 DEF Answer
  <2> HIDE DEF key
  <2>3. todo \in Todo /\ Goal(todo) \in Key /\ Head(todo) \in Key
    BY <2>1 DEF Todo, Goal
  <2> HIDE DEF todo
  <2>4. p \in Call
    BY <1>5, <2>3, IdleOK DEF CallOK, Call
  <2>5. p.pc = "set" /\ p.todo = todo /\ p.view = Now /\ p.got = Now /\ p.life = 0
    BY DEF NoRequest
  <2>6. CallOK(p)
    BY <1>5, <2>3, <2>4, <2>5, Slacks, Times DEF CallOK, ReadOK, SendOK, FailOK
  <2> QED
    BY <1>4, <2>2, <2>6
<1>8. CASE q.op \notin {"listBondTokens", "buyBondTokens", "create", "register"}
  <2>1. Goto(r, NoRequest)
    BY <1>8 DEF Answer
  <2> QED
    BY <1>4, <2>1, IdleOK
<1> QED
  BY <1>6, <1>7, <1>8

\* Every operation has one of the accounts sign.
LEMMA Signing == \A op : Signer(op) \in Signers
<1> QED
  BY DEF Signer, Signers

\* A request moves on the way to its transaction.
LEMMA Sends ==
  ASSUME SvcInv, NEW r \in Request, NEW q, CallOK(q), req' = [req EXCEPT ![r] = q],
         UNCHANGED <<scene, ledger, age, cache, sequence, quiet, nonces>>,
         known' \in [Signers -> [seq : Nat, left : Nat]], \A s \in Signers : AccountOK(s)',
         pool' \in SUBSET Transaction, counter' \in [Caller -> Nat]
  PROVE  SvcInv'
<1>1. req' \in [Request -> Call] /\ \A w \in Request : req'[w] = IF w = r THEN q ELSE req[w]
  BY DEF SvcInv, SvcTypeOK, CallOK
<1>2. SvcTypeOK'
  BY <1>1 DEF SvcInv, SvcTypeOK, Now
<1>3. AgesOK' /\ \A k \in Key : CacheOK(k)'
  BY DEF SvcInv, AgesOK, CacheOK, Hit, Now
<1>4. ASSUME NEW w \in Request PROVE (ReadOK(req[w]) /\ SendOK(req[w]) /\ FailOK(req[w]))'
  <2> DEFINE p == req'[w]
  <2>1. ReadOK(p) /\ SendOK(p) /\ FailOK(p)
    BY <1>1 DEF SvcInv, CallOK
  <2>2. ReadOK(req[w])'
    BY <2>1 DEF ReadOK, Now
  <2>3. SendOK(req[w])'
    BY <2>1 DEF SendOK
  <2>4. FailOK(req[w])'
    BY <2>1 DEF FailOK, Now
  <2> QED
    BY <2>2, <2>3, <2>4
<1> QED
  BY <1>2, <1>3, <1>4 DEF SvcInv

\* A transaction is built.  If the remembered account is behind the ledger, no
\* more than AccountTtl has passed since the last transaction.
LEMMA BuildInv ==
  ASSUME SvcInv, NEW r \in Request, Build(r)
  PROVE  SvcInv'
<1> DEFINE q == req[r]
           s == Signer(q.op)
           n == known'[s].seq + 1
           p == [q EXCEPT !.pc = "send", !.nonce = counter[q.caller], !.seq = n, !.life = TxLife]
<1>1. /\ q \in Call /\ q.caller \in Caller /\ counter[q.caller] \in Nat /\ s \in Signers
      /\ getAccount(s)
      /\ counter' = [counter EXCEPT ![q.caller] = @ + 1]
      /\ UNCHANGED <<scene, ledger, age, cache, sequence, quiet, pool, nonces>>
  BY Signing DEF Build, SvcInv, SvcTypeOK, Call
<1>2. /\ known[s].left \in Nat /\ known[s].seq \in Nat /\ sequence[s] \in Nat /\ quiet[s] \in Nat
      /\ AccountOK(s)
  BY <1>1 DEF SvcInv, SvcTypeOK
<1>3. known' \in [Signers -> [seq : Nat, left : Nat]]
  <2>1. [seq |-> sequence[s], left |-> AccountTtl] \in [seq : Nat, left : Nat]
    BY <1>2, Times
  <2> QED
    BY <1>1, <2>1 DEF getAccount, SvcInv, SvcTypeOK
<1>4. ASSUME NEW t \in Signers PROVE AccountOK(t)'
  <2>1. AccountOK(t)
    BY DEF SvcInv
  <2>2. CASE known' = known
    BY <1>1, <2>1, <2>2 DEF AccountOK
  <2>3. CASE known' = [known EXCEPT ![s] = [seq |-> sequence[s], left |-> AccountTtl]]
    BY <1>1, <2>1, <2>3, Times DEF AccountOK, SvcInv, SvcTypeOK
  <2> QED
    BY <1>1, <2>2, <2>3 DEF getAccount
<1>5. n \in Nat /\ (n # sequence[s] + 1 => quiet[s] + TxLife <= AccountTtl + TxLife)
  <2>1. CASE known[s].left > 0
    <3>1. known'[s] = known[s]
      BY <1>1, <2>1 DEF getAccount
    <3> QED
      BY <1>2, <2>1, <3>1, Times DEF AccountOK
  <2>2. CASE ~(known[s].left > 0)
    <3>1. known'[s].seq = sequence[s]
      BY <1>1, <2>2 DEF getAccount, SvcInv, SvcTypeOK
    <3> QED
      BY <1>2, <3>1
  <2> QED
    BY <2>1, <2>2
<1>6. req' = [req EXCEPT ![r] = p]
  BY DEF Build, SvcInv, SvcTypeOK
<1> HIDE DEF n
<1>7. p \in Call /\ p.pc = "send" /\ p.op = q.op /\ p.seq = n /\ p.life = TxLife
  BY <1>1, <1>5, Times DEF Call
<1>8. CallOK(p)
  <2>1. SendOK(p)
    BY <1>5, <1>7, Times DEF SendOK
  <2> QED
    BY <1>7, <2>1 DEF CallOK, ReadOK, FailOK
<1>9. counter' \in [Caller -> Nat] /\ pool' \in SUBSET Transaction
  BY <1>1 DEF SvcInv, SvcTypeOK
<1> QED
  BY <1>1, <1>3, <1>4, <1>6, <1>8, <1>9, Sends

\* A transaction is sent, or refused.
LEMMA SendInv ==
  ASSUME SvcInv, NEW r \in Request, sendTransaction(r)
  PROVE  SvcInv'
<1> DEFINE q == req[r]
           s == Signer(q.op)
           refused == simulateCall(q) # "none" \/ q.seq # sequence[s] + 1 \/ q.life = 0
           e == extractContractErrorCode(simulateCall(q))
           x == [q EXCEPT !.pc = "failed", !.view = Now, !.life = 0, !.error = e]
           y == [q EXCEPT !.pc = "evict"]
           t == [signer |-> s, seq |-> q.seq, nonce |-> q.nonce, op |-> q.op,
                 caller |-> q.caller, amount |-> q.amount, max |-> q.max]
<1>1. /\ q \in Call /\ SendOK(q) /\ s \in Signers /\ Now \in Nat /\ Now \in 1..Now
      /\ UNCHANGED <<scene, ledger, age, cache, sequence, known, quiet, counter, nonces>>
  BY Signing, Times DEF sendTransaction, SvcInv, SvcTypeOK
<1>2. req' = [req EXCEPT ![r] = IF refused THEN x ELSE y]
  BY DEF sendTransaction
<1>3. pool' \in SUBSET Transaction
  <2>1. t \in Transaction
    BY <1>1 DEF Call, Transaction
  <2>2. pool' = pool \/ pool' = pool \cup {t}
    BY DEF sendTransaction
  <2> QED
    BY <2>1, <2>2 DEF SvcInv, SvcTypeOK
<1>4. CallOK(y)
  <2>1. y \in Call /\ y.pc = "evict" /\ y.life = q.life
    BY <1>1 DEF Call
  <2> QED
    BY <1>1, <2>1 DEF CallOK, ReadOK, SendOK, FailOK
<1>5. CallOK(x)
  <2>1. e \in Nat /\ (e = Number("InvalidNonce") \/ e = extractContractErrorCode(Refusal(ledger[Now], q)))
    BY Numbers DEF simulateCall
  <2> HIDE DEF e
  <2>2. /\ x \in Call /\ x.pc = "failed" /\ x.view = Now /\ x.life = 0 /\ x.error = e
        /\ x.op = q.op /\ x.caller = q.caller /\ x.amount = q.amount /\ x.max = q.max
    BY <1>1, <2>1 DEF Call
  <2>3. Refusal(ledger[Now], x) = Refusal(ledger[Now], q)
    BY <2>2 DEF Refusal
  <2>4. FailOK(x)
    BY <1>1, <2>1, <2>2, <2>3 DEF FailOK
  <2> QED
    BY <2>2, <2>4, Times DEF CallOK, ReadOK, SendOK
<1>6. PICK p : CallOK(p) /\ req' = [req EXCEPT ![r] = p]
  BY <1>2, <1>4, <1>5
<1>7. /\ known' \in [Signers -> [seq : Nat, left : Nat]] /\ counter' \in [Caller -> Nat]
      /\ \A a \in Signers : AccountOK(a)'
  BY <1>1 DEF SvcInv, SvcTypeOK, AccountOK
<1> QED
  BY <1>1, <1>3, <1>6, <1>7, Sends

\* The ledger has another version, or not: what requests and caches know of
\* the versions before stays true.
LEMMA LedgerGrows ==
  ASSUME SvcInv, UNCHANGED <<age, cache, req>>,
         \/ ledger' = ledger
         \/ Now < MaxVersions /\ \E o \in Order : ledger' = Append(ledger, o)
  PROVE  /\ ledger' \in Seq(Order) /\ Now' \in 1..MaxVersions
         /\ AgesOK' /\ \A k \in Key : CacheOK(k)'
         /\ \A r \in Request : ReadOK(req[r])' /\ FailOK(req[r])'
<1>1. /\ ledger \in Seq(Order) /\ Now \in 1..MaxVersions /\ Now \in Nat /\ Now = Len(ledger)
  BY Times DEF SvcInv, SvcTypeOK, Now
<1>2. /\ ledger' \in Seq(Order) /\ Now' \in 1..MaxVersions /\ Now' >= Now
      /\ \A v \in 1..Now : ledger'[v] = ledger[v]
  <2>1. CASE ledger' = ledger
    BY <1>1, <2>1 DEF Now
  <2>2. CASE Now < MaxVersions /\ \E o \in Order : ledger' = Append(ledger, o)
    <3>1. PICK o \in Order : ledger' = Append(ledger, o)
      BY <2>2
    <3>2. Len(ledger') = Len(ledger) + 1
      BY <1>1, <3>1
    <3>3. Now' = Now + 1
      BY <1>1, <3>2 DEF Now
    <3>4. Now' \in 1..MaxVersions /\ Now' >= Now
      BY <1>1, <2>2, <3>3, Times
    <3> QED
      BY <1>1, <3>1, <3>4
  <2> QED
    BY <2>1, <2>2
<1>3. \A v : v \in 1..Now => v \in 1..Now'
  BY <1>1, <1>2, Times
<1>4. AgesOK'
  BY <1>1, <1>2, Times DEF SvcInv, AgesOK
<1>5. \A k \in Key : CacheOK(k)'
  BY <1>3 DEF SvcInv, CacheOK, Hit
<1>6. ASSUME NEW r \in Request PROVE ReadOK(req[r])' /\ FailOK(req[r])'
  <2>1. ReadOK(req[r]) /\ FailOK(req[r]) /\ req'[r] = req[r]
    BY DEF SvcInv
  <2>2. ReadOK(req[r])'
    BY <1>3, <2>1 DEF ReadOK
  <2>3. FailOK(req[r])'
    BY <1>2, <1>3, <2>1 DEF FailOK
  <2> QED
    BY <2>2, <2>3
<1> QED
  BY <1>2, <1>4, <1>5, <1>6

\* What a transaction makes of the order book is an order book.
LEMMA ResultType ==
  ASSUME NEW o \in Order, NEW t \in Transaction
  PROVE  Result(o, t) \in Order
<1>1. /\ o.status \in Statuses /\ o.amount \in Int /\ o.escrow \in Int /\ t.amount \in Nat
  BY DEF Order, Transaction
<1>2. CASE t.op = "buyBondTokens"
  <2> DEFINE st == IF o.amount = t.amount THEN "closed" ELSE o.status
             am == o.amount - t.amount
             es == o.escrow - t.amount
  <2>1. st \in Statuses /\ am \in Int /\ es \in Int
    BY <1>1 DEF Statuses
  <2>2. Result(o, t) = [o EXCEPT !.amount = am, !.escrow = es, !.status = st]
    BY <1>2 DEF Result, Order
  <2> HIDE DEF st, am, es
  <2> QED
    BY <2>1, <2>2 DEF Order
<1>3. CASE t.op = "cancelOrder"
  BY <1>3 DEF Result, Order, Statuses
<1>4. CASE t.op = "listBondTokens"
  <2>1. MaxAmount \in Int
    BY Times
  <2> QED
    BY <1>4, <2>1 DEF Result, Order, Statuses
<1>5. CASE t.op = "depositQuote"
  BY <1>1, <1>5 DEF Result, Order
<1>6. CASE t.op = "withdrawQuote"
  BY <1>1, <1>6 DEF Result, Order
<1>7. CASE t.op \notin {"buyBondTokens", "cancelOrder", "listBondTokens", "depositQuote", "withdrawQuote"}
  BY <1>7 DEF Result
<1> QED
  BY <1>2, <1>3, <1>4, <1>5, <1>6, <1>7

\* A transaction is applied.  Its account moves on, and what was built on the
\* account before is behind from now on.
LEMMA ApplyInv ==
  ASSUME SvcInv, NEW t \in pool, Apply(t)
  PROVE  SvcInv'
<1>1. /\ t \in Transaction /\ t.signer \in Signers /\ t.caller \in Caller
      /\ UNCHANGED <<scene, age, cache, req, known, counter>>
      /\ pool' = pool \ {t}
      /\ sequence' = [sequence EXCEPT ![t.signer] = @ + 1]
      /\ quiet' = [quiet EXCEPT ![t.signer] = 0]
  BY DEF Apply, Change, SvcInv, SvcTypeOK, Transaction
<1>2. ledger[Now] \in Order
  BY DEF SvcInv, SvcTypeOK, Now
<1>3. \/ ledger' = ledger
      \/ Now < MaxVersions /\ \E o \in Order : ledger' = Append(ledger, o)
  BY <1>1, <1>2, ResultType DEF Apply, Change
<1>4. /\ ledger' \in Seq(Order) /\ Now' \in 1..MaxVersions
      /\ AgesOK' /\ \A k \in Key : CacheOK(k)'
      /\ \A r \in Request : ReadOK(req[r])' /\ FailOK(req[r])'
  BY <1>1, <1>3, LedgerGrows
<1>5. nonces' \in [Caller -> Nat]
  <2>1. nonces' = nonces \/ nonces' = [nonces EXCEPT ![t.caller] = @ + 1]
    BY DEF Apply
  <2> QED
    BY <1>1, <2>1 DEF SvcInv, SvcTypeOK
<1>6. /\ sequence' \in [Signers -> Nat] /\ quiet' \in [Signers -> Nat]
      /\ pool' \in SUBSET Transaction
  BY <1>1 DEF SvcInv, SvcTypeOK
<1>7. SvcTypeOK'
  BY <1>1, <1>4, <1>5, <1>6 DEF SvcInv, SvcTypeOK
<1>8. ASSUME NEW s \in Signers
      PROVE  /\ s = t.signer => quiet'[s] = 0
             /\ s # t.signer => quiet'[s] = quiet[s] /\ sequence'[s] = sequence[s]
  BY <1>1 DEF SvcInv, SvcTypeOK
<1>9. ASSUME NEW s \in Signers PROVE AccountOK(s)'
  BY <1>1, <1>8, Times DEF SvcInv, SvcTypeOK, AccountOK
<1>10. ASSUME NEW r \in Request PROVE SendOK(req[r])'
  <2>1. SendOK(req[r]) /\ req'[r] = req[r] /\ Signer(req[r].op) \in Signers /\ req[r].life \in Nat
    BY <1>1, Signing DEF SvcInv, SvcTypeOK, Call
  <2> QED
    BY <1>8, <2>1, Times DEF SendOK
<1> QED
  BY <1>4, <1>7, <1>9, <1>10 DEF SvcInv

\* A transaction is dropped, or an order expires.
LEMMA OthersInv ==
  ASSUME SvcInv, (\E t \in pool : Drop(t)) \/ deriveEffectiveStatus
  PROVE  SvcInv'
<1>1. /\ UNCHANGED <<scene, age, cache, req, known, counter, sequence, quiet, nonces>>
      /\ pool' \subseteq pool
  BY DEF Drop, deriveEffectiveStatus, Change
<1>2. ledger[Now] \in Order
  BY DEF SvcInv, SvcTypeOK, Now
<1>3. [ledger[Now] EXCEPT !.status = "expired"] \in Order
  BY <1>2 DEF Order, Statuses
<1>4. \/ ledger' = ledger
      \/ Now < MaxVersions /\ \E o \in Order : ledger' = Append(ledger, o)
  BY <1>3 DEF Drop, deriveEffectiveStatus, Change
<1>5. /\ ledger' \in Seq(Order) /\ Now' \in 1..MaxVersions
      /\ AgesOK' /\ \A k \in Key : CacheOK(k)'
      /\ \A r \in Request : ReadOK(req[r])' /\ FailOK(req[r])'
  BY <1>1, <1>4, LedgerGrows
<1>6. SvcTypeOK'
  BY <1>1, <1>5 DEF SvcInv, SvcTypeOK
<1>7. /\ \A s \in Signers : AccountOK(s)'
      /\ \A r \in Request : SendOK(req[r])'
  BY <1>1 DEF SvcInv, AccountOK, SendOK
<1> QED
  BY <1>5, <1>6, <1>7 DEF SvcInv

\* Time passes.  What a request holds does not age, and what ages in a cache
\* loses as much of its time.
LEMMA TickInv ==
  ASSUME SvcInv, SvcTick
  PROVE  SvcInv'
<1>1. UNCHANGED <<scene, ledger, sequence, pool, counter, nonces>> /\ Now' = Now
  BY DEF SvcTick, Now
<1>2. /\ age' = [v \in 1..MaxVersions |->
                   IF v < Now /\ ~Held(v) /\ age[v] < MaxAge THEN age[v] + 1 ELSE age[v]]
      /\ cache' = [k \in Key |-> IF cache[k].left > 1 THEN [cache[k] EXCEPT !.left = @ - 1] ELSE Absent]
      /\ known' = [s \in Signers |-> IF known[s].left > 1 THEN [known[s] EXCEPT !.left = @ - 1]
                                    ELSE [seq |-> 0, left |-> 0]]
      /\ quiet' = [s \in Signers |-> IF quiet[s] = AccountTtl + TxLife THEN quiet[s] ELSE quiet[s] + 1]
      /\ req' = [r \in Request |-> [req[r] EXCEPT !.life = IF @ > 0 THEN @ - 1 ELSE 0]]
  BY DEF SvcTick
<1>3. age' \in [1..MaxVersions -> Nat]
  BY <1>2 DEF SvcInv, SvcTypeOK
<1>4. \A v \in 1..MaxVersions : /\ age[v] \in Nat /\ age'[v] <= age[v] + 1
                                /\ v >= Now => age'[v] = age[v]
                                /\ Held(v) => age'[v] = age[v]
  BY <1>2, Times DEF SvcInv, SvcTypeOK
<1>5. ASSUME NEW k \in Key
      PROVE  /\ cache'[k] \in [ver : Nat, left : Nat]
             /\ cache'[k].left > 0 => cache'[k].ver = cache[k].ver /\ cache'[k].left = cache[k].left - 1
                                      /\ cache[k].left > 1
  <2> DEFINE n == cache[k].left - 1
  <2>1. cache[k] \in [ver : Nat, left : Nat] /\ cache[k].left \in Nat
    BY DEF SvcInv, SvcTypeOK
  <2>2. CASE cache[k].left > 1
    <3>1. n \in Nat /\ cache'[k] = [cache[k] EXCEPT !.left = n]
      BY <1>2, <2>1, <2>2
    <3> HIDE DEF n
    <3>2. cache'[k] \in [ver : Nat, left : Nat] /\ cache'[k].ver = cache[k].ver /\ cache'[k].left = n
      BY <2>1, <3>1
    <3> QED
      BY <2>2, <3>2 DEF n
  <2>3. CASE ~(cache[k].left > 1)
    BY <1>2, <2>3 DEF Absent
  <2> QED
    BY <2>2, <2>3
<1>6. ASSUME NEW s \in Signers
      PROVE  /\ known'[s] \in [seq : Nat, left : Nat] /\ known[s].left \in Nat
             /\ known'[s].left <= known[s].left
             /\ known'[s].left > 0 => known'[s].seq = known[s].seq /\ known'[s].left = known[s].left - 1
  <2> DEFINE n == known[s].left - 1
  <2>1. known[s] \in [seq : Nat, left : Nat] /\ known[s].left \in Nat
    BY DEF SvcInv, SvcTypeOK
  <2>2. CASE known[s].left > 1
    <3>1. n \in Nat /\ n <= known[s].left /\ known'[s] = [known[s] EXCEPT !.left = n]
      BY <1>2, <2>1, <2>2
    <3> HIDE DEF n
    <3>2. known'[s] \in [seq : Nat, left : Nat] /\ known'[s].seq = known[s].seq /\ known'[s].left = n
      BY <2>1, <3>1
    <3> QED
      BY <2>1, <3>1, <3>2 DEF n
  <2>3. CASE ~(known[s].left > 1)
    <3>1. known'[s] = [seq |-> 0, left |-> 0]
      BY <1>2, <2>3
    <3> QED
      BY <2>1, <3>1
  <2> QED
    BY <2>2, <2>3
<1>7. ASSUME NEW s \in Signers PROVE quiet'[s] \in Nat /\ quiet[s] \in Nat /\ quiet'[s] <= quiet[s] + 1
  BY <1>2 DEF SvcInv, SvcTypeOK
<1>8. ASSUME NEW r \in Request
      PROVE  /\ req'[r] \in Call /\ req[r] \in Call
             /\ req'[r].life \in Nat /\ req[r].life \in Nat /\ req'[r].life <= req[r].life
             /\ req'[r].life > 0 => req'[r].life = req[r].life - 1
             /\ req'[r].pc = req[r].pc /\ req'[r].op = req[r].op /\ req'[r].seq = req[r].seq
             /\ req'[r].view = req[r].view /\ req'[r].got = req[r].got /\ req'[r].todo = req[r].todo
             /\ req'[r].error = req[r].error /\ req'[r].caller = req[r].caller
             /\ req'[r].amount = req[r].amount /\ req'[r].max = req[r].max
  <2> DEFINE n == IF req[r].life > 0 THEN req[r].life - 1 ELSE 0
  <2>1. req[r] \in Call /\ req[r].life \in Nat
    BY DEF SvcInv, SvcTypeOK, Call
  <2>2. n \in Nat /\ n <= req[r].life /\ (n > 0 => n = req[r].life - 1)
    BY <2>1
  <2>3. req'[r] = [req[r] EXCEPT !.life = n]
    BY <1>2
  <2> HIDE DEF n
  <2> QED
    BY <2>1, <2>2, <2>3 DEF Call
<1>9. SvcTypeOK'
  <2>1. cache' \in [Key -> [ver : Nat, left : Nat]]
    BY <1>2, <1>5
  <2>2. known' \in [Signers -> [seq : Nat, left : Nat]]
    BY <1>2, <1>6
  <2>3. quiet' \in [Signers -> Nat]
    BY <1>2, <1>7
  <2>4. req' \in [Request -> Call]
    BY <1>2, <1>8
  <2> QED
    BY <1>1, <1>3, <2>1, <2>2, <2>3, <2>4 DEF SvcInv, SvcTypeOK
<1>10. AgesOK'
  BY <1>1, <1>4 DEF SvcInv, AgesOK
<1>11. \A v \in 1..Now : v \in 1..MaxVersions
  BY Times DEF SvcInv, SvcTypeOK
<1>12. ASSUME NEW k \in Key PROVE CacheOK(k)'
  <2> SUFFICES ASSUME Hit(k)'
               PROVE  cache'[k].ver \in 1..Now' /\ age'[cache'[k].ver] + cache'[k].left <= Ttl[k] + Slack(k)
    BY DEF CacheOK
  <2>1. cache'[k].ver = cache[k].ver /\ cache'[k].left = cache[k].left - 1 /\ cache[k].left > 1
    BY <1>5 DEF Hit
  <2>2. cache[k].ver \in 1..Now /\ age[cache[k].ver] + cache[k].left <= Ttl[k] + Slack(k) /\ cache[k].left \in Nat
    BY <2>1 DEF SvcInv, SvcTypeOK, CacheOK, Hit
  <2>3. age[cache[k].ver] \in Nat /\ age'[cache[k].ver] <= age[cache[k].ver] + 1 /\ age'[cache[k].ver] \in Nat
    BY <1>3, <1>4, <1>11, <2>2
  <2> QED
    <3>1. Slack(k) \in Nat /\ Ttl[k] \in Nat
      BY Slacks, Times
    <3>2. age'[cache[k].ver] + (cache[k].left - 1) <= Ttl[k] + Slack(k)
      BY <2>2, <2>3, <3>1
    <3> QED
      BY <1>1, <2>1, <2>2, <3>2
<1>13. ASSUME NEW s \in Signers PROVE AccountOK(s)'
  BY <1>1, <1>6, <1>7, Times DEF SvcInv, AccountOK
<1>14. ASSUME NEW r \in Request PROVE (ReadOK(req[r]) /\ SendOK(req[r]) /\ FailOK(req[r]))'
  <2>1. ReadOK(req[r]) /\ SendOK(req[r]) /\ FailOK(req[r])
    BY DEF SvcInv
  <2>2. ReadOK(req[r])'
    <3>1. req[r].pc \in {"read", "set"} => Held(req[r].view) /\ Held(req[r].got)
      BY DEF Held
    <3> QED
      BY <1>1, <1>4, <1>8, <1>11, <2>1, <3>1 DEF ReadOK
  <2>3. SendOK(req[r])'
    <3>1. Signer(req[r].op) \in Signers
      BY Signing
    <3> QED
      BY <1>1, <1>7, <1>8, <2>1, <3>1, Times DEF SendOK
  <2>4. FailOK(req[r])'
    <3>1. \A o : Refusal(o, req'[r]) = Refusal(o, req[r])
      BY <1>8 DEF Refusal
    <3> QED
      BY <1>1, <1>8, <2>1, <3>1 DEF FailOK
  <2> QED
    BY <2>2, <2>3, <2>4
<1> QED
  BY <1>9, <1>10, <1>12, <1>13, <1>14 DEF SvcInv

\* Every step keeps the invariant.
LEMMA SvcNextInv == SvcInv /\ [SvcNext]_svcVars => SvcInv'
<1> SUFFICES ASSUME SvcInv, [SvcNext]_svcVars PROVE SvcInv'
  OBVIOUS
<1>1. CASE UNCHANGED svcVars
  <2>1. SvcTypeOK' /\ AgesOK' /\ (\A k \in Key : CacheOK(k)') /\ \A s \in Signers : AccountOK(s)'
    BY <1>1 DEF svcVars, SvcInv, SvcTypeOK, AgesOK, CacheOK, Hit, AccountOK, Now
  <2>2. \A r \in Request : (ReadOK(req[r]) /\ SendOK(req[r]) /\ FailOK(req[r]))'
    BY <1>1 DEF svcVars, SvcInv, ReadOK, SendOK, FailOK, Now
  <2> QED
    BY <2>1, <2>2 DEF SvcInv
<1>2. ASSUME NEW r \in Request, Reads(r) PROVE SvcInv'
  <2>1. \E k \in Key : Read(r, k)
    BY <1>2 DEF Reads, getOrder, listOrders, getPriceFeed, findOne, findAll, getPortfolio,
                findProject, findProjects, listProviders, Key
  <2> QED
    BY <2>1, ReadBegins
<1>3. ASSUME NEW r \in Request, listBondTokens(r) PROVE SvcInv'
  <2>1. Seller \in Caller /\ MaxAmount \in Nat /\ 0 \in Nat /\ "listBondTokens" \in Operation
    BY ServiceAssumption DEF Operation
  <2> QED
    BY <1>3, <2>1, StartInv DEF listBondTokens
<1>4. ASSUME NEW r \in Request, NEW c \in scene.callers, Mutations(r, c) PROVE SvcInv'
  <2>1. c \in Caller
    BY ServiceAssumption DEF SvcInv, SvcTypeOK
  <2>2. ASSUME NEW amount \in 1..MaxAmount, NEW max \in 0..1, buyBondTokens(r, c, amount, max) PROVE SvcInv'
    <3>1. amount \in Nat /\ max \in Nat /\ "buyBondTokens" \in Operation
      BY Times DEF Operation
    <3> QED
      BY <2>1, <2>2, <3>1, StartInv DEF buyBondTokens
  <2>3. ASSUME NEW op \in Operation, Start(r, op, c, 0, 0) PROVE SvcInv'
    BY <2>1, <2>3, StartInv
  <2>4. \/ \E amount \in 1..MaxAmount, max \in 0..1 : buyBondTokens(r, c, amount, max)
        \/ \E op \in Operation : Start(r, op, c, 0, 0)
    BY <1>4 DEF Mutations, cancelOrder, depositQuote, withdrawQuote, create, subscribe, distributeCoupon,
                claimCredits, transfer, sweepUndistributed, mature, register, approve, reject,
                registerProvider, challengeReport, Operation
  <2> QED
    BY <2>2, <2>3, <2>4
<1>5. ASSUME NEW r \in Request,
             Fetch(r) \/ Store(r) \/ Build(r) \/ sendTransaction(r) \/ throwMappedContractError(r) \/ Answer(r)
      PROVE  SvcInv'
  BY <1>5, FetchInv, StoreInv, BuildInv, SendInv, ThrowInv, AnswerInv
<1>6. ASSUME NEW t \in pool, Apply(t) \/ Drop(t) PROVE SvcInv'
  BY <1>6, ApplyInv, OthersInv
<1> QED
  BY <1>1, <1>2, <1>3, <1>4, <1>5, <1>6, OthersInv, TickInv DEF SvcNext

\* The invariant of the services.
LEMMA SvcInvariant == SvcSpec => []SvcInv
<1> QED
  BY SvcInitInv, SvcNextInv, PTL DEF SvcSpec

\* A cached answer of the API outlives what it shows by no more than its time
\* to live and that of the cached answers it was put together from, although
\* the services evict it before the transaction is applied.
THEOREM ViewsExpire == SvcSpec => []OutdatedViewsExpire
<1>1. SvcInv => OutdatedViewsExpire
  <2> SUFFICES ASSUME SvcInv, NEW k \in Key, Hit(k) PROVE age[cache[k].ver] < Ttl[k] + Slack(k)
    BY DEF OutdatedViewsExpire, Slack, PartsOf
  <2>1. /\ cache[k].ver \in 1..MaxVersions /\ cache[k].left \in Nat
        /\ age[cache[k].ver] + cache[k].left <= Ttl[k] + Slack(k)
    BY Times DEF SvcInv, SvcTypeOK, CacheOK
  <2>2. age[cache[k].ver] \in Nat /\ Slack(k) \in Nat /\ Ttl[k] \in Nat
    BY <2>1, Slacks, Times DEF SvcInv, SvcTypeOK
  <2> QED
    BY <2>1, <2>2 DEF Hit
<1> QED
  BY <1>1, SvcInvariant, PTL

\* StellarService's remembered accounts, and transactions built on them, are
\* behind the ledger only for their lifetimes after a transaction.
THEOREM SequencesClear == SvcSpec => []StaleSequencesClear
<1>1. SvcInv => StaleSequencesClear
  <2> SUFFICES ASSUME SvcInv, NEW s \in Signers
               PROVE  /\ known[s].left > 0 /\ known[s].seq # sequence[s] => quiet[s] < AccountTtl
                      /\ \A r \in Request :
                           /\ req[r].pc = "send" /\ req[r].life > 0
                           /\ Signer(req[r].op) = s /\ req[r].seq # sequence[s] + 1
                           => quiet[s] < AccountTtl + TxLife
    BY DEF StaleSequencesClear
  <2>1. quiet[s] \in Nat /\ known[s].left \in Nat /\ AccountOK(s)
    BY DEF SvcInv, SvcTypeOK
  <2>2. ASSUME NEW r \in Request PROVE req[r].life \in Nat /\ SendOK(req[r])
    BY DEF SvcInv, SvcTypeOK, Call
  <2> QED
    BY <2>1, <2>2, Times DEF AccountOK, SendOK
<1> QED
  BY <1>1, SvcInvariant, PTL

\* The API answers 402 (mapDexError) exactly where the order book refuses a
\* purchase because the escrow was spent after the service had checked it.
THEOREM DepositIsAskedFor == SvcSpec => []SpentEscrowAsksForDeposit
<1>1. SvcInv => SpentEscrowAsksForDeposit
  <2> SUFFICES ASSUME SvcInv, NEW r \in Request, req[r].pc = "failed", req[r].error # Number("InvalidNonce")
               PROVE  (HttpStatus(req[r]) = 402)
                        <=> (req[r].error # 0 /\ Refusal(ledger[req[r].view], req[r]) = "InsufficientFunds")
    BY DEF SpentEscrowAsksForDeposit
  <2> DEFINE q == req[r]
             f == Refusal(ledger[q.view], q)
  <2>1. q.error = extractContractErrorCode(f)
    BY DEF SvcInv, FailOK
  <2>2. f = "InsufficientFunds" => q.op = "buyBondTokens"
    BY DEF Refusal
  <2>3. q.error = 10 <=> f = "InsufficientFunds"
    BY <2>1, Numbers
  <2>4. HttpStatus(q) = 402 <=> (q.op \in {"buyBondTokens", "cancelOrder"} /\ q.error = 10)
    BY DEF HttpStatus, mapDexError, mapBondError, ContractException, DEX_ERROR_CODE
  <2> QED
    BY <2>2, <2>3, <2>4
<1> QED
  BY <1>1, SvcInvariant, PTL
=============================================================================
