--------------------------- MODULE RequestProofs ---------------------------
(***************************************************************************)
(* Proofs about what a request passes on its way in.  Idempotency, for any *)
(* requests, keys and payloads and any number of faults: replays are       *)
(* faithful, and the interceptor implements OnceOnly.  Admission, for any  *)
(* tabs, accounts, limits and lifetimes: challenges, intents and the rate  *)
(* limit.  KYC records, for any requests, changes, crashes and faults:     *)
(* answered changes survive and refusals are honoured.                     *)
(***************************************************************************)
EXTENDS Admission, Idempotency, KycRecords, FiniteSetTheorems, TLAPS

Record == [status : {"pending", "success", "error"}, payload : Payload \cup {"unknown"},
           result : Request \cup {NoOne}]

\* The progress of a request; what it keeps is the payload that complete has
\* read back.
Progress == [pc : Place, key : Key, payload : Payload, answer : Answer,
             replayed : Request \cup {NoOne}, kept : Payload \cup {"unknown"}]

IdemTypes ==
  /\ record \in [Key -> SUBSET Record] /\ req \in [Request -> Progress]
  /\ effects \subseteq [key : Key, payload : Payload, by : Request]
  /\ errored \subseteq Key /\ disturbed \subseteq Key

(***************************************************************************)
(* The inductive invariant, in four parts.  Requests: one that has got to  *)
(* the reservation finds a record for as long as Redis works, and the one  *)
(* that runs the handler finds its own payload in it.  Effects: there is a *)
(* record wherever there is an effect.  Records: a stored success is that  *)
(* of a handler that took effect.  Keys: on a key that is neither errored  *)
(* nor disturbed one request at most runs the handler, before any effect.  *)
(***************************************************************************)
RequestOK(r) ==
  LET q == req[r] IN
  /\ q.pc \in {"recheck", "handle", "complete", "store"} =>
       q.key \in disturbed \/ record[q.key] # {}
  /\ q.pc \in {"handle", "complete", "store"} =>
       q.key \in disturbed \/ \A e \in record[q.key] : e.payload = q.payload
  /\ q.pc = "store" => q.key \in disturbed \/ q.kept = q.payload
  /\ q.pc \in {"new", "mark", "recheck", "handle"} => q.answer = "none"
  /\ q.pc \in {"complete", "store"} =>
       \/ q.answer = "result" /\ Effect(r) \in effects
       \/ q.answer = "error" /\ q.key \in errored

EffectOK(e) == e = Effect(e.by) /\ (e.key \in disturbed \/ record[e.key] # {})

RecordOK(k) ==
  /\ \A e, f \in record[k] : e = f
  /\ \A e \in record[k] : e.status = "success" =>
       /\ e.result \in Request /\ req[e.result].key = k /\ Effect(e.result) \in effects
       /\ k \in disturbed \/ e.payload = req[e.result].payload

KeyOK(k) == k \notin errored \cup disturbed =>
  /\ \A e \in record[k] : e.status # "error"
  /\ \A r, s \in Running(k) : r = s
  /\ \A r \in Running(k), e \in effects : e.key # k

IdemInv ==
  /\ IdemTypes
  /\ \A r \in Request : RequestOK(r)
  /\ \A e \in effects : EffectOK(e)
  /\ \A k \in Key : RecordOK(k) /\ KeyOK(k)
  /\ ReplaysAreFaithful

\* Any record that was found is one of those stored.
LEMMA Chosen ==
  ASSUME NEW S, S # {}
  PROVE  (CHOOSE e \in S : TRUE) \in S
<1> QED
  OBVIOUS

\* No request has begun.
LEMMA IdemInvInit == Init => IdemInv
<1> SUFFICES ASSUME Init PROVE IdemInv
  OBVIOUS
<1>1. req \in [Request -> Progress]
  BY DEF Init, Progress, Place, Answer
<1>2. \A r \in Request : req[r].pc = "new" /\ req[r].answer = "none"
  BY DEF Init
<1>3. IdemTypes
  BY <1>1 DEF Init, IdemTypes
<1>4. \A r \in Request : RequestOK(r)
  BY <1>2 DEF RequestOK
<1>5. \A e \in effects : EffectOK(e)
  BY DEF Init
<1>6. \A k \in Key : RecordOK(k) /\ KeyOK(k)
  BY <1>2 DEF Init, RecordOK, KeyOK, Running
<1>7. ReplaysAreFaithful
  BY <1>2 DEF ReplaysAreFaithful
<1> QED
  BY <1>3, <1>4, <1>5, <1>6, <1>7 DEF IdemInv
-----------------------------------------------------------------------------
\* What a step of one request does not change: who asked for what.
LEMMA OthersKeep ==
  ASSUME IdemTypes, NEW r \in Request, NEW q \in Progress, req' = [req EXCEPT ![r] = q],
         q.key = req[r].key, q.payload = req[r].payload
  PROVE  /\ req' \in [Request -> Progress] /\ req'[r] = q
         /\ \A s \in Request : /\ s # r => req'[s] = req[s]
                               /\ req'[s].key = req[s].key /\ req'[s].payload = req[s].payload
                               /\ Effect(s)' = Effect(s)
<1>1. req' \in [Request -> Progress] /\ req'[r] = q /\ \A s \in Request : s # r => req'[s] = req[s]
  BY DEF IdemTypes
<1>2. \A s \in Request : req'[s].key = req[s].key /\ req'[s].payload = req[s].payload
  BY <1>1
<1>3. \A s \in Request : Effect(s)' = Effect(s)
  BY <1>2 DEF Effect
<1> QED
  BY <1>1, <1>2, <1>3

\* A step that moves one request on and writes no record: what has to be shown
\* of the request.
LEMMA OneRequest ==
  ASSUME IdemInv, NEW r \in Request, NEW q \in Progress, req' = [req EXCEPT ![r] = q],
         q.key = req[r].key, q.payload = req[r].payload,
         UNCHANGED <<record, effects, errored>>, disturbed \subseteq disturbed', disturbed' \subseteq Key,
         RequestOK(r)', q.pc = "handle" => q.key \in errored \cup disturbed',
         q.answer = "replay" => \E e \in effects : /\ e.key = q.key /\ e.by = q.replayed
                                                   /\ e.payload = q.payload \/ e.key \in disturbed'
  PROVE  IdemInv'
<1> IdemTypes
  BY DEF IdemInv
<1>1. /\ req' \in [Request -> Progress] /\ req'[r] = q
      /\ \A s \in Request : /\ s # r => req'[s] = req[s]
                            /\ req'[s].key = req[s].key /\ req'[s].payload = req[s].payload
                            /\ Effect(s)' = Effect(s)
  BY OthersKeep
<1>2. IdemTypes'
  BY <1>1 DEF IdemTypes
<1>3. ASSUME NEW s \in Request PROVE RequestOK(s)'
  <2>1. CASE s = r
    BY <2>1
  <2>2. CASE s # r
    <3>1. RequestOK(s) /\ req'[s] = req[s] /\ Effect(s)' = Effect(s)
      BY <1>1, <2>2 DEF IdemInv
    <3> QED
      BY <3>1 DEF RequestOK
  <2> QED
    BY <2>1, <2>2
<1>4. ASSUME NEW e \in effects PROVE EffectOK(e)'
  <2>1. EffectOK(e) /\ e.by \in Request
    BY DEF IdemInv, IdemTypes
  <2>2. Effect(e.by)' = Effect(e.by)
    BY <1>1, <2>1
  <2> QED
    BY <2>1, <2>2 DEF EffectOK
<1>5. ASSUME NEW k \in Key PROVE RecordOK(k)'
  <2>1. RecordOK(k)
    BY DEF IdemInv
  <2> QED
    BY <1>1, <2>1 DEF RecordOK
<1>6. ASSUME NEW k \in Key PROVE KeyOK(k)'
  <2> SUFFICES ASSUME k \notin errored \cup disturbed' PROVE KeyOK(k)'
    BY DEF KeyOK
  <2>1. KeyOK(k) /\ k \notin errored \cup disturbed
    BY DEF IdemInv
  <2>2. Running(k)' \subseteq Running(k)
    BY <1>1 DEF Running
  <2> QED
    BY <2>1, <2>2 DEF KeyOK
<1>7. ReplaysAreFaithful'
  <2>1. ASSUME NEW s \in Request, req'[s].answer = "replay"
        PROVE  \E e \in effects' : /\ e.key = req'[s].key /\ e.by = req'[s].replayed
                                   /\ e.payload = req'[s].payload \/ e.key \in disturbed'
    <3>1. CASE s = r
      <4>1. req'[s] = q /\ effects' = effects
        BY <1>1, <3>1
      <4>2. \E e \in effects : /\ e.key = q.key /\ e.by = q.replayed
                               /\ e.payload = q.payload \/ e.key \in disturbed'
        BY <2>1, <4>1
      <4> QED
        BY <4>1, <4>2
    <3>2. CASE s # r
      <4>1. req'[s] = req[s] /\ effects' = effects
        BY <1>1, <3>2
      <4>2. \E e \in effects : /\ e.key = req[s].key /\ e.by = req[s].replayed
                               /\ e.payload = req[s].payload \/ e.key \in disturbed
        BY <2>1, <4>1 DEF IdemInv, ReplaysAreFaithful
      <4> QED
        BY <4>1, <4>2
    <3> QED
      BY <3>1, <3>2
  <2> QED
    BY <2>1 DEF ReplaysAreFaithful
<1> QED
  BY <1>2, <1>3, <1>4, <1>5, <1>6, <1>7 DEF IdemInv

\* A lookup answers a request from a record, or lets it go on.  Past the
\* reservation it goes on only over the record of a failed attempt.
LEMMA LookUpInv ==
  ASSUME IdemInv, NEW r \in Request, Get(r) \/ Recheck(r)
  PROVE  IdemInv'
<1> IdemTypes
  BY DEF IdemInv
<1> DEFINE old == req[r]
           k == old.key
<1>1. PICK here, next : /\ LookUp(r, here, next)
                        /\ <<here, next>> \in {<<"new", "mark">>, <<"recheck", "handle">>}
  BY DEF Get, Recheck
<1>2. old \in Progress /\ k \in Key /\ old.pc = here /\ record[k] \subseteq Record
  BY <1>1 DEF LookUp, IdemTypes, Progress
<1>3. PICK found \in {record[k], {}} :
        /\ RedisGet(k, found)
        /\ req' = [req EXCEPT ![r] = Informed(old, found, next)]
  BY <1>1 DEF LookUp
<1>4. UNCHANGED <<record, effects, errored>>
  BY <1>1 DEF LookUp
<1>5. /\ disturbed \subseteq disturbed' /\ disturbed' \subseteq Key
      /\ found = record[k] \/ k \in disturbed'
  <2>1. CASE found = record[k] /\ RedisWorks
    BY <2>1 DEF RedisWorks, IdemTypes
  <2>2. CASE RedisFails(k)
    BY <1>2, <2>2 DEF RedisFails, IdemTypes
  <2>3. RedisGet(k, found)
    BY <1>3
  <2>4. (found = record[k] /\ RedisWorks) \/ RedisFails(k)
    BY <2>3 DEF RedisGet
  <2> QED
    BY <2>1, <2>2, <2>4
<1>6. CASE Verdict(found, old.payload) = "proceed"
  <2> DEFINE q == [old EXCEPT !.pc = next]
  <2>1. /\ q \in Progress /\ q.key = k /\ q.payload = old.payload /\ q.pc = next
        /\ q.answer = old.answer /\ q.replayed = old.replayed
    BY <1>1, <1>2 DEF Progress, Place
  <2>2. req' = [req EXCEPT ![r] = q]
    BY <1>3, <1>6 DEF Informed
  <2> HIDE DEF q
  <2>3. req'[r] = q
    BY <2>1, <2>2, OthersKeep
  <2>4. \A e \in found : e.payload = old.payload /\ e.status # "pending" /\ e.status # "success"
    BY <1>6 DEF Verdict
  <2>5. q.pc = "handle" => q.key \in disturbed' \/ (record[k] # {} /\ \A e \in record[k] : e.payload = q.payload)
    BY <1>1, <1>2, <1>5, <2>1, <2>4 DEF IdemInv, RequestOK
  <2>6. RequestOK(r)'
    <3>1. q.answer = "none"
      BY <1>1, <1>2, <2>1 DEF IdemInv, RequestOK
    <3> QED
      BY <1>1, <1>4, <2>1, <2>3, <2>5, <3>1 DEF RequestOK
  <2>7. q.pc = "handle" => q.key \in errored \cup disturbed'
    <3> SUFFICES ASSUME q.pc = "handle", k \notin disturbed', k \notin errored PROVE FALSE
      BY <2>1
    <3>1. PICK e \in record[k] : TRUE
      BY <2>1, <2>5
    <3>2. e.status = "error"
      BY <1>2, <1>5, <2>4, <3>1 DEF Record
    <3>3. KeyOK(k) /\ k \notin disturbed
      BY <1>2, <1>5 DEF IdemInv
    <3> QED
      BY <3>1, <3>2, <3>3 DEF KeyOK
  <2>8. q.answer # "replay"
    BY <1>1, <1>2, <2>1 DEF IdemInv, RequestOK
  <2> QED
    BY <1>4, <1>5, <2>1, <2>2, <2>6, <2>7, <2>8, OneRequest
<1>7. CASE Verdict(found, old.payload) = "conflict"
  <2> DEFINE q == [old EXCEPT !.pc = "done", !.answer = "conflict"]
  <2>1. /\ q \in Progress /\ q.key = k /\ q.payload = old.payload /\ q.pc = "done"
        /\ q.answer = "conflict"
    BY <1>2 DEF Progress, Place, Answer
  <2>2. req' = [req EXCEPT ![r] = q]
    <3>1. Informed(old, found, next) = q
      BY <1>2, <1>7 DEF Progress, Informed
    <3> QED
      BY <1>3, <3>1
  <2> HIDE DEF q
  <2>3. req'[r] = q
    BY <2>1, <2>2, OthersKeep
  <2>4. RequestOK(r)'
    BY <2>1, <2>3 DEF RequestOK
  <2> QED
    BY <1>4, <1>5, <2>1, <2>2, <2>4, OneRequest
<1>8. CASE Verdict(found, old.payload) = "replay"
  <2> DEFINE e == CHOOSE e \in found : TRUE
             q == [old EXCEPT !.pc = "done", !.answer = "replay", !.replayed = e.result]
  <2>1. found # {} /\ \A f \in found : f.payload = old.payload /\ f.status # "pending"
    BY <1>8 DEF Verdict
  <2>2. e \in found
    BY <2>1, Chosen
  <2> HIDE DEF e
  <2>3. /\ e \in record[k] /\ e \in Record /\ e.payload = old.payload /\ e.status # "pending"
        /\ \E f \in found : f.status = "success"
    BY <1>2, <1>8, <2>1, <2>2 DEF Verdict

  <2>4. RecordOK(k) /\ e.status = "success"
    BY <1>2, <1>3, <2>3 DEF IdemInv, RecordOK
  <2>5. e.result \in Request /\ Effect(e.result) \in effects /\ req[e.result].key = k
        /\ (k \in disturbed \/ e.payload = req[e.result].payload)
    BY <2>3, <2>4 DEF RecordOK
  <2>6. /\ q \in Progress /\ q.key = k /\ q.payload = old.payload /\ q.pc = "done"
        /\ q.answer = "replay" /\ q.replayed = e.result
    BY <1>2, <2>5 DEF Progress, Place, Answer
  <2>7. req' = [req EXCEPT ![r] = q]
    BY <1>3, <1>8 DEF e, Informed
  <2> HIDE DEF q
  <2>8. req'[r] = q
    BY <2>6, <2>7, OthersKeep
  <2>9. RequestOK(r)'
    BY <2>6, <2>8 DEF RequestOK
  <2>10. \E f \in effects : f.key = q.key /\ f.by = q.replayed /\ (f.payload = q.payload \/ f.key \in disturbed')
    <3>1. /\ Effect(e.result).key = q.key /\ Effect(e.result).by = q.replayed
          /\ Effect(e.result).payload = q.payload \/ Effect(e.result).key \in disturbed'
      BY <1>5, <2>3, <2>5, <2>6 DEF Effect
    <3> QED
      BY <2>5, <3>1
  <2> QED
    BY <1>4, <1>5, <2>6, <2>7, <2>9, <2>10, OneRequest
<1>9. Verdict(found, old.payload) \in {"proceed", "conflict", "replay"}
  BY DEF Verdict
<1> QED
  BY <1>6, <1>7, <1>8, <1>9

\* A step of one request that writes the record of its key: what has to be
\* shown of the request and of the record.
LEMMA OneRecord ==
  ASSUME IdemInv, NEW r \in Request, NEW q \in Progress, NEW k \in Key, NEW new \in Record,
         req' = [req EXCEPT ![r] = q], k = req[r].key, q.key = k, q.payload = req[r].payload,
         record' = [record EXCEPT ![k] = {new}], UNCHANGED <<effects, errored>>,
         disturbed \subseteq disturbed', disturbed' \subseteq Key,
         RequestOK(r)', q.answer # "replay",
         k \notin disturbed' =>
           \A s \in Request : req[s].key = k /\ req[s].pc \in {"handle", "complete", "store"} =>
                                req[s].payload = new.payload,
         new.status = "success" =>
           /\ new.result \in Request /\ req[new.result].key = k /\ Effect(new.result) \in effects
           /\ k \in disturbed' \/ new.payload = req[new.result].payload,
         k \notin errored \cup disturbed' =>
           /\ new.status # "error"
           /\ q.pc = "handle" => Running(k) = {} /\ \A e \in effects : e.key # k
  PROVE  IdemInv'
<1> IdemTypes
  BY DEF IdemInv
<1>1. /\ req' \in [Request -> Progress] /\ req'[r] = q
      /\ \A s \in Request : /\ s # r => req'[s] = req[s]
                            /\ req'[s].key = req[s].key /\ req'[s].payload = req[s].payload
                            /\ Effect(s)' = Effect(s)
  BY OthersKeep
<1>2. /\ record' \in [Key -> SUBSET Record] /\ record'[k] = {new}
      /\ \A c \in Key : c # k => record'[c] = record[c]
  BY DEF IdemTypes
<1>3. IdemTypes'
  BY <1>1, <1>2 DEF IdemTypes
<1>4. ASSUME NEW s \in Request PROVE RequestOK(s)'
  <2>1. CASE s = r
    BY <2>1
  <2>2. CASE s # r
    <3>1. RequestOK(s) /\ req'[s] = req[s] /\ Effect(s)' = Effect(s) /\ req[s].key \in Key
      BY <1>1, <2>2 DEF IdemInv, IdemTypes, Progress
    <3>2. CASE req[s].key = k
      BY <1>2, <3>1, <3>2, SMTT(30) DEF RequestOK
    <3>3. CASE req[s].key # k
      BY <1>2, <3>1, <3>3 DEF RequestOK
    <3> QED
      BY <3>2, <3>3
  <2> QED
    BY <2>1, <2>2
<1>5. ASSUME NEW e \in effects PROVE EffectOK(e)'
  <2>1. EffectOK(e) /\ e.by \in Request /\ e.key \in Key
    BY DEF IdemInv, IdemTypes
  <2>2. Effect(e.by)' = Effect(e.by) /\ (record[e.key] # {} => record'[e.key] # {})
    BY <1>1, <1>2, <2>1
  <2> QED
    BY <2>1, <2>2 DEF EffectOK
<1>6. ASSUME NEW c \in Key PROVE RecordOK(c)'
  <2>1. CASE c = k
    <3>1. new.status = "success" =>
            /\ new.result \in Request /\ req'[new.result].key = c /\ Effect(new.result)' \in effects'
            /\ c \in disturbed' \/ new.payload = req'[new.result].payload
      BY <1>1, <2>1
    <3>2. record'[c] = {new}
      BY <1>2, <2>1
    <3> QED
      BY <3>1, <3>2 DEF RecordOK
  <2>2. CASE c # k
    <3>1. RecordOK(c) /\ record'[c] = record[c]
      BY <1>2, <2>2 DEF IdemInv
    <3> QED
      BY <1>1, <3>1 DEF RecordOK
  <2> QED
    BY <2>1, <2>2
<1>7. ASSUME NEW c \in Key PROVE KeyOK(c)'
  <2> SUFFICES ASSUME c \notin errored \cup disturbed' PROVE KeyOK(c)'
    BY DEF KeyOK
  <2>1. KeyOK(c) /\ c \notin errored \cup disturbed
    BY DEF IdemInv
  <2>2. CASE c # k
    <3>1. Running(c)' = Running(c) /\ record'[c] = record[c]
      BY <1>1, <1>2, <2>2 DEF Running
    <3> QED
      BY <2>1, <3>1 DEF KeyOK
  <2>3. CASE c = k /\ q.pc # "handle"
    <3>1. Running(c)' \subseteq Running(c) /\ record'[c] = {new}
      BY <1>1, <1>2, <2>3 DEF Running
    <3> QED
      BY <2>1, <2>3, <3>1 DEF KeyOK
  <2>4. CASE c = k /\ q.pc = "handle"
    <3>1. Running(c)' \subseteq {r} /\ record'[c] = {new}
      BY <1>1, <1>2, <2>4 DEF Running
    <3> QED
      BY <2>1, <2>4, <3>1 DEF KeyOK
  <2> QED
    BY <2>2, <2>3, <2>4
<1>8. ReplaysAreFaithful'
  <2>1. ASSUME NEW s \in Request, req'[s].answer = "replay"
        PROVE  \E e \in effects' : /\ e.key = req'[s].key /\ e.by = req'[s].replayed
                                   /\ e.payload = req'[s].payload \/ e.key \in disturbed'
    <3>1. s # r /\ req'[s] = req[s] /\ effects' = effects
      BY <1>1, <2>1
    <3>2. \E e \in effects : /\ e.key = req[s].key /\ e.by = req[s].replayed
                             /\ e.payload = req[s].payload \/ e.key \in disturbed
      BY <2>1, <3>1 DEF IdemInv, ReplaysAreFaithful
    <3> QED
      BY <3>1, <3>2
  <2> QED
    BY <2>1 DEF ReplaysAreFaithful
<1> QED
  BY <1>3, <1>4, <1>5, <1>6, <1>7, <1>8 DEF IdemInv

\* A reservation gives the key to one request, if there was no record; where
\* Redis fails, nothing is promised of the key any more.
LEMMA MarkInv ==
  ASSUME IdemInv, NEW r \in Request, markPending(r)
  PROVE  IdemInv'
<1> IdemTypes
  BY DEF IdemInv
<1> DEFINE old == req[r]
           held == [old EXCEPT !.pc = "handle"]
           waits == [old EXCEPT !.pc = "recheck"]
           new == [status |-> "pending", payload |-> old.payload, result |-> NoOne]
<1>0. PICK k : k = req[r].key
  OBVIOUS
<1>1. old \in Progress /\ k \in Key /\ new \in Record /\ old.pc = "mark"
  BY <1>0 DEF IdemTypes, Progress, Record, markPending
<1>2. /\ held \in Progress /\ held.key = k /\ held.payload = old.payload /\ held.pc = "handle"
      /\ waits \in Progress /\ waits.key = k /\ waits.payload = old.payload /\ waits.pc = "recheck"
      /\ held.answer = old.answer /\ waits.answer = old.answer /\ waits.replayed = old.replayed
  BY <1>0, <1>1 DEF Progress, Place
<1>3. UNCHANGED <<effects, errored>>
  BY DEF markPending
<1>4. SetNx(k) <=> record[k] = {}
  BY DEF SetNx
<1>5. old.answer = "none"
  BY <1>1 DEF IdemInv, RequestOK
<1> HIDE DEF held, waits, new
<1>6. CASE record[k] = {} /\ Reserve(r) /\ RedisWorks /\ req' = [req EXCEPT ![r].pc = "handle"]
  <2>1. record' = [record EXCEPT ![k] = {new}] /\ req' = [req EXCEPT ![r] = held] /\ new.payload = old.payload /\ new.status = "pending"
    BY <1>0, <1>6 DEF Reserve, held, new
  <2>2. disturbed' = disturbed /\ disturbed \subseteq Key
    BY <1>6 DEF RedisWorks, IdemTypes
  <2>3. req'[r] = held /\ record'[k] = {new}
    BY <1>1, <1>2, <2>1 DEF IdemTypes
  <2>4. RequestOK(r)'
    BY <1>2, <1>5, <2>1, <2>3 DEF RequestOK
  <2>5. k \notin disturbed => \A s \in Request : req[s].key = k => req[s].pc \notin {"handle", "complete", "store"}
    BY <1>6 DEF IdemInv, RequestOK
  <2>6. k \notin disturbed => Running(k) = {} /\ \A e \in effects : e.key # k
    BY <1>6, <2>5 DEF IdemInv, EffectOK, Running
  <2> QED
    BY <1>0, <1>1, <1>2, <1>3, <1>5, <2>1, <2>2, <2>4, <2>5, <2>6, OneRecord
<1>7. CASE record[k] # {} /\ UNCHANGED record /\ RedisWorks /\ req' = [req EXCEPT ![r].pc = "recheck"]
  <2>1. req' = [req EXCEPT ![r] = waits]
    BY <1>7 DEF waits
  <2>2. disturbed' = disturbed /\ disturbed \subseteq Key
    BY <1>7 DEF RedisWorks, IdemTypes
  <2>3. req'[r] = waits
    BY <2>1 DEF IdemTypes
  <2>4. RequestOK(r)'
    BY <1>2, <1>5, <1>7, <2>3 DEF RequestOK
  <2> QED
    BY <1>0, <1>2, <1>3, <1>5, <1>7, <2>1, <2>2, <2>4, OneRequest
<1>8. CASE RedisFails(k) /\ req' = [req EXCEPT ![r].pc = "recheck"] /\ (UNCHANGED record \/ Reserve(r))
  <2>1. req' = [req EXCEPT ![r] = waits]
    BY <1>8 DEF waits
  <2>2. disturbed \subseteq disturbed' /\ disturbed' \subseteq Key /\ k \in disturbed'
    BY <1>1, <1>8 DEF RedisFails, IdemTypes
  <2>3. req'[r] = waits
    BY <2>1 DEF IdemTypes
  <2>4. RequestOK(r)'
    BY <1>2, <1>5, <2>2, <2>3 DEF RequestOK
  <2>5. CASE UNCHANGED record
    BY <1>0, <1>2, <1>3, <1>5, <2>1, <2>2, <2>4, <2>5, OneRequest
  <2>6. CASE Reserve(r)
    <3>1. record' = [record EXCEPT ![k] = {new}] /\ new.status = "pending"
      BY <1>0, <2>6 DEF Reserve, new
    <3> QED
      BY <1>0, <1>1, <1>2, <1>3, <1>5, <2>1, <2>2, <2>4, <3>1, OneRecord
  <2> QED
    BY <1>8, <2>5, <2>6
<1> QED
  BY <1>0, <1>4, <1>6, <1>7, <1>8 DEF markPending

\* A handler ends: it takes effect, or throws, or both.
LEMMA HandleInv ==
  ASSUME IdemInv, NEW r \in Request, handle(r)
  PROVE  IdemInv'
<1> IdemTypes
  BY DEF IdemInv
<1> DEFINE old == req[r]
<1>0. PICK k : k = req[r].key
  OBVIOUS
<1>1. old \in Progress /\ k \in Key /\ old.pc = "handle" /\ Effect(r) \in [key : Key, payload : Payload, by : Request]
  BY <1>0 DEF IdemTypes, Progress, Effect, handle
<1>2. PICK a \in {"result", "error"} :
        /\ req' = [req EXCEPT ![r].pc = "complete", ![r].answer = a]
        /\ a = "result" => Effect(r) \in effects'
        /\ a = "error" => k \in errored'
  BY <1>0 DEF handle
<1>3. /\ effects \subseteq effects' /\ effects' \subseteq effects \cup {Effect(r)}
      /\ errored \subseteq errored' /\ errored' \subseteq Key
      /\ UNCHANGED <<record, disturbed>>
  BY <1>0, <1>1 DEF handle, IdemTypes
<1> DEFINE q == [old EXCEPT !.pc = "complete", !.answer = a]
<1>4. /\ q \in Progress /\ q.key = k /\ q.payload = old.payload /\ q.pc = "complete" /\ q.answer = a
      /\ req' = [req EXCEPT ![r] = q]
  BY <1>0, <1>1, <1>2 DEF Progress, Place, Answer
<1> HIDE DEF q
<1>5. /\ req' \in [Request -> Progress] /\ req'[r] = q
      /\ \A s \in Request : /\ s # r => req'[s] = req[s]
                            /\ req'[s].key = req[s].key /\ req'[s].payload = req[s].payload
                            /\ Effect(s)' = Effect(s)
  BY <1>0, <1>4, OthersKeep
<1>6. IdemTypes'
  BY <1>1, <1>3, <1>5 DEF IdemTypes
<1>7. k \in disturbed \/ (record[k] # {} /\ \A e \in record[k] : e.payload = old.payload)
  BY <1>0, <1>1 DEF IdemInv, RequestOK
<1>8. ASSUME NEW s \in Request PROVE RequestOK(s)'
  <2>1. CASE s = r
    <3>1. Effect(r)' = Effect(r) /\ req'[s] = q
      BY <1>5, <2>1
    <3> QED
      BY <1>2, <1>3, <1>4, <1>7, <2>1, <3>1 DEF RequestOK
  <2>2. CASE s # r
    <3>1. RequestOK(s) /\ req'[s] = req[s] /\ Effect(s)' = Effect(s)
      BY <1>5, <2>2 DEF IdemInv
    <3> QED
      BY <1>3, <3>1 DEF RequestOK
  <2> QED
    BY <2>1, <2>2
<1>9. ASSUME NEW e \in effects' PROVE EffectOK(e)'
  <2>1. CASE e \in effects
    <3>1. EffectOK(e) /\ e.by \in Request
      BY <2>1 DEF IdemInv, IdemTypes
    <3>2. Effect(e.by)' = Effect(e.by)
      BY <1>5, <3>1
    <3> QED
      BY <1>3, <3>1, <3>2 DEF EffectOK
  <2>2. CASE e = Effect(r)
    <3>1. e.by = r /\ e.key = k /\ Effect(r)' = Effect(r)
      BY <1>0, <1>5, <2>2 DEF Effect
    <3> QED
      BY <1>3, <1>7, <2>2, <3>1 DEF EffectOK
  <2> QED
    BY <1>3, <2>1, <2>2
<1>10. ASSUME NEW c \in Key PROVE RecordOK(c)'
  <2>1. RecordOK(c)
    BY DEF IdemInv
  <2> QED
    BY <1>3, <1>5, <2>1 DEF RecordOK
<1>11. ASSUME NEW c \in Key PROVE KeyOK(c)'
  <2> SUFFICES ASSUME c \notin errored' \cup disturbed' PROVE KeyOK(c)'
    BY DEF KeyOK
  <2>1. KeyOK(c) /\ c \notin errored \cup disturbed
    BY <1>3 DEF IdemInv
  <2>2. Running(c)' \subseteq Running(c) \ {r} /\ (c = k => r \in Running(c))
    BY <1>0, <1>1, <1>4, <1>5 DEF Running
  <2>3. CASE c = k
    <3>1. Running(c)' = {}
      BY <2>1, <2>2, <2>3 DEF KeyOK
    <3> QED
      BY <1>3, <2>1, <3>1 DEF KeyOK
  <2>4. CASE c # k
    <3>1. Effect(r).key # c
      BY <1>0, <2>4 DEF Effect
    <3> QED
      BY <1>3, <2>1, <2>2, <3>1 DEF KeyOK
  <2> QED
    BY <2>3, <2>4
<1>12. ReplaysAreFaithful'
  <2>1. ASSUME NEW s \in Request, req'[s].answer = "replay"
        PROVE  \E e \in effects' : /\ e.key = req'[s].key /\ e.by = req'[s].replayed
                                   /\ e.payload = req'[s].payload \/ e.key \in disturbed'
    <3>1. s # r /\ req'[s] = req[s]
      BY <1>2, <1>4, <1>5, <2>1
    <3>2. \E e \in effects : /\ e.key = req[s].key /\ e.by = req[s].replayed
                             /\ e.payload = req[s].payload \/ e.key \in disturbed
      BY <2>1, <3>1 DEF IdemInv, ReplaysAreFaithful
    <3> QED
      BY <1>3, <3>1, <3>2
  <2> QED
    BY <2>1 DEF ReplaysAreFaithful
<1> QED
  BY <1>6, <1>8, <1>9, <1>10, <1>11, <1>12 DEF IdemInv

\* Reading the record back finds the request's own payload in it.
LEMMA CompleteGetInv ==
  ASSUME IdemInv, NEW r \in Request, CompleteGet(r)
  PROVE  IdemInv'
<1> IdemTypes
  BY DEF IdemInv
<1> DEFINE old == req[r]
<1>0. PICK k : k = req[r].key
  OBVIOUS
<1>1. old \in Progress /\ k \in Key /\ old.pc = "complete" /\ record[k] \subseteq Record
  BY <1>0 DEF IdemTypes, Progress, CompleteGet
<1>2. PICK found \in {record[k], {}} :
        /\ RedisGet(k, found)
        /\ req' = [req EXCEPT ![r].pc = "store", ![r].kept = KeptPayload(found)]
  BY <1>0 DEF CompleteGet
<1>3. UNCHANGED <<record, effects, errored>>
  BY DEF CompleteGet
<1>4. /\ disturbed \subseteq disturbed' /\ disturbed' \subseteq Key
      /\ found = record[k] \/ k \in disturbed'
  <2>1. CASE found = record[k] /\ RedisWorks
    BY <2>1 DEF RedisWorks, IdemTypes
  <2>2. CASE RedisFails(k)
    BY <1>1, <2>2 DEF RedisFails, IdemTypes
  <2>3. (found = record[k] /\ RedisWorks) \/ RedisFails(k)
    BY <1>2 DEF RedisGet
  <2> QED
    BY <2>1, <2>2, <2>3
<1>5. RequestOK(r)
  BY DEF IdemInv
<1>6. /\ KeptPayload(found) \in Payload \cup {"unknown"}
      /\ k \in disturbed' \/ KeptPayload(found) = old.payload
  <2>1. CASE found = {}
    <3>1. k \in disturbed' /\ KeptPayload(found) = "unknown"
      BY <1>0, <1>1, <1>4, <1>5, <2>1 DEF RequestOK, KeptPayload
    <3> QED
      BY <3>1
  <2>2. CASE found # {}
    <3> DEFINE e == CHOOSE e \in found : TRUE
    <3>1. e \in found /\ KeptPayload(found) = e.payload
      BY <2>2, Chosen DEF KeptPayload
    <3> HIDE DEF e
    <3>2. e \in record[k] /\ e \in Record
      BY <1>1, <1>2, <3>1
    <3>3. e.payload \in Payload \cup {"unknown"}
      BY <3>2 DEF Record
    <3>4. k \in disturbed \/ e.payload = old.payload
      BY <1>0, <1>1, <1>5, <3>2 DEF RequestOK
    <3> QED
      BY <1>4, <3>1, <3>3, <3>4
  <2> QED
    BY <2>1, <2>2
<1> DEFINE q == [old EXCEPT !.pc = "store", !.kept = KeptPayload(found)]
<1>7. /\ q \in Progress /\ q.key = k /\ q.payload = old.payload /\ q.pc = "store" /\ q.answer = old.answer
      /\ q.kept = KeptPayload(found) /\ req' = [req EXCEPT ![r] = q]
  BY <1>0, <1>1, <1>2, <1>6 DEF Progress, Place
<1> HIDE DEF q
<1>8. req'[r] = q /\ Effect(r)' = Effect(r)
  BY <1>0, <1>7, OthersKeep
<1>9. RequestOK(r)'
  BY <1>0, <1>1, <1>3, <1>4, <1>5, <1>6, <1>7, <1>8 DEF RequestOK
<1>10. q.answer # "replay"
  BY <1>1, <1>5, <1>7 DEF RequestOK
<1> QED
  BY <1>0, <1>3, <1>4, <1>7, <1>9, <1>10, OneRequest

\* The record that replaces the reservation has its payload.
LEMMA CompleteSetInv ==
  ASSUME IdemInv, NEW r \in Request, CompleteSet(r)
  PROVE  IdemInv'
<1> IdemTypes
  BY DEF IdemInv
<1> DEFINE old == req[r]
<1>0. PICK k : k = req[r].key
  OBVIOUS
<1>1. old \in Progress /\ k \in Key /\ old.pc = "store"
  BY <1>0 DEF IdemTypes, Progress, CompleteSet
<1>2. UNCHANGED <<effects, errored>> /\ RequestOK(r)
  BY DEF CompleteSet, IdemInv
<1> DEFINE q == [old EXCEPT !.pc = "done"]
<1>3. /\ q \in Progress /\ q.key = k /\ q.payload = old.payload /\ q.pc = "done" /\ q.answer = old.answer
      /\ req' = [req EXCEPT ![r] = q]
  BY <1>0, <1>1 DEF Progress, Place, CompleteSet
<1> HIDE DEF q
<1>4. req'[r] = q /\ Effect(r)' = Effect(r)
  BY <1>0, <1>3, OthersKeep
<1>5. RequestOK(r)'
  BY <1>3, <1>4 DEF RequestOK
<1>6. q.answer # "replay"
  BY <1>1, <1>2, <1>3 DEF RequestOK
<1>7. CASE RedisFails(k) /\ UNCHANGED record
  <2>1. disturbed \subseteq disturbed' /\ disturbed' \subseteq Key
    BY <1>1, <1>7 DEF RedisFails, IdemTypes
  <2> QED
    BY <1>0, <1>2, <1>3, <1>5, <1>6, <1>7, <2>1, OneRequest
<1>8. CASE /\ RedisWorks
           /\ record' = [record EXCEPT ![k] =
                {[status |-> Outcome(old.answer), payload |-> old.kept, result |-> r]}]
  <2> DEFINE new == [status |-> Outcome(old.answer), payload |-> old.kept, result |-> r]
  <2>1. new \in Record /\ record' = [record EXCEPT ![k] = {new}] /\ new.payload = old.kept /\ new.result = r
    BY <1>1, <1>8 DEF Record, Progress, Outcome
  <2>2. /\ new.status = "success" => Effect(r) \in effects
        /\ new.status = "error" => k \in errored
    BY <1>0, <1>1, <1>2 DEF RequestOK, Outcome
  <2> HIDE DEF new
  <2>3. disturbed' = disturbed /\ disturbed \subseteq Key
    BY <1>8 DEF RedisWorks, IdemTypes
  <2>4. k \in disturbed \/ new.payload = old.payload
    BY <1>0, <1>1, <1>2, <2>1 DEF RequestOK
  <2>5. k \in disturbed \/ \E e \in record[k] : e.payload = old.payload
    BY <1>0, <1>1, <1>2 DEF RequestOK
  <2>6. k \notin disturbed =>
          \A s \in Request : req[s].key = k /\ req[s].pc \in {"handle", "complete", "store"} =>
                               req[s].payload = new.payload
    BY <2>4, <2>5 DEF IdemInv, RequestOK
  <2> QED
    BY <1>0, <1>1, <1>2, <1>3, <1>5, <1>6, <2>1, <2>2, <2>3, <2>4, <2>6, OneRecord
<1> QED
  BY <1>0, <1>7, <1>8 DEF CompleteSet

\* A crash ends every request that has begun, and leaves what Redis and the
\* ledger hold.
LEMMA CrashInv ==
  ASSUME IdemInv, Crash
  PROVE  IdemInv'
<1> IdemTypes /\ UNCHANGED <<record, effects, errored, disturbed>>
  BY DEF IdemInv, Crash
<1>1. ASSUME NEW s \in Request
      PROVE  /\ (req'[s] = req[s] /\ req[s].pc = "new") \/ req'[s].pc = "done"
             /\ req'[s] \in Progress /\ req'[s].key = req[s].key /\ req'[s].payload = req[s].payload
             /\ req'[s].answer = req[s].answer /\ req'[s].replayed = req[s].replayed
  <2>1. req[s] \in Progress
    BY DEF IdemTypes
  <2>2. req'[s] = IF req[s].pc = "new" THEN req[s] ELSE [req[s] EXCEPT !.pc = "done"]
    BY DEF Crash
  <2> QED
    BY <2>1, <2>2 DEF Progress, Place
<1>2. \A s \in Request : Effect(s)' = Effect(s)
  BY <1>1 DEF Effect
<1>3. IdemTypes'
  BY <1>1 DEF IdemTypes, Crash
<1>4. ASSUME NEW s \in Request PROVE RequestOK(s)'
  <2>1. RequestOK(s)
    BY DEF IdemInv
  <2> QED
    BY <1>1, <2>1 DEF RequestOK
<1>5. ASSUME NEW e \in effects PROVE EffectOK(e)'
  <2>1. EffectOK(e) /\ e.by \in Request
    BY DEF IdemInv, IdemTypes
  <2> QED
    BY <1>2, <2>1 DEF EffectOK
<1>6. ASSUME NEW k \in Key PROVE RecordOK(k)' /\ KeyOK(k)'
  <2>1. RecordOK(k) /\ KeyOK(k)
    BY DEF IdemInv
  <2>2. RecordOK(k)'
    BY <1>1, <1>2, <2>1 DEF RecordOK
  <2>3. Running(k)' = {}
    BY <1>1 DEF Running
  <2> QED
    BY <2>1, <2>2, <2>3 DEF KeyOK
<1>7. ReplaysAreFaithful'
  BY <1>1 DEF IdemInv, ReplaysAreFaithful
<1> QED
  BY <1>3, <1>4, <1>5, <1>6, <1>7 DEF IdemInv

LEMMA IdemInvStep == IdemInv /\ [Next]_idemVars => IdemInv'
<1> SUFFICES ASSUME IdemInv, [Next]_idemVars PROVE IdemInv'
  OBVIOUS
<1>1. ASSUME NEW r \in Request, Step(r) PROVE IdemInv'
  BY <1>1, LookUpInv, MarkInv, HandleInv, CompleteGetInv, CompleteSetInv DEF Step
<1>2. CASE Crash
  BY <1>2, CrashInv
<1>3. CASE UNCHANGED idemVars
  BY <1>3 DEF idemVars, IdemInv, IdemTypes, RequestOK, EffectOK, RecordOK, KeyOK, Running, Effect, ReplaysAreFaithful
<1> QED
  BY <1>1, <1>2, <1>3 DEF Next

\* Whatever IdempotencyInterceptor answers from a record is what a handler
\* returned that took effect for that key, and for that payload unless Redis
\* has failed on the key.
THEOREM Faithful == Spec => []ReplaysAreFaithful
<1>1. IdemInv => ReplaysAreFaithful
  BY DEF IdemInv
<1> QED
  BY <1>1, IdemInvInit, IdemInvStep, PTL DEF Spec
-----------------------------------------------------------------------------
\* What a step of one request can touch: its own progress, and what is stored
\* and remembered of its key.
LEMMA StepFrame ==
  ASSUME IdemInv, NEW r \in Request, Step(r)
  PROVE  /\ \A s \in Request : (s # r => req'[s] = req[s]) /\ req'[s].key = req[s].key
         /\ \A c \in Key \ {req[r].key} :
              /\ record'[c] = record[c]
              /\ (c \in errored' \cup disturbed') <=> (c \in errored \cup disturbed)
         /\ effects' = effects \/ (req[r].pc = "handle" /\ effects' = effects \cup {Effect(r)})
<1> req \in [Request -> Progress] /\ record \in [Key -> SUBSET Record]
  BY DEF IdemInv, IdemTypes
<1> DEFINE k == req[r].key
           Frame == /\ \A s \in Request : (s # r => req'[s] = req[s]) /\ req'[s].key = req[s].key
                    /\ \A c \in Key \ {k} : /\ record'[c] = record[c]
                                            /\ (c \in errored' \cup disturbed') <=> (c \in errored \cup disturbed)
                    /\ effects' = effects \/ (req[r].pc = "handle" /\ effects' = effects \cup {Effect(r)})
<1>1. ASSUME NEW here, NEW next, LookUp(r, here, next) PROVE Frame
  <2>1. PICK found : RedisGet(k, found) /\ req' = [req EXCEPT ![r] = Informed(@, found, next)]
    BY <1>1 DEF LookUp
  <2>2. Informed(req[r], found, next).key = k
    BY DEF Informed, Progress
  <2>3. \A s \in Request : (s # r => req'[s] = req[s]) /\ req'[s].key = req[s].key
    BY <2>1, <2>2
  <2>4. UNCHANGED <<record, effects, errored>> /\ (disturbed' = disturbed \/ disturbed' = disturbed \cup {k})
    BY <1>1, <2>1 DEF LookUp, RedisGet, RedisWorks, RedisFails
  <2> QED
    BY <2>3, <2>4
<1>2. CASE markPending(r)
  <2>1. \A s \in Request : (s # r => req'[s] = req[s]) /\ req'[s].key = req[s].key
    BY <1>2 DEF markPending, Progress
  <2>2. UNCHANGED <<effects, errored>> /\ (disturbed' = disturbed \/ disturbed' = disturbed \cup {k})
    BY <1>2 DEF markPending, RedisWorks, RedisFails
  <2>3. \A c \in Key \ {k} : record'[c] = record[c]
    BY <1>2 DEF markPending, Reserve
  <2> QED
    BY <2>1, <2>2, <2>3
<1>3. CASE handle(r)
  <2>1. \A s \in Request : (s # r => req'[s] = req[s]) /\ req'[s].key = req[s].key
    BY <1>3 DEF handle, Progress
  <2> QED
    BY <1>3, <2>1 DEF handle
<1>4. CASE CompleteGet(r)
  <2>1. \A s \in Request : (s # r => req'[s] = req[s]) /\ req'[s].key = req[s].key
    BY <1>4 DEF CompleteGet, Progress
  <2>2. UNCHANGED <<record, effects, errored>> /\ (disturbed' = disturbed \/ disturbed' = disturbed \cup {k})
    BY <1>4 DEF CompleteGet, RedisGet, RedisWorks, RedisFails
  <2> QED
    BY <2>1, <2>2
<1>5. CASE CompleteSet(r)
  <2>1. \A s \in Request : (s # r => req'[s] = req[s]) /\ req'[s].key = req[s].key
    BY <1>5 DEF CompleteSet, Progress
  <2>2. UNCHANGED <<effects, errored>> /\ (disturbed' = disturbed \/ disturbed' = disturbed \cup {k})
    BY <1>5 DEF CompleteSet, RedisWorks, RedisFails
  <2>3. \A c \in Key \ {k} : record'[c] = record[c]
    BY <1>5 DEF CompleteSet
  <2> QED
    BY <2>1, <2>2, <2>3
<1> QED
  BY <1>1, <1>2, <1>3, <1>4, <1>5 DEF Step, Get, Recheck

\* The step leaves alone what is promised of every other key.
LEMMA OtherKeys ==
  ASSUME IdemInv, NEW r \in Request, Step(r), NEW c \in Key, c # req[r].key
  PROVE  Promise(c)' = Promise(c) /\ Owners(c)' = Owners(c)
<1>1. Running(c)' = Running(c)
  BY StepFrame DEF Running
<1>2. {f \in effects' : f.key = c} = {f \in effects : f.key = c}
  BY StepFrame DEF Effect
<1>3. TookEffect(c)' = TookEffect(c)
  BY <1>2 DEF TookEffect
<1>4. record'[c] = record[c] /\ ((c \in errored' \cup disturbed') <=> (c \in errored \cup disturbed))
  BY StepFrame
<1> QED
  BY <1>1, <1>3, <1>4 DEF Promise, Owners

\* What a key promises is left as it is, as long as who runs and who took
\* effect is, and a record stays a record.
LEMMA SameKey ==
  ASSUME NEW c \in Key, c \notin errored' \cup disturbed', c \notin errored \cup disturbed,
         Running(c)' = Running(c), effects' = effects, (record'[c] = {}) <=> (record[c] = {})
  PROVE  Promise(c)' = Promise(c) /\ Owners(c)' = Owners(c)
<1>1. TookEffect(c)' = TookEffect(c)
  BY DEF TookEffect
<1> QED
  BY <1>1 DEF Promise, Owners

\* A step on one key, as OnceOnly sees it.
LEMMA Abstractly ==
  ASSUME IdemInv, NEW r \in Request, Step(r), NEW k \in Key, k = req[r].key,
         \/ Promise(k)' = Promise(k) /\ Owners(k)' = Owners(k)
         \/ Promise(k)' = "void" /\ Owners(k)' = {}
         \/ Promise(k) = "free" /\ Promise(k)' = "running" /\ Owners(k)' = {r}
         \/ Promise(k) = "running" /\ Promise(k)' = "executed" /\ Owners(k)' = Owners(k)
  PROVE  Once!OnceNext
<1> DEFINE phase == [c \in Key |-> Promise(c)]
           owners == [c \in Key |-> Owners(c)]
<1>1. \A c \in Key : c # k => Promise(c)' = Promise(c) /\ Owners(c)' = Owners(c)
  BY OtherKeys
<1>2. /\ phase' = [c \in Key |-> Promise(c)'] /\ owners' = [c \in Key |-> Owners(c)']
      /\ phase[k] = Promise(k)
  OBVIOUS
<1>3. /\ phase' = [phase EXCEPT ![k] = Promise(k)'] /\ owners' = [owners EXCEPT ![k] = Owners(k)']
  BY <1>1, <1>2
<1>4. CASE Promise(k)' = Promise(k) /\ Owners(k)' = Owners(k)
  <2>1. phase' = phase /\ owners' = owners
    BY <1>3, <1>4
  <2> QED
    BY <2>1 DEF Once!OnceNext, Once!Decline, Once!onceVars
<1>5. CASE Promise(k)' = "void" /\ Owners(k)' = {}
  <2>1. Once!Void(k)
    BY <1>3, <1>5 DEF Once!Void
  <2> QED
    BY <2>1 DEF Once!OnceNext
<1>6. CASE Promise(k) = "free" /\ Promise(k)' = "running" /\ Owners(k)' = {r}
  <2>1. Once!Take(k, r)
    BY <1>2, <1>3, <1>6 DEF Once!Take
  <2> QED
    BY <2>1 DEF Once!OnceNext
<1>7. CASE Promise(k) = "running" /\ Promise(k)' = "executed" /\ Owners(k)' = Owners(k)
  <2>1. owners' = owners
    BY <1>3, <1>7
  <2>2. Once!Execute(k)
    BY <1>2, <1>3, <1>7, <2>1 DEF Once!Execute
  <2> QED
    BY <2>2 DEF Once!OnceNext
<1> QED
  BY <1>4, <1>5, <1>6, <1>7

\* On a key without faults and errors a request that finds the key reserved
\* does not get to the handler.
LEMMA Refused ==
  ASSUME IdemInv, NEW r \in Request, Recheck(r), req[r].key \notin errored \cup disturbed'
  PROVE  req'[r].pc = "done"
<1> IdemTypes
  BY DEF IdemInv
<1>0. PICK k : k = req[r].key
  OBVIOUS
<1>1. k \in Key /\ req[r] \in Progress /\ req[r].pc = "recheck" /\ record[k] \subseteq Record
  BY <1>0 DEF IdemTypes, Progress, Recheck, LookUp
<1>2. PICK found \in {record[k], {}} :
        /\ RedisGet(k, found)
        /\ req' = [req EXCEPT ![r] = Informed(req[r], found, "handle")]
  BY <1>0 DEF Recheck, LookUp
<1>3. found = record[k] /\ k \notin disturbed
  <2>1. ~RedisFails(k)
    BY <1>0 DEF RedisFails
  <2>2. found = record[k] /\ RedisWorks
    BY <1>2, <2>1 DEF RedisGet
  <2> QED
    BY <1>0, <2>2 DEF RedisWorks
<1>4. PICK e \in record[k] : TRUE
  BY <1>0, <1>1, <1>3 DEF IdemInv, RequestOK
<1>5. e.status \in {"pending", "success"}
  <2>1. KeyOK(k) /\ k \notin errored \cup disturbed
    BY <1>0, <1>1, <1>3 DEF IdemInv
  <2> QED
    BY <1>1, <1>4, <2>1 DEF KeyOK, Record
<1>6. Verdict(found, req[r].payload) # "proceed"
  BY <1>3, <1>4, <1>5 DEF Verdict
<1>7. Informed(req[r], found, "handle").pc = "done"
  BY <1>1, <1>6 DEF Informed, Progress
<1> QED
  BY <1>2, <1>7 DEF IdemTypes

\* A step of a request is a step of OnceOnly: a reservation takes the key, the
\* end of the handler executes it, a fault or an error voids it, and all other
\* steps leave it alone.
LEMMA StepRefines ==
  ASSUME IdemInv, NEW r \in Request, Step(r)
  PROVE  Once!OnceNext
<1> IdemTypes /\ IdemInv'
  BY IdemInvStep DEF IdemInv, Next
<1>0. PICK k : k = req[r].key
  OBVIOUS
<1>1. k \in Key /\ req[r] \in Progress /\ RequestOK(r) /\ req'[r].key = k
  BY <1>0, StepFrame DEF IdemInv, IdemTypes, Progress
<1>2. CASE k \in errored' \cup disturbed'
  <2>1. Promise(k)' = "void" /\ Owners(k)' = {}
    BY <1>2 DEF Promise, Owners
  <2> QED
    BY <1>0, <1>1, <2>1, Abstractly
<1>3. CASE k \notin errored' \cup disturbed'
  <2>1. errored \subseteq errored' /\ disturbed \subseteq disturbed'
    BY DEF Step, Get, Recheck, LookUp, RedisGet, RedisWorks, RedisFails, markPending, handle, CompleteGet, CompleteSet
  <2>2. k \notin errored \cup disturbed /\ KeyOK(k)
    BY <1>1, <1>3, <2>1 DEF IdemInv
  <2>3. ~RedisFails(k)
    BY <1>3 DEF RedisFails
  <2>4. ASSUME req[r].pc # "handle", req'[r].pc # "handle", effects' = effects,
               (record'[k] = {}) <=> (record[k] = {})
        PROVE  Once!OnceNext
    <3>1. Running(k)' = Running(k)
      BY <2>4, StepFrame DEF Running
    <3> QED
      BY <1>0, <1>1, <1>3, <2>2, <2>4, <3>1, SameKey, Abstractly
  <2>5. CASE Get(r)
    <3>1. UNCHANGED <<record, effects>> /\ req[r].pc = "new"
      BY <2>5 DEF Get, LookUp
    <3>2. PICK found : req' = [req EXCEPT ![r] = Informed(req[r], found, "mark")]
      BY <2>5 DEF Get, LookUp
    <3>3. Informed(req[r], found, "mark").pc \in {"mark", "done"}
      BY <1>1 DEF Informed, Progress
    <3>4. req'[r].pc # "handle"
      BY <3>2, <3>3 DEF IdemTypes
    <3> QED
      BY <2>4, <3>1, <3>4
  <2>6. CASE Recheck(r)
    <3>1. UNCHANGED <<record, effects, errored>> /\ req[r].pc = "recheck"
      BY <2>6 DEF Recheck, LookUp
    <3>2. req'[r].pc = "done"
      BY <1>0, <1>3, <2>6, <3>1, Refused
    <3> QED
      BY <2>4, <3>1, <3>2
  <2>7. CASE markPending(r)
    <3>1. effects' = effects /\ req[r].pc = "mark"
      BY <2>7 DEF markPending
    <3>2. CASE record[k] # {}
      <4>1. record' = record /\ req' = [req EXCEPT ![r].pc = "recheck"]
        BY <1>0, <2>3, <2>7, <3>2 DEF markPending, SetNx
      <4>2. req'[r].pc = "recheck"
        BY <1>1, <4>1 DEF IdemTypes, Progress
      <4> QED
        BY <2>4, <3>1, <4>1, <4>2
    <3>3. CASE record[k] = {}
      <4>1. req' = [req EXCEPT ![r].pc = "handle"]
        BY <1>0, <2>3, <2>7, <3>3 DEF markPending, SetNx
      <4>2. req'[r].pc = "handle"
        BY <1>1, <4>1 DEF IdemTypes, Progress
      <4>3. \A s \in Request : req[s].key = k => req[s].pc # "handle"
        BY <2>2, <3>3 DEF IdemInv, RequestOK
      <4>4. \A e \in effects : e.key # k
        BY <2>2, <3>3 DEF IdemInv, EffectOK
      <4>5. Running(k) = {} /\ TookEffect(k) = {} /\ TookEffect(k)' = {}
        BY <3>1, <4>3, <4>4 DEF Running, TookEffect
      <4>6. Running(k)' = {r}
        BY <1>1, <4>2, <4>3, StepFrame DEF Running
      <4>7. Promise(k) = "free" /\ Promise(k)' = "running" /\ Owners(k)' = {r}
        BY <1>3, <2>2, <3>3, <4>5, <4>6 DEF Promise, Owners
      <4> QED
        BY <1>0, <1>1, <4>7, Abstractly
    <3> QED
      BY <3>2, <3>3
  <2>8. CASE handle(r)
    <3>1. /\ req[r].pc = "handle" /\ effects' = effects \cup {Effect(r)}
          /\ req' = [req EXCEPT ![r].pc = "complete", ![r].answer = "result"]
      BY <1>0, <1>3, <2>8 DEF handle
    <3>2. req'[r].pc = "complete"
      BY <1>1, <3>1 DEF IdemTypes, Progress
    <3>3. Running(k) = {r}
      BY <1>0, <2>2, <3>1 DEF KeyOK, Running
    <3>4. Running(k)' = {}
      BY <3>2, <3>3, StepFrame DEF Running
    <3>5. {e \in effects : e.key = k} = {}
      BY <2>2, <3>3 DEF KeyOK
    <3>6. {e \in effects' : e.key = k} = {Effect(r)}
      BY <1>0, <3>1, <3>5 DEF Effect
    <3>7. TookEffect(k) = {} /\ TookEffect(k)' = {r}
      <4>1. TookEffect(k) = {}
        BY <3>5 DEF TookEffect
      <4>2. TookEffect(k)' = {e.by : e \in {Effect(r)}}
        BY <3>6 DEF TookEffect
      <4>3. Effect(r).by = r
        BY DEF Effect
      <4> QED
        BY <4>1, <4>2, <4>3
    <3>8. Promise(k) = "running" /\ Promise(k)' = "executed" /\ Owners(k)' = Owners(k)
      BY <1>3, <2>2, <3>3, <3>4, <3>7 DEF Promise, Owners
    <3> QED
      BY <1>0, <1>1, <3>8, Abstractly
  <2>9. CASE CompleteGet(r)
    <3>1. UNCHANGED <<record, effects>> /\ req[r].pc = "complete"
      BY <2>9 DEF CompleteGet
    <3>2. req'[r].pc = "store"
      BY <1>1, <2>9 DEF CompleteGet, IdemTypes, Progress
    <3> QED
      BY <2>4, <3>1, <3>2
  <2>10. CASE CompleteSet(r)
    <3>1. effects' = effects /\ req[r].pc = "store"
      BY <2>10 DEF CompleteSet
    <3>2. req'[r].pc = "done"
      BY <1>1, <2>10 DEF CompleteSet, IdemTypes, Progress
    <3>3. record[k] # {} /\ record'[k] # {}
      BY <1>0, <1>1, <2>2, <2>3, <2>10, <3>1 DEF CompleteSet, RequestOK, IdemTypes
    <3> QED
      BY <2>4, <3>1, <3>2, <3>3
  <2> QED
    BY <2>5, <2>6, <2>7, <2>8, <2>9, <2>10 DEF Step
<1> QED
  BY <1>2, <1>3

\* A crash loses exactly the keys whose handler was running: their records
\* stay, and keep everyone else away.
LEMMA CrashRefines ==
  ASSUME IdemInv, Crash
  PROVE  Once!OnceNext
<1> IdemTypes /\ UNCHANGED <<record, effects, errored, disturbed>>
  BY DEF IdemInv, Crash
<1> DEFINE phase == [c \in Key |-> Promise(c)]
           owners == [c \in Key |-> Owners(c)]
           gone == {c \in Key : phase[c] = "running"}
<1>1. ASSUME NEW c \in Key
      PROVE  /\ Promise(c)' = IF Promise(c) = "running" THEN "lost" ELSE Promise(c)
             /\ Owners(c)' = IF Promise(c) = "running" THEN {} ELSE Owners(c)
  <2>1. TookEffect(c)' = TookEffect(c)
    BY DEF TookEffect
  <2>2. \A s \in Request : req'[s].pc # "handle"
    <3>1. ASSUME NEW s \in Request PROVE req'[s].pc # "handle"
      <4>1. req'[s] = IF req[s].pc = "new" THEN req[s] ELSE [req[s] EXCEPT !.pc = "done"]
        BY DEF Crash
      <4>2. req[s] \in Progress
        BY DEF IdemTypes
      <4> QED
        BY <4>1, <4>2 DEF Progress
    <3> QED
      BY <3>1
  <2>3. Running(c)' = {}
    BY <2>2 DEF Running
  <2>4. CASE c \in errored \cup disturbed
    BY <2>4 DEF Promise, Owners
  <2>5. CASE c \notin errored \cup disturbed
    <3>1. ASSUME NEW r \in Running(c) PROVE TookEffect(c) = {} /\ record[c] # {}
      <4>1. RequestOK(r) /\ req[r].pc = "handle" /\ req[r].key = c
        BY DEF IdemInv, Running
      <4>2. record[c] # {}
        BY <2>5, <4>1 DEF RequestOK
      <4>3. {e \in effects : e.key = c} = {}
        BY <2>5 DEF IdemInv, KeyOK
      <4> QED
        BY <4>2, <4>3 DEF TookEffect
    <3> QED
      BY <2>1, <2>3, <2>5, <3>1 DEF Promise, Owners
  <2> QED
    BY <2>4, <2>5
<1>2. phase' = [c \in Key |-> Promise(c)'] /\ owners' = [c \in Key |-> Owners(c)']
  OBVIOUS
<1>3. /\ phase' = [c \in Key |-> IF c \in gone THEN "lost" ELSE phase[c]]
      /\ owners' = [c \in Key |-> IF c \in gone THEN {} ELSE owners[c]]
  BY <1>1, <1>2
<1>4. Once!Lose
  BY <1>3 DEF Once!Lose
<1> QED
  BY <1>4 DEF Once!OnceNext

\* The lookups, reservations and records of IdempotencyInterceptor implement
\* OnceOnly for any number of requests, keys and payloads, with any crashes:
\* until a handler throws or Redis fails on a key, one request runs the handler
\* of that key and it stays with that request.
THEOREM ImplementsOnceOnly == Spec => RunsOnce
<1>1. Init => Once!OnceInit
  <2> SUFFICES ASSUME Init PROVE Once!OnceInit
    OBVIOUS
  <2>1. ASSUME NEW k \in Key PROVE Promise(k) = "free" /\ Owners(k) = {}
    <3>1. Running(k) = {} /\ TookEffect(k) = {} /\ record[k] = {}
      BY DEF Init, Running, TookEffect
    <3> QED
      BY <3>1 DEF Init, Promise, Owners
  <2> QED
    BY <2>1 DEF Once!OnceInit
<1>2. IdemInv /\ [Next]_idemVars => [Once!OnceNext]_(Once!onceVars)
  <2> SUFFICES ASSUME IdemInv, [Next]_idemVars PROVE [Once!OnceNext]_(Once!onceVars)
    OBVIOUS
  <2>1. CASE Next
    BY <2>1, StepRefines, CrashRefines DEF Next
  <2>2. CASE UNCHANGED idemVars
    BY <2>2 DEF idemVars, Once!onceVars, Promise, Owners, Running, TookEffect
  <2> QED
    BY <2>1, <2>2
<1> QED
  BY <1>1, <1>2, IdemInvInit, IdemInvStep, PTL DEF Spec, RunsOnce, Once!OnceSpec
-----------------------------------------------------------------------------
(***************************************************************************)
(* Admission.  A call that is under way names an account, and one that is  *)
(* being counted is at one of its keys.                                    *)
(***************************************************************************)
Call == [pc : {"rest", "check", "count", "expire", "handler", "sign"},
         goal : {"none", "challenge", "verify", "refresh"}, key : {1, 2}, attempt : Nat,
         for : Account \cup {Nobody}, number : Nat, signer : Account \cup {Nobody}]

CallOK(c) ==
  /\ c \in Call
  /\ c.pc # "rest" => c.for \in Account
  /\ c.pc = "check" => c.key = 1
  /\ c.pc \in {"count", "expire"} => c.key \in 1..Len(keysToCheck(c))

CallsOK ==
  /\ wallet \in Account \cup {Nobody}
  /\ call = [t \in Tab |-> call[t]] /\ \A t \in Tab : CallOK(call[t])

\* The request has been let through and has still to be counted under k.
MustCount(c, k) ==
  /\ c.pc \in {"count", "expire"}
  /\ \E i \in 1..Len(keysToCheck(c)) :
       keysToCheck(c)[i] = k /\ (IF c.pc = "count" THEN c.key <= i ELSE c.key < i)

Pending(k) == {t \in Tab : MustCount(call[t], k)}

(***************************************************************************)
(* Requests that have been let through and not been counted yet are as     *)
(* good as counted: with them, no counter gets further above the limit     *)
(* than there are other tabs.                                              *)
(***************************************************************************)
Counted(k) == counter[k].count + Cardinality(Pending(k)) <= Limit + Cardinality(Tab) - 1

CounterInv ==
  /\ counter \in [{"ip"} \cup Account -> [count : Nat, left : Nat]]
  /\ \A k \in {"ip"} \cup Account : Counted(k)

BurstInv == CallsOK /\ CounterInv

LEMMA KeysOf ==
  ASSUME NEW c
  PROVE  /\ Len(keysToCheck(c)) \in {1, 2} /\ keysToCheck(c)[1] = "ip"
         /\ Len(keysToCheck(c)) = 2 => keysToCheck(c)[2] = c.for
<1> QED
  BY DEF keysToCheck

LEMMA RestOK == CallOK(Rest) /\ Rest.pc = "rest"
<1> QED
  BY DEF CallOK, Call, Rest

LEMMA AskOK ==
  ASSUME NEW c \in Call, c.for \in Account, NEW goal \in {"challenge", "verify", "refresh"}
  PROVE  CallOK(Ask(c, goal)) /\ Ask(c, goal).pc = "check"
<1> DEFINE r == [c EXCEPT !.pc = "check", !.goal = goal, !.key = 1]
<1>1. r \in Call /\ r.pc = "check" /\ r.for = c.for /\ r.key = 1
  BY DEF Call
<1> HIDE DEF r
<1>2. CallOK(r)
  BY <1>1 DEF CallOK
<1> QED
  BY <1>1, <1>2 DEF Ask, r

\* One call changes.
LEMMA OneCallChanges ==
  ASSUME CallsOK, wallet' \in Account \cup {Nobody}, NEW t \in Tab, NEW r, CallOK(r), Becomes(t, r)
  PROVE  /\ CallsOK' /\ call'[t] = r
         /\ \A k : Pending(k)' = IF MustCount(r, k) THEN Pending(k) \cup {t} ELSE Pending(k) \ {t}
<1>1. call' = [u \in Tab |-> IF u = t THEN r ELSE call[u]]
  BY DEF CallsOK, Becomes
<1>2. call'[t] = r /\ \A u \in Tab : u # t => call'[u] = call[u]
  BY <1>1
<1>3. CallsOK'
  BY <1>1, <1>2 DEF CallsOK
<1>4. ASSUME NEW k
      PROVE  Pending(k)' = IF MustCount(r, k) THEN Pending(k) \cup {t} ELSE Pending(k) \ {t}
  <2>1. Pending(k)' = {u \in Tab : MustCount(call'[u], k)}
    BY DEF Pending, MustCount, keysToCheck
  <2> QED
    BY <1>2, <2>1 DEF Pending
<1> QED
  BY <1>2, <1>3, <1>4

LEMMA PendingFinite ==
  ASSUME NEW k
  PROVE  /\ IsFiniteSet(Pending(k)) /\ Cardinality(Pending(k)) \in Nat
         /\ Cardinality(Pending(k)) <= Cardinality(Tab) /\ Cardinality(Tab) \in Nat
<1>1. IsFiniteSet(Tab) /\ Pending(k) \subseteq Tab
  BY AdmissionAssumption DEF Pending
<1> QED
  BY <1>1, FS_Subset, FS_CardinalityType

\* What may happen to a counter when one call goes on.
LEMMA Recount ==
  ASSUME BurstInv, wallet' \in Account \cup {Nobody}, NEW t \in Tab, NEW r, CallOK(r), Becomes(t, r),
         counter' \in [{"ip"} \cup Account -> [count : Nat, left : Nat]],
         \A k \in {"ip"} \cup Account :
           \/ counter'[k].count <= counter[k].count /\ (MustCount(r, k) => MustCount(call[t], k))
           \/ counter'[k].count = counter[k].count + 1 /\ MustCount(call[t], k) /\ ~MustCount(r, k)
           \/ counter'[k].count < Limit
  PROVE  BurstInv'
<1>1. CallsOK' /\ \A k : Pending(k)' = IF MustCount(r, k) THEN Pending(k) \cup {t} ELSE Pending(k) \ {t}
  BY OneCallChanges DEF BurstInv
<1>2. ASSUME NEW k \in {"ip"} \cup Account PROVE Counted(k)'
  <2> DEFINE P == Cardinality(Pending(k))
             Q == Cardinality(Pending(k)')
             T == Cardinality(Tab)
             m == counter[k].count
             n == counter'[k].count
  <2>1. /\ IsFiniteSet(Pending(k)) /\ P \in Nat /\ P <= T /\ T \in Nat
        /\ m \in Nat /\ n \in Nat /\ Limit \in Nat
    BY <1>2, PendingFinite, AdmissionAssumption DEF BurstInv, CounterInv
  <2>2. Q \in Nat /\ Q <= T
    <3>1. IsFiniteSet(Tab) /\ Pending(k)' \subseteq Tab
      BY AdmissionAssumption DEF Pending
    <3> QED
      BY <3>1, FS_Subset, FS_CardinalityType
  <2>3. m + P <= Limit + T - 1
    BY <1>2 DEF BurstInv, CounterInv, Counted
  <2>4. CASE n <= m /\ (MustCount(r, k) => MustCount(call[t], k))
    <3>1. Pending(k)' \subseteq Pending(k)
      BY <1>1, <2>4 DEF Pending
    <3>2. Q <= P
      BY <2>1, <3>1, FS_Subset
    <3> HIDE DEF P, Q, T, m, n
    <3>3. n + Q <= Limit + T - 1
      BY <2>1, <2>2, <2>3, <2>4, <3>2
    <3> QED
      BY <3>3 DEF Counted, Q, T, n
  <2>5. CASE n = m + 1 /\ MustCount(call[t], k) /\ ~MustCount(r, k)
    <3>1. t \in Pending(k) /\ Pending(k)' = Pending(k) \ {t}
      BY <1>1, <2>5 DEF Pending
    <3>2. Q = P - 1
      BY <2>1, <3>1, FS_RemoveElement
    <3> HIDE DEF P, Q, T, m, n
    <3>3. n + Q <= Limit + T - 1
      BY <2>1, <2>2, <2>3, <2>5, <3>2
    <3> QED
      BY <3>3 DEF Counted, Q, T, n
  <2>6. CASE n < Limit
    <3> HIDE DEF P, Q, T, m, n
    <3>3. n + Q <= Limit + T - 1
      BY <2>1, <2>2, <2>6
    <3> QED
      BY <3>3 DEF Counted, Q, T, n
  <2> QED
    BY <1>2, <2>4, <2>5, <2>6
<1> QED
  BY <1>1, <1>2 DEF BurstInv, CounterInv

\* A call that goes on outside the guard is not pending.
LEMMA Uncounted ==
  ASSUME BurstInv, NEW t \in Tab, NEW r, CallOK(r), r.pc \notin {"count", "expire"}, Becomes(t, r),
         UNCHANGED <<wallet, counter>>
  PROVE  BurstInv'
<1>1. \A k : ~MustCount(r, k)
  BY DEF MustCount
<1>2. counter \in [{"ip"} \cup Account -> [count : Nat, left : Nat]] /\ wallet \in Account \cup {Nobody}
  BY DEF BurstInv, CounterInv, CallsOK
<1>3. \A k \in {"ip"} \cup Account : counter[k].count \in Nat
  BY <1>2
<1> QED
  BY <1>1, <1>2, <1>3, Recount

\* The guard: a request that is let through found every counter below the
\* limit, and is then counted once under each of its keys.
LEMMA GuardInv ==
  ASSUME BurstInv, NEW t \in Tab, canActivate(t)
  PROVE  BurstInv'
<1> DEFINE c == call[t]
           keys == keysToCheck(c)
           k == keys[c.key]
           onward == IF c.key = Len(keys) THEN [c EXCEPT !.pc = "handler", !.key = 1]
                     ELSE [c EXCEPT !.pc = "count", !.key = @ + 1]
<1>1. CallOK(c) /\ c \in Call /\ (c.pc # "rest" => c.for \in Account)
  BY DEF BurstInv, CallsOK, CallOK
<1>2. /\ counter \in [{"ip"} \cup Account -> [count : Nat, left : Nat]]
      /\ wallet' \in Account \cup {Nobody} /\ wallet' = wallet
  BY DEF BurstInv, CounterInv, CallsOK, canActivate, otherVars
<1>3. Len(keys) \in {1, 2} /\ keys[1] = "ip" /\ (Len(keys) = 2 => keys[2] = c.for)
  BY KeysOf
<1>4. (\A j \in {"ip"} \cup Account : counter[j].count \in Nat) /\ Limit \in Nat /\ Window \in Nat
  BY <1>2, AdmissionAssumption
<1>5. /\ \/ /\ c.pc = "check"
            /\ Becomes(t, IF \E i \in 1..Len(keys) : Exceeded(keys[i]) THEN Rest
                          ELSE [c EXCEPT !.pc = "count"])
            /\ UNCHANGED counter
         \/ c.pc = "check" /\ Becomes(t, [c EXCEPT !.pc = "handler"]) /\ UNCHANGED counter
         \/ /\ c.pc = "count"
            /\ counter' = incrOrThrow(k)
            /\ Becomes(t, IF NeedsExpiry(k) THEN [c EXCEPT !.pc = "expire"] ELSE onward)
         \/ c.pc = "count" /\ Becomes(t, Rest) /\ UNCHANGED counter
         \/ /\ c.pc = "expire" /\ Becomes(t, onward)
            /\ counter' = expire(k) \/ UNCHANGED counter
  BY DEF canActivate
<1> DEFINE waits == [c EXCEPT !.pc = "count"]
           handled == [c EXCEPT !.pc = "handler"]
           expires == [c EXCEPT !.pc = "expire"]
<1>6. /\ waits \in Call /\ waits.pc = "count" /\ waits.for = c.for /\ waits.key = c.key
      /\ waits.goal = c.goal
      /\ handled \in Call /\ handled.pc = "handler" /\ handled.for = c.for
      /\ expires \in Call /\ expires.pc = "expire" /\ expires.for = c.for /\ expires.key = c.key
      /\ expires.goal = c.goal
  BY <1>1 DEF Call
<1>7. c.pc \in {"count", "expire"} => c.key \in 1..Len(keys)
  BY <1>1 DEF CallOK
<1>8. ASSUME c.pc \in {"count", "expire"}
      PROVE  /\ CallOK(onward) /\ onward.for = c.for /\ onward.goal = c.goal
             /\ \/ onward.pc = "handler"
                \/ c.key = 1 /\ Len(keys) = 2 /\ onward.pc = "count" /\ onward.key = 2
             /\ k \in {"ip"} \cup Account
             /\ \A i \in 1..Len(keys) : keys[i] = k => i = c.key
  <2>0. c.key \in 1..Len(keys) /\ c.key \in {1, 2} /\ c.for \in Account /\ "ip" \notin Account
    BY <1>1, <1>7, <1>8, AdmissionAssumption DEF Call
  <2>1. CASE c.key = Len(keys)
    <3>1. onward = [c EXCEPT !.pc = "handler", !.key = 1]
      BY <2>1
    <3>2. onward \in Call /\ onward.for = c.for /\ onward.goal = c.goal /\ onward.pc = "handler"
      BY <1>1, <3>1 DEF Call
    <3>3. CallOK(onward)
      BY <2>0, <3>2 DEF CallOK
    <3>4. k \in {"ip"} \cup Account /\ \A i \in 1..Len(keys) : keys[i] = k => i = c.key
      BY <1>3, <2>0, <2>1
    <3> QED
      BY <3>2, <3>3, <3>4
  <2>2. CASE c.key # Len(keys)
    <3>0. ASSUME NEW n \in {1, 2}, NEW i \in {1, 2}, i \in 1..n, i # n PROVE i = 1 /\ n = 2
      BY <3>0
    <3>1. c.key = 1 /\ Len(keys) = 2
      BY <1>3, <2>0, <2>2, <3>0
    <3>2. onward = [c EXCEPT !.pc = "count", !.key = 2]
      BY <1>1, <2>2, <3>1 DEF Call
    <3>3. onward \in Call /\ onward.for = c.for /\ onward.goal = c.goal /\ onward.pc = "count" /\ onward.key = 2
      BY <1>1, <3>2 DEF Call
    <3>4. keysToCheck(onward) = keys
      BY <3>3 DEF keysToCheck
    <3>5. CallOK(onward)
      <4>1. Len(keysToCheck(onward)) = 2 /\ onward.key = 2
        BY <3>1, <3>3, <3>4
      <4> HIDE DEF onward, keys
      <4> QED
        BY <2>0, <3>3, <4>1 DEF CallOK
    <3>6. k \in {"ip"} \cup Account /\ \A i \in 1..Len(keys) : keys[i] = k => i = c.key
      BY <1>3, <2>0, <3>1
    <3> QED
      BY <3>1, <3>3, <3>5, <3>6
  <2> QED
    BY <2>1, <2>2
<1>9. /\ keysToCheck(waits) = keys /\ keysToCheck(expires) = keys
      /\ c.pc \in {"count", "expire"} => keysToCheck(onward) = keys
  BY <1>6, <1>8 DEF keysToCheck
<1> HIDE DEF c, k, onward, waits, handled, expires
<1>10. CASE c.pc = "check" /\ Becomes(t, handled) /\ UNCHANGED counter
  <2>1. CallOK(handled)
    BY <1>1, <1>6, <1>10 DEF CallOK
  <2> QED
    BY <1>2, <1>6, <1>10, <2>1, Uncounted
<1>11. CASE Becomes(t, Rest) /\ UNCHANGED counter
  BY <1>2, <1>11, RestOK, Uncounted
<1>12. CASE c.pc = "check" /\ Becomes(t, waits) /\ UNCHANGED counter
            /\ ~(\E i \in 1..Len(keys) : Exceeded(keys[i]))
  <2>1. ASSUME NEW j \in {"ip"} \cup Account, MustCount(waits, j) PROVE counter[j].count < Limit
    <3>1. PICK i \in 1..Len(keysToCheck(waits)) : keysToCheck(waits)[i] = j
      BY <2>1 DEF MustCount
    <3>2. ~Exceeded(j)
      BY <1>9, <1>12, <3>1
    <3> QED
      BY <1>4, <3>2 DEF Exceeded
  <2>2. CallOK(waits)
    BY <1>1, <1>3, <1>6, <1>9, <1>12 DEF CallOK
  <2> QED
    BY <1>2, <1>4, <1>12, <2>1, <2>2, Recount
<1>13. ASSUME c.pc = "count", NEW r, r \in {expires, onward}, counter' = incrOrThrow(k), Becomes(t, r)
       PROVE  BurstInv'
  <2>1. CallOK(r) /\ keysToCheck(r) = keys
    BY <1>1, <1>6, <1>8, <1>9, <1>13 DEF CallOK
  <2>2. /\ counter' \in [{"ip"} \cup Account -> [count : Nat, left : Nat]]
        /\ counter'[k].count = counter[k].count + 1
        /\ \A j \in {"ip"} \cup Account : j # k => counter'[j] = counter[j]
    BY <1>2, <1>8, <1>13 DEF incrOrThrow
  <2>3. MustCount(c, k) /\ ~MustCount(r, k)
    <3>1. c.key \in 1..Len(keys) /\ c.key \in Int /\ k = keys[c.key]
      BY <1>1, <1>7, <1>13 DEF Call, k
    <3>2. MustCount(c, k)
      BY <1>13, <3>1 DEF MustCount
    <3>3. ~MustCount(r, k)
      BY <1>6, <1>8, <1>13, <2>1, <3>1 DEF MustCount
    <3> QED
      BY <3>2, <3>3
  <2>4. ASSUME NEW j, MustCount(r, j) PROVE MustCount(c, j)
    <3>1. c.key \in Int
      BY <1>1 DEF Call
    <3> QED
      BY <1>6, <1>8, <1>13, <2>1, <2>4, <3>1 DEF MustCount
  <2>5. \A j \in {"ip"} \cup Account :
          \/ counter'[j].count <= counter[j].count /\ (MustCount(r, j) => MustCount(c, j))
          \/ counter'[j].count = counter[j].count + 1 /\ MustCount(c, j) /\ ~MustCount(r, j)
    <3>1. ASSUME NEW j \in {"ip"} \cup Account, j # k PROVE counter'[j].count <= counter[j].count
      <4>1. counter'[j].count = counter[j].count /\ counter[j].count \in Nat
        BY <1>4, <2>2, <3>1
      <4> QED
        BY <4>1
    <3> QED
      BY <2>2, <2>3, <2>4, <3>1
  <2> QED
    BY <1>2, <1>13, <2>1, <2>2, <2>5, Recount DEF c
<1>14. ASSUME c.pc = "expire", Becomes(t, onward), counter' = expire(k) \/ UNCHANGED counter
       PROVE  BurstInv'
  <2>1. CallOK(onward) /\ keysToCheck(onward) = keys
    BY <1>8, <1>9, <1>14
  <2>2. /\ counter' \in [{"ip"} \cup Account -> [count : Nat, left : Nat]]
        /\ \A j \in {"ip"} \cup Account : counter'[j].count = counter[j].count
    <3>1. CASE counter' = expire(k)
      BY <1>2, <1>4, <1>8, <1>14, <3>1 DEF expire
    <3>2. CASE UNCHANGED counter
      BY <1>2, <3>2
    <3> QED
      BY <1>14, <3>1, <3>2
  <2>3. ASSUME NEW j, MustCount(onward, j) PROVE MustCount(c, j)
    BY <1>8, <1>14, <2>1, <2>3 DEF MustCount
  <2>4. ASSUME NEW j \in {"ip"} \cup Account PROVE counter'[j].count <= counter[j].count
    <3>1. counter'[j].count = counter[j].count /\ counter[j].count \in Nat
      BY <1>4, <2>2
    <3> QED
      BY <3>1
  <2> QED
    BY <1>2, <1>14, <2>1, <2>2, <2>3, <2>4, Recount DEF c
<1>15. CASE c.pc = "check" /\ UNCHANGED counter
            /\ Becomes(t, IF \E i \in 1..Len(keys) : Exceeded(keys[i]) THEN Rest ELSE waits)
  BY <1>11, <1>12, <1>15
<1>16. CASE c.pc = "count" /\ counter' = incrOrThrow(k)
            /\ Becomes(t, IF NeedsExpiry(k) THEN expires ELSE onward)
  BY <1>13, <1>16
<1> QED
  BY <1>5, <1>10, <1>11, <1>14, <1>15, <1>16 DEF waits, handled, expires, onward

\* A tick empties the counters whose window is over and no other.
LEMMA TickRecounts ==
  ASSUME BurstInv, AdmTick
  PROVE  BurstInv'
<1>1. counter \in [{"ip"} \cup Account -> [count : Nat, left : Nat]] /\ Limit \in Nat
  BY AdmissionAssumption DEF BurstInv, CounterInv
<1>2. counter' = [k \in {"ip"} \cup Account |->
         IF counter[k].left = 1 THEN NoCounter ELSE [counter[k] EXCEPT !.left = Less(@)]]
  BY <1>1 DEF AdmTick
<1>3. ASSUME NEW k \in {"ip"} \cup Account
      PROVE  /\ counter'[k] \in [count : Nat, left : Nat]
             /\ counter'[k].count \in {0, counter[k].count}
  <2>1. counter[k] \in [count : Nat, left : Nat] /\ Less(counter[k].left) \in Nat
    BY <1>1 DEF Less
  <2>2. CASE counter[k].left = 1
    BY <1>2, <2>2 DEF NoCounter
  <2>3. CASE counter[k].left # 1
    BY <1>2, <2>1, <2>3
  <2> QED
    BY <2>2, <2>3
<1>4. counter' \in [{"ip"} \cup Account -> [count : Nat, left : Nat]]
  BY <1>2, <1>3
<1>5. CallsOK' /\ \A k : Pending(k)' = Pending(k)
  BY DEF AdmTick, BurstInv, CallsOK, CallOK, Pending, MustCount
<1>6. ASSUME NEW k \in {"ip"} \cup Account PROVE Counted(k)'
  <2>1. Cardinality(Pending(k)) \in Nat /\ Cardinality(Tab) \in Nat /\ Counted(k)
    BY PendingFinite DEF BurstInv, CounterInv
  <2>2. counter[k].count \in Nat
    BY <1>1
  <2>3. counter'[k].count <= counter[k].count /\ counter'[k].count \in Nat
    BY <1>3, <2>2
  <2> QED
    BY <1>1, <1>5, <2>1, <2>2, <2>3 DEF Counted
<1> QED
  BY <1>4, <1>5, <1>6 DEF BurstInv, CounterInv

\* Every step: a login or a refresh is counted in the guard and nowhere else.
LEMMA BurstStep ==
  ASSUME BurstInv, issued \in Seq(Account), [AdmNext]_admVars
  PROVE  BurstInv'
<1>0. /\ wallet \in Account \cup {Nobody} /\ CallsOK
      /\ \A t \in Tab : CallOK(call[t]) /\ call[t] \in Call
                        /\ (call[t].pc # "rest" => call[t].for \in Account)
  BY DEF BurstInv, CallsOK, CallOK
<1>1. ASSUME UNCHANGED <<call, counter>>, wallet' \in Account \cup {Nobody} PROVE BurstInv'
  BY <1>1 DEF BurstInv, CallsOK, CallOK, CounterInv, Counted, Pending, MustCount
<1>2. ASSUME NEW t \in Tab, NEW a \in Account, login(t, a) \/ refresh(t, a) PROVE BurstInv'
  <2>1. /\ [Rest EXCEPT !.attempt = 1, !.for = a] \in Call
        /\ [Rest EXCEPT !.attempt = 1, !.for = a].for = a
        /\ [Rest EXCEPT !.for = a] \in Call /\ [Rest EXCEPT !.for = a].for = a
    BY DEF Rest, Call
  <2>2. CASE login(t, a)
    <3>1. /\ CallOK(Ask([Rest EXCEPT !.attempt = 1, !.for = a], "challenge"))
          /\ Ask([Rest EXCEPT !.attempt = 1, !.for = a], "challenge").pc = "check"
      BY <2>1, AskOK
    <3> QED
      BY <2>2, <3>1, Uncounted DEF login, otherVars
  <2>3. CASE refresh(t, a)
    <3>1. /\ CallOK(Ask([Rest EXCEPT !.for = a], "refresh"))
          /\ Ask([Rest EXCEPT !.for = a], "refresh").pc = "check"
      BY <2>1, AskOK
    <3> QED
      BY <2>3, <3>1, Uncounted DEF refresh, otherVars
  <2> QED
    BY <1>2, <2>2, <2>3
<1>3. ASSUME NEW t \in Tab, signChallenge(t) PROVE BurstInv'
  <2>1. UNCHANGED <<wallet, counter>> /\ call[t].for \in Account
    BY <1>0, <1>3 DEF signChallenge, otherVars
  <2>2. CASE Becomes(t, Rest)
    BY <2>1, <2>2, RestOK, Uncounted
  <2>3. CASE Becomes(t, Ask([call[t] EXCEPT !.signer = wallet], "verify"))
    <3> DEFINE c == [call[t] EXCEPT !.signer = wallet]
    <3>1. c \in Call /\ c.for \in Account
      BY <1>0, <2>1 DEF Call
    <3> HIDE DEF c
    <3>2. CallOK(Ask(c, "verify")) /\ Ask(c, "verify").pc = "check"
      BY <3>1, AskOK
    <3>3. Becomes(t, Ask(c, "verify"))
      BY <2>3 DEF c
    <3> QED
      BY <2>1, <3>2, <3>3, Uncounted
  <2> QED
    BY <1>3, <2>2, <2>3 DEF signChallenge
<1>4. ASSUME NEW t \in Tab, generateChallenge(t) PROVE BurstInv'
  <2> DEFINE r == [call[t] EXCEPT !.pc = "sign", !.number = Len(issued) + 1]
  <2>1. call[t] \in Call /\ call[t].for \in Account
    BY <1>0, <1>4 DEF generateChallenge, Reaches
  <2>2. r \in Call /\ r.pc = "sign" /\ r.for = call[t].for
    <3>1. Len(issued) + 1 \in Nat
      OBVIOUS
    <3> QED
      BY <2>1, <3>1 DEF Call
  <2>3. Becomes(t, r) /\ UNCHANGED <<wallet, counter>>
    BY <1>4 DEF generateChallenge, otherVars
  <2> HIDE DEF r
  <2>4. CallOK(r)
    BY <2>1, <2>2 DEF CallOK
  <2> QED
    BY <2>2, <2>3, <2>4, Uncounted
<1>5. ASSUME NEW t \in Tab, verifySignature(t) PROVE BurstInv'
  <2> DEFINE c == call[t]
             again == [Rest EXCEPT !.for = c.for, !.attempt = c.attempt + 1]
  <2>1. UNCHANGED <<wallet, counter>> /\ c \in Call /\ c.for \in Account
    BY <1>0, <1>5 DEF verifySignature, Reaches, otherVars
  <2>2. Becomes(t, Rest) \/ UNCHANGED call \/ Becomes(t, Ask(again, "challenge"))
    BY <1>5 DEF verifySignature
  <2>3. again \in Call /\ again.for \in Account
    <3>1. c.attempt + 1 \in Nat
      BY <2>1 DEF Call
    <3> QED
      BY <2>1, <3>1 DEF Rest, Call
  <2> HIDE DEF again
  <2>4. CallOK(Ask(again, "challenge")) /\ Ask(again, "challenge").pc = "check"
    BY <2>3, AskOK
  <2> QED
    BY <1>0, <1>1, <2>1, <2>2, <2>4, RestOK, Uncounted
<1>6. ASSUME NEW t \in Tab, refreshToken(t) PROVE BurstInv'
  BY <1>6, RestOK, Uncounted DEF refreshToken, otherVars
<1>7. ASSUME NEW t \in Tab, canActivate(t) PROVE BurstInv'
  BY <1>7, GuardInv
<1>8. ASSUME NEW target \in Target, NEW i, create(target) \/ verifyIntent(i, target) PROVE BurstInv'
  BY <1>0, <1>1, <1>8 DEF create, verifyIntent
<1>9. CASE Freighter
  BY <1>1, <1>9 DEF Freighter
<1>10. CASE AdmTick
  BY <1>10, TickRecounts
<1>11. CASE UNCHANGED admVars
  BY <1>0, <1>1, <1>11 DEF admVars
<1> QED
  BY <1>2, <1>3, <1>4, <1>5, <1>6, <1>7, <1>8, <1>9, <1>10, <1>11 DEF AdmNext, ServerStep
-----------------------------------------------------------------------------
(***************************************************************************)
(* Challenges.  What is stored for an account was issued to it and has     *)
(* signed nobody in: GETDEL takes it away with the first session it gives. *)
(***************************************************************************)
Unused(a, d) == d.number \in DOMAIN issued /\ issued[d.number] = a /\ sessions[d.number] = <<>>

SessionInv ==
  /\ issued \in Seq(Account) /\ sessions \in Seq(Seq(Account)) /\ Len(sessions) = Len(issued)
  /\ challenge \in [Account -> SUBSET [number : Nat, left : Int]]
  /\ \A a \in Account : \A d \in challenge[a] : Unused(a, d)
  /\ OneSessionPerChallenge

\* Nothing that SessionInv speaks of changes.
LEMMA SessionIdle ==
  ASSUME SessionInv, UNCHANGED <<issued, sessions, challenge>>
  PROVE  SessionInv'
<1> QED
  BY DEF SessionInv, Unused, OneSessionPerChallenge

\* A new challenge has a number of its own, whether or not it is stored.
LEMMA ChallengeInv ==
  ASSUME CallsOK, SessionInv, NEW t \in Tab, generateChallenge(t)
  PROVE  SessionInv'
<1> DEFINE a == call[t].for
           N == Len(issued)
           new == [number |-> N + 1, left |-> ChallengeTtl]
<1>1. a \in Account /\ ChallengeTtl \in Nat
  BY AdmissionAssumption DEF generateChallenge, Reaches, CallsOK, CallOK
<1>2. /\ issued \in Seq(Account) /\ sessions \in Seq(Seq(Account)) /\ Len(sessions) = N /\ N \in Nat
      /\ challenge \in [Account -> SUBSET [number : Nat, left : Int]]
  BY DEF SessionInv
<1>3. /\ issued' = Append(issued, a) /\ sessions' = Append(sessions, <<>>)
      /\ challenge' = [challenge EXCEPT ![a] = {new}] \/ challenge' = challenge
  BY DEF generateChallenge
<1>4. /\ issued' \in Seq(Account) /\ sessions' \in Seq(Seq(Account))
      /\ Len(issued') = N + 1 /\ Len(sessions') = N + 1
      /\ issued'[N + 1] = a /\ sessions'[N + 1] = <<>>
      /\ \A n \in 1..N : issued'[n] = issued[n] /\ sessions'[n] = sessions[n]
  BY <1>1, <1>2, <1>3
<1>5. new \in [number : Nat, left : Int] /\ new.number = N + 1
  BY <1>1, <1>2
<1> HIDE DEF a, N, new
<1>6. challenge' \in [Account -> SUBSET [number : Nat, left : Int]]
  BY <1>1, <1>2, <1>3, <1>5
<1>7. ASSUME NEW b \in Account, NEW d \in challenge'[b] PROVE Unused(b, d)'
  <2>1. CASE d \in challenge[b]
    <3>1. Unused(b, d) /\ DOMAIN issued = 1..N /\ DOMAIN issued' = 1..(N + 1)
      BY <1>2, <1>4, <2>1 DEF SessionInv, N
    <3>2. d.number \in 1..N /\ d.number \in 1..(N + 1)
      BY <1>2, <3>1 DEF Unused
    <3> QED
      BY <1>4, <3>1, <3>2 DEF Unused
  <2>2. CASE d \notin challenge[b]
    <3>1. b = a /\ d = new
      BY <1>1, <1>2, <1>3, <2>2
    <3>2. DOMAIN issued' = 1..(N + 1) /\ N + 1 \in 1..(N + 1)
      BY <1>2, <1>4
    <3> QED
      BY <1>4, <1>5, <3>1, <3>2 DEF Unused
  <2> QED
    BY <2>1, <2>2
<1>8. OneSessionPerChallenge'
  <2>1. DOMAIN sessions = 1..N /\ DOMAIN sessions' = 1..(N + 1)
    BY <1>2, <1>4
  <2>2. ASSUME NEW n \in 1..(N + 1) PROVE sessions'[n] \in {<<>>, <<issued'[n]>>}
    <3>1. CASE n \in 1..N
      BY <1>4, <2>1, <3>1 DEF SessionInv, OneSessionPerChallenge
    <3>2. CASE n = N + 1
      BY <1>4, <3>2
    <3> QED
      BY <1>2, <3>1, <3>2
  <2> QED
    BY <2>1, <2>2 DEF OneSessionPerChallenge
<1> QED
  BY <1>4, <1>6, <1>7, <1>8 DEF SessionInv

\* The challenge is gone before the signature is looked at; the one that gives
\* a session is the account's own.
LEMMA VerifyInv ==
  ASSUME CallsOK, SessionInv, NEW t \in Tab, verifySignature(t)
  PROVE  SessionInv'
<1> DEFINE c == call[t]
           a == c.for
           m == c.number
<1>1. a \in Account /\ issued' = issued
  BY DEF verifySignature, Reaches, CallsOK, CallOK
<1>2. /\ issued \in Seq(Account) /\ sessions \in Seq(Seq(Account)) /\ Len(sessions) = Len(issued)
      /\ challenge \in [Account -> SUBSET [number : Nat, left : Int]]
      /\ \A b \in Account : \A d \in challenge[b] : Unused(b, d)
  BY DEF SessionInv
<1>3. \/ challenge' = challenge /\ sessions' = sessions
      \/ challenge' = getDel(a) /\ sessions' = sessions
      \/ /\ challenge' = getDel(a) /\ \E stored \in challenge[a] : stored.number = m
         /\ sessions' = [sessions EXCEPT ![m] = Append(@, a)]
  BY DEF verifySignature
<1> HIDE DEF c, a, m
<1>4. CASE challenge' = challenge /\ sessions' = sessions
  BY <1>1, <1>4, SessionIdle
<1>5. ASSUME challenge' = getDel(a)
      PROVE  /\ challenge' \in [Account -> SUBSET [number : Nat, left : Int]]
             /\ \A b \in Account : \A d \in challenge'[b] : d \in challenge[b] /\ b # a
  BY <1>1, <1>2, <1>5 DEF getDel
<1>6. CASE challenge' = getDel(a) /\ sessions' = sessions
  BY <1>1, <1>2, <1>5, <1>6 DEF SessionInv, Unused, OneSessionPerChallenge
<1>7. CASE /\ challenge' = getDel(a) /\ \E stored \in challenge[a] : stored.number = m
           /\ sessions' = [sessions EXCEPT ![m] = Append(@, a)]
  <2>1. m \in 1..Len(issued) /\ issued[m] = a /\ sessions[m] = <<>>
    <3>1. PICK stored \in challenge[a] : stored.number = m
      BY <1>7
    <3>2. Unused(a, stored) /\ DOMAIN issued = 1..Len(issued)
      BY <1>1, <1>2
    <3> QED
      BY <3>1, <3>2 DEF Unused
  <2>2. Append(sessions[m], a) = <<a>> /\ <<a>> \in Seq(Account)
    BY <1>1, <2>1
  <2>3. sessions' = [sessions EXCEPT ![m] = <<a>>]
    BY <1>7, <2>2
  <2>4. sessions' \in Seq(Seq(Account)) /\ Len(sessions') = Len(sessions)
    BY <1>2, <2>1, <2>2, <2>3
  <2>5. DOMAIN sessions = 1..Len(issued) /\ DOMAIN sessions' = 1..Len(issued)
    BY <1>2, <2>4
  <2>6. sessions'[m] = <<a>> /\ \A n \in 1..Len(issued) : n # m => sessions'[n] = sessions[n]
    BY <2>1, <2>3, <2>5
  <2>7. ASSUME NEW b \in Account, NEW d \in challenge'[b] PROVE Unused(b, d)'
    <3>1. Unused(b, d) /\ b # a
      BY <1>2, <1>5, <1>7
    <3>2. d.number \in 1..Len(issued) /\ d.number # m
      BY <1>2, <2>1, <3>1 DEF Unused
    <3> QED
      BY <1>1, <2>6, <3>1, <3>2 DEF Unused
  <2>8. OneSessionPerChallenge'
    BY <1>1, <2>1, <2>5, <2>6 DEF SessionInv, OneSessionPerChallenge
  <2> QED
    BY <1>1, <1>2, <1>5, <1>7, <2>4, <2>7, <2>8 DEF SessionInv
<1> QED
  BY <1>3, <1>4, <1>6, <1>7

\* Challenges run out.
LEMMA TickForgets ==
  ASSUME SessionInv, AdmTick
  PROVE  SessionInv'
<1>1. /\ challenge' = [a \in Account |->
           {[c EXCEPT !.left = @ - 1] : c \in {d \in challenge[a] : d.left > 1}}]
      /\ issued' = issued /\ sessions' = sessions
  BY DEF AdmTick
<1>2. ASSUME NEW a \in Account, NEW e \in challenge'[a]
      PROVE  e \in [number : Nat, left : Int] /\ \E d \in challenge[a] : e.number = d.number
  <2>1. PICK d \in challenge[a] : e = [d EXCEPT !.left = @ - 1]
    BY <1>1
  <2>2. d \in [number : Nat, left : Int]
    BY DEF SessionInv
  <2> QED
    BY <2>1, <2>2
<1>3. challenge' \in [Account -> SUBSET [number : Nat, left : Int]]
  BY <1>1, <1>2
<1>4. ASSUME NEW a \in Account, NEW e \in challenge'[a] PROVE Unused(a, e)'
  <2>1. PICK d \in challenge[a] : e.number = d.number
    BY <1>2
  <2> QED
    BY <1>1, <2>1 DEF SessionInv, Unused
<1> QED
  BY <1>1, <1>3, <1>4 DEF SessionInv, OneSessionPerChallenge

LEMMA SessionStep ==
  ASSUME CallsOK, SessionInv, [AdmNext]_admVars
  PROVE  SessionInv'
<1>1. ASSUME NEW t \in Tab, NEW a \in Account,
             login(t, a) \/ refresh(t, a) \/ signChallenge(t) \/ canActivate(t) \/ refreshToken(t)
      PROVE  SessionInv'
  BY <1>1, SessionIdle DEF login, refresh, signChallenge, canActivate, refreshToken
<1>2. ASSUME NEW target \in Target, NEW i, create(target) \/ verifyIntent(i, target) PROVE SessionInv'
  BY <1>2, SessionIdle DEF create, verifyIntent
<1>3. CASE Freighter \/ UNCHANGED admVars
  BY <1>3, SessionIdle DEF Freighter, admVars
<1>4. Account # {}
  BY AdmissionAssumption
<1> QED
  BY <1>1, <1>2, <1>3, <1>4, ChallengeInv, VerifyInv, TickForgets DEF AdmNext, ServerStep
-----------------------------------------------------------------------------
(***************************************************************************)
(* Intents.  The nonce of an intent that was accepted outlives it: by the  *)
(* time that Redis has forgotten the nonce the intent is no longer valid.  *)
(***************************************************************************)
Remembered(i) ==
  /\ intents[i].left >= -1
  /\ Len(accepted[i]) # 0 => Len(accepted[i]) = 1 /\ nonces[i] > intents[i].left

IntentInv ==
  /\ intents \in Seq([target : Target, left : Int]) /\ nonces \in Seq(Nat)
  /\ accepted \in Seq(Seq(Target))
  /\ Len(nonces) = Len(intents) /\ Len(accepted) = Len(intents)
  /\ \A i \in 1..Len(intents) : Remembered(i)

LEMMA ElementOf ==
  ASSUME NEW S, NEW s \in Seq(S), NEW i \in 1..Len(s)
  PROVE  s[i] \in S
<1> QED
  OBVIOUS

LEMMA IntentIdle ==
  ASSUME IntentInv, UNCHANGED <<intents, nonces, accepted>>
  PROVE  IntentInv'
<1> QED
  BY DEF IntentInv, Remembered

\* A new intent has not been accepted.
LEMMA CreateInv ==
  ASSUME IntentInv, NEW target \in Target, create(target)
  PROVE  IntentInv'
<1> DEFINE N == Len(intents)
           new == [target |-> target, left |-> IntentLife]
<1>1. /\ intents' = Append(intents, new) /\ nonces' = Append(nonces, 0)
      /\ accepted' = Append(accepted, <<>>)
  BY DEF create
<1>2. /\ intents \in Seq([target : Target, left : Int]) /\ nonces \in Seq(Nat)
      /\ accepted \in Seq(Seq(Target)) /\ Len(nonces) = N /\ Len(accepted) = N /\ N \in Nat
  BY DEF IntentInv
<1>3. new \in [target : Target, left : Int] /\ new.left >= -1
  BY AdmissionAssumption
<1> HIDE DEF new
<1>4. /\ intents' \in Seq([target : Target, left : Int]) /\ Len(intents') = N + 1
      /\ intents'[N + 1] = new /\ \A i \in 1..N : intents'[i] = intents[i]
  BY <1>1, <1>2, <1>3
<1>5. /\ nonces' \in Seq(Nat) /\ Len(nonces') = N + 1 /\ \A i \in 1..N : nonces'[i] = nonces[i]
  BY <1>1, <1>2
<1>6. /\ accepted' \in Seq(Seq(Target)) /\ Len(accepted') = N + 1
      /\ accepted'[N + 1] = <<>> /\ \A i \in 1..N : accepted'[i] = accepted[i]
  BY <1>1, <1>2
<1> HIDE DEF N
<1>7. ASSUME NEW i \in 1..(N + 1) PROVE Remembered(i)'
  <2>1. CASE i \in 1..N
    <3>1. Remembered(i)
      BY <2>1 DEF IntentInv, N
    <3> QED
      BY <1>4, <1>5, <1>6, <2>1, <3>1 DEF Remembered
  <2>2. CASE i = N + 1
    <3>1. Len(accepted'[i]) = 0 /\ intents'[i].left >= -1
      BY <1>3, <1>4, <1>6, <2>2
    <3> QED
      BY <3>1 DEF Remembered
  <2> QED
    BY <1>2, <2>1, <2>2
<1> QED
  BY <1>4, <1>5, <1>6, <1>7 DEF IntentInv

\* An intent that is still valid and has no nonce has not been accepted.
LEMMA VerifyIntentInv ==
  ASSUME IntentInv, NEW i \in DOMAIN intents, NEW target \in Target, verifyIntent(i, target)
  PROVE  IntentInv'
<1> DEFINE N == Len(intents)
<1>1. /\ intents \in Seq([target : Target, left : Int]) /\ nonces \in Seq(Nat)
      /\ accepted \in Seq(Seq(Target)) /\ Len(nonces) = N /\ Len(accepted) = N
      /\ DOMAIN intents = 1..N /\ i \in 1..N /\ NonceMargin \in Nat /\ NonceMargin > 0
  BY AdmissionAssumption DEF IntentInv
<1>2. intents' = intents /\ intents[i].left >= 0 /\ intents[i].left \in Int
  <2>1. intents[i] \in [target : Target, left : Int]
    BY <1>1, ElementOf
  <2> QED
    BY <2>1 DEF verifyIntent
<1>3. \/ setNx(i) /\ accepted' = [accepted EXCEPT ![i] = Append(@, target)]
      \/ setNx(i) /\ accepted' = accepted
      \/ nonces' = nonces /\ accepted' = accepted
  BY DEF verifyIntent
<1>4. \A j \in 1..N : Remembered(j)
  BY DEF IntentInv
<1>5. CASE nonces' = nonces /\ accepted' = accepted
  BY <1>2, <1>5, IntentIdle
<1>6. CASE setNx(i) /\ (accepted' = [accepted EXCEPT ![i] = Append(@, target)] \/ accepted' = accepted)
  <2>1. nonces[i] = 0 /\ nonces' = [nonces EXCEPT ![i] = intents[i].left + NonceMargin]
    BY <1>6 DEF setNx, NonceTtl
  <2>2. Len(accepted[i]) = 0 /\ accepted[i] \in Seq(Target)
    <3>1. Remembered(i) /\ accepted[i] \in Seq(Target)
      BY <1>1, <1>4
    <3> QED
      BY <1>2, <2>1, <3>1 DEF Remembered
  <2>3. intents[i].left + NonceMargin \in Nat /\ intents[i].left + NonceMargin > intents[i].left
    BY <1>1, <1>2
  <2>4. /\ nonces' \in Seq(Nat) /\ Len(nonces') = N /\ nonces'[i] > intents[i].left
        /\ \A j \in 1..N : j # i => nonces'[j] = nonces[j]
    BY <1>1, <2>1, <2>3
  <2>5. Append(accepted[i], target) \in Seq(Target) /\ Len(Append(accepted[i], target)) = 1
    BY <2>2
  <2>6. /\ accepted' \in Seq(Seq(Target)) /\ Len(accepted') = N
        /\ Len(accepted'[i]) = 0 \/ Len(accepted'[i]) = 1
        /\ \A j \in 1..N : j # i => accepted'[j] = accepted[j]
    <3>1. CASE accepted' = [accepted EXCEPT ![i] = Append(@, target)]
      <4>1. accepted' = [accepted EXCEPT ![i] = Append(accepted[i], target)]
        BY <3>1
      <4> QED
        BY <1>1, <2>5, <4>1
    <3>2. CASE accepted' = accepted
      BY <1>1, <2>2, <3>2
    <3> QED
      BY <1>6, <3>1, <3>2
  <2>7. ASSUME NEW j \in 1..N PROVE Remembered(j)'
    <3>1. CASE j = i
      BY <1>2, <2>4, <2>6, <3>1 DEF Remembered
    <3>2. CASE j # i
      BY <1>2, <1>4, <2>4, <2>6, <3>2 DEF Remembered
    <3> QED
      BY <3>1, <3>2
  <2> QED
    BY <1>1, <1>2, <2>4, <2>6, <2>7 DEF IntentInv
<1> QED
  BY <1>3, <1>5, <1>6

\* An intent and its nonce grow old together.
LEMMA TickAges ==
  ASSUME IntentInv, AdmTick
  PROVE  IntentInv'
<1> DEFINE N == Len(intents)
<1>1. /\ intents \in Seq([target : Target, left : Int]) /\ nonces \in Seq(Nat)
      /\ accepted \in Seq(Seq(Target)) /\ Len(nonces) = N /\ Len(accepted) = N /\ N \in Nat
      /\ DOMAIN intents = 1..N /\ DOMAIN nonces = 1..N
  BY DEF IntentInv
<1>2. /\ intents' = [i \in 1..N |-> Older(intents[i])] /\ nonces' = [i \in 1..N |-> Less(nonces[i])]
      /\ accepted' = accepted
  BY <1>1 DEF AdmTick
<1>3. ASSUME NEW i \in 1..N
      PROVE  /\ Older(intents[i]) \in [target : Target, left : Int] /\ Less(nonces[i]) \in Nat
             /\ Remembered(i)'
  <2>0. intents[i] \in [target : Target, left : Int] /\ nonces[i] \in Nat
    BY <1>1, ElementOf
  <2>1. /\ intents[i] \in [target : Target, left : Int] /\ nonces[i] \in Nat
        /\ intents[i].left \in Int
    BY <2>0
  <2>2. Remembered(i)
    BY DEF IntentInv
  <2>3. /\ Older(intents[i]) \in [target : Target, left : Int]
        /\ Older(intents[i]).left = IF intents[i].left = -1 THEN -1 ELSE intents[i].left - 1
    BY <2>1 DEF Older
  <2>4. Less(nonces[i]) \in Nat /\ Less(nonces[i]) >= nonces[i] - 1
    BY <2>1 DEF Less
  <2>5. intents'[i].left >= -1 /\ (nonces[i] > intents[i].left => nonces'[i] > intents'[i].left)
    <3>1. intents'[i].left = (IF intents[i].left = -1 THEN -1 ELSE intents[i].left - 1)
          /\ nonces'[i] = Less(nonces[i]) /\ intents[i].left >= -1
      BY <1>2, <2>2, <2>3 DEF Remembered
    <3> QED
      BY <2>1, <2>4, <3>1
  <2> QED
    BY <1>2, <2>2, <2>3, <2>4, <2>5 DEF Remembered
<1>4. /\ intents' \in Seq([target : Target, left : Int]) /\ Len(intents') = N
      /\ nonces' \in Seq(Nat) /\ Len(nonces') = N
  <2> HIDE DEF N
  <2> QED
    BY <1>1, <1>2, <1>3
<1> QED
  BY <1>1, <1>2, <1>3, <1>4 DEF IntentInv

LEMMA IntentStep ==
  ASSUME IntentInv, [AdmNext]_admVars
  PROVE  IntentInv'
<1>1. ASSUME NEW t \in Tab, NEW a \in Account,
             \/ login(t, a) \/ refresh(t, a) \/ signChallenge(t) \/ canActivate(t)
             \/ generateChallenge(t) \/ verifySignature(t) \/ refreshToken(t)
      PROVE  IntentInv'
  <2>1. UNCHANGED <<intents, nonces, accepted>>
    BY <1>1 DEF login, refresh, signChallenge, canActivate, generateChallenge, verifySignature,
                refreshToken, otherVars
  <2> QED
    BY <2>1, IntentIdle
<1>2. CASE Freighter \/ UNCHANGED admVars
  BY <1>2, IntentIdle DEF Freighter, admVars
<1>3. Account # {}
  BY AdmissionAssumption
<1> QED
  BY <1>1, <1>2, <1>3, CreateInv, VerifyIntentInv, TickAges DEF AdmNext, ServerStep
-----------------------------------------------------------------------------
\* The three parts together: only the rate limit needs another's types.
AdmInv == BurstInv /\ SessionInv /\ IntentInv

\* Nothing has been asked for yet.
LEMMA AdmInvInit == AdmInit => AdmInv
<1> SUFFICES ASSUME AdmInit PROVE AdmInv
  OBVIOUS
<1>1. CallsOK
  BY RestOK DEF AdmInit, CallsOK
<1>2. \A k : Pending(k) = {}
  BY RestOK DEF AdmInit, Pending, MustCount
<1>3. CounterInv
  <2>1. Cardinality(Tab) \in Nat /\ Limit \in Nat \ {0}
    BY AdmissionAssumption, FS_CardinalityType, FS_EmptySet
  <2>2. \A k \in {"ip"} \cup Account : counter[k].count = 0 /\ Cardinality(Pending(k)) = 0
    BY <1>2, FS_EmptySet DEF AdmInit, NoCounter
  <2>3. counter \in [{"ip"} \cup Account -> [count : Nat, left : Nat]]
    BY DEF AdmInit, NoCounter
  <2> QED
    BY <2>1, <2>2, <2>3 DEF CounterInv, Counted
<1>4. SessionInv
  BY DEF AdmInit, SessionInv, OneSessionPerChallenge
<1>5. IntentInv
  BY DEF AdmInit, IntentInv
<1> QED
  BY <1>1, <1>3, <1>4, <1>5 DEF AdmInv, BurstInv

LEMMA AdmInvariant == AdmSpec => []AdmInv
<1>1. AdmInv /\ [AdmNext]_admVars => AdmInv'
  <2> SUFFICES ASSUME AdmInv, [AdmNext]_admVars PROVE AdmInv'
    OBVIOUS
  <2>1. BurstInv /\ CallsOK /\ SessionInv /\ IntentInv /\ issued \in Seq(Account)
    BY DEF AdmInv, BurstInv, SessionInv
  <2> QED
    BY <2>1, BurstStep, SessionStep, IntentStep DEF AdmInv
<1> QED
  BY <1>1, AdmInvInit, PTL DEF AdmSpec

\* AuthService: for any number of tabs, accounts and Redis failures, a
\* challenge signs in at most one account, once, and it is the account that
\* asked for it, although tabs replace each other's challenges, verify requests
\* are delivered twice and the wallet's account changes in between.
THEOREM ChallengesSignInOnce == AdmSpec => []OneSessionPerChallenge
<1>1. AdmInv => OneSessionPerChallenge
  BY DEF AdmInv, SessionInv
<1> QED
  BY <1>1, AdmInvariant, PTL

\* IntentService: for any life of an intent and any margin by which its nonce
\* outlives it, an intent is acted upon at most once.
THEOREM IntentsAreSpent == AdmSpec => []IntentsActOnce
<1>1. AdmInv => IntentsActOnce
  <2> SUFFICES ASSUME AdmInv, NEW i \in DOMAIN accepted PROVE Len(accepted[i]) <= 1
    BY DEF IntentsActOnce
  <2>1. IntentInv /\ i \in 1..Len(intents)
    BY DEF AdmInv, IntentInv
  <2>2. Remembered(i)
    BY <2>1 DEF IntentInv
  <2>3. Len(accepted[i]) \in {0, 1}
    BY <2>2 DEF Remembered
  <2>4. \A n \in {0, 1} : n <= 1
    OBVIOUS
  <2> QED
    BY <2>3, <2>4
<1> QED
  BY <1>1, AdmInvariant, PTL

\* RateLimitGuard reads and increments in separate commands: for any limit,
\* window and number of tabs, no counter gets further above the limit than by
\* one request of each tab but one.
THEOREM BurstsAreBounded == AdmSpec => []BurstIsBounded
<1>1. AdmInv => BurstIsBounded
  <2> SUFFICES ASSUME AdmInv, NEW k \in DOMAIN counter
               PROVE  counter[k].count <= Limit + Cardinality(Tab) - 1
    BY DEF BurstIsBounded
  <2>1. counter \in [{"ip"} \cup Account -> [count : Nat, left : Nat]] /\ k \in {"ip"} \cup Account
    BY DEF AdmInv, BurstInv, CounterInv
  <2>2. counter[k].count \in Nat /\ Counted(k)
    BY <2>1 DEF AdmInv, BurstInv, CounterInv
  <2> QED
    BY <2>2, PendingFinite, AdmissionAssumption DEF Counted
<1> QED
  BY <1>1, AdmInvariant, PTL

(***************************************************************************)
(* KYC records.  Changes are numbered, so the last line of an account's    *)
(* log is its latest change; an answered change is in the log; and nothing *)
(* that lets a refused account through is newer than the refusal.          *)
(***************************************************************************)
KycRec == [status : KycStatus, expiresAt : Nat, change : Nat]
AuditLine == [job : Job, address : Applicant, status : KycStatus, expiresAt : Nat, change : Nat]
Served == [pc : {"idle", "fetch", "judge", "persist", "cache"}, op : {"none", "full", "status"},
           account : Applicant \cup {Idle.account}, rec : KycRec, at : Nat,
           verdict : {"none", "eligible"}]

KycTypes ==
  /\ time \in Nat /\ changes \in Nat /\ unsaved \in BOOLEAN
  /\ records \in [Applicant -> KycRec] /\ snapshot \subseteq [Applicant -> KycRec]
  /\ audit \in Seq(AuditLine) /\ writeLock \in Seq(AuditLine)
  /\ {"on", "line", "file", "records"} \subseteq DOMAIN writing
  /\ {writing.on, writing.line, writing.file} \subseteq BOOLEAN
  /\ writing.on => writing.records \in [Applicant -> KycRec]
  /\ cache \in [Applicant -> SUBSET [rec : KycRec, left : 1..CacheTtl]]
  /\ job \in [Job -> Served]
  /\ \A j \in Job : job[j].at <= time
  /\ \A j \in Job : job[j].pc # "idle" \/ job[j].verdict = "eligible" => job[j].account \in Applicant
  /\ answered \in [Applicant -> Nat] /\ refused \in [Applicant -> Nat]

Numbered ==
  /\ \A i, k \in DOMAIN audit : i < k => audit[i].change < audit[k].change
  /\ \A i, k \in DOMAIN writeLock : i < k => writeLock[i].change < writeLock[k].change
  /\ \A i \in DOMAIN audit, k \in DOMAIN writeLock :
       \/ audit[i].change < writeLock[k].change
       \/ k = 1 /\ writing.line /\ audit[i].change = writeLock[k].change
  /\ \A i \in DOMAIN audit : audit[i].change <= changes
  /\ \A k \in DOMAIN writeLock : writeLock[k].change <= changes
  /\ writing.on => writeLock # <<>>
  /\ writing.line => writing.on /\ \E i \in DOMAIN audit : audit[i] = writeLock[1]
  /\ writing.file => snapshot # {}

\* A request whose change is not answered yet.
Waits(j) == job[j].pc \in {"persist", "cache"}

\* The record has the change, or a later one.
Kept(q, rec) == q.rec.change <= rec.change /\ (q.rec.change = rec.change => q.rec.status = rec.status)

Queued ==
  /\ \A k \in DOMAIN writeLock :
       LET q == job[writeLock[k].job]
       IN  /\ q.pc = "persist" /\ q.account = writeLock[k].address
           /\ q.rec.change = writeLock[k].change /\ q.rec.status = writeLock[k].status
  /\ \A j \in Job : job[j].pc = "persist" => \E k \in DOMAIN writeLock : writeLock[k].job = j
  /\ \A j \in Job : job[j].pc = "cache" =>
       \A k \in DOMAIN writeLock : job[j].rec.change < writeLock[k].change
  /\ \A j \in Job : Waits(j) => job[j].rec.change <= changes
  /\ \A i, j \in Job : Waits(i) /\ Waits(j) /\ i # j => job[i].rec.change # job[j].rec.change
  /\ \A j \in Job, a \in Applicant : Waits(j) => answered[a] < job[j].rec.change
  /\ \A a \in Applicant : answered[a] <= changes
  /\ \A j \in Job : Waits(j) => Kept(job[j], records[job[j].account])

IsLast(i, lines) == i \in lines /\ \A k \in lines : k <= i

Latest ==
  \A a \in Applicant :
    /\ Lines(a) # {} => \E i \in DOMAIN audit : IsLast(i, Lines(a))
    /\ Dated(a) # {} => \E i \in DOMAIN audit : IsLast(i, Dated(a))
    /\ records[a].change # 0 =>
         /\ \A i \in Lines(a) : audit[i].change <= records[a].change
         /\ \A k \in DOMAIN writeLock :
              writeLock[k].address = a => writeLock[k].change <= records[a].change

Logged(a, change, status) ==
  snapshot # {} /\ \E i \in Lines(a) : audit[i].change = change /\ audit[i].status = status

Saved ==
  /\ \A j \in Job : job[j].pc = "cache" =>
       Logged(job[j].account, job[j].rec.change, job[j].rec.status)
  /\ \A a \in Applicant : answered[a] # 0 =>
       snapshot # {} /\ \E i \in Lines(a) : audit[i].change = answered[a]
  /\ \A a \in Applicant : answered[a] <= records[a].change

\* An answer that lets an account through.
LetsThrough(q) == \/ q.pc = "judge" /\ ~Refuses(q.rec.status)
                  \/ q.pc = "idle" /\ q.verdict = "eligible"

Honoured ==
  \A a \in Applicant : refused[a] # 0 =>
    /\ answered[a] # 0 /\ refused[a] <= time /\ Refuses(records[a].status)
    /\ \A i \in Lines(a) : audit[i].change >= answered[a] => Refuses(audit[i].status)
    /\ \A k \in DOMAIN writeLock : writeLock[k].address = a => Refuses(writeLock[k].status)
    /\ \A c \in cache[a] : Refuses(c.rec.status) \/ time + c.left <= refused[a] + CacheTtl
    /\ \A j \in Job : job[j].account = a /\ LetsThrough(job[j]) => job[j].at < refused[a] + CacheTtl

KycInv == KycTypes /\ Numbered /\ Queued /\ Latest /\ (~unsaved => Saved /\ Honoured)

LEMMA IdleIs ==
  /\ Idle \in Served /\ Idle.pc = "idle" /\ Idle.verdict = "none" /\ Idle.at = 0
  /\ NoRecord \in KycRec
<1>1. NoRecord \in KycRec
  BY DEF NoRecord, KycRec, KycStatus
<1>2. /\ Idle.pc = "idle" /\ Idle.op = "none" /\ Idle.rec = NoRecord /\ Idle.at = 0
      /\ Idle.verdict = "none" /\ Idle = [pc |-> "idle", op |-> "none", account |-> Idle.account,
           rec |-> NoRecord, at |-> 0, verdict |-> "none"]
  BY DEF Idle
<1> QED
  BY <1>1, <1>2 DEF Served

\* An expired record is refused whatever is required.
LEMMA EligibleIs == ASSUME NEW rec, Eligible(rec) PROVE ~Refuses(rec.status)
<1>1. ~compareStatus("EXPIRED", "VERIFIED")
  <2>1. STATUS_ORDER[4] = "EXPIRED" /\ STATUS_ORDER[5] = "VERIFIED" /\ Len(STATUS_ORDER) = 6
    BY DEF STATUS_ORDER
  <2>2. \A i \in 1..6 : /\ STATUS_ORDER[i] = "EXPIRED" => i = 4
                        /\ STATUS_ORDER[i] = "VERIFIED" => i = 5
    BY DEF STATUS_ORDER
  <2> QED
    BY <2>1, <2>2 DEF compareStatus
<1> QED
  BY <1>1 DEF Eligible, Refuses, resolveEffectiveStatus

LEMMA KycInvInit == KycInit => KycInv
<1> SUFFICES ASSUME KycInit PROVE KycInv
  OBVIOUS
<1> USE IdleIs DEF KycInit
<1>1. KycTypes
  <2>1. audit \in Seq(AuditLine) /\ writeLock \in Seq(AuditLine) /\ snapshot \subseteq [Applicant -> KycRec]
    OBVIOUS
  <2>2. {"on", "line", "file", "records"} \subseteq DOMAIN writing
        /\ {writing.on, writing.line, writing.file} \subseteq BOOLEAN /\ ~writing.on
    BY DEF NotWriting
  <2>3. cache \in [Applicant -> SUBSET [rec : KycRec, left : 1..CacheTtl]]
    OBVIOUS
  <2>4. job \in [Job -> Served] /\ \A j \in Job : job[j] = Idle
    OBVIOUS
  <2>5. records \in [Applicant -> KycRec] /\ answered \in [Applicant -> Nat] /\ refused \in [Applicant -> Nat]
    OBVIOUS
  <2>6. \A j \in Job : job[j].at <= time /\ job[j].pc = "idle"
    BY <2>4
  <2>7. time \in Nat /\ changes \in Nat /\ unsaved \in BOOLEAN
    OBVIOUS
  <2> HIDE DEF KycInit
  <2> QED
    BY <2>1, <2>2, <2>3, <2>4, <2>5, <2>6, <2>7 DEF KycTypes
<1>2. Numbered /\ Queued
  BY DEF Numbered, Queued, Waits, Kept, NotWriting
<1>3. Latest
  BY DEF Latest, Lines, Dated, NoRecord
<1>4. Saved
  BY DEF Saved, NoRecord
<1>5. Honoured
  BY DEF Honoured
<1> QED
  BY <1>1, <1>2, <1>3, <1>4, <1>5 DEF KycInv

\* The lock is free.
LEMMA PersistInv == ASSUME KycInv, Persist PROVE KycInv'
<1>1. /\ writing'.on = TRUE /\ writing'.line = FALSE /\ writing'.file = FALSE
      /\ writing'.records = records /\ writing.on \in BOOLEAN /\ ~writing.on
      /\ {"on", "line", "file", "records"} \subseteq DOMAIN writing'
  BY DEF Persist, NotWriting, KycInv, KycTypes
<1>2. KycTypes'
  BY <1>1 DEF KycInv, KycTypes, Persist
<1>3. Numbered'
  BY <1>1 DEF KycInv, Numbered, Persist
<1>4. Queued' /\ Latest'
  BY DEF KycInv, Queued, Waits, Kept, Latest, IsLast, Lines, Dated, Persist
<1>5. ~unsaved' => Saved' /\ Honoured'
  BY DEF KycInv, Saved, Honoured, Logged, LetsThrough, Lines, Persist
<1> QED
  BY <1>2, <1>3, <1>4, <1>5 DEF KycInv

LEMMA WriteSnapshotInv == ASSUME KycInv, writeSnapshot PROVE KycInv'
<1>1. /\ writing'.on = writing.on /\ writing'.line = writing.line /\ writing'.file = TRUE
      /\ writing'.records = writing.records /\ writing.on
      /\ snapshot' = {writing.records} /\ snapshot' # {}
  BY DEF writeSnapshot, KycInv, KycTypes
<1>2. KycTypes'
  BY <1>1 DEF KycInv, KycTypes, writeSnapshot
<1>3. Numbered'
  BY <1>1 DEF KycInv, Numbered, writeSnapshot
<1>4. Queued' /\ Latest'
  BY DEF KycInv, Queued, Waits, Kept, Latest, IsLast, Lines, Dated, writeSnapshot
<1>5. ~unsaved' => Saved' /\ Honoured'
  BY <1>1 DEF KycInv, Saved, Honoured, Logged, LetsThrough, Lines, writeSnapshot
<1> QED
  BY <1>2, <1>3, <1>4, <1>5 DEF KycInv

LEMMA AppendAuditInv == ASSUME KycInv, appendAuditLine PROVE KycInv'
<1>1. /\ writing'.on = writing.on /\ writing'.line = TRUE /\ writing'.file = writing.file
      /\ writing'.records = writing.records /\ writing.on /\ ~writing.line
      /\ {"on", "line", "file", "records"} \subseteq DOMAIN writing'
  BY DEF appendAuditLine, KycInv, KycTypes
<1>2. /\ audit \in Seq(AuditLine) /\ writeLock \in Seq(AuditLine) /\ writeLock # <<>>
  BY <1>1 DEF KycInv, KycTypes, Numbered
<1>3. PICK N \in Nat, w \in AuditLine : N = Len(audit) /\ w = writeLock[1] /\ w = Head(writeLock)
  BY <1>2
<1>4. /\ audit' = Append(audit, w) /\ audit' \in Seq(AuditLine) /\ 1 \in DOMAIN writeLock
      /\ DOMAIN audit = 1..N /\ DOMAIN audit' = 1..N+1
      /\ \A i \in 1..N : audit'[i] = audit[i]
      /\ audit'[N+1] = w
  BY <1>2, <1>3 DEF appendAuditLine
<1>5. /\ \A a : Lines(a) \subseteq 1..N /\ Lines(a) \subseteq Lines(a)'
      /\ \A a, i : i \in Lines(a)' => i \in Lines(a) \/ (i = N + 1 /\ w.address = a)
  BY <1>4 DEF Lines
<1>6. /\ \A i \in DOMAIN audit : audit[i].change < w.change
      /\ w.change <= changes
  BY <1>1, <1>3, <1>4 DEF KycInv, Numbered
<1>7. KycTypes'
  BY <1>1, <1>4 DEF KycInv, KycTypes, appendAuditLine
<1>8. Numbered'
  <2>1. writeLock' = writeLock /\ changes' = changes /\ snapshot' = snapshot
    BY DEF appendAuditLine
  <2>2. \A i, k \in 1..N+1 : i < k => audit'[i].change < audit'[k].change
    <3> SUFFICES ASSUME NEW i \in 1..N+1, NEW k \in 1..N+1, i < k
                 PROVE  audit'[i].change < audit'[k].change
      OBVIOUS
    <3>1. i \in 1..N /\ (k \in 1..N \/ k = N + 1)
      OBVIOUS
    <3> QED
      BY <1>4, <1>6, <3>1 DEF KycInv, Numbered
  <2>3. \A i \in 1..N+1, k \in DOMAIN writeLock :
          \/ audit'[i].change < writeLock[k].change
          \/ k = 1 /\ audit'[i].change = writeLock[k].change
    <3> SUFFICES ASSUME NEW i \in 1..N+1, NEW k \in DOMAIN writeLock
                 PROVE  \/ audit'[i].change < writeLock[k].change
                        \/ k = 1 /\ audit'[i].change = writeLock[k].change
      OBVIOUS
    <3>1. CASE i \in 1..N
      BY <1>4, <3>1 DEF KycInv, Numbered
    <3>2. CASE i = N + 1
      <4>1. audit'[i] = writeLock[1] /\ (k = 1 \/ 1 < k)
        BY <1>2, <1>3, <1>4, <3>2
      <4> QED
        BY <1>4, <4>1 DEF KycInv, Numbered
    <3> QED
      BY <3>1, <3>2
  <2>4. \A i \in 1..N+1 : audit'[i].change <= changes
    BY <1>4, <1>6 DEF KycInv, Numbered
  <2>5. N + 1 \in 1..N+1 /\ audit'[N+1] = writeLock[1]
    BY <1>3, <1>4
  <2> QED
    BY <1>1, <1>4, <2>1, <2>2, <2>3, <2>4, <2>5 DEF KycInv, Numbered
<1>9. Queued'
  BY DEF KycInv, Queued, Waits, Kept, appendAuditLine
<1>10. Latest'
  <2> SUFFICES ASSUME NEW a \in Applicant
               PROVE  /\ Lines(a)' # {} => \E i \in DOMAIN audit' : IsLast(i, Lines(a)')
                      /\ Dated(a)' # {} => \E i \in DOMAIN audit' : IsLast(i, Dated(a)')
                      /\ records[a].change # 0 => \A i \in Lines(a)' : audit'[i].change <= records[a].change
    BY DEF KycInv, Latest, IsLast, appendAuditLine
  <2>1. CASE w.address = a
    <3>1. N + 1 \in DOMAIN audit' /\ IsLast(N + 1, Lines(a)')
      BY <1>4, <1>5, <2>1 DEF IsLast, Lines
    <3>2. records[a].change # 0 => w.change <= records[a].change
      BY <1>3, <1>4, <2>1 DEF KycInv, Latest
    <3>3. records[a].change # 0 => \A i \in Lines(a)' : audit'[i].change <= records[a].change
      BY <1>4, <1>5, <3>2 DEF KycInv, Latest
    <3>4. CASE w.expiresAt # 0
      <4>1. IsLast(N + 1, Dated(a)')
        BY <1>4, <3>1, <3>4 DEF IsLast, Dated
      <4> QED
        BY <3>1, <3>3, <4>1
    <3>5. CASE w.expiresAt = 0
      <4>1. Dated(a)' = Dated(a)
        BY <1>4, <1>5, <3>5 DEF Dated
      <4>2. Dated(a) # {} => \E i \in 1..N : IsLast(i, Dated(a))
        BY <1>4 DEF KycInv, Latest
      <4>3. Dated(a)' # {} => \E i \in DOMAIN audit' : IsLast(i, Dated(a)')
        BY <1>4, <4>1, <4>2 DEF IsLast
      <4> QED
        BY <3>1, <3>3, <4>3
    <3> QED
      BY <3>4, <3>5
  <2>2. CASE w.address # a
    <3>1. Lines(a)' = Lines(a)
      BY <1>4, <2>2 DEF Lines
    <3>2. Dated(a)' = Dated(a)
      BY <1>4, <1>5, <3>1 DEF Dated
    <3> QED
      BY <1>4, <1>5, <3>1, <3>2 DEF KycInv, Latest
  <2> QED
    BY <2>1, <2>2
<1>11. ~unsaved' => Saved' /\ Honoured'
  <2> SUFFICES ASSUME ~unsaved PROVE Saved' /\ Honoured'
    BY DEF appendAuditLine
  <2>1. /\ snapshot' = snapshot /\ job' = job /\ answered' = answered /\ records' = records
        /\ refused' = refused /\ writeLock' = writeLock /\ cache' = cache /\ time' = time
    BY DEF appendAuditLine
  <2>2. \A a, c, s : Logged(a, c, s) => Logged(a, c, s)'
    BY <1>4, <1>5, <2>1 DEF Logged
  <2>3. Saved'
    <3>1. \A j \in Job : job[j].pc = "cache" =>
            Logged(job[j].account, job[j].rec.change, job[j].rec.status)'
      <4> SUFFICES ASSUME NEW j \in Job, job[j].pc = "cache"
                   PROVE  Logged(job[j].account, job[j].rec.change, job[j].rec.status)'
        OBVIOUS
      <4>1. PICK a, c, s : /\ a = job[j].account /\ c = job[j].rec.change /\ s = job[j].rec.status
                           /\ Logged(a, c, s)
        BY DEF KycInv, Saved
      <4>2. Logged(a, c, s)'
        BY <2>2, <4>1
      <4> QED
        BY <2>1, <4>1, <4>2
    <3>2. \A a \in Applicant : answered[a] # 0 =>
            snapshot # {} /\ \E i \in Lines(a)' : audit'[i].change = answered[a]
      BY <1>4, <1>5 DEF KycInv, Saved
    <3> QED
      BY <2>1, <3>1, <3>2 DEF KycInv, Saved
  <2>4. Honoured'
    <3>1. \A a \in Applicant : refused[a] # 0 =>
            \A i \in Lines(a)' : audit'[i].change >= answered[a] => Refuses(audit'[i].status)
      BY <1>3, <1>4, <1>5 DEF KycInv, Honoured
    <3> QED
      BY <2>1, <3>1 DEF KycInv, Honoured, LetsThrough
  <2> QED
    BY <2>3, <2>4
<1> QED
  BY <1>7, <1>8, <1>9, <1>10, <1>11 DEF KycInv

\* The queue without its first line.
LEMMA TailIs ==
  ASSUME NEW S, NEW s \in Seq(S), NEW N \in Nat, Len(s) = N + 1
  PROVE  /\ DOMAIN s = 1..N+1 /\ Tail(s) \in Seq(S) /\ DOMAIN Tail(s) = 1..N /\ 1 \in DOMAIN s
         /\ \A k \in 1..N : k + 1 \in 1..N+1 /\ Tail(s)[k] = s[k+1]
         /\ \A k \in 1..N+1 : k = 1 \/ (k - 1 \in 1..N /\ Tail(s)[k - 1] = s[k])
         /\ Head(s) = s[1]
<1>1. DOMAIN s = 1..N+1 /\ Tail(s) \in Seq(S) /\ DOMAIN Tail(s) = 1..N
  OBVIOUS
<1>2. 1 \in DOMAIN s /\ Head(s) = s[1]
  BY <1>1
<1>3. ASSUME NEW k \in 1..N PROVE k + 1 \in 1..N+1 /\ Tail(s)[k] = s[k+1]
  OBVIOUS
<1>4. ASSUME NEW k \in 1..N+1, k # 1 PROVE k - 1 \in 1..N /\ Tail(s)[k - 1] = s[k]
  <2>1. PICK i \in 1..N : i = k - 1
    BY <1>4
  <2>2. Tail(s)[i] = s[i+1] /\ i + 1 = k
    BY <1>3, <2>1
  <2> QED
    BY <2>1, <2>2
<1> QED
  BY <1>1, <1>2, <1>3, <1>4

\* The change at the head of the queue is written, or the disk has failed.
LEMMA PersistEndsInv == ASSUME KycInv, PersistEnds PROVE KycInv'
<1>1. /\ writing.on /\ writing' = NotWriting
      /\ (Written /\ unsaved' = unsaved) \/ unsaved' = TRUE
      /\ writeLock' = Tail(writeLock)
      /\ UNCHANGED <<time, records, snapshot, audit, cache, changes, answered, refused>>
  BY DEF PersistEnds
<1>2. /\ writing'.on = FALSE /\ writing'.line = FALSE /\ writing'.file = FALSE
      /\ {"on", "line", "file", "records"} \subseteq DOMAIN writing'
  BY <1>1 DEF NotWriting
<1>3. writeLock \in Seq(AuditLine) /\ writeLock # <<>>
  <2>1. writeLock \in Seq(AuditLine)
    BY DEF KycInv, KycTypes
  <2>2. writing.on => writeLock # <<>>
    BY Zenon DEF KycInv, Numbered
  <2> QED
    BY <1>1, <2>1, <2>2
<1>4. PICK N \in Nat : Len(writeLock) = N + 1
  <2>1. Len(writeLock) \in Nat /\ Len(writeLock) # 0
    BY <1>3
  <2>2. Len(writeLock) = (Len(writeLock) - 1) + 1 /\ Len(writeLock) - 1 \in Nat
    BY <2>1
  <2> QED
    BY <2>2, Zenon
<1>5. /\ DOMAIN writeLock = 1..N+1 /\ DOMAIN writeLock' = 1..N /\ 1 \in DOMAIN writeLock
      /\ \A k \in 1..N : k + 1 \in 1..N+1 /\ writeLock'[k] = writeLock[k+1]
      /\ \A k \in 1..N+1 : k = 1 \/ (k - 1 \in 1..N /\ writeLock'[k - 1] = writeLock[k])
      /\ writeLock' \in Seq(AuditLine) /\ Head(writeLock) = writeLock[1]
  BY <1>1, <1>3, <1>4, TailIs
<1>6. PICK j \in Job, w \in AuditLine : w = writeLock[1] /\ j = w.job
  <2>1. writeLock[1] \in AuditLine
    BY <1>3, <1>5
  <2> QED
    BY <2>1 DEF AuditLine
<1>7. PICK q \in Served : q = [job[j] EXCEPT !.pc = "cache"]
  <2>1. PICK p \in Served : p = job[j]
    BY DEF KycInv, KycTypes
  <2>2. [p EXCEPT !.pc = "cache"] \in Served
    BY ONLY <2>1 DEF Served
  <2> QED
    BY <2>1, <2>2
<1>8. /\ q.pc = "cache" /\ q.account = job[j].account /\ q.rec = job[j].rec /\ q.at = job[j].at
      /\ job' = [job EXCEPT ![j] = q] /\ job[j].pc = "persist"
      /\ q.account = w.address /\ q.rec.change = w.change /\ q.rec.status = w.status
      /\ q.account \in Applicant
  <2>1. q.pc = "cache" /\ q.account = job[j].account /\ q.rec = job[j].rec /\ q.at = job[j].at
    BY <1>7 DEF KycInv, KycTypes, Served
  <2>2. job' = [job EXCEPT ![j] = q]
    BY <1>5, <1>6, <1>7 DEF PersistEnds
  <2>3. /\ job[j].pc = "persist" /\ job[j].account = w.address /\ job[j].rec.change = w.change
        /\ job[j].rec.status = w.status
    BY <1>5, <1>6 DEF KycInv, Queued
  <2> QED
    BY <2>1, <2>2, <2>3 DEF AuditLine
<1>9. \A x \in Job : job'[x] = (IF x = j THEN q ELSE job[x])
  BY <1>8 DEF KycInv, KycTypes
<1>10. KycTypes'
  <2>1. job' \in [Job -> Served]
    BY <1>8 DEF KycInv, KycTypes
  <2>2. \A x \in Job : job'[x].at <= time /\ (job'[x].pc # "idle" \/ job'[x].verdict = "eligible" => job'[x].account \in Applicant)
    BY <1>8, <1>9 DEF KycInv, KycTypes
  <2>3. unsaved' \in BOOLEAN
    BY <1>1 DEF KycInv, KycTypes
  <2> QED
    BY <1>1, <1>2, <1>5, <2>1, <2>2, <2>3 DEF KycInv, KycTypes
<1>11. Numbered'
  <2>1. \A i, k \in 1..N : i < k => writeLock'[i].change < writeLock'[k].change
    <3> SUFFICES ASSUME NEW i \in 1..N, NEW k \in 1..N, i < k
                 PROVE  writeLock'[i].change < writeLock'[k].change
      OBVIOUS
    <3>1. /\ i + 1 \in DOMAIN writeLock /\ k + 1 \in DOMAIN writeLock /\ i + 1 < k + 1
          /\ writeLock'[i] = writeLock[i+1] /\ writeLock'[k] = writeLock[k+1]
      BY <1>5
    <3> QED
      BY <3>1 DEF KycInv, Numbered
  <2>2. \A i \in DOMAIN audit, k \in 1..N : audit[i].change < writeLock'[k].change
    <3> SUFFICES ASSUME NEW i \in DOMAIN audit, NEW k \in 1..N
                 PROVE  audit[i].change < writeLock'[k].change
      OBVIOUS
    <3>1. k + 1 \in DOMAIN writeLock /\ k + 1 # 1 /\ writeLock'[k] = writeLock[k+1]
      BY <1>5
    <3> QED
      BY <3>1 DEF KycInv, Numbered
  <2>3. \A k \in 1..N : writeLock'[k].change <= changes
    <3> SUFFICES ASSUME NEW k \in 1..N PROVE writeLock'[k].change <= changes
      OBVIOUS
    <3>1. k + 1 \in DOMAIN writeLock /\ writeLock'[k] = writeLock[k+1]
      BY <1>5
    <3> QED
      BY <3>1 DEF KycInv, Numbered
  <2> QED
    BY <1>1, <1>2, <1>5, <2>1, <2>2, <2>3 DEF KycInv, Numbered
<1>12. Queued'
  <2>1. \A k \in 1..N : writeLock'[k] = writeLock[k+1] /\ writeLock[k+1].job # j
                        /\ w.change < writeLock[k+1].change
    <3> SUFFICES ASSUME NEW k \in 1..N PROVE writeLock[k+1].job # j /\ w.change < writeLock[k+1].change
      BY <1>5
    <3>1. w.change < writeLock[k+1].change /\ w.change \in Int /\ writeLock[k+1].change \in Int
      <4>1. k + 1 \in DOMAIN writeLock /\ 1 < k + 1
        BY <1>5
      <4>2. w.change < writeLock[k+1].change
        BY <1>5, <1>6, <4>1 DEF KycInv, Numbered
      <4>3. writeLock[k+1] \in AuditLine
        BY <1>3, <4>1
      <4> QED
        BY <4>2, <4>3 DEF AuditLine
    <3>2. writeLock[k+1].job = j => writeLock[k+1].change = w.change
      BY <1>5, <1>8 DEF KycInv, Queued
    <3> QED
      BY <3>1, <3>2
  <2>2. \A k \in 1..N : LET p == job'[writeLock'[k].job]
                        IN  /\ p.pc = "persist" /\ p.account = writeLock'[k].address
                            /\ p.rec.change = writeLock'[k].change /\ p.rec.status = writeLock'[k].status
    <3> SUFFICES ASSUME NEW k \in 1..N
                 PROVE  LET p == job'[writeLock'[k].job]
                        IN  /\ p.pc = "persist" /\ p.account = writeLock'[k].address
                            /\ p.rec.change = writeLock'[k].change /\ p.rec.status = writeLock'[k].status
      OBVIOUS
    <3>1. writeLock[k+1] \in AuditLine /\ k + 1 \in DOMAIN writeLock
      BY <1>3, <1>5
    <3>2. writeLock[k+1].job \in Job /\ writeLock[k+1].job # j
      BY <2>1, <3>1 DEF AuditLine
    <3> QED
      BY <1>9, <2>1, <3>1, <3>2 DEF KycInv, Queued
  <2>3. \A x \in Job : job'[x].pc = "persist" => \E k \in 1..N : writeLock'[k].job = x
    <3> SUFFICES ASSUME NEW x \in Job, job'[x].pc = "persist"
                 PROVE  \E k \in 1..N : writeLock'[k].job = x
      OBVIOUS
    <3>1. x # j /\ job[x].pc = "persist"
      BY <1>8, <1>9
    <3>2. PICK k \in 1..N+1 : writeLock[k].job = x
      BY <1>5, <3>1 DEF KycInv, Queued
    <3> QED
      BY <1>5, <1>6, <3>1, <3>2
  <2>4. \A x \in Job : job'[x].pc = "cache" => \A k \in 1..N : job'[x].rec.change < writeLock'[k].change
    <3> SUFFICES ASSUME NEW x \in Job, job'[x].pc = "cache", NEW k \in 1..N
                 PROVE  job'[x].rec.change < writeLock'[k].change
      OBVIOUS
    <3> QED
      BY <1>5, <1>8, <1>9, <2>1 DEF KycInv, Queued
  <2>5. \A x \in Job : Waits(x)' <=> Waits(x)
    BY <1>8, <1>9 DEF Waits
  <2>6. \A x \in Job : job'[x].rec = job[x].rec
    BY <1>8, <1>9
  <2>7. \A x \in Job : Waits(x)' => job'[x].rec.change <= changes
    BY <2>5, <2>6 DEF KycInv, Queued
  <2>8. \A x, y \in Job : Waits(x)' /\ Waits(y)' /\ x # y => job'[x].rec.change # job'[y].rec.change
    BY <2>5, <2>6 DEF KycInv, Queued
  <2>9. \A x \in Job, a \in Applicant : Waits(x)' => answered[a] < job'[x].rec.change
    BY <2>5, <2>6 DEF KycInv, Queued
  <2>10. \A a \in Applicant : answered[a] <= changes
    BY DEF KycInv, Queued
  <2>11. \A x \in Job : Waits(x)' => Kept(job'[x], records[job'[x].account])
    <3> SUFFICES ASSUME NEW x \in Job, Waits(x)' PROVE Kept(job'[x], records[job'[x].account])
      OBVIOUS
    <3>1. Kept(job[x], records[job[x].account])
      BY <2>5 DEF KycInv, Queued
    <3>2. job'[x].rec = job[x].rec /\ job'[x].account = job[x].account
      BY <1>8, <1>9
    <3> QED
      BY <3>1, <3>2 DEF Kept
  <2> QED
    BY <1>1, <1>5, <2>2, <2>3, <2>4, <2>7, <2>8, <2>9, <2>10, <2>11 DEF Queued, Kept
<1>13. Latest'
  <2>1. \A a : Lines(a)' = Lines(a) /\ Dated(a)' = Dated(a)
    BY <1>1 DEF Lines, Dated
  <2>2. \A a \in Applicant : records[a].change # 0 => \A k \in 1..N :
          writeLock'[k].address = a => writeLock'[k].change <= records[a].change
    BY <1>5 DEF KycInv, Latest
  <2> QED
    BY <1>1, <1>5, <2>1, <2>2 DEF KycInv, Latest, IsLast
<1>14. ASSUME ~unsaved' PROVE Saved' /\ Honoured'
  <2>1. writing.line /\ writing.file /\ ~unsaved
    BY <1>1, <1>14 DEF Written, KycInv, KycTypes
  <2>2. snapshot # {} /\ \E i \in Lines(w.address) : audit[i] = w
    BY <1>6, <2>1 DEF KycInv, Numbered, Lines
  <2>3. Logged(q.account, q.rec.change, q.rec.status)
    BY <1>8, <2>2 DEF Logged
  <2>4. \A a, c, s : Logged(a, c, s)' <=> Logged(a, c, s)
    BY <1>1 DEF Logged, Lines
  <2>5. ASSUME NEW x \in Job, job'[x].pc = "cache"
        PROVE  Logged(job[x].account, job[x].rec.change, job[x].rec.status)'
    <3>1. PICK p \in Served : p = job'[x]
      BY <1>10 DEF KycTypes
    <3>2. Logged(p.account, p.rec.change, p.rec.status)
      BY <1>9, <2>1, <2>3, <2>5, <3>1 DEF KycInv, Saved
    <3> QED
      BY <2>4, <3>1, <3>2
  <2>6. Saved'
    BY <1>1, <2>1, <2>5 DEF KycInv, Saved, Lines
  <2>7. \A x \in Job : LetsThrough(job[x])' => LetsThrough(job[x]) /\ job'[x] = job[x]
    BY <1>8, <1>9 DEF LetsThrough
  <2>8. \A a \in Applicant : refused[a] # 0 => \A k \in 1..N :
          writeLock'[k].address = a => Refuses(writeLock'[k].status)
    <3> SUFFICES ASSUME NEW a \in Applicant, refused[a] # 0, NEW k \in 1..N, writeLock'[k].address = a
                 PROVE  Refuses(writeLock'[k].status)
      OBVIOUS
    <3>1. k + 1 \in DOMAIN writeLock /\ writeLock'[k] = writeLock[k+1]
      BY <1>5
    <3> QED
      BY <2>1, <3>1 DEF KycInv, Honoured
  <2>9. Honoured'
    BY <1>1, <1>5, <2>1, <2>7, <2>8 DEF KycInv, Honoured, Lines
  <2> QED
    BY <2>6, <2>9
<1> QED
  BY <1>10, <1>11, <1>12, <1>13, <1>14 DEF KycInv

\* What is replayed is the last line.
LEMMA Replayed ==
  ASSUME KycInv, NEW from \in [Applicant -> KycRec], NEW a \in Applicant
  PROVE  LET rec == replayAudit(from)[a]
         IN  /\ rec \in KycRec
             /\ Lines(a) = {} => rec = from[a]
             /\ Lines(a) # {} => \E i \in DOMAIN audit :
                  IsLast(i, Lines(a)) /\ rec.status = audit[i].status /\ rec.change = audit[i].change
<1>1. audit \in Seq(AuditLine) /\ Lines(a) \subseteq DOMAIN audit /\ Dated(a) \subseteq Lines(a)
  BY DEF KycInv, KycTypes, Lines, Dated
<1>2. ASSUME NEW S, S \subseteq DOMAIN audit, NEW i \in DOMAIN audit, IsLast(i, S)
      PROVE  Max(S) = i
  <2>1. DOMAIN audit \subseteq Int
    BY <1>1
  <2> QED
    BY <1>2, <2>1 DEF Max, IsLast
<1>3. \A i \in DOMAIN audit : /\ audit[i].status \in KycStatus /\ audit[i].change \in Nat
                             /\ audit[i].expiresAt \in Nat
  <2> SUFFICES ASSUME NEW i \in DOMAIN audit
               PROVE  audit[i].status \in KycStatus /\ audit[i].change \in Nat /\ audit[i].expiresAt \in Nat
    OBVIOUS
  <2>1. audit[i] \in AuditLine
    BY <1>1
  <2> QED
    BY <2>1 DEF AuditLine
<1>4. CASE Lines(a) = {}
  BY <1>4 DEF replayAudit
<1>5. CASE Lines(a) # {}
  <2>1. PICK i \in DOMAIN audit : IsLast(i, Lines(a))
    BY <1>5 DEF KycInv, Latest
  <2>2. Max(Lines(a)) = i
    BY <1>1, <1>2, <2>1
  <2>3. PICK e : e = (IF Dated(a) = {} THEN from[a].expiresAt ELSE audit[Max(Dated(a))].expiresAt)
    OBVIOUS
  <2>4. e \in Nat
    <3>1. CASE Dated(a) = {}
      <4>1. from[a] \in KycRec
        OBVIOUS
      <4> QED
        BY <2>3, <3>1, <4>1 DEF KycRec
    <3>2. CASE Dated(a) # {}
      <4>1. PICK k \in DOMAIN audit : IsLast(k, Dated(a))
        BY <3>2 DEF KycInv, Latest
      <4>2. Max(Dated(a)) = k
        BY <1>1, <1>2, <4>1
      <4> QED
        BY <1>3, <2>3, <3>2, <4>2
    <3> QED
      BY <3>1, <3>2
  <2>5. replayAudit(from)[a] = [status |-> audit[i].status, change |-> audit[i].change, expiresAt |-> e]
    BY <1>5, <2>2, <2>3 DEF replayAudit
  <2> QED
    BY <1>3, <1>5, <2>1, <2>4, <2>5 DEF KycRec
<1> QED
  BY <1>4, <1>5

\* A crash, at whatever moment.
LEMMA KycCrashInv == ASSUME KycInv, onModuleInit PROVE KycInv'
<1>1. PICK readable \in BOOLEAN : loadSnapshot(readable) /\ unsaved' = (unsaved \/ ~readable)
  BY DEF onModuleInit
<1>2. /\ writeLock' = <<>> /\ writing' = NotWriting /\ \A j \in Job : job'[j] = Idle
      /\ job' = [j \in Job |-> Idle]
      /\ UNCHANGED <<time, snapshot, audit, cache, changes, answered, refused>>
  BY DEF onModuleInit
<1>3. /\ writing'.on = FALSE /\ writing'.line = FALSE /\ writing'.file = FALSE
      /\ {"on", "line", "file", "records"} \subseteq DOMAIN writing'
      /\ writeLock' \in Seq(AuditLine) /\ DOMAIN writeLock' = {}
  BY <1>2 DEF NotWriting
<1>4. /\ records' \in [Applicant -> KycRec]
      /\ \A a \in Applicant :
           /\ snapshot = {} => records'[a].change = 0
           /\ snapshot # {} /\ Lines(a) # {} => \E i \in DOMAIN audit :
                IsLast(i, Lines(a)) /\ records'[a].status = audit[i].status /\ records'[a].change = audit[i].change
  <2>1. CASE snapshot = {}
    BY <1>1, <2>1, IdleIs DEF loadSnapshot, NoRecord
  <2>2. CASE snapshot # {}
    <3>1. PICK from \in [Applicant -> KycRec] : records' = replayAudit(from)
      <4>1. \E from : from = (IF readable THEN CHOOSE s \in snapshot : TRUE ELSE [a \in Applicant |-> NoRecord])
                     /\ records' = replayAudit(from)
        BY <1>1, <2>2 DEF loadSnapshot
      <4>2. (CHOOSE s \in snapshot : TRUE) \in [Applicant -> KycRec]
        BY <2>2 DEF KycInv, KycTypes
      <4>3. [a \in Applicant |-> NoRecord] \in [Applicant -> KycRec]
        BY IdleIs
      <4> QED
        BY <4>1, <4>2, <4>3
    <3>2. \A a \in Applicant :
            /\ records'[a] \in KycRec
            /\ Lines(a) # {} => \E i \in DOMAIN audit :
                 IsLast(i, Lines(a)) /\ records'[a].status = audit[i].status /\ records'[a].change = audit[i].change
      BY <3>1, Replayed
    <3>3. records' = [a \in Applicant |-> records'[a]]
      BY <3>1 DEF replayAudit
    <3> QED
      BY <2>2, <3>2, <3>3
  <2> QED
    BY <2>1, <2>2
<1>5. KycTypes'
  <2>1. job' \in [Job -> Served]
        /\ \A j \in Job : job'[j].at = 0 /\ job'[j].pc = "idle" /\ job'[j].verdict = "none"
    BY <1>2, IdleIs
  <2>2. \A j \in Job : job'[j].at <= time /\ (job'[j].pc # "idle" \/ job'[j].verdict = "eligible" => job'[j].account \in Applicant)
    BY <2>1 DEF KycInv, KycTypes
  <2>3. unsaved' \in BOOLEAN
    BY <1>1 DEF KycInv, KycTypes
  <2> HIDE DEF Idle
  <2>4. (Applicant \cup {Idle.account})' = Applicant \cup {Idle.account}
    BY DEF Idle
  <2> QED
    BY <1>2, <1>3, <1>4, <2>1, <2>2, <2>3, <2>4 DEF KycInv, KycTypes
<1>6. Numbered'
  BY <1>2, <1>3 DEF KycInv, Numbered
<1>7. Queued'
  BY <1>2, <1>3, IdleIs DEF KycInv, Queued, Waits
<1>8. \A i, k \in DOMAIN audit : k <= i => audit[k].change <= audit[i].change
  <2> SUFFICES ASSUME NEW i \in DOMAIN audit, NEW k \in DOMAIN audit, k <= i
               PROVE  audit[k].change <= audit[i].change
    OBVIOUS
  <2>1. audit \in Seq(AuditLine) /\ audit[i] \in AuditLine
    BY DEF KycInv, KycTypes
  <2>2. (k < i \/ k = i) /\ audit[i].change \in Int
    BY <2>1 DEF AuditLine
  <2>3. k < i => audit[k].change < audit[i].change
    BY DEF KycInv, Numbered
  <2>4. audit[k] \in AuditLine
    BY <2>1
  <2>5. audit[k].change \in Int
    BY <2>4 DEF AuditLine
  <2> QED
    BY <2>2, <2>3, <2>5
<1>9. \A a : Lines(a)' = Lines(a) /\ Dated(a)' = Dated(a) /\ Lines(a) \subseteq DOMAIN audit
  BY <1>2 DEF Lines, Dated
<1>10. \A a \in Applicant : snapshot # {} => \A k \in Lines(a) : audit[k].change <= records'[a].change
  BY <1>4, <1>8, <1>9 DEF IsLast
<1>11. Latest'
  BY <1>2, <1>3, <1>4, <1>9, <1>10 DEF KycInv, Latest
<1>12. ASSUME ~unsaved' PROVE Saved' /\ Honoured'
  <2>1. ~unsaved
    BY <1>1, <1>12
  <2>2. \A a \in Applicant : answered[a] <= records'[a].change
    <3> SUFFICES ASSUME NEW a \in Applicant PROVE answered[a] <= records'[a].change
      OBVIOUS
    <3>1. CASE answered[a] = 0
      <4>1. records'[a] \in KycRec
        BY <1>4
      <4> QED
        BY <3>1, <4>1 DEF KycRec
    <3>2. CASE answered[a] # 0
      BY <1>10, <2>1, <3>2 DEF KycInv, Saved
    <3> QED
      BY <3>1, <3>2
  <2>3. Saved'
    BY <1>2, <1>9, <2>1, <2>2, IdleIs DEF KycInv, Saved
  <2>4. \A a \in Applicant : refused[a] # 0 => Refuses(records'[a].status)
    <3> SUFFICES ASSUME NEW a \in Applicant, refused[a] # 0 PROVE Refuses(records'[a].status)
      OBVIOUS
    <3>1. answered[a] # 0 /\ snapshot # {} /\ Lines(a) # {}
      BY <2>1 DEF KycInv, Saved, Honoured
    <3>2. PICK i \in DOMAIN audit :
            IsLast(i, Lines(a)) /\ records'[a].status = audit[i].status /\ records'[a].change = audit[i].change
      BY <1>4, <3>1
    <3>3. audit[i].change >= answered[a]
      BY <2>2, <3>2 DEF KycInv, KycTypes
    <3> QED
      BY <2>1, <3>2, <3>3 DEF KycInv, Honoured, IsLast
  <2>5. Honoured'
    BY <1>2, <1>3, <1>9, <2>1, <2>4, IdleIs DEF KycInv, Honoured, LetsThrough
  <2> QED
    BY <2>3, <2>5
<1> QED
  BY <1>5, <1>6, <1>7, <1>11, <1>12 DEF KycInv

\* A request goes on, or is over, without a change of status; what it adds to
\* the cache lets nobody through who is refused.
LEMMA JobTurns ==
  ASSUME KycInv, NEW j \in Job, NEW q \in Served, job' = [job EXCEPT ![j] = q], ~Waits(j),
         q.pc \in {"idle", "fetch", "judge"}, q.at <= time,
         q.pc # "idle" \/ q.verdict = "eligible" => q.account \in Applicant,
         UNCHANGED <<time, records, snapshot, audit, writeLock, writing, changes, answered, refused, unsaved>>,
         cache' \in [Applicant -> SUBSET [rec : KycRec, left : 1..CacheTtl]],
         \A a \in Applicant : \A c \in cache'[a] :
           c \in cache[a] \/ (~unsaved /\ refused[a] # 0 => Refuses(c.rec.status)),
         \A a \in Applicant : ~unsaved /\ refused[a] # 0 /\ q.account = a /\ LetsThrough(q)
                              => q.at < refused[a] + CacheTtl
  PROVE  KycInv'
<1>1. \A x \in Job : job'[x] = (IF x = j THEN q ELSE job[x])
  BY DEF KycInv, KycTypes
<1>2. KycTypes'
  <2>1. job' \in [Job -> Served]
    BY DEF KycInv, KycTypes
  <2>2. \A x \in Job : job'[x].at <= time /\ (job'[x].pc # "idle" \/ job'[x].verdict = "eligible" => job'[x].account \in Applicant)
    BY <1>1 DEF KycInv, KycTypes
  <2> QED
    BY <2>1, <2>2 DEF KycInv, KycTypes
<1>3. Numbered'
  BY DEF KycInv, Numbered
<1>4. Queued'
  <2>1. \A x \in Job : (Waits(x)' <=> Waits(x)) /\ (Waits(x) => job'[x] = job[x])
                       /\ (job'[x].pc \in {"persist", "cache"} => Waits(x))
    BY <1>1 DEF Waits
  <2>2. \A k \in DOMAIN writeLock : writeLock[k].job \in Job /\ job[writeLock[k].job].pc = "persist"
    <3> SUFFICES ASSUME NEW k \in DOMAIN writeLock PROVE writeLock[k].job \in Job /\ job[writeLock[k].job].pc = "persist"
      OBVIOUS
    <3>1. writeLock[k] \in AuditLine
      BY DEF KycInv, KycTypes
    <3> QED
      BY <3>1 DEF KycInv, Queued, AuditLine
  <2>3. \A k \in DOMAIN writeLock : job'[writeLock[k].job] = job[writeLock[k].job]
    BY <2>1, <2>2 DEF Waits
  <2>4. \A x \in Job : job'[x].pc = "persist" => \E k \in DOMAIN writeLock : writeLock[k].job = x
    BY <2>1 DEF KycInv, Queued
  <2>5. \A x \in Job : job'[x].pc = "cache" => \A k \in DOMAIN writeLock : job'[x].rec.change < writeLock[k].change
    BY <2>1 DEF KycInv, Queued
  <2>6. \A x \in Job : Waits(x)' => job'[x].rec.change <= changes
    BY <2>1 DEF KycInv, Queued
  <2>7. \A x, y \in Job : Waits(x)' /\ Waits(y)' /\ x # y => job'[x].rec.change # job'[y].rec.change
    BY <2>1 DEF KycInv, Queued
  <2>8. \A x \in Job, a \in Applicant : Waits(x)' => answered[a] < job'[x].rec.change
    BY <2>1 DEF KycInv, Queued
  <2>9. \A x \in Job : Waits(x)' => Kept(job'[x], records[job'[x].account])
    BY <2>1 DEF KycInv, Queued
  <2> QED
    BY <2>3, <2>4, <2>5, <2>6, <2>7, <2>8, <2>9 DEF KycInv, Queued, Kept
<1>5. \A a : Lines(a)' = Lines(a) /\ Dated(a)' = Dated(a)
  BY DEF Lines, Dated
<1>6. Latest'
  BY <1>5 DEF KycInv, Latest
<1>7. ASSUME ~unsaved' PROVE Saved' /\ Honoured'
  <2>1. \A x \in Job : job'[x].pc = "cache" => job'[x] = job[x]
    BY <1>1
  <2>2. \A a, c, s : Logged(a, c, s)' <=> Logged(a, c, s)
    BY <1>5 DEF Logged
  <2>3. ASSUME NEW x \in Job, job'[x].pc = "cache"
        PROVE  Logged(job[x].account, job[x].rec.change, job[x].rec.status)'
    <3>1. PICK p \in Served : p = job'[x]
      BY <1>2 DEF KycTypes
    <3>2. Logged(p.account, p.rec.change, p.rec.status)
      BY <1>7, <2>1, <2>3, <3>1 DEF KycInv, Saved
    <3> QED
      BY <2>2, <3>1, <3>2
  <2>4. Saved'
    BY <1>5, <1>7, <2>3 DEF KycInv, Saved
  <2>5. \A a \in Applicant : refused[a] # 0 =>
          \A x \in Job : job'[x].account = a /\ LetsThrough(job'[x]) => job'[x].at < refused[a] + CacheTtl
    BY <1>1, <1>7 DEF KycInv, Honoured
  <2>6. \A a \in Applicant : refused[a] # 0 =>
          \A c \in cache'[a] : Refuses(c.rec.status) \/ time + c.left <= refused[a] + CacheTtl
    BY <1>7 DEF KycInv, Honoured
  <2> QED
    BY <1>5, <1>7, <2>4, <2>5, <2>6 DEF KycInv, Honoured, LetsThrough
<1> QED
  BY <1>2, <1>3, <1>4, <1>6, <1>7 DEF KycInv

\* applyTransition up to its first await.
LEMMA ApplyInv ==
  ASSUME KycInv, NEW j \in Job, NEW a \in Applicant, NEW status \in KycStatus, NEW e \in Nat,
         ~Waits(j), applyTransition(j, a, status, e),
         UNCHANGED <<time, snapshot, audit, writing, cache, answered, unsaved>>
  PROVE  KycInv'
<1>1. CASE IsNoChange(a, status, e)
  <2>1. job' = [job EXCEPT ![j] = Idle] /\ UNCHANGED <<records, writeLock, changes, refused>>
    BY <1>1 DEF applyTransition
  <2>2. PICK q \in Served : q = Idle
    BY IdleIs
  <2>3. q.pc = "idle" /\ q.verdict = "none" /\ ~LetsThrough(q) /\ q.at <= time
    BY <2>2, IdleIs DEF LetsThrough, KycInv, KycTypes
  <2>4. cache' \in [Applicant -> SUBSET [rec : KycRec, left : 1..CacheTtl]]
    BY DEF KycInv, KycTypes
  <2> QED
    BY <2>1, <2>2, <2>3, <2>4, JobTurns
<1>2. CASE ~IsNoChange(a, status, e)
  <2>1. PICK rec \in KycRec : rec = Changed(records[a], status, e) /\ rec.status = status /\ rec.change = changes + 1
    <3>1. records[a] \in KycRec /\ changes \in Nat
      BY DEF KycInv, KycTypes
    <3> QED
      <4>1. PICK d \in Nat : d = (IF e = 0 THEN records[a].expiresAt ELSE e)
        BY <3>1 DEF KycRec
      <4>2. Changed(records[a], status, e) = [status |-> status, expiresAt |-> d, change |-> changes + 1]
        BY <4>1 DEF Changed
      <4> QED
        BY <3>1, <4>2 DEF KycRec
  <2>2. PICK w \in AuditLine : w = [job |-> j, address |-> a, status |-> status,
                                     expiresAt |-> e, change |-> rec.change]
    BY <2>1 DEF AuditLine, KycRec
  <2>3. PICK q \in Served : q = [job[j] EXCEPT !.pc = "persist", !.account = a, !.rec = rec, !.verdict = "none"]
    <3>1. job[j] \in Served
      BY DEF KycInv, KycTypes
    <3> QED
      BY <2>1, <3>1 DEF Served
  <2>4. /\ q.pc = "persist" /\ q.account = a /\ q.rec = rec /\ q.verdict = "none" /\ q.at = job[j].at
    BY <2>3 DEF KycInv, KycTypes, Served
  <2>5. /\ records' = [records EXCEPT ![a] = rec] /\ changes' = changes + 1
        /\ writeLock' = Append(writeLock, w)
        /\ job' = [job EXCEPT ![j] = q]
        /\ refused' = [refused EXCEPT ![a] = IF Refuses(status) THEN @ ELSE 0]
    BY <1>2, <2>1, <2>2, <2>3 DEF applyTransition
  <2>6. /\ \A x \in Job : job'[x] = (IF x = j THEN q ELSE job[x])
        /\ \A b \in Applicant : records'[b] = (IF b = a THEN rec ELSE records[b])
        /\ \A b \in Applicant : refused'[b] = (IF b = a /\ ~Refuses(status) THEN 0 ELSE refused[b])
    BY <2>5 DEF KycInv, KycTypes
  <2>7. PICK N \in Nat : N = Len(writeLock)
    BY DEF KycInv, KycTypes
  <2>8. /\ writeLock' \in Seq(AuditLine) /\ DOMAIN writeLock = 1..N /\ DOMAIN writeLock' = 1..N+1
        /\ \A k \in 1..N : writeLock'[k] = writeLock[k]
        /\ writeLock'[N+1] = w
    BY <2>5, <2>7 DEF KycInv, KycTypes
  <2>9. w.job = j /\ w.address = a /\ w.status = status /\ w.change = changes + 1 /\ changes \in Nat
    BY <2>1, <2>2 DEF KycInv, KycTypes
  <2>10. KycTypes'
    <3>1. job' \in [Job -> Served] /\ records' \in [Applicant -> KycRec]
      BY <2>5 DEF KycInv, KycTypes
    <3>2. refused' \in [Applicant -> Nat] /\ changes' \in Nat
      BY <2>5 DEF KycInv, KycTypes
    <3>3. \A x \in Job : job'[x].at <= time /\ (job'[x].pc # "idle" \/ job'[x].verdict = "eligible" => job'[x].account \in Applicant)
      BY <2>4, <2>6 DEF KycInv, KycTypes
    <3> QED
      BY <2>8, <3>1, <3>2, <3>3 DEF KycInv, KycTypes
  <2>11. Numbered'
    <3>1. \A i, k \in 1..N+1 : i < k => writeLock'[i].change < writeLock'[k].change
      <4> SUFFICES ASSUME NEW i \in 1..N+1, NEW k \in 1..N+1, i < k
                   PROVE  writeLock'[i].change < writeLock'[k].change
        OBVIOUS
      <4>1. i \in 1..N /\ (k \in 1..N \/ k = N + 1) /\ writeLock[i] \in AuditLine
        BY <2>8 DEF KycInv, KycTypes
      <4>2. writeLock[i].change <= changes /\ writeLock[i].change \in Nat
        BY <2>8, <4>1 DEF KycInv, Numbered, AuditLine
      <4> QED
        BY <2>8, <2>9, <4>1, <4>2 DEF KycInv, Numbered
    <3>2. \A i \in DOMAIN audit, k \in 1..N+1 :
            \/ audit[i].change < writeLock'[k].change
            \/ k = 1 /\ writing.line /\ audit[i].change = writeLock'[k].change
      <4> SUFFICES ASSUME NEW i \in DOMAIN audit, NEW k \in 1..N+1
                   PROVE  \/ audit[i].change < writeLock'[k].change
                          \/ k = 1 /\ writing.line /\ audit[i].change = writeLock'[k].change
        OBVIOUS
      <4>1. audit[i] \in AuditLine /\ (k \in 1..N \/ k = N + 1)
        BY DEF KycInv, KycTypes
      <4>2. audit[i].change <= changes /\ audit[i].change \in Nat
        BY <4>1 DEF KycInv, Numbered, AuditLine
      <4> QED
        BY <2>8, <2>9, <4>1, <4>2 DEF KycInv, Numbered
    <3>3. /\ \A i \in DOMAIN audit : audit[i].change <= changes + 1
          /\ \A k \in 1..N+1 : writeLock'[k].change <= changes + 1
      <4>1. \A i \in DOMAIN audit : audit[i] \in AuditLine
        BY DEF KycInv, KycTypes
      <4>2. \A k \in 1..N : writeLock[k] \in AuditLine
        BY <2>8 DEF KycInv, KycTypes
      <4>3. \A i \in DOMAIN audit : audit[i].change \in Nat /\ audit[i].change <= changes
        BY <4>1 DEF KycInv, Numbered, AuditLine
      <4>4. \A k \in 1..N : writeLock[k].change \in Nat /\ writeLock[k].change <= changes
        BY <2>8, <4>2 DEF KycInv, Numbered, AuditLine
      <4> QED
        BY <2>8, <2>9, <4>3, <4>4
    <3>4. writing.line => 1 \in 1..N
      BY <2>8 DEF KycInv, KycTypes, Numbered
    <3>5. writeLock' # <<>>
      BY <2>8
    <3> QED
      BY <2>5, <2>8, <3>1, <3>2, <3>3, <3>4, <3>5 DEF KycInv, Numbered
  <2>12. Queued'
    <3>1. \A x \in Job : (Waits(x)' <=> Waits(x) \/ x = j) /\ (Waits(x) => x # j /\ job'[x] = job[x])
      BY <2>4, <2>6 DEF Waits
    <3>2. \A x \in Job : job[x].rec.change \in Nat
      BY DEF KycInv, KycTypes, Served, KycRec
    <3>3. \A k \in 1..N+1 : LET p == job'[writeLock'[k].job]
                            IN  /\ p.pc = "persist" /\ p.account = writeLock'[k].address
                                /\ p.rec.change = writeLock'[k].change /\ p.rec.status = writeLock'[k].status
      <4> SUFFICES ASSUME NEW k \in 1..N+1
                   PROVE  LET p == job'[writeLock'[k].job]
                          IN  /\ p.pc = "persist" /\ p.account = writeLock'[k].address
                              /\ p.rec.change = writeLock'[k].change /\ p.rec.status = writeLock'[k].status
        OBVIOUS
      <4>1. CASE k = N + 1
        BY <2>1, <2>4, <2>6, <2>8, <2>9, <4>1
      <4>2. CASE k # N + 1
        <5>1. k \in 1..N /\ writeLock[k] \in AuditLine
          BY <2>8, <4>2 DEF KycInv, KycTypes
        <5>2. writeLock[k].job \in Job /\ job[writeLock[k].job].pc = "persist"
          BY <2>8, <5>1 DEF KycInv, Queued, AuditLine
        <5>3. writeLock[k].job # j
          BY <5>2 DEF Waits
        <5> QED
          BY <2>6, <2>8, <5>1, <5>2, <5>3 DEF KycInv, Queued
      <4> QED
        BY <4>1, <4>2
    <3>4. \A x \in Job : job'[x].pc = "persist" => \E k \in 1..N+1 : writeLock'[k].job = x
      <4> SUFFICES ASSUME NEW x \in Job, job'[x].pc = "persist" PROVE \E k \in 1..N+1 : writeLock'[k].job = x
        OBVIOUS
      <4>1. CASE x = j
        BY <2>8, <2>9, <4>1
      <4>2. CASE x # j
        <5>1. PICK k \in 1..N : writeLock[k].job = x
          BY <2>6, <2>8, <4>2 DEF KycInv, Queued
        <5> QED
          BY <2>8, <5>1
      <4> QED
        BY <4>1, <4>2
    <3>5. \A x \in Job : job'[x].pc = "cache" => \A k \in 1..N+1 : job'[x].rec.change < writeLock'[k].change
      <4> SUFFICES ASSUME NEW x \in Job, job'[x].pc = "cache", NEW k \in 1..N+1
                   PROVE  job'[x].rec.change < writeLock'[k].change
        OBVIOUS
      <4>1. job'[x] = job[x] /\ job[x].pc = "cache" /\ Waits(x)
        BY <2>4, <2>6 DEF Waits
      <4>2. job[x].rec.change <= changes
        BY <4>1 DEF KycInv, Queued
      <4>3. CASE k = N + 1
        BY <2>8, <2>9, <3>2, <4>1, <4>2, <4>3
      <4>4. CASE k \in 1..N
        BY <2>8, <4>1, <4>4 DEF KycInv, Queued
      <4> QED
        BY <4>3, <4>4
    <3>6. \A x \in Job : Waits(x)' => job'[x].rec.change <= changes + 1
      BY <2>1, <2>4, <2>6, <2>9, <3>1, <3>2 DEF KycInv, Queued
    <3>7. \A x, y \in Job : Waits(x)' /\ Waits(y)' /\ x # y => job'[x].rec.change # job'[y].rec.change
      <4>1. job'[j].rec.change = changes + 1
        BY <2>1, <2>4, <2>6
      <4>2. \A x \in Job : Waits(x) => job'[x].rec.change < changes + 1
        BY <2>9, <3>1, <3>2 DEF KycInv, Queued
      <4>3. \A x, y \in Job : Waits(x) /\ Waits(y) /\ x # y => job'[x].rec.change # job'[y].rec.change
        BY <3>1 DEF KycInv, Queued
      <4> QED
        BY <2>9, <3>1, <4>1, <4>2, <4>3
    <3>8. \A x \in Job, b \in Applicant : Waits(x)' => answered[b] < job'[x].rec.change
      <4>1. \A b \in Applicant : answered[b] < changes + 1
        BY <2>9 DEF KycInv, KycTypes, Queued
      <4> QED
        BY <2>1, <2>4, <2>6, <3>1, <4>1 DEF KycInv, Queued
    <3>9. \A b \in Applicant : answered[b] <= changes + 1
      BY <2>9 DEF KycInv, KycTypes, Queued
    <3>10. \A x \in Job : Waits(x)' => Kept(job'[x], records'[job'[x].account])
      <4> SUFFICES ASSUME NEW x \in Job, Waits(x)' PROVE Kept(job'[x], records'[job'[x].account])
        OBVIOUS
      <4>1. CASE x = j
        BY <2>1, <2>4, <2>6, <2>9, <4>1 DEF Kept
      <4>2. CASE x # j /\ job[x].account # a
        <5>1. job[x].account \in Applicant
          BY <3>1, <4>2 DEF Waits, KycInv, KycTypes
        <5> QED
          BY <2>6, <3>1, <4>2, <5>1 DEF KycInv, Queued, Kept
      <4>3. CASE x # j /\ job[x].account = a
        <5>1. job[x].rec.change < changes + 1 /\ records'[a] = rec /\ job'[x] = job[x]
          BY <2>6, <2>9, <3>1, <3>2, <4>3 DEF KycInv, Queued
        <5> QED
          BY <2>1, <2>9, <3>2, <4>3, <5>1 DEF Kept
      <4> QED
        BY <4>1, <4>2, <4>3
    <3> QED
      BY <2>5, <2>8, <3>3, <3>4, <3>5, <3>6, <3>7, <3>8, <3>9, <3>10, SMTT(30) DEF Queued, Kept
  <2>13. \A b : Lines(b)' = Lines(b) /\ Dated(b)' = Dated(b) /\ Lines(b) \subseteq DOMAIN audit
    BY DEF Lines, Dated
  <2>14. Latest'
    <3> SUFFICES ASSUME NEW b \in Applicant, records'[b].change # 0
                 PROVE  /\ \A i \in Lines(b) : audit[i].change <= records'[b].change
                        /\ \A k \in 1..N+1 : writeLock'[k].address = b => writeLock'[k].change <= records'[b].change
      BY <2>8, <2>13 DEF KycInv, Latest
    <3>1. CASE b = a
      BY <2>1, <2>5, <2>6, <2>8, <2>11, <2>13, <3>1 DEF Numbered
    <3>2. CASE b # a
      <4>1. records'[b] = records[b]
        BY <2>6, <3>2
      <4>2. ASSUME NEW k \in 1..N+1, writeLock'[k].address = b PROVE writeLock'[k].change <= records[b].change
        <5>1. k \in 1..N
          BY <2>8, <2>9, <3>2, <4>2
        <5> QED
          BY <2>8, <4>1, <4>2, <5>1 DEF KycInv, Latest
      <4> QED
        BY <4>1, <4>2 DEF KycInv, Latest
    <3> QED
      BY <3>1, <3>2
  <2>15. ASSUME ~unsaved' PROVE Saved' /\ Honoured'
    <3>1. ~unsaved
      BY <2>15
    <3>2. \A b, c, s : Logged(b, c, s)' <=> Logged(b, c, s)
      BY <2>13 DEF Logged
    <3>3. ASSUME NEW x \in Job, job'[x].pc = "cache"
          PROVE  Logged(job[x].account, job[x].rec.change, job[x].rec.status)'
      <4>1. PICK p \in Served : p = job'[x]
        BY <2>10 DEF KycTypes
      <4>2. Logged(p.account, p.rec.change, p.rec.status)
        BY <2>4, <2>6, <3>1, <3>3, <4>1 DEF KycInv, Saved
      <4> QED
        BY <3>2, <4>1, <4>2
    <3>4. \A b \in Applicant : answered[b] <= records'[b].change
      <4>1. \A b \in Applicant : answered[b] <= changes + 1
        BY <2>9 DEF KycInv, KycTypes, Queued
      <4> QED
        BY <2>1, <2>6, <3>1, <4>1 DEF KycInv, Saved
    <3>5. Saved'
      BY <2>13, <3>1, <3>3, <3>4 DEF KycInv, Saved
    <3>6. \A b \in Applicant : refused'[b] # 0 => refused'[b] = refused[b] /\ (b = a => Refuses(status))
      BY <2>6
    <3>7. \A b \in Applicant : refused'[b] # 0 =>
            /\ Refuses(records'[b].status)
            /\ \A k \in 1..N+1 : writeLock'[k].address = b => Refuses(writeLock'[k].status)
      <4> SUFFICES ASSUME NEW b \in Applicant, refused'[b] # 0
                   PROVE  /\ Refuses(records'[b].status)
                          /\ \A k \in 1..N+1 : writeLock'[k].address = b => Refuses(writeLock'[k].status)
        OBVIOUS
      <4>1. Refuses(records'[b].status)
        BY <2>1, <2>6, <3>1, <3>6 DEF KycInv, Honoured
      <4>2. ASSUME NEW k \in 1..N+1, writeLock'[k].address = b PROVE Refuses(writeLock'[k].status)
        <5>1. CASE k \in 1..N
          BY <2>8, <3>1, <3>6, <4>2, <5>1 DEF KycInv, Honoured
        <5>2. CASE k = N + 1
          BY <2>8, <2>9, <3>6, <4>2, <5>2
        <5> QED
          BY <5>1, <5>2
      <4> QED
        BY <4>1, <4>2
    <3>8. \A x \in Job : LetsThrough(job'[x]) => job'[x] = job[x]
      BY <2>4, <2>6 DEF LetsThrough
    <3>9. Honoured'
      BY <2>8, <2>13, <3>1, <3>6, <3>7, <3>8 DEF KycInv, Honoured, LetsThrough
    <3> QED
      BY <3>5, <3>9
  <2> QED
    BY <2>10, <2>11, <2>12, <2>14, <2>15 DEF KycInv
<1> QED
  BY <1>1, <1>2

\* What a write-through leaves in the cache.
LEMMA CacheGets ==
  ASSUME KycInv, NEW a \in Applicant, NEW rec \in KycRec, invalidateCache(a, rec)
  PROVE  /\ cache' \in [Applicant -> SUBSET [rec : KycRec, left : 1..CacheTtl]]
         /\ \A b \in Applicant : \A c \in cache'[b] : c \in cache[b] \/ (b = a /\ c.rec = rec)
<1>1. CacheTtl \in 1..CacheTtl
  BY KycAssumption
<1>2. Cached(rec) \subseteq [rec : KycRec, left : 1..CacheTtl] /\ \A c \in Cached(rec) : c.rec = rec
  BY <1>1 DEF Cached
<1>3. PICK S \in SUBSET [rec : KycRec, left : 1..CacheTtl] :
        cache' = [cache EXCEPT ![a] = S] /\ \A c \in S : c \in cache[a] \/ c.rec = rec
  <2>1. CASE cache' = [cache EXCEPT ![a] = Cached(rec)]
    BY <1>2, <2>1
  <2>2. CASE UNCHANGED cache
    <3>1. cache' = [cache EXCEPT ![a] = cache[a]] /\ cache[a] \in SUBSET [rec : KycRec, left : 1..CacheTtl]
      BY <2>2 DEF KycInv, KycTypes
    <3> QED
      BY <3>1
  <2>3. CASE cache' = [cache EXCEPT ![a] = {}]
    <3>1. {} \in SUBSET [rec : KycRec, left : 1..CacheTtl] /\ \A c \in {} : c.rec = rec
      OBVIOUS
    <3> QED
      BY <2>3, <3>1
  <2> QED
    BY <2>1, <2>2, <2>3 DEF invalidateCache, writeThroughCache
<1> QED
  BY <1>3 DEF KycInv, KycTypes

\* A change is answered: the first of those that wait.
LEMMA AnswerInv == ASSUME KycInv, NEW j \in Job, AnswerChange(j) PROVE KycInv'
<1>1. PICK a \in Applicant, rec \in KycRec : a = job[j].account /\ rec = job[j].rec
  BY DEF AnswerChange, KycInv, KycTypes, Served
<1>2. PICK c \in Nat : c = rec.change
  BY DEF KycRec
<1>3. /\ job[j].pc = "cache" /\ Waits(j)
      /\ \A i \in Job : job[i].pc = "cache" => job[i].rec.change >= c
      /\ invalidateCache(a, rec)
      /\ UNCHANGED <<time, records, snapshot, audit, writeLock, writing, changes, unsaved>>
  BY <1>1, <1>2 DEF AnswerChange, Waits
<1>4. answered[a] < c /\ answered \in [Applicant -> Nat] /\ refused \in [Applicant -> Nat]
  BY <1>1, <1>2, <1>3 DEF KycInv, Queued, KycTypes
<1>5. answered' = [answered EXCEPT ![a] = c]
  BY <1>1, <1>2, <1>4 DEF AnswerChange
<1>6. PICK t \in Nat :
        /\ refused' = [refused EXCEPT ![a] = t]
        /\ t = refused[a] \/ (t = time /\ refused[a] = 0 /\ records[a].change = c /\ Refuses(records[a].status))
  <2>1. refused' = [refused EXCEPT ![a] =
          IF refused[a] = 0 /\ records[a].change = c /\ Refuses(records[a].status) THEN time ELSE refused[a]]
    BY <1>1, <1>2, <1>4 DEF AnswerChange
  <2> QED
    BY <1>4, <2>1 DEF KycInv, KycTypes
<1>7. PICK q \in Served : q = Idle
  BY IdleIs
<1>8. /\ job' = [job EXCEPT ![j] = q] /\ q.pc = "idle" /\ q.verdict = "none" /\ q.at = 0 /\ ~LetsThrough(q)
  BY <1>7, IdleIs DEF AnswerChange, LetsThrough
<1>9. /\ \A x \in Job : job'[x] = (IF x = j THEN q ELSE job[x])
      /\ \A b \in Applicant : answered'[b] = (IF b = a THEN c ELSE answered[b])
      /\ \A b \in Applicant : refused'[b] = (IF b = a THEN t ELSE refused[b])
  BY <1>4, <1>5, <1>6, <1>8 DEF KycInv, KycTypes
<1>10. /\ cache' \in [Applicant -> SUBSET [rec : KycRec, left : 1..CacheTtl]]
       /\ \A b \in Applicant : \A d \in cache'[b] : d \in cache[b] \/ (b = a /\ d.rec = rec)
  BY <1>3, CacheGets
<1>11. KycTypes'
  <2>1. job' \in [Job -> Served] /\ answered' \in [Applicant -> Nat] /\ refused' \in [Applicant -> Nat]
    BY <1>4, <1>5, <1>6, <1>8 DEF KycInv, KycTypes
  <2>2. \A x \in Job : job'[x].at <= time /\ (job'[x].pc # "idle" \/ job'[x].verdict = "eligible" => job'[x].account \in Applicant)
    BY <1>8, <1>9 DEF KycInv, KycTypes
  <2> QED
    BY <1>3, <1>10, <2>1, <2>2 DEF KycInv, KycTypes
<1>12. Numbered'
  BY <1>3 DEF KycInv, Numbered
<1>13. Queued'
  <2>1. \A x \in Job : (Waits(x)' <=> Waits(x) /\ x # j) /\ (x # j => job'[x] = job[x])
    BY <1>8, <1>9 DEF Waits
  <2>2. \A k \in DOMAIN writeLock : writeLock[k].job \in Job /\ writeLock[k].job # j
    <3> SUFFICES ASSUME NEW k \in DOMAIN writeLock PROVE writeLock[k].job \in Job /\ writeLock[k].job # j
      OBVIOUS
    <3>1. writeLock[k] \in AuditLine
      BY DEF KycInv, KycTypes
    <3> QED
      BY <1>3, <3>1 DEF KycInv, Queued, AuditLine
  <2>3. \A x \in Job : Waits(x) /\ x # j => c < job[x].rec.change
    <3> SUFFICES ASSUME NEW x \in Job, Waits(x), x # j PROVE c < job[x].rec.change
      OBVIOUS
    <3>1. job[x].rec.change # c /\ job[x].rec.change \in Nat
      BY <1>1, <1>2, <1>3 DEF KycInv, Queued, KycTypes, Served, KycRec
    <3>2. CASE job[x].pc = "cache"
      BY <1>3, <3>1, <3>2
    <3>3. CASE job[x].pc = "persist"
      <4>1. PICK k \in DOMAIN writeLock : writeLock[k].job = x
        BY <3>3 DEF KycInv, Queued
      <4> QED
        BY <1>1, <1>2, <1>3, <4>1 DEF KycInv, Queued
    <3> QED
      BY <3>2, <3>3 DEF Waits
  <2>4. c <= changes
    BY <1>1, <1>2, <1>3 DEF KycInv, Queued
  <2>5. \A k \in DOMAIN writeLock : job'[writeLock[k].job] = job[writeLock[k].job]
    BY <2>1, <2>2
  <2>6. \A x \in Job : job'[x].pc = "persist" => \E k \in DOMAIN writeLock : writeLock[k].job = x
    BY <1>8, <1>9 DEF KycInv, Queued
  <2>7. \A x \in Job : job'[x].pc = "cache" => \A k \in DOMAIN writeLock : job'[x].rec.change < writeLock[k].change
    BY <1>8, <1>9 DEF KycInv, Queued
  <2>8. \A x \in Job : Waits(x)' => job'[x].rec.change <= changes
    BY <2>1 DEF KycInv, Queued
  <2>9. \A x, y \in Job : Waits(x)' /\ Waits(y)' /\ x # y => job'[x].rec.change # job'[y].rec.change
    BY <2>1 DEF KycInv, Queued
  <2>10. \A x \in Job, b \in Applicant : Waits(x)' => answered'[b] < job'[x].rec.change
    BY <1>9, <2>1, <2>3 DEF KycInv, Queued
  <2>11. \A b \in Applicant : answered'[b] <= changes
    BY <1>9, <2>4 DEF KycInv, Queued
  <2>12. \A x \in Job : Waits(x)' => Kept(job'[x], records[job'[x].account])
    BY <2>1 DEF KycInv, Queued
  <2> QED
    BY <1>3, <2>5, <2>6, <2>7, <2>8, <2>9, <2>10, <2>11, <2>12 DEF KycInv, Queued, Kept
<1>14. \A b : Lines(b)' = Lines(b) /\ Dated(b)' = Dated(b) /\ Lines(b) \subseteq DOMAIN audit
  BY <1>3 DEF Lines, Dated
<1>15. Latest'
  BY <1>3, <1>14 DEF KycInv, Latest
<1>16. ASSUME ~unsaved' PROVE Saved' /\ Honoured'
  <2>1. ~unsaved /\ c <= records[a].change
    BY <1>1, <1>2, <1>3, <1>16 DEF KycInv, Queued, Kept
  <2>2. PICK line \in DOMAIN audit : /\ line \in Lines(a) /\ snapshot # {}
                                    /\ audit[line].change = c /\ audit[line].status = rec.status
    BY <1>1, <1>2, <1>3, <1>14, <2>1 DEF KycInv, Saved, Logged
  <2>3. \A b, n, s : Logged(b, n, s)' <=> Logged(b, n, s)
    BY <1>3, <1>14 DEF Logged
  <2>4. ASSUME NEW x \in Job, job'[x].pc = "cache"
        PROVE  Logged(job[x].account, job[x].rec.change, job[x].rec.status)'
    <3>1. PICK p \in Served : p = job'[x]
      BY <1>11 DEF KycTypes
    <3>2. Logged(p.account, p.rec.change, p.rec.status)
      BY <1>8, <1>9, <2>1, <2>4, <3>1 DEF KycInv, Saved
    <3> QED
      BY <2>3, <3>1, <3>2
  <2>5. \A b \in Applicant : answered'[b] # 0 =>
          snapshot # {} /\ \E i \in Lines(b) : audit[i].change = answered'[b]
    BY <1>9, <2>1, <2>2 DEF KycInv, Saved
  <2>6. \A b \in Applicant : answered'[b] <= records[b].change
    BY <1>9, <2>1 DEF KycInv, Saved
  <2>7. Saved'
    BY <1>3, <1>14, <2>4, <2>5, <2>6 DEF Saved
  <2>8. ASSUME NEW b \in Applicant, refused'[b] # 0, refused'[b] = refused[b]
        PROVE  /\ answered'[b] # 0 /\ refused'[b] <= time /\ Refuses(records[b].status)
               /\ \A i \in Lines(b) : audit[i].change >= answered'[b] => Refuses(audit[i].status)
               /\ \A k \in DOMAIN writeLock : writeLock[k].address = b => Refuses(writeLock[k].status)
               /\ \A d \in cache'[b] : Refuses(d.rec.status) \/ time + d.left <= refused'[b] + CacheTtl
    <3>1. answered'[b] # 0 /\ answered'[b] >= answered[b] /\ answered[b] \in Nat /\ answered'[b] \in Nat
      BY <1>4, <1>9, <2>1, <2>8 DEF KycInv, Honoured
    <3>2. ASSUME NEW i \in Lines(b), audit[i].change >= answered'[b] PROVE Refuses(audit[i].status)
      <4>1. audit[i] \in AuditLine
        BY <1>14 DEF KycInv, KycTypes
      <4>2. audit[i].change >= answered[b]
        BY <3>1, <3>2, <4>1 DEF AuditLine
      <4> QED
        BY <2>1, <2>8, <4>2 DEF KycInv, Honoured
    <3>3. b = a => Refuses(rec.status)
      BY <1>4, <2>1, <2>2, <2>8 DEF KycInv, Honoured
    <3>4. \A d \in cache'[b] : Refuses(d.rec.status) \/ time + d.left <= refused'[b] + CacheTtl
      BY <1>10, <2>1, <2>8, <3>3 DEF KycInv, Honoured
    <3> QED
      BY <2>1, <2>8, <3>1, <3>2, <3>4 DEF KycInv, Honoured
  <2>9. ASSUME NEW b \in Applicant, refused'[b] # 0, refused'[b] # refused[b]
        PROVE  /\ answered'[b] # 0 /\ refused'[b] <= time /\ Refuses(records[b].status)
               /\ \A i \in Lines(b) : audit[i].change >= answered'[b] => Refuses(audit[i].status)
               /\ \A k \in DOMAIN writeLock : writeLock[k].address = b => Refuses(writeLock[k].status)
               /\ \A d \in cache'[b] : Refuses(d.rec.status) \/ time + d.left <= refused'[b] + CacheTtl
    <3>1. /\ b = a /\ refused'[b] = time /\ records[a].change = c /\ Refuses(records[a].status)
          /\ answered'[b] = c /\ c # 0 /\ time \in Nat
      BY <1>4, <1>6, <1>9, <2>9 DEF KycInv, KycTypes
    <3>2. rec.status = records[a].status
      BY <1>1, <1>2, <1>3, <3>1 DEF KycInv, Queued, Kept
    <3>3. ASSUME NEW i \in Lines(b), audit[i].change >= answered'[b] PROVE Refuses(audit[i].status)
      <4>1. audit[i] \in AuditLine /\ i \in DOMAIN audit /\ i \in Int /\ line \in Int
        BY <1>14 DEF KycInv, KycTypes
      <4>2. audit[i].change <= c
        BY <3>1 DEF KycInv, Latest
      <4>3. audit[i].change = c /\ audit[i].change \in Nat
        BY <3>1, <3>3, <4>1, <4>2 DEF AuditLine
      <4>4. ~(i < line) /\ ~(line < i)
        BY <2>2, <4>1, <4>3 DEF KycInv, Numbered
      <4> QED
        BY <2>2, <3>1, <3>2, <4>1, <4>4
    <3>4. ASSUME NEW k \in DOMAIN writeLock, writeLock[k].address = b PROVE FALSE
      <4>1. writeLock[k] \in AuditLine
        BY DEF KycInv, KycTypes
      <4>2. c < writeLock[k].change /\ writeLock[k].change \in Nat
        BY <1>1, <1>2, <1>3, <4>1 DEF KycInv, Queued, AuditLine
      <4>3. writeLock[k].change <= c
        BY <3>1, <3>4 DEF KycInv, Latest
      <4> QED
        BY <4>2, <4>3
    <3>5. \A d \in cache'[b] : Refuses(d.rec.status) \/ time + d.left <= refused'[b] + CacheTtl
      <4> SUFFICES ASSUME NEW d \in cache'[b]
                   PROVE  Refuses(d.rec.status) \/ time + d.left <= time + CacheTtl
        BY <3>1
      <4>1. CASE d \in cache[b]
        BY <3>1, <4>1, KycAssumption DEF KycInv, KycTypes
      <4>2. CASE d.rec = rec
        BY <3>1, <3>2, <4>2
      <4> QED
        BY <1>10, <4>1, <4>2
    <3> QED
      BY <3>1, <3>3, <3>4, <3>5 DEF KycInv, KycTypes
  <2>10. \A b \in Applicant : refused'[b] # 0 =>
           \A x \in Job : job'[x].account = b /\ LetsThrough(job'[x]) => job'[x].at < refused'[b] + CacheTtl
    <3> SUFFICES ASSUME NEW b \in Applicant, refused'[b] # 0, NEW x \in Job,
                        job'[x].account = b, LetsThrough(job'[x])
                 PROVE  job'[x].at < refused'[b] + CacheTtl
      OBVIOUS
    <3>1. job'[x] = job[x] /\ job[x].at <= time /\ job[x].at \in Nat /\ time \in Nat
      BY <1>8, <1>9 DEF KycInv, KycTypes, Served
    <3>2. CASE refused'[b] = refused[b]
      BY <2>1, <3>1, <3>2 DEF KycInv, Honoured
    <3>3. CASE refused'[b] = time
      BY <3>1, <3>3, KycAssumption
    <3> QED
      BY <1>6, <1>9, <3>2, <3>3
  <2>11. Honoured'
    BY <1>3, <1>14, <2>8, <2>9, <2>10 DEF Honoured, LetsThrough
  <2> QED
    BY <2>7, <2>11
<1> QED
  BY <1>11, <1>12, <1>13, <1>15, <1>16 DEF KycInv

\* Redis is asked.
LEMMA GetRecordInv ==
  ASSUME KycInv, NEW j \in Job, NEW op \in {"full", "status"}, NEW a \in Applicant, getRecord(j, op, a)
  PROVE  KycInv'
<1>1. PICK found \in {cache[a], {}} :
        job' = [job EXCEPT ![j] =
            [pc |-> IF found = {} THEN "fetch" ELSE "judge", op |-> op, account |-> a,
             rec |-> IF found = {} THEN NoRecord ELSE (CHOOSE c \in found : TRUE).rec,
             at |-> time, verdict |-> "none"]]
  BY DEF getRecord
<1>2. PICK rec, pc :
        /\ rec = (IF found = {} THEN NoRecord ELSE (CHOOSE c \in found : TRUE).rec)
        /\ pc = (IF found = {} THEN "fetch" ELSE "judge")
  OBVIOUS
<1>3. \/ pc = "fetch" /\ rec \in KycRec
      \/ pc = "judge" /\ rec \in KycRec /\ \E c \in cache[a] : c.rec = rec /\ c.left \in 1..CacheTtl
  <2>1. CASE found = {}
    BY <1>2, <2>1, IdleIs
  <2>2. CASE found # {}
    <3>1. PICK c \in cache[a] : c = (CHOOSE d \in found : TRUE)
      BY <2>2
    <3>2. c.rec \in KycRec /\ c.left \in 1..CacheTtl
      BY DEF KycInv, KycTypes
    <3> QED
      BY <1>2, <2>2, <3>1, <3>2
  <2> QED
    BY <2>1, <2>2
<1>4. PICK q \in Served : q = [pc |-> pc, op |-> op, account |-> a, rec |-> rec, at |-> time, verdict |-> "none"]
  BY <1>3 DEF Served, KycInv, KycTypes
<1>5. /\ job' = [job EXCEPT ![j] = q] /\ ~Waits(j) /\ q.pc \in {"idle", "fetch", "judge"}
      /\ q.account = a /\ q.at = time /\ q.at <= time
  <2>1. job' = [job EXCEPT ![j] = q]
    BY <1>1, <1>2, <1>4
  <2>2. q.pc = pc /\ q.account = a /\ q.at = time
    BY <1>4
  <2>3. job[j].pc = "idle"
    BY DEF getRecord
  <2>4. time <= time
    BY DEF KycInv, KycTypes
  <2> QED
    BY <1>3, <2>1, <2>2, <2>3, <2>4 DEF Waits
<1>6. UNCHANGED <<time, records, snapshot, audit, writeLock, writing, cache, changes, answered, refused, unsaved>>
  BY DEF getRecord
<1>7. cache' \in [Applicant -> SUBSET [rec : KycRec, left : 1..CacheTtl]]
      /\ \A b \in Applicant : \A c \in cache'[b] : c \in cache[b]
  BY <1>6 DEF KycInv, KycTypes
<1>8. ASSUME NEW b \in Applicant, ~unsaved, refused[b] # 0, q.account = b, LetsThrough(q)
      PROVE  q.at < refused[b] + CacheTtl
  <2>1. q.pc = "judge" /\ q.rec = rec /\ ~Refuses(rec.status) /\ b = a
    BY <1>3, <1>4, <1>5, <1>8 DEF LetsThrough
  <2>2. PICK c \in cache[a] : c.rec = rec /\ c.left \in 1..CacheTtl
    BY <1>3, <1>4, <2>1
  <2>3. time + c.left <= refused[a] + CacheTtl
    BY <1>8, <2>1, <2>2 DEF KycInv, Honoured
  <2>4. time \in Nat /\ refused[a] \in Nat
    BY DEF KycInv, KycTypes
  <2> QED
    BY <1>5, <2>1, <2>2, <2>3, <2>4, KycAssumption
<1> QED
  BY <1>5, <1>6, <1>7, <1>8, JobTurns

\* The store is asked, and an unknown account recorded.
LEMMA FetchInv == ASSUME KycInv, NEW j \in Job, Fetch(j) PROVE KycInv'
<1>1. /\ job[j].pc = "fetch" /\ ~Waits(j)
      /\ UNCHANGED <<time, snapshot, audit, writing, answered, unsaved>>
  BY DEF Fetch, Waits
<1>2. PICK a \in Applicant : a = job[j].account
  BY <1>1 DEF KycInv, KycTypes
<1>3. CASE ~Exists(a)
  <2>1. applyTransition(j, a, "PENDING", 0) /\ UNCHANGED cache
    BY <1>2, <1>3 DEF Fetch
  <2>2. PICK s \in KycStatus, e \in Nat : s = "PENDING" /\ e = 0
    BY DEF KycStatus
  <2>3. applyTransition(j, a, s, e)
    BY <2>1, <2>2
  <2> QED
    BY <1>1, <2>1, <2>3, ApplyInv
<1>4. CASE Exists(a)
  <2>1. PICK rec \in KycRec : rec = records[a]
    BY DEF KycInv, KycTypes
  <2>2. /\ writeThroughCache(a, rec) /\ UNCHANGED <<records, writeLock, changes, refused>>
        /\ job' = [job EXCEPT ![j] = [job[j] EXCEPT !.pc = "judge", !.rec = rec, !.at = time]]
    BY <1>2, <1>4, <2>1 DEF Fetch
  <2>3. job[j] \in Served /\ time \in Nat
    BY DEF KycInv, KycTypes
  <2>4. PICK q \in Served : q = [job[j] EXCEPT !.pc = "judge", !.rec = rec, !.at = time]
    BY <2>3 DEF Served
  <2>5. /\ job' = [job EXCEPT ![j] = q] /\ q.pc = "judge" /\ q.account = a /\ q.rec = rec /\ q.at <= time
    BY <1>2, <2>2, <2>3, <2>4 DEF Served
  <2>6. /\ cache' \in [Applicant -> SUBSET [rec : KycRec, left : 1..CacheTtl]]
        /\ \A b \in Applicant : \A c \in cache'[b] : c \in cache[b] \/ (b = a /\ c.rec = rec)
    <3>1. invalidateCache(a, rec)
      BY <2>2 DEF invalidateCache
    <3> QED
      BY <3>1, CacheGets
  <2>7. ~unsaved /\ refused[a] # 0 => Refuses(rec.status)
    BY <2>1 DEF KycInv, Honoured
  <2>8. \A b \in Applicant : \A c \in cache'[b] :
          c \in cache[b] \/ (~unsaved /\ refused[b] # 0 => Refuses(c.rec.status))
    BY <2>6, <2>7
  <2>9. \A b \in Applicant : ~unsaved /\ refused[b] # 0 /\ q.account = b /\ LetsThrough(q)
                              => q.at < refused[b] + CacheTtl
    BY <2>5, <2>7 DEF LetsThrough
  <2> QED
    BY <1>1, <2>2, <2>5, <2>6, <2>8, <2>9, JobTurns
<1> QED
  BY <1>3, <1>4

\* The verdict, or the change to EXPIRED.
LEMMA JudgeInv == ASSUME KycInv, NEW j \in Job, Judge(j) PROVE KycInv'
<1>1. /\ job[j].pc = "judge" /\ ~Waits(j) /\ job[j] \in Served
      /\ UNCHANGED <<time, snapshot, audit, writing, cache, answered, unsaved>>
  BY DEF Judge, Waits, KycInv, KycTypes
<1>2. PICK a \in Applicant : a = job[j].account
  BY <1>1 DEF KycInv, KycTypes
<1>3. CASE applyTransition(j, job[j].account, "EXPIRED", job[j].rec.expiresAt)
  <2>1. PICK s \in KycStatus, e \in Nat : s = "EXPIRED" /\ e = job[j].rec.expiresAt
    BY <1>1 DEF KycStatus, Served, KycRec
  <2>2. applyTransition(j, a, s, e)
    BY <1>2, <1>3, <2>1
  <2> QED
    BY <1>1, <2>2, ApplyInv
<1>4. CASE /\ UNCHANGED <<records, writeLock, changes, refused>>
           /\ job' = [job EXCEPT ![j] = IF Eligible(job[j].rec)
                                        THEN [Idle EXCEPT !.account = job[j].account,
                                                !.at = job[j].at, !.verdict = "eligible"]
                                        ELSE Idle]
  <2>1. PICK q : q = (IF Eligible(job[j].rec)
                      THEN [Idle EXCEPT !.account = job[j].account, !.at = job[j].at, !.verdict = "eligible"]
                      ELSE Idle)
    OBVIOUS
  <2>2. /\ q \in Served /\ q.pc = "idle" /\ q.at <= time
        /\ LetsThrough(q) => q.account = a /\ q.at = job[j].at /\ LetsThrough(job[j])
    <3>1. CASE Eligible(job[j].rec)
      <4>1. PICK r \in Served : r = Idle /\ r.pc = "idle"
        BY IdleIs
      <4>2. q = [r EXCEPT !.account = a, !.at = job[j].at, !.verdict = "eligible"]
        BY <1>2, <2>1, <3>1, <4>1
      <4>3. q \in Served /\ q.pc = "idle" /\ q.account = a /\ q.at = job[j].at
        BY <1>1, <4>1, <4>2 DEF Served
      <4>4. LetsThrough(job[j])
        BY <1>1, <3>1, EligibleIs DEF LetsThrough
      <4> QED
        BY <4>3, <4>4 DEF KycInv, KycTypes
    <3>2. CASE ~Eligible(job[j].rec)
      BY <2>1, <3>2, IdleIs DEF LetsThrough, KycInv, KycTypes
    <3> QED
      BY <3>1, <3>2
  <2>3. job' = [job EXCEPT ![j] = q]
    BY <1>4, <2>1
  <2>4. cache' \in [Applicant -> SUBSET [rec : KycRec, left : 1..CacheTtl]]
        /\ \A b \in Applicant : \A c \in cache'[b] : c \in cache[b]
    BY <1>1 DEF KycInv, KycTypes
  <2>5. \A b \in Applicant : ~unsaved /\ refused[b] # 0 /\ q.account = b /\ LetsThrough(q)
                              => q.at < refused[b] + CacheTtl
    BY <1>2, <2>2 DEF KycInv, Honoured
  <2>6. q.pc # "idle" \/ q.verdict = "eligible" => q.account \in Applicant
    BY <1>2, <2>2 DEF LetsThrough
  <2>7. q \in Served /\ q.pc \in {"idle", "fetch", "judge"} /\ q.at <= time
    BY <2>2
  <2> QED
    BY <1>1, <1>4, <2>3, <2>4, <2>5, <2>6, <2>7, JobTurns
<1> QED
  BY <1>3, <1>4 DEF Judge

\* Copies run out.
LEMMA KycTickInv == ASSUME KycInv, KycTick PROVE KycInv'
<1>1. /\ time' = time + 1 /\ time \in Nat
      /\ cache' = [a \in Applicant |-> {[c EXCEPT !.left = @ - 1] : c \in {d \in cache[a] : d.left > 1}}]
      /\ UNCHANGED <<records, snapshot, audit, writeLock, writing, job, changes, answered, refused, unsaved>>
  BY DEF KycTick, KycInv, KycTypes
<1>2. ASSUME NEW a \in Applicant, NEW d \in cache'[a]
      PROVE  /\ d \in [rec : KycRec, left : 1..CacheTtl]
             /\ \E c \in cache[a] : d.rec = c.rec /\ d.left = c.left - 1 /\ c.left \in Nat
  <2>1. PICK c \in cache[a] : c.left > 1 /\ d = [c EXCEPT !.left = c.left - 1]
    BY <1>1, <1>2
  <2>2. c \in [rec : KycRec, left : 1..CacheTtl]
    BY DEF KycInv, KycTypes
  <2>3. c.left - 1 \in 1..CacheTtl /\ c.left \in Nat
    BY <2>1, <2>2, KycAssumption
  <2> QED
    BY <2>1, <2>2, <2>3
<1>3. KycTypes'
  <2>1. cache' \in [Applicant -> SUBSET [rec : KycRec, left : 1..CacheTtl]]
    BY <1>1, <1>2
  <2>2. \A j \in Job : job[j].at <= time + 1
    BY <1>1 DEF KycInv, KycTypes, Served
  <2> QED
    BY <1>1, <2>1, <2>2 DEF KycInv, KycTypes
<1>4. Numbered' /\ Queued' /\ Latest'
  BY <1>1 DEF KycInv, Numbered, Queued, Waits, Kept, Latest, IsLast, Lines, Dated
<1>5. ASSUME ~unsaved' PROVE Saved' /\ Honoured'
  <2>1. Saved'
    BY <1>1, <1>5 DEF KycInv, Saved, Logged, Lines
  <2>2. \A a \in Applicant : refused[a] # 0 =>
          \A d \in cache'[a] : Refuses(d.rec.status) \/ (time + 1) + d.left <= refused[a] + CacheTtl
    <3> SUFFICES ASSUME NEW a \in Applicant, refused[a] # 0, NEW d \in cache'[a], ~Refuses(d.rec.status)
                 PROVE  (time + 1) + d.left <= refused[a] + CacheTtl
      OBVIOUS
    <3>1. PICK c \in cache[a] : d.rec = c.rec /\ d.left = c.left - 1 /\ c.left \in Nat
      BY <1>2
    <3>2. time + c.left <= refused[a] + CacheTtl
      BY <1>1, <1>5, <3>1 DEF KycInv, Honoured
    <3> QED
      BY <1>1, <3>1, <3>2
  <2>3. \A a \in Applicant : refused[a] # 0 => refused[a] <= time + 1
    BY <1>1, <1>5 DEF KycInv, KycTypes, Honoured
  <2>4. Honoured'
    BY <1>1, <1>5, <2>2, <2>3 DEF KycInv, Honoured, LetsThrough, Lines
  <2> QED
    BY <2>1, <2>4
<1> QED
  BY <1>3, <1>4, <1>5 DEF KycInv

LEMMA KycNextInv == KycInv /\ [KycNext]_kycVars => KycInv'
<1> SUFFICES ASSUME KycInv, [KycNext]_kycVars PROVE KycInv'
  OBVIOUS
<1>1. CASE UNCHANGED kycVars
  <2>1. /\ UNCHANGED <<time, records, snapshot, audit, writeLock, writing, cache>>
        /\ UNCHANGED <<job, changes, answered, refused, unsaved>>
    BY <1>1 DEF kycVars
  <2>3. KycTypes'
    BY <2>1 DEF KycInv, KycTypes
  <2>4. Numbered'
    BY <2>1 DEF KycInv, Numbered
  <2>5. Queued'
    BY <2>1 DEF KycInv, Queued, Waits, Kept
  <2>6. Latest'
    BY <2>1 DEF KycInv, Latest, IsLast, Lines, Dated
  <2>2. ~unsaved' => Saved' /\ Honoured'
    BY <2>1 DEF KycInv, Saved, Honoured, Logged, LetsThrough, Lines
  <2> QED
    BY <2>2, <2>3, <2>4, <2>5, <2>6 DEF KycInv
<1>2. ASSUME NEW j \in Job, NEW a \in Applicant, NEW status \in Assigned, NEW e \in ExpiresAt,
             updateKyc(j, a, status, e)
      PROVE  KycInv'
  <2>1. status \in KycStatus /\ e \in Nat /\ ~Waits(j)
    BY <1>2, KycAssumption DEF updateKyc, transitionStatus, Waits
  <2> QED
    BY <1>2, <2>1, ApplyInv DEF updateKyc, transitionStatus
<1>3. ASSUME NEW j \in Job, NEW a \in Applicant, KycGuard(j, a) \/ getProfile(j, a) PROVE KycInv'
  BY <1>3, GetRecordInv DEF KycGuard, getProfile
<1> QED
  BY <1>1, <1>2, <1>3, AnswerInv, FetchInv, JudgeInv, PersistInv, AppendAuditInv, WriteSnapshotInv,
     PersistEndsInv, KycCrashInv, KycTickInv DEF KycNext

LEMMA KycInvariant == KycSpec => []KycInv
<1> QED
  BY KycInvInit, KycNextInv, PTL DEF KycSpec

\* applyTransition and onModuleInit, for any number of requests, changes and
\* crashes: while the files can be written and read, a crash leaves every
\* account with the last change that was answered, or a later one.
THEOREM ChangesSurvive == KycSpec => []AnsweredChangesSurvive
<1>1. KycInv => AnsweredChangesSurvive
  BY DEF KycInv, KycTypes, Saved, AnsweredChangesSurvive
<1> QED
  BY <1>1, KycInvariant, PTL

\* KycGuard and getProfile, for any interleaving, any Redis faults and any
\* lifetime of a copy: an account that an answered change refuses is let
\* through only by what was read within that lifetime.
THEOREM RefusalsHonoured == KycSpec => []RefusalIsHonoured
<1>1. KycInv => RefusalIsHonoured
  <2> SUFFICES ASSUME KycInv, ~unsaved, NEW j \in Job, job[j].pc = "idle", job[j].verdict = "eligible",
                      refused[job[j].account] # 0
               PROVE  job[j].at < refused[job[j].account] + CacheTtl
    BY DEF RefusalIsHonoured
  <2>1. LetsThrough(job[j])
    BY DEF LetsThrough
  <2>2. job[j].account \in Applicant
    BY DEF KycInv, KycTypes
  <2> QED
    BY <2>1, <2>2 DEF KycInv, Honoured
<1> QED
  BY <1>1, KycInvariant, PTL
=============================================================================
