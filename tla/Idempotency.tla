---------------------------- MODULE Idempotency ----------------------------
(***************************************************************************)
(* Idempotency keys of the API (api/src/common: IdempotencyInterceptor,    *)
(* IdempotencyService, the Redis calls they make).  A request looks up the *)
(* record of its key, reserves it with SET NX, runs the handler, answers,  *)
(* and writes the record after the answer.  Every await is a step of its   *)
(* own, so requests interleave between any two of them.                    *)
(*                                                                         *)
(* A payload stands for the fingerprint of method, path and body.  The     *)
(* result of a handler is named after the request that ran it.  The model  *)
(* covers one retention window: records do not expire in it.               *)
(***************************************************************************)
EXTENDS Naturals, FiniteSets

CONSTANTS
  Request,     \* HTTP requests, first attempts and retries alike
  Key,         \* idempotency keys
  Payload,     \* request payloads
  NoOne,       \* no result
  Faults,      \* the faults that may happen, a subset of Fault
  MaxFaults    \* bound: faults that happen

Fault == {"redis",   \* a Redis call fails; RedisService logs it and goes on
          "reply",   \* the transaction is applied, the RPC's answer is lost
          "crash"}   \* the API process dies

ASSUME IdempotencyAssumption ==
  /\ NoOne \notin Request
  /\ Faults \subseteq Fault /\ MaxFaults \in Nat

VARIABLES
  record,    \* Redis idem:<key>: no or one record
  req,       \* the progress of every request
  effects,   \* history: the handlers that took effect
  errored,   \* history: the keys one of whose handlers has thrown
  disturbed, \* history: the keys for which a Redis call has failed
  faults     \* faults so far

idemVars == <<record, req, effects, errored, disturbed, faults>>

\* The places between two awaits.
Place == {"new", "mark", "recheck", "handle", "complete", "store", "done"}

Answer == {"none", "result", "error", "replay", "conflict"}

Init ==
  /\ record = [k \in Key |-> {}]
  /\ req \in [Request -> [pc : {"new"}, key : Key, payload : Payload, answer : {"none"},
                          replayed : {NoOne}, kept : {"unknown"}]]
  /\ effects = {} /\ errored = {} /\ disturbed = {} /\ faults = 0

Happens(fault) == /\ fault \in Faults /\ faults < MaxFaults
                  /\ faults' = faults + 1

\* A Redis call about key k succeeds, or fails.
RedisWorks == UNCHANGED <<disturbed, faults>>
RedisFails(k) == Happens("redis") /\ disturbed' = disturbed \cup {k}
-----------------------------------------------------------------------------
\* RedisService.get: nothing is found when the call fails.
RedisGet(k, found) ==
  \/ found = record[k] /\ RedisWorks
  \/ found = {} /\ record[k] # {} /\ RedisFails(k)

Verdict_IgnoresPayload(found, payload) ==
  IF \E e \in found : e.status = "pending" THEN "conflict"
  ELSE IF \E e \in found : e.status = "success" THEN "replay"
  ELSE "proceed"

\* What a record means for a request: only a failed attempt is repeated.
Verdict(found, payload) ==
  IF \E e \in found : e.payload # payload \/ e.status = "pending" THEN "conflict"
  ELSE IF \E e \in found : e.status = "success" THEN "replay"
  ELSE "proceed"

\* A request goes on to the place next, or is answered from what was found.
Informed(q, found, next) ==
  LET verdict == Verdict(found, q.payload)
  IN  IF verdict = "proceed" THEN [q EXCEPT !.pc = next]
      ELSE [q EXCEPT !.pc = "done", !.answer = verdict,
                     !.replayed = IF verdict = "replay" THEN (CHOOSE e \in found : TRUE).result ELSE @]

LookUp(r, here, next) ==
  /\ req[r].pc = here
  /\ \E found \in {record[req[r].key], {}} :
       /\ RedisGet(req[r].key, found)
       /\ req' = [req EXCEPT ![r] = Informed(@, found, next)]
  /\ UNCHANGED <<record, effects, errored>>

Get(r) == LookUp(r, "new", "mark")

SetNx_Overwrites(k) == TRUE

\* SET NX writes only where there is nothing.
SetNx(k) == record[k] = {}

Reserve(r) ==
  record' = [record EXCEPT ![req[r].key] =
               {[status |-> "pending", payload |-> req[r].payload, result |-> NoOne]}]

\* Reserve the key; a failing call may have written the record nevertheless.
markPending(r) ==
  /\ req[r].pc = "mark"
  /\ LET free == SetNx(req[r].key)
     IN  \/ /\ free /\ Reserve(r) /\ RedisWorks
            /\ req' = [req EXCEPT ![r].pc = "handle"]
         \/ /\ ~free /\ UNCHANGED record /\ RedisWorks
            /\ req' = [req EXCEPT ![r].pc = "recheck"]
         \/ /\ RedisFails(req[r].key)
            /\ (UNCHANGED record \/ (free /\ Reserve(r)))
            /\ req' = [req EXCEPT ![r].pc = "recheck"]
  /\ UNCHANGED <<effects, errored>>

\* Another request holds the key, or Redis failed: look again.
Recheck(r) == LookUp(r, "recheck", "handle")

Effect(r) == [key |-> req[r].key, payload |-> req[r].payload, by |-> r]

\* The handler returns or throws, and the client is answered before the
\* record is written.  A handler that throws may have taken effect.
handle(r) ==
  /\ req[r].pc = "handle"
  /\ \/ /\ effects' = effects \cup {Effect(r)}
        /\ req' = [req EXCEPT ![r].pc = "complete", ![r].answer = "result"]
        /\ UNCHANGED <<errored, faults>>
     \/ /\ \/ UNCHANGED <<effects, faults>>
           \/ Happens("reply") /\ effects' = effects \cup {Effect(r)}
        /\ req' = [req EXCEPT ![r].pc = "complete", ![r].answer = "error"]
        /\ errored' = errored \cup {req[r].key}
  /\ UNCHANGED <<record, disturbed>>

\* The fingerprint that the new record takes over from the one read back.
KeptPayload(found) == IF found = {} THEN "unknown" ELSE (CHOOSE e \in found : TRUE).payload

\* complete reads the record back ...
CompleteGet(r) ==
  /\ req[r].pc = "complete"
  /\ \E found \in {record[req[r].key], {}} :
       /\ RedisGet(req[r].key, found)
       /\ req' = [req EXCEPT ![r].pc = "store", ![r].kept = KeptPayload(found)]
  /\ UNCHANGED <<record, effects, errored>>

Outcome(answer) == IF answer = "result" THEN "success" ELSE "error"

\* ... and replaces it; a failing write is swallowed.
CompleteSet(r) ==
  /\ req[r].pc = "store"
  /\ \/ /\ record' = [record EXCEPT ![req[r].key] =
             {[status |-> Outcome(req[r].answer), payload |-> req[r].kept, result |-> r]}]
        /\ RedisWorks
     \/ RedisFails(req[r].key) /\ UNCHANGED record
  /\ req' = [req EXCEPT ![r].pc = "done"]
  /\ UNCHANGED <<effects, errored>>

\* The process dies: every request in it is gone, answered or not.
Crash ==
  /\ Happens("crash")
  /\ req' = [r \in Request |-> IF req[r].pc = "new" THEN req[r] ELSE [req[r] EXCEPT !.pc = "done"]]
  /\ UNCHANGED <<record, effects, errored, disturbed>>
-----------------------------------------------------------------------------
Step(r) == Get(r) \/ markPending(r) \/ Recheck(r) \/ handle(r) \/ CompleteGet(r) \/ CompleteSet(r)

Next == (\E r \in Request : Step(r)) \/ Crash

Spec == Init /\ [][Next]_idemVars
-----------------------------------------------------------------------------
\* The requests that run the handler of key k, and the ones whose handler took
\* effect.
Running(k) == {r \in Request : req[r].key = k /\ req[r].pc = "handle"}
TookEffect(k) == {e.by : e \in {f \in effects : f.key = k}}

\* What a key promises its callers, as OnceOnly sees it: nothing more once a
\* handler has thrown or a Redis call has failed on it.
Promise(k) ==
  IF k \in errored \cup disturbed THEN "void"
  ELSE IF TookEffect(k) # {} THEN "executed"
  ELSE IF Running(k) # {} THEN "running"
  ELSE IF record[k] # {} THEN "lost"
  ELSE "free"

Owners(k) == IF k \in errored \cup disturbed THEN {} ELSE Running(k) \cup TookEffect(k)

Once == INSTANCE OnceOnly WITH
  phase <- [k \in Key |-> Promise(k)], owners <- [k \in Key |-> Owners(k)]

\* However requests with the same key race, and wherever the process dies, the
\* reservations, lookups and records of IdempotencyInterceptor carry out the
\* abstract service OnceOnly: one request runs the handler of a key, and the
\* key stays with it ("the underlying operation runs at most once",
\* docs/idempotency.md), until a handler throws or Redis fails on that key.
RunsOnce == Once!OnceSpec

\* An answer given from a record is the result of a handler that took effect
\* for the same key and, unless a Redis call on that key has failed, for the
\* same payload: "Same key + identical payload (retry): returns the original
\* stored result" (docs/idempotency.md).
ReplaysAreFaithful ==
  \A r \in Request : req[r].answer = "replay" =>
    \E e \in effects :
      /\ e.key = req[r].key /\ e.by = req[r].replayed
      /\ e.payload = req[r].payload \/ e.key \in disturbed
=============================================================================
