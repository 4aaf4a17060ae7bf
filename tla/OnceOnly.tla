------------------------------ MODULE OnceOnly ------------------------------
(***************************************************************************)
(* What the idempotency keys of the API promise (docs/idempotency.md),     *)
(* without the records and the races that bring it about: a free key is    *)
(* taken by one request, which executes or dies with the process; the key  *)
(* never goes to another request.  The promise ends for a key whose        *)
(* handler throws, since a failed attempt may be repeated, and for a key   *)
(* on which Redis has failed.                                              *)
(***************************************************************************)
CONSTANTS Request, Key

VARIABLES
  phase,   \* what has become of every key
  owners   \* the request a key belongs to: none or one

onceVars == <<phase, owners>>

OnceInit == phase = [k \in Key |-> "free"] /\ owners = [k \in Key |-> {}]

\* A request that finds its key taken is refused, or answered with what the
\* owner's execution returned.
Decline == UNCHANGED onceVars

Take(k, r) ==
  /\ phase[k] = "free"
  /\ phase' = [phase EXCEPT ![k] = "running"]
  /\ owners' = [owners EXCEPT ![k] = {r}]

Execute(k) ==
  /\ phase[k] = "running"
  /\ phase' = [phase EXCEPT ![k] = "executed"]
  /\ UNCHANGED owners

\* The process dies with every handler that was running in it.
Lose ==
  LET gone == {k \in Key : phase[k] = "running"}
  IN  /\ phase' = [k \in Key |-> IF k \in gone THEN "lost" ELSE phase[k]]
      /\ owners' = [k \in Key |-> IF k \in gone THEN {} ELSE owners[k]]

\* Nothing is promised of a key any more.
Void(k) ==
  /\ phase' = [phase EXCEPT ![k] = "void"]
  /\ owners' = [owners EXCEPT ![k] = {}]

OnceNext ==
  \/ Decline
  \/ \E k \in Key, r \in Request : Take(k, r)
  \/ \E k \in Key : Execute(k) \/ Void(k)
  \/ Lose

OnceSpec == OnceInit /\ [][OnceNext]_onceVars
=============================================================================
