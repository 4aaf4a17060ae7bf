----------------------------- MODULE Admission -----------------------------
(***************************************************************************)
(* How a browser gets into the API: the frontend's login (AuthService) and *)
(* signed admin intents (AdminIntentService), the API's challenges and     *)
(* tokens (AuthService), its rate limit (RateLimitGuard) and its check of  *)
(* intents (IntentService).  Tabs of one browser run side by side, with    *)
(* one wallet whose account may change while a login is in progress.       *)
(*                                                                         *)
(* A challenge, and an intent, is known by its number; a token by the      *)
(* account it names, and tokens are kept.   What expires has the ticks it  *)
(* has left; an intent is still valid in its last one, 0.                  *)
(***************************************************************************)
EXTENDS Integers, Sequences, FiniteSets

CONSTANTS
  Account,       \* accounts that sign in
  Nobody,        \* none, or an account that does not
  Admin,         \* STELLAR_PUBLIC_KEY, the admin's account
  Tab,           \* browser tabs
  Target,        \* what an admin action is about
  Limit,         \* requests per window (RATE_LIMIT_AUTH_LIMIT)
  Window,        \* length of a window (RATE_LIMIT_AUTH_TTL)
  ChallengeTtl,  \* CHALLENGE_TTL_SECONDS
  IntentLife,    \* how long an intent is valid
  NonceMargin,   \* how much longer its nonce is remembered (300 seconds)
  MaxChallenges, MaxIntents, MaxAdmFaults  \* bounds

\* The counters of addresses and of accounts have different prefixes.
ASSUME AdmissionAssumption ==
  /\ Nobody \notin Account /\ Admin \in Account /\ "ip" \notin Account
  /\ IsFiniteSet(Tab)
  /\ {Limit, Window, ChallengeTtl, IntentLife, NonceMargin} \subseteq Nat \ {0}
  /\ {MaxChallenges, MaxIntents, MaxAdmFaults} \subseteq Nat

VARIABLES
  wallet,      \* the account selected in Freighter
  call,        \* per tab: the login or refresh in progress
  tokens,      \* the accounts for which there is a token
  challenge,   \* Redis challenge:<address>: no or one challenge
  issued,      \* history: the account of every challenge
  sessions,    \* history: the accounts that every challenge has signed in
  counter,     \* Redis ratelimit:auth:*, and the ticks left, 0 if it never expires
  intents,     \* the intents signed
  nonces,      \* Redis admin-intent:<nonce>, the ticks left
  accepted,    \* history: how often each intent was accepted
  admFaults    \* Redis failures so far

admVars == <<wallet, call, tokens, challenge, issued, sessions, counter, intents, nonces,
             accepted, admFaults>>
otherVars == <<wallet, intents, nonces, accepted>>

\* Where a login or a refresh is: in the rate limit or at the handler goal.
Rest == [pc |-> "rest", goal |-> "none", key |-> 1, attempt |-> 0, for |-> Nobody,
         number |-> 0, signer |-> Nobody]
NoCounter == [count |-> 0, left |-> 0]

AdmInit ==
  /\ wallet \in Account \cup {Nobody}
  /\ call = [t \in Tab |-> Rest] /\ tokens = {}
  /\ challenge = [a \in Account |-> {}] /\ issued = <<>> /\ sessions = <<>>
  /\ counter = [k \in {"ip"} \cup Account |-> NoCounter]
  /\ intents = <<>> /\ nonces = <<>> /\ accepted = <<>>
  /\ admFaults = 0

RedisDown == admFaults < MaxAdmFaults /\ admFaults' = admFaults + 1

Becomes(t, c) == call' = [call EXCEPT ![t] = c]
-----------------------------------------------------------------------------
(* RateLimitGuard, before the handlers of challenge, verify and refresh *)

keysToCheck(c) == IF c.goal = "refresh" THEN <<"ip">> ELSE <<"ip", c.for>>

Exceeded_OffByOne(k) == counter[k].count > Limit

Exceeded(k) == counter[k].count >= Limit

\* The first request of a window starts its time to live.
NeedsExpiry(k) == counter[k].count = 0

\* INCR; the time to live of a counter that was there does not change.
incrOrThrow(k) == [counter EXCEPT ![k].count = @ + 1]

expire(k) == [counter EXCEPT ![k].left = Window]

\* Every counter is read, then every one is incremented; the guard stands
\* aside while Redis is known to be down.
canActivate(t) ==
  LET c == call[t]
      keys == keysToCheck(c)
      k == keys[c.key]
      onward == IF c.key = Len(keys) THEN [c EXCEPT !.pc = "handler", !.key = 1]
                ELSE [c EXCEPT !.pc = "count", !.key = @ + 1]
  IN  /\ \/ /\ c.pc = "check"
            /\ Becomes(t, IF \E i \in 1..Len(keys) : Exceeded(keys[i]) THEN Rest
                          ELSE [c EXCEPT !.pc = "count"])
            /\ UNCHANGED <<counter, admFaults>>
         \/ /\ c.pc = "check" /\ RedisDown
            /\ Becomes(t, [c EXCEPT !.pc = "handler"]) /\ UNCHANGED counter
         \/ /\ c.pc = "count"
            /\ counter' = incrOrThrow(k)
            /\ Becomes(t, IF NeedsExpiry(k) THEN [c EXCEPT !.pc = "expire"] ELSE onward)
            /\ UNCHANGED admFaults
         \/ c.pc = "count" /\ RedisDown /\ Becomes(t, Rest) /\ UNCHANGED counter
         \/ /\ c.pc = "expire" /\ Becomes(t, onward)
            /\ \/ counter' = expire(k) /\ UNCHANGED admFaults
               \/ RedisDown /\ UNCHANGED counter
      /\ UNCHANGED <<tokens, challenge, issued, sessions, otherVars>>
-----------------------------------------------------------------------------
(* Login and refresh *)

Ask(c, goal) == [c EXCEPT !.pc = "check", !.goal = goal, !.key = 1]

\* The page may know an account that is no longer the wallet's.
login(t, a) ==
  /\ call[t].pc = "rest"
  /\ Becomes(t, Ask([Rest EXCEPT !.attempt = 1, !.for = a], "challenge"))
  /\ UNCHANGED <<tokens, challenge, issued, sessions, counter, admFaults, otherVars>>

Reaches(t, goal) == call[t].pc = "handler" /\ call[t].goal = goal

\* A new challenge replaces the one there was; a failed SET is not noticed.
generateChallenge(t) ==
  LET a == call[t].for
  IN  /\ Reaches(t, "challenge") /\ Len(issued) < MaxChallenges
      /\ issued' = Append(issued, a) /\ sessions' = Append(sessions, <<>>)
      /\ \/ /\ challenge' = [challenge EXCEPT ![a] =
                               {[number |-> Len(issued) + 1, left |-> ChallengeTtl]}]
            /\ UNCHANGED admFaults
         \/ RedisDown /\ UNCHANGED challenge
      /\ Becomes(t, [call[t] EXCEPT !.pc = "sign", !.number = Len(issued) + 1])
      /\ UNCHANGED <<tokens, counter, otherVars>>

\* The wallet signs with its account of the moment, or not: it is on another
\* network or locked, or the user declines.
signChallenge(t) ==
  /\ call[t].pc = "sign"
  /\ \/ Becomes(t, Ask([call[t] EXCEPT !.signer = wallet], "verify"))
     \/ Becomes(t, Rest)
  /\ UNCHANGED <<tokens, challenge, issued, sessions, counter, admFaults, otherVars>>

getDel_Keeps(a) == challenge

\* GETDEL: read and deleted in one go.
getDel(a) == [challenge EXCEPT ![a] = {}]

maxAttempts == 2

\* A challenge that was consumed, has expired or was replaced is asked for once
\* more; a wrong signature, or no Redis, ends the login.  The request may be
\* delivered a second time before the answer is.
verifySignature(t) ==
  LET c == call[t]
      fresh == \E stored \in challenge[c.for] : stored.number = c.number
  IN  /\ Reaches(t, "verify")
      /\ \/ /\ challenge' = getDel(c.for) /\ UNCHANGED admFaults
            /\ IF fresh /\ c.signer = c.for
               THEN /\ sessions' = [sessions EXCEPT ![c.number] = Append(@, c.signer)]
                    /\ tokens' = tokens \cup {c.for}
                    /\ (Becomes(t, Rest) \/ UNCHANGED call)
               ELSE /\ Becomes(t, IF ~fresh /\ c.attempt < maxAttempts
                                  THEN Ask([Rest EXCEPT !.for = c.for, !.attempt = c.attempt + 1],
                                           "challenge")
                                  ELSE Rest)
                    /\ UNCHANGED <<sessions, tokens>>
         \/ RedisDown /\ Becomes(t, Rest) /\ UNCHANGED <<challenge, sessions, tokens>>
      /\ UNCHANGED <<issued, counter, otherVars>>

refresh(t, a) ==
  /\ call[t].pc = "rest" /\ a \in tokens
  /\ Becomes(t, Ask([Rest EXCEPT !.for = a], "refresh"))
  /\ UNCHANGED <<tokens, challenge, issued, sessions, counter, admFaults, otherVars>>

\* The new token names the account of the refresh token.
refreshToken(t) ==
  /\ Reaches(t, "refresh")
  /\ Becomes(t, Rest) /\ tokens' = tokens \cup {call[t].for}
  /\ UNCHANGED <<challenge, issued, sessions, counter, admFaults, otherVars>>
-----------------------------------------------------------------------------
(* Admin intents *)

\* AdminIntentService: an intent for one target, signed with the admin's key,
\* which the admin has typed in; no other key is taken.
create(target) ==
  /\ Len(intents) < MaxIntents
  /\ intents' = Append(intents, [target |-> target, left |-> IntentLife])
  /\ nonces' = Append(nonces, 0) /\ accepted' = Append(accepted, <<>>)
  /\ UNCHANGED <<wallet, call, tokens, challenge, issued, sessions, counter, admFaults>>

NonceTtl_Exact(intent) == intent.left

NonceTtl(intent) == intent.left + NonceMargin

AdminGuard == Admin \in tokens

\* The target named in the route is the one that was signed.
ExpectedTarget(i, target) == intents[i].target = target

\* SET NX: written if there is none.
setNx(i) == nonces[i] = 0 /\ nonces' = [nonces EXCEPT ![i] = NonceTtl(intents[i])]

\* IntentGuard behind JwtAuthGuard and AdminGuard: request after request may
\* bring the same intent.  SET NX decides; a failure counts as a replay,
\* whether or not the nonce was written.
verifyIntent(i, target) ==
  /\ AdminGuard
  /\ ExpectedTarget(i, target)
  /\ intents[i].left >= 0
  /\ \/ /\ setNx(i) /\ UNCHANGED admFaults
        /\ accepted' = [accepted EXCEPT ![i] = Append(@, target)]
     \/ RedisDown /\ UNCHANGED accepted /\ (setNx(i) \/ UNCHANGED nonces)
  /\ UNCHANGED <<wallet, call, tokens, challenge, issued, sessions, counter, intents>>
-----------------------------------------------------------------------------
\* The user selects another account in the wallet.
Freighter ==
  /\ wallet' \in (Account \cup {Nobody}) \ {wallet}
  /\ UNCHANGED <<call, tokens, challenge, issued, sessions, counter, intents, nonces, accepted,
                 admFaults>>

Less(n) == IF n = 0 THEN 0 ELSE n - 1

Older(intent) == [intent EXCEPT !.left = IF @ = -1 THEN -1 ELSE @ - 1]

AdmTick ==
  /\ intents' = [i \in DOMAIN intents |-> Older(intents[i])]
  /\ challenge' = [a \in Account |->
       {[c EXCEPT !.left = @ - 1] : c \in {d \in challenge[a] : d.left > 1}}]
  /\ counter' = [k \in DOMAIN counter |->
       IF counter[k].left = 1 THEN NoCounter ELSE [counter[k] EXCEPT !.left = Less(@)]]
  /\ nonces' = [i \in DOMAIN nonces |-> Less(nonces[i])]
  /\ UNCHANGED <<wallet, call, tokens, issued, sessions, accepted, admFaults>>

ServerStep(t) == canActivate(t) \/ generateChallenge(t) \/ verifySignature(t) \/ refreshToken(t)

AdmNext ==
  \/ \E t \in Tab : \/ \E a \in Account : login(t, a) \/ refresh(t, a)
                    \/ signChallenge(t) \/ ServerStep(t)
  \/ \E target \in Target : create(target) \/ \E i \in DOMAIN intents : verifyIntent(i, target)
  \/ Freighter \/ AdmTick

AdmSpec == AdmInit /\ [][AdmNext]_admVars
-----------------------------------------------------------------------------
\* A challenge signs one account in at most once, the account it was issued
\* to, however tabs, retries and replaced challenges interleave.
OneSessionPerChallenge ==
  \A n \in DOMAIN sessions : sessions[n] \in {<<>>, <<issued[n]>>}

\* An admin intent is acted upon at most once in its life, also when Redis
\* fails and after its nonce has expired there.
IntentsActOnce == \A i \in DOMAIN accepted : Len(accepted[i]) <= 1

\* The counters are read before they are incremented: tabs side by side get
\* past the limit, but each at most by its own request.
BurstIsBounded == \A k \in DOMAIN counter : counter[k].count <= Limit + Cardinality(Tab) - 1
=============================================================================
