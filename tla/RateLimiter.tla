----------------------------- MODULE RateLimiter -----------------------------
(***************************************************************************)
(* The server's admission of requests: the part of the middleware chain    *)
(* that can refuse one (internal/server/server.go, middleware.go) and the  *)
(* token buckets of rateLimiter (internal/server/ratelimit.go).            *)
(*                                                                         *)
(* A bucket is refilled by the first request that finds it at least one    *)
(* window old, not by a clock.  Allow holds the limiter's mutex from the   *)
(* reading of the time to the answer, so it is one step.                   *)
(*                                                                         *)
(* An operator marked "Mutant" is the definition after it with a plausible *)
(* bug, and is used only to see that a property notices (PROJECT.json).    *)
(***************************************************************************)
EXTENDS Integers, Sequences

CONSTANTS
    ApiKeys,            \* CLAW_API_KEYS; without any there is no auth
    Addresses,          \* client addresses
    Rate,               \* requests per window, the server's RateLimit
    Window,             \* one minute
    MaxTime             \* bound: the clock of the model stops here

ASSUME RateLimiterAssumption ==
    /\ Rate \in Nat \ {0}           \* else the middleware is not installed
    /\ Window \in Nat \ {0}
    /\ MaxTime \in Nat
    /\ ApiKeys \cap Addresses = {}

VARIABLES
    now,                \* the time
    counters,           \* the keys that have a bucket
    tokens,             \* the tokens left in each bucket
    lastReset,          \* when it was filled
    admitted,           \* history: the times each key was let through
    answer              \* history: the last answer, to whom and when

vars == <<now, counters, tokens, lastReset, admitted, answer>>

Keys    == ApiKeys \cup Addresses
NoToken == "none"       \* no bearer token, or not a configured one

Init ==
    /\ now = 0
    /\ counters = {}
    /\ tokens = [k \in Keys |-> 0]
    /\ lastReset = [k \in Keys |-> 0]
    /\ admitted = [k \in Keys |-> <<>>]
    /\ answer = [key |-> NoToken, code |-> 200, at |-> 0]

Tick ==
    /\ now < MaxTime
    /\ now' = now + 1
    /\ UNCHANGED <<counters, tokens, lastReset, admitted, answer>>

-----------------------------------------------------------------------------
(* The middleware chain                                                    *)

\* authMiddleware, installed when there are API keys.
Authenticated(token) == ApiKeys = {} \/ token \in ApiKeys

\* The identity auth has set, else the client's address.
BucketKey(token, address) == IF ApiKeys = {} THEN address ELSE token

Answer(key, code) == answer' = [key |-> key, code |-> code, at |-> now]

Preflight ==            \* corsMiddleware answers OPTIONS before auth
    /\ Answer(NoToken, 204)
    /\ UNCHANGED <<now, counters, tokens, lastReset, admitted>>

Unauthorized(token) ==
    /\ ~Authenticated(token)
    /\ Answer(NoToken, 401)
    /\ UNCHANGED <<now, counters, tokens, lastReset, admitted>>

\* /health before auth, /metrics after it: never counted.
Uncounted(path, token) ==
    /\ path = "/health" \/ (path = "/metrics" /\ Authenticated(token))
    /\ Answer(NoToken, 200)
    /\ UNCHANGED <<now, counters, tokens, lastReset, admitted>>

-----------------------------------------------------------------------------
(* rateLimiter.Allow                                                       *)

\* Mutant: the time of the refill is not recorded.
RefillUndated(key) ==
    /\ tokens' = [tokens EXCEPT ![key] = Rate - 1]
    /\ UNCHANGED lastReset

\* Mutant: a refill that throws the tokens away.
RefillEmpty(key) ==
    /\ tokens' = [tokens EXCEPT ![key] = 0]
    /\ lastReset' = [lastReset EXCEPT ![key] = now]

Refill(key) ==
    /\ tokens' = [tokens EXCEPT ![key] = Rate - 1]
    /\ lastReset' = [lastReset EXCEPT ![key] = now]

Admit(key) ==
    /\ admitted' = [admitted EXCEPT ![key] = Append(@, now)]
    /\ Answer(key, 200)

Expired(key) == now - lastReset[key] >= Window

FirstRequest(key) ==
    /\ key \notin counters
    /\ counters' = counters \cup {key}
    /\ Refill(key)
    /\ Admit(key)
    /\ UNCHANGED now

NewWindow(key) ==
    /\ key \in counters
    /\ Expired(key)
    /\ Refill(key)
    /\ Admit(key)
    /\ UNCHANGED <<now, counters>>

\* Mutant: a token is taken from an empty bucket.
TakeTokenAnyway(key) ==
    /\ key \in counters
    /\ ~Expired(key)
    /\ tokens' = [tokens EXCEPT ![key] = @ - 1]
    /\ Admit(key)
    /\ UNCHANGED <<now, counters, lastReset>>

TakeToken(key) ==
    /\ key \in counters
    /\ ~Expired(key)
    /\ tokens[key] > 0
    /\ tokens' = [tokens EXCEPT ![key] = @ - 1]
    /\ Admit(key)
    /\ UNCHANGED <<now, counters, lastReset>>

Refuse(key) ==
    /\ key \in counters
    /\ ~Expired(key)
    /\ tokens[key] = 0
    /\ Answer(key, 429)
    /\ UNCHANGED <<now, counters, tokens, lastReset, admitted>>

Allow(key) ==
    FirstRequest(key) \/ NewWindow(key) \/ TakeToken(key) \/ Refuse(key)

Counted(token, address) ==
    /\ Authenticated(token)
    /\ Allow(BucketKey(token, address))

Next ==
    \/ Tick
    \/ Preflight
    \/ \E token \in ApiKeys \cup {NoToken} :
          \/ Unauthorized(token)
          \/ \E path \in {"/health", "/metrics"} : Uncounted(path, token)
          \/ \E address \in Addresses : Counted(token, address)

Spec == Init /\ [][Next]_vars

-----------------------------------------------------------------------------
(* Properties                                                              *)

TypeOK ==
    /\ now \in Nat
    /\ counters \subseteq Keys
    /\ tokens \in [Keys -> 0 .. Rate]
    /\ lastReset \in [Keys -> Nat]
    /\ admitted \in [Keys -> Seq(Nat)]
    /\ answer \in [key: Keys \cup {NoToken}, code: {200, 204, 401, 429},
                   at: Nat]

\* Any 2 * Rate requests of one key that were let through span at least a
\* window: the refill lets at most 2 * Rate - 1 through in one.
BurstBound == \A k \in Keys : \A i \in DOMAIN admitted[k] :
    i + 2 * Rate - 1 \in DOMAIN admitted[k] =>
        admitted[k][i + 2 * Rate - 1] - admitted[k][i] >= Window

\* Who is refused has had Rate requests let through less than a window ago.
RefusalJustified ==
    answer.code = 429 =>
        LET times == admitted[answer.key]
        IN  /\ Len(times) >= Rate
            /\ answer.at - times[Len(times) - Rate + 1] < Window
=============================================================================
