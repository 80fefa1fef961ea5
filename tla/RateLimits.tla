----------------------------- MODULE RateLimits -----------------------------
(***************************************************************************)
(* The limits on the chat API (internal/ratelimit): a token bucket per     *)
(* billing account, a token bucket per API key, and a cap on the requests  *)
(* an account has in flight.  Each gate locks its own mutex, so a request  *)
(* is several steps and other requests, the prune goroutines and the clock *)
(* come in between.                                                        *)
(*                                                                         *)
(* A minute is Minute clock ticks and a token is Minute parts: a limit of  *)
(* n requests per minute refills n parts per tick, and the arithmetic of   *)
(* the buckets is exact.                                                   *)
(***************************************************************************)
EXTENDS Integers, FiniteSets

CONSTANTS
    Requests,              \* requests that can be in progress together
    Accounts,              \* billing accounts
    EndUsers,              \* the allowance-managed ones
    Keys,                  \* API keys
    NoAccount,             \* a request without a billing resolution
    KeyLimits,             \* values of api_keys.rate_limit
    Overrides,             \* values of accounts.rate_limit_per_min that are not NULL
    NoOverride,            \* NULL there
    EndUserPerMin,         \* END_USER_RATELIMIT_PER_MIN
    ServicePerMin,         \* ACCOUNT_RATELIMIT_PER_MIN
    EndUserMaxConcurrent,  \* END_USER_MAX_CONCURRENT
    ServiceMaxConcurrent,  \* ACCOUNT_MAX_CONCURRENT
    Minute,                \* clock ticks per minute
    idleCutoff,            \* clock ticks a bucket must be idle to be pruned
    MaxLimit,              \* no limit is higher (MaxConfigPerMinute)
    MaxClock               \* bound on the clock

\* Limits are at least 1: boot validation, updateAccountRateLimit and
\* ApplyConfigDefaultsAndCap see to it.  The code prunes after ten minutes; all
\* that matters is that it is not before a minute has passed.
ASSUME LimitsAssumption ==
    /\ MaxLimit \in Nat \ {0}
    /\ Overrides \subseteq 1..MaxLimit
    /\ KeyLimits \subseteq 1..MaxLimit
    /\ EndUserPerMin \in 1..MaxLimit
    /\ ServicePerMin \in 1..MaxLimit
    /\ NoOverride \notin Overrides

ASSUME ClassAssumption ==
    /\ EndUsers \subseteq Accounts
    /\ NoAccount \notin Accounts
    /\ EndUserMaxConcurrent \in Nat \ {0}
    /\ ServiceMaxConcurrent \in Nat \ {0}
    /\ IsFiniteSet(Requests)

ASSUME ClockAssumption ==
    /\ Minute \in Nat \ {0}
    /\ idleCutoff \in Nat
    /\ idleCutoff >= Minute
    /\ MaxClock \in Nat

VARIABLES
    accounts,   \* the account limiter's buckets, by account
    keys,       \* the key limiter's buckets, by key
    inUse,      \* ConcurrencyLimiter.inUse: an entry per account in flight
    req,        \* the requests: gate, account, key, method
    clock,      \* nowFn
    meter,      \* history: what each account was let through, leaking at MaxLimit
    keyMeter,   \* history: the same for the keys
    fair        \* history: each account's bucket without the requests its key refused

vars == <<accounts, keys, inUse, req, clock, meter, keyMeter, fair>>

\* account and key: about to ask that gate.  refund: refused by the key, about
\* to return the account's token.  slot: about to ask for a slot.  running:
\* inside next.ServeHTTP.
Gates == {"idle", "account", "key", "refund", "slot", "running"}

Request == [gate : Gates, account : Accounts \cup {NoAccount}, key : Keys,
            get : BOOLEAN]

----------------------------------------------------------------------------
(***************************************************************************)
(* Limiter                                                                 *)
(***************************************************************************)

Least(x, y) == IF x < y THEN x ELSE y

Most(x, y) == IF x > y THEN x ELSE y

\* A bucket after the refill at the head of Allow.
Refill(b, rateLimit, now) ==
    [tokens     |-> Least(rateLimit * Minute,
                          b.tokens + (now - b.lastRefill) * rateLimit),
     capacity   |-> rateLimit,
     lastRefill |-> now,
     lastAccess |-> now]

\* The bucket Allow takes a token from or refuses on: full if it is new.
Current(buckets, id, rateLimit, now) ==
    IF id \in DOMAIN buckets
    THEN Refill(buckets[id], rateLimit, now)
    ELSE [tokens |-> rateLimit * Minute, capacity |-> rateLimit,
          lastRefill |-> now, lastAccess |-> now]

Put(buckets, id, b) ==
    [i \in DOMAIN buckets \cup {id} |-> IF i = id THEN b ELSE buckets[i]]

Allowed(b) == b.tokens >= Minute

Take(b) == [b EXCEPT !.tokens = @ - Minute]

\* Mutant of Allow: a refused request takes a token too.
AllowOverdrawn(buckets, id, rateLimit, now) ==
    Put(buckets, id, Take(Current(buckets, id, rateLimit, now)))

\* The buckets after Allow(id, rateLimit).
Allow(buckets, id, rateLimit, now) ==
    LET b == Current(buckets, id, rateLimit, now)
    IN  Put(buckets, id, IF Allowed(b) THEN Take(b) ELSE b)

\* Mutant of Return: the refund is forgotten.
ReturnNothing(buckets, id) == buckets

Return(buckets, id) ==
    IF id \in DOMAIN buckets
    THEN [buckets EXCEPT ![id].tokens =
            Least(buckets[id].capacity * Minute, @ + Minute)]
    ELSE buckets

\* Mutant of Idle: the cutoff is not subtracted.
IdleAtOnce(buckets, now) == {i \in DOMAIN buckets : buckets[i].lastAccess < now}

Idle(buckets, now) ==
    {i \in DOMAIN buckets : buckets[i].lastAccess < now - idleCutoff}

prune(buckets, now) ==
    [i \in DOMAIN buckets \ Idle(buckets, now) |-> buckets[i]]

----------------------------------------------------------------------------
(***************************************************************************)
(* History: a meter is what an id was let through, less its refunds at the *)
(* time they are made, leaking at the rate of the highest limit; `at` is   *)
(* when it was last brought up to date.  It never forgets an id.           *)
(***************************************************************************)

Leak(m, now) == [debt |-> Most(0, m.debt - (now - m.at) * MaxLimit), at |-> now]

Charge(m, now, allowed) ==
    LET l == Leak(m, now)
    IN  IF allowed THEN [l EXCEPT !.debt = @ + Minute] ELSE l

Refunded(m) == [m EXCEPT !.debt = Most(0, @ - Minute)]

----------------------------------------------------------------------------
(***************************************************************************)
(* ConcurrencyLimiter and the effective limits                             *)
(***************************************************************************)

maxConcurrent(a) ==
    IF a \in EndUsers THEN EndUserMaxConcurrent ELSE ServiceMaxConcurrent

EffectiveLimit(override, a) ==
    IF override # NoOverride THEN override
    ELSE IF a \in EndUsers THEN EndUserPerMin ELSE ServicePerMin

SlotsOf(a) == IF a \in DOMAIN inUse THEN inUse[a] ELSE 0

SlotFree(a) == SlotsOf(a) < maxConcurrent(a)

\* The increment of TryAcquire.
AcquireSlot(a) ==
    inUse' = [i \in DOMAIN inUse \cup {a} |->
                IF i = a THEN SlotsOf(a) + 1 ELSE inUse[i]]

\* Mutant of Release: the last slot is kept.
ReleaseKeepingLast(a) ==
    inUse' = IF a \in DOMAIN inUse /\ inUse[a] > 1
             THEN [inUse EXCEPT ![a] = @ - 1]
             ELSE inUse

Release(a) ==
    inUse' = IF a \in DOMAIN inUse /\ inUse[a] > 1
             THEN [inUse EXCEPT ![a] = @ - 1]
             ELSE [i \in DOMAIN inUse \ {a} |-> inUse[i]]

----------------------------------------------------------------------------
(***************************************************************************)
(* Middleware                                                              *)
(***************************************************************************)

Init ==
    /\ accounts = [a \in {} |-> 0]
    /\ keys = [k \in {} |-> 0]
    /\ inUse = [a \in {} |-> 0]
    /\ req \in [Requests -> {[gate |-> "idle", account |-> NoAccount, key |-> k,
                              get |-> FALSE] : k \in Keys}]
    /\ clock = 0
    /\ meter = [a \in Accounts |-> [debt |-> 0, at |-> 0]]
    /\ keyMeter = [k \in Keys |-> [debt |-> 0, at |-> 0]]
    /\ fair = [a \in Accounts |-> 0]

Goto(r, gate) == req' = [req EXCEPT ![r].gate = gate]

\* A request arrives; authentication and billing have found its key and, unless
\* the key has no account, the account to bill.
Arrive(r, a, k, get) ==
    /\ req[r].gate = "idle"
    /\ req' = [req EXCEPT ![r] = [gate |-> IF a = NoAccount THEN "key" ELSE "account",
                                  account |-> a, key |-> k, get |-> get]]
    /\ UNCHANGED <<accounts, keys, inUse, clock, meter, keyMeter, fair>>

\* accounts.Allow; the override is the one billing read, so it may differ from
\* request to request.
AccountGate(r, override) ==
    /\ req[r].gate = "account"
    /\ LET a       == req[r].account
           limit   == EffectiveLimit(override, a)
           allowed == Allowed(Current(accounts, a, limit, clock))
       IN  /\ accounts' = Allow(accounts, a, limit, clock)
           /\ Goto(r, IF allowed THEN "key" ELSE "idle")
           /\ meter' = [meter EXCEPT ![a] = Charge(@, clock, allowed)]
           /\ fair' = [fair EXCEPT ![a] =
                         IF a \in DOMAIN accounts
                         THEN Least(limit * Minute,
                                    @ + (clock - accounts[a].lastRefill) * limit)
                         ELSE limit * Minute]
    /\ UNCHANGED <<keys, inUse, clock, keyMeter>>

\* keys.Allow: refused requests that took an account token go on to return it,
\* admitted ones that occupy a node go on to ask for a slot.
KeyGate(r, limit) ==
    /\ req[r].gate = "key"
    /\ LET k       == req[r].key
           a       == req[r].account
           allowed == Allowed(Current(keys, k, limit, clock))
           refused == IF a = NoAccount THEN "idle" ELSE "refund"
           passed  == IF a = NoAccount \/ req[r].get THEN "running" ELSE "slot"
       IN  /\ keys' = Allow(keys, k, limit, clock)
           /\ keyMeter' = [keyMeter EXCEPT ![k] = Charge(@, clock, allowed)]
           /\ Goto(r, IF allowed THEN passed ELSE refused)
           /\ fair' = IF allowed /\ a # NoAccount
                      THEN [fair EXCEPT ![a] = @ - Minute]
                      ELSE fair
    /\ UNCHANGED <<accounts, inUse, clock, meter>>

\* accounts.Return after a refusal by the key.
Refund(r) ==
    /\ req[r].gate = "refund"
    /\ LET a == req[r].account
       IN  /\ accounts' = Return(accounts, a)
           /\ meter' = IF a \in DOMAIN accounts
                       THEN [meter EXCEPT ![a] = Refunded(@)]
                       ELSE meter
    /\ Goto(r, "idle")
    /\ UNCHANGED <<keys, inUse, clock, keyMeter, fair>>

\* TryAcquire succeeds.
TryAcquire(r) ==
    /\ req[r].gate = "slot"
    /\ SlotFree(req[r].account)
    /\ AcquireSlot(req[r].account)
    /\ Goto(r, "running")
    /\ UNCHANGED <<accounts, keys, clock, meter, keyMeter, fair>>

\* TryAcquire refuses; the account's token stays spent.
RefuseSlot(r) ==
    /\ req[r].gate = "slot"
    /\ ~SlotFree(req[r].account)
    /\ Goto(r, "idle")
    /\ UNCHANGED <<accounts, keys, inUse, clock, meter, keyMeter, fair>>

\* next.ServeHTTP returned or panicked: the deferred release runs.
Finish(r) ==
    /\ req[r].gate = "running"
    /\ IF req[r].account # NoAccount /\ ~req[r].get
       THEN Release(req[r].account)
       ELSE UNCHANGED inUse
    /\ Goto(r, "idle")
    /\ UNCHANGED <<accounts, keys, clock, meter, keyMeter, fair>>

\* The ticker of the account limiter.
PruneAccounts ==
    /\ accounts' = prune(accounts, clock)
    /\ UNCHANGED <<keys, inUse, req, clock, meter, keyMeter, fair>>

\* The ticker of the key limiter.
PruneKeys ==
    /\ keys' = prune(keys, clock)
    /\ UNCHANGED <<accounts, inUse, req, clock, meter, keyMeter, fair>>

Tick ==
    /\ clock < MaxClock
    /\ clock' = clock + 1
    /\ UNCHANGED <<accounts, keys, inUse, req, meter, keyMeter, fair>>

Next ==
    \/ \E r \in Requests, a \in Accounts \cup {NoAccount}, k \in Keys, get \in BOOLEAN :
          Arrive(r, a, k, get)
    \/ \E r \in Requests, o \in Overrides \cup {NoOverride} : AccountGate(r, o)
    \/ \E r \in Requests, limit \in KeyLimits : KeyGate(r, limit)
    \/ \E r \in Requests : Refund(r)
    \/ \E r \in Requests : TryAcquire(r)
    \/ \E r \in Requests : RefuseSlot(r)
    \/ \E r \in Requests : Finish(r)
    \/ PruneAccounts
    \/ PruneKeys
    \/ Tick

Spec == Init /\ [][Next]_vars

----------------------------------------------------------------------------
(***************************************************************************)
(* Properties                                                              *)
(***************************************************************************)

Bucket == [tokens : Nat, capacity : 1..MaxLimit, lastRefill : Nat, lastAccess : Nat]

Meter == [debt : Nat, at : Nat]

\* The limiters are well typed: no bucket is overdrawn or above its capacity,
\* whatever refills, refunds and changes of the limit came in between.
TypeOK ==
    /\ clock \in Nat
    /\ DOMAIN accounts \subseteq Accounts
    /\ accounts \in [DOMAIN accounts -> Bucket]
    /\ \A a \in DOMAIN accounts : accounts[a].tokens <= accounts[a].capacity * Minute
    /\ DOMAIN keys \subseteq Keys
    /\ keys \in [DOMAIN keys -> Bucket]
    /\ \A k \in DOMAIN keys : keys[k].tokens <= keys[k].capacity * Minute
    /\ DOMAIN inUse \subseteq Accounts
    /\ inUse \in [DOMAIN inUse -> Nat \ {0}]
    /\ req \in [Requests -> Request]
    /\ \A r \in Requests : req[r].gate \in {"account", "refund", "slot"}
                             => req[r].account # NoAccount
    /\ \A r \in Requests : req[r].gate = "slot" => ~req[r].get
    /\ meter \in [Accounts -> Meter]
    /\ keyMeter \in [Keys -> Meter]
    /\ fair \in [Accounts -> Int]

\* The rate is kept over every window of time: in t minutes a key lets at most
\* MaxLimit * (1 + t) requests through, and an account that many more than the
\* refunds made in that window.  That a bucket is pruned and comes back full, or
\* that its limit changes, does not help.
RateKept ==
    /\ \A a \in Accounts : meter[a].debt <= MaxLimit * Minute
    /\ \A k \in Keys : keyMeter[k].debt <= MaxLimit * Minute

\* The requests of an account that took a token and were not yet judged by the
\* key's gate, or not yet refunded.
Undecided(a) == {r \in Requests : /\ req[r].account = a
                                  /\ req[r].gate \in {"key", "refund"}}

\* A refusal by the shared key costs the account nothing: a bucket never has
\* less, counting the tokens of requests still undecided, than if the requests
\* its key refused had never come.
NoBudgetBurned ==
    \A a \in DOMAIN accounts :
        accounts[a].tokens + Cardinality(Undecided(a)) * Minute >= fair[a]

\* The requests of an account that hold a slot.
Streams(a) == {r \in Requests : /\ req[r].account = a
                                /\ req[r].gate = "running"
                                /\ ~req[r].get}

\* The slots in use are the requests in progress, for every order of acquires
\* and releases, and an account never has more than its class allows.  An idle
\* account has no entry.
SlotsMatchStreams ==
    \A a \in Accounts :
        /\ SlotsOf(a) = Cardinality(Streams(a))
        /\ SlotsOf(a) <= maxConcurrent(a)
=============================================================================
