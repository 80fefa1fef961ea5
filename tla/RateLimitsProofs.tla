-------------------------- MODULE RateLimitsProofs --------------------------
(***************************************************************************)
(* Theorems about RateLimits, for any requests, accounts, keys and limits. *)
(***************************************************************************)
EXTENDS RateLimits, FiniteSetTheorems, TLAPS

(***************************************************************************)
(* Arithmetic of the buckets                                               *)
(***************************************************************************)

\* Products of naturals are natural and grow with each factor.
LEMMA ProductType ==
    ASSUME NEW m \in Nat, NEW n \in Nat
    PROVE  m * n \in Nat
  OBVIOUS

\* Multiplication by a natural number is monotone.
LEMMA ProductMonotone ==
    ASSUME NEW m \in Nat, NEW n \in Nat, NEW p \in Nat, m <= n
    PROVE  m * p <= n * p /\ p * m <= p * n
  <1>1. PICK d \in Nat : n = m + d
    <2>1. n - m \in Nat /\ n = m + (n - m)
      OBVIOUS
    <2> QED BY <2>1
  <1>2. n * p = m * p + d * p
    BY <1>1
  <1>3. p * n = p * m + p * d
    BY <1>1
  <1> QED
    BY <1>2, <1>3, ProductType

\* What of a refill is needed: between zero and the capacity, at most the old
\* tokens and what the elapsed time brought, and full after a minute.
LEMMA RefillAmount ==
    ASSUME NEW t \in Nat, NEW e \in Nat, NEW l \in 1..MaxLimit
    PROVE  /\ Least(l * Minute, t + e * l) \in Nat
           /\ Least(l * Minute, t + e * l) <= l * Minute
           /\ Least(l * Minute, t + e * l) <= t + e * MaxLimit
           /\ l * Minute \in Nat
           /\ l * Minute >= Minute
           /\ l * Minute <= MaxLimit * Minute
  <1>1. l \in Nat /\ 1 <= l /\ l <= MaxLimit /\ MaxLimit \in Nat /\ Minute \in Nat
    BY LimitsAssumption, ClockAssumption
  <1>2. l * Minute \in Nat /\ e * l \in Nat /\ e * MaxLimit \in Nat
        /\ MaxLimit * Minute \in Nat
    BY <1>1, ProductType
  <1>3. e * l <= e * MaxLimit /\ l * Minute <= MaxLimit * Minute
    BY <1>1, ProductMonotone
  <1>4. l * Minute >= 1 * Minute /\ 1 * Minute = Minute
    BY <1>1, ProductMonotone
  <1>5. Minute \in Nat
    BY <1>1
  <1> QED
    BY <1>2, <1>3, <1>4, <1>5 DEF Least

----------------------------------------------------------------------------
(***************************************************************************)
(* One bucket and its meter                                                *)
(***************************************************************************)

\* A meter and a bucket agree: the meter was updated when the bucket was
\* refilled and leaves room for the bucket's tokens.  An id without a bucket
\* owes nothing, or has had a minute to pay it off.
Covered(buckets, id, m, now) ==
    /\ m \in Meter
    /\ m.at <= now
    /\ IF id \in DOMAIN buckets
       THEN /\ buckets[id].lastRefill = m.at
            /\ buckets[id].lastAccess = m.at
            /\ m.debt + buckets[id].tokens <= MaxLimit * Minute
       ELSE \/ m.debt = 0
            \/ /\ m.debt <= MaxLimit * Minute
               /\ m.at + Minute <= now

\* The bucket Allow looks at fits the leaked meter.
LEMMA CurrentCovered ==
    ASSUME NEW buckets, buckets \in [DOMAIN buckets -> Bucket],
           NEW id, NEW m, NEW now \in Nat, NEW l \in 1..MaxLimit,
           Covered(buckets, id, m, now)
    PROVE  LET c == Current(buckets, id, l, now)
               n == Leak(m, now)
           IN  /\ c = [tokens |-> c.tokens, capacity |-> l,
                       lastRefill |-> now, lastAccess |-> now]
               /\ c.tokens \in Nat
               /\ c.tokens <= l * Minute
               /\ n = [debt |-> n.debt, at |-> now]
               /\ n.debt \in Nat
               /\ n.debt + c.tokens <= MaxLimit * Minute
  <1> DEFINE c == Current(buckets, id, l, now)
             n == Leak(m, now)
             e == now - m.at
  <1>1. MaxLimit \in Nat /\ Minute \in Nat /\ e \in Nat /\ m.debt \in Nat /\ m.at \in Nat
    BY LimitsAssumption, ClockAssumption DEF Covered, Meter
  <1>2. e * MaxLimit \in Nat
    BY <1>1, ProductType
  <1>3. /\ n = [debt |-> Most(0, m.debt - e * MaxLimit), at |-> now]
        /\ n.debt = Most(0, m.debt - e * MaxLimit)
    BY DEF Leak
  <1>4. n.debt \in Nat /\ (n.debt = 0 \/ n.debt = m.debt - e * MaxLimit)
    BY <1>1, <1>2, <1>3 DEF Most
  <1>5. CASE id \in DOMAIN buckets
    <2> DEFINE t == buckets[id].tokens
    <2>1. t \in Nat /\ buckets[id].lastRefill = m.at
          /\ m.debt + t <= MaxLimit * Minute
      BY <1>5 DEF Bucket, Covered
    <2>2. c = [tokens |-> Least(l * Minute, t + e * l), capacity |-> l,
               lastRefill |-> now, lastAccess |-> now]
      BY <1>5, <2>1 DEF Current, Refill
    <2>3. /\ c.tokens \in Nat /\ c.tokens <= l * Minute
          /\ c.tokens <= t + e * MaxLimit
          /\ l * Minute <= MaxLimit * Minute
          /\ l * Minute \in Nat
      <3> DEFINE f == Least(l * Minute, t + e * l)
      <3>1. c.tokens = f
        BY <2>2
      <3>2. /\ f \in Nat /\ f <= l * Minute /\ f <= t + e * MaxLimit
            /\ l * Minute <= MaxLimit * Minute /\ l * Minute \in Nat
        <4> HIDE DEF e, t
        <4> QED BY <1>1, <2>1, RefillAmount
      <3> HIDE DEF c, f
      <3> QED BY <3>1, <3>2
    <2>4. MaxLimit * Minute \in Nat
      BY <1>1, ProductType
    <2>5. n.debt + c.tokens <= MaxLimit * Minute
      <3> HIDE DEF c, n, e, t
      <3> QED
        BY <1>1, <1>2, <1>4, <2>1, <2>3, <2>4
    <2> QED
      BY <1>3, <1>4, <2>2, <2>3, <2>5
  <1>6. CASE id \notin DOMAIN buckets
    <2>1. c = [tokens |-> l * Minute, capacity |-> l,
               lastRefill |-> now, lastAccess |-> now]
      BY <1>6 DEF Current
    <2>2. l * Minute \in Nat /\ l * Minute <= MaxLimit * Minute
      BY <1>1, RefillAmount
    <2>3. n.debt = 0
      <3>1. CASE m.debt = 0
        BY <1>1, <1>2, <1>4, <3>1
      <3>2. CASE m.debt <= MaxLimit * Minute /\ m.at + Minute <= now
        <4>1. Minute <= e
          BY <1>1, <3>2
        <4>2. MaxLimit * Minute = Minute * MaxLimit /\ Minute * MaxLimit <= e * MaxLimit
          BY <1>1, <4>1, ProductMonotone
        <4>3. MaxLimit * Minute \in Nat
          BY <1>1, ProductType
        <4> HIDE DEF n, e
        <4> QED
          BY <1>1, <1>2, <1>4, <3>2, <4>2, <4>3
      <3> QED
        BY <1>6, <3>1, <3>2 DEF Covered
    <2> QED
      BY <1>3, <1>4, <2>1, <2>2, <2>3
  <1> QED
    BY <1>5, <1>6

\* A limiter's buckets, none of them above its capacity.
Buckets(buckets, ids) ==
    /\ DOMAIN buckets \subseteq ids
    /\ buckets \in [DOMAIN buckets -> Bucket]
    /\ \A i \in DOMAIN buckets : buckets[i].tokens <= buckets[i].capacity * Minute

\* Allow keeps a limiter well typed and the meter covered, and touches only the
\* bucket of its id.
LEMMA AllowCovered ==
    ASSUME NEW ids, NEW buckets, Buckets(buckets, ids), NEW id \in ids,
           NEW m, NEW now \in Nat, NEW l \in 1..MaxLimit,
           Covered(buckets, id, m, now)
    PROVE  LET after   == Allow(buckets, id, l, now)
               c       == Current(buckets, id, l, now)
               allowed == Allowed(c)
           IN  /\ Buckets(after, ids)
               /\ DOMAIN after = DOMAIN buckets \cup {id}
               /\ \A i \in DOMAIN buckets : i # id => after[i] = buckets[i]
               /\ after[id].capacity = l
               /\ after[id].tokens = IF allowed THEN c.tokens - Minute ELSE c.tokens
               /\ Covered(after, id, Charge(m, now, allowed), now)
  <1> DEFINE after   == Allow(buckets, id, l, now)
             c       == Current(buckets, id, l, now)
             n       == Leak(m, now)
             allowed == Allowed(c)
             b       == IF allowed THEN Take(c) ELSE c
             charged == Charge(m, now, allowed)
  <1>0. MaxLimit \in Nat /\ Minute \in Nat /\ l \in Nat
    BY LimitsAssumption, ClockAssumption
  <1>1. /\ c = [tokens |-> c.tokens, capacity |-> l,
                lastRefill |-> now, lastAccess |-> now]
        /\ c.tokens \in Nat
        /\ c.tokens <= l * Minute
        /\ n = [debt |-> n.debt, at |-> now]
        /\ n.debt \in Nat
        /\ n.debt + c.tokens <= MaxLimit * Minute
    BY CurrentCovered DEF Buckets
  <1>2. l * Minute \in Nat /\ MaxLimit * Minute \in Nat
    BY <1>0, ProductType
  <1>3. after = Put(buckets, id, b)
    BY DEF Allow
  <1>4. /\ DOMAIN after = DOMAIN buckets \cup {id}
        /\ after[id] = b
        /\ \A i \in DOMAIN buckets : i # id => after[i] = buckets[i]
    <2> HIDE DEF after, b
    <2> QED BY <1>3 DEF Put
  <1>5. CASE allowed
    <2>1. b = [tokens |-> c.tokens - Minute, capacity |-> l,
               lastRefill |-> now, lastAccess |-> now]
      <3>1. b = Take(c)
        BY <1>5
      <3> HIDE DEF b, c
      <3> QED BY <1>1, <3>1 DEF Take
    <2>2. charged = [debt |-> n.debt + Minute, at |-> now]
      <3>1. charged = [n EXCEPT !.debt = @ + Minute]
        BY <1>5 DEF Charge
      <3> HIDE DEF charged, n
      <3> QED BY <1>1, <3>1
    <2>3. c.tokens >= Minute
      BY <1>5 DEF Allowed
    <2>4. /\ c.tokens - Minute \in Nat /\ c.tokens - Minute <= l * Minute
          /\ n.debt + Minute \in Nat
          /\ (n.debt + Minute) + (c.tokens - Minute) <= MaxLimit * Minute
      <3> HIDE DEF c, n
      <3> QED BY <1>0, <1>1, <1>2, <2>3
    <2> HIDE DEF b, charged, c, n, after
    <2>5. b \in Bucket /\ b.tokens <= b.capacity * Minute /\ b.capacity = l
          /\ b.tokens = c.tokens - Minute
      BY <2>1, <2>4 DEF Bucket
    <2>6. Covered(after, id, charged, now)
      BY <1>4, <2>1, <2>2, <2>4 DEF Covered, Meter
    <2>7. Buckets(after, ids)
      BY <1>3, <1>4, <2>5 DEF Buckets, Put
    <2> QED
      BY <1>4, <1>5, <2>5, <2>6, <2>7 DEF after, charged, c
  <1>6. CASE ~allowed
    <2>1. b = c /\ charged = n
      BY <1>6 DEF Charge
    <2> HIDE DEF b, charged, c, n, after
    <2>5. b \in Bucket /\ b.tokens <= b.capacity * Minute /\ b.capacity = l
          /\ b.tokens = c.tokens
      BY <1>1, <2>1 DEF Bucket
    <2>6. Covered(after, id, charged, now)
      BY <1>1, <1>4, <2>1 DEF Covered, Meter
    <2>7. Buckets(after, ids)
      BY <1>3, <1>4, <2>5 DEF Buckets, Put
    <2> QED
      BY <1>4, <1>6, <2>5, <2>6, <2>7 DEF after, charged, c
  <1> QED
    BY <1>5, <1>6

\* Return keeps a limiter well typed, never lowers a bucket, and keeps the
\* meter covered when a refund is counted.
LEMMA ReturnCovered ==
    ASSUME NEW ids, NEW buckets, Buckets(buckets, ids), NEW id \in DOMAIN buckets,
           NEW m, NEW now \in Nat, Covered(buckets, id, m, now)
    PROVE  LET after == Return(buckets, id)
               t     == buckets[id].tokens
               cap   == buckets[id].capacity * Minute
           IN  /\ Buckets(after, ids)
               /\ DOMAIN after = DOMAIN buckets
               /\ \A i \in DOMAIN buckets : i # id => after[i] = buckets[i]
               /\ after[id].capacity = buckets[id].capacity
               /\ after[id].tokens = IF cap < t + Minute THEN cap ELSE t + Minute
               /\ Covered(after, id, Refunded(m), now)
  <1> DEFINE after == Return(buckets, id)
             old   == buckets[id]
             t     == old.tokens
             cap   == old.capacity * Minute
             new   == Least(cap, t + Minute)
             r     == Refunded(m)
  <1>0. /\ MaxLimit \in Nat /\ Minute \in Nat /\ old.capacity \in 1..MaxLimit
        /\ old \in Bucket /\ t \in Nat /\ t <= cap /\ m \in Meter /\ m.debt \in Nat
        /\ m.debt + t <= MaxLimit * Minute
    BY LimitsAssumption, ClockAssumption DEF Buckets, Bucket, Covered, Meter
  <1>1. cap \in Nat /\ cap <= MaxLimit * Minute /\ MaxLimit * Minute \in Nat
    <2>1. old.capacity \in Nat /\ old.capacity <= MaxLimit
      BY <1>0
    <2> QED BY <1>0, <2>1, ProductType, ProductMonotone
  <1>2. new \in Nat /\ new <= cap /\ new <= t + Minute
        /\ new = IF cap < t + Minute THEN cap ELSE t + Minute
    <2> HIDE DEF cap, t
    <2> QED BY <1>0, <1>1 DEF Least
  <1>3. after = [buckets EXCEPT ![id].tokens = new]
    BY DEF Return
  <1>4. /\ DOMAIN after = DOMAIN buckets
        /\ \A i \in DOMAIN buckets : i # id => after[i] = buckets[i]
        /\ after[id] = [old EXCEPT !.tokens = new]
    <2> HIDE DEF new, after
    <2> QED BY <1>3 DEF Buckets
  <1>5. after[id] \in Bucket /\ after[id].tokens = new /\ after[id].capacity = old.capacity
        /\ after[id].lastRefill = old.lastRefill /\ after[id].lastAccess = old.lastAccess
    <2> HIDE DEF new, after, old
    <2> QED BY <1>0, <1>2, <1>4 DEF Bucket
  <1>6. r \in Meter /\ r.at = m.at /\ r.debt \in Nat
        /\ (r.debt = 0 \/ r.debt = m.debt - Minute)
    BY <1>0 DEF Refunded, Most, Meter
  <1>7. r.debt + new <= MaxLimit * Minute
    <2> HIDE DEF r, new, t, cap
    <2> QED BY <1>0, <1>1, <1>2, <1>6
  <1> HIDE DEF after, r, new
  <1>8. Covered(after, id, r, now)
    BY <1>4, <1>5, <1>6, <1>7 DEF Covered
  <1>9. Buckets(after, ids)
    <2>1. \A i \in DOMAIN after : after[i] \in Bucket
                                  /\ after[i].tokens <= after[i].capacity * Minute
      BY <1>2, <1>4, <1>5 DEF Buckets
    <2>2. after = [i \in DOMAIN after |-> after[i]]
      BY <1>3 DEF Buckets
    <2> QED
      BY <1>4, <2>1, <2>2 DEF Buckets
  <1> QED
    BY <1>2, <1>4, <1>5, <1>8, <1>9 DEF after, r

\* prune deletes buckets only, and those it deletes had a minute to fill up.
LEMMA PruneCovered ==
    ASSUME NEW ids, NEW buckets, Buckets(buckets, ids), NEW now \in Nat
    PROVE  /\ Buckets(prune(buckets, now), ids)
           /\ DOMAIN prune(buckets, now) \subseteq DOMAIN buckets
           /\ \A i \in DOMAIN prune(buckets, now) : prune(buckets, now)[i] = buckets[i]
           /\ \A i \in ids, m \in Meter :
                 Covered(buckets, i, m, now) => Covered(prune(buckets, now), i, m, now)
  <1>1. /\ Buckets(prune(buckets, now), ids)
        /\ DOMAIN prune(buckets, now) = DOMAIN buckets \ Idle(buckets, now)
        /\ \A i \in DOMAIN prune(buckets, now) : prune(buckets, now)[i] = buckets[i]
    BY DEF Buckets, prune
  <1>2. ASSUME NEW i \in ids, NEW m \in Meter, Covered(buckets, i, m, now)
        PROVE  Covered(prune(buckets, now), i, m, now)
    <2>1. CASE i \notin Idle(buckets, now)
      BY <1>1, <1>2, <2>1 DEF Covered
    <2>2. CASE i \in Idle(buckets, now)
      <3>1. i \in DOMAIN buckets /\ buckets[i].lastAccess < now - idleCutoff
        BY <2>2 DEF Idle
      <3>2. m.at + Minute <= now
        BY <1>2, <3>1, ClockAssumption DEF Covered, Meter
      <3>3. m.debt <= MaxLimit * Minute
        <4>1. MaxLimit * Minute \in Nat
          BY LimitsAssumption, ClockAssumption, ProductType
        <4>2. buckets[i].tokens \in Nat /\ m.debt \in Nat
              /\ m.debt + buckets[i].tokens <= MaxLimit * Minute
          BY <1>2, <3>1 DEF Covered, Meter, Buckets, Bucket
        <4> QED BY <4>1, <4>2
      <3> QED
        BY <1>1, <1>2, <2>2, <3>2, <3>3 DEF Covered
    <2> QED
      BY <2>1, <2>2
  <1> QED
    BY <1>1, <1>2

----------------------------------------------------------------------------
(***************************************************************************)
(* The rate limits                                                         *)
(***************************************************************************)

\* Every meter covers its bucket.
Meters ==
    /\ \A a \in Accounts : Covered(accounts, a, meter[a], clock)
    /\ \A k \in Keys : Covered(keys, k, keyMeter[k], clock)

\* The effective limit of an account is one the limiter may be given.
LEMMA EffectiveLimitType ==
    ASSUME NEW o \in Overrides \cup {NoOverride}, NEW a
    PROVE  EffectiveLimit(o, a) \in 1..MaxLimit
  BY LimitsAssumption DEF EffectiveLimit

\* A later clock, and a change to other buckets, keep a meter covered.
LEMMA CoveredLater ==
    ASSUME NEW buckets, NEW id, NEW m, NEW now \in Nat, NEW later \in Nat,
           now <= later, Covered(buckets, id, m, now)
    PROVE  Covered(buckets, id, m, later)
  BY ClockAssumption DEF Covered, Meter

\* A bucket that did not change still covers what it let through.
LEMMA CoveredElsewhere ==
    ASSUME NEW buckets, NEW after, NEW id, NEW m, NEW now,
           id \in DOMAIN buckets <=> id \in DOMAIN after,
           id \in DOMAIN buckets => after[id] = buckets[id],
           Covered(buckets, id, m, now)
    PROVE  Covered(after, id, m, now)
  BY DEF Covered

\* TypeOK in terms of Buckets.
LEMMA TypeOKParts ==
    TypeOK <=> /\ clock \in Nat
               /\ Buckets(accounts, Accounts)
               /\ Buckets(keys, Keys)
               /\ DOMAIN inUse \subseteq Accounts
               /\ inUse \in [DOMAIN inUse -> Nat \ {0}]
               /\ req \in [Requests -> Request]
               /\ \A r \in Requests : req[r].gate \in {"account", "refund", "slot"}
                                        => req[r].account # NoAccount
               /\ \A r \in Requests : req[r].gate = "slot" => ~req[r].get
               /\ meter \in [Accounts -> Meter]
               /\ keyMeter \in [Keys -> Meter]
               /\ fair \in [Accounts -> Int]
  BY DEF TypeOK, Buckets

\* The type invariant of the next state, part by part.
LEMMA TypeOKPartsPrime ==
    TypeOK' <=> /\ clock' \in Nat
                /\ Buckets(accounts', Accounts)
                /\ Buckets(keys', Keys)
                /\ DOMAIN inUse' \subseteq Accounts
                /\ inUse' \in [DOMAIN inUse' -> Nat \ {0}]
                /\ req' \in [Requests -> Request]
                /\ \A r \in Requests : req'[r].gate \in {"account", "refund", "slot"}
                                         => req'[r].account # NoAccount
                /\ \A r \in Requests : req'[r].gate = "slot" => ~req'[r].get
                /\ meter' \in [Accounts -> Meter]
                /\ keyMeter' \in [Keys -> Meter]
                /\ fair' \in [Accounts -> Int]
  BY DEF TypeOK, Buckets

\* What AccountGate does to the account's bucket, its meter and its history.
LEMMA AccountGateEffect ==
    ASSUME TypeOK, Meters, NEW r \in Requests, NEW o \in Overrides \cup {NoOverride},
           AccountGate(r, o)
    PROVE  LET a       == req[r].account
               limit   == EffectiveLimit(o, a)
               allowed == Allowed(Current(accounts, a, limit, clock))
           IN  /\ a \in Accounts
               /\ limit \in 1..MaxLimit
               /\ Buckets(accounts', Accounts)
               /\ DOMAIN accounts' = DOMAIN accounts \cup {a}
               /\ \A i \in DOMAIN accounts : i # a => accounts'[i] = accounts[i]
               /\ accounts'[a].capacity = limit
               /\ accounts'[a].tokens =
                     Current(accounts, a, limit, clock).tokens
                       - (IF allowed THEN Minute ELSE 0)
               /\ Covered(accounts', a, meter'[a], clock)
               /\ \A i \in Accounts : i # a => meter'[i] = meter[i]
               /\ meter' \in [Accounts -> Meter]
               /\ req' = [req EXCEPT ![r].gate = IF allowed THEN "key" ELSE "idle"]
  <1> DEFINE a       == req[r].account
             limit   == EffectiveLimit(o, a)
             allowed == Allowed(Current(accounts, a, limit, clock))
  <1>1. a \in Accounts /\ limit \in 1..MaxLimit /\ clock \in Nat
    BY EffectiveLimitType DEF AccountGate, TypeOK, Request
  <1>2. Buckets(accounts, Accounts) /\ Covered(accounts, a, meter[a], clock)
    BY <1>1, TypeOKParts DEF Meters
  <1>3. /\ accounts' = Allow(accounts, a, limit, clock)
        /\ meter' = [meter EXCEPT ![a] = Charge(meter[a], clock, allowed)]
        /\ req' = [req EXCEPT ![r].gate = IF allowed THEN "key" ELSE "idle"]
    BY DEF AccountGate, Goto
  <1>4. /\ Buckets(accounts', Accounts)
        /\ DOMAIN accounts' = DOMAIN accounts \cup {a}
        /\ \A i \in DOMAIN accounts : i # a => accounts'[i] = accounts[i]
        /\ accounts'[a].capacity = limit
        /\ accounts'[a].tokens =
              IF allowed THEN Current(accounts, a, limit, clock).tokens - Minute
                         ELSE Current(accounts, a, limit, clock).tokens
        /\ Covered(accounts', a, Charge(meter[a], clock, allowed), clock)
    <2> HIDE DEF a, limit
    <2> QED BY <1>1, <1>2, <1>3, AllowCovered
  <1>5. /\ meter'[a] = Charge(meter[a], clock, allowed)
        /\ \A i \in Accounts : i # a => meter'[i] = meter[i]
        /\ meter' \in [Accounts -> Meter]
    <2>1. Charge(meter[a], clock, allowed) \in Meter
      BY <1>4 DEF Covered
    <2> HIDE DEF a, allowed
    <2> QED BY <1>1, <1>3, <2>1 DEF TypeOK
  <1>6. Current(accounts, a, limit, clock).tokens \in Nat /\ Minute \in Nat
    <2> HIDE DEF a, limit
    <2> QED BY <1>1, <1>2, CurrentCovered, ClockAssumption DEF Buckets
  <1> HIDE DEF a, limit, allowed
  <1>7. accounts'[a].tokens = Current(accounts, a, limit, clock).tokens
                                - (IF allowed THEN Minute ELSE 0)
    BY <1>4, <1>6
  <1> QED
    BY <1>1, <1>3, <1>4, <1>5, <1>7 DEF a, limit, allowed

\* What KeyGate does to the key's bucket and meter.
LEMMA KeyGateEffect ==
    ASSUME TypeOK, Meters, NEW r \in Requests, NEW limit \in KeyLimits,
           KeyGate(r, limit)
    PROVE  LET k == req[r].key
           IN  /\ k \in Keys
               /\ Buckets(keys', Keys)
               /\ DOMAIN keys' = DOMAIN keys \cup {k}
               /\ \A i \in DOMAIN keys : i # k => keys'[i] = keys[i]
               /\ Covered(keys', k, keyMeter'[k], clock)
               /\ \A i \in Keys : i # k => keyMeter'[i] = keyMeter[i]
               /\ keyMeter' \in [Keys -> Meter]
  <1> DEFINE k       == req[r].key
             allowed == Allowed(Current(keys, k, limit, clock))
  <1>1. k \in Keys /\ limit \in 1..MaxLimit /\ clock \in Nat
    BY LimitsAssumption DEF KeyGate, TypeOK, Request
  <1>2. Buckets(keys, Keys) /\ Covered(keys, k, keyMeter[k], clock)
    BY <1>1, TypeOKParts DEF Meters
  <1>3. /\ keys' = Allow(keys, k, limit, clock)
        /\ keyMeter' = [keyMeter EXCEPT ![k] = Charge(keyMeter[k], clock, allowed)]
    BY DEF KeyGate
  <1>4. /\ Buckets(keys', Keys)
        /\ DOMAIN keys' = DOMAIN keys \cup {k}
        /\ \A i \in DOMAIN keys : i # k => keys'[i] = keys[i]
        /\ Covered(keys', k, Charge(keyMeter[k], clock, allowed), clock)
    <2> HIDE DEF k
    <2> DEFINE after == Allow(keys, k, limit, clock)
    <2>1. /\ Buckets(after, Keys)
          /\ DOMAIN after = DOMAIN keys \cup {k}
          /\ \A i \in DOMAIN keys : i # k => after[i] = keys[i]
          /\ Covered(after, k, Charge(keyMeter[k], clock, allowed), clock)
      <3> DEFINE m == keyMeter[k]
                 c == Current(keys, k, limit, clock)
      <3>1. Covered(keys, k, m, clock)
        BY <1>2
      <3> HIDE DEF m
      <3>2. /\ Buckets(after, Keys)
            /\ DOMAIN after = DOMAIN keys \cup {k}
            /\ \A i \in DOMAIN keys : i # k => after[i] = keys[i]
            /\ after[k].capacity = limit
            /\ after[k].tokens = IF allowed THEN c.tokens - Minute ELSE c.tokens
            /\ Covered(after, k, Charge(m, clock, allowed), clock)
        BY <1>1, <1>2, <3>1, AllowCovered, Zenon
      <3> QED BY <3>2 DEF m
    <2> HIDE DEF after, allowed
    <2>2. keys' = after
      BY <1>3 DEF after
    <2> QED BY <2>1, <2>2
  <1>5. /\ keyMeter'[k] = Charge(keyMeter[k], clock, allowed)
        /\ \A i \in Keys : i # k => keyMeter'[i] = keyMeter[i]
        /\ keyMeter' \in [Keys -> Meter]
    <2>1. Charge(keyMeter[k], clock, allowed) \in Meter
      BY <1>4 DEF Covered
    <2> HIDE DEF k, allowed
    <2> QED BY <1>1, <1>3, <2>1 DEF TypeOK
  <1> QED
    BY <1>1, <1>4, <1>5

\* Requests only move between gates: what a step of one request keeps.
LEMMA GotoType ==
    ASSUME TypeOK, NEW r \in Requests, NEW g \in Gates, Goto(r, g),
           g \in {"account", "refund", "slot"} => req[r].account # NoAccount,
           g = "slot" => ~req[r].get
    PROVE  /\ req' \in [Requests -> Request]
           /\ \A q \in Requests : req'[q].gate \in {"account", "refund", "slot"}
                                    => req'[q].account # NoAccount
           /\ \A q \in Requests : req'[q].gate = "slot" => ~req'[q].get
  <1>1. /\ req' = [req EXCEPT ![r].gate = g]
        /\ req \in [Requests -> Request]
    BY DEF Goto, TypeOK
  <1>2. \A q \in Requests :
           /\ req'[q] \in Request
           /\ req'[q].gate = IF q = r THEN g ELSE req[q].gate
           /\ req'[q].account = req[q].account
           /\ req'[q].get = req[q].get
    BY <1>1 DEF Request
  <1> QED
    BY <1>1, <1>2 DEF TypeOK

\* The limiters are well typed and every meter covers its bucket, in every
\* reachable state.
LEMMA TypeAndMeters == Spec => [](TypeOK /\ Meters)
<1>1. Init => TypeOK /\ Meters
  <2> SUFFICES ASSUME Init
               PROVE  TypeOK /\ Meters
    OBVIOUS
  <2>1. req \in [Requests -> Request] /\ \A r \in Requests : req[r].gate = "idle"
    <3> DEFINE Fresh == {[gate |-> "idle", account |-> NoAccount, key |-> k,
                          get |-> FALSE] : k \in Keys}
    <3>1. ASSUME NEW f \in Fresh
          PROVE  f \in Request /\ f.gate = "idle"
      <4>1. PICK k \in Keys : f = [gate |-> "idle", account |-> NoAccount,
                                    key |-> k, get |-> FALSE]
        OBVIOUS
      <4> QED BY <4>1 DEF Request, Gates
    <3>2. req \in [Requests -> Fresh]
      BY DEF Init
    <3> HIDE DEF Fresh
    <3> QED BY <3>1, <3>2
  <2>2. TypeOK
    <3>1. meter \in [Accounts -> Meter] /\ keyMeter \in [Keys -> Meter]
          /\ fair \in [Accounts -> Int]
      BY DEF Init, Meter
    <3>2. /\ DOMAIN accounts = {} /\ accounts \in [{} -> Bucket]
          /\ DOMAIN keys = {} /\ keys \in [{} -> Bucket]
          /\ DOMAIN inUse = {} /\ inUse \in [{} -> Nat \ {0}]
          /\ clock = 0
      BY DEF Init
    <3> QED
      BY <2>1, <3>1, <3>2 DEF TypeOK
  <2>3. Meters
    BY DEF Init, Meters, Covered, Meter
  <2> QED
    BY <2>2, <2>3
<1>2. TypeOK /\ Meters /\ [Next]_vars => TypeOK' /\ Meters'
  <2> SUFFICES ASSUME TypeOK, Meters, [Next]_vars
               PROVE  TypeOK' /\ Meters'
    OBVIOUS
  <2> USE TypeOKParts
  <2>0. clock \in Nat /\ Buckets(accounts, Accounts) /\ Buckets(keys, Keys)
    OBVIOUS
  <2>1. ASSUME NEW r \in Requests, NEW a \in Accounts \cup {NoAccount},
               NEW k \in Keys, NEW get \in BOOLEAN, Arrive(r, a, k, get)
        PROVE  TypeOK' /\ Meters'
    <3>1. req' \in [Requests -> Request]
      BY <2>1 DEF Arrive, Request, Gates
    <3>2. \A q \in Requests : q # r => req'[q] = req[q]
      BY <2>1 DEF Arrive
    <3>3. req'[r] = [gate |-> IF a = NoAccount THEN "key" ELSE "account",
                     account |-> a, key |-> k, get |-> get]
      BY <2>1 DEF Arrive
    <3>4. TypeOK'
      BY <2>1, <3>1, <3>2, <3>3, TypeOKPartsPrime DEF Arrive
    <3> QED
      BY <2>1, <3>4 DEF Arrive, Meters
  <2>2. ASSUME NEW r \in Requests, NEW o \in Overrides \cup {NoOverride},
               AccountGate(r, o)
        PROVE  TypeOK' /\ Meters'
    <3> DEFINE a       == req[r].account
               limit   == EffectiveLimit(o, a)
               allowed == Allowed(Current(accounts, a, limit, clock))
    <3>1. /\ a \in Accounts /\ limit \in 1..MaxLimit
          /\ Buckets(accounts', Accounts)
          /\ DOMAIN accounts' = DOMAIN accounts \cup {a}
          /\ \A i \in DOMAIN accounts : i # a => accounts'[i] = accounts[i]
          /\ Covered(accounts', a, meter'[a], clock)
          /\ \A i \in Accounts : i # a => meter'[i] = meter[i]
          /\ meter' \in [Accounts -> Meter]
      BY <2>2, AccountGateEffect
    <3>2. /\ UNCHANGED <<keys, inUse, clock, keyMeter>>
          /\ Goto(r, IF allowed THEN "key" ELSE "idle")
      BY <2>2 DEF AccountGate
    <3>3. fair' \in [Accounts -> Int]
      <4>1. fair' = [fair EXCEPT ![a] =
                       IF a \in DOMAIN accounts
                       THEN Least(limit * Minute,
                                  fair[a] + (clock - accounts[a].lastRefill) * limit)
                       ELSE limit * Minute]
        BY <2>2 DEF AccountGate
      <4>2. limit * Minute \in Int
        BY <3>1, ClockAssumption
      <4>3. a \in DOMAIN accounts =>
               fair[a] + (clock - accounts[a].lastRefill) * limit \in Int
        BY <3>1 DEF TypeOK, Bucket
      <4> HIDE DEF a, limit
      <4> QED BY <3>1, <4>1, <4>2, <4>3 DEF Least, TypeOK
    <3>4. /\ req' \in [Requests -> Request]
          /\ \A q \in Requests : req'[q].gate \in {"account", "refund", "slot"}
                                   => req'[q].account # NoAccount
          /\ \A q \in Requests : req'[q].gate = "slot" => ~req'[q].get
      BY <3>2, GotoType DEF Gates
    <3>5. TypeOK'
      BY <2>0, <3>1, <3>2, <3>3, <3>4, TypeOKPartsPrime
    <3>6. Meters'
      <4> HIDE DEF a
      <4> QED BY <3>1, <3>2, CoveredElsewhere DEF Meters
    <3> QED
      BY <3>5, <3>6
  <2>3. ASSUME NEW r \in Requests, NEW limit \in KeyLimits, KeyGate(r, limit)
        PROVE  TypeOK' /\ Meters'
    <3> DEFINE k == req[r].key
               a == req[r].account
               allowed == Allowed(Current(keys, k, limit, clock))
               refused == IF a = NoAccount THEN "idle" ELSE "refund"
               passed == IF a = NoAccount \/ req[r].get THEN "running" ELSE "slot"
               g == IF allowed THEN passed ELSE refused
    <3>1. /\ k \in Keys /\ Buckets(keys', Keys)
          /\ DOMAIN keys' = DOMAIN keys \cup {k}
          /\ \A i \in DOMAIN keys : i # k => keys'[i] = keys[i]
          /\ Covered(keys', k, keyMeter'[k], clock)
          /\ \A i \in Keys : i # k => keyMeter'[i] = keyMeter[i]
          /\ keyMeter' \in [Keys -> Meter]
      BY <2>3, KeyGateEffect
    <3>2. /\ UNCHANGED <<accounts, inUse, clock, meter>>
          /\ Goto(r, g)
          /\ fair' = IF allowed /\ a # NoAccount
                     THEN [fair EXCEPT ![a] = @ - Minute] ELSE fair
      BY <2>3 DEF KeyGate
    <3>3. fair' \in [Accounts -> Int]
      <4>1. Minute \in Int /\ fair \in [Accounts -> Int]
        BY ClockAssumption DEF TypeOK
      <4>2. [fair EXCEPT ![a] = @ - Minute] \in [Accounts -> Int]
        <5> HIDE DEF a
        <5>1. CASE a \in Accounts
          BY <4>1, <5>1
        <5>2. CASE a \notin Accounts
          BY <4>1, <5>2
        <5> QED BY <5>1, <5>2
      <4> HIDE DEF a, allowed
      <4> QED BY <3>2, <4>1, <4>2
    <3>4. /\ g \in Gates
          /\ g \in {"account", "refund", "slot"} => a # NoAccount
          /\ g = "slot" => ~req[r].get
      <4> HIDE DEF allowed, a
      <4> QED BY DEF Gates
    <3>5. /\ req' \in [Requests -> Request]
          /\ \A q \in Requests : req'[q].gate \in {"account", "refund", "slot"}
                                   => req'[q].account # NoAccount
          /\ \A q \in Requests : req'[q].gate = "slot" => ~req'[q].get
      <4> HIDE DEF g
      <4> QED BY <3>2, <3>4, GotoType
    <3>6. TypeOK'
      BY <2>0, <3>1, <3>2, <3>3, <3>5, TypeOKPartsPrime
    <3>7. Meters'
      <4> HIDE DEF k
      <4> QED BY <3>1, <3>2, CoveredElsewhere DEF Meters
    <3> QED
      BY <3>6, <3>7
  <2>4. ASSUME NEW r \in Requests, Refund(r)
        PROVE  TypeOK' /\ Meters'
    <3> DEFINE a == req[r].account
    <3>1. a \in Accounts
      BY <2>4 DEF Refund, TypeOK, Request
    <3>2. UNCHANGED <<keys, inUse, clock, keyMeter, fair>> /\ Goto(r, "idle")
      BY <2>4 DEF Refund
    <3>3. /\ req' \in [Requests -> Request]
          /\ \A q \in Requests : req'[q].gate \in {"account", "refund", "slot"}
                                   => req'[q].account # NoAccount
          /\ \A q \in Requests : req'[q].gate = "slot" => ~req'[q].get
      BY <3>2, GotoType DEF Gates
    <3>4. CASE a \notin DOMAIN accounts
      <4>1. UNCHANGED <<accounts, meter>>
        BY <2>4, <3>4 DEF Refund, Return
      <4> QED
        BY <2>0, <3>2, <3>3, <4>1, TypeOKPartsPrime DEF Meters
    <3>5. CASE a \in DOMAIN accounts
      <4>1. /\ accounts' = Return(accounts, a)
            /\ meter' = [meter EXCEPT ![a] = Refunded(meter[a])]
        BY <2>4, <3>5 DEF Refund
      <4>2. Covered(accounts, a, meter[a], clock)
        BY <3>1 DEF Meters
      <4> HIDE DEF a
      <4>3. /\ Buckets(accounts', Accounts)
            /\ DOMAIN accounts' = DOMAIN accounts
            /\ \A i \in DOMAIN accounts : i # a => accounts'[i] = accounts[i]
            /\ Covered(accounts', a, Refunded(meter[a]), clock)
        BY <2>0, <3>5, <4>1, <4>2, ReturnCovered
      <4>4. Refunded(meter[a]) \in Meter
        BY <4>3 DEF Covered
      <4>5. /\ meter' \in [Accounts -> Meter]
            /\ meter'[a] = Refunded(meter[a])
            /\ \A i \in Accounts : i # a => meter'[i] = meter[i]
        BY <3>1, <4>1, <4>4 DEF TypeOK
      <4>6. TypeOK'
        BY <2>0, <3>2, <3>3, <4>3, <4>5, TypeOKPartsPrime
      <4>7. Meters'
        BY <3>2, <4>3, <4>5, CoveredElsewhere DEF Meters
      <4> QED
        BY <4>6, <4>7
    <3> QED
      BY <3>4, <3>5
  <2>5. ASSUME NEW r \in Requests, TryAcquire(r)
        PROVE  TypeOK' /\ Meters'
    <3>1. /\ req' \in [Requests -> Request]
          /\ \A q \in Requests : req'[q].gate \in {"account", "refund", "slot"}
                                   => req'[q].account # NoAccount
          /\ \A q \in Requests : req'[q].gate = "slot" => ~req'[q].get
      BY <2>5, GotoType DEF TryAcquire, Gates
    <3>2. req[r].account \in Accounts
      BY <2>5 DEF TryAcquire, TypeOK, Request
    <3>3. DOMAIN inUse' \subseteq Accounts /\ inUse' \in [DOMAIN inUse' -> Nat \ {0}]
      BY <2>5, <3>2 DEF TryAcquire, AcquireSlot, SlotsOf, TypeOK
    <3> QED
      BY <2>0, <2>5, <3>1, <3>3, TypeOKPartsPrime DEF TryAcquire, Meters
  <2>6. ASSUME NEW r \in Requests, RefuseSlot(r)
        PROVE  TypeOK' /\ Meters'
    <3>1. /\ req' \in [Requests -> Request]
          /\ \A q \in Requests : req'[q].gate \in {"account", "refund", "slot"}
                                   => req'[q].account # NoAccount
          /\ \A q \in Requests : req'[q].gate = "slot" => ~req'[q].get
      BY <2>6, GotoType DEF RefuseSlot, Gates
    <3> QED
      BY <2>0, <2>6, <3>1, TypeOKPartsPrime DEF RefuseSlot, Meters
  <2>7. ASSUME NEW r \in Requests, Finish(r)
        PROVE  TypeOK' /\ Meters'
    <3>1. /\ req' \in [Requests -> Request]
          /\ \A q \in Requests : req'[q].gate \in {"account", "refund", "slot"}
                                   => req'[q].account # NoAccount
          /\ \A q \in Requests : req'[q].gate = "slot" => ~req'[q].get
      BY <2>7, GotoType DEF Finish, Gates
    <3>2. DOMAIN inUse' \subseteq Accounts /\ inUse' \in [DOMAIN inUse' -> Nat \ {0}]
      BY <2>7 DEF Finish, Release, TypeOK
    <3> QED
      BY <2>0, <2>7, <3>1, <3>2, TypeOKPartsPrime DEF Finish, Meters
  <2>8. CASE PruneAccounts
    <3>1. accounts' = prune(accounts, clock)
          /\ UNCHANGED <<keys, inUse, req, clock, meter, keyMeter, fair>>
      BY <2>8 DEF PruneAccounts
    <3>2. /\ Buckets(accounts', Accounts)
          /\ \A a \in Accounts, m \in Meter : Covered(accounts, a, m, clock)
                                                => Covered(accounts', a, m, clock)
      BY <2>0, <3>1, PruneCovered
    <3>3. TypeOK'
      BY <2>0, <3>1, <3>2, TypeOKPartsPrime
    <3>4. Meters'
      BY <3>1, <3>2 DEF Meters, Covered
    <3> QED
      BY <3>3, <3>4
  <2>9. CASE PruneKeys
    <3>1. keys' = prune(keys, clock)
          /\ UNCHANGED <<accounts, inUse, req, clock, meter, keyMeter, fair>>
      BY <2>9 DEF PruneKeys
    <3>2. /\ Buckets(keys', Keys)
          /\ \A k \in Keys, m \in Meter : Covered(keys, k, m, clock)
                                            => Covered(keys', k, m, clock)
      BY <2>0, <3>1, PruneCovered
    <3>3. TypeOK'
      BY <2>0, <3>1, <3>2, TypeOKPartsPrime
    <3>4. Meters'
      BY <3>1, <3>2 DEF Meters, Covered
    <3> QED
      BY <3>3, <3>4
  <2>10. CASE Tick
    <3>1. TypeOK'
      BY <2>0, <2>10, TypeOKPartsPrime DEF Tick
    <3>2. clock <= clock' /\ clock' \in Nat
      BY <2>0, <2>10 DEF Tick
    <3>3. Meters'
      BY <2>0, <2>10, <3>2, CoveredLater DEF Meters, Tick
    <3> QED
      BY <3>1, <3>3
  <2>11. CASE UNCHANGED vars
    BY <2>0, <2>11, TypeOKPartsPrime DEF vars, Meters
  <2> QED
    BY <2>1, <2>2, <2>3, <2>4, <2>5, <2>6, <2>7, <2>8, <2>9, <2>10, <2>11 DEF Next
<1> QED
  BY <1>1, <1>2, PTL DEF Spec

\* The limiters stay well typed: no bucket is ever overdrawn or above its
\* capacity, whatever limits, refunds and prunes it meets.
THEOREM LimitersTyped == Spec => []TypeOK
  BY TypeAndMeters, PTL

\* An account or a key never gets more through its bucket, less the refunds,
\* than the highest limit allows in any window of time, even if buckets are
\* pruned or given a new limit.
THEOREM RateKeptCorrect == Spec => []RateKept
<1>1. TypeOK /\ Meters => RateKept
  <2> SUFFICES ASSUME TypeOK, Meters
               PROVE  RateKept
    OBVIOUS
  <2>1. MaxLimit * Minute \in Nat
    BY LimitsAssumption, ClockAssumption, ProductType
  <2>2. ASSUME NEW a \in Accounts
        PROVE  meter[a].debt <= MaxLimit * Minute
    <3>1. Covered(accounts, a, meter[a], clock) /\ meter[a].debt \in Nat
      BY DEF Meters, TypeOK, Meter
    <3>2. a \in DOMAIN accounts => accounts[a].tokens \in Nat
      BY DEF TypeOK, Bucket
    <3> QED
      BY <2>1, <3>1, <3>2 DEF Covered
  <2>3. ASSUME NEW k \in Keys
        PROVE  keyMeter[k].debt <= MaxLimit * Minute
    <3>1. Covered(keys, k, keyMeter[k], clock) /\ keyMeter[k].debt \in Nat
      BY DEF Meters, TypeOK, Meter
    <3>2. k \in DOMAIN keys => keys[k].tokens \in Nat
      BY DEF TypeOK, Bucket
    <3> QED
      BY <2>1, <3>1, <3>2 DEF Covered
  <2> QED
    BY <2>2, <2>3 DEF RateKept
<1> QED
  BY <1>1, TypeAndMeters, PTL

----------------------------------------------------------------------------
(***************************************************************************)
(* Slots                                                                   *)
(***************************************************************************)

\* Only request r moved.
Moves(r) == /\ req' \in [Requests -> Request]
            /\ \A q \in Requests : q # r => req'[q] = req[q]

\* A request that goes to another gate keeps its account, key and method.
LEMMA GotoMoves ==
    ASSUME TypeOK, NEW r \in Requests, NEW g \in Gates, Goto(r, g)
    PROVE  /\ Moves(r)
           /\ req'[r].gate = g
           /\ req'[r].account = req[r].account
           /\ req'[r].get = req[r].get
  <1>1. req' = [req EXCEPT ![r].gate = g] /\ req \in [Requests -> Request]
    BY DEF Goto, TypeOK
  <1> QED
    BY <1>1 DEF Moves, Request

\* Slots and streams agree after a step that touches neither.
LEMMA SlotsKept ==
    ASSUME SlotsMatchStreams, UNCHANGED inUse, NEW r \in Requests, Moves(r),
           \A a \in Accounts : r \notin Streams(a) /\ r \notin Streams(a)'
    PROVE  SlotsMatchStreams'
  <1>1. ASSUME NEW a \in Accounts
        PROVE  Streams(a)' = Streams(a)
    BY <1>1 DEF Streams, Moves
  <1> QED
    BY <1>1 DEF SlotsMatchStreams, SlotsOf

\* The slots in use are the requests in progress, never more than the class of
\* the account allows.
THEOREM SlotsCorrect == Spec => []SlotsMatchStreams
<1>1. Init => SlotsMatchStreams
  <2> SUFFICES ASSUME Init, NEW a \in Accounts
               PROVE  /\ SlotsOf(a) = Cardinality(Streams(a))
                      /\ SlotsOf(a) <= maxConcurrent(a)
    BY DEF SlotsMatchStreams
  <2>1. Streams(a) = {}
    BY DEF Init, Streams
  <2>2. SlotsOf(a) = 0
    BY DEF Init, SlotsOf
  <2> QED
    BY <2>1, <2>2, FS_EmptySet, ClassAssumption DEF maxConcurrent
<1>2. TypeOK /\ SlotsMatchStreams /\ [Next]_vars => SlotsMatchStreams'
  <2> SUFFICES ASSUME TypeOK, SlotsMatchStreams, [Next]_vars
               PROVE  SlotsMatchStreams'
    OBVIOUS
  <2>0. \A a \in Accounts : IsFiniteSet(Streams(a))
    <3>1. \A a \in Accounts : Streams(a) \subseteq Requests
      BY DEF Streams
    <3> QED BY <3>1, ClassAssumption, FS_Subset
  <2>1. ASSUME NEW r \in Requests, NEW a \in Accounts \cup {NoAccount},
               NEW k \in Keys, NEW get \in BOOLEAN, Arrive(r, a, k, get)
        PROVE  SlotsMatchStreams'
    <3>1. Moves(r) /\ req'[r].gate \in {"key", "account"}
      BY <2>1 DEF Arrive, Moves, TypeOK, Request, Gates
    <3>2. \A b \in Accounts : r \notin Streams(b) /\ r \notin Streams(b)'
      BY <2>1, <3>1 DEF Arrive, Streams
    <3> QED
      BY <2>1, <3>1, <3>2, SlotsKept DEF Arrive
  <2>2. ASSUME NEW r \in Requests, NEW o \in Overrides \cup {NoOverride},
               AccountGate(r, o)
        PROVE  SlotsMatchStreams'
    <3>1. PICK g \in {"key", "idle"} : Goto(r, g)
      BY <2>2 DEF AccountGate
    <3>2. Moves(r) /\ req'[r].gate = g
      BY <3>1, GotoMoves DEF Gates
    <3>3. \A b \in Accounts : r \notin Streams(b) /\ r \notin Streams(b)'
      BY <2>2, <3>2 DEF AccountGate, Streams
    <3> QED
      BY <2>2, <3>2, <3>3, SlotsKept DEF AccountGate
  <2>3. ASSUME NEW r \in Requests, NEW limit \in KeyLimits, KeyGate(r, limit)
        PROVE  SlotsMatchStreams'
    <3>1. PICK g \in Gates : /\ Goto(r, g)
                             /\ g = "running" => req[r].account = NoAccount \/ req[r].get
      BY <2>3 DEF KeyGate, Gates
    <3>2. Moves(r) /\ req'[r].gate = g /\ req'[r].account = req[r].account
          /\ req'[r].get = req[r].get
      BY <3>1, GotoMoves
    <3>3. \A b \in Accounts : r \notin Streams(b) /\ r \notin Streams(b)'
      BY <2>3, <3>1, <3>2, ClassAssumption DEF KeyGate, Streams
    <3> QED
      BY <2>3, <3>2, <3>3, SlotsKept DEF KeyGate
  <2>4. ASSUME NEW r \in Requests, Refund(r) \/ RefuseSlot(r)
        PROVE  SlotsMatchStreams'
    <3>1. Moves(r) /\ req'[r].gate = "idle" /\ UNCHANGED inUse
      BY <2>4, GotoMoves DEF Refund, RefuseSlot, Gates
    <3>2. \A b \in Accounts : r \notin Streams(b) /\ r \notin Streams(b)'
      BY <2>4, <3>1 DEF Refund, RefuseSlot, Streams
    <3> QED
      BY <3>1, <3>2, SlotsKept
  <2>5. ASSUME NEW r \in Requests, TryAcquire(r)
        PROVE  SlotsMatchStreams'
    <3>1. ~req[r].get /\ req[r].gate = "slot"
      BY <2>5 DEF TryAcquire, TypeOK
    <3>2. PICK a \in Accounts : a = req[r].account
      BY <2>5 DEF TryAcquire, TypeOK, Request
    <3>3. Moves(r) /\ req'[r].gate = "running" /\ req'[r].account = a
          /\ ~req'[r].get
      BY <2>5, <3>1, <3>2, GotoMoves DEF TryAcquire, Gates
    <3>4. Streams(a)' = Streams(a) \cup {r} /\ r \notin Streams(a)
      BY <3>1, <3>2, <3>3 DEF Streams, Moves
    <3>5. \A b \in Accounts : b # a => Streams(b)' = Streams(b)
      BY <3>1, <3>2, <3>3 DEF Streams, Moves
    <3>6. Cardinality(Streams(a)') = Cardinality(Streams(a)) + 1
      BY <2>0, <3>4, FS_AddElement
    <3>7. inUse' = [i \in DOMAIN inUse \cup {a} |->
                      IF i = a THEN SlotsOf(a) + 1 ELSE inUse[i]]
      BY <2>5, <3>2 DEF TryAcquire, AcquireSlot
    <3>8. /\ SlotsOf(a)' = SlotsOf(a) + 1
          /\ \A b \in Accounts : b # a => SlotsOf(b)' = SlotsOf(b)
      BY <3>7 DEF SlotsOf
    <3>9. SlotsOf(a) < maxConcurrent(a) /\ SlotsOf(a) \in Nat /\ maxConcurrent(a) \in Nat
      BY <2>5, <3>2, ClassAssumption
      DEF TryAcquire, SlotFree, SlotsOf, TypeOK, maxConcurrent
    <3> QED
      BY <3>4, <3>5, <3>6, <3>8, <3>9 DEF SlotsMatchStreams
  <2>6. ASSUME NEW r \in Requests, Finish(r)
        PROVE  SlotsMatchStreams'
    <3>1. req[r].gate = "running" /\ Moves(r) /\ req'[r].gate = "idle"
      BY <2>6, GotoMoves DEF Finish, Gates
    <3>2. CASE req[r].account = NoAccount \/ req[r].get
      <4>1. \A b \in Accounts : r \notin Streams(b) /\ r \notin Streams(b)'
        BY <3>1, <3>2, ClassAssumption DEF Streams
      <4> QED
        BY <2>6, <3>1, <3>2, <4>1, SlotsKept DEF Finish
    <3>3. CASE req[r].account # NoAccount /\ ~req[r].get
      <4>1. PICK a \in Accounts : a = req[r].account
        BY <3>3 DEF TypeOK, Request
      <4>2. Streams(a)' = Streams(a) \ {r} /\ r \in Streams(a)
        BY <3>1, <3>3, <4>1 DEF Streams, Moves
      <4>3. \A b \in Accounts : b # a => Streams(b)' = Streams(b)
        BY <3>1, <4>1 DEF Streams, Moves
      <4>4. Cardinality(Streams(a)') = Cardinality(Streams(a)) - 1
            /\ Cardinality(Streams(a)) \in Nat
        BY <2>0, <4>2, FS_RemoveElement, FS_CardinalityType
      <4>5. Cardinality(Streams(a)) # 0
        BY <2>0, <4>2, FS_EmptySet
      <4>6. SlotsOf(a) >= 1 /\ SlotsOf(a) \in Nat
        BY <4>4, <4>5 DEF SlotsMatchStreams
      <4>7. Release(a)
        BY <2>6, <3>3, <4>1 DEF Finish
      <4>8. /\ SlotsOf(a)' = SlotsOf(a) - 1
            /\ \A b \in Accounts : b # a => SlotsOf(b)' = SlotsOf(b)
        <5>1. a \in DOMAIN inUse /\ SlotsOf(a) = inUse[a] /\ inUse[a] \in Nat
          BY <4>6 DEF SlotsOf
        <5>2. CASE inUse[a] > 1
          <6>1. inUse' = [inUse EXCEPT ![a] = @ - 1]
            BY <4>7, <5>1, <5>2 DEF Release
          <6> QED BY <5>1, <6>1 DEF SlotsOf
        <5>3. CASE ~(inUse[a] > 1)
          <6>1. inUse' = [i \in DOMAIN inUse \ {a} |-> inUse[i]]
            BY <4>7, <5>3 DEF Release
          <6>2. SlotsOf(a) = 1
            BY <4>6, <5>1, <5>3
          <6>3. SlotsOf(a)' = 0 /\ \A b \in Accounts : b # a => SlotsOf(b)' = SlotsOf(b)
            BY <6>1 DEF SlotsOf
          <6> QED BY <6>2, <6>3
        <5> QED BY <5>2, <5>3
      <4>9. maxConcurrent(a) \in Nat
        BY ClassAssumption DEF maxConcurrent
      <4> QED
        BY <4>2, <4>3, <4>4, <4>6, <4>8, <4>9 DEF SlotsMatchStreams
    <3> QED
      BY <3>2, <3>3
  <2>7. CASE UNCHANGED <<inUse, req>>
    BY <2>7 DEF SlotsMatchStreams, SlotsOf, Streams
  <2> QED
    BY <2>1, <2>2, <2>3, <2>4, <2>5, <2>6, <2>7
    DEF Next, PruneAccounts, PruneKeys, Tick, vars
<1> QED
  BY <1>1, <1>2, LimitersTyped, PTL DEF Spec

----------------------------------------------------------------------------
(***************************************************************************)
(* Refunds                                                                 *)
(***************************************************************************)

\* The bucket that was never charged for refused requests is not above its
\* capacity either.
FairWithinCapacity ==
    \A a \in DOMAIN accounts : fair[a] <= accounts[a].capacity * Minute

\* Multiples of a token, one more and one less.
LEMMA OneMore ==
    ASSUME NEW n \in Nat
    PROVE  /\ n * Minute \in Nat
           /\ (n + 1) * Minute = n * Minute + Minute
           /\ (n - 1) * Minute = n * Minute - Minute
           /\ Minute \in Nat
  <1>1. Minute \in Nat
    BY ClockAssumption
  <1> QED
    BY <1>1

\* How the refilled buckets compare: refilling both keeps the first ahead.
LEMMA RefillAhead ==
    ASSUME NEW t \in Nat, NEW f \in Int, NEW u \in Nat, NEW e \in Int, NEW c \in Int,
           t + u >= f
    PROVE  Least(c, t + e) + u >= Least(c, f + e) /\ Least(c, f + e) <= c
  BY DEF Least

\* Nothing changes for accounts whose bucket, requests and history stay.
LEMMA UndecidedKept ==
    ASSUME TypeOK, NEW r \in Requests, Moves(r), NEW a,
           r \in Undecided(a) <=> r \in Undecided(a)'
    PROVE  Undecided(a)' = Undecided(a)
  BY DEF Undecided, Moves

\* A request that its key refused never costs its account anything once it was
\* refunded, whatever other requests, prunes and changes of the limit happen
\* between the charge and the refund.
THEOREM RefundsExact == Spec => []NoBudgetBurned
<1>1. Init => NoBudgetBurned /\ FairWithinCapacity
  BY DEF Init, NoBudgetBurned, FairWithinCapacity
<1>2. TypeOK /\ TypeOK' /\ Meters /\ NoBudgetBurned /\ FairWithinCapacity /\ [Next]_vars
        => NoBudgetBurned' /\ FairWithinCapacity'
  <2> SUFFICES ASSUME TypeOK, TypeOK', Meters, NoBudgetBurned, FairWithinCapacity,
                      [Next]_vars
               PROVE  NoBudgetBurned' /\ FairWithinCapacity'
    OBVIOUS
  <2>0. \A a : IsFiniteSet(Undecided(a)) /\ Cardinality(Undecided(a)) \in Nat
    <3>1. \A a : Undecided(a) \subseteq Requests
      BY DEF Undecided
    <3> QED BY <3>1, ClassAssumption, FS_Subset, FS_CardinalityType
  <2>1. ASSUME NEW r \in Requests, Moves(r), UNCHANGED <<accounts, fair>>,
               \A a \in Accounts : r \in Undecided(a) <=> r \in Undecided(a)'
        PROVE  NoBudgetBurned' /\ FairWithinCapacity'
    <3>1. \A a \in Accounts : Undecided(a)' = Undecided(a)
      BY <2>1, UndecidedKept
    <3>2. \A a \in DOMAIN accounts : Undecided(a)' = Undecided(a)
      BY <3>1 DEF TypeOK
    <3> QED
      BY <2>1, <3>2 DEF NoBudgetBurned, FairWithinCapacity
  <2>2. ASSUME NEW r \in Requests, NEW a \in Accounts \cup {NoAccount},
               NEW k \in Keys, NEW get \in BOOLEAN, Arrive(r, a, k, get)
        PROVE  NoBudgetBurned' /\ FairWithinCapacity'
    <3>1. Moves(r) /\ req'[r].gate = (IF a = NoAccount THEN "key" ELSE "account")
          /\ req'[r].account = a
      BY <2>2 DEF Arrive, Moves, TypeOK
    <3>2. \A b \in Accounts : r \notin Undecided(b) /\ r \notin Undecided(b)'
      BY <2>2, <3>1, ClassAssumption DEF Arrive, Undecided
    <3> QED
      BY <2>1, <2>2, <3>1, <3>2 DEF Arrive
  <2>3. ASSUME NEW r \in Requests, NEW o \in Overrides \cup {NoOverride},
               AccountGate(r, o)
        PROVE  NoBudgetBurned' /\ FairWithinCapacity'
    <3>1. PICK a \in Accounts : a = req[r].account
      BY <2>3 DEF AccountGate, TypeOK, Request
    <3>2. PICK limit \in 1..MaxLimit : limit = EffectiveLimit(o, a)
      BY EffectiveLimitType
    <3> DEFINE c       == Current(accounts, a, limit, clock).tokens
               allowed == Allowed(Current(accounts, a, limit, clock))
               u       == Cardinality(Undecided(a))
               cap     == limit * Minute
    <3>3. /\ DOMAIN accounts' = DOMAIN accounts \cup {a}
          /\ \A i \in DOMAIN accounts : i # a => accounts'[i] = accounts[i]
          /\ accounts'[a].capacity = limit
          /\ accounts'[a].tokens = c - (IF allowed THEN Minute ELSE 0)
          /\ Goto(r, IF allowed THEN "key" ELSE "idle")
      BY <2>3, <3>1, <3>2, AccountGateEffect DEF Goto
    <3>4. fair' = [fair EXCEPT ![a] =
                     IF a \in DOMAIN accounts
                     THEN Least(cap, fair[a] + (clock - accounts[a].lastRefill) * limit)
                     ELSE cap]
      BY <2>3, <3>1, <3>2 DEF AccountGate
    <3>5. /\ Moves(r) /\ req'[r].account = a /\ req[r].gate = "account"
          /\ req'[r].gate = IF allowed THEN "key" ELSE "idle"
      <4> HIDE DEF allowed
      <4> QED BY <2>3, <3>1, <3>3, GotoMoves DEF AccountGate, Gates
    <3>6. cap \in Nat /\ Minute \in Nat /\ u \in Nat /\ u * Minute \in Nat
          /\ (u + 1) * Minute = u * Minute + Minute
      BY <2>0, ProductType, ClockAssumption, OneMore
    <3>7. c \in Nat
      <4>1. Covered(accounts, a, meter[a], clock) /\ clock \in Nat
            /\ accounts \in [DOMAIN accounts -> Bucket]
        BY DEF Meters, TypeOK
      <4> QED BY <4>1, CurrentCovered
    <3>8. c + u * Minute >= fair'[a] /\ fair'[a] <= cap
      <4>1. CASE a \notin DOMAIN accounts
        <5>1. c = cap /\ fair'[a] = cap
          BY <3>4, <4>1 DEF Current, TypeOK
        <5> HIDE DEF c, u, cap
        <5> QED BY <3>6, <5>1
      <4>2. CASE a \in DOMAIN accounts
        <5> DEFINE t == accounts[a].tokens
                   e == (clock - accounts[a].lastRefill) * limit
                   f == fair[a]
        <5>1. c = Least(cap, t + e)
          BY <4>2 DEF Current, Refill
        <5>2. fair'[a] = Least(cap, f + e)
          BY <3>4, <4>2 DEF TypeOK
        <5>3. t \in Nat /\ f \in Int /\ e \in Int
          BY <4>2 DEF TypeOK, Bucket
        <5>4. t + u * Minute >= f
          BY <4>2 DEF NoBudgetBurned
        <5>6. Least(cap, t + e) + u * Minute >= Least(cap, f + e) /\ Least(cap, f + e) <= cap
          <6> DEFINE w == u * Minute
          <6>1. w \in Nat /\ cap \in Int /\ t + w >= f
            BY <3>6, <5>4
          <6> HIDE DEF c, t, e, f, u, cap, w
          <6>2. Least(cap, t + e) + w >= Least(cap, f + e) /\ Least(cap, f + e) <= cap
            BY <5>3, <6>1, RefillAhead
          <6> QED BY <6>2 DEF w
        <5> HIDE DEF c, t, e, f, u, cap
        <5> QED BY <5>1, <5>2, <5>6
      <4> QED BY <4>1, <4>2
    <3>9. \A i \in DOMAIN accounts : i # a => /\ Undecided(i)' = Undecided(i)
                                              /\ fair'[i] = fair[i]
      <4>1. \A i : i # a => (r \in Undecided(i) <=> r \in Undecided(i)')
        BY <3>1, <3>5 DEF Undecided
      <4>2. \A i \in DOMAIN accounts : i # a => fair'[i] = fair[i]
        BY <3>4 DEF TypeOK
      <4> QED BY <3>5, <4>1, <4>2, UndecidedKept
    <3>10. accounts'[a].tokens + Cardinality(Undecided(a)') * Minute >= fair'[a]
      <4>1. CASE allowed
        <5>1. Undecided(a)' = Undecided(a) \cup {r} /\ r \notin Undecided(a)
          BY <3>1, <3>5, <4>1 DEF Undecided, Moves
        <5>2. Cardinality(Undecided(a)') = u + 1
          BY <2>0, <5>1, FS_AddElement
        <5>3. accounts'[a].tokens = c - Minute
          BY <3>3, <4>1
        <5>4. fair'[a] \in Int
          BY DEF TypeOK
        <5> HIDE DEF c, u, cap
        <5> QED BY <3>6, <3>7, <3>8, <5>2, <5>3, <5>4
      <4>2. CASE ~allowed
        <5>1. Undecided(a)' = Undecided(a)
          BY <3>1, <3>5, <4>2, UndecidedKept DEF Undecided
        <5>2. accounts'[a].tokens = c
          BY <3>3, <3>7, <4>2
        <5> HIDE DEF c, u, cap
        <5> QED BY <3>8, <5>1, <5>2 DEF u
      <4> QED BY <4>1, <4>2
    <3>11. NoBudgetBurned'
      <4> HIDE DEF c, u, cap, allowed
      <4> QED BY <3>3, <3>9, <3>10 DEF NoBudgetBurned
    <3>12. FairWithinCapacity'
      <4> HIDE DEF c, u, allowed
      <4> QED BY <3>3, <3>8, <3>9 DEF FairWithinCapacity
    <3> QED
      BY <3>11, <3>12
  <2>4. ASSUME NEW r \in Requests, NEW limit \in KeyLimits, KeyGate(r, limit)
        PROVE  NoBudgetBurned' /\ FairWithinCapacity'
    <3> DEFINE allowed == Allowed(Current(keys, req[r].key, limit, clock))
               refused == IF req[r].account = NoAccount THEN "idle" ELSE "refund"
               passed  == IF req[r].account = NoAccount \/ req[r].get
                          THEN "running" ELSE "slot"
    <3>1. /\ Goto(r, IF allowed THEN passed ELSE refused)
          /\ fair' = IF allowed /\ req[r].account # NoAccount
                     THEN [fair EXCEPT ![req[r].account] = @ - Minute] ELSE fair
          /\ UNCHANGED accounts
          /\ req[r].gate = "key"
      BY <2>4 DEF KeyGate
    <3>2. /\ Moves(r) /\ req'[r].account = req[r].account
          /\ req'[r].gate = IF allowed THEN passed ELSE refused
      <4>1. (IF allowed THEN passed ELSE refused) \in Gates
        <5> HIDE DEF allowed
        <5> QED BY DEF Gates
      <4> HIDE DEF allowed, passed, refused
      <4> QED BY <3>1, <4>1, GotoMoves
    <3> HIDE DEF allowed
    <3>3. CASE ~allowed \/ req[r].account = NoAccount
      <4>1. \A a \in Accounts : r \in Undecided(a) <=> r \in Undecided(a)'
        BY <3>1, <3>2, <3>3, ClassAssumption DEF Undecided
      <4> QED
        BY <2>1, <3>1, <3>2, <3>3, <4>1
    <3>4. CASE allowed /\ req[r].account # NoAccount
      <4>1. PICK a \in Accounts : a = req[r].account
        BY <3>4 DEF TypeOK, Request
      <4>2. fair' = [fair EXCEPT ![a] = @ - Minute]
        BY <3>1, <3>4, <4>1
      <4>3. Undecided(a)' = Undecided(a) \ {r} /\ r \in Undecided(a)
        BY <3>1, <3>2, <3>4, <4>1 DEF Undecided, Moves
      <4>4. Cardinality(Undecided(a)') = Cardinality(Undecided(a)) - 1
        BY <2>0, <4>3, FS_RemoveElement
      <4>5. \A i \in DOMAIN accounts : i # a => /\ Undecided(i)' = Undecided(i)
                                                /\ fair'[i] = fair[i]
        <5>1. \A i : i # a => (r \in Undecided(i) <=> r \in Undecided(i)')
          BY <3>2, <4>1 DEF Undecided
        <5>2. \A i \in DOMAIN accounts : i # a => fair'[i] = fair[i]
          BY <4>2 DEF TypeOK
        <5> QED BY <3>2, <5>1, <5>2, UndecidedKept
      <4>6. a \in DOMAIN accounts =>
               /\ accounts'[a].tokens + Cardinality(Undecided(a)') * Minute >= fair'[a]
               /\ fair'[a] <= accounts'[a].capacity * Minute
        <5> SUFFICES ASSUME a \in DOMAIN accounts
                     PROVE  /\ accounts'[a].tokens
                                 + Cardinality(Undecided(a)') * Minute >= fair'[a]
                            /\ fair'[a] <= accounts'[a].capacity * Minute
          OBVIOUS
        <5> DEFINE u == Cardinality(Undecided(a))
                   t == accounts[a].tokens
                   f == fair[a]
                   cap == accounts[a].capacity * Minute
        <5>1. u \in Nat /\ t \in Nat /\ f \in Int /\ cap \in Int
          BY <2>0, ClockAssumption DEF TypeOK, Bucket
        <5>2. t + u * Minute >= f /\ f <= cap
          BY DEF NoBudgetBurned, FairWithinCapacity
        <5>3. (u - 1) * Minute = u * Minute - Minute /\ u * Minute \in Nat /\ Minute \in Nat
          <6> HIDE DEF u
          <6> QED BY <5>1, OneMore
        <5>4. fair'[a] = f - Minute /\ accounts'[a] = accounts[a]
          BY <3>1, <4>2 DEF TypeOK
        <5>5. t + (u - 1) * Minute >= f - Minute /\ f - Minute <= cap
          <6> HIDE DEF u, t, f, cap
          <6> QED BY <5>1, <5>2, <5>3
        <5> QED
          BY <4>4, <5>4, <5>5
      <4>7. NoBudgetBurned'
        BY <3>1, <4>5, <4>6 DEF NoBudgetBurned
      <4>8. FairWithinCapacity'
        BY <3>1, <4>5, <4>6 DEF FairWithinCapacity
      <4> QED
        BY <4>7, <4>8
    <3> QED
      BY <3>3, <3>4
  <2>5. ASSUME NEW r \in Requests, Refund(r)
        PROVE  NoBudgetBurned' /\ FairWithinCapacity'
    <3>1. PICK a \in Accounts : a = req[r].account
      BY <2>5 DEF Refund, TypeOK, Request
    <3>2. /\ Moves(r) /\ req'[r].gate = "idle" /\ req'[r].account = a
          /\ req[r].gate = "refund"
      BY <2>5, <3>1, GotoMoves DEF Refund, Gates
    <3>3. Undecided(a)' = Undecided(a) \ {r} /\ r \in Undecided(a)
      BY <3>1, <3>2 DEF Undecided, Moves
    <3>4. Cardinality(Undecided(a)') = Cardinality(Undecided(a)) - 1
      BY <2>0, <3>3, FS_RemoveElement
    <3>5. \A i : i # a => Undecided(i)' = Undecided(i)
      <4>1. \A i : i # a => (r \in Undecided(i) <=> r \in Undecided(i)')
        BY <3>1, <3>2 DEF Undecided
      <4> QED BY <3>2, <4>1, UndecidedKept
    <3>6. accounts' = Return(accounts, a) /\ fair' = fair
      BY <2>5, <3>1 DEF Refund
    <3>7. CASE a \notin DOMAIN accounts
      <4>1. accounts' = accounts
        BY <3>6, <3>7 DEF Return
      <4> QED
        BY <3>5, <3>6, <3>7, <4>1 DEF NoBudgetBurned, FairWithinCapacity
    <3>8. CASE a \in DOMAIN accounts
      <4> DEFINE u == Cardinality(Undecided(a))
                 t == accounts[a].tokens
                 f == fair[a]
                 cap == accounts[a].capacity * Minute
      <4>1. /\ DOMAIN accounts' = DOMAIN accounts
            /\ \A i \in DOMAIN accounts : i # a => accounts'[i] = accounts[i]
            /\ accounts'[a].capacity = accounts[a].capacity
            /\ accounts'[a].tokens = IF cap < t + Minute THEN cap ELSE t + Minute
        <5>1. Buckets(accounts, Accounts) /\ clock \in Nat
              /\ Covered(accounts, a, meter[a], clock)
          BY TypeOKParts DEF Meters
        <5> QED BY <3>6, <3>8, <5>1, ReturnCovered
      <4>2. u \in Nat /\ t \in Nat /\ f \in Int /\ cap \in Int
        BY <2>0, <3>8, ClockAssumption DEF TypeOK, Bucket
      <4>3. t + u * Minute >= f /\ f <= cap
        BY <3>8 DEF NoBudgetBurned, FairWithinCapacity
      <4>4. (u - 1) * Minute = u * Minute - Minute /\ u * Minute \in Nat /\ Minute \in Nat
        <5> HIDE DEF u
        <5> QED BY <4>2, OneMore
      <4>5. u - 1 \in Nat
        <5>1. u # 0
          BY <2>0, <3>3, FS_EmptySet
        <5> HIDE DEF u
        <5> QED BY <4>2, <5>1
      <4>6. (u - 1) * Minute \in Nat
        <5> HIDE DEF u
        <5> QED BY <4>5, OneMore
      <4>7. accounts'[a].tokens + (u - 1) * Minute >= f
        <5> HIDE DEF u, t, f, cap
        <5> QED BY <4>1, <4>2, <4>3, <4>4, <4>6
      <4>8. accounts'[a].tokens + Cardinality(Undecided(a)') * Minute >= fair'[a]
        BY <3>4, <3>6, <4>7
      <4>9. NoBudgetBurned'
        BY <3>5, <3>6, <4>1, <4>8 DEF NoBudgetBurned
      <4>10. FairWithinCapacity'
        BY <3>6, <4>1, <4>3 DEF FairWithinCapacity
      <4> QED
        BY <4>9, <4>10
    <3> QED
      BY <3>7, <3>8
  <2>6. ASSUME NEW r \in Requests, TryAcquire(r) \/ RefuseSlot(r) \/ Finish(r)
        PROVE  NoBudgetBurned' /\ FairWithinCapacity'
    <3>1. PICK g \in {"running", "idle"} : Goto(r, g)
      BY <2>6 DEF TryAcquire, RefuseSlot, Finish
    <3>2. Moves(r) /\ req'[r].gate = g /\ req[r].gate \in {"slot", "running"}
      BY <2>6, <3>1, GotoMoves DEF TryAcquire, RefuseSlot, Finish, Gates
    <3>3. \A a \in Accounts : r \notin Undecided(a) /\ r \notin Undecided(a)'
      BY <3>2 DEF Undecided
    <3> QED
      BY <2>1, <2>6, <3>2, <3>3 DEF TryAcquire, RefuseSlot, Finish
  <2>7. CASE PruneAccounts
    <3>1. UNCHANGED <<req, fair>> /\ accounts' = prune(accounts, clock)
      BY <2>7 DEF PruneAccounts
    <3>2. /\ DOMAIN accounts' \subseteq DOMAIN accounts
          /\ \A i \in DOMAIN accounts' : accounts'[i] = accounts[i]
      BY <3>1, TypeOKParts, PruneCovered
    <3>3. \A i : Undecided(i)' = Undecided(i)
      BY <3>1 DEF Undecided
    <3> QED
      BY <3>1, <3>2, <3>3 DEF NoBudgetBurned, FairWithinCapacity
  <2>8. CASE UNCHANGED <<accounts, req, fair>>
    BY <2>8 DEF NoBudgetBurned, FairWithinCapacity, Undecided
  <2> QED
    BY <2>2, <2>3, <2>4, <2>5, <2>6, <2>7, <2>8 DEF Next, PruneKeys, Tick, vars
<1> QED
  BY <1>1, <1>2, TypeAndMeters, PTL DEF Spec
=============================================================================
