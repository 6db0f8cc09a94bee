----------------------------- MODULE RateLimiter -----------------------------
(***************************************************************************)
(* The Guard's rate limiter (crypto/src/limits.rs): a token bucket per     *)
(* (tenant, operation) behind a token bucket per operation across all      *)
(* tenants.                                                                *)
(*                                                                         *)
(* allow reads the clock first, then takes the global lock, then the lock  *)
(* of the tenant buckets; calls on other threads run in between, so a call *)
(* may reach a bucket with an older clock reading than the bucket has seen.*)
(*                                                                         *)
(* Tokens are whole numbers and refill is per tick: the code's f64 tokens  *)
(* differ only by fractions.                                               *)
(***************************************************************************)
EXTENDS Integers, FiniteSets, Functions

CONSTANTS
    Threads,         \* concurrent calls of allow
    Tenants,         \* tenant ids, real or invented
    Ops,             \* operations
    Capacity,        \* capacity
    Refill,          \* refill_per_sec, per tick
    GlobalFactor,    \* the global bucket is this many tenants' worth (50)
    MaxBuckets,      \* max_buckets
    MaxClock         \* bound: the last instant explored

ASSUME RateLimiterConstants ==
    /\ {Capacity, Refill, MaxClock} \subseteq Nat
    /\ GlobalFactor \in Nat \ {0} /\ MaxBuckets \in Nat \ {0}
    /\ IsFiniteSet(Threads)

GlobalCapacity == GlobalFactor * Capacity
GlobalRefill   == GlobalFactor * Refill
Keys           == Tenants \X Ops

VARIABLES
    clock,
    global,          \* op -> bucket
    buckets,         \* (tenant, op) -> bucket
    work,            \* thread -> the call it is in
    passed,          \* history: op -> calls the global bucket let through
    allowed,         \* history: key -> calls allowed
    forgotten        \* history: keys dropped by the LRU pass

\* History that only the proofs and the type invariant look at: whose calls
\* moved an account back over which ticks, and how far a key's account reaches.
VARIABLES
    rewound,         \* op -> {<<thread, tick>>}, the global bucket's
    settled,         \* key -> instant
    regained         \* key -> {<<thread, tick>>}, the tenant's

accounts == <<settled, regained>>
history  == <<passed, allowed, forgotten, rewound, accounts>>
vars     == <<clock, global, buckets, work, history>>

Put(f, k, v) == [x \in DOMAIN f \cup {k} |-> IF x = k THEN v ELSE f[x]]
Idle == [pc |-> "idle"]

Init ==
    /\ clock = 0
    /\ global = << >>
    /\ buckets = << >>
    /\ work = [t \in Threads |-> Idle]
    /\ passed = [op \in Ops |-> 0]
    /\ allowed = [k \in Keys |-> 0]
    /\ forgotten = {}
    /\ rewound = [op \in Ops |-> {}]
    /\ settled = [k \in Keys |-> 0]
    /\ regained = [k \in Keys |-> {}]

-----------------------------------------------------------------------------
(* take                                                                    *)

Minimum(a, b) == IF a < b THEN a ELSE b
\* saturating_duration_since
Elapsed(now, last) == IF now > last THEN now - last ELSE 0

Refilled(b, now, capacity, refill) ==
    Minimum(b.tokens + Elapsed(now, b.last) * refill, capacity)

Took(b, now, capacity, refill) == Refilled(b, now, capacity, refill) >= 1

\* Variant: a refused call is charged too.
TakeAnyway(b, now, capacity, refill) ==
    [tokens |-> Refilled(b, now, capacity, refill) - 1, last |-> now]
\* last becomes now even when now is older.
take(b, now, capacity, refill) ==
    LET n == Refilled(b, now, capacity, refill) IN
    [tokens |-> IF n >= 1 THEN n - 1 ELSE n, last |-> now]

\* The ticks that a call of t takes an account back over, if its reading of the
\* clock is older than the account.
Over(t, now, last) == {t} \X (now .. (last - 1))

\* Variant: every new bucket is a tenant's.
EntryOfTenant(f, k, capacity, now) ==
    IF k \in DOMAIN f THEN f[k] ELSE [tokens |-> Minimum(capacity, Capacity), last |-> now]
\* entry(..).or_insert(full bucket)
Entry(f, k, capacity, now) ==
    IF k \in DOMAIN f THEN f[k] ELSE [tokens |-> capacity, last |-> now]

-----------------------------------------------------------------------------
(* allow                                                                   *)

\* The clock is read before any lock is taken.
Call(t, k) ==
    /\ work[t] = Idle
    /\ work' = [work EXCEPT ![t] = [pc |-> "global", key |-> k, now |-> clock]]
    /\ UNCHANGED <<clock, global, buckets, history>>

\* Variant: the global bucket's refusal is not heeded.
TakeGlobalInVain(t) ==
    LET op  == work[t].key[2]
        now == work[t].now
        b   == Entry(global, op, GlobalCapacity, now)
    IN
    /\ work[t].pc = "global"
    /\ global' = Put(global, op, take(b, now, GlobalCapacity, GlobalRefill))
    /\ work' = [work EXCEPT ![t].pc = "tenant"]
    /\ passed' = [passed EXCEPT ![op] = @ + 1]
    /\ rewound' = [rewound EXCEPT ![op] = @ \cup Over(t, now, b.last)]
    /\ UNCHANGED <<clock, buckets, allowed, forgotten, accounts>>

TakeGlobal(t) ==
    LET k   == work[t].key
        op  == k[2]
        now == work[t].now
        b   == Entry(global, op, GlobalCapacity, now)
        ok  == Took(b, now, GlobalCapacity, GlobalRefill)
    IN
    /\ work[t].pc = "global"
    /\ global' = Put(global, op, take(b, now, GlobalCapacity, GlobalRefill))
    /\ IF ok
       THEN /\ work' = [work EXCEPT ![t].pc = "tenant"]
            /\ passed' = [passed EXCEPT ![op] = @ + 1]
       ELSE /\ work' = [work EXCEPT ![t] = Idle]
            /\ UNCHANGED passed
    /\ rewound' = [rewound EXCEPT ![op] = @ \cup Over(t, now, b.last)]
    /\ UNCHANGED <<clock, buckets, allowed, forgotten, accounts>>

\* Variant: the first pass drops the empty buckets instead of the full ones.
SpentOnly(bs, now) ==
    Restrict(bs, {k \in DOMAIN bs : bs[k].tokens + Elapsed(now, bs[k].last) * Refill > 0})
\* First pass: a bucket at capacity is as good as none.
NotFull(bs, now) ==
    Restrict(bs, {k \in DOMAIN bs : bs[k].tokens + Elapsed(now, bs[k].last) * Refill < Capacity})

\* The sets of keys the LRU pass may drop: the oldest ones, down to half,
\* ties broken by the map's iteration order.
Oldest(bs) ==
    {D \in SUBSET DOMAIN bs :
        /\ Cardinality(D) = Cardinality(DOMAIN bs) - (MaxBuckets \div 2)
        /\ \A d \in D, e \in DOMAIN bs \ D : bs[d].last =< bs[e].last}

\* Variant: only the first pass runs.
EvictLossless(bs, now) ==
    IF Cardinality(DOMAIN bs) < MaxBuckets THEN {bs} ELSE {NotFull(bs, now)}
\* What the map may be when the caller's bucket is looked up.
Evict(bs, now) ==
    LET kept == NotFull(bs, now) IN
    IF Cardinality(DOMAIN bs) < MaxBuckets THEN {bs}
    ELSE IF Cardinality(DOMAIN kept) < MaxBuckets THEN {kept}
    ELSE {Restrict(kept, DOMAIN kept \ D) : D \in Oldest(kept)}

\* The accounts of the buckets that an eviction at `now` drops reach that far.
Reached(dropped, now) ==
    [k \in Keys |-> IF k \in dropped /\ settled[k] < now THEN now ELSE settled[k]]

TakeTenant(t) ==
    LET k == work[t].key
        now == work[t].now
    IN
    /\ work[t].pc = "tenant"
    /\ \E bs \in Evict(buckets, now) :
          LET b  == Entry(bs, k, Capacity, now)
              at == Reached(DOMAIN buckets \ DOMAIN bs, now)
          IN
          /\ buckets' = Put(bs, k, take(b, now, Capacity, Refill))
          /\ allowed' = IF Took(b, now, Capacity, Refill)
                        THEN [allowed EXCEPT ![k] = @ + 1] ELSE allowed
          /\ forgotten' = forgotten \cup (DOMAIN NotFull(buckets, now) \ DOMAIN bs)
          /\ settled' = [at EXCEPT ![k] = now]
          /\ regained' = [regained EXCEPT ![k] = @ \cup Over(t, now, at[k])]
    /\ work' = [work EXCEPT ![t] = Idle]
    /\ UNCHANGED <<clock, global, passed, rewound>>

Tick ==
    /\ clock < MaxClock
    /\ clock' = clock + 1
    /\ UNCHANGED <<global, buckets, work, history>>

Next ==
    \/ \E t \in Threads : (\E k \in Keys : Call(t, k)) \/ TakeGlobal(t) \/ TakeTenant(t)
    \/ Tick

Spec == Init /\ [][Next]_vars

-----------------------------------------------------------------------------
(* Properties                                                              *)

IsBucket(b, capacity) == b.tokens \in 0 .. capacity /\ b.last \in 0 .. clock

TypeOK ==
    /\ clock \in Nat
    /\ DOMAIN global \subseteq Ops /\ DOMAIN buckets \subseteq Keys
    /\ \A op \in DOMAIN global : IsBucket(global[op], GlobalCapacity)
    /\ \A k \in DOMAIN buckets : IsBucket(buckets[k], Capacity)
    /\ work \in [Threads -> {Idle} \cup [pc : {"global", "tenant"}, key : Keys, now : 0 .. clock]]
    /\ passed \in [Ops -> Nat]
    /\ allowed \in [Keys -> Nat]
    /\ forgotten \subseteq Keys
    /\ rewound \in [Ops -> SUBSET (Threads \X Nat)]
    /\ settled \in [Keys -> 0 .. clock]
    /\ regained \in [Keys -> SUBSET (Threads \X Nat)]

\* "Upper bound on tracked keys" (limits.rs:45): however many tenant ids a
\* caller invents, from however many threads, the map stays bounded.
BucketsBounded == Cardinality(DOMAIN buckets) =< MaxBuckets

\* The per-operation ceiling across all tenants, "the limit that actually
\* binds a compromised gateway" (limits.rs:35): since the start no more calls
\* of an operation passed than a full bucket and the refill of the time that
\* went by.  It is refuted with two threads, because take moves `last` back to
\* a stale reading of the clock and the next call is credited with the same
\* interval again.
GlobalCeiling ==
    \A op \in Ops : passed[op] =< GlobalCapacity + GlobalRefill * clock

\* What is left of that ceiling on a runtime with several worker threads
\* (main.rs:35): stale readings credit an interval again, but at most once for
\* each thread but one, however the calls overlap.  So the refill is at worst
\* multiplied by the number of threads; for one thread this is GlobalCeiling.
CeilingPerThread ==
    \A op \in Ops :
        passed[op] =< GlobalCapacity + GlobalRefill * (Cardinality(Threads) * clock)

\* "Global headroom is a generous multiple of one tenant's budget: normal
\* multi-tenant traffic never notices it" (limits.rs:53).  Every call spends it,
\* those that a tenant's own bucket refuses afterwards too; but what has gone
\* from it went to calls it let through, so until GlobalCapacity of them have
\* passed since the start no caller, on any thread, is refused for the others.
HeadroomKept ==
    \A op \in DOMAIN global : global[op].tokens + passed[op] >= GlobalCapacity
=============================================================================
