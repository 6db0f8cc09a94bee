-------------------------- MODULE RateLimiterProofs --------------------------
(***************************************************************************)
(* Theorems about RateLimiter, for any number of threads: the bound on the *)
(* tenant buckets, the global ceiling and its headroom.                    *)
(*                                                                         *)
(* The ceiling counts ticks.  A bucket that a stale call took back over a  *)
(* tick will be credited with it again; Overlaps says that a thread does   *)
(* this at most once per tick, and that one thread never does, which gives *)
(* the factor of CeilingPerThread (OverlapsCount).                         *)
(***************************************************************************)
EXTENDS RateLimiter, FiniteSetTheorems, TLAPS

(* The memory bound.                                                       *)

Bounded == IsFiniteSet(DOMAIN buckets) /\ Cardinality(DOMAIN buckets) =< MaxBuckets

\* Adding a key to a map grows its domain by at most that key.
LEMMA PutGrows ==
    ASSUME NEW f, NEW k, NEW v, IsFiniteSet(DOMAIN f)
    PROVE  /\ IsFiniteSet(DOMAIN Put(f, k, v))
           /\ Cardinality(DOMAIN Put(f, k, v)) =< Cardinality(DOMAIN f) + 1
<1>1. DOMAIN Put(f, k, v) = DOMAIN f \cup {k}
  BY DEF Put
<1>2. /\ IsFiniteSet(DOMAIN f \cup {k})
      /\ Cardinality(DOMAIN f \cup {k}) =
            IF k \in DOMAIN f THEN Cardinality(DOMAIN f) ELSE Cardinality(DOMAIN f) + 1
  BY FS_AddElement
<1>3. Cardinality(DOMAIN f) \in Nat
  BY FS_CardinalityType
<1> QED
  BY <1>1, <1>2, <1>3

\* Whatever the two eviction passes of allow leave, there is room for one more.
LEMMA EvictMakesRoom ==
    ASSUME NEW bs, NEW now, IsFiniteSet(DOMAIN bs), NEW es \in Evict(bs, now)
    PROVE  IsFiniteSet(DOMAIN es) /\ Cardinality(DOMAIN es) < MaxBuckets
<1> DEFINE kept == NotFull(bs, now)
<1>0. MaxBuckets \in Nat /\ MaxBuckets >= 1
  BY RateLimiterConstants
<1>1. DOMAIN kept \subseteq DOMAIN bs
  BY DEF NotFull, Restrict
<1>2. IsFiniteSet(DOMAIN kept) /\ Cardinality(DOMAIN kept) \in Nat
  BY <1>1, FS_Subset, FS_CardinalityType
<1>3. Cardinality(DOMAIN bs) \in Nat
  BY FS_CardinalityType
<1> HIDE DEF kept
<1>4. CASE Cardinality(DOMAIN bs) < MaxBuckets
  BY <1>4 DEF Evict
<1>5. CASE ~(Cardinality(DOMAIN bs) < MaxBuckets) /\ Cardinality(DOMAIN kept) < MaxBuckets
  BY <1>5, <1>2 DEF Evict, kept
<1>6. CASE ~(Cardinality(DOMAIN bs) < MaxBuckets) /\ ~(Cardinality(DOMAIN kept) < MaxBuckets)
  <2>1. PICK D \in Oldest(kept) : es = Restrict(kept, DOMAIN kept \ D)
    BY <1>6 DEF Evict, kept
  <2>2. D \subseteq DOMAIN kept /\ Cardinality(D) = Cardinality(DOMAIN kept) - (MaxBuckets \div 2)
    BY DEF Oldest
  <2>3. DOMAIN es = DOMAIN kept \ D
    BY <2>1 DEF Restrict
  <2>4. /\ IsFiniteSet(DOMAIN kept \ D)
        /\ Cardinality(DOMAIN kept \ D) = Cardinality(DOMAIN kept) - Cardinality(DOMAIN kept \cap D)
    BY <1>2, FS_Difference
  <2>5. DOMAIN kept \cap D = D
    BY <2>2
  <2>6. (MaxBuckets \div 2) \in Nat /\ (MaxBuckets \div 2) < MaxBuckets
    BY <1>0
  <2>7. Cardinality(DOMAIN kept \ D) = MaxBuckets \div 2
    <3>1. ASSUME NEW c \in Nat, NEW h \in Nat PROVE c - (c - h) = h
      OBVIOUS
    <3>2. Cardinality(DOMAIN kept \ D)
             = Cardinality(DOMAIN kept) - (Cardinality(DOMAIN kept) - (MaxBuckets \div 2))
      BY <2>2, <2>4, <2>5
    <3> QED
      BY <3>1, <3>2, <2>6, <1>2
  <2> QED
    BY <2>3, <2>4, <2>6, <2>7
<1> QED
  BY <1>4, <1>5, <1>6

\* RateLimiter::new: no bucket.
LEMMA BoundedInit ==
    ASSUME DOMAIN buckets = {}
    PROVE  Bounded
<1>1. MaxBuckets \in Nat
  BY RateLimiterConstants
<1> QED
  BY <1>1, FS_EmptySet DEF Bounded

\* No step of any thread through allow takes the map over its bound.
LEMMA BoundedStep ==
    ASSUME Bounded, [Next]_vars
    PROVE  Bounded'
<1>1. CASE UNCHANGED buckets
  BY <1>1 DEF Bounded
<1>2. ASSUME NEW t \in Threads, TakeTenant(t) PROVE Bounded'
  <2>1. PICK bs \in Evict(buckets, work[t].now) :
           buckets' = Put(bs, work[t].key,
                          take(Entry(bs, work[t].key, Capacity, work[t].now),
                               work[t].now, Capacity, Refill))
    BY <1>2 DEF TakeTenant
  <2>2. IsFiniteSet(DOMAIN bs) /\ Cardinality(DOMAIN bs) < MaxBuckets
    BY EvictMakesRoom DEF Bounded
  <2>3. IsFiniteSet(DOMAIN buckets') /\ Cardinality(DOMAIN buckets') =< Cardinality(DOMAIN bs) + 1
    BY <2>1, <2>2, PutGrows
  <2>4. Cardinality(DOMAIN bs) \in Nat /\ Cardinality(DOMAIN buckets') \in Nat /\ MaxBuckets \in Nat
    BY <2>2, <2>3, FS_CardinalityType, RateLimiterConstants
  <2> QED
    BY <2>2, <2>3, <2>4 DEF Bounded
<1> QED
  BY <1>1, <1>2 DEF Next, Call, TakeGlobal, Tick, vars

\* However many tenant ids are invented, from however many threads, the map of
\* tenant buckets stays within max_buckets.
THEOREM BucketsStayBounded == Spec => []BucketsBounded
<1>1. Init => Bounded
  BY BoundedInit DEF Init
<1>2. Bounded /\ [Next]_vars => Bounded'
  BY BoundedStep
<1>3. Bounded => BucketsBounded
  BY DEF Bounded, BucketsBounded
<1> QED
  BY <1>1, <1>2, <1>3, PTL DEF Spec

-----------------------------------------------------------------------------
(* Calls that overlap.                                                     *)

\* The instant up to which a thread has nothing older to bring to an account: the
\* reading of its call while that has yet to reach it, and the clock otherwise.
Due(w, now, stages) == IF w.pc \in stages THEN w.now ELSE now

\* A thread that is past a tick and never took the account back over it.
Spared(u, x, R, due) == x < due[u] /\ <<u, x>> \notin R

\* An account that reaches up to `last`, with the moves back in R: a thread moves
\* it back over a tick at most once, being past the tick afterwards; and where
\* the account has been over a tick, the thread that first took it there was
\* past that tick and never takes it back.
Overlaps(R, due, last, c) ==
    /\ c \in Nat /\ last \in 0 .. c /\ due \in [Threads -> 0 .. c]
    /\ R \subseteq Threads \X Nat
    /\ \A t \in Threads, x \in Nat : <<t, x>> \in R => x < due[t]
    /\ \A x \in Nat : (x < last \/ \E t \in Threads : <<t, x>> \in R)
                       => \E u \in Threads : Spared(u, x, R, due)

\* The moves back of one call are of its thread.
LEMMA OverTyped ==
    ASSUME NEW t \in Threads, NEW now \in Nat, NEW last \in Nat
    PROVE  Over(t, now, last) \subseteq Threads \X Nat
<1>1. now .. (last - 1) \subseteq Nat
  OBVIOUS
<1> QED
  BY <1>1 DEF Over

\* All of it happened before the present.
LEMMA OverlapsFinite ==
    ASSUME NEW R, NEW due, NEW last, NEW c, Overlaps(R, due, last, c)
    PROVE  /\ R \subseteq Threads \X (0 .. (c - 1))
           /\ IsFiniteSet(R) /\ Cardinality(R) \in Nat
           /\ IsFiniteSet(Threads \X (0 .. (c - 1)))
           /\ Cardinality(Threads \X (0 .. (c - 1))) = Cardinality(Threads) * c
           /\ Cardinality(Threads) \in Nat
<1> USE DEF Overlaps
<1>1. c \in Nat /\ IsFiniteSet(Threads)
  BY RateLimiterConstants
<1>2. IsFiniteSet(0 .. (c - 1)) /\ Cardinality(0 .. (c - 1)) = c
  <2>1. 0 \in Int /\ c - 1 \in Int
    BY <1>1
  <2>2. /\ IsFiniteSet(0 .. (c - 1))
        /\ Cardinality(0 .. (c - 1)) = IF 0 > c - 1 THEN 0 ELSE c - 1 - 0 + 1
    BY <2>1, FS_Interval
  <2> QED
    BY <1>1, <2>2
<1>3. /\ IsFiniteSet(Threads \X (0 .. (c - 1)))
      /\ Cardinality(Threads \X (0 .. (c - 1))) = Cardinality(Threads) * Cardinality(0 .. (c - 1))
  BY <1>1, <1>2, FS_Product
<1>4. R \subseteq Threads \X (0 .. (c - 1))
  <2> SUFFICES ASSUME NEW p \in R PROVE p \in Threads \X (0 .. (c - 1))
    OBVIOUS
  <2>1. PICK t \in Threads, x \in Nat : p = <<t, x>>
    OBVIOUS
  <2>2. x < due[t] /\ due[t] \in 0 .. c
    BY <2>1
  <2>3. x \in 0 .. (c - 1)
    BY <1>1, <2>2
  <2> QED
    BY <2>1, <2>3
<1>5. IsFiniteSet(R) /\ Cardinality(R) \in Nat
  BY <1>3, <1>4, FS_Subset, FS_CardinalityType
<1> QED
  BY <1>1, <1>2, <1>3, <1>4, <1>5, FS_CardinalityType

\* The ticks the account reaches over and those it was moved back over are no
\* more than the ticks gone by, once for each thread.
LEMMA OverlapsCount ==
    ASSUME NEW R, NEW due, NEW last, NEW c, Overlaps(R, due, last, c)
    PROVE  last + Cardinality(R) =< Cardinality(Threads) * c
<1> DEFINE first == [x \in 0 .. (last - 1) |-> <<CHOOSE u \in Threads : Spared(u, x, R, due), x>>]
           S == 0 .. (last - 1)
           G == {first[x] : x \in S}
           P == Threads \X (0 .. (c - 1))
<1>1. c \in Nat /\ last \in Nat /\ last =< c
  BY DEF Overlaps
<1>2. ASSUME NEW x \in S
      PROVE  \E u \in Threads : first[x] = <<u, x>> /\ Spared(u, x, R, due)
  <2>1. x \in Nat /\ x < last
    BY <1>1
  <2>2. \E u \in Threads : Spared(u, x, R, due)
    BY <2>1 DEF Overlaps
  <2> QED
    BY <2>2
<1>3. G \subseteq P /\ G \cap R = {}
  <2> SUFFICES ASSUME NEW p \in G PROVE p \in P /\ p \notin R
    OBVIOUS
  <2>1. PICK x \in S : p = first[x]
    OBVIOUS
  <2>2. PICK u \in Threads : p = <<u, x>> /\ <<u, x>> \notin R
    BY <1>2, <2>1 DEF Spared
  <2>3. x \in 0 .. (c - 1)
    BY <1>1
  <2> QED
    BY <2>2, <2>3
<1>4. IsFiniteSet(S) /\ Cardinality(S) = last
  <2>1. 0 \in Int /\ last - 1 \in Int
    BY <1>1
  <2>2. IsFiniteSet(S) /\ Cardinality(S) = IF 0 > last - 1 THEN 0 ELSE last - 1 - 0 + 1
    BY <2>1, FS_Interval
  <2> QED
    BY <1>1, <2>2
<1>5. IsFiniteSet(G) /\ Cardinality(G) = last
  <2>1. first \in [S -> G]
    OBVIOUS
  <2>2. \A g \in G : \E x \in S : first[x] = g
    OBVIOUS
  <2>3. ASSUME NEW x \in S, NEW y \in S, first[x] = first[y] PROVE x = y
    BY <1>2, <2>3
  <2> HIDE DEF first, S, G
  <2>4. first \in Bijection(S, G)
    BY <2>1, <2>2, <2>3 DEF Bijection, Injection, Surjection, IsInjective
  <2>5. ExistsBijection(S, G)
    BY <2>4 DEF ExistsBijection
  <2> QED
    BY <1>4, <2>5, FS_Bijection
<1>6. /\ R \subseteq P /\ IsFiniteSet(R) /\ Cardinality(R) \in Nat
      /\ IsFiniteSet(P) /\ Cardinality(P) = Cardinality(Threads) * c
      /\ Cardinality(Threads) \in Nat
  BY OverlapsFinite
<1> HIDE DEF first, S, G, P
<1>7. Cardinality(G \cup R) = last + Cardinality(R)
  <2>1. Cardinality(G \cup R) = Cardinality(G) + Cardinality(R) - Cardinality(G \cap R)
    BY <1>5, <1>6, FS_Union
  <2>2. Cardinality(G \cap R) = 0
    BY <1>3, FS_EmptySet
  <2> QED
    BY <1>1, <1>5, <1>6, <2>1, <2>2
<1>8. Cardinality(G \cup R) =< Cardinality(P)
  <2>1. (G \cup R) \in SUBSET P
    BY <1>3, <1>6
  <2> QED
    BY <1>6, <2>1, FS_Subset
<1> QED
  BY <1>6, <1>7, <1>8

\* Time passes and calls begin or end elsewhere.
LEMMA OverlapsLater ==
    ASSUME NEW R, NEW due, NEW last, NEW c, Overlaps(R, due, last, c),
           NEW d \in Nat, c =< d, NEW due2 \in [Threads -> 0 .. d],
           \A t \in Threads : due[t] =< due2[t]
    PROVE  Overlaps(R, due2, last, d)
<1> USE DEF Overlaps
<1>1. last \in 0 .. d
  OBVIOUS
<1>2. \A t \in Threads : due[t] \in Nat /\ due2[t] \in Nat
  OBVIOUS
<1>3. \A t \in Threads, x \in Nat : x < due[t] => x < due2[t]
  BY <1>2
<1>4. \A x \in Nat, u \in Threads : Spared(u, x, R, due) => Spared(u, x, R, due2)
  BY <1>3 DEF Spared
<1> QED
  BY <1>1, <1>3, <1>4

\* The account is brought up to a thread's reading.
LEMMA OverlapsReach ==
    ASSUME NEW R, NEW due, NEW last, NEW c, Overlaps(R, due, last, c),
           NEW t \in Threads, last =< due[t]
    PROVE  Overlaps(R, due, due[t], c)
<1> USE DEF Overlaps
<1>1. last \in Nat /\ due[t] \in 0 .. c /\ due[t] \in Nat
  OBVIOUS
<1>2. ASSUME NEW x \in Nat, x < due[t] \/ \E u \in Threads : <<u, x>> \in R
      PROVE  \E u \in Threads : Spared(u, x, R, due)
  <2>1. CASE x < last \/ \E u \in Threads : <<u, x>> \in R
    BY <2>1
  <2>2. CASE ~(x < last \/ \E u \in Threads : <<u, x>> \in R)
    <3>1. x < due[t] /\ <<t, x>> \notin R
      BY <1>2, <2>2
    <3> QED
      BY <3>1 DEF Spared
  <2> QED
    BY <2>1, <2>2
<1> QED
  BY <1>1, <1>2

\* A thread's call sets the account to its reading, older or not, and is done
\* with it.
LEMMA OverlapsMove ==
    ASSUME NEW R, NEW due, NEW last, NEW c, Overlaps(R, due, last, c),
           NEW t \in Threads, NEW now, now = due[t],
           NEW due2 \in [Threads -> 0 .. c], due2[t] = c,
           \A u \in Threads : due[u] =< due2[u]
    PROVE  /\ Overlaps(R \cup Over(t, now, last), due2, now, c)
           /\ Cardinality(R \cup Over(t, now, last)) = Cardinality(R) + Elapsed(last, now)
<1> DEFINE N == Over(t, now, last)
<1>1. c \in Nat /\ last \in Nat /\ last =< c /\ now \in 0 .. c /\ now \in Nat
  BY DEF Overlaps
<1>2. \A u, x : <<u, x>> \in N <=> u = t /\ x \in now .. (last - 1)
  BY DEF Over
<1>3. N \subseteq Threads \X Nat
  BY <1>1, OverTyped
<1>4. \A u \in Threads, x \in Nat : <<u, x>> \in R => x < due[u]
  BY DEF Overlaps
<1>5. \A u \in Threads : due[u] \in Nat /\ due2[u] \in Nat
  BY DEF Overlaps
<1> HIDE DEF N
<1>6. ASSUME NEW u \in Threads, NEW x \in Nat, <<u, x>> \in R \cup N PROVE x < due2[u]
  <2>1. CASE <<u, x>> \in R
    BY <1>4, <1>5, <2>1
  <2>2. CASE <<u, x>> \in N
    BY <1>1, <1>2, <2>2
  <2> QED
    BY <1>6, <2>1, <2>2
<1>7. ASSUME NEW x \in Nat, x < now \/ \E u \in Threads : <<u, x>> \in R \cup N
      PROVE  \E u \in Threads : Spared(u, x, R \cup N, due2)
  <2>1. CASE x < last \/ \E u \in Threads : <<u, x>> \in R
    <3>1. PICK u \in Threads : Spared(u, x, R, due)
      BY <2>1 DEF Overlaps
    <3>2. x < due[u] /\ <<u, x>> \notin R
      BY <3>1 DEF Spared
    <3>3. <<u, x>> \notin N
      <4>1. CASE u = t
        BY <1>1, <1>2, <3>2, <4>1
      <4>2. CASE u # t
        BY <1>2, <4>2
      <4> QED
        BY <4>1, <4>2
    <3>4. x < due2[u]
      BY <1>5, <3>2
    <3> QED
      BY <3>2, <3>3, <3>4 DEF Spared
  <2>2. CASE ~(x < last \/ \E u \in Threads : <<u, x>> \in R)
    <3>1. \A u : <<u, x>> \notin N
      BY <1>1, <1>2, <2>2
    <3>2. x < now /\ x < due2[t] /\ <<t, x>> \notin R
      BY <1>1, <1>7, <2>2, <3>1
    <3> QED
      BY <3>1, <3>2 DEF Spared
  <2> QED
    BY <2>1, <2>2
<1>8. Overlaps(R \cup N, due2, now, c)
  <2>1. R \cup N \subseteq Threads \X Nat
    BY <1>3 DEF Overlaps
  <2> QED
    BY <1>1, <1>6, <1>7, <2>1 DEF Overlaps
<1>9. R \cap N = {}
  <2> SUFFICES ASSUME NEW p \in R, p \in N PROVE FALSE
    OBVIOUS
  <2>1. PICK u \in Threads, x \in Nat : p = <<u, x>>
    BY <1>3
  <2>2. u = t /\ x >= now /\ x < due[t]
    BY <1>1, <1>2, <1>4, <2>1
  <2> QED
    BY <1>1, <2>2
<1>10. IsFiniteSet(N) /\ Cardinality(N) = Elapsed(last, now)
  <2>1. now \in Int /\ last - 1 \in Int
    BY <1>1
  <2>2. /\ IsFiniteSet(now .. (last - 1))
        /\ Cardinality(now .. (last - 1)) = IF now > last - 1 THEN 0 ELSE last - 1 - now + 1
    BY <2>1, FS_Interval
  <2>3. Cardinality(now .. (last - 1)) = Elapsed(last, now) /\ Elapsed(last, now) \in Nat
    BY <1>1, <2>2 DEF Elapsed
  <2>4. IsFiniteSet({t}) /\ Cardinality({t}) = 1
    BY FS_Singleton
  <2>5. IsFiniteSet(N) /\ Cardinality(N) = 1 * Cardinality(now .. (last - 1))
    BY <2>2, <2>4, FS_Product DEF N, Over
  <2> QED
    BY <2>3, <2>5
<1>11. Cardinality(R \cup N) = Cardinality(R) + Elapsed(last, now)
  <2>1. IsFiniteSet(R) /\ Cardinality(R) \in Nat
    BY OverlapsFinite
  <2>2. Cardinality(R \cup N) = Cardinality(R) + Cardinality(N) - Cardinality(R \cap N)
    BY <1>10, <2>1, FS_Union
  <2>3. Cardinality(R \cap N) = 0
    BY <1>9, FS_EmptySet
  <2>4. Elapsed(last, now) \in Nat
    BY <1>1 DEF Elapsed
  <2> QED
    BY <1>10, <2>1, <2>2, <2>3, <2>4
<1> QED
  BY <1>8, <1>11 DEF N

-----------------------------------------------------------------------------
(* The global ceiling.                                                     *)

\* What the ceiling's argument needs to know of the types.
GlobalTyped ==
    /\ clock \in Nat
    /\ passed \in [Ops -> Nat]
    /\ DOMAIN global \subseteq Ops
    /\ \A op \in DOMAIN global : global[op].tokens \in Nat /\ global[op].last \in Nat
    /\ work \in [Threads -> {Idle} \cup [pc : {"global", "tenant"}, key : Keys, now : Nat]]
    /\ rewound \in [Ops -> SUBSET (Threads \X Nat)]

\* How far each thread is, and how far an operation's bucket.
GlobalDue == [t \in Threads |-> Due(work[t], clock, {"global"})]
Filled(g, op) == IF op \in DOMAIN g THEN g[op].last ELSE 0

\* What has passed and what is left never exceed a full bucket and the refill up
\* to the bucket's instant, and again of the ticks it was moved back over.
Credit(op, g, p, R) ==
    IF op \in DOMAIN g
    THEN p + g[op].tokens =< GlobalCapacity + GlobalRefill * (g[op].last + Cardinality(R))
    ELSE p = 0

CeilingInv ==
    /\ GlobalTyped
    /\ \A op \in Ops : /\ Overlaps(rewound[op], GlobalDue, Filled(global, op), clock)
                       /\ Credit(op, global, passed[op], rewound[op])

\* RateLimiter::new derives the global limits from the tenant's.
LEMMA GlobalConstants == GlobalCapacity \in Nat /\ GlobalRefill \in Nat
  BY RateLimiterConstants DEF GlobalCapacity, GlobalRefill

\* Refill over an interval, as the refill up to its end less that up to its start.
LEMMA Products ==
    ASSUME NEW r \in Nat, NEW a \in Nat, NEW b \in Nat, a =< b
    PROVE  /\ (b - a) * r \in Nat
           /\ r * a + (b - a) * r = r * b
           /\ r * a =< r * b
           /\ r * a \in Nat /\ r * b \in Nat
<1>1. PICK d \in Nat : b = a + d /\ b - a = d
  <2>1. b - a \in Nat /\ b = a + (b - a)
    OBVIOUS
  <2> QED
    BY <2>1
<1>2. r * d \in Nat /\ d * r = r * d /\ r * (a + d) = r * a + r * d /\ r * a \in Nat
  OBVIOUS
<1> QED
  BY <1>1, <1>2

\* A call keeps the account, whatever it began with: it is credited with the
\* ticks since the bucket's instant, or takes that instant back.
LEMMA TakeKeepsAccount ==
    ASSUME NEW b, b.tokens \in Nat, b.last \in Nat,
           NEW now \in Nat, NEW cap \in Nat, NEW r \in Nat, NEW n \in Nat, NEW base \in Nat,
           NEW x \in Nat, n + b.tokens =< base + r * (b.last + x)
    PROVE  LET a == take(b, now, cap, r)
               z == now + (x + Elapsed(b.last, now))
           IN  /\ a.tokens \in Nat /\ a.last = now
               /\ IF Took(b, now, cap, r) THEN n + 1 + a.tokens =< base + r * z
                                          ELSE n + a.tokens =< base + r * z
<1> DEFINE m == Refilled(b, now, cap, r)
           e == Elapsed(now, b.last) * r
           y == b.last + x
           z == now + (x + Elapsed(b.last, now))
<1>1. /\ y \in Nat /\ z \in Nat /\ y =< z /\ z - y = Elapsed(now, b.last)
  BY DEF Elapsed
<1> HIDE DEF y, z
<1>2. e \in Nat /\ r * y + e = r * z /\ r * y \in Nat /\ r * z \in Nat
  BY <1>1, Products
<1>3. m = IF b.tokens + e < cap THEN b.tokens + e ELSE cap
  BY DEF Refilled, Minimum
<1>4. n + b.tokens =< base + r * y
  BY DEF y
<1>5. /\ take(b, now, cap, r).tokens = IF m >= 1 THEN m - 1 ELSE m
      /\ take(b, now, cap, r).last = now
  BY DEF take
<1>6. Took(b, now, cap, r) <=> m >= 1
  BY DEF Took
<1> DEFINE p == r * y
           q == r * z
<1>7. p \in Nat /\ q \in Nat /\ p + e = q /\ n + b.tokens =< base + p
  BY <1>2, <1>4
<1> HIDE DEF m, e, p, q
<1>8. m \in Nat /\ n + m =< base + q
  BY <1>2, <1>3, <1>7
<1>9. /\ take(b, now, cap, r).tokens \in Nat /\ take(b, now, cap, r).last = now
      /\ IF Took(b, now, cap, r) THEN n + 1 + take(b, now, cap, r).tokens =< base + q
                                 ELSE n + take(b, now, cap, r).tokens =< base + q
  BY <1>5, <1>6, <1>7, <1>8
<1> QED
  BY <1>9 DEF q, z

\* RateLimiter::new: no bucket, and nothing has passed.
LEMMA CeilingInit ==
    ASSUME GlobalTyped, DOMAIN global = {}, work = [t \in Threads |-> Idle],
           passed = [op \in Ops |-> 0], rewound = [op \in Ops |-> {}]
    PROVE  CeilingInv
<1>1. GlobalDue \in [Threads -> 0 .. clock]
  BY DEF GlobalDue, Due, Idle, GlobalTyped
<1> SUFFICES ASSUME NEW op \in Ops
             PROVE  /\ Overlaps(rewound[op], GlobalDue, Filled(global, op), clock)
                    /\ Credit(op, global, passed[op], rewound[op])
  BY DEF CeilingInv
<1>2. Filled(global, op) = 0 /\ rewound[op] = {} /\ passed[op] = 0 /\ clock \in Nat
  BY DEF Filled, GlobalTyped
<1>3. Overlaps({}, GlobalDue, 0, clock)
  BY <1>1, <1>2 DEF Overlaps
<1> QED
  BY <1>2, <1>3 DEF Credit

\* The types of the first state.
LEMMA GlobalTypedInit == Init => GlobalTyped /\ DOMAIN global = {}
BY DEF Init, GlobalTyped

\* The step of a thread through the global lock.
LEMMA CeilingTakeGlobal ==
    ASSUME NEW t \in Threads, CeilingInv, TakeGlobal(t)
    PROVE  CeilingInv'
<1> DEFINE op  == work[t].key[2]
           now == work[t].now
           b   == Entry(global, op, GlobalCapacity, now)
           a   == take(b, now, GlobalCapacity, GlobalRefill)
           ok  == Took(b, now, GlobalCapacity, GlobalRefill)
           R   == rewound[op]
           Q   == R \cup Over(t, now, b.last)
<1>1. work[t].pc = "global" /\ work[t] \in [pc : {"global", "tenant"}, key : Keys, now : Nat]
  BY DEF TakeGlobal, CeilingInv, GlobalTyped, Idle
<1>2. op \in Ops /\ now \in Nat
  BY <1>1 DEF Keys
<1>3. GlobalTyped
  BY DEF CeilingInv
<1>4. GlobalDue[t] = now
  BY <1>1 DEF GlobalDue, Due
<1>5. GlobalDue \in [Threads -> 0 .. clock]
  BY <1>2 DEF CeilingInv, Overlaps
<1>6. /\ b.tokens \in Nat /\ b.last \in Nat /\ passed[op] \in Nat
      /\ Overlaps(R, GlobalDue, b.last, clock)
      /\ Cardinality(R) \in Nat
      /\ passed[op] + b.tokens =< GlobalCapacity + GlobalRefill * (b.last + Cardinality(R))
  <2>1. passed[op] \in Nat /\ Overlaps(R, GlobalDue, Filled(global, op), clock)
    BY <1>2, <1>3 DEF CeilingInv, GlobalTyped
  <2>2. Cardinality(R) \in Nat
    BY <2>1, OverlapsFinite
  <2>3. CASE op \in DOMAIN global
    <3>1. b = global[op] /\ Filled(global, op) = b.last
      BY <2>3 DEF Entry, Filled
    <3>2. b.tokens \in Nat /\ b.last \in Nat
      BY <1>3, <2>3, <3>1 DEF GlobalTyped
    <3>3. passed[op] + global[op].tokens
             =< GlobalCapacity + GlobalRefill * (global[op].last + Cardinality(R))
      BY <1>2, <2>3 DEF CeilingInv, Credit
    <3> QED
      BY <2>1, <2>2, <3>1, <3>2, <3>3
  <2>4. CASE op \notin DOMAIN global
    <3>1. b.tokens = GlobalCapacity /\ b.last = now /\ Filled(global, op) = 0
      BY <2>4 DEF Entry, Filled
    <3>2. passed[op] = 0
      BY <1>2, <2>4 DEF CeilingInv, Credit
    <3>3. Overlaps(R, GlobalDue, now, clock)
      <4>1. Overlaps(R, GlobalDue, 0, clock) /\ 0 =< GlobalDue[t]
        BY <1>2, <1>4, <2>1, <3>1
      <4> HIDE DEF R, now
      <4>2. Overlaps(R, GlobalDue, GlobalDue[t], clock)
        BY <4>1, OverlapsReach
      <4> QED
        BY <1>4, <4>2
    <3>4. GlobalRefill * (now + Cardinality(R)) \in Nat
      <4>1. now + Cardinality(R) \in Nat
        BY <1>2, <2>2
      <4> QED
        BY <4>1, GlobalConstants, Products
    <3> QED
      BY <1>2, <2>2, <3>1, <3>2, <3>3, <3>4, GlobalConstants
  <2> QED
    BY <2>3, <2>4
<1>7. /\ global' = Put(global, op, a)
      /\ clock' = clock
      /\ passed' = IF ok THEN [passed EXCEPT ![op] = @ + 1] ELSE passed
      /\ work' = IF ok THEN [work EXCEPT ![t].pc = "tenant"] ELSE [work EXCEPT ![t] = Idle]
      /\ rewound' = [rewound EXCEPT ![op] = Q]
  BY <1>2, <1>3 DEF TakeGlobal, GlobalTyped
<1> HIDE DEF op, now, b, ok, R
<1>8. /\ GlobalDue' \in [Threads -> 0 .. clock] /\ GlobalDue'[t] = clock
      /\ \A u \in Threads : GlobalDue[u] =< GlobalDue'[u]
  <2>1. work'[t].pc # "global" /\ \A u \in Threads \ {t} : work'[u] = work[u]
    BY <1>1, <1>3, <1>7 DEF GlobalTyped, Idle
  <2>2. GlobalDue'[t] = clock
    BY <1>7, <2>1 DEF GlobalDue, Due
  <2>3. \A u \in Threads \ {t} : GlobalDue'[u] = GlobalDue[u]
    BY <1>7, <2>1 DEF GlobalDue, Due
  <2>4. clock \in Nat /\ \A u \in Threads : GlobalDue[u] \in 0 .. clock
    BY <1>3, <1>5 DEF GlobalTyped
  <2>5. \A u \in Threads : GlobalDue'[u] \in 0 .. clock /\ GlobalDue[u] =< GlobalDue'[u]
    BY <2>2, <2>3, <2>4
  <2>6. GlobalDue' = [u \in Threads |-> GlobalDue'[u]]
    BY DEF GlobalDue
  <2> QED
    BY <2>2, <2>5, <2>6
<1>9. Overlaps(Q, GlobalDue', now, clock) /\ Cardinality(Q) = Cardinality(R) + Elapsed(b.last, now)
  <2> DEFINE D == GlobalDue
             E == GlobalDue'
             l == b.last
  <2>1. Overlaps(R, D, l, clock) /\ now = D[t]
    BY <1>4, <1>6
  <2>2. E \in [Threads -> 0 .. clock] /\ E[t] = clock /\ \A u \in Threads : D[u] =< E[u]
    BY <1>8
  <2> HIDE DEF D, E, l
  <2>3. ASSUME NEW d2 \in [Threads -> 0 .. clock], d2[t] = clock, \A u \in Threads : D[u] =< d2[u]
        PROVE  /\ Overlaps(R \cup Over(t, now, l), d2, now, clock)
               /\ Cardinality(R \cup Over(t, now, l)) = Cardinality(R) + Elapsed(l, now)
    BY <2>1, <2>3, OverlapsMove
  <2>4. /\ Overlaps(R \cup Over(t, now, l), E, now, clock)
        /\ Cardinality(R \cup Over(t, now, l)) = Cardinality(R) + Elapsed(l, now)
    BY <2>2, <2>3
  <2> QED
    BY <2>4 DEF D, E, l
<1>10. /\ a.tokens \in Nat /\ a.last = now
       /\ IF ok THEN passed[op] + 1 + a.tokens =< GlobalCapacity + GlobalRefill * (now + Cardinality(Q))
                ELSE passed[op] + a.tokens =< GlobalCapacity + GlobalRefill * (now + Cardinality(Q))
  <2> DEFINE x == Cardinality(R)
             n == passed[op]
  <2>1. x \in Nat /\ n \in Nat /\ n + b.tokens =< GlobalCapacity + GlobalRefill * (b.last + x)
    BY <1>6
  <2> HIDE DEF x, n
  <2>2. /\ a.tokens \in Nat /\ a.last = now
        /\ IF ok THEN n + 1 + a.tokens =< GlobalCapacity + GlobalRefill * (now + (x + Elapsed(b.last, now)))
                 ELSE n + a.tokens =< GlobalCapacity + GlobalRefill * (now + (x + Elapsed(b.last, now)))
    BY <1>2, <1>6, <2>1, GlobalConstants, TakeKeepsAccount DEF ok
  <2>3. Cardinality(Q) = x + Elapsed(b.last, now)
    BY <1>9 DEF x
  <2> QED
    BY <2>2, <2>3 DEF n
<1> HIDE DEF a, Q
<1>11. /\ DOMAIN global' = DOMAIN global \cup {op}
       /\ global'[op] = a
       /\ \A o \in DOMAIN global : o # op => global'[o] = global[o]
  BY <1>7 DEF Put
<1>12. Q \in SUBSET (Threads \X Nat)
  BY <1>9 DEF Overlaps
<1>13. GlobalTyped'
  <2>1. passed' \in [Ops -> Nat]
    BY <1>2, <1>3, <1>7 DEF GlobalTyped
  <2>2. work' \in [Threads -> {Idle} \cup [pc : {"global", "tenant"}, key : Keys, now : Nat]]
    BY <1>1, <1>3, <1>7 DEF GlobalTyped
  <2>3. \A o \in DOMAIN global' : global'[o].tokens \in Nat /\ global'[o].last \in Nat
    BY <1>2, <1>3, <1>10, <1>11 DEF GlobalTyped
  <2>4. rewound' \in [Ops -> SUBSET (Threads \X Nat)]
    BY <1>2, <1>3, <1>7, <1>12 DEF GlobalTyped
  <2> QED
    BY <1>2, <1>3, <1>7, <1>11, <2>1, <2>2, <2>3, <2>4 DEF GlobalTyped
<1>14. ASSUME NEW o \in Ops
       PROVE  /\ Overlaps(rewound'[o], GlobalDue', Filled(global', o), clock)
              /\ Credit(o, global', passed'[o], rewound'[o])
  <2>1. CASE o = op
    <3>1. passed'[op] = (IF ok THEN passed[op] + 1 ELSE passed[op]) /\ rewound'[op] = Q
      BY <1>2, <1>3, <1>7 DEF GlobalTyped
    <3>2. Filled(global', op) = now
      BY <1>10, <1>11 DEF Filled
    <3>3. Credit(op, global', passed'[op], Q)
      BY <1>10, <1>11, <3>1 DEF Credit
    <3> QED
      BY <1>9, <2>1, <3>1, <3>2, <3>3
  <2>2. CASE o # op
    <3>1. passed'[o] = passed[o] /\ rewound'[o] = rewound[o]
      BY <2>2, <1>3, <1>7 DEF GlobalTyped
    <3>2. Filled(global', o) = Filled(global, o)
      BY <2>2, <1>11 DEF Filled
    <3>3. Overlaps(rewound[o], GlobalDue, Filled(global, o), clock)
          /\ Credit(o, global, passed[o], rewound[o])
      BY DEF CeilingInv
    <3>4. Overlaps(rewound[o], GlobalDue', Filled(global, o), clock)
      <4> DEFINE D == GlobalDue
                 E == GlobalDue'
      <4>1. Overlaps(rewound[o], D, Filled(global, o), clock)
        BY <3>3
      <4>2. E \in [Threads -> 0 .. clock] /\ \A u \in Threads : D[u] =< E[u]
        BY <1>8
      <4>3. clock \in Nat /\ clock =< clock
        BY <1>3 DEF GlobalTyped
      <4> HIDE DEF D, E
      <4>4. Overlaps(rewound[o], E, Filled(global, o), clock)
        BY <4>1, <4>2, <4>3, OverlapsLater
      <4> QED
        BY <4>4 DEF E
    <3>5. Credit(o, global', passed[o], rewound[o])
      BY <2>2, <1>11, <3>3 DEF Credit
    <3> QED
      BY <3>1, <3>2, <3>4, <3>5
  <2> QED
    BY <2>1, <2>2
<1> QED
  BY <1>7, <1>13, <1>14 DEF CeilingInv

\* A step that leaves the global buckets alone.
LEMMA CeilingRest ==
    ASSUME CeilingInv, GlobalTyped', UNCHANGED <<global, passed, rewound>>, clock =< clock',
           \A u \in Threads : work'[u] = work[u] \/ work'[u].pc # "global" \/ work'[u].now = clock
    PROVE  CeilingInv'
<1>1. clock \in Nat /\ clock' \in Nat
  BY DEF CeilingInv, GlobalTyped
<1> SUFFICES ASSUME NEW op \in Ops
             PROVE  /\ Overlaps(rewound[op], GlobalDue', Filled(global, op), clock')
                    /\ Credit(op, global, passed[op], rewound[op])
  BY DEF CeilingInv
<1> DEFINE D == GlobalDue
           E == GlobalDue'
<1>2. Overlaps(rewound[op], D, Filled(global, op), clock) /\ Credit(op, global, passed[op], rewound[op])
  BY DEF CeilingInv
<1>3. \A u \in Threads : D[u] \in 0 .. clock
  BY <1>2 DEF Overlaps
<1>4. \A u \in Threads : D[u] = Due(work[u], clock, {"global"}) /\ E[u] = Due(work'[u], clock', {"global"})
  BY DEF GlobalDue
<1>5. ASSUME NEW u \in Threads PROVE E[u] \in 0 .. clock' /\ D[u] =< E[u]
  <2>1. CASE work'[u].pc # "global"
    BY <1>1, <1>3, <1>4, <2>1 DEF Due
  <2>2. CASE work'[u].pc = "global" /\ work'[u].now = clock
    BY <1>1, <1>3, <1>4, <2>2 DEF Due
  <2>3. CASE work'[u].pc = "global" /\ work'[u] = work[u]
    BY <1>1, <1>3, <1>4, <2>3 DEF Due
  <2> QED
    BY <2>1, <2>2, <2>3
<1>6. E = [u \in Threads |-> E[u]]
  BY DEF GlobalDue
<1> HIDE DEF D, E
<1>7. E \in [Threads -> 0 .. clock'] /\ \A u \in Threads : D[u] =< E[u]
  BY <1>5, <1>6
<1>8. Overlaps(rewound[op], E, Filled(global, op), clock')
  BY <1>1, <1>2, <1>7, OverlapsLater
<1> QED
  BY <1>2, <1>8 DEF E

\* No step of any thread through allow disturbs the account.
LEMMA CeilingStep ==
    ASSUME CeilingInv, [Next]_vars
    PROVE  CeilingInv'
<1>0. GlobalTyped
  BY DEF CeilingInv
<1>1. ASSUME NEW t \in Threads, NEW k \in Keys, Call(t, k) PROVE CeilingInv'
  <2>1. /\ work' = [work EXCEPT ![t] = [pc |-> "global", key |-> k, now |-> clock]]
        /\ UNCHANGED <<clock, global, passed, rewound>>
    BY <1>1 DEF Call, history
  <2>2. GlobalTyped' /\ clock =< clock'
    BY <1>0, <2>1 DEF GlobalTyped
  <2>3. \A u \in Threads : work'[u] = work[u] \/ work'[u].now = clock
    BY <1>0, <2>1 DEF GlobalTyped
  <2> QED
    BY <2>1, <2>2, <2>3, CeilingRest
<1>2. ASSUME NEW t \in Threads, TakeGlobal(t) PROVE CeilingInv'
  BY <1>2, CeilingTakeGlobal
<1>3. ASSUME NEW t \in Threads, TakeTenant(t) PROVE CeilingInv'
  <2>1. work' = [work EXCEPT ![t] = Idle] /\ UNCHANGED <<clock, global, passed, rewound>>
    BY <1>3 DEF TakeTenant
  <2>2. GlobalTyped' /\ clock =< clock'
    BY <1>0, <2>1 DEF GlobalTyped
  <2>3. \A u \in Threads : work'[u] = work[u] \/ work'[u].pc # "global"
    BY <1>0, <2>1 DEF GlobalTyped, Idle
  <2> QED
    BY <2>1, <2>2, <2>3, CeilingRest
<1>4. CASE Tick
  <2>1. clock' = clock + 1 /\ UNCHANGED <<global, passed, work, rewound>>
    BY <1>4 DEF Tick, history
  <2>2. GlobalTyped' /\ clock =< clock'
    BY <1>0, <2>1 DEF GlobalTyped
  <2> QED
    BY <2>1, <2>2, CeilingRest
<1>5. CASE UNCHANGED vars
  <2>1. UNCHANGED <<clock, global, passed, work, rewound>>
    BY <1>5 DEF vars, history
  <2>2. GlobalTyped' /\ clock =< clock'
    BY <1>0, <2>1 DEF GlobalTyped
  <2> QED
    BY <2>1, <2>2, CeilingRest
<1> QED
  BY <1>1, <1>2, <1>3, <1>4, <1>5 DEF Next

\* The account bounds the ceiling.
LEMMA CeilingFollows == CeilingInv => CeilingPerThread
<1> SUFFICES ASSUME CeilingInv, NEW op \in Ops
             PROVE  passed[op] =< GlobalCapacity + GlobalRefill * (Cardinality(Threads) * clock)
  BY DEF CeilingPerThread
<1> DEFINE y == Cardinality(Threads) * clock
           x == Cardinality(rewound[op])
<1>0. passed[op] \in Nat /\ clock \in Nat
  BY DEF CeilingInv, GlobalTyped
<1>1. Overlaps(rewound[op], GlobalDue, Filled(global, op), clock)
  BY DEF CeilingInv
<1>2. x \in Nat /\ Cardinality(Threads) \in Nat
  BY <1>1, OverlapsFinite
<1>3. Filled(global, op) + x =< y
  BY <1>1, OverlapsCount
<1>4. y \in Nat
  BY <1>0, <1>2
<1> HIDE DEF y, x
<1>5. GlobalRefill * y \in Nat /\ GlobalCapacity \in Nat /\ GlobalRefill \in Nat
  BY <1>4, GlobalConstants, Products
<1>6. CASE op \in DOMAIN global
  <2> DEFINE z == global[op].last + x
  <2>1. /\ global[op].tokens \in Nat /\ global[op].last \in Nat
        /\ passed[op] + global[op].tokens =< GlobalCapacity + GlobalRefill * z
    BY <1>6 DEF CeilingInv, GlobalTyped, Credit, x
  <2>2. z \in Nat /\ z =< y
    BY <1>2, <1>3, <1>6, <2>1 DEF Filled
  <2> HIDE DEF z
  <2>3. GlobalRefill * z =< GlobalRefill * y /\ GlobalRefill * z \in Nat
    BY <1>4, <1>5, <2>2, Products
  <2>4. passed[op] =< GlobalCapacity + GlobalRefill * y
    BY <1>0, <1>5, <2>1, <2>3
  <2> QED
    BY <2>4 DEF y
<1>7. CASE op \notin DOMAIN global
  <2>1. passed[op] = 0
    BY <1>7 DEF CeilingInv, Credit
  <2>2. passed[op] =< GlobalCapacity + GlobalRefill * y
    BY <1>5, <2>1
  <2> QED
    BY <2>2 DEF y
<1> QED
  BY <1>6, <1>7

\* What the per-operation ceiling of limits.rs comes to with any number of
\* threads, whatever the tenants, the capacity and the refill: never more calls
\* pass than a full bucket and the refill of the time gone by, once per thread.
\* For one thread that is the ceiling of limits.rs:35 itself.
THEOREM CeilingBinds == Spec => []CeilingPerThread
<1>1. Init => CeilingInv
  BY CeilingInit, GlobalTypedInit DEF Init
<1>2. CeilingInv /\ [Next]_vars => CeilingInv'
  BY CeilingStep
<1> QED
  BY <1>1, <1>2, CeilingFollows, PTL DEF Spec

-----------------------------------------------------------------------------
(* The headroom, for any number of threads.                                *)

HeadroomInv == GlobalTyped /\ HeadroomKept

\* A call through a bucket, however stale its reading of the clock, leaves what
\* is missing from it accounted for.
LEMMA TakeKeepsHeadroom ==
    ASSUME NEW b, b.tokens \in Nat, b.last \in Nat,
           NEW now \in Nat, NEW cap \in Nat, NEW r \in Nat, NEW n \in Nat,
           b.tokens + n >= cap
    PROVE  LET a == take(b, now, cap, r) IN
           /\ a.tokens \in Nat /\ a.last \in Nat
           /\ IF Took(b, now, cap, r) THEN a.tokens + (n + 1) >= cap ELSE a.tokens + n >= cap
<1> DEFINE m == Refilled(b, now, cap, r)
           e == Elapsed(now, b.last) * r
<1>1. e \in Nat
  <2>1. Elapsed(now, b.last) \in Nat
    BY DEF Elapsed
  <2>2. ASSUME NEW x \in Nat PROVE x * r \in Nat
    OBVIOUS
  <2> QED
    BY <2>1, <2>2
<1>2. m = IF b.tokens + e < cap THEN b.tokens + e ELSE cap
  BY DEF Refilled, Minimum
<1>3. /\ take(b, now, cap, r).tokens = IF m >= 1 THEN m - 1 ELSE m
      /\ take(b, now, cap, r).last = now
  BY DEF take
<1>4. Took(b, now, cap, r) <=> m >= 1
  BY DEF Took
<1> HIDE DEF m, e
<1>5. m \in Nat /\ m + n >= cap
  BY <1>1, <1>2
<1> QED
  BY <1>3, <1>4, <1>5

\* The step of any thread through the global lock.
LEMMA HeadroomTakeGlobal ==
    ASSUME NEW t \in Threads, HeadroomInv, TakeGlobal(t)
    PROVE  HeadroomInv'
<1> DEFINE op  == work[t].key[2]
           now == work[t].now
           b   == Entry(global, op, GlobalCapacity, now)
           a   == take(b, now, GlobalCapacity, GlobalRefill)
           ok  == Took(b, now, GlobalCapacity, GlobalRefill)
<1> USE DEF HeadroomInv
<1>1. work[t].pc = "global" /\ work[t] \in [pc : {"global", "tenant"}, key : Keys, now : Nat]
  BY DEF TakeGlobal, GlobalTyped, Idle
<1>2. op \in Ops /\ now \in Nat
  BY <1>1 DEF Keys
<1>3. /\ b.tokens \in Nat /\ b.last \in Nat
      /\ passed[op] \in Nat
      /\ b.tokens + passed[op] >= GlobalCapacity
  <2>1. passed[op] \in Nat
    BY <1>2 DEF GlobalTyped
  <2>2. CASE op \in DOMAIN global
    BY <2>1, <2>2 DEF Entry, GlobalTyped, HeadroomKept
  <2>3. CASE op \notin DOMAIN global
    BY <1>2, <2>1, <2>3, GlobalConstants DEF Entry
  <2> QED
    BY <2>2, <2>3
<1>4. /\ a.tokens \in Nat /\ a.last \in Nat
      /\ IF ok THEN a.tokens + (passed[op] + 1) >= GlobalCapacity
               ELSE a.tokens + passed[op] >= GlobalCapacity
  <2> HIDE DEF b, op, now
  <2> QED
    BY <1>2, <1>3, GlobalConstants, TakeKeepsHeadroom
<1>5. /\ global' = Put(global, op, a)
      /\ clock' = clock
      /\ passed' = IF ok THEN [passed EXCEPT ![op] = @ + 1] ELSE passed
      /\ work' = IF ok THEN [work EXCEPT ![t].pc = "tenant"] ELSE [work EXCEPT ![t] = Idle]
      /\ rewound' = [rewound EXCEPT ![op] = @ \cup Over(t, now, b.last)]
  BY DEF TakeGlobal
<1> HIDE DEF op, now, b, a, ok
<1>6. /\ DOMAIN global' = DOMAIN global \cup {op}
      /\ global'[op] = a
      /\ \A o \in DOMAIN global : o # op => global'[o] = global[o]
  BY <1>5 DEF Put
<1>7. GlobalTyped'
  <2>1. passed' \in [Ops -> Nat]
    BY <1>2, <1>5 DEF GlobalTyped
  <2>2. work' \in [Threads -> {Idle} \cup [pc : {"global", "tenant"}, key : Keys, now : Nat]]
    BY <1>1, <1>5 DEF GlobalTyped
  <2>3. \A o \in DOMAIN global' : global'[o].tokens \in Nat /\ global'[o].last \in Nat
    BY <1>2, <1>4, <1>6 DEF GlobalTyped
  <2>4. rewound' \in [Ops -> SUBSET (Threads \X Nat)]
    <3>1. Over(t, now, b.last) \subseteq Threads \X Nat
      BY <1>2, <1>3, OverTyped
    <3> QED
      BY <1>2, <1>5, <3>1 DEF GlobalTyped
  <2> QED
    BY <1>2, <1>5, <1>6, <2>1, <2>2, <2>3, <2>4 DEF GlobalTyped
<1>8. HeadroomKept'
  <2> SUFFICES ASSUME NEW o \in DOMAIN global'
               PROVE  global'[o].tokens + passed'[o] >= GlobalCapacity
    BY DEF HeadroomKept, GlobalCapacity
  <2>1. CASE o = op
    <3>1. passed'[op] = IF ok THEN passed[op] + 1 ELSE passed[op]
      BY <1>2, <1>5 DEF GlobalTyped
    <3> QED
      BY <2>1, <3>1, <1>4, <1>6
  <2>2. CASE o # op
    <3>1. o \in DOMAIN global /\ passed'[o] = passed[o]
      BY <2>2, <1>5, <1>6 DEF GlobalTyped
    <3> QED
      BY <2>2, <3>1, <1>6 DEF HeadroomKept
  <2> QED
    BY <2>1, <2>2
<1> QED
  BY <1>7, <1>8

\* RateLimiter::new: no bucket that could be short.
LEMMA HeadroomInit ==
    ASSUME GlobalTyped, DOMAIN global = {}
    PROVE  HeadroomInv
BY DEF HeadroomInv, HeadroomKept

\* No step of any thread through allow spends headroom on nothing.
LEMMA HeadroomStep ==
    ASSUME HeadroomInv, [Next]_vars
    PROVE  HeadroomInv'
<1> USE DEF HeadroomInv
<1>1. ASSUME NEW t \in Threads, NEW k \in Keys, Call(t, k) PROVE HeadroomInv'
  <2>1. /\ work' = [work EXCEPT ![t] = [pc |-> "global", key |-> k, now |-> clock]]
        /\ UNCHANGED <<clock, global, passed, rewound>>
    BY <1>1 DEF Call, history
  <2> QED
    BY <2>1 DEF GlobalTyped, HeadroomKept
<1>2. ASSUME NEW t \in Threads, TakeGlobal(t) PROVE HeadroomInv'
  BY <1>2, HeadroomTakeGlobal
<1>3. ASSUME NEW t \in Threads, TakeTenant(t) PROVE HeadroomInv'
  <2>1. work' = [work EXCEPT ![t] = Idle] /\ UNCHANGED <<clock, global, passed, rewound>>
    BY <1>3 DEF TakeTenant
  <2> QED
    BY <2>1 DEF GlobalTyped, HeadroomKept
<1>4. CASE Tick
  <2>1. clock' = clock + 1 /\ UNCHANGED <<global, work, passed, rewound>>
    BY <1>4 DEF Tick, history
  <2> QED
    BY <2>1 DEF GlobalTyped, HeadroomKept
<1>5. CASE UNCHANGED vars
  BY <1>5 DEF vars, history, GlobalTyped, HeadroomKept
<1> QED
  BY <1>1, <1>2, <1>3, <1>4, <1>5 DEF Next

\* Until GlobalCapacity calls of an operation have passed, the global ceiling
\* refuses none of them, whichever threads and tenants they come from and in
\* whatever order they reach it.
THEOREM HeadroomForAll == Spec => []HeadroomKept
<1>1. Init => HeadroomInv
  <2> SUFFICES ASSUME Init PROVE HeadroomInv
    OBVIOUS
  <2>1. GlobalTyped
    BY GlobalTypedInit
  <2>2. DOMAIN global = {}
    BY GlobalTypedInit
  <2> QED
    BY <2>1, <2>2, HeadroomInit
<1>2. HeadroomInv /\ [Next]_vars => HeadroomInv'
  BY HeadroomStep
<1>3. HeadroomInv => HeadroomKept
  BY DEF HeadroomInv
<1> QED
  BY <1>1, <1>2, <1>3, PTL DEF Spec
=============================================================================
