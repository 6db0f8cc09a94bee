---------------------------- MODULE DPoPVerifier ----------------------------
(***************************************************************************)
(* The DPoP proof verifier of the gateway (internal/dpop/verify.go): the   *)
(* checks of Verifier.Verify followed by the replay cache's admit.         *)
(*                                                                         *)
(* A verification is two steps, because other requests run between them:   *)
(*   Check  all the pure checks, with the clock read once (line 153);      *)
(*   Admit* the replay cache, under its mutex, with `until` computed from  *)
(*          the clock value of the first step and, when the cache is full, *)
(*          a second reading of the clock for the sweep.                   *)
(* Restart is the loss of the process and with it of the cache.            *)
(*                                                                         *)
(* Data: a URI stands for its class under sameURI (scheme and host folded, *)
(* query and fragment dropped); `form` is the conjunction of the checks    *)
(* that only look at the proof itself: three parts, base64, JSON, typ,     *)
(* alg, the embedded P-256 key and the signature by that key.              *)
(***************************************************************************)
EXTENDS Integers, Sequences, FiniteSets, Functions

CONSTANTS
    Threads,      \* concurrent requests being verified
    Jtis,         \* non-empty jti values
    Proofs,       \* the proofs clients may present
    Requests,     \* the requests a proof may accompany
    NoToken,      \* accessToken = "": the token endpoint
    NoJti,        \* a proof whose jti claim is empty
    MaxAge,       \* MaxAge, in ticks
    CacheMax,     \* replayCache.max
    MaxClock,     \* bound: the last instant explored
    MaxRestarts   \* bound: process restarts explored

ASSUME MaxAgeAssumption   == MaxAge \in Nat
ASSUME CacheMaxAssumption == CacheMax \in Nat \ {0}
ASSUME BoundsAssumption   == MaxClock \in Nat /\ MaxRestarts \in Nat
ASSUME ProofsAssumption   ==
    /\ NoJti \notin Jtis
    /\ \A p \in Proofs : p.iat \in Int /\ p.jti \in Jtis \cup {NoJti}

VARIABLES
    clock,        \* the process's clock
    inc,          \* which life of the process this is
    items,        \* replayCache.items: jti -> forget-after instant
    work,         \* per thread: the verification it is in the middle of
    uses          \* history: the proofs accepted, in order

vars == <<clock, inc, items, work, uses>>

Idle == [busy |-> FALSE]
Checked(p, now) == [busy |-> TRUE, proof |-> p, now |-> now]

Init ==
    /\ clock = 0
    /\ inc = 0
    /\ items = << >>
    /\ work = [t \in Threads |-> Idle]
    /\ uses = << >>

-----------------------------------------------------------------------------
(* Verify's checks, in the code's order.                                   *)

\* Parts, encodings, typ, alg, an embedded P-256 key and its signature.
WellFormed(p) == p.form

sameURI(p, r) == p.htu = r.uri

Fresh(p, now) == /\ now - p.iat =< MaxAge
                 /\ now - p.iat >= -MaxAge

BoundToToken(p, r) ==
    r.token # NoToken => /\ p.ath = r.token
                         /\ p.key = r.jkt

\* Variant: an empty jti is let through.
PassesWithoutJti(p, r, now) ==
    WellFormed(p) /\ p.htm = r.method /\ sameURI(p, r) /\ Fresh(p, now) /\ BoundToToken(p, r)
Passes(p, r, now) ==
    /\ WellFormed(p)
    /\ p.htm = r.method
    /\ sameURI(p, r)
    /\ Fresh(p, now)
    /\ BoundToToken(p, r)
    /\ p.jti # NoJti

\* A request arrives with a proof and runs up to the replay check.
Check(t) ==
    /\ ~work[t].busy
    /\ \E p \in Proofs, r \in Requests :
          /\ Passes(p, r, clock)
          /\ work' = [work EXCEPT ![t] = Checked(p, clock)]
    /\ UNCHANGED <<clock, inc, items, uses>>

-----------------------------------------------------------------------------
(* replayCache.admit                                                       *)

\* Variant: an entry lives for one MaxAge, forgetting future-dated proofs.
UntilOneMaxAge(now) == now + MaxAge
\* now.Add(2*MaxAge), from the clock Verify read before its checks.
Until(now) == now + 2 * MaxAge

\* Variant: an entry is deleted at, not after, its instant.
ForgetEarly(its, now) == Restrict(its, {j \in DOMAIN its : now < its[j]})
\* Only entries with now.After(exp) are deleted.
Forget(its, now) == Restrict(its, {j \in DOMAIN its : now =< its[j]})

\* The sweep runs only when the cache is full.
Swept(its, now) ==
    IF Cardinality(DOMAIN its) >= CacheMax THEN Forget(its, now) ELSE its

\* Variant: the bound is off by one.
FullOffByOne(its) == Cardinality(DOMAIN its) > CacheMax
Full(its) == Cardinality(DOMAIN its) >= CacheMax

\* Variant: the jti is checked and not stored.
RememberNothing(its, j, until) == its
Remember(its, j, until) == [k \in DOMAIN its \cup {j} |->
                              IF k = j THEN until ELSE its[k]]

AdmitSeen(t) ==
    /\ work[t].busy
    /\ work[t].proof.jti \in DOMAIN items
    /\ work' = [work EXCEPT ![t] = Idle]
    /\ UNCHANGED <<clock, inc, items, uses>>

AdmitFull(t) ==
    /\ work[t].busy
    /\ work[t].proof.jti \notin DOMAIN items
    /\ Full(Swept(items, clock))
    /\ items' = Swept(items, clock)
    /\ work' = [work EXCEPT ![t] = Idle]
    /\ UNCHANGED <<clock, inc, uses>>

AdmitNew(t) ==
    LET p == work[t].proof IN
    /\ work[t].busy
    /\ p.jti \notin DOMAIN items
    /\ ~Full(Swept(items, clock))
    /\ items' = Remember(Swept(items, clock), p.jti, Until(work[t].now))
    /\ uses' = Append(uses, [jti |-> p.jti, iat |-> p.iat, at |-> clock, inc |-> inc])
    /\ work' = [work EXCEPT ![t] = Idle]
    /\ UNCHANGED <<clock, inc>>

-----------------------------------------------------------------------------

Tick ==
    /\ clock < MaxClock
    /\ clock' = clock + 1
    /\ UNCHANGED <<inc, items, work, uses>>

\* newReplayCache: the cache is memory, a new process starts with none.
Restart ==
    /\ inc < MaxRestarts
    /\ inc' = inc + 1
    /\ items' = << >>
    /\ work' = [t \in Threads |-> Idle]
    /\ UNCHANGED <<clock, uses>>

Next ==
    \/ \E t \in Threads : Check(t) \/ AdmitSeen(t) \/ AdmitFull(t) \/ AdmitNew(t)
    \/ Tick
    \/ Restart

Spec == Init /\ [][Next]_vars

-----------------------------------------------------------------------------
(* Properties                                                              *)

TypeOK ==
    /\ clock \in Nat
    /\ inc \in Nat
    /\ DOMAIN items \subseteq Jtis
    /\ \A j \in DOMAIN items : items[j] \in Int
    /\ work \in [Threads -> {Idle} \cup [busy : {TRUE}, proof : Proofs, now : Nat]]
    /\ uses \in Seq([jti : Jtis, iat : Int, at : Nat, inc : Nat])

\* The replay cache "remembers jti values for as long as a proof could still
\* be fresh" (verify.go:245): a jti accepted by this process is in the cache
\* at every instant at which the same proof would still pass the age check,
\* whatever the sweep deleted and however long the verification stalled
\* between its age check and its admission.
FreshUseRemembered ==
    \A i \in DOMAIN uses :
        uses[i].inc = inc /\ clock =< uses[i].iat + MaxAge
            => uses[i].jti \in DOMAIN items

\* Two acceptances of one jti by one process: the second was admitted only
\* after the first proof's age had passed MaxAge, so a replay that is fresh
\* when the cache is consulted is always refused (verify.go:181).
NoFreshReplay ==
    \A i, j \in DOMAIN uses :
        i < j /\ uses[i].jti = uses[j].jti /\ uses[i].inc = uses[j].inc
            => uses[j].at > uses[i].iat + MaxAge

\* A verification waiting for the cache passed the age check with a clock
\* value that is not in the future and carries a non-empty jti.
InFlightChecked ==
    \A t \in Threads : work[t].busy =>
        /\ work[t].now =< clock
        /\ Fresh(work[t].proof, work[t].now)
        /\ work[t].proof.jti \in Jtis

\* While a proof could still be fresh, its entry is in the cache and is not
\* due before the proof is stale.
EntryOutlivesProof ==
    \A i \in DOMAIN uses :
        uses[i].inc = inc /\ clock =< uses[i].iat + MaxAge
            => /\ uses[i].jti \in DOMAIN items
               /\ uses[i].iat + MaxAge =< items[uses[i].jti]

UsesAreOfThePast == \A i \in DOMAIN uses : uses[i].inc =< inc

\* The inductive invariant behind FreshUseRemembered and NoFreshReplay.
IInv == /\ TypeOK
        /\ InFlightChecked
        /\ EntryOutlivesProof
        /\ UsesAreOfThePast
        /\ NoFreshReplay

\* The cache never holds more than max entries, although an attacker chooses
\* the jti values (verify.go:246, "Bounded").
CacheBounded == Cardinality(DOMAIN items) =< CacheMax

\* "a captured proof must not replay": one process never accepts one proof
\* twice. Refuted: Verify reads the clock before it takes the cache's lock,
\* and the sweep reads it again.
NoReplay ==
    \A i, j \in DOMAIN uses :
        i # j /\ uses[i].inc = uses[j].inc /\ uses[i].iat = uses[j].iat
            => uses[i].jti # uses[j].jti

=============================================================================
