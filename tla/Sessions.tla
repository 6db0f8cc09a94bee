------------------------------ MODULE Sessions ------------------------------
(***************************************************************************)
(* Whether a still-valid token may still be used: access tokens as         *)
(* tokens.Signer mints and tokens.Verifier accepts them, the in-memory     *)
(* sessions.Revocations, and the Require middleware that guards every      *)
(* protected route (internal/tokens/sign.go, internal/sessions).           *)
(*                                                                         *)
(* Time is in ticks, Second of them to a second, because the parts round   *)
(* differently: a token carries whole seconds (iat and exp are rounded     *)
(* down), a cutoff and every comparison keep full precision.               *)
(*                                                                         *)
(* Require reads the clock in Verify and consults the revocations later,   *)
(* after the DPoP check; revocations happen in between.  The proof itself  *)
(* is the subject of module DPoPVerifier; here it passes or it does not.   *)
(***************************************************************************)
EXTENDS Integers, FiniteSets, Functions

CONSTANTS
    Handlers,        \* protected requests served at the same time
    Jtis,            \* the values Signer.Issue will draw: each at most once
    Users,           \* subjectKey: records [tenant, subject]
    Second,          \* ticks per second
    CodeTTL, AccessTokenTTL, Leeway,
    MaxClock,        \* bound: the last instant explored
    MaxLogins,       \* bound: logins waiting for their token exchange
    MaxRestarts      \* bound: process restarts explored

ASSUME SessionsConstants ==
    /\ Second \in Nat \ {0} /\ AccessTokenTTL \in Nat \ {0}
    /\ {CodeTTL, Leeway, MaxClock, MaxLogins, MaxRestarts} \subseteq Nat

VARIABLES
    clock,
    grants,          \* logins whose code was not exchanged yet: [user, authTime]
    minted,          \* jti -> claims, for every token ever issued
    tokens,          \* Revocations.tokens: jti -> forget-after
    subjects,        \* Revocations.subjects: user -> cutoff
    tenants,         \* Revocations.tenants: tenant -> cutoff
    work,            \* handler -> the verified token it is about to look up
    killed,          \* history: tokens some completed revocation was to kill
    served,          \* history: requests let through, with what was known
    epoch            \* the signing key: generated at boot

revocations == <<tokens, subjects, tenants>>
history     == <<killed, served>>
vars        == <<clock, grants, minted, revocations, work, history, epoch>>

Tenants == {u.tenant : u \in Users}
Put(f, k, v) == [x \in DOMAIN f \cup {k} |-> IF x = k THEN v ELSE f[x]]

Idle == [busy |-> FALSE]

Init ==
    /\ clock = 0
    /\ grants = {}
    /\ minted = << >>
    /\ tokens = << >>
    /\ subjects = << >>
    /\ tenants = << >>
    /\ work = [h \in Handlers |-> Idle]
    /\ killed = [how \in {"token", "cutoff"} |-> {}]
    /\ served = {}
    /\ epoch = 0

-----------------------------------------------------------------------------
(* Logins and tokens.                                                      *)

\* A login ceremony ends in an authorization code (modules Login, CodeStore).
Authenticate(u) ==
    /\ Cardinality(grants) < MaxLogins
    /\ grants' = grants \cup {[user |-> u, authTime |-> clock]}
    /\ UNCHANGED <<clock, minted, revocations, work, history, epoch>>

\* Variant: rounded up.
UnixRoundedUp(t) == ((t + Second - 1) \div Second) * Second
\* time.Time.Unix: whole seconds, rounded down.
Unix(t) == (t \div Second) * Second

Expiry(t) == Unix(t + AccessTokenTTL)

\* Signer.Issue; `at` and `authTime` are history, not claims.
Mint(g) == [user |-> g.user, iat |-> Unix(clock), exp |-> Expiry(clock),
            at |-> clock, authTime |-> g.authTime, key |-> epoch]

\* The token endpoint redeems the code and Signer.Issue mints the token.
Exchange(j, g) ==
    /\ j \notin DOMAIN minted
    /\ clock =< g.authTime + CodeTTL
    /\ grants' = grants \ {g}
    /\ minted' = Put(minted, j, Mint(g))
    /\ UNCHANGED <<clock, revocations, work, history, epoch>>

-----------------------------------------------------------------------------
(* Revocations                                                             *)

\* Variant: revocations are swept once their instant is reached.
SweepEarly(m) == Restrict(m, {j \in DOMAIN m : clock < m[j]})
sweepLocked(m) == Restrict(m, {j \in DOMAIN m : clock =< m[j]})

Kill(how, js) == killed' = [killed EXCEPT ![how] = @ \cup js]

\* forgetAfter is the token's expiry, as the method asks of its callers.
RevokeToken(j) ==
    /\ tokens' = sweepLocked(Put(tokens, j, minted[j].exp))
    /\ Kill("token", {j})
    /\ UNCHANGED <<clock, grants, minted, subjects, tenants, work, served, epoch>>

RevokeSubject(u) ==
    /\ subjects' = Put(subjects, u, clock)
    /\ Kill("cutoff", {j \in DOMAIN minted : minted[j].user = u})
    /\ UNCHANGED <<clock, grants, minted, tokens, tenants, work, served, epoch>>

RevokeTenant(t) ==
    /\ tenants' = Put(tenants, t, clock)
    /\ Kill("cutoff", {j \in DOMAIN minted : minted[j].user.tenant = t})
    /\ UNCHANGED <<clock, grants, minted, tokens, subjects, work, served, epoch>>

\* Variant: a token issued in the cutoff's own second passes.
AtOrBeforeExclusive(iat, cutoffs, k) == k \in DOMAIN cutoffs /\ iat < Unix(cutoffs[k])
\* Variant: the cutoff reaches into the next second.
AtOrBeforeNextSecond(iat, cutoffs, k) ==
    k \in DOMAIN cutoffs /\ iat =< Unix(cutoffs[k]) + Second
\* !issuedAt.After(cutoff)
AtOrBefore(iat, cutoffs, k) == k \in DOMAIN cutoffs /\ iat =< cutoffs[k]

IsRevoked(j) ==
    LET c == minted[j] IN
    \/ j \in DOMAIN tokens
    \/ AtOrBefore(c.iat, subjects, c.user)
    \/ AtOrBefore(c.iat, tenants, c.user.tenant)

-----------------------------------------------------------------------------
(* Require                                                                 *)

\* tokens.Verifier.Verify: signed by this key and, with leeway, in its time.
Acceptable(j) ==
    /\ minted[j].key = epoch
    /\ clock =< minted[j].exp + Leeway
    /\ clock >= minted[j].iat - Leeway

VerifyToken(h, j) ==
    /\ ~work[h].busy
    /\ Acceptable(j)
    /\ work' = [work EXCEPT ![h] = [busy |-> TRUE, jti |-> j]]
    /\ UNCHANGED <<clock, grants, minted, revocations, history, epoch>>

\* The token is unbound, or there is no valid DPoP proof by its key.
RefuseProof(h) ==
    /\ work[h].busy
    /\ work' = [work EXCEPT ![h] = Idle]
    /\ UNCHANGED <<clock, grants, minted, revocations, history, epoch>>

\* The revocation check, last before the protected handler.
Decide(h) ==
    LET j == work[h].jti IN
    /\ work[h].busy
    /\ served' = IF IsRevoked(j) THEN served
                 ELSE served \cup {[jti |-> j, expired |-> clock > minted[j].exp,
                                    killed |-> {how \in DOMAIN killed : j \in killed[how]}]}
    /\ work' = [work EXCEPT ![h] = Idle]
    /\ UNCHANGED <<clock, grants, minted, revocations, killed, epoch>>

-----------------------------------------------------------------------------

Tick ==
    /\ clock < MaxClock
    /\ clock' = clock + 1
    /\ UNCHANGED <<grants, minted, revocations, work, history, epoch>>

\* A new process: empty revocations and codes, and a new signing key.
Restart ==
    /\ epoch < MaxRestarts
    /\ epoch' = epoch + 1
    /\ grants' = {}
    /\ tokens' = << >> /\ subjects' = << >> /\ tenants' = << >>
    /\ work' = [h \in Handlers |-> Idle]
    /\ UNCHANGED <<clock, minted, history>>

Next ==
    \/ \E u \in Users : Authenticate(u) \/ RevokeSubject(u)
    \/ \E t \in Tenants : RevokeTenant(t)
    \/ \E j \in Jtis, g \in grants : Exchange(j, g)
    \/ \E j \in DOMAIN minted : RevokeToken(j) \/ \E h \in Handlers : VerifyToken(h, j)
    \/ \E h \in Handlers : RefuseProof(h) \/ Decide(h)
    \/ Tick
    \/ Restart

Spec == Init /\ [][Next]_vars

-----------------------------------------------------------------------------
(* Properties                                                              *)

Claims == [user : Users, iat : Nat, exp : Nat, at : Nat, authTime : Nat, key : Nat]

TypeOK ==
    /\ clock \in Nat /\ epoch \in Nat
    /\ grants \subseteq [user : Users, authTime : Nat]
    /\ DOMAIN minted \subseteq Jtis
    /\ \A j \in DOMAIN minted : minted[j] \in Claims /\ minted[j].iat =< minted[j].at
    /\ DOMAIN tokens \subseteq DOMAIN minted
    /\ DOMAIN subjects \subseteq Users /\ DOMAIN tenants \subseteq Tenants
    /\ \A j \in DOMAIN tokens : tokens[j] \in Nat
    /\ \A u \in DOMAIN subjects : subjects[u] \in Nat
    /\ \A t \in DOMAIN tenants : tenants[t] \in Nat
    /\ work \in [Handlers -> {Idle} \cup [busy : {TRUE}, jti : Jtis]]

\* "kills every token this subject holds" (revoke.go:57,65): once RevokeSubject
\* or RevokeTenant has returned, no token minted before it passes the check,
\* even in a request that had already verified its signature, and even though
\* a restart empties the cutoffs.
CutoffIsFinal == \A s \in served : "cutoff" \notin s.killed

\* "RevokeToken kills one token" (revoke.go:48): until its own expiry, a
\* revoked token is never served.
RevokedUntilExpiry ==
    \A s \in served : "token" \in s.killed => s.expired

\* The same without the condition: a revoked token is never served again.
\* sweepLocked drops "jti entries whose tokens have expired anyway"
\* (revoke.go:96), but tokens.Verifier accepts them for another Leeway.
RevokedForGood == \A s \in served : "token" \notin s.killed

\* "Later logins are unaffected: the cutoff is an instant, not a ban"
\* (revoke.go:57), to the second: a token minted in a later second than the
\* last cutoff of its user and tenant, and not itself revoked, is not refused.
LaterSecondUnaffected ==
    \A j \in DOMAIN minted :
        /\ j \notin killed["token"]
        /\ minted[j].user \in DOMAIN subjects
              => Unix(minted[j].at) > Unix(subjects[minted[j].user])
        /\ minted[j].user.tenant \in DOMAIN tenants
              => Unix(minted[j].at) > Unix(tenants[minted[j].user.tenant])
        => ~IsRevoked(j)

\* "A token issued before a cutoff is dead; one issued after is a fresh login"
\* (revoke.go:87): after "log out everywhere", a request is only served on a
\* login made after it.
ServedOnFreshLogin ==
    \A s \in served :
        LET c == minted[s.jti] IN
        c.user \in DOMAIN subjects /\ subjects[c.user] < c.at
            => c.authTime >= subjects[c.user]
=============================================================================
