------------------------------ MODULE CodeStore ------------------------------
(***************************************************************************)
(* The in-memory authorization code store, oidc.CodeStore                  *)
(* (internal/oidc/codes.go).  Every method holds the mutex from its first  *)
(* map access to its return, clock reading included, so each is one step.  *)
(* Restart is the death of the process: the map is memory.                 *)
(***************************************************************************)
EXTENDS Integers, Sequences, Functions

CONSTANTS
    Codes,       \* the values crypto/rand will produce: each at most once
    Grants,      \* what a code may stand for
    Clients, Redirects,
    CodeTTL,
    MaxClock     \* bound: the last instant explored

ASSUME CodeTTLAssumption == CodeTTL \in Nat
ASSUME GrantsAssumption  ==
    \A g \in Grants : g.client \in Clients /\ g.redirect \in Redirects
ASSUME MaxClockAssumption == MaxClock \in Nat

VARIABLES
    clock,
    codes,       \* CodeStore.codes: code -> grant with its expiresAt
    minted,      \* history: code -> [grant, at] for every code ever issued
    tried,       \* history: codes presented while they were in the store
    out          \* history: the redemptions that returned a grant

vars == <<clock, codes, minted, tried, out>>

Init ==
    /\ clock = 0
    /\ codes = << >>
    /\ minted = << >>
    /\ tried = {}
    /\ out = << >>

Put(f, k, v) == [x \in DOMAIN f \cup {k} |-> IF x = k THEN v ELSE f[x]]

evictExpiredLocked(cs) == Restrict(cs, {c \in DOMAIN cs : clock =< cs[c].expiresAt})

\* Variant: the lifetime is subtracted.
ExpiryBackwards(now) == now - CodeTTL
Expiry(now) == now + CodeTTL

Issue(c, g) ==
    /\ c \notin DOMAIN minted
    /\ codes' = Put(evictExpiredLocked(codes), c,
                    [grant |-> g, expiresAt |-> Expiry(clock)])
    /\ minted' = Put(minted, c, [grant |-> g, at |-> clock])
    /\ UNCHANGED <<clock, tried, out>>

\* Variant: the expiry is left to the sweep.
RedeemableUnswept(e, client, redirect) ==
    e.grant.client = client /\ e.grant.redirect = redirect
\* The checks, made after the delete.
Redeemable(e, client, redirect) ==
    /\ clock =< e.expiresAt
    /\ e.grant.client = client
    /\ e.grant.redirect = redirect

\* Variant: only a successful redemption consumes the code.
DeleteOnSuccess(cs, c, ok) == IF ok THEN Restrict(cs, DOMAIN cs \ {c}) ELSE cs
\* Variant: Redeem only reads, the sweep deletes.
LeaveToSweep(cs, c, ok) == cs
\* The code is deleted before it is validated, whatever the outcome.
Delete(cs, c, ok) == Restrict(cs, DOMAIN cs \ {c})

Redeem(c, client, redirect) ==
    /\ c \in DOMAIN codes
    /\ LET ok == Redeemable(codes[c], client, redirect) IN
       /\ codes' = Delete(codes, c, ok)
       /\ out' = IF ok
                 THEN Append(out, [code |-> c, client |-> client,
                                   redirect |-> redirect, at |-> clock])
                 ELSE out
    /\ tried' = tried \cup {c}
    /\ UNCHANGED <<clock, minted>>

\* A code that is not in the map: consumed before, swept, lost with the
\* process or never issued.  The refusal, ErrCodeUnknown, consumes nothing.
RedeemUnknown(c) == c \notin DOMAIN codes /\ UNCHANGED vars

Tick == /\ clock < MaxClock
        /\ clock' = clock + 1
        /\ UNCHANGED <<codes, minted, tried, out>>

Restart == codes' = << >> /\ UNCHANGED <<clock, minted, tried, out>>

Next ==
    \/ \E c \in Codes, g \in Grants : Issue(c, g)
    \/ \E c \in Codes, client \in Clients, redirect \in Redirects :
          Redeem(c, client, redirect)
    \/ \E c \in Codes : RedeemUnknown(c)
    \/ Tick
    \/ Restart

Spec == Init /\ [][Next]_vars

-----------------------------------------------------------------------------
(* Properties                                                              *)

TypeOK ==
    /\ clock \in Nat
    /\ DOMAIN minted \subseteq Codes
    /\ \A c \in DOMAIN minted : minted[c] \in [grant : Grants, at : Nat]
    /\ DOMAIN codes \subseteq DOMAIN minted
    /\ \A c \in DOMAIN codes : codes[c] \in [grant : Grants, expiresAt : Nat]
    /\ tried \subseteq Codes
    /\ out \in Seq([code : Codes, client : Clients, redirect : Redirects, at : Nat])

\* An entry is the code's own grant and dies CodeTTL after it was issued.
EntriesMatch ==
    \A c \in DOMAIN codes :
        /\ codes[c].grant = minted[c].grant
        /\ codes[c].expiresAt = minted[c].at + CodeTTL

\* "an attacker who has stolen a code gets one attempt, not an oracle to
\* probe" (codes.go:84): a code that was presented once, by the right client
\* or not, in time or not, is never redeemable again.
OneAttempt == \A c \in tried : c \notin DOMAIN codes

\* "never a code that works twice" (codes.go:52), restarts included.
NeverTwice ==
    \A i, j \in DOMAIN out : i # j => out[i].code # out[j].code

\* Every redemption that returned a grant was an attempt on an issued code.
OutWasTried == /\ tried \subseteq DOMAIN minted
               /\ \A i \in DOMAIN out : out[i].code \in tried

\* The inductive invariant behind OneAttempt, NeverTwice and the refinement.
IInv == TypeOK /\ EntriesMatch /\ OneAttempt /\ OutWasTried /\ NeverTwice

\* The store keeps the promise of OneShot with no slack: every behaviour of
\* Issue, Redeem, the sweep and restarts is one of the abstract store.
Abstract == INSTANCE OneShot WITH TTL <- CodeTTL, Slack <- 0, live <- DOMAIN codes
RefinesOneShot == Abstract!Spec
=============================================================================
