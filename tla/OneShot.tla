------------------------------- MODULE OneShot -------------------------------
(***************************************************************************)
(* What an authorization code store promises, whatever keeps the codes     *)
(* (the Codes interface of internal/oidc/codes.go): a code stands for one  *)
(* grant, is handed out at most once, only to the client and redirect it   *)
(* was issued for, and never once it has expired.  A code may disappear at *)
(* any time (it expires, a wrong presenter burns it, a process dies): "the *)
(* failure mode is a login that must be retried, never a code that works   *)
(* twice" (codes.go:51).                                                   *)
(***************************************************************************)
EXTENDS Integers, Sequences

CONSTANTS
    Codes,     \* code values
    Grants,    \* what a code may stand for: records with client and redirect
    TTL,       \* CodeTTL
    Slack      \* how far the clocks involved may disagree

VARIABLES
    clock,
    minted,    \* code -> [grant, at], for every code ever issued
    live,      \* the issued codes that may still be redeemed
    out        \* the redemptions that returned a grant, in order

vars == <<clock, minted, live, out>>

Put(f, k, v) == [x \in DOMAIN f \cup {k} |-> IF x = k THEN v ELSE f[x]]

Init ==
    /\ clock = 0
    /\ minted = << >>
    /\ live = {}
    /\ out = << >>

\* A new code for a grant; old ones may be swept in the same step.
Issue(c, g) ==
    /\ c \notin DOMAIN minted
    /\ minted' = Put(minted, c, [grant |-> g, at |-> clock])
    /\ \E kept \in SUBSET live : live' = kept \cup {c}
    /\ UNCHANGED <<clock, out>>

\* The one redemption of a code, at the instant `at` by the true clock.
Deliver(c) ==
    LET g == minted[c].grant IN
    /\ c \in live
    /\ clock =< minted[c].at + TTL + Slack
    /\ live' = live \ {c}
    /\ out' = Append(out, [code |-> c, client |-> g.client,
                           redirect |-> g.redirect, at |-> clock])
    /\ UNCHANGED <<clock, minted>>

Lose ==
    /\ live' \in SUBSET live
    /\ UNCHANGED <<clock, minted, out>>

Tick == clock' = clock + 1 /\ UNCHANGED <<minted, live, out>>

Next ==
    \/ \E c \in Codes, g \in Grants : Issue(c, g)
    \/ \E c \in Codes : Deliver(c)
    \/ Lose
    \/ Tick

Spec == Init /\ [][Next]_vars

-----------------------------------------------------------------------------

\* "a code that works twice" never happens: two redemptions that returned a
\* grant were of different codes.
RedeemedOnce ==
    \A i, j \in DOMAIN out : i # j => out[i].code # out[j].code

\* A grant is only returned within the code's lifetime, to the client and at
\* the redirect URI the code was issued for.
RedeemedInTimeByOwner ==
    \A i \in DOMAIN out :
        LET c == out[i].code IN
        /\ c \in DOMAIN minted
        /\ out[i].client = minted[c].grant.client
        /\ out[i].redirect = minted[c].grant.redirect
        /\ out[i].at =< minted[c].at + TTL + Slack
=============================================================================
