------------------------------- MODULE MCLogin -------------------------------
(* Instances of Login for TLC.                                             *)
EXTENDS Login, TLC
CONSTANTS h1, h2, r1, r2, a, b, x, ua, ub, ux, k, m

\* One registered client with one redirect, and every request over that
\* client, an unknown one, its redirect and another.
MCOneClient == [c \in {a} |-> {ua}]
MCAllParams == [client : {a, x}, redirect : {ua, ux}, rest : BOOLEAN]
MCOneParam == [client : {a}, redirect : {ua}, rest : {TRUE}]

\* Two clients, each asking for its own redirect or the other's.
MCTwoClients == [c \in {a, b} |-> IF c = a THEN {ua} ELSE {ub}]
MCCrossParams == [client : {a, b}, redirect : {ua, ub}, rest : {TRUE}]

\* Beside a login here, one that nobody touched anything for; and a
\* registration, a login on another origin and one for another relying party.
MCUntouched == {LoginHere, [LoginHere EXCEPT !.up = FALSE]}
MCElsewhere ==
    {LoginHere,
     [LoginHere EXCEPT !.type = "webauthn.create"],
     [LoginHere EXCEPT !.origin = "https://1d.example"],
     [LoginHere EXCEPT !.rp_id = "other.example"]}

MCOwnKeys == [c \in Creds |-> {c}]
MCOneUnusable == [c \in Creds |-> IF c = m THEN {c, UnsupportedKey} ELSE {c}]

MCSymmetry == Permutations(Handlers)
=============================================================================
