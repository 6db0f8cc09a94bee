--------------------------- MODULE MCTokenEndpoint ---------------------------
(* An instance of TokenEndpoint, and with it of CodeStore, for TLC.        *)
EXTENDS TokenEndpoint, TLC
CONSTANTS t1, t2, c1, c2, a, b, r, s, v1, v2, j1, j2, k1, k2, noJti, noTok

MCGrants == {[client |-> a, redirect |-> r, challenge |-> v1],
             [client |-> b, redirect |-> s, challenge |-> v1]}

Good(j, i, k) == [form |-> TRUE, htm |-> "POST", htu |-> TokenURL, iat |-> i,
                  ath |-> noTok, key |-> k, jti |-> j]
\* A proof of now, one dated ahead, and one for another endpoint.
MCProofs == {Good(j1, 0, k1), Good(j2, 1, k2), [Good(j1, 0, k2) EXCEPT !.htu = "api"]}

MCSymmetry == Permutations(Threads)
=============================================================================
