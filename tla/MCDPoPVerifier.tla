--------------------------- MODULE MCDPoPVerifier ---------------------------
(* Instances of DPoPVerifier for TLC.                                      *)
EXTENDS DPoPVerifier, TLC

CONSTANTS t1, t2, j1, j2, j3, tok, noTok, noJti, k1, k2

MCThreads == {t1, t2}
MCJtis == {j1, j2, j3}
MCSymmetry == Permutations(MCThreads)

Good(j, i) == [form |-> TRUE, htm |-> "POST", htu |-> "token", iat |-> i,
               ath |-> noTok, key |-> k1, jti |-> j]

\* Honest proofs, one dated in the future, one re-dated under its old jti,
\* and proofs that fail each of the checks.
MCProofs ==
    {Good(j1, 1), Good(j2, 0), Good(j1, 3)}
    \cup {[Good(j3, 1) EXCEPT !.form = FALSE], [Good(j3, 1) EXCEPT !.htm = "GET"],
          [Good(j3, 1) EXCEPT !.htu = "api"], Good(noJti, 1),
          [Good(j3, 1) EXCEPT !.htu = "api", !.ath = tok, !.key = k2],
          [Good(j3, 2) EXCEPT !.htu = "api", !.ath = tok]}

MCRequests ==
    {[method |-> "POST", uri |-> "token", token |-> noTok, jkt |-> k1],
     [method |-> "POST", uri |-> "api",   token |-> tok,   jkt |-> k1]}

=============================================================================
