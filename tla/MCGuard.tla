------------------------------- MODULE MCGuard ------------------------------
(* An instance of Guard for TLC.                                           *)
EXTENDS Guard, TLC
CONSTANTS t1, acme, beta, secret, pin

MCOps == {"verify_assertion", "encrypt_field", "decrypt_field", "blind_index"}
MCSymmetry == Permutations(Tenants) \cup Permutations(Values)

\* Deployments that serve: with a profile set, if not plainly spelled, and with
\* one that cannot be read, which goes the way of none at all.
MCWord(w, p) == [word |-> w, plain |-> p]
MCDeployed(p) ==
    [files |-> [f \in CredentialFiles |-> "readable"], listens |-> TRUE, profile |-> p]
MCServing == {MCDeployed(MCWord("balanced", FALSE)), MCDeployed(NotUnicode)}

\* What may be wrong with one.
MCRefused ==
    {MCDeployed(MCWord("regulated", TRUE)), MCDeployed(MCWord("regulated", FALSE)),
     MCDeployed(MCWord("strcit", TRUE)), [MCDeployed(Unset) EXCEPT !.listens = FALSE]}
    \cup {[MCDeployed(Unset) EXCEPT !.files["CRYPTO_CA_FILE"] = s] : s \in {"unset", "unreadable"}}
MCEnvironments == MCServing \cup MCRefused
=============================================================================
