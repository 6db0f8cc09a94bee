------------------------------ MODULE WebAuthn ------------------------------
(***************************************************************************)
(* The Guard's verification of one passkey assertion                       *)
(* (crypto/src/webauthn.rs), as data: the client data the browser wrote,   *)
(* the authenticator's data, and a signature that names its key and what   *)
(* it covers.  Parsing is a field that says whether it succeeds.           *)
(***************************************************************************)
EXTENDS Naturals, FiniteSetsExt, Result

\* A challenge is a positive number; this one is missing or does not decode.
NoChallenge == 0

\* Client data that is no JSON, authenticator data that is too short, and a
\* stored key that is no P-256 point.
NotJson        == [json |-> FALSE, type |-> "", challenge |-> NoChallenge, origin |-> ""]
Truncated      == [complete |-> FALSE, rp_id |-> "", up |-> FALSE, sign_count |-> 0]
UnsupportedKey == "unsupported"

Expectations(rp_id, origin, challenge, stored_sign_count) ==
    [rp_id |-> rp_id, origin |-> origin, challenge |-> challenge,
     stored_sign_count |-> stored_sign_count]

\* Zero means the authenticator does not keep a counter.
CountAdvances(sign_count, stored) == sign_count # 0 => sign_count > stored

\* What is signed.
Signed(auth, client) == [auth |-> auth, client |-> client]

\* Variant: the client data is not covered.
SignatureOverAuthOnly(key, auth, client, sig) == sig.key = key /\ sig.over.auth = auth
\* VerifyingKey::verify over authenticatorData || SHA-256(clientDataJSON)
SignatureHolds(key, auth, client, sig) == sig = [key |-> key, over |-> Signed(auth, client)]

\* Rejection, Rejection::code: the checks in their order, each with the code
\* of the rejection when it fails.
Checks(exp, key, auth, client, sig) == <<
    [code |-> "malformed_client_data",        ok |-> client.json],
    [code |-> "wrong_type",                   ok |-> client.type = "webauthn.get"],
    [code |-> "malformed_client_data",        ok |-> client.challenge # NoChallenge],
    [code |-> "challenge_mismatch",           ok |-> client.challenge = exp.challenge],
    [code |-> "origin_mismatch",              ok |-> client.origin = exp.origin],
    [code |-> "malformed_authenticator_data", ok |-> auth.complete],
    [code |-> "rp_id_mismatch",               ok |-> auth.rp_id = exp.rp_id],
    [code |-> "user_not_present",             ok |-> auth.up],
    [code |-> "sign_count_regression",        ok |-> CountAdvances(auth.sign_count, exp.stored_sign_count)],
    [code |-> "unsupported_key",              ok |-> key # UnsupportedKey],
    [code |-> "bad_signature",                ok |-> SignatureHolds(key, auth, client, sig)] >>

\* Verified's new_sign_count, or the code of the first check that fails.
verify(exp, key, auth, client, sig) ==
    LET checks == Checks(exp, key, auth, client, sig)
        failed == {i \in DOMAIN checks : ~checks[i].ok}
    IN  IF failed = {} THEN Ok(auth.sign_count) ELSE Err(checks[Min(failed)].code)
=============================================================================
