------------------------------- MODULE Profile ------------------------------
(***************************************************************************)
(* Deployment profiles and the start of the Guard's process                *)
(* (crypto/src/profile.rs, main.rs): what main decides from its            *)
(* environment before it serves.                                           *)
(*                                                                         *)
(* AIAUTH_PROFILE is a word and whether it is spelled plainly, i.e. in     *)
(* lower case and without blanks around it; or it is not set, or set to    *)
(* bytes that are not Unicode.                                             *)
(***************************************************************************)
EXTENDS Result

Profiles == {"strict", "balanced", "legacy", "regulated"}

Unset      == [word |-> "none", plain |-> TRUE]
NotUnicode == [word |-> "undecodable", plain |-> FALSE]

\* std::env::var: an error if there is no value, and also if there is one that
\* is no string.
var(s) == IF s \in {Unset, NotUnicode} THEN Err("no string") ELSE Ok(s)

\* Variant: taken literally, and what is not understood is the default.
ParseOrDefault(s) == Ok(IF s.word \in Profiles /\ s.plain THEN s.word ELSE "strict")
\* Trimmed and lower-cased; an unknown word is an error.
parse(s) == IF s.word \in Profiles THEN Ok(s.word) ELSE Err("invalid profile")

default == "strict"

\* SoftwareProvider.attestation, of the one provider main constructs.
attestation == [module |-> "RustCrypto (hmac, sha2)", fips |-> FALSE]

ProviderNotValidated(profile, module) == [profile |-> profile, module |-> module]

check(profile, att) ==
    IF profile = "regulated" /\ ~att.fips
    THEN Err(ProviderNotValidated(profile, att.module))
    ELSE Ok(profile)

\* The three credential files and what may be wrong with each.
CredentialFiles == {"CRYPTO_CA_FILE", "CRYPTO_CERT_FILE", "CRYPTO_KEY_FILE"}
FileStates      == {"unset", "unreadable", "readable"}

\* required_env, must_read
Readable(env) == \A f \in CredentialFiles : env.files[f] = "readable"

\* main up to `serve`: the profile it goes on with, or why it exits.  Any error
\* of var means the default.  listens: the credentials make a TLS identity and
\* the address can be bound.
start(env) ==
    LET setting == var(env.profile)
        profile == IF setting.ok THEN parse(setting.value) ELSE Ok(default)
        checked == IF profile.ok THEN check(profile.value, attestation) ELSE profile
    IN
    IF ~Readable(env) THEN Err("missing credentials")
    ELSE IF checked.ok /\ ~env.listens THEN Err("cannot serve")
    ELSE checked
=============================================================================
