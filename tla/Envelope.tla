------------------------------ MODULE Envelope ------------------------------
(***************************************************************************)
(* The Guard's cryptography as algebra (crypto/src/provider.rs,            *)
(* providers/software.rs): a sealed value remembers the key and the        *)
(* associated data it was sealed under and opens only for the same two.    *)
(* Keys are tuples that begin with "key"; only they fit the cipher.        *)
(*                                                                         *)
(* Nonces are left out: they make equal messages look different, and       *)
(* nothing here depends on that.                                           *)
(***************************************************************************)
EXTENDS Naturals, Result

ProviderError == {"UnknownKey", "Backend", "Decrypt"}

\* The handles main.rs creates.
KEK      == "kek-v1"
IndexKey == "blind-index-v1"

\* SoftwareProvider.with_key and the lookups of its keys.
with_key(keys, handle, material) ==
    [h \in DOMAIN keys \cup {handle} |-> IF h = handle THEN material ELSE keys[h]]
lookup(keys, handle) ==
    IF handle \in DOMAIN keys THEN Ok(keys[handle]) ELSE Err("UnknownKey")

\* Aes256Gcm::new_from_slice: 32 bytes.
IsKey(k) == k[1] = "key"

\* Variant: the tenant is not bound.
AadDomainOnly(domain, tenant) == <<domain>>
\* Length-framed, hence injective.
aad(domain, tenant) == <<domain, tenant>>

aead_seal(key, ad, message) ==
    IF IsKey(key) THEN Ok([key |-> key, ad |-> ad, message |-> message])
    ELSE Err("Backend")

aead_open(key, ad, sealed) ==
    IF ~IsKey(key) THEN Err("Backend")
    ELSE IF sealed.key = key /\ sealed.ad = ad THEN Ok(sealed.message)
    ELSE Err("Decrypt")

\* Bytes that nobody sealed, too short ones included.
Garbage == [key |-> <<"none">>, ad |-> << >>, message |-> <<"none">>]

\* Variant: a failed unwrapping is reported as what it is.
UnwrapSayingSo(keys, kek, tenant, wrapped) ==
    LET k == lookup(keys, kek)
        dek == aead_open(k.value, aad("aiauth/dek-wrap/v1", tenant), wrapped)
    IN  IF dek.ok THEN dek ELSE Err("Backend")
unwrap_dek(keys, kek, tenant, wrapped) ==
    LET k == lookup(keys, kek) IN
    IF k.ok THEN aead_open(k.value, aad("aiauth/dek-wrap/v1", tenant), wrapped) ELSE k

\* `dek` is the fresh key.
generate_wrapped_dek(keys, kek, tenant, dek) ==
    LET k == lookup(keys, kek) IN
    IF k.ok THEN aead_seal(k.value, aad("aiauth/dek-wrap/v1", tenant), dek) ELSE k

encrypt_field(keys, kek, tenant, wrapped, plaintext) ==
    LET dek == unwrap_dek(keys, kek, tenant, wrapped) IN
    IF dek.ok THEN aead_seal(dek.value, aad("aiauth/field/v1", tenant), plaintext) ELSE dek

decrypt_field(keys, kek, tenant, wrapped, ciphertext) ==
    LET dek == unwrap_dek(keys, kek, tenant, wrapped) IN
    IF dek.ok THEN aead_open(dek.value, aad("aiauth/field/v1", tenant), ciphertext) ELSE dek

\* Variant: the tenant is not mixed into the index.
IndexWithoutTenant(keys, key, tenant, input) ==
    LET k == lookup(keys, key) IN
    IF k.ok THEN Ok(<<k.value, "aiauth/blind-index/v1", input>>) ELSE k
\* The HMAC of a framed, hence unambiguous, message; it takes keys of any length.
blind_index(keys, key, tenant, input) ==
    LET k == lookup(keys, key) IN
    IF k.ok THEN Ok(<<k.value, "aiauth/blind-index/v1", tenant, input>>) ELSE k
=============================================================================
