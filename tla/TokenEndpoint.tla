---------------------------- MODULE TokenEndpoint ----------------------------
(***************************************************************************)
(* The token endpoint (internal/oidc/token.go) over the in-memory code     *)
(* store and a DPoP verifier: a code is redeemed, its PKCE verifier and    *)
(* the client's proof are checked, and a token is signed.                  *)
(*                                                                         *)
(* An exchange touches the code store, the replay cache and the signer one *)
(* after the other, each under its own lock, so it is one step for each    *)
(* and other exchanges run in between.  The code store's state and actions *)
(* are those of CodeStore, the verifier's those of DPoPVerifier, on one    *)
(* clock and with one restart.                                             *)
(*                                                                         *)
(* Token.DPoP may be absent, in which case tokens are unbound; which it is *)
(* is decided when the process starts.                                     *)
(***************************************************************************)
EXTENDS CodeStore

CONSTANTS
    Threads,       \* exchanges served at the same time
    Verifiers,     \* PKCE verifiers; a challenge stands for its verifier
    Jtis, Proofs, NoJti,
    TokenURL,      \* Issuer + "/token"
    NoProof,       \* no DPoP header
    NoToken,       \* the proof accompanies no access token
    NoKey,         \* a token without a confirmation claim
    MaxAge, CacheMax,
    MaxRestarts

ASSUME EndpointConstants ==
    /\ MaxAge \in Nat /\ CacheMax \in Nat \ {0} /\ MaxRestarts \in Nat
    /\ NoJti \notin Jtis
    /\ \A p \in Proofs : p.iat \in Int /\ p.jti \in Jtis \cup {NoJti}

VARIABLES
    inc, items, proving, uses,  \* the DPoP verifier
    dpop,          \* Token.DPoP # nil
    work,          \* thread -> the exchange it serves
    failed,        \* history: codes consumed by an exchange that was then refused
    unknown,       \* history: issued codes refused because they were gone
    issued         \* history: the tokens signed, in order

TokenRequest == [method |-> "POST", uri |-> TokenURL, token |-> NoToken, jkt |-> NoKey]

D == INSTANCE DPoPVerifier WITH Requests <- {TokenRequest}, work <- proving

verifier == <<inc, items, proving, uses>>
store    == <<codes, minted, tried, out>>
endpoint == <<dpop, work, failed, unknown, issued>>
all      == <<clock, store, verifier, endpoint>>

Waiting == [pc |-> "idle"]

EndpointInit ==
    /\ Init
    /\ D!Init
    /\ dpop \in BOOLEAN
    /\ work = [t \in Threads |-> Waiting]
    /\ failed = {}
    /\ unknown = {}
    /\ issued = << >>

-----------------------------------------------------------------------------

\* A login ends in a code (module Login).
LoginIssues(c, g) == Issue(c, g) /\ UNCHANGED <<verifier, endpoint>>

\* Variant: any verifier will do.
VerifyNoPKCE(v, challenge) == TRUE
VerifyPKCE(v, challenge) == v = challenge

Refuse(t, c) ==
    /\ work' = [work EXCEPT ![t] = Waiting]
    /\ failed' = failed \cup {c}

\* Codes.Redeem and, on the grant it returned, VerifyPKCE.
RedeemCode(t, c, client, redirect, v, p) ==
    /\ work[t].pc = "idle"
    /\ Redeem(c, client, redirect)
    /\ IF out' # out /\ VerifyPKCE(v, codes[c].grant.challenge)
       THEN /\ work' = [work EXCEPT ![t] =
                  [pc |-> "redeemed", code |-> c, client |-> client,
                   redirect |-> redirect, verifier |-> v, proof |-> p]]
            /\ UNCHANGED failed
       ELSE Refuse(t, c)
    /\ UNCHANGED <<verifier, dpop, unknown, issued>>

\* The code is not in the store: somebody else's exchange has it, or had it.
\* This one is refused; the other goes on.
CodeUnknown(t, c) ==
    /\ work[t].pc = "idle"
    /\ RedeemUnknown(c)
    /\ unknown' = unknown \cup ({c} \cap DOMAIN minted)
    /\ UNCHANGED <<verifier, dpop, work, failed, issued>>

Proved(f, key, use) ==
    [pc |-> "proved", code |-> f.code, client |-> f.client, redirect |-> f.redirect,
     verifier |-> f.verifier, jkt |-> key, use |-> use]

\* Token.DPoP = nil: no proof is asked for.
SkipProof(t) ==
    /\ work[t].pc = "redeemed" /\ ~dpop
    /\ work' = [work EXCEPT ![t] = Proved(@, NoKey, 0)]
    /\ UNCHANGED <<clock, store, verifier, dpop, failed, unknown, issued>>

\* No proof, or one that fails the verifier's checks: the code is gone already.
ProofRefused(t) ==
    LET f == work[t] IN
    /\ f.pc = "redeemed" /\ dpop
    /\ f.proof # NoProof => ~D!Passes(f.proof, TokenRequest, clock)
    /\ Refuse(t, f.code)
    /\ UNCHANGED <<clock, store, verifier, dpop, unknown, issued>>

ProofChecked(t) ==
    /\ work[t].pc = "redeemed" /\ dpop
    /\ work[t].proof # NoProof
    /\ D!Check(t)
    /\ proving'[t].proof = work[t].proof
    /\ work' = [work EXCEPT ![t].pc = "checked"]
    /\ UNCHANGED <<store, dpop, failed, unknown, issued>>

\* The replay cache admits the proof; the token will be bound to its key.
ProofAdmitted(t) ==
    /\ work[t].pc = "checked"
    /\ D!AdmitNew(t)
    /\ work' = [work EXCEPT ![t] = Proved(@, @.proof.key, Len(uses'))]
    /\ UNCHANGED <<store, dpop, failed, unknown, issued>>

\* Variant: the exchange goes on waiting for the verifier.
ProofReplayedUnanswered(t) ==
    /\ work[t].pc = "checked"
    /\ D!AdmitSeen(t) \/ D!AdmitFull(t)
    /\ UNCHANGED <<store, endpoint>>
ProofReplayed(t) ==
    /\ work[t].pc = "checked"
    /\ D!AdmitSeen(t) \/ D!AdmitFull(t)
    /\ Refuse(t, work[t].code)
    /\ UNCHANGED <<store, dpop, unknown, issued>>

\* Signer.Issue and the response.
SignToken(t) ==
    LET f == work[t] IN
    /\ f.pc = "proved"
    /\ issued' = Append(issued, [code |-> f.code, client |-> f.client,
                                 redirect |-> f.redirect, verifier |-> f.verifier,
                                 jkt |-> f.jkt, use |-> f.use, dpop |-> dpop])
    /\ work' = [work EXCEPT ![t] = Waiting]
    /\ UNCHANGED <<clock, store, verifier, dpop, failed, unknown>>

SignFailed(t) ==
    /\ work[t].pc = "proved"
    /\ Refuse(t, work[t].code)
    /\ UNCHANGED <<clock, store, verifier, dpop, unknown, issued>>

Time == Tick /\ UNCHANGED <<verifier, endpoint>>

\* The process dies: codes, replay cache and exchanges with it.
Reboot ==
    /\ Restart
    /\ D!Restart
    /\ dpop' \in BOOLEAN
    /\ work' = [t \in Threads |-> Waiting]
    /\ UNCHANGED <<failed, unknown, issued>>

EndpointNext ==
    \/ \E c \in Codes, g \in Grants : LoginIssues(c, g)
    \/ \E t \in Threads :
          \/ \E c \in Codes, client \in Clients, redirect \in Redirects,
                v \in Verifiers, p \in Proofs \cup {NoProof} :
                RedeemCode(t, c, client, redirect, v, p)
          \/ \E c \in Codes : CodeUnknown(t, c)
          \/ SkipProof(t) \/ ProofRefused(t) \/ ProofChecked(t)
          \/ ProofAdmitted(t) \/ ProofReplayed(t)
          \/ SignToken(t) \/ SignFailed(t)
    \/ Time
    \/ Reboot

EndpointSpec == EndpointInit /\ [][EndpointNext]_all

-----------------------------------------------------------------------------
(* Properties                                                              *)

EndpointTypeOK ==
    /\ TypeOK
    /\ dpop \in BOOLEAN
    /\ work \in [Threads ->
          {Waiting}
          \cup [pc : {"redeemed", "checked"}, code : Codes, client : Clients,
                redirect : Redirects, verifier : Verifiers, proof : Proofs \cup {NoProof}]
          \cup [pc : {"proved"}, code : Codes, client : Clients, redirect : Redirects,
                verifier : Verifiers, jkt : {NoKey} \cup {p.key : p \in Proofs}, use : Nat]]
    /\ failed \subseteq Codes /\ unknown \subseteq Codes
    /\ \A t \in Threads : proving[t].busy <=> work[t].pc = "checked"

\* What a token is evidence of (token.go:71-116): the code's own client, at
\* the code's own redirect, with the verifier of the code's challenge, and,
\* where a verifier is configured, holding the key of a proof that was
\* admitted to the replay cache for this exchange.
TokenProvesClient ==
    \A i \in DOMAIN issued :
        LET k == issued[i] IN
        /\ k.code \in DOMAIN minted
        /\ LET g == minted[k.code].grant IN
           /\ k.client = g.client /\ k.redirect = g.redirect /\ k.verifier = g.challenge
        /\ k.dpop => /\ k.use \in DOMAIN uses
                     /\ \E p \in Proofs : /\ p.jti = uses[k.use].jti
                                          /\ p.iat = uses[k.use].iat
                                          /\ p.key = k.jkt

\* "one attempt per code, never an oracle" (token.go:71).  Where the exchange
\* that consumed a code was refused, at whatever step, no token is signed for
\* that code, and a code that was issued and found gone never comes back: the
\* refusals cannot be waited out.  Being told that a code is unknown says
\* nothing of the exchange that has it: that one may still end in a token.
RefusedCodeYieldsNothing ==
    /\ \A i \in DOMAIN issued : issued[i].code \notin failed
    /\ \A c \in unknown : c \notin DOMAIN codes

\* A captured exchange request buys nothing: two tokens never come from one
\* code nor from one admission to the replay cache, and of two admissions of
\* one jti by one process the later found the earlier proof no longer fresh.
OneTokenPerCodeAndProof ==
    \A i, j \in DOMAIN issued : i # j =>
        /\ issued[i].code # issued[j].code
        /\ issued[i].dpop /\ issued[j].dpop =>
              /\ issued[i].use # issued[j].use
              /\ LET u == uses[issued[i].use]
                     v == uses[issued[j].use]
                 IN  issued[i].use < issued[j].use /\ u.jti = v.jti /\ u.inc = v.inc
                        => v.at > u.iat + MaxAge
=============================================================================
