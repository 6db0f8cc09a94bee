-------------------------------- MODULE Login --------------------------------
(***************************************************************************)
(* From the authorization request to the authorization code: the           *)
(* authorization endpoint and its pending store (internal/oidc/authorize,  *)
(* handler, pending) and the passkey ceremony with its challenges and      *)
(* credentials (internal/login/ceremony, store), with the Guard's          *)
(* WebAuthn check (crypto/src/webauthn.rs) as the ceremony sees it.        *)
(*                                                                         *)
(* Each store has its own mutex, held for one method only, and a Finish    *)
(* request touches five of them in turn with a call to the Guard in the    *)
(* middle.  So Finish is one action per store access, and any number of    *)
(* handlers interleave between them.                                       *)
(*                                                                         *)
(* Authenticators and browsers are the environment: an authenticator signs *)
(* whatever challenge it is shown, wherever it is shown, and whoever holds *)
(* a signed assertion may send it with any request id and credential id,   *)
(* whole or with its parts exchanged for others.                           *)
(***************************************************************************)
EXTENDS Integers, Sequences, FiniteSets, Functions, WebAuthn

CONSTANTS
    Handlers,      \* goroutines that may be in Finish at the same time
    Rids,          \* the values PendingStore.Put will draw: each at most once
    Clients,       \* client_id values, registered or not
    Uris,          \* redirect URIs
    Registered,    \* the registry: client -> its redirect URIs
    Params,        \* the authorization requests browsers may make
    Creds,         \* credential ids; a credential is its subject's
    Counting,      \* the credentials whose authenticator keeps a counter
    PublicKeys,    \* credential -> the keys it may be registered with
    Ceremonies,    \* the circumstances under which authenticators sign
    Exchange,      \* whether senders exchange the parts of an assertion
    PendingTTL, ChallengeTTL,
    MaxClock,      \* bound: the last instant explored
    MaxChallenges, \* bound: challenges drawn
    MaxSignatures, \* bound: assertions signed
    MaxRestarts    \* bound: process restarts explored

ASSUME LoginConstants ==
    /\ DOMAIN Registered \subseteq Clients
    /\ \A c \in DOMAIN Registered : Registered[c] \subseteq Uris
    /\ Params \subseteq [client : Clients, redirect : Uris, rest : BOOLEAN]
    /\ Counting \subseteq Creds
    /\ \A c \in Creds : PublicKeys[c] \subseteq {c, UnsupportedKey}
    /\ Exchange \in BOOLEAN
    /\ \A how \in Ceremonies : how.up \in BOOLEAN
    /\ {PendingTTL, ChallengeTTL, MaxClock, MaxChallenges, MaxSignatures, MaxRestarts}
          \subseteq Nat

VARIABLES
    clock,
    pending,       \* PendingStore.requests: rid -> [req, expiresAt]
    challenges,    \* Challenges.items: rid -> [value, expiresAt]
    creds,         \* Credentials.items: id -> [key, count]
    work,          \* handler -> the Finish request it is serving
    requested,     \* history: rid -> [req, at], every request ever put
    drawn,         \* history: the rid each challenge value was drawn for
    signed,        \* the assertions authenticators have made
    counter,       \* each authenticator's own counter
    taken,         \* history: challenge values taken by Finish, in order
    issued,        \* history: the codes issued, in order
    redirects,     \* history: where browsers were sent
    restarts

stores  == <<pending, challenges, creds>>
history == <<requested, drawn, taken, issued, redirects, restarts>>
env     == <<signed, counter>>
vars    == <<clock, stores, work, history, env>>

Put(f, k, v) == [x \in DOMAIN f \cup {k} |-> IF x = k THEN v ELSE f[x]]
Without(f, k) == Restrict(f, DOMAIN f \ {k})
\* Variant: the lifetime is subtracted.
DeadlineBackwards(ttl) == clock - ttl
Deadline(ttl) == clock + ttl
\* The sweep that Put and Issue make before they insert.
Unexpired(f) == Restrict(f, {k \in DOMAIN f : clock =< f[k].expiresAt})

Idle == [pc |-> "idle"]

Init ==
    /\ clock = 0
    /\ pending = << >>
    /\ challenges = << >>
    /\ creds = << >>
    /\ work = [h \in Handlers |-> Idle]
    /\ requested = << >>
    /\ drawn = << >>
    /\ signed = {}
    /\ counter = [c \in Creds |-> 0]
    /\ taken = << >>
    /\ issued = << >>
    /\ redirects = {}
    /\ restarts = 0

-----------------------------------------------------------------------------
(* The authorization endpoint.  A request's parameters are the client, the *)
(* redirect, and whether the checks that come after those two (response    *)
(* type, PKCE challenge and method, scope) pass.                           *)

KnownClient(p) == p.client \in DOMAIN Registered

\* Variant: a client with any registered redirect may use any.
AllowsAnyRedirect(p) == Registered[p.client] # {}
allowsRedirect(p) == p.redirect \in Registered[p.client]

\* RedirectWithCode, RedirectWithError: the browser is sent to the redirect.
SendBack(req) == redirects' = redirects \cup {[client |-> req.client, uri |-> req.redirect]}

\* ValidateAuthz passed: Pending.Put, and the browser goes to the login page.
AuthorizeAccept(rid, p) ==
    /\ rid \notin DOMAIN requested
    /\ KnownClient(p) /\ allowsRedirect(p) /\ p.rest
    /\ LET req == [client |-> p.client, redirect |-> p.redirect] IN
       /\ pending' = Put(Unexpired(pending), rid,
                         [req |-> req, expiresAt |-> Deadline(PendingTTL)])
       /\ requested' = Put(requested, rid, [req |-> req, at |-> clock])
    /\ UNCHANGED <<clock, challenges, creds, work, drawn, taken, issued, redirects,
                   restarts, env>>

\* refuse: an error may travel back only after the redirect was validated;
\* an unknown client or a mismatched redirect is answered locally.
AuthorizeRefuse(p) ==
    /\ KnownClient(p) /\ allowsRedirect(p) /\ ~p.rest
    /\ SendBack(p)
    /\ UNCHANGED <<clock, stores, work, requested, drawn, taken, issued, restarts, env>>

-----------------------------------------------------------------------------
(* Ceremony.Begin, for whatever rid the browser names.                     *)

\* Variant: Begin takes the pending request.
BeginTaking(rid) ==
    /\ Len(drawn) < MaxChallenges
    /\ drawn' = Append(drawn, rid)
    /\ challenges' = Put(Unexpired(challenges), rid,
                         [value |-> Len(drawn) + 1, expiresAt |-> Deadline(ChallengeTTL)])
    /\ pending' = Without(pending, rid)
    /\ UNCHANGED <<clock, creds, work, requested, taken, issued, redirects, restarts, env>>
Begin(rid) ==
    /\ Len(drawn) < MaxChallenges
    /\ drawn' = Append(drawn, rid)
    /\ challenges' = Put(Unexpired(challenges), rid,
                         [value |-> Len(drawn) + 1, expiresAt |-> Deadline(ChallengeTTL)])
    /\ UNCHANGED <<clock, pending, creds, work, requested, taken, issued, redirects,
                   restarts, env>>

-----------------------------------------------------------------------------
(* Ceremony.Finish                                                         *)

Reply(h) == work' = [work EXCEPT ![h] = Idle]
Goto(h, r) == work' = [work EXCEPT ![h] = r]

\* Variant: the challenge stays until the assertion verifies.
PeekChallenge(rid) == challenges
TakeChallenge(rid) == Without(challenges, rid)

\* Challenges.Take: consumed whether or not anything below succeeds.
StartFinish(h, rid, c, a) ==
    /\ work[h].pc = "idle"
    /\ rid \in DOMAIN challenges
    /\ challenges' = TakeChallenge(rid)
    /\ IF clock > challenges[rid].expiresAt
       THEN UNCHANGED <<work, taken>>
       ELSE /\ Goto(h, [pc |-> "taken", rid |-> rid, cred |-> c, asr |-> a,
                        value |-> challenges[rid].value])
            /\ taken' = Append(taken, challenges[rid].value)
    /\ UNCHANGED <<clock, pending, creds, requested, drawn, issued, redirects,
                   restarts, env>>

\* Credentials.Get, a copy under the read lock.
GetCredential(h) ==
    LET f == work[h] IN
    /\ f.pc = "taken"
    /\ IF f.cred \in DOMAIN creds
       THEN Goto(h, [pc |-> "asked", rid |-> f.rid, cred |-> f.cred, asr |-> f.asr,
                     value |-> f.value, stored |-> creds[f.cred]])
       ELSE Reply(h)
    /\ UNCHANGED <<clock, stores, history, env>>

\* Ceremony.RPID and Ceremony.Origin, from the gateway's configuration.
RPID   == "id.example"
Origin == "https://id.example"

\* Client.VerifyPasskey and Guard.verify_assertion: the verdict on what Finish
\* sent; what is expected comes from the challenge and the credential it holds.
Verdict(f) ==
    verify(Expectations(RPID, Origin, f.value, f.stored.count),
           f.stored.key, f.asr.auth, f.asr.client, f.asr.sig)

\* VERDICT_VERIFIED came back within the deadline.
GuardVerified(h) ==
    LET f == work[h] IN
    /\ f.pc = "asked"
    /\ Verdict(f).ok
    /\ Goto(h, [pc |-> "verified", rid |-> f.rid, cred |-> f.cred, value |-> f.value,
                count |-> Verdict(f).value])
    /\ UNCHANGED <<clock, stores, history, env>>

\* Any other verdict came back.
GuardRejected(h) ==
    /\ work[h].pc = "asked"
    /\ ~Verdict(work[h]).ok
    /\ Reply(h)
    /\ UNCHANGED <<clock, stores, history, env>>

\* Variant: no deadline, an answer is waited for.
GuardFailedNoDeadline(h) ==
    /\ work[h].pc = "asked"
    /\ ~Verdict(work[h]).ok
    /\ Reply(h)
    /\ UNCHANGED <<clock, stores, history, env>>
\* The assertion does not decode, the Guard is unreachable or over its
\* budget, or the call's deadline passed: the request fails, whatever the
\* Guard would have said.
GuardFailed(h) ==
    /\ work[h].pc = "asked"
    /\ Reply(h)
    /\ UNCHANGED <<clock, stores, history, env>>

\* Credentials.UpdateSignCount, unconditionally; a failure is only logged.
UpdateSignCount(h) ==
    LET f == work[h] IN
    /\ f.pc = "verified"
    /\ creds' = IF f.count # 0 /\ f.cred \in DOMAIN creds
                THEN [creds EXCEPT ![f.cred].count = f.count]
                ELSE creds
    /\ Goto(h, [f EXCEPT !.pc = "counted"])
    /\ UNCHANGED <<clock, pending, challenges, history, env>>

\* Variant: Pending.Take reads and leaves the request.
PeekPending(rid) == pending
TakePending(rid) == Without(pending, rid)

\* Variant: a request that is there is taken as alive.
PendingFound(rid) == rid \in DOMAIN pending
PendingFresh(rid) == clock =< pending[rid].expiresAt

\* Pending.Take: only now is the authorization request consumed.
ConsumePending(h) ==
    LET f == work[h] IN
    /\ f.pc = "counted"
    /\ IF f.rid \in DOMAIN pending
       THEN /\ pending' = TakePending(f.rid)
            /\ IF PendingFresh(f.rid)
               THEN Goto(h, [pc |-> "granted", rid |-> f.rid, cred |-> f.cred,
                             value |-> f.value, req |-> pending[f.rid].req,
                             count |-> f.count, at |-> clock])
               ELSE Reply(h)
       ELSE /\ Reply(h)
            /\ UNCHANGED pending
    /\ UNCHANGED <<clock, challenges, creds, history, env>>

\* Codes.Issue succeeded; the browser is sent back with the code.
IssueCode(h) ==
    LET f == work[h] IN
    /\ f.pc = "granted"
    /\ issued' = Append(issued, [rid |-> f.rid, cred |-> f.cred, value |-> f.value,
                                 client |-> f.req.client, redirect |-> f.req.redirect,
                                 count |-> f.count, at |-> f.at])
    /\ SendBack(f.req)
    /\ Reply(h)
    /\ UNCHANGED <<clock, stores, requested, drawn, taken, restarts, env>>

\* Codes.Issue failed (no randomness, no database): the request is lost.
IssueFailed(h) ==
    /\ work[h].pc = "granted"
    /\ Reply(h)
    /\ UNCHANGED <<clock, stores, history, env>>

-----------------------------------------------------------------------------
(* The environment.                                                        *)

\* Credentials.Add at registration, with the counter of that moment and its
\* authenticator's key or one the Guard cannot use: Add looks at neither.  A
\* credential id is made for one registration, so it is added once.
Add(c, key) ==
    /\ c \notin DOMAIN creds
    /\ creds' = Put(creds, c, [key |-> key, count |-> counter[c]])
    /\ UNCHANGED <<clock, pending, challenges, work, history, env>>

\* The browser says what it asked for and where, the authenticator for whom
\* and whether it was touched.
ClientData(v, how) ==
    [json |-> TRUE, type |-> how.type, challenge |-> v, origin |-> how.origin]
AuthData(n, how) ==
    [complete |-> TRUE, rp_id |-> how.rp_id, up |-> how.up, sign_count |-> n]

\* An authenticator signs a challenge it was shown.
Sign(c, v, how) ==
    LET n == IF c \in Counting THEN counter[c] + 1 ELSE 0
        client == ClientData(v, how)
        auth == AuthData(n, how)
    IN
    /\ Cardinality(signed) < MaxSignatures
    /\ counter' = [counter EXCEPT ![c] = n]
    /\ signed' = signed \cup {[client |-> client, auth |-> auth,
                               sig |-> [key |-> c, over |-> Signed(auth, client)]]}
    /\ UNCHANGED <<clock, stores, work, history>>

\* What can be sent as the assertion of a Finish request: a signed one, or a
\* signature with client data of the sender's making and authenticator data
\* that belongs to some signature or to none.
LoginHere == [type |-> "webauthn.get", origin |-> Origin, rp_id |-> RPID, up |-> TRUE]
Sendable ==
    signed \cup
    IF Exchange
    THEN [client : {NotJson} \cup {ClientData(v, LoginHere) : v \in 0 .. Len(drawn)},
          auth : {Truncated} \cup {s.auth : s \in signed},
          sig : {s.sig : s \in signed}]
    ELSE {}

Tick ==
    /\ clock < MaxClock
    /\ clock' = clock + 1
    /\ UNCHANGED <<stores, work, history, env>>

\* The process dies: all three stores are memory.
Restart ==
    /\ restarts < MaxRestarts
    /\ restarts' = restarts + 1
    /\ pending' = << >>
    /\ challenges' = << >>
    /\ creds' = << >>
    /\ work' = [h \in Handlers |-> Idle]
    /\ UNCHANGED <<clock, requested, drawn, taken, issued, redirects, env>>

\* What a handler does by itself once it has taken the challenge, whether or
\* not the Guard answers.
GatewayStep(h) ==
    \/ GetCredential(h)
    \/ GuardFailed(h)
    \/ UpdateSignCount(h)
    \/ ConsumePending(h)
    \/ IssueCode(h) \/ IssueFailed(h)

Next ==
    \/ \E rid \in Rids, p \in Params : AuthorizeAccept(rid, p)
    \/ \E p \in Params : AuthorizeRefuse(p)
    \/ \E rid \in Rids : Begin(rid)
    \/ \E h \in Handlers :
          \/ \E rid \in Rids, c \in Creds, s \in Sendable : StartFinish(h, rid, c, s)
          \/ GuardVerified(h) \/ GuardRejected(h)
          \/ GatewayStep(h)
    \/ \E c \in Creds : \E key \in PublicKeys[c] : Add(c, key)
    \/ \E c \in Creds, v \in 1 .. Len(drawn), how \in Ceremonies : Sign(c, v, how)
    \/ Tick
    \/ Restart

\* A handler runs until it answers: every store call returns, and the Guard
\* call has a deadline (guard.DefaultCallTimeout). The Guard may hang.
Fairness == \A h \in Handlers : WF_vars(GatewayStep(h))

Spec == Init /\ [][Next]_vars
FairSpec == Spec /\ Fairness

-----------------------------------------------------------------------------
(* Properties                                                              *)

Requests   == [client : Clients, redirect : Uris]
Words == {"", "webauthn.get", Origin, RPID}
         \cup UNION {{how.type, how.origin, how.rp_id} : how \in Ceremonies}
ClientDatas == [json : BOOLEAN, type : Words, challenge : Nat, origin : Words]
AuthDatas   == [complete : BOOLEAN, rp_id : Words, up : BOOLEAN, sign_count : Nat]
Signatures  == [key : Creds, over : [auth : AuthDatas, client : ClientDatas]]
Assertions  == [client : ClientDatas, auth : AuthDatas, sig : Signatures]
Records     == [key : Creds \cup {UnsupportedKey}, count : Nat]
Attempts   ==
    {Idle}
    \cup [pc : {"taken"}, rid : Rids, cred : Creds, asr : Assertions, value : Nat]
    \cup [pc : {"asked"}, rid : Rids, cred : Creds, asr : Assertions, value : Nat,
          stored : Records]
    \cup [pc : {"verified", "counted"}, rid : Rids, cred : Creds, value : Nat, count : Nat]
    \cup [pc : {"granted"}, rid : Rids, cred : Creds, value : Nat, req : Requests,
          count : Nat, at : Nat]

TypeOK ==
    /\ clock \in Nat /\ restarts \in Nat
    /\ DOMAIN pending \subseteq DOMAIN requested
    /\ \A k \in DOMAIN pending : pending[k] \in [req : Requests, expiresAt : Nat]
    /\ DOMAIN challenges \subseteq Rids
    /\ \A k \in DOMAIN challenges : challenges[k] \in [value : Nat, expiresAt : Nat]
    /\ DOMAIN creds \subseteq Creds
    /\ \A c \in DOMAIN creds : creds[c] \in Records
    /\ work \in [Handlers -> Attempts]
    /\ DOMAIN requested \subseteq Rids
    /\ \A k \in DOMAIN requested : requested[k] \in [req : Requests, at : Nat]
    /\ drawn \in Seq(Rids)
    /\ signed \subseteq Assertions
    /\ counter \in [Creds -> Nat]
    /\ taken \in Seq(Nat)
    /\ issued \in Seq([rid : Rids, cred : Creds, value : Nat, client : Clients,
                       redirect : Uris, count : Nat, at : Nat])
    /\ redirects \subseteq [client : Clients, uri : Uris]

\* "a login ceremony completes once, and a replayed id must not resurrect an
\* old authorization" (pending.go:53): whatever handlers race on one request
\* id, with however many challenges, it yields at most one code.
OneCodePerRequest ==
    \A i, j \in DOMAIN issued : i # j => issued[i].rid # issued[j].rid

\* "one challenge, one attempt" (login/store.go:71): no two Finish requests
\* ever work with the same challenge value.
ChallengeAnsweredOnce ==
    \A i, j \in DOMAIN taken : i # j => taken[i] # taken[j]

\* A code is evidence of a login: its client and redirect are those of the
\* authorization request it answers, consumed within its lifetime, and the
\* subject's own authenticator, touched, signed a challenge that was drawn for
\* that very request, in a login on our own origin and for us (webauthn.rs:4,
\* "skipping any of them turns the ceremony into theatre"); so whoever exchanges
\* the parts of assertions, or shows the challenge elsewhere, gets no code.
CodeProvesLogin ==
    \A i \in DOMAIN issued :
        LET g == issued[i] IN
        /\ g.rid \in DOMAIN requested
        /\ requested[g.rid].req = [client |-> g.client, redirect |-> g.redirect]
        /\ g.at =< requested[g.rid].at + PendingTTL
        /\ drawn[g.value] = g.rid
        /\ \E s \in signed :
              /\ s.sig.key = g.cred
              /\ s.client = [json |-> TRUE, type |-> "webauthn.get",
                              challenge |-> g.value, origin |-> Origin]
              /\ s.auth.rp_id = RPID /\ s.auth.up

\* No browser is ever sent to a URI its client did not register, with a code
\* or with an error (handler.go:55, "never redirected").
NoOpenRedirect ==
    \A r \in redirects : r.client \in DOMAIN Registered /\ r.uri \in Registered[r.client]

\* "Only now is the pending request consumed: authentication succeeded"
\* (ceremony.go:142), so "a user who abandons the prompt and retries must
\* still be able to finish" (ceremony.go:62): an unexpired pending request
\* only disappears in the hands of a handler whose assertion was verified.
PendingSurvivesFailure ==
    [][\A rid \in DOMAIN pending \ DOMAIN pending' :
          \/ clock > pending[rid].expiresAt
          \/ restarts' # restarts
          \/ \E h \in Handlers : work[h].pc = "counted" /\ work[h].rid = rid]_vars

\* "Persist the counter so clone detection compares against the newest value"
\* (ceremony.go:134): while the process lives, the stored signature counter
\* of a credential never goes back.
SignCountNeverGoesBack ==
    [][restarts' = restarts =>
          \A c \in DOMAIN creds : c \in DOMAIN creds' /\ creds'[c].count >= creds[c].count]_vars

\* Every Finish request is answered: no store call blocks for ever and the
\* Guard call has a deadline (guard/calls.go:58).
FinishEnds == \A h \in Handlers : (work[h].pc # "idle") ~> (work[h].pc = "idle")
=============================================================================
