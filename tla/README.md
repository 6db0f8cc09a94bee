# A TLA+ model of Ai-Auth

Ai-Auth is an OIDC identity provider in two processes: a Go **gateway** that
faces browsers and clients, and a Rust **Guard** that holds the cryptographic
keys. This directory models the parts that decide *who gets a code, a token or
an answer, and how often*, checks them with TLC and proves their safety
with TLAPS.

## 1. The system

| Part (source) | State | Operations | What is hard | What makes it correct |
|---|---|---|---|---|
| Authorization endpoint, pending requests (`oidc/authorize.go`, `handler.go`, `pending.go`) | map rid -> request with expiry | validate, `Put` (with sweep), `Take`, refuse | an error must not become an open redirect | only registered redirects; a request yields one code |
| Passkey ceremony (`login/ceremony.go`, `store.go`) | challenges, credentials with counters | `Begin`, `Finish` | `Finish` touches five stores and calls the Guard in between | one challenge, one attempt; a code is evidence of a login; a failure can be retried; the counter never goes back |
| Code stores (`oidc/codes.go`; `store/adapter.go`, `postgres.go`) | map or table code -> grant | `Issue`, `Redeem`, sweeps | racing redemptions, replicas, deadlines, skewed clocks, restarts | a code works at most once, for its owner, in time |
| Token endpoint (`oidc/token.go`) | none of its own | redeem, PKCE, proof, sign | the code is consumed before the rest is checked | a token is evidence of client, code and key |
| DPoP verifier (`dpop/verify.go`) | replay cache jti -> forget-after | `Verify`, `admit` (with sweep) | clock read before the lock; bounded cache | a fresh proof is never accepted twice; the cache is bounded |
| Access tokens (`tokens/sign.go`), revocations and middleware (`sessions/`) | signing key; revoked jtis, cutoffs | `Issue`, `Verify`, `Revoke*`, `IsRevoked`, `Require` | revocation races a request; seconds against full precision; leeway; restart | a revocation that returned is final, later logins are unaffected |
| Postgres revocations (`store/revocations.go`, `adapter.go`) | two tables | upserts with `greatest`, lookup, sweep | out-of-order cutoffs, database clock, failed lookups | cutoffs never move back; no answer means revoked |
| WebAuthn check (`crypto/src/webauthn.rs`) | none | eleven checks in order | the parts of an assertion arrive separately | a verdict is evidence that this key signed this challenge, here, touched |
| Guard service (`crypto/src/service.rs`, `context.rs`, `gen/`; client `guard/`) | audit log | dispatch, verify, encrypt, decrypt, blind index, probe | every operation behind context, limits and audit; answers get lost, the process dies | work within the budgets, every answer audited, failures alike, readiness means an answer |
| Guard start-up (`crypto/src/main.rs`, `profile.rs`) | keys, profile | read credentials, check the profile, serve, stop | one wrong setting of several | no server under a profile it cannot honour; the same keys every time |
| Rate limiter (`crypto/src/limits.rs`) | global and per-tenant buckets | `allow` (with two-pass eviction) | clock read before the locks; bounded map | the ceiling binds; budgets survive eviction; bounded map |
| Envelope encryption (`crypto/src/provider.rs`, `providers/`) | wrapped keys | seal, open, wrap | which key and associated data open what | no ciphertext opens under another tenant; what was stored stays readable |
| Registry, start-up, readiness, discovery (`oidc/registry.go`, `discovery.go`, `server/`, `cmd/gateway`) | configuration | register, mount, probe | endpoints present or absent by configuration | fail closed |
| Schema and roles (`deploy/migrations`) | grants | - | - | each role reaches only its schema |

The calls: `/authorize` puts a pending request; `Begin`/`Finish` of the ceremony
turn it into a code, asking the Guard to verify the assertion; `/token` redeems
the code, checks the PKCE verifier and the DPoP proof and signs a token; the
`Require` middleware verifies the token, its proof, and asks the revocations.
All stores are shared by all request goroutines, each behind its own mutex.

`PROJECT.json` lists every part with its status, the hazards with the line
where each bites, and the source lines of every definition.

## 2. The modules

* **OneShot** - abstract: what a code store promises. A code is issued, at most
  once delivered (to its owner, in time up to a clock slack), and may be lost at
  any moment.
* **CodeStore** - `oidc.CodeStore`. Every method holds the mutex throughout, so
  each is one action; `Redeem` deletes before it validates, and `RedeemUnknown`
  is the refusal of a code that is not there (`ErrCodeUnknown`), which changes
  nothing. Implements OneShot with no slack (`RefinesOneShot`, mapping `live` to the map's keys).
* **PgCodes** - `store.CodeAdapter` on Postgres. A call is: context and values,
  one atomic statement, Go code on its result. Between them the caller may time
  out; its statement becomes an orphan that Postgres still executes or cancels.
  Workers have clock offsets. Implements OneShot with twice the skew as slack,
  mapping `live` to the codes in the table, in a sent INSERT, or in the hands of
  the call whose DELETE returned them.
* **DPoPVerifier** - `dpop.Verifier`. `Check` is all of `Verify` up to the
  cache, with its clock reading; `AdmitSeen`, `AdmitFull`, `AdmitNew` are the
  outcomes of `admit`, whose sweep reads the clock again.
* **TokenEndpoint** - `oidc.Token` composed from CodeStore (extended) and
  DPoPVerifier (instantiated) on one clock and with one restart. An exchange is
  one action per lock it takes. Presenting a code that another exchange has
  consumed is refused (`CodeUnknown`) while that exchange goes on; only the
  exchange that consumed a code can put it into `failed`. `dpop` says whether `Token.DPoP` is set.
* **WebAuthn** - `webauthn::verify`: client data, authenticator data and
  signatures as values, the checks in their order with their rejection codes.
* **Login** - the authorization endpoint, pending requests, challenges,
  credentials and the ceremony, extending WebAuthn for the Guard's verdict.
  `Finish` is one action per store access; authenticators are the environment and
  sign wherever they are shown a challenge, touched or not (`Ceremonies`).
  Whoever holds a signed assertion may send it with any request id and any
  credential id and, with `Exchange`, put parts of several together or write
  client data of his own.
* **Sessions** - tokens as signed and verified, the in-memory revocations and
  `Require` as verify / proof / decide. `Second` ticks make a second: `iat` and
  `exp` are rounded down, cutoffs are not.
* **PgRevocations** - Sessions with either store of `main.go`: the in-memory one
  (`~durable`, the steps of Sessions) or `store.Revocations` behind its adapter.
  A cutoff statement takes the database's `now()` when it begins (`BeginCutoff`),
  and reaches its row later (`PgRevokeSubject`, `PgRevokeTenant`), behind others or
  never (`LoseCutoff`). The lookup sees both tables at once (`PgDecide`) or fails
  (`LookupFailed`). The database's clock is off by up to `Skew`; what a cutoff is
  to kill (`Doomed`) is what was minted at least `Skew` before it began.
* **RateLimiter** - `RateLimiter::allow` as clock reading, global bucket, tenant
  buckets. Eviction is the code's two passes; ties in the LRU order are left
  open because the map's iteration order is. Three histories (`rewound`,
  `settled`, `regained`) say which thread's late call took which bucket's instant
  back over which ticks; the proofs count them.
* **Result**, **Profile** - Rust's `Result`; profiles, their precondition, and
  `main` up to serving as one function of the environment (`start`). The
  setting may be absent or not Unicode, and `std::env::var` fails on both.
* **Envelope** - `SoftwareProvider` as algebra: a sealed value carries the key
  and the associated data it was sealed under and opens only for both. Pure
  operators on `Result`s, with every `ProviderError`.
* **Guard** - the process, on RateLimiter, Envelope and Profile (all extended):
  `Start`, `StartRefused` and `Stop`; `Arrive` is the generated dispatch, the gate
  of `context::validate` and the clock reading of `allow`; `AskGlobal` and
  `AskTenant` are the two locks of `allow`, and the second goes on to the handler's
  work, which reads only the immutable keys, and to its audit line. `Reply`
  delivers the answer, `Lose` is the caller's deadline; a crash is `Stop` with
  calls in flight. The gateway is the environment: it keeps the rows it was
  answered, may present any stored key with any stored ciphertext for any tenant,
  and probes for readiness.
* **MC\*** - instances for TLC. **\*Proofs** - theorems.

Histories (`uses`, `out`, `minted`, `issued`, `killed`, ...) record what the
properties talk about and are read by no action's guard, except to draw a random
value at most once (codes, request ids, jtis: 128 to 256 random bits).

Definitions introduced by "Variant:" are plausible slips in the definition that
follows them. No specification uses one; substituting it for its neighbour makes
TLC report the property that guards against that slip (`mutants`).

### What is abstracted

Strings, encodings, signatures and hashes: a DPoP proof has one flag for the
checks that look at it alone, an assertion has its fields and a signature that
names its key and what it covers, a profile is a word and whether it is spelled
plainly, a URI stands for its class under
`sameURI`, a PKCE challenge for its verifier, f64 tokens are whole numbers.
Random values never repeat. Log lines, headers and wording are left out.

## 3. What the runs show

| Run | Question | Result |
|---|---|---|
| `token_endpoint` | two exchanges, two codes, unknown and consumed codes, wrong clients, redirects, verifiers and proofs, expiry, restart | holds: `OneAttempt`, `NeverTwice`, `RefinesOneShot`, `TokenProvesClient`, `RefusedCodeYieldsNothing`, `OneTokenPerCodeAndProof` |
| `pg_codes` | three workers on skewed replicas race for a code, with timeouts, late statements and a database that may hang | holds: `OnePlace`, `RefinesOneShot`, `CallsEnd` |
| `dpop_verifier` | two verifications, a cache of two, future-dated and re-dated proofs, restart | holds: `FreshUseRemembered`, `NoFreshReplay`, `CacheBounded` |
| `dpop_replay` | is a captured proof never accepted twice? | **violated** |
| `login_race` | two handlers, one request, three challenges, untouched authenticators, expiry, restart | holds: `OneCodePerRequest`, `ChallengeAnsweredOnce`, `NoOpenRedirect`, `CodeProvesLogin`, `PendingSurvivesFailure` |
| `login_cross` | two clients, requests and credentials; assertions misdirected, made elsewhere or recombined; a Guard that may hang | holds: `CodeProvesLogin`, `FinishEnds` |
| `login_sign_count` | does the stored signature counter only grow? | **violated** |
| `sessions` | either store: revocations against a request in flight, rounding, leeway, restart; overtaking and lost statements, a skewed database, failed lookups | holds: `CutoffIsFinal`, `RevokedUntilExpiry`, `LaterSecondUnaffected`, `CutoffsOnlyAdvance` |
| `sessions_leeway` | is a revoked token never served again? | **violated** |
| `sessions_logout` | after "log out everywhere", is a request served only on a later login? | **violated** |
| `guard` | four operations and any context, two tenants, more keys than buckets, one call at a time; stored keys and ciphertexts in any combination, lost answers, probes, crashes and starts under good, unreadable and wrong settings | holds: `CeilingPerThread`, `BucketsBounded`, `HeadroomKept`, `WorkWithinBudget`, `AnsweredIsAudited`, `AnswerMeansHealthy`, `ProfileHonest`, `OnlyOwnPlaintexts`, `FailuresAlike`, `RowsReadable`, `IndexIdentifies` |
| `limiter_stale_clock` | does the ceiling bind two threads? | **violated** |

The disagreements, with the lines they contradict, are `findings` in
`PROJECT.json`:

* `dpop_replay`: `Verify` passes the age check, stalls, the first use's entry is
  swept by another request, and `admit` accepts the proof again. What does hold
  (and is proved) is `NoFreshReplay`: the second acceptance happens only after
  the proof's age has passed `MaxAge`.
* `login_sign_count`: two `Finish` requests of one credential write their
  counters in the opposite order of the signatures.
* `sessions_leeway`: a revocation is forgotten at the token's expiry, the
  verifier accepts the token for another leeway. `RevokedUntilExpiry` holds.
* `sessions_logout`: a code issued before the cutoff and exchanged after it
  yields a token the cutoff does not reach.
* `limiter_stale_clock`: `take` moves `last` back to an older reading, and the
  same interval is credited twice. What is left of the ceiling is
  `CeilingPerThread` (proved for any number of threads): the refill counts at most
  once for each thread. Two threads do reach that bound.

Observations made while reading, not turned into runs: a proof dated `MaxAge`
ahead stays acceptable for twice `MaxAge` to a server that lost its cache
(`verify.go:43` says exactly `MaxAge`); `Begin` never peeks at the pending
request it says it peeks at (`ceremony.go:61`), which `CodeProvesLogin` shows to
be harmless; a login in the second of a cutoff is refused (`revoke.go:57` says
later logins are unaffected); a client told to "retry with a proof"
(`token.go:95`) has lost its code; one tenant's refused calls spend the global
headroom of all (`limits.rs:98`; `HeadroomKept` says how far that goes); an `AIAUTH_PROFILE` that
is set but not Unicode silently becomes the default profile (`main.rs:72` takes
every error of `std::env::var` for "not set"; `profile.rs:22` says "never a silent
fallback"), which is strict, and which `ProfileHonest` spells out; a login whose
code cannot be stored is not retriable, because the pending request is consumed
first (`ceremony.go:143`, `:149`); a database whose clock is ahead refuses tokens
minted after a cutoff until the gateway's clock is past it; a
database whose clock is behind the gateway's leaves tokens minted within that
difference before a durable cutoff alive (`revocations.go:38`; `Doomed` allows for
it); the signing key is drawn at boot, so today a restart kills every token and
the durable revocations outlive what they revoke (`cmd/gateway/main.go:89`).

### Bounds

Every bound is a named constant. Time is a handful of ticks: lifetimes are 1 or
2 ticks and the clock runs at least one tick past the last expiry, so that
before, at and after every deadline occur. Caches hold 1 to 3 entries, so that
full, sweepable and not sweepable occur. Two actors suffice for the races
(`PgCodes` has three: two that race and one that is late). One restart separates
two lives of a process. The Guard takes three requests in two lives: a row or two
and a use of them, before and after a restart, or three buckets where two fit. It
has one thread, because two make several times the states and take TLC out of its
time; what two threads change is the order in which calls reach the buckets, and
there the ceiling, the headroom, the budgets and the memory bound are proved for any
number of threads and requests. Of the environments, one serves with a profile
set (oddly spelled) and one with a setting that cannot be read; six are refused. PgRevocations has two cutoff statements, one to
overtake the other, and one user and token; its theorems have any number. In
`login_cross` the clock stands still, because assertions are recombined there;
expiry is `login_race`'s. Symmetry is used for identical threads, handlers,
tenants and values, never where liveness is checked.

`CHECK_DEADLOCK FALSE` is set where the clock's bound and the drawn random values
may leave nothing to do (DPoPVerifier, TokenEndpoint, Login).

### Fairness

Weak fairness of what the gateway does by itself: a goroutine runs, and the
deadline of a database call (`CodeAdapter.Timeout`) or a Guard call
(`DefaultCallTimeout`) fires. Nothing is assumed of Postgres or the Guard, which
may hang for ever. `CallsEnd` and `FinishEnds` rest on it. All other properties
are safety properties and need none.

## 4. What is proved

Every safety property that a passing run checks, the invariants, the two action
properties and the two refinements, for every value of the constants (any number
of threads, codes, proofs, tenants, any `MaxAge`, cache size and lifetime), from
the named assumptions in the modules. The bounds on clock, restarts and requests only restrict steps and play no
role. The assumptions say that lifetimes and sizes are natural numbers (cache
sizes and the global factor not zero), that grants, proofs and environments have their fields,
that clocks differ by at most `Skew`, that the mark of an absent value is no
value, and that a process has finitely many threads.

**DPoPVerifierProofs** - `TypeCorrect`, `Remembered` (`FreshUseRemembered`),
`FreshReplayRefused` (`NoFreshReplay`), `Bounded` (`CacheBounded`).
`NoFreshReplay` is not inductive: it needs that the cache still holds an
accepted jti while its proof could be fresh. That needs the entry's instant to
be late enough (`EntryOutlivesProof`: not before `iat + MaxAge`), and this, for
a verification stalled at any point, that its own clock reading was in the past
and the proof fresh at it (`InFlightChecked`): `until = now + 2 MaxAge` and
`iat <= now + MaxAge` give `iat + MaxAge <= until`. `IInv` is the conjunction;
each conjunct has its own step lemma. `Bounded` is a separate induction with
finiteness of the cache, using cardinality of subsets.

**CodeStoreProofs** - `TypeCorrect`, `CodeBurns` (`OneAttempt`), `CodeWorksOnce`
(`NeverTwice`) and `Refinement` (`RefinesOneShot`). The invariant relates the map
to the history of issued codes (`EntriesMatch`) and of attempts: a code once
presented is not in the map, and every redemption was an attempt. The refinement
needs `EntriesMatch` so that the expiry and owner checks of `Redeem` imply the
abstract ones; a refused `Redeem` and a restart are losses, the sweep is part of
the abstract `Issue`.

**PgRevocationsProofs** - `CutoffHolds` (`CutoffIsFinal`) and `CutoffsAdvance`
(`CutoffsOnlyAdvance`), for both stores at once and any skew. What was served is
history, so the invariant (`CutoffInv`) says of the present that every token a
completed cutoff was to kill is cut off by a row or was signed with a key that is
gone (`Dead`), and that a request being decided bears the current key
(`Verified`): a restart may empty the in-memory rows because it also draws a new
key. A row cuts off what it was to kill because `iat` is rounded down
(`UnixBelow`), `now()` is at most `Skew` behind when the statement begins
(`DoomedBefore`), and no later step moves a row back (`UpsertAdvances`,
`CutStays`). Also `SessionsTypeCorrect`, `TokenStaysRevoked`
(`RevokedUntilExpiry`) and `LaterTokensPass` (`LaterSecondUnaffected`). The
second needs that a revoked token of the current key has its entry or one of the
two clocks is past its expiry (`TokenInv`), and that an entry is kept until the
expiry of its own token, so that the sweep only removes what has expired; the
third that only revoked tokens have entries and that `iat` is the rounded minting
time.

**PgCodesProofs** - `PgTypeCorrect`, `CodeInOnePlace` (`OnePlace`) and
`PgRefinement` (`RefinesOneShot` with slack `2 Skew`). `OnePlace` is nearly
inductive: it needs that two orphaned INSERTs are never of one code
(`OneOrphan`). The refinement adds that wherever a code is, in the table, in a
statement or in hand, it is with its own grant and an expiry that its issuer's
clock could have computed (`AllOwn`): the redeemer's clock is off by another
`Skew`, hence the slack. A timeout that turns a call's INSERT into an orphan moves
the code from one place to another, which the abstract store does not see; one
that drops a returned row is a loss.

**LoginProofs** - `LoginTypeCorrect`, `OneCode` (`OneCodePerRequest`),
`RedirectsRegistered` (`NoOpenRedirect`), `OneAttemptPerChallenge`
(`ChallengeAnsweredOnce`), `LoginProved` (`CodeProvesLogin`) and `RequestsSurvive`
(`PendingSurvivesFailure`). Four invariants, each proved with the types.
`RequestInv`: a request is in the store, in the hands of one handler past its
`Take`, or in one code, never in two of them, and an answered one does not come
back. `ChallengeInv`: a challenge in the store was drawn for its request and
nobody has taken it; what a handler works with, or a code rests on, was drawn for
that very request. `EvidenceInv`: before the verdict a handler's signature is
one some authenticator made, after it the credential's own authenticator, touched,
signed that challenge here (`VerifiedMeans`: what follows from the eleven checks).
`CodeProvesLogin` is their conjunction at the step that issues the code.

**RateLimiterProofs** - `BucketsStayBounded` (`BucketsBounded`) for any number of
threads: whatever the two passes leave has room for one more key
(`EvictMakesRoom`, by cardinality of differences). `HeadroomForAll`
(`HeadroomKept`), also for any number of threads: refilling never lowers a bucket,
and a token is taken only with a call that passes, however old its clock reading.
`CeilingBinds` (`CeilingPerThread`): what has passed plus what is left is at most
a full bucket plus the refill up to the bucket's last instant, and once more that
of every tick a late call took this instant back over (`Credit`). How often that
can be is counted by pairs of a thread and a tick (`rewound`). `Overlaps` says
that a thread takes the bucket back over a tick at most once, because its next
reading of the clock is past it; and that wherever the bucket has been over a
tick, some thread was past the tick and never takes it back: the first that
brought the bucket there. So the pairs, and one more for each tick the bucket is
past, are different pairs, of which there are threads times ticks
(`OverlapsCount`). The lemmas `OverlapsLater`, `OverlapsReach` and `OverlapsMove`
say that this survives time, a call that brings an account forward, and a call
that takes it back. For one thread the bound is `GlobalCeiling`; for two
`limiter_stale_clock` shows that `GlobalCeiling` itself does not hold.

**GuardProofs** - `GuardTypeCorrect`, `ProfileIsHonest` (`ProfileHonest`),
`AnsweringIsHealthy` (`AnswerMeansHealthy`), `AnswersAudited`
(`AnsweredIsAudited`), `PlaintextsStayHome` (`OnlyOwnPlaintexts`),
`StoredRowsOpen` (`RowsReadable`), `IndexesIdentify` (`IndexIdentifies`),
`OpeningsFailAlike` (`FailuresAlike`), the limiter's three theorems for the
process that dies and starts again (`GuardBucketsBounded`, `GuardHeadroomKept`,
`GuardCeilingBinds`), and `WorkStaysWithinBudget` (`WorkWithinBudget`).
`ProcessInv` ties a thread's place in the limiter to its request and its answer,
and is used by all. On top of it: a probe is never with a handler, because the
gate refuses its empty context (`HealthInv`); for each line of the trail the
answers delivered and those still held are together at most its lines
(`AuditInv`, by cardinality over the threads); and every row, every message and
every body is what the keys on file would make of its tenant (`CryptoInv`): a row
is sealed under a data key that is wrapped under the KEK with the tenant as
associated data, so what opens for a tenant was sealed for it, and, as the keys
are the same in every life, opens in every later one. Every step of the Guard is
one of the limiter's or the death of the process (`LimiterSteps`), so the proofs
of RateLimiterProofs are reused with one more case. The tenant budget is an
account like the ceiling's (`BudgetInv`): work done plus tokens left is at most
one full bucket per start plus the refill up to the account's instant (`settled`),
and again of the ticks it was taken back over (`regained`); a key without a bucket
is owed a full one. The first pass of the eviction is lossless because a bucket it
drops would be full at the caller's reading, up to which its account then reaches.
`WithinEvicted` and `BudgetTaken` are the two arguments, `BudgetEvict` applies the
first to every key, and `Overlaps` counts as before, for any number of threads and
over all lives.

**TokenEndpointProofs** - first the composition: `EndpointUsesStore`
(`EndpointSpec => Spec`) and `EndpointUsesVerifier` (`EndpointSpec => D!Spec`), so
that the theorems of the parts hold inside the endpoint (`EndpointCodeBurns`,
`EndpointCodeWorksOnce`, `EndpointRefinement`, and the verifier's invariant). Then
`EndpointTypeCorrect`, `TokensProveClients` (`TokenProvesClient`),
`RefusedCodesYieldNothing` (`RefusedCodeYieldsNothing`) and `TokensAreApart`
(`OneTokenPerCodeAndProof`) from `ExchangeInv`: an exchange under way has redeemed
its code as its owner, the code is in `tried`, in no token, in no other exchange
and not refused by the exchange that consumed it; past its proof it has an
admission that no other exchange or token has. A code refused as unknown is not in
the store and never comes back (`GoneInv`). A new exchange cannot clash with any of them because the store, by
`OneAttempt`, only redeems what was not tried. `OneTokenPerCodeAndProof` takes the
order of two admissions from the replay cache, not from the tokens or the clock:
tokens may be signed in another order than their proofs were admitted, and two
admissions may fall into one instant. Its last part is `NoFreshReplay` of the
verifier.

Only model-checked:

* liveness (`CallsEnd`, `FinishEnds`): fairness and ENABLED are out of the
  prover's reach;
* the five counterexamples, which are TLC's to find;
* what `verify` returns when a check fails (the first failing check's code), which
  no property depends on beyond "not verified".

## 5. Not modelled, and the plan

Not modelled: JWT, JSON, URI and SQL encodings, the cryptographic primitives, TLS
and listener set-up (a flag of the Guard's environment), compression and message
limits of the generated code, the generated clients, the risk service (generated
code that nobody implements or calls), discovery documents, the registry's URI
parsing, the grants of the database roles (static), a gateway without a Guard,
whose `/readyz` always says ready, and the directories without code (API,
console, worker, SDK).

Next, in this order:

1. Proofs: what the parts' theorems say of the whole, from a login to a served
   request; the limiter's bounds for calls whose clock readings are late by a
   bounded time only, where the factor of `CeilingPerThread` should become a
   constant.
2. **Startup** - registry, configuration and mounted routes of the gateway.

## 6. Running

```
tlc -workers 2 -config MCTokenEndpoint.cfg MCTokenEndpoint
tlapm DPoPVerifierProofs.tla
```
