------------------------------- MODULE Guard --------------------------------
(***************************************************************************)
(* The Guard's process (crypto/src/main.rs, service.rs, context.rs and the *)
(* generated server) on top of its rate limiter and its provider, with the *)
(* gateway that calls it (gateway/internal/guard): the rows the gateway    *)
(* stores and may later present, in any combination and for any tenant,    *)
(* its readiness probe, and the stops and starts of the Guard in between.  *)
(*                                                                         *)
(* A handler runs without an await point.  Its steps are those of allow:   *)
(* Receive is the dispatch, the gate and allow's clock reading, AskGlobal  *)
(* and AskTenant its two locks; the work follows the second on the same    *)
(* thread and reads only the keys, which never change while the process    *)
(* lives, so it and its audit line are part of that step.  The answer then *)
(* reaches the caller (Reply) or comes too late or not at all (Lose).      *)
(***************************************************************************)
EXTENDS RateLimiter, Envelope, Profile, Sequences

CONSTANTS
    Values,          \* plaintexts and inputs of the blind index
    Environments,    \* what main may find in its environment
    MaxRequests,     \* bound: requests received
    MaxBoots         \* bound: starts of the Guard that succeed

ASSUME GuardConstants ==
    /\ {MaxRequests, MaxBoots} \subseteq Nat
    /\ Ops = {"verify_assertion", "encrypt_field", "decrypt_field", "blind_index"}
    /\ "" \notin Tenants
    /\ \A env \in Environments :
          /\ env.files \in [CredentialFiles -> FileStates]
          /\ env.listens \in BOOLEAN /\ env.profile.plain \in BOOLEAN

VARIABLES
    running,         \* the process: Down, or the setting and profile it runs under
    keys,            \* SoftwareProvider.keys: handle -> material
    request,         \* thread -> the message its handler was given
    answer,          \* thread -> the answer on its way to the caller
    audit,           \* the audit trail: line -> how often it was written
    boots,           \* starts that succeeded
    asked,           \* requests received
    rows,            \* the gateway's database: what encrypt_field answered
    readiness,       \* the last answer of /readyz; at first, of a Guard that is down
    released,        \* history: [tenant, value] answered by decrypt_field
    indexes,         \* history: [tenant, input, index] answered by blind_index
    answered,        \* history: line -> how often a caller got that answer
    performed        \* history: (tenant, operation) -> times its work was done

process   == <<running, keys, boots>>
gateway   == <<rows, readiness, released, indexes, answered>>
service   == <<process, request, answer, audit, asked, gateway, performed>>
guardVars == <<vars, service>>

Down      == [profile |-> "none"]
NoRequest == [op |-> "none"]
NoAnswer  == [status |-> "none"]

Count(f, x) == IF x \in DOMAIN f THEN f[x] ELSE 0

GuardInit ==
    /\ Init
    /\ running = Down /\ keys = << >> /\ boots = 0
    /\ request = [t \in Threads |-> NoRequest]
    /\ answer = [t \in Threads |-> NoAnswer]
    /\ audit = << >> /\ asked = 0
    /\ rows = {} /\ readiness = "unreachable" /\ released = {} /\ indexes = {}
    /\ answered = << >>
    /\ performed = [k \in Keys |-> 0]

-----------------------------------------------------------------------------
(* The process                                                             *)

\* Variant: keys drawn at start-up.
MaterialPerBoot(n) ==
    with_key(with_key(<< >>, IndexKey, <<"key", IndexKey, n>>), KEK, <<"key", KEK, n>>)
\* The n-th start-up: main.rs loads the same bytes every time.
Material(n) ==
    with_key(with_key(<< >>, IndexKey, <<"key", IndexKey, 0>>), KEK, <<"key", KEK, 0>>)

\* Guard::new: the loaded keys, and a limiter that is empty.
Start(env) ==
    /\ running = Down
    /\ boots < MaxBoots
    /\ start(env).ok
    /\ running' = [profile |-> start(env).value, setting |-> env.profile]
    /\ keys' = Material(boots)
    /\ boots' = boots + 1
    /\ UNCHANGED <<vars, request, answer, audit, asked, gateway, performed>>

\* main exits: nothing is served.
StartRefused(env) ==
    /\ running = Down
    /\ ~start(env).ok
    /\ UNCHANGED guardVars

Probing(t) ==
    \/ request[t] # NoRequest /\ request[t].probe
    \/ answer[t] # NoAnswer /\ answer[t].probe

\* The process dies with the calls in flight.  A shutdown by signal waits for
\* them to be answered first: it is this step with no call in flight.  What the
\* limiter's history counts is counted per process.
Stop ==
    /\ running # Down
    /\ running' = Down
    /\ keys' = << >>
    /\ global' = << >> /\ buckets' = << >>
    /\ passed' = [op \in Ops |-> 0] /\ allowed' = [k \in Keys |-> 0]
    /\ rewound' = [op \in Ops |-> {}]
    /\ work' = [t \in Threads |-> Idle]
    /\ request' = [t \in Threads |-> NoRequest]
    /\ answer' = [t \in Threads |-> NoAnswer]
    /\ readiness' = IF \E t \in Threads : Probing(t) THEN "unreachable" ELSE readiness
    /\ UNCHANGED <<clock, forgotten, accounts, boots, audit, asked, rows, released, indexes,
                   answered, performed>>

-----------------------------------------------------------------------------
(* Requests and the gate                                                   *)

\* CryptoServiceServer.call: the handler of each path.
Route == [VerifyAssertion |-> "verify_assertion", EncryptField |-> "encrypt_field",
          DecryptField |-> "decrypt_field", BlindIndex |-> "blind_index"]
Paths == DOMAIN Route \cup {"other"}

\* The purpose each handler asks for, and the handlers that need a subject.
Wanted == [verify_assertion |-> "PASSKEY_LOGIN", encrypt_field |-> "ROW_ENCRYPT",
           decrypt_field |-> "ROW_DECRYPT", blind_index |-> "BLIND_INDEX"]
RowOps == {"encrypt_field", "decrypt_field"}

\* The wire's enumeration; a number it does not know reads as the first.
Purposes == <<"PASSKEY_LOGIN", "ROW_ENCRYPT", "ROW_DECRYPT", "BLIND_INDEX">>
purpose(ctx) == IF ctx.purpose \in DOMAIN Purposes THEN Purposes[ctx.purpose] ELSE "UNSPECIFIED"

\* Strings that are only looked at for being empty are given or not.
Contexts == [tenant : Tenants \cup {""}, subject : BOOLEAN, request_id : BOOLEAN,
             purpose : 0 .. Len(Purposes) + 1]

\* Variant: the probe asks on behalf of a tenant.
ProbeContextOfTenant ==
    [tenant |-> CHOOSE x \in Tenants : TRUE, subject |-> FALSE, request_id |-> TRUE, purpose |-> 1]
\* Client.Probe sends an empty request; a context that is absent and one with
\* nothing in it are refused alike.
ProbeContext == [tenant |-> "", subject |-> FALSE, request_id |-> FALSE, purpose |-> 0]

validate(ctx, want, subject_required) ==
    IF \/ ~ctx.request_id
       \/ ctx.tenant = ""
       \/ subject_required /\ ~ctx.subject
       \/ purpose(ctx) = "UNSPECIFIED"
    THEN "InvalidArgument"
    ELSE IF purpose(ctx) # want THEN "PermissionDenied"
    ELSE "OK"

\* The opaque bytes the gateway can present.
Known == {Garbage} \cup {r.wrapped_dek : r \in rows} \cup {r.ciphertext : r \in rows}

\* An empty wrapped_dek is a first write.
Empty == [key |-> <<"empty">>, ad |-> << >>, message |-> <<"empty">>]

\* complete: credential and assertion are there.
Messages(op) ==
    CASE op = "verify_assertion" -> [op : {op}, complete : BOOLEAN]
      [] op = "encrypt_field" -> [op : {op}, plaintext : Values, wrapped_dek : Known \cup {Empty}]
      [] op = "decrypt_field" -> [op : {op}, ciphertext : Known, wrapped_dek : Known]
      [] op = "blind_index"   -> [op : {op}, input : Values]

Free(t) == request[t] = NoRequest /\ answer[t] = NoAnswer

Line(op, outcome) == [op |-> op, outcome |-> outcome]

\* What a handler ends with: a status, the class of its audit line (a verdict,
\* either way, counts as served) and what an OK answer carries.
Served(body)    == [status |-> "OK", outcome |-> "served", body |-> body]
Refused(status, outcome) == [status |-> status, outcome |-> outcome, body |-> {}]

\* The audit line is written, then the answer is handed to the transport.
Finish(t, op, probe, result) ==
    LET line == Line(op, result.outcome) IN
    /\ audit' = Put(audit, line, Count(audit, line) + 1)
    /\ answer' = [answer EXCEPT ![t] = [line |-> line, probe |-> probe,
                                        status |-> result.status, body |-> result.body]]

\* What the gate of a handler makes of a context.
Gate(op, ctx) == [status |-> validate(ctx, Wanted[op], op \in RowOps), tenant |-> ctx.tenant]
Gated == [op \in Ops |-> {Gate(op, ctx) : ctx \in Contexts}]

\* The gate comes first; what passes it has one of these messages.
Receive(t, op, gate, msgs, probe) ==
    /\ running # Down /\ Free(t) /\ asked < MaxRequests
    /\ asked' = asked + 1
    /\ IF gate.status = "OK"
       THEN /\ Call(t, <<gate.tenant, op>>)
            /\ \E msg \in msgs :
                  request' = [request EXCEPT ![t] = [op |-> op, msg |-> msg, probe |-> probe]]
            /\ UNCHANGED <<answer, audit>>
       ELSE /\ Finish(t, op, probe, Refused(gate.status, "rejected"))
            /\ UNCHANGED <<vars, request>>
    /\ UNCHANGED <<process, gateway, performed>>

\* A request on one of the service's paths goes to its handler.
Arrive(t, path) ==
    /\ path \in DOMAIN Route
    /\ LET op == Route[path] IN
       \E gate \in Gated[op] : Receive(t, op, gate, Messages(op), FALSE)

\* No handler: the generated server answers Unimplemented by itself.
ArriveElsewhere(t, path) ==
    /\ running # Down /\ Free(t)
    /\ path \notin DOMAIN Route
    /\ UNCHANGED guardVars

\* GET /readyz
Probe(t) ==
    Receive(t, "verify_assertion", Gate("verify_assertion", ProbeContext),
            [op : {"verify_assertion"}, complete : {FALSE}], TRUE)

\* The same with a Guard that is down.
ProbeInVain ==
    /\ running = Down
    /\ readiness' = "unreachable"
    /\ UNCHANGED <<vars, process, request, answer, audit, asked, rows, released, indexes,
                   answered, performed>>

-----------------------------------------------------------------------------
(* The work, once allow said yes                                           *)

\* A key whose answer was lost is not seen again, and its number is free.
FreshDek ==
    LET wrapped == {r.wrapped_dek : r \in rows \cup UNION {answer[t].body : t \in {u \in Threads :
                       answer[u] # NoAnswer /\ answer[u].line.op = "encrypt_field"}}}
        used == {w.message[3] : w \in wrapped}
    IN  <<"key", "dek", CHOOSE n \in 0 .. Cardinality(used) : n \notin used>>

\* One answer for every cryptographic failure.
fail(e) == Refused(IF e = "Decrypt" THEN "PermissionDenied" ELSE "Internal", "denied")

\* Verdicts are the subject of modules WebAuthn and Login.
VerifyAssertion(msg, tenant) ==
    IF msg.complete THEN Served({}) ELSE Refused("InvalidArgument", "rejected")

\* The answer, if it arrives, is stored with the plaintext's tenant.
EncryptField(msg, tenant) ==
    LET wrapped == IF msg.wrapped_dek = Empty
                   THEN generate_wrapped_dek(keys, KEK, tenant, FreshDek)
                   ELSE Ok(msg.wrapped_dek)
        sealed  == IF wrapped.ok
                   THEN encrypt_field(keys, KEK, tenant, wrapped.value, msg.plaintext)
                   ELSE wrapped
    IN  IF sealed.ok
        THEN Served({[tenant |-> tenant, plaintext |-> msg.plaintext,
                      ciphertext |-> sealed.value, wrapped_dek |-> wrapped.value]})
        ELSE fail(sealed.error)

DecryptField(msg, tenant) ==
    LET opened == decrypt_field(keys, KEK, tenant, msg.wrapped_dek, msg.ciphertext) IN
    IF opened.ok THEN Served({[tenant |-> tenant, value |-> opened.value]})
    ELSE fail(opened.error)

BlindIndex(msg, tenant) ==
    LET index == blind_index(keys, IndexKey, tenant, msg.input) IN
    IF index.ok
    THEN Served({[tenant |-> tenant, input |-> msg.input, index |-> index.value]})
    ELSE Refused("Internal", "backend_error")

Work(msg, tenant) ==
    CASE msg.op = "verify_assertion" -> VerifyAssertion(msg, tenant)
      [] msg.op = "encrypt_field"    -> EncryptField(msg, tenant)
      [] msg.op = "decrypt_field"    -> DecryptField(msg, tenant)
      [] msg.op = "blind_index"      -> BlindIndex(msg, tenant)

Limited == Refused("ResourceExhausted", "rate_limited")

\* The handler of t ends with this result.
Conclude(t, result) ==
    /\ Finish(t, request[t].op, request[t].probe, result)
    /\ request' = [request EXCEPT ![t] = NoRequest]

\* Variant: the global ceiling's refusal returns without a line.
AskGlobalUnaudited(t) ==
    /\ TakeGlobal(t)
    /\ IF work'[t] = Idle
       THEN /\ answer' = [answer EXCEPT ![t] =
                  [line |-> Line(request[t].op, "rate_limited"),
                   probe |-> request[t].probe, status |-> "ResourceExhausted", body |-> {}]]
            /\ request' = [request EXCEPT ![t] = NoRequest]
            /\ UNCHANGED audit
       ELSE UNCHANGED <<request, answer, audit>>
    /\ UNCHANGED <<process, asked, gateway, performed>>

\* Variant: a refused request stays with its thread.
AskGlobalKeepingRequest(t) ==
    /\ TakeGlobal(t)
    /\ UNCHANGED service

\* within_limits says no at the global ceiling, or goes on to the tenant's.
AskGlobal(t) ==
    /\ TakeGlobal(t)
    /\ IF work'[t] = Idle THEN Conclude(t, Limited) ELSE UNCHANGED <<request, answer, audit>>
    /\ UNCHANGED <<process, asked, gateway, performed>>

\* Variant: the tenant's refusal is not passed on.
AskTenantInVain(t) ==
    /\ TakeTenant(t)
    /\ Conclude(t, Work(request[t].msg, work[t].key[1]))
    /\ performed' = [performed EXCEPT ![work[t].key] = @ + 1]
    /\ UNCHANGED <<process, asked, gateway>>

\* It says no at the tenant's budget, or the work is done.
AskTenant(t) ==
    /\ TakeTenant(t)
    /\ IF allowed' = allowed
       THEN /\ Conclude(t, Limited)
            /\ UNCHANGED performed
       ELSE /\ Conclude(t, Work(request[t].msg, work[t].key[1]))
            /\ performed' = [performed EXCEPT ![work[t].key] = @ + 1]
    /\ UNCHANGED <<process, asked, gateway>>

-----------------------------------------------------------------------------
(* The answer                                                              *)

\* Client.Probe: which answers show a healthy channel.
Healthy(status) == status \in {"OK", "InvalidArgument", "PermissionDenied", "Unimplemented"}

Carried(a, op) == IF a.line.op = op THEN a.body ELSE {}

Reply(t) ==
    LET a == answer[t] IN
    /\ a # NoAnswer
    /\ answer' = [answer EXCEPT ![t] = NoAnswer]
    /\ answered' = Put(answered, a.line, Count(answered, a.line) + 1)
    /\ rows' = rows \cup Carried(a, "encrypt_field")
    /\ released' = released \cup Carried(a, "decrypt_field")
    /\ indexes' = indexes \cup Carried(a, "blind_index")
    /\ readiness' = IF ~a.probe THEN readiness
                    ELSE IF Healthy(a.status) THEN "ready" ELSE "refused"
    /\ UNCHANGED <<vars, process, request, audit, asked, performed>>

\* The caller's deadline passed before the answer came.
Lose(t) ==
    /\ answer[t] # NoAnswer
    /\ answer' = [answer EXCEPT ![t] = NoAnswer]
    /\ readiness' = IF answer[t].probe THEN "unreachable" ELSE readiness
    /\ UNCHANGED <<vars, process, request, audit, asked, rows, released, indexes, answered,
                   performed>>

GuardTick == Tick /\ UNCHANGED service

GuardNext ==
    \/ \E env \in Environments : Start(env) \/ StartRefused(env)
    \/ Stop
    \/ ProbeInVain
    \/ \E t \in Threads :
          \/ \E path \in Paths : Arrive(t, path) \/ ArriveElsewhere(t, path)
          \/ Probe(t)
          \/ AskGlobal(t) \/ AskTenant(t) \/ Reply(t) \/ Lose(t)
    \/ GuardTick

GuardSpec == GuardInit /\ [][GuardNext]_guardVars

-----------------------------------------------------------------------------
(* Properties                                                              *)

\* Threads hold messages of the call they are in, or an answer; a process that
\* is down holds nothing.
GuardTypeOK ==
    /\ TypeOK
    /\ running = Down \/ running.profile \in Profiles
    /\ DOMAIN keys = IF running = Down THEN {} ELSE {KEK, IndexKey}
    /\ \A t \in Threads :
          /\ request[t] = NoRequest <=> work[t] = Idle
          /\ work[t] # Idle => work[t].key[2] = request[t].op /\ answer[t] = NoAnswer
          /\ running = Down => Free(t)
    /\ \A r \in rows : r.tenant \in Tenants /\ r.plaintext \in Values
    /\ performed \in [Keys -> Nat]
    /\ asked \in 0 .. MaxRequests /\ boots \in 0 .. MaxBoots
    /\ readiness \in {"ready", "refused", "unreachable"}

\* "a DEK cannot open ciphertext from another tenant" (provider.rs:91): however
\* the gateway combines stored keys and ciphertexts, also wrapped keys in place
\* of ciphertexts, decrypt_field only ever answers a tenant with a plaintext
\* that was encrypted for it; so it never answers with a key.
OnlyOwnPlaintexts ==
    \A x \in released : \E r \in rows : r.tenant = x.tenant /\ r.plaintext = x.value

\* "the returned key must be stored beside the ciphertext" (guard/calls.go:71)
\* and then suffices: every stored row opens for its tenant to what was written,
\* whether its key was minted or reused, whatever answers were lost around it,
\* and in every process after the one that wrote it.
RowsReadable ==
    running # Down =>
        \A r \in rows :
            decrypt_field(keys, KEK, r.tenant, r.wrapped_dek, r.ciphertext) = Ok(r.plaintext)

\* "equality search requires a stable index" (software.rs:199) and "cross-tenant
\* correlation is impossible" (provider.rs:111): two answers of blind_index are
\* equal exactly when tenant and input are, also across restarts.
IndexIdentifies ==
    \A a, b \in indexes :
        a.index = b.index <=> a.tenant = b.tenant /\ a.input = b.input

\* "Deliberately undifferentiated - telling the caller which is an oracle"
\* (provider.rs:56): whatever stored bytes are presented as key and ciphertext,
\* and for whichever tenant, an opening that fails is denied in the same way;
\* no combination gets as far as an internal error.
FailuresAlike ==
    running # Down =>
        \A tenant \in Tenants, w, c \in Known :
            DecryptField([ciphertext |-> c, wrapped_dek |-> w], tenant).status
                \in {"OK", "PermissionDenied"}

\* "no code path exists where the work happens without both checks in front of
\* it" (service.rs:4), and "First pass is lossless" (limits.rs:106): over all
\* lives of the process together, the work done for a tenant stays within its
\* budget for that very operation, one full bucket more per start, whatever else
\* is asked of the Guard and however often its full bucket is evicted and
\* recreated; only the LRU pass forgives.  Calls that overlap may have an
\* interval credited once per thread (CeilingPerThread), never more often.
WorkWithinBudget ==
    \A k \in Keys \ forgotten :
        performed[k] =< boots * Capacity + Refill * (Cardinality(Threads) * clock)

\* "MUST audit every operation individually" (crypto.proto:9): for each
\* operation and outcome, callers never got more answers than the trail
\* has lines, whichever of the handler's returns they came from and whenever
\* the process died.
AnsweredIsAudited ==
    \A line \in DOMAIN answered : answered[line] =< Count(audit, line)

\* "Transport failure (unreachable, handshake, deadline) is the only unhealthy
\* answer" (guard/client.go:91): a Guard that answers the probe is ready,
\* however far its budgets are spent.
AnswerMeansHealthy == readiness # "refused"

\* "A profile that silently degrades is worse than no profile" (profile.rs:3):
\* a process that serves runs under the profile that its setting names, however
\* that is spelled, and under regulated only with a validated provider.  It runs
\* under strict if nothing is set; and also, against "never a silent fallback"
\* (profile.rs:22), if what is set is not Unicode (main.rs:72).
ProfileHonest ==
    running # Down =>
        /\ running.profile = IF running.setting \in {Unset, NotUnicode} THEN "strict"
                             ELSE running.setting.word
        /\ running.profile = "regulated" => attestation.fips
=============================================================================
