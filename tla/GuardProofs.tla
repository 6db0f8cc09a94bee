----------------------------- MODULE GuardProofs ----------------------------
(***************************************************************************)
(* Proofs about Guard, for any requests, tenants and environments, and any *)
(* number of boots and of threads.                                         *)
(*                                                                         *)
(* ProcessInv, the types of the process and its calls, is under all the    *)
(* others.  HealthInv is about probes, AuditInv counts lines and answers,  *)
(* CryptoInv says what every row, message and body is sealed under, and    *)
(* BudgetInv is the tenants' accounts.  To the limiter every step of the   *)
(* Guard is one of its own or the death of the process (LimiterSteps), so  *)
(* its theorems hold here with one more case each.                         *)
(***************************************************************************)
EXTENDS Guard, RateLimiterProofs

(* The limiter's types                                                     *)

\* A bucket is a bucket after take.
LEMMA TakeIsBucket ==
    ASSUME clock \in Nat, NEW cap \in Nat, NEW r \in Nat, NEW now \in 0 .. clock,
           NEW b, IsBucket(b, cap)
    PROVE  IsBucket(take(b, now, cap, r), cap)
<1> DEFINE m == Refilled(b, now, cap, r)
           e == Elapsed(now, b.last) * r
<1>1. e \in Nat
  <2>1. Elapsed(now, b.last) \in Nat
    BY DEF Elapsed, IsBucket
  <2>2. ASSUME NEW x \in Nat PROVE x * r \in Nat
    OBVIOUS
  <2> QED
    BY <2>1, <2>2
<1>2. m = IF b.tokens + e < cap THEN b.tokens + e ELSE cap
  BY DEF Refilled, Minimum
<1>3. /\ take(b, now, cap, r).tokens = IF m >= 1 THEN m - 1 ELSE m
      /\ take(b, now, cap, r).last = now
  BY DEF take
<1> HIDE DEF m, e
<1>4. m \in 0 .. cap
  BY <1>1, <1>2 DEF IsBucket
<1> QED
  BY <1>3, <1>4 DEF IsBucket

\* The bucket a call finds or makes.
LEMMA EntryIsBucket ==
    ASSUME clock \in Nat, NEW cap \in Nat, NEW now \in 0 .. clock, NEW f, NEW k,
           \A x \in DOMAIN f : IsBucket(f[x], cap)
    PROVE  IsBucket(Entry(f, k, cap, now), cap)
BY DEF Entry, IsBucket

\* Eviction only removes.
LEMMA EvictRemoves ==
    ASSUME NEW bs, NEW now, NEW es \in Evict(bs, now)
    PROVE  DOMAIN es \subseteq DOMAIN bs /\ \A k \in DOMAIN es : es[k] = bs[k]
<1> DEFINE kept == NotFull(bs, now)
<1>1. DOMAIN kept \subseteq DOMAIN bs /\ \A k \in DOMAIN kept : kept[k] = bs[k]
  BY DEF NotFull, Restrict
<1> HIDE DEF kept
<1>2. es = bs \/ es = kept \/ \E D : es = Restrict(kept, DOMAIN kept \ D)
  BY DEF Evict, kept
<1> QED
  BY <1>1, <1>2 DEF Restrict

\* The forms of a call.
LEMMA WorkShape ==
    ASSUME TypeOK, NEW t \in Threads
    PROVE  /\ work[t] = Idle <=> work[t].pc = "idle"
           /\ work[t] # Idle => /\ work[t].pc \in {"global", "tenant"}
                                /\ work[t].key \in Keys /\ work[t].now \in 0 .. clock
                                /\ work[t].key[1] \in Tenants /\ work[t].key[2] \in Ops
BY DEF TypeOK, Idle, Keys

\* allow's first step keeps the limiter's types.
LEMMA CallTyped ==
    ASSUME TypeOK, NEW t \in Threads, NEW k \in Keys, Call(t, k)
    PROVE  TypeOK'
<1>1. work' \in [Threads -> {Idle} \cup [pc : {"global", "tenant"}, key : Keys, now : 0 .. clock]]
  BY DEF Call, TypeOK
<1> QED
  BY <1>1 DEF Call, history, accounts, TypeOK, IsBucket

\* The global lock keeps the limiter's types.
LEMMA TakeGlobalTyped ==
    ASSUME TypeOK, NEW t \in Threads, TakeGlobal(t)
    PROVE  /\ TypeOK'
           /\ \/ work' = [work EXCEPT ![t] = Idle]
              \/ /\ work' = [work EXCEPT ![t].pc = "tenant"]
                 /\ work'[t].pc = "tenant" /\ work'[t].key = work[t].key
                 /\ work'[t].now = work[t].now
<1> DEFINE op  == work[t].key[2]
           now == work[t].now
           b   == Entry(global, op, GlobalCapacity, now)
           a   == take(b, now, GlobalCapacity, GlobalRefill)
           ok  == Took(b, now, GlobalCapacity, GlobalRefill)
<1>1. work[t] \in [pc : {"global", "tenant"}, key : Keys, now : 0 .. clock]
  BY DEF TakeGlobal, TypeOK, Idle
<1>2. op \in Ops /\ now \in 0 .. clock /\ clock \in Nat
  BY <1>1 DEF Keys, TypeOK
<1>3. IsBucket(a, GlobalCapacity)
  <2>1. IsBucket(b, GlobalCapacity)
    BY <1>2, GlobalConstants, EntryIsBucket DEF TypeOK
  <2> HIDE DEF b, now
  <2> QED
    BY <1>2, <2>1, GlobalConstants, TakeIsBucket
<1>4. /\ global' = Put(global, op, a)
      /\ passed' = IF ok THEN [passed EXCEPT ![op] = @ + 1] ELSE passed
      /\ work' = IF ok THEN [work EXCEPT ![t].pc = "tenant"] ELSE [work EXCEPT ![t] = Idle]
      /\ rewound' = [rewound EXCEPT ![op] = @ \cup Over(t, now, b.last)]
      /\ UNCHANGED <<clock, buckets, allowed, forgotten, settled, regained>>
  BY DEF TakeGlobal, accounts
<1>a. b.last \in Nat /\ now \in Nat
  BY <1>2, GlobalConstants, EntryIsBucket DEF TypeOK, IsBucket
<1> HIDE DEF op, now, b, a, ok
<1>b. rewound' \in [Ops -> SUBSET (Threads \X Nat)]
  <2>1. Over(t, now, b.last) \subseteq Threads \X Nat
    BY <1>a, OverTyped
  <2> QED
    BY <1>2, <1>4, <2>1 DEF TypeOK
<1>5. DOMAIN global' \subseteq Ops /\ \A o \in DOMAIN global' : IsBucket(global'[o], GlobalCapacity)
  BY <1>2, <1>3, <1>4 DEF Put, TypeOK
<1>6. passed' \in [Ops -> Nat]
  BY <1>2, <1>4 DEF TypeOK
<1>7. /\ work' \in [Threads -> {Idle} \cup [pc : {"global", "tenant"}, key : Keys, now : 0 .. clock]]
      /\ \/ work' = [work EXCEPT ![t] = Idle]
         \/ /\ work' = [work EXCEPT ![t].pc = "tenant"]
            /\ work'[t].pc = "tenant" /\ work'[t].key = work[t].key /\ work'[t].now = work[t].now
  <2>1. CASE ok
    BY <1>1, <1>4, <2>1 DEF TypeOK
  <2>2. CASE ~ok
    BY <1>4, <2>2 DEF TypeOK
  <2> QED
    BY <2>1, <2>2
<1>8. TypeOK'
  BY <1>4, <1>5, <1>6, <1>7, <1>b DEF TypeOK, IsBucket
<1> QED
  BY <1>7, <1>8

\* The tenants' lock keeps the limiter's types.
LEMMA TakeTenantTyped ==
    ASSUME TypeOK, NEW t \in Threads, TakeTenant(t)
    PROVE  TypeOK' /\ work' = [work EXCEPT ![t] = Idle]
<1> DEFINE k   == work[t].key
           now == work[t].now
<1>1. work[t] \in [pc : {"global", "tenant"}, key : Keys, now : 0 .. clock]
  BY DEF TakeTenant, TypeOK, Idle
<1>2. k \in Keys /\ now \in 0 .. clock /\ clock \in Nat
  BY <1>1 DEF TypeOK
<1>3. PICK bs \in Evict(buckets, now) :
        /\ buckets' = Put(bs, k, take(Entry(bs, k, Capacity, now), now, Capacity, Refill))
        /\ allowed' = IF Took(Entry(bs, k, Capacity, now), now, Capacity, Refill)
                      THEN [allowed EXCEPT ![k] = @ + 1] ELSE allowed
        /\ forgotten' = forgotten \cup (DOMAIN NotFull(buckets, now) \ DOMAIN bs)
        /\ LET at == Reached(DOMAIN buckets \ DOMAIN bs, now) IN
           /\ settled' = [at EXCEPT ![k] = now]
           /\ regained' = [regained EXCEPT ![k] = @ \cup Over(t, now, at[k])]
  BY DEF TakeTenant
<1>4. work' = [work EXCEPT ![t] = Idle] /\ UNCHANGED <<clock, global, passed, rewound>>
  BY DEF TakeTenant
<1> DEFINE b == Entry(bs, k, Capacity, now)
           a == take(b, now, Capacity, Refill)
<1>5. DOMAIN bs \subseteq Keys /\ \A x \in DOMAIN bs : IsBucket(bs[x], Capacity)
  BY EvictRemoves DEF TypeOK
<1>6. Capacity \in Nat /\ Refill \in Nat
  BY RateLimiterConstants
<1>7. IsBucket(a, Capacity)
  <2>1. IsBucket(b, Capacity)
    BY <1>2, <1>5, <1>6, EntryIsBucket
  <2> HIDE DEF b, now
  <2> QED
    BY <1>2, <1>6, <2>1, TakeIsBucket
<1>8. buckets' = Put(bs, k, a)
  BY <1>3
<1>9. allowed' \in [Keys -> Nat]
  BY <1>2, <1>3 DEF TypeOK
<1>10. forgotten' \subseteq Keys
  BY <1>3 DEF TypeOK, NotFull, Restrict
<1>a. /\ settled' \in [Keys -> 0 .. clock]
      /\ regained' \in [Keys -> SUBSET (Threads \X Nat)]
  <2> DEFINE at == Reached(DOMAIN buckets \ DOMAIN bs, now)
  <2>1. at \in [Keys -> 0 .. clock]
    BY <1>2 DEF Reached, TypeOK
  <2>2. settled' = [at EXCEPT ![k] = now] /\ regained' = [regained EXCEPT ![k] = @ \cup Over(t, now, at[k])]
    BY <1>3
  <2>3. at[k] \in Nat /\ now \in Nat
    BY <1>2, <2>1
  <2> HIDE DEF at, k, now
  <2>4. Over(t, now, at[k]) \subseteq Threads \X Nat
    BY <2>3, OverTyped
  <2> QED
    BY <1>2, <2>1, <2>2, <2>4 DEF TypeOK
<1> HIDE DEF k, now, b, a
<1>11. DOMAIN buckets' \subseteq Keys /\ \A x \in DOMAIN buckets' : IsBucket(buckets'[x], Capacity)
  BY <1>2, <1>5, <1>7, <1>8 DEF Put
<1>12. work' \in [Threads -> {Idle} \cup [pc : {"global", "tenant"}, key : Keys, now : 0 .. clock]]
  BY <1>4 DEF TypeOK
<1> QED
  BY <1>4, <1>9, <1>10, <1>11, <1>12, <1>a DEF TypeOK, IsBucket

\* Time passes.
LEMMA TickTyped ==
    ASSUME TypeOK, Tick
    PROVE  TypeOK'
<1>1. /\ clock' = clock + 1 /\ clock \in Nat
      /\ UNCHANGED <<global, buckets, work, passed, allowed, forgotten, rewound, settled, regained>>
  BY DEF Tick, history, accounts, TypeOK
<1>2. work' \in [Threads -> {Idle} \cup [pc : {"global", "tenant"}, key : Keys, now : 0 .. clock']]
  <2>1. 0 .. clock \subseteq 0 .. clock'
    BY <1>1
  <2>2. work \in [Threads -> {Idle} \cup [pc : {"global", "tenant"}, key : Keys, now : 0 .. clock]]
    BY DEF TypeOK
  <2> QED
    BY <1>1, <2>1, <2>2
<1>3. /\ \A op \in DOMAIN global' : /\ global'[op].tokens \in 0 .. GlobalCapacity
                                    /\ global'[op].last \in 0 .. clock'
      /\ \A k \in DOMAIN buckets' : /\ buckets'[k].tokens \in 0 .. Capacity
                                    /\ buckets'[k].last \in 0 .. clock'
  <2>1. \A x \in 0 .. clock : x \in 0 .. clock'
    BY <1>1
  <2> QED
    BY <1>1, <2>1 DEF TypeOK, IsBucket
<1>4. settled' \in [Keys -> 0 .. clock']
  <2>1. 0 .. clock \subseteq 0 .. clock' /\ settled \in [Keys -> 0 .. clock]
    BY <1>1 DEF TypeOK
  <2> QED
    BY <1>1, <2>1
<1> QED
  BY <1>1, <1>2, <1>3, <1>4 DEF TypeOK, IsBucket

-----------------------------------------------------------------------------
(* The forms of a step                                                     *)

\* The gate let a request through to its handler.
Accepted(t, op, tenant, msg) ==
    /\ running # Down /\ Free(t) /\ asked < MaxRequests
    /\ asked' = asked + 1
    /\ Call(t, <<tenant, op>>)
    /\ request' = [request EXCEPT ![t] = [op |-> op, msg |-> msg, probe |-> FALSE]]
    /\ UNCHANGED <<answer, audit, process, gateway, performed>>

\* The gate refused it.
Rejected(t, op, probe, status) ==
    /\ running # Down /\ Free(t) /\ asked < MaxRequests
    /\ asked' = asked + 1
    /\ Finish(t, op, probe, Refused(status, "rejected"))
    /\ UNCHANGED <<vars, request, process, gateway, performed>>

\* A handler ended.
Ended(t, result) ==
    /\ Conclude(t, result)
    /\ work' = [work EXCEPT ![t] = Idle]
    /\ UNCHANGED <<clock, process, asked, gateway>>

\* What the gate says OK to names a tenant, and it refuses in two ways.
LEMMA GateSays ==
    ASSUME NEW op \in Ops, NEW ctx \in Contexts
    PROVE  /\ Gate(op, ctx).status \in {"OK", "InvalidArgument", "PermissionDenied"}
           /\ Gate(op, ctx).status = "OK" => Gate(op, ctx).tenant \in Tenants
<1>1. ctx.tenant \in Tenants \cup {""}
  BY DEF Contexts
<1>2. /\ Gate(op, ctx).status = validate(ctx, Wanted[op], op \in RowOps)
      /\ Gate(op, ctx).tenant = ctx.tenant
  BY DEF Gate
<1>3. /\ validate(ctx, Wanted[op], op \in RowOps) \in {"OK", "InvalidArgument", "PermissionDenied"}
      /\ validate(ctx, Wanted[op], op \in RowOps) = "OK" => ctx.tenant # ""
  BY DEF validate
<1> QED
  BY <1>1, <1>2, <1>3

\* A request is let through with a message of its path and a tenant, or
\* refused; the probe's is refused.
LEMMA Received ==
    ASSUME NEW t \in Threads, (\E path \in Paths : Arrive(t, path)) \/ Probe(t)
    PROVE  \/ \E op \in Ops, tenant \in Tenants : \E msg \in Messages(op) :
                 Accepted(t, op, tenant, msg)
           \/ \E op \in Ops, probe \in BOOLEAN :
                 \E status \in {"InvalidArgument", "PermissionDenied"} :
                    Rejected(t, op, probe, status)
<1>1. ASSUME NEW op \in Ops, NEW gate, NEW msgs, NEW probe \in BOOLEAN,
             Receive(t, op, gate, msgs, probe)
      PROVE  \/ /\ gate.status = "OK"
                /\ \E msg \in msgs : probe = FALSE => Accepted(t, op, gate.tenant, msg)
             \/ gate.status # "OK" /\ Rejected(t, op, probe, gate.status)
  <2>1. CASE gate.status = "OK"
    <3>1. PICK msg \in msgs :
             request' = [request EXCEPT ![t] = [op |-> op, msg |-> msg, probe |-> probe]]
      BY <1>1, <2>1 DEF Receive
    <3>2. probe = FALSE => Accepted(t, op, gate.tenant, msg)
      BY <1>1, <2>1, <3>1 DEF Receive, Accepted
    <3> QED
      BY <2>1, <3>2
  <2>2. CASE gate.status # "OK"
    BY <1>1, <2>2 DEF Receive, Rejected
  <2> QED
    BY <2>1, <2>2
<1>2. CASE \E path \in Paths : Arrive(t, path)
  <2>1. PICK path \in DOMAIN Route :
           \E gate \in Gated[Route[path]] :
              Receive(t, Route[path], gate, Messages(Route[path]), FALSE)
    BY <1>2 DEF Arrive
  <2> DEFINE op == Route[path]
  <2>2. op \in Ops
    <3>1. path \in {"VerifyAssertion", "EncryptField", "DecryptField", "BlindIndex"}
      BY <2>1 DEF Route
    <3>2. op \in {"verify_assertion", "encrypt_field", "decrypt_field", "blind_index"}
      BY <3>1 DEF Route
    <3> QED
      BY <3>2, GuardConstants
  <2> HIDE DEF op
  <2>3. PICK gate \in Gated[op] : Receive(t, op, gate, Messages(op), FALSE)
    BY <2>1 DEF op
  <2>4. PICK ctx \in Contexts : gate = Gate(op, ctx)
    BY <2>2, <2>3 DEF Gated
  <2>5. /\ gate.status \in {"OK", "InvalidArgument", "PermissionDenied"}
        /\ gate.status = "OK" => gate.tenant \in Tenants
    BY <2>2, <2>4, GateSays
  <2>6. \/ /\ gate.status = "OK"
           /\ \E msg \in Messages(op) : Accepted(t, op, gate.tenant, msg)
        \/ gate.status # "OK" /\ Rejected(t, op, FALSE, gate.status)
    BY <1>1, <2>2, <2>3
  <2> QED
    BY <2>2, <2>5, <2>6
<1>3. CASE Probe(t)
  <2> DEFINE op == "verify_assertion"
             gate == Gate(op, ProbeContext)
  <2>1. op \in Ops
    BY GuardConstants
  <2>2. gate.status = "InvalidArgument"
    BY DEF Gate, validate, ProbeContext
  <2> HIDE DEF gate
  <2>3. Rejected(t, op, TRUE, gate.status)
    BY <1>1, <1>3, <2>1, <2>2 DEF Probe, gate
  <2> QED
    BY <2>1, <2>2, <2>3
<1> QED
  BY <1>2, <1>3

\* The global ceiling: the call goes on, or its handler ends.
LEMMA AskedGlobal ==
    ASSUME TypeOK, NEW t \in Threads, AskGlobal(t)
    PROVE  /\ TakeGlobal(t) /\ UNCHANGED <<process, asked, gateway, performed>>
           /\ \/ /\ work' = [work EXCEPT ![t].pc = "tenant"]
                 /\ work'[t].pc = "tenant" /\ work'[t].key = work[t].key
                 /\ work'[t].now = work[t].now
                 /\ UNCHANGED <<request, answer, audit>>
              \/ Ended(t, Limited)
<1>1. TakeGlobal(t) /\ UNCHANGED <<process, asked, gateway, performed>> /\ UNCHANGED clock
  BY DEF AskGlobal, TakeGlobal
<1>2. IF work'[t] = Idle THEN Conclude(t, Limited) ELSE UNCHANGED <<request, answer, audit>>
  BY DEF AskGlobal
<1>3. CASE work' = [work EXCEPT ![t] = Idle]
  <2>1. work'[t] = Idle
    BY <1>3 DEF TypeOK
  <2> QED
    BY <1>1, <1>2, <1>3, <2>1 DEF Ended
<1>4. CASE /\ work' = [work EXCEPT ![t].pc = "tenant"]
           /\ work'[t].pc = "tenant" /\ work'[t].key = work[t].key /\ work'[t].now = work[t].now
  <2>1. work'[t] # Idle
    BY <1>4 DEF Idle
  <2> QED
    BY <1>1, <1>2, <1>4, <2>1
<1> QED
  BY <1>1, <1>3, <1>4, TakeGlobalTyped

\* The tenant's budget: the handler ends, with or without its work done.
LEMMA AskedTenant ==
    ASSUME TypeOK, NEW t \in Threads, AskTenant(t)
    PROVE  /\ TakeTenant(t)
           /\ \/ Ended(t, Limited) /\ allowed' = allowed /\ UNCHANGED performed
              \/ /\ Ended(t, Work(request[t].msg, work[t].key[1]))
                 /\ performed' = [performed EXCEPT ![work[t].key] = @ + 1]
                 /\ allowed' # allowed
<1>1. /\ TakeTenant(t) /\ UNCHANGED <<process, asked, gateway>>
      /\ work' = [work EXCEPT ![t] = Idle] /\ UNCHANGED clock
  BY DEF AskTenant, TakeTenant
<1> QED
  BY <1>1 DEF AskTenant, Ended

-----------------------------------------------------------------------------
(* The process                                                             *)

\* A thread's call, its message and its answer go together; without a process
\* there is neither.
Consistent(w, r, a, up) ==
    /\ r = NoRequest <=> w = Idle
    /\ w # Idle => w.key[2] = r.op /\ a = NoAnswer
    /\ ~up => r = NoRequest /\ a = NoAnswer

ProcessInv ==
    /\ TypeOK
    /\ running = Down \/ running.profile \in Profiles
    /\ DOMAIN keys = IF running = Down THEN {} ELSE {KEK, IndexKey}
    /\ DOMAIN request = Threads /\ DOMAIN answer = Threads
    /\ \A t \in Threads : Consistent(work[t], request[t], answer[t], running # Down)
    /\ performed \in [Keys -> Nat]
    /\ asked \in 0 .. MaxRequests /\ boots \in 0 .. MaxBoots
    /\ readiness \in {"ready", "refused", "unreachable"}

\* A request or an answer in a thread's hands is not the mark of its absence.
LEMMA Marks ==
    /\ \A op \in Ops : \A msg, probe : [op |-> op, msg |-> msg, probe |-> probe] # NoRequest
    /\ \A line, probe, status, body :
          [line |-> line, probe |-> probe, status |-> status, body |-> body] # NoAnswer
<1>1. ASSUME NEW op \in Ops, NEW msg, NEW probe
      PROVE  [op |-> op, msg |-> msg, probe |-> probe] # NoRequest
  <2>1. op # "none"
    BY GuardConstants
  <2> QED
    BY <2>1 DEF NoRequest
<1>2. ASSUME NEW line, NEW probe, NEW status, NEW body
      PROVE  [line |-> line, probe |-> probe, status |-> status, body |-> body] # NoAnswer
  <2> DEFINE a == [line |-> line, probe |-> probe, status |-> status, body |-> body]
  <2>1. "line" \in DOMAIN a /\ "line" \notin DOMAIN NoAnswer
    BY DEF NoAnswer
  <2> QED
    BY <2>1
<1> QED
  BY <1>1, <1>2
\* The bounds are numbers, and a count below its bound may go up.
LEMMA GuardBounds == MaxRequests \in Nat /\ MaxBoots \in Nat /\ IsFiniteSet(Threads)
BY GuardConstants, RateLimiterConstants

LEMMA CountUp ==
    /\ \A n \in 0 .. MaxRequests : n < MaxRequests => n + 1 \in 0 .. MaxRequests
    /\ \A n \in 0 .. MaxBoots : n < MaxBoots => n + 1 \in 0 .. MaxBoots
BY GuardBounds

\* main goes on only with a profile it knows, the one that was set if it can be
\* read, and never under regulated with its software provider.
LEMMA StartProfile ==
    ASSUME NEW env, start(env).ok
    PROVE  /\ start(env).value \in Profiles \ {"regulated"}
           /\ start(env).value = IF env.profile \in {Unset, NotUnicode} THEN "strict" ELSE env.profile.word
<1> DEFINE setting == var(env.profile)
           profile == IF setting.ok THEN parse(setting.value) ELSE Ok(default)
           checked == IF profile.ok THEN check(profile.value, attestation) ELSE profile
<1>1. start(env).ok => start(env) = checked
  <2> HIDE DEF checked
  <2>1. start(env) = IF ~Readable(env) THEN Err("missing credentials")
                     ELSE IF checked.ok /\ ~env.listens THEN Err("cannot serve")
                     ELSE checked
    BY DEF start, checked
  <2>2. ~Err("missing credentials").ok /\ ~Err("cannot serve").ok
    BY DEF Err
  <2> QED
    BY <2>1, <2>2
<1>2. profile.ok => /\ profile.value \in Profiles
                    /\ profile.value = IF env.profile \in {Unset, NotUnicode} THEN "strict" ELSE env.profile.word
  BY DEF var, parse, Ok, Err, default, Profiles
<1> HIDE DEF profile
<1>3. checked.ok => /\ profile.ok /\ checked.value = profile.value
                    /\ profile.value # "regulated"
  BY DEF check, attestation, Ok, Err
<1> HIDE DEF checked
<1> QED
  BY <1>1, <1>2, <1>3

\* A start.
LEMMA ProcessStart ==
    ASSUME ProcessInv, NEW env \in Environments, Start(env)
    PROVE  ProcessInv' /\ running' # Down
<1> DEFINE v == start(env).value
<1>1. /\ running = Down /\ boots < MaxBoots /\ start(env).ok
      /\ running' = [profile |-> v, setting |-> env.profile]
      /\ keys' = Material(boots) /\ boots' = boots + 1
      /\ UNCHANGED <<vars, request, answer, asked, readiness, performed>>
  BY DEF Start, gateway
<1>2. v \in Profiles
  BY <1>1, StartProfile
<1> HIDE DEF v
<1>3. running'.profile = v
  BY <1>1
<1>4. running' # Down
  <2>1. Down.profile = "none"
    BY DEF Down
  <2> QED
    BY <1>2, <1>3, <2>1 DEF Profiles
<1>5. DOMAIN keys' = {KEK, IndexKey}
  BY <1>1 DEF Material, with_key
<1>6. boots' \in 0 .. MaxBoots
  BY <1>1, CountUp DEF ProcessInv
<1>7. \A t \in Threads : Consistent(work[t], request[t], answer[t], TRUE)
  BY DEF ProcessInv, Consistent
<1>8. TypeOK'
  BY <1>1 DEF ProcessInv, TypeOK, IsBucket, vars, history, accounts
<1>9. UNCHANGED work
  BY <1>1 DEF vars
<1> QED
  BY <1>1, <1>2, <1>3, <1>4, <1>5, <1>6, <1>7, <1>8, <1>9 DEF ProcessInv

\* The process dies.
LEMMA ProcessStop ==
    ASSUME ProcessInv, Stop
    PROVE  ProcessInv'
<1>1. /\ running' = Down /\ DOMAIN keys' = {} /\ DOMAIN global' = {} /\ DOMAIN buckets' = {}
      /\ passed' = [op \in Ops |-> 0] /\ allowed' = [k \in Keys |-> 0]
      /\ work' = [t \in Threads |-> Idle]
      /\ request' = [t \in Threads |-> NoRequest]
      /\ answer' = [t \in Threads |-> NoAnswer]
      /\ rewound' = [op \in Ops |-> {}]
      /\ UNCHANGED <<clock, forgotten, settled, regained, boots, asked, performed>>
  BY DEF Stop, accounts
<1>2. readiness' \in {"unreachable", readiness}
  BY DEF Stop
<1>3. TypeOK'
  BY <1>1 DEF ProcessInv, TypeOK
<1>4. \A t \in Threads : Consistent(work'[t], request'[t], answer'[t], FALSE)
  BY <1>1 DEF Consistent
<1>5. \A t \in Threads : Consistent(work'[t], request'[t], answer'[t], running' # Down)
  BY <1>1, <1>4
<1> QED
  BY <1>1, <1>2, <1>3, <1>5 DEF ProcessInv

\* A request is let through.
LEMMA ProcessAccepted ==
    ASSUME ProcessInv, NEW t \in Threads, NEW op \in Ops, NEW tenant \in Tenants, NEW msg,
           Accepted(t, op, tenant, msg)
    PROVE  ProcessInv'
<1> DEFINE r == [op |-> op, msg |-> msg, probe |-> FALSE]
           w == [pc |-> "global", key |-> <<tenant, op>>, now |-> clock]
<1>1. /\ running # Down /\ answer[t] = NoAnswer
      /\ request' = [request EXCEPT ![t] = r]
      /\ work' = [work EXCEPT ![t] = w]
      /\ UNCHANGED <<answer, running, keys, boots, readiness, performed>>
  BY DEF Accepted, Free, Call, process, gateway
<1>2. r # NoRequest /\ r.op = op
  BY Marks
<1>3. w # Idle /\ w.key[2] = op
  BY DEF Idle
<1>4. TypeOK'
  <2>1. <<tenant, op>> \in Keys
    BY DEF Keys
  <2>2. Call(t, <<tenant, op>>)
    BY DEF Accepted
  <2> QED
    BY <2>1, <2>2, CallTyped DEF ProcessInv
<1>5. asked' \in 0 .. MaxRequests
  BY CountUp DEF Accepted, ProcessInv
<1> HIDE DEF r, w
<1>6. DOMAIN work = Threads
  BY DEF ProcessInv, TypeOK
<1>7. \A u \in Threads : Consistent(work'[u], request'[u], answer'[u], running' # Down)
  <2>1. Consistent(w, r, NoAnswer, TRUE)
    BY <1>2, <1>3 DEF Consistent
  <2>2. \A u \in Threads \ {t} : work'[u] = work[u] /\ request'[u] = request[u]
    BY <1>1, <1>6 DEF ProcessInv
  <2>3. work'[t] = w /\ request'[t] = r
    BY <1>1, <1>6 DEF ProcessInv
  <2> QED
    BY <1>1, <2>1, <2>2, <2>3 DEF ProcessInv
<1>8. DOMAIN request' = Threads
  BY <1>1 DEF ProcessInv
<1> QED
  BY <1>1, <1>4, <1>5, <1>7, <1>8 DEF ProcessInv

\* The answer a thread hands over.
Answer(op, probe, result) ==
    [line |-> Line(op, result.outcome), probe |-> probe, status |-> result.status,
     body |-> result.body]

\* A request is refused.
LEMMA ProcessRejected ==
    ASSUME ProcessInv, NEW t \in Threads, NEW op \in Ops, NEW probe, NEW status,
           Rejected(t, op, probe, status)
    PROVE  ProcessInv'
<1> DEFINE a == Answer(op, probe, Refused(status, "rejected"))
<1>1. /\ running # Down /\ request[t] = NoRequest
      /\ answer' = [answer EXCEPT ![t] = a]
      /\ UNCHANGED <<vars, request, running, keys, boots, readiness, performed>>
  BY DEF Rejected, Free, Finish, Answer, process, gateway
<1>2. asked' \in 0 .. MaxRequests
  BY CountUp DEF Rejected, ProcessInv
<1> HIDE DEF a
<1>3. TypeOK' /\ UNCHANGED work
  BY <1>1 DEF ProcessInv, TypeOK, IsBucket, vars, history, accounts
<1>4. \A u \in Threads : Consistent(work'[u], request'[u], answer'[u], running' # Down)
  <2>1. \A u \in Threads \ {t} : answer'[u] = answer[u]
    BY <1>1 DEF ProcessInv
  <2>2. Consistent(work[t], request[t], a, TRUE)
    BY <1>1 DEF ProcessInv, Consistent
  <2>3. answer'[t] = a
    BY <1>1 DEF ProcessInv
  <2> QED
    BY <1>1, <1>3, <2>1, <2>2, <2>3 DEF ProcessInv
<1>5. DOMAIN answer' = Threads
  BY <1>1 DEF ProcessInv
<1> QED
  BY <1>1, <1>2, <1>3, <1>4, <1>5 DEF ProcessInv

\* A handler ends.
LEMMA ProcessEnded ==
    ASSUME ProcessInv, TypeOK', NEW t \in Threads, work[t] # Idle, NEW result, Ended(t, result),
           performed' \in [Keys -> Nat]
    PROVE  ProcessInv'
<1> DEFINE a == Answer(request[t].op, request[t].probe, result)
<1>1. /\ answer' = [answer EXCEPT ![t] = a]
      /\ request' = [request EXCEPT ![t] = NoRequest]
      /\ work' = [work EXCEPT ![t] = Idle]
      /\ UNCHANGED <<running, keys, boots, asked, readiness>>
  BY DEF Ended, Conclude, Finish, Answer, process, gateway
<1> HIDE DEF a
<1>2. running # Down
  BY DEF ProcessInv, Consistent
<1>3. DOMAIN work = Threads
  BY DEF ProcessInv, TypeOK
<1>4. /\ answer'[t] = a /\ request'[t] = NoRequest /\ work'[t] = Idle
      /\ \A u \in Threads \ {t} : /\ answer'[u] = answer[u] /\ request'[u] = request[u]
                                  /\ work'[u] = work[u]
      /\ DOMAIN request' = Threads /\ DOMAIN answer' = Threads
  BY <1>1, <1>3 DEF ProcessInv
<1>5. Consistent(Idle, NoRequest, a, TRUE)
  BY DEF Consistent
<1>6. \A u \in Threads : Consistent(work'[u], request'[u], answer'[u], running' # Down)
  BY <1>1, <1>2, <1>4, <1>5 DEF ProcessInv
<1> QED
  BY <1>1, <1>4, <1>6 DEF ProcessInv

\* The two locks.
LEMMA ProcessAsk ==
    ASSUME ProcessInv, NEW t \in Threads, AskGlobal(t) \/ AskTenant(t)
    PROVE  ProcessInv'
<1>1. TypeOK
  BY DEF ProcessInv
<1>2. work[t] # Idle
  BY DEF AskGlobal, AskTenant, TakeGlobal, TakeTenant, Idle
<1>3. work[t].key \in Keys
  BY <1>1, <1>2, WorkShape
<1>4. TypeOK'
  BY <1>1, AskedGlobal, AskedTenant, TakeGlobalTyped, TakeTenantTyped
<1>5. ASSUME NEW result, Ended(t, result), performed' \in [Keys -> Nat] PROVE ProcessInv'
  BY <1>2, <1>4, <1>5, ProcessEnded
<1>6. CASE AskGlobal(t)
  <2>1. UNCHANGED <<process, asked, gateway, performed>>
    BY <1>1, <1>6, AskedGlobal
  <2>2. CASE Ended(t, Limited)
    BY <1>5, <2>1, <2>2 DEF ProcessInv
  <2>3. CASE /\ work' = [work EXCEPT ![t].pc = "tenant"]
             /\ work'[t].pc = "tenant" /\ work'[t].key = work[t].key
             /\ UNCHANGED <<request, answer, audit>>
    <3>1. \A u \in Threads \ {t} : work'[u] = work[u]
      BY <2>3 DEF ProcessInv, TypeOK
    <3>2. work'[t] # Idle
      BY <2>3 DEF Idle
    <3>3. \A u \in Threads : Consistent(work'[u], request'[u], answer'[u], running' # Down)
      BY <1>2, <2>1, <2>3, <3>1, <3>2 DEF ProcessInv, Consistent, process
    <3> QED
      BY <1>4, <2>1, <2>3, <3>3 DEF ProcessInv, process, gateway
  <2> QED
    BY <1>1, <1>6, <2>2, <2>3, AskedGlobal
<1>7. CASE AskTenant(t)
  <2>1. \/ \E result : Ended(t, result) /\ UNCHANGED performed
        \/ \E result : Ended(t, result) /\ performed' = [performed EXCEPT ![work[t].key] = @ + 1]
    BY <1>1, <1>7, AskedTenant
  <2>2. [performed EXCEPT ![work[t].key] = @ + 1] \in [Keys -> Nat]
    BY <1>3 DEF ProcessInv
  <2> QED
    BY <1>5, <2>1, <2>2 DEF ProcessInv
<1> QED
  BY <1>6, <1>7

\* An answer arrives or is lost.
LEMMA ProcessAnswer ==
    ASSUME ProcessInv, NEW t \in Threads, Reply(t) \/ Lose(t)
    PROVE  ProcessInv'
<1>1. /\ answer' = [answer EXCEPT ![t] = NoAnswer]
      /\ UNCHANGED <<vars, running, keys, boots, request, asked, performed>>
  BY DEF Reply, Lose, process
<1>2. readiness' \in {"ready", "refused", "unreachable"}
  BY DEF Reply, Lose, ProcessInv
<1>3. TypeOK' /\ UNCHANGED work
  BY <1>1 DEF ProcessInv, TypeOK, IsBucket, vars, history, accounts
<1>4. \A u \in Threads : answer'[u] = answer[u] \/ answer'[u] = NoAnswer
  BY <1>1 DEF ProcessInv
<1>5. \A u \in Threads : Consistent(work'[u], request'[u], answer'[u], running' # Down)
  BY <1>1, <1>3, <1>4 DEF ProcessInv, Consistent
<1>6. DOMAIN answer' = Threads
  BY <1>1 DEF ProcessInv
<1> QED
  BY <1>1, <1>2, <1>3, <1>5, <1>6 DEF ProcessInv

\* Every step keeps the process together.
LEMMA ProcessStep == ProcessInv /\ [GuardNext]_guardVars => ProcessInv'
<1> SUFFICES ASSUME ProcessInv, [GuardNext]_guardVars PROVE ProcessInv'
  OBVIOUS
<1>1. CASE UNCHANGED guardVars
  BY <1>1 DEF guardVars, vars, history, accounts, service, process, gateway, ProcessInv, TypeOK, IsBucket
<1>2. ASSUME NEW t \in Threads, (\E path \in Paths : Arrive(t, path)) \/ Probe(t)
      PROVE  ProcessInv'
  BY <1>2, Received, ProcessAccepted, ProcessRejected
<1>3. CASE ProbeInVain
  <2>1. TypeOK'
    BY <1>3 DEF ProbeInVain, ProcessInv, TypeOK, IsBucket, vars, history, accounts
  <2> QED
    BY <1>3, <2>1 DEF ProbeInVain, ProcessInv, vars, process
<1>4. CASE GuardTick
  <2>1. TypeOK' /\ UNCHANGED work
    BY <1>4, TickTyped DEF GuardTick, ProcessInv, Tick
  <2> QED
    BY <1>4, <2>1 DEF GuardTick, ProcessInv, service, process, gateway
<1>5. (\E env : StartRefused(env)) \/ (\E t, path : ArriveElsewhere(t, path)) => UNCHANGED guardVars
  BY DEF StartRefused, ArriveElsewhere
<1> QED
  BY <1>1, <1>2, <1>3, <1>4, <1>5, ProcessStart, ProcessStop, ProcessAsk, ProcessAnswer
  DEF GuardNext

\* Nothing runs yet.
LEMMA ProcessInit == GuardInit => ProcessInv
<1> SUFFICES ASSUME GuardInit PROVE ProcessInv
  OBVIOUS
<1>1. /\ clock = 0 /\ DOMAIN global = {} /\ DOMAIN buckets = {} /\ forgotten = {}
      /\ work = [t \in Threads |-> Idle] /\ passed = [op \in Ops |-> 0]
      /\ allowed = [k \in Keys |-> 0] /\ rewound = [op \in Ops |-> {}]
      /\ settled = [k \in Keys |-> 0] /\ regained = [k \in Keys |-> {}]
  BY DEF GuardInit, Init
<1>2. TypeOK
  BY <1>1 DEF TypeOK
<1>3. /\ running = Down /\ DOMAIN keys = {} /\ boots = 0 /\ asked = 0 /\ readiness = "unreachable"
      /\ request = [t \in Threads |-> NoRequest] /\ answer = [t \in Threads |-> NoAnswer]
      /\ performed = [k \in Keys |-> 0]
  BY DEF GuardInit
<1>4. \A t \in Threads : Consistent(work[t], request[t], answer[t], running # Down)
  BY <1>1, <1>3 DEF Consistent
<1> QED
  BY <1>2, <1>3, <1>4, GuardBounds DEF ProcessInv
\* What is known of the process at all times.
LEMMA ProcessInvariant == GuardSpec => []ProcessInv
BY ProcessInit, ProcessStep, PTL DEF GuardSpec

\* A start sets the profile it read, a stop ends it, and nothing else touches it.
LEMMA RunningChanges ==
    ASSUME GuardNext, running' # running
    PROVE  running' = Down \/ \E env \in Environments : Start(env)
<1> USE DEF process
<1>1. ASSUME NEW t \in Threads, (\E path \in Paths : Arrive(t, path)) \/ Probe(t)
      PROVE  running' = running
  BY <1>1, Received DEF Accepted, Rejected
<1>2. ASSUME NEW t \in Threads,
             (\E path \in Paths : ArriveElsewhere(t, path)) \/ AskGlobal(t) \/ AskTenant(t)
                \/ Reply(t) \/ Lose(t)
      PROVE  running' = running
  BY <1>2 DEF ArriveElsewhere, AskGlobal, AskTenant, Reply, Lose, guardVars, service
<1>3. ProbeInVain \/ GuardTick \/ (\E env \in Environments : StartRefused(env)) => running' = running
  BY DEF ProbeInVain, GuardTick, StartRefused, guardVars, service
<1>4. Stop => running' = Down
  BY DEF Stop
<1> QED
  BY <1>1, <1>2, <1>3, <1>4 DEF GuardNext

\* "A profile that silently degrades is worse than no profile" (profile.rs:3):
\* whatever main finds in its environment, and however often it is started, a
\* process that serves runs under the profile its setting names; under strict if
\* there is none, or none that var can read (main.rs:72).
THEOREM ProfileIsHonest == GuardSpec => []ProfileHonest
<1>1. GuardInit => ProfileHonest
  BY DEF GuardInit, ProfileHonest
<1>2. ProfileHonest /\ [GuardNext]_guardVars => ProfileHonest'
  <2> SUFFICES ASSUME ProfileHonest, [GuardNext]_guardVars PROVE ProfileHonest'
    OBVIOUS
  <2>1. CASE running' = running
    BY <2>1 DEF ProfileHonest
  <2>2. CASE running' = Down
    BY <2>2 DEF ProfileHonest
  <2>3. ASSUME NEW env \in Environments, Start(env) PROVE ProfileHonest'
    <3> DEFINE v == start(env).value
    <3>1. start(env).ok /\ running' = [profile |-> v, setting |-> env.profile]
      BY <2>3 DEF Start
    <3>2. /\ v # "regulated"
          /\ v = IF env.profile \in {Unset, NotUnicode} THEN "strict" ELSE env.profile.word
      BY <3>1, StartProfile
    <3> HIDE DEF v
    <3>3. running'.profile = v /\ running'.setting = env.profile
      BY <3>1
    <3> QED
      BY <3>2, <3>3 DEF ProfileHonest
  <2>4. UNCHANGED guardVars => running' = running
    BY DEF guardVars, service, process
  <2> QED
    BY <2>1, <2>2, <2>3, <2>4, RunningChanges
<1> QED
  BY <1>1, <1>2, PTL DEF GuardSpec

-----------------------------------------------------------------------------
(* Readiness                                                               *)

\* No probe is ever with a handler: the gate refuses it, which is healthy.
Probed(r, a) ==
    /\ r # NoRequest => r.probe = FALSE
    /\ a # NoAnswer /\ a.probe => Healthy(a.status)

HealthInv == AnswerMeansHealthy /\ \A t \in Threads : Probed(request[t], answer[t])

\* One thread's answer changes.
LEMMA HealthFinish ==
    ASSUME ProcessInv, HealthInv, NEW t \in Threads, NEW op, NEW probe, NEW result,
           Finish(t, op, probe, result), probe => Healthy(result.status),
           UNCHANGED readiness, \A u \in Threads : request'[u] = request[u] \/ request'[u] = NoRequest
    PROVE  HealthInv'
<1> DEFINE a == Answer(op, probe, result)
<1>1. a.probe = probe /\ a.status = result.status
  BY DEF Answer
<1>2. answer' = [answer EXCEPT ![t] = a]
  BY DEF Finish, Answer
<1> HIDE DEF a
<1>3. answer'[t] = a /\ \A u \in Threads \ {t} : answer'[u] = answer[u]
  BY <1>2 DEF ProcessInv
<1>4. \A u \in Threads : Probed(request'[u], answer'[u])
  BY <1>1, <1>3 DEF HealthInv, Probed
<1> QED
  BY <1>4 DEF HealthInv, AnswerMeansHealthy

\* Every step keeps the probe healthy.
LEMMA HealthStep == ProcessInv /\ HealthInv /\ [GuardNext]_guardVars => HealthInv'
<1> SUFFICES ASSUME ProcessInv, HealthInv, [GuardNext]_guardVars PROVE HealthInv'
  OBVIOUS
<1> USE DEF gateway
<1>1. ASSUME NEW t \in Threads, NEW op \in Ops, NEW probe,
             NEW status \in {"InvalidArgument", "PermissionDenied"},
             Rejected(t, op, probe, status)
      PROVE  HealthInv'
  <2>1. Healthy(Refused(status, "rejected").status)
    BY DEF Healthy, Refused
  <2>2. Finish(t, op, probe, Refused(status, "rejected")) /\ UNCHANGED <<request, readiness>>
    BY <1>1 DEF Rejected
  <2> QED
    BY <2>1, <2>2, HealthFinish
<1>2. ASSUME NEW t \in Threads, NEW op \in Ops, NEW tenant, NEW msg, Accepted(t, op, tenant, msg)
      PROVE  HealthInv'
  <2> DEFINE r == [op |-> op, msg |-> msg, probe |-> FALSE]
  <2>1. request' = [request EXCEPT ![t] = r] /\ UNCHANGED <<answer, readiness>>
    BY <1>2 DEF Accepted
  <2>2. r.probe = FALSE
    OBVIOUS
  <2> HIDE DEF r
  <2>3. request'[t] = r /\ \A u \in Threads \ {t} : request'[u] = request[u]
    BY <2>1 DEF ProcessInv
  <2>4. \A u \in Threads : Probed(request'[u], answer'[u])
    BY <2>1, <2>2, <2>3 DEF HealthInv, Probed
  <2> QED
    BY <2>1, <2>4 DEF HealthInv, AnswerMeansHealthy
<1>3. ASSUME NEW t \in Threads, NEW result, Ended(t, result), work[t] # Idle PROVE HealthInv'
  <2>1. request[t].probe = FALSE
    BY <1>3 DEF ProcessInv, Consistent, HealthInv, Probed
  <2>2. /\ Finish(t, request[t].op, request[t].probe, result) /\ UNCHANGED readiness
        /\ request' = [request EXCEPT ![t] = NoRequest]
    BY <1>3 DEF Ended, Conclude
  <2>3. \A u \in Threads : request'[u] = request[u] \/ request'[u] = NoRequest
    BY <2>2 DEF ProcessInv
  <2> QED
    BY <2>1, <2>2, <2>3, HealthFinish
<1>4. ASSUME NEW t \in Threads, AskGlobal(t) \/ AskTenant(t) PROVE HealthInv'
  <2>1. work[t] # Idle /\ TypeOK
    BY <1>4 DEF AskGlobal, AskTenant, TakeGlobal, TakeTenant, Idle, ProcessInv
  <2>2. (\E result : Ended(t, result)) \/ UNCHANGED <<request, answer, readiness>>
    BY <1>4, <2>1, AskedGlobal, AskedTenant
  <2> QED
    BY <1>3, <2>1, <2>2 DEF HealthInv, AnswerMeansHealthy
<1>5. ASSUME NEW t \in Threads, Reply(t) \/ Lose(t) PROVE HealthInv'
  <2>1. answer[t] # NoAnswer /\ answer' = [answer EXCEPT ![t] = NoAnswer] /\ UNCHANGED request
    BY <1>5 DEF Reply, Lose
  <2>2. \A u \in Threads : answer'[u] = answer[u] \/ answer'[u] = NoAnswer
    BY <2>1 DEF ProcessInv
  <2>3. \A u \in Threads : Probed(request'[u], answer'[u])
    BY <2>1, <2>2 DEF HealthInv, Probed
  <2>4. readiness' # "refused"
    BY <1>5, <2>1 DEF Reply, Lose, HealthInv, AnswerMeansHealthy, Probed
  <2> QED
    BY <2>3, <2>4 DEF HealthInv, AnswerMeansHealthy
<1>6. CASE Stop
  <2>1. \A t \in Threads : request'[t] = NoRequest /\ answer'[t] = NoAnswer
    BY <1>6 DEF Stop
  <2>2. readiness' # "refused"
    BY <1>6 DEF Stop, HealthInv, AnswerMeansHealthy
  <2> QED
    BY <2>1, <2>2 DEF HealthInv, AnswerMeansHealthy, Probed
<1>7. CASE \/ UNCHANGED guardVars \/ GuardTick
           \/ \E env : Start(env) \/ StartRefused(env)
           \/ \E t, path : ArriveElsewhere(t, path)
  <2>1. UNCHANGED <<request, answer, readiness>>
    BY <1>7 DEF GuardTick, Start, StartRefused, ArriveElsewhere, guardVars, service
  <2> QED
    BY <2>1 DEF HealthInv, AnswerMeansHealthy
<1>8. CASE ProbeInVain
  BY <1>8 DEF ProbeInVain, HealthInv, AnswerMeansHealthy
<1>9. ASSUME NEW t \in Threads, (\E path \in Paths : Arrive(t, path)) \/ Probe(t)
      PROVE  HealthInv'
  BY <1>1, <1>2, <1>9, Received
<1> QED
  BY <1>4, <1>5, <1>6, <1>7, <1>8, <1>9 DEF GuardNext

\* "Transport failure is the only unhealthy answer" (guard/client.go:91): for any
\* traffic beside it and however far the budgets are spent, a Guard that answers
\* the probe is ready.
THEOREM AnsweringIsHealthy == GuardSpec => []AnswerMeansHealthy
<1>1. GuardInit => HealthInv
  BY DEF GuardInit, HealthInv, AnswerMeansHealthy, Probed
<1>2. HealthInv => AnswerMeansHealthy
  BY DEF HealthInv
<1> QED
  BY <1>1, <1>2, ProcessInvariant, HealthStep, PTL DEF GuardSpec

-----------------------------------------------------------------------------
(* The audit trail                                                         *)

\* The threads that hold an answer of this line.
Held(a, line) == {t \in Threads : a[t] # NoAnswer /\ a[t].line = line}

\* An answer, delivered or on its way, has its line.
AuditInv ==
    \A line :
        /\ Count(audit, line) \in Nat /\ Count(answered, line) \in Nat
        /\ Count(answered, line) + Cardinality(Held(answer, line)) =< Count(audit, line)

\* One more of one line.
LEMMA CountPut ==
    ASSUME NEW f, NEW x, NEW v
    PROVE  \A y : Count(Put(f, x, v), y) = IF y = x THEN v ELSE Count(f, y)
BY DEF Count, Put

\* Threads are finitely many, so what they hold can be counted.
LEMMA HeldFinite ==
    \A a, line : IsFiniteSet(Held(a, line)) /\ Cardinality(Held(a, line)) \in Nat
<1> SUFFICES ASSUME NEW a, NEW line
             PROVE  IsFiniteSet(Held(a, line)) /\ Cardinality(Held(a, line)) \in Nat
  OBVIOUS
<1>1. Held(a, line) \subseteq Threads
  BY DEF Held
<1> QED
  BY <1>1, GuardBounds, FS_Subset, FS_CardinalityType

\* The line is written before the answer is handed over.
LEMMA AuditFinish ==
    ASSUME ProcessInv, AuditInv, NEW t \in Threads, answer[t] = NoAnswer, NEW op, NEW probe,
           NEW result, Finish(t, op, probe, result), UNCHANGED answered
    PROVE  AuditInv'
<1> DEFINE l == Line(op, result.outcome)
           a == Answer(op, probe, result)
<1>1. audit' = Put(audit, l, Count(audit, l) + 1) /\ answer' = [answer EXCEPT ![t] = a]
  BY DEF Finish, Answer
<1>2. a.line = l /\ a # NoAnswer
  BY Marks DEF Answer
<1> HIDE DEF a, l
<1>3. answer'[t] = a /\ \A u \in Threads \ {t} : answer'[u] = answer[u]
  BY <1>1 DEF ProcessInv
<1>4. ASSUME NEW line
      PROVE  /\ Count(audit', line) \in Nat /\ Count(answered', line) \in Nat
             /\ Count(answered', line) + Cardinality(Held(answer', line)) =< Count(audit', line)
  <2>0. /\ Count(audit, line) \in Nat /\ Count(answered, line) \in Nat
        /\ Count(answered, line) + Cardinality(Held(answer, line)) =< Count(audit, line)
        /\ Cardinality(Held(answer, line)) \in Nat /\ IsFiniteSet(Held(answer, line))
    BY HeldFinite DEF AuditInv
  <2>1. CASE line = l
    <3>1. Held(answer', line) = Held(answer, line) \cup {t} /\ t \notin Held(answer, line)
      BY <1>2, <1>3, <2>1 DEF Held
    <3>2. Cardinality(Held(answer', line)) = Cardinality(Held(answer, line)) + 1
      BY <2>0, <3>1, FS_AddElement
    <3>3. Count(audit', line) = Count(audit, line) + 1
      BY <1>1, <2>1, CountPut
    <3> QED
      BY <2>0, <3>2, <3>3
  <2>2. CASE line # l
    <3>1. Held(answer', line) = Held(answer, line)
      BY <1>2, <1>3, <2>2 DEF Held
    <3>2. Count(audit', line) = Count(audit, line)
      BY <1>1, <2>2, CountPut
    <3> QED
      BY <2>0, <3>1, <3>2
  <2> QED
    BY <2>1, <2>2
<1> QED
  BY <1>4 DEF AuditInv

\* An answer reaches its caller.
LEMMA AuditReply ==
    ASSUME ProcessInv, AuditInv, NEW t \in Threads, Reply(t)
    PROVE  AuditInv'
<1> DEFINE l == answer[t].line
<1>1. /\ answer[t] # NoAnswer /\ answer' = [answer EXCEPT ![t] = NoAnswer]
      /\ answered' = Put(answered, l, Count(answered, l) + 1) /\ UNCHANGED audit
  BY DEF Reply
<1>2. answer'[t] = NoAnswer /\ \A u \in Threads \ {t} : answer'[u] = answer[u]
  BY <1>1 DEF ProcessInv
<1>3. ASSUME NEW line
      PROVE  /\ Count(audit', line) \in Nat /\ Count(answered', line) \in Nat
             /\ Count(answered', line) + Cardinality(Held(answer', line)) =< Count(audit', line)
  <2>0. /\ Count(audit, line) \in Nat /\ Count(answered, line) \in Nat
        /\ Count(answered, line) + Cardinality(Held(answer, line)) =< Count(audit, line)
        /\ Cardinality(Held(answer, line)) \in Nat /\ IsFiniteSet(Held(answer, line))
    BY HeldFinite DEF AuditInv
  <2>1. CASE line = l
    <3>1. Held(answer', line) = Held(answer, line) \ {t} /\ t \in Held(answer, line)
      BY <1>1, <1>2, <2>1 DEF Held
    <3>2. Cardinality(Held(answer', line)) = Cardinality(Held(answer, line)) - 1
      BY <2>0, <3>1, FS_RemoveElement
    <3>3. Count(answered', line) = Count(answered, line) + 1
      BY <1>1, <2>1, CountPut
    <3> QED
      BY <1>1, <2>0, <3>2, <3>3
  <2>2. CASE line # l
    <3>1. Held(answer', line) = Held(answer, line)
      BY <1>2, <2>2 DEF Held
    <3>2. Count(answered', line) = Count(answered, line)
      BY <1>1, <2>2, CountPut
    <3> QED
      BY <1>1, <2>0, <3>1, <3>2
  <2> QED
    BY <2>1, <2>2
<1> QED
  BY <1>3 DEF AuditInv

\* Answers are lost.
LEMMA AuditLose ==
    ASSUME AuditInv, UNCHANGED <<audit, answered>>,
           \A t \in Threads : answer'[t] = answer[t] \/ answer'[t] = NoAnswer
    PROVE  AuditInv'
<1>1. ASSUME NEW line PROVE Cardinality(Held(answer', line)) =< Cardinality(Held(answer, line))
  <2>1. Held(answer', line) \subseteq Held(answer, line)
    BY DEF Held
  <2> QED
    BY <2>1, HeldFinite, FS_Subset
<1>2. ASSUME NEW line
      PROVE  Count(answered, line) + Cardinality(Held(answer', line)) =< Count(audit, line)
  <2>1. /\ Count(audit, line) \in Nat /\ Count(answered, line) \in Nat
        /\ Count(answered, line) + Cardinality(Held(answer, line)) =< Count(audit, line)
        /\ Cardinality(Held(answer, line)) \in Nat /\ Cardinality(Held(answer', line)) \in Nat
    BY HeldFinite DEF AuditInv
  <2> QED
    BY <1>1, <2>1
<1> QED
  BY <1>2 DEF AuditInv

\* Every step keeps the trail ahead of the answers.
LEMMA AuditStep == ProcessInv /\ AuditInv /\ [GuardNext]_guardVars => AuditInv'
<1> SUFFICES ASSUME ProcessInv, AuditInv, [GuardNext]_guardVars PROVE AuditInv'
  OBVIOUS
<1> USE DEF gateway
<1>1. ASSUME NEW t \in Threads, (\E path \in Paths : Arrive(t, path)) \/ Probe(t)
      PROVE  AuditInv'
  <2>1. ASSUME NEW op, NEW probe, NEW status, Rejected(t, op, probe, status) PROVE AuditInv'
    BY <2>1, AuditFinish DEF Rejected, Free
  <2>2. ASSUME NEW op, NEW tenant, NEW msg, Accepted(t, op, tenant, msg) PROVE AuditInv'
    BY <2>2, AuditLose DEF Accepted
  <2> QED
    BY <1>1, <2>1, <2>2, Received
<1>2. ASSUME NEW t \in Threads, AskGlobal(t) \/ AskTenant(t) PROVE AuditInv'
  <2>1. work[t] # Idle /\ TypeOK
    BY <1>2 DEF AskGlobal, AskTenant, TakeGlobal, TakeTenant, Idle, ProcessInv
  <2>2. (\E result : Ended(t, result)) \/ UNCHANGED <<answer, audit, answered>>
    BY <1>2, <2>1, AskedGlobal, AskedTenant
  <2>3. answer[t] = NoAnswer
    BY <2>1 DEF ProcessInv, Consistent
  <2>4. ASSUME NEW result, Ended(t, result) PROVE AuditInv'
    BY <2>3, <2>4, AuditFinish DEF Ended, Conclude
  <2> QED
    BY <2>2, <2>4, AuditLose
<1>3. ASSUME NEW t \in Threads, Lose(t) PROVE AuditInv'
  <2>1. answer' = [answer EXCEPT ![t] = NoAnswer] /\ UNCHANGED <<audit, answered>>
    BY <1>3 DEF Lose
  <2> QED
    BY <2>1, AuditLose DEF ProcessInv
<1>4. CASE Stop
  BY <1>4, AuditLose DEF Stop
<1>5. CASE \/ UNCHANGED guardVars \/ GuardTick \/ ProbeInVain
           \/ \E env : Start(env) \/ StartRefused(env)
           \/ \E t, path : ArriveElsewhere(t, path)
  <2>1. UNCHANGED <<answer, audit, answered>>
    BY <1>5 DEF GuardTick, ProbeInVain, Start, StartRefused, ArriveElsewhere, guardVars, service
  <2> QED
    BY <2>1, AuditLose
<1> QED
  BY <1>1, <1>2, <1>3, <1>4, <1>5, AuditReply DEF GuardNext

\* "MUST audit every operation individually" (crypto.proto:9): for any number of
\* threads, callers never got more answers of an operation and outcome than the
\* trail has lines, whenever the process died.
THEOREM AnswersAudited == GuardSpec => []AnsweredIsAudited
<1>1. GuardInit => AuditInv
  <2> SUFFICES ASSUME GuardInit, NEW line
               PROVE  /\ Count(audit, line) = 0 /\ Count(answered, line) = 0
                      /\ Cardinality(Held(answer, line)) = 0
    BY DEF AuditInv
  <2>1. DOMAIN audit = {} /\ DOMAIN answered = {} /\ \A t \in Threads : answer[t] = NoAnswer
    BY DEF GuardInit
  <2>2. Held(answer, line) = {}
    BY <2>1 DEF Held
  <2> QED
    BY <2>1, <2>2, FS_EmptySet DEF Count
<1>2. AuditInv => AnsweredIsAudited
  <2> SUFFICES ASSUME AuditInv, NEW line \in DOMAIN answered
               PROVE  answered[line] =< Count(audit, line)
    BY DEF AnsweredIsAudited
  <2>1. /\ Count(audit, line) \in Nat /\ Count(answered, line) \in Nat
        /\ Count(answered, line) + Cardinality(Held(answer, line)) =< Count(audit, line)
        /\ Cardinality(Held(answer, line)) \in Nat
    BY HeldFinite DEF AuditInv
  <2>2. Count(answered, line) = answered[line]
    BY DEF Count
  <2> QED
    BY <2>1, <2>2
<1> QED
  BY <1>1, <1>2, ProcessInvariant, AuditStep, PTL DEF GuardSpec

-----------------------------------------------------------------------------
(* The cryptography                                                        *)

\* The two keys main.rs loads at every start, and the associated data of the
\* two uses of the cipher.
Kek == <<"key", KEK, 0>>
Pepper == <<"key", IndexKey, 0>>
WrapAd(tenant)  == aad("aiauth/dek-wrap/v1", tenant)
FieldAd(tenant) == aad("aiauth/field/v1", tenant)
IndexOf(tenant, input) == <<Pepper, "aiauth/blind-index/v1", tenant, input>>

Loaded(ks) ==
    KEK \in DOMAIN ks /\ IndexKey \in DOMAIN ks /\ ks[KEK] = Kek /\ ks[IndexKey] = Pepper

\* A row as encrypt_field makes it: a data key wrapped for its tenant, and the
\* plaintext sealed under that key for the same tenant.
GoodRow(r) ==
    /\ r.tenant \in Tenants /\ r.plaintext \in Values
    /\ r.wrapped_dek.key = Kek /\ r.wrapped_dek.ad = WrapAd(r.tenant)
    /\ IsKey(r.wrapped_dek.message)
    /\ r.ciphertext.key = r.wrapped_dek.message /\ r.ciphertext.ad = FieldAd(r.tenant)
    /\ r.ciphertext.message = r.plaintext

\* The bytes these rows hold.
KnownOf(rs) == {Garbage} \cup {r.wrapped_dek : r \in rs} \cup {r.ciphertext : r \in rs}

OwnPlaintext(rs, tenant, value) == \E r \in rs : r.tenant = tenant /\ r.plaintext = value

\* The two uses never meet, and each separates the tenants.
LEMMA Domains ==
    \A a, b : /\ WrapAd(a) # FieldAd(b)
              /\ WrapAd(a) = WrapAd(b) => a = b
              /\ FieldAd(a) = FieldAd(b) => a = b
              /\ Garbage.ad # WrapAd(a) /\ Garbage.ad # FieldAd(a)
<1>1. \A a : Len(WrapAd(a)) = 2 /\ Len(FieldAd(a)) = 2
  BY DEF WrapAd, FieldAd, aad
<1>2. Garbage.ad = << >> /\ Len(<< >>) = 0
  BY DEF Garbage
<1>3. \A a : /\ WrapAd(a)[1] = "aiauth/dek-wrap/v1" /\ WrapAd(a)[2] = a
             /\ FieldAd(a)[1] = "aiauth/field/v1" /\ FieldAd(a)[2] = a
  BY DEF WrapAd, FieldAd, aad
<1>4. "aiauth/dek-wrap/v1" # "aiauth/field/v1"
  OBVIOUS
<1>5. ASSUME NEW a PROVE Garbage.ad # WrapAd(a) /\ Garbage.ad # FieldAd(a)
  BY <1>1, <1>2
<1>6. ASSUME NEW a, NEW b
      PROVE  /\ WrapAd(a) # FieldAd(b)
             /\ WrapAd(a) = WrapAd(b) => a = b
             /\ FieldAd(a) = FieldAd(b) => a = b
  BY <1>3, <1>4
<1> QED
  BY <1>5, <1>6

\* What unwrap_dek answers.
LEMMA Unwraps ==
    ASSUME NEW ks, Loaded(ks), NEW tenant, NEW w
    PROVE  unwrap_dek(ks, KEK, tenant, w) =
              IF w.key = Kek /\ w.ad = WrapAd(tenant) THEN Ok(w.message) ELSE Err("Decrypt")
<1>1. lookup(ks, KEK) = Ok(Kek)
  BY DEF Loaded, lookup
<1>2. Ok(Kek).ok /\ Ok(Kek).value = Kek
  BY DEF Ok
<1>3. unwrap_dek(ks, KEK, tenant, w) = aead_open(Kek, WrapAd(tenant), w)
  BY <1>1, <1>2 DEF unwrap_dek, WrapAd
<1>4. IsKey(Kek)
  BY DEF IsKey, Kek
<1> QED
  BY <1>3, <1>4 DEF aead_open

\* Of the stored bytes only wrapped keys unwrap, and only ciphertexts open.
LEMMA StoredKinds ==
    ASSUME NEW rs, \A r \in rs : GoodRow(r), NEW x \in KnownOf(rs), NEW tenant
    PROVE  /\ x.ad = WrapAd(tenant) => IsKey(x.message)
           /\ x.ad = FieldAd(tenant) => OwnPlaintext(rs, tenant, x.message)
<1>1. CASE x = Garbage
  BY <1>1, Domains
<1>2. CASE \E r \in rs : x = r.wrapped_dek
  BY <1>2, Domains DEF GoodRow
<1>3. CASE \E r \in rs : x = r.ciphertext
  BY <1>3, Domains DEF GoodRow, OwnPlaintext
<1> QED
  BY <1>1, <1>2, <1>3 DEF KnownOf

\* decrypt_field on any stored bytes: a plaintext of that tenant's own, or one
\* and the same failure.
LEMMA Decrypts ==
    ASSUME NEW ks, Loaded(ks), NEW rs, \A r \in rs : GoodRow(r), NEW tenant,
           NEW w \in KnownOf(rs), NEW c \in KnownOf(rs)
    PROVE  LET d == decrypt_field(ks, KEK, tenant, w, c) IN
           \/ d.ok /\ OwnPlaintext(rs, tenant, d.value)
           \/ ~d.ok /\ d.error = "Decrypt"
<1> DEFINE u == unwrap_dek(ks, KEK, tenant, w)
           d == decrypt_field(ks, KEK, tenant, w, c)
<1>0. /\ Ok(w.message).ok /\ Ok(w.message).value = w.message
      /\ Ok(c.message).ok /\ Ok(c.message).value = c.message
      /\ ~Err("Decrypt").ok /\ Err("Decrypt").error = "Decrypt"
  BY DEF Ok, Err
<1>1. u = IF w.key = Kek /\ w.ad = WrapAd(tenant) THEN Ok(w.message) ELSE Err("Decrypt")
  BY Unwraps
<1>2. d = IF u.ok THEN aead_open(u.value, FieldAd(tenant), c) ELSE u
  BY DEF decrypt_field, FieldAd
<1> HIDE DEF u, d
<1>3. CASE ~(w.key = Kek /\ w.ad = WrapAd(tenant))
  <2>1. d = Err("Decrypt")
    BY <1>0, <1>1, <1>2, <1>3
  <2> QED
    BY <1>0, <2>1 DEF d
<1>4. CASE w.key = Kek /\ w.ad = WrapAd(tenant)
  <2>1. d = aead_open(w.message, FieldAd(tenant), c)
    BY <1>0, <1>1, <1>2, <1>4
  <2>2. IsKey(w.message)
    BY <1>4, StoredKinds
  <2>3. d = Err("Decrypt") \/ (d = Ok(c.message) /\ c.ad = FieldAd(tenant))
    BY <2>1, <2>2 DEF aead_open
  <2>4. CASE d = Err("Decrypt")
    BY <1>0, <2>4 DEF d
  <2>5. CASE d = Ok(c.message) /\ c.ad = FieldAd(tenant)
    <3>1. OwnPlaintext(rs, tenant, c.message)
      BY <2>5, StoredKinds
    <3>2. d.ok /\ OwnPlaintext(rs, tenant, d.value)
      BY <1>0, <2>5, <3>1
    <3> QED
      BY <3>2 DEF d
  <2> QED
    BY <2>3, <2>4, <2>5
<1> QED
  BY <1>3, <1>4

\* A stored row opens for its tenant.
LEMMA RowOpens ==
    ASSUME NEW ks, Loaded(ks), NEW r, GoodRow(r)
    PROVE  decrypt_field(ks, KEK, r.tenant, r.wrapped_dek, r.ciphertext) = Ok(r.plaintext)
<1>1. unwrap_dek(ks, KEK, r.tenant, r.wrapped_dek) = Ok(r.wrapped_dek.message)
  BY Unwraps DEF GoodRow
<1>2. Ok(r.wrapped_dek.message).ok /\ Ok(r.wrapped_dek.message).value = r.wrapped_dek.message
  BY DEF Ok
<1>3. decrypt_field(ks, KEK, r.tenant, r.wrapped_dek, r.ciphertext)
         = aead_open(r.wrapped_dek.message, FieldAd(r.tenant), r.ciphertext)
  BY <1>1, <1>2 DEF decrypt_field, FieldAd
<1> QED
  BY <1>3 DEF GoodRow, aead_open

\* What a handler holds and what an answer carries, given the stored rows.
GoodMessage(rs, r) ==
    /\ r.msg.op = r.op
    /\ r.op = "encrypt_field" =>
          r.msg.plaintext \in Values /\ r.msg.wrapped_dek \in KnownOf(rs) \cup {Empty}
    /\ r.op = "decrypt_field" =>
          r.msg.ciphertext \in KnownOf(rs) /\ r.msg.wrapped_dek \in KnownOf(rs)

GoodBody(rs, op, body) ==
    /\ op = "encrypt_field" => \A x \in body : GoodRow(x)
    /\ op = "decrypt_field" => \A x \in body : OwnPlaintext(rs, x.tenant, x.value)
    /\ op = "blind_index"   => \A x \in body : x.index = IndexOf(x.tenant, x.input)

CryptoInv ==
    /\ running # Down => Loaded(keys)
    /\ \A r \in rows : GoodRow(r)
    /\ \A t \in Threads : request[t] # NoRequest => GoodMessage(rows, request[t])
    /\ \A t \in Threads : answer[t] # NoAnswer => GoodBody(rows, answer[t].line.op, answer[t].body)
    /\ \A x \in released : OwnPlaintext(rows, x.tenant, x.value)
    /\ \A x \in indexes : x.index = IndexOf(x.tenant, x.input)

\* More rows only add to what is known.
LEMMA MoreRows ==
    ASSUME NEW rs, NEW ns, rs \subseteq ns
    PROVE  /\ \A r : GoodMessage(rs, r) => GoodMessage(ns, r)
           /\ \A op, body : GoodBody(rs, op, body) => GoodBody(ns, op, body)
           /\ \A tenant, value : OwnPlaintext(rs, tenant, value) => OwnPlaintext(ns, tenant, value)
<1>1. KnownOf(rs) \subseteq KnownOf(ns)
  BY DEF KnownOf
<1>2. \A tenant, value : OwnPlaintext(rs, tenant, value) => OwnPlaintext(ns, tenant, value)
  BY DEF OwnPlaintext
<1>3. ASSUME NEW r, GoodMessage(rs, r) PROVE GoodMessage(ns, r)
  BY <1>1, <1>3 DEF GoodMessage
<1>4. ASSUME NEW op, NEW body, GoodBody(rs, op, body) PROVE GoodBody(ns, op, body)
  BY <1>2, <1>4 DEF GoodBody
<1> QED
  BY <1>2, <1>3, <1>4

\* encrypt_field makes good rows, with a fresh key and with one it was given.
LEMMA Encrypts ==
    ASSUME Loaded(keys), \A r \in rows : GoodRow(r), NEW tenant \in Tenants, NEW msg,
           msg.plaintext \in Values, msg.wrapped_dek \in KnownOf(rows) \cup {Empty}
    PROVE  \A x \in EncryptField(msg, tenant).body : GoodRow(x)
<1> DEFINE wrapped == IF msg.wrapped_dek = Empty
                      THEN generate_wrapped_dek(keys, KEK, tenant, FreshDek)
                      ELSE Ok(msg.wrapped_dek)
           sealed  == IF wrapped.ok
                      THEN encrypt_field(keys, KEK, tenant, wrapped.value, msg.plaintext)
                      ELSE wrapped
           row     == [tenant |-> tenant, plaintext |-> msg.plaintext,
                       ciphertext |-> sealed.value, wrapped_dek |-> wrapped.value]
           w       == wrapped.value
<1>1. \A x \in EncryptField(msg, tenant).body : sealed.ok /\ x = row
  <2>1. EncryptField(msg, tenant) = IF sealed.ok THEN Served({row}) ELSE fail(sealed.error)
    BY DEF EncryptField
  <2> HIDE DEF sealed, row
  <2>2. Served({row}).body = {row} /\ fail(sealed.error).body = {}
    BY DEF Served, fail, Refused
  <2> QED
    BY <2>1, <2>2
<1>2. wrapped.ok /\ (w.ad = WrapAd(tenant) => IsKey(w.message))
  <2>1. CASE msg.wrapped_dek = Empty
    <3> DEFINE made == [key |-> Kek, ad |-> WrapAd(tenant), message |-> FreshDek]
    <3>1. lookup(keys, KEK) = Ok(Kek) /\ Ok(Kek).ok /\ Ok(Kek).value = Kek
      BY DEF Loaded, lookup, Ok
    <3>2. IsKey(Kek) /\ IsKey(FreshDek)
      BY DEF IsKey, Kek, FreshDek
    <3>3. wrapped = Ok(made)
      BY <2>1, <3>1, <3>2 DEF generate_wrapped_dek, aead_seal, WrapAd
    <3>4. made.message = FreshDek
      OBVIOUS
    <3> HIDE DEF wrapped, made
    <3>5. wrapped.ok /\ wrapped.value = made
      BY <3>3 DEF Ok
    <3> QED
      BY <3>2, <3>4, <3>5
  <2>2. CASE msg.wrapped_dek # Empty
    <3>1. wrapped = Ok(msg.wrapped_dek) /\ msg.wrapped_dek \in KnownOf(rows)
      BY <2>2
    <3> HIDE DEF wrapped
    <3>2. wrapped.ok /\ wrapped.value = msg.wrapped_dek
      BY <3>1 DEF Ok
    <3> QED
      BY <3>1, <3>2, StoredKinds
  <2> QED
    BY <2>1, <2>2
<1>3. sealed = encrypt_field(keys, KEK, tenant, w, msg.plaintext)
  BY <1>2
<1>4. row.tenant = tenant /\ row.plaintext = msg.plaintext /\ row.ciphertext = sealed.value
      /\ row.wrapped_dek = w
  OBVIOUS
<1> HIDE DEF wrapped, sealed, row, w
<1>5. ASSUME sealed.ok PROVE GoodRow(row)
  <2> DEFINE u == unwrap_dek(keys, KEK, tenant, w)
             c == [key |-> w.message, ad |-> FieldAd(tenant), message |-> msg.plaintext]
  <2>1. u = IF w.key = Kek /\ w.ad = WrapAd(tenant) THEN Ok(w.message) ELSE Err("Decrypt")
    BY Unwraps
  <2>2. sealed = IF u.ok THEN aead_seal(u.value, FieldAd(tenant), msg.plaintext) ELSE u
    BY <1>3 DEF encrypt_field, FieldAd
  <2> HIDE DEF u
  <2>3. ~Err("Decrypt").ok /\ Ok(w.message).ok /\ Ok(w.message).value = w.message
    BY DEF Ok, Err
  <2>4. w.key = Kek /\ w.ad = WrapAd(tenant) /\ u.ok /\ u.value = w.message
    BY <1>5, <2>1, <2>2, <2>3
  <2>5. sealed = Ok(c)
    BY <1>2, <2>2, <2>4 DEF aead_seal
  <2>6. c.key = w.message /\ c.ad = FieldAd(tenant) /\ c.message = msg.plaintext
    OBVIOUS
  <2> HIDE DEF c
  <2>7. sealed.value = c
    BY <2>5 DEF Ok
  <2> QED
    BY <1>2, <1>4, <2>4, <2>6, <2>7 DEF GoodRow
<1> QED
  BY <1>1, <1>5

\* A handler's work gives a good answer.
LEMMA WorkGood ==
    ASSUME Loaded(keys), \A r \in rows : GoodRow(r), NEW tenant \in Tenants, NEW r,
           r.op \in Ops, GoodMessage(rows, r)
    PROVE  GoodBody(rows, r.op, Work(r.msg, tenant).body)
<1> DEFINE msg == r.msg
<1>0. msg.op = r.op
  BY DEF GoodMessage
<1>1. CASE r.op = "verify_assertion"
  BY <1>1 DEF GoodBody
<1>2. CASE r.op = "encrypt_field"
  <2>1. Work(msg, tenant) = EncryptField(msg, tenant)
    BY <1>0, <1>2 DEF Work
  <2>2. \A x \in EncryptField(msg, tenant).body : GoodRow(x)
    BY <1>2, Encrypts DEF GoodMessage
  <2> QED
    BY <1>2, <2>1, <2>2 DEF GoodBody
<1>3. CASE r.op = "decrypt_field"
  <2> DEFINE d == decrypt_field(keys, KEK, tenant, msg.wrapped_dek, msg.ciphertext)
             x == [tenant |-> tenant, value |-> d.value]
  <2>1. Work(msg, tenant) = IF d.ok THEN Served({x}) ELSE fail(d.error)
    BY <1>0, <1>3 DEF Work, DecryptField
  <2>2. d.ok => OwnPlaintext(rows, tenant, d.value)
    BY <1>3, Decrypts DEF GoodMessage
  <2>3. x.tenant = tenant /\ x.value = d.value
    OBVIOUS
  <2> HIDE DEF d, x
  <2>4. Served({x}).body = {x} /\ fail(d.error).body = {}
    BY DEF Served, fail, Refused
  <2> QED
    BY <1>3, <2>1, <2>2, <2>3, <2>4 DEF GoodBody
<1>4. CASE r.op = "blind_index"
  <2> DEFINE i == blind_index(keys, IndexKey, tenant, msg.input)
             x == [tenant |-> tenant, input |-> msg.input, index |-> i.value]
  <2>1. Work(msg, tenant) = IF i.ok THEN Served({x}) ELSE Refused("Internal", "backend_error")
    BY <1>0, <1>4 DEF Work, BlindIndex
  <2>2. i.value = IndexOf(tenant, msg.input)
    <3>1. lookup(keys, IndexKey) = Ok(Pepper) /\ Ok(Pepper).ok /\ Ok(Pepper).value = Pepper
      BY DEF Loaded, lookup, Ok
    <3>2. i = Ok(IndexOf(tenant, msg.input))
      BY <3>1 DEF blind_index, IndexOf
    <3> HIDE DEF i
    <3> QED
      BY <3>2 DEF Ok
  <2>3. x.tenant = tenant /\ x.input = msg.input /\ x.index = i.value
    OBVIOUS
  <2> HIDE DEF i, x
  <2>4. Served({x}).body = {x} /\ Refused("Internal", "backend_error").body = {}
    BY DEF Served, Refused
  <2> QED
    BY <1>4, <2>1, <2>2, <2>3, <2>4 DEF GoodBody
<1> QED
  BY <1>1, <1>2, <1>3, <1>4, GuardConstants

\* The messages of each path name only bytes that are stored.
LEMMA MessagesGood ==
    ASSUME NEW op \in Ops, NEW msg \in Messages(op), NEW probe
    PROVE  GoodMessage(rows, [op |-> op, msg |-> msg, probe |-> probe])
<1> DEFINE r == [op |-> op, msg |-> msg, probe |-> probe]
<1>1. r.op = op /\ r.msg = msg
  OBVIOUS
<1>2. Known = KnownOf(rows)
  BY DEF Known, KnownOf
<1> HIDE DEF r
<1>3. CASE op = "verify_assertion"
  BY <1>1, <1>3 DEF Messages, GoodMessage, r
<1>4. CASE op = "encrypt_field"
  <2>1. msg \in [op : {op}, plaintext : Values, wrapped_dek : KnownOf(rows) \cup {Empty}]
    BY <1>2, <1>4 DEF Messages
  <2>2. msg.op = op /\ msg.plaintext \in Values /\ msg.wrapped_dek \in KnownOf(rows) \cup {Empty}
    BY <2>1
  <2> QED
    BY <1>1, <1>4, <2>2 DEF GoodMessage, r
<1>5. CASE op = "decrypt_field"
  <2>1. msg \in [op : {op}, ciphertext : KnownOf(rows), wrapped_dek : KnownOf(rows)]
    BY <1>2, <1>5 DEF Messages
  <2>2. msg.op = op /\ msg.ciphertext \in KnownOf(rows) /\ msg.wrapped_dek \in KnownOf(rows)
    BY <2>1
  <2> QED
    BY <1>1, <1>5, <2>2 DEF GoodMessage, r
<1>6. CASE op = "blind_index"
  BY <1>1, <1>6 DEF Messages, GoodMessage, r
<1> QED
  BY <1>3, <1>4, <1>5, <1>6, GuardConstants

\* A thread's answer changes, nothing else.
LEMMA CryptoFinish ==
    ASSUME ProcessInv, CryptoInv, NEW t \in Threads, NEW op, NEW probe, NEW result,
           Finish(t, op, probe, result), GoodBody(rows, op, result.body),
           UNCHANGED <<running, keys, rows, released, indexes>>,
           \A u \in Threads : request'[u] = request[u] \/ request'[u] = NoRequest
    PROVE  CryptoInv'
<1> DEFINE a == Answer(op, probe, result)
<1>1. a.line.op = op /\ a.body = result.body
  BY DEF Answer, Line
<1>2. answer' = [answer EXCEPT ![t] = a]
  BY DEF Finish, Answer
<1> HIDE DEF a
<1>3. answer'[t] = a /\ \A u \in Threads \ {t} : answer'[u] = answer[u]
  BY <1>2 DEF ProcessInv
<1>4. \A u \in Threads : answer'[u] # NoAnswer => GoodBody(rows, answer'[u].line.op, answer'[u].body)
  BY <1>1, <1>3 DEF CryptoInv
<1>5. \A u \in Threads : request'[u] # NoRequest => GoodMessage(rows, request'[u])
  BY DEF CryptoInv
<1> QED
  BY <1>4, <1>5 DEF CryptoInv

\* Threads let go of what they hold; the keys stay while the process does.
LEMMA CryptoLetGo ==
    ASSUME CryptoInv, UNCHANGED <<rows, released, indexes>>,
           running' # Down => Loaded(keys'),
           \A u \in Threads : request'[u] = request[u] \/ request'[u] = NoRequest,
           \A u \in Threads : answer'[u] = answer[u] \/ answer'[u] = NoAnswer
    PROVE  CryptoInv'
<1>1. \A u \in Threads : answer'[u] # NoAnswer => GoodBody(rows, answer'[u].line.op, answer'[u].body)
  BY DEF CryptoInv
<1>2. \A u \in Threads : request'[u] # NoRequest => GoodMessage(rows, request'[u])
  BY DEF CryptoInv
<1> QED
  BY <1>1, <1>2 DEF CryptoInv

\* The gateway stores what an answer carries.
LEMMA CryptoReply ==
    ASSUME ProcessInv, CryptoInv, NEW t \in Threads, Reply(t)
    PROVE  CryptoInv'
<1> DEFINE a == answer[t]
<1>1. /\ a # NoAnswer /\ answer' = [answer EXCEPT ![t] = NoAnswer]
      /\ rows' = rows \cup Carried(a, "encrypt_field")
      /\ released' = released \cup Carried(a, "decrypt_field")
      /\ indexes' = indexes \cup Carried(a, "blind_index")
      /\ UNCHANGED <<running, keys, request>>
  BY DEF Reply, process
<1>2. GoodBody(rows, a.line.op, a.body)
  BY <1>1 DEF CryptoInv
<1> HIDE DEF a
<1>3. \A u \in Threads : answer'[u] = answer[u] \/ answer'[u] = NoAnswer
  BY <1>1 DEF ProcessInv
<1>4. rows \subseteq rows'
  BY <1>1
<1>5. \A r \in rows' : GoodRow(r)
  BY <1>1, <1>2 DEF CryptoInv, Carried, GoodBody
<1>6. \A x \in released' : OwnPlaintext(rows, x.tenant, x.value)
  BY <1>1, <1>2 DEF CryptoInv, Carried, GoodBody
<1>7. \A x \in indexes' : x.index = IndexOf(x.tenant, x.input)
  BY <1>1, <1>2 DEF CryptoInv, Carried, GoodBody
<1>8. \A x \in released' : OwnPlaintext(rows', x.tenant, x.value)
  BY <1>4, <1>6, MoreRows
<1>9. \A u \in Threads : request'[u] # NoRequest => GoodMessage(rows', request'[u])
  BY <1>1, <1>4, MoreRows DEF CryptoInv
<1>10. \A u \in Threads : answer'[u] # NoAnswer => GoodBody(rows', answer'[u].line.op, answer'[u].body)
  BY <1>3, <1>4, MoreRows DEF CryptoInv
<1> QED
  BY <1>1, <1>5, <1>7, <1>8, <1>9, <1>10 DEF CryptoInv

\* Every step keeps the rows, messages and answers good.
LEMMA CryptoStep == ProcessInv /\ CryptoInv /\ [GuardNext]_guardVars => CryptoInv'
<1> SUFFICES ASSUME ProcessInv, CryptoInv, [GuardNext]_guardVars PROVE CryptoInv'
  OBVIOUS
<1> USE DEF gateway, process
<1>0. GoodBody(rows, "none", {}) /\ \A op : GoodBody(rows, op, {})
  BY DEF GoodBody
<1>1. ASSUME NEW t \in Threads, NEW op \in Ops, NEW probe, NEW status, Rejected(t, op, probe, status)
      PROVE  CryptoInv'
  <2>1. Refused(status, "rejected").body = {}
    BY DEF Refused
  <2>2. /\ Finish(t, op, probe, Refused(status, "rejected"))
        /\ UNCHANGED <<request, running, keys, rows, released, indexes>>
    BY <1>1 DEF Rejected
  <2> QED
    BY <1>0, <2>1, <2>2, CryptoFinish
<1>2. ASSUME NEW t \in Threads, NEW op \in Ops, NEW tenant, NEW msg \in Messages(op),
             Accepted(t, op, tenant, msg)
      PROVE  CryptoInv'
  <2> DEFINE r == [op |-> op, msg |-> msg, probe |-> FALSE]
  <2>1. /\ request' = [request EXCEPT ![t] = r]
        /\ UNCHANGED <<answer, running, keys, rows, released, indexes>>
    BY <1>2 DEF Accepted
  <2>2. GoodMessage(rows, r)
    BY MessagesGood
  <2> HIDE DEF r
  <2>3. request'[t] = r /\ \A u \in Threads \ {t} : request'[u] = request[u]
    BY <2>1 DEF ProcessInv
  <2>4. \A u \in Threads : request'[u] # NoRequest => GoodMessage(rows, request'[u])
    BY <2>2, <2>3 DEF CryptoInv
  <2> QED
    BY <2>1, <2>4 DEF CryptoInv
<1>3. ASSUME NEW t \in Threads, NEW result, Ended(t, result),
             GoodBody(rows, request[t].op, result.body)
      PROVE  CryptoInv'
  <2>1. /\ Finish(t, request[t].op, request[t].probe, result)
        /\ request' = [request EXCEPT ![t] = NoRequest]
        /\ UNCHANGED <<running, keys, rows, released, indexes>>
    BY <1>3 DEF Ended, Conclude
  <2>2. \A u \in Threads : request'[u] = request[u] \/ request'[u] = NoRequest
    BY <2>1 DEF ProcessInv
  <2> QED
    BY <1>3, <2>1, <2>2, CryptoFinish
<1>4. ASSUME NEW t \in Threads, AskGlobal(t) \/ AskTenant(t) PROVE CryptoInv'
  <2>1. work[t] # Idle /\ TypeOK
    BY <1>4 DEF AskGlobal, AskTenant, TakeGlobal, TakeTenant, Idle, ProcessInv
  <2>2. work[t].key[1] \in Tenants /\ work[t].key[2] \in Ops
    BY <2>1, WorkShape
  <2>3. /\ request[t] # NoRequest /\ running # Down /\ request[t].op = work[t].key[2]
        /\ GoodMessage(rows, request[t]) /\ Loaded(keys) /\ \A r \in rows : GoodRow(r)
    BY <2>1 DEF ProcessInv, Consistent, CryptoInv
  <2>4. GoodBody(rows, request[t].op, Work(request[t].msg, work[t].key[1]).body)
    BY <2>2, <2>3, WorkGood
  <2>5. GoodBody(rows, request[t].op, Limited.body)
    BY <1>0 DEF Limited, Refused
  <2>6. \/ Ended(t, Limited)
        \/ Ended(t, Work(request[t].msg, work[t].key[1]))
        \/ UNCHANGED <<request, answer, running, keys, rows, released, indexes>>
    BY <1>4, <2>1, AskedGlobal, AskedTenant
  <2>7. CASE UNCHANGED <<request, answer, running, keys, rows, released, indexes>>
    BY <2>7, CryptoLetGo DEF CryptoInv
  <2> QED
    BY <1>3, <2>4, <2>5, <2>6, <2>7
<1>5. ASSUME NEW t \in Threads, Lose(t) PROVE CryptoInv'
  <2>1. /\ answer' = [answer EXCEPT ![t] = NoAnswer]
        /\ UNCHANGED <<request, running, keys, rows, released, indexes>>
    BY <1>5 DEF Lose
  <2>2. \A u \in Threads : answer'[u] = answer[u] \/ answer'[u] = NoAnswer
    BY <2>1 DEF ProcessInv
  <2> QED
    BY <2>1, <2>2, CryptoLetGo DEF CryptoInv
<1>6. CASE Stop
  BY <1>6, CryptoLetGo DEF Stop
<1>7. ASSUME NEW env \in Environments, Start(env) PROVE CryptoInv'
  <2>1. keys' = Material(boots) /\ UNCHANGED <<request, answer, rows, released, indexes>>
    BY <1>7 DEF Start
  <2>2. Loaded(Material(boots))
    <3>1. KEK # IndexKey
      BY DEF KEK, IndexKey
    <3> QED
      BY <3>1 DEF Loaded, Material, with_key, Kek, Pepper
  <2> QED
    BY <2>1, <2>2, CryptoLetGo
<1>8. CASE \/ UNCHANGED guardVars \/ GuardTick \/ ProbeInVain
           \/ \E env : StartRefused(env)
           \/ \E t, path : ArriveElsewhere(t, path)
  <2>1. UNCHANGED <<request, answer, running, keys, rows, released, indexes>>
    BY <1>8 DEF GuardTick, ProbeInVain, StartRefused, ArriveElsewhere, guardVars, service
  <2> QED
    BY <2>1, CryptoLetGo DEF CryptoInv
<1>9. ASSUME NEW t \in Threads, (\E path \in Paths : Arrive(t, path)) \/ Probe(t)
      PROVE  CryptoInv'
  BY <1>1, <1>2, <1>9, Received
<1> QED
  BY <1>4, <1>5, <1>6, <1>7, <1>8, <1>9, CryptoReply DEF GuardNext

\* What is known of rows, messages and answers at all times.
LEMMA CryptoInvariant == GuardSpec => []CryptoInv
<1>1. GuardInit => CryptoInv
  BY DEF GuardInit, CryptoInv
<1> QED
  BY <1>1, ProcessInvariant, CryptoStep, PTL DEF GuardSpec

\* The Guard's type invariant, for any number of threads.
THEOREM GuardTypeCorrect == GuardSpec => []GuardTypeOK
<1>1. ProcessInv /\ CryptoInv => GuardTypeOK
  <2> SUFFICES ASSUME ProcessInv, CryptoInv PROVE GuardTypeOK
    OBVIOUS
  <2>1. \A r \in rows : r.tenant \in Tenants /\ r.plaintext \in Values
    BY DEF CryptoInv, GoodRow
  <2>2. \A t \in Threads :
          /\ request[t] = NoRequest <=> work[t] = Idle
          /\ work[t] # Idle => work[t].key[2] = request[t].op /\ answer[t] = NoAnswer
          /\ running = Down => Free(t)
    BY DEF ProcessInv, Consistent, Free
  <2> QED
    BY <2>1, <2>2 DEF ProcessInv, GuardTypeOK
<1> QED
  BY <1>1, ProcessInvariant, CryptoInvariant, PTL

\* "a DEK cannot open ciphertext from another tenant" (provider.rs:91): however
\* many threads, rows, tenants and restarts there are, decrypt_field never
\* answers a tenant with anything but a plaintext encrypted for it.
THEOREM PlaintextsStayHome == GuardSpec => []OnlyOwnPlaintexts
<1>1. CryptoInv => OnlyOwnPlaintexts
  BY DEF CryptoInv, OwnPlaintext, OnlyOwnPlaintexts
<1> QED
  BY <1>1, CryptoInvariant, PTL

\* "the returned key must be stored beside the ciphertext" (guard/calls.go:71)
\* and then suffices, in every process after the one that wrote the row.
THEOREM StoredRowsOpen == GuardSpec => []RowsReadable
<1>1. CryptoInv => RowsReadable
  BY RowOpens DEF CryptoInv, RowsReadable
<1> QED
  BY <1>1, CryptoInvariant, PTL

\* "equality search requires a stable index" (software.rs:199), "cross-tenant
\* correlation is impossible" (provider.rs:111): answers of blind_index agree
\* exactly when tenant and input do, across all lives of the process.
THEOREM IndexesIdentify == GuardSpec => []IndexIdentifies
<1>1. \A t1, i1, t2, i2 : IndexOf(t1, i1) = IndexOf(t2, i2) => t1 = t2 /\ i1 = i2
  <2>1. \A x, i : IndexOf(x, i)[3] = x /\ IndexOf(x, i)[4] = i
    BY DEF IndexOf
  <2> QED
    BY <2>1
<1>2. CryptoInv => IndexIdentifies
  BY <1>1 DEF CryptoInv, IndexIdentifies
<1> QED
  BY <1>2, CryptoInvariant, PTL

\* "Deliberately undifferentiated" (provider.rs:56): no combination of stored
\* bytes, for no tenant, fails to open in any other way than the one.
THEOREM OpeningsFailAlike == GuardSpec => []FailuresAlike
<1>1. CryptoInv => FailuresAlike
  <2> SUFFICES ASSUME CryptoInv, running # Down, NEW tenant \in Tenants, NEW w \in Known, NEW c \in Known
               PROVE  DecryptField([ciphertext |-> c, wrapped_dek |-> w], tenant).status
                         \in {"OK", "PermissionDenied"}
    BY DEF FailuresAlike
  <2> DEFINE m == [ciphertext |-> c, wrapped_dek |-> w]
             d == decrypt_field(keys, KEK, tenant, w, c)
  <2>1. m.ciphertext = c /\ m.wrapped_dek = w
    OBVIOUS
  <2> HIDE DEF m
  <2>2. DecryptField(m, tenant) =
           IF d.ok THEN Served({[tenant |-> tenant, value |-> d.value]}) ELSE fail(d.error)
    BY <2>1 DEF DecryptField
  <2>3. d.ok \/ d.error = "Decrypt"
    <3>1. w \in KnownOf(rows) /\ c \in KnownOf(rows)
      BY DEF Known, KnownOf
    <3>2. Loaded(keys) /\ \A r \in rows : GoodRow(r)
      BY DEF CryptoInv
    <3> QED
      BY <3>1, <3>2, Decrypts
  <2> HIDE DEF d
  <2>4. /\ Served({[tenant |-> tenant, value |-> d.value]}).status = "OK"
        /\ fail("Decrypt").status = "PermissionDenied"
    BY DEF Served, fail, Refused
  <2>5. DecryptField(m, tenant).status \in {"OK", "PermissionDenied"}
    BY <2>2, <2>3, <2>4
  <2> QED
    BY <2>5 DEF m
<1> QED
  BY <1>1, CryptoInvariant, PTL

-----------------------------------------------------------------------------
(* The limiter inside the Guard                                            *)

\* To the limiter every step of the Guard is one of its own or none, or the
\* end of the process.
LEMMA LimiterSteps == [GuardNext]_guardVars => [Next]_vars \/ Stop
<1> SUFFICES ASSUME [GuardNext]_guardVars PROVE [Next]_vars \/ Stop
  OBVIOUS
<1>1. ASSUME NEW t \in Threads, (\E path \in Paths : Arrive(t, path)) \/ Probe(t)
      PROVE  [Next]_vars
  <2>1. ASSUME NEW op \in Ops, NEW tenant \in Tenants, NEW msg, Accepted(t, op, tenant, msg)
        PROVE  Next
    <3>1. <<tenant, op>> \in Keys
      BY DEF Keys
    <3> QED
      BY <2>1, <3>1 DEF Accepted, Next
  <2>2. ASSUME NEW op, NEW probe, NEW status, Rejected(t, op, probe, status)
        PROVE  UNCHANGED vars
    BY <2>2 DEF Rejected
  <2> QED
    BY <1>1, <2>1, <2>2, Received
<1>2. ASSUME NEW t \in Threads, AskGlobal(t) \/ AskTenant(t) PROVE Next
  BY <1>2 DEF AskGlobal, AskTenant, Next
<1>3. ASSUME NEW t \in Threads, Reply(t) \/ Lose(t) PROVE UNCHANGED vars
  BY <1>3 DEF Reply, Lose
<1>4. CASE GuardTick
  BY <1>4 DEF GuardTick, Next
<1>5. CASE \/ UNCHANGED guardVars \/ ProbeInVain
           \/ \E env : Start(env) \/ StartRefused(env)
           \/ \E t, path : ArriveElsewhere(t, path)
  BY <1>5 DEF ProbeInVain, Start, StartRefused, ArriveElsewhere, guardVars
<1> QED
  BY <1>1, <1>2, <1>3, <1>4, <1>5 DEF GuardNext

\* What a stop leaves of the limiter.
LEMMA StopEmpties ==
    ASSUME ProcessInv, Stop
    PROVE  /\ DOMAIN buckets' = {} /\ DOMAIN global' = {}
           /\ passed' = [op \in Ops |-> 0] /\ work' = [t \in Threads |-> Idle]
           /\ rewound' = [op \in Ops |-> {}]
           /\ clock' = clock /\ clock \in Nat
BY DEF Stop, ProcessInv, TypeOK

\* Under any traffic on any number of threads, and across restarts, the map of
\* tenant buckets stays within max_buckets.
THEOREM GuardBucketsBounded == GuardSpec => []BucketsBounded
<1>1. GuardInit => Bounded
  BY BoundedInit DEF GuardInit, Init
<1>2. ProcessInv /\ Bounded /\ [GuardNext]_guardVars => Bounded'
  <2>1. ASSUME DOMAIN buckets' = {} PROVE Bounded'
    <3>1. MaxBuckets \in Nat
      BY RateLimiterConstants
    <3> QED
      BY <2>1, <3>1, FS_EmptySet DEF Bounded
  <2> QED
    BY <2>1, LimiterSteps, StopEmpties, BoundedStep
<1>3. Bounded => BucketsBounded
  BY DEF Bounded, BucketsBounded
<1> QED
  BY <1>1, <1>2, <1>3, ProcessInvariant, PTL DEF GuardSpec

\* The same for the headroom under the global ceiling.
THEOREM GuardHeadroomKept == GuardSpec => []HeadroomKept
<1>1. GuardInit => HeadroomInv
  <2> SUFFICES ASSUME GuardInit PROVE HeadroomInv
    OBVIOUS
  <2>1. GlobalTyped /\ DOMAIN global = {}
    BY GlobalTypedInit DEF GuardInit
  <2> QED
    BY <2>1, HeadroomInit
<1>2. ProcessInv /\ HeadroomInv /\ [GuardNext]_guardVars => HeadroomInv'
  <2> SUFFICES ASSUME ProcessInv, HeadroomInv, [GuardNext]_guardVars PROVE HeadroomInv'
    OBVIOUS
  <2>1. CASE Stop
    BY <2>1, StopEmpties DEF HeadroomInv, GlobalTyped, HeadroomKept
  <2> QED
    BY <2>1, LimiterSteps, HeadroomStep
<1>3. HeadroomInv => HeadroomKept
  BY DEF HeadroomInv
<1> QED
  BY <1>1, <1>2, <1>3, ProcessInvariant, PTL DEF GuardSpec

\* And for the ceiling itself, in every life of the process.
THEOREM GuardCeilingBinds == GuardSpec => []CeilingPerThread
<1>1. GuardInit => CeilingInv
  BY CeilingInit, GlobalTypedInit DEF GuardInit, Init
<1>2. ProcessInv /\ CeilingInv /\ [GuardNext]_guardVars => CeilingInv'
  <2> SUFFICES ASSUME ProcessInv, CeilingInv, [GuardNext]_guardVars PROVE CeilingInv'
    OBVIOUS
  <2>1. CASE Stop
    <3>1. /\ DOMAIN global' = {} /\ passed' = [op \in Ops |-> 0] /\ rewound' = [op \in Ops |-> {}]
          /\ work' = [t \in Threads |-> Idle] /\ clock' = clock /\ clock \in Nat
      BY <2>1, StopEmpties
    <3>2. GlobalTyped'
      BY <3>1 DEF GlobalTyped
    <3>3. GlobalDue' \in [Threads -> 0 .. clock]
      BY <3>1 DEF GlobalDue, Due, Idle
    <3>4. Overlaps({}, GlobalDue', 0, clock)
      BY <3>1, <3>3 DEF Overlaps
    <3>5. ASSUME NEW op \in Ops
          PROVE  /\ Overlaps(rewound'[op], GlobalDue', Filled(global', op), clock')
                 /\ Credit(op, global', passed'[op], rewound'[op])
      <4>1. Filled(global', op) = 0 /\ rewound'[op] = {} /\ passed'[op] = 0
        BY <3>1 DEF Filled
      <4> QED
        BY <3>1, <3>4, <4>1 DEF Credit
    <3> QED
      BY <3>2, <3>5 DEF CeilingInv
  <2> QED
    BY <2>1, LimiterSteps, CeilingStep
<1> QED
  BY <1>1, <1>2, CeilingFollows, ProcessInvariant, PTL DEF GuardSpec

-----------------------------------------------------------------------------
(* The work and its budget                                                 *)

\* How far each thread is in the tenants' accounts.
TenantDue == [t \in Threads |-> Due(work[t], clock, {"global", "tenant"})]

\* What a key may still spend before any refill: without a bucket the next one
\* will be full, if a process runs.
Left(bs, k, up) == IF k \in DOMAIN bs THEN bs[k].tokens ELSE IF up THEN Capacity ELSE 0

\* The account of a key: what was done for it and what is left is covered by the
\* full buckets of all starts, the refill up to the account's instant, and again
\* that of the ticks it was moved back over.
Within(n, left, base, last, R) == n + left =< base + Refill * (last + Cardinality(R))

BudgetInv ==
    /\ \A k \in Keys : Overlaps(regained[k], TenantDue, settled[k], clock)
    /\ \A k \in DOMAIN buckets : buckets[k].last = settled[k]
    /\ \A k \in Keys \ forgotten :
          Within(performed[k], Left(buckets, k, running # Down), boots * Capacity,
                 settled[k], regained[k])
    /\ running = Down => DOMAIN buckets = {}

\* The budgets are numbers.
LEMMA BudgetNumbers ==
    /\ Capacity \in Nat /\ Refill \in Nat
    /\ \A n \in Nat : n * Capacity \in Nat /\ Refill * n \in Nat
    /\ \A n \in Nat : (n + 1) * Capacity = n * Capacity + Capacity
    /\ \A a, b \in Nat : a =< b => Refill * a =< Refill * b
<1>1. Capacity \in Nat /\ Refill \in Nat
  BY RateLimiterConstants
<1>2. ASSUME NEW n \in Nat
      PROVE  n * Capacity \in Nat /\ Refill * n \in Nat /\ (n + 1) * Capacity = n * Capacity + Capacity
  BY <1>1
<1>3. ASSUME NEW a \in Nat, NEW b \in Nat, a =< b PROVE Refill * a =< Refill * b
  BY <1>1, <1>3, Products
<1> QED
  BY <1>1, <1>2, <1>3

\* What the invariant of the process says of the numbers in the accounts.
LEMMA BudgetTyped ==
    ASSUME ProcessInv
    PROVE  /\ clock \in Nat /\ boots \in Nat /\ boots * Capacity \in Nat
           /\ \A k \in Keys : performed[k] \in Nat /\ settled[k] \in 0 .. clock
           /\ \A k \in DOMAIN buckets : k \in Keys /\ buckets[k].tokens \in Nat
           /\ \A k \in Keys : \A up : Left(buckets, k, up) \in Nat
<1>1. clock \in Nat /\ \A k \in Keys : settled[k] \in 0 .. clock
  BY DEF ProcessInv, TypeOK
<1>2. boots \in Nat /\ \A k \in Keys : performed[k] \in Nat
  BY DEF ProcessInv
<1>3. boots * Capacity \in Nat /\ Capacity \in Nat
  BY <1>2, BudgetNumbers
<1>4. \A k \in DOMAIN buckets : k \in Keys /\ buckets[k].tokens \in 0 .. Capacity
  BY DEF ProcessInv, TypeOK, IsBucket
<1>5. \A k \in DOMAIN buckets : k \in Keys /\ buckets[k].tokens \in Nat
  BY <1>3, <1>4
<1>6. \A k \in Keys : \A up : Left(buckets, k, up) \in Nat
  BY <1>3, <1>5 DEF Left
<1> QED
  BY <1>1, <1>2, <1>3, <1>5, <1>6

\* A thread is as far as its call's reading, or the clock's.
LEMMA DueIs ==
    ASSUME NEW c \in Nat,
           NEW w \in {Idle} \cup [pc : {"global", "tenant"}, key : Keys, now : 0 .. c]
    PROVE  /\ Due(w, c, {"global", "tenant"}) = IF w = Idle THEN c ELSE w.now
           /\ Due(w, c, {"global", "tenant"}) \in 0 .. c
           /\ Due(w, c, {"global", "tenant"}) =< c
<1>1. CASE w = Idle
  BY <1>1 DEF Due, Idle
<1>2. CASE w \in [pc : {"global", "tenant"}, key : Keys, now : 0 .. c]
  BY <1>2 DEF Due, Idle
<1> QED
  BY <1>1, <1>2

\* No step takes a thread back.
LEMMA DueLater ==
    ASSUME ProcessInv, ProcessInv', clock =< clock',
           \A u \in Threads : \/ work'[u] = work[u] \/ work'[u] = Idle \/ work'[u].now = clock
                              \/ work[u] # Idle /\ work'[u].now = work[u].now
    PROVE  /\ TenantDue' \in [Threads -> 0 .. clock']
           /\ \A u \in Threads : TenantDue[u] =< TenantDue'[u]
<1> DEFINE D == TenantDue
           E == TenantDue'
<1>1. /\ clock \in Nat /\ clock' \in Nat
      /\ \A u \in Threads :
            /\ work[u] \in {Idle} \cup [pc : {"global", "tenant"}, key : Keys, now : 0 .. clock]
            /\ work'[u] \in {Idle} \cup [pc : {"global", "tenant"}, key : Keys, now : 0 .. clock']
  BY DEF ProcessInv, TypeOK
<1>2. ASSUME NEW u \in Threads
      PROVE  /\ D[u] = IF work[u] = Idle THEN clock ELSE work[u].now
             /\ D[u] \in 0 .. clock /\ D[u] =< clock
  <2>1. D[u] = Due(work[u], clock, {"global", "tenant"})
    BY DEF TenantDue
  <2> QED
    BY <1>1, <2>1, DueIs
<1>3. ASSUME NEW u \in Threads
      PROVE  /\ E[u] = IF work'[u] = Idle THEN clock' ELSE work'[u].now
             /\ E[u] \in 0 .. clock'
  <2>1. E[u] = Due(work'[u], clock', {"global", "tenant"})
    BY DEF TenantDue
  <2> QED
    BY <1>1, <2>1, DueIs
<1>4. E = [u \in Threads |-> E[u]]
  BY DEF TenantDue
<1> HIDE DEF D, E
<1>5. ASSUME NEW u \in Threads PROVE D[u] =< E[u]
  <2>1. CASE work'[u] = Idle
    BY <1>1, <1>2, <1>3, <2>1
  <2>2. CASE work'[u] # Idle /\ work'[u].now = clock
    BY <1>1, <1>2, <1>3, <2>2
  <2>3. CASE work'[u] # Idle /\ work[u] # Idle /\ work'[u].now = work[u].now
    BY <1>1, <1>2, <1>3, <2>3
  <2>4. CASE work'[u] # Idle /\ work'[u] = work[u]
    BY <1>1, <1>2, <1>3, <2>4
  <2> QED
    BY <2>1, <2>2, <2>3, <2>4
<1>6. E \in [Threads -> 0 .. clock'] /\ \A u \in Threads : D[u] =< E[u]
  BY <1>3, <1>4, <1>5
<1> QED
  BY <1>6 DEF D, E

\* A step that moves no account.
LEMMA AccountsKept ==
    ASSUME ProcessInv, ProcessInv', BudgetInv, UNCHANGED <<settled, regained>>, clock =< clock',
           \A u \in Threads : \/ work'[u] = work[u] \/ work'[u] = Idle \/ work'[u].now = clock
                              \/ work[u] # Idle /\ work'[u].now = work[u].now
    PROVE  \A k \in Keys : Overlaps(regained'[k], TenantDue', settled'[k], clock')
<1> SUFFICES ASSUME NEW k \in Keys PROVE Overlaps(regained[k], TenantDue', settled[k], clock')
  OBVIOUS
<1> DEFINE D == TenantDue
           E == TenantDue'
<1>1. Overlaps(regained[k], D, settled[k], clock)
  BY DEF BudgetInv
<1>2. E \in [Threads -> 0 .. clock'] /\ \A u \in Threads : D[u] =< E[u]
  BY DueLater
<1>3. clock' \in Nat
  BY DEF ProcessInv, TypeOK
<1> HIDE DEF D, E
<1>4. Overlaps(regained[k], E, settled[k], clock')
  BY <1>1, <1>2, <1>3, OverlapsLater
<1> QED
  BY <1>4 DEF E

\* Steps that touch neither buckets nor accounts.
LEMMA BudgetIdle ==
    ASSUME ProcessInv, ProcessInv', BudgetInv, clock =< clock',
           UNCHANGED <<buckets, performed, forgotten, settled, regained, boots, running>>,
           \A u \in Threads : \/ work'[u] = work[u] \/ work'[u] = Idle \/ work'[u].now = clock
                              \/ work[u] # Idle /\ work'[u].now = work[u].now
    PROVE  BudgetInv'
<1>1. \A k \in Keys : Overlaps(regained'[k], TenantDue', settled'[k], clock')
  BY AccountsKept
<1> QED
  BY <1>1 DEF BudgetInv

\* The first pass is lossless: the account of a bucket that is full by now is
\* that of a new one, up to now.
LEMMA WithinEvicted ==
    ASSUME NEW n \in Nat, NEW bs, NEW k \in DOMAIN bs, NEW base \in Nat, NEW now \in Nat, NEW R,
           Within(n, bs[k].tokens, base, bs[k].last, R), Cardinality(R) \in Nat,
           k \notin DOMAIN NotFull(bs, now), bs[k].tokens \in Nat, bs[k].last \in Nat
    PROVE  Within(n, Capacity, base, IF bs[k].last < now THEN now ELSE bs[k].last, R)
<1> DEFINE tokens == bs[k].tokens
           last   == bs[k].last
           x      == Cardinality(R)
           upto   == IF last < now THEN now ELSE last
           y      == last + x
           z      == upto + x
<1>1. ~(tokens + Elapsed(now, last) * Refill < Capacity)
  BY DEF NotFull, Restrict
<1>2. y \in Nat /\ z \in Nat /\ y =< z /\ z - y = Elapsed(now, last)
  BY DEF Elapsed
<1>3. n + tokens =< base + Refill * y
  BY DEF Within
<1>4. tokens \in Nat
  OBVIOUS
<1> DEFINE e == Elapsed(now, last) * Refill
           p == Refill * y
           q == Refill * z
<1> HIDE DEF y, z, tokens
<1>5. e \in Nat /\ p + e = q /\ p \in Nat /\ q \in Nat
  BY <1>2, BudgetNumbers, Products
<1>6. Capacity \in Nat /\ ~(tokens + e < Capacity) /\ n + tokens =< base + p
  BY <1>1, <1>3, BudgetNumbers
<1> HIDE DEF e, p, q
<1>7. n + Capacity =< base + q
  BY <1>4, <1>5, <1>6
<1> QED
  BY <1>7 DEF Within, q, z

\* The caller's bucket, found or new, and what take makes of it.
LEMMA BudgetTaken ==
    ASSUME NEW n \in Nat, NEW bs, NEW k, NEW base \in Nat, NEW now \in Nat,
           NEW last \in Nat, NEW R, Cardinality(R) \in Nat,
           Within(n, Left(bs, k, TRUE), base, last, R),
           k \in DOMAIN bs => bs[k].tokens \in Nat /\ bs[k].last = last
    PROVE  LET b == Entry(bs, k, Capacity, now)
               a == take(b, now, Capacity, Refill)
               z == now + (Cardinality(R) + Elapsed(last, now))
           IN  IF Took(b, now, Capacity, Refill) THEN n + 1 + a.tokens =< base + Refill * z
                                                 ELSE n + a.tokens =< base + Refill * z
<1> DEFINE b == Entry(bs, k, Capacity, now)
           x == Cardinality(R)
           e == Elapsed(last, now)
<1>1. Capacity \in Nat /\ Refill \in Nat
  BY BudgetNumbers
<1>2. CASE k \in DOMAIN bs
  <2>1. b = bs[k] /\ b.tokens \in Nat /\ b.last = last /\ Left(bs, k, TRUE) = b.tokens
    BY <1>2 DEF Entry, Left
  <2>2. n + b.tokens =< base + Refill * (b.last + x)
    BY <2>1 DEF Within
  <2> HIDE DEF b, x
  <2>3. LET a == take(b, now, Capacity, Refill)
            z == now + (x + Elapsed(b.last, now))
        IN  IF Took(b, now, Capacity, Refill) THEN n + 1 + a.tokens =< base + Refill * z
                                              ELSE n + a.tokens =< base + Refill * z
    <3>1. x \in Nat /\ b.last \in Nat
      BY <2>1 DEF x
    <3> QED
      BY <1>1, <2>1, <2>2, <3>1, TakeKeepsAccount
  <2> QED
    BY <2>1, <2>3 DEF b, x
<1>3. CASE k \notin DOMAIN bs
  <2> DEFINE y == last + x
             z == now + (x + e)
             m == x + e
  <2>1. b.tokens = Capacity /\ b.last = now
    BY <1>3 DEF Entry
  <2>2. n + Capacity =< base + Refill * y
    BY <1>3 DEF Within, Left
  <2>3. y \in Nat /\ z \in Nat /\ y =< z /\ m \in Nat
    BY DEF Elapsed
  <2>4. m + Elapsed(now, now) = m
    BY <2>3 DEF Elapsed
  <2> HIDE DEF y, b
  <2>5. n + b.tokens =< base + Refill * (b.last + m)
    <3> HIDE DEF z
    <3>1. Refill * y =< Refill * z /\ Refill * y \in Nat /\ Refill * z \in Nat
      BY <2>3, BudgetNumbers
    <3>2. n + Capacity =< base + Refill * z
      BY <1>1, <2>2, <3>1
    <3> QED
      BY <2>1, <3>2 DEF z
  <2> HIDE DEF m
  <2>6. LET a == take(b, now, Capacity, Refill)
            v == now + (m + Elapsed(b.last, now))
        IN  IF Took(b, now, Capacity, Refill) THEN n + 1 + a.tokens =< base + Refill * v
                                              ELSE n + a.tokens =< base + Refill * v
    <3>1. b.tokens \in Nat /\ b.last \in Nat
      BY <1>1, <2>1
    <3> QED
      BY <1>1, <2>3, <2>5, <3>1, TakeKeepsAccount
  <2> QED
    BY <2>1, <2>4, <2>6 DEF b, m
<1> QED
  BY <1>2, <1>3

\* What an eviction at a thread's reading does to the accounts, before the
\* caller's own bucket is touched.
LEMMA BudgetEvict ==
    ASSUME ProcessInv, BudgetInv, NEW t \in Threads, work[t] # Idle, running # Down,
           NEW bs \in Evict(buckets, work[t].now), NEW x \in Keys
    PROVE  LET at == Reached(DOMAIN buckets \ DOMAIN bs, work[t].now) IN
           /\ at[x] \in Nat
           /\ Overlaps(regained[x], TenantDue, at[x], clock)
           /\ x \in DOMAIN bs => bs[x].tokens \in Nat /\ bs[x].last = at[x]
           /\ x \notin forgotten \cup (DOMAIN NotFull(buckets, work[t].now) \ DOMAIN bs)
                 => Within(performed[x], Left(bs, x, TRUE), boots * Capacity, at[x], regained[x])
<1> DEFINE now  == work[t].now
           base == boots * Capacity
           at   == Reached(DOMAIN buckets \ DOMAIN bs, now)
           R    == regained[x]
           last == settled[x]
<1>1. now \in Nat /\ TenantDue[t] = now
  <2>1. work[t] \in {Idle} \cup [pc : {"global", "tenant"}, key : Keys, now : 0 .. clock] /\ clock \in Nat
    BY DEF ProcessInv, TypeOK
  <2>2. TenantDue[t] = Due(work[t], clock, {"global", "tenant"})
    BY DEF TenantDue
  <2> QED
    BY <2>1, <2>2, DueIs
<1>2. /\ base \in Nat /\ performed[x] \in Nat /\ last \in Nat
      /\ \A k \in DOMAIN buckets : buckets[k].tokens \in Nat
  BY BudgetTyped
<1>3. Overlaps(R, TenantDue, last, clock)
  BY DEF BudgetInv
<1>4. Cardinality(R) \in Nat
  BY <1>3, OverlapsFinite
<1>5. DOMAIN bs \subseteq DOMAIN buckets /\ \A k \in DOMAIN bs : bs[k] = buckets[k]
  BY EvictRemoves
<1>6. at[x] = IF x \in DOMAIN buckets \ DOMAIN bs /\ last < now THEN now ELSE last
  BY DEF Reached
<1>7. \A k \in DOMAIN buckets : buckets[k].last = settled[k]
  BY DEF BudgetInv
<1>8. x \notin forgotten => Within(performed[x], Left(buckets, x, TRUE), base, last, R)
  BY DEF BudgetInv
<1> HIDE DEF now, base, at, R, last
<1>9. Overlaps(R, TenantDue, at[x], clock)
  <2>1. CASE at[x] = last
    BY <1>3, <2>1
  <2>2. CASE at[x] = now /\ last < now
    <3> DEFINE D == TenantDue
    <3>1. Overlaps(R, D, last, clock) /\ last =< D[t]
      BY <1>1, <1>2, <1>3, <2>2
    <3>2. D[t] = at[x]
      BY <1>1, <2>2
    <3> HIDE DEF D
    <3>3. Overlaps(R, D, D[t], clock)
      BY <3>1, OverlapsReach
    <3> QED
      BY <3>2, <3>3 DEF D
  <2> QED
    BY <1>6, <2>1, <2>2
<1>10. x \in DOMAIN bs => bs[x].tokens \in Nat /\ bs[x].last = at[x]
  BY <1>2, <1>5, <1>6, <1>7 DEF last
<1>11. ASSUME x \notin forgotten, x \notin DOMAIN NotFull(buckets, now) \ DOMAIN bs
       PROVE  Within(performed[x], Left(bs, x, TRUE), base, at[x], R)
  <2>1. CASE x \in DOMAIN bs
    <3>1. Left(bs, x, TRUE) = Left(buckets, x, TRUE) /\ at[x] = last
      BY <1>5, <1>6, <2>1 DEF Left
    <3> QED
      BY <1>8, <1>11, <3>1
  <2>2. CASE x \notin DOMAIN buckets
    <3>1. Left(bs, x, TRUE) = Left(buckets, x, TRUE) /\ at[x] = last
      BY <1>5, <1>6, <2>2 DEF Left
    <3> QED
      BY <1>8, <1>11, <3>1
  <2>3. CASE x \in DOMAIN buckets /\ x \notin DOMAIN bs
    <3>1. x \notin DOMAIN NotFull(buckets, now)
      BY <1>11, <2>3
    <3>2. buckets[x].last = last /\ buckets[x].tokens \in Nat /\ buckets[x].last \in Nat
      BY <1>2, <1>7, <2>3 DEF last
    <3>3. Within(performed[x], buckets[x].tokens, base, buckets[x].last, R)
      BY <1>8, <1>11, <2>3, <3>2 DEF Left
    <3>4. Within(performed[x], Capacity, base,
                 IF buckets[x].last < now THEN now ELSE buckets[x].last, R)
      BY <1>1, <1>2, <1>4, <2>3, <3>1, <3>2, <3>3, WithinEvicted
    <3>5. Left(bs, x, TRUE) = Capacity
      BY <2>3 DEF Left
    <3> QED
      BY <1>6, <2>3, <3>2, <3>4, <3>5
  <2> QED
    BY <2>1, <2>2, <2>3
<1>12. at[x] \in Nat
  BY <1>1, <1>2, <1>6
<1> QED
  BY <1>9, <1>10, <1>11, <1>12 DEF now, base, at, R

\* The step through the tenants' lock, with the work that follows it.
LEMMA BudgetAskTenant ==
    ASSUME ProcessInv, ProcessInv', NEW t \in Threads, BudgetInv, AskTenant(t)
    PROVE  BudgetInv'
<1> DEFINE k    == work[t].key
           now  == work[t].now
           base == boots * Capacity
<1>1. TypeOK /\ work[t] # Idle
  BY DEF AskTenant, TakeTenant, Idle, ProcessInv
<1>2. running # Down
  BY <1>1 DEF ProcessInv, Consistent
<1>3. k \in Keys /\ now \in 0 .. clock
  BY <1>1, WorkShape
<1>4. clock \in Nat /\ now \in Nat /\ base \in Nat /\ \A x \in Keys : performed[x] \in Nat
  BY <1>3, BudgetTyped
<1>5. TenantDue[t] = now
  <2>1. work[t] \in {Idle} \cup [pc : {"global", "tenant"}, key : Keys, now : 0 .. clock] /\ clock \in Nat
    BY <1>1 DEF TypeOK
  <2>2. TenantDue[t] = Due(work[t], clock, {"global", "tenant"})
    BY DEF TenantDue
  <2> QED
    BY <1>1, <2>1, <2>2, DueIs
<1>6. PICK bs \in Evict(buckets, now) :
        LET b  == Entry(bs, k, Capacity, now)
            at == Reached(DOMAIN buckets \ DOMAIN bs, now)
        IN
        /\ buckets' = Put(bs, k, take(b, now, Capacity, Refill))
        /\ allowed' = IF Took(b, now, Capacity, Refill)
                      THEN [allowed EXCEPT ![k] = @ + 1] ELSE allowed
        /\ forgotten' = forgotten \cup (DOMAIN NotFull(buckets, now) \ DOMAIN bs)
        /\ settled' = [at EXCEPT ![k] = now]
        /\ regained' = [regained EXCEPT ![k] = @ \cup Over(t, now, at[k])]
  BY DEF AskTenant, TakeTenant
<1> DEFINE b  == Entry(bs, k, Capacity, now)
           a  == take(b, now, Capacity, Refill)
           ok == Took(b, now, Capacity, Refill)
           at == Reached(DOMAIN buckets \ DOMAIN bs, now)
           R  == regained[k]
           Q  == R \cup Over(t, now, at[k])
<1>7. buckets' = Put(bs, k, a) /\ a.last = now
  BY <1>6 DEF take
<1>8. performed' = IF ok THEN [performed EXCEPT ![k] = @ + 1] ELSE performed
  <2>1. \/ allowed' = allowed /\ performed' = performed
        \/ allowed' # allowed /\ performed' = [performed EXCEPT ![k] = @ + 1]
    BY <1>1, AskedTenant
  <2>2. allowed' = IF ok THEN [allowed EXCEPT ![k] = @ + 1] ELSE allowed
    BY <1>6
  <2> HIDE DEF ok, k
  <2>3. ok => allowed' # allowed
    <3>1. allowed \in [Keys -> Nat]
      BY <1>1 DEF TypeOK
    <3>2. ASSUME ok PROVE allowed'[k] = allowed[k] + 1 /\ allowed[k] \in Nat
      BY <1>3, <2>2, <3>1, <3>2
    <3>3. \A i \in Nat : i + 1 # i
      OBVIOUS
    <3> QED
      BY <3>2, <3>3
  <2> QED
    BY <2>1, <2>2, <2>3
<1>9. work' = [work EXCEPT ![t] = Idle] /\ clock' = clock /\ UNCHANGED <<running, boots>>
  BY DEF AskTenant, TakeTenant, process
<1>10. ASSUME NEW x \in Keys
       PROVE  /\ at[x] \in Nat
              /\ Overlaps(regained[x], TenantDue, at[x], clock)
              /\ Cardinality(regained[x]) \in Nat
              /\ x \in DOMAIN bs => bs[x].tokens \in Nat /\ bs[x].last = at[x]
              /\ x \notin forgotten'
                    => Within(performed[x], Left(bs, x, TRUE), base, at[x], regained[x])
  <2>1. /\ at[x] \in Nat
        /\ Overlaps(regained[x], TenantDue, at[x], clock)
        /\ x \in DOMAIN bs => bs[x].tokens \in Nat /\ bs[x].last = at[x]
        /\ x \notin forgotten \cup (DOMAIN NotFull(buckets, now) \ DOMAIN bs)
              => Within(performed[x], Left(bs, x, TRUE), base, at[x], regained[x])
    BY <1>1, <1>2, <1>6, BudgetEvict
  <2>2. forgotten' = forgotten \cup (DOMAIN NotFull(buckets, now) \ DOMAIN bs)
    BY <1>6
  <2> HIDE DEF at, now, base
  <2>3. Cardinality(regained[x]) \in Nat
    BY <2>1, OverlapsFinite
  <2> QED
    BY <2>1, <2>2, <2>3
<1>11. /\ settled' = [at EXCEPT ![k] = now] /\ regained' = [regained EXCEPT ![k] = Q]
       /\ DOMAIN at = Keys /\ DOMAIN regained = Keys
  BY <1>1, <1>3, <1>6 DEF Reached, TypeOK
<1>12. DOMAIN bs \subseteq DOMAIN buckets /\ DOMAIN buckets \subseteq Keys
  BY <1>1, EvictRemoves DEF TypeOK
<1>13. /\ settled'[k] = now /\ regained'[k] = Q
       /\ \A x \in Keys \ {k} : settled'[x] = at[x] /\ regained'[x] = regained[x]
  <2> HIDE DEF at, Q, k, now
  <2> QED
    BY <1>3, <1>11
<1> HIDE DEF k, now, base, b, a, ok, at, R
<1>14. /\ TenantDue' \in [Threads -> 0 .. clock] /\ TenantDue'[t] = clock
       /\ \A u \in Threads : TenantDue[u] =< TenantDue'[u]
  <2>1. work'[t] = Idle /\ \A u \in Threads : work'[u] = work[u] \/ work'[u] = Idle
    BY <1>1, <1>9 DEF TypeOK
  <2>2. clock =< clock'
    BY <1>4, <1>9
  <2>3. /\ TenantDue' \in [Threads -> 0 .. clock']
        /\ \A u \in Threads : TenantDue[u] =< TenantDue'[u]
    BY <2>1, <2>2, DueLater
  <2>4. TenantDue'[t] = clock'
    BY <2>1 DEF TenantDue, Due, Idle
  <2> QED
    BY <1>9, <2>3, <2>4
<1>15. Overlaps(Q, TenantDue', now, clock) /\ Cardinality(Q) = Cardinality(R) + Elapsed(at[k], now)
  <2> DEFINE D == TenantDue
             E == TenantDue'
             l == at[k]
  <2>1. Overlaps(R, D, l, clock) /\ now = D[t]
    BY <1>3, <1>5, <1>10 DEF R
  <2>2. E \in [Threads -> 0 .. clock] /\ E[t] = clock /\ \A u \in Threads : D[u] =< E[u]
    BY <1>14
  <2> HIDE DEF D, E, l
  <2>3. ASSUME NEW d2 \in [Threads -> 0 .. clock], d2[t] = clock, \A u \in Threads : D[u] =< d2[u]
        PROVE  /\ Overlaps(R \cup Over(t, now, l), d2, now, clock)
               /\ Cardinality(R \cup Over(t, now, l)) = Cardinality(R) + Elapsed(l, now)
    BY <2>1, <2>3, OverlapsMove
  <2>4. /\ Overlaps(R \cup Over(t, now, l), E, now, clock)
        /\ Cardinality(R \cup Over(t, now, l)) = Cardinality(R) + Elapsed(l, now)
    BY <2>2, <2>3
  <2> QED
    BY <2>4 DEF D, E, l
<1> HIDE DEF Q
<1>16. ASSUME NEW x \in Keys PROVE Overlaps(regained'[x], TenantDue', settled'[x], clock)
  <2>1. CASE x = k
    BY <1>13, <1>15, <2>1
  <2>2. CASE x # k
    <3> DEFINE D == TenantDue
               E == TenantDue'
    <3>1. Overlaps(regained[x], D, at[x], clock)
      BY <1>10
    <3>2. E \in [Threads -> 0 .. clock] /\ \A u \in Threads : D[u] =< E[u]
      BY <1>14
    <3>3. clock =< clock
      BY <1>4
    <3> HIDE DEF D, E
    <3>4. Overlaps(regained[x], E, at[x], clock)
      BY <1>4, <3>1, <3>2, <3>3, OverlapsLater
    <3>5. regained'[x] = regained[x] /\ settled'[x] = at[x]
      BY <1>13, <2>2
    <3> QED
      BY <3>4, <3>5 DEF E
  <2> QED
    BY <2>1, <2>2
<1>17. k \notin forgotten' =>
          IF ok THEN Within(performed[k] + 1, a.tokens, base, now, Q)
                ELSE Within(performed[k], a.tokens, base, now, Q)
  <2> SUFFICES ASSUME k \notin forgotten'
               PROVE  IF ok THEN Within(performed[k] + 1, a.tokens, base, now, Q)
                            ELSE Within(performed[k], a.tokens, base, now, Q)
    OBVIOUS
  <2> DEFINE n == performed[k]
             l == at[k]
  <2>1. /\ n \in Nat /\ l \in Nat /\ Cardinality(R) \in Nat
        /\ Within(n, Left(bs, k, TRUE), base, l, R)
        /\ k \in DOMAIN bs => bs[k].tokens \in Nat /\ bs[k].last = l
    BY <1>3, <1>4, <1>10 DEF R
  <2>2. Cardinality(Q) = Cardinality(R) + Elapsed(l, now)
    BY <1>15
  <2> HIDE DEF n, l
  <2> DEFINE z == now + (Cardinality(R) + Elapsed(l, now))
  <2>3. IF ok THEN n + 1 + a.tokens =< base + Refill * z
              ELSE n + a.tokens =< base + Refill * z
    BY <1>4, <2>1, BudgetTaken DEF ok, a, b
  <2>4. z = now + Cardinality(Q)
    BY <2>2
  <2> HIDE DEF z
  <2> QED
    BY <2>3, <2>4 DEF Within, n
<1>18. /\ DOMAIN buckets' = DOMAIN bs \cup {k} /\ buckets'[k] = a
       /\ \A x \in DOMAIN bs \ {k} : buckets'[x] = bs[x]
  BY <1>7 DEF Put
<1>19. performed \in [Keys -> Nat]
  BY DEF ProcessInv
<1>20. ASSUME NEW x \in Keys \ forgotten'
       PROVE  Within(performed'[x], Left(buckets', x, TRUE), base, settled'[x], regained'[x])
  <2>1. CASE x = k
    <3>1. performed'[k] = IF ok THEN performed[k] + 1 ELSE performed[k]
      BY <1>3, <1>8, <1>19
    <3>2. Left(buckets', k, TRUE) = a.tokens
      BY <1>18 DEF Left
    <3> QED
      BY <1>13, <1>17, <1>20, <2>1, <3>1, <3>2
  <2>2. CASE x # k
    <3>1. performed'[x] = performed[x]
      BY <1>8, <1>19, <2>2
    <3>2. Left(buckets', x, TRUE) = Left(bs, x, TRUE)
      BY <1>18, <2>2 DEF Left
    <3> QED
      BY <1>10, <1>13, <2>2, <3>1, <3>2
  <2> QED
    BY <2>1, <2>2
<1>21. ASSUME NEW x \in DOMAIN buckets' PROVE buckets'[x].last = settled'[x]
  <2>1. CASE x = k
    BY <1>7, <1>13, <1>18, <2>1
  <2>2. CASE x # k
    <3>1. x \in DOMAIN bs /\ x \in Keys /\ buckets'[x] = bs[x]
      BY <1>12, <1>18, <1>21, <2>2
    <3> QED
      BY <1>10, <1>13, <2>2, <3>1
  <2> QED
    BY <2>1, <2>2
<1> QED
  BY <1>2, <1>9, <1>16, <1>20, <1>21 DEF BudgetInv, base

\* A start adds a full bucket to every account.
LEMMA BudgetStart ==
    ASSUME ProcessInv, ProcessInv', BudgetInv, NEW env \in Environments, Start(env)
    PROVE  BudgetInv'
<1> DEFINE base == boots * Capacity
<1>1. /\ running = Down /\ boots' = boots + 1
      /\ UNCHANGED <<clock, buckets, work, forgotten, settled, regained, performed>>
  BY DEF Start, vars, history, accounts
<1>2. running' # Down
  BY ProcessStart
<1>3. DOMAIN buckets = {}
  BY <1>1 DEF BudgetInv
<1>4. clock \in Nat /\ boots \in Nat /\ base \in Nat /\ \A k \in Keys : performed[k] \in Nat
  BY BudgetTyped
<1>5. boots' * Capacity = base + Capacity
  BY <1>1, <1>4, BudgetNumbers
<1>6. \A k \in Keys : Overlaps(regained'[k], TenantDue', settled'[k], clock')
  <2>1. clock =< clock'
    BY <1>1, <1>4
  <2> QED
    BY <1>1, <2>1, AccountsKept
<1> HIDE DEF base
<1>7. ASSUME NEW k \in Keys \ forgotten
      PROVE  Within(performed[k], Left(buckets, k, TRUE), base + Capacity, settled[k], regained[k])
  <2> DEFINE y == settled[k] + Cardinality(regained[k])
             p == Refill * y
             n == performed[k]
  <2>1. n + 0 =< base + p
    BY <1>1, <1>3 DEF BudgetInv, Within, Left, base
  <2>2. Cardinality(regained[k]) \in Nat /\ settled[k] \in Nat
    <3>1. Overlaps(regained[k], TenantDue, settled[k], clock)
      BY DEF BudgetInv
    <3>2. Cardinality(regained[k]) \in Nat
      BY <3>1, OverlapsFinite
    <3> QED
      BY <3>2, BudgetTyped
  <2>3. y \in Nat
    BY <2>2
  <2> HIDE DEF y
  <2>4. p \in Nat /\ Capacity \in Nat /\ n \in Nat
    BY <1>4, <2>3, BudgetNumbers
  <2> HIDE DEF p, n
  <2>5. n + Capacity =< (base + Capacity) + p
    BY <1>4, <2>1, <2>4
  <2> QED
    BY <1>3, <2>5 DEF Within, Left, y, p, n
<1> QED
  BY <1>1, <1>2, <1>3, <1>5, <1>6, <1>7 DEF BudgetInv

\* A stop gives up what is left.
LEMMA BudgetStop ==
    ASSUME ProcessInv, ProcessInv', BudgetInv, Stop
    PROVE  BudgetInv'
<1>1. /\ running' = Down /\ DOMAIN buckets' = {} /\ work' = [t \in Threads |-> Idle]
      /\ UNCHANGED <<clock, forgotten, settled, regained, boots, performed>>
  BY DEF Stop, accounts
<1>2. /\ clock \in Nat /\ boots * Capacity \in Nat
      /\ \A k \in Keys : performed[k] \in Nat /\ Left(buckets, k, running # Down) \in Nat
  BY BudgetTyped
<1>3. \A k \in Keys : Overlaps(regained'[k], TenantDue', settled'[k], clock')
  <2>1. clock =< clock' /\ \A u \in Threads : work'[u] = Idle
    BY <1>1, <1>2
  <2> QED
    BY <1>1, <2>1, AccountsKept
<1>4. ASSUME NEW k \in Keys \ forgotten
      PROVE  Within(performed[k], 0, boots * Capacity, settled[k], regained[k])
  <2> DEFINE y == settled[k] + Cardinality(regained[k])
             p == boots * Capacity + Refill * y
             n == performed[k]
             l == Left(buckets, k, running # Down)
  <2>1. n + l =< p
    BY DEF BudgetInv, Within
  <2>2. Cardinality(regained[k]) \in Nat /\ settled[k] \in Nat
    <3>1. Overlaps(regained[k], TenantDue, settled[k], clock)
      BY DEF BudgetInv
    <3>2. Cardinality(regained[k]) \in Nat
      BY <3>1, OverlapsFinite
    <3> QED
      BY <3>2, BudgetTyped
  <2>3. y \in Nat
    BY <2>2
  <2> HIDE DEF y
  <2>4. p \in Nat /\ n \in Nat /\ l \in Nat
    BY <1>2, <2>3, BudgetNumbers
  <2> HIDE DEF p, n, l
  <2>5. n + 0 =< p
    BY <2>1, <2>4
  <2> QED
    BY <2>5 DEF Within, y, p, n
<1>5. \A k : Left(buckets', k, running' # Down) = 0
  BY <1>1 DEF Left
<1> QED
  BY <1>1, <1>3, <1>4, <1>5 DEF BudgetInv

\* Every step keeps the accounts.
LEMMA BudgetStep ==
    ASSUME ProcessInv, ProcessInv', BudgetInv, [GuardNext]_guardVars
    PROVE  BudgetInv'
<1>1. clock \in Nat /\ DOMAIN work = Threads /\ TypeOK
  BY DEF ProcessInv, TypeOK
<1>2. ASSUME NEW t \in Threads, (\E path \in Paths : Arrive(t, path)) \/ Probe(t) PROVE BudgetInv'
  <2>1. ASSUME NEW op, NEW tenant, NEW msg, Accepted(t, op, tenant, msg) PROVE BudgetInv'
    <3>1. /\ work' = [work EXCEPT ![t] = [pc |-> "global", key |-> <<tenant, op>>, now |-> clock]]
          /\ UNCHANGED <<clock, buckets, performed, forgotten, settled, regained, boots, running>>
      BY <2>1 DEF Accepted, Call, process, history, accounts
    <3>2. \A u \in Threads : work'[u] = work[u] \/ work'[u].now = clock
      BY <1>1, <3>1
    <3>3. clock =< clock'
      BY <1>1, <3>1
    <3> QED
      BY <3>1, <3>2, <3>3, BudgetIdle
  <2>2. ASSUME NEW op, NEW probe, NEW status, Rejected(t, op, probe, status) PROVE BudgetInv'
    <3>1. UNCHANGED <<clock, work, buckets, performed, forgotten, settled, regained, boots, running>>
      BY <2>2 DEF Rejected, vars, history, accounts, process
    <3>2. clock =< clock'
      BY <1>1, <3>1
    <3> QED
      BY <3>1, <3>2, BudgetIdle
  <2> QED
    BY <1>2, <2>1, <2>2, Received
<1>3. ASSUME NEW t \in Threads, AskGlobal(t) PROVE BudgetInv'
  <2>1. work[t] # Idle
    BY <1>3 DEF AskGlobal, TakeGlobal, Idle
  <2>2. UNCHANGED <<clock, buckets, performed, forgotten, settled, regained, boots, running>>
    BY <1>3 DEF AskGlobal, TakeGlobal, process, accounts
  <2>3. \/ work' = [work EXCEPT ![t] = Idle]
        \/ work' = [work EXCEPT ![t].pc = "tenant"] /\ work'[t].now = work[t].now
    BY <1>1, <1>3, AskedGlobal DEF Ended
  <2>4. \A u \in Threads : \/ work'[u] = work[u] \/ work'[u] = Idle
                           \/ work[u] # Idle /\ work'[u].now = work[u].now
    BY <1>1, <2>1, <2>3
  <2>5. clock =< clock'
    BY <1>1, <2>2
  <2> QED
    BY <2>2, <2>4, <2>5, BudgetIdle
<1>4. CASE GuardTick
  <2>1. /\ clock' = clock + 1
        /\ UNCHANGED <<work, buckets, performed, forgotten, settled, regained, boots, running>>
    BY <1>4 DEF GuardTick, Tick, history, accounts, service, process
  <2>2. clock =< clock'
    BY <1>1, <2>1
  <2> QED
    BY <2>1, <2>2, BudgetIdle
<1>5. CASE \/ UNCHANGED guardVars \/ ProbeInVain
           \/ \E t : Reply(t) \/ Lose(t)
           \/ \E env : StartRefused(env)
           \/ \E t, path : ArriveElsewhere(t, path)
  <2>1. UNCHANGED <<clock, work, buckets, performed, forgotten, settled, regained, boots, running>>
    BY <1>5 DEF ProbeInVain, Reply, Lose, StartRefused, ArriveElsewhere, guardVars, service,
                process, vars, history, accounts
  <2>2. clock =< clock'
    BY <1>1, <2>1
  <2> QED
    BY <2>1, <2>2, BudgetIdle
<1> QED
  BY <1>2, <1>3, <1>4, <1>5, BudgetStart, BudgetStop, BudgetAskTenant DEF GuardNext

\* "no code path exists where the work happens without both checks in front of
\* it" (service.rs:4), "First pass is lossless" (limits.rs:106): over all lives
\* of the process and however calls of any number of threads overlap, the work
\* done for a tenant that the LRU pass did not forget stays within a full bucket
\* per start and the refill of the time gone by, once per thread, for any
\* capacities and traffic.
THEOREM WorkStaysWithinBudget == GuardSpec => []WorkWithinBudget
<1>1. GuardInit => BudgetInv
  <2> SUFFICES ASSUME GuardInit PROVE BudgetInv
    OBVIOUS
  <2>1. /\ running = Down /\ DOMAIN buckets = {} /\ clock = 0 /\ boots = 0
        /\ \A t \in Threads : work[t] = Idle
        /\ \A k \in Keys : performed[k] = 0 /\ settled[k] = 0 /\ regained[k] = {}
    BY DEF GuardInit, Init
  <2>2. TenantDue \in [Threads -> 0 .. clock]
    BY <2>1 DEF TenantDue, Due, Idle
  <2>3. Overlaps({}, TenantDue, 0, clock)
    BY <2>1, <2>2 DEF Overlaps
  <2>4. ASSUME NEW k \in Keys
        PROVE  Within(performed[k], Left(buckets, k, running # Down), boots * Capacity,
                      settled[k], regained[k])
    <3>1. Left(buckets, k, running # Down) = 0
      BY <2>1 DEF Left
    <3>2. Cardinality({}) = 0
      BY FS_EmptySet
    <3>3. boots * Capacity = 0 /\ Refill * (0 + 0) = 0
      BY <2>1, BudgetNumbers
    <3>4. Within(0, 0, 0, 0, {})
      BY <3>2, <3>3 DEF Within
    <3> QED
      BY <2>1, <3>1, <3>3, <3>4
  <2> QED
    BY <2>1, <2>3, <2>4 DEF BudgetInv
<1>2. ProcessInv /\ ProcessInv' /\ BudgetInv /\ [GuardNext]_guardVars => BudgetInv'
  BY BudgetStep
<1>3. ProcessInv /\ BudgetInv => WorkWithinBudget
  <2> SUFFICES ASSUME ProcessInv, BudgetInv, NEW k \in Keys \ forgotten
               PROVE  performed[k] =< boots * Capacity + Refill * (Cardinality(Threads) * clock)
    BY DEF WorkWithinBudget
  <2> DEFINE n == performed[k]
             l == Left(buckets, k, running # Down)
             base == boots * Capacity
             y == settled[k] + Cardinality(regained[k])
             z == Cardinality(Threads) * clock
  <2>1. n \in Nat /\ l \in Nat /\ base \in Nat /\ settled[k] \in Nat /\ clock \in Nat
    BY BudgetTyped
  <2>2. Overlaps(regained[k], TenantDue, settled[k], clock)
    BY DEF BudgetInv
  <2>3. Cardinality(regained[k]) \in Nat /\ Cardinality(Threads) \in Nat
    BY <2>2, OverlapsFinite
  <2>4. y =< z
    BY <2>2, OverlapsCount
  <2>5. y \in Nat /\ z \in Nat
    BY <2>1, <2>3
  <2>6. n + l =< base + Refill * y
    BY DEF BudgetInv, Within
  <2> HIDE DEF n, l, base, y, z
  <2>7. Refill * y =< Refill * z /\ Refill * y \in Nat /\ Refill * z \in Nat
    BY <2>4, <2>5, BudgetNumbers
  <2>8. n =< base + Refill * z
    BY <2>1, <2>6, <2>7
  <2> QED
    BY <2>8 DEF n, base, z
<1> QED
  BY <1>1, <1>2, <1>3, ProcessInvariant, PTL DEF GuardSpec
=============================================================================
