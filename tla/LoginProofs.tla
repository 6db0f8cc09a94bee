----------------------------- MODULE LoginProofs ----------------------------
(***************************************************************************)
(* Proofs about Login, for any number of handlers, requests, challenges,   *)
(* credentials and restarts.                                               *)
(*                                                                         *)
(* Four inductive invariants, each used with the first: the types; where   *)
(* an authorization request is (in the store, in one handler's hands, in   *)
(* one code); which request a challenge was drawn for, and that no two     *)
(* attempts have taken it; and the signature that each attempt, and then   *)
(* each code, rests on.  A code proves a login by the last three together. *)
(***************************************************************************)
EXTENDS Login, TLAPS

\* VERDICT_VERIFIED means that every check of webauthn.rs passed.
LEMMA VerifiedMeans ==
    ASSUME NEW exp, NEW key, NEW auth, NEW client, NEW sig,
           verify(exp, key, auth, client, sig).ok
    PROVE  /\ client.json /\ client.type = "webauthn.get"
           /\ client.challenge = exp.challenge /\ client.origin = exp.origin
           /\ auth.rp_id = exp.rp_id /\ auth.up
           /\ key # UnsupportedKey
           /\ sig = [key |-> key, over |-> Signed(auth, client)]
           /\ verify(exp, key, auth, client, sig).value = auth.sign_count
<1> DEFINE checks == Checks(exp, key, auth, client, sig)
           failed == {i \in DOMAIN checks : ~checks[i].ok}
<1>1. verify(exp, key, auth, client, sig) =
          IF failed = {} THEN Ok(auth.sign_count) ELSE Err(checks[Min(failed)].code)
  BY DEF verify
<1>2. failed = {}
  <2> HIDE DEF failed, checks
  <2> QED
    BY <1>1 DEF Err
<1>3. \A i \in 1 .. 11 : checks[i].ok
  <2>1. DOMAIN checks = 1 .. 11
    BY DEF Checks
  <2> HIDE DEF checks
  <2> QED
    BY <1>2, <2>1
<1>4. checks[1].ok /\ checks[2].ok /\ checks[4].ok /\ checks[5].ok /\ checks[7].ok /\ checks[8].ok
      /\ checks[10].ok /\ checks[11].ok
  <2> HIDE DEF checks
  <2> QED
  BY <1>3
<1>5. /\ client.json /\ client.type = "webauthn.get"
           /\ client.challenge = exp.challenge /\ client.origin = exp.origin
           /\ auth.rp_id = exp.rp_id /\ auth.up
           /\ key # UnsupportedKey
           /\ SignatureHolds(key, auth, client, sig)
  BY <1>4 DEF Checks
<1> QED
  BY <1>1, <1>2, <1>5 DEF Ok, SignatureHolds

-----------------------------------------------------------------------------
(* Types                                                                   *)

Taken    == [pc : {"taken"}, rid : Rids, cred : Creds, asr : Assertions, value : Nat]
Asked    == [pc : {"asked"}, rid : Rids, cred : Creds, asr : Assertions, value : Nat,
             stored : Records]
Accepted == [pc : {"verified", "counted"}, rid : Rids, cred : Creds, value : Nat, count : Nat]
Granted  == [pc : {"granted"}, rid : Rids, cred : Creds, value : Nat, req : Requests,
             count : Nat, at : Nat]
Codes    == [rid : Rids, cred : Creds, value : Nat, client : Clients, redirect : Uris,
             count : Nat, at : Nat]

\* A Finish request at each of its steps.
LEMMA AttemptShape ==
    /\ \A f \in Attempts :
          /\ f.pc \in {"idle", "taken", "asked", "verified", "counted", "granted"}
          /\ f.pc = "idle" => f = Idle
          /\ f.pc = "taken" => f \in Taken
          /\ f.pc = "asked" => f \in Asked
          /\ f.pc \in {"verified", "counted"} => f \in Accepted
          /\ f.pc = "granted" => f \in Granted
    /\ {Idle} \cup Taken \cup Asked \cup Accepted \cup Granted \subseteq Attempts
    /\ Idle.pc = "idle"
BY DEF Attempts, Idle, Taken, Asked, Accepted, Granted

\* One handler goes on.
LEMMA NextAttempt ==
    ASSUME TypeOK, NEW h \in Handlers, NEW x, work' = [work EXCEPT ![h] = x]
    PROVE  /\ work'[h] = x
           /\ \A o \in Handlers \ {h} : work'[o] = work[o]
           /\ x \in Attempts => work' \in [Handlers -> Attempts]
BY DEF TypeOK

\* What may be sent as an assertion has the form of one.
LEMMA SendableTyped ==
    ASSUME TypeOK, NEW s \in Sendable
    PROVE  s \in Assertions /\ \E o \in signed : o.sig = s.sig
<1>1. CASE s \in signed
  BY <1>1 DEF TypeOK
<1>2. CASE s \notin signed
  <2>1. s \in [client : {NotJson} \cup {ClientData(v, LoginHere) : v \in 0 .. Len(drawn)},
               auth : {Truncated} \cup {o.auth : o \in signed},
               sig : {o.sig : o \in signed}]
    BY <1>2 DEF Sendable
  <2>2. s.client \in ClientDatas
    <3>1. NotJson \in ClientDatas
      BY DEF NotJson, NoChallenge, ClientDatas, Words
    <3>2. \A v \in 0 .. Len(drawn) : ClientData(v, LoginHere) \in ClientDatas
      BY DEF ClientData, LoginHere, ClientDatas, Words
    <3> QED
      BY <2>1, <3>1, <3>2
  <2>3. s.auth \in AuthDatas
    <3>1. Truncated \in AuthDatas
      BY DEF Truncated, AuthDatas, Words
    <3> QED
      BY <2>1, <3>1 DEF TypeOK, Assertions
  <2>4. PICK o \in signed : o.sig = s.sig
    BY <2>1
  <2>5. s.sig \in Signatures
    BY <2>4 DEF TypeOK, Assertions
  <2> QED
    BY <2>1, <2>2, <2>3, <2>4, <2>5 DEF Assertions
<1> QED
  BY <1>1, <1>2

\* A step of one handler that leaves the stores and histories their types.
LEMMA HandlerTyped ==
    ASSUME TypeOK, NEW h \in Handlers, NEW x \in Attempts, work' = [work EXCEPT ![h] = x],
           UNCHANGED <<clock, pending, challenges, creds, requested, drawn, taken, issued,
                       redirects, restarts, signed, counter>>
    PROVE  TypeOK'
BY NextAttempt DEF TypeOK

\* AuthorizeAccept keeps the types.
LEMMA AuthorizeTyped ==
    ASSUME TypeOK, NEW rid \in Rids, NEW p \in Params, AuthorizeAccept(rid, p)
    PROVE  TypeOK'
<1> DEFINE req == [client |-> p.client, redirect |-> p.redirect]
<1>1. /\ pending' = Put(Unexpired(pending), rid, [req |-> req, expiresAt |-> Deadline(PendingTTL)])
      /\ requested' = Put(requested, rid, [req |-> req, at |-> clock])
      /\ UNCHANGED <<clock, challenges, creds, work, drawn, taken, issued, redirects, restarts,
                     signed, counter>>
  BY DEF AuthorizeAccept, env
<1>2. req \in Requests
  BY LoginConstants DEF Requests
<1>3. Deadline(PendingTTL) \in Nat /\ clock \in Nat
  BY LoginConstants DEF Deadline, TypeOK
<1> HIDE DEF req
<1>4. /\ DOMAIN pending' \subseteq DOMAIN requested'
      /\ \A k \in DOMAIN pending' : pending'[k] \in [req : Requests, expiresAt : Nat]
  BY <1>1, <1>2, <1>3 DEF TypeOK, Put, Unexpired, Restrict
<1>5. /\ DOMAIN requested' \subseteq Rids
      /\ \A k \in DOMAIN requested' : requested'[k] \in [req : Requests, at : Nat]
  BY <1>1, <1>2, <1>3 DEF TypeOK, Put
<1> QED
  BY <1>1, <1>4, <1>5 DEF TypeOK

\* Begin keeps the types.
LEMMA BeginTyped ==
    ASSUME TypeOK, NEW rid \in Rids, Begin(rid)
    PROVE  TypeOK'
<1> DEFINE e == [value |-> Len(drawn) + 1, expiresAt |-> Deadline(ChallengeTTL)]
<1>1. /\ drawn' = Append(drawn, rid)
      /\ challenges' = Put(Unexpired(challenges), rid, e)
      /\ UNCHANGED <<clock, pending, creds, work, requested, taken, issued, redirects, restarts,
                     signed, counter>>
  BY DEF Begin, env
<1>2. e \in [value : Nat, expiresAt : Nat]
  BY LoginConstants DEF Deadline, TypeOK
<1> HIDE DEF e
<1>3. /\ DOMAIN challenges' \subseteq Rids
      /\ \A k \in DOMAIN challenges' : challenges'[k] \in [value : Nat, expiresAt : Nat]
  BY <1>1, <1>2 DEF TypeOK, Put, Unexpired, Restrict
<1>4. drawn' \in Seq(Rids)
  BY <1>1 DEF TypeOK
<1> QED
  BY <1>1, <1>3, <1>4 DEF TypeOK

\* StartFinish keeps the types.
LEMMA StartTyped ==
    ASSUME TypeOK, NEW h \in Handlers, NEW rid \in Rids, NEW c \in Creds, NEW a \in Assertions,
           StartFinish(h, rid, c, a)
    PROVE  TypeOK'
<1> DEFINE x == [pc |-> "taken", rid |-> rid, cred |-> c, asr |-> a,
                 value |-> challenges[rid].value]
<1>1. /\ rid \in DOMAIN challenges
      /\ challenges' = Without(challenges, rid)
      /\ UNCHANGED <<clock, pending, creds, requested, drawn, issued, redirects, restarts,
                     signed, counter>>
      /\ \/ UNCHANGED <<work, taken>>
         \/ work' = [work EXCEPT ![h] = x] /\ taken' = Append(taken, challenges[rid].value)
  BY DEF StartFinish, TakeChallenge, Goto, env
<1>2. challenges[rid].value \in Nat
  BY <1>1 DEF TypeOK
<1>3. x \in Attempts
  BY <1>2, AttemptShape DEF Taken
<1> HIDE DEF x
<1>4. work' \in [Handlers -> Attempts]
  <2>1. CASE work' = work
    BY <2>1 DEF TypeOK
  <2>2. CASE work' = [work EXCEPT ![h] = x]
    BY <1>3, <2>2, NextAttempt
  <2> QED
    BY <1>1, <2>1, <2>2
<1>5. taken' \in Seq(Nat)
  <2>1. taken \in Seq(Nat) /\ taken' \in {taken, Append(taken, challenges[rid].value)}
    BY <1>1 DEF TypeOK
  <2> QED
    BY <1>2, <2>1
<1>6. /\ DOMAIN challenges' \subseteq DOMAIN challenges
      /\ \A k \in DOMAIN challenges' : challenges'[k] = challenges[k]
  BY <1>1 DEF Without, Restrict
<1> QED
  BY <1>1, <1>4, <1>5, <1>6 DEF TypeOK

\* The steps of Finish after the challenge is taken keep the types.
LEMMA FinishTyped ==
    ASSUME TypeOK, NEW h \in Handlers,
           GatewayStep(h) \/ GuardVerified(h) \/ GuardRejected(h)
    PROVE  TypeOK'
<1> DEFINE f == work[h]
<1>0. f \in Attempts
  BY DEF TypeOK
<1> USE DEF stores, history, env
<1>1. CASE Reply(h) /\ UNCHANGED <<clock, stores, history, env>>
  BY <1>1, AttemptShape, HandlerTyped DEF Reply
<1>2. CASE GetCredential(h)
  <2> DEFINE x == [pc |-> "asked", rid |-> f.rid, cred |-> f.cred, asr |-> f.asr,
                   value |-> f.value, stored |-> creds[f.cred]]
  <2>1. f \in Taken
    BY <1>0, <1>2, AttemptShape DEF GetCredential
  <2>2. CASE f.cred \in DOMAIN creds
    <3>1. x \in Attempts
      BY <2>1, <2>2, AttemptShape DEF TypeOK, Taken, Asked
    <3>2. work' = [work EXCEPT ![h] = x] /\ UNCHANGED <<clock, stores, history, env>>
      BY <1>2, <2>2 DEF GetCredential, Goto
    <3> HIDE DEF x
    <3> QED
      BY <3>1, <3>2, HandlerTyped
  <2>3. CASE f.cred \notin DOMAIN creds
    BY <1>1, <1>2, <2>3 DEF GetCredential
  <2> QED
    BY <2>2, <2>3
<1>3. CASE GuardVerified(h)
  <2> DEFINE x == [pc |-> "verified", rid |-> f.rid, cred |-> f.cred, value |-> f.value,
                   count |-> Verdict(f).value]
  <2>1. f \in Asked
    BY <1>0, <1>3, AttemptShape DEF GuardVerified
  <2>2. Verdict(f).value = f.asr.auth.sign_count
    BY <1>3, VerifiedMeans DEF GuardVerified, Verdict
  <2>3. f.asr.auth.sign_count \in Nat
    BY <2>1 DEF Asked, Assertions, AuthDatas
  <2>4. x \in Attempts
    BY <2>1, <2>2, <2>3, AttemptShape DEF Asked, Accepted
  <2>5. work' = [work EXCEPT ![h] = x] /\ UNCHANGED <<clock, stores, history, env>>
    BY <1>3 DEF GuardVerified, Goto
  <2> HIDE DEF x
  <2> QED
    BY <2>4, <2>5, HandlerTyped
<1>4. CASE UpdateSignCount(h)
  <2> DEFINE x == [f EXCEPT !.pc = "counted"]
  <2>1. f \in Accepted
    BY <1>0, <1>4, AttemptShape DEF UpdateSignCount
  <2>2. x \in Attempts
    BY <2>1, AttemptShape DEF Accepted
  <2>3. work' = [work EXCEPT ![h] = x] /\ UNCHANGED <<clock, pending, challenges, history, env>>
    BY <1>4 DEF UpdateSignCount, Goto
  <2>4. DOMAIN creds' = DOMAIN creds /\ \A c \in DOMAIN creds : creds'[c] \in Records
    BY <1>4, <2>1 DEF UpdateSignCount, TypeOK, Records, Accepted
  <2> HIDE DEF x
  <2>5. work' \in [Handlers -> Attempts]
    BY <2>2, <2>3, NextAttempt
  <2> QED
    BY <2>3, <2>4, <2>5 DEF TypeOK
<1>5. CASE ConsumePending(h)
  <2> DEFINE x == [pc |-> "granted", rid |-> f.rid, cred |-> f.cred, value |-> f.value,
                   req |-> pending[f.rid].req, count |-> f.count, at |-> clock]
  <2>1. f \in Accepted
    BY <1>0, <1>5, AttemptShape DEF ConsumePending
  <2>2. UNCHANGED <<clock, challenges, creds, history, env>>
    BY <1>5 DEF ConsumePending
  <2>3. /\ DOMAIN pending' \subseteq DOMAIN pending
        /\ \A k \in DOMAIN pending' : pending'[k] = pending[k]
    BY <1>5 DEF ConsumePending, TakePending, Without, Restrict
  <2>4. \/ work' = [work EXCEPT ![h] = Idle]
        \/ f.rid \in DOMAIN pending /\ work' = [work EXCEPT ![h] = x]
    BY <1>5 DEF ConsumePending, Reply, Goto
  <2>5. f.rid \in DOMAIN pending => x \in Attempts
    BY <2>1, AttemptShape DEF TypeOK, Accepted, Granted
  <2> HIDE DEF x
  <2>6. work' \in [Handlers -> Attempts]
    <3>1. CASE work' = [work EXCEPT ![h] = Idle]
      BY <3>1, AttemptShape, NextAttempt
    <3>2. CASE f.rid \in DOMAIN pending /\ work' = [work EXCEPT ![h] = x]
      BY <2>5, <3>2, NextAttempt
    <3> QED
      BY <2>4, <3>1, <3>2
  <2> QED
    BY <2>2, <2>3, <2>6 DEF TypeOK
<1>6. CASE IssueCode(h)
  <2> DEFINE e == [rid |-> f.rid, cred |-> f.cred, value |-> f.value, client |-> f.req.client,
                   redirect |-> f.req.redirect, count |-> f.count, at |-> f.at]
  <2>1. f \in Granted
    BY <1>0, <1>6, AttemptShape DEF IssueCode
  <2>2. e \in Codes /\ f.req \in Requests
    BY <2>1 DEF Granted, Codes, Requests
  <2>3. /\ issued' = Append(issued, e)
        /\ redirects' = redirects \cup {[client |-> f.req.client, uri |-> f.req.redirect]}
        /\ work' = [work EXCEPT ![h] = Idle]
        /\ UNCHANGED <<clock, stores, requested, drawn, taken, restarts, env>>
    BY <1>6 DEF IssueCode, SendBack, Reply
  <2> HIDE DEF e
  <2>4. issued' \in Seq(Codes)
    BY <2>2, <2>3 DEF TypeOK, Codes
  <2>5. redirects' \subseteq [client : Clients, uri : Uris]
    BY <2>2, <2>3 DEF TypeOK, Requests
  <2>6. work' \in [Handlers -> Attempts]
    BY <2>3, AttemptShape, NextAttempt
  <2> QED
    BY <2>3, <2>4, <2>5, <2>6 DEF TypeOK, Codes
<1> QED
  BY <1>1, <1>2, <1>3, <1>4, <1>5, <1>6
  DEF GatewayStep, GuardRejected, GuardFailed, IssueFailed

\* The environment's steps keep the types.
LEMMA EnvironmentTyped ==
    ASSUME TypeOK
    PROVE  /\ \A p \in Params : AuthorizeRefuse(p) => TypeOK'
           /\ \A c \in Creds : \A key \in PublicKeys[c] : Add(c, key) => TypeOK'
           /\ \A c \in Creds, v \in 1 .. Len(drawn), how \in Ceremonies :
                 Sign(c, v, how) => TypeOK'
           /\ Tick \/ Restart \/ UNCHANGED vars => TypeOK'
<1> USE DEF stores, history, env
<1>1. ASSUME NEW p \in Params, AuthorizeRefuse(p) PROVE TypeOK'
  <2>1. redirects' = redirects \cup {[client |-> p.client, uri |-> p.redirect]}
    BY <1>1 DEF AuthorizeRefuse, SendBack
  <2>2. p.client \in Clients /\ p.redirect \in Uris
    BY LoginConstants
  <2> QED
    BY <1>1, <2>1, <2>2 DEF AuthorizeRefuse, TypeOK
<1>2. ASSUME NEW c \in Creds, NEW key \in PublicKeys[c], Add(c, key) PROVE TypeOK'
  <2>1. creds' = Put(creds, c, [key |-> key, count |-> counter[c]])
    BY <1>2 DEF Add
  <2>2. [key |-> key, count |-> counter[c]] \in Records
    BY LoginConstants DEF TypeOK, Records
  <2>3. DOMAIN creds' \subseteq Creds /\ \A d \in DOMAIN creds' : creds'[d] \in Records
    BY <2>1, <2>2 DEF Put, TypeOK
  <2> QED
    BY <1>2, <2>3 DEF Add, TypeOK
<1>3. ASSUME NEW c \in Creds, NEW v \in 1 .. Len(drawn), NEW how \in Ceremonies, Sign(c, v, how)
      PROVE  TypeOK'
  <2> DEFINE n == IF c \in Counting THEN counter[c] + 1 ELSE 0
             client == ClientData(v, how)
             auth == AuthData(n, how)
             a == [client |-> client, auth |-> auth,
                   sig |-> [key |-> c, over |-> Signed(auth, client)]]
  <2>1. /\ counter' = [counter EXCEPT ![c] = n]
        /\ signed' = signed \cup {a}
        /\ UNCHANGED <<clock, stores, work, history>>
    BY <1>3 DEF Sign
  <2>2. n \in Nat
    BY DEF TypeOK
  <2>3. {how.type, how.origin, how.rp_id} \subseteq Words /\ how.up \in BOOLEAN
    <3>1. how.up \in BOOLEAN
      BY LoginConstants
    <3>2. \A x \in {how.type, how.origin, how.rp_id} : x \in Words
      BY Zenon DEF Words
    <3> QED
      BY <3>1, <3>2
  <2>4. v \in Nat
    BY DEF TypeOK
  <2>5. client \in ClientDatas
    BY <2>3, <2>4 DEF ClientData, ClientDatas
  <2>6. auth \in AuthDatas
    BY <2>2, <2>3 DEF AuthData, AuthDatas
  <2> HIDE DEF n, client, auth
  <2>7. a \in Assertions
    BY <2>5, <2>6 DEF Assertions, Signatures, Signed
  <2> HIDE DEF a
  <2> QED
    BY <2>1, <2>2, <2>7 DEF TypeOK
<1>4. CASE Tick
  <2>1. clock' \in Nat
    BY <1>4 DEF Tick, TypeOK
  <2> QED
    BY <1>4, <2>1 DEF Tick, TypeOK
<1>5. CASE Restart
  <2>1. work' \in [Handlers -> Attempts]
    BY <1>5, AttemptShape DEF Restart
  <2>2. DOMAIN pending' = {} /\ DOMAIN challenges' = {} /\ DOMAIN creds' = {}
    BY <1>5 DEF Restart
  <2>3. restarts' \in Nat
    BY <1>5 DEF Restart, TypeOK
  <2>4. UNCHANGED <<clock, requested, drawn, taken, issued, redirects, env>>
    BY <1>5 DEF Restart
  <2> QED
    BY <2>1, <2>2, <2>3, <2>4 DEF TypeOK
<1>6. CASE UNCHANGED vars
  BY <1>6 DEF vars, TypeOK
<1> QED
  BY <1>1, <1>2, <1>3, <1>4, <1>5, <1>6

\* Nothing has happened yet.
LEMMA InitTyped == Init => TypeOK
BY AttemptShape DEF Init, TypeOK

\* Every step keeps the types.
LEMMA TypeStep == TypeOK /\ [Next]_vars => TypeOK'
<1> SUFFICES ASSUME TypeOK, [Next]_vars PROVE TypeOK'
  OBVIOUS
<1>1. ASSUME NEW h \in Handlers, NEW rid \in Rids, NEW c \in Creds, NEW s \in Sendable,
             StartFinish(h, rid, c, s)
      PROVE  TypeOK'
  BY <1>1, SendableTyped, StartTyped
<1> QED
  BY <1>1, AuthorizeTyped, BeginTyped, FinishTyped, EnvironmentTyped DEF Next

\* The stores and histories of the login always have the types of the code's
\* structures, whatever is presented and whichever handlers race.
THEOREM LoginTypeCorrect == Spec => []TypeOK
BY InitTyped, TypeStep, PTL DEF Spec

-----------------------------------------------------------------------------
(* Requests: from the pending store through one handler to one code.       *)

Allowed(req) == req.client \in DOMAIN Registered /\ req.redirect \in Registered[req.client]

\* An entry is the request that was put, with its lifetime.
Kept ==
    \A k \in DOMAIN pending :
        /\ pending[k].req = requested[k].req
        /\ pending[k].expiresAt = requested[k].at + PendingTTL

\* A request in a handler's hands is no longer in the store, in no other
\* handler's hands, and in no code.
InHand ==
    \A h \in Handlers : work[h].pc = "granted" =>
        /\ work[h].rid \in DOMAIN requested /\ work[h].rid \notin DOMAIN pending
        /\ work[h].req = requested[work[h].rid].req
        /\ work[h].at =< requested[work[h].rid].at + PendingTTL
        /\ \A i \in DOMAIN issued : issued[i].rid # work[h].rid
        /\ \A o \in Handlers \ {h} : work[o].pc = "granted" => work[o].rid # work[h].rid

\* A code answers a request that is no longer in the store.
Answered ==
    \A i \in DOMAIN issued :
        LET g == issued[i] IN
        /\ g.rid \in DOMAIN requested /\ g.rid \notin DOMAIN pending
        /\ requested[g.rid].req = [client |-> g.client, redirect |-> g.redirect]
        /\ g.at =< requested[g.rid].at + PendingTTL

RequestInv ==
    /\ Kept /\ InHand /\ Answered
    /\ \A k \in DOMAIN requested : Allowed(requested[k].req)
    /\ OneCodePerRequest /\ NoOpenRedirect

\* An index of an extended history is an old one or the new last one.
LEMMA IndexOfAppend ==
    ASSUME NEW S, NEW s \in Seq(S), NEW e \in S
    PROVE  /\ \A i \in DOMAIN s : i \in DOMAIN Append(s, e) /\ Append(s, e)[i] = s[i]
           /\ \A i \in DOMAIN Append(s, e) : i \in DOMAIN s \/ i = Len(s) + 1
           /\ Len(s) + 1 \in DOMAIN Append(s, e) /\ Append(s, e)[Len(s) + 1] = e
<1>1. DOMAIN Append(s, e) = 1 .. (Len(s) + 1) /\ DOMAIN s = 1 .. Len(s) /\ Len(s) \in Nat
  OBVIOUS
<1>2. ASSUME NEW i \in 1 .. Len(s) PROVE Append(s, e)[i] = s[i]
  BY <1>1, <1>2
<1>3. Append(s, e)[Len(s) + 1] = e
  OBVIOUS
<1> QED
  BY <1>1, <1>2, <1>3

\* A step that leaves the requests alone and grants none.
LEMMA RequestQuiet ==
    ASSUME RequestInv, UNCHANGED <<pending, requested, issued, redirects>>,
           \A h \in Handlers : work'[h].pc = "granted" => work'[h] = work[h]
    PROVE  RequestInv'
<1>1. Kept' /\ Answered' /\ OneCodePerRequest' /\ NoOpenRedirect'
      /\ \A k \in DOMAIN requested' : Allowed(requested'[k].req)
  BY DEF RequestInv, Kept, Answered, OneCodePerRequest, NoOpenRedirect
<1>2. InHand'
  BY DEF RequestInv, InHand
<1> QED
  BY <1>1, <1>2 DEF RequestInv

\* Put: the request id is new, its redirect was validated, and the sweep only
\* removes.
LEMMA RequestAccept ==
    ASSUME TypeOK, RequestInv, NEW rid \in Rids, NEW p \in Params, AuthorizeAccept(rid, p)
    PROVE  RequestInv'
<1> DEFINE req == [client |-> p.client, redirect |-> p.redirect]
<1> USE DEF RequestInv
<1>1. /\ rid \notin DOMAIN requested
      /\ pending' = Put(Unexpired(pending), rid, [req |-> req, expiresAt |-> clock + PendingTTL])
      /\ requested' = Put(requested, rid, [req |-> req, at |-> clock])
      /\ UNCHANGED <<work, issued, redirects>>
  BY DEF AuthorizeAccept, Deadline
<1>2. Allowed(req)
  BY DEF AuthorizeAccept, KnownClient, allowsRedirect, Allowed
<1> HIDE DEF req
<1>3. /\ DOMAIN requested' = DOMAIN requested \cup {rid}
      /\ requested'[rid].req = req /\ requested'[rid].at = clock
      /\ \A k \in DOMAIN requested : requested'[k] = requested[k]
  BY <1>1 DEF Put
<1>4. /\ DOMAIN pending' \subseteq DOMAIN pending \cup {rid}
      /\ pending'[rid].req = req /\ pending'[rid].expiresAt = clock + PendingTTL
      /\ \A k \in DOMAIN pending' : k # rid => pending'[k] = pending[k]
  BY <1>1 DEF Put, Unexpired, Restrict
<1>5. Kept'
  BY <1>3, <1>4 DEF Kept, TypeOK
<1>6. InHand'
  BY <1>1, <1>3, <1>4 DEF InHand
<1>7. Answered'
  BY <1>1, <1>3, <1>4 DEF Answered
<1>8. \A k \in DOMAIN requested' : Allowed(requested'[k].req)
  BY <1>2, <1>3
<1>9. OneCodePerRequest' /\ NoOpenRedirect'
  BY <1>1 DEF OneCodePerRequest, NoOpenRedirect
<1> QED
  BY <1>5, <1>6, <1>7, <1>8, <1>9

\* An error travels back only to a validated redirect.
LEMMA RequestRefuse ==
    ASSUME RequestInv, NEW p \in Params, AuthorizeRefuse(p)
    PROVE  RequestInv'
<1>1. /\ redirects' = redirects \cup {[client |-> p.client, uri |-> p.redirect]}
      /\ UNCHANGED <<pending, requested, issued, work>>
      /\ p.client \in DOMAIN Registered /\ p.redirect \in Registered[p.client]
  BY DEF AuthorizeRefuse, SendBack, KnownClient, allowsRedirect, stores
<1>2. NoOpenRedirect'
  BY <1>1 DEF RequestInv, NoOpenRedirect
<1>3. Kept' /\ InHand' /\ Answered' /\ OneCodePerRequest'
      /\ \A k \in DOMAIN requested' : Allowed(requested'[k].req)
  BY <1>1 DEF RequestInv, Kept, InHand, Answered, OneCodePerRequest
<1> QED
  BY <1>2, <1>3 DEF RequestInv

\* Take: the request moves from the store to this handler.
LEMMA RequestConsume ==
    ASSUME TypeOK, RequestInv, NEW h \in Handlers, ConsumePending(h)
    PROVE  RequestInv'
<1> USE DEF RequestInv
<1> DEFINE f == work[h]
           x == [pc |-> "granted", rid |-> f.rid, cred |-> f.cred, value |-> f.value,
                 req |-> pending[f.rid].req, count |-> f.count, at |-> clock]
<1>1. UNCHANGED <<clock, requested, issued, redirects>>
  BY DEF ConsumePending, history
<1>2. f.rid \in DOMAIN pending => pending' = Without(pending, f.rid)
  BY DEF ConsumePending, TakePending
<1>3. f.rid \notin DOMAIN pending => pending' = pending
  BY DEF ConsumePending
<1>4. /\ DOMAIN pending' = DOMAIN pending \ {f.rid}
      /\ \A k \in DOMAIN pending' : pending'[k] = pending[k]
  BY <1>2, <1>3 DEF Without, Restrict
<1>5. Kept'
  BY <1>1, <1>4 DEF Kept
<1>6. Answered' /\ OneCodePerRequest' /\ NoOpenRedirect'
      /\ \A k \in DOMAIN requested' : Allowed(requested'[k].req)
  BY <1>1, <1>4 DEF Answered, OneCodePerRequest, NoOpenRedirect
<1>7. InHand'
  <2>1. CASE work' = [work EXCEPT ![h] = Idle]
    <3>1. work'[h].pc = "idle" /\ \A o \in Handlers \ {h} : work'[o] = work[o]
      BY <2>1, AttemptShape, NextAttempt
    <3> QED
      BY <1>1, <1>4, <3>1 DEF InHand
  <2>2. CASE work' # [work EXCEPT ![h] = Idle]
    <3>1. /\ f.rid \in DOMAIN pending /\ PendingFresh(f.rid)
          /\ work' = [work EXCEPT ![h] = x]
      BY <2>2 DEF ConsumePending, Reply, Goto
    <3>2. /\ x.pc = "granted" /\ x.rid = f.rid /\ x.req = requested[f.rid].req
          /\ x.at =< requested[f.rid].at + PendingTTL
          /\ f.rid \in DOMAIN requested
      BY <3>1 DEF PendingFresh, Kept, TypeOK
    <3> HIDE DEF x
    <3>3. work'[h] = x /\ \A o \in Handlers \ {h} : work'[o] = work[o]
      BY <3>1, NextAttempt
    <3>4. \A i \in DOMAIN issued : issued[i].rid # f.rid
      BY <3>1 DEF Answered
    <3>5. \A o \in Handlers : work[o].pc = "granted" => work[o].rid # f.rid
      BY <3>1 DEF InHand
    <3> QED
      BY <1>1, <1>4, <3>2, <3>3, <3>4, <3>5 DEF InHand
  <2> QED
    BY <2>1, <2>2
<1> QED
  BY <1>5, <1>6, <1>7

\* Issue: the request moves from the handler into the code.
LEMMA RequestIssue ==
    ASSUME TypeOK, RequestInv, NEW h \in Handlers, IssueCode(h)
    PROVE  RequestInv'
<1> USE DEF RequestInv
<1> DEFINE f == work[h]
           e == [rid |-> f.rid, cred |-> f.cred, value |-> f.value, client |-> f.req.client,
                 redirect |-> f.req.redirect, count |-> f.count, at |-> f.at]
<1>0. f.pc = "granted" /\ f \in Granted
  BY AttemptShape DEF IssueCode, TypeOK
<1>1. /\ issued' = Append(issued, e)
      /\ redirects' = redirects \cup {[client |-> f.req.client, uri |-> f.req.redirect]}
      /\ work' = [work EXCEPT ![h] = Idle]
      /\ UNCHANGED <<pending, requested>>
  BY DEF IssueCode, SendBack, Reply, stores
<1>2. e \in Codes /\ issued \in Seq(Codes)
  BY <1>0 DEF Granted, Requests, Codes, TypeOK
<1>3. /\ e.rid = f.rid /\ e.at = f.at
      /\ [client |-> e.client, redirect |-> e.redirect] = f.req
  BY <1>0 DEF Granted, Requests
<1> HIDE DEF e
<1>4. \A i \in DOMAIN issued' : \/ i \in DOMAIN issued /\ issued'[i] = issued[i]
                                \/ i = Len(issued) + 1 /\ issued'[i] = e
  BY <1>1, <1>2, IndexOfAppend
<1>5. work'[h].pc = "idle" /\ \A o \in Handlers \ {h} : work'[o] = work[o]
  BY <1>1, AttemptShape, NextAttempt
<1>6. Kept' /\ \A k \in DOMAIN requested' : Allowed(requested'[k].req)
  BY <1>1 DEF Kept
<1>7. /\ f.rid \in DOMAIN requested /\ f.rid \notin DOMAIN pending
      /\ f.req = requested[f.rid].req
      /\ f.at =< requested[f.rid].at + PendingTTL
      /\ \A i \in DOMAIN issued : issued[i].rid # f.rid
      /\ \A o \in Handlers \ {h} : work[o].pc = "granted" => work[o].rid # f.rid
  BY <1>0 DEF InHand
<1>8. InHand'
  BY <1>1, <1>3, <1>4, <1>5, <1>7 DEF InHand
<1>9. Answered'
  BY <1>1, <1>3, <1>4, <1>7 DEF Answered
<1>10. OneCodePerRequest'
  BY <1>3, <1>4, <1>7 DEF OneCodePerRequest
<1>11. NoOpenRedirect'
  BY <1>1, <1>7 DEF NoOpenRedirect, Allowed
<1> QED
  BY <1>6, <1>8, <1>9, <1>10, <1>11

\* What each step of Finish makes of the request it serves: its id and its
\* challenge stay the same until it is answered.
LEMMA FinishGoesOn ==
    ASSUME TypeOK, NEW h \in Handlers,
           GatewayStep(h) \/ GuardVerified(h) \/ GuardRejected(h)
    PROVE  /\ work[h].pc # "idle"
           /\ \A o \in Handlers \ {h} : work'[o] = work[o]
           /\ work'[h].pc # "idle" => /\ work'[h].rid = work[h].rid
                                      /\ work'[h].value = work[h].value
           /\ work'[h].pc = "granted" => ConsumePending(h)
           /\ UNCHANGED <<clock, challenges, requested, drawn, taken, restarts, signed>>
           /\ ~ConsumePending(h) => UNCHANGED pending
           /\ ~UpdateSignCount(h) => UNCHANGED creds
           /\ ~IssueCode(h) => UNCHANGED <<issued, redirects>>
<1> DEFINE f == work[h]
<1> USE DEF stores, history, env
<1>1. CASE Reply(h) /\ f.pc # "idle" /\ UNCHANGED <<clock, stores, history, env>>
  BY <1>1, AttemptShape, NextAttempt DEF Reply
<1>2. CASE GetCredential(h)
  <2>1. CASE f.cred \in DOMAIN creds
    <3> DEFINE x == [pc |-> "asked", rid |-> f.rid, cred |-> f.cred, asr |-> f.asr,
                     value |-> f.value, stored |-> creds[f.cred]]
    <3>1. /\ work' = [work EXCEPT ![h] = x] /\ UNCHANGED <<clock, stores, history, env>>
          /\ f.pc = "taken"
      BY <1>2, <2>1 DEF GetCredential, Goto
    <3>2. x.pc = "asked" /\ x.rid = f.rid /\ x.value = f.value
      OBVIOUS
    <3> HIDE DEF x
    <3>3. work'[h] = x /\ \A o \in Handlers \ {h} : work'[o] = work[o]
      BY <3>1, NextAttempt
    <3> QED
      BY <3>1, <3>2, <3>3
  <2>2. CASE f.cred \notin DOMAIN creds
    BY <1>1, <1>2, <2>2 DEF GetCredential
  <2> QED
    BY <2>1, <2>2
<1>3. CASE GuardVerified(h)
  <2> DEFINE x == [pc |-> "verified", rid |-> f.rid, cred |-> f.cred, value |-> f.value,
                   count |-> Verdict(f).value]
  <2>1. /\ work' = [work EXCEPT ![h] = x] /\ UNCHANGED <<clock, stores, history, env>>
        /\ f.pc = "asked"
    BY <1>3 DEF GuardVerified, Goto
  <2>2. x.pc = "verified" /\ x.rid = f.rid /\ x.value = f.value
    OBVIOUS
  <2> HIDE DEF x
  <2>3. work'[h] = x /\ \A o \in Handlers \ {h} : work'[o] = work[o]
    BY <2>1, NextAttempt
  <2> QED
    BY <2>1, <2>2, <2>3
<1>4. CASE UpdateSignCount(h)
  <2> DEFINE x == [f EXCEPT !.pc = "counted"]
  <2>1. /\ work' = [work EXCEPT ![h] = x]
        /\ UNCHANGED <<clock, pending, challenges, history, env>>
        /\ f.pc = "verified"
    BY <1>4 DEF UpdateSignCount, Goto
  <2>2. f \in Accepted
    BY <2>1, AttemptShape DEF TypeOK
  <2>3. x.pc = "counted" /\ x.rid = f.rid /\ x.value = f.value
    BY <2>2 DEF Accepted
  <2> HIDE DEF x
  <2>4. work'[h] = x /\ \A o \in Handlers \ {h} : work'[o] = work[o]
    BY <2>1, NextAttempt
  <2> QED
    BY <1>4, <2>1, <2>3, <2>4
<1>5. CASE ConsumePending(h)
  <2> DEFINE x == [pc |-> "granted", rid |-> f.rid, cred |-> f.cred, value |-> f.value,
                   req |-> pending[f.rid].req, count |-> f.count, at |-> clock]
  <2>1. /\ work' \in {[work EXCEPT ![h] = x], [work EXCEPT ![h] = Idle]}
        /\ UNCHANGED <<clock, challenges, creds, history, env>>
        /\ f.pc = "counted"
    BY <1>5 DEF ConsumePending, Goto, Reply
  <2>2. /\ work'[h] \in {x, Idle}
        /\ \A o \in Handlers \ {h} : work'[o] = work[o]
    BY <2>1, NextAttempt
  <2>3. x.rid = f.rid /\ x.value = f.value
    OBVIOUS
  <2> HIDE DEF x
  <2> QED
    BY <1>5, <2>1, <2>2, <2>3, AttemptShape
<1>6. CASE IssueCode(h)
  <2>1. /\ work' = [work EXCEPT ![h] = Idle] /\ f.pc = "granted"
        /\ UNCHANGED <<clock, stores, requested, drawn, taken, restarts, env>>
    BY <1>6 DEF IssueCode, Reply
  <2> QED
    BY <1>6, <2>1, AttemptShape, NextAttempt
<1> QED
  BY <1>1, <1>2, <1>3, <1>4, <1>5, <1>6
  DEF GatewayStep, GuardRejected, GuardFailed, IssueFailed

\* A new Finish request: at most this handler's attempt is new.
LEMMA StartGoesOn ==
    ASSUME TypeOK, NEW h \in Handlers, NEW rid \in Rids, NEW c \in Creds, NEW a,
           StartFinish(h, rid, c, a)
    PROVE  /\ \A o \in Handlers \ {h} : work'[o] = work[o]
           /\ \/ work'[h] = work[h] /\ taken' = taken
              \/ /\ work'[h].pc = "taken" /\ work'[h].rid = rid /\ work'[h].cred = c
                 /\ work'[h].asr = a /\ work'[h].value = challenges[rid].value
                 /\ taken' = Append(taken, challenges[rid].value)
           /\ rid \in DOMAIN challenges /\ DOMAIN challenges' = DOMAIN challenges \ {rid}
           /\ \A k \in DOMAIN challenges' : challenges'[k] = challenges[k]
           /\ UNCHANGED <<clock, pending, creds, requested, drawn, issued, redirects,
                          restarts, signed>>
<1> DEFINE x == [pc |-> "taken", rid |-> rid, cred |-> c, asr |-> a,
                 value |-> challenges[rid].value]
<1>0. challenges' = Without(challenges, rid)
  BY DEF StartFinish, TakeChallenge
<1>1. /\ rid \in DOMAIN challenges /\ DOMAIN challenges' = DOMAIN challenges \ {rid}
      /\ \A k \in DOMAIN challenges' : challenges'[k] = challenges[k]
      /\ UNCHANGED <<clock, pending, creds, requested, drawn, issued, redirects, restarts,
                     signed>>
  <2>1. /\ DOMAIN challenges' = DOMAIN challenges \ {rid}
        /\ \A k \in DOMAIN challenges' : challenges'[k] = challenges[k]
    BY <1>0 DEF Without, Restrict
  <2> QED
    BY <2>1 DEF StartFinish, env
<1>2. \/ UNCHANGED <<work, taken>>
      \/ work' = [work EXCEPT ![h] = x] /\ taken' = Append(taken, challenges[rid].value)
  BY DEF StartFinish, Goto
<1>3. CASE UNCHANGED <<work, taken>>
  BY <1>1, <1>3
<1>4. CASE work' = [work EXCEPT ![h] = x] /\ taken' = Append(taken, challenges[rid].value)
  <2>1. /\ x.pc = "taken" /\ x.rid = rid /\ x.cred = c /\ x.asr = a
        /\ x.value = challenges[rid].value
    OBVIOUS
  <2> HIDE DEF x
  <2>2. work'[h] = x /\ \A o \in Handlers \ {h} : work'[o] = work[o]
    BY <1>4, NextAttempt
  <2> QED
    BY <1>1, <1>4, <2>1, <2>2
<1> QED
  BY <1>2, <1>3, <1>4

\* Every step keeps what is known of requests.
LEMMA RequestStep == TypeOK /\ RequestInv /\ [Next]_vars => RequestInv'
<1> SUFFICES ASSUME TypeOK, RequestInv, [Next]_vars PROVE RequestInv'
  OBVIOUS
<1> USE DEF stores, history, env
<1>1. ASSUME NEW h \in Handlers, GatewayStep(h) \/ GuardVerified(h) \/ GuardRejected(h)
      PROVE  RequestInv'
  <2>1. CASE ConsumePending(h) \/ IssueCode(h)
    BY <2>1, RequestConsume, RequestIssue
  <2>2. CASE ~ConsumePending(h) /\ ~IssueCode(h)
    <3>1. UNCHANGED <<pending, requested, issued, redirects>>
      BY <1>1, <2>2, FinishGoesOn
    <3>2. \A o \in Handlers : work'[o].pc = "granted" => work'[o] = work[o]
      BY <1>1, <2>2, FinishGoesOn
    <3> QED
      BY <3>1, <3>2, RequestQuiet
  <2> QED
    BY <2>1, <2>2
<1>2. ASSUME NEW h \in Handlers, NEW rid \in Rids, NEW c \in Creds, NEW s \in Sendable,
             StartFinish(h, rid, c, s)
      PROVE  RequestInv'
  <2>1. UNCHANGED <<pending, requested, issued, redirects>>
    BY <1>2, StartGoesOn
  <2>2. \A o \in Handlers \ {h} : work'[o] = work[o]
    BY <1>2, StartGoesOn
  <2>3. work'[h].pc = "granted" => work'[h] = work[h]
    BY <1>2, StartGoesOn
  <2> QED
    BY <2>1, <2>2, <2>3, RequestQuiet
<1>3. ASSUME NEW rid \in Rids, Begin(rid) PROVE RequestInv'
  BY <1>3, RequestQuiet DEF Begin
<1>4. ASSUME NEW c \in Creds, NEW key, Add(c, key) PROVE RequestInv'
  BY <1>4, RequestQuiet DEF Add
<1>5. ASSUME NEW c \in Creds, NEW v, NEW how, Sign(c, v, how) PROVE RequestInv'
  BY <1>5, RequestQuiet DEF Sign
<1>6. CASE Tick \/ UNCHANGED vars
  BY <1>6, RequestQuiet DEF Tick, vars
<1>7. CASE Restart
  <2>1. /\ DOMAIN pending' = {} /\ UNCHANGED <<requested, issued, redirects>>
        /\ \A h \in Handlers : work'[h] = Idle
    BY <1>7 DEF Restart
  <2>2. InHand'
    BY <2>1, AttemptShape DEF InHand
  <2> QED
    BY <2>1, <2>2 DEF RequestInv, Kept, Answered, OneCodePerRequest, NoOpenRedirect
<1> QED
  BY <1>1, <1>2, <1>3, <1>4, <1>5, <1>6, <1>7, RequestAccept, RequestRefuse DEF Next

\* An empty pending store, no codes.
LEMMA RequestInit == Init => RequestInv
<1> SUFFICES ASSUME Init PROVE RequestInv
  OBVIOUS
<1>1. /\ DOMAIN pending = {} /\ DOMAIN requested = {} /\ DOMAIN issued = {} /\ redirects = {}
      /\ \A h \in Handlers : work[h].pc = "idle"
  BY AttemptShape DEF Init
<1> QED
  BY <1>1 DEF RequestInv, Kept, InHand, Answered, OneCodePerRequest, NoOpenRedirect

\* What is known of requests at all times.
LEMMA RequestInvariant == Spec => [](TypeOK /\ RequestInv)
BY InitTyped, TypeStep, RequestInit, RequestStep, PTL DEF Spec

\* "a login ceremony completes once" (pending.go:53): any number of handlers
\* with any number of challenges get at most one code out of a request id.
THEOREM OneCode == Spec => []OneCodePerRequest
BY RequestInvariant, PTL DEF RequestInv

\* No browser is sent to a URI its client did not register.
THEOREM RedirectsRegistered == Spec => []NoOpenRedirect
BY RequestInvariant, PTL DEF RequestInv

-----------------------------------------------------------------------------
(* Challenges                                                              *)

\* Drawn for this request.
DrawnFor(d, v, rid) == v \in DOMAIN d /\ d[v] = rid

ChallengeInv ==
    /\ \A k \in DOMAIN challenges :
          /\ DrawnFor(drawn, challenges[k].value, k)
          /\ \A i \in DOMAIN taken : taken[i] # challenges[k].value
    /\ \A i \in DOMAIN taken : taken[i] \in DOMAIN drawn
    /\ \A h \in Handlers : work[h].pc # "idle" => DrawnFor(drawn, work[h].value, work[h].rid)
    /\ \A i \in DOMAIN issued : DrawnFor(drawn, issued[i].value, issued[i].rid)
    /\ ChallengeAnsweredOnce

\* Begin: the new value was never drawn before, and replaces what the request
\* had.
LEMMA ChallengeBegin ==
    ASSUME TypeOK, ChallengeInv, NEW rid \in Rids, Begin(rid)
    PROVE  ChallengeInv'
<1> USE DEF ChallengeInv
<1> DEFINE n == Len(drawn) + 1
<1>1. /\ drawn' = Append(drawn, rid)
      /\ challenges' = Put(Unexpired(challenges), rid,
                           [value |-> n, expiresAt |-> Deadline(ChallengeTTL)])
      /\ UNCHANGED <<work, taken, issued>>
  BY DEF Begin
<1>2. drawn \in Seq(Rids)
  BY DEF TypeOK
<1>3. /\ \A v, k : DrawnFor(drawn, v, k) => DrawnFor(drawn', v, k)
      /\ DrawnFor(drawn', n, rid)
      /\ DOMAIN drawn \subseteq DOMAIN drawn' /\ n \notin DOMAIN drawn
  <2>1. n \notin DOMAIN drawn
    BY <1>2
  <2> QED
    BY <1>1, <1>2, <2>1, IndexOfAppend DEF DrawnFor
<1> HIDE DEF n
<1>4. /\ challenges'[rid].value = n
      /\ \A k \in DOMAIN challenges' : k # rid => /\ k \in DOMAIN challenges
                                                  /\ challenges'[k] = challenges[k]
  BY <1>1 DEF Put, Unexpired, Restrict
<1>5. \A k \in DOMAIN challenges' :
          /\ DrawnFor(drawn', challenges'[k].value, k)
          /\ \A i \in DOMAIN taken' : taken'[i] # challenges'[k].value
  BY <1>1, <1>3, <1>4
<1>6. \A h \in Handlers : work'[h].pc # "idle" => DrawnFor(drawn', work'[h].value, work'[h].rid)
  BY <1>1, <1>3
<1>7. \A i \in DOMAIN issued' : DrawnFor(drawn', issued'[i].value, issued'[i].rid)
  BY <1>1, <1>3
<1>8. \A i \in DOMAIN taken' : taken'[i] \in DOMAIN drawn'
  BY <1>1, <1>3
<1>9. ChallengeAnsweredOnce'
  BY <1>1 DEF ChallengeAnsweredOnce
<1> QED
  BY <1>5, <1>6, <1>7, <1>8, <1>9

\* Challenges.Take: the value leaves the store with the first who names it.
LEMMA ChallengeTake ==
    ASSUME TypeOK, ChallengeInv, NEW h \in Handlers, NEW rid \in Rids, NEW c \in Creds, NEW a,
           StartFinish(h, rid, c, a)
    PROVE  ChallengeInv'
<1> USE DEF ChallengeInv
<1> DEFINE v == challenges[rid].value
<1>1. /\ rid \in DOMAIN challenges /\ UNCHANGED <<drawn, issued>>
      /\ \A o \in Handlers \ {h} : work'[o] = work[o]
  BY StartGoesOn
<1>2. /\ DOMAIN challenges' = DOMAIN challenges \ {rid}
      /\ \A k \in DOMAIN challenges' : challenges'[k] = challenges[k]
  BY StartGoesOn
<1>3. /\ DrawnFor(drawn, v, rid) /\ v \in Nat /\ taken \in Seq(Nat)
      /\ \A i \in DOMAIN taken : taken[i] # v
      /\ \A k \in DOMAIN challenges' : challenges'[k].value # v
  BY <1>1, <1>2 DEF DrawnFor, TypeOK
<1>4. \/ work'[h] = work[h] /\ taken' = taken
      \/ /\ work'[h].rid = rid /\ work'[h].value = v
         /\ taken' = Append(taken, v)
  BY StartGoesOn
<1> HIDE DEF v
<1>5. \A i \in DOMAIN taken' : \/ i \in DOMAIN taken /\ taken'[i] = taken[i]
                               \/ i = Len(taken) + 1 /\ taken'[i] = v
  <2>1. CASE taken' = taken
    BY <2>1
  <2>2. CASE taken' = Append(taken, v)
    BY <1>3, <2>2, IndexOfAppend
  <2> QED
    BY <1>4, <2>1, <2>2
<1>6. \A k \in DOMAIN challenges' :
          /\ DrawnFor(drawn', challenges'[k].value, k)
          /\ \A i \in DOMAIN taken' : taken'[i] # challenges'[k].value
  BY <1>1, <1>2, <1>3, <1>5
<1>7. \A o \in Handlers : work'[o].pc # "idle" => DrawnFor(drawn', work'[o].value, work'[o].rid)
  BY <1>1, <1>3, <1>4
<1>8. \A i \in DOMAIN taken' : taken'[i] \in DOMAIN drawn'
  BY <1>1, <1>3, <1>5 DEF DrawnFor
<1>9. ChallengeAnsweredOnce'
  BY <1>3, <1>5 DEF ChallengeAnsweredOnce
<1> QED
  BY <1>1, <1>6, <1>7, <1>8, <1>9

\* A step that neither draws nor takes.
LEMMA ChallengeQuiet ==
    ASSUME ChallengeInv, UNCHANGED <<challenges, drawn, taken, issued>>,
           \A h \in Handlers : work'[h].pc # "idle" =>
              /\ work[h].pc # "idle"
              /\ work'[h].rid = work[h].rid /\ work'[h].value = work[h].value
    PROVE  ChallengeInv'
BY DEF ChallengeInv, ChallengeAnsweredOnce

\* Every step keeps what is known of challenges.
LEMMA ChallengeStep == TypeOK /\ ChallengeInv /\ [Next]_vars => ChallengeInv'
<1> SUFFICES ASSUME TypeOK, ChallengeInv, [Next]_vars PROVE ChallengeInv'
  OBVIOUS
<1> USE DEF stores, history, env
<1>1. ASSUME NEW h \in Handlers, GatewayStep(h) \/ GuardVerified(h) \/ GuardRejected(h)
      PROVE  ChallengeInv'
  <2>1. /\ UNCHANGED <<challenges, drawn, taken>>
        /\ \A o \in Handlers : work'[o].pc # "idle" =>
              /\ work[o].pc # "idle"
              /\ work'[o].rid = work[o].rid /\ work'[o].value = work[o].value
    BY <1>1, FinishGoesOn
  <2>2. CASE ~IssueCode(h)
    <3>1. UNCHANGED issued
      BY <1>1, <2>2, FinishGoesOn
    <3> QED
      BY <2>1, <3>1, ChallengeQuiet
  <2>3. CASE IssueCode(h)
    <3> DEFINE f == work[h]
               e == [rid |-> f.rid, cred |-> f.cred, value |-> f.value,
                     client |-> f.req.client, redirect |-> f.req.redirect,
                     count |-> f.count, at |-> f.at]
    <3>1. f \in Granted /\ f.pc = "granted" /\ issued' = Append(issued, e)
      BY <2>3, AttemptShape DEF IssueCode, TypeOK
    <3>2. e \in Codes /\ issued \in Seq(Codes) /\ e.rid = f.rid /\ e.value = f.value
      BY <3>1 DEF Granted, Requests, Codes, TypeOK
    <3> HIDE DEF e
    <3>3. \A i \in DOMAIN issued' : \/ i \in DOMAIN issued /\ issued'[i] = issued[i]
                                    \/ issued'[i] = e
      BY <3>1, <3>2, IndexOfAppend
    <3>4. \A i \in DOMAIN issued' : DrawnFor(drawn', issued'[i].value, issued'[i].rid)
      BY <2>1, <3>1, <3>2, <3>3 DEF ChallengeInv
    <3> QED
      BY <2>1, <3>4 DEF ChallengeInv, ChallengeAnsweredOnce
  <2> QED
    BY <2>2, <2>3
<1>2. ASSUME NEW c \in Creds, NEW key, Add(c, key) PROVE ChallengeInv'
  BY <1>2, ChallengeQuiet DEF Add
<1>3. ASSUME NEW c \in Creds, NEW v, NEW how, Sign(c, v, how) PROVE ChallengeInv'
  BY <1>3, ChallengeQuiet DEF Sign
<1>4. CASE Tick \/ UNCHANGED vars
  BY <1>4, ChallengeQuiet DEF Tick, vars
<1>5. ASSUME NEW p, AuthorizeRefuse(p) PROVE ChallengeInv'
  BY <1>5, ChallengeQuiet DEF AuthorizeRefuse
<1>6. ASSUME NEW rid, NEW p, AuthorizeAccept(rid, p) PROVE ChallengeInv'
  BY <1>6, ChallengeQuiet DEF AuthorizeAccept
<1>7. CASE Restart
  <2>1. /\ DOMAIN challenges' = {} /\ UNCHANGED <<drawn, taken, issued>>
        /\ \A h \in Handlers : work'[h] = Idle
    BY <1>7 DEF Restart
  <2> QED
    BY <2>1, AttemptShape DEF ChallengeInv, ChallengeAnsweredOnce
<1> QED
  BY <1>1, <1>2, <1>3, <1>4, <1>5, <1>6, <1>7, ChallengeBegin, ChallengeTake DEF Next

\* Nothing is drawn at the start.
LEMMA ChallengeInit == Init => ChallengeInv
<1> SUFFICES ASSUME Init PROVE ChallengeInv
  OBVIOUS
<1>1. /\ DOMAIN challenges = {} /\ DOMAIN taken = {} /\ DOMAIN issued = {}
      /\ \A h \in Handlers : work[h].pc = "idle"
  BY AttemptShape DEF Init
<1> QED
  BY <1>1 DEF ChallengeInv, ChallengeAnsweredOnce

\* What is known of challenges at all times.
LEMMA ChallengeInvariant == Spec => [](TypeOK /\ ChallengeInv)
BY InitTyped, TypeStep, ChallengeInit, ChallengeStep, PTL DEF Spec

\* "one challenge, one attempt" (login/store.go:71), for any number of handlers.
THEOREM OneAttemptPerChallenge == Spec => []ChallengeAnsweredOnce
BY ChallengeInvariant, PTL DEF ChallengeInv
-----------------------------------------------------------------------------
(* Evidence: from the authenticator's signature to the code.               *)

\* The credential's authenticator, touched, signed this challenge in a login
\* here.
Evidence(S, c, v) ==
    \E s \in S :
        /\ s.sig.key = c
        /\ s.client = [json |-> TRUE, type |-> "webauthn.get", challenge |-> v,
                       origin |-> Origin]
        /\ s.auth.rp_id = RPID /\ s.auth.up

\* What a Finish request rests on: before the verdict, a signature that some
\* authenticator made and the key registered for the credential; after it,
\* evidence for the credential and the challenge.
Backed(S, f) ==
    /\ f.pc \in {"taken", "asked"} => \E s \in S : s.sig = f.asr.sig
    /\ f.pc = "asked" => f.stored.key \in {f.cred, UnsupportedKey}
    /\ f.pc \in {"verified", "counted", "granted"} => Evidence(S, f.cred, f.value)

EvidenceInv ==
    /\ \A s \in signed : s.sig.over = Signed(s.auth, s.client)
    /\ \A c \in DOMAIN creds : creds[c].key \in {c, UnsupportedKey}
    /\ \A h \in Handlers : Backed(signed, work[h])
    /\ \A i \in DOMAIN issued : Evidence(signed, issued[i].cred, issued[i].value)

\* Signatures are only added.
LEMMA EvidenceStays ==
    ASSUME NEW S, NEW T, S \subseteq T
    PROVE  /\ \A c, v : Evidence(S, c, v) => Evidence(T, c, v)
           /\ \A f : Backed(S, f) => Backed(T, f)
<1>1. \A c, v : Evidence(S, c, v) => Evidence(T, c, v)
  BY DEF Evidence
<1> QED
  BY <1>1 DEF Backed

\* A request that is answered rests on nothing.
LEMMA IdleBacked == \A S : Backed(S, Idle)
BY DEF Backed, Idle

\* A verdict on a signature some authenticator made, against the credential's
\* own key, is evidence: the signature covers both parts, so exchanging one
\* is noticed.
LEMMA VerdictIsEvidence ==
    ASSUME TypeOK, EvidenceInv, NEW f \in Asked, Backed(signed, f), Verdict(f).ok
    PROVE  Evidence(signed, f.cred, f.value)
<1> DEFINE exp == Expectations(RPID, Origin, f.value, f.stored.count)
<1>1. f.pc = "asked"
  BY DEF Asked
<1>2. PICK s \in signed : s.sig = f.asr.sig
  BY <1>1 DEF Backed
<1>3. f.stored.key \in {f.cred, UnsupportedKey}
  BY <1>1 DEF Backed
<1>4. exp.challenge = f.value /\ exp.origin = Origin /\ exp.rp_id = RPID
  BY DEF Expectations
<1>5. verify(exp, f.stored.key, f.asr.auth, f.asr.client, f.asr.sig).ok
  BY DEF Verdict
<1> HIDE DEF exp
<1>6. /\ f.asr.client.json /\ f.asr.client.type = "webauthn.get"
      /\ f.asr.client.challenge = exp.challenge /\ f.asr.client.origin = exp.origin
      /\ f.asr.auth.rp_id = exp.rp_id /\ f.asr.auth.up
      /\ f.stored.key # UnsupportedKey
      /\ f.asr.sig = [key |-> f.stored.key, over |-> Signed(f.asr.auth, f.asr.client)]
  BY <1>5, VerifiedMeans
<1>7. s.sig.key = f.cred /\ s.sig.over = Signed(f.asr.auth, f.asr.client)
  BY <1>2, <1>3, <1>6
<1>8. s.auth = f.asr.auth /\ s.client = f.asr.client
  <2>1. Signed(s.auth, s.client) = Signed(f.asr.auth, f.asr.client)
    BY <1>7 DEF EvidenceInv
  <2> QED
    BY <2>1 DEF Signed
<1>9. s.client = [json |-> TRUE, type |-> "webauthn.get", challenge |-> f.value,
                  origin |-> Origin]
  <2>1. s.client \in ClientDatas
    BY DEF TypeOK, Assertions
  <2>2. /\ s.client.json = TRUE /\ s.client.type = "webauthn.get"
        /\ s.client.challenge = f.value /\ s.client.origin = Origin
    BY <1>4, <1>6, <1>8, <2>1 DEF ClientDatas
  <2> QED
    BY <2>1, <2>2 DEF ClientDatas
<1> QED
  BY <1>4, <1>6, <1>7, <1>8, <1>9 DEF Evidence

\* Each step of Finish rests on what the step before it rested on.
LEMMA BackedGoesOn ==
    ASSUME TypeOK, EvidenceInv, NEW h \in Handlers,
           GatewayStep(h) \/ GuardVerified(h) \/ GuardRejected(h)
    PROVE  Backed(signed, work'[h])
<1> DEFINE f == work[h]
<1>0. Backed(signed, f) /\ f \in Attempts
  BY DEF EvidenceInv, TypeOK
<1>1. CASE work' = [work EXCEPT ![h] = Idle]
  BY <1>1, IdleBacked, NextAttempt
<1>2. CASE GetCredential(h) /\ f.cred \in DOMAIN creds
  <2> DEFINE x == [pc |-> "asked", rid |-> f.rid, cred |-> f.cred, asr |-> f.asr,
                   value |-> f.value, stored |-> creds[f.cred]]
  <2>1. f.pc = "taken" /\ work' = [work EXCEPT ![h] = x]
    BY <1>2 DEF GetCredential, Goto
  <2>2. x.pc = "asked" /\ x.asr = f.asr /\ x.cred = f.cred /\ x.stored = creds[f.cred]
    OBVIOUS
  <2> HIDE DEF x
  <2>3. x.stored.key \in {x.cred, UnsupportedKey}
    BY <1>2, <2>2 DEF EvidenceInv
  <2>4. \E s \in signed : s.sig = x.asr.sig
    BY <1>0, <2>1, <2>2 DEF Backed
  <2>5. Backed(signed, x)
    BY <2>2, <2>3, <2>4 DEF Backed
  <2> QED
    BY <2>1, <2>5, NextAttempt
<1>3. CASE GuardVerified(h)
  <2> DEFINE x == [pc |-> "verified", rid |-> f.rid, cred |-> f.cred, value |-> f.value,
                   count |-> Verdict(f).value]
  <2>1. f.pc = "asked" /\ Verdict(f).ok /\ work' = [work EXCEPT ![h] = x]
    BY <1>3 DEF GuardVerified, Goto
  <2>2. x.pc = "verified" /\ x.cred = f.cred /\ x.value = f.value
    OBVIOUS
  <2> HIDE DEF x
  <2>3. Evidence(signed, f.cred, f.value)
    BY <1>0, <2>1, AttemptShape, VerdictIsEvidence
  <2>4. Backed(signed, x)
    BY <2>2, <2>3 DEF Backed
  <2> QED
    BY <2>1, <2>4, NextAttempt
<1>4. CASE UpdateSignCount(h)
  <2> DEFINE x == [f EXCEPT !.pc = "counted"]
  <2>1. f.pc = "verified" /\ work' = [work EXCEPT ![h] = x]
    BY <1>4 DEF UpdateSignCount, Goto
  <2>2. f \in Accepted
    BY <1>0, <2>1, AttemptShape
  <2>3. x.pc = "counted" /\ x.cred = f.cred /\ x.value = f.value
    BY <2>2 DEF Accepted
  <2> HIDE DEF x
  <2>4. Backed(signed, x)
    BY <1>0, <2>1, <2>3 DEF Backed
  <2> QED
    BY <2>1, <2>4, NextAttempt
<1>5. CASE ConsumePending(h) /\ work' # [work EXCEPT ![h] = Idle]
  <2> DEFINE x == [pc |-> "granted", rid |-> f.rid, cred |-> f.cred, value |-> f.value,
                   req |-> pending[f.rid].req, count |-> f.count, at |-> clock]
  <2>1. f.pc = "counted" /\ work' = [work EXCEPT ![h] = x]
    BY <1>5 DEF ConsumePending, Goto, Reply
  <2>2. x.pc = "granted" /\ x.cred = f.cred /\ x.value = f.value
    OBVIOUS
  <2> HIDE DEF x
  <2>3. Backed(signed, x)
    BY <1>0, <2>1, <2>2 DEF Backed
  <2> QED
    BY <2>1, <2>3, NextAttempt
<1> QED
  BY <1>1, <1>2, <1>3, <1>4, <1>5
  DEF GatewayStep, GetCredential, GuardRejected, GuardFailed, IssueCode, IssueFailed, Reply

\* A step that changes no record and signs nothing.
LEMMA EvidenceQuiet ==
    ASSUME EvidenceInv, UNCHANGED <<creds, signed, issued>>,
           \A h \in Handlers : Backed(signed, work'[h])
    PROVE  EvidenceInv'
BY DEF EvidenceInv

\* A step of Finish.
LEMMA EvidenceFinish ==
    ASSUME TypeOK, EvidenceInv, NEW h \in Handlers,
           GatewayStep(h) \/ GuardVerified(h) \/ GuardRejected(h)
    PROVE  EvidenceInv'
<1> DEFINE f == work[h]
<1>1. \A o \in Handlers : Backed(signed, work'[o])
  BY BackedGoesOn, FinishGoesOn DEF EvidenceInv
<1>2. UNCHANGED signed
  BY FinishGoesOn
<1>3. DOMAIN creds' = DOMAIN creds /\ \A c \in DOMAIN creds : creds'[c].key = creds[c].key
  <2>1. CASE ~UpdateSignCount(h)
    BY <2>1, FinishGoesOn
  <2>2. CASE UpdateSignCount(h)
    <3>1. creds' = creds \/ creds' = [creds EXCEPT ![f.cred].count = f.count]
      BY <2>2 DEF UpdateSignCount
    <3>2. CASE creds' = creds
      BY <3>2
    <3>3. CASE creds' = [creds EXCEPT ![f.cred].count = f.count]
      BY <3>3 DEF TypeOK, Records
    <3> QED
      BY <3>1, <3>2, <3>3
  <2> QED
    BY <2>1, <2>2
<1>4. \A i \in DOMAIN issued' : Evidence(signed, issued'[i].cred, issued'[i].value)
  <2>1. CASE ~IssueCode(h)
    <3>1. UNCHANGED issued
      BY <2>1, FinishGoesOn
    <3> QED
      BY <3>1 DEF EvidenceInv
  <2>2. CASE IssueCode(h)
    <3> DEFINE e == [rid |-> f.rid, cred |-> f.cred, value |-> f.value,
                     client |-> f.req.client, redirect |-> f.req.redirect,
                     count |-> f.count, at |-> f.at]
    <3>1. f \in Granted /\ f.pc = "granted" /\ issued' = Append(issued, e)
      BY <2>2, AttemptShape DEF IssueCode, TypeOK
    <3>2. e \in Codes /\ issued \in Seq(Codes) /\ e.cred = f.cred /\ e.value = f.value
      BY <3>1 DEF Granted, Requests, Codes, TypeOK
    <3> HIDE DEF e
    <3>3. \A i \in DOMAIN issued' : \/ i \in DOMAIN issued /\ issued'[i] = issued[i]
                                    \/ issued'[i] = e
      BY <3>1, <3>2, IndexOfAppend
    <3>4. Evidence(signed, e.cred, e.value)
      BY <3>1, <3>2 DEF EvidenceInv, Backed
    <3> QED
      BY <3>3, <3>4 DEF EvidenceInv
  <2> QED
    BY <2>1, <2>2
<1> QED
  BY <1>1, <1>2, <1>3, <1>4 DEF EvidenceInv

\* An authenticator signs its own key's name over what it was shown.
LEMMA EvidenceSign ==
    ASSUME TypeOK, EvidenceInv, NEW c \in Creds, NEW v, NEW how, Sign(c, v, how)
    PROVE  EvidenceInv'
<1> DEFINE n == IF c \in Counting THEN counter[c] + 1 ELSE 0
           client == ClientData(v, how)
           auth == AuthData(n, how)
           s == [client |-> client, auth |-> auth,
                 sig |-> [key |-> c, over |-> Signed(auth, client)]]
<1>1. signed' = signed \cup {s} /\ UNCHANGED <<creds, work, issued>>
  BY DEF Sign, stores, history
<1>2. s.sig.over = Signed(s.auth, s.client)
  <2> HIDE DEF client, auth
  <2> QED
    OBVIOUS
<1> HIDE DEF s
<1>3. \A o \in signed' : o.sig.over = Signed(o.auth, o.client)
  BY <1>1, <1>2 DEF EvidenceInv
<1>4. /\ \A h \in Handlers : Backed(signed', work'[h])
      /\ \A i \in DOMAIN issued' : Evidence(signed', issued'[i].cred, issued'[i].value)
  <2>1. signed \subseteq signed'
    BY <1>1
  <2> QED
    BY <1>1, <2>1, EvidenceStays DEF EvidenceInv
<1> QED
  BY <1>1, <1>3, <1>4 DEF EvidenceInv

\* Every step keeps what codes and attempts rest on.
LEMMA EvidenceStep == TypeOK /\ EvidenceInv /\ [Next]_vars => EvidenceInv'
<1> SUFFICES ASSUME TypeOK, EvidenceInv, [Next]_vars PROVE EvidenceInv'
  OBVIOUS
<1> USE DEF stores, history, env
<1>1. ASSUME NEW h \in Handlers, NEW rid \in Rids, NEW c \in Creds, NEW s \in Sendable,
             StartFinish(h, rid, c, s)
      PROVE  EvidenceInv'
  <2>1. UNCHANGED <<creds, signed, issued>> /\ \A o \in Handlers \ {h} : work'[o] = work[o]
    BY <1>1, StartGoesOn
  <2>2. work'[h] = work[h] \/ (work'[h].pc = "taken" /\ work'[h].asr = s)
    BY <1>1, StartGoesOn
  <2>3. \E o \in signed : o.sig = s.sig
    BY SendableTyped
  <2>4. Backed(signed, work'[h])
    BY <2>2, <2>3 DEF Backed, EvidenceInv
  <2>5. \A o \in Handlers : Backed(signed, work'[o])
    BY <2>1, <2>4 DEF EvidenceInv
  <2> QED
    BY <2>1, <2>5, EvidenceQuiet
<1>2. ASSUME NEW c \in Creds, NEW key \in PublicKeys[c], Add(c, key) PROVE EvidenceInv'
  <2>1. creds' = Put(creds, c, [key |-> key, count |-> counter[c]])
        /\ UNCHANGED <<signed, work, issued>>
    BY <1>2 DEF Add
  <2>2. key \in {c, UnsupportedKey}
    BY LoginConstants
  <2>3. \A k \in DOMAIN creds' : creds'[k].key \in {k, UnsupportedKey}
    BY <2>1, <2>2 DEF Put, EvidenceInv
  <2> QED
    BY <2>1, <2>3 DEF EvidenceInv
<1>3. ASSUME NEW rid \in Rids, Begin(rid) PROVE EvidenceInv'
  BY <1>3, EvidenceQuiet DEF Begin, EvidenceInv
<1>4. CASE Tick \/ UNCHANGED vars
  BY <1>4, EvidenceQuiet DEF Tick, vars, EvidenceInv
<1>5. ASSUME NEW p, AuthorizeRefuse(p) PROVE EvidenceInv'
  BY <1>5, EvidenceQuiet DEF AuthorizeRefuse, EvidenceInv
<1>6. ASSUME NEW rid, NEW p, AuthorizeAccept(rid, p) PROVE EvidenceInv'
  BY <1>6, EvidenceQuiet DEF AuthorizeAccept, EvidenceInv
<1>7. CASE Restart
  <2>1. /\ DOMAIN creds' = {} /\ UNCHANGED <<signed, issued>>
        /\ \A h \in Handlers : work'[h] = Idle
    BY <1>7 DEF Restart
  <2> QED
    BY <2>1, IdleBacked DEF EvidenceInv
<1> QED
  BY <1>1, <1>2, <1>3, <1>4, <1>5, <1>6, <1>7, EvidenceFinish, EvidenceSign DEF Next

\* No codes at the start, and nobody at work.
LEMMA EvidenceInit == Init => EvidenceInv
<1> SUFFICES ASSUME Init PROVE EvidenceInv
  OBVIOUS
<1>1. /\ DOMAIN creds = {} /\ DOMAIN issued = {} /\ signed = {}
      /\ \A h \in Handlers : work[h] = Idle
  BY DEF Init
<1> QED
  BY <1>1, IdleBacked DEF EvidenceInv

\* What codes and attempts rest on, at all times.
LEMMA EvidenceInvariant == Spec => [](TypeOK /\ EvidenceInv)
BY InitTyped, TypeStep, EvidenceInit, EvidenceStep, PTL DEF Spec

\* A code is evidence of a login, for any number of handlers, challenges and
\* restarts and whatever is sent as an assertion: it answers the request it
\* names within its lifetime, and the credential's authenticator, touched,
\* signed a challenge drawn for that very request on our own origin.
THEOREM LoginProved == Spec => []CodeProvesLogin
<1>1. RequestInv /\ ChallengeInv /\ EvidenceInv => CodeProvesLogin
  <2> SUFFICES ASSUME RequestInv, ChallengeInv, EvidenceInv, NEW i \in DOMAIN issued
               PROVE  LET g == issued[i] IN
                      /\ g.rid \in DOMAIN requested
                      /\ requested[g.rid].req = [client |-> g.client, redirect |-> g.redirect]
                      /\ g.at =< requested[g.rid].at + PendingTTL
                      /\ drawn[g.value] = g.rid
                      /\ Evidence(signed, g.cred, g.value)
    BY DEF CodeProvesLogin, Evidence
  <2> QED
    BY DEF RequestInv, Answered, ChallengeInv, DrawnFor, EvidenceInv
<1> QED
  BY <1>1, RequestInvariant, ChallengeInvariant, EvidenceInvariant, PTL

-----------------------------------------------------------------------------
(* Abandoning the prompt                                                   *)

\* "Only now is the pending request consumed" (ceremony.go:142): an unexpired
\* request leaves the store only with a handler whose assertion was verified,
\* or with the process.
THEOREM RequestsSurvive == Spec => PendingSurvivesFailure
<1> DEFINE Survives ==
        \A rid \in DOMAIN pending \ DOMAIN pending' :
            \/ clock > pending[rid].expiresAt
            \/ restarts' # restarts
            \/ \E h \in Handlers : work[h].pc = "counted" /\ work[h].rid = rid
<1>1. TypeOK /\ [Next]_vars => [Survives]_vars
  <2> SUFFICES ASSUME TypeOK, Next PROVE Survives
    OBVIOUS
  <2>1. CASE UNCHANGED pending
    BY <2>1
  <2>2. ASSUME NEW rid, NEW p, AuthorizeAccept(rid, p) PROVE Survives
    <3>1. PICK e : pending' = Put(Unexpired(pending), rid, e)
      BY <2>2 DEF AuthorizeAccept
    <3>2. \A k \in DOMAIN pending \ DOMAIN pending' : ~(clock =< pending[k].expiresAt)
      BY <3>1 DEF Put, Unexpired, Restrict
    <3>3. \A k \in DOMAIN pending : pending[k].expiresAt \in Nat /\ clock \in Nat
      BY DEF TypeOK
    <3> QED
      BY <3>2, <3>3
  <2>3. ASSUME NEW h \in Handlers, ConsumePending(h) PROVE Survives
    <3>1. work[h].pc = "counted"
      BY <2>3 DEF ConsumePending
    <3>2. pending' = Without(pending, work[h].rid) \/ pending' = pending
      BY <2>3 DEF ConsumePending, TakePending
    <3>3. DOMAIN pending \ DOMAIN pending' \subseteq {work[h].rid}
      <4>1. CASE pending' = pending
        BY <4>1
      <4>2. CASE pending' = Without(pending, work[h].rid)
        BY <4>2 DEF Without, Restrict
      <4> QED
        BY <3>2, <4>1, <4>2
    <3> QED
      BY <3>1, <3>3
  <2>4. CASE Restart
    BY <2>4 DEF Restart, TypeOK
  <2>5. ASSUME NEW h \in Handlers, GatewayStep(h) \/ GuardVerified(h) \/ GuardRejected(h),
               ~ConsumePending(h)
        PROVE  UNCHANGED pending
    BY <2>5, FinishGoesOn
  <2>6. ASSUME NEW h \in Handlers, NEW rid \in Rids, NEW c \in Creds, NEW s,
               StartFinish(h, rid, c, s)
        PROVE  UNCHANGED pending
    BY <2>6, StartGoesOn
  <2>7. ASSUME \/ \E p \in Params : AuthorizeRefuse(p)
               \/ \E rid \in Rids : Begin(rid)
               \/ \E c \in Creds : \E key \in PublicKeys[c] : Add(c, key)
               \/ \E c \in Creds, v \in 1 .. Len(drawn), how \in Ceremonies : Sign(c, v, how)
               \/ Tick
        PROVE  UNCHANGED pending
    BY <2>7 DEF AuthorizeRefuse, Begin, Add, Sign, Tick, stores
  <2> HIDE DEF Survives
  <2> QED
    BY <2>1, <2>2, <2>3, <2>4, <2>5, <2>6, <2>7 DEF Next
<1> QED
  BY <1>1, LoginTypeCorrect, PTL DEF Spec, PendingSurvivesFailure
=============================================================================
