------------------------- MODULE TokenEndpointProofs -------------------------
(***************************************************************************)
(* Proofs about TokenEndpoint, for any number of exchanges, any codes,     *)
(* proofs and lifetimes.                                                   *)
(*                                                                         *)
(* First the composition: a behaviour of the endpoint is one of the code   *)
(* store and one of the verifier, so their theorems hold in it.  Then the  *)
(* exchanges: ExchangeInv says that one which is under way has redeemed    *)
(* its code itself, that no other exchange or token has that code or the   *)
(* same admission of a proof, and that no exchange that consumed it was    *)
(* refused.  GoneInv: a code refused as unknown is not in the store.       *)
(***************************************************************************)
EXTENDS TokenEndpoint, CodeStoreProofs

(* The parts                                                               *)

\* The verifier's theorems, about the verifier inside the endpoint.
DP == INSTANCE DPoPVerifierProofs WITH Requests <- {TokenRequest}, work <- proving

\* To the code store every step of the endpoint is one of its own or none.
LEMMA StoreSteps == [EndpointNext]_all => [Next]_vars
<1> SUFFICES ASSUME [EndpointNext]_all PROVE [Next]_vars
  OBVIOUS
<1>1. ASSUME NEW c \in Codes, NEW g \in Grants, LoginIssues(c, g) PROVE Next
  BY <1>1 DEF LoginIssues, Next
<1>2. ASSUME NEW t \in Threads, NEW c \in Codes, NEW client \in Clients, NEW redirect \in Redirects,
             NEW v, NEW p, RedeemCode(t, c, client, redirect, v, p)
      PROVE  Next
  BY <1>2 DEF RedeemCode, Next
<1>3. ASSUME NEW t \in Threads, SkipProof(t) \/ ProofRefused(t) \/ SignToken(t) \/ SignFailed(t)
      PROVE  UNCHANGED vars
  BY <1>3 DEF SkipProof, ProofRefused, SignToken, SignFailed, vars, store
<1>4. ASSUME NEW t \in Threads, ProofChecked(t) \/ ProofAdmitted(t) \/ ProofReplayed(t)
      PROVE  UNCHANGED vars
  BY <1>4 DEF ProofChecked, ProofAdmitted, ProofReplayed, D!Check, D!AdmitNew, D!AdmitSeen,
              D!AdmitFull, vars, store
<1>5. CASE Time
  BY <1>5 DEF Time, Next
<1>6. CASE Reboot
  BY <1>6 DEF Reboot, Next
<1>7. CASE UNCHANGED all
  BY <1>7 DEF all, store, vars
<1>8. ASSUME NEW t \in Threads, NEW c \in Codes, CodeUnknown(t, c) PROVE Next
  BY <1>8 DEF CodeUnknown, Next
<1> QED
  BY <1>1, <1>2, <1>3, <1>4, <1>5, <1>6, <1>7, <1>8 DEF EndpointNext

\* The same for the verifier.
LEMMA VerifierSteps == [EndpointNext]_all => [D!Next]_(D!vars)
<1> SUFFICES ASSUME [EndpointNext]_all PROVE [D!Next]_(D!vars)
  OBVIOUS
<1> USE DEF verifier, D!vars
<1>1. ASSUME NEW c \in Codes, NEW g \in Grants, LoginIssues(c, g) PROVE UNCHANGED D!vars
  BY <1>1 DEF LoginIssues, Issue
<1>2. ASSUME NEW t \in Threads, NEW c, NEW client, NEW redirect, NEW v, NEW p,
             RedeemCode(t, c, client, redirect, v, p)
      PROVE  UNCHANGED D!vars
  BY <1>2 DEF RedeemCode, Redeem
<1>3. ASSUME NEW t \in Threads, SkipProof(t) \/ ProofRefused(t) \/ SignToken(t) \/ SignFailed(t)
      PROVE  UNCHANGED D!vars
  BY <1>3 DEF SkipProof, ProofRefused, SignToken, SignFailed
<1>4. ASSUME NEW t \in Threads, ProofChecked(t) \/ ProofAdmitted(t) \/ ProofReplayed(t)
      PROVE  D!Next
  BY <1>4 DEF ProofChecked, ProofAdmitted, ProofReplayed, D!Next
<1>5. CASE Time
  BY <1>5 DEF Time, Tick, D!Next, D!Tick
<1>6. CASE Reboot
  BY <1>6 DEF Reboot, D!Next
<1>7. CASE UNCHANGED all
  BY <1>7 DEF all
<1>8. ASSUME NEW t \in Threads, NEW c \in Codes, CodeUnknown(t, c) PROVE UNCHANGED D!vars
  BY <1>8 DEF CodeUnknown, RedeemUnknown, vars
<1> QED
  BY <1>1, <1>2, <1>3, <1>4, <1>5, <1>6, <1>7, <1>8 DEF EndpointNext

\* Inside the endpoint the code store does nothing that it does not do alone.
THEOREM EndpointUsesStore == EndpointSpec => Spec
<1>1. EndpointInit => Init
  BY DEF EndpointInit
<1> QED
  BY <1>1, StoreSteps, PTL DEF EndpointSpec, Spec

\* Nor does the verifier, with its clock and its restarts.
THEOREM EndpointUsesVerifier == EndpointSpec => D!Spec
<1>1. EndpointInit => D!Init
  BY DEF EndpointInit
<1> QED
  BY <1>1, VerifierSteps, PTL DEF EndpointSpec, D!Spec

\* A code presented to the endpoint once is never redeemable again.
THEOREM EndpointCodeBurns == EndpointSpec => []OneAttempt
BY EndpointUsesStore, CodeBurns, PTL

\* No code is redeemed twice at the endpoint.
THEOREM EndpointCodeWorksOnce == EndpointSpec => []NeverTwice
BY EndpointUsesStore, CodeWorksOnce, PTL

\* At the endpoint the store keeps the promise of OneShot.
THEOREM EndpointRefinement == EndpointSpec => RefinesOneShot
BY EndpointUsesStore, Refinement, PTL

\* What is known of the verifier inside the endpoint.
LEMMA VerifierInvariant == EndpointSpec => []D!IInv
<1>1. DP!Spec => []DP!IInv
  BY DP!Invariance, EndpointConstants, MaxClockAssumption
<1>2. D!Init => DP!Init
  BY DEF D!Init, DP!Init, D!Idle, DP!Idle
<1>3. [D!Next]_(D!vars) => [DP!Next]_(DP!vars)
  <2> SUFFICES ASSUME [D!Next]_(D!vars) PROVE [DP!Next]_(DP!vars)
    OBVIOUS
  <2>1. ASSUME NEW t \in Threads, D!Check(t) PROVE DP!Next
    BY <2>1 DEF D!Check, DP!Check, D!Passes, DP!Passes, D!WellFormed, DP!WellFormed, D!sameURI,
                DP!sameURI, D!Fresh, DP!Fresh, D!BoundToToken, DP!BoundToToken, D!Checked,
                DP!Checked, DP!Next
  <2>2. /\ \A its, now : D!Swept(its, now) = DP!Swept(its, now)
        /\ \A its : D!Full(its) = DP!Full(its)
        /\ \A its, j, until : D!Remember(its, j, until) = DP!Remember(its, j, until)
        /\ \A now : D!Until(now) = DP!Until(now)
    <3>1. \A S : D!Cardinality(S) = DP!Cardinality(S)
      BY DEF D!Cardinality, DP!Cardinality
    <3>2. \A its, now : D!Forget(its, now) = DP!Forget(its, now)
      BY DEF D!Forget, DP!Forget, D!Restrict, DP!Restrict
    <3> QED
      BY <3>1, <3>2 DEF D!Swept, DP!Swept, D!Full, DP!Full, D!Remember, DP!Remember, D!Until, DP!Until
  <2>3. ASSUME NEW t \in Threads, D!AdmitSeen(t) \/ D!AdmitFull(t) \/ D!AdmitNew(t) PROVE DP!Next
    BY <2>2, <2>3 DEF D!AdmitSeen, DP!AdmitSeen, D!AdmitFull, DP!AdmitFull, D!AdmitNew,
                      DP!AdmitNew, D!Idle, DP!Idle, DP!Next
  <2>4. D!Tick \/ D!Restart => DP!Next
    BY DEF D!Tick, DP!Tick, D!Restart, DP!Restart, D!Idle, DP!Idle, DP!Next
  <2>5. UNCHANGED D!vars => UNCHANGED DP!vars
    BY DEF D!vars, DP!vars
  <2> QED
    BY <2>1, <2>4, <2>5, <2>3 DEF D!Next
<1>4. DP!IInv => D!IInv
  BY DEF DP!IInv, D!IInv, DP!TypeOK, D!TypeOK, DP!InFlightChecked, D!InFlightChecked,
         DP!EntryOutlivesProof, D!EntryOutlivesProof, DP!UsesAreOfThePast, D!UsesAreOfThePast,
         DP!NoFreshReplay, D!NoFreshReplay, DP!Idle, D!Idle, DP!Fresh, D!Fresh
<1> QED
  BY <1>1, <1>2, <1>3, <1>4, EndpointUsesVerifier, PTL DEF D!Spec, DP!Spec

-----------------------------------------------------------------------------
(* The exchange                                                            *)

\* The forms of an exchange and of a token.
Exchanges ==
    {Waiting}
    \cup [pc : {"redeemed", "checked"}, code : Codes, client : Clients,
          redirect : Redirects, verifier : Verifiers, proof : Proofs \cup {NoProof}]
    \cup [pc : {"proved"}, code : Codes, client : Clients, redirect : Redirects,
          verifier : Verifiers, jkt : {NoKey} \cup {p.key : p \in Proofs}, use : Nat]

Tokens ==
    [code : Codes, client : Clients, redirect : Redirects, verifier : Verifiers,
     jkt : {NoKey} \cup {p.key : p \in Proofs}, use : Nat, dpop : BOOLEAN]

Uses == [jti : Jtis, iat : Int, at : Nat, inc : Nat]

\* f is an exchange or a token whose code was redeemed by the code's own client,
\* at its redirect and with its verifier.
Redeemed(m, tr, f) ==
    /\ f.code \in tr /\ f.code \in DOMAIN m
    /\ m[f.code].grant.client = f.client /\ m[f.code].grant.redirect = f.redirect
    /\ m[f.code].grant.challenge = f.verifier

\* f's key is that of a proof the replay cache admitted.
Backed(us, f) ==
    /\ f.use \in DOMAIN us
    /\ \E p \in Proofs : p.jti = us[f.use].jti /\ p.iat = us[f.use].iat /\ p.key = f.jkt

\* An exchange with its half of the verifier, given the store, the refused
\* codes, the tokens and the admissions.
ExchangeOK(w, pr, d, m, tr, fl, is, us) ==
    /\ w.pc # "idle" => /\ Redeemed(m, tr, w) /\ w.code \notin fl
                        /\ \A i \in DOMAIN is : is[i].code # w.code
    /\ pr.busy <=> w.pc = "checked"
    /\ w.pc = "checked" => d /\ pr.proof = w.proof
    /\ w.pc = "proved" /\ d => /\ Backed(us, w)
                               /\ \A i \in DOMAIN is : is[i].dpop => is[i].use # w.use

\* Two exchanges have neither a code nor an admission in common.
Apart(w, x, d) ==
    /\ w.pc # "idle" /\ x.pc # "idle" => w.code # x.code
    /\ w.pc = "proved" /\ x.pc = "proved" /\ d => w.use # x.use

TokenOK(k, m, tr, fl, us) ==
    Redeemed(m, tr, k) /\ k.code \notin fl /\ (k.dpop => Backed(us, k))

\* Nor do two tokens.
Distinct(k, l) == k.code # l.code /\ (k.dpop /\ l.dpop => k.use # l.use)

ExchangeInv ==
    /\ dpop \in BOOLEAN /\ work \in [Threads -> Exchanges] /\ issued \in Seq(Tokens)
    /\ failed \subseteq tried
    /\ \A t \in Threads :
          ExchangeOK(work[t], proving[t], dpop, minted, tried, failed, issued, uses)
    /\ \A t, u \in Threads : t # u => Apart(work[t], work[u], dpop)
    /\ \A i \in DOMAIN issued : TokenOK(issued[i], minted, tried, failed, uses)
    /\ \A i, j \in DOMAIN issued : i # j => Distinct(issued[i], issued[j])

\* What an exchange holds at each of its steps.
LEMMA Shapes ==
    ASSUME NEW w \in Exchanges
    PROVE  /\ w.pc = "idle" => w = Waiting
           /\ w.pc \in {"redeemed", "checked"} =>
                 w \in [pc : {"redeemed", "checked"}, code : Codes, client : Clients,
                        redirect : Redirects, verifier : Verifiers, proof : Proofs \cup {NoProof}]
           /\ w.pc = "proved" =>
                 w \in [pc : {"proved"}, code : Codes, client : Clients, redirect : Redirects,
                        verifier : Verifiers, jkt : {NoKey} \cup {p.key : p \in Proofs}, use : Nat]
BY DEF Exchanges, Waiting

\* The histories only grow.
Grown(m, n) == \A c \in DOMAIN m : c \in DOMAIN n /\ n[c] = m[c]

LEMMA GrownKeeps ==
    ASSUME NEW m, NEW n, Grown(m, n), NEW tr, NEW ts, tr \subseteq ts, NEW us, NEW vs, Grown(us, vs)
    PROVE  /\ \A f : Redeemed(m, tr, f) => Redeemed(n, ts, f)
           /\ \A f : Backed(us, f) => Backed(vs, f)
<1>1. ASSUME NEW f, Redeemed(m, tr, f) PROVE Redeemed(n, ts, f)
  BY <1>1 DEF Grown, Redeemed
<1>2. ASSUME NEW f, Backed(us, f) PROVE Backed(vs, f)
  BY <1>2 DEF Grown, Backed
<1> QED
  BY <1>1, <1>2

\* An exchange that does not move while the histories grow.
LEMMA ExchangeFrame ==
    ASSUME NEW w, NEW pr, NEW d, NEW m, NEW n, NEW tr, NEW ts, NEW fl, NEW gl, NEW is, NEW js,
           NEW us, NEW vs,
           ExchangeOK(w, pr, d, m, tr, fl, is, us),
           Grown(m, n), tr \subseteq ts, Grown(us, vs),
           w.pc # "idle" => w.code \notin gl,
           \A i \in DOMAIN js : \/ i \in DOMAIN is /\ js[i] = is[i]
                                \/ /\ w.pc # "idle" => js[i].code # w.code
                                   /\ w.pc = "proved" /\ d /\ js[i].dpop => js[i].use # w.use
    PROVE  ExchangeOK(w, pr, d, n, ts, gl, js, vs)
<1>1. \A f : Redeemed(m, tr, f) => Redeemed(n, ts, f)
  BY GrownKeeps
<1>2. \A f : Backed(us, f) => Backed(vs, f)
  BY GrownKeeps
<1> QED
  BY <1>1, <1>2 DEF ExchangeOK

\* A step of one exchange: the rest stays as it is, the histories grow.
LEMMA OneExchange ==
    ASSUME ExchangeInv, NEW t \in Threads, NEW w \in Exchanges, NEW pr,
           work' = [work EXCEPT ![t] = w], dpop' = dpop, issued' = issued,
           proving'[t] = pr, \A u \in Threads \ {t} : proving'[u] = proving[u],
           Grown(minted, minted'), tried \subseteq tried', Grown(uses, uses'),
           failed' \subseteq tried',
           ExchangeOK(w, pr, dpop, minted', tried', failed', issued, uses'),
           \A u \in Threads \ {t} : /\ Apart(w, work[u], dpop) /\ Apart(work[u], w, dpop)
                                    /\ work[u].pc # "idle" => work[u].code \notin failed',
           \A i \in DOMAIN issued : issued[i].code \notin failed'
    PROVE  ExchangeInv'
<1>1. work' \in [Threads -> Exchanges]
  BY DEF ExchangeInv
<1>2. work'[t] = w /\ \A u \in Threads \ {t} : work'[u] = work[u]
  BY DEF ExchangeInv
<1>3. ASSUME NEW u \in Threads \ {t}
      PROVE  ExchangeOK(work[u], proving[u], dpop, minted', tried', failed', issued, uses')
  <2>1. ExchangeOK(work[u], proving[u], dpop, minted, tried, failed, issued, uses)
    BY DEF ExchangeInv
  <2> QED
    BY <2>1, ExchangeFrame
<1>4. \A u \in Threads :
         ExchangeOK(work'[u], proving'[u], dpop', minted', tried', failed', issued', uses')
  BY <1>2, <1>3
<1>5. \A u, v \in Threads : u # v => Apart(work'[u], work'[v], dpop')
  BY <1>2 DEF ExchangeInv
<1>6. \A i \in DOMAIN issued : TokenOK(issued[i], minted', tried', failed', uses')
  BY GrownKeeps DEF ExchangeInv, TokenOK
<1> QED
  BY <1>1, <1>4, <1>5, <1>6 DEF ExchangeInv

\* What does not change has grown, and so has what was appended to.
LEMMA GrownCases ==
    /\ \A m : Grown(m, m)
    /\ \A S : \A s \in Seq(S), e \in S : Grown(s, Append(s, e))
<1>1. ASSUME NEW S, NEW s \in Seq(S), NEW e \in S PROVE Grown(s, Append(s, e))
  <2>1. ASSUME NEW i \in DOMAIN s PROVE i \in DOMAIN Append(s, e) /\ Append(s, e)[i] = s[i]
    OBVIOUS
  <2> QED
    BY <2>1 DEF Grown
<1> QED
  BY <1>1 DEF Grown

\* A verification is under way or it is not.
LEMMA VerifierBusy ==
    ASSUME D!IInv, NEW t \in Threads
    PROVE  /\ proving[t].busy \in BOOLEAN
           /\ proving[t].busy => proving[t].proof \in Proofs /\ proving[t].proof.jti \in Jtis
<1>1. proving[t] \in {D!Idle} \cup [busy : {TRUE}, proof : Proofs, now : Nat]
  BY DEF D!IInv, D!TypeOK
<1>2. CASE proving[t] = D!Idle
  <2>1. D!Idle.busy = FALSE
    BY DEF D!Idle
  <2> QED
    BY <1>2, <2>1
<1>3. CASE proving[t] \in [busy : {TRUE}, proof : Proofs, now : Nat]
  <2>1. proving[t].busy = TRUE /\ proving[t].proof \in Proofs
    BY <1>3
  <2> QED
    BY <2>1 DEF D!IInv, D!InFlightChecked
<1> QED
  BY <1>1, <1>2, <1>3

\* A refusal ends the exchange; its code is nobody else's.
LEMMA RefuseKeeps ==
    ASSUME ExchangeInv, NEW t \in Threads, NEW c \in tried', Refuse(t, c),
           dpop' = dpop, issued' = issued,
           proving'[t].busy = FALSE, \A u \in Threads \ {t} : proving'[u] = proving[u],
           Grown(minted, minted'), tried \subseteq tried', Grown(uses, uses'),
           \A u \in Threads \ {t} : work[u].pc # "idle" => work[u].code # c,
           \A i \in DOMAIN issued : issued[i].code # c
    PROVE  ExchangeInv'
<1>1. work' = [work EXCEPT ![t] = Waiting] /\ failed' = failed \cup {c}
  BY DEF Refuse
<1>2. Waiting \in Exchanges /\ Waiting.pc = "idle"
  BY DEF Exchanges, Waiting
<1>3. failed' \subseteq tried'
  BY <1>1 DEF ExchangeInv
<1>4. ExchangeOK(Waiting, proving'[t], dpop, minted', tried', failed', issued, uses')
  BY <1>2 DEF ExchangeOK
<1>5. \A u \in Threads \ {t} : /\ Apart(Waiting, work[u], dpop) /\ Apart(work[u], Waiting, dpop)
                               /\ work[u].pc # "idle" => work[u].code \notin failed'
  BY <1>1, <1>2 DEF ExchangeInv, ExchangeOK, Apart
<1>6. \A i \in DOMAIN issued : issued[i].code \notin failed'
  BY <1>1 DEF ExchangeInv, TokenOK
<1> QED
  BY <1>1, <1>2, <1>3, <1>4, <1>5, <1>6, OneExchange

\* The refusal of an exchange that has redeemed its code.
LEMMA RefuseOwn ==
    ASSUME ExchangeInv, NEW t \in Threads, work[t].pc # "idle", Refuse(t, work[t].code),
           UNCHANGED <<dpop, issued, minted, tried, uses>>,
           proving'[t].busy = FALSE, \A u \in Threads \ {t} : proving'[u] = proving[u]
    PROVE  ExchangeInv'
<1> DEFINE c == work[t].code
<1>1. c \in tried'
  BY DEF ExchangeInv, ExchangeOK, Redeemed
<1>2. \A u \in Threads \ {t} : work[u].pc # "idle" => work[u].code # c
  BY DEF ExchangeInv, Apart
<1>3. \A i \in DOMAIN issued : issued[i].code # c
  BY DEF ExchangeInv, ExchangeOK
<1>4. Grown(minted, minted') /\ Grown(uses, uses') /\ tried \subseteq tried'
  BY GrownCases
<1>5. Refuse(t, c) /\ dpop' = dpop /\ issued' = issued
  OBVIOUS
<1> HIDE DEF c
<1> QED
  BY <1>1, <1>2, <1>3, <1>4, <1>5, RefuseKeeps

\* Codes.Redeem, and VerifyPKCE on its grant.
LEMMA RedeemCodeKeeps ==
    ASSUME IInv, D!IInv, ExchangeInv, NEW t \in Threads, NEW c \in Codes, NEW client \in Clients,
           NEW redirect \in Redirects, NEW v \in Verifiers, NEW p \in Proofs \cup {NoProof},
           RedeemCode(t, c, client, redirect, v, p)
    PROVE  ExchangeInv'
<1> DEFINE w == [pc |-> "redeemed", code |-> c, client |-> client,
                 redirect |-> redirect, verifier |-> v, proof |-> p]
<1>1. /\ c \in DOMAIN codes /\ tried' = tried \cup {c} /\ work[t].pc = "idle"
      /\ UNCHANGED <<minted, inc, items, proving, uses, dpop, issued>>
  BY DEF RedeemCode, Redeem, verifier
<1>2. c \notin tried /\ c \in DOMAIN minted /\ codes[c].grant = minted[c].grant
  BY <1>1 DEF IInv, OneAttempt, TypeOK, EntriesMatch
<1>3. \A u \in Threads : work[u].pc # "idle" => work[u].code # c
  BY <1>2 DEF ExchangeInv, ExchangeOK, Redeemed
<1>4. \A i \in DOMAIN issued : issued[i].code # c
  BY <1>2 DEF ExchangeInv, TokenOK, Redeemed
<1>5. Grown(minted, minted') /\ Grown(uses, uses') /\ tried \subseteq tried' /\ c \in tried'
  BY <1>1, GrownCases
<1>6. proving'[t].busy = FALSE
  <2>1. ~proving[t].busy
    BY <1>1 DEF ExchangeInv, ExchangeOK
  <2>2. proving[t].busy \in BOOLEAN
    BY VerifierBusy
  <2> QED
    BY <1>1, <2>1, <2>2
<1>7. CASE out' # out /\ VerifyPKCE(v, codes[c].grant.challenge)
  <2>1. work' = [work EXCEPT ![t] = w] /\ UNCHANGED failed
    BY <1>7 DEF RedeemCode
  <2>2. codes[c].grant.client = client /\ codes[c].grant.redirect = redirect
    BY <1>7 DEF RedeemCode, Redeem, Redeemable
  <2>3. v = codes[c].grant.challenge
    BY <1>7 DEF VerifyPKCE
  <2>4. w \in Exchanges /\ w.pc = "redeemed" /\ w.code = c /\ w.client = client
        /\ w.redirect = redirect /\ w.verifier = v
    BY DEF Exchanges
  <2> HIDE DEF w
  <2>5. Redeemed(minted', tried', w)
    BY <1>1, <1>2, <2>2, <2>3, <2>4 DEF Redeemed
  <2>6. ExchangeOK(w, proving'[t], dpop, minted', tried', failed', issued, uses')
    BY <1>2, <1>4, <1>6, <2>1, <2>4, <2>5 DEF ExchangeOK, ExchangeInv
  <2>7. \A u \in Threads \ {t} : /\ Apart(w, work[u], dpop) /\ Apart(work[u], w, dpop)
                                 /\ work[u].pc # "idle" => work[u].code \notin failed'
    BY <1>3, <2>1, <2>4 DEF Apart, ExchangeInv, ExchangeOK
  <2>8. \A i \in DOMAIN issued : issued[i].code \notin failed'
    BY <2>1 DEF ExchangeInv, TokenOK
  <2>9. failed' \subseteq tried' /\ dpop' = dpop /\ issued' = issued /\ proving' = proving
    BY <1>1, <2>1 DEF ExchangeInv
  <2> QED
    BY <1>5, <2>1, <2>4, <2>6, <2>7, <2>8, <2>9, OneExchange
<1>8. CASE ~(out' # out /\ VerifyPKCE(v, codes[c].grant.challenge))
  <2>1. Refuse(t, c)
    BY <1>8 DEF RedeemCode
  <2> QED
    BY <1>1, <1>3, <1>4, <1>5, <1>6, <2>1, RefuseKeeps
<1> QED
  BY <1>7, <1>8

\* Without a verifier no proof is asked for.
LEMMA SkipProofKeeps ==
    ASSUME ExchangeInv, NEW t \in Threads, SkipProof(t)
    PROVE  ExchangeInv'
<1> DEFINE f == work[t]
           w == Proved(f, NoKey, 0)
<1>1. /\ f.pc = "redeemed" /\ ~dpop /\ work' = [work EXCEPT ![t] = w]
      /\ UNCHANGED <<minted, tried, proving, uses, dpop, failed, issued>>
  BY DEF SkipProof, store, verifier
<1>2. f \in [pc : {"redeemed", "checked"}, code : Codes, client : Clients,
             redirect : Redirects, verifier : Verifiers, proof : Proofs \cup {NoProof}]
  BY <1>1, Shapes DEF ExchangeInv
<1>3. /\ w.pc = "proved" /\ w.code = f.code /\ w.client = f.client /\ w.redirect = f.redirect
      /\ w.verifier = f.verifier /\ w \in Exchanges
  BY <1>2 DEF Proved, Exchanges
<1>4. ExchangeOK(f, proving[t], dpop, minted, tried, failed, issued, uses)
  BY DEF ExchangeInv
<1>5. \A u \in Threads \ {t} : /\ Apart(f, work[u], dpop) /\ Apart(work[u], f, dpop)
                               /\ work[u].pc # "idle" => work[u].code \notin failed
  BY DEF ExchangeInv, ExchangeOK
<1> HIDE DEF w, f
<1>6. ExchangeOK(w, proving[t], dpop, minted, tried, failed, issued, uses)
  BY <1>1, <1>3, <1>4 DEF ExchangeOK, Redeemed
<1>7. \A u \in Threads \ {t} : Apart(w, work[u], dpop) /\ Apart(work[u], w, dpop)
  BY <1>1, <1>3, <1>5 DEF Apart
<1>8. Grown(minted, minted') /\ Grown(uses, uses') /\ tried \subseteq tried'
  BY <1>1, GrownCases
<1>9. failed \subseteq tried /\ \A i \in DOMAIN issued : issued[i].code \notin failed
  BY DEF ExchangeInv, TokenOK
<1> QED
  BY <1>1, <1>3, <1>5, <1>6, <1>7, <1>8, <1>9, OneExchange

\* The proof passed the verifier's checks.
LEMMA ProofCheckedKeeps ==
    ASSUME D!IInv, ExchangeInv, NEW t \in Threads, ProofChecked(t)
    PROVE  ExchangeInv'
<1> DEFINE f == work[t]
           w == [work[t] EXCEPT !.pc = "checked"]
<1>1. /\ f.pc = "redeemed" /\ dpop /\ work' = [work EXCEPT ![t].pc = "checked"]
      /\ proving'[t].proof = f.proof
      /\ UNCHANGED <<minted, tried, uses, dpop, failed, issued>>
  BY DEF ProofChecked, store, D!Check
<1>2. f \in [pc : {"redeemed", "checked"}, code : Codes, client : Clients,
             redirect : Redirects, verifier : Verifiers, proof : Proofs \cup {NoProof}]
  BY <1>1, Shapes DEF ExchangeInv
<1>3. /\ w.pc = "checked" /\ w.code = f.code /\ w.client = f.client /\ w.redirect = f.redirect
      /\ w.verifier = f.verifier /\ w.proof = f.proof /\ w \in Exchanges
  BY <1>2 DEF Exchanges
<1>4. work' = [work EXCEPT ![t] = w]
  BY <1>1 DEF ExchangeInv
<1>5. proving'[t].busy /\ \A u \in Threads \ {t} : proving'[u] = proving[u]
  <2>1. PICK q : proving' = [proving EXCEPT ![t] = D!Checked(q, clock)]
    BY DEF ProofChecked, D!Check
  <2>2. DOMAIN proving = Threads
    BY DEF D!IInv, D!TypeOK
  <2>3. D!Checked(q, clock).busy
    BY DEF D!Checked
  <2> QED
    BY <2>1, <2>2, <2>3
<1>6. ExchangeOK(f, proving[t], dpop, minted, tried, failed, issued, uses)
  BY DEF ExchangeInv
<1>7. \A u \in Threads \ {t} : /\ Apart(f, work[u], dpop) /\ Apart(work[u], f, dpop)
                               /\ work[u].pc # "idle" => work[u].code \notin failed
  BY DEF ExchangeInv, ExchangeOK
<1> HIDE DEF w, f
<1>8. ExchangeOK(w, proving'[t], dpop, minted, tried, failed, issued, uses)
  BY <1>1, <1>3, <1>5, <1>6 DEF ExchangeOK, Redeemed
<1>9. \A u \in Threads \ {t} : Apart(w, work[u], dpop) /\ Apart(work[u], w, dpop)
  BY <1>1, <1>3, <1>7 DEF Apart
<1>10. Grown(minted, minted') /\ Grown(uses, uses') /\ tried \subseteq tried'
  BY <1>1, GrownCases
<1>11. failed \subseteq tried /\ \A i \in DOMAIN issued : issued[i].code \notin failed
  BY DEF ExchangeInv, TokenOK
<1>12. dpop' = dpop /\ issued' = issued /\ failed' = failed /\ minted' = minted /\ tried' = tried
       /\ uses' = uses
  BY <1>1
<1> QED
  BY <1>3, <1>4, <1>5, <1>7, <1>8, <1>9, <1>10, <1>11, <1>12, OneExchange

\* The replay cache admits the proof.
LEMMA ProofAdmittedKeeps ==
    ASSUME D!IInv, ExchangeInv, NEW t \in Threads, ProofAdmitted(t)
    PROVE  ExchangeInv'
<1> DEFINE f == work[t]
           q == proving[t].proof
           e == [jti |-> q.jti, iat |-> q.iat, at |-> clock, inc |-> inc]
           n == Len(uses) + 1
           w == Proved(f, f.proof.key, n)
<1>1. /\ f.pc = "checked" /\ work' = [work EXCEPT ![t] = Proved(@, @.proof.key, Len(uses'))]
      /\ uses' = Append(uses, e) /\ proving[t].busy
      /\ proving' = [proving EXCEPT ![t] = D!Idle]
      /\ UNCHANGED <<minted, tried, dpop, failed, issued>>
  BY DEF ProofAdmitted, store, D!AdmitNew
<1>2. f \in [pc : {"redeemed", "checked"}, code : Codes, client : Clients,
             redirect : Redirects, verifier : Verifiers, proof : Proofs \cup {NoProof}]
  BY <1>1, Shapes DEF ExchangeInv
<1>3. ExchangeOK(f, proving[t], dpop, minted, tried, failed, issued, uses)
  BY DEF ExchangeInv
<1>4. q \in Proofs /\ q.jti \in Jtis /\ q.iat \in Int /\ q = f.proof /\ dpop
  BY <1>1, <1>3, VerifierBusy, EndpointConstants DEF ExchangeOK
<1>5. uses \in Seq(Uses) /\ e \in Uses /\ e.jti = q.jti /\ e.iat = q.iat
  BY <1>4 DEF D!IInv, D!TypeOK, Uses
<1>6. /\ n \in Nat /\ n \notin DOMAIN uses /\ n \in DOMAIN uses'
      /\ uses'[n] = e /\ Len(uses') = n /\ Grown(uses, uses')
  <2> HIDE DEF e
  <2>1. Len(uses) \in Nat /\ DOMAIN uses = 1 .. Len(uses)
    BY <1>5
  <2>2. DOMAIN uses' = 1 .. n /\ Len(uses') = n /\ uses'[n] = e
    BY <1>1, <1>5
  <2>3. Grown(uses, uses')
    BY <1>1, <1>5, GrownCases
  <2> QED
    BY <2>1, <2>2, <2>3
<1>7. /\ w.pc = "proved" /\ w.code = f.code /\ w.client = f.client /\ w.redirect = f.redirect
      /\ w.verifier = f.verifier /\ w.jkt = q.key /\ w.use = n /\ w \in Exchanges
  BY <1>2, <1>4, <1>6 DEF Proved, Exchanges
<1>8. work' = [work EXCEPT ![t] = w]
  BY <1>1, <1>6 DEF ExchangeInv
<1>9. proving'[t].busy = FALSE /\ \A u \in Threads \ {t} : proving'[u] = proving[u]
  <2>1. DOMAIN proving = Threads /\ D!Idle.busy = FALSE
    BY DEF D!IInv, D!TypeOK, D!Idle
  <2> QED
    BY <1>1, <2>1
<1>10. \A u \in Threads \ {t} : /\ Apart(f, work[u], dpop) /\ Apart(work[u], f, dpop)
                                /\ work[u].pc # "idle" => work[u].code \notin failed
                                /\ work[u].pc = "proved" => work[u].use \in DOMAIN uses
  BY <1>4 DEF ExchangeInv, ExchangeOK, Backed
<1>11. \A i \in DOMAIN issued : issued[i].dpop => issued[i].use \in DOMAIN uses
  BY DEF ExchangeInv, TokenOK, Backed
<1> HIDE DEF w, f, e, n, q
<1>12. Backed(uses', w)
  BY <1>4, <1>5, <1>6, <1>7 DEF Backed
<1>13. ExchangeOK(w, proving'[t], dpop, minted, tried, failed, issued, uses')
  BY <1>1, <1>3, <1>6, <1>7, <1>9, <1>11, <1>12 DEF ExchangeOK, Redeemed
<1>14. \A u \in Threads \ {t} : Apart(w, work[u], dpop) /\ Apart(work[u], w, dpop)
  BY <1>1, <1>6, <1>7, <1>10 DEF Apart
<1>15. Grown(minted, minted') /\ tried \subseteq tried'
  BY <1>1, GrownCases
<1>16. failed \subseteq tried /\ \A i \in DOMAIN issued : issued[i].code \notin failed
  BY DEF ExchangeInv, TokenOK
<1> QED
  BY <1>1, <1>6, <1>7, <1>8, <1>9, <1>10, <1>13, <1>14, <1>15, <1>16, OneExchange

\* The exchange ends without a token.
LEMMA FailureKeeps ==
    ASSUME D!IInv, ExchangeInv, NEW t \in Threads,
           ProofRefused(t) \/ ProofReplayed(t) \/ SignFailed(t)
    PROVE  ExchangeInv'
<1>1. /\ work[t].pc \in {"redeemed", "checked", "proved"} /\ Refuse(t, work[t].code)
      /\ UNCHANGED <<dpop, issued, minted, tried, uses>>
  BY DEF ProofRefused, ProofReplayed, SignFailed, store, verifier, D!AdmitSeen, D!AdmitFull
<1>2. proving'[t].busy = FALSE /\ \A u \in Threads \ {t} : proving'[u] = proving[u]
  <2>1. CASE ProofReplayed(t)
    <3>1. proving' = [proving EXCEPT ![t] = D!Idle]
      BY <2>1 DEF ProofReplayed, D!AdmitSeen, D!AdmitFull
    <3>2. DOMAIN proving = Threads /\ D!Idle.busy = FALSE
      BY DEF D!IInv, D!TypeOK, D!Idle
    <3> QED
      BY <3>1, <3>2
  <2>2. CASE ProofRefused(t) \/ SignFailed(t)
    <3>1. UNCHANGED proving /\ work[t].pc # "checked"
      BY <2>2 DEF ProofRefused, SignFailed, verifier
    <3>2. ~proving[t].busy
      BY <3>1 DEF ExchangeInv, ExchangeOK
    <3>3. proving[t].busy \in BOOLEAN
      BY VerifierBusy
    <3> QED
      BY <3>1, <3>2, <3>3
  <2> QED
    BY <2>1, <2>2
<1> QED
  BY <1>1, <1>2, RefuseOwn
\* Signer.Issue: the exchange ends in a token, which takes its code and its
\* admission with it.
LEMMA SignTokenKeeps ==
    ASSUME D!IInv, ExchangeInv, NEW t \in Threads, SignToken(t)
    PROVE  ExchangeInv'
<1> DEFINE f == work[t]
           k == [code |-> f.code, client |-> f.client, redirect |-> f.redirect,
                 verifier |-> f.verifier, jkt |-> f.jkt, use |-> f.use, dpop |-> dpop]
<1>1. /\ f.pc = "proved" /\ issued' = Append(issued, k)
      /\ work' = [work EXCEPT ![t] = Waiting]
      /\ UNCHANGED <<minted, tried, proving, uses, dpop, failed>>
  BY DEF SignToken, store, verifier
<1>2. f \in [pc : {"proved"}, code : Codes, client : Clients, redirect : Redirects,
             verifier : Verifiers, jkt : {NoKey} \cup {p.key : p \in Proofs}, use : Nat]
  BY <1>1, Shapes DEF ExchangeInv
<1>3. /\ k \in Tokens /\ k.code = f.code /\ k.client = f.client /\ k.redirect = f.redirect
      /\ k.verifier = f.verifier /\ k.jkt = f.jkt /\ k.use = f.use /\ k.dpop = dpop
  BY <1>2 DEF Tokens, ExchangeInv
<1>4. ExchangeOK(f, proving[t], dpop, minted, tried, failed, issued, uses)
  BY DEF ExchangeInv
<1>5. \A u \in Threads \ {t} : Apart(f, work[u], dpop)
  BY DEF ExchangeInv
<1>6. ~proving[t].busy
  BY <1>1, <1>4 DEF ExchangeOK
<1> HIDE DEF k, f
<1>7. issued \in Seq(Tokens) /\ issued' \in Seq(Tokens)
  BY <1>1, <1>3 DEF ExchangeInv
<1>8. \A i \in DOMAIN issued' : \/ i \in DOMAIN issued /\ issued'[i] = issued[i]
                                \/ i = Len(issued) + 1 /\ issued'[i] = k
  BY <1>1, <1>3, <1>7, IndexOfAppend
<1>9. /\ Waiting \in Exchanges /\ Waiting.pc = "idle"
      /\ work' \in [Threads -> Exchanges]
      /\ work'[t] = Waiting /\ \A u \in Threads \ {t} : work'[u] = work[u]
  <2>1. Waiting \in Exchanges /\ Waiting.pc = "idle"
    BY DEF Exchanges, Waiting
  <2> QED
    BY <1>1, <2>1 DEF ExchangeInv
<1>10. TokenOK(k, minted, tried, failed, uses)
  BY <1>1, <1>3, <1>4 DEF TokenOK, ExchangeOK, Redeemed, Backed
<1>11. \A i \in DOMAIN issued : Distinct(issued[i], k) /\ Distinct(k, issued[i])
  BY <1>1, <1>3, <1>4 DEF ExchangeOK, Distinct
<1>12. ASSUME NEW u \in Threads \ {t}
       PROVE  ExchangeOK(work[u], proving[u], dpop, minted, tried, failed, issued', uses)
  <2>1. ExchangeOK(work[u], proving[u], dpop, minted, tried, failed, issued, uses)
    BY DEF ExchangeInv
  <2>2. /\ work[u].pc # "idle" => k.code # work[u].code
        /\ work[u].pc = "proved" /\ dpop => k.use # work[u].use
    BY <1>1, <1>3, <1>5 DEF Apart
  <2>3. \A i \in DOMAIN issued' :
           \/ i \in DOMAIN issued /\ issued'[i] = issued[i]
           \/ /\ work[u].pc # "idle" => issued'[i].code # work[u].code
              /\ work[u].pc = "proved" /\ dpop /\ issued'[i].dpop => issued'[i].use # work[u].use
    BY <1>8, <2>2
  <2>4. work[u].pc # "idle" => work[u].code \notin failed
    BY <2>1 DEF ExchangeOK
  <2>5. Grown(minted, minted) /\ Grown(uses, uses) /\ tried \subseteq tried
    BY GrownCases
  <2> QED
    BY <2>1, <2>3, <2>4, <2>5, ExchangeFrame
<1>13. \A u \in Threads :
          ExchangeOK(work'[u], proving[u], dpop, minted, tried, failed, issued', uses)
  <2>1. ExchangeOK(Waiting, proving[t], dpop, minted, tried, failed, issued', uses)
    BY <1>6, <1>9 DEF ExchangeOK
  <2> QED
    BY <1>9, <1>12, <2>1
<1>14. \A u, v \in Threads : u # v => Apart(work'[u], work'[v], dpop)
  <2> TAKE u, v \in Threads
  <2>1. CASE u = t \/ v = t
    BY <1>9, <2>1 DEF Apart
  <2>2. CASE u # t /\ v # t
    BY <1>9, <2>2 DEF ExchangeInv
  <2> QED
    BY <2>1, <2>2
<1>15. \A i \in DOMAIN issued' : TokenOK(issued'[i], minted, tried, failed, uses)
  BY <1>8, <1>10 DEF ExchangeInv
<1>16. \A i, j \in DOMAIN issued' : i # j => Distinct(issued'[i], issued'[j])
  BY <1>8, <1>11 DEF ExchangeInv
<1> QED
  BY <1>1, <1>7, <1>9, <1>13, <1>14, <1>15, <1>16 DEF ExchangeInv

\* A step that leaves the exchanges alone while codes are issued or time passes.
LEMMA RestKeeps ==
    ASSUME ExchangeInv, UNCHANGED <<dpop, work, failed, issued, proving, tried, uses>>,
           Grown(minted, minted')
    PROVE  ExchangeInv'
<1>1. Grown(uses, uses) /\ tried \subseteq tried
  BY GrownCases
<1>2. ASSUME NEW u \in Threads
      PROVE  ExchangeOK(work[u], proving[u], dpop, minted', tried, failed, issued, uses)
  <2>1. ExchangeOK(work[u], proving[u], dpop, minted, tried, failed, issued, uses)
    BY DEF ExchangeInv
  <2>2. work[u].pc # "idle" => work[u].code \notin failed
    BY <2>1 DEF ExchangeOK
  <2> QED
    BY <1>1, <2>1, <2>2, ExchangeFrame
<1>3. \A i \in DOMAIN issued : TokenOK(issued[i], minted', tried, failed, uses)
  BY <1>1, GrownKeeps DEF ExchangeInv, TokenOK
<1> QED
  BY <1>2, <1>3 DEF ExchangeInv

\* The exchanges die with the process; the tokens they signed do not.
LEMMA RebootKeeps ==
    ASSUME ExchangeInv, Reboot
    PROVE  ExchangeInv'
<1>1. /\ dpop' \in BOOLEAN /\ work' = [t \in Threads |-> Waiting]
      /\ proving' = [t \in Threads |-> D!Idle]
      /\ UNCHANGED <<failed, issued, minted, tried, uses>>
  BY DEF Reboot, Restart, D!Restart
<1>2. Waiting \in Exchanges /\ Waiting.pc = "idle" /\ D!Idle.busy = FALSE
  BY DEF Exchanges, Waiting, D!Idle
<1>3. \A t \in Threads : work'[t] = Waiting /\ proving'[t] = D!Idle
  BY <1>1
<1>4. \A t \in Threads :
         ExchangeOK(work'[t], proving'[t], dpop', minted, tried, failed, issued, uses)
  BY <1>2, <1>3 DEF ExchangeOK
<1>5. \A t, u \in Threads : Apart(work'[t], work'[u], dpop')
  BY <1>2, <1>3 DEF Apart
<1>6. work' \in [Threads -> Exchanges]
  BY <1>1, <1>2
<1> QED
  BY <1>1, <1>4, <1>5, <1>6 DEF ExchangeInv

\* Before the first request there is nothing to keep apart.
LEMMA ExchangeStarts == EndpointInit => ExchangeInv
<1> SUFFICES ASSUME EndpointInit PROVE ExchangeInv
  OBVIOUS
<1>1. /\ dpop \in BOOLEAN /\ work = [t \in Threads |-> Waiting] /\ failed = {} /\ issued = << >>
      /\ proving = [t \in Threads |-> D!Idle]
  BY DEF EndpointInit, D!Init
<1>2. Waiting \in Exchanges /\ Waiting.pc = "idle" /\ D!Idle.busy = FALSE
  BY DEF Exchanges, Waiting, D!Idle
<1>3. \A t \in Threads : work[t] = Waiting /\ proving[t] = D!Idle
  BY <1>1
<1>4. \A t \in Threads :
         ExchangeOK(work[t], proving[t], dpop, minted, tried, failed, issued, uses)
  BY <1>2, <1>3 DEF ExchangeOK
<1>5. \A t, u \in Threads : Apart(work[t], work[u], dpop)
  BY <1>2, <1>3 DEF Apart
<1>6. work \in [Threads -> Exchanges] /\ issued \in Seq(Tokens) /\ DOMAIN issued = {}
  BY <1>1, <1>2
<1> QED
  BY <1>1, <1>4, <1>5, <1>6 DEF ExchangeInv

\* Each step of the endpoint keeps the exchanges apart.
LEMMA ExchangeStep == IInv /\ D!IInv /\ ExchangeInv /\ [EndpointNext]_all => ExchangeInv'
<1> SUFFICES ASSUME IInv, D!IInv, ExchangeInv, [EndpointNext]_all PROVE ExchangeInv'
  OBVIOUS
<1>1. ASSUME NEW c \in Codes, NEW g \in Grants, LoginIssues(c, g) PROVE ExchangeInv'
  <2>1. /\ c \notin DOMAIN minted /\ minted' = Put(minted, c, [grant |-> g, at |-> clock])
        /\ UNCHANGED <<dpop, work, failed, issued, proving, tried, uses>>
    BY <1>1 DEF LoginIssues, Issue, verifier, endpoint
  <2>2. Grown(minted, minted')
    BY <2>1 DEF Grown, Put
  <2> QED
    BY <2>1, <2>2, RestKeeps
<1>2. ASSUME NEW t \in Threads, NEW c \in Codes, NEW client \in Clients, NEW redirect \in Redirects,
             NEW v \in Verifiers, NEW p \in Proofs \cup {NoProof},
             RedeemCode(t, c, client, redirect, v, p)
      PROVE  ExchangeInv'
  BY <1>2, RedeemCodeKeeps
<1>3. ASSUME NEW t \in Threads,
             SkipProof(t) \/ ProofChecked(t) \/ ProofAdmitted(t) \/ SignToken(t)
      PROVE  ExchangeInv'
  BY <1>3, SkipProofKeeps, ProofCheckedKeeps, ProofAdmittedKeeps, SignTokenKeeps
<1>4. ASSUME NEW t \in Threads, ProofRefused(t) \/ ProofReplayed(t) \/ SignFailed(t)
      PROVE  ExchangeInv'
  BY <1>4, FailureKeeps
<1>5. CASE Time
  BY <1>5, GrownCases, RestKeeps DEF Time, Tick, verifier, endpoint
<1>6. CASE Reboot
  BY <1>6, RebootKeeps
<1>7. CASE UNCHANGED all
  BY <1>7, GrownCases, RestKeeps DEF all, store, verifier, endpoint
<1>8. ASSUME NEW t \in Threads, NEW c \in Codes, CodeUnknown(t, c) PROVE ExchangeInv'
  BY <1>8, GrownCases, RestKeeps DEF CodeUnknown, RedeemUnknown, vars, verifier
<1> QED
  BY <1>1, <1>2, <1>3, <1>4, <1>5, <1>6, <1>7, <1>8 DEF EndpointNext

\* The codes refused as unknown were issued once and are in the store no more.
GoneInv == unknown \subseteq DOMAIN minted \ DOMAIN codes

\* No step of the store puts an issued code back.
LEMMA GoneStays ==
    ASSUME [Next]_vars
    PROVE  DOMAIN minted \ DOMAIN codes \subseteq DOMAIN minted' \ DOMAIN codes'
<1>1. ASSUME NEW c \in Codes, NEW g \in Grants, Issue(c, g)
      PROVE  /\ c \notin DOMAIN minted /\ DOMAIN minted' = DOMAIN minted \cup {c}
             /\ DOMAIN codes' \subseteq DOMAIN codes \cup {c}
  BY <1>1, EvictIsPart DEF Issue, Put
<1>2. ASSUME NEW c \in Codes, NEW client \in Clients, NEW redirect \in Redirects,
             Redeem(c, client, redirect)
      PROVE  DOMAIN codes' \subseteq DOMAIN codes /\ minted' = minted
  BY <1>2, DeleteIsPart DEF Redeem
<1>3. Tick \/ Restart \/ (\E c \in Codes : RedeemUnknown(c)) \/ UNCHANGED vars
      => DOMAIN codes' \subseteq DOMAIN codes /\ minted' = minted
  BY DEF Tick, Restart, RedeemUnknown, vars
<1> QED
  BY <1>1, <1>2, <1>3 DEF Next

\* A code enters unknown in the step that finds it issued and gone.
LEMMA GoneStep == GoneInv /\ [EndpointNext]_all => GoneInv'
<1> SUFFICES ASSUME GoneInv, [EndpointNext]_all PROVE GoneInv'
  OBVIOUS
<1>1. DOMAIN minted \ DOMAIN codes \subseteq DOMAIN minted' \ DOMAIN codes'
  BY StoreSteps, GoneStays
<1>2. ASSUME NEW t \in Threads, NEW c \in Codes, CodeUnknown(t, c)
      PROVE  unknown' \subseteq unknown \cup (DOMAIN minted \ DOMAIN codes)
  BY <1>2 DEF CodeUnknown, RedeemUnknown
<1>3. ASSUME NEW t \in Threads, NEW c, NEW client, NEW redirect, NEW v, NEW p,
             RedeemCode(t, c, client, redirect, v, p)
      PROVE  unknown' = unknown
  BY <1>3 DEF RedeemCode
<1>4. ASSUME NEW t \in Threads,
             \/ SkipProof(t) \/ ProofRefused(t) \/ ProofChecked(t) \/ ProofAdmitted(t)
             \/ ProofReplayed(t) \/ SignToken(t) \/ SignFailed(t)
      PROVE  unknown' = unknown
  BY <1>4 DEF SkipProof, ProofRefused, ProofChecked, ProofAdmitted, ProofReplayed, SignToken,
              SignFailed
<1>5. (\E c \in Codes, g \in Grants : LoginIssues(c, g)) \/ Time \/ Reboot \/ UNCHANGED all
      => unknown' = unknown
  BY DEF LoginIssues, Time, Reboot, all, endpoint
<1>6. unknown' \subseteq unknown \cup (DOMAIN minted \ DOMAIN codes)
  BY <1>2, <1>3, <1>4, <1>5 DEF EndpointNext
<1> QED
  BY <1>1, <1>6 DEF GoneInv

\* The store's invariant, the verifier's and the exchanges' together.
LEMMA EndpointInvariance == EndpointSpec => [](IInv /\ D!IInv /\ ExchangeInv /\ GoneInv)
<1>1. EndpointSpec => []IInv
  BY EndpointUsesStore, Invariance, PTL
<1>2. EndpointInit => GoneInv
  BY DEF EndpointInit, GoneInv
<1> QED
  BY <1>1, <1>2, VerifierInvariant, ExchangeStarts, ExchangeStep, GoneStep, PTL DEF EndpointSpec

-----------------------------------------------------------------------------
(* What the endpoint promises                                              *)

\* An exchange is idle, past its code, inside the verifier or past its proof,
\* and the verifier works for it exactly in between (token.go:47-120).
THEOREM EndpointTypeCorrect == EndpointSpec => []EndpointTypeOK
<1>1. IInv /\ D!IInv /\ ExchangeInv /\ GoneInv => EndpointTypeOK
  <2> SUFFICES ASSUME IInv, D!IInv, ExchangeInv, GoneInv PROVE EndpointTypeOK
    OBVIOUS
  <2>1. TypeOK /\ failed \subseteq Codes /\ unknown \subseteq Codes
    BY DEF IInv, TypeOK, ExchangeInv, GoneInv
  <2>2. \A t \in Threads : proving[t].busy <=> work[t].pc = "checked"
    BY DEF ExchangeInv, ExchangeOK
  <2>3. dpop \in BOOLEAN /\ work \in [Threads -> Exchanges]
    BY DEF ExchangeInv
  <2> QED
    BY <2>1, <2>2, <2>3 DEF EndpointTypeOK, Exchanges
<1> QED
  BY <1>1, EndpointInvariance, PTL

\* Every token went to the code's own client, at its redirect and with its
\* verifier, holding the key of a proof the replay cache admitted.
THEOREM TokensProveClients == EndpointSpec => []TokenProvesClient
<1>1. ExchangeInv => TokenProvesClient
  BY DEF ExchangeInv, TokenOK, Redeemed, Backed, TokenProvesClient
<1> QED
  BY <1>1, EndpointInvariance, PTL

\* Once the exchange that consumed a code is refused, wherever it is in it, the
\* code is good for no token to anybody; a code found gone stays gone.
THEOREM RefusedCodesYieldNothing == EndpointSpec => []RefusedCodeYieldsNothing
<1>1. ExchangeInv /\ GoneInv => RefusedCodeYieldsNothing
  BY DEF ExchangeInv, TokenOK, GoneInv, RefusedCodeYieldsNothing
<1> QED
  BY <1>1, EndpointInvariance, PTL

\* Two tokens share neither a code nor an admission of a proof, and an admission
\* of the same jti by the same process came after the earlier proof was stale.
THEOREM TokensAreApart == EndpointSpec => []OneTokenPerCodeAndProof
<1>1. D!IInv /\ ExchangeInv => OneTokenPerCodeAndProof
  <2> SUFFICES ASSUME D!IInv, ExchangeInv, NEW i \in DOMAIN issued, NEW j \in DOMAIN issued, i # j
               PROVE  /\ issued[i].code # issued[j].code
                      /\ issued[i].dpop /\ issued[j].dpop =>
                            /\ issued[i].use # issued[j].use
                            /\ LET u == uses[issued[i].use]
                                   v == uses[issued[j].use]
                               IN  issued[i].use < issued[j].use /\ u.jti = v.jti /\ u.inc = v.inc
                                      => v.at > u.iat + MaxAge
    BY DEF OneTokenPerCodeAndProof
  <2>1. Distinct(issued[i], issued[j])
    BY DEF ExchangeInv
  <2>2. /\ issued[i].dpop => issued[i].use \in DOMAIN uses
        /\ issued[j].dpop => issued[j].use \in DOMAIN uses
    BY DEF ExchangeInv, TokenOK, Backed
  <2>3. D!NoFreshReplay
    BY DEF D!IInv
  <2> QED
    BY <2>1, <2>2, <2>3 DEF Distinct, D!NoFreshReplay
<1> QED
  BY <1>1, EndpointInvariance, PTL
=============================================================================
