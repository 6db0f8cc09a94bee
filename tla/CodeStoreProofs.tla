--------------------------- MODULE CodeStoreProofs ---------------------------
(***************************************************************************)
(* Proofs about CodeStore, for any codes, grants, clients and CodeTTL.     *)
(*                                                                         *)
(* IInv is inductive: a code leaves the map in the step that presents it,  *)
(* Issue only puts a code into the map that was never there, so a code     *)
(* that was presented never comes back (OneAttempt), and a second grant    *)
(* for it would need it to (NeverTwice).                                   *)
(***************************************************************************)
EXTENDS CodeStore, TLAPS

Deliveries == [code : Codes, client : Clients, redirect : Redirects, at : Nat]

\* Every element of the history of redemptions is a record of its type.
LEMMA ElementOfSeq ==
  ASSUME NEW S, NEW s \in Seq(S), NEW i \in DOMAIN s
  PROVE  s[i] \in S
OBVIOUS

\* An index of an extended history is an old one or the new last one.
LEMMA IndexOfAppend ==
  ASSUME NEW S, NEW s \in Seq(S), NEW e \in S
  PROVE  \A i \in DOMAIN Append(s, e) :
            \/ i \in DOMAIN s /\ Append(s, e)[i] = s[i]
            \/ i = Len(s) + 1 /\ Append(s, e)[i] = e
<1>1. DOMAIN Append(s, e) = 1 .. (Len(s) + 1) /\ DOMAIN s = 1 .. Len(s) /\ Len(s) \in Nat
  OBVIOUS
<1>2. ASSUME NEW i \in 1 .. (Len(s) + 1), i # Len(s) + 1
      PROVE  i \in 1 .. Len(s) /\ Append(s, e)[i] = s[i]
  BY <1>1, <1>2
<1>3. Append(s, e)[Len(s) + 1] = e
  OBVIOUS
<1> QED
  BY <1>1, <1>2, <1>3

\* The sweep of Issue removes entries and changes none.
LEMMA EvictIsPart ==
  /\ DOMAIN evictExpiredLocked(codes) \subseteq DOMAIN codes
  /\ \A c \in DOMAIN evictExpiredLocked(codes) : evictExpiredLocked(codes)[c] = codes[c]
BY DEF evictExpiredLocked, Restrict

\* delete (codes.go:93) removes the code and changes no other entry.
LEMMA DeleteIsPart ==
  ASSUME NEW c \in DOMAIN codes, NEW ok
  PROVE  /\ DOMAIN Delete(codes, c, ok) = DOMAIN codes \ {c}
         /\ \A d \in DOMAIN codes \ {c} : Delete(codes, c, ok)[d] = codes[d]
BY DEF Delete, Restrict

\* An empty store (NewCodeStore) satisfies the invariant.
LEMMA InitIInv == Init => IInv
BY DEF Init, IInv, TypeOK, EntriesMatch, OneAttempt, OutWasTried, NeverTwice

\* Issue(c, g) keeps the invariant.
LEMMA IssueStep ==
  ASSUME IInv, NEW c \in Codes, NEW g \in Grants, Issue(c, g)
  PROVE  IInv'
<1> USE DEF IInv
<1>1. /\ c \notin DOMAIN minted
      /\ minted' = Put(minted, c, [grant |-> g, at |-> clock])
      /\ codes' = Put(evictExpiredLocked(codes), c, [grant |-> g, expiresAt |-> Expiry(clock)])
      /\ UNCHANGED <<clock, tried, out>>
  BY DEF Issue
<1>2. /\ DOMAIN minted' = DOMAIN minted \cup {c}
      /\ minted'[c] = [grant |-> g, at |-> clock]
      /\ \A d \in DOMAIN minted : minted'[d] = minted[d]
  BY <1>1 DEF Put
<1>3. /\ DOMAIN codes' = DOMAIN evictExpiredLocked(codes) \cup {c}
      /\ codes'[c] = [grant |-> g, expiresAt |-> clock + CodeTTL]
      /\ \A d \in DOMAIN evictExpiredLocked(codes) : d # c => codes'[d] = codes[d]
  BY <1>1, EvictIsPart DEF Put, Expiry
<1>4. TypeOK'
  <2>1. clock + CodeTTL \in Nat /\ clock \in Nat
    BY CodeTTLAssumption DEF TypeOK
  <2>2. /\ DOMAIN minted' \subseteq Codes
        /\ \A d \in DOMAIN minted' : minted'[d] \in [grant : Grants, at : Nat]
    BY <1>2, <2>1 DEF TypeOK
  <2>3. /\ DOMAIN codes' \subseteq DOMAIN minted'
        /\ \A d \in DOMAIN codes' : codes'[d] \in [grant : Grants, expiresAt : Nat]
    BY <1>2, <1>3, <2>1, EvictIsPart DEF TypeOK
  <2> QED
    BY <1>1, <2>2, <2>3 DEF TypeOK
<1>5. EntriesMatch'
  BY <1>1, <1>2, <1>3, EvictIsPart DEF TypeOK, EntriesMatch
<1>6. OneAttempt' /\ OutWasTried' /\ NeverTwice'
  BY <1>1, <1>2, <1>3, EvictIsPart DEF TypeOK, OneAttempt, OutWasTried, NeverTwice
<1> QED
  BY <1>4, <1>5, <1>6

\* Redeem keeps the invariant.
LEMMA RedeemStep ==
  ASSUME IInv, NEW c \in Codes, NEW client \in Clients, NEW redirect \in Redirects,
         Redeem(c, client, redirect)
  PROVE  IInv'
<1> USE DEF IInv
<1> DEFINE e == [code |-> c, client |-> client, redirect |-> redirect, at |-> clock]
<1>1. /\ c \in DOMAIN codes
      /\ DOMAIN codes' = DOMAIN codes \ {c}
      /\ \A d \in DOMAIN codes' : codes'[d] = codes[d]
      /\ out' = out \/ out' = Append(out, e)
      /\ tried' = tried \cup {c}
      /\ UNCHANGED <<clock, minted>>
  BY DeleteIsPart DEF Redeem
<1>2. e \in Deliveries /\ out \in Seq(Deliveries)
  BY DEF TypeOK, Deliveries
<1>3. \A i \in DOMAIN out' : \/ i \in DOMAIN out /\ out'[i] = out[i]
                             \/ i = Len(out) + 1 /\ out'[i].code = c
  <2>1. CASE out' = out
    BY <2>1
  <2>2. CASE out' = Append(out, e)
    <3>1. e.code = c
      OBVIOUS
    <3> HIDE DEF e
    <3> QED
      BY <1>2, <2>2, <3>1, IndexOfAppend
  <2> QED
    BY <1>1, <2>1, <2>2
<1>4. TypeOK'
  <2>1. out' \in Seq(Deliveries)
    BY <1>1, <1>2
  <2> QED
    BY <1>1, <2>1 DEF TypeOK, Deliveries
<1>5. EntriesMatch' /\ OneAttempt'
  BY <1>1 DEF TypeOK, EntriesMatch, OneAttempt
<1>6. OutWasTried'
  BY <1>1, <1>3 DEF TypeOK, OutWasTried
<1>7. NeverTwice'
  <2>1. \A i \in DOMAIN out : out[i].code # c
    BY <1>1 DEF OneAttempt, OutWasTried
  <2> QED
    BY <1>3, <2>1 DEF NeverTwice
<1> QED
  BY <1>4, <1>5, <1>6, <1>7

\* Every step of the store keeps the invariant.
LEMMA NextStep == IInv /\ [Next]_vars => IInv'
<1> SUFFICES ASSUME IInv, [Next]_vars PROVE IInv'
  OBVIOUS
<1>1. CASE Tick
  <2>1. clock' \in Nat
    BY <1>1 DEF Tick, IInv, TypeOK
  <2> QED
    BY <1>1, <2>1 DEF Tick, IInv, TypeOK, EntriesMatch, OneAttempt, OutWasTried, NeverTwice
<1>2. CASE Restart
  BY <1>2 DEF Restart, IInv, TypeOK, EntriesMatch, OneAttempt, OutWasTried, NeverTwice
<1>3. CASE UNCHANGED vars
  BY <1>3 DEF vars, IInv, TypeOK, EntriesMatch, OneAttempt, OutWasTried, NeverTwice
<1> QED
  BY <1>1, <1>2, <1>3, IssueStep, RedeemStep DEF Next, RedeemUnknown

\* The inductive invariant of the in-memory store.
THEOREM Invariance == Spec => []IInv
BY InitIInv, NextStep, PTL DEF Spec

\* The store's state always has the types of codes.go's structures.
THEOREM TypeCorrect == Spec => []TypeOK
BY Invariance, PTL DEF IInv

\* A code presented once, whatever the outcome, is never in the map again.
THEOREM CodeBurns == Spec => []OneAttempt
BY Invariance, PTL DEF IInv

\* No code returns a grant twice, restarts included.
THEOREM CodeWorksOnce == Spec => []NeverTwice
BY Invariance, PTL DEF IInv

-----------------------------------------------------------------------------
(* The refinement: codes -> live.                                          *)

\* Issue, sweep included, is the abstract Issue.
LEMMA IssueRefines ==
  ASSUME IInv, NEW c \in Codes, NEW g \in Grants, Issue(c, g)
  PROVE  Abstract!Issue(c, g)
<1>1. DOMAIN codes' = DOMAIN evictExpiredLocked(codes) \cup {c}
  BY DEF Issue, Put
<1>2. DOMAIN evictExpiredLocked(codes) \in SUBSET DOMAIN codes
  BY EvictIsPart
<1> QED
  BY <1>1, <1>2 DEF Issue, Abstract!Issue, Put, Abstract!Put

\* A successful Redeem is the abstract delivery, a refused one a loss.
LEMMA RedeemRefines ==
  ASSUME IInv, NEW c \in Codes, NEW client \in Clients, NEW redirect \in Redirects,
         Redeem(c, client, redirect)
  PROVE  Abstract!Deliver(c) \/ Abstract!Lose
<1>1. /\ c \in DOMAIN codes
      /\ DOMAIN codes' = DOMAIN codes \ {c}
      /\ UNCHANGED <<clock, minted>>
  BY DeleteIsPart DEF Redeem
<1>2. CASE Redeemable(codes[c], client, redirect)
  <2>1. out' = Append(out, [code |-> c, client |-> client,
                            redirect |-> redirect, at |-> clock])
    BY <1>2 DEF Redeem
  <2>2. /\ minted[c].grant.client = client
        /\ minted[c].grant.redirect = redirect
        /\ clock =< minted[c].at + CodeTTL + 0
    BY <1>1, <1>2, CodeTTLAssumption DEF Redeemable, IInv, TypeOK, EntriesMatch
  <2> QED
    BY <1>1, <2>1, <2>2 DEF Abstract!Deliver
<1>3. CASE ~Redeemable(codes[c], client, redirect)
  BY <1>1, <1>3 DEF Redeem, Abstract!Lose
<1> QED
  BY <1>2, <1>3

\* oidc.CodeStore implements the abstract one-shot store.
THEOREM Refinement == Spec => RefinesOneShot
<1>1. Init => Abstract!Init
  BY DEF Init, Abstract!Init
<1>2. IInv /\ [Next]_vars => [Abstract!Next]_(Abstract!vars)
  <2> SUFFICES ASSUME IInv, [Next]_vars PROVE [Abstract!Next]_(Abstract!vars)
    OBVIOUS
  <2>1. CASE Tick
    BY <2>1 DEF Tick, Abstract!Next, Abstract!Tick
  <2>2. CASE Restart
    BY <2>2 DEF Restart, Abstract!Next, Abstract!Lose
  <2>3. CASE UNCHANGED vars
    BY <2>3 DEF vars, Abstract!vars
  <2> QED
    BY <2>1, <2>2, <2>3, IssueRefines, RedeemRefines DEF Next, RedeemUnknown, Abstract!Next
<1> QED
  BY <1>1, <1>2, Invariance, PTL DEF Spec, RefinesOneShot, Abstract!Spec
=============================================================================
