------------------------- MODULE DPoPVerifierProofs -------------------------
(***************************************************************************)
(* Proofs about DPoPVerifier, for every MaxAge, every cache size, any      *)
(* number of threads, proofs and restarts.                                 *)
(*                                                                         *)
(* IInv is inductive.  What makes it so is EntryOutlivesProof: the entry   *)
(* of an accepted proof is kept until now + 2*MaxAge, `now` being the      *)
(* clock of the age check, and the age check guarantees                    *)
(* now >= iat - MaxAge; hence the entry is due no earlier than             *)
(* iat + MaxAge, the last instant at which the proof is fresh.             *)
(***************************************************************************)
EXTENDS DPoPVerifier, FiniteSetTheorems, TLAPS

\* A thread in the middle of a verification holds a checked proof.
LEMMA BusyWork ==
  ASSUME TypeOK, NEW t \in Threads, work[t].busy
  PROVE  work[t] \in [busy : {TRUE}, proof : Proofs, now : Nat]
<1>1. work[t] \in {Idle} \cup [busy : {TRUE}, proof : Proofs, now : Nat]
  BY DEF TypeOK
<1>2. work[t] # Idle
  BY DEF Idle
<1> QED
  BY <1>1, <1>2

\* The sweep only removes entries whose instant has passed.
LEMMA SweptKeeps ==
  ASSUME NEW j \in DOMAIN items, items[j] \in Int, clock \in Nat, clock =< items[j]
  PROVE  /\ j \in DOMAIN Swept(items, clock)
         /\ Swept(items, clock)[j] = items[j]
BY DEF Swept, Forget, Restrict

\* The sweep adds no entry and changes none (admit, verify.go:269).
LEMMA SweptIsPart ==
  /\ DOMAIN Swept(items, clock) \subseteq DOMAIN items
  /\ \A j \in DOMAIN Swept(items, clock) : Swept(items, clock)[j] = items[j]
BY DEF Swept, Forget, Restrict

\* Every element of the history of acceptances is a record of its type.
LEMMA ElementOfSeq ==
  ASSUME NEW S, NEW s \in Seq(S), NEW i \in DOMAIN s
  PROVE  s[i] \in S
OBVIOUS

\* An index of an extended history is an old one or the new last one.
LEMMA IndexOfAppend ==
  ASSUME NEW S, NEW s \in Seq(S), NEW e \in S
  PROVE  \A i \in DOMAIN Append(s, e) :
            /\ i \in Nat
            /\ \/ i \in DOMAIN s /\ i < Len(s) + 1 /\ Append(s, e)[i] = s[i]
               \/ i = Len(s) + 1 /\ Append(s, e)[i] = e
<1>1. DOMAIN Append(s, e) = 1 .. (Len(s) + 1) /\ DOMAIN s = 1 .. Len(s) /\ Len(s) \in Nat
  OBVIOUS
<1>2. ASSUME NEW i \in 1 .. (Len(s) + 1), i # Len(s) + 1
      PROVE  i \in 1 .. Len(s) /\ i < Len(s) + 1 /\ Append(s, e)[i] = s[i]
  BY <1>1, <1>2
<1>3. Append(s, e)[Len(s) + 1] = e
  OBVIOUS
<1> QED
  BY <1>1, <1>2, <1>3

\* A verifier with a new, empty cache (newReplayCache) satisfies the invariant.
LEMMA InitIInv == Init => IInv
BY DEF Init, IInv, TypeOK, Idle, InFlightChecked, EntryOutlivesProof,
       UsesAreOfThePast, NoFreshReplay

\* Each step keeps the types.
LEMMA TypeStep == TypeOK /\ InFlightChecked /\ [Next]_vars => TypeOK'
<1> SUFFICES ASSUME TypeOK, InFlightChecked, [Next]_vars PROVE TypeOK'
  OBVIOUS
<1> USE MaxAgeAssumption, BoundsAssumption, ProofsAssumption
<1>1. ASSUME NEW t \in Threads, Check(t) PROVE TypeOK'
  <2>1. PICK p \in Proofs : work' = [work EXCEPT ![t] = Checked(p, clock)]
    BY <1>1 DEF Check
  <2>2. Checked(p, clock) \in [busy : {TRUE}, proof : Proofs, now : Nat]
    BY DEF Checked, TypeOK
  <2> QED
    BY <1>1, <2>1, <2>2 DEF TypeOK, Check
<1>2. ASSUME NEW t \in Threads, AdmitSeen(t) PROVE TypeOK'
  BY <1>2 DEF TypeOK, AdmitSeen
<1>3. ASSUME NEW t \in Threads, AdmitFull(t) PROVE TypeOK'
  BY <1>3, SweptIsPart DEF TypeOK, AdmitFull
<1>4. ASSUME NEW t \in Threads, AdmitNew(t) PROVE TypeOK'
  <2>1. /\ work[t] \in [busy : {TRUE}, proof : Proofs, now : Nat]
        /\ work[t].proof.jti \in Jtis
        /\ work[t].proof.iat \in Int
    BY <1>4, BusyWork DEF AdmitNew, InFlightChecked
  <2>2. /\ DOMAIN items' \subseteq Jtis
        /\ \A j \in DOMAIN items' : items'[j] \in Int
    BY <1>4, <2>1, SweptIsPart DEF TypeOK, AdmitNew, Remember, Until
  <2>3. uses' \in Seq([jti : Jtis, iat : Int, at : Nat, inc : Nat])
    BY <1>4, <2>1 DEF TypeOK, AdmitNew
  <2> QED
    BY <1>4, <2>2, <2>3 DEF TypeOK, AdmitNew
<1>5. CASE Tick
  <2>1. clock' \in Nat
    BY <1>5 DEF TypeOK, Tick
  <2> QED
    BY <1>5, <2>1 DEF TypeOK, Tick
<1>6. CASE Restart
  BY <1>6 DEF TypeOK, Restart
<1>7. CASE UNCHANGED vars
  BY <1>7 DEF TypeOK, vars
<1> QED
  BY <1>1, <1>2, <1>3, <1>4, <1>5, <1>6, <1>7 DEF Next

\* A proof waiting for the cache stays checked: the clock only moves on.
LEMMA InFlightStep ==
  TypeOK /\ InFlightChecked /\ [Next]_vars => InFlightChecked'
<1> SUFFICES ASSUME TypeOK, InFlightChecked, [Next]_vars PROVE InFlightChecked'
  OBVIOUS
<1> USE MaxAgeAssumption, BoundsAssumption, ProofsAssumption
<1>1. ASSUME NEW t \in Threads, Check(t) PROVE InFlightChecked'
  <2>1. PICK p \in Proofs : /\ work' = [work EXCEPT ![t] = Checked(p, clock)]
                            /\ Fresh(p, clock)
                            /\ p.jti \in Jtis
    BY <1>1 DEF Check, Passes
  <2> QED
    BY <1>1, <2>1 DEF TypeOK, InFlightChecked, Check, Checked, Fresh
<1>2. ASSUME NEW t \in Threads, work' = [work EXCEPT ![t] = Idle], clock' = clock
      PROVE  InFlightChecked'
  BY <1>2 DEF TypeOK, InFlightChecked, Idle, Fresh
<1>3. CASE Tick
  <2>1. \A t \in Threads : work[t].busy => work[t].now \in Nat
    BY BusyWork
  <2> QED
    BY <1>3, <2>1 DEF TypeOK, InFlightChecked, Tick, Fresh
<1>4. CASE Restart
  BY <1>4 DEF InFlightChecked, Restart, Idle
<1>5. CASE UNCHANGED vars
  BY <1>5 DEF InFlightChecked, vars, Fresh
<1> QED
  BY <1>1, <1>2, <1>3, <1>4, <1>5 DEF Next, AdmitSeen, AdmitFull, AdmitNew


\* The entry of an accepted proof outlives the proof.
LEMMA EntryStep ==
  IInv /\ [Next]_vars => EntryOutlivesProof' /\ UsesAreOfThePast'
<1> SUFFICES ASSUME IInv, [Next]_vars
             PROVE  EntryOutlivesProof' /\ UsesAreOfThePast'
  OBVIOUS
<1> USE MaxAgeAssumption, BoundsAssumption, ProofsAssumption
<1>0. \A i \in DOMAIN uses :
         uses[i] \in [jti : Jtis, iat : Int, at : Nat, inc : Nat]
  BY ElementOfSeq DEF IInv, TypeOK
<1>1. ASSUME UNCHANGED <<clock, inc, items, uses>>
      PROVE  EntryOutlivesProof' /\ UsesAreOfThePast'
  BY <1>1 DEF IInv, EntryOutlivesProof, UsesAreOfThePast
<1>2. ASSUME NEW t \in Threads, AdmitFull(t)
      PROVE  EntryOutlivesProof' /\ UsesAreOfThePast'
  <2>1. ASSUME NEW i \in DOMAIN uses, uses[i].inc = inc, clock =< uses[i].iat + MaxAge
        PROVE  /\ uses[i].jti \in DOMAIN Swept(items, clock)
               /\ uses[i].iat + MaxAge =< Swept(items, clock)[uses[i].jti]
    BY <2>1, <1>0, SweptKeeps DEF IInv, TypeOK, EntryOutlivesProof
  <2> QED
    BY <1>2, <2>1 DEF AdmitFull, IInv, EntryOutlivesProof, UsesAreOfThePast
<1>3. ASSUME NEW t \in Threads, AdmitNew(t)
      PROVE  EntryOutlivesProof' /\ UsesAreOfThePast'
  <2> DEFINE p == work[t].proof
             u == [jti |-> p.jti, iat |-> p.iat, at |-> clock, inc |-> inc]
  <2>1. /\ work[t] \in [busy : {TRUE}, proof : Proofs, now : Nat]
        /\ p.jti \in Jtis /\ p.iat \in Int
        /\ Fresh(p, work[t].now)
    BY <1>3, BusyWork DEF AdmitNew, IInv, InFlightChecked
  <2>2. /\ uses' = Append(uses, u)
        /\ items' = Remember(Swept(items, clock), p.jti, Until(work[t].now))
        /\ clock' = clock /\ inc' = inc
        /\ p.jti \notin DOMAIN items
    BY <1>3 DEF AdmitNew
  <2>3. p.iat + MaxAge =< Until(work[t].now)
    <3>1. work[t].now \in Nat /\ work[t].now - p.iat >= -MaxAge
      BY <2>1 DEF Fresh
    <3> QED
      BY <2>1, <3>1 DEF Until
  <2>4. ASSUME NEW i \in DOMAIN uses, uses[i].inc = inc, clock =< uses[i].iat + MaxAge
        PROVE  /\ uses[i].jti \in DOMAIN items'
               /\ uses[i].iat + MaxAge =< items'[uses[i].jti]
    <3>1. /\ uses[i].jti \in DOMAIN items
          /\ uses[i].iat + MaxAge =< items[uses[i].jti]
          /\ items[uses[i].jti] \in Int
      BY <2>4 DEF IInv, TypeOK, EntryOutlivesProof
    <3>2. /\ uses[i].jti \in DOMAIN Swept(items, clock)
          /\ Swept(items, clock)[uses[i].jti] = items[uses[i].jti]
      BY <2>4, <3>1, <1>0, SweptKeeps DEF IInv, TypeOK
    <3> QED
      BY <2>2, <3>1, <3>2 DEF Remember
  <2>5. /\ p.jti \in DOMAIN items'
        /\ p.iat + MaxAge =< items'[p.jti]
    BY <2>2, <2>3 DEF Remember
  <2>6. \A i \in DOMAIN uses' : \/ i \in DOMAIN uses /\ uses'[i] = uses[i]
                               \/ uses'[i] = u
    BY <2>2 DEF IInv, TypeOK
  <2>7. EntryOutlivesProof'
    BY <2>2, <2>4, <2>5, <2>6 DEF EntryOutlivesProof
  <2>8. UsesAreOfThePast'
    BY <2>2, <2>6 DEF IInv, TypeOK, UsesAreOfThePast
  <2> QED
    BY <2>7, <2>8
<1>4. CASE Tick
  BY <1>4, <1>0 DEF Tick, IInv, TypeOK, EntryOutlivesProof, UsesAreOfThePast
<1>5. CASE Restart
  BY <1>5, <1>0 DEF Restart, IInv, TypeOK, EntryOutlivesProof, UsesAreOfThePast
<1> QED
  BY <1>1, <1>2, <1>3, <1>4, <1>5 DEF Next, Check, AdmitSeen, vars

\* Only AdmitNew extends the history, and only with a jti that is not in the
\* cache; by EntryOutlivesProof every earlier use of it is then stale.
LEMMA ReplayStep == IInv /\ [Next]_vars => NoFreshReplay'
<1> SUFFICES ASSUME IInv, [Next]_vars PROVE NoFreshReplay'
  OBVIOUS
<1>1. ASSUME UNCHANGED uses PROVE NoFreshReplay'
  BY <1>1 DEF IInv, NoFreshReplay
<1>2. ASSUME NEW t \in Threads, AdmitNew(t) PROVE NoFreshReplay'
  <2> DEFINE p == work[t].proof
             u == [jti |-> p.jti, iat |-> p.iat, at |-> clock, inc |-> inc]
  <2>1. uses' = Append(uses, u) /\ p.jti \notin DOMAIN items
    BY <1>2 DEF AdmitNew
  <2>2. \A i \in DOMAIN uses' :
           /\ i \in Nat
           /\ \/ i \in DOMAIN uses /\ i < Len(uses) + 1 /\ uses'[i] = uses[i]
              \/ i = Len(uses) + 1 /\ uses'[i] = u
    <3> DEFINE U == [jti : Jtis, iat : Int, at : Nat, inc : Nat]
    <3>1. u \in U
      BY <1>2, BusyWork, ProofsAssumption DEF AdmitNew, IInv, TypeOK, InFlightChecked
    <3>2. uses \in Seq(U)
      BY DEF IInv, TypeOK
    <3> HIDE DEF u, U
    <3> QED
      BY <2>1, <3>1, <3>2, IndexOfAppend
  <2>3. ASSUME NEW i \in DOMAIN uses, uses[i].jti = u.jti, uses[i].inc = u.inc
        PROVE  u.at > uses[i].iat + MaxAge
    <3>1. uses[i] \in [jti : Jtis, iat : Int, at : Nat, inc : Nat] /\ clock \in Nat
      BY ElementOfSeq DEF IInv, TypeOK
    <3> QED
      BY <2>1, <2>3, <3>1, MaxAgeAssumption DEF IInv, EntryOutlivesProof
  <2> HIDE DEF u
  <2>4. ASSUME NEW i \in DOMAIN uses', NEW j \in DOMAIN uses', i < j,
               uses'[i].jti = uses'[j].jti, uses'[i].inc = uses'[j].inc
        PROVE  uses'[j].at > uses'[i].iat + MaxAge
    <3>1. i \in DOMAIN uses /\ uses'[i] = uses[i]
      BY <2>2, <2>4 DEF IInv, TypeOK
    <3>2. CASE j \in DOMAIN uses /\ uses'[j] = uses[j]
      BY <2>4, <3>1, <3>2 DEF IInv, NoFreshReplay
    <3>3. CASE uses'[j] = u
      BY <2>3, <2>4, <3>1, <3>3
    <3> QED
      BY <2>2, <3>2, <3>3
  <2> QED
    BY <2>4 DEF NoFreshReplay
<1> QED
  BY <1>1, <1>2 DEF Next, vars, Check, AdmitSeen, AdmitFull, Tick, Restart

\* Type correctness and the inductive invariant of the verifier.
THEOREM Invariance == Spec => []IInv
<1>1. IInv /\ [Next]_vars => IInv'
  BY TypeStep, InFlightStep, EntryStep, ReplayStep DEF IInv
<1> QED
  BY InitIInv, <1>1, PTL DEF Spec

\* The verifier's state always has the types of verify.go's structures.
THEOREM TypeCorrect == Spec => []TypeOK
BY Invariance, PTL DEF IInv

\* A jti accepted by verify.go:181 stays in the cache while its proof is fresh.
THEOREM Remembered == Spec => []FreshUseRemembered
<1>1. IInv => FreshUseRemembered
  BY DEF IInv, EntryOutlivesProof, FreshUseRemembered
<1> QED
  BY <1>1, Invariance, PTL

\* No proof that is still fresh when admit runs is accepted a second time.
THEOREM FreshReplayRefused == Spec => []NoFreshReplay
BY Invariance, PTL DEF IInv

-----------------------------------------------------------------------------
(* The size of the cache.                                                  *)

\* The bound with the finiteness that counting needs.
CInv == IsFiniteSet(DOMAIN items) /\ CacheBounded

\* Sweeping (verify.go:267) keeps the cache finite and no larger.
LEMMA SweptSize ==
  ASSUME IsFiniteSet(DOMAIN items)
  PROVE  /\ IsFiniteSet(DOMAIN Swept(items, clock))
         /\ Cardinality(DOMAIN Swept(items, clock)) =< Cardinality(DOMAIN items)
BY SweptIsPart, FS_Subset

\* admit (verify.go:260) never lets the cache grow beyond max.
THEOREM Bounded == Spec => []CacheBounded
<1>1. Init => CInv
  BY FS_EmptySet, CacheMaxAssumption DEF Init, CInv, CacheBounded
<1>2. CInv /\ [Next]_vars => CInv'
  <2> SUFFICES ASSUME CInv, [Next]_vars PROVE CInv'
    OBVIOUS
  <2>1. CASE UNCHANGED items
    BY <2>1 DEF CInv, CacheBounded
  <2>2. ASSUME NEW t \in Threads, AdmitFull(t) PROVE CInv'
    <3>1. items' = Swept(items, clock)
      BY <2>2 DEF AdmitFull
    <3>2. Cardinality(DOMAIN items) \in Nat /\ Cardinality(DOMAIN items') \in Nat
      BY <3>1, SweptSize, FS_CardinalityType DEF CInv
    <3> QED
      BY <3>1, <3>2, SweptSize, CacheMaxAssumption DEF CInv, CacheBounded
  <2>3. ASSUME NEW t \in Threads, AdmitNew(t) PROVE CInv'
    <3> DEFINE D == DOMAIN Swept(items, clock)
               j == work[t].proof.jti
    <3>1. DOMAIN items' = D \cup {j} /\ ~(Cardinality(D) >= CacheMax)
      BY <2>3 DEF AdmitNew, Remember, Full
    <3>2. IsFiniteSet(D) /\ Cardinality(D) \in Nat
      BY SweptSize, FS_CardinalityType DEF CInv
    <3>3. /\ IsFiniteSet(D \cup {j})
          /\ \/ Cardinality(D \cup {j}) = Cardinality(D)
             \/ Cardinality(D \cup {j}) = Cardinality(D) + 1
      BY <3>2, FS_AddElement
    <3> QED
      BY <3>1, <3>2, <3>3, CacheMaxAssumption DEF CInv, CacheBounded
  <2>4. CASE Restart
    BY <2>4, FS_EmptySet, CacheMaxAssumption DEF Restart, CInv, CacheBounded
  <2> QED
    BY <2>1, <2>2, <2>3, <2>4 DEF Next, vars, Check, AdmitSeen, Tick
<1> QED
  BY <1>1, <1>2, PTL DEF Spec, CInv

=============================================================================
