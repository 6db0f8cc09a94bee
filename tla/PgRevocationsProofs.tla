------------------------- MODULE PgRevocationsProofs ------------------------
(***************************************************************************)
(* Theorems about PgRevocations: for either store, and for any users,      *)
(* handlers, replicas, lifetimes and skew, a cutoff is final and in the    *)
(* database never moves back, a revoked token stays so until it expires,   *)
(* and a token of a later second is not refused.                           *)
(***************************************************************************)
EXTENDS PgRevocations, TLAPS

\* time.Time.Unix rounds down.
LEMMA UnixBelow ==
    ASSUME NEW t \in Nat
    PROVE  Unix(t) \in Nat /\ Unix(t) =< t
<1>1. Second \in Nat /\ Second > 0
  BY SessionsConstants
<1>2. (t \div Second) \in Nat /\ t = Second * (t \div Second) + (t % Second) /\ (t % Second) \in Nat
  BY <1>1
<1>3. ASSUME NEW a \in Nat, NEW b \in Nat PROVE a * b \in Nat /\ a * b = b * a
  OBVIOUS
<1> QED
  BY <1>1, <1>2, <1>3 DEF Unix

-----------------------------------------------------------------------------
(* The inductive invariant                                                 *)

Typed ==
    /\ clock \in Nat /\ epoch \in Nat
    /\ offset \in Int /\ -Skew =< offset
    /\ work \in [Handlers -> {Idle} \cup [busy : {TRUE}, jti : Jtis]]
    /\ killed \in [{"token", "cutoff"} -> SUBSET Jtis]
    /\ \A s \in sent : s.begun \in Nat /\ s.cutoff = s.begun + offset

\* Tokens bear the time and the key of their minting.
Stamped ==
    /\ DOMAIN minted \subseteq Jtis
    /\ \A j \in DOMAIN minted :
          /\ minted[j].iat \in Nat /\ minted[j].at \in Nat
          /\ minted[j].iat =< minted[j].at /\ minted[j].at =< clock
          /\ minted[j].key \in Nat /\ minted[j].key =< epoch

\* Cutoffs are instants, and those of the in-memory store are past.
Instants(cutoffs) ==
    \A k \in DOMAIN cutoffs : cutoffs[k] \in Int /\ (~durable => cutoffs[k] =< clock)

\* A request that is being decided bears a token of this process's key.
Verified ==
    \A h \in Handlers : work[h] # Idle =>
        work[h].jti \in DOMAIN minted /\ minted[work[h].jti].key = epoch

Cut(j) ==
    \/ AtOrBefore(minted[j].iat, subjects, minted[j].user)
    \/ AtOrBefore(minted[j].iat, tenants, minted[j].user.tenant)

\* What was to die is cut off, or the key it was signed with is gone.
Dead ==
    /\ killed["cutoff"] \subseteq DOMAIN minted
    /\ \A j \in killed["cutoff"] : minted[j].key = epoch => Cut(j)

CutoffInv ==
    /\ Typed /\ Stamped /\ Verified
    /\ Instants(subjects) /\ Instants(tenants)
    /\ Dead /\ CutoffIsFinal

\* No cutoff of f is missing or earlier in g.
Advances(f, g) == \A k \in DOMAIN f : k \in DOMAIN g /\ g[k] >= f[k]

\* A token that is cut off stays so when cutoffs advance.
LEMMA CutStays ==
    ASSUME Stamped, Instants(subjects), Instants(tenants), Instants(subjects)', Instants(tenants)',
           Advances(subjects, subjects'), Advances(tenants, tenants'),
           NEW j \in DOMAIN minted, minted' = minted, Cut(j)
    PROVE  Cut(j)'
<1>1. minted[j].iat \in Int
  BY DEF Stamped
<1>2. CASE AtOrBefore(minted[j].iat, subjects, minted[j].user)
  BY <1>1, <1>2 DEF Instants, Advances, Cut, AtOrBefore
<1>3. CASE AtOrBefore(minted[j].iat, tenants, minted[j].user.tenant)
  BY <1>1, <1>3 DEF Instants, Advances, Cut, AtOrBefore
<1> QED
  BY <1>2, <1>3 DEF Cut

\* Setting one cutoff to an instant that is not before it advances them all.
LEMMA PutAdvances ==
    ASSUME NEW f, NEW k, NEW v \in Int,
           \A x \in DOMAIN f : f[x] \in Int,
           k \in DOMAIN f => v >= f[k]
    PROVE  Advances(f, Put(f, k, v)) /\ Put(f, k, v)[k] = v /\ k \in DOMAIN Put(f, k, v)
  BY DEF Advances, Put

\* greatest() is neither before the row nor before the newcomer.
LEMMA GreatestIsGreatest ==
    ASSUME NEW rows, NEW k, NEW v \in Int, \A x \in DOMAIN rows : rows[x] \in Int
    PROVE  /\ greatest(rows, k, v) \in Int /\ greatest(rows, k, v) >= v
           /\ k \in DOMAIN rows => greatest(rows, k, v) >= rows[k]
  BY DEF greatest

-----------------------------------------------------------------------------
(* The steps                                                               *)

\* A step that only extends what is to die by tokens it cuts off.
LEMMA KillStep ==
    ASSUME CutoffInv, Instants(subjects)', Instants(tenants)',
           Advances(subjects, subjects'), Advances(tenants, tenants'),
           UNCHANGED <<clock, epoch, minted, work, served, offset>>,
           NEW D \in SUBSET DOMAIN minted, Kill("cutoff", D), \A j \in D : Cut(j)',
           \A s \in sent' : s \in sent
    PROVE  CutoffInv'
<1> USE DEF CutoffInv
<1>1. killed' = [killed EXCEPT !["cutoff"] = @ \cup D]
  BY DEF Kill
<1>2. D \subseteq Jtis
  BY DEF Stamped
<1>3. killed' \in [{"token", "cutoff"} -> SUBSET Jtis] /\ killed'["cutoff"] = killed["cutoff"] \cup D
  BY <1>1, <1>2 DEF Typed
<1>4. Typed'
  BY <1>3 DEF Typed
<1>5. Stamped' /\ Verified'
  BY DEF Stamped, Verified
<1>6. Dead'
  <2>1. ASSUME NEW j \in killed["cutoff"], minted[j].key = epoch PROVE Cut(j)'
    <3>1. j \in DOMAIN minted /\ Cut(j)
      BY <2>1 DEF Dead
    <3> QED
      BY <3>1, CutStays
  <2> QED
    BY <1>3, <2>1 DEF Dead
<1>7. CutoffIsFinal'
  BY DEF CutoffIsFinal
<1> QED
  BY <1>4, <1>5, <1>6, <1>7

\* A step that touches neither cutoffs nor keys nor what is to die by them.
LEMMA QuietStep ==
    ASSUME CutoffInv, UNCHANGED <<clock, epoch, minted, subjects, tenants, served, durable, offset>>,
           killed' \in [{"token", "cutoff"} -> SUBSET Jtis], killed'["cutoff"] = killed["cutoff"],
           work' \in [Handlers -> {Idle} \cup [busy : {TRUE}, jti : Jtis]],
           \A h \in Handlers : work'[h] # Idle =>
               work'[h].jti \in DOMAIN minted /\ minted[work'[h].jti].key = epoch,
           \A s \in sent' : s \in sent \/ (s.begun \in Nat /\ s.cutoff = s.begun + offset)
    PROVE  CutoffInv'
<1> USE DEF CutoffInv
<1>1. Typed'
  BY DEF Typed
<1>2. Stamped' /\ Verified'
  BY DEF Stamped, Verified
<1>3. Instants(subjects)' /\ Instants(tenants)'
  BY DEF Instants
<1>4. Dead'
  BY DEF Dead, Cut, AtOrBefore
<1>5. CutoffIsFinal'
  BY DEF CutoffIsFinal
<1> QED
  BY <1>1, <1>2, <1>3, <1>4, <1>5

\* A request that is let through, by either store, is not one that was cut off.
LEMMA ServedAlive ==
    ASSUME CutoffInv, NEW h \in Handlers, work[h].busy, ~IsRevoked(work[h].jti)
    PROVE  work[h].jti \notin killed["cutoff"]
<1>1. work[h] # Idle
  BY DEF Idle
<1>2. minted[work[h].jti].key = epoch
  BY <1>1 DEF CutoffInv, Verified
<1>3. ~Cut(work[h].jti)
  BY DEF IsRevoked, Cut
<1> QED
  BY <1>2, <1>3 DEF CutoffInv, Dead

\* A handler that answers leaves the others as they were.
LEMMA AnsweredWork ==
    ASSUME CutoffInv, NEW h \in Handlers, work' = [work EXCEPT ![h] = Idle], UNCHANGED <<minted, epoch>>
    PROVE  /\ work' \in [Handlers -> {Idle} \cup [busy : {TRUE}, jti : Jtis]]
           /\ \A g \in Handlers : work'[g] # Idle =>
                 work'[g].jti \in DOMAIN minted /\ minted[work'[g].jti].key = epoch
  BY DEF CutoffInv, Typed, Verified

\* Serving a request whose token is not to die keeps the promise.
LEMMA ServeStep ==
    ASSUME CutoffInv, NEW h \in Handlers, work' = [work EXCEPT ![h] = Idle],
           NEW r, served' = served \cup {r}, "cutoff" \notin r.killed,
           UNCHANGED <<clock, epoch, minted, subjects, tenants, killed, durable, offset, sent>>
    PROVE  CutoffInv'
<1> USE DEF CutoffInv
<1>1. Typed' /\ Verified'
  BY AnsweredWork DEF Typed, Verified
<1>2. Stamped'
  BY DEF Stamped
<1>3. Instants(subjects)' /\ Instants(tenants)'
  BY DEF Instants
<1>4. Dead'
  BY DEF Dead, Cut, AtOrBefore
<1>5. CutoffIsFinal'
  BY DEF CutoffIsFinal
<1> QED
  BY <1>1, <1>2, <1>3, <1>4, <1>5

\* Authenticate, Exchange, VerifyToken, RefuseProof and Tick, with either store.
LEMMA SharedStep ==
    ASSUME CutoffInv, Shared, UNCHANGED <<deployment, sent, statements>>
    PROVE  CutoffInv'
<1> USE DEF deployment, revocations, history
<1>0. /\ killed \in [{"token", "cutoff"} -> SUBSET Jtis]
      /\ work \in [Handlers -> {Idle} \cup [busy : {TRUE}, jti : Jtis]]
      /\ \A h \in Handlers : work[h] # Idle =>
            work[h].jti \in DOMAIN minted /\ minted[work[h].jti].key = epoch
  BY DEF CutoffInv, Typed, Verified
<1>1. ASSUME NEW u \in Users, Authenticate(u) PROVE CutoffInv'
  BY <1>0, <1>1, QuietStep DEF Authenticate
<1>2. ASSUME NEW j \in Jtis, NEW g \in grants, Exchange(j, g) PROVE CutoffInv'
  <2>1. /\ j \notin DOMAIN minted
        /\ minted' = Put(minted, j, Mint(g))
        /\ UNCHANGED <<clock, epoch, subjects, tenants, killed, served, work>>
    BY <1>2 DEF Exchange
  <2>2. /\ DOMAIN minted' = DOMAIN minted \cup {j}
        /\ minted'[j] = Mint(g)
        /\ \A i \in DOMAIN minted : minted'[i] = minted[i]
    BY <2>1 DEF Put
  <2>3. clock \in Nat /\ epoch \in Nat
    BY DEF CutoffInv, Typed
  <2>4. /\ minted'[j].iat \in Nat /\ minted'[j].at = clock /\ minted'[j].iat =< clock
        /\ minted'[j].key = epoch
    BY <2>2, <2>3, UnixBelow DEF Mint
  <2>5. Stamped'
    BY <2>1, <2>2, <2>3, <2>4 DEF CutoffInv, Stamped
  <2>6. Typed' /\ Verified'
    BY <2>1, <2>2 DEF CutoffInv, Typed, Verified
  <2>7. Instants(subjects)' /\ Instants(tenants)'
    BY <2>1 DEF CutoffInv, Instants
  <2>8. Dead'
    BY <2>1, <2>2 DEF CutoffInv, Dead, Cut, AtOrBefore
  <2>9. CutoffIsFinal'
    BY <2>1 DEF CutoffInv, CutoffIsFinal
  <2> QED
    BY <2>5, <2>6, <2>7, <2>8, <2>9 DEF CutoffInv
<1>3. ASSUME NEW j \in DOMAIN minted, NEW h \in Handlers, VerifyToken(h, j) PROVE CutoffInv'
  <2>1. /\ work' = [work EXCEPT ![h] = [busy |-> TRUE, jti |-> j]]
        /\ minted[j].key = epoch
    BY <1>3 DEF VerifyToken, Acceptable
  <2>2. j \in Jtis
    BY DEF CutoffInv, Stamped
  <2>3. /\ work' \in [Handlers -> {Idle} \cup [busy : {TRUE}, jti : Jtis]]
        /\ \A g \in Handlers : work'[g] # Idle =>
              work'[g].jti \in DOMAIN minted /\ minted[work'[g].jti].key = epoch
    BY <1>0, <2>1, <2>2
  <2>4. UNCHANGED <<clock, epoch, minted, subjects, tenants, served, killed>>
    BY <1>3 DEF VerifyToken
  <2> QED
    BY <1>0, <2>3, <2>4, QuietStep
<1>4. ASSUME NEW h \in Handlers, RefuseProof(h) PROVE CutoffInv'
  <2>1. /\ work' = [work EXCEPT ![h] = Idle]
        /\ UNCHANGED <<clock, epoch, minted, subjects, tenants, served, killed>>
    BY <1>4 DEF RefuseProof
  <2> QED
    BY <1>0, <2>1, AnsweredWork, QuietStep
<1>5. CASE Tick
  <2>1. clock' = clock + 1 /\ UNCHANGED <<epoch, minted, subjects, tenants, killed, served, work>>
    BY <1>5 DEF Tick
  <2>2. clock \in Nat
    BY DEF CutoffInv, Typed
  <2>3. Typed'
    <3>1. clock' \in Nat /\ sent' = sent /\ offset' = offset
      BY <2>1, <2>2
    <3> QED
      BY <2>1, <3>1 DEF CutoffInv, Typed
  <2>4. Stamped' /\ Verified'
    BY <2>1, <2>2 DEF CutoffInv, Stamped, Verified
  <2>5. Instants(subjects)' /\ Instants(tenants)'
    BY <2>1, <2>2 DEF CutoffInv, Instants
  <2>6. Dead' /\ CutoffIsFinal'
    BY <2>1 DEF CutoffInv, Dead, Cut, AtOrBefore, CutoffIsFinal
  <2> QED
    BY <2>3, <2>4, <2>5, <2>6 DEF CutoffInv
<1> QED
  BY <1>1, <1>2, <1>3, <1>4, <1>5 DEF Shared

\* A restart: what was to die bears the old key.
LEMMA RestartStep ==
    ASSUME CutoffInv, epoch' = epoch + 1, work' = [h \in Handlers |-> Idle],
           UNCHANGED <<clock, minted, killed, served, durable, offset, sent>>,
           Instants(subjects)', Instants(tenants)'
    PROVE  CutoffInv'
<1> USE DEF CutoffInv
<1>1. epoch \in Nat
  BY DEF Typed
<1>2. Typed' /\ Verified'
  BY <1>1 DEF Typed, Verified
<1>3. Stamped'
  BY <1>1 DEF Stamped
<1>4. Dead'
  <2>1. \A j \in DOMAIN minted : minted'[j].key # epoch'
    BY <1>1 DEF Stamped
  <2> QED
    BY <2>1 DEF Dead
<1>5. CutoffIsFinal'
  BY DEF CutoffIsFinal
<1> QED
  BY <1>2, <1>3, <1>4, <1>5

\* The steps of the in-memory store.
LEMMA MemoryStep ==
    ASSUME CutoffInv, ~durable, Next, UNCHANGED <<deployment, sent, statements>>
    PROVE  CutoffInv'
<1> USE DEF deployment
<1>0. /\ killed \in [{"token", "cutoff"} -> SUBSET Jtis]
      /\ work \in [Handlers -> {Idle} \cup [busy : {TRUE}, jti : Jtis]]
      /\ \A h \in Handlers : work[h] # Idle =>
            work[h].jti \in DOMAIN minted /\ minted[work[h].jti].key = epoch
      /\ clock \in Nat
  BY DEF CutoffInv, Typed, Verified
<1>1. ASSUME NEW u \in Users, RevokeSubject(u) PROVE CutoffInv'
  <2> DEFINE D == {j \in DOMAIN minted : minted[j].user = u}
  <2>1. /\ subjects' = Put(subjects, u, clock)
        /\ Kill("cutoff", D)
        /\ UNCHANGED <<clock, epoch, minted, work, served, tenants, offset, durable, sent>>
    BY <1>1 DEF RevokeSubject
  <2>2. Advances(subjects, subjects') /\ u \in DOMAIN subjects' /\ subjects'[u] = clock
    BY <1>0, <2>1, PutAdvances DEF CutoffInv, Instants
  <2>3. Instants(subjects)'
    BY <1>0, <2>1 DEF CutoffInv, Instants, Put
  <2>4. Instants(tenants)' /\ Advances(tenants, tenants')
    BY <2>1 DEF CutoffInv, Instants, Advances
  <2>5. \A j \in D : Cut(j)'
    BY <1>0, <2>1, <2>2 DEF CutoffInv, Stamped, Cut, AtOrBefore
  <2> QED
    BY <2>1, <2>2, <2>3, <2>4, <2>5, KillStep
<1>2. ASSUME NEW t \in Tenants, RevokeTenant(t) PROVE CutoffInv'
  <2> DEFINE D == {j \in DOMAIN minted : minted[j].user.tenant = t}
  <2>1. /\ tenants' = Put(tenants, t, clock)
        /\ Kill("cutoff", D)
        /\ UNCHANGED <<clock, epoch, minted, work, served, subjects, offset, durable, sent>>
    BY <1>2 DEF RevokeTenant
  <2>2. Advances(tenants, tenants') /\ t \in DOMAIN tenants' /\ tenants'[t] = clock
    BY <1>0, <2>1, PutAdvances DEF CutoffInv, Instants
  <2>3. Instants(tenants)'
    BY <1>0, <2>1 DEF CutoffInv, Instants, Put
  <2>4. Instants(subjects)' /\ Advances(subjects, subjects')
    BY <2>1 DEF CutoffInv, Instants, Advances
  <2>5. \A j \in D : Cut(j)'
    BY <1>0, <2>1, <2>2 DEF CutoffInv, Stamped, Cut, AtOrBefore
  <2> QED
    BY <2>1, <2>2, <2>3, <2>4, <2>5, KillStep
<1>3. ASSUME NEW j \in DOMAIN minted, RevokeToken(j) PROVE CutoffInv'
  <2>1. /\ killed' = [killed EXCEPT !["token"] = @ \cup {j}]
        /\ UNCHANGED <<clock, epoch, minted, subjects, tenants, served, work>>
    BY <1>3 DEF RevokeToken, Kill
  <2>2. j \in Jtis
    BY DEF CutoffInv, Stamped
  <2>3. killed' \in [{"token", "cutoff"} -> SUBSET Jtis] /\ killed'["cutoff"] = killed["cutoff"]
    BY <1>0, <2>1, <2>2
  <2> QED
    BY <1>0, <2>1, <2>3, QuietStep
<1>4. ASSUME NEW h \in Handlers, Decide(h) PROVE CutoffInv'
  <2> DEFINE j == work[h].jti
             r == [jti |-> j, expired |-> clock > minted[j].exp,
                   killed |-> {how \in DOMAIN killed : j \in killed[how]}]
  <2>1. /\ work[h].busy
        /\ served' = IF IsRevoked(j) THEN served ELSE served \cup {r}
        /\ work' = [work EXCEPT ![h] = Idle]
        /\ UNCHANGED <<clock, epoch, minted, subjects, tenants, killed, durable, offset, sent>>
    BY <1>4 DEF Decide, revocations
  <2>2. CASE IsRevoked(j)
    BY <1>0, <2>1, <2>2, AnsweredWork, QuietStep
  <2>3. CASE ~IsRevoked(j)
    <3>1. j \notin killed["cutoff"]
      BY <2>1, <2>3, ServedAlive
    <3>2. "cutoff" \notin r.killed
      BY <3>1
    <3> HIDE DEF r
    <3> QED
      BY <2>1, <2>3, <3>2, ServeStep
  <2> QED
    BY <2>2, <2>3
<1>5. CASE Restart
  <2>1. /\ epoch' = epoch + 1 /\ work' = [h \in Handlers |-> Idle]
        /\ UNCHANGED <<clock, minted, killed, served>>
        /\ subjects' = << >> /\ tenants' = << >>
    BY <1>5 DEF Restart, history
  <2>2. Instants(subjects)' /\ Instants(tenants)'
    BY <2>1 DEF Instants
  <2> QED
    BY <2>1, <2>2, RestartStep
<1>6. CASE Shared
  BY <1>6, SharedStep
<1> QED
  BY <1>1, <1>2, <1>3, <1>4, <1>5, <1>6 DEF Next, Shared

\* A statement that reaches its row cuts off what it was to kill: the database's
\* clock was at most Skew behind when it began.
LEMMA DoomedBefore ==
    ASSUME CutoffInv, NEW s \in sent, NEW j \in Doomed(s)
    PROVE  /\ j \in DOMAIN minted /\ minted[j].iat \in Int /\ s.cutoff \in Int
           /\ minted[j].iat =< s.cutoff
<1>1. Skew \in Nat
  BY PgRevocationsConstants
<1>2. /\ s.begun \in Nat /\ offset \in Int /\ -Skew =< offset /\ s.cutoff = s.begun + offset
  BY DEF CutoffInv, Typed
<1>3. j \in DOMAIN minted /\ minted[j].at + Skew =< s.begun
  BY DEF Doomed
<1>4. minted[j].iat \in Nat /\ minted[j].at \in Nat /\ minted[j].iat =< minted[j].at
  BY <1>3 DEF CutoffInv, Stamped
<1> QED
  BY <1>1, <1>2, <1>3, <1>4

\* One row of a table set to the greatest of itself and the newcomer.
LEMMA UpsertAdvances ==
    ASSUME NEW rows, NEW k, NEW v \in Int, \A x \in DOMAIN rows : rows[x] \in Int
    PROVE  /\ Advances(rows, Upsert(rows, k, v))
           /\ k \in DOMAIN Upsert(rows, k, v) /\ Upsert(rows, k, v)[k] >= v
           /\ \A x \in DOMAIN Upsert(rows, k, v) : Upsert(rows, k, v)[x] \in Int
<1> DEFINE w == greatest(rows, k, v)
<1>1. w \in Int /\ w >= v /\ (k \in DOMAIN rows => w >= rows[k])
  BY GreatestIsGreatest
<1>2. Upsert(rows, k, v) = Put(rows, k, w)
  BY DEF Upsert
<1> HIDE DEF w
<1>3. /\ Advances(rows, Put(rows, k, w)) /\ Put(rows, k, w)[k] = w
      /\ k \in DOMAIN Put(rows, k, w)
  BY <1>1, PutAdvances
<1>4. \A x \in DOMAIN Put(rows, k, w) : Put(rows, k, w)[x] \in Int
  BY <1>1 DEF Put
<1> QED
  BY <1>1, <1>2, <1>3, <1>4

\* The steps of the tables and of the adapter in front of them.
LEMMA DatabaseStep ==
    ASSUME CutoffInv, PgStep
    PROVE  CutoffInv'
<1> USE DEF deployment, revocations, history
<1>0. /\ killed \in [{"token", "cutoff"} -> SUBSET Jtis]
      /\ work \in [Handlers -> {Idle} \cup [busy : {TRUE}, jti : Jtis]]
      /\ \A h \in Handlers : work[h] # Idle =>
            work[h].jti \in DOMAIN minted /\ minted[work[h].jti].key = epoch
      /\ clock \in Nat /\ offset \in Int
  BY DEF CutoffInv, Typed, Verified
<1>1. ASSUME NEW j \in DOMAIN minted, PgRevokeToken(j) PROVE CutoffInv'
  <2>1. /\ killed' = [killed EXCEPT !["token"] = @ \cup {j}]
        /\ UNCHANGED <<clock, epoch, minted, subjects, tenants, served, work, durable, offset, sent>>
    BY <1>1 DEF PgRevokeToken, Kill
  <2>2. j \in Jtis
    BY DEF CutoffInv, Stamped
  <2>3. killed' \in [{"token", "cutoff"} -> SUBSET Jtis] /\ killed'["cutoff"] = killed["cutoff"]
    BY <1>0, <2>1, <2>2
  <2> QED
    BY <1>0, <2>1, <2>3, QuietStep
<1>2. ASSUME NEW row, BeginCutoff(row) PROVE CutoffInv'
  <2>1. /\ sent' = sent \cup {[row |-> row, cutoff |-> clock + offset, begun |-> clock]}
        /\ UNCHANGED <<clock, epoch, minted, subjects, tenants, served, killed, work, durable, offset>>
    BY <1>2 DEF BeginCutoff, StoreNow, vars
  <2>2. \A s \in sent' : s \in sent \/ (s.begun \in Nat /\ s.cutoff = s.begun + offset)
    BY <1>0, <2>1
  <2> QED
    BY <1>0, <2>1, <2>2, QuietStep
<1>3. ASSUME NEW s \in sent, PgRevokeSubject(s) PROVE CutoffInv'
  <2>1. /\ durable /\ s.row.subject # ""
        /\ subjects' = Upsert(subjects, s.row, s.cutoff)
        /\ Kill("cutoff", Doomed(s)) /\ sent' = sent \ {s}
        /\ UNCHANGED <<clock, epoch, minted, work, served, tenants, offset, durable>>
    BY <1>3 DEF PgRevokeSubject
  <2>2. s.cutoff \in Int
    BY <1>0 DEF CutoffInv, Typed
  <2>3. /\ Advances(subjects, subjects') /\ s.row \in DOMAIN subjects'
        /\ subjects'[s.row] >= s.cutoff /\ \A x \in DOMAIN subjects' : subjects'[x] \in Int
    BY <2>1, <2>2, UpsertAdvances DEF CutoffInv, Instants
  <2>4. Instants(subjects)' /\ Instants(tenants)' /\ Advances(tenants, tenants')
    <3>1. durable' = TRUE
      BY <2>1
    <3>2. \A x \in DOMAIN tenants : tenants[x] \in Int
      BY DEF CutoffInv, Instants
    <3>3. tenants' = tenants
      BY <2>1
    <3>4. Instants(subjects)' /\ Instants(tenants)'
      BY <2>3, <3>1, <3>2, <3>3 DEF Instants
    <3> QED
      BY <3>2, <3>3, <3>4 DEF Advances
  <2>5. ASSUME NEW j \in Doomed(s) PROVE Cut(j)'
    <3>1. minted[j].user = s.row
      BY <2>1 DEF Doomed, Covered
    <3>2. minted[j].iat \in Int /\ minted[j].iat =< s.cutoff
      BY DoomedBefore
    <3>3. s.row \in DOMAIN subjects' /\ minted[j].iat =< subjects'[s.row]
      BY <2>2, <2>3, <3>2
    <3> QED
      BY <2>1, <3>1, <3>3 DEF Cut, AtOrBefore
  <2>6. Doomed(s) \in SUBSET DOMAIN minted
    BY DEF Doomed
  <2> QED
    BY <2>1, <2>3, <2>4, <2>5, <2>6, KillStep
<1>4. ASSUME NEW s \in sent, PgRevokeTenant(s) PROVE CutoffInv'
  <2>1. /\ durable /\ s.row.subject = ""
        /\ tenants' = Upsert(tenants, s.row.tenant, s.cutoff)
        /\ Kill("cutoff", Doomed(s)) /\ sent' = sent \ {s}
        /\ UNCHANGED <<clock, epoch, minted, work, served, subjects, offset, durable>>
    BY <1>4 DEF PgRevokeTenant
  <2>2. s.cutoff \in Int
    BY <1>0 DEF CutoffInv, Typed
  <2>3. /\ Advances(tenants, tenants') /\ s.row.tenant \in DOMAIN tenants'
        /\ tenants'[s.row.tenant] >= s.cutoff /\ \A x \in DOMAIN tenants' : tenants'[x] \in Int
    BY <2>1, <2>2, UpsertAdvances DEF CutoffInv, Instants
  <2>4. Instants(tenants)' /\ Instants(subjects)' /\ Advances(subjects, subjects')
    <3>1. durable' = TRUE
      BY <2>1
    <3>2. \A x \in DOMAIN subjects : subjects[x] \in Int
      BY DEF CutoffInv, Instants
    <3>3. subjects' = subjects
      BY <2>1
    <3>4. Instants(tenants)' /\ Instants(subjects)'
      BY <2>3, <3>1, <3>2, <3>3 DEF Instants
    <3> QED
      BY <3>2, <3>3, <3>4 DEF Advances
  <2>5. ASSUME NEW j \in Doomed(s) PROVE Cut(j)'
    <3>1. minted[j].user.tenant = s.row.tenant
      BY DEF Doomed, Covered
    <3>2. minted[j].iat \in Int /\ minted[j].iat =< s.cutoff
      BY DoomedBefore
    <3>3. s.row.tenant \in DOMAIN tenants' /\ minted[j].iat =< tenants'[s.row.tenant]
      BY <2>2, <2>3, <3>2
    <3> QED
      BY <2>1, <3>1, <3>3 DEF Cut, AtOrBefore
  <2>6. Doomed(s) \in SUBSET DOMAIN minted
    BY DEF Doomed
  <2> QED
    BY <2>1, <2>3, <2>4, <2>5, <2>6, KillStep
<1>5. ASSUME NEW s \in sent, LoseCutoff(s) PROVE CutoffInv'
  BY <1>0, <1>5, QuietStep DEF LoseCutoff, vars
<1>6. CASE DeleteExpired
  BY <1>0, <1>6, QuietStep DEF DeleteExpired
<1>7. ASSUME NEW h \in Handlers, PgDecide(h) PROVE CutoffInv'
  <2> DEFINE j == work[h].jti
             r == [jti |-> j, expired |-> clock > minted[j].exp \/ StoreNow > minted[j].exp,
                   killed |-> {how \in DOMAIN killed : j \in killed[how]}]
  <2>1. /\ work[h].busy
        /\ IF IsRevoked(j) THEN UNCHANGED served ELSE served' = served \cup {r}
        /\ work' = [work EXCEPT ![h] = Idle]
        /\ UNCHANGED <<clock, epoch, minted, subjects, tenants, killed, durable, offset, sent>>
    BY <1>7 DEF PgDecide, Serve
  <2>2. CASE IsRevoked(j)
    BY <1>0, <2>1, <2>2, AnsweredWork, QuietStep
  <2>3. CASE ~IsRevoked(j)
    <3>1. j \notin killed["cutoff"]
      BY <2>1, <2>3, ServedAlive
    <3>2. "cutoff" \notin r.killed
      BY <3>1
    <3> HIDE DEF r
    <3> QED
      BY <2>1, <2>3, <3>2, ServeStep
  <2> QED
    BY <2>2, <2>3
<1>8. ASSUME NEW h \in Handlers, LookupFailed(h) PROVE CutoffInv'
  BY <1>0, <1>8, AnsweredWork, QuietStep DEF LookupFailed
<1>9. CASE PgRestart
  <2>1. /\ epoch' = epoch + 1 /\ work' = [h \in Handlers |-> Idle]
        /\ UNCHANGED <<clock, minted, killed, served, durable, offset, sent, subjects, tenants>>
    BY <1>9 DEF PgRestart
  <2>2. Instants(subjects)' /\ Instants(tenants)'
    BY <2>1 DEF CutoffInv, Instants
  <2> QED
    BY <2>1, <2>2, RestartStep
<1> QED
  BY <1>1, <1>2, <1>3, <1>4, <1>5, <1>6, <1>7, <1>8, <1>9 DEF PgStep

-----------------------------------------------------------------------------
(* The theorems                                                            *)

LEMMA CutoffInvariant == PgSpec => []CutoffInv
<1>1. PgInit => CutoffInv
  <2> SUFFICES ASSUME PgInit PROVE CutoffInv
    OBVIOUS
  <2>1. /\ clock = 0 /\ epoch = 0 /\ minted = << >> /\ subjects = << >> /\ tenants = << >>
        /\ work = [h \in Handlers |-> Idle] /\ served = {} /\ sent = {}
        /\ killed = [how \in {"token", "cutoff"} |-> {}]
    BY DEF PgInit, Init
  <2>2. offset \in Int /\ -Skew =< offset
    BY PgRevocationsConstants DEF PgInit
  <2>3. Typed /\ Stamped /\ Verified
    BY <2>1, <2>2 DEF Typed, Stamped, Verified
  <2>4. Instants(subjects) /\ Instants(tenants) /\ Dead /\ CutoffIsFinal
    BY <2>1 DEF Instants, Dead, CutoffIsFinal
  <2> QED
    BY <2>3, <2>4 DEF CutoffInv
<1>2. CutoffInv /\ [PgNext]_pgVars => CutoffInv'
  <2> SUFFICES ASSUME CutoffInv, [PgNext]_pgVars PROVE CutoffInv'
    OBVIOUS
  <2>1. CASE UNCHANGED pgVars
    BY <2>1 DEF pgVars, vars, deployment, revocations, history, CutoffInv, Typed, Stamped,
                Instants, Verified, Cut, AtOrBefore, Dead, CutoffIsFinal
  <2> QED
    BY <2>1, MemoryStep, SharedStep, DatabaseStep DEF PgNext
<1> QED
  BY <1>1, <1>2, PTL DEF PgSpec

\* "kills every token this subject holds" (revoke.go:57, revocations.go:32): with
\* either store, once a cutoff has reached its row, no request bearing a token
\* minted before it, by more than the clocks may differ, passes the check.
THEOREM CutoffHolds == PgSpec => []CutoffIsFinal
<1>1. CutoffInv => CutoffIsFinal
  BY DEF CutoffInv
<1> QED
  BY <1>1, CutoffInvariant, PTL

\* "greatest() prevents a replayed or out-of-order request from moving it
\* backwards" (revocations.go:33): no step of the gateway, its replicas or the
\* database moves a durable cutoff back.
THEOREM CutoffsAdvance == PgSpec => CutoffsOnlyAdvance
<1>1. ASSUME CutoffInv, [PgNext]_pgVars, durable
      PROVE  Advances(subjects, subjects') /\ Advances(tenants, tenants')
  <2>0. /\ \A k \in DOMAIN subjects : subjects[k] \in Int
        /\ \A k \in DOMAIN tenants : tenants[k] \in Int
        /\ \A s \in sent : s.cutoff \in Int
    BY <1>1 DEF CutoffInv, Instants, Typed
  <2>1. CASE subjects' = subjects /\ tenants' = tenants
    BY <2>0, <2>1 DEF Advances
  <2>2. ASSUME NEW s \in sent, PgRevokeSubject(s)
        PROVE  Advances(subjects, subjects') /\ Advances(tenants, tenants')
    <3>1. subjects' = Upsert(subjects, s.row, s.cutoff) /\ tenants' = tenants
      BY <2>2 DEF PgRevokeSubject
    <3>2. Advances(subjects, Upsert(subjects, s.row, s.cutoff))
      BY <2>0, UpsertAdvances
    <3>3. Advances(tenants, tenants')
      BY <2>0, <3>1 DEF Advances
    <3> QED
      BY <3>1, <3>2, <3>3
  <2>3. ASSUME NEW s \in sent, PgRevokeTenant(s)
        PROVE  Advances(subjects, subjects') /\ Advances(tenants, tenants')
    <3>1. tenants' = Upsert(tenants, s.row.tenant, s.cutoff) /\ subjects' = subjects
      BY <2>3 DEF PgRevokeTenant
    <3>2. Advances(tenants, Upsert(tenants, s.row.tenant, s.cutoff))
      BY <2>0, UpsertAdvances
    <3>3. Advances(subjects, subjects')
      BY <2>0, <3>1 DEF Advances
    <3> QED
      BY <3>1, <3>2, <3>3
  <2>4. \/ subjects' = subjects /\ tenants' = tenants
        \/ \E s \in sent : PgRevokeSubject(s) \/ PgRevokeTenant(s)
    <3> USE DEF revocations
    <3>1. CASE UNCHANGED pgVars
      BY <3>1 DEF pgVars, vars
    <3>2. CASE Shared
      BY <3>2 DEF Shared, Authenticate, Exchange, VerifyToken, RefuseProof, Tick
    <3>3. CASE PgStep
      BY <3>3 DEF PgStep, PgRevokeToken, BeginCutoff, LoseCutoff, DeleteExpired, PgDecide,
                  LookupFailed, PgRestart, vars
    <3> QED
      BY <1>1, <3>1, <3>2, <3>3 DEF PgNext
  <2> QED
    BY <2>1, <2>2, <2>3, <2>4
<1>2. CutoffInv /\ [PgNext]_pgVars =>
        [durable => /\ \A u \in DOMAIN subjects : u \in DOMAIN subjects' /\ subjects'[u] >= subjects[u]
                    /\ \A t \in DOMAIN tenants : t \in DOMAIN tenants' /\ tenants'[t] >= tenants[t]]_pgVars
  BY <1>1 DEF Advances
<1> QED
  BY <1>2, CutoffInvariant, PTL DEF PgSpec, CutoffsOnlyAdvance

-----------------------------------------------------------------------------
(* Types                                                                   *)

\* The cutoff statements under way name a row of one of the two kinds.
Statements == [row : Users \cup [tenant : Tenants, subject : {""}], cutoff : Nat, begun : Nat]

TypeInv ==
    /\ TypeOK
    /\ sent \subseteq Statements
    /\ offset \in Int /\ (~durable => offset = 0)

\* Steps of the gateway with the in-memory store, and those that involve no
\* store.
LEMMA MemoryTyped ==
    ASSUME TypeOK, Next
    PROVE  TypeOK'
<1> USE DEF revocations, history
<1>1. ASSUME NEW u \in Users, Authenticate(u) PROVE TypeOK'
  <2>1. grants' \subseteq [user : Users, authTime : Nat]
    BY <1>1 DEF Authenticate, TypeOK
  <2> QED
    BY <1>1, <2>1 DEF Authenticate, TypeOK
<1>2. ASSUME NEW u \in Users, RevokeSubject(u) PROVE TypeOK'
  <2>1. subjects' = Put(subjects, u, clock)
    BY <1>2 DEF RevokeSubject
  <2>2. DOMAIN subjects' \subseteq Users /\ \A x \in DOMAIN subjects' : subjects'[x] \in Nat
    BY <2>1 DEF Put, TypeOK
  <2> QED
    BY <1>2, <2>2 DEF RevokeSubject, TypeOK
<1>3. ASSUME NEW t \in Tenants, RevokeTenant(t) PROVE TypeOK'
  <2>1. tenants' = Put(tenants, t, clock)
    BY <1>3 DEF RevokeTenant
  <2>2. DOMAIN tenants' \subseteq Tenants /\ \A x \in DOMAIN tenants' : tenants'[x] \in Nat
    BY <2>1 DEF Put, TypeOK
  <2> QED
    BY <1>3, <2>2 DEF RevokeTenant, TypeOK
<1>4. ASSUME NEW j \in Jtis, NEW g \in grants, Exchange(j, g) PROVE TypeOK'
  <2> DEFINE c == Mint(g)
  <2>1. c \in Claims /\ c.iat =< c.at
    <3>1. clock \in Nat /\ clock + AccessTokenTTL \in Nat
      BY SessionsConstants DEF TypeOK
    <3>2. Unix(clock) \in Nat /\ Unix(clock) =< clock /\ Expiry(clock) \in Nat
      BY <3>1, UnixBelow DEF Expiry
    <3>3. g.user \in Users /\ g.authTime \in Nat /\ epoch \in Nat
      BY DEF TypeOK
    <3> QED
      BY <3>1, <3>2, <3>3 DEF Mint, Claims
  <2> HIDE DEF c
  <2>2. /\ minted' = Put(minted, j, c) /\ grants' \subseteq grants
        /\ UNCHANGED <<clock, tokens, subjects, tenants, work, epoch>>
    BY <1>4 DEF Exchange, c
  <2>3. /\ DOMAIN minted' = DOMAIN minted \cup {j}
        /\ \A k \in DOMAIN minted' : minted'[k] \in Claims /\ minted'[k].iat =< minted'[k].at
    BY <2>1, <2>2 DEF Put, TypeOK
  <2> QED
    BY <2>2, <2>3 DEF TypeOK
<1>5. ASSUME NEW j \in DOMAIN minted, RevokeToken(j) PROVE TypeOK'
  <2>1. tokens' = sweepLocked(Put(tokens, j, minted[j].exp))
    BY <1>5 DEF RevokeToken
  <2>2. minted[j].exp \in Nat
    BY DEF TypeOK, Claims
  <2>3. DOMAIN tokens' \subseteq DOMAIN minted /\ \A k \in DOMAIN tokens' : tokens'[k] \in Nat
    BY <2>1, <2>2 DEF sweepLocked, Restrict, Put, TypeOK
  <2> QED
    BY <1>5, <2>3 DEF RevokeToken, TypeOK
<1>6. ASSUME NEW h \in Handlers, NEW j \in DOMAIN minted, VerifyToken(h, j) PROVE TypeOK'
  <2> DEFINE x == [busy |-> TRUE, jti |-> j]
  <2>1. work' = [work EXCEPT ![h] = x]
    BY <1>6 DEF VerifyToken
  <2>2. x \in [busy : {TRUE}, jti : Jtis]
    BY DEF TypeOK
  <2> HIDE DEF x
  <2>3. work' \in [Handlers -> {Idle} \cup [busy : {TRUE}, jti : Jtis]]
    BY <2>1, <2>2 DEF TypeOK
  <2> QED
    BY <1>6, <2>3 DEF VerifyToken, TypeOK
<1>7. ASSUME NEW h \in Handlers, RefuseProof(h) \/ Decide(h) PROVE TypeOK'
  <2>1. /\ work' = [work EXCEPT ![h] = Idle]
        /\ UNCHANGED <<clock, grants, minted, tokens, subjects, tenants, epoch>>
    BY <1>7 DEF RefuseProof, Decide
  <2>2. work' \in [Handlers -> {Idle} \cup [busy : {TRUE}, jti : Jtis]]
    BY <2>1 DEF TypeOK
  <2> QED
    BY <2>1, <2>2 DEF TypeOK
<1>8. CASE Tick
  <2>1. clock' \in Nat
    BY <1>8 DEF Tick, TypeOK
  <2> QED
    BY <1>8, <2>1 DEF Tick, TypeOK
<1>9. CASE Restart
  <2>1. /\ epoch' \in Nat /\ grants' = {}
        /\ DOMAIN tokens' = {} /\ DOMAIN subjects' = {} /\ DOMAIN tenants' = {}
        /\ UNCHANGED <<clock, minted>>
    BY <1>9 DEF Restart, TypeOK
  <2>2. work' \in [Handlers -> {Idle} \cup [busy : {TRUE}, jti : Jtis]]
    BY <1>9 DEF Restart
  <2> QED
    BY <2>1, <2>2 DEF TypeOK
<1> QED
  BY <1>1, <1>2, <1>3, <1>4, <1>5, <1>6, <1>7, <1>8, <1>9 DEF Next

\* A row keeps the type of its key and its value.
LEMMA UpsertTyped ==
    ASSUME NEW K, NEW rows, DOMAIN rows \subseteq K, \A x \in DOMAIN rows : rows[x] \in Nat,
           NEW k \in K, NEW v \in Nat
    PROVE  /\ DOMAIN Upsert(rows, k, v) = DOMAIN rows \cup {k}
           /\ \A x \in DOMAIN Upsert(rows, k, v) : Upsert(rows, k, v)[x] \in Nat
BY DEF Upsert, greatest, Put

\* The database's clock shows an instant.
LEMMA StoreClock ==
    ASSUME TypeInv
    PROVE  StoreNow \in Int /\ (StoreNow >= 0 => StoreNow \in Nat)
<1>1. clock \in Int /\ offset \in Int
  BY DEF TypeInv, TypeOK
<1> QED
  BY <1>1 DEF StoreNow

\* The steps of the tables and of the adapter in front of them.
LEMMA DatabaseTyped ==
    ASSUME TypeInv, PgStep
    PROVE  TypeInv'
<1> USE DEF TypeInv, deployment, revocations, history
<1>1. ASSUME NEW j \in DOMAIN minted, PgRevokeToken(j) PROVE TypeInv'
  <2>1. tokens' = Upsert(tokens, j, minted[j].exp) /\ minted[j].exp \in Nat
    BY <1>1 DEF PgRevokeToken, TypeOK, Claims
  <2>2. DOMAIN tokens' \subseteq DOMAIN minted /\ \A k \in DOMAIN tokens' : tokens'[k] \in Nat
    BY <2>1 DEF Upsert, greatest, Put, TypeOK
  <2> QED
    BY <1>1, <2>2 DEF PgRevokeToken, TypeOK
<1>2. ASSUME NEW row \in Users \cup [tenant : Tenants, subject : {""}], BeginCutoff(row)
      PROVE  TypeInv'
  <2> DEFINE s == [row |-> row, cutoff |-> StoreNow, begun |-> clock]
  <2>1. sent' = sent \cup {s} /\ UNCHANGED <<vars, deployment>>
    BY <1>2 DEF BeginCutoff
  <2>2. StoreNow >= 0
    BY <1>2 DEF BeginCutoff
  <2>3. clock \in Nat
    BY DEF TypeOK
  <2>4. StoreNow \in Nat
    BY <2>2, StoreClock
  <2>5. s \in Statements
    <3> HIDE DEF TypeInv
    <3>1. s.row = row /\ s.cutoff \in Nat /\ s.begun \in Nat
      BY <2>3, <2>4
    <3> QED
      BY <3>1, <2>3, <2>4 DEF Statements
  <2> HIDE DEF s
  <2>6. sent' \subseteq Statements
    BY <2>1, <2>5
  <2> QED
    BY <2>1, <2>6 DEF vars, TypeOK
<1>3. ASSUME NEW s \in sent, PgRevokeSubject(s) PROVE TypeInv'
  <2>1. subjects' = Upsert(subjects, s.row, s.cutoff) /\ s.row.subject # ""
    BY <1>3 DEF PgRevokeSubject
  <2>2. s.row \in Users /\ s.cutoff \in Nat
    BY <2>1 DEF Statements
  <2>3. DOMAIN subjects' \subseteq Users /\ \A x \in DOMAIN subjects' : subjects'[x] \in Nat
    BY <2>1, <2>2 DEF Upsert, greatest, Put, TypeOK
  <2> QED
    BY <1>3, <2>3 DEF PgRevokeSubject, TypeOK
<1>4. ASSUME NEW s \in sent, PgRevokeTenant(s) PROVE TypeInv'
  <2>1. tenants' = Upsert(tenants, s.row.tenant, s.cutoff)
    BY <1>4 DEF PgRevokeTenant
  <2>2. s.row.tenant \in Tenants /\ s.cutoff \in Nat
    BY DEF Statements, Tenants
  <2>3. DOMAIN tenants' \subseteq Tenants /\ \A x \in DOMAIN tenants' : tenants'[x] \in Nat
    BY <2>1, <2>2 DEF Upsert, greatest, Put, TypeOK
  <2> QED
    BY <1>4, <2>3 DEF PgRevokeTenant, TypeOK
<1>5. ASSUME NEW s \in sent, LoseCutoff(s) PROVE TypeInv'
  BY <1>5 DEF LoseCutoff, vars, TypeOK
<1>6. CASE DeleteExpired
  <2>1. tokens' = Restrict(tokens, {j \in DOMAIN tokens : tokens[j] >= StoreNow})
    BY <1>6 DEF DeleteExpired
  <2>2. DOMAIN tokens' \subseteq DOMAIN minted /\ \A k \in DOMAIN tokens' : tokens'[k] \in Nat
    BY <2>1 DEF Restrict, TypeOK
  <2> QED
    BY <1>6, <2>2 DEF DeleteExpired, TypeOK
<1>7. ASSUME NEW h \in Handlers, PgDecide(h) \/ LookupFailed(h) PROVE TypeInv'
  <2>1. /\ work' = [work EXCEPT ![h] = Idle]
        /\ UNCHANGED <<clock, grants, minted, tokens, subjects, tenants, epoch, durable, offset,
                       sent>>
    BY <1>7 DEF PgDecide, LookupFailed
  <2>2. work' \in [Handlers -> {Idle} \cup [busy : {TRUE}, jti : Jtis]]
    BY <2>1 DEF TypeOK
  <2> QED
    BY <2>1, <2>2 DEF TypeOK
<1>8. CASE PgRestart
  <2>1. work' \in [Handlers -> {Idle} \cup [busy : {TRUE}, jti : Jtis]] /\ epoch' \in Nat
    BY <1>8 DEF PgRestart, TypeOK
  <2> QED
    BY <1>8, <2>1 DEF PgRestart, TypeOK
<1> QED
  BY <1>1, <1>2, <1>3, <1>4, <1>5, <1>6, <1>7, <1>8 DEF PgStep

\* Every step keeps the types, and so they hold at all times.
LEMMA TypeInvariant == PgSpec => []TypeInv
<1>1. PgInit => TypeInv
  <2> SUFFICES ASSUME PgInit PROVE TypeInv
    OBVIOUS
  <2>1. /\ clock = 0 /\ epoch = 0 /\ grants = {} /\ sent = {}
        /\ DOMAIN minted = {} /\ DOMAIN tokens = {} /\ DOMAIN subjects = {} /\ DOMAIN tenants = {}
        /\ work = [h \in Handlers |-> Idle]
    BY DEF PgInit, Init
  <2>2. offset \in Int /\ (~durable => offset = 0)
    BY PgRevocationsConstants DEF PgInit
  <2> QED
    BY <2>1, <2>2 DEF TypeInv, TypeOK
<1>2. TypeInv /\ [PgNext]_pgVars => TypeInv'
  <2> SUFFICES ASSUME TypeInv, [PgNext]_pgVars PROVE TypeInv'
    OBVIOUS
  <2>1. CASE UNCHANGED pgVars
    BY <2>1 DEF pgVars, vars, deployment, revocations, TypeInv, TypeOK
  <2>2. CASE (Next \/ Shared) /\ UNCHANGED <<deployment, sent, statements>>
    <3>1. Shared => Next
      BY DEF Shared, Next
    <3>2. TypeOK'
      BY <2>2, <3>1, MemoryTyped DEF TypeInv
    <3> QED
      BY <2>2, <3>2 DEF TypeInv, deployment
  <2> QED
    BY <2>1, <2>2, DatabaseTyped DEF PgNext
<1> QED
  BY <1>1, <1>2, PTL DEF PgSpec

\* Tokens, revocations and requests have the types of the code's structures
\* with either store; in particular a cutoff is never before the first instant.
THEOREM SessionsTypeCorrect == PgSpec => []TypeOK
BY TypeInvariant, PTL DEF TypeInv

-----------------------------------------------------------------------------
(* Single tokens                                                           *)

\* One of the two clocks is past the token's expiry.
Expired(j) == clock > minted[j].exp \/ StoreNow > minted[j].exp

\* A revoked token of this process's key has its entry, or has expired; an
\* entry is of a revoked token and is kept until its expiry.
TokenInv ==
    /\ killed["token"] \subseteq DOMAIN minted
    /\ DOMAIN tokens \subseteq killed["token"]
    /\ \A j \in DOMAIN tokens : tokens[j] = minted[j].exp
    /\ \A j \in killed["token"] : minted[j].key = epoch => j \in DOMAIN tokens \/ Expired(j)
    /\ \A j \in DOMAIN minted : minted[j].iat = Unix(minted[j].at)
    /\ RevokedUntilExpiry

\* What the steps need of the other invariants.
Context == TypeInv /\ CutoffInv

\* What those say, in the form the steps below use.
LEMMA ContextFacts ==
    ASSUME Context
    PROVE  /\ clock \in Nat /\ offset \in Int /\ epoch \in Nat /\ (~durable => offset = 0)
           /\ \A j \in DOMAIN minted : /\ minted[j].exp \in Nat /\ minted[j].at \in Nat
                                       /\ minted[j].key \in Nat /\ minted[j].key =< epoch
           /\ killed \in [{"token", "cutoff"} -> SUBSET Jtis]
           /\ \A h \in Handlers : work[h].busy =>
                 work[h].jti \in DOMAIN minted /\ minted[work[h].jti].key = epoch
<1>1. clock \in Nat /\ offset \in Int /\ epoch \in Nat /\ (~durable => offset = 0)
  BY DEF Context, TypeInv, TypeOK
<1>2. \A j \in DOMAIN minted : minted[j].exp \in Nat /\ minted[j].at \in Nat
  BY DEF Context, TypeInv, TypeOK, Claims
<1>3. \A j \in DOMAIN minted : minted[j].key \in Nat /\ minted[j].key =< epoch
  BY DEF Context, CutoffInv, Stamped
<1>4. killed \in [{"token", "cutoff"} -> SUBSET Jtis]
  BY DEF Context, CutoffInv, Typed
<1>5. \A h \in Handlers : work[h].busy =>
          work[h].jti \in DOMAIN minted /\ minted[work[h].jti].key = epoch
  BY DEF Context, CutoffInv, Verified, Idle
<1> QED
  BY <1>1, <1>2, <1>3, <1>4, <1>5

\* Time passes at most.
LEMMA TokenQuiet ==
    ASSUME Context, TokenInv, UNCHANGED <<minted, tokens, served, offset, epoch>>,
           killed'["token"] = killed["token"], clock' = clock \/ clock' = clock + 1
    PROVE  TokenInv'
<1>1. \A j \in DOMAIN minted : Expired(j) => Expired(j)'
  BY ContextFacts DEF Expired, StoreNow
<1>2. \A j \in killed'["token"] : minted'[j].key = epoch' => j \in DOMAIN tokens' \/ Expired(j)'
  BY <1>1 DEF TokenInv
<1> QED
  BY <1>2 DEF TokenInv, RevokedUntilExpiry

\* RevokeToken in either store: the entry of one token is written, and at most
\* expired ones are swept.
LEMMA TokenRevoke ==
    ASSUME Context, TokenInv, UNCHANGED <<clock, minted, served, offset, epoch>>,
           NEW js \in SUBSET DOMAIN minted,
           killed' = [killed EXCEPT !["token"] = @ \cup js],
           DOMAIN tokens' \subseteq DOMAIN tokens \cup js,
           \A k \in DOMAIN tokens' : tokens'[k] = minted[k].exp,
           \A k \in (DOMAIN tokens \cup js) \ DOMAIN tokens' : Expired(k)
    PROVE  TokenInv'
<1>1. killed'["token"] = killed["token"] \cup js
  BY ContextFacts
<1>2. \A j \in DOMAIN minted : Expired(j) <=> Expired(j)'
  BY DEF Expired, StoreNow
<1>3. \A j \in killed'["token"] : minted'[j].key = epoch' => j \in DOMAIN tokens' \/ Expired(j)'
  BY <1>1, <1>2 DEF TokenInv
<1> QED
  BY <1>1, <1>3 DEF TokenInv, RevokedUntilExpiry

\* A request is let through, with what is known of its token.
LEMMA TokenServe ==
    ASSUME Context, TokenInv, UNCHANGED <<clock, minted, tokens, killed, offset, epoch>>,
           NEW h \in Handlers, work[h].busy, ~IsRevoked(work[h].jti), NEW r,
           r.killed = {how \in DOMAIN killed : work[h].jti \in killed[how]},
           Expired(work[h].jti) => r.expired,
           served' = served \cup {r}
    PROVE  TokenInv'
<1>1. work[h].jti \in DOMAIN minted /\ minted[work[h].jti].key = epoch
  BY ContextFacts
<1>2. work[h].jti \notin DOMAIN tokens
  BY DEF IsRevoked
<1>3. "token" \in r.killed => r.expired
  BY <1>1, <1>2 DEF TokenInv
<1>4. RevokedUntilExpiry'
  BY <1>3 DEF TokenInv, RevokedUntilExpiry
<1>5. \A j \in DOMAIN minted : Expired(j) <=> Expired(j)'
  BY DEF Expired, StoreNow
<1>6. \A j \in killed'["token"] : minted'[j].key = epoch' => j \in DOMAIN tokens' \/ Expired(j)'
  BY <1>5 DEF TokenInv
<1> QED
  BY <1>4, <1>6 DEF TokenInv

\* A new process has a new key: what the old one forgets is dead with it.
LEMMA TokenRestart ==
    ASSUME Context, TokenInv, epoch' = epoch + 1, UNCHANGED <<minted, served, killed>>,
           tokens' = tokens \/ DOMAIN tokens' = {}
    PROVE  TokenInv'
<1>1. \A j \in DOMAIN minted : minted[j].key # epoch'
  BY ContextFacts
<1>2. CASE tokens' = tokens
  BY <1>1, <1>2 DEF TokenInv, RevokedUntilExpiry
<1>3. CASE DOMAIN tokens' = {}
  BY <1>1, <1>3 DEF TokenInv, RevokedUntilExpiry
<1> QED
  BY <1>2, <1>3

\* A new token has no entry.
LEMMA TokenExchange ==
    ASSUME Context, TokenInv, NEW j \in Jtis, NEW g \in grants, Exchange(j, g), UNCHANGED offset
    PROVE  TokenInv'
<1> DEFINE c == Mint(g)
<1>1. /\ j \notin DOMAIN minted /\ minted' = Put(minted, j, c)
      /\ UNCHANGED <<clock, tokens, served, killed, epoch>>
  BY DEF Exchange, revocations, history
<1>2. c.iat = Unix(c.at)
  BY DEF Mint
<1> HIDE DEF c
<1>3. /\ DOMAIN minted' = DOMAIN minted \cup {j} /\ minted'[j] = c
      /\ \A k \in DOMAIN minted : minted'[k] = minted[k]
  BY <1>1 DEF Put
<1>4. \A k \in DOMAIN minted : Expired(k) <=> Expired(k)'
  BY <1>1, <1>3 DEF Expired, StoreNow
<1>5. \A k \in killed'["token"] : minted'[k].key = epoch' => k \in DOMAIN tokens' \/ Expired(k)'
  BY <1>1, <1>3, <1>4 DEF TokenInv
<1>6. \A k \in DOMAIN minted' : minted'[k].iat = Unix(minted'[k].at)
  BY <1>2, <1>3 DEF TokenInv
<1> QED
  BY <1>1, <1>3, <1>5, <1>6 DEF TokenInv, RevokedUntilExpiry

\* The steps that involve no store.
LEMMA TokenShared ==
    ASSUME Context, TokenInv, Shared, UNCHANGED offset
    PROVE  TokenInv'
<1>1. CASE \E j \in Jtis, g \in grants : Exchange(j, g)
  BY <1>1, TokenExchange
<1>2. CASE \/ \E u \in Users : Authenticate(u)
           \/ \E j \in DOMAIN minted, h \in Handlers : VerifyToken(h, j)
           \/ \E h \in Handlers : RefuseProof(h)
           \/ Tick
  BY <1>2, TokenQuiet DEF Authenticate, VerifyToken, RefuseProof, Tick, revocations, history
<1> QED
  BY <1>1, <1>2 DEF Shared

\* The steps of the in-memory store, where the two clocks are one.
LEMMA TokenMemory ==
    ASSUME Context, TokenInv, Next, UNCHANGED offset, ~durable
    PROVE  TokenInv'
<1> USE DEF revocations, history
<1>0. clock \in Nat /\ offset = 0
  BY ContextFacts
<1>1. ASSUME NEW j \in DOMAIN minted, RevokeToken(j) PROVE TokenInv'
  <2> DEFINE m == Put(tokens, j, minted[j].exp)
  <2>1. /\ tokens' = Restrict(m, {k \in DOMAIN m : clock =< m[k]})
        /\ killed' = [killed EXCEPT !["token"] = @ \cup {j}]
        /\ UNCHANGED <<clock, minted, served, epoch>>
    BY <1>1 DEF RevokeToken, sweepLocked, Kill
  <2>2. /\ DOMAIN m = DOMAIN tokens \cup {j}
        /\ \A k \in DOMAIN m : m[k] = minted[k].exp /\ m[k] \in Nat
    <3>1. \A k \in DOMAIN tokens : tokens[k] = minted[k].exp /\ k \in DOMAIN minted
      BY DEF TokenInv
    <3>2. \A k \in DOMAIN minted : minted[k].exp \in Nat
      BY ContextFacts
    <3> QED
      BY <3>1, <3>2 DEF Put
  <2> HIDE DEF m
  <2>3. /\ DOMAIN tokens' \subseteq DOMAIN m
        /\ \A k \in DOMAIN tokens' : tokens'[k] = m[k]
        /\ \A k \in DOMAIN m \ DOMAIN tokens' : ~(clock =< m[k])
    BY <2>1 DEF Restrict
  <2>4. \A k \in DOMAIN m \ DOMAIN tokens' : Expired(k)
    BY <1>0, <2>2, <2>3 DEF Expired
  <2> QED
    <3>1. /\ {j} \in SUBSET DOMAIN minted /\ UNCHANGED <<clock, minted, served, offset, epoch>>
          /\ DOMAIN tokens' \subseteq DOMAIN tokens \cup {j}
          /\ \A k \in DOMAIN tokens' : tokens'[k] = minted[k].exp
          /\ \A k \in (DOMAIN tokens \cup {j}) \ DOMAIN tokens' : Expired(k)
      BY <2>1, <2>2, <2>3, <2>4
    <3> QED
      BY <2>1, <3>1, TokenRevoke
<1>2. ASSUME NEW h \in Handlers, Decide(h) PROVE TokenInv'
  <2> DEFINE j == work[h].jti
             r == [jti |-> j, expired |-> clock > minted[j].exp,
                   killed |-> {how \in DOMAIN killed : j \in killed[how]}]
  <2>1. /\ work[h].busy
        /\ served' = IF IsRevoked(j) THEN served ELSE served \cup {r}
        /\ UNCHANGED <<clock, epoch, minted, tokens, killed>>
    BY <1>2 DEF Decide
  <2>2. CASE IsRevoked(j)
    BY <2>1, <2>2, TokenQuiet
  <2>3. CASE ~IsRevoked(j)
    <3>1. /\ r.killed = {how \in DOMAIN killed : j \in killed[how]}
          /\ r.expired = (clock > minted[j].exp)
      OBVIOUS
    <3> HIDE DEF r
    <3>2. Expired(j) => r.expired
      <4>1. StoreNow = clock
        BY <1>0 DEF StoreNow
      <4> QED
        BY <3>1, <4>1 DEF Expired
    <3> QED
      BY <2>1, <2>3, <3>1, <3>2, TokenServe
  <2> QED
    BY <2>2, <2>3
<1>3. CASE Restart
  BY <1>3, TokenRestart DEF Restart
<1>4. ASSUME NEW x, RevokeSubject(x) \/ RevokeTenant(x) PROVE TokenInv'
  <2>1. killed'["token"] = killed["token"]
    BY <1>4, ContextFacts DEF RevokeSubject, RevokeTenant, Kill
  <2> QED
    BY <1>4, <2>1, TokenQuiet DEF RevokeSubject, RevokeTenant
<1> QED
  BY <1>1, <1>2, <1>3, <1>4, TokenShared DEF Next, Shared

\* The steps of the tables and of the adapter in front of them.
LEMMA TokenDatabase ==
    ASSUME Context, TokenInv, PgStep
    PROVE  TokenInv'
<1> USE DEF revocations, history, deployment
<1>1. ASSUME NEW j \in DOMAIN minted, PgRevokeToken(j) PROVE TokenInv'
  <2>1. /\ tokens' = Upsert(tokens, j, minted[j].exp)
        /\ killed' = [killed EXCEPT !["token"] = @ \cup {j}]
        /\ UNCHANGED <<clock, minted, served, epoch, offset>>
    BY <1>1 DEF PgRevokeToken, Kill
  <2>2. \A k \in DOMAIN tokens : tokens[k] = minted[k].exp
    BY DEF TokenInv
  <2>3. greatest(tokens, j, minted[j].exp) = minted[j].exp
    BY <2>2 DEF greatest
  <2>4. /\ DOMAIN tokens' = DOMAIN tokens \cup {j}
        /\ \A k \in DOMAIN tokens' : tokens'[k] = minted[k].exp
    BY <2>1, <2>2, <2>3 DEF Upsert, Put
  <2> QED
    BY <2>1, <2>4, TokenRevoke
<1>2. CASE DeleteExpired
  <2>1. /\ tokens' = Restrict(tokens, {j \in DOMAIN tokens : tokens[j] >= StoreNow})
        /\ UNCHANGED <<clock, minted, served, epoch, offset, killed>>
    BY <1>2 DEF DeleteExpired
  <2>2. /\ DOMAIN tokens' \subseteq DOMAIN tokens
        /\ \A k \in DOMAIN tokens' : tokens'[k] = tokens[k]
        /\ \A k \in DOMAIN tokens \ DOMAIN tokens' : ~(tokens[k] >= StoreNow)
    BY <2>1 DEF Restrict
  <2>3. \A k \in DOMAIN tokens : tokens[k] = minted[k].exp /\ k \in DOMAIN minted
    BY DEF TokenInv
  <2>4. \A k \in DOMAIN tokens \ DOMAIN tokens' : Expired(k)
    <3>1. \A k \in DOMAIN minted : minted[k].exp \in Int
      BY ContextFacts
    <3>2. StoreNow \in Int
      BY StoreClock DEF Context
    <3>3. \A k \in DOMAIN tokens \ DOMAIN tokens' : StoreNow > minted[k].exp
      BY <2>2, <2>3, <3>1, <3>2
    <3> QED
      BY <3>3 DEF Expired
  <2>5. killed' = [killed EXCEPT !["token"] = @ \cup {}]
    BY <2>1, ContextFacts
  <2> QED
    <3>1. /\ {} \in SUBSET DOMAIN minted /\ UNCHANGED <<clock, minted, served, offset, epoch>>
          /\ DOMAIN tokens' \subseteq DOMAIN tokens \cup {}
          /\ \A k \in DOMAIN tokens' : tokens'[k] = minted[k].exp
          /\ \A k \in (DOMAIN tokens \cup {}) \ DOMAIN tokens' : Expired(k)
      BY <2>1, <2>2, <2>3, <2>4
    <3> QED
      BY <2>5, <3>1, TokenRevoke
<1>3. ASSUME NEW h \in Handlers, PgDecide(h) PROVE TokenInv'
  <2> DEFINE j == work[h].jti
             r == [jti |-> j, expired |-> clock > minted[j].exp \/ StoreNow > minted[j].exp,
                   killed |-> {how \in DOMAIN killed : j \in killed[how]}]
  <2>1. /\ work[h].busy
        /\ IF IsRevoked(j) THEN UNCHANGED served ELSE served' = served \cup {r}
        /\ UNCHANGED <<clock, epoch, minted, tokens, killed, offset>>
    BY <1>3 DEF PgDecide, Serve
  <2>2. CASE IsRevoked(j)
    BY <2>1, <2>2, TokenQuiet
  <2>3. CASE ~IsRevoked(j)
    <3>1. /\ r.killed = {how \in DOMAIN killed : j \in killed[how]}
          /\ r.expired = (clock > minted[j].exp \/ StoreNow > minted[j].exp)
      OBVIOUS
    <3> HIDE DEF r
    <3>2. Expired(j) => r.expired
      BY <3>1 DEF Expired
    <3> QED
      BY <2>1, <2>3, <3>1, <3>2, TokenServe
  <2> QED
    BY <2>2, <2>3
<1>4. CASE PgRestart
  BY <1>4, TokenRestart DEF PgRestart
<1>5. ASSUME NEW s, PgRevokeSubject(s) \/ PgRevokeTenant(s) PROVE TokenInv'
  <2>1. killed'["token"] = killed["token"]
    BY <1>5, ContextFacts DEF PgRevokeSubject, PgRevokeTenant, Kill
  <2> QED
    BY <1>5, <2>1, TokenQuiet DEF PgRevokeSubject, PgRevokeTenant
<1>6. ASSUME NEW x, BeginCutoff(x) \/ LoseCutoff(x) \/ LookupFailed(x) PROVE TokenInv'
  BY <1>6, TokenQuiet DEF BeginCutoff, LoseCutoff, LookupFailed, vars
<1> QED
  BY <1>1, <1>2, <1>3, <1>4, <1>5, <1>6 DEF PgStep

\* What is known of single tokens at all times.
LEMMA TokenInvariant == PgSpec => [](Context /\ TokenInv)
<1>1. PgInit => TokenInv
  <2> SUFFICES ASSUME PgInit PROVE TokenInv
    OBVIOUS
  <2>1. DOMAIN minted = {} /\ DOMAIN tokens = {} /\ killed["token"] = {} /\ served = {}
    BY DEF PgInit, Init
  <2> QED
    BY <2>1 DEF TokenInv, RevokedUntilExpiry
<1>2. Context /\ TokenInv /\ [PgNext]_pgVars => TokenInv'
  <2> SUFFICES ASSUME Context, TokenInv, [PgNext]_pgVars PROVE TokenInv'
    OBVIOUS
  <2>1. CASE UNCHANGED pgVars
    BY <2>1, TokenQuiet DEF pgVars, vars, deployment, revocations, history
  <2> QED
    BY <2>1, TokenMemory, TokenShared, TokenDatabase DEF PgNext, deployment
<1>3. TypeInv /\ CutoffInv <=> Context
  BY DEF Context
<1> QED
  BY <1>1, <1>2, <1>3, TypeInvariant, CutoffInvariant, PTL DEF PgSpec

\* "RevokeToken kills one token" (revoke.go:48), with either store, whatever
\* sweeps, deletes and restarts come between: until its own expiry, on both
\* clocks, a revoked token is never served.
THEOREM TokenStaysRevoked == PgSpec => []RevokedUntilExpiry
BY TokenInvariant, PTL DEF TokenInv

\* Of two instants in different seconds, the later second starts after the
\* earlier instant.
LEMMA LaterSecond ==
    ASSUME NEW t \in Nat, NEW c \in Nat, Unix(t) > Unix(c)
    PROVE  Unix(t) > c
<1> DEFINE a == t \div Second
           b == c \div Second
<1>1. Second \in Nat /\ Second > 0
  BY SessionsConstants
<1>2. /\ a \in Nat /\ b \in Nat
      /\ c = Second * b + (c % Second) /\ (c % Second) \in Nat /\ c % Second < Second
  BY <1>1
<1>3. a * Second > b * Second
  BY DEF Unix
<1>4. ASSUME NEW x \in Nat, NEW y \in Nat, NEW s \in Nat, x =< y PROVE x * s =< y * s
  <2>1. PICK d \in Nat : y = x + d
    BY <1>4
  <2>2. y * s = x * s + d * s /\ d * s \in Nat /\ x * s \in Nat
    BY <2>1
  <2> QED
    BY <2>2
<1> HIDE DEF a, b
<1>5. a >= b + 1
  <2> SUFFICES ASSUME a =< b PROVE FALSE
    BY <1>2
  <2>1. a * Second =< b * Second
    BY <1>1, <1>2, <1>4
  <2>2. a * Second \in Nat /\ b * Second \in Nat
    BY <1>1, <1>2
  <2> QED
    BY <1>3, <2>1, <2>2
<1>6. (b + 1) * Second =< a * Second
  BY <1>1, <1>2, <1>4, <1>5
<1>7. (b + 1) * Second = Second * b + Second /\ a * Second \in Nat /\ Second * b \in Nat
  BY <1>1, <1>2
<1>8. a * Second > c
  BY <1>1, <1>2, <1>6, <1>7
<1> QED
  BY <1>8 DEF Unix, a

\* "the cutoff is an instant, not a ban" (revoke.go:57), with either store: a
\* token of a later second than every cutoff of its user and tenant, itself
\* not revoked, is not refused.
THEOREM LaterTokensPass == PgSpec => []LaterSecondUnaffected
<1>1. Context /\ TokenInv => LaterSecondUnaffected
  <2> SUFFICES ASSUME Context, TokenInv, NEW j \in DOMAIN minted,
                      j \notin killed["token"],
                      minted[j].user \in DOMAIN subjects
                         => Unix(minted[j].at) > Unix(subjects[minted[j].user]),
                      minted[j].user.tenant \in DOMAIN tenants
                         => Unix(minted[j].at) > Unix(tenants[minted[j].user.tenant])
               PROVE  ~IsRevoked(j)
    BY DEF LaterSecondUnaffected
  <2> DEFINE c == minted[j]
  <2>1. c.at \in Nat /\ c.iat = Unix(c.at) /\ Unix(c.at) \in Nat
    BY ContextFacts, UnixBelow DEF TokenInv
  <2>2. j \notin DOMAIN tokens
    BY DEF TokenInv
  <2>3. ~AtOrBefore(c.iat, subjects, c.user)
    <3> SUFFICES ASSUME c.user \in DOMAIN subjects PROVE ~(c.iat =< subjects[c.user])
      BY DEF AtOrBefore
    <3>1. subjects[c.user] \in Nat
      BY DEF Context, TypeInv, TypeOK
    <3>2. Unix(c.at) > subjects[c.user]
      BY <2>1, <3>1, LaterSecond
    <3> QED
      BY <2>1, <3>1, <3>2
  <2>4. ~AtOrBefore(c.iat, tenants, c.user.tenant)
    <3> SUFFICES ASSUME c.user.tenant \in DOMAIN tenants PROVE ~(c.iat =< tenants[c.user.tenant])
      BY DEF AtOrBefore
    <3>1. tenants[c.user.tenant] \in Nat
      BY DEF Context, TypeInv, TypeOK
    <3>2. Unix(c.at) > tenants[c.user.tenant]
      BY <2>1, <3>1, LaterSecond
    <3> QED
      BY <2>1, <3>1, <3>2
  <2> QED
    BY <2>2, <2>3, <2>4 DEF IsRevoked
<1> QED
  BY <1>1, TokenInvariant, PTL
=============================================================================
