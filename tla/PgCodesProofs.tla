---------------------------- MODULE PgCodesProofs ---------------------------
(***************************************************************************)
(* Proofs about PgCodes, for any number of replicas and workers, any       *)
(* codes, grants, lifetime and clock skew: a code is in one place only,    *)
(* and the shared store implements OneShot with twice the skew as slack.   *)
(*                                                                         *)
(* The inductive invariant adds to OnePlace that two orphaned INSERTs are  *)
(* never of one code, and that wherever a code is, it is with its own      *)
(* grant and an expiry its issuer's clock could have computed.             *)
(***************************************************************************)
EXTENDS PgCodes, TLAPS

\* A call that holds a code: its INSERT is not executed yet, or its DELETE
\* has returned the row.
Holds(x) == x.pc \in {"insert", "returned"}

\* What is kept for a code is its own grant, with its issuer's expiry.
Own(m, c, row) ==
    /\ c \in DOMAIN m
    /\ row.grant = m[c].grant
    /\ row.expiresAt =< m[c].at + Skew + CodeTTL

AllOwn ==
    /\ \A c \in DOMAIN rows : Own(minted, c, rows[c])
    /\ \A w \in Workers : Holds(work[w]) => Own(minted, work[w].code, work[w].row)
    /\ \A s \in orphans : s.pc = "insert" => Own(minted, s.code, s.row)

OneOrphan ==
    \A s, r \in orphans : s.pc = "insert" /\ r.pc = "insert" /\ s.code = r.code => s = r

PgInv == TypeOK /\ OnePlace /\ OneOrphan /\ AllOwn

-----------------------------------------------------------------------------
(* The data                                                                *)

\* What a call of each kind consists of (adapter.go, postgres.go).
LEMMA CallShape ==
    ASSUME NEW x \in Calls
    PROVE  /\ x.pc = "insert" => x \in [pc : {"insert"}, code : Codes, row : Rows]
           /\ x.pc = "delete" => x \in [pc : {"delete"}, code : Codes, client : Clients,
                                        redirect : Redirects]
           /\ x.pc = "returned" => x \in [pc : {"returned"}, code : Codes, client : Clients,
                                          redirect : Redirects, row : Rows]
           /\ x.pc \in {"idle", "inserted", "norow", "insert", "delete", "returned"}
BY DEF Calls, Statements, Idle, Inserted, NoRow

\* A statement is an INSERT of a row or a DELETE.
LEMMA StatementShape ==
    ASSUME NEW s \in Statements
    PROVE  /\ s \in Calls
           /\ s.pc \in {"insert", "delete"}
           /\ s.code \in Codes
           /\ s.pc = "insert" => s.row \in Rows
BY DEF Calls, Statements

\* The calls that hold no code.
LEMMA EmptyHanded ==
    /\ {Idle, Inserted, NoRow(0)} \subseteq Calls
    /\ \A x \in {Idle, Inserted, NoRow(0)} : ~Holds(x)
    /\ \A d : NoRow(d) = NoRow(0)
BY DEF Calls, Holds, Idle, Inserted, NoRow

\* One worker goes on with its call.
LEMMA NextCall ==
    ASSUME TypeOK, NEW w \in Workers, NEW x \in Calls, work' = [work EXCEPT ![w] = x]
    PROVE  /\ work' \in [Workers -> Calls]
           /\ work'[w] = x
           /\ \A v \in Workers \ {w} : work'[v] = work[v]
BY DEF TypeOK

\* Taking a row out changes no other.
LEMMA WithoutIsPart ==
    ASSUME NEW f, NEW k
    PROVE  /\ DOMAIN Without(f, k) = DOMAIN f \ {k}
           /\ \A x \in DOMAIN f \ {k} : Without(f, k)[x] = f[x]
BY DEF Without, Restrict

-----------------------------------------------------------------------------
(* The steps of a call                                                     *)

\* An empty table, no calls.
LEMMA PgInit == Init => PgInv
<1> SUFFICES ASSUME Init PROVE PgInv
  OBVIOUS
<1>1. \A w \in Workers : work[w] = Idle
  BY DEF Init
<1>2. TypeOK
  BY EmptyHanded DEF Init, TypeOK
<1>3. OnePlace /\ OneOrphan /\ AllOwn
  BY <1>1, EmptyHanded DEF Init, OnePlace, OneOrphan, AllOwn, Holds
<1> QED
  BY <1>2, <1>3 DEF PgInv

\* A new code is nowhere yet; its expiry is by the replica's own clock.
LEMMA StartIssueStep ==
    ASSUME PgInv, NEW w \in Workers, NEW c \in Codes, NEW g \in Grants, StartIssue(w, c, g)
    PROVE  PgInv'
<1> DEFINE row == [grant |-> g, expiresAt |-> clock + Offset[w] + CodeTTL]
           x == InsertStmt(c, row)
<1> USE DEF PgInv
<1>1. /\ c \notin DOMAIN minted
      /\ minted' = Put(minted, c, [grant |-> g, at |-> clock])
      /\ work' = [work EXCEPT ![w] = x]
      /\ UNCHANGED <<clock, rows, orphans, out>>
  BY DEF StartIssue
<1>2. Offset[w] \in Int /\ Offset[w] =< Skew /\ CodeTTL \in Nat /\ Skew \in Nat /\ clock \in Nat
  BY CodeTTLAssumption, SkewAssumption DEF TypeOK
<1>3. row \in Rows /\ row.grant = g /\ row.expiresAt =< clock + Skew + CodeTTL
  BY <1>2 DEF Rows
<1>4. x \in Calls /\ x.pc = "insert" /\ x.code = c /\ x.row = row
  BY <1>3 DEF InsertStmt, Calls, Statements
<1> HIDE DEF row, x
<1>5. /\ work' \in [Workers -> Calls]
      /\ work'[w] = x
      /\ \A v \in Workers \ {w} : work'[v] = work[v]
  BY <1>1, <1>4, NextCall
<1>6. /\ DOMAIN minted' = DOMAIN minted \cup {c}
      /\ minted'[c] = [grant |-> g, at |-> clock]
      /\ \A d \in DOMAIN minted : minted'[d] = minted[d]
  BY <1>1 DEF Put
<1>7. TypeOK'
  BY <1>1, <1>2, <1>5, <1>6 DEF TypeOK
<1>8. \A d, r : Own(minted, d, r) => Own(minted', d, r) /\ d # c
  BY <1>1, <1>6 DEF Own
<1>9. Own(minted', c, row)
  BY <1>3, <1>6 DEF Own
<1>10. AllOwn'
  BY <1>1, <1>4, <1>5, <1>8, <1>9 DEF AllOwn, Holds
<1>11. OnePlace' /\ OneOrphan'
  BY <1>1, <1>4, <1>5, <1>8 DEF AllOwn, Holds, OnePlace, OneOrphan
<1> QED
  BY <1>7, <1>10, <1>11

\* The INSERT takes the code from the call into the table.
LEMMA ExecInsertStep ==
    ASSUME PgInv, NEW w \in Workers, ExecInsert(w)
    PROVE  PgInv'
<1> USE DEF PgInv
<1> DEFINE c == work[w].code
<1>1. /\ work[w].pc = "insert"
      /\ rows' = Put(rows, c, work[w].row)
      /\ work' = [work EXCEPT ![w] = Inserted]
      /\ UNCHANGED <<clock, orphans, minted, out>>
  BY DEF ExecInsert
<1>2. work[w].row \in Rows /\ Own(minted, c, work[w].row) /\ c \in DOMAIN minted
  BY <1>1, CallShape DEF TypeOK, AllOwn, Holds, Own
<1>3. /\ work' \in [Workers -> Calls]
      /\ ~Holds(work'[w])
      /\ \A v \in Workers \ {w} : work'[v] = work[v]
  BY <1>1, EmptyHanded, NextCall
<1>4. /\ DOMAIN rows' = DOMAIN rows \cup {c}
      /\ rows'[c] = work[w].row
      /\ \A d \in DOMAIN rows : d # c => rows'[d] = rows[d]
  BY <1>1 DEF Put
<1>5. TypeOK'
  BY <1>1, <1>2, <1>3, <1>4 DEF TypeOK
<1>6. AllOwn'
  BY <1>1, <1>2, <1>3, <1>4 DEF AllOwn
<1>7. OnePlace' /\ OneOrphan'
  BY <1>1, <1>3, <1>4 DEF OnePlace, OneOrphan, Holds
<1> QED
  BY <1>5, <1>6, <1>7

\* A call that goes on, or ends, without a code in its hands, and leaves the
\* table and the orphans as they are.
LEMMA EmptyHandedStep ==
    ASSUME PgInv, NEW w \in Workers, NEW x \in Calls, ~Holds(x),
           work' = [work EXCEPT ![w] = x],
           UNCHANGED <<clock, rows, orphans, minted>>,
           out' \in Seq([code : Codes, client : Clients, redirect : Redirects, at : Nat])
    PROVE  PgInv'
<1> USE DEF PgInv
<1>1. /\ work' \in [Workers -> Calls]
      /\ ~Holds(work'[w])
      /\ \A v \in Workers \ {w} : work'[v] = work[v]
  BY NextCall
<1>2. TypeOK'
  BY <1>1 DEF TypeOK
<1>3. AllOwn' /\ OnePlace' /\ OneOrphan'
  BY <1>1 DEF AllOwn, OnePlace, OneOrphan, Holds
<1> QED
  BY <1>2, <1>3

\* Redeem sends its statement.
LEMMA StartRedeemStep ==
    ASSUME PgInv, NEW w \in Workers, NEW c \in Codes, NEW client \in Clients,
           NEW redirect \in Redirects, StartRedeem(w, c, client, redirect)
    PROVE  PgInv'
<1> DEFINE x == DeleteStmt(c, client, redirect)
<1>1. x \in Calls /\ ~Holds(x)
  BY DEF DeleteStmt, Calls, Statements, Holds
<1>2. /\ work' = [work EXCEPT ![w] = x]
      /\ UNCHANGED <<clock, rows, orphans, minted, out>>
  BY DEF StartRedeem
<1> HIDE DEF x
<1> QED
  BY <1>1, <1>2, EmptyHandedStep DEF PgInv, TypeOK

\* DELETE ... RETURNING hands the code, if it is there, from the table to the
\* call, and to no other.
LEMMA ExecDeleteStep ==
    ASSUME PgInv, NEW w \in Workers, ExecDelete(w)
    PROVE  PgInv'
<1> USE DEF PgInv
<1> DEFINE d == work[w]
           x == Returned(d, rows[d.code])
<1>0. d.pc = "delete" /\ d \in [pc : {"delete"}, code : Codes, client : Clients,
                                redirect : Redirects]
  BY CallShape DEF ExecDelete, TypeOK
<1>1. CASE d.code \notin DOMAIN rows
  BY <1>1, EmptyHanded, EmptyHandedStep DEF ExecDelete, TypeOK
<1>2. CASE d.code \in DOMAIN rows
  <2>1. /\ rows' = Without(rows, d.code)
        /\ work' = [work EXCEPT ![w] = x]
        /\ UNCHANGED <<clock, orphans, minted, out>>
    BY <1>2 DEF ExecDelete, TakeRow
  <2>2. /\ DOMAIN rows' = DOMAIN rows \ {d.code}
        /\ \A c \in DOMAIN rows' : rows'[c] = rows[c]
    BY <2>1, WithoutIsPart
  <2>3. rows[d.code] \in Rows /\ Own(minted, d.code, rows[d.code])
    BY <1>2 DEF TypeOK, AllOwn
  <2>4. x \in Calls /\ x.pc = "returned" /\ x.code = d.code /\ x.row = rows[d.code]
    BY <1>0, <2>3 DEF Returned, Calls
  <2> HIDE DEF x
  <2>5. /\ work' \in [Workers -> Calls]
        /\ work'[w] = x
        /\ \A v \in Workers \ {w} : work'[v] = work[v]
    BY <2>1, <2>4, NextCall
  <2>6. TypeOK'
    BY <2>1, <2>2, <2>5 DEF TypeOK
  <2>7. AllOwn'
    BY <2>1, <2>2, <2>3, <2>4, <2>5 DEF AllOwn, Holds
  <2>8. OnePlace' /\ OneOrphan'
    BY <1>2, <2>1, <2>2, <2>4, <2>5 DEF OnePlace, OneOrphan
  <2> QED
    BY <2>6, <2>7, <2>8
<1> QED
  BY <1>1, <1>2

\* Redeem's checks and its return.
LEMMA FinishRedeemStep ==
    ASSUME PgInv, NEW w \in Workers, FinishRedeem(w)
    PROVE  PgInv'
<1> DEFINE r == work[w]
           e == [code |-> r.code, client |-> r.client, redirect |-> r.redirect, at |-> clock]
           Deliveries == [code : Codes, client : Clients, redirect : Redirects, at : Nat]
<1>1. r \in [pc : {"returned"}, code : Codes, client : Clients, redirect : Redirects, row : Rows]
  BY CallShape DEF FinishRedeem, PgInv, TypeOK
<1>2. e \in Deliveries /\ out \in Seq(Deliveries)
  BY <1>1 DEF PgInv, TypeOK
<1>3. out' = out \/ out' = Append(out, e)
  BY DEF FinishRedeem
<1>4. out' \in Seq(Deliveries)
  <2> HIDE DEF e, Deliveries
  <2> QED
    BY <1>2, <1>3
<1> QED
  BY <1>4, EmptyHanded, EmptyHandedStep DEF FinishRedeem

\* A call gives up: a statement that is pending becomes an orphan, with what
\* it holds.
LEMMA GiveUpStep ==
    ASSUME PgInv, NEW w \in Workers, GiveUp(w)
    PROVE  PgInv'
<1> USE DEF PgInv
<1>1. CASE work[w].pc \notin {"insert", "delete"}
  BY <1>1, EmptyHanded, EmptyHandedStep DEF GiveUp, TypeOK
<1>2. CASE work[w].pc \in {"insert", "delete"}
  <2>1. /\ orphans' = orphans \cup {work[w]}
        /\ work' = [work EXCEPT ![w] = Idle]
        /\ UNCHANGED <<clock, rows, minted, out>>
    BY <1>2 DEF GiveUp
  <2>2. work[w] \in Statements
    BY <1>2, CallShape DEF TypeOK, Statements
  <2>3. /\ work' \in [Workers -> Calls]
        /\ ~Holds(work'[w])
        /\ \A v \in Workers \ {w} : work'[v] = work[v]
    BY <2>1, EmptyHanded, NextCall
  <2>4. TypeOK'
    BY <2>1, <2>2, <2>3 DEF TypeOK
  <2>5. AllOwn'
    BY <2>1, <2>3 DEF AllOwn, Holds
  <2>6. OnePlace'
    BY <2>1, <2>3 DEF OnePlace, Holds
  <2>7. OneOrphan'
    BY <2>1 DEF OnePlace, OneOrphan
  <2> QED
    BY <2>4, <2>5, <2>6, <2>7
<1> QED
  BY <1>1, <1>2

-----------------------------------------------------------------------------
(* The steps of the database and of time                                   *)

\* A step that only takes rows or orphans away.
LEMMA LossStep ==
    ASSUME PgInv, UNCHANGED <<work, minted, out>>, clock' \in Nat,
           DOMAIN rows' \subseteq DOMAIN rows,
           \A c \in DOMAIN rows' : rows'[c] = rows[c],
           orphans' \subseteq orphans
    PROVE  PgInv'
<1> USE DEF PgInv
<1>1. TypeOK'
  BY DEF TypeOK
<1>2. AllOwn' /\ OnePlace' /\ OneOrphan'
  BY DEF AllOwn, OnePlace, OneOrphan
<1> QED
  BY <1>1, <1>2

\* Postgres executes an orphan: an INSERT puts its code into the table, where
\* it was not.
LEMMA ExecOrphanStep ==
    ASSUME PgInv, NEW s \in orphans, ExecOrphan(s)
    PROVE  PgInv'
<1> USE DEF PgInv
<1>0. s \in Statements /\ s.pc \in {"insert", "delete"}
  BY StatementShape DEF TypeOK
<1>1. CASE s.pc = "delete"
  <2>1. /\ rows' = Without(rows, s.code)
        /\ orphans' = orphans \ {s}
        /\ UNCHANGED <<clock, work, minted, out>>
    BY <1>1 DEF ExecOrphan
  <2>2. /\ DOMAIN rows' \subseteq DOMAIN rows
        /\ \A c \in DOMAIN rows' : rows'[c] = rows[c]
    BY <2>1 DEF Without, Restrict
  <2>3. clock' \in Nat
    BY <2>1 DEF TypeOK
  <2> QED
    BY <2>1, <2>2, <2>3, LossStep
<1>2. CASE s.pc = "insert"
  <2>1. /\ rows' = Put(rows, s.code, s.row)
        /\ orphans' = orphans \ {s}
        /\ UNCHANGED <<clock, work, minted, out>>
    BY <1>2 DEF ExecOrphan
  <2>2. /\ DOMAIN rows' = DOMAIN rows \cup {s.code}
        /\ rows'[s.code] = s.row
        /\ \A d \in DOMAIN rows : d # s.code => rows'[d] = rows[d]
    BY <2>1 DEF Put
  <2>3. s.row \in Rows /\ Own(minted, s.code, s.row) /\ s.code \in DOMAIN minted
    BY <1>0, <1>2, StatementShape DEF AllOwn, Own
  <2>4. TypeOK'
    BY <2>1, <2>2, <2>3 DEF TypeOK
  <2>5. AllOwn'
    BY <2>1, <2>2, <2>3 DEF AllOwn
  <2>6. OnePlace' /\ OneOrphan'
    BY <1>2, <2>1, <2>2 DEF OnePlace, OneOrphan
  <2> QED
    BY <2>4, <2>5, <2>6
<1> QED
  BY <1>0, <1>1, <1>2

\* Every step keeps the invariant.
LEMMA PgStep == PgInv /\ [Next]_vars => PgInv'
<1> SUFFICES ASSUME PgInv, [Next]_vars PROVE PgInv'
  OBVIOUS
<1>1. ASSUME NEW w \in Workers, Answer(w) PROVE PgInv'
  BY <1>1, EmptyHanded, EmptyHandedStep DEF Answer, PgInv, TypeOK
<1>2. ASSUME NEW s \in orphans, CancelOrphan(s) PROVE PgInv'
  BY <1>2, LossStep DEF CancelOrphan, PgInv, TypeOK
<1>3. CASE DeleteExpired
  BY <1>3, LossStep DEF DeleteExpired, Restrict, PgInv, TypeOK
<1>4. CASE Tick
  BY <1>4, LossStep DEF Tick, PgInv, TypeOK
<1>5. CASE UNCHANGED vars
  BY <1>5, LossStep DEF vars, PgInv, TypeOK
<1>6. ASSUME NEW w \in Workers, NEW c \in DOMAIN minted, NEW client \in Clients,
             NEW redirect \in Redirects, StartRedeem(w, c, client, redirect)
      PROVE  PgInv'
  BY <1>6, StartRedeemStep DEF PgInv, TypeOK
<1> QED
  BY <1>1, <1>2, <1>3, <1>4, <1>5, <1>6, StartIssueStep, ExecInsertStep, ExecDeleteStep,
     FinishRedeemStep, GiveUpStep, ExecOrphanStep DEF Next, GatewayStep

\* The inductive invariant of the shared store.
THEOREM PgInvariance == Spec => []PgInv
BY PgInit, PgStep, PTL DEF Spec

\* Every row, statement and answer has its type, whatever is late or lost.
THEOREM PgTypeCorrect == Spec => []TypeOK
BY PgInvariance, PTL DEF PgInv

\* A code is in the table, in one INSERT or in the hands of one call, never in
\* two of them: DELETE ... RETURNING on any number of replicas.
THEOREM CodeInOnePlace == Spec => []OnePlace
BY PgInvariance, PTL DEF PgInv

-----------------------------------------------------------------------------
(* The refinement: a code is live in the table, in an INSERT, or in hand.  *)

InHand(x) == \E w \in Workers : Holds(work[w]) /\ work[w].code = x
InOrphan(x) == \E s \in orphans : s.pc = "insert" /\ s.code = x

\* Live, element by element.
LEMMA LiveIs ==
    /\ \A x : x \in Live <=> x \in DOMAIN rows \/ InHand(x) \/ InOrphan(x)
    /\ \A x : x \in Live' <=> x \in DOMAIN rows' \/ InHand(x)' \/ InOrphan(x)'
BY DEF Live, Holds, InHand, InOrphan

\* A step that moves a code from one place to another is no step of OneShot.
LEMMA SameLive ==
    ASSUME UNCHANGED <<clock, minted, out>>,
           \A x : (x \in DOMAIN rows' \/ InHand(x)' \/ InOrphan(x)')
                    <=> (x \in DOMAIN rows \/ InHand(x) \/ InOrphan(x))
    PROVE  UNCHANGED Abstract!vars
<1>1. Live' = Live
  BY LiveIs
<1> QED
  BY <1>1 DEF Abstract!vars

\* A step that takes a code from its place loses it.
LEMMA LessLive ==
    ASSUME UNCHANGED <<clock, minted, out>>,
           \A x : (x \in DOMAIN rows' \/ InHand(x)' \/ InOrphan(x)')
                    => (x \in DOMAIN rows \/ InHand(x) \/ InOrphan(x))
    PROVE  Abstract!Lose
<1>1. Live' \subseteq Live
  BY LiveIs
<1> QED
  BY <1>1 DEF Abstract!Lose

\* Drawing a code and sending its INSERT is the abstract Issue.
LEMMA StartIssueRefines ==
    ASSUME PgInv, NEW w \in Workers, NEW c \in Codes, NEW g \in Grants, StartIssue(w, c, g)
    PROVE  Abstract!Issue(c, g)
<1> DEFINE x == InsertStmt(c, [grant |-> g, expiresAt |-> clock + Offset[w] + CodeTTL])
<1>1. /\ c \notin DOMAIN minted
      /\ minted' = Put(minted, c, [grant |-> g, at |-> clock])
      /\ work[w] = Idle
      /\ work' = [work EXCEPT ![w] = x]
      /\ UNCHANGED <<clock, rows, orphans, out>>
  BY DEF StartIssue
<1>2. x.pc = "insert" /\ x.code = c
  BY DEF InsertStmt
<1> HIDE DEF x
<1>3. work'[w] = x /\ \A v \in Workers \ {w} : work'[v] = work[v]
  BY <1>1 DEF PgInv, TypeOK
<1>4. \A y : InHand(y)' <=> InHand(y) \/ y = c
  BY <1>1, <1>2, <1>3, EmptyHanded DEF InHand, Holds
<1>5. \A y : InOrphan(y)' <=> InOrphan(y)
  BY <1>1 DEF InOrphan
<1>6. Live' = Live \cup {c}
  BY <1>1, <1>4, <1>5, LiveIs
<1> QED
  BY <1>1, <1>6 DEF Abstract!Issue, Abstract!Put, Put

\* The INSERT moves its code from the call to the table.
LEMMA ExecInsertRefines ==
    ASSUME PgInv, NEW w \in Workers, ExecInsert(w)
    PROVE  UNCHANGED Abstract!vars
<1>1. /\ work[w].pc = "insert"
      /\ rows' = Put(rows, work[w].code, work[w].row)
      /\ work' = [work EXCEPT ![w] = Inserted]
      /\ UNCHANGED <<clock, orphans, minted, out>>
  BY DEF ExecInsert
<1>2. work'[w] = Inserted /\ \A v \in Workers \ {w} : work'[v] = work[v]
  BY <1>1 DEF PgInv, TypeOK
<1>3. DOMAIN rows' = DOMAIN rows \cup {work[w].code}
  BY <1>1 DEF Put
<1>4. \A y : InHand(y) <=> InHand(y)' \/ y = work[w].code
  BY <1>1, <1>2, EmptyHanded DEF InHand, Holds
<1>5. \A y : InOrphan(y)' <=> InOrphan(y)
  BY <1>1 DEF InOrphan
<1> QED
  BY <1>1, <1>3, <1>4, <1>5, SameLive

\* The DELETE moves its code, if it is there, from the table to the call.
LEMMA ExecDeleteRefines ==
    ASSUME PgInv, NEW w \in Workers, ExecDelete(w)
    PROVE  UNCHANGED Abstract!vars
<1> DEFINE d == work[w]
<1>0. /\ d.pc = "delete"
      /\ UNCHANGED <<clock, orphans, minted, out>>
  BY DEF ExecDelete
<1>1. \A y : InOrphan(y)' <=> InOrphan(y)
  BY <1>0 DEF InOrphan
<1>2. CASE d.code \notin DOMAIN rows
  <2>1. rows' = rows /\ work' = [work EXCEPT ![w] = NoRow(d)]
    BY <1>2 DEF ExecDelete
  <2>2. /\ ~Holds(work'[w]) /\ ~Holds(work[w])
        /\ \A v \in Workers \ {w} : work'[v] = work[v]
    BY <1>0, <2>1, EmptyHanded DEF PgInv, TypeOK, Holds
  <2>3. \A y : InHand(y)' <=> InHand(y)
    BY <2>2 DEF InHand
  <2> QED
    BY <1>0, <1>1, <2>1, <2>3, SameLive
<1>3. CASE d.code \in DOMAIN rows
  <2> DEFINE x == Returned(d, rows[d.code])
  <2>1. rows' = Without(rows, d.code) /\ work' = [work EXCEPT ![w] = x]
    BY <1>3 DEF ExecDelete, TakeRow
  <2>2. x.pc = "returned" /\ x.code = d.code
    BY DEF Returned
  <2> HIDE DEF x
  <2>3. /\ work'[w] = x /\ ~Holds(work[w])
        /\ \A v \in Workers \ {w} : work'[v] = work[v]
    BY <1>0, <2>1 DEF PgInv, TypeOK, Holds
  <2>4. \A y : InHand(y)' <=> InHand(y) \/ y = d.code
    BY <2>2, <2>3 DEF InHand, Holds
  <2>5. DOMAIN rows' = DOMAIN rows \ {d.code}
    BY <2>1, WithoutIsPart
  <2> QED
    BY <1>0, <1>1, <1>3, <2>4, <2>5, SameLive
<1> QED
  BY <1>2, <1>3

\* Redeem's return is the delivery of the code, in time up to the skew of two
\* replicas, or its loss.
LEMMA FinishRedeemRefines ==
    ASSUME PgInv, NEW w \in Workers, FinishRedeem(w)
    PROVE  \/ Abstract!Lose
           \/ \E c \in Codes : Abstract!Deliver(c)
<1> DEFINE r == work[w]
<1>1. /\ r \in [pc : {"returned"}, code : Codes, client : Clients, redirect : Redirects,
               row : Rows]
      /\ r.pc = "returned"
  BY CallShape DEF FinishRedeem, PgInv, TypeOK
<1>2. work' = [work EXCEPT ![w] = Idle] /\ UNCHANGED <<clock, rows, orphans, minted>>
  BY DEF FinishRedeem
<1>3. ~Holds(work'[w]) /\ \A v \in Workers \ {w} : work'[v] = work[v]
  BY <1>2, EmptyHanded DEF PgInv, TypeOK
<1>4. \A y : InOrphan(y)' <=> InOrphan(y)
  BY <1>2 DEF InOrphan
<1>5. \A y : InHand(y)' <=> InHand(y) /\ y # r.code
  BY <1>1, <1>3 DEF InHand, Holds, PgInv, OnePlace
<1>6. CASE ~Redeemable(w, r)
  BY <1>2, <1>4, <1>5, <1>6, LessLive DEF FinishRedeem
<1>7. CASE Redeemable(w, r)
  <2>1. r.code \notin DOMAIN rows /\ ~InOrphan(r.code)
    BY <1>1 DEF PgInv, OnePlace, InOrphan
  <2>2. r.code \in Live /\ Live' = Live \ {r.code}
    BY <1>1, <1>2, <1>4, <1>5, <2>1, LiveIs DEF InHand, Holds
  <2>3. out' = Append(out, [code |-> r.code, client |-> r.client,
                            redirect |-> r.redirect, at |-> clock])
    BY <1>7 DEF FinishRedeem
  <2>4. /\ r.code \in DOMAIN minted /\ r.row.grant = minted[r.code].grant
        /\ r.row.expiresAt =< minted[r.code].at + Skew + CodeTTL
    BY <1>1 DEF PgInv, AllOwn, Holds, Own
  <2>5. /\ minted[r.code].grant.client = r.client
        /\ minted[r.code].grant.redirect = r.redirect
    BY <1>7, <2>4 DEF Redeemable
  <2>6. clock =< minted[r.code].at + CodeTTL + 2 * Skew
    <3>1. /\ clock \in Nat /\ CodeTTL \in Nat /\ Skew \in Nat
          /\ Offset[w] \in Int /\ -Skew =< Offset[w]
      BY CodeTTLAssumption, SkewAssumption DEF PgInv, TypeOK
    <3>2. minted[r.code].at \in Nat /\ r.row.expiresAt \in Int
      BY <1>1, <2>4 DEF PgInv, TypeOK, Rows
    <3>3. clock + Offset[w] =< r.row.expiresAt
      BY <1>7 DEF Redeemable
    <3> HIDE DEF r
    <3> QED
      BY <2>4, <3>1, <3>2, <3>3
  <2>7. Abstract!Deliver(r.code)
    BY <1>2, <2>2, <2>3, <2>5, <2>6 DEF Abstract!Deliver
  <2> QED
    BY <1>1, <2>7
<1> QED
  BY <1>6, <1>7

\* Giving up moves an INSERT to the orphans, and loses a code in hand.
LEMMA GiveUpRefines ==
    ASSUME PgInv, NEW w \in Workers, GiveUp(w)
    PROVE  Abstract!Lose
<1>1. /\ orphans' \in {orphans, orphans \cup {work[w]}}
      /\ work' = [work EXCEPT ![w] = Idle]
      /\ UNCHANGED <<clock, rows, minted, out>>
  BY DEF GiveUp
<1>2. ~Holds(work'[w]) /\ \A v \in Workers \ {w} : work'[v] = work[v]
  BY <1>1, EmptyHanded DEF PgInv, TypeOK
<1>3. \A y : InHand(y)' => InHand(y)
  BY <1>2 DEF InHand
<1>4. \A y : InOrphan(y)' => InOrphan(y) \/ InHand(y)
  BY <1>1 DEF InOrphan, InHand, Holds
<1> QED
  BY <1>1, <1>3, <1>4, LessLive

\* An executed orphan moves its code to the table, or takes one out of it.
LEMMA ExecOrphanRefines ==
    ASSUME PgInv, NEW s \in orphans, ExecOrphan(s)
    PROVE  Abstract!Lose
<1>1. orphans' = orphans \ {s} /\ UNCHANGED <<clock, work, minted, out>>
  BY DEF ExecOrphan
<1>2. \A y : InHand(y)' <=> InHand(y)
  BY <1>1 DEF InHand
<1>3. \A y : InOrphan(y)' => InOrphan(y)
  BY <1>1 DEF InOrphan
<1>4. \A y \in DOMAIN rows' : y \in DOMAIN rows \/ InOrphan(y)
  <2>1. CASE s.pc = "insert"
    <3>1. DOMAIN rows' = DOMAIN rows \cup {s.code}
      BY <2>1 DEF ExecOrphan, Put
    <3> QED
      BY <2>1, <3>1 DEF InOrphan
  <2>2. CASE s.pc # "insert"
    BY <2>2 DEF ExecOrphan, Without, Restrict
  <2> QED
    BY <2>1, <2>2
<1> QED
  BY <1>1, <1>2, <1>3, <1>4, LessLive

\* A call that neither holds a code nor is given one.
LEMMA IdleRefines ==
    ASSUME PgInv, NEW w \in Workers, NEW x, ~Holds(work[w]), ~Holds(x),
           work' = [work EXCEPT ![w] = x],
           UNCHANGED <<clock, rows, orphans, minted, out>>
    PROVE  UNCHANGED Abstract!vars
<1>1. ~Holds(work'[w]) /\ \A v \in Workers \ {w} : work'[v] = work[v]
  BY DEF PgInv, TypeOK
<1>2. \A y : InHand(y)' <=> InHand(y)
  BY <1>1 DEF InHand
<1>3. \A y : InOrphan(y)' <=> InOrphan(y)
  BY DEF InOrphan
<1> QED
  BY <1>2, <1>3, SameLive

\* The database loses rows or orphans.
LEMMA LossRefines ==
    ASSUME UNCHANGED <<clock, work, minted, out>>, DOMAIN rows' \subseteq DOMAIN rows,
           orphans' \subseteq orphans
    PROVE  Abstract!Lose
<1>1. \A y : InHand(y)' <=> InHand(y)
  BY DEF InHand
<1>2. \A y : InOrphan(y)' => InOrphan(y)
  BY DEF InOrphan
<1> QED
  BY <1>1, <1>2, LessLive

\* Every step of the shared store is one of the abstract store or none.
LEMMA PgRefines == PgInv /\ [Next]_vars => [Abstract!Next]_(Abstract!vars)
<1> SUFFICES ASSUME PgInv, [Next]_vars PROVE [Abstract!Next]_(Abstract!vars)
  OBVIOUS
<1>1. ASSUME NEW w \in Workers, NEW c \in DOMAIN minted, NEW client \in Clients,
             NEW redirect \in Redirects, StartRedeem(w, c, client, redirect)
      PROVE  UNCHANGED Abstract!vars
  <2>1. ~Holds(work[w]) /\ ~Holds(DeleteStmt(c, client, redirect))
    BY <1>1, EmptyHanded DEF StartRedeem, DeleteStmt, Holds
  <2> QED
    BY <1>1, <2>1, IdleRefines DEF StartRedeem
<1>2. ASSUME NEW w \in Workers, Answer(w) PROVE UNCHANGED Abstract!vars
  <2>1. ~Holds(work[w]) /\ ~Holds(Idle)
    BY <1>2, EmptyHanded DEF Answer, Holds
  <2> QED
    BY <1>2, <2>1, IdleRefines DEF Answer
<1>3. ASSUME NEW s \in orphans, CancelOrphan(s) PROVE Abstract!Lose
  BY <1>3, LossRefines DEF CancelOrphan
<1>4. CASE DeleteExpired
  <2>1. Abstract!Lose
    BY <1>4, LossRefines DEF DeleteExpired, Restrict
  <2> QED
    BY <2>1 DEF Abstract!Next
<1>5. CASE Tick
  <2>1. UNCHANGED <<work, orphans, rows>> /\ clock' = clock + 1 /\ UNCHANGED <<minted, out>>
    BY <1>5 DEF Tick
  <2>2. Live' = Live
    BY <2>1 DEF Live
  <2> QED
    BY <2>1, <2>2 DEF Abstract!Next, Abstract!Tick
<1>6. CASE UNCHANGED vars
  BY <1>6 DEF vars, Live, Abstract!vars
<1>7. ASSUME NEW w \in Workers, GatewayStep(w) PROVE [Abstract!Next]_(Abstract!vars)
  BY <1>2, <1>7, FinishRedeemRefines, GiveUpRefines DEF GatewayStep, Abstract!Next
<1>8. ASSUME NEW w \in Workers, NEW c \in Codes, NEW g \in Grants, StartIssue(w, c, g)
      PROVE  Abstract!Next
  BY <1>8, StartIssueRefines DEF Abstract!Next
<1>9. ASSUME NEW s \in orphans, ExecOrphan(s) \/ CancelOrphan(s) PROVE Abstract!Next
  BY <1>3, <1>9, ExecOrphanRefines DEF Abstract!Next
<1> QED
  BY <1>1, <1>4, <1>5, <1>6, <1>7, <1>8, <1>9, ExecInsertRefines, ExecDeleteRefines DEF Next

\* "consumes a code exactly once" (postgres.go:81): for any number of replicas
\* whose clocks are off by at most Skew, with calls that time out and statements
\* that are executed late, the shared store implements OneShot.
THEOREM PgRefinement == Spec => RefinesOneShot
<1>1. Init => Abstract!Init
  <2> SUFFICES ASSUME Init PROVE Abstract!Init
    OBVIOUS
  <2>1. \A w \in Workers : ~Holds(work[w])
    BY EmptyHanded DEF Init
  <2>2. Live = {}
    BY <2>1 DEF Init, Live, Holds
  <2> QED
    BY <2>2 DEF Init, Abstract!Init
<1> QED
  BY <1>1, PgRefines, PgInvariance, PTL DEF Spec, RefinesOneShot
=============================================================================
