------------------------------- MODULE PgCodes -------------------------------
(***************************************************************************)
(* The authorization code store shared by several gateway replicas:        *)
(* store.CodeAdapter over store.Codes (internal/store/adapter.go,          *)
(* postgres.go) and the table gateway.auth_codes.                          *)
(*                                                                         *)
(* A call is a context with a deadline, one SQL statement, and Go code     *)
(* after the statement returns.  Postgres executes a statement atomically  *)
(* and at a moment of its own; the caller may give up before or after it.  *)
(* A statement whose caller gave up is an orphan: Postgres may still       *)
(* execute it, or the cancellation reaches it first.                       *)
(*                                                                         *)
(* Each replica reads its own clock, off by a constant of at most Skew;    *)
(* the database's now() is off by DbOffset.                                *)
(***************************************************************************)
EXTENDS Integers, Sequences, Functions

CONSTANTS
    Codes,        \* the values crypto/rand will produce: each at most once
    Grants,       \* what a code may stand for
    Clients, Redirects,
    Workers,      \* request goroutines, over all replicas
    Offset,       \* worker -> its replica's clock minus true time
    DbOffset,     \* the database's clock minus true time
    Skew,         \* bound on |Offset|
    CodeTTL,
    MaxClock      \* bound: the last instant explored

ASSUME CodeTTLAssumption == CodeTTL \in Nat /\ Skew \in Nat /\ MaxClock \in Nat
ASSUME SkewAssumption == /\ Offset \in [Workers -> -Skew .. Skew]
                         /\ DbOffset \in Int
ASSUME GrantsAssumption ==
    \A g \in Grants : g.client \in Clients /\ g.redirect \in Redirects

VARIABLES
    clock,        \* true time
    rows,         \* gateway.auth_codes: code -> [grant, expiresAt]
    work,         \* worker -> the call it is in
    orphans,      \* statements whose caller gave up
    minted,       \* history: code -> [grant, at] for every code ever made
    out           \* history: the redemptions that returned a grant

vars == <<clock, rows, work, orphans, minted, out>>

Put(f, k, v) == [x \in DOMAIN f \cup {k} |-> IF x = k THEN v ELSE f[x]]
Without(f, k) == Restrict(f, DOMAIN f \ {k})

(* A call is idle, has its statement pending, or has the statement's       *)
(* answer and is about to act on it.                                       *)
Idle == [pc |-> "idle"]
InsertStmt(c, e) == [pc |-> "insert", code |-> c, row |-> e]
DeleteStmt(c, client, redirect) ==
    [pc |-> "delete", code |-> c, client |-> client, redirect |-> redirect]
Inserted == [pc |-> "inserted"]
NoRow(d) == [pc |-> "norow"]
Returned(d, e) == [pc |-> "returned", code |-> d.code, client |-> d.client,
                   redirect |-> d.redirect, row |-> e]

Init ==
    /\ clock = 0
    /\ rows = << >>
    /\ work = [w \in Workers |-> Idle]
    /\ orphans = {}
    /\ minted = << >>
    /\ out = << >>

-----------------------------------------------------------------------------
(* CodeAdapter.Issue                                                       *)

\* The code is drawn and its expiry computed before the statement is sent.
StartIssue(w, c, g) ==
    /\ work[w] = Idle
    /\ c \notin DOMAIN minted
    /\ minted' = Put(minted, c, [grant |-> g, at |-> clock])
    /\ work' = [work EXCEPT ![w] =
          InsertStmt(c, [grant |-> g, expiresAt |-> clock + Offset[w] + CodeTTL])]
    /\ UNCHANGED <<clock, rows, orphans, out>>

ExecInsert(w) ==
    /\ work[w].pc = "insert"
    /\ rows' = Put(rows, work[w].code, work[w].row)
    /\ work' = [work EXCEPT ![w] = Inserted]
    /\ UNCHANGED <<clock, orphans, minted, out>>

-----------------------------------------------------------------------------
(* CodeAdapter.Redeem                                                      *)

StartRedeem(w, c, client, redirect) ==
    /\ work[w] = Idle
    /\ work' = [work EXCEPT ![w] = DeleteStmt(c, client, redirect)]
    /\ UNCHANGED <<clock, rows, orphans, minted, out>>

\* Variant: a SELECT, with the DELETE left for later.
TakeRowLeaving(c) == rows
\* DELETE ... RETURNING: the row leaves the table as it is read.
TakeRow(c) == Without(rows, c)

ExecDelete(w) ==
    LET d == work[w] IN
    /\ d.pc = "delete"
    /\ IF d.code \in DOMAIN rows
       THEN /\ rows' = TakeRow(d.code)
            /\ work' = [work EXCEPT ![w] = Returned(d, rows[d.code])]
       ELSE /\ work' = [work EXCEPT ![w] = NoRow(d)]
            /\ UNCHANGED rows
    /\ UNCHANGED <<clock, orphans, minted, out>>

\* Variant: the client is not compared.
RedeemableByAnyone(w, r) == clock + Offset[w] =< r.row.expiresAt
\* The checks on the returned row, with the replica's own clock.
Redeemable(w, r) ==
    /\ clock + Offset[w] =< r.row.expiresAt
    /\ r.row.grant.client = r.client
    /\ r.row.grant.redirect = r.redirect

FinishRedeem(w) ==
    LET r == work[w] IN
    /\ r.pc = "returned"
    /\ out' = IF Redeemable(w, r)
              THEN Append(out, [code |-> r.code, client |-> r.client,
                                redirect |-> r.redirect, at |-> clock])
              ELSE out
    /\ work' = [work EXCEPT ![w] = Idle]
    /\ UNCHANGED <<clock, rows, orphans, minted>>

-----------------------------------------------------------------------------
(* The other ways a call ends, and what becomes of its statement.          *)

\* The statement answered and nothing is left to decide: the code is handed
\* to the handler, or there was no such row.
Answer(w) ==
    /\ work[w].pc \in {"inserted", "norow"}
    /\ work' = [work EXCEPT ![w] = Idle]
    /\ UNCHANGED <<clock, rows, orphans, minted, out>>

\* Variant: no deadline while a statement is pending.
GiveUpOnAnswerOnly(w) ==
    /\ work[w].pc \in {"inserted", "norow", "returned"}
    /\ work' = [work EXCEPT ![w] = Idle]
    /\ UNCHANGED <<clock, rows, orphans, minted, out>>
\* Variant: a call that has its answer leaves its statement behind too.
GiveUpTwice(w) ==
    /\ work[w].pc # "idle"
    /\ orphans' = orphans \cup {work[w]}
    /\ work' = [work EXCEPT ![w] = Idle]
    /\ UNCHANGED <<clock, rows, minted, out>>
\* The deadline passes (or the replica dies) while the statement is pending,
\* or its answer is lost: the call returns an error.
GiveUp(w) ==
    /\ work[w].pc # "idle"
    /\ orphans' = IF work[w].pc \in {"insert", "delete"}
                  THEN orphans \cup {work[w]} ELSE orphans
    /\ work' = [work EXCEPT ![w] = Idle]
    /\ UNCHANGED <<clock, rows, minted, out>>

\* Postgres executes the statement of a caller that is gone.
ExecOrphan(s) ==
    /\ s \in orphans
    /\ orphans' = orphans \ {s}
    /\ rows' = IF s.pc = "insert" THEN Put(rows, s.code, s.row)
                                  ELSE Without(rows, s.code)
    /\ UNCHANGED <<clock, work, minted, out>>

CancelOrphan(s) ==
    /\ s \in orphans
    /\ orphans' = orphans \ {s}
    /\ UNCHANGED <<clock, rows, work, minted, out>>

\* Codes.DeleteExpired, by the database's clock.
DeleteExpired ==
    /\ rows' = Restrict(rows, {c \in DOMAIN rows : rows[c].expiresAt >= clock + DbOffset})
    /\ rows' # rows
    /\ UNCHANGED <<clock, work, orphans, minted, out>>

Tick == /\ clock < MaxClock
        /\ clock' = clock + 1
        /\ UNCHANGED <<rows, work, orphans, minted, out>>

\* What the gateway does by itself, whether or not the database answers.
GatewayStep(w) == FinishRedeem(w) \/ Answer(w) \/ GiveUp(w)

Next ==
    \/ \E w \in Workers :
          \/ \E c \in Codes, g \in Grants : StartIssue(w, c, g)
          \/ \E c \in DOMAIN minted, client \in Clients, redirect \in Redirects :
                StartRedeem(w, c, client, redirect)
          \/ ExecInsert(w) \/ ExecDelete(w)
          \/ GatewayStep(w)
    \/ \E s \in orphans : ExecOrphan(s) \/ CancelOrphan(s)
    \/ DeleteExpired
    \/ Tick

\* Goroutines run and deadlines fire; the database may hang for ever.
Fairness == \A w \in Workers : WF_vars(GatewayStep(w))

Spec == Init /\ [][Next]_vars /\ Fairness

-----------------------------------------------------------------------------
(* Properties                                                              *)

Rows == [grant : Grants, expiresAt : Int]
Statements == [pc : {"insert"}, code : Codes, row : Rows]
              \cup [pc : {"delete"}, code : Codes, client : Clients, redirect : Redirects]
Calls == {Idle, Inserted, NoRow(0)} \cup Statements
         \cup [pc : {"returned"}, code : Codes, client : Clients,
               redirect : Redirects, row : Rows]

TypeOK ==
    /\ clock \in Nat
    /\ DOMAIN minted \subseteq Codes
    /\ \A c \in DOMAIN minted : minted[c] \in [grant : Grants, at : Nat]
    /\ DOMAIN rows \subseteq DOMAIN minted
    /\ \A c \in DOMAIN rows : rows[c] \in Rows
    /\ work \in [Workers -> Calls]
    /\ orphans \subseteq Statements
    /\ out \in Seq([code : Codes, client : Clients, redirect : Redirects, at : Nat])

\* Where a code can still be: in the table, in an INSERT that was sent, or
\* in the hands of the one call whose DELETE returned it.
Live == DOMAIN rows
        \cup {work[w].code : w \in {v \in Workers : work[v].pc \in {"insert", "returned"}}}
        \cup {s.code : s \in {o \in orphans : o.pc = "insert"}}

\* A code is in one place only.  This is what makes two replicas racing for
\* it harmless: once a DELETE returned the row, nobody else can (postgres.go:83).
OnePlace ==
    /\ \A w \in Workers : work[w].pc \in {"insert", "returned"} =>
          /\ work[w].code \notin DOMAIN rows
          /\ \A v \in Workers \ {w} :
                work[v].pc \in {"insert", "returned"} => work[v].code # work[w].code
          /\ \A s \in orphans : s.pc = "insert" => s.code # work[w].code
    /\ \A s \in orphans : s.pc = "insert" => s.code \notin DOMAIN rows

\* "consumes a code exactly once" (postgres.go:81): two replicas, timeouts,
\* retries and late statements notwithstanding, the shared store keeps the
\* promise of OneShot, with the clocks' skew as the only difference from the
\* in-memory one.
Abstract == INSTANCE OneShot WITH TTL <- CodeTTL, Slack <- 2 * Skew, live <- Live
RefinesOneShot == Abstract!Init /\ [][Abstract!Next]_(Abstract!vars)

\* "A store that hangs must become a failed login, not a stuck request
\* holding a connection" (adapter.go:19): every call ends.
CallsEnd == \A w \in Workers : (work[w] # Idle) ~> (work[w] = Idle)
=============================================================================
