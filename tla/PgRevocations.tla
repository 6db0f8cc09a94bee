---------------------------- MODULE PgRevocations ---------------------------
(***************************************************************************)
(* Sessions with either store main.go may choose: the in-memory one of     *)
(* module Sessions, or the tables of internal/store/revocations.go behind  *)
(* the fail-closed adapter of internal/store/adapter.go.                   *)
(*                                                                         *)
(* The variables of the in-memory store hold the tables' rows: subjects    *)
(* and tenants are the rows of revocation_cutoffs with a subject and with  *)
(* the empty one.  A cutoff is the database's now(), the start of the      *)
(* statement's transaction, and reaches the row later: behind others that  *)
(* started after it, or not at all.  The database's clock is not the       *)
(* gateway's, which stamps the tokens.                                     *)
(***************************************************************************)
EXTENDS Sessions

CONSTANTS
    Skew,            \* how far the database's clock may be off
    MaxStatements    \* bound: cutoff statements begun

ASSUME PgRevocationsConstants == {Skew, MaxStatements} \subseteq Nat

VARIABLES
    durable,         \* DATABASE_URL is set
    offset,          \* the database's clock against the gateway's
    sent,            \* cutoff statements under way: [row, cutoff, begun]
    statements       \* cutoff statements begun so far

deployment == <<durable, offset>>
pgVars     == <<vars, deployment, sent, statements>>

PgInit ==
    /\ Init
    /\ durable \in BOOLEAN
    /\ offset \in IF durable THEN -Skew .. Skew ELSE {0}
    /\ sent = {} /\ statements = 0

\* The database's now().
StoreNow == clock + offset

-----------------------------------------------------------------------------
(* Statements                                                              *)

\* Variant: the upsert takes the newcomer.
GreatestExcluded(rows, k, v) == v
\* ON CONFLICT DO UPDATE SET x = greatest(row.x, excluded.x)
greatest(rows, k, v) == IF k \in DOMAIN rows /\ rows[k] > v THEN rows[k] ELSE v

Upsert(rows, k, v) == Put(rows, k, greatest(rows, k, v))

PgRevokeToken(j) ==
    /\ durable
    /\ tokens' = Upsert(tokens, j, minted[j].exp)
    /\ Kill("token", {j})
    /\ UNCHANGED <<clock, grants, minted, subjects, tenants, work, served, epoch, deployment,
                   sent, statements>>

\* A revocation of a subject, or with the empty one of a tenant, starts.  No
\* clock shows an instant before the first.
BeginCutoff(row) ==
    /\ durable
    /\ statements < MaxStatements
    /\ StoreNow >= 0
    /\ statements' = statements + 1
    /\ sent' = sent \cup {[row |-> row, cutoff |-> StoreNow, begun |-> clock]}
    /\ UNCHANGED <<vars, deployment>>

\* The users a row speaks for.
Covered(row) == {u \in Users : u = row \/ (row.subject = "" /\ u.tenant = row.tenant)}

\* What the statement was to kill: tokens minted before it began, by more than
\* the clocks may differ.
Doomed(s) ==
    {j \in DOMAIN minted : minted[j].user \in Covered(s.row) /\ minted[j].at + Skew =< s.begun}

PgRevokeSubject(s) ==
    /\ durable
    /\ s.row.subject # ""
    /\ subjects' = Upsert(subjects, s.row, s.cutoff)
    /\ Kill("cutoff", Doomed(s))
    /\ sent' = sent \ {s}
    /\ UNCHANGED <<clock, grants, minted, tokens, tenants, work, served, epoch, deployment,
                   statements>>

PgRevokeTenant(s) ==
    /\ durable
    /\ s.row.subject = ""
    /\ tenants' = Upsert(tenants, s.row.tenant, s.cutoff)
    /\ Kill("cutoff", Doomed(s))
    /\ sent' = sent \ {s}
    /\ UNCHANGED <<clock, grants, minted, tokens, subjects, work, served, epoch, deployment,
                   statements>>

\* The statement fails or its connection is lost: the caller gets an error.
LoseCutoff(s) ==
    /\ sent' = sent \ {s}
    /\ UNCHANGED <<vars, deployment, statements>>

\* Cutoffs are never deleted.
DeleteExpired ==
    /\ durable
    /\ tokens' = Restrict(tokens, {j \in DOMAIN tokens : tokens[j] >= StoreNow})
    /\ UNCHANGED <<clock, grants, minted, subjects, tenants, work, history, epoch, deployment,
                   sent, statements>>

-----------------------------------------------------------------------------
(* RevocationAdapter.IsRevoked                                             *)

\* The request of h is let through to the protected handler.
Serve(h) ==
    LET j == work[h].jti IN
    served' = served \cup {[jti |-> j,
                            expired |-> clock > minted[j].exp \/ StoreNow > minted[j].exp,
                            killed |-> {how \in DOMAIN killed : j \in killed[how]}]}

\* The one SELECT answered in time: it sees the rows of both tables at once.
PgDecide(h) ==
    /\ durable
    /\ work[h].busy
    /\ IF IsRevoked(work[h].jti) THEN UNCHANGED served ELSE Serve(h)
    /\ work' = [work EXCEPT ![h] = Idle]
    /\ UNCHANGED <<clock, grants, minted, revocations, killed, epoch, deployment, sent,
                   statements>>

\* Variant: an unknown answer is permission.
LookupFailedOpen(h) ==
    /\ durable
    /\ work[h].busy
    /\ Serve(h)
    /\ work' = [work EXCEPT ![h] = Idle]
    /\ UNCHANGED <<clock, grants, minted, revocations, killed, epoch, deployment, sent,
                   statements>>
\* It failed or took longer than the adapter waits.
LookupFailed(h) ==
    /\ durable
    /\ work[h].busy
    /\ work' = [work EXCEPT ![h] = Idle]
    /\ UNCHANGED <<clock, grants, minted, revocations, history, epoch, deployment, sent,
                   statements>>

-----------------------------------------------------------------------------

\* A new gateway on the same database: codes and revocations are still there,
\* the requests it was serving and its signing key are not.
PgRestart ==
    /\ durable
    /\ epoch < MaxRestarts
    /\ epoch' = epoch + 1
    /\ work' = [h \in Handlers |-> Idle]
    /\ UNCHANGED <<clock, grants, minted, revocations, history, deployment, sent, statements>>

\* What the store has no part in.
Shared ==
    \/ \E u \in Users : Authenticate(u)
    \/ \E j \in Jtis, g \in grants : Exchange(j, g)
    \/ \E j \in DOMAIN minted, h \in Handlers : VerifyToken(h, j)
    \/ \E h \in Handlers : RefuseProof(h)
    \/ Tick

PgStep ==
    \/ \E j \in DOMAIN minted : PgRevokeToken(j)
    \/ \E row \in Users \cup [tenant : Tenants, subject : {""}] : BeginCutoff(row)
    \/ \E s \in sent : PgRevokeSubject(s) \/ PgRevokeTenant(s) \/ LoseCutoff(s)
    \/ DeleteExpired
    \/ \E h \in Handlers : PgDecide(h) \/ LookupFailed(h)
    \/ PgRestart

PgNext ==
    \/ ~durable /\ Next /\ UNCHANGED <<deployment, sent, statements>>
    \/ durable /\ Shared /\ UNCHANGED <<deployment, sent, statements>>
    \/ PgStep

PgSpec == PgInit /\ [][PgNext]_pgVars

-----------------------------------------------------------------------------
(* Properties, beside those of Sessions                                    *)

\* "greatest() prevents a replayed or out-of-order request from moving it
\* backwards and un-revoking sessions" (revocations.go:33) and "Cutoffs are
\* never deleted" (revocations.go:66): in whatever order statements reach the
\* rows, and whatever restarts and sweeps come between them, a durable cutoff
\* never moves back or vanishes.
CutoffsOnlyAdvance ==
    [][durable =>
          /\ \A u \in DOMAIN subjects : u \in DOMAIN subjects' /\ subjects'[u] >= subjects[u]
          /\ \A t \in DOMAIN tenants : t \in DOMAIN tenants' /\ tenants'[t] >= tenants[t]]_pgVars
=============================================================================
