---------------------------- MODULE PgCreditRepo ----------------------------
(***************************************************************************)
(* The Postgres credit ledger (repos/postgres/credit_repo.go) for one      *)
(* subject and one bucket, statement by statement: concurrent TryDeduct    *)
(* transactions, RunExpiry's two unlocked statements, RevokeGrant and the  *)
(* deduplicating Grant.  A transaction keeps the now() of its BEGIN.       *)
(*                                                                         *)
(* CreditLedger models the in-memory repository, whose operations are      *)
(* atomic under one mutex; here they are not.                              *)
(***************************************************************************)
EXTENDS Integers, Sequences, FiniteSets, FiniteSetsExt

CONSTANTS
    Clients,      \* goroutines that call TryDeduct
    RequestIDs,   \* idempotency keys of deductions
    AmountOf,     \* the amount each request asks for
    MaxClock,     \* bound on the clock
    MaxFaults     \* bound on the statements that fail

ASSUME RepoAssumption ==
    /\ AmountOf \in [RequestIDs -> Nat \ {0}]  \* TryDeduct refuses amounts <= 0
    /\ MaxClock \in Nat

VARIABLES
    grants,       \* rows of stripe_connector_credit_grants, in granted_at order
    deductions,   \* rows of stripe_connector_credit_deductions
    tx,           \* each client's open transaction
    sweep,        \* RunExpiry: "idle", or "counted" between its statements
    zeroed,       \* history: what expiry and revocation took from each grant
    clock, faults

repoVars == <<grants, deductions, tx, sweep, zeroed, clock, faults>>

Never == MaxClock + 1       \* expires_at IS NULL, which orders last
Idle == [pc |-> "idle", req |-> "", now |-> 0, plan |-> <<>>]

\* The WHERE clause of the deduction and of the balance.
Eligible(now) ==
    {g \in DOMAIN grants : /\ grants[g].remaining > 0
                           /\ ~grants[g].revoked
                           /\ grants[g].expires > now}

Remaining(pool) == MapThenSumSet(LAMBDA g : grants[g].remaining, pool)

\* ORDER BY expires_at NULLS LAST, granted_at ASC.
Before(g, h) ==
    \/ grants[g].expires < grants[h].expires
    \/ grants[g].expires = grants[h].expires /\ g < h

\* What the planning loop takes from each row of its pool.
Plan(pool, amount) ==
    [g \in pool |->
        LET ahead == Remaining({h \in pool : Before(h, g)})
        IN  Max({0, Min({amount - ahead, grants[g].remaining})})]

\* A faulty variant: the SELECT has no FOR UPDATE.
NoRowLocks(c) == {}

\* FOR UPDATE holds every row of the pool until the transaction ends.
RowLocks(c) == DOMAIN tx[c].plan

RowsFree(S) == \A c \in Clients : RowLocks(c) \cap S = {}

RepoInit ==
    /\ grants = <<>>
    /\ deductions = {}
    /\ tx = [c \in Clients |-> Idle]
    /\ sweep = "idle"
    /\ zeroed = <<>>
    /\ clock = 0
    /\ faults = 0

Insert(in) ==
    /\ grants' = Append(grants,
            [ref |-> in.ref, initial |-> in.amount, remaining |-> in.amount,
             expires |-> IF in.days = 0 THEN Never ELSE Min({clock + in.days, Never}),
             revoked |-> FALSE])
    /\ zeroed' = Append(zeroed, 0)

\* INSERT ... ON CONFLICT (subject_id, bucket, source_ref) DO NOTHING; on a
\* conflict the existing row is the answer.
Grant(in) ==
    IF \E g \in DOMAIN grants : grants[g].ref = in.ref
    THEN UNCHANGED <<grants, zeroed>>
    ELSE Insert(in)

\* BeginTx, which fixes now(); the call then queues for the advisory lock.  A
\* caller whose commit was lost comes back with the same request.
BeginTx(c, req) ==
    /\ tx[c].pc = "idle"
    /\ tx' = [tx EXCEPT ![c] = [Idle EXCEPT !.pc = "begun", !.req = req, !.now = clock]]
    /\ UNCHANGED <<grants, deductions, sweep, zeroed, clock, faults>>

\* The subject's lock arrives and the idempotency check runs: a request that
\* has a deduction row commits and answers true.
Checked(c) ==
    /\ tx[c].pc = "begun"
    /\ tx' = [tx EXCEPT ![c] = IF \E d \in deductions : d.req = tx[c].req
                               THEN Idle ELSE [@ EXCEPT !.pc = "locked"]]
    /\ UNCHANGED <<grants, deductions, sweep, zeroed, clock, faults>>

AcquireTx(c) ==
    /\ \A d \in Clients : tx[d].pc \in {"idle", "begun"}
    /\ Checked(c)

\* SELECT ... FOR UPDATE waits for locked rows, then the plan; a pool that is
\* too small commits and answers false.
SelectForUpdate(c) ==
    LET pool == Eligible(tx[c].now)
        amount == AmountOf[tx[c].req]
    IN  /\ tx[c].pc = "locked"
        /\ RowsFree(pool)
        /\ tx' = [tx EXCEPT ![c] =
                    IF Remaining(pool) < amount THEN Idle
                    ELSE [@ EXCEPT !.pc = "planned", !.plan = Plan(pool, amount)]]
        /\ UNCHANGED <<grants, deductions, sweep, zeroed, clock, faults>>

\* The UPDATEs are relative to the row; they and the INSERTs commit together,
\* unless UNIQUE (subject_id, request_id, grant_id) refuses one and all roll back.
Commit(c) ==
    LET plan == tx[c].plan
        rows == {[req |-> tx[c].req, grant |-> g, amount |-> plan[g]] :
                    g \in {h \in DOMAIN plan : plan[h] > 0}}
        refused == \E d \in deductions, r \in rows : d.req = r.req /\ d.grant = r.grant
    IN  /\ tx[c].pc = "planned"
        /\ grants' = [g \in DOMAIN grants |->
                        IF g \in DOMAIN plan /\ ~refused
                        THEN [grants[g] EXCEPT !.remaining = @ - plan[g]]
                        ELSE grants[g]]
        /\ deductions' = IF refused THEN deductions ELSE deductions \cup rows
        /\ tx' = [tx EXCEPT ![c] = Idle]
        /\ UNCHANGED <<sweep, zeroed, clock, faults>>

\* The deferred Rollback of every error return.
Rollback(c) ==
    /\ tx[c].pc # "idle"
    /\ faults < MaxFaults
    /\ faults' = faults + 1
    /\ tx' = [tx EXCEPT ![c] = Idle]
    /\ UNCHANGED <<grants, deductions, sweep, zeroed, clock>>

Overdue == {g \in DOMAIN grants : /\ grants[g].remaining > 0
                                  /\ ~grants[g].revoked
                                  /\ grants[g].expires < clock}

Zero(S, revoke) ==
    /\ grants' = [g \in DOMAIN grants |->
                    IF g \in S
                    THEN [grants[g] EXCEPT !.remaining = 0, !.revoked = @ \/ revoke]
                    ELSE grants[g]]
    /\ zeroed' = [g \in DOMAIN zeroed |->
                    zeroed[g] + IF g \in S THEN grants[g].remaining ELSE 0]

\* RunExpiry: the aggregate, which ends it when nothing is overdue ...
ExpiryCount ==
    /\ sweep = "idle"
    /\ Overdue # {}
    /\ sweep' = "counted"
    /\ UNCHANGED <<grants, deductions, tx, zeroed, clock, faults>>

\* ... and, outside any transaction with it, the UPDATE.
ExpiryZero ==
    /\ sweep = "counted"
    /\ RowsFree(Overdue)
    /\ Zero(Overdue, FALSE)
    /\ sweep' = "idle"
    /\ UNCHANGED <<deductions, tx, clock, faults>>

\* UPDATE ... WHERE id AND revoked_at IS NULL, which waits for the row.
RevokeGrant(g) ==
    /\ RowsFree({g})
    /\ IF grants[g].revoked THEN UNCHANGED <<grants, zeroed>> ELSE Zero({g}, TRUE)

FindGrantsBySourceRef(ref) == {g \in DOMAIN grants : grants[g].ref = ref}

Tick ==
    /\ clock < MaxClock
    /\ clock' = clock + 1
    /\ UNCHANGED <<grants, deductions, tx, sweep, zeroed, faults>>

RepoNext ==
    \/ \E c \in Clients, req \in RequestIDs : BeginTx(c, req)
    \/ \E c \in Clients : \/ AcquireTx(c) \/ SelectForUpdate(c)
                          \/ Commit(c) \/ Rollback(c)
    \/ ExpiryCount \/ ExpiryZero \/ Tick

-----------------------------------------------------------------------------
Drawn(g) == MapThenSumSet(LAMBDA d : d.amount, {d \in deductions : d.grant = g})
Charged(req) == MapThenSumSet(LAMBDA d : d.amount, {d \in deductions : d.req = req})

\* Whatever transactions, sweeps and revocations interleave, each grant row is
\* never negative and splits exactly into what remains, what deduction rows drew
\* from it and what expiry or revocation took (TryDeduct, RunExpiry, RevokeGrant).
RowsBalance ==
    \A g \in DOMAIN grants :
        /\ grants[g].remaining >= 0
        /\ grants[g].initial = grants[g].remaining + Drawn(g) + zeroed[g]

\* A request is charged its full amount or nothing, however often it is retried
\* and from however many goroutines at once (TryDeduct's lock and request check).
ChargedInFull == \A req \in RequestIDs : Charged(req) \in {0, AmountOf[req]}
=============================================================================
