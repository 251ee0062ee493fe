------------------------------ MODULE CreditLedger ------------------------------
(***************************************************************************)
(* The credit ledger of one subject (credits/repo.go, the memory repo, and *)
(* the argument checks of credits/operations.go).  Every operation holds   *)
(* the repo's mutex from start to end, so each is one step.  Nothing links *)
(* two subjects: RunExpiry and RevokeGrant treat each grant on its own.    *)
(***************************************************************************)
EXTENDS Naturals, FiniteSets, Sequences, Functions, FiniteSetsExt

CONSTANTS
    Buckets,      \* credit pools
    Refs,         \* non-empty SourceRefs
    NoRef,        \* the empty SourceRef
    RequestIDs,   \* deduction request ids
    Amounts,      \* amounts granted or asked for
    ValidDays,    \* lifetimes of a grant, 0 = never expires
    MaxGrants,    \* bound: grants created
    MaxClock      \* bound: the clock

ASSUME LedgerAssumption ==
    /\ NoRef \notin Refs
    /\ Amounts \subseteq Nat \ {0}  \* operations.go refuses amounts <= 0
    /\ ValidDays \subseteq Nat
    /\ MaxGrants \in Nat /\ MaxClock \in Nat

VARIABLES
    grants,        \* bySubject: the grants in the order they were made
    deductions,    \* deductionBySubject: one row per request and grant drawn on
    seenDeduction, \* request ids that were deducted
    clock,         \* the repo's clock
    drawn,         \* history: what was deducted from each grant
    expired,       \* history: what RunExpiry reported for each grant
    revoked,       \* history: what RevokeGrant took from each grant
    charged,       \* history: the amount of the deduction of each request
    answer         \* history: the last answer to each request

vars == <<grants, deductions, seenDeduction, clock, drawn, expired, revoked,
          charged, answer>>

Never == 0  \* ExpiresAt = nil

GrantType == [bucket: Buckets, initial: Nat, remaining: Nat, expires: Nat,
              grantedAt: Nat, ref: Refs \cup {NoRef}, revoked: BOOLEAN]
DeductionType == [req: RequestIDs, grant: Nat, bucket: Buckets, amount: Nat \ {0}]

\* The types of the ledger's state; history is kept for every grant.
TypeOK ==
    /\ grants \in Seq(GrantType)
    /\ deductions \subseteq DeductionType
    /\ seenDeduction \subseteq RequestIDs
    /\ clock \in Nat \ {0}
    /\ drawn \in [DOMAIN grants -> Nat]
    /\ expired \in [DOMAIN grants -> Nat]
    /\ revoked \in [DOMAIN grants -> Nat]
    /\ charged \in [RequestIDs -> Nat]
    /\ answer \in [RequestIDs -> {"none", "ok", "insufficient"}]

Init ==
    /\ grants = << >>
    /\ deductions = {}
    /\ seenDeduction = {}
    /\ clock = 1
    /\ drawn = << >> /\ expired = << >> /\ revoked = << >>
    /\ charged = [q \in RequestIDs |-> 0]
    /\ answer = [q \in RequestIDs |-> "none"]

-----------------------------------------------------------------------------
Expired(g) == grants[g].expires # Never /\ grants[g].expires < clock

\* The grants TryDeduct may draw on.
\* (Mutant: expired grants are in the pool.)
UsableExpired(bucket) ==
    {g \in DOMAIN grants : grants[g].remaining > 0 /\ grants[g].bucket = bucket}

Usable(bucket) == {g \in DOMAIN grants : /\ grants[g].remaining > 0
                                         /\ ~Expired(g)
                                         /\ grants[g].bucket = bucket}

\* Balance.Total, which filters the grants again.
Counted(bucket) == {g \in DOMAIN grants : /\ grants[g].bucket = bucket
                                          /\ grants[g].remaining > 0
                                          /\ ~Expired(g)}
Balance(bucket) == MapThenSumSet(LAMBDA g : grants[g].remaining, Counted(bucket))

\* FIFO by expiry: the soonest to expire first, grants that never expire last,
\* older grants first among equals.
\* (Mutant: the zero time of a grant that never expires sorts first.)
PrecedesByTime(g, h) ==
    LET a == grants[g]  b == grants[h] IN
    \/ a.expires < b.expires
    \/ a.expires = b.expires /\ a.grantedAt < b.grantedAt

Precedes(g, h) ==
    LET a == grants[g]  b == grants[h] IN
    \/ a.expires # Never /\ b.expires = Never
    \/ a.expires # Never /\ b.expires # Never /\ a.expires < b.expires
    \/ a.expires = b.expires /\ a.grantedAt < b.grantedAt

\* The positions sort.Slice may give the pool.  The sort is not stable: grants
\* that compare equal come in any order.
SortOrders(pool) ==
    {pos \in Bijection(pool, 1..Cardinality(pool)) :
        \A g, h \in pool : Precedes(g, h) => pos[g] < pos[h]}

\* The loop that plans the deduction: left[i] is the amount still to be found
\* before the i-th grant of the pool is looked at.
Walks(pool, pos, amount) ==
    {left \in [1..(Cardinality(pool) + 1) -> 0..amount] :
        /\ left[1] = amount
        /\ \A g \in pool :
              left[pos[g] + 1] = IF grants[g].remaining > left[pos[g]]
                                 THEN 0 ELSE left[pos[g]] - grants[g].remaining}

\* What that loop takes from each grant of the ledger.
Takes(pool, pos, left) ==
    [g \in DOMAIN grants |-> IF g \in pool THEN left[pos[g]] - left[pos[g] + 1] ELSE 0]

-----------------------------------------------------------------------------
\* Idempotency of Grant, on (bucket, SourceRef).
SeenGrant(bucket, ref) ==
    \E g \in DOMAIN grants : grants[g].bucket = bucket /\ grants[g].ref = ref

\* Grant: a repeat of a non-empty SourceRef in the same bucket returns the
\* grant already made and changes nothing.
Grant(bucket, amount, days, ref) ==
    /\ Len(grants) < MaxGrants
    /\ ref # NoRef => ~SeenGrant(bucket, ref)
    /\ grants' = Append(grants, [bucket |-> bucket, initial |-> amount,
                                 remaining |-> amount, grantedAt |-> clock,
                                 expires |-> IF days > 0 THEN clock + days ELSE Never,
                                 ref |-> ref, revoked |-> FALSE])
    /\ drawn' = Append(drawn, 0)
    /\ expired' = Append(expired, 0)
    /\ revoked' = Append(revoked, 0)
    /\ UNCHANGED <<deductions, seenDeduction, clock, charged, answer>>

\* Idempotency of TryDeduct, on the request id.
Seen(q) == q \in seenDeduction

\* TryDeduct of a request id that was deducted before: true, and no change.
RepeatDeduct(q) ==
    /\ Seen(q)
    /\ answer' = [answer EXCEPT ![q] = "ok"]
    /\ UNCHANGED <<grants, deductions, seenDeduction, clock, drawn, expired,
                   revoked, charged>>

\* The rows the deduction leaves: one per grant drawn on.
Rows(q, bucket, pool, take) ==
    {[req |-> q, grant |-> g, bucket |-> bucket, amount |-> take[g]] :
        g \in {h \in pool : take[h] > 0}}

\* The plan found the whole amount: apply it.
Apply(q, bucket, amount, pool, take) ==
    /\ grants' = [g \in DOMAIN grants |-> [grants[g] EXCEPT !.remaining = @ - take[g]]]
    /\ drawn' = [g \in DOMAIN grants |-> drawn[g] + take[g]]
    /\ deductions' = deductions \cup Rows(q, bucket, pool, take)
    /\ seenDeduction' = seenDeduction \cup {q}
    /\ charged' = [charged EXCEPT ![q] = amount]
    /\ answer' = [answer EXCEPT ![q] = "ok"]

\* It did not: change nothing.
Refuse(q) ==
    /\ answer' = [answer EXCEPT ![q] = "insufficient"]
    /\ UNCHANGED <<grants, drawn, deductions, seenDeduction, charged>>

\* TryDeduct: plan over the sorted pool, then apply the plan or refuse.
TryDeduct(q, bucket, amount) ==
    LET pool == Usable(bucket) IN
    /\ ~Seen(q)
    /\ \E pos \in SortOrders(pool) : \E left \in Walks(pool, pos, amount) :
          IF left[Cardinality(pool) + 1] = 0
          THEN Apply(q, bucket, amount, pool, Takes(pool, pos, left))
          ELSE Refuse(q)
    /\ UNCHANGED <<clock, expired, revoked>>

\* RunExpiry zeroes what is left of every expired grant, and reports it.
\* (Mutant: it reports what the grants started with.)
RunExpiryInitial ==
    /\ \E g \in DOMAIN grants : Expired(g) /\ grants[g].remaining > 0
    /\ grants' = [g \in DOMAIN grants |->
                     IF Expired(g) THEN [grants[g] EXCEPT !.remaining = 0] ELSE grants[g]]
    /\ expired' = [g \in DOMAIN grants |->
                      IF Expired(g) THEN expired[g] + grants[g].initial ELSE expired[g]]
    /\ UNCHANGED <<deductions, seenDeduction, clock, drawn, revoked, charged, answer>>

RunExpiry ==
    /\ \E g \in DOMAIN grants : Expired(g) /\ grants[g].remaining > 0
    /\ grants' = [g \in DOMAIN grants |->
                     IF Expired(g) THEN [grants[g] EXCEPT !.remaining = 0] ELSE grants[g]]
    /\ expired' = [g \in DOMAIN grants |->
                      IF Expired(g) THEN expired[g] + grants[g].remaining ELSE expired[g]]
    /\ UNCHANGED <<deductions, seenDeduction, clock, drawn, revoked, charged, answer>>

\* RevokeGrant zeroes the grant and stamps the reason; the row stays.
RevokeGrant(g) ==
    /\ grants' = [grants EXCEPT ![g] = [@ EXCEPT !.remaining = 0, !.revoked = TRUE]]
    /\ revoked' = [revoked EXCEPT ![g] = @ + grants[g].remaining]
    /\ UNCHANGED <<deductions, seenDeduction, clock, drawn, expired, charged, answer>>

Tick ==
    /\ clock < MaxClock
    /\ clock' = clock + 1
    /\ UNCHANGED <<grants, deductions, seenDeduction, drawn, expired, revoked,
                   charged, answer>>

Next ==
    \/ \E b \in Buckets, a \in Amounts, d \in ValidDays, ref \in Refs \cup {NoRef} :
          Grant(b, a, d, ref)
    \/ \E q \in RequestIDs : RepeatDeduct(q)
    \/ \E q \in RequestIDs, b \in Buckets, a \in Amounts : TryDeduct(q, b, a)
    \/ RunExpiry
    \/ \E g \in DOMAIN grants : RevokeGrant(g)
    \/ Tick

Spec == Init /\ [][Next]_vars

-----------------------------------------------------------------------------
ExpiresBefore(g, h) == /\ grants[g].expires # Never
                       /\ \/ grants[h].expires = Never
                          \/ grants[g].expires < grants[h].expires

\* No credit appears or vanishes: what a grant started with is what it has
\* left, plus what was drawn from it, plus what RunExpiry reported and
\* RevokeGrant took (ADR-0005: initial - sum(deductions) = expired amount).
Conservation ==
    \A g \in DOMAIN grants :
        grants[g].initial = grants[g].remaining + drawn[g] + expired[g] + revoked[g]

\* A revoked grant has nothing left and never gets anything back.
RevokedIsEmpty == \A g \in DOMAIN grants : grants[g].revoked => grants[g].remaining = 0

\* At most one grant per bucket and non-empty SourceRef, so that a webhook
\* delivered again grants nothing.
SourceRefUnique ==
    \A g, h \in DOMAIN grants :
        /\ grants[g].ref # NoRef
        /\ grants[g].ref = grants[h].ref
        /\ grants[g].bucket = grants[h].bucket
        => g = h

\* FIFO by expiry: a deduction draws on a live grant of its own bucket, and only
\* when every grant of the bucket that expires sooner ends up empty.
DrawsFIFO ==
    [][\A d \in deductions' \ deductions :
          /\ grants[d.grant].bucket = d.bucket
          /\ ~Expired(d.grant) /\ ~grants[d.grant].revoked
          /\ \A g \in Counted(d.bucket) :
                ExpiresBefore(g, d.grant) => grants'[g].remaining = 0]_vars

\* TryDeduct answers by the balance it reports: an unseen request succeeds
\* exactly when the balance covers it, and then the balance drops by the amount.
AnswersByBalance ==
    [][\A q \in RequestIDs, b \in Buckets, a \in Amounts :
          q \notin seenDeduction /\ TryDeduct(q, b, a) =>
              /\ (answer'[q] = "ok") <=> (Balance(b) >= a)
              /\ answer'[q] = "ok" => Balance(b)' = Balance(b) - a]_vars

\* A request id is charged at most once, whatever is asked with it later.
ChargedOnce ==
    [][\A q \in RequestIDs : charged[q] # 0 => charged'[q] = charged[q]]_vars
=============================================================================
