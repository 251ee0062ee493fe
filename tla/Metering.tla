------------------------------ MODULE Metering ------------------------------
(***************************************************************************)
(* Usage from the hot path to Stripe's meters, for one metric: the usage   *)
(* table (repos/postgres/usage_repo.go), ReconcileToStripe and             *)
(* RecordDirect (metering/reconcile.go), and PushBatch                     *)
(* (stripeapi/meter_backend.go), driven by the checkpoint loop that        *)
(* ReconcileToStripe's comment prescribes.  Time is counted in hours; the  *)
(* current hour is still open.                                             *)
(***************************************************************************)
EXTENDS CustomerRepo, Integers, FiniteSets, FiniteSetsExt

CONSTANTS
    Reconcilers,   \* instances that run the checkpoint loop
    Zones,         \* the locations an instance's time.Time values carry
    MaxHour        \* bound on the clock

ASSUME HourAssumption == MaxHour \in Nat

VARIABLES
    usage,         \* rows: [subject, req, quantity, hour]
    recorded,      \* history: every row ever inserted
    meter,         \* Stripe: meter event -> how often it counts
    known,         \* Stripe: identifiers of the last 24 hours
    checkpoint,    \* the app's LastReconciledHour
    recon,         \* each instance's run of ReconcileToStripe
    hour,          \* now
    excused,       \* history: [subject, hour] reconciled too early, or late usage
    forgot,        \* history: Stripe forgot identifiers
    lost,          \* bound: how many more pushes may fail
    used, direct   \* bound: the usage and the direct events there may be

meterVars == <<usage, recorded, meter, known, checkpoint, recon, hour, excused, forgot, lost,
               used, direct>>

\* What an app may record: a positive quantity (operations.go refuses others).
UsageInput == [subject: Subjects, req: STRING, quantity: Nat \ {0}]

NoRun == [pc |-> "idle"]

MeteringInit(maxLost, requests, events) ==
    /\ usage = {} /\ recorded = {}
    /\ meter = <<>> /\ known = {}
    /\ checkpoint = 0
    /\ recon = [r \in Reconcilers |-> NoRun]
    /\ hour = 1
    /\ excused = {}
    /\ forgot = FALSE
    /\ lost = maxLost
    /\ used = requests /\ direct = events

\* INSERT ... ON CONFLICT (subject_id, metric, request_id) DO NOTHING; OccurredAt is
\* the time of the call, or the caller's.
RecordUsage(u, at) ==
    LET row == [subject |-> u.subject, req |-> u.req, quantity |-> u.quantity, hour |-> at]
    IN  /\ \A e \in usage : e.subject # u.subject \/ e.req # u.req
        /\ usage' = usage \cup {row}
        /\ recorded' = recorded \cup {row}
        /\ excused' = IF at < hour THEN excused \cup {<<u.subject, at>>} ELSE excused
        /\ UNCHANGED <<meter, known, checkpoint, recon, hour, forgot, lost>>

Total(rows) == MapThenSumSet(LAMBDA e : e.quantity, rows)
In(rows, s, h) == {e \in rows : e.subject = s /\ e.hour = h}

QueryByPeriod(s, h) == Total(In(usage, s, h))

AggregateByPeriod(h) == {s \in Subjects : In(usage, s, h) # {}}

\* A faulty variant: the identifier covers the total as well.
ValueIdentifier(s, h, zone) == <<"reconcile", s, h, zone, QueryByPeriod(s, h)>>

\* The hash renders period.Start with %v, which includes its location.
reconcileIdentifier(s, h, zone) == <<"reconcile", s, h, zone>>

PushEvents(h, zone) ==
    {[subject |-> s, value |-> QueryByPeriod(s, h), id |-> reconcileIdentifier(s, h, zone), hour |-> h] :
        s \in {t \in AggregateByPeriod(h) : Get(t) # NoCustomer}}

\* One turn of the loop: the hour after the checkpoint, if it has begun.  The
\* aggregation and the customer lookups; subjects without a customer are skipped.
ReconcileToStripe(r, zone) ==
    LET h == checkpoint + 1
    IN  /\ recon[r] = NoRun
        /\ h <= hour
        /\ recon' = [recon EXCEPT ![r] = [pc |-> "push", hour |-> h, left |-> PushEvents(h, zone)]]
        /\ excused' = excused \cup {<<s, h>> : s \in {t \in Subjects : h = hour \/ Get(t) = NoCustomer}}
        /\ UNCHANGED <<usage, recorded, meter, known, checkpoint, hour, forgot, lost>>

\* Stripe on a meter event: an identifier it remembers counts once.
Times(e) == IF e \in DOMAIN meter THEN meter[e] ELSE 0

Accept(e) ==
    /\ meter' = IF e.id \in known THEN meter
                ELSE [x \in DOMAIN meter \cup {e} |-> IF x = e THEN Times(e) + 1 ELSE meter[x]]
    /\ known' = known \cup {e.id}

\* A faulty variant: PushBatch goes on after an error.
PushOnError(r, e) == recon' = [recon EXCEPT ![r].left = @ \ {e}]

\* PushBatch returns at the first error, and the loop does not advance.
ReturnOnError(r, e) == recon' = [recon EXCEPT ![r] = NoRun]

PushBatch(r) ==
    /\ recon[r].pc = "push"
    /\ \E e \in recon[r].left :
         \/ Accept(e) /\ recon' = [recon EXCEPT ![r].left = @ \ {e}] /\ UNCHANGED lost
         \/ /\ lost > 0 /\ lost' = lost - 1
            /\ ReturnOnError(r, e)
            /\ Accept(e) \/ UNCHANGED <<meter, known>>
    /\ UNCHANGED <<usage, recorded, checkpoint, hour, excused, forgot>>

\* app.AdvanceCheckpoint(hour).
AdvanceCheckpoint(r) ==
    /\ recon[r].pc = "push" /\ recon[r].left = {}
    /\ checkpoint' = Max({checkpoint, recon[r].hour})
    /\ recon' = [recon EXCEPT ![r] = NoRun]
    /\ UNCHANGED <<usage, recorded, meter, known, hour, excused, forgot, lost>>

\* The identifier is the caller's request, or one constant per subject without it.
directIdentifier(u) == IF u.req = "" THEN <<"direct", u.subject>> ELSE <<u.req>>

RecordDirect(u) ==
    /\ Get(u.subject) # NoCustomer
    /\ Accept([subject |-> u.subject, value |-> u.quantity, id |-> directIdentifier(u), hour |-> 0])
    /\ UNCHANGED <<usage, recorded, checkpoint, recon, hour, excused, forgot, lost>>

\* PruneOlderThan, scheduled for hours that are reconciled.
PruneOlderThan(h) ==
    /\ h <= checkpoint
    /\ usage' = {e \in usage : e.hour > h}
    /\ usage' # usage
    /\ UNCHANGED <<recorded, meter, known, checkpoint, recon, hour, excused, forgot, lost>>

HourPasses ==
    /\ hour < MaxHour
    /\ hour' = hour + 1
    /\ UNCHANGED <<usage, recorded, meter, known, checkpoint, recon, excused, forgot, lost>>

IdentifiersExpire ==
    /\ known # {} /\ ~forgot
    /\ known' = {}
    /\ forgot' = TRUE
    /\ UNCHANGED <<usage, recorded, meter, checkpoint, recon, hour, excused, lost>>

\* A request is retried while its row is kept.
Pruned(u) == \E e \in recorded \ usage : e.subject = u.subject /\ e.req = u.req

MeteringStep ==
    \/ \E u \in used, at \in {hour - 1, hour} \ {0} : ~Pruned(u) /\ RecordUsage(u, at)
    \/ \E r \in Reconcilers : \/ \E zone \in Zones : ReconcileToStripe(r, zone)
                              \/ PushBatch(r) \/ AdvanceCheckpoint(r)
    \/ \E u \in direct : RecordDirect(u)
    \/ \E h \in 1 .. MaxHour : PruneOlderThan(h)
    \/ HourPasses \/ IdentifiersExpire

MeteringNext == MeteringStep /\ UNCHANGED <<used, direct>>

\* Metering by itself, whatever happens to the mapping of customers.
MeteringStart ==
    \E maxLost, requests, events :
        requests \subseteq UsageInput /\ MeteringInit(maxLost, requests, events)

MeteringSpec == MeteringStart /\ [][MeteringNext]_meterVars

-----------------------------------------------------------------------------
Billed(s, h) ==
    MapThenSumSet(LAMBDA e : e.value * meter[e],
                  {e \in DOMAIN meter : e.subject = s /\ e.hour = h})

\* However many instances run the loop, and whichever pushes are lost and repeated,
\* an hour's usage is never billed beyond what was recorded, as long as Stripe
\* remembers identifiers (reconcileIdentifier covers the window and not the total).
\* The times of all instances are in one zone (Zones has one element): the identifier
\* covers how the start of the window is printed (reconcile.go:161), so that two
\* instances in two zones bill an hour twice.
NeverOverbilled ==
    forgot \/ \A s \in Subjects, h \in 1 .. MaxHour : Billed(s, h) <= Total(In(recorded, s, h))

\* Once the checkpoint has passed an hour that was over and whose usage was all in when
\* it was first reconciled, every subject that had a customer then is billed for all of
\* it, whatever failed on the way (ReconcileToStripe returns PushBatch's error, and
\* PushBatch stops at it, so that the loop does not advance).
ClosedHoursBilled ==
    \A s \in Subjects, h \in 1 .. checkpoint :
        <<s, h>> \in excused \/ Billed(s, h) >= Total(In(recorded, s, h))
=============================================================================
