--------------------------- MODULE SubscriptionMirror ---------------------------
(***************************************************************************)
(* The subscription mirror (subscriptions/mirror.go, repo.go, reconcile.go *)
(* and repos/postgres/subscription_repo.go).  Stripe keeps a history of    *)
(* versions per subscription and emits one event for each, stamped with    *)
(* the second it was created in.  Events reach the connector's handlers in *)
(* any order, may be handled more than once and may be lost; a reconcile   *)
(* pass lists what Stripe has and upserts it one subscription at a time.   *)
(***************************************************************************)
EXTENDS Naturals, Sequences, FiniteSets

CONSTANTS
    Subs,         \* Stripe subscription ids
    EventTypes,   \* what may happen to a subscription after its creation
    Repos,        \* the repo implementations in use
    SameSecond,   \* whether two versions may fall in one second
    MaxVersions,  \* bound: versions per subscription
    Budgets       \* bounds, one set of which a behaviour has: events handled once
                  \* more, events Stripe gives up on, reconcile passes, failed upserts
                  \* of a pass, and the operations that the app may call, one after another

ASSUME MirrorAssumption ==
    /\ EventTypes \subseteq {"updated", "deleted", "paused", "resumed"}
    /\ Repos \subseteq {"memory", "postgres"}
    /\ SameSecond \in BOOLEAN
    /\ MaxVersions \in Nat
    /\ \A b \in Budgets : /\ DOMAIN b = {"repeats", "lost", "passes", "failed", "calls"}
                          /\ {b.repeats, b.lost, b.passes, b.failed} \subseteq Nat

VARIABLES
    repo,      \* the implementation behind SubscriptionRepo
    clock,     \* Stripe's clock, in seconds
    history,   \* [Subs -> Seq(version)], Stripe's side
    pending,   \* events <<sub, version>> that Stripe still delivers
    mirror,    \* [Subs -> row]
    pass,      \* what reconcile passes have listed and not yet upserted
    applied,   \* history: the events the mirror was updated from
    lossless,  \* history: Stripe has given up on no event
    env        \* what is left of the budget

vars == <<repo, clock, history, pending, mirror, pass, applied, lossless, env>>

\* A subscription that is not in the mirror.
NoRow == [version |-> 0, status |-> "none", stamp |-> 0]

Kinds == {"created"} \cup EventTypes
Statuses == {"active", "canceled", "paused"}
VersionType == [kind: Kinds, status: Statuses, second: Nat]
RowType == [version: Nat, status: Statuses \cup {"none"}, stamp: Nat]
ListedType == [sub: Subs, row: RowType]

\* The types of the mirror and of what it is fed from.
TypeOK ==
    /\ repo \in Repos
    /\ clock \in Nat
    /\ history \in [Subs -> Seq(VersionType)]
    /\ pending \subseteq Subs \X (1..MaxVersions)
    /\ mirror \in [Subs -> RowType]
    /\ pass \subseteq ListedType
    /\ applied \subseteq Subs \X (1..MaxVersions)
    /\ lossless \in BOOLEAN
    /\ {env.repeats, env.lost, env.passes, env.failed} \subseteq Nat

Init ==
    /\ repo \in Repos
    /\ clock = 1
    /\ history = [s \in Subs |-> <<>>]
    /\ pending = {}
    /\ mirror = [s \in Subs |-> NoRow]
    /\ pass = {}
    /\ applied = {}
    /\ lossless = TRUE
    /\ env \in Budgets

-----------------------------------------------------------------------------
(* Stripe.                                                                 *)

Newest(s) == history[s][Len(history[s])]
Ended(s) == history[s] # <<>> /\ Newest(s).kind = "deleted"

StatusAfter(kind) == CASE kind = "deleted" -> "canceled"
                       [] kind = "paused" -> "paused"
                       [] OTHER -> "active"

\* A subscription is created or changes, and an event for it is on its way.
Change(s, kind) ==
    /\ Len(history[s]) < MaxVersions
    /\ ~Ended(s)
    /\ (kind = "created") = (history[s] = <<>>)
    /\ history' = [history EXCEPT ![s] =
                      Append(@, [kind |-> kind, status |-> StatusAfter(kind), second |-> clock])]
    /\ pending' = pending \cup {<<s, Len(history[s]) + 1>>}
    /\ clock' \in {clock + 1} \cup (IF SameSecond THEN {clock} ELSE {})
    /\ UNCHANGED <<repo, mirror, pass, applied, lossless, env>>

\* The endpoint is down for so long that Stripe gives up on an event.
Lose(e) ==
    /\ e \in pending
    /\ env.lost > 0
    /\ env' = [env EXCEPT !.lost = @ - 1]
    /\ pending' = pending \ {e}
    /\ lossless' = FALSE
    /\ UNCHANGED <<repo, clock, history, mirror, pass, applied>>

-----------------------------------------------------------------------------
(* The repo.                                                               *)

\* Mutant: the watermark is not looked at.
ReplacesAlways(old, new) == TRUE

\* The watermark: the memory repo keeps the stored row when it is newer, the
\* Postgres repo also when it is as new.
Replaces(old, new) ==
    \/ old = NoRow
    \/ repo = "memory" /\ ~(old.stamp > new.stamp)
    \/ repo = "postgres" /\ old.stamp < new.stamp

Upsert(s, row) ==
    mirror' = IF Replaces(mirror[s], row) THEN [mirror EXCEPT ![s] = row] ELSE mirror

-----------------------------------------------------------------------------
(* Webhook events.                                                         *)

\* The event types that the connector's wrapped handlers are dispatched for.
Routed(kind) == kind \in {"created", "updated", "deleted"}

\* ApplyEventToMirror: the row an event is parsed to, stamped with event.created.
FromEvent(s, v) ==
    [version |-> v,
     status |-> IF history[s][v].kind = "deleted" THEN "canceled" ELSE history[s][v].status,
     stamp |-> history[s][v].second]

\* A handler runs.  When the app's own handler then fails, or its result gets
\* lost, the event comes again.
HandleEvent(s, v) ==
    /\ <<s, v>> \in pending
    /\ IF Routed(history[s][v].kind)
       THEN Upsert(s, FromEvent(s, v)) /\ applied' = applied \cup {<<s, v>>}
       ELSE UNCHANGED <<mirror, applied>>
    /\ \/ pending' = pending \ {<<s, v>>} /\ UNCHANGED env
       \/ /\ env.repeats > 0
          /\ env' = [env EXCEPT !.repeats = @ - 1]
          /\ UNCHANGED pending
    /\ UNCHANGED <<repo, clock, history, pass, lossless>>

-----------------------------------------------------------------------------
(* Reconciling.                                                            *)

\* Mutant: the projection carries the time of the list call.
FromListNow(s) ==
    LET v == Len(history[s])
    IN  [version |-> v, status |-> history[s][v].status, stamp |-> clock]

\* projectSubscription: the current version, stamped with the second of creation.
FromList(s) ==
    LET v == Len(history[s])
    IN  [version |-> v, status |-> history[s][v].status, stamp |-> history[s][1].second]

\* ListSince asks for what was created since; ListByCustomer for one customer.
\* Passes may overlap.
List(since, wanted) ==
    /\ env.passes > 0
    /\ env' = [env EXCEPT !.passes = @ - 1]
    /\ pass' = pass \cup
          {[sub |-> s, row |-> FromList(s)] :
              s \in {t \in wanted : history[t] # <<>> /\ history[t][1].second >= since}}
    /\ UNCHANGED <<repo, clock, history, pending, mirror, applied, lossless>>

\* upsertReconciled, one subscription.  An upsert that fails is logged and skipped.
UpsertListed(l) ==
    /\ l \in pass
    /\ pass' = pass \ {l}
    /\ UNCHANGED <<repo, clock, history, pending, applied, lossless>>
    /\ \/ Upsert(l.sub, l.row) /\ UNCHANGED env
       \/ /\ env.failed > 0
          /\ env' = [env EXCEPT !.failed = @ - 1]
          /\ UNCHANGED mirror

-----------------------------------------------------------------------------
Handle == \E s \in Subs, v \in 1..MaxVersions : HandleEvent(s, v)

Next ==
    \/ \E s \in Subs, kind \in Kinds : Change(s, kind)
    \/ \E e \in pending : Lose(e)
    \/ Handle
    \/ \E since \in 1..clock : List(since, Subs)
    \/ \E s \in Subs : List(0, {s})
    \/ \E l \in pass : UpsertListed(l)

Spec == Init /\ [][Next]_vars

\* Stripe delivers every event until it is handled, and passes run to the end.
FairSpec == /\ Spec
            /\ \A s \in Subs, v \in 1..MaxVersions : WF_vars(HandleEvent(s, v))
            /\ WF_vars(\E l \in pass : UpsertListed(l))

-----------------------------------------------------------------------------
(* Properties.                                                             *)

\* However events are reordered and repeated, and whenever a reconcile pass
\* comes in between, the mirror shows no state from an earlier second than an
\* event it was updated from.
NewestApplied ==
    \A e \in applied :
        /\ mirror[e[1]].version > 0
        /\ history[e[1]][mirror[e[1]].version].second >= history[e[1]][e[2]].second

\* When the last change of a subscription is one the connector routes and no
\* event is lost, the mirror ends up in that change's second: with the last
\* version itself, unless another version shares its second.
Converges ==
    \A s \in Subs : <>[]
        (lossless /\ history[s] # <<>> /\ Routed(Newest(s).kind) =>
            /\ mirror[s].version > 0
            /\ history[s][mirror[s].version].second = Newest(s).second)
=============================================================================
