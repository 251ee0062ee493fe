-------------------------------- MODULE Plans --------------------------------
(***************************************************************************)
(* What a subject may do (plans/plans.go): the entitlements that the plans *)
(* of its access-granting subscriptions in the mirror add up to.  One      *)
(* limit and one feature stand for all; integers are Width bits wide.      *)
(***************************************************************************)
EXTENDS SubscriptionOps, FiniteSetsExt

CONSTANTS
    Metadata,    \* price -> what its product declares, [limit, add: the values of
                 \* "limit.x" and "limit.x.add", feature]; absent when not in the spec
    Width        \* of an integer, 64 in the code

MaxInt == 2^(Width - 1) - 1
Wrap(n) == ((n + MaxInt + 1) % (2^Width)) - (MaxInt + 1)

\* The items of every subscription that grants access, unknown products skipped.
KnownItems(s) ==
    {i \in DOMAIN GetByStripeID(s).items : GetByStripeID(s).items[i].price \in DOMAIN Metadata}
PlanItems == UNION {{s} \X KnownItems(s) : s \in ListActive}

Declared(p) == Metadata[GetByStripeID(p[1]).items[p[2]].price]

\* mergeMetadata: the largest "limit.x", of which "unlimited" is MaxInt, the sum of
\* the "limit.x.add" and any "feature.y".
Limits == UNION {Declared(p).limit : p \in PlanItems}
Adds == {p \in PlanItems : Declared(p).add # 0}
LargestLimit == IF Limits = {} THEN 0 ELSE Max(Limits)
SumOfAdds == Wrap(MapThenSumSet(LAMBDA p : Declared(p).add, Adds))

mergeMetadata ==
    [has |-> Limits # {} \/ Adds # {},
     limit |-> LargestLimit,
     add |-> SumOfAdds,
     feature |-> \E p \in PlanItems : Declared(p).feature]

IntLimit(m) ==
    CASE ~m.has -> [value |-> 0, has |-> FALSE]
      [] m.has /\ (m.limit = MaxInt \/ m.add > Wrap(MaxInt - m.limit)) ->
            [value |-> MaxInt, has |-> TRUE]
      [] OTHER -> [value |-> Wrap(m.limit + m.add), has |-> TRUE]

SnapshotFor ==
    [active |-> ListActive # {},
     grace |-> \E s \in ListActive : mirror[s].status = "past_due",
     limit |-> IntLimit(mergeMetadata),
     feature |-> mergeMetadata.feature]

-----------------------------------------------------------------------------
\* The deletion of s was applied and no other version shares its second.
Removed(s) ==
    \E v \in DOMAIN history[s] :
        /\ <<s, v>> \in applied
        /\ history[s][v].kind = "deleted"
        /\ \A u \in DOMAIN history[s] \ {v} : history[s][u].second # history[s][v].second

\* Once the deletion of every subscription of a subject has been applied, the subject
\* is entitled to nothing and stays so, whatever older events and reconcile passes
\* still arrive (SnapshotFor over the mirror; subscriptions/operations.go:136-138).
AccessStaysLost ==
    (\A s \in Subs : InMirror(s) => Removed(s)) =>
        SnapshotFor = [active |-> FALSE, grace |-> FALSE,
                       limit |-> [value |-> 0, has |-> FALSE], feature |-> FALSE]
=============================================================================
