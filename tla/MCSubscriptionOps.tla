--------------------------- MODULE MCSubscriptionOps ---------------------------
(***************************************************************************)
(* Subscription operations and the mirror on small instances.              *)
(***************************************************************************)
EXTENDS Plans

CONSTANT s1, c1, c2

OneSub == {s1}
TwoClients == {c1, c2}

Item == [price |-> "basic", qty |-> 1]

SeatCall(n) == [op |-> "set_seats", own |-> TRUE, price |-> "basic", n |-> n, prorate |-> TRUE]
MigrateCall(from, to) == [op |-> "migrate", from |-> from, to |-> to, prorate |-> TRUE]

\* The calls that resolve an item first.
ItemCalls ==
    {MigrateCall("basic", "pro"), SeatCall(2),
     [SeatCall(2) EXCEPT !.own = FALSE, !.price = "pro"],
     [op |-> "add_seats", own |-> TRUE, price |-> "basic", delta |-> 1, prorate |-> TRUE],
     [op |-> "adjust_seats", item |-> 1, n |-> 3, prorate |-> FALSE]}

\* One call of each kind that does not.
PlainCalls ==
    {[op |-> "cancel_at_end", flag |-> TRUE],
     [op |-> "cancel_now", prorate |-> FALSE, reason |-> ""],
     [op |-> "cancel_now", prorate |-> FALSE, reason |-> "refund_failed"],
     [op |-> "pause", behavior |-> "void"], [op |-> "resume"],
     [op |-> "apply_coupon", coupon |-> "SAVE20"], [op |-> "remove_coupon"]}

Budget(repeats, lost, passes, failed, calls) ==
    [repeats |-> repeats, lost |-> lost, passes |-> passes, failed |-> failed, calls |-> calls]

\* Either the mirror meets every fault, or the app is busy.
MirrorOrCalls == {Budget(1, 1, 2, 1, <<>>), Budget(0, 0, 0, 0, <<ItemCalls, ItemCalls, ItemCalls>>),
                  Budget(0, 0, 0, 0, <<PlainCalls>>)}

\* The basic plan has a limit of its own, the pro plan lifts it.
PlanMetadata ==
    [basic |-> [limit |-> {3}, add |-> 0, feature |-> FALSE],
     pro |-> [limit |-> {MaxInt}, add |-> 2, feature |-> TRUE]]
=============================================================================
