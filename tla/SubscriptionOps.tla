--------------------------- MODULE SubscriptionOps ---------------------------
(***************************************************************************)
(* The app's operations on subscriptions (subscriptions/operations.go,     *)
(* seats.go, schedules.go, refund_failed_handler.go) and their backend     *)
(* (stripeapi/subscription_backend.go), composed with the mirror: a call   *)
(* resolves its item from the mirror, or from Stripe, and then sends one   *)
(* write to Stripe, whose event updates the mirror later.  Operations of   *)
(* several callers interleave between the two steps.                       *)
(***************************************************************************)
EXTENDS SubscriptionMirror, StripeIdempotency, Integers

CONSTANTS
    Clients,      \* goroutines that call operations
    Cached,       \* price keys that the catalog cache resolves
    FirstItem     \* the item a subscription is created with

\* What the app calls, and with which arguments.
Operation ==
    [op: {"migrate"}, from: STRING, to: STRING, prorate: BOOLEAN]
    \cup [op: {"set_seats"}, own: BOOLEAN, price: STRING, n: Int, prorate: BOOLEAN]
    \cup [op: {"add_seats"}, own: BOOLEAN, price: STRING, delta: Int, prorate: BOOLEAN]
    \cup [op: {"adjust_seats"}, item: Nat, n: Int, prorate: BOOLEAN]
    \cup [op: {"cancel_at_end"}, flag: BOOLEAN]
    \cup [op: {"cancel_now"}, prorate: BOOLEAN, reason: STRING]
    \cup [op: {"pause"}, behavior: STRING]
    \cup [op: {"resume", "remove_coupon"}]
    \cup [op: {"apply_coupon"}, coupon: STRING]

ASSUME OpsAssumption ==
    /\ FirstItem \in [price: STRING, qty: Int]
    /\ \A b \in Budgets : b.calls \in Seq(SUBSET Operation)

VARIABLES
    body,         \* [Subs -> Seq(state)]: what each version of history holds
    used,         \* Stripe: idempotency keys of the last 24 hours
    call          \* each client's operation between its steps

opVars == <<body, used, call>>
allVars == <<vars, opVars>>
mirrorVars == <<repo, clock, history, pending, mirror, pass, applied, lossless>>

NoCall == [pc |-> "idle"]
Body(s) == body[s][Len(body[s])]
ItemsAt(b, price) == {i \in DOMAIN b.items : b.items[i].price = price}

\* The mirror's row of s, when there is one.
GetByStripeID(s) == body[s][mirror[s].version]
InMirror(s) == mirror[s].version > 0

OpsInit ==
    /\ Init
    /\ body = [s \in Subs |-> <<>>]
    /\ used = {}
    /\ call = [c \in Clients |-> NoCall]

-----------------------------------------------------------------------------
(* The writes: what each backend method sends.                             *)

Write(s, op, args) == [sub |-> s, op |-> op, args |-> args]

CancelAtPeriodEnd(s, o) == Write(s, "subscription.cancel_at_period_end", <<o.flag>>)
CancelNow(s, o) == Write(s, "subscription.cancel_now", <<o.prorate, o.reason>>)
Pause(s, o) == Write(s, "subscription.pause", <<o.behavior>>)
Resume(s, o) == Write(s, "subscription.resume", <<>>)
ApplyCoupon(s, o) == Write(s, "subscription.apply_coupon", <<o.coupon>>)
RemoveCoupon(s, o) == Write(s, "subscription.remove_coupon", <<>>)

Delete(i) == [item |-> i, price |-> "", qty |-> 0, deleted |-> TRUE]
Add(price) == [item |-> 0, price |-> price, qty |-> 1, deleted |-> FALSE]
Quantity(i, n) == [item |-> i, price |-> "", qty |-> n, deleted |-> FALSE]

UpdateItems(s, prorate, changes) ==
    Write(s, "subscription.update_items", <<prorate, changes>>)

\* A faulty variant: the item that is migrated from stays.
KeepOld(i, price) == <<Add(price)>>

MigrateItems(i, price) == <<Delete(i), Add(price)>>

-----------------------------------------------------------------------------
(* Resolving: the writes a call may send after what it has read; none when *)
(* it returns an error or has nothing to do.                               *)

Migrate(s, o) ==
    {UpdateItems(s, o.prorate, MigrateItems(i, o.to)) :
        i \in {j \in IF InMirror(s) THEN ItemsAt(GetByStripeID(s), o.from) ELSE {} :
                o.to \in Cached}}

\* A faulty variant: the write goes to the one item the subscription has now.
AnyItem(s, o) == IF Ended(s) THEN {} ELSE {[item |-> i, qty |-> Body(s).items[i].qty] :
                                               i \in DOMAIN Body(s).items}

\* The mirror when it knows the subscription, which must be the subject's, and
\* Stripe when it does not.
resolveSeatItem(s, o) ==
    LET b == IF InMirror(s) THEN GetByStripeID(s) ELSE Body(s)
    IN  IF InMirror(s) /\ ~o.own THEN {}
        ELSE {[item |-> i, qty |-> b.items[i].qty] : i \in ItemsAt(b, o.price)}

SetSeats(s, o) ==
    {UpdateItems(s, o.prorate, <<Quantity(r.item, o.n)>>) :
        r \in {x \in resolveSeatItem(s, o) : o.n > 0 /\ x.qty # o.n}}

AdjustSeats(s, o) ==
    {UpdateItems(s, o.prorate, <<Quantity(i, o.n)>>) : i \in {j \in {o.item} : j # 0 /\ o.n > 0}}

Resolve(s, o) ==
    CASE o.op = "migrate"       -> Migrate(s, o)
      [] o.op = "set_seats"     -> SetSeats(s, o)
      [] o.op = "adjust_seats"  -> AdjustSeats(s, o)
      [] o.op = "cancel_at_end" -> {CancelAtPeriodEnd(s, o)}
      [] o.op = "cancel_now"    -> {CancelNow(s, o)}
      [] o.op = "pause"         -> {Pause(s, o)}
      [] o.op = "resume"        -> {Resume(s, o)}
      [] o.op = "apply_coupon"  -> {ApplyCoupon(s, o)}
      [] o.op = "remove_coupon" -> {RemoveCoupon(s, o)}

Callable == IF env.calls = <<>> THEN {} ELSE Head(env.calls)
Calls(o) == o \in Callable /\ env' = [env EXCEPT !.calls = Tail(@)]

\* A call begins and resolves its write.
Begin(c, s, o) ==
    /\ call[c] = NoCall
    /\ history[s] # <<>>
    /\ o.op # "add_seats"
    /\ Calls(o)
    /\ \E w \in Resolve(s, o) : call' = [call EXCEPT ![c] = [pc |-> "send", o |-> o, w |-> w]]
    /\ UNCHANGED <<mirrorVars, body, used>>

\* SeatCount, which is 0 when the price is not on the subscription.
SeatCounts(s, o) ==
    IF InMirror(s) /\ ~o.own THEN {}
    ELSE IF resolveSeatItem(s, o) = {} THEN {0}
    ELSE {r.qty : r \in resolveSeatItem(s, o)}

\* AddSeats reads the count ...
AddSeats(c, s, o) ==
    /\ call[c] = NoCall
    /\ history[s] # <<>>
    /\ o.op = "add_seats" /\ o.delta # 0
    /\ Calls(o)
    /\ \E cur \in SeatCounts(s, o) :
          /\ cur + o.delta > 0
          /\ call' = [call EXCEPT ![c] =
                [pc |-> "counted", sub |-> s,
                 o |-> [op |-> "set_seats", own |-> o.own, price |-> o.price,
                        n |-> cur + o.delta, prorate |-> o.prorate]]]
    /\ UNCHANGED <<mirrorVars, body, used>>

\* ... and calls SetSeats, which reads again.
AddSeatsSets(c) ==
    /\ call[c].pc = "counted"
    /\ LET ws == SetSeats(call[c].sub, call[c].o)
       IN  \/ ws = {} /\ call' = [call EXCEPT ![c] = NoCall]
           \/ \E w \in ws : call' = [call EXCEPT ![c] = [pc |-> "send", o |-> @.o, w |-> w]]
    /\ UNCHANGED <<vars, body, used>>

\* A refund that failed for good cancels the subscription its payment belongs to.
CancelSubscriptionFromFailedRefund(c, s, status) ==
    /\ status = "failed"
    /\ Begin(c, s, [op |-> "cancel_now", prorate |-> FALSE, reason |-> "refund_failed"])

-----------------------------------------------------------------------------
(* Stripe.                                                                 *)

IdemKey(w) == ApplyIdempotencyKey("", w.op, <<w.sub>> \o w.args)

ItemsAfter(s, changes) ==
    LET old == Body(s).items
        gone == {changes[k].item : k \in {j \in DOMAIN changes : changes[j].deleted}}
        set == {k \in DOMAIN changes : changes[k].item # 0 /\ ~changes[k].deleted}
        new == {k \in DOMAIN changes : changes[k].item = 0}
        qty(i) == IF \E k \in set : changes[k].item = i
                  THEN changes[CHOOSE k \in set : changes[k].item = i].qty ELSE old[i].qty
        \* an item's id is the version it came with
        id == Len(history[s]) + 1
    IN  [i \in (DOMAIN old \ gone) \cup {id : k \in new} |->
            IF i \in DOMAIN old THEN [old[i] EXCEPT !.qty = qty(i)]
            ELSE LET k == CHOOSE j \in new : TRUE
                 IN  [price |-> changes[k].price, qty |-> changes[k].qty]]

\* A subscription that has ended, and an item that is not on it, are refused.
Refused(w) ==
    \/ Ended(w.sub)
    \/ /\ w.op = "subscription.update_items"
       /\ \E k \in DOMAIN w.args[2] : w.args[2][k].item \notin {0} \cup DOMAIN Body(w.sub).items

BodyAfter(w) ==
    LET b == Body(w.sub)
    IN  CASE w.op = "subscription.cancel_at_period_end" -> [b EXCEPT !.ending = w.args[1]]
          [] w.op = "subscription.pause" -> [b EXCEPT !.paused = TRUE]
          [] w.op = "subscription.resume" -> [b EXCEPT !.paused = FALSE]
          [] w.op = "subscription.apply_coupon" -> [b EXCEPT !.coupon = w.args[1]]
          [] w.op = "subscription.remove_coupon" -> [b EXCEPT !.coupon = ""]
          [] w.op = "subscription.update_items" -> [b EXCEPT !.items = ItemsAfter(w.sub, w.args[2])]
          [] OTHER -> b

\* Stripe executes the write, unless it has its key: a new version and its event,
\* when anything changes.
Execute(w) ==
    IF Replays(IdemKey(w), used) \/ Refused(w) THEN UNCHANGED <<vars, body, used>>
    ELSE /\ used' = used \cup {IdemKey(w)}
         /\ IF w.op # "subscription.cancel_now" /\ BodyAfter(w) = Body(w.sub)
            THEN UNCHANGED <<vars, body>>
            ELSE /\ Change(w.sub, IF w.op = "subscription.cancel_now" THEN "deleted" ELSE "updated")
                 /\ body' = [body EXCEPT ![w.sub] = Append(@, BodyAfter(w))]

\* The write is sent.  Whatever answer comes, the call is over; a caller that saw
\* an error may call again.
Send(c) ==
    /\ call[c].pc = "send"
    /\ Execute(call[c].w)
    /\ call' = [call EXCEPT ![c] = NoCall]

\* The write never arrives.
SendFails(c) ==
    /\ call[c].pc = "send"
    /\ call' = [call EXCEPT ![c] = NoCall]
    /\ UNCHANGED <<vars, body, used>>

\* Stripe's side: a subscription is bought, a renewal or a dunning step changes or
\* ends one.
ChangedByStripe(s, kind) ==
    /\ Change(s, kind)
    /\ body' = [body EXCEPT ![s] = Append(@,
            IF @ = <<>> THEN [items |-> [i \in {1} |-> FirstItem], ending |-> FALSE,
                              paused |-> FALSE, coupon |-> ""]
            ELSE Body(s))]
    /\ UNCHANGED <<used, call>>

KeysExpire ==
    /\ used # {}
    /\ used' = {}
    /\ UNCHANGED <<vars, body, call>>

MirrorStep ==
    /\ \/ \E e \in pending : Lose(e)
       \/ Handle
       \/ \E since \in 1..clock : List(since, Subs)
       \/ \E s \in Subs : List(0, {s})
       \/ \E l \in pass : UpsertListed(l)
    /\ UNCHANGED opVars

OpsNext ==
    \/ \E c \in Clients, s \in Subs, o \in Callable : Begin(c, s, o) \/ AddSeats(c, s, o)
    \/ \E c \in Clients, s \in Subs, status \in {"succeeded", "failed"} :
          CancelSubscriptionFromFailedRefund(c, s, status)
    \/ \E c \in Clients : AddSeatsSets(c) \/ Send(c) \/ SendFails(c)
    \/ \E s \in Subs, kind \in Kinds : ChangedByStripe(s, kind)
    \/ KeysExpire
    \/ MirrorStep

OpsSpec ==
    /\ OpsInit /\ [][OpsNext]_allVars
    /\ \A s \in Subs, v \in 1..MaxVersions : WF_allVars(HandleEvent(s, v) /\ UNCHANGED opVars)
    /\ WF_allVars((\E l \in pass : UpsertListed(l)) /\ UNCHANGED opVars)

-----------------------------------------------------------------------------
(* The hot path and the properties.                                        *)

IsAccessGranting(status) == status \in {"active", "trialing", "past_due"}

ListActive == {s \in Subs : InMirror(s) /\ IsAccessGranting(mirror[s].status)}

\* Whatever migrations and seat changes race each other, are retried and are
\* resolved from a stale mirror, a subscription never carries two plans or none
\* (Migrate deletes the old item by its id and adds the new one in one write).
OnePlanItem == \A s \in Subs : history[s] # <<>> => \E i \in DOMAIN Body(s).items : DOMAIN Body(s).items = {i}

SeatsStep ==
    \A s \in Subs : body[s] # <<>> =>
       \A i \in DOMAIN Body(s).items \cap DOMAIN Body(s)'.items :
          Body(s)'.items[i].qty # Body(s).items[i].qty =>
            \E c \in Clients :
              /\ call[c].pc = "send" /\ call'[c] = NoCall
              /\ call[c].o.n = Body(s)'.items[i].qty
              /\ \/ call[c].o.op = "adjust_seats" /\ call[c].o.item = i
                 \/ call[c].o.op = "set_seats" /\ call[c].o.price = Body(s).items[i].price

\* A seat count only ever lands on the price it was asked for, although the item
\* was looked up before the write and a migration may have come in between
\* (resolveSeatItem, UpdateItems).
SeatsStayOnTheirPrice == [][SeatsStep]_allVars
=============================================================================
