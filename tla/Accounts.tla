------------------------------ MODULE Accounts ------------------------------
(***************************************************************************)
(* A subject's Stripe customer from first checkout to erasure: checkout    *)
(* sessions (checkout/checkout.go, stripeapi/checkout_backend.go),         *)
(* subscriptions by invoice (CreateInvoiced in subscriptions/operations.go *)
(* and stripeapi/subscription_backend.go), Forget and ImportCustomer       *)
(* (customers/forget.go, customers/backfill.go).  Every call to Stripe or  *)
(* to a repository is a step of its own; the calls of several goroutines   *)
(* interleave and any step may fail.                                       *)
(***************************************************************************)
EXTENDS CustomerRepo, Sequences, FiniteSets, StripeIdempotency

CONSTANT Workers   \* goroutines that serve requests

VARIABLES
    customers,     \* Stripe: sequence of [for, ns, deleted], id = position
    subs,          \* Stripe: sequence of [customer, live, ns, inline]
    sessions,      \* Stripe: sequence of sessions
    inline,        \* Stripe: sequence of BOOLEAN, is the ad-hoc price or product active
    keys,          \* Stripe: idempotency key -> [params, id] of the last 24 hours
    grants,        \* the credit ledger: sequence of [subject, revoked]
    proc,          \* each worker's call
    expired,       \* history: Stripe forgot keys
    faults         \* bound: how many more calls may fail

stripeVars == <<customers, subs, sessions, inline, keys>>
accountVars == <<mapping, stripeVars, grants, proc, expired, faults>>

OwnNs == "app"
Idle == [op |-> "", pc |-> "idle"]

\* A program that starts over the database of an earlier one: customers 1 and 2 are
\* in Stripe, and some are mapped.
AccountsInit(mapped, maxFaults) ==
    /\ mapping = mapped
    /\ customers = <<[for |-> "", ns |-> IF \E s \in Subjects : mapped[s] = 1 THEN OwnNs ELSE "",
                      deleted |-> FALSE],
                     [for |-> "", ns |-> "other", deleted |-> FALSE]>>
    /\ subs = <<[customer |-> 1, live |-> TRUE, ns |-> "", inline |-> 0]>>
    /\ sessions = <<>>
    /\ inline = <<>>
    /\ keys = <<>>
    /\ grants = <<>>
    /\ proc = [w \in Workers |-> Idle]
    /\ expired = FALSE
    /\ faults = maxFaults

At(w, op, pc) == proc[w].op = op /\ proc[w].pc = pc
Goto(w, pc) == proc' = [proc EXCEPT ![w].pc = pc]
Return(w) == proc' = [proc EXCEPT ![w] = Idle]

\* An error return; at the final create, what was provisioned is archived first.
AfterError(p) == IF p.pc = "object" THEN [p EXCEPT !.pc = "archive"] ELSE Idle

Failed(w) ==
    /\ faults > 0
    /\ faults' = faults - 1
    /\ proc' = [proc EXCEPT ![w] = AfterError(@)]

\* Stripe has done what it was asked; its answer arrives, or is lost.
Reply(w, next) == (proc' = [proc EXCEPT ![w] = next] /\ UNCHANGED faults) \/ Failed(w)

\* Stripe on a create: a remembered key is answered with its object when the
\* parameters are the same and refused when they are not.
Known(key) == key \in DOMAIN keys
Mismatch(key, params) == Known(key) /\ keys[key].params # params
Answer(key, new) == IF Known(key) THEN keys[key].id ELSE new
Remember(key, params, id) ==
    keys' = IF Known(key) THEN keys
            ELSE [k \in DOMAIN keys \cup {key} |->
                     IF k = key THEN [params |-> params, id |-> id] ELSE keys[k]]

-----------------------------------------------------------------------------
(* CreateSession.                                                          *)

validateCustomAmount(li) == li.type = "custom" => li.amount

validateInput(in) == in.cart # {} /\ in.urls

\* The mode of a cart; "" for an unknown or unsynced price and for a mixed cart.
resolveLineItems(cart) ==
    LET recurring == \E li \in cart : li.type = "recurring"
        oneTime == \E li \in cart : li.type \in {"one_time", "custom"}
    IN  CASE \E li \in cart : li.type = "unknown" \/ ~validateCustomAmount(li) -> ""
          [] recurring /\ oneTime -> ""
          [] oneTime -> "payment"
          [] OTHER -> "subscription"

\* What the grant handler will find in the session's metadata; a custom amount
\* has no price key and so no product.
collectPendingGrants(cart) == {li \in cart : li.type # "custom" /\ li.grant}

sessionMetadata(in) == <<OwnNs, in.subject, collectPendingGrants(in.cart)>>

\* CreateSession up to customers.Get.
CreateSession(w, in) ==
    /\ proc[w] = Idle
    /\ validateInput(in)
    /\ resolveLineItems(in.cart) # ""
    /\ in.trial => resolveLineItems(in.cart) = "subscription"
    /\ proc' = [proc EXCEPT ![w] =
          [op |-> "checkout", pc |-> IF Get(in.subject) = NoCustomer THEN "create" ELSE "inline",
           in |-> in, customer |-> Get(in.subject), inline |-> 0]]
    /\ UNCHANGED <<mapping, stripeVars, grants, expired, faults>>

\* A faulty variant: the key covers everything that is sent.
EmailKey(in) == ApplyIdempotencyKey("", "customer.create", <<OwnNs, in.subject, in.email>>)

\* The key is derived from the metadata; the e-mail is not part of it.
CustomerKey(in) == ApplyIdempotencyKey("", "customer.create", <<OwnNs, in.subject>>)

CreateCustomer(w) ==
    LET in == proc[w].in
        key == CustomerKey(in)
        id == Answer(key, Len(customers) + 1)
    IN  /\ At(w, "checkout", "create")
        /\ IF Mismatch(key, in.email) THEN Return(w) /\ UNCHANGED <<customers, keys, faults>>
           ELSE /\ customers' = IF Known(key) THEN customers
                                ELSE Append(customers, [for |-> in.subject, ns |-> OwnNs, deleted |-> FALSE])
                /\ Remember(key, in.email, id)
                /\ Reply(w, [proc[w] EXCEPT !.pc = "upsert", !.customer = id])
        /\ UNCHANGED <<mapping, subs, sessions, inline, grants, expired>>

resolveCustomer(w) ==
    LET s == proc[w].in.subject
    IN  /\ At(w, "checkout", "upsert")
        /\ IF Taken(s, proc[w].customer) THEN Return(w) /\ UNCHANGED mapping
           ELSE Upsert(s, proc[w].customer) /\ Goto(w, "inline")
        /\ UNCHANGED <<stripeVars, grants, expired, faults>>

\* An object made on the way to another one: the first call with a key makes it.
Provision(w, key) ==
    LET id == Answer(key, Len(inline) + 1)
    IN  /\ inline' = IF Known(key) THEN inline ELSE Append(inline, TRUE)
        /\ Remember(key, "", id)
        /\ Reply(w, [proc[w] EXCEPT !.pc = "object", !.inline = id])

\* Bound: a cart has one custom line, so that there is no earlier price to archive when
\* the creation of one fails.
createAdHocCustomPrice(w) ==
    LET in == proc[w].in
    IN  /\ At(w, "checkout", "inline")
        /\ IF \E li \in in.cart : li.type = "custom"
           THEN Provision(w, ApplyIdempotencyKey("", "price.create.adhoc", sessionMetadata(in)))
           ELSE Goto(w, "object") /\ UNCHANGED <<inline, keys, faults>>
        /\ UNCHANGED <<mapping, customers, subs, sessions, grants, expired>>

\* Stripe refuses a deleted customer and an archived price or product.
Refused(p) == customers[p.customer].deleted \/ (p.inline # 0 /\ ~inline[p.inline])

CreateCheckoutSession(w) ==
    LET p == proc[w]
        key == ApplyIdempotencyKey("", "checkout.session.create",
                                   <<p.customer, p.in.cart>> \o sessionMetadata(p.in))
        params == <<p.in.trial, p.inline>>
        new == [customer |-> p.customer, subject |-> p.in.subject, state |-> "open",
                mode |-> resolveLineItems(p.in.cart), inline |-> p.inline,
                grants |-> collectPendingGrants(p.in.cart) # {}]
    IN  /\ At(w, "checkout", "object")
        /\ IF Mismatch(key, params) \/ (~Known(key) /\ Refused(p))
           THEN Goto(w, "archive") /\ UNCHANGED <<sessions, keys, faults>>
           ELSE /\ sessions' = IF Known(key) THEN sessions ELSE Append(sessions, new)
                /\ Remember(key, params, Len(sessions) + 1)
                /\ Reply(w, Idle)
        /\ UNCHANGED <<mapping, customers, subs, inline, grants, expired>>

\* archiveOrphanAdHocPrices and archiveOrphanProducts: what the call was given,
\* whether it or an earlier call with the same key made it.
Archived(w) == [i \in DOMAIN inline |-> inline[i] /\ i # proc[w].inline]

archiveOrphanAdHocPrices(w) ==
    /\ At(w, "checkout", "archive")
    /\ inline' = Archived(w)
    /\ Return(w)
    /\ UNCHANGED <<mapping, customers, subs, sessions, keys, grants, expired, faults>>

-----------------------------------------------------------------------------
(* CreateInvoiced.  The app passes the customer it finds in the mapping.   *)

CreateInvoiced(w, in) ==
    /\ proc[w] = Idle
    /\ Get(in.subject) # NoCustomer
    /\ proc' = [proc EXCEPT ![w] =
          [op |-> "invoiced", pc |-> IF in.fee THEN "inline" ELSE "object",
           in |-> in, customer |-> Get(in.subject), inline |-> 0]]
    /\ UNCHANGED <<mapping, stripeVars, grants, expired, faults>>

\* The setup fee's product; its key has the fee's name and the namespace.
buildAddInvoiceItemParams(w) ==
    /\ At(w, "invoiced", "inline")
    /\ Provision(w, ApplyIdempotencyKey("", "product.create.setup_fee", <<OwnNs>>))
    /\ UNCHANGED <<mapping, customers, subs, sessions, grants, expired>>

CreateSubscription(w) ==
    LET p == proc[w]
        key == ApplyIdempotencyKey("", "subscription.create_invoiced", <<p.customer, OwnNs>>)
        params == <<p.in.fee, p.inline>>
    IN  /\ At(w, "invoiced", "object")
        /\ IF Mismatch(key, params) \/ (~Known(key) /\ Refused(p))
           THEN Goto(w, "archive") /\ UNCHANGED <<subs, keys, faults>>
           ELSE /\ subs' = IF Known(key) THEN subs
                           ELSE Append(subs, [customer |-> p.customer, live |-> TRUE,
                                              ns |-> OwnNs, inline |-> p.inline])
                /\ Remember(key, params, Len(subs) + 1)
                /\ Reply(w, Idle)
        /\ UNCHANGED <<mapping, customers, sessions, inline, grants, expired>>

archiveOrphanProducts(w) ==
    /\ At(w, "invoiced", "archive")
    /\ inline' = Archived(w)
    /\ Return(w)
    /\ UNCHANGED <<mapping, customers, subs, sessions, keys, grants, expired, faults>>

\* A call fails without effect; a failing archive is only logged.
Fails(w) ==
    /\ proc[w] # Idle
    /\ Failed(w)
    /\ UNCHANGED <<mapping, stripeVars, grants, expired>>

-----------------------------------------------------------------------------
(* Stripe's customer and Stripe's webhook.                                 *)

Pay(i) ==
    /\ sessions[i].state = "open"
    /\ ~customers[sessions[i].customer].deleted
    /\ sessions' = [sessions EXCEPT ![i].state = "paid"]
    /\ subs' = IF sessions[i].mode = "payment" THEN subs
               ELSE Append(subs, [customer |-> sessions[i].customer, live |-> TRUE,
                                  ns |-> OwnNs, inline |-> 0])
    /\ UNCHANGED <<mapping, customers, inline, keys, grants, proc, expired, faults>>

\* The completed session's webhook grants what its metadata names.
GrantFromCheckout(i) ==
    /\ sessions[i].state = "paid"
    /\ sessions[i].grants
    /\ sessions' = [sessions EXCEPT ![i].state = "granted"]
    /\ grants' = Append(grants, [subject |-> sessions[i].subject, revoked |-> FALSE])
    /\ UNCHANGED <<mapping, customers, subs, inline, keys, proc, expired, faults>>

KeysExpire ==
    /\ ~expired
    /\ keys # <<>>
    /\ keys' = <<>>
    /\ expired' = TRUE
    /\ UNCHANGED <<mapping, customers, subs, sessions, inline, grants, proc, faults>>

-----------------------------------------------------------------------------
(* Forget.                                                                 *)

GrantsOf(s) == {g \in DOMAIN grants : grants[g].subject = s}
LiveSubs(c) == {i \in DOMAIN subs : subs[i].customer = c /\ subs[i].live}

\* resolveStripeID, and the list of subscriptions that are not terminal.
Forget(w, in) ==
    /\ proc[w] = Idle
    /\ Get(in.subject) # NoCustomer
    /\ proc' = [proc EXCEPT ![w] =
          [op |-> "forget", pc |-> "cancel", subject |-> in.subject, customer |-> Get(in.subject),
           canceler |-> in.canceler, subs |-> LiveSubs(Get(in.subject)), grants |-> {},
           had |-> GrantsOf(in.subject)]]
    /\ UNCHANGED <<mapping, stripeVars, grants, expired, faults>>

\* The subscriptions one by one, through CancelNowByStripeID, whose key is replayed to a
\* repeated Forget, or without a SubscriptionCanceler through Stripe's Cancel, which has
\* none; any other repeated cancel is an error of Stripe's.  After the last one,
\* ListBySubject: a CreditRepo is wired.
cancelActiveSubscriptions(w) ==
    LET p == proc[w]
        Key(i) == ApplyIdempotencyKey("", "subscription.cancel_now", <<i>>)
    IN  /\ At(w, "forget", "cancel")
        /\ \/ /\ p.subs = {}
              /\ proc' = [proc EXCEPT ![w] = [p EXCEPT !.pc = "revoke", !.grants = GrantsOf(p.subject)]]
              /\ UNCHANGED <<subs, keys, faults>>
           \/ \E i \in p.subs :
                IF subs[i].live \/ (p.canceler /\ Known(Key(i)))
                THEN /\ subs' = [subs EXCEPT ![i].live = FALSE]
                     /\ IF p.canceler THEN Remember(Key(i), "", i) ELSE UNCHANGED keys
                     /\ Reply(w, [p EXCEPT !.subs = @ \ {i}])
                ELSE Return(w) /\ UNCHANGED <<subs, keys, faults>>
        /\ UNCHANGED <<mapping, customers, sessions, inline, grants, expired>>

\* A faulty variant: the loop ends after its first grant.
RevokeFirst(w) ==
    /\ At(w, "forget", "revoke")
    /\ grants' = IF proc[w].grants = {} THEN grants
                 ELSE [grants EXCEPT ![CHOOSE g \in proc[w].grants : TRUE].revoked = TRUE]
    /\ Goto(w, "delete")
    /\ UNCHANGED <<mapping, stripeVars, expired, faults>>

ForgetRevokes(w) ==
    /\ At(w, "forget", "revoke")
    /\ \/ proc[w].grants = {} /\ Goto(w, "delete") /\ UNCHANGED grants
       \/ \E g \in proc[w].grants :
            /\ grants' = [grants EXCEPT ![g].revoked = TRUE]
            /\ proc' = [proc EXCEPT ![w].grants = @ \ {g}]
    /\ UNCHANGED <<mapping, stripeVars, expired, faults>>

\* Customers.Delete, with which Stripe ends what subscriptions are left, and which
\* it refuses for a deleted customer; then the app's hook.  The mapping stays.
ForgetDeletes(w) ==
    LET c == proc[w].customer
    IN  /\ At(w, "forget", "delete")
        /\ IF customers[c].deleted THEN Return(w) /\ UNCHANGED <<customers, subs, faults>>
           ELSE /\ customers' = [customers EXCEPT ![c].deleted = TRUE]
                /\ subs' = [i \in DOMAIN subs |-> [subs[i] EXCEPT !.live = @ /\ subs[i].customer # c]]
                /\ Reply(w, Idle)
        /\ UNCHANGED <<mapping, sessions, inline, keys, grants, expired>>

-----------------------------------------------------------------------------
(* ImportCustomer.                                                         *)

\* Retrieve, and what its namespace calls for.
ImportCustomer(w, in) ==
    /\ proc[w] = Idle
    /\ in.customer \in DOMAIN customers /\ ~customers[in.customer].deleted
    /\ customers[in.customer].ns \in {"", OwnNs} \/ in.adopt
    /\ proc' = [proc EXCEPT ![w] =
          [op |-> "import", pc |-> IF customers[in.customer].ns = OwnNs THEN "upsert" ELSE "stamp",
           subject |-> in.subject, customer |-> in.customer, backfill |-> in.backfill,
           todo |-> {}]]
    /\ UNCHANGED <<mapping, stripeVars, grants, expired, faults>>

\* Stripe refuses a deleted customer, unless it answers a repeated stamp again.
ImportStamps(w) ==
    LET c == proc[w].customer
        key == ApplyIdempotencyKey("", "customers.import.stamp", <<c>>)
    IN  /\ At(w, "import", "stamp")
        /\ IF ~Known(key) /\ customers[c].deleted THEN Return(w) /\ UNCHANGED <<customers, keys, faults>>
           ELSE /\ customers' = IF Known(key) THEN customers ELSE [customers EXCEPT ![c].ns = OwnNs]
                /\ Remember(key, "", c)
                /\ Reply(w, [proc[w] EXCEPT !.pc = "upsert"])
        /\ UNCHANGED <<mapping, subs, sessions, inline, grants, expired>>

ImportUpserts(w) ==
    LET p == proc[w]
    IN  /\ At(w, "import", "upsert")
        /\ IF Taken(p.subject, p.customer) THEN Return(w) /\ UNCHANGED mapping
           ELSE /\ Upsert(p.subject, p.customer)
                /\ IF p.backfill THEN Goto(w, "list") ELSE Return(w)
        /\ UNCHANGED <<stripeVars, grants, expired, faults>>

StampSubscription(i) ==
    LET key == ApplyIdempotencyKey("", "customers.import.stamp_sub", <<i>>)
    IN  IF subs[i].ns = OwnNs THEN UNCHANGED <<subs, keys>>
        ELSE /\ subs' = IF Known(key) THEN subs ELSE [subs EXCEPT ![i].ns = OwnNs]
             /\ Remember(key, "", i)

\* The customer's subscriptions are listed; each is stamped and goes to the mirror (which
\* SubscriptionOps has), and the first error, of Stripe or of the mirror, ends the loop.
backfillSubscriptions(w) ==
    LET p == proc[w]
    IN  /\ \/ /\ At(w, "import", "list")
              /\ proc' = [proc EXCEPT ![w] = [p EXCEPT !.pc = "backfill",
                             !.todo = {i \in DOMAIN subs : subs[i].customer = p.customer}]]
              /\ UNCHANGED <<subs, keys, faults>>
           \/ /\ At(w, "import", "backfill")
              /\ p.todo = {} /\ Return(w) /\ UNCHANGED <<subs, keys, faults>>
           \/ /\ At(w, "import", "backfill")
              /\ \E i \in p.todo :
                    StampSubscription(i) /\ Reply(w, [p EXCEPT !.todo = @ \ {i}])
        /\ UNCHANGED <<mapping, customers, sessions, inline, grants, expired>>

-----------------------------------------------------------------------------
Begin(w, in) ==
    \/ in.op = "checkout" /\ CreateSession(w, in)
    \/ in.op = "invoiced" /\ CreateInvoiced(w, in)
    \/ in.op = "forget" /\ Forget(w, in)
    \/ in.op = "import" /\ ImportCustomer(w, in)

AccountsNext ==
    \/ \E w \in Workers :
         \/ CreateCustomer(w) \/ resolveCustomer(w) \/ createAdHocCustomPrice(w)
         \/ CreateCheckoutSession(w) \/ archiveOrphanAdHocPrices(w)
         \/ buildAddInvoiceItemParams(w) \/ CreateSubscription(w) \/ archiveOrphanProducts(w)
         \/ cancelActiveSubscriptions(w) \/ ForgetRevokes(w) \/ ForgetDeletes(w)
         \/ ImportStamps(w) \/ ImportUpserts(w) \/ backfillSubscriptions(w)
         \/ Fails(w)
    \/ \E i \in DOMAIN sessions : Pay(i) \/ GrantFromCheckout(i)
    \/ KeysExpire

-----------------------------------------------------------------------------
\* However many first checkouts of a subject race each other, fail between Stripe and
\* the repository and are retried with whatever e-mail, Stripe gets one customer for
\* the subject while it remembers keys (resolveCustomer, CreateCustomer's key).
OneCustomer ==
    \A s \in Subjects :
        expired \/ \A c, d \in DOMAIN customers :
                       customers[c].for = s /\ customers[d].for = s => c = d

RevokesFirst ==
    \A w \in Workers :
        At(w, "forget", "delete") /\ customers' # customers =>
            \A g \in proc[w].had : grants[g].revoked

\* When Forget deletes the customer, every grant the subject had when Forget began
\* is revoked, with payments, webhooks, other erasures and retries of failed ones in
\* between (the order of Forget's steps and its early returns).
DeletedLast == [][RevokesFirst]_accountVars

=============================================================================
