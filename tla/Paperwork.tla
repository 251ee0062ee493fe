----------------------------- MODULE Paperwork -----------------------------
(***************************************************************************)
(* What an app does to a customer's records in Stripe: draft invoices      *)
(* (invoices/operations.go, stripeapi/invoice_backend.go), and the writes  *)
(* that are one call each: the rest of an invoice's life, quotes,          *)
(* disputes, payment methods, promotion codes, tax ids, refunds and the    *)
(* customer balance.  Each write is described by its idempotency key, the  *)
(* rest of what it sends and the record it is about.                       *)
(***************************************************************************)
EXTENDS Accounts, Integers

VARIABLES
    records,       \* Stripe: record -> [status, total]
    items,         \* Stripe: sequence of [for, line, customer, invoice], pending while invoice = 0
    drafts,        \* Stripe: how many invoices CreateDraft made
    pending,       \* Stripe: what it does with pending items unless told, "include" or "exclude"
    issued,        \* NumberRepo: the last number
    answered,      \* history: <<operation, record>> of every write answered with success
    accepted       \* history: the requests whose CreateDraft returned an invoice

paperVars == <<records, items, drafts, pending, issued, answered, accepted>>

\* A draft invoice, a dispute and a paid charge await the app.
PaperInit(behavior) ==
    /\ records = [r \in {"invoice", "quote", "dispute", "promo", "intent", "card", "vat",
                          "charge", "balance"} |->
          [status |-> CASE r = "invoice" -> "draft" [] r = "dispute" -> "needs_response"
                        [] r = "charge" -> "paid" [] OTHER -> "none",
           total |-> 0]]
    /\ items = <<>>
    /\ drafts = 0
    /\ pending = behavior
    /\ issued = 0
    /\ answered = {}
    /\ accepted = {}

-----------------------------------------------------------------------------
(* CreateDraft: an invoice item per line, then the invoice.  The request   *)
(* names no item and leaves pending_invoice_items_behavior to Stripe.      *)

\* The number is the caller's, else the NumberRepo's next one, else empty (0).
Allocates(in) == in.repo /\ in.number = 0

CreateDraft(w, in) ==
    /\ proc[w] = Idle
    /\ in.lines > 0
    /\ issued' = IF Allocates(in) THEN issued + 1 ELSE issued
    /\ proc' = [proc EXCEPT ![w] =
          [op |-> "draft", pc |-> "item", in |-> in, line |-> 1,
           number |-> IF Allocates(in) THEN -(issued + 1) ELSE in.number]]
    /\ UNCHANGED <<mapping, stripeVars, grants, expired, faults,
                   records, items, drafts, pending, answered, accepted>>

\* A faulty variant: the key does not say which line it is for.
AnyLineKey(p) == ApplyIdempotencyKey("", "invoice_item.create", <<p.in.customer, p.number>>)

\* Lines with equal text and amount still differ in their index.
ItemKey(p) == ApplyIdempotencyKey("", "invoice_item.create", <<p.in.customer, p.line, p.number>>)

CreateItem(w) ==
    LET p == proc[w]
        key == ItemKey(p)
    IN  /\ At(w, "draft", "item")
        /\ items' = IF Known(key) THEN items
                    ELSE Append(items, [for |-> p.in.req, line |-> p.line,
                                        customer |-> p.in.customer, invoice |-> 0])
        /\ Remember(key, "", 1)
        /\ Reply(w, IF p.line < p.in.lines THEN [p EXCEPT !.line = @ + 1]
                    ELSE [p EXCEPT !.pc = "invoice"])
        /\ UNCHANGED <<mapping, customers, subs, sessions, inline, grants, expired,
                       records, drafts, pending, issued, answered, accepted>>

CreateInvoice(w) ==
    LET p == proc[w]
        key == ApplyIdempotencyKey("", "invoice.create_draft", <<p.in.customer, p.number>>)
        taken(it) == /\ ~Known(key) /\ pending = "include"
                     /\ it.customer = p.in.customer /\ it.invoice = 0
    IN  /\ At(w, "draft", "invoice")
        /\ drafts' = IF Known(key) THEN drafts ELSE drafts + 1
        /\ items' = [i \in DOMAIN items |->
                        IF taken(items[i]) THEN [items[i] EXCEPT !.invoice = drafts'] ELSE items[i]]
        /\ Remember(key, "", 1)
        /\ \/ Return(w) /\ accepted' = accepted \cup {p.in} /\ UNCHANGED faults
           \/ Failed(w) /\ UNCHANGED accepted
        /\ UNCHANGED <<mapping, customers, subs, sessions, inline, grants, expired,
                       records, pending, issued, answered>>

-----------------------------------------------------------------------------
(* The writes of one call.                                                 *)

Call(op, inputs, params, r, amount) ==
    [op |-> op, key |-> ApplyIdempotencyKey("", op, inputs), params |-> params,
     record |-> r, amount |-> amount]
OneWay(op, r) == Call(op, <<r>>, "", r, 0)

Finalize(r) == OneWay("invoice.finalize", r)
SendInvoice(r) == OneWay("invoice.send", r)
FinalizeAndSend(r) == <<Finalize(r), SendInvoice(r)>>

\* A faulty variant: Void with the operation name of Finalize.
VoidCopied(r) == [OneWay("invoice.void", r) EXCEPT !.key = Finalize(r).key]

Void(r) == OneWay("invoice.void", r)
MarkUncollectible(r) == OneWay("invoice.mark_uncollectible", r)

\* Reason and lines are part of the key: an equal note is taken for a retry.
IssueCreditNote(r, n) == Call("credit_note.create", <<r, n>>, "", r, n)

\* createInputHash covers every field of a quote.
CreateQuote(r, content) == Call("quotes.create", <<r, content>>, content, r, 0)
FinalizeQuote(r) == OneWay("quotes.finalize", r)
AcceptQuote(r) == OneWay("quotes.accept", r)
CancelQuote(r) == OneWay("quotes.cancel", r)

\* evidenceContentHash covers every field of the evidence.
SubmitEvidence(r, evidence) ==
    Call("disputes.submit_evidence", <<r, evidence>>, evidence, r, 0)
CloseDispute(r) == OneWay("disputes.close", r)

\* The restrictions of a promotion code are sent and are not part of its key.
CreatePromoCode(r, restrictions) == Call("promo_code.create", <<r>>, restrictions, r, 0)
DeactivatePromoCode(r) == OneWay("promo_code.deactivate", r)

\* The types and the metadata are sent and are not part of the key.
CreateSetupIntent(s, metadata) ==
    Call("paymentmethods.setup_intent.create", <<Get(s)>>, metadata, "intent", 0)
AttachPaymentMethod(s, r) == Call("paymentmethods.attach", <<Get(s), r>>, "", r, 0)
DetachPaymentMethod(r) == OneWay("paymentmethods.detach", r)
SetDefaultPaymentMethod(s, r) == Call("paymentmethods.set_default", <<Get(s), r>>, "", r, 0)

AddTaxID(s, r) == Call("customers.tax_id.add", <<Get(s), r>>, "", r, 0)

\* Of a charge, a payment intent, or both (refused), or neither (refused).
ValidRefund(in) == ((in.charge = "") # (in.intent = "")) /\ in.amount >= 0

Refund(in) ==
    Call("refund.create", <<in.charge, in.intent, in.amount>>, "", "charge", in.amount)

AdjustCustomerBalance(s, amount) ==
    Call("customer_balance_tx.create", <<Get(s), amount>>, "", "balance", amount)

\* Bound: two contents for what an app may fill in; the hash in a key tells them apart.
Contents == {"a", "b"}

\* The operations on each kind of record, as the calls they make in turn.
OnInvoice(r) ==
    {FinalizeAndSend(r), <<Finalize(r)>>, <<Void(r)>>, <<MarkUncollectible(r)>>}
        \cup {<<IssueCreditNote(r, 1)>>}
OnQuote(r) ==
    {<<CreateQuote(r, c)>> : c \in Contents}
        \cup {<<FinalizeQuote(r)>>, <<AcceptQuote(r)>>, <<CancelQuote(r)>>}
OnDispute(r) == {<<SubmitEvidence(r, c)>> : c \in Contents} \cup {<<CloseDispute(r)>>}
OnPromoCode(r) == {<<CreatePromoCode(r, c)>> : c \in Contents} \cup {<<DeactivatePromoCode(r)>>}
RefundInputs ==
    {in \in [charge : {"", "ch"}, intent : {"", "pi"}, amount : 0..1] : ValidRefund(in)}

\* resolveCustomer is an error for a subject without a customer.
OnCustomer(s) ==
    IF Get(s) = NoCustomer THEN {}
    ELSE {<<CreateSetupIntent(s, c)>> : c \in Contents}
             \cup {<<AttachPaymentMethod(s, "card")>>, <<DetachPaymentMethod("card")>>,
                   <<SetDefaultPaymentMethod(s, "card")>>, <<AddTaxID(s, "vat")>>}
OnMoney(s) ==
    {<<Refund(in)>> : in \in RefundInputs}
        \cup IF Get(s) = NoCustomer THEN {} ELSE {<<AdjustCustomerBalance(s, 1)>>}

Writes(in) ==
    CASE in.on = "invoice" -> OnInvoice("invoice")
      [] in.on = "quote" -> OnQuote("quote")
      [] in.on = "dispute" -> OnDispute("dispute")
      [] in.on = "promo" -> OnPromoCode("promo")
      [] in.on = "customer" -> OnCustomer(in.subject)
      [] in.on = "money" -> OnMoney(in.subject)

Write(w, in) ==
    /\ proc[w] = Idle
    /\ \E calls \in Writes(in) :
          proc' = [proc EXCEPT ![w] = [op |-> "write", pc |-> "send", calls |-> calls]]
    /\ UNCHANGED <<mapping, stripeVars, grants, expired, faults, paperVars>>

-----------------------------------------------------------------------------
(* Stripe on such a call.                                                  *)

\* The statuses a call is for, and what it makes of them.
Moves(c) ==
    CASE c.op = "invoice.finalize" -> {"draft"} \X {"open"}
      [] c.op = "invoice.send" -> {"open", "sent"} \X {"sent"}
      [] c.op = "invoice.void" -> {"open", "sent", "uncollectible"} \X {"void"}
      [] c.op = "invoice.mark_uncollectible" -> {"open", "sent"} \X {"uncollectible"}
      [] c.op = "credit_note.create" -> {<<t, t>> : t \in {"open", "sent", "paid"}}
      [] c.op = "quotes.create" -> {"none"} \X {"draft"}
      [] c.op = "quotes.finalize" -> {"draft"} \X {"open"}
      [] c.op = "quotes.accept" -> {"open"} \X {"accepted"}
      [] c.op = "quotes.cancel" -> {"draft", "open"} \X {"canceled"}
      [] c.op = "disputes.submit_evidence" -> ({"needs_response"} \cup Contents) \X {c.params}
      [] c.op = "disputes.close" -> ({"needs_response"} \cup Contents) \X {"lost"}
      [] c.op = "promo_code.create" -> {"none"} \X {"active"}
      [] c.op = "promo_code.deactivate" -> {"active", "inactive"} \X {"inactive"}
      [] c.op = "paymentmethods.attach" -> {"none", "attached"} \X {"attached"}
      [] c.op = "paymentmethods.detach" -> {"attached", "default"} \X {"none"}
      [] c.op = "paymentmethods.set_default" -> {"attached", "default"} \X {"default"}
      [] c.op \in {"paymentmethods.setup_intent.create", "customers.tax_id.add"} ->
            {"none"} \X {"made"}
      [] c.op = "refund.create" -> {"paid"} \X (IF c.amount = 0 THEN {"refunded"} ELSE {"paid"})
      [] c.op = "customer_balance_tx.create" -> {"none"} \X {"none"}

Current(w) == Head(proc[w].calls)

\* The next call of the operation, or its return.
Proceed(w) ==
    /\ answered' = answered \cup {<<Current(w).op, Current(w).record>>}
    /\ proc' = [proc EXCEPT ![w] = IF Len(proc[w].calls) = 1 THEN Idle
                                   ELSE [proc[w] EXCEPT !.calls = Tail(@)]]
    /\ UNCHANGED faults

Performed(w) ==
    LET c == Current(w)
    IN  /\ At(w, "write", "send")
        /\ ~Known(c.key)
        /\ \E m \in Moves(c) :
              /\ m[1] = records[c.record].status
              /\ records' = [records EXCEPT ![c.record] =
                                 [status |-> m[2], total |-> @.total + c.amount]]
        /\ Remember(c.key, c.params, 1)
        /\ Proceed(w) \/ (Failed(w) /\ UNCHANGED answered)
        /\ UNCHANGED <<mapping, customers, subs, sessions, inline, grants, expired,
                       items, drafts, pending, issued, accepted>>

\* A key that is known: the first answer again, or an error when the rest differs.
Replayed(w) ==
    LET c == Current(w)
    IN  /\ At(w, "write", "send")
        /\ Known(c.key)
        /\ IF Mismatch(c.key, c.params) \/ keys[c.key].id = 0
           THEN Return(w) /\ UNCHANGED <<answered, faults>>
           ELSE Proceed(w)
        /\ UNCHANGED <<mapping, stripeVars, grants, expired,
                       records, items, drafts, pending, issued, accepted>>

\* An error, which Stripe may remember under the key as well.
Rejected(w) ==
    LET c == Current(w)
    IN  /\ At(w, "write", "send")
        /\ ~Known(c.key)
        /\ \A m \in Moves(c) : m[1] # records[c.record].status
        /\ Return(w)
        /\ Remember(c.key, c.params, 0) \/ UNCHANGED keys
        /\ UNCHANGED <<mapping, customers, subs, sessions, inline, grants, expired, faults, paperVars>>

\* The customer pays an invoice or accepts a quote, the bank decides a dispute.
Decisions ==
    [invoice |-> {"open", "sent", "uncollectible"} \X {"paid"},
     quote |-> {"open"} \X {"accepted"},
     dispute |-> Contents \X {"won", "lost"}]

Decided(r) ==
    /\ \E m \in Decisions[r] :
          m[1] = records[r].status /\ records' = [records EXCEPT ![r].status = m[2]]
    /\ UNCHANGED <<accountVars, items, drafts, pending, issued, answered, accepted>>

PaperNext ==
    \/ \E w \in Workers :
          \/ CreateItem(w) \/ CreateInvoice(w)
          \/ Performed(w) \/ Replayed(w) \/ Rejected(w)
    \/ \E r \in DOMAIN Decisions : Decided(r)

-----------------------------------------------------------------------------
ItemsOf(req, line) == {i \in DOMAIN items : items[i].for = req /\ items[i].line = line}

\* However a draft with the caller's own number is retried within 24 hours, once it
\* is accepted every line of it, equal lines included, is one invoice item, and that
\* item is on an invoice if Stripe includes pending items by itself (CreateDraft's keys
\* in stripeapi/invoice_backend.go).  If it excludes them, the item stays pending: the
\* request asks for none, and the lines wait for an invoice that does.
LinesBilledOnce ==
    ~expired =>
        \A in \in accepted : in.number # 0 =>
            \A l \in 1..in.lines : \E i \in ItemsOf(in.req, l) :
                /\ ItemsOf(in.req, l) = {i}
                /\ pending = "include" => items[i].invoice # 0

\* What may follow an operation that nothing takes back.
Settled(op) ==
    CASE op = "invoice.finalize" -> {"open", "sent", "void", "uncollectible", "paid"}
      [] op = "invoice.send" -> {"sent", "void", "uncollectible", "paid"}
      [] op = "invoice.void" -> {"void"}
      [] op = "invoice.mark_uncollectible" -> {"uncollectible", "void", "paid"}
      [] op = "quotes.finalize" -> {"open", "accepted", "canceled"}
      [] op = "quotes.accept" -> {"accepted"}
      [] op = "quotes.cancel" -> {"canceled"}
      [] op = "disputes.close" -> {"lost"}
      [] op = "promo_code.deactivate" -> {"inactive"}

Irrevocable == {"invoice.finalize", "invoice.send", "invoice.void", "invoice.mark_uncollectible",
                "quotes.finalize", "quotes.accept", "quotes.cancel", "disputes.close",
                "promo_code.deactivate"}

\* An operation that cannot be taken back and was reported done is in force from
\* then on, whatever was lost, retried, refused or replayed under its key before
\* (the keys of Finalize, Void, Accept, Cancel, Close and DeactivatePromoCode).
ReportedIsInForce ==
    \A a \in answered : a[1] \in Irrevocable => records[a[2]].status \in Settled(a[1])
=============================================================================
