--------------------------- MODULE BillingProofs ---------------------------
(***************************************************************************)
(* Proofs about Billing, for any subjects, workers, requests and faults:   *)
(* Forget revokes before it deletes, a subject gets one customer, what is  *)
(* reported done is in force, and a line of a draft is one item, which is  *)
(* on an invoice if Stripe includes pending items.  The last three rest on *)
(* Stripe's memory of idempotency keys: what a known key says of the       *)
(* object it stands for.  Metering within Billing is metering by itself,   *)
(* so what LedgerProofs shows of MeteringSpec holds here.                  *)
(***************************************************************************)
EXTENDS Billing, TLAPS

-----------------------------------------------------------------------------
(* The types of what the workers do and of what they change.               *)

\* The calls that the operations on each kind of record make.
InvoiceCalls ==
    {Finalize("invoice"), SendInvoice("invoice"), Void("invoice"), MarkUncollectible("invoice"),
     IssueCreditNote("invoice", 1)}
QuoteCalls ==
    {CreateQuote("quote", c) : c \in Contents}
        \cup {FinalizeQuote("quote"), AcceptQuote("quote"), CancelQuote("quote")}
DisputeCalls ==
    {SubmitEvidence("dispute", c) : c \in Contents} \cup {CloseDispute("dispute")}
PromoCalls ==
    {CreatePromoCode("promo", c) : c \in Contents} \cup {DeactivatePromoCode("promo")}
CustomerCalls(n) ==
    {Call("paymentmethods.setup_intent.create", <<n>>, c, "intent", 0) : c \in Contents}
        \cup {Call("paymentmethods.attach", <<n, "card">>, "", "card", 0),
              DetachPaymentMethod("card"),
              Call("paymentmethods.set_default", <<n, "card">>, "", "card", 0),
              Call("customers.tax_id.add", <<n, "vat">>, "", "vat", 0)}
MoneyCalls(n) ==
    {Refund(in) : in \in RefundInputs}
        \cup {Call("customer_balance_tx.create", <<n, 1>>, "", "balance", 1)}
AnyCustomerCalls == UNION {CustomerCalls(n) : n \in Nat}
AnyMoneyCalls == UNION {MoneyCalls(n) : n \in Nat}
CallSet ==
    InvoiceCalls \cup QuoteCalls \cup DisputeCalls \cup PromoCalls
        \cup AnyCustomerCalls \cup AnyMoneyCalls

CheckoutProc ==
    [op: {"checkout"}, pc: {"create", "upsert", "inline", "object", "archive"},
     in: CheckoutInput, customer: Nat, inline: Nat]
InvoicedProc ==
    [op: {"invoiced"}, pc: {"inline", "object", "archive"},
     in: InvoicedInput, customer: Nat, inline: Nat]
ForgetProc ==
    [op: {"forget"}, pc: {"cancel", "revoke", "delete"}, subject: Subjects, customer: Nat,
     canceler: BOOLEAN, subs: SUBSET Nat, grants: SUBSET Nat, had: SUBSET Nat]
ImportProc ==
    [op: {"import"}, pc: {"stamp", "upsert", "list", "backfill"}, subject: Subjects, customer: Nat,
     backfill: BOOLEAN, todo: SUBSET Nat]
DraftProc == [op: {"draft"}, pc: {"item", "invoice"}, in: DraftInput, line: Nat, number: Int]
WriteProc == [op: {"write"}, pc: {"send"}, calls: Seq(CallSet) \ {<<>>}]
ProcType ==
    {Idle} \cup CheckoutProc \cup InvoicedProc \cup ForgetProc \cup ImportProc
        \cup DraftProc \cup WriteProc

CustomerType == [for: Subjects \cup {""}, ns: {"", "other", OwnNs}, deleted: BOOLEAN]
SubType == [customer: Nat, live: BOOLEAN, ns: {"", OwnNs}, inline: Nat]
SessionType ==
    [customer: Nat, subject: Subjects, state: {"open", "paid", "granted"},
     mode: {"", "payment", "subscription"}, inline: Nat, grants: BOOLEAN]
GrantType == [subject: Subjects, revoked: BOOLEAN]
ItemType == [for: STRING, line: Nat, customer: Nat, invoice: Nat]

KeysType == \A k \in DOMAIN keys : keys[k].id \in Nat

AccountType ==
    /\ mapping \in [Subjects -> Nat]
    /\ customers \in Seq(CustomerType)
    /\ subs \in Seq(SubType)
    /\ sessions \in Seq(SessionType)
    /\ inline \in Seq(BOOLEAN)
    /\ KeysType
    /\ grants \in Seq(GrantType)
    /\ expired \in BOOLEAN
    /\ proc \in [Workers -> ProcType]

PaperType ==
    /\ items \in Seq(ItemType)
    /\ drafts \in Nat
    /\ issued \in Nat
    /\ calls \in Seq(SUBSET Input)

BType == AccountType /\ PaperType

\* Forget: what the subject had is its own, is listed, and is revoked in the end.
ForgetInv ==
    \A w \in Workers : proc[w].op = "forget" =>
        /\ proc[w].had \subseteq GrantsOf(proc[w].subject)
        /\ proc[w].pc = "revoke" => \A g \in proc[w].had : g \in proc[w].grants \/ grants[g].revoked
        /\ proc[w].pc = "delete" => \A g \in proc[w].had : grants[g].revoked

\* A customer made for a subject has the subject's key, and is the only one.
SubjectKey(s) == ApplyIdempotencyKey("", "customer.create", <<OwnNs, s>>)
CustomerInv ==
    ~expired =>
        \A s \in Subjects, c \in DOMAIN customers : customers[c].for = s =>
            /\ SubjectKey(s) \in DOMAIN keys
            /\ \A d \in DOMAIN customers : customers[d].for = s => d = c

\* The record that an irrevocable operation is about.
Home(op) ==
    CASE op \in {"invoice.finalize", "invoice.send", "invoice.void", "invoice.mark_uncollectible"} ->
            "invoice"
      [] op \in {"quotes.finalize", "quotes.accept", "quotes.cancel"} -> "quote"
      [] op = "disputes.close" -> "dispute"
      [] op = "promo_code.deactivate" -> "promo"

RecordNames ==
    {"invoice", "quote", "dispute", "promo", "intent", "card", "vat", "charge", "balance"}
InForce(op) == records[Home(op)].status \in Settled(op)
HomeKey(op) == ApplyIdempotencyKey("", op, <<Home(op)>>)

RecordInv ==
    /\ DOMAIN records = RecordNames
    /\ \A r \in RecordNames : DOMAIN records[r] = {"status", "total"}
    /\ \A op \in Irrevocable : HomeKey(op) \in DOMAIN keys /\ keys[HomeKey(op)].id # 0 => InForce(op)
    /\ \A a \in answered : a[1] \in Irrevocable => a[2] = Home(a[1]) /\ InForce(a[1])

\* The requests of a run: a numbered draft is identified by customer and number.
Coherent(D) ==
    /\ D \subseteq DraftInput
    /\ \A a, b \in D : a.number # 0 =>
          /\ a.req = b.req <=> (a.customer = b.customer /\ a.number = b.number)
          /\ a.req = b.req => a.lines = b.lines

LineKey(c, l, n) == ApplyIdempotencyKey("", "invoice_item.create", <<c, l, n>>)
InvoiceKey(c, n) == ApplyIdempotencyKey("", "invoice.create_draft", <<c, n>>)

DraftsAmong(D) ==
    /\ \A i \in DOMAIN calls : \A in \in calls[i] : in.op = "draft" => in \in D
    /\ \A w \in Workers : proc[w].op = "draft" =>
          /\ proc[w].in \in D
          /\ proc[w].number = proc[w].in.number \/ proc[w].number < 0
          /\ proc[w].in.number # 0 => proc[w].number = proc[w].in.number
    /\ accepted \subseteq D

LineOnce(a, l) ==
    /\ \A i, j \in ItemsOf(a.req, l) : i = j
    /\ ItemsOf(a.req, l) # {} <=> LineKey(a.customer, l, a.number) \in DOMAIN keys

LinesInv(D) ==
    ~expired =>
        /\ \A a \in D, l \in Nat : a.number # 0 => LineOnce(a, l)
        /\ \A w \in Workers : proc[w].op = "draft" =>
              \A l \in 1 .. proc[w].in.lines :
                  l < proc[w].line \/ proc[w].pc = "invoice" =>
                      LineKey(proc[w].in.customer, l, proc[w].number) \in DOMAIN keys
        /\ \A a \in accepted : a.number # 0 =>
              \A l \in 1 .. a.lines : LineKey(a.customer, l, a.number) \in DOMAIN keys

\* Once the invoice of a request is known, so are its lines, and pending items that
\* Stripe includes are on an invoice.
Invoiced(a) ==
    \A l \in 1 .. a.lines :
        /\ LineKey(a.customer, l, a.number) \in DOMAIN keys
        /\ pending = "include" => \A i \in ItemsOf(a.req, l) : items[i].invoice # 0

\* The items of a request are of its customer.
Charged(a) == \A l \in Nat : \A i \in ItemsOf(a.req, l) : items[i].customer = a.customer

\* What the key of an invoice says of the lines it is for; a request is accepted with
\* that key.
BilledInv(D) ==
    ~expired =>
        /\ \A a \in D : a.number # 0 => Charged(a)
        /\ \A a \in D : a.number # 0 /\ InvoiceKey(a.customer, a.number) \in DOMAIN keys
                           => Invoiced(a)
        /\ \A a \in accepted : a.number # 0 => InvoiceKey(a.customer, a.number) \in DOMAIN keys

-----------------------------------------------------------------------------
(* Lemmas about keys and about workers.                                    *)

KeyFor(op, inputs) == ApplyIdempotencyKey("", op, inputs)

\* A derived key begins with its operation (deriveKey in stripeapi/idempotency.go).
LEMMA KeyOp ==
    ASSUME NEW S, NEW inputs \in Seq(S), NEW op
    PROVE  KeyFor(op, inputs)[1] = op
<1>1. <<op>> \in Seq(S \cup {op}) /\ inputs \in Seq(S \cup {op})
  BY SMT
<1>2. (<<op>> \o inputs)[1] = op
  BY <1>1, SMT
<1> QED
  BY <1>2, Zenon DEF KeyFor, ApplyIdempotencyKey, deriveKey

\* A key tells apart the inputs it is derived from (deriveKey).
LEMMA KeyInputs ==
    ASSUME NEW S, NEW a \in Seq(S), NEW b \in Seq(S), NEW op,
           KeyFor(op, a) = KeyFor(op, b)
    PROVE  a = b
<1>1. <<op>> \o a = <<op>> \o b
  BY Zenon DEF KeyFor, ApplyIdempotencyKey, deriveKey
<1>2. <<op>> \in Seq(S \cup {op}) /\ a \in Seq(S \cup {op}) /\ b \in Seq(S \cup {op})
  BY SMT
<1>3. Len(a) = Len(b)
  BY <1>1, <1>2, SMT
<1>4. ASSUME NEW i \in 1 .. Len(a) PROVE a[i] = b[i]
  BY <1>1, <1>2, <1>3, SMT
<1> QED
  BY <1>3, <1>4, SMT

\* What is known of the keys after a create (Stripe's memory of a key).
OldKeys ==
    /\ DOMAIN keys \subseteq DOMAIN keys'
    /\ \A k \in DOMAIN keys : keys'[k] = keys[k]
NewKeys(S) ==
    /\ OldKeys
    /\ \A k \in DOMAIN keys' \ DOMAIN keys : k[1] \in S /\ keys'[k].id \in Nat

\* A create adds its key when it is new, and no other (the calls with an
\* Idempotency-Key).
LEMMA Remembers ==
    ASSUME NEW key, NEW params, NEW id, Remember(key, params, id)
    PROVE  /\ OldKeys
           /\ DOMAIN keys' = DOMAIN keys \cup {key}
           /\ ~Known(key) => keys'[key] = [params |-> params, id |-> id]
<1>1. CASE Known(key)
  BY <1>1, Zenon DEF Remember, OldKeys, Known
<1>2. CASE ~Known(key)
  BY <1>2, Zenon DEF Remember, OldKeys, Known
<1> QED
  BY <1>1, <1>2, Zenon

\* A call under a derived key (KeyFor) adds at most that key, of its own operation, to
\* those Stripe remembers.
LEMMA RemembersOp ==
    ASSUME NEW S, NEW inputs \in Seq(S), NEW op, NEW O, op \in O, NEW params, NEW id \in Nat,
           Remember(KeyFor(op, inputs), params, id), KeysType
    PROVE  NewKeys(O) /\ KeysType'
<1>1. PICK key : key = KeyFor(op, inputs)
  BY Zenon
<1>2. key[1] = op
  BY <1>1, KeyOp, Zenon
<1>3. [params |-> params, id |-> id].id = id
  BY SMT
<1>4. /\ OldKeys
      /\ DOMAIN keys' = DOMAIN keys \cup {key}
      /\ ~Known(key) => keys'[key] = [params |-> params, id |-> id]
  BY <1>1, Remembers, Zenon
<1>5. NewKeys(O)
  BY <1>2, <1>3, <1>4, Zenon DEF NewKeys, Known
<1> QED
  BY <1>5, Zenon DEF NewKeys, OldKeys, KeysType

\* A step that leaves Stripe's keys alone adds none.
LEMMA SameKeys ==
    ASSUME NEW O, KeysType, UNCHANGED keys
    PROVE  NewKeys(O) /\ KeysType'
BY Zenon DEF NewKeys, OldKeys, KeysType

\* The fields of a call's state.
LEMMA PairFields ==
    ASSUME NEW a, NEW b
    PROVE  [op |-> a, pc |-> b].op = a /\ [op |-> a, pc |-> b].pc = b
BY SMT

\* An idle worker has no operation.
LEMMA IdleFields == Idle.op = "" /\ Idle.pc = "idle"
BY PairFields, Zenon DEF Idle

\* A worker's operation tells what its state is made of.
LEMMA ByOp ==
    ASSUME NEW p \in ProcType
    PROVE  /\ p.op = "checkout" => p \in CheckoutProc
           /\ p.op = "invoiced" => p \in InvoicedProc
           /\ p.op = "forget" => p \in ForgetProc
           /\ p.op = "import" => p \in ImportProc
           /\ p.op = "draft" => p \in DraftProc
           /\ p.op = "write" => p \in WriteProc
           /\ p.op \in {"checkout", "invoiced", "forget", "import", "draft", "write"} \/ p = Idle
<1>1. p \in CheckoutProc => p.op = "checkout"
  BY Zenon DEF CheckoutProc
<1>2. p \in InvoicedProc => p.op = "invoiced"
  BY Zenon DEF InvoicedProc
<1>3. p \in ForgetProc => p.op = "forget"
  BY Zenon DEF ForgetProc
<1>4. p \in ImportProc => p.op = "import"
  BY Zenon DEF ImportProc
<1>5. p \in DraftProc => p.op = "draft"
  BY Zenon DEF DraftProc
<1>6. p \in WriteProc => p.op = "write"
  BY Zenon DEF WriteProc
<1>7. p = Idle => p.op = ""
  BY IdleFields, Zenon
<1> QED
  BY <1>1, <1>2, <1>3, <1>4, <1>5, <1>6, <1>7, Zenon DEF ProcType

\* An error return leaves a worker idle, or archiving what it made for a checkout or
\* an invoiced subscription.
LEMMA AfterErrorType ==
    ASSUME NEW p \in ProcType
    PROVE  /\ AfterError(p) \in ProcType
           /\ AfterError(p) = Idle
                 \/ (p.op \in {"checkout", "invoiced"} /\ AfterError(p).op = p.op)
<1>1. CASE p.pc # "object"
  BY <1>1, Zenon DEF AfterError, ProcType
<1>2. CASE p.pc = "object"
  <2>1. AfterError(p) = [p EXCEPT !.pc = "archive"]
    BY <1>2, Zenon DEF AfterError
  <2>2. p \in CheckoutProc \/ p \in InvoicedProc
    <3>1. p \notin ForgetProc /\ p \notin ImportProc
      BY <1>2, Zenon DEF ForgetProc, ImportProc
    <3>2. p \notin DraftProc /\ p \notin WriteProc
      BY <1>2, Zenon DEF DraftProc, WriteProc
    <3>3. p # Idle
      BY <1>2, IdleFields, Zenon
    <3> QED
      BY <3>1, <3>2, <3>3, Zenon DEF ProcType
  <2>3. CASE p \in CheckoutProc
    <3>1. AfterError(p) \in CheckoutProc /\ AfterError(p).op = "checkout" /\ p.op = "checkout"
      BY <2>1, <2>3, Zenon DEF CheckoutProc
    <3> QED
      BY <3>1, Zenon DEF ProcType
  <2>4. CASE p \in InvoicedProc
    <3>1. AfterError(p) \in InvoicedProc /\ AfterError(p).op = "invoiced" /\ p.op = "invoiced"
      BY <2>1, <2>4, Zenon DEF InvoicedProc
    <3> QED
      BY <3>1, Zenon DEF ProcType
  <2> QED
    BY <2>2, <2>3, <2>4, Zenon
<1> QED
  BY <1>1, <1>2, Zenon

\* Worker w goes on as q.
Becomes(w, q) == q \in ProcType /\ proc' = [proc EXCEPT ![w] = q]

\* Worker w is idle or goes on with a checkout, an invoiced subscription or an import.
Quiet(w) ==
    \E q \in ProcType :
        /\ proc' = [proc EXCEPT ![w] = q]
        /\ q = Idle \/ (q.op = proc[w].op /\ q.op \in {"checkout", "invoiced", "import"})

\* A worker's step to a typed state keeps every worker typed and the others as they are.
LEMMA ProcStep ==
    ASSUME proc \in [Workers -> ProcType], NEW w \in Workers, NEW q \in ProcType,
           proc' = [proc EXCEPT ![w] = q]
    PROVE  /\ proc' \in [Workers -> ProcType]
           /\ proc'[w] = q
           /\ \A v \in Workers \ {w} : proc'[v] = proc[v]
BY Zenon

\* A step that does not touch an erasure keeps the workers typed.
LEMMA QuietType ==
    ASSUME proc \in [Workers -> ProcType], NEW w \in Workers, Quiet(w)
    PROVE  proc' \in [Workers -> ProcType]
BY ProcStep, Zenon DEF Quiet

\* A call that returns ends.
LEMMA IdleQuiet ==
    ASSUME proc \in [Workers -> ProcType], NEW w \in Workers, Return(w)
    PROVE  Quiet(w)
BY Zenon DEF Return, Quiet, ProcType

\* A call that fails ends.
LEMMA FailedQuiet ==
    ASSUME proc \in [Workers -> ProcType], NEW w \in Workers, Failed(w)
    PROVE  Quiet(w)
<1>1. proc[w] \in ProcType
  BY Zenon
<1>2. proc' = [proc EXCEPT ![w] = AfterError(proc[w])]
  BY Zenon DEF Failed
<1> QED
  BY <1>1, <1>2, AfterErrorType, Zenon DEF Quiet

\* A checkout, a subscription or an import that goes on, or ends, touches no erasure.
LEMMA ReplyQuiet ==
    ASSUME proc \in [Workers -> ProcType], NEW w \in Workers, NEW q \in ProcType,
           q = Idle \/ (q.op = proc[w].op /\ q.op \in {"checkout", "invoiced", "import"}),
           Reply(w, q)
    PROVE  Quiet(w)
BY FailedQuiet, Zenon DEF Reply, Quiet

\* What Stripe answers to a key, remembered or not, is the id of an object.
LEMMA AnswerType ==
    ASSUME KeysType, NEW key, NEW new \in Nat
    PROVE  Answer(key, new) \in Nat
BY Zenon DEF Answer, Known, KeysType

\* What an object that Stripe creates adds to the list of its kind.
LEMMA AppendType ==
    ASSUME NEW T, NEW s \in Seq(T), NEW e \in T
    PROVE  /\ Append(s, e) \in Seq(T)
           /\ DOMAIN Append(s, e) = DOMAIN s \cup {Len(s) + 1}
           /\ \A i \in DOMAIN s : Append(s, e)[i] = s[i]
           /\ Append(s, e)[Len(s) + 1] = e
           /\ Len(s) \in Nat /\ Len(s) + 1 \notin DOMAIN s /\ Len(s) + 1 \in Nat
BY SMT

\* A change of one object of a list keeps the list typed.
LEMMA SeqUpdate ==
    ASSUME NEW T, NEW s \in Seq(T), NEW i, NEW e, i \in DOMAIN s => e \in T
    PROVE  [s EXCEPT ![i] = e] \in Seq(T)
<1>1. CASE i \in DOMAIN s
  BY <1>1, SMT
<1>2. CASE i \notin DOMAIN s
  <2>1. s = [j \in DOMAIN s |-> s[j]]
    BY SMT
  <2>2. [s EXCEPT ![i] = e] = [j \in DOMAIN s |-> s[j]]
    BY <1>2, Zenon
  <2> QED
    BY <2>1, <2>2, Zenon
<1> QED
  BY <1>1, <1>2, Zenon

\* The objects of a list, by their ids.
LEMMA SeqElement ==
    ASSUME NEW T, NEW s \in Seq(T)
    PROVE  DOMAIN s \subseteq Nat /\ \A i \in DOMAIN s : s[i] \in T
BY SMT

\* The operations whose keys the customer operations use.
AccountOps ==
    {"customer.create", "price.create.adhoc", "checkout.session.create",
     "product.create.setup_fee", "subscription.create_invoiced", "subscription.cancel_now",
     "customers.import.stamp", "customers.import.stamp_sub"}

\* What a step of a worker with a checkout, an invoiced subscription or an import
\* leaves true: types, the keys it knew, and the state of the other workers.
Step(w) == AccountType' /\ Quiet(w) /\ NewKeys(AccountOps)

-----------------------------------------------------------------------------
(* Checkouts and invoiced subscriptions, step by step.                     *)

\* CreateCustomer (stripeapi/checkout_backend.go), answered, replayed or lost, is a step of
\* its worker alone and remembers only its own key.
LEMMA CreateCustomerType ==
    ASSUME AccountType, NEW w \in Workers, CreateCustomer(w)
    PROVE  Step(w)
<1>1. PICK p : p = proc[w]
  BY Zenon
<1>2. p \in CheckoutProc /\ p.in.subject \in Subjects /\ p.op = "checkout"
  <2>1. p \in ProcType /\ p.op = "checkout"
    BY <1>1, Zenon DEF AccountType, CreateCustomer, At
  <2>2. p \in CheckoutProc
    BY <2>1, ByOp, Zenon
  <2> QED
    BY <2>1, <2>2, Zenon DEF CheckoutProc, CheckoutInput
<1>3. PICK key : key = CustomerKey(p.in)
  BY Zenon
<1>4. PICK id : id = Answer(key, Len(customers) + 1)
  BY Zenon
<1>5. id \in Nat
  <2>1. Len(customers) + 1 \in Nat
    BY SeqElement, SMT DEF AccountType
  <2> QED
    BY <2>1, <1>4, AnswerType, Zenon DEF AccountType
<1>6. UNCHANGED <<mapping, subs, sessions, inline, grants, expired>>
  BY Zenon DEF CreateCustomer
<1>7. CASE Return(w) /\ UNCHANGED <<customers, keys, faults>>
  <2>1. Quiet(w) /\ NewKeys(AccountOps) /\ KeysType'
    BY <1>7, IdleQuiet, SameKeys, Zenon DEF AccountType
  <2> QED
    BY <1>6, <1>7, <2>1, QuietType, Zenon DEF AccountType, Step
<1>8. CASE /\ customers' = IF Known(key) THEN customers
                           ELSE Append(customers, [for |-> p.in.subject, ns |-> OwnNs, deleted |-> FALSE])
           /\ Remember(key, p.in.email, id)
           /\ Reply(w, [p EXCEPT !.pc = "upsert", !.customer = id])
  <2>1. [for |-> p.in.subject, ns |-> OwnNs, deleted |-> FALSE] \in CustomerType
    BY <1>2, Zenon DEF CustomerType
  <2>2. customers' \in Seq(CustomerType)
    BY <1>8, <2>1, AppendType, Zenon DEF AccountType
  <2>3. <<OwnNs, p.in.subject>> \in Seq({OwnNs, p.in.subject})
    BY SMT
  <2>4. key = KeyFor("customer.create", <<OwnNs, p.in.subject>>)
    BY <1>3, Zenon DEF CustomerKey, KeyFor
  <2>5. NewKeys(AccountOps) /\ KeysType'
    BY <1>5, <1>8, <2>3, <2>4, RemembersOp, Zenon DEF AccountType, AccountOps
  <2>6. PICK q : q = [p EXCEPT !.pc = "upsert", !.customer = id]
    BY Zenon
  <2>7. q \in CheckoutProc /\ q.op = "checkout"
    BY <1>2, <1>5, <2>6, Zenon DEF CheckoutProc
  <2>8. Quiet(w)
    BY <1>1, <1>2, <1>8, <2>6, <2>7, ReplyQuiet, Zenon DEF AccountType, ProcType
  <2> QED
    BY <1>6, <2>2, <2>5, <2>8, QuietType, Zenon DEF AccountType, Step
<1> QED
  BY <1>1, <1>3, <1>4, <1>7, <1>8, Zenon DEF CreateCustomer

\* A checkout or a subscription that goes on to its next call touches no erasure.
LEMMA Going ==
    ASSUME AccountType, NEW w \in Workers, NEW pc \in {"inline", "object", "archive"},
           proc[w].op \in {"checkout", "invoiced"}, Goto(w, pc)
    PROVE  Quiet(w)
<1>1. PICK p : p = proc[w] /\ p \in ProcType
  BY Zenon DEF AccountType
<1>2. PICK q : q = [p EXCEPT !.pc = pc]
  BY Zenon
<1>3. proc' = [proc EXCEPT ![w] = q]
  BY <1>1, <1>2, Zenon DEF Goto
<1>4. CASE p.op = "checkout"
  <2>1. p \in CheckoutProc
    BY <1>1, <1>4, ByOp, Zenon
  <2>2. q \in CheckoutProc /\ q.op = "checkout"
    BY <2>1, <1>2, Zenon DEF CheckoutProc
  <2> QED
    BY <1>1, <1>3, <1>4, <2>2, Zenon DEF Quiet, ProcType
<1>5. CASE p.op = "invoiced"
  <2>1. p \in InvoicedProc
    BY <1>1, <1>5, ByOp, Zenon
  <2>2. q \in InvoicedProc /\ q.op = "invoiced"
    BY <2>1, <1>2, Zenon DEF InvoicedProc
  <2> QED
    BY <1>1, <1>3, <1>5, <2>2, Zenon DEF Quiet, ProcType
<1> QED
  BY <1>1, <1>4, <1>5, Zenon

\* resolveCustomer's look-up and its write of the mapping are steps of its worker alone.
LEMMA ResolveCustomerType ==
    ASSUME AccountType, NEW w \in Workers, resolveCustomer(w)
    PROVE  Step(w)
<1>1. PICK p : p = proc[w]
  BY Zenon
<1>2. p \in CheckoutProc /\ p.op = "checkout"
  BY <1>1, ByOp, Zenon DEF AccountType, resolveCustomer, At
<1>3. p.in.subject \in Subjects /\ p.customer \in Nat
  BY <1>2, Zenon DEF CheckoutProc, CheckoutInput
<1>4. UNCHANGED <<customers, subs, sessions, inline, keys, grants, expired>>
  BY Zenon DEF resolveCustomer, stripeVars
<1>5. NewKeys(AccountOps) /\ KeysType'
  BY <1>4, SameKeys, Zenon DEF AccountType
<1>6. CASE Return(w) /\ UNCHANGED mapping
  BY <1>4, <1>5, <1>6, IdleQuiet, QuietType, Zenon DEF AccountType, Step
<1>7. CASE Upsert(p.in.subject, p.customer) /\ Goto(w, "inline")
  <2>1. mapping' \in [Subjects -> Nat]
    BY <1>3, <1>7, Zenon DEF AccountType, Upsert
  <2>2. Quiet(w)
    BY <1>1, <1>2, <1>7, Going, Zenon
  <2> QED
    BY <1>4, <1>5, <2>1, <2>2, QuietType, Zenon DEF AccountType, Step
<1> QED
  BY <1>1, <1>6, <1>7, Zenon DEF resolveCustomer

\* An inline product or price, made under a key of its own, is a step of its worker alone.
LEMMA Provisioned ==
    ASSUME AccountType, NEW w \in Workers, proc[w].op \in {"checkout", "invoiced"},
           NEW S, NEW inputs \in Seq(S), NEW op \in AccountOps,
           Provision(w, KeyFor(op, inputs)),
           UNCHANGED <<mapping, customers, subs, sessions, grants, expired>>
    PROVE  Step(w)
<1>1. PICK p : p = proc[w] /\ p \in ProcType
  BY Zenon DEF AccountType
<1>2. PICK id : id = Answer(KeyFor(op, inputs), Len(inline) + 1)
  BY Zenon
<1>3. id \in Nat
  <2>1. Len(inline) + 1 \in Nat
    BY SMT DEF AccountType
  <2> QED
    BY <2>1, <1>2, AnswerType, Zenon DEF AccountType
<1>4. /\ inline' = IF Known(KeyFor(op, inputs)) THEN inline ELSE Append(inline, TRUE)
      /\ Reply(w, [p EXCEPT !.pc = "object", !.inline = id])
      /\ \E params : Remember(KeyFor(op, inputs), params, id)
  BY <1>1, <1>2, Zenon DEF Provision
<1>5. inline' \in Seq(BOOLEAN)
  BY <1>4, AppendType, Zenon DEF AccountType
<1>6. NewKeys(AccountOps) /\ KeysType'
  BY <1>3, <1>4, RemembersOp, Zenon DEF AccountType
<1>7. PICK q : q = [p EXCEPT !.pc = "object", !.inline = id]
  BY Zenon
<1>8. q \in ProcType /\ q.op = p.op
  <2>1. CASE p.op = "checkout"
    <3>1. p \in CheckoutProc
      BY <1>1, <2>1, ByOp, Zenon
    <3>2. q \in CheckoutProc /\ q.op = p.op
      BY <1>3, <1>7, <3>1, Zenon DEF CheckoutProc
    <3> QED
      BY <3>2, Zenon DEF ProcType
  <2>2. CASE p.op = "invoiced"
    <3>1. p \in InvoicedProc
      BY <1>1, <2>2, ByOp, Zenon
    <3>2. q \in InvoicedProc /\ q.op = p.op
      BY <1>3, <1>7, <3>1, Zenon DEF InvoicedProc
    <3> QED
      BY <3>2, Zenon DEF ProcType
  <2> QED
    BY <1>1, <2>1, <2>2, Zenon
<1>9. Quiet(w)
  BY <1>1, <1>4, <1>7, <1>8, ReplyQuiet, Zenon DEF AccountType
<1> QED
  BY <1>5, <1>6, <1>9, QuietType, Zenon DEF AccountType, Step

\* createAdHocCustomPrice is a step of its worker alone.
LEMMA AdHocType ==
    ASSUME AccountType, NEW w \in Workers, createAdHocCustomPrice(w)
    PROVE  Step(w)
<1>1. PICK in : in = proc[w].in
  BY Zenon
<1>2. proc[w].op = "checkout"
  BY Zenon DEF createAdHocCustomPrice, At
<1>3. UNCHANGED <<mapping, customers, subs, sessions, grants, expired>>
  BY Zenon DEF createAdHocCustomPrice
<1>4. CASE Provision(w, ApplyIdempotencyKey("", "price.create.adhoc", sessionMetadata(in)))
  <2>1. Provision(w, KeyFor("price.create.adhoc", sessionMetadata(in)))
    BY <1>4, Zenon DEF KeyFor
  <2>2. PICK s, c : s = in.subject /\ c = collectPendingGrants(in.cart)
    BY Zenon
  <2>3. <<OwnNs, s, c>> \in Seq({OwnNs, s, c})
    BY SMT
  <2>4. sessionMetadata(in) = <<OwnNs, s, c>>
    BY <2>2, Zenon DEF sessionMetadata
  <2>5. sessionMetadata(in) \in Seq({OwnNs, s, c}) /\ "price.create.adhoc" \in AccountOps
    BY <2>3, <2>4, Zenon DEF AccountOps
  <2> QED
    BY <1>2, <1>3, <2>1, <2>5, Provisioned, Zenon
<1>5. CASE Goto(w, "object") /\ UNCHANGED <<inline, keys, faults>>
  <2>1. Quiet(w)
    BY <1>2, <1>5, Going, Zenon
  <2>2. NewKeys(AccountOps) /\ KeysType'
    BY <1>5, SameKeys, Zenon DEF AccountType
  <2> QED
    BY <1>3, <1>5, <2>1, <2>2, QuietType, Zenon DEF AccountType, Step
<1> QED
  BY <1>1, <1>4, <1>5, Zenon DEF createAdHocCustomPrice

\* The mode resolveLineItems finds for a cart.
LEMMA ModeType ==
    ASSUME NEW cart
    PROVE  resolveLineItems(cart) \in {"", "payment", "subscription"}
BY Zenon DEF resolveLineItems

\* CreateCheckoutSession adds at most a session and its key.
LEMMA CreateSessionType ==
    ASSUME AccountType, NEW w \in Workers, CreateCheckoutSession(w)
    PROVE  Step(w)
<1>1. PICK p : p = proc[w]
  BY Zenon
<1>2. p \in CheckoutProc /\ p.op = "checkout"
  BY <1>1, ByOp, Zenon DEF AccountType, CreateCheckoutSession, At
<1>3. p.in.subject \in Subjects /\ p.customer \in Nat /\ p.inline \in Nat
  BY <1>2, Zenon DEF CheckoutProc, CheckoutInput
<1>4. PICK key : key = ApplyIdempotencyKey("", "checkout.session.create",
                                           <<p.customer, p.in.cart>> \o sessionMetadata(p.in))
  BY Zenon
<1>5. PICK new : new = [customer |-> p.customer, subject |-> p.in.subject, state |-> "open",
                        mode |-> resolveLineItems(p.in.cart), inline |-> p.inline,
                        grants |-> collectPendingGrants(p.in.cart) # {}]
  BY Zenon
<1>6. UNCHANGED <<mapping, customers, subs, inline, grants, expired>>
  BY Zenon DEF CreateCheckoutSession
<1>7. CASE Goto(w, "archive") /\ UNCHANGED <<sessions, keys, faults>>
  <2>1. Quiet(w)
    BY <1>1, <1>2, <1>7, Going, Zenon
  <2>2. NewKeys(AccountOps) /\ KeysType'
    BY <1>7, SameKeys, Zenon DEF AccountType
  <2> QED
    BY <1>6, <1>7, <2>1, <2>2, QuietType, Zenon DEF AccountType, Step
<1>8. CASE /\ sessions' = IF Known(key) THEN sessions ELSE Append(sessions, new)
           /\ Remember(key, <<p.in.trial, p.inline>>, Len(sessions) + 1)
           /\ Reply(w, Idle)
  <2>1. new \in SessionType
    BY <1>3, <1>5, ModeType, Zenon DEF SessionType
  <2>2. sessions' \in Seq(SessionType) /\ Len(sessions) + 1 \in Nat
    BY <1>8, <2>1, AppendType, Zenon DEF AccountType
  <2>3. PICK c, cart, s, g : /\ c = p.customer /\ cart = p.in.cart /\ s = p.in.subject
                             /\ g = collectPendingGrants(p.in.cart)
    BY Zenon
  <2>4. <<c, cart>> \o <<OwnNs, s, g>> \in Seq({c, cart, OwnNs, s, g})
    BY SMT
  <2>5. key = KeyFor("checkout.session.create", <<c, cart>> \o <<OwnNs, s, g>>)
    BY <1>4, <2>3, Zenon DEF KeyFor, sessionMetadata
  <2>6. NewKeys(AccountOps) /\ KeysType'
    BY <1>8, <2>2, <2>4, <2>5, RemembersOp, Zenon DEF AccountType, AccountOps
  <2>7. Quiet(w)
    BY <1>8, ReplyQuiet, Zenon DEF AccountType, ProcType
  <2> QED
    BY <1>6, <2>2, <2>6, <2>7, QuietType, Zenon DEF AccountType, Step
<1> QED
  BY <1>1, <1>4, <1>5, <1>7, <1>8, Zenon DEF CreateCheckoutSession

\* CreateSubscription adds at most a subscription and its key.
LEMMA SubscribeType ==
    ASSUME AccountType, NEW w \in Workers, CreateSubscription(w)
    PROVE  Step(w)
<1>1. PICK p : p = proc[w]
  BY Zenon
<1>2. p \in InvoicedProc /\ p.op = "invoiced"
  BY <1>1, ByOp, Zenon DEF AccountType, CreateSubscription, At
<1>3. p.customer \in Nat /\ p.inline \in Nat
  BY <1>2, Zenon DEF InvoicedProc
<1>4. PICK key : key = ApplyIdempotencyKey("", "subscription.create_invoiced", <<p.customer, OwnNs>>)
  BY Zenon
<1>5. PICK new : new = [customer |-> p.customer, live |-> TRUE, ns |-> OwnNs, inline |-> p.inline]
  BY Zenon
<1>6. UNCHANGED <<mapping, customers, sessions, inline, grants, expired>>
  BY Zenon DEF CreateSubscription
<1>7. CASE Goto(w, "archive") /\ UNCHANGED <<subs, keys, faults>>
  <2>1. Quiet(w)
    BY <1>1, <1>2, <1>7, Going, Zenon
  <2>2. NewKeys(AccountOps) /\ KeysType'
    BY <1>7, SameKeys, Zenon DEF AccountType
  <2> QED
    BY <1>6, <1>7, <2>1, <2>2, QuietType, Zenon DEF AccountType, Step
<1>8. CASE /\ subs' = IF Known(key) THEN subs ELSE Append(subs, new)
           /\ Remember(key, <<p.in.fee, p.inline>>, Len(subs) + 1)
           /\ Reply(w, Idle)
  <2>1. new \in SubType
    BY <1>3, <1>5, Zenon DEF SubType
  <2>2. subs' \in Seq(SubType) /\ Len(subs) + 1 \in Nat
    BY <1>8, <2>1, AppendType, Zenon DEF AccountType
  <2>3. <<p.customer, OwnNs>> \in Seq({p.customer, OwnNs})
    BY SMT
  <2>4. key = KeyFor("subscription.create_invoiced", <<p.customer, OwnNs>>)
    BY <1>4, Zenon DEF KeyFor
  <2>5. NewKeys(AccountOps) /\ KeysType'
    BY <1>8, <2>2, <2>3, <2>4, RemembersOp, Zenon DEF AccountType, AccountOps
  <2>6. Quiet(w)
    BY <1>8, ReplyQuiet, Zenon DEF AccountType, ProcType
  <2> QED
    BY <1>6, <2>2, <2>5, <2>6, QuietType, Zenon DEF AccountType, Step
<1> QED
  BY <1>1, <1>4, <1>5, <1>7, <1>8, Zenon DEF CreateSubscription

\* buildAddInvoiceItemParams makes a product under a key of its own.
LEMMA SetupFeeType ==
    ASSUME AccountType, NEW w \in Workers, buildAddInvoiceItemParams(w)
    PROVE  Step(w)
<1>1. /\ proc[w].op = "invoiced"
      /\ Provision(w, KeyFor("product.create.setup_fee", <<OwnNs>>))
      /\ UNCHANGED <<mapping, customers, subs, sessions, grants, expired>>
  BY Zenon DEF buildAddInvoiceItemParams, At, KeyFor
<1>2. <<OwnNs>> \in Seq({OwnNs})
  BY SMT
<1>3. "product.create.setup_fee" \in AccountOps
  BY Zenon DEF AccountOps
<1> QED
  BY <1>1, <1>2, <1>3, Provisioned, Zenon

\* archiveOrphanAdHocPrices and archiveOrphanProducts, an error without effect, and
\* the backfill of subscriptions.
LEMMA ArchiveType ==
    ASSUME AccountType, NEW w \in Workers,
           archiveOrphanAdHocPrices(w) \/ archiveOrphanProducts(w)
    PROVE  Step(w)
<1>1. /\ Return(w) /\ inline' = Archived(w)
      /\ UNCHANGED <<mapping, customers, subs, sessions, keys, grants, expired>>
  BY Zenon DEF archiveOrphanAdHocPrices, archiveOrphanProducts
<1>2. inline' \in Seq(BOOLEAN)
  <2>1. PICK n : n = proc[w].inline
    BY Zenon
  <2>2. inline' = [i \in DOMAIN inline |-> inline[i] /\ i # n]
    BY <1>1, <2>1, Zenon DEF Archived
  <2>3. DOMAIN inline = 1 .. Len(inline) /\ Len(inline) \in Nat
    BY SMT DEF AccountType
  <2> QED
    BY <2>2, <2>3, SMT
<1>3. Quiet(w) /\ NewKeys(AccountOps) /\ KeysType'
  BY <1>1, IdleQuiet, SameKeys, Zenon DEF AccountType
<1> QED
  BY <1>1, <1>2, <1>3, QuietType, Zenon DEF AccountType, Step

\* A call that Stripe or a repository refuses changes nothing but its worker.
LEMMA FailsType ==
    ASSUME AccountType, NEW w \in Workers, Fails(w)
    PROVE  Step(w)
<1>1. Failed(w) /\ UNCHANGED <<mapping, customers, subs, sessions, inline, keys, grants, expired>>
  BY Zenon DEF Fails, stripeVars
<1>2. Quiet(w) /\ NewKeys(AccountOps) /\ KeysType'
  BY <1>1, FailedQuiet, SameKeys, Zenon DEF AccountType
<1> QED
  BY <1>1, <1>2, QuietType, Zenon DEF AccountType, Step

-----------------------------------------------------------------------------
(* Imports, erasures and what happens in Stripe, step by step.             *)

\* ImportCustomer's stamp of the customer's metadata is a step of its worker alone.
LEMMA StampType ==
    ASSUME AccountType, NEW w \in Workers, ImportStamps(w)
    PROVE  Step(w)
<1>1. PICK p : p = proc[w]
  BY Zenon
<1>2. p \in ImportProc /\ p.op = "import"
  BY <1>1, ByOp, Zenon DEF AccountType, ImportStamps, At
<1>3. UNCHANGED <<mapping, subs, sessions, inline, grants, expired>> /\ p.customer \in Nat
  BY <1>2, Zenon DEF ImportStamps, ImportProc
<1>4. CASE Return(w) /\ UNCHANGED <<customers, keys, faults>>
  <2>1. NewKeys(AccountOps) /\ KeysType'
    BY <1>4, SameKeys, Zenon DEF AccountType
  <2> QED
    BY <1>3, <1>4, <2>1, IdleQuiet, QuietType, Zenon DEF AccountType, Step
<1>5. CASE /\ customers' = customers \/ customers' = [customers EXCEPT ![p.customer].ns = OwnNs]
           /\ Remember(KeyFor("customers.import.stamp", <<p.customer>>), "", p.customer)
           /\ Reply(w, [p EXCEPT !.pc = "upsert"])
  <2>1. PICK e : e = [customers[p.customer] EXCEPT !.ns = OwnNs]
    BY Zenon
  <2>2. customers' = customers \/ customers' = [customers EXCEPT ![p.customer] = e]
    BY <1>5, <2>1, Zenon
  <2>3. p.customer \in DOMAIN customers => e \in CustomerType
    <3>1. p.customer \in DOMAIN customers => customers[p.customer] \in CustomerType
      BY SeqElement, Zenon DEF AccountType
    <3> QED
      BY <2>1, <3>1, Zenon DEF CustomerType
  <2>4. customers' \in Seq(CustomerType)
    <3>1. customers \in Seq(CustomerType) /\ [customers EXCEPT ![p.customer] = e] \in Seq(CustomerType)
      BY <2>3, SeqUpdate, Zenon DEF AccountType
    <3> QED
      BY <2>2, <3>1, Zenon
  <2>5. PICK q : q = [p EXCEPT !.pc = "upsert"]
    BY Zenon
  <2>6. q \in ImportProc /\ q.op = "import"
    BY <1>2, <2>5, Zenon DEF ImportProc
  <2>7. Quiet(w)
    BY <1>1, <1>2, <1>5, <2>5, <2>6, ReplyQuiet, Zenon DEF AccountType, ProcType
  <2>8. <<p.customer>> \in Seq({p.customer}) /\ "customers.import.stamp" \in AccountOps
    <3>1. <<p.customer>> \in Seq({p.customer})
      OBVIOUS
    <3> QED
      BY <3>1, Zenon DEF AccountOps
  <2>9. NewKeys(AccountOps) /\ KeysType'
    BY <1>3, <1>5, <2>8, RemembersOp, Zenon DEF AccountType
  <2> QED
    BY <1>3, <2>4, <2>7, <2>9, QuietType, Zenon DEF AccountType, Step
<1> QED
  BY <1>1, <1>4, <1>5, Zenon DEF ImportStamps, KeyFor

\* ImportCustomer's write of the mapping is a step of its worker alone.
LEMMA ImportType ==
    ASSUME AccountType, NEW w \in Workers, ImportUpserts(w)
    PROVE  Step(w)
<1>1. PICK p : p = proc[w]
  BY Zenon
<1>2. p \in ImportProc /\ p.op = "import"
  BY <1>1, ByOp, Zenon DEF AccountType, ImportUpserts, At
<1>3. p.subject \in Subjects /\ p.customer \in Nat
  BY <1>2, Zenon DEF ImportProc
<1>4. UNCHANGED <<customers, subs, sessions, inline, keys, grants, expired>>
  BY Zenon DEF ImportUpserts, stripeVars
<1>5. NewKeys(AccountOps) /\ KeysType'
  BY <1>4, SameKeys, Zenon DEF AccountType
<1>6. mapping' \in [Subjects -> Nat]
  BY <1>1, <1>3, Zenon DEF AccountType, ImportUpserts, Upsert
<1>7. Return(w) \/ Goto(w, "list")
  BY Zenon DEF ImportUpserts
<1>8. Quiet(w)
  <2>1. CASE Return(w)
    BY <2>1, IdleQuiet, Zenon DEF AccountType
  <2>2. CASE Goto(w, "list")
    <3>1. PICK q : q = [p EXCEPT !.pc = "list"]
      BY Zenon
    <3>2. proc' = [proc EXCEPT ![w] = q]
      BY <1>1, <2>2, <3>1, Zenon DEF Goto
    <3>3. q \in ImportProc /\ q.op = "import"
      BY <1>2, <3>1, Zenon DEF ImportProc
    <3> QED
      BY <1>1, <1>2, <3>2, <3>3, Zenon DEF Quiet, ProcType
  <2> QED
    BY <1>7, <2>1, <2>2, Zenon
<1> QED
  BY <1>4, <1>5, <1>6, <1>8, QuietType, Zenon DEF AccountType, Step

\* ImportCustomer's stamps of the subscriptions are steps of its worker alone.
LEMMA BackfillType ==
    ASSUME AccountType, NEW w \in Workers, backfillSubscriptions(w)
    PROVE  Step(w)
<1>1. PICK p : p = proc[w]
  BY Zenon
<1>2. p \in ImportProc /\ p.op = "import"
  BY <1>1, ByOp, Zenon DEF AccountType, backfillSubscriptions, At
<1>3. UNCHANGED <<mapping, customers, sessions, inline, grants, expired>>
  BY Zenon DEF backfillSubscriptions
<1>4. ASSUME UNCHANGED <<subs, keys>>, Quiet(w)
      PROVE  Step(w)
  <2>1. NewKeys(AccountOps) /\ KeysType'
    BY <1>4, SameKeys, Zenon DEF AccountType
  <2> QED
    BY <1>3, <1>4, <2>1, QuietType, Zenon DEF AccountType, Step
<1>5. ASSUME NEW q, q \in ImportProc, q.op = "import"
      PROVE  q \in ProcType /\ q.op = proc[w].op /\ q.op \in {"checkout", "invoiced", "import"}
  BY <1>1, <1>2, <1>5, Zenon DEF ProcType
<1>6. CASE Return(w) /\ UNCHANGED <<subs, keys, faults>>
  BY <1>4, <1>6, IdleQuiet, Zenon DEF AccountType
<1>7. CASE /\ proc' = [proc EXCEPT ![w] = [p EXCEPT !.pc = "backfill",
                          !.todo = {i \in DOMAIN subs : subs[i].customer = p.customer}]]
           /\ UNCHANGED <<subs, keys, faults>>
  <2>1. PICK s : s = {i \in DOMAIN subs : subs[i].customer = p.customer}
    BY Zenon
  <2>2. s \in SUBSET Nat
    <3>1. DOMAIN subs \subseteq Nat
      BY SeqElement, Zenon DEF AccountType
    <3> QED
      BY <2>1, <3>1, Zenon
  <2>3. PICK q : q = [p EXCEPT !.pc = "backfill", !.todo = s]
    BY Zenon
  <2>4. q \in ImportProc /\ q.op = "import"
    BY <1>2, <2>2, <2>3, Zenon DEF ImportProc
  <2>5. Reply(w, q)
    BY <1>7, <2>1, <2>3, Zenon DEF Reply
  <2>6. Quiet(w)
    BY <1>5, <2>4, <2>5, ReplyQuiet, Zenon DEF AccountType
  <2> QED
    BY <1>4, <1>7, <2>6, Zenon
<1>8. CASE \E i \in p.todo : StampSubscription(i) /\ Reply(w, [p EXCEPT !.todo = @ \ {i}])
  <2>1. PICK i \in p.todo : StampSubscription(i) /\ Reply(w, [p EXCEPT !.todo = @ \ {i}])
    BY <1>8, Zenon
  <2>2. i \in Nat /\ p.todo \ {i} \in SUBSET Nat
    BY <1>2, Zenon DEF ImportProc
  <2>3. PICK q : q = [p EXCEPT !.todo = @ \ {i}]
    BY Zenon
  <2>4. q \in ImportProc /\ q.op = "import"
    BY <1>2, <2>2, <2>3, Zenon DEF ImportProc
  <2>5. Quiet(w)
    BY <1>5, <2>1, <2>3, <2>4, ReplyQuiet, Zenon DEF AccountType
  <2>6. CASE UNCHANGED <<subs, keys>>
    BY <1>4, <2>5, <2>6, Zenon
  <2>7. CASE /\ subs' = subs \/ subs' = [subs EXCEPT ![i].ns = OwnNs]
             /\ Remember(KeyFor("customers.import.stamp_sub", <<i>>), "", i)
    <3>1. PICK e : e = [subs[i] EXCEPT !.ns = OwnNs]
      BY Zenon
    <3>2. subs' = subs \/ subs' = [subs EXCEPT ![i] = e]
      BY <2>7, <3>1, Zenon
    <3>3. i \in DOMAIN subs => e \in SubType
      <4>1. i \in DOMAIN subs => subs[i] \in SubType
        BY SeqElement, Zenon DEF AccountType
      <4> QED
        BY <3>1, <4>1, Zenon DEF SubType
    <3>4. subs' \in Seq(SubType)
      <4>1. subs \in Seq(SubType) /\ [subs EXCEPT ![i] = e] \in Seq(SubType)
        BY <3>3, SeqUpdate, Zenon DEF AccountType
      <4> QED
        BY <3>2, <4>1, Zenon
    <3>5. <<i>> \in Seq({i}) /\ "customers.import.stamp_sub" \in AccountOps
      <4>1. <<i>> \in Seq({i})
        OBVIOUS
      <4> QED
        BY <4>1, Zenon DEF AccountOps
    <3>6. NewKeys(AccountOps) /\ KeysType'
      BY <2>2, <2>7, <3>5, RemembersOp, Zenon DEF AccountType
    <3> QED
      BY <1>3, <2>5, <3>4, <3>6, QuietType, Zenon DEF AccountType, Step
  <2> QED
    BY <2>1, <2>6, <2>7, Zenon DEF StampSubscription, KeyFor
<1> QED
  BY <1>1, <1>6, <1>7, <1>8, Zenon DEF backfillSubscriptions

\* Grants are appended and revoked, never taken back.
GrantsGrow ==
    /\ DOMAIN grants \subseteq DOMAIN grants'
    /\ \A g \in DOMAIN grants : /\ grants'[g].subject = grants[g].subject
                                /\ grants[g].revoked => grants'[g].revoked

\* What the state of an erasure says, as ForgetInv has it.
Erased(p) ==
    /\ p.had \subseteq GrantsOf(p.subject)
    /\ p.pc = "revoke" => \A g \in p.had : g \in p.grants \/ grants[g].revoked
    /\ p.pc = "delete" => \A g \in p.had : grants[g].revoked

\* What an erasure has revoked stays revoked: grants are added and revoked, never restored.
LEMMA ErasedKept ==
    ASSUME NEW p, Erased(p), GrantsGrow
    PROVE  Erased(p)'
BY Zenon DEF Erased, GrantsGrow, GrantsOf

\* A worker that erases nothing does not disturb those that do.
LEMMA ForgetKept ==
    ASSUME ForgetInv, GrantsGrow,
           \A v \in Workers : proc'[v] = proc[v] \/ proc'[v].op # "forget" \/ Erased(proc[v])'
    PROVE  ForgetInv'
<1> SUFFICES ASSUME NEW v \in Workers, proc'[v].op = "forget"
             PROVE  Erased(proc[v])'
  BY Zenon DEF ForgetInv, Erased
<1>1. CASE proc'[v] = proc[v]
  <2>1. PICK p : p = proc[v]
    BY Zenon
  <2>2. Erased(p)
    BY <1>1, <2>1, Zenon DEF ForgetInv, Erased
  <2>3. Erased(p)'
    BY <2>2, ErasedKept, Zenon
  <2> QED
    BY <1>1, <2>1, <2>3, Zenon DEF Erased
<1> QED
  BY <1>1, Zenon

\* A step that leaves the grants alone only lets them grow.
LEMMA SameGrants ==
    ASSUME UNCHANGED grants
    PROVE  GrantsGrow
BY Zenon DEF GrantsGrow

\* Every erasure under way keeps its promise over a step of another call.
LEMMA QuietForget ==
    ASSUME proc \in [Workers -> ProcType], ForgetInv, GrantsGrow, NEW w \in Workers, Quiet(w)
    PROVE  ForgetInv'
<1>1. PICK q \in ProcType :
         /\ proc' = [proc EXCEPT ![w] = q]
         /\ q = Idle \/ q.op \in {"checkout", "invoiced", "import"}
  BY Zenon DEF Quiet
<1>2. q.op # "forget"
  BY <1>1, IdleFields, Zenon
<1>3. proc'[w] = q /\ \A v \in Workers \ {w} : proc'[v] = proc[v]
  BY <1>1, ProcStep, Zenon
<1> QED
  BY <1>2, <1>3, ForgetKept, Zenon

\* Worker w does nothing to drafts and records.
Other(w) ==
    \E q \in ProcType : proc' = [proc EXCEPT ![w] = q] /\ q.op \notin {"draft", "write"}

\* A step of a checkout, an invoiced subscription or an import does nothing to drafts and records.
LEMMA QuietOther ==
    ASSUME NEW w, Quiet(w)
    PROVE  Other(w)
BY IdleFields, Zenon DEF Quiet, Other

\* What every step of the customer operations leaves true.
Safe(w) == AccountType' /\ ForgetInv' /\ NewKeys(AccountOps) /\ Other(w)

\* A step of checkout, subscription or import that changes no grant keeps what erasures rest on.
LEMMA StepSafe ==
    ASSUME AccountType, ForgetInv, NEW w \in Workers, Step(w), UNCHANGED grants
    PROVE  Safe(w)
BY SameGrants, QuietForget, QuietOther, Zenon DEF Step, Safe, AccountType

\* Forget's cancellation of a subscription, with its retries and early return, keeps what
\* erasures rest on.
LEMMA CancelSafe ==
    ASSUME AccountType, ForgetInv, NEW w \in Workers, cancelActiveSubscriptions(w)
    PROVE  Safe(w)
<1>1. PICK p : p = proc[w]
  BY Zenon
<1>2. p \in ForgetProc /\ p.op = "forget" /\ p.pc = "cancel" /\ p.subject \in Subjects
  <2>1. p \in ProcType /\ p.op = "forget" /\ p.pc = "cancel"
    BY <1>1, Zenon DEF AccountType, cancelActiveSubscriptions, At
  <2>2. p \in ForgetProc
    BY <2>1, ByOp, Zenon
  <2> QED
    BY <2>1, <2>2, Zenon DEF ForgetProc
<1>3. UNCHANGED <<mapping, customers, sessions, inline, grants, expired>>
  BY Zenon DEF cancelActiveSubscriptions
<1>4. p.had \subseteq GrantsOf(p.subject)
  BY <1>1, <1>2, Zenon DEF ForgetInv
<1>5. GrantsOf(p.subject) \subseteq Nat
  BY SeqElement, Zenon DEF AccountType, GrantsOf
<1>6. CASE /\ proc' = [proc EXCEPT ![w] = [p EXCEPT !.pc = "revoke", !.grants = GrantsOf(p.subject)]]
           /\ UNCHANGED <<subs, keys, faults>>
  <2>1. PICK q : q = [p EXCEPT !.pc = "revoke", !.grants = GrantsOf(p.subject)]
    BY Zenon
  <2>2. /\ q \in ForgetProc /\ q.op = "forget" /\ q.pc = "revoke" /\ q.subject = p.subject
        /\ q.had = p.had /\ q.grants = GrantsOf(p.subject)
    BY <1>2, <1>5, <2>1, Zenon DEF ForgetProc
  <2>3. q \in ProcType /\ Other(w)
    BY <1>6, <2>1, <2>2, Zenon DEF ProcType, Other
  <2>4. /\ proc' \in [Workers -> ProcType] /\ proc'[w] = q
        /\ \A v \in Workers \ {w} : proc'[v] = proc[v]
    BY <1>6, <2>1, <2>3, ProcStep, Zenon DEF AccountType
  <2>5. Erased(proc[w])'
    BY <1>3, <1>4, <2>2, <2>4, Zenon DEF Erased, GrantsOf
  <2>6. ForgetInv'
    BY <1>3, <2>4, <2>5, SameGrants, ForgetKept, Zenon
  <2>7. NewKeys(AccountOps) /\ KeysType'
    BY <1>6, SameKeys, Zenon DEF AccountType
  <2> QED
    BY <1>3, <1>6, <2>3, <2>4, <2>6, <2>7, Zenon DEF AccountType, Safe
<1>7. CASE Return(w) /\ UNCHANGED <<subs, keys, faults>>
  <2>1. Quiet(w) /\ NewKeys(AccountOps) /\ KeysType'
    BY <1>7, IdleQuiet, SameKeys, Zenon DEF AccountType
  <2>2. Step(w)
    BY <1>3, <1>7, <2>1, QuietType, Zenon DEF AccountType, Step
  <2> QED
    BY <1>3, <2>2, StepSafe, Zenon
<1>8. CASE \E i \in p.subs :
              /\ subs' = [subs EXCEPT ![i].live = FALSE]
              /\ Remember(KeyFor("subscription.cancel_now", <<i>>), "", i) \/ UNCHANGED keys
              /\ Reply(w, [p EXCEPT !.subs = @ \ {i}])
  <2>1. PICK i \in p.subs :
              /\ subs' = [subs EXCEPT ![i].live = FALSE]
              /\ Remember(KeyFor("subscription.cancel_now", <<i>>), "", i) \/ UNCHANGED keys
              /\ Reply(w, [p EXCEPT !.subs = @ \ {i}])
    BY <1>8, Zenon
  <2>2. i \in Nat
    BY <1>2, Zenon DEF ForgetProc
  <2>3. <<i>> \in Seq({i}) /\ "subscription.cancel_now" \in AccountOps
    <3>1. <<i>> \in Seq({i})
      OBVIOUS
    <3> QED
      BY <3>1, Zenon DEF AccountOps
  <2>4. NewKeys(AccountOps) /\ KeysType'
    BY <2>1, <2>2, <2>3, RemembersOp, SameKeys, Zenon DEF AccountType
  <2>5. PICK e : e = [subs[i] EXCEPT !.live = FALSE]
    BY Zenon
  <2>6. subs' = [subs EXCEPT ![i] = e]
    BY <2>1, <2>5, Zenon
  <2>7. i \in DOMAIN subs => e \in SubType
    <3>1. i \in DOMAIN subs => subs[i] \in SubType
      BY SeqElement, Zenon DEF AccountType
    <3> QED
      BY <2>5, <3>1, Zenon DEF SubType
  <2>8. subs' \in Seq(SubType)
    BY <2>6, <2>7, SeqUpdate, Zenon DEF AccountType
  <2>9. CASE Failed(w)
    <3>1. Step(w)
      BY <1>3, <2>4, <2>8, <2>9, FailedQuiet, QuietType, Zenon DEF AccountType, Step
    <3> QED
      BY <1>3, <3>1, StepSafe, Zenon
  <2>10. CASE proc' = [proc EXCEPT ![w] = [p EXCEPT !.subs = @ \ {i}]]
    <3>1. PICK q : q = [p EXCEPT !.subs = @ \ {i}]
      BY Zenon
    <3>2. p.subs \ {i} \in SUBSET Nat
      BY <1>2, Zenon DEF ForgetProc
    <3>3. /\ q \in ForgetProc /\ q.op = "forget" /\ q.pc = "cancel" /\ q.subject = p.subject
          /\ q.had = p.had
      BY <1>2, <3>1, <3>2, Zenon DEF ForgetProc
    <3>4. q \in ProcType /\ Other(w)
      BY <2>10, <3>1, <3>3, Zenon DEF ProcType, Other
    <3>5. /\ proc' \in [Workers -> ProcType] /\ proc'[w] = q
          /\ \A v \in Workers \ {w} : proc'[v] = proc[v]
      BY <2>10, <3>1, <3>4, ProcStep, Zenon DEF AccountType
    <3>6. Erased(proc[w])'
      BY <1>3, <1>4, <3>3, <3>5, Zenon DEF Erased, GrantsOf
    <3>7. ForgetInv'
      BY <1>3, <3>5, <3>6, SameGrants, ForgetKept, Zenon
    <3> QED
      BY <1>3, <2>4, <2>8, <3>4, <3>5, <3>7, Zenon DEF AccountType, Safe
  <2> QED
    BY <2>1, <2>9, <2>10, Zenon DEF Reply
<1> QED
  BY <1>1, <1>6, <1>7, <1>8, Zenon DEF cancelActiveSubscriptions, KeyFor

\* Forget revokes one grant after the other and goes on to the customer only when none of
\* those it found is left.
LEMMA RevokeSafe ==
    ASSUME AccountType, ForgetInv, NEW w \in Workers, ForgetRevokes(w)
    PROVE  Safe(w)
<1>1. PICK p : p = proc[w]
  BY Zenon
<1>2. p \in ForgetProc /\ p.op = "forget" /\ p.pc = "revoke"
  BY <1>1, ByOp, Zenon DEF AccountType, ForgetRevokes, At
<1>3. UNCHANGED <<mapping, customers, subs, sessions, inline, keys, expired>>
  BY Zenon DEF ForgetRevokes, stripeVars
<1>4. /\ p.had \subseteq GrantsOf(p.subject)
      /\ \A g \in p.had : g \in p.grants \/ grants[g].revoked
  BY <1>1, <1>2, Zenon DEF ForgetInv
<1>5. NewKeys(AccountOps) /\ KeysType'
  BY <1>3, SameKeys, Zenon DEF AccountType
<1>6. ASSUME NEW q, q \in ForgetProc, q.op = "forget", proc' = [proc EXCEPT ![w] = q],
             grants' \in Seq(GrantType), GrantsGrow, Erased(q)'
      PROVE  Safe(w)
  <2>1. q \in ProcType /\ Other(w)
    BY <1>6, Zenon DEF ProcType, Other
  <2>2. /\ proc' \in [Workers -> ProcType] /\ proc'[w] = q
        /\ \A v \in Workers \ {w} : proc'[v] = proc[v]
    BY <1>6, <2>1, ProcStep, Zenon DEF AccountType
  <2>3. Erased(proc[w])'
    BY <1>6, <2>2, Zenon DEF Erased
  <2>4. ForgetInv'
    BY <1>6, <2>2, <2>3, ForgetKept, Zenon
  <2> QED
    BY <1>3, <1>5, <1>6, <2>1, <2>2, <2>4, Zenon DEF AccountType, Safe
<1>7. CASE p.grants = {} /\ Goto(w, "delete") /\ UNCHANGED grants
  <2>1. PICK q : q = [p EXCEPT !.pc = "delete"]
    BY Zenon
  <2>2. proc' = [proc EXCEPT ![w] = q]
    BY <1>1, <1>7, <2>1, Zenon DEF Goto
  <2>3. q \in ForgetProc /\ q.op = "forget" /\ q.pc = "delete" /\ q.subject = p.subject /\ q.had = p.had
    BY <1>2, <2>1, Zenon DEF ForgetProc
  <2>4. Erased(q)'
    BY <1>4, <1>7, <2>3, Zenon DEF Erased, GrantsOf
  <2> QED
    BY <1>6, <1>7, <2>2, <2>3, <2>4, SameGrants, Zenon DEF AccountType
<1>8. CASE \E g \in p.grants : /\ grants' = [grants EXCEPT ![g].revoked = TRUE]
                               /\ proc' = [proc EXCEPT ![w].grants = @ \ {g}]
  <2>1. PICK g \in p.grants : /\ grants' = [grants EXCEPT ![g].revoked = TRUE]
                              /\ proc' = [proc EXCEPT ![w].grants = @ \ {g}]
    BY <1>8, Zenon
  <2>2. PICK q : q = [p EXCEPT !.grants = p.grants \ {g}]
    BY Zenon
  <2>3. proc' = [proc EXCEPT ![w] = q]
    BY <1>1, <2>1, <2>2, Zenon
  <2>4. p.grants \ {g} \in SUBSET Nat
    BY <1>2, Zenon DEF ForgetProc
  <2>5. /\ q \in ForgetProc /\ q.op = "forget" /\ q.pc = "revoke" /\ q.subject = p.subject
        /\ q.had = p.had /\ q.grants = p.grants \ {g}
    BY <1>2, <2>2, <2>4, Zenon DEF ForgetProc
  <2>6. PICK e : e = [grants[g] EXCEPT !.revoked = TRUE]
    BY Zenon
  <2>7. grants' = [grants EXCEPT ![g] = e]
    BY <2>1, <2>6, Zenon
  <2>8. g \in DOMAIN grants => e \in GrantType /\ e.subject = grants[g].subject /\ e.revoked = TRUE
    <3>1. g \in DOMAIN grants => grants[g] \in GrantType
      BY SeqElement, Zenon DEF AccountType
    <3> QED
      BY <2>6, <3>1, Zenon DEF GrantType
  <2>9. grants' \in Seq(GrantType)
    BY <2>7, <2>8, SeqUpdate, Zenon DEF AccountType
  <2>10. /\ DOMAIN grants' = DOMAIN grants
         /\ g \in DOMAIN grants => grants'[g] = e
         /\ \A h \in DOMAIN grants : h # g => grants'[h] = grants[h]
    BY <2>7, Zenon
  <2>11. GrantsGrow
    BY <2>8, <2>10, Zenon DEF GrantsGrow
  <2>12. Erased(q)'
    <3>1. q.had \subseteq GrantsOf(q.subject)'
      BY <1>4, <2>5, <2>11, Zenon DEF GrantsOf, GrantsGrow
    <3>2. ASSUME NEW h \in q.had PROVE h \in q.grants \/ grants'[h].revoked
      BY <1>4, <2>5, <2>8, <2>10, Zenon DEF GrantsOf
    <3> QED
      BY <2>5, <3>1, <3>2, Zenon DEF Erased
  <2> QED
    BY <1>6, <2>3, <2>5, <2>9, <2>11, <2>12, Zenon
<1> QED
  BY <1>1, <1>7, <1>8, Zenon DEF ForgetRevokes

\* Forget deletes the customer when all its grants are revoked, and then ends.
LEMMA DeleteSafe ==
    ASSUME AccountType, ForgetInv, NEW w \in Workers, ForgetDeletes(w)
    PROVE  Safe(w)
<1>1. PICK c : c = proc[w].customer
  BY Zenon
<1>2. UNCHANGED <<mapping, sessions, inline, keys, grants, expired>>
  BY Zenon DEF ForgetDeletes
<1>3. NewKeys(AccountOps) /\ KeysType'
  BY <1>2, SameKeys, Zenon DEF AccountType
<1>4. CASE Return(w) /\ UNCHANGED <<customers, subs, faults>>
  <2>1. Step(w)
    BY <1>2, <1>3, <1>4, IdleQuiet, QuietType, Zenon DEF AccountType, Step
  <2> QED
    BY <1>2, <2>1, StepSafe, Zenon
<1>5. CASE /\ customers' = [customers EXCEPT ![c].deleted = TRUE]
           /\ subs' = [i \in DOMAIN subs |-> [subs[i] EXCEPT !.live = @ /\ subs[i].customer # c]]
           /\ Reply(w, Idle)
  <2>1. PICK e : e = [customers[c] EXCEPT !.deleted = TRUE]
    BY Zenon
  <2>2. customers' = [customers EXCEPT ![c] = e]
    BY <1>5, <2>1, Zenon
  <2>3. c \in DOMAIN customers => e \in CustomerType
    <3>1. c \in DOMAIN customers => customers[c] \in CustomerType
      BY SeqElement, Zenon DEF AccountType
    <3> QED
      BY <2>1, <3>1, Zenon DEF CustomerType
  <2>4. customers' \in Seq(CustomerType)
    BY <2>2, <2>3, SeqUpdate, Zenon DEF AccountType
  <2>5. subs' \in Seq(SubType)
    <3>1. ASSUME NEW i \in DOMAIN subs PROVE subs'[i] \in SubType
      <4>1. PICK s : s = subs[i] /\ s \in SubType
        BY SeqElement, Zenon DEF AccountType
      <4>2. subs'[i] = [s EXCEPT !.live = s.live /\ s.customer # c]
        BY <1>5, <4>1, Zenon
      <4> QED
        BY <4>1, <4>2, Zenon DEF SubType
    <3>2. DOMAIN subs' = DOMAIN subs /\ subs' = [i \in DOMAIN subs' |-> subs'[i]]
      BY <1>5, Zenon
    <3>3. DOMAIN subs = 1 .. Len(subs) /\ Len(subs) \in Nat
      BY SMT DEF AccountType
    <3> QED
      BY <3>1, <3>2, <3>3, SMT
  <2>6. Quiet(w)
    BY <1>5, ReplyQuiet, Zenon DEF AccountType, ProcType
  <2>7. Step(w)
    BY <1>2, <1>3, <2>4, <2>5, <2>6, QuietType, Zenon DEF AccountType, Step
  <2> QED
    BY <1>2, <2>7, StepSafe, Zenon
<1> QED
  BY <1>1, <1>4, <1>5, Zenon DEF ForgetDeletes

\* The same of a step in which no worker takes part.
StripeSafe ==
    /\ AccountType' /\ ForgetInv' /\ UNCHANGED proc
    /\ NewKeys(AccountOps) \/ keys' = <<>>

\* A payment at Stripe keeps what erasures rest on.
LEMMA PaySafe ==
    ASSUME AccountType, ForgetInv, NEW i \in DOMAIN sessions, Pay(i)
    PROVE  StripeSafe
<1>1. UNCHANGED <<mapping, customers, inline, keys, grants, proc, expired>>
  BY Zenon DEF Pay
<1>2. PICK s : s = sessions[i] /\ s \in SessionType
  BY SeqElement, Zenon DEF AccountType
<1>3. sessions' \in Seq(SessionType)
  <2>1. PICK e : e = [s EXCEPT !.state = "paid"]
    BY Zenon
  <2>2. sessions' = [sessions EXCEPT ![i] = e] /\ e \in SessionType
    BY <1>2, <2>1, Zenon DEF Pay, SessionType
  <2> QED
    BY <2>2, SeqUpdate, Zenon DEF AccountType
<1>4. subs' \in Seq(SubType)
  <2>1. PICK e : e = [customer |-> s.customer, live |-> TRUE, ns |-> OwnNs, inline |-> 0]
    BY Zenon
  <2>2. e \in SubType
    <3>1. s.customer \in Nat
      BY <1>2, Zenon DEF SessionType
    <3>2. 0 \in Nat
      BY SMT
    <3> QED
      BY <2>1, <3>1, <3>2, Zenon DEF SubType
  <2>3. subs' = subs \/ subs' = Append(subs, e)
    BY <1>2, <2>1, Zenon DEF Pay
  <2>4. subs \in Seq(SubType)
    BY Zenon DEF AccountType
  <2>5. Append(subs, e) \in Seq(SubType)
    BY <2>2, <2>4, AppendType, Zenon
  <2> QED
    BY <2>3, <2>4, <2>5, Zenon
<1>5. NewKeys(AccountOps) /\ KeysType'
  BY <1>1, SameKeys, Zenon DEF AccountType
<1>6. ForgetInv'
  BY <1>1, SameGrants, ForgetKept, Zenon
<1> QED
  BY <1>1, <1>3, <1>4, <1>5, <1>6, Zenon DEF AccountType, StripeSafe

\* A grant from a checkout webhook, late as it may be, keeps what erasures rest on.
LEMMA GrantSafe ==
    ASSUME AccountType, ForgetInv, NEW i \in DOMAIN sessions, GrantFromCheckout(i)
    PROVE  StripeSafe
<1>1. UNCHANGED <<mapping, customers, subs, inline, keys, proc, expired>>
  BY Zenon DEF GrantFromCheckout
<1>2. PICK s : s = sessions[i] /\ s \in SessionType
  BY SeqElement, Zenon DEF AccountType
<1>3. sessions' \in Seq(SessionType)
  <2>1. PICK e : e = [s EXCEPT !.state = "granted"]
    BY Zenon
  <2>2. sessions' = [sessions EXCEPT ![i] = e] /\ e \in SessionType
    BY <1>2, <2>1, Zenon DEF GrantFromCheckout, SessionType
  <2> QED
    BY <2>2, SeqUpdate, Zenon DEF AccountType
<1>4. PICK e : e = [subject |-> s.subject, revoked |-> FALSE]
  BY Zenon
<1>5. e \in GrantType
  BY <1>2, <1>4, Zenon DEF GrantType, SessionType
<1>6. grants' = Append(grants, e)
  BY <1>2, <1>4, Zenon DEF GrantFromCheckout
<1>7. grants' \in Seq(GrantType)
  BY <1>5, <1>6, AppendType, Zenon DEF AccountType
<1>8. GrantsGrow
  <2>1. grants \in Seq(GrantType)
    BY Zenon DEF AccountType
  <2>2. /\ DOMAIN Append(grants, e) = DOMAIN grants \cup {Len(grants) + 1}
        /\ \A g \in DOMAIN grants : Append(grants, e)[g] = grants[g]
    BY <1>5, <2>1, SMT
  <2> QED
    BY <1>6, <2>2, Zenon DEF GrantsGrow
<1>9. NewKeys(AccountOps) /\ KeysType'
  BY <1>1, SameKeys, Zenon DEF AccountType
<1>10. ForgetInv'
  BY <1>1, <1>8, ForgetKept, Zenon
<1> QED
  BY <1>1, <1>3, <1>7, <1>9, <1>10, Zenon DEF AccountType, StripeSafe

\* Keys that Stripe forgets keep what erasures rest on.
LEMMA ExpireSafe ==
    ASSUME AccountType, ForgetInv, KeysExpire
    PROVE  StripeSafe
<1>1. /\ UNCHANGED <<mapping, customers, subs, sessions, inline, grants, proc>>
      /\ keys' = <<>> /\ expired' = TRUE
  BY Zenon DEF KeysExpire
<1>2. KeysType'
  <2>1. DOMAIN <<>> = {}
    BY SMT
  <2> QED
    BY <1>1, <2>1, Zenon DEF KeysType
<1>3. ForgetInv'
  BY <1>1, SameGrants, ForgetKept, Zenon
<1> QED
  BY <1>1, <1>2, <1>3, Zenon DEF AccountType, StripeSafe

\* The beginning of a call: nothing changes but the state of the worker.
LEMMA BeginSafe ==
    ASSUME AccountType, ForgetInv, NEW w \in Workers, NEW in \in Input, Begin(w, in)
    PROVE  Safe(w)
<1>1. /\ UNCHANGED <<mapping, customers, subs, sessions, inline, keys, grants, expired>>
  BY Zenon DEF Begin, CreateSession, CreateInvoiced, Forget, ImportCustomer, stripeVars
<1>2. NewKeys(AccountOps) /\ KeysType'
  BY <1>1, SameKeys, Zenon DEF AccountType
<1>3. ASSUME NEW q \in ProcType, proc' = [proc EXCEPT ![w] = q], q.op \notin {"draft", "write"},
             q.op # "forget" \/ Erased(q)'
      PROVE  Safe(w)
  <2>1. /\ proc' \in [Workers -> ProcType] /\ proc'[w] = q
        /\ \A v \in Workers \ {w} : proc'[v] = proc[v]
    BY <1>3, ProcStep, Zenon DEF AccountType
  <2>2. ForgetInv'
    <3>1. proc'[w].op # "forget" \/ Erased(proc[w])'
      BY <1>3, <2>1, Zenon DEF Erased
    <3> QED
      BY <1>1, <2>1, <3>1, SameGrants, ForgetKept, Zenon
  <2>3. Other(w)
    BY <1>3, Zenon DEF Other
  <2> QED
    BY <1>1, <1>2, <2>1, <2>2, <2>3, Zenon DEF AccountType, Safe
<1>4. CASE in.op = "checkout" /\ CreateSession(w, in)
  <2>1. in \in CheckoutInput
    BY <1>4, Zenon DEF Input, CheckoutInput, InvoicedInput, ForgetInput, ImportInput, DraftInput, WriteInput
  <2>2. Get(in.subject) \in Nat /\ 0 \in Nat
    <3>1. in.subject \in Subjects
      BY <2>1, Zenon DEF CheckoutInput
    <3>2. 0 \in Nat
      BY SMT
    <3> QED
      BY <3>1, <3>2, Zenon DEF AccountType, Get
  <2>3. PICK pc \in {"create", "inline"} :
           proc' = [proc EXCEPT ![w] = [op |-> "checkout", pc |-> pc, in |-> in,
                                        customer |-> Get(in.subject), inline |-> 0]]
    BY <1>4, Zenon DEF CreateSession
  <2>4. PICK q : q = [op |-> "checkout", pc |-> pc, in |-> in,
                      customer |-> Get(in.subject), inline |-> 0]
    BY Zenon
  <2>5. q \in CheckoutProc
    BY <2>1, <2>2, <2>4, Zenon DEF CheckoutProc
  <2>6. q.op = "checkout" /\ q \in ProcType
    BY <2>5, Zenon DEF CheckoutProc, ProcType
  <2> QED
    BY <1>3, <2>3, <2>4, <2>6, Zenon
<1>5. CASE in.op = "invoiced" /\ CreateInvoiced(w, in)
  <2>1. in \in InvoicedInput
    BY <1>5, Zenon DEF Input, CheckoutInput, InvoicedInput, ForgetInput, ImportInput, DraftInput, WriteInput
  <2>2. Get(in.subject) \in Nat /\ 0 \in Nat
    <3>1. in.subject \in Subjects
      BY <2>1, Zenon DEF InvoicedInput
    <3>2. 0 \in Nat
      BY SMT
    <3> QED
      BY <3>1, <3>2, Zenon DEF AccountType, Get
  <2>3. PICK pc \in {"inline", "object"} :
           proc' = [proc EXCEPT ![w] = [op |-> "invoiced", pc |-> pc, in |-> in,
                                        customer |-> Get(in.subject), inline |-> 0]]
    BY <1>5, Zenon DEF CreateInvoiced
  <2>4. PICK q : q = [op |-> "invoiced", pc |-> pc, in |-> in,
                      customer |-> Get(in.subject), inline |-> 0]
    BY Zenon
  <2>5. q \in InvoicedProc
    BY <2>1, <2>2, <2>4, Zenon DEF InvoicedProc
  <2>6. q.op = "invoiced" /\ q \in ProcType
    BY <2>5, Zenon DEF InvoicedProc, ProcType
  <2> QED
    BY <1>3, <2>3, <2>4, <2>6, Zenon
<1>6. CASE in.op = "forget" /\ Forget(w, in)
  <2>1. in.subject \in Subjects /\ in.canceler \in BOOLEAN
    BY <1>6, Zenon DEF Input, CheckoutInput, InvoicedInput, ForgetInput, ImportInput, DraftInput, WriteInput
  <2>2. PICK c, ss, h : c = Get(in.subject) /\ ss = LiveSubs(Get(in.subject)) /\ h = GrantsOf(in.subject)
    BY Zenon
  <2>3. c \in Nat /\ ss \in SUBSET Nat /\ h \in SUBSET Nat
    <3>1. DOMAIN subs \subseteq Nat /\ DOMAIN grants \subseteq Nat
      BY SeqElement, Zenon DEF AccountType
    <3> QED
      BY <2>1, <2>2, <3>1, Zenon DEF AccountType, Get, LiveSubs, GrantsOf
  <2>4. PICK q : q = [op |-> "forget", pc |-> "cancel", subject |-> in.subject, customer |-> c,
                      canceler |-> in.canceler, subs |-> ss, grants |-> {}, had |-> h]
    BY Zenon
  <2>5. q \in ForgetProc /\ q.subject = in.subject /\ q.had = h /\ q.pc = "cancel"
    BY <2>1, <2>3, <2>4, Zenon DEF ForgetProc
  <2>6. q.op = "forget" /\ q \in ProcType
    BY <2>5, Zenon DEF ForgetProc, ProcType
  <2>7. Erased(q)'
    BY <1>1, <2>2, <2>5, Zenon DEF Erased, GrantsOf
  <2>8. proc' = [proc EXCEPT ![w] = q]
    BY <1>6, <2>2, <2>4, Zenon DEF Forget
  <2> QED
    BY <1>3, <2>6, <2>7, <2>8, Zenon
<1>7. CASE in.op = "import" /\ ImportCustomer(w, in)
  <2>1. in \in ImportInput
    BY <1>7, Zenon DEF Input, CheckoutInput, InvoicedInput, ForgetInput, ImportInput, DraftInput, WriteInput
  <2>2. PICK pc \in {"upsert", "stamp"} :
           proc' = [proc EXCEPT ![w] =
              [op |-> "import", pc |-> pc, subject |-> in.subject, customer |-> in.customer,
               backfill |-> in.backfill, todo |-> {}]]
    BY <1>7, Zenon DEF ImportCustomer
  <2>3. PICK q : q = [op |-> "import", pc |-> pc, subject |-> in.subject, customer |-> in.customer,
                      backfill |-> in.backfill, todo |-> {}]
    BY Zenon
  <2>4. {} \in SUBSET Nat
    BY Zenon
  <2>5. q \in ImportProc
    BY <2>1, <2>3, <2>4, Zenon DEF ImportProc, ImportInput
  <2>6. q.op = "import" /\ q \in ProcType
    BY <2>5, Zenon DEF ImportProc, ProcType
  <2> QED
    BY <1>3, <2>2, <2>3, <2>6, Zenon
<1> QED
  BY <1>4, <1>5, <1>6, <1>7, Zenon DEF Begin

-----------------------------------------------------------------------------
(* Drafts and writes to records, as far as the customers are concerned.    *)

\* A worker that drafts or writes leaves the customers and the erasures as they are.
LEMMA LoneSafe ==
    ASSUME AccountType, ForgetInv, NEW w \in Workers, NEW q \in ProcType,
           proc' = [proc EXCEPT ![w] = q], q.op # "forget", KeysType',
           UNCHANGED <<mapping, customers, subs, sessions, inline, grants, expired>>
    PROVE  AccountType' /\ ForgetInv'
<1>1. /\ proc' \in [Workers -> ProcType] /\ proc'[w] = q
      /\ \A v \in Workers \ {w} : proc'[v] = proc[v]
  BY ProcStep, Zenon DEF AccountType
<1>2. ForgetInv'
  BY <1>1, SameGrants, ForgetKept, Zenon
<1> QED
  BY <1>1, <1>2, Zenon DEF AccountType

\* A create keeps the keys that Stripe knows.
LEMMA RemembersType ==
    ASSUME NEW key, NEW params, NEW id \in Nat, Remember(key, params, id), KeysType
    PROVE  OldKeys /\ KeysType'
<1>1. [params |-> params, id |-> id].id = id
  BY SMT
<1>2. /\ OldKeys
      /\ DOMAIN keys' = DOMAIN keys \cup {key}
      /\ ~Known(key) => keys'[key] = [params |-> params, id |-> id]
  BY Remembers, Zenon
<1> QED
  BY <1>1, <1>2, Zenon DEF OldKeys, KeysType, Known

\* A function over the indices of a list is a list.
LEMMA SeqOver ==
    ASSUME NEW T, NEW U, NEW s \in Seq(U), NEW f, f = [i \in DOMAIN s |-> f[i]],
           \A i \in DOMAIN s : f[i] \in T
    PROVE  f \in Seq(T)
BY SMT

\* An operation that makes one call (Void, Accept, Close and most others).
LEMMA OneCall ==
    ASSUME NEW T, NEW c \in T
    PROVE  <<c>> \in Seq(T) \ {<<>>}
BY SMT

\* An operation that makes two calls (FinalizeAndSend).
LEMMA TwoCalls ==
    ASSUME NEW T, NEW c \in T, NEW d \in T
    PROVE  <<c, d>> \in Seq(T) \ {<<>>}
BY SMT

\* The call an operation makes next, and those after it.
LEMMA NextCalls ==
    ASSUME NEW T, NEW s \in Seq(T) \ {<<>>}
    PROVE  Head(s) \in T /\ (Len(s) # 1 => Tail(s) \in Seq(T) \ {<<>>})
<1>1. Len(s) \in Nat \ {0}
  BY SMT
<1>2. Head(s) \in T /\ Tail(s) \in Seq(T) /\ Len(Tail(s)) = Len(s) - 1
  BY <1>1, SMT
<1>3. Len(<<>>) = 0
  BY SMT
<1> QED
  BY <1>1, <1>2, <1>3, SMT

\* The calls of every operation on a record (the writes of one call).
LEMMA WritesType ==
    ASSUME AccountType, NEW in \in WriteInput
    PROVE  Writes(in) \subseteq Seq(CallSet) \ {<<>>}
<1>1. in.on \in {"invoice", "quote", "dispute", "promo", "customer", "money"} /\ in.subject \in Subjects
  BY Zenon DEF WriteInput
<1>2. PICK n \in Nat : n = Get(in.subject)
  BY <1>1, Zenon DEF AccountType, Get
<1>3. /\ InvoiceCalls \subseteq CallSet /\ QuoteCalls \subseteq CallSet
      /\ DisputeCalls \subseteq CallSet /\ PromoCalls \subseteq CallSet
      /\ CustomerCalls(n) \subseteq CallSet /\ MoneyCalls(n) \subseteq CallSet
  <2>1. CustomerCalls(n) \subseteq AnyCustomerCalls
    BY Zenon DEF AnyCustomerCalls
  <2>2. MoneyCalls(n) \subseteq AnyMoneyCalls
    BY Zenon DEF AnyMoneyCalls
  <2> QED
    BY <2>1, <2>2, SMT DEF CallSet
<1>4. OnInvoice("invoice") \subseteq Seq(CallSet) \ {<<>>}
  <2>1. /\ Finalize("invoice") \in CallSet /\ SendInvoice("invoice") \in CallSet
        /\ Void("invoice") \in CallSet /\ MarkUncollectible("invoice") \in CallSet
        /\ IssueCreditNote("invoice", 1) \in CallSet
    BY <1>3, Zenon DEF InvoiceCalls
  <2>2. FinalizeAndSend("invoice") \in Seq(CallSet) \ {<<>>}
    BY <2>1, TwoCalls, Zenon DEF FinalizeAndSend
  <2>3. /\ <<Finalize("invoice")>> \in Seq(CallSet) \ {<<>>}
        /\ <<Void("invoice")>> \in Seq(CallSet) \ {<<>>}
        /\ <<MarkUncollectible("invoice")>> \in Seq(CallSet) \ {<<>>}
        /\ <<IssueCreditNote("invoice", 1)>> \in Seq(CallSet) \ {<<>>}
    BY <2>1, OneCall, Zenon
  <2> QED
    BY <2>2, <2>3, Zenon DEF OnInvoice
<1>5. OnQuote("quote") \subseteq Seq(CallSet) \ {<<>>}
  BY <1>3, OneCall, Zenon DEF OnQuote, QuoteCalls
<1>6. OnDispute("dispute") \subseteq Seq(CallSet) \ {<<>>}
  BY <1>3, OneCall, Zenon DEF OnDispute, DisputeCalls
<1>7. OnPromoCode("promo") \subseteq Seq(CallSet) \ {<<>>}
  BY <1>3, OneCall, Zenon DEF OnPromoCode, PromoCalls
<1>8. OnCustomer(in.subject) \subseteq Seq(CallSet) \ {<<>>}
  <2>1. /\ \A c \in Contents : CreateSetupIntent(in.subject, c) \in CustomerCalls(n)
        /\ AttachPaymentMethod(in.subject, "card") \in CustomerCalls(n)
        /\ DetachPaymentMethod("card") \in CustomerCalls(n)
        /\ SetDefaultPaymentMethod(in.subject, "card") \in CustomerCalls(n)
        /\ AddTaxID(in.subject, "vat") \in CustomerCalls(n)
    BY <1>2, Zenon DEF CustomerCalls, CreateSetupIntent, AttachPaymentMethod,
                       SetDefaultPaymentMethod, AddTaxID
  <2> QED
    BY <1>3, <2>1, OneCall, Zenon DEF OnCustomer
<1>9. OnMoney(in.subject) \subseteq Seq(CallSet) \ {<<>>}
  <2>1. /\ \A r \in RefundInputs : Refund(r) \in MoneyCalls(n)
        /\ AdjustCustomerBalance(in.subject, 1) \in MoneyCalls(n)
    BY <1>2, Zenon DEF MoneyCalls, AdjustCustomerBalance
  <2> QED
    BY <1>3, <2>1, OneCall, Zenon DEF OnMoney
<1> QED
  BY <1>1, <1>4, <1>5, <1>6, <1>7, <1>8, <1>9, Zenon DEF Writes

\* What every step of a draft or of a write leaves true.
Filed ==
    /\ AccountType' /\ ForgetInv' /\ OldKeys
    /\ items' \in Seq(ItemType) /\ drafts' \in Nat /\ issued' \in Nat

\* CreateDraft starts with its first line, and starts nothing on invalid input.
LEMMA CreateDraftFiled ==
    ASSUME AccountType, ForgetInv, PaperType, NEW w \in Workers, NEW in \in DraftInput,
           CreateDraft(w, in)
    PROVE  Filed
<1>1. /\ UNCHANGED <<mapping, customers, subs, sessions, inline, keys, grants, expired>>
      /\ UNCHANGED <<items, drafts>>
      /\ issued' = IF Allocates(in) THEN issued + 1 ELSE issued
  BY Zenon DEF CreateDraft, stripeVars
<1>2. PICK n : n = IF Allocates(in) THEN -(issued + 1) ELSE in.number
  BY Zenon
<1>3. in.number \in Nat /\ issued \in Nat
  BY Zenon DEF DraftInput, PaperType
<1>4. n \in Int /\ issued' \in Nat /\ 1 \in Nat
  BY <1>1, <1>2, <1>3, SMT
<1>5. PICK q : q = [op |-> "draft", pc |-> "item", in |-> in, line |-> 1, number |-> n]
  BY Zenon
<1>6. q \in DraftProc /\ q.op = "draft"
  BY <1>4, <1>5, Zenon DEF DraftProc
<1>7. q \in ProcType /\ q.op # "forget"
  BY <1>6, Zenon DEF ProcType
<1>8. proc' = [proc EXCEPT ![w] = q]
  BY <1>2, <1>5, Zenon DEF CreateDraft
<1>9. OldKeys /\ KeysType'
  BY <1>1, Zenon DEF AccountType, OldKeys, KeysType
<1> QED
  BY <1>1, <1>4, <1>7, <1>8, <1>9, LoneSafe, Zenon DEF Filed, PaperType

\* The beginning of a write, which reads the subject's customer.
LEMMA WriteFiled ==
    ASSUME AccountType, ForgetInv, PaperType, NEW w \in Workers, NEW in \in WriteInput, Write(w, in)
    PROVE  Filed
<1>1. /\ UNCHANGED <<mapping, customers, subs, sessions, inline, keys, grants, expired>>
      /\ UNCHANGED <<items, drafts, issued>>
  BY Zenon DEF Write, stripeVars, paperVars
<1>2. PICK cs \in Writes(in) : proc' = [proc EXCEPT ![w] = [op |-> "write", pc |-> "send", calls |-> cs]]
  BY Zenon DEF Write
<1>3. cs \in Seq(CallSet) \ {<<>>}
  BY WritesType, Zenon
<1>4. PICK q : q = [op |-> "write", pc |-> "send", calls |-> cs]
  BY Zenon
<1>5. q \in WriteProc /\ q.op = "write"
  BY <1>3, <1>4, Zenon DEF WriteProc
<1>6. q \in ProcType /\ q.op # "forget"
  BY <1>5, Zenon DEF ProcType
<1>7. OldKeys /\ KeysType'
  BY <1>1, Zenon DEF AccountType, OldKeys, KeysType
<1> QED
  BY <1>1, <1>2, <1>4, <1>6, <1>7, LoneSafe, Zenon DEF Filed, PaperType

\* The return of an error is the end of a draft or a write.
LEMMA PaperFails ==
    ASSUME AccountType, NEW w \in Workers, Failed(w) \/ Return(w), proc[w].op \in {"draft", "write"}
    PROVE  proc' = [proc EXCEPT ![w] = Idle] /\ Idle \in ProcType /\ Idle.op \notin {"forget", "draft"}
<1>1. PICK p \in ProcType : p = proc[w]
  BY Zenon DEF AccountType
<1>2. AfterError(p) = Idle
  BY <1>1, AfterErrorType, Zenon
<1>3. Failed(w) => proc' = [proc EXCEPT ![w] = AfterError(p)]
  BY <1>1, Zenon DEF Failed
<1> QED
  BY <1>2, <1>3, IdleFields, Zenon DEF Return, ProcType

\* A line of a draft (invoice_backend.go's invoice item call), answered, replayed or lost,
\* keeps the types and adds only its own key.
LEMMA CreateItemFiled ==
    ASSUME AccountType, ForgetInv, PaperType, NEW w \in Workers, CreateItem(w)
    PROVE  Filed
<1>1. PICK p : p = proc[w]
  BY Zenon
<1>2. p \in ProcType /\ p.op = "draft"
  BY <1>1, Zenon DEF AccountType, CreateItem, At
<1>3. p \in DraftProc
  BY <1>2, ByOp, Zenon
<1>4. p.in \in DraftInput /\ p.line \in Nat
  BY <1>3, Zenon DEF DraftProc
<1>5. p.in.req \in STRING /\ p.in.customer \in Nat
  BY <1>4, Zenon DEF DraftInput
<1>6. PICK key : key = ItemKey(p)
  BY Zenon
<1>7. PICK e : e = [for |-> p.in.req, line |-> p.line, customer |-> p.in.customer, invoice |-> 0]
  BY Zenon
<1>8. e \in ItemType
  <2>1. 0 \in Nat
    BY SMT
  <2> QED
    BY <1>4, <1>5, <1>7, <2>1, Zenon DEF ItemType
<1>9. items' = IF Known(key) THEN items ELSE Append(items, e)
  BY <1>1, <1>6, <1>7, Zenon DEF CreateItem
<1>10. /\ Remember(key, "", 1)
       /\ UNCHANGED <<mapping, customers, subs, sessions, inline, grants, expired, drafts, issued>>
  BY <1>1, <1>6, Zenon DEF CreateItem
<1>11. items' \in Seq(ItemType)
  <2>1. items \in Seq(ItemType)
    BY Zenon DEF PaperType
  <2>2. Append(items, e) \in Seq(ItemType)
    BY <1>8, <2>1, AppendType, Zenon
  <2> QED
    BY <1>9, <2>1, <2>2, Zenon
<1>12. OldKeys /\ KeysType'
  <2>1. 1 \in Nat
    BY SMT
  <2> QED
    BY <1>10, <2>1, RemembersType, Zenon DEF AccountType
<1>13. PICK q \in ProcType : proc' = [proc EXCEPT ![w] = q] /\ q.op # "forget"
  <2>1. CASE Failed(w)
    BY <1>1, <1>2, <2>1, PaperFails, Zenon
  <2>2. CASE proc' = [proc EXCEPT ![w] = [p EXCEPT !.line = @ + 1]]
    <3>1. p.line + 1 \in Nat
      BY <1>4, SMT
    <3>2. PICK q : q = [p EXCEPT !.line = @ + 1]
      BY Zenon
    <3>3. q \in DraftProc /\ q.op = "draft"
      BY <1>3, <3>1, <3>2, Zenon DEF DraftProc
    <3> QED
      BY <2>2, <3>2, <3>3, Zenon DEF ProcType
  <2>3. CASE proc' = [proc EXCEPT ![w] = [p EXCEPT !.pc = "invoice"]]
    <3>1. PICK q : q = [p EXCEPT !.pc = "invoice"]
      BY Zenon
    <3>2. q \in DraftProc /\ q.op = "draft"
      BY <1>3, <3>1, Zenon DEF DraftProc
    <3> QED
      BY <2>3, <3>1, <3>2, Zenon DEF ProcType
  <2> QED
    BY <1>1, <2>1, <2>2, <2>3, Zenon DEF CreateItem, Reply
<1> QED
  BY <1>10, <1>11, <1>12, <1>13, LoneSafe, Zenon DEF Filed, PaperType

\* The invoice call that follows the lines keeps the types and adds only its own key.
LEMMA CreateInvoiceFiled ==
    ASSUME AccountType, ForgetInv, PaperType, NEW w \in Workers, CreateInvoice(w)
    PROVE  Filed
<1>1. PICK p : p = proc[w]
  BY Zenon
<1>2. p.op = "draft"
  BY <1>1, Zenon DEF CreateInvoice, At
<1>3. PICK key : key = KeyFor("invoice.create_draft", <<p.in.customer, p.number>>)
  BY Zenon
<1>4. /\ Remember(key, "", 1)
      /\ drafts' = IF Known(key) THEN drafts ELSE drafts + 1
      /\ UNCHANGED <<mapping, customers, subs, sessions, inline, grants, expired, issued>>
      /\ Return(w) \/ Failed(w)
  BY <1>1, <1>3, Zenon DEF CreateInvoice, KeyFor
<1>5. drafts' \in Nat /\ 1 \in Nat
  <2>1. drafts \in Nat
    BY Zenon DEF PaperType
  <2>2. drafts' = drafts \/ drafts' = drafts + 1
    BY <1>4, Zenon
  <2> QED
    BY <2>1, <2>2, SMT
<1>6. items' \in Seq(ItemType)
  <2>1. items' = [i \in DOMAIN items |->
                     IF /\ ~Known(key) /\ pending = "include"
                        /\ items[i].customer = p.in.customer /\ items[i].invoice = 0
                     THEN [items[i] EXCEPT !.invoice = drafts'] ELSE items[i]]
    BY <1>1, <1>3, Zenon DEF CreateInvoice, KeyFor
  <2>2. PICK t : t = items'
    BY Zenon
  <2>3. items \in Seq(ItemType) /\ \A i \in DOMAIN items : items[i] \in ItemType
    BY SeqElement, Zenon DEF PaperType
  <2>4. t = [i \in DOMAIN items |-> t[i]]
    BY <2>1, <2>2, Zenon
  <2>5. ASSUME NEW i \in DOMAIN items
        PROVE  t[i] \in ItemType
    <3>1. PICK e : e = items[i] /\ e \in ItemType
      BY <2>3, Zenon
    <3>2. [e EXCEPT !.invoice = drafts'] \in ItemType
      BY <1>5, <3>1, Zenon DEF ItemType
    <3> QED
      BY <2>1, <2>2, <3>1, <3>2, Zenon
  <2> QED
    BY <2>2, <2>3, <2>4, <2>5, SeqOver, Zenon
<1>7. OldKeys /\ KeysType'
  BY <1>4, <1>5, RemembersType, Zenon DEF AccountType
<1>8. proc' = [proc EXCEPT ![w] = Idle] /\ Idle \in ProcType /\ Idle.op # "forget"
  BY <1>1, <1>2, <1>4, PaperFails, Zenon
<1> QED
  BY <1>4, <1>5, <1>6, <1>7, <1>8, LoneSafe, Zenon DEF Filed, PaperType

\* A worker with a write sends its next call or is done.
Sends(w) ==
    \E q \in ProcType : proc' = [proc EXCEPT ![w] = q] /\ q.op \notin {"forget", "draft"}

\* An operation goes on to its next call, fails or returns.
LEMMA ProceedSends ==
    ASSUME AccountType, NEW w \in Workers, At(w, "write", "send"),
           Proceed(w) \/ Failed(w) \/ Return(w)
    PROVE  Sends(w)
<1>1. PICK p : p = proc[w]
  BY Zenon
<1>2. p \in ProcType /\ p.op = "write"
  BY <1>1, Zenon DEF AccountType, At
<1>3. CASE Failed(w) \/ Return(w)
  BY <1>1, <1>2, <1>3, PaperFails, Zenon DEF Sends
<1>4. CASE Proceed(w)
  <2>1. p \in WriteProc
    BY <1>2, ByOp, Zenon
  <2>2. p.calls \in Seq(CallSet) \ {<<>>}
    BY <2>1, Zenon DEF WriteProc
  <2>3. proc' = [proc EXCEPT ![w] = IF Len(proc[w].calls) = 1 THEN Idle
                                    ELSE [proc[w] EXCEPT !.calls = Tail(@)]]
    BY <1>4, Zenon DEF Proceed
  <2>4. CASE Len(p.calls) = 1
    <3>1. proc' = [proc EXCEPT ![w] = Idle]
      BY <1>1, <2>3, <2>4, Zenon
    <3> QED
      BY <3>1, IdleFields, Zenon DEF ProcType, Sends
  <2>5. CASE Len(p.calls) # 1
    <3>1. Tail(p.calls) \in Seq(CallSet) \ {<<>>}
      BY <2>2, <2>5, NextCalls, Zenon
    <3>2. PICK q : q = [p EXCEPT !.calls = Tail(p.calls)]
      BY Zenon
    <3>3. proc' = [proc EXCEPT ![w] = q]
      BY <1>1, <2>3, <2>5, <3>2, Zenon
    <3>4. q \in WriteProc /\ q.op = "write"
      BY <2>1, <3>1, <3>2, Zenon DEF WriteProc
    <3> QED
      BY <3>3, <3>4, Zenon DEF ProcType, Sends
  <2> QED
    BY <2>4, <2>5, Zenon
<1> QED
  BY <1>3, <1>4, Zenon

\* A write to a record, performed, replayed or refused by Stripe, keeps the types and adds
\* only its own key.
LEMMA WriteStepFiled ==
    ASSUME AccountType, ForgetInv, PaperType, NEW w \in Workers,
           Performed(w) \/ Replayed(w) \/ Rejected(w)
    PROVE  Filed
<1>1. /\ UNCHANGED <<mapping, customers, subs, sessions, inline, grants, expired>>
      /\ UNCHANGED <<items, drafts, issued>>
      /\ At(w, "write", "send")
      /\ Proceed(w) \/ Failed(w) \/ Return(w)
  BY Zenon DEF Performed, Replayed, Rejected, stripeVars, paperVars
<1>2. PICK c : c = Current(w)
  BY Zenon
<1>3. PICK id \in {0, 1} : UNCHANGED keys \/ Remember(c.key, c.params, id)
  BY <1>2, Zenon DEF Performed, Replayed, Rejected, stripeVars
<1>4. id \in Nat
  BY <1>3, SMT
<1>5. OldKeys /\ KeysType'
  <2>1. CASE UNCHANGED keys
    BY <2>1, Zenon DEF AccountType, OldKeys, KeysType
  <2>2. CASE Remember(c.key, c.params, id)
    BY <1>4, <2>2, RemembersType, Zenon DEF AccountType
  <2> QED
    BY <1>3, <2>1, <2>2, Zenon
<1>6. Sends(w)
  BY <1>1, ProceedSends, Zenon
<1> QED
  BY <1>1, <1>5, <1>6, LoneSafe, Zenon DEF Filed, PaperType, Sends

\* What the customer or the bank decides is no step of a worker.
LEMMA DecidedFiled ==
    ASSUME AccountType, ForgetInv, PaperType, NEW r, Decided(r)
    PROVE  Filed
<1>1. UNCHANGED accountVars /\ UNCHANGED <<items, drafts, issued>>
  BY Zenon DEF Decided
<1>2. UNCHANGED <<mapping, customers, subs, sessions, inline, keys, grants, proc, expired>>
  BY <1>1, Zenon DEF accountVars, stripeVars
<1>3. OldKeys /\ KeysType'
  BY <1>2, Zenon DEF AccountType, OldKeys, KeysType
<1>4. ForgetInv'
  BY <1>2, SameGrants, ForgetKept, Zenon
<1> QED
  BY <1>1, <1>2, <1>3, <1>4, Zenon DEF AccountType, Filed, PaperType

-----------------------------------------------------------------------------
(* Any step of the customer operations, and what it leaves of customers.   *)

\* A step of one worker's customer operation.
AccountStep(w) ==
    \/ CreateCustomer(w) \/ resolveCustomer(w) \/ createAdHocCustomPrice(w)
    \/ CreateCheckoutSession(w) \/ archiveOrphanAdHocPrices(w)
    \/ buildAddInvoiceItemParams(w) \/ CreateSubscription(w) \/ archiveOrphanProducts(w)
    \/ cancelActiveSubscriptions(w) \/ ForgetRevokes(w) \/ ForgetDeletes(w)
    \/ ImportStamps(w) \/ ImportUpserts(w) \/ backfillSubscriptions(w)
    \/ Fails(w)

\* Every step of Checkout, Forget and ImportCustomer keeps what erasures rest on.
LEMMA AccountSafe ==
    ASSUME AccountType, ForgetInv, NEW w \in Workers, AccountStep(w)
    PROVE  Safe(w) /\ UNCHANGED expired
<1>1. CASE CreateCustomer(w)
  <2>1. Step(w) /\ UNCHANGED <<grants, expired>>
    BY <1>1, CreateCustomerType, Zenon DEF CreateCustomer
  <2> QED
    BY <2>1, StepSafe, Zenon
<1>2. CASE resolveCustomer(w)
  <2>1. Step(w) /\ UNCHANGED <<grants, expired>>
    BY <1>2, ResolveCustomerType, Zenon DEF resolveCustomer
  <2> QED
    BY <2>1, StepSafe, Zenon
<1>3. CASE createAdHocCustomPrice(w)
  <2>1. Step(w) /\ UNCHANGED <<grants, expired>>
    BY <1>3, AdHocType, Zenon DEF createAdHocCustomPrice
  <2> QED
    BY <2>1, StepSafe, Zenon
<1>4. CASE CreateCheckoutSession(w)
  <2>1. Step(w) /\ UNCHANGED <<grants, expired>>
    BY <1>4, CreateSessionType, Zenon DEF CreateCheckoutSession
  <2> QED
    BY <2>1, StepSafe, Zenon
<1>5. CASE archiveOrphanAdHocPrices(w) \/ archiveOrphanProducts(w)
  <2>1. Step(w) /\ UNCHANGED <<grants, expired>>
    BY <1>5, ArchiveType, Zenon DEF archiveOrphanAdHocPrices, archiveOrphanProducts
  <2> QED
    BY <2>1, StepSafe, Zenon
<1>6. CASE buildAddInvoiceItemParams(w)
  <2>1. Step(w) /\ UNCHANGED <<grants, expired>>
    BY <1>6, SetupFeeType, Zenon DEF buildAddInvoiceItemParams
  <2> QED
    BY <2>1, StepSafe, Zenon
<1>7. CASE CreateSubscription(w)
  <2>1. Step(w) /\ UNCHANGED <<grants, expired>>
    BY <1>7, SubscribeType, Zenon DEF CreateSubscription
  <2> QED
    BY <2>1, StepSafe, Zenon
<1>8. CASE cancelActiveSubscriptions(w)
  BY <1>8, CancelSafe, Zenon DEF cancelActiveSubscriptions
<1>9. CASE ForgetRevokes(w)
  BY <1>9, RevokeSafe, Zenon DEF ForgetRevokes
<1>10. CASE ForgetDeletes(w)
  BY <1>10, DeleteSafe, Zenon DEF ForgetDeletes
<1>11. CASE ImportStamps(w)
  <2>1. Step(w) /\ UNCHANGED <<grants, expired>>
    BY <1>11, StampType, Zenon DEF ImportStamps
  <2> QED
    BY <2>1, StepSafe, Zenon
<1>12. CASE ImportUpserts(w)
  <2>1. Step(w) /\ UNCHANGED <<grants, expired>>
    BY <1>12, ImportType, Zenon DEF ImportUpserts
  <2> QED
    BY <2>1, StepSafe, Zenon
<1>13. CASE backfillSubscriptions(w)
  <2>1. Step(w) /\ UNCHANGED <<grants, expired>>
    BY <1>13, BackfillType, Zenon DEF backfillSubscriptions
  <2> QED
    BY <2>1, StepSafe, Zenon
<1>14. CASE Fails(w)
  <2>1. Step(w) /\ UNCHANGED <<grants, expired>>
    BY <1>14, FailsType, Zenon DEF Fails
  <2> QED
    BY <2>1, StepSafe, Zenon
<1> QED
  BY <1>1, <1>2, <1>3, <1>4, <1>5, <1>6, <1>7, <1>8, <1>9, <1>10, <1>11, <1>12, <1>13, <1>14,
     Zenon DEF AccountStep

\* Nobody gets a new customer, and nobody's customer becomes another's.
SameFor ==
    /\ DOMAIN customers' = DOMAIN customers
    /\ \A c \in DOMAIN customers : customers'[c].for = customers[c].for

\* While Stripe remembers keys, what is true of the customers stays true of them.
LEMMA CustomerKept ==
    ASSUME CustomerInv, SameFor, OldKeys \/ expired', expired => expired'
    PROVE  CustomerInv'
BY Zenon DEF CustomerInv, SameFor, OldKeys, SubjectKey

\* A first checkout makes a customer only for a subject whose key is not known
\* (CreateCustomer in stripeapi/checkout_backend.go).
LEMMA CustomerMade ==
    ASSUME AccountType, CustomerInv, NEW w \in Workers, CreateCustomer(w), Safe(w)
    PROVE  CustomerInv'
<1>1. PICK s : s = proc[w].in.subject
  BY Zenon
<1>2. PICK key : key = SubjectKey(s)
  BY Zenon
<1>3. OldKeys /\ UNCHANGED expired
  BY Zenon DEF CreateCustomer, Safe, NewKeys
<1>4. CASE UNCHANGED customers
  BY <1>3, <1>4, CustomerKept, Zenon DEF SameFor
<1>5. CASE ~UNCHANGED customers
  <2>1. PICK e : e = [for |-> s, ns |-> OwnNs, deleted |-> FALSE]
    BY Zenon
  <2>2. /\ ~Known(key) /\ customers' = Append(customers, e)
        /\ key \in DOMAIN keys'
    <3>1. CustomerKey(proc[w].in) = key
      BY <1>1, <1>2, Zenon DEF CustomerKey, SubjectKey
    <3>2. PICK params, id : Remember(key, params, id)
      BY <1>5, <3>1, Zenon DEF CreateCustomer
    <3>3. ~Known(key) /\ customers' = Append(customers, e)
      BY <1>1, <1>5, <2>1, <3>1, Zenon DEF CreateCustomer
    <3> QED
      BY <3>2, <3>3, Remembers, Zenon
  <2>3. /\ e.for = s
        /\ customers \in Seq(CustomerType) /\ customers' \in Seq(CustomerType)
    BY <2>1, Zenon DEF Safe, AccountType
  <2>4. PICK n : n = Len(customers) + 1
    BY Zenon
  <2>5. /\ DOMAIN customers' = DOMAIN customers \cup {n}
        /\ \A c \in DOMAIN customers : customers'[c] = customers[c]
        /\ customers'[n] = e
    BY <2>2, <2>3, <2>4, SMT
  <2>6. CASE expired
    BY <1>3, <2>6, Zenon DEF CustomerInv
  <2>7. CASE ~expired
    <3>1. \A c \in DOMAIN customers : customers[c].for = s => s \notin Subjects
      BY <1>2, <2>2, <2>7, Zenon DEF CustomerInv, Known
    <3>2. ASSUME NEW t \in Subjects, NEW c \in DOMAIN customers', customers'[c].for = t
          PROVE  /\ SubjectKey(t) \in DOMAIN keys'
                 /\ \A d \in DOMAIN customers' : customers'[d].for = t => d = c
      <4>1. CASE c = n
        BY <1>2, <2>2, <2>3, <2>5, <3>1, <3>2, <4>1, Zenon
      <4>2. CASE c # n
        <5>1. c \in DOMAIN customers /\ customers[c].for = t /\ t # s
          BY <2>5, <3>1, <3>2, <4>2, Zenon
        <5>2. /\ SubjectKey(t) \in DOMAIN keys
              /\ \A d \in DOMAIN customers : customers[d].for = t => d = c
          BY <2>7, <5>1, Zenon DEF CustomerInv
        <5> QED
          BY <1>3, <2>3, <2>5, <5>1, <5>2, Zenon DEF OldKeys
      <4> QED
        BY <4>1, <4>2, Zenon
    <3> QED
      BY <3>2, Zenon DEF CustomerInv, SubjectKey
  <2> QED
    BY <2>6, <2>7, Zenon
<1> QED
  BY <1>4, <1>5, Zenon

\* Only a first checkout makes a customer: stamping and deleting one leave whose it is.
LEMMA AccountCustomers ==
    ASSUME AccountType, ForgetInv, CustomerInv, NEW w \in Workers, AccountStep(w)
    PROVE  CustomerInv'
<1>1. Safe(w) /\ UNCHANGED expired
  BY AccountSafe, Zenon
<1>2. OldKeys
  BY <1>1, Zenon DEF Safe, NewKeys
<1>3. CASE CreateCustomer(w)
  BY <1>1, <1>3, CustomerMade, Zenon
<1>4. CASE ForgetDeletes(w)
  <2>1. PICK c : c = proc[w].customer
    BY Zenon
  <2>2. PICK e : e = [customers[c] EXCEPT !.deleted = TRUE]
    BY Zenon
  <2>3. UNCHANGED customers \/ customers' = [customers EXCEPT ![c] = e]
    BY <1>4, <2>1, <2>2, Zenon DEF ForgetDeletes
  <2>4. CASE UNCHANGED customers
    BY <1>1, <1>2, <2>4, CustomerKept, Zenon DEF SameFor
  <2>5. CASE customers' = [customers EXCEPT ![c] = e]
    <3>1. SameFor
      <4>1. ASSUME NEW d \in DOMAIN customers PROVE customers'[d].for = customers[d].for
        <5>1. customers[d] \in CustomerType
          BY SeqElement, Zenon DEF AccountType
        <5>2. d = c => e.for = customers[d].for
          BY <2>2, <5>1, Zenon DEF CustomerType
        <5> QED
          BY <2>5, <5>2, Zenon
      <4> QED
        BY <2>5, <4>1, Zenon DEF SameFor
    <3> QED
      BY <1>1, <1>2, <3>1, CustomerKept, Zenon
  <2> QED
    BY <2>3, <2>4, <2>5, Zenon
<1>5. CASE ImportStamps(w)
  <2>1. PICK c : c = proc[w].customer
    BY Zenon
  <2>2. PICK e : e = [customers[c] EXCEPT !.ns = OwnNs]
    BY Zenon
  <2>3. UNCHANGED customers \/ customers' = [customers EXCEPT ![c] = e]
    BY <1>5, <2>1, <2>2, Zenon DEF ImportStamps
  <2>4. CASE UNCHANGED customers
    BY <1>1, <1>2, <2>4, CustomerKept, Zenon DEF SameFor
  <2>5. CASE customers' = [customers EXCEPT ![c] = e]
    <3>1. SameFor
      <4>1. ASSUME NEW d \in DOMAIN customers PROVE customers'[d].for = customers[d].for
        <5>1. customers[d] \in CustomerType
          BY SeqElement, Zenon DEF AccountType
        <5>2. d = c => e.for = customers[d].for
          BY <2>2, <5>1, Zenon DEF CustomerType
        <5> QED
          BY <2>5, <5>2, Zenon
      <4> QED
        BY <2>5, <4>1, Zenon DEF SameFor
    <3> QED
      BY <1>1, <1>2, <3>1, CustomerKept, Zenon
  <2> QED
    BY <2>3, <2>4, <2>5, Zenon
<1>6. CASE ~CreateCustomer(w) /\ ~ForgetDeletes(w) /\ ~ImportStamps(w)
  <2>1. UNCHANGED customers
    <3>1. CASE resolveCustomer(w) \/ createAdHocCustomPrice(w) \/ CreateCheckoutSession(w)
      BY <3>1, Zenon DEF resolveCustomer, createAdHocCustomPrice, CreateCheckoutSession, stripeVars
    <3>2. CASE \/ archiveOrphanAdHocPrices(w) \/ archiveOrphanProducts(w)
               \/ buildAddInvoiceItemParams(w) \/ CreateSubscription(w)
      BY <3>2, Zenon DEF archiveOrphanAdHocPrices, archiveOrphanProducts,
                         buildAddInvoiceItemParams, CreateSubscription
    <3>3. CASE cancelActiveSubscriptions(w) \/ ForgetRevokes(w)
      BY <3>3, Zenon DEF cancelActiveSubscriptions, ForgetRevokes, stripeVars
    <3>4. CASE ImportUpserts(w) \/ backfillSubscriptions(w) \/ Fails(w)
      BY <3>4, Zenon DEF ImportUpserts, backfillSubscriptions, Fails, stripeVars
    <3> QED
      BY <1>6, <3>1, <3>2, <3>3, <3>4, Zenon DEF AccountStep
  <2> QED
    BY <1>1, <1>2, <2>1, CustomerKept, Zenon DEF SameFor
<1> QED
  BY <1>3, <1>4, <1>5, <1>6, Zenon

\* What holds in every state, for the customers and the erasures.
BInv == AccountType /\ ForgetInv /\ CustomerInv /\ PaperType

\* The steps of the accounts keep the invariant.
LEMMA AccountsKeep ==
    ASSUME BInv, AccountsNext, UNCHANGED paperVars, UNCHANGED calls
    PROVE  BInv'
<1>1. PaperType'
  BY Zenon DEF BInv, PaperType, paperVars
<1>2. CASE \E w \in Workers : AccountStep(w)
  <2>1. PICK w \in Workers : AccountStep(w)
    BY <1>2, Zenon
  <2>2. Safe(w)
    BY <2>1, AccountSafe, Zenon DEF BInv
  <2>3. CustomerInv'
    BY <2>1, AccountCustomers, Zenon DEF BInv
  <2> QED
    BY <1>1, <2>2, <2>3, Zenon DEF BInv, Safe
<1>3. ASSUME StripeSafe, UNCHANGED customers, keys' = keys \/ expired', expired => expired'
      PROVE  BInv'
  <2>1. OldKeys \/ expired'
    BY <1>3, Zenon DEF OldKeys
  <2>2. CustomerInv'
    BY <1>3, <2>1, CustomerKept, Zenon DEF BInv, SameFor
  <2> QED
    BY <1>1, <1>3, <2>2, Zenon DEF BInv, StripeSafe
<1>4. CASE \E i \in DOMAIN sessions : Pay(i)
  <2>1. StripeSafe
    BY <1>4, PaySafe, Zenon DEF BInv
  <2>2. UNCHANGED <<customers, keys, expired>>
    BY <1>4, Zenon DEF Pay
  <2> QED
    BY <1>3, <2>1, <2>2, Zenon
<1>5. CASE \E i \in DOMAIN sessions : GrantFromCheckout(i)
  <2>1. StripeSafe
    BY <1>5, GrantSafe, Zenon DEF BInv
  <2>2. UNCHANGED <<customers, keys, expired>>
    BY <1>5, Zenon DEF GrantFromCheckout
  <2> QED
    BY <1>3, <2>1, <2>2, Zenon
<1>6. CASE KeysExpire
  <2>1. StripeSafe
    BY <1>6, ExpireSafe, Zenon DEF BInv
  <2>2. UNCHANGED customers /\ expired'
    BY <1>6, Zenon DEF KeysExpire
  <2> QED
    BY <1>3, <2>1, <2>2, Zenon
<1> QED
  BY <1>2, <1>4, <1>5, <1>6, Zenon DEF AccountsNext, AccountStep

\* A step of a draft or a write touches no customer.
LEMMA FiledKeeps ==
    ASSUME BInv, Filed, UNCHANGED <<customers, expired>>, calls' \in Seq(SUBSET Input)
    PROVE  BInv'
<1>1. CustomerInv'
  BY CustomerKept, Zenon DEF BInv, Filed, SameFor
<1> QED
  BY <1>1, Zenon DEF BInv, Filed, PaperType

\* The steps of drafts and writes keep the invariant.
LEMMA PaperKeeps ==
    ASSUME BInv, PaperNext, UNCHANGED calls
    PROVE  BInv'
<1>1. calls' \in Seq(SUBSET Input)
  BY Zenon DEF BInv, PaperType
<1>2. ASSUME Filed, UNCHANGED <<customers, expired>>
      PROVE  BInv'
  BY <1>1, <1>2, FiledKeeps, Zenon
<1>3. CASE \E w \in Workers : CreateItem(w)
  <2>1. Filed /\ UNCHANGED <<customers, expired>>
    BY <1>3, CreateItemFiled, Zenon DEF BInv, CreateItem
  <2> QED
    BY <1>2, <2>1, Zenon
<1>4. CASE \E w \in Workers : CreateInvoice(w)
  <2>1. Filed /\ UNCHANGED <<customers, expired>>
    BY <1>4, CreateInvoiceFiled, Zenon DEF BInv, CreateInvoice
  <2> QED
    BY <1>2, <2>1, Zenon
<1>5. CASE \E w \in Workers : Performed(w) \/ Replayed(w) \/ Rejected(w)
  <2>1. Filed
    BY <1>5, WriteStepFiled, Zenon DEF BInv
  <2>2. UNCHANGED <<customers, expired>>
    BY <1>5, Zenon DEF Performed, Replayed, Rejected, stripeVars
  <2> QED
    BY <1>2, <2>1, <2>2, Zenon
<1>6. CASE \E r \in DOMAIN Decisions : Decided(r)
  <2>1. Filed
    BY <1>6, DecidedFiled, Zenon DEF BInv
  <2>2. UNCHANGED <<customers, expired>>
    BY <1>6, Zenon DEF Decided, accountVars, stripeVars
  <2> QED
    BY <1>2, <2>1, <2>2, Zenon
<1> QED
  BY <1>3, <1>4, <1>5, <1>6, Zenon DEF PaperNext

\* The operation says what an app asked for.
LEMMA InputByOp ==
    ASSUME NEW in \in Input
    PROVE  (in.op = "draft" => in \in DraftInput) /\ (in.op = "write" => in \in WriteInput)
<1>1. in \in CheckoutInput => in.op = "checkout"
  BY Zenon DEF CheckoutInput
<1>2. in \in InvoicedInput => in.op = "invoiced"
  BY Zenon DEF InvoicedInput
<1>3. in \in ForgetInput => in.op = "forget"
  BY Zenon DEF ForgetInput
<1>4. in \in ImportInput => in.op = "import"
  BY Zenon DEF ImportInput
<1>5. in \in DraftInput => in.op = "draft"
  BY Zenon DEF DraftInput
<1>6. in \in WriteInput => in.op = "write"
  BY Zenon DEF WriteInput
<1> QED
  BY <1>1, <1>2, <1>3, <1>4, <1>5, <1>6, Zenon DEF Input

\* The app's next call keeps the invariant.
LEMMA BeginKeeps ==
    ASSUME BInv, calls # <<>>, NEW w \in Workers, NEW in \in Head(calls), BeginCall(w, in),
           calls' = Tail(calls)
    PROVE  BInv'
<1>1. calls \in Seq(SUBSET Input)
  BY Zenon DEF BInv, PaperType
<1>2. Head(calls) \in SUBSET Input /\ Tail(calls) \in Seq(SUBSET Input)
  BY <1>1, SMT
<1>3. in \in Input /\ calls' \in Seq(SUBSET Input)
  BY <1>2, Zenon
<1>4. CASE Begin(w, in) /\ UNCHANGED paperVars
  <2>1. Safe(w)
    BY <1>3, <1>4, BeginSafe, Zenon DEF BInv
  <2>2. UNCHANGED <<customers, expired>>
    BY <1>4, Zenon DEF Begin, CreateSession, CreateInvoiced, Forget, ImportCustomer, stripeVars
  <2>3. CustomerInv'
    BY <2>1, <2>2, CustomerKept, Zenon DEF BInv, Safe, NewKeys, SameFor
  <2> QED
    BY <1>3, <1>4, <2>1, <2>3, Zenon DEF BInv, Safe, PaperType, paperVars
<1>5. CASE in.op = "draft" /\ CreateDraft(w, in)
  <2>1. in \in DraftInput
    BY <1>3, <1>5, InputByOp, Zenon
  <2>2. Filed
    BY <1>5, <2>1, CreateDraftFiled, Zenon DEF BInv
  <2>3. UNCHANGED <<customers, expired>>
    BY <1>5, Zenon DEF CreateDraft, stripeVars
  <2> QED
    BY <1>3, <2>2, <2>3, FiledKeeps, Zenon
<1>6. CASE in.op = "write" /\ Write(w, in)
  <2>1. in \in WriteInput
    BY <1>3, <1>6, InputByOp, Zenon
  <2>2. Filed
    BY <1>6, <2>1, WriteFiled, Zenon DEF BInv
  <2>3. UNCHANGED <<customers, expired>>
    BY <1>6, Zenon DEF Write, stripeVars
  <2> QED
    BY <1>3, <2>2, <2>3, FiledKeeps, Zenon
<1> QED
  BY <1>4, <1>5, <1>6, Zenon DEF BeginCall

\* A step that leaves the customers and the records leaves what is true of them.
LEMMA BInvStutters ==
    ASSUME BInv, UNCHANGED <<accountVars, paperVars, calls>>
    PROVE  BInv'
<1>1. UNCHANGED <<mapping, customers, subs, sessions, inline, keys, grants, proc, expired>>
  BY Zenon DEF accountVars, stripeVars
<1>2. UNCHANGED <<items, drafts, issued, calls>>
  BY Zenon DEF paperVars
<1>3. AccountType' /\ PaperType'
  BY <1>1, <1>2, Zenon DEF BInv, AccountType, PaperType, KeysType
<1>4. ForgetInv'
  BY <1>1, SameGrants, ForgetKept, Zenon DEF BInv
<1>5. CustomerInv'
  BY <1>1, CustomerKept, Zenon DEF BInv, SameFor, OldKeys
<1> QED
  BY <1>3, <1>4, <1>5, Zenon DEF BInv

\* The invariant is inductive.
LEMMA BInvStep ==
    ASSUME BInv, [Next]_vars
    PROVE  BInv'
<1>1. CASE calls # <<>> /\ (\E w \in Workers, in \in Head(calls) : BeginCall(w, in)) /\ calls' = Tail(calls)
  BY <1>1, BeginKeeps, Zenon
<1>2. CASE AccountsNext /\ UNCHANGED <<paperVars, calls>>
  BY <1>2, AccountsKeep, Zenon
<1>3. CASE PaperNext /\ UNCHANGED calls
  BY <1>3, PaperKeeps, Zenon
<1>4. CASE UNCHANGED <<accountVars, paperVars, calls>>
  BY <1>4, BInvStutters, Zenon
<1> QED
  BY <1>1, <1>2, <1>3, <1>4, Zenon DEF Next, vars

\* The program starts over customers that no subject was given yet.
LEMMA BInvInit ==
    ASSUME Init
    PROVE  BInv
<1>1. PICK sc \in Scenarios : AccountsInit(sc.mapped, sc.faults) /\ PaperInit(sc.pending) /\ calls = sc.calls
  BY Zenon DEF Init
<1>2. mapping \in [Subjects -> Nat] /\ calls \in Seq(SUBSET Input) /\ "" \notin Subjects
  BY <1>1, BillingAssumption, Zenon DEF AccountsInit
<1>3. PICK a, b : /\ a \in CustomerType /\ b \in CustomerType /\ a.for = "" /\ b.for = ""
                  /\ customers = <<a, b>>
  <2>1. PICK a : a = [for |-> "", ns |-> IF \E s \in Subjects : sc.mapped[s] = 1 THEN OwnNs ELSE "",
                      deleted |-> FALSE]
    BY Zenon
  <2>2. PICK b : b = [for |-> "", ns |-> "other", deleted |-> FALSE]
    BY Zenon
  <2>3. a \in CustomerType /\ b \in CustomerType /\ a.for = "" /\ b.for = ""
    BY <2>1, <2>2, Zenon DEF CustomerType
  <2>4. customers = <<a, b>>
    BY <1>1, <2>1, <2>2, Zenon DEF AccountsInit
  <2> QED
    BY <2>3, <2>4, Zenon
<1>4. /\ customers \in Seq(CustomerType)
      /\ \A c \in DOMAIN customers : customers[c] = a \/ customers[c] = b
  <2>1. a \in CustomerType /\ b \in CustomerType /\ customers = <<a, b>>
    BY <1>3, Zenon
  <2> QED
    BY <2>1, SMT
<1>5. subs \in Seq(SubType)
  <2>1. PICK e : e = [customer |-> 1, live |-> TRUE, ns |-> "", inline |-> 0]
    BY Zenon
  <2>2. 0 \in Nat /\ 1 \in Nat
    BY SMT
  <2>3. e \in SubType
    BY <2>1, <2>2, Zenon DEF SubType
  <2>4. subs = <<e>>
    BY <1>1, <2>1, Zenon DEF AccountsInit
  <2> QED
    BY <2>3, <2>4, OneCall, Zenon
<1>6. /\ sessions = <<>> /\ inline = <<>> /\ keys = <<>> /\ grants = <<>> /\ expired = FALSE
      /\ proc = [w \in Workers |-> Idle] /\ items = <<>> /\ drafts = 0 /\ issued = 0
  BY <1>1, Zenon DEF AccountsInit, PaperInit
<1>7. DOMAIN <<>> = {} /\ (\A T : <<>> \in Seq(T)) /\ 0 \in Nat
  BY SMT
<1>8. AccountType
  BY <1>2, <1>4, <1>5, <1>6, <1>7, Zenon DEF AccountType, KeysType, ProcType
<1>9. PaperType
  BY <1>2, <1>6, <1>7, Zenon DEF PaperType
<1>10. ForgetInv
  BY <1>6, IdleFields, Zenon DEF ForgetInv
<1>11. CustomerInv
  BY <1>2, <1>3, <1>4, Zenon DEF CustomerInv
<1> QED
  BY <1>8, <1>9, <1>10, <1>11, Zenon DEF BInv

\* A subject gets one Stripe customer while Stripe remembers keys, with any number of
\* first checkouts, erasures and imports at once and whatever call fails
\* (resolveCustomer and CreateCustomer's key).
THEOREM OneCustomerEach == Spec => []OneCustomer
<1>1. BInv => OneCustomer
  BY Zenon DEF BInv, CustomerInv, OneCustomer
<1> QED
  BY <1>1, BInvInit, BInvStep, PTL DEF Spec

\* Forget deletes the customer only when every grant that the subject had is revoked
\* (the order of Forget's steps and its early returns).
THEOREM ErasureRevokesFirst == Spec => DeletedLast
<1>1. BInv => RevokesFirst
  BY Zenon DEF BInv, ForgetInv, RevokesFirst, At
<1> QED
  BY <1>1, BInvInit, BInvStep, PTL DEF Spec, DeletedLast

-----------------------------------------------------------------------------
(* Records: what an irrevocable operation reported is in force.            *)

\* A change of record r's status keeps what is in force of it.
Onward(r, m) ==
    \A op \in Irrevocable : Home(op) = r /\ m[1] \in Settled(op) => m[2] \in Settled(op)

\* Each irrevocable operation has a record of its kind.
LEMMA Homes == \A op \in Irrevocable : Home(op) \in {"invoice", "quote", "dispute", "promo"}
BY SMT DEF Irrevocable, Home

\* What a call to Stripe is made of.
LEMMA CallFields ==
    ASSUME NEW op, NEW inputs, NEW params, NEW r, NEW amount
    PROVE  /\ Call(op, inputs, params, r, amount).op = op
           /\ Call(op, inputs, params, r, amount).key = KeyFor(op, inputs)
           /\ Call(op, inputs, params, r, amount).params = params
           /\ Call(op, inputs, params, r, amount).record = r
<1>1. PICK k : k = KeyFor(op, inputs)
  BY Zenon
<1>2. Call(op, inputs, params, r, amount) =
        [op |-> op, key |-> k, params |-> params, record |-> r, amount |-> amount]
  BY <1>1, Zenon DEF Call, KeyFor
<1>3. PICK c : c = [op |-> op, key |-> k, params |-> params, record |-> r, amount |-> amount]
  BY Zenon
<1>4. c.op = op /\ c.key = k /\ c.params = params /\ c.record = r
  BY <1>3, SMT
<1> QED
  BY <1>1, <1>2, <1>3, <1>4, Zenon

\* What Stripe makes of an invoice (Moves).
LEMMA InvoiceMoves ==
    ASSUME NEW c, NEW m \in Moves(c)
    PROVE  /\ c.op = "invoice.finalize" => m[1] = "draft" /\ m[2] = "open"
           /\ c.op = "invoice.send" => m[1] \in {"open", "sent"} /\ m[2] = "sent"
           /\ c.op = "invoice.void" => m[1] \in {"open", "sent", "uncollectible"} /\ m[2] = "void"
           /\ c.op = "invoice.mark_uncollectible" => m[1] \in {"open", "sent"} /\ m[2] = "uncollectible"
           /\ c.op = "credit_note.create" => m[2] = m[1]
<1>1. CASE c.op = "invoice.finalize"
  BY <1>1, SMT DEF Moves
<1>2. CASE c.op = "invoice.send"
  BY <1>2, SMT DEF Moves
<1>3. CASE c.op = "invoice.void"
  BY <1>3, SMT DEF Moves
<1>4. CASE c.op = "invoice.mark_uncollectible"
  BY <1>4, SMT DEF Moves
<1>5. CASE c.op = "credit_note.create"
  BY <1>5, SMT DEF Moves
<1> QED
  BY <1>1, <1>2, <1>3, <1>4, <1>5, Zenon

\* What Stripe makes of a quote.
LEMMA QuoteMoves ==
    ASSUME NEW c, NEW m \in Moves(c)
    PROVE  /\ c.op = "quotes.create" => m[1] = "none" /\ m[2] = "draft"
           /\ c.op = "quotes.finalize" => m[1] = "draft" /\ m[2] = "open"
           /\ c.op = "quotes.accept" => m[1] = "open" /\ m[2] = "accepted"
           /\ c.op = "quotes.cancel" => m[1] \in {"draft", "open"} /\ m[2] = "canceled"
<1>1. CASE c.op = "quotes.create"
  BY <1>1, SMT DEF Moves
<1>2. CASE c.op = "quotes.finalize"
  BY <1>2, SMT DEF Moves
<1>3. CASE c.op = "quotes.accept"
  BY <1>3, SMT DEF Moves
<1>4. CASE c.op = "quotes.cancel"
  BY <1>4, SMT DEF Moves
<1> QED
  BY <1>1, <1>2, <1>3, <1>4, Zenon

\* What Stripe makes of a dispute and of a promotion code.
LEMMA OtherMoves ==
    ASSUME NEW c, NEW m \in Moves(c)
    PROVE  /\ c.op = "disputes.submit_evidence" => m[1] \in {"needs_response", "a", "b"}
           /\ c.op = "disputes.close" => m[1] \in {"needs_response", "a", "b"} /\ m[2] = "lost"
           /\ c.op = "promo_code.create" => m[1] = "none" /\ m[2] = "active"
           /\ c.op = "promo_code.deactivate" => m[1] \in {"active", "inactive"} /\ m[2] = "inactive"
<1>1. CASE c.op = "disputes.submit_evidence"
  BY <1>1, SMT DEF Moves, Contents
<1>2. CASE c.op = "disputes.close"
  BY <1>2, SMT DEF Moves, Contents
<1>3. CASE c.op = "promo_code.create"
  BY <1>3, SMT DEF Moves
<1>4. CASE c.op = "promo_code.deactivate"
  BY <1>4, SMT DEF Moves
<1> QED
  BY <1>1, <1>2, <1>3, <1>4, Zenon

\* None of them takes back what is in force.
LEMMA InvoiceOnward ==
    ASSUME NEW c, NEW m \in Moves(c),
           c.op \in {"invoice.finalize", "invoice.send", "invoice.void",
                     "invoice.mark_uncollectible", "credit_note.create"}
    PROVE  Onward("invoice", m) /\ (c.op \in Irrevocable => m[2] \in Settled(c.op))
BY InvoiceMoves, SMT DEF Onward, Irrevocable, Home, Settled

\* Stripe moves a quote only onward, and to where an operation that cannot be taken back
\* says it is.
LEMMA QuoteOnward ==
    ASSUME NEW c, NEW m \in Moves(c),
           c.op \in {"quotes.create", "quotes.finalize", "quotes.accept", "quotes.cancel"}
    PROVE  Onward("quote", m) /\ (c.op \in Irrevocable => m[2] \in Settled(c.op))
BY QuoteMoves, SMT DEF Onward, Irrevocable, Home, Settled

\* The same for a dispute.
LEMMA DisputeOnward ==
    ASSUME NEW c, NEW m \in Moves(c), c.op \in {"disputes.submit_evidence", "disputes.close"}
    PROVE  Onward("dispute", m) /\ (c.op \in Irrevocable => m[2] \in Settled(c.op))
BY OtherMoves, SMT DEF Onward, Irrevocable, Home, Settled

\* The same for a promotion code.
LEMMA PromoOnward ==
    ASSUME NEW c, NEW m \in Moves(c), c.op \in {"promo_code.create", "promo_code.deactivate"}
    PROVE  Onward("promo", m) /\ (c.op \in Irrevocable => m[2] \in Settled(c.op))
BY OtherMoves, SMT DEF Onward, Irrevocable, Home, Settled

\* Nor does the customer's or the bank's decision.
LEMMA DecisionOnward ==
    ASSUME NEW r \in DOMAIN Decisions, NEW m \in Decisions[r]
    PROVE  Onward(r, m) /\ r \in RecordNames
<1>1. CASE r = "invoice"
  <2>1. m[1] \in {"open", "sent", "uncollectible"} /\ m[2] = "paid"
    BY <1>1, SMT DEF Decisions
  <2> QED
    BY <1>1, <2>1, SMT DEF Onward, Irrevocable, Home, Settled, RecordNames
<1>2. CASE r = "quote"
  <2>1. m[1] = "open" /\ m[2] = "accepted"
    BY <1>2, SMT DEF Decisions
  <2> QED
    BY <1>2, <2>1, SMT DEF Onward, Irrevocable, Home, Settled, RecordNames
<1>3. CASE r = "dispute"
  <2>1. m[1] \in {"a", "b"}
    BY <1>3, SMT DEF Decisions, Contents
  <2> QED
    BY <1>3, <2>1, SMT DEF Onward, Irrevocable, Home, Settled, RecordNames
<1> QED
  BY <1>1, <1>2, <1>3, Zenon DEF Decisions

\* A call is on a record, its key begins with its operation, and what it makes of the
\* record takes back nothing; an irrevocable one has its record's key.
CallGood(c) ==
    /\ c.record \in RecordNames
    /\ c.key[1] = c.op /\ c.op # "invoice_item.create" /\ c.op # "invoice.create_draft"
    /\ c.op \in Irrevocable => c.key = HomeKey(c.op) /\ c.record = Home(c.op)
    /\ \A m \in Moves(c) : Onward(c.record, m) /\ (c.op \in Irrevocable => m[2] \in Settled(c.op))

\* A call that changes nothing for good.
LEMMA PlainCall ==
    ASSUME NEW op, NEW S, NEW inputs \in Seq(S), NEW params, NEW amount,
           op \notin Irrevocable, op # "invoice_item.create", op # "invoice.create_draft",
           NEW r \in RecordNames \ {"invoice", "quote", "dispute", "promo"}
    PROVE  CallGood(Call(op, inputs, params, r, amount))
<1>1. PICK c : c = Call(op, inputs, params, r, amount)
  BY Zenon
<1>2. c.op = op /\ c.key = KeyFor(op, inputs) /\ c.record = r
  <2>1. /\ Call(op, inputs, params, r, amount).op = op
        /\ Call(op, inputs, params, r, amount).key = KeyFor(op, inputs)
        /\ Call(op, inputs, params, r, amount).record = r
    BY CallFields
  <2> QED
    BY <1>1, <2>1, Zenon
<1>3. c.key[1] = c.op
  <2>1. KeyFor(op, inputs)[1] = op
    BY KeyOp
  <2> QED
    BY <1>2, <2>1, Zenon
<1>4. \A m : Onward(r, m)
  BY Homes, Zenon DEF Onward
<1> QED
  BY <1>1, <1>2, <1>3, <1>4, Zenon DEF CallGood

\* A call whose effect on its record is known.
LEMMA KnownCall ==
    ASSUME NEW op, NEW S, NEW inputs \in Seq(S), NEW params, NEW amount, NEW r \in RecordNames,
           op \in Irrevocable => inputs = <<r>> /\ r = Home(op), op # "invoice_item.create",
           op # "invoice.create_draft",
           \A c, m : c.op = op /\ m \in Moves(c) =>
               Onward(r, m) /\ (c.op \in Irrevocable => m[2] \in Settled(c.op))
    PROVE  CallGood(Call(op, inputs, params, r, amount))
<1>1. PICK c : c = Call(op, inputs, params, r, amount)
  BY Zenon
<1>2. c.op = op /\ c.key = KeyFor(op, inputs) /\ c.record = r
  <2>1. /\ Call(op, inputs, params, r, amount).op = op
        /\ Call(op, inputs, params, r, amount).key = KeyFor(op, inputs)
        /\ Call(op, inputs, params, r, amount).record = r
    BY CallFields
  <2> QED
    BY <1>1, <2>1, Zenon
<1>3. c.key[1] = c.op
  <2>1. KeyFor(op, inputs)[1] = op
    BY KeyOp
  <2> QED
    BY <1>2, <2>1, Zenon
<1>4. op \in Irrevocable => c.key = HomeKey(op)
  BY <1>2, Zenon DEF KeyFor, HomeKey
<1> QED
  BY <1>1, <1>2, <1>3, <1>4, Zenon DEF CallGood

\* The inputs keys are derived from.
LEMMA Inputs ==
    ASSUME NEW a, NEW b, NEW c
    PROVE  <<a>> \in Seq({a}) /\ <<a, b>> \in Seq({a, b}) /\ <<a, b, c>> \in Seq({a, b, c})
BY SMT

\* The operations and the records that the calls are about.
LEMMA Names ==
    /\ {"invoice", "quote", "dispute", "promo"} \subseteq RecordNames
    /\ {"intent", "card", "vat", "charge", "balance"} \subseteq
           RecordNames \ {"invoice", "quote", "dispute", "promo"}
    /\ \A op \in {"invoice.finalize", "invoice.send", "invoice.void", "invoice.mark_uncollectible"} :
           Home(op) = "invoice"
    /\ \A op \in {"quotes.finalize", "quotes.accept", "quotes.cancel"} : Home(op) = "quote"
    /\ Home("disputes.close") = "dispute"
    /\ Home("promo_code.deactivate") = "promo"
    /\ \A op \in {"credit_note.create", "quotes.create", "disputes.submit_evidence",
                  "promo_code.create", "paymentmethods.setup_intent.create",
                  "paymentmethods.attach", "paymentmethods.detach", "paymentmethods.set_default",
                  "customers.tax_id.add", "refund.create", "customer_balance_tx.create"} :
           op \notin Irrevocable
BY SMT DEF RecordNames, Home, Irrevocable

\* Finalize, send, void, mark uncollectible, credit note.
LEMMA InvoiceCallsGood ==
    ASSUME NEW c \in InvoiceCalls
    PROVE  CallGood(c)
<1>1. ASSUME NEW op \in {"invoice.finalize", "invoice.send", "invoice.void", "invoice.mark_uncollectible"}
      PROVE  CallGood(OneWay(op, "invoice"))
  BY Names, Inputs, KnownCall, InvoiceOnward, Zenon DEF OneWay
<1>2. CallGood(IssueCreditNote("invoice", 1))
  BY Names, Inputs, KnownCall, InvoiceOnward, Zenon DEF IssueCreditNote
<1> QED
  BY <1>1, <1>2, Zenon DEF InvoiceCalls, Finalize, SendInvoice, Void, MarkUncollectible

\* Create, finalize, accept and cancel a quote.
LEMMA QuoteCallsGood ==
    ASSUME NEW c \in QuoteCalls
    PROVE  CallGood(c)
<1>1. ASSUME NEW op \in {"quotes.finalize", "quotes.accept", "quotes.cancel"}
      PROVE  CallGood(OneWay(op, "quote"))
  BY Names, Inputs, KnownCall, QuoteOnward, Zenon DEF OneWay
<1>2. ASSUME NEW x \in Contents PROVE CallGood(CreateQuote("quote", x))
  BY Names, Inputs, KnownCall, QuoteOnward, Zenon DEF CreateQuote
<1> QED
  BY <1>1, <1>2, Zenon DEF QuoteCalls, FinalizeQuote, AcceptQuote, CancelQuote

\* Evidence and the end of a dispute.
LEMMA DisputeCallsGood ==
    ASSUME NEW c \in DisputeCalls
    PROVE  CallGood(c)
<1>1. CallGood(OneWay("disputes.close", "dispute"))
  BY Names, Inputs, KnownCall, DisputeOnward, Zenon DEF OneWay
<1>2. ASSUME NEW x \in Contents PROVE CallGood(SubmitEvidence("dispute", x))
  BY Names, Inputs, KnownCall, DisputeOnward, Zenon DEF SubmitEvidence
<1> QED
  BY <1>1, <1>2, Zenon DEF DisputeCalls, CloseDispute

\* A promotion code and its end.
LEMMA PromoCallsGood ==
    ASSUME NEW c \in PromoCalls
    PROVE  CallGood(c)
<1>1. CallGood(OneWay("promo_code.deactivate", "promo"))
  BY Names, Inputs, KnownCall, PromoOnward, Zenon DEF OneWay
<1>2. ASSUME NEW x \in Contents PROVE CallGood(CreatePromoCode("promo", x))
  BY Names, Inputs, KnownCall, PromoOnward, Zenon DEF CreatePromoCode
<1> QED
  BY <1>1, <1>2, Zenon DEF PromoCalls, DeactivatePromoCode

\* Payment methods, setup intents and tax ids.
LEMMA CustomerCallsGood ==
    ASSUME NEW n \in Nat, NEW c \in CustomerCalls(n)
    PROVE  CallGood(c)
<1>1. ASSUME NEW x \in Contents
      PROVE  CallGood(Call("paymentmethods.setup_intent.create", <<n>>, x, "intent", 0))
  BY Names, Inputs, PlainCall, Zenon
<1>2. /\ CallGood(Call("paymentmethods.attach", <<n, "card">>, "", "card", 0))
      /\ CallGood(Call("paymentmethods.set_default", <<n, "card">>, "", "card", 0))
      /\ CallGood(Call("customers.tax_id.add", <<n, "vat">>, "", "vat", 0))
  BY Names, Inputs, PlainCall, Zenon
<1>3. CallGood(DetachPaymentMethod("card"))
  BY Names, Inputs, PlainCall, Zenon DEF DetachPaymentMethod, OneWay
<1> QED
  BY <1>1, <1>2, <1>3, Zenon DEF CustomerCalls

\* Refunds and the customer's balance.
LEMMA MoneyCallsGood ==
    ASSUME NEW n \in Nat, NEW c \in MoneyCalls(n)
    PROVE  CallGood(c)
<1>1. ASSUME NEW r \in RefundInputs PROVE CallGood(Refund(r))
  BY Names, Inputs, PlainCall, Zenon DEF Refund
<1>2. CallGood(Call("customer_balance_tx.create", <<n, 1>>, "", "balance", 1))
  BY Names, Inputs, PlainCall, Zenon
<1> QED
  BY <1>1, <1>2, Zenon DEF MoneyCalls

\* Every call an operation can make is good: its key names its operation, an irrevocable one
\* has its record's key, and Stripe's answer takes back nothing.
LEMMA CallsGood ==
    ASSUME NEW c \in CallSet
    PROVE  CallGood(c)
<1>1. CASE c \in InvoiceCalls \/ c \in QuoteCalls \/ c \in DisputeCalls \/ c \in PromoCalls
  BY <1>1, InvoiceCallsGood, QuoteCallsGood, DisputeCallsGood, PromoCallsGood, Zenon
<1>2. CASE c \in AnyCustomerCalls
  BY <1>2, CustomerCallsGood, Zenon DEF AnyCustomerCalls
<1>3. CASE c \in AnyMoneyCalls
  BY <1>3, MoneyCallsGood, Zenon DEF AnyMoneyCalls
<1> QED
  BY <1>1, <1>2, <1>3, Zenon DEF CallSet

\* An irrevocable operation's key begins with it.
LEMMA HomeKeyOp == \A op : HomeKey(op)[1] = op
<1> SUFFICES ASSUME NEW op PROVE HomeKey(op)[1] = op
  BY Zenon
<1>1. <<Home(op)>> \in Seq({Home(op)})
  BY Inputs, Zenon
<1>2. KeyFor(op, <<Home(op)>>)[1] = op
  BY <1>1, KeyOp, Zenon
<1> QED
  BY <1>2, Zenon DEF KeyFor, HomeKey

\* What is known under a key of an irrevocable operation was known before.
OldHomes ==
    \A op \in Irrevocable : HomeKey(op) \in DOMAIN keys' =>
        HomeKey(op) \in DOMAIN keys /\ keys'[HomeKey(op)] = keys[HomeKey(op)]

\* A step that touches no record, and no key of an irrevocable operation, keeps it all.
LEMMA RecordKept ==
    ASSUME RecordInv, UNCHANGED <<records, answered>>, OldHomes
    PROVE  RecordInv'
<1>1. \A op : InForce(op)' <=> InForce(op)
  BY Zenon DEF InForce
<1>2. ASSUME NEW op \in Irrevocable, HomeKey(op) \in DOMAIN keys', keys'[HomeKey(op)].id # 0
      PROVE  InForce(op)'
  BY <1>1, <1>2, Zenon DEF RecordInv, OldHomes
<1> QED
  BY <1>1, <1>2, Zenon DEF RecordInv, HomeKey

\* Keys of other operations leave those of the irrevocable ones alone.
LEMMA NewHomes ==
    ASSUME NEW O, NewKeys(O), \A op \in Irrevocable : op \notin O
    PROVE  OldHomes
BY HomeKeyOp, Zenon DEF NewKeys, OldKeys, OldHomes

\* Checkout, Forget and ImportCustomer use no key of an irrevocable operation.
LEMMA AccountHomes ==
    ASSUME NewKeys(AccountOps)
    PROVE  OldHomes
<1>1. \A op \in Irrevocable : op \notin AccountOps
  BY SMT DEF Irrevocable, AccountOps
<1> QED
  BY <1>1, NewHomes, Zenon

\* The call that a worker sends is one of them.
LEMMA CurrentGood ==
    ASSUME AccountType, NEW w \in Workers, At(w, "write", "send")
    PROVE  CallGood(Current(w))
<1>1. proc[w] \in ProcType /\ proc[w].op = "write"
  BY Zenon DEF AccountType, At
<1>2. proc[w] \in WriteProc
  BY <1>1, ByOp, Zenon
<1>3. proc[w].calls \in Seq(CallSet) \ {<<>>}
  BY <1>2, Zenon DEF WriteProc
<1>4. Head(proc[w].calls) \in CallSet
  BY <1>3, NextCalls, Zenon
<1> QED
  BY <1>4, CallsGood, Zenon DEF Current

\* A change of a record's status by a move that takes back nothing.
LEMMA Changed ==
    ASSUME RecordInv, NEW r \in RecordNames, NEW m, Onward(r, m), m[1] = records[r].status,
           NEW e, DOMAIN e = {"status", "total"}, e.status = m[2],
           records' = [records EXCEPT ![r] = e]
    PROVE  /\ DOMAIN records' = RecordNames
           /\ \A x \in RecordNames : DOMAIN records'[x] = {"status", "total"}
           /\ records'[r].status = m[2]
           /\ \A op \in Irrevocable : InForce(op) => InForce(op)'
<1>1. /\ DOMAIN records' = RecordNames /\ records'[r] = e
      /\ \A x \in RecordNames \ {r} : records'[x] = records[x]
  BY Zenon DEF RecordInv
<1>2. ASSUME NEW op \in Irrevocable, InForce(op)
      PROVE  InForce(op)'
  <2>1. Home(op) \in RecordNames
    BY Homes, Names, Zenon
  <2>2. CASE Home(op) = r
    BY <1>1, <1>2, <2>2, Zenon DEF InForce, Onward
  <2>3. CASE Home(op) # r
    BY <1>1, <1>2, <2>1, <2>3, Zenon DEF InForce
  <2> QED
    BY <2>2, <2>3, Zenon
<1> QED
  BY <1>1, <1>2, Zenon DEF RecordInv

\* The fields of a record.
LEMMA StatusFields ==
    ASSUME NEW a, NEW b
    PROVE  /\ DOMAIN [status |-> a, total |-> b] = {"status", "total"}
           /\ [status |-> a, total |-> b].status = a
BY SMT

\* A call that Stripe performs (Performed).
LEMMA PerformedInForce ==
    ASSUME AccountType, RecordInv, NEW w \in Workers, Performed(w)
    PROVE  RecordInv'
<1>1. PICK c : c = Current(w)
  BY Zenon
<1>2. At(w, "write", "send") /\ ~Known(c.key) /\ Remember(c.key, c.params, 1)
  BY <1>1, Zenon DEF Performed
<1>3. CallGood(c)
  BY <1>1, <1>2, CurrentGood, Zenon
<1>4. PICK m \in Moves(c) :
         /\ m[1] = records[c.record].status
         /\ \E t : records' = [records EXCEPT ![c.record] = [status |-> m[2], total |-> t]]
  BY <1>1, Zenon DEF Performed
<1>5. PICK e : /\ records' = [records EXCEPT ![c.record] = e]
               /\ \E t : e = [status |-> m[2], total |-> t]
  BY <1>4, Zenon
<1>6. DOMAIN e = {"status", "total"} /\ e.status = m[2]
  BY <1>5, StatusFields, Zenon
<1>7. c.record \in RecordNames /\ Onward(c.record, m)
  BY <1>3, <1>4, Zenon DEF CallGood
<1>8. /\ DOMAIN records' = RecordNames
      /\ \A x \in RecordNames : DOMAIN records'[x] = {"status", "total"}
      /\ records'[c.record].status = m[2]
      /\ \A op \in Irrevocable : InForce(op) => InForce(op)'
  BY <1>4, <1>5, <1>6, <1>7, Changed, Zenon
<1>9. c.op \in Irrevocable => c.key = HomeKey(c.op) /\ c.record = Home(c.op) /\ InForce(c.op)'
  BY <1>3, <1>4, <1>8, Zenon DEF CallGood, InForce
<1>10. /\ DOMAIN keys' = DOMAIN keys \cup {c.key}
       /\ \A k \in DOMAIN keys : keys'[k] = keys[k]
  BY <1>2, Remembers, Zenon DEF OldKeys
<1>11. ASSUME NEW op \in Irrevocable, HomeKey(op) \in DOMAIN keys', keys'[HomeKey(op)].id # 0
       PROVE  InForce(op)'
  <2>1. CASE HomeKey(op) \in DOMAIN keys
    BY <1>8, <1>10, <1>11, <2>1, Zenon DEF RecordInv
  <2>2. CASE HomeKey(op) = c.key
    <3>1. c.op = op
      BY <1>3, <2>2, HomeKeyOp, Zenon DEF CallGood
    <3> QED
      BY <1>9, <1>11, <3>1, Zenon
  <2> QED
    BY <1>10, <1>11, <2>1, <2>2, Zenon
<1>12. ASSUME NEW a \in answered', a[1] \in Irrevocable
       PROVE  a[2] = Home(a[1]) /\ InForce(a[1])'
  <2>1. CASE a \in answered
    BY <1>8, <1>12, <2>1, Zenon DEF RecordInv
  <2>2. CASE a \notin answered
    <3>1. a = <<c.op, c.record>>
      BY <1>1, <1>12, <2>2, Zenon DEF Performed, Proceed
    <3>2. a[1] = c.op /\ a[2] = c.record
      BY <3>1, SMT
    <3> QED
      BY <1>9, <1>12, <3>2, Zenon
  <2> QED
    BY <2>1, <2>2, Zenon
<1> QED
  BY <1>8, <1>11, <1>12, Zenon DEF RecordInv, HomeKey

\* A call that Stripe answers from memory (Replayed).
LEMMA ReplayedInForce ==
    ASSUME AccountType, RecordInv, NEW w \in Workers, Replayed(w)
    PROVE  RecordInv'
<1>1. PICK c : c = Current(w)
  BY Zenon
<1>2. /\ At(w, "write", "send") /\ c.key \in DOMAIN keys
      /\ UNCHANGED <<keys, records>>
  BY <1>1, Zenon DEF Replayed, stripeVars, Known
<1>3. CallGood(c)
  BY <1>1, <1>2, CurrentGood, Zenon
<1>4. \A op : InForce(op)' <=> InForce(op)
  BY <1>2, Zenon DEF InForce
<1>5. ASSUME NEW a \in answered', a[1] \in Irrevocable
      PROVE  a[2] = Home(a[1]) /\ InForce(a[1])'
  <2>1. CASE a \in answered
    BY <1>4, <1>5, <2>1, Zenon DEF RecordInv
  <2>2. CASE a \notin answered
    <3>1. a = <<c.op, c.record>> /\ keys[c.key].id # 0
      BY <1>1, <1>5, <2>2, Zenon DEF Replayed, Proceed
    <3>2. a[1] = c.op /\ a[2] = c.record
      BY <3>1, SMT
    <3>3. c.key = HomeKey(c.op) /\ c.record = Home(c.op)
      BY <1>3, <1>5, <3>2, Zenon DEF CallGood
    <3>4. InForce(c.op)
      BY <1>2, <1>5, <3>1, <3>2, <3>3, Zenon DEF RecordInv
    <3> QED
      BY <1>4, <3>2, <3>3, <3>4, Zenon
  <2> QED
    BY <2>1, <2>2, Zenon
<1> QED
  BY <1>2, <1>4, <1>5, Zenon DEF RecordInv, HomeKey

\* A call that Stripe refuses, and remembers or not (Rejected).
LEMMA RejectedInForce ==
    ASSUME AccountType, RecordInv, NEW w \in Workers, Rejected(w)
    PROVE  RecordInv'
<1>1. PICK c : c = Current(w)
  BY Zenon
<1>2. /\ ~Known(c.key) /\ UNCHANGED <<records, answered>>
      /\ Remember(c.key, c.params, 0) \/ UNCHANGED keys
  BY <1>1, Zenon DEF Rejected, paperVars
<1>3. \A op : InForce(op)' <=> InForce(op)
  BY <1>2, Zenon DEF InForce
<1>4. \A k \in DOMAIN keys' : (k \in DOMAIN keys /\ keys'[k] = keys[k]) \/ keys'[k].id = 0
  <2>1. [params |-> c.params, id |-> 0].id = 0
    BY SMT
  <2>2. CASE Remember(c.key, c.params, 0)
    <3>1. /\ OldKeys
          /\ DOMAIN keys' = DOMAIN keys \cup {c.key}
          /\ keys'[c.key] = [params |-> c.params, id |-> 0]
      BY <1>2, <2>2, Remembers, Zenon
    <3>2. keys'[c.key].id = 0
      BY <2>1, <3>1, Zenon
    <3> QED
      BY <3>1, <3>2, Zenon DEF OldKeys
  <2>3. CASE UNCHANGED keys
    BY <2>3, Zenon
  <2> QED
    BY <1>2, <2>2, <2>3, Zenon
<1>5. ASSUME NEW op \in Irrevocable, HomeKey(op) \in DOMAIN keys', keys'[HomeKey(op)].id # 0
      PROVE  InForce(op)'
  BY <1>3, <1>4, <1>5, Zenon DEF RecordInv
<1> QED
  BY <1>2, <1>3, <1>5, Zenon DEF RecordInv, HomeKey

\* A decision of the customer or the bank (Decided).
LEMMA DecidedInForce ==
    ASSUME RecordInv, NEW r \in DOMAIN Decisions, Decided(r)
    PROVE  RecordInv'
<1>1. PICK m \in Decisions[r] :
         m[1] = records[r].status /\ records' = [records EXCEPT ![r].status = m[2]]
  BY Zenon DEF Decided
<1>2. PICK e : e = [records[r] EXCEPT !.status = m[2]]
  BY Zenon
<1>3. Onward(r, m) /\ r \in RecordNames
  BY <1>1, DecisionOnward, Zenon
<1>4. DOMAIN records[r] = {"status", "total"}
  BY <1>3, Zenon DEF RecordInv
<1>5. DOMAIN e = {"status", "total"} /\ e.status = m[2]
  BY <1>2, <1>4, Zenon
<1>6. records' = [records EXCEPT ![r] = e]
  BY <1>1, <1>2, Zenon
<1>7. /\ DOMAIN records' = RecordNames
      /\ \A x \in RecordNames : DOMAIN records'[x] = {"status", "total"}
      /\ \A op \in Irrevocable : InForce(op) => InForce(op)'
  BY <1>1, <1>3, <1>5, <1>6, Changed, Zenon
<1>8. UNCHANGED <<keys, answered>>
  BY Zenon DEF Decided, accountVars, stripeVars
<1> QED
  BY <1>7, <1>8, Zenon DEF RecordInv, HomeKey

\* A draft's keys are not those of the other writes.
LEMMA DraftHomes ==
    ASSUME AccountType, NEW w \in Workers, CreateItem(w) \/ CreateInvoice(w)
    PROVE  OldHomes /\ UNCHANGED <<records, answered>>
<1>1. PICK p : p = proc[w]
  BY Zenon
<1>2. PICK O : O = {"invoice_item.create", "invoice.create_draft"}
  BY Zenon
<1>3. \A op \in Irrevocable : op \notin O
  BY <1>2, SMT DEF Irrevocable
<1>4. KeysType /\ 1 \in Nat
  <2>1. 1 \in Nat
    BY SMT
  <2> QED
    BY <2>1, Zenon DEF AccountType
<1>5. CASE CreateItem(w)
  <2>1. Remember(KeyFor("invoice_item.create", <<p.in.customer, p.line, p.number>>), "", 1)
    BY <1>1, <1>5, Zenon DEF CreateItem, ItemKey, KeyFor
  <2>2. <<p.in.customer, p.line, p.number>> \in Seq({p.in.customer, p.line, p.number})
    BY Inputs, Zenon
  <2>3. NewKeys(O)
    BY <1>2, <1>4, <2>1, <2>2, RemembersOp, Zenon
  <2> QED
    BY <1>3, <1>5, <2>3, NewHomes, Zenon DEF CreateItem
<1>6. CASE CreateInvoice(w)
  <2>1. Remember(KeyFor("invoice.create_draft", <<p.in.customer, p.number>>), "", 1)
    BY <1>1, <1>6, Zenon DEF CreateInvoice, KeyFor
  <2>2. <<p.in.customer, p.number>> \in Seq({p.in.customer, p.number})
    BY Inputs, Zenon
  <2>3. NewKeys(O)
    BY <1>2, <1>4, <2>1, <2>2, RemembersOp, Zenon
  <2> QED
    BY <1>3, <1>6, <2>3, NewHomes, Zenon DEF CreateInvoice
<1> QED
  BY <1>5, <1>6, Zenon

\* A step that leaves the keys alone leaves those of irrevocable operations alone.
LEMMA SameHomes ==
    ASSUME UNCHANGED keys
    PROVE  OldHomes
BY Zenon DEF OldHomes

\* The invariant of the records is inductive.
LEMMA RecordStep ==
    ASSUME BInv, RecordInv, [Next]_vars
    PROVE  RecordInv'
<1>1. AccountType /\ ForgetInv
  BY Zenon DEF BInv
<1>2. CASE \E w \in Workers : \E in : BeginCall(w, in)
  <2>1. UNCHANGED <<keys, records, answered>>
    BY <1>2, Zenon DEF BeginCall, Begin, CreateSession, CreateInvoiced, Forget, ImportCustomer,
                       CreateDraft, Write, stripeVars, paperVars
  <2> QED
    BY <2>1, SameHomes, RecordKept, Zenon
<1>3. CASE AccountsNext /\ UNCHANGED paperVars
  <2>1. UNCHANGED <<records, answered>>
    BY <1>3, Zenon DEF paperVars
  <2>2. OldHomes
    <3>1. CASE \E w \in Workers : AccountStep(w)
      BY <1>1, <3>1, AccountSafe, AccountHomes, Zenon DEF Safe
    <3>2. CASE \E i \in DOMAIN sessions : Pay(i) \/ GrantFromCheckout(i)
      BY <3>2, SameHomes, Zenon DEF Pay, GrantFromCheckout
    <3>3. CASE KeysExpire
      <4>1. DOMAIN <<>> = {}
        BY SMT
      <4> QED
        BY <3>3, <4>1, Zenon DEF KeysExpire, OldHomes
    <3> QED
      BY <1>3, <3>1, <3>2, <3>3, Zenon DEF AccountsNext, AccountStep
  <2> QED
    BY <2>1, <2>2, RecordKept, Zenon
<1>4. CASE PaperNext
  <2>1. CASE \E w \in Workers : CreateItem(w) \/ CreateInvoice(w)
    BY <1>1, <2>1, DraftHomes, RecordKept, Zenon
  <2>2. CASE \E w \in Workers : Performed(w) \/ Replayed(w) \/ Rejected(w)
    BY <1>1, <2>2, PerformedInForce, ReplayedInForce, RejectedInForce, Zenon
  <2>3. CASE \E r \in DOMAIN Decisions : Decided(r)
    BY <2>3, DecidedInForce, Zenon
  <2> QED
    BY <1>4, <2>1, <2>2, <2>3, Zenon DEF PaperNext
<1>5. CASE UNCHANGED <<accountVars, paperVars>>
  <2>1. UNCHANGED <<keys, records, answered>>
    BY <1>5, Zenon DEF accountVars, stripeVars, paperVars
  <2> QED
    BY <2>1, SameHomes, RecordKept, Zenon
<1> QED
  BY <1>2, <1>3, <1>4, <1>5, Zenon DEF Next, vars

\* It holds at first: nothing is answered and Stripe remembers no key.
LEMMA RecordInit ==
    ASSUME Init
    PROVE  RecordInv
<1>1. PICK b : PaperInit(b) /\ keys = <<>>
  BY Zenon DEF Init, AccountsInit
<1>2. DOMAIN <<>> = {}
  BY SMT
<1>3. DOMAIN records = RecordNames /\ \A r \in RecordNames : DOMAIN records[r] = {"status", "total"}
  BY <1>1, Zenon DEF PaperInit, RecordNames
<1>4. answered = {}
  BY <1>1, Zenon DEF PaperInit
<1> QED
  BY <1>1, <1>2, <1>3, <1>4, Zenon DEF RecordInv

\* An operation that cannot be taken back and was reported done is in force from then
\* on, whatever is lost, retried, refused or replayed, and even when Stripe has
\* forgotten its key (the keys of Finalize, Void, Accept, Cancel, Close and
\* DeactivatePromoCode).
THEOREM ReportedStaysInForce == Spec => []ReportedIsInForce
<1>1. RecordInv => ReportedIsInForce
  BY Zenon DEF RecordInv, InForce, ReportedIsInForce
<1> QED
  BY <1>1, BInvInit, BInvStep, RecordInit, RecordStep, PTL DEF Spec

-----------------------------------------------------------------------------
(* Drafts: the lines of a request are billed once.                         *)

\* Item keys tell apart customers, lines and numbers.
LEMMA LineKeys ==
    ASSUME NEW c \in Int, NEW l \in Int, NEW n \in Int, NEW d \in Int, NEW k \in Int, NEW m \in Int,
           LineKey(c, l, n) = LineKey(d, k, m)
    PROVE  c = d /\ l = k /\ n = m
<1>1. <<c, l, n>> \in Seq(Int) /\ <<d, k, m>> \in Seq(Int)
  BY SMT
<1>2. KeyFor("invoice_item.create", <<c, l, n>>) = KeyFor("invoice_item.create", <<d, k, m>>)
  BY Zenon DEF LineKey, KeyFor
<1>3. <<c, l, n>> = <<d, k, m>>
  BY <1>1, <1>2, KeyInputs, Zenon
<1> QED
  BY <1>3, SMT

\* The known keys of invoice items are the same as before.
OldLines ==
    \A c, l, n : LineKey(c, l, n) \in DOMAIN keys' <=> LineKey(c, l, n) \in DOMAIN keys

\* The key of a line (invoice_backend.go) is one of invoice_item.create.
LEMMA LineKeyOp == \A c, l, n : LineKey(c, l, n)[1] = "invoice_item.create"
<1> SUFFICES ASSUME NEW c, NEW l, NEW n PROVE LineKey(c, l, n)[1] = "invoice_item.create"
  BY Zenon
<1>1. <<c, l, n>> \in Seq({c, l, n})
  BY Inputs, Zenon
<1>2. KeyFor("invoice_item.create", <<c, l, n>>)[1] = "invoice_item.create"
  BY <1>1, KeyOp, Zenon
<1> QED
  BY <1>2, Zenon DEF KeyFor, LineKey

\* Keys of other operations leave those of the lines alone.
LEMMA NewLines ==
    ASSUME NEW O, NewKeys(O), "invoice_item.create" \notin O
    PROVE  OldLines
<1> SUFFICES ASSUME NEW c, NEW l, NEW n
             PROVE  LineKey(c, l, n) \in DOMAIN keys' <=> LineKey(c, l, n) \in DOMAIN keys
  BY Zenon DEF OldLines
<1>1. PICK k : k = LineKey(c, l, n) /\ k[1] = "invoice_item.create"
  BY LineKeyOp, Zenon
<1>2. k \in DOMAIN keys' <=> k \in DOMAIN keys
  BY <1>1, Zenon DEF NewKeys, OldKeys
<1> QED
  BY <1>1, <1>2, Zenon

\* Keys of invoices tell apart customers and numbers (invoice.create_draft).
LEMMA InvoiceKeys ==
    ASSUME NEW c \in Int, NEW n \in Int, NEW d \in Int, NEW m \in Int,
           InvoiceKey(c, n) = InvoiceKey(d, m)
    PROVE  c = d /\ n = m
<1>1. <<c, n>> \in Seq(Int) /\ <<d, m>> \in Seq(Int)
  BY SMT
<1>2. KeyFor("invoice.create_draft", <<c, n>>) = KeyFor("invoice.create_draft", <<d, m>>)
  BY Zenon DEF InvoiceKey, KeyFor
<1>3. <<c, n>> = <<d, m>>
  BY <1>1, <1>2, KeyInputs, Zenon
<1> QED
  BY <1>3, SMT

\* The known keys of invoices are the same as before.
OldInvoices ==
    \A c, n : InvoiceKey(c, n) \in DOMAIN keys' <=> InvoiceKey(c, n) \in DOMAIN keys

\* The key of an invoice is one of invoice.create_draft.
LEMMA InvoiceKeyOp == \A c, n : InvoiceKey(c, n)[1] = "invoice.create_draft"
<1> SUFFICES ASSUME NEW c, NEW n PROVE InvoiceKey(c, n)[1] = "invoice.create_draft"
  BY Zenon
<1>1. <<c, n>> \in Seq({c, n})
  BY Inputs, Zenon
<1>2. KeyFor("invoice.create_draft", <<c, n>>)[1] = "invoice.create_draft"
  BY <1>1, KeyOp, Zenon
<1> QED
  BY <1>2, Zenon DEF KeyFor, InvoiceKey

\* Keys of other operations leave those of the invoices alone.
LEMMA NewInvoices ==
    ASSUME NEW O, NewKeys(O), "invoice.create_draft" \notin O
    PROVE  OldInvoices
<1> SUFFICES ASSUME NEW c, NEW n
             PROVE  InvoiceKey(c, n) \in DOMAIN keys' <=> InvoiceKey(c, n) \in DOMAIN keys
  BY Zenon DEF OldInvoices
<1>1. PICK k : k = InvoiceKey(c, n) /\ k[1] = "invoice.create_draft"
  BY InvoiceKeyOp, Zenon
<1>2. k \in DOMAIN keys' <=> k \in DOMAIN keys
  BY <1>1, Zenon DEF NewKeys, OldKeys
<1> QED
  BY <1>1, <1>2, Zenon

\* A step that leaves the keys alone leaves those of the lines and invoices alone.
LEMMA SameLines ==
    ASSUME UNCHANGED keys
    PROVE  OldLines /\ OldInvoices
BY Zenon DEF OldLines, OldInvoices

\* No worker begins or goes on with a draft.
SameDrafts == \A v \in Workers : proc'[v].op = "draft" => proc'[v] = proc[v]

\* Of the calls that may begin, one begins or none.
Fewer == calls' = calls \/ (calls # <<>> /\ calls' = Tail(calls))

\* The calls still to come are among those that were to come before.
LEMMA FewerCalls ==
    ASSUME calls \in Seq(SUBSET Input), Fewer
    PROVE  \A i \in DOMAIN calls' : \E j \in DOMAIN calls : calls'[i] = calls[j]
<1>1. CASE calls' = calls
  BY <1>1, Zenon
<1>2. CASE calls # <<>> /\ calls' = Tail(calls)
  <2>1. Len(calls) \in Nat \ {0}
    BY <1>2, SMT
  <2>2. PICK t : t = Tail(calls)
    BY Zenon
  <2>3. \A i \in DOMAIN t : i + 1 \in DOMAIN calls /\ t[i] = calls[i + 1]
    BY <2>1, <2>2, SMT
  <2> QED
    BY <1>2, <2>2, <2>3, Zenon
<1> QED
  BY <1>1, <1>2, Zenon DEF Fewer

\* A step that starts no draft has no draft that was not there before.
LEMMA DraftsKept ==
    ASSUME NEW D, DraftsAmong(D), calls \in Seq(SUBSET Input), Fewer, SameDrafts, UNCHANGED accepted
    PROVE  DraftsAmong(D)'
<1>1. \A i \in DOMAIN calls' : \E j \in DOMAIN calls : calls'[i] = calls[j]
  BY FewerCalls, Zenon
<1>2. \A i \in DOMAIN calls' : \A in \in calls'[i] : in.op = "draft" => in \in D
  BY <1>1, Zenon DEF DraftsAmong
<1>3. ASSUME NEW v \in Workers, proc'[v].op = "draft"
      PROVE  /\ proc'[v].in \in D
             /\ proc'[v].number = proc'[v].in.number \/ proc'[v].number < 0
             /\ proc'[v].in.number # 0 => proc'[v].number = proc'[v].in.number
  BY <1>3, Zenon DEF DraftsAmong, SameDrafts
<1> QED
  BY <1>2, <1>3, Zenon DEF DraftsAmong

\* A step without items keeps what is true of the lines.
LEMMA LinesKept ==
    ASSUME NEW D, LinesInv(D), UNCHANGED <<items, accepted>>, OldLines \/ expired',
           expired => expired', SameDrafts
    PROVE  LinesInv(D)'
<1> SUFFICES ASSUME ~expired'
             PROVE  LinesInv(D)'
  BY Zenon DEF LinesInv
<1>1. ~expired /\ OldLines
  BY Zenon
<1>2. ASSUME NEW a \in D, NEW l \in Nat, a.number # 0
      PROVE  LineOnce(a, l)'
  <2>1. LineOnce(a, l)
    BY <1>1, <1>2, Zenon DEF LinesInv
  <2>2. ItemsOf(a.req, l)' = ItemsOf(a.req, l)
    BY Zenon DEF ItemsOf
  <2> QED
    BY <1>1, <2>1, <2>2, Zenon DEF LineOnce, OldLines
<1>3. ASSUME NEW v \in Workers, proc'[v].op = "draft", NEW l \in 1 .. proc'[v].in.lines,
             l < proc'[v].line \/ proc'[v].pc = "invoice"
      PROVE  LineKey(proc'[v].in.customer, l, proc'[v].number) \in DOMAIN keys'
  BY <1>1, <1>3, Zenon DEF LinesInv, OldLines, SameDrafts
<1>4. ASSUME NEW a \in accepted', a.number # 0, NEW l \in 1 .. a.lines
      PROVE  LineKey(a.customer, l, a.number) \in DOMAIN keys'
  BY <1>1, <1>4, Zenon DEF LinesInv, OldLines
<1> QED
  BY <1>2, <1>3, <1>4, Zenon DEF LinesInv, LineKey

\* A worker's draft and its request.
LEMMA DraftFields ==
    ASSUME AccountType, NEW w \in Workers, proc[w].op = "draft"
    PROVE  /\ proc[w] \in DraftProc /\ proc[w].in \in DraftInput
           /\ proc[w].line \in Nat /\ proc[w].number \in Int
           /\ proc[w].in.customer \in Nat /\ proc[w].in.number \in Nat /\ proc[w].in.lines \in Nat
<1>1. proc[w] \in DraftProc
  BY ByOp, Zenon DEF AccountType
<1>2. proc[w].in \in DraftInput /\ proc[w].line \in Nat /\ proc[w].number \in Int
  BY <1>1, Zenon DEF DraftProc
<1> QED
  BY <1>1, <1>2, Zenon DEF DraftInput

\* An item is for a line of a numbered request if, and only if, it has that line's key.
LEMMA ItemMatches ==
    ASSUME NEW D, Coherent(D), NEW a \in D, a.number # 0, NEW b \in D, NEW l \in Nat, NEW k \in Nat,
           NEW n \in Int, n = b.number \/ n < 0, b.number # 0 => n = b.number
    PROVE  (b.req = a.req /\ k = l) <=> LineKey(a.customer, l, a.number) = LineKey(b.customer, k, n)
<1>1. a \in DraftInput /\ b \in DraftInput
  BY Zenon DEF Coherent
<1>2. /\ a.customer \in Nat /\ a.number \in Nat /\ b.customer \in Nat /\ b.number \in Nat
  BY <1>1, Zenon DEF DraftInput
<1>3. a.req = b.req <=> (a.customer = b.customer /\ a.number = b.number)
  BY Zenon DEF Coherent
<1>4. ASSUME b.req = a.req, k = l
      PROVE  LineKey(a.customer, l, a.number) = LineKey(b.customer, k, n)
  <2>1. a.customer = b.customer /\ a.number = n
    BY <1>3, <1>4, Zenon
  <2> QED
    BY <1>4, <2>1, Zenon
<1>5. ASSUME LineKey(a.customer, l, a.number) = LineKey(b.customer, k, n)
      PROVE  b.req = a.req /\ k = l
  <2>1. /\ a.customer \in Int /\ a.number \in Int /\ b.customer \in Int /\ l \in Int /\ k \in Int
    BY <1>2, SMT
  <2>2. a.customer = b.customer /\ l = k /\ a.number = n
    BY <1>5, <2>1, LineKeys
  <2>3. ~(n < 0)
    BY <1>2, <2>2, SMT
  <2> QED
    BY <1>3, <2>2, <2>3, Zenon
<1> QED
  BY <1>4, <1>5, Zenon

\* One item more, for one line.
LEMMA ItemAdded ==
    ASSUME PaperType, NEW req, NEW line, NEW l, NEW r, NEW e \in ItemType,
           e.for = req, e.line = line, items' = Append(items, e)
    PROVE  /\ ~(req = r /\ line = l) => ItemsOf(r, l)' = ItemsOf(r, l)
           /\ (req = r /\ line = l) => ItemsOf(r, l)' = ItemsOf(r, l) \cup {Len(items) + 1}
<1>1. items \in Seq(ItemType)
  BY Zenon DEF PaperType
<1>2. PICK n : n = Len(items) + 1
  BY Zenon
<1>3. /\ DOMAIN items' = DOMAIN items \cup {n}
      /\ \A i \in DOMAIN items : items'[i] = items[i]
      /\ items'[n] = e
  BY <1>1, <1>2, SMT
<1>4. ASSUME ~(req = r /\ line = l)
      PROVE  \A i : i \in ItemsOf(r, l)' <=> i \in ItemsOf(r, l)
  BY <1>3, <1>4, Zenon DEF ItemsOf
<1>5. ASSUME req = r, line = l
      PROVE  \A i : i \in ItemsOf(r, l)' <=> i \in ItemsOf(r, l) \cup {n}
  BY <1>3, <1>5, Zenon DEF ItemsOf
<1> QED
  BY <1>2, <1>4, <1>5, Zenon

\* The next line of a draft, or its last, whether or not Stripe had it already
\* (CreateItem).
LEMMA ItemBilled ==
    ASSUME NEW D, Coherent(D), DraftsAmong(D), LinesInv(D), AccountType, PaperType,
           NEW w \in Workers, CreateItem(w), UNCHANGED calls
    PROVE  DraftsAmong(D)' /\ LinesInv(D)'
<1>1. PICK p : p = proc[w]
  BY Zenon
<1>2. p.op = "draft" /\ p.pc = "item" /\ UNCHANGED <<expired, accepted>>
  BY <1>1, Zenon DEF CreateItem, At
<1>3. /\ p \in DraftProc /\ p.in \in DraftInput /\ p.line \in Nat /\ p.number \in Int
      /\ p.in.customer \in Nat /\ p.in.number \in Nat /\ p.in.lines \in Nat
  BY <1>1, <1>2, DraftFields, Zenon
<1>4. /\ p.in \in D /\ (p.number = p.in.number \/ p.number < 0)
      /\ p.in.number # 0 => p.number = p.in.number
  BY <1>1, <1>2, Zenon DEF DraftsAmong
<1>5. PICK key : key = LineKey(p.in.customer, p.line, p.number)
  BY Zenon
<1>6. ItemKey(p) = key
  BY <1>5, Zenon DEF ItemKey, LineKey
<1>7. DOMAIN keys' = DOMAIN keys \cup {key}
  <2>1. Remember(key, "", 1)
    BY <1>1, <1>6, Zenon DEF CreateItem
  <2> QED
    BY <2>1, Remembers, Zenon
<1>8. PICK q : /\ proc' = [proc EXCEPT ![w] = q] /\ q \in ProcType
               /\ q.op = "draft" =>
                     /\ q.in = p.in /\ q.number = p.number
                     /\ \A l \in 1 .. p.in.lines :
                           l < q.line \/ q.pc = "invoice" => l < p.line \/ l = p.line
  <2>1. CASE Failed(w)
    BY <1>1, <1>2, <2>1, PaperFails, Zenon
  <2>2. CASE p.line < p.in.lines /\ proc' = [proc EXCEPT ![w] = [p EXCEPT !.line = @ + 1]]
    <3>1. p.line + 1 \in Nat
      BY <1>3, SMT
    <3>2. PICK q : q = [p EXCEPT !.line = @ + 1]
      BY Zenon
    <3>3. q \in DraftProc /\ q.in = p.in /\ q.number = p.number /\ q.line = p.line + 1 /\ q.pc = "item"
      BY <1>2, <1>3, <3>1, <3>2, Zenon DEF DraftProc
    <3>4. \A l \in 1 .. p.in.lines : l < q.line => l < p.line \/ l = p.line
      BY <1>3, <3>3, SMT
    <3> QED
      BY <2>2, <3>2, <3>3, <3>4, Zenon DEF ProcType
  <2>3. CASE ~(p.line < p.in.lines) /\ proc' = [proc EXCEPT ![w] = [p EXCEPT !.pc = "invoice"]]
    <3>1. PICK q : q = [p EXCEPT !.pc = "invoice"]
      BY Zenon
    <3>2. q \in DraftProc /\ q.in = p.in /\ q.number = p.number
      BY <1>3, <3>1, Zenon DEF DraftProc
    <3>3. \A l \in 1 .. p.in.lines : l < p.line \/ l = p.line
      BY <1>3, <2>3, SMT
    <3> QED
      BY <2>3, <3>1, <3>2, <3>3, Zenon DEF ProcType
  <2> QED
    BY <1>1, <2>1, <2>2, <2>3, Zenon DEF CreateItem, Reply
<1>9. proc'[w] = q /\ \A v \in Workers \ {w} : proc'[v] = proc[v]
  BY <1>8, ProcStep, Zenon DEF AccountType
<1>10. DraftsAmong(D)'
  <2>1. ASSUME NEW v \in Workers, proc'[v].op = "draft"
        PROVE  /\ proc'[v].in \in D
               /\ proc'[v].number = proc'[v].in.number \/ proc'[v].number < 0
               /\ proc'[v].in.number # 0 => proc'[v].number = proc'[v].in.number
    <3>1. CASE v = w
      BY <1>4, <1>8, <1>9, <2>1, <3>1, Zenon
    <3>2. CASE v # w
      BY <1>9, <2>1, <3>2, Zenon DEF DraftsAmong
    <3> QED
      BY <3>1, <3>2, Zenon
  <2> QED
    BY <1>2, <2>1, Zenon DEF DraftsAmong
<1>11. LinesInv(D)'
  <2> SUFFICES ASSUME ~expired
               PROVE  LinesInv(D)'
    BY <1>2, Zenon DEF LinesInv
  <2>1. ASSUME NEW a \in D, NEW l \in Nat, a.number # 0
        PROVE  LineOnce(a, l)'
    <3>1. LineOnce(a, l)
      BY <2>1, Zenon DEF LinesInv
    <3>2. PICK k : k = LineKey(a.customer, l, a.number)
      BY Zenon
    <3>3. (p.in.req = a.req /\ p.line = l) <=> k = key
      <4>1. (p.in.req = a.req /\ p.line = l) <=>
               LineKey(a.customer, l, a.number) = LineKey(p.in.customer, p.line, p.number)
        BY <1>3, <1>4, <2>1, ItemMatches
      <4> QED
        BY <1>5, <3>2, <4>1, Zenon
    <3>4. CASE Known(key)
      <4>1. items' = items /\ DOMAIN keys' = DOMAIN keys
        BY <1>1, <1>6, <1>7, <3>4, Zenon DEF CreateItem, Known
      <4> QED
        BY <3>1, <4>1, Zenon DEF LineOnce, ItemsOf
    <3>5. CASE ~Known(key)
      <4>1. PICK e : e = [for |-> p.in.req, line |-> p.line, customer |-> p.in.customer, invoice |-> 0]
        BY Zenon
      <4>2. e \in ItemType /\ e.for = p.in.req /\ e.line = p.line
        <5>1. 0 \in Nat
          BY SMT
        <5>2. p.in.req \in STRING
          BY <1>3, Zenon DEF DraftInput
        <5> QED
          BY <1>3, <4>1, <5>1, <5>2, Zenon DEF ItemType
      <4>3. items' = Append(items, e)
        BY <1>1, <1>6, <3>5, <4>1, Zenon DEF CreateItem
      <4>4. /\ ~(p.in.req = a.req /\ p.line = l) => ItemsOf(a.req, l)' = ItemsOf(a.req, l)
            /\ (p.in.req = a.req /\ p.line = l) =>
                  ItemsOf(a.req, l)' = ItemsOf(a.req, l) \cup {Len(items) + 1}
        BY <4>2, <4>3, ItemAdded
      <4>5. CASE k = key
        <5>1. ItemsOf(a.req, l) = {}
          BY <3>1, <3>2, <3>5, <4>5, Zenon DEF LineOnce, Known
        <5>2. ItemsOf(a.req, l)' = {Len(items) + 1}
          BY <3>3, <4>4, <4>5, <5>1, Zenon
        <5>3. k \in DOMAIN keys'
          BY <1>7, <4>5, Zenon
        <5> QED
          BY <3>2, <5>2, <5>3, Zenon DEF LineOnce
      <4>6. CASE k # key
        <5>1. ItemsOf(a.req, l)' = ItemsOf(a.req, l)
          BY <3>3, <4>4, <4>6, Zenon
        <5>2. k \in DOMAIN keys' <=> k \in DOMAIN keys
          BY <1>7, <4>6, Zenon
        <5> QED
          BY <3>1, <3>2, <5>1, <5>2, Zenon DEF LineOnce
      <4> QED
        BY <4>5, <4>6, Zenon
    <3> QED
      BY <3>4, <3>5, Zenon
  <2>2. ASSUME NEW v \in Workers, proc'[v].op = "draft", NEW l \in 1 .. proc'[v].in.lines,
               l < proc'[v].line \/ proc'[v].pc = "invoice"
        PROVE  LineKey(proc'[v].in.customer, l, proc'[v].number) \in DOMAIN keys'
    <3>1. CASE v = w
      <4>1. q.op = "draft" /\ l \in 1 .. p.in.lines /\ (l < q.line \/ q.pc = "invoice")
        BY <1>8, <1>9, <2>2, <3>1, Zenon
      <4>2. l < p.line \/ l = p.line
        BY <1>8, <4>1, Zenon
      <4>3. LineKey(p.in.customer, l, p.number) \in DOMAIN keys'
        BY <1>1, <1>2, <1>5, <1>7, <4>1, <4>2, Zenon DEF LinesInv
      <4> QED
        BY <1>8, <1>9, <3>1, <4>1, <4>3, Zenon
    <3>2. CASE v # w
      BY <1>7, <1>9, <2>2, <3>2, Zenon DEF LinesInv
    <3> QED
      BY <3>1, <3>2, Zenon
  <2>3. ASSUME NEW a \in accepted', a.number # 0, NEW l \in 1 .. a.lines
        PROVE  LineKey(a.customer, l, a.number) \in DOMAIN keys'
    BY <1>2, <1>7, <2>3, Zenon DEF LinesInv
  <2> QED
    BY <2>1, <2>2, <2>3, Zenon DEF LinesInv, LineKey
<1> QED
  BY <1>10, <1>11, Zenon

\* The invoice of a draft takes items and makes none (CreateInvoice).
LEMMA InvoiceBilled ==
    ASSUME NEW D, DraftsAmong(D), LinesInv(D), AccountType, PaperType,
           NEW w \in Workers, CreateInvoice(w), UNCHANGED calls
    PROVE  DraftsAmong(D)' /\ LinesInv(D)'
<1>1. PICK p : p = proc[w]
  BY Zenon
<1>2. p.op = "draft" /\ p.pc = "invoice" /\ UNCHANGED expired
  BY <1>1, Zenon DEF CreateInvoice, At
<1>3. p.in \in D /\ (p.in.number # 0 => p.number = p.in.number)
  BY <1>1, <1>2, Zenon DEF DraftsAmong
<1>4. OldLines
  <2>1. Remember(KeyFor("invoice.create_draft", <<p.in.customer, p.number>>), "", 1)
    BY <1>1, Zenon DEF CreateInvoice, KeyFor
  <2>2. <<p.in.customer, p.number>> \in Seq({p.in.customer, p.number}) /\ 1 \in Nat
    <3>1. 1 \in Nat
      BY SMT
    <3> QED
      BY <3>1, Inputs, Zenon
  <2>3. NewKeys({"invoice.create_draft"})
    BY <2>1, <2>2, RemembersOp, Zenon DEF AccountType
  <2> QED
    BY <2>3, NewLines, Zenon
<1>5. proc' = [proc EXCEPT ![w] = Idle] /\ Idle \in ProcType /\ Idle.op # "draft"
  BY <1>1, <1>2, PaperFails, Zenon DEF CreateInvoice
<1>6. proc'[w] = Idle /\ \A v \in Workers \ {w} : proc'[v] = proc[v]
  BY <1>5, ProcStep, Zenon DEF AccountType
<1>7. SameDrafts
  BY <1>5, <1>6, Zenon DEF SameDrafts
<1>8. accepted' = accepted \/ accepted' = accepted \cup {p.in}
  BY <1>1, Zenon DEF CreateInvoice
<1>9. DraftsAmong(D)'
  <2>1. ASSUME NEW v \in Workers, proc'[v].op = "draft"
        PROVE  /\ proc'[v].in \in D
               /\ proc'[v].number = proc'[v].in.number \/ proc'[v].number < 0
               /\ proc'[v].in.number # 0 => proc'[v].number = proc'[v].in.number
    BY <1>7, <2>1, Zenon DEF DraftsAmong, SameDrafts
  <2> QED
    BY <1>3, <1>8, <2>1, Zenon DEF DraftsAmong
<1>10. \A r, l : ItemsOf(r, l)' = ItemsOf(r, l)
  <2>1. /\ DOMAIN items' = DOMAIN items
        /\ \A i \in DOMAIN items : items'[i] = items[i] \/ items'[i] = [items[i] EXCEPT !.invoice = drafts']
    BY Zenon DEF CreateInvoice
  <2>2. \A i \in DOMAIN items : items'[i].for = items[i].for /\ items'[i].line = items[i].line
    <3> SUFFICES ASSUME NEW i \in DOMAIN items
                 PROVE  items'[i].for = items[i].for /\ items'[i].line = items[i].line
      BY Zenon
    <3>1. PICK e : e = items[i] /\ e \in ItemType
      BY SeqElement, Zenon DEF PaperType
    <3>2. PICK f : f = [e EXCEPT !.invoice = drafts']
      BY Zenon
    <3>3. f.for = e.for /\ f.line = e.line
      BY <3>1, <3>2, Zenon DEF ItemType
    <3> QED
      BY <2>1, <3>1, <3>2, <3>3, Zenon
  <2> QED
    BY <2>1, <2>2, Zenon DEF ItemsOf
<1>11. LinesInv(D)'
  <2> SUFFICES ASSUME ~expired
               PROVE  LinesInv(D)'
    BY <1>2, Zenon DEF LinesInv
  <2>1. ASSUME NEW a \in D, NEW l \in Nat, a.number # 0
        PROVE  LineOnce(a, l)'
    <3>1. LineOnce(a, l)
      BY <2>1, Zenon DEF LinesInv
    <3>2. ItemsOf(a.req, l)' = ItemsOf(a.req, l)
      BY <1>10, Zenon
    <3> QED
      BY <1>4, <3>1, <3>2, Zenon DEF LineOnce, OldLines
  <2>2. ASSUME NEW v \in Workers, proc'[v].op = "draft", NEW l \in 1 .. proc'[v].in.lines,
               l < proc'[v].line \/ proc'[v].pc = "invoice"
        PROVE  LineKey(proc'[v].in.customer, l, proc'[v].number) \in DOMAIN keys'
    BY <1>4, <1>7, <2>2, Zenon DEF LinesInv, OldLines, SameDrafts
  <2>3. ASSUME NEW a \in accepted', a.number # 0, NEW l \in 1 .. a.lines
        PROVE  LineKey(a.customer, l, a.number) \in DOMAIN keys'
    <3>1. CASE a \in accepted
      BY <1>4, <2>3, <3>1, Zenon DEF LinesInv, OldLines
    <3>2. CASE a = p.in
      <4>1. LineKey(p.in.customer, l, p.number) \in DOMAIN keys
        BY <1>1, <1>2, <2>3, <3>2, Zenon DEF LinesInv
      <4> QED
        BY <1>3, <1>4, <2>3, <3>2, <4>1, Zenon DEF OldLines
    <3> QED
      BY <1>8, <2>3, <3>1, <3>2, Zenon
  <2> QED
    BY <2>1, <2>2, <2>3, Zenon DEF LinesInv, LineKey
<1> QED
  BY <1>9, <1>11, Zenon

\* A draft begins before its first line (CreateDraft).
LEMMA DraftBegun ==
    ASSUME NEW D, DraftsAmong(D), LinesInv(D), AccountType, PaperType, NEW w \in Workers,
           NEW in \in DraftInput, in \in D, CreateDraft(w, in), Fewer
    PROVE  DraftsAmong(D)' /\ LinesInv(D)'
<1>1. UNCHANGED <<keys, expired, items, accepted>>
  BY Zenon DEF CreateDraft, stripeVars
<1>2. PICK n : n = IF Allocates(in) THEN -(issued + 1) ELSE in.number
  BY Zenon
<1>3. issued \in Nat /\ in.number \in Nat /\ in.lines \in Nat
  BY Zenon DEF PaperType, DraftInput
<1>4. n \in Int /\ 1 \in Nat /\ (n = in.number \/ n < 0) /\ (in.number # 0 => n = in.number)
  BY <1>2, <1>3, SMT DEF Allocates
<1>5. PICK q : q = [op |-> "draft", pc |-> "item", in |-> in, line |-> 1, number |-> n]
  BY Zenon
<1>6. q \in DraftProc /\ q.in = in /\ q.number = n /\ q.line = 1 /\ q.pc = "item"
  BY <1>4, <1>5, Zenon DEF DraftProc
<1>7. q \in ProcType /\ proc' = [proc EXCEPT ![w] = q]
  BY <1>2, <1>5, <1>6, Zenon DEF CreateDraft, ProcType
<1>8. proc'[w] = q /\ \A v \in Workers \ {w} : proc'[v] = proc[v]
  BY <1>7, ProcStep, Zenon DEF AccountType
<1>9. DraftsAmong(D)'
  <2>1. \A i \in DOMAIN calls' : \E j \in DOMAIN calls : calls'[i] = calls[j]
    BY FewerCalls, Zenon DEF PaperType
  <2>2. \A i \in DOMAIN calls' : \A x \in calls'[i] : x.op = "draft" => x \in D
    BY <2>1, Zenon DEF DraftsAmong
  <2>3. ASSUME NEW v \in Workers, proc'[v].op = "draft"
        PROVE  /\ proc'[v].in \in D
               /\ proc'[v].number = proc'[v].in.number \/ proc'[v].number < 0
               /\ proc'[v].in.number # 0 => proc'[v].number = proc'[v].in.number
    <3>1. CASE v = w
      BY <1>4, <1>6, <1>8, <3>1, Zenon
    <3>2. CASE v # w
      BY <1>8, <2>3, <3>2, Zenon DEF DraftsAmong
    <3> QED
      BY <3>1, <3>2, Zenon
  <2> QED
    BY <1>1, <2>2, <2>3, Zenon DEF DraftsAmong
<1>10. LinesInv(D)'
  <2> SUFFICES ASSUME ~expired
               PROVE  LinesInv(D)'
    BY <1>1, Zenon DEF LinesInv
  <2>1. ASSUME NEW a \in D, NEW l \in Nat, a.number # 0
        PROVE  LineOnce(a, l)'
    <3>1. LineOnce(a, l)
      BY <2>1, Zenon DEF LinesInv
    <3> QED
      BY <1>1, <3>1, Zenon DEF LineOnce, ItemsOf
  <2>2. ASSUME NEW v \in Workers, proc'[v].op = "draft", NEW l \in 1 .. proc'[v].in.lines,
               l < proc'[v].line \/ proc'[v].pc = "invoice"
        PROVE  LineKey(proc'[v].in.customer, l, proc'[v].number) \in DOMAIN keys'
    <3>1. CASE v = w
      <4>1. l \in 1 .. in.lines /\ l < 1
        BY <1>6, <1>8, <2>2, <3>1, Zenon
      <4> QED
        BY <1>3, <4>1, SMT
    <3>2. CASE v # w
      BY <1>1, <1>8, <2>2, <3>2, Zenon DEF LinesInv
    <3> QED
      BY <3>1, <3>2, Zenon
  <2>3. ASSUME NEW a \in accepted', a.number # 0, NEW l \in 1 .. a.lines
        PROVE  LineKey(a.customer, l, a.number) \in DOMAIN keys'
    BY <1>1, <2>3, Zenon DEF LinesInv
  <2> QED
    BY <2>1, <2>2, <2>3, Zenon DEF LinesInv, LineKey
<1> QED
  BY <1>9, <1>10, Zenon

\* A step without items or invoices keeps what is true of those that are billed.
LEMMA BilledKept ==
    ASSUME NEW D, BilledInv(D), UNCHANGED <<items, accepted, pending>>,
           (OldLines /\ OldInvoices) \/ expired', expired => expired'
    PROVE  BilledInv(D)'
<1> SUFFICES ASSUME ~expired'
             PROVE  BilledInv(D)'
  BY Zenon DEF BilledInv
<1>1. ~expired /\ OldLines /\ OldInvoices
  BY Zenon
<1>2. \A r, l : ItemsOf(r, l)' = ItemsOf(r, l)
  BY Zenon DEF ItemsOf
<1>3. ASSUME NEW a \in D, a.number # 0
      PROVE  Charged(a)'
  BY <1>1, <1>2, <1>3, Zenon DEF BilledInv, Charged
<1>4. ASSUME NEW a \in D, a.number # 0, InvoiceKey(a.customer, a.number) \in DOMAIN keys'
      PROVE  Invoiced(a)'
  <2>1. Invoiced(a)
    BY <1>1, <1>4, Zenon DEF BilledInv, OldInvoices
  <2> QED
    BY <1>1, <1>2, <2>1, Zenon DEF Invoiced, OldLines
<1>5. ASSUME NEW a \in accepted', a.number # 0
      PROVE  InvoiceKey(a.customer, a.number) \in DOMAIN keys'
  BY <1>1, <1>5, Zenon DEF BilledInv, OldInvoices
<1> QED
  BY <1>3, <1>4, <1>5, Zenon DEF BilledInv, InvoiceKey

\* The beginning of a draft bills nothing (CreateDraft).
LEMMA DraftKept ==
    ASSUME NEW D, BilledInv(D), NEW w, NEW in, CreateDraft(w, in)
    PROVE  BilledInv(D)'
<1>1. UNCHANGED <<keys, expired, items, accepted, pending>>
  BY Zenon DEF CreateDraft, stripeVars
<1> QED
  BY <1>1, SameLines, BilledKept, Zenon

\* A line that Stripe has not seen is of no request whose invoice it knows (CreateItem).
LEMMA ItemCharged ==
    ASSUME NEW D, Coherent(D), DraftsAmong(D), BilledInv(D), AccountType, PaperType,
           NEW w \in Workers, CreateItem(w)
    PROVE  BilledInv(D)'
<1> SUFFICES ASSUME ~expired
             PROVE  BilledInv(D)'
  BY Zenon DEF BilledInv, CreateItem
<1>1. PICK p : p = proc[w]
  BY Zenon
<1>2. p.op = "draft" /\ UNCHANGED <<expired, accepted, pending>>
  BY <1>1, Zenon DEF CreateItem, At
<1>3. /\ p.in \in DraftInput /\ p.line \in Nat /\ p.number \in Int /\ p.in.customer \in Nat
  BY <1>1, <1>2, DraftFields, Zenon
<1>4. /\ p.in \in D /\ (p.number = p.in.number \/ p.number < 0)
      /\ p.in.number # 0 => p.number = p.in.number
  BY <1>1, <1>2, Zenon DEF DraftsAmong
<1>5. PICK key : key = LineKey(p.in.customer, p.line, p.number)
  BY Zenon
<1>6. ItemKey(p) = key
  BY <1>5, Zenon DEF ItemKey, LineKey
<1>7. DOMAIN keys' = DOMAIN keys \cup {key}
  <2>1. Remember(key, "", 1)
    BY <1>1, <1>6, Zenon DEF CreateItem
  <2> QED
    BY <2>1, Remembers, Zenon
<1>8. OldInvoices
  <2>1. \A c, n : InvoiceKey(c, n) # key
    <3>1. key[1] = "invoice_item.create" /\ "invoice_item.create" # "invoice.create_draft"
      BY <1>5, LineKeyOp, Zenon
    <3> QED
      BY <3>1, InvoiceKeyOp, Zenon
  <2> QED
    BY <1>7, <2>1, Zenon DEF OldInvoices
<1>9. CASE Known(key)
  <2>1. items' = items /\ DOMAIN keys' = DOMAIN keys
    BY <1>1, <1>6, <1>7, <1>9, Zenon DEF CreateItem, Known
  <2>2. OldLines
    BY <2>1, Zenon DEF OldLines
  <2> QED
    BY <1>2, <1>8, <2>1, <2>2, BilledKept, Zenon
<1>10. CASE ~Known(key)
  <2>1. PICK e : e = [for |-> p.in.req, line |-> p.line, customer |-> p.in.customer, invoice |-> 0]
    BY Zenon
  <2>2. e \in ItemType /\ e.for = p.in.req /\ e.line = p.line /\ e.customer = p.in.customer
    <3>1. 0 \in Nat
      BY SMT
    <3>2. p.in.req \in STRING
      BY <1>3, Zenon DEF DraftInput
    <3> QED
      BY <1>3, <2>1, <3>1, <3>2, Zenon DEF ItemType
  <2>3. items' = Append(items, e) /\ items \in Seq(ItemType)
    BY <1>1, <1>6, <1>10, <2>1, Zenon DEF CreateItem, PaperType
  <2>4. PICK n : n = Len(items) + 1
    BY Zenon
  <2>5. /\ n \notin DOMAIN items /\ items'[n] = e
        /\ \A i \in DOMAIN items : items'[i] = items[i]
    BY <2>2, <2>3, <2>4, SMT
  <2>6. ASSUME NEW r, NEW l
        PROVE  /\ ~(p.in.req = r /\ p.line = l) => ItemsOf(r, l)' = ItemsOf(r, l)
               /\ (p.in.req = r /\ p.line = l) => ItemsOf(r, l)' = ItemsOf(r, l) \cup {n}
    BY <2>2, <2>3, <2>4, ItemAdded
  <2>7. \A r, l : ItemsOf(r, l) \subseteq DOMAIN items
    BY Zenon DEF ItemsOf
  <2>8. ASSUME NEW a \in D, a.number # 0
        PROVE  Charged(a)'
    <3> SUFFICES ASSUME NEW l \in Nat, NEW i \in ItemsOf(a.req, l)'
                 PROVE  items'[i].customer = a.customer
      BY Zenon DEF Charged
    <3>1. CASE i \in ItemsOf(a.req, l)
      <4>1. items[i].customer = a.customer
        BY <2>8, <3>1, Zenon DEF BilledInv, Charged
      <4> QED
        BY <2>5, <2>7, <3>1, <4>1, Zenon
    <3>2. CASE i \notin ItemsOf(a.req, l)
      <4>1. p.in.req = a.req /\ i = n
        <5>1. /\ ~(p.in.req = a.req /\ p.line = l) => ItemsOf(a.req, l)' = ItemsOf(a.req, l)
              /\ (p.in.req = a.req /\ p.line = l) => ItemsOf(a.req, l)' = ItemsOf(a.req, l) \cup {n}
          BY <2>6, Zenon
        <5>2. CASE p.in.req = a.req /\ p.line = l
          BY <3>2, <5>1, <5>2, Zenon
        <5>3. CASE ~(p.in.req = a.req /\ p.line = l)
          BY <3>2, <5>1, <5>3, Zenon
        <5> QED
          BY <5>2, <5>3, Zenon
      <4>2. p.in.customer = a.customer
        BY <1>4, <2>8, <4>1, Zenon DEF Coherent
      <4> QED
        BY <2>2, <2>5, <4>1, <4>2, Zenon
    <3> QED
      BY <3>1, <3>2, Zenon
  <2>9. ASSUME NEW a \in D, a.number # 0, InvoiceKey(a.customer, a.number) \in DOMAIN keys'
        PROVE  Invoiced(a)'
    <3>1. Invoiced(a)
      BY <1>8, <2>9, Zenon DEF BilledInv, OldInvoices
    <3>2. a.lines \in Nat
      BY Zenon DEF Coherent, DraftInput
    <3> SUFFICES ASSUME NEW l \in 1 .. a.lines
                 PROVE  /\ LineKey(a.customer, l, a.number) \in DOMAIN keys'
                        /\ pending = "include" => \A i \in ItemsOf(a.req, l)' : items'[i].invoice # 0
      BY <1>2, Zenon DEF Invoiced, LineKey
    <3>3. l \in Nat
      BY <3>2, SMT
    <3>4. LineKey(a.customer, l, a.number) \in DOMAIN keys
      BY <3>1, Zenon DEF Invoiced
    <3>5. (p.in.req = a.req /\ p.line = l) <=>
             LineKey(a.customer, l, a.number) = LineKey(p.in.customer, p.line, p.number)
      BY <1>3, <1>4, <2>9, <3>3, ItemMatches
    <3>6. ~(p.in.req = a.req /\ p.line = l)
      BY <1>5, <1>10, <3>4, <3>5, Zenon DEF Known
    <3>7. ItemsOf(a.req, l)' = ItemsOf(a.req, l)
      BY <2>6, <3>6, Zenon
    <3>8. ASSUME pending = "include", NEW i \in ItemsOf(a.req, l)'
          PROVE  items'[i].invoice # 0
      BY <2>5, <2>7, <3>1, <3>7, <3>8, Zenon DEF Invoiced
    <3> QED
      BY <1>7, <3>4, <3>8, Zenon
  <2>10. ASSUME NEW a \in accepted', a.number # 0
         PROVE  InvoiceKey(a.customer, a.number) \in DOMAIN keys'
    BY <1>2, <1>8, <2>10, Zenon DEF BilledInv, OldInvoices
  <2> QED
    BY <1>2, <2>8, <2>9, <2>10, Zenon DEF BilledInv, InvoiceKey
<1> QED
  BY <1>9, <1>10, Zenon

\* A new invoice includes the pending lines of its request, which Stripe all has, and
\* a known one had included them (CreateInvoice).
LEMMA InvoiceCharged ==
    ASSUME NEW D, Coherent(D), DraftsAmong(D), LinesInv(D), BilledInv(D), AccountType, PaperType,
           NEW w \in Workers, CreateInvoice(w)
    PROVE  BilledInv(D)'
<1> SUFFICES ASSUME ~expired
             PROVE  BilledInv(D)'
  BY Zenon DEF BilledInv, CreateInvoice
<1>1. PICK p : p = proc[w]
  BY Zenon
<1>2. p.op = "draft" /\ p.pc = "invoice" /\ UNCHANGED <<expired, pending>>
  BY <1>1, Zenon DEF CreateInvoice, At
<1>3. p.number \in Int /\ p.in.customer \in Nat /\ p.in.number \in Nat /\ p.in.lines \in Nat
  BY <1>1, <1>2, DraftFields, Zenon
<1>4. /\ p.in \in D /\ (p.number = p.in.number \/ p.number < 0)
      /\ p.in.number # 0 => p.number = p.in.number
  BY <1>1, <1>2, Zenon DEF DraftsAmong
<1>5. PICK key : key = InvoiceKey(p.in.customer, p.number)
  BY Zenon
<1>6. /\ Remember(key, "", 1)
      /\ drafts' = IF Known(key) THEN drafts ELSE drafts + 1
      /\ items' = [i \in DOMAIN items |->
                      IF /\ ~Known(key) /\ pending = "include"
                         /\ items[i].customer = p.in.customer /\ items[i].invoice = 0
                      THEN [items[i] EXCEPT !.invoice = drafts'] ELSE items[i]]
      /\ accepted' = accepted \/ accepted' = accepted \cup {p.in}
  BY <1>1, <1>5, Zenon DEF CreateInvoice, InvoiceKey
<1>7. DOMAIN keys' = DOMAIN keys \cup {key}
  BY <1>6, Remembers, Zenon
<1>8. OldLines
  <2>1. \A c, l, n : LineKey(c, l, n) # key
    <3>1. key[1] = "invoice.create_draft" /\ "invoice_item.create" # "invoice.create_draft"
      BY <1>5, InvoiceKeyOp, Zenon
    <3> QED
      BY <3>1, LineKeyOp, Zenon
  <2> QED
    BY <1>7, <2>1, Zenon DEF OldLines
<1>9. ~Known(key) => drafts' # 0
  <2>1. drafts \in Nat
    BY Zenon DEF PaperType
  <2>2. drafts + 1 # 0
    BY <2>1, SMT
  <2> QED
    BY <1>6, <2>2, Zenon
<1>10. ASSUME NEW i \in DOMAIN items
       PROVE  /\ items'[i].for = items[i].for /\ items'[i].line = items[i].line
              /\ items'[i].customer = items[i].customer
              /\ items[i].invoice # 0 => items'[i].invoice # 0
              /\ ~Known(key) /\ pending = "include" /\ items[i].customer = p.in.customer =>
                    items'[i].invoice # 0
  <2>1. PICK e : e = items[i] /\ e \in ItemType
    BY SeqElement, Zenon DEF PaperType
  <2>2. PICK f : f = [e EXCEPT !.invoice = drafts']
    BY Zenon
  <2>3. f.for = e.for /\ f.line = e.line /\ f.customer = e.customer /\ f.invoice = drafts'
    BY <2>1, <2>2, Zenon DEF ItemType
  <2>4. items'[i] = IF /\ ~Known(key) /\ pending = "include"
                       /\ e.customer = p.in.customer /\ e.invoice = 0
                    THEN f ELSE e
    BY <1>6, <2>1, <2>2, Zenon
  <2> QED
    BY <1>9, <2>1, <2>3, <2>4, Zenon
<1>11. \A r, l : ItemsOf(r, l)' = ItemsOf(r, l) /\ ItemsOf(r, l) \subseteq DOMAIN items
  <2>1. DOMAIN items' = DOMAIN items
    BY <1>6, Zenon
  <2> QED
    BY <1>10, <2>1, Zenon DEF ItemsOf
<1>12. ASSUME NEW a \in D, a.number # 0
       PROVE  Charged(a) /\ Charged(a)'
  <2>1. Charged(a)
    BY <1>12, Zenon DEF BilledInv
  <2> QED
    BY <1>10, <1>11, <2>1, Zenon DEF Charged
<1>13. ASSUME NEW a \in D, a.number # 0, InvoiceKey(a.customer, a.number) \in DOMAIN keys'
       PROVE  Invoiced(a)'
  <2>1. CASE InvoiceKey(a.customer, a.number) \in DOMAIN keys
    <3>1. Invoiced(a)
      BY <1>13, <2>1, Zenon DEF BilledInv
    <3> QED
      BY <1>2, <1>8, <1>10, <1>11, <3>1, Zenon DEF Invoiced, OldLines
  <2>2. CASE InvoiceKey(a.customer, a.number) \notin DOMAIN keys
    <3>1. InvoiceKey(a.customer, a.number) = InvoiceKey(p.in.customer, p.number) /\ ~Known(key)
      BY <1>5, <1>7, <1>13, <2>2, Zenon DEF Known
    <3>2. a.customer \in Nat /\ a.number \in Nat /\ a.lines \in Nat
      BY Zenon DEF Coherent, DraftInput
    <3>3. a.customer = p.in.customer /\ a.number = p.number
      <4>1. a.customer \in Int /\ a.number \in Int /\ p.in.customer \in Int
        BY <1>3, <3>2, SMT
      <4> QED
        BY <1>3, <3>1, <4>1, InvoiceKeys
    <3>4. ~(p.number < 0)
      BY <3>2, <3>3, SMT
    <3>5. a.lines = p.in.lines
      BY <1>4, <1>13, <3>3, <3>4, Zenon DEF Coherent
    <3> SUFFICES ASSUME NEW l \in 1 .. a.lines
                 PROVE  /\ LineKey(a.customer, l, a.number) \in DOMAIN keys'
                        /\ pending = "include" => \A i \in ItemsOf(a.req, l)' : items'[i].invoice # 0
      BY <1>2, Zenon DEF Invoiced, LineKey
    <3>6. l \in Nat
      BY <3>2, SMT
    <3>7. LineKey(a.customer, l, a.number) \in DOMAIN keys
      <4>1. LineKey(p.in.customer, l, p.number) \in DOMAIN keys
        BY <1>1, <1>2, <3>5, Zenon DEF LinesInv
      <4> QED
        BY <3>3, <4>1, Zenon
    <3>8. ASSUME pending = "include", NEW i \in ItemsOf(a.req, l)'
          PROVE  items'[i].invoice # 0
      <4>1. i \in ItemsOf(a.req, l) /\ i \in DOMAIN items
        BY <1>11, <3>8, Zenon
      <4>2. items[i].customer = p.in.customer
        BY <1>12, <1>13, <3>3, <3>6, <4>1, Zenon DEF Charged
      <4> QED
        BY <1>10, <3>1, <3>8, <4>1, <4>2, Zenon
    <3> QED
      BY <1>8, <3>7, <3>8, Zenon DEF OldLines
  <2> QED
    BY <2>1, <2>2, Zenon
<1>14. ASSUME NEW a \in accepted', a.number # 0
       PROVE  InvoiceKey(a.customer, a.number) \in DOMAIN keys'
  <2>1. CASE a \in accepted
    BY <1>7, <1>14, <2>1, Zenon DEF BilledInv
  <2>2. CASE a = p.in
    BY <1>4, <1>5, <1>7, <1>14, <2>2, Zenon
  <2> QED
    BY <1>6, <1>14, <2>1, <2>2, Zenon
<1> QED
  BY <1>12, <1>13, <1>14, Zenon DEF BilledInv, InvoiceKey


\* A step of a worker that does no draft leaves the drafts under way alone.
LEMMA OtherDrafts ==
    ASSUME AccountType, NEW w \in Workers, NEW q \in ProcType, proc' = [proc EXCEPT ![w] = q],
           q.op # "draft"
    PROVE  SameDrafts
<1>1. proc'[w] = q /\ \A v \in Workers \ {w} : proc'[v] = proc[v]
  BY ProcStep, Zenon DEF AccountType
<1> QED
  BY <1>1, Zenon DEF SameDrafts

\* The other writes know no key of an item.
LEMMA WriteLines ==
    ASSUME AccountType, NEW w \in Workers, Performed(w) \/ Replayed(w) \/ Rejected(w)
    PROVE  OldLines /\ OldInvoices /\ SameDrafts /\ UNCHANGED <<items, accepted, pending, expired>>
<1>1. /\ At(w, "write", "send") /\ UNCHANGED <<items, accepted, pending, expired>>
      /\ Proceed(w) \/ Failed(w) \/ Return(w)
  BY Zenon DEF Performed, Replayed, Rejected, stripeVars, paperVars
<1>2. PICK c : c = Current(w) /\ CallGood(c)
  BY <1>1, CurrentGood, Zenon
<1>3. PICK id : UNCHANGED keys \/ Remember(c.key, c.params, id)
  BY <1>2, Zenon DEF Performed, Replayed, Rejected, stripeVars
<1>4. OldLines /\ OldInvoices
  <2>1. CASE UNCHANGED keys
    BY <2>1, SameLines, Zenon
  <2>2. CASE Remember(c.key, c.params, id)
    <3>1. DOMAIN keys' = DOMAIN keys \cup {c.key}
      BY <2>2, Remembers, Zenon
    <3>2. \A x, l, n : LineKey(x, l, n) # c.key
      BY <1>2, LineKeyOp, Zenon DEF CallGood
    <3>3. \A x, n : InvoiceKey(x, n) # c.key
      BY <1>2, InvoiceKeyOp, Zenon DEF CallGood
    <3> QED
      BY <3>1, <3>2, <3>3, Zenon DEF OldLines, OldInvoices
  <2> QED
    BY <1>3, <2>1, <2>2, Zenon
<1>5. SameDrafts
  BY <1>1, ProceedSends, OtherDrafts, Zenon DEF Sends
<1> QED
  BY <1>1, <1>4, <1>5, Zenon

\* The first call of those that may begin.
LEMMA FirstCall ==
    ASSUME calls \in Seq(SUBSET Input), calls # <<>>
    PROVE  1 \in DOMAIN calls /\ Head(calls) = calls[1] /\ Head(calls) \in SUBSET Input
BY SMT

\* Every step keeps what is true of the drafts among the requests D.
LEMMA LinesStep ==
    ASSUME BInv, NEW D, Coherent(D), DraftsAmong(D), LinesInv(D), BilledInv(D),
           [Next]_vars
    PROVE  DraftsAmong(D)' /\ LinesInv(D)' /\ BilledInv(D)'
<1>1. AccountType /\ ForgetInv /\ PaperType /\ calls \in Seq(SUBSET Input)
  BY Zenon DEF BInv, PaperType
<1>2. ASSUME Fewer, SameDrafts, UNCHANGED <<items, accepted, pending>>,
             (OldLines /\ OldInvoices) \/ expired', expired => expired'
      PROVE  DraftsAmong(D)' /\ LinesInv(D)' /\ BilledInv(D)'
  BY <1>1, <1>2, DraftsKept, LinesKept, BilledKept, Zenon
<1>3. ASSUME NEW w \in Workers, calls # <<>>, NEW in \in Head(calls), BeginCall(w, in), calls' = Tail(calls)
      PROVE  DraftsAmong(D)' /\ LinesInv(D)' /\ BilledInv(D)'
  <2>1. in \in Input /\ (in.op = "draft" => in \in D) /\ Fewer
    BY <1>1, <1>3, FirstCall, Zenon DEF DraftsAmong, Fewer
  <2>2. CASE Begin(w, in) /\ UNCHANGED paperVars
    <3>1. Other(w)
      BY <1>1, <2>1, <2>2, BeginSafe, Zenon DEF Safe
    <3>2. SameDrafts
      BY <1>1, <3>1, OtherDrafts, Zenon DEF Other
    <3>3. UNCHANGED <<keys, expired, items, accepted, pending>>
      BY <2>2, Zenon DEF Begin, CreateSession, CreateInvoiced, Forget, ImportCustomer, stripeVars, paperVars
    <3> QED
      BY <1>2, <2>1, <3>2, <3>3, SameLines, Zenon
  <2>3. CASE in.op = "draft" /\ CreateDraft(w, in)
    <3>1. in \in DraftInput /\ in \in D
      BY <2>1, <2>3, InputByOp, Zenon
    <3> QED
      BY <1>1, <2>1, <2>3, <3>1, DraftBegun, DraftKept, Zenon
  <2>4. CASE in.op = "write" /\ Write(w, in)
    <3>1. PICK cs \in Writes(in) : proc' = [proc EXCEPT ![w] = [op |-> "write", pc |-> "send", calls |-> cs]]
      BY <2>4, Zenon DEF Write
    <3>2. in \in WriteInput
      BY <2>1, <2>4, InputByOp, Zenon
    <3>3. cs \in Seq(CallSet) \ {<<>>}
      BY <1>1, <3>2, WritesType, Zenon
    <3>4. PICK q : q = [op |-> "write", pc |-> "send", calls |-> cs]
      BY Zenon
    <3>5. q \in WriteProc /\ q.op = "write"
      BY <3>3, <3>4, Zenon DEF WriteProc
    <3>6. SameDrafts
      BY <1>1, <3>1, <3>4, <3>5, OtherDrafts, Zenon DEF ProcType
    <3>7. UNCHANGED <<keys, expired, items, accepted, pending>>
      BY <2>4, Zenon DEF Write, stripeVars, paperVars
    <3> QED
      BY <1>2, <2>1, <3>6, <3>7, SameLines, Zenon
  <2> QED
    BY <1>3, <2>2, <2>3, <2>4, Zenon DEF BeginCall
<1>4. CASE AccountsNext /\ UNCHANGED <<paperVars, calls>>
  <2>1. UNCHANGED <<items, accepted, pending>> /\ Fewer
    BY <1>4, Zenon DEF paperVars, Fewer
  <2>2. CASE \E w \in Workers : AccountStep(w)
    <3>1. PICK w \in Workers : Safe(w) /\ UNCHANGED expired
      BY <1>1, <2>2, AccountSafe, Zenon
    <3>2. SameDrafts
      BY <1>1, <3>1, OtherDrafts, Zenon DEF Safe, Other
    <3>3. OldLines /\ OldInvoices
      <4>1. "invoice_item.create" \notin AccountOps /\ "invoice.create_draft" \notin AccountOps
        BY SMT DEF AccountOps
      <4> QED
        BY <3>1, <4>1, NewLines, NewInvoices, Zenon DEF Safe
    <3> QED
      BY <1>2, <2>1, <3>1, <3>2, <3>3, Zenon
  <2>3. CASE \E i \in DOMAIN sessions : Pay(i) \/ GrantFromCheckout(i)
    <3>1. UNCHANGED <<keys, proc, expired>>
      BY <2>3, Zenon DEF Pay, GrantFromCheckout
    <3> QED
      BY <1>2, <2>1, <3>1, SameLines, Zenon DEF SameDrafts
  <2>4. CASE KeysExpire
    <3>1. UNCHANGED proc /\ expired'
      BY <2>4, Zenon DEF KeysExpire
    <3> QED
      BY <1>2, <2>1, <3>1, Zenon DEF SameDrafts
  <2> QED
    BY <1>4, <2>2, <2>3, <2>4, Zenon DEF AccountsNext, AccountStep
<1>5. CASE PaperNext /\ UNCHANGED calls
  <2>1. Fewer
    BY <1>5, Zenon DEF Fewer
  <2>2. CASE \E w \in Workers : CreateItem(w)
    BY <1>1, <1>5, <2>2, ItemBilled, ItemCharged, Zenon
  <2>3. CASE \E w \in Workers : CreateInvoice(w)
    BY <1>1, <1>5, <2>3, InvoiceBilled, InvoiceCharged, Zenon
  <2>4. CASE \E w \in Workers : Performed(w) \/ Replayed(w) \/ Rejected(w)
    <3>1. OldLines /\ OldInvoices /\ SameDrafts /\ UNCHANGED <<items, accepted, pending, expired>>
      BY <1>1, <2>4, WriteLines, Zenon
    <3> QED
      BY <1>2, <2>1, <3>1, Zenon
  <2>5. CASE \E r \in DOMAIN Decisions : Decided(r)
    <3>1. UNCHANGED <<keys, proc, expired, items, accepted, pending>>
      BY <2>5, Zenon DEF Decided, accountVars, stripeVars
    <3> QED
      BY <1>2, <2>1, <3>1, SameLines, Zenon DEF SameDrafts
  <2> QED
    BY <1>5, <2>2, <2>3, <2>4, <2>5, Zenon DEF PaperNext
<1>6. CASE UNCHANGED <<accountVars, paperVars, calls>>
  <2>1. UNCHANGED <<keys, proc, expired, items, accepted, pending>> /\ Fewer
    BY <1>6, Zenon DEF accountVars, stripeVars, paperVars, Fewer
  <2> QED
    BY <1>2, <2>1, SameLines, Zenon DEF SameDrafts
<1> QED
  BY <1>3, <1>4, <1>5, <1>6, Zenon DEF Next, vars

\* The requests of a run are what its drafts are among.
LInv == \E D : Coherent(D) /\ DraftsAmong(D) /\ LinesInv(D) /\ BilledInv(D)

\* The invariant of the lines is inductive.
LEMMA LInvStep ==
    ASSUME BInv, LInv, [Next]_vars
    PROVE  LInv'
<1>1. PICK D : Coherent(D) /\ DraftsAmong(D) /\ LinesInv(D) /\ BilledInv(D)
  BY Zenon DEF LInv
<1>2. DraftsAmong(D)' /\ LinesInv(D)' /\ BilledInv(D)'
  BY <1>1, LinesStep, Zenon
<1>3. Coherent(D)'
  BY <1>1, Zenon DEF Coherent
<1> QED
  BY <1>2, <1>3, Zenon DEF LInv

\* It holds at first, with D the drafts of the behaviour's calls.
LEMMA LInvInit ==
    ASSUME Init
    PROVE  LInv
<1>1. PICK sc \in Scenarios : AccountsInit(sc.mapped, sc.faults) /\ PaperInit(sc.pending) /\ calls = sc.calls
  BY Zenon DEF Init
<1>2. PICK cs : cs = sc.calls
  BY Zenon
<1>3. /\ cs \in Seq(SUBSET Input) /\ calls = cs
      /\ \A i, j \in DOMAIN cs : \A a \in cs[i], b \in cs[j] :
            a.op = "draft" /\ b.op = "draft" /\ a.number # 0 =>
                /\ a.req = b.req <=> (a.customer = b.customer /\ a.number = b.number)
                /\ a.req = b.req => a.lines = b.lines
  <2>1. /\ sc.calls \in Seq(SUBSET Input)
        /\ \A i, j \in DOMAIN sc.calls : \A a \in sc.calls[i], b \in sc.calls[j] :
              a.op = "draft" /\ b.op = "draft" /\ a.number # 0 =>
                  /\ a.req = b.req <=> (a.customer = b.customer /\ a.number = b.number)
                  /\ a.req = b.req => a.lines = b.lines
    BY BillingAssumption, Zenon
  <2> QED
    BY <1>1, <1>2, <2>1, SMT
<1>4. PICK D : D = {in \in DraftInput : \E i \in DOMAIN cs : in \in cs[i]}
  BY Zenon
<1>5. Coherent(D)
  <2>1. \A in \in D : in \in DraftInput /\ in.op = "draft" /\ \E i \in DOMAIN cs : in \in cs[i]
    BY <1>4, Zenon DEF DraftInput
  <2>2. ASSUME NEW a \in D, NEW b \in D, a.number # 0
        PROVE  /\ a.req = b.req <=> (a.customer = b.customer /\ a.number = b.number)
               /\ a.req = b.req => a.lines = b.lines
    <3>1. PICK i \in DOMAIN cs, j \in DOMAIN cs : a \in cs[i] /\ b \in cs[j]
      BY <2>1, Zenon
    <3> QED
      BY <1>3, <2>1, <2>2, <3>1, Zenon
  <2> QED
    BY <2>1, <2>2, Zenon DEF Coherent
<1>6. /\ keys = <<>> /\ items = <<>> /\ accepted = {} /\ proc = [w \in Workers |-> Idle]
  BY <1>1, Zenon DEF AccountsInit, PaperInit
<1>7. DOMAIN <<>> = {}
  BY SMT
<1>8. \A w \in Workers : proc[w].op # "draft"
  BY <1>6, IdleFields, Zenon
<1>9. DraftsAmong(D)
  <2>1. ASSUME NEW i \in DOMAIN calls, NEW in \in calls[i], in.op = "draft"
        PROVE  in \in D
    <3>1. cs[i] \in SUBSET Input
      BY <1>3, <2>1, SeqElement, SMT
    <3>2. in \in Input
      BY <1>3, <2>1, <3>1, Zenon
    <3> QED
      BY <1>3, <1>4, <2>1, <3>2, InputByOp, Zenon
  <2> QED
    BY <1>6, <1>8, <2>1, Zenon DEF DraftsAmong
<1>10. LinesInv(D)
  <2>1. \A a, l : LineOnce(a, l)
    BY <1>6, <1>7, Zenon DEF LineOnce, ItemsOf
  <2> QED
    BY <1>6, <1>8, <2>1, Zenon DEF LinesInv
<1>11. BilledInv(D)
  BY <1>6, <1>7, Zenon DEF BilledInv, Charged, ItemsOf
<1> QED
  BY <1>5, <1>9, <1>10, <1>11, Zenon DEF LInv

\* However a draft with the caller's own number is retried within 24 hours, by however
\* many workers, each of its lines is one invoice item once it is accepted, and that
\* item is on an invoice if Stripe includes pending items by itself (CreateDraft's keys
\* in stripeapi/invoice_backend.go).
THEOREM LinesAreBilledOnce == Spec => []LinesBilledOnce
<1>1. LInv => LinesBilledOnce
  <2> SUFFICES ASSUME LInv, ~expired, NEW in \in accepted, in.number # 0, NEW l \in 1 .. in.lines
               PROVE  \E i \in ItemsOf(in.req, l) :
                         /\ ItemsOf(in.req, l) = {i}
                         /\ pending = "include" => items[i].invoice # 0
    BY Zenon DEF LinesBilledOnce
  <2>1. PICK D : Coherent(D) /\ DraftsAmong(D) /\ LinesInv(D) /\ BilledInv(D)
    BY Zenon DEF LInv
  <2>2. in \in D /\ in \in DraftInput
    BY <2>1, Zenon DEF Coherent, DraftsAmong
  <2>3. in.lines \in Nat
    BY <2>2, Zenon DEF DraftInput
  <2>4. l \in Nat
    BY <2>3, SMT
  <2>5. LineOnce(in, l) /\ Invoiced(in)
    BY <2>1, <2>2, <2>4, Zenon DEF LinesInv, BilledInv
  <2> QED
    BY <2>5, Zenon DEF LineOnce, Invoiced
<1> QED
  BY <1>1, BInvInit, BInvStep, LInvInit, LInvStep, PTL DEF Spec

-----------------------------------------------------------------------------
\* Within Billing, metering runs as it does by itself: checkouts, imports, erasures and
\* the writes to records change the mapping of customers and nothing else it has.
THEOREM BillingMeters == Spec => MeteringSpec
<1>1. Init => MeteringStart
  <2> SUFFICES ASSUME NEW sc \in Scenarios, MeteringInit(sc.lost, sc.used, sc.direct)
               PROVE  MeteringStart
    BY Zenon DEF Init
  <2> QED
    BY UsageAssumption, Zenon DEF UsageAssumption, MeteringStart
<1>2. [Next]_vars => [MeteringNext]_meterVars
  BY Zenon DEF Next, vars
<1> QED
  BY <1>1, <1>2, PTL DEF Spec, MeteringSpec

=============================================================================
