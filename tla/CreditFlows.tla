---------------------------- MODULE CreditFlows ----------------------------
(***************************************************************************)
(* The webhook handlers of package credits over the Postgres ledger:       *)
(* ApplyGrantsFromSession, ApplyRecurringGrantsFromInvoice and             *)
(* ApplyRefundReversal, each a loop of repository calls that other calls   *)
(* interleave with and that an error cuts short; the event is then         *)
(* delivered again.  A source_ref is [src, n]: the text before the first   *)
(* ":" and the rest, <<>> when the ref is a bare Stripe id.                *)
(***************************************************************************)
EXTENDS PgCreditRepo

CONSTANTS
    Workers,   \* goroutines that run webhook handlers
    Feeds      \* what may happen: [events Stripe sends, grants the application makes]

\* What Stripe sends; bought is how many units a session sold.
PendingGrant == [amount: Nat \ {0}, days: Nat, quantity: Int]
InvoiceLine == [product: STRING, amount: Nat, days: Nat]
Session == [id: STRING, kind: {"session"}, pi: STRING, bought: Nat, pending: Seq(PendingGrant)]
Invoice == [id: STRING, kind: {"invoice"}, invoice: STRING, lines: Seq(InvoiceLine)]
Reversal == [id: STRING, kind: {"refund"}, pi: STRING, charge: STRING, refund: STRING]

\* The units of a session: a quantity below 1 is 1.
UnitsOf(e, i) == 1 .. Max({1, e.pending[i].quantity})
Units(e) == UNION {{i} \X UnitsOf(e, i) : i \in DOMAIN e.pending}

\* The amounts are positive (Spec.Validate, Grant).  An event has one id; a payment
\* intent has one session, and neither an invoice nor a ref the application composes
\* has its id.
ASSUME FeedAssumption ==
    \A f \in Feeds :
        /\ f.events \subseteq Session \cup Invoice \cup Reversal
        /\ \A in \in f.app : in.amount \in Nat \ {0} /\ in.days \in Nat
        /\ \A d, e \in f.events : d.id = e.id => d = e
        /\ \A e \in f.events \cap Session :
              /\ e.bought = Cardinality(Units(e))
              /\ \A d \in f.events \cap Session : d.pi = e.pi => d = e
              /\ \A d \in f.events \cap Invoice : d.invoice # e.pi
              /\ \A in \in f.app : in.ref.src = e.pi => in.ref.n = <<>>

VARIABLES
    feed,      \* the feed of this behaviour
    run,       \* each worker's event and the repository calls it has left
    done,      \* events whose handler returned nil
    asked      \* history: application grants already made

flowVars == <<feed, run, done, asked>>
vars == <<repoVars, flowVars>>

NoRun == [event |-> "", todo |-> <<>>]

\* A faulty variant: the unit is left out of the ref.
UnitRefSameUnit(e, i, unit) == [src |-> e.pi, n |-> <<i, 0>>]

\* SourceRef is <payment intent>:<grant index>:<unit>.
UnitRef(e, i, unit) == [src |-> e.pi, n |-> <<i, unit>>]

\* The calls of a loop, the calls of each of its items in turn.
Concat(seqs) ==
    LET upTo[i \in 0 .. Len(seqs)] == IF i = 0 THEN <<>> ELSE upTo[i - 1] \o seqs[i]
    IN  upTo[Len(seqs)]

SessionCalls(e) ==
    LET calls(i) ==
            [u \in UnitsOf(e, i) |->
                [op |-> "grant", ref |-> UnitRef(e, i, u - 1),
                 amount |-> e.pending[i].amount, days |-> e.pending[i].days]]
    IN  Concat([i \in DOMAIN e.pending |-> calls(i)])

\* One call per line of a product with a RecurringGrant, ref invoice:<id>:<product>.
InvoiceCalls(e) ==
    LET granted(l) == IF l.amount = 0 THEN <<>>
                      ELSE <<[op |-> "grant", ref |-> [src |-> e.invoice, n |-> <<l.product>>],
                              amount |-> l.amount, days |-> l.days]>>
    IN  Concat([k \in DOMAIN e.lines |-> granted(e.lines[k])])

\* The payment intent, the charge and the refund id, those that are set.
Candidates(e) ==
    LET candidate(id) == IF id = "" THEN <<>>
                         ELSE <<[op |-> "find", ref |-> [src |-> id, n |-> <<>>]]>>
    IN  Concat(<<candidate(e.pi), candidate(e.charge), candidate(e.refund)>>)

Calls(e) ==
    CASE e.kind = "session" -> SessionCalls(e)
      [] e.kind = "invoice" -> InvoiceCalls(e)
      [] e.kind = "refund"  -> Candidates(e)

Init ==
    /\ RepoInit
    /\ feed \in Feeds
    /\ run = [w \in Workers |-> NoRun]
    /\ done = {}
    /\ asked = {}

\* A delivery of an event not yet processed; overlapping deliveries may run it twice.
Deliver(w, e) ==
    /\ run[w] = NoRun
    /\ e.id \notin done
    /\ run' = [run EXCEPT ![w] = [event |-> e.id, todo |-> Calls(e)]]
    /\ UNCHANGED <<repoVars, done, asked, feed>>

Rest(w) == [run[w] EXCEPT !.todo = Tail(@)]

\* A faulty variant: a ref that is granted already is an error, which ends the handler.
GrantCallStrict(w) ==
    /\ run[w].todo # <<>>
    /\ Head(run[w].todo).op = "grant"
    /\ Grant(Head(run[w].todo))
    /\ run' = [run EXCEPT ![w] = IF grants' = grants THEN NoRun ELSE Rest(w)]
    /\ UNCHANGED <<deductions, tx, sweep, clock, faults, done, asked, feed>>

\* The next repository call of the handler's loop.
GrantCall(w) ==
    /\ run[w].todo # <<>>
    /\ Head(run[w].todo).op = "grant"
    /\ Grant(Head(run[w].todo))
    /\ run' = [run EXCEPT ![w] = Rest(w)]
    /\ UNCHANGED <<deductions, tx, sweep, clock, faults, done, asked, feed>>

FindCall(w) ==
    /\ run[w].todo # <<>>
    /\ Head(run[w].todo).op = "find"
    /\ LET found == FindGrantsBySourceRef(Head(run[w].todo).ref)
           revocation(g) == IF g \in found THEN <<[op |-> "revoke", id |-> g]>> ELSE <<>>
       IN  run' = [run EXCEPT ![w].todo =
                    Concat([g \in DOMAIN grants |-> revocation(g)]) \o Tail(@)]
    /\ UNCHANGED <<repoVars, done, asked, feed>>

RevokeCall(w) ==
    /\ run[w].todo # <<>>
    /\ Head(run[w].todo).op = "revoke"
    /\ RevokeGrant(Head(run[w].todo).id)
    /\ run' = [run EXCEPT ![w] = Rest(w)]
    /\ UNCHANGED <<deductions, tx, sweep, clock, faults, done, asked, feed>>

Finish(w) ==
    /\ run[w] # NoRun
    /\ run[w].todo = <<>>
    /\ done' = done \cup {run[w].event}
    /\ run' = [run EXCEPT ![w] = NoRun]
    /\ UNCHANGED <<repoVars, asked, feed>>

\* A repository call fails or the worker dies; the event will be delivered again.
Fail(w) ==
    /\ run[w] # NoRun
    /\ faults < MaxFaults
    /\ faults' = faults + 1
    /\ run' = [run EXCEPT ![w] = NoRun]
    /\ UNCHANGED <<grants, deductions, tx, sweep, zeroed, clock, done, asked, feed>>

AppGrant(in) ==
    /\ in \notin asked
    /\ Grant(in)
    /\ asked' = asked \cup {in}
    /\ UNCHANGED <<deductions, tx, sweep, clock, faults, run, done, feed>>

Next ==
    \/ RepoNext /\ UNCHANGED flowVars
    \/ \E w \in Workers : \/ \E e \in feed.events : Deliver(w, e)
                          \/ GrantCall(w) \/ FindCall(w) \/ RevokeCall(w)
                          \/ Finish(w) \/ Fail(w)
    \/ \E in \in feed.app : AppGrant(in)

Redeliver == \E w \in Workers, e \in feed.events : Deliver(w, e)

Work(w) == GrantCall(w) \/ FindCall(w) \/ RevokeCall(w) \/ Finish(w)

\* Stripe redelivers, started workers go on, and a transaction that holds locks
\* runs to its end; nothing is assumed of the clock, the sweep or the callers.
Spec == /\ Init /\ [][Next]_vars
        /\ WF_vars(Redeliver)
        /\ \A w \in Workers : WF_vars(Work(w))
        /\ \A c \in Clients : WF_vars((SelectForUpdate(c) \/ Commit(c)) /\ UNCHANGED flowVars)

-----------------------------------------------------------------------------
GrantRefs(e) == {Calls(e)[k].ref : k \in {j \in DOMAIN Calls(e) : Calls(e)[j].op = "grant"}}

\* A paid session or invoice whose handler finished granted every unit bought, each
\* once, despite loops cut short and overlapping redeliveries; and no row has a ref that
\* neither an event nor the application's own grants name (ApplyGrantsFromSession,
\* ApplyRecurringGrantsFromInvoice, the source_ref index).
PurchasesGranted ==
    /\ \A e \in feed.events : e.id \in done =>
         \A ref \in GrantRefs(e) : Cardinality(FindGrantsBySourceRef(ref)) = 1
    /\ \A e \in feed.events : e.id \in done /\ e.kind = "session" =>
         Cardinality({g \in DOMAIN grants : grants[g].ref.src = e.pi /\ grants[g].ref.n # <<>>})
            = e.bought
    /\ \A g \in DOMAIN grants :
          \/ \E in \in feed.app : grants[g].ref = in.ref
          \/ \E e \in feed.events : grants[g].ref \in GrantRefs(e)

\* When ApplyRefundReversal looks up the grants of the refunded payment, every
\* unrevoked grant that payment made is among the ones it goes on to revoke.
RefundFindsPayment ==
    [][\A w \in Workers : FindCall(w) =>
         \A g \in DOMAIN grants :
            grants[g].ref.src = Head(run[w].todo).ref.src /\ ~grants[g].revoked
            => [op |-> "revoke", id |-> g] \in {run'[w].todo[k] :
                    k \in {j \in DOMAIN run'[w].todo : run'[w].todo[j].op = "revoke"}}]_vars

\* Every event's grants and revocations are eventually all made (redelivery after
\* each failed repository call).
EventuallyProcessed == <>(\A e \in feed.events : e.id \in done)
=============================================================================
