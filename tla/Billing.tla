------------------------------ MODULE Billing ------------------------------
(***************************************************************************)
(* The customer operations, the writes to a customer's records and         *)
(* metering over the one CustomerRepo: a checkout or an import gives a     *)
(* subject the customer that the others then use, or find missing.         *)
(***************************************************************************)
EXTENDS Paperwork, Metering

CONSTANT Scenarios   \* records [mapped, calls, faults, pending, lost, used, direct]

\* What an app may ask for.
LineItem == [type: STRING, grant: BOOLEAN, amount: BOOLEAN]
CheckoutInput == [op: {"checkout"}, subject: Subjects, cart: SUBSET LineItem, email: STRING,
                  urls: BOOLEAN, trial: BOOLEAN]
InvoicedInput == [op: {"invoiced"}, subject: Subjects, fee: BOOLEAN]
ForgetInput == [op: {"forget"}, subject: Subjects, canceler: BOOLEAN]
ImportInput == [op: {"import"}, subject: Subjects, customer: Nat, adopt: BOOLEAN, backfill: BOOLEAN]
DraftInput == [op: {"draft"}, req: STRING, customer: Nat, lines: Nat, number: Nat,
               repo: BOOLEAN]
WriteInput == [op: {"write"}, on: {"invoice", "quote", "dispute", "promo", "customer", "money"},
               subject: Subjects]
Input == CheckoutInput \cup InvoicedInput \cup ForgetInput \cup ImportInput
             \cup DraftInput \cup WriteInput

\* A subject has a name.  A draft that carries the caller's number is identified by
\* it, and by its customer: another call with both is a retry, with the same lines.
ASSUME BillingAssumption ==
    /\ "" \notin Subjects
    /\ \A sc \in Scenarios :
          /\ sc.mapped \in [Subjects -> Nat]
          /\ sc.calls \in Seq(SUBSET Input)
          /\ \A i, j \in DOMAIN sc.calls : \A a \in sc.calls[i], b \in sc.calls[j] :
                a.op = "draft" /\ b.op = "draft" /\ a.number # 0 =>
                    /\ a.req = b.req <=> (a.customer = b.customer /\ a.number = b.number)
                    /\ a.req = b.req => a.lines = b.lines

ASSUME UsageAssumption == \A sc \in Scenarios : sc.used \subseteq UsageInput

VARIABLE calls       \* bound: which calls may still begin, one set per call

vars == <<accountVars, paperVars, meterVars, calls>>

Init ==
    \E sc \in Scenarios :
        /\ AccountsInit(sc.mapped, sc.faults)
        /\ PaperInit(sc.pending)
        /\ MeteringInit(sc.lost, sc.used, sc.direct)
        /\ calls = sc.calls

BeginCall(w, in) ==
    \/ Begin(w, in) /\ UNCHANGED paperVars
    \/ in.op = "draft" /\ CreateDraft(w, in)
    \/ in.op = "write" /\ Write(w, in)

Next ==
    \/ /\ calls # <<>>
       /\ \E w \in Workers, in \in Head(calls) : BeginCall(w, in)
       /\ calls' = Tail(calls)
       /\ UNCHANGED meterVars
    \/ AccountsNext /\ UNCHANGED <<paperVars, meterVars, calls>>
    \/ PaperNext /\ UNCHANGED <<meterVars, calls>>
    \/ used # {} /\ MeteringNext /\ UNCHANGED <<accountVars, paperVars, calls>>

Spec == Init /\ [][Next]_vars
=============================================================================
