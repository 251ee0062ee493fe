------------------------------ MODULE NumberLedger ------------------------------
(***************************************************************************)
(* What an invoices.NumberRepo promises: the in-memory repo of             *)
(* invoices/number_repo.go, whose operations are atomic.  A number that    *)
(* was never issued has state "none".                                      *)
(***************************************************************************)
EXTENDS Naturals

CONSTANTS
    Prefixes,    \* sequences
    Numbers,     \* formatted invoice numbers
    Format,      \* [Prefixes \X Nat -> Numbers], the formatter
    Invoices,    \* Stripe invoice ids
    NoInvoice    \* no id recorded

VARIABLES
    seq,         \* [Prefixes -> Nat]: the last counter issued
    status       \* [Numbers -> ...]: what became of each number

Init == /\ seq = [p \in Prefixes |-> 0]
        /\ status = [n \in Numbers |-> [state |-> "none", invoice |-> NoInvoice]]

\* Next: count up, format, record as issued.
Next(p) ==
    /\ seq' = [seq EXCEPT ![p] = @ + 1]
    /\ status' = [status EXCEPT ![Format[<<p, seq[p] + 1>>]] =
                     [state |-> "issued", invoice |-> NoInvoice]]

\* MarkUsed and MarkVoided resolve an issued number; a number that is resolved,
\* or was never issued, is left alone.
MarkUsed(n, i) ==
    /\ status[n].state = "issued"
    /\ status' = [status EXCEPT ![n] = [state |-> "used", invoice |-> i]]
    /\ UNCHANGED seq

MarkVoided(n) ==
    /\ status[n].state = "issued"
    /\ status' = [status EXCEPT ![n] = [state |-> "voided", invoice |-> NoInvoice]]
    /\ UNCHANGED seq

Step == \/ \E p \in Prefixes : Next(p)
        \/ \E n \in Numbers, i \in Invoices : MarkUsed(n, i)
        \/ \E n \in Numbers : MarkVoided(n)

Spec == Init /\ [][Step]_<<seq, status>>
=============================================================================
