----------------------------- MODULE InvoiceNumbers -----------------------------
(***************************************************************************)
(* Invoice numbering: invoices.Operations.CreateDraft on top of the        *)
(* Postgres number repo (repos/postgres/invoice_number_repo.go).  Clients  *)
(* are concurrent CreateDraft calls, over all replicas; each goes through  *)
(* the statements and remote calls one at a time.  Statements may fail, a  *)
(* commit or a Stripe call may take effect and still report an error, and  *)
(* a replica may die between any two steps.  The app's scheduled job lists *)
(* numbers stuck in "issued", looks each up at Stripe and resolves it.     *)
(***************************************************************************)
EXTENDS Naturals, FiniteSets

CONSTANTS
    Prefixes,    \* sequences, e.g. one per entity and year
    Numbers,     \* formatted invoice numbers
    NoNumber,    \* placeholder
    Format,      \* [Prefixes \X Nat -> Numbers], the repo's formatter
    Invoices,    \* Stripe invoice ids
    NoInvoice,   \* placeholder
    Clients,     \* concurrent CreateDraft calls
    NoClient,    \* placeholder
    FaultyOps,   \* the calls that may fail
    MaxDrafts,   \* bound: CreateDraft calls, hence counters
    MaxFaults,   \* bound: failed calls
    MaxCrashes   \* bound: replica crashes

ASSUME NumberingAssumption ==
    /\ NoNumber \notin Numbers /\ NoInvoice \notin Invoices /\ NoClient \notin Clients
    /\ MaxDrafts \in Nat /\ MaxFaults \in Nat /\ MaxCrashes \in Nat
    /\ \A p \in Prefixes, k \in 1..MaxDrafts : Format[<<p, k>>] \in Numbers
    /\ FaultyOps \subseteq {"tx", "commit", "stripe", "ambiguous", "mark", "slow"}

VARIABLES
    rows,      \* stripe_connector_invoice_numbers
    lock,      \* [Prefixes -> ...]: holder of the prefix's advisory lock
    client,    \* the local state of each call
    carries,   \* [Invoices -> ...]: the number each Stripe invoice carries
    reported,  \* numbers the orphan hook was called with
    lost,      \* history: numbers whose call died, or was told the commit failed
    sweep,     \* the local state of the app's job
    env        \* what is left of the environment's bounds

vars == <<rows, lock, client, carries, reported, lost, sweep, env>>

RowType == [number: Numbers, prefix: Prefixes, counter: Nat \ {0},
            state: {"issued", "used", "voided"}, invoice: Invoices \cup {NoInvoice}]
ClientType == [pc: {"idle", "lock", "read", "insert", "stripe", "used", "void"},
               prefix: Prefixes, next: Nat, number: Numbers \cup {NoNumber},
               invoice: Invoices \cup {NoInvoice}]
SweepType == [pc: {"idle", "used", "void"}, number: Numbers \cup {NoNumber},
              invoice: Invoices \cup {NoInvoice}]

\* The types of the numbering state.
TypeOK ==
    /\ rows \subseteq RowType
    /\ lock \in [Prefixes -> Clients \cup {NoClient}]
    /\ client \in [Clients -> ClientType]
    /\ carries \in [Invoices -> Numbers \cup {NoNumber}]
    /\ reported \subseteq Numbers /\ lost \subseteq Numbers
    /\ sweep \in SweepType
    /\ env \in [drafts: Nat, faults: Nat, crashes: Nat]

Idle(p) == [pc |-> "idle", prefix |-> p, next |-> 0, number |-> NoNumber,
            invoice |-> NoInvoice]
NoSweep == [pc |-> "idle", number |-> NoNumber, invoice |-> NoInvoice]

Init ==
    /\ rows = {}
    /\ lock = [p \in Prefixes |-> NoClient]
    /\ client \in [Clients -> {Idle(p) : p \in Prefixes}]
    /\ carries = [i \in Invoices |-> NoNumber]
    /\ reported = {} /\ lost = {}
    /\ sweep = NoSweep
    /\ env = [drafts |-> MaxDrafts, faults |-> MaxFaults, crashes |-> MaxCrashes]

-----------------------------------------------------------------------------
Fault(op) == /\ op \in FaultyOps
             /\ env.faults > 0
             /\ env' = [env EXCEPT !.faults = @ - 1]

Goto(c, pc) == client' = [client EXCEPT ![c] = [@ EXCEPT !.pc = pc]]
Return(c) == client' = [client EXCEPT ![c] = Idle(client[c].prefix)]

\* The end of a transaction releases the advisory lock of its prefix.
EndTx(c) == lock' = [p \in Prefixes |-> IF lock[p] = c THEN NoClient ELSE lock[p]]

\* The call fails before a number is issued: rollback and return the error.
Abort(c) == Return(c) /\ EndTx(c)

\* Mutant: the WHERE clause on the prefix is gone.
IsTopOfAll(p, k) ==
    /\ \A row \in rows : row.counter <= k
    /\ k # 0 => \E row \in rows : row.counter = k

\* SELECT MAX(counter) for the prefix, 0 when it has no row.
IsTop(p, k) ==
    /\ \A row \in rows : row.prefix = p => row.counter <= k
    /\ k # 0 => \E row \in rows : row.prefix = p /\ row.counter = k

\* The primary key of the table.
Taken(n) == \E row \in rows : row.number = n

\* MarkUsed and MarkVoided on a row that is still issued, FOR UPDATE.
Resolve(n, st, i) ==
    rows' = {IF row.number = n /\ row.state = "issued"
             THEN [row EXCEPT !.state = st, !.invoice = i] ELSE row : row \in rows}

\* The answer of MarkUsed and MarkVoided: nil when the row now says the same.
Agrees(n, st, i) ==
    \E row \in rows : /\ row.number = n
                      /\ \/ row.state = "issued"
                         \/ row.state = st /\ row.invoice = i

-----------------------------------------------------------------------------
(* NumberRepo.Next.                                                        *)

\* CreateDraft with valid input and no number of its own asks for one.
CreateDraft(c, p) ==
    /\ client[c].pc = "idle"
    /\ env.drafts > 0
    /\ env' = [env EXCEPT !.drafts = @ - 1]
    /\ client' = [client EXCEPT ![c] = [Idle(p) EXCEPT !.pc = "lock"]]
    /\ UNCHANGED <<rows, lock, carries, reported, lost, sweep>>

\* pg_advisory_xact_lock on the prefix.
AcquireLock(c) ==
    LET p == client[c].prefix IN
    /\ client[c].pc = "lock"
    /\ \/ /\ lock[p] = NoClient
          /\ lock' = [lock EXCEPT ![p] = c]
          /\ Goto(c, "read")
          /\ UNCHANGED env
       \/ Fault("tx") /\ Abort(c)
    /\ UNCHANGED <<rows, carries, reported, lost, sweep>>

ReadMax(c) ==
    /\ client[c].pc = "read"
    /\ \/ \E k \in 0..(MaxDrafts - 1) :
          /\ IsTop(client[c].prefix, k)
          /\ client' = [client EXCEPT ![c] = [@ EXCEPT !.pc = "insert", !.next = k + 1]]
          /\ UNCHANGED <<lock, env>>
       \/ Fault("tx") /\ Abort(c)
    /\ UNCHANGED <<rows, carries, reported, lost, sweep>>

\* INSERT and COMMIT.  A commit that fails may have taken effect.
Insert(c) ==
    LET p == client[c].prefix
        n == Format[<<p, client[c].next>>]
        Row == [number |-> n, prefix |-> p, counter |-> client[c].next,
                state |-> "issued", invoice |-> NoInvoice]
    IN
    /\ client[c].pc = "insert"
    /\ \/ /\ ~Taken(n)
          /\ rows' = rows \cup {Row}
          /\ client' = [client EXCEPT ![c] = [@ EXCEPT !.pc = "stripe", !.number = n]]
          /\ EndTx(c)
          /\ UNCHANGED <<lost, env>>
       \/ Taken(n) /\ Abort(c) /\ UNCHANGED <<rows, lost, env>>
       \/ Fault("tx") /\ Abort(c) /\ UNCHANGED <<rows, lost>>
       \/ /\ Fault("commit") /\ ~Taken(n)
          /\ rows' = rows \cup {Row}
          /\ lost' = lost \cup {n}
          /\ Abort(c)
    /\ UNCHANGED <<carries, reported, sweep>>

-----------------------------------------------------------------------------
(* The rest of CreateDraft.                                                *)

\* Mutant: the error of backend.CreateDraft is dropped.
CallStripeUnchecked(c) ==
    /\ client[c].pc = "stripe"
    /\ Fault("stripe") /\ Goto(c, "used")
    /\ UNCHANGED <<rows, lock, carries, reported, lost, sweep>>

\* backend.CreateDraft stamps the number on a new invoice.  An error may hide
\* an invoice that was created.
CallStripe(c) ==
    LET n == client[c].number
        Create(i) == carries[i] = NoNumber /\ carries' = [carries EXCEPT ![i] = n]
    IN
    /\ client[c].pc = "stripe"
    /\ \/ \E i \in Invoices :
          /\ Create(i)
          /\ client' = [client EXCEPT ![c] = [@ EXCEPT !.pc = "used", !.invoice = i]]
          /\ UNCHANGED env
       \/ Fault("stripe") /\ Goto(c, "void") /\ UNCHANGED carries
       \/ Fault("ambiguous") /\ Goto(c, "void") /\ \E i \in Invoices : Create(i)
    /\ UNCHANGED <<rows, lock, reported, lost, sweep>>

\* MarkUsed after a success, MarkVoided after an error.  When the ledger does
\* not agree, or the call fails (maybe after its commit), the orphan is reported.
Mark(c, pc, st) ==
    LET n == client[c].number  i == client[c].invoice IN
    /\ client[c].pc = pc
    /\ \/ /\ Agrees(n, st, i)
          /\ Resolve(n, st, i)
          /\ UNCHANGED <<reported, env>>
       \/ /\ ~Agrees(n, st, i)
          /\ reported' = reported \cup {n}
          /\ UNCHANGED <<rows, env>>
       \/ /\ Fault("mark")
          /\ Resolve(n, st, i) \/ UNCHANGED rows
          /\ reported' = reported \cup {n}
    /\ Return(c)
    /\ UNCHANGED <<lock, carries, lost, sweep>>

MarkUsed(c) == Mark(c, "used", "used")

MarkVoided(c) == Mark(c, "void", "voided")

\* The replica dies; Postgres rolls back and drops the session's locks.
Crash(c) ==
    /\ client[c].pc # "idle"
    /\ env.crashes > 0
    /\ env' = [env EXCEPT !.crashes = @ - 1]
    /\ lost' = lost \cup ({client[c].number} \ {NoNumber})
    /\ Abort(c)
    /\ UNCHANGED <<rows, carries, reported, sweep>>

-----------------------------------------------------------------------------
(* The app's job.                                                          *)

InFlight(n) == \E c \in Clients : client[c].number = n

\* Mutant: only what the orphan hook was told is listed.
ListReported(n) ==
    /\ sweep.pc = "idle"
    /\ \E row \in rows : row.number = n /\ row.state = "issued"
    /\ n \in reported
    /\ \E i \in Invoices \cup {NoInvoice} :
          sweep' = [pc |-> IF i = NoInvoice THEN "void" ELSE "used", number |-> n,
                    invoice |-> i]
    /\ UNCHANGED <<rows, lock, client, carries, reported, lost, env>>

\* ListIssuedOlderThan, and a lookup at Stripe.  A call that is still in flight
\* is older than the deadline only when it is slow.
ListIssued(n) ==
    /\ sweep.pc = "idle"
    /\ \E row \in rows : row.number = n /\ row.state = "issued"
    /\ \/ ~InFlight(n) /\ UNCHANGED env
       \/ InFlight(n) /\ Fault("slow")
    /\ \/ \E i \in Invoices :
             carries[i] = n /\ sweep' = [pc |-> "used", number |-> n, invoice |-> i]
       \/ /\ \A i \in Invoices : carries[i] # n
          /\ sweep' = [pc |-> "void", number |-> n, invoice |-> NoInvoice]
    /\ UNCHANGED <<rows, lock, client, carries, reported, lost>>

ResolveOrphan ==
    /\ sweep.pc # "idle"
    /\ Resolve(sweep.number, IF sweep.pc = "used" THEN "used" ELSE "voided", sweep.invoice)
    /\ sweep' = NoSweep
    /\ UNCHANGED <<lock, client, carries, reported, lost, env>>

-----------------------------------------------------------------------------
Step(c) == \/ AcquireLock(c) \/ ReadMax(c) \/ Insert(c) \/ CallStripe(c)
           \/ MarkUsed(c) \/ MarkVoided(c)

Job == ResolveOrphan \/ \E n \in Numbers : ListIssued(n)

Next ==
    \/ \E c \in Clients, p \in Prefixes : CreateDraft(c, p)
    \/ \E c \in Clients : Step(c)
    \/ \E c \in Clients : Crash(c)
    \/ Job

Spec == Init /\ [][Next]_vars

\* Calls run on, and the app runs its job.
FairSpec == /\ Spec
            /\ \A c \in Clients : WF_vars(Step(c))
            /\ WF_vars(Job)

-----------------------------------------------------------------------------
(* Properties.                                                             *)

\* The sequence of every prefix is 1, 2, 3, ... without gaps or repeats, however
\* many calls race for a number, fail or die, and whatever the formatter does.
Gapless ==
    /\ \A row \in rows : \A k \in 1..row.counter :
          \E r \in rows : r.prefix = row.prefix /\ r.counter = k
    /\ \A r, s \in rows : (r.prefix = s.prefix /\ r.counter = s.counter)
                          \/ r.number = s.number => r = s

\* The maximum a call has read is still the maximum when it inserts: the lock
\* covers the read and the insert, through failures and crashes.
ReadIsCurrent ==
    \A c \in Clients : client[c].pc = "insert" =>
        /\ lock[client[c].prefix] = c
        /\ client[c].next > 0
        /\ IsTop(client[c].prefix, client[c].next - 1)

\* Every number is accounted for: one that is still issued belongs to a call in
\* flight, was reported to the orphan hook, or lost its call.
Accounted ==
    \A row \in rows : row.state = "issued" =>
        InFlight(row.number) \/ row.number \in reported \cup lost

\* A used number names the one Stripe invoice that carries it.
UsedIsCarried ==
    \A row \in rows : row.state = "used" =>
        row.invoice \in Invoices /\ carries[row.invoice] = row.number

\* What became of a number never changes, and no number is ever deleted.
ResolvedIsFinal ==
    [][\A row \in rows : /\ row.state # "issued" => row \in rows'
                         /\ \E r \in rows' : r.number = row.number]_vars

\* With the app's job running, no number stays issued for good.
EventuallyResolved ==
    \A n \in Numbers : Taken(n) ~> \E row \in rows : row.number = n /\ row.state # "issued"

\* The repo implements the atomic ledger of number_repo.go.
TopOf(p) == CHOOSE k \in 0..MaxDrafts : IsTop(p, k)
StatusOf(n) == IF Taken(n)
               THEN LET row == CHOOSE r \in rows : r.number = n
                    IN  [state |-> row.state, invoice |-> row.invoice]
               ELSE [state |-> "none", invoice |-> NoInvoice]

Ledger == INSTANCE NumberLedger WITH
              seq <- [p \in Prefixes |-> TopOf(p)],
              status <- [n \in Numbers |-> StatusOf(n)]

ImplementsLedger == Ledger!Spec
=============================================================================
