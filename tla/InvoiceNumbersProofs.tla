-------------------------- MODULE InvoiceNumbersProofs --------------------------
(***************************************************************************)
(* Proofs about invoice numbering, for any number of clients, prefixes,    *)
(* drafts, faults and crashes and for any formatter.  Gapless is inductive *)
(* together with Locked: a call between its read of the maximum and its    *)
(* insert holds the prefix's lock, and the maximum it read still stands.   *)
(***************************************************************************)
EXTENDS InvoiceNumbers, TLAPS

\* A call in the transaction of Next holds the lock of its prefix, and what it
\* read is current.
Locked ==
    \A c \in Clients :
        /\ client[c].pc \in {"read", "insert"} => lock[client[c].prefix] = c
        /\ client[c].pc = "insert" =>
              /\ client[c].next \in 1..MaxDrafts
              /\ IsTop(client[c].prefix, client[c].next - 1)

\* A call past Next has a number.
Numbered == \A c \in Clients : client[c].pc \in {"stripe", "used", "void"} =>
                client[c].number \in Numbers

IInv == TypeOK /\ Gapless /\ Locked /\ Numbered

\* Two versions of a row.
Same(r, s) == r.number = s.number /\ r.prefix = s.prefix /\ r.counter = s.counter

\* A step that neither adds nor removes a row.
Relabels ==
    /\ rows' \subseteq RowType
    /\ \A r \in rows : \E s \in rows' : Same(r, s)
    /\ \A s, t \in rows' : \E r, q \in rows : Same(r, s) /\ Same(q, t) /\ (r = q => s = t)

-----------------------------------------------------------------------------
\* No number is issued and no lock is held at the start.
LEMMA InitIInv == Init => IInv
<1> SUFFICES ASSUME Init PROVE IInv
  OBVIOUS
<1>1. \A p \in Prefixes : Idle(p) \in ClientType /\ Idle(p).pc = "idle"
  BY NumberingAssumption, Zenon DEF Idle, ClientType
<1>2. \A c \in Clients : client[c] \in ClientType /\ client[c].pc = "idle"
  BY <1>1, Zenon DEF Init
<1>3. client \in [Clients -> ClientType]
  BY <1>1, Zenon DEF Init
<1>4. TypeOK
  BY <1>3, NumberingAssumption, Zenon DEF Init, TypeOK, NoSweep, SweepType
<1>5. Gapless
  BY Zenon DEF Init, Gapless
<1> QED
  BY <1>2, <1>4, <1>5, Zenon DEF IInv, Locked, Numbered

\* A step that leaves the table alone.
LEMMA SameRows ==
    ASSUME TypeOK, UNCHANGED rows
    PROVE  Relabels
BY Zenon DEF TypeOK, Relabels, Same

\* Resolving a number rewrites its row in place, and only while it is issued.
LEMMA ResolveRelabels ==
    ASSUME TypeOK, NEW n, NEW st \in {"used", "voided"},
           NEW i \in Invoices \cup {NoInvoice}, Resolve(n, st, i)
    PROVE  /\ Relabels
           /\ \A row \in rows : row.state # "issued" => row \in rows'
<1> DEFINE f(row) == IF row.number = n /\ row.state = "issued"
                     THEN [row EXCEPT !.state = st, !.invoice = i] ELSE row
<1>1. \A row \in rows : row \in RowType
  BY Zenon DEF TypeOK
<1>2. \A row \in RowType : f(row) \in RowType /\ Same(row, f(row))
  BY Zenon DEF RowType, Same
<1>3. rows' = {f(row) : row \in rows}
  BY Zenon DEF Resolve
<1>4. \A row \in rows : row.state # "issued" => f(row) = row
  OBVIOUS
<1>5. \A row \in rows : f(row) \in rows'
  BY <1>3, Zenon
<1>6. \A row \in rows' : \E r \in rows : row = f(r)
  BY <1>3, Zenon
<1> HIDE DEF f
<1>7. rows' \subseteq RowType
  BY <1>1, <1>2, <1>6, Zenon
<1>8. \A r \in rows : \E s \in rows' : Same(r, s)
  BY <1>1, <1>2, <1>5, Zenon
<1>9. \A s, t \in rows' : \E r, q \in rows : Same(r, s) /\ Same(q, t) /\ (r = q => s = t)
  <2> TAKE s, t \in rows'
  <2>1. PICK r \in rows : s = f(r)
    BY <1>6, Zenon
  <2>2. PICK q \in rows : t = f(q)
    BY <1>6, Zenon
  <2>3. Same(r, s) /\ Same(q, t) /\ (r = q => s = t)
    BY <1>1, <1>2, <2>1, <2>2, Zenon
  <2> QED
    BY <2>3, Zenon
<1> QED
  BY <1>4, <1>5, <1>7, <1>8, <1>9, Zenon DEF Relabels

\* Rewriting the state of rows in place keeps the numbering gapless.
LEMMA RelabelsGapless ==
    ASSUME Gapless, Relabels
    PROVE  Gapless'
<1>1. ASSUME NEW s \in rows', NEW k \in 1..s.counter
      PROVE  \E r \in rows' : r.prefix = s.prefix /\ r.counter = k
  <2>1. PICK r \in rows : Same(r, s)
    BY Zenon DEF Relabels
  <2>2. PICK q \in rows : q.prefix = r.prefix /\ q.counter = k
    BY <2>1, Zenon DEF Gapless, Same
  <2>3. PICK t \in rows' : Same(q, t)
    BY Zenon DEF Relabels
  <2> QED
    BY <2>1, <2>2, <2>3, Zenon DEF Same
<1>2. ASSUME NEW s \in rows', NEW t \in rows',
             (s.prefix = t.prefix /\ s.counter = t.counter) \/ s.number = t.number
      PROVE  s = t
  <2>1. PICK r \in rows, q \in rows : Same(r, s) /\ Same(q, t) /\ (r = q => s = t)
    BY Zenon DEF Relabels
  <2>2. r = q
    BY <1>2, <2>1 DEF Gapless, Same
  <2> QED
    BY <2>1, <2>2, Zenon
<1> QED
  BY <1>1, <1>2, Zenon DEF Gapless

\* Rewriting the state of rows in place keeps every prefix's maximum.
LEMMA RelabelsTop ==
    ASSUME Relabels, NEW p, NEW k, IsTop(p, k)
    PROVE  IsTop(p, k)'
<1>1. \A s \in rows' : \E r \in rows : Same(r, s)
  BY Zenon DEF Relabels
<1>2. \A s \in rows' : s.prefix = p => s.counter <= k
  BY <1>1, Zenon DEF IsTop, Same
<1>3. ASSUME k # 0
      PROVE  \E s \in rows' : s.prefix = p /\ s.counter = k
  <2>1. PICK r \in rows : r.prefix = p /\ r.counter = k
    BY <1>3, Zenon DEF IsTop
  <2>2. PICK s \in rows' : Same(r, s)
    BY Zenon DEF Relabels
  <2> QED
    BY <2>1, <2>2, Zenon DEF Same
<1> QED
  BY <1>2, <1>3, Zenon DEF IsTop
-----------------------------------------------------------------------------
(* The steps of one client.                                                *)

\* A client that leaves, or stays out of, the transaction of Next.
LEMMA OutsideStep ==
    ASSUME IInv, Relabels, NEW c \in Clients,
           NEW v \in ClientType, client' = [client EXCEPT ![c] = v],
           v.pc \notin {"read", "insert"},
           v.pc \in {"stripe", "used", "void"} => v.number \in Numbers,
           \/ UNCHANGED lock /\ client[c].pc \notin {"read", "insert"}
           \/ EndTx(c)
    PROVE  Gapless' /\ Locked' /\ Numbered' /\ client' \in [Clients -> ClientType]
           /\ lock' \in [Prefixes -> Clients \cup {NoClient}]
<1> USE DEF IInv
<1>1. Gapless'
  BY RelabelsGapless, Zenon
<1>2. /\ client'[c] = v
      /\ \A d \in Clients \ {c} : client'[d] = client[d]
      /\ client' \in [Clients -> ClientType]
  BY Zenon DEF TypeOK
<1>3. \A d \in Clients : client[d].prefix \in Prefixes
  BY Zenon DEF TypeOK, ClientType
<1>4. \A p \in Prefixes, d \in Clients \ {c} : lock[p] = d => lock'[p] = d
  BY Zenon DEF EndTx
<1>5. ASSUME NEW d \in Clients \ {c}
      PROVE  /\ client'[d].pc \in {"read", "insert"} => lock'[client'[d].prefix] = d
             /\ client'[d].pc = "insert" =>
                   /\ client'[d].next \in 1..MaxDrafts
                   /\ IsTop(client[d].prefix, client[d].next - 1)
  BY <1>2, <1>3, <1>4, Zenon DEF Locked
<1>6. \A s \in rows' : \E r \in rows : Same(r, s)
  BY Zenon DEF Relabels
<1>7. ASSUME NEW d \in Clients \ {c}, client'[d].pc = "insert"
      PROVE  IsTop(client[d].prefix, client[d].next - 1)'
  <2>1. PICK p \in Prefixes : p = client[d].prefix
    BY <1>3, Zenon
  <2>2. PICK k \in Nat : k = client[d].next - 1
    BY <1>5, <1>7, <1>2, NumberingAssumption
  <2>3. IsTop(p, k)'
    BY <1>5, <1>7, <2>1, <2>2, RelabelsTop, Zenon
  <2>4. p = client'[d].prefix /\ k = client'[d].next - 1
    BY <1>2, <2>1, <2>2, Zenon
  <2> QED
    BY <2>3, <2>4, Zenon DEF IsTop
<1>8. Locked'
  BY <1>2, <1>5, <1>7, Zenon DEF Locked
<1>9. Numbered'
  BY <1>2, Zenon DEF Numbered
<1>10. lock' \in [Prefixes -> Clients \cup {NoClient}]
  BY Zenon DEF TypeOK, EndTx
<1> QED
  BY <1>1, <1>2, <1>8, <1>9, <1>10, Zenon

\* The local state of a call that has returned is well typed.
LEMMA IdleType ==
    ASSUME TypeOK, NEW c \in Clients
    PROVE  /\ Idle(client[c].prefix) \in ClientType
           /\ Idle(client[c].prefix).pc = "idle"
BY NumberingAssumption, Zenon DEF TypeOK, ClientType, Idle

\* A client that returns from CreateDraft, its transaction over.
LEMMA ReturnStep ==
    ASSUME IInv, Relabels, NEW c \in Clients, Return(c),
           \/ UNCHANGED lock /\ client[c].pc \notin {"read", "insert"}
           \/ EndTx(c)
    PROVE  Gapless' /\ Locked' /\ Numbered' /\ client' \in [Clients -> ClientType]
           /\ lock' \in [Prefixes -> Clients \cup {NoClient}]
<1> DEFINE v == Idle(client[c].prefix)
<1>1. v \in ClientType /\ v.pc = "idle"
  BY IdleType, Zenon DEF IInv
<1>2. client' = [client EXCEPT ![c] = v]
  BY Zenon DEF Return
<1> HIDE DEF v
<1> QED
  BY <1>1, <1>2, OutsideStep, Zenon

\* The updates of a client's local state.
LEMMA StripeUpdate ==
    ASSUME NEW r \in ClientType
    PROVE  /\ \A i \in Invoices :
                 LET v == [r EXCEPT !.pc = "used", !.invoice = i]
                 IN  v \in ClientType /\ v.pc = "used" /\ v.number = r.number
           /\ LET v == [r EXCEPT !.pc = "void"]
              IN  v \in ClientType /\ v.pc = "void" /\ v.number = r.number
BY Zenon DEF ClientType

\* A failed call spends one of the faults that are left.
LEMMA FaultType ==
    ASSUME TypeOK, NEW op, Fault(op)
    PROVE  env' \in [drafts: Nat, faults: Nat, crashes: Nat]
BY DEF TypeOK, Fault

\* CreateDraft begins outside the transaction of Next.
LEMMA CreateDraftStep ==
    ASSUME IInv, NEW c \in Clients, NEW p \in Prefixes, CreateDraft(c, p)
    PROVE  IInv'
<1> DEFINE v == [Idle(p) EXCEPT !.pc = "lock"]
<1>1. v \in ClientType /\ v.pc = "lock"
  BY NumberingAssumption, Zenon DEF Idle, ClientType
<1>2. client' = [client EXCEPT ![c] = v] /\ client[c].pc = "idle" /\ UNCHANGED <<rows, lock>>
  BY Zenon DEF CreateDraft
<1>3. env' \in [drafts: Nat, faults: Nat, crashes: Nat]
  BY DEF IInv, TypeOK, CreateDraft
<1> HIDE DEF v
<1>4. Gapless' /\ Locked' /\ Numbered' /\ client' \in [Clients -> ClientType]
  BY <1>1, <1>2, OutsideStep, SameRows, Zenon DEF IInv
<1> QED
  BY <1>3, <1>4, Zenon DEF IInv, TypeOK, CreateDraft

\* What a client in the transaction of Next leaves of its environment when it
\* aborts.
LEMMA AbortStep ==
    ASSUME IInv, Relabels, NEW c \in Clients, Abort(c),
           env' \in [drafts: Nat, faults: Nat, crashes: Nat],
           UNCHANGED <<carries, reported, sweep>>, lost' \subseteq Numbers
    PROVE  IInv'
<1>1. /\ Gapless' /\ Locked' /\ Numbered' /\ client' \in [Clients -> ClientType]
      /\ lock' \in [Prefixes -> Clients \cup {NoClient}]
  BY ReturnStep, Zenon DEF Abort
<1> QED
  BY <1>1, Zenon DEF IInv, TypeOK, Relabels

\* A client inside the transaction: only its own entry and its lock change.
LEMMA InsideStep ==
    ASSUME IInv, UNCHANGED <<rows, carries, reported, lost, sweep, env>>,
           NEW c \in Clients, NEW v \in ClientType,
           client' = [client EXCEPT ![c] = v],
           v.pc \in {"read", "insert"}, lock'[v.prefix] = c,
           lock' \in [Prefixes -> Clients \cup {NoClient}],
           \A p \in Prefixes, d \in Clients \ {c} : lock[p] = d => lock'[p] = d,
           v.pc = "insert" => v.next \in 1..MaxDrafts /\ IsTop(v.prefix, v.next - 1)
    PROVE  IInv'
<1> USE DEF IInv
<1>1. /\ client'[c] = v
      /\ \A d \in Clients \ {c} : client'[d] = client[d]
      /\ client' \in [Clients -> ClientType]
  BY Zenon DEF TypeOK
<1>2. \A d \in Clients : client[d].prefix \in Prefixes
  BY Zenon DEF TypeOK, ClientType
<1>3. TypeOK'
  BY <1>1, Zenon DEF TypeOK
<1>4. Gapless'
  BY Zenon DEF Gapless
<1>5. ASSUME NEW d \in Clients
      PROVE  /\ client'[d].pc \in {"read", "insert"} => lock'[client'[d].prefix] = d
             /\ client'[d].pc = "insert" =>
                   /\ client'[d].next \in 1..MaxDrafts
                   /\ IsTop(client'[d].prefix, client'[d].next - 1)
  BY <1>1, <1>2 DEF Locked
<1>6. Locked'
  BY <1>5, Zenon DEF Locked, IsTop
<1>7. Numbered'
  BY <1>1, Zenon DEF Numbered
<1> QED
  BY <1>3, <1>4, <1>6, <1>7, Zenon

\* The advisory lock is taken only from nobody.
LEMMA AcquireLockStep ==
    ASSUME IInv, NEW c \in Clients, AcquireLock(c)
    PROVE  IInv'
<1> DEFINE v == [client[c] EXCEPT !.pc = "read"]
<1>1. client[c] \in ClientType
  BY Zenon DEF IInv, TypeOK
<1>2. v \in ClientType /\ v.pc = "read" /\ v.prefix = client[c].prefix
  BY <1>1, Zenon DEF ClientType
<1>3. client[c].prefix \in Prefixes
  BY <1>1, Zenon DEF ClientType
<1>4. CASE /\ lock[client[c].prefix] = NoClient
           /\ lock' = [lock EXCEPT ![client[c].prefix] = c]
           /\ Goto(c, "read")
           /\ UNCHANGED <<rows, carries, reported, lost, sweep, env>>
  <2>1. client' = [client EXCEPT ![c] = v]
    BY <1>4, Zenon DEF Goto
  <2>2. /\ lock' \in [Prefixes -> Clients \cup {NoClient}]
        /\ lock'[v.prefix] = c
        /\ \A p \in Prefixes, d \in Clients \ {c} : lock[p] = d => lock'[p] = d
    BY <1>2, <1>3, <1>4, NumberingAssumption, Zenon DEF IInv, TypeOK
  <2> HIDE DEF v
  <2> QED
    BY <1>2, <1>4, <2>1, <2>2, InsideStep, Zenon
<1>5. CASE Fault("tx") /\ Abort(c) /\ UNCHANGED <<rows, carries, reported, lost, sweep>>
  BY <1>5, FaultType, AbortStep, SameRows, Zenon DEF IInv, TypeOK
<1> QED
  BY <1>4, <1>5, Zenon DEF AcquireLock

\* The maximum read under the lock is current.
LEMMA ReadMaxStep ==
    ASSUME IInv, NEW c \in Clients, ReadMax(c)
    PROVE  IInv'
<1>1. client[c] \in ClientType /\ client[c].pc = "read"
  BY Zenon DEF IInv, TypeOK, ReadMax
<1>2. ASSUME NEW k \in 0..(MaxDrafts - 1), IsTop(client[c].prefix, k),
             client' = [client EXCEPT ![c] = [@ EXCEPT !.pc = "insert", !.next = k + 1]],
             UNCHANGED <<rows, lock, carries, reported, lost, sweep, env>>
      PROVE  IInv'
  <2> DEFINE j == k + 1
             v == [client[c] EXCEPT !.pc = "insert", !.next = j]
  <2>1. j \in Nat /\ j \in 1..MaxDrafts /\ j - 1 = k
    BY NumberingAssumption
  <2>2. v = [client[c] EXCEPT !.pc = "insert", !.next = j] /\ client' = [client EXCEPT ![c] = v]
    BY <1>2, Zenon
  <2> HIDE DEF j, v
  <2>3. v \in ClientType /\ v.pc = "insert" /\ v.next = j /\ v.prefix = client[c].prefix
    <3>1. PICK r \in ClientType : r = client[c]
      BY <1>1, Zenon
    <3>2. v = [r EXCEPT !.pc = "insert", !.next = j]
      BY <2>2, <3>1, Zenon
    <3>3. v \in ClientType /\ v.pc = "insert" /\ v.next = j /\ v.prefix = r.prefix
      BY <2>1, <3>2, Zenon DEF ClientType
    <3> QED
      BY <3>1, <3>3, Zenon
  <2>4. lock[client[c].prefix] = c
    BY <1>1, Zenon DEF IInv, Locked
  <2>5. lock' \in [Prefixes -> Clients \cup {NoClient}] /\ UNCHANGED lock
    BY <1>2, Zenon DEF IInv, TypeOK
  <2>6. v.next \in 1..MaxDrafts /\ IsTop(v.prefix, v.next - 1)
    BY <1>2, <2>1, <2>3, Zenon
  <2> QED
    BY <1>2, <2>2, <2>3, <2>4, <2>5, <2>6, InsideStep, Zenon
<1>3. CASE Fault("tx") /\ Abort(c) /\ UNCHANGED <<rows, carries, reported, lost, sweep>>
  BY <1>3, FaultType, AbortStep, SameRows, Zenon DEF IInv, TypeOK
<1> QED
  BY <1>2, <1>3, Zenon DEF ReadMax

\* The new row is one past the top of its prefix, so it closes no gap and opens
\* none; the lock keeps every other client's maximum out of its prefix.
LEMMA InsertRow ==
    ASSUME IInv, NEW c \in Clients, client[c].pc = "insert",
           NEW row \in RowType, row.prefix = client[c].prefix,
           row.counter = client[c].next, ~Taken(row.number),
           rows' = rows \cup {row},
           NEW v \in ClientType, client' = [client EXCEPT ![c] = v],
           v.pc \notin {"read", "insert"},
           v.pc \in {"stripe", "used", "void"} => v.number \in Numbers,
           EndTx(c)
    PROVE  /\ Gapless' /\ Locked' /\ Numbered' /\ client' \in [Clients -> ClientType]
           /\ lock' \in [Prefixes -> Clients \cup {NoClient}]
           /\ rows' \subseteq RowType
<1> USE DEF IInv
<1> DEFINE p == client[c].prefix
           k == client[c].next
<1>1. /\ client'[c] = v
      /\ \A d \in Clients \ {c} : client'[d] = client[d]
      /\ client' \in [Clients -> ClientType]
  BY Zenon DEF TypeOK
<1>2. \A d \in Clients : client[d].prefix \in Prefixes
  BY Zenon DEF TypeOK, ClientType
<1>3. lock[p] = c /\ k \in 1..MaxDrafts /\ IsTop(p, k - 1)
  BY Zenon DEF Locked
<1>4. k \in Nat \ {0} /\ k - 1 \in Nat
  BY <1>3, NumberingAssumption
<1>5. \A r \in rows : r.counter \in Nat
  BY Zenon DEF TypeOK, RowType
<1>6. \A r \in rows : r.prefix = p => r.counter < k
  BY <1>3, <1>4, <1>5 DEF IsTop
<1>7. ASSUME NEW j \in 1..(k - 1)
      PROVE  \E r \in rows : r.prefix = p /\ r.counter = j
  <2>1. k - 1 # 0
    BY <1>4
  <2>2. PICK r \in rows : r.prefix = p /\ r.counter = k - 1
    BY <1>3, <2>1, Zenon DEF IsTop
  <2> QED
    BY <2>2 DEF Gapless
<1>8. Gapless'
  <2>1. ASSUME NEW s \in rows', NEW j \in 1..s.counter
        PROVE  \E r \in rows' : r.prefix = s.prefix /\ r.counter = j
    <3>1. CASE s \in rows
      BY <3>1, Zenon DEF Gapless
    <3>2. CASE s = row /\ j = k
      BY <3>2, Zenon
    <3>3. CASE s = row /\ j # k
      <4>1. j \in 1..(k - 1)
        BY <1>4, <3>3
      <4> QED
        BY <1>7, <3>3, <4>1, Zenon
    <3> QED
      BY <3>1, <3>2, <3>3, Zenon
  <2>2. ASSUME NEW s \in rows
        PROVE  /\ ~(s.prefix = row.prefix /\ s.counter = row.counter)
               /\ s.number # row.number
    BY <1>4, <1>5, <1>6 DEF Taken
  <2>3. \A s, t \in rows' : (s.prefix = t.prefix /\ s.counter = t.counter)
                            \/ s.number = t.number => s = t
    BY <2>2, ZenonT(30) DEF Gapless
  <2> QED
    BY <2>1, <2>3, Zenon DEF Gapless
<1>9. ASSUME NEW d \in Clients \ {c}
      PROVE  /\ client'[d].pc \in {"read", "insert"} => lock'[client'[d].prefix] = d
             /\ client'[d].pc = "insert" => client'[d].next \in 1..MaxDrafts
  BY <1>1, <1>2, Zenon DEF Locked, EndTx
<1>10. ASSUME NEW d \in Clients \ {c}, client'[d].pc = "insert"
       PROVE  IsTop(client[d].prefix, client[d].next - 1)'
  <2>1. client[d].pc = "insert" /\ client'[d] = client[d]
    BY <1>1, <1>10, Zenon
  <2>2. IsTop(client[d].prefix, client[d].next - 1) /\ lock[client[d].prefix] = d
    BY <2>1, Zenon DEF Locked
  <2>3. client[d].prefix # row.prefix
    BY <1>3, <2>2, Zenon
  <2> QED
    BY <2>1, <2>2, <2>3, Zenon DEF IsTop
<1>11. Locked'
  BY <1>1, <1>9, <1>10, Zenon DEF Locked
<1>12. Numbered'
  BY <1>1, Zenon DEF Numbered
<1>13. lock' \in [Prefixes -> Clients \cup {NoClient}] /\ rows' \subseteq RowType
  BY Zenon DEF TypeOK, EndTx
<1> QED
  BY <1>1, <1>8, <1>11, <1>12, <1>13, Zenon

\* INSERT extends the prefix by the next counter, under its lock, also when the
\* commit reports an error.
LEMMA InsertStep ==
    ASSUME IInv, NEW c \in Clients, Insert(c)
    PROVE  IInv'
<1> DEFINE p == client[c].prefix
           n == Format[<<p, client[c].next>>]
           row == [number |-> n, prefix |-> p, counter |-> client[c].next,
                   state |-> "issued", invoice |-> NoInvoice]
           v == [client[c] EXCEPT !.pc = "stripe", !.number = n]
           w == Idle(client[c].prefix)
<1>1. client[c] \in ClientType /\ client[c].pc = "insert"
  BY Zenon DEF IInv, TypeOK, Insert
<1>2. p \in Prefixes /\ client[c].next \in 1..MaxDrafts
  BY <1>1, Zenon DEF IInv, Locked, ClientType
<1>3. n \in Numbers /\ client[c].next \in Nat \ {0}
  BY <1>2, NumberingAssumption
<1>4. /\ row \in RowType /\ row.prefix = client[c].prefix
      /\ row.counter = client[c].next /\ row.number = n
  BY <1>2, <1>3, Zenon DEF RowType
<1>5. v \in ClientType /\ v.pc = "stripe" /\ v.number = n
  <2>1. v = [client[c] EXCEPT !.pc = "stripe", !.number = n]
    OBVIOUS
  <2> HIDE DEF v, n
  <2>2. PICK r \in ClientType : r = client[c]
    BY <1>1, Zenon
  <2>3. v = [r EXCEPT !.pc = "stripe", !.number = n]
    BY <2>1, <2>2, Zenon
  <2> QED
    BY <1>3, <2>3, Zenon DEF ClientType
<1>6. w \in ClientType /\ w.pc = "idle"
  BY IdleType, Zenon DEF IInv
<1>7. CASE /\ ~Taken(n) /\ rows' = rows \cup {row}
           /\ client' = [client EXCEPT ![c] = v]
           /\ EndTx(c)
           /\ UNCHANGED <<lost, env, carries, reported, sweep>>
  <2> HIDE DEF v, row, n, p
  <2>1. /\ Gapless' /\ Locked' /\ Numbered' /\ client' \in [Clients -> ClientType]
        /\ lock' \in [Prefixes -> Clients \cup {NoClient}]
        /\ rows' \subseteq RowType
    BY <1>1, <1>3, <1>4, <1>5, <1>7, InsertRow, Zenon
  <2> QED
    BY <1>7, <2>1, Zenon DEF IInv, TypeOK
<1>8. CASE Taken(n) /\ Abort(c) /\ UNCHANGED <<rows, lost, env, carries, reported, sweep>>
  BY <1>8, AbortStep, SameRows, Zenon DEF IInv, TypeOK
<1>9. CASE Fault("tx") /\ Abort(c) /\ UNCHANGED <<rows, lost, carries, reported, sweep>>
  BY <1>9, FaultType, AbortStep, SameRows, Zenon DEF IInv, TypeOK
<1>10. CASE /\ Fault("commit") /\ ~Taken(n) /\ rows' = rows \cup {row}
            /\ lost' = lost \cup {n} /\ Abort(c)
            /\ UNCHANGED <<carries, reported, sweep>>
  <2>1. client' = [client EXCEPT ![c] = w] /\ EndTx(c)
    BY <1>10, Zenon DEF Abort, Return
  <2>2. env' \in [drafts: Nat, faults: Nat, crashes: Nat]
    BY <1>10, FaultType, Zenon DEF IInv
  <2> HIDE DEF w, row, n, p
  <2>3. /\ Gapless' /\ Locked' /\ Numbered' /\ client' \in [Clients -> ClientType]
        /\ lock' \in [Prefixes -> Clients \cup {NoClient}]
        /\ rows' \subseteq RowType
    BY <1>1, <1>3, <1>4, <1>6, <1>10, <2>1, InsertRow, Zenon
  <2> QED
    BY <1>3, <1>10, <2>2, <2>3, Zenon DEF IInv, TypeOK
<1> QED
  BY <1>7, <1>8, <1>9, <1>10, Zenon DEF Insert

\* The call of Stripe is made outside the transaction.
LEMMA CallStripeStep ==
    ASSUME IInv, NEW c \in Clients, CallStripe(c)
    PROVE  IInv'
<1> DEFINE v(i) == [client[c] EXCEPT !.pc = "used", !.invoice = i]
           w == [client[c] EXCEPT !.pc = "void"]
<1>1. client[c] \in ClientType /\ client[c].pc = "stripe" /\ client[c].number \in Numbers
  BY Zenon DEF IInv, TypeOK, Numbered, CallStripe
<1>2. /\ \A i \in Invoices : v(i) \in ClientType /\ v(i).pc = "used"
                             /\ v(i).number = client[c].number
      /\ w \in ClientType /\ w.pc = "void" /\ w.number = client[c].number
  BY <1>1, StripeUpdate, Zenon
<1>3. Relabels /\ UNCHANGED <<rows, lock, reported, lost, sweep>>
  BY SameRows, Zenon DEF IInv, CallStripe
<1>4. carries' \in [Invoices -> Numbers \cup {NoNumber}]
  BY <1>1, Zenon DEF IInv, TypeOK, CallStripe
<1>5. env' \in [drafts: Nat, faults: Nat, crashes: Nat]
  BY FaultType, Zenon DEF IInv, TypeOK, CallStripe
<1>6. \/ \E i \in Invoices : client' = [client EXCEPT ![c] = v(i)]
      \/ client' = [client EXCEPT ![c] = w]
  BY Zenon DEF CallStripe, Goto
<1> HIDE DEF v, w
<1>7. Gapless' /\ Locked' /\ Numbered' /\ client' \in [Clients -> ClientType]
  <2>1. CASE client' = [client EXCEPT ![c] = w]
    BY <1>1, <1>2, <1>3, <2>1, OutsideStep, Zenon
  <2>2. CASE \E i \in Invoices : client' = [client EXCEPT ![c] = v(i)]
    <3>1. PICK i \in Invoices : client' = [client EXCEPT ![c] = v(i)]
      BY <2>2, Zenon
    <3> QED
      BY <1>1, <1>2, <1>3, <3>1, OutsideStep, Zenon
  <2> QED
    BY <1>6, <2>1, <2>2, Zenon
<1> QED
  BY <1>3, <1>4, <1>5, <1>7, Zenon DEF IInv, TypeOK

\* MarkUsed and MarkVoided rewrite rows in place.
LEMMA MarkStep ==
    ASSUME IInv, NEW c \in Clients, NEW pc \in {"used", "void"},
           NEW st \in {"used", "voided"}, Mark(c, pc, st)
    PROVE  IInv'
<1>1. client[c] \in ClientType /\ client[c].pc = pc
  BY Zenon DEF IInv, TypeOK, Mark
<1>2. client[c].number \in Numbers /\ client[c].invoice \in Invoices \cup {NoInvoice}
  BY <1>1, Zenon DEF IInv, Numbered, ClientType
<1>3. UNCHANGED rows \/ Resolve(client[c].number, st, client[c].invoice)
  BY Zenon DEF Mark
<1>4. Relabels
  BY <1>2, <1>3, SameRows, ResolveRelabels, Zenon DEF IInv
<1>5. /\ Gapless' /\ Locked' /\ Numbered' /\ client' \in [Clients -> ClientType]
      /\ lock' \in [Prefixes -> Clients \cup {NoClient}]
  BY <1>1, <1>4, ReturnStep, Zenon DEF Mark
<1>6. env' \in [drafts: Nat, faults: Nat, crashes: Nat]
  BY FaultType, Zenon DEF IInv, TypeOK, Mark
<1>7. reported' \subseteq Numbers
  BY <1>2, Zenon DEF IInv, TypeOK, Mark
<1> QED
  BY <1>4, <1>5, <1>6, <1>7, Zenon DEF IInv, TypeOK, Mark, Relabels

\* A crash drops the locks of the call and its transaction.
LEMMA CrashStep ==
    ASSUME IInv, NEW c \in Clients, Crash(c)
    PROVE  IInv'
<1>1. client[c].number \in Numbers \cup {NoNumber}
  BY Zenon DEF IInv, TypeOK, ClientType
<1>2. lost' \subseteq Numbers
  BY <1>1, Zenon DEF IInv, TypeOK, Crash
<1>3. env' \in [drafts: Nat, faults: Nat, crashes: Nat]
  BY DEF IInv, TypeOK, Crash
<1> QED
  BY <1>2, <1>3, AbortStep, SameRows, Zenon DEF IInv, Crash

\* The app's job touches no call.
LEMMA JobStep ==
    ASSUME IInv, Relabels, UNCHANGED <<lock, client, carries, reported, lost>>,
           sweep' \in SweepType, env' \in [drafts: Nat, faults: Nat, crashes: Nat]
    PROVE  IInv'
<1> USE DEF IInv
<1>1. TypeOK'
  BY Zenon DEF TypeOK, Relabels
<1>2. Gapless'
  BY RelabelsGapless, Zenon
<1>3. ASSUME NEW c \in Clients, client[c].pc = "insert"
      PROVE  IsTop(client[c].prefix, client[c].next - 1)'
  <2>1. PICK p \in Prefixes : p = client[c].prefix
    BY Zenon DEF TypeOK, ClientType
  <2>2. client[c].next \in 1..MaxDrafts /\ IsTop(client[c].prefix, client[c].next - 1)
    BY <1>3, Zenon DEF Locked
  <2>3. PICK k \in Nat : k = client[c].next - 1
    BY <2>2, NumberingAssumption
  <2>4. IsTop(p, k)'
    BY <2>1, <2>2, <2>3, RelabelsTop, Zenon
  <2> QED
    BY <2>1, <2>3, <2>4, Zenon DEF IsTop
<1>4. Locked'
  BY <1>3, Zenon DEF Locked
<1>5. Numbered'
  BY Zenon DEF Numbered
<1> QED
  BY <1>1, <1>2, <1>4, <1>5, Zenon

\* ListIssuedOlderThan and the lookup at Stripe only read.
LEMMA ListIssuedStep ==
    ASSUME IInv, NEW n \in Numbers, ListIssued(n)
    PROVE  IInv'
<1>1. sweep' \in SweepType
  BY DEF ListIssued, SweepType
<1>2. env' \in [drafts: Nat, faults: Nat, crashes: Nat]
  BY FaultType, Zenon DEF IInv, TypeOK, ListIssued
<1> QED
  BY <1>1, <1>2, JobStep, SameRows, Zenon DEF IInv, ListIssued

\* The app's job rewrites rows in place.
LEMMA ResolveOrphanStep ==
    ASSUME IInv, ResolveOrphan
    PROVE  IInv'
<1> DEFINE st == IF sweep.pc = "used" THEN "used" ELSE "voided"
<1>1. st \in {"used", "voided"} /\ sweep.invoice \in Invoices \cup {NoInvoice}
  BY Zenon DEF IInv, TypeOK, SweepType
<1>2. Resolve(sweep.number, st, sweep.invoice)
  BY Zenon DEF ResolveOrphan
<1> HIDE DEF st
<1>3. Relabels
  BY <1>1, <1>2, ResolveRelabels, Zenon DEF IInv
<1>4. sweep' \in SweepType
  BY Zenon DEF ResolveOrphan, NoSweep, SweepType
<1> QED
  BY <1>3, <1>4, JobStep, Zenon DEF IInv, TypeOK, ResolveOrphan

\* Every step of a call, the environment and the app's job keeps the invariant.
LEMMA NextIInv ==
    ASSUME IInv, [Next]_vars
    PROVE  IInv'
<1>1. CASE UNCHANGED vars
  BY <1>1, Zenon DEF vars, IInv, TypeOK, Gapless, Locked, Numbered, IsTop
<1>2. ASSUME NEW c \in Clients, NEW p \in Prefixes, CreateDraft(c, p)
      PROVE  IInv'
  BY <1>2, CreateDraftStep, Zenon
<1>3. ASSUME NEW c \in Clients, Step(c)
      PROVE  IInv'
  BY <1>3, AcquireLockStep, ReadMaxStep, InsertStep, CallStripeStep, MarkStep, Zenon
     DEF Step, MarkUsed, MarkVoided
<1>4. ASSUME NEW c \in Clients, Crash(c)
      PROVE  IInv'
  BY <1>4, CrashStep, Zenon
<1>5. CASE Job
  BY <1>5, ListIssuedStep, ResolveOrphanStep, Zenon DEF Job
<1> QED
  BY <1>1, <1>2, <1>3, <1>4, <1>5, Zenon DEF Next

\* The invariant holds from the empty table on.
LEMMA InvariantHolds == Spec => []IInv
<1>1. IInv /\ [Next]_vars => IInv'
  BY NextIInv, Zenon
<1> QED
  BY InitIInv, <1>1, PTL DEF Spec

-----------------------------------------------------------------------------
\* The numbering state is well typed in every behaviour.
THEOREM TypeCorrect == Spec => []TypeOK
<1>1. IInv => TypeOK
  BY Zenon DEF IInv
<1> QED
  BY InvariantHolds, <1>1, PTL

\* Every prefix is numbered 1, 2, 3, ... without gaps or repeats, for any number
\* of concurrent CreateDraft calls, any faults and crashes, and any formatter.
THEOREM NumberingIsGapless == Spec => []Gapless
<1>1. IInv => Gapless
  BY Zenon DEF IInv
<1> QED
  BY InvariantHolds, <1>1, PTL

\* The advisory lock keeps the maximum that Next read current until its insert.
THEOREM LockCoversTheRead == Spec => []ReadIsCurrent
<1>1. IInv => ReadIsCurrent
  <2> SUFFICES ASSUME IInv, NEW c \in Clients, client[c].pc = "insert"
               PROVE  /\ lock[client[c].prefix] = c
                      /\ client[c].next > 0
                      /\ IsTop(client[c].prefix, client[c].next - 1)
    BY Zenon DEF ReadIsCurrent
  <2>1. client[c].next \in 1..MaxDrafts
    BY Zenon DEF IInv, Locked
  <2> QED
    BY <2>1, NumberingAssumption DEF IInv, Locked
<1> QED
  BY InvariantHolds, <1>1, PTL

\* The audit trail is append-only: a number that is used or voided stays so, and
\* no row is deleted.
THEOREM ResolutionIsFinal == Spec => ResolvedIsFinal
<1> DEFINE Kept == \A row \in rows : /\ row.state # "issued" => row \in rows'
                                     /\ \E r \in rows' : r.number = row.number
<1>1. ASSUME TypeOK, [Next]_vars
      PROVE  Kept
  <2>1. ASSUME rows \subseteq rows'
        PROVE  Kept
    BY <2>1, Zenon
  <2>2. ASSUME NEW n, NEW st \in {"used", "voided"},
               NEW i \in Invoices \cup {NoInvoice}, Resolve(n, st, i)
        PROVE  Kept
    BY <1>1, <2>2, ResolveRelabels, Zenon DEF Relabels, Same
  <2>3. \A c \in Clients : client[c].invoice \in Invoices \cup {NoInvoice}
    BY <1>1, Zenon DEF TypeOK, ClientType
  <2>4. sweep.invoice \in Invoices \cup {NoInvoice}
    BY <1>1, Zenon DEF TypeOK, SweepType
  <2> HIDE DEF Kept
  <2>5. ASSUME NEW c \in Clients, NEW pc, NEW st \in {"used", "voided"}, Mark(c, pc, st)
        PROVE  Kept
    BY <2>1, <2>2, <2>3, <2>5, Zenon DEF Mark
  <2>6. ASSUME ResolveOrphan
        PROVE  Kept
    BY <2>2, <2>4, <2>6, Zenon DEF ResolveOrphan
  <2>7. ASSUME NEW c \in Clients, Step(c)
        PROVE  Kept
    BY <2>1, <2>5, <2>7, Zenon
       DEF Step, AcquireLock, ReadMax, Insert, CallStripe, MarkUsed, MarkVoided
  <2>8. ASSUME NEW c \in Clients, Crash(c) \/ \E p \in Prefixes : CreateDraft(c, p)
        PROVE  Kept
    BY <2>1, <2>8, Zenon DEF Crash, CreateDraft
  <2>9. ASSUME NEW n \in Numbers, ListIssued(n)
        PROVE  Kept
    BY <2>1, <2>9, Zenon DEF ListIssued
  <2>10. ASSUME UNCHANGED vars
         PROVE  Kept
    BY <2>1, <2>10, Zenon DEF vars
  <2> QED
    BY <1>1, <2>6, <2>7, <2>8, <2>9, <2>10, Zenon DEF Next, Job
<1>2. TypeOK /\ [Next]_vars => [Kept]_vars
  BY <1>1, Zenon
<1> QED
  BY TypeCorrect, <1>2, PTL DEF Spec, ResolvedIsFinal

-----------------------------------------------------------------------------
(* What becomes of an issued number: a used number is carried by an        *)
(* invoice, because whoever marks it used knows that invoice (Backed); and *)
(* a number that is still issued has a call in flight, was reported to the *)
(* orphan hook, or lost its call (Accounted).                              *)

\* Invoice i exists at Stripe and carries n.
Carried(n, i) == i \in Invoices /\ n \in Numbers /\ carries[i] = n

\* Whoever is about to mark a number used knows the invoice that carries it.
Backed ==
    /\ UsedIsCarried
    /\ \A c \in Clients : client[c].pc = "used" => Carried(client[c].number, client[c].invoice)
    /\ sweep.pc = "used" => Carried(sweep.number, sweep.invoice)

\* Stripe never takes a number off an invoice (backend.CreateDraft makes a new one).
LEMMA CarriedStays ==
    ASSUME IInv, [Next]_vars, NEW n, NEW i, Carried(n, i)
    PROVE  Carried(n, i)'
<1>1. CASE UNCHANGED carries
  BY <1>1, Zenon DEF Carried
<1>2. ASSUME NEW c \in Clients, CallStripe(c)
      PROVE  Carried(n, i)'
  BY <1>2, NumberingAssumption, Zenon DEF CallStripe, Carried, IInv, TypeOK
<1> QED
  BY <1>1, <1>2, Zenon DEF Next, vars, CreateDraft, Step, AcquireLock, ReadMax, Insert,
     MarkUsed, MarkVoided, Mark, Crash, Job, ListIssued, ResolveOrphan

\* A row that is used after Resolve was used before, or was just given the invoice.
LEMMA ResolveUsed ==
    ASSUME TypeOK, NEW n, NEW st \in {"used", "voided"},
           NEW i \in Invoices \cup {NoInvoice}, Resolve(n, st, i),
           NEW s \in rows', s.state = "used"
    PROVE  s \in rows \/ (st = "used" /\ s.number = n /\ s.invoice = i)
<1>1. PICK r \in rows : s = IF r.number = n /\ r.state = "issued"
                            THEN [r EXCEPT !.state = st, !.invoice = i] ELSE r
  BY Zenon DEF Resolve
<1>2. r \in RowType
  BY Zenon DEF TypeOK
<1> QED
  BY <1>1, <1>2, Zenon DEF RowType

\* A step whose used rows are old ones or name an invoice that carries them.
LEMMA UsedStep ==
    ASSUME IInv, Backed, [Next]_vars,
           \A s \in rows' : s.state = "used" =>
               s \in rows \/ Carried(s.number, s.invoice)
    PROVE  UsedIsCarried'
<1> SUFFICES ASSUME NEW s \in rows', s.state = "used"
             PROVE  s.invoice \in Invoices /\ carries'[s.invoice] = s.number
  BY Zenon DEF UsedIsCarried
<1>1. Carried(s.number, s.invoice)
  BY Zenon DEF Backed, UsedIsCarried, Carried, IInv, TypeOK, RowType
<1>2. Carried(s.number, s.invoice)'
  BY <1>1, CarriedStays, Zenon
<1> QED
  BY <1>2, Zenon DEF Carried

\* Every step keeps used rows, calls and the job in agreement with Stripe.
LEMMA NextBacked ==
    ASSUME IInv, Backed, [Next]_vars
    PROVE  Backed'
<1>1. \A c \in Clients : client[c] \in ClientType
  BY Zenon DEF IInv, TypeOK
<1>2. \A c \in Clients : client[c].invoice \in Invoices \cup {NoInvoice}
  BY <1>1, Zenon DEF ClientType
<1>3. sweep.invoice \in Invoices \cup {NoInvoice} /\ sweep.pc \in {"idle", "used", "void"}
  BY Zenon DEF IInv, TypeOK, SweepType
<1>4. UsedIsCarried'
  <2>1. CASE \A s \in rows' : s.state = "used" => s \in rows
    BY <2>1, UsedStep, Zenon
  <2>2. ASSUME NEW c \in Clients, MarkUsed(c)
        PROVE  UsedIsCarried'
    <3>1. Carried(client[c].number, client[c].invoice)
      BY <2>2, Zenon DEF MarkUsed, Mark, Backed
    <3>2. UNCHANGED rows \/ Resolve(client[c].number, "used", client[c].invoice)
      BY <2>2, Zenon DEF MarkUsed, Mark
    <3> QED
      BY <1>2, <2>1, <3>1, <3>2, ResolveUsed, UsedStep DEF IInv
  <2>3. ASSUME NEW c \in Clients, MarkVoided(c)
        PROVE  UsedIsCarried'
    <3>1. UNCHANGED rows \/ Resolve(client[c].number, "voided", client[c].invoice)
      BY <2>3, Zenon DEF MarkVoided, Mark
    <3> QED
      BY <1>2, <2>1, <3>1, ResolveUsed, Zenon DEF IInv
  <2>4. CASE ResolveOrphan
    <3>1. CASE sweep.pc = "used"
      BY <1>3, <2>4, <3>1, ResolveUsed, UsedStep DEF ResolveOrphan, Backed, IInv
    <3>2. CASE sweep.pc # "used"
      BY <1>3, <2>1, <2>4, <3>2, ResolveUsed, Zenon DEF ResolveOrphan, IInv
    <3> QED
      BY <3>1, <3>2, Zenon
  <2>5. ASSUME NEW c \in Clients, Insert(c)
        PROVE  UsedIsCarried'
    BY <2>1, <2>5 DEF Insert
  <2> QED
    BY <2>1, <2>2, <2>3, <2>4, <2>5, Zenon DEF Next, vars, CreateDraft, Step, AcquireLock, ReadMax,
       CallStripe, Crash, Job, ListIssued
<1>5. ASSUME NEW c \in Clients, client'[c].pc = "used"
      PROVE  Carried(client[c].number, client[c].invoice)'
  <2>1. CASE client'[c] = client[c]
    <3>1. Carried(client[c].number, client[c].invoice)
      BY <1>5, <2>1, Zenon DEF Backed
    <3>2. PICK n, i : n = client[c].number /\ i = client[c].invoice
      OBVIOUS
    <3>3. Carried(n, i)'
      BY <3>1, <3>2, CarriedStays, Zenon
    <3> QED
      BY <2>1, <3>2, <3>3, Zenon DEF Carried
  <2>2. CASE CallStripe(c) /\ client'[c] # client[c]
    <3>1. client[c].number \in Numbers
      BY <2>2, Zenon DEF CallStripe, IInv, Numbered
    <3> DEFINE v(i) == [client[c] EXCEPT !.pc = "used", !.invoice = i]
               w == [client[c] EXCEPT !.pc = "void"]
    <3>2. /\ \A i \in Invoices : v(i).number = client[c].number /\ v(i).invoice = i
          /\ w.pc = "void"
      BY <1>1, Zenon DEF ClientType
    <3>3. \/ \E i \in Invoices : /\ carries' = [carries EXCEPT ![i] = client[c].number]
                                 /\ client' = [client EXCEPT ![c] = v(i)]
          \/ client' = [client EXCEPT ![c] = w]
      BY <2>2, Zenon DEF CallStripe, Goto
    <3> HIDE DEF v, w
    <3>4. PICK i \in Invoices : /\ carries' = [carries EXCEPT ![i] = client[c].number]
                                /\ client' = [client EXCEPT ![c] = v(i)]
      BY <1>5, <3>2, <3>3, Zenon DEF IInv, TypeOK
    <3>5. client'[c] = v(i) /\ carries'[i] = client[c].number
      BY <3>4, Zenon DEF IInv, TypeOK
    <3> QED
      BY <3>1, <3>2, <3>5, Zenon DEF Carried
  <2>3. CASE ~CallStripe(c) /\ client'[c] # client[c]
    <3>1. ASSUME NEW p \in Prefixes
          PROVE  Idle(p).pc # "used" /\ [Idle(p) EXCEPT !.pc = "lock"].pc # "used"
      BY Zenon DEF Idle
    <3>2. client \in [Clients -> ClientType] /\ client[c].prefix \in Prefixes
      BY Zenon DEF IInv, TypeOK, ClientType
    <3>3. ASSUME NEW d \in Clients, d # c,
                 \/ Step(d) \/ Crash(d) \/ \E p \in Prefixes : CreateDraft(d, p)
          PROVE  client'[c] = client[c]
      BY <3>2, <3>3, Zenon DEF Step, Crash, CreateDraft, AcquireLock, ReadMax, Insert, CallStripe,
         MarkUsed, MarkVoided, Mark, Abort, Return, Goto
    <3>4. ~(\E p \in Prefixes : CreateDraft(c, p))
      BY <1>5, <3>1, <3>2, Zenon DEF CreateDraft
    <3>5. ~(Crash(c) \/ MarkUsed(c) \/ MarkVoided(c))
      BY <1>5, <3>1, <3>2, Zenon DEF Crash, MarkUsed, MarkVoided, Mark, Abort, Return
    <3>6. ~(AcquireLock(c) \/ ReadMax(c) \/ Insert(c))
      BY <1>1, <1>5, <3>1, <3>2, Zenon DEF AcquireLock, ReadMax, Insert, Abort, Return, Goto, ClientType
    <3> QED
      BY <2>3, <3>3, <3>4, <3>5, <3>6, Zenon DEF Next, vars, Step, Job, ListIssued, ResolveOrphan
  <2> QED
    BY <2>1, <2>2, <2>3, Zenon
<1>6. ASSUME sweep'.pc = "used"
      PROVE  Carried(sweep.number, sweep.invoice)'
  <2>1. CASE UNCHANGED sweep
    <3>1. PICK n, i : n = sweep.number /\ i = sweep.invoice
      OBVIOUS
    <3>2. Carried(n, i)'
      BY <1>6, <2>1, <3>1, CarriedStays, Zenon DEF Backed
    <3> QED
      BY <2>1, <3>1, <3>2, Zenon DEF Carried
  <2>2. ASSUME NEW n \in Numbers, ListIssued(n)
        PROVE  Carried(sweep.number, sweep.invoice)'
    BY <1>6, <2>2 DEF ListIssued, Carried
  <2>3. ~ResolveOrphan
    BY <1>6 DEF ResolveOrphan, NoSweep
  <2> QED
    BY <2>1, <2>2, <2>3, Zenon DEF Next, vars, CreateDraft, Step, AcquireLock, ReadMax, Insert,
       CallStripe, MarkUsed, MarkVoided, Mark, Crash, Job
<1> QED
  BY <1>4, <1>5, <1>6, Zenon DEF Backed

\* A number marked used names an invoice that carries it at Stripe, whatever calls
\* fail, die or are overtaken by the app's job.
THEOREM UsedNumbersAreCarried == Spec => []UsedIsCarried
<1>1. Init => Backed
  BY DEF Init, Backed, UsedIsCarried, NoSweep, Idle
<1>2. IInv /\ Backed /\ [Next]_vars => Backed'
  BY NextBacked, Zenon
<1>3. Backed => UsedIsCarried
  BY Zenon DEF Backed
<1> QED
  BY InvariantHolds, <1>1, <1>2, <1>3, PTL DEF Spec

-----------------------------------------------------------------------------
(* Which numbers are left issued.                                          *)

Issued(n) == \E row \in rows : row.number = n /\ row.state = "issued"

\* A call has no number before its insert; its local state is otherwise clean.
Unnumbered == \A c \in Clients : client[c].pc \in {"idle", "lock", "read", "insert"} =>
                  client[c].number = NoNumber

\* Every step keeps calls that have not inserted without a number.
LEMMA NextUnnumbered ==
    ASSUME IInv, Unnumbered, [Next]_vars
    PROVE  Unnumbered'
<1> SUFFICES ASSUME NEW c \in Clients, client'[c].pc \in {"idle", "lock", "read", "insert"}
             PROVE  client'[c].number = NoNumber
  BY Zenon DEF Unnumbered
<1>1. client[c] \in ClientType /\ client \in [Clients -> ClientType]
  BY Zenon DEF IInv, TypeOK
<1>2. CASE client'[c] = client[c]
  BY <1>2, Zenon DEF Unnumbered
<1>3. ASSUME NEW p, client' = [client EXCEPT ![c] = Idle(p)]
      PROVE  client'[c].number = NoNumber
  BY <1>1, <1>3, Zenon DEF Idle
<1>4. ASSUME NEW p \in Prefixes, CreateDraft(c, p)
      PROVE  client'[c].number = NoNumber
  BY <1>1, <1>4, Zenon DEF CreateDraft, Idle
<1>5. CASE AcquireLock(c)
  BY <1>1, <1>3, <1>5, Zenon DEF AcquireLock, Abort, Return, Goto, ClientType, Unnumbered
<1>6. CASE ReadMax(c)
  <2>1. ASSUME NEW k \in 0..(MaxDrafts - 1),
               client' = [client EXCEPT ![c] = [@ EXCEPT !.pc = "insert", !.next = k + 1]]
        PROVE  client'[c].number = NoNumber
    <3> DEFINE v == [client[c] EXCEPT !.pc = "insert", !.next = k + 1]
    <3>1. client[c].number = NoNumber /\ v.number = client[c].number
      BY <1>1, <1>6, Zenon DEF ReadMax, Unnumbered, ClientType
    <3>2. client'[c] = v
      BY <1>1, <2>1, Zenon
    <3> QED
      BY <3>1, <3>2, Zenon
  <2> QED
    BY <1>3, <1>6, <2>1, Zenon DEF ReadMax, Abort, Return
<1>7. CASE Insert(c)
  <2> DEFINE n == Format[<<client[c].prefix, client[c].next>>]
             v == [client[c] EXCEPT !.pc = "stripe", !.number = n]
  <2>1. v.pc = "stripe"
    BY <1>1, Zenon DEF ClientType
  <2>2. client' = [client EXCEPT ![c] = v] \/ client' = [client EXCEPT ![c] = Idle(client[c].prefix)]
    BY <1>7, Zenon DEF Insert, Abort, Return
  <2> HIDE DEF v
  <2>3. client' # [client EXCEPT ![c] = v]
    BY <1>1, <2>1, Zenon
  <2> QED
    BY <1>3, <2>2, <2>3, Zenon
<1>8. CASE CallStripe(c)
  <2> DEFINE v(i) == [client[c] EXCEPT !.pc = "used", !.invoice = i]
             w == [client[c] EXCEPT !.pc = "void"]
  <2>1. (\A i \in Invoices : v(i).pc = "used") /\ w.pc = "void"
    BY <1>1, Zenon DEF ClientType
  <2>2. \/ \E i \in Invoices : client' = [client EXCEPT ![c] = v(i)]
        \/ client' = [client EXCEPT ![c] = w]
    BY <1>8, Zenon DEF CallStripe, Goto
  <2> HIDE DEF v, w
  <2> QED
    BY <1>1, <2>1, <2>2, Zenon
<1>9. CASE MarkUsed(c) \/ MarkVoided(c) \/ Crash(c)
  BY <1>3, <1>9, Zenon DEF MarkUsed, MarkVoided, Mark, Crash, Abort, Return
<1>10. ASSUME NEW d \in Clients, d # c,
              \/ Step(d) \/ Crash(d) \/ \E p \in Prefixes : CreateDraft(d, p)
       PROVE  client'[c] = client[c]
  BY <1>1, <1>10, Zenon DEF Step, Crash, CreateDraft, AcquireLock, ReadMax, Insert, CallStripe,
     MarkUsed, MarkVoided, Mark, Abort, Return, Goto
<1> QED
  BY <1>2, <1>4, <1>5, <1>6, <1>7, <1>8, <1>9, <1>10, Zenon
     DEF Next, vars, Step, Job, ListIssued, ResolveOrphan

\* Resolving a number leaves no issued row of it and issues nothing.
LEMMA ResolveIssued ==
    ASSUME TypeOK, NEW n, NEW st \in {"used", "voided"},
           NEW i \in Invoices \cup {NoInvoice}, Resolve(n, st, i)
    PROVE  \A m : Issued(m)' => Issued(m) /\ m # n
<1> SUFFICES ASSUME NEW m, NEW s \in rows', s.number = m, s.state = "issued"
             PROVE  Issued(m) /\ m # n
  BY Zenon DEF Issued
<1>1. PICK r \in rows : s = IF r.number = n /\ r.state = "issued"
                            THEN [r EXCEPT !.state = st, !.invoice = i] ELSE r
  BY Zenon DEF Resolve
<1>2. r \in RowType
  BY Zenon DEF TypeOK
<1>3. s = r /\ ~(r.number = n /\ r.state = "issued")
  BY <1>1, <1>2, Zenon DEF RowType
<1> QED
  BY <1>3, Zenon DEF Issued

\* A step in which only c's call changes, c's number is taken care of, and no other
\* number becomes issued.
LEMMA AccountedStep ==
    ASSUME IInv, Accounted, NEW c \in Clients, NEW v, client' = [client EXCEPT ![c] = v],
           reported \subseteq reported', lost \subseteq lost',
           \A m \in Numbers : Issued(m)' =>
               \/ m = v.number \/ m \in reported' \cup lost'
               \/ Issued(m) /\ m # client[c].number,
           rows' \subseteq RowType
    PROVE  Accounted'
<1> SUFFICES ASSUME NEW s \in rows', s.state = "issued"
             PROVE  InFlight(s.number)' \/ s.number \in reported' \cup lost'
  BY Zenon DEF Accounted
<1>0. PICK m : m = s.number
  OBVIOUS
<1>1. m \in Numbers /\ Issued(m)'
  BY <1>0, Zenon DEF RowType, Issued
<1>2. client'[c] = v /\ \A d \in Clients \ {c} : client'[d] = client[d]
  BY Zenon DEF IInv, TypeOK
<1>3. CASE Issued(m) /\ m # client[c].number
  BY <1>0, <1>2, <1>3 DEF Issued, Accounted, InFlight
<1>4. CASE m = v.number
  BY <1>0, <1>2, <1>4, Zenon DEF InFlight
<1> QED
  BY <1>0, <1>1, <1>3, <1>4, Zenon

\* A step that touches no call and issues nothing.
LEMMA AccountedKept ==
    ASSUME IInv, Accounted, UNCHANGED <<client, reported, lost>>,
           \A m : Issued(m)' => Issued(m)
    PROVE  Accounted'
BY ZenonT(30) DEF Accounted, Issued, InFlight

\* Every step accounts for the numbers it leaves behind.
LEMMA NextAccounted ==
    ASSUME IInv, IInv', Unnumbered, Accounted, [Next]_vars
    PROVE  Accounted'
<1>1. /\ \A c \in Clients : client[c] \in ClientType
      /\ client \in [Clients -> ClientType]
      /\ rows' \subseteq RowType
  BY Zenon DEF IInv, TypeOK
<1>2. \A c \in Clients : client[c].invoice \in Invoices \cup {NoInvoice}
  BY <1>1, Zenon DEF ClientType
<1>3. UNCHANGED rows => \A m : Issued(m)' => Issued(m)
  BY Zenon DEF Issued
<1>4. ASSUME NEW c \in Clients, NEW v, client' = [client EXCEPT ![c] = v], UNCHANGED rows,
             reported \subseteq reported', lost \subseteq lost',
             client[c].number \in {NoNumber, v.number} \cup lost'
      PROVE  Accounted'
  BY <1>1, <1>3, <1>4, AccountedStep, NumberingAssumption, Zenon
<1>5. ASSUME NEW c \in Clients, NEW p \in Prefixes, CreateDraft(c, p)
      PROVE  Accounted'
  <2>1. PICK v : client' = [client EXCEPT ![c] = v]
    BY <1>5, Zenon DEF CreateDraft
  <2> QED
    BY <1>4, <1>5, <2>1, Zenon DEF CreateDraft, Unnumbered
<1>6. ASSUME NEW c \in Clients, AcquireLock(c) \/ ReadMax(c)
      PROVE  Accounted'
  <2>1. PICK v : client' = [client EXCEPT ![c] = v]
    BY <1>6, Zenon DEF AcquireLock, ReadMax, Abort, Return, Goto
  <2> QED
    BY <1>4, <1>6, <2>1, Zenon DEF AcquireLock, ReadMax, Unnumbered
<1>7. ASSUME NEW c \in Clients, Insert(c)
      PROVE  Accounted'
  <2> DEFINE n == Format[<<client[c].prefix, client[c].next>>]
             v == [client[c] EXCEPT !.pc = "stripe", !.number = n]
             row == [number |-> n, prefix |-> client[c].prefix, counter |-> client[c].next,
                     state |-> "issued", invoice |-> NoInvoice]
  <2>1. client[c].number = NoNumber
    BY <1>7, Zenon DEF Insert, Unnumbered
  <2>2. v.number = n /\ row.number = n
    BY <1>1, Zenon DEF ClientType
  <2>3. \/ /\ rows' = rows \cup {row} /\ client' = [client EXCEPT ![c] = v]
           /\ UNCHANGED <<reported, lost>>
        \/ UNCHANGED <<rows, reported, lost>> /\ Return(c)
        \/ rows' = rows \cup {row} /\ lost' = lost \cup {n} /\ UNCHANGED reported /\ Return(c)
    BY <1>7, Zenon DEF Insert, Abort
  <2> HIDE DEF n, v, row
  <2>4. CASE UNCHANGED <<rows, reported, lost>> /\ Return(c)
    BY <1>4, <2>1, <2>4, Zenon DEF Return
  <2>5. rows' = rows \cup {row} => \A m : Issued(m)' => Issued(m) \/ m = n
    BY <2>2, Zenon DEF Issued
  <2>6. CASE /\ rows' = rows \cup {row} /\ client' = [client EXCEPT ![c] = v]
             /\ UNCHANGED <<reported, lost>>
    BY <1>1, <2>1, <2>2, <2>5, <2>6, AccountedStep, NumberingAssumption, Zenon
  <2>7. CASE rows' = rows \cup {row} /\ lost' = lost \cup {n} /\ UNCHANGED reported /\ Return(c)
    <3>1. PICK u : client' = [client EXCEPT ![c] = u]
      BY <2>7, Zenon DEF Return
    <3> QED
      BY <1>1, <2>1, <2>5, <2>7, <3>1, AccountedStep, NumberingAssumption, Zenon
  <2> QED
    BY <2>3, <2>4, <2>6, <2>7, Zenon
<1>8. ASSUME NEW c \in Clients, CallStripe(c)
      PROVE  Accounted'
  <2> DEFINE v(i) == [client[c] EXCEPT !.pc = "used", !.invoice = i]
             w == [client[c] EXCEPT !.pc = "void"]
  <2>1. /\ \A i \in Invoices : v(i).number = client[c].number
        /\ w.number = client[c].number
    BY <1>1, Zenon DEF ClientType
  <2>2. \/ \E i \in Invoices : client' = [client EXCEPT ![c] = v(i)]
        \/ client' = [client EXCEPT ![c] = w]
    BY <1>8, Zenon DEF CallStripe, Goto
  <2> HIDE DEF v, w
  <2>3. PICK u : client' = [client EXCEPT ![c] = u] /\ u.number = client[c].number
    BY <2>1, <2>2, Zenon
  <2> QED
    BY <1>4, <1>8, <2>3, Zenon DEF CallStripe
<1>9. ASSUME NEW c \in Clients, NEW pc, NEW st \in {"used", "voided"}, Mark(c, pc, st)
      PROVE  Accounted'
  <2>0. PICK n : n = client[c].number
    OBVIOUS
  <2>1. PICK u : client' = [client EXCEPT ![c] = u]
    BY <1>9, Zenon DEF Mark, Return
  <2>2. UNCHANGED rows \/ Resolve(n, st, client[c].invoice)
    BY <1>9, <2>0, Zenon DEF Mark
  <2>3. \A m : Issued(m)' => Issued(m)
    BY <1>2, <1>3, <2>2, ResolveIssued, Zenon DEF IInv
  <2>4. n \in reported' \/ ~Issued(n)'
    <3>1. CASE Resolve(n, st, client[c].invoice)
      BY <1>2, <3>1, ResolveIssued, Zenon DEF IInv
    <3>2. CASE n \in reported'
      BY <3>2, Zenon
    <3> QED
      BY <1>9, <2>0, <3>1, <3>2, Zenon DEF Mark
  <2>5. reported \subseteq reported' /\ lost \subseteq lost'
    BY <1>9, Zenon DEF Mark
  <2> QED
    BY <1>1, <2>0, <2>1, <2>3, <2>4, <2>5, AccountedStep, Zenon
<1>10. ASSUME NEW c \in Clients, Crash(c)
       PROVE  Accounted'
  <2>1. PICK u : client' = [client EXCEPT ![c] = u]
    BY <1>10, Zenon DEF Crash, Abort, Return
  <2> QED
    BY <1>4, <1>10, <2>1, Zenon DEF Crash
<1>11. CASE Job
  <2>1. ASSUME NEW n \in Numbers, ListIssued(n)
        PROVE  Accounted'
    BY <1>3, <2>1, AccountedKept, Zenon DEF ListIssued
  <2>2. CASE ResolveOrphan
    <3>1. sweep.invoice \in Invoices \cup {NoInvoice}
      BY Zenon DEF IInv, TypeOK, SweepType
    <3>2. \A m : Issued(m)' => Issued(m)
      BY <2>2, <3>1, ResolveIssued, Zenon DEF ResolveOrphan, IInv
    <3> QED
      BY <2>2, <3>2, AccountedKept, Zenon DEF ResolveOrphan
  <2> QED
    BY <1>11, <2>1, <2>2, Zenon DEF Job
<1>12. CASE UNCHANGED vars
  BY <1>3, <1>12, AccountedKept, Zenon DEF vars
<1> QED
  BY <1>5, <1>6, <1>7, <1>8, <1>9, <1>10, <1>11, <1>12, Zenon DEF Next, Step, MarkUsed, MarkVoided

\* No number is left issued unnoticed: its call is still running, the orphan hook
\* was told, or the call died or was told its commit failed.
THEOREM NumbersAreAccountedFor == Spec => []Accounted
<1>1. Init => Unnumbered /\ Accounted
  BY DEF Init, Unnumbered, Accounted, Idle
<1>2. IInv /\ IInv' /\ Unnumbered /\ Accounted /\ [Next]_vars => Unnumbered' /\ Accounted'
  BY NextUnnumbered, NextAccounted, Zenon
<1> QED
  BY InvariantHolds, <1>1, <1>2, PTL DEF Spec

-----------------------------------------------------------------------------
(* The Postgres number repo implements the atomic ledger of NumberLedger:  *)
(* the INSERT is the ledger's Next, the UPDATE that resolves an issued row *)
(* is its MarkUsed or MarkVoided, and every other step changes nothing     *)
(* that the ledger shows.                                                  *)

\* Every prefix has a last counter, within the bound on drafts.
Topped == \A p \in Prefixes : \E k \in 0..MaxDrafts : IsTop(p, k)

\* Only a call that was given an invoice has one, and the job likewise.
Uninvoiced ==
    /\ \A c \in Clients : client[c].pc # "used" => client[c].invoice = NoInvoice
    /\ sweep.pc # "used" => sweep.invoice = NoInvoice

\* A prefix has one last counter.
LEMMA TopUnique ==
    ASSUME TypeOK, NEW p, NEW j \in Nat, NEW k \in Nat, IsTop(p, j), IsTop(p, k)
    PROVE  j = k
<1>1. \A r \in rows : r.counter \in Nat \ {0}
  BY Zenon DEF TypeOK, RowType
<1>2. CASE j = 0 /\ k # 0
  BY <1>1, <1>2 DEF IsTop
<1>3. CASE j # 0 /\ k = 0
  BY <1>1, <1>3 DEF IsTop
<1>4. CASE j # 0 /\ k # 0
  BY <1>1, <1>4 DEF IsTop
<1> QED
  BY <1>2, <1>3, <1>4, Zenon

\* TopOf is the last counter.
LEMMA TopOfIs ==
    ASSUME TypeOK, NEW p, NEW k \in 0..MaxDrafts, IsTop(p, k)
    PROVE  TopOf(p) = k
<1>1. TopOf(p) \in 0..MaxDrafts /\ IsTop(p, TopOf(p))
  BY Zenon DEF TopOf
<1>2. TopOf(p) \in Nat /\ k \in Nat
  BY <1>1, NumberingAssumption
<1> HIDE DEF TopOf
<1> QED
  BY <1>1, <1>2, TopUnique, Zenon

\* Where numbers are unique, the row of a number is the one that has it.
LEMMA TheRow ==
    ASSUME NEW R, NEW r \in R, \A q \in R : q.number = r.number => q = r
    PROVE  (CHOOSE q \in R : q.number = r.number) = r
OBVIOUS

\* StatusOf is what the one row of a number says, before and after a step.
LEMMA StatusOfIs ==
    ASSUME Gapless, Gapless'
    PROVE  /\ \A r \in rows : StatusOf(r.number) = [state |-> r.state, invoice |-> r.invoice]
           /\ \A r \in rows' : \A n : n = r.number =>
                 StatusOf(n)' = [state |-> r.state, invoice |-> r.invoice]
<1>1. ASSUME NEW r \in rows
      PROVE  StatusOf(r.number) = [state |-> r.state, invoice |-> r.invoice]
  <2>1. (CHOOSE q \in rows : q.number = r.number) = r
    BY TheRow, Zenon DEF Gapless
  <2> QED
    BY <2>1, Zenon DEF StatusOf, Taken
<1>2. ASSUME NEW r \in rows', NEW n, n = r.number
      PROVE  StatusOf(n)' = [state |-> r.state, invoice |-> r.invoice]
  <2>1. (CHOOSE q \in rows' : q.number = r.number) = r
    BY TheRow, Zenon DEF Gapless
  <2> QED
    BY <1>2, <2>1, Zenon DEF StatusOf, Taken
<1> QED
  BY <1>1, <1>2, Zenon

\* A step that leaves the table alone shows nothing.
LEMMA RowsUnchanged ==
    ASSUME UNCHANGED rows
    PROVE  UNCHANGED <<[p \in Prefixes |-> TopOf(p)], [n \in Numbers |-> StatusOf(n)]>>
BY DEF TopOf, IsTop, StatusOf, Taken

\* A step that neither adds nor removes rows keeps every last counter.
LEMMA RelabelsTopOf ==
    ASSUME IInv, IInv', Topped, Relabels
    PROVE  Topped' /\ UNCHANGED [p \in Prefixes |-> TopOf(p)]
<1>1. ASSUME NEW p \in Prefixes
      PROVE  (\E k \in 0..MaxDrafts : IsTop(p, k)') /\ TopOf(p)' = TopOf(p)
  <2>1. PICK k \in 0..MaxDrafts : IsTop(p, k)
    BY Zenon DEF Topped
  <2>2. IsTop(p, k)'
    BY <2>1, RelabelsTop, Zenon
  <2>3. TopOf(p) = k
    BY <2>1, TopOfIs, Zenon DEF IInv
  <2>4. TopOf(p)' = k
    <3>1. TopOf(p)' \in 0..MaxDrafts /\ IsTop(p, TopOf(p))'
      BY <2>2, Zenon DEF TopOf
    <3>2. \A r \in rows' : r.counter \in Nat \ {0}
      BY Zenon DEF IInv, TypeOK, RowType
    <3> DEFINE j == TopOf(p)'
    <3>3. j \in Nat /\ k \in Nat
      BY <3>1, NumberingAssumption
    <3>4. /\ \A r \in rows' : r.prefix = p => r.counter <= j
          /\ j # 0 => \E r \in rows' : r.prefix = p /\ r.counter = j
      BY <3>1, Zenon DEF IsTop
    <3>5. /\ \A r \in rows' : r.prefix = p => r.counter <= k
          /\ k # 0 => \E r \in rows' : r.prefix = p /\ r.counter = k
      BY <2>2, Zenon DEF IsTop
    <3> HIDE DEF j
    <3>6. j = k
      BY <3>2, <3>3, <3>4, <3>5
    <3> QED
      BY <3>6, Zenon DEF j
  <2> QED
    BY <2>2, <2>3, <2>4, Zenon
<1> QED
  BY <1>1, Zenon DEF Topped

-----------------------------------------------------------------------------
seq == [p \in Prefixes |-> TopOf(p)]
status == [n \in Numbers |-> StatusOf(n)]

\* Resolving an issued row is the ledger's MarkUsed or MarkVoided; resolving any
\* other number changes nothing.
LEMMA ResolveMaps ==
    ASSUME IInv, IInv', Topped, NEW n \in Numbers, NEW st \in {"used", "voided"},
           NEW i \in Invoices \cup {NoInvoice},
           st = "used" => i \in Invoices, st = "voided" => i = NoInvoice,
           Resolve(n, st, i)
    PROVE  Topped' /\ [Ledger!Step]_<<seq, status>>
<1> DEFINE f(row) == IF row.number = n /\ row.state = "issued"
                     THEN [row EXCEPT !.state = st, !.invoice = i] ELSE row
<1>1. Relabels
  BY ResolveRelabels, Zenon DEF IInv
<1>2. Topped' /\ UNCHANGED seq
  BY <1>1, RelabelsTopOf, Zenon DEF seq
<1>3. rows' = {f(row) : row \in rows}
  BY Zenon DEF Resolve
<1>4. \A row \in rows : row.number # n \/ row.state # "issued" => f(row) = row
  OBVIOUS
<1>5. ASSUME NEW row \in rows, row.number = n, row.state = "issued"
      PROVE  f(row).number = n /\ f(row).state = st /\ f(row).invoice = i
  <2>1. row \in RowType
    BY Zenon DEF IInv, TypeOK
  <2> QED
    BY <1>5, <2>1, Zenon DEF RowType
<1> HIDE DEF f
<1>6. CASE ~Issued(n)
  <2>1. \A row \in rows : f(row) = row
    BY <1>4, <1>6, Zenon DEF Issued
  <2>2. UNCHANGED rows
    BY <1>3, <2>1, Zenon
  <2> QED
    BY <1>2, <2>2, RowsUnchanged, Zenon DEF seq, status
<1>7. CASE Issued(n)
  <2>1. PICK r \in rows : r.number = n /\ r.state = "issued"
    BY <1>7, Zenon DEF Issued
  <2>2. Gapless /\ Gapless'
    BY Zenon DEF IInv
  <2>3. StatusOf(n) = [state |-> "issued", invoice |-> r.invoice]
    BY <2>1, <2>2, StatusOfIs, Zenon
  <2>4. StatusOf(n)' = [state |-> st, invoice |-> i]
    BY <1>3, <1>5, <2>1, <2>2, StatusOfIs, Zenon
  <2>5. ASSUME NEW m \in Numbers, m # n
        PROVE  StatusOf(m)' = StatusOf(m)
    <3>1. CASE Taken(m)
      <4>1. PICK q \in rows : q.number = m
        BY <3>1, Zenon DEF Taken
      <4>2. q \in rows'
        BY <1>3, <1>4, <2>5, <4>1, Zenon
      <4> QED
        BY <2>2, <4>1, <4>2, StatusOfIs, Zenon
    <3>2. CASE ~Taken(m)
      <4>1. \A t \in rows' : \E q \in rows : q.number = t.number
        BY <1>1, Zenon DEF Relabels, Same
      <4>2. ~Taken(m)'
        BY <3>2, <4>1, Zenon DEF Taken
      <4> QED
        BY <3>2, <4>2, Zenon DEF StatusOf
    <3> QED
      BY <3>1, <3>2, Zenon
  <2>6. status' = [status EXCEPT ![n] = [state |-> st, invoice |-> i]]
    BY <2>4, <2>5, Zenon DEF status
  <2>7. status[n].state = "issued"
    BY <2>3 DEF status
  <2>8. (st = "used" /\ i \in Invoices /\ Ledger!MarkUsed(n, i)) \/ Ledger!MarkVoided(n)
    BY <1>2, <2>6, <2>7, Zenon DEF Ledger!MarkUsed, Ledger!MarkVoided, seq, status
  <2>9. Ledger!Step
    BY <2>8, Zenon DEF Ledger!Step
  <2> QED
    BY <1>2, <2>9, Zenon
<1> QED
  BY <1>6, <1>7, Zenon

\* Inserting the next number of a prefix is the ledger's Next.
LEMMA InsertMaps ==
    ASSUME IInv, IInv', Topped, NEW p \in Prefixes, NEW k \in 1..MaxDrafts,
           IsTop(p, k - 1),
           NEW row, row = [number |-> Format[<<p, k>>], prefix |-> p, counter |-> k,
                           state |-> "issued", invoice |-> NoInvoice],
           ~Taken(row.number), rows' = rows \cup {row}
    PROVE  Topped' /\ Ledger!Step
<1>1. k \in Nat \ {0} /\ k - 1 \in 0..MaxDrafts /\ MaxDrafts \in Nat
  BY NumberingAssumption
<1>2. /\ row.number = Format[<<p, k>>] /\ row.prefix = p /\ row.counter = k
      /\ row.state = "issued" /\ row.invoice = NoInvoice
  OBVIOUS
<1>3. row.number \in Numbers
  BY <1>2, NumberingAssumption, Zenon
<1>4. TopOf(p) = k - 1
  BY <1>1, TopOfIs, Zenon DEF IInv
<1>5. \A r \in rows : r.counter \in Nat \ {0}
  BY Zenon DEF IInv, TypeOK, RowType
<1>6. IsTop(p, k)'
  BY <1>1, <1>2, <1>5 DEF IsTop
<1>7. ASSUME NEW q \in Prefixes, q # p, NEW j \in 0..MaxDrafts
      PROVE  IsTop(q, j)' <=> IsTop(q, j)
  BY <1>2, <1>7, Zenon DEF IsTop
<1>8. Topped'
  BY <1>1, <1>6, <1>7 DEF Topped
<1>9. TopOf(p)' = k
  <2>1. \A r \in rows' : r.counter \in Nat \ {0}
    BY Zenon DEF IInv, TypeOK, RowType
  <2>2. ASSUME NEW j \in 0..MaxDrafts, IsTop(p, j)'
        PROVE  j = k
    BY <1>1, <1>2, <1>5, <2>1, <2>2 DEF IsTop
  <2> QED
    BY <1>1, <1>6, <2>2 DEF TopOf
<1>10. ASSUME NEW q \in Prefixes, q # p
       PROVE  TopOf(q)' = TopOf(q)
  BY <1>7, <1>10, Zenon DEF TopOf
<1>11. seq' = [seq EXCEPT ![p] = @ + 1] /\ seq[p] + 1 = k
  <2>1. seq[p] + 1 = k
    BY <1>1, <1>4 DEF seq
  <2>2. seq' = [seq EXCEPT ![p] = k]
    BY <1>9, <1>10, Zenon DEF seq
  <2> QED
    BY <2>1, <2>2, Zenon
<1>12. Gapless /\ Gapless'
  BY Zenon DEF IInv
<1>13. StatusOf(row.number)' = [state |-> "issued", invoice |-> NoInvoice]
  BY <1>2, <1>12, StatusOfIs, Zenon
<1>14. ASSUME NEW m \in Numbers, m # row.number
       PROVE  StatusOf(m)' = StatusOf(m)
  <2>1. CASE Taken(m)
    <3>1. PICK q \in rows : q.number = m
      BY <2>1, Zenon DEF Taken
    <3> QED
      BY <1>12, <3>1, StatusOfIs, Zenon
  <2>2. CASE ~Taken(m)
    BY <1>14, <2>2, Zenon DEF StatusOf, Taken
  <2> QED
    BY <2>1, <2>2, Zenon
<1>15. status' = [status EXCEPT ![row.number] = [state |-> "issued", invoice |-> NoInvoice]]
  BY <1>13, <1>14, Zenon DEF status
<1>16. Ledger!Next(p)
  BY <1>2, <1>11, <1>15, Zenon DEF Ledger!Next, seq, status
<1> QED
  BY <1>8, <1>16, Zenon DEF Ledger!Step

-----------------------------------------------------------------------------
\* A call that is told of a failure has no invoice, and the job voids a number only
\* when it found none.
LEMMA NextUninvoiced ==
    ASSUME IInv, Uninvoiced, [Next]_vars
    PROVE  Uninvoiced'
<1>1. ASSUME NEW c \in Clients, client'[c].pc # "used"
      PROVE  client'[c].invoice = NoInvoice
  <2>1. client[c] \in ClientType /\ client \in [Clients -> ClientType]
    BY Zenon DEF IInv, TypeOK
  <2>2. CASE client'[c] = client[c]
    BY <1>1, <2>2, Zenon DEF Uninvoiced
  <2>3. ASSUME NEW p, client' = [client EXCEPT ![c] = Idle(p)]
        PROVE  client'[c].invoice = NoInvoice
    BY <2>1, <2>3, Zenon DEF Idle
  <2>4. ASSUME NEW p \in Prefixes, CreateDraft(c, p)
        PROVE  client'[c].invoice = NoInvoice
    BY <2>1, <2>4, Zenon DEF CreateDraft, Idle
  <2>5. CASE AcquireLock(c)
    BY <2>1, <2>3, <2>5, ZenonT(30) DEF AcquireLock, Abort, Return, Goto, ClientType, Uninvoiced
  <2>6. ASSUME NEW v, client' = [client EXCEPT ![c] = v], v.invoice = client[c].invoice,
               client[c].pc # "used"
        PROVE  client'[c].invoice = NoInvoice
    BY <2>1, <2>6, Zenon DEF Uninvoiced
  <2>7. CASE ReadMax(c)
    <3> DEFINE v(k) == [client[c] EXCEPT !.pc = "insert", !.next = k + 1]
    <3>1. \A k \in 0..(MaxDrafts - 1) : v(k).invoice = client[c].invoice
      BY <2>1, Zenon DEF ClientType
    <3>2. \/ \E k \in 0..(MaxDrafts - 1) : client' = [client EXCEPT ![c] = v(k)]
          \/ client' = [client EXCEPT ![c] = Idle(client[c].prefix)]
      BY <2>7, Zenon DEF ReadMax, Abort, Return
    <3> HIDE DEF v
    <3>3. client[c].pc # "used"
      BY <2>7, Zenon DEF ReadMax
    <3> QED
      BY <2>3, <2>6, <3>1, <3>2, <3>3, Zenon
  <2>8. CASE Insert(c)
    <3> DEFINE n == Format[<<client[c].prefix, client[c].next>>]
               v == [client[c] EXCEPT !.pc = "stripe", !.number = n]
    <3>1. v.invoice = client[c].invoice
      BY <2>1, Zenon DEF ClientType
    <3>2. client' = [client EXCEPT ![c] = v] \/ client' = [client EXCEPT ![c] = Idle(client[c].prefix)]
      BY <2>8, Zenon DEF Insert, Abort, Return
    <3>3. client[c].pc # "used"
      BY <2>8, Zenon DEF Insert
    <3> HIDE DEF v
    <3> QED
      BY <2>3, <2>6, <3>1, <3>2, <3>3, Zenon
  <2>9. CASE CallStripe(c)
    <3> DEFINE v(i) == [client[c] EXCEPT !.pc = "used", !.invoice = i]
               w == [client[c] EXCEPT !.pc = "void"]
    <3>1. (\A i \in Invoices : v(i).pc = "used") /\ w.invoice = client[c].invoice
      BY <2>1, Zenon DEF ClientType
    <3>2. \/ \E i \in Invoices : client' = [client EXCEPT ![c] = v(i)]
          \/ client' = [client EXCEPT ![c] = w]
      BY <2>9, Zenon DEF CallStripe, Goto
    <3>3. client[c].pc # "used"
      BY <2>9, Zenon DEF CallStripe
    <3> HIDE DEF v, w
    <3>4. client' = [client EXCEPT ![c] = w]
      BY <1>1, <2>1, <3>1, <3>2, Zenon
    <3> QED
      BY <2>6, <3>1, <3>3, <3>4, Zenon
  <2>10. CASE MarkUsed(c) \/ MarkVoided(c) \/ Crash(c)
    BY <2>3, <2>10, Zenon DEF MarkUsed, MarkVoided, Mark, Crash, Abort, Return
  <2>11. ASSUME NEW d \in Clients, d # c,
                \/ Step(d) \/ Crash(d) \/ \E p \in Prefixes : CreateDraft(d, p)
         PROVE  client'[c] = client[c]
    BY <2>1, <2>11, Zenon DEF Step, Crash, CreateDraft, AcquireLock, ReadMax, Insert, CallStripe,
       MarkUsed, MarkVoided, Mark, Abort, Return, Goto
  <2> QED
    BY <2>2, <2>4, <2>5, <2>7, <2>8, <2>9, <2>10, <2>11, Zenon
       DEF Next, vars, Step, Job, ListIssued, ResolveOrphan
<1>2. ASSUME sweep'.pc # "used"
      PROVE  sweep'.invoice = NoInvoice
  <2>1. CASE UNCHANGED sweep
    BY <1>2, <2>1, Zenon DEF Uninvoiced
  <2>2. ASSUME NEW n \in Numbers, ListIssued(n)
        PROVE  sweep'.invoice = NoInvoice
    BY <1>2, <2>2 DEF ListIssued
  <2>3. CASE ResolveOrphan
    BY <2>3, Zenon DEF ResolveOrphan, NoSweep
  <2> QED
    BY <2>1, <2>2, <2>3, Zenon DEF Next, vars, CreateDraft, Step, AcquireLock, ReadMax, Insert,
       CallStripe, MarkUsed, MarkVoided, Mark, Crash, Job
<1> QED
  BY <1>1, <1>2, Zenon DEF Uninvoiced

\* Every step of the repo is a step of the ledger or leaves it as it is.
LEMMA NextMaps ==
    ASSUME IInv, IInv', Backed, Uninvoiced, Topped, [Next]_vars
    PROVE  Topped' /\ [Ledger!Step]_<<seq, status>>
<1>1. ASSUME UNCHANGED rows
      PROVE  Topped' /\ [Ledger!Step]_<<seq, status>>
  <2>1. UNCHANGED <<seq, status>>
    BY <1>1, RowsUnchanged, Zenon DEF seq, status
  <2>2. Topped'
    BY <1>1, Zenon DEF Topped, IsTop
  <2> QED
    BY <2>1, <2>2, Zenon
<1>2. ASSUME NEW c \in Clients, Insert(c)
      PROVE  Topped' /\ [Ledger!Step]_<<seq, status>>
  <2> DEFINE p == client[c].prefix
             k == client[c].next
             row == [number |-> Format[<<p, k>>], prefix |-> p, counter |-> k,
                     state |-> "issued", invoice |-> NoInvoice]
  <2>1. UNCHANGED rows \/ (~Taken(row.number) /\ rows' = rows \cup {row})
    BY <1>2, Zenon DEF Insert
  <2>2. p \in Prefixes /\ k \in 1..MaxDrafts /\ IsTop(p, k - 1)
    BY <1>2, Zenon DEF Insert, IInv, Locked, TypeOK, ClientType
  <2>3. PICK q \in Prefixes, j \in 1..MaxDrafts, r \in {row} : q = p /\ j = k /\ r = row
    BY <2>2, Zenon
  <2>4. IsTop(q, j - 1) /\ r = [number |-> Format[<<q, j>>], prefix |-> q, counter |-> j,
                                state |-> "issued", invoice |-> NoInvoice]
    BY <2>2, <2>3, Zenon
  <2>5. UNCHANGED rows \/ (~Taken(r.number) /\ rows' = rows \cup {r})
    BY <2>1, <2>3, Zenon
  <2> HIDE DEF p, k, row
  <2> QED
    BY <1>1, <2>4, <2>5, InsertMaps, Zenon
<1>3. ASSUME NEW c \in Clients, MarkUsed(c)
      PROVE  Topped' /\ [Ledger!Step]_<<seq, status>>
  <2>1. UNCHANGED rows \/ Resolve(client[c].number, "used", client[c].invoice)
    BY <1>3, Zenon DEF MarkUsed, Mark
  <2>2. client[c].number \in Numbers /\ client[c].invoice \in Invoices
    BY <1>3, Zenon DEF MarkUsed, Mark, Backed, Carried
  <2> QED
    BY <1>1, <2>1, <2>2, ResolveMaps, Zenon
<1>4. ASSUME NEW c \in Clients, MarkVoided(c)
      PROVE  Topped' /\ [Ledger!Step]_<<seq, status>>
  <2>1. UNCHANGED rows \/ Resolve(client[c].number, "voided", client[c].invoice)
    BY <1>4, Zenon DEF MarkVoided, Mark
  <2>2. client[c].number \in Numbers /\ client[c].invoice = NoInvoice
    BY <1>4, Zenon DEF MarkVoided, Mark, IInv, Numbered, Uninvoiced
  <2> QED
    BY <1>1, <2>1, <2>2, ResolveMaps, Zenon
<1>5. CASE ResolveOrphan
  <2>1. CASE sweep.pc = "used"
    <3>1. sweep.number \in Numbers /\ sweep.invoice \in Invoices
      BY <2>1, Zenon DEF Backed, Carried
    <3> QED
      BY <1>5, <2>1, <3>1, ResolveMaps, Zenon DEF ResolveOrphan
  <2>2. CASE sweep.pc # "used"
    <3>1. sweep.invoice = NoInvoice
      BY <2>2, Zenon DEF Uninvoiced
    <3>2. CASE sweep.number \in Numbers
      BY <1>5, <2>2, <3>1, <3>2, ResolveMaps, Zenon DEF ResolveOrphan
    <3>3. CASE sweep.number \notin Numbers
      <4>1. \A row \in rows : row.number # sweep.number
        BY <3>3, Zenon DEF IInv, TypeOK, RowType
      <4>2. UNCHANGED rows
        BY <1>5, <4>1, Zenon DEF ResolveOrphan, Resolve
      <4> QED
        BY <1>1, <4>2, Zenon
    <3> QED
      BY <3>2, <3>3, Zenon
  <2> QED
    BY <2>1, <2>2, Zenon
<1> QED
  BY <1>1, <1>2, <1>3, <1>4, <1>5, Zenon DEF Next, vars, CreateDraft, Step, AcquireLock, ReadMax,
     CallStripe, Crash, Job, ListIssued

\* The Postgres repo, with its locks, failing statements and dying replicas, is the
\* atomic ledger that number_repo.go promises.
THEOREM RepoImplementsLedger == Spec => ImplementsLedger
<1>1. ASSUME Init
      PROVE  Backed /\ Uninvoiced /\ Topped /\ Ledger!Init
  <2>1. Backed /\ Uninvoiced
    BY <1>1 DEF Init, Backed, UsedIsCarried, Uninvoiced, NoSweep, Idle
  <2>2. 0 \in 0..MaxDrafts /\ \A p \in Prefixes : IsTop(p, 0)
    BY <1>1, NumberingAssumption DEF Init, IsTop
  <2>3. IInv
    BY <1>1, InitIInv, Zenon
  <2>4. \A p \in Prefixes : TopOf(p) = 0
    BY <2>2, <2>3, TopOfIs, Zenon DEF IInv
  <2>5. \A n \in Numbers : StatusOf(n) = [state |-> "none", invoice |-> NoInvoice]
    BY <1>1, Zenon DEF Init, StatusOf, Taken
  <2> QED
    BY <2>1, <2>2, <2>4, <2>5, Zenon DEF Topped, Ledger!Init
<1>2. ASSUME IInv, IInv', Backed, Uninvoiced, Topped, [Next]_vars
      PROVE  /\ Backed' /\ Uninvoiced' /\ Topped'
             /\ [Ledger!Step]_<<seq, status>>
  BY <1>2, NextBacked, NextUninvoiced, NextMaps, Zenon
<1>3. [Ledger!Step]_<<seq, status>> => [Ledger!Step]_<<[p \in Prefixes |-> TopOf(p)], [n \in Numbers |-> StatusOf(n)]>>
  BY Zenon DEF seq, status
<1> QED
  BY InvariantHolds, <1>1, <1>2, <1>3, PTL DEF Spec, ImplementsLedger, Ledger!Spec
=============================================================================
