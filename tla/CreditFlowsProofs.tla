-------------------------- MODULE CreditFlowsProofs --------------------------
(***************************************************************************)
(* The Postgres credit ledger and the webhook handlers over it, for any    *)
(* feed of events, any clients, workers and requests, and any number of    *)
(* faults.  RepoInv is the inductive invariant of the tables: each row     *)
(* balances with its deduction rows, and a transaction that has planned    *)
(* its draws still sees the rows it locked, because the subject's advisory *)
(* lock and the row locks keep every other writer away.  FlowInv adds the  *)
(* handlers: of an event that was processed every ref is granted, and a    *)
(* handler under way has each ref of its event granted or still to do.     *)
(***************************************************************************)
EXTENDS CreditFlows, SumTheorems

\* The rows and transactions of the Postgres ledger.
Known ==
    {in.ref : in \in feed.app} \cup UNION {GrantRefs(e) : e \in feed.events}

RowType == [ref: Known, initial: Nat, remaining: Nat, expires: Nat, revoked: BOOLEAN]
DeductionType == [req: RequestIDs, grant: Nat, amount: Nat]
Plans == UNION {[D -> Nat] : D \in SUBSET Nat}
TxType == [pc: {"idle", "begun", "locked", "planned"}, req: RequestIDs \cup {Idle.req},
           now: Nat, plan: Plans]

RemainingOf == [g \in DOMAIN grants |-> grants[g].remaining]

-----------------------------------------------------------------------------
\* The balance SelectForUpdate compares with the amount is the sum over the locked rows.
LEMMA RemainingSum ==
    ASSUME NEW pool \in SUBSET DOMAIN grants, IsFiniteSet(pool),
           \A g \in pool : grants[g].remaining \in Int
    PROVE  Remaining(pool) = SumOver(RemainingOf, pool)
<1> DEFINE f == RemainingOf
           F(it) == it = [s \in SUBSET pool |->
                IF s = {} THEN 0 ELSE grants[PickOne(s)].remaining + it[s \ {PickOne(s)}]]
<1>1. \A y \in pool : f[y] \in Int
  BY DEF RemainingOf
<1>2. \A s \in SUBSET pool : s # {} => f[PickOne(s)] = grants[PickOne(s)].remaining
  BY PickIn, Zenon DEF RemainingOf
<1>3. ASSUME NEW it PROVE F(it) <=> FoldsUp(it, f, pool)
  BY <1>2, Zenon DEF FoldsUp
<1> HIDE DEF f
<1>4. PICK h : AddsUp(h, f, pool)
  BY <1>1, AddsExists, Zenon
<1>5. FoldsUp(h, f, pool)
  BY <1>4, AddsFolds, Zenon
<1>6. F(CHOOSE it : F(it))
  BY <1>3, <1>5, Zenon
<1>7. (CHOOSE it : F(it)) = h
  BY <1>3, <1>4, <1>6, FoldsAgree, Zenon
<1>8. Remaining(pool) = (CHOOSE it : F(it))[pool]
  BY Zenon DEF Remaining, MapThenSumSet, MapThenFoldSet, PickOne
<1> QED
  BY <1>1, <1>4, <1>7, <1>8, SumIsAdded, Zenon DEF f, SumOver

\* What TryDeduct takes of a locked row: what the rows before it leave of the amount,
\* and no more than the row has.
LEMMA PlanType ==
    ASSUME NEW pool \in SUBSET DOMAIN grants, IsFiniteSet(pool), NEW amount \in Nat,
           \A g \in DOMAIN grants : grants[g].remaining \in Nat
    PROVE  /\ DOMAIN Plan(pool, amount) = pool
           /\ \A g \in pool :
                LET ahead == SumOver(RemainingOf, {h \in pool : Before(h, g)})
                    left == amount - ahead
                    rest == grants[g].remaining
                    least == IF left <= rest THEN left ELSE rest
                IN  /\ ahead \in Nat
                    /\ Plan(pool, amount)[g] = IF least <= 0 THEN 0 ELSE least
<1>1. DOMAIN Plan(pool, amount) = pool
  BY Zenon DEF Plan
<1>2. ASSUME NEW g \in pool
      PROVE  LET ahead == SumOver(RemainingOf, {h \in pool : Before(h, g)})
                 left == amount - ahead
                 rest == grants[g].remaining
                 least == IF left <= rest THEN left ELSE rest
             IN  /\ ahead \in Nat
                 /\ Plan(pool, amount)[g] = IF least <= 0 THEN 0 ELSE least
  <2> DEFINE D == {h \in pool : Before(h, g)}
             ahead == Remaining(D)
             left == amount - ahead
             rest == grants[g].remaining
             least == IF left <= rest THEN left ELSE rest
  <2>1. IsFiniteSet(D) /\ D \in SUBSET DOMAIN grants
    BY FS_Subset, Zenon
  <2>2. \A h \in D : RemainingOf[h] \in Nat /\ grants[h].remaining \in Int
    BY <2>1 DEF RemainingOf
  <2>3. ahead = SumOver(RemainingOf, D) /\ ahead \in Nat
    BY <2>1, <2>2, RemainingSum, SumNat, Zenon
  <2>4. left \in Int /\ rest \in Int /\ least \in Int
    BY <2>3
  <2>5. Plan(pool, amount)[g] = Max({0, Min({left, rest})})
    BY Zenon DEF Plan
  <2> HIDE DEF left, rest
  <2>6. Min({left, rest}) = least
    BY <2>4, MaxMin, Zenon
  <2> HIDE DEF least
  <2>7. Max({0, least}) = IF 0 >= least THEN 0 ELSE least
    BY <2>4, MaxMin
  <2>8. Plan(pool, amount)[g] = IF least <= 0 THEN 0 ELSE least
    BY <2>4, <2>5, <2>6, <2>7
  <2> QED
    BY <2>3, <2>8, Zenon DEF least, left, rest
<1> QED
  BY <1>1, <1>2, Zenon

\* The planning loop of TryDeduct takes from each row no more than it has, and the
\* requested amount in all when the pool is large enough.
LEMMA PlanSum ==
    ASSUME NEW pool \in SUBSET DOMAIN grants, IsFiniteSet(pool), pool \subseteq Nat,
           NEW amount \in Nat, Remaining(pool) >= amount,
           \A g \in DOMAIN grants : grants[g].remaining \in Nat /\ grants[g].expires \in Nat
    PROVE  /\ DOMAIN Plan(pool, amount) = pool
           /\ \A g \in pool : Plan(pool, amount)[g] \in 0 .. grants[g].remaining
           /\ SumOver(Plan(pool, amount), pool) = amount
<1> DEFINE P == Plan(pool, amount)
           R == RemainingOf
           Closed(D) == \A g \in D : \A h \in pool : Before(h, g) => h \in D
           Least(x) == IF amount <= x THEN amount ELSE x
           X == {D \in SUBSET pool : Closed(D) /\ SumOver(P, D) # Least(SumOver(R, D))}
           O == {p \in pool \X pool : Before(p[1], p[2])}
<1>1. DOMAIN P = pool /\ \A g \in pool : P[g] \in 0 .. grants[g].remaining
  <2>1. DOMAIN P = pool
    BY PlanType, Zenon
  <2>2. ASSUME NEW g \in pool PROVE P[g] \in 0 .. grants[g].remaining
    <3> DEFINE ahead == SumOver(R, {h \in pool : Before(h, g)})
               left == amount - ahead
               rest == grants[g].remaining
               least == IF left <= rest THEN left ELSE rest
    <3>1. ahead \in Nat /\ P[g] = IF least <= 0 THEN 0 ELSE least
      BY PlanType, Zenon
    <3>2. rest \in Nat
      OBVIOUS
    <3> HIDE DEF P, ahead
    <3> QED
      BY <3>1, <3>2
  <2> QED
    BY <2>1, <2>2, Zenon
<1>2. \A g \in pool : R[g] = grants[g].remaining /\ R[g] \in Nat /\ P[g] \in Nat
  BY <1>1 DEF RemainingOf
<1>3. \A D \in SUBSET pool : IsFiniteSet(D) /\ SumOver(R, D) \in Nat /\ SumOver(P, D) \in Nat
  <2> HIDE DEF P, R
  <2> QED  BY <1>2, FS_Subset, SumNat, Zenon
<1>4. /\ \A g, h \in pool : g = h \/ <<g, h>> \in O \/ <<h, g>> \in O
      /\ \A g, h \in pool : <<g, h>> \in O <=> Before(g, h)
      /\ \A g, h, k \in pool : Before(g, h) /\ Before(h, k) => Before(g, k)
      /\ \A g, h \in pool : ~(Before(g, h) /\ Before(h, g))
  BY DEF Before
<1>5. X = {}
  <2>1. SUFFICES ASSUME X # {} PROVE FALSE
    OBVIOUS
  <2>2. PICK T \in X : \A x \in T : T \ {x} \notin X
    <3> HIDE DEF X
    <3>1. X \subseteq SUBSET pool  BY DEF X
    <3> QED  BY <2>1, <3>1, MinimalSubset, Zenon
  <2>3. T \in SUBSET pool /\ Closed(T) /\ SumOver(P, T) # Least(SumOver(R, T))
    OBVIOUS
  <2>4. T # {}
    <3>1. SumOver(P, {}) = 0 /\ SumOver(R, {}) = 0
      BY SumEmpty, Zenon
    <3> HIDE DEF P, R
    <3> QED  BY <2>3, <3>1
  <2>5. PICK m \in T : \A x \in T : x = m \/ <<x, m>> \in O
    <3> HIDE DEF O
    <3>1. /\ \A x, y \in T : x = y \/ <<x, y>> \in O \/ <<y, x>> \in O
          /\ \A x, y, z \in T : <<x, y>> \in O /\ <<y, z>> \in O => <<x, z>> \in O
      BY <1>4, <2>3, Zenon
    <3> QED  BY <1>3, <2>3, <2>4, <3>1, LastElement, Zenon
  <2> DEFINE U == T \ {m}
  <2>6. \A x \in U : Before(x, m)
    BY <1>4, <2>3, <2>5, Zenon
  <2>7. U = {h \in pool : Before(h, m)}
    BY <1>4, <2>3, <2>6, Zenon
  <2>8. Closed(U)
    BY <1>4, <2>3, <2>6, <2>7, Zenon
  <2>9. SumOver(P, U) = Least(SumOver(R, U))
    <3> HIDE DEF P, R
    <3> QED  BY <2>2, <2>3, <2>5, <2>8, Zenon
  <2>10. /\ SumOver(P, T) = P[m] + SumOver(P, U)
         /\ SumOver(R, T) = R[m] + SumOver(R, U)
    <3> HIDE DEF P, R
    <3>1. \A y \in T : P[y] \in Int /\ R[y] \in Int
      BY <1>2, <2>3
    <3> QED  BY <1>3, <2>3, <3>1, SumRemove, Zenon
  <2> DEFINE left == amount - SumOver(R, U)
             least == IF left <= R[m] THEN left ELSE R[m]
  <2>11. P[m] = IF least <= 0 THEN 0 ELSE least
    <3> DEFINE D == {h \in pool : Before(h, m)}
               rest == grants[m].remaining
               l == amount - SumOver(R, D)
               least1 == IF l <= rest THEN l ELSE rest
    <3>1. m \in pool  BY <2>3
    <3>2. P[m] = IF least1 <= 0 THEN 0 ELSE least1
      BY <3>1, PlanType, Zenon
    <3>3. D = U  BY <2>7, Zenon
    <3>4. R[m] = rest  BY <1>2, <3>1, Zenon
    <3> HIDE DEF P, R, U, D, rest
    <3> QED  BY <3>2, <3>3, <3>4
  <2>12. SumOver(R, U) \in Nat /\ SumOver(P, U) \in Nat /\ R[m] \in Nat /\ P[m] \in Nat
    <3> HIDE DEF P, R
    <3>1. U \in SUBSET pool /\ m \in pool  BY <2>3
    <3> QED  BY <1>2, <1>3, <3>1, Zenon
  <2> HIDE DEF P, R, U
  <2> QED
    BY <2>3, <2>9, <2>10, <2>11, <2>12
<1>6. SumOver(P, pool) = Least(SumOver(R, pool))
  <2> HIDE DEF P, R
  <2> QED  BY <1>5
<1>7. Remaining(pool) = SumOver(R, pool)
  <2>1. \A g \in pool : grants[g].remaining \in Int  OBVIOUS
  <2> QED  BY <2>1, RemainingSum, Zenon
<1>8. SumOver(P, pool) = amount
  <2> HIDE DEF P, R
  <2> QED  BY <1>3, <1>6, <1>7
<1> QED
  BY <1>1, <1>8, Zenon

-----------------------------------------------------------------------------
(* The inductive invariant of the Postgres ledger. *)

RepoTyped ==
    /\ grants \in Seq(RowType)
    /\ zeroed \in Seq(Nat)
    /\ Len(zeroed) = Len(grants)
    /\ IsFiniteSet(deductions)
    /\ deductions \subseteq DeductionType
    /\ \A d \in deductions : d.grant \in DOMAIN grants
    /\ tx \in [Clients -> TxType]
    /\ clock \in Nat

\* A request past its idempotency check has no row yet, and what it plans to take is
\* still there and adds up to what it asks for.
TxOpen(t) ==
    /\ t.pc # "idle" => t.req \in RequestIDs
    /\ t.pc # "planned" => DOMAIN t.plan = {}
    /\ t.pc \in {"locked", "planned"} => \A d \in deductions : d.req # t.req
    /\ t.pc = "planned" =>
         /\ DOMAIN t.plan \subseteq DOMAIN grants
         /\ \A g \in DOMAIN t.plan : t.plan[g] <= grants[g].remaining
         /\ SumOver(t.plan, DOMAIN t.plan) = AmountOf[t.req]

\* The subject's advisory lock has one holder.
OneHolder ==
    \A c, d \in Clients :
        tx[c].pc \in {"locked", "planned"} /\ tx[d].pc \in {"locked", "planned"} => c = d

RepoInv ==
    RepoTyped /\ (\A c \in Clients : TxOpen(tx[c])) /\ OneHolder /\ RowsBalance /\ ChargedInFull

\* A client between transactions is well formed.
LEMMA IdleType == Idle \in TxType /\ Idle.pc = "idle" /\ DOMAIN Idle.plan = {}
<1>1. DOMAIN <<>> = {} /\ <<>> \in [{} -> Nat]
  BY SMT
<1>2. <<>> \in Plans
  <2>1. {} \in SUBSET Nat  OBVIOUS
  <2> QED  BY <1>1, <2>1, Zenon DEF Plans
<1>3. 0 \in Nat
  OBVIOUS
<1>4. Idle.pc = "idle" /\ Idle.req = "" /\ Idle.now = 0 /\ Idle.plan = <<>>
  BY Zenon DEF Idle
<1>5. Idle = [pc |-> "idle", req |-> Idle.req, now |-> 0, plan |-> <<>>]
  BY <1>4, Zenon DEF Idle
<1> HIDE DEF Idle
<1>6. Idle \in TxType
  BY <1>2, <1>3, <1>5, SMT DEF TxType
<1> QED
  BY <1>1, <1>4, <1>6, Zenon

\* A function over the indices of a list is a list of the same length.
LEMMA MapSeq ==
    ASSUME NEW S, NEW s \in Seq(S), NEW T, NEW f, DOMAIN f = DOMAIN s,
           f = [k \in DOMAIN f |-> f[k]], \A k \in DOMAIN s : f[k] \in T
    PROVE  f \in Seq(T) /\ Len(f) = Len(s)
<1>1. DOMAIN s = 1 .. Len(s) /\ Len(s) \in Nat
  BY SMT
<1>2. f \in [1 .. Len(s) -> T]
  BY <1>1
<1> QED
  BY <1>1, <1>2

\* The columns of a grant row.
LEMMA RowFields ==
    ASSUME grants \in Seq(RowType), NEW g \in DOMAIN grants
    PROVE  /\ grants[g] \in RowType /\ grants[g].ref \in Known /\ grants[g].initial \in Nat
           /\ grants[g].remaining \in Nat /\ grants[g].expires \in Nat
           /\ grants[g].revoked \in BOOLEAN
<1>1. grants[g] \in RowType
  BY SMT
<1> QED
  BY <1>1, Zenon DEF RowType

\* The grants' ids are those from 1 to their number.
LEMMA DomainFacts ==
    ASSUME NEW S, NEW s \in Seq(S)
    PROVE  DOMAIN s = 1 .. Len(s) /\ Len(s) \in Nat /\ DOMAIN s \subseteq Nat /\ IsFiniteSet(DOMAIN s)
<1>1. DOMAIN s = 1 .. Len(s) /\ Len(s) \in Nat
  BY SMT
<1>2. IsFiniteSet(1 .. Len(s))
  BY <1>1, FS_Interval, SMT
<1> QED
  BY <1>1, <1>2

-----------------------------------------------------------------------------
(* The deduction rows of a committed plan. *)

DrawnOf(D, g) == SumAmounts({d \in D : d.grant = g})
ChargedOf(D, req) == SumAmounts({d \in D : d.req = req})

\* What a row gave and what a request was charged depend on the deduction rows alone.
LEMMA SumsOf ==
    /\ \A g : Drawn(g) = DrawnOf(deductions, g) /\ Drawn(g)' = DrawnOf(deductions', g)
    /\ \A req : /\ Charged(req) = ChargedOf(deductions, req)
                /\ Charged(req)' = ChargedOf(deductions', req)
BY Zenon DEF Drawn, DrawnOf, Charged, ChargedOf, SumAmounts, MapThenSumSet, MapThenFoldSet

\* The amounts of finitely many deduction rows add up to a natural number.
LEMMA AmountsNat ==
    ASSUME NEW D, IsFiniteSet(D), D \subseteq DeductionType
    PROVE  /\ SumAmounts(D) = SumOver([d \in DeductionType |-> d.amount], D)
           /\ SumAmounts(D) \in Nat
<1> DEFINE f == [d \in DeductionType |-> d.amount]
<1>1. \A d \in D : f[d] \in Nat /\ f[d] = d.amount
  BY DEF DeductionType
<1>2. \A d \in D : f[d] \in Int /\ f[d] = d.amount
  BY <1>1
<1> HIDE DEF f
<1>3. SumAmounts(D) = SumOver(f, D) /\ SumOver(f, D) \in Nat
  BY <1>1, <1>2, AmountSum, SumNat, Zenon
<1> QED
  BY <1>3, Zenon DEF f

\* So does what one grant gave.
LEMMA DrawnNat ==
    ASSUME NEW D, IsFiniteSet(D), D \subseteq DeductionType, NEW g
    PROVE  DrawnOf(D, g) \in Nat
<1> DEFINE A == {d \in D : d.grant = g}
<1>1. A \subseteq DeductionType /\ IsFiniteSet(A)
  BY FS_Subset, Zenon
<1> QED
  BY <1>1, AmountsNat, Zenon DEF DrawnOf

\* The rows a committed deduction inserts: one for each row its plan takes from.
RowsFor(req, plan) ==
    {[req |-> req, grant |-> g, amount |-> plan[g]] : g \in {h \in DOMAIN plan : plan[h] > 0}}

\* A request without rows yet, and a plan for it.
Insertable(D, req, plan) ==
    /\ IsFiniteSet(D) /\ D \subseteq DeductionType
    /\ IsFiniteSet(DOMAIN plan) /\ DOMAIN plan \subseteq Nat
    /\ \A g \in DOMAIN plan : plan[g] \in Nat
    /\ req \in RequestIDs /\ \A d \in D : d.req # req

\* E is D with the rows of that plan.
Inserted(D, E, req, plan) ==
    /\ IsFiniteSet(E) /\ E \subseteq DeductionType
    /\ \A d \in E : d \in D \/ d.grant \in DOMAIN plan
    /\ \A g \in DOMAIN plan : DrawnOf(E, g) = DrawnOf(D, g) + plan[g]
    /\ \A g : g \notin DOMAIN plan => DrawnOf(E, g) = DrawnOf(D, g)
    /\ ChargedOf(E, req) = SumOver(plan, DOMAIN plan)
    /\ \A r : r # req => ChargedOf(E, r) = ChargedOf(D, r)

\* Inserting the deduction rows of a new request adds what its plan takes to what each grant
\* gave, and charges the request the sum of the plan.
LEMMA RowsAdd ==
    ASSUME NEW D, NEW req, NEW plan, Insertable(D, req, plan)
    PROVE  Inserted(D, D \cup RowsFor(req, plan), req, plan)
<1> SUFFICES ASSUME IsFiniteSet(D), D \subseteq DeductionType,
                    IsFiniteSet(DOMAIN plan), DOMAIN plan \subseteq Nat,
                    \A g \in DOMAIN plan : plan[g] \in Nat,
                    req \in RequestIDs, \A d \in D : d.req # req
             PROVE  Inserted(D, D \cup RowsFor(req, plan), req, plan)
  BY Zenon DEF Insertable
<1> DEFINE f == [d \in DeductionType |-> d.amount]
           m == [g \in DOMAIN plan |-> [req |-> req, grant |-> g, amount |-> plan[g]]]
           G == {h \in DOMAIN plan : plan[h] > 0}
           rows == RowsFor(req, plan)
           E == D \cup rows
<1>1. rows = {m[g] : g \in G}
  BY Zenon DEF RowsFor
<1>2. \A g \in DOMAIN plan : /\ m[g] \in DeductionType /\ m[g].req = req /\ m[g].grant = g
                             /\ f[m[g]] = plan[g]
  <2>1. ASSUME NEW g \in DOMAIN plan
        PROVE  /\ m[g] \in DeductionType /\ m[g].req = req /\ m[g].grant = g
               /\ m[g].amount = plan[g]
    BY DEF DeductionType
  <2> HIDE DEF m
  <2> QED  BY <2>1, Zenon
<1> HIDE DEF m
<1>3. IsFiniteSet(G)
  BY FS_Subset, Zenon
<1>4. IsFiniteSet(rows) /\ SumOver(f, rows) = SumOver(plan, G)
  <2>1. \A g, h \in G : m[g] = m[h] => g = h
    <3>1. \A g \in G : m[g].grant = g
      BY <1>2
    <3> HIDE DEF G
    <3> QED  BY <3>1, Zenon
  <2>2. \A g \in G : plan[g] \in Int /\ f[m[g]] = plan[g]
    BY <1>2
  <2> HIDE DEF f, G, rows
  <2>3. \A x : x \in rows <=> \E g \in G : x = m[g]
    BY <1>1, Zenon
  <2>4. Reindexes(m, G, plan, rows, f)
    BY <2>1, <2>2, <2>3, Zenon DEF Reindexes
  <2> QED  BY <1>3, <2>4, SumOfImage
<1>5. rows \subseteq DeductionType /\ \A d \in rows : d.req = req /\ d.grant \in DOMAIN plan
  <2>1. ASSUME NEW d \in rows PROVE d \in DeductionType /\ d.req = req /\ d.grant \in DOMAIN plan
    <3> HIDE DEF rows, f
    <3>1. PICK g \in G : d = m[g]  BY <1>1, Zenon
    <3>2. g \in DOMAIN plan  OBVIOUS
    <3> QED  BY <1>2, <3>1, <3>2, Zenon
  <2> HIDE DEF rows
  <2> QED  BY <2>1, Zenon
<1>6. IsFiniteSet(E) /\ E \subseteq DeductionType
  BY <1>4, <1>5, FS_Union, Zenon
<1>7. ChargedOf(E, req) = SumOver(plan, DOMAIN plan)
  <2> DEFINE H == DOMAIN plan \ G
  <2>1. {d \in E : d.req = req} = rows
    BY <1>5, Zenon
  <2>2. ChargedOf(E, req) = SumOver(f, rows)
    <3> HIDE DEF rows, E
    <3> QED  BY <1>4, <1>5, <2>1, AmountsNat, Zenon DEF ChargedOf
  <2>3. IsFiniteSet(H) /\ G \cap H = {} /\ G \cup H = DOMAIN plan
    <3>1. H \subseteq DOMAIN plan /\ G \cap H = {} /\ G \cup H = DOMAIN plan
      BY Zenon
    <3> HIDE DEF H
    <3> QED  BY <3>1, FS_Subset, Zenon
  <2>4. \A g \in H : plan[g] = 0
    OBVIOUS
  <2>5. \A g \in G \cup H : plan[g] \in Int
    OBVIOUS
  <2> HIDE DEF G, H
  <2>6. SumOver(plan, DOMAIN plan) = SumOver(plan, G) + SumOver(plan, H)
    <3>1. SumOver(plan, G \cup H) = SumOver(plan, G) + SumOver(plan, H)
      BY <1>3, <2>3, <2>5, SumUnion, Zenon
    <3> QED  BY <2>3, <3>1, Zenon
  <2>7. SumOver(plan, H) = 0
    BY <2>3, <2>4, SumZero, Zenon
  <2>8. SumOver(plan, G) \in Int
    BY <1>3, <2>5, SumInt, Zenon
  <2> HIDE DEF rows, f, E
  <2> QED  BY <1>4, <2>2, <2>6, <2>7, <2>8
<1>8. ASSUME NEW r, r # req PROVE ChargedOf(E, r) = ChargedOf(D, r)
  <2>1. {d \in E : d.req = r} = {d \in D : d.req = r}
    BY <1>5, <1>8, Zenon
  <2> QED  BY <2>1, Zenon DEF ChargedOf
<1>9. ASSUME NEW g, g \notin G PROVE DrawnOf(E, g) = DrawnOf(D, g)
  <2>1. \A d \in rows : d.grant # g
    <3> HIDE DEF rows
    <3>1. \A h \in G : m[h].grant = h
      BY <1>2
    <3> QED  BY <1>1, <1>9, <3>1, Zenon
  <2>2. {d \in E : d.grant = g} = {d \in D : d.grant = g}
    BY <2>1, Zenon
  <2> QED  BY <2>2, Zenon DEF DrawnOf
<1>10. ASSUME NEW g \in G PROVE DrawnOf(E, g) = DrawnOf(D, g) + plan[g]
  <2> DEFINE A == {d \in D : d.grant = g}
             B == {d \in E : d.grant = g}
             x == m[g]
  <2>1. g \in DOMAIN plan /\ x \in DeductionType /\ x.req = req /\ x.grant = g /\ f[x] = plan[g]
    BY <1>2, Zenon
  <2>2. x \notin A
    BY <2>1, Zenon
  <2>3. \A d \in rows : d.grant = g => d = x
    <3> HIDE DEF rows
    <3>1. \A h \in G : m[h].grant = h
      BY <1>2
    <3> QED  BY <1>1, <3>1, Zenon
  <2>4. x \in rows
    <3> HIDE DEF rows, G
    <3> QED  BY <1>1, <1>10, Zenon
  <2>5. B = A \cup {x}
    <3> HIDE DEF rows, x
    <3> QED  BY <2>1, <2>3, <2>4, Zenon
  <2>6. A \subseteq DeductionType /\ IsFiniteSet(A)
    BY FS_Subset, Zenon
  <2>7. B \subseteq DeductionType /\ IsFiniteSet(B)
    <3> HIDE DEF E
    <3> QED  BY <1>6, FS_Subset, Zenon
  <2>8. \A y \in A \cup {x} : f[y] \in Int
    BY <2>1, <2>6 DEF DeductionType
  <2>9. DrawnOf(D, g) = SumOver(f, A) /\ DrawnOf(D, g) \in Nat /\ DrawnOf(E, g) = SumOver(f, B)
    <3> HIDE DEF E
    <3> QED  BY <2>6, <2>7, AmountsNat, Zenon DEF DrawnOf
  <2>10. SumOver(f, B) = f[x] + SumOver(f, A)
    <3> HIDE DEF A, B, f, x
    <3>1. \A y \in A : f[y] \in Int  BY <2>8, Zenon
    <3>2. f[x] \in Int  BY <2>8, Zenon
    <3> QED  BY <2>2, <2>5, <2>6, <3>1, <3>2, SumInsert, Zenon
  <2>11. plan[g] \in Nat
    BY <2>1
  <2> HIDE DEF f, x, A, B, E
  <2> QED  BY <2>1, <2>9, <2>10, <2>11
<1>11. ASSUME NEW g \in DOMAIN plan PROVE DrawnOf(E, g) = DrawnOf(D, g) + plan[g]
  <2>1. CASE g \in G  BY <1>10, <2>1, Zenon
  <2>2. CASE g \notin G
    <3>1. plan[g] = 0  BY <2>2
    <3>2. DrawnOf(D, g) \in Nat
      BY DrawnNat, Zenon
    <3>3. DrawnOf(E, g) = DrawnOf(D, g)  BY <1>9, <2>2, Zenon
    <3> HIDE DEF E
    <3> QED  BY <3>1, <3>2, <3>3
  <2> QED  BY <2>1, <2>2
<1>12. \A g : g \notin DOMAIN plan => DrawnOf(E, g) = DrawnOf(D, g)
  BY <1>9, Zenon
<1> QED
  BY <1>5, <1>6, <1>7, <1>8, <1>11, <1>12, Zenon DEF Inserted

-----------------------------------------------------------------------------
(* The steps of the ledger keep its invariant. *)

\* INSERT adds one row, behind those that are there.
LEMMA AppendFacts ==
    ASSUME NEW S, NEW s \in Seq(S), NEW x \in S, NEW t, t = Append(s, x)
    PROVE  /\ t \in Seq(S) /\ Len(t) = Len(s) + 1 /\ t[Len(s) + 1] = x
           /\ DOMAIN t = DOMAIN s \cup {Len(s) + 1} /\ Len(s) + 1 \notin DOMAIN s
           /\ \A k \in DOMAIN s : t[k] = s[k]
<1>1. DOMAIN s = 1 .. Len(s) /\ Len(s) \in Nat
  BY SMT
<1> QED
  BY <1>1

\* What a grant's row looks like when it is inserted.
LEMMA NewRow ==
    ASSUME NEW in, in.ref \in Known, in.amount \in Nat, in.days \in Nat, clock \in Nat
    PROVE  [ref |-> in.ref, initial |-> in.amount, remaining |-> in.amount,
            expires |-> IF in.days = 0 THEN Never ELSE Min({clock + in.days, Never}),
            revoked |-> FALSE] \in RowType
<1> DEFINE a == clock + in.days
           m == Min({a, Never})
           exp == IF in.days = 0 THEN Never ELSE m
<1>1. Never \in Nat /\ a \in Nat
  BY RepoAssumption DEF Never
<1> HIDE DEF a
<1>2. m = IF a <= Never THEN a ELSE Never
  <2>1. a \in Int /\ Never \in Int  BY <1>1
  <2> QED  BY <2>1, MaxMin, Zenon
<1> HIDE DEF m
<1>3. exp \in Nat
  BY <1>1, <1>2
<1> HIDE DEF exp
<1>4. [ref |-> in.ref, initial |-> in.amount, remaining |-> in.amount, expires |-> exp,
       revoked |-> FALSE] \in RowType
  <2>1. FALSE \in BOOLEAN  OBVIOUS
  <2> QED  BY <1>3, <2>1, Zenon DEF RowType
<1> QED
  BY <1>4, Zenon DEF exp, m, a

\* The refs that may occur depend on the feed alone.
LEMMA SameTypes == feed' = feed => Known' = Known /\ RowType' = RowType
BY Zenon DEF Known, RowType

\* No deduction row names a grant that is not there yet.
LEMMA NothingDrawn ==
    ASSUME NEW D, IsFiniteSet(D), D \subseteq DeductionType, NEW g, \A d \in D : d.grant # g
    PROVE  DrawnOf(D, g) = 0
<1> DEFINE A == {d \in D : d.grant = g}
           f == [d \in DeductionType |-> d.amount]
<1>1. A = {}
  OBVIOUS
<1>2. IsFiniteSet({}) /\ {} \subseteq DeductionType
  BY FS_EmptySet, Zenon
<1>3. SumAmounts({}) = SumOver(f, {})
  BY <1>2, AmountsNat, Zenon
<1> QED
  BY <1>1, <1>3, SumEmpty, Zenon DEF DrawnOf

\* The INSERT of CreditRepo.Grant keeps the invariant: a new row has its initial amount.
LEMMA InsertKeeps ==
    ASSUME RepoInv, feed' = feed, NEW in, in.ref \in Known, in.amount \in Nat,
           in.days \in Nat, Insert(in), UNCHANGED <<deductions, tx, clock>>
    PROVE  RepoInv'
<1> DEFINE n == Len(grants) + 1
           row == [ref |-> in.ref, initial |-> in.amount, remaining |-> in.amount,
                   expires |-> IF in.days = 0 THEN Never ELSE Min({clock + in.days, Never}),
                   revoked |-> FALSE]
<1>1. RepoTyped /\ (\A c \in Clients : TxOpen(tx[c])) /\ OneHolder /\ RowsBalance /\ ChargedInFull
  BY Zenon DEF RepoInv
<1>2. row \in RowType /\ row.initial = in.amount /\ row.remaining = in.amount
  BY <1>1, NewRow, Zenon DEF RepoTyped
<1>3. grants' = Append(grants, row) /\ zeroed' = Append(zeroed, 0)
  BY Zenon DEF Insert
<1> HIDE DEF row
<1>4. /\ grants' \in Seq(RowType) /\ Len(grants') = n /\ grants'[n] = row
      /\ DOMAIN grants' = DOMAIN grants \cup {n} /\ n \notin DOMAIN grants
      /\ \A g \in DOMAIN grants : grants'[g] = grants[g]
  <2>1. grants \in Seq(RowType)  BY <1>1, Zenon DEF RepoTyped
  <2> QED  BY <1>2, <1>3, <2>1, AppendFacts
<1>5. /\ zeroed' \in Seq(Nat) /\ Len(zeroed') = n /\ zeroed'[n] = 0
      /\ \A g \in DOMAIN grants : zeroed'[g] = zeroed[g]
  <2>1. zeroed \in Seq(Nat) /\ Len(zeroed) = Len(grants) /\ 0 \in Nat
    BY <1>1 DEF RepoTyped
  <2>2. DOMAIN zeroed = DOMAIN grants
    BY <1>1, <2>1, DomainFacts, Zenon DEF RepoTyped
  <2> QED  BY <1>3, <2>1, <2>2, AppendFacts
<1>6. RepoTyped'
  BY <1>1, <1>4, <1>5, SameTypes, Zenon DEF RepoTyped, TxType
<1>7. ASSUME NEW c \in Clients PROVE TxOpen(tx[c])'
  <2>1. TxOpen(tx[c]) /\ tx'[c] = tx[c]
    BY <1>1, Zenon
  <2> QED  BY <2>1, <1>4, Zenon DEF TxOpen
<1>8. OneHolder' /\ ChargedInFull'
  BY <1>1, SumsOf, Zenon DEF OneHolder, ChargedInFull
<1>9. RowsBalance'
  <2> SUFFICES ASSUME NEW g \in DOMAIN grants'
               PROVE  /\ grants'[g].remaining >= 0
                      /\ grants'[g].initial = grants'[g].remaining + DrawnOf(deductions, g) + zeroed'[g]
    BY SumsOf, Zenon DEF RowsBalance
  <2>1. CASE g \in DOMAIN grants
    <3>1. /\ grants[g].remaining >= 0
          /\ grants[g].initial = grants[g].remaining + DrawnOf(deductions, g) + zeroed[g]
      BY <1>1, <2>1, SumsOf, Zenon DEF RowsBalance
    <3> QED  BY <1>4, <1>5, <2>1, <3>1, Zenon
  <2>2. CASE g = n
    <3>1. DrawnOf(deductions, n) = 0
      <4>1. \A d \in deductions : d.grant # n
        BY <1>1, <1>4, Zenon DEF RepoTyped
      <4> QED  BY <1>1, <4>1, NothingDrawn, Zenon DEF RepoTyped
    <3> HIDE DEF n
    <3> QED  BY <1>2, <1>4, <1>5, <2>2, <3>1
  <2> QED  BY <1>4, <2>1, <2>2, Zenon
<1> QED
  BY <1>6, <1>7, <1>8, <1>9, Zenon DEF RepoInv

\* A step that neither adds rows nor changes what they are for.
RowsKept == DOMAIN grants' = DOMAIN grants /\ \A g \in DOMAIN grants : grants'[g].ref = grants[g].ref

\* The UPDATE of a revocation or an expiry empties a row and changes nothing else of it.
LEMMA ZeroedRow ==
    ASSUME NEW r \in RowType, NEW revoke \in BOOLEAN,
           NEW q, q = [r EXCEPT !.remaining = 0, !.revoked = @ \/ revoke]
    PROVE  q \in RowType /\ q.remaining = 0 /\ q.initial = r.initial /\ q.ref = r.ref
<1>1. 0 \in Nat
  OBVIOUS
<1>2. (r.revoked \/ revoke) \in BOOLEAN
  BY Zenon DEF RowType
<1> QED
  BY <1>1, <1>2, Zenon DEF RowType

\* Taking everything out of rows no transaction holds (RunExpiry, RevokeGrant).
LEMMA ZeroKeeps ==
    ASSUME RepoInv, feed' = feed, NEW S \in SUBSET DOMAIN grants, RowsFree(S),
           NEW revoke \in BOOLEAN, Zero(S, revoke), UNCHANGED <<deductions, tx, clock>>
    PROVE  RepoInv' /\ RowsKept
<1>1. RepoTyped /\ (\A c \in Clients : TxOpen(tx[c])) /\ OneHolder /\ RowsBalance /\ ChargedInFull
  BY Zenon DEF RepoInv
<1>2. /\ grants \in Seq(RowType) /\ zeroed \in Seq(Nat) /\ DOMAIN zeroed = DOMAIN grants
      /\ Len(zeroed) = Len(grants)
  <2>1. grants \in Seq(RowType) /\ zeroed \in Seq(Nat) /\ Len(zeroed) = Len(grants)
    BY <1>1, Zenon DEF RepoTyped
  <2> QED  BY <2>1, DomainFacts, Zenon
<1>3. /\ DOMAIN grants' = DOMAIN grants /\ DOMAIN zeroed' = DOMAIN grants
      /\ grants' = [g \in DOMAIN grants' |-> grants'[g]]
      /\ zeroed' = [g \in DOMAIN zeroed' |-> zeroed'[g]]
  BY <1>2 DEF Zero
<1>4. ASSUME NEW g \in DOMAIN grants, g \notin S
      PROVE  grants'[g] = grants[g] /\ zeroed'[g] = zeroed[g] /\ zeroed[g] \in Nat
  <2>1. zeroed[g] \in Nat
    BY <1>2
  <2>2. grants'[g] = grants[g] /\ zeroed'[g] = zeroed[g] + 0
    BY <1>2, <1>4, Zenon DEF Zero
  <2> QED
    BY <2>1, <2>2
<1>5. ASSUME NEW g \in DOMAIN grants, g \in S
      PROVE  /\ grants'[g] \in RowType /\ grants'[g].remaining = 0
             /\ grants'[g].initial = grants[g].initial /\ grants'[g].ref = grants[g].ref
             /\ zeroed'[g] = zeroed[g] + grants[g].remaining
             /\ zeroed[g] \in Nat /\ grants[g].remaining \in Nat
  <2>1. grants'[g] = [grants[g] EXCEPT !.remaining = 0, !.revoked = @ \/ revoke]
    BY <1>5, Zenon DEF Zero
  <2>2. grants[g] \in RowType /\ grants[g].remaining \in Nat
    BY <1>2, RowFields, Zenon
  <2>3. zeroed'[g] = zeroed[g] + grants[g].remaining
    BY <1>2, <1>5, Zenon DEF Zero
  <2>4. zeroed[g] \in Nat
    BY <1>2
  <2> QED
    BY <2>1, <2>2, <2>3, <2>4, ZeroedRow, Zenon
<1>6. \A g \in DOMAIN grants : grants'[g] \in RowType /\ zeroed'[g] \in Nat
  <2>1. \A g \in DOMAIN grants : grants[g] \in RowType
    BY <1>2, RowFields, Zenon
  <2> QED  BY <1>4, <1>5, <2>1
<1>7. grants' \in Seq(RowType) /\ Len(grants') = Len(grants)
  BY <1>2, <1>3, <1>6, MapSeq
<1>8. zeroed' \in Seq(Nat) /\ Len(zeroed') = Len(zeroed)
  BY <1>2, <1>3, <1>6, MapSeq
<1>9. RepoTyped'
  BY <1>1, <1>2, <1>3, <1>7, <1>8, SameTypes, Zenon DEF RepoTyped, TxType
<1>10. ASSUME NEW c \in Clients PROVE TxOpen(tx[c])'
  <2>1. TxOpen(tx[c]) /\ tx'[c] = tx[c]
    BY <1>1, Zenon
  <2>2. DOMAIN tx[c].plan \cap S = {}
    BY Zenon DEF RowsFree, RowLocks
  <2> QED  BY <1>3, <1>4, <2>1, <2>2, Zenon DEF TxOpen
<1>11. OneHolder' /\ ChargedInFull'
  BY <1>1, SumsOf, Zenon DEF OneHolder, ChargedInFull
<1>12. RowsBalance'
  <2> SUFFICES ASSUME NEW g \in DOMAIN grants
               PROVE  /\ grants'[g].remaining >= 0
                      /\ grants'[g].initial = grants'[g].remaining + DrawnOf(deductions, g) + zeroed'[g]
    BY <1>3, SumsOf, Zenon DEF RowsBalance
  <2>1. /\ grants[g].remaining >= 0
        /\ grants[g].initial = grants[g].remaining + DrawnOf(deductions, g) + zeroed[g]
    BY <1>1, SumsOf, Zenon DEF RowsBalance
  <2>2. DrawnOf(deductions, g) \in Nat
    BY <1>1, DrawnNat, Zenon DEF RepoTyped
  <2>3. CASE g \in S
    BY <1>5, <2>1, <2>2, <2>3
  <2>4. CASE g \notin S
    BY <1>4, <2>1, <2>4, Zenon
  <2> QED  BY <2>3, <2>4
<1>13. RowsKept
  BY <1>3, <1>4, <1>5, Zenon DEF RowsKept
<1> QED
  BY <1>9, <1>10, <1>11, <1>12, <1>13, Zenon DEF RepoInv

\* The fields of a transaction.
LEMMA TxFields ==
    ASSUME NEW t \in TxType
    PROVE  /\ t.pc \in {"idle", "begun", "locked", "planned"} /\ t.now \in Nat
           /\ t.plan \in Plans /\ DOMAIN t.plan \subseteq Nat
           /\ \A g \in DOMAIN t.plan : t.plan[g] \in Nat
<1>1. t.pc \in {"idle", "begun", "locked", "planned"} /\ t.now \in Nat /\ t.plan \in Plans
  BY Zenon DEF TxType
<1>2. PICK D \in SUBSET Nat : t.plan \in [D -> Nat]
  BY <1>1, Zenon DEF Plans
<1> QED
  BY <1>1, <1>2

\* The lock, the plan and the end of a transaction change its own state only.
LEMMA TxStep ==
    ASSUME RepoInv, feed' = feed, NEW c \in Clients, NEW t \in TxType, TxOpen(t),
           t.pc \in {"locked", "planned"} =>
                \A d \in Clients : d # c => tx[d].pc \notin {"locked", "planned"},
           tx' = [tx EXCEPT ![c] = t], UNCHANGED <<grants, deductions, zeroed, clock>>
    PROVE  RepoInv' /\ RowsKept
<1>1. RepoTyped /\ (\A d \in Clients : TxOpen(tx[d])) /\ OneHolder /\ RowsBalance /\ ChargedInFull
  BY Zenon DEF RepoInv
<1>2. tx \in [Clients -> TxType]
  BY <1>1, Zenon DEF RepoTyped
<1>3. tx'[c] = t /\ \A d \in Clients : d # c => tx'[d] = tx[d]
  BY <1>2, Zenon
<1>4. tx' \in [Clients -> TxType]
  BY <1>2, Zenon
<1>5. RepoTyped'
  BY <1>1, <1>4, SameTypes, Zenon DEF RepoTyped, TxType
<1>6. ASSUME NEW d \in Clients PROVE TxOpen(tx[d])'
  <2>1. TxOpen(tx'[d])
    BY <1>1, <1>3, Zenon
  <2> QED  BY <2>1, Zenon DEF TxOpen
<1>7. OneHolder'
  BY <1>1, <1>3, Zenon DEF OneHolder
<1>8. ChargedInFull' /\ RowsBalance' /\ RowsKept
  BY <1>1, SumsOf, Zenon DEF ChargedInFull, RowsBalance, RowsKept
<1> QED
  BY <1>5, <1>6, <1>7, <1>8, Zenon DEF RepoInv

\* A client between transactions holds no lock and has no plan.
LEMMA IdleOpen == TxOpen(Idle)
BY IdleType, Zenon DEF TxOpen

\* BeginTx, the lock, and the deferred rollback.
LEMMA BeginKeeps ==
    ASSUME RepoInv, feed' = feed, NEW c \in Clients, NEW req \in RequestIDs, BeginTx(c, req)
    PROVE  RepoInv' /\ RowsKept
<1> DEFINE t == [Idle EXCEPT !.pc = "begun", !.req = req, !.now = clock]
<1>1. clock \in Nat
  BY Zenon DEF RepoInv, RepoTyped
<1>2. t \in TxType /\ t.pc = "begun" /\ t.req = req /\ t.plan = Idle.plan
  <2>1. Idle \in TxType /\ req \in RequestIDs \cup {Idle.req}
    BY IdleType, Zenon
  <2> QED  BY <1>1, <2>1, Zenon DEF TxType
<1>3. tx' = [tx EXCEPT ![c] = t] /\ UNCHANGED <<grants, deductions, zeroed, clock>>
  BY Zenon DEF BeginTx
<1> HIDE DEF t
<1>4. TxOpen(t)
  BY <1>2, IdleType, Zenon DEF TxOpen
<1> QED
  BY <1>2, <1>3, <1>4, TxStep, Zenon

\* A transaction that ends without COMMIT leaves no trace in the tables.
LEMMA RollbackKeeps ==
    ASSUME RepoInv, feed' = feed, NEW c \in Clients, Rollback(c)
    PROVE  RepoInv' /\ RowsKept
<1>1. tx' = [tx EXCEPT ![c] = Idle] /\ UNCHANGED <<grants, deductions, zeroed, clock>>
  BY Zenon DEF Rollback
<1>2. Idle \in TxType /\ Idle.pc \notin {"locked", "planned"}
  BY IdleType, Zenon
<1> QED
  BY <1>1, <1>2, IdleOpen, TxStep, Zenon

\* The advisory lock of a subject is taken by one transaction at a time, and the look-up of the
\* request under it finds the request charged or not charged at all.
LEMMA AcquireKeeps ==
    ASSUME RepoInv, feed' = feed, NEW c \in Clients, AcquireTx(c)
    PROVE  RepoInv' /\ RowsKept
<1> DEFINE t == [tx[c] EXCEPT !.pc = "locked"]
<1>1. UNCHANGED <<grants, deductions, zeroed, clock>> /\ tx[c].pc = "begun"
  BY Zenon DEF AcquireTx, Checked
<1>2. tx[c] \in TxType /\ TxOpen(tx[c])
  BY Zenon DEF RepoInv, RepoTyped
<1>3. CASE \E d \in deductions : d.req = tx[c].req
  <2>1. tx' = [tx EXCEPT ![c] = Idle]
    BY <1>3, Zenon DEF AcquireTx, Checked
  <2>2. Idle \in TxType /\ Idle.pc \notin {"locked", "planned"}
    BY IdleType, Zenon
  <2> QED
    BY <1>1, <2>1, <2>2, IdleOpen, TxStep, Zenon
<1>4. CASE ~ \E d \in deductions : d.req = tx[c].req
  <2>1. tx' = [tx EXCEPT ![c] = t]
    BY <1>4, Zenon DEF AcquireTx, Checked
  <2>2. t \in TxType /\ t.pc = "locked" /\ t.req = tx[c].req /\ t.plan = tx[c].plan
    BY <1>2, Zenon DEF TxType
  <2>3. \A d \in Clients : tx[d].pc \notin {"locked", "planned"}
    BY Zenon DEF AcquireTx
  <2> HIDE DEF t
  <2>4. TxOpen(t)
    BY <1>1, <1>2, <1>4, <2>2, Zenon DEF TxOpen
  <2> QED
    BY <1>1, <2>1, <2>2, <2>3, <2>4, TxStep, Zenon
<1> QED
  BY <1>3, <1>4, Zenon

\* SELECT ... FOR UPDATE and the planning loop: the plan adds up to the request.
LEMMA SelectKeeps ==
    ASSUME RepoInv, feed' = feed, NEW c \in Clients, SelectForUpdate(c)
    PROVE  RepoInv' /\ RowsKept
<1> DEFINE pool == Eligible(tx[c].now)
           amount == AmountOf[tx[c].req]
           t == [tx[c] EXCEPT !.pc = "planned", !.plan = Plan(pool, amount)]
<1>1. UNCHANGED <<grants, deductions, zeroed, clock>> /\ tx[c].pc = "locked"
  BY Zenon DEF SelectForUpdate
<1>2. tx[c] \in TxType /\ TxOpen(tx[c]) /\ grants \in Seq(RowType) /\ OneHolder
  BY Zenon DEF RepoInv, RepoTyped
<1>3. /\ pool \in SUBSET DOMAIN grants /\ IsFiniteSet(pool) /\ pool \subseteq Nat
      /\ \A g \in DOMAIN grants : grants[g].remaining \in Nat /\ grants[g].expires \in Nat
  <2>1. pool \subseteq DOMAIN grants
    BY Zenon DEF Eligible
  <2>2. DOMAIN grants \subseteq Nat /\ IsFiniteSet(DOMAIN grants)
    BY <1>2, DomainFacts, Zenon
  <2>3. \A g \in DOMAIN grants : grants[g].remaining \in Nat /\ grants[g].expires \in Nat
    BY <1>2, RowFields, Zenon
  <2> HIDE DEF pool
  <2> QED  BY <2>1, <2>2, <2>3, FS_Subset, Zenon
<1>4. amount \in Nat
  <2>1. tx[c].req \in RequestIDs
    BY <1>1, <1>2, Zenon DEF TxOpen
  <2> QED  BY <2>1, RepoAssumption
<1>5. Remaining(pool) \in Nat
  <2> HIDE DEF pool
  <2>1. \A g \in pool : grants[g].remaining \in Int /\ RemainingOf[g] \in Nat
    BY <1>3 DEF RemainingOf
  <2> QED  BY <1>3, <2>1, RemainingSum, SumNat, Zenon
<1> HIDE DEF pool, amount
<1>6. CASE Remaining(pool) < amount
  <2>1. tx' = [tx EXCEPT ![c] = Idle]
    BY <1>6, Zenon DEF SelectForUpdate, pool, amount
  <2>2. Idle \in TxType /\ Idle.pc \notin {"locked", "planned"}
    BY IdleType, Zenon
  <2> QED
    BY <1>1, <2>1, <2>2, IdleOpen, TxStep, Zenon
<1>7. CASE ~(Remaining(pool) < amount)
  <2>1. tx' = [tx EXCEPT ![c] = t]
    BY <1>7, Zenon DEF SelectForUpdate, pool, amount
  <2> DEFINE P == Plan(pool, amount)
  <2>2. Remaining(pool) >= amount
    BY <1>4, <1>5, <1>7
  <2>3. /\ DOMAIN P = pool
        /\ \A g \in pool : P[g] \in 0 .. grants[g].remaining
        /\ SumOver(P, pool) = amount
    BY <1>3, <1>4, <2>2, PlanSum, Zenon
  <2>4. P = [g \in DOMAIN P |-> P[g]]
    BY Zenon DEF Plan
  <2> HIDE DEF P
  <2>5. \A g \in pool : P[g] \in Nat /\ P[g] <= grants[g].remaining
    BY <1>3, <2>3
  <2>6. P \in Plans
    <3>1. P \in [pool -> Nat]  BY <2>3, <2>4, <2>5, Zenon
    <3>2. pool \in SUBSET Nat  BY <1>3, Zenon
    <3> QED  BY <3>1, <3>2, Zenon DEF Plans
  <2>7. t \in TxType /\ t.pc = "planned" /\ t.req = tx[c].req /\ t.plan = P
    BY <1>2, <2>6, Zenon DEF TxType, P
  <2> HIDE DEF t
  <2>8. TxOpen(t)
    BY <1>1, <1>2, <1>3, <2>3, <2>5, <2>7, Zenon DEF TxOpen, amount
  <2>9. \A d \in Clients : d # c => tx[d].pc \notin {"locked", "planned"}
    BY <1>1, <1>2, Zenon DEF OneHolder
  <2> QED
    BY <1>1, <2>1, <2>7, <2>8, <2>9, TxStep, Zenon
<1> QED
  BY <1>6, <1>7, Zenon

\* The UPDATE of TryDeduct lowers remaining by what the plan takes, never below 0.
LEMMA DrawnRow ==
    ASSUME NEW r \in RowType, NEW x \in Nat, x <= r.remaining,
           NEW q, q = [r EXCEPT !.remaining = @ - x]
    PROVE  /\ q \in RowType /\ q.remaining = r.remaining - x /\ q.remaining >= 0
           /\ q.initial = r.initial /\ q.ref = r.ref
<1>1. r.remaining \in Nat
  BY Zenon DEF RowType
<1>2. r.remaining - x \in Nat /\ r.remaining - x >= 0
  BY <1>1
<1> QED
  BY <1>2, Zenon DEF RowType

\* The commit of a plan: UNIQUE (subject_id, request_id, grant_id) never refuses it.
LEMMA CommitKeeps ==
    ASSUME RepoInv, feed' = feed, NEW c \in Clients, Commit(c)
    PROVE  RepoInv' /\ RowsKept
<1> DEFINE plan == tx[c].plan
           req == tx[c].req
           rows == RowsFor(req, plan)
           D == deductions
           E == deductions \cup rows
<1>1. RepoTyped /\ (\A d \in Clients : TxOpen(tx[d])) /\ OneHolder /\ RowsBalance /\ ChargedInFull
  BY Zenon DEF RepoInv
<1>2. /\ tx \in [Clients -> TxType] /\ grants \in Seq(RowType) /\ zeroed \in Seq(Nat)
      /\ IsFiniteSet(D) /\ D \subseteq DeductionType
  BY <1>1, Zenon DEF RepoTyped
<1>3. UNCHANGED <<zeroed, clock>> /\ tx[c].pc = "planned" /\ tx' = [tx EXCEPT ![c] = Idle]
  BY Zenon DEF Commit
<1>4. /\ req \in RequestIDs /\ \A d \in D : d.req # req
      /\ DOMAIN plan \subseteq DOMAIN grants /\ \A g \in DOMAIN plan : plan[g] <= grants[g].remaining
      /\ SumOver(plan, DOMAIN plan) = AmountOf[req]
  BY <1>1, <1>3, Zenon DEF TxOpen
<1>5. DOMAIN plan \subseteq Nat /\ \A g \in DOMAIN plan : plan[g] \in Nat
  BY <1>2, TxFields, Zenon
<1>6. IsFiniteSet(DOMAIN plan)
  <2>1. IsFiniteSet(DOMAIN grants)
    BY <1>2, DomainFacts, Zenon
  <2> HIDE DEF plan
  <2> QED  BY <1>4, <2>1, FS_Subset, Zenon
<1>7. ~ \E d \in deductions, r \in rows : d.req = r.req /\ d.grant = r.grant
  <2>1. \A r \in rows : r.req = req
    BY DEF RowsFor
  <2> HIDE DEF rows, req
  <2> QED  BY <1>4, <2>1, Zenon
<1>8. /\ grants' = [g \in DOMAIN grants |->
                        IF g \in DOMAIN plan
                        THEN [grants[g] EXCEPT !.remaining = @ - plan[g]]
                        ELSE grants[g]]
      /\ deductions' = E
  <2> DEFINE refused == \E d \in deductions, r \in rows : d.req = r.req /\ d.grant = r.grant
  <2>1. /\ grants' = [g \in DOMAIN grants |->
                        IF g \in DOMAIN plan /\ ~refused
                        THEN [grants[g] EXCEPT !.remaining = @ - plan[g]]
                        ELSE grants[g]]
        /\ deductions' = IF refused THEN deductions ELSE E
    BY Zenon DEF Commit, RowsFor
  <2>2. refused = FALSE
    BY <1>7, Zenon
  <2> HIDE DEF refused, rows, plan
  <2> QED  BY <2>1, <2>2, Zenon
<1> HIDE DEF plan, req, rows
<1>9. /\ IsFiniteSet(E) /\ E \subseteq DeductionType
      /\ \A d \in E : d \in D \/ d.grant \in DOMAIN plan
      /\ \A g \in DOMAIN plan : DrawnOf(E, g) = DrawnOf(D, g) + plan[g]
      /\ \A g : g \notin DOMAIN plan => DrawnOf(E, g) = DrawnOf(D, g)
      /\ ChargedOf(E, req) = SumOver(plan, DOMAIN plan)
      /\ \A r : r # req => ChargedOf(E, r) = ChargedOf(D, r)
  <2>1. Insertable(D, req, plan)
    BY <1>2, <1>4, <1>5, <1>6, Zenon DEF Insertable
  <2>2. Inserted(D, E, req, plan)
    BY <2>1, RowsAdd, Zenon DEF rows
  <2> HIDE DEF D, E
  <2> QED  BY <2>2, Zenon DEF Inserted
<1> HIDE DEF D, E
<1>10. ASSUME NEW g \in DOMAIN grants, g \in DOMAIN plan
       PROVE  /\ grants'[g] \in RowType /\ grants'[g].remaining = grants[g].remaining - plan[g]
              /\ grants'[g].remaining >= 0
              /\ grants'[g].initial = grants[g].initial /\ grants'[g].ref = grants[g].ref
  <2>1. grants'[g] = [grants[g] EXCEPT !.remaining = @ - plan[g]]
    BY <1>8, <1>10, Zenon
  <2>2. grants[g] \in RowType
    BY <1>2, RowFields, Zenon
  <2> QED  BY <1>4, <1>5, <1>10, <2>1, <2>2, DrawnRow
<1>11. \A g \in DOMAIN grants : g \notin DOMAIN plan => grants'[g] = grants[g]
  BY <1>8, Zenon
<1>12. DOMAIN grants' = DOMAIN grants /\ grants' = [g \in DOMAIN grants' |-> grants'[g]]
  BY <1>8
<1>13. grants' \in Seq(RowType) /\ Len(grants') = Len(grants)
  <2>1. \A g \in DOMAIN grants : grants'[g] \in RowType
    BY <1>2, <1>10, <1>11, RowFields, Zenon
  <2> QED  BY <1>2, <1>12, <2>1, MapSeq
<1>14. tx' \in [Clients -> TxType] /\ tx'[c] = Idle /\ \A d \in Clients : d # c => tx'[d] = tx[d]
  BY <1>2, <1>3, IdleType, Zenon
<1>15. RepoTyped'
  <2>1. \A d \in deductions' : d \in DeductionType /\ d.grant \in DOMAIN grants'
    BY <1>1, <1>2, <1>4, <1>8, <1>9, <1>12, Zenon DEF RepoTyped, D, E
  <2> QED
    BY <1>1, <1>3, <1>8, <1>9, <1>12, <1>13, <1>14, <2>1, SameTypes, Zenon
       DEF RepoTyped, TxType, DeductionType
<1>16. ASSUME NEW d \in Clients PROVE TxOpen(tx[d])'
  <2>1. CASE d = c
    BY <1>14, <2>1, IdleType, Zenon DEF TxOpen
  <2>2. CASE d # c
    <3>1. tx'[d] = tx[d] /\ TxOpen(tx[d]) /\ tx[d].pc \notin {"locked", "planned"}
      BY <1>1, <1>3, <1>14, <2>2, Zenon DEF OneHolder
    <3> QED  BY <3>1, Zenon DEF TxOpen
  <2> QED  BY <2>1, <2>2, Zenon
<1>17. OneHolder'
  BY <1>1, <1>14, IdleType, Zenon DEF OneHolder
<1>18. ChargedInFull'
  <2>1. \A r \in RequestIDs : ChargedOf(D, r) \in {0, AmountOf[r]}
    BY <1>1, SumsOf, Zenon DEF ChargedInFull, D
  <2>2. \A r \in RequestIDs : ChargedOf(E, r) \in {0, AmountOf[r]}
    BY <1>4, <1>9, <2>1, Zenon
  <2> QED  BY <1>8, <2>2, SumsOf, Zenon DEF ChargedInFull
<1>19. RowsBalance'
  <2> SUFFICES ASSUME NEW g \in DOMAIN grants
               PROVE  /\ grants'[g].remaining >= 0
                      /\ grants'[g].initial = grants'[g].remaining + DrawnOf(E, g) + zeroed[g]
    BY <1>3, <1>8, <1>12, SumsOf, Zenon DEF RowsBalance
  <2>1. /\ grants[g].remaining >= 0
        /\ grants[g].initial = grants[g].remaining + DrawnOf(D, g) + zeroed[g]
    BY <1>1, SumsOf, Zenon DEF RowsBalance, D
  <2>2. DrawnOf(D, g) \in Nat
    BY <1>2, DrawnNat, Zenon
  <2>3. zeroed[g] \in Nat /\ grants[g].remaining \in Nat
    <3>1. Len(zeroed) = Len(grants)  BY <1>1, Zenon DEF RepoTyped
    <3>2. DOMAIN zeroed = DOMAIN grants  BY <1>2, <3>1, DomainFacts, Zenon
    <3>3. zeroed[g] \in Nat  BY <1>2, <3>2
    <3> QED  BY <1>2, <3>3, RowFields, Zenon
  <2>4. CASE g \in DOMAIN plan
    <3>1. plan[g] \in Nat /\ DrawnOf(E, g) = DrawnOf(D, g) + plan[g]
      BY <1>5, <1>9, <2>4, Zenon
    <3> QED  BY <1>10, <2>1, <2>2, <2>3, <2>4, <3>1
  <2>5. CASE g \notin DOMAIN plan
    BY <1>9, <1>11, <2>1, <2>5, Zenon
  <2> QED  BY <2>4, <2>5
<1>20. RowsKept
  BY <1>10, <1>11, <1>12, Zenon DEF RowsKept
<1> QED
  BY <1>15, <1>16, <1>17, <1>18, <1>19, <1>20, Zenon DEF RepoInv

\* Time passing keeps the invariant.
LEMMA ClockStep ==
    ASSUME RepoInv, feed' = feed, clock' \in Nat, UNCHANGED <<grants, deductions, tx, zeroed>>
    PROVE  RepoInv' /\ RowsKept
<1>1. RepoTyped /\ (\A d \in Clients : TxOpen(tx[d])) /\ OneHolder /\ RowsBalance /\ ChargedInFull
  BY Zenon DEF RepoInv
<1>2. RepoTyped'
  BY <1>1, SameTypes, Zenon DEF RepoTyped, TxType
<1>3. \A d \in Clients : TxOpen(tx[d])'
  BY <1>1, Zenon DEF TxOpen
<1>4. OneHolder' /\ ChargedInFull' /\ RowsBalance' /\ RowsKept
  BY <1>1, SumsOf, Zenon DEF OneHolder, ChargedInFull, RowsBalance, RowsKept
<1> QED
  BY <1>2, <1>3, <1>4, Zenon DEF RepoInv

\* Every step of the deduction transactions, the expiry sweep and the clock.
LEMMA RepoStep ==
    ASSUME RepoInv, feed' = feed, RepoNext
    PROVE  RepoInv' /\ RowsKept
<1>1. CASE \E c \in Clients, req \in RequestIDs : BeginTx(c, req)
  BY <1>1, BeginKeeps, Zenon
<1>2. CASE \E c \in Clients : AcquireTx(c) \/ SelectForUpdate(c) \/ Commit(c) \/ Rollback(c)
  BY <1>2, AcquireKeeps, SelectKeeps, CommitKeeps, RollbackKeeps, Zenon
<1>3. CASE ExpiryCount
  <2>1. UNCHANGED <<grants, deductions, tx, zeroed, clock>> /\ clock \in Nat
    BY <1>3, Zenon DEF ExpiryCount, RepoInv, RepoTyped
  <2> QED  BY <2>1, ClockStep, Zenon
<1>4. CASE Tick
  <2>1. UNCHANGED <<grants, deductions, tx, zeroed>> /\ clock' = clock + 1 /\ clock \in Nat
    BY <1>4, Zenon DEF Tick, RepoInv, RepoTyped
  <2>2. clock' \in Nat
    BY <2>1
  <2> QED  BY <2>1, <2>2, ClockStep, Zenon
<1>5. CASE ExpiryZero
  <2>1. /\ Overdue \in SUBSET DOMAIN grants /\ RowsFree(Overdue) /\ Zero(Overdue, FALSE)
        /\ UNCHANGED <<deductions, tx, clock>>
    BY <1>5, Zenon DEF ExpiryZero, Overdue
  <2>2. FALSE \in BOOLEAN
    OBVIOUS
  <2> QED  BY <2>1, <2>2, ZeroKeeps, Zenon
<1> QED
  BY <1>1, <1>2, <1>3, <1>4, <1>5, Zenon DEF RepoNext

Granted(ref) == \E g \in DOMAIN grants : grants[g].ref = ref

\* The unique index on (subject_id, bucket, source_ref).
RefsUnique == \A g, h \in DOMAIN grants : grants[g].ref = grants[h].ref => g = h

\* A step after which every row is still there, for what it was.
RefsKept ==
    /\ DOMAIN grants \subseteq DOMAIN grants'
    /\ \A ref : Granted(ref) => Granted(ref)'
    /\ RefsUnique => RefsUnique'

\* A step that keeps the rows' refs loses no grant.
LEMMA KeptRefs == RowsKept => RefsKept
BY Zenon DEF RowsKept, RefsKept, Granted, RefsUnique

\* RevokeGrant keeps the invariant and loses no row.
LEMMA RevokeKeeps ==
    ASSUME RepoInv, feed' = feed, NEW g \in DOMAIN grants, RevokeGrant(g),
           UNCHANGED <<deductions, tx, clock>>
    PROVE  RepoInv' /\ RefsKept
<1>1. CASE grants[g].revoked
  <2>1. UNCHANGED <<grants, deductions, tx, zeroed, clock>> /\ clock \in Nat
    BY <1>1, Zenon DEF RevokeGrant, RepoInv, RepoTyped
  <2> QED  BY <2>1, ClockStep, KeptRefs, Zenon
<1>2. CASE ~grants[g].revoked
  <2>1. RowsFree({g}) /\ Zero({g}, TRUE)
    BY <1>2, Zenon DEF RevokeGrant
  <2>2. TRUE \in BOOLEAN /\ {g} \in SUBSET DOMAIN grants
    OBVIOUS
  <2> QED  BY <2>1, <2>2, ZeroKeeps, KeptRefs, Zenon
<1> QED
  BY <1>1, <1>2, Zenon

\* Grant deduplicates by source ref: it is granted afterwards, once.
LEMMA GrantKeeps ==
    ASSUME RepoInv, feed' = feed, NEW in, in.ref \in Known, in.amount \in Nat \ {0},
           in.days \in Nat, Grant(in), UNCHANGED <<deductions, tx, clock>>
    PROVE  RepoInv' /\ RefsKept /\ Granted(in.ref)'
<1>1. CASE \E g \in DOMAIN grants : grants[g].ref = in.ref
  <2>1. UNCHANGED <<grants, deductions, tx, zeroed, clock>> /\ clock \in Nat
    BY <1>1, Zenon DEF Grant, RepoInv, RepoTyped
  <2>2. RepoInv' /\ RefsKept
    BY <2>1, ClockStep, KeptRefs, Zenon
  <2> QED  BY <1>1, <2>1, <2>2, Zenon DEF Granted
<1>2. CASE ~ \E g \in DOMAIN grants : grants[g].ref = in.ref
  <2> DEFINE row == [ref |-> in.ref, initial |-> in.amount, remaining |-> in.amount,
                 expires |-> IF in.days = 0 THEN Never ELSE Min({clock + in.days, Never}),
                 revoked |-> FALSE]
             n == Len(grants) + 1
  <2>1. Insert(in)
    BY <1>2, Zenon DEF Grant
  <2>2. in.amount \in Nat
    OBVIOUS
  <2>3. RepoInv'
    BY <2>1, <2>2, InsertKeeps, Zenon
  <2>4. grants \in Seq(RowType) /\ clock \in Nat
    BY Zenon DEF RepoInv, RepoTyped
  <2>5. row \in RowType /\ row.ref = in.ref
    BY <2>2, <2>4, NewRow, Zenon
  <2>6. grants' = Append(grants, row)
    BY <2>1, Zenon DEF Insert
  <2> HIDE DEF row
  <2>7. /\ grants'[n] = row /\ DOMAIN grants' = DOMAIN grants \cup {n} /\ n \notin DOMAIN grants
        /\ \A g \in DOMAIN grants : grants'[g] = grants[g]
    BY <2>4, <2>5, <2>6, AppendFacts
  <2> HIDE DEF n
  <2>8. \A ref : Granted(ref) => Granted(ref)'
    BY <2>7, Zenon DEF Granted
  <2>9. RefsUnique => RefsUnique'
    <3>1. \A g \in DOMAIN grants : grants'[g].ref = grants[g].ref /\ grants'[g].ref # grants'[n].ref
      BY <1>2, <2>5, <2>7, Zenon
    <3>2. \A g \in DOMAIN grants' : g \in DOMAIN grants \/ g = n
      BY <2>7, Zenon
    <3> QED  BY <3>1, <3>2, Zenon DEF RefsUnique
  <2>10. Granted(in.ref)'
    BY <2>5, <2>7, Zenon DEF Granted
  <2> QED
    BY <2>3, <2>7, <2>8, <2>9, <2>10, Zenon DEF RefsKept
<1> QED
  BY <1>1, <1>2, Zenon

-----------------------------------------------------------------------------
(* The repository calls of a handler's loop. *)

Items(s) == {s[k] : k \in DOMAIN s}

\* The calls of two loops, one after the other.
LEMMA ConcatItems ==
    ASSUME NEW T, NEW s \in Seq(T), NEW t \in Seq(T)
    PROVE  s \o t \in Seq(T) /\ Items(s \o t) = Items(s) \cup Items(t)
<1>1. /\ s \o t \in Seq(T) /\ Len(s \o t) = Len(s) + Len(t)
      /\ Len(s) \in Nat /\ Len(t) \in Nat
      /\ DOMAIN s = 1 .. Len(s) /\ DOMAIN t = 1 .. Len(t) /\ DOMAIN (s \o t) = 1 .. Len(s) + Len(t)
      /\ \A k \in 1 .. Len(s) : (s \o t)[k] = s[k]
      /\ \A k \in 1 .. Len(t) : (s \o t)[Len(s) + k] = t[k]
  OBVIOUS
<1> DEFINE u == s \o t
<1> HIDE DEF u
<1>2. ASSUME NEW x \in Items(u) PROVE x \in Items(s) \cup Items(t)
  <2>1. PICK k \in DOMAIN u : x = u[k]
    BY Zenon DEF Items
  <2>2. CASE k <= Len(s)
    <3>1. k \in DOMAIN s /\ x = s[k]  BY <1>1, <2>1, <2>2 DEF u
    <3> QED  BY <3>1, Zenon DEF Items
  <2>3. CASE ~(k <= Len(s))
    <3> DEFINE j == k - Len(s)
    <3>1. j \in 1 .. Len(t) /\ k = Len(s) + j  BY <1>1, <2>1, <2>3 DEF u
    <3> HIDE DEF j
    <3>2. j \in DOMAIN t /\ x = t[j]  BY <1>1, <2>1, <3>1, Zenon DEF u
    <3> QED  BY <3>2, Zenon DEF Items
  <2> QED  BY <2>2, <2>3, Zenon
<1>3. ASSUME NEW k \in DOMAIN s PROVE s[k] \in Items(u)
  <2>1. k \in DOMAIN u /\ u[k] = s[k]  BY <1>1 DEF u
  <2> QED  BY <2>1, Zenon DEF Items
<1>4. ASSUME NEW k \in DOMAIN t PROVE t[k] \in Items(u)
  <2> DEFINE j == Len(s) + k
  <2>1. j \in DOMAIN u /\ u[j] = t[k]  BY <1>1 DEF u
  <2> HIDE DEF j
  <2> QED  BY <2>1, Zenon DEF Items
<1>5. Items(u) = Items(s) \cup Items(t)
  BY <1>2, <1>3, <1>4, Zenon DEF Items
<1> QED
  BY <1>1, <1>5, Zenon DEF u

\* f concatenates the first n sequences of ss, one after the other.
Concats(f, ss, n) == f = [i \in 0 .. n |-> IF i = 0 THEN <<>> ELSE f[i - 1] \o ss[i]]

\* The recursive function by which a handler's loop is unrolled exists.
LEMMA ConcatsExists ==
    ASSUME NEW ss, NEW n \in Nat
    PROVE  \E f : Concats(f, ss, n)
<1> DEFINE X == {m \in Nat : \E f : Concats(f, ss, m)}
<1>1. 0 \in X
  <2> DEFINE f == [i \in 0 .. 0 |-> <<>>]
  <2>1. Concats(f, ss, 0)
    BY DEF Concats
  <2> HIDE DEF f
  <2> QED  BY <2>1
<1>2. ASSUME NEW m \in Nat, m \in X PROVE m + 1 \in X
  <2>1. PICK f : Concats(f, ss, m)
    BY <1>2
  <2> DEFINE l == f[m] \o ss[m + 1]
             g == [i \in 0 .. m + 1 |-> IF i = m + 1 THEN l ELSE f[i]]
  <2>2. DOMAIN g = 0 .. m + 1 /\ g[m + 1] = l /\ \A i \in 0 .. m : g[i] = f[i]
    <3> HIDE DEF l
    <3> QED  OBVIOUS
  <2>3. \A i \in 0 .. m : f[i] = IF i = 0 THEN <<>> ELSE f[i - 1] \o ss[i]
    BY <2>1, Zenon DEF Concats
  <2>4. ASSUME NEW i \in 0 .. m + 1 PROVE g[i] = IF i = 0 THEN <<>> ELSE g[i - 1] \o ss[i]
    <3>1. CASE i = m + 1
      <4>1. i # 0 /\ i - 1 = m /\ m \in 0 .. m
        BY <3>1
      <4> HIDE DEF g
      <4> QED  BY <2>2, <3>1, <4>1, Zenon
    <3>2. CASE i # m + 1
      <4>1. i \in 0 .. m /\ (i # 0 => i - 1 \in 0 .. m)
        BY <3>2
      <4> HIDE DEF g, l
      <4> QED  BY <2>2, <2>3, <4>1, Zenon
    <3> QED  BY <3>1, <3>2, Zenon
  <2>5. g = [i \in DOMAIN g |-> g[i]]
    <3> HIDE DEF l
    <3> QED  OBVIOUS
  <2> HIDE DEF g
  <2>6. Concats(g, ss, m + 1)
    BY <2>2, <2>4, <2>5, Zenon DEF Concats
  <2> QED  BY <2>6
<1> HIDE DEF X
<1>3. n \in X
  BY <1>1, <1>2, NatSetInduction, Zenon
<1> QED
  BY <1>3, Zenon DEF X

\* A loop's calls are the calls of its items.
LEMMA ConcatFacts ==
    ASSUME NEW T, NEW ss \in Seq(Seq(T))
    PROVE  /\ Concat(ss) \in Seq(T)
           /\ \A x : x \in Items(Concat(ss)) <=> \E k \in DOMAIN ss : x \in Items(ss[k])
<1> DEFINE n == Len(ss)
<1>1. n \in Nat /\ DOMAIN ss = 1 .. n /\ \A k \in 1 .. n : ss[k] \in Seq(T)
  OBVIOUS
<1> DEFINE F == CHOOSE f : Concats(f, ss, n)
<1>2. Concats(F, ss, n)
  <2> HIDE DEF n
  <2> QED  BY <1>1, ConcatsExists, Zenon
<1>3. Concat(ss) = F[n]
  BY Zenon DEF Concat, Concats
<1> HIDE DEF F
<1>4. \A i \in 0 .. n : F[i] = IF i = 0 THEN <<>> ELSE F[i - 1] \o ss[i]
  BY <1>2, Zenon DEF Concats
<1> HIDE DEF n
<1> DEFINE Y == {m \in Nat : m \in 0 .. n =>
                  /\ F[m] \in Seq(T)
                  /\ \A x : x \in Items(F[m]) <=> \E k \in 1 .. m : x \in Items(ss[k])}
<1>5. 0 \in Y
  <2>1. 0 \in 0 .. n /\ <<>> \in Seq(T) /\ DOMAIN <<>> = {} /\ 1 .. 0 = {}
    BY <1>1
  <2>2. F[0] = <<>>
    BY <1>4, <2>1, Zenon
  <2>3. \A x : x \in Items(F[0]) <=> \E k \in 1 .. 0 : x \in Items(ss[k])
    BY <2>1, <2>2, Zenon DEF Items
  <2> QED  BY <2>1, <2>2, <2>3
<1>6. ASSUME NEW m \in Nat, m \in Y PROVE m + 1 \in Y
  <2> SUFFICES ASSUME m + 1 \in 0 .. n
               PROVE  /\ F[m + 1] \in Seq(T)
                      /\ \A x : x \in Items(F[m + 1]) <=>
                                  \E k \in 1 .. m + 1 : x \in Items(ss[k])
    OBVIOUS
  <2>1. ss[m + 1] \in Seq(T) /\ m \in 0 .. n
    BY <1>1
  <2>2. F[m + 1] = F[m] \o ss[m + 1]
    <3>1. m + 1 # 0 /\ (m + 1) - 1 = m
      OBVIOUS
    <3> QED  BY <1>4, <3>1, Zenon
  <2>3. F[m] \in Seq(T) /\ \A x : x \in Items(F[m]) <=> \E k \in 1 .. m : x \in Items(ss[k])
    BY <1>6, <2>1, Zenon
  <2>4. F[m + 1] \in Seq(T) /\ Items(F[m + 1]) = Items(F[m]) \cup Items(ss[m + 1])
    <3>1. /\ F[m] \o ss[m + 1] \in Seq(T)
          /\ Items(F[m] \o ss[m + 1]) = Items(F[m]) \cup Items(ss[m + 1])
      BY <2>1, <2>3, ConcatItems
    <3> QED  BY <2>2, <3>1, Zenon
  <2>5. 1 .. m + 1 = (1 .. m) \cup {m + 1}
    OBVIOUS
  <2> HIDE DEF Y
  <2> QED  BY <2>3, <2>4, <2>5, Zenon
<1>7. n \in Y
  <2> HIDE DEF Y
  <2> QED  BY <1>1, <1>5, <1>6, NatSetInduction, Zenon
<1>8. n \in 0 .. n
  BY <1>1
<1> QED
  BY <1>1, <1>3, <1>7, <1>8, Zenon

\* A list is one of its own elements.
LEMMA ItemsSeq ==
    ASSUME NEW T, NEW s \in Seq(T)
    PROVE  s \in Seq(Items(s)) /\ Items(s) \subseteq T
<1>1. s \in [1 .. Len(s) -> T] /\ Len(s) \in Nat /\ DOMAIN s = 1 .. Len(s)
  OBVIOUS
<1>2. \A k \in DOMAIN s : s[k] \in Items(s) /\ s[k] \in T
  BY <1>1, Zenon DEF Items
<1>3. s \in Seq(Items(s))
  BY <1>1, <1>2
<1>4. Items(s) \subseteq T
  BY <1>2, Zenon DEF Items
<1> QED
  BY <1>3, <1>4, Zenon

\* The head of a loop's calls, and the rest.
LEMMA TailItems ==
    ASSUME NEW s, s \in Seq(Items(s)), s # <<>>
    PROVE  /\ Head(s) \in Items(s)
           /\ Tail(s) \in Seq(Items(Tail(s)))
           /\ Items(Tail(s)) \subseteq Items(s)
           /\ \A x \in Items(s) : x = Head(s) \/ x \in Items(Tail(s))
<1> DEFINE T == Items(s)
           t == Tail(s)
<1> HIDE DEF T
<1>1. s \in Seq(T)
  BY Zenon DEF T
<1>2. /\ Len(s) \in Nat \ {0} /\ DOMAIN s = 1 .. Len(s) /\ Head(s) = s[1] /\ t \in Seq(T)
      /\ DOMAIN t = 1 .. Len(s) - 1 /\ \A k \in 1 .. Len(s) - 1 : t[k] = s[k + 1]
  BY <1>1
<1>3. Head(s) \in Items(s)
  <2>1. 1 \in DOMAIN s  BY <1>2
  <2> QED  BY <1>2, <2>1, Zenon DEF Items
<1>4. t \in Seq(Items(t)) /\ Items(t) \subseteq T
  <2> HIDE DEF t
  <2> QED  BY <1>2, ItemsSeq, Zenon
<1>5. ASSUME NEW x \in Items(s) PROVE x = Head(s) \/ x \in Items(t)
  <2>1. PICK k \in DOMAIN s : x = s[k]
    BY Zenon DEF Items
  <2>2. CASE k = 1
    BY <1>2, <2>1, <2>2, Zenon
  <2>3. CASE k # 1
    <3> DEFINE j == k - 1
    <3>1. j \in 1 .. Len(s) - 1 /\ j + 1 = k
      BY <1>2, <2>3
    <3> HIDE DEF j, t
    <3>2. j \in DOMAIN t /\ t[j] = x
      BY <1>2, <2>1, <3>1, Zenon
    <3> QED  BY <3>2, Zenon DEF Items
  <2> QED  BY <2>2, <2>3, Zenon
<1> QED
  BY <1>3, <1>4, <1>5, Zenon DEF T

\* The refs that grant calls among s still have to grant.
PendingRefs(s) == {s[k].ref : k \in {j \in DOMAIN s : s[j].op = "grant"}}

\* The refs a handler still has to grant.
LEMMA PendingItems ==
    ASSUME NEW s, NEW ref
    PROVE  ref \in PendingRefs(s) <=> \E x \in Items(s) : x.op = "grant" /\ x.ref = ref
<1>1. ASSUME ref \in PendingRefs(s) PROVE \E x \in Items(s) : x.op = "grant" /\ x.ref = ref
  <2>1. PICK k \in DOMAIN s : s[k].op = "grant" /\ ref = s[k].ref
    BY <1>1, Zenon DEF PendingRefs
  <2>2. s[k] \in Items(s)
    BY Zenon DEF Items
  <2> QED  BY <2>1, <2>2, Zenon
<1>2. ASSUME NEW x \in Items(s), x.op = "grant", x.ref = ref PROVE ref \in PendingRefs(s)
  <2>1. PICK k \in DOMAIN s : x = s[k]
    BY Zenon DEF Items
  <2> QED  BY <1>2, <2>1, Zenon DEF PendingRefs
<1> QED
  BY <1>1, <1>2, Zenon

-----------------------------------------------------------------------------
(* What the three handlers ask of the ledger. *)

UnitCall(e, i, u) ==
    [op |-> "grant", ref |-> UnitRef(e, i, u - 1),
     amount |-> e.pending[i].amount, days |-> e.pending[i].days]

LineCall(e, l) ==
    [op |-> "grant", ref |-> [src |-> e.invoice, n |-> <<l.product>>],
     amount |-> l.amount, days |-> l.days]

\* Every pending grant of a session asks for at least one unit.
LEMMA SessionFields ==
    ASSUME NEW e \in Session, NEW i \in DOMAIN e.pending
    PROVE  /\ e.pending[i].amount \in Nat \ {0} /\ e.pending[i].days \in Nat
           /\ \E m \in Nat \ {0} : UnitsOf(e, i) = 1 .. m
<1>1. e.pending \in Seq(PendingGrant)
  BY Zenon DEF Session
<1>2. e.pending[i] \in PendingGrant
  BY <1>1
<1>3. /\ e.pending[i].amount \in Nat \ {0} /\ e.pending[i].days \in Nat
      /\ e.pending[i].quantity \in Int
  BY <1>2, Zenon DEF PendingGrant
<1> DEFINE q == e.pending[i].quantity
           m == Max({1, q})
<1>4. UnitsOf(e, i) = 1 .. m
  BY Zenon DEF UnitsOf
<1> HIDE DEF q
<1>5. m = IF 1 >= q THEN 1 ELSE q
  <2>1. q \in Int /\ 1 \in Int  BY <1>3 DEF q
  <2> QED  BY <2>1, MaxMin, Zenon
<1>6. m \in Nat \ {0}
  BY <1>3, <1>5 DEF q
<1> HIDE DEF m
<1> QED
  BY <1>3, <1>4, <1>6, Zenon

\* ApplyGrantsFromSession asks for one grant per unit.
LEMMA SessionFacts ==
    ASSUME NEW e \in Session
    PROVE  /\ SessionCalls(e) \in Seq(Items(SessionCalls(e)))
           /\ \A x : x \in Items(SessionCalls(e)) <=>
                \E i \in DOMAIN e.pending : \E u \in UnitsOf(e, i) : x = UnitCall(e, i, u)
<1> DEFINE calls(i) == [u \in UnitsOf(e, i) |-> UnitCall(e, i, u)]
           ss == [i \in DOMAIN e.pending |-> calls(i)]
           T == UNION {{UnitCall(e, i, u) : u \in UnitsOf(e, i)} : i \in DOMAIN e.pending}
<1>1. SessionCalls(e) = Concat(ss)
  BY Zenon DEF SessionCalls, UnitCall
<1>2. ASSUME NEW i \in DOMAIN e.pending
      PROVE  /\ calls(i) \in Seq(T)
             /\ \A x : x \in Items(calls(i)) <=> \E u \in UnitsOf(e, i) : x = UnitCall(e, i, u)
  <2>1. PICK m \in Nat \ {0} : UnitsOf(e, i) = 1 .. m
    BY SessionFields, Zenon
  <2>2. \A u \in UnitsOf(e, i) : UnitCall(e, i, u) \in T
    <3> DEFINE S(j) == {UnitCall(e, j, u) : u \in UnitsOf(e, j)}
    <3>1. \A u \in UnitsOf(e, i) : UnitCall(e, i, u) \in S(i)
      BY Zenon
    <3>2. T = UNION {S(j) : j \in DOMAIN e.pending}
      BY Zenon
    <3> HIDE DEF S, T
    <3> QED  BY <3>1, <3>2, Zenon
  <2> DEFINE f == calls(i)
  <2>3. /\ DOMAIN f = UnitsOf(e, i) /\ f = [u \in DOMAIN f |-> f[u]]
        /\ \A u \in UnitsOf(e, i) : f[u] = UnitCall(e, i, u)
    BY Zenon
  <2> HIDE DEF T, f
  <2>4. f \in [1 .. m -> T]
    BY <2>1, <2>2, <2>3, Zenon
  <2>5. f \in Seq(T)
    BY <2>4
  <2>6. \A x : x \in Items(f) <=> \E u \in UnitsOf(e, i) : x = UnitCall(e, i, u)
    BY <2>3, Zenon DEF Items
  <2> QED  BY <2>5, <2>6, Zenon DEF f
<1>3. DOMAIN ss = DOMAIN e.pending /\ ss = [i \in DOMAIN ss |-> ss[i]]
      /\ \A i \in DOMAIN e.pending : ss[i] = calls(i)
  BY Zenon
<1> HIDE DEF T, calls, ss
<1>4. ss \in Seq(Seq(T))
  <2>1. e.pending \in Seq(PendingGrant)
    BY Zenon DEF Session
  <2>2. \A i \in DOMAIN e.pending : ss[i] \in Seq(T)
    BY <1>2, <1>3, Zenon
  <2> QED  BY <1>3, <2>1, <2>2, MapSeq
<1>5. /\ Concat(ss) \in Seq(T)
      /\ \A x : x \in Items(Concat(ss)) <=> \E k \in DOMAIN ss : x \in Items(ss[k])
  BY <1>4, ConcatFacts, Zenon
<1>6. \A x : (\E k \in DOMAIN ss : x \in Items(ss[k])) <=>
                \E i \in DOMAIN e.pending : \E u \in UnitsOf(e, i) : x = UnitCall(e, i, u)
  <2>1. \A i \in DOMAIN e.pending : \A x :
            x \in Items(ss[i]) <=> \E u \in UnitsOf(e, i) : x = UnitCall(e, i, u)
    BY <1>2, <1>3, Zenon
  <2> QED  BY <1>3, <2>1, Zenon
<1>7. Concat(ss) \in Seq(Items(Concat(ss)))
  BY <1>5, ItemsSeq, Zenon
<1> QED
  BY <1>1, <1>5, <1>6, <1>7, Zenon

\* The calls of a loop body that makes one call or none.
LEMMA SingletonItems ==
    ASSUME NEW x, NEW T, x \in T
    PROVE  <<>> \in Seq(T) /\ <<x>> \in Seq(T) /\ Items(<<>>) = {} /\ Items(<<x>>) = {x}
<1>1. <<>> \in Seq(T) /\ <<x>> \in Seq(T) /\ DOMAIN <<>> = {} /\ DOMAIN <<x>> = {1} /\ <<x>>[1] = x
  OBVIOUS
<1> QED
  BY <1>1, Zenon DEF Items

\* ApplyRecurringGrantsFromInvoice asks for one grant per granting line.
LEMMA InvoiceFacts ==
    ASSUME NEW e \in Invoice
    PROVE  /\ InvoiceCalls(e) \in Seq(Items(InvoiceCalls(e)))
           /\ \A x \in Items(InvoiceCalls(e)) :
                \E k \in DOMAIN e.lines :
                    /\ x = LineCall(e, e.lines[k])
                    /\ e.lines[k].amount \in Nat \ {0} /\ e.lines[k].days \in Nat
<1> DEFINE call(k) == LineCall(e, e.lines[k])
           granted(k) == IF e.lines[k].amount = 0 THEN <<>> ELSE <<call(k)>>
           ss == [k \in DOMAIN e.lines |-> granted(k)]
           T == {call(k) : k \in DOMAIN e.lines}
<1>1. InvoiceCalls(e) = Concat(ss)
  BY Zenon DEF InvoiceCalls, LineCall
<1>2. e.lines \in Seq(InvoiceLine)
  BY Zenon DEF Invoice
<1>3. \A k \in DOMAIN e.lines : e.lines[k].amount \in Nat /\ e.lines[k].days \in Nat
  <2>1. \A k \in DOMAIN e.lines : e.lines[k] \in InvoiceLine
    BY <1>2
  <2> QED  BY <2>1, Zenon DEF InvoiceLine
<1>4. ASSUME NEW k \in DOMAIN e.lines
      PROVE  /\ granted(k) \in Seq(T)
             /\ \A x \in Items(granted(k)) : x = call(k) /\ e.lines[k].amount # 0
  <2>1. call(k) \in T
    BY Zenon
  <2> HIDE DEF T, call
  <2>2. <<>> \in Seq(T) /\ <<call(k)>> \in Seq(T) /\ Items(<<>>) = {} /\ Items(<<call(k)>>) = {call(k)}
    BY <2>1, SingletonItems, Zenon
  <2> QED  BY <2>2, Zenon
<1>5. DOMAIN ss = DOMAIN e.lines /\ ss = [k \in DOMAIN ss |-> ss[k]]
      /\ \A k \in DOMAIN e.lines : ss[k] = granted(k)
  BY Zenon
<1> HIDE DEF T, granted, ss
<1>6. ss \in Seq(Seq(T))
  <2>1. \A k \in DOMAIN e.lines : ss[k] \in Seq(T)
    BY <1>4, <1>5, Zenon
  <2> QED  BY <1>2, <1>5, <2>1, MapSeq
<1>7. /\ Concat(ss) \in Seq(T)
      /\ \A x : x \in Items(Concat(ss)) <=> \E k \in DOMAIN ss : x \in Items(ss[k])
  BY <1>6, ConcatFacts, Zenon
<1>8. Concat(ss) \in Seq(Items(Concat(ss)))
  BY <1>7, ItemsSeq, Zenon
<1>9. ASSUME NEW x \in Items(Concat(ss))
      PROVE  \E k \in DOMAIN e.lines :
                    /\ x = call(k)
                    /\ e.lines[k].amount \in Nat \ {0} /\ e.lines[k].days \in Nat
  <2>1. PICK k \in DOMAIN e.lines : x \in Items(ss[k])
    BY <1>5, <1>7, Zenon
  <2>2. x = call(k) /\ e.lines[k].amount # 0
    BY <1>4, <1>5, <2>1, Zenon
  <2>3. e.lines[k].amount \in Nat \ {0} /\ e.lines[k].days \in Nat
    BY <1>3, <2>2
  <2> QED  BY <2>2, <2>3, Zenon
<1> QED
  BY <1>1, <1>8, <1>9, Zenon

\* ApplyRefundReversal only looks grants up.
LEMMA CandidateFacts ==
    ASSUME NEW e
    PROVE  /\ Candidates(e) \in Seq(Items(Candidates(e)))
           /\ \A x \in Items(Candidates(e)) : x.op = "find"
<1> DEFINE call(id) == [op |-> "find", ref |-> [src |-> id, n |-> <<>>]]
           c(id) == IF id = "" THEN <<>> ELSE <<call(id)>>
           ss == <<c(e.pi), c(e.charge), c(e.refund)>>
           T == {call(id) : id \in {e.pi, e.charge, e.refund}}
<1>1. Candidates(e) = Concat(ss)
  BY Zenon DEF Candidates
<1>2. \A x \in T : x.op = "find"
  <2>1. \A id : call(id).op = "find"
    BY Zenon
  <2> HIDE DEF call
  <2> QED  BY <2>1, Zenon
<1>3. c(e.pi) \in Seq(T) /\ c(e.charge) \in Seq(T) /\ c(e.refund) \in Seq(T)
  <2>1. call(e.pi) \in T /\ call(e.charge) \in T /\ call(e.refund) \in T
    BY Zenon
  <2> HIDE DEF T, call
  <2>2. <<>> \in Seq(T)
    OBVIOUS
  <2>3. <<call(e.pi)>> \in Seq(T) /\ <<call(e.charge)>> \in Seq(T) /\ <<call(e.refund)>> \in Seq(T)
    BY <2>1, SingletonItems, Zenon
  <2> QED  BY <2>2, <2>3, Zenon
<1> HIDE DEF c, T, call
<1>4. ss \in Seq(Seq(T))
  BY <1>3
<1> HIDE DEF ss
<1>5. Concat(ss) \in Seq(T)
  BY <1>4, ConcatFacts, Zenon
<1>6. Concat(ss) \in Seq(Items(Concat(ss))) /\ Items(Concat(ss)) \subseteq T
  BY <1>5, ItemsSeq, Zenon
<1> QED
  BY <1>1, <1>2, <1>6, Zenon

\* What the handler of an event of the feed asks for.
AsksFor(e) ==
    /\ Calls(e) \in Seq(Items(Calls(e)))
    /\ \A x \in Items(Calls(e)) :
         \/ x.op = "find"
         \/ x.op = "grant" /\ x.amount \in Nat \ {0} /\ x.days \in Nat /\ x.ref \in GrantRefs(e)
    /\ e \in Session => \A ref : ref \in GrantRefs(e) <=>
         \E i \in DOMAIN e.pending : \E u \in UnitsOf(e, i) : ref = UnitRef(e, i, u - 1)
    /\ e \in Invoice => \A ref \in GrantRefs(e) : ref.src = e.invoice
    /\ e \in Reversal => GrantRefs(e) = {}

\* The calls of every handler are grants of the event's refs, of a positive amount, and looks
\* for grants to revoke.
LEMMA CallsFacts ==
    ASSUME NEW e \in Session \cup Invoice \cup Reversal
    PROVE  AsksFor(e)
<1>1. \A ref : ref \in GrantRefs(e) <=> \E x \in Items(Calls(e)) : x.op = "grant" /\ x.ref = ref
  <2>1. GrantRefs(e) = PendingRefs(Calls(e))
    BY Zenon DEF GrantRefs, PendingRefs
  <2> QED  BY <2>1, PendingItems, Zenon
<1>2. CASE e \in Session
  <2>1. e.kind = "session" /\ e \notin Invoice /\ e \notin Reversal
    BY <1>2 DEF Session, Invoice, Reversal
  <2>2. Calls(e) = SessionCalls(e)
    BY <2>1, Zenon DEF Calls
  <2>3. /\ Calls(e) \in Seq(Items(Calls(e)))
        /\ \A x : x \in Items(Calls(e)) <=>
                \E i \in DOMAIN e.pending : \E u \in UnitsOf(e, i) : x = UnitCall(e, i, u)
    BY <1>2, <2>2, SessionFacts, Zenon
  <2>4. \A i, u : /\ UnitCall(e, i, u).op = "grant" /\ UnitCall(e, i, u).ref = UnitRef(e, i, u - 1)
                  /\ UnitCall(e, i, u).amount = e.pending[i].amount
                  /\ UnitCall(e, i, u).days = e.pending[i].days
    BY Zenon DEF UnitCall
  <2>5. \A ref : ref \in GrantRefs(e) <=>
            \E i \in DOMAIN e.pending : \E u \in UnitsOf(e, i) : ref = UnitRef(e, i, u - 1)
    <3>1. ASSUME NEW ref, ref \in GrantRefs(e)
          PROVE  \E i \in DOMAIN e.pending : \E u \in UnitsOf(e, i) : ref = UnitRef(e, i, u - 1)
      <4>1. PICK x \in Items(Calls(e)) : x.ref = ref
        BY <1>1, <3>1, Zenon
      <4>2. PICK i \in DOMAIN e.pending : \E u \in UnitsOf(e, i) : x = UnitCall(e, i, u)
        BY <2>3, Zenon
      <4> QED  BY <2>4, <4>1, <4>2, Zenon
    <3>2. ASSUME NEW i \in DOMAIN e.pending, NEW u \in UnitsOf(e, i)
          PROVE  UnitRef(e, i, u - 1) \in GrantRefs(e)
      <4> DEFINE x == UnitCall(e, i, u)
      <4>1. x \in Items(Calls(e)) /\ x.op = "grant" /\ x.ref = UnitRef(e, i, u - 1)
        BY <2>3, <2>4, Zenon
      <4> HIDE DEF x
      <4> QED  BY <1>1, <4>1, Zenon
    <3> QED  BY <3>1, <3>2, Zenon
  <2>6. ASSUME NEW x \in Items(Calls(e))
        PROVE  x.op = "grant" /\ x.amount \in Nat \ {0} /\ x.days \in Nat /\ x.ref \in GrantRefs(e)
    <3>1. PICK i \in DOMAIN e.pending : \E u \in UnitsOf(e, i) : x = UnitCall(e, i, u)
      BY <2>3, Zenon
    <3>2. PICK u \in UnitsOf(e, i) : x = UnitCall(e, i, u)
      BY <3>1, Zenon
    <3>3. x.amount \in Nat \ {0} /\ x.days \in Nat
      BY <1>2, <2>4, <3>2, SessionFields, Zenon
    <3>4. x.op = "grant"
      BY <2>4, <3>2, Zenon
    <3>5. x.ref \in GrantRefs(e)
      BY <1>1, <3>4, Zenon
    <3> QED  BY <3>3, <3>4, <3>5, Zenon
  <2> QED  BY <2>1, <2>3, <2>5, <2>6, Zenon DEF AsksFor
<1>3. CASE e \in Invoice
  <2>1. e.kind = "invoice" /\ e \notin Session /\ e \notin Reversal
    BY <1>3 DEF Session, Invoice, Reversal
  <2>2. Calls(e) = InvoiceCalls(e)
    <3>1. "invoice" # "session" OBVIOUS
    <3> QED  BY <2>1, <3>1, Zenon DEF Calls
  <2>3. /\ Calls(e) \in Seq(Items(Calls(e)))
        /\ \A x \in Items(Calls(e)) : \E k \in DOMAIN e.lines :
                    /\ x = LineCall(e, e.lines[k])
                    /\ e.lines[k].amount \in Nat \ {0} /\ e.lines[k].days \in Nat
    BY <1>3, <2>2, InvoiceFacts, Zenon
  <2>4. \A l : /\ LineCall(e, l).op = "grant" /\ LineCall(e, l).ref.src = e.invoice
               /\ LineCall(e, l).amount = l.amount /\ LineCall(e, l).days = l.days
    BY Zenon DEF LineCall
  <2>5. ASSUME NEW x \in Items(Calls(e))
        PROVE  /\ x.op = "grant" /\ x.amount \in Nat \ {0} /\ x.days \in Nat
               /\ x.ref \in GrantRefs(e) /\ x.ref.src = e.invoice
    <3>1. PICK k \in DOMAIN e.lines :
                    /\ x = LineCall(e, e.lines[k])
                    /\ e.lines[k].amount \in Nat \ {0} /\ e.lines[k].days \in Nat
      BY <2>3, Zenon
    <3> QED  BY <1>1, <2>4, <3>1, Zenon
  <2>6. \A ref \in GrantRefs(e) : ref.src = e.invoice
    <3> SUFFICES ASSUME NEW ref \in GrantRefs(e) PROVE ref.src = e.invoice
      OBVIOUS
    <3>1. PICK x \in Items(Calls(e)) : x.ref = ref
      BY <1>1, Zenon
    <3> QED  BY <2>5, <3>1, Zenon
  <2> QED  BY <2>1, <2>3, <2>5, <2>6, Zenon DEF AsksFor
<1>4. CASE e \in Reversal
  <2>1. e.kind = "refund" /\ e \notin Session /\ e \notin Invoice
    BY <1>4 DEF Session, Invoice, Reversal
  <2>2. Calls(e) = Candidates(e)
    <3>1. "refund" # "session" /\ "refund" # "invoice" OBVIOUS
    <3> QED  BY <2>1, <3>1, Zenon DEF Calls
  <2>3. Calls(e) \in Seq(Items(Calls(e))) /\ \A x \in Items(Calls(e)) : x.op = "find"
    BY <2>2, CandidateFacts, Zenon
  <2>4. GrantRefs(e) = {}
    BY <1>1, <2>3
  <2> QED  BY <2>1, <2>3, <2>4, Zenon DEF AsksFor
<1> QED
  BY <1>2, <1>3, <1>4, Zenon

-----------------------------------------------------------------------------
(* The inductive invariant of the handlers over the ledger. *)

CallOK(x) ==
    \/ x.op = "find"
    \/ x.op = "grant" /\ x.amount \in Nat \ {0} /\ x.days \in Nat /\ x.ref \in Known
    \/ x.op = "revoke" /\ x.id \in DOMAIN grants

\* A running handler has granted or still has to grant each ref of its event.
RunOK(r) ==
    /\ r = [event |-> r.event, todo |-> r.todo]
    /\ r.todo \in Seq(Items(r.todo))
    /\ \A x \in Items(r.todo) : CallOK(x)
    /\ r # NoRun => \A e \in feed.events : e.id = r.event =>
            \A ref \in GrantRefs(e) : Granted(ref) \/ ref \in PendingRefs(r.todo)

AllGranted == \A e \in feed.events : e.id \in done => \A ref \in GrantRefs(e) : Granted(ref)

FlowInv ==
    /\ RepoInv
    /\ RefsUnique
    /\ feed \in Feeds
    /\ run = [w \in Workers |-> run[w]]
    /\ \A w \in Workers : RunOK(run[w])
    /\ AllGranted

\* An idle worker has nothing left to do.
LEMMA NoRunOK == RunOK(NoRun)
<1>1. <<>> \in Seq(Items(<<>>)) /\ DOMAIN <<>> = {}
  OBVIOUS
<1>2. NoRun.todo = <<>> /\ NoRun = [event |-> NoRun.event, todo |-> NoRun.todo]
  BY Zenon DEF NoRun
<1> HIDE DEF NoRun
<1>3. Items(<<>>) = {}
  BY <1>1, Zenon DEF Items
<1> QED
  BY <1>1, <1>2, <1>3, Zenon DEF RunOK

\* A handler under way is not disturbed by a step that loses no grant.
LEMMA RunKept ==
    ASSUME NEW r, RunOK(r), RefsKept, feed' = feed
    PROVE  RunOK(r)'
<1>1. Known' = Known
  BY SameTypes, Zenon
<1>2. \A x : CallOK(x) => CallOK(x)'
  BY <1>1, Zenon DEF CallOK, RefsKept
<1> QED
  BY <1>2, Zenon DEF RunOK, RefsKept

\* A step of one worker, or of none.
LEMMA WorkerStep ==
    ASSUME FlowInv, feed' = feed, done' = done, RepoInv', RefsKept,
           NEW w \in Workers, NEW r, RunOK(r)', run' = [run EXCEPT ![w] = r]
    PROVE  FlowInv'
<1>1. run = [v \in Workers |-> run[v]]
  BY Zenon DEF FlowInv
<1>2. run'[w] = r /\ \A v \in Workers : v # w => run'[v] = run[v]
  BY <1>1, Zenon
<1>3. run' = [v \in Workers |-> run'[v]]
  <2>1. DOMAIN run' = Workers /\ run' = [v \in DOMAIN run' |-> run'[v]]
    BY <1>1, Zenon
  <2> QED  BY <2>1, Zenon
<1>4. ASSUME NEW v \in Workers PROVE RunOK(run[v])'
  <2>1. CASE v = w
    <3>1. run'[v] = r  BY <1>2, <2>1, Zenon
    <3> QED  BY <3>1, Zenon DEF RunOK
  <2>2. CASE v # w
    <3>1. run'[v] = run[v] /\ RunOK(run[v])  BY <1>2, <2>2, Zenon DEF FlowInv
    <3>2. PICK p : p = run[v]  BY Zenon
    <3>3. RunOK(p)  BY <3>1, <3>2, Zenon
    <3>4. RunOK(p)'  BY <3>3, RunKept, Zenon
    <3>5. run'[v] = p  BY <3>1, <3>2, Zenon
    <3> QED  BY <3>4, <3>5, Zenon DEF RunOK
  <2> QED  BY <2>1, <2>2, Zenon
<1>5. AllGranted' /\ RefsUnique'
  BY Zenon DEF FlowInv, AllGranted, RefsKept
<1> QED
  BY <1>3, <1>4, <1>5, Zenon DEF FlowInv

\* The invariant holds on after a step of the ledger that no handler takes.
LEMMA QuietStep ==
    ASSUME FlowInv, feed' = feed, done' = done, run' = run, RepoInv', RefsKept
    PROVE  FlowInv'
<1>4. ASSUME NEW v \in Workers PROVE RunOK(run[v])'
  <2>1. run'[v] = run[v] /\ RunOK(run[v])  BY Zenon DEF FlowInv
  <2>2. PICK p : p = run[v]  BY Zenon
  <2>3. RunOK(p)  BY <2>1, <2>2, Zenon
  <2>4. RunOK(p)'  BY <2>3, RunKept, Zenon
  <2>5. run'[v] = p  BY <2>1, <2>2, Zenon
  <2> QED  BY <2>4, <2>5, Zenon DEF RunOK
<1>5. AllGranted' /\ RefsUnique'
  BY Zenon DEF FlowInv, AllGranted, RefsKept
<1> QED
  BY <1>4, <1>5, Zenon DEF FlowInv

\* The repository untouched.
LEMMA RepoSame ==
    ASSUME RepoInv, feed' = feed, UNCHANGED <<grants, deductions, tx, zeroed, clock>>
    PROVE  RepoInv' /\ RefsKept
<1>1. clock \in Nat
  BY Zenon DEF RepoInv, RepoTyped
<1> QED
  BY <1>1, ClockStep, KeptRefs, Zenon

\* What the assumption on the feeds says of the one that happens.
LEMMA FeedFacts ==
    ASSUME feed \in Feeds
    PROVE  /\ \A e \in feed.events :
                AsksFor(e) /\ e \in Session \cup Invoice \cup Reversal /\ GrantRefs(e) \subseteq Known
           /\ \A in \in feed.app : in.amount \in Nat \ {0} /\ in.days \in Nat /\ in.ref \in Known
           /\ \A d, e \in feed.events : d.id = e.id => d = e
<1>1. /\ feed.events \subseteq Session \cup Invoice \cup Reversal
      /\ \A in \in feed.app : in.amount \in Nat \ {0} /\ in.days \in Nat
      /\ \A d, e \in feed.events : d.id = e.id => d = e
  BY FeedAssumption, Zenon
<1>2. \A e \in feed.events : AsksFor(e)
  BY <1>1, CallsFacts, Zenon
<1>3. \A e \in feed.events : GrantRefs(e) \subseteq Known
  BY Zenon DEF Known
<1>4. \A in \in feed.app : in.ref \in Known
  BY Zenon DEF Known
<1> QED
  BY <1>1, <1>2, <1>3, <1>4, Zenon

\* A delivery starts the event's handler from its first call.
LEMMA DeliverKeeps ==
    ASSUME FlowInv, NEW w \in Workers, NEW e \in feed.events, Deliver(w, e)
    PROVE  FlowInv'
<1> DEFINE r == [event |-> e.id, todo |-> Calls(e)]
<1>1. /\ run' = [run EXCEPT ![w] = r] /\ feed' = feed /\ done' = done
      /\ UNCHANGED <<grants, deductions, tx, zeroed, clock>>
  BY Zenon DEF Deliver, repoVars
<1>2. RepoInv /\ feed \in Feeds
  BY Zenon DEF FlowInv
<1>3. RepoInv' /\ RefsKept
  BY <1>1, <1>2, RepoSame, Zenon
<1>4. AsksFor(e) /\ GrantRefs(e) \subseteq Known /\ \A d \in feed.events : d.id = e.id => d = e
  BY <1>2, FeedFacts, Zenon
<1>5. r.event = e.id /\ r.todo = Calls(e) /\ r = [event |-> r.event, todo |-> r.todo]
  BY Zenon
<1>6. GrantRefs(e) = PendingRefs(Calls(e))
  BY Zenon DEF GrantRefs, PendingRefs
<1> HIDE DEF r
<1>7. RunOK(r)
  <2>1. r.todo \in Seq(Items(r.todo)) /\ \A x \in Items(r.todo) : CallOK(x)
    BY <1>4, <1>5, Zenon DEF AsksFor, CallOK
  <2>2. \A d \in feed.events : d.id = r.event =>
            \A ref \in GrantRefs(d) : ref \in PendingRefs(r.todo)
    BY <1>4, <1>5, <1>6, Zenon
  <2> QED  BY <1>5, <2>1, <2>2, Zenon DEF RunOK
<1>8. RunOK(r)'
  BY <1>1, <1>3, <1>7, RunKept, Zenon
<1> QED
  BY <1>1, <1>3, <1>8, WorkerStep, Zenon

\* The rest of a loop after its first call.
LEMMA RestOK ==
    ASSUME NEW r, RunOK(r), r.todo # <<>>, NEW q, q = [r EXCEPT !.todo = Tail(@)], feed' = feed,
           RefsKept, Head(r.todo).op = "grant" => Granted(Head(r.todo).ref)'
    PROVE  RunOK(q)'
<1> DEFINE s == r.todo
           t == Tail(r.todo)
<1>1. RunOK(r)'
  BY RunKept, Zenon
<1>2. /\ r = [event |-> r.event, todo |-> s] /\ s \in Seq(Items(s))
      /\ \A x \in Items(s) : CallOK(x)'
      /\ r # NoRun => \A e \in feed'.events : e.id = r.event =>
            \A ref \in GrantRefs(e) : Granted(ref)' \/ ref \in PendingRefs(s)
  BY <1>1, Zenon DEF RunOK
<1>3. q.event = r.event /\ q.todo = t /\ q = [event |-> q.event, todo |-> q.todo]
  BY <1>2
<1>4. /\ t \in Seq(Items(t)) /\ Items(t) \subseteq Items(s)
      /\ \A x \in Items(s) : x = Head(s) \/ x \in Items(t)
  BY <1>2, TailItems, Zenon
<1>5. r # NoRun
  <2>1. NoRun.todo = <<>>
    BY Zenon DEF NoRun
  <2> QED  BY <2>1, Zenon
<1>6. ASSUME NEW ref \in PendingRefs(s), ~Granted(ref)' PROVE ref \in PendingRefs(t)
  <2>1. PICK x \in Items(s) : x.op = "grant" /\ x.ref = ref
    BY PendingItems, Zenon
  <2>2. x \in Items(t)
    BY <1>4, <1>6, <2>1, Zenon
  <2> QED  BY <2>1, <2>2, PendingItems, Zenon
<1> HIDE DEF t, s
<1>7. \A e \in feed'.events : e.id = q.event =>
            \A ref \in GrantRefs(e) : Granted(ref)' \/ ref \in PendingRefs(t)
  BY <1>2, <1>3, <1>5, <1>6, Zenon
<1> QED
  BY <1>2, <1>3, <1>4, <1>7, Zenon DEF RunOK

\* A handler's Grant, inserted or found by its ref, leaves the ref granted.
LEMMA GrantCallKeeps ==
    ASSUME FlowInv, NEW w \in Workers, GrantCall(w)
    PROVE  FlowInv'
<1>0. PICK x : x = Head(run[w].todo)
  BY Zenon
<1>1. /\ run[w].todo # <<>> /\ x.op = "grant" /\ Grant(x) /\ feed' = feed /\ done' = done
      /\ run' = [run EXCEPT ![w] = Rest(w)] /\ UNCHANGED <<deductions, tx, clock>>
  BY <1>0, Zenon DEF GrantCall
<1>2. RepoInv /\ RunOK(run[w])
  BY Zenon DEF FlowInv
<1>3. x.amount \in Nat \ {0} /\ x.days \in Nat /\ x.ref \in Known
  <2>1. run[w].todo \in Seq(Items(run[w].todo)) /\ \A y \in Items(run[w].todo) : CallOK(y)
    BY <1>2, Zenon DEF RunOK
  <2>2. x \in Items(run[w].todo)
    BY <1>0, <1>1, <2>1, TailItems, Zenon
  <2>3. CallOK(x) /\ x.op # "find" /\ x.op # "revoke"
    BY <1>1, <2>1, <2>2
  <2> QED  BY <2>3, Zenon DEF CallOK
<1>4. RepoInv' /\ RefsKept /\ Granted(x.ref)'
  BY <1>1, <1>2, <1>3, GrantKeeps, Zenon
<1>5. PICK q : q = Rest(w)
  BY Zenon
<1>6. PICK r : r = run[w]
  BY Zenon
<1>7. q = [r EXCEPT !.todo = Tail(@)]
  BY <1>5, <1>6, Zenon DEF Rest
<1>8. RunOK(r) /\ r.todo # <<>> /\ Granted(Head(r.todo).ref)'
  BY <1>0, <1>1, <1>2, <1>4, <1>6, Zenon
<1>9. RunOK(q)'
  BY <1>1, <1>4, <1>7, <1>8, RestOK, Zenon
<1> QED
  BY <1>1, <1>4, <1>5, <1>9, WorkerStep, Zenon

\* The revocations that a lookup puts in front of the rest of the loop.
LEMMA RevocationCalls ==
    ASSUME grants \in Seq(RowType), NEW found
    PROVE  LET revocation(g) == IF g \in found THEN <<[op |-> "revoke", id |-> g]>> ELSE <<>>
               s == Concat([g \in DOMAIN grants |-> revocation(g)])
           IN  /\ s \in Seq(Items(s))
               /\ \A x \in Items(s) : x.op = "revoke" /\ x.id \in DOMAIN grants
<1> DEFINE call(g) == [op |-> "revoke", id |-> g]
           rev(g) == IF g \in found THEN <<call(g)>> ELSE <<>>
           ss == [g \in DOMAIN grants |-> rev(g)]
           T == {call(g) : g \in DOMAIN grants}
<1>1. \A g : call(g).op = "revoke" /\ call(g).id = g
  BY Zenon
<1>2. ASSUME NEW g \in DOMAIN grants PROVE rev(g) \in Seq(T)
  <2>1. call(g) \in T  BY Zenon
  <2> HIDE DEF call, T
  <2>2. <<>> \in Seq(T) /\ <<call(g)>> \in Seq(T)
    BY <2>1, SingletonItems, Zenon
  <2> QED  BY <2>2, Zenon
<1>3. DOMAIN ss = DOMAIN grants /\ ss = [g \in DOMAIN ss |-> ss[g]]
      /\ \A g \in DOMAIN grants : ss[g] = rev(g)
  BY Zenon
<1>4. ss \in Seq(Seq(T))
  <2> HIDE DEF ss, rev, T
  <2>1. \A g \in DOMAIN grants : ss[g] \in Seq(T)
    BY <1>2, <1>3, Zenon
  <2> QED  BY <1>3, <2>1, MapSeq
<1>5. Concat(ss) \in Seq(Items(Concat(ss))) /\ Items(Concat(ss)) \subseteq T
  <2> HIDE DEF ss, T
  <2>1. Concat(ss) \in Seq(T)
    BY <1>4, ConcatFacts, Zenon
  <2> QED  BY <2>1, ItemsSeq, Zenon
<1>6. \A x \in T : x.op = "revoke" /\ x.id \in DOMAIN grants
  <2> HIDE DEF call
  <2> QED  BY <1>1, Zenon
<1>7. \A x \in Items(Concat(ss)) : x.op = "revoke" /\ x.id \in DOMAIN grants
  <2> HIDE DEF ss, T
  <2> QED  BY <1>5, <1>6, Zenon
<1> QED
  BY <1>5, <1>7, Zenon

\* FindGrantsBySourceRef adds revocations of rows that exist.
LEMMA FindCallKeeps ==
    ASSUME FlowInv, NEW w \in Workers, FindCall(w)
    PROVE  FlowInv'
<1> DEFINE found == FindGrantsBySourceRef(Head(run[w].todo).ref)
           revocation(g) == IF g \in found THEN <<[op |-> "revoke", id |-> g]>> ELSE <<>>
           f == Concat([g \in DOMAIN grants |-> revocation(g)])
<1>0. PICK r : r = run[w]
  BY Zenon
<1>1. PICK s : s = f
  BY Zenon
<1>2. PICK q : q = [r EXCEPT !.todo = s \o Tail(@)]
  BY Zenon
<1>3. /\ r.todo # <<>> /\ Head(r.todo).op = "find" /\ feed' = feed /\ done' = done
      /\ run' = [run EXCEPT ![w] = q]
      /\ UNCHANGED <<grants, deductions, tx, zeroed, clock>>
  BY <1>0, <1>1, <1>2, Zenon DEF FindCall, repoVars
<1>4. RepoInv /\ RunOK(r) /\ grants \in Seq(RowType)
  BY <1>0, Zenon DEF FlowInv, RepoInv, RepoTyped
<1>5. RepoInv' /\ RefsKept
  BY <1>3, <1>4, RepoSame, Zenon
<1>6. s \in Seq(Items(s)) /\ \A x \in Items(s) : x.op = "revoke" /\ x.id \in DOMAIN grants
  <2> HIDE DEF found
  <2> QED  BY <1>1, <1>4, RevocationCalls, Zenon
<1> HIDE DEF f
<1>7. PICK p : p = [r EXCEPT !.todo = Tail(@)]
  BY Zenon
<1>8. RunOK(p)'
  <2>1. Head(r.todo).op = "grant" => Granted(Head(r.todo).ref)'
    <3>1. "find" # "grant"  OBVIOUS
    <3> QED  BY <1>3, <3>1, Zenon
  <2> QED  BY <1>3, <1>4, <1>5, <1>7, <2>1, RestOK, Zenon
<1>9. r = [event |-> r.event, todo |-> r.todo]
  BY <1>4, Zenon DEF RunOK
<1> DEFINE t == Tail(r.todo)
<1>10. p.event = r.event /\ p.todo = t /\ q.event = r.event /\ q.todo = s \o t
       /\ q = [event |-> q.event, todo |-> q.todo]
  BY <1>2, <1>7, <1>9
<1>11. t \in Seq(Items(t)) /\ \A x \in Items(t) : CallOK(x)'
  BY <1>8, <1>10, Zenon DEF RunOK
<1>12. s \o t \in Seq(Items(s \o t)) /\ Items(s \o t) = Items(s) \cup Items(t)
  <2> HIDE DEF t
  <2> DEFINE T == Items(s) \cup Items(t)
  <2>1. s \in Seq(T) /\ t \in Seq(T)
    BY <1>6, <1>11
  <2>2. s \o t \in Seq(T) /\ Items(s \o t) = T
    BY <2>1, ConcatItems
  <2> QED  BY <2>2, Zenon
<1>13. \A x \in Items(s \o t) : CallOK(x)'
  <2>1. \A x \in Items(s) : CallOK(x)'
    BY <1>3, <1>6, Zenon DEF CallOK
  <2> HIDE DEF t
  <2> QED  BY <1>11, <1>12, <2>1, Zenon
<1>14. \A ref \in PendingRefs(t) : ref \in PendingRefs(s \o t)
  <2> HIDE DEF t
  <2> SUFFICES ASSUME NEW ref \in PendingRefs(t) PROVE ref \in PendingRefs(s \o t)
    OBVIOUS
  <2>1. PICK x \in Items(t) : x.op = "grant" /\ x.ref = ref
    BY PendingItems, Zenon
  <2>2. x \in Items(s \o t)
    BY <1>12, Zenon
  <2> QED  BY <2>1, <2>2, PendingItems, Zenon
<1>15. \A e \in feed'.events : e.id = r.event =>
            \A ref \in GrantRefs(e) : Granted(ref)' \/ ref \in PendingRefs(r.todo)
  <2>1. r # NoRun
    <3>1. NoRun.todo = <<>>
      BY Zenon DEF NoRun
    <3> QED  BY <1>3, <3>1, Zenon
  <2>2. RunOK(r)'
    BY <1>3, <1>4, <1>5, RunKept, Zenon
  <2> QED  BY <2>1, <2>2, Zenon DEF RunOK
<1>16. \A ref \in PendingRefs(r.todo) : ref \in PendingRefs(t)
  <2> SUFFICES ASSUME NEW ref \in PendingRefs(r.todo) PROVE ref \in PendingRefs(t)
    OBVIOUS
  <2>1. PICK x \in Items(r.todo) : x.op = "grant" /\ x.ref = ref
    BY PendingItems, Zenon
  <2>2. x # Head(r.todo)
    <3>1. "find" # "grant"  OBVIOUS
    <3> QED  BY <1>3, <2>1, <3>1, Zenon
  <2>3. r.todo \in Seq(Items(r.todo))
    BY <1>4, Zenon DEF RunOK
  <2>4. x \in Items(t)
    BY <1>3, <2>2, <2>3, TailItems, Zenon
  <2> HIDE DEF t
  <2> QED  BY <2>1, <2>4, PendingItems, Zenon
<1>17. RunOK(q)'
  <2> HIDE DEF t
  <2> QED  BY <1>10, <1>12, <1>13, <1>14, <1>15, <1>16, Zenon DEF RunOK
<1> QED
  BY <1>3, <1>5, <1>17, WorkerStep, Zenon

\* A handler's RevokeGrant keeps the invariant.
LEMMA RevokeCallKeeps ==
    ASSUME FlowInv, NEW w \in Workers, RevokeCall(w)
    PROVE  FlowInv'
<1>0. PICK r : r = run[w]
  BY Zenon
<1>1. PICK x : x = Head(r.todo)
  BY Zenon
<1>2. PICK q : q = [r EXCEPT !.todo = Tail(@)]
  BY Zenon
<1>3. /\ r.todo # <<>> /\ x.op = "revoke" /\ RevokeGrant(x.id) /\ feed' = feed /\ done' = done
      /\ run' = [run EXCEPT ![w] = q] /\ UNCHANGED <<deductions, tx, clock>>
  BY <1>0, <1>1, <1>2, Zenon DEF RevokeCall, Rest
<1>4. RepoInv /\ RunOK(r)
  BY <1>0, Zenon DEF FlowInv
<1>5. x.id \in DOMAIN grants
  <2>1. r.todo \in Seq(Items(r.todo)) /\ \A y \in Items(r.todo) : CallOK(y)
    BY <1>4, Zenon DEF RunOK
  <2>2. x \in Items(r.todo)
    BY <1>1, <1>3, <2>1, TailItems, Zenon
  <2>3. CallOK(x) /\ x.op # "find" /\ x.op # "grant"
    BY <1>3, <2>1, <2>2
  <2> QED  BY <2>3, Zenon DEF CallOK
<1>6. RepoInv' /\ RefsKept
  BY <1>3, <1>4, <1>5, RevokeKeeps, Zenon
<1>7. Head(r.todo).op = "grant" => Granted(Head(r.todo).ref)'
  <2>1. "revoke" # "grant"  OBVIOUS
  <2> QED  BY <1>1, <1>3, <2>1, Zenon
<1>8. RunOK(q)'
  BY <1>2, <1>3, <1>4, <1>6, <1>7, RestOK, Zenon
<1> QED
  BY <1>3, <1>6, <1>8, WorkerStep, Zenon

\* A handler cut short by an error is not done: its event will be delivered again.
LEMMA FailKeeps ==
    ASSUME FlowInv, NEW w \in Workers, Fail(w)
    PROVE  FlowInv'
<1>1. /\ run' = [run EXCEPT ![w] = NoRun] /\ feed' = feed /\ done' = done
      /\ UNCHANGED <<grants, deductions, tx, zeroed, clock>>
  BY Zenon DEF Fail
<1>2. RepoInv' /\ RefsKept
  BY <1>1, RepoSame, Zenon DEF FlowInv
<1>3. PICK r : r = NoRun
  BY Zenon
<1>4. RunOK(r)
  BY <1>3, NoRunOK, Zenon
<1>5. RunOK(r)'
  BY <1>1, <1>2, <1>4, RunKept, Zenon
<1> QED
  BY <1>1, <1>2, <1>3, <1>5, WorkerStep, Zenon

\* A handler that returns nil has made every call of its loop.
LEMMA FinishKeeps ==
    ASSUME FlowInv, NEW w \in Workers, Finish(w)
    PROVE  FlowInv'
<1>1. /\ run[w] # NoRun /\ run[w].todo = <<>> /\ run' = [run EXCEPT ![w] = NoRun] /\ feed' = feed
      /\ done' = done \cup {run[w].event} /\ UNCHANGED <<grants, deductions, tx, zeroed, clock>>
  BY Zenon DEF Finish, repoVars
<1>2. /\ RepoInv /\ RefsUnique /\ feed \in Feeds /\ AllGranted
      /\ run = [v \in Workers |-> run[v]] /\ \A v \in Workers : RunOK(run[v])
  BY Zenon DEF FlowInv
<1>3. RepoInv' /\ RefsKept
  BY <1>1, <1>2, RepoSame, Zenon
<1>4. run'[w] = NoRun /\ \A v \in Workers : v # w => run'[v] = run[v]
  BY <1>1, <1>2, Zenon
<1>5. run' = [v \in Workers |-> run'[v]]
  <2>1. DOMAIN run' = Workers /\ run' = [v \in DOMAIN run' |-> run'[v]]
    BY <1>1, <1>2, Zenon
  <2> QED  BY <2>1, Zenon
<1>6. ASSUME NEW v \in Workers PROVE RunOK(run[v])'
  <2>1. PICK p : p = run'[v]
    BY Zenon
  <2>2. RunOK(p)
    BY <1>2, <1>4, <2>1, NoRunOK, Zenon
  <2>3. RunOK(p)'
    BY <1>1, <1>3, <2>2, RunKept, Zenon
  <2> QED  BY <2>1, <2>3, Zenon DEF RunOK
<1>7. \A e \in feed.events : e.id = run[w].event => \A ref \in GrantRefs(e) : Granted(ref)
  <2>1. PendingRefs(<<>>) = {}
    <3>1. DOMAIN <<>> = {}  BY SMT
    <3> QED  BY <3>1, Zenon DEF PendingRefs
  <2> QED  BY <1>1, <1>2, <2>1, Zenon DEF RunOK
<1>8. AllGranted' /\ RefsUnique'
  <2>1. \A e \in feed.events : e.id \in done' => \A ref \in GrantRefs(e) : Granted(ref)
    BY <1>1, <1>2, <1>7, Zenon DEF AllGranted
  <2> QED  BY <1>1, <1>2, <1>3, <2>1, Zenon DEF AllGranted, RefsKept
<1> QED
  BY <1>1, <1>2, <1>3, <1>5, <1>6, <1>8, Zenon DEF FlowInv

\* A grant of the application keeps the invariant.
LEMMA AppGrantKeeps ==
    ASSUME FlowInv, NEW in \in feed.app, AppGrant(in)
    PROVE  FlowInv'
<1>1. Grant(in) /\ UNCHANGED <<deductions, tx, clock>> /\ run' = run /\ done' = done /\ feed' = feed
  BY Zenon DEF AppGrant
<1>2. RepoInv /\ in.amount \in Nat \ {0} /\ in.days \in Nat /\ in.ref \in Known
  BY FeedFacts, Zenon DEF FlowInv
<1>4. RepoInv' /\ RefsKept
  BY <1>1, <1>2, GrantKeeps, Zenon
<1> QED
  BY <1>1, <1>4, QuietStep, Zenon

\* The invariant is inductive: one case per action.
LEMMA NextFlowInv == FlowInv /\ [Next]_vars => FlowInv'
<1> SUFFICES ASSUME FlowInv, [Next]_vars PROVE FlowInv'
  OBVIOUS
<1>1. CASE RepoNext /\ UNCHANGED flowVars
  <2>1. feed' = feed /\ run' = run /\ done' = done /\ RepoInv
    BY <1>1, Zenon DEF flowVars, FlowInv
  <2>2. RepoInv' /\ RefsKept
    BY <1>1, <2>1, RepoStep, KeptRefs, Zenon
  <2> QED  BY <2>1, <2>2, QuietStep, Zenon
<1>2. CASE \E w \in Workers : \E e \in feed.events : Deliver(w, e)
  BY <1>2, DeliverKeeps, Zenon
<1>3. CASE \E w \in Workers : GrantCall(w) \/ FindCall(w) \/ RevokeCall(w) \/ Finish(w) \/ Fail(w)
  BY <1>3, GrantCallKeeps, FindCallKeeps, RevokeCallKeeps, FinishKeeps, FailKeeps, Zenon
<1>4. CASE \E in \in feed.app : AppGrant(in)
  BY <1>4, AppGrantKeeps, Zenon
<1>5. CASE UNCHANGED vars
  <2>1. /\ feed' = feed /\ run' = run /\ done' = done
        /\ UNCHANGED <<grants, deductions, tx, zeroed, clock>>
    BY <1>5, Zenon DEF vars, repoVars, flowVars
  <2>2. RepoInv' /\ RefsKept
    BY <2>1, RepoSame, Zenon DEF FlowInv
  <2> QED  BY <2>1, <2>2, QuietStep, Zenon
<1> QED
  BY <1>1, <1>2, <1>3, <1>4, <1>5, Zenon DEF Next

\* It holds at first: no row, no transaction, no handler.
LEMMA InitFlowInv == Init => FlowInv
<1> SUFFICES ASSUME Init PROVE FlowInv
  OBVIOUS
<1>1. /\ grants = <<>> /\ deductions = {} /\ tx = [c \in Clients |-> Idle] /\ zeroed = <<>>
      /\ clock = 0 /\ feed \in Feeds /\ run = [w \in Workers |-> NoRun] /\ done = {}
  BY Zenon DEF Init, RepoInit
<1>2. /\ \A c \in Clients : tx[c] = Idle
      /\ \A w \in Workers : run[w] = NoRun
      /\ run = [w \in Workers |-> run[w]]
  BY <1>1, Zenon
<1>3. <<>> \in Seq(RowType) /\ <<>> \in Seq(Nat) /\ DOMAIN <<>> = {} /\ 0 \in Nat
  OBVIOUS
<1>4. IsFiniteSet({})
  BY FS_EmptySet, Zenon
<1>5. tx \in [Clients -> TxType]
  BY <1>1, IdleType, Zenon
<1>6. RepoTyped
  BY <1>1, <1>3, <1>4, <1>5, Zenon DEF RepoTyped
<1>7. \A c \in Clients : TxOpen(tx[c])
  BY <1>2, IdleOpen, Zenon
<1>8. OneHolder
  BY <1>2, IdleType, Zenon DEF OneHolder
<1>9. RowsBalance /\ RefsUnique
  BY <1>1, <1>3, Zenon DEF RowsBalance, RefsUnique
<1>10. ChargedInFull
  <2>1. \A req : ChargedOf({}, req) = 0
    <3> SUFFICES ASSUME NEW req PROVE ChargedOf({}, req) = 0
      OBVIOUS
    <3>1. {d \in {} : d.req = req} = {}
      OBVIOUS
    <3>2. SumAmounts({}) = SumOver([d \in DeductionType |-> d.amount], {})
      <4>1. {} \subseteq DeductionType  OBVIOUS
      <4> QED  BY <1>4, <4>1, AmountsNat, Zenon
    <3> QED  BY <3>1, <3>2, SumEmpty, Zenon DEF ChargedOf
  <2> QED  BY <1>1, <2>1, SumsOf, Zenon DEF ChargedInFull
<1>11. AllGranted
  BY <1>1, Zenon DEF AllGranted
<1>12. \A w \in Workers : RunOK(run[w])
  BY <1>2, NoRunOK, Zenon
<1>13. RepoInv
  BY <1>6, <1>7, <1>8, <1>9, <1>10, Zenon DEF RepoInv
<1> QED
  BY <1>1, <1>2, <1>9, <1>11, <1>12, <1>13, Zenon DEF FlowInv

\* The grants of a session's payment intent are the grants of its units.
LEMMA SessionGrants ==
    ASSUME FlowInv, NEW e \in feed.events, e \in Session, NEW g \in DOMAIN grants,
           grants[g].ref.src = e.pi, grants[g].ref.n # <<>>
    PROVE  grants[g].ref \in GrantRefs(e)
<1>1. feed \in Feeds /\ grants \in Seq(RowType)
  BY Zenon DEF FlowInv, RepoInv, RepoTyped
<1>2. PICK ref : ref = grants[g].ref
  BY Zenon
<1>3. ref \in Known
  BY <1>1, <1>2, RowFields, Zenon
<1>4. /\ \A d \in feed.events \cap Session : d.pi = e.pi => d = e
      /\ \A d \in feed.events \cap Invoice : d.invoice # e.pi
      /\ \A in \in feed.app : in.ref.src = e.pi => in.ref.n = <<>>
  <2>1. e \in feed.events \cap Session
    BY Zenon
  <2> QED  BY <1>1, <2>1, FeedAssumption, Zenon
<1>5. PICK d \in feed.events : ref \in GrantRefs(d)
  <2>1. ref \notin {in.ref : in \in feed.app}
    BY <1>2, <1>4, Zenon
  <2> QED  BY <1>3, <2>1, Zenon DEF Known
<1>6. AsksFor(d) /\ d \in Session \cup Invoice \cup Reversal
  BY <1>1, FeedFacts, Zenon
<1>7. d \in Session
  <2>1. d \notin Reversal
    BY <1>5, <1>6, Zenon DEF AsksFor
  <2>2. d \notin Invoice
    BY <1>2, <1>4, <1>5, <1>6, Zenon DEF AsksFor
  <2> QED  BY <1>6, <2>1, <2>2, Zenon
<1>8. d.pi = e.pi
  <2>1. \E i \in DOMAIN d.pending : \E u \in UnitsOf(d, i) : ref = UnitRef(d, i, u - 1)
    <3>1. \A r : r \in GrantRefs(d) =>
            \E i \in DOMAIN d.pending : \E u \in UnitsOf(d, i) : r = UnitRef(d, i, u - 1)
      BY <1>6, <1>7, Zenon DEF AsksFor
    <3> QED  BY <1>5, <3>1, Zenon
  <2>2. ref.src = d.pi
    <3>1. \A i, k : UnitRef(d, i, k).src = d.pi
      BY Zenon DEF UnitRef
    <3> QED  BY <2>1, <3>1, Zenon
  <2> QED  BY <1>2, <2>2, Zenon
<1> QED
  BY <1>2, <1>4, <1>5, <1>7, <1>8, Zenon

\* One grant for each unit a finished session sold.
LEMMA SessionCount ==
    ASSUME FlowInv, NEW e \in feed.events, e \in Session, e.id \in done
    PROVE  Cardinality({g \in DOMAIN grants : grants[g].ref.src = e.pi /\ grants[g].ref.n # <<>>})
                = e.bought
<1> DEFINE G == {g \in DOMAIN grants : grants[g].ref.src = e.pi /\ grants[g].ref.n # <<>>}
           b == [g \in G |-> <<grants[g].ref.n[1], grants[g].ref.n[2] + 1>>]
<1>1. feed \in Feeds /\ grants \in Seq(RowType) /\ RefsUnique /\ AllGranted
  BY Zenon DEF FlowInv, RepoInv, RepoTyped
<1>2. e.bought = Cardinality(Units(e))
  <2>1. e \in feed.events \cap Session
    BY Zenon
  <2> QED  BY <1>1, <2>1, FeedAssumption, Zenon
<1>3. IsFiniteSet(G)
  <2>1. IsFiniteSet(DOMAIN grants)
    BY <1>1, DomainFacts, Zenon
  <2> QED  BY <2>1, FS_Subset, Zenon
<1>4. \A ref : ref \in GrantRefs(e) <=>
         \E i \in DOMAIN e.pending : \E u \in UnitsOf(e, i) : ref = UnitRef(e, i, u - 1)
  BY <1>1, FeedFacts, Zenon DEF AsksFor
<1>5. ASSUME NEW i, NEW k
      PROVE  /\ UnitRef(e, i, k).src = e.pi /\ UnitRef(e, i, k).n # <<>>
             /\ UnitRef(e, i, k).n[1] = i /\ UnitRef(e, i, k).n[2] = k
  BY SMT DEF UnitRef
<1>6. \A i \in DOMAIN e.pending : UnitsOf(e, i) \subseteq Nat
  <2> SUFFICES ASSUME NEW i \in DOMAIN e.pending PROVE UnitsOf(e, i) \subseteq Nat
    OBVIOUS
  <2>1. PICK m \in Nat \ {0} : UnitsOf(e, i) = 1 .. m
    BY SessionFields, Zenon
  <2> QED  BY <2>1
<1>7. \A p : p \in Units(e) <=> \E i \in DOMAIN e.pending : \E u \in UnitsOf(e, i) : p = <<i, u>>
  BY DEF Units
<1>8. ASSUME NEW g \in G
      PROVE  \E i \in DOMAIN e.pending : \E u \in UnitsOf(e, i) :
                grants[g].ref = UnitRef(e, i, u - 1) /\ b[g] = <<i, u>>
  <2>1. grants[g].ref \in GrantRefs(e)
    BY SessionGrants, Zenon
  <2>2. PICK i \in DOMAIN e.pending : \E u \in UnitsOf(e, i) : grants[g].ref = UnitRef(e, i, u - 1)
    BY <1>4, <2>1, Zenon
  <2>3. PICK u \in UnitsOf(e, i) : grants[g].ref = UnitRef(e, i, u - 1)
    BY <2>2, Zenon
  <2>4. grants[g].ref.n[1] = i /\ grants[g].ref.n[2] = u - 1
    <3>1. UnitRef(e, i, u - 1).n[1] = i /\ UnitRef(e, i, u - 1).n[2] = u - 1
      BY <1>5, Zenon
    <3> QED  BY <2>3, <3>1, Zenon
  <2>5. u \in Nat
    BY <1>6, Zenon
  <2>6. (u - 1) + 1 = u
    BY <2>5
  <2>7. b[g] = <<i, u>>
    BY <2>4, <2>6, Zenon
  <2> QED  BY <2>3, <2>7, Zenon
<1>9. DOMAIN b = G /\ b = [g \in DOMAIN b |-> b[g]]
  BY Zenon
<1>10. ASSUME NEW i \in DOMAIN e.pending, NEW u \in UnitsOf(e, i) PROVE \E g \in G : b[g] = <<i, u>>
  <2>1. UnitRef(e, i, u - 1) \in GrantRefs(e)
    BY <1>4, Zenon
  <2>2. PICK g \in DOMAIN grants : grants[g].ref = UnitRef(e, i, u - 1)
    BY <1>1, <2>1, Zenon DEF AllGranted, Granted
  <2> DEFINE ref == UnitRef(e, i, u - 1)
  <2>8. ref.src = e.pi /\ ref.n # <<>> /\ ref.n[1] = i /\ ref.n[2] = u - 1
    <3>1. ref.src = e.pi  BY Zenon DEF UnitRef
    <3>2. ref.n # <<>>  BY <1>5
    <3>3. ref.n[1] = i /\ ref.n[2] = u - 1  BY <1>5, Zenon
    <3> HIDE DEF ref
    <3> QED  BY <3>1, <3>2, <3>3, Zenon
  <2> HIDE DEF ref
  <2>3. g \in G
    BY <2>2, <2>8, Zenon DEF ref
  <2>4. grants[g].ref.n[1] = i /\ grants[g].ref.n[2] = u - 1
    BY <2>2, <2>8, Zenon DEF ref
  <2>5. u \in Nat
    BY <1>6, Zenon
  <2>6. (u - 1) + 1 = u
    BY <2>5
  <2>7. b[g] = <<i, u>>
    BY <2>3, <2>4, <2>6, Zenon
  <2> QED  BY <2>3, <2>7, Zenon
<1> HIDE DEF b
<1>11. b \in [G -> Units(e)]
  <2>1. \A g \in G : b[g] \in Units(e)
    BY <1>7, <1>8, Zenon
  <2> QED  BY <1>9, <2>1, Zenon
<1>12. ASSUME NEW g \in G, NEW h \in G, b[g] = b[h] PROVE g = h
  <2>1. PICK i \in DOMAIN e.pending : \E u \in UnitsOf(e, i) :
                grants[g].ref = UnitRef(e, i, u - 1) /\ b[g] = <<i, u>>
    BY <1>8, Zenon
  <2>2. PICK u \in UnitsOf(e, i) : grants[g].ref = UnitRef(e, i, u - 1) /\ b[g] = <<i, u>>
    BY <2>1, Zenon
  <2>3. PICK j \in DOMAIN e.pending : \E v \in UnitsOf(e, j) :
                grants[h].ref = UnitRef(e, j, v - 1) /\ b[h] = <<j, v>>
    BY <1>8, Zenon
  <2>4. PICK v \in UnitsOf(e, j) : grants[h].ref = UnitRef(e, j, v - 1) /\ b[h] = <<j, v>>
    BY <2>3, Zenon
  <2>5. i = j /\ u = v
    <3>1. <<i, u>> = <<j, v>>
      BY <1>12, <2>2, <2>4, Zenon
    <3> QED  BY <3>1, Zenon
  <2>6. grants[g].ref = grants[h].ref
    BY <2>2, <2>4, <2>5, Zenon
  <2> QED  BY <1>1, <2>6, Zenon DEF RefsUnique
<1>13. \A p \in Units(e) : \E g \in G : b[g] = p
  <2> SUFFICES ASSUME NEW p \in Units(e) PROVE \E g \in G : b[g] = p
    BY Zenon
  <2>1. PICK i \in DOMAIN e.pending : \E u \in UnitsOf(e, i) : p = <<i, u>>
    BY <1>7, Zenon
  <2>2. PICK u \in UnitsOf(e, i) : p = <<i, u>>
    BY <2>1, Zenon
  <2>3. PICK g \in G : b[g] = <<i, u>>
    BY <1>10, Zenon
  <2> QED  BY <2>2, <2>3, Zenon
<1>14. ExistsBijection(G, Units(e))
  <2> HIDE DEF G
  <2>1. b \in Injection(G, Units(e))
    BY <1>9, <1>11, <1>12, Zenon DEF Injection, IsInjective
  <2>2. b \in Surjection(G, Units(e))
    BY <1>11, <1>13, Zenon DEF Surjection
  <2> QED  BY <2>1, <2>2, Zenon DEF ExistsBijection, Bijection
<1> HIDE DEF G
<1>15. Cardinality(Units(e)) = Cardinality(G)
  BY <1>3, <1>14, FS_Bijection, Zenon
<1> QED
  BY <1>2, <1>15, Zenon DEF G

\* The invariant gives the property: the grants of a processed session are its units, each
\* once.
LEMMA PurchasesInvariant == FlowInv => PurchasesGranted
<1> SUFFICES ASSUME FlowInv PROVE PurchasesGranted
  OBVIOUS
<1>1. feed \in Feeds /\ RefsUnique /\ AllGranted
  BY Zenon DEF FlowInv
<1>2. ASSUME NEW e \in feed.events, e.id \in done, NEW ref \in GrantRefs(e)
      PROVE  Cardinality(FindGrantsBySourceRef(ref)) = 1
  <2>1. PICK g \in DOMAIN grants : grants[g].ref = ref
    BY <1>1, <1>2, Zenon DEF AllGranted, Granted
  <2>2. FindGrantsBySourceRef(ref) = {g}
    BY <1>1, <2>1, Zenon DEF FindGrantsBySourceRef, RefsUnique
  <2> QED  BY <2>2, FS_Singleton, Zenon
<1>3. ASSUME NEW e \in feed.events, e.id \in done, e.kind = "session"
      PROVE  Cardinality({g \in DOMAIN grants : grants[g].ref.src = e.pi /\ grants[g].ref.n # <<>>})
                = e.bought
  <2>1. e \in Session \cup Invoice \cup Reversal
    BY <1>1, FeedFacts, Zenon
  <2>2. e \in Session
    BY <1>3, <2>1 DEF Session, Invoice, Reversal
  <2> QED  BY <1>3, <2>2, SessionCount, Zenon
<1>4. ASSUME NEW g \in DOMAIN grants
      PROVE  \/ \E in \in feed.app : grants[g].ref = in.ref
             \/ \E e \in feed.events : grants[g].ref \in GrantRefs(e)
  <2>1. grants[g].ref \in Known
    BY RowFields, Zenon DEF FlowInv, RepoInv, RepoTyped
  <2> QED
    BY <2>1, Zenon DEF Known
<1> QED
  BY <1>2, <1>3, <1>4, Zenon DEF PurchasesGranted

\* The invariant holds throughout.
LEMMA FlowInvariant == Spec => []FlowInv
BY InitFlowInv, NextFlowInv, PTL DEF Spec

\* Every grant row balances at every moment: what is left of it is its initial amount less
\* its deduction rows, or 0 once a revocation or an expiry emptied it, however the calls of
\* TryDeduct, Grant, RevokeGrant and the expiry sweep interleave.
THEOREM RowsAlwaysBalance == Spec => []RowsBalance
<1>1. FlowInv => RowsBalance
  BY Zenon DEF FlowInv, RepoInv
<1> QED
  BY <1>1, FlowInvariant, PTL

\* A request the ledger has a deduction row for was charged its whole amount, once: no crash,
\* rollback or repetition of TryDeduct leaves a part of it or charges it again.
THEOREM RequestsChargedInFull == Spec => []ChargedInFull
<1>1. FlowInv => ChargedInFull
  BY Zenon DEF FlowInv, RepoInv
<1> QED
  BY <1>1, FlowInvariant, PTL

\* A session whose event is processed has exactly one grant row per unit it sold, whatever
\* errors, overlapping deliveries and redeliveries ApplyGrantsFromSession met on the way,
\* and no row has a ref that no event and no grant of the application names.
THEOREM PurchasesAlwaysGranted == Spec => []PurchasesGranted
BY PurchasesInvariant, FlowInvariant, PTL

=============================================================================
