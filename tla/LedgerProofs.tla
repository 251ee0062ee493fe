------------------------------ MODULE LedgerProofs ------------------------------
(***************************************************************************)
(* The two books of the connector: the credits a subject was granted and   *)
(* has drawn (CreditLedger), for any number of grants, requests and        *)
(* buckets, any amounts and any lifetimes; and the usage that was recorded *)
(* and billed (Metering), for any instances, usage and lost pushes and     *)
(* whatever happens to the mapping of customers.  In both, what is kept    *)
(* balances with what was done: the second part says what an identifier of *)
(* a window tells of the events that bill it.                              *)
(***************************************************************************)
EXTENDS CreditLedger, Metering, SumTheorems

\* The inductive invariant: every part of it is preserved with the help of the types.
IInv == TypeOK /\ Conservation /\ RevokedIsEmpty /\ SourceRefUnique

-----------------------------------------------------------------------------
\* A function on the domain of a sequence is a sequence of the same length.
LEMMA SameDomain ==
    ASSUME NEW S, NEW T, NEW s \in Seq(S), NEW f \in [DOMAIN s -> T]
    PROVE  f \in Seq(T) /\ Len(f) = Len(s) /\ DOMAIN f = DOMAIN s
OBVIOUS

\* The fields of a grant in the ledger.
LEMMA GrantsTyped ==
    ASSUME TypeOK
    PROVE  \A g \in DOMAIN grants : grants[g] \in GrantType /\ grants[g].remaining \in Nat
<1>1. \A g \in DOMAIN grants : grants[g] \in GrantType
  BY DEF TypeOK
<1> QED
  BY <1>1, Zenon DEF GrantType

\* The pool TryDeduct sorts is finite.
LEMMA PoolFinite ==
    ASSUME TypeOK, NEW b
    PROVE  /\ Usable(b) \subseteq DOMAIN grants
           /\ IsFiniteSet(Usable(b))
           /\ Cardinality(Usable(b)) \in Nat
<1>1. Usable(b) \subseteq DOMAIN grants /\ DOMAIN grants = 1..Len(grants) /\ Len(grants) \in Nat
  BY DEF Usable, TypeOK
<1>2. IsFiniteSet(1..Len(grants))
  BY <1>1, FS_Interval
<1>3. IsFiniteSet(Usable(b))
  BY <1>1, <1>2, FS_Subset, Zenon
<1> QED
  BY <1>1, <1>3, FS_CardinalityType, Zenon

\* The plan never takes more from a grant than it has left, nothing from a grant
\* outside the pool, and never a negative amount.
LEMMA TakeBounded ==
    ASSUME TypeOK, NEW b, NEW amount \in Nat, NEW pos \in SortOrders(Usable(b)),
           NEW left \in Walks(Usable(b), pos, amount), NEW g \in DOMAIN grants
    PROVE  /\ Takes(Usable(b), pos, left)[g] \in 0..grants[g].remaining
           /\ g \notin Usable(b) => Takes(Usable(b), pos, left)[g] = 0
<1> DEFINE pool == Usable(b)
           n == Cardinality(pool)
<1>1. grants[g].remaining \in Nat
  BY GrantsTyped, Zenon
<1>2. CASE g \notin pool
  BY <1>1, <1>2 DEF Takes
<1>3. CASE g \in pool
  <2>0. n \in Nat
    BY PoolFinite, Zenon
  <2>1. pos[g] \in 1..n
    BY <1>3, Zenon DEF SortOrders, Bijection, Injection
  <2>2. left \in [1..(n + 1) -> 0..amount]
    BY Zenon DEF Walks
  <2>3. left[pos[g]] \in Nat /\ left[pos[g] + 1] \in Nat
    BY <2>0, <2>1, <2>2
  <2>4. left[pos[g] + 1] = IF grants[g].remaining > left[pos[g]]
                           THEN 0 ELSE left[pos[g]] - grants[g].remaining
    BY <1>3, Zenon DEF Walks
  <2>5. left[pos[g]] - left[pos[g] + 1] \in 0..grants[g].remaining
    BY <1>1, <2>3, <2>4
  <2> QED
    BY <1>3, <2>5, Zenon DEF Takes
<1> QED
  BY <1>2, <1>3, Zenon

-----------------------------------------------------------------------------
\* The initial, empty ledger.
LEMMA InitIInv == Init => IInv
BY DEF Init, IInv, TypeOK, Conservation, RevokedIsEmpty, SourceRefUnique

\* Grant appends a full, unrevoked grant under a SourceRef that is new.
LEMMA GrantStep ==
    ASSUME IInv, NEW b \in Buckets, NEW a \in Amounts, NEW d \in ValidDays,
           NEW ref \in Refs \cup {NoRef}, Grant(b, a, d, ref)
    PROVE  IInv'
<1> DEFINE n == Len(grants) + 1
           new == [bucket |-> b, initial |-> a, remaining |-> a, grantedAt |-> clock,
                   expires |-> IF d > 0 THEN clock + d ELSE Never,
                   ref |-> ref, revoked |-> FALSE]
<1>0. /\ Len(grants) \in Nat /\ DOMAIN grants = 1..Len(grants) /\ n \in Nat
      /\ a \in Nat /\ d \in Nat
  BY LedgerAssumption DEF IInv, TypeOK, LedgerAssumption
<1>1. new \in GrantType
  BY <1>0 DEF IInv, TypeOK, GrantType, Never
<1>2. /\ grants' = Append(grants, new) /\ grants' \in Seq(GrantType)
      /\ DOMAIN grants' = DOMAIN grants \cup {n} /\ n \notin DOMAIN grants
      /\ grants'[n] = new /\ \A g \in DOMAIN grants : grants'[g] = grants[g]
  <2>1. grants' = Append(grants, new)
    BY Zenon DEF Grant
  <2> HIDE DEF new
  <2> QED
    BY <1>0, <1>1, <2>1 DEF IInv, TypeOK
<1>3. ASSUME NEW h \in [DOMAIN grants -> Nat]
      PROVE  /\ Append(h, 0) \in [DOMAIN grants' -> Nat] /\ Append(h, 0)[n] = 0
             /\ \A g \in DOMAIN grants : Append(h, 0)[g] = h[g]
  <2>1. h \in Seq(Nat) /\ Len(h) = Len(grants)
    BY SameDomain DEF IInv, TypeOK
  <2>2. /\ Append(h, 0) \in Seq(Nat) /\ Len(Append(h, 0)) = n
        /\ Append(h, 0)[n] = 0 /\ \A g \in 1..Len(grants) : Append(h, 0)[g] = h[g]
    BY <1>0, <2>1
  <2>3. Append(h, 0) \in [1..n -> Nat]
    <3> DEFINE a0 == Append(h, 0)
    <3>1. a0 \in Seq(Nat) /\ Len(a0) = n
      BY <2>2, Zenon
    <3> SUFFICES a0 \in [1..n -> Nat]
      OBVIOUS
    <3> HIDE DEF a0, n
    <3> QED
      BY <3>1
  <2>4. DOMAIN grants' = 1..n
    BY <1>0, <1>2
  <2> QED
    BY <1>0, <2>2, <2>3, <2>4, Zenon
<1>4. drawn' = Append(drawn, 0) /\ expired' = Append(expired, 0) /\ revoked' = Append(revoked, 0)
  BY Zenon DEF Grant
<1>5. TypeOK'
  BY <1>2, <1>3, <1>4, Zenon DEF IInv, TypeOK, Grant
<1>6. Conservation'
  <2>1. ASSUME NEW g \in DOMAIN grants
        PROVE  grants'[g].initial =
                   grants'[g].remaining + drawn'[g] + expired'[g] + revoked'[g]
    BY <1>2, <1>3, <1>4, Zenon DEF IInv, TypeOK, Conservation
  <2>2. grants'[n].initial = grants'[n].remaining + drawn'[n] + expired'[n] + revoked'[n]
    BY <1>0, <1>2, <1>3, <1>4 DEF IInv, TypeOK
  <2> QED
    BY <1>2, <2>1, <2>2, Zenon DEF Conservation
<1>7. RevokedIsEmpty'
  BY <1>2 DEF IInv, RevokedIsEmpty
<1>8. SourceRefUnique'
  <2>1. new.ref = ref /\ new.bucket = b
    OBVIOUS
  <2>2. ref # NoRef => \A g \in DOMAIN grants : ~(grants[g].bucket = b /\ grants[g].ref = ref)
    BY Zenon DEF Grant, SeenGrant
  <2> HIDE DEF new, n
  <2> QED
    BY <1>2, <2>1, <2>2 DEF IInv, SourceRefUnique
<1> QED
  BY <1>5, <1>6, <1>7, <1>8, Zenon DEF IInv

\* The arithmetic of a booking: what a grant loses, its history gains.
LEMMA Booking ==
    \A i, r, r1, c, d, e, v, d1, e1, v1 \in Nat :
        i = r + d + e + v /\ r1 + c = r /\ d1 + e1 + v1 = d + e + v + c
            => i = r1 + d1 + e1 + v1
OBVIOUS

\* A step that only lowers what grants have left, and books the difference.
LEMMA BookingStep ==
    ASSUME IInv, NEW cut \in [DOMAIN grants -> Nat],
           grants' \in [DOMAIN grants -> GrantType],
           \A g \in DOMAIN grants :
               /\ grants'[g].initial = grants[g].initial
               /\ grants'[g].ref = grants[g].ref
               /\ grants'[g].bucket = grants[g].bucket
               /\ grants'[g].remaining + cut[g] = grants[g].remaining
               /\ grants'[g].revoked => grants'[g].remaining = 0,
           drawn' \in [DOMAIN grants -> Nat], expired' \in [DOMAIN grants -> Nat],
           revoked' \in [DOMAIN grants -> Nat],
           \A g \in DOMAIN grants : drawn'[g] + expired'[g] + revoked'[g] =
                                    drawn[g] + expired[g] + revoked[g] + cut[g]
    PROVE  /\ grants' \in Seq(GrantType) /\ DOMAIN grants' = DOMAIN grants
           /\ Conservation' /\ RevokedIsEmpty' /\ SourceRefUnique'
<1>1. grants' \in Seq(GrantType) /\ DOMAIN grants' = DOMAIN grants
  BY SameDomain, Zenon DEF IInv, TypeOK
<1>2. Conservation'
  <2> SUFFICES ASSUME NEW g \in DOMAIN grants
               PROVE  grants'[g].initial =
                          grants'[g].remaining + drawn'[g] + expired'[g] + revoked'[g]
    BY <1>1, Zenon DEF Conservation
  <2>1. grants[g].remaining \in Nat /\ grants'[g].remaining \in Nat
    BY GrantsTyped, Zenon DEF IInv, GrantType
  <2>2. grants[g].initial = grants[g].remaining + drawn[g] + expired[g] + revoked[g]
    BY Zenon DEF IInv, Conservation
  <2>3. drawn[g] \in Nat /\ expired[g] \in Nat /\ revoked[g] \in Nat /\ cut[g] \in Nat
    BY Zenon DEF IInv, TypeOK
  <2>4. drawn'[g] \in Nat /\ expired'[g] \in Nat /\ revoked'[g] \in Nat
    OBVIOUS
  <2>5. /\ grants'[g].initial = grants[g].initial
        /\ grants'[g].remaining + cut[g] = grants[g].remaining
        /\ drawn'[g] + expired'[g] + revoked'[g] = drawn[g] + expired[g] + revoked[g] + cut[g]
    OBVIOUS
  <2> QED
    BY ONLY <2>1, <2>2, <2>3, <2>4, <2>5, Booking
<1>3. RevokedIsEmpty'
  BY <1>1, Zenon DEF RevokedIsEmpty
<1>4. SourceRefUnique'
  BY <1>1, Zenon DEF IInv, SourceRefUnique
<1> QED
  BY <1>1, <1>2, <1>3, <1>4, Zenon

\* TryDeduct moves what the plan takes from the grants to the deductions.
LEMMA TryDeductStep ==
    ASSUME IInv, NEW q \in RequestIDs, NEW b \in Buckets, NEW a \in Amounts,
           TryDeduct(q, b, a)
    PROVE  IInv'
<1> DEFINE pool == Usable(b)
<1>0. a \in Nat /\ TypeOK
  BY LedgerAssumption, Zenon DEF LedgerAssumption, IInv
<1>1. PICK pos \in SortOrders(pool) : \E left \in Walks(pool, pos, a) :
          Apply(q, b, a, pool, Takes(pool, pos, left)) \/ Refuse(q)
  BY Zenon DEF TryDeduct
<1>2. PICK left \in Walks(pool, pos, a) :
          Apply(q, b, a, pool, Takes(pool, pos, left)) \/ Refuse(q)
  BY <1>1, Zenon
<1> DEFINE take == Takes(pool, pos, left)
<1>3. CASE Refuse(q)
  BY <1>3, Zenon DEF Refuse, TryDeduct, IInv, TypeOK, Conservation, RevokedIsEmpty, SourceRefUnique
<1>4. CASE Apply(q, b, a, pool, take)
  <2>1. \A g \in DOMAIN grants : /\ take[g] \in 0..grants[g].remaining
                                 /\ take[g] \in Nat
    BY <1>0, TakeBounded, GrantsTyped
  <2>2. take \in [DOMAIN grants -> Nat]
    BY <2>1, Zenon DEF Takes
  <2> HIDE DEF take
  <2>3. ASSUME NEW g \in DOMAIN grants
        PROVE  /\ grants'[g] \in GrantType
               /\ grants'[g].initial = grants[g].initial
               /\ grants'[g].ref = grants[g].ref
               /\ grants'[g].bucket = grants[g].bucket
               /\ grants'[g].remaining + take[g] = grants[g].remaining
               /\ grants'[g].revoked => grants'[g].remaining = 0
    <3>1. grants[g] \in GrantType /\ grants[g].remaining \in Nat
      BY <1>0, GrantsTyped, Zenon
    <3>2. grants'[g] = [grants[g] EXCEPT !.remaining = @ - take[g]]
      BY <1>4, Zenon DEF Apply
    <3>3. grants[g].remaining - take[g] \in Nat
      BY <2>1, <3>1
    <3>4. /\ grants'[g] \in GrantType
          /\ grants'[g].initial = grants[g].initial
          /\ grants'[g].ref = grants[g].ref
          /\ grants'[g].bucket = grants[g].bucket
          /\ grants'[g].revoked = grants[g].revoked
          /\ grants'[g].remaining = grants[g].remaining - take[g]
      BY <3>1, <3>2, <3>3, Zenon DEF GrantType
    <3>5. grants[g].revoked => grants[g].remaining = 0
      BY Zenon DEF IInv, RevokedIsEmpty
    <3> QED
      BY <2>1, <3>1, <3>4, <3>5
  <2>4. grants' \in [DOMAIN grants -> GrantType]
    BY <1>4, <2>3, Zenon DEF Apply
  <2>5. /\ drawn' \in [DOMAIN grants -> Nat]
        /\ expired' \in [DOMAIN grants -> Nat] /\ revoked' \in [DOMAIN grants -> Nat]
        /\ \A g \in DOMAIN grants : drawn'[g] + expired'[g] + revoked'[g] =
                                    drawn[g] + expired[g] + revoked[g] + take[g]
    BY <1>0, <1>4, <2>1 DEF TryDeduct, Apply, TypeOK
  <2>6. /\ grants' \in Seq(GrantType) /\ DOMAIN grants' = DOMAIN grants
        /\ Conservation' /\ RevokedIsEmpty' /\ SourceRefUnique'
    BY <2>2, <2>3, <2>4, <2>5, BookingStep, Zenon
  <2>7. Rows(q, b, pool, take) \subseteq DeductionType
    <3> SUFFICES ASSUME NEW g \in pool, take[g] > 0
                 PROVE  [req |-> q, grant |-> g, bucket |-> b, amount |-> take[g]]
                            \in DeductionType
      BY Zenon DEF Rows
    <3>1. g \in DOMAIN grants /\ g \in Nat
      BY <1>0, PoolFinite DEF TypeOK
    <3> QED
      BY <2>1, <3>1 DEF DeductionType
  <2>8. TypeOK'
    BY <1>0, <1>4, <2>5, <2>6, <2>7, Zenon DEF TryDeduct, Apply, TypeOK
  <2> QED
    BY <2>6, <2>8, Zenon DEF IInv
<1> QED
  BY <1>2, <1>3, <1>4, Zenon

\* RunExpiry books what is left of the expired grants as expired.
LEMMA RunExpiryStep == ASSUME IInv, RunExpiry PROVE IInv'
<1> DEFINE cut == [g \in DOMAIN grants |-> IF Expired(g) THEN grants[g].remaining ELSE 0]
<1>0. TypeOK
  BY Zenon DEF IInv
<1>1. cut \in [DOMAIN grants -> Nat]
  BY <1>0, GrantsTyped, Zenon
<1>2. ASSUME NEW g \in DOMAIN grants
      PROVE  /\ grants'[g] \in GrantType
             /\ grants'[g].initial = grants[g].initial
             /\ grants'[g].ref = grants[g].ref
             /\ grants'[g].bucket = grants[g].bucket
             /\ grants'[g].remaining + cut[g] = grants[g].remaining
             /\ grants'[g].revoked => grants'[g].remaining = 0
  <2>1. grants[g] \in GrantType /\ grants[g].remaining \in Nat
    BY <1>0, GrantsTyped, Zenon
  <2>2. grants[g].revoked => grants[g].remaining = 0
    BY Zenon DEF IInv, RevokedIsEmpty
  <2>3. CASE Expired(g)
    <3>1. grants'[g] = [grants[g] EXCEPT !.remaining = 0] /\ cut[g] = grants[g].remaining
      BY <2>3, Zenon DEF RunExpiry
    <3> HIDE DEF cut
    <3> QED
      BY <2>1, <3>1 DEF GrantType
  <2>4. CASE ~Expired(g)
    BY <2>1, <2>2, <2>4 DEF RunExpiry
  <2> QED
    BY <2>3, <2>4, Zenon
<1>3. /\ drawn' \in [DOMAIN grants -> Nat] /\ revoked' \in [DOMAIN grants -> Nat]
      /\ expired' \in [DOMAIN grants -> Nat]
      /\ \A g \in DOMAIN grants : drawn'[g] + expired'[g] + revoked'[g] =
                                  drawn[g] + expired[g] + revoked[g] + cut[g]
  <2>1. \A g \in DOMAIN grants : expired'[g] = expired[g] + cut[g]
    <3> SUFFICES ASSUME NEW g \in DOMAIN grants PROVE expired'[g] = expired[g] + cut[g]
      OBVIOUS
    <3>1. expired[g] \in Nat
      BY <1>0, Zenon DEF TypeOK
    <3>2. expired'[g] = IF Expired(g) THEN expired[g] + grants[g].remaining ELSE expired[g]
      BY Zenon DEF RunExpiry
    <3> QED
      BY <3>1, <3>2
  <2>2. expired' \in [DOMAIN grants -> Nat]
    BY <1>0, <1>1, <2>1 DEF RunExpiry, TypeOK
  <2> HIDE DEF cut
  <2>3. /\ drawn \in [DOMAIN grants -> Nat] /\ revoked \in [DOMAIN grants -> Nat]
        /\ expired \in [DOMAIN grants -> Nat] /\ UNCHANGED <<drawn, revoked>>
    BY <1>0, Zenon DEF RunExpiry, TypeOK
  <2>4. \A d, e, v, c \in Nat : d + (e + c) + v = d + e + v + c
    OBVIOUS
  <2> QED
    BY ONLY <1>1, <2>1, <2>2, <2>3, <2>4
<1>4. grants' \in [DOMAIN grants -> GrantType]
  BY <1>2, Zenon DEF RunExpiry
<1> HIDE DEF cut
<1>5. /\ grants' \in Seq(GrantType) /\ DOMAIN grants' = DOMAIN grants
      /\ Conservation' /\ RevokedIsEmpty' /\ SourceRefUnique'
  BY <1>1, <1>2, <1>3, <1>4, BookingStep, Zenon
<1>6. TypeOK'
  BY <1>0, <1>3, <1>5, Zenon DEF RunExpiry, TypeOK
<1> QED
  BY <1>5, <1>6, Zenon DEF IInv

\* RevokeGrant books what is left of the grant as revoked.
LEMMA RevokeGrantStep == ASSUME IInv, NEW r \in DOMAIN grants, RevokeGrant(r) PROVE IInv'
<1> DEFINE cut == [g \in DOMAIN grants |-> IF g = r THEN grants[g].remaining ELSE 0]
<1>0. TypeOK
  BY Zenon DEF IInv
<1>1. cut \in [DOMAIN grants -> Nat]
  BY <1>0, GrantsTyped, Zenon
<1>2. ASSUME NEW g \in DOMAIN grants
      PROVE  /\ grants'[g] \in GrantType
             /\ grants'[g].initial = grants[g].initial
             /\ grants'[g].ref = grants[g].ref
             /\ grants'[g].bucket = grants[g].bucket
             /\ grants'[g].remaining + cut[g] = grants[g].remaining
             /\ grants'[g].revoked => grants'[g].remaining = 0
  <2>1. grants[g] \in GrantType /\ grants[g].remaining \in Nat
    BY <1>0, GrantsTyped, Zenon
  <2>2. grants[g].revoked => grants[g].remaining = 0
    BY Zenon DEF IInv, RevokedIsEmpty
  <2>3. CASE g = r
    <3>1. /\ grants'[g] = [grants[g] EXCEPT !.remaining = 0, !.revoked = TRUE]
          /\ cut[g] = grants[g].remaining
      BY <1>0, <2>3, Zenon DEF RevokeGrant, TypeOK
    <3> HIDE DEF cut
    <3>2. [grants[g] EXCEPT !.remaining = 0, !.revoked = TRUE] \in GrantType
      BY <2>1, Zenon DEF GrantType
    <3>3. /\ grants'[g].initial = grants[g].initial /\ grants'[g].ref = grants[g].ref
          /\ grants'[g].bucket = grants[g].bucket /\ grants'[g].remaining = 0
      BY <2>1, <3>1, Zenon DEF GrantType
    <3> QED
      BY <2>1, <3>1, <3>2, <3>3
  <2>4. CASE g # r
    BY <2>1, <2>2, <2>4 DEF RevokeGrant
  <2> QED
    BY <2>3, <2>4, Zenon
<1>3. /\ drawn' \in [DOMAIN grants -> Nat] /\ revoked' \in [DOMAIN grants -> Nat]
      /\ expired' \in [DOMAIN grants -> Nat]
      /\ \A g \in DOMAIN grants : drawn'[g] + expired'[g] + revoked'[g] =
                                  drawn[g] + expired[g] + revoked[g] + cut[g]
  <2>1. \A g \in DOMAIN grants : revoked'[g] = revoked[g] + cut[g]
    BY <1>0 DEF RevokeGrant, TypeOK
  <2>2. revoked' \in [DOMAIN grants -> Nat]
    BY <1>0, <1>1, <2>1 DEF RevokeGrant, TypeOK
  <2> HIDE DEF cut
  <2> QED
    BY <1>0, <1>1, <2>1, <2>2 DEF RevokeGrant, TypeOK
<1>4. grants' \in [DOMAIN grants -> GrantType]
  BY <1>2, Zenon DEF RevokeGrant
<1> HIDE DEF cut
<1>5. /\ grants' \in Seq(GrantType) /\ DOMAIN grants' = DOMAIN grants
      /\ Conservation' /\ RevokedIsEmpty' /\ SourceRefUnique'
  BY <1>1, <1>2, <1>3, <1>4, BookingStep, Zenon
<1>6. TypeOK'
  BY <1>0, <1>3, <1>5, Zenon DEF RevokeGrant, TypeOK
<1> QED
  BY <1>5, <1>6, Zenon DEF IInv

\* Every operation of the ledger keeps the invariant.
LEMMA NextIInv == IInv /\ [Next]_vars => IInv'
<1> SUFFICES ASSUME IInv, [Next]_vars PROVE IInv'
  OBVIOUS
<1>1. ASSUME NEW b \in Buckets, NEW a \in Amounts, NEW d \in ValidDays,
             NEW ref \in Refs \cup {NoRef}, Grant(b, a, d, ref)
      PROVE  IInv'
  BY <1>1, GrantStep, Zenon
<1>2. ASSUME NEW q \in RequestIDs, RepeatDeduct(q) PROVE IInv'
  BY <1>2, Zenon DEF RepeatDeduct, IInv, TypeOK, Conservation, RevokedIsEmpty, SourceRefUnique
<1>3. ASSUME NEW q \in RequestIDs, NEW b \in Buckets, NEW a \in Amounts, TryDeduct(q, b, a)
      PROVE  IInv'
  BY <1>3, TryDeductStep, Zenon
<1>4. CASE RunExpiry
  BY <1>4, RunExpiryStep, Zenon
<1>5. ASSUME NEW g \in DOMAIN grants, RevokeGrant(g) PROVE IInv'
  BY <1>5, RevokeGrantStep, Zenon
<1>6. CASE Tick
  BY <1>6 DEF Tick, IInv, TypeOK, Conservation, RevokedIsEmpty, SourceRefUnique
<1>7. CASE UNCHANGED vars
  BY <1>7, Zenon DEF vars, IInv, TypeOK, Conservation, RevokedIsEmpty, SourceRefUnique
<1> QED
  BY <1>1, <1>2, <1>3, <1>4, <1>5, <1>6, <1>7, Zenon DEF Next

\* The invariant holds from the empty ledger on.
LEMMA InvariantHolds == Spec => []IInv
BY InitIInv, NextIInv, PTL DEF Spec

-----------------------------------------------------------------------------
\* The state of the ledger always has the declared types; no balance is negative.
THEOREM TypeCorrect == Spec => []TypeOK
BY InvariantHolds, PTL DEF IInv

\* No credit appears or vanishes, whatever the order of grants, deductions,
\* expiry runs and revocations, and however sort.Slice orders equal grants.
THEOREM CreditConserved == Spec => []Conservation
BY InvariantHolds, PTL DEF IInv

\* A revoked grant stays empty.
THEOREM RevokedStaysEmpty == Spec => []RevokedIsEmpty
BY InvariantHolds, PTL DEF IInv

\* A SourceRef is granted at most once per bucket.
THEOREM GrantIsIdempotent == Spec => []SourceRefUnique
BY InvariantHolds, PTL DEF IInv

\* Only a request that TryDeduct has seen was charged.
ChargedIsSeen == \A q \in RequestIDs : charged[q] # 0 => q \in seenDeduction

\* A request id is charged at most once, whatever is asked with it later.
THEOREM DeductIsIdempotent == Spec => ChargedOnce
<1>1. Init => ChargedIsSeen
  BY Zenon DEF Init, ChargedIsSeen
<1>2. ASSUME TypeOK, ChargedIsSeen, [Next]_vars
      PROVE  /\ ChargedIsSeen'
             /\ \A q \in RequestIDs : charged[q] # 0 => charged'[q] = charged[q]
  <2>1. ASSUME NEW q \in RequestIDs, NEW b \in Buckets, NEW a \in Amounts,
               TryDeduct(q, b, a)
        PROVE  \/ UNCHANGED <<charged, seenDeduction>>
               \/ /\ charged' = [charged EXCEPT ![q] = a]
                  /\ seenDeduction' = seenDeduction \cup {q}
                  /\ q \notin seenDeduction
    BY <2>1, Zenon DEF TryDeduct, Apply, Refuse, Seen
  <2>2. \/ UNCHANGED <<charged, seenDeduction>>
        \/ \E q \in RequestIDs, a \in Amounts :
              /\ charged' = [charged EXCEPT ![q] = a]
              /\ seenDeduction' = seenDeduction \cup {q}
              /\ q \notin seenDeduction
    BY <1>2, <2>1, Zenon DEF Next, vars, Grant, RepeatDeduct, RunExpiry, RevokeGrant, Tick
  <2> QED
    BY <1>2, <2>2, Zenon DEF ChargedIsSeen, TypeOK
<1>3. TypeOK /\ ChargedIsSeen /\ [Next]_vars =>
          [\A q \in RequestIDs : charged[q] # 0 => charged'[q] = charged[q]]_vars
  BY <1>2, Zenon
<1>4. TypeOK /\ ChargedIsSeen /\ [Next]_vars => ChargedIsSeen'
  BY <1>2, Zenon
<1> QED
  BY <1>1, <1>3, <1>4, TypeCorrect, PTL DEF Spec, ChargedOnce

-----------------------------------------------------------------------------
(* How TryDeduct's loop walks the pool.                                    *)

\* left is what is still to be found before each grant of the pool and after the last,
\* when the pool's n grants are looked at in the order of pos.
WalkedBy(pool, n, pos, left, a) ==
    /\ n \in Nat
    /\ left \in [1..(n + 1) -> Nat] /\ left[1] = a
    /\ \A g \in pool : pos[g] \in 1..n
    /\ \A g, h \in pool : pos[g] = pos[h] => g = h
    /\ \A i \in 1..n : \E g \in pool : pos[g] = i
    /\ \A g \in pool :
          /\ grants[g].remaining \in Nat
          /\ left[pos[g] + 1] = IF grants[g].remaining > left[pos[g]]
                                THEN 0 ELSE left[pos[g]] - grants[g].remaining

\* The loop of TryDeduct looks at each grant of the sorted pool once.
LEMMA WalkStep ==
    ASSUME TypeOK, NEW b, NEW a \in Nat, NEW pos \in SortOrders(Usable(b)),
           NEW left \in Walks(Usable(b), pos, a)
    PROVE  WalkedBy(Usable(b), Cardinality(Usable(b)), pos, left, a)
<1> DEFINE pool == Usable(b)
           n == Cardinality(pool)
<1>1. n \in Nat
  BY PoolFinite, Zenon
<1>2. pos \in Bijection(pool, 1..n)
  BY Zenon DEF SortOrders
<1>3. /\ \A g \in pool : pos[g] \in 1..n
      /\ \A g, h \in pool : pos[g] = pos[h] => g = h
      /\ \A i \in 1..n : \E g \in pool : pos[g] = i
  BY <1>2, Zenon DEF Bijection, Injection, Surjection, IsInjective
<1>4. left \in [1..(n + 1) -> 0..a] /\ left[1] = a
  BY Zenon DEF Walks
<1>5. left \in [1..(n + 1) -> Nat]
  BY <1>1, <1>4
<1>6. \A g \in pool : left[pos[g] + 1] = IF grants[g].remaining > left[pos[g]]
                                         THEN 0 ELSE left[pos[g]] - grants[g].remaining
  BY Zenon DEF Walks
<1>7. \A g \in pool : grants[g].remaining \in Nat
  BY GrantsTyped, PoolFinite, Zenon
<1> QED
  BY <1>1, <1>3, <1>4, <1>5, <1>6, <1>7, Zenon DEF WalkedBy

\* Once the loop has found the whole amount it takes nothing more.
LEMMA WalkStays ==
    ASSUME NEW pool, NEW n, NEW pos, NEW left, NEW a, WalkedBy(pool, n, pos, left, a),
           NEW i \in 1..(n + 1), left[i] = 0
    PROVE  \A j \in i..(n + 1) : left[j] = 0
<1> DEFINE X == {k \in Nat : i + k \in 1..(n + 1) => left[i + k] = 0}
<1>1. /\ n \in Nat /\ left \in [1..(n + 1) -> Nat]
      /\ \A k \in 1..n : \E g \in pool : pos[g] = k
      /\ \A g \in pool : left[pos[g] + 1] = IF grants[g].remaining > left[pos[g]]
                                            THEN 0 ELSE left[pos[g]] - grants[g].remaining
      /\ \A g \in pool : grants[g].remaining \in Nat
  BY Zenon DEF WalkedBy
<1>2. 0 \in X
  BY <1>1
<1>3. ASSUME NEW k \in Nat, k \in X PROVE k + 1 \in X
  <2> SUFFICES ASSUME i + (k + 1) \in 1..(n + 1) PROVE left[i + (k + 1)] = 0
    OBVIOUS
  <2>1. i \in Nat /\ i + k \in 1..n /\ i + k \in 1..(n + 1) /\ i + (k + 1) = (i + k) + 1
    BY <1>1
  <2>2. left[i + k] = 0
    BY <1>3, <2>1
  <2>3. PICK g \in pool : pos[g] = i + k
    BY <1>1, <2>1, Zenon
  <2>4. left[(i + k) + 1] = IF grants[g].remaining > 0 THEN 0 ELSE 0 - grants[g].remaining
    BY <1>1, <2>2, <2>3, Zenon
  <2> QED
    BY <1>1, <2>1, <2>4
<1>4. \A k \in Nat : k \in X
  <2> HIDE DEF X
  <2> QED
    BY <1>2, <1>3, NatSetInduction, Zenon
<1> SUFFICES ASSUME NEW j \in i..(n + 1) PROVE left[j] = 0
  OBVIOUS
<1>5. j - i \in Nat /\ i + (j - i) = j /\ j \in 1..(n + 1)
  BY <1>1
<1> QED
  BY <1>4, <1>5

\* A grant that keeps something leaves nothing to be found for the grants behind it.
LEMMA WalkFIFO ==
    ASSUME NEW pool, NEW n, NEW pos, NEW left, NEW a, WalkedBy(pool, n, pos, left, a),
           NEW g \in pool, NEW h \in pool, pos[g] < pos[h], left[pos[h]] # left[pos[h] + 1]
    PROVE  left[pos[g]] - left[pos[g] + 1] = grants[g].remaining
<1>1. /\ n \in Nat /\ left \in [1..(n + 1) -> Nat]
      /\ pos[g] \in 1..n /\ pos[h] \in 1..n
      /\ grants[g].remaining \in Nat
      /\ left[pos[g] + 1] = IF grants[g].remaining > left[pos[g]]
                            THEN 0 ELSE left[pos[g]] - grants[g].remaining
  BY Zenon DEF WalkedBy
<1>2. /\ pos[g] + 1 \in 1..(n + 1) /\ pos[h] \in (pos[g] + 1)..(n + 1)
      /\ pos[h] + 1 \in (pos[g] + 1)..(n + 1) /\ pos[g] \in 1..(n + 1)
  <2>1. n \in Nat
    BY <1>1
  <2>2. \A x, y \in 1..n : x < y =>
            /\ x + 1 \in 1..(n + 1) /\ y \in (x + 1)..(n + 1)
            /\ y + 1 \in (x + 1)..(n + 1) /\ x \in 1..(n + 1)
    BY ONLY <2>1
  <2> QED
    BY <1>1, <2>2, Zenon
<1>3. left[pos[g] + 1] # 0
  BY <1>2, WalkStays
<1>4. left[pos[g]] \in Nat
  BY <1>1, <1>2, Zenon
<1> QED
  BY <1>1, <1>3, <1>4

\* FIFO by expiry: TryDeduct draws on a grant only when the grants of its bucket that
\* expire sooner end up empty.
LEMMA DeductFIFO ==
    ASSUME IInv, NEW q \in RequestIDs, NEW b \in Buckets, NEW a \in Amounts,
           TryDeduct(q, b, a), NEW d \in deductions' \ deductions
    PROVE  /\ grants[d.grant].bucket = d.bucket
           /\ ~Expired(d.grant) /\ ~grants[d.grant].revoked
           /\ \A g \in Counted(d.bucket) :
                 ExpiresBefore(g, d.grant) => grants'[g].remaining = 0
<1> DEFINE pool == Usable(b)
           n == Cardinality(pool)
<1>0. a \in Nat /\ TypeOK
  BY LedgerAssumption, Zenon DEF LedgerAssumption, IInv
<1>1. PICK pos \in SortOrders(pool) : \E left \in Walks(pool, pos, a) :
          Apply(q, b, a, pool, Takes(pool, pos, left)) \/ Refuse(q)
  BY Zenon DEF TryDeduct
<1>2. PICK left \in Walks(pool, pos, a) :
          Apply(q, b, a, pool, Takes(pool, pos, left)) \/ Refuse(q)
  BY <1>1, Zenon
<1> DEFINE take == Takes(pool, pos, left)
<1>3. Apply(q, b, a, pool, take)
  BY <1>2, Zenon DEF Refuse
<1>4. WalkedBy(pool, n, pos, left, a)
  BY <1>0, WalkStep, Zenon
<1>5. \A g \in pool : /\ g \in DOMAIN grants /\ take[g] = left[pos[g]] - left[pos[g] + 1]
                      /\ grants[g] \in GrantType /\ grants[g].remaining \in Nat
  BY <1>0, PoolFinite, GrantsTyped, Zenon DEF Takes
<1>6. PICK h \in pool : d = [req |-> q, grant |-> h, bucket |-> b, amount |-> take[h]] /\ take[h] > 0
  BY <1>3, Zenon DEF Apply, Rows
<1>7. d.grant = h /\ d.bucket = b
  BY <1>6
<1>8. grants[h].bucket = b /\ ~Expired(h) /\ grants[h].remaining > 0
  BY <1>6, Zenon DEF Usable
<1>9. ~grants[h].revoked
  <2>1. grants[h].revoked => grants[h].remaining = 0
    BY <1>5, <1>6, Zenon DEF IInv, RevokedIsEmpty
  <2> QED
    BY <1>8, <2>1
<1>10. ASSUME NEW g \in Counted(b), ExpiresBefore(g, h) PROVE grants'[g].remaining = 0
  <2>1. g \in pool
    BY Zenon DEF Usable, Counted
  <2>2. grants[g].expires \in Nat /\ grants[h].expires \in Nat
    BY <1>5, <1>6, <2>1, Zenon DEF GrantType
  <2>3. Precedes(g, h)
    BY <1>10, <2>2 DEF Precedes, ExpiresBefore, Never
  <2>4. pos[g] < pos[h]
    BY <1>6, <2>1, <2>3, Zenon DEF SortOrders
  <2>5. left[pos[h]] # left[pos[h] + 1]
    <3>1. left[pos[h]] \in Nat /\ left[pos[h] + 1] \in Nat
      <4>1. left \in [1..(n + 1) -> Nat] /\ n \in Nat /\ pos[h] \in 1..n
        BY <1>4, <1>6, Zenon DEF WalkedBy
      <4> HIDE DEF n
      <4> QED
        BY <4>1
    <3>2. left[pos[h]] - left[pos[h] + 1] > 0
      BY <1>5, <1>6, Zenon
    <3> QED
      BY <3>1, <3>2
  <2>6. take[g] = grants[g].remaining
    <3>1. left[pos[g]] - left[pos[g] + 1] = grants[g].remaining
      BY <1>4, <1>6, <2>1, <2>4, <2>5, WalkFIFO
    <3> QED
      BY <1>5, <2>1, <3>1, Zenon
  <2>7. grants'[g] = [grants[g] EXCEPT !.remaining = @ - take[g]]
    BY <1>3, <1>5, <2>1, Zenon DEF Apply
  <2>8. grants'[g].remaining = grants[g].remaining - take[g]
    BY <1>5, <2>1, <2>7, Zenon DEF GrantType
  <2>9. grants[g].remaining \in Nat
    BY <1>5, <2>1
  <2> HIDE DEF take
  <2> QED
    BY <2>6, <2>8, <2>9
<1> HIDE DEF take, pool
<1> QED
  BY <1>7, <1>8, <1>9, <1>10, Zenon

-----------------------------------------------------------------------------
(* What TryDeduct finds, and what the balance reports.                     *)

\* What the grants gs have left in all, over a set of them, as Balance adds it up.
RemainingOf(gs, S) == MapThenSumSet(LAMBDA g : gs[g].remaining, S)

\* Balance.Total is a sum of what the grants have left, in any order.
LEMMA RemainingAdds ==
    ASSUME NEW S, IsFiniteSet(S), NEW gs, NEW f,
           \A y \in S : f[y] \in Int /\ f[y] = gs[y].remaining
    PROVE  RemainingOf(gs, S) = SumOver(f, S)
<1> DEFINE F(it) == it = [s \in SUBSET S |->
                IF s = {} THEN 0 ELSE gs[PickOne(s)].remaining + it[s \ {PickOne(s)}]]
<1>2. \A s \in SUBSET S : s # {} => f[PickOne(s)] = gs[PickOne(s)].remaining
  BY PickIn, Zenon
<1>3. ASSUME NEW it PROVE F(it) <=> FoldsUp(it, f, S)
  BY <1>2, Zenon DEF FoldsUp
<1>4. PICK h : AddsUp(h, f, S)
  BY AddsExists, Zenon
<1>5. FoldsUp(h, f, S)
  BY <1>4, AddsFolds, Zenon
<1>6. F(CHOOSE it : F(it))
  BY <1>3, <1>5, Zenon
<1>7. (CHOOSE it : F(it)) = h
  BY <1>3, <1>4, <1>6, FoldsAgree, Zenon
<1>8. RemainingOf(gs, S) = (CHOOSE it : F(it))[S]
  BY Zenon DEF RemainingOf, MapThenSumSet, MapThenFoldSet, PickOne
<1> QED
  BY <1>4, <1>7, <1>8, SumIsAdded, Zenon DEF SumOver

\* What the walk takes, and what its grants have left.
Accounts(pool, pos, left, rem, take) ==
    \A g \in pool : /\ rem[g] = grants[g].remaining
                    /\ take[g] = left[pos[g]] - left[pos[g] + 1]

\* After i grants the loop has taken what they had left, or the whole amount.
Found(pool, pos, left, a, rem, take, i) ==
    LET S == {g \in pool : pos[g] <= i}
    IN  /\ SumOver(rem, S) \in Nat
        /\ SumOver(take, S) = a - left[i + 1]
        /\ left[i + 1] = IF SumOver(rem, S) >= a THEN 0 ELSE a - SumOver(rem, S)

\* One more grant of the pool is looked at.
LEMMA FoundStep ==
    ASSUME NEW pool, IsFiniteSet(pool), NEW n, NEW pos, NEW left, NEW a \in Nat,
           WalkedBy(pool, n, pos, left, a), NEW rem, NEW take,
           Accounts(pool, pos, left, rem, take),
           NEW i \in 0..n, i # n, Found(pool, pos, left, a, rem, take, i)
    PROVE  Found(pool, pos, left, a, rem, take, i + 1)
<1> DEFINE S(k) == {g \in pool : pos[g] <= k}
<1>1. n \in Nat /\ left \in [1..(n + 1) -> Nat] /\ \A g \in pool : pos[g] \in 1..n
  BY Zenon DEF WalkedBy
<1>2. i \in Nat /\ i + 1 \in 1..n /\ i + 1 \in 1..(n + 1) /\ (i + 1) + 1 \in 1..(n + 1)
  BY <1>1
<1>3. PICK g \in pool : pos[g] = i + 1
  BY <1>2, Zenon DEF WalkedBy
<1>4. /\ S(i + 1) = S(i) \cup {g} /\ g \notin S(i)
  <2>1. \A h \in pool : pos[h] = i + 1 => h = g
    BY <1>3, Zenon DEF WalkedBy
  <2>2. \A h \in pool : pos[h] <= i + 1 <=> (pos[h] <= i \/ pos[h] = i + 1)
    BY <1>1, <1>2
  <2>3. ~(pos[g] <= i)
    BY <1>2, <1>3
  <2> QED
    BY <1>3, <2>1, <2>2, <2>3, Zenon
<1>5. ASSUME NEW h \in pool
      PROVE  rem[h] \in Nat /\ take[h] \in Int
  <2>1. grants[h].remaining \in Nat /\ pos[h] \in 1..n
    BY Zenon DEF WalkedBy
  <2>2. left[pos[h]] \in Nat /\ left[pos[h] + 1] \in Nat
    BY <1>1, <2>1
  <2>3. rem[h] = grants[h].remaining /\ take[h] = left[pos[h]] - left[pos[h] + 1]
    BY Zenon DEF Accounts
  <2> QED
    BY <2>1, <2>2, <2>3
<1>6. IsFiniteSet(S(i)) /\ S(i) \subseteq pool
  BY FS_Subset
<1>7. /\ SumOver(rem, S(i + 1)) = rem[g] + SumOver(rem, S(i))
      /\ SumOver(take, S(i + 1)) = take[g] + SumOver(take, S(i))
  <2>1. \A h \in S(i) : rem[h] \in Int /\ take[h] \in Int
    BY <1>5
  <2>2. rem[g] \in Int /\ take[g] \in Int
    BY <1>3, <1>5
  <2> HIDE DEF S
  <2>3. /\ SumOver(rem, S(i) \cup {g}) = rem[g] + SumOver(rem, S(i))
        /\ SumOver(take, S(i) \cup {g}) = take[g] + SumOver(take, S(i))
    BY <1>4, <1>6, <2>1, <2>2, SumInsert
  <2> QED
    BY <1>4, <2>3, Zenon
<1>8. /\ SumOver(rem, S(i)) \in Nat
      /\ SumOver(take, S(i)) = a - left[i + 1]
      /\ left[i + 1] = IF SumOver(rem, S(i)) >= a THEN 0 ELSE a - SumOver(rem, S(i))
  BY Zenon DEF Found
<1>9. /\ rem[g] \in Nat /\ take[g] = left[i + 1] - left[(i + 1) + 1]
      /\ left[(i + 1) + 1] = IF rem[g] > left[i + 1] THEN 0 ELSE left[i + 1] - rem[g]
  <2>1. rem[g] = grants[g].remaining /\ take[g] = left[pos[g]] - left[pos[g] + 1]
    BY Zenon DEF Accounts
  <2>2. left[pos[g] + 1] = IF grants[g].remaining > left[pos[g]]
                           THEN 0 ELSE left[pos[g]] - grants[g].remaining
    BY Zenon DEF WalkedBy
  <2> QED
    BY <1>3, <1>5, <2>1, <2>2, Zenon
<1>10. left[i + 1] \in Nat /\ left[(i + 1) + 1] \in Nat
  BY <1>1, <1>2, Zenon
<1>11. \A r, t, s, u, l, m, x, y \in Int :
          /\ r >= 0 /\ s >= 0 /\ x = r + s /\ y = t + u
          /\ u = a - l /\ l = (IF s >= a THEN 0 ELSE a - s)
          /\ t = l - m /\ m = (IF r > l THEN 0 ELSE l - r)
          => x >= 0 /\ y = a - m /\ m = (IF x >= a THEN 0 ELSE a - x)
  OBVIOUS
<1>12. SumOver(take, S(i)) \in Int /\ SumOver(rem, S(i)) \in Int /\ rem[g] \in Int /\ take[g] \in Int
  BY <1>8, <1>9, <1>10
<1> HIDE DEF S
<1>13. /\ SumOver(rem, S(i + 1)) \in Nat
       /\ SumOver(take, S(i + 1)) = a - left[(i + 1) + 1]
       /\ left[(i + 1) + 1] = IF SumOver(rem, S(i + 1)) >= a THEN 0 ELSE a - SumOver(rem, S(i + 1))
  BY <1>7, <1>8, <1>9, <1>10, <1>11, <1>12
<1> QED
  BY <1>13, Zenon DEF Found, S

\* The loop takes what is asked for exactly when the pool has it.
LEMMA FoundAll ==
    ASSUME NEW pool, IsFiniteSet(pool), NEW n, NEW pos, NEW left, NEW a \in Nat,
           WalkedBy(pool, n, pos, left, a), NEW rem, NEW take,
           Accounts(pool, pos, left, rem, take)
    PROVE  /\ SumOver(rem, pool) \in Nat
           /\ SumOver(take, pool) = a - left[n + 1]
           /\ left[n + 1] = IF SumOver(rem, pool) >= a THEN 0 ELSE a - SumOver(rem, pool)
<1> DEFINE X == {i \in Nat : i \in 0..n => Found(pool, pos, left, a, rem, take, i)}
<1>1. n \in Nat /\ left[1] = a /\ \A g \in pool : pos[g] \in 1..n
  BY Zenon DEF WalkedBy
<1>2. 0 \in X
  <2>1. {g \in pool : pos[g] <= 0} = {}
    BY <1>1
  <2>2. SumOver(rem, {}) = 0 /\ SumOver(take, {}) = 0
    BY SumEmpty, Zenon
  <2>3. /\ 0 \in Nat /\ 0 = a - left[0 + 1]
        /\ left[0 + 1] = IF 0 >= a THEN 0 ELSE a - 0
    BY <1>1
  <2>4. Found(pool, pos, left, a, rem, take, 0)
    BY <2>1, <2>2, <2>3, Zenon DEF Found
  <2> QED
    BY <2>4
<1>3. ASSUME NEW i \in Nat, i \in X PROVE i + 1 \in X
  <2> SUFFICES ASSUME i + 1 \in 0..n PROVE Found(pool, pos, left, a, rem, take, i + 1)
    OBVIOUS
  <2>1. i \in 0..n /\ i # n
    BY <1>1
  <2> QED
    BY <1>3, <2>1, FoundStep
<1>4. n \in X
  <2> HIDE DEF X
  <2> QED
    BY <1>1, <1>2, <1>3, NatSetInduction
<1>5. Found(pool, pos, left, a, rem, take, n)
  BY <1>1, <1>4
<1>6. {g \in pool : pos[g] <= n} = pool
  BY <1>1
<1> QED
  BY <1>5, <1>6, Zenon DEF Found

\* What each grant has left.
Remaining == [g \in DOMAIN grants |-> grants[g].remaining]

BalanceIsSum == \A b : Balance(b) = SumOver(Remaining, Counted(b))

\* The balance adds up what the counted grants have left.
LEMMA BalanceAdds == TypeOK => BalanceIsSum
<1> SUFFICES ASSUME TypeOK, NEW b PROVE Balance(b) = SumOver(Remaining, Counted(b))
  BY Zenon DEF BalanceIsSum
<1>1. IsFiniteSet(Counted(b)) /\ Counted(b) \subseteq DOMAIN grants
  <2>1. Counted(b) = Usable(b)
    BY Zenon DEF Counted, Usable
  <2> QED
    BY <2>1, PoolFinite, Zenon
<1>2. \A g \in Counted(b) : Remaining[g] \in Int /\ Remaining[g] = grants[g].remaining
  <2>1. \A x \in Nat : x \in Int
    OBVIOUS
  <2> QED
    BY <1>1, <2>1, GrantsTyped, Zenon DEF Remaining
<1>3. Balance(b) = RemainingOf(grants, Counted(b))
  BY Zenon DEF Balance, RemainingOf
<1> QED
  BY ONLY <1>1, <1>2, <1>3, RemainingAdds

\* What a deduction leaves of the balance: the balance less what was taken.
LEMMA BalanceDrops ==
    ASSUME TypeOK, TypeOK', NEW b, NEW take \in [DOMAIN grants -> Nat],
           \A g \in DOMAIN grants : take[g] \in 0..grants[g].remaining,
           \A g \in DOMAIN grants : g \notin Usable(b) => take[g] = 0,
           grants' = [g \in DOMAIN grants |-> [grants[g] EXCEPT !.remaining = @ - take[g]]],
           clock' = clock
    PROVE  /\ Balance(b) = SumOver(Remaining, Usable(b))
           /\ Balance(b)' = SumOver(Remaining, Usable(b)) - SumOver(take, Usable(b))
<1> DEFINE rem == Remaining
           now == [g \in DOMAIN grants |-> grants'[g].remaining]
           pool == Usable(b)
           kept == {g \in pool : now[g] > 0}
<1>1. IsFiniteSet(pool) /\ pool \subseteq DOMAIN grants
  BY PoolFinite, Zenon
<1>2. ASSUME NEW g \in DOMAIN grants
      PROVE  /\ rem[g] = grants[g].remaining /\ rem[g] \in Nat
             /\ now[g] = grants'[g].remaining /\ now[g] \in Nat /\ rem[g] = now[g] + take[g]
             /\ grants'[g].bucket = grants[g].bucket /\ grants'[g].expires = grants[g].expires
  <2>1. grants[g] \in GrantType /\ grants[g].remaining \in Nat
    BY GrantsTyped, Zenon
  <2>2. grants'[g] = [grants[g] EXCEPT !.remaining = @ - take[g]]
    BY Zenon
  <2>3. /\ grants'[g].remaining = grants[g].remaining - take[g]
        /\ grants'[g].bucket = grants[g].bucket /\ grants'[g].expires = grants[g].expires
    BY <2>1, <2>2, Zenon DEF GrantType
  <2>4. take[g] \in 0..grants[g].remaining
    BY Zenon
  <2>5. now[g] = grants'[g].remaining /\ rem[g] = grants[g].remaining
    BY Zenon DEF Remaining
  <2> HIDE DEF rem, now
  <2> QED
    BY <2>1, <2>3, <2>4, <2>5
<1>3. DOMAIN grants' = DOMAIN grants
  BY Zenon
<1>4. Counted(b) = pool
  BY Zenon DEF Counted, Usable
<1>5. Counted(b)' = kept
  <2> SUFFICES ASSUME NEW g \in DOMAIN grants
               PROVE  (/\ grants'[g].bucket = b /\ grants'[g].remaining > 0
                       /\ ~(grants'[g].expires # Never /\ grants'[g].expires < clock'))
                          <=> g \in kept
    BY <1>1, <1>3, Zenon DEF Counted, Expired
  <2>1. CASE g \in pool
    BY <1>2, <2>1, Zenon DEF Usable, Expired
  <2>2. CASE g \notin pool
    <3>1. grants'[g].remaining = grants[g].remaining
      <4>1. take[g] = 0
        BY <2>2, Zenon
      <4> HIDE DEF rem, now, pool
      <4> QED
        BY <1>2, <4>1
    <3> QED
      BY <1>2, <2>2, <3>1, Zenon DEF Usable, Expired
  <2> QED
    BY <2>1, <2>2, Zenon
<1>6. IsFiniteSet(kept) /\ IsFiniteSet(pool \ kept) /\ kept \cup (pool \ kept) = pool
      /\ kept \cap (pool \ kept) = {} /\ kept \subseteq pool
  BY <1>1, FS_Subset
<1> HIDE DEF rem, now
<1>7. /\ \A g \in pool : rem[g] \in Int /\ rem[g] = grants[g].remaining
      /\ \A g \in pool : now[g] \in Int /\ take[g] \in Int /\ rem[g] = now[g] + take[g]
      /\ \A g \in kept : now[g] \in Int /\ now[g] = grants'[g].remaining
  <2>1. \A x \in Nat : x \in Int
    OBVIOUS
  <2>2. take \in [DOMAIN grants -> Nat]
    OBVIOUS
  <2> HIDE DEF kept, pool
  <2> QED
    BY <1>1, <1>2, <1>6, <2>1, <2>2, Zenon
<1>8. \A g \in pool \ kept : now[g] = 0
  <2>1. \A g \in pool \ kept : ~(now[g] > 0) /\ now[g] \in Nat
    BY <1>1, <1>2, Zenon
  <2>2. \A x \in Nat : ~(x > 0) => x = 0
    OBVIOUS
  <2> QED
    BY <2>1, <2>2, Zenon
<1> HIDE DEF kept, pool
<1>9. Balance(b) = SumOver(rem, pool)
  BY <1>4, BalanceAdds, Zenon DEF rem, BalanceIsSum
<1>10. Balance(b)' = SumOver(now, kept)
  <2>0. BalanceIsSum'
    BY BalanceAdds, PTL
  <2>1. \A c : Balance(c)' = SumOver(Remaining', Counted(c)')
    BY <2>0, Zenon DEF BalanceIsSum
  <2>2. Remaining' = now
    BY <1>3, Zenon DEF Remaining, now
  <2> QED
    BY <1>5, <2>1, <2>2, Zenon
<1>11. SumOver(now, pool) = SumOver(now, kept)
  <2>1. SumOver(now, pool \ kept) = 0
    BY <1>6, <1>8, SumZero, Zenon
  <2>2. \A g \in kept \cup (pool \ kept) : now[g] \in Int
    BY <1>6, <1>7, Zenon
  <2>3. SumOver(now, kept \cup (pool \ kept)) = SumOver(now, kept) + SumOver(now, pool \ kept)
    BY <1>6, <2>2, SumUnion
  <2>4. SumOver(now, kept) \in Int
    BY <1>6, <1>7, SumInt
  <2>5. SumOver(now, pool) = SumOver(now, kept) + SumOver(now, pool \ kept)
    BY <1>6, <2>3, Zenon
  <2> QED
    BY ONLY <2>1, <2>4, <2>5
<1>12. SumOver(rem, pool) = SumOver(now, pool) + SumOver(take, pool)
  BY <1>1, <1>7, SumPlus
<1>13. SumOver(now, pool) \in Int /\ SumOver(take, pool) \in Int
  BY <1>1, <1>7, SumInt
<1>14. Balance(b)' = SumOver(rem, pool) - SumOver(take, pool)
  BY <1>10, <1>11, <1>12, <1>13
<1> QED
  BY <1>9, <1>14, Zenon DEF rem, pool

\* A request that TryDeduct has not seen is answered by the balance, and a deduction
\* lowers the balance by the amount.
LEMMA DeductAnswers ==
    ASSUME IInv, IInv', NEW q \in RequestIDs, NEW b \in Buckets, NEW a \in Amounts,
           TryDeduct(q, b, a)
    PROVE  /\ (answer'[q] = "ok") <=> (Balance(b) >= a)
           /\ answer'[q] = "ok" => Balance(b)' = Balance(b) - a
<1> DEFINE pool == Usable(b)
           n == Cardinality(pool)
<1>0. a \in Nat /\ TypeOK /\ TypeOK'
  BY LedgerAssumption, Zenon DEF LedgerAssumption, IInv
<1>1. PICK pos \in SortOrders(pool) : \E left \in Walks(pool, pos, a) :
          IF left[n + 1] = 0 THEN Apply(q, b, a, pool, Takes(pool, pos, left)) ELSE Refuse(q)
  BY Zenon DEF TryDeduct
<1>2. PICK left \in Walks(pool, pos, a) :
          IF left[n + 1] = 0 THEN Apply(q, b, a, pool, Takes(pool, pos, left)) ELSE Refuse(q)
  BY <1>1, Zenon
<1> DEFINE take == Takes(pool, pos, left)
<1>3. WalkedBy(pool, n, pos, left, a)
  BY <1>0, WalkStep, Zenon
<1>4. IsFiniteSet(pool) /\ pool \subseteq DOMAIN grants
  BY <1>0, PoolFinite, Zenon
<1>5. Accounts(pool, pos, left, Remaining, take)
  BY <1>4, Zenon DEF Accounts, Remaining, Takes
<1>6. /\ SumOver(Remaining, pool) \in Nat
      /\ SumOver(take, pool) = a - left[n + 1]
      /\ left[n + 1] = IF SumOver(Remaining, pool) >= a THEN 0 ELSE a - SumOver(Remaining, pool)
  <2> HIDE DEF pool, n, take
  <2> QED
    BY <1>0, <1>3, <1>4, <1>5, FoundAll
<1>7. Balance(b) = SumOver(Remaining, pool)
  <2>1. Counted(b) = pool
    BY Zenon DEF Counted, Usable
  <2> QED
    BY <1>0, <2>1, BalanceAdds, Zenon DEF BalanceIsSum
<1>8. answer'[q] = IF left[n + 1] = 0 THEN "ok" ELSE "insufficient"
  BY <1>0, <1>2, Zenon DEF Apply, Refuse, TypeOK
<1>9. ASSUME left[n + 1] = 0 PROVE Balance(b)' = Balance(b) - a
  <2>1. Apply(q, b, a, pool, take)
    BY <1>2, <1>9, Zenon
  <2>2. \A g \in DOMAIN grants : /\ take[g] \in 0..grants[g].remaining
                                 /\ g \notin pool => take[g] = 0
    BY <1>0, TakeBounded, Zenon
  <2>3. take \in [DOMAIN grants -> Nat]
    <3>1. \A g \in DOMAIN grants : take[g] \in Nat
      BY <1>0, <2>2, GrantsTyped
    <3> QED
      BY <3>1, Zenon DEF Takes
  <2>4. /\ grants' = [g \in DOMAIN grants |-> [grants[g] EXCEPT !.remaining = @ - take[g]]]
        /\ clock' = clock
    BY <2>1, Zenon DEF Apply, TryDeduct
  <2> HIDE DEF take
  <2>5. Balance(b)' = SumOver(Remaining, pool) - SumOver(take, pool)
    BY <1>0, <2>2, <2>3, <2>4, BalanceDrops, Zenon
  <2>6. SumOver(take, pool) = a
    <3> HIDE DEF pool, n
    <3> QED
      BY <1>0, <1>6, <1>9
  <2> QED
    BY <1>7, <2>5, <2>6, Zenon
<1>10. (left[n + 1] = 0) <=> (SumOver(Remaining, pool) >= a)
  <2> HIDE DEF pool, n, take
  <2> QED
    BY <1>0, <1>6
<1> HIDE DEF pool, n, take
<1>11. (answer'[q] = "ok") <=> (left[n + 1] = 0)
  BY <1>8
<1> QED
  BY <1>7, <1>9, <1>10, <1>11, Zenon

\* Deductions are FIFO by expiry: credit that expires sooner is used up first, however
\* sort.Slice orders grants that compare equal.
THEOREM DeductionsAreFIFO == Spec => DrawsFIFO
<1>1. ASSUME IInv, [Next]_vars, NEW d \in deductions' \ deductions
      PROVE  /\ grants[d.grant].bucket = d.bucket
             /\ ~Expired(d.grant) /\ ~grants[d.grant].revoked
             /\ \A g \in Counted(d.bucket) :
                   ExpiresBefore(g, d.grant) => grants'[g].remaining = 0
  <2>1. \E q \in RequestIDs, b \in Buckets, a \in Amounts : TryDeduct(q, b, a)
    BY <1>1, Zenon DEF Next, vars, Grant, RepeatDeduct, RunExpiry, RevokeGrant, Tick
  <2> QED
    BY <1>1, <2>1, DeductFIFO, Zenon
<1>2. IInv /\ [Next]_vars =>
          [\A d \in deductions' \ deductions :
             /\ grants[d.grant].bucket = d.bucket
             /\ ~Expired(d.grant) /\ ~grants[d.grant].revoked
             /\ \A g \in Counted(d.bucket) :
                   ExpiresBefore(g, d.grant) => grants'[g].remaining = 0]_vars
  BY <1>1, Zenon
<1> QED
  BY <1>2, InvariantHolds, PTL DEF Spec, DrawsFIFO

\* TryDeduct succeeds on an unseen request exactly when the balance that Balance reports
\* covers it, and then lowers that balance by the amount.
THEOREM AnswersMatchBalance == Spec => AnswersByBalance
<1>1. IInv /\ IInv' =>
          [\A q \in RequestIDs, b \in Buckets, a \in Amounts :
             q \notin seenDeduction /\ TryDeduct(q, b, a) =>
                 /\ (answer'[q] = "ok") <=> (Balance(b) >= a)
                 /\ answer'[q] = "ok" => Balance(b)' = Balance(b) - a]_vars
  BY DeductAnswers, Zenon
<1> QED
  BY <1>1, InvariantHolds, PTL DEF Spec, AnswersByBalance

-----------------------------------------------------------------------------
(* What the usage rows and the meter events add up to.                     *)

\* The quantities of a set of rows.
Counts(rows) == IsFiniteSet(rows) /\ \A e \in rows : e.quantity \in Nat

\* SUM(quantity) adds the rows up in any order.
LEMMA TotalAdds ==
    ASSUME NEW S, IsFiniteSet(S), NEW f, \A y \in S : f[y] \in Int /\ f[y] = y.quantity
    PROVE  Total(S) = SumOver(f, S)
<1> DEFINE F(it) == it = [s \in SUBSET S |->
                IF s = {} THEN 0 ELSE PickOne(s).quantity + it[s \ {PickOne(s)}]]
<1>2. \A s \in SUBSET S : s # {} => f[PickOne(s)] = PickOne(s).quantity
  BY PickIn, Zenon
<1>3. ASSUME NEW it PROVE F(it) <=> FoldsUp(it, f, S)
  BY <1>2, Zenon DEF FoldsUp
<1>4. PICK h : AddsUp(h, f, S)
  BY AddsExists, Zenon
<1>5. FoldsUp(h, f, S)
  BY <1>4, AddsFolds, Zenon
<1>6. F(CHOOSE it : F(it))
  BY <1>3, <1>5, Zenon
<1>7. (CHOOSE it : F(it)) = h
  BY <1>3, <1>4, <1>6, FoldsAgree, Zenon
<1>8. Total(S) = (CHOOSE it : F(it))[S]
  BY Zenon DEF Total, MapThenSumSet, MapThenFoldSet, PickOne
<1> QED
  BY <1>4, <1>7, <1>8, SumIsAdded, Zenon DEF SumOver

\* More rows never add up to less.
LEMMA TotalGrows ==
    ASSUME NEW S, Counts(S), NEW R, R \subseteq S
    PROVE  Total(R) \in Nat /\ Total(S) \in Nat /\ Total(R) <= Total(S)
<1> DEFINE f == [e \in S |-> e.quantity]
           Q == S \ R
<1>1. /\ IsFiniteSet(S) /\ IsFiniteSet(R) /\ IsFiniteSet(Q)
      /\ R \cap Q = {} /\ R \cup Q = S
  BY FS_Subset DEF Counts
<1>2. \A e \in S : f[e] \in Nat /\ f[e] \in Int /\ f[e] = e.quantity
  BY DEF Counts
<1> HIDE DEF f, Q
<1>3. Total(S) = SumOver(f, S) /\ Total(R) = SumOver(f, R)
  <2>1. Total(S) = SumOver(f, S)
    BY ONLY <1>1, <1>2, TotalAdds
  <2>2. \A e \in R : f[e] \in Int /\ f[e] = e.quantity
    BY <1>2, Zenon
  <2>3. Total(R) = SumOver(f, R)
    BY ONLY <1>1, <2>2, TotalAdds
  <2> QED
    BY <2>1, <2>3, Zenon
<1>4. SumOver(f, R) \in Nat /\ SumOver(f, Q) \in Nat
  <2>1. (\A e \in R : f[e] \in Nat) /\ (\A e \in Q : f[e] \in Nat)
    BY <1>1, <1>2
  <2> QED
    BY <1>1, <2>1, SumNat
<1>5. SumOver(f, S) = SumOver(f, R) + SumOver(f, Q)
  <2>1. \A e \in R \cup Q : f[e] \in Int
    BY <1>1, <1>2, Zenon
  <2>2. SumOver(f, R \cup Q) = SumOver(f, R) + SumOver(f, Q)
    BY <1>1, <2>1, SumUnion
  <2> QED
    BY <1>1, <2>2, Zenon
<1> QED
  BY <1>3, <1>4, <1>5

\* A subject without usage has used nothing.
LEMMA TotalEmpty == Total({}) = 0
<1> DEFINE f == [e \in {} |-> 0]
<1>1. IsFiniteSet({}) /\ \A e \in {} : f[e] \in Int /\ f[e] = e.quantity
  BY FS_EmptySet, Zenon
<1> HIDE DEF f
<1>2. Total({}) = SumOver(f, {})
  BY <1>1, TotalAdds
<1> QED
  BY <1>2, SumEmpty

\* The rows of one subject and hour.
LEMMA InRows ==
    ASSUME NEW S, Counts(S), NEW R, R \subseteq S, NEW s, NEW h
    PROVE  /\ Counts(In(S, s, h)) /\ In(R, s, h) \subseteq In(S, s, h)
           /\ Total(In(R, s, h)) \in Nat /\ Total(In(S, s, h)) \in Nat
           /\ Total(In(R, s, h)) <= Total(In(S, s, h))
<1>1. Counts(In(S, s, h))
  <2>1. In(S, s, h) \subseteq S
    BY DEF In
  <2>2. IsFiniteSet(In(S, s, h))
    BY <2>1, FS_Subset, Zenon DEF Counts
  <2> QED
    BY <2>1, <2>2, Zenon DEF Counts
<1>2. In(R, s, h) \subseteq In(S, s, h)
  BY DEF In
<1> QED
  BY <1>1, <1>2, TotalGrows

\* The meter events that bill a subject's hour.
EventsOf(s, h) == {e \in DOMAIN meter : e.subject = s /\ e.hour = h}
Charge == [e \in DOMAIN meter |-> e.value * meter[e]]

\* Stripe adds a meter's events up in any order.
LEMMA BilledAdds ==
    ASSUME NEW s, NEW h, IsFiniteSet(EventsOf(s, h)),
           \A e \in EventsOf(s, h) : Charge[e] \in Int
    PROVE  Billed(s, h) = SumOver(Charge, EventsOf(s, h))
<1> DEFINE S == EventsOf(s, h)
           F(it) == it = [t \in SUBSET S |->
                IF t = {} THEN 0
                ELSE PickOne(t).value * meter[PickOne(t)] + it[t \ {PickOne(t)}]]
<1>1. S \subseteq DOMAIN meter
  BY Zenon DEF EventsOf
<1>2. \A t \in SUBSET S : t # {} => Charge[PickOne(t)] = PickOne(t).value * meter[PickOne(t)]
  <2>1. \A e \in S : Charge[e] = e.value * meter[e]
    BY <1>1, Zenon DEF Charge
  <2> QED
    BY <2>1, PickIn, Zenon
<1> HIDE DEF S
<1>3. ASSUME NEW it PROVE F(it) <=> FoldsUp(it, Charge, S)
  BY <1>2, Zenon DEF FoldsUp
<1>4. PICK k : AddsUp(k, Charge, S)
  BY AddsExists, Zenon DEF S
<1>5. FoldsUp(k, Charge, S)
  BY <1>4, AddsFolds, Zenon
<1>6. F(CHOOSE it : F(it))
  BY <1>3, <1>5, Zenon
<1>7. (CHOOSE it : F(it)) = k
  BY <1>3, <1>4, <1>6, FoldsAgree, Zenon DEF S
<1>8. Billed(s, h) = (CHOOSE it : F(it))[S]
  BY Zenon DEF Billed, MapThenSumSet, MapThenFoldSet, PickOne, S, EventsOf
<1> QED
  BY <1>4, <1>7, <1>8, SumIsAdded, Zenon DEF SumOver, S

-----------------------------------------------------------------------------
(* The invariant of metering.                                              *)

\* An event that a run of ReconcileToStripe pushes: its value is at most what was
\* recorded, and all of it when the hour was over and complete.
Pushed(e) ==
    LET recordedThen == Total(In(recorded, e.subject, e.hour))
    IN  /\ e.hour \in Nat \ {0} /\ e.value \in Nat
        /\ \E z \in Zones : e.id = reconcileIdentifier(e.subject, e.hour, z)
        /\ e.value <= recordedThen
        /\ <<e.subject, e.hour>> \in excused \/ (e.hour < hour /\ e.value = recordedThen)

\* An event of RecordDirect, whose identifier is no window's.
Direct(e) == e.hour = 0 /\ \A s, h, z : e.id # reconcileIdentifier(s, h, z)

\* The usage of a subject's hour is excused, or there is none, or an event bills it.
Served(s, h, events) ==
    \/ <<s, h>> \in excused
    \/ /\ h < hour
       /\ In(recorded, s, h) = {} \/ \E e \in events : e.subject = s /\ e.hour = h

\* A run for hour h with the events es still to be pushed.
RunServes(h, es) ==
    /\ h \in Nat \ {0} /\ h <= hour /\ h <= checkpoint + 1
    /\ \A e \in es : Pushed(e)
    /\ \A s \in Subjects : Served(s, h, es \cup DOMAIN meter)

Running(h, es) == [pc |-> "push", hour |-> h, left |-> es]

\* Rows that were pruned belong to hours that the checkpoint has passed.
RowsKept ==
    /\ Counts(recorded) /\ usage \subseteq recorded
    /\ \A e \in recorded : e.hour \in Nat
    /\ \A e \in recorded \ usage : e.hour <= checkpoint

\* What Stripe knows of an identifier is an event it counts.
EventsCount ==
    /\ IsFiniteSet(DOMAIN meter)
    /\ \A e \in DOMAIN meter : meter[e] \in Nat \ {0} /\ (Pushed(e) \/ Direct(e))
    /\ \A i \in known : \E e \in DOMAIN meter : e.id = i

\* While Stripe forgets no identifier, an identifier counts once.
CountsOnce ==
    forgot \/ /\ \A e \in DOMAIN meter : e.id \in known /\ meter[e] = 1
              /\ \A e, f \in DOMAIN meter : e.id = f.id => e = f

RunsServe ==
    /\ DOMAIN recon = Reconcilers
    /\ \A r \in Reconcilers :
          recon[r] = NoRun \/ \E h, es : recon[r] = Running(h, es) /\ RunServes(h, es)

HoursServed ==
    /\ hour \in Nat \ {0} /\ checkpoint \in Nat /\ checkpoint <= hour
    /\ \A s \in Subjects, h \in 1..checkpoint : Served(s, h, DOMAIN meter)

UsageTyped == \A u \in used : u.subject \in Subjects /\ u.quantity \in Nat

MeterInv == UsageTyped /\ RowsKept /\ EventsCount /\ CountsOnce /\ RunsServe /\ HoursServed

-----------------------------------------------------------------------------
\* A step that records usage only for the open hour or with an excuse.
Calm ==
    /\ hour \in Nat /\ hour' \in Nat /\ hour <= hour'
    /\ excused \subseteq excused' /\ recorded \subseteq recorded' /\ Counts(recorded')
    /\ \A s, h : \/ <<s, h>> \in excused' \/ ~(h < hour)
                 \/ In(recorded', s, h) = In(recorded, s, h)

\* Such a step keeps what was said of an event.
LEMMA PushedKept == ASSUME Calm, NEW e, Pushed(e) PROVE Pushed(e)'
<1>1. PICK s, h : s = e.subject /\ h = e.hour
  BY Zenon
<1>2. /\ h \in Nat \ {0} /\ e.value \in Nat
      /\ e.value <= Total(In(recorded, s, h))
      /\ <<s, h>> \in excused \/ (h < hour /\ e.value = Total(In(recorded, s, h)))
  BY <1>1, Zenon DEF Pushed
<1>3. /\ Total(In(recorded, s, h)) \in Nat /\ Total(In(recorded', s, h)) \in Nat
      /\ Total(In(recorded, s, h)) <= Total(In(recorded', s, h))
  BY InRows DEF Calm
<1>4. e.value <= Total(In(recorded', s, h))
  BY <1>2, <1>3
<1>5. <<s, h>> \in excused' \/ (h < hour' /\ e.value = Total(In(recorded', s, h)))
  <2>1. CASE <<s, h>> \in excused'
    BY <2>1
  <2>2. CASE <<s, h>> \notin excused'
    <3>1. h < hour /\ e.value = Total(In(recorded, s, h))
      BY <1>2, <2>2, Zenon DEF Calm
    <3>2. In(recorded', s, h) = In(recorded, s, h)
      BY <2>2, <3>1, Zenon DEF Calm
    <3>3. h < hour'
      BY <1>2, <3>1 DEF Calm
    <3> QED
      BY <3>1, <3>2, <3>3, Zenon
  <2> QED
    BY <2>1, <2>2
<1> QED
  BY <1>1, <1>2, <1>4, <1>5, Zenon DEF Pushed

\* Such a step keeps what was said of an hour.
LEMMA ServedKept ==
    ASSUME Calm, NEW s, NEW h \in Nat, NEW es, NEW fs, Served(s, h, es), es \subseteq fs
    PROVE  Served(s, h, fs)'
<1>1. CASE <<s, h>> \in excused'
  BY <1>1, Zenon DEF Served
<1>2. CASE <<s, h>> \notin excused'
  <2>1. h < hour /\ (In(recorded, s, h) = {} \/ \E e \in es : e.subject = s /\ e.hour = h)
    BY <1>2, Zenon DEF Served, Calm
  <2>2. In(recorded', s, h) = In(recorded, s, h)
    BY <1>2, <2>1, Zenon DEF Calm
  <2>3. h < hour'
    BY <2>1 DEF Calm
  <2> QED
    BY <2>1, <2>2, <2>3, Zenon DEF Served
<1> QED
  BY <1>1, <1>2

\* A run keeps what it serves while the checkpoint and Stripe's events grow.
LEMMA RunKept ==
    ASSUME Calm, NEW h, NEW es, RunServes(h, es), DOMAIN meter \subseteq DOMAIN meter',
           checkpoint \in Nat, checkpoint' \in Nat, checkpoint <= checkpoint'
    PROVE  RunServes(h, es)'
<1>1. h \in Nat /\ h # 0 /\ h <= hour /\ h <= checkpoint + 1 /\ (\A e \in es : Pushed(e))
  BY DEF RunServes
<1>2. h <= hour' /\ h <= checkpoint' + 1
  <2>1. hour \in Nat /\ hour' \in Nat /\ hour <= hour'
    BY Zenon DEF Calm
  <2>2. h \in Nat /\ h <= hour /\ h <= checkpoint + 1
    BY <1>1, Zenon
  <2>3. checkpoint \in Nat /\ checkpoint' \in Nat /\ checkpoint <= checkpoint'
    OBVIOUS
  <2>4. \A x, y, z \in Nat : (x <= y /\ y <= z => x <= z) /\ (x <= y + 1 /\ y <= z => x <= z + 1)
    OBVIOUS
  <2> QED
    BY <2>1, <2>2, <2>3, <2>4, Zenon
<1>3. \A e \in es : Pushed(e)'
  BY <1>1, PushedKept, Zenon
<1>4. ASSUME NEW s \in Subjects PROVE Served(s, h, es \cup DOMAIN meter)'
  <2>1. PICK as : as = es \cup DOMAIN meter
    BY Zenon
  <2>2. PICK bs : bs = es \cup DOMAIN meter'
    BY Zenon
  <2>3. Served(s, h, as)
    BY <2>1, Zenon DEF RunServes
  <2>4. as \subseteq bs
    BY <2>1, <2>2, Zenon
  <2>5. Served(s, h, bs)'
    BY <1>1, <2>3, <2>4, ServedKept, Zenon
  <2> QED
    BY <2>2, <2>5, Zenon DEF Served
<1> QED
  BY <1>1, <1>2, <1>3, <1>4, Zenon DEF RunServes

\* Every reconciliation under way keeps its promise over a step that keeps the events and the
\* rows.
LEMMA RunsKept ==
    ASSUME MeterInv, Calm, DOMAIN meter \subseteq DOMAIN meter',
           checkpoint' \in Nat, checkpoint <= checkpoint',
           NEW r \in Reconcilers, recon'[r] = recon[r]
    PROVE  recon'[r] = NoRun \/ \E h, es : recon'[r] = Running(h, es) /\ RunServes(h, es)'
<1>1. checkpoint \in Nat
  BY DEF MeterInv, HoursServed
<1>2. CASE recon[r] = NoRun
  BY <1>2
<1>3. CASE recon[r] # NoRun
  <2>1. PICK h, es : recon[r] = Running(h, es) /\ RunServes(h, es)
    BY <1>3, Zenon DEF MeterInv, RunsServe
  <2>2. RunServes(h, es)'
    BY <1>1, <2>1, RunKept, Zenon
  <2> QED
    BY <2>1, <2>2, Zenon
<1> QED
  BY <1>2, <1>3

\* The hours that the checkpoint has passed stay served.
LEMMA HoursKept ==
    ASSUME MeterInv, Calm, DOMAIN meter \subseteq DOMAIN meter', checkpoint' = checkpoint
    PROVE  HoursServed'
<1>1. /\ hour \in Nat \ {0} /\ checkpoint \in Nat /\ checkpoint <= hour
      /\ \A s \in Subjects, h \in 1..checkpoint : Served(s, h, DOMAIN meter)
  BY Zenon DEF MeterInv, HoursServed
<1>2. hour' \in Nat \ {0} /\ checkpoint' \in Nat /\ checkpoint' <= hour'
  BY <1>1 DEF Calm
<1>3. ASSUME NEW s \in Subjects, NEW h \in 1..checkpoint PROVE Served(s, h, DOMAIN meter)'
  <2>1. PICK as : as = DOMAIN meter
    BY Zenon
  <2>2. PICK bs : bs = DOMAIN meter'
    BY Zenon
  <2>3. h \in Nat /\ as \subseteq bs
    BY <1>1, <2>1, <2>2
  <2>4. Served(s, h, as)
    BY <1>1, <2>1, Zenon
  <2>5. Served(s, h, bs)'
    BY <2>3, <2>4, ServedKept, Zenon
  <2> QED
    BY <2>2, <2>5, Zenon DEF Served
<1> QED
  BY <1>2, <1>3, Zenon DEF HoursServed

\* Stripe's events stay what they are while it accepts none.
LEMMA EventsKept ==
    ASSUME MeterInv, Calm, meter' = meter, known' = known
    PROVE  EventsCount'
<1>1. /\ IsFiniteSet(DOMAIN meter)
      /\ \A e \in DOMAIN meter : meter[e] \in Nat \ {0} /\ (Pushed(e) \/ Direct(e))
      /\ \A i \in known : \E e \in DOMAIN meter : e.id = i
  BY Zenon DEF MeterInv, EventsCount
<1>2. \A e \in DOMAIN meter : Pushed(e)' \/ Direct(e)
  BY <1>1, PushedKept, Zenon
<1>3. \A e : Direct(e) => Direct(e)'
  BY Zenon DEF Direct
<1> QED
  BY <1>1, <1>2, <1>3, Zenon DEF EventsCount

\* Nothing is recorded and no time passes.
LEMMA StillCalm ==
    ASSUME MeterInv, recorded' = recorded, hour' \in Nat, hour <= hour', excused \subseteq excused'
    PROVE  Calm
BY Zenon DEF Calm, MeterInv, RowsKept, HoursServed

-----------------------------------------------------------------------------
(* Each step of metering keeps the invariant.                              *)

\* The clock's hour passing keeps the invariant.
LEMMA HourKeeps == ASSUME MeterInv, HourPasses, used' = used PROVE MeterInv'
<1>1. /\ recorded' = recorded /\ usage' = usage /\ meter' = meter /\ known' = known
      /\ checkpoint' = checkpoint /\ recon' = recon /\ forgot' = forgot /\ excused' = excused
      /\ hour' = hour + 1
  BY Zenon DEF HourPasses
<1>2. hour \in Nat /\ checkpoint \in Nat /\ hour' \in Nat /\ hour <= hour' /\ checkpoint <= checkpoint'
  BY <1>1 DEF MeterInv, HoursServed
<1>3. Calm
  BY <1>1, <1>2, StillCalm, Zenon
<1>4. UsageTyped' /\ RowsKept' /\ CountsOnce'
  BY <1>1, Zenon DEF MeterInv, UsageTyped, RowsKept, CountsOnce
<1>5. EventsCount' /\ HoursServed'
  BY <1>1, <1>3, EventsKept, HoursKept, Zenon
<1>6. RunsServe'
  BY <1>1, <1>2, <1>3, RunsKept, Zenon DEF MeterInv, RunsServe
<1> QED
  BY <1>4, <1>5, <1>6, Zenon DEF MeterInv

\* Meter events that leave Stripe's window of identifiers keep the invariant.
LEMMA ExpireKeeps == ASSUME MeterInv, IdentifiersExpire, used' = used PROVE MeterInv'
<1>1. /\ recorded' = recorded /\ usage' = usage /\ meter' = meter /\ known' = {}
      /\ checkpoint' = checkpoint /\ recon' = recon /\ forgot' = TRUE /\ excused' = excused
      /\ hour' = hour
  BY Zenon DEF IdentifiersExpire
<1>2. hour \in Nat /\ checkpoint \in Nat /\ hour' \in Nat /\ hour <= hour' /\ checkpoint <= checkpoint'
  BY <1>1 DEF MeterInv, HoursServed
<1>3. Calm
  BY <1>1, <1>2, StillCalm, Zenon
<1>4. UsageTyped' /\ RowsKept' /\ CountsOnce'
  BY <1>1, Zenon DEF MeterInv, UsageTyped, RowsKept, CountsOnce
<1>5. HoursServed'
  BY <1>1, <1>3, HoursKept, Zenon
<1>6. RunsServe'
  BY <1>1, <1>2, <1>3, RunsKept, Zenon DEF MeterInv, RunsServe
<1>7. EventsCount'
  <2>1. /\ IsFiniteSet(DOMAIN meter)
        /\ \A e \in DOMAIN meter : meter[e] \in Nat \ {0} /\ (Pushed(e) \/ Direct(e))
    BY Zenon DEF MeterInv, EventsCount
  <2>2. \A e \in DOMAIN meter : Pushed(e)' \/ Direct(e)
    BY <1>3, <2>1, PushedKept, Zenon
  <2>3. \A e : Direct(e) => Direct(e)'
    BY Zenon DEF Direct
  <2> QED
    BY <1>1, <2>1, <2>2, <2>3, Zenon DEF EventsCount
<1> QED
  BY <1>4, <1>5, <1>6, <1>7, Zenon DEF MeterInv

\* The usage rows that PruneOlderThan deletes belong to hours the checkpoint has passed.
LEMMA PruneKeeps ==
    ASSUME MeterInv, NEW k \in 1..MaxHour, PruneOlderThan(k), used' = used
    PROVE  MeterInv'
<1>1. /\ recorded' = recorded /\ usage' = {e \in usage : e.hour > k} /\ meter' = meter
      /\ known' = known /\ checkpoint' = checkpoint /\ recon' = recon /\ forgot' = forgot
      /\ excused' = excused /\ hour' = hour /\ k <= checkpoint
  BY Zenon DEF PruneOlderThan
<1>2. hour \in Nat /\ checkpoint \in Nat /\ hour' \in Nat /\ hour <= hour' /\ checkpoint <= checkpoint'
  BY <1>1 DEF MeterInv, HoursServed
<1>3. Calm
  BY <1>1, <1>2, StillCalm, Zenon
<1>4. UsageTyped' /\ CountsOnce'
  BY <1>1, Zenon DEF MeterInv, UsageTyped, CountsOnce
<1>5. EventsCount' /\ HoursServed'
  BY <1>1, <1>3, EventsKept, HoursKept, Zenon
<1>6. RunsServe'
  BY <1>1, <1>2, <1>3, RunsKept, Zenon DEF MeterInv, RunsServe
<1>7. RowsKept'
  <2>1. /\ Counts(recorded) /\ usage \subseteq recorded
        /\ \A e \in recorded : e.hour \in Nat
        /\ \A e \in recorded \ usage : e.hour <= checkpoint
    BY Zenon DEF MeterInv, RowsKept
  <2>2. k \in Nat
    BY HourAssumption DEF HourAssumption
  <2>3. \A x \in Nat : ~(x > k) => x <= checkpoint
    BY <1>1, <1>2, <2>2
  <2> QED
    BY <1>1, <2>1, <2>3, Zenon DEF RowsKept
<1> QED
  BY <1>4, <1>5, <1>6, <1>7, Zenon DEF MeterInv

\* An identifier of a window says which window, and no RecordDirect has it.
LEMMA SameWindow ==
    ASSUME NEW e, NEW f, Pushed(e), Pushed(f) \/ Direct(f), f.id = e.id
    PROVE  Pushed(f) /\ f.subject = e.subject /\ f.hour = e.hour
<1>1. PICK z \in Zones : e.id = reconcileIdentifier(e.subject, e.hour, z)
  BY Zenon DEF Pushed
<1>2. Pushed(f)
  BY <1>1, Zenon DEF Direct
<1>3. PICK y \in Zones : f.id = reconcileIdentifier(f.subject, f.hour, y)
  BY <1>2, Zenon DEF Pushed
<1>5. reconcileIdentifier(f.subject, f.hour, y) = reconcileIdentifier(e.subject, e.hour, z)
  BY <1>1, <1>3, Zenon
<1>6. f.subject = e.subject /\ f.hour = e.hour
  BY <1>5 DEF reconcileIdentifier
<1> QED
  BY <1>2, <1>6, Zenon

\* Stripe accepts an event: its identifier counts, and counts once while remembered.
LEMMA AcceptKeeps ==
    ASSUME MeterInv, Calm, NEW e, Accept(e), Pushed(e) \/ Direct(e), forgot' = forgot
    PROVE  /\ EventsCount' /\ CountsOnce' /\ DOMAIN meter \subseteq DOMAIN meter'
           /\ \E f \in DOMAIN meter' : f.id = e.id /\ (Pushed(f)' \/ Direct(f)')
<1>1. /\ IsFiniteSet(DOMAIN meter)
      /\ \A x \in DOMAIN meter : meter[x] \in Nat \ {0} /\ (Pushed(x) \/ Direct(x))
      /\ \A i \in known : \E x \in DOMAIN meter : x.id = i
  BY Zenon DEF MeterInv, EventsCount
<1>2. \A x : Pushed(x) \/ Direct(x) => Pushed(x)' \/ Direct(x)'
  BY PushedKept, Zenon DEF Direct
<1>3. known' = known \cup {e.id}
  BY Zenon DEF Accept
<1>4. CASE e.id \in known
  <2>1. meter' = meter /\ known' = known
    BY <1>3, <1>4, Zenon DEF Accept
  <2>2. EventsCount' /\ CountsOnce'
    BY <1>1, <1>2, <2>1, Zenon DEF MeterInv, EventsCount, CountsOnce
  <2> QED
    BY <1>1, <1>2, <1>4, <2>1, <2>2, Zenon
<1>5. CASE e.id \notin known
  <2>1. meter' = [x \in DOMAIN meter \cup {e} |-> IF x = e THEN Times(e) + 1 ELSE meter[x]]
    BY <1>5, Zenon DEF Accept
  <2>2. /\ DOMAIN meter' = DOMAIN meter \cup {e} /\ meter'[e] = Times(e) + 1
        /\ \A x \in DOMAIN meter : x # e => meter'[x] = meter[x]
    BY <2>1, Zenon
  <2>3. Times(e) \in Nat
    <3>1. \A x \in DOMAIN meter : meter[x] \in Nat
      BY <1>1
    <3>2. 0 \in Nat
      OBVIOUS
    <3> QED
      BY <3>1, <3>2, Zenon DEF Times
  <2>4. Times(e) + 1 \in Nat \ {0}
    BY <2>3
  <2>5. IsFiniteSet(DOMAIN meter')
    BY <1>1, <2>2, FS_AddElement
  <2>6. EventsCount'
    <3>1. \A x \in DOMAIN meter' : meter'[x] \in Nat \ {0} /\ (Pushed(x)' \/ Direct(x)')
      BY <1>1, <1>2, <2>2, <2>4, Zenon
    <3>2. \A i \in known' : \E x \in DOMAIN meter' : x.id = i
      BY <1>1, <1>3, <2>2, Zenon
    <3> QED
      BY <2>5, <3>1, <3>2, Zenon DEF EventsCount
  <2>7. CountsOnce'
    <3> SUFFICES ASSUME ~forgot
                 PROVE  /\ \A x \in DOMAIN meter' : x.id \in known' /\ meter'[x] = 1
                        /\ \A x, y \in DOMAIN meter' : x.id = y.id => x = y
      BY Zenon DEF CountsOnce
    <3>1. /\ \A x \in DOMAIN meter : x.id \in known /\ meter[x] = 1
          /\ \A x, y \in DOMAIN meter : x.id = y.id => x = y
      BY Zenon DEF MeterInv, CountsOnce
    <3>2. e \notin DOMAIN meter
      BY <1>5, <3>1, Zenon
    <3>3. meter'[e] = 1
      <4>1. Times(e) = 0
        BY <3>2, Zenon DEF Times
      <4> QED
        BY <2>2, <4>1
    <3> QED
      BY <1>3, <1>5, <2>2, <3>1, <3>2, <3>3, Zenon
  <2> QED
    BY <1>2, <2>2, <2>6, <2>7, Zenon
<1> QED
  BY <1>4, <1>5

\* An event of RecordDirect has an identifier of its own and bills no hour.
LEMMA DirectKeeps ==
    ASSUME MeterInv, NEW u, RecordDirect(u), used' = used
    PROVE  MeterInv'
<1> DEFINE d == [subject |-> u.subject, value |-> u.quantity, id |-> directIdentifier(u), hour |-> 0]
<1>1. /\ Accept(d) /\ recorded' = recorded /\ usage' = usage
      /\ checkpoint' = checkpoint /\ recon' = recon /\ forgot' = forgot /\ excused' = excused
      /\ hour' = hour
  BY Zenon DEF RecordDirect
<1>2. hour \in Nat /\ checkpoint \in Nat /\ hour' \in Nat /\ hour <= hour' /\ checkpoint <= checkpoint'
  BY <1>1 DEF MeterInv, HoursServed
<1>3. Calm
  BY <1>1, <1>2, StillCalm, Zenon
<1>4. Direct(d)
  <2>1. d.hour = 0 /\ d.id = directIdentifier(u)
    OBVIOUS
  <2>2. \E x, y : directIdentifier(u) = <<x, y>> \/ directIdentifier(u) = <<x>>
    BY Zenon DEF directIdentifier
  <2>3. ASSUME NEW s, NEW h, NEW z PROVE directIdentifier(u) # reconcileIdentifier(s, h, z)
    BY <2>2 DEF reconcileIdentifier
  <2> HIDE DEF d
  <2> QED
    BY <2>1, <2>3, Zenon DEF Direct
<1> HIDE DEF d
<1>5. EventsCount' /\ CountsOnce' /\ DOMAIN meter \subseteq DOMAIN meter'
  BY <1>1, <1>3, <1>4, AcceptKeeps, Zenon
<1>6. HoursServed'
  BY <1>1, <1>3, <1>5, HoursKept, Zenon
<1>7. RunsServe'
  BY <1>1, <1>2, <1>3, <1>5, RunsKept, Zenon DEF MeterInv, RunsServe
<1>8. UsageTyped' /\ RowsKept'
  BY <1>1, Zenon DEF MeterInv, UsageTyped, RowsKept
<1> QED
  BY <1>5, <1>6, <1>7, <1>8, Zenon DEF MeterInv

\* Usage for the open hour, or late usage with its excuse.
LEMMA RecordKeeps ==
    ASSUME MeterInv, NEW u \in used, NEW at \in {hour - 1, hour} \ {0}, RecordUsage(u, at),
           used' = used
    PROVE  MeterInv'
<1> DEFINE row == [subject |-> u.subject, req |-> u.req, quantity |-> u.quantity, hour |-> at]
<1>1. /\ usage' = usage \cup {row} /\ recorded' = recorded \cup {row}
      /\ excused' = IF at < hour THEN excused \cup {<<u.subject, at>>} ELSE excused
      /\ meter' = meter /\ known' = known /\ checkpoint' = checkpoint /\ recon' = recon
      /\ hour' = hour /\ forgot' = forgot
  BY Zenon DEF RecordUsage
<1>2. hour \in Nat \ {0} /\ checkpoint \in Nat
  BY Zenon DEF MeterInv, HoursServed
<1>3. hour' \in Nat /\ hour <= hour' /\ checkpoint' \in Nat /\ checkpoint <= checkpoint'
  BY <1>1, <1>2
<1>4. at \in Nat /\ (~(at < hour) => at = hour)
  BY <1>2
<1>5. row.subject = u.subject /\ row.quantity = u.quantity /\ row.hour = at
  OBVIOUS
<1> HIDE DEF row
<1>6. row.quantity \in Nat
  BY <1>5, Zenon DEF MeterInv, UsageTyped
<1>7. Counts(recorded')
  <2>1. IsFiniteSet(recorded')
    BY <1>1, FS_AddElement DEF MeterInv, RowsKept, Counts
  <2> QED
    BY <1>1, <1>6, <2>1, Zenon DEF MeterInv, RowsKept, Counts
<1>8. Calm
  <2>1. excused \subseteq excused' /\ recorded \subseteq recorded'
    BY <1>1, Zenon
  <2>2. ASSUME NEW s, NEW h, <<s, h>> \notin excused', h < hour
        PROVE  In(recorded', s, h) = In(recorded, s, h)
    <3>1. ~(row.subject = s /\ row.hour = h)
      BY <1>1, <1>5, <2>2, Zenon
    <3> QED
      BY <1>1, <3>1, Zenon DEF In
  <2> QED
    BY <1>2, <1>3, <1>7, <2>1, <2>2, Zenon DEF Calm
<1>9. EventsCount' /\ HoursServed'
  BY <1>1, <1>8, EventsKept, HoursKept, Zenon
<1>10. RunsServe'
  BY <1>1, <1>3, <1>8, RunsKept, Zenon DEF MeterInv, RunsServe
<1>11. UsageTyped' /\ CountsOnce'
  BY <1>1, Zenon DEF MeterInv, UsageTyped, CountsOnce
<1>12. RowsKept'
  <2>1. row.hour \in Nat
    BY <1>4, <1>5, Zenon
  <2> QED
    BY <1>1, <1>7, <2>1, Zenon DEF MeterInv, RowsKept
<1> QED
  BY <1>9, <1>10, <1>11, <1>12, Zenon DEF MeterInv

\* A run begins with an event for every subject that it owes one.
LEMMA ReconcileKeeps ==
    ASSUME MeterInv, NEW r \in Reconcilers, NEW zone \in Zones, ReconcileToStripe(r, zone),
           used' = used
    PROVE  MeterInv'
<1>1. PICK h : h = checkpoint + 1
  BY Zenon
<1>2. PICK es : es = PushEvents(h, zone)
  BY Zenon
<1>3. /\ h <= hour
      /\ recon' = [recon EXCEPT ![r] = Running(h, es)]
      /\ excused' = excused \cup {<<s, h>> : s \in {t \in Subjects : h = hour \/ Get(t) = NoCustomer}}
      /\ usage' = usage /\ recorded' = recorded /\ meter' = meter /\ known' = known
      /\ checkpoint' = checkpoint /\ hour' = hour /\ forgot' = forgot
  BY <1>1, <1>2, Zenon DEF ReconcileToStripe, Running
<1>4. /\ hour \in Nat /\ checkpoint \in Nat /\ hour' \in Nat /\ hour <= hour'
      /\ checkpoint' \in Nat /\ checkpoint <= checkpoint'
  BY <1>3 DEF MeterInv, HoursServed
<1>5. h \in Nat \ {0} /\ h <= checkpoint + 1
  BY <1>1, <1>4
<1>6. Calm
  <2>1. excused \subseteq excused'
    BY <1>3, Zenon
  <2> QED
    BY <1>3, <1>4, <2>1, StillCalm, Zenon
<1>7. EventsCount' /\ HoursServed'
  BY <1>3, <1>6, EventsKept, HoursKept, Zenon
<1>8. UsageTyped' /\ CountsOnce' /\ RowsKept'
  BY <1>3, Zenon DEF MeterInv, UsageTyped, CountsOnce, RowsKept
<1>9. ASSUME NEW s PROVE /\ In(usage, s, h) = In(recorded, s, h)
                         /\ Total(In(recorded, s, h)) \in Nat
  <2>1. /\ Counts(recorded) /\ usage \subseteq recorded
        /\ \A e \in recorded : e.hour \in Nat
        /\ \A e \in recorded \ usage : e.hour <= checkpoint
    BY Zenon DEF MeterInv, RowsKept
  <2>2. ~(h <= checkpoint)
    BY <1>1, <1>4
  <2>3. In(usage, s, h) = In(recorded, s, h)
    BY <2>1, <2>2, Zenon DEF In
  <2> QED
    BY <2>1, <2>3, InRows
<1>10. ASSUME NEW s \in Subjects, <<s, h>> \notin excused' PROVE h < hour /\ Get(s) # NoCustomer
  <2>1. ~(h = hour \/ Get(s) = NoCustomer)
    BY <1>3, <1>10, Zenon
  <2> QED
    BY <1>3, <1>4, <1>5, <2>1
<1>11. ASSUME NEW e \in es PROVE Pushed(e)'
  <2>1. PICK s \in {t \in AggregateByPeriod(h) : Get(t) # NoCustomer} :
            e = [subject |-> s, value |-> QueryByPeriod(s, h),
                 id |-> reconcileIdentifier(s, h, zone), hour |-> h]
    BY <1>2, Zenon DEF PushEvents
  <2>2. /\ e.subject = s /\ e.value = QueryByPeriod(s, h) /\ e.hour = h
        /\ e.id = reconcileIdentifier(s, h, zone)
    BY <2>1
  <2>3. s \in Subjects
    BY <2>1, Zenon DEF AggregateByPeriod
  <2>4. QueryByPeriod(s, h) = Total(In(recorded, s, h)) /\ Total(In(recorded, s, h)) \in Nat
    BY <1>9, Zenon DEF QueryByPeriod
  <2>5. e.value \in Nat /\ e.value <= Total(In(recorded', s, h)) /\ e.value = Total(In(recorded', s, h))
    BY <1>3, <2>2, <2>4
  <2>6. <<s, h>> \in excused' \/ h < hour'
    BY <1>3, <1>10, <2>3, Zenon
  <2> QED
    BY <1>5, <2>2, <2>5, <2>6, Zenon DEF Pushed
<1>12. ASSUME NEW s \in Subjects PROVE Served(s, h, es \cup DOMAIN meter)'
  <2>1. CASE <<s, h>> \in excused' \/ In(recorded, s, h) = {}
    BY <1>3, <1>10, <2>1, Zenon DEF Served
  <2>2. CASE <<s, h>> \notin excused' /\ In(recorded, s, h) # {}
    <3>1. h < hour /\ Get(s) # NoCustomer
      BY <1>10, <2>2, Zenon
    <3>2. s \in AggregateByPeriod(h)
      BY <1>9, <2>2, Zenon DEF AggregateByPeriod
    <3>3. PICK e : e = [subject |-> s, value |-> QueryByPeriod(s, h),
                        id |-> reconcileIdentifier(s, h, zone), hour |-> h]
      BY Zenon
    <3>4. e \in es
      BY <1>2, <3>1, <3>2, <3>3, Zenon DEF PushEvents
    <3>5. e.subject = s /\ e.hour = h
      BY <3>3
    <3> QED
      BY <1>3, <3>1, <3>4, <3>5, Zenon DEF Served
  <2> QED
    BY <2>1, <2>2, Zenon
<1>13. RunServes(h, es)'
  BY <1>3, <1>5, <1>11, <1>12, Zenon DEF RunServes
<1>14. RunsServe'
  <2>1. DOMAIN recon = Reconcilers
    BY Zenon DEF MeterInv, RunsServe
  <2>2. DOMAIN recon' = Reconcilers /\ recon'[r] = Running(h, es)
    BY <1>3, <2>1, Zenon
  <2>3. ASSUME NEW x \in Reconcilers, x # r
        PROVE  recon'[x] = NoRun \/ \E k, fs : recon'[x] = Running(k, fs) /\ RunServes(k, fs)'
    <3>1. recon'[x] = recon[x]
      BY <1>3, <2>1, <2>3, Zenon
    <3> QED
      BY <1>3, <1>4, <1>6, <3>1, RunsKept, Zenon
  <2> QED
    BY <1>13, <2>2, <2>3, Zenon DEF RunsServe
<1> QED
  BY <1>7, <1>8, <1>14, Zenon DEF MeterInv

\* A push that reaches Stripe leaves the run's subjects served.
LEMMA PushServes ==
    ASSUME MeterInv, Calm, recorded' = recorded, hour' = hour, excused' = excused,
           checkpoint' = checkpoint, forgot' = forgot,
           NEW h, NEW es, RunServes(h, es), NEW e \in es, Accept(e)
    PROVE  RunServes(h, es \ {e})'
<1>1. Pushed(e)
  BY Zenon DEF RunServes
<1>2. DOMAIN meter \subseteq DOMAIN meter'
  BY <1>1, AcceptKeeps, Zenon
<1>3. PICK f \in DOMAIN meter' : f.id = e.id /\ (Pushed(f)' \/ Direct(f)')
  BY <1>1, AcceptKeeps, Zenon
<1>4. Pushed(f) \/ Direct(f)
  BY <1>3, Zenon DEF Pushed, Direct
<1>5. f.subject = e.subject /\ f.hour = e.hour
  BY <1>1, <1>3, <1>4, SameWindow, Zenon
<1>6. checkpoint \in Nat /\ checkpoint' \in Nat /\ checkpoint <= checkpoint'
  BY DEF MeterInv, HoursServed
<1>7. RunServes(h, es)'
  BY <1>2, <1>6, RunKept, Zenon
<1>8. ASSUME NEW s \in Subjects PROVE Served(s, h, (es \ {e}) \cup DOMAIN meter)'
  <2>1. Served(s, h, es \cup DOMAIN meter)'
    BY <1>7, Zenon DEF RunServes
  <2> QED
    BY <1>3, <1>5, <2>1, Zenon DEF Served
<1> QED
  BY <1>7, <1>8, Zenon DEF RunServes

\* A push, and what becomes of the run when it fails.
LEMMA PushKeeps ==
    ASSUME MeterInv, NEW r \in Reconcilers, PushBatch(r), used' = used
    PROVE  MeterInv'
<1>1. /\ recorded' = recorded /\ usage' = usage /\ checkpoint' = checkpoint /\ hour' = hour
      /\ excused' = excused /\ forgot' = forgot
  BY Zenon DEF PushBatch
<1>2. /\ hour \in Nat /\ checkpoint \in Nat /\ hour' \in Nat /\ hour <= hour'
      /\ checkpoint' \in Nat /\ checkpoint <= checkpoint'
  BY <1>1 DEF MeterInv, HoursServed
<1>3. Calm
  BY <1>1, <1>2, StillCalm, Zenon
<1>4. PICK h, es : recon[r] = Running(h, es) /\ RunServes(h, es)
  <2>1. recon[r] # NoRun
    <3>1. recon[r].pc = "push"
      BY Zenon DEF PushBatch
    <3> QED
      BY <3>1 DEF NoRun
  <2> QED
    BY <2>1, Zenon DEF MeterInv, RunsServe
<1>5. recon[r].left = es
  BY <1>4 DEF Running
<1>6. DOMAIN recon = Reconcilers
  BY Zenon DEF MeterInv, RunsServe
<1>7. PICK e \in es :
          \/ Accept(e) /\ recon' = [recon EXCEPT ![r].left = @ \ {e}]
          \/ /\ recon' = [recon EXCEPT ![r] = NoRun]
             /\ Accept(e) \/ (meter' = meter /\ known' = known)
  BY <1>5, Zenon DEF PushBatch, ReturnOnError
<1>8. Pushed(e)
  BY <1>4, Zenon DEF RunServes
<1>9. EventsCount' /\ CountsOnce' /\ DOMAIN meter \subseteq DOMAIN meter'
  <2>1. CASE Accept(e)
    BY <1>1, <1>3, <1>8, <2>1, AcceptKeeps, Zenon
  <2>2. CASE meter' = meter /\ known' = known
    <3>1. CountsOnce'
      BY <1>1, <2>2, Zenon DEF MeterInv, CountsOnce
    <3> QED
      BY <1>3, <2>2, <3>1, EventsKept, Zenon
  <2> QED
    BY <1>7, <2>1, <2>2, Zenon
<1>10. HoursServed'
  BY <1>1, <1>3, <1>9, HoursKept, Zenon
<1>11. UsageTyped' /\ RowsKept'
  BY <1>1, Zenon DEF MeterInv, UsageTyped, RowsKept
<1>12. recon'[r] = NoRun \/ \E k, fs : recon'[r] = Running(k, fs) /\ RunServes(k, fs)'
  <2>1. CASE recon' = [recon EXCEPT ![r] = NoRun]
    BY <1>6, <2>1, Zenon
  <2>2. CASE Accept(e) /\ recon' = [recon EXCEPT ![r].left = @ \ {e}]
    <3>1. RunServes(h, es \ {e})'
      BY <1>1, <1>3, <1>4, <2>2, PushServes, Zenon
    <3>2. recon'[r] = [recon[r] EXCEPT !.left = @ \ {e}]
      BY <1>6, <2>2, Zenon
    <3>3. recon'[r] = Running(h, es \ {e})
      BY <1>4, <3>2 DEF Running
    <3> QED
      BY <3>1, <3>3, Zenon
  <2> QED
    BY <1>7, <2>1, <2>2, Zenon
<1>13. RunsServe'
  <2>1. DOMAIN recon' = Reconcilers
    BY <1>6, <1>7, Zenon
  <2>2. ASSUME NEW x \in Reconcilers, x # r
        PROVE  recon'[x] = NoRun \/ \E k, fs : recon'[x] = Running(k, fs) /\ RunServes(k, fs)'
    <3>1. recon'[x] = recon[x]
      BY <1>6, <1>7, <2>2, Zenon
    <3> QED
      BY <1>2, <1>3, <1>9, <3>1, RunsKept, Zenon
  <2> QED
    BY <1>12, <2>1, <2>2, Zenon DEF RunsServe
<1> QED
  BY <1>9, <1>10, <1>11, <1>13, Zenon DEF MeterInv

\* The checkpoint advances over an hour whose events are all pushed.
LEMMA AdvanceKeeps ==
    ASSUME MeterInv, NEW r \in Reconcilers, AdvanceCheckpoint(r), used' = used
    PROVE  MeterInv'
<1>1. /\ recorded' = recorded /\ usage' = usage /\ meter' = meter /\ known' = known
      /\ hour' = hour /\ excused' = excused /\ forgot' = forgot
      /\ checkpoint' = Max({checkpoint, recon[r].hour})
      /\ recon' = [recon EXCEPT ![r] = NoRun]
      /\ recon[r].pc = "push" /\ recon[r].left = {}
  BY Zenon DEF AdvanceCheckpoint
<1>2. PICK h, es : recon[r] = Running(h, es) /\ RunServes(h, es)
  <2>1. recon[r] # NoRun
    BY <1>1 DEF NoRun
  <2> QED
    BY <2>1, Zenon DEF MeterInv, RunsServe
<1>3. recon[r].hour = h /\ es = {}
  BY <1>1, <1>2 DEF Running
<1>4. h \in Nat \ {0} /\ h <= hour /\ h <= checkpoint + 1
  BY <1>2, Zenon DEF RunServes
<1>5. hour \in Nat \ {0} /\ checkpoint \in Nat /\ checkpoint <= hour
  BY Zenon DEF MeterInv, HoursServed
<1>6. checkpoint' = IF checkpoint >= h THEN checkpoint ELSE h
  <2>1. checkpoint \in Int /\ h \in Int
    BY <1>4, <1>5
  <2> QED
    BY <1>1, <1>3, <2>1, MaxMin
<1>7. checkpoint' \in Nat /\ checkpoint <= checkpoint' /\ checkpoint' <= hour'
      /\ hour' \in Nat /\ hour <= hour'
  BY <1>1, <1>4, <1>5, <1>6
<1>8. Calm
  BY <1>1, <1>7, StillCalm, Zenon
<1>9. EventsCount'
  BY <1>1, <1>8, EventsKept, Zenon
<1>10. UsageTyped' /\ CountsOnce'
  BY <1>1, Zenon DEF MeterInv, UsageTyped, CountsOnce
<1>11. RowsKept'
  <2>1. /\ Counts(recorded) /\ usage \subseteq recorded
        /\ \A e \in recorded : e.hour \in Nat
        /\ \A e \in recorded \ usage : e.hour <= checkpoint
    BY Zenon DEF MeterInv, RowsKept
  <2>2. \A x \in Nat : x <= checkpoint => x <= checkpoint'
    BY <1>5, <1>7
  <2> QED
    BY <1>1, <2>1, <2>2, Zenon DEF RowsKept
<1>12. HoursServed'
  <2>1. ASSUME NEW s \in Subjects, NEW k \in 1..checkpoint' PROVE Served(s, k, DOMAIN meter)'
    <3>1. Served(s, k, DOMAIN meter)
      <4>1. CASE k \in 1..checkpoint
        BY <4>1, Zenon DEF MeterInv, HoursServed
      <4>2. CASE k \notin 1..checkpoint
        <5>1. k = h
          BY <1>4, <1>5, <1>6, <4>2
        <5>2. {} \cup DOMAIN meter = DOMAIN meter
          OBVIOUS
        <5> QED
          BY <1>2, <1>3, <5>1, <5>2, Zenon DEF RunServes
      <4> QED
        BY <4>1, <4>2
    <3> QED
      BY <1>1, <3>1, Zenon DEF Served
  <2> QED
    BY <1>1, <1>5, <1>7, <2>1, Zenon DEF HoursServed
<1>13. RunsServe'
  <2>1. DOMAIN recon = Reconcilers
    BY Zenon DEF MeterInv, RunsServe
  <2>2. DOMAIN recon' = Reconcilers /\ recon'[r] = NoRun
    BY <1>1, <2>1, Zenon
  <2>3. ASSUME NEW x \in Reconcilers, x # r
        PROVE  recon'[x] = NoRun \/ \E k, fs : recon'[x] = Running(k, fs) /\ RunServes(k, fs)'
    <3>1. recon'[x] = recon[x] /\ DOMAIN meter \subseteq DOMAIN meter'
      BY <1>1, <2>1, <2>3, Zenon
    <3> QED
      BY <1>7, <1>8, <3>1, RunsKept, Zenon
  <2> QED
    BY <2>2, <2>3, Zenon DEF RunsServe
<1> QED
  BY <1>9, <1>10, <1>11, <1>12, <1>13, Zenon DEF MeterInv

\* Nothing is recorded, reconciled or billed at first.
LEMMA InitMeterInv == MeteringStart => MeterInv
<1> SUFFICES ASSUME MeteringStart PROVE MeterInv
  OBVIOUS
<1>1. PICK maxLost, requests, events :
          requests \subseteq UsageInput /\ MeteringInit(maxLost, requests, events)
  BY Zenon DEF MeteringStart
<1>2. /\ usage = {} /\ recorded = {} /\ meter = <<>> /\ known = {} /\ checkpoint = 0
      /\ recon = [r \in Reconcilers |-> NoRun] /\ hour = 1 /\ forgot = FALSE
  BY <1>1, Zenon DEF MeteringInit
<1>3. DOMAIN meter = {}
  BY <1>2
<1>4. IsFiniteSet({})
  BY FS_EmptySet
<1>5. UsageTyped
  <2>1. used \subseteq UsageInput
    BY <1>1, Zenon DEF MeteringInit
  <2> QED
    BY <2>1 DEF UsageTyped, UsageInput
<1>6. RowsKept /\ EventsCount /\ CountsOnce /\ RunsServe
  BY <1>2, <1>3, <1>4, Zenon DEF RowsKept, Counts, EventsCount, CountsOnce, RunsServe
<1>7. HoursServed
  BY <1>2 DEF HoursServed
<1> QED
  BY <1>5, <1>6, <1>7, Zenon DEF MeterInv

\* A step that leaves metering alone.
LEMMA MeterQuiet == ASSUME MeterInv, UNCHANGED meterVars PROVE MeterInv'
<1>1. /\ usage' = usage /\ recorded' = recorded /\ meter' = meter /\ known' = known
      /\ checkpoint' = checkpoint /\ recon' = recon /\ hour' = hour /\ excused' = excused
      /\ forgot' = forgot /\ used' = used
  BY Zenon DEF meterVars
<1>2. /\ hour \in Nat /\ checkpoint \in Nat /\ hour' \in Nat /\ hour <= hour'
      /\ checkpoint' \in Nat /\ checkpoint <= checkpoint'
  BY <1>1 DEF MeterInv, HoursServed
<1>3. Calm
  BY <1>1, <1>2, StillCalm, Zenon
<1>4. UsageTyped' /\ RowsKept' /\ CountsOnce'
  BY <1>1, Zenon DEF MeterInv, UsageTyped, RowsKept, CountsOnce
<1>5. EventsCount' /\ HoursServed'
  BY <1>1, <1>3, EventsKept, HoursKept, Zenon
<1>6. RunsServe'
  BY <1>1, <1>2, <1>3, RunsKept, Zenon DEF MeterInv, RunsServe
<1> QED
  BY <1>4, <1>5, <1>6, Zenon DEF MeterInv

\* Every step keeps the invariant, and so does a change of the mapping of customers.
LEMMA NextMeterInv == MeterInv /\ [MeteringNext]_meterVars => MeterInv'
<1> SUFFICES ASSUME MeterInv, [MeteringNext]_meterVars PROVE MeterInv'
  OBVIOUS
<1>1. \/ UNCHANGED meterVars
      \/ MeteringStep /\ used' = used
  BY Zenon DEF MeteringNext
<1>2. CASE UNCHANGED meterVars
  BY <1>2, MeterQuiet, Zenon
<1>3. CASE MeteringStep /\ used' = used
  <2>1. ASSUME NEW u \in used, NEW at \in {hour - 1, hour} \ {0}, RecordUsage(u, at)
        PROVE  MeterInv'
    BY <1>3, <2>1, RecordKeeps, Zenon
  <2>2. ASSUME NEW r \in Reconcilers, NEW zone \in Zones, ReconcileToStripe(r, zone)
        PROVE  MeterInv'
    BY <1>3, <2>2, ReconcileKeeps, Zenon
  <2>3. ASSUME NEW r \in Reconcilers, PushBatch(r) \/ AdvanceCheckpoint(r) PROVE MeterInv'
    BY <1>3, <2>3, PushKeeps, AdvanceKeeps, Zenon
  <2>4. ASSUME NEW u \in direct, RecordDirect(u) PROVE MeterInv'
    BY <1>3, <2>4, DirectKeeps, Zenon
  <2>5. ASSUME NEW k \in 1..MaxHour, PruneOlderThan(k) PROVE MeterInv'
    BY <1>3, <2>5, PruneKeeps, Zenon
  <2>6. CASE HourPasses \/ IdentifiersExpire
    BY <1>3, <2>6, HourKeeps, ExpireKeeps, Zenon
  <2> QED
    BY <1>3, <2>1, <2>2, <2>3, <2>4, <2>5, <2>6, Zenon DEF MeteringStep
<1> QED
  BY <1>1, <1>2, <1>3

\* The invariant holds throughout.
LEMMA MeterInvariant == MeteringSpec => []MeterInv
BY InitMeterInv, NextMeterInv, PTL DEF MeteringSpec

-----------------------------------------------------------------------------
\* What bills an hour: pushed events, each with a charge.
LEMMA HourEvents ==
    ASSUME MeterInv, NEW s, NEW h \in Nat \ {0}
    PROVE  /\ IsFiniteSet(EventsOf(s, h))
           /\ \A e \in EventsOf(s, h) :
                 /\ e \in DOMAIN meter /\ e.subject = s /\ e.hour = h /\ Pushed(e)
                 /\ meter[e] \in Nat \ {0} /\ e.value \in Nat
                 /\ Charge[e] = e.value * meter[e] /\ Charge[e] \in Nat /\ Charge[e] \in Int
                 /\ e.value <= Charge[e]
           /\ Billed(s, h) = SumOver(Charge, EventsOf(s, h))
           /\ Billed(s, h) \in Nat
<1>1. IsFiniteSet(EventsOf(s, h))
  <2>1. EventsOf(s, h) \subseteq DOMAIN meter
    BY Zenon DEF EventsOf
  <2> QED
    BY <2>1, FS_Subset, Zenon DEF MeterInv, EventsCount
<1>2. ASSUME NEW e \in EventsOf(s, h)
      PROVE  /\ e \in DOMAIN meter /\ e.subject = s /\ e.hour = h /\ Pushed(e)
             /\ meter[e] \in Nat \ {0} /\ e.value \in Nat
             /\ Charge[e] = e.value * meter[e] /\ Charge[e] \in Nat /\ Charge[e] \in Int
             /\ e.value <= Charge[e]
  <2>1. e \in DOMAIN meter /\ e.subject = s /\ e.hour = h
    BY Zenon DEF EventsOf
  <2>2. meter[e] \in Nat \ {0} /\ (Pushed(e) \/ Direct(e))
    BY <2>1, Zenon DEF MeterInv, EventsCount
  <2>3. h # 0
    OBVIOUS
  <2>4. Pushed(e)
    BY <2>1, <2>2, <2>3, Zenon DEF Direct
  <2>5. e.value \in Nat
    BY <2>4, Zenon DEF Pushed
  <2>6. Charge[e] = e.value * meter[e]
    BY <2>1, Zenon DEF Charge
  <2>7. \A v \in Nat, m \in Nat \ {0} : v * m \in Nat /\ v * m \in Int /\ v <= v * m
    <3>1. \A v \in Nat, k \in Nat : v * k \in Nat
      OBVIOUS
    <3>2. \A v \in Nat, m \in Nat \ {0} : v * m = v * (m - 1) + v /\ m - 1 \in Nat
      OBVIOUS
    <3> QED
      BY <3>1, <3>2
  <2> QED
    BY <2>1, <2>2, <2>4, <2>5, <2>6, <2>7, Zenon
<1>3. Billed(s, h) = SumOver(Charge, EventsOf(s, h))
  BY <1>1, <1>2, BilledAdds, Zenon
<1>4. SumOver(Charge, EventsOf(s, h)) \in Nat
  BY <1>1, <1>2, SumNat, Zenon
<1> QED
  BY <1>1, <1>2, <1>3, <1>4, Zenon

\* An hour is billed at least what each of its events says.
LEMMA BilledAtLeast ==
    ASSUME MeterInv, NEW s, NEW h \in Nat \ {0}, NEW e \in EventsOf(s, h)
    PROVE  e.value <= Billed(s, h)
<1> DEFINE S == EventsOf(s, h)
<1>1. /\ IsFiniteSet(S) /\ (\A x \in S : Charge[x] \in Nat /\ Charge[x] \in Int)
      /\ e.value \in Nat /\ e.value <= Charge[e] /\ Billed(s, h) = SumOver(Charge, S)
  BY HourEvents, Zenon
<1> HIDE DEF S
<1>2. e \in S
  BY DEF S
<1>3. IsFiniteSet(S \ {e}) /\ \A x \in S \ {e} : Charge[x] \in Nat
  BY <1>1, FS_Subset
<1>4. SumOver(Charge, S) = Charge[e] + SumOver(Charge, S \ {e})
  BY <1>1, <1>2, SumRemove
<1>5. SumOver(Charge, S \ {e}) \in Nat
  BY <1>3, SumNat
<1>6. Charge[e] \in Nat
  BY <1>1, <1>2
<1> QED
  BY <1>1, <1>4, <1>5, <1>6

\* An hour with one event, counted once, is billed what the event says.
LEMMA BilledByOne ==
    ASSUME MeterInv, NEW s, NEW h \in Nat \ {0}, NEW e, \A x : x \in EventsOf(s, h) <=> x = e, meter[e] = 1
    PROVE  Billed(s, h) = e.value
<1>1. /\ IsFiniteSet({e}) /\ Charge[e] \in Int /\ e.value \in Nat /\ Charge[e] = e.value * 1
      /\ Billed(s, h) = SumOver(Charge, {e})
  <2>1. e \in EventsOf(s, h)
    OBVIOUS
  <2>2. /\ IsFiniteSet(EventsOf(s, h)) /\ Charge[e] \in Int /\ e.value \in Nat
        /\ Charge[e] = e.value * meter[e] /\ Billed(s, h) = SumOver(Charge, EventsOf(s, h))
    <3>1. IsFiniteSet(EventsOf(s, h)) /\ Billed(s, h) = SumOver(Charge, EventsOf(s, h))
      BY HourEvents, Zenon
    <3>2. \A x \in EventsOf(s, h) : Charge[x] \in Int /\ x.value \in Nat /\ Charge[x] = x.value * meter[x]
      BY HourEvents
    <3> QED
      BY <2>1, <3>1, <3>2, Zenon
  <2>3. Charge[e] = e.value * 1
    BY <2>2, Zenon
  <2>4. PICK S : S = EventsOf(s, h)
    BY Zenon
  <2>5. IsFiniteSet(S) /\ Billed(s, h) = SumOver(Charge, S) /\ S = {e}
    <3>1. \A x : x \in S <=> x = e
      BY <2>4, Zenon
    <3> QED
      BY <2>2, <2>4, <3>1, Zenon
  <2> QED
    BY <2>2, <2>3, <2>5
<1>2. SumOver(Charge, {e}) = Charge[e] + SumOver(Charge, {e} \ {e})
  <2>1. e \in {e} /\ \A y \in {e} : Charge[y] \in Int
    BY <1>1
  <2> QED
    BY <1>1, <2>1, SumRemove
<1>3. {e} \ {e} = {}
  OBVIOUS
<1>4. SumOver(Charge, {e} \ {e}) = 0
  BY <1>3, SumEmpty, Zenon
<1> QED
  BY <1>1, <1>2, <1>4

\* While Stripe remembers identifiers, one zone gives an hour one event, counted once.
LEMMA BilledOnce ==
    ASSUME MeterInv, ~forgot, \A y, z \in Zones : y = z, NEW s, NEW h \in Nat \ {0}
    PROVE  Billed(s, h) <= Total(In(recorded, s, h))
<1> DEFINE S == EventsOf(s, h)
<1>1. /\ \A e \in DOMAIN meter : e.id \in known /\ meter[e] = 1
      /\ \A e, f \in DOMAIN meter : e.id = f.id => e = f
  BY Zenon DEF MeterInv, CountsOnce
<1>2. ASSUME NEW e \in S
      PROVE  e \in DOMAIN meter /\ e.subject = s /\ e.hour = h /\ Pushed(e)
  BY HourEvents
<1>3. ASSUME NEW e \in S, NEW f \in S PROVE e = f
  <2>1. PICK y \in Zones : e.id = reconcileIdentifier(e.subject, e.hour, y)
    BY <1>2, Zenon DEF Pushed
  <2>2. PICK z \in Zones : f.id = reconcileIdentifier(f.subject, f.hour, z)
    BY <1>2, Zenon DEF Pushed
  <2>3. y = z /\ e.subject = f.subject /\ e.hour = f.hour
    BY <1>2, Zenon
  <2> QED
    BY <1>1, <1>2, <2>1, <2>2, <2>3, Zenon
<1>4. CASE S = {}
  <2>1. Billed(s, h) = SumOver(Charge, {})
    <3>1. Billed(s, h) = SumOver(Charge, EventsOf(s, h))
      BY HourEvents
    <3> QED
      BY <1>4, <3>1, Zenon
  <2>2. Billed(s, h) = 0
    BY <2>1, SumEmpty, Zenon
  <2>3. Total(In(recorded, s, h)) \in Nat
    BY InRows DEF MeterInv, RowsKept
  <2> QED
    BY <2>2, <2>3
<1>5. ASSUME NEW e \in S PROVE Billed(s, h) <= Total(In(recorded, s, h))
  <2>1. \A x : x \in EventsOf(s, h) <=> x = e
    BY <1>3, <1>5, Zenon
  <2>2. meter[e] = 1 /\ e.value <= Total(In(recorded, s, h))
    BY <1>1, <1>2, Zenon DEF Pushed
  <2>3. Billed(s, h) = e.value
    BY <2>1, <2>2, BilledByOne, Zenon
  <2> QED
    BY <2>2, <2>3, Zenon
<1> QED
  BY <1>4, <1>5, Zenon

\* However many instances reconcile, and whichever pushes are lost and repeated, an hour
\* is never billed beyond its recorded usage while Stripe remembers identifiers, provided
\* the instances' times are all in one zone (reconcileIdentifier hashes the zone as well).
THEOREM NoHourOverbilled ==
    ASSUME \A y, z \in Zones : y = z
    PROVE  MeteringSpec => []NeverOverbilled
<1>1. MeterInv => NeverOverbilled
  <2> SUFFICES ASSUME MeterInv, ~forgot, NEW s \in Subjects, NEW h \in 1..MaxHour
               PROVE  Billed(s, h) <= Total(In(recorded, s, h))
    BY Zenon DEF NeverOverbilled
  <2>1. h \in Nat \ {0}
    BY HourAssumption DEF HourAssumption
  <2> QED
    BY <2>1, BilledOnce, Zenon
<1> QED
  BY <1>1, MeterInvariant, PTL

\* Once the checkpoint has passed an hour that was over and complete when it was first
\* reconciled, it is billed in full to every subject that had a customer, whatever push
\* failed on the way and whatever zones the instances' times have.
THEOREM ClosedHoursAlwaysBilled == MeteringSpec => []ClosedHoursBilled
<1>1. MeterInv => ClosedHoursBilled
  <2> SUFFICES ASSUME MeterInv, NEW s \in Subjects, NEW h \in 1..checkpoint,
                      <<s, h>> \notin excused
               PROVE  Billed(s, h) >= Total(In(recorded, s, h))
    BY Zenon DEF ClosedHoursBilled
  <2>1. h \in Nat \ {0}
    BY DEF MeterInv, HoursServed
  <2>2. Billed(s, h) \in Nat
    BY <2>1, HourEvents, Zenon
  <2>3. In(recorded, s, h) = {} \/ \E e \in DOMAIN meter : e.subject = s /\ e.hour = h
    BY Zenon DEF MeterInv, HoursServed, Served
  <2>4. CASE In(recorded, s, h) = {}
    BY <2>2, <2>4, TotalEmpty
  <2>5. ASSUME NEW e \in DOMAIN meter, e.subject = s /\ e.hour = h
        PROVE  Billed(s, h) >= Total(In(recorded, s, h))
    <3>1. e \in EventsOf(s, h)
      BY <2>5, Zenon DEF EventsOf
    <3>2. e.value <= Billed(s, h)
      BY <2>1, <3>1, BilledAtLeast, Zenon
    <3>3. Pushed(e)
      BY <2>1, <3>1, HourEvents, Zenon
    <3>4. e.value \in Nat /\ e.value = Total(In(recorded, s, h))
      BY <2>5, <3>3, Zenon DEF Pushed
    <3> QED
      BY <2>2, <3>2, <3>4
  <2> QED
    BY <2>3, <2>4, <2>5, Zenon
<1> QED
  BY <1>1, MeterInvariant, PTL

=============================================================================
