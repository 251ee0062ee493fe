----------------------------- MODULE MirrorProofs -----------------------------
(***************************************************************************)
(* Subscriptions, for any number of them, of versions, callers, reconcile  *)
(* passes, repeated and lost events and for both repos.                    *)
(*                                                                         *)
(* The mirror never shows a state from an earlier second than an event it  *)
(* was updated from.  NewestApplied compares the seconds of versions; the  *)
(* code compares stamps.  The two are tied by Fits, a row's stamp is no    *)
(* later than its version's second, and by Watermark, the stored stamp is  *)
(* no earlier than any applied event's.  With StatusInv, a deletion is the *)
(* last version and its rows are canceled, a subject whose deletions were  *)
(* applied is entitled to nothing.                                         *)
(*                                                                         *)
(* A subscription carries one plan, and a seat count lands on the price it *)
(* was asked for.  BodyInv ties the versions to each other: an item's id   *)
(* is never used for a second price.  CallInv ties a pending write to what *)
(* its call has read, possibly long ago.                                   *)
(***************************************************************************)
EXTENDS Plans, TLAPS

AllKinds == {"created", "updated", "deleted", "paused", "resumed"}
Versions == [kind: AllKinds, status: Statuses, second: Nat]

Typed ==
    /\ repo \in {"memory", "postgres"}
    /\ clock \in Nat
    /\ history \in [Subs -> Seq(Versions)]
    /\ mirror \in [Subs -> RowType]
    /\ pass \subseteq [sub: Subs, row: RowType]
    /\ applied \subseteq Subs \X Nat

\* Stripe's clock never runs backwards.
Ordered ==
    \A s \in Subs : \A j \in 1..Len(history[s]) :
        /\ history[s][j].second <= clock
        /\ \A i \in 1..j : history[s][i].second <= history[s][j].second

\* Events are of versions that exist.
Known == \A s \in Subs : \A v : <<s, v>> \in pending \cup applied => v \in 1..Len(history[s])

\* A row that was parsed from an event or projected from a list.
Fits(s, row) ==
    /\ row.version \in 1..Len(history[s])
    /\ row.stamp <= history[s][row.version].second

Stamped ==
    /\ \A s \in Subs : mirror[s] = NoRow \/ Fits(s, mirror[s])
    /\ \A l \in pass : Fits(l.sub, l.row)

\* What Upsert's comparison keeps true.
Watermark ==
    \A s \in Subs : \A v : <<s, v>> \in applied =>
        mirror[s] # NoRow /\ history[s][v].second <= mirror[s].stamp

MInv == Typed /\ Ordered /\ Known /\ Stamped /\ Watermark

-----------------------------------------------------------------------------
\* The mirror starts empty.
LEMMA InitMInv == OpsInit => MInv
<1> SUFFICES ASSUME OpsInit PROVE MInv
  OBVIOUS
<1>1. \A s \in Subs : history[s] = <<>> /\ mirror[s] = NoRow
  BY Zenon DEF OpsInit, Init
<1>2. NoRow \in RowType
  BY Zenon DEF NoRow, RowType
<1>3. <<>> \in Seq(Versions) /\ Len(<<>>) = 0
  OBVIOUS
<1>4. Typed
  BY <1>2, <1>3, MirrorAssumption, Zenon DEF OpsInit, Init, Typed
<1>5. Ordered
  BY <1>1, <1>3 DEF Ordered
<1>6. Known /\ Stamped /\ Watermark
  BY <1>1, Zenon DEF OpsInit, Init, Known, Stamped, Watermark
<1> QED
  BY <1>4, <1>5, <1>6, Zenon DEF MInv

\* A step that leaves the mirror and what feeds it alone, except that Stripe may
\* stop delivering an event.
LEMMA IdleStep ==
    ASSUME MInv, UNCHANGED <<repo, clock, history, mirror, pass, applied>>,
           pending' \subseteq pending
    PROVE  MInv'
<1>1. Typed' /\ Ordered'
  BY Zenon DEF MInv, Typed, Ordered
<1>2. Known' /\ Stamped' /\ Watermark'
  BY Zenon DEF MInv, Known, Stamped, Watermark, Fits
<1> QED
  BY <1>1, <1>2, Zenon DEF MInv

\* A new version comes last and in no earlier second.
LEMMA ChangeStep ==
    ASSUME MInv, NEW s, NEW kind \in AllKinds, Change(s, kind)
    PROVE  MInv'
<1> DEFINE new == [kind |-> kind, status |-> StatusAfter(kind), second |-> clock]
<1> USE DEF MInv
<1>1. clock \in Nat /\ clock' \in Nat /\ clock' >= clock
  BY DEF Typed, Change
<1>2. StatusAfter(kind) \in Statuses
  BY Zenon DEF StatusAfter, Statuses
<1>3. new \in Versions /\ new.second = clock
  BY <1>1, <1>2, Zenon DEF Versions
<1>4. history' = [history EXCEPT ![s] = Append(@, new)]
  BY Zenon DEF Change
<1> HIDE DEF new
<1>5. ASSUME NEW t \in Subs
      PROVE  /\ history[t] \in Seq(Versions) /\ Len(history[t]) \in Nat
             /\ history'[t] \in Seq(Versions)
             /\ history'[t] = history[t] \/ (t = s /\ history'[t] = Append(history[t], new))
             /\ Len(history'[t]) >= Len(history[t])
             /\ \A i \in 1..Len(history[t]) : history'[t][i] = history[t][i]
             /\ \A i \in 1..Len(history'[t]) : i \in 1..Len(history[t]) \/ history'[t][i] = new
             /\ \A i \in 1..Len(history[t]) : history[t][i].second \in Nat
  <2>1. history[t] \in Seq(Versions)
    BY Zenon DEF Typed
  <2>2. history'[t] = history[t] \/ (t = s /\ history'[t] = Append(history[t], new))
    BY <1>4, Zenon DEF Typed
  <2>3. /\ Append(history[t], new) \in Seq(Versions)
        /\ Len(Append(history[t], new)) = Len(history[t]) + 1
        /\ \A i \in 1..Len(history[t]) : Append(history[t], new)[i] = history[t][i]
        /\ Append(history[t], new)[Len(history[t]) + 1] = new
    BY <1>3, <2>1
  <2>4. Len(history[t]) \in Nat
    BY <2>1
  <2>5. \A i \in 1..Len(history[t]) : history[t][i].second \in Nat
    <3>1. \A i \in 1..Len(history[t]) : history[t][i] \in Versions
      BY <2>1
    <3> QED
      BY <3>1, Zenon DEF Versions
  <2>6. \A i \in 1..(Len(history[t]) + 1) : i \in 1..Len(history[t]) \/ i = Len(history[t]) + 1
    BY <2>4
  <2>7. CASE history'[t] = history[t]
    BY <2>1, <2>4, <2>5, <2>7
  <2>8. CASE t = s /\ history'[t] = Append(history[t], new)
    BY <2>1, <2>3, <2>4, <2>5, <2>6, <2>8
  <2> QED
    BY <2>2, <2>7, <2>8, Zenon
<1>6. history' \in [Subs -> Seq(Versions)]
  BY <1>4, <1>5, Zenon DEF Typed
<1>7. Typed'
  BY <1>1, <1>6, Zenon DEF Typed, Change
<1>8. Ordered'
  <2> SUFFICES ASSUME NEW t \in Subs, NEW j \in 1..Len(history'[t]), NEW i \in 1..j
               PROVE  /\ history'[t][j].second <= clock'
                      /\ history'[t][i].second <= history'[t][j].second
    BY DEF Ordered
  <2>0. i \in 1..Len(history'[t]) /\ Len(history'[t]) \in Nat
    BY <1>5
  <2>1. CASE j \in 1..Len(history[t])
    <3>1. i \in 1..Len(history[t]) /\ history[t][j].second \in Nat
      BY <1>5, <2>1
    <3>2. history[t][j].second <= clock /\ history[t][i].second <= history[t][j].second
      BY <2>1, Zenon DEF Ordered
    <3> QED
      BY <1>1, <1>5, <2>1, <3>1, <3>2
  <2>2. CASE history'[t][j] = new
    <3>1. CASE history'[t][i] = new
      BY <1>1, <1>3, <2>2, <3>1
    <3>2. CASE i \in 1..Len(history[t])
      BY <1>1, <1>3, <1>5, <2>2, <3>2, Zenon DEF Ordered
    <3> QED
      BY <1>5, <2>0, <3>1, <3>2, Zenon
  <2> QED
    BY <1>5, <2>1, <2>2, Zenon
<1>9. Known'
  <2> SUFFICES ASSUME NEW t \in Subs, NEW v, <<t, v>> \in (pending \cup applied)'
               PROVE  v \in 1..Len(history'[t])
    BY Zenon DEF Known
  <2>1. CASE <<t, v>> \in pending \cup applied
    BY <1>5, <2>1 DEF Known
  <2>2. CASE t = s /\ v = Len(history[t]) + 1
    <3>1. history'[t] = Append(history[t], new)
      BY <1>4, <2>2, Zenon DEF Typed
    <3> QED
      BY <1>3, <1>5, <2>2, <3>1
  <2> QED
    BY <2>1, <2>2, Zenon DEF Change
<1>10. ASSUME NEW t \in Subs, NEW row \in RowType, Fits(t, row)
       PROVE  Fits(t, row)'
  BY <1>5, <1>10 DEF Fits
<1>11. Stamped'
  <2>1. ASSUME NEW t \in Subs
        PROVE  mirror'[t] = NoRow \/ Fits(t, mirror[t])'
    <3>1. PICK row \in RowType : row = mirror[t]
      BY Zenon DEF Typed
    <3>2. row = NoRow \/ Fits(t, row)'
      BY <1>10, <3>1, Zenon DEF Stamped
    <3> QED
      BY <3>1, <3>2, Zenon DEF Fits, Change
  <2>2. ASSUME NEW l \in pass
        PROVE  Fits(l.sub, l.row)'
    BY <1>10, Zenon DEF Stamped, Typed
  <2> QED
    BY <2>1, <2>2, Zenon DEF Stamped, Change
<1>12. Watermark'
  BY <1>5, Zenon DEF Watermark, Known, Change
<1> QED
  BY <1>7, <1>8, <1>9, <1>11, <1>12, Zenon

\* Upsert stores the new row or keeps one that is at least as new, whatever the repo.
LEMMA UpsertKeeps ==
    ASSUME MInv, NEW s \in Subs, NEW row \in RowType, Fits(s, row), Upsert(s, row),
           UNCHANGED history
    PROVE  /\ mirror' \in [Subs -> RowType]
           /\ \A t \in Subs : mirror'[t] = NoRow \/ Fits(t, mirror[t])'
           /\ \A t \in Subs : mirror[t] # NoRow =>
                 mirror'[t] # NoRow /\ mirror[t].stamp <= mirror'[t].stamp
           /\ mirror'[s] # NoRow /\ row.stamp <= mirror'[s].stamp
<1> USE DEF MInv
<1>1. mirror[s] \in RowType /\ mirror \in [Subs -> RowType] /\ repo \in {"memory", "postgres"}
  BY Zenon DEF Typed
<1>2. row.stamp \in Nat /\ mirror[s].stamp \in Nat
  BY <1>1, Zenon DEF RowType
<1>3. row # NoRow
  <2>1. Len(history[s]) \in Nat
    BY DEF Typed
  <2>2. row.version # 0
    BY <2>1 DEF Fits
  <2> QED
    BY <2>2 DEF NoRow
<1>4. \A t \in Subs : mirror[t].stamp \in Nat
  BY <1>1, Zenon DEF RowType
<1>5. CASE Replaces(mirror[s], row)
  <2>1. /\ mirror'[s] = row
        /\ \A t \in Subs \ {s} : mirror'[t] = mirror[t]
        /\ mirror' \in [Subs -> RowType]
    BY <1>1, <1>5, Zenon DEF Upsert
  <2>2. mirror[s] = NoRow \/ mirror[s].stamp <= row.stamp
    BY <1>2, <1>5 DEF Replaces
  <2>3. \A t \in Subs : mirror'[t] = NoRow \/ Fits(t, mirror[t])'
    BY <2>1, Zenon DEF Stamped, Fits
  <2> QED
    BY <1>2, <1>3, <1>4, <2>1, <2>2, <2>3
<1>6. CASE ~Replaces(mirror[s], row)
  <2>1. mirror' = mirror
    BY <1>6, Zenon DEF Upsert
  <2>2. mirror[s] # NoRow /\ row.stamp <= mirror[s].stamp
    BY <1>1, <1>2, <1>6 DEF Replaces
  <2>3. \A t \in Subs : mirror'[t] = NoRow \/ Fits(t, mirror[t])'
    BY <2>1, Zenon DEF Stamped, Fits
  <2> QED
    BY <1>1, <1>4, <2>1, <2>2, <2>3
<1> QED
  BY <1>5, <1>6, Zenon

\* The row of an event fits, and its stamp is the event's second.
LEMMA EventFits ==
    ASSUME MInv, NEW s \in Subs, NEW v \in 1..Len(history[s])
    PROVE  /\ FromEvent(s, v) \in RowType
           /\ Fits(s, FromEvent(s, v))
           /\ FromEvent(s, v).stamp = history[s][v].second
<1>1. history[s] \in Seq(Versions) /\ Len(history[s]) \in Nat
  BY DEF MInv, Typed
<1>2. history[s][v] \in Versions
  BY <1>1
<1>3. history[s][v].status \in Statuses /\ history[s][v].second \in Nat /\ v \in Nat
  BY <1>1, <1>2 DEF Versions
<1>4. FromEvent(s, v) \in RowType
  BY <1>3, Zenon DEF FromEvent, RowType, Statuses
<1> QED
  BY <1>3, <1>4 DEF FromEvent, Fits

\* A handler that is dispatched raises the watermark to its event's second.
LEMMA HandleEventStep ==
    ASSUME MInv, NEW s \in Subs, NEW v, HandleEvent(s, v)
    PROVE  MInv'
<1>1. v \in 1..Len(history[s]) /\ UNCHANGED <<repo, clock, history, pass>> /\ pending' \subseteq pending
  BY Zenon DEF HandleEvent, MInv, Known
<1>2. CASE UNCHANGED <<mirror, applied>>
  BY <1>1, <1>2, IdleStep, Zenon
<1>3. CASE Upsert(s, FromEvent(s, v)) /\ applied' = applied \cup {<<s, v>>}
  <2>0. PICK row : row = FromEvent(s, v)
    OBVIOUS
  <2>1. row \in RowType /\ Fits(s, row) /\ row.stamp = history[s][v].second
    BY <1>1, <2>0, EventFits, Zenon
  <2>2. /\ mirror' \in [Subs -> RowType]
        /\ \A t \in Subs : mirror'[t] = NoRow \/ Fits(t, mirror[t])'
        /\ \A t \in Subs : mirror[t] # NoRow =>
              mirror'[t] # NoRow /\ mirror[t].stamp <= mirror'[t].stamp
        /\ mirror'[s] # NoRow /\ row.stamp <= mirror'[s].stamp
    BY <1>1, <1>3, <2>0, <2>1, UpsertKeeps, Zenon
  <2>3. Len(history[s]) \in Nat /\ v \in Nat
    BY <1>1 DEF MInv, Typed
  <2>4. Typed' /\ Ordered'
    <3>1. applied' \subseteq Subs \X Nat
      BY <1>3, <2>3 DEF MInv, Typed
    <3>2. Typed'
      BY <1>1, <2>2, <3>1, Zenon DEF MInv, Typed
    <3>3. Ordered'
      BY <1>1, Zenon DEF MInv, Ordered
    <3> QED
      BY <3>2, <3>3, Zenon
  <2>5. Known'
    BY <1>1, <1>3, Zenon DEF MInv, Known
  <2>6. Stamped'
    BY <1>1, <2>2, Zenon DEF MInv, Stamped, Fits
  <2>7. Watermark'
    <3> SUFFICES ASSUME NEW t \in Subs, NEW u, <<t, u>> \in applied'
                 PROVE  mirror'[t] # NoRow /\ history[t][u].second <= mirror'[t].stamp
      BY <1>1, Zenon DEF Watermark
    <3>1. CASE <<t, u>> \in applied
      <4>1. u \in 1..Len(history[t]) /\ mirror[t] # NoRow /\ history[t][u].second <= mirror[t].stamp
        BY <3>1, Zenon DEF MInv, Known, Watermark
      <4>2. history[t] \in Seq(Versions)
        BY Zenon DEF MInv, Typed
      <4>3. history[t][u] \in Versions
        BY <4>1, <4>2
      <4>4. history[t][u].second \in Nat
        BY <4>3, Zenon DEF Versions
      <4>5. mirror[t].stamp \in Nat /\ mirror'[t].stamp \in Nat
        BY <2>2, Zenon DEF MInv, Typed, RowType
      <4> QED
        BY <2>2, <4>1, <4>4, <4>5
    <3>2. CASE t = s /\ u = v
      BY <2>1, <2>2, <3>2, Zenon
    <3> QED
      BY <1>3, <3>1, <3>2, Zenon
  <2> QED
    BY <2>4, <2>5, <2>6, <2>7, Zenon DEF MInv
<1> QED
  BY <1>2, <1>3, Zenon DEF HandleEvent

\* What a reconcile pass lists fits: the stamp is that of the first version.
LEMMA ListStep ==
    ASSUME MInv, NEW since, NEW wanted \in SUBSET Subs, List(since, wanted)
    PROVE  MInv'
<1> USE DEF MInv
<1>1. UNCHANGED <<repo, clock, history, pending, mirror, applied>>
  BY Zenon DEF List
<1>2. ASSUME NEW s \in Subs, history[s] # <<>>
      PROVE  FromList(s) \in RowType /\ Fits(s, FromList(s))
  <2>1. history[s] \in Seq(Versions) /\ Len(history[s]) \in Nat
    BY DEF Typed
  <2>2. Len(history[s]) \in 1..Len(history[s]) /\ 1 \in 1..Len(history[s])
    BY <1>2, <2>1
  <2>3. history[s][Len(history[s])] \in Versions /\ history[s][1] \in Versions
    BY <2>1, <2>2
  <2>4. history[s][1].second <= history[s][Len(history[s])].second
    BY <2>2, Zenon DEF Ordered
  <2>5. FromList(s) \in RowType
    BY <2>1, <2>3, Zenon DEF FromList, RowType, Versions
  <2> QED
    BY <2>2, <2>4, <2>5, Zenon DEF FromList, Fits
<1>3. ASSUME NEW l \in pass'
      PROVE  l \in [sub: Subs, row: RowType] /\ Fits(l.sub, l.row)
  <2>1. CASE l \in pass
    BY <2>1, Zenon DEF Typed, Stamped
  <2>2. CASE \E s \in wanted : history[s] # <<>> /\ l = [sub |-> s, row |-> FromList(s)]
    BY <1>2, <2>2
  <2> QED
    BY <2>1, <2>2, Zenon DEF List
<1>4. Typed' /\ Ordered'
  BY <1>1, <1>3, Zenon DEF Typed, Ordered
<1>5. Known' /\ Stamped' /\ Watermark'
  BY <1>1, <1>3, Zenon DEF Known, Stamped, Watermark, Fits
<1> QED
  BY <1>4, <1>5, Zenon

\* upsertReconciled goes through the same comparison.
LEMMA UpsertListedStep ==
    ASSUME MInv, NEW l \in pass, UpsertListed(l)
    PROVE  MInv'
<1> USE DEF MInv
<1>1. UNCHANGED <<repo, clock, history, pending, applied>> /\ pass' \subseteq pass
  BY Zenon DEF UpsertListed
<1>2. \A m \in pass' : Fits(m.sub, m.row)
  BY <1>1, Zenon DEF Stamped
<1>3. CASE UNCHANGED mirror
  <2>1. Typed' /\ Ordered'
    BY <1>1, <1>3, Zenon DEF Typed, Ordered
  <2>2. Known' /\ Stamped' /\ Watermark'
    BY <1>1, <1>2, <1>3, Zenon DEF Known, Stamped, Watermark, Fits
  <2> QED
    BY <2>1, <2>2, Zenon
<1>4. CASE Upsert(l.sub, l.row)
  <2>1. l.sub \in Subs /\ l.row \in RowType /\ Fits(l.sub, l.row)
    BY Zenon DEF Typed, Stamped
  <2>2. /\ mirror' \in [Subs -> RowType]
        /\ \A t \in Subs : mirror'[t] = NoRow \/ Fits(t, mirror[t])'
        /\ \A t \in Subs : mirror[t] # NoRow =>
              mirror'[t] # NoRow /\ mirror[t].stamp <= mirror'[t].stamp
    BY <1>1, <1>4, <2>1, UpsertKeeps, Zenon
  <2>3. Typed' /\ Ordered'
    BY <1>1, <2>2, Zenon DEF Typed, Ordered
  <2>4. Known' /\ Stamped'
    BY <1>1, <1>2, <2>2, Zenon DEF Known, Stamped, Fits
  <2>5. Watermark'
    <3> SUFFICES ASSUME NEW t \in Subs, NEW u, <<t, u>> \in applied
                 PROVE  mirror'[t] # NoRow /\ history[t][u].second <= mirror'[t].stamp
      BY <1>1, Zenon DEF Watermark
    <3>1. u \in 1..Len(history[t]) /\ mirror[t] # NoRow /\ history[t][u].second <= mirror[t].stamp
      BY Zenon DEF Known, Watermark
    <3>2. history[t] \in Seq(Versions)
      BY Zenon DEF Typed
    <3>3. history[t][u] \in Versions
      BY <3>1, <3>2
    <3>4. history[t][u].second \in Nat
      BY <3>3, Zenon DEF Versions
    <3>5. mirror[t].stamp \in Nat /\ mirror'[t].stamp \in Nat
      BY <2>2, Zenon DEF Typed, RowType
    <3> QED
      BY <2>2, <3>1, <3>4, <3>5
  <2> QED
    BY <2>3, <2>4, <2>5, Zenon
<1> QED
  BY <1>3, <1>4, Zenon DEF UpsertListed

-----------------------------------------------------------------------------
\* Every step of the app, of Stripe and of the mirror keeps the invariant.
LEMMA NextMInv ==
    ASSUME MInv, [OpsNext]_allVars
    PROVE  MInv'
<1>1. CASE UNCHANGED mirrorVars
  BY <1>1, IdleStep, Zenon DEF mirrorVars
<1>2. Kinds \subseteq AllKinds
  BY MirrorAssumption, Zenon DEF Kinds, AllKinds
<1>3. ASSUME NEW c \in Clients, Send(c)
      PROVE  MInv'
  <2>1. PICK w : w = call[c].w
    OBVIOUS
  <2>2. UNCHANGED vars \/ \E kind \in {"deleted", "updated"} : Change(w.sub, kind)
    BY <1>3, <2>1, Zenon DEF Send, Execute
  <2>3. CASE UNCHANGED vars
    BY <1>1, <2>3, Zenon DEF vars, mirrorVars
  <2> QED
    BY <2>2, <2>3, ChangeStep, Zenon DEF AllKinds
<1>4. ASSUME NEW s \in Subs, NEW kind \in Kinds, ChangedByStripe(s, kind)
      PROVE  MInv'
  BY <1>2, <1>4, ChangeStep, Zenon DEF ChangedByStripe
<1>5. CASE MirrorStep
  <2>1. ASSUME NEW e \in pending, Lose(e)
        PROVE  MInv'
    BY <2>1, IdleStep, Zenon DEF Lose
  <2> QED
    BY <1>5, <2>1, HandleEventStep, ListStep, UpsertListedStep, Zenon DEF MirrorStep, Handle
<1>6. ASSUME NEW c \in Clients, NEW s \in Subs, NEW o, Begin(c, s, o) \/ AddSeats(c, s, o)
      PROVE  MInv'
  BY <1>1, <1>6, Zenon DEF Begin, AddSeats
<1>7. ASSUME NEW c \in Clients, AddSeatsSets(c) \/ SendFails(c) \/ KeysExpire
      PROVE  MInv'
  BY <1>1, <1>7, Zenon DEF AddSeatsSets, SendFails, KeysExpire, vars, mirrorVars
<1>8. CASE KeysExpire \/ UNCHANGED allVars
  BY <1>1, <1>8, Zenon DEF KeysExpire, vars, allVars, mirrorVars
<1> QED
  BY <1>3, <1>4, <1>5, <1>6, <1>7, <1>8, Zenon DEF OpsNext, CancelSubscriptionFromFailedRefund

\* However events are reordered, repeated and lost, and whatever reconcile passes and
\* operations come in between, the mirror shows no state from an earlier second than
\* an event it was updated from.
THEOREM MirrorKeepsNewest == OpsSpec => []NewestApplied
<1>1. MInv /\ [OpsNext]_allVars => MInv'
  BY NextMInv, Zenon
<1>2. MInv => NewestApplied
  <2> SUFFICES ASSUME MInv, NEW e \in applied
               PROVE  /\ mirror[e[1]].version > 0
                      /\ history[e[1]][mirror[e[1]].version].second >= history[e[1]][e[2]].second
    BY Zenon DEF NewestApplied
  <2>1. PICK s \in Subs, v \in Nat : e = <<s, v>>
    BY DEF MInv, Typed
  <2>2. /\ v \in 1..Len(history[s]) /\ mirror[s] # NoRow
        /\ history[s][v].second <= mirror[s].stamp
    BY <2>1, Zenon DEF MInv, Known, Watermark
  <2>3. Fits(s, mirror[s])
    BY <2>2, Zenon DEF MInv, Stamped
  <2>4. history[s] \in Seq(Versions) /\ Len(history[s]) \in Nat /\ mirror[s].stamp \in Nat
    BY DEF MInv, Typed, RowType
  <2>5. history[s][v] \in Versions /\ history[s][mirror[s].version] \in Versions
    BY <2>2, <2>3, <2>4 DEF Fits
  <2>6. history[s][v].second \in Nat /\ history[s][mirror[s].version].second \in Nat
    BY <2>5, Zenon DEF Versions
  <2>7. /\ mirror[s].version > 0
        /\ history[s][mirror[s].version].second >= history[s][v].second
    <3>1. PICK k : k = mirror[s].version
      BY Zenon
    <3>2. k \in 1..Len(history[s]) /\ mirror[s].stamp <= history[s][k].second
      BY <2>3, <3>1, Zenon DEF Fits
    <3>3. k > 0
      BY <2>4, <3>2, SMT
    <3>4. history[s][k].second >= history[s][v].second
      BY <2>2, <2>4, <2>6, <3>1, <3>2, SMT
    <3> QED
      BY <3>1, <3>3, <3>4, Zenon
  <2>8. e[1] = s /\ e[2] = v
    BY <2>1, Zenon
  <2> QED
    BY <2>7, <2>8, Zenon
<1> QED
  BY InitMInv, <1>1, <1>2, PTL DEF OpsSpec

-----------------------------------------------------------------------------
(* What is on a subscription.                                              *)

ItemType == [price: STRING, qty: Int]
OneItem == UNION {[{i} -> ItemType] : i \in Nat \ {0}}
BodyType == [items: OneItem, ending: BOOLEAN, paused: BOOLEAN, coupon: STRING \cup {""}]

Single(i, item) == [j \in {i} |-> item]
Recount(item, n) == [price |-> item.price, qty |-> n]

\* A migration replaces the one item by one with a new id.
LEMMA ItemReplaced ==
    ASSUME NEW s, NEW i, i # 0, NEW price, DOMAIN Body(s).items = {i},
           Len(history[s]) + 1 # i
    PROVE  ItemsAfter(s, MigrateItems(i, price)) =
              Single(Len(history[s]) + 1, [price |-> price, qty |-> 1])
<1> DEFINE changes == MigrateItems(i, price)
           old == Body(s).items
           gone == {changes[k].item : k \in {j \in DOMAIN changes : changes[j].deleted}}
           set == {k \in DOMAIN changes : changes[k].item # 0 /\ ~changes[k].deleted}
           new == {k \in DOMAIN changes : changes[k].item = 0}
           id == Len(history[s]) + 1
<1>1. DOMAIN changes = {1, 2} /\ changes[1] = Delete(i) /\ changes[2] = Add(price)
  <2>1. PICK d, a : d = Delete(i) /\ a = Add(price)
    BY Zenon
  <2>2. DOMAIN <<d, a>> = {1, 2} /\ <<d, a>>[1] = d /\ <<d, a>>[2] = a
    OBVIOUS
  <2> QED
    BY <2>1, <2>2, Zenon DEF MigrateItems
<1>2. /\ changes[1].item = i /\ changes[1].deleted
      /\ changes[2].item = 0 /\ ~changes[2].deleted /\ changes[2].price = price /\ changes[2].qty = 1
  <2>1. Delete(i).item = i /\ Delete(i).deleted
    BY SMT DEF Delete
  <2>2. Add(price).item = 0 /\ ~Add(price).deleted /\ Add(price).price = price /\ Add(price).qty = 1
    BY SMT DEF Add
  <2> QED
    BY <1>1, <2>1, <2>2, Zenon
<1>3. i # 0
  OBVIOUS
<1> HIDE DEF changes
<1>4. gone = {i}
  BY <1>1, <1>2, Zenon
<1>5. new = {2}
  BY <1>1, <1>2, <1>3, Zenon
<1>6. (DOMAIN old \ gone) \cup {id : k \in new} = {id}
  BY <1>4, <1>5, Zenon
<1>7. (CHOOSE j \in new : TRUE) = 2
  BY <1>5, Zenon
<1>8. ItemsAfter(s, changes) =
        [j \in {id} |-> IF j \in DOMAIN old THEN [old[j] EXCEPT !.qty =
                            IF \E k \in set : changes[k].item = j
                            THEN changes[CHOOSE k \in set : changes[k].item = j].qty ELSE old[j].qty]
                        ELSE [price |-> changes[CHOOSE k \in new : TRUE].price,
                              qty |-> changes[CHOOSE k \in new : TRUE].qty]]
  BY <1>6, Zenon DEF ItemsAfter
<1>9. id \notin DOMAIN old
  BY Zenon
<1> HIDE DEF old, gone, set, new, id
<1>10. ItemsAfter(s, changes) = [j \in {id} |-> [price |-> price, qty |-> 1]]
  BY <1>2, <1>7, <1>8, <1>9, Zenon
<1> QED
  BY <1>10, Zenon DEF changes, id, Single

\* A seat count changes the quantity of the one item and nothing else.
LEMMA ItemCounted ==
    ASSUME NEW s, NEW i, i # 0, NEW n, DOMAIN Body(s).items = {i},
           Body(s).items[i] \in ItemType
    PROVE  ItemsAfter(s, <<Quantity(i, n)>>) =
              Single(i, Recount(Body(s).items[i], n))
<1> DEFINE changes == <<Quantity(i, n)>>
           old == Body(s).items
           gone == {changes[k].item : k \in {j \in DOMAIN changes : changes[j].deleted}}
           set == {k \in DOMAIN changes : changes[k].item # 0 /\ ~changes[k].deleted}
           new == {k \in DOMAIN changes : changes[k].item = 0}
           id == Len(history[s]) + 1
<1>1. DOMAIN changes = {1} /\ changes[1] = Quantity(i, n)
  OBVIOUS
<1>2. changes[1].item = i /\ ~changes[1].deleted /\ changes[1].qty = n
  BY <1>1, Zenon DEF Quantity
<1>3. i # 0
  OBVIOUS
<1> HIDE DEF changes
<1>4. gone = {}
  BY <1>1, <1>2, Zenon
<1>5. new = {}
  BY <1>1, <1>2, <1>3, Zenon
<1>6. set = {1}
  BY <1>1, <1>2, <1>3, Zenon
<1>7. (DOMAIN old \ gone) \cup {id : k \in new} = {i}
  BY <1>4, <1>5, Zenon
<1>8. (CHOOSE k \in set : changes[k].item = i) = 1 /\ \E k \in set : changes[k].item = i
  BY <1>2, <1>6, Zenon
<1>9. ItemsAfter(s, changes) =
        [j \in {i} |-> IF j \in DOMAIN old THEN [old[j] EXCEPT !.qty =
                            IF \E k \in set : changes[k].item = j
                            THEN changes[CHOOSE k \in set : changes[k].item = j].qty ELSE old[j].qty]
                        ELSE [price |-> changes[CHOOSE k \in new : TRUE].price,
                              qty |-> changes[CHOOSE k \in new : TRUE].qty]]
  BY <1>7, Zenon DEF ItemsAfter
<1>10. i \in DOMAIN old
  BY Zenon
<1>11. [old[i] EXCEPT !.qty = n] = [price |-> old[i].price, qty |-> n]
  BY DEF ItemType
<1> HIDE DEF old, gone, set, new, id
<1>12. ASSUME NEW j, j = i
       PROVE  (IF j \in DOMAIN old THEN [old[j] EXCEPT !.qty =
                    IF \E k \in set : changes[k].item = j
                    THEN changes[CHOOSE k \in set : changes[k].item = j].qty ELSE old[j].qty]
               ELSE [price |-> changes[CHOOSE k \in new : TRUE].price,
                     qty |-> changes[CHOOSE k \in new : TRUE].qty])
              = [price |-> old[i].price, qty |-> n]
  <2>1. (IF \E k \in set : changes[k].item = j
         THEN changes[CHOOSE k \in set : changes[k].item = j].qty ELSE old[j].qty) = n
    BY <1>2, <1>8, <1>12, Zenon
  <2> QED
    BY <1>10, <1>11, <1>12, <2>1, Zenon
<1>13. ItemsAfter(s, changes) = [j \in {i} |-> [price |-> old[i].price, qty |-> n]]
  BY <1>9, <1>12, Zenon
<1> QED
  BY <1>13, Zenon DEF changes, old, Single, Recount
\* A body is one item, typed.
LEMMA BodyFields ==
    ASSUME NEW b \in BodyType
    PROVE  \E i \in Nat \ {0} : DOMAIN b.items = {i} /\ b.items[i] \in ItemType
<1>1. b.items \in OneItem
  BY Zenon DEF BodyType
<1>2. PICK i \in Nat \ {0} : b.items \in [{i} -> ItemType]
  BY <1>1, Zenon DEF OneItem
<1> QED
  BY <1>2, Zenon

\* One item makes a body's items.
LEMMA SingleTyped ==
    ASSUME NEW i \in Nat \ {0}, NEW item \in ItemType
    PROVE  Single(i, item) \in OneItem
<1>1. Single(i, item) \in [{i} -> ItemType]
  BY Zenon DEF Single
<1> QED
  BY <1>1, SMT DEF OneItem

\* The arguments of a call have the types of its operation.
LEMMA OperationFields ==
    ASSUME NEW o \in Operation
    PROVE  /\ o.op = "migrate" => o.to \in STRING
           /\ o.op = "set_seats" => o.n \in Int /\ o.price \in STRING
           /\ o.op = "add_seats" => o.delta \in Int /\ o.price \in STRING
                                    /\ o.own \in BOOLEAN /\ o.prorate \in BOOLEAN
           /\ o.op = "adjust_seats" => o.n \in Int /\ o.item \in Nat
           /\ o.op = "cancel_at_end" => o.flag \in BOOLEAN
           /\ o.op = "apply_coupon" => o.coupon \in STRING
           /\ o.op \in {"migrate", "set_seats", "add_seats", "adjust_seats", "cancel_at_end",
                        "cancel_now", "pause", "resume", "apply_coupon", "remove_coupon"}
BY SMT DEF Operation

-----------------------------------------------------------------------------
(* The inductive invariant of the operations.                              *)

\* Every version holds one item.  An item's id is that of the version it came with,
\* and an item keeps its price for as long as it exists.
BodyInv ==
    /\ body \in [Subs -> Seq(BodyType)]
    /\ \A s \in Subs : Len(body[s]) = Len(history[s])
    /\ \A s \in Subs : \A v \in 1..Len(body[s]) : DOMAIN body[s][v].items \subseteq 1..v
    /\ \A s \in Subs : \A u, v \in 1..Len(body[s]) :
          \A i \in DOMAIN body[s][u].items \cap DOMAIN body[s][v].items :
             body[s][u].items[i].price = body[s][v].items[i].price

\* Item i was seen with this price in some version of s.
Had(s, i, price) ==
    \E v \in 1..Len(body[s]) : i \in DOMAIN body[s][v].items /\ body[s][v].items[i].price = price

\* What a pending write may be, for the call that resolved it.
Fitting(s, o, w) ==
    \/ /\ o.op = "migrate"
       /\ \E i \in 1..Len(body[s]) : w = UpdateItems(s, o.prorate, MigrateItems(i, o.to))
    \/ /\ o.op = "set_seats"
       /\ \E i \in 1..Len(body[s]) :
             Had(s, i, o.price) /\ w = UpdateItems(s, o.prorate, <<Quantity(i, o.n)>>)
    \/ /\ o.op = "adjust_seats" /\ o.item # 0
       /\ w = UpdateItems(s, o.prorate, <<Quantity(o.item, o.n)>>)
    \/ o.op = "cancel_at_end" /\ w = CancelAtPeriodEnd(s, o)
    \/ o.op = "cancel_now" /\ w = CancelNow(s, o)
    \/ o.op = "pause" /\ w = Pause(s, o)
    \/ o.op = "resume" /\ w = Resume(s, o)
    \/ o.op = "apply_coupon" /\ w = ApplyCoupon(s, o)
    \/ o.op = "remove_coupon" /\ w = RemoveCoupon(s, o)

Counted(x) ==
    \E s \in Subs, o \in Operation :
        x = [pc |-> "counted", sub |-> s, o |-> o] /\ o.op = "set_seats" /\ history[s] # <<>>
Sending(x) ==
    \E s \in Subs, o \in Operation : \E w :
        x = [pc |-> "send", o |-> o, w |-> w] /\ history[s] # <<>> /\ Fitting(s, o, w)

CallInv ==
    /\ call = [c \in Clients |-> call[c]]
    /\ \A c \in Clients : call[c] = NoCall \/ Counted(call[c]) \/ Sending(call[c])

EnvInv == "calls" \in DOMAIN env /\ env.calls \in Seq(SUBSET Operation)

PInv == MInv /\ BodyInv /\ CallInv /\ EnvInv

\* What executing o's write makes of s: the items stay, the one item has the count
\* that was asked for its price or its id, or the one item is a new one.
NewBody(s, o, b) ==
    /\ b \in BodyType
    /\ \/ b.items = Body(s).items
       \/ \E i \in DOMAIN Body(s).items :
             /\ b.items = Single(i, Recount(Body(s).items[i], o.n))
             /\ \/ o.op = "adjust_seats" /\ o.item = i
                \/ o.op = "set_seats" /\ o.price = Body(s).items[i].price
       \/ \E p : b.items = Single(Len(history[s]) + 1, [price |-> p, qty |-> 1])

\* The current body is the last version's.
LEMMA CurrentBody ==
    ASSUME BodyInv, MInv, NEW s \in Subs, history[s] # <<>>
    PROVE  /\ Len(history[s]) \in Nat \ {0} /\ Len(body[s]) = Len(history[s])
           /\ body[s] \in Seq(BodyType) /\ Body(s) \in BodyType
           /\ \E i \in 1..Len(history[s]) :
                 DOMAIN Body(s).items = {i} /\ Body(s).items[i] \in ItemType
<1>1. history[s] \in Seq(Versions) /\ body[s] \in Seq(BodyType) /\ Len(body[s]) = Len(history[s])
  BY Zenon DEF MInv, Typed, BodyInv
<1>2. Len(history[s]) \in Nat \ {0}
  BY <1>1
<1>3. Body(s) \in BodyType
  BY <1>1, <1>2 DEF Body
<1>4. PICK i \in Nat \ {0} : DOMAIN Body(s).items = {i} /\ Body(s).items[i] \in ItemType
  BY <1>3, BodyFields, Zenon
<1>5. Len(body[s]) \in 1..Len(body[s])
  BY <1>1, <1>2
<1>6. DOMAIN Body(s).items \subseteq 1..Len(body[s])
  BY <1>5, Zenon DEF BodyInv, Body
<1>7. i \in 1..Len(history[s])
  BY <1>1, <1>4, <1>6, Zenon
<1> QED
  BY <1>1, <1>2, <1>3, <1>4, <1>7, Zenon

\* A write that is not refused does no more than NewBody says.
LEMMA WriteEffect ==
    ASSUME MInv, BodyInv, NEW s \in Subs, NEW o \in Operation, NEW w, history[s] # <<>>,
           Fitting(s, o, w), ~Refused(w)
    PROVE  w.sub = s /\ NewBody(s, o, BodyAfter(w))
<1>1. PICK i \in 1..Len(history[s]) : DOMAIN Body(s).items = {i} /\ Body(s).items[i] \in ItemType
  BY CurrentBody, Zenon
<1>2. /\ Len(history[s]) \in Nat \ {0} /\ Len(body[s]) = Len(history[s])
      /\ body[s] \in Seq(BodyType) /\ Body(s) \in BodyType
  BY CurrentBody, Zenon
<1>3. i \in Nat \ {0} /\ i # 0 /\ Len(history[s]) + 1 \in Nat \ {0} /\ Len(history[s]) + 1 # i
  BY <1>2
<1>4. PICK b : b = Body(s)
  OBVIOUS
<1>5. ASSUME NEW its \in OneItem
      PROVE  [b EXCEPT !.items = its] \in BodyType /\ [b EXCEPT !.items = its].items = its
  BY <1>2, <1>4, <1>5, Zenon DEF BodyType
<1>6. ASSUME NEW p, NEW changes, w = UpdateItems(s, p, changes)
      PROVE  /\ w.sub = s
             /\ BodyAfter(w) = [b EXCEPT !.items = ItemsAfter(s, changes)]
             /\ \A k \in DOMAIN changes : changes[k].item \in {0, i}
  <2>1. w.sub = s /\ w.op = "subscription.update_items" /\ w.args = <<p, changes>>
    BY <1>6, Zenon DEF UpdateItems, Write
  <2>2. w.args[2] = changes
    BY <2>1
  <2>3. BodyAfter(w) = [b EXCEPT !.items = ItemsAfter(s, changes)]
    BY <1>4, <2>1, <2>2, Zenon DEF BodyAfter
  <2> QED
    BY <1>1, <2>1, <2>2, <2>3, Zenon DEF Refused
<1>7. ASSUME NEW n \in Int, NEW j, NEW p, w = UpdateItems(s, p, <<Quantity(j, n)>>), j # 0
      PROVE  /\ w.sub = s /\ j = i /\ BodyAfter(w) \in BodyType
             /\ BodyAfter(w).items = Single(i, Recount(Body(s).items[i], n))
  <2>1. PICK ch : ch = <<Quantity(j, n)>>
    BY Zenon
  <2>2. 1 \in DOMAIN ch /\ ch[1] = Quantity(j, n)
    BY <2>1
  <2>3. ch[1].item = j
    <3>1. Quantity(j, n).item = j
      BY SMT DEF Quantity
    <3> QED
      BY <2>2, <3>1, Zenon
  <2>4. j = i
    <3>1. \A k \in DOMAIN ch : ch[k].item \in {0, i}
      BY <1>6, <1>7, <2>1, Zenon
    <3> QED
      BY <1>7, <2>2, <2>3, <3>1, Zenon
  <2>5. ItemsAfter(s, <<Quantity(i, n)>>) =
            Single(i, Recount(Body(s).items[i], n))
    BY <1>1, <1>3, ItemCounted, Zenon
  <2>6. Recount(Body(s).items[i], n) \in ItemType
    BY <1>1, Zenon DEF ItemType, Recount
  <2>7. Single(i, Recount(Body(s).items[i], n)) \in OneItem
    BY <1>3, <2>6, SingleTyped, Zenon
  <2>8. ItemsAfter(s, ch) = Single(i, Recount(Body(s).items[i], n))
    BY <2>1, <2>4, <2>5, Zenon
  <2>9. w.sub = s /\ BodyAfter(w) = [b EXCEPT !.items = ItemsAfter(s, ch)]
    BY <1>6, <1>7, <2>1, Zenon
  <2> QED
    BY <1>5, <2>4, <2>7, <2>8, <2>9, Zenon
<1>8. CASE o.op = "migrate" /\
           \E j \in 1..Len(body[s]) : w = UpdateItems(s, o.prorate, MigrateItems(j, o.to))
  <2>1. PICK j \in 1..Len(body[s]) : w = UpdateItems(s, o.prorate, MigrateItems(j, o.to))
    BY <1>8, Zenon
  <2>2. j # 0
    BY <1>2
  <2>3. PICK ch : ch = MigrateItems(j, o.to)
    OBVIOUS
  <2>4. 1 \in DOMAIN ch /\ ch[1] = Delete(j)
    BY <2>3 DEF MigrateItems
  <2>5. ch[1].item = j
    <3>1. Delete(j).item = j
      BY SMT DEF Delete
    <3> QED
      BY <2>4, <3>1, Zenon
  <2>6. j = i
    <3>1. \A k \in DOMAIN ch : ch[k].item \in {0, i}
      BY <1>6, <2>1, <2>3, Zenon
    <3> QED
      BY <2>2, <2>4, <2>5, <3>1, Zenon
  <2>7. ItemsAfter(s, MigrateItems(i, o.to)) =
            Single(Len(history[s]) + 1, [price |-> o.to, qty |-> 1])
    BY <1>1, <1>3, ItemReplaced, Zenon
  <2>8. [price |-> o.to, qty |-> 1] \in ItemType
    BY <1>8, OperationFields, SMT DEF ItemType
  <2>9. Single(Len(history[s]) + 1, [price |-> o.to, qty |-> 1]) \in OneItem
    BY <1>3, <2>8, SingleTyped, Zenon
  <2> QED
    <3>1. w.sub = s /\ BodyAfter(w) = [b EXCEPT !.items = ItemsAfter(s, MigrateItems(i, o.to))]
      BY <1>6, <2>1, <2>6, Zenon
    <3>2. /\ BodyAfter(w) \in BodyType
          /\ BodyAfter(w).items = Single(Len(history[s]) + 1, [price |-> o.to, qty |-> 1])
      BY <1>5, <2>7, <2>9, <3>1, Zenon
    <3> QED
      BY <3>1, <3>2, Zenon DEF NewBody
<1>9. CASE o.op = "set_seats" /\
           \E j \in 1..Len(body[s]) :
              Had(s, j, o.price) /\ w = UpdateItems(s, o.prorate, <<Quantity(j, o.n)>>)
  <2>1. PICK j \in 1..Len(body[s]) :
           Had(s, j, o.price) /\ w = UpdateItems(s, o.prorate, <<Quantity(j, o.n)>>)
    BY <1>9, Zenon
  <2>2. j # 0 /\ o.n \in Int
    BY <1>2, <1>9, OperationFields
  <2>3. /\ w.sub = s /\ j = i /\ BodyAfter(w) \in BodyType
        /\ BodyAfter(w).items = Single(i, Recount(Body(s).items[i], o.n))
    BY <1>7, <2>1, <2>2, Zenon
  <2>4. PICK v \in 1..Len(body[s]) : i \in DOMAIN body[s][v].items /\ body[s][v].items[i].price = o.price
    BY <2>1, <2>3, Zenon DEF Had
  <2>5. Len(body[s]) \in 1..Len(body[s])
    BY <1>2
  <2>6. o.price = Body(s).items[i].price
    BY <1>1, <2>4, <2>5, Zenon DEF BodyInv, Body
  <2> QED
    BY <1>1, <1>9, <2>3, <2>6, Zenon DEF NewBody
<1>10. CASE o.op = "adjust_seats" /\ o.item # 0 /\
            w = UpdateItems(s, o.prorate, <<Quantity(o.item, o.n)>>)
  <2>1. o.n \in Int
    BY <1>10, OperationFields, Zenon
  <2>2. /\ w.sub = s /\ o.item = i /\ BodyAfter(w) \in BodyType
        /\ BodyAfter(w).items = Single(i, Recount(Body(s).items[i], o.n))
    BY <1>7, <1>10, <2>1, Zenon
  <2> QED
    BY <1>1, <1>10, <2>2, Zenon DEF NewBody
<1>11. CASE o.op = "cancel_at_end" /\ w = CancelAtPeriodEnd(s, o)
  <2>1. w.sub = s /\ w.op = "subscription.cancel_at_period_end" /\ w.args[1] = o.flag
    BY <1>11, Zenon DEF CancelAtPeriodEnd, Write
  <2>2. BodyAfter(w) = [b EXCEPT !.ending = o.flag]
    BY <1>4, <2>1, Zenon DEF BodyAfter
  <2>3. o.flag \in BOOLEAN
    BY <1>11, OperationFields, Zenon
  <2>4. BodyAfter(w) \in BodyType /\ BodyAfter(w).items = Body(s).items
    BY <1>2, <1>4, <2>2, <2>3, Zenon DEF BodyType
  <2> QED
    BY <2>1, <2>4, Zenon DEF NewBody
<1>12. CASE o.op = "cancel_now" /\ w = CancelNow(s, o)
  <2>1. w.sub = s /\ w.op = "subscription.cancel_now"
    BY <1>12, Zenon DEF CancelNow, Write
  <2>2. BodyAfter(w) = b
    BY <1>4, <2>1, Zenon DEF BodyAfter
  <2> QED
    BY <1>2, <1>4, <2>1, <2>2, Zenon DEF NewBody
<1>13. CASE (o.op = "pause" /\ w = Pause(s, o)) \/ (o.op = "resume" /\ w = Resume(s, o))
  <2>1. w.sub = s /\ w.op \in {"subscription.pause", "subscription.resume"}
    <3>1. CASE w = Pause(s, o)
      BY <3>1, Zenon DEF Pause, Write
    <3>2. CASE w = Resume(s, o)
      BY <3>2, Zenon DEF Resume, Write
    <3> QED
      BY <1>13, <3>1, <3>2, Zenon
  <2>2. BodyAfter(w) = [b EXCEPT !.paused = TRUE] \/ BodyAfter(w) = [b EXCEPT !.paused = FALSE]
    BY <1>4, <2>1, Zenon DEF BodyAfter
  <2>3. BodyAfter(w) \in BodyType /\ BodyAfter(w).items = Body(s).items
    BY <1>2, <1>4, <2>2, Zenon DEF BodyType
  <2> QED
    BY <2>1, <2>3, Zenon DEF NewBody
<1>14. CASE o.op = "apply_coupon" /\ w = ApplyCoupon(s, o)
  <2>1. w.sub = s /\ w.op = "subscription.apply_coupon" /\ w.args[1] = o.coupon
    BY <1>14, Zenon DEF ApplyCoupon, Write
  <2>2. BodyAfter(w) = [b EXCEPT !.coupon = o.coupon]
    BY <1>4, <2>1, Zenon DEF BodyAfter
  <2>3. o.coupon \in STRING
    BY <1>14, OperationFields, Zenon
  <2>4. BodyAfter(w) \in BodyType /\ BodyAfter(w).items = Body(s).items
    BY <1>2, <1>4, <2>2, <2>3, Zenon DEF BodyType
  <2> QED
    BY <2>1, <2>4, Zenon DEF NewBody
<1>15. CASE o.op = "remove_coupon" /\ w = RemoveCoupon(s, o)
  <2>1. w.sub = s /\ w.op = "subscription.remove_coupon"
    BY <1>15, Zenon DEF RemoveCoupon, Write
  <2>2. BodyAfter(w) = [b EXCEPT !.coupon = ""]
    BY <1>4, <2>1, Zenon DEF BodyAfter
  <2>4. BodyAfter(w) \in BodyType /\ BodyAfter(w).items = Body(s).items
    BY <1>2, <1>4, <2>2, Zenon DEF BodyType
  <2> QED
    BY <2>1, <2>4, Zenon DEF NewBody
<1> QED
  BY <1>8, <1>9, <1>10, <1>11, <1>12, <1>13, <1>14, <1>15, Zenon DEF Fitting

-----------------------------------------------------------------------------
(* Reading.                                                                *)

\* What a call reads is a version of the subscription, be it from the mirror or from
\* Stripe.
LEMMA ReadsVersion ==
    ASSUME MInv, BodyInv, NEW s \in Subs, history[s] # <<>>
    PROVE  /\ InMirror(s) => \E v \in 1..Len(body[s]) : GetByStripeID(s) = body[s][v]
           /\ \E v \in 1..Len(body[s]) : Body(s) = body[s][v]
<1>1. Len(history[s]) \in Nat \ {0} /\ Len(body[s]) = Len(history[s])
  BY CurrentBody, Zenon
<1>2. Len(body[s]) \in 1..Len(body[s])
  BY <1>1
<1>3. ASSUME InMirror(s)
      PROVE  mirror[s].version \in 1..Len(body[s])
  <2>1. mirror[s] # NoRow
    BY <1>3, SMT DEF InMirror, NoRow
  <2>2. Fits(s, mirror[s])
    BY <2>1, Zenon DEF MInv, Stamped
  <2> QED
    BY <1>1, <2>2, Zenon DEF Fits
<1> QED
  BY <1>2, <1>3, Zenon DEF GetByStripeID, Body

\* An item of a version.
LEMMA ItemOfVersion ==
    ASSUME MInv, BodyInv, NEW s \in Subs, history[s] # <<>>, NEW v \in 1..Len(body[s]),
           NEW i \in DOMAIN body[s][v].items
    PROVE  i \in 1..Len(body[s]) /\ body[s][v].items[i].qty \in Int
<1>1. body[s] \in Seq(BodyType) /\ Len(body[s]) \in Nat
  <2>1. body[s] \in Seq(BodyType)
    BY Zenon DEF BodyInv
  <2> QED
    BY <2>1
<1>2. body[s][v] \in BodyType
  BY <1>1
<1>3. body[s][v].items[i] \in ItemType
  BY <1>2, BodyFields, Zenon
<1>4. i \in 1..v
  BY Zenon DEF BodyInv
<1>5. i \in 1..Len(body[s])
  BY <1>1, <1>4
<1> QED
  BY <1>3, <1>5, Zenon DEF ItemType

\* resolveSeatItem finds an item that has, or once had, the price.
LEMMA SeatItem ==
    ASSUME MInv, BodyInv, NEW s \in Subs, history[s] # <<>>, NEW o, NEW r \in resolveSeatItem(s, o)
    PROVE  r.item \in 1..Len(body[s]) /\ Had(s, r.item, o.price) /\ r.qty \in Int
<1>1. PICK b : b = IF InMirror(s) THEN GetByStripeID(s) ELSE Body(s)
  OBVIOUS
<1>2. PICK v \in 1..Len(body[s]) : b = body[s][v]
  BY <1>1, ReadsVersion, Zenon
<1>3. r \in {[item |-> i, qty |-> b.items[i].qty] : i \in ItemsAt(b, o.price)}
  BY <1>1, Zenon DEF resolveSeatItem
<1>4. PICK i \in ItemsAt(b, o.price) : r = [item |-> i, qty |-> b.items[i].qty]
  BY <1>3, Zenon
<1>5. i \in DOMAIN b.items /\ b.items[i].price = o.price
  BY <1>4, Zenon DEF ItemsAt
<1>6. r.item = i /\ r.qty = b.items[i].qty
  BY <1>4, Zenon
<1>7. i \in 1..Len(body[s]) /\ b.items[i].qty \in Int
  BY <1>2, <1>5, ItemOfVersion, Zenon
<1> QED
  BY <1>2, <1>5, <1>6, <1>7, Zenon DEF Had

\* The write that SetSeats resolves.
LEMMA SetSeatsFits ==
    ASSUME MInv, BodyInv, NEW s \in Subs, history[s] # <<>>, NEW o, o.op = "set_seats",
           NEW w \in SetSeats(s, o)
    PROVE  Fitting(s, o, w)
<1>1. PICK r \in resolveSeatItem(s, o) : w = UpdateItems(s, o.prorate, <<Quantity(r.item, o.n)>>)
  BY Zenon DEF SetSeats
<1>2. PICK i : i = r.item
  OBVIOUS
<1>3. i \in 1..Len(body[s]) /\ Had(s, i, o.price)
  BY <1>2, SeatItem, Zenon
<1> QED
  BY <1>1, <1>2, <1>3, Zenon DEF Fitting

\* The write that any call resolves.
LEMMA ResolveFits ==
    ASSUME MInv, BodyInv, NEW s \in Subs, history[s] # <<>>, NEW o \in Operation,
           o.op # "add_seats", NEW w \in Resolve(s, o)
    PROVE  Fitting(s, o, w)
<1>1. CASE o.op = "migrate"
  <2>1. w \in Migrate(s, o)
    BY <1>1, Zenon DEF Resolve
  <2>2. PICK i \in IF InMirror(s) THEN ItemsAt(GetByStripeID(s), o.from) ELSE {} :
           w = UpdateItems(s, o.prorate, MigrateItems(i, o.to))
    BY <2>1, Zenon DEF Migrate
  <2>3. InMirror(s) /\ i \in DOMAIN GetByStripeID(s).items
    BY <2>2, Zenon DEF ItemsAt
  <2>4. PICK v \in 1..Len(body[s]) : GetByStripeID(s) = body[s][v]
    BY <2>3, ReadsVersion, Zenon
  <2>5. i \in 1..Len(body[s])
    BY <2>3, <2>4, ItemOfVersion, Zenon
  <2> QED
    BY <1>1, <2>2, <2>5, Zenon DEF Fitting
<1>2. CASE o.op = "set_seats"
  <2>1. w \in SetSeats(s, o)
    BY <1>2, Zenon DEF Resolve
  <2> QED
    BY <1>2, <2>1, SetSeatsFits, Zenon
<1>3. CASE o.op = "adjust_seats"
  <2>1. w \in AdjustSeats(s, o)
    BY <1>3, Zenon DEF Resolve
  <2>2. o.item # 0 /\ w = UpdateItems(s, o.prorate, <<Quantity(o.item, o.n)>>)
    BY <2>1, Zenon DEF AdjustSeats
  <2> QED
    BY <1>3, <2>2, Zenon DEF Fitting
<1>4. CASE o.op = "cancel_at_end"
  BY <1>4, Zenon DEF Resolve, Fitting
<1>5. CASE o.op = "cancel_now"
  BY <1>5, Zenon DEF Resolve, Fitting
<1>6. CASE o.op = "pause"
  BY <1>6, Zenon DEF Resolve, Fitting
<1>7. CASE o.op = "resume"
  BY <1>7, Zenon DEF Resolve, Fitting
<1>8. CASE o.op = "apply_coupon"
  BY <1>8, Zenon DEF Resolve, Fitting
<1>9. CASE o.op = "remove_coupon"
  BY <1>9, Zenon DEF Resolve, Fitting
<1> QED
  BY <1>1, <1>2, <1>3, <1>4, <1>5, <1>6, <1>7, <1>8, <1>9, OperationFields, Zenon

-----------------------------------------------------------------------------
(* Writing.                                                                *)

\* Versions are only ever added.
Grows ==
    \A t \in Subs :
        /\ history[t] # <<>> => history'[t] # <<>>
        /\ \A v \in 1..Len(body[t]) : v \in 1..Len(body'[t]) /\ body'[t][v] = body[t][v]

\* A pending write stays what it was while versions are added.
LEMMA FittingGrows ==
    ASSUME Grows, NEW s \in Subs, NEW o, NEW w, Fitting(s, o, w)
    PROVE  Fitting(s, o, w)'
<1>1. \A v \in 1..Len(body[s]) : v \in 1..Len(body'[s]) /\ body'[s][v] = body[s][v]
  BY Zenon DEF Grows
<1>2. ASSUME NEW i, NEW p, Had(s, i, p)
      PROVE  Had(s, i, p)'
  BY <1>1, <1>2, Zenon DEF Had
<1>3. CASE o.op = "migrate" /\
           \E i \in 1..Len(body[s]) : w = UpdateItems(s, o.prorate, MigrateItems(i, o.to))
  BY <1>1, <1>3, Zenon DEF Fitting
<1>4. CASE o.op = "set_seats" /\
           \E i \in 1..Len(body[s]) :
              Had(s, i, o.price) /\ w = UpdateItems(s, o.prorate, <<Quantity(i, o.n)>>)
  <2>1. PICK i \in 1..Len(body[s]) :
           Had(s, i, o.price) /\ w = UpdateItems(s, o.prorate, <<Quantity(i, o.n)>>)
    BY <1>4, Zenon
  <2>2. PICK p : p = o.price
    OBVIOUS
  <2>3. Had(s, i, p)' /\ i \in 1..Len(body'[s])
    BY <1>1, <1>2, <2>1, <2>2, Zenon
  <2> QED
    BY <1>4, <2>1, <2>2, <2>3, Zenon DEF Fitting
<1>5. CASE ~(o.op \in {"migrate", "set_seats"})
  BY <1>5, Zenon DEF Fitting, CancelAtPeriodEnd, CancelNow, Pause, Resume, ApplyCoupon, RemoveCoupon
<1> QED
  BY <1>3, <1>4, <1>5, Zenon DEF Fitting

\* One call moves on, or none; the others are where they were.
LEMMA CallsGrow ==
    ASSUME CallInv, Grows, NEW c \in Clients, NEW y, y = NoCall \/ Counted(y) \/ Sending(y),
           call' = [call EXCEPT ![c] = y] \/ call' = call
    PROVE  CallInv'
<1>1. ASSUME NEW x, x = NoCall \/ Counted(x) \/ Sending(x)
      PROVE  x = NoCall \/ Counted(x)' \/ Sending(x)'
  <2>1. CASE Counted(x)
    BY <2>1, Zenon DEF Counted, Grows
  <2>2. CASE Sending(x)
    BY <2>2, FittingGrows, Zenon DEF Sending, Grows
  <2> QED
    BY <1>1, <2>1, <2>2, Zenon
<1>2. call' = [d \in Clients |-> call'[d]]
  BY Zenon DEF CallInv
<1>3. ASSUME NEW d \in Clients
      PROVE  call'[d] = NoCall \/ Counted(call[d])' \/ Sending(call[d])'
  <2>1. PICK x : x = call'[d]
    OBVIOUS
  <2>2. x = call[d] \/ x = y
    BY <2>1, Zenon DEF CallInv
  <2>3. x = NoCall \/ Counted(x)' \/ Sending(x)'
    BY <1>1, <2>2, Zenon DEF CallInv
  <2> QED
    BY <2>1, <2>3, Zenon DEF Counted, Sending
<1> QED
  BY <1>2, <1>3, Zenon DEF CallInv

\* An item of b is new, or has the price it always had.
KeepsPrices(s, b) ==
    /\ DOMAIN b.items \subseteq 1..(Len(body[s]) + 1)
    /\ \A v \in 1..Len(body[s]) : \A i \in DOMAIN body[s][v].items \cap DOMAIN b.items :
          body[s][v].items[i].price = b.items[i].price

\* Stripe appends a version that holds one item, and a known item keeps its price.
LEMMA BodyGrows ==
    ASSUME MInv, BodyInv, NEW s \in Subs, NEW kind, Change(s, kind),
           NEW b \in BodyType, body' = [body EXCEPT ![s] = Append(@, b)],
           KeepsPrices(s, b)
    PROVE  BodyInv' /\ Grows /\ Body(s)' = b /\ \A t \in Subs \ {s} : body'[t] = body[t]
<1>1. PICK n : n = [kind |-> kind, status |-> StatusAfter(kind), second |-> clock]
  BY Zenon
<1>2. /\ history'[s] = Append(history[s], n) /\ \A t \in Subs \ {s} : history'[t] = history[t]
      /\ body'[s] = Append(body[s], b) /\ \A t \in Subs \ {s} : body'[t] = body[t]
  BY <1>1, Zenon DEF Change, MInv, Typed, BodyInv
<1>3. /\ history[s] \in Seq(Versions) /\ body[s] \in Seq(BodyType)
      /\ Len(body[s]) = Len(history[s])
  BY Zenon DEF MInv, Typed, BodyInv
<1>4. /\ Len(body[s]) \in Nat
      /\ body'[s] \in Seq(BodyType) /\ Len(body'[s]) = Len(body[s]) + 1
      /\ body'[s][Len(body[s]) + 1] = b
      /\ \A v \in 1..Len(body[s]) : body'[s][v] = body[s][v] /\ v \in 1..(Len(body[s]) + 1)
      /\ \A v \in 1..(Len(body[s]) + 1) : v \in 1..Len(body[s]) \/ v = Len(body[s]) + 1
  BY <1>2, <1>3
<1>5. Len(history'[s]) = Len(history[s]) + 1 /\ history'[s] # <<>>
  <2>1. PICK h : h = history[s]
    OBVIOUS
  <2>2. Len(h) \in Nat /\ Len(Append(h, n)) = Len(h) + 1
    BY <1>3, <2>1
  <2>3. Append(h, n) # <<>>
    <3>1. Len(<<>>) = 0 /\ Len(Append(h, n)) # 0
      BY <2>2
    <3> QED
      BY <3>1, Zenon
  <2> QED
    BY <1>2, <2>1, <2>2, <2>3, Zenon
<1>6. body' \in [Subs -> Seq(BodyType)]
  <2>1. \A t \in Subs : body'[t] \in Seq(BodyType)
    BY <1>2, <1>4, Zenon DEF BodyInv
  <2> QED
    BY <2>1, Zenon DEF BodyInv
<1>7. \A t \in Subs : Len(body'[t]) = Len(history'[t])
  BY <1>2, <1>3, <1>4, <1>5, Zenon DEF BodyInv
<1>8. ASSUME NEW t \in Subs, NEW v \in 1..Len(body'[t])
      PROVE  DOMAIN body'[t][v].items \subseteq 1..v
  <2>1. CASE t # s
    BY <1>2, <1>8, <2>1, Zenon DEF BodyInv
  <2>2. CASE t = s /\ v \in 1..Len(body[s])
    BY <1>4, <2>2, Zenon DEF BodyInv
  <2>3. CASE t = s /\ v = Len(body[s]) + 1
    BY <1>4, <2>3, Zenon DEF KeepsPrices
  <2> QED
    BY <1>4, <1>8, <2>1, <2>2, <2>3, Zenon
<1>9. ASSUME NEW t \in Subs, NEW u \in 1..Len(body'[t]), NEW v \in 1..Len(body'[t]), NEW i,
             i \in DOMAIN body'[t][u].items, i \in DOMAIN body'[t][v].items
      PROVE  body'[t][u].items[i].price = body'[t][v].items[i].price
  <2>0. ASSUME NEW r \in Subs, NEW x \in 1..Len(body[r]), NEW y \in 1..Len(body[r]),
               i \in DOMAIN body[r][x].items, i \in DOMAIN body[r][y].items
        PROVE  body[r][x].items[i].price = body[r][y].items[i].price
    BY <2>0, Zenon DEF BodyInv
  <2>1. CASE t # s
    <3>1. body'[t] = body[t]
      BY <1>2, <2>1, Zenon
    <3>2. u \in 1..Len(body[t]) /\ v \in 1..Len(body[t])
      BY <3>1, Zenon
    <3> QED
      BY <1>9, <2>0, <3>1, <3>2, Zenon
  <2>2. CASE t = s
    <3>0. ASSUME NEW x \in 1..Len(body[s]), i \in DOMAIN body[s][x].items, i \in DOMAIN b.items
          PROVE  body[s][x].items[i].price = b.items[i].price
      BY <3>0, Zenon DEF KeepsPrices
    <3>1. CASE u \in 1..Len(body[s]) /\ v \in 1..Len(body[s])
      <4>1. body'[t][u] = body[s][u] /\ body'[t][v] = body[s][v]
        BY <1>4, <2>2, <3>1, Zenon
      <4> QED
        BY <1>9, <2>0, <3>1, <4>1, Zenon
    <3>2. CASE u \in 1..Len(body[s]) /\ v = Len(body[s]) + 1
      <4>1. body'[t][u] = body[s][u] /\ body'[t][v] = b
        BY <1>4, <2>2, <3>2, Zenon
      <4> QED
        BY <1>9, <3>0, <3>2, <4>1, Zenon
    <3>3. CASE u = Len(body[s]) + 1 /\ v \in 1..Len(body[s])
      <4>1. body'[t][u] = b /\ body'[t][v] = body[s][v]
        BY <1>4, <2>2, <3>3, Zenon
      <4> QED
        BY <1>9, <3>0, <3>3, <4>1, Zenon
    <3>4. CASE u = Len(body[s]) + 1 /\ v = Len(body[s]) + 1
      BY <2>2, <3>4, Zenon
    <3>5. /\ u \in 1..Len(body[s]) \/ u = Len(body[s]) + 1
          /\ v \in 1..Len(body[s]) \/ v = Len(body[s]) + 1
      BY <1>4, <2>2, Zenon
    <3> QED
      BY <3>1, <3>2, <3>3, <3>4, <3>5, Zenon
  <2> QED
    BY <2>1, <2>2, Zenon
<1>10. BodyInv'
  <2>1. \A t \in Subs : \A u, v \in 1..Len(body'[t]) :
           \A i \in DOMAIN body'[t][u].items \cap DOMAIN body'[t][v].items :
              body'[t][u].items[i].price = body'[t][v].items[i].price
    <3> TAKE t \in Subs
    <3> TAKE u, v \in 1..Len(body'[t])
    <3> TAKE i \in DOMAIN body'[t][u].items \cap DOMAIN body'[t][v].items
    <3>1. i \in DOMAIN body'[t][u].items /\ i \in DOMAIN body'[t][v].items
      OBVIOUS
    <3> QED
      BY <1>9, <3>1
  <2> QED
    BY <1>6, <1>7, <1>8, <2>1, Zenon DEF BodyInv
<1>11. Grows
  BY <1>2, <1>4, <1>5, Zenon DEF Grows
<1>12. Body(s)' = b
  BY <1>4, Zenon DEF Body
<1> QED
  BY <1>2, <1>10, <1>11, <1>12, Zenon

\* The two facts BodyGrows asks for follow from NewBody.
LEMMA NewBodyKeeps ==
    ASSUME MInv, BodyInv, NEW s \in Subs, history[s] # <<>>, NEW o, NEW b, NewBody(s, o, b)
    PROVE  KeepsPrices(s, b)
<1>1. Len(history[s]) \in Nat \ {0} /\ Len(body[s]) = Len(history[s])
  BY CurrentBody, Zenon
<1>2. /\ Len(body[s]) \in 1..Len(body[s]) /\ Len(body[s]) + 1 \in 1..(Len(body[s]) + 1)
      /\ 1..Len(body[s]) \subseteq 1..(Len(body[s]) + 1)
      /\ \A v \in 1..Len(body[s]) : Len(body[s]) + 1 \notin 1..v
  BY <1>1
<1>3. DOMAIN Body(s).items \subseteq 1..Len(body[s])
  BY <1>2, Zenon DEF BodyInv, Body
<1>4. \A v \in 1..Len(body[s]) : \A i \in DOMAIN body[s][v].items \cap DOMAIN Body(s).items :
         body[s][v].items[i].price = Body(s).items[i].price
  BY <1>2, Zenon DEF BodyInv, Body
<1>5. CASE b.items = Body(s).items
  BY <1>2, <1>3, <1>4, <1>5, Zenon DEF KeepsPrices
<1>6. CASE \E i \in DOMAIN Body(s).items : b.items = Single(i, Recount(Body(s).items[i], o.n))
  <2>1. PICK i \in DOMAIN Body(s).items : b.items = Single(i, Recount(Body(s).items[i], o.n))
    BY <1>6, Zenon
  <2>2. DOMAIN b.items = {i} /\ b.items[i] = Recount(Body(s).items[i], o.n)
    BY <2>1, SMT DEF Single
  <2>3. b.items[i].price = Body(s).items[i].price
    <3>1. Recount(Body(s).items[i], o.n).price = Body(s).items[i].price
      BY SMT DEF Recount
    <3> QED
      BY <2>2, <3>1, Zenon
  <2>4. DOMAIN b.items \subseteq 1..(Len(body[s]) + 1)
    BY <1>2, <1>3, <2>1, <2>2, Zenon
  <2>5. ASSUME NEW v \in 1..Len(body[s]), NEW k \in DOMAIN body[s][v].items \cap DOMAIN b.items
        PROVE  body[s][v].items[k].price = b.items[k].price
    <3>1. k = i /\ i \in DOMAIN body[s][v].items \cap DOMAIN Body(s).items
      BY <2>1, <2>2, <2>5, Zenon
    <3>2. body[s][v].items[i].price = Body(s).items[i].price
      BY <1>4, <3>1, Zenon
    <3> QED
      BY <2>3, <3>1, <3>2, Zenon
  <2> QED
    BY <2>4, <2>5, Zenon DEF KeepsPrices
<1>7. CASE \E p : b.items = Single(Len(history[s]) + 1, [price |-> p, qty |-> 1])
  <2>1. DOMAIN b.items = {Len(body[s]) + 1}
    BY <1>1, <1>7, Zenon DEF Single
  <2>2. \A v \in 1..Len(body[s]) : DOMAIN body[s][v].items \subseteq 1..v
    BY Zenon DEF BodyInv
  <2> QED
    BY <1>2, <2>1, <2>2, Zenon DEF KeepsPrices
<1> QED
  BY <1>5, <1>6, <1>7, Zenon DEF NewBody

\* A step that adds no version.
LEMMA SameBodies ==
    ASSUME BodyInv, UNCHANGED <<history, body>>
    PROVE  BodyInv' /\ Grows
<1>1. BodyInv'
  BY DEF BodyInv
<1>2. Grows
  BY Zenon DEF Grows
<1> QED
  BY <1>1, <1>2, Zenon

\* What the app may still call is an operation.
LEMMA CallsStep ==
    ASSUME EnvInv, NEW o, Calls(o)
    PROVE  o \in Operation /\ EnvInv'
<1>1. env.calls # <<>> /\ o \in Head(env.calls) /\ env' = [env EXCEPT !.calls = Tail(@)]
  BY Zenon DEF Calls, Callable
<1>2. env.calls \in Seq(SUBSET Operation) /\ "calls" \in DOMAIN env
  BY Zenon DEF EnvInv
<1>3. PICK q : q = env.calls
  OBVIOUS
<1>4. Head(q) \in SUBSET Operation /\ Tail(q) \in Seq(SUBSET Operation)
  <2>1. q \in Seq(SUBSET Operation) /\ q # <<>>
    BY <1>1, <1>2, <1>3, Zenon
  <2> HIDE DEF Operation
  <2> QED
    BY <2>1
<1>5. env'.calls = Tail(q) /\ DOMAIN env' = DOMAIN env
  BY <1>1, <1>2, <1>3, Zenon
<1> QED
  BY <1>1, <1>2, <1>3, <1>4, <1>5, Zenon DEF EnvInv

\* The other budgets leave it alone.
LEMMA OtherBudget ==
    ASSUME EnvInv, NEW f, f # "calls", NEW x, env' = env \/ env' = [env EXCEPT ![f] = x]
    PROVE  EnvInv'
<1>1. env'.calls = env.calls /\ DOMAIN env' = DOMAIN env
  BY Zenon DEF EnvInv
<1> QED
  BY <1>1, Zenon DEF EnvInv

\* Where a client is.
LEMMA CallAt ==
    ASSUME CallInv, NEW c \in Clients
    PROVE  /\ call[c].pc = "counted" => Counted(call[c])
           /\ call[c].pc = "send" => Sending(call[c])
<1>1. NoCall.pc = "idle"
  BY Zenon DEF NoCall
<1>2. Counted(call[c]) => call[c].pc = "counted"
  BY SMT DEF Counted
<1>3. Sending(call[c]) => call[c].pc = "send"
  BY SMT DEF Sending
<1> QED
  BY <1>1, <1>2, <1>3, Zenon DEF CallInv

\* Sending a write adds no version, or one that NewBody describes.
LEMMA SendStep ==
    ASSUME MInv, BodyInv, CallInv, NEW c \in Clients, Send(c)
    PROVE  /\ BodyInv' /\ Grows /\ UNCHANGED env
           /\ \A t \in Subs : body'[t] = body[t] \/
                 (history[t] # <<>> /\ NewBody(t, call[c].o, Body(t)'))
<1>1. call[c].pc = "send" /\ Execute(call[c].w)
  BY Zenon DEF Send
<1>2. PICK s \in Subs, o \in Operation : \E w :
        call[c] = [pc |-> "send", o |-> o, w |-> w] /\ history[s] # <<>> /\ Fitting(s, o, w)
  BY <1>1, CallAt, Zenon DEF Sending
<1>3. PICK w :
        call[c] = [pc |-> "send", o |-> o, w |-> w] /\ history[s] # <<>> /\ Fitting(s, o, w)
  BY <1>2, Zenon
<1>4. call[c].o = o /\ call[c].w = w
  BY <1>3, SMT
<1>5. CASE UNCHANGED <<vars, body>>
  BY <1>5, SameBodies, Zenon DEF vars
<1>6. CASE ~Refused(w) /\ (\E kind : Change(w.sub, kind))
           /\ body' = [body EXCEPT ![w.sub] = Append(@, BodyAfter(w))]
  <2>1. PICK b : b = BodyAfter(w)
    OBVIOUS
  <2>2. w.sub = s /\ NewBody(s, o, b)
    BY <1>3, <1>6, <2>1, WriteEffect, Zenon
  <2>3. PICK kind : Change(s, kind)
    BY <1>6, <2>2, Zenon
  <2>4. body' = [body EXCEPT ![s] = Append(@, b)] /\ b \in BodyType
    BY <1>6, <2>1, <2>2, Zenon DEF NewBody
  <2>7. KeepsPrices(s, b)
    BY <1>3, <2>2, NewBodyKeeps, Zenon
  <2>5. BodyInv' /\ Grows /\ Body(s)' = b /\ \A t \in Subs \ {s} : body'[t] = body[t]
    BY <2>3, <2>4, <2>7, BodyGrows, Zenon
  <2>6. UNCHANGED env
    BY <2>3, Zenon DEF Change
  <2> QED
    BY <1>3, <1>4, <2>2, <2>5, <2>6, Zenon
<1> QED
  BY <1>1, <1>4, <1>5, <1>6, Zenon DEF Execute

\* Stripe's own changes keep the items.
LEMMA StripeStep ==
    ASSUME MInv, BodyInv, NEW s \in Subs, NEW kind, ChangedByStripe(s, kind)
    PROVE  /\ BodyInv' /\ Grows /\ UNCHANGED <<env, call>>
           /\ \A t \in Subs : body'[t] = body[t] \/ history[t] = <<>> \/ Body(t)' = Body(t)
<1>1. Change(s, kind) /\ UNCHANGED <<env, call>>
  BY Zenon DEF ChangedByStripe, Change
<1>2. history[s] \in Seq(Versions) /\ body[s] \in Seq(BodyType) /\ Len(body[s]) = Len(history[s])
  BY Zenon DEF MInv, Typed, BodyInv
<1>3. CASE history[s] = <<>>
  <2>1. body[s] = <<>> /\ Len(body[s]) = 0
    BY <1>2, <1>3
  <2>2. PICK b : b = [items |-> [i \in {1} |-> FirstItem], ending |-> FALSE, paused |-> FALSE, coupon |-> ""]
    BY Zenon
  <2>3. body' = [body EXCEPT ![s] = Append(@, b)]
    BY <2>1, <2>2, Zenon DEF ChangedByStripe
  <2>4. [i \in {1} |-> FirstItem] = Single(1, FirstItem)
    BY Zenon DEF Single
  <2>5. FirstItem \in ItemType
    BY OpsAssumption, Zenon DEF ItemType
  <2>6. 1 \in Nat \ {0} /\ DOMAIN Single(1, FirstItem) = {1}
    BY SMT DEF Single
  <2>7. Single(1, FirstItem) \in OneItem
    BY <2>5, <2>6, SingleTyped, Zenon
  <2>8. b \in BodyType /\ b.items = Single(1, FirstItem)
    BY <2>2, <2>4, <2>7, Zenon DEF BodyType
  <2>9. KeepsPrices(s, b)
    BY <2>1, <2>6, <2>8, SMT DEF KeepsPrices
  <2>10. BodyInv' /\ Grows /\ \A t \in Subs \ {s} : body'[t] = body[t]
    BY <1>1, <2>3, <2>8, <2>9, BodyGrows, Zenon
  <2> QED
    BY <1>1, <1>3, <2>10, Zenon
<1>4. CASE history[s] # <<>>
  <2>1. body[s] # <<>> /\ Body(s) \in BodyType
    <3>1. Body(s) \in BodyType /\ Len(history[s]) \in Nat \ {0}
      BY <1>4, CurrentBody, Zenon
    <3>2. body[s] # <<>>
      BY <1>2, <3>1, Zenon
    <3> QED
      BY <3>1, <3>2, Zenon
  <2>2. PICK b : b = Body(s)
    OBVIOUS
  <2>3. body' = [body EXCEPT ![s] = Append(@, b)]
    BY <2>1, <2>2, Zenon DEF ChangedByStripe
  <2>4. \A o : NewBody(s, o, b)
    BY <2>1, <2>2, Zenon DEF NewBody
  <2>6. KeepsPrices(s, b)
    BY <1>4, <2>4, NewBodyKeeps, Zenon
  <2>5. BodyInv' /\ Grows /\ Body(s)' = b /\ \A t \in Subs \ {s} : body'[t] = body[t]
    BY <1>1, <2>1, <2>2, <2>3, <2>6, BodyGrows, Zenon
  <2> QED
    BY <1>1, <2>2, <2>5, Zenon
<1> QED
  BY <1>3, <1>4, Zenon

-----------------------------------------------------------------------------
\* Nothing is bought and nothing is called at first.
LEMMA InitPInv == OpsInit => PInv
<1> SUFFICES ASSUME OpsInit PROVE PInv
  OBVIOUS
<1>1. /\ \A s \in Subs : history[s] = <<>> /\ body[s] = <<>>
      /\ body = [s \in Subs |-> <<>>] /\ call = [c \in Clients |-> NoCall] /\ env \in Budgets
  BY Zenon DEF OpsInit, Init
<1>2. <<>> \in Seq(BodyType) /\ Len(<<>>) = 0 /\ 1..0 = {}
  OBVIOUS
<1>3. BodyInv
  BY <1>1, <1>2, Zenon DEF BodyInv
<1>4. CallInv
  BY <1>1, Zenon DEF CallInv
<1>5. EnvInv
  BY <1>1, MirrorAssumption, OpsAssumption, Zenon DEF EnvInv
<1> QED
  BY <1>3, <1>4, <1>5, InitMInv, Zenon DEF PInv

\* Calls that begin, count or give up.
LEMMA ClientStep ==
    ASSUME PInv, NEW c \in Clients,
           \/ \E s \in Subs : \E o : Begin(c, s, o) \/ AddSeats(c, s, o)
           \/ AddSeatsSets(c)
           \/ SendFails(c)
    PROVE  /\ BodyInv' /\ CallInv' /\ EnvInv' /\ UNCHANGED body
           /\ call[c].pc = "send" => call'[c] = NoCall
<1> USE DEF PInv
<1>1. UNCHANGED <<history, body>>
  BY Zenon DEF Begin, AddSeats, AddSeatsSets, SendFails, mirrorVars, vars
<1>2. BodyInv' /\ Grows
  BY <1>1, SameBodies, Zenon
<1>3. NoCall.pc = "idle"
  BY Zenon DEF NoCall
<1>4. ASSUME NEW s \in Subs, NEW o, Begin(c, s, o)
      PROVE  CallInv' /\ EnvInv' /\ call[c] = NoCall
  <2>1. o \in Operation /\ EnvInv' /\ history[s] # <<>> /\ o.op # "add_seats" /\ call[c] = NoCall
    BY <1>4, CallsStep, Zenon DEF Begin
  <2>2. PICK w \in Resolve(s, o) : call' = [call EXCEPT ![c] = [pc |-> "send", o |-> o, w |-> w]]
    BY <1>4, Zenon DEF Begin
  <2>3. Fitting(s, o, w)
    BY <2>1, ResolveFits, Zenon
  <2>4. PICK y : y = [pc |-> "send", o |-> o, w |-> w]
    BY Zenon
  <2>5. Sending(y)
    BY <2>1, <2>3, <2>4, Zenon DEF Sending
  <2>6. call' = [call EXCEPT ![c] = y]
    BY <2>2, <2>4, Zenon
  <2> QED
    BY <1>2, <2>1, <2>5, <2>6, CallsGrow, Zenon
<1>5. ASSUME NEW s \in Subs, NEW o, AddSeats(c, s, o)
      PROVE  CallInv' /\ EnvInv' /\ call[c] = NoCall
  <2>1. o \in Operation /\ EnvInv' /\ history[s] # <<>> /\ o.op = "add_seats" /\ call[c] = NoCall
    BY <1>5, CallsStep, Zenon DEF AddSeats
  <2>2. PICK cur \in SeatCounts(s, o) :
            call' = [call EXCEPT ![c] =
                [pc |-> "counted", sub |-> s,
                 o |-> [op |-> "set_seats", own |-> o.own, price |-> o.price,
                        n |-> cur + o.delta, prorate |-> o.prorate]]]
    BY <1>5, Zenon DEF AddSeats
  <2>3. cur \in Int
    <3>1. cur = 0 \/ \E r \in resolveSeatItem(s, o) : cur = r.qty
      BY <2>2, Zenon DEF SeatCounts
    <3>2. \A r \in resolveSeatItem(s, o) : r.qty \in Int
      BY <2>1, SeatItem, Zenon
    <3> QED
      BY <3>1, <3>2
  <2>4. /\ o.delta \in Int /\ o.price \in STRING /\ o.own \in BOOLEAN /\ o.prorate \in BOOLEAN
    BY <2>1, OperationFields, Zenon
  <2>5. cur + o.delta \in Int
    BY <2>3, <2>4
  <2>6. PICK p : p = [op |-> "set_seats", own |-> o.own, price |-> o.price,
                      n |-> cur + o.delta, prorate |-> o.prorate]
    BY Zenon
  <2>7. p \in Operation /\ p.op = "set_seats"
    <3>1. p \in [op: {"set_seats"}, own: BOOLEAN, price: STRING, n: Int, prorate: BOOLEAN]
      BY <2>4, <2>5, <2>6, Zenon
    <3> QED
      BY <2>6, <3>1, Zenon DEF Operation
  <2>8. PICK y : y = [pc |-> "counted", sub |-> s, o |-> p]
    BY Zenon
  <2>9. Counted(y)
    BY <2>1, <2>7, <2>8, Zenon DEF Counted
  <2>10. call' = [call EXCEPT ![c] = y]
    BY <2>2, <2>6, <2>8, Zenon
  <2> QED
    BY <1>2, <2>1, <2>9, <2>10, CallsGrow, Zenon
<1>6. CASE AddSeatsSets(c)
  <2>1. call[c].pc = "counted" /\ UNCHANGED env
    BY <1>6, Zenon DEF AddSeatsSets, vars
  <2>2. PICK s \in Subs, o \in Operation :
           call[c] = [pc |-> "counted", sub |-> s, o |-> o] /\ o.op = "set_seats" /\ history[s] # <<>>
    BY <2>1, CallAt, Zenon DEF Counted
  <2>3. call[c].sub = s /\ call[c].o = o
    BY <2>2, SMT
  <2>4. \/ call' = [call EXCEPT ![c] = NoCall]
        \/ \E w \in SetSeats(s, o) : call' = [call EXCEPT ![c] = [pc |-> "send", o |-> o, w |-> w]]
    BY <1>6, <2>3, Zenon DEF AddSeatsSets
  <2>5. CallInv'
    <3>1. CASE call' = [call EXCEPT ![c] = NoCall]
      BY <1>2, <3>1, CallsGrow, Zenon
    <3>2. ASSUME NEW w \in SetSeats(s, o), call' = [call EXCEPT ![c] = [pc |-> "send", o |-> o, w |-> w]]
          PROVE  CallInv'
      <4>1. PICK y : y = [pc |-> "send", o |-> o, w |-> w]
        BY Zenon
      <4>2. Sending(y)
        BY <2>2, <4>1, SetSeatsFits, Zenon DEF Sending
      <4>3. call' = [call EXCEPT ![c] = y]
        BY <3>2, <4>1, Zenon
      <4> QED
        BY <1>2, <4>2, <4>3, CallsGrow, Zenon
    <3> QED
      BY <2>4, <3>1, <3>2, Zenon
  <2> QED
    BY <1>1, <1>2, <2>1, <2>5, Zenon DEF EnvInv
<1>7. CASE SendFails(c)
  <2>1. call' = [call EXCEPT ![c] = NoCall] /\ UNCHANGED env
    BY <1>7, Zenon DEF SendFails, vars
  <2>2. CallInv' /\ call'[c] = NoCall
    BY <1>2, <2>1, CallsGrow, Zenon DEF CallInv
  <2> QED
    BY <1>1, <1>2, <2>1, <2>2, Zenon DEF EnvInv
<1> QED
  BY <1>1, <1>2, <1>3, <1>4, <1>5, <1>6, <1>7, Zenon

\* The mirror's own steps.
LEMMA MirrorOnly ==
    ASSUME PInv, MirrorStep
    PROVE  BodyInv' /\ CallInv' /\ EnvInv' /\ UNCHANGED body
<1> USE DEF PInv
<1>1. UNCHANGED <<history, body, call>>
  BY Zenon DEF MirrorStep, opVars, Lose, Handle, HandleEvent, List, UpsertListed
<1>2. BodyInv' /\ Grows
  BY <1>1, SameBodies, Zenon
<1>3. CallInv'
  <2>1. CASE Clients = {}
    BY <1>1, <2>1, Zenon DEF CallInv
  <2>2. CASE \E c : c \in Clients
    BY <1>1, <1>2, <2>2, CallsGrow, Zenon
  <2> QED
    BY <2>1, <2>2, Zenon
<1>4. \E f \in {"lost", "repeats", "passes", "failed"} : \E x : env' = env \/ env' = [env EXCEPT ![f] = x]
  BY Zenon DEF MirrorStep, Lose, Handle, HandleEvent, List, UpsertListed
<1>5. \A f \in {"lost", "repeats", "passes", "failed"} : f # "calls"
  BY Zenon
<1>6. EnvInv'
  BY <1>4, <1>5, OtherBudget, Zenon
<1> QED
  BY <1>1, <1>2, <1>3, <1>6, Zenon

\* Every step keeps the invariant.
LEMMA NextPInv ==
    ASSUME PInv, [OpsNext]_allVars
    PROVE  PInv'
<1> USE DEF PInv
<1>1. MInv'
  BY NextMInv, Zenon
<1>2. ASSUME NEW c \in Clients, Send(c)
      PROVE  PInv'
  <2>1. BodyInv' /\ Grows /\ UNCHANGED env
    BY <1>2, SendStep, Zenon
  <2>2. call' = [call EXCEPT ![c] = NoCall]
    BY <1>2, Zenon DEF Send
  <2> QED
    BY <1>1, <2>1, <2>2, CallsGrow, Zenon DEF EnvInv
<1>3. ASSUME NEW s \in Subs, NEW kind, ChangedByStripe(s, kind)
      PROVE  PInv'
  <2>1. BodyInv' /\ Grows /\ UNCHANGED <<env, call>>
    BY <1>3, StripeStep, Zenon
  <2>2. CallInv'
    <3>1. CASE Clients = {}
      BY <2>1, <3>1, Zenon DEF CallInv
    <3>2. CASE \E c : c \in Clients
      BY <2>1, <3>2, CallsGrow, Zenon
    <3> QED
      BY <3>1, <3>2, Zenon
  <2> QED
    BY <1>1, <2>1, <2>2, Zenon DEF EnvInv
<1>4. CASE KeysExpire \/ UNCHANGED allVars
  <2>1. UNCHANGED <<history, body, call, env>>
    BY <1>4, Zenon DEF KeysExpire, allVars, vars, opVars
  <2>2. BodyInv' /\ Grows
    BY <2>1, SameBodies, Zenon
  <2>3. CallInv'
    <3>1. CASE Clients = {}
      BY <2>1, <3>1, Zenon DEF CallInv
    <3>2. CASE \E c : c \in Clients
      BY <2>1, <2>2, <3>2, CallsGrow, Zenon
    <3> QED
      BY <3>1, <3>2, Zenon
  <2> QED
    BY <1>1, <2>1, <2>2, <2>3, Zenon DEF EnvInv
<1>5. CASE MirrorStep
  BY <1>1, <1>5, MirrorOnly, Zenon
<1>6. ASSUME NEW c \in Clients,
             \/ \E s \in Subs : \E o : Begin(c, s, o) \/ AddSeats(c, s, o)
             \/ AddSeatsSets(c)
             \/ SendFails(c)
      PROVE  PInv'
  BY <1>1, <1>6, ClientStep, Zenon
<1> QED
  BY <1>2, <1>3, <1>4, <1>5, <1>6, Zenon DEF OpsNext, CancelSubscriptionFromFailedRefund

\* Whatever migrations and seat changes race each other, are retried and are resolved
\* from a stale mirror, a subscription carries exactly one plan: Migrate deletes the
\* old item by its id and adds the new one in one write, and Stripe refuses the write
\* when the item has gone.
THEOREM OnePlanAlways == OpsSpec => []OnePlanItem
<1>1. PInv /\ [OpsNext]_allVars => PInv'
  BY NextPInv, Zenon
<1>2. PInv => OnePlanItem
  <2> SUFFICES ASSUME PInv, NEW s \in Subs, history[s] # <<>>
               PROVE  \E i \in DOMAIN Body(s).items : DOMAIN Body(s).items = {i}
    BY Zenon DEF OnePlanItem
  <2>1. PICK i \in 1..Len(history[s]) : DOMAIN Body(s).items = {i}
    BY CurrentBody, Zenon DEF PInv
  <2> QED
    BY <2>1, Zenon
<1> QED
  BY InitPInv, <1>1, <1>2, PTL DEF OpsSpec

\* A seat count only ever lands on the price, or on the item, it was asked for,
\* although SetSeats looks the item up in the mirror before it writes and a migration
\* may come in between: an item never changes its price, and Stripe refuses an item
\* that is not there any more.
THEOREM SeatsLandRight == OpsSpec => SeatsStayOnTheirPrice
<1>1. PInv /\ [OpsNext]_allVars => PInv'
  BY NextPInv, Zenon
<1>2. PInv /\ [OpsNext]_allVars => [SeatsStep]_allVars
  <2> SUFFICES ASSUME PInv, OpsNext, NEW s \in Subs, body[s] # <<>>, NEW i,
                      i \in DOMAIN Body(s).items, i \in DOMAIN Body(s)'.items,
                      Body(s)'.items[i].qty # Body(s).items[i].qty
               PROVE  \E c \in Clients :
                        /\ call[c].pc = "send" /\ call'[c] = NoCall
                        /\ call[c].o.n = Body(s)'.items[i].qty
                        /\ \/ call[c].o.op = "adjust_seats" /\ call[c].o.item = i
                           \/ call[c].o.op = "set_seats" /\ call[c].o.price = Body(s).items[i].price
    BY Zenon DEF SeatsStep
  <2> USE DEF PInv
  <2>1. body'[s] # body[s]
    BY Zenon DEF Body
  <2>2. history[s] # <<>>
    <3>1. body[s] \in Seq(BodyType) /\ Len(body[s]) = Len(history[s])
      BY Zenon DEF BodyInv
    <3>2. Len(body[s]) # 0
      BY <3>1
    <3>3. Len(<<>>) = 0
      OBVIOUS
    <3> QED
      BY <3>1, <3>2, <3>3, Zenon
  <2>3. ASSUME NEW c \in Clients, Send(c)
        PROVE  /\ call[c].pc = "send" /\ call'[c] = NoCall
               /\ call[c].o.n = Body(s)'.items[i].qty
               /\ \/ call[c].o.op = "adjust_seats" /\ call[c].o.item = i
                  \/ call[c].o.op = "set_seats" /\ call[c].o.price = Body(s).items[i].price
    <3>1. call[c].pc = "send" /\ call'[c] = NoCall
      BY <2>3, Zenon DEF Send, CallInv
    <3>2. PICK o, b : o = call[c].o /\ b = Body(s)'
      BY Zenon
    <3>3. NewBody(s, o, b)
      BY <2>1, <2>3, <3>2, SendStep, Zenon
    <3>4. b.items # Body(s).items
      BY <3>2, Zenon
    <3>5. ASSUME NEW p, b.items = Single(Len(history[s]) + 1, [price |-> p, qty |-> 1])
          PROVE  FALSE
      <4>1. i = Len(history[s]) + 1
        BY <3>2, <3>5, Zenon DEF Single
      <4>2. PICK j \in 1..Len(history[s]) : DOMAIN Body(s).items = {j}
        BY <2>2, CurrentBody, Zenon
      <4>3. Len(history[s]) \in Nat \ {0} /\ i = j
        BY <2>2, <4>2, CurrentBody, Zenon
      <4> QED
        BY <4>1, <4>2, <4>3
    <3>6. PICK k \in DOMAIN Body(s).items :
             /\ b.items = Single(k, Recount(Body(s).items[k], o.n))
             /\ \/ o.op = "adjust_seats" /\ o.item = k
                \/ o.op = "set_seats" /\ o.price = Body(s).items[k].price
      BY <3>3, <3>4, <3>5, Zenon DEF NewBody
    <3>7. k = i /\ b.items[i] = Recount(Body(s).items[i], o.n)
      BY <3>2, <3>6, Zenon DEF Single
    <3>8. b.items[i].qty = o.n
      <4>1. Recount(Body(s).items[i], o.n).qty = o.n
        BY SMT DEF Recount
      <4> QED
        BY <3>7, <4>1, Zenon
    <3> QED
      BY <3>1, <3>2, <3>6, <3>7, <3>8, Zenon
  <2>4. ASSUME NEW t \in Subs, NEW kind, ChangedByStripe(t, kind)
        PROVE  FALSE
    BY <2>1, <2>2, <2>4, StripeStep, Zenon
  <2>5. ASSUME NEW c \in Clients,
               \/ \E t \in Subs : \E o : Begin(c, t, o) \/ AddSeats(c, t, o)
               \/ AddSeatsSets(c)
               \/ SendFails(c)
        PROVE  FALSE
    BY <2>1, <2>5, ClientStep, Zenon
  <2>6. ~(KeysExpire \/ MirrorStep)
    BY <2>1, MirrorOnly, Zenon DEF KeysExpire
  <2> QED
    BY <2>3, <2>4, <2>5, <2>6, Zenon DEF OpsNext, CancelSubscriptionFromFailedRefund
<1> QED
  BY InitPInv, <1>1, <1>2, PTL DEF OpsSpec, SeatsStayOnTheirPrice

-----------------------------------------------------------------------------
(* Entitlements.                                                           *)

\* A deletion is the last version, and a row made from it is canceled.
Tells(s, row) ==
    row.version \in 1..Len(history[s]) /\ history[s][row.version].kind = "deleted" =>
        row.status = "canceled"
StatusInv ==
    /\ \A s \in Subs : \A v \in 1..Len(history[s]) : history[s][v].kind = "deleted" =>
          v = Len(history[s]) /\ history[s][v].status = "canceled"
    /\ \A s \in Subs : Tells(s, mirror[s])
    /\ \A l \in pass : Tells(l.sub, l.row)

\* Nothing follows a deletion.
LEMMA ChangeTells ==
    ASSUME MInv, StatusInv, NEW s \in Subs, NEW kind, Change(s, kind)
    PROVE  StatusInv'
<1>1. PICK n : n = [kind |-> kind, status |-> StatusAfter(kind), second |-> clock]
  BY Zenon
<1>2. /\ history'[s] = Append(history[s], n) /\ \A t \in Subs \ {s} : history'[t] = history[t]
      /\ mirror' = mirror /\ pass' = pass /\ ~Ended(s)
  BY <1>1, Zenon DEF Change, MInv, Typed
<1>3. history[s] \in Seq(Versions)
  BY Zenon DEF MInv, Typed
<1>4. /\ Len(history[s]) \in Nat /\ Len(history'[s]) = Len(history[s]) + 1
      /\ history'[s][Len(history[s]) + 1] = n
      /\ \A v \in 1..Len(history[s]) : history'[s][v] = history[s][v]
      /\ \A v \in 1..(Len(history[s]) + 1) : v \in 1..Len(history[s]) \/ v = Len(history[s]) + 1
  <2>1. PICK h : h = history[s]
    OBVIOUS
  <2>2. h \in Seq(Versions) /\ history'[s] = Append(h, n)
    BY <1>2, <1>3, <2>1, Zenon
  <2>3. /\ Len(h) \in Nat /\ Len(Append(h, n)) = Len(h) + 1
        /\ Append(h, n)[Len(h) + 1] = n
        /\ \A v \in 1..Len(h) : Append(h, n)[v] = h[v]
        /\ \A v \in 1..(Len(h) + 1) : v \in 1..Len(h) \/ v = Len(h) + 1
    BY <2>2
  <2> QED
    BY <2>1, <2>2, <2>3, Zenon
<1>5. n.kind = "deleted" => n.status = "canceled"
  <2>1. n.kind = kind /\ n.status = StatusAfter(kind)
    BY <1>1, SMT
  <2> QED
    BY <2>1, Zenon DEF StatusAfter
<1>6. \A v \in 1..Len(history[s]) : history[s][v].kind # "deleted"
  <2>1. CASE history[s] = <<>>
    BY <1>4, <2>1
  <2>2. CASE history[s] # <<>>
    BY <1>2, <2>2, Zenon DEF StatusInv, Ended, Newest
  <2> QED
    BY <2>1, <2>2, Zenon
<1>7. ASSUME NEW t \in Subs, NEW v \in 1..Len(history'[t]), history'[t][v].kind = "deleted"
      PROVE  v = Len(history'[t]) /\ history'[t][v].status = "canceled"
  <2>1. CASE t # s
    <3>1. history'[t] = history[t]
      BY <1>2, <2>1, Zenon
    <3> QED
      BY <1>7, <3>1, Zenon DEF StatusInv
  <2>2. CASE t = s /\ v \in 1..Len(history[s])
    BY <1>4, <1>6, <1>7, <2>2, Zenon
  <2>3. CASE t = s /\ v = Len(history[s]) + 1
    BY <1>4, <1>5, <1>7, <2>3, Zenon
  <2> QED
    BY <1>4, <1>7, <2>1, <2>2, <2>3, Zenon
<1>8. ASSUME NEW t \in Subs, NEW row, row = NoRow \/ Fits(t, row), Tells(t, row)
      PROVE  Tells(t, row)'
  <2>1. CASE row = NoRow
    <3>1. row.version = 0
      BY <2>1, SMT DEF NoRow
    <3>2. 0 \notin 1..Len(history'[t])
      BY SMT
    <3> QED
      BY <3>1, <3>2, Zenon DEF Tells
  <2>2. CASE Fits(t, row)
    <3>1. row.version \in 1..Len(history[t])
      BY <2>2, Zenon DEF Fits
    <3>2. history'[t][row.version] = history[t][row.version]
      <4>1. CASE t = s
        BY <1>4, <3>1, <4>1, Zenon
      <4>2. CASE t # s
        BY <1>2, <4>2, Zenon
      <4> QED
        BY <4>1, <4>2, Zenon
    <3> QED
      BY <1>8, <3>1, <3>2, Zenon DEF Tells
  <2> QED
    BY <1>8, <2>1, <2>2, Zenon
<1>9. ASSUME NEW t \in Subs
      PROVE  Tells(t, mirror[t])'
  <2>1. PICK row : row = mirror[t]
    OBVIOUS
  <2>2. Tells(t, row)'
    BY <1>8, <2>1, Zenon DEF StatusInv, MInv, Stamped
  <2> QED
    BY <1>2, <2>1, <2>2, Zenon DEF Tells
<1>10. ASSUME NEW l \in pass
       PROVE  Tells(l.sub, l.row)'
  BY <1>8, Zenon DEF StatusInv, MInv, Stamped, Typed
<1> QED
  BY <1>2, <1>7, <1>9, <1>10, Zenon DEF StatusInv

\* Upsert stores a row that tells a deletion, or keeps one.
LEMMA UpsertTells ==
    ASSUME MInv, StatusInv, NEW s \in Subs, NEW row, Tells(s, row), Upsert(s, row),
           UNCHANGED history, pass' \subseteq pass
    PROVE  StatusInv'
<1>1. ASSUME NEW t \in Subs
      PROVE  Tells(t, mirror[t])'
  <2>1. mirror'[t] = mirror[t] \/ (t = s /\ mirror'[t] = row)
    BY Zenon DEF Upsert, MInv, Typed
  <2> QED
    BY <2>1, Zenon DEF StatusInv, Tells
<1> QED
  BY <1>1, Zenon DEF StatusInv, Tells

\* The mirror's steps.
LEMMA MirrorTells ==
    ASSUME MInv, StatusInv, MirrorStep
    PROVE  StatusInv'
<1>1. ASSUME NEW e, Lose(e)
      PROVE  StatusInv'
  BY <1>1, Zenon DEF Lose, StatusInv, Tells
<1>2. ASSUME NEW s \in Subs, NEW v, HandleEvent(s, v)
      PROVE  StatusInv'
  <2>1. UNCHANGED <<history, pass>>
    BY <1>2, Zenon DEF HandleEvent
  <2>2. CASE UNCHANGED mirror
    BY <2>1, <2>2, Zenon DEF StatusInv, Tells
  <2>3. CASE Upsert(s, FromEvent(s, v))
    <3>1. PICK row : row = FromEvent(s, v)
      OBVIOUS
    <3>2. /\ row.version = v
          /\ row.status = IF history[s][v].kind = "deleted" THEN "canceled" ELSE history[s][v].status
      BY <3>1, SMT DEF FromEvent
    <3>3. Tells(s, row)
      BY <3>2, Zenon DEF Tells
    <3> QED
      BY <2>1, <2>3, <3>1, <3>3, UpsertTells, Zenon
  <2> QED
    BY <1>2, <2>2, <2>3, Zenon DEF HandleEvent
<1>3. ASSUME NEW since, NEW wanted \in SUBSET Subs, List(since, wanted)
      PROVE  StatusInv'
  <2>1. UNCHANGED <<history, mirror>>
    BY <1>3, Zenon DEF List
  <2>2. ASSUME NEW l \in pass'
        PROVE  Tells(l.sub, l.row)
    <3>1. CASE l \in pass
      BY <3>1, Zenon DEF StatusInv
    <3>2. ASSUME NEW s \in wanted, l = [sub |-> s, row |-> FromList(s)]
          PROVE  Tells(l.sub, l.row)
      <4>1. PICK row : row = FromList(s)
        OBVIOUS
      <4>2. row.version = Len(history[s]) /\ row.status = history[s][Len(history[s])].status
        BY <4>1, SMT DEF FromList
      <4>3. Tells(s, row)
        BY <4>2, Zenon DEF Tells, StatusInv
      <4>4. l.sub = s /\ l.row = row
        BY <3>2, <4>1, SMT
      <4> QED
        BY <4>3, <4>4, Zenon
    <3> QED
      BY <1>3, <2>2, <3>1, <3>2, Zenon DEF List
  <2> QED
    BY <2>1, <2>2, Zenon DEF StatusInv, Tells
<1>4. ASSUME NEW l \in pass, UpsertListed(l)
      PROVE  StatusInv'
  <2>1. UNCHANGED history /\ pass' \subseteq pass
    BY <1>4, Zenon DEF UpsertListed
  <2>2. CASE UNCHANGED mirror
    BY <2>1, <2>2, Zenon DEF StatusInv, Tells
  <2>3. CASE Upsert(l.sub, l.row)
    BY <2>1, <2>3, UpsertTells, Zenon DEF StatusInv, MInv, Typed
  <2> QED
    BY <1>4, <2>2, <2>3, Zenon DEF UpsertListed
<1>5. \A s \in Subs : {s} \in SUBSET Subs
  BY Zenon
<1> QED
  BY <1>1, <1>2, <1>3, <1>4, <1>5, Zenon DEF MirrorStep, Handle

\* Every step keeps what rows tell.
LEMMA NextStatus ==
    ASSUME PInv, StatusInv, [OpsNext]_allVars
    PROVE  StatusInv'
<1> USE DEF PInv
<1>1. CASE UNCHANGED <<history, mirror, pass>>
  BY <1>1, Zenon DEF StatusInv, Tells
<1>2. ASSUME NEW c \in Clients, Send(c)
      PROVE  StatusInv'
  <2>1. CASE Refused(call[c].w)
    BY <1>1, <1>2, <2>1, Zenon DEF Send, Execute, vars
  <2>2. CASE ~Refused(call[c].w)
    <3>1. call[c].pc = "send" /\ Execute(call[c].w)
      BY <1>2, Zenon DEF Send
    <3>2. PICK s \in Subs, o \in Operation : \E w :
            call[c] = [pc |-> "send", o |-> o, w |-> w] /\ history[s] # <<>> /\ Fitting(s, o, w)
      BY <3>1, CallAt, Zenon DEF Sending
    <3>3. PICK w :
            call[c] = [pc |-> "send", o |-> o, w |-> w] /\ history[s] # <<>> /\ Fitting(s, o, w)
      BY <3>2, Zenon
    <3>4. call[c].w = w
      BY <3>3, SMT
    <3>5. w.sub = s
      BY <2>2, <3>3, <3>4, WriteEffect, Zenon
    <3>6. UNCHANGED vars \/ \E kind : Change(s, kind)
      BY <3>1, <3>4, <3>5, Zenon DEF Execute
    <3> QED
      BY <1>1, <3>6, ChangeTells, Zenon DEF vars
  <2> QED
    BY <2>1, <2>2, Zenon
<1>3. ASSUME NEW s \in Subs, NEW kind, ChangedByStripe(s, kind)
      PROVE  StatusInv'
  BY <1>3, ChangeTells, Zenon DEF ChangedByStripe
<1>4. ASSUME NEW c \in Clients,
             \/ \E s \in Subs : \E o : Begin(c, s, o) \/ AddSeats(c, s, o)
             \/ AddSeatsSets(c)
             \/ SendFails(c)
      PROVE  StatusInv'
  <2>1. UNCHANGED <<history, mirror, pass>>
    BY <1>4, Zenon DEF Begin, AddSeats, AddSeatsSets, SendFails, mirrorVars, vars
  <2> QED
    BY <1>1, <2>1, Zenon
<1>5. CASE KeysExpire \/ UNCHANGED allVars
  BY <1>1, <1>5, Zenon DEF KeysExpire, allVars, vars
<1> QED
  BY <1>2, <1>3, <1>4, <1>5, MirrorTells, Zenon DEF OpsNext, CancelSubscriptionFromFailedRefund

\* A subscription whose deletion was applied grants nothing.
LEMMA RemovedGrantsNothing ==
    ASSUME MInv, StatusInv, NEW s \in Subs, Removed(s)
    PROVE  mirror[s].status = "canceled"
<1>1. history[s] \in Seq(Versions)
  BY Zenon DEF MInv, Typed
<1>2. DOMAIN history[s] = 1..Len(history[s]) /\ Len(history[s]) \in Nat
  BY <1>1
<1>3. PICK v \in 1..Len(history[s]) :
        /\ <<s, v>> \in applied
        /\ history[s][v].kind = "deleted"
        /\ \A u \in (1..Len(history[s])) \ {v} : history[s][u].second # history[s][v].second
  BY <1>2, Zenon DEF Removed
<1>4. mirror[s] # NoRow /\ history[s][v].second <= mirror[s].stamp
  BY <1>3, Zenon DEF MInv, Watermark
<1>5. PICK m : m = mirror[s].version
  OBVIOUS
<1>6. m \in 1..Len(history[s]) /\ mirror[s].stamp <= history[s][m].second
  BY <1>4, <1>5, Zenon DEF MInv, Stamped, Fits
<1>7. v = Len(history[s])
  BY <1>3, Zenon DEF StatusInv
<1>8. m \in 1..v
  BY <1>6, <1>7, Zenon
<1>9. history[s][m].second <= history[s][v].second
  BY <1>8, Zenon DEF MInv, Ordered
<1>10. history[s][m] \in Versions /\ history[s][v] \in Versions
  BY <1>1, <1>6
<1>11. history[s][m].second \in Nat /\ history[s][v].second \in Nat /\ mirror[s].stamp \in Nat
  BY <1>10, Zenon DEF Versions, MInv, Typed, RowType
<1>12. history[s][m].second = history[s][v].second
  BY <1>4, <1>6, <1>9, <1>11
<1>13. m = v
  BY <1>3, <1>6, <1>12, Zenon
<1> QED
  BY <1>3, <1>5, <1>13, Zenon DEF StatusInv, Tells

\* Once the deletion of every subscription of a subject has been applied, the subject
\* is entitled to nothing, whatever older events and reconcile passes still arrive.
THEOREM EntitlementsStayLost == OpsSpec => []AccessStaysLost
<1>1. PInv /\ StatusInv /\ [OpsNext]_allVars => (PInv /\ StatusInv)'
  BY NextPInv, NextStatus, Zenon
<1>2. OpsInit => PInv /\ StatusInv
  <2> SUFFICES ASSUME OpsInit PROVE StatusInv
    BY InitPInv, Zenon
  <2>1. \A s \in Subs : history[s] = <<>>
    BY Zenon DEF OpsInit, Init
  <2>2. pass = {}
    BY Zenon DEF OpsInit, Init
  <2>3. Len(<<>>) = 0 /\ 1..0 = {}
    OBVIOUS
  <2> QED
    BY <2>1, <2>2, <2>3, Zenon DEF StatusInv, Tells
<1>3. PInv /\ StatusInv => AccessStaysLost
  <2> SUFFICES ASSUME MInv, StatusInv, \A s \in Subs : InMirror(s) => Removed(s)
               PROVE  SnapshotFor = [active |-> FALSE, grace |-> FALSE,
                                     limit |-> [value |-> 0, has |-> FALSE], feature |-> FALSE]
    BY Zenon DEF AccessStaysLost, PInv
  <2>1. ListActive = {}
    <3>1. ASSUME NEW s \in Subs, InMirror(s)
          PROVE  mirror[s].status = "canceled"
      BY <3>1, RemovedGrantsNothing, Zenon
    <3> QED
      BY <3>1, Zenon DEF ListActive, IsAccessGranting
  <2>2. PlanItems = {}
    BY <2>1, Zenon DEF PlanItems
  <2>3. Limits = {} /\ Adds = {}
    BY <2>2, Zenon DEF Limits, Adds
  <2>4. mergeMetadata.has = FALSE /\ mergeMetadata.feature = FALSE
    BY <2>2, <2>3, Zenon DEF mergeMetadata
  <2>5. IntLimit(mergeMetadata) = [value |-> 0, has |-> FALSE]
    BY <2>4, Zenon DEF IntLimit
  <2> QED
    BY <2>1, <2>4, <2>5, Zenon DEF SnapshotFor
<1> QED
  BY <1>1, <1>2, <1>3, PTL DEF OpsSpec
=============================================================================
