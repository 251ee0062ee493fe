---------------------------- MODULE ConnectorProofs ----------------------------
(***************************************************************************)
(* Proofs about the connector: its life cycle and allowlist, for any       *)
(* number of instances of a namespace, deliveries, workers and any channel *)
(* capacity; then the catalog sync it runs, for any specs, syncers and     *)
(* number of faults.                                                       *)
(*                                                                         *)
(* The registry excludes a second instance because a holder's entry is     *)
(* there as long as no repeated Shutdown deleted it (Entered).             *)
(* NeverUnsold: a plan archives the holder of a declared key only behind   *)
(* the creation of its successor, or when the key has another price that   *)
(* no running plan archives (ArchivesSafely), and a creation Stripe would  *)
(* replay has left such a price (ReplaysSellable).  SyncSells: each        *)
(* running plan still has a call for whatever differs from the spec        *)
(* (Remains), and none at odds with what Stripe became (Fits).             *)
(***************************************************************************)
EXTENDS Connector, IPRefresher, Catalog, FiniteSetTheorems, TLAPS

Typed ==
    /\ closed \in [Instances -> BOOLEAN]
    /\ sender \in [Items -> [at: Instances \cup {""},
                             pc: {"new", "sending", "accepted", "refused"}]]
    /\ conn \in [Instances -> {"none", "warming", "live", "hooks", "stopping", "down"}]
    /\ detector \in [Instances -> {"off", "waiting", "checking", "exited"}]
    /\ registered \in BOOLEAN /\ robbed \in BOOLEAN

\* The namespace of an instance that is up is in the registry, unless a repeated
\* Shutdown deleted it.
Entered == ~robbed => \A k \in Instances : Holding(k) => registered

\* A drift detector runs only between New's success and the end of Shutdown.
Attended == \A k \in Instances :
    detector[k] \in {"waiting", "checking"} => conn[k] \in {"live", "hooks", "stopping"}

LInv == Typed /\ NeverSendsOnClosed /\ (~robbed => OneActive) /\ Entered /\ Attended

-----------------------------------------------------------------------------
\* Nothing runs before the first New.
LEMMA InitLInv == Init => LInv
<1> SUFFICES ASSUME Init PROVE LInv
  OBVIOUS
<1>1. Typed
  BY Zenon DEF Init, QueueInit, Typed
<1>2. NeverSendsOnClosed
  BY Zenon DEF Init, QueueInit, NeverSendsOnClosed
<1>3. OneActive /\ Entered /\ Attended
  BY Zenon DEF Init, OneActive, Entered, Attended, Holding
<1> QED
  BY <1>1, <1>2, <1>3, Zenon DEF LInv

\* Steps of senders, workers and q.Shutdown: no channel is closed while a sender
\* waits, and none waits on a closed one.
LEMMA QueueKeeps ==
    ASSUME LInv, UNCHANGED lifeVars,
           \/ \E i \in Items, k \in Instances : Enqueue(i, k)
           \/ \E i \in Items : Send(i) \/ SendRefused(i)
           \/ \E k \in Instances : QueueStep(k)
    PROVE  LInv'
<1>1. (~robbed => OneActive)' /\ Entered' /\ Attended'
  BY Zenon DEF LInv, lifeVars, OneActive, Entered, Attended, Holding
<1>2. ASSUME NEW i \in Items, NEW k \in Instances, Enqueue(i, k)
      PROVE  Typed' /\ NeverSendsOnClosed'
  <2>1. Typed'
    BY <1>2, Zenon DEF LInv, Typed, lifeVars, Enqueue
  <2>2. UNCHANGED closed /\ \A j \in Items \ {i} : sender'[j] = sender[j]
    BY <1>2, Zenon DEF LInv, Typed, Enqueue
  <2>3. sender'[i] = [at |-> k, pc |-> IF closed[k] THEN "refused" ELSE "sending"]
    BY <1>2, Zenon DEF LInv, Typed, Enqueue
  <2>4. ASSUME NEW l \in Instances, closed[l], NEW j \in Items,
               sender'[j] = [at |-> l, pc |-> "sending"]
        PROVE  FALSE
    BY <2>2, <2>3, <2>4 DEF LInv, NeverSendsOnClosed, Sending
  <2> QED
    BY <2>1, <2>2, <2>4, Zenon DEF NeverSendsOnClosed, Sending
<1>3. ASSUME NEW i \in Items, Send(i) \/ SendRefused(i)
      PROVE  Typed' /\ NeverSendsOnClosed'
  <2>1. PICK pc \in {"accepted", "refused"} : sender' = [sender EXCEPT ![i].pc = pc]
    BY <1>3, Zenon DEF Send, SendRefused
  <2>2. UNCHANGED closed
    BY <1>3, Zenon DEF Send, SendRefused
  <2>3. Typed'
    BY <2>1, <2>2, Zenon DEF LInv, Typed, lifeVars
  <2>4. sender'[i].pc = pc /\ \A j \in Items \ {i} : sender'[j] = sender[j]
    BY <2>1, Zenon DEF LInv, Typed
  <2> QED
    BY <2>2, <2>3, <2>4 DEF LInv, NeverSendsOnClosed, Sending
<1>4. ASSUME NEW k \in Instances, QueueStep(k)
      PROVE  Typed' /\ NeverSendsOnClosed'
  <2>1. UNCHANGED sender
    BY <1>4, Zenon DEF QueueStep, Receive, WorkerExit, EagerExit, Dispatched, ShutdownClose, CloseNow,
       ShutdownDrained, ShutdownGivesUp
  <2>2. CASE UNCHANGED closed
    BY <2>1, <2>2, Zenon DEF LInv, Typed, lifeVars, NeverSendsOnClosed, Sending
  <2>3. CASE ShutdownClose(k)
    BY <2>1, <2>3, Zenon DEF LInv, Typed, lifeVars, ShutdownClose, CloseNow, NeverSendsOnClosed, Sending
  <2> QED
    BY <1>4, <2>2, <2>3, Zenon DEF QueueStep, Receive, WorkerExit, EagerExit, Dispatched,
       ShutdownDrained, ShutdownGivesUp
<1> QED
  BY <1>1, <1>2, <1>3, <1>4, Zenon DEF LInv

\* Steps of New, Shutdown and the detector: a namespace is taken only when it is
\* free, and freed only by its holder or by a repeated Shutdown.
LEMMA LifeKeeps ==
    ASSUME LInv, UNCHANGED <<closed, sender>>, NEW k \in Instances,
           \/ NewClaim(k) \/ NewFails(k) \/ NewSucceeds(k)
           \/ ShutdownBegin(k) \/ StopDetector(k) \/ ShutdownEnd(k) \/ ShutdownAgain(k)
           \/ DetectorTick(k) \/ DetectorReport(k) \/ DetectorExit(k)
    PROVE  LInv'
<1> USE DEF LInv
<1>1. NeverSendsOnClosed'
  BY Zenon DEF NeverSendsOnClosed, Sending
<1>2. ASSUME NEW st \in {"warming", "live", "hooks", "stopping", "none", "down"},
             conn' = [conn EXCEPT ![k] = st]
      PROVE  /\ conn'[k] = st /\ \A j \in Instances \ {k} : conn'[j] = conn[j]
             /\ conn' \in [Instances -> {"none", "warming", "live", "hooks", "stopping", "down"}]
  BY <1>2, Zenon DEF Typed
<1>3. CASE NewClaim(k)
  <2>1. conn' = [conn EXCEPT ![k] = "warming"] /\ registered' = TRUE /\ ~registered
        /\ UNCHANGED <<detector, robbed>>
    BY <1>3, Zenon DEF NewClaim, StoreOnly
  <2>2. ~robbed => \A j \in Instances : ~Holding(j)
    BY <2>1, Zenon DEF Entered
  <2>3. Attended'
    BY <1>2, <1>3, <2>1, Zenon DEF Attended, NewClaim, StoreOnly
  <2> QED
    BY <1>1, <1>2, <2>1, <2>2, <2>3, ZenonT(30) DEF Typed, OneActive, Entered, Holding
<1>4. CASE NewFails(k) \/ ShutdownEnd(k)
  <2>1. PICK st \in {"none", "down"} : conn' = [conn EXCEPT ![k] = st]
    BY <1>4, Zenon DEF NewFails, ShutdownEnd, EndWithoutWait
  <2>2. registered' = FALSE /\ UNCHANGED <<detector, robbed>> /\ Holding(k)
    BY <1>4, Zenon DEF NewFails, ShutdownEnd, EndWithoutWait, Holding
  <2>3. ~robbed => \A j \in Instances : Holding(j) => j = k
    BY <2>2, Zenon DEF OneActive
  <2>4. Attended'
    BY <1>2, <1>4, <2>1, <2>2, Zenon DEF Attended, NewFails, ShutdownEnd, EndWithoutWait
  <2> QED
    BY <1>1, <1>2, <2>1, <2>2, <2>3, <2>4, Zenon DEF Typed, OneActive, Entered, Holding
<1>5. CASE NewSucceeds(k) \/ ShutdownBegin(k) \/ StopDetector(k)
  <2>1. PICK st \in {"live", "hooks", "stopping"} : conn' = [conn EXCEPT ![k] = st]
    BY <1>5, Zenon DEF NewSucceeds, ShutdownBegin, StopDetector
  <2>2. UNCHANGED <<registered, robbed>> /\ Holding(k)
    BY <1>5, Zenon DEF NewSucceeds, ShutdownBegin, StopDetector, Holding
  <2>3. /\ detector' \in [Instances -> {"off", "waiting", "checking", "exited"}]
        /\ \A j \in Instances \ {k} : detector'[j] = detector[j]
    BY <1>5, Zenon DEF Typed, NewSucceeds, ShutdownBegin, StopDetector
  <2>4. \A j \in Instances : Holding(j)' => Holding(j)
    BY <1>2, <2>1, <2>2, Zenon DEF Holding
  <2>5. Attended'
    BY <1>2, <2>1, <2>3, Zenon DEF Attended
  <2> QED
    BY <1>1, <1>2, <2>1, <2>2, <2>3, <2>4, <2>5, Zenon DEF Typed, OneActive, Entered
<1>6. CASE ShutdownAgain(k)
  <2>1. conn' = conn /\ detector' = detector /\ registered' = FALSE /\ robbed' = (robbed \/ registered)
    BY <1>6, Zenon DEF ShutdownAgain
  <2>2. Typed'
    BY <2>1, Zenon DEF Typed
  <2>3. Attended'
    BY <2>1, Zenon DEF Attended
  <2>4. ~robbed' => ~robbed /\ ~registered
    BY <2>1, Zenon DEF Typed
  <2>5. (~robbed => OneActive)'
    BY <2>1, <2>4, Zenon DEF OneActive, Holding
  <2>6. Entered'
    BY <2>1, <2>4, Zenon DEF Entered, Holding
  <2> QED
    BY <1>1, <2>2, <2>3, <2>5, <2>6, Zenon
<1>7. CASE DetectorTick(k) \/ DetectorReport(k) \/ DetectorExit(k)
  <2>1. PICK st \in {"checking", "waiting", "exited"} : detector' = [detector EXCEPT ![k] = st]
    BY <1>7, Zenon DEF DetectorTick, DetectorReport, DetectorExit
  <2>2. UNCHANGED <<registered, conn, robbed>> /\ detector[k] \in {"waiting", "checking"}
    BY <1>7, Zenon DEF DetectorTick, DetectorReport, DetectorExit
  <2>3. Attended'
    BY <2>1, <2>2, Zenon DEF Attended, Typed
  <2> QED
    BY <1>1, <2>1, <2>2, <2>3, Zenon DEF Typed, OneActive, Entered, Holding
<1> QED
  BY <1>3, <1>4, <1>5, <1>6, <1>7, Zenon

\* Every step of a process keeps the invariant.
LEMMA NextLInv ==
    ASSUME LInv, [Next]_vars
    PROVE  LInv'
<1>1. CASE UNCHANGED vars
  BY <1>1, Zenon DEF vars, queueVars, lifeVars, LInv, Typed, NeverSendsOnClosed, Sending, OneActive,
     Entered, Attended, Holding
<1>2. CASE \/ \E i \in Items, k \in Instances : Deliver(i, k)
           \/ \E i \in Items : (Send(i) \/ SendRefused(i)) /\ UNCHANGED lifeVars
           \/ \E k \in Instances : QueueStep(k)
  BY <1>2, QueueKeeps, Zenon DEF Deliver, QueueStep
<1>3. ASSUME NEW k \in Instances,
             \/ NewClaim(k) \/ NewFails(k) \/ NewSucceeds(k)
             \/ ShutdownBegin(k) \/ StopDetector(k) \/ ShutdownEnd(k) \/ ShutdownAgain(k)
             \/ DetectorTick(k) \/ DetectorReport(k) \/ DetectorExit(k)
      PROVE  LInv'
  <2>1. UNCHANGED <<closed, sender>>
    BY <1>3, Zenon DEF NewClaim, StoreOnly, NewFails, NewSucceeds, ShutdownBegin, ShutdownLock,
       StopDetector, ShutdownEnd, EndWithoutWait, ShutdownAgain, DetectorTick, DetectorReport,
       DetectorExit, queueVars
  <2> QED
    BY <1>3, <2>1, LifeKeeps, Zenon
<1> QED
  BY <1>1, <1>2, <1>3, Zenon DEF Next

\* The invariant holds from process start on.
LEMMA LInvHolds == Spec => []LInv
<1>1. LInv /\ [Next]_vars => LInv'
  BY NextLInv, Zenon
<1> QED
  BY InitLInv, <1>1, PTL DEF Spec

-----------------------------------------------------------------------------
\* No Enqueue ever sends on a closed channel (closeMu), for any number of senders
\* and workers.
THEOREM QueueNeverPanics == Spec => []NeverSendsOnClosed
<1>1. LInv => NeverSendsOnClosed
  BY Zenon DEF LInv
<1> QED
  BY LInvHolds, <1>1, PTL

\* Until a repeated Shutdown deletes the entry of an instance that is still up (a newer
\* one, or its own while the first Shutdown drains), at most one instance of a namespace
\* is up; and no drift detector outlives its Shutdown, repeated or not.
THEOREM NamespaceIsExclusive == Spec => []ActiveUntilRobbed
<1>1. LInv => ActiveUntilRobbed
  BY Zenon DEF LInv, ActiveUntilRobbed, Attended, Holding
<1> QED
  BY LInvHolds, <1>1, PTL

-----------------------------------------------------------------------------
(***************************************************************************)
(* The source IP refresher, for any number of callers of Start and Stop,   *)
(* of published lists and of goroutines.  As long as no Start is careless, *)
(* one call is in progress at a time and one goroutine runs at most        *)
(* (Alone, Attached), and whoever holds a fetched list holds one at least  *)
(* as new as the allowlist (Newer).                                        *)
(***************************************************************************)
RefresherSpec == NewIPRefresher /\ [][RefresherNext]_ipVars

CallType == [pc: {"idle", "fetch", "store", "apply", "spawn", "cancel", "wait"}, list: Nat]
LoopType == [pc: {"select", "fetch", "store", "apply", "exited"}, list: Nat, cancelled: BOOLEAN]

RTyped ==
    /\ published \in Nat /\ allowlist \in Nat /\ stop \in Nat
    /\ caller \in [Callers -> CallType]
    /\ loops \in Seq(LoopType)
    /\ careless \in BOOLEAN

\* No two calls overlap, and none is in progress while a goroutine is registered.
Alone ==
    /\ \A c, d \in Callers : caller[c].pc # "idle" /\ caller[d].pc # "idle" => c = d
    /\ stop # 0 => \A c \in Callers : caller[c].pc = "idle"

\* A goroutine that has not returned is the registered one, or the one a Stop has
\* taken over and waits for.
Attached == \A l \in DOMAIN loops : loops[l].pc # "exited" =>
    \/ stop = l
    \/ \E c \in Callers : caller[c].pc \in {"cancel", "wait"} /\ caller[c].list = l

\* A fetched list that is not applied yet is at least as new as the allowlist.
Newer ==
    /\ allowlist <= published
    /\ \A c \in Callers : caller[c].pc \in {"store", "apply"} =>
          caller[c].list \in allowlist .. published
    /\ \A l \in DOMAIN loops : loops[l].pc \in {"store", "apply"} =>
          loops[l].list \in allowlist .. published

RInv == RTyped /\ (~careless => Alone /\ Attached /\ Newer)

\* A refresher starts without goroutines and calls.
LEMMA InitRInv == NewIPRefresher => RInv
<1> SUFFICES ASSUME NewIPRefresher PROVE RInv
  OBVIOUS
<1>1. RTyped
  <2>1. Returned \in CallType
    BY DEF Returned, CallType
  <2>2. published \in Nat /\ allowlist \in Nat /\ stop \in Nat /\ loops \in Seq(LoopType)
    BY DEF NewIPRefresher
  <2> QED
    BY <2>1, <2>2, Zenon DEF NewIPRefresher, RTyped
<1>2. \A c \in Callers : caller[c].pc = "idle"
  BY Zenon DEF NewIPRefresher, Returned
<1>3. DOMAIN loops = {} /\ allowlist <= published
  BY DEF NewIPRefresher
<1>4. Alone /\ Attached /\ Newer
  BY <1>2, <1>3, Zenon DEF Alone, Attached, Newer, NewIPRefresher
<1> QED
  BY <1>1, <1>4, Zenon DEF RInv

\* While a Start that was not careless is in progress every goroutine has returned.
LEMMA StartsAlone ==
    ASSUME RInv, ~careless, NEW c \in Callers,
           caller[c].pc \in {"fetch", "store", "apply", "spawn"}
    PROVE  /\ stop = 0
           /\ \A l \in DOMAIN loops : loops[l].pc = "exited"
<1>1. stop = 0
  BY Zenon DEF RInv, Alone
<1>2. 0 \notin DOMAIN loops
  BY DEF RInv, RTyped
<1>3. \A d \in Callers : caller[d].pc \in {"cancel", "wait"} => FALSE
  BY Zenon DEF RInv, Alone
<1> QED
  BY <1>1, <1>2, <1>3, Zenon DEF RInv, Attached

\* Of the goroutines at most one has not returned, and no caller holds a list then.
LEMMA LoopsAlone ==
    ASSUME RInv, ~careless, NEW l \in DOMAIN loops, loops[l].pc # "exited"
    PROVE  /\ \A m \in DOMAIN loops : loops[m].pc # "exited" => m = l
           /\ \A c \in Callers : caller[c].pc \notin {"fetch", "store", "apply", "spawn"}
<1>1. \A c \in Callers : caller[c].pc \notin {"fetch", "store", "apply", "spawn"}
  BY StartsAlone, Zenon
<1>2. 0 \notin DOMAIN loops
  BY DEF RInv, RTyped
<1>3. ASSUME NEW m \in DOMAIN loops, loops[m].pc # "exited"
      PROVE  m = l
  <2>1. CASE stop = l \/ stop = m
    <3>1. \A c \in Callers : caller[c].pc = "idle"
      BY <1>2, <1>3, <2>1, Zenon DEF RInv, Alone
    <3> QED
      BY <1>3, <3>1, Zenon DEF RInv, Attached
  <2>2. CASE stop # l /\ stop # m
    <3>1. PICK c \in Callers : caller[c].pc \in {"cancel", "wait"} /\ caller[c].list = l
      BY <2>2, Zenon DEF RInv, Attached
    <3>2. PICK d \in Callers : caller[d].pc \in {"cancel", "wait"} /\ caller[d].list = m
      BY <1>3, <2>2, Zenon DEF RInv, Attached
    <3> QED
      BY <3>1, <3>2, Zenon DEF RInv, Alone
  <2> QED
    BY <2>1, <2>2, Zenon
<1> QED
  BY <1>1, <1>3, Zenon

\* A sequence with one element replaced.
LEMMA SeqElement ==
    ASSUME NEW S, NEW s \in Seq(S), NEW i \in DOMAIN s
    PROVE  s[i] \in S /\ \A x \in S : [s EXCEPT ![i] = x] \in Seq(S)
OBVIOUS

\* An update outside of the domain changes nothing.
LEMMA NoUpdate ==
    ASSUME NEW S, NEW s \in Seq(S), NEW i, i \notin DOMAIN s, NEW x
    PROVE  [s EXCEPT ![i] = x] = s
OBVIOUS

\* A caller's record with its position changed.
LEMMA CallTypeUpdates ==
    ASSUME NEW x \in CallType,
           NEW pc \in {"idle", "fetch", "store", "apply", "spawn", "cancel", "wait"}
    PROVE  /\ [x EXCEPT !.pc = pc] \in CallType /\ [x EXCEPT !.pc = pc].pc = pc
           /\ [x EXCEPT !.pc = pc].list = x.list
BY Zenon DEF CallType

\* The step of a caller replaces its own record; what it writes is typed.
LEMMA CallSteps ==
    ASSUME RTyped, NEW c \in Callers,
           \/ Start(c) \/ StartFetch(c) \/ StartStore(c) \/ StartApply(c)
           \/ StartSpawn(c) \/ Stop(c) \/ StopCancel(c) \/ StopWaits(c)
    PROVE  \E x \in CallType :
              /\ caller' = [caller EXCEPT ![c] = x]
              /\ caller'[c] = x /\ \A d \in Callers \ {c} : caller'[d] = caller[d]
              /\ \/ Start(c) /\ x.pc = "fetch"
                 \/ StartFetch(c) /\ x.pc \in {"store", "idle"} /\ (x.pc = "store" => x.list = published)
                 \/ StartStore(c) /\ x.pc = "apply" /\ x.list = caller[c].list
                 \/ StartApply(c) /\ x.pc = "spawn"
                 \/ (StartSpawn(c) \/ StopWaits(c)) /\ x.pc = "idle"
                 \/ Stop(c) /\ x.pc = "cancel" /\ x.list = stop
                 \/ StopCancel(c) /\ x.pc = "wait" /\ x.list = caller[c].list
<1>1. caller[c] \in CallType /\ published \in Nat /\ stop \in Nat /\ DOMAIN caller = Callers
  BY Zenon DEF RTyped
<1>2. \A x : caller' = [caller EXCEPT ![c] = x] =>
             caller'[c] = x /\ \A d \in Callers \ {c} : caller'[d] = caller[d]
  BY <1>1, Zenon
<1>3. /\ Returned \in CallType /\ Returned.pc = "idle"
      /\ [pc |-> "store", list |-> published] \in CallType
      /\ [pc |-> "cancel", list |-> stop] \in CallType
  BY <1>1 DEF Returned, CallType
<1>4. CASE StartFetch(c)
  BY <1>2, <1>3, <1>4, Zenon DEF StartFetch
<1>5. CASE StartSpawn(c) \/ StopWaits(c)
  BY <1>2, <1>3, <1>5, Zenon DEF StartSpawn, StopWaits, StopReturns
<1>6. CASE Stop(c)
  BY <1>2, <1>3, <1>6, Zenon DEF Stop
<1>7. ASSUME NEW pc \in {"fetch", "apply", "spawn", "wait"}, Goto(c, pc)
      PROVE  \E x \in CallType : /\ caller' = [caller EXCEPT ![c] = x]
                                 /\ x.pc = pc /\ x.list = caller[c].list
  <2>1. [caller[c] EXCEPT !.pc = pc] \in CallType
    BY <1>1, CallTypeUpdates, Zenon
  <2>2. [caller[c] EXCEPT !.pc = pc].pc = pc /\ [caller[c] EXCEPT !.pc = pc].list = caller[c].list
    BY <1>1, CallTypeUpdates
  <2> QED
    BY <1>7, <2>1, <2>2, Zenon DEF Goto
<1>8. CASE Start(c)
  BY <1>2, <1>7, <1>8, Zenon DEF Start
<1>9. CASE StartStore(c)
  BY <1>2, <1>7, <1>9, Zenon DEF StartStore
<1>10. CASE StartApply(c)
  BY <1>2, <1>7, <1>10, Zenon DEF StartApply
<1>11. CASE StopCancel(c)
  BY <1>2, <1>7, <1>11, Zenon DEF StopCancel
<1> QED
  BY <1>4, <1>5, <1>6, <1>8, <1>9, <1>10, <1>11, Zenon

\* The step of a goroutine replaces its own record; what it writes is typed.
LEMMA LoopSteps ==
    ASSUME RTyped, NEW l \in DOMAIN loops,
           LoopSelect(l) \/ LoopFetch(l) \/ LoopStore(l) \/ LoopApply(l)
    PROVE  \E x \in LoopType :
              /\ loops' \in Seq(LoopType) /\ DOMAIN loops' = DOMAIN loops
              /\ loops'[l] = x /\ \A m \in DOMAIN loops \ {l} : loops'[m] = loops[m]
              /\ loops[l].pc # "exited"
              /\ \/ LoopSelect(l) /\ x.pc \in {"fetch", "exited"}
                 \/ LoopFetch(l) /\ x.pc \in {"store", "select"} /\ (x.pc = "store" => x.list = published)
                 \/ LoopStore(l) /\ x.pc = "apply" /\ x.list = loops[l].list
                 \/ LoopApply(l) /\ x.pc = "select"
<1>1. loops \in Seq(LoopType) /\ published \in Nat
  BY Zenon DEF RTyped
<1>2. loops[l] \in LoopType
  BY <1>1, SeqElement, Zenon
<1>3. \A x \in LoopType : loops' = [loops EXCEPT ![l] = x] =>
          /\ loops' \in Seq(LoopType) /\ DOMAIN loops' = DOMAIN loops
          /\ loops'[l] = x /\ \A m \in DOMAIN loops \ {l} : loops'[m] = loops[m]
  <2>1. \A x \in LoopType : [loops EXCEPT ![l] = x] \in Seq(LoopType)
    BY <1>1, SeqElement, Zenon
  <2> QED
    BY <1>1, <2>1, Zenon
<1>4. ASSUME NEW pc \in {"select", "fetch", "apply", "exited"}, LoopGoto(l, pc)
      PROVE  \E x \in LoopType : /\ loops' = [loops EXCEPT ![l] = x]
                                 /\ x.pc = pc /\ x.list = loops[l].list
  <2>1. /\ [loops[l] EXCEPT !.pc = pc] \in LoopType
        /\ [loops[l] EXCEPT !.pc = pc].pc = pc /\ [loops[l] EXCEPT !.pc = pc].list = loops[l].list
    BY <1>2, Zenon DEF LoopType
  <2> QED
    BY <1>4, <2>1, Zenon DEF LoopGoto
<1>5. CASE LoopSelect(l)
  BY <1>3, <1>4, <1>5, Zenon DEF LoopSelect
<1>6. CASE LoopFetch(l)
  <2>1. CASE LoopGoto(l, "select")
    BY <1>3, <1>4, <1>6, <2>1, Zenon DEF LoopFetch
  <2>2. CASE loops' = [loops EXCEPT ![l].pc = "store", ![l].list = published]
    <3> DEFINE x == [loops[l] EXCEPT !.pc = "store", !.list = published]
    <3>1. x \in LoopType /\ x.pc = "store" /\ x.list = published
      BY <1>1, <1>2, Zenon DEF LoopType
    <3>2. loops' = [loops EXCEPT ![l] = x]
      BY <2>2, Zenon
    <3> QED
      BY <1>3, <1>6, <3>1, <3>2, Zenon DEF LoopFetch
  <2> QED
    BY <1>6, <2>1, <2>2, Zenon DEF LoopFetch
<1>7. CASE LoopStore(l)
  BY <1>3, <1>4, <1>7, Zenon DEF LoopStore
<1>8. CASE LoopApply(l)
  BY <1>3, <1>4, <1>8, Zenon DEF LoopApply
<1> QED
  BY <1>5, <1>6, <1>7, <1>8, Zenon

\* What a caller does to the goroutines: Start's last step adds one, Stop cancels one.
LEMMA CallLoops ==
    ASSUME RTyped, NEW c \in Callers,
           \/ Start(c) \/ StartFetch(c) \/ StartStore(c) \/ StartApply(c)
           \/ StartSpawn(c) \/ Stop(c) \/ StopCancel(c) \/ StopWaits(c)
    PROVE  /\ loops' \in Seq(LoopType)
           /\ \/ /\ DOMAIN loops' = DOMAIN loops
                 /\ \A m \in DOMAIN loops : loops'[m].pc = loops[m].pc /\ loops'[m].list = loops[m].list
                 /\ UNCHANGED stop \/ Stop(c)
              \/ /\ StartSpawn(c) /\ DOMAIN loops' = DOMAIN loops \cup {stop'}
                 /\ stop' \notin DOMAIN loops
                 /\ loops'[stop'] = [pc |-> "select", list |-> 0, cancelled |-> FALSE]
                 /\ \A m \in DOMAIN loops : loops'[m] = loops[m]
<1>1. loops \in Seq(LoopType)
  BY Zenon DEF RTyped
<1>2. CASE StopCancel(c)
  <2> DEFINE l == caller[c].list  x == [loops[l] EXCEPT !.cancelled = TRUE]
  <2>1. loops' = [loops EXCEPT ![l] = x] /\ UNCHANGED stop
    BY <1>2, Zenon DEF StopCancel
  <2>2. CASE l \in DOMAIN loops
    <3>1. loops[l] \in LoopType
      BY <1>1, <2>2, SeqElement, Zenon
    <3>2. x \in LoopType /\ x.pc = loops[l].pc /\ x.list = loops[l].list
      BY <3>1, Zenon DEF LoopType
    <3>3. loops' \in Seq(LoopType)
      BY <1>1, <2>1, <2>2, <3>2, SeqElement, Zenon
    <3> QED
      BY <2>1, <2>2, <3>2, <3>3, Zenon
  <2>3. CASE l \notin DOMAIN loops
    <3>1. loops' = loops
      BY <1>1, <2>1, <2>3, NoUpdate, Zenon
    <3> QED
      BY <1>1, <2>1, <3>1, Zenon
  <2> QED
    BY <2>2, <2>3, Zenon
<1>3. CASE StartSpawn(c) /\ stop = 0
  <2> DEFINE x == [pc |-> "select", list |-> 0, cancelled |-> FALSE]
  <2>1. loops' = Append(loops, x) /\ stop' = Len(loops) + 1
    BY <1>3, Zenon DEF StartSpawn
  <2>2. x \in LoopType
    BY DEF LoopType
  <2> HIDE DEF x
  <2>3. /\ loops' \in Seq(LoopType) /\ DOMAIN loops' = DOMAIN loops \cup {stop'}
        /\ stop' \notin DOMAIN loops /\ loops'[stop'] = x
        /\ \A m \in DOMAIN loops : loops'[m] = loops[m]
    BY <1>1, <2>1, <2>2
  <2> QED
    BY <1>3, <2>3, Zenon DEF x
<1>4. CASE loops' = loops /\ (UNCHANGED stop \/ Stop(c))
  BY <1>1, <1>4, Zenon
<1> QED
  BY <1>2, <1>3, <1>4, Zenon DEF Start, StartFetch, StartStore, StartApply, StartSpawn,
     Stop, StopWaits, StopReturns

\* A caller's step, as long as no Start was careless.
LEMMA CallKeeps ==
    ASSUME RInv, ~careless', NEW c \in Callers,
           \/ Start(c) \/ StartFetch(c) \/ StartStore(c) \/ StartApply(c)
           \/ StartSpawn(c) \/ Stop(c) \/ StopCancel(c) \/ StopWaits(c)
    PROVE  Alone' /\ Attached' /\ Newer'
<1>1. RTyped /\ ~careless /\ UNCHANGED published
  <2>1. CASE Start(c)
    BY <2>1, Zenon DEF RInv, Start
  <2>2. CASE UNCHANGED <<published, careless>>
    BY <2>2, Zenon DEF RInv
  <2> QED
    BY <2>1, <2>2, ZenonT(30) DEF StartFetch, StartStore, StartApply, StartSpawn, Stop, StopCancel,
       StopWaits, StopReturns
<1>2. Alone /\ Attached /\ Newer
  BY <1>1, Zenon DEF RInv
<1>3. PICK x \in CallType :
         /\ caller'[c] = x /\ \A d \in Callers \ {c} : caller'[d] = caller[d]
         /\ \/ Start(c) /\ x.pc = "fetch"
            \/ StartFetch(c) /\ x.pc \in {"store", "idle"} /\ (x.pc = "store" => x.list = published)
            \/ StartStore(c) /\ x.pc = "apply" /\ x.list = caller[c].list
            \/ StartApply(c) /\ x.pc = "spawn"
            \/ (StartSpawn(c) \/ StopWaits(c)) /\ x.pc = "idle"
            \/ Stop(c) /\ x.pc = "cancel" /\ x.list = stop
            \/ StopCancel(c) /\ x.pc = "wait" /\ x.list = caller[c].list
  BY <1>1, CallSteps, Zenon
<1>4. CASE Start(c)
  <2>1. stop = 0 /\ (\A d \in Callers : caller[d].pc = "idle") /\ UNCHANGED <<stop, loops, allowlist>>
    BY <1>4, Zenon DEF Start
  <2>2. x.pc = "fetch"
    BY <1>3, <1>4, <2>1, Zenon DEF Start, StartFetch, StartStore, StartApply, StartSpawn, Stop,
       StopCancel, StopWaits, StopReturns
  <2>3. Alone'
    BY <1>3, <2>1, Zenon DEF Alone
  <2>4. Attached'
    BY <1>2, <1>3, <2>1, Zenon DEF Attached
  <2>5. Newer'
    BY <1>1, <1>2, <1>3, <2>1, <2>2, Zenon DEF Newer
  <2> QED
    BY <2>3, <2>4, <2>5
<1>5. CASE StartFetch(c) \/ StartStore(c) \/ StartApply(c) \/ StartSpawn(c)
  <2>1. caller[c].pc \in {"fetch", "store", "apply", "spawn"}
    BY <1>5, Zenon DEF StartFetch, StartStore, StartApply, StartSpawn
  <2>2. stop = 0 /\ \A l \in DOMAIN loops : loops[l].pc = "exited"
    BY <1>1, <2>1, StartsAlone, Zenon
  <2>3. \A d \in Callers \ {c} : caller[d].pc = "idle" /\ caller'[d].pc = "idle"
    BY <1>2, <1>3, <2>1, Zenon DEF Alone
  <2>4. CASE ~StartSpawn(c)
    <3>1. UNCHANGED <<stop, loops>>
      BY <1>5, <2>4, Zenon DEF StartFetch, StartStore, StartApply
    <3>2. Alone' /\ Attached'
      BY <2>2, <2>3, <3>1, Zenon DEF Alone, Attached
    <3>3. allowlist' <= published /\ (x.pc \in {"store", "apply"} => x.list \in allowlist' .. published)
      <4>1. CASE StartFetch(c)
        <5>1. x.pc \in {"store", "idle"} /\ (x.pc = "store" => x.list = published) /\ UNCHANGED allowlist
          BY <1>3, <4>1, Zenon DEF Start, StartFetch, StartStore, StartApply, StartSpawn, Stop,
             StopCancel, StopWaits, StopReturns
        <5> QED
          BY <1>1, <1>2, <5>1 DEF Newer, RTyped
      <4>2. CASE StartStore(c)
        <5>1. x.list = caller[c].list /\ caller[c].pc = "store" /\ UNCHANGED allowlist
          BY <1>3, <4>2, Zenon DEF Start, StartFetch, StartStore, StartApply, StartSpawn, Stop,
             StopCancel, StopWaits, StopReturns
        <5> QED
          BY <1>2, <5>1, Zenon DEF Newer
      <4>3. CASE StartApply(c)
        <5>1. x.pc = "spawn" /\ caller[c].pc = "apply" /\ SetAllowedCIDRs(caller[c].list)
          BY <1>3, <4>3, Zenon DEF Start, StartFetch, StartStore, StartApply, StartSpawn, Stop,
             StopCancel, StopWaits, StopReturns
        <5>2. caller[c].list \in allowlist .. published
          BY <1>2, <5>1, Zenon DEF Newer
        <5> QED
          BY <1>1, <1>2, <5>1, <5>2 DEF Newer, SetAllowedCIDRs, RTyped
      <4> QED
        BY <1>5, <2>4, <4>1, <4>2, <4>3, Zenon
    <3>4. Newer'
      BY <1>1, <1>3, <2>2, <2>3, <3>1, <3>3, Zenon DEF Newer
    <3> QED
      BY <3>2, <3>4
  <2>5. CASE StartSpawn(c)
    <3>1. x.pc = "idle" /\ UNCHANGED allowlist
      BY <1>3, <2>5, Zenon DEF Start, StartFetch, StartStore, StartApply, StartSpawn, Stop,
         StopCancel, StopWaits, StopReturns
    <3>2. /\ DOMAIN loops' = DOMAIN loops \cup {stop'}
          /\ loops'[stop'] = [pc |-> "select", list |-> 0, cancelled |-> FALSE]
          /\ \A m \in DOMAIN loops : loops'[m] = loops[m]
      BY <1>1, <2>2, <2>5 DEF StartSpawn, RTyped
    <3>3. Alone'
      BY <1>3, <2>3, <3>1, Zenon DEF Alone
    <3>4. Attached'
      BY <2>2, <3>2, Zenon DEF Attached
    <3>5. \A d \in Callers : caller'[d].pc = "idle"
      BY <1>3, <2>3, <3>1, Zenon
    <3>6. \A m \in DOMAIN loops' : loops'[m].pc \in {"exited", "select"}
      BY <2>2, <3>2
    <3>7. Newer'
      BY <1>1, <1>2, <3>1, <3>5, <3>6, Zenon DEF Newer
    <3> QED
      BY <3>3, <3>4, <3>7
  <2> QED
    BY <2>4, <2>5
<1>6. CASE Stop(c) \/ StopCancel(c) \/ StopWaits(c)
  <2>1. UNCHANGED allowlist
    BY <1>6, Zenon DEF Stop, StopCancel, StopWaits, StopReturns
  <2>2. /\ DOMAIN loops' = DOMAIN loops
        /\ \A m \in DOMAIN loops : loops'[m].pc = loops[m].pc /\ loops'[m].list = loops[m].list
    BY <1>1, <1>6, CallLoops, Zenon DEF StartSpawn, Stop, StopCancel, StopWaits, StopReturns
  <2>3. x.pc \in {"cancel", "wait", "idle"}
    BY <1>3, <1>6, Zenon DEF Start, StartFetch, StartStore, StartApply, StartSpawn, Stop,
       StopCancel, StopWaits, StopReturns
  <2>4. stop' = 0 /\ \A d \in Callers \ {c} : caller[d].pc = "idle" /\ caller'[d].pc = "idle"
    BY <1>2, <1>3, <1>6, Zenon DEF Alone, Stop, StopCancel, StopWaits, StopReturns
  <2>5. Alone'
    BY <2>4, Zenon DEF Alone
  <2>6. Newer'
    BY <1>1, <1>2, <1>3, <2>1, <2>2, <2>3, <2>4, Zenon DEF Newer
  <2>7. Attached'
    <3>1. CASE Stop(c)
      <4>1. x.pc = "cancel" /\ x.list = stop /\ \A d \in Callers : caller[d].pc = "idle"
        BY <1>2, <1>3, <3>1, Zenon DEF Alone, Start, StartFetch, StartStore, StartApply, StartSpawn,
           Stop, StopCancel, StopWaits, StopReturns
      <4>2. \A l \in DOMAIN loops : loops[l].pc # "exited" => l = stop
        BY <1>2, <4>1, Zenon DEF Attached
      <4>3. caller'[c].pc \in {"cancel", "wait"} /\ caller'[c].list = stop
        BY <1>3, <4>1, Zenon
      <4>4. \A l \in DOMAIN loops' : loops'[l].pc # "exited" => l = stop
        BY <2>2, <4>2, Zenon
      <4> QED
        BY <4>3, <4>4, Zenon DEF Attached
    <3>2. CASE StopCancel(c)
      <4>1. x.pc = "wait" /\ x.list = caller[c].list /\ caller[c].pc = "cancel" /\ stop = 0
        BY <1>2, <1>3, <3>2, Zenon DEF Alone, Start, StartFetch, StartStore, StartApply, StartSpawn,
           Stop, StopCancel, StopWaits, StopReturns
      <4>2. 0 \notin DOMAIN loops
        BY <1>1 DEF RTyped
      <4>3. \A l \in DOMAIN loops : loops[l].pc # "exited" => l = caller[c].list
        BY <1>2, <2>4, <4>1, <4>2, Zenon DEF Attached
      <4> QED
        BY <1>3, <2>2, <4>1, <4>3, Zenon DEF Attached
    <3>3. CASE StopWaits(c)
      BY <2>2, <3>3, Zenon DEF Attached, StopWaits
    <3> QED
      BY <1>6, <3>1, <3>2, <3>3, Zenon
  <2> QED
    BY <2>5, <2>6, <2>7
<1> QED
  BY <1>4, <1>5, <1>6, Zenon

\* A goroutine's step, as long as no Start was careless.
LEMMA LoopKeeps ==
    ASSUME RInv, ~careless, NEW l \in DOMAIN loops,
           LoopSelect(l) \/ LoopFetch(l) \/ LoopStore(l) \/ LoopApply(l)
    PROVE  Alone' /\ Attached' /\ Newer' /\ allowlist' >= allowlist
<1>1. RTyped /\ Alone /\ Attached /\ Newer /\ UNCHANGED <<published, stop, caller>>
  BY Zenon DEF RInv, LoopSelect, LoopFetch, LoopStore, LoopApply
<1>2. PICK x \in LoopType :
         /\ DOMAIN loops' = DOMAIN loops
         /\ loops'[l] = x /\ \A m \in DOMAIN loops \ {l} : loops'[m] = loops[m]
         /\ loops[l].pc # "exited"
         /\ \/ LoopSelect(l) /\ x.pc \in {"fetch", "exited"}
            \/ LoopFetch(l) /\ x.pc \in {"store", "select"} /\ (x.pc = "store" => x.list = published)
            \/ LoopStore(l) /\ x.pc = "apply" /\ x.list = loops[l].list
            \/ LoopApply(l) /\ x.pc = "select"
  BY <1>1, LoopSteps, Zenon
<1>3. /\ \A m \in DOMAIN loops : loops[m].pc # "exited" => m = l
      /\ \A c \in Callers : caller[c].pc \notin {"fetch", "store", "apply", "spawn"}
  BY <1>2, LoopsAlone, Zenon
<1>4. Alone'
  BY <1>1, Zenon DEF Alone
<1>5. Attached'
  BY <1>1, <1>2, Zenon DEF Attached
<1>6. /\ allowlist' <= published /\ (x.pc \in {"store", "apply"} => x.list \in allowlist' .. published)
      /\ allowlist' >= allowlist
  <2>1. CASE LoopSelect(l) \/ LoopFetch(l)
    <3>1. UNCHANGED allowlist /\ (x.pc \in {"store", "apply"} => x.list = published)
      BY <1>2, <2>1, Zenon DEF LoopSelect, LoopFetch, LoopStore, LoopApply
    <3> QED
      BY <1>1, <3>1 DEF Newer, RTyped
  <2>2. CASE LoopStore(l)
    <3>1. UNCHANGED allowlist /\ x.list = loops[l].list /\ loops[l].pc = "store"
      BY <1>2, <2>2, Zenon DEF LoopSelect, LoopFetch, LoopStore, LoopApply
    <3>2. loops[l].list \in allowlist .. published
      BY <1>1, <3>1, Zenon DEF Newer
    <3> QED
      BY <1>1, <3>1, <3>2 DEF Newer, RTyped
  <2>3. CASE LoopApply(l)
    <3>1. x.pc = "select" /\ loops[l].pc = "apply" /\ SetAllowedCIDRs(loops[l].list)
      BY <1>2, <2>3, Zenon DEF LoopSelect, LoopFetch, LoopStore, LoopApply
    <3>2. loops[l].list \in allowlist .. published
      BY <1>1, <3>1, Zenon DEF Newer
    <3> QED
      BY <1>1, <3>1, <3>2 DEF Newer, SetAllowedCIDRs, RTyped
  <2> QED
    BY <2>1, <2>2, <2>3, Zenon
<1>7. Newer'
  <2>1. \A m \in DOMAIN loops' : m # l => loops'[m].pc = "exited"
    BY <1>2, <1>3, Zenon
  <2> QED
    BY <1>1, <1>2, <1>3, <1>6, <2>1, Zenon DEF Newer
<1> QED
  BY <1>4, <1>5, <1>6, <1>7

\* Every step of the refresher keeps the invariant.
LEMMA NextRInv ==
    ASSUME RInv, [RefresherNext]_ipVars
    PROVE  RInv'
<1>1. CASE UNCHANGED ipVars
  BY <1>1, Zenon DEF ipVars, RInv, RTyped, Alone, Attached, Newer
<1>2. ASSUME NEW c \in Callers,
             \/ Start(c) \/ StartFetch(c) \/ StartStore(c) \/ StartApply(c)
             \/ StartSpawn(c) \/ Stop(c) \/ StopCancel(c) \/ StopWaits(c)
      PROVE  RInv'
  <2>1. caller' \in [Callers -> CallType]
    <3>1. PICK x \in CallType : caller' = [caller EXCEPT ![c] = x]
      BY <1>2, CallSteps, Zenon DEF RInv
    <3> QED
      BY <3>1, Zenon DEF RInv, RTyped
  <2>2. published' \in Nat /\ allowlist' \in Nat /\ stop' \in Nat
    <3>1. caller[c] \in CallType /\ Len(loops) \in Nat
      BY DEF RInv, RTyped
    <3>2. caller[c].list \in Nat
      BY <3>1, Zenon DEF CallType
    <3> QED
      BY <1>2, <3>1, <3>2 DEF RInv, RTyped, Start, StartFetch, StartStore, StartApply, SetAllowedCIDRs,
         StartSpawn, Stop, StopCancel, StopWaits, StopReturns
  <2>3. careless' \in BOOLEAN
    BY <1>2, Zenon DEF RInv, RTyped, Start, StartFetch, StartStore, StartApply, StartSpawn,
       Stop, StopCancel, StopWaits, StopReturns
  <2>4. loops' \in Seq(LoopType)
    BY <1>2, CallLoops, Zenon DEF RInv
  <2>5. RTyped'
    BY <2>1, <2>2, <2>3, <2>4, Zenon DEF RTyped
  <2> QED
    BY <1>2, <2>5, CallKeeps, Zenon DEF RInv
<1>3. ASSUME NEW l \in DOMAIN loops, LoopSelect(l) \/ LoopFetch(l) \/ LoopStore(l) \/ LoopApply(l)
      PROVE  RInv'
  <2>1. UNCHANGED <<published, stop, caller, careless>>
    BY <1>3, Zenon DEF LoopSelect, LoopFetch, LoopStore, LoopApply
  <2>2. loops' \in Seq(LoopType)
    BY <1>3, LoopSteps, Zenon DEF RInv
  <2>3. allowlist' \in Nat
    <3>1. loops[l].list \in Nat
      BY SeqElement, Zenon DEF RInv, RTyped, LoopType
    <3> QED
      BY <1>3, <3>1, Zenon DEF RInv, RTyped, LoopSelect, LoopFetch, LoopStore, LoopApply, SetAllowedCIDRs
  <2>4. RTyped'
    BY <2>1, <2>2, <2>3, Zenon DEF RInv, RTyped
  <2> QED
    BY <1>3, <2>1, <2>4, LoopKeeps, Zenon DEF RInv
<1>4. CASE Publish
  <2>1. published' = published + 1 /\ UNCHANGED <<allowlist, stop, loops, caller, careless>>
    BY <1>4, Zenon DEF Publish
  <2>2. RTyped'
    BY <2>1 DEF RInv, RTyped
  <2>3. Alone /\ Attached => Alone' /\ Attached'
    BY <2>1, Zenon DEF Alone, Attached
  <2>4. \A n : n \in allowlist .. published => n \in allowlist' .. published'
    BY <2>1 DEF RInv, RTyped
  <2>5. allowlist <= published => allowlist' <= published'
    BY <2>1 DEF RInv, RTyped
  <2>6. Newer => Newer'
    BY <2>1, <2>4, <2>5, Zenon DEF Newer
  <2> QED
    BY <2>1, <2>2, <2>3, <2>6, Zenon DEF RInv
<1> QED
  BY <1>1, <1>2, <1>3, <1>4, Zenon DEF RefresherNext

\* Unless a Start overlaps another call or a running refresher, the allowlist never
\* goes back to an older list (IPRefresher.Stop waits for the goroutine), for any number
\* of callers, lists and restarts.
THEOREM RefreshNeverRollsBack == RefresherSpec => NeverRolledBack
<1>1. RInv /\ [RefresherNext]_ipVars => RInv'
  BY NextRInv, Zenon
<1>2. RInv /\ [RefresherNext]_ipVars => [careless \/ allowlist' >= allowlist]_ipVars
  <2> SUFFICES ASSUME RInv, RefresherNext, ~careless PROVE allowlist' >= allowlist
    BY Zenon
  <2>1. ASSUME NEW c \in Callers, StartApply(c) PROVE allowlist' >= allowlist
    <3>1. caller[c].list \in allowlist .. published
      BY <2>1, Zenon DEF RInv, Newer, StartApply
    <3> QED
      BY <2>1, <3>1 DEF StartApply, SetAllowedCIDRs, RInv, RTyped
  <2>2. ASSUME NEW l \in DOMAIN loops,
               LoopSelect(l) \/ LoopFetch(l) \/ LoopStore(l) \/ LoopApply(l)
        PROVE  allowlist' >= allowlist
    BY <2>2, LoopKeeps, Zenon
  <2>3. CASE UNCHANGED allowlist
    BY <2>3 DEF RInv, RTyped
  <2> QED
    BY <2>1, <2>2, <2>3, Zenon DEF RefresherNext, Start, StartFetch, StartStore, StartSpawn, Stop,
       StopCancel, StopWaits, StopReturns, Publish
<1> QED
  BY InitRInv, <1>1, <1>2, PTL DEF RefresherSpec, NeverRolledBack

-----------------------------------------------------------------------------
\* What the catalogs that may be deployed declare.
ProductKeys == UNION {DOMAIN s.products : s \in Specs}
ProductSpecs == UNION {{s.products[p] : p \in DOMAIN s.products} : s \in Specs}
MeterKeys == UNION {s.meters : s \in Specs}
PriceKeys == {NoKey} \cup UNION {AllLookupKeys(s) : s \in Specs}
Amounts == UNION {{Amount(s, key) : key \in AllLookupKeys(s)} : s \in Specs}

\* The calls of a plan: those on products and meters, the creation of a declared
\* price, the archiving of a price.
QuietCalls ==
    [op: {"product.create", "product.update"}, id: ProductKeys, new: ProductSpecs]
    \cup [op: {"product.set_active"}, id: ProductKeys, active: BOOLEAN]
    \cup [op: {"meter.create", "meter.archive"}, id: MeterKeys]
PriceCreates(s) == {NewPrice(s, d[1], d[2]) : d \in AllLookupKeys(s) \X BOOLEAN}
PriceArchives == {SetPriceInactive(i) : i \in Nat}
CallsOf(s) == QuietCalls \cup PriceCreates(s) \cup PriceArchives

\* The call archives price i.
Archives(c, i) == c.op = "price.set_active" /\ c.id = i

\* The type invariant: finite tables in Stripe, and plans made of the spec's calls.
CatalogTyped ==
    /\ spec \in Specs
    /\ IsFiniteSet(DOMAIN products) /\ DOMAIN products \subseteq ProductKeys
    /\ IsFiniteSet(DOMAIN meters) /\ DOMAIN meters \subseteq MeterKeys
    /\ prices \in Seq([key: PriceKeys, product: ProductKeys, amount: Amounts, active: BOOLEAN])
    /\ clean \in Nat
    /\ sync \in [Syncers -> [on: BOOLEAN, base: Nat, calls: Seq(CallsOf(spec))]]
    /\ \A s \in Syncers : ~sync[s].on => sync[s].calls = <<>>

\* The key has an active price at the declared amount that no running plan archives.
Sellable(key) ==
    \E j \in DOMAIN prices :
        /\ prices[j].key = key /\ prices[j].active /\ prices[j].amount = Amount(spec, key)
        /\ \A s \in Syncers : \A p \in DOMAIN sync[s].calls : ~Archives(sync[s].calls[p], j)

\* A price a running plan will archive holds no declared key, or its successor is
\* created by the call before, or the key has another price.
ArchivesSafely(s) ==
    LET q == sync[s].calls
    IN  \A p \in DOMAIN q : q[p].op = "price.set_active" =>
            /\ q[p].id \in DOMAIN prices
            /\ \A key \in AllLookupKeys(spec) : prices[q[p].id].key = key =>
                 \/ p - 1 \in DOMAIN q /\ q[p - 1] = NewPrice(spec, key, TRUE)
                 \/ Sellable(key)

\* A price whose creation Stripe would replay is on sale.
ReplaysSellable ==
    \A key \in AllLookupKeys(spec), t \in BOOLEAN :
        IdemKey(NewPrice(spec, key, t)) \in used => Sellable(key)

\* The inductive invariant of NeverUnsold.
CatalogInv ==
    /\ CatalogTyped
    /\ \A s \in Syncers : ArchivesSafely(s)
    /\ ReplaysSellable

-----------------------------------------------------------------------------
\* A table lists finitely many values.
LEMMA ImageFinite ==
    ASSUME NEW f, IsFiniteSet(DOMAIN f)
    PROVE  IsFiniteSet({f[x] : x \in DOMAIN f})
<1> DEFINE T == {f[x] : x \in DOMAIN f}
           g == [x \in DOMAIN f |-> f[x]]
<1>1. g \in Surjection(DOMAIN f, T)
  BY DEF Surjection
<1> HIDE DEF g
<1>2. IsFiniteSet(T)
  BY <1>1, FS_Surjection, Zenon
<1> QED  BY <1>2

\* So does a part of one: a kind of plan item, listed by the keys it is made from.
LEMMA ListingFinite ==
    ASSUME NEW D, IsFiniteSet(D), NEW f, DOMAIN f \in SUBSET D,
           NEW T, T = {f[x] : x \in DOMAIN f}
    PROVE  IsFiniteSet(T)
<1>1. IsFiniteSet(DOMAIN f)
  BY FS_Subset, Zenon
<1> QED  BY <1>1, ImageFinite, Zenon

\* sortedKeys lists elements of the set.
LEMMA SortedOf ==
    ASSUME NEW S, IsFiniteSet(S)
    PROVE  sortedKeys(S) \in Seq(S)
<1>1. Cardinality(S) \in Nat /\ ExistsBijection(1 .. Cardinality(S), S)
  BY FS_CardinalityType, Zenon
<1>2. PICK f : f \in Bijection(1 .. Cardinality(S), S)
  BY <1>1, Zenon DEF ExistsBijection
<1>3. f \in [1 .. Cardinality(S) -> S] /\ IsInjective(f)
  BY <1>2, Zenon DEF Bijection, Injection, Surjection, IsInjective
<1>4. sortedKeys(S) \in [1 .. Cardinality(S) -> S]
  BY <1>3, Zenon DEF sortedKeys
<1> QED  BY <1>1, <1>4

\* A spec declares finitely many lookup keys.
LEMMA KeysFinite == ASSUME NEW s \in Specs PROVE IsFiniteSet(AllLookupKeys(s))
<1> DEFINE keys(p) == {<<p, k>> : k \in DOMAIN s.products[p].prices}
           f == [p \in DOMAIN s.products |-> keys(p)]
<1>1. ASSUME NEW p \in DOMAIN s.products PROVE IsFiniteSet(keys(p))
  <2> DEFINE g == [k \in DOMAIN s.products[p].prices |-> <<p, k>>]
  <2>1. DOMAIN g = DOMAIN s.products[p].prices /\ keys(p) = {g[k] : k \in DOMAIN g}
    BY Zenon
  <2> HIDE DEF g, keys
  <2>2. IsFiniteSet(DOMAIN s.products[p].prices)
    BY SpecsAssumption, Zenon
  <2> QED  BY <2>1, <2>2, ImageFinite, Zenon
<1>2. DOMAIN f = DOMAIN s.products /\ AllLookupKeys(s) = UNION {f[p] : p \in DOMAIN f}
  <2>1. AllLookupKeys(s) = UNION {keys(p) : p \in DOMAIN s.products}
    BY DEF AllLookupKeys
  <2> HIDE DEF keys
  <2>2. DOMAIN f = DOMAIN s.products /\ {f[p] : p \in DOMAIN f} = {keys(p) : p \in DOMAIN s.products}
    OBVIOUS
  <2> HIDE DEF f
  <2> QED  BY <2>1, <2>2, Zenon
<1>3. IsFiniteSet(DOMAIN s.products)
  BY SpecsAssumption, Zenon
<1>4. IsFiniteSet({f[p] : p \in DOMAIN f})
  <2> HIDE DEF f
  <2> QED  BY <1>2, <1>3, ImageFinite, Zenon
<1>5. \A T \in {f[p] : p \in DOMAIN f} : IsFiniteSet(T)
  <2> HIDE DEF keys
  <2> QED  BY <1>1, <1>2, Zenon
<1> HIDE DEF f
<1> QED  BY <1>2, <1>4, <1>5, FS_UNION, Zenon

-----------------------------------------------------------------------------
\* Diff's plan: a price is archived because its key is not declared, or right after
\* the call that creates its successor, and then it is archived already or differs.
Planned(q) ==
    \A p \in DOMAIN q : q[p].op = "price.set_active" =>
        /\ q[p].id \in DOMAIN prices
        /\ \/ prices[q[p].id].key \notin AllLookupKeys(spec)
           \/ /\ p - 1 \in DOMAIN q /\ q[p - 1] = NewPrice(spec, prices[q[p].id].key, TRUE)
              /\ priceNeedsReplace(spec, prices[q[p].id].key, prices[q[p].id])

\* Apply's concatenation of two well-planned lists is one.
LEMMA PlannedConcat ==
    ASSUME NEW T, NEW u \in Seq(T), NEW v \in Seq(T), Planned(u), Planned(v)
    PROVE  u \o v \in Seq(T) /\ Planned(u \o v)
<1> DEFINE w == u \o v
<1>1. /\ w \in Seq(T) /\ Len(u) \in Nat /\ Len(v) \in Nat
      /\ DOMAIN u = 1 .. Len(u) /\ DOMAIN v = 1 .. Len(v) /\ DOMAIN w = 1 .. (Len(u) + Len(v))
      /\ \A p \in 1 .. Len(u) : w[p] = u[p]
      /\ \A p \in 1 .. (Len(u) + Len(v)) : p \notin 1 .. Len(u) => w[p] = v[p - Len(u)]
  OBVIOUS
<1> HIDE DEF w
<1>2. ASSUME NEW p \in DOMAIN w, w[p].op = "price.set_active"
      PROVE  /\ w[p].id \in DOMAIN prices
             /\ \/ prices[w[p].id].key \notin AllLookupKeys(spec)
                \/ /\ p - 1 \in DOMAIN w /\ w[p - 1] = NewPrice(spec, prices[w[p].id].key, TRUE)
                   /\ priceNeedsReplace(spec, prices[w[p].id].key, prices[w[p].id])
  <2>1. CASE p \in 1 .. Len(u)
    <3>1. p \in DOMAIN u /\ w[p] = u[p]
      BY <1>1, <2>1
    <3>2. p - 1 \in DOMAIN u => p - 1 \in DOMAIN w /\ w[p - 1] = u[p - 1]
      BY <1>1, <2>1
    <3> QED  BY <1>2, <3>1, <3>2, Zenon DEF Planned
  <2>2. CASE p \notin 1 .. Len(u)
    <3> DEFINE r == p - Len(u)
    <3>1. r \in DOMAIN v /\ w[p] = v[r]
      BY <1>1, <2>2
    <3>2. r - 1 \in DOMAIN v => p - 1 \in DOMAIN w /\ w[p - 1] = v[r - 1]
      <4>1. p \in Int /\ p - 1 - Len(u) = r - 1
        BY <1>1
      <4>2. r - 1 \in DOMAIN v => p - 1 \in 1 .. (Len(u) + Len(v)) /\ p - 1 \notin 1 .. Len(u)
        BY <1>1
      <4> HIDE DEF r
      <4> QED  BY <1>1, <4>1, <4>2, Zenon
    <3> HIDE DEF r
    <3> QED  BY <1>2, <3>1, <3>2, Zenon DEF Planned
  <2> QED  BY <2>1, <2>2, Zenon
<1>3. Planned(w)
  BY <1>2, Zenon DEF Planned
<1> QED  BY <1>1, <1>3 DEF w

\* A list without archivings is well planned.
LEMMA PlannedQuiet ==
    ASSUME NEW T, NEW S \in SUBSET T, IsFiniteSet(S), \A c \in S : c.op # "price.set_active"
    PROVE  sortedKeys(S) \in Seq(T) /\ Planned(sortedKeys(S))
<1>1. sortedKeys(S) \in Seq(S)
  BY SortedOf, Zenon
<1> DEFINE q == sortedKeys(S)
<1> HIDE DEF q
<1>2. q \in Seq(S)
  BY <1>1 DEF q
<1>3. q \in Seq(T) /\ \A p \in DOMAIN q : q[p] \in S
  BY <1>2
<1>4. Planned(q)
  BY <1>3, Zenon DEF Planned
<1> QED  BY <1>3, <1>4 DEF q

\* Diff finds finitely many items of each kind.
LEMMA PlanFinite ==
    ASSUME CatalogTyped
    PROVE  /\ IsFiniteSet(CreateProducts(spec)) /\ IsFiniteSet(UnarchiveProducts(spec))
           /\ IsFiniteSet(UpdateProducts(spec)) /\ IsFiniteSet(CreatePrices(spec))
           /\ IsFiniteSet(Replaced(spec)) /\ IsFiniteSet(ArchivePrices(spec))
           /\ IsFiniteSet(ArchiveProducts(spec)) /\ IsFiniteSet(CreateMeters(spec))
           /\ IsFiniteSet(ArchiveMeters(spec))
<1>1. /\ IsFiniteSet(DOMAIN spec.products) /\ IsFiniteSet(spec.meters)
      /\ IsFiniteSet(DOMAIN products) /\ IsFiniteSet(DOMAIN meters)
  BY SpecsAssumption, Zenon DEF CatalogTyped
<1>2. IsFiniteSet(DOMAIN prices)
  <2>1. DOMAIN prices = 1 .. Len(prices) /\ Len(prices) \in Int /\ 1 \in Int
    BY DEF CatalogTyped
  <2> QED  BY <2>1, FS_Interval, Zenon
<1>3. IsFiniteSet(AllLookupKeys(spec))
  BY KeysFinite, Zenon DEF CatalogTyped
<1>5. IsFiniteSet(CreateProducts(spec))
  <2> DEFINE E == DOMAIN spec.products \ DOMAIN products
             f == [p \in E |-> [op |-> "product.create", id |-> p, new |-> spec.products[p]]]
  <2>1. CreateProducts(spec) = {f[x] : x \in DOMAIN f}
    BY DEF CreateProducts
  <2>2. DOMAIN f \in SUBSET DOMAIN spec.products
    OBVIOUS
  <2> HIDE DEF f
  <2> QED  BY <1>1, <2>1, <2>2, ListingFinite
<1>6. IsFiniteSet(UnarchiveProducts(spec))
  <2> DEFINE E == {q \in DOMAIN spec.products \cap DOMAIN products : ~products[q].active}
             f == [p \in E |-> [op |-> "product.set_active", id |-> p, active |-> TRUE]]
  <2>1. UnarchiveProducts(spec) = {f[x] : x \in DOMAIN f}
    BY DEF UnarchiveProducts
  <2>2. DOMAIN f \in SUBSET DOMAIN products
    OBVIOUS
  <2> HIDE DEF f
  <2> QED  BY <1>1, <2>1, <2>2, ListingFinite
<1>7. IsFiniteSet(UpdateProducts(spec))
  <2> DEFINE E == {q \in DOMAIN spec.products \cap DOMAIN products :
                     products[q].active /\ productNeedsUpdate(spec.products[q], products[q])}
             f == [p \in E |-> [op |-> "product.update", id |-> p, new |-> spec.products[p]]]
  <2>1. UpdateProducts(spec) = {f[x] : x \in DOMAIN f}
    BY DEF UpdateProducts
  <2>2. DOMAIN f \in SUBSET DOMAIN products
    OBVIOUS
  <2> HIDE DEF f
  <2> QED  BY <1>1, <2>1, <2>2, ListingFinite
<1>8. IsFiniteSet(CreatePrices(spec))
  <2> DEFINE E == {k \in AllLookupKeys(spec) : Holders(k) = {}}
             f == [k \in E |-> NewPrice(spec, k, FALSE)]
  <2>1. CreatePrices(spec) = {f[x] : x \in DOMAIN f}
    BY DEF CreatePrices
  <2>2. DOMAIN f \in SUBSET AllLookupKeys(spec)
    OBVIOUS
  <2> HIDE DEF f
  <2> QED  BY <1>3, <2>1, <2>2, ListingFinite
<1>9. IsFiniteSet(Replaced(spec))
  <2>1. Replaced(spec) \in SUBSET DOMAIN prices
    BY DEF Replaced
  <2> QED  BY <1>2, <2>1, FS_Subset, Zenon
<1>10. IsFiniteSet(ArchivePrices(spec))
  <2> DEFINE E == {j \in DOMAIN prices : /\ prices[j].product \in Walked(spec)
                                      /\ prices[j].active
                                      /\ prices[j].key \notin AllLookupKeys(spec)}
             f == [i \in E |-> SetPriceInactive(i)]
  <2>1. ArchivePrices(spec) = {f[x] : x \in DOMAIN f}
    BY DEF ArchivePrices
  <2>2. DOMAIN f \in SUBSET DOMAIN prices
    OBVIOUS
  <2> HIDE DEF f
  <2> QED  BY <1>2, <2>1, <2>2, ListingFinite
<1>11. IsFiniteSet(ArchiveProducts(spec))
  <2> DEFINE E == {q \in Walked(spec) \ DOMAIN spec.products : products[q].active}
             f == [p \in E |-> [op |-> "product.set_active", id |-> p, active |-> FALSE]]
  <2>1. ArchiveProducts(spec) = {f[x] : x \in DOMAIN f}
    BY DEF ArchiveProducts
  <2>2. DOMAIN f \in SUBSET DOMAIN products
    BY DEF Walked
  <2> HIDE DEF f
  <2> QED  BY <1>1, <2>1, <2>2, ListingFinite
<1>12. IsFiniteSet(CreateMeters(spec))
  <2> DEFINE E == spec.meters \ DOMAIN meters
             f == [m \in E |-> [op |-> "meter.create", id |-> m]]
  <2>1. CreateMeters(spec) = {f[x] : x \in DOMAIN f}
    BY DEF CreateMeters
  <2>2. DOMAIN f \in SUBSET spec.meters
    OBVIOUS
  <2> HIDE DEF f
  <2> QED  BY <1>1, <2>1, <2>2, ListingFinite
<1>13. IsFiniteSet(ArchiveMeters(spec))
  <2> DEFINE E == {n \in DOMAIN meters \ spec.meters : meters[n]}
             f == [m \in E |-> [op |-> "meter.archive", id |-> m]]
  <2>1. ArchiveMeters(spec) = {f[x] : x \in DOMAIN f}
    BY DEF ArchiveMeters
  <2>2. DOMAIN f \in SUBSET DOMAIN meters
    OBVIOUS
  <2> HIDE DEF f
  <2> QED  BY <1>1, <2>1, <2>2, ListingFinite
<1> QED  BY <1>5, <1>6, <1>7, <1>8, <1>9, <1>10, <1>11, <1>12, <1>13
\* What Diff reads of Stripe and of the spec gives calls of the plan's kinds.
LEMMA PlanTyped ==
    ASSUME CatalogTyped
    PROVE  /\ \A S \in {CreateProducts(spec), UnarchiveProducts(spec), UpdateProducts(spec),
                        CreatePrices(spec), ArchiveProducts(spec), CreateMeters(spec),
                        ArchiveMeters(spec)} :
                S \in SUBSET CallsOf(spec) /\ \A c \in S : c.op # "price.set_active"
           /\ ArchivePrices(spec) \in SUBSET CallsOf(spec)
           /\ \A c \in ArchivePrices(spec) :
                c.id \in DOMAIN prices /\ prices[c.id].key \notin AllLookupKeys(spec)
           /\ \A i \in Replaced(spec) :
                /\ i \in DOMAIN prices
                /\ NewPrice(spec, prices[i].key, TRUE) \in CallsOf(spec)
                /\ SetPriceInactive(i) \in CallsOf(spec)
                /\ priceNeedsReplace(spec, prices[i].key, prices[i])
<1>1. /\ spec \in Specs /\ DOMAIN products \subseteq ProductKeys /\ DOMAIN meters \subseteq MeterKeys
      /\ DOMAIN prices \subseteq Nat
  BY DEF CatalogTyped
<1>2. /\ DOMAIN spec.products \subseteq ProductKeys /\ spec.meters \subseteq MeterKeys
      /\ \A p \in DOMAIN spec.products : spec.products[p] \in ProductSpecs
  <2>1. DOMAIN spec.products \subseteq ProductKeys
    BY <1>1 DEF ProductKeys
  <2>2. spec.meters \subseteq MeterKeys
    BY <1>1 DEF MeterKeys
  <2>3. \A p \in DOMAIN spec.products : spec.products[p] \in ProductSpecs
    BY <1>1 DEF ProductSpecs
  <2> QED  BY <2>1, <2>2, <2>3
<1> DEFINE Quiet(S) == S \in SUBSET CallsOf(spec) /\ \A c \in S : c.op # "price.set_active"
<1>3. Quiet(CreateProducts(spec))
  BY <1>1, <1>2 DEF CreateProducts, CallsOf, QuietCalls
<1>4. Quiet(UnarchiveProducts(spec))
  <2>1. ASSUME NEW c \in UnarchiveProducts(spec)
        PROVE  c \in CallsOf(spec) /\ c.op # "price.set_active"
    <3>1. PICK p \in DOMAIN products : c = [op |-> "product.set_active", id |-> p, active |-> TRUE]
      BY <2>1, Zenon DEF UnarchiveProducts
    <3>2. c.op # "price.set_active"
      BY <3>1
    <3>3. p \in ProductKeys
      BY <1>1
    <3>4. c \in [op: {"product.set_active"}, id: ProductKeys, active: BOOLEAN]
      BY <3>1, <3>3, Zenon
    <3> QED  BY <3>2, <3>4, Zenon DEF CallsOf, QuietCalls
  <2> QED  BY <2>1
<1>5. Quiet(UpdateProducts(spec))
  BY <1>1, <1>2 DEF UpdateProducts, CallsOf, QuietCalls
<1>6. \A key \in AllLookupKeys(spec), t \in BOOLEAN : NewPrice(spec, key, t) \in PriceCreates(spec)
  <2> SUFFICES ASSUME NEW key \in AllLookupKeys(spec), NEW t \in BOOLEAN
               PROVE  NewPrice(spec, key, t) \in PriceCreates(spec)
    OBVIOUS
  <2>1. <<key, t>> \in AllLookupKeys(spec) \X BOOLEAN /\ <<key, t>>[1] = key /\ <<key, t>>[2] = t
    OBVIOUS
  <2> QED  BY <2>1, Zenon DEF PriceCreates
<1>7. Quiet(CreatePrices(spec))
  <2>1. ASSUME NEW c \in CreatePrices(spec) PROVE c \in CallsOf(spec) /\ c.op = "price.create"
    <3>1. PICK key \in AllLookupKeys(spec) : c = NewPrice(spec, key, FALSE)
      BY <2>1 DEF CreatePrices
    <3>2. c.op = "price.create"
      BY <3>1 DEF NewPrice
    <3>3. c \in PriceCreates(spec)
      BY <1>6, <3>1, Zenon
    <3> QED  BY <3>2, <3>3, Zenon DEF CallsOf
  <2> QED  BY <2>1
<1>8. Quiet(ArchiveProducts(spec))
  <2>1. ASSUME NEW c \in ArchiveProducts(spec)
        PROVE  c \in CallsOf(spec) /\ c.op # "price.set_active"
    <3>1. PICK p \in DOMAIN products : c = [op |-> "product.set_active", id |-> p, active |-> FALSE]
      BY <2>1, Zenon DEF ArchiveProducts, Walked
    <3>2. c.op # "price.set_active"
      BY <3>1
    <3>3. p \in ProductKeys
      BY <1>1
    <3>4. c \in [op: {"product.set_active"}, id: ProductKeys, active: BOOLEAN]
      BY <3>1, <3>3, Zenon
    <3> QED  BY <3>2, <3>4, Zenon DEF CallsOf, QuietCalls
  <2> QED  BY <2>1
<1>9. Quiet(CreateMeters(spec))
  BY <1>1, <1>2 DEF CreateMeters, CallsOf, QuietCalls
<1>10. Quiet(ArchiveMeters(spec))
  BY <1>1, <1>2 DEF ArchiveMeters, CallsOf, QuietCalls
<1>11. \A i \in DOMAIN prices : SetPriceInactive(i) \in CallsOf(spec)
  BY <1>1, Zenon DEF CallsOf, PriceArchives
<1>12. /\ ArchivePrices(spec) \in SUBSET CallsOf(spec)
       /\ \A c \in ArchivePrices(spec) :
            c.id \in DOMAIN prices /\ prices[c.id].key \notin AllLookupKeys(spec)
  <2>1. \A i : SetPriceInactive(i).id = i
    BY DEF SetPriceInactive
  <2> QED  BY <1>11, <2>1, Zenon DEF ArchivePrices
<1>13. \A i \in Replaced(spec) :
         /\ i \in DOMAIN prices
         /\ NewPrice(spec, prices[i].key, TRUE) \in CallsOf(spec)
         /\ SetPriceInactive(i) \in CallsOf(spec)
         /\ priceNeedsReplace(spec, prices[i].key, prices[i])
  BY <1>6, <1>11, Zenon DEF Replaced, CallsOf
<1> HIDE DEF Quiet
<1>14. \A S \in {CreateProducts(spec), UnarchiveProducts(spec), UpdateProducts(spec),
                 CreatePrices(spec), ArchiveProducts(spec), CreateMeters(spec),
                 ArchiveMeters(spec)} : Quiet(S)
  BY <1>3, <1>4, <1>5, <1>7, <1>8, <1>9, <1>10, Zenon
<1> QED  BY <1>12, <1>13, <1>14, Zenon DEF Quiet

\* The two calls of each replaced price, one after the other.
LEMMA PlannedReplace ==
    ASSUME CatalogTyped
    PROVE  ReplacePrices(spec) \in Seq(CallsOf(spec)) /\ Planned(ReplacePrices(spec))
<1> DEFINE ids == sortedKeys(Replaced(spec))
           T == CallsOf(spec)
           q == ReplacePrices(spec)
           new(i) == NewPrice(spec, prices[i].key, TRUE)
<1>1. ids \in Seq(Replaced(spec))
  BY PlanFinite, SortedOf, Zenon
<1> HIDE DEF ids
<1>2. /\ Len(ids) \in Nat
      /\ \A k \in 1 .. Len(ids) : ids[k] \in Replaced(spec)
  BY <1>1
<1>3. q = [n \in 1 .. 2 * Len(ids) |->
              Replace(spec, prices[ids[(n + 1) \div 2]].key, ids[(n + 1) \div 2])
                 [IF n = 2 * ((n + 1) \div 2) THEN 2 ELSE 1]]
  BY Zenon DEF ReplacePrices, ids
<1> HIDE DEF q
<1>4. ASSUME NEW n \in 1 .. 2 * Len(ids)
      PROVE  LET k == (n + 1) \div 2
             IN  /\ k \in 1 .. Len(ids)
                 /\ n = 2 * k => /\ n - 1 \in 1 .. 2 * Len(ids) /\ (n - 1 + 1) \div 2 = k
                                 /\ n - 1 # 2 * k
  BY <1>2
<1>5. \A i : /\ Replace(spec, prices[i].key, i)[1] = new(i)
             /\ Replace(spec, prices[i].key, i)[2] = SetPriceInactive(i)
  BY DEF Replace
<1>6. \A i \in Replaced(spec) :
        /\ i \in DOMAIN prices /\ new(i) \in T /\ SetPriceInactive(i) \in T
        /\ priceNeedsReplace(spec, prices[i].key, prices[i])
  BY PlanTyped, Zenon
<1>7. \A i : /\ new(i).op # "price.set_active"
             /\ SetPriceInactive(i).id = i
  BY DEF NewPrice, SetPriceInactive
<1> HIDE DEF new, T
<1>8. ASSUME NEW n \in 1 .. 2 * Len(ids)
      PROVE  LET i == ids[(n + 1) \div 2]
             IN  /\ i \in Replaced(spec)
                 /\ \/ q[n] = new(i)
                    \/ /\ q[n] = SetPriceInactive(i)
                       /\ n - 1 \in 1 .. 2 * Len(ids) /\ q[n - 1] = new(i)
  <2> DEFINE k == (n + 1) \div 2
             i == ids[k]
  <2>2. q[n] = Replace(spec, prices[i].key, i)[IF n = 2 * k THEN 2 ELSE 1]
    BY <1>3, Zenon
  <2>3. k \in 1 .. Len(ids)
    BY <1>4
  <2>4. i \in Replaced(spec)
    BY <1>2, <2>3, Zenon
  <2>5. CASE n = 2 * k
    <3>1. /\ n - 1 \in 1 .. 2 * Len(ids) /\ (n - 1 + 1) \div 2 = k /\ n - 1 # 2 * k
      BY <1>4, <2>5
    <3>2. q[n - 1] = Replace(spec, prices[i].key, i)[1]
      <4> HIDE DEF k
      <4> QED  BY <1>3, <3>1, Zenon
    <3>3. q[n] = Replace(spec, prices[i].key, i)[2]
      BY <2>2, <2>5, Zenon
    <3> QED  BY <1>5, <2>4, <3>1, <3>2, <3>3, Zenon
  <2>6. CASE n # 2 * k
    <3>1. q[n] = Replace(spec, prices[i].key, i)[1]
      BY <2>2, <2>6, Zenon
    <3> QED  BY <1>5, <2>4, <3>1, Zenon
  <2> QED  BY <2>5, <2>6, Zenon
<1>9. DOMAIN q = 1 .. 2 * Len(ids) /\ q = [n \in 1 .. 2 * Len(ids) |-> q[n]]
  BY <1>3, Zenon
<1>10. \A n \in 1 .. 2 * Len(ids) : q[n] \in T
  BY <1>6, <1>8, Zenon
<1>11. q \in Seq(T)
  <2>1. 2 * Len(ids) \in Nat
    BY <1>2
  <2> QED  BY <1>9, <1>10, <2>1
<1>12. Planned(q)
  <2> SUFFICES ASSUME NEW n \in DOMAIN q, q[n].op = "price.set_active"
               PROVE  /\ q[n].id \in DOMAIN prices
                      /\ n - 1 \in DOMAIN q /\ q[n - 1] = NewPrice(spec, prices[q[n].id].key, TRUE)
                      /\ priceNeedsReplace(spec, prices[q[n].id].key, prices[q[n].id])
    BY Zenon DEF Planned
  <2> DEFINE i == ids[(n + 1) \div 2]
  <2>1. n \in 1 .. 2 * Len(ids)
    BY <1>9
  <2>2. /\ i \in Replaced(spec)
        /\ \/ q[n] = new(i)
           \/ /\ q[n] = SetPriceInactive(i)
              /\ n - 1 \in 1 .. 2 * Len(ids) /\ q[n - 1] = new(i)
    BY <1>8, <2>1, Zenon
  <2> HIDE DEF i
  <2>3. /\ q[n] = SetPriceInactive(i) /\ q[n].id = i
        /\ n - 1 \in 1 .. 2 * Len(ids) /\ q[n - 1] = new(i)
    BY <1>7, <2>2, Zenon
  <2> QED  BY <1>6, <1>9, <2>2, <2>3, Zenon DEF new
<1> QED  BY <1>11, <1>12 DEF q, T

\* The whole plan, in Apply's order.
LEMMA ApplyPlanned ==
    ASSUME CatalogTyped
    PROVE  Apply(spec) \in Seq(CallsOf(spec)) /\ Planned(Apply(spec))
<1> DEFINE T == CallsOf(spec)
           Good(q) == q \in Seq(T) /\ Planned(q)
<1>1. \A u, v : Good(u) /\ Good(v) => Good(u \o v)
  <2> HIDE DEF T
  <2> QED  BY PlannedConcat, Zenon
<1>2. \A S \in {CreateProducts(spec), UnarchiveProducts(spec), UpdateProducts(spec),
                CreatePrices(spec), ArchiveProducts(spec), CreateMeters(spec),
                ArchiveMeters(spec)} : Good(sortedKeys(S))
  <2> SUFFICES ASSUME NEW S \in {CreateProducts(spec), UnarchiveProducts(spec), UpdateProducts(spec),
                                 CreatePrices(spec), ArchiveProducts(spec), CreateMeters(spec),
                                 ArchiveMeters(spec)}
               PROVE  Good(sortedKeys(S))
    BY Zenon
  <2>1. S \in SUBSET CallsOf(spec) /\ \A c \in S : c.op # "price.set_active"
    BY PlanTyped, Zenon
  <2>2. IsFiniteSet(S)
    BY PlanFinite, Zenon
  <2> QED  BY <2>1, <2>2, PlannedQuiet, Zenon
<1>3. Good(ReplacePrices(spec))
  BY PlannedReplace, Zenon
<1>4. Good(sortedKeys(ArchivePrices(spec)))
  <2> DEFINE q == sortedKeys(ArchivePrices(spec))
  <2>1. q \in Seq(ArchivePrices(spec))
    BY PlanFinite, SortedOf, Zenon
  <2>2. ArchivePrices(spec) \in SUBSET T
    BY PlanTyped, Zenon
  <2> HIDE DEF q, T
  <2>3. q \in Seq(T) /\ \A p \in DOMAIN q : q[p] \in ArchivePrices(spec)
    BY <2>1, <2>2
  <2>4. Planned(q)
    BY <2>3, PlanTyped, Zenon DEF Planned
  <2> QED  BY <2>3, <2>4 DEF q
<1> HIDE DEF Good
<1>5. Good(Apply(spec))
  BY <1>1, <1>2, <1>3, <1>4 DEF Apply
<1> QED  BY <1>5, Zenon DEF Good
-----------------------------------------------------------------------------
\* The kinds of calls are told apart by their operation.
LEMMA CallKinds ==
    ASSUME NEW s, NEW c \in CallsOf(s)
    PROVE  /\ c.op \in {"product.create", "product.update", "product.set_active",
                        "meter.create", "meter.archive", "price.create", "price.set_active"}
           /\ c.op \in {"product.create", "product.update", "product.set_active"} => c.id \in ProductKeys
           /\ c.op \in {"meter.create", "meter.archive"} => c.id \in MeterKeys
           /\ c.op = "price.create" =>
                /\ c.key \in AllLookupKeys(s) /\ c.amount = Amount(s, c.key)
                /\ c.transfer \in BOOLEAN
           /\ c.op = "price.set_active" => c.id \in Nat
<1>1. CASE c \in QuietCalls
  BY <1>1 DEF QuietCalls
<1>2. CASE c \in PriceCreates(s)
  <2>1. PICK d \in AllLookupKeys(s) \X BOOLEAN : c = NewPrice(s, d[1], d[2])
    BY <1>2, Zenon DEF PriceCreates
  <2>2. d[1] \in AllLookupKeys(s) /\ d[2] \in BOOLEAN
    BY <2>1
  <2>3. c.op = "price.create" /\ c.key = d[1] /\ c.amount = Amount(s, d[1]) /\ c.transfer = d[2]
    BY <2>1 DEF NewPrice
  <2>4. /\ "price.create" \notin {"product.create", "product.update", "product.set_active",
                                  "meter.create", "meter.archive"}
        /\ "price.create" # "price.set_active"
    OBVIOUS
  <2> QED  BY <2>2, <2>3, <2>4, Zenon
<1>3. CASE c \in PriceArchives
  BY <1>3 DEF PriceArchives, SetPriceInactive
<1> QED  BY <1>1, <1>2, <1>3, Zenon DEF CallsOf

\* The derived idempotency key starts with the operation; a price's goes on with its
\* lookup key.
LEMMA IdemFacts ==
    ASSUME NEW s, NEW c \in CallsOf(s)
    PROVE  IdemKey(c)[1] = c.op /\ (c.op = "price.create" => IdemKey(c)[2] = c.key)
<1> DEFINE inputs ==
        CASE c.op = "product.create"     -> <<c.id, c.new.name>>
          [] c.op = "product.update"     -> <<c.id, c.new.name, c.new.desc>>
          [] c.op = "product.set_active" -> <<c.id, c.active>>
          [] c.op = "price.create"       -> <<c.key, c.amount, c.transfer>>
          [] OTHER                       -> <<c.id>>
<1>1. IdemKey(c) = <<c.op>> \o inputs
  BY Zenon DEF IdemKey, ApplyIdempotencyKey, deriveKey
<1>3. CASE c.op = "price.create"
  <2>1. inputs = <<c.key, c.amount, c.transfer>>
    BY <1>3
  <2>2. LET k == <<c.op>> \o <<c.key, c.amount, c.transfer>> IN k[1] = c.op /\ k[2] = c.key
    OBVIOUS
  <2> HIDE DEF inputs
  <2> QED  BY <1>1, <2>1, <2>2, Zenon
<1>4. CASE c.op # "price.create"
  <2>1. \/ inputs = <<c.id, c.new.name>> \/ inputs = <<c.id, c.new.name, c.new.desc>>
        \/ inputs = <<c.id, c.active>> \/ inputs = <<c.id>>
    BY <1>4
  <2>2. /\ (<<c.op>> \o <<c.id, c.new.name>>)[1] = c.op
        /\ (<<c.op>> \o <<c.id, c.new.name, c.new.desc>>)[1] = c.op
        /\ (<<c.op>> \o <<c.id, c.active>>)[1] = c.op
        /\ (<<c.op>> \o <<c.id>>)[1] = c.op
    OBVIOUS
  <2> HIDE DEF inputs
  <2> QED  BY <1>1, <1>4, <2>1, <2>2, Zenon
<1> QED  BY <1>3, <1>4, Zenon

\* Two calls share a derived key with a price's creation only when they create a price
\* of the same lookup key.
LEMMA SameCreate ==
    ASSUME NEW c \in CallsOf(spec), NEW key \in AllLookupKeys(spec), NEW t \in BOOLEAN,
           IdemKey(c) = IdemKey(NewPrice(spec, key, t))
    PROVE  c.op = "price.create" /\ c.key = key
<1> DEFINE d == NewPrice(spec, key, t)
<1>1. d \in CallsOf(spec)
  <2>1. <<key, t>> \in AllLookupKeys(spec) \X BOOLEAN /\ <<key, t>>[1] = key /\ <<key, t>>[2] = t
    OBVIOUS
  <2> QED  BY <2>1, Zenon DEF PriceCreates, CallsOf
<1>2. d.op = "price.create" /\ d.key = key
  BY DEF NewPrice
<1>3. IdemKey(c) = IdemKey(d)
  OBVIOUS
<1> HIDE DEF d
<1>4. IdemKey(d)[1] = d.op /\ (d.op = "price.create" => IdemKey(d)[2] = d.key)
  BY <1>1, IdemFacts, Zenon
<1>5. IdemKey(c)[1] = c.op /\ (c.op = "price.create" => IdemKey(c)[2] = c.key)
  BY IdemFacts, Zenon
<1> QED  BY <1>2, <1>3, <1>4, <1>5, Zenon

-----------------------------------------------------------------------------
\* The call created its price and took the lookup key from every other.
Transfers(c) ==
    /\ \E j : /\ j \notin DOMAIN prices /\ DOMAIN prices' = DOMAIN prices \cup {j}
              /\ prices'[j].key = c.key /\ prices'[j].amount = c.amount /\ prices'[j].active
    /\ \A i \in DOMAIN prices :
         prices'[i].key = IF prices[i].key = c.key THEN NoKey ELSE prices[i].key

\* What a call may do to Stripe's prices.
Moves(c) ==
    /\ used \subseteq used' /\ used' \subseteq used \cup {IdemKey(c)}
    /\ \A i \in DOMAIN prices :
         /\ i \in DOMAIN prices' /\ prices'[i].amount = prices[i].amount
         /\ prices'[i].active => prices[i].active
         /\ prices[i].active => prices'[i].active \/ Archives(c, i)
    /\ \/ /\ DOMAIN prices' = DOMAIN prices
          /\ \A i \in DOMAIN prices : prices'[i].key = prices[i].key
          /\ c.op = "price.create" => used' = used
       \/ c.op = "price.create" /\ IdemKey(c) \notin used /\ Transfers(c)

\* The part of the type invariant about Stripe.
StripeTyped ==
    /\ IsFiniteSet(DOMAIN products) /\ DOMAIN products \subseteq ProductKeys
    /\ IsFiniteSet(DOMAIN meters) /\ DOMAIN meters \subseteq MeterKeys
    /\ prices \in Seq([key: PriceKeys, product: ProductKeys, amount: Amounts, active: BOOLEAN])

\* A price keeps its product, and a new one is of the product of the call.
Stocks(c) ==
    \A i \in DOMAIN prices' :
        \/ i \in DOMAIN prices /\ prices'[i].product = prices[i].product
        \/ c.op = "price.create" /\ IdemKey(c) \notin used /\ prices'[i].product = c.key[1]

\* Stripe adds one object at a time.
LEMMA PutFinite ==
    ASSUME NEW f, NEW K, IsFiniteSet(DOMAIN f), DOMAIN f \subseteq K, NEW x \in K, NEW v
    PROVE  IsFiniteSet(DOMAIN Put(f, x, v)) /\ DOMAIN Put(f, x, v) \subseteq K
<1>1. DOMAIN Put(f, x, v) = DOMAIN f \cup {x}
  BY Zenon DEF Put
<1>2. IsFiniteSet(DOMAIN f \cup {x})
  BY FS_AddElement, Zenon
<1> QED  BY <1>1, <1>2, Zenon

\* Stripe creates a price: the others keep their places, and the key moves to it.
LEMMA CreateMoves ==
    ASSUME StripeTyped, spec \in Specs, NEW c \in CallsOf(spec), c.op = "price.create",
           IdemKey(c) \notin used, prices' = PricesAfter(c)
    PROVE  /\ prices' \in Seq([key: PriceKeys, product: ProductKeys, amount: Amounts, active: BOOLEAN])
           /\ Transfers(c)
           /\ \A i \in DOMAIN prices :
                /\ i \in DOMAIN prices' /\ prices'[i].amount = prices[i].amount
                /\ prices'[i].active = prices[i].active
           /\ Stocks(c)
<1> DEFINE P == [key: PriceKeys, product: ProductKeys, amount: Amounts, active: BOOLEAN]
           new == [key |-> c.key, product |-> c.key[1], amount |-> c.amount, active |-> TRUE]
           old == [i \in DOMAIN prices |->
                     IF prices[i].key = c.key THEN [prices[i] EXCEPT !.key = NoKey] ELSE prices[i]]
<1>1. prices \in Seq(P)
  BY DEF StripeTyped
<1>2. NoKey \in PriceKeys /\ c.key \in PriceKeys /\ c.amount \in Amounts /\ c.key[1] \in ProductKeys
  <2>1. c.key \in AllLookupKeys(spec) /\ c.amount = Amount(spec, c.key)
    BY CallKinds, Zenon
  <2>2. NoKey \in PriceKeys
    BY DEF PriceKeys
  <2>3. AllLookupKeys(spec) \subseteq PriceKeys
    BY DEF PriceKeys
  <2>4. {Amount(spec, key) : key \in AllLookupKeys(spec)}
          \in {{Amount(s, key) : key \in AllLookupKeys(s)} : s \in Specs}
    BY Zenon
  <2>5. c.amount \in {Amount(spec, key) : key \in AllLookupKeys(spec)}
    BY <2>1, Zenon
  <2>6. c.amount \in Amounts
    BY <2>4, <2>5, Zenon DEF Amounts
  <2>7. c.key[1] \in ProductKeys
    <3>1. c.key[1] \in DOMAIN spec.products
      BY <2>1 DEF AllLookupKeys
    <3> QED  BY <3>1, Zenon DEF ProductKeys
  <2> QED  BY <2>1, <2>2, <2>3, <2>6, <2>7, Zenon
<1>3. new \in P
  BY <1>2, Zenon
<1>4. ASSUME NEW i \in DOMAIN prices
      PROVE  /\ prices[i] \in P /\ old[i] \in P
             /\ old[i].amount = prices[i].amount /\ old[i].active = prices[i].active
             /\ old[i].product = prices[i].product
             /\ old[i].key = IF prices[i].key = c.key THEN NoKey ELSE prices[i].key
  <2> HIDE DEF P
  <2>1. prices[i] \in P
    BY <1>1
  <2>2. CASE prices[i].key = c.key
    <3> DEFINE e == prices[i]
    <3> HIDE DEF e
    <3>1. e \in P
      BY <2>1 DEF e
    <3>2. /\ [e EXCEPT !.key = NoKey] \in P /\ [e EXCEPT !.key = NoKey].key = NoKey
          /\ [e EXCEPT !.key = NoKey].amount = e.amount /\ [e EXCEPT !.key = NoKey].active = e.active
          /\ [e EXCEPT !.key = NoKey].product = e.product
      BY <1>2, <3>1, Zenon DEF P
    <3>3. old[i] = [e EXCEPT !.key = NoKey]
      BY <2>2, Zenon DEF e
    <3> HIDE DEF old
    <3> QED  BY <2>1, <2>2, <3>2, <3>3, Zenon DEF e
  <2>3. CASE prices[i].key # c.key
    <3>1. old[i] = prices[i]
      BY <2>3, Zenon
    <3> HIDE DEF old
    <3> QED  BY <2>1, <2>3, <3>1, Zenon
  <2> QED  BY <2>2, <2>3, Zenon
<1>5. prices' = Append(old, new)
  BY Zenon DEF PricesAfter
<1>6. DOMAIN old = DOMAIN prices
  BY Zenon
<1>7. old \in Seq(P) /\ Len(old) = Len(prices)
  <2>1. DOMAIN prices = 1 .. Len(prices) /\ Len(prices) \in Nat
    BY <1>1
  <2>2. old = [i \in 1 .. Len(prices) |-> old[i]]
    BY <2>1, Zenon
  <2> HIDE DEF old, P
  <2>3. \A i \in 1 .. Len(prices) : old[i] \in P
    BY <1>4, <2>1, Zenon
  <2> QED  BY <2>1, <2>2, <2>3
<1>8. /\ prices' \in Seq(P) /\ DOMAIN prices' = (DOMAIN prices) \cup {Len(prices) + 1}
      /\ Len(prices) + 1 \notin DOMAIN prices
      /\ prices'[Len(prices) + 1] = new /\ \A i \in DOMAIN prices : prices'[i] = old[i]
  <2> HIDE DEF old, new, P
  <2>1. new \in P /\ old \in Seq(P) /\ DOMAIN prices = 1 .. Len(prices) /\ Len(prices) \in Nat
    BY <1>1, <1>3, <1>7
  <2> QED  BY <1>5, <1>7, <2>1
<1>9. new.key = c.key /\ new.amount = c.amount /\ new.active /\ new.product = c.key[1]
  BY Zenon
<1> HIDE DEF old, new, P
<1>10. Transfers(c)
  BY <1>4, <1>8, <1>9, Zenon DEF Transfers
<1>11. Stocks(c)
  BY <1>4, <1>8, <1>9, Zenon DEF Stocks
<1> QED  BY <1>4, <1>8, <1>10, <1>11, Zenon DEF P

\* Stripe archives a price: only its flag changes.
LEMMA ArchiveMoves ==
    ASSUME StripeTyped, NEW i \in DOMAIN prices, prices' = [prices EXCEPT ![i].active = FALSE]
    PROVE  /\ prices' \in Seq([key: PriceKeys, product: ProductKeys, amount: Amounts, active: BOOLEAN])
           /\ DOMAIN prices' = DOMAIN prices
           /\ \A j \in DOMAIN prices :
                /\ prices'[j].key = prices[j].key /\ prices'[j].amount = prices[j].amount
                /\ prices'[j].product = prices[j].product
                /\ prices'[j].active = IF j = i THEN FALSE ELSE prices[j].active
<1> DEFINE P == [key: PriceKeys, product: ProductKeys, amount: Amounts, active: BOOLEAN]
<1>1. prices \in Seq(P)
  BY DEF StripeTyped
<1>2. \A j \in DOMAIN prices : prices[j] \in P
  <2> HIDE DEF P
  <2> QED  BY <1>1
<1> DEFINE e == [prices[i] EXCEPT !.active = FALSE]
<1>3. /\ e \in P /\ e.key = prices[i].key /\ e.amount = prices[i].amount /\ e.active = FALSE
      /\ e.product = prices[i].product
  BY <1>2, Zenon
<1>4. prices' = [prices EXCEPT ![i] = e]
  BY Zenon
<1> HIDE DEF e
<1>5. prices' \in Seq(P) /\ DOMAIN prices' = DOMAIN prices
  <2> HIDE DEF P
  <2>1. Len(prices) \in Nat /\ prices \in [1 .. Len(prices) -> P]
    BY <1>1
  <2>2. prices' \in [1 .. Len(prices) -> P]
    BY <1>3, <1>4, <2>1, Zenon
  <2>3. prices' \in Seq(P)
    BY <2>1, <2>2
  <2> QED  BY <1>4, <2>3, Zenon
<1>6. \A j \in DOMAIN prices : prices'[j] = IF j = i THEN e ELSE prices[j]
  BY <1>4, Zenon
<1> QED  BY <1>3, <1>5, <1>6, Zenon
\* Stripe handles a call of a plan.
LEMMA HandleMoves ==
    ASSUME StripeTyped, spec \in Specs, NEW c \in CallsOf(spec), Handle(c),
           c.op = "price.set_active" => c.id \in DOMAIN prices
    PROVE  /\ StripeTyped' /\ Moves(c) /\ Stocks(c)
           /\ c.op = "price.create" /\ IdemKey(c) \notin used => Transfers(c)
           /\ c.op = "price.set_active" /\ IdemKey(c) \notin used => ~prices'[c.id].active
           /\ IdemKey(c) \in used'
<1>1. CASE IdemKey(c) \in used
  <2>1. UNCHANGED <<products, prices, meters, used>>
    BY <1>1, Zenon DEF Handle, Replays, stripeVars
  <2> QED  BY <1>1, <2>1, Zenon DEF StripeTyped, Moves, Stocks
<1>2. CASE IdemKey(c) \notin used
  <2> DEFINE P == [key: PriceKeys, product: ProductKeys, amount: Amounts, active: BOOLEAN]
             PO == {"product.create", "product.update", "product.set_active"}
             MO == {"meter.create", "meter.archive"}
             RO == {"price.create", "price.set_active"}
  <2>1. /\ used' = used \cup {IdemKey(c)}
        /\ products' = IF c.op \in PO THEN Put(products, c.id, ProductAfter(c)) ELSE products
        /\ prices' = IF c.op \in RO THEN PricesAfter(c) ELSE prices
        /\ meters' = IF c.op \in MO THEN Put(meters, c.id, c.op = "meter.create") ELSE meters
    BY <1>2, Zenon DEF Handle, Replays
  <2>2. (c.op \in PO => c.id \in ProductKeys) /\ (c.op \in MO => c.id \in MeterKeys)
    BY CallKinds, Zenon
  <2> HIDE DEF PO, MO
  <2>3. IsFiniteSet(DOMAIN products') /\ DOMAIN products' \subseteq ProductKeys
    <3>1. IsFiniteSet(DOMAIN products) /\ DOMAIN products \subseteq ProductKeys
      BY DEF StripeTyped
    <3>2. CASE c.op \in PO
      <4>1. products' = Put(products, c.id, ProductAfter(c)) /\ c.id \in ProductKeys
        BY <2>1, <2>2, <3>2, Zenon
      <4> QED  BY <3>1, <4>1, PutFinite, Zenon
    <3>3. CASE c.op \notin PO
      BY <2>1, <3>1, <3>3, Zenon
    <3> QED  BY <3>2, <3>3, Zenon
  <2>4. IsFiniteSet(DOMAIN meters') /\ DOMAIN meters' \subseteq MeterKeys
    <3>1. IsFiniteSet(DOMAIN meters) /\ DOMAIN meters \subseteq MeterKeys
      BY DEF StripeTyped
    <3>2. CASE c.op \in MO
      <4>1. meters' = Put(meters, c.id, c.op = "meter.create") /\ c.id \in MeterKeys
        BY <2>1, <2>2, <3>2, Zenon
      <4> QED  BY <3>1, <4>1, PutFinite, Zenon
    <3>3. CASE c.op \notin MO
      BY <2>1, <3>1, <3>3, Zenon
    <3> QED  BY <3>2, <3>3, Zenon
  <2>5. CASE c.op = "price.create"
    <3>1. prices' = PricesAfter(c)
      BY <2>1, <2>5, Zenon
    <3>2. /\ prices' \in Seq(P) /\ Transfers(c) /\ Stocks(c)
          /\ \A i \in DOMAIN prices :
               /\ i \in DOMAIN prices' /\ prices'[i].amount = prices[i].amount
               /\ prices'[i].active = prices[i].active
      BY <1>2, <2>5, <3>1, CreateMoves, Zenon
    <3>3. Moves(c)
      BY <1>2, <2>1, <2>5, <3>2, Zenon DEF Moves
    <3>4. c.op # "price.set_active"
      BY <2>5
    <3> QED  BY <2>1, <2>3, <2>4, <3>2, <3>3, <3>4, Zenon DEF StripeTyped
  <2>6. CASE c.op = "price.set_active"
    <3>1. c.op # "price.create"
      BY <2>6
    <3>2. prices' = [prices EXCEPT ![c.id].active = FALSE] /\ c.id \in DOMAIN prices
      BY <2>1, <2>6, <3>1, Zenon DEF PricesAfter
    <3>3. /\ prices' \in Seq(P) /\ DOMAIN prices' = DOMAIN prices
          /\ \A j \in DOMAIN prices :
               /\ prices'[j].key = prices[j].key /\ prices'[j].amount = prices[j].amount
               /\ prices'[j].product = prices[j].product
               /\ prices'[j].active = IF j = c.id THEN FALSE ELSE prices[j].active
      BY <3>2, ArchiveMoves, Zenon
    <3>4. Moves(c)
      BY <2>1, <2>6, <3>1, <3>3, Zenon DEF Moves, Archives
    <3>5. Stocks(c)
      BY <3>3, Zenon DEF Stocks
    <3> QED  BY <2>1, <2>3, <2>4, <3>1, <3>2, <3>3, <3>4, <3>5, Zenon DEF StripeTyped
  <2>7. CASE c.op \notin RO
    <3>1. prices' = prices /\ c.op # "price.create" /\ c.op # "price.set_active"
      BY <2>1, <2>7, Zenon
    <3>2. Moves(c)
      BY <2>1, <3>1, Zenon DEF Moves
    <3>3. Stocks(c)
      BY <3>1, Zenon DEF Stocks
    <3> QED  BY <2>1, <2>3, <2>4, <3>1, <3>2, <3>3, Zenon DEF StripeTyped
  <2> QED  BY <2>5, <2>6, <2>7, Zenon
<1> QED  BY <1>1, <1>2, Zenon

\* The syncer's next call is of its plan, and archives a price that exists.
LEMMA NextCall ==
    ASSUME CatalogInv, NEW s \in Syncers, sync[s].calls # <<>>
    PROVE  LET q == sync[s].calls  c == Head(q)
           IN  /\ q \in Seq(CallsOf(spec)) /\ c \in CallsOf(spec) /\ 1 \in DOMAIN q /\ c = q[1]
               /\ c.op = "price.set_active" =>
                    /\ c.id \in DOMAIN prices
                    /\ \A key \in AllLookupKeys(spec) : prices[c.id].key = key => Sellable(key)
<1> DEFINE q == sync[s].calls
           T == CallsOf(spec)
<1>1. q \in Seq(T)
  BY Zenon DEF CatalogInv, CatalogTyped
<1> HIDE DEF q, T
<1>2. q # <<>>
  BY DEF q
<1>3. Head(q) \in T /\ 1 \in DOMAIN q /\ Head(q) = q[1] /\ 1 - 1 \notin DOMAIN q
  BY <1>1, <1>2
<1>4. ArchivesSafely(s)
  BY DEF CatalogInv
<1>5. q[1].op = "price.set_active" =>
         /\ q[1].id \in DOMAIN prices
         /\ \A key \in AllLookupKeys(spec) : prices[q[1].id].key = key => Sellable(key)
  BY <1>3, <1>4, Zenon DEF ArchivesSafely, q
<1> QED  BY <1>1, <1>3, <1>5, Zenon DEF q, T

\* A step of a running plan leaves only calls that were pending.
Pending(c) == \E s \in Syncers : \E p \in DOMAIN sync[s].calls : sync[s].calls[p] = c
NoNewCalls == \A s \in Syncers : \A p \in DOMAIN sync'[s].calls : Pending(sync'[s].calls[p])

\* The key of a price just created is on sale: no plan knows of the new price.
LEMMA CreatedSellable ==
    ASSUME CatalogInv, NoNewCalls, spec' = spec, NEW c \in CallsOf(spec),
           c.op = "price.create", Transfers(c), NEW key, c.key = key
    PROVE  Sellable(key)'
<1>1. PICK j : /\ j \notin DOMAIN prices /\ j \in DOMAIN prices'
               /\ prices'[j].key = key /\ prices'[j].amount = c.amount /\ prices'[j].active
  BY Zenon DEF Transfers
<1>2. c.amount = Amount(spec', key)
  BY CallKinds, Zenon
<1>3. ASSUME NEW s \in Syncers, NEW p \in DOMAIN sync'[s].calls, Archives(sync'[s].calls[p], j)
      PROVE  FALSE
  <2> DEFINE d == sync'[s].calls[p]
  <2>1. Pending(d)
    BY Zenon DEF NoNewCalls
  <2> HIDE DEF d
  <2>2. Archives(d, j)
    BY <1>3 DEF d
  <2>3. PICK r \in Syncers : \E m \in DOMAIN sync[r].calls : sync[r].calls[m] = d
    BY <2>1, Zenon DEF Pending
  <2>4. d.id \in DOMAIN prices
    BY <2>2, <2>3, Zenon DEF CatalogInv, ArchivesSafely, Archives
  <2> QED  BY <1>1, <2>2, <2>4, Zenon DEF Archives
<1> QED  BY <1>1, <1>2, <1>3, Zenon DEF Sellable

\* A key on sale stays so through any call of a plan.
LEMMA SellableKept ==
    ASSUME CatalogInv, NoNewCalls, spec' = spec, NEW c \in CallsOf(spec), Pending(c), Moves(c),
           NEW key, Sellable(key)
    PROVE  Sellable(key)'
<1>1. PICK j \in DOMAIN prices :
        /\ prices[j].key = key /\ prices[j].active /\ prices[j].amount = Amount(spec, key)
        /\ \A s \in Syncers : \A p \in DOMAIN sync[s].calls : ~Archives(sync[s].calls[p], j)
  BY Zenon DEF Sellable
<1>2. ~Archives(c, j)
  BY <1>1, Zenon DEF Pending
<1>3. j \in DOMAIN prices' /\ prices'[j].active /\ prices'[j].amount = Amount(spec', key)
  BY <1>1, <1>2, Zenon DEF Moves
<1>4. \A s \in Syncers : \A p \in DOMAIN sync'[s].calls : ~Archives(sync'[s].calls[p], j)
  <2> SUFFICES ASSUME NEW s \in Syncers, NEW p \in DOMAIN sync'[s].calls
               PROVE  ~Archives(sync'[s].calls[p], j)
    BY Zenon
  <2> DEFINE d == sync'[s].calls[p]
  <2>2. Pending(d)
    BY Zenon DEF NoNewCalls
  <2> HIDE DEF d
  <2>3. ~Archives(d, j)
    BY <1>1, <2>2, Zenon DEF Pending
  <2> QED  BY <2>3, Zenon DEF d
<1>5. CASE prices'[j].key = key
  BY <1>3, <1>4, <1>5, Zenon DEF Sellable
<1>6. CASE prices'[j].key # key
  <2>1. c.op = "price.create" /\ Transfers(c) /\ c.key = key
    BY <1>1, <1>6, Zenon DEF Moves, Transfers
  <2> QED  BY <2>1, CreatedSellable, Zenon
<1> QED  BY <1>5, <1>6, Zenon
\* A key that could be bought before a call of a plan can be bought after it.
LEMMA WarmKept ==
    ASSUME CatalogInv, NEW s \in Syncers, sync[s].calls # <<>>, Moves(Head(sync[s].calls)),
           NEW key \in AllLookupKeys(spec), Warm(key)
    PROVE  Warm(key)'
<1> DEFINE q == sync[s].calls
           c == Head(q)
<1>1. /\ c \in CallsOf(spec) /\ 1 \in DOMAIN q /\ c = q[1]
      /\ c.op = "price.set_active" =>
           /\ c.id \in DOMAIN prices
           /\ prices[c.id].key = key => Sellable(key)
  BY NextCall, Zenon
<1>2. PICK i \in DOMAIN prices : prices[i].key = key /\ prices[i].active
  BY Zenon DEF Warm, Holders
<1>3. ASSUME NEW j \in DOMAIN prices, prices[j].key = key, prices[j].active, ~Archives(c, j)
      PROVE  Warm(key)'
  <2>1. j \in DOMAIN prices' /\ prices'[j].active
    BY <1>3, Zenon DEF Moves
  <2>2. CASE prices'[j].key = key
    BY <2>1, <2>2, Zenon DEF Warm, Holders
  <2>3. CASE prices'[j].key # key
    <3>1. Transfers(c) /\ c.key = key
      BY <1>3, <2>3, Zenon DEF Moves, Transfers
    <3> QED  BY <3>1, Zenon DEF Transfers, Warm, Holders
  <2> QED  BY <2>2, <2>3, Zenon
<1>4. CASE ~Archives(c, i)
  BY <1>2, <1>3, <1>4, Zenon
<1>5. CASE Archives(c, i)
  <2>1. Sellable(key)
    BY <1>1, <1>2, <1>5, Zenon DEF Archives
  <2>2. PICK j \in DOMAIN prices :
          prices[j].key = key /\ prices[j].active /\ ~Archives(q[1], j)
    BY <1>1, <2>1, Zenon DEF Sellable
  <2> QED  BY <1>1, <1>3, <2>2, Zenon
<1> QED  BY <1>4, <1>5, Zenon
\* A call of a plan, whether the plan goes on or ends with it.
LEMMA PlanCallKeeps ==
    ASSUME CatalogInv, CatalogTyped', spec' = spec, NEW s \in Syncers, sync[s].calls # <<>>,
           Moves(Head(sync[s].calls)),
           \A t \in Syncers \ {s} : sync'[t].calls = sync[t].calls,
           \/ sync'[s].calls = <<>>
           \/ /\ sync'[s].calls = Tail(sync[s].calls)
              /\ LET c == Head(sync[s].calls)
                 IN  c.op = "price.create" /\ IdemKey(c) \notin used => Transfers(c)
    PROVE  CatalogInv' /\ NoNewCalls
<1> DEFINE q == sync[s].calls
           c == Head(q)
           T == CallsOf(spec)
<1>1. q \in Seq(T) /\ c \in T /\ 1 \in DOMAIN q /\ c = q[1]
  BY NextCall, Zenon
<1>2. Pending(c) /\ Moves(c)
  BY <1>1, Zenon DEF Pending
<1>3. \/ sync'[s].calls = <<>>
      \/ sync'[s].calls = Tail(q) /\ (c.op = "price.create" /\ IdemKey(c) \notin used => Transfers(c))
  BY Zenon
<1> HIDE DEF q, c, T
<1>4. ASSUME NEW p \in DOMAIN sync'[s].calls
      PROVE  /\ p + 1 \in DOMAIN q /\ sync'[s].calls[p] = q[p + 1] /\ p \in DOMAIN q
             /\ (p + 1) - 1 = p
             /\ p # 1 => p - 1 \in DOMAIN sync'[s].calls /\ sync'[s].calls[p - 1] = q[p]
             /\ c.op = "price.create" /\ IdemKey(c) \notin used => Transfers(c)
  <2> DEFINE r == sync'[s].calls
  <2>1. r = <<>> \/ (r = Tail(q) /\ (c.op = "price.create" /\ IdemKey(c) \notin used => Transfers(c)))
    BY <1>3, Zenon
  <2>2. p \in DOMAIN r
    OBVIOUS
  <2> HIDE DEF r
  <2>3. r # <<>>
    BY <2>2
  <2>4. q # <<>>
    BY <1>1
  <2>5. /\ p + 1 \in DOMAIN q /\ r[p] = q[p + 1] /\ p \in DOMAIN q /\ (p + 1) - 1 = p
        /\ p # 1 => p - 1 \in DOMAIN r /\ r[p - 1] = q[p]
    <3>1. r = Tail(q)
      BY <2>1, <2>3, Zenon
    <3> QED  BY <1>1, <2>2, <2>4, <3>1
  <2> QED  BY <2>1, <2>3, <2>5, Zenon DEF r
<1>5. NoNewCalls
  <2> SUFFICES ASSUME NEW t \in Syncers, NEW p \in DOMAIN sync'[t].calls
               PROVE  Pending(sync'[t].calls[p])
    BY Zenon DEF NoNewCalls
  <2>1. CASE t = s
    BY <1>4, <2>1, Zenon DEF Pending, q
  <2>2. CASE t # s
    BY <2>2, Zenon DEF Pending
  <2> QED  BY <2>1, <2>2, Zenon
<1>6. \A key : Sellable(key) => Sellable(key)'
  BY <1>1, <1>2, <1>5, SellableKept, Zenon DEF T
<1>7. \A key : c.op = "price.create" /\ Transfers(c) /\ c.key = key => Sellable(key)'
  BY <1>1, <1>5, CreatedSellable, Zenon DEF T
<1>8. NoKey \notin AllLookupKeys(spec)
  BY SpecsAssumption, Zenon DEF CatalogInv, CatalogTyped
<1>9. \A i \in DOMAIN prices : \A key \in AllLookupKeys(spec) :
         /\ i \in DOMAIN prices'
         /\ prices'[i].key = key => prices[i].key = key /\ ~(Transfers(c) /\ c.key = key)
  BY <1>2, <1>8, Zenon DEF Moves, Transfers
<1>10. ReplaysSellable'
  <2> SUFFICES ASSUME NEW key \in AllLookupKeys(spec), NEW t \in BOOLEAN,
                      IdemKey(NewPrice(spec, key, t)) \in used'
               PROVE  Sellable(key)'
    BY Zenon DEF ReplaysSellable
  <2>1. CASE IdemKey(NewPrice(spec, key, t)) \in used
    BY <1>6, <2>1, Zenon DEF CatalogInv, ReplaysSellable
  <2>2. CASE IdemKey(NewPrice(spec, key, t)) \notin used
    <3>1. IdemKey(c) = IdemKey(NewPrice(spec, key, t)) /\ used' # used
      BY <1>2, <2>2, Zenon DEF Moves
    <3>2. c.op = "price.create" /\ c.key = key
      <4>1. c \in CallsOf(spec)
        BY <1>1 DEF T
      <4> QED  BY <3>1, <4>1, SameCreate
    <3>3. Transfers(c)
      BY <1>2, <3>1, <3>2, Zenon DEF Moves
    <3> QED  BY <1>7, <3>2, <3>3, Zenon
  <2> QED  BY <2>1, <2>2, Zenon
<1>11. ASSUME NEW t \in Syncers, t # s PROVE ArchivesSafely(t)'
  <2> DEFINE r == sync[t].calls
  <2>1. ArchivesSafely(t) /\ sync'[t].calls = r
    BY <1>11, Zenon DEF CatalogInv
  <2>2. \A p \in DOMAIN r : r[p].op = "price.set_active" =>
          /\ r[p].id \in DOMAIN prices
          /\ \A key \in AllLookupKeys(spec) : prices[r[p].id].key = key =>
               \/ p - 1 \in DOMAIN r /\ r[p - 1] = NewPrice(spec, key, TRUE)
               \/ Sellable(key)
    BY <2>1, Zenon DEF ArchivesSafely
  <2> HIDE DEF r
  <2>3. ASSUME NEW p \in DOMAIN r, r[p].op = "price.set_active"
        PROVE  /\ r[p].id \in DOMAIN prices'
               /\ \A key \in AllLookupKeys(spec') : prices'[r[p].id].key = key =>
                    \/ p - 1 \in DOMAIN r /\ r[p - 1] = NewPrice(spec', key, TRUE)
                    \/ Sellable(key)'
    <3>1. r[p].id \in DOMAIN prices /\ r[p].id \in DOMAIN prices'
      BY <1>2, <2>2, <2>3, Zenon DEF Moves
    <3>2. ASSUME NEW key \in AllLookupKeys(spec'), prices'[r[p].id].key = key
          PROVE  \/ p - 1 \in DOMAIN r /\ r[p - 1] = NewPrice(spec', key, TRUE)
                 \/ Sellable(key)'
      <4>1. key \in AllLookupKeys(spec) /\ prices[r[p].id].key = key
        BY <1>9, <3>1, <3>2, Zenon
      <4>2. (p - 1 \in DOMAIN r /\ r[p - 1] = NewPrice(spec, key, TRUE)) \/ Sellable(key)
        BY <2>2, <2>3, <4>1, Zenon
      <4> QED  BY <1>6, <4>2, Zenon
    <3> QED  BY <3>1, <3>2, Zenon
  <2> QED  BY <2>1, <2>3, Zenon DEF ArchivesSafely
<1>12. ArchivesSafely(s)'
  <2> DEFINE r == sync'[s].calls
  <2> SUFFICES ASSUME NEW p \in DOMAIN r, r[p].op = "price.set_active"
               PROVE  /\ r[p].id \in DOMAIN prices'
                      /\ \A key \in AllLookupKeys(spec') : prices'[r[p].id].key = key =>
                           \/ p - 1 \in DOMAIN r /\ r[p - 1] = NewPrice(spec', key, TRUE)
                           \/ Sellable(key)'
    BY Zenon DEF ArchivesSafely
  <2>1. /\ p + 1 \in DOMAIN q /\ r[p] = q[p + 1] /\ p \in DOMAIN q /\ (p + 1) - 1 = p
        /\ p # 1 => p - 1 \in DOMAIN r /\ r[p - 1] = q[p]
        /\ c.op = "price.create" /\ IdemKey(c) \notin used => Transfers(c)
    BY <1>4, Zenon
  <2> HIDE DEF r
  <2>2. /\ r[p].id \in DOMAIN prices
        /\ \A key \in AllLookupKeys(spec) : prices[r[p].id].key = key =>
             q[p] = NewPrice(spec, key, TRUE) \/ Sellable(key)
    <3>1. ArchivesSafely(s)
      BY Zenon DEF CatalogInv
    <3>2. \A m \in DOMAIN q : q[m].op = "price.set_active" =>
            /\ q[m].id \in DOMAIN prices
            /\ \A key \in AllLookupKeys(spec) : prices[q[m].id].key = key =>
                 \/ m - 1 \in DOMAIN q /\ q[m - 1] = NewPrice(spec, key, TRUE)
                 \/ Sellable(key)
      BY <3>1, Zenon DEF ArchivesSafely, q
    <3> QED  BY <2>1, <3>2, Zenon
  <2>3. r[p].id \in DOMAIN prices'
    BY <1>2, <2>2, Zenon DEF Moves
  <2>4. ASSUME NEW key \in AllLookupKeys(spec'), prices'[r[p].id].key = key
        PROVE  \/ p - 1 \in DOMAIN r /\ r[p - 1] = NewPrice(spec', key, TRUE)
               \/ Sellable(key)'
    <3>1. key \in AllLookupKeys(spec) /\ prices[r[p].id].key = key /\ ~(Transfers(c) /\ c.key = key)
      BY <1>9, <2>2, <2>4, Zenon
    <3>2. CASE Sellable(key)
      BY <1>6, <3>2, Zenon
    <3>3. CASE q[p] = NewPrice(spec, key, TRUE) /\ p # 1
      BY <2>1, <3>3, Zenon
    <3>4. CASE q[p] = NewPrice(spec, key, TRUE) /\ p = 1
      <4>1. c = NewPrice(spec, key, TRUE)
        BY <1>1, <3>4, Zenon
      <4>2. c.op = "price.create" /\ c.key = key
        BY <4>1 DEF NewPrice
      <4>3. IdemKey(c) \in used
        BY <2>1, <3>1, <4>2, Zenon
      <4>4. Sellable(key)
        BY <3>1, <4>1, <4>3, Zenon DEF CatalogInv, ReplaysSellable
      <4> QED  BY <1>6, <4>4, Zenon
    <3> QED  BY <2>2, <3>1, <3>2, <3>3, <3>4, Zenon
  <2> QED  BY <2>3, <2>4, Zenon
<1> QED  BY <1>5, <1>10, <1>11, <1>12, Zenon DEF CatalogInv

-----------------------------------------------------------------------------
\* Stripe starts empty and no sync runs.
LEMMA InitCatalogInv == CatalogInit => CatalogInv
<1> SUFFICES ASSUME CatalogInit PROVE CatalogInv
  OBVIOUS
<1>1. /\ spec \in Specs /\ products = <<>> /\ prices = <<>> /\ meters = <<>> /\ used = {}
      /\ sync = [s \in Syncers |-> NoSync] /\ clean = 0
  BY Zenon DEF CatalogInit
<1>2. DOMAIN <<>> = {} /\ IsFiniteSet({}) /\ 0 \in Nat
  BY FS_EmptySet
<1>3. /\ prices \in Seq([key: PriceKeys, product: ProductKeys, amount: Amounts, active: BOOLEAN])
      /\ <<>> \in Seq(CallsOf(spec))
  BY <1>1
<1>4. \A s \in Syncers : sync[s] = NoSync /\ sync[s].calls = <<>>
  BY <1>1, Zenon DEF NoSync
<1>5. NoSync \in [on: BOOLEAN, base: Nat, calls: Seq(CallsOf(spec))] /\ ~NoSync.on
  BY <1>2, <1>3, Zenon DEF NoSync
<1>6. CatalogTyped
  BY <1>1, <1>2, <1>3, <1>4, <1>5, Zenon DEF CatalogTyped
<1>7. \A s \in Syncers : ArchivesSafely(s)
  BY <1>2, <1>4, Zenon DEF ArchivesSafely
<1>8. ReplaysSellable
  BY <1>1, Zenon DEF ReplaysSellable
<1> QED  BY <1>6, <1>7, <1>8, Zenon DEF CatalogInv

\* Between syncs, with no key remembered, the invariant asks nothing of the prices.
LEMMA IdleKeeps ==
    ASSUME CatalogTyped', \A s \in Syncers : sync'[s].calls = <<>>, used' = {}
    PROVE  CatalogInv'
<1>1. DOMAIN <<>> = {}
  OBVIOUS
<1>2. \A s \in Syncers : ArchivesSafely(s)'
  BY <1>1, Zenon DEF ArchivesSafely
<1>3. ReplaysSellable'
  BY Zenon DEF ReplaysSellable
<1> QED  BY <1>2, <1>3, Zenon DEF CatalogInv

\* Listing Stripe and diffing it: the new plan archives no price that is on sale.
LEMMA DriftKeeps ==
    ASSUME CatalogInv, NEW s \in Syncers, CheckDrift(s)
    PROVE  CatalogInv'
<1> DEFINE q == Apply(spec)
           T == CallsOf(spec)
           R == [on: BOOLEAN, base: Nat, calls: Seq(T)]
           x == [on |-> TRUE, base |-> clean, calls |-> q]
<1>1. CatalogTyped
  BY DEF CatalogInv
<1>2. q \in Seq(T) /\ Planned(q)
  BY <1>1, ApplyPlanned, Zenon
<1>3. /\ sync' = [sync EXCEPT ![s] = x]
      /\ UNCHANGED <<spec, products, prices, meters, used, clean>>
  BY Zenon DEF CheckDrift, stripeVars
<1> HIDE DEF q
<1>4. x \in R /\ x.calls = q /\ x.on
  BY <1>1, <1>2, Zenon DEF CatalogTyped
<1>5. sync \in [Syncers -> R]
  BY <1>1, Zenon DEF CatalogTyped
<1> HIDE DEF x, T, R
<1>6. sync' \in [Syncers -> R] /\ sync'[s] = x /\ \A t \in Syncers \ {s} : sync'[t] = sync[t]
  BY <1>3, <1>4, <1>5, Zenon
<1>7. CatalogTyped'
  BY <1>1, <1>3, <1>4, <1>6, Zenon DEF CatalogTyped, R, T
<1>8. ASSUME NEW key \in AllLookupKeys(spec), Sellable(key) PROVE Sellable(key)'
  <2>1. PICK j \in DOMAIN prices :
          /\ prices[j].key = key /\ prices[j].active /\ prices[j].amount = Amount(spec, key)
          /\ \A t \in Syncers : \A p \in DOMAIN sync[t].calls : ~Archives(sync[t].calls[p], j)
    BY <1>8, Zenon DEF Sellable
  <2>2. \A p \in DOMAIN q : ~Archives(q[p], j)
    BY <1>2, <2>1, Zenon DEF Planned, Archives, priceNeedsReplace
  <2>3. \A t \in Syncers : \A p \in DOMAIN sync'[t].calls : ~Archives(sync'[t].calls[p], j)
    BY <1>4, <1>6, <2>1, <2>2, Zenon
  <2> QED  BY <1>3, <2>1, <2>3, Zenon DEF Sellable
<1>9. ReplaysSellable'
  BY <1>3, <1>8, Zenon DEF ReplaysSellable, CatalogInv
<1>10. ASSUME NEW t \in Syncers PROVE ArchivesSafely(t)'
  <2>1. CASE t = s
    <3>1. sync'[t].calls = q
      BY <1>4, <1>6, <2>1, Zenon
    <3> QED  BY <1>2, <1>3, <3>1, Zenon DEF ArchivesSafely, Planned
  <2>2. CASE t # s
    <3>1. sync'[t].calls = sync[t].calls /\ ArchivesSafely(t)
      BY <1>6, <2>2, Zenon DEF CatalogInv
    <3> QED  BY <1>3, <1>8, <3>1, Zenon DEF ArchivesSafely
  <2> QED  BY <2>1, <2>2, Zenon
<1> QED  BY <1>7, <1>9, <1>10, Zenon DEF CatalogInv
\* A syncer's record after a step that is its own.
LEMMA OwnStep ==
    ASSUME CatalogTyped, spec' = spec, clean' \in Nat, StripeTyped', NEW s \in Syncers,
           \/ sync' = [sync EXCEPT ![s] = NoSync]
           \/ sync[s].calls # <<>> /\ sync' = [sync EXCEPT ![s].calls = Tail(@)]
    PROVE  /\ CatalogTyped'
           /\ \A t \in Syncers \ {s} : sync'[t].calls = sync[t].calls
           /\ sync' = [sync EXCEPT ![s] = NoSync] => sync'[s].calls = <<>>
           /\ sync' = [sync EXCEPT ![s].calls = Tail(@)] => sync'[s].calls = Tail(sync[s].calls)
<1> DEFINE T == CallsOf(spec)
           R == [on: BOOLEAN, base: Nat, calls: Seq(T)]
           e == sync[s]
           x == [e EXCEPT !.calls = Tail(e.calls)]
<1>1. sync \in [Syncers -> R] /\ spec \in Specs /\ \A t \in Syncers : ~sync[t].on => sync[t].calls = <<>>
  BY Zenon DEF CatalogTyped
<1>2. NoSync \in R /\ NoSync.calls = <<>>
  <2> HIDE DEF T
  <2>1. 0 \in Nat /\ <<>> \in Seq(T)
    OBVIOUS
  <2> QED  BY <2>1, Zenon DEF NoSync
<1>3. e \in R
  <2> HIDE DEF R
  <2> QED  BY <1>1
<1>4. e.calls # <<>> => Tail(e.calls) \in Seq(T)
  <2> DEFINE q == e.calls
  <2>1. q \in Seq(T)
    <3> HIDE DEF e, T
    <3> QED  BY <1>3, Zenon
  <2> HIDE DEF q, T
  <2>2. q # <<>> => Tail(q) \in Seq(T)
    BY <2>1
  <2> QED  BY <2>2 DEF q
<1>5. e.calls # <<>> => x \in R /\ x.calls = Tail(e.calls) /\ x.on
  <2>1. e.calls # <<>> => e.on
    BY <1>1, Zenon
  <2> HIDE DEF e, T
  <2> QED  BY <1>3, <1>4, <2>1, Zenon
<1>6. sync' = [sync EXCEPT ![s].calls = Tail(@)] => sync' = [sync EXCEPT ![s] = x]
  BY Zenon
<1> HIDE DEF x, R
<1>7. ASSUME NEW y \in R, sync' = [sync EXCEPT ![s] = y]
      PROVE  sync' \in [Syncers -> R] /\ sync'[s] = y /\ \A t \in Syncers \ {s} : sync'[t] = sync[t]
  BY <1>1, <1>7, Zenon
<1>8. CASE sync' = [sync EXCEPT ![s] = NoSync]
  <2>1. sync' \in [Syncers -> R] /\ sync'[s] = NoSync /\ \A t \in Syncers \ {s} : sync'[t] = sync[t]
    BY <1>2, <1>7, <1>8, Zenon
  <2>2. \A t \in Syncers : ~sync'[t].on => sync'[t].calls = <<>>
    BY <1>1, <1>2, <2>1, Zenon
  <2>3. CatalogTyped'
    BY <1>1, <2>1, <2>2, Zenon DEF CatalogTyped, StripeTyped, R, T
  <2>4. CASE sync' = [sync EXCEPT ![s].calls = Tail(@)]
    <3>1. sync'[s].calls = Tail(e.calls)
      BY <1>1, <2>4, Zenon DEF R
    <3> QED  BY <1>2, <2>1, <2>3, <3>1, Zenon
  <2> QED  BY <1>2, <2>1, <2>3, <2>4, Zenon
<1>9. CASE e.calls # <<>> /\ sync' = [sync EXCEPT ![s].calls = Tail(@)] /\ sync' # [sync EXCEPT ![s] = NoSync]
  <2>1. sync' \in [Syncers -> R] /\ sync'[s] = x /\ \A t \in Syncers \ {s} : sync'[t] = sync[t]
    BY <1>5, <1>6, <1>7, <1>9, Zenon
  <2>2. \A t \in Syncers : ~sync'[t].on => sync'[t].calls = <<>>
    BY <1>1, <1>5, <1>9, <2>1, Zenon
  <2>3. CatalogTyped'
    BY <1>1, <2>1, <2>2, Zenon DEF CatalogTyped, StripeTyped, R, T
  <2> QED  BY <1>5, <1>9, <2>1, <2>3, Zenon
<1> QED  BY <1>8, <1>9, Zenon

\* Every call of a plan: made, refused or lost.
LEMMA CallStep ==
    ASSUME CatalogInv, NEW s \in Syncers,
           Call(s) \/ \E reached \in BOOLEAN : CallFails(s, reached)
    PROVE  /\ CatalogInv' /\ NoNewCalls /\ spec' = spec
           /\ \A key \in AllLookupKeys(spec) : Warm(key) => Warm(key)'
<1> DEFINE c == Head(sync[s].calls)
<1>1. sync[s].calls # <<>> /\ spec' = spec /\ clean' = clean
  BY Zenon DEF Call, CallFails
<1>2. CatalogTyped /\ StripeTyped /\ clean' \in Nat
  BY <1>1, Zenon DEF CatalogInv, CatalogTyped, StripeTyped
<1>3. \/ Handle(c) /\ sync' = [sync EXCEPT ![s].calls = Tail(@)]
      \/ (Handle(c) \/ UNCHANGED stripeVars) /\ sync' = [sync EXCEPT ![s] = NoSync]
  BY Zenon DEF Call, CallFails
<1>4. c \in CallsOf(spec) /\ (c.op = "price.set_active" => c.id \in DOMAIN prices)
  BY <1>1, NextCall, Zenon
<1>5. spec \in Specs
  BY <1>2, Zenon DEF CatalogTyped
<1>6. Handle(c) => /\ StripeTyped' /\ Moves(c)
                   /\ c.op = "price.create" /\ IdemKey(c) \notin used => Transfers(c)
  BY <1>2, <1>4, <1>5, HandleMoves, Zenon
<1>7. UNCHANGED stripeVars => StripeTyped' /\ Moves(c)
  BY <1>2, Zenon DEF stripeVars, StripeTyped, Moves
<1> HIDE DEF c
<1>8. StripeTyped' /\ Moves(c)
  BY <1>3, <1>6, <1>7, Zenon
<1>9. /\ CatalogTyped' /\ \A t \in Syncers \ {s} : sync'[t].calls = sync[t].calls
      /\ sync' = [sync EXCEPT ![s] = NoSync] => sync'[s].calls = <<>>
      /\ sync' = [sync EXCEPT ![s].calls = Tail(@)] => sync'[s].calls = Tail(sync[s].calls)
  BY <1>1, <1>2, <1>3, <1>8, OwnStep, Zenon
<1>10. \/ sync'[s].calls = <<>>
       \/ /\ sync'[s].calls = Tail(sync[s].calls)
          /\ c.op = "price.create" /\ IdemKey(c) \notin used => Transfers(c)
  BY <1>3, <1>6, <1>9, Zenon
<1>11. CatalogInv' /\ NoNewCalls
  BY <1>1, <1>8, <1>9, <1>10, PlanCallKeeps, Zenon DEF c
<1>12. \A key \in AllLookupKeys(spec) : Warm(key) => Warm(key)'
  BY <1>1, <1>8, WarmKept, Zenon DEF c
<1> QED  BY <1>1, <1>11, <1>12, Zenon

\* A sync that ends changes nothing in Stripe.
LEMMA FinishKeeps ==
    ASSUME CatalogInv, NEW s \in Syncers, Finish(s)
    PROVE  CatalogInv'
<1>1. /\ sync[s].calls = <<>> /\ sync' = [sync EXCEPT ![s] = NoSync]
      /\ clean' = IF clean = 2 THEN 2 ELSE sync[s].base + 1
      /\ UNCHANGED <<spec, products, prices, meters, used>>
  BY Zenon DEF Finish, stripeVars
<1>2. clean \in Nat /\ sync[s].base \in Nat /\ CatalogTyped
  BY Zenon DEF CatalogInv, CatalogTyped
<1>3. clean' \in Nat
  BY <1>1, <1>2
<1>4. StripeTyped'
  BY <1>1, <1>2, Zenon DEF CatalogTyped, StripeTyped
<1>5. CatalogTyped' /\ \A t \in Syncers : sync'[t].calls = sync[t].calls
  BY <1>1, <1>2, <1>3, <1>4, OwnStep, Zenon
<1>6. \A key : Sellable(key) => Sellable(key)'
  BY <1>1, <1>5, Zenon DEF Sellable
<1>7. ReplaysSellable'
  BY <1>1, <1>6, Zenon DEF CatalogInv, ReplaysSellable
<1>8. ASSUME NEW t \in Syncers PROVE ArchivesSafely(t)'
  <2>1. ArchivesSafely(t) /\ sync'[t].calls = sync[t].calls
    BY <1>5, Zenon DEF CatalogInv
  <2> QED  BY <1>1, <1>6, <2>1, Zenon DEF ArchivesSafely
<1> QED  BY <1>5, <1>7, <1>8, Zenon DEF CatalogInv

\* With deploys a day apart, the invariant holds and no step but an operator's takes
\* a declared key off sale.
LEMMA CatalogStep ==
    ASSUME ~SameDay, CatalogInv, [CatalogNext]_catalogVars
    PROVE  /\ CatalogInv'
           /\ \/ \E i \in DOMAIN prices : ArchivedByHand(i)
              \/ \A key \in AllLookupKeys(spec') : Warm(key) => Warm(key)'
<1> DEFINE Kept == \A key \in AllLookupKeys(spec') : Warm(key) => Warm(key)'
<1>1. prices' = prices => Kept
  BY Zenon DEF Warm, Holders
<1>2. ASSUME NEW s \in Syncers, CheckDrift(s) PROVE CatalogInv' /\ Kept
  <2>1. prices' = prices
    BY <1>2, Zenon DEF CheckDrift, stripeVars
  <2> QED  BY <1>1, <1>2, <2>1, DriftKeeps, Zenon
<1>3. ASSUME NEW s \in Syncers, Call(s) \/ \E reached \in BOOLEAN : CallFails(s, reached)
      PROVE  CatalogInv' /\ Kept
  BY <1>3, CallStep, Zenon
<1>4. ASSUME NEW s \in Syncers, Finish(s) PROVE CatalogInv' /\ Kept
  <2>1. prices' = prices
    BY <1>4, Zenon DEF Finish, stripeVars
  <2> QED  BY <1>1, <1>4, <2>1, FinishKeeps, Zenon
<1>5. CatalogTyped /\ StripeTyped
  BY Zenon DEF CatalogInv, CatalogTyped, StripeTyped
<1>6. AllIdle => \A s \in Syncers : ~sync[s].on /\ sync[s].calls = <<>>
  BY <1>5, Zenon DEF AllIdle, CatalogTyped
<1>7. AllIdle => sync \in [Syncers -> [on: BOOLEAN, base: Nat, calls: {<<>>}]]
  <2> SUFFICES ASSUME AllIdle
               PROVE  sync \in [Syncers -> [on: BOOLEAN, base: Nat, calls: {<<>>}]]
    OBVIOUS
  <2>1. sync \in [Syncers -> [on: BOOLEAN, base: Nat, calls: Seq(CallsOf(spec))]]
    BY <1>5, Zenon DEF CatalogTyped
  <2>2. ASSUME NEW s \in Syncers PROVE sync[s] \in [on: BOOLEAN, base: Nat, calls: {<<>>}]
    BY <1>6, <2>1, Zenon
  <2> QED  BY <2>1, <2>2, Zenon
<1>8. ASSUME NEW z \in Specs
      PROVE  AllIdle => sync \in [Syncers -> [on: BOOLEAN, base: Nat, calls: Seq(CallsOf(z))]]
  <2> SUFFICES ASSUME AllIdle
               PROVE  sync \in [Syncers -> [on: BOOLEAN, base: Nat, calls: Seq(CallsOf(z))]]
    OBVIOUS
  <2>1. <<>> \in Seq(CallsOf(z))
    OBVIOUS
  <2>2. sync \in [Syncers -> [on: BOOLEAN, base: Nat, calls: {<<>>}]]
    BY <1>7
  <2>3. ASSUME NEW s \in Syncers
        PROVE  sync[s] \in [on: BOOLEAN, base: Nat, calls: Seq(CallsOf(z))]
    BY <2>1, <2>2, Zenon
  <2> QED  BY <2>2, <2>3, Zenon
<1>9. ASSUME NEW z \in Specs, Deploy(z) PROVE CatalogInv' /\ Kept
  <2>1. /\ AllIdle /\ used = {} /\ spec' = z /\ clean' = 0
        /\ UNCHANGED <<products, prices, meters, used, sync>>
    BY <1>9, Zenon DEF Deploy, DayPassed, stripeVars
  <2>2. 0 \in Nat
    OBVIOUS
  <2>3. CatalogTyped'
    BY <1>5, <1>6, <1>8, <2>1, <2>2, Zenon DEF CatalogTyped
  <2>4. \A s \in Syncers : sync'[s].calls = <<>>
    BY <1>6, <2>1, Zenon
  <2> QED  BY <1>1, <2>1, <2>3, <2>4, IdleKeeps, Zenon
<1>10. ASSUME NEW i \in DOMAIN prices, ArchivedByHand(i) PROVE CatalogInv'
  <2>1. /\ AllIdle /\ used = {} /\ clean' = 0 /\ prices' = [prices EXCEPT ![i].active = FALSE]
        /\ UNCHANGED <<spec, products, meters, used, sync>>
    BY <1>10, Zenon DEF ArchivedByHand, DayPassed
  <2>2. prices' \in Seq([key: PriceKeys, product: ProductKeys, amount: Amounts, active: BOOLEAN])
    BY <1>5, <2>1, ArchiveMoves, Zenon
  <2>3. 0 \in Nat
    OBVIOUS
  <2>4. CatalogTyped'
    BY <1>5, <2>1, <2>2, <2>3, Zenon DEF CatalogTyped
  <2>5. \A s \in Syncers : sync'[s].calls = <<>>
    BY <1>6, <2>1, Zenon
  <2> QED  BY <2>1, <2>4, <2>5, IdleKeeps, Zenon
<1>11. ASSUME KeysExpire PROVE CatalogInv' /\ Kept
  <2>1. AllIdle /\ used' = {} /\ UNCHANGED <<spec, products, prices, meters, sync, clean>>
    BY <1>11, Zenon DEF KeysExpire
  <2>2. CatalogTyped'
    BY <1>5, <2>1, Zenon DEF CatalogTyped
  <2>3. \A s \in Syncers : sync'[s].calls = <<>>
    BY <1>6, <2>1, Zenon
  <2> QED  BY <1>1, <2>1, <2>2, <2>3, IdleKeeps, Zenon
<1>12. ASSUME UNCHANGED catalogVars PROVE CatalogInv' /\ Kept
  <2>1. UNCHANGED <<spec, products, prices, meters, used, sync, clean>>
    BY <1>12, Zenon DEF catalogVars, stripeVars
  <2>2. CatalogTyped'
    BY <1>5, <2>1, Zenon DEF CatalogTyped
  <2>3. \A key : Sellable(key) => Sellable(key)'
    BY <2>1, Zenon DEF Sellable
  <2>4. ReplaysSellable'
    BY <2>1, <2>3, Zenon DEF CatalogInv, ReplaysSellable
  <2>5. \A t \in Syncers : ArchivesSafely(t)'
    BY <2>1, <2>3, Zenon DEF CatalogInv, ArchivesSafely
  <2> QED  BY <1>1, <2>1, <2>2, <2>4, <2>5, Zenon DEF CatalogInv
<1> HIDE DEF Kept
<1>13. CatalogInv' /\ ((\E i \in DOMAIN prices : ArchivedByHand(i)) \/ Kept)
  BY <1>2, <1>3, <1>4, <1>9, <1>10, <1>11, <1>12, Zenon DEF CatalogNext
<1> QED  BY <1>13, Zenon DEF Kept

\* A running sync never leaves a declared key that could be bought without an active
\* price, for any catalogs and any number of concurrent syncs, as long as deploys are
\* further apart than Stripe remembers idempotency keys: Apply's replace creates and
\* transfers before it archives, and a replayed creation finds its price still there.
THEOREM KeysNeverUnsold == ASSUME ~SameDay PROVE CatalogSpec => NeverUnsold
<1>1. CatalogInit => CatalogInv
  BY InitCatalogInv
<1>2. CatalogInv /\ [CatalogNext]_catalogVars =>
        /\ CatalogInv'
        /\ [\/ \E i \in DOMAIN prices : ArchivedByHand(i)
            \/ \A key \in AllLookupKeys(spec') : Warm(key) => Warm(key)']_catalogVars
  BY CatalogStep, Zenon
<1> QED  BY <1>1, <1>2, PTL DEF CatalogSpec, NeverUnsold

-----------------------------------------------------------------------------
\* An active price that holds a declared key at the declared amount.
OnSale(i) ==
    /\ prices[i].active /\ prices[i].key \in AllLookupKeys(spec)
    /\ prices[i].amount = Amount(spec, prices[i].key)

\* The products of the listing are found when the namespace is one word.
Plain == Len(spec.namespace) = 1
Stale(i) == Plain /\ i \in DOMAIN prices /\ prices[i].active /\ ~OnSale(i)

\* A product is active; it is active as declared; it has its declared name.
Shown(p) == p \in DOMAIN products /\ products[p].active
Listed(p) ==
    /\ p \in DOMAIN spec.products => Shown(p)
    /\ Plain /\ Shown(p) => p \in DOMAIN spec.products
Named(p) == p \in DOMAIN products /\ products[p].name = spec.products[p].name

\* The products' records in Stripe are made of declared names and descriptions.
Names == {x.name : x \in ProductSpecs}
Descs == {x.desc : x \in ProductSpecs}
ProductsTyped == products \in [DOMAIN products -> [name: Names, desc: Descs, active: BOOLEAN]]

\* No lookup key is held twice.
UniqueHolders ==
    \A i, j \in DOMAIN prices : prices[i].key = prices[j].key /\ prices[i].key # NoKey => i = j

\* Every price is of a product.
Stocked == \A i \in DOMAIN prices : prices[i].product \in DOMAIN products

\* A call on a product says what the deployed spec says of it.
DeclaredCall(c) ==
    /\ c.op \in {"product.create", "product.update"} =>
         c.id \in DOMAIN spec.products /\ c.new = spec.products[c.id]
    /\ c.op = "product.set_active" => (c.active <=> c.id \in DOMAIN spec.products)

\* The creation of a price will be replayed, or is still called for.
CreateFits(c) ==
    \/ IdemKey(c) \in used
    \/ c.transfer /\ \E i \in Holders(c.key) : ~OnSale(i)
    \/ ~c.transfer /\ Holders(c.key) = {}

\* What is known of a call of a running plan, however old its listing.
Fits(c) ==
    /\ DeclaredCall(c)
    /\ c.op = "price.create" => CreateFits(c)
    /\ c.op = "price.set_active" => c.id \in DOMAIN prices /\ ~OnSale(c.id)
    /\ c.op \in {"product.update", "product.set_active"} => c.id \in DOMAIN products

\* Stripe shows what the call asks for.
Done(c) ==
    /\ c.op = "price.create" => Sellable(c.key)
    /\ c.op = "price.set_active" => c.id \in DOMAIN prices /\ ~prices[c.id].active
    /\ c.op = "product.create" => Shown(c.id) /\ Named(c.id)
    /\ c.op = "product.update" => Named(c.id)
    /\ c.op = "product.set_active" => (c.active <=> Shown(c.id))

\* The plan has a call of the kind about the object.
HasCall(q, op, id) == \E m \in DOMAIN q : q[m].op = op /\ q[m].id = id
Creates(q, key) == \E m \in DOMAIN q : q[m].op = "price.create" /\ q[m].key = key

\* Whatever differs from the spec is the subject of a remaining call; a product's name
\* apart.
Remains(q) ==
    /\ \A key \in AllLookupKeys(spec) : Sellable(key) \/ Creates(q, key)
    /\ \A i : Stale(i) => HasCall(q, "price.set_active", i)
    /\ \A p \in DOMAIN spec.products : p \in DOMAIN products \/ HasCall(q, "product.create", p)
    /\ \A p \in DOMAIN products : Listed(p) \/ HasCall(q, "product.set_active", p)
\* The same of the names of declared products.
NamesRemain(q) ==
    \A p \in DOMAIN spec.products : Named(p) \/ HasCall(q, "product.update", p)

\* A replayed call has had its effect.
Remembered == \A c \in CallsOf(spec) : DeclaredCall(c) /\ IdemKey(c) \in used => Done(c)

\* The inductive invariant of SyncSells, with CatalogInv: what a replay stands for has
\* happened, no running plan is at odds with Stripe, and what differs from the spec is
\* ahead in every running plan, and nowhere after a complete one.
SoldInv ==
    /\ ProductsTyped /\ UniqueHolders /\ Stocked /\ Remembered
    /\ \A c : Pending(c) => Fits(c)
    /\ clean \in 0 .. 2
    /\ clean >= 1 => Remains(<<>>)
    /\ clean = 2 => NamesRemain(<<>>)
    /\ \A s \in Syncers : sync[s].on =>
         /\ sync[s].base <= clean
         /\ \A q : sync[s].calls = q =>
              Remains(q) /\ (sync[s].base >= 1 => NamesRemain(q))

-----------------------------------------------------------------------------
\* What every call of a plan leaves of Stripe: nothing that agrees with the spec stops
\* to, and nothing new disagrees.
Progress ==
    /\ used \subseteq used'
    /\ \A key \in AllLookupKeys(spec) : Sellable(key) => Sellable(key)'
    /\ \A i \in DOMAIN prices :
         i \in DOMAIN prices' /\ (prices'[i].active => prices[i].active) /\ (OnSale(i)' => OnSale(i))
    /\ \A i : Stale(i)' => Stale(i)
    /\ \A p \in DOMAIN products : p \in DOMAIN products'
    /\ \A p \in DOMAIN spec.products :
         /\ Shown(p) => Shown(p)'
         /\ Named(p) => Named(p)'
         /\ p \in DOMAIN products' /\ p \notin DOMAIN products => Shown(p)'
    /\ \A p : p \notin DOMAIN spec.products =>
         (Shown(p)' => Shown(p)) /\ (p \in DOMAIN products' => p \in DOMAIN products)

\* Progress takes nothing out of what the plans cover.
LEMMA RemainsKept ==
    ASSUME Progress, spec' = spec, NEW q
    PROVE  (Remains(q) => Remains(q)') /\ (NamesRemain(q) => NamesRemain(q)')
<1>1. ASSUME Remains(q) PROVE Remains(q)'
  <2>1. \A key \in AllLookupKeys(spec') : Sellable(key)' \/ Creates(q, key)
    BY <1>1, Zenon DEF Remains, Progress
  <2>2. \A i : Stale(i)' => HasCall(q, "price.set_active", i)
    BY <1>1, Zenon DEF Remains, Progress
  <2>3. \A p \in DOMAIN spec'.products : p \in DOMAIN products' \/ HasCall(q, "product.create", p)
    BY <1>1, Zenon DEF Remains, Progress
  <2>4. ASSUME NEW p \in DOMAIN products'
        PROVE  Listed(p)' \/ HasCall(q, "product.set_active", p)
    <3>1. CASE p \in DOMAIN spec.products /\ p \notin DOMAIN products
      BY <3>1, Zenon DEF Progress, Listed
    <3>2. CASE p \in DOMAIN spec.products /\ p \in DOMAIN products
      BY <1>1, <3>2, Zenon DEF Progress, Remains, Listed
    <3>3. CASE p \notin DOMAIN spec.products
      BY <1>1, <3>3, Zenon DEF Progress, Remains, Listed, Plain
    <3> QED  BY <3>1, <3>2, <3>3, Zenon
  <2> QED  BY <2>1, <2>2, <2>3, <2>4, Zenon DEF Remains, Creates, HasCall
<1>2. ASSUME NamesRemain(q) PROVE NamesRemain(q)'
  BY <1>2, Zenon DEF NamesRemain, Progress, HasCall
<1> QED  BY <1>1, <1>2

\* A plan's remaining calls, once the first of them has had its effect.
LEMMA RemainsTail ==
    ASSUME Progress, spec' = spec, NEW T, NEW q \in Seq(T), q # <<>>, NEW c, c = Head(q),
           Fits(c), Done(c)'
    PROVE  (Remains(q) => Remains(Tail(q))') /\ (NamesRemain(q) => NamesRemain(Tail(q))')
<1> DEFINE r == Tail(q)
<1>1. \A m \in DOMAIN q : q[m] = c \/ \E n \in DOMAIN r : r[n] = q[m]
  <2> SUFFICES ASSUME NEW m \in DOMAIN q PROVE q[m] = c \/ \E n \in DOMAIN r : r[n] = q[m]
    OBVIOUS
  <2>1. CASE m = 1
    BY <2>1
  <2>2. CASE m # 1
    <3>1. m - 1 \in DOMAIN r /\ r[m - 1] = q[m]
      BY <2>2
    <3> QED  BY <3>1, Zenon
  <2> QED  BY <2>1, <2>2
<1> HIDE DEF r
<1>2. \A op, id : HasCall(q, op, id) => HasCall(r, op, id) \/ (c.op = op /\ c.id = id)
  BY <1>1, Zenon DEF HasCall
<1>3. \A key : Creates(q, key) => Creates(r, key) \/ (c.op = "price.create" /\ c.key = key)
  BY <1>1, Zenon DEF Creates
<1>4. ASSUME Remains(q) PROVE Remains(r)'
  <2>0. /\ \A key \in AllLookupKeys(spec') : Sellable(key)' \/ Creates(q, key)
        /\ \A i : Stale(i)' => HasCall(q, "price.set_active", i)
        /\ \A p \in DOMAIN spec'.products : p \in DOMAIN products' \/ HasCall(q, "product.create", p)
        /\ \A p \in DOMAIN products' : Listed(p)' \/ HasCall(q, "product.set_active", p)
    <3>1. Remains(q)'
      BY <1>4, RemainsKept
    <3> QED  BY <3>1, Zenon DEF Remains, Creates, HasCall
  <2>1. ASSUME NEW key \in AllLookupKeys(spec') PROVE Sellable(key)' \/ Creates(r, key)
    BY <1>3, <2>0, Zenon DEF Done
  <2>2. ASSUME NEW i, Stale(i)' PROVE HasCall(r, "price.set_active", i)
    BY <1>2, <2>0, <2>2, Zenon DEF Done, Stale
  <2>3. ASSUME NEW p \in DOMAIN spec'.products
        PROVE  p \in DOMAIN products' \/ HasCall(r, "product.create", p)
    BY <1>2, <2>0, Zenon DEF Done, Shown
  <2>4. ASSUME NEW p \in DOMAIN products'
        PROVE  Listed(p)' \/ HasCall(r, "product.set_active", p)
    BY <1>2, <2>0, Zenon DEF Done, Fits, DeclaredCall, Listed
  <2> QED  BY <2>1, <2>2, <2>3, <2>4, Zenon DEF Remains, Creates, HasCall
<1>5. ASSUME NamesRemain(q) PROVE NamesRemain(r)'
  <2>1. ASSUME NEW p \in DOMAIN spec'.products PROVE Named(p)' \/ HasCall(r, "product.update", p)
    <3>1. Named(p)' \/ HasCall(q, "product.update", p)
      BY <1>5, Zenon DEF NamesRemain, Progress
    <3> QED  BY <1>2, <3>1, Zenon DEF Done
  <2> QED  BY <2>1, Zenon DEF NamesRemain, HasCall
<1> QED  BY <1>4, <1>5 DEF r
-----------------------------------------------------------------------------
\* A declared price is created by one of two calls.
LEMMA SameCall ==
    ASSUME NEW c \in CallsOf(spec), NEW d \in CallsOf(spec), c.op = "price.create",
           d.op = "price.create", c.key = d.key, c.transfer <=> d.transfer
    PROVE  c = d
<1>1. ASSUME NEW e \in CallsOf(spec), e.op = "price.create"
      PROVE  \E t \in BOOLEAN : e = NewPrice(spec, e.key, t) /\ e.transfer = t
  <2>1. e \in PriceCreates(spec)
    <3>1. e \notin QuietCalls
      BY <1>1 DEF QuietCalls
    <3>2. e \notin PriceArchives
      BY <1>1 DEF PriceArchives, SetPriceInactive
    <3> QED  BY <3>1, <3>2, Zenon DEF CallsOf
  <2>2. PICK x \in AllLookupKeys(spec) \X BOOLEAN : e = NewPrice(spec, x[1], x[2])
    BY <2>1, Zenon DEF PriceCreates
  <2>3. x[2] \in BOOLEAN
    BY <2>2
  <2>4. e.key = x[1] /\ e.transfer = x[2]
    BY <2>2 DEF NewPrice
  <2> QED  BY <2>2, <2>3, <2>4, Zenon
<1>2. PICK t \in BOOLEAN : c = NewPrice(spec, c.key, t) /\ c.transfer = t
  BY <1>1
<1>3. PICK u \in BOOLEAN : d = NewPrice(spec, d.key, u) /\ d.transfer = u
  BY <1>1
<1>4. t = u
  BY <1>2, <1>3, Zenon
<1> QED  BY <1>2, <1>3, <1>4, Zenon

\* A call's part of Progress that is about prices, and that creations stay called for.
LEMMA PriceProgress ==
    ASSUME spec \in Specs, spec' = spec, UniqueHolders, NEW c \in CallsOf(spec), Moves(c), Fits(c),
           IdemKey(c) \in used'
    PROVE  /\ UniqueHolders'
           /\ \A i \in DOMAIN prices :
                i \in DOMAIN prices' /\ (prices'[i].active => prices[i].active) /\ (OnSale(i)' => OnSale(i))
           /\ \A i : Stale(i)' => Stale(i)
           /\ \A d \in CallsOf(spec) : d.op = "price.create" /\ CreateFits(d) => CreateFits(d)'
<1>1. NoKey \notin AllLookupKeys(spec)
  BY SpecsAssumption, Zenon
<1>2. \A i \in DOMAIN prices :
        /\ i \in DOMAIN prices' /\ (prices'[i].active => prices[i].active)
        /\ prices'[i].amount = prices[i].amount
  BY Zenon DEF Moves
<1>3. CASE /\ DOMAIN prices' = DOMAIN prices
           /\ \A i \in DOMAIN prices : prices'[i].key = prices[i].key
  <2>1. UniqueHolders'
    BY <1>3, Zenon DEF UniqueHolders
  <2>2. \A i \in DOMAIN prices : OnSale(i)' => OnSale(i)
    BY <1>2, <1>3, Zenon DEF OnSale
  <2>3. ASSUME NEW i, Stale(i)' PROVE Stale(i)
    <3>1. i \in DOMAIN prices /\ prices'[i].active /\ prices[i].active
      BY <1>2, <1>3, <2>3, Zenon DEF Stale
    <3>2. OnSale(i) => OnSale(i)'
      BY <1>2, <1>3, <3>1, Zenon DEF OnSale
    <3> QED  BY <2>3, <3>1, <3>2, Zenon DEF Stale, Plain
  <2>4. ASSUME NEW d \in CallsOf(spec), d.op = "price.create", CreateFits(d) PROVE CreateFits(d)'
    <3>1. Holders(d.key)' = Holders(d.key)
      BY <1>3 DEF Holders
    <3>2. \A i \in Holders(d.key) : i \in DOMAIN prices
      BY Zenon DEF Holders
    <3>3. used \subseteq used'
      BY Zenon DEF Moves
    <3> QED  BY <2>2, <2>4, <3>1, <3>2, <3>3, Zenon DEF CreateFits
  <2> QED  BY <1>2, <2>1, <2>2, <2>3, <2>4, Zenon
<1>4. CASE c.op = "price.create" /\ IdemKey(c) \notin used /\ Transfers(c)
  <2>1. PICK j : /\ j \notin DOMAIN prices /\ DOMAIN prices' = DOMAIN prices \cup {j}
                 /\ prices'[j].key = c.key /\ prices'[j].amount = c.amount /\ prices'[j].active
    BY <1>4, Zenon DEF Transfers
  <2>2. \A i \in DOMAIN prices :
          prices'[i].key = IF prices[i].key = c.key THEN NoKey ELSE prices[i].key
    BY <1>4, Zenon DEF Transfers
  <2>3. c.key \in AllLookupKeys(spec) /\ c.amount = Amount(spec, c.key) /\ c.key # NoKey
    BY <1>1, <1>4, CallKinds, Zenon
  <2>4. UniqueHolders'
    <3> SUFFICES ASSUME NEW i \in DOMAIN prices', NEW k \in DOMAIN prices',
                        prices'[i].key = prices'[k].key, prices'[i].key # NoKey
                 PROVE  i = k
      BY Zenon DEF UniqueHolders
    <3>1. CASE i = j \/ k = j
      BY <2>1, <2>2, <2>3, <3>1, Zenon
    <3>2. CASE i # j /\ k # j
      <4>1. i \in DOMAIN prices /\ k \in DOMAIN prices
        BY <2>1, <3>2, Zenon
      <4>2. prices[i].key = prices[k].key /\ prices[i].key # NoKey
        BY <2>2, <4>1, Zenon
      <4> QED  BY <4>1, <4>2, Zenon DEF UniqueHolders
    <3> QED  BY <3>1, <3>2, Zenon
  <2>5. ASSUME NEW i \in DOMAIN prices, OnSale(i)' PROVE OnSale(i)
    <3>1. prices'[i].key = prices[i].key
      BY <1>1, <2>2, <2>5, Zenon DEF OnSale
    <3> QED  BY <1>2, <2>5, <3>1, Zenon DEF OnSale
  <2>6. CreateFits(c)
    BY <1>4, Zenon DEF Fits
  <2>7. ASSUME NEW i, Stale(i)' PROVE Stale(i)
    <3>1. i # j
      <4>1. OnSale(j)'
        BY <2>1, <2>3, Zenon DEF OnSale
      <4> QED  BY <2>7, <4>1, Zenon DEF Stale
    <3>2. i \in DOMAIN prices /\ prices'[i].active /\ prices[i].active
      BY <1>2, <2>1, <2>7, <3>1, Zenon DEF Stale
    <3>3. CASE prices[i].key = c.key
      <4>1. i \in Holders(c.key)
        BY <3>2, <3>3, Zenon DEF Holders
      <4>2. PICK k \in Holders(c.key) : ~OnSale(k)
        BY <1>4, <2>6, <4>1, Zenon DEF CreateFits
      <4>3. k = i
        BY <2>3, <3>2, <3>3, <4>2, Zenon DEF Holders, UniqueHolders
      <4> QED  BY <2>7, <3>2, <4>2, <4>3, Zenon DEF Stale, Plain
    <3>4. CASE prices[i].key # c.key
      <4>1. OnSale(i) => OnSale(i)'
        BY <1>2, <2>2, <3>2, <3>4, Zenon DEF OnSale
      <4> QED  BY <2>7, <3>2, <4>1, Zenon DEF Stale, Plain
    <3> QED  BY <3>3, <3>4, Zenon
  <2>8. used \subseteq used' /\ IdemKey(c) \in used'
    BY Zenon DEF Moves
  <2>9. ASSUME NEW d \in CallsOf(spec), d.op = "price.create", CreateFits(d) PROVE CreateFits(d)'
    <3>1. CASE IdemKey(d) \in used
      BY <2>8, <3>1, Zenon DEF CreateFits
    <3>2. CASE IdemKey(d) \notin used /\ d.key = c.key
      <4>1. d.transfer <=> c.transfer
        BY <1>4, <2>6, <2>9, <3>2, Zenon DEF CreateFits
      <4>2. d = c
        BY <1>4, <2>9, <3>2, <4>1, SameCall, Zenon
      <4> QED  BY <2>8, <4>2, Zenon DEF CreateFits
    <3>3. CASE IdemKey(d) \notin used /\ d.key # c.key
      <4>1. d.key # NoKey
        BY <1>1, <2>9, CallKinds, Zenon
      <4>2. \A i : i \in Holders(d.key)' <=> i \in Holders(d.key)
        <5> SUFFICES ASSUME NEW i PROVE i \in Holders(d.key)' <=> i \in Holders(d.key)
          BY Zenon
        <5>1. CASE i \in DOMAIN prices
          BY <2>1, <2>2, <3>3, <4>1, <5>1, Zenon DEF Holders
        <5>2. CASE i \notin DOMAIN prices
          BY <2>1, <3>3, <5>2, Zenon DEF Holders
        <5> QED  BY <5>1, <5>2, Zenon
      <4>3. \A i \in Holders(d.key) : i \in DOMAIN prices
        BY Zenon DEF Holders
      <4>4. Holders(d.key)' = Holders(d.key)
        BY <4>2, Zenon
      <4> QED  BY <2>5, <2>9, <3>3, <4>3, <4>4, Zenon DEF CreateFits
    <3> QED  BY <3>1, <3>2, <3>3, Zenon
  <2> QED  BY <1>2, <2>4, <2>5, <2>7, <2>9, Zenon
<1> QED  BY <1>3, <1>4, Zenon DEF Moves

-----------------------------------------------------------------------------
\* What Stripe makes of a product a call of a plan addresses.
LEMMA ProductWritten ==
    ASSUME ProductsTyped, NEW c \in CallsOf(spec), Fits(c),
           c.op \in {"product.create", "product.update", "product.set_active"}
    PROVE  /\ ProductAfter(c) \in [name: Names, desc: Descs, active: BOOLEAN]
           /\ c.op = "product.create" => ProductAfter(c).active
           /\ c.op = "product.update" => ProductAfter(c).active = products[c.id].active
           /\ c.op = "product.set_active" =>
                ProductAfter(c).active = c.active /\ ProductAfter(c).name = products[c.id].name
           /\ c.op \in {"product.create", "product.update"} =>
                c.id \in DOMAIN spec.products /\ ProductAfter(c).name = spec.products[c.id].name
<1>0. c \in QuietCalls
  <2>1. c \notin PriceCreates(spec)
    BY DEF PriceCreates, NewPrice
  <2>2. c \notin PriceArchives
    BY DEF PriceArchives, SetPriceInactive
  <2> QED  BY <2>1, <2>2, Zenon DEF CallsOf
<1>1. c.op # "product.create" => products[c.id] \in [name: Names, desc: Descs, active: BOOLEAN]
  <2>1. c.op # "product.create" => c.id \in DOMAIN products
    BY Zenon DEF Fits
  <2> QED  BY <2>1, Zenon DEF ProductsTyped
<1>2. CASE c.op \in {"product.create", "product.update"}
  <2>1. c.id \in DOMAIN spec.products /\ c.new = spec.products[c.id]
    BY <1>2, Zenon DEF Fits, DeclaredCall
  <2>2. c.new \in ProductSpecs
    BY <1>0, <1>2 DEF QuietCalls
  <2>3. c.new.name \in Names /\ c.new.desc \in Descs
    BY <2>2, Zenon DEF Names, Descs
  <2>4. CASE c.op = "product.create"
    <3>1. ProductAfter(c) = [name |-> c.new.name, desc |-> c.new.desc, active |-> TRUE]
      BY <2>4 DEF ProductAfter
    <3> QED  BY <2>1, <2>3, <2>4, <3>1
  <2>5. CASE c.op = "product.update"
    <3>1. ProductAfter(c) = [products[c.id] EXCEPT !.name = c.new.name,
                                   !.desc = IF c.new.desc = "" THEN @ ELSE c.new.desc]
      BY <2>5 DEF ProductAfter
    <3> QED  BY <1>1, <2>1, <2>3, <2>5, <3>1
  <2> QED  BY <1>2, <2>4, <2>5
<1>3. CASE c.op = "product.set_active"
  <2>1. c.active \in BOOLEAN
    BY <1>0, <1>3 DEF QuietCalls
  <2>2. ProductAfter(c) = [products[c.id] EXCEPT !.active = c.active]
    BY <1>3 DEF ProductAfter
  <2> QED  BY <1>1, <1>3, <2>1, <2>2
<1> QED  BY <1>2, <1>3

\* The part about products, and what the call does to its own product.
LEMMA ProductProgress ==
    ASSUME spec' = spec, ProductsTyped, NEW c \in CallsOf(spec), Fits(c), Handle(c), Accepted(c)
    PROVE  /\ ProductsTyped'
           /\ \A p \in DOMAIN products : p \in DOMAIN products'
           /\ \A p \in DOMAIN spec.products :
                /\ Shown(p) => Shown(p)'
                /\ Named(p) => Named(p)'
                /\ p \in DOMAIN products' /\ p \notin DOMAIN products => Shown(p)'
           /\ \A p : p \notin DOMAIN spec.products =>
                (Shown(p)' => Shown(p)) /\ (p \in DOMAIN products' => p \in DOMAIN products)
           /\ IdemKey(c) \notin used =>
                /\ c.op = "product.create" => \A p : p = c.id => Shown(p)' /\ Named(p)'
                /\ c.op = "product.update" => \A p : p = c.id => Named(p)'
                /\ c.op = "product.set_active" => \A p : p = c.id => (c.active <=> Shown(p)')
<1>1. CASE products' = products /\ ~(/\ IdemKey(c) \notin used
              /\ c.op \in {"product.create", "product.update", "product.set_active"})
  BY <1>1, Zenon DEF ProductsTyped, Shown, Named
<1>2. CASE /\ products' = Put(products, c.id, ProductAfter(c)) /\ IdemKey(c) \notin used
           /\ c.op \in {"product.create", "product.update", "product.set_active"}
  <2>1. /\ DOMAIN products' = DOMAIN products \cup {c.id} /\ products'[c.id] = ProductAfter(c)
        /\ \A p \in DOMAIN products : p # c.id => products'[p] = products[p]
        /\ products' = [p \in DOMAIN products' |-> products'[p]]
    BY <1>2 DEF Put
  <2>2. c.op = "product.create" => c.id \notin DOMAIN products
    BY <1>2, Zenon DEF Accepted, Refused, Replays
  <2>3. c.op # "product.create" => c.id \in DOMAIN products
    BY <1>2, Zenon DEF Fits
  <2>4. /\ ProductAfter(c) \in [name: Names, desc: Descs, active: BOOLEAN]
        /\ c.op = "product.create" => ProductAfter(c).active
        /\ c.op = "product.update" => ProductAfter(c).active = products[c.id].active
        /\ c.op = "product.set_active" =>
             ProductAfter(c).active = c.active /\ ProductAfter(c).name = products[c.id].name
        /\ c.op \in {"product.create", "product.update"} =>
             c.id \in DOMAIN spec.products /\ ProductAfter(c).name = spec.products[c.id].name
    BY <1>2, ProductWritten
  <2>5. c.op = "product.set_active" => (c.active <=> c.id \in DOMAIN spec.products)
    BY Zenon DEF Fits, DeclaredCall
  <2>6. \A p : p = c.id =>
          /\ Shown(p)' <=> ProductAfter(c).active
          /\ Named(p)' <=> ProductAfter(c).name = spec.products[c.id].name
          /\ p \in DOMAIN products => /\ Shown(p) <=> products[c.id].active
                                      /\ Named(p) <=> products[c.id].name = spec.products[c.id].name
          /\ p \notin DOMAIN products => ~Shown(p) /\ ~Named(p)
    BY <2>1, Zenon DEF Shown, Named
  <2>7. \A p : p # c.id =>
          /\ p \in DOMAIN products' <=> p \in DOMAIN products
          /\ Shown(p)' <=> Shown(p)
          /\ Named(p)' <=> Named(p)
    BY <2>1, Zenon DEF Shown, Named
  <2>8. ProductsTyped'
    <3>1. \A p \in DOMAIN products' : products'[p] \in [name: Names, desc: Descs, active: BOOLEAN]
      BY <2>1, <2>4, Zenon DEF ProductsTyped
    <3> QED  BY <2>1, <3>1 DEF ProductsTyped
  <2>9. \A p \in DOMAIN products : p \in DOMAIN products'
    BY <2>1, Zenon
  <2>10. ASSUME NEW p \in DOMAIN spec.products
         PROVE  /\ Shown(p) => Shown(p)'
                /\ Named(p) => Named(p)'
                /\ p \in DOMAIN products' /\ p \notin DOMAIN products => Shown(p)'
    <3>1. CASE p # c.id
      BY <2>7, <3>1, Zenon
    <3>2. CASE p = c.id
      <4>1. CASE c.op = "product.create"
        BY <2>2, <2>4, <2>6, <3>2, <4>1, Zenon
      <4>2. CASE c.op = "product.update"
        BY <2>3, <2>4, <2>6, <3>2, <4>2, Zenon
      <4>3. CASE c.op = "product.set_active"
        BY <2>3, <2>4, <2>5, <2>6, <3>2, <4>3, Zenon
      <4> QED  BY <1>2, <4>1, <4>2, <4>3, Zenon
    <3> QED  BY <3>1, <3>2, Zenon
  <2>11. ASSUME NEW p, p \notin DOMAIN spec.products
         PROVE  (Shown(p)' => Shown(p)) /\ (p \in DOMAIN products' => p \in DOMAIN products)
    <3>1. CASE p # c.id
      BY <2>7, <3>1, Zenon
    <3>2. CASE p = c.id
      <4>1. c.op = "product.set_active"
        BY <1>2, <2>4, <2>11, <3>2, Zenon
      <4>2. ~Shown(p)'
        BY <2>4, <2>5, <2>6, <2>11, <3>2, <4>1, Zenon
      <4> QED  BY <2>3, <3>2, <4>1, <4>2, Zenon
    <3> QED  BY <3>1, <3>2, Zenon
  <2>12. /\ c.op = "product.create" => \A p : p = c.id => Shown(p)' /\ Named(p)'
         /\ c.op = "product.update" => \A p : p = c.id => Named(p)'
         /\ c.op = "product.set_active" => \A p : p = c.id => (c.active <=> Shown(p)')
    BY <2>4, <2>6, Zenon
  <2> QED  BY <2>8, <2>9, <2>10, <2>11, <2>12, Zenon
<1>3. CASE IdemKey(c) \in used
  BY <1>1, <1>3, Zenon DEF Handle, Replays, stripeVars
<1>4. CASE IdemKey(c) \notin used
  BY <1>1, <1>2, <1>4, Zenon DEF Handle, Replays
<1> QED  BY <1>3, <1>4

-----------------------------------------------------------------------------
\* The idempotency key names the object a call is about and, for a product's
\* archiving or return, which of the two it is.
LEMMA IdemSubject ==
    ASSUME NEW s, NEW c \in CallsOf(s), c.op # "price.create"
    PROVE  IdemKey(c)[2] = c.id /\ (c.op = "product.set_active" => IdemKey(c)[3] = c.active)
<1> DEFINE inputs ==
        CASE c.op = "product.create"     -> <<c.id, c.new.name>>
          [] c.op = "product.update"     -> <<c.id, c.new.name, c.new.desc>>
          [] c.op = "product.set_active" -> <<c.id, c.active>>
          [] c.op = "price.create"       -> <<c.key, c.amount, c.transfer>>
          [] OTHER                       -> <<c.id>>
<1>1. IdemKey(c) = <<c.op>> \o inputs
  BY Zenon DEF IdemKey, ApplyIdempotencyKey, deriveKey
<1>2. CASE c.op = "product.set_active"
  <2>1. inputs = <<c.id, c.active>>
    BY <1>2
  <2>2. LET k == <<c.op>> \o <<c.id, c.active>> IN k[2] = c.id /\ k[3] = c.active
    OBVIOUS
  <2> HIDE DEF inputs
  <2> QED  BY <1>1, <2>1, <2>2, Zenon
<1>3. CASE c.op # "product.set_active"
  <2>1. \/ inputs = <<c.id, c.new.name>> \/ inputs = <<c.id, c.new.name, c.new.desc>>
        \/ inputs = <<c.id>>
    BY <1>3
  <2>2. /\ (<<c.op>> \o <<c.id, c.new.name>>)[2] = c.id
        /\ (<<c.op>> \o <<c.id, c.new.name, c.new.desc>>)[2] = c.id
        /\ (<<c.op>> \o <<c.id>>)[2] = c.id
    OBVIOUS
  <2> HIDE DEF inputs
  <2> QED  BY <1>1, <1>3, <2>1, <2>2, Zenon
<1> QED  BY <1>2, <1>3

\* Two calls with one idempotency key ask for the same.
LEMMA DoneSame ==
    ASSUME NEW c \in CallsOf(spec), NEW d \in CallsOf(spec), IdemKey(c) = IdemKey(d)
    PROVE  /\ c.op = d.op
           /\ c.op = "price.create" => c.key = d.key
           /\ c.op # "price.create" => c.id = d.id
           /\ c.op = "product.set_active" => c.active = d.active
<1>1. c.op = d.op /\ (c.op = "price.create" => c.key = d.key)
  BY IdemFacts, Zenon
<1>2. c.op # "price.create" => c.id = d.id
  BY <1>1, IdemSubject, Zenon
<1>3. c.op = "product.set_active" => c.active = d.active
  BY <1>1, IdemSubject, Zenon
<1> QED  BY <1>1, <1>2, <1>3, Zenon

\* What a call achieved is kept.
LEMMA DoneKept ==
    ASSUME Progress, spec' = spec, NEW d \in CallsOf(spec), DeclaredCall(d), Done(d)
    PROVE  Done(d)'
<1>1. d.op = "price.create" => \A k : k = d.key => Sellable(k)'
  BY CallKinds, Zenon DEF Done, Progress
<1>2. d.op = "price.set_active" => d.id \in DOMAIN prices' /\ ~prices'[d.id].active
  BY Zenon DEF Done, Progress
<1>3. d.op = "product.create" => \A k : k = d.id => Shown(k)' /\ Named(k)'
  BY Zenon DEF Done, Progress, DeclaredCall
<1>4. d.op = "product.update" => \A k : k = d.id => Named(k)'
  BY Zenon DEF Done, Progress, DeclaredCall
<1>5. d.op = "product.set_active" => \A k : k = d.id => (d.active <=> Shown(k)')
  BY Zenon DEF Done, Progress, DeclaredCall
<1> QED  BY <1>1, <1>2, <1>3, <1>4, <1>5, Zenon DEF Done

\* The effect of a call that Stripe accepts, made for the first time or replayed.
LEMMA CallDone ==
    ASSUME CatalogInv, NoNewCalls, spec' = spec, ProductsTyped, UniqueHolders, Stocked, Remembered,
           NEW c \in CallsOf(spec), Pending(c), Fits(c), Handle(c), Accepted(c)
    PROVE  /\ Progress /\ Done(c)'
           /\ ProductsTyped' /\ UniqueHolders' /\ Stocked' /\ Remembered'
           /\ \A d \in CallsOf(spec) : Fits(d) => Fits(d)'
<1>1. StripeTyped /\ spec \in Specs
  BY Zenon DEF CatalogInv, CatalogTyped, StripeTyped
<1>2. c.op = "price.set_active" => c.id \in DOMAIN prices
  BY Zenon DEF Fits
<1>3. /\ Moves(c) /\ Stocks(c)
      /\ c.op = "price.create" /\ IdemKey(c) \notin used => Transfers(c)
      /\ c.op = "price.set_active" /\ IdemKey(c) \notin used => ~prices'[c.id].active
      /\ IdemKey(c) \in used'
  BY <1>1, <1>2, HandleMoves, Zenon
<1>4. /\ UniqueHolders'
      /\ \A i \in DOMAIN prices :
           i \in DOMAIN prices' /\ (prices'[i].active => prices[i].active) /\ (OnSale(i)' => OnSale(i))
      /\ \A i : Stale(i)' => Stale(i)
      /\ \A d \in CallsOf(spec) : d.op = "price.create" /\ CreateFits(d) => CreateFits(d)'
  BY <1>1, <1>3, PriceProgress, Zenon
<1>5. \A key : Sellable(key) => Sellable(key)'
  BY <1>3, SellableKept, Zenon
<1>6. used \subseteq used' /\ used' \subseteq used \cup {IdemKey(c)}
  BY <1>3, Zenon DEF Moves
<1>7. /\ ProductsTyped'
      /\ \A p \in DOMAIN products : p \in DOMAIN products'
      /\ \A p \in DOMAIN spec.products :
           /\ Shown(p) => Shown(p)'
           /\ Named(p) => Named(p)'
           /\ p \in DOMAIN products' /\ p \notin DOMAIN products => Shown(p)'
      /\ \A p : p \notin DOMAIN spec.products =>
           (Shown(p)' => Shown(p)) /\ (p \in DOMAIN products' => p \in DOMAIN products)
      /\ IdemKey(c) \notin used =>
           /\ c.op = "product.create" => \A p : p = c.id => Shown(p)' /\ Named(p)'
           /\ c.op = "product.update" => \A p : p = c.id => Named(p)'
           /\ c.op = "product.set_active" => \A p : p = c.id => (c.active <=> Shown(p)')
  BY ProductProgress, Zenon
<1>8. Progress
  BY <1>4, <1>5, <1>6, <1>7, Zenon DEF Progress
<1>9. Done(c)'
  <2>1. CASE IdemKey(c) \in used
    <3>1. DeclaredCall(c)
      BY Zenon DEF Fits
    <3>2. Done(c)
      BY <2>1, <3>1, Zenon DEF Remembered
    <3> QED  BY <1>8, <3>1, <3>2, DoneKept, Zenon
  <2>2. CASE IdemKey(c) \notin used
    <3>1. c.op = "price.create" => \A k : c.key = k => Sellable(k)'
      BY <1>3, <2>2, CreatedSellable, Zenon
    <3>2. c.op = "price.set_active" => c.id \in DOMAIN prices' /\ ~prices'[c.id].active
      BY <1>2, <1>3, <1>4, <2>2, Zenon
    <3> QED  BY <1>7, <2>2, <3>1, <3>2, Zenon DEF Done
  <2> QED  BY <2>1, <2>2
<1>10. ASSUME NEW d \in CallsOf(spec), DeclaredCall(d), IdemKey(d) \in used' PROVE Done(d)'
  <2>1. CASE IdemKey(d) \in used
    <3>1. Done(d)
      BY <1>10, <2>1, Zenon DEF Remembered
    <3> QED  BY <1>8, <1>10, <3>1, DoneKept, Zenon
  <2>2. CASE IdemKey(d) = IdemKey(c)
    <3>1. /\ c.op = d.op
          /\ c.op = "price.create" => c.key = d.key
          /\ c.op # "price.create" => c.id = d.id
          /\ c.op = "product.set_active" => c.active = d.active
      BY <2>2, DoneSame, Zenon
    <3> QED  BY <1>9, <3>1, Zenon DEF Done
  <2> QED  BY <1>6, <1>10, <2>1, <2>2, Zenon
<1>11. Remembered'
  BY <1>10, Zenon DEF Remembered, DeclaredCall
<1>12. ASSUME NEW d \in CallsOf(spec), Fits(d) PROVE Fits(d)'
  <2>1. DeclaredCall(d)'
    BY <1>12, Zenon DEF Fits, DeclaredCall
  <2>2. d.op = "price.create" => CreateFits(d)'
    BY <1>4, <1>12, Zenon DEF Fits
  <2>3. d.op = "price.set_active" => d.id \in DOMAIN prices' /\ \A i : i = d.id => ~OnSale(i)'
    BY <1>4, <1>12, Zenon DEF Fits
  <2>4. d.op \in {"product.update", "product.set_active"} => d.id \in DOMAIN products'
    BY <1>7, <1>12, Zenon DEF Fits
  <2> QED  BY <2>1, <2>2, <2>3, <2>4, Zenon DEF Fits
<1>13. ASSUME NEW i \in DOMAIN prices' PROVE prices'[i].product \in DOMAIN products'
  <2>1. CASE i \in DOMAIN prices /\ prices'[i].product = prices[i].product
    BY <1>7, <2>1, Zenon DEF Stocked
  <2>2. CASE c.op = "price.create" /\ IdemKey(c) \notin used /\ prices'[i].product = c.key[1]
    <3>1. c.key[1] \in DOMAIN products
      BY <2>2, Zenon DEF Accepted, Refused, Replays
    <3> QED  BY <1>7, <2>2, <3>1, Zenon
  <2> QED  BY <1>3, <2>1, <2>2, Zenon DEF Stocks
<1>14. Stocked'
  BY <1>13, Zenon DEF Stocked
<1> QED  BY <1>4, <1>7, <1>8, <1>9, <1>11, <1>12, <1>14, Zenon

-----------------------------------------------------------------------------
\* The three ends of a call: made, made while its answer is lost, and refused or lost.
LEMMA CallEnds ==
    ASSUME NEW s \in Syncers, NEW c, c = Head(sync[s].calls),
           Call(s) \/ \E reached \in BOOLEAN : CallFails(s, reached)
    PROVE  /\ sync[s].calls # <<>> /\ clean' = clean
           /\ \/ /\ Handle(c) /\ Accepted(c)
                 /\ \/ sync' = [sync EXCEPT ![s].calls = Tail(@)]
                    \/ sync' = [sync EXCEPT ![s] = NoSync]
              \/ UNCHANGED stripeVars /\ sync' = [sync EXCEPT ![s] = NoSync]
<1>1. /\ sync[s].calls # <<>> /\ clean' = clean
      /\ \/ /\ Handle(Head(sync[s].calls)) /\ Accepted(Head(sync[s].calls))
            /\ \/ sync' = [sync EXCEPT ![s].calls = Tail(@)]
               \/ sync' = [sync EXCEPT ![s] = NoSync]
         \/ UNCHANGED stripeVars /\ sync' = [sync EXCEPT ![s] = NoSync]
  BY Zenon DEF Call, CallFails
<1>2. Handle(Head(sync[s].calls)) => Handle(c)
  BY Zenon DEF Handle, IdemKey, ProductAfter, PricesAfter
<1>3. Accepted(Head(sync[s].calls)) => Accepted(c)
  BY Zenon
<1> QED  BY <1>1, <1>2, <1>3, Zenon

\* Every call of a plan, made, refused or lost, keeps the invariant.
LEMMA SoldCall ==
    ASSUME CatalogInv, SoldInv, NEW s \in Syncers,
           Call(s) \/ \E reached \in BOOLEAN : CallFails(s, reached)
    PROVE  SoldInv'
<1>1. CatalogInv' /\ NoNewCalls /\ spec' = spec
  BY CallStep, Zenon
<1>2. PICK c : c = Head(sync[s].calls)
  OBVIOUS
<1>3. /\ sync[s].calls # <<>> /\ clean' = clean
      /\ \/ /\ Handle(c) /\ Accepted(c)
            /\ \/ sync' = [sync EXCEPT ![s].calls = Tail(@)]
               \/ sync' = [sync EXCEPT ![s] = NoSync]
         \/ UNCHANGED stripeVars /\ sync' = [sync EXCEPT ![s] = NoSync]
  BY <1>2, CallEnds, Zenon
<1>4. c \in CallsOf(spec) /\ Pending(c)
  BY <1>2, <1>3, NextCall, Zenon DEF Pending
<1>5. Fits(c) /\ ProductsTyped /\ UniqueHolders /\ Stocked /\ Remembered
  BY <1>4, Zenon DEF SoldInv
<1>6. ASSUME NEW d, Pending(d)' PROVE Pending(d) /\ d \in CallsOf(spec) /\ Fits(d)
  <2>1. Pending(d)
    <3>1. PICK t \in Syncers : \E p \in DOMAIN sync'[t].calls : sync'[t].calls[p] = d
      BY <1>6, Zenon DEF Pending
    <3>2. \A p \in DOMAIN sync'[t].calls : Pending(sync'[t].calls[p])
      BY <1>1, Zenon DEF NoNewCalls
    <3> QED  BY <3>1, <3>2, Zenon DEF Pending
  <2>2. PICK t \in Syncers : \E p \in DOMAIN sync[t].calls : sync[t].calls[p] = d
    BY <2>1, Zenon DEF Pending
  <2>3. sync[t].calls \in Seq(CallsOf(spec))
    BY DEF CatalogInv, CatalogTyped
  <2>4. d \in CallsOf(spec)
    BY <2>2, <2>3
  <2> QED  BY <2>1, <2>4, Zenon DEF SoldInv
<1>7. /\ Progress /\ ProductsTyped' /\ UniqueHolders' /\ Stocked' /\ Remembered'
      /\ \A d \in CallsOf(spec) : Fits(d) => Fits(d)'
      /\ sync' = [sync EXCEPT ![s].calls = Tail(@)] => Done(c)' \/ sync' = [sync EXCEPT ![s] = NoSync]
  <2>1. CASE Handle(c) /\ Accepted(c)
    BY <1>1, <1>4, <1>5, <2>1, CallDone, Zenon
  <2>2. CASE UNCHANGED stripeVars /\ sync' = [sync EXCEPT ![s] = NoSync]
    <3>1. products' = products /\ prices' = prices /\ used' = used
      BY <2>2, Zenon DEF stripeVars
    <3>2. Moves(c)
      BY <3>1, Zenon DEF Moves
    <3>3. \A key : Sellable(key) => Sellable(key)'
      BY <1>1, <1>4, <3>2, SellableKept, Zenon
    <3>4. \A i : /\ OnSale(i)' <=> OnSale(i)
                 /\ Stale(i)' <=> Stale(i)
                 /\ Shown(i)' <=> Shown(i)
                 /\ Named(i)' <=> Named(i)
      BY <1>1, <3>1, Zenon DEF OnSale, Stale, Shown, Named, Plain
    <3>5. Progress
      BY <3>1, <3>3, <3>4, Zenon DEF Progress
    <3>6. Remembered'
      BY <1>1, <1>5, <3>1, <3>5, DoneKept, Zenon DEF Remembered, DeclaredCall
    <3>7. ASSUME NEW d, Fits(d) PROVE Fits(d)'
      BY <1>1, <3>1, <3>4, <3>7, Zenon DEF Fits, DeclaredCall, CreateFits, Holders
    <3> QED  BY <1>5, <2>2, <3>1, <3>5, <3>6, <3>7, Zenon DEF ProductsTyped, UniqueHolders, Stocked
  <2> QED  BY <1>3, <2>1, <2>2, Zenon
<1>8. \A q : (Remains(q) => Remains(q)') /\ (NamesRemain(q) => NamesRemain(q)')
  BY <1>1, <1>7, RemainsKept, Zenon
<1>9. \A d : Pending(d)' => Fits(d)'
  BY <1>6, <1>7, Zenon
<1>10. /\ clean' \in 0 .. 2
       /\ clean' >= 1 => Remains(<<>>)'
       /\ clean' = 2 => NamesRemain(<<>>)'
  BY <1>3, <1>8, Zenon DEF SoldInv
<1>11. ASSUME NEW t \in Syncers, sync'[t].on
       PROVE  /\ sync'[t].base <= clean'
              /\ \A q : sync'[t].calls = q =>
                   Remains(q)' /\ (sync'[t].base >= 1 => NamesRemain(q)')
  <2>0. sync \in [Syncers -> [on: BOOLEAN, base: Nat, calls: Seq(CallsOf(spec))]]
    BY Zenon DEF CatalogInv, CatalogTyped
  <2>1. CASE sync'[t] = sync[t]
    BY <1>3, <1>8, <1>11, <2>1, Zenon DEF SoldInv
  <2>2. CASE t = s /\ sync' = [sync EXCEPT ![s].calls = Tail(@)]
    <3>1. sync'[t].on = sync[s].on /\ sync'[t].base = sync[s].base /\ sync'[t].calls = Tail(sync[s].calls)
      BY <2>0, <2>2
    <3>2. Done(c)'
      <4>1. sync' # [sync EXCEPT ![s] = NoSync]
        BY <1>11, <2>0, <2>2 DEF NoSync
      <4> QED  BY <1>7, <2>2, <4>1, Zenon
    <3>3. PICK r : r = sync[s].calls
      OBVIOUS
    <3>4. Remains(r) /\ (sync[s].base >= 1 => NamesRemain(r)) /\ sync[s].base <= clean
      BY <1>11, <3>1, <3>3, Zenon DEF SoldInv
    <3>5. r \in Seq(CallsOf(spec)) /\ r # <<>> /\ c = Head(r)
      BY <1>2, <1>3, <2>0, <3>3
    <3>6. /\ Remains(r) => Remains(Tail(r))'
          /\ NamesRemain(r) => NamesRemain(Tail(r))'
      BY <1>1, <1>5, <1>7, <3>2, <3>5, RemainsTail, Zenon
    <3> QED  BY <1>3, <3>1, <3>3, <3>4, <3>6, Zenon
  <2>3. CASE t = s /\ sync' = [sync EXCEPT ![s] = NoSync]
    BY <1>11, <2>0, <2>3 DEF NoSync
  <2>4. t # s => sync'[t] = sync[t]
    BY <1>3, <2>0
  <2> QED  BY <1>3, <2>1, <2>2, <2>3, <2>4, Zenon
<1> QED  BY <1>7, <1>9, <1>10, <1>11, Zenon DEF SoldInv

-----------------------------------------------------------------------------
\* An element of a sequence.
Has(q, x) == \E m \in DOMAIN q : q[m] = x

\* Nothing is left out of the sorted list.
LEMMA SortedAll ==
    ASSUME NEW S, IsFiniteSet(S), NEW x
    PROVE  Has(sortedKeys(S), x) <=> x \in S
<1>1. Cardinality(S) \in Nat /\ ExistsBijection(1 .. Cardinality(S), S)
  BY FS_CardinalityType, Zenon
<1>2. PICK f : f \in Bijection(1 .. Cardinality(S), S)
  BY <1>1, Zenon DEF ExistsBijection
<1>3. f \in [1 .. Cardinality(S) -> S] /\ IsInjective(f)
  BY <1>2, Zenon DEF Bijection, Injection, Surjection, IsInjective
<1>4. sortedKeys(S) \in [1 .. Cardinality(S) -> S] /\ IsInjective(sortedKeys(S))
  BY <1>3, Zenon DEF sortedKeys
<1>5. sortedKeys(S) \in Injection(1 .. Cardinality(S), S)
  BY <1>4, Zenon DEF Injection, IsInjective
<1>6. IsFiniteSet(1 .. Cardinality(S)) /\ Cardinality(1 .. Cardinality(S)) = Cardinality(S)
  BY <1>1, FS_Interval
<1>7. sortedKeys(S) \in Surjection(1 .. Cardinality(S), S)
  BY <1>5, <1>6, FS_Injection, Zenon
<1> QED  BY <1>4, <1>7, Zenon DEF Has, Surjection

\* A concatenation has the elements of both parts.
LEMMA ConcatHas ==
    ASSUME NEW T, NEW u \in Seq(T), NEW v \in Seq(T), NEW x
    PROVE  u \o v \in Seq(T) /\ (Has(u \o v, x) <=> Has(u, x) \/ Has(v, x))
<1> DEFINE w == u \o v
<1>1. /\ w \in Seq(T) /\ Len(u) \in Nat /\ Len(v) \in Nat
      /\ DOMAIN u = 1 .. Len(u) /\ DOMAIN v = 1 .. Len(v) /\ DOMAIN w = 1 .. (Len(u) + Len(v))
      /\ \A p \in 1 .. Len(u) : w[p] = u[p]
      /\ \A p \in 1 .. (Len(u) + Len(v)) : p \notin 1 .. Len(u) => w[p] = v[p - Len(u)]
  OBVIOUS
<1> HIDE DEF w
<1>2. ASSUME NEW p \in DOMAIN w PROVE Has(u, w[p]) \/ Has(v, w[p])
  <2>1. CASE p \in 1 .. Len(u)
    BY <1>1, <2>1, Zenon DEF Has
  <2>2. CASE p \notin 1 .. Len(u)
    <3>1. p - Len(u) \in DOMAIN v /\ w[p] = v[p - Len(u)]
      BY <1>1, <2>2
    <3> QED  BY <3>1, Zenon DEF Has
  <2> QED  BY <2>1, <2>2
<1>3. ASSUME NEW p \in DOMAIN u PROVE p \in DOMAIN w /\ w[p] = u[p]
  BY <1>1
<1>4. ASSUME NEW p \in DOMAIN v PROVE p + Len(u) \in DOMAIN w /\ w[p + Len(u)] = v[p]
  <2>1. p + Len(u) \in 1 .. (Len(u) + Len(v)) /\ p + Len(u) \notin 1 .. Len(u) /\ p + Len(u) - Len(u) = p
    BY <1>1
  <2>2. PICK n : n = p + Len(u)
    OBVIOUS
  <2>3. n \in 1 .. (Len(u) + Len(v)) /\ n \notin 1 .. Len(u) /\ n - Len(u) = p
    BY <2>1, <2>2
  <2>4. n \in DOMAIN w /\ w[n] = v[p]
    BY <1>1, <2>3, Zenon
  <2> QED  BY <2>2, <2>4, Zenon
<1>5. Has(w, x) <=> Has(u, x) \/ Has(v, x)
  BY <1>2, <1>3, <1>4, Zenon DEF Has
<1> QED  BY <1>1, <1>5 DEF w

\* A replaced price is succeeded, then archived.
LEMMA ReplaceHas ==
    ASSUME CatalogTyped, NEW x
    PROVE  Has(ReplacePrices(spec), x) <=>
             \E i \in Replaced(spec) :
                x = NewPrice(spec, prices[i].key, TRUE) \/ x = SetPriceInactive(i)
<1> DEFINE ids == sortedKeys(Replaced(spec))
           q == ReplacePrices(spec)
           new(i) == NewPrice(spec, prices[i].key, TRUE)
<1>1. ids \in Seq(Replaced(spec)) /\ \A i : Has(ids, i) <=> i \in Replaced(spec)
  BY PlanFinite, SortedOf, SortedAll, Zenon
<1>2. q = [n \in 1 .. 2 * Len(ids) |->
              Replace(spec, prices[ids[(n + 1) \div 2]].key, ids[(n + 1) \div 2])
                 [IF n = 2 * ((n + 1) \div 2) THEN 2 ELSE 1]]
  BY Zenon DEF ReplacePrices
<1> HIDE DEF ids, q
<1>3. Len(ids) \in Nat /\ DOMAIN ids = 1 .. Len(ids)
  BY <1>1
<1>4. \A i : /\ Replace(spec, prices[i].key, i)[1] = new(i)
             /\ Replace(spec, prices[i].key, i)[2] = SetPriceInactive(i)
  BY DEF Replace
<1> HIDE DEF new
<1>5. ASSUME NEW n \in DOMAIN q
      PROVE  \E i \in Replaced(spec) : q[n] = new(i) \/ q[n] = SetPriceInactive(i)
  <2> DEFINE k == (n + 1) \div 2
  <2>1. n \in 1 .. 2 * Len(ids)
    BY <1>2
  <2>2. k \in DOMAIN ids
    BY <1>3, <2>1
  <2>3. q[n] = Replace(spec, prices[ids[k]].key, ids[k])[IF n = 2 * k THEN 2 ELSE 1]
    BY <1>2, <2>1, Zenon
  <2>4. ids[k] \in Replaced(spec)
    BY <1>1, <2>2, Zenon DEF Has
  <2> HIDE DEF k
  <2> QED  BY <1>4, <2>3, <2>4, Zenon
<1>6. ASSUME NEW i \in Replaced(spec) PROVE Has(q, new(i)) /\ Has(q, SetPriceInactive(i))
  <2>1. PICK k \in DOMAIN ids : ids[k] = i
    BY <1>1, Zenon DEF Has
  <2>2. /\ 2 * k \in 1 .. 2 * Len(ids) /\ (2 * k + 1) \div 2 = k
        /\ 2 * k - 1 \in 1 .. 2 * Len(ids) /\ (2 * k - 1 + 1) \div 2 = k /\ 2 * k - 1 # 2 * k
    <3>1. Len(ids) \in Nat /\ k \in Nat /\ 1 <= k /\ k <= Len(ids)
      BY <1>3
    <3>2. \A a \in Nat : (2 * a + 1) \div 2 = a /\ (2 * a - 1 + 1) \div 2 = a
      OBVIOUS
    <3> QED  BY <3>1, <3>2
  <2>3. 2 * k \in DOMAIN q /\ q[2 * k] = SetPriceInactive(i)
    BY <1>2, <1>4, <2>1, <2>2, Zenon
  <2>4. 2 * k - 1 \in DOMAIN q /\ q[2 * k - 1] = new(i)
    <3>1. PICK n : n = 2 * k - 1
      OBVIOUS
    <3>2. n \in 1 .. 2 * Len(ids) /\ (n + 1) \div 2 = k /\ n # 2 * k
      BY <2>2, <3>1
    <3>3. n \in DOMAIN q /\ q[n] = new(i)
      BY <1>2, <1>4, <2>1, <3>2, Zenon
    <3> QED  BY <3>1, <3>3, Zenon
  <2> QED  BY <2>3, <2>4, Zenon DEF Has
<1>7. Has(q, x) <=> \E i \in Replaced(spec) : x = new(i) \/ x = SetPriceInactive(i)
  BY <1>5, <1>6, Zenon DEF Has
<1> QED  BY <1>7 DEF q, new

\* A plan is exactly its items.
LEMMA ApplyHas ==
    ASSUME CatalogTyped, NEW x
    PROVE  Has(Apply(spec), x) <=>
             \/ x \in CreateProducts(spec) \/ x \in UnarchiveProducts(spec)
             \/ x \in UpdateProducts(spec) \/ x \in CreatePrices(spec)
             \/ \E i \in Replaced(spec) :
                  x = NewPrice(spec, prices[i].key, TRUE) \/ x = SetPriceInactive(i)
             \/ x \in ArchivePrices(spec) \/ x \in ArchiveProducts(spec)
             \/ x \in CreateMeters(spec) \/ x \in ArchiveMeters(spec)
<1> DEFINE T == CallsOf(spec)
           q1 == sortedKeys(CreateProducts(spec))   q2 == sortedKeys(UnarchiveProducts(spec))
           q3 == sortedKeys(UpdateProducts(spec))   q4 == sortedKeys(CreatePrices(spec))
           q5 == ReplacePrices(spec)
           q6 == sortedKeys(ArchivePrices(spec))    q7 == sortedKeys(ArchiveProducts(spec))
           q8 == sortedKeys(CreateMeters(spec))     q9 == sortedKeys(ArchiveMeters(spec))
<1>1. ASSUME NEW S, IsFiniteSet(S), S \in SUBSET T
      PROVE  sortedKeys(S) \in Seq(T)
  <2> HIDE DEF T
  <2>1. sortedKeys(S) \in Seq(S)
    BY <1>1, SortedOf, Zenon
  <2> QED  BY <1>1, <2>1
<1> HIDE DEF T
<1>2. /\ q1 \in Seq(T) /\ q2 \in Seq(T) /\ q3 \in Seq(T) /\ q4 \in Seq(T)
      /\ q6 \in Seq(T) /\ q7 \in Seq(T) /\ q8 \in Seq(T) /\ q9 \in Seq(T)
  BY <1>1, PlanFinite, PlanTyped, Zenon DEF T
<1>3. q5 \in Seq(T)
  BY PlannedReplace, Zenon DEF T
<1>4. /\ Has(q1, x) <=> x \in CreateProducts(spec)
      /\ Has(q2, x) <=> x \in UnarchiveProducts(spec)
      /\ Has(q3, x) <=> x \in UpdateProducts(spec)
      /\ Has(q4, x) <=> x \in CreatePrices(spec)
      /\ Has(q6, x) <=> x \in ArchivePrices(spec)
      /\ Has(q7, x) <=> x \in ArchiveProducts(spec)
      /\ Has(q8, x) <=> x \in CreateMeters(spec)
      /\ Has(q9, x) <=> x \in ArchiveMeters(spec)
  BY PlanFinite, SortedAll, Zenon
<1>5. Has(q5, x) <=> \E i \in Replaced(spec) :
                       x = NewPrice(spec, prices[i].key, TRUE) \/ x = SetPriceInactive(i)
  BY ReplaceHas, Zenon
<1>6. \A u, v \in Seq(T) : u \o v \in Seq(T) /\ (Has(u \o v, x) <=> Has(u, x) \/ Has(v, x))
  BY ConcatHas, Zenon
<1>7. Apply(spec) = q1 \o q2 \o q3 \o q4 \o q5 \o q6 \o q7 \o q8 \o q9
  BY Zenon DEF Apply
<1> HIDE DEF q1, q2, q3, q4, q5, q6, q7, q8, q9
<1>8. PICK r2 : r2 = q1 \o q2
  OBVIOUS
<1>9. r2 \in Seq(T) /\ (Has(r2, x) <=> Has(q1, x) \/ Has(q2, x))
  BY <1>2, <1>6, <1>8, Zenon
<1>10. PICK r3 : r3 = r2 \o q3
  OBVIOUS
<1>11. r3 \in Seq(T) /\ (Has(r3, x) <=> Has(r2, x) \/ Has(q3, x))
  BY <1>2, <1>6, <1>9, <1>10, Zenon
<1>12. PICK r4 : r4 = r3 \o q4
  OBVIOUS
<1>13. r4 \in Seq(T) /\ (Has(r4, x) <=> Has(r3, x) \/ Has(q4, x))
  BY <1>2, <1>6, <1>11, <1>12, Zenon
<1>14. PICK r5 : r5 = r4 \o q5
  OBVIOUS
<1>15. r5 \in Seq(T) /\ (Has(r5, x) <=> Has(r4, x) \/ Has(q5, x))
  BY <1>3, <1>6, <1>13, <1>14, Zenon
<1>16. PICK r6 : r6 = r5 \o q6
  OBVIOUS
<1>17. r6 \in Seq(T) /\ (Has(r6, x) <=> Has(r5, x) \/ Has(q6, x))
  BY <1>2, <1>6, <1>15, <1>16, Zenon
<1>18. PICK r7 : r7 = r6 \o q7
  OBVIOUS
<1>19. r7 \in Seq(T) /\ (Has(r7, x) <=> Has(r6, x) \/ Has(q7, x))
  BY <1>2, <1>6, <1>17, <1>18, Zenon
<1>20. PICK r8 : r8 = r7 \o q8
  OBVIOUS
<1>21. r8 \in Seq(T) /\ (Has(r8, x) <=> Has(r7, x) \/ Has(q8, x))
  BY <1>2, <1>6, <1>19, <1>20, Zenon
<1>22. PICK r9 : r9 = r8 \o q9
  OBVIOUS
<1>23. r9 \in Seq(T) /\ (Has(r9, x) <=> Has(r8, x) \/ Has(q9, x))
  BY <1>2, <1>6, <1>21, <1>22, Zenon
<1>24. Apply(spec) = r9
  BY <1>7, <1>8, <1>10, <1>12, <1>14, <1>16, <1>18, <1>20, <1>22, Zenon
<1>25. Has(Apply(spec), x) <=>
         \/ Has(q1, x) \/ Has(q2, x) \/ Has(q3, x) \/ Has(q4, x) \/ Has(q5, x)
         \/ Has(q6, x) \/ Has(q7, x) \/ Has(q8, x) \/ Has(q9, x)
  BY <1>9, <1>11, <1>13, <1>15, <1>17, <1>19, <1>21, <1>23, <1>24, Zenon
<1> QED  BY <1>4, <1>5, <1>25, Zenon

\* A replaced price is not on sale.
LEMMA ReplacedNotOnSale ==
    ASSUME NEW i \in Replaced(spec)
    PROVE  i \in DOMAIN prices /\ prices[i].key \in AllLookupKeys(spec) /\ ~OnSale(i)
<1>1. /\ i \in DOMAIN prices /\ prices[i].key \in AllLookupKeys(spec)
      /\ priceNeedsReplace(spec, prices[i].key, prices[i])
  BY Zenon DEF Replaced
<1> QED  BY <1>1, Zenon DEF priceNeedsReplace, OnSale

\* A plan fits the listing it is made from.
LEMMA PlanFits ==
    ASSUME CatalogTyped, NEW x, Has(Apply(spec), x)
    PROVE  Fits(x)
<1>1. CASE x \in CreateProducts(spec)
  <2>1. PICK p \in DOMAIN spec.products : x = [op |-> "product.create", id |-> p, new |-> spec.products[p]]
    BY <1>1, Zenon DEF CreateProducts
  <2>2. x.op = "product.create" /\ x.id = p /\ x.new = spec.products[p]
    BY <2>1
  <2> QED  BY <2>2 DEF Fits, DeclaredCall
<1>2. CASE x \in UnarchiveProducts(spec)
  <2>1. PICK p \in DOMAIN spec.products \cap DOMAIN products :
          x = [op |-> "product.set_active", id |-> p, active |-> TRUE]
    BY <1>2, Zenon DEF UnarchiveProducts
  <2>2. x.op = "product.set_active" /\ x.id = p /\ x.active = TRUE
    BY <2>1
  <2>3. DeclaredCall(x)
    <3>1. x.op \notin {"product.create", "product.update"}
      BY <2>2
    <3>2. x.active <=> x.id \in DOMAIN spec.products
      BY <2>1, <2>2, Zenon
    <3> QED  BY <3>1, <3>2, Zenon DEF DeclaredCall
  <2> QED  BY <2>1, <2>2, <2>3 DEF Fits
<1>3. CASE x \in UpdateProducts(spec)
  <2>1. PICK p \in DOMAIN spec.products \cap DOMAIN products :
          x = [op |-> "product.update", id |-> p, new |-> spec.products[p]]
    BY <1>3, Zenon DEF UpdateProducts
  <2>2. x.op = "product.update" /\ x.id = p /\ x.new = spec.products[p]
    BY <2>1
  <2> QED  BY <2>1, <2>2 DEF Fits, DeclaredCall
<1>4. CASE x \in CreatePrices(spec)
  <2>1. PICK key \in AllLookupKeys(spec) : x = NewPrice(spec, key, FALSE) /\ Holders(key) = {}
    BY <1>4, Zenon DEF CreatePrices
  <2>2. x.op = "price.create" /\ x.key = key /\ x.transfer = FALSE
    BY <2>1 DEF NewPrice
  <2>3. CreateFits(x)
    BY <2>1, <2>2, Zenon DEF CreateFits
  <2> QED  BY <2>2, <2>3 DEF Fits, DeclaredCall
<1>5. ASSUME NEW i \in Replaced(spec), x = NewPrice(spec, prices[i].key, TRUE) PROVE Fits(x)
  <2>1. x.op = "price.create" /\ x.key = prices[i].key /\ x.transfer = TRUE
    BY <1>5 DEF NewPrice
  <2>2. CreateFits(x)
    BY <2>1, ReplacedNotOnSale, Zenon DEF CreateFits, Holders
  <2> QED  BY <2>1, <2>2 DEF Fits, DeclaredCall
<1>6. ASSUME NEW i \in DOMAIN prices, ~OnSale(i), x = SetPriceInactive(i) PROVE Fits(x)
  <2>1. x.op = "price.set_active" /\ x.id = i
    BY <1>6 DEF SetPriceInactive
  <2> QED  BY <1>6, <2>1 DEF Fits, DeclaredCall
<1>7. CASE x \in ArchivePrices(spec)
  <2>1. PICK i \in DOMAIN prices : x = SetPriceInactive(i) /\ prices[i].key \notin AllLookupKeys(spec)
    BY <1>7, Zenon DEF ArchivePrices
  <2>2. ~OnSale(i)
    BY <2>1, Zenon DEF OnSale
  <2> QED  BY <1>6, <2>1, <2>2, Zenon
<1>8. CASE x \in ArchiveProducts(spec)
  <2>1. PICK p \in DOMAIN products \ DOMAIN spec.products :
          x = [op |-> "product.set_active", id |-> p, active |-> FALSE]
    BY <1>8, Zenon DEF ArchiveProducts, Walked
  <2>2. x.op = "product.set_active" /\ x.id = p /\ x.active = FALSE
    BY <2>1
  <2>3. DeclaredCall(x)
    <3>1. x.op \notin {"product.create", "product.update"}
      BY <2>2
    <3>2. x.active <=> x.id \in DOMAIN spec.products
      BY <2>1, <2>2, Zenon
    <3> QED  BY <3>1, <3>2, Zenon DEF DeclaredCall
  <2> QED  BY <2>1, <2>2, <2>3 DEF Fits
<1>9. CASE x \in CreateMeters(spec) \/ x \in ArchiveMeters(spec)
  <2>1. x.op \in {"meter.create", "meter.archive"}
    BY <1>9 DEF CreateMeters, ArchiveMeters
  <2> QED  BY <2>1 DEF Fits, DeclaredCall
<1> QED  BY <1>1, <1>2, <1>3, <1>4, <1>5, <1>6, <1>7, <1>8, <1>9, ApplyHas, ReplacedNotOnSale, Zenon

\* In a namespace of one word the suffix of a product id is its key.
LEMMA AllWalked ==
    ASSUME CatalogTyped, Plain
    PROVE  Walked(spec) = DOMAIN products
<1>1. Tail(spec.namespace) = <<>>
  <2>1. spec.namespace \in Seq(STRING) /\ Len(spec.namespace) = 1
    BY SpecsAssumption, Zenon DEF CatalogTyped, Plain
  <2> QED  BY <2>1
<1>2. ASSUME NEW p \in DOMAIN products PROVE stripeProductSuffix(spec, p) = p
  <2>1. p \in Seq(STRING)
    <3>1. PICK s \in Specs : p \in DOMAIN s.products
      BY Zenon DEF CatalogTyped, ProductKeys
    <3> QED  BY <3>1, SpecsAssumption, Zenon
  <2>2. <<>> \o p = p
    BY <2>1
  <2> QED  BY <1>1, <2>2, Zenon DEF stripeProductSuffix
<1> QED  BY <1>2, Zenon DEF Walked

\* A plan covers every difference in the listing it is made from; a product's name only
\* when the product is active.
LEMMA PlanCovers ==
    ASSUME CatalogTyped, ProductsTyped, Stocked, NEW q, q = Apply(spec)
    PROVE  /\ \A key \in AllLookupKeys(spec) :
                (\E i \in DOMAIN prices : prices[i].key = key /\ OnSale(i)) \/ Creates(q, key)
           /\ \A i : Stale(i) => HasCall(q, "price.set_active", i)
           /\ \A p \in DOMAIN spec.products : p \in DOMAIN products \/ HasCall(q, "product.create", p)
           /\ \A p \in DOMAIN products : Listed(p) \/ HasCall(q, "product.set_active", p)
           /\ \A p \in DOMAIN spec.products :
                Shown(p) => Named(p) \/ HasCall(q, "product.update", p)
<1>0. \A x : \/ x \in CreateProducts(spec) \/ x \in UnarchiveProducts(spec)
             \/ x \in UpdateProducts(spec) \/ x \in CreatePrices(spec)
             \/ \E i \in Replaced(spec) :
                  x = NewPrice(spec, prices[i].key, TRUE) \/ x = SetPriceInactive(i)
             \/ x \in ArchivePrices(spec) \/ x \in ArchiveProducts(spec)
             => Has(q, x)
  BY ApplyHas, Zenon
<1>1. \A x : Has(q, x) => /\ \A id : x.id = id => HasCall(q, x.op, id)
                          /\ x.op = "price.create" => Creates(q, x.key)
  BY Zenon DEF Has, HasCall, Creates
<1>2. ASSUME NEW key \in AllLookupKeys(spec)
      PROVE  (\E i \in DOMAIN prices : prices[i].key = key /\ OnSale(i)) \/ Creates(q, key)
  <2>0. \A b \in BOOLEAN : NewPrice(spec, key, b).op = "price.create" /\ NewPrice(spec, key, b).key = key
    BY DEF NewPrice
  <2>1. CASE Holders(key) = {}
    <3>1. NewPrice(spec, key, FALSE) \in CreatePrices(spec)
      BY <2>1, Zenon DEF CreatePrices
    <3> QED  BY <1>0, <1>1, <2>0, <3>1, Zenon
  <2>2. ASSUME NEW i \in DOMAIN prices, prices[i].key = key
        PROVE  OnSale(i) \/ Creates(q, key)
    <3>1. CASE i \in Replaced(spec)
      <4>1. Has(q, NewPrice(spec, key, TRUE))
        BY <1>0, <2>2, <3>1, Zenon
      <4> QED  BY <1>1, <2>0, <4>1, Zenon
    <3>2. CASE i \notin Replaced(spec)
      BY <2>2, <3>2, Zenon DEF Replaced, priceNeedsReplace, OnSale
    <3> QED  BY <3>1, <3>2
  <2> QED  BY <2>1, <2>2, Zenon DEF Holders
<1>w. Plain => Walked(spec) = DOMAIN products
  BY AllWalked, Zenon
<1>3. ASSUME NEW i, Stale(i) PROVE HasCall(q, "price.set_active", i)
  <2>1. Plain /\ i \in DOMAIN prices /\ prices[i].active /\ ~OnSale(i)
    BY <1>3, Zenon DEF Stale
  <2>2. SetPriceInactive(i).op = "price.set_active" /\ SetPriceInactive(i).id = i
    BY DEF SetPriceInactive
  <2>3. CASE prices[i].key \in AllLookupKeys(spec)
    <3>1. i \in Replaced(spec)
      BY <2>1, <2>3, Zenon DEF Replaced, priceNeedsReplace, OnSale
    <3> QED  BY <1>0, <1>1, <2>2, <3>1, Zenon
  <2>4. CASE prices[i].key \notin AllLookupKeys(spec)
    <3>1. SetPriceInactive(i) \in ArchivePrices(spec)
      BY <1>w, <2>1, <2>4, Zenon DEF ArchivePrices, Stocked
    <3> QED  BY <1>0, <1>1, <2>2, <3>1, Zenon
  <2> QED  BY <2>3, <2>4
<1>4. ASSUME NEW p \in DOMAIN spec.products, p \notin DOMAIN products
      PROVE  HasCall(q, "product.create", p)
  <2> DEFINE x == [op |-> "product.create", id |-> p, new |-> spec.products[p]]
  <2>1. x \in CreateProducts(spec)
    BY <1>4, Zenon DEF CreateProducts
  <2>2. x.op = "product.create" /\ x.id = p
    OBVIOUS
  <2> HIDE DEF x
  <2> QED  BY <1>0, <1>1, <2>1, <2>2, Zenon
<1>5. ASSUME NEW p \in DOMAIN products, ~Listed(p)
      PROVE  HasCall(q, "product.set_active", p)
  <2> DEFINE x(b) == [op |-> "product.set_active", id |-> p, active |-> b]
  <2>1. x(TRUE) \in UnarchiveProducts(spec) \/ x(FALSE) \in ArchiveProducts(spec)
    <3>1. CASE p \in DOMAIN spec.products
      BY <1>5, <3>1, Zenon DEF UnarchiveProducts, Shown, Listed
    <3>2. CASE p \notin DOMAIN spec.products
      BY <1>w, <1>5, <3>2, Zenon DEF ArchiveProducts, Shown, Listed
    <3> QED  BY <3>1, <3>2
  <2>2. \A b \in BOOLEAN : x(b).op = "product.set_active" /\ x(b).id = p
    OBVIOUS
  <2> HIDE DEF x
  <2> QED  BY <1>0, <1>1, <2>1, <2>2, Zenon
<1>6. ASSUME NEW p \in DOMAIN spec.products, Shown(p), ~Named(p)
      PROVE  HasCall(q, "product.update", p)
  <2> DEFINE x == [op |-> "product.update", id |-> p, new |-> spec.products[p]]
  <2>1. x \in UpdateProducts(spec)
    BY <1>6, Zenon DEF UpdateProducts, productNeedsUpdate, Shown, Named
  <2>2. x.op = "product.update" /\ x.id = p
    OBVIOUS
  <2> HIDE DEF x
  <2> QED  BY <1>0, <1>1, <2>1, <2>2, Zenon
<1> QED  BY <1>2, <1>3, <1>4, <1>5, <1>6, Zenon

-----------------------------------------------------------------------------
\* What is known of Stripe lasts while nothing is written and no plan is made.
LEMMA NothingWritten ==
    ASSUME SoldInv, spec' = spec, products' = products, prices' = prices,
           \A t \in Syncers : sync'[t].calls = sync[t].calls
    PROVE  /\ ProductsTyped' /\ UniqueHolders' /\ Stocked'
           /\ used' = used \/ used' = {} => Remembered'
           /\ used' = used => \A d : Pending(d)' => Fits(d)'
           /\ \A q : (Remains(q) => Remains(q)') /\ (NamesRemain(q) => NamesRemain(q)')
<1>1. \A i : /\ OnSale(i)' <=> OnSale(i)
             /\ Stale(i)' <=> Stale(i)
             /\ Shown(i)' <=> Shown(i)
             /\ Named(i)' <=> Named(i)
             /\ Listed(i)' <=> Listed(i)
  BY Zenon DEF OnSale, Stale, Shown, Named, Listed, Plain
<1>2. \A key : Sellable(key) => Sellable(key)'
  BY Zenon DEF Sellable
<1>3. \A d : Pending(d)' => Pending(d)
  BY Zenon DEF Pending
<1>4. ProductsTyped' /\ UniqueHolders' /\ Stocked'
  BY Zenon DEF SoldInv, ProductsTyped, UniqueHolders, Stocked
<1>5. \A q : (Remains(q) => Remains(q)') /\ (NamesRemain(q) => NamesRemain(q)')
  BY <1>1, <1>2, Zenon DEF Remains, NamesRemain, HasCall, Creates
<1>6. \A d : DeclaredCall(d)' => DeclaredCall(d)
  BY Zenon DEF DeclaredCall
<1>7. \A d : Done(d) => Done(d)'
  BY <1>1, <1>2, Zenon DEF Done
<1>8. used' = used \/ used' = {} => Remembered'
  BY <1>6, <1>7, Zenon DEF Remembered, SoldInv
<1>9. ASSUME used' = used, NEW d, Pending(d)' PROVE Fits(d)'
  <2>1. Fits(d)
    BY <1>3, <1>9, Zenon DEF SoldInv
  <2> QED  BY <1>1, <1>9, <2>1, Zenon DEF Fits, DeclaredCall, CreateFits, Holders
<1> QED  BY <1>4, <1>5, <1>8, <1>9, Zenon

\* With no sync running and Stripe's keys expired there is nothing to keep.
LEMMA SoldIdle ==
    ASSUME ProductsTyped', UniqueHolders', Stocked', used' = {}, clean' = 0,
           \A t \in Syncers : ~sync'[t].on /\ sync'[t].calls = <<>>
    PROVE  SoldInv'
<1>1. Remembered'
  BY Zenon DEF Remembered
<1>2. \A d : ~Pending(d)'
  BY DEF Pending
<1>3. clean' \in 0 .. 2 /\ ~(clean' >= 1) /\ clean' # 2
  OBVIOUS
<1> QED  BY <1>1, <1>2, <1>3, Zenon DEF SoldInv

\* A new plan covers all that differs, and archives nothing that is on sale.
LEMMA SoldDrift ==
    ASSUME CatalogInv, SoldInv, NEW s \in Syncers, CheckDrift(s)
    PROVE  SoldInv'
<1>1. CatalogTyped /\ ProductsTyped /\ UniqueHolders /\ Stocked /\ Remembered
  BY Zenon DEF CatalogInv, SoldInv
<1>2. PICK q : q = Apply(spec)
  OBVIOUS
<1>3. /\ sync' = [sync EXCEPT ![s] = [on |-> TRUE, base |-> clean, calls |-> q]]
      /\ spec' = spec /\ products' = products /\ prices' = prices /\ used' = used /\ clean' = clean
  BY <1>2, Zenon DEF CheckDrift, stripeVars
<1>4. /\ sync'[s].calls = q /\ sync'[s].base = clean
      /\ \A t \in Syncers \ {s} : sync'[t] = sync[t]
  <2>1. sync \in [Syncers -> [on: BOOLEAN, base: Nat, calls: Seq(CallsOf(spec))]]
    BY <1>1, Zenon DEF CatalogTyped
  <2> QED  BY <1>3, <2>1
<1>5. ASSUME NEW d, Pending(d)' PROVE Fits(d)
  <2>1. PICK t \in Syncers : \E p \in DOMAIN sync'[t].calls : sync'[t].calls[p] = d
    BY <1>5, Zenon DEF Pending
  <2>2. CASE t = s
    <3>1. Has(Apply(spec), d)
      BY <1>2, <1>4, <2>1, <2>2, Zenon DEF Has
    <3> QED  BY <1>1, <3>1, PlanFits, Zenon
  <2>3. CASE t # s
    <3>1. Pending(d)
      BY <1>4, <2>1, <2>3, Zenon DEF Pending
    <3> QED  BY <3>1, Zenon DEF SoldInv
  <2> QED  BY <2>2, <2>3
<1>6. \A i : /\ OnSale(i)' <=> OnSale(i)
             /\ Stale(i)' <=> Stale(i)
             /\ Shown(i)' <=> Shown(i)
             /\ Named(i)' <=> Named(i)
             /\ Listed(i)' <=> Listed(i)
  BY <1>3, Zenon DEF OnSale, Stale, Shown, Named, Listed, Plain
<1>7. ASSUME NEW i \in DOMAIN prices, OnSale(i), NEW key, prices[i].key = key PROVE Sellable(key)'
  <2>1. ASSUME NEW t \in Syncers, NEW p \in DOMAIN sync'[t].calls
        PROVE  ~Archives(sync'[t].calls[p], i)
    <3>1. PICK d : d = sync'[t].calls[p]
      OBVIOUS
    <3>2. Fits(d)
      BY <1>5, <3>1, Zenon DEF Pending
    <3> QED  BY <1>7, <3>1, <3>2, Zenon DEF Archives, Fits
  <2>2. prices[i].active /\ prices[i].amount = Amount(spec, key)
    BY <1>7, Zenon DEF OnSale
  <2> QED  BY <1>3, <1>7, <2>1, <2>2, Zenon DEF Sellable
<1>8. ASSUME NEW key \in AllLookupKeys(spec), Sellable(key) PROVE Sellable(key)'
  <2>1. PICK i \in DOMAIN prices :
          prices[i].key = key /\ prices[i].active /\ prices[i].amount = Amount(spec, key)
    BY <1>8, Zenon DEF Sellable
  <2>2. OnSale(i)
    BY <2>1, Zenon DEF OnSale
  <2> QED  BY <1>7, <2>1, <2>2, Zenon
<1>9. Progress
  BY <1>3, <1>6, <1>8, Zenon DEF Progress
<1>10. \A r : (Remains(r) => Remains(r)') /\ (NamesRemain(r) => NamesRemain(r)')
  BY <1>3, <1>9, RemainsKept, Zenon
<1>11. Remembered'
  BY <1>1, <1>3, <1>9, DoneKept, Zenon DEF Remembered, DeclaredCall
<1>12. ASSUME NEW d, Pending(d)' PROVE Fits(d)'
  <2>1. Fits(d)
    BY <1>5, <1>12
  <2> QED  BY <1>3, <1>6, <2>1, Zenon DEF Fits, DeclaredCall, CreateFits, Holders
<1>13. /\ \A key \in AllLookupKeys(spec) :
            (\E i \in DOMAIN prices : prices[i].key = key /\ OnSale(i)) \/ Creates(q, key)
       /\ \A i : Stale(i) => HasCall(q, "price.set_active", i)
       /\ \A p \in DOMAIN spec.products : p \in DOMAIN products \/ HasCall(q, "product.create", p)
       /\ \A p \in DOMAIN products : Listed(p) \/ HasCall(q, "product.set_active", p)
       /\ \A p \in DOMAIN spec.products :
            Shown(p) => Named(p) \/ HasCall(q, "product.update", p)
  BY <1>1, <1>2, PlanCovers, Zenon
<1>14. Remains(q)'
  <2>1. \A key \in AllLookupKeys(spec') : Sellable(key)' \/ Creates(q, key)
    BY <1>3, <1>7, <1>13, Zenon
  <2>2. \A i : Stale(i)' => HasCall(q, "price.set_active", i)
    BY <1>6, <1>13, Zenon
  <2>3. \A p \in DOMAIN products' : Listed(p)' \/ HasCall(q, "product.set_active", p)
    BY <1>3, <1>6, <1>13, Zenon
  <2> QED  BY <1>3, <1>13, <2>1, <2>2, <2>3, Zenon DEF Remains, HasCall, Creates
<1>15. ASSUME clean >= 1 PROVE NamesRemain(q)'
  <2>1. Remains(<<>>)
    BY <1>15, Zenon DEF SoldInv
  <2>2. \A op, id : ~HasCall(<<>>, op, id)
    BY DEF HasCall
  <2>3. \A p \in DOMAIN spec.products : Shown(p)
    BY <2>1, <2>2, Zenon DEF Remains, Listed
  <2> QED  BY <1>3, <1>6, <1>13, <2>3, Zenon DEF NamesRemain, HasCall
<1>16. ASSUME NEW t \in Syncers, sync'[t].on
       PROVE  /\ sync'[t].base <= clean'
              /\ \A r : sync'[t].calls = r =>
                   Remains(r)' /\ (sync'[t].base >= 1 => NamesRemain(r)')
  <2>1. CASE t = s
    <3>1. clean <= clean
      BY <1>1 DEF CatalogTyped
    <3> QED  BY <1>3, <1>4, <1>14, <1>15, <2>1, <3>1, Zenon
  <2>2. CASE t # s
    BY <1>3, <1>4, <1>10, <1>16, <2>2, Zenon DEF SoldInv
  <2> QED  BY <2>1, <2>2
<1>17. /\ clean' \in 0 .. 2
       /\ clean' >= 1 => Remains(<<>>)'
       /\ clean' = 2 => NamesRemain(<<>>)'
  BY <1>3, <1>10, Zenon DEF SoldInv
<1>18. ProductsTyped' /\ UniqueHolders' /\ Stocked'
  BY <1>1, <1>3, Zenon DEF ProductsTyped, UniqueHolders, Stocked
<1> QED  BY <1>11, <1>12, <1>16, <1>17, <1>18, Zenon DEF SoldInv

\* A complete sync leaves nothing to do; one that began after a complete sync leaves no
\* name to correct either.
LEMMA SoldFinish ==
    ASSUME CatalogInv, SoldInv, NEW s \in Syncers, Finish(s)
    PROVE  SoldInv'
<1>1. /\ sync[s].on /\ sync[s].calls = <<>> /\ sync' = [sync EXCEPT ![s] = NoSync]
      /\ clean' = (IF clean = 2 THEN 2 ELSE sync[s].base + 1)
      /\ spec' = spec /\ products' = products /\ prices' = prices /\ used' = used
  BY Zenon DEF Finish, stripeVars
<1>2. sync \in [Syncers -> [on: BOOLEAN, base: Nat, calls: Seq(CallsOf(spec))]]
  BY Zenon DEF CatalogInv, CatalogTyped
<1>3. /\ ~sync'[s].on /\ sync'[s].calls = <<>>
      /\ \A t \in Syncers \ {s} : sync'[t] = sync[t]
  BY <1>1, <1>2 DEF NoSync
<1>4. \A t \in Syncers : sync'[t].calls = sync[t].calls
  BY <1>1, <1>3, Zenon
<1>5. /\ ProductsTyped' /\ UniqueHolders' /\ Stocked' /\ Remembered'
      /\ \A d : Pending(d)' => Fits(d)'
      /\ \A q : (Remains(q) => Remains(q)') /\ (NamesRemain(q) => NamesRemain(q)')
  BY <1>1, <1>4, NothingWritten, Zenon
<1>6. /\ clean \in 0 .. 2 /\ (clean = 2 => NamesRemain(<<>>))
      /\ sync[s].base <= clean /\ Remains(<<>>) /\ (sync[s].base >= 1 => NamesRemain(<<>>))
  BY <1>1, Zenon DEF SoldInv
<1>7. /\ clean' \in 0 .. 2 /\ clean <= clean'
      /\ clean' = 2 => clean = 2 \/ sync[s].base >= 1
  <2>1. sync[s].base \in Nat
    BY <1>2
  <2> QED  BY <1>1, <1>6, <2>1
<1>8. ASSUME NEW t \in Syncers, sync'[t].on
      PROVE  /\ sync'[t].base <= clean'
             /\ \A q : sync'[t].calls = q =>
                  Remains(q)' /\ (sync'[t].base >= 1 => NamesRemain(q)')
  <2>1. t # s /\ sync'[t] = sync[t]
    BY <1>3, <1>8, Zenon
  <2>2. sync[t].base <= clean'
    <3>1. sync[t].base \in Nat /\ sync[t].base <= clean
      BY <1>2, <1>8, <2>1 DEF SoldInv
    <3> QED  BY <1>6, <1>7, <3>1
  <2> QED  BY <1>5, <1>8, <2>1, <2>2, Zenon DEF SoldInv
<1> QED  BY <1>5, <1>6, <1>7, <1>8, Zenon DEF SoldInv

\* Stripe is empty at first and nothing was synced.
LEMMA InitSoldInv == CatalogInit => SoldInv
<1> SUFFICES ASSUME CatalogInit PROVE SoldInv
  OBVIOUS
<1>1. products = <<>> /\ prices = <<>> /\ used = {} /\ clean = 0 /\ sync = [s \in Syncers |-> NoSync]
  BY Zenon DEF CatalogInit
<1>2. ProductsTyped /\ UniqueHolders /\ Stocked
  BY <1>1 DEF ProductsTyped, UniqueHolders, Stocked
<1>3. Remembered
  BY <1>1, Zenon DEF Remembered
<1>4. \A s \in Syncers : ~sync[s].on /\ sync[s].calls = <<>>
  BY <1>1 DEF NoSync
<1>5. \A d : ~Pending(d)
  BY <1>4 DEF Pending
<1>6. clean \in 0 .. 2 /\ ~(clean >= 1) /\ clean # 2
  BY <1>1
<1> QED  BY <1>2, <1>3, <1>4, <1>5, <1>6, Zenon DEF SoldInv

\* Every step of the catalog keeps the invariant.
LEMMA SoldStep ==
    ASSUME ~SameDay, CatalogInv, SoldInv, [CatalogNext]_catalogVars
    PROVE  SoldInv'
<1>0. /\ CatalogTyped /\ ProductsTyped /\ UniqueHolders /\ Stocked /\ StripeTyped
      /\ \A t \in Syncers : ~sync[t].on => sync[t].calls = <<>>
  BY Zenon DEF CatalogInv, CatalogTyped, SoldInv, StripeTyped
<1>1. ASSUME NEW s \in Syncers, CheckDrift(s) PROVE SoldInv'
  BY <1>1, SoldDrift, Zenon
<1>2. ASSUME NEW s \in Syncers, Call(s) \/ \E reached \in BOOLEAN : CallFails(s, reached)
      PROVE  SoldInv'
  BY <1>2, SoldCall, Zenon
<1>3. ASSUME NEW s \in Syncers, Finish(s) PROVE SoldInv'
  BY <1>3, SoldFinish, Zenon
<1>4. ASSUME NEW s \in Specs, Deploy(s) PROVE SoldInv'
  <2>1. /\ \A t \in Syncers : ~sync'[t].on /\ sync'[t].calls = <<>>
        /\ used' = {} /\ clean' = 0 /\ products' = products /\ prices' = prices
    BY <1>0, <1>4, Zenon DEF Deploy, AllIdle, DayPassed, stripeVars
  <2>2. ProductsTyped' /\ UniqueHolders' /\ Stocked'
    BY <1>0, <2>1, Zenon DEF ProductsTyped, UniqueHolders, Stocked
  <2> QED  BY <2>1, <2>2, SoldIdle, Zenon
<1>5. ASSUME NEW i \in DOMAIN prices, ArchivedByHand(i) PROVE SoldInv'
  <2>1. /\ \A t \in Syncers : ~sync'[t].on /\ sync'[t].calls = <<>>
        /\ used' = {} /\ clean' = 0 /\ products' = products
        /\ prices' = [prices EXCEPT ![i].active = FALSE]
    BY <1>0, <1>5, Zenon DEF ArchivedByHand, AllIdle, DayPassed
  <2>2. /\ DOMAIN prices' = DOMAIN prices
        /\ \A j \in DOMAIN prices :
             prices'[j].key = prices[j].key /\ prices'[j].product = prices[j].product
    BY <1>0, <2>1, ArchiveMoves, Zenon
  <2>3. ProductsTyped' /\ Stocked'
    BY <1>0, <2>1, <2>2, Zenon DEF ProductsTyped, Stocked
  <2>4. UniqueHolders'
    <3> SUFFICES ASSUME NEW j \in DOMAIN prices, NEW k \in DOMAIN prices,
                        prices'[j].key = prices'[k].key, prices'[j].key # NoKey
                 PROVE  j = k
      BY <2>2, Zenon DEF UniqueHolders
    <3>1. prices[j].key = prices[k].key /\ prices[j].key # NoKey
      BY <2>2, Zenon
    <3> QED  BY <1>0, <3>1, Zenon DEF UniqueHolders
  <2> QED  BY <2>1, <2>3, <2>4, SoldIdle, Zenon
<1>6. ASSUME \/ /\ UNCHANGED <<spec, products, prices, sync, clean>>
                /\ used' = {} /\ \A t \in Syncers : ~sync[t].on
             \/ UNCHANGED <<spec, products, prices, sync, clean, used>>
      PROVE  SoldInv'
  <2>1. /\ spec' = spec /\ products' = products /\ prices' = prices /\ sync' = sync /\ clean' = clean
        /\ \/ used' = {} /\ \A t \in Syncers : ~sync[t].on
           \/ used' = used
    BY <1>6, Zenon
  <2>2. /\ ProductsTyped' /\ UniqueHolders' /\ Stocked' /\ Remembered'
        /\ used' = used => \A d : Pending(d)' => Fits(d)'
        /\ \A q : (Remains(q) => Remains(q)') /\ (NamesRemain(q) => NamesRemain(q)')
    BY <2>1, NothingWritten, Zenon
  <2>3. (\A t \in Syncers : ~sync[t].on) => \A d : ~Pending(d)'
    BY <1>0, <2>1 DEF Pending
  <2>4. \A d : Pending(d)' => Fits(d)'
    BY <2>1, <2>2, <2>3, Zenon
  <2>5. /\ clean' \in 0 .. 2
        /\ clean' >= 1 => Remains(<<>>)'
        /\ clean' = 2 => NamesRemain(<<>>)'
    BY <2>1, <2>2, Zenon DEF SoldInv
  <2>6. ASSUME NEW t \in Syncers, sync'[t].on
        PROVE  /\ sync'[t].base <= clean'
               /\ \A q : sync'[t].calls = q =>
                    Remains(q)' /\ (sync'[t].base >= 1 => NamesRemain(q)')
    BY <2>1, <2>2, <2>6, Zenon DEF SoldInv
  <2> QED  BY <2>2, <2>4, <2>5, <2>6, Zenon DEF SoldInv
<1>7. KeysExpire => SoldInv'
  BY <1>6, Zenon DEF KeysExpire, AllIdle
<1>8. UNCHANGED catalogVars => SoldInv'
  BY <1>6, Zenon DEF catalogVars, stripeVars
<1> QED  BY <1>1, <1>2, <1>3, <1>4, <1>5, <1>7, <1>8, Zenon DEF CatalogNext

\* When nothing remains to be done the catalog in Stripe is the declared one.
LEMMA SoldSells ==
    ASSUME CatalogInv, SoldInv
    PROVE  SyncSells
<1> SUFFICES ASSUME clean = 2
             PROVE  /\ \A key \in AllLookupKeys(spec) : \E i \in DOMAIN prices :
                         /\ prices[i].active /\ prices[i].amount = Amount(spec, key)
                         /\ Holders(key) = {i}
                    /\ \A p \in DOMAIN spec.products :
                         /\ p \in DOMAIN products
                         /\ products[p].active /\ products[p].name = spec.products[p].name
                    /\ Plain =>
                         /\ \A i \in DOMAIN prices :
                              prices[i].active => prices[i].key \in AllLookupKeys(spec)
                         /\ \A p \in DOMAIN products :
                              products[p].active => p \in DOMAIN spec.products
  BY Zenon DEF SyncSells, Plain
<1>1. Remains(<<>>) /\ NamesRemain(<<>>) /\ UniqueHolders
  <2>1. clean >= 1
    OBVIOUS
  <2> QED  BY <2>1, Zenon DEF SoldInv
<1>2. spec \in Specs
  BY Zenon DEF CatalogInv, CatalogTyped
<1>3. (\A op, id : ~HasCall(<<>>, op, id)) /\ \A key : ~Creates(<<>>, key)
  BY DEF HasCall, Creates
<1>4. ASSUME NEW key \in AllLookupKeys(spec)
      PROVE  \E i \in DOMAIN prices : /\ prices[i].active /\ prices[i].amount = Amount(spec, key)
                                      /\ Holders(key) = {i}
  <2>1. PICK i \in DOMAIN prices :
          prices[i].key = key /\ prices[i].active /\ prices[i].amount = Amount(spec, key)
    BY <1>1, <1>3, Zenon DEF Remains, Sellable
  <2>2. key # NoKey
    BY <1>2, SpecsAssumption, Zenon
  <2>3. \A j \in DOMAIN prices : prices[j].key = key => j = i
    BY <1>1, <2>1, <2>2, Zenon DEF UniqueHolders
  <2>4. Holders(key) = {i}
    BY <2>1, <2>3 DEF Holders
  <2> QED  BY <2>1, <2>4, Zenon
<1>5. ASSUME Plain, NEW i \in DOMAIN prices, prices[i].active
      PROVE  prices[i].key \in AllLookupKeys(spec)
  BY <1>1, <1>3, <1>5, Zenon DEF Remains, Stale, OnSale
<1>6. ASSUME Plain, NEW p \in DOMAIN products, products[p].active
      PROVE  p \in DOMAIN spec.products
  BY <1>1, <1>3, <1>6, Zenon DEF Remains, Listed, Shown
<1>7. ASSUME NEW p \in DOMAIN spec.products
      PROVE  /\ p \in DOMAIN products
             /\ products[p].active /\ products[p].name = spec.products[p].name
  BY <1>1, <1>3, Zenon DEF Remains, Listed, Shown, NamesRemain, Named
<1> QED  BY <1>4, <1>5, <1>6, <1>7, Zenon

\* SyncSells: two complete syncs of a spec leave in Stripe the declared catalog, and
\* nothing else when the namespace is one word, whatever syncs ran beside them or broke
\* off before (catalog.Diff, catalog.Apply), when a deploy follows the last by the 24
\* hours that Stripe keeps idempotency keys.
THEOREM SyncedCatalogSells == ASSUME ~SameDay PROVE CatalogSpec => []SyncSells
<1>1. CatalogInit => CatalogInv /\ SoldInv
  BY InitCatalogInv, InitSoldInv
<1>2. CatalogInv /\ SoldInv /\ [CatalogNext]_catalogVars => (CatalogInv /\ SoldInv)'
  BY CatalogStep, SoldStep
<1>3. CatalogInv /\ SoldInv => SyncSells
  BY SoldSells
<1> QED  BY <1>1, <1>2, <1>3, PTL DEF CatalogSpec
=============================================================================
