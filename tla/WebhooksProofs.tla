----------------------------- MODULE WebhooksProofs -----------------------------
(***************************************************************************)
(* Theorems about the webhook pipeline, for any number of events, requests *)
(* and workers, any policy, and any number of faults, crashes, duplicates  *)
(* and replays.  The first part is about Webhooks, whatever overlaps.  The *)
(* second is about deliveries of an event that do not overlap while no     *)
(* replica dies: nothing is swallowed (unless an unlock fails), and the    *)
(* event log counts the attempts and tells how they ended (unless a log    *)
(* write fails).  The third is about the Postgres webhook queue: what its  *)
(* statements do to the table is said once, in terms of which events have  *)
(* a row and in which state (Row), and the invariants are about that.      *)
(***************************************************************************)
EXTENDS PgWebhookQueue, TLAPS

\* The states of a request that has claimed its event and not disposed of it.
Working(r) == req[r].pc \in {"run", "decide", "exhaust", "unlock", "claim", "enqueue"}

\* A request that has not let go of its claim holds the lock, under its token.
ClaimHeld ==
    \A r \in Requests : Holding(r) => Owns(store, req[r].evt, req[r].token)

\* An event that is disposed of can never be claimed again and nobody is still
\* working on it; only such an event was handled.
SettledIsClosed ==
    \A e \in Events :
        /\ handled[e] <= 1
        /\ settled[e] = "no" => handled[e] = 0
        /\ settled[e] # "no" => /\ store[e].state # "absent"
                                /\ \A r \in Requests : req[r].evt = e => ~Working(r)

\* The inductive invariant.
IInv == TypeOK /\ ClaimHeld /\ ClaimExclusive /\ SettledIsClosed

-----------------------------------------------------------------------------
(* Type correctness.                                                       *)

\* The initial state, before any webhook arrived, has the declared types.
LEMMA InitTypeOK == Init => TypeOK
BY ConfigAssumption DEF Init, TypeOK, StoreType, LogType, Absent, NoRow, Idle,
   PCs, Outcomes, RequestType, EnvType, ConfigAssumption

\* Recording an outcome (recordToLog) keeps the types of the log.
LEMMA RecordToLogType ==
    ASSUME TypeOK, NEW e \in Events,
           NEW st \in {"none", "claimed", "skipped", "processed", "failed"},
           NEW n \in Nat, RecordToLog(e, st, n)
    PROVE  eventLog' \in LogType(Events) /\ env' \in EnvType
BY DEF TypeOK, RecordToLog, Record, LogType, Fault, EnvType

\* The part of TypeOK that is about the requests.
RequestsOK == /\ req \in [Requests -> RequestType]
              /\ \A r \in Requests : req[r].pc # "idle" => req[r].evt \in Events

\* A request may go anywhere with a well-typed local state.
LEMMA UpdateType ==
    ASSUME RequestsOK, NEW r \in Requests, NEW v \in RequestType,
           v.pc # "idle" => v.evt \in Events, req' = [req EXCEPT ![r] = v]
    PROVE  RequestsOK'
BY Zenon DEF RequestsOK

\* The end of a request keeps the types.
LEMMA IdleType == Idle \in RequestType /\ Idle.pc = "idle"
BY Zenon DEF Idle, RequestType, PCs, Outcomes

\* A request in flight that moves to another program point keeps the types.
LEMMA GotoType ==
    ASSUME RequestsOK, NEW r \in Requests, req[r].pc # "idle", NEW pc \in PCs,
           Goto(r, pc)
    PROVE  RequestsOK'
<1> DEFINE v == [req[r] EXCEPT !.pc = pc]
<1>1. v \in RequestType /\ v.evt \in Events
  BY Zenon DEF RequestsOK, RequestType
<1>2. req' = [req EXCEPT ![r] = v]
  BY Zenon DEF Goto
<1> QED
  BY <1>1, <1>2, UpdateType, Zenon

\* A failing call uses up one fault.
LEMMA FaultType == ASSUME TypeOK, NEW op, Fault(op) PROVE env' \in EnvType
BY DEF TypeOK, Fault, EnvType

\* Every step of the handler and of its environment keeps the types.
LEMMA NextTypeOK == TypeOK /\ [Next]_vars => TypeOK'
<1> SUFFICES ASSUME TypeOK, [Next]_vars PROVE TypeOK'
  OBVIOUS
<1> USE DEF storeVars, histVars
<1>0. RequestsOK
  BY Zenon DEF TypeOK, RequestsOK
<1>a. \A r \in Requests : req[r].pc # "idle" => req[r].evt \in Events /\ req[r].attempt \in Nat
  BY Zenon DEF TypeOK, RequestType
<1>b. ASSUME NEW r \in Requests, req' = [req EXCEPT ![r] = Idle] PROVE RequestsOK'
  BY <1>b, <1>0, IdleType, UpdateType, Zenon
<1>c. ASSUME NEW r \in Requests, req[r].pc # "idle", Respond200(r)
      PROVE  RequestsOK' /\ acked' \in [Events -> BOOLEAN] /\ env' \in EnvType
  <2>1. CASE Ack(r) /\ UNCHANGED env
    BY <2>1, <1>a, <1>b, <1>c, Zenon DEF Ack, TypeOK
  <2>2. CASE Fault("response") /\ req' = [req EXCEPT ![r] = Idle] /\ UNCHANGED acked
    BY <2>2, <1>b, FaultType, Zenon DEF TypeOK
  <2> QED
    BY <1>c, <2>1, <2>2, Zenon DEF Respond200
<1>1. ASSUME NEW r \in Requests, NEW e \in Events, Deliver(r, e) PROVE TypeOK'
  <2> DEFINE v == [Idle EXCEPT !.pc = "get", !.evt = e]
  <2>1. v \in RequestType /\ v.evt \in Events
    BY Zenon DEF Idle, RequestType, PCs, Outcomes
  <2>2. RequestsOK'
    BY <1>0, <1>1, <2>1, UpdateType, Zenon DEF Deliver
  <2>3. env' \in EnvType
    BY <1>1 DEF Deliver, TypeOK, EnvType
  <2> QED
    BY <1>1, <2>2, <2>3, Zenon DEF Deliver, TypeOK, RequestsOK
<1>2. ASSUME NEW r \in Requests, Crash(r) PROVE TypeOK'
  <2>1. env' \in EnvType
    BY <1>2 DEF Crash, TypeOK, EnvType
  <2> QED
    BY <1>2, <1>b, <2>1, Zenon DEF Crash, TypeOK, RequestsOK
<1>3. ASSUME NEW r \in Requests, StoreGet(r) PROVE TypeOK'
  <2>1. RequestsOK' /\ acked' \in [Events -> BOOLEAN] /\ env' \in EnvType
    <3>1. CASE Fault("get") /\ Respond500(r)
      BY <3>1, <1>b, FaultType, Zenon DEF Respond500, TypeOK
    <3>2. CASE Respond200(r)
      BY <3>2, <1>3, <1>c, Zenon DEF StoreGet
    <3>3. CASE Goto(r, "lock") /\ UNCHANGED <<acked, env>>
      BY <3>3, <1>0, <1>3, GotoType, Zenon DEF StoreGet, PCs, TypeOK
    <3> QED
      BY <1>3, <3>1, <3>2, <3>3, Zenon DEF StoreGet
  <2> QED
    BY <1>3, <2>1, Zenon DEF StoreGet, TypeOK, RequestsOK
<1>4. ASSUME NEW r \in Requests, TryLock(r) PROVE TypeOK'
  <2> DEFINE e == req[r].evt
  <2>0. e \in Events /\ req[r].pc # "idle"
    BY <1>4, <1>a, Zenon DEF TryLock
  <2>1. CASE Fault("lock") /\ Respond500(r) /\ UNCHANGED <<storeVars, settled>>
    BY <2>1, <1>4, <1>b, FaultType, Zenon DEF TryLock, Respond500, TypeOK, RequestsOK
  <2>2. CASE Respond200(r) /\ UNCHANGED <<storeVars, settled>>
    BY <2>0, <2>2, <1>4, <1>c, Zenon DEF TryLock, TypeOK, RequestsOK
  <2>3. ASSUME store' = Lock(store, e, nextToken),
               nextToken' = nextToken + 1,
               req' = [req EXCEPT ![r] =
                         [@ EXCEPT !.pc = Route(e), !.token = nextToken,
                                   !.outcome = IF Kind[e] = "foreign"
                                               THEN "skipped" ELSE "none"]],
               settled' = [settled EXCEPT ![e] =
                         IF Kind[e] = "foreign" /\ @ = "no" THEN "skipped" ELSE @],
               UNCHANGED <<acked, env>>
        PROVE  TypeOK'
    <3> DEFINE v == [req[r] EXCEPT !.pc = Route(e), !.token = nextToken,
                                   !.outcome = IF Kind[e] = "foreign"
                                               THEN "skipped" ELSE "none"]
    <3>1. Route(e) \in PCs
      BY <2>0, ConfigAssumption, Zenon DEF Route, PCs, ConfigAssumption
    <3>2. v \in RequestType /\ v.evt \in Events
      BY <2>0, <3>1, Zenon DEF TypeOK, RequestType, Outcomes
    <3>3. RequestsOK'
      BY <1>0, <2>3, <3>2, UpdateType, Zenon
    <3>4. store' \in StoreType(Events) /\ nextToken' \in Nat
      BY <2>0, <2>3 DEF TypeOK, StoreType, Lock
    <3>5. settled' \in [Events -> {"no", "handled", "skipped", "gaveUp"}]
      BY <2>0, <2>3, Zenon DEF TypeOK
    <3> QED
      BY <1>4, <2>3, <3>3, <3>4, <3>5, Zenon DEF TryLock, TypeOK, RequestsOK
  <2> QED
    BY <1>4, <2>1, <2>2, <2>3, Zenon DEF TryLock
<1>5. ASSUME NEW r \in Requests, RunHandler(r) PROVE TypeOK'
  <2> DEFINE e == req[r].evt
             ok == [req[r] EXCEPT !.pc = "set", !.outcome = "processed"]
             failed == [req[r] EXCEPT !.pc = IF RunsTyped(e) THEN "decide" ELSE "unlock",
                                      !.attempt = 1]
  <2>0. e \in Events
    BY <1>5, <1>a, Zenon DEF RunHandler
  <2>1. /\ ok \in RequestType /\ ok.evt \in Events
        /\ failed \in RequestType /\ failed.evt \in Events
    BY <2>0, Zenon DEF TypeOK, RequestType, PCs, Outcomes
  <2>2. RequestsOK'
    <3>1. req' = [req EXCEPT ![r] = ok] \/ req' = [req EXCEPT ![r] = failed]
      BY <1>5, Zenon DEF RunHandler
    <3> QED
      BY <1>0, <2>1, <3>1, UpdateType, Zenon
  <2>3. /\ handled' \in [Events -> Nat] /\ failures' \in [Events -> Nat]
        /\ typed' \in [Events -> Nat]
        /\ settled' \in [Events -> {"no", "handled", "skipped", "gaveUp"}]
    BY <1>5, <2>0 DEF RunHandler, TypeOK
  <2> QED
    BY <1>5, <2>2, <2>3, Zenon DEF RunHandler, TypeOK, RequestsOK
<1>6. ASSUME NEW r \in Requests, Decide(r) PROVE TypeOK'
  <2> DEFINE e == req[r].evt
             v(n) == [req[r] EXCEPT !.attempt = n,
                                    !.pc = IF Exhausted(e, n) THEN "exhaust" ELSE "unlock"]
  <2>0. e \in Events
    BY <1>6, <1>a, Zenon DEF Decide
  <2>1. PICK n \in Nat : req' = [req EXCEPT ![r] = v(n)]
    <3>1. eventLog[e].attempts + 1 \in Nat
      BY <2>0 DEF TypeOK, LogType
    <3>2. \/ req' = [req EXCEPT ![r] = v(eventLog[e].attempts + 1)]
          \/ req' = [req EXCEPT ![r] = v(1)]
      BY <1>6, Zenon DEF Decide
    <3> QED
      BY <3>1, <3>2, Zenon
  <2>2. v(n) \in RequestType /\ v(n).evt \in Events
    BY <2>0, Zenon DEF TypeOK, RequestType, PCs
  <2>3. RequestsOK'
    BY <1>0, <2>1, <2>2, UpdateType, Zenon
  <2>4. env' \in EnvType
    BY <1>6, FaultType, Zenon DEF Decide, TypeOK
  <2> QED
    BY <1>6, <2>3, <2>4, Zenon DEF Decide, TypeOK, RequestsOK
<1>7. ASSUME NEW r \in Requests, Exhaust(r) PROVE TypeOK'
  <2> DEFINE e == req[r].evt
             v == [req[r] EXCEPT !.pc = "set", !.outcome = "gaveUp"]
  <2>0. e \in Events /\ req[r].attempt \in Nat /\ req[r].pc # "idle"
    BY <1>7, <1>a, Zenon DEF Exhaust
  <2>1. eventLog' \in LogType(Events) /\ env' \in EnvType
    BY <1>7, <2>0, RecordToLogType, Zenon DEF Exhaust
  <2>2. RequestsOK'
    <3>1. v \in RequestType /\ v.evt \in Events
      BY <2>0, Zenon DEF TypeOK, RequestType, PCs, Outcomes
    <3>2. CASE req' = [req EXCEPT ![r] = v]
      BY <1>0, <3>1, <3>2, UpdateType, Zenon
    <3>3. CASE Goto(r, "unlock")
      BY <1>0, <2>0, <3>3, GotoType, Zenon DEF PCs
    <3> QED
      BY <1>7, <3>2, <3>3, Zenon DEF Exhaust
  <2>3. settled' \in [Events -> {"no", "handled", "skipped", "gaveUp"}]
    BY <1>7, <2>0, Zenon DEF Exhaust, TypeOK
  <2> QED
    BY <1>7, <2>1, <2>2, <2>3, Zenon DEF Exhaust, TypeOK, RequestsOK
<1>8. ASSUME NEW r \in Requests, UnlockClaim(r) PROVE TypeOK'
  <2>1. store' \in StoreType(Events)
    BY <1>8, <1>a DEF UnlockClaim, Release, Absent, StoreType, TypeOK
  <2>2. RequestsOK'
    BY <1>0, <1>8, GotoType, Zenon DEF UnlockClaim, PCs
  <2>3. env' \in EnvType
    BY <1>8, FaultType, Zenon DEF UnlockClaim, TypeOK
  <2> QED
    BY <1>8, <2>1, <2>2, <2>3, Zenon DEF UnlockClaim, TypeOK, RequestsOK
<1>9. ASSUME NEW r \in Requests, LogFailure(r) PROVE TypeOK'
  <2>1. eventLog' \in LogType(Events) /\ env' \in EnvType
    BY <1>9, <1>a, RecordToLogType, Zenon DEF LogFailure
  <2> QED
    BY <1>9, <1>b, <2>1, Zenon DEF LogFailure, Respond500, TypeOK, RequestsOK
<1>10. ASSUME NEW r \in Requests, MarkProcessed(r) PROVE TypeOK'
  <2>1. store' \in StoreType(Events)
    BY <1>10, <1>a DEF MarkProcessed, SetDone, Owns, StoreType, TypeOK
  <2>2. RequestsOK'
    BY <1>0, <1>10, GotoType, Zenon DEF MarkProcessed, PCs
  <2>3. env' \in EnvType
    BY <1>10, FaultType, Zenon DEF MarkProcessed, TypeOK
  <2> QED
    BY <1>10, <2>1, <2>2, <2>3, Zenon DEF MarkProcessed, TypeOK, RequestsOK
<1>11. ASSUME NEW r \in Requests, LogOutcome(r) PROVE TypeOK'
  <2>1. RequestsOK'
    BY <1>0, <1>11, GotoType, Zenon DEF LogOutcome, PCs
  <2>2. eventLog' \in LogType(Events) /\ env' \in EnvType
    <3>1. req[r].outcome # "gaveUp" => req[r].outcome \in {"none", "skipped", "processed"}
      BY Zenon DEF TypeOK, RequestType, Outcomes
    <3> QED
      BY <1>11, <1>a, <3>1, RecordToLogType, Zenon DEF LogOutcome, TypeOK
  <2> QED
    BY <1>11, <2>1, <2>2, Zenon DEF LogOutcome, TypeOK, RequestsOK
<1>12. ASSUME NEW r \in Requests, Respond(r) PROVE TypeOK'
  BY <1>12, <1>c, Zenon DEF Respond, TypeOK, RequestsOK
<1>13. ASSUME NEW e \in Events, ReplayEvent(e) PROVE TypeOK'
  <2>1. env' \in EnvType
    BY <1>13 DEF ReplayEvent, TypeOK, EnvType
  <2> QED
    BY <1>13, <2>1 DEF ReplayEvent, TypeOK
<1>14. CASE UNCHANGED vars
  BY <1>14, Zenon DEF vars, TypeOK
<1> QED
  BY <1>1, <1>2, <1>3, <1>4, <1>5, <1>6, <1>7, <1>8, <1>9, <1>10, <1>11, <1>12,
     <1>13, <1>14, Zenon DEF Next, Step

-----------------------------------------------------------------------------
(* The claim.                                                              *)

HoldingPCs == {"run", "decide", "exhaust", "unlock", "set", "claim", "enqueue"}
WorkingPCs == HoldingPCs \ {"set"}

\* A step in which r lets go of its claim, or goes on holding it without going
\* back to work, and that touches nothing the claim is about.
Quiet(r, v) ==
    /\ req' = [req EXCEPT ![r] = v]
    /\ \/ v.pc \notin HoldingPCs
       \/ /\ Holding(r)
          /\ v.evt = req[r].evt /\ v.token = req[r].token
          /\ v.pc \in WorkingPCs => Working(r)
    /\ UNCHANGED <<store, handled, settled>>

\* The invariant does not depend on a quiet step: most of Handle's calls are one.
LEMMA QuietStep ==
    ASSUME IInv, NEW r \in Requests, NEW v, Quiet(r, v)
    PROVE  ClaimHeld' /\ ClaimExclusive' /\ SettledIsClosed'
<1>1. \A s \in Requests : req'[s] = IF s = r THEN v ELSE req[s]
  BY Zenon DEF Quiet, IInv, TypeOK
<1>2. \A s \in Requests : Holding(s)' => /\ Holding(s)
                                          /\ req'[s].evt = req[s].evt
                                          /\ req'[s].token = req[s].token
  BY <1>1, Zenon DEF Quiet, Holding, HoldingPCs
<1>3. \A s \in Requests : Working(s)' => Working(s) /\ req'[s].evt = req[s].evt
  BY <1>1, <1>2, Zenon DEF Quiet, Holding, Working, HoldingPCs, WorkingPCs
<1>4. ClaimHeld'
  BY <1>2, Zenon DEF IInv, ClaimHeld, Owns, Quiet
<1>5. ClaimExclusive'
  BY <1>2, Zenon DEF IInv, ClaimExclusive
<1>6. SettledIsClosed'
  BY <1>3, Zenon DEF IInv, SettledIsClosed, Quiet
<1> QED
  BY <1>4, <1>5, <1>6, Zenon

\* TryLock grants a claim only on an event nobody holds and nobody disposed of.
LEMMA ClaimStep ==
    ASSUME IInv, NEW r \in Requests, NEW v \in RequestType, req[r].evt \in Events,
           Lockable(store, req[r].evt),
           store' = Lock(store, req[r].evt, v.token),
           v.evt = req[r].evt, req' = [req EXCEPT ![r] = v],
           UNCHANGED handled,
           \/ UNCHANGED settled
           \/ v.pc = "set" /\ settled' = [settled EXCEPT ![req[r].evt] = "skipped"]
    PROVE  ClaimHeld' /\ ClaimExclusive' /\ SettledIsClosed'
<1> DEFINE e == req[r].evt
<1>1. /\ store'[e] = [state |-> "locked", token |-> v.token]
      /\ \A f \in Events \ {e} : store'[f] = store[f]
      /\ store[e].state = "absent"
  BY Zenon DEF IInv, TypeOK, StoreType, Lock, Lockable
<1>2. \A s \in Requests : req'[s] = IF s = r THEN v ELSE req[s]
  BY Zenon DEF IInv, TypeOK
<1>3. \A s \in Requests : Holding(s) => req[s].evt \in Events /\ req[s].evt # e
  <2> SUFFICES ASSUME NEW s \in Requests, Holding(s)
               PROVE  req[s].evt \in Events /\ req[s].evt # e
    OBVIOUS
  <2>1. store[req[s].evt].state = "locked"
    <3>1. store[req[s].evt] = [state |-> "locked", token |-> req[s].token]
      BY Zenon DEF IInv, ClaimHeld, Owns
    <3> QED
      BY <3>1
  <2>2. req[s].evt \in Events
    BY Zenon DEF IInv, TypeOK, Holding
  <2> QED
    BY <1>1, <2>1, <2>2, Zenon
<1>4. ClaimHeld'
  BY <1>1, <1>2, <1>3 DEF IInv, ClaimHeld, Owns, Holding
<1>5. ClaimExclusive'
  BY <1>2, <1>3 DEF IInv, ClaimExclusive, Holding
<1>6. settled[e] = "no" /\ handled[e] = 0
  BY <1>1, Zenon DEF IInv, SettledIsClosed
<1>7. SettledIsClosed'
  <2> SUFFICES ASSUME NEW f \in Events
               PROVE  /\ handled'[f] <= 1
                      /\ settled'[f] = "no" => handled'[f] = 0
                      /\ settled'[f] # "no" =>
                            /\ store'[f].state # "absent"
                            /\ \A s \in Requests : req'[s].evt = f => ~Working(s)'
    BY Zenon DEF SettledIsClosed
  <2>1. CASE f # e
    <3>1. settled'[f] = settled[f]
      BY <2>1, Zenon DEF IInv, TypeOK
    <3> QED
      BY <1>1, <1>2, <2>1, <3>1 DEF IInv, SettledIsClosed, Working
  <2>2. CASE f = e
    <3>1. ASSUME NEW s \in Requests, s # r, req[s].evt = e PROVE ~Working(s)
      BY <1>3, <3>1, Zenon DEF Working, Holding
    <3>2. settled'[e] # "no" => v.pc = "set"
      BY <1>6, Zenon
    <3> QED
      BY <1>1, <1>2, <1>6, <2>2, <3>1, <3>2 DEF Working
  <2> QED
    BY <2>1, <2>2, Zenon
<1> QED
  BY <1>4, <1>5, <1>7, Zenon

\* An event is disposed of by the one request that works on it, which keeps the
\* claim until store.Set.
LEMMA DisposeStep ==
    ASSUME IInv, NEW r \in Requests, NEW v, Working(r), NEW n \in {0, 1},
           NEW st \in {"handled", "gaveUp"},
           v.evt = req[r].evt, v.token = req[r].token, v.pc = "set",
           req' = [req EXCEPT ![r] = v],
           handled' = [handled EXCEPT ![req[r].evt] = @ + n],
           settled' = [settled EXCEPT ![req[r].evt] = st],
           UNCHANGED store
    PROVE  ClaimHeld' /\ ClaimExclusive' /\ SettledIsClosed'
<1> DEFINE e == req[r].evt
<1>1. \A s \in Requests : req'[s] = IF s = r THEN v ELSE req[s]
  BY Zenon DEF IInv, TypeOK
<1>2. Holding(r) /\ e \in Events
  BY Zenon DEF IInv, TypeOK, Working, Holding
<1>3. \A s \in Requests : Holding(s)' => /\ Holding(s)
                                          /\ req'[s].evt = req[s].evt
                                          /\ req'[s].token = req[s].token
  BY <1>1, <1>2, Zenon DEF Holding
<1>4. ClaimHeld'
  BY <1>3, Zenon DEF IInv, ClaimHeld, Owns
<1>5. ClaimExclusive'
  BY <1>3, Zenon DEF IInv, ClaimExclusive
<1>6. store[e].state = "locked" /\ handled[e] = 0
  <2>1. store[e].state = "locked"
    <3>1. store[e] = [state |-> "locked", token |-> req[r].token]
      BY <1>2, Zenon DEF IInv, ClaimHeld, Owns
    <3> QED
      BY <3>1
  <2>2. settled[e] = "no"
    BY <1>2, Zenon DEF IInv, SettledIsClosed
  <2> QED
    BY <1>2, <2>1, <2>2, Zenon DEF IInv, SettledIsClosed
<1>7. \A s \in Requests : req'[s].evt = e => ~Working(s)'
  <2> SUFFICES ASSUME NEW s \in Requests, req'[s].evt = e, Working(s)' PROVE FALSE
    OBVIOUS
  <2>1. s # r
    BY <1>1, Zenon DEF Working
  <2>2. Holding(s) /\ req[s].evt = e
    BY <1>1, <2>1, Zenon DEF Working, Holding
  <2> QED
    BY <1>2, <2>1, <2>2, Zenon DEF IInv, ClaimExclusive
<1>8. SettledIsClosed'
  <2> SUFFICES ASSUME NEW f \in Events
               PROVE  /\ handled'[f] <= 1
                      /\ settled'[f] = "no" => handled'[f] = 0
                      /\ settled'[f] # "no" =>
                            /\ store'[f].state # "absent"
                            /\ \A s \in Requests : req'[s].evt = f => ~Working(s)'
    BY Zenon DEF SettledIsClosed
  <2>1. CASE f # e
    <3>1. settled'[f] = settled[f] /\ handled'[f] = handled[f]
      BY <2>1, Zenon DEF IInv, TypeOK
    <3> QED
      BY <1>1, <2>1, <3>1 DEF IInv, SettledIsClosed, Working
  <2>2. CASE f = e
    <3>1. settled'[e] = st /\ handled'[e] = n
      BY <1>2, <1>6 DEF IInv, TypeOK
    <3> QED
      BY <1>6, <1>7, <2>2, <3>1
  <2> QED
    BY <2>1, <2>2, Zenon
<1> QED
  BY <1>4, <1>5, <1>8, Zenon

\* A request gives its claim up, by Set or by Unlock; only Unlock, after a failed
\* run, makes the event claimable again.
LEMMA GiveUpClaimStep ==
    ASSUME IInv, NEW r \in Requests, NEW v, Holding(r), v.pc \notin HoldingPCs,
           req' = [req EXCEPT ![r] = v],
           NEW c, store' = [store EXCEPT ![req[r].evt] = c],
           c.state = "absent" => Working(r),
           UNCHANGED <<handled, settled>>
    PROVE  ClaimHeld' /\ ClaimExclusive' /\ SettledIsClosed'
<1> DEFINE e == req[r].evt
<1>1. \A s \in Requests : req'[s] = IF s = r THEN v ELSE req[s]
  BY Zenon DEF IInv, TypeOK
<1>2. e \in Events
  BY Zenon DEF IInv, TypeOK, Holding
<1>3. \A s \in Requests : Holding(s)' => s # r /\ Holding(s) /\ req'[s] = req[s]
  BY <1>1, Zenon DEF Holding, HoldingPCs
<1>4. store'[e] = c /\ \A f \in Events \ {e} : store'[f] = store[f]
  BY <1>2, Zenon DEF IInv, TypeOK, StoreType
<1>5. ClaimHeld'
  <2> SUFFICES ASSUME NEW s \in Requests, Holding(s)'
               PROVE  store'[req'[s].evt] = [state |-> "locked", token |-> req'[s].token]
    BY Zenon DEF ClaimHeld, Owns
  <2>1. req[s].evt # e /\ req[s].evt \in Events
    BY <1>3, Zenon DEF IInv, ClaimExclusive, TypeOK, Holding
  <2> QED
    BY <1>3, <1>4, <2>1 DEF IInv, ClaimHeld, Owns
<1>6. ClaimExclusive'
  BY <1>3, Zenon DEF IInv, ClaimExclusive
<1>7. \A s \in Requests : Working(s)' => Working(s) /\ req'[s] = req[s]
  BY <1>1, Zenon DEF Working, HoldingPCs
<1>8. settled[e] # "no" => ~Working(r)
  BY <1>2, Zenon DEF IInv, SettledIsClosed
<1>9. SettledIsClosed'
  BY <1>4, <1>7, <1>8, Zenon DEF IInv, SettledIsClosed
<1> QED
  BY <1>5, <1>6, <1>9, Zenon

\* Every step of the handler and of its environment keeps the invariant.
LEMMA NextIInv == IInv /\ [Next]_vars => IInv'
<1> SUFFICES ASSUME IInv, [Next]_vars PROVE ClaimHeld' /\ ClaimExclusive' /\ SettledIsClosed'
  BY NextTypeOK, Zenon DEF IInv
<1> DEFINE Claims == ClaimHeld /\ ClaimExclusive /\ SettledIsClosed
<1> SUFFICES Claims'
  OBVIOUS
<1> USE DEF storeVars, histVars
<1>q. ASSUME NEW r \in Requests, NEW v, Quiet(r, v) PROVE Claims'
  BY <1>q, QuietStep, Zenon
<1> HIDE DEF Claims
<1>t. TypeOK /\ RequestsOK
  BY Zenon DEF IInv, TypeOK, RequestsOK
<1>i. Idle.pc \notin HoldingPCs
  BY Zenon DEF Idle, HoldingPCs
<1>1. ASSUME NEW r \in Requests, NEW e \in Events, Deliver(r, e) PROVE Claims'
  <2> DEFINE v == [Idle EXCEPT !.pc = "get", !.evt = e]
  <2>1. v.pc \notin HoldingPCs
    BY Zenon DEF Idle, HoldingPCs
  <2>2. Quiet(r, v)
    BY <1>1, <2>1, Zenon DEF Deliver, Quiet
  <2> QED
    BY <1>q, <2>2, Zenon
<1>2. ASSUME NEW r \in Requests, Crash(r) PROVE Claims'
  BY <1>2, <1>i, <1>q, Zenon DEF Crash, Quiet
<1>3. ASSUME NEW r \in Requests, StoreGet(r) PROVE Claims'
  <2> DEFINE v == [req[r] EXCEPT !.pc = "lock"]
  <2>1. v.pc \notin HoldingPCs
    BY <1>t, Zenon DEF HoldingPCs, RequestsOK, RequestType
  <2>2. \/ req' = [req EXCEPT ![r] = Idle]
        \/ req' = [req EXCEPT ![r] = v]
    BY <1>3, Zenon DEF StoreGet, Respond500, Respond200, Ack, Goto
  <2>3. Quiet(r, Idle) \/ Quiet(r, v)
    BY <1>3, <1>i, <2>1, <2>2, Zenon DEF StoreGet, Quiet
  <2> QED
    BY <1>q, <2>3, Zenon
<1>4. ASSUME NEW r \in Requests, TryLock(r) PROVE Claims'
  <2> DEFINE e == req[r].evt
             v == [req[r] EXCEPT !.pc = Route(e), !.token = nextToken,
                                 !.outcome = IF Kind[e] = "foreign"
                                             THEN "skipped" ELSE "none"]
  <2>0. e \in Events
    BY <1>4, <1>t, Zenon DEF TryLock, RequestsOK
  <2>1. CASE req' = [req EXCEPT ![r] = Idle] /\ UNCHANGED <<storeVars, settled>>
    <3>1. Quiet(r, Idle)
      BY <1>4, <1>i, <2>1, Zenon DEF TryLock, Quiet
    <3> QED
      BY <1>q, <3>1, Zenon
  <2>2. ASSUME Lockable(store, e), store' = Lock(store, e, nextToken),
               req' = [req EXCEPT ![r] = v],
               settled' = [settled EXCEPT ![e] =
                         IF Kind[e] = "foreign" /\ @ = "no" THEN "skipped" ELSE @]
        PROVE  Claims'
    <3>1. Route(e) \in PCs /\ (Kind[e] = "foreign" => Route(e) = "set")
      BY <2>0, ConfigAssumption, Zenon DEF Route, PCs, ConfigAssumption
    <3>2. /\ v \in RequestType /\ v.evt = e /\ v.token = nextToken
          /\ v.pc = Route(e)
      BY <1>t, <3>1, Zenon DEF TypeOK, RequestType, Outcomes
    <3>3. \/ UNCHANGED settled
          \/ v.pc = "set" /\ settled' = [settled EXCEPT ![e] = "skipped"]
      BY <1>t, <2>0, <2>2, <3>1, <3>2, Zenon DEF TypeOK
    <3>4. UNCHANGED handled
      BY <1>4, Zenon DEF TryLock
    <3> HIDE DEF v
    <3> QED
      BY <2>0, <2>2, <3>2, <3>3, <3>4, ClaimStep, Zenon DEF Claims
  <2> QED
    BY <1>4, <2>1, <2>2, Zenon DEF TryLock, Respond500, Respond200, Ack
<1>5. ASSUME NEW r \in Requests, RunHandler(r) PROVE Claims'
  <2> DEFINE e == req[r].evt
             ok == [req[r] EXCEPT !.pc = "set", !.outcome = "processed"]
             failed == [req[r] EXCEPT !.pc = IF RunsTyped(e) THEN "decide" ELSE "unlock",
                                      !.attempt = 1]
  <2>0. Working(r) /\ Holding(r)
    BY <1>5, Zenon DEF RunHandler, Working, Holding
  <2>1. CASE /\ handled' = [handled EXCEPT ![e] = @ + 1]
             /\ settled' = [settled EXCEPT ![e] = "handled"]
             /\ req' = [req EXCEPT ![r] = ok]
    <3>1. ok.pc = "set" /\ ok.evt = e /\ ok.token = req[r].token
      BY <1>t, Zenon DEF RequestsOK, RequestType
    <3>2. UNCHANGED store
      BY <1>5, Zenon DEF RunHandler
    <3> HIDE DEF ok
    <3> QED
      BY <2>0, <2>1, <3>1, <3>2, DisposeStep, Zenon DEF Claims
  <2>2. CASE req' = [req EXCEPT ![r] = failed] /\ UNCHANGED <<handled, settled>>
    <3>1. failed.evt = e /\ failed.token = req[r].token
      BY <1>t, Zenon DEF RequestsOK, RequestType
    <3>2. Quiet(r, failed)
      BY <1>5, <2>0, <2>2, <3>1, Zenon DEF RunHandler, Quiet
    <3> QED
      BY <1>q, <3>2, Zenon
  <2> QED
    BY <1>5, <2>1, <2>2, Zenon DEF RunHandler
<1>6. ASSUME NEW r \in Requests, Decide(r) PROVE Claims'
  <2> DEFINE e == req[r].evt
             v(n) == [req[r] EXCEPT !.attempt = n,
                                    !.pc = IF Exhausted(e, n) THEN "exhaust" ELSE "unlock"]
  <2>0. Working(r) /\ Holding(r)
    BY <1>6, Zenon DEF Decide, Working, Holding
  <2>1. PICK n : req' = [req EXCEPT ![r] = v(n)]
    BY <1>6, Zenon DEF Decide
  <2>2. v(n).evt = e /\ v(n).token = req[r].token
    BY <1>t, Zenon DEF RequestsOK, RequestType
  <2>3. Quiet(r, v(n))
    BY <1>6, <2>0, <2>1, <2>2, Zenon DEF Decide, Quiet
  <2> QED
    BY <1>q, <2>3, Zenon
<1>7. ASSUME NEW r \in Requests, Exhaust(r) PROVE Claims'
  <2> DEFINE e == req[r].evt
             up == [req[r] EXCEPT !.pc = "set", !.outcome = "gaveUp"]
             on == [req[r] EXCEPT !.pc = "unlock"]
  <2>0. Working(r) /\ Holding(r) /\ e \in Events /\ UNCHANGED <<store, handled>>
    BY <1>7, <1>t, Zenon DEF Exhaust, Working, Holding, RequestsOK
  <2>1. CASE /\ req' = [req EXCEPT ![r] = up]
             /\ settled' = [settled EXCEPT ![e] = IF @ = "no" THEN "gaveUp" ELSE @]
    <3>1. up.pc = "set" /\ up.evt = e /\ up.token = req[r].token
      BY <1>t, Zenon DEF RequestsOK, RequestType
    <3>2. settled[e] = "no"
      BY <2>0, Zenon DEF IInv, SettledIsClosed
    <3>3. /\ settled' = [settled EXCEPT ![e] = "gaveUp"]
          /\ handled' = [handled EXCEPT ![e] = @ + 0]
      BY <1>t, <2>0, <2>1, <3>2 DEF TypeOK
    <3> HIDE DEF up
    <3> QED
      BY <2>0, <2>1, <3>1, <3>3, DisposeStep, Zenon DEF Claims
  <2>2. CASE Goto(r, "unlock") /\ UNCHANGED settled
    <3>1. on.evt = e /\ on.token = req[r].token
      BY <1>t, Zenon DEF RequestsOK, RequestType
    <3>2. Quiet(r, on)
      BY <2>0, <2>2, <3>1, Zenon DEF Quiet, Goto
    <3> QED
      BY <1>q, <3>2, Zenon
  <2> QED
    BY <1>7, <2>1, <2>2, Zenon DEF Exhaust
<1>8. ASSUME NEW r \in Requests, UnlockClaim(r) PROVE Claims'
  <2> DEFINE e == req[r].evt
             v == [req[r] EXCEPT !.pc = "logFail"]
  <2>0. Working(r) /\ Holding(r) /\ UNCHANGED <<handled, settled>>
    BY <1>8, Zenon DEF UnlockClaim, Working, Holding
  <2>1. v.pc \notin HoldingPCs /\ req' = [req EXCEPT ![r] = v]
    BY <1>8, <1>t, Zenon DEF UnlockClaim, Goto, HoldingPCs, RequestsOK, RequestType
  <2>2. CASE UNCHANGED store
    BY <2>0, <2>1, <2>2, <1>q, Zenon DEF Quiet
  <2>3. CASE store' = [store EXCEPT ![e] = Absent]
    BY <2>0, <2>1, <2>3, GiveUpClaimStep, Zenon DEF Claims
  <2> QED
    BY <1>8, <2>2, <2>3, Zenon DEF UnlockClaim, Release
<1>9. ASSUME NEW r \in Requests, LogFailure(r) PROVE Claims'
  BY <1>9, <1>i, <1>q, Zenon DEF LogFailure, Respond500, Quiet
<1>10. ASSUME NEW r \in Requests, MarkProcessed(r) PROVE Claims'
  <2> DEFINE e == req[r].evt
             v == [req[r] EXCEPT !.pc = "finish"]
             c == [state |-> "done", token |-> req[r].token]
  <2>0. Holding(r) /\ UNCHANGED <<handled, settled>>
    BY <1>10, Zenon DEF MarkProcessed, Holding
  <2>1. v.pc \notin HoldingPCs /\ req' = [req EXCEPT ![r] = v]
    BY <1>10, <1>t, Zenon DEF MarkProcessed, Goto, HoldingPCs, RequestsOK, RequestType
  <2>2. CASE UNCHANGED store
    BY <2>0, <2>1, <2>2, <1>q, Zenon DEF Quiet
  <2>3. CASE store' = [store EXCEPT ![e] = c]
    <3>1. c.state # "absent"
      OBVIOUS
    <3> HIDE DEF c
    <3> QED
      BY <2>0, <2>1, <2>3, <3>1, GiveUpClaimStep, Zenon DEF Claims
  <2> QED
    BY <1>10, <2>2, <2>3, Zenon DEF MarkProcessed, SetDone
<1>11. ASSUME NEW r \in Requests, LogOutcome(r) PROVE Claims'
  <2> DEFINE v == [req[r] EXCEPT !.pc = "respond"]
  <2>1. v.pc \notin HoldingPCs /\ req' = [req EXCEPT ![r] = v]
    BY <1>11, <1>t, Zenon DEF LogOutcome, Goto, HoldingPCs, RequestsOK, RequestType
  <2> QED
    BY <1>11, <2>1, <1>q, Zenon DEF LogOutcome, Quiet
<1>12. ASSUME NEW r \in Requests, Respond(r) PROVE Claims'
  BY <1>12, <1>i, <1>q, Zenon DEF Respond, Respond200, Ack, Quiet
<1>13. CASE UNCHANGED <<store, req, handled, settled>>
  BY <1>13, Zenon DEF Claims, IInv, ClaimHeld, ClaimExclusive, SettledIsClosed, Holding,
     Working, Owns
<1>14. ASSUME NEW e \in Events, ReplayEvent(e) PROVE Claims'
  BY <1>13, <1>14, Zenon DEF ReplayEvent
<1> QED
  BY <1>1, <1>2, <1>3, <1>4, <1>5, <1>6, <1>7, <1>8, <1>9, <1>10, <1>11, <1>12,
     <1>13, <1>14, Zenon DEF Next, Step, vars

\* Before the first webhook nothing is claimed.
LEMMA InitIInv == Init => IInv
<1> SUFFICES ASSUME Init PROVE ClaimHeld /\ ClaimExclusive /\ SettledIsClosed
  BY InitTypeOK, Zenon DEF IInv
<1>1. \A r \in Requests : req[r].pc = "idle"
  BY Zenon DEF Init, Idle
<1> QED
  BY <1>1 DEF Init, ClaimHeld, ClaimExclusive, SettledIsClosed, Holding

\* The invariant holds from the first webhook on.
LEMMA InvariantHolds == Spec => []IInv
BY InitIInv, NextIInv, PTL DEF Spec

-----------------------------------------------------------------------------
(* Theorems.                                                               *)

\* The state of the handler always has the declared types.
THEOREM TypeCorrect == Spec => []TypeOK
BY InvariantHolds, PTL DEF IInv

\* The claim TryLock grants is exclusive: two requests, on any replicas, never
\* process the same event at the same time.
THEOREM ClaimIsExclusive == Spec => []ClaimExclusive
BY InvariantHolds, PTL DEF IInv

\* The app's handler succeeds at most once per event, however often the event is
\* delivered and whatever fails or crashes.
THEOREM HandledOnce == Spec => []HandledAtMostOnce
<1>1. IInv => HandledAtMostOnce
  BY Zenon DEF IInv, SettledIsClosed, HandledAtMostOnce
<1> QED
  BY <1>1, InvariantHolds, PTL

\* A disposed event stays disposed of in the same way, and no later delivery runs
\* its handler: a claim is granted, and a handler run, only before that.
THEOREM DisposalIsFinal == Spec => SettledIsFinal
<1>1. ASSUME IInv, [Next]_vars, NEW e \in Events, settled[e] # "no"
      PROVE  settled'[e] = settled[e] /\ handled'[e] = handled[e]
  <2> USE DEF histVars
  <2>a. store[e].state # "absent" /\ \A r \in Requests : req[r].evt = e => ~Working(r)
    BY <1>1, Zenon DEF IInv, SettledIsClosed
  <2>1. ASSUME NEW r \in Requests, TryLock(r)
        PROVE  settled'[e] = settled[e] /\ handled'[e] = handled[e]
    BY <1>1, <2>1, Zenon DEF TryLock, IInv, TypeOK
  <2>2. ASSUME NEW r \in Requests, RunHandler(r)
        PROVE  settled'[e] = settled[e] /\ handled'[e] = handled[e]
    <3>1. req[r].evt # e
      BY <2>2, <2>a, Zenon DEF RunHandler, Working
    <3> QED
      BY <1>1, <2>2, <3>1, Zenon DEF RunHandler, IInv, TypeOK
  <2>3. ASSUME NEW r \in Requests, Exhaust(r)
        PROVE  settled'[e] = settled[e] /\ handled'[e] = handled[e]
    BY <1>1, <2>3, Zenon DEF Exhaust, IInv, TypeOK
  <2>4. CASE UNCHANGED <<handled, settled>>
    BY <2>4, Zenon
  <2> QED
    BY <1>1, <2>1, <2>2, <2>3, <2>4, Zenon DEF Next, Step, vars, Deliver, Crash, StoreGet,
       Decide, UnlockClaim, LogFailure, MarkProcessed, LogOutcome, Respond, ReplayEvent
<1>2. IInv /\ [Next]_vars =>
          [\A e \in Events : settled[e] # "no" => /\ settled'[e] = settled[e]
                                                  /\ handled'[e] = handled[e]]_vars
  BY <1>1, Zenon
<1> QED
  BY <1>2, InvariantHolds, PTL DEF Spec, SettledIsFinal

-----------------------------------------------------------------------------
(* Typed handlers.                                                         *)

\* An event that is not this app's reaches a typed handler only by a replay.
ReplayedOnly ==
    \A e \in Events : Kind[e] # "own" => typed[e] + env.replays <= MaxReplays

\* Of what the pipeline and the operator do, only ReplayEvent dispatches an event
\* without the namespace filter (classifyNamespace).
LEMMA NextReplayed == TypeOK /\ ReplayedOnly /\ [Next]_vars => ReplayedOnly'
<1> SUFFICES ASSUME TypeOK, ReplayedOnly, [Next]_vars,
                    NEW e \in Events, Kind[e] # "own"
             PROVE  typed'[e] + env'.replays <= MaxReplays
  BY Zenon DEF ReplayedOnly
<1> USE DEF histVars
<1>0. /\ typed[e] \in Nat /\ env.replays \in Nat /\ MaxReplays \in Nat
      /\ typed[e] + env.replays <= MaxReplays
  BY ConfigAssumption, Zenon DEF TypeOK, EnvType, ReplayedOnly, ConfigAssumption
<1>f. ASSUME NEW op, Fault(op) PROVE env'.replays = env.replays
  BY <1>f, Zenon DEF Fault, TypeOK, EnvType
<1>1. ASSUME NEW r \in Requests, NEW d \in Events, Deliver(r, d)
      PROVE  typed' = typed /\ env'.replays = env.replays
  BY <1>1, Zenon DEF Deliver, TypeOK, EnvType
<1>2. ASSUME NEW r \in Requests, Crash(r)
      PROVE  typed' = typed /\ env'.replays = env.replays
  BY <1>2, Zenon DEF Crash, TypeOK, EnvType
<1>3. ASSUME NEW r \in Requests, RunHandler(r)
      PROVE  typed'[e] = typed[e] /\ env'.replays = env.replays
  BY <1>3, Zenon DEF RunHandler, RunsTyped, TypeOK
<1>4. ASSUME NEW r \in Requests, Step(r), ~RunHandler(r)
      PROVE  typed' = typed /\ env'.replays = env.replays
  BY <1>4, <1>f, Zenon DEF Step, StoreGet, TryLock, Decide, Exhaust, UnlockClaim, LogFailure,
     MarkProcessed, LogOutcome, Respond, Respond500, Respond200, RecordToLog
<1>5. ASSUME NEW d \in Events, ReplayEvent(d)
      PROVE  typed'[e] + env'.replays <= MaxReplays
  <2>1. typed'[e] <= typed[e] + 1 /\ typed'[e] \in Nat /\ env'.replays = env.replays - 1
    BY <1>0, <1>5 DEF ReplayEvent, TypeOK, EnvType
  <2> QED
    BY <1>0, <2>1
<1>6. CASE UNCHANGED vars
  BY <1>0, <1>6, Zenon DEF vars
<1> QED
  BY <1>0, <1>1, <1>2, <1>3, <1>4, <1>5, <1>6, Zenon DEF Next

\* The typed handlers run for a foreign or unstamped event at most as often as an
\* operator replays one.
THEOREM TypedByReplayOnly == Spec => []ReplayedOnly
<1>1. Init => ReplayedOnly
  BY ConfigAssumption DEF Init, ReplayedOnly, ConfigAssumption
<1> QED
  BY <1>1, NextReplayed, TypeCorrect, PTL DEF Spec

-----------------------------------------------------------------------------
\* A step of r: it goes on with its event or ends, and the others stay as they are.
Moves(r) ==
    /\ req[r].pc # "idle"
    /\ \A s \in Requests : s # r => req'[s] = req[s]
    /\ \/ req'[r] = Idle
       \/ req'[r].evt = req[r].evt /\ req'[r].pc # "idle"
    /\ env'.crashes = env.crashes

\* Replacing the state of r by one with the same event moves r.
LEMMA UpdateMoves ==
    ASSUME TypeOK, NEW r \in Requests, NEW v, req' = [req EXCEPT ![r] = v],
           req[r].pc # "idle", v.evt = req[r].evt, v.pc # "idle",
           env'.crashes = env.crashes
    PROVE  Moves(r)
BY Zenon DEF TypeOK, Moves

\* The answer to a request moves it.
LEMMA EndMoves ==
    ASSUME TypeOK, NEW r \in Requests, req' = [req EXCEPT ![r] = Idle],
           req[r].pc # "idle", env'.crashes = env.crashes
    PROVE  Moves(r)
BY Zenon DEF TypeOK, Moves

\* Going on to the next call moves the request.
LEMMA GotoMoves ==
    ASSUME TypeOK, NEW r \in Requests, NEW pc, pc # "idle", Goto(r, pc),
           req[r].pc # "idle", env'.crashes = env.crashes
    PROVE  Moves(r) /\ req'[r].pc = pc
<1> DEFINE v == [req[r] EXCEPT !.pc = pc]
<1>1. v.evt = req[r].evt /\ v.pc = pc
  BY Zenon DEF TypeOK, RequestType
<1>2. req' = [req EXCEPT ![r] = v]
  BY Zenon DEF Goto
<1> HIDE DEF v
<1>3. req'[r].pc = pc
  BY <1>1, <1>2, Zenon DEF TypeOK
<1>4. v.pc # "idle"
  BY <1>1, Zenon
<1>5. Moves(r)
  BY <1>1, <1>2, <1>4, Zenon DEF TypeOK, Moves
<1> QED
  BY <1>3, <1>5, Zenon

\* Each call of Handle moves its own request.
LEMMA StepMoves ==
    ASSUME TypeOK, NEW r \in Requests, Step(r)
    PROVE  Moves(r)
<1>0. req[r] \in RequestType
  BY Zenon DEF TypeOK
<1>f. ASSUME NEW op, Fault(op) PROVE env'.crashes = env.crashes
  BY <1>f, Zenon DEF Fault, TypeOK, EnvType
<1>1. CASE StoreGet(r)
  BY <1>1, <1>f, EndMoves, GotoMoves, Zenon DEF StoreGet, Respond500, Respond200, Ack
<1>2. CASE TryLock(r)
  <2> DEFINE e == req[r].evt
             v == [req[r] EXCEPT !.pc = Route(e), !.token = nextToken,
                                 !.outcome = IF Kind[e] = "foreign" THEN "skipped" ELSE "none"]
  <2>1. e \in Events
    BY <1>2, Zenon DEF TryLock, TypeOK
  <2>2. v.evt = e /\ v.pc # "idle"
    <3>1. Route(e) # "idle"
      BY <2>1, ConfigAssumption, Zenon DEF Route, ConfigAssumption
    <3> QED
      BY <1>0, <3>1, Zenon DEF RequestType
  <2>3. CASE req' = [req EXCEPT ![r] = v] /\ UNCHANGED env
    <3> HIDE DEF v
    <3>1. req[r].pc # "idle" /\ env'.crashes = env.crashes
      BY <1>2, <2>3, Zenon DEF TryLock
    <3> QED
      BY <2>2, <2>3, <3>1, Zenon DEF TypeOK, Moves
  <2> QED
    BY <1>2, <1>f, <2>3, EndMoves, Zenon DEF TryLock, Respond500, Respond200, Ack
<1>3. CASE RunHandler(r)
  <2> DEFINE e == req[r].evt
             ok == [req[r] EXCEPT !.pc = "set", !.outcome = "processed"]
             failed == [req[r] EXCEPT !.pc = IF RunsTyped(e) THEN "decide" ELSE "unlock",
                                      !.attempt = 1]
  <2>1. ok.evt = e /\ ok.pc # "idle" /\ failed.evt = e /\ failed.pc # "idle"
    BY <1>0, Zenon DEF RequestType
  <2>2. req' = [req EXCEPT ![r] = ok] \/ req' = [req EXCEPT ![r] = failed]
    BY <1>3, Zenon DEF RunHandler
  <2>3. req[r].pc # "idle" /\ env'.crashes = env.crashes
    BY <1>3, Zenon DEF RunHandler
  <2> HIDE DEF ok, failed
  <2> QED
    BY <2>1, <2>2, <2>3, UpdateMoves, Zenon
<1>4. CASE Decide(r)
  <2> DEFINE e == req[r].evt
             v(n) == [req[r] EXCEPT !.attempt = n,
                                    !.pc = IF Exhausted(e, n) THEN "exhaust" ELSE "unlock"]
  <2>1. \A n : v(n).evt = e /\ v(n).pc # "idle"
    BY <1>0, Zenon DEF RequestType
  <2>2. req' = [req EXCEPT ![r] = v(eventLog[e].attempts + 1)] \/ req' = [req EXCEPT ![r] = v(1)]
    BY <1>4, Zenon DEF Decide
  <2>3. req[r].pc # "idle" /\ env'.crashes = env.crashes
    BY <1>4, <1>f, Zenon DEF Decide
  <2> HIDE DEF v
  <2> QED
    BY <2>1, <2>2, <2>3, UpdateMoves, Zenon
<1>5. CASE Exhaust(r)
  <2> DEFINE v == [req[r] EXCEPT !.pc = "set", !.outcome = "gaveUp"]
  <2>1. v.evt = req[r].evt /\ v.pc # "idle"
    BY <1>0, Zenon DEF RequestType
  <2>2. env'.crashes = env.crashes /\ req[r].pc # "idle"
    BY <1>5, <1>f, Zenon DEF Exhaust, RecordToLog
  <2>3. req' = [req EXCEPT ![r] = v] \/ Goto(r, "unlock")
    BY <1>5, Zenon DEF Exhaust
  <2> HIDE DEF v
  <2> QED
    BY <2>1, <2>2, <2>3, UpdateMoves, GotoMoves, Zenon
<1>6. CASE UnlockClaim(r) \/ MarkProcessed(r) \/ LogOutcome(r)
  BY <1>6, <1>f, GotoMoves, Zenon DEF UnlockClaim, MarkProcessed, LogOutcome, RecordToLog
<1>7. CASE LogFailure(r) \/ Respond(r)
  BY <1>7, <1>f, EndMoves, Zenon DEF LogFailure, RecordToLog, Respond500, Respond, Respond200, Ack
<1> QED
  BY <1>1, <1>2, <1>3, <1>4, <1>5, <1>6, <1>7, Zenon DEF Step

(* What each step does to its event, point by point.                       *)

\* recordToLog, unless the log may fail and does.
LogStep(e, st, n) ==
    \/ eventLog'[e] = [status |-> st, attempts |-> IF n = 0 THEN eventLog[e].attempts ELSE n]
    \/ "log" \in FaultyOps /\ eventLog'[e] = eventLog[e]

\* A request answered before it claimed its event: with 200 only if somebody has.
AnswersEarly(r, e) ==
    /\ req[r].pc \in {"get", "lock"} /\ req'[r] = Idle
    /\ acked'[e] = acked[e] \/ store[e].state # "absent"
    /\ UNCHANGED <<store, settled, failures, eventLog>>

Looks(r, e) ==
    /\ req[r].pc = "get" /\ req'[r].pc = "lock"
    /\ UNCHANGED <<store, settled, failures, eventLog, acked>>

Claims(r, e) ==
    /\ req[r].pc = "lock"
    /\ store[e].state = "absent" /\ store'[e].state # "absent"
    /\ IF Kind[e] = "foreign"
       THEN /\ req'[r].pc = "set" /\ req'[r].outcome = "skipped"
            /\ settled'[e] = IF settled[e] = "no" THEN "skipped" ELSE settled[e]
       ELSE req'[r].pc \in {"run", "claim"} /\ settled'[e] = settled[e]
    /\ UNCHANGED <<failures, eventLog, acked>>

Runs(r, e) ==
    /\ req[r].pc = "run"
    /\ \/ /\ req'[r].pc = "set" /\ req'[r].outcome = "processed"
          /\ settled'[e] = "handled" /\ failures'[e] = failures[e]
       \/ /\ req'[r].pc = IF Kind[e] = "own" THEN "decide" ELSE "unlock"
          /\ req'[r].attempt = 1
          /\ settled'[e] = settled[e] /\ failures'[e] = failures[e] + 1
    /\ UNCHANGED <<store, eventLog, acked>>

Decides(r, e) ==
    /\ req[r].pc = "decide"
    /\ \/ req'[r].attempt = eventLog[e].attempts + 1
       \/ "log" \in FaultyOps /\ req'[r].attempt = 1
    /\ req'[r].pc = IF Exhausted(e, req'[r].attempt) THEN "exhaust" ELSE "unlock"
    /\ UNCHANGED <<store, settled, failures, eventLog, acked>>

Exhausts(r, e) ==
    /\ req[r].pc = "exhaust"
    /\ LogStep(e, "failed", req[r].attempt)
    /\ \/ /\ req'[r].pc = "set" /\ req'[r].outcome = "gaveUp"
          /\ settled'[e] = IF settled[e] = "no" THEN "gaveUp" ELSE settled[e]
       \/ /\ OnExhausted[e] = "any" /\ req'[r].pc = "unlock" /\ settled'[e] = settled[e]
          /\ req'[r].attempt = req[r].attempt
    /\ UNCHANGED <<store, failures, acked>>

Unlocks(r, e) ==
    /\ req[r].pc = "unlock" /\ req'[r].pc = "logFail"
    /\ req'[r].attempt = req[r].attempt
    /\ \/ store'[e].state = "absent"
       \/ /\ "unlock" \in FaultyOps \/ ~Owns(store, e, req[r].token)
          /\ store'[e] = store[e]
    /\ UNCHANGED <<settled, failures, eventLog, acked>>

Fails(r, e) ==
    /\ req[r].pc = "logFail" /\ req'[r] = Idle
    /\ LogStep(e, "failed", req[r].attempt)
    /\ UNCHANGED <<store, settled, failures, acked>>

Marks(r, e) ==
    /\ req[r].pc = "set" /\ req'[r].pc = "finish"
    /\ req'[r].outcome = req[r].outcome
    /\ store[e].state # "absent" => store'[e].state # "absent"
    /\ UNCHANGED <<settled, failures, eventLog, acked>>

Logs(r, e) ==
    /\ req[r].pc = "finish" /\ req'[r].pc = "respond"
    /\ IF req[r].outcome = "gaveUp" THEN eventLog'[e] = eventLog[e]
       ELSE LogStep(e, req[r].outcome, 0)
    /\ UNCHANGED <<store, settled, failures, acked>>

Responds(r, e) ==
    /\ req[r].pc = "respond" /\ req'[r] = Idle
    /\ UNCHANGED <<store, settled, failures, eventLog>>

Effect(r, e) ==
    \/ AnswersEarly(r, e) \/ Looks(r, e) \/ Claims(r, e) \/ Runs(r, e) \/ Decides(r, e)
    \/ Exhausts(r, e) \/ Unlocks(r, e) \/ Fails(r, e) \/ Marks(r, e) \/ Logs(r, e)
    \/ Responds(r, e)

\* A step leaves the events of other requests alone.
Elsewhere(e) ==
    \A f \in Events : f # e =>
        /\ store'[f] = store[f] /\ settled'[f] = settled[f] /\ failures'[f] = failures[f]
        /\ eventLog'[f] = eventLog[f] /\ acked'[f] = acked[f]

\* recordToLog writes the row of its event only.
LEMMA RecordEffect ==
    ASSUME TypeOK, NEW e \in Events, NEW st, NEW n \in Nat, RecordToLog(e, st, n)
    PROVE  LogStep(e, st, n) /\ \A f \in Events : f # e => eventLog'[f] = eventLog[f]
BY Zenon DEF TypeOK, RecordToLog, Record, LogType, Fault, LogStep

\* Each call of Handle has its effect on its own event.
LEMMA StepEffect ==
    ASSUME TypeOK, NEW r \in Requests, Step(r)
    PROVE  /\ req[r].evt \in Events /\ Moves(r)
           /\ Effect(r, req[r].evt) /\ Elsewhere(req[r].evt)
<1> DEFINE e == req[r].evt
<1> USE DEF storeVars, histVars
<1>m. Moves(r) /\ e \in Events
  BY StepMoves, Zenon DEF Moves, TypeOK
<1>0. req[r] \in RequestType /\ e \in Events
  BY <1>m, Zenon DEF TypeOK
<1>1. CASE StoreGet(r)
  <2>1. CASE Goto(r, "lock") /\ UNCHANGED <<acked, env>>
    BY <1>1, <1>m, <2>1, GotoMoves, Zenon DEF StoreGet, Effect, Looks, Elsewhere
  <2>2. CASE Fault("get") /\ Respond500(r)
    BY <1>1, <1>m, <2>2, Zenon DEF StoreGet, Respond500, TypeOK, Effect, AnswersEarly, Elsewhere
  <2>3. CASE Found(store, e) /\ Respond200(r)
    BY <1>1, <1>m, <2>3, Zenon
       DEF StoreGet, Respond200, Ack, Found, TypeOK, Effect, AnswersEarly, Elsewhere
  <2> QED
    BY <1>1, <2>1, <2>2, <2>3, Zenon DEF StoreGet
<1>2. CASE TryLock(r)
  <2> DEFINE v == [req[r] EXCEPT !.pc = Route(e), !.token = nextToken,
                                 !.outcome = IF Kind[e] = "foreign" THEN "skipped" ELSE "none"]
  <2>1. CASE Fault("lock") /\ Respond500(r) /\ UNCHANGED <<storeVars, settled>>
    BY <1>2, <1>m, <2>1, Zenon DEF TryLock, Respond500, TypeOK, Effect, AnswersEarly, Elsewhere
  <2>2. CASE ~Lockable(store, e) /\ Respond200(r) /\ UNCHANGED <<storeVars, settled>>
    BY <1>2, <1>m, <2>2, Zenon
       DEF TryLock, Respond200, Ack, Lockable, TypeOK, Effect, AnswersEarly, Elsewhere
  <2>3. ASSUME Lockable(store, e), store' = Lock(store, e, nextToken),
               req' = [req EXCEPT ![r] = v],
               settled' = [settled EXCEPT ![e] =
                             IF Kind[e] = "foreign" /\ @ = "no" THEN "skipped" ELSE @],
               UNCHANGED <<acked, env>>
        PROVE  Effect(r, e) /\ Elsewhere(e)
    <3>1. /\ v.pc = Route(e)
          /\ v.outcome = IF Kind[e] = "foreign" THEN "skipped" ELSE "none"
      BY <1>0, Zenon DEF RequestType
    <3>2. /\ Kind[e] = "foreign" => Route(e) = "set"
          /\ Kind[e] # "foreign" => Route(e) \in {"run", "claim"}
      BY <1>0, ConfigAssumption, Zenon DEF Route, ConfigAssumption
    <3> HIDE DEF v
    <3>3. req'[r] = v
      BY <2>3, Zenon DEF TypeOK
    <3>4. /\ store[e].state = "absent" /\ store'[e].state # "absent"
          /\ settled'[e] = IF Kind[e] = "foreign" /\ settled[e] = "no" THEN "skipped" ELSE settled[e]
          /\ \A f \in Events : f # e => store'[f] = store[f] /\ settled'[f] = settled[f]
      BY <1>0, <2>3, Zenon DEF Lockable, Lock, TypeOK, StoreType
    <3>5. UNCHANGED <<failures, eventLog, acked>>
      BY <1>2, <2>3, Zenon DEF TryLock
    <3> QED
      BY <1>2, <3>1, <3>2, <3>3, <3>4, <3>5, Zenon DEF TryLock, Effect, Claims, Elsewhere
  <2> QED
    BY <1>2, <1>m, <2>1, <2>2, <2>3, Zenon DEF TryLock
<1>3. CASE RunHandler(r)
  <2> DEFINE ok == [req[r] EXCEPT !.pc = "set", !.outcome = "processed"]
             failed == [req[r] EXCEPT !.pc = IF RunsTyped(e) THEN "decide" ELSE "unlock",
                                      !.attempt = 1]
  <2>1. /\ ok.pc = "set" /\ ok.outcome = "processed"
        /\ failed.pc = IF Kind[e] = "own" THEN "decide" ELSE "unlock"
        /\ failed.attempt = 1
    BY <1>0, Zenon DEF RequestType, RunsTyped
  <2>2. /\ UNCHANGED <<store, eventLog, acked>> /\ req[r].pc = "run"
        /\ \/ req' = [req EXCEPT ![r] = ok] /\ settled' = [settled EXCEPT ![e] = "handled"]
              /\ UNCHANGED failures
           \/ req' = [req EXCEPT ![r] = failed] /\ failures' = [failures EXCEPT ![e] = @ + 1]
              /\ UNCHANGED settled
    BY <1>3, Zenon DEF RunHandler
  <2> HIDE DEF ok, failed
  <2> QED
    BY <1>0, <1>m, <2>1, <2>2, Zenon DEF TypeOK, Effect, Runs, Elsewhere
<1>4. CASE Decide(r)
  <2> DEFINE v(n) == [req[r] EXCEPT !.attempt = n,
                                    !.pc = IF Exhausted(e, n) THEN "exhaust" ELSE "unlock"]
             A == eventLog[e].attempts + 1
  <2>1. /\ v(A).attempt = A /\ v(A).pc = IF Exhausted(e, A) THEN "exhaust" ELSE "unlock"
        /\ v(1).attempt = 1 /\ v(1).pc = IF Exhausted(e, 1) THEN "exhaust" ELSE "unlock"
    BY <1>0, Zenon DEF RequestType
  <2>2. \/ req' = [req EXCEPT ![r] = v(A)]
        \/ req' = [req EXCEPT ![r] = v(1)] /\ "log" \in FaultyOps
    BY <1>4, Zenon DEF Decide, Fault
  <2>3. req[r].pc = "decide" /\ UNCHANGED <<store, settled, failures, eventLog, acked>>
    BY <1>4, Zenon DEF Decide
  <2> HIDE DEF v
  <2>4. \/ req'[r] = v(A)
        \/ req'[r] = v(1) /\ "log" \in FaultyOps
    BY <2>2, Zenon DEF TypeOK
  <2> QED
    BY <1>m, <2>1, <2>3, <2>4, Zenon DEF Effect, Decides, Elsewhere
<1>5. CASE Exhaust(r)
  <2> DEFINE v == [req[r] EXCEPT !.pc = "set", !.outcome = "gaveUp"]
  <2>1. v.pc = "set" /\ v.outcome = "gaveUp"
    BY <1>0, Zenon DEF RequestType
  <2>2. /\ req[r].pc = "exhaust" /\ UNCHANGED <<store, failures, acked>>
        /\ RecordToLog(e, "failed", req[r].attempt)
        /\ \/ /\ req' = [req EXCEPT ![r] = v]
              /\ settled' = [settled EXCEPT ![e] = IF @ = "no" THEN "gaveUp" ELSE @]
           \/ OnExhausted[e] = "any" /\ Goto(r, "unlock") /\ UNCHANGED settled
    BY <1>5, Zenon DEF Exhaust
  <2> HIDE DEF v
  <2>3. /\ LogStep(e, "failed", req[r].attempt)
        /\ \A f \in Events : f # e => eventLog'[f] = eventLog[f]
    BY <1>0, <2>2, RecordEffect, Zenon DEF RequestType
  <2>4. Goto(r, "unlock") => req'[r].pc = "unlock" /\ req'[r].attempt = req[r].attempt
    BY <1>0, Zenon DEF Goto, TypeOK, RequestType
  <2>5. /\ \A f \in Events : f # e => settled'[f] = settled[f]
        /\ \/ /\ req'[r].pc = "set" /\ req'[r].outcome = "gaveUp"
              /\ settled'[e] = IF settled[e] = "no" THEN "gaveUp" ELSE settled[e]
           \/ /\ OnExhausted[e] = "any" /\ req'[r].pc = "unlock" /\ settled'[e] = settled[e]
              /\ req'[r].attempt = req[r].attempt
    BY <1>0, <2>1, <2>2, <2>4, Zenon DEF TypeOK
  <2> QED
    BY <1>m, <2>2, <2>3, <2>5, Zenon DEF Effect, Exhausts, Elsewhere
<1>6. CASE UnlockClaim(r)
  <2>1. Goto(r, "logFail") /\ req[r].pc = "unlock" /\ UNCHANGED <<settled, failures, eventLog, acked>>
    BY <1>6, Zenon DEF UnlockClaim
  <2>2. req'[r].pc = "logFail" /\ req'[r].attempt = req[r].attempt
    BY <1>0, <2>1, Zenon DEF Goto, TypeOK, RequestType
  <2>3. /\ \/ store'[e].state = "absent"
           \/ /\ "unlock" \in FaultyOps \/ ~Owns(store, e, req[r].token)
              /\ store'[e] = store[e]
        /\ \A f \in Events : f # e => store'[f] = store[f]
    BY <1>0, <1>6, <2>1
       DEF UnlockClaim, Release, Owns, Absent, Fault, Holding, TypeOK, StoreType
  <2> QED
    BY <1>m, <2>1, <2>2, <2>3, Zenon DEF Effect, Unlocks, Elsewhere
<1>7. CASE MarkProcessed(r)
  <2>1. Goto(r, "finish") /\ req[r].pc = "set" /\ UNCHANGED <<settled, failures, eventLog, acked>>
    BY <1>7, Zenon DEF MarkProcessed
  <2>2. req'[r].pc = "finish" /\ req'[r].outcome = req[r].outcome
    BY <1>0, <2>1, Zenon DEF Goto, TypeOK, RequestType
  <2>3. /\ store[e].state # "absent" => store'[e].state # "absent"
        /\ \A f \in Events : f # e => store'[f] = store[f]
    BY <1>0, <1>7, <2>1
       DEF MarkProcessed, SetDone, Owns, Fault, Holding, TypeOK, StoreType
  <2> QED
    BY <1>m, <2>1, <2>2, <2>3, Zenon DEF Effect, Marks, Elsewhere
<1>8. CASE LogOutcome(r)
  <2>1. Goto(r, "respond") /\ req[r].pc = "finish" /\ UNCHANGED <<store, settled, failures, acked>>
    BY <1>8, Zenon DEF LogOutcome
  <2>2. req'[r].pc = "respond"
    BY <1>0, <2>1, Zenon DEF Goto, TypeOK, RequestType
  <2>3. /\ IF req[r].outcome = "gaveUp" THEN eventLog'[e] = eventLog[e]
           ELSE LogStep(e, req[r].outcome, 0)
        /\ \A f \in Events : f # e => eventLog'[f] = eventLog[f]
    BY <1>0, <1>8, RecordEffect, Zenon DEF LogOutcome
  <2> QED
    BY <1>m, <2>1, <2>2, <2>3, Zenon DEF Effect, Logs, Elsewhere
<1>9. CASE LogFailure(r)
  <2>1. /\ req' = [req EXCEPT ![r] = Idle] /\ req[r].pc = "logFail"
        /\ UNCHANGED <<store, settled, failures, acked>>
        /\ RecordToLog(e, "failed", req[r].attempt)
    BY <1>9, Zenon DEF LogFailure, Respond500
  <2>2. /\ LogStep(e, "failed", req[r].attempt)
        /\ \A f \in Events : f # e => eventLog'[f] = eventLog[f]
    BY <1>0, <2>1, RecordEffect, Zenon DEF RequestType
  <2> QED
    BY <1>m, <2>1, <2>2, Zenon DEF Effect, Fails, Elsewhere, TypeOK
<1>10. CASE Respond(r)
  BY <1>10, <1>m, Zenon
     DEF Respond, Respond200, Ack, TypeOK, Effect, Responds, Elsewhere
<1> QED
  BY <1>m, <1>1, <1>2, <1>3, <1>4, <1>5, <1>6, <1>7, <1>8, <1>9, <1>10, Zenon DEF Step

-----------------------------------------------------------------------------
(* An event is given up only after its attempts.                           *)

\* Neither the log nor a request counts more attempts than the handler failed, and
\* while a request has yet to count its failure they count less.  A request that
\* has released its claim may still log its count (logFail).
NeverOvercounted ==
    /\ \A e \in Events : eventLog[e].attempts <= failures[e]
    /\ \A r \in Requests :
         /\ req[r].pc \in {"exhaust", "unlock", "logFail"} =>
                req[r].attempt <= failures[req[r].evt]
         /\ req[r].pc = "decide" =>
                /\ eventLog[req[r].evt].attempts < failures[req[r].evt]
                /\ \A s \in Requests : req[s].pc = "logFail" /\ req[s].evt = req[r].evt =>
                       req[s].attempt < failures[req[r].evt]
         /\ req[r].pc = "exhaust" => req[r].attempt >= MaxAttempts[req[r].evt]

CountInv == IInv /\ NeverOvercounted /\ GivenUpAfterMaxAttempts

\* A step of a request counts a failure once: the claim keeps two requests from
\* counting at the same time.
LEMMA StepCounts ==
    ASSUME CountInv, TypeOK', NEW r \in Requests, Step(r)
    PROVE  NeverOvercounted' /\ GivenUpAfterMaxAttempts'
<1>0. TypeOK /\ ClaimExclusive /\ NeverOvercounted /\ GivenUpAfterMaxAttempts
  BY Zenon DEF CountInv, IInv
<1>1. PICK e \in Events : e = req[r].evt
  BY <1>0, StepEffect, Zenon
<1>2. Moves(r) /\ Effect(r, e) /\ Elsewhere(e)
  BY <1>0, <1>1, StepEffect, Zenon
<1>3. /\ req[r].pc # "idle"
      /\ \A s \in Requests : s # r => req'[s] = req[s]
      /\ req'[r] = Idle \/ (req'[r].evt = e /\ req'[r].pc # "idle")
  BY <1>1, <1>2, Zenon DEF Moves
<1>4. \A f \in Events : f # e => /\ failures'[f] = failures[f] /\ settled'[f] = settled[f]
                                /\ eventLog'[f] = eventLog[f]
  BY <1>2, Zenon DEF Elsewhere
<1>5. /\ \A f \in Events : /\ failures[f] \in Nat /\ eventLog[f].attempts \in Nat
                           /\ MaxAttempts[f] \in Nat /\ failures'[f] \in Nat
                           /\ eventLog'[f].attempts \in Nat
      /\ \A s \in Requests : req[s].attempt \in Nat /\ req'[s].attempt \in Nat
      /\ \A s \in Requests : req[s].pc # "idle" => req[s].evt \in Events
  BY <1>0, ConfigAssumption, Zenon DEF TypeOK, LogType, RequestType, ConfigAssumption
<1>i. Idle.pc = "idle"
  BY Zenon DEF Idle
<1>x. \A s \in Requests : s # r /\ Holding(r) /\ req[s].evt = e => ~Holding(s)
  BY <1>0, <1>1, Zenon DEF ClaimExclusive
<1>y. \A s \in Requests : s # r /\ Holding(r) /\ req[s].evt = e =>
         req[s].pc \notin {"decide", "exhaust", "unlock"}
  BY <1>x, Zenon DEF Holding
<1>o. ASSUME \A f \in Events : failures[f] <= failures'[f],
             \A f \in Events : eventLog'[f].attempts <= failures'[f],
             \A s \in Requests : s # r /\ req[s].pc = "decide" =>
                 eventLog'[req[s].evt].attempts < failures'[req[s].evt],
             \A s, t \in Requests :
                 req'[s].pc = "decide" /\ req'[t].pc = "logFail" /\ req'[t].evt = req'[s].evt
                     => req'[t].attempt < failures'[req'[s].evt],
             req'[r].pc \in {"exhaust", "unlock", "logFail"} => req'[r].attempt <= failures'[req'[r].evt],
             req'[r].pc = "decide" => eventLog'[req'[r].evt].attempts < failures'[req'[r].evt],
             req'[r].pc = "exhaust" => req'[r].attempt >= MaxAttempts[req'[r].evt]
      PROVE  NeverOvercounted'
  <2>1. ASSUME NEW s \in Requests
        PROVE  /\ req'[s].pc \in {"exhaust", "unlock", "logFail"} =>
                      req'[s].attempt <= failures'[req'[s].evt]
               /\ req'[s].pc = "decide" => eventLog'[req'[s].evt].attempts < failures'[req'[s].evt]
               /\ req'[s].pc = "exhaust" => req'[s].attempt >= MaxAttempts[req'[s].evt]
    <3>1. CASE s = r
      BY <1>o, <3>1, Zenon
    <3>2. CASE s # r
      <4>1. PICK g : g = req[s].evt
        OBVIOUS
      <4>2. req'[s] = req[s]
        BY <1>3, <3>2, Zenon
      <4>3. req[s].pc \in {"exhaust", "unlock", "logFail"} => g \in Events /\ req[s].attempt <= failures[g]
        BY <1>0, <1>5, <4>1, Zenon DEF NeverOvercounted
      <4>4. req[s].pc = "exhaust" => req[s].attempt >= MaxAttempts[g]
        BY <1>0, <4>1, Zenon DEF NeverOvercounted
      <4>5. req[s].pc \in {"exhaust", "unlock", "logFail"} => req[s].attempt <= failures'[g]
        <5>1. g \in Events => failures[g] <= failures'[g] /\ failures[g] \in Nat /\ failures'[g] \in Nat
          BY <1>o, <1>5, Zenon
        <5> QED
          BY <1>5, <4>3, <5>1
      <4> QED
        BY <1>o, <3>2, <4>1, <4>2, <4>4, <4>5, Zenon
    <3> QED
      BY <3>1, <3>2, Zenon
  <2> QED
    BY <1>o, <2>1, Zenon DEF NeverOvercounted
<1>q. CASE /\ failures'[e] = failures[e] /\ eventLog'[e].attempts = eventLog[e].attempts
           /\ settled'[e] = "gaveUp" => settled[e] = "gaveUp"
           /\ req'[r].pc \notin {"decide", "exhaust", "unlock", "logFail"}
  BY <1>0, <1>3, <1>4, <1>5, <1>q DEF NeverOvercounted, GivenUpAfterMaxAttempts
<1>6. CASE AnswersEarly(r, e) \/ Looks(r, e) \/ Claims(r, e) \/ Marks(r, e) \/ Responds(r, e)
  <2>1. /\ failures'[e] = failures[e] /\ eventLog'[e].attempts = eventLog[e].attempts
        /\ settled'[e] = "gaveUp" => settled[e] = "gaveUp"
        /\ req'[r].pc \notin {"decide", "exhaust", "unlock", "logFail"}
    BY <1>6, <1>i, Zenon DEF AnswersEarly, Looks, Claims, Marks, Responds
  <2> QED
    BY <1>q, <2>1, Zenon
<1>7. CASE Logs(r, e)
  <2>1. /\ failures'[e] = failures[e] /\ eventLog'[e].attempts = eventLog[e].attempts
        /\ settled'[e] = settled[e] /\ req'[r].pc = "respond"
    BY <1>7 DEF Logs, LogStep
  <2> QED
    BY <1>q, <2>1, Zenon
<1>8. CASE Runs(r, e)
  <2>1. CASE req'[r].pc = "set" /\ settled'[e] = "handled" /\ failures'[e] = failures[e]
    BY <1>8, <1>q, <2>1, Zenon DEF Runs
  <2>2. CASE /\ req'[r].pc \in {"decide", "unlock"} /\ req'[r].attempt = 1
             /\ settled'[e] = settled[e] /\ failures'[e] = failures[e] + 1
    <3>1. eventLog' = eventLog /\ req'[r].evt = e /\ Holding(r)
      BY <1>3, <1>8, <1>i, <2>2, Zenon DEF Runs, Holding
    <3>2. /\ \A f \in Events : failures[f] <= failures'[f]
          /\ \A f \in Events : eventLog'[f].attempts <= failures'[f]
          /\ eventLog[e].attempts < failures'[e]
      BY <1>0, <1>4, <1>5, <2>2, <3>1 DEF NeverOvercounted
    <3>3. ASSUME NEW u \in Requests, u # r, req[u].pc = "decide"
          PROVE  eventLog'[req[u].evt].attempts < failures'[req[u].evt] /\ req[u].evt # e
      BY <1>0, <1>4, <1>5, <1>y, <3>1, <3>3, Zenon DEF NeverOvercounted
    <3>4. ASSUME NEW u \in Requests, NEW t \in Requests, req'[u].pc = "decide",
                 req'[t].pc = "logFail", req'[t].evt = req'[u].evt
          PROVE  req'[t].attempt < failures'[req'[u].evt]
      <4>0. t # r /\ req'[t] = req[t]
        BY <1>3, <2>2, <3>4, Zenon
      <4>1. CASE u = r
        <5>1. req[t].attempt <= failures[e]
          BY <1>0, <3>1, <3>4, <4>0, <4>1, Zenon DEF NeverOvercounted
        <5>2. req[t].attempt < failures'[e]
          BY <1>5, <2>2, <5>1
        <5> QED
          BY <3>1, <4>0, <4>1, <5>2, Zenon
      <4>2. CASE u # r
        BY <1>0, <1>3, <1>4, <1>5, <3>3, <3>4, <4>0, <4>2, Zenon DEF NeverOvercounted
      <4> QED
        BY <4>1, <4>2, Zenon
    <3>5. req'[r].pc \in {"exhaust", "unlock", "logFail"} => req'[r].attempt <= failures'[e]
      BY <1>5, <2>2
    <3>6. NeverOvercounted'
      BY <1>o, <2>2, <3>1, <3>2, <3>3, <3>4, <3>5, Zenon
    <3> QED
      BY <1>0, <1>4, <1>5, <2>2, <3>2, <3>6 DEF GivenUpAfterMaxAttempts
  <2> QED
    BY <1>8, <2>1, <2>2, Zenon DEF Runs
<1>9. CASE Decides(r, e)
  <2>1. /\ Holding(r) /\ UNCHANGED <<settled, failures, eventLog>>
        /\ req'[r].attempt = eventLog[e].attempts + 1 \/ req'[r].attempt = 1
        /\ \/ req'[r].pc = "exhaust" /\ Exhausted(e, req'[r].attempt)
           \/ req'[r].pc = "unlock"
    BY <1>9, Zenon DEF Decides, Holding
  <2>2. req'[r].evt = e
    BY <1>3, <1>i, <2>1, Zenon
  <2>3. eventLog[e].attempts < failures[e]
    BY <1>0, <1>1, <1>9, Zenon DEF Decides, NeverOvercounted
  <2>4. /\ req'[r].attempt <= failures[e]
        /\ req'[r].pc = "exhaust" => req'[r].attempt >= MaxAttempts[e]
    BY <1>5, <2>1, <2>3 DEF Exhausted
  <2> QED
    BY <1>0, <1>3, <1>5, <1>y, <2>1, <2>2, <2>4 DEF NeverOvercounted, GivenUpAfterMaxAttempts
<1>10. CASE Exhausts(r, e)
  <2>1. Holding(r) /\ failures' = failures
    BY <1>10, Zenon DEF Exhausts, Holding
  <2>2. req[r].attempt <= failures[e] /\ req[r].attempt >= MaxAttempts[e]
    BY <1>0, <1>1, <1>10, Zenon DEF Exhausts, NeverOvercounted
  <2>3. eventLog'[e].attempts \in {eventLog[e].attempts, req[r].attempt}
    BY <1>10 DEF Exhausts, LogStep
  <2>4. /\ settled'[e] \in {settled[e], "gaveUp"}
        /\ \/ req'[r].pc = "set"
           \/ req'[r].pc = "unlock" /\ req'[r].attempt = req[r].attempt
    BY <1>10, Zenon DEF Exhausts
  <2>5. req'[r].evt = e
    BY <1>3, <1>i, <2>4, Zenon
  <2>6. /\ \A f \in Events : failures[f] <= failures'[f]
        /\ \A f \in Events : eventLog'[f].attempts <= failures'[f]
    BY <1>0, <1>4, <1>5, <2>1, <2>2, <2>3 DEF NeverOvercounted
  <2>7. ASSUME NEW u \in Requests, req'[u].pc = "decide"
        PROVE  u # r /\ req'[u] = req[u] /\ req[u].evt # e
    BY <1>3, <1>y, <2>1, <2>4, <2>7, Zenon
  <2>8. ASSUME NEW u \in Requests, u # r, req[u].pc = "decide"
        PROVE  eventLog'[req[u].evt].attempts < failures'[req[u].evt]
    BY <1>0, <1>3, <1>4, <1>5, <2>1, <2>7, <2>8, Zenon DEF NeverOvercounted
  <2>9. ASSUME NEW u \in Requests, NEW t \in Requests, req'[u].pc = "decide",
               req'[t].pc = "logFail", req'[t].evt = req'[u].evt
        PROVE  req'[t].attempt < failures'[req'[u].evt]
    BY <1>0, <1>3, <2>1, <2>4, <2>7, <2>9, Zenon DEF NeverOvercounted
  <2>10. NeverOvercounted'
    BY <1>o, <2>1, <2>2, <2>4, <2>5, <2>6, <2>8, <2>9, Zenon
  <2> QED
    BY <1>0, <1>4, <1>5, <2>1, <2>2, <2>4, <2>10 DEF GivenUpAfterMaxAttempts
<1>11. CASE Unlocks(r, e)
  <2>1. /\ Holding(r) /\ req'[r].pc = "logFail" /\ req'[r].attempt = req[r].attempt
        /\ UNCHANGED <<settled, failures, eventLog>>
    BY <1>11, Zenon DEF Unlocks, Holding
  <2>2. req'[r].evt = e
    BY <1>3, <1>i, <2>1, Zenon
  <2>3. req[r].attempt <= failures[e]
    BY <1>0, <1>1, <1>11, Zenon DEF Unlocks, NeverOvercounted
  <2> QED
    BY <1>0, <1>3, <1>5, <1>y, <2>1, <2>2, <2>3 DEF NeverOvercounted, GivenUpAfterMaxAttempts
<1>12. CASE Fails(r, e)
  <2>1. /\ UNCHANGED <<settled, failures>> /\ req'[r].pc = "idle"
        /\ eventLog'[e].attempts \in {eventLog[e].attempts, req[r].attempt}
    BY <1>12, <1>i DEF Fails, LogStep
  <2>2. /\ req[r].attempt <= failures[e]
        /\ \A s \in Requests : req[s].pc = "decide" /\ req[s].evt = e =>
              req[r].attempt < failures[e]
    BY <1>0, <1>1, <1>12, Zenon DEF Fails, NeverOvercounted
  <2>3. /\ \A f \in Events : failures[f] <= failures'[f]
        /\ \A f \in Events : eventLog'[f].attempts <= failures'[f]
    BY <1>0, <1>4, <1>5, <2>1, <2>2 DEF NeverOvercounted
  <2>4. ASSUME NEW u \in Requests, u # r, req[u].pc = "decide"
        PROVE  eventLog'[req[u].evt].attempts < failures'[req[u].evt]
    <3>1. eventLog[req[u].evt].attempts < failures[req[u].evt]
      BY <1>0, <2>4, Zenon DEF NeverOvercounted
    <3>2. CASE req[u].evt = e
      BY <2>1, <2>2, <2>4, <3>1, <3>2
    <3>3. CASE req[u].evt # e
      BY <1>4, <1>5, <2>1, <2>4, <3>1, <3>3, Zenon
    <3> QED
      BY <3>2, <3>3, Zenon
  <2>5. ASSUME NEW u \in Requests, NEW t \in Requests, req'[u].pc = "decide",
               req'[t].pc = "logFail", req'[t].evt = req'[u].evt
        PROVE  req'[t].attempt < failures'[req'[u].evt]
    BY <1>0, <1>3, <2>1, <2>5, Zenon DEF NeverOvercounted
  <2>6. NeverOvercounted'
    BY <1>o, <2>1, <2>3, <2>4, <2>5, Zenon
  <2> QED
    BY <1>0, <2>1, <2>6, Zenon DEF GivenUpAfterMaxAttempts
<1> QED
  BY <1>2, <1>6, <1>7, <1>8, <1>9, <1>10, <1>11, <1>12, Zenon DEF Effect

\* A policy gives an event up only after its handler failed MaxAttempts times, for
\* any number of overlapping deliveries, duplicates, crashes and failing calls.
THEOREM AttemptsAreUsed == Spec => []GivenUpAfterMaxAttempts
<1>1. ASSUME Init PROVE NeverOvercounted /\ GivenUpAfterMaxAttempts
  BY <1>1 DEF Init, Idle, NoRow, NeverOvercounted, GivenUpAfterMaxAttempts
<1>2. ASSUME CountInv, IInv', [Next]_vars PROVE CountInv'
  <2>0. TypeOK /\ TypeOK' /\ NeverOvercounted /\ GivenUpAfterMaxAttempts
    BY <1>2, Zenon DEF CountInv, IInv
  <2>1. ASSUME NEW r \in Requests, NEW v, v.pc \notin {"decide", "exhaust", "unlock", "logFail"},
               req' = [req EXCEPT ![r] = v], UNCHANGED <<eventLog, failures, settled>>
        PROVE  NeverOvercounted' /\ GivenUpAfterMaxAttempts'
    BY <2>0, <2>1, Zenon DEF TypeOK, NeverOvercounted, GivenUpAfterMaxAttempts
  <2>2. ASSUME NEW r \in Requests, NEW e \in Events, Deliver(r, e)
        PROVE  NeverOvercounted' /\ GivenUpAfterMaxAttempts'
    <3>1. [Idle EXCEPT !.pc = "get", !.evt = e].pc = "get"
      BY Zenon DEF Idle
    <3> QED
      BY <2>1, <2>2, <3>1, Zenon DEF Deliver, histVars
  <2>3. ASSUME NEW r \in Requests, Crash(r)
        PROVE  NeverOvercounted' /\ GivenUpAfterMaxAttempts'
    BY <2>1, <2>3, IdleType, Zenon DEF Crash, histVars
  <2>4. ASSUME NEW r \in Requests, Step(r)
        PROVE  NeverOvercounted' /\ GivenUpAfterMaxAttempts'
    BY <1>2, <2>0, <2>4, StepCounts, Zenon
  <2>5. ASSUME UNCHANGED <<eventLog, failures, settled, req>>
        PROVE  NeverOvercounted' /\ GivenUpAfterMaxAttempts'
    BY <2>0, <2>5, Zenon DEF NeverOvercounted, GivenUpAfterMaxAttempts
  <2>6. NeverOvercounted' /\ GivenUpAfterMaxAttempts'
    BY <1>2, <2>2, <2>3, <2>4, <2>5, Zenon DEF Next, ReplayEvent, vars
  <2> QED
    BY <1>2, <2>6, Zenon DEF CountInv
<1>3. CountInv => GivenUpAfterMaxAttempts
  BY Zenon DEF CountInv
<1> QED
  BY <1>1, <1>2, <1>3, InvariantHolds, PTL DEF Spec, CountInv

-----------------------------------------------------------------------------
(* One delivery at a time: what holds when Stripe awaits the answer and no *)
(* replica dies.                                                           *)

Serial == ~Overlap /\ MaxCrashes = 0

\* No event is in two requests, and an idle request has none.
Alone ==
    /\ env.crashes = 0
    /\ \A r \in Requests : req[r].pc = "idle" => req[r].evt = NoEvent
    /\ \A r, s \in Requests : req[r].evt = req[s].evt /\ req[r].pc # "idle" => r = s

\* How a request that is done with its event has disposed of it.
Disposal == [processed |-> "handled", skipped |-> "skipped", gaveUp |-> "gaveUp",
             none |-> "no"]

\* Where a request stands says whether, and how, its event is disposed of.
Tracks ==
    \A r \in Requests :
        /\ req[r].pc \in {"set", "finish"} =>
               /\ req[r].outcome # "none"
               /\ settled[req[r].evt] = Disposal[req[r].outcome]
        /\ req[r].pc = "respond" => settled[req[r].evt] # "no"
        /\ req[r].pc = "logFail" => settled[req[r].evt] = "no"

SerialInv == IInv /\ Alone /\ Tracks

\* A key of the store belongs to an event that is disposed of or worked on.
LocksAttended ==
    \A e \in Events : store[e].state # "absent" =>
        settled[e] # "no" \/ \E r \in Requests : req[r].evt = e /\ Holding(r)

\* An event whose policy caps the attempts and whose callback agrees to stop.
Capped(e) == Kind[e] = "own" /\ MaxAttempts[e] > 0 /\ OnExhausted[e] = "ok"

\* A request between a failed run of its handler and the log's row of it.
Counting(r) == req[r].pc \in {"decide", "exhaust", "unlock", "logFail"}

\* The log counts the failed runs, but for the one a request is still counting,
\* and an event that is not disposed of has attempts left.
Counted ==
    \A e \in Events : Capped(e) =>
        /\ failures[e] <= MaxAttempts[e]
        /\ settled[e] = "no" /\ (\A r \in Requests : req[r].evt = e => ~Counting(r)) =>
               failures[e] = eventLog[e].attempts /\ failures[e] < MaxAttempts[e]
        /\ \A r \in Requests : req[r].evt = e /\ Counting(r) =>
               /\ failures[e] = eventLog[e].attempts + 1
               /\ req[r].pc # "decide" => req[r].attempt = failures[e]
               /\ req[r].pc \in {"unlock", "logFail"} => failures[e] < MaxAttempts[e]

\* The log's row of an event says how it was disposed of: at once for a give-up,
\* after the store write for a success.
LogTells ==
    /\ \A e \in Events :
         /\ settled[e] = "gaveUp" => /\ eventLog[e].status \notin {"none", "processed"}
                                    /\ eventLog[e].attempts >= MaxAttempts[e]
         /\ settled[e] = "handled" =>
                \/ eventLog[e].status = "processed"
                \/ \E r \in Requests : req[r].evt = e /\ req[r].pc \in {"set", "finish"}
    /\ \A r \in Requests : req[r].pc = "exhaust" =>
         /\ req[r].attempt > 0
         /\ req[r].attempt >= MaxAttempts[req[r].evt]

\* While Stripe awaits the answer to a delivery it sends no other one of that event.
LEMMA NextAlone == ASSUME Serial, TypeOK, Alone, [Next]_vars PROVE Alone'
<1>i. Idle.pc = "idle" /\ Idle.evt = NoEvent
  BY Zenon DEF Idle
<1>1. ASSUME NEW r \in Requests, NEW e \in Events, Deliver(r, e) PROVE Alone'
  <2> DEFINE v == [Idle EXCEPT !.pc = "get", !.evt = e]
  <2>1. v.pc = "get" /\ v.evt = e
    BY Zenon DEF Idle
  <2>2. req' = [req EXCEPT ![r] = v] /\ \A s \in Requests : req[s].evt # e
    BY <1>1, Zenon DEF Deliver, Serial, InFlight
  <2>3. env'.crashes = 0
    BY <1>1, Zenon DEF Deliver, Alone, TypeOK, EnvType
  <2> HIDE DEF v
  <2>4. \A s \in Requests : req'[s] = IF s = r THEN v ELSE req[s]
    BY <2>2, Zenon DEF TypeOK
  <2> QED
    BY <2>1, <2>2, <2>3, <2>4 DEF Alone
<1>2. ASSUME NEW r \in Requests, Step(r) PROVE Alone'
  <2>1. Moves(r)
    BY <1>2, StepMoves, Zenon
  <2>2. \A s \in Requests : req[s].pc # "idle" => req[s].evt # NoEvent
    BY ConfigAssumption, Zenon DEF TypeOK, ConfigAssumption
  <2> QED
    BY <1>i, <2>1, <2>2 DEF Alone, Moves
<1>3. ASSUME NEW r \in Requests, Crash(r) PROVE Alone'
  BY <1>3 DEF Crash, Alone, Serial
<1>4. ASSUME NEW e \in Events, ReplayEvent(e) PROVE Alone'
  BY <1>4, Zenon DEF ReplayEvent, Alone, TypeOK, EnvType
<1>5. CASE UNCHANGED vars
  BY <1>5, Zenon DEF vars, Alone
<1> QED
  BY <1>1, <1>2, <1>3, <1>4, <1>5, Zenon DEF Next

\* A new delivery is of an event nobody works on, and changes nothing else.
LEMMA DeliverEffect ==
    ASSUME TypeOK, Serial, Alone, NEW r \in Requests, NEW e \in Events, Deliver(r, e)
    PROVE  /\ req[r].evt = NoEvent /\ req'[r].pc = "get" /\ req'[r].evt = e
           /\ \A s \in Requests : s # r => req'[s] = req[s] /\ req[s].evt # e
           /\ UNCHANGED <<store, settled, failures, eventLog, acked>>
<1> DEFINE v == [Idle EXCEPT !.pc = "get", !.evt = e]
<1>1. v.pc = "get" /\ v.evt = e
  BY Zenon DEF Idle
<1>2. req' = [req EXCEPT ![r] = v] /\ \A s \in Requests : req[s].evt # e
  BY Zenon DEF Deliver, Serial, InFlight
<1> HIDE DEF v
<1> QED
  BY <1>1, <1>2, Zenon DEF Deliver, storeVars, histVars, Alone, TypeOK

\* Nobody else works on the event of a request.
LEMMA OthersElsewhere ==
    ASSUME IInv, Alone, NEW r \in Requests, NEW s \in Requests, Step(r),
           s # r, req[s].pc # "idle"
    PROVE  /\ req'[s] = req[s] /\ req[s].evt \in Events /\ req[s].evt # req[r].evt
           /\ store'[req[s].evt] = store[req[s].evt]
           /\ settled'[req[s].evt] = settled[req[s].evt]
           /\ failures'[req[s].evt] = failures[req[s].evt]
           /\ eventLog'[req[s].evt] = eventLog[req[s].evt]
BY StepEffect, Zenon DEF Elsewhere, Moves, Alone, IInv, TypeOK

\* Where a request stands goes on telling how its event was disposed of.
LEMMA StepTracks ==
    ASSUME SerialInv, NEW r \in Requests, Step(r)
    PROVE  Tracks'
<1> DEFINE e == req[r].evt
<1>0. IInv /\ Alone /\ Tracks
  BY Zenon DEF SerialInv
<1>1. e \in Events /\ Moves(r) /\ Effect(r, e) /\ Elsewhere(e)
  BY <1>0, StepEffect, Zenon DEF IInv
<1>2. /\ Working(r) => settled[e] = "no"
      /\ store[e].state = "absent" => settled[e] = "no"
  BY <1>0, <1>1, Zenon DEF IInv, SettledIsClosed
<1>3. Idle.pc = "idle"
  BY Zenon DEF Idle
<1>4. /\ req'[r].pc \in {"set", "finish"} =>
            /\ req'[r].outcome # "none"
            /\ settled'[req'[r].evt] = Disposal[req'[r].outcome]
      /\ req'[r].pc = "respond" => settled'[req'[r].evt] # "no"
      /\ req'[r].pc = "logFail" => settled'[req'[r].evt] = "no"
  <2>1. req'[r].pc # "idle" => req'[r].evt = e
    BY <1>1, <1>3, Zenon DEF Moves
  <2>2. CASE AnswersEarly(r, e) \/ Fails(r, e) \/ Responds(r, e)
    BY <1>3, <2>2, Zenon DEF AnswersEarly, Fails, Responds
  <2>3. CASE Looks(r, e) \/ Claims(r, e)
    BY <1>2, <2>1, <2>3 DEF Looks, Claims, Disposal
  <2>4. CASE Runs(r, e)
    BY <1>2, <2>1, <2>4 DEF Runs, Disposal, Working
  <2>5. CASE Decides(r, e) \/ Exhausts(r, e)
    BY <1>2, <2>1, <2>5 DEF Decides, Exhausts, Disposal, Working
  <2>6. CASE Unlocks(r, e)
    BY <1>2, <2>1, <2>6, Zenon DEF Unlocks, Working
  <2>7. CASE Marks(r, e)
    BY <1>0, <2>1, <2>7, Zenon DEF Marks, Tracks
  <2>8. CASE Logs(r, e)
    <3>1. settled[e] = Disposal[req[r].outcome] /\ req[r].outcome \in Outcomes \ {"none"}
      BY <1>0, <2>8, Zenon DEF Logs, Tracks, IInv, TypeOK, RequestType
    <3> QED
      BY <2>1, <2>8, <3>1 DEF Logs, Disposal, Outcomes
  <2> QED
    BY <1>1, <2>2, <2>3, <2>4, <2>5, <2>6, <2>7, <2>8, Zenon DEF Effect
<1>5. ASSUME NEW s \in Requests, s # r, req[s].pc # "idle"
      PROVE  req'[s] = req[s] /\ settled'[req[s].evt] = settled[req[s].evt]
  BY <1>0, <1>5, OthersElsewhere, Zenon
<1>6. ASSUME NEW s \in Requests, s # r, req[s].pc = "idle"
      PROVE  req'[s].pc = "idle"
  BY <1>1, <1>6, Zenon DEF Moves
<1> QED
  BY <1>0, <1>4, <1>5, <1>6 DEF Tracks

\* Before the first webhook there is no request.
LEMMA InitSerial == ASSUME Serial, Init PROVE SerialInv
<1>1. \A r \in Requests : req[r].pc = "idle" /\ req[r].evt = NoEvent
  BY Zenon DEF Init, Idle
<1>2. env.crashes = 0
  BY Zenon DEF Init, Serial
<1> QED
  BY <1>1, <1>2, InitIInv, Zenon DEF SerialInv, Alone, Tracks

\* Every step keeps it.
LEMMA NextSerial == ASSUME Serial, SerialInv, [Next]_vars PROVE SerialInv'
<1>0. IInv /\ Alone /\ Tracks /\ TypeOK
  BY Zenon DEF SerialInv, IInv
<1>1. IInv' /\ Alone'
  BY <1>0, NextIInv, NextAlone, Zenon
<1>2. Tracks'
  <2>1. ASSUME NEW r \in Requests, NEW e \in Events, Deliver(r, e) PROVE Tracks'
    BY <1>0, <2>1, DeliverEffect DEF Tracks
  <2>2. ASSUME NEW r \in Requests, Step(r) PROVE Tracks'
    BY <2>2, StepTracks, Zenon
  <2>3. ASSUME NEW r \in Requests, Crash(r) PROVE Tracks'
    BY <1>0, <2>3 DEF Crash, Serial, Alone
  <2>4. ASSUME NEW e \in Events, ReplayEvent(e) PROVE Tracks'
    BY <1>0, <2>4, Zenon DEF ReplayEvent, Tracks
  <2>5. CASE UNCHANGED vars
    BY <1>0, <2>5, Zenon DEF vars, Tracks
  <2> QED
    BY <2>1, <2>2, <2>3, <2>4, <2>5, Zenon DEF Next
<1> QED
  BY <1>1, <1>2, Zenon DEF SerialInv

-----------------------------------------------------------------------------
(* Nothing is swallowed.                                                   *)

\* With one delivery at a time, Stripe is told 200 only of disposed events.
AckedIsSettled == \A e \in Events : acked[e] => settled[e] # "no"

Attended == SerialInv /\ LocksAttended /\ AckedIsSettled

\* Whoever stops working on an event has disposed of it or unlocked it, so a
\* delivery that finds a key is told 200 only for an event in good hands.
LEMMA StepAttended ==
    ASSUME Attended, "unlock" \notin FaultyOps, NEW r \in Requests, Step(r)
    PROVE  LocksAttended' /\ AckedIsSettled'
<1> DEFINE e == req[r].evt
<1>0. IInv /\ Alone /\ Tracks /\ LocksAttended /\ AckedIsSettled
  BY Zenon DEF Attended, SerialInv
<1>1. e \in Events /\ Moves(r) /\ Effect(r, e) /\ Elsewhere(e)
  BY <1>0, StepEffect, Zenon DEF IInv
<1>2. /\ Working(r) => settled[e] = "no"
      /\ store[e].state = "absent" => settled[e] = "no"
      /\ settled[e] \in {"no", "handled", "skipped", "gaveUp"}
  BY <1>0, <1>1, Zenon DEF IInv, SettledIsClosed, TypeOK
<1>3. Idle.pc = "idle" /\ Idle.evt = NoEvent /\ NoEvent \notin Events
  BY ConfigAssumption, Zenon DEF Idle, ConfigAssumption
<1>4. \A s \in Requests : s # r => req'[s] = req[s] /\ req[s].evt # e
  BY <1>0, <1>1, Zenon DEF Moves, Alone
<1>5. \A s \in Requests : req[s].pc \in {"set", "finish", "respond"} => settled[req[s].evt] # "no"
  <2> SUFFICES ASSUME NEW s \in Requests, req[s].pc \in {"set", "finish"}
               PROVE  settled[req[s].evt] # "no"
    BY <1>0, Zenon DEF Tracks
  <2>1. req[s].outcome \in Outcomes \ {"none"} /\ settled[req[s].evt] = Disposal[req[s].outcome]
    BY <1>0, Zenon DEF Tracks, IInv, TypeOK, RequestType
  <2> QED
    BY <2>1 DEF Disposal, Outcomes
<1>6. /\ store'[e].state # "absent" => settled'[e] # "no" \/ (req'[r].evt = e /\ Holding(r)')
      /\ acked'[e] => settled'[e] # "no"
  <2>a. /\ store[e].state # "absent" => settled[e] # "no" \/ Holding(r)
        /\ req'[r] # Idle => req'[r].evt = e
    BY <1>0, <1>1, <1>4, Zenon DEF LocksAttended, Moves
  <2>b. acked[e] => settled[e] # "no"
    BY <1>0, <1>1, Zenon DEF AckedIsSettled
  <2>1. CASE AnswersEarly(r, e)
    BY <1>3, <2>a, <2>b, <2>1, Zenon DEF AnswersEarly, Holding
  <2>2. CASE Looks(r, e) \/ Claims(r, e)
    BY <1>2, <1>3, <2>2, <2>a, <2>b, Zenon DEF Looks, Claims, Holding
  <2>3. CASE Runs(r, e) \/ Decides(r, e) \/ Exhausts(r, e)
    BY <1>2, <1>3, <2>3, <2>a, <2>b, Zenon DEF Runs, Decides, Exhausts, Holding, Working
  <2>4. CASE Unlocks(r, e) \/ Fails(r, e)
    <3>1. Holding(r) => Owns(store, e, req[r].token)
      BY <1>0, Zenon DEF IInv, ClaimHeld
    <3> QED
      BY <1>3, <2>4, <2>a, <2>b, <3>1, Zenon DEF Unlocks, Fails, Holding
  <2>5. CASE Marks(r, e) \/ Logs(r, e) \/ Responds(r, e)
    BY <1>3, <1>5, <2>5, <2>a, <2>b, Zenon DEF Marks, Logs, Responds, Holding
  <2> QED
    BY <1>1, <2>1, <2>2, <2>3, <2>4, <2>5, Zenon DEF Effect
<1>7. LocksAttended'
  <2> SUFFICES ASSUME NEW f \in Events, store'[f].state # "absent", settled'[f] = "no"
               PROVE  \E s \in Requests : req'[s].evt = f /\ Holding(s)'
    BY Zenon DEF LocksAttended
  <2>1. CASE f = e
    BY <1>6, <2>1, Zenon
  <2>2. CASE f # e
    <3>1. PICK s \in Requests : req[s].evt = f /\ Holding(s)
      BY <1>0, <1>1, <2>2, Zenon DEF Elsewhere, LocksAttended
    <3> QED
      BY <1>4, <2>2, <3>1, Zenon DEF Holding
  <2> QED
    BY <2>1, <2>2, Zenon
<1>8. AckedIsSettled'
  BY <1>0, <1>1, <1>6, Zenon DEF Elsewhere, AckedIsSettled
<1> QED
  BY <1>7, <1>8, Zenon

\* When Stripe delivers an event once at a time, no replica dies and an unlock
\* does not fail, an event Stripe was told to stop retrying (a 200) and nobody
\* works on was handled, skipped or given up.
THEOREM NothingSwallowed ==
    Serial /\ "unlock" \notin FaultyOps => (Spec => []NeverSwallowed)
<1> SUFFICES ASSUME Serial, "unlock" \notin FaultyOps PROVE Spec => []NeverSwallowed
  OBVIOUS
<1>1. Init => Attended
  BY InitSerial DEF Attended, Init, LocksAttended, AckedIsSettled, Absent
<1>2. Attended /\ [Next]_vars => Attended'
  <2> SUFFICES ASSUME Attended, [Next]_vars PROVE LocksAttended' /\ AckedIsSettled'
    BY NextSerial, Zenon DEF Attended
  <2>0. LocksAttended /\ AckedIsSettled /\ Alone /\ TypeOK
    BY Zenon DEF Attended, SerialInv, IInv
  <2>1. ASSUME NEW r \in Requests, NEW e \in Events, Deliver(r, e)
        PROVE  LocksAttended' /\ AckedIsSettled'
    <3>1. /\ req[r].evt \notin Events
          /\ \A s \in Requests : s # r => req'[s] = req[s]
          /\ UNCHANGED <<store, settled, acked>>
      BY <2>0, <2>1, DeliverEffect, ConfigAssumption, Zenon DEF ConfigAssumption
    <3> QED
      BY <2>0, <3>1 DEF LocksAttended, AckedIsSettled, Holding
  <2>2. ASSUME NEW r \in Requests, Step(r) PROVE LocksAttended' /\ AckedIsSettled'
    BY <2>2, StepAttended, Zenon
  <2>3. ASSUME NEW r \in Requests, Crash(r) PROVE FALSE
    BY <2>0, <2>3 DEF Crash, Alone
  <2>4. CASE UNCHANGED <<store, settled, acked, req>>
    BY <2>0, <2>4, Zenon DEF LocksAttended, AckedIsSettled, Holding
  <2> QED
    BY <2>1, <2>2, <2>3, <2>4, Zenon DEF Next, ReplayEvent, storeVars, vars
<1>3. Attended => NeverSwallowed
  BY Zenon DEF Attended, AckedIsSettled, NeverSwallowed
<1> QED
  BY <1>1, <1>2, <1>3, PTL DEF Spec

-----------------------------------------------------------------------------
(* The log counts the attempts and tells how they ended.                   *)

LogReliable == Serial /\ "log" \notin FaultyOps

LogInv == SerialInv /\ Counted /\ LogTells

\* A failed run is counted by the log before the event is delivered again, and
\* the last one allowed closes the event.
LEMMA StepCounted ==
    ASSUME SerialInv, Counted, "log" \notin FaultyOps, NEW r \in Requests, Step(r)
    PROVE  Counted'
<1> DEFINE e == req[r].evt
<1>0. IInv /\ Alone /\ TypeOK /\ TypeOK'
  BY NextTypeOK, Zenon DEF SerialInv, IInv, Next
<1>1. e \in Events /\ Moves(r) /\ Effect(r, e) /\ Elsewhere(e)
  BY <1>0, StepEffect, Zenon
<1>2. \A s \in Requests : s # r => req'[s] = req[s] /\ req[s].evt # e
  BY <1>0, <1>1, Zenon DEF Moves, Alone
<1>3. Idle.pc = "idle" /\ Idle.evt = NoEvent /\ NoEvent \notin Events
  BY ConfigAssumption, Zenon DEF Idle, ConfigAssumption
<1>4. /\ Working(r) => settled[e] = "no"
      /\ store[e].state = "absent" => settled[e] = "no"
  BY <1>0, <1>1, Zenon DEF IInv, SettledIsClosed
<1>5. /\ failures[e] \in Nat /\ eventLog[e].attempts \in Nat /\ MaxAttempts[e] \in Nat
      /\ req[r].attempt \in Nat
  BY <1>0, <1>1, ConfigAssumption, Zenon DEF TypeOK, LogType, RequestType, ConfigAssumption
<1>6. ASSUME Capped(e)
      PROVE  /\ failures'[e] <= MaxAttempts[e]
             /\ settled'[e] = "no" /\ ~(req'[r].evt = e /\ Counting(r)') =>
                    failures'[e] = eventLog'[e].attempts /\ failures'[e] < MaxAttempts[e]
             /\ req'[r].evt = e /\ Counting(r)' =>
                    /\ failures'[e] = eventLog'[e].attempts + 1
                    /\ req'[r].pc # "decide" => req'[r].attempt = failures'[e]
                    /\ req'[r].pc \in {"unlock", "logFail"} => failures'[e] < MaxAttempts[e]
  <2>a. /\ failures[e] <= MaxAttempts[e]
        /\ settled[e] = "no" /\ ~Counting(r) =>
               failures[e] = eventLog[e].attempts /\ failures[e] < MaxAttempts[e]
        /\ Counting(r) =>
               /\ failures[e] = eventLog[e].attempts + 1
               /\ req[r].pc # "decide" => req[r].attempt = failures[e]
               /\ req[r].pc \in {"unlock", "logFail"} => failures[e] < MaxAttempts[e]
    BY <1>1, <1>2, <1>6, Zenon DEF SerialInv, Counted
  <2>b. req'[r].evt = e \/ req'[r] = Idle
    BY <1>1, Zenon DEF Moves
  <2>1. CASE AnswersEarly(r, e) \/ Looks(r, e) \/ Responds(r, e) \/ Marks(r, e)
    BY <1>3, <1>5, <2>1, <2>a, <2>b, Zenon DEF AnswersEarly, Looks, Responds, Marks, Counting
  <2>2. CASE Claims(r, e)
    BY <1>4, <1>5, <2>2, <2>a, <2>b, Zenon DEF Claims, Counting
  <2>3. CASE Runs(r, e)
    BY <1>3, <1>4, <1>5, <1>6, <2>3, <2>a, <2>b DEF Runs, Counting, Working, Capped
  <2>4. CASE Decides(r, e)
    BY <1>3, <1>4, <1>5, <1>6, <2>4, <2>a, <2>b DEF Decides, Counting, Exhausted, Capped
  <2>5. CASE Exhausts(r, e)
    <3>1. req'[r].pc = "set" /\ settled'[e] # "no" /\ failures'[e] = failures[e]
      BY <1>6, <2>5, Zenon DEF Exhausts, Capped
    <3> QED
      BY <2>a, <3>1, Zenon DEF Counting
  <2>6. CASE Unlocks(r, e)
    BY <1>3, <1>5, <2>6, <2>a, <2>b, Zenon DEF Unlocks, Counting
  <2>7. CASE Fails(r, e)
    <3>1. req[r].pc = "logFail" /\ req'[r].pc = "idle" /\ failures'[e] = failures[e]
      BY <1>3, <2>7, Zenon DEF Fails
    <3>2. eventLog'[e].attempts = req[r].attempt
      BY <1>5, <2>7, <2>a, <3>1 DEF Fails, LogStep, Counting
    <3> QED
      BY <2>a, <3>1, <3>2, Zenon DEF Counting
  <2>8. CASE Logs(r, e)
    BY <1>5, <2>8, <2>a, <2>b DEF Logs, LogStep, Counting
  <2> QED
    BY <1>1, <2>1, <2>2, <2>3, <2>4, <2>5, <2>6, <2>7, <2>8, Zenon DEF Effect
<1>7. ASSUME NEW f \in Events, f # e PROVE
         /\ failures'[f] = failures[f] /\ settled'[f] = settled[f] /\ eventLog'[f] = eventLog[f]
         /\ \A s \in Requests : req'[s].evt = f \/ req[s].evt = f => req'[s] = req[s]
  BY <1>1, <1>2, <1>3, <1>7, Zenon DEF Elsewhere, Moves
<1>8. ASSUME NEW f \in Events, Capped(f)
      PROVE  /\ failures'[f] <= MaxAttempts[f]
             /\ settled'[f] = "no" /\ (\A s \in Requests : req'[s].evt = f => ~Counting(s)') =>
                    failures'[f] = eventLog'[f].attempts /\ failures'[f] < MaxAttempts[f]
             /\ \A s \in Requests : req'[s].evt = f /\ Counting(s)' =>
                    /\ failures'[f] = eventLog'[f].attempts + 1
                    /\ req'[s].pc # "decide" => req'[s].attempt = failures'[f]
                    /\ req'[s].pc \in {"unlock", "logFail"} => failures'[f] < MaxAttempts[f]
  <2>1. CASE f = e
    BY <1>2, <1>6, <1>8, <2>1, Zenon
  <2>2. CASE f # e
    BY <1>7, <1>8, <2>2 DEF Counted, Counting
  <2> QED
    BY <2>1, <2>2, Zenon
<1> QED
  BY <1>8, Zenon DEF Counted, Capped

\* The log's row goes on telling how its event was disposed of.
LEMMA StepLogTells ==
    ASSUME SerialInv, LogTells, "log" \notin FaultyOps, NEW r \in Requests, Step(r)
    PROVE  LogTells'
<1> DEFINE e == req[r].evt
<1>0. IInv /\ Alone /\ Tracks /\ TypeOK
  BY Zenon DEF SerialInv, IInv
<1>1. e \in Events /\ Moves(r) /\ Effect(r, e) /\ Elsewhere(e)
  BY <1>0, StepEffect, Zenon
<1>2. \A s \in Requests : s # r => req'[s] = req[s] /\ req[s].evt # e
  BY <1>0, <1>1, Zenon DEF Moves, Alone
<1>3. Idle.pc = "idle" /\ Idle.evt = NoEvent /\ NoEvent \notin Events
  BY ConfigAssumption, Zenon DEF Idle, ConfigAssumption
<1>4. /\ Working(r) => settled[e] = "no"
      /\ store[e].state = "absent" => settled[e] = "no"
  BY <1>0, <1>1, Zenon DEF IInv, SettledIsClosed
<1>5. /\ eventLog[e].attempts \in Nat /\ MaxAttempts[e] \in Nat /\ req[r].attempt \in Nat
      /\ req[r].outcome \in Outcomes
  BY <1>0, <1>1, ConfigAssumption, Zenon DEF TypeOK, LogType, RequestType, ConfigAssumption
<1>6. req'[r].evt = e \/ req'[r] = Idle
  BY <1>1, Zenon DEF Moves
<1>7. req'[r].pc = "exhaust" => req'[r].attempt > 0 /\ req'[r].attempt >= MaxAttempts[req'[r].evt]
  BY <1>1, <1>3, <1>5, <1>6
     DEF Effect, AnswersEarly, Looks, Claims, Runs, Decides, Exhausts, Unlocks, Fails, Marks,
         Logs, Responds, Exhausted
<1>8. settled'[e] = "gaveUp" => /\ eventLog'[e].status \notin {"none", "processed"}
                                /\ eventLog'[e].attempts >= MaxAttempts[e]
  <2> SUFFICES ASSUME settled'[e] = "gaveUp"
               PROVE  /\ eventLog'[e].status \notin {"none", "processed"}
                      /\ eventLog'[e].attempts >= MaxAttempts[e]
    OBVIOUS
  <2>a. settled[e] = "gaveUp" => /\ eventLog[e].status \notin {"none", "processed"}
                                 /\ eventLog[e].attempts >= MaxAttempts[e]
    BY <1>1, Zenon DEF LogTells
  <2>b. settled[e] = settled'[e] /\ eventLog'[e] = eventLog[e] =>
            /\ eventLog'[e].status \notin {"none", "processed"}
            /\ eventLog'[e].attempts >= MaxAttempts[e]
    BY <2>a, Zenon
  <2>1. CASE AnswersEarly(r, e) \/ Looks(r, e) \/ Responds(r, e) \/ Marks(r, e) \/ Unlocks(r, e)
             \/ Decides(r, e)
    BY <2>1, <2>b, Zenon DEF AnswersEarly, Looks, Responds, Marks, Unlocks, Decides
  <2>2. CASE Claims(r, e) \/ Runs(r, e)
    BY <2>2, <2>b, Zenon DEF Claims, Runs
  <2>3. CASE Exhausts(r, e)
    <3>1. req[r].attempt > 0 /\ req[r].attempt >= MaxAttempts[e]
      BY <2>3, Zenon DEF Exhausts, LogTells
    <3>2. eventLog'[e] = [status |-> "failed",
                         attempts |-> IF req[r].attempt = 0 THEN eventLog[e].attempts
                                      ELSE req[r].attempt]
      BY <2>3, Zenon DEF Exhausts, LogStep
    <3>3. req[r].attempt # 0
      BY <1>5, <3>1
    <3>4. eventLog'[e].status = "failed" /\ eventLog'[e].attempts = req[r].attempt
      BY <3>2, <3>3
    <3> QED
      BY <3>1, <3>4, Zenon
  <2>4. CASE Fails(r, e)
    BY <1>0, <2>4, Zenon DEF Fails, Tracks
  <2>5. CASE Logs(r, e)
    <3>1. settled[e] = Disposal[req[r].outcome] /\ settled[e] = "gaveUp"
      BY <1>0, <2>5, Zenon DEF Logs, Tracks
    <3>2. req[r].outcome = "gaveUp"
      BY <1>5, <3>1 DEF Disposal, Outcomes
    <3> QED
      BY <2>5, <2>b, <3>2, Zenon DEF Logs
  <2> QED
    BY <1>1, <2>1, <2>2, <2>3, <2>4, <2>5, Zenon DEF Effect
<1>9. settled'[e] = "handled" =>
         eventLog'[e].status = "processed" \/ (req'[r].evt = e /\ req'[r].pc \in {"set", "finish"})
  <2> SUFFICES ASSUME settled'[e] = "handled"
               PROVE  eventLog'[e].status = "processed"
                      \/ (req'[r].evt = e /\ req'[r].pc \in {"set", "finish"})
    OBVIOUS
  <2>a. settled[e] = "handled" => eventLog[e].status = "processed" \/ req[r].pc \in {"set", "finish"}
    BY <1>1, <1>2, Zenon DEF LogTells
  <2>1. CASE AnswersEarly(r, e) \/ Looks(r, e) \/ Responds(r, e) \/ Unlocks(r, e)
             \/ Decides(r, e)
    BY <2>1, <2>a, Zenon DEF AnswersEarly, Looks, Responds, Unlocks, Decides
  <2>2. CASE Claims(r, e) \/ Runs(r, e)
    BY <1>3, <1>6, <2>2, <2>a, Zenon DEF Claims, Runs
  <2>3. CASE Exhausts(r, e)
    BY <1>3, <1>4, <1>6, <2>3, Zenon DEF Exhausts, Working
  <2>4. CASE Fails(r, e)
    BY <1>0, <2>4, Zenon DEF Fails, Tracks
  <2>5. CASE Marks(r, e)
    BY <1>3, <1>6, <2>5, Zenon DEF Marks
  <2>6. CASE Logs(r, e)
    <3>1. settled[e] = Disposal[req[r].outcome] /\ settled[e] = "handled"
      BY <1>0, <2>6, Zenon DEF Logs, Tracks
    <3>2. req[r].outcome = "processed"
      BY <1>5, <3>1 DEF Disposal, Outcomes
    <3> QED
      BY <2>6, <3>2 DEF Logs, LogStep
  <2> QED
    BY <1>1, <2>1, <2>2, <2>3, <2>4, <2>5, <2>6, Zenon DEF Effect
<1>10. ASSUME NEW f \in Events, f # e PROVE
         /\ settled'[f] = settled[f] /\ eventLog'[f] = eventLog[f]
         /\ \A s \in Requests : req[s].evt = f => req'[s] = req[s]
  BY <1>1, <1>2, <1>10, Zenon DEF Elsewhere
<1>11. \A f \in Events :
         /\ settled'[f] = "gaveUp" => /\ eventLog'[f].status \notin {"none", "processed"}
                                      /\ eventLog'[f].attempts >= MaxAttempts[f]
         /\ settled'[f] = "handled" =>
                \/ eventLog'[f].status = "processed"
                \/ \E s \in Requests : req'[s].evt = f /\ req'[s].pc \in {"set", "finish"}
  BY <1>8, <1>9, <1>10 DEF LogTells
<1>12. \A s \in Requests : req'[s].pc = "exhaust" =>
          req'[s].attempt > 0 /\ req'[s].attempt >= MaxAttempts[req'[s].evt]
  BY <1>2, <1>7, Zenon DEF LogTells
<1> QED
  BY <1>11, <1>12, Zenon DEF LogTells

\* Both hold of every state when the log does not fail.
LEMMA LogInvHolds == LogReliable => (Spec => []LogInv)
<1> SUFFICES ASSUME LogReliable PROVE Spec => []LogInv
  OBVIOUS
<1>s. Serial /\ "log" \notin FaultyOps
  BY Zenon DEF LogReliable
<1>1. Init => LogInv
  <2> SUFFICES ASSUME Init PROVE Counted /\ LogTells
    BY <1>s, InitSerial, Zenon DEF LogInv
  <2>1. /\ \A r \in Requests : req[r].pc = "idle"
        /\ \A e \in Events : failures[e] = 0 /\ eventLog[e].attempts = 0 /\ settled[e] = "no"
    BY Zenon DEF Init, Idle, NoRow
  <2> QED
    BY <2>1, ConfigAssumption DEF Counted, Counting, Capped, LogTells, ConfigAssumption
<1>2. LogInv /\ [Next]_vars => LogInv'
  <2> SUFFICES ASSUME LogInv, [Next]_vars PROVE Counted' /\ LogTells'
    BY <1>s, NextSerial, Zenon DEF LogInv
  <2>0. SerialInv /\ Alone /\ TypeOK /\ Counted /\ LogTells
    BY Zenon DEF LogInv, SerialInv, IInv
  <2>1. ASSUME NEW r \in Requests, NEW e \in Events, Deliver(r, e) PROVE Counted' /\ LogTells'
    <3>1. /\ req[r].evt \notin Events /\ req'[r].pc = "get"
          /\ \A s \in Requests : s # r => req'[s] = req[s]
          /\ UNCHANGED <<settled, failures, eventLog>>
      BY <1>s, <2>0, <2>1, DeliverEffect, ConfigAssumption, Zenon DEF ConfigAssumption
    <3>2. \A s \in Requests, f \in Events :
            req'[s].evt = f /\ Counting(s)' => req'[s] = req[s] /\ Counting(s)
      BY <3>1, Zenon DEF Counting
    <3>3. \A s \in Requests, f \in Events :
            req[s].evt = f /\ Counting(s) => req'[s] = req[s] /\ Counting(s)'
      BY <3>1, Zenon DEF Counting
    <3>4. Counted'
      BY <2>0, <3>1, <3>2, <3>3 DEF Counted, Capped
    <3>5. LogTells'
      BY <2>0, <3>1 DEF LogTells
    <3> QED
      BY <3>4, <3>5, Zenon
  <2>2. ASSUME NEW r \in Requests, Step(r) PROVE Counted' /\ LogTells'
    BY <1>s, <2>0, <2>2, StepCounted, StepLogTells, Zenon
  <2>3. ASSUME NEW r \in Requests, Crash(r) PROVE FALSE
    BY <2>0, <2>3 DEF Crash, Alone
  <2>4. CASE UNCHANGED <<settled, failures, eventLog, req>>
    BY <2>0, <2>4, Zenon DEF Counted, Counting, Capped, LogTells
  <2> QED
    BY <2>1, <2>2, <2>3, <2>4, Zenon DEF Next, ReplayEvent, vars
<1> QED
  BY <1>1, <1>2, PTL DEF Spec

\* With one delivery at a time, no crash and a log that does not fail, an event
\* whose policy has MaxAttempts, and whose callback agrees to stop, is tried at
\* most that often.
THEOREM AttemptsAreCapped == LogReliable => (Spec => []MaxAttemptsIsCap)
<1>1. LogInv => MaxAttemptsIsCap
  BY Zenon DEF LogInv, Counted, Capped, MaxAttemptsIsCap
<1> QED
  BY <1>1, LogInvHolds, PTL

\* Under the same conditions StuckEvents reports every event that was given up,
\* at its policy's threshold, and no event that was handled.
THEOREM StuckIsRight == LogReliable => (Spec => []StuckIsGivenUp)
<1>1. LogInv => StuckIsGivenUp
  <2> SUFFICES ASSUME LogInv PROVE StuckIsGivenUp
    OBVIOUS
  <2>1. LogTells /\ TypeOK
    BY Zenon DEF LogInv, SerialInv, IInv
  <2>2. ASSUME NEW e \in Events, settled[e] = "gaveUp"
        PROVE  e \in StuckEvents(eventLog, MaxAttempts[e])
    BY <2>1, <2>2, Zenon DEF LogTells, StuckEvents, Logged, TypeOK, LogType
  <2>3. ASSUME NEW e \in Events, settled[e] = "handled", ~InFlight(e)
        PROVE  e \notin StuckEvents(eventLog, 1)
    BY <2>1, <2>3, Zenon DEF LogTells, StuckEvents, InFlight
  <2> QED
    BY <2>2, <2>3, Zenon DEF StuckIsGivenUp
<1> QED
  BY <1>1, LogInvHolds, PTL

-----------------------------------------------------------------------------
(* The Postgres webhook queue.                                             *)

\* The event e has a row in state st.
Row(e, st) == \E i \in DOMAIN table : table[i].evt = e /\ table[i].state = st

Busy(w) == worker[w].pc # "idle"

QTyped ==
    /\ TypeOK
    /\ worker \in WorkerType
    /\ \A w \in Workers : worker[w].evt \in Events <=> Busy(w)
    /\ table \in Seq(RowType)

\* event_id is UNIQUE.
RowsUnique ==
    \A i, j \in DOMAIN table : table[i].evt = table[j].evt => i = j

QBase == QTyped /\ RowsUnique

-----------------------------------------------------------------------------
(* What the statements do to the table.                                    *)

\* A row is queued or in processing.
LEMMA RowStates ==
    ASSUME QTyped, NEW e
    PROVE  HasRow(e) <=> Row(e, "queued") \/ Row(e, "processing")
<1>1. \A i \in DOMAIN table : table[i] \in RowType
  BY DEF QTyped
<1>2. \A i \in DOMAIN table : table[i].state \in {"queued", "processing"}
  BY <1>1, Zenon DEF RowType
<1> QED
  BY <1>2, Zenon DEF HasRow, RowsOf, Row

\* Nothing of what the table shows of other events changes.
OtherRows(e) == \A f, st : f # e => (Row(f, st)' <=> Row(f, st))

\* What the table shows of an event besides the state of its row.
LEMMA OtherHas == ASSUME NEW e, OtherRows(e), NEW f, f # e PROVE HasRow(f)' <=> HasRow(f)
<1>1. HasRow(f) <=> \E st : Row(f, st)
  BY Zenon DEF HasRow, RowsOf, Row
<1>2. HasRow(f)' <=> \E st : Row(f, st)'
  BY Zenon DEF HasRow, RowsOf, Row
<1> QED
  BY <1>1, <1>2, Zenon DEF OtherRows

\* INSERT: the event has a row now.
LEMMA InsertRow ==
    ASSUME QBase, NEW e \in Events, NEW t \in Nat, ~HasRow(e),
           table' = Append(table, [evt |-> e, token |-> t, state |-> "queued"])
    PROVE  table' \in Seq(RowType) /\ RowsUnique' /\ OtherRows(e) /\ Row(e, "queued")'
<1> DEFINE n == Len(table)
           row == [evt |-> e, token |-> t, state |-> "queued"]
<1>1. table \in Seq(RowType) /\ row \in RowType /\ n \in Nat /\ DOMAIN table = 1..n
  BY DEF QBase, QTyped, RowType
<1>2. row.evt = e /\ row.state = "queued"
  OBVIOUS
<1> HIDE DEF row
<1>3. /\ table' \in Seq(RowType) /\ DOMAIN table' = 1..(n + 1)
      /\ \A i \in 1..n : table'[i] = table[i]
      /\ table'[n + 1] = row
  BY <1>1 DEF row
<1>4. \A i \in 1..n : table[i].evt # e
  BY <1>1, Zenon DEF HasRow, RowsOf
<1>5. RowsUnique'
  <2> SUFFICES ASSUME NEW i \in 1..(n + 1), NEW j \in 1..(n + 1), table'[i].evt = table'[j].evt
               PROVE  i = j
    BY <1>3, Zenon DEF RowsUnique
  <2>1. CASE i \in 1..n /\ j \in 1..n
    BY <1>1, <1>3, <2>1, Zenon DEF QBase, RowsUnique
  <2>2. CASE i = n + 1 \/ j = n + 1
    BY <1>1, <1>2, <1>3, <1>4, <2>2
  <2> QED
    BY <1>1, <2>1, <2>2
<1>6. OtherRows(e)
  <2> SUFFICES ASSUME NEW f, NEW st, f # e PROVE Row(f, st)' <=> Row(f, st)
    BY Zenon DEF OtherRows
  <2>1. ASSUME Row(f, st)' PROVE Row(f, st)
    <3>1. PICK i \in 1..(n + 1) : table'[i].evt = f /\ table'[i].state = st
      BY <1>3, <2>1, Zenon DEF Row
    <3>2. i \in 1..n
      BY <1>1, <1>2, <1>3, <3>1
    <3> QED
      BY <1>1, <1>3, <3>1, <3>2, Zenon DEF Row
  <2>2. ASSUME Row(f, st) PROVE Row(f, st)'
    <3>1. PICK i \in 1..n : table[i].evt = f /\ table[i].state = st
      BY <1>1, <2>2, Zenon DEF Row
    <3>2. i \in 1..(n + 1)
      BY <1>1
    <3> QED
      BY <1>3, <3>1, <3>2, Zenon DEF Row
  <2> QED
    BY <2>1, <2>2, Zenon
<1>7. Row(e, "queued")'
  <2>1. n + 1 \in 1..(n + 1)
    BY <1>1
  <2> QED
    BY <1>2, <1>3, <2>1, Zenon DEF Row
<1> QED
  BY <1>3, <1>5, <1>6, <1>7, Zenon

\* UPDATE: the row of the event, if it has one, is in the new state.
LEMMA UpdateRow ==
    ASSUME QBase, NEW e, NEW st \in {"queued", "processing"}, SetState(e, st)
    PROVE  /\ table' \in Seq(RowType) /\ RowsUnique' /\ OtherRows(e)
           /\ HasRow(e)' <=> HasRow(e)
           /\ HasRow(e) => Row(e, st)'
<1>1. /\ table \in Seq(RowType)
      /\ table' = [i \in DOMAIN table |->
                     IF table[i].evt = e THEN [table[i] EXCEPT !.state = st] ELSE table[i]]
  BY Zenon DEF QBase, QTyped, SetState
<1>2. ASSUME NEW i \in DOMAIN table
      PROVE  /\ table[i] \in RowType /\ table'[i] \in RowType
             /\ table'[i].evt = table[i].evt
             /\ table'[i].state = IF table[i].evt = e THEN st ELSE table[i].state
  <2>1. table[i] \in RowType
    BY <1>1
  <2> QED
    BY <1>1, <2>1, Zenon DEF RowType
<1>3. DOMAIN table' = DOMAIN table
  BY <1>1, Zenon
<1>4. table' \in Seq(RowType)
  BY <1>1, <1>2, <1>3
<1>5. RowsUnique'
  BY <1>2, <1>3, Zenon DEF RowsUnique, QBase
<1>6. OtherRows(e)
  BY <1>2, <1>3, Zenon DEF OtherRows, Row
<1>7. (HasRow(e)' <=> HasRow(e)) /\ (HasRow(e) => Row(e, st)')
  BY <1>2, <1>3, Zenon DEF HasRow, RowsOf, Row
<1> QED
  BY <1>4, <1>5, <1>6, <1>7, Zenon

\* dequeue: the claimed row is in processing.
LEMMA ClaimRow ==
    ASSUME QBase, NEW i \in DOMAIN table, NEW e, e = table[i].evt,
           table' = [table EXCEPT ![i] = [@ EXCEPT !.state = "processing"]]
    PROVE  /\ table' \in Seq(RowType) /\ RowsUnique' /\ OtherRows(e)
           /\ Row(e, "processing")'
<1> DEFINE row == [table[i] EXCEPT !.state = "processing"]
<1>1. table \in Seq(RowType) /\ table[i] \in RowType
  BY DEF QBase, QTyped
<1>2. row \in RowType /\ row.evt = e /\ row.state = "processing"
  BY <1>1, Zenon DEF RowType
<1>3. table' = [table EXCEPT ![i] = row]
  OBVIOUS
<1> HIDE DEF row
<1>4. /\ table' \in Seq(RowType) /\ DOMAIN table' = DOMAIN table /\ table'[i] = row
      /\ \A j \in DOMAIN table : j # i => table'[j] = table[j]
  BY <1>1, <1>2, <1>3
<1>5. \A j \in DOMAIN table : table'[j].evt = table[j].evt
  BY <1>2, <1>4, Zenon
<1>6. RowsUnique'
  BY <1>4, <1>5 DEF RowsUnique, QBase
<1>7. OtherRows(e)
  BY <1>2, <1>4, <1>5, Zenon DEF OtherRows, Row
<1>8. Row(e, "processing")'
  BY <1>2, <1>4, Zenon DEF Row
<1> QED
  BY <1>4, <1>6, <1>7, <1>8, Zenon

\* The elements of a concatenation.
LEMMA ConcatElements ==
    ASSUME NEW S, NEW a \in Seq(S), NEW b \in Seq(S)
    PROVE  /\ a \o b \in Seq(S) /\ Len(a \o b) = Len(a) + Len(b)
           /\ \A i \in 1..(Len(a) + Len(b)) :
                 (a \o b)[i] = IF i <= Len(a) THEN a[i] ELSE b[i - Len(a)]
BY SMT

\* Removing a row closes the gap it leaves.
LEMMA DeleteElements ==
    ASSUME NEW S, NEW t \in Seq(S), NEW k \in 1..Len(t)
    PROVE  /\ Delete(t, k) \in Seq(S) /\ Len(Delete(t, k)) = Len(t) - 1
           /\ \A i \in 1..(Len(t) - 1) : Delete(t, k)[i] = IF i < k THEN t[i] ELSE t[i + 1]
<1> DEFINE a == SubSeq(t, 1, k - 1)
           b == SubSeq(t, k + 1, Len(t))
<1>1. a \in Seq(S) /\ Len(a) = k - 1 /\ \A i \in 1..(k - 1) : a[i] = t[i]
  OBVIOUS
<1>2. b \in Seq(S) /\ Len(b) = Len(t) - k /\ \A i \in 1..(Len(t) - k) : b[i] = t[i + k]
  OBVIOUS
<1>3. Delete(t, k) = a \o b
  BY Zenon DEF Delete
<1> HIDE DEF a, b
<1>4. /\ a \o b \in Seq(S) /\ Len(a \o b) = Len(t) - 1
      /\ \A i \in 1..(Len(t) - 1) : (a \o b)[i] = IF i <= k - 1 THEN a[i] ELSE b[i - (k - 1)]
  <2>1. /\ a \o b \in Seq(S) /\ Len(a \o b) = Len(a) + Len(b)
        /\ \A i \in 1..(Len(a) + Len(b)) :
              (a \o b)[i] = IF i <= Len(a) THEN a[i] ELSE b[i - Len(a)]
    BY <1>1, <1>2, ConcatElements, Zenon
  <2>2. Len(a) + Len(b) = Len(t) - 1 /\ Len(a) = k - 1
    BY <1>1, <1>2, SMT
  <2> QED
    BY <2>1, <2>2, Zenon
<1>5. ASSUME NEW i \in 1..(Len(t) - 1)
      PROVE  (a \o b)[i] = IF i < k THEN t[i] ELSE t[i + 1]
  <2>1. CASE i < k
    BY <1>1, <1>4, <2>1
  <2>2. CASE ~(i < k)
    <3>1. i - (k - 1) \in 1..(Len(t) - k) /\ (i - (k - 1)) + k = i + 1
      BY <2>2
    <3> QED
      BY <1>2, <1>4, <2>2, <3>1
  <2> QED
    BY <2>1, <2>2, Zenon
<1> QED
  BY <1>3, <1>4, <1>5, Zenon

\* DELETE: the event has no row any more.
LEMMA DeleteRow ==
    ASSUME QBase, NEW e, table' = Without(e)
    PROVE  table' \in Seq(RowType) /\ RowsUnique' /\ OtherRows(e) /\ ~HasRow(e)'
<1>0. table \in Seq(RowType) /\ RowsUnique
  BY Zenon DEF QBase, QTyped
<1>1. CASE ~HasRow(e)
  BY <1>0, <1>1, Zenon DEF Without, RowsUnique, OtherRows, Row, HasRow, RowsOf
<1>2. CASE HasRow(e)
  <2> DEFINE n == Len(table)
  <2>1. PICK k \in DOMAIN table : table[k].evt = e /\ table' = Delete(table, k)
    BY <1>2, Zenon DEF Without, HasRow, RowsOf
  <2>2. n \in Nat /\ DOMAIN table = 1..n
    BY <1>0
  <2>3. /\ table' \in Seq(RowType) /\ Len(table') = n - 1
        /\ \A i \in 1..(n - 1) : table'[i] = IF i < k THEN table[i] ELSE table[i + 1]
    BY <1>0, <2>1, <2>2, DeleteElements, Zenon
  <2>4. DOMAIN table' = 1..(n - 1)
    BY <2>2, <2>3
  <2>5. \A i \in 1..n : i # k => table[i].evt # e
    BY <1>0, <2>1, <2>2, Zenon DEF RowsUnique
  <2>6. ASSUME NEW i \in 1..(n - 1)
        PROVE  \E j \in 1..n : j # k /\ table'[i] = table[j] /\ j = IF i < k THEN i ELSE i + 1
    BY <2>2, <2>3
  <2>7. ASSUME NEW j \in 1..n, j # k
        PROVE  \E i \in 1..(n - 1) : table'[i] = table[j]
    <3>1. CASE j < k
      BY <2>2, <2>3, <3>1
    <3>2. CASE j > k
      <4>1. j - 1 \in 1..(n - 1) /\ ~(j - 1 < k) /\ (j - 1) + 1 = j
        BY <2>2, <3>2
      <4> QED
        BY <2>3, <4>1, Zenon
    <3> QED
      BY <2>2, <2>7, <3>1, <3>2
  <2>8. RowsUnique'
    <3> SUFFICES ASSUME NEW i \in 1..(n - 1), NEW j \in 1..(n - 1), table'[i].evt = table'[j].evt
                 PROVE  i = j
      BY <2>4, Zenon DEF RowsUnique
    <3>1. PICK a \in 1..n : a # k /\ table'[i] = table[a] /\ a = IF i < k THEN i ELSE i + 1
      BY <2>6, Zenon
    <3>2. PICK b \in 1..n : b # k /\ table'[j] = table[b] /\ b = IF j < k THEN j ELSE j + 1
      BY <2>6, Zenon
    <3>3. a = b
      BY <1>0, <2>2, <3>1, <3>2, Zenon DEF RowsUnique
    <3> QED
      BY <2>2, <3>1, <3>2, <3>3
  <2>9. ~HasRow(e)'
    BY <2>4, <2>5, <2>6 DEF HasRow, RowsOf
  <2>10. OtherRows(e)
    <3>1. ASSUME NEW f, NEW st, f # e, Row(f, st) PROVE Row(f, st)'
      <4>1. PICK j \in 1..n : table[j].evt = f /\ table[j].state = st
        BY <2>2, <3>1, Zenon DEF Row
      <4>2. j # k
        BY <2>1, <3>1, <4>1, Zenon
      <4> QED
        BY <2>4, <2>7, <4>1, <4>2, Zenon DEF Row
    <3>2. ASSUME NEW f, NEW st, f # e, Row(f, st)' PROVE Row(f, st)
      BY <2>2, <2>4, <2>6, <3>2, Zenon DEF Row
    <3> QED
      BY <3>1, <3>2, Zenon DEF OtherRows
  <2> QED
    BY <2>3, <2>8, <2>9, <2>10, Zenon
<1> QED
  BY <1>1, <1>2, Zenon

-----------------------------------------------------------------------------
(* What the steps of a worker do.                                          *)

WorkerRecord == [pc: WorkerPCs, evt: Events \cup {NoEvent}, token: Nat, attempt: Nat,
                 status: {"processed", "failed"}, result: Results]

\* The part of QTyped that is about the workers.
WorkersOK == /\ worker \in [Workers -> WorkerRecord]
             /\ \A w \in Workers : worker[w].evt \in Events <=> Busy(w)

\* A worker goes on with its event; the others stay as they are.
Carries(w) ==
    /\ Busy(w) /\ worker'[w].evt = worker[w].evt /\ worker'[w].pc \notin {"idle", "run"}
    /\ \A v \in Workers : v # w => worker'[v] = worker[v]

\* A worker drops what it has.
Drops(w) ==
    /\ Busy(w) /\ worker'[w] = IdleWorker
    /\ \A v \in Workers : v # w => worker'[v] = worker[v]

\* The local state of a worker may be replaced by one with the same event.
LEMMA CarryStep ==
    ASSUME WorkersOK, NEW w \in Workers, Busy(w), NEW v \in WorkerRecord,
           v.evt = worker[w].evt, v.pc \notin {"idle", "run"},
           worker' = [worker EXCEPT ![w] = v]
    PROVE  WorkersOK' /\ Carries(w)
BY Zenon DEF WorkersOK, Carries, Busy

\* Going on to the next call of ProcessQueued.
LEMMA WGotoStep ==
    ASSUME WorkersOK, NEW w \in Workers, Busy(w), NEW pc \in WorkerPCs \ {"idle", "run"},
           WGoto(w, pc)
    PROVE  WorkersOK' /\ Carries(w)
<1> DEFINE v == [worker[w] EXCEPT !.pc = pc]
<1>1. v \in WorkerRecord /\ v.evt = worker[w].evt /\ v.pc = pc
  BY Zenon DEF WorkersOK, WorkerRecord
<1>2. worker' = [worker EXCEPT ![w] = v]
  BY Zenon DEF WGoto
<1> HIDE DEF v
<1>3. v.pc \notin {"idle", "run"}
  BY <1>1, Zenon
<1> QED
  BY <1>1, <1>2, <1>3, CarryStep, Zenon

\* The end of a dispatch, and the death of a replica, leave an idle worker.
LEMMA DropStep ==
    ASSUME WorkersOK, NEW w \in Workers, Busy(w), worker' = [worker EXCEPT ![w] = IdleWorker]
    PROVE  WorkersOK' /\ Drops(w)
<1>1. IdleWorker \in WorkerRecord /\ IdleWorker.pc = "idle" /\ IdleWorker.evt = NoEvent
  BY Zenon DEF IdleWorker, WorkerRecord, WorkerPCs, Results
<1>2. NoEvent \notin Events
  BY ConfigAssumption, Zenon DEF ConfigAssumption
<1> QED
  BY <1>1, <1>2, Zenon DEF WorkersOK, Drops, Busy

\* What ProcessQueued leaves alone: the requests, the other events, and the
\* disposal of an event that is disposed of.
Dispatches(e) ==
    /\ UNCHANGED <<req, acked>>
    /\ \A f \in Events : f # e => store'[f] = store[f] /\ settled'[f] = settled[f]
    /\ settled[e] # "no" => settled'[e] # "no"

\* Each call of ProcessQueued.
LEMMA ProcessStep ==
    ASSUME TypeOK, WorkersOK, NEW w \in Workers, ProcessQueued(w)
    PROVE  /\ worker[w].evt \in Events
           /\ TypeOK' /\ WorkersOK' /\ Carries(w) /\ Dispatches(worker[w].evt)
<1> DEFINE e == worker[w].evt
<1> USE DEF storeVars, histVars
<1>0. Busy(w)
  BY Zenon DEF ProcessQueued, WRunHandler, WDecide, WExhaust, WUnlock, WLogFailure, WMark,
     WLogDone, Busy
<1>a. e \in Events /\ worker[w] \in WorkerRecord
  BY <1>0, Zenon DEF WorkersOK
<1>b. worker[w].attempt \in Nat /\ worker[w].status \in {"processed", "failed"}
  BY <1>a, Zenon DEF WorkerRecord
<1>1. CASE WRunHandler(w)
  <2> DEFINE ok == [worker[w] EXCEPT !.pc = "mark", !.attempt = 1]
             failed(k) == [worker[w] EXCEPT !.pc = "decide", !.result = k]
  <2>1. WorkersOK' /\ Carries(w)
    <3>1. CASE worker' = [worker EXCEPT ![w] = ok]
      <4>1. ok \in WorkerRecord /\ ok.evt = e /\ ok.pc = "mark"
        BY <1>a, Zenon DEF WorkerRecord, WorkerPCs
      <4> HIDE DEF ok
      <4>2. ok.pc \notin {"idle", "run"}
        BY <4>1, Zenon
      <4> QED
        BY <1>0, <3>1, <4>1, <4>2, CarryStep, Zenon
    <3>2. ASSUME NEW k \in FailKinds, worker' = [worker EXCEPT ![w] = failed(k)]
          PROVE  WorkersOK' /\ Carries(w)
      <4>0. k \in Results
        BY WorkerAssumption, Zenon DEF WorkerAssumption, Results
      <4>1. failed(k) \in WorkerRecord /\ failed(k).evt = e /\ failed(k).pc = "decide"
        BY <1>a, <4>0, Zenon DEF WorkerRecord, WorkerPCs
      <4>2. failed(k).pc \notin {"idle", "run"}
        BY <4>1, Zenon
      <4> HIDE DEF failed
      <4> QED
        BY <1>0, <3>2, <4>1, <4>2, CarryStep, Zenon
    <3> QED
      BY <1>1, <3>1, <3>2, Zenon DEF WRunHandler
  <2>2. /\ handled' \in [Events -> Nat] /\ failures' \in [Events -> Nat]
        /\ typed' \in [Events -> Nat]
    <3>1. /\ handled' = handled \/ handled' = [handled EXCEPT ![e] = @ + 1]
          /\ failures' = failures \/ failures' = [failures EXCEPT ![e] = @ + 1]
          /\ typed' = [typed EXCEPT ![e] = @ + 1]
      BY <1>1, Zenon DEF WRunHandler
    <3>2. /\ handled \in [Events -> Nat] /\ failures \in [Events -> Nat]
          /\ typed \in [Events -> Nat]
      BY Zenon DEF TypeOK
    <3> QED
      BY <1>a, <3>1, <3>2
  <2>3. /\ settled' \in [Events -> {"no", "handled", "skipped", "gaveUp"}]
        /\ settled[e] # "no" => settled'[e] # "no"
        /\ \A f \in Events : f # e => settled'[f] = settled[f]
    BY <1>1, <1>a, Zenon DEF WRunHandler, TypeOK
  <2> QED
    BY <1>1, <1>a, <2>1, <2>2, <2>3, Zenon DEF WRunHandler, TypeOK, Dispatches
<1>2. CASE WDecide(w)
  <2> DEFINE v(n) == [worker[w] EXCEPT !.attempt = n,
                                       !.pc = IF Exhausted(e, n) THEN "exhaust" ELSE "unlock"]
  <2>1. PICK n \in Nat : worker' = [worker EXCEPT ![w] = v(n)]
    <3>1. eventLog[e].attempts + 1 \in Nat
      BY <1>a DEF TypeOK, LogType
    <3>2. \/ worker' = [worker EXCEPT ![w] = v(eventLog[e].attempts + 1)]
          \/ worker' = [worker EXCEPT ![w] = v(1)]
      BY <1>2, Zenon DEF WDecide
    <3> QED
      BY <3>1, <3>2, Zenon
  <2>2. v(n) \in WorkerRecord /\ v(n).evt = e /\ v(n).pc \in {"exhaust", "unlock"}
    BY <1>a, Zenon DEF WorkerRecord, WorkerPCs
  <2>3. v(n).pc \notin {"idle", "run"}
    BY <2>2, Zenon
  <2> HIDE DEF v
  <2>4. WorkersOK' /\ Carries(w)
    BY <1>0, <2>1, <2>2, <2>3, CarryStep, Zenon
  <2>5. env' \in EnvType
    BY <1>2, FaultType, Zenon DEF WDecide, TypeOK
  <2> QED
    BY <1>2, <1>a, <2>4, <2>5, Zenon DEF WDecide, TypeOK, Dispatches
<1>3. CASE WExhaust(w)
  <2> DEFINE v == [worker[w] EXCEPT !.pc = "mark", !.status = "failed", !.result = "nil"]
  <2>1. v \in WorkerRecord /\ v.evt = e /\ v.pc = "mark"
    BY <1>a, Zenon DEF WorkerRecord, WorkerPCs, Results
  <2>2. worker' = [worker EXCEPT ![w] = v] \/ WGoto(w, "unlock")
    BY <1>3, Zenon DEF WExhaust
  <2> HIDE DEF v
  <2>3. v.pc \notin {"idle", "run"} /\ "unlock" \in WorkerPCs \ {"idle", "run"}
    BY <2>1, Zenon DEF WorkerPCs
  <2>4. WorkersOK' /\ Carries(w)
    BY <1>0, <2>1, <2>2, <2>3, CarryStep, WGotoStep, Zenon
  <2>5. /\ settled' \in [Events -> {"no", "handled", "skipped", "gaveUp"}]
        /\ settled[e] # "no" => settled'[e] # "no"
        /\ \A f \in Events : f # e => settled'[f] = settled[f]
    BY <1>3, <1>a, Zenon DEF WExhaust, TypeOK
  <2> QED
    BY <1>3, <1>a, <2>4, <2>5, Zenon DEF WExhaust, TypeOK, Dispatches
<1>4. CASE WUnlock(w) \/ WMark(w)
  <2>1. /\ store' \in StoreType(Events)
        /\ \A f \in Events : f # e => store'[f] = store[f]
    BY <1>4, <1>a, <1>b DEF WUnlock, WMark, Release, SetDone, Owns, Absent, StoreType, TypeOK
  <2>2. {"logFail", "logDone"} \subseteq WorkerPCs \ {"idle", "run"}
    BY Zenon DEF WorkerPCs
  <2>3. WorkersOK' /\ Carries(w)
    BY <1>0, <1>4, <2>2, WGotoStep, Zenon DEF WUnlock, WMark
  <2>4. env' \in EnvType
    BY <1>4, FaultType, Zenon DEF WUnlock, WMark, TypeOK
  <2> QED
    BY <1>4, <1>a, <2>1, <2>3, <2>4, Zenon DEF WUnlock, WMark, TypeOK, Dispatches
<1>5. CASE WLogFailure(w) \/ WLogDone(w)
  <2>1. eventLog' \in LogType(Events) /\ env' \in EnvType
    BY <1>5, <1>a, <1>b, RecordToLogType, Zenon DEF WLogFailure, WLogDone
  <2>2. "return" \in WorkerPCs \ {"idle", "run"}
    BY Zenon DEF WorkerPCs
  <2>3. WorkersOK' /\ Carries(w)
    BY <1>0, <1>5, <2>2, WGotoStep, Zenon DEF WLogFailure, WLogDone
  <2> QED
    BY <1>5, <1>a, <2>1, <2>3, Zenon DEF WLogFailure, WLogDone, TypeOK, Dispatches
<1> QED
  BY <1>1, <1>2, <1>3, <1>4, <1>5, <1>a, Zenon DEF ProcessQueued

-----------------------------------------------------------------------------
(* What the steps of a request do when there is a queue.                   *)

\* The events Handle gives to the queue.
Queued(e) == Kind[e] = "own" /\ Async

\* A request comes to the handler, or to the queue, only as its event is routed.
Routed(r) ==
    /\ req'[r].pc = "run" => ~Queued(req'[r].evt)
    /\ req'[r].pc = "claim" => Queued(req'[r].evt)
    /\ req'[r].pc # "enqueue"

\* A step of Handle leaves the claim as it is, takes it when nobody has it, or
\* lets go of it.
HoldStep(r) ==
    \/ /\ UNCHANGED store
       /\ Holding(r)' => /\ Holding(r) /\ req'[r].evt = req[r].evt
                         /\ req'[r].token = req[r].token
    \/ /\ store[req[r].evt].state = "absent" /\ req'[r].evt = req[r].evt
       /\ Owns(store', req'[r].evt, req'[r].token)
    \/ Holding(r) /\ ~Holding(r)'

\* A request that goes on to another call keeps its event and its token.
LEMMA GotoHolds ==
    ASSUME TypeOK, NEW r \in Requests, NEW pc, Goto(r, pc)
    PROVE  req'[r].pc = pc /\ req'[r].evt = req[r].evt /\ req'[r].token = req[r].token
<1> DEFINE v == [req[r] EXCEPT !.pc = pc]
<1>1. v.pc = pc /\ v.evt = req[r].evt /\ v.token = req[r].token
  BY Zenon DEF TypeOK, RequestType
<1>2. req' = [req EXCEPT ![r] = v]
  BY Zenon DEF Goto
<1> HIDE DEF v
<1>3. req'[r] = v
  BY <1>2, Zenon DEF TypeOK
<1> QED
  BY <1>1, <1>3, Zenon

\* An answered request holds nothing.
LEMMA IdleHolds ==
    ASSUME TypeOK, NEW r \in Requests, req' = [req EXCEPT ![r] = Idle]
    PROVE  Routed(r) /\ ~Holding(r)' /\ req'[r] = Idle
<1>1. req'[r] = Idle /\ Idle.pc = "idle"
  BY Zenon DEF TypeOK, Idle
<1> QED
  BY <1>1, Zenon DEF Routed, Holding

\* Each call of Handle.
LEMMA StepHolds ==
    ASSUME TypeOK, NEW r \in Requests, Step(r)
    PROVE  Routed(r) /\ HoldStep(r)
<1> DEFINE e == req[r].evt
<1> USE DEF storeVars, histVars
<1>0. req[r] \in RequestType /\ e \in Events
  BY StepEffect, Zenon DEF TypeOK
<1>1. CASE StoreGet(r)
  <2>1. CASE Goto(r, "lock")
    <3>1. req'[r].pc = "lock"
      BY <2>1, GotoHolds, Zenon
    <3> QED
      BY <1>1, <3>1, Zenon DEF StoreGet, Routed, HoldStep, Holding
  <2>2. CASE req' = [req EXCEPT ![r] = Idle]
    BY <1>1, <2>2, IdleHolds, Zenon DEF StoreGet, HoldStep
  <2> QED
    BY <1>1, <2>1, <2>2, Zenon DEF StoreGet, Respond500, Respond200, Ack
<1>2. CASE TryLock(r)
  <2> DEFINE v == [req[r] EXCEPT !.pc = Route(e), !.token = nextToken,
                                 !.outcome = IF Kind[e] = "foreign" THEN "skipped" ELSE "none"]
  <2>1. CASE /\ Lockable(store, e) /\ store' = Lock(store, e, nextToken)
             /\ req' = [req EXCEPT ![r] = v]
    <3>1. v.pc = Route(e) /\ v.evt = e /\ v.token = nextToken
      BY <1>0, Zenon DEF RequestType
    <3> HIDE DEF v
    <3>2. req'[r] = v
      BY <2>1, Zenon DEF TypeOK
    <3>3. store'[e] = [state |-> "locked", token |-> nextToken]
      BY <1>0, <2>1, Zenon DEF Lock, TypeOK, StoreType
    <3>4. HoldStep(r)
      BY <2>1, <3>1, <3>2, <3>3, Zenon DEF HoldStep, Owns, Lockable
    <3>5. Routed(r)
      <4>1. Kind[e] \in {"own", "foreign", "unstamped"}
        BY <1>0, ConfigAssumption, Zenon DEF ConfigAssumption
      <4>2. /\ Route(e) = "run" => ~Queued(e)
            /\ Route(e) = "claim" => Queued(e)
            /\ Route(e) # "enqueue"
        BY <4>1, Zenon DEF Route, Queued
      <4> QED
        BY <3>1, <3>2, <4>2, Zenon DEF Routed
    <3> QED
      BY <3>4, <3>5, Zenon
  <2>2. CASE req' = [req EXCEPT ![r] = Idle] /\ UNCHANGED <<storeVars, settled>>
    BY <2>2, IdleHolds, Zenon DEF HoldStep
  <2> QED
    BY <1>2, <2>1, <2>2, Zenon DEF TryLock, Respond500, Respond200, Ack
<1>3. CASE RunHandler(r)
  <2> DEFINE ok == [req[r] EXCEPT !.pc = "set", !.outcome = "processed"]
             failed == [req[r] EXCEPT !.pc = IF RunsTyped(e) THEN "decide" ELSE "unlock",
                                      !.attempt = 1]
  <2>1. PICK v \in {ok, failed} : req' = [req EXCEPT ![r] = v]
    BY <1>3, Zenon DEF RunHandler
  <2>2. v.pc \in {"set", "decide", "unlock"} /\ v.evt = e /\ v.token = req[r].token
    BY <1>0, <2>1, Zenon DEF RequestType
  <2> HIDE DEF ok, failed
  <2>3. req'[r] = v
    BY <2>1, Zenon DEF TypeOK
  <2> QED
    BY <1>3, <2>2, <2>3, Zenon DEF RunHandler, Routed, HoldStep, Holding
<1>4. CASE Decide(r)
  <2> DEFINE v(n) == [req[r] EXCEPT !.attempt = n,
                                    !.pc = IF Exhausted(e, n) THEN "exhaust" ELSE "unlock"]
  <2>1. \E n : req' = [req EXCEPT ![r] = v(n)]
    BY <1>4, Zenon DEF Decide
  <2>2. PICK n : req' = [req EXCEPT ![r] = v(n)]
    BY <2>1, Zenon
  <2>3. v(n).pc \in {"exhaust", "unlock"} /\ v(n).evt = e /\ v(n).token = req[r].token
    BY <1>0, Zenon DEF RequestType
  <2> HIDE DEF v
  <2>4. req'[r] = v(n)
    BY <2>2, Zenon DEF TypeOK
  <2>5. /\ req'[r].pc \in {"exhaust", "unlock"} /\ req'[r].evt = e
        /\ req'[r].token = req[r].token
    BY <2>3, <2>4, Zenon
  <2> QED
    BY <1>4, <2>5, Zenon DEF Decide, Routed, HoldStep, Holding
<1>5. CASE Exhaust(r)
  <2> DEFINE v == [req[r] EXCEPT !.pc = "set", !.outcome = "gaveUp"]
  <2>1. /\ req'[r].pc \in {"set", "unlock"} /\ req'[r].evt = e
        /\ req'[r].token = req[r].token
    <3>1. v.pc = "set" /\ v.evt = e /\ v.token = req[r].token
      BY <1>0, Zenon DEF RequestType
    <3>2. req' = [req EXCEPT ![r] = v] \/ Goto(r, "unlock")
      BY <1>5, Zenon DEF Exhaust
    <3> HIDE DEF v
    <3> QED
      BY <3>1, <3>2, GotoHolds, Zenon DEF TypeOK
  <2> QED
    BY <1>5, <2>1, Zenon DEF Exhaust, Routed, HoldStep, Holding
<1>6. CASE UnlockClaim(r) \/ MarkProcessed(r)
  <2>1. req'[r].pc \in {"logFail", "finish"} /\ Holding(r)
    BY <1>6, GotoHolds, Zenon DEF UnlockClaim, MarkProcessed, Holding
  <2> QED
    BY <2>1, Zenon DEF Routed, HoldStep, Holding
<1>7. CASE LogOutcome(r)
  <2>1. req'[r].pc = "respond" /\ UNCHANGED store
    BY <1>7, GotoHolds, Zenon DEF LogOutcome
  <2> QED
    BY <2>1, Zenon DEF Routed, HoldStep, Holding
<1>8. CASE LogFailure(r) \/ Respond(r)
  BY <1>8, IdleHolds, Zenon DEF LogFailure, Respond, Respond500, Respond200, Ack, HoldStep
<1> QED
  BY <1>1, <1>2, <1>3, <1>4, <1>5, <1>6, <1>7, <1>8, Zenon DEF Step

-----------------------------------------------------------------------------
(* Every step of the queue, in terms of requests, workers and rows.        *)

\* The parts of QBase.
LEMMA QBaseParts ==
    ASSUME QBase PROVE TypeOK /\ WorkersOK /\ table \in Seq(RowType) /\ RowsUnique
BY Zenon DEF QBase, QTyped, WorkersOK, WorkerType, WorkerRecord

\* At the start the table is empty and every worker idle.
LEMMA InitQBase == ASSUME QInit PROVE QBase /\ DOMAIN table = {} /\ \A w \in Workers : ~Busy(w)
<1>1. worker = [w \in Workers |-> IdleWorker] /\ table = << >> /\ TypeOK
  BY InitTypeOK, Zenon DEF QInit
<1>2. IdleWorker.pc = "idle" /\ IdleWorker.evt = NoEvent
  BY Zenon DEF IdleWorker
<1>3. \A w \in Workers : worker[w] = IdleWorker /\ ~Busy(w)
  BY <1>1, <1>2, Zenon DEF Busy
<1>4. worker \in WorkerType
  BY <1>1, Zenon DEF IdleWorker, WorkerType, WorkerPCs, Results
<1>5. table \in Seq(RowType) /\ DOMAIN table = {}
  BY <1>1
<1>6. QBase
  BY <1>1, <1>2, <1>3, <1>4, <1>5, ConfigAssumption, Zenon
  DEF QBase, QTyped, RowsUnique, ConfigAssumption
<1> QED
  BY <1>3, <1>5, <1>6, Zenon

\* They are all there is to show of a step.
LEMMA QBaseNext ==
    ASSUME TypeOK', WorkersOK', table' \in Seq(RowType), RowsUnique' PROVE QBase'
BY Zenon DEF QBase, QTyped, WorkersOK, WorkerType, WorkerRecord

\* The table is what it was.
SameRows == UNCHANGED table /\ (\A f, st : Row(f, st)' <=> Row(f, st))
                            /\ (\A f : HasRow(f)' <=> HasRow(f))

\* A step that leaves the table alone leaves its rows alone.
LEMMA TableUnchanged == ASSUME UNCHANGED table PROVE SameRows
BY Zenon DEF SameRows, Row, HasRow, RowsOf

\* LogClaimed: the request goes on to the hand-off.
LEMMA LogClaimedStep ==
    ASSUME TypeOK, NEW r \in Requests, LogClaimed(r)
    PROVE  /\ req[r].pc = "claim" /\ req[r].evt \in Events /\ TypeOK' /\ Moves(r)
           /\ req'[r].pc = "enqueue" /\ req'[r].evt = req[r].evt
           /\ req'[r].token = req[r].token
           /\ UNCHANGED <<store, settled, acked, worker>>
<1> USE DEF storeVars, histVars
<1>1. req[r].pc = "claim" /\ req[r].evt \in Events /\ RequestsOK
  BY Zenon DEF LogClaimed, TypeOK, RequestsOK
<1>2. eventLog' \in LogType(Events) /\ env' \in EnvType
  <2>1. "claimed" \in {"none", "claimed", "skipped", "processed", "failed"} /\ 0 \in Nat
    OBVIOUS
  <2> QED
    BY <1>1, <2>1, RecordToLogType, Zenon DEF LogClaimed
<1>3. env'.crashes = env.crashes
  BY Zenon DEF LogClaimed, RecordToLog, Fault, TypeOK, EnvType
<1>4. RequestsOK'
  BY <1>1, GotoType, Zenon DEF LogClaimed, PCs
<1>5. TypeOK'
  BY <1>2, <1>4, Zenon DEF LogClaimed, TypeOK, RequestsOK
<1>6. Moves(r)
  BY <1>1, <1>3, GotoMoves, Zenon DEF LogClaimed
<1> QED
  BY <1>1, <1>5, <1>6, GotoHolds, Zenon DEF LogClaimed

\* Enqueue: the event has a row and the request ends, or the handler is next.
EnqueueDone(r, e) ==
    /\ req'[r] = Idle
    /\ HasRow(e)' /\ OtherRows(e) /\ table' \in Seq(RowType) /\ RowsUnique'
    /\ Row(e, "processing") => Row(e, "processing")'

EnqueueFails(r) ==
    /\ "enqueue" \in FaultyOps /\ SameRows /\ UNCHANGED acked
    /\ req'[r].pc = "run" /\ req'[r].evt = req[r].evt /\ req'[r].token = req[r].token

\* Handle's Enqueue (webhook_queue.go's INSERT ... ON CONFLICT DO NOTHING) leaves the event
\* with one row and acknowledges it, or fails and leaves the handler to the request.
LEMMA EnqueueStep ==
    ASSUME QBase, NEW r \in Requests, NEW e, e = req[r].evt, Enqueue(r)
    PROVE  /\ req[r].pc = "enqueue" /\ e \in Events /\ TypeOK' /\ Moves(r)
           /\ UNCHANGED <<store, settled, worker>>
           /\ \A f \in Events : f # e => acked'[f] = acked[f]
           /\ EnqueueDone(r, e) \/ EnqueueFails(r)
<1> USE DEF storeVars, histVars
<1>0. TypeOK /\ table \in Seq(RowType) /\ RowsUnique
  BY QBaseParts, Zenon
<1>1. req[r].pc = "enqueue" /\ e \in Events /\ RequestsOK
  BY <1>0, Zenon DEF Enqueue, TypeOK, RequestsOK
<1>2. req[r].token \in Nat
  BY <1>0, Zenon DEF TypeOK, RequestType
<1>f. ASSUME NEW op, Fault(op) PROVE env'.crashes = env.crashes
  BY <1>0, <1>f, Zenon DEF Fault, TypeOK, EnvType
<1>3. CASE /\ table' = IF HasRow(e) THEN table
                       ELSE Append(table, [evt |-> e, token |-> req[r].token,
                                           state |-> "queued"])
           /\ Respond200(r)
  <2>1. /\ req' = [req EXCEPT ![r] = Idle] /\ env'.crashes = env.crashes
        /\ acked' = acked \/ acked' = [acked EXCEPT ![e] = TRUE]
        /\ env' \in EnvType
    BY <1>0, <1>3, <1>f, FaultType, Zenon DEF Respond200, Ack, TypeOK
  <2>2. req'[r] = Idle
    BY <1>0, <2>1, IdleHolds, Zenon
  <2>3. EnqueueDone(r, e)
    <3>1. CASE HasRow(e)
      <4>1. SameRows
        BY <1>3, <3>1, TableUnchanged, Zenon
      <4> QED
        BY <1>0, <2>2, <3>1, <4>1, Zenon DEF EnqueueDone, SameRows, OtherRows, RowsUnique
    <3>2. CASE ~HasRow(e)
      <4>1. table' \in Seq(RowType) /\ RowsUnique' /\ OtherRows(e) /\ Row(e, "queued")'
        <5>1. table' = Append(table, [evt |-> e, token |-> req[r].token, state |-> "queued"])
          BY <1>3, <3>2, Zenon
        <5> QED
          BY <1>1, <1>2, <3>2, <5>1, InsertRow, Zenon
      <4>2. HasRow(e)'
        BY <4>1, Zenon DEF Row, HasRow, RowsOf
      <4>3. ~Row(e, "processing")
        BY <3>2, Zenon DEF Row, HasRow, RowsOf
      <4> QED
        BY <2>2, <4>1, <4>2, <4>3, Zenon DEF EnqueueDone
    <3> QED
      BY <3>1, <3>2, Zenon
  <2>4. RequestsOK'
    BY <1>1, <2>1, IdleType, UpdateType, Zenon
  <2>5. /\ acked' \in [Events -> BOOLEAN]
        /\ \A f \in Events : f # e => acked'[f] = acked[f]
    BY <1>0, <1>1, <2>1, Zenon DEF TypeOK
  <2>6. TypeOK'
    BY <1>0, <2>1, <2>4, <2>5, Zenon DEF Enqueue, TypeOK, RequestsOK
  <2>7. Moves(r)
    <3>1. req[r].pc # "idle"
      BY <1>1, Zenon
    <3> QED
      BY <1>0, <2>1, <3>1, EndMoves, Zenon
  <2> QED
    BY <1>1, <2>3, <2>5, <2>6, <2>7, Zenon DEF Enqueue
<1>4. CASE Fault("enqueue") /\ Goto(r, "run") /\ UNCHANGED <<table, acked>>
  <2>1. env' \in EnvType /\ env'.crashes = env.crashes /\ "enqueue" \in FaultyOps
    BY <1>0, <1>4, <1>f, FaultType, Zenon DEF Fault
  <2>2. RequestsOK'
    BY <1>1, <1>4, GotoType, Zenon DEF PCs
  <2>3. TypeOK'
    BY <1>0, <1>4, <2>1, <2>2, Zenon DEF Enqueue, TypeOK, RequestsOK
  <2>4. Moves(r)
    BY <1>0, <1>1, <1>4, <2>1, GotoMoves, Zenon
  <2>5. EnqueueFails(r)
    BY <1>0, <1>4, <2>1, GotoHolds, TableUnchanged, Zenon DEF EnqueueFails
  <2> QED
    BY <1>1, <1>4, <2>3, <2>4, <2>5, Zenon DEF Enqueue
<1> QED
  BY <1>3, <1>4, Zenon DEF Enqueue

\* dequeue: the worker takes an event whose row was queued.
LEMMA DequeueStep ==
    ASSUME QBase, NEW w \in Workers, Dequeue(w)
    PROVE  \E e \in Events :
             /\ Row(e, "queued") /\ Row(e, "processing")' /\ OtherRows(e)
             /\ ~Busy(w) /\ worker'[w].evt = e /\ worker'[w].pc = "run"
             /\ \A v \in Workers : v # w => worker'[v] = worker[v]
             /\ UNCHANGED <<store, settled, req, acked>>
             /\ QBase'
<1>k. PICK k \in DOMAIN table :
         /\ Oldest(k)
         /\ table' = [table EXCEPT ![k] = [@ EXCEPT !.state = "processing"]]
         /\ worker' = [worker EXCEPT ![w] =
                          [IdleWorker EXCEPT !.pc = "run", !.evt = table[k].evt,
                                             !.token = table[k].token]]
  BY Zenon DEF Dequeue
<1>e. PICK e : e = table[k].evt
  OBVIOUS
<1> DEFINE rec == [IdleWorker EXCEPT !.pc = "run", !.evt = e, !.token = table[k].token]
<1> USE DEF storeVars, histVars
<1>0. TypeOK /\ WorkersOK
  BY QBaseParts, Zenon
<1>1. k \in DOMAIN table /\ table[k].state = "queued" /\ table[k] \in RowType
  BY <1>k DEF Oldest, QueuedRows, QBase, QTyped
<1>2. e \in Events /\ table[k].token \in Nat
  BY <1>e, <1>1, Zenon DEF RowType
<1>3. Row(e, "queued")
  BY <1>e, <1>1, Zenon DEF Row
<1>4. table' \in Seq(RowType) /\ RowsUnique' /\ OtherRows(e) /\ Row(e, "processing")'
  <2>1. table' = [table EXCEPT ![k] = [@ EXCEPT !.state = "processing"]]
    BY <1>k, Zenon
  <2> QED
    BY <1>e, <1>1, <2>1, ClaimRow, Zenon
<1>5. rec \in WorkerRecord /\ rec.evt = e /\ rec.pc = "run"
  BY <1>2, Zenon DEF IdleWorker, WorkerRecord, WorkerPCs, Results
<1>6. worker' = [worker EXCEPT ![w] = rec] /\ ~Busy(w)
  BY <1>e, <1>k, Zenon DEF Dequeue, Busy
<1> HIDE DEF rec
<1>7. /\ worker' \in [Workers -> WorkerRecord] /\ worker'[w] = rec
      /\ \A v \in Workers : v # w => worker'[v] = worker[v]
  BY <1>0, <1>5, <1>6, Zenon DEF WorkersOK
<1>8. rec.pc # "idle"
  BY <1>5, Zenon
<1>9. WorkersOK'
  BY <1>0, <1>2, <1>5, <1>7, <1>8, Zenon DEF WorkersOK, Busy
<1>10. TypeOK'
  BY <1>0, Zenon DEF Dequeue, TypeOK
<1>11. QBase'
  BY <1>4, <1>9, <1>10, QBaseNext, Zenon
<1> QED
  BY <1>2, <1>3, <1>4, <1>5, <1>6, <1>7, <1>11, Zenon DEF Dequeue

\* After the dispatch: the row goes with the event's disposal, or stays.
LEMMA ReturnStep ==
    ASSUME QBase, NEW w \in Workers, NEW e, e = worker[w].evt, Return(w)
    PROVE  /\ e \in Events /\ Drops(w) /\ OtherRows(e) /\ QBase'
           /\ UNCHANGED <<store, req, acked>>
           /\ \A f \in Events : f # e => settled'[f] = settled[f]
           /\ settled[e] # "no" => settled'[e] # "no"
           /\ settled[e] # "no" \/ HasRow(e) => settled'[e] # "no" \/ HasRow(e)'
<1> USE DEF storeVars, histVars
<1>0. TypeOK /\ WorkersOK /\ table \in Seq(RowType) /\ RowsUnique
  BY QBaseParts, Zenon
<1>1. Busy(w) /\ e \in Events
  <2>1. Busy(w)
    BY Zenon DEF Return, Busy
  <2> QED
    BY <1>0, <2>1, Zenon DEF WorkersOK
<1>2. WorkersOK' /\ Drops(w)
  BY <1>0, <1>1, DropStep, Zenon DEF Return
<1>3. /\ table' \in Seq(RowType) /\ RowsUnique' /\ OtherRows(e) /\ env' \in EnvType
      /\ settled' \in [Events -> {"no", "handled", "skipped", "gaveUp"}]
      /\ \A f \in Events : f # e => settled'[f] = settled[f]
      /\ settled[e] # "no" => settled'[e] # "no"
      /\ settled[e] # "no" \/ HasRow(e) => settled'[e] # "no" \/ HasRow(e)'
  <2>1. CASE /\ table' = Without(e) /\ UNCHANGED env
             /\ settled' = [settled EXCEPT ![e] = IF @ = "no" THEN "gaveUp" ELSE @]
    <3>1. table' \in Seq(RowType) /\ RowsUnique' /\ OtherRows(e)
      BY <2>1, DeleteRow, Zenon
    <3>2. /\ settled' \in [Events -> {"no", "handled", "skipped", "gaveUp"}]
          /\ \A f \in Events : f # e => settled'[f] = settled[f]
          /\ settled'[e] # "no"
      BY <1>0, <1>1, <2>1, Zenon DEF TypeOK
    <3> QED
      BY <1>0, <2>1, <3>1, <3>2, Zenon DEF TypeOK
  <2>2. CASE SetState(e, "queued") /\ UNCHANGED <<settled, env>>
    <3>1. "queued" \in {"queued", "processing"}
      OBVIOUS
    <3>2. table' \in Seq(RowType) /\ RowsUnique' /\ OtherRows(e) /\ (HasRow(e)' <=> HasRow(e))
      BY <2>2, <3>1, UpdateRow, Zenon
    <3> QED
      BY <1>0, <2>2, <3>2, Zenon DEF TypeOK
  <2>3. CASE Fault("queue") /\ UNCHANGED <<table, settled>>
    <3>1. SameRows /\ env' \in EnvType
      BY <1>0, <2>3, FaultType, TableUnchanged, Zenon
    <3> QED
      BY <1>0, <2>3, <3>1, Zenon DEF TypeOK, SameRows, OtherRows, RowsUnique
  <2> QED
    BY <2>1, <2>2, <2>3, Zenon DEF Return
<1>4. TypeOK'
  BY <1>0, <1>3, Zenon DEF Return, TypeOK
<1>5. QBase'
  BY <1>2, <1>3, <1>4, QBaseNext, Zenon
<1> QED
  BY <1>1, <1>2, <1>3, <1>5, Zenon DEF Return

\* The sweeper puts a row back; if a worker has it that is a fault.
LEMMA SweepStep ==
    ASSUME QBase, NEW e \in Events, Sweep(e)
    PROVE  /\ Row(e, "processing") /\ HasRow(e)' /\ OtherRows(e) /\ QBase'
           /\ UNCHANGED <<store, settled, req, acked, worker>>
           /\ "sweep" \in FaultyOps \/ \A w \in Workers : worker[w].evt # e
<1> USE DEF storeVars, histVars
<1>0. TypeOK /\ WorkersOK
  BY QBaseParts, Zenon
<1>1. Row(e, "processing")
  BY Zenon DEF Sweep, Row, RowsOf
<1>2. HasRow(e)
  BY <1>1, Zenon DEF HasRow, RowsOf, Row
<1>3. table' \in Seq(RowType) /\ RowsUnique' /\ OtherRows(e) /\ (HasRow(e)' <=> HasRow(e))
  <2>1. "queued" \in {"queued", "processing"}
    OBVIOUS
  <2> QED
    BY <2>1, UpdateRow, Zenon DEF Sweep
<1>4. env' \in EnvType
  BY <1>0, FaultType, Zenon DEF Sweep, TypeOK
<1>5. TypeOK' /\ WorkersOK'
  BY <1>0, <1>4, Zenon DEF Sweep, TypeOK, WorkersOK, Busy
<1>6. QBase'
  BY <1>3, <1>5, QBaseNext, Zenon
<1> QED
  BY <1>1, <1>2, <1>3, <1>6, Zenon DEF Sweep, Fault

\* The death of a replica drops what its worker has.
LEMMA WCrashStep ==
    ASSUME QBase, NEW w \in Workers, WCrash(w), UNCHANGED table
    PROVE  Drops(w) /\ QBase' /\ UNCHANGED <<store, settled, req, acked>>
<1> USE DEF storeVars, histVars
<1>0. TypeOK /\ WorkersOK /\ table \in Seq(RowType) /\ RowsUnique
  BY QBaseParts, Zenon
<1>1. WorkersOK' /\ Drops(w)
  BY <1>0, DropStep, Zenon DEF WCrash, Busy
<1>2. env' \in EnvType
  <2>1. env \in EnvType /\ env.crashes > 0 /\ env' = [env EXCEPT !.crashes = @ - 1]
    BY <1>0, Zenon DEF WCrash, TypeOK
  <2> QED
    BY <2>1 DEF EnvType
<1>3. TypeOK'
  BY <1>0, <1>2, Zenon DEF WCrash, TypeOK
<1>4. table' \in Seq(RowType) /\ RowsUnique'
  BY <1>0, Zenon DEF RowsUnique
<1>5. QBase'
  BY <1>1, <1>3, <1>4, QBaseNext, Zenon
<1> QED
  BY <1>1, <1>5, Zenon DEF WCrash

\* The steps of Webhooks, with the workers and the table at rest.
LEMMA HandlerStep ==
    ASSUME QBase, [Next]_vars, UNCHANGED <<worker, table>>
    PROVE  QBase' /\ SameRows
<1>1. TypeOK /\ WorkersOK /\ table \in Seq(RowType) /\ RowsUnique
  BY QBaseParts, Zenon
<1>2. TypeOK'
  BY <1>1, NextTypeOK, Zenon
<1>3. WorkersOK' /\ table' \in Seq(RowType) /\ RowsUnique'
  BY <1>1, Zenon DEF WorkersOK, Busy, RowsUnique
<1>4. QBase'
  BY <1>2, <1>3, QBaseNext, Zenon
<1> QED
  BY <1>4, TableUnchanged, Zenon

-----------------------------------------------------------------------------
(* One run of the handler at a time.                                       *)

\* Who is inside the app's handler for e, and that it is one request or worker.
Running(e) == {r \in Requests : req[r].pc = "run" /\ req[r].evt = e}
              \cup {w \in Workers : worker[w].pc = "run" /\ worker[w].evt = e}

OneRunner == \A e \in Events : \A x, y \in Running(e) : x = y

\* Only those have rows, and no request runs their handler.
QueuedOnly ==
    /\ \A e \in Events : HasRow(e) => Queued(e)
    /\ \A r \in Requests : /\ req[r].pc \in {"claim", "enqueue"} => Queued(req[r].evt)
                           /\ req[r].pc = "run" => ~Queued(req[r].evt)

\* A worker's row is in processing, and no other worker has it.
RowHeld ==
    /\ \A w \in Workers : Busy(w) => Row(worker[w].evt, "processing")
    /\ \A v, w \in Workers : Busy(v) /\ worker[v].evt = worker[w].evt => v = w

\* The claim of an event that is not queued is exclusive.
SyncHeld ==
    /\ \A r \in Requests : Holding(r) /\ ~Queued(req[r].evt) =>
           Owns(store, req[r].evt, req[r].token)
    /\ \A r, s \in Requests :
           Holding(r) /\ Holding(s) /\ ~Queued(req[r].evt) /\ req[r].evt = req[s].evt => r = s

RunInv == QBase /\ QueuedOnly /\ RowHeld /\ SyncHeld

\* Enqueue does not fail, and no worker outlives StuckAfter.
OneQueue == {"enqueue", "sweep"} \cap FaultyOps = {}

\* No handler outlives StuckAfter.
Prompt == "sweep" \notin FaultyOps

\* A busy worker's event has a row.
LEMMA BusyHasRow ==
    ASSUME QBase, RowHeld, NEW w \in Workers, Busy(w)
    PROVE  worker[w].evt \in Events /\ HasRow(worker[w].evt)
BY QBaseParts, Zenon DEF WorkersOK, RowHeld, Row, HasRow, RowsOf

\* It was given to the queue.
LEMMA BusyIsQueued ==
    ASSUME RunInv, NEW w \in Workers, Busy(w)
    PROVE  worker[w].evt \in Events /\ HasRow(worker[w].evt) /\ Queued(worker[w].evt)
BY BusyHasRow, Zenon DEF RunInv, QueuedOnly

\* A request's claim on an event that is not queued, over a step of Handle.
LEMMA SyncStep ==
    ASSUME RunInv, NEW r \in Requests, Moves(r), HoldStep(r), req[r].evt \in Events,
           \A f \in Events : f # req[r].evt => store'[f] = store[f]
    PROVE  SyncHeld'
<1>0. \A s \in Requests : Holding(s) => req[s].evt \in Events
  BY QBaseParts, Zenon DEF RunInv, TypeOK, Holding
<1>1. \A s \in Requests : s # r => req'[s] = req[s] /\ (Holding(s)' <=> Holding(s))
  BY Zenon DEF Moves, Holding
<1>2. CASE /\ UNCHANGED store
           /\ Holding(r)' => /\ Holding(r) /\ req'[r].evt = req[r].evt
                             /\ req'[r].token = req[r].token
  <2>1. \A s \in Requests : Holding(s)' => /\ Holding(s) /\ req'[s].evt = req[s].evt
                                           /\ req'[s].token = req[s].token
    BY <1>1, <1>2, Zenon
  <2> QED
    BY <1>2, <2>1, Zenon DEF RunInv, SyncHeld, Queued, Owns
<1>3. CASE /\ store[req[r].evt].state = "absent" /\ req'[r].evt = req[r].evt
           /\ Owns(store', req'[r].evt, req'[r].token)
  <2>1. ASSUME NEW s \in Requests, s # r, Holding(s), ~Queued(req[s].evt)
        PROVE  /\ req[s].evt # req[r].evt
               /\ Owns(store', req[s].evt, req[s].token)
    <3>1. Owns(store, req[s].evt, req[s].token) /\ req[s].evt \in Events
      BY <1>0, <2>1, Zenon DEF RunInv, SyncHeld
    <3>2. store[req[s].evt].state = "locked"
      <4>1. store[req[s].evt] = [state |-> "locked", token |-> req[s].token]
        BY <3>1, Zenon DEF Owns
      <4> QED
        BY <4>1
    <3>3. req[s].evt # req[r].evt
      BY <1>3, <3>2, Zenon
    <3> QED
      BY <3>1, <3>3, Zenon DEF Owns
  <2>2. ASSUME NEW s \in Requests, Holding(s)', ~Queued(req'[s].evt)
        PROVE  Owns(store', req'[s].evt, req'[s].token)
    BY <1>1, <1>3, <2>1, <2>2, Zenon
  <2>3. ASSUME NEW s \in Requests, NEW t \in Requests, Holding(s)', Holding(t)',
               ~Queued(req'[s].evt), req'[s].evt = req'[t].evt
        PROVE  s = t
    BY <1>1, <1>3, <2>1, <2>3, Zenon DEF RunInv, SyncHeld
  <2> QED
    BY <2>2, <2>3, Zenon DEF SyncHeld, Queued
<1>4. CASE Holding(r) /\ ~Holding(r)'
  <2>1. ASSUME NEW s \in Requests, Holding(s)', ~Queued(req'[s].evt)
        PROVE  Owns(store', req'[s].evt, req'[s].token)
    <3>1. s # r /\ Holding(s) /\ req'[s] = req[s] /\ ~Queued(req[s].evt)
      BY <1>1, <1>4, <2>1, Zenon
    <3>2. req[s].evt # req[r].evt
      BY <1>4, <3>1, Zenon DEF RunInv, SyncHeld
    <3> QED
      BY <1>0, <3>1, <3>2, Zenon DEF RunInv, SyncHeld, Owns
  <2>2. ASSUME NEW s \in Requests, NEW t \in Requests, Holding(s)', Holding(t)',
               ~Queued(req'[s].evt), req'[s].evt = req'[t].evt
        PROVE  s = t
    BY <1>1, <1>4, <2>2, Zenon DEF RunInv, SyncHeld
  <2> QED
    BY <2>1, <2>2, Zenon DEF SyncHeld, Queued
<1> QED
  BY <1>2, <1>3, <1>4, Zenon DEF HoldStep

\* Requests that do not move keep their claims while the store is touched only
\* for events of the queue.
LEMMA SyncKept ==
    ASSUME RunInv, UNCHANGED req,
           \A f \in Events : ~Queued(f) => store'[f] = store[f]
    PROVE  SyncHeld'
<1>1. \A s \in Requests : Holding(s) => req[s].evt \in Events
  BY QBaseParts, Zenon DEF RunInv, TypeOK, Holding
<1>2. \A s \in Requests : (Holding(s)' <=> Holding(s)) /\ req'[s] = req[s]
  BY Zenon DEF Holding
<1> QED
  BY <1>1, <1>2, Zenon DEF RunInv, SyncHeld, Queued, Owns

\* A request that ends or begins holds nothing.
LEMMA SyncEnds ==
    ASSUME RunInv, NEW r \in Requests, UNCHANGED store, ~Holding(r)',
           \A s \in Requests : s # r => req'[s] = req[s]
    PROVE  SyncHeld'
<1>1. \A s \in Requests : Holding(s)' => Holding(s) /\ req'[s] = req[s]
  BY Zenon DEF Holding
<1>2. SyncHeld /\ \A f, t : Owns(store', f, t) <=> Owns(store, f, t)
  BY Zenon DEF RunInv, Owns
<1>3. \A s \in Requests : Holding(s)' /\ ~Queued(req'[s].evt) =>
         Owns(store', req'[s].evt, req'[s].token)
  BY <1>1, <1>2, Zenon DEF SyncHeld
<1>4. \A s, t \in Requests :
         Holding(s)' /\ Holding(t)' /\ ~Queued(req'[s].evt) /\ req'[s].evt = req'[t].evt => s = t
  <2> SUFFICES ASSUME NEW s \in Requests, NEW t \in Requests, Holding(s)', Holding(t)',
                      ~Queued(req'[s].evt), req'[s].evt = req'[t].evt
               PROVE  s = t
    OBVIOUS
  <2>1. Holding(s) /\ Holding(t) /\ req'[s] = req[s] /\ req'[t] = req[t]
    BY <1>1, Zenon
  <2> QED
    BY <1>2, <2>1, Zenon DEF SyncHeld
<1> QED
  BY <1>3, <1>4, Zenon DEF SyncHeld, Queued

\* The workers and their rows while only requests move.
LEMMA HeldKept ==
    ASSUME QBase, RowHeld, UNCHANGED worker,
           \A f \in Events : Row(f, "processing") => Row(f, "processing")'
    PROVE  RowHeld'
<1>1. \A w \in Workers : worker'[w] = worker[w] /\ (Busy(w)' <=> Busy(w))
  BY Zenon DEF Busy
<1>2. ASSUME NEW w \in Workers, Busy(w)' PROVE Row(worker[w].evt, "processing")'
  <2>1. PICK f \in Events : f = worker[w].evt
    BY <1>1, <1>2, BusyHasRow, Zenon
  <2>2. Row(f, "processing")
    BY <1>1, <1>2, <2>1, Zenon DEF RowHeld
  <2>3. Row(f, "processing")'
    BY <2>2, Zenon
  <2>4. worker'[w].evt = f
    BY <1>1, <2>1, Zenon
  <2> QED
    BY <2>3, <2>4, Zenon DEF Row
<1> QED
  BY <1>1, <1>2, Zenon DEF RowHeld

\* The rows belong to queued events while no row is added for another one.
LEMMA QueuedKept ==
    ASSUME RunInv,
           \A f \in Events : HasRow(f)' => HasRow(f) \/ Queued(f),
           \A s \in Requests : \/ req'[s] = req[s]
                               \/ /\ req'[s].pc \in {"claim", "enqueue"} => Queued(req'[s].evt)
                                  /\ req'[s].pc = "run" => ~Queued(req'[s].evt)
    PROVE  QueuedOnly'
<1>1. ASSUME NEW s \in Requests
      PROVE  /\ req'[s].pc \in {"claim", "enqueue"} => Queued(req'[s].evt)
             /\ req'[s].pc = "run" => ~Queued(req'[s].evt)
  BY Zenon DEF RunInv, QueuedOnly
<1>2. \A f \in Events : HasRow(f)' => Queued(f)
  BY Zenon DEF RunInv, QueuedOnly
<1> QED
  BY <1>1, <1>2, Zenon DEF QueuedOnly, Queued

\* Every step of the queue leaves each row with at most one worker.
LEMMA HeldNext ==
    ASSUME Prompt, QBase, RowHeld, [QNext]_queueVars
    PROVE  QBase' /\ RowHeld'
<1>b. QBase /\ TypeOK /\ WorkersOK
  BY QBaseParts, Zenon
<1>i. Idle.pc = "idle" /\ IdleWorker.pc = "idle"
  BY Zenon DEF Idle, IdleWorker
<1>1. ASSUME [Next]_vars, UNCHANGED <<worker, table>> PROVE QBase' /\ RowHeld'
  <2>1. QBase' /\ SameRows
    BY <1>b, <1>1, HandlerStep, Zenon
  <2> QED
    BY <1>1, <2>1, HeldKept, Zenon DEF SameRows
<1>3. ASSUME NEW r \in Requests, LogClaimed(r), UNCHANGED table PROVE QBase' /\ RowHeld'
  <2>1. TypeOK' /\ UNCHANGED worker
    BY <1>b, <1>3, LogClaimedStep, Zenon
  <2>2. WorkersOK' /\ table' \in Seq(RowType) /\ RowsUnique'
    BY <1>b, <1>3, <2>1, QBaseParts, Zenon DEF WorkersOK, Busy, RowsUnique
  <2>3. SameRows /\ QBase'
    BY <1>3, <2>1, <2>2, QBaseNext, TableUnchanged, Zenon
  <2> QED
    BY <2>1, <2>3, HeldKept, Zenon DEF SameRows
<1>4. ASSUME NEW r \in Requests, Enqueue(r) PROVE QBase' /\ RowHeld'
  <2>0. PICK e : e = req[r].evt
    OBVIOUS
  <2>1. /\ TypeOK' /\ UNCHANGED worker
        /\ EnqueueDone(r, e) \/ EnqueueFails(r)
    BY <1>b, <1>4, <2>0, EnqueueStep, Zenon
  <2>2. WorkersOK'
    BY <1>b, <2>1, Zenon DEF WorkersOK, Busy
  <2>3. /\ table' \in Seq(RowType) /\ RowsUnique'
        /\ \A f \in Events : Row(f, "processing") => Row(f, "processing")'
    <3>1. CASE EnqueueDone(r, e)
      <4>1. ASSUME NEW f \in Events, Row(f, "processing") PROVE Row(f, "processing")'
        BY <3>1, <4>1, Zenon DEF EnqueueDone, OtherRows
      <4> QED
        BY <3>1, <4>1, Zenon DEF EnqueueDone
    <3>2. CASE EnqueueFails(r)
      BY <1>b, <3>2, QBaseParts, Zenon DEF EnqueueFails, SameRows, RowsUnique
    <3> QED
      BY <2>1, <3>1, <3>2, Zenon
  <2>4. QBase'
    BY <2>1, <2>2, <2>3, QBaseNext, Zenon
  <2> QED
    BY <2>1, <2>3, <2>4, HeldKept, Zenon
<1>6. ASSUME NEW w \in Workers, ProcessQueued(w), UNCHANGED table PROVE QBase' /\ RowHeld'
  <2> DEFINE e == worker[w].evt
  <2>1. e \in Events /\ TypeOK' /\ WorkersOK' /\ Carries(w) /\ Dispatches(e)
    BY <1>b, <1>6, ProcessStep, Zenon
  <2>2. SameRows /\ QBase'
    <3>1. table' \in Seq(RowType) /\ RowsUnique'
      BY <1>b, <1>6, QBaseParts, Zenon DEF RowsUnique
    <3> QED
      BY <1>6, <2>1, <3>1, QBaseNext, TableUnchanged, Zenon
  <2>6. \A v \in Workers : worker'[v].evt = worker[v].evt /\ (Busy(v)' <=> Busy(v))
    BY <2>1, Zenon DEF Carries, Busy
  <2>7. ASSUME NEW v \in Workers, Busy(v)' PROVE Row(worker[v].evt, "processing")'
    <3>1. PICK f : f = worker[v].evt
      OBVIOUS
    <3>2. Row(f, "processing")
      BY <2>6, <2>7, <3>1, Zenon DEF RowHeld
    <3>3. Row(f, "processing")' /\ worker'[v].evt = f
      BY <2>2, <2>6, <3>1, <3>2, Zenon DEF SameRows
    <3> QED
      BY <3>3, Zenon DEF Row
  <2>8. RowHeld'
    BY <2>6, <2>7, Zenon DEF RowHeld
  <2> QED
    BY <2>2, <2>8, Zenon
<1>v. ASSUME NEW e \in Events, OtherRows(e),
             NEW v \in Workers, Busy(v), worker'[v] = worker[v], worker[v].evt # e
      PROVE  Row(worker[v].evt, "processing")'
  <2>1. PICK f : f = worker[v].evt
    OBVIOUS
  <2>2. Row(f, "processing")
    BY <1>v, <2>1, Zenon DEF RowHeld
  <2>3. Row(f, "processing")' /\ worker'[v].evt = f
    BY <1>v, <2>1, <2>2, Zenon DEF OtherRows
  <2> QED
    BY <2>3, Zenon DEF Row
<1>7. ASSUME NEW w \in Workers, Dequeue(w) PROVE QBase' /\ RowHeld'
  <2>1. PICK e \in Events :
             /\ Row(e, "queued") /\ Row(e, "processing")' /\ OtherRows(e)
             /\ ~Busy(w) /\ worker'[w].evt = e /\ worker'[w].pc = "run"
             /\ \A v \in Workers : v # w => worker'[v] = worker[v]
             /\ UNCHANGED <<store, settled, req, acked>>
             /\ QBase'
    BY <1>b, <1>7, DequeueStep, Zenon
  <2>4. ASSUME NEW v \in Workers, Busy(v) PROVE worker[v].evt # e
    <3>1. SUFFICES ASSUME worker[v].evt = e PROVE FALSE
      OBVIOUS
    <3>2. Row(e, "processing")
      BY <2>4, <3>1, Zenon DEF RowHeld
    <3>3. PICK i \in DOMAIN table : table[i].evt = e /\ table[i].state = "queued"
      BY <2>1, Zenon DEF Row
    <3>4. PICK j \in DOMAIN table : table[j].evt = e /\ table[j].state = "processing"
      BY <3>2, Zenon DEF Row
    <3>5. i = j
      BY <1>b, <3>3, <3>4, Zenon DEF QBase, RowsUnique
    <3> QED
      BY <3>3, <3>4, <3>5, Zenon
  <2>5. \A v \in Workers : v # w => (Busy(v)' <=> Busy(v))
    BY <2>1, Zenon DEF Busy
  <2>6. ASSUME NEW v \in Workers, Busy(v)' PROVE Row(worker[v].evt, "processing")'
    <3>1. CASE v = w
      BY <2>1, <3>1, Zenon DEF Row
    <3>2. CASE v # w
      BY <1>v, <2>1, <2>4, <2>5, <2>6, <3>2, Zenon
    <3> QED
      BY <3>1, <3>2, Zenon
  <2>7. ASSUME NEW u \in Workers, NEW v \in Workers, Busy(u)', worker'[u].evt = worker'[v].evt
        PROVE  u = v
    <3>1. \A x \in Workers : x # w => worker'[x].evt # e
      <4> SUFFICES ASSUME NEW x \in Workers, x # w PROVE worker'[x].evt # e
        OBVIOUS
      <4>1. CASE Busy(x)
        BY <2>1, <2>4, <4>1, Zenon
      <4>2. CASE ~Busy(x)
        BY <1>b, <2>1, <4>2, Zenon DEF WorkersOK
      <4> QED
        BY <4>1, <4>2, Zenon
    <3> QED
      BY <2>1, <2>5, <2>7, <3>1, Zenon DEF RowHeld
  <2>8. RowHeld'
    BY <2>6, <2>7, Zenon DEF RowHeld
  <2> QED
    BY <2>1, <2>8, Zenon
<1>d. ASSUME NEW w \in Workers, Drops(w),
             \A v \in Workers : v # w /\ Busy(v) => Row(worker[v].evt, "processing")'
      PROVE  RowHeld'
  <2>1. \A v \in Workers : Busy(v)' => v # w /\ Busy(v) /\ worker'[v] = worker[v]
    BY <1>d, <1>i, Zenon DEF Drops, Busy
  <2>2. \A v \in Workers : Busy(v)' => Row(worker[v].evt, "processing")'
    BY <1>d, <2>1, Zenon
  <2>3. ASSUME NEW u \in Workers, NEW v \in Workers, Busy(u)', worker'[u].evt = worker'[v].evt
        PROVE  u = v
    <3>1. Busy(u) /\ u # w /\ worker'[u] = worker[u] /\ worker[u].evt \in Events
      BY <2>1, <2>3, BusyHasRow, Zenon
    <3>2. v # w
      <4>1. worker'[w].evt \notin Events
        BY <1>d, ConfigAssumption DEF Drops, IdleWorker, ConfigAssumption
      <4> QED
        BY <2>3, <3>1, <4>1, Zenon
    <3>3. worker'[v] = worker[v]
      BY <1>d, <3>2, Zenon DEF Drops
    <3> QED
      BY <2>3, <3>1, <3>3, Zenon DEF RowHeld
  <2> QED
    BY <2>2, <2>3, Zenon DEF RowHeld
<1>8. ASSUME NEW w \in Workers, Return(w) PROVE QBase' /\ RowHeld'
  <2>0. PICK e : e = worker[w].evt
    OBVIOUS
  <2>1. /\ e \in Events /\ Drops(w) /\ OtherRows(e) /\ QBase'
        /\ UNCHANGED <<store, req, acked>>
    BY <1>b, <1>8, <2>0, ReturnStep, Zenon
  <2>4. ASSUME NEW v \in Workers, v # w, Busy(v) PROVE Row(worker[v].evt, "processing")'
    <3>1. worker[v].evt # e
      BY <2>0, <2>1, <2>4, Zenon DEF RowHeld, Drops
    <3> QED
      BY <1>v, <2>1, <2>4, <3>1, Zenon DEF Drops
  <2>5. RowHeld'
    BY <1>d, <2>1, <2>4, Zenon
  <2> QED
    BY <2>1, <2>5, Zenon
<1>9. ASSUME NEW w \in Workers, WCrash(w), UNCHANGED table PROVE QBase' /\ RowHeld'
  <2>1. Drops(w) /\ QBase' /\ UNCHANGED <<store, settled, req, acked>> /\ SameRows
    BY <1>b, <1>9, WCrashStep, TableUnchanged, Zenon
  <2>2. PICK e : e = worker[w].evt
    OBVIOUS
  <2>3. e \in Events /\ OtherRows(e)
    BY <2>1, <2>2, BusyHasRow, Zenon DEF SameRows, OtherRows, Drops
  <2>5. ASSUME NEW v \in Workers, v # w, Busy(v) PROVE Row(worker[v].evt, "processing")'
    <3>1. worker[v].evt # e
      BY <2>1, <2>2, <2>5, Zenon DEF RowHeld, Drops
    <3> QED
      BY <1>v, <2>1, <2>3, <2>5, <3>1, Zenon DEF Drops
  <2>6. RowHeld'
    BY <1>d, <2>1, <2>5, Zenon
  <2> QED
    BY <2>1, <2>6, Zenon
<1>10. ASSUME NEW e \in Events, Sweep(e) PROVE QBase' /\ RowHeld'
  <2>1. /\ Row(e, "processing") /\ OtherRows(e) /\ QBase'
        /\ UNCHANGED <<store, settled, req, acked, worker>>
        /\ \A w \in Workers : worker[w].evt # e
    <3>1. "sweep" \notin FaultyOps
      BY Zenon DEF Prompt
    <3> QED
      BY <1>b, <1>10, <3>1, SweepStep, Zenon
  <2>4. \A w \in Workers : worker'[w] = worker[w] /\ (Busy(w)' <=> Busy(w))
    BY <2>1, Zenon DEF Busy
  <2>5. \A w \in Workers : Busy(w)' => Row(worker[w].evt, "processing")'
    BY <1>v, <2>1, <2>4, Zenon
  <2>6. RowHeld'
    BY <2>4, <2>5, Zenon DEF RowHeld
  <2> QED
    BY <2>1, <2>6, Zenon
<1>11. CASE UNCHANGED queueVars
  <2>1. [Next]_vars /\ UNCHANGED <<worker, table>>
    BY <1>11, Zenon DEF queueVars, vars
  <2> QED
    BY <1>1, <2>1, Zenon
<1> QED
  BY <1>1, <1>3, <1>4, <1>6, <1>7, <1>8, <1>9, <1>10, <1>11, Zenon
  DEF QNext, RequestStep, WorkerStep, Next

\* Every step of the queue keeps the invariant.
LEMMA RunInvNext == ASSUME OneQueue, RunInv, [QNext]_queueVars PROVE RunInv'
<1>b. QBase /\ TypeOK /\ WorkersOK
  BY QBaseParts, Zenon DEF RunInv
<1>h. QBase' /\ RowHeld'
  BY HeldNext, Zenon DEF RunInv, OneQueue, Prompt
<1> SUFFICES QueuedOnly' /\ SyncHeld'
  BY <1>h, Zenon DEF RunInv
<1>i. Idle.pc = "idle" /\ IdleWorker.pc = "idle"
  BY Zenon DEF Idle, IdleWorker
<1>e. ASSUME NEW r \in Requests, req'[r].pc \in {"idle", "get"}, UNCHANGED store,
             \A s \in Requests : s # r => req'[s] = req[s],
             \A f \in Events : HasRow(f)' => HasRow(f) \/ Queued(f)
      PROVE  QueuedOnly' /\ SyncHeld'
  <2>1. ~Holding(r)'
    BY <1>e, Zenon DEF Holding
  <2>2. \A s \in Requests : \/ req'[s] = req[s]
                            \/ /\ req'[s].pc \in {"claim", "enqueue"} => Queued(req'[s].evt)
                               /\ req'[s].pc = "run" => ~Queued(req'[s].evt)
    BY <1>e, Zenon
  <2> QED
    BY <1>e, <2>1, <2>2, QueuedKept, SyncEnds, Zenon
<1>m. ASSUME NEW r \in Requests, Moves(r), HoldStep(r), req[r].evt \in Events,
             req'[r].pc \in {"claim", "enqueue"} => Queued(req'[r].evt),
             req'[r].pc = "run" => ~Queued(req'[r].evt),
             UNCHANGED table, \A f \in Events : f # req[r].evt => store'[f] = store[f]
      PROVE  QueuedOnly' /\ SyncHeld'
  <2>1. \A s \in Requests : \/ req'[s] = req[s]
                            \/ /\ req'[s].pc \in {"claim", "enqueue"} => Queued(req'[s].evt)
                               /\ req'[s].pc = "run" => ~Queued(req'[s].evt)
    BY <1>m, Zenon DEF Moves
  <2>2. \A f \in Events : HasRow(f)' => HasRow(f) \/ Queued(f)
    BY <1>m, TableUnchanged, Zenon DEF SameRows, HasRow, RowsOf
  <2> QED
    BY <1>m, <2>1, <2>2, QueuedKept, SyncStep, Zenon
<1>w. ASSUME UNCHANGED req, \A f \in Events : HasRow(f)' => HasRow(f),
             \A f \in Events : ~Queued(f) => store'[f] = store[f]
      PROVE  QueuedOnly' /\ SyncHeld'
  <2>1. \A s \in Requests : req'[s] = req[s]
    BY <1>w, Zenon
  <2> QED
    BY <1>w, <2>1, QueuedKept, SyncKept, Zenon
<1>t. ASSUME UNCHANGED table PROVE \A f \in Events : HasRow(f)' => HasRow(f)
  BY <1>t, Zenon DEF HasRow, RowsOf
<1>1. ASSUME NEW r \in Requests, NEW e \in Events, Deliver(r, e), UNCHANGED <<worker, table>>
      PROVE  QueuedOnly' /\ SyncHeld'
  <2> DEFINE v == [Idle EXCEPT !.pc = "get", !.evt = e]
  <2>1. v.pc = "get" /\ req' = [req EXCEPT ![r] = v] /\ UNCHANGED store
    BY <1>1, Zenon DEF Deliver, Idle, storeVars
  <2> HIDE DEF v
  <2>2. req'[r].pc = "get" /\ \A s \in Requests : s # r => req'[s] = req[s]
    BY <1>b, <2>1, Zenon DEF TypeOK
  <2> QED
    BY <1>1, <1>e, <1>t, <2>1, <2>2, Zenon
<1>2. ASSUME NEW r \in Requests, Step(r), UNCHANGED <<worker, table>>
      PROVE  QueuedOnly' /\ SyncHeld'
  <2>1. /\ req[r].evt \in Events /\ Moves(r) /\ Routed(r) /\ HoldStep(r)
        /\ \A f \in Events : f # req[r].evt => store'[f] = store[f]
    BY <1>b, <1>2, StepEffect, StepHolds, Zenon DEF Elsewhere
  <2> QED
    BY <1>2, <1>m, <2>1, Zenon DEF Routed
<1>3. ASSUME NEW r \in Requests, LogClaimed(r), UNCHANGED table PROVE QueuedOnly' /\ SyncHeld'
  <2>1. /\ req[r].pc = "claim" /\ req[r].evt \in Events /\ Moves(r)
        /\ req'[r].pc = "enqueue" /\ req'[r].evt = req[r].evt /\ req'[r].token = req[r].token
        /\ UNCHANGED store
    BY <1>b, <1>3, LogClaimedStep, Zenon
  <2>2. HoldStep(r)
    BY <2>1, Zenon DEF HoldStep, Holding
  <2>3. Queued(req'[r].evt) /\ req'[r].pc # "run"
    BY <2>1, Zenon DEF RunInv, QueuedOnly
  <2> QED
    BY <1>3, <1>m, <2>1, <2>2, <2>3, Zenon
<1>4. ASSUME NEW r \in Requests, Enqueue(r) PROVE QueuedOnly' /\ SyncHeld'
  <2>0. PICK e : e = req[r].evt
    OBVIOUS
  <2>1. /\ req[r].pc = "enqueue" /\ Moves(r) /\ UNCHANGED store /\ EnqueueDone(r, e)
    <3>1. ~EnqueueFails(r)
      BY Zenon DEF EnqueueFails, OneQueue
    <3> QED
      BY <1>b, <1>4, <2>0, <3>1, EnqueueStep, Zenon
  <2>2. Queued(e)
    BY <2>0, <2>1, Zenon DEF RunInv, QueuedOnly
  <2>3. req'[r].pc = "idle" /\ \A s \in Requests : s # r => req'[s] = req[s]
    BY <1>i, <2>1, Zenon DEF EnqueueDone, Moves
  <2>4. \A f \in Events : HasRow(f)' => HasRow(f) \/ Queued(f)
    BY <2>1, <2>2, OtherHas, Zenon DEF EnqueueDone
  <2> QED
    BY <1>e, <2>1, <2>3, <2>4, Zenon
<1>5. ASSUME NEW r \in Requests, Crash(r), UNCHANGED <<worker, table>>
      PROVE  QueuedOnly' /\ SyncHeld'
  <2>1. /\ req'[r].pc = "idle" /\ UNCHANGED store
        /\ \A s \in Requests : s # r => req'[s] = req[s]
    BY <1>b, <1>5, <1>i, Zenon DEF Crash, TypeOK, storeVars
  <2> QED
    BY <1>5, <1>e, <1>t, <2>1, Zenon
<1>6. ASSUME NEW w \in Workers, ProcessQueued(w), UNCHANGED table PROVE QueuedOnly' /\ SyncHeld'
  <2> DEFINE e == worker[w].evt
  <2>1. e \in Events /\ Carries(w) /\ Dispatches(e)
    BY <1>b, <1>6, ProcessStep, Zenon
  <2>2. Queued(e)
    BY <2>1, BusyIsQueued, Zenon DEF Carries
  <2> QED
    BY <1>6, <1>t, <1>w, <2>1, <2>2, Zenon DEF Dispatches
<1>h2. ASSUME NEW e \in Events, UNCHANGED <<req, store>>, OtherRows(e), HasRow(e)
      PROVE  QueuedOnly' /\ SyncHeld'
  <2>1. \A f \in Events : HasRow(f)' => HasRow(f)
    BY <1>h2, OtherHas, Zenon
  <2> QED
    BY <1>h2, <1>w, <2>1, Zenon
<1>7. ASSUME NEW w \in Workers, Dequeue(w) PROVE QueuedOnly' /\ SyncHeld'
  <2>1. PICK e \in Events : Row(e, "queued") /\ OtherRows(e) /\ UNCHANGED <<store, req>>
    BY <1>b, <1>7, DequeueStep, Zenon
  <2> QED
    BY <1>h2, <2>1, Zenon DEF HasRow, RowsOf, Row
<1>8. ASSUME NEW w \in Workers, Return(w) PROVE QueuedOnly' /\ SyncHeld'
  <2>0. PICK e : e = worker[w].evt
    OBVIOUS
  <2>1. e \in Events /\ Drops(w) /\ OtherRows(e) /\ UNCHANGED <<store, req>>
    BY <1>b, <1>8, <2>0, ReturnStep, Zenon
  <2> QED
    BY <1>h2, <2>0, <2>1, BusyIsQueued, Zenon DEF Drops
<1>9. ASSUME NEW w \in Workers, WCrash(w), UNCHANGED table PROVE QueuedOnly' /\ SyncHeld'
  <2>1. UNCHANGED <<store, req>>
    BY <1>b, <1>9, WCrashStep, Zenon
  <2> QED
    BY <1>9, <1>t, <1>w, <2>1, Zenon
<1>10. ASSUME NEW e \in Events, Sweep(e) PROVE QueuedOnly' /\ SyncHeld'
  <2>1. Row(e, "processing") /\ OtherRows(e) /\ UNCHANGED <<store, req>>
    BY <1>b, <1>10, SweepStep, Zenon
  <2> QED
    BY <1>h2, <2>1, Zenon DEF HasRow, RowsOf, Row
<1>11. CASE UNCHANGED queueVars
  BY <1>11, <1>t, <1>w, Zenon DEF queueVars
<1> QED
  BY <1>1, <1>2, <1>3, <1>4, <1>5, <1>6, <1>7, <1>8, <1>9, <1>10, <1>11, Zenon
  DEF QNext, RequestStep, WorkerStep

\* Two workers never run the handler of one event at once as long as the sweeper
\* puts back no row whose worker is alive: whatever statements fail, Enqueue
\* included, whatever crashes or is delivered twice, for any number of workers.
THEOREM RunsAreExclusive == Prompt => (QSpec => []RunExclusive)
<1> SUFFICES ASSUME Prompt PROVE QSpec => []RunExclusive
  OBVIOUS
<1>1. QInit => QBase /\ RowHeld
  BY InitQBase, Zenon DEF RowHeld
<1>2. QBase /\ RowHeld /\ [QNext]_queueVars => QBase' /\ RowHeld'
  BY HeldNext, Zenon
<1>3. RowHeld => RunExclusive
  BY Zenon DEF RowHeld, RunExclusive, Busy
<1> QED
  BY <1>1, <1>2, <1>3, PTL DEF QSpec

\* The handler of an event is run by one request or worker at a time as long as
\* Enqueue does not fail (handler.go then dispatches synchronously while an
\* older row may be with a worker) and the sweeper puts back no row whose
\* worker is alive (StuckAfter is long enough): whatever else fails, crashes,
\* is delivered twice, and however many workers poll the table.
THEOREM OneRunsAtATime == OneQueue => (QSpec => []OneRunner)
<1> SUFFICES ASSUME OneQueue PROVE QSpec => []OneRunner
  OBVIOUS
<1>1. ASSUME QInit PROVE RunInv
  <2>1. QBase /\ DOMAIN table = {} /\ \A w \in Workers : ~Busy(w)
    BY <1>1, InitQBase, Zenon
  <2>2. \A r \in Requests : req[r].pc = "idle"
    BY <1>1, Zenon DEF QInit, Init, Idle
  <2>3. \A r \in Requests : ~Holding(r) /\ req[r].pc \notin {"claim", "enqueue", "run"}
    BY <2>2, Zenon DEF Holding
  <2>4. QueuedOnly
    BY <2>1, <2>3, Zenon DEF QueuedOnly, HasRow, RowsOf
  <2> QED
    BY <2>1, <2>3, <2>4, Zenon DEF RunInv, RowHeld, SyncHeld
<1>2. RunInv /\ [QNext]_queueVars => RunInv'
  BY RunInvNext, Zenon
<1>3. ASSUME RunInv PROVE OneRunner
  <2> SUFFICES ASSUME NEW e \in Events, NEW x \in Running(e), NEW y \in Running(e) PROVE x = y
    BY Zenon DEF OneRunner
  <2>1. x = y
    <3>1. \A w \in Workers : worker[w].pc = "run" => Busy(w)
      BY Zenon DEF Busy
    <3>2. \A r \in Requests : req[r].pc = "run" => Holding(r) /\ ~Queued(req[r].evt)
      BY <1>3, Zenon DEF Holding, RunInv, QueuedOnly
    <3>3. CASE Queued(e)
      <4>1. /\ x \in Workers /\ Busy(x) /\ worker[x].evt = e
            /\ y \in Workers /\ worker[y].evt = e
        BY <3>1, <3>2, <3>3, Zenon DEF Running
      <4> QED
        BY <1>3, <4>1, Zenon DEF RunInv, RowHeld
    <3>4. CASE ~Queued(e)
      <4>1. /\ x \in Requests /\ Holding(x) /\ req[x].evt = e
            /\ y \in Requests /\ Holding(y) /\ req[y].evt = e
        BY <1>3, <3>1, <3>2, <3>4, BusyIsQueued, Zenon DEF Running
      <4> QED
        BY <1>3, <3>4, <4>1, Zenon DEF RunInv, SyncHeld
    <3> QED
      BY <3>3, <3>4, Zenon
  <2> QED
    BY <2>1, Zenon
<1> QED
  BY <1>1, <1>2, <1>3, PTL DEF QSpec

-----------------------------------------------------------------------------
(* An acknowledged event is durable.                                       *)

\* Stripe awaits each answer, requests do not die and unlocks do not fail.
Awaited == ~Overlap /\ Crashable \cap Requests = {} /\ "unlock" \notin FaultyOps

\* The event is disposed of, or the table will see to it.
Safe(e) == settled[e] # "no" \/ HasRow(e)

\* An event has at most one request.
OneRequest ==
    /\ \A r \in Requests : req[r].pc = "idle" => req[r].evt = NoEvent
    /\ \A r, s \in Requests : req[r].evt = req[s].evt /\ req[r].pc # "idle" => r = s

\* A claim on an event that is not safe has its request, and the other way round.
ClaimsAttended ==
    /\ \A e \in Events : store[e].state # "absent" =>
           Safe(e) \/ \E r \in Requests : req[r].evt = e /\ Holding(r)
    /\ \A r \in Requests : Holding(r) /\ ~Safe(req[r].evt) =>
           Owns(store, req[r].evt, req[r].token)

\* Who has finished with an event, or is with a worker, has left it safe.
SafeOnes ==
    /\ \A e \in Events : acked[e] => Safe(e)
    /\ \A r \in Requests : req[r].pc \in {"set", "finish", "respond"} => settled[req[r].evt] # "no"
    /\ \A w \in Workers : Busy(w) => Safe(worker[w].evt)

DurableInv == QBase /\ OneRequest /\ ClaimsAttended /\ SafeOnes

\* A busy worker's event stays safe.
LEMMA BusySafe ==
    ASSUME DurableInv, NEW w \in Workers, Busy(w), worker'[w].evt = worker[w].evt,
           \A f \in Events : Safe(f) => Safe(f)'
    PROVE  Safe(worker[w].evt)'
<1>1. PICK f : f = worker[w].evt
  OBVIOUS
<1>2. f \in Events /\ Safe(f)
  BY <1>1, QBaseParts, Zenon DEF DurableInv, SafeOnes, WorkersOK
<1>3. Safe(f)' /\ worker'[w].evt = f
  BY <1>1, <1>2, Zenon
<1> QED
  BY <1>3, Zenon DEF Safe, HasRow, RowsOf

\* A step of a worker or of the sweeper.
LEMMA WorkerKeeps ==
    ASSUME DurableInv, QBase', UNCHANGED <<req, acked>>,
           \A f \in Events : /\ Safe(f) => Safe(f)'
                             /\ settled[f] # "no" => settled'[f] # "no"
                             /\ ~Safe(f) => store'[f] = store[f],
           \A w \in Workers : Busy(w)' => Safe(worker[w].evt)'
    PROVE  DurableInv'
<1>1. \A r \in Requests : req'[r] = req[r] /\ (Holding(r)' <=> Holding(r))
  BY Zenon DEF Holding
<1>2. \A r \in Requests : req[r].pc # "idle" => req[r].evt \in Events
  BY QBaseParts, Zenon DEF DurableInv, TypeOK
<1>3. \A r \in Requests : Holding(r) => req[r].evt \in Events
  BY <1>2, Zenon DEF Holding
<1>4. OneRequest'
  BY <1>1, Zenon DEF DurableInv, OneRequest
<1>5. ASSUME NEW e \in Events, store'[e].state # "absent"
      PROVE  Safe(e)' \/ \E r \in Requests : req'[r].evt = e /\ Holding(r)'
  BY <1>1, <1>5, Zenon DEF DurableInv, ClaimsAttended
<1>6. ASSUME NEW r \in Requests, Holding(r)', ~Safe(req[r].evt)'
      PROVE  Owns(store', req'[r].evt, req'[r].token)
  <2>1. PICK e : e = req[r].evt
    OBVIOUS
  <2>2. e \in Events /\ Holding(r) /\ req'[r] = req[r]
    BY <1>1, <1>3, <1>6, <2>1, Zenon
  <2>3. ~Safe(e)'
    BY <1>6, <2>1, <2>2, Zenon DEF Safe, HasRow, RowsOf
  <2>4. ~Safe(e) /\ store'[e] = store[e]
    BY <2>2, <2>3, Zenon
  <2> QED
    BY <2>1, <2>2, <2>4, Zenon DEF DurableInv, ClaimsAttended, Owns
<1>7. \A e \in Events : acked'[e] => Safe(e)'
  BY Zenon DEF DurableInv, SafeOnes
<1>8. \A r \in Requests : req'[r].pc \in {"set", "finish", "respond"} => settled'[req'[r].evt] # "no"
  <2> SUFFICES ASSUME NEW r \in Requests, req[r].pc \in {"set", "finish", "respond"}
               PROVE  settled'[req[r].evt] # "no"
    BY <1>1, Zenon
  <2>1. req[r].evt \in Events /\ settled[req[r].evt] # "no"
    BY <1>2, Zenon DEF DurableInv, SafeOnes
  <2> QED
    BY <2>1, Zenon
<1>9. ClaimsAttended'
  BY <1>5, <1>6, Zenon DEF ClaimsAttended
<1>10. SafeOnes'
  BY <1>7, <1>8, Zenon DEF SafeOnes
<1> QED
  BY <1>4, <1>9, <1>10, Zenon DEF DurableInv

\* A step of a request.
LEMMA RequestKeeps ==
    ASSUME DurableInv, QBase', UNCHANGED worker, NEW r \in Requests, NEW e \in Events,
           e = req[r].evt, Moves(r), HoldStep(r), Safe(e) => Safe(e)',
           \A f \in Events : f # e => /\ store'[f] = store[f] /\ acked'[f] = acked[f]
                                      /\ settled'[f] = settled[f] /\ (HasRow(f)' <=> HasRow(f)),
           acked'[e] => Safe(e)',
           store'[e].state # "absent" => Safe(e)' \/ Holding(r)',
           req'[r].pc \in {"set", "finish", "respond"} => settled'[e] # "no"
    PROVE  DurableInv'
<1>i. Idle.pc = "idle" /\ Idle.evt = NoEvent /\ NoEvent \notin Events
  BY ConfigAssumption, Zenon DEF Idle, ConfigAssumption
<1>0. \A f \in Events : /\ f # e => (Safe(f)' <=> Safe(f))
                        /\ Safe(f) => Safe(f)'
  BY Zenon DEF Safe
<1>1. /\ req[r].pc # "idle"
      /\ \A s \in Requests : s # r => req'[s] = req[s] /\ (Holding(s)' <=> Holding(s))
      /\ req'[r] = Idle \/ (req'[r].evt = e /\ req'[r].pc # "idle")
  <2>1. \A s \in Requests : s # r => req'[s] = req[s]
    BY Zenon DEF Moves
  <2>2. \A s \in Requests : s # r => (Holding(s)' <=> Holding(s))
    BY <2>1, Zenon DEF Holding
  <2> QED
    BY <2>1, <2>2, Zenon DEF Moves
<1>2. \A s \in Requests : req[s].pc # "idle" => req[s].evt \in Events
  BY QBaseParts, Zenon DEF DurableInv, TypeOK
<1>3. \A s \in Requests : s # r => req[s].evt # e
  BY <1>1, Zenon DEF DurableInv, OneRequest
<1>4. Holding(r)' => req'[r].evt = e
  BY <1>1, <1>i, Zenon DEF Holding
<1>5. OneRequest'
  <2>1. \A s \in Requests : req'[s].pc = "idle" => req'[s].evt = NoEvent
    BY <1>1, <1>i, Zenon DEF DurableInv, OneRequest
  <2>2. ASSUME NEW s \in Requests, NEW t \in Requests, req'[s].evt = req'[t].evt,
               req'[s].pc # "idle"
        PROVE  s = t
    <3>1. CASE s # r /\ t # r
      <4>1. req'[s] = req[s] /\ req'[t] = req[t]
        BY <1>1, <3>1, Zenon
      <4>2. req[s].evt = req[t].evt /\ req[s].pc # "idle" => s = t
        BY Zenon DEF DurableInv, OneRequest
      <4> QED
        BY <2>2, <4>1, <4>2, Zenon
    <3>2. CASE s = r /\ t # r
      <4>1. req'[t] = req[t] /\ req[t].evt # e
        BY <1>1, <1>3, <3>2, Zenon
      <4>2. req'[s].evt = e
        BY <1>1, <1>i, <2>2, <3>2, Zenon
      <4> QED
        BY <2>2, <4>1, <4>2, Zenon
    <3>3. CASE s # r /\ t = r
      <4>1. req'[s] = req[s] /\ req[s].evt \in Events /\ req[s].evt # e
        BY <1>1, <1>2, <1>3, <2>2, <3>3, Zenon
      <4>2. req'[t].evt = e \/ req'[t].evt = NoEvent
        BY <1>1, <1>i, <3>3, Zenon
      <4> QED
        BY <1>i, <2>2, <4>1, <4>2, Zenon
    <3> QED
      BY <3>1, <3>2, <3>3, Zenon
  <2> QED
    BY <2>1, <2>2, Zenon DEF OneRequest
<1>6. ASSUME NEW f \in Events, store'[f].state # "absent"
      PROVE  Safe(f)' \/ \E s \in Requests : req'[s].evt = f /\ Holding(s)'
  <2>1. CASE f = e
    BY <1>4, <1>6, <2>1, Zenon
  <2>2. CASE f # e
    <3>1. Safe(f) \/ \E s \in Requests : req[s].evt = f /\ Holding(s)
      BY <1>6, <2>2, Zenon DEF DurableInv, ClaimsAttended
    <3> QED
      BY <1>0, <1>1, <2>2, <3>1, Zenon
  <2> QED
    BY <2>1, <2>2, Zenon
<1>7. ASSUME NEW s \in Requests, Holding(s)', ~Safe(req[s].evt)'
      PROVE  Owns(store', req'[s].evt, req'[s].token)
  <2>1. CASE s # r
    <3>1. PICK f : f = req[s].evt
      OBVIOUS
    <3>2. req'[s] = req[s] /\ Holding(s) /\ f # e
      BY <1>1, <1>3, <1>7, <2>1, <3>1, Zenon
    <3>3. f \in Events
      BY <1>2, <3>1, <3>2, Zenon DEF Holding
    <3>4. ~Safe(f)
      <4>1. ~Safe(f)'
        BY <1>7, <3>1, <3>2, Zenon DEF Safe, HasRow, RowsOf
      <4> QED
        BY <1>0, <3>2, <3>3, <4>1, Zenon
    <3>5. Owns(store, f, req[s].token) /\ store'[f] = store[f]
      BY <3>1, <3>2, <3>3, <3>4, Zenon DEF DurableInv, ClaimsAttended
    <3> QED
      BY <3>1, <3>2, <3>5, Zenon DEF Owns
  <2>2. CASE s = r
    <3>1. req'[r].evt = e /\ Holding(r)'
      BY <1>4, <1>7, <2>2, Zenon
    <3>2. ~Safe(e)'
      BY <1>7, <2>2, <3>1, Zenon DEF Safe, HasRow, RowsOf
    <3>3. ~Safe(e)
      BY <3>2, Zenon
    <3>4. CASE UNCHANGED store /\ Holding(r) /\ req'[r].token = req[r].token
      <4>1. Owns(store, e, req[r].token)
        BY <3>3, <3>4, Zenon DEF DurableInv, ClaimsAttended
      <4> QED
        BY <2>2, <3>1, <3>4, <4>1, Zenon DEF Owns
    <3> QED
      BY <2>2, <3>1, <3>4, Zenon DEF HoldStep
  <2> QED
    BY <2>1, <2>2, Zenon
<1>8. \A f \in Events : acked'[f] => Safe(f)'
  BY <1>0, Zenon DEF DurableInv, SafeOnes
<1>9. ASSUME NEW s \in Requests, req'[s].pc \in {"set", "finish", "respond"}
      PROVE  settled'[req'[s].evt] # "no"
  <2>1. CASE s = r
    <3>1. req'[r].pc # "idle"
      BY <1>9, <2>1, Zenon
    <3>2. req'[r].evt = e
      BY <1>1, <1>i, <3>1, Zenon
    <3> QED
      BY <1>9, <2>1, <3>2, Zenon
  <2>2. CASE s # r
    <3>1. req'[s] = req[s] /\ req[s].evt # e
      BY <1>1, <1>3, <2>2, Zenon
    <3>2. req[s].evt \in Events
      BY <1>2, <1>9, <3>1, Zenon
    <3> QED
      BY <1>9, <3>1, <3>2, Zenon DEF DurableInv, SafeOnes
  <2> QED
    BY <2>1, <2>2, Zenon
<1>10. \A w \in Workers : Busy(w)' => Safe(worker[w].evt)'
  <2>1. \A w \in Workers : worker'[w] = worker[w] /\ (Busy(w)' <=> Busy(w))
    BY Zenon DEF Busy
  <2> QED
    BY <1>0, <2>1, BusySafe, Zenon
<1>11. ClaimsAttended'
  BY <1>6, <1>7, Zenon DEF ClaimsAttended
<1>12. SafeOnes'
  BY <1>8, <1>9, <1>10, Zenon DEF SafeOnes
<1> QED
  BY <1>5, <1>11, <1>12, Zenon DEF DurableInv

\* A call of Handle leaves the event of its request safe, or in its hands.
LEMMA StepLeaves ==
    ASSUME Awaited, DurableInv, NEW r \in Requests, NEW e \in Events, e = req[r].evt,
           Effect(r, e), HasRow(e)' <=> HasRow(e)
    PROVE  /\ Safe(e) => Safe(e)'
           /\ acked'[e] => Safe(e)'
           /\ store'[e].state # "absent" => Safe(e)' \/ Holding(r)'
           /\ req'[r].pc \in {"set", "finish", "respond"} => settled'[e] # "no"
<1>i. Idle.pc = "idle"
  BY Zenon DEF Idle
<1>1. /\ acked[e] => Safe(e)
      /\ req[r].pc \in {"set", "finish", "respond"} => settled[e] # "no"
      /\ Holding(r) /\ ~Safe(e) => Owns(store, e, req[r].token)
  BY Zenon DEF DurableInv, SafeOnes, ClaimsAttended
<1>2. store[e].state # "absent" => Safe(e) \/ Holding(r)
  <2>1. \A s \in Requests : Holding(s) => req[s].pc # "idle"
    BY Zenon DEF Holding
  <2>2. \A s \in Requests : req[s].evt = e /\ Holding(s) => s = r
    BY <2>1, Zenon DEF DurableInv, OneRequest
  <2> QED
    BY <2>2, Zenon DEF DurableInv, ClaimsAttended
<1>3. CASE AnswersEarly(r, e)
  <2>1. ~Holding(r) /\ req'[r].pc = "idle" /\ (Safe(e)' <=> Safe(e))
    BY <1>3, <1>i, Zenon DEF AnswersEarly, Holding, Safe
  <2> QED
    BY <1>1, <1>2, <1>3, <2>1, Zenon DEF AnswersEarly
<1>4. CASE Looks(r, e)
  <2>1. ~Holding(r) /\ req'[r].pc = "lock" /\ (Safe(e)' <=> Safe(e))
    BY <1>4, Zenon DEF Looks, Holding, Safe
  <2> QED
    BY <1>1, <1>2, <1>4, <2>1, Zenon DEF Looks
<1>5. CASE Claims(r, e)
  BY <1>1, <1>5, Zenon DEF Claims, Holding, Safe
<1>6. CASE Runs(r, e)
  BY <1>1, <1>6, Zenon DEF Runs, Holding, Safe
<1>7. CASE Decides(r, e)
  BY <1>1, <1>7, Zenon DEF Decides, Holding, Safe
<1>8. CASE Exhausts(r, e)
  BY <1>1, <1>8, Zenon DEF Exhausts, Holding, Safe
<1>9. CASE Unlocks(r, e)
  <2>1. Holding(r) /\ req'[r].pc = "logFail" /\ (Safe(e)' <=> Safe(e))
    BY <1>9, Zenon DEF Unlocks, Holding, Safe
  <2>2. store'[e].state = "absent" \/ ~Owns(store, e, req[r].token)
    BY <1>9, Zenon DEF Unlocks, Awaited
  <2> QED
    BY <1>1, <1>9, <2>1, <2>2, Zenon DEF Unlocks
<1>10. CASE Fails(r, e)
  <2>1. ~Holding(r) /\ req'[r].pc = "idle" /\ (Safe(e)' <=> Safe(e))
    BY <1>10, <1>i, Zenon DEF Fails, Holding, Safe
  <2> QED
    BY <1>1, <1>2, <1>10, <2>1, Zenon DEF Fails
<1>11. CASE Marks(r, e) \/ Logs(r, e) \/ Responds(r, e)
  <2>1. settled[e] # "no" /\ settled'[e] = settled[e]
    BY <1>1, <1>11, Zenon DEF Marks, Logs, Responds
  <2> QED
    BY <2>1, Zenon DEF Safe
<1> QED
  BY <1>3, <1>4, <1>5, <1>6, <1>7, <1>8, <1>9, <1>10, <1>11, Zenon DEF Effect

\* Every step of the queue keeps the invariant.
LEMMA DurableNext == ASSUME Awaited, DurableInv, [QNext]_queueVars PROVE DurableInv'
<1>b. QBase /\ TypeOK /\ WorkersOK
  BY QBaseParts, Zenon DEF DurableInv
<1>1. ASSUME NEW r \in Requests, NEW e \in Events, Deliver(r, e), UNCHANGED <<worker, table>>
      PROVE  DurableInv'
  <2> DEFINE v == [Idle EXCEPT !.pc = "get", !.evt = e]
  <2>1. QBase' /\ SameRows
    BY <1>b, <1>1, HandlerStep, Zenon DEF Next
  <2>2. /\ v.pc = "get" /\ v.evt = e /\ req' = [req EXCEPT ![r] = v]
        /\ UNCHANGED <<store, acked, settled>> /\ req[r].pc = "idle"
        /\ \A s \in Requests : req[s].evt # e
    BY <1>1, Zenon DEF Deliver, Idle, storeVars, histVars, InFlight, Awaited
  <2> HIDE DEF v
  <2>3. /\ req'[r].pc = "get" /\ req'[r].evt = e
        /\ \A s \in Requests : s # r => req'[s] = req[s]
    BY <1>b, <2>2, Zenon DEF TypeOK
  <2>4. ~Holding(r) /\ ~Holding(r)'
    BY <2>2, <2>3, Zenon DEF Holding
  <2>5. \A f : Safe(f)' <=> Safe(f)
    BY <2>1, <2>2, Zenon DEF Safe, SameRows
  <2>6. \A s \in Requests : s # r => (Holding(s)' <=> Holding(s))
    BY <2>3, Zenon DEF Holding
  <2>7. OneRequest'
    <3>1. \A s \in Requests : req'[s].pc = "idle" => req'[s].evt = NoEvent
      <4>1. req'[r].pc # "idle"
        BY <2>3, Zenon
      <4> QED
        BY <2>3, <4>1, Zenon DEF DurableInv, OneRequest
    <3>2. \A s \in Requests : s # r => req'[s].evt # e
      BY <2>2, <2>3, Zenon
    <3>3. ASSUME NEW s \in Requests, NEW t \in Requests, req'[s].evt = req'[t].evt,
                 req'[s].pc # "idle"
          PROVE  s = t
      <4>1. CASE s # r /\ t # r
        <5>1. req'[s] = req[s] /\ req'[t] = req[t]
          BY <2>3, <4>1, Zenon
        <5> QED
          BY <3>3, <5>1, Zenon DEF DurableInv, OneRequest
      <4>2. CASE s = r \/ t = r
        BY <2>3, <3>2, <3>3, <4>2, Zenon
      <4> QED
        BY <4>1, <4>2, Zenon
    <3> QED
      BY <3>1, <3>3, Zenon DEF OneRequest
  <2>8. ClaimsAttended'
    <3>1. ASSUME NEW f \in Events, store'[f].state # "absent"
          PROVE  Safe(f)' \/ \E s \in Requests : req'[s].evt = f /\ Holding(s)'
      <4>1. Safe(f) \/ \E s \in Requests : req[s].evt = f /\ Holding(s)
        BY <2>2, <3>1, Zenon DEF DurableInv, ClaimsAttended
      <4> QED
        BY <2>3, <2>4, <2>5, <2>6, <4>1, Zenon
    <3>2. ASSUME NEW s \in Requests, Holding(s)', ~Safe(req[s].evt)'
          PROVE  Owns(store', req'[s].evt, req'[s].token)
      <4>1. Holding(s) /\ req'[s] = req[s]
        BY <2>3, <2>4, <2>6, <3>2, Zenon
      <4>2. PICK f : f = req[s].evt
        OBVIOUS
      <4>3. ~Safe(f)'
        BY <3>2, <4>1, <4>2, Zenon DEF Safe, HasRow, RowsOf
      <4>4. ~Safe(f)
        BY <2>5, <4>3, Zenon
      <4> QED
        BY <2>2, <4>1, <4>2, <4>4, Zenon DEF DurableInv, ClaimsAttended, Owns
    <3> QED
      BY <3>1, <3>2, Zenon DEF ClaimsAttended
  <2>9. SafeOnes'
    <3>1. \A f \in Events : acked'[f] => Safe(f)'
      BY <2>2, <2>5, Zenon DEF DurableInv, SafeOnes
    <3>2. ASSUME NEW s \in Requests, req'[s].pc \in {"set", "finish", "respond"}
          PROVE  settled'[req'[s].evt] # "no"
      <4>1. s # r
        BY <2>3, <3>2, Zenon
      <4> QED
        BY <2>2, <2>3, <3>2, <4>1, Zenon DEF DurableInv, SafeOnes
    <3>3. \A w \in Workers : worker'[w] = worker[w] /\ (Busy(w)' <=> Busy(w))
      BY <1>1, Zenon DEF Busy
    <3>4. \A w \in Workers : Busy(w)' => Safe(worker[w].evt)'
      BY <2>5, <3>3, BusySafe, Zenon
    <3> QED
      BY <3>1, <3>2, <3>4, Zenon DEF SafeOnes
  <2> QED
    BY <2>1, <2>7, <2>8, <2>9, Zenon DEF DurableInv
<1>2. ASSUME NEW r \in Requests, Step(r), UNCHANGED <<worker, table>> PROVE DurableInv'
  <2>1. QBase' /\ SameRows
    BY <1>b, <1>2, HandlerStep, Zenon DEF Next
  <2>2. PICK e \in Events : e = req[r].evt
    BY <1>b, <1>2, StepEffect, Zenon
  <2>3. Moves(r) /\ Effect(r, e) /\ Elsewhere(e) /\ HoldStep(r)
    BY <1>b, <1>2, <2>2, StepEffect, StepHolds, Zenon
  <2>4. /\ Safe(e) => Safe(e)'
        /\ acked'[e] => Safe(e)'
        /\ store'[e].state # "absent" => Safe(e)' \/ Holding(r)'
        /\ req'[r].pc \in {"set", "finish", "respond"} => settled'[e] # "no"
    BY <2>1, <2>2, <2>3, StepLeaves, Zenon DEF SameRows
  <2>5. \A f \in Events : f # e => /\ store'[f] = store[f] /\ acked'[f] = acked[f]
                                   /\ settled'[f] = settled[f] /\ (HasRow(f)' <=> HasRow(f))
    BY <2>1, <2>3, Zenon DEF Elsewhere, SameRows
  <2> QED
    BY <1>2, <2>1, <2>2, <2>3, <2>4, <2>5, RequestKeeps, Zenon
<1>3. ASSUME NEW r \in Requests, LogClaimed(r), UNCHANGED table PROVE DurableInv'
  <2>1. PICK e \in Events : e = req[r].evt
    BY <1>b, <1>3, LogClaimedStep, Zenon
  <2>2. /\ req[r].pc = "claim" /\ TypeOK' /\ Moves(r)
        /\ req'[r].pc = "enqueue" /\ req'[r].evt = e /\ req'[r].token = req[r].token
        /\ UNCHANGED <<store, settled, acked, worker>>
    BY <1>b, <1>3, <2>1, LogClaimedStep, Zenon
  <2>3. SameRows /\ QBase'
    <3>1. WorkersOK' /\ table' \in Seq(RowType) /\ RowsUnique'
      BY <1>b, <1>3, <2>2, QBaseParts, Zenon DEF WorkersOK, Busy, RowsUnique
    <3> QED
      BY <1>3, <2>2, <3>1, QBaseNext, TableUnchanged, Zenon
  <2>4. HoldStep(r) /\ Holding(r)' /\ req'[r].pc \notin {"set", "finish", "respond"}
    BY <2>1, <2>2, Zenon DEF HoldStep, Holding
  <2>5. \A f \in Events : Safe(f)' <=> Safe(f)
    BY <2>2, <2>3, Zenon DEF Safe, SameRows
  <2>6. acked'[e] => Safe(e)'
    BY <2>2, <2>5, Zenon DEF DurableInv, SafeOnes
  <2> QED
    BY <2>1, <2>2, <2>3, <2>4, <2>5, <2>6, RequestKeeps, Zenon DEF SameRows
<1>4. ASSUME NEW r \in Requests, Enqueue(r) PROVE DurableInv'
  <2>0. PICK e : e = req[r].evt
    OBVIOUS
  <2>1. /\ req[r].pc = "enqueue" /\ e \in Events /\ TypeOK' /\ Moves(r)
        /\ UNCHANGED <<store, settled, worker>>
        /\ \A f \in Events : f # e => acked'[f] = acked[f]
        /\ EnqueueDone(r, e) \/ EnqueueFails(r)
    BY <1>b, <1>4, <2>0, EnqueueStep, Zenon
  <2>2. WorkersOK'
    BY <1>b, <2>1, Zenon DEF WorkersOK, Busy
  <2>3. CASE EnqueueDone(r, e)
    <3>1. QBase'
      BY <2>1, <2>2, <2>3, QBaseNext, Zenon DEF EnqueueDone
    <3>2. req'[r].pc = "idle"
      <4>1. req'[r] = Idle /\ Idle.pc = "idle"
        BY <2>3, Zenon DEF EnqueueDone, Idle
      <4> QED
        BY <4>1, Zenon
    <3>3. HoldStep(r) /\ req'[r].pc \notin {"set", "finish", "respond"}
      BY <2>1, <3>2, Zenon DEF HoldStep, Holding
    <3>4. Safe(e)' /\ \A f \in Events : f # e => (HasRow(f)' <=> HasRow(f))
      BY <2>3, OtherHas, Zenon DEF EnqueueDone, Safe
    <3> QED
      BY <2>0, <2>1, <3>1, <3>3, <3>4, RequestKeeps, Zenon
  <2>4. CASE EnqueueFails(r)
    <3>1. SameRows /\ UNCHANGED acked /\ req'[r].pc = "run" /\ req'[r].evt = e
      BY <2>0, <2>4, Zenon DEF EnqueueFails
    <3>2. QBase'
      <4>1. table' \in Seq(RowType) /\ RowsUnique'
        BY <1>b, <3>1, QBaseParts, Zenon DEF RowsUnique, SameRows
      <4> QED
        BY <2>1, <2>2, <4>1, QBaseNext, Zenon
    <3>3. HoldStep(r) /\ Holding(r)' /\ req'[r].pc \notin {"set", "finish", "respond"}
      BY <2>0, <2>1, <2>4, <3>1, Zenon DEF HoldStep, Holding, EnqueueFails
    <3>4. \A f \in Events : Safe(f)' <=> Safe(f)
      BY <2>1, <3>1, Zenon DEF Safe, SameRows
    <3>5. acked'[e] => Safe(e)'
      BY <2>1, <3>1, <3>4, Zenon DEF DurableInv, SafeOnes
    <3> QED
      BY <2>0, <2>1, <3>1, <3>2, <3>3, <3>4, <3>5, RequestKeeps, Zenon DEF SameRows
  <2> QED
    BY <2>1, <2>3, <2>4, Zenon
<1>5. ASSUME NEW r \in Requests, Crash(r) PROVE DurableInv'
  BY <1>5, Zenon DEF Crash, Awaited
<1>6. ASSUME NEW w \in Workers, ProcessQueued(w), UNCHANGED table PROVE DurableInv'
  <2>0. PICK e : e = worker[w].evt
    OBVIOUS
  <2>1. e \in Events /\ TypeOK' /\ WorkersOK' /\ Carries(w) /\ Dispatches(e)
    BY <1>b, <1>6, <2>0, ProcessStep, Zenon
  <2>2. SameRows /\ QBase'
    <3>1. table' \in Seq(RowType) /\ RowsUnique'
      BY <1>b, <1>6, QBaseParts, Zenon DEF RowsUnique
    <3> QED
      BY <1>6, <2>1, <3>1, QBaseNext, TableUnchanged, Zenon
  <2>3. Safe(e)
    BY <2>0, <2>1, Zenon DEF DurableInv, SafeOnes, Carries
  <2>4. ASSUME NEW f \in Events
        PROVE  /\ Safe(f) => Safe(f)'
               /\ settled[f] # "no" => settled'[f] # "no"
               /\ ~Safe(f) => store'[f] = store[f]
    <3>1. CASE f = e
      BY <2>1, <2>2, <2>3, <3>1, Zenon DEF Dispatches, Safe, SameRows
    <3>2. CASE f # e
      BY <2>1, <2>2, <3>2, Zenon DEF Dispatches, Safe, SameRows
    <3> QED
      BY <3>1, <3>2, Zenon
  <2>5. \A v \in Workers : worker'[v].evt = worker[v].evt /\ (Busy(v)' <=> Busy(v))
    BY <2>1, Zenon DEF Carries, Busy
  <2>6. \A v \in Workers : Busy(v)' => Safe(worker[v].evt)'
    BY <2>4, <2>5, BusySafe, Zenon
  <2> QED
    BY <2>1, <2>2, <2>4, <2>6, WorkerKeeps, Zenon DEF Dispatches
<1>d. ASSUME NEW w \in Workers, Drops(w), \A f \in Events : Safe(f) => Safe(f)'
      PROVE  \A v \in Workers : Busy(v)' => Safe(worker[v].evt)'
  <2>1. IdleWorker.pc = "idle"
    BY Zenon DEF IdleWorker
  <2>2. \A v \in Workers : Busy(v)' => Busy(v) /\ worker'[v] = worker[v]
    BY <1>d, <2>1, Zenon DEF Drops, Busy
  <2> QED
    BY <1>d, <2>2, BusySafe, Zenon
<1>7. ASSUME NEW w \in Workers, Dequeue(w) PROVE DurableInv'
  <2>1. PICK e \in Events :
             /\ Row(e, "queued") /\ Row(e, "processing")' /\ OtherRows(e)
             /\ ~Busy(w) /\ worker'[w].evt = e /\ worker'[w].pc = "run"
             /\ \A v \in Workers : v # w => worker'[v] = worker[v]
             /\ UNCHANGED <<store, settled, req, acked>>
             /\ QBase'
    BY <1>b, <1>7, DequeueStep, Zenon
  <2>2. HasRow(e)'
    BY <2>1, Zenon DEF HasRow, RowsOf, Row
  <2>3. \A f \in Events : Safe(f) => Safe(f)'
    BY <2>1, <2>2, OtherHas, Zenon DEF Safe
  <2>4. ASSUME NEW v \in Workers, Busy(v)' PROVE Safe(worker[v].evt)'
    <3>1. CASE v = w
      <4>1. worker'[v].evt = e
        BY <2>1, <3>1, Zenon
      <4> QED
        BY <2>2, <4>1, Zenon DEF Safe, HasRow, RowsOf
    <3>2. CASE v # w
      <4>1. worker'[v] = worker[v] /\ Busy(v)
        BY <2>1, <2>4, <3>2, Zenon DEF Busy
      <4> QED
        BY <2>3, <4>1, BusySafe, Zenon
    <3> QED
      BY <3>1, <3>2, Zenon
  <2> QED
    BY <2>1, <2>3, <2>4, WorkerKeeps, Zenon
<1>8. ASSUME NEW w \in Workers, Return(w) PROVE DurableInv'
  <2>0. PICK e : e = worker[w].evt
    OBVIOUS
  <2>1. /\ e \in Events /\ Drops(w) /\ OtherRows(e) /\ QBase'
        /\ UNCHANGED <<store, req, acked>>
        /\ \A f \in Events : f # e => settled'[f] = settled[f]
        /\ settled[e] # "no" => settled'[e] # "no"
        /\ settled[e] # "no" \/ HasRow(e) => settled'[e] # "no" \/ HasRow(e)'
    BY <1>b, <1>8, <2>0, ReturnStep, Zenon
  <2>2. ASSUME NEW f \in Events
        PROVE  (Safe(f) => Safe(f)') /\ (settled[f] # "no" => settled'[f] # "no")
    <3>1. CASE f = e
      BY <2>1, <3>1, Zenon DEF Safe
    <3>2. CASE f # e
      BY <2>1, <3>2, OtherHas, Zenon DEF Safe
    <3> QED
      BY <3>1, <3>2, Zenon
  <2> QED
    BY <1>d, <2>1, <2>2, WorkerKeeps, Zenon
<1>9. ASSUME NEW w \in Workers, WCrash(w), UNCHANGED table PROVE DurableInv'
  <2>1. Drops(w) /\ QBase' /\ UNCHANGED <<store, settled, req, acked>> /\ SameRows
    BY <1>b, <1>9, WCrashStep, TableUnchanged, Zenon
  <2>2. \A f \in Events : Safe(f) => Safe(f)'
    BY <2>1, Zenon DEF Safe, SameRows
  <2> QED
    BY <1>d, <2>1, <2>2, WorkerKeeps, Zenon
<1>10. ASSUME NEW e \in Events, Sweep(e) PROVE DurableInv'
  <2>1. /\ HasRow(e)' /\ OtherRows(e) /\ QBase'
        /\ UNCHANGED <<store, settled, req, acked, worker>>
    BY <1>b, <1>10, SweepStep, Zenon
  <2>2. \A f \in Events : Safe(f) => Safe(f)'
    BY <2>1, OtherHas, Zenon DEF Safe
  <2>3. \A v \in Workers : worker'[v] = worker[v] /\ (Busy(v)' <=> Busy(v))
    BY <2>1, Zenon DEF Busy
  <2>4. \A v \in Workers : Busy(v)' => Safe(worker[v].evt)'
    BY <2>2, <2>3, BusySafe, Zenon
  <2> QED
    BY <2>1, <2>2, <2>4, WorkerKeeps, Zenon
<1>11. CASE UNCHANGED queueVars
  <2>1. [Next]_vars /\ UNCHANGED <<worker, table, req, store, settled, acked>>
    BY <1>11, Zenon DEF queueVars, vars
  <2>2. QBase' /\ SameRows
    BY <1>b, <2>1, HandlerStep, Zenon
  <2>3. \A f \in Events : Safe(f) => Safe(f)'
    BY <2>1, <2>2, Zenon DEF Safe, SameRows
  <2>4. \A v \in Workers : worker'[v] = worker[v] /\ (Busy(v)' <=> Busy(v))
    BY <2>1, Zenon DEF Busy
  <2>5. \A v \in Workers : Busy(v)' => Safe(worker[v].evt)'
    BY <2>3, <2>4, BusySafe, Zenon
  <2> QED
    BY <2>1, <2>2, <2>3, <2>5, WorkerKeeps, Zenon
<1> QED
  BY <1>1, <1>2, <1>3, <1>4, <1>5, <1>6, <1>7, <1>8, <1>9, <1>10, <1>11, Zenon
  DEF QNext, RequestStep, WorkerStep

\* An event Stripe was told to stop sending is disposed of or has its row, however
\* often workers die, statements fail, dispatches are retried and the sweeper
\* takes a row from a live worker, as long as requests do not die with a claim
\* (which nothing releases, handler.go:684) and Stripe awaits each answer.
THEOREM AcknowledgedIsDurable == Awaited => (QSpec => []AckedIsDurable)
<1> SUFFICES ASSUME Awaited PROVE QSpec => []AckedIsDurable
  OBVIOUS
<1>1. ASSUME QInit PROVE DurableInv
  <2>1. QBase
    BY <1>1, InitQBase, Zenon
  <2>2. /\ worker = [w \in Workers |-> IdleWorker] /\ req = [r \in Requests |-> Idle]
        /\ store = [e \in Events |-> Absent] /\ acked = [e \in Events |-> FALSE]
    BY <1>1, Zenon DEF QInit, Init
  <2>3. /\ Idle.pc = "idle" /\ Idle.evt = NoEvent /\ IdleWorker.pc = "idle"
        /\ Absent.state = "absent"
    BY Zenon DEF Idle, IdleWorker, Absent
  <2>4. \A w \in Workers : ~Busy(w)
    BY <2>2, <2>3, Zenon DEF Busy
  <2>5. \A r \in Requests : req[r].pc = "idle" /\ req[r].evt = NoEvent
    BY <2>2, <2>3, Zenon
  <2>6. \A r \in Requests : ~Holding(r) /\ req[r].pc \notin {"set", "finish", "respond"}
    BY <2>5, Zenon DEF Holding
  <2>7. \A e \in Events : store[e].state = "absent" /\ ~acked[e]
    BY <2>2, <2>3, Zenon
  <2> QED
    BY <2>1, <2>4, <2>5, <2>6, <2>7, Zenon DEF DurableInv, OneRequest, ClaimsAttended, SafeOnes
<1>2. DurableInv /\ [QNext]_queueVars => DurableInv'
  BY DurableNext, Zenon
<1>3. DurableInv => AckedIsDurable
  BY Zenon DEF DurableInv, SafeOnes, Safe, AckedIsDurable
<1> QED
  BY <1>1, <1>2, <1>3, PTL DEF QSpec
=================================================================================
