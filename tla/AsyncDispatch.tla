----------------------------- MODULE AsyncDispatch ------------------------------
(***************************************************************************)
(* The asynchronous half of webhooks/handler.go: Handle records the claim  *)
(* and hands the event to a queue; a queue worker calls ProcessQueued,     *)
(* which runs the handler under the token of the queued item and updates   *)
(* the dedup store and the event log.  Neither the claim nor the store is  *)
(* consulted again before the handler runs.  What a worker does with the   *)
(* result is the queue's: see PgWebhookQueue.                              *)
(***************************************************************************)
EXTENDS Webhooks

CONSTANTS
    Workers,    \* queue workers, over all replicas
    FailKinds   \* what a failing handler returns: "err", "permanent"

ASSUME WorkerAssumption == FailKinds \subseteq {"err", "permanent"}

VARIABLE worker  \* the local state of each worker

WorkerPCs == {"idle", "run", "decide", "exhaust", "unlock", "logFail",
              "mark", "logDone", "return"}
Results == {"nil", "err", "permanent"}

IdleWorker == [pc |-> "idle", evt |-> NoEvent, token |-> 0, attempt |-> 0,
               status |-> "processed", result |-> "nil"]

WorkerType == [Workers -> [pc: WorkerPCs, evt: Events \cup {NoEvent},
                           token: Nat, attempt: Nat,
                           status: {"processed", "failed"}, result: Results]]

WGoto(w, pc) == worker' = [worker EXCEPT ![w] = [@ EXCEPT !.pc = pc]]

-----------------------------------------------------------------------------
(* Handle, when Config.Queue is set.                                       *)

\* The claim is logged before the hand-off.
LogClaimed(r) ==
    /\ req[r].pc = "claim"
    /\ RecordToLog(req[r].evt, "claimed", 0)
    /\ Goto(r, "enqueue")
    /\ UNCHANGED <<storeVars, acked, histVars, worker>>

-----------------------------------------------------------------------------
(* ProcessQueued, call by call.  The body was verified and parsed before   *)
(* it was enqueued, so the parse error of ProcessQueued cannot happen.     *)

\* dispatchEvent returns.
WRunHandler(w) ==
    LET e == worker[w].evt IN
    /\ worker[w].pc = "run"
    /\ \/ /\ handled' = [handled EXCEPT ![e] = @ + 1]
          /\ settled' = [settled EXCEPT ![e] = "handled"]
          /\ worker' = [worker EXCEPT ![w] =
                           [@ EXCEPT !.pc = "mark", !.attempt = 1]]
          /\ UNCHANGED failures
       \/ \E k \in FailKinds :
          /\ failures[e] < MaxFailures
          /\ failures' = [failures EXCEPT ![e] = @ + 1]
          /\ worker' = [worker EXCEPT ![w] = [@ EXCEPT !.pc = "decide", !.result = k]]
          /\ UNCHANGED <<handled, settled>>
    /\ typed' = [typed EXCEPT ![e] = @ + 1]
    /\ UNCHANGED <<storeVars, eventLog, req, acked, env>>

\* handleQueuedFailure: the attempt number, and the policy.
WDecide(w) ==
    LET e == worker[w].evt
        GoOn(n) == worker' = [worker EXCEPT ![w] =
                      [@ EXCEPT !.attempt = n,
                                !.pc = IF Exhausted(e, n) THEN "exhaust" ELSE "unlock"]]
    IN
    /\ worker[w].pc = "decide"
    /\ \/ GoOn(eventLog[e].attempts + 1) /\ UNCHANGED env
       \/ Fault("log") /\ GoOn(1)
    /\ UNCHANGED <<storeVars, eventLog, req, acked, histVars>>

\* A give-up is marked processed and reported to the queue as a success.
WExhaust(w) ==
    LET e == worker[w].evt IN
    /\ worker[w].pc = "exhaust"
    /\ \/ /\ worker' = [worker EXCEPT ![w] =
                           [@ EXCEPT !.pc = "mark", !.status = "failed", !.result = "nil"]]
          /\ settled' = [settled EXCEPT ![e] = IF @ = "no" THEN "gaveUp" ELSE @]
       \/ OnExhausted[e] = "any" /\ WGoto(w, "unlock") /\ UNCHANGED settled
    /\ UNCHANGED <<storeVars, eventLog, req, acked, handled, failures, typed, env>>

WUnlock(w) ==
    /\ worker[w].pc = "unlock"
    /\ \/ store' = Release(store, worker[w].evt, worker[w].token) /\ UNCHANGED env
       \/ Fault("unlock") /\ UNCHANGED store
    /\ WGoto(w, "logFail")
    /\ UNCHANGED <<nextToken, eventLog, req, acked, histVars>>

WLogFailure(w) ==
    /\ worker[w].pc = "logFail"
    /\ RecordToLog(worker[w].evt, "failed", worker[w].attempt)
    /\ WGoto(w, "return")
    /\ UNCHANGED <<storeVars, req, acked, histVars>>

\* markQueuedProcessed: store.Set; a lost lock is ignored.
WMark(w) ==
    /\ worker[w].pc = "mark"
    /\ \/ store' = SetDone(store, worker[w].evt, worker[w].token) /\ UNCHANGED env
       \/ Fault("set") /\ UNCHANGED store
    /\ WGoto(w, "logDone")
    /\ UNCHANGED <<nextToken, eventLog, req, acked, histVars>>

\* markQueuedProcessed: the log row, "processed" or the "failed" of a give-up.
WLogDone(w) ==
    /\ worker[w].pc = "logDone"
    /\ RecordToLog(worker[w].evt, worker[w].status, worker[w].attempt)
    /\ WGoto(w, "return")
    /\ UNCHANGED <<storeVars, req, acked, histVars>>

\* The replica running w dies.
WCrash(w) ==
    /\ w \in Crashable
    /\ worker[w].pc # "idle"
    /\ env.crashes > 0
    /\ env' = [env EXCEPT !.crashes = @ - 1]
    /\ worker' = [worker EXCEPT ![w] = IdleWorker]
    /\ UNCHANGED <<storeVars, eventLog, req, acked, histVars>>

ProcessQueued(w) ==
    \/ WRunHandler(w) \/ WDecide(w) \/ WExhaust(w) \/ WUnlock(w)
    \/ WLogFailure(w) \/ WMark(w) \/ WLogDone(w)
=============================================================================
