----------------------------- MODULE PgWebhookQueue -----------------------------
(***************************************************************************)
(* Webhooks.Handle with the durable queue of repos/postgres/               *)
(* webhook_queue.go.  The table holds one row per event id, in enqueued_at *)
(* order.  A worker claims the oldest queued row, calls ProcessQueued and  *)
(* deletes the row or puts it back; a sweeper puts back rows that have     *)
(* been in processing for longer than StuckAfter.  No statement checks     *)
(* which worker holds the row.                                             *)
(***************************************************************************)
EXTENDS AsyncDispatch, Sequences

VARIABLE table  \* stripe_connector_webhook_queue

queueVars == <<store, nextToken, eventLog, req, acked, handled, failures,
               typed, settled, env, worker, table>>

RowType == [evt: Events, token: Nat, state: {"queued", "processing"}]

\* The rows of e: at most one, event_id is UNIQUE.
RowsOf(e) == {i \in DOMAIN table : table[i].evt = e}
HasRow(e) == RowsOf(e) # {}

\* The table without its row k.
Delete(t, k) == SubSeq(t, 1, k - 1) \o SubSeq(t, k + 1, Len(t))

SetState(e, st) ==
    table' = [i \in DOMAIN table |->
                 IF table[i].evt = e THEN [table[i] EXCEPT !.state = st] ELSE table[i]]

QInit == /\ Init
         /\ worker = [w \in Workers |-> IdleWorker]
         /\ table = << >>

\* Enqueue: INSERT ... ON CONFLICT DO NOTHING, so a row that is there keeps its
\* token.  When it fails Handle dispatches synchronously.
Enqueue(r) ==
    LET e == req[r].evt IN
    /\ req[r].pc = "enqueue"
    /\ \/ /\ table' = IF HasRow(e) THEN table
                      ELSE Append(table, [evt |-> e, token |-> req[r].token,
                                          state |-> "queued"])
          /\ Respond200(r)
       \/ Fault("enqueue") /\ Goto(r, "run") /\ UNCHANGED <<table, acked>>
    /\ UNCHANGED <<storeVars, eventLog, histVars, worker>>

\* The rows dequeue can claim, and the oldest of them.
AllRows == DOMAIN table  \* mutant: claimed rows too
QueuedRows == {i \in DOMAIN table : table[i].state = "queued"}
Oldest(k) == k \in QueuedRows /\ \A j \in QueuedRows : k <= j

\* dequeue: SELECT ... ORDER BY enqueued_at ... FOR UPDATE SKIP LOCKED, then
\* UPDATE, in one transaction.
\* (Mutant: the row is deleted when it is claimed.)
DequeueDeletes(w) ==
    /\ worker[w].pc = "idle"
    /\ \E k \in DOMAIN table :
         /\ Oldest(k)
         /\ table' = Delete(table, k)
         /\ worker' = [worker EXCEPT ![w] =
                          [IdleWorker EXCEPT !.pc = "run", !.evt = table[k].evt,
                                             !.token = table[k].token]]
    /\ UNCHANGED <<storeVars, eventLog, req, acked, histVars, env>>

Dequeue(w) ==
    /\ worker[w].pc = "idle"
    /\ \E k \in DOMAIN table :
         /\ Oldest(k)
         /\ table' = [table EXCEPT ![k] = [@ EXCEPT !.state = "processing"]]
         /\ worker' = [worker EXCEPT ![w] =
                          [IdleWorker EXCEPT !.pc = "run", !.evt = table[k].evt,
                                             !.token = table[k].token]]
    /\ UNCHANGED <<storeVars, eventLog, req, acked, histVars, env>>

\* complete: DELETE ... WHERE event_id = e.
Without(e) == IF HasRow(e) THEN Delete(table, CHOOSE i \in RowsOf(e) : TRUE) ELSE table

\* After the dispatch: complete on success and on ErrPermanentFailure,
\* releaseFailed on any other error.  A failed statement, or one cancelled by
\* Shutdown, is only logged and leaves the row in processing.
Return(w) ==
    LET e == worker[w].evt IN
    /\ worker[w].pc = "return"
    /\ \/ /\ worker[w].result \in {"nil", "permanent"}
          /\ table' = Without(e)
          /\ settled' = [settled EXCEPT ![e] = IF @ = "no" THEN "gaveUp" ELSE @]
          /\ UNCHANGED env
       \/ /\ worker[w].result = "err"
          /\ SetState(e, "queued")
          /\ UNCHANGED <<settled, env>>
       \/ Fault("queue") /\ UNCHANGED <<table, settled>>
    /\ worker' = [worker EXCEPT ![w] = IdleWorker]
    /\ UNCHANGED <<storeVars, eventLog, req, acked, handled, failures, typed>>

\* sweeper: a row whose worker is gone, or (as a fault) one whose worker has
\* been busy for longer than StuckAfter.
\* (Mutant: it looks for rows nobody has claimed.)
SweepQueued(e) ==
    /\ \E i \in RowsOf(e) : table[i].state = "queued"
    /\ SetState(e, "queued")
    /\ UNCHANGED <<storeVars, eventLog, req, acked, histVars, env, worker>>

Sweep(e) ==
    /\ \E i \in RowsOf(e) : table[i].state = "processing"
    /\ \/ (\A w \in Workers : worker[w].evt # e) /\ UNCHANGED env
       \/ (\E w \in Workers : worker[w].evt = e) /\ Fault("sweep")
    /\ SetState(e, "queued")
    /\ UNCHANGED <<storeVars, eventLog, req, acked, histVars, worker>>

WorkerStep(w) == (ProcessQueued(w) /\ UNCHANGED table) \/ Dequeue(w) \/ Return(w)

RequestStep(r) ==
    \/ Step(r) /\ UNCHANGED <<worker, table>>
    \/ LogClaimed(r) /\ UNCHANGED table
    \/ Enqueue(r)

QNext ==
    \/ \E r \in Requests, e \in Events : Deliver(r, e) /\ UNCHANGED <<worker, table>>
    \/ \E r \in Requests : RequestStep(r)
    \/ \E r \in Requests : Crash(r) /\ UNCHANGED <<worker, table>>
    \/ \E w \in Workers : WorkerStep(w)
    \/ \E w \in Workers : WCrash(w) /\ UNCHANGED table
    \/ \E e \in Events : Sweep(e)

QSpec == QInit /\ [][QNext]_queueVars

\* Requests and workers run on, workers poll the table, the sweeper's ticker
\* fires, and Stripe keeps retrying.
QFairness ==
    /\ \A r \in Requests : WF_queueVars(RequestStep(r))
    /\ \A w \in Workers : WF_queueVars(WorkerStep(w))
    /\ \A e \in Events : WF_queueVars(Sweep(e) /\ UNCHANGED env)
    /\ \A e \in Events :
          WF_queueVars(/\ ~acked[e]
                       /\ \E r \in Requests : Deliver(r, e) /\ UNCHANGED <<worker, table>>)

QFairSpec == QSpec /\ QFairness

-----------------------------------------------------------------------------
\* Two workers are never inside the app's handler for one event: a row is handed
\* out once until it is put back (webhook_queue.go:249), across failed statements,
\* crashes and sweeps.  This holds as long as no handler outlives StuckAfter, after
\* which the sweeper hands its row to another worker.  A request is not counted:
\* when its Enqueue fails it runs the handler itself (handler.go:607-621), also
\* beside a worker that has an older row of the event.
RunExclusive ==
    \A v, w \in Workers :
        worker[v].pc = "run" /\ worker[w].pc = "run" /\ worker[v].evt = worker[w].evt
            => v = w

\* An event Stripe will not retry has a row until it is disposed of, across
\* worker crashes, failed statements and sweeps.
AckedIsDurable ==
    \A e \in Events : acked[e] /\ ~InFlight(e) => settled[e] # "no" \/ HasRow(e)
=============================================================================
