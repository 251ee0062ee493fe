---------------------------- MODULE MemoryQueue ----------------------------
(***************************************************************************)
(* webhooks.MemoryQueue (webhooks/async.go): a bounded channel, worker     *)
(* goroutines, and closeMu, which a sender holds for reading while it      *)
(* waits for room and Shutdown takes for writing.  One queue per connector *)
(* instance, so that an old queue can outlive the connector that closed it.*)
(***************************************************************************)
EXTENDS Naturals, Sequences, FiniteSets

CONSTANTS
    Instances,  \* connector instances, each with its queue
    Items,      \* webhook deliveries, each enqueued at most once
    Workers,    \* worker goroutines of a queue
    Capacity    \* channel capacity

ASSUME CapacityAssumption == Capacity \in Nat \ {0}

VARIABLES
    ch,         \* the channel's buffer
    closed,     \* the closed channel is closed (ch with it)
    worker,     \* the item a worker dispatches, "idle" or "exited"
    sender,     \* each item's Enqueue call: [at, pc]
    closer,     \* each queue's Shutdown call
    outcome     \* what became of each item's dispatch

queueVars == <<ch, closed, worker, sender, closer, outcome>>

Sending(k) == {i \in Items : sender[i] = [at |-> k, pc |-> "sending"]}

QueueInit ==
    /\ ch = [k \in Instances |-> <<>>]
    /\ closed = [k \in Instances |-> FALSE]
    /\ worker = [k \in Instances |-> [w \in Workers |-> "idle"]]
    /\ sender = [i \in Items |-> [at |-> "", pc |-> "new"]]
    /\ closer = [k \in Instances |-> "none"]
    /\ outcome = [i \in Items |-> "none"]

\* RLock, which waits behind a Shutdown that wants the lock, then the first select.
Enqueue(i, k) ==
    /\ sender[i].pc = "new"
    /\ closer[k] # "locking"
    /\ sender' = [sender EXCEPT ![i] =
                    [at |-> k, pc |-> IF closed[k] THEN "refused" ELSE "sending"]]
    /\ UNCHANGED <<ch, closed, worker, closer, outcome>>

\* The second select: room in the channel ...
Send(i) ==
    LET k == sender[i].at
    IN  /\ sender[i].pc = "sending"
        /\ Len(ch[k]) < Capacity
        /\ ch' = [ch EXCEPT ![k] = Append(@, i)]
        /\ sender' = [sender EXCEPT ![i].pc = "accepted"]
        /\ UNCHANGED <<closed, worker, closer, outcome>>

\* ... or the request's context ends, or the queue is closed.
SendRefused(i) ==
    /\ sender[i].pc = "sending"
    /\ sender' = [sender EXCEPT ![i].pc = "refused"]
    /\ UNCHANGED <<ch, closed, worker, closer, outcome>>

Receive(k, w) ==
    /\ worker[k][w] = "idle"
    /\ ch[k] # <<>>
    /\ worker' = [worker EXCEPT ![k][w] = Head(ch[k])]
    /\ ch' = [ch EXCEPT ![k] = Tail(@)]
    /\ UNCHANGED <<closed, sender, closer, outcome>>

\* dispatch returns within its 30 s context; an error is only counted and logged.
Dispatched(k, w, result) ==
    /\ worker[k][w] \in Items
    /\ outcome' = [outcome EXCEPT ![worker[k][w]] = result]
    /\ worker' = [worker EXCEPT ![k][w] = "idle"]
    /\ UNCHANGED <<ch, closed, sender, closer>>

\* A faulty variant: a worker returns once the queue is closed, whatever is left in it.
EagerExit(k, w) ==
    /\ worker[k][w] = "idle"
    /\ closed[k]
    /\ worker' = [worker EXCEPT ![k][w] = "exited"]
    /\ UNCHANGED <<ch, closed, sender, closer, outcome>>

\* The range over ch ends when it is closed and empty.
WorkerExit(k, w) ==
    /\ ch[k] = <<>>
    /\ EagerExit(k, w)

\* closeMu.Lock: granted when no sender holds the read lock.
ShutdownLock(k) ==
    /\ closer[k] = "none"
    /\ closer' = [closer EXCEPT ![k] = "locking"]
    /\ UNCHANGED <<ch, closed, worker, sender, outcome>>

\* A faulty variant: Shutdown closes the channel without closeMu.
CloseNow(k) ==
    /\ closer[k] = "locking"
    /\ closed' = [closed EXCEPT ![k] = TRUE]
    /\ closer' = [closer EXCEPT ![k] = "draining"]
    /\ UNCHANGED <<ch, worker, sender, outcome>>

ShutdownClose(k) ==
    /\ Sending(k) = {}
    /\ CloseNow(k)

\* wg.Wait is over, or the caller's context ends first and workers go on alone.
ShutdownGivesUp(k) ==
    /\ closer[k] = "draining"
    /\ closer' = [closer EXCEPT ![k] = "returned"]
    /\ UNCHANGED <<ch, closed, worker, sender, outcome>>

ShutdownDrained(k) ==
    /\ \A w \in Workers : worker[k][w] = "exited"
    /\ ShutdownGivesUp(k)

-----------------------------------------------------------------------------
\* A sender waiting for room never finds its channel closed under it, which would
\* panic the process (closeMu held for reading throughout Enqueue's send).
NeverSendsOnClosed == \A k \in Instances : closed[k] => Sending(k) = {}
=============================================================================
