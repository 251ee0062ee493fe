----------------------------- MODULE Connector -----------------------------
(***************************************************************************)
(* connector.New and Connector.Shutdown: the process-wide registry of      *)
(* active namespaces, the catalog warm-up that can fail after the          *)
(* namespace was taken, and the shutdown hooks in their order: the webhook *)
(* queue, then the drift detector, whose stop waits for its goroutine.     *)
(* All instances here share one AppNamespace.                              *)
(***************************************************************************)
EXTENDS MemoryQueue

VARIABLES
    registered,  \* the namespace is in activeNamespaces
    conn,        \* each instance: "none", "warming", "live", "hooks", "stopping", "down"
    robbed,      \* history: a repeated Shutdown deleted the entry of an instance still up
    detector     \* each drift detector: "off", "waiting", "checking", "exited"

lifeVars == <<registered, conn, detector, robbed>>
vars == <<queueVars, lifeVars>>

Init ==
    /\ QueueInit
    /\ registered = FALSE
    /\ robbed = FALSE
    /\ conn = [k \in Instances |-> "none"]
    /\ detector = [k \in Instances |-> "off"]

\* A faulty variant: New stores the namespace without looking at what was there.
StoreOnly(k) ==
    /\ conn[k] = "none"
    /\ registered' = TRUE
    /\ conn' = [conn EXCEPT ![k] = "warming"]
    /\ UNCHANGED <<queueVars, detector, robbed>>

\* validateConfig passed and LoadOrStore found no entry; with one, New returns
\* ErrDuplicateNamespace and nothing changes.
NewClaim(k) ==
    /\ ~registered
    /\ StoreOnly(k)

\* Warm-up or a later builder fails: the deferred function frees the namespace.
NewFails(k) ==
    /\ conn[k] = "warming"
    /\ registered' = FALSE
    /\ conn' = [conn EXCEPT ![k] = "none"]
    /\ UNCHANGED <<queueVars, detector, robbed>>

\* The wiring: queue, drift detector, the ready Connector.
NewSucceeds(k) ==
    /\ conn[k] = "warming"
    /\ conn' = [conn EXCEPT ![k] = "live"]
    /\ detector' = [detector EXCEPT ![k] = "waiting"]
    /\ UNCHANGED <<queueVars, registered, robbed>>

\* A delivery reaches an instance; the application's server may still route to
\* one that is shutting down.
Deliver(i, k) ==
    /\ conn[k] \in {"live", "hooks", "stopping", "down"}
    /\ Enqueue(i, k)
    /\ UNCHANGED lifeVars

\* Shutdown's first hook, q.Shutdown.
ShutdownBegin(k) ==
    /\ conn[k] = "live"
    /\ conn' = [conn EXCEPT ![k] = "hooks"]
    /\ ShutdownLock(k)
    /\ UNCHANGED <<registered, detector, robbed>>

\* A faulty variant: the hook's stop waits for the goroutine before closing stopCh.
StopAfterExit(k) ==
    /\ conn[k] = "hooks"
    /\ closer[k] = "returned"
    /\ detector[k] = "exited"
    /\ conn' = [conn EXCEPT ![k] = "stopping"]
    /\ UNCHANGED <<queueVars, registered, detector, robbed>>

\* The second hook closes the detector's stopCh once the first has returned.
StopDetector(k) ==
    /\ conn[k] = "hooks"
    /\ closer[k] = "returned"
    /\ conn' = [conn EXCEPT ![k] = "stopping"]
    /\ UNCHANGED <<queueVars, registered, detector, robbed>>

\* A tick runs CheckDrift and onReport to their end before the next select.
DetectorTick(k) ==
    /\ detector[k] = "waiting"
    /\ detector' = [detector EXCEPT ![k] = "checking"]
    /\ UNCHANGED <<queueVars, registered, conn, robbed>>

DetectorReport(k) ==
    /\ detector[k] = "checking"
    /\ detector' = [detector EXCEPT ![k] = "waiting"]
    /\ UNCHANGED <<queueVars, registered, conn, robbed>>

\* The goroutine returns on stopCh; it may also return earlier when the context
\* New was given ends.
DetectorExit(k) ==
    /\ detector[k] = "waiting"
    /\ conn[k] \in {"live", "hooks", "stopping"}
    /\ detector' = [detector EXCEPT ![k] = "exited"]
    /\ UNCHANGED <<queueVars, registered, conn, robbed>>

\* A faulty variant: stop closes stopCh without waiting for the goroutine.
EndWithoutWait(k) ==
    /\ conn[k] = "stopping"
    /\ registered' = FALSE
    /\ conn' = [conn EXCEPT ![k] = "down"]
    /\ UNCHANGED <<queueVars, detector, robbed>>

\* <-done, then the deferred Delete of the namespace.
ShutdownEnd(k) ==
    /\ detector[k] = "exited"
    /\ EndWithoutWait(k)

\* A second Shutdown.  After the first it has no hooks left; during the first,
\* q.Shutdown returns at once when the channel is closed, though the first still
\* drains it, and stop waits for the detector only.  It deletes the namespace.
ShutdownAgain(k) ==
    /\ conn[k] \in {"hooks", "stopping", "down"}
    /\ closed[k]
    /\ detector[k] = "exited"
    /\ registered' = FALSE
    /\ robbed' = (robbed \/ registered)
    /\ UNCHANGED <<queueVars, conn, detector>>

QueueStep(k) ==
    /\ \/ \E w \in Workers : \/ Receive(k, w)
                             \/ WorkerExit(k, w)
                             \/ \E r \in {"ok", "failed"} : Dispatched(k, w, r)
       \/ ShutdownClose(k) \/ ShutdownDrained(k) \/ ShutdownGivesUp(k)
    /\ UNCHANGED lifeVars

Next ==
    \/ \E i \in Items, k \in Instances : Deliver(i, k)
    \/ \E i \in Items : (Send(i) \/ SendRefused(i)) /\ UNCHANGED lifeVars
    \/ \E k \in Instances :
         \/ NewClaim(k) \/ NewFails(k) \/ NewSucceeds(k)
         \/ QueueStep(k)
         \/ ShutdownBegin(k) \/ StopDetector(k) \/ ShutdownEnd(k) \/ ShutdownAgain(k)
         \/ DetectorTick(k) \/ DetectorReport(k) \/ DetectorExit(k)

\* Goroutines that can run do, and dispatch ends (it runs under a 30 s context).  No
\* context is assumed to be cancelled and nobody is made to call New or Shutdown.  The
\* detector's select picks among ready cases at random, so stopCh is not passed over
\* forever.
Fairness ==
    /\ \A i \in Items : WF_vars(Send(i) /\ UNCHANGED lifeVars)
    /\ \A k \in Instances :
         /\ \A w \in Workers : WF_vars(
                /\ \/ Receive(k, w) \/ WorkerExit(k, w)
                   \/ \E r \in {"ok", "failed"} : Dispatched(k, w, r)
                /\ UNCHANGED lifeVars)
         /\ WF_vars((ShutdownClose(k) \/ ShutdownDrained(k)) /\ UNCHANGED lifeVars)
         /\ WF_vars(StopDetector(k) \/ ShutdownEnd(k))
         /\ WF_vars(DetectorReport(k))
         /\ SF_vars(DetectorExit(k) /\ conn[k] = "stopping")

Spec == Init /\ [][Next]_vars /\ Fairness

-----------------------------------------------------------------------------
Holding(k) == conn[k] \in {"warming", "live", "hooks", "stopping"}

\* At most one instance of a namespace is between New's claim and the end of its
\* Shutdown (activeNamespaces).
OneActive == \A k, j \in Instances : Holding(k) /\ Holding(j) => k = j

\* That holds until a repeated Shutdown deletes the entry of an instance that is
\* still up: a newer holder, or the instance itself while its first Shutdown drains
\* (connector.go:399).  And no drift detector outlives the Shutdown that stopped it,
\* whatever New and Shutdown calls overlap (stop waits for the goroutine).
ActiveUntilRobbed ==
    /\ ~robbed => OneActive
    /\ \A k \in Instances : detector[k] \in {"waiting", "checking"} => Holding(k)

\* Every delivery Enqueue accepted, hence acknowledged to Stripe, is dispatched,
\* though its queue is shut down meanwhile (worker ranges over the closed channel).
AcceptedIsDispatched ==
    \A i \in Items : sender[i].pc = "accepted" ~> outcome[i] # "none"

\* A started Shutdown ends, with a full channel and senders blocked on it included.
ShutdownEnds == \A k \in Instances : conn[k] = "hooks" ~> conn[k] = "down"
=============================================================================
