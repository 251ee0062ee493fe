-------------------------------- MODULE Webhooks --------------------------------
(***************************************************************************)
(* Webhooks.Handle (webhooks/handler.go) with synchronous dispatch.  Each  *)
(* HTTP request is a process, possibly on a different replica, that goes   *)
(* through the calls Handle makes on shared state one at a time: Get,      *)
(* TryLock, the app's handler, the event log, Set or Unlock, the response. *)
(* Stripe delivers an event until it sees a 200, and may deliver it again  *)
(* after that.  Store calls may fail, responses may be lost, and a replica *)
(* may crash between any two steps.                                        *)
(***************************************************************************)
EXTENDS Naturals, FiniteSets, IdempotencyStore, EventLog

CONSTANTS
    Events,       \* event ids Stripe delivers
    NoEvent,      \* placeholder of an idle request
    Requests,     \* concurrent HTTP requests, over all replicas
    Kind,         \* [Events -> {"own", "foreign", "unstamped"}]: the namespace stamp
    MaxAttempts,  \* [Events -> Nat]: EventPolicy.MaxAttempts of the type, 0 = no policy
    OnExhausted,  \* [Events -> {"nil", "ok", "any"}]: its callback: none, one that
                  \* returns nil, one that may return an error
    Async,        \* Config.Queue is set
    Overlap,      \* Stripe redelivers while an earlier delivery is in flight
    FaultyOps,    \* the calls that may fail
    Crashable,    \* the processes that may crash
    MaxFailures,  \* bound: handler errors per event
    MaxFaults,    \* bound: failed calls and lost responses
    MaxCrashes,   \* bound: replica crashes
    MaxDups,      \* bound: deliveries after Stripe saw a 200
    MaxReplays    \* bound: operator replays

ASSUME ConfigAssumption ==
    /\ NoEvent \notin Events
    /\ Kind \in [Events -> {"own", "foreign", "unstamped"}]
    /\ MaxAttempts \in [Events -> Nat]
    /\ OnExhausted \in [Events -> {"nil", "ok", "any"}]
    /\ Async \in BOOLEAN /\ Overlap \in BOOLEAN
    /\ FaultyOps \subseteq {"get", "lock", "set", "unlock", "log", "response",
                          "enqueue", "queue", "sweep"}
    /\ {MaxFailures, MaxFaults, MaxCrashes, MaxDups, MaxReplays} \subseteq Nat

VARIABLES
    store,      \* w.store, the dedup store
    nextToken,  \* the token the store hands out next
    eventLog,   \* w.eventLog
    req,        \* the local state of each request
    acked,      \* [Events -> BOOLEAN]: Stripe saw a 200
    handled,    \* [Events -> Nat]: handler runs of the pipeline that returned nil
    failures,   \* [Events -> Nat]: handler runs of the pipeline that returned an error
    typed,      \* [Events -> Nat]: runs of a typed handler, replays included
    settled,    \* [Events -> ...]: how the event was disposed of, if it was
    env         \* what is left of the environment's bounds

storeVars == <<store, nextToken>>
histVars  == <<handled, failures, typed, settled>>
vars      == <<store, nextToken, eventLog, req, acked, handled, failures,
               typed, settled, env>>

PCs == {"idle", "get", "lock", "run", "decide", "exhaust", "unlock",
        "logFail", "set", "finish", "respond", "claim", "enqueue"}
Outcomes == {"none", "processed", "skipped", "gaveUp"}

Idle == [pc |-> "idle", evt |-> NoEvent, token |-> 0, attempt |-> 0,
         outcome |-> "none"]

RequestType == [pc: PCs, evt: Events \cup {NoEvent}, token: Nat, attempt: Nat,
                outcome: Outcomes]
EnvType == [faults: Nat, crashes: Nat, dups: Nat, replays: Nat]

\* One type invariant for the state of the handler and its environment.
TypeOK ==
    /\ store \in StoreType(Events)
    /\ nextToken \in Nat
    /\ eventLog \in LogType(Events)
    /\ req \in [Requests -> RequestType]
    /\ \A r \in Requests : req[r].pc # "idle" => req[r].evt \in Events
    /\ acked \in [Events -> BOOLEAN]
    /\ handled \in [Events -> Nat]
    /\ failures \in [Events -> Nat]
    /\ typed \in [Events -> Nat]
    /\ settled \in [Events -> {"no", "handled", "skipped", "gaveUp"}]
    /\ env \in EnvType

Init ==
    /\ store = [e \in Events |-> Absent]
    /\ nextToken = 1
    /\ eventLog = [e \in Events |-> NoRow]
    /\ req = [r \in Requests |-> Idle]
    /\ acked = [e \in Events |-> FALSE]
    /\ handled = [e \in Events |-> 0]
    /\ failures = [e \in Events |-> 0]
    /\ typed = [e \in Events |-> 0]
    /\ settled = [e \in Events |-> "no"]
    /\ env = [faults |-> MaxFaults, crashes |-> MaxCrashes, dups |-> MaxDups,
              replays |-> MaxReplays]

-----------------------------------------------------------------------------
(* Control of one request.                                                 *)

Goto(r, pc) == req' = [req EXCEPT ![r] = [@ EXCEPT !.pc = pc]]

InFlight(e) == \E r \in Requests : req[r].evt = e

\* One of the calls that may fail does.
Fault(op) ==
    /\ op \in FaultyOps
    /\ env.faults > 0
    /\ env' = [env EXCEPT !.faults = @ - 1]

\* The response ends the request.  Stripe retries after anything but a 200,
\* and after a 200 that never arrives.
Respond500(r) == req' = [req EXCEPT ![r] = Idle] /\ UNCHANGED acked

Ack(r) == /\ req' = [req EXCEPT ![r] = Idle]
          /\ acked' = [acked EXCEPT ![req[r].evt] = TRUE]

Respond200(r) ==
    \/ Ack(r) /\ UNCHANGED env
    \/ Fault("response") /\ req' = [req EXCEPT ![r] = Idle] /\ UNCHANGED acked

-----------------------------------------------------------------------------
(* The environment.                                                        *)

\* Stripe sends a signed event; the request passes the source, size and
\* signature checks.  (One that does not is answered 4xx and changes nothing.)
Deliver(r, e) ==
    /\ req[r].pc = "idle"
    /\ Overlap \/ ~InFlight(e)
    /\ \/ ~acked[e] /\ UNCHANGED env
       \/ acked[e] /\ env.dups > 0 /\ env' = [env EXCEPT !.dups = @ - 1]
    /\ req' = [req EXCEPT ![r] = [Idle EXCEPT !.pc = "get", !.evt = e]]
    /\ UNCHANGED <<storeVars, eventLog, acked, histVars>>

\* The replica serving r dies: no response, and what r held stays held.
Crash(r) ==
    /\ r \in Crashable
    /\ req[r].pc # "idle"
    /\ env.crashes > 0
    /\ env' = [env EXCEPT !.crashes = @ - 1]
    /\ req' = [req EXCEPT ![r] = Idle]
    /\ UNCHANGED <<storeVars, eventLog, acked, histVars>>

-----------------------------------------------------------------------------
(* Handle, call by call.                                                   *)

\* store.Get: a finished event is a duplicate delivery, answered 200.
StoreGet(r) ==
    /\ req[r].pc = "get"
    /\ \/ Fault("get") /\ Respond500(r)
       \/ Found(store, req[r].evt) /\ Respond200(r)
       \/ ~Found(store, req[r].evt) /\ Goto(r, "lock") /\ UNCHANGED <<acked, env>>
    /\ UNCHANGED <<storeVars, eventLog, histVars>>

\* Where a claimed event goes: the namespace filter (classifyNamespace), then
\* the queue if there is one.
Route(e) == CASE Kind[e] = "foreign"   -> "set"
              [] Kind[e] = "unstamped" -> "run"
              [] Kind[e] = "own"       -> IF Async THEN "claim" ELSE "run"

\* store.TryLock: an event somebody holds is answered 200; otherwise the
\* request owns it.  The fingerprint is nil on every call, so a mismatch
\* cannot be reported.
\* (Mutant: without the early return, a request that got no lock goes on.)
TryLockUnchecked(r) ==
    LET e == req[r].evt IN
    /\ req[r].pc = "lock"
    /\ store' = IF Lockable(store, e) THEN Lock(store, e, nextToken) ELSE store
    /\ nextToken' = nextToken + 1
    /\ req' = [req EXCEPT ![r] = [@ EXCEPT !.pc = Route(e), !.token = nextToken]]
    /\ UNCHANGED <<eventLog, acked, histVars, env>>

TryLock(r) ==
    LET e == req[r].evt IN
    /\ req[r].pc = "lock"
    /\ \/ /\ Fault("lock") /\ Respond500(r)
          /\ UNCHANGED <<storeVars, settled>>
       \/ /\ ~Lockable(store, e) /\ Respond200(r)
          /\ UNCHANGED <<storeVars, settled>>
       \/ /\ Lockable(store, e)
          /\ store' = Lock(store, e, nextToken)
          /\ nextToken' = nextToken + 1
          /\ req' = [req EXCEPT ![r] =
                        [@ EXCEPT !.pc = Route(e), !.token = nextToken,
                                  !.outcome = IF Kind[e] = "foreign"
                                              THEN "skipped" ELSE "none"]]
          /\ settled' = [settled EXCEPT ![e] =
                            IF Kind[e] = "foreign" /\ @ = "no" THEN "skipped" ELSE @]
          /\ UNCHANGED <<acked, env>>
    /\ UNCHANGED <<eventLog, handled, failures, typed>>

\* Whether a claimed event goes to dispatchEvent, rather than to OnOtherEvent.
RunsTyped(e) == Kind[e] = "own"

\* The app's handler returns: OnOtherEvent for an unstamped event, the result
\* of dispatchEvent otherwise.  Returning an error includes running out of
\* SyncDispatchTimeout.
RunHandler(r) ==
    LET e == req[r].evt IN
    /\ req[r].pc = "run"
    /\ \/ /\ handled' = [handled EXCEPT ![e] = @ + 1]
          /\ settled' = [settled EXCEPT ![e] = "handled"]
          /\ req' = [req EXCEPT ![r] =
                        [@ EXCEPT !.pc = "set", !.outcome = "processed"]]
          /\ UNCHANGED failures
       \/ /\ failures[e] < MaxFailures
          /\ failures' = [failures EXCEPT ![e] = @ + 1]
          /\ req' = [req EXCEPT ![r] =
                        [@ EXCEPT !.pc = IF RunsTyped(e) THEN "decide" ELSE "unlock",
                                  !.attempt = 1]]
          /\ UNCHANGED <<handled, settled>>
    /\ typed' = [typed EXCEPT ![e] = IF RunsTyped(e) THEN @ + 1 ELSE @]
    /\ UNCHANGED <<storeVars, eventLog, acked, env>>

\* EventPolicy: is this attempt the last one allowed?
ExhaustedLate(e, n) == MaxAttempts[e] > 0 /\ n > MaxAttempts[e]  \* mutant: one more try
ExhaustedEarly(e, n) == MaxAttempts[e] > 0 /\ n + 1 >= MaxAttempts[e]  \* mutant: one less
Exhausted(e, n) == MaxAttempts[e] > 0 /\ n >= MaxAttempts[e]

\* A failed dispatch: the attempt number is the logged one plus one (one if the
\* log cannot be read), and the event's policy is looked up.
Decide(r) ==
    LET e == req[r].evt
        GoOn(n) == req' = [req EXCEPT ![r] =
                      [@ EXCEPT !.attempt = n,
                                !.pc = IF Exhausted(e, n) THEN "exhaust" ELSE "unlock"]]
    IN
    /\ req[r].pc = "decide"
    /\ \/ GoOn(eventLog[e].attempts + 1) /\ UNCHANGED env
       \/ Fault("log") /\ GoOn(1)
    /\ UNCHANGED <<storeVars, eventLog, acked, histVars>>

\* recordToLog: a failed write is only logged.
RecordToLog(e, status, n) ==
    \/ eventLog' = Record(eventLog, e, status, n) /\ UNCHANGED env
    \/ Fault("log") /\ UNCHANGED eventLog

\* The last attempt allowed failed.  Without a callback, or when it returns
\* nil, the event is given up; when it returns an error Stripe is kept retrying.
\* (Mutant: a give-up that is never marked processed.)
ExhaustUnmarked(r) ==
    LET e == req[r].evt IN
    /\ req[r].pc = "exhaust"
    /\ RecordToLog(e, "failed", req[r].attempt)
    /\ Goto(r, "unlock")
    /\ settled' = [settled EXCEPT ![e] = IF @ = "no" THEN "gaveUp" ELSE @]
    /\ UNCHANGED <<storeVars, acked, handled, failures, typed>>

Exhaust(r) ==
    LET e == req[r].evt IN
    /\ req[r].pc = "exhaust"
    /\ RecordToLog(e, "failed", req[r].attempt)
    /\ \/ /\ req' = [req EXCEPT ![r] = [@ EXCEPT !.pc = "set", !.outcome = "gaveUp"]]
          /\ settled' = [settled EXCEPT ![e] = IF @ = "no" THEN "gaveUp" ELSE @]
       \/ /\ OnExhausted[e] = "any"
          /\ Goto(r, "unlock")
          /\ UNCHANGED settled
    /\ UNCHANGED <<storeVars, acked, handled, failures, typed>>

\* store.Unlock after a failed dispatch; its own failure is only logged.
\* (Mutant: the claim is kept.)
UnlockForgotten(r) ==
    /\ req[r].pc = "unlock"
    /\ Goto(r, "logFail")
    /\ UNCHANGED <<storeVars, eventLog, acked, histVars, env>>

UnlockClaim(r) ==
    /\ req[r].pc = "unlock"
    /\ \/ store' = Release(store, req[r].evt, req[r].token) /\ UNCHANGED env
       \/ Fault("unlock") /\ UNCHANGED store
    /\ Goto(r, "logFail")
    /\ UNCHANGED <<nextToken, eventLog, acked, histVars>>

\* The failed attempt is logged and Stripe told to retry.
\* (Mutant: a failure is answered 200.)
LogFailureAcks(r) ==
    /\ req[r].pc = "logFail"
    /\ RecordToLog(req[r].evt, "failed", req[r].attempt)
    /\ Ack(r)
    /\ UNCHANGED <<storeVars, histVars>>

LogFailure(r) ==
    /\ req[r].pc = "logFail"
    /\ RecordToLog(req[r].evt, "failed", req[r].attempt)
    /\ Respond500(r)
    /\ UNCHANGED <<storeVars, histVars>>

\* store.Set (markProcessed); its failure, and a lost lock, are only logged.
\* (Mutant: a failed Set releases the claim.)
MarkOrRelease(r) ==
    /\ req[r].pc = "set"
    /\ \/ store' = SetDone(store, req[r].evt, req[r].token) /\ UNCHANGED env
       \/ Fault("set") /\ store' = Release(store, req[r].evt, req[r].token)
    /\ Goto(r, "finish")
    /\ UNCHANGED <<nextToken, eventLog, acked, histVars>>

MarkProcessed(r) ==
    /\ req[r].pc = "set"
    /\ \/ store' = SetDone(store, req[r].evt, req[r].token) /\ UNCHANGED env
       \/ Fault("set") /\ UNCHANGED store
    /\ Goto(r, "finish")
    /\ UNCHANGED <<nextToken, eventLog, acked, histVars>>

\* The outcome is logged; a give-up already was.
LogOutcome(r) ==
    /\ req[r].pc = "finish"
    /\ IF req[r].outcome = "gaveUp" THEN UNCHANGED <<eventLog, env>>
       ELSE RecordToLog(req[r].evt, req[r].outcome, 0)
    /\ Goto(r, "respond")
    /\ UNCHANGED <<storeVars, acked, histVars>>

\* Stripe is told to stop.
Respond(r) ==
    /\ req[r].pc = "respond"
    /\ Respond200(r)
    /\ UNCHANGED <<storeVars, eventLog, histVars>>

\* ReplayEvent: an operator runs a logged event through dispatchEvent again.
\* Neither the store nor the log is consulted for, or told of, the outcome.
ReplayEvent(e) ==
    /\ env.replays > 0
    /\ Logged(eventLog, e)
    /\ typed' = [typed EXCEPT ![e] = @ + 1]
    /\ env' = [env EXCEPT !.replays = @ - 1]
    /\ UNCHANGED <<storeVars, eventLog, req, acked, handled, failures, settled>>

-----------------------------------------------------------------------------
\* The steps of a request that has been accepted.
Step(r) ==
    \/ StoreGet(r) \/ TryLock(r) \/ RunHandler(r) \/ Decide(r) \/ Exhaust(r)
    \/ UnlockClaim(r) \/ LogFailure(r) \/ MarkProcessed(r) \/ LogOutcome(r)
    \/ Respond(r)

Next ==
    \/ \E r \in Requests, e \in Events : Deliver(r, e)
    \/ \E r \in Requests : Step(r)
    \/ \E r \in Requests : Crash(r)
    \/ \E e \in Events : ReplayEvent(e)

Spec == Init /\ [][Next]_vars

\* A request that was accepted runs on, and Stripe keeps retrying an event it
\* has no 200 for.
Fairness ==
    /\ \A r \in Requests : WF_vars(Step(r))
    /\ \A e \in Events : WF_vars(~acked[e] /\ \E r \in Requests : Deliver(r, e))

FairSpec == Spec /\ Fairness

-----------------------------------------------------------------------------
(* Properties.                                                             *)

\* The states in which a request has claimed its event and not let go of it.
Holding(r) == req[r].pc \in {"run", "decide", "exhaust", "unlock", "set",
                             "claim", "enqueue"}

\* Two requests never process the same event at the same time, whatever
\* fails, crashes or is delivered twice: the claim TryLock grants is exclusive.
ClaimExclusive ==
    \A r, s \in Requests :
        Holding(r) /\ Holding(s) /\ req[r].evt = req[s].evt => r = s

\* The app's handler succeeds at most once per event: a success is never
\* followed by another run, even when the store write that should record it
\* (handler.go:684) fails or the replica dies before it.  The failed write leaves
\* the claim in place, so a redelivery is answered 200; the comment at
\* handler.go:716-718 expects it to be reprocessed.
HandledAtMostOnce == \A e \in Events : handled[e] <= 1

\* What Stripe was told is true: an event it will not retry, and nobody is
\* working on, was handled, skipped for its namespace or given up by policy.
\* This holds when Stripe awaits each answer (~Overlap), no replica dies and
\* Unlock does not fail.  Otherwise a retry finds the claim of a run that then
\* fails, or of a dead replica, is answered 200, and the event is lost.
NeverSwallowed ==
    \A e \in Events : acked[e] /\ ~InFlight(e) => settled[e] # "no"

\* An event is given up only after its handler really failed MaxAttempts times.
\* The policy reads the count from the log, which is written after the claim is
\* released: overlapping deliveries, lost log writes and crashes may make the log
\* forget attempts, and never make it count one too many.
GivenUpAfterMaxAttempts ==
    \A e \in Events : settled[e] = "gaveUp" => failures[e] >= MaxAttempts[e]

\* A policy with MaxAttempts whose callback agrees to stop bounds the number
\* of failed runs of the handler.  This holds for one delivery of an event at a
\* time, no crash and a log that does not fail: a delivery that comes between
\* Unlock and the log write (handler.go:669-674) reads an old count and is one
\* attempt more.
MaxAttemptsIsCap ==
    \A e \in Events : Kind[e] = "own" /\ MaxAttempts[e] > 0 /\ OnExhausted[e] = "ok"
                          => failures[e] <= MaxAttempts[e]

\* StuckEvents tells an operator what to replay: an event that was given up is
\* reported at its policy's own threshold, and one that was handled is never
\* reported once nobody works on it, however often it failed before.  This holds
\* under the conditions of MaxAttemptsIsCap.
StuckIsGivenUp ==
    \A e \in Events :
        /\ settled[e] = "gaveUp" => e \in StuckEvents(eventLog, MaxAttempts[e])
        /\ settled[e] = "handled" /\ ~InFlight(e) => e \notin StuckEvents(eventLog, 1)

\* A disposed event stays disposed: handled is final, and a skipped or given up
\* event is never run by the pipeline again, whatever Set, the log or a replica
\* did.
SettledIsFinal ==
    [][\A e \in Events : settled[e] # "no" => /\ settled'[e] = settled[e]
                                              /\ handled'[e] = handled[e]]_vars

\* Every event is eventually disposed of and acknowledged, under the conditions
\* of NeverSwallowed.
EventuallySettled == \A e \in Events : <>(acked[e] /\ settled[e] # "no")
=============================================================================
