-------------------------------- MODULE EventLog --------------------------------
(***************************************************************************)
(* webhooks.EventLog: one row per event id with the status of the last     *)
(* outcome recorded and the attempt count (webhooks/eventlog.go).  The     *)
(* payload, times and error text are left out.                             *)
(***************************************************************************)
EXTENDS Naturals

NoRow == [status |-> "none", attempts |-> 0]

LogType(Keys) ==
    [Keys -> [status: {"none", "claimed", "skipped", "processed", "failed"},
              attempts: Nat]]

Logged(log, key) == log[key].status # "none"

\* memoryLog.Record: a zero AttemptCount keeps the count already there.
Record(log, key, status, attempts) ==
    [log EXCEPT ![key] =
        [status   |-> status,
         attempts |-> IF attempts = 0 THEN log[key].attempts ELSE attempts]]

\* memoryLog.StuckEvents.
\* (Mutant: the threshold is exceeded rather than reached.)
StuckAbove(log, minAttempts) ==
    {key \in DOMAIN log : /\ Logged(log, key)
                          /\ log[key].status # "processed"
                          /\ log[key].attempts > minAttempts}

StuckEvents(log, minAttempts) ==
    {key \in DOMAIN log : /\ Logged(log, key)
                          /\ log[key].status # "processed"
                          /\ log[key].attempts >= minAttempts}
=============================================================================
