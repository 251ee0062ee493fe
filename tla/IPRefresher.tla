----------------------------- MODULE IPRefresher -----------------------------
(***************************************************************************)
(* webhooks.IPRefresher (webhooks/source_ips.go), which keeps the source   *)
(* allowlist of the webhook handler at the list Stripe publishes: Start    *)
(* fetches it once and leaves a goroutine that fetches it again, Stop ends *)
(* the goroutine.  A list is a number, larger when published later.        *)
(***************************************************************************)
EXTENDS Naturals, Sequences

CONSTANTS
    Callers,      \* goroutines that call Start and Stop
    MaxLists,     \* bound on the lists Stripe publishes
    MaxLoops,     \* bound on the goroutines Start leaves
    Malformed     \* lists that SetAllowedCIDRs cannot parse

VARIABLES
    published,    \* Stripe's current list
    allowlist,    \* Webhooks.allowedCIDRs, 0 as configured
    last,         \* r.last
    stop,         \* r.stop: the loop it cancels, 0 for nil
    loops,        \* sequence of [pc, list, cancelled]
    caller,       \* each caller's Start or Stop: [pc, list]
    careless      \* history: a Start was called that overlaps another call or a
                  \* refresher that was not stopped

ipVars == <<published, allowlist, last, stop, loops, caller, careless>>

Returned == [pc |-> "idle", list |-> 0]

NewIPRefresher ==
    /\ published = 1
    /\ allowlist = 0 /\ last = 0 /\ stop = 0
    /\ loops = <<>>
    /\ caller = [c \in Callers |-> Returned]
    /\ careless = FALSE

\* Webhooks.SetAllowedCIDRs: a list that does not parse leaves the old one.
SetAllowedCIDRs(list) == allowlist' = IF list \in Malformed THEN allowlist ELSE list

Goto(c, pc) == caller' = [caller EXCEPT ![c].pc = pc]
LoopGoto(l, pc) == loops' = [loops EXCEPT ![l].pc = pc]

Start(c) ==
    /\ caller[c].pc = "idle"
    /\ Len(loops) < MaxLoops
    /\ Goto(c, "fetch")
    /\ careless' = (careless \/ stop # 0 \/ \E d \in Callers : caller[d].pc # "idle")
    /\ UNCHANGED <<published, allowlist, last, stop, loops>>

\* FetchStripeWebhookIPs: the list, or an error that Start returns.
StartFetch(c) ==
    /\ caller[c].pc = "fetch"
    /\ \/ caller' = [caller EXCEPT ![c] = [pc |-> "store", list |-> published]]
       \/ caller' = [caller EXCEPT ![c] = Returned]
    /\ UNCHANGED <<published, allowlist, last, stop, loops, careless>>

StartStore(c) ==
    /\ caller[c].pc = "store"
    /\ last' = caller[c].list
    /\ Goto(c, "apply")
    /\ UNCHANGED <<published, allowlist, stop, loops, careless>>

\* Its error is dropped.
StartApply(c) ==
    /\ caller[c].pc = "apply"
    /\ SetAllowedCIDRs(caller[c].list)
    /\ Goto(c, "spawn")
    /\ UNCHANGED <<published, last, stop, loops, careless>>

\* Under mu: "already started", or the goroutine.
StartSpawn(c) ==
    /\ caller[c].pc = "spawn"
    /\ caller' = [caller EXCEPT ![c] = Returned]
    /\ IF stop # 0 THEN UNCHANGED <<stop, loops>>
       ELSE /\ loops' = Append(loops, [pc |-> "select", list |-> 0, cancelled |-> FALSE])
            /\ stop' = Len(loops) + 1
    /\ UNCHANGED <<published, allowlist, last, careless>>

\* The swap under mu; without a loop Stop returns.
Stop(c) ==
    /\ caller[c].pc = "idle"
    /\ stop # 0
    /\ caller' = [caller EXCEPT ![c] = [pc |-> "cancel", list |-> stop]]
    /\ stop' = 0
    /\ UNCHANGED <<published, allowlist, last, loops, careless>>

StopCancel(c) ==
    /\ caller[c].pc = "cancel"
    /\ loops' = [loops EXCEPT ![caller[c].list].cancelled = TRUE]
    /\ Goto(c, "wait")
    /\ UNCHANGED <<published, allowlist, last, stop, careless>>

\* A faulty variant: Stop returns without waiting for the goroutine.
StopReturns(c) ==
    /\ caller[c].pc = "wait"
    /\ caller' = [caller EXCEPT ![c] = Returned]
    /\ UNCHANGED <<published, allowlist, last, stop, loops, careless>>

\* r.wg.Wait, which counts every goroutine of the refresher.
StopWaits(c) ==
    /\ \A l \in DOMAIN loops : loops[l].pc = "exited"
    /\ StopReturns(c)

\* The goroutine: a tick, or ctx.Done, or either when both are ready.
LoopSelect(l) ==
    /\ loops[l].pc = "select"
    /\ LoopGoto(l, "fetch") \/ (loops[l].cancelled /\ LoopGoto(l, "exited"))
    /\ UNCHANGED <<published, allowlist, last, stop, caller, careless>>

\* A fetch fails at any time, and always once its context is cancelled.
LoopFetch(l) ==
    /\ loops[l].pc = "fetch"
    /\ \/ ~loops[l].cancelled /\ loops' = [loops EXCEPT ![l].pc = "store", ![l].list = published]
       \/ LoopGoto(l, "select")
    /\ UNCHANGED <<published, allowlist, last, stop, caller, careless>>

LoopStore(l) ==
    /\ loops[l].pc = "store"
    /\ last' = loops[l].list
    /\ LoopGoto(l, "apply")
    /\ UNCHANGED <<published, allowlist, stop, caller, careless>>

LoopApply(l) ==
    /\ loops[l].pc = "apply"
    /\ SetAllowedCIDRs(loops[l].list)
    /\ LoopGoto(l, "select")
    /\ UNCHANGED <<published, last, stop, caller, careless>>

Publish ==
    /\ published < MaxLists
    /\ published' = published + 1
    /\ UNCHANGED <<allowlist, last, stop, loops, caller, careless>>

RefresherNext ==
    \/ \E c \in Callers : \/ Start(c) \/ StartFetch(c) \/ StartStore(c) \/ StartApply(c)
                          \/ StartSpawn(c) \/ Stop(c) \/ StopCancel(c) \/ StopWaits(c)
    \/ \E l \in DOMAIN loops : LoopSelect(l) \/ LoopFetch(l) \/ LoopStore(l) \/ LoopApply(l)
    \/ Publish

-----------------------------------------------------------------------------
\* The allowlist never goes back to an older list, with refreshers stopped in the
\* middle of a fetch and started again and with Stops that race each other, unless
\* Start is called on one that runs or during another call (Stop waits for the
\* goroutine, whose late SetAllowedCIDRs would undo the restart's).
NeverRolledBack == [][careless \/ allowlist' >= allowlist]_ipVars
=============================================================================
