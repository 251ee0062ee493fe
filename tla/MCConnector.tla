---------------------------- MODULE MCConnector ----------------------------
(* Two instances of one namespace that overlap; deliveries against a         *)
(* channel of one place and one worker, so that a sender can block while     *)
(* Shutdown waits.  The app also runs an IPRefresher, which two goroutines   *)
(* stop and restart; it shares no state with the connectors, so a behaviour  *)
(* is about the one or about the other.                                      *)
EXTENDS Connector, IPRefresher

RefresherUnused == published = 1 /\ loops = <<>> /\ \A c \in Callers : caller[c] = Returned
ConnectorUnused == \A k \in Instances : conn[k] = "none"

LifeInit == Init /\ NewIPRefresher
LifeNext ==
    \/ RefresherUnused /\ Next /\ UNCHANGED ipVars
    \/ ConnectorUnused /\ RefresherNext /\ UNCHANGED vars

LifeSpec == LifeInit /\ [][LifeNext]_<<vars, ipVars>> /\ Fairness
=============================================================================
