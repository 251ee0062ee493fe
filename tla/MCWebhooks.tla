------------------------------- MODULE MCWebhooks -------------------------------
(* Instances of Webhooks for model checking. *)
EXTENDS Webhooks, TLC

CONSTANTS e1, e2, r1, r2

OwnAndUnstamped == e1 :> "own" @@ e2 :> "unstamped"
OwnAndForeign == e1 :> "own" @@ e2 :> "foreign"

\* e1's type has a policy with a cut-off of two attempts, e2's has none.
TwoAttempts == e1 :> 2 @@ e2 :> 0

\* What EventPolicy.OnExhausted does.
MayFail == e1 :> "any" @@ e2 :> "nil"
Agrees == e1 :> "ok" @@ e2 :> "nil"

AllOps == {"get", "lock", "set", "unlock", "log", "response"}
=============================================================================
