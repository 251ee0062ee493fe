------------------------------- MODULE MCPgWebhookQueue -------------------------------
(* Instances of PgWebhookQueue for model checking. *)
EXTENDS PgWebhookQueue, TLC

CONSTANTS e1, e2, r1, r2, w1, w2

OneOwn == e1 :> "own"
OneTwoAttempts == e1 :> 2
OneMayFail == e1 :> "any"
=============================================================================
