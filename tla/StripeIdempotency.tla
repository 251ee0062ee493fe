------------------------- MODULE StripeIdempotency -------------------------
(***************************************************************************)
(* The Idempotency-Key every write carries (stripeapi/idempotency.go): the *)
(* caller's override, or a key derived from the operation and its inputs.  *)
(* The hash is length-prefixed and taken as injective, so a key is the     *)
(* tuple of what it hashes.  Stripe answers a key it has seen in the last  *)
(* 24 hours with the first answer and does nothing else.                   *)
(***************************************************************************)
EXTENDS Sequences

deriveKey(op, inputs) == <<op>> \o inputs

ApplyIdempotencyKey(callerKey, op, inputs) ==
    IF callerKey # "" THEN <<callerKey>> ELSE deriveKey(op, inputs)

\* Stripe's side: the keys it remembers.
Replays(key, used) == key \in used
=============================================================================
