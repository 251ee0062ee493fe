----------------------------- MODULE MCCreditLedger -----------------------------
(* Instances of CreditLedger for model checking. *)
EXTENDS CreditLedger, TLC

CONSTANTS q1, q2, p1, b1, b2

Sym == {f @@ g : f \in Permutations({q1, q2}), g \in Permutations({b1, b2})}
=============================================================================
