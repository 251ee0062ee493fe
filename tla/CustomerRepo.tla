---------------------------- MODULE CustomerRepo ----------------------------
(***************************************************************************)
(* The mapping from the app's subjects to Stripe customers                 *)
(* (repos/postgres/customer_repo.go), shared by checkout, the customer     *)
(* operations and metering.                                                *)
(***************************************************************************)
EXTENDS Naturals

CONSTANT Subjects

VARIABLE mapping       \* subject -> customer, 0 for none

NoCustomer == 0

Get(s) == mapping[s]

\* UNIQUE (stripe_customer_id) refuses a customer that another subject has.
Taken(s, c) == \E t \in Subjects \ {s} : mapping[t] = c

Upsert(s, c) ==
    /\ ~Taken(s, c)
    /\ mapping' = [mapping EXCEPT ![s] = c]
=============================================================================
