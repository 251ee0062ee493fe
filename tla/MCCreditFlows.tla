--------------------------- MODULE MCCreditFlows ---------------------------
(* Two callers and two handler workers on three feeds: a session of two      *)
(* packs; a renewal of two granting products; a refund of a payment under    *)
(* whose bare id the application recorded a grant.                           *)
EXTENDS CreditFlows, TLC

Purchase == [id |-> "evt_session", kind |-> "session", pi |-> "pi_1", bought |-> 2,
             pending |-> <<[amount |-> 2, days |-> 1, quantity |-> 2]>>]
Renewal  == [id |-> "evt_invoice", kind |-> "invoice", invoice |-> "in_1",
             lines |-> <<[product |-> "pro", amount |-> 1, days |-> 0],
                         [product |-> "desk", amount |-> 0, days |-> 0],
                         [product |-> "seat", amount |-> 1, days |-> 0]>>]
Refund   == [id |-> "evt_refund", kind |-> "refund", pi |-> "pi_1", charge |-> "",
             refund |-> "re_1"]

ByHand   == [ref |-> [src |-> "pi_1", n |-> <<>>], amount |-> 2, days |-> 1]

MCFeeds == {[events |-> {Purchase}, app |-> {}],
            [events |-> {Renewal}, app |-> {ByHand}],
            [events |-> {Refund}, app |-> {ByHand}]}
MCRefundFeeds == {[events |-> {Purchase, Refund}, app |-> {}]}
MCAmountOf  == [req |-> 2]
=============================================================================
