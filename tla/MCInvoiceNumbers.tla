---------------------------- MODULE MCInvoiceNumbers ----------------------------
(***************************************************************************)
(* Invoice numbering on small instances.  The formatter pads the counter   *)
(* to a fixed width, "%s%06d", and a longer counter overflows the padding: *)
(* prefix X with counter 1000001 renders like prefix X1 with counter 1.    *)
(* Here counters are written in unary and not padded, so that <<"X", 2>>   *)
(* and <<"X1", 1>> collide.                                                *)
(***************************************************************************)
EXTENDS InvoiceNumbers

CONSTANTS c1, c2, i1, i2, i3

MCPrefixes == {"X", "X1"}
Rendered == [x \in MCPrefixes \X (1..MaxDrafts) |->
                IF x[1] = "X" THEN x[2] ELSE x[2] + 1]
MCFormat == Rendered
MCNumbers == {Rendered[x] : x \in DOMAIN Rendered}

MCClients == {c1, c2}
MCInvoices == {i1, i2, i3}
=============================================================================
