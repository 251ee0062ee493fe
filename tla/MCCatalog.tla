----------------------------- MODULE MCCatalog -----------------------------
(* One product in three catalogs: a monthly price, a dearer monthly price    *)
(* with a yearly one and a new name, and another product in its place; each  *)
(* in a namespace of one word and in one with a "_".                         *)
EXTENDS Catalog, TLC

Plan(name, desc, amounts) == [name |-> name, desc |-> desc, prices |-> amounts]
Pro(name, desc, amounts) == <<"pro">> :> Plan(name, desc, amounts)

Launch(ns)  == [namespace |-> ns, meters |-> {"calls"},
                products |-> Pro("Pro", "for teams", "month" :> 10)]
Raise(ns)   == [namespace |-> ns, meters |-> {"calls"},
                products |-> Pro("Pro plus", "", ("month" :> 20) @@ ("year" :> 200))]
Retire(ns)  == [namespace |-> ns, meters |-> {},
                products |-> <<"eu", "pro">> :> Plan("Pro of the EU", "", "month" :> 5)]

MCSpecs == UNION {{Launch(ns), Raise(ns), Retire(ns)} : ns \in {<<"acme">>, <<"acme", "eu">>}}
=============================================================================
