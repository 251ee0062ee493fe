----------------------------- MODULE MCBilling -----------------------------
EXTENDS Billing, TLC

Item(type, grant) == [type |-> type, grant |-> grant, amount |-> TRUE]
Credits == {Item("one_time", TRUE)}
Custom == {Item("custom", FALSE)}
Plan == {Item("recurring", FALSE)}
Mixed == Credits \cup Plan

Checkout(s, cart, email, trial) ==
    [op |-> "checkout", subject |-> s, cart |-> cart, email |-> email, urls |-> TRUE, trial |-> trial]
Invoiced(s, fee) == [op |-> "invoiced", subject |-> s, fee |-> fee]
Erase(s, canceler) == [op |-> "forget", subject |-> s, canceler |-> canceler]
Import(s, c, adopt) ==  \* with the backfill when nothing is adopted
    [op |-> "import", subject |-> s, customer |-> c, adopt |-> adopt, backfill |-> ~adopt]

Draft(req, number, repo) ==   \* two equal lines
    [op |-> "draft", req |-> req, customer |-> 1, lines |-> 2, number |-> number, repo |-> repo]
On(kind) == [op |-> "write", on |-> kind, subject |-> "s1"]

Use(s, req, q) == [subject |-> s, req |-> req, quantity |-> q]

Fresh == [s \in Subjects |-> NoCustomer]
S1Mapped == [Fresh EXCEPT !["s1"] = 1]

Calls(mapped, menus, n) ==
    [mapped |-> mapped, calls |-> menus, faults |-> n, pending |-> "include", lost |-> 0,
     used |-> {}, direct |-> {}]
Metered(u, d) ==
    [mapped |-> S1Mapped, calls |-> <<{Import("s2", 2, TRUE)}>>, faults |-> 0,
     pending |-> "include", lost |-> 1, used |-> u, direct |-> d]

\* First checkouts that race and are retried.
Firsts == {Checkout("s1", Credits, e, FALSE) : e \in {"e1", "e2"}}
          \cup {Checkout("s1", Mixed, "e1", FALSE), Checkout("s1", Custom, "e1", FALSE),
                Import("s1", 1, FALSE), Import("s1", 2, FALSE)}
\* Erasure amid purchases.
Buys == {Checkout("s1", Credits, "e1", FALSE), Checkout("s1", Plan, "e1", TRUE)}
Erases == {Erase("s1", TRUE), Erase("s1", FALSE), Invoiced("s1", TRUE)}
\* Imports that race with each other, with a checkout and with erasure.
Imports == {Import("s1", 1, FALSE), Import("s2", 1, FALSE), Import("s2", 3, FALSE),
            Checkout("s1", Credits, "e1", FALSE)}

\* Drafts of one customer, retried, numbered by the caller, by the NumberRepo and not
\* at all, whatever Stripe does with pending items.
Drafts == {Draft("i1", 100, TRUE), Draft("i2", 101, FALSE), Draft("i3", 0, TRUE), Draft("i4", 0, FALSE)}
Drafted(behavior) == [Calls(S1Mapped, <<Drafts, Drafts, Drafts>>, 1) EXCEPT !.pending = behavior]
\* Four operations on one kind of record.
Four(kind) == Calls(S1Mapped, <<{On(kind)}, {On(kind)}, {On(kind)}, {On(kind)}>>, 1)

AllScenarios ==
    {Drafted("include"), Drafted("exclude"),
     Four("invoice"), Four("quote"), Four("dispute"), Four("promo"), Four("customer"), Four("money"),
     Calls(Fresh, <<Firsts, Firsts, Firsts>>, 2),
     Calls(Fresh, <<Buys, Buys, Erases, Erases>>, 1),
     Calls(Fresh, <<Imports, Imports, {Erase("s1", TRUE)}>>, 0),
     Metered({Use("s1", "u1", 1), Use("s1", "u2", 2), Use("s2", "u3", 1)}, {}),
     Metered({Use("s1", "u1", 1)}, {Use("s1", "d1", 1), Use("s2", "", 1)})}

Symmetry == Permutations(Workers) \cup Permutations(Reconcilers)
=============================================================================
