------------------------------ MODULE Catalog ------------------------------
(***************************************************************************)
(* Catalog synchronisation: Diff and DiffWithMeters compute a plan from    *)
(* the declared spec and a listing of Stripe, Apply executes it call by    *)
(* call through the Stripe backend and stops at the first error, and the   *)
(* Cache resolves lookup keys.  Several deploys may run a sync at once; a  *)
(* plan is a frozen snapshot (DriftReport.Apply applies one too).          *)
(***************************************************************************)
EXTENDS Naturals, FiniteSets, Sequences, Functions, StripeIdempotency

CONSTANTS
    Specs,       \* catalogs that may be deployed: [namespace, products, meters]
    Syncers,     \* processes that run sync
    SameDay,     \* whether a deploy may follow another within Stripe's 24 hours
    MaxDeploys, MaxFaults

ASSUME SameDayAssumption == SameDay \in BOOLEAN

VARIABLES
    spec,        \* the deployed catalog
    products,    \* Stripe: product key -> [name, desc, active]
    prices,      \* Stripe: sequence of [key, product, amount, active], id = position
    meters,      \* Stripe: meter key -> active
    used,        \* Stripe: idempotency keys of the last 24 hours
    sync,        \* each syncer's remaining calls
    clean,       \* history: successive complete syncs of this spec, up to 2
    deploys, faults

stripeVars == <<products, prices, meters, used>>
catalogVars == <<spec, stripeVars, sync, clean, deploys, faults>>

NoSync == [on |-> FALSE, base |-> 0, calls |-> <<>>]
NoKey == << <<>>, "">>      \* a price whose lookup_key was transferred away

\* A namespace and a product key are the sequences of their words, which the ids
\* join by "_"; a namespaced lookup key is the pair of product key and price key.
AllLookupKeys(s) ==
    UNION {{<<p, k>> : k \in DOMAIN s.products[p].prices} : p \in DOMAIN s.products}
Amount(s, key) == s.products[key[1]].prices[key[2]]

\* A spec is a finite map, and validation refuses an empty key or namespace.
ASSUME SpecsAssumption ==
    \A s \in Specs :
        /\ s.namespace \in Seq(STRING) /\ s.namespace # <<>>
        /\ DOMAIN s.products \subseteq Seq(STRING)
        /\ IsFiniteSet(DOMAIN s.products) /\ IsFiniteSet(s.meters)
        /\ \A p \in DOMAIN s.products : IsFiniteSet(DOMAIN s.products[p].prices)
        /\ NoKey \notin AllLookupKeys(s)

Holders(key) == {i \in DOMAIN prices : prices[i].key = key}

productNeedsUpdate(p, e) == p.name # e.name \/ p.desc # e.desc

\* A faulty variant: an archived price that holds a declared key is left alone.
AmountDiffers(s, key, e) == Amount(s, key) # e.amount

priceNeedsReplace(s, key, e) == ~e.active \/ Amount(s, key) # e.amount

-----------------------------------------------------------------------------
\* Diff: the backend calls of each kind of plan item.
CreateProducts(s) ==
    {[op |-> "product.create", id |-> p, new |-> s.products[p]] :
        p \in DOMAIN s.products \ DOMAIN products}

UnarchiveProducts(s) ==
    {[op |-> "product.set_active", id |-> p, active |-> TRUE] :
        p \in {q \in DOMAIN s.products \cap DOMAIN products : ~products[q].active}}

UpdateProducts(s) ==
    {[op |-> "product.update", id |-> p, new |-> s.products[p]] :
        p \in {q \in DOMAIN s.products \cap DOMAIN products :
                /\ products[q].active
                /\ productNeedsUpdate(s.products[q], products[q])}}

NewPrice(s, key, transfer) ==
    [op |-> "price.create", key |-> key, amount |-> Amount(s, key), transfer |-> transfer]

SetPriceInactive(i) == [op |-> "price.set_active", id |-> i]

CreatePrices(s) ==
    {NewPrice(s, key, FALSE) : key \in {k \in AllLookupKeys(s) : Holders(k) = {}}}

\* A faulty variant: a replaced price is archived before its successor exists.
ArchiveFirst(s, key, i) == <<SetPriceInactive(i), NewPrice(s, key, TRUE)>>

Replace(s, key, i) == <<NewPrice(s, key, TRUE), SetPriceInactive(i)>>

\* The items of one kind are planned in the order of their keys; any order will do.
sortedKeys(S) == CHOOSE q \in [1 .. Cardinality(S) -> S] : IsInjective(q)

\* A price holding the key that differs or is archived is replaced.
Replaced(s) ==
    {i \in DOMAIN prices : /\ prices[i].key \in AllLookupKeys(s)
                           /\ priceNeedsReplace(s, prices[i].key, prices[i])}

\* The two calls of each.
ReplacePrices(s) ==
    LET ids == sortedKeys(Replaced(s))
    IN  [n \in 1 .. 2 * Len(ids) |->
            LET k == (n + 1) \div 2
            IN  Replace(s, prices[ids[k]].key, ids[k])[IF n = 2 * k THEN 2 ELSE 1]]

\* What is left of a product id after the first "_" behind "prod_": the product
\* key, preceded by all words of the namespace but the first.
stripeProductSuffix(s, p) == Tail(s.namespace) \o p

\* The products found when the suffixes of the listing are taken for product keys
\* (sortedProductKeys, existingProductKey).
Walked(s) == {q \in DOMAIN products : \E p \in DOMAIN products : q = stripeProductSuffix(s, p)}

ArchivePrices(s) ==
    {SetPriceInactive(i) :
        i \in {j \in DOMAIN prices : /\ prices[j].product \in Walked(s)
                                    /\ prices[j].active
                                    /\ prices[j].key \notin AllLookupKeys(s)}}

ArchiveProducts(s) ==
    {[op |-> "product.set_active", id |-> p, active |-> FALSE] :
        p \in {q \in Walked(s) \ DOMAIN s.products : products[q].active}}

CreateMeters(s) == {[op |-> "meter.create", id |-> m] : m \in s.meters \ DOMAIN meters}

ArchiveMeters(s) ==
    {[op |-> "meter.archive", id |-> m] : m \in {n \in DOMAIN meters \ s.meters : meters[n]}}

\* Apply's order.
Apply(s) ==
    sortedKeys(CreateProducts(s)) \o sortedKeys(UnarchiveProducts(s))
    \o sortedKeys(UpdateProducts(s)) \o sortedKeys(CreatePrices(s))
    \o ReplacePrices(s)
    \o sortedKeys(ArchivePrices(s)) \o sortedKeys(ArchiveProducts(s))
    \o sortedKeys(CreateMeters(s)) \o sortedKeys(ArchiveMeters(s))

-----------------------------------------------------------------------------
IdemKey(c) ==
    ApplyIdempotencyKey("", c.op,
        CASE c.op = "product.create"     -> <<c.id, c.new.name>>
          [] c.op = "product.update"     -> <<c.id, c.new.name, c.new.desc>>
          [] c.op = "product.set_active" -> <<c.id, c.active>>
          [] c.op = "price.create"       -> <<c.key, c.amount, c.transfer>>
          [] OTHER                       -> <<c.id>>)

\* Stripe refuses to create what exists, a price of a product that does not, and a
\* lookup_key in use unless it is transferred.
Refused(c) ==
    \/ c.op = "product.create" /\ c.id \in DOMAIN products
    \/ c.op = "meter.create" /\ c.id \in DOMAIN meters
    \/ c.op = "price.create" /\ c.key[1] \notin DOMAIN products
    \/ c.op = "price.create" /\ ~c.transfer /\ Holders(c.key) # {}

\* UpdateProduct sends a name and a description only when they are not empty.
ProductAfter(c) ==
    CASE c.op = "product.create" ->
            [name |-> c.new.name, desc |-> c.new.desc, active |-> TRUE]
      [] c.op = "product.update" ->
            [products[c.id] EXCEPT !.name = c.new.name,
                                   !.desc = IF c.new.desc = "" THEN @ ELSE c.new.desc]
      [] c.op = "product.set_active" -> [products[c.id] EXCEPT !.active = c.active]

PricesAfter(c) ==
    IF c.op = "price.create"
    THEN Append([i \in DOMAIN prices |->
                    IF prices[i].key = c.key THEN [prices[i] EXCEPT !.key = NoKey]
                    ELSE prices[i]],
                [key |-> c.key, product |-> c.key[1], amount |-> c.amount, active |-> TRUE])
    ELSE [prices EXCEPT ![c.id].active = FALSE]

Put(f, x, v) == [y \in DOMAIN f \cup {x} |-> IF y = x THEN v ELSE f[y]]

\* Stripe handles the call: a replayed key changes nothing.
Handle(c) ==
    LET key == IdemKey(c)
    IN  IF Replays(key, used) THEN UNCHANGED stripeVars
        ELSE /\ used' = used \cup {key}
             /\ products' = IF c.op \in {"product.create", "product.update", "product.set_active"}
                            THEN Put(products, c.id, ProductAfter(c)) ELSE products
             /\ prices' = IF c.op \in {"price.create", "price.set_active"}
                          THEN PricesAfter(c) ELSE prices
             /\ meters' = IF c.op \in {"meter.create", "meter.archive"}
                          THEN Put(meters, c.id, c.op = "meter.create") ELSE meters

Accepted(c) == Replays(IdemKey(c), used) \/ ~Refused(c)
AllIdle == \A s \in Syncers : ~sync[s].on
DayPassed == SameDay \/ used = {}

CatalogInit ==
    /\ spec \in Specs
    /\ products = <<>>
    /\ prices = <<>>
    /\ meters = <<>>
    /\ used = {}
    /\ sync = [s \in Syncers |-> NoSync]
    /\ clean = 0
    /\ deploys = 0
    /\ faults = 0

\* CheckDrift or the CLI lists Stripe and diffs it with the spec.
CheckDrift(s) ==
    /\ ~sync[s].on
    /\ sync' = [sync EXCEPT ![s] = [on |-> TRUE, base |-> clean, calls |-> Apply(spec)]]
    /\ UNCHANGED <<spec, stripeVars, clean, deploys, faults>>

\* The next backend call succeeds; or Stripe refuses it and Apply returns the error.
Call(s) ==
    /\ sync[s].calls # <<>>
    /\ IF Accepted(Head(sync[s].calls))
       THEN /\ Handle(Head(sync[s].calls))
            /\ sync' = [sync EXCEPT ![s].calls = Tail(@)]
       ELSE /\ sync' = [sync EXCEPT ![s] = NoSync]
            /\ UNCHANGED stripeVars
    /\ UNCHANGED <<spec, clean, deploys, faults>>

\* The call or its answer is lost; Apply returns the error either way.
CallFails(s, reached) ==
    /\ sync[s].calls # <<>>
    /\ faults < MaxFaults
    /\ faults' = faults + 1
    /\ IF reached /\ Accepted(Head(sync[s].calls)) THEN Handle(Head(sync[s].calls))
       ELSE UNCHANGED stripeVars
    /\ sync' = [sync EXCEPT ![s] = NoSync]
    /\ UNCHANGED <<spec, clean, deploys>>

Finish(s) ==
    /\ sync[s].on
    /\ sync[s].calls = <<>>
    /\ sync' = [sync EXCEPT ![s] = NoSync]
    /\ clean' = IF clean = 2 THEN 2 ELSE sync[s].base + 1
    /\ UNCHANGED <<spec, stripeVars, deploys, faults>>

\* A release changes the catalog, between syncs, and keeps the namespace.
Deploy(s) ==
    /\ AllIdle /\ DayPassed
    /\ s.namespace = spec.namespace
    /\ deploys < MaxDeploys
    /\ deploys' = deploys + 1
    /\ spec' = s
    /\ clean' = 0
    /\ UNCHANGED <<stripeVars, sync, faults>>

\* Someone archives a price in the dashboard.
ArchivedByHand(i) ==
    /\ AllIdle /\ DayPassed
    /\ faults < MaxFaults
    /\ faults' = faults + 1
    /\ prices' = [prices EXCEPT ![i].active = FALSE]
    /\ clean' = 0
    /\ UNCHANGED <<spec, products, meters, used, sync, deploys>>

\* Stripe's 24 hours; no sync runs that long.
KeysExpire ==
    /\ AllIdle
    /\ used # {}
    /\ used' = {}
    /\ UNCHANGED <<spec, products, prices, meters, sync, clean, deploys, faults>>

CatalogNext ==
    \/ \E s \in Syncers : \/ CheckDrift(s) \/ Call(s) \/ Finish(s)
                          \/ \E reached \in BOOLEAN : CallFails(s, reached)
    \/ \E s \in Specs : Deploy(s)
    \/ \E i \in DOMAIN prices : ArchivedByHand(i)
    \/ KeysExpire

CatalogSpec == CatalogInit /\ [][CatalogNext]_catalogVars

-----------------------------------------------------------------------------
\* Warm accepts a key exactly when a price that holds it is active.
Warm(key) == \E i \in Holders(key) : prices[i].active

\* After two complete syncs of a spec, interrupted or concurrent ones before them
\* notwithstanding, each declared key has one active price, at the declared amount,
\* and declared products are active under their declared names; and, when the
\* namespace is one word, nothing else is active.  In a namespace with a "_" Diff
\* never finds what it should archive (diff.go:352-361), and it stays on sale.  The
\* deploys are a day apart (SameDay = FALSE): within Stripe's 24 hours the creation
\* of a price that an earlier release had is replayed and creates nothing.
SyncSells ==
    clean = 2 =>
        /\ \A key \in AllLookupKeys(spec) : \E i \in DOMAIN prices :
             /\ prices[i].active /\ prices[i].amount = Amount(spec, key)
             /\ Holders(key) = {i}
        /\ \A p \in DOMAIN spec.products :
             /\ p \in DOMAIN products
             /\ products[p].active /\ products[p].name = spec.products[p].name
        /\ Len(spec.namespace) = 1 =>
             /\ \A i \in DOMAIN prices : prices[i].active => prices[i].key \in AllLookupKeys(spec)
             /\ \A p \in DOMAIN products : products[p].active => p \in DOMAIN spec.products

\* A running sync never leaves a declared key that could be bought without an active
\* price, whatever call fails: a Warm or a checkout in the middle of it still resolves
\* the key (Apply's replace creates and transfers before it archives).  The deploys
\* are a day apart: after a rollback on the same day the creation is replayed, and
\* the archive that follows takes the key off sale.
NeverUnsold ==
    [][\/ \E i \in DOMAIN prices : ArchivedByHand(i)
       \/ \A key \in AllLookupKeys(spec') : Warm(key) => Warm(key)']_catalogVars
=============================================================================
