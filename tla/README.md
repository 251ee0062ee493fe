# TLA+ models of rho-stripe

rho-stripe is a Go library that connects an application to Stripe billing. It
keeps state in a database, in memory and in Stripe itself, and much of its code
is about keeping these in step: webhook events arrive late, twice or together,
calls fail after they took effect, processes stop half-way, and every write to
Stripe carries an idempotency key so that it may be repeated. The modules here
model that. Definitions are translated from the Go code and its SQL and keep
their names.

## The system and its modules

| Part | Code | Modules |
|---|---|---|
| Webhook dispatcher, event log, dedup store | `webhooks/handler.go`, `handlers.go`, `namespace.go`, `eventlog.go` | `Webhooks`, `EventLog`, `IdempotencyStore` (external) |
| Asynchronous dispatch and the Postgres queue | `webhooks/handler.go`, `repos/postgres/webhook_queue.go` | `AsyncDispatch`, `PgWebhookQueue` |
| Memory queue, connector life cycle, drift detector | `webhooks/async.go`, `connector/`, `catalog/drift.go` | `MemoryQueue`, `Connector` |
| Refresher of the source allowlist | `webhooks/source_ips.go` | `IPRefresher` |
| Credit ledger in memory | `credits/repo.go`, `types.go`, `operations.go` | `CreditLedger` |
| Credit ledger in Postgres and the credit webhooks | `repos/postgres/credit_repo.go`, `credits/*_handler.go` | `PgCreditRepo`, `CreditFlows` |
| Invoice numbers | `invoices/number_repo.go`, `operations.go`, `repos/postgres/invoice_number_repo.go` | `NumberLedger`, `InvoiceNumbers` |
| Subscription mirror and reconcile | `subscriptions/mirror.go`, `repo.go`, `reconcile.go`, both repos | `SubscriptionMirror` |
| Subscription operations, seats, entitlements | `subscriptions/`, `stripeapi/subscription_backend.go`, `plans/` | `SubscriptionOps`, `Plans` |
| Catalog sync and drift | `catalog/`, `stripeapi/backend.go` | `Catalog` |
| Checkout, customers, erasure, import | `checkout/`, `customers/`, `repos/postgres/customer_repo.go` | `CustomerRepo`, `Accounts` |
| Draft invoices, refunds, disputes, quotes, promotion codes, payment methods | their packages, `stripeapi/` | `Paperwork` |
| Metering | `metering/`, `repos/postgres/usage_repo.go`, `stripeapi/meter_backend.go` | `Metering` |
| Idempotency keys | `stripeapi/idempotency.go` | `StripeIdempotency` |

How they interact. Stripe posts an event to `Handle`, which claims it in the
dedup store, classifies its namespace and runs the handlers, directly or through
a queue. The connector wraps the app's handlers with pre-steps that write the
subscription mirror and the credit ledger. Reconcile passes read Stripe and write
the same mirror. The app calls operations that read the mirror, the catalog cache
or the customer mapping and then write to Stripe; Stripe's events close the loop.

The compositions follow these shared stores. `CreditFlows` extends `PgCreditRepo`:
webhook handlers and deductions meet in the table. `Plans` extends
`SubscriptionOps` extends `SubscriptionMirror`: operations, events and reconcile
passes meet in the mirror. `Billing` joins `Accounts`, `Paperwork` and `Metering`
over one `CustomerRepo`. `Connector` extends `MemoryQueue`. Each `MC...` module
gives the constants of a run.

### State and actions

**`IdempotencyStore`, `EventLog`.** Operators on a store and a log value, one per
method. A key is absent, locked under a token, or done. `Set` and `Unlock` with
a token that does not hold the lock do nothing.

**`Webhooks`.** One process per HTTP request, over all replicas. Its program
counter walks through the calls `Handle` makes on shared state: `StoreGet`,
`TryLock`, `RunHandler`, `Decide` and `Exhaust` (the per-event policy),
`UnlockClaim`, `LogFailure`, `MarkProcessed`, `LogOutcome`, `Respond`. Each call
may fail the way the code handles it; `Crash` drops a request between two calls
and leaves its claim behind. `Deliver` is Stripe, which retries until it has seen
a 200 and sometimes after that. `handled`, `failures`, `typed` and `settled` are
history.

**`AsyncDispatch`, `PgWebhookQueue`.** The claim record and `ProcessQueued` call
by call; the table as a sequence in `enqueued_at` order, `Enqueue`, `Dequeue`,
`Return` (`complete` or `releaseFailed`) and the sweeper. Sweeping a row whose
worker is alive, because its handler outlived `StuckAfter`, is the fault "sweep".

**`MemoryQueue`, `Connector`.** Per instance a bounded channel, its workers, and
`closeMu` with Go's rule that a waiting writer holds back new readers. `New` takes
the namespace and may lose it again when the warm-up fails; `Shutdown` runs the
hooks in order (close and drain the queue, or time out; stop the drift detector
and wait for it) and then deletes the registry entry. A second `Shutdown` may come
while the first is in its hooks or later; it finds the queue closed and skips the
drain, and it deletes the entry of whoever holds the namespace. `robbed` records
that the holder was still up. Both calls write `c.shutdown` without a lock; the
flag decides nothing that is modelled.

**`IPRefresher`.** `Start` and `Stop` step by step, including the fetch outside
the lock, and the goroutine's select, fetch, store and apply. A list is a number,
larger when published later. `careless` records that a `Start` overlapped another
call or a running refresher.

**`CreditLedger`.** The memory repo holds its mutex for a whole operation, so
each operation is one action. `sort.Slice` is not stable: `SortOrders` is the set
of orders it may produce and `Walks` is the planning loop.

**`PgCreditRepo`, `CreditFlows`.** `TryDeduct` as transactions: `now()` fixed at
BEGIN, the advisory lock, the request check, `SELECT ... FOR UPDATE`, the plan,
the relative UPDATEs and the unique constraint. `RunExpiry` is two statements and
takes no advisory lock, nor does `RevokeGrant`; both wait for row locks. The
webhook handlers are lists of repository calls, carried out one at a time by
workers that other steps interleave with; an error cuts them short and the event
comes back.

**`NumberLedger`, `InvoiceNumbers`.** The memory repo is the abstract
specification. `InvoiceNumbers` is `CreateDraft` on the Postgres repo: advisory
lock, `MAX(counter)`, insert and commit, the Stripe call, then `MarkUsed` or
`MarkVoided` and the orphan hook. A commit or a Stripe call may take effect and
still report an error. The scheduled job that `number_repo.go` asks the app for
is external. The refinement maps rows to the top counter per prefix and the state
per number.

**`SubscriptionMirror`, `SubscriptionOps`, `Plans`.** Stripe's history per
subscription, events in any order, repeated and lost, and reconcile passes that
list and then upsert one row at a time. `repo` selects the memory or the Postgres
watermark, which differ on equal stamps. An operation resolves its item in one
step (from the mirror for `Migrate` and `SetSeats`) and writes to Stripe in
another, under the key the backend derives; the write is a new version whose
event updates the mirror later. `Plans` computes entitlements from the mirror;
its integers wrap at `Width` bits.

**`Catalog`.** Stripe's products, prices and meters, the deployed spec, and
syncers that list, compute `Diff` (`CheckDrift`) and carry out the plan one call at
a time in `Apply`'s order, stopping at the first error. Items of one kind are in the
order `sortedKeys` picks, which stands for the sort by name. A namespace is the
sequence of its words between underscores, and `stripeProductSuffix` cuts a product
id after the first of them, as the code does: in a namespace with an underscore the
walk over what is no longer declared finds nothing. The cache is warmed from Stripe.

**`Accounts`, `Paperwork`, `Metering`, `Billing`.** A worker's call is a record
with a program counter; every call to Stripe or to a repository is a step and may
fail before or after it took effect. Stripe remembers each key with its answer.
`Accounts` has both ways to cancel on erasure, through the app's `Canceler` and
directly, and at most one custom line in a cart. An import stamps the customer and
its subscriptions under their keys; that it also writes the mirror is left to
`SubscriptionOps`. `Paperwork` describes a write by its key, the rest of its
parameters and the record it is about. A draft is items followed by an invoice whose
request does not say what becomes of pending items; `pending` is what Stripe does
then, either way. `Metering` counts time in hours: usage rows, the checkpoint
loop that `ReconcileToStripe` documents, a push event by event, identifiers that
Stripe forgets after 24 hours. In `Billing` a behaviour picks a scenario: which
calls may begin, how many faults, which usage is recorded.

## Runs

| Run | Question | Result |
|---|---|---|
| `webhooks_faults` | Overlapping deliveries, any call failing once, a crash: is the claim exclusive, is nothing handled twice, is a disposal final, is an event given up only after its handler failed `MaxAttempts` times? | holds |
| `webhooks_serial` | When Stripe waits for the answer and no replica dies: is nothing swallowed, is the attempt cap exact, is the stuck list what was given up, is every event disposed of in the end? | holds |
| `pgqueue_exclusive` | With overlap, crashes and failed statements, `Enqueue` included, but no handler slower than `StuckAfter`: does one worker at a time run an event? | holds |
| `pgqueue_durable` | Is an acknowledged event kept until it is disposed of, and does that happen, also with early sweeps? | holds |
| `credits` | In-memory ledger: is credit conserved, drawn by expiry, and does the balance decide the answer? | holds |
| `credit_flows` | Webhooks over the Postgres ledger with concurrent deductions, sweeps and retries: does every row balance, is a request charged in full or not at all, is every purchase granted once and nothing granted that nobody asked for, is every event processed? | holds |
| `credit_refund` | Does a refund find the grants of its payment? | violated |
| `invoice_numbers` | Gapless numbering under races, failures, a crash and colliding formats; a used number is carried by an invoice; the Postgres repo implements the ledger; numbers get resolved | holds |
| `subscriptions` | Is the mirror never older than what it was updated from, does it converge, does a subscription keep one plan item under racing migrations, does lost access stay lost, do seats stay on their price? | holds |
| `catalog` | Do two complete syncs of one spec leave the declared prices on sale, and nothing else in a namespace without underscore, and is no declared price off sale in between? | holds |
| `lifecycle` | Is a closed queue never sent to, are accepted deliveries dispatched, does Shutdown end, is one connector up per namespace until a repeated or overlapping Shutdown frees it, and does a restarted refresher never bring an old allowlist back? | holds |
| `billing` | Has a subject one customer, is usage never billed twice and, for closed hours, billed at all, is an invoice line one item, which is on an invoice if Stripe includes pending items, is what a write reported in force, does erasure delete the customer last? | holds |

### Bounds

Each cfg names its bounds. Two requests, workers, clients or instances suffice for
a race between two calls; a third draft, deploy or first checkout adds the retry
after the race. Faults are bounded at one or two.

- Webhooks: a policy cuts off at two attempts and a handler may fail two or three
  times, so cut-off, retry after a vetoed cut-off and success on the last attempt
  occur.
- Credits: two grants, amounts 1 and 2 and a clock of 3: a deduction can span
  grants, a grant can expire between two calls, the amount can equal the balance
  or exceed it. `credit_flows` has three feeds: a session of two packs, a renewal
  with two granting products, and a refund of a grant made under a bare payment id.
- Invoice numbers: three drafts over two prefixes race for one prefix and, with an
  unpadded unary formatter, make two prefixes collide.
- Subscriptions: three versions of one subscription. Either the mirror meets a
  repeated, a lost and a failed event around two reconcile passes, or three
  operations that resolve an item race, or one of the others is called.
- Catalog: three releases (a product with a price, a dearer one with a second
  price and a new name, and another product in its place), each in a namespace of
  one word and of two, three deploys, two syncers, two faults. Deploys are more
  than 24 hours apart (`SameDay = FALSE`).
- Life cycle: a channel of one place and one worker, so that a sender blocks while
  Shutdown waits. Connectors and the refresher share no state, so a behaviour is
  about one of them.
- Billing: scenarios with three or four calls from the menus in `MCBilling`, for
  first checkouts, erasure amid purchases, imports, drafts, and each kind of
  record. Two reconcilers over two hours, with one lost answer.

The credit model is symmetric in request ids and buckets, the billing model in
workers and reconcilers; runs with liveness properties use no symmetry. Every cfg
disables the deadlock check: once the bounded deliveries, drafts, calls or changes
are used up the service is idle, which is how it really stops.

### Fairness

- A request, worker, handler or call that was started takes its next step:
  goroutines are scheduled and calls return, with an error if need be.
- Stripe redelivers an event it has no 200 for. It does so for three days; the
  models bound failures, so finitely many retries are needed.
- The queue's workers poll, and its sweeper ticks, while the process lives. Weak
  fairness of the sweep covers only rows whose worker is gone.
- Strong fairness is assumed once: a drift detector whose context is cancelled
  leaves its loop. Go's `select` picks at random among ready cases, so a ready
  `ctx.Done()` is not passed over for ever.
- The app runs the orphan job that `NumberRepo` documents.

Faults, crashes, losses and a handler's choice to fail are never fair.

## Proofs

TLAPS checks every theorem for all values of the constants: any number of events,
requests, workers, subscriptions, calls, retries and faults, where a run has two
or three. The theorems rest on named assumptions about the constants, which TLC
evaluates in the runs: `ConfigAssumption`, `WorkerAssumption`,
`LedgerAssumption`, `NumberingAssumption`, `MirrorAssumption`, `OpsAssumption`,
`CapacityAssumption`, `BillingAssumption`, `UsageAssumption`, `HourAssumption`,
`RepoAssumption`, `FeedAssumption` and `SpecsAssumption`. Most only give types.
`SpecsAssumption` says that a spec is finite, has a namespace and declares no
empty key (`spec.go:43` refuses it). `LedgerAssumption`, `RepoAssumption` and
`UsageAssumption` have positive amounts (the `operations.go` of both packages
refuses others). `BillingAssumption` has no empty subject id (`checkout.go:285`
and `backfill.go:76` refuse it) and says what "the same draft" means: drafts with
a number are the same request exactly when customer and number agree, and then
have the same lines. `FeedAssumption` says what Stripe sends: an event id is one
event, and a payment intent belongs to one session and to no invoice. The code
relies on this, since the ref of a purchased unit is the intent, the grant's
index and the unit. Credit packs have one-time prices (`spec.go:212`) and carts
are not mixed (`checkout.go:193`), so their sessions have an intent, except a
session that costs nothing; those are not covered.

| Property | Theorem | Inductive invariant |
|---|---|---|
| `ClaimExclusive`, `HandledAtMostOnce`, `SettledIsFinal` | `ClaimIsExclusive`, `HandledOnce`, `DisposalIsFinal` | `IInv` of `WebhooksProofs` |
| `GivenUpAfterMaxAttempts` | `AttemptsAreUsed` | `CountInv` |
| `NeverSwallowed` | `NothingSwallowed` | `SerialInv` and `Attended` |
| `MaxAttemptsIsCap`, `StuckIsGivenUp` | `AttemptsAreCapped`, `StuckIsRight` | `LogInv` |
| `RunExclusive` | `RunsAreExclusive` | `RowHeld` with `QBase` |
| `AckedIsDurable` | `AcknowledgedIsDurable` | `DurableInv` |
| `Conservation` | `CreditConserved` | `IInv` of `LedgerProofs` |
| `DrawsFIFO`, `AnswersByBalance` | `DeductionsAreFIFO`, `AnswersMatchBalance` | `IInv`, with `WalkFIFO` and `Found` |
| `RowsBalance`, `ChargedInFull` | `RowsAlwaysBalance`, `RequestsChargedInFull` | `RepoInv` |
| `PurchasesGranted` | `PurchasesAlwaysGranted` | `FlowInv` |
| `Gapless`, `UsedIsCarried`, `ImplementsLedger` | `NumberingIsGapless`, `UsedNumbersAreCarried`, `RepoImplementsLedger` | `InvoiceNumbersProofs` |
| `NewestApplied` | `MirrorKeepsNewest` | `MInv` |
| `OnePlanItem`, `SeatsStayOnTheirPrice` | `OnePlanAlways`, `SeatsLandRight` | `PInv` |
| `AccessStaysLost` | `EntitlementsStayLost` | `StatusInv` with `MInv` |
| `OneCustomer`, `DeletedLast` | `OneCustomerEach`, `ErasureRevokesFirst` | `BInv` |
| `ReportedIsInForce` | `ReportedStaysInForce` | `RecordInv` with `BInv` |
| `LinesBilledOnce` | `LinesAreBilledOnce` | `LInv` with `BInv` |
| `NeverOverbilled`, `ClosedHoursBilled` | `NoHourOverbilled`, `ClosedHoursAlwaysBilled` | `MeterInv` |
| `NeverSendsOnClosed`, `ActiveUntilRobbed` | `QueueNeverPanics`, `NamespaceIsExclusive` | `ConnectorProofs` |
| `NeverRolledBack` | `RefreshNeverRollsBack` | `RInv` |
| `NeverUnsold` | `KeysNeverUnsold` | `CatalogInv` |
| `SyncSells` | `SyncedCatalogSells` | `SoldInv` with `CatalogInv` |

- **`WebhooksProofs`**, requests without a queue. Exclusive claims are not
  inductive: nothing in them says that a request's claim is in the store.
  `ClaimHeld` adds that a request that has not let go owns the lock under its
  token, and `SettledIsClosed` that a disposed event can no longer be claimed and
  nobody works on it. Handling at most once then follows even when `store.Set`
  fails: the lock stays. `AttemptsAreUsed`: the log may forget failed attempts but
  never has one too many (`NeverOvercounted`: what is logged, and what requests are
  about to log, is at most what failed), so a policy that gives up at `MaxAttempts`
  has seen them all. `TypedByReplayOnly` counts: of all paths to a typed handler
  only `ReplayEvent` skips the namespace filter, so foreign runs are at most the
  replays.
- The second part of **`WebhooksProofs`**, deliveries that await the answer and
  no crash (`Serial`). These conditions are in the statements because the
  properties fail without them (see the next section). An overlapping retry is
  answered 200 while the first may still fail, and a crash leaves a claim that
  nothing releases. `NothingSwallowed` also needs unlocks that do not fail, for
  the same reason. `Alone` (an event is in one request), `Tracks` (what a request
  is about to answer is how the event was disposed of) and `LocksAttended` (a
  claim belongs to a disposed event or to a request) carry it. The cap and the
  stuck list need a log that does not fail (`LogReliable`), since attempts are
  counted there: `Counted` says that the log has every failed run except one that
  is about to be recorded, `LogTells` that its last row says how the event ended.
- The third part of **`WebhooksProofs`**, the Postgres queue. `RunsAreExclusive`,
  about workers, holds when no handler outlives `StuckAfter` (`Prompt`):
  `RowHeld` ties a busy worker to its row in processing. `OneRunsAtATime` also
  counts requests and needs that `Enqueue` does not fail (`OneQueue`), for
  otherwise the request runs the handler itself beside a worker with an older
  row. Its `RunInv` adds `QueuedOnly`, which keeps requests away from queued
  events, and `SyncHeld`, the claim of the rest. `AcknowledgedIsDurable` allows
  worker crashes, failed statements and early sweeps, but no request that dies
  with a claim (`Awaited`). `Safe(e)` is "disposed of or in the table";
  `ClaimsAttended` says that a claim on an event that is not safe has a live
  request, so a 200 for a known claim promises nothing false.
- **`LedgerProofs`**, the memory repo's credits: `CreditConserved`,
  `RevokedStaysEmpty`, `GrantIsIdempotent`, `DeductIsIdempotent`. The core is
  `TakeBounded`: whatever order the sort picks, the plan takes from a grant at
  most what it has left. `BookingStep` shows that an operation that lowers grants
  and books the difference keeps the invariant. `DeductionsAreFIFO` follows the
  loop over the sorted pool (`WalkedBy`): once a grant is not emptied nothing is
  left to find, so no later one is touched. `AnswersMatchBalance` is an induction
  over the positions (`Found`): after i grants the loop has taken what they had,
  or the whole amount.
- The second part of **`LedgerProofs`**, metering by itself, whatever happens to the
  mapping of customers (`MeteringSpec`; `BillingMeters` carries the results over to
  `Billing`). `MeterInv` says that a pushed event bills at most what was recorded,
  and all of it once the hour was over and complete (`Pushed`), that an hour below
  the checkpoint, or of a run under way, has an event for every subject that is not
  excused (`Served`), that pruned rows are of such hours, and that an identifier
  Stripe knows counts once. `NoHourOverbilled` assumes that the times of all
  instances are in one zone, as the run does: the identifier covers the zone, so two
  zones bill an hour twice.
- **`SumTheorems`**, what `SumFunctionOnSet` and `MapThenSumSet` compute over finite
  sets: adding or removing an element, disjoint unions, monotony, reindexing. The
  two modules about credits and usage rest on it. Inductions are over sets of
  subsets or of numbers, by well-foundedness (`FiniteInduction`,
  `NatSetInduction`), since the provers cannot instantiate the library's induction
  rules.
- **`CreditFlowsProofs`**, the Postgres ledger and the webhook handlers over it.
  `RowsBalance` and `ChargedInFull` are not inductive: a commit writes what an
  earlier statement planned. `RepoInv` adds `TxOpen` (a planned deduction's request
  has no row yet, its rows still have what it takes, and it takes its amount) and
  `OneHolder` (one transaction has the subject's lock). `PlanSum` shows that the
  plan over the locked rows adds up to the amount, in whatever order ties are
  broken. Grants only add rows, and revocation and expiry wait for the row locks,
  so a plan stays good. `FlowInv` adds that a handler has granted or still has to
  grant each ref of its event, so an event that is done has all of them; the
  unique index gives each of them once, and every ref is from an event or the app.
- **`InvoiceNumbersProofs`**. `Gapless` is inductive with `Locked` (a call between
  read and insert holds the prefix's lock, and what it read is still the maximum)
  and `Numbered`. `Relabels` captures the steps that only rewrite the state of
  rows. `UsedNumbersAreCarried` needs `Backed` (a call about to mark its number
  used has an invoice that carries it). `NumbersAreAccountedFor`: a number still
  issued has a call in flight, was reported to the orphan hook, or lost its call
  to a crash or a commit error. `RepoImplementsLedger`: under these invariants each
  step of the statements is a step of the atomic ledger or a stutter; `Topped`
  gives every prefix a highest counter, so that the mapping is defined.
- **`MirrorProofs`**, `SubscriptionOps` and `Plans`, both repos. `NewestApplied`
  compares the seconds of versions, the code compares stamps. `Stamped` (a row's
  stamp is no later than its version's second) and `Watermark` (the stored stamp
  is no earlier than any applied event's) tie the two, with `Ordered` (Stripe's
  clock does not run backwards) and `Known`. `OnePlanAlways` needs `BodyInv`:
  every version has one item, its id is no larger than the version's number, so an
  added item is new, and over all versions an id has one price. A write resolved
  from an old version then still fits or is refused. `CallInv` ties a pending write
  to what its call read.
  `EntitlementsStayLost` adds `StatusInv`: a deletion is the last version and its
  rows are canceled.
- **`BillingProofs`**, `Billing` with all its components. `BInv` has the types of
  every call between two steps, `CustomerInv` (a customer made for a subject has
  the subject's key, so a retry is answered with it) and `ForgetInv` (a grant the
  subject had is still listed or revoked; at "delete" all are revoked, because
  grants are never restored). `RecordInv`: if Stripe remembers the key of an
  irrevocable operation, or the app was told it is done, the record is in a state
  that operation allows; `Onward` shows that Stripe's rules lead out of none of
  these. `LInv` has two parts. `LinesInv`: a line has an item exactly when Stripe
  remembers its key, and at most one; a draft past a line has its key.
  `BilledInv`: items are of their request's customer, and once Stripe remembers
  the key of a request's invoice all its lines are items, on an invoice if
  pending items are included. `BillingMeters` shows that metering within
  `Billing` is metering by itself.
- **`ConnectorProofs`**. `Entered` says that the namespace of an instance that is
  up is registered, unless a repeated Shutdown deleted the entry, its own during
  the first included; `Attended` that a detector runs only between the end of
  `New` and the end of `Shutdown`. `RefreshNeverRollsBack` is about the refresher
  by itself (`RefresherSpec`), which shares no variable with the connector: while
  no `Start` is careless, calls do not overlap (`Alone`), a live goroutine is
  registered or waited for (`Attached`), and a fetched list is no older than the
  allowlist (`Newer`).
- The second part of **`ConnectorProofs`**, the catalog sync, for any finite
  specs (`SpecsAssumption`) and deploys more than 24 hours apart (`~SameDay`, as
  in the run: within the day a key of an earlier release is replayed and the
  price it named is not made again). `KeysNeverUnsold` needs more than the order
  within one plan, since another syncer's older plan may archive too.
  `ArchivesSafely`: the price a remaining call archives holds no declared key, or
  its successor's creation is the call before, or the key is `Sellable`, which is
  to have an active price at the declared amount that no running plan archives.
  `ReplaysSellable`: a creation that Stripe would replay has left its key
  `Sellable`. `SyncedCatalogSells` adds that each running plan still has a call
  for whatever differs from the spec (`Remains`) and none that Stripe's state
  contradicts (`Fits`), that a replayed call has had its effect (`Remembered`),
  and that no key has two holders. `Progress` is what a call preserves;
  `PlanCovers` and `PlanFits` establish both for a fresh plan, of which
  `ApplyHas` says that it is exactly its items. A name is corrected only on an
  active product, hence the second sync. The part about what is archived is for
  namespaces of one word, where `stripeProductSuffix` finds the product.

Only model-checked:

- Liveness, out of the prover's reach: `EventuallySettled`, `EventuallyProcessed`,
  `EventuallyResolved`, `Converges`, `AcceptedIsDispatched`, `ShutdownEnds`.

## Where code and documentation disagree

`PROJECT.json` lists the findings with the quoted lines. Among them:

- A refund looks grants up by the bare payment intent while checkout stores
  `"<intent>:<line>:<unit>"` (`refund_handler.go:45`, `grant_handler.go:66`); run
  `credit_refund`.
- A claim outlives a crash of its replica and the retry is answered 200
  (`handler.go:541`); a nil `OnExhausted` gives up with a 200 (`handler.go:659`);
  `ProcessQueued` does not ask the store (`handler.go:1047`). A failed `store.Set`
  leaves the claim, so the event is not reprocessed as the comment expects
  (`handler.go:720`); a failed `Enqueue` runs the handler beside a worker
  (`handler.go:607`).
- Any error of Stripe's create call voids the number, also when the invoice exists
  (`operations.go:148`).
- Reconciled rows carry the creation time as watermark, so they lose against any
  mirrored event (`subscription_backend.go:203`).
- A retried draft with a `NumberRepo` draws a new number, and with it new item
  keys, so its lines are billed again (`invoice_backend.go:123`). The invoice is
  said to collect the pending items, but its request leaves that to Stripe's default
  (`invoice_backend.go:135`).
- In a namespace with an underscore no product or price is ever archived
  (`diff.go:352`). A catalog rolled back within 24 hours leaves a declared key
  without a price (`sync.go:62`).
- The identifier of a pushed hour contains the zone its time is printed in, so two
  instances in different zones bill it twice (`reconcile.go:161`).
- A second Shutdown frees a newer connector's namespace, or that of the first
  Shutdown while it still drains (`connector.go:399`); a
  rejected `Start` of the refresher has already applied its list
  (`source_ips.go:164`).

Where a property holds only in part, it is stated for the part that holds, and
its comment says which:

- `Overlap = TRUE` in `webhooks_serial`: the claim is released before the attempt
  is logged (`handler.go:669`, `675`), so an overlapping retry reads an old count
  and `MaxAttemptsIsCap` fails; a retry answered 200 while the first delivery is
  about to fail breaks `NeverSwallowed`.
- `FaultyOps = {"sweep"}` in `pgqueue_exclusive`: a handler slower than
  `StuckAfter` runs beside its successor, and `RunExclusive` fails. It is about
  workers; a request whose `Enqueue` failed may run beside one.
- `SameDay = TRUE` in `catalog`: a spec that goes back and forth within 24 hours
  has its price creation answered from the remembered key, and no active price is
  left, so `SyncSells` and `NeverUnsold` fail. That nothing else is on sale,
  `SyncSells` says of namespaces without underscore. A product that is re-added
  under a new name needs two syncs, which is why `SyncSells` asks for two.
- `ClosedHoursBilled` excuses hours reconciled while still open and subjects that
  had no customer then; `NeverOverbilled` is for instances in one zone (with two
  `Zones` it fails); `LinesBilledOnce` is about numbers the caller chose, and puts a
  line on an invoice only if Stripe includes pending items;
  `ReportedIsInForce` leaves out toggles, which a replayed key reports but does
  not make within 24 hours; `ActiveUntilRobbed` and `NeverRolledBack` hold up to
  the two behaviours above.

## Not modelled

- Signature, source and size checks of webhooks: a rejected request changes
  nothing. Expiry of the dedup TTL (seven days, longer than Stripe retries) and
  pruning of the event log.
- `connector/health.go`: a cached readiness probe that no other part reads.
- Reads and reports: `customers/export.go`, `invoices/audit.go`, `PreviewMigrate`,
  listings.
- `checkout/portal.go`, `portalconfig`, `CreateSchedule`, `climate`: a request
  built from its input and sent, with no state and no retry logic.
- Pure validation and tables: `catalog/spec.go`, `payments/presets.go`,
  `stripeapi/metadata_validate.go`.
- `metering/repo.go`: the contract of the Postgres repo, which is modelled.
- The command line, the examples, metrics, tracing, test clocks and test support.
