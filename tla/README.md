# Urdais in TLA+

A TLA+ development kept beside the Urdais code: what its concurrent parts do, what
they promise, which promises hold on small instances (TLC) and which are proved for
every value of the constants (TLAPS). Paths below are relative to the repository.

Urdais is a Next.js application on serverless functions, with a Postgres database,
Supabase for sign-in, Stripe for billing and PostHog for analytics, and a set of
scheduled pipelines that compute and publish market indices. Most of the source is
derivation and presentation. The concurrency that can hurt a reader is in two places:
the account (deletion, billing events, entitlement), where four systems must agree
and none of them shares a transaction with another; and the scheduled pipelines and
operator's commands, whose runs may be interrupted, repeated or overlap. This development
covers the first and the pipelines that keep durable state.

## 1. Inventory

### Modelled

| Component | Code | State | Operations | Hard behaviour | What makes it correct |
| --- | --- | --- | --- | --- | --- |
| Account deletion | `src/lib/account/deletion.ts`, `deletion-store.ts`, `deletion-billing.ts`, `src/lib/auth/admin.ts` | `identity.account_deletions` (stage, identifiers, lease), the account row, Stripe's subscriptions, the Supabase user | start or resume; six stages | four systems, no common transaction; crashes between any two steps; a lease that lapses under a running holder; a failed cancel that is swallowed | nothing is removed before billing is verified ended; stages only advance; only a confirmed request ends billing |
| Analytics erasure | `src/lib/account/analytics-erasure.ts`, `src/lib/analytics/erasure.ts`, cron route | records held at `auth_deleted` | daily sweep: lease, erase, complete or hold | overlapping sweeps, a provider that refuses, a death after it accepted | the account id is kept until an erasure was accepted; every held record is settled |
| Stripe events and entitlement | `src/lib/billing/store.ts`, `webhook.ts`, webhook route, `subscription-state.ts` | event ledger, stored subscriptions, one entitlement per account | deliver, re-fetch, claim, upsert, grant or revoke | duplicates, reordering, stale fetches, failures inside the transaction | one effect per event; the latest event wins; access and row agree; no event lost |
| Reconciliation | `src/lib/billing/reconcile.ts` | the same rows | re-read Stripe when the reader returns from Checkout | dated by the server's clock, with a ledger id computed from the state | must not undo what an event did |

### Modelled in part

What is left out of each is arithmetic, parsing or presentation, named in `PROJECT.json`; every statement that
changes the state below is an action.

| Component | Code | State | Operations | Hard behaviour | What makes it correct |
| --- | --- | --- | --- | --- | --- |
| Checkout and Customers | `src/lib/billing/checkout.ts`, `customers.ts`, `src/lib/onboarding/checkout-handoff.ts` | Stripe's Customers and Sessions, `identity.billing_customers` | refuse the entitled, read, create, claim, read back, open a Session | first checkouts of one reader race; a request dies after Stripe created the Customer | one Customer per reader serves every Session; no event gives access to another |
| Account provisioning | `src/lib/auth/accounts.ts`, `identity.ts` | the account row | select, check in flight, upsert | races a deletion between its statements | part of the deletion's properties |
| UTVI token volume | `src/lib/utvi/run.ts`, `store.ts` | snapshots, calculations and publications of a date, append-only | fetch, confirm or supersede, look up, calculate, read the standing point, publish | no lock; runs overlap and die between any two statements; the source revises | a published value appears once, never disappears, and is re-pointed when its evidence goes |
| UMPI memory prices | `src/lib/umpi/ops/run.ts`, `ingest/store.ts`, `derive/` | advisory lock, vintages and points of each month, source checks | lock, ingest each series, derive, record freshness | a run dies under a session lock, before or after derivation; an agency revises | between runs points rest on current vintages; a month with a level and no point is never called healthy |
| UEPI electricity prices | `src/lib/uepi/ops/scheduled-run.ts`, `backfill.ts`, `store.ts` | released days and their editions, the client in use | six markets, a trailing window of days, fetch, judge, store, retry, report | lost connections in the loop, overlapping backfill, a file that grows | every day of every window has an outcome; what was released stays; a whole day is released |
| UCPI compute prices | `src/lib/ucpi/runtime/` (`daily-run.ts`, `production-job.ts`, `database-persistence.ts`, `publication-gate.ts`), `aggregation.ts`, `collector.ts` | reads, points and releases of each instrument and date | calculate yesterday, gate, release, collect today | a run at midnight; a run that ends between calculation and release; a slow source | points rest on reads of their own date; a change is against a released level; a slow source costs no point |
| UBWI blended wealth | `src/lib/ubwi/retrieve/`, `run.ts` | observations, calculations, frozen points of a day | retrieve from four sources, file, calculate, gate, freeze or converge | a source that lies or lags while two chains move; runs that straddle midnight | an observation is of one real instant; one point a day, of that day |
| Interconnection queues | `src/lib/interconnection-queue/ingest/`, `monitor.ts`, `operations/scheduled-run.ts` | snapshots filed, observations of a request, source checks, metrics | lock, discover, read the earliest period first, file, calculate | an artifact or a run fails in between; corrections appear out of order; a publisher goes quiet | what a request says follows the periods; what is in reach gets into the metrics |
| Publisher reports | `src/lib/power-delivery/capacity/ingest/`, `planning/ingest/store.ts` | evidence, the vintage, live values and what superseded them | fetch, file, find or create, compare, supersede | two commands over a report corrected in place | a run restates only what changed; one live value for an identity |
| Planning freshness | `src/lib/power-delivery/planning/freshness/` | releases held, checks recorded | check, ingest, derive currentness | checks that overlap, last long, die; a probe that is refused | what is called current was the latest within the interval, if every document was answered |
| Model frontier | `src/lib/frontier/run.ts`, `store.ts`, `price.ts` | retrievals, live results, links, selections, heartbeat | fetch, compare bytes, file, apply row by row, link, select | the retrieval is filed before it is applied; overlapping and forced runs; a source that reverts | "unchanged" means the bundle is live; the settled bundle gets live |
| Token price verification | `src/lib/tokens/verify-production.ts`, `ingest.ts`, `store.ts`, `read/benchmark-store.ts`, `src/scripts/tokens/` | retained pages, price rows, benchmark values, attestations | ingest against the catalogue, freeze due benchmarks, attest | three transactions; a command dies between them and is run again | what is attested is what the page says |

### Not modelled (see also `PROJECT.json`)

* *The shared database connection* (`src/lib/db/connection.ts`, `src/lib/tokens/read/database.ts`): `begin`,
  statements and `commit` are separate calls on a one-connection pool. Every model relies on the code's own
  premise (`db/connection.ts:56-62`, "A serverless instance serves one request at a time") that the statements of two
  requests do not mix there. A model of the pool without the premise would say that no transaction of the program is
  whole, which says nothing of any component.
* *News ingestion*: one transaction with `on conflict do nothing` on every key. Overlapping or repeated runs cannot
  disturb one another, and a run that fails leaves nothing.
* *Pure decisions on rows read once*: access gates, onboarding state, rights and publication predicates, status
  presentation and the watchdogs that report it, open weight and market share. They keep no state; what they read is what the modelled components write.
* *Numerical derivations*: UGAI (weights capped and renormalised, levels chained), UAVI, transmission headroom, grid
  build-out, flexible capacity, compute economics, and the arithmetic of the modelled pipelines. Their properties are
  about real numbers, which TLC does not have; what is modelled is which rows they are given.
* *Parsers*: workbooks, PDFs, pricing pages and JSON of each source. The models start from what was read.
* *Thin I/O, presentation and text*: sign-in forms, contact form, analytics events in the browser, facilities
  and map, documents catalogue, pages, operator scripts that call the above, migrations integrity.

### How the modelled components interact

```
 reader's request ──► resolveUrdaisAccount ──► identity.accounts ◄── key share ── webhook transaction
        │                                            ▲   │ on delete: cascade / set null        ▲
        └► deletion attempt ── lease ──► identity.account_deletions ◄── for share ──────────────┤
              │  cancels, re-lists            ▲ held at auth_deleted                            │
              ▼                               └── daily sweep ──► PostHog                       │
            Stripe ── events (any order, any number of times) ───────────────────────────────► handler
              ▲─────────────── authoritative re-fetch ──────────────────────────────────────────┘

 vercel.json's crons ──► UTVI, UMPI, UEPI, UCPI, UBWI, queues, frontier ──► their own append-only tables ──► pages
 an operator's commands ──► backfills, publisher reports, planning checks, token verification ──┘
```

The pipelines share no table and no lock with one another: UMPI and the queues lock by a key of their own, the others
not at all. What meets is two runs of one pipeline, or a run and what a dead one left. The frontier reads the prices
that token verification writes (`PriceRecorded` in its model).

## 2. Modules

| Module | Models | Extends / instantiates |
| --- | --- | --- |
| `Subscriptions` | Stripe's statuses and the three decisions taken on one; `StripeMoves`, what Stripe may do on its own | |
| `DeletionWorkflow` | the promise of a deletion: six stages, each tied to its effect | |
| `AccountDeletion` | requests, attempts, sweeps and the rows they share | `Subscriptions`; instantiates `DeletionWorkflow` |
| `BillingEvents` | webhook handlers, reconciliations, the ledger, the rows | `Subscriptions` |
| `AccountLifecycle` | the two on one set of variables, with the row locks each takes and the events the deletion's cancellations cause | instantiates both |
| `Checkout` | first checkouts, the Customer's claim, Sessions, the account an event is resolved to | |
| `PublishedSeries` | what one date of a published series promises | |
| `UtviPublication` | one date of UTVI | instantiates `PublishedSeries` |
| `UmpiOperations`, `UepiSchedule`, `UcpiDaily`, `QueueRefresh` | the daily runs | |
| `UbwiNumerator`, `UbwiDaily` | the retrieval of the numerator; the daily point | |
| `PublisherIngest`, `PlanningFreshness` | reports filed by operators; whether the forecast served is the latest | |
| `FrontierCapability`, `TokenVerification` | the capability run; the verification of one provider's prices | |
| `AccountDeletionProof`, `BillingEventsProof` | theorems of the module named and their proofs | that module, `TLAPS` |
| `AccountLifecycleProof` | theorems of `AccountLifecycle`, with those of the deletion carried over | that module, `TLAPS`; instantiates `AccountDeletionProof` |
| `SourceSeriesProof` | theorems of series read from sources | `UmpiOperations`, `UepiSchedule`, `TLAPS` |
| `PublishedIndexProof` | theorems of the published token and compute indices | `UtviPublication`, `UcpiDaily`, `TLAPS` |
| `IngestProof` | theorems of what runs and commands read into the tables | `FrontierCapability`, `TokenVerification`, `PublisherIngest`, `TLAPS` |
| `ReportsProof` | theorems of the forecasts, the wealth index and the queues | `PlanningFreshness`, `UbwiDaily`, `UbwiNumerator`, `QueueRefresh`, `TLAPS` |
| `MCAccountDeletion`, `MCBillingEvents`, `MCAccountLifecycle`, `MCUtviPublication` | model values, Stripe moves and symmetry for TLC | |
| `MCComponents` | the pipelines, the commands and checkout on small instances, one of them moving in each behaviour | all of those |
| `ComponentsProof` | theorems of `Checkout`, and of `MCComponents` from those of the components | `MCComponents`, `SourceSeriesProof`, `PublishedIndexProof`, `IngestProof`, `ReportsProof` |

### AccountDeletion

*State.* `rec` is the table of deletion records, in the order they are opened: stage,
account id, whether it names a Customer, lease. `account` is the identity's account row (its id, so that a
recreated account is told from the deleted one), `customer` the Customer row and whether Stripe still has the
Customer, `stripe` Stripe's subscriptions, `entitlement` the account's access. `req[p]` is one HTTP request:
where it is and its *copy* of the record, taken when it got the lease (`advance(sql, leased)` never re-reads);
`swp[c]` is one invocation of the cron. `late` and `erased` are history: subscriptions created after Stripe
was seen clear, and account ids whose erasure was accepted.

*Atomicity.* One SQL statement is one step (READ COMMITTED). A transaction with no network call in it
(`markBillingTerminated`, `removeLocalAccount`) is one step: its first write locks the row the
others would need. Every call to Stripe, Supabase or PostHog is a step. Between any two steps the process may die
(`Abandon`, `SweepDies`), the call may fail (`StageFails`, `SweepHolds`) with or without having had its effect,
and the lease may lapse (`LeaseExpires`) whether or not its holder still runs.

*Actions* are named for the functions: `ReadInFlight`, `SelectAccount` / `CheckInFlight` / `UpsertAccount`
(the three statements of `resolveUrdaisAccount`), `ReadMapping`, `OpenDeletion`, `AcquireLease`,
`ListSubscriptions` / `CancelOne` / `RelistVerdict` (`terminateBilling`), `MarkBillingTerminated`,
`DetachCustomer`, `RemoveLocalAccount`, `DeleteAuthUser`, `MarkAuthDeleted`, `Finish`, `ReleaseLease`;
`SweepSelect` to `SweepRelease` for the cron; and the environment: `ClaimCustomer`, `StripeMove`,
`CustomerGone`, `EntitlementWritten`.

*Abstracted.* Time: two minutes and one hour become "later". Typed confirmation and recent sign-in become the
request's intent. Error codes, e-mail, livemode checks, metadata. An unavailable Stripe or a misconfiguration is a
failing step.

### BillingEvents

*State.* `events` is what Stripe has emitted, each dated by the second; `ledger`, `stored`,
`entitlement` and `reference` are the rows; `worker` is each handler or reconciliation with its snapshot. The
transaction of `applySubscriptionEvent` is two steps. `Begin` is `begin`, the claim, and the reads of the
account and its deletion; a second claim of the same id waits (`ClaimFree`), as the insert on a primary key
does. `Commit` is the guarded upsert, the entitlement write and the commit: the upsert locks the subscription
row until commit, so nothing can come between its comparison and its write. A failure rolls back, claim
included. `Fetch` is apart from both: the snapshot may be arbitrarily old when it is written.

*Abstracted.* Prices, periods, amounts. A reconciliation's id is `(subscription, status)`; its period end does
not change within the bound.

### AccountLifecycle

Joins the two: `DeletionStep` is any deletion step that moreover waits for the locks the handlers hold
(`WaitsForLocks`), detaches history when the account goes (`LeavesHistory`), and emits an event for every
subscription it cancels; `BeginEvent` is a handler's `Begin` with what it finds in the account and the
deletion rows. `shares[w]` are the deletion rows handler `w` holds `for share`: empty when it looked before a
row existed. `EntitlementWritten` of `AccountDeletion` is replaced by the handlers themselves;
`ImplementsDeletion` checks that they do no more than it allows. `payer` is the account that Checkout wrote into the
metadata of the Customer's subscriptions (`NamesPayer`): an event finds an account (`Exists`) only if that one is there,
and an account provisioned after its deletion is another.

### Checkout

`customers` are Stripe's, in the order created, each for an account; `mapping` is the account's row; `checkout[p]` a
request between its statements. `ClaimCustomerId` is the insert that does nothing on conflict, `ReadBack` what follows
when it did nothing. `SessionMoves` and `EventArrives` are Stripe's: a Session is paid or lapses when it likes, and an
event of it is resolved to an account by its metadata and Customer (`AccountOf`). Prices, modes and the portal are abstracted.

### UtviPublication, PublishedSeries

One date. `snapshots`, `calculations`, `publications` are the three tables, as sequences: an index and a trigger keep
the live row the last. `utviRun[r]` is a run with what it has read. `Confirm`, `Settle`, `Supersede` are the three
outcomes of applying the rows; `ReadEvidence`, `LookUp`, `RecordCalculation`, `ReadStanding`, `Publish` the
statements after. The source changes its mind (`SourceMoves`), the settlement lag passes (`DayCloses`), and any run may die
(`RunDies`). A total is a number per content. `PublishedSeries` is what a reader may rely on of any series: a value
appears once, and a new revision is either another value or the same one moved onto live evidence.

### UmpiOperations

The agencies' tables and the calendar move; `TakeLock` to `RecordCheck` are a run. `RunSource` is one series' window,
each new figure the next vintage of its month; `Derive` publishes what no longer rests on the newest vintage, and only if
something was inserted; `RecordCheck` compares months. A run may die anywhere; its session, and its lock, go with it.
A figure in `Levelless` is stored and gives no level (`HasLevel`): the month is passed over, as `derivePoints` does, whatever point
it has, and is no predecessor to measure a change against. A series that is not `based` is `blocked`: it is
stored and checked, and nothing is derived. Whether it is based is chosen at the start and stays; the months of the base year
lie before those followed, and no check reads them again.

### UepiSchedule

`uepiRun[r]` holds the market, the day, the attempt, and both database clients: the one the run was given and the one
the loop opened after losing it. `Look`, `Fetch`, `Store` are one day; `StoreRetries` is the reconnection,
`StoreRefused` a day that is withheld; `Report` compares the window with what was released.

### UcpiDaily

A run calculates yesterday for each instrument (`CalculateDate`, the transaction; `PublishPoint`, the release), then
collects today (`Request`, `Receive`, `StoreRead`). Prices are whole numbers and levels doubled, so that the median of
an even number of prices is one; who participates, when a change may be stated and when an
input from outside the window blocks the release are as in the code. Midnight may pass between any two statements.

### UbwiNumerator, UbwiDaily

The first is one retrieval while both chains move: two heights that must agree, a price round pinned at one block of
the primary and confirmed by a secondary that may lag; one source may be a `liar`, answering anything its type allows. The
second is the run: `CheckDay`, `LoadDenominator`, `LoadNumerator`, `InsertVintage`, `InsertObservation`, `CommitLoad` (one
transaction, whose reads see what others committed), `LookUpRatio`, `RecordRatio`, `Gate`, `Freeze`, and
`Converge` when the index refuses the point.

### QueueRefresh

Sources in their order, each with an archive of artifacts (a period, and what it says of the request followed).
`Discover` selects the newest within the source's limit; `Persist` files the earliest period left and extends or
supersedes the request's latest observation; `Defer` is an artifact that cannot be read; `Calculate` is refused while a
published source is not current (`IsCurrent`, of `Publishable`: SPP is calculated over and does not hold the gate). `checks[s]` is
whether the last check reached the source; `recent[s]` whether what its limit is about is within it: the last contact
with a continuous publisher, the date of the latest snapshot of any other. `GrowsOld` is that limit passing; a check that
stored or matched a snapshot makes a continuous source recent (`RecordSourceCheck`), and only a snapshot that is newly
filed and not itself old makes a dated one so (`DatedOf`). One flag stands for both ages of `assessFreshness`: a snapshot's date
is not later than the contact that stored it, so of a dated source the age of the data is the greater.

### PublisherIngest, PlanningFreshness

The first is one report's vintage: `FileRetrieval` (the evidence, keyed by bytes), `FindVintage`, `CreateVintage`,
`LoadLive`, `PersistExtraction` (the plan of inserts and supersessions, refused whole by the index and the trigger when
another run moved). The code walks the records once; `PlanOf` says what the walk keeps (the first record of each identity
that differs from what stands) and what it refuses. The second has no writer but checks and ingestions: `Currentness` is the derivation, translated
entire, over releases held and checks recorded. `FetchDocuments` is one look. Three publishers list their releases; a listing
that cannot be read fails the check. ISO New England's workbooks are probed one by one (`Probed`): a connection that fails
fails the check, any status but 200 counts as a workbook that is not there, and the check succeeds with the newest
of the others. `whole` is whether no probe was refused; it is in the check's evidence, and no reader consults it.

### FrontierCapability, TokenVerification

The capability run statement by statement: `RecordRetrieval` files the bundle `succeeded`, `ApplyObservation` is the
transaction of one row, `UpsertLinks` and `RefreshPriceSelections` follow. `before` and `overtaken` give the order by
start date that `lastBundle` depends on; `alone` and `appliedAlone` are history. The command of token verification is three
transactions: `PersistCatalog`, `FreezeBenchmarks`, `RecordAttestation`; a value is the two price rows it is blended of.

## 3. Runs

| Run | Question | Instance | Distinct states |
| --- | --- | --- | --- |
| `deletion_safety` | do overlapping, dying, stale attempts keep the deletion's order? | 2 requests, 1 sweep, 2 subscriptions, 2 records, 2 accounts, analytics on | 576 k |
| `deletion_settles` | are held records settled, and no id forgotten early? | 1 request, 2 sweeps, 1 subscription, 2 records | 8 k |
| `billing_ordered` | duplicated, reordered, failing deliveries | 2 handlers, 1 subscription, 4 events in distinct seconds | 37 k |
| `billing_free` | do row and access ever come apart? | 1 handler, 1 reconciliation, 2 subscriptions, events sharing seconds | 1.8 M |
| `lifecycle` | a deletion beside billing events, with their locks; an account provisioned after it | two instances: 1 handler and 1 reconciliation, one request at a time; 1 handler and 2 requests, 2 accounts | 1.2 M |
| `components` | do the pipelines, the commands and checkout keep their promises, and do the runs that follow recover? | twenty-three scales, below | 530 k |
| `deletion_rebilled`, `deletion_resume`, `billing_reconcile`, `billing_two_subs`, `late_grant`, `utvi_hole` | six statements of the documents that the code does not keep (section 6) | the smallest instance that shows each | |

What the properties say (each is stated at its definition, with the code it is about):

* `RemovalFollowsBilling`, `VerdictBeforeTermination`: the two invariants of the header of `deletion.ts`,
  as what no step of any attempt may do and as what a recorded stage guarantees.
* `StagesNeverRegress`, `TerminatedOnlyIfConfirmed`: what `where state = <previous>` and the confirmation are for.
* `ImplementsWorkflow`: the first record of the identity is a behaviour of `DeletionWorkflow`, in which the account
  goes in the step that records it gone, the sign-in before the record of it, and completion after erasure.
* `ForgottenOnlyOnceErased`, `HeldIsSettled`: the erasure, as safety and as liveness.
* `NoSecondApplication`, `LatestEventSettles`, `EntitlementFollowsReference`, `EventuallyAgrees`: idempotency,
  ordering, atomicity and no lost event.
* `OrdinaryUntilTermination`, `LateGrantSawNoRecord`, `ImplementsDeletion`: the two components together. A deletion merely
  requested withholds nothing, one past that gives nothing back, with the exception the locks leave.
* `NothingForDeletedAccount`: nor does an event of a deleted account reach one provisioned in its place.
* `SessionsOnMappedCustomer`, `AccessIsOwn` (Checkout): one Customer, whoever won the race; access by one's own purchase.
* `SettlementAgrees`, `ImplementsSeries`, `SettledOrphanIsRepointed` (UTVI): a final point rests on a final
  snapshot; the publications of a date are a behaviour of `PublishedSeries`; a point whose evidence was superseded
  is moved onto live evidence by the runs that follow, once source and deaths are over.
* `PointsRestOnCurrentVintages`, `HealthyMeansServed`, `LockIsFreed` (UMPI): a revision regenerates every point of a
  month with a level that it touches, in a series with its base; a month whose vintages all gave a level and that has no
  point is reported; no dead run keeps later ones out.
* `ReleasedIsFinal`, `EveryDayAccountedFor`, `WholeDayIsReleased` (UEPI): what was released on a fresh read stays;
  a report names every day of every window; a day that becomes whole within the window is released.
* `PointsRestOnReads`, `ChangeIsAgainstReleased`, `CoveredIsCalculated` (UCPI): by date, across midnight, failures
  and overlapping runs.
* `ObservationIsReal`, `PointsAreOfTheirDay`, `AnsweredWithAPoint` (UBWI): one liar of four changes nothing; one
  point a day, of an observation of it; a run that answers with a point has one to show.
* `ReadInOrderStaysInOrder`, `SelectedIsCovered` (queues): read in the order of periods, what a request says
  follows them; what is in reach gets into the metrics, unless a published publisher has gone quiet past its limit.
* `RestatesOnlyChanges` (reports), `CurrentIsTheLatest` (planning): overlapping commands restate only what changed;
  "current" was so within the interval a check supports, if every document of that check was answered.
* `UnchangedIsServed`, `SettledBundleIsLive` (frontier), `AttestedAsRead` (tokens): each says in its statement what
  it excepts, and the exceptions are in section 6.
* `TypesOK` joins the type invariants of the twelve modules.

*Bounds.* Two requests are enough for a stale holder and a current one; a third would only be a second stale
one, and the proofs cover any number. Two records and two accounts let a second deletion, or a recreated account,
meet an attempt left over from the first. Two subscriptions let a cancellation fail for one and succeed for
another. Four events of one subscription let a delivery be overtaken twice; two handlers let one hold a stale
fetch while the other commits. `AccountLifecycle` stops the clock, so that no event is stale there: staleness is
`BillingEvents`' subject. `MCAccountLifecycle` has two instances, of which each behaviour keeps to one: a reconciliation beside requests that
follow one another, for the locks, and two requests at once, without which no account is provisioned beside an unfinished deletion, beside one
handler. Both together exceed what TLC explores in minutes; the proofs cover any number of each.
Symmetry permutes requests and subscriptions, in runs without liveness only. Deadlock checking is off where the
system may rest: a deletion that is complete, on an instance with no further records to open.

`components` has no interleaving between components, which share nothing: its first state chooses the one that moves, and the
others stay where they start. `Scales` names twenty-three instances: most components have one with a single run that may die or
fail, and one with two overlapping runs and no deaths, so that the product stays small; `MCComponents` states each restriction
beside its next-state relation. UTVI: two source moves, one death, three contents of two totals (a revision of the rows may
leave the total as it was). UMPI: two runs (one once the second month is out), two months, three figures of which one gives no level, a base or none, one revision,
one mishap. UEPI: two markets, a window of two days,
two editions, a dropped connection, two attempts. UCPI: three sellers, two of them of one capacity source, two instruments,
three dates, two reads. Queues: a continuous source, an archive, and an unpublished source whose
state is never current; the archive alone with three artifacts, or the
three with three between the published ones. UBWI: days of two
instants, so that runs straddle midnight. Reports: five artifacts, one with a duplicate row. Planning: two releases, probed for, two checks
of an interval of one; of two that overlap every document is answered. Frontier:
two results, four bundles, one of which lists fewer and one without its licence. Tokens: five pages,
of which two have the same rates and one carries no output rate. A third run would meet what the second does, one step later;
a second death would interrupt the recovery from the first, which is a first death in another state.

*Moves of Stripe.* Each MC module gives `StripeMoves` a set with a status of each kind the code tells apart: entitling,
billable but not entitling, final.

*Fairness.* `deletion_settles`: the cron is scheduled daily (`vercel.json`), hence weak fairness on selecting;
a lease lapses by the clock, hence weak fairness; and strong fairness on leasing, erasing and completing,
which assumes that a provider asked again and again accepts in the end. The document says what an operator does when
it does not. No fairness is assumed of the reader. `billing_ordered`: Stripe delivers an event
until it is answered with success, and a handler of an unprocessed event that is tried again and again
reaches Stripe and the database: strong fairness on delivering, fetching, beginning and committing. Nothing is assumed of reconciliations.
`components`: weak fairness of each run's steps. A run begins again, since `vercel.json` schedules every pipeline with a
liveness property daily; and one that has begun takes its next step unless it dies, which the bounds
on deaths and failures make the exception. Nothing is assumed of sources, of agencies, or of an operator: checkout, UBWI,
reports, planning checks and tokens have safety properties only. UBWI is scheduled too, but a day's sources may all fail, and the
code back-fills no gap.

*Mutants.* Every property of a passing run has a mutant in `PROJECT.json`, a definition changed as a
plausible bug would change the code, under which TLC finds the property violated. They are the definitions
commented `MUTANT of`.

## 4. Proofs

Each theorem holds for every value of the constants that its module's assumption admits (bounds are naturals, a
"none" is not a member, ...); TLC evaluates the assumptions in the runs.

| Module | Theorem | States |
| --- | --- | --- |
| `AccountDeletionProof` | `TypeCorrect` | `Spec => []TypeOK` |
| | `VerdictHolds` | `Spec => []VerdictBeforeTermination` |
| | `StagesAdvance` | `Spec => StagesNeverRegress` |
| | `ConfirmedOnly` | `Spec => TerminatedOnlyIfConfirmed` |
| | `RemovalAfterBilling` | `Spec => RemovalFollowsBilling` |
| | `ForgottenIsErased` | `Spec => ForgottenOnlyOnceErased` |
| | `StrandedHarmless` | `Spec => []StrandedIsCleaned`: what a deletion nobody can resume has behind it |
| | `FollowsWorkflow` | `Spec => ImplementsWorkflow`: the refinement to `DeletionWorkflow` |
| `AccountLifecycleProof` | `DeletionImplemented` | `Spec => ImplementsDeletion`: the refinement to `AccountDeletion` |
| | `DeletedStaysDeleted`, `AccessIsOrdinary` | `[]NothingForDeletedAccount`, `[]OrdinaryUntilTermination` |
| | `LateGrantsSawNoRecord` | `LateGrantSawNoRecord` |
| `BillingEventsProof` | `BillingTypeCorrect` | the type invariant |
| | `AppliedOnce` | `NoSecondApplication` |
| | `AccessFollowsItsRow` | `EntitlementFollowsReference`, reconciliations included |
| | `LatestDecides` | `LatestEventSettles`, for events of distinct seconds and no reconciliation |
| | `ProcessedMeansStored` | `[](Quiet => StoredAgrees)`, under the same two hypotheses |
| | `PaidIsGranted` | `[]PaidMeansGranted` and `[](Quiet => AccessAgrees)`, for one subscription besides |
| `ComponentsProof` | `CheckoutTypeCorrect`, `OneCustomer`, `OnlyOwnAccess` | checkout: the type invariant, `SessionsOnMappedCustomer`, `AccessIsOwn` |
| | `EachIsItsComponent` | a behaviour of `MCComponents` is one of each of its twelve components |
| | `ComponentsTypeCorrect` | `MCSpec => []TypesOK` |
| `PublishedIndexProof` | `UtviTypeCorrect`, `RowsAgree` | UTVI: the type invariant, `SettlementAgrees` |
| | `PublicationsAreASeries` | `ImplementsSeries`: the refinement to `PublishedSeries` |
| | `OnlyDeathsLeaveHoles` | `[]HoleNeedsADeath`: without a death, no run at work and rows stored, a value is published |
| | `UcpiTypeCorrect`, `PointsAreRead`, `ChangesAreAgainstReleases` | UCPI: the type invariant, `PointsRestOnReads`, `ChangeIsAgainstReleased` |
| | `OnlyFailuresWithhold` | `[]AllDueIsReleased`: without a failure, no run releasing, every point that may be released is |
| `SourceSeriesProof` | `UmpiTypeCorrect`, `HolderWorks`, `ServedBetweenRuns`, `HealthyIsServed` | UMPI: the type invariant, `OnlyHolderWorks`, `PointsRestOnCurrentVintages`, `HealthyMeansServed` |
| | `UepiTypeCorrect`, `NothingSuperseded`, `NoDayLeftOut` | UEPI: the type invariant, `ReleasedIsFinal`, `EveryDayAccountedFor` |
| `IngestProof` | `FrontierTypeCorrect`, `UnchangedMeansServed` | frontier: the type invariant, `UnchangedIsServed` |
| | `TokenTypeCorrect`, `AttestedMeansRead` | tokens: the type invariant, `AttestedAsRead` |
| | `PublisherTypeCorrect`, `OnlyChangesRestated` | reports: the type invariant, `RestatesOnlyChanges` |
| `ReportsProof` | `FreshnessTypeCorrect`, `CurrentWhenChecked` | planning: the type invariant, `CurrentIsTheLatest` |
| | `UbwiTypeCorrect`, `PointsAreReal`, `AnswersAreOfPoints` | UBWI's day: the type invariant, `PointsAreOfTheirDay`, `AnsweredWithAPoint` |
| | `NumeratorTypeCorrect`, `ObservationsAreReal` | UBWI's numerator: the type invariant, `ObservationIsReal` |
| | `QueueTypeCorrect`, `ReadInOrder` | queues: the type invariant, `ReadInOrderStaysInOrder` |

### AccountDeletionProof

For any sets of requests, sweeps and subscriptions, any bounds and any `StripeMoves` that respect the final statuses
(`DeletionAssumption`, `StripeMovesAssumption`).

*The inductive invariant.* None of these is inductive: they speak of the records, and what an attempt does to a
record depends on its copy. `IInv` adds what a copy is still good for (`RequestInv`): whichever stage the
record has moved on to, the copy's Customer is the record's; its account is the record's until the cleanup, and
after it is never the identity's present account, so that a stale cleanup cannot delete a recreated one; an
attempt's place in the code implies a stage the record has at least reached; and whoever works on a record
still `requested` carried the confirmation. `RecordInv` says what a stage guarantees of the rows. The rest are
`TypeOK`, that account ids are handed out in order, that a deleted Customer has nothing billable, and that one
record at most is in flight. TLC checked `IInv` as an invariant on the instance of `deletion_safety` before it was proved.

*The argument.* Any step changes the facts about other actors only through the shared rows. `RecordsMove` and
`WorldMoves` say how rows may move (a stage goes one forward, identifiers stay until completion, the account is
replaced only by a new id), and the lemmas `KeptRequest` and `KeptRecord` that every such move keeps everybody
else's facts. So each action has a lemma that shows only that the rows move so and that its own actor's facts hold
after it. `StepInv` collects them. The action properties follow from `IInv` by sorting the steps into those that
change no stage (`QuietStep`) and the five that do.

*A stranded deletion.* `UnfinishedCanResume` fails (section 6), and `StrandedIsCleaned` bounds what is lost: the sign-in goes only in an attempt past
the cleanup (`SignInInv`), and one record is in flight, so that a record left without a sign-in has its billing ended and its account removed; the
erasure or the closing of the record is what is missing. Once one deletion is complete, an attempt begun before may open another record, for
which nothing is claimed.

*Erasure.* A sweep works on the account its lease returned, which the record may have forgotten since. `ErasureInv` says that what
a sweep is about to erase, or has had erased, is its record's account still, or that another sweep has completed the record, and then
the account is erased (`SweepCopyInv`); and that a record that is complete names nobody.

*The refinement.* `DeletionWorkflow` speaks of one account, the model of several records: the first record is the one mapped.
`FirstRecordInv` says that until it is opened no account has been deleted, so that it is of the first one, and that a record
opened later for that account, by a request that had found it before it was deleted, finds it deleted and erased already. Each step is
then the workflow's step of that stage, one of its effects, or a stutter.

### AccountLifecycleProof

For any requests, accounts, records, handlers, reconciliations, subscriptions and events (`LifecycleAssumption`). What the
composition adds to the deletion is `LockInv`: a transaction that found the account holds its key, so that account is there till the
commit (`FoundBy`); and one that may grant has found every deletion row it shares at `requested`, where the share keeps them. So a
handler's write, seen from the deletion, is `EntitlementWritten`, which needs the account to exist, and
every other step of a handler is a stutter or a move of Stripe. That is `DeletionImplemented`; through it every theorem of
`AccountDeletionProof` holds of the composition.

*The account an event names.* `PayerInv` says which account the metadata means: the Customer's, whoever the Customer is now detached
from, and one whose id was handed out. Ids are handed out in order, so an account removed stays gone, and the one provisioned in its place is
not the payer (`GoneForGood`). With `LockInv` that makes `HistoryInv`, of which `NothingForDeletedAccount` is the visible part, inductive: rows
are detached in the step that removes the account, and a handler that commits after it has not found the account.

*Access before termination.* `OrdinaryInv` is nearly the property, and needs to know that an event which wrote no access wrote none for a
reason that lasts. A handler that withholds a grant from an account that is there has found a record past `requested` (`FoundBy`), a deletion
that revokes one has moved its record there in the same step (`RevocationIsDecided`), and a record past `requested` stays so
(`DecidedStays`, both of `AccountDeletionProof`): while every record is at `requested`, nobody has withheld or revoked.

### The others

*`BillingEventsProof`.* `BillingInv` adds to the types who holds a claim (`Claimed`: an id is processed or held by one
transaction), how events are numbered, and that access and its row agree: the last is inductive because one transaction writes
both. `LatestInv` adds that later events are of later seconds (`EventsDated`), that a handler works for an event and, if it is
its subscription's last, holds what Stripe holds (`HandlersWork`), and that no row is dated past its latest event and is that
event's once it was processed (`RowsFollow`). `AnnouncedInv` adds that what Stripe holds was announced by an event, and that a row names
an account. `ProcessedMeansStored` follows, the safety half of `EventuallyAgrees`: there is no state, everything being processed, from which
the rows could not be right. Two hypotheses are needed and stated: events of one second are let through in either
order, and a reconciliation writes with a date of its own (section 6).

*`ComponentsProof`.* `CheckoutInv` says of each request which Customer it may hold: one created for its buyer, and from
`session` on the mapped one; the mapping is never changed, so that a Session's Customer stays its buyer's.
A step of `MCComponents` is a step of the one component that moves and leaves the variables of the others alone (`EachIsItsComponent`), whichever
moves: each invariant above is then one of `MCSpec`, and `TypesOK` their conjunction.

*`PublishedIndexProof`.* `UtviInv` ties every row to those before it and every run's copies to rows it saw. The refinement
maps a date's value to the total of the live publication, its revision to their number, `anchored` to
whether its snapshot is the live one; each step of a run is `First`, `Revise`, `Repoint`, `EvidenceMoves` or a stutter. The point of it
is that a publication is decided on rows read earlier: the index on live rows refuses it if another came between.
`HoleInv` follows the date nothing is published of: some run is at the live rows and will have its calculation accepted, or has calculated and will have
its publication accepted, though others supersede and settle beside it; only a death takes that run away.
`UcpiInv` says that points and the copies runs hold of one rest on reads of their date and on releases of
the date before (`Founded`, `Holds`), and that a point is released by the one run that wrote it (`OneReleases`);
until it is, that run is there, unless something failed (`DuesInv`).

*`SourceSeriesProof`.* `UmpiInv` is the type, `HoldsLock` (only the holder of the lock is inside) and `ServedIsCurrent` (while
nothing has failed, only the series of a run about to derive it may rest on older vintages). Between runs nobody holds the lock, and
`PointsRestOnCurrentVintages` follows. The code compares only the newest months, so `HealthyMeansServed` needs to know that nothing older that
always had a level is missing: `MonthsInOrder` says that a month passed by, a later one having been read, is one no check will ask for again (`GapsPassed`), and that
what is observed and not served is later than all that is served (`UnservedLater`).
`UepiInv` says that every day a run has passed is released or in its report (`Accounts`), and that
a day a lone run is at has not been released since it looked (`Spares`), there being one lone run at most (`Solitary`).

*`IngestProof`, frontier.* Retrievals are ordered by when their runs began, and filed in another order. `FrontierInv`
says that of two runs that may still file, one knows the other (`BegunInOrder`); that whoever files overtakes those begun before,
so that one filed and not overtaken is the last (`FiledInOrder`); that a run at its rows beside nobody has left what it read, and made
the rest what its bundle says (`AppliesAlone`); and hence that what was applied alone and to its last row is what the
last retrieval states, and nobody is at it (`LastIsServed`).

*Tokens.* An attestation names the frozen value of the latest moment, and three transactions, deaths and reruns lie between the
page and that value. `TokenInv` says that a command beside which nothing was written has all the rows (`Alone`); that where no row
was written beside another command, rows of a rate come in the order of their dates, and later commands' after those a command holds
(`RatesInOrder`); that a frozen value is of the rows that were latest at its moment, one being of that moment (`ValuesAreOfRows`); that what a
command read is filed, or among what it will file (`ReadIsFiled`); and that every point of the series it attests from is frozen
(`PointsAreFrozen`). The step to be shown is that the value found is blended of the rows `ReadIsFiled` names: the value picked is the
latest, a moment at which a row was filed is a point unless the blend stood still, and then the earlier value is the same
(`PointBetween`). A first statement of `AttestedAsRead` did not survive the attempt; section 6 says what it had missed.

*Reports.* `PublisherInv` says that an identity has one live row and that what supersedes a row is of its identity (`OneLive`), and that
a row a run has loaded is of the identity it was loaded for, which later commits do not change (`ValueShapes`). What a commit does is
proved in three steps about operators: which records a plan inserts (`PlanInserts`), what their supersession makes of the rows
(`RestatedRows`), and that rows the index and the trigger accept have one live row of each identity after as before (`OneLiveStays`).
`RestatesOnlyChanges` is then read off the record that differs.

*`ReportsProof`.* *Planning*: a check is dated when it starts and found what it found later. `FreshnessInv` says of every look and every
recorded check, when no document was refused, that whoever found release v at t had read at least all that was
released before t (`Saw`), which neither the duration of a look nor
the order of records disturbs. *UBWI's day*: `UbwiInv` says of each run what the rows it holds an id of are (`HasObserved`, `HasLoaded`,
`HasRatio`, `HasPassed`, `HasLost`), stated over the tables as parameters, so that one lemma shows that appending rows keeps
every other run's facts (`GoesOnFrom`). *The numerator*: `NumeratorInv` follows what is known at each step of a retrieval beside a
liar: a height two sources agree on was a tip since the first was asked (`Tip`), as they cannot both be the liar; a round the
second endpoint confirmed is real (`IsReal`). *Queues*: `QueueInv` gives the lock's holder the walk; `ReadForward` says that histories are in order
(`HistoryGoesForward`) and that what a run has yet to read, or the next would select, is filed if it is before the last artifact filed
(`NoneSkipped`): a limit that cuts off the oldest artifacts never leaves one between two filed.

*Assumptions.* Each module's `ASSUME` says no more than the code: bounds are naturals, a limit of reads or of attempts is at least one,
the list of sources or markets is not empty, published values are positive, and Stripe's final statuses are final. One Customer of Stripe
per identity is a restriction of `AccountDeletion` and of the composition, not an assumption; `Checkout` is about several. `LatestEventSettles` holds of runs
whose constants give events distinct seconds and no reconciliation, which its statement says.

*Only model-checked.* Liveness, which is out of the prover's reach (`HeldIsSettled`, `EventuallyAgrees`,
`SettledOrphanIsRepointed`, `LockIsFreed`, `WholeDayIsReleased`, `SelectedIsCovered`, `CoveredIsCalculated`,
`SettledBundleIsLive`); of `EventuallyAgrees` the safety half is proved (`ProcessedMeansStored`, `PaidIsGranted`).
The six counterexamples of section 6 are TLC's alone, as a counterexample needs no proof.

## 5. Plan

Done: the modules of section 2 and the proofs of section 4. What remains worth doing, in order:

1. *Proofs*: every safety property the runs check has a theorem. What a proof could add is how far the exceptions reach: that each
   clause a property excepts (`again`, `beside`, `NoLateCorrection`, a stale read) is needed, as section 6 shows for the six; and the safety half of the other liveness properties, as `ProcessedMeansStored` is that of
   `EventuallyAgrees`.
2. *Components with a durable trail that resemble a modelled one*: EIA-930 demand, grid build-out, transmission headroom
   (`PublisherIngest`'s design with other tables).
3. *Algorithms* against reference definitions on bounded inputs: UGAI's weight cap in whole units, the Pareto front, UEPI's day
   completeness.

## 6. Where the code and its documents disagree

Each of the six is a run that TLC ends with a counterexample, and a finding in `PROJECT.json` with the quotation and the trace.

1. `deletion_rebilled`: a deletion that stalls at `requested` before the reader's first checkout does not know
   the Customer the checkout creates; its next attempt records "Stripe can no longer bill" without asking Stripe.
2. `deletion_resume`: if the process dies after the Auth user is deleted and before that is recorded, "the session
   still works" is not so, and neither the reader nor the cron can finish; an operator must set the state. Billing has ended and the account is
   gone by then (`StrandedHarmless`).
3. `billing_reconcile`: a reconciliation is dated when it writes, not when it asked, so one that asked before the
   subscription ended can "resurrect stale access after a `deleted`".
4. `billing_two_subs`: an event of a lapsed subscription revokes the access another, paid, subscription gives.
   With one subscription it cannot be (`PaidIsGranted`).
5. `late_grant`: `for share` locks no row when there is none yet, so "a grant can never land after that
   revocation" holds only if the deletion was opened before the handler looked. `LateGrantSawNoRecord` shows that
   this is the only way.
6. `utvi_hole`: a run that dies between the calculation and the first publication of a date leaves a hole no later run fills:
   the evidence of a date nothing is published of counts as live, and the caller has no other check.
   It takes a death: overlapping runs leave no hole (`OnlyDeathsLeaveHoles`).

Further disagreements met while modelling, with no run of their own; the models behave as the code does, and the
properties say what they except.

*Billing and accounts.* While a deletion is unfinished, "`resolveUrdaisAccount` refuses to provision a new account"
(`docs/architecture/account-deletion.md:165`), but its check and its insert are two statements (`auth/accounts.ts:149-150`): a request that passed the
check before the identity had an account inserts a second one after another request has had the first provisioned and deleted. The `lifecycle` run
has this behaviour, and `NothingForDeletedAccount` shows that nothing of the first account reaches the second. A same-second pair of events: `>=` in the upsert lets either win (`billing/store.ts:196`). A reconciliation
answers `entitled` from its own snapshot though its write was stale (`reconcile.ts:131`), and its ledger id repeats
when a state recurs (`reconcile.ts:58`). The refusal of entitled readers guards only checkouts begun after the grant.

*UTVI.* A provisional calculation reused after settlement is refused by the database's check at every later run
(`utvi/run.ts:184-187`); `docs/methodology/utvi.md:237-238` has provisional points published again as final.

*UMPI.* A figure revised from A to B and back to A is not a new vintage, so B stays (`umpi/ingest/store.ts:198-207`). A run that
dies between ingestion and publication of a revision is not repaired, and freshness says `fresh` (`ops/run.ts:196-199` against
`docs/operations/umpi-operations.md:97-106`); `HealthyMeansServed` is about months never published, which are reported.
A month that has a point and is revised to a value that gives no level keeps that point, on the superseded vintage, for good
(`umpi/derive/points.ts:101-115` skips the month; `umpi-operations.md` has "the affected publication is regenerated"):
`PointsRestOnCurrentVintages` is about months that have a level. A month stored without a level stays unpublished in a
series that is healthy once a later month is published (`points.test.ts:166-174`), and if a revision gives it a level that a failed
derivation then does not publish, no check says so: `HealthyMeansServed` excepts the months that ever had none. A
derivation that is `blocked`, unlike one that fails, is no failure of the check (`ops/run.ts:202-208`): the missing points show only in the
freshness state.

*UEPI.* The new connection is opened for the market's loop only, so later markets and the ledger use a dead client
(`app/api/cron/uepi/route.ts:68`). A revision of a released day is read by no path (`scheduled-run.ts:34-38`, `backfill.ts:157-170`); an
overlapping run that read before it may still supersede with the older edition, which `ReleasedIsFinal` excepts.

*UCPI.* A run that ends between the calculation's transaction and its release leaves a point no rerun releases: it is
"already_calculated" (`daily-run.ts:224-225`). `OnlyFailuresWithhold` shows that it takes such an end. A read that straddles midnight blocks the date's release
(`publication-gate.ts:70-72`). `database-persistence.ts:228-229` calls a retrieval that returned nothing coverage; the SQL needs an observation.

*UBWI.* No index keeps vintages, observations or calculations of one identity from being filed twice by overlapping runs
(`ubwi/run.ts:42-47` says one each); a run reused across midnight answers with the other day's point; gaps are not back-filled.

*Queues.* A correction of an earlier period filed after a newer one becomes the latest observation
(`interconnection-queue/ingest/store.ts:277-282`): `ReadInOrderStaysInOrder` excepts it. A live source that reverts to
byte-identical content is taken as already filed. A dated publisher that puts out nothing past its limit closes the gate on
all markets until it does, however well it answers (`operations/scheduled-run.ts:222-238`; the tests at `scheduled-run.test.ts:366-375` and `456-467`
have it so): `SelectedIsCovered` asks nothing while a published source has lapsed so. Ages are not numbers in the model, and
nothing grows old while a run is at work: the limits are days, a run is minutes, and ages are read at its end.

*Reports.* A duplicate row is refused only if the first created the row in the same run; otherwise the second silently
supersedes it and the artifact can then not be read twice (`capacity/ingest/store.ts:7-8`, `611-615`). Overlapping runs of two editions may
leave a mixture; an older artifact read again supersedes newer values.

*Planning.* "A probe that cannot be reached is not the same as a probe that returned 404" (`planning/freshness/run.ts:71-73`), and
"a 404 is a definite answer" (`discovery/isone.ts:8-9`); but only a connection that fails is caught, and `isone.ts:43` keeps the probes
answered 200: a 503, 403 or 429 of the newest workbook is read as its absence, the check is recorded `succeeded`, and the
release before it is called current. `CurrentIsTheLatest` therefore speaks of checks all of whose documents were answered; without that
condition TLC finds it violated in the same run. A release of a year past the candidates is not probed for either (`isone.ts:31-34`).

*Frontier.* A retrieval is filed `succeeded` before its rows are applied, so a run that dies in between is answered
"unchanged" until the source moves or an operator forces it, while heartbeats stay healthy (`frontier/store.ts:57` calls it "the last bundle
successfully ingested"): this is what `UnchangedIsServed` and `SettledBundleIsLive` except. A model whose price became ambiguous keeps
its stale selection (`frontier/run.ts:254-256` says it must not).

*Tokens.* A page that reverts to bytes already retained is not read again, so an attestation may name that page with
the value of the one between (`verify-production.ts:79`); a page that no longer carries a rate is attested at the old one.
Two overlapping commands may file two observations of one moment, so that a second value of a moment already frozen is frozen; a later
command, alone, then attests to either, since `activeBenchmarkFor` orders by the moment and then by a random id (`verify-production.ts:245-249`;
line 82 has "what is verified is what will publish"). A proof attempt of `AttestedAsRead` met this with four reviews, more than the run has; the
property therefore also excepts a catalogue one of whose observations was filed beside another command.

The dates of reviews increase in the model. `--verified-at` (`scripts/tokens/verify-production.ts:82`) lets an operator give an earlier one, so that the
rows and values of such a run are not the latest of their tables: a backdated run is outside the model and outside `AttestedAsRead`.

## 7. Hazards without a property

`analytics-erasure.ts:129` (fifty records always refused starve the rest: the bound on records hides it), `auth/accounts.ts:149` (the
provisioning race is modelled, and its outcomes are those the deletion's properties allow) and `tokens/read/database.ts:123`
(the shared connection; section 1). The others are in `PROJECT.json`, each with the properties that would catch it.
