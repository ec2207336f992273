# FPDS in TLA+

A verification development for FPDS, the financial product data system in this
repository. FPDS collects product pages of banks, extracts and validates product
facts, publishes the accepted ones as canonical products, and serves them to a
public comparison site. The parts with most to lose from an unlucky order of
events are modelled here as state machines, checked with TLC on small instances,
and the central results are proved with TLAPS for every instance.

    tlc -workers 2 -config catalog_scenarios.cfg MCCatalogCollection.tla
    tlapm CatalogCollectionProofs.tla

Sources are named relative to `src/`; `api_service/` is
`api/service/api_service/`.

## 1. The system

### 1.1 Processes

One API process (`uvicorn --workers 1`, whose handlers are `async def` with
synchronous bodies, so that one request runs at a time in it) serves
administrators and the public. Everything that takes long runs in processes it
launches and does not wait for:

* the *catalog collection runner* (one process per collection request), which
  runs the worker stages as child processes, each with a timeout, and each
  writing to the database through a `psql` child of its own;
* the *aggregate refresh runner*, one at a time under a PostgreSQL advisory lock;
* command-line tools, such as `python -m api_service.run_retry` and
  `candidate_safety_remediation`, which run the same code as the API does.

They share nothing but the database. Interleavings are therefore those of
transactions of different processes, and of reads whose results are used by a
later transaction.

### 1.2 Components

| component (code) | state | what is hard | what makes it correct | module |
|---|---|---|---|---|
| preparation reservation (`catalog_preparation.py`) | `collection_preparation` in the metadata of a catalog item | conditional updates of many processes; a two-hour lease without a fencing token | at most one holder unless the lease aged out; nobody writes another's reservation | `CatalogCollection` |
| catalog collection request and edits (`source_catalog.py`) | run rows, plan file, the catalog item | reads before writes; commit before launch; the whole metadata is written back | a reserved item has a run; a registered run ends | `CatalogCollection` |
| collection runner (`source_catalog_collection_runner.py`) | the plan's groups, run and preparation rows | partial failure, best-effort handlers, death | run and preparation agree; an ended run stays ended | `CatalogCollection` |
| run retry (`run_retry.py`) | `retry_of_run_id`, `retried_by_run_id` | unlocked read, link written minutes later | links are mutual and written once; no live run is superseded | `CatalogCollection`, `SourceCollection` |
| source discovery (`source_catalog.py`) | `source_registry_item` | a long transaction that probes the network between reading and writing, beside an administrator's removal | a removed source stays out; a run starts with active sources | `SourceRegistry` |
| source collection (`source_registry.py`, `source_collection_runner.py`, the worker's stages) | run row, snapshots, parsed documents, candidates | stages overwrite the run row; a psql outlives its runner; runs share snapshots | a clean run is complete; research loses no evidence | `SourceCollection` |
| promotion, retraction, supersession (`candidate_auto_promotion.py`, `review_detail.py`, `candidate_safety_remediation.py`) | candidates, review tasks, canonical products and versions | `SKIP LOCKED` beside `FOR UPDATE`, reads before locks, unique keys, deadlocks | one current version per product; what is served was approved | `CandidatePublication` |
| refresh queue (`aggregate_refresh.py`) | `aggregate_refresh_request` | look-then-insert; a dead runner's batch | completed means covered; healthy means fresh | `AggregateRefresh` |
| refresh runner and snapshot (`aggregate_refresh_runner.py`, `worker/pipeline/fpds_aggregate_refresh`) | advisory lock, claimed batch, `aggregate_refresh_run` | lock lost with its session; wake-up lost at release; late commits | the served list never goes back | `AggregateRefresh`, `PublicProjection` |
| projection cache (`public_projection_cache.py`) | entries, loads in flight | single flight, expiry, eviction, under threads | one load per key, nothing old served, nobody waits for ever | `ProjectionCache` |
| accounts, sessions, signup, countries (`auth.py`, `country_catalog.py`, `main.py`) | accounts, sessions, signup requests, countries | checks before writes, `FOR UPDATE` in unequal orders | a closed session stays closed; a country stays active | `AdminAccess` |
| AI verification, correction, onboarding | model call records | provider failures | every call record ends | – |
| product types, banks, feedback, engagement | registry rows, counters | single transactions | – | – |
| read models, audit (`run_status.py`, `llm_usage.py`, ...) | none | – | – | – |
| extraction, normalization, native parsers (`worker/`) | stage artefacts | text heuristics | – | – |
| web applications (`app/`), migrations, scripts | – | – | – | – |

`PROJECT.json` lists every component with its status, every hazard with the
line where it bites, and, for every definition that translates code, the lines
it translates.

## 2. The modules

### 2.1 CatalogCollection

A request is an element of `Ops` (the `collection_id`); the run it registers for
item `i` is `<<op, i>>`. State, and what it stands for:

| variable | code |
|---|---|
| `active`, `coverage` | `status = 'active'` and the `preparation_signature` of a catalog item |
| `prep` | its `collection_preparation`: operation, status, signature, retryable, and whether `updated_at` is within two hours |
| `run` | `ingestion_run`: state, partial flag, run type, `source_scope_count > 0`, the two retry links |
| `plan` | the request between its transactions, and then the plan file of its runner |
| `runner` | where the background process is, and the groups it still has to do |
| `editor` | `update_source_catalog_item` between its SELECT and its UPDATE |
| `orphans` | runs that a detached psql may still write |
| `used`, `adrift`, `expired`, `overwritten` | bounds, and history variables the properties refer to |

Actions, in the order of the code: `ReadScope` and `ReadRetry` (SELECT and
preflight), `RegisterRuns` (reservations, run rows, one commit), `Launch` or
`LaunchFails`; then the runner's `NextGroup`, the first claim (`ClaimLost`,
`ClaimStale`, `ClaimHolds`), discovery ending in `SkipGroup`, `RetireScope`,
`EnterRefused` or `EnterCollection` (second claim, upsert of the run, link of
the retried run: one transaction), the stages (`StageWrites`, `CollectEnds`,
`CollectFails`), `Settle`, and main's handlers (`GroupFails`, `FailPrep`,
`FailRun`, `ClosePrep`), each a transaction of its own which may be lost. The
environment edits items and banks, lets a lease age, kills the request or the
runner, and lets an orphaned psql commit.

Abstractions. The signature is a value that is only compared. What discovery
finds is a free choice among its outcomes (enough detail sources, none, retired,
repaired route, exception). A route repair commits with the transaction that
ends discovery, as it does in the code. Stages are one action that may write any
outcome a stage can write, any number of times, which covers every order of
them. Time is only "two hours have passed since the last write of this
reservation".

### 2.2 AggregateRefresh and PublicProjection

Operations are numbered, and the number orders `requested_at` and
`last_changed_at`; operations commit in any order. An operation is a promotion,
a retraction or a manual retry. `Promote` commits products and request together;
the other two look for a pending request (`Ask`) and commit later (`CommitAsk`).
A runner takes the lock or exits (`TryLock`), claims (`Claim`, the oldest
request's whole country, started batches included), goes through
`EnsureRefreshRun`, `LoadRows`, `BuildSnapshot`, `PersistResult`, ends its batch
(`CompleteBatch`, `FailBatch`), and when nothing is left `ReleaseLock`. Runners
may be killed (`Killed`, with a `LateCommit` of the psql they leave behind), or
lose the connection that holds the lock (`ConnectionLost`) and notice at the end
of the batch (`FindsConnectionLost`).

A snapshot's content is the set of operations whose change the loaded products
show. `Served`, `LastRefreshFailed`, `HealthyOrStale` translate the query of the
public pages and the dashboard. A psql that reports failure is taken not to have
committed. Which of healthy and stale a country is called depends on
`source_change_cutoff_at`, which leaves out incomplete products, and is not
modelled.

`PublicProjection` is the abstract specification of the refresh: the list of a
country only grows towards its canonical products, and what is reported as
refreshed is in it. `AggregateRefresh` implements it under the mapping
`canonical <- changes`, `public <- ServedContent`,
`reported <- promotions whose request is completed`.

### 2.3 SourceRegistry

The registry of one catalog item. `row` is `source_registry_item`: status and
role of each page. A discovery (`Discoveries`) is one long transaction of a
runner's group: `Begin`, `Generate` (what the site brings), `SelectStale` and
`Exclude` (rows that go inactive), `Upsert`, `Settle` (which pages a run would
collect), `Probe` and `Prepare` (it looks again, repairs the starting page, or
gives up), `Start` (run and registry commit together), or `Fails`. What it
writes is in `work[d].rows` until then and locked for others. `ReadSource` and
`Remove` are the administrator's `delete_source_registry_item`, a SELECT and an
UPDATE with a condition of its own. `holder` is the last discovery that claimed
the item; a second one may take over while the first still works.

Which pages a discovery finds, rejects or cannot reach is a free choice: the
scoring is text heuristics. The API refuses to create or edit a source
(`main.py` 687, 720), so that removal is an administrator's only operation. Rows
of the seed list are those whose identifier does not begin with `AUTO-`. Plans
without preflight, which no caller builds any more, are left out.

### 2.4 SourceCollection

One run of one request for selected sources. `Register` and `CommitRequest` (or
`AbortRequest`) are the request, which launches the runner before it commits;
`Begin` and `Persist` are a stage's read of the database and its single write;
in between pages change, other runs write, the stage fails (`StageFails`), times
out (`StageTimesOut`, and its psql may still commit: `LateWrite`), or the runner
dies. `late` holds the stages that go on although they were given up; `tainted`, a
history the properties refer to, the sources whose item a stage of a research
round may have left without its document. `Acquire` and `ResearchEnds` are the research rounds after the first pass,
`Summarize`, `Promote` and `MarkFailed` the end of the run. A snapshot is known
by its content, because its identifier is computed from it.

`Promote` decides any part of the run's accepted candidates: the query locks with
`SKIP LOCKED` and a LIMIT of 1000, so one that the promotion CLI holds at that
moment is passed over, and the run still ends normally with the candidate
`auto_validated`. `CleanRunIsComplete` therefore asks for validated candidates and
not for decided ones; who decides them is the subject of `CandidatePublication`.

Not modelled: what the promotion CLI does to a candidate that a run has passed
over, the deduplication of byte-identical targets, research budgets
other than the number of rounds, which fields and pages research wants (a free
choice), and the pinning of the process version.

### 2.5 CandidatePublication

Candidates of one country, bank, family and type, numbered in the order of
`created_at`. A run normalizes, validates, supersedes older reviews, and
promotes its accepted candidates in one transaction; the promotion CLI does so
over all runs, a retraction withdraws candidates and the products they are the
current version of. A transaction (`tx`) keeps the candidates it has locked
(`held`), the products it has written (`rows`) and the states it will write
(`decided`) to itself until `Commit`: `Load` (candidates that are free,
`FOR UPDATE SKIP LOCKED`), `RefuseUnchanged`, `Refuse`, `Find` (the current
product, by page or by name), `Write` (a version, computed from the version
found), `Supersede`; `ReadRows` (before any lock), `LockRow`, `Retract`;
`UniqueViolation` and `DeadlockVictim` roll back.

Which gate refuses a candidate is a free choice. Candidates without an accuracy
receipt (they are left as they are) and the LIMIT of 1000 candidates, which holds
for the CLI and for a run's own promotion alike, are not modelled: what
`AcceptedIsDecided` says of a run is said of one with at most 1000 accepted
candidates.
Reviewers' decisions have no caller left: the API refuses them, and the queue is
read-only.

### 2.6 ProjectionCache

Every request is a thread. `Begin` finds the snapshot completed last;
`LookInWhole` looks for the whole list when one product is wanted; `LoadHit`,
`LoadJoin` and `LoadOwn` are the look inside `load`, under the cache's lock;
`Query` (or `QueryFails`), `Store`, `Resolve` or `Reject`, and `Cleanup` are the
load; `Await` is the waiting thread. `entries` is the `OrderedDict` as a
sequence, the entry used last at its end: `Without` drops a key, `Evicted` makes
room.
`Publish` and `Tick` are the environment. Rows are known by their snapshot and
the moment they were read.

### 2.7 AdminAccess

Logins, switches of the country, logouts, activation and deactivation of
countries, signups and their review. An action is one statement, or a few of one
transaction that nothing can come between; the rows it takes `FOR UPDATE` are in
`countryLock` and `sessionLock` until the request ends. A session is resolved in
a transaction of its own (`Resolve`) before the request's. `DeadlockVictim` is
PostgreSQL's answer to a cycle of waits. Within one API process the handlers
exclude each other; what is interleaved here are requests of several API
processes on one database. Passwords, roles, lockouts, timeouts and the audit
trail are not modelled: a refused login is rolled back and leaves nothing.

### 2.8 MC modules

Each `MC` module gives its instance (numbered operations and candidates),
symmetry where elements are interchangeable, and a state constraint named
`Scenarios` (or `Settling`). A constraint is a disjunction of situations, each
of which is explored as far as the bounds go; what it leaves out is a
combination of several rare events, named in the table below. Symmetry is used
in runs without liveness only. The MC modules define nothing else.

## 3. The runs

| run | instance | checks | states | what it shows |
|---|---|---|---|---|
| `catalog_scenarios` | 3 requests, 1 item, 2 signatures; a fault, an edit and an expiry, in three scenarios: two requests and an edit or an expiry; three requests without disturbance, or two with a fault, retries of retries among them; three first attempts and an expiry | `TypeOK`, `RetryLinkSound`, `SkipMatchesRun`, `ReservationExclusive`, `RetriedAttemptIsOver`, `BusyPreparationHasRun`, `NoResurrection` | 299 k | reservations, runs and links agree in every order |
| `catalog_settle` | 2 requests, 2 items, 1 fault, fair | `RunsSettle` | 30 k | every run ends unless its process or its last write was lost |
| `refresh_covered` | 2 operations, 2 countries, 1 fault, 1 drop | `TypeOK`, `CompletedIsCovered`, `HolderDrains` | 375 k | batches of dead runners, two runners after a lost lock |
| `refresh_projection` | 3 promotions or retractions, 1 country, 1 fault | `HealthyMeansFresh`, `ImplementsProjection` | 1.68 M | refinement; failures before and after successes |
| `refresh_lost_wakeup` | 2 promotions, no fault | `QueuedIsRefreshed` (violated) | 2.2 k | a queued request nobody is woken for |
| `registry` | 2 spellings of one address, one a seed; 2 discoveries, 1 removal, 1 takeover | `TypeOK`, `RemovedStaysOut`, `LeavesForAReason`, `CollectedIsActive` | 450 k | a removal beside a discovery, and a discovery taken over |
| `collection` | 2 runs, a page that changes twice, 2 faults; or 3 runs, two of them retries | `ReplacedRunIsOver`, `RetryLinkSound`, `OneSnapshotPerRun` | 733 k | retries race, runs share snapshots |
| `collection_research` | 1 run, a target, a supporting page and a companion, 2 rounds, 1 fault, fair | `TypeOK`, `CleanRunIsComplete`, `ResearchKeepsEvidence`, `RunsSettle` | 439 k | research that fails half-way |
| `collection_snapshot` | 3 runs, a page that changes twice | `ParsesOwnSnapshot` (violated) | 5.2 k | a run parses another run's snapshot |
| `publication` | 4 candidates (one former, two of one run, one of another), 2 pages, 2 names, the CLI, a retraction of up to two | `TypeOK`, `OneCurrentVersion`, `ServedIsApproved`, `WithdrawnByRetraction`, `AcceptedIsDecided`, `SupersededByApproval` | 567 k | promotions and retractions that read before others write |
| `cache` | 3 requests, a product and the whole list, 2 snapshots, 2 ticks, 2 entries | `TypeOK`, `OneLoadPerKey`, `PublicationSeenAtOnce`, `ServedRowsAreRecent`, `RequestsEnd` | 316 k | shared loads, expiry and eviction under threads |
| `access` | 3 requests about accounts, or 2 about countries and sessions; 2 countries, 2 sessions, 1 login | `TypeOK`, `LastCountryStays`, `SignupsAgree`, `ClosedSessionStays`, `RequestsEnd` | 52 k | checks before writes, and locks in unequal orders |

Why the bounds are enough for the hazards. A lost exclusion needs two requests
and one disturbance; a chain of retries needs an original, its replacement and a
competitor, hence three requests; a waiting group needs two items. A batch that
is taken over needs a dead runner, a second one, and a request that came in
between, and a wrong completion needs a second country or a second request. A
broken chain of versions needs two promotions that find the same version; a
product that is served unapproved needs a promotion and a retraction that read
before it; a wrong supersession needs two candidates of one run that share a
page and differ in name, or the reverse, and an older review. Eviction needs
three keys for two entries. In `access` a third country would let `LockOther`
skip one that is inactive; with two it never does.

Faults are bounded because each property names its excuse per run, runner or
transaction; the proofs of section 5 need no bound. Every bound is a constant
named `Max...`, besides the sets. Deadlock is not checked: the system may stop
when all requests are done; that nobody waits for ever is said by the liveness
properties and, among locks, by the deadlock actions.

In `publication` a retraction meets both runs only when the former candidate is
already published and all candidates share a page or a name; with the CLI one
run takes part and all share both. In `refresh_covered` two countries are
combined with faults, not with lost connections; in `cache` expiry and
publication come together with two requests.

Every property of a passing run has a mutant in its module, an operator named
after the mistake (`PrepWrittenByAnyone`, `CompleteAllPending`, ...), listed in
`PROJECT.json`.

### Fairness

`CatalogCollection!FairSpec`: a request that has registered its runs goes on to
launch, fails, or dies (it is straight-line code of one handler); a runner keeps
taking steps of its own (it is a sequential loop, every stage has a timeout).
Nothing makes a request start, a retry happen, or a lease expire, and no single
outcome is fair. `AggregateRefresh!FairSpec`: a runner and a pending commit
make progress; a launch that is due happens (or fails). `SourceCollection!FairSpec`:
the request's handler goes on to its commit, and a runner to its next step.
`ProjectionCache!FairSpec`: every thread goes on; waiting has no fairness of its
own, it ends when the shared future does. `AdminAccess!FairSpec`: every request
goes on when it is not blocked, and some victim of a deadlock is chosen
(PostgreSQL's detector runs after `deadlock_timeout`). Nothing else is fair.

### Disagreements found

* `refresh_lost_wakeup`: a runner without the lock exits
  (`aggregate_refresh_runner.py` 21) while the holder is past its last look at
  the queue, so that a queued request waits for the next launch, against
  decision D-018 (`decision-log.md` 167).
* `collection_snapshot`: parsing reads the latest snapshot of a page, whoever
  captured it (`fpds_parse_chunk/persistence.py` 162), so that a run may extract
  from a page it did not capture, against `worker/README.md` 479–480.

Observations that the properties state as their excuses, without a document that
says otherwise:

* a catalog edit writes back the whole metadata it read and may erase a
  reservation made in between (`ReservationExclusive`, `overwritten`);
* a retraction that finds a pending request queues none, though a runner may have
  loaded the products already (`HealthyMeansFresh` speaks of promotions);
* a retraction reads which product a candidate is current in before it locks
  anything, and a promotion that commits in between keeps its product
  (`ServedIsApproved`);
* two promotions that find no product for one name each create one;
* a discovery holds row locks while it probes pages over the network, and an
  administrator's removal waits for it, in a handler that blocks its event loop.

## 4. What is only model-checked

* Liveness (`RunsSettle` of both collections, `HolderDrains`, `RequestsEnd` of
  the cache and of the accounts): the prover has no rules for fairness of these
  shapes, nor for ENABLED.
* The two properties of the runs that expect a violation, which the runs refute.

Every invariant and every action property of a passing run is proved.
`RetryLinkWriteOnce` of `CatalogCollection` is the one property that is proved
and not run.

## 5. What is proved

Each theorem holds for every value of the constants that satisfies the ASSUMEs
of its module: any number of requests, runs, candidates, sources, countries and
bounds. Every action is taken once, and its proof has one step for each part of
the invariant it can disturb; lemmas say once what the actions of one process
have in common.

### 5.1 CatalogCollectionProofs

| theorem | property |
|---|---|
| `TypesHold` | `Spec => []TypeOK` |
| `ReservationsExclusive` | `Spec => []ReservationExclusive` |
| `RetriedAttemptsAreOver` | `Spec => []RetriedAttemptIsOver` |
| `RetryLinksSound` | `Spec => []RetryLinkSound` |
| `RetryLinksWrittenOnce` | `Spec => RetryLinkWriteOnce` |
| `EndedRunsStayEnded` | `Spec => NoResurrection` |
| `BusyPreparationsHaveRuns` | `Spec => []BusyPreparationHasRun` |
| `SkipsMatchRuns` | `Spec => []SkipMatchesRun` |

Four inductive invariants carry them.

`Shape` is the types with the facts about program counters without which no step
is typed: a runner that is inside a group has an item, and it is no longer in
its list (`RunnerHasItem`, `ItemTaken`); an editor between its statements holds
a well-formed row; a busy preparation has an owner (`BusyHasOwner`).

`LeaseInv` adds that a runner exists only after its request has ended its launch
(`RunnerFollowsRequest`) and that whoever holds an item is the owner its row
names, with a fresh lease and a busy status, or is in `expired` or
`overwritten` (`HoldsLease`). Two holders of one row cannot both be its owner,
which is `ReservationExclusive`. The step that needs care is `RegisterRuns`: it
takes the row from another operation only if the row is not busy (so nobody
holds it) or stale (so its holder is in `expired`).

`LifeInv` follows a run through its life: no row before the request registers it
(`NoRunYet`), a started, unscoped catalog run while it waits or prepares
(`WaitingRunIsFresh`), a scoped one of a live runner while it collects, which
looks retryable only with a worker's run type (`CollectingRunIsLive`), and the
target of a retry was over when the retry read it and stays so
(`RetryTargetIsOver`). The last is the heart: the retry reads without a lock and
links minutes later, and nothing but the fact that "over" is stable (`OverKept`)
makes that safe. The type of a run matters because stages move a collecting run
through failed and completed-and-partial; only `kind = "worker"` keeps it from
being retried then.

`RecordsInv` adds what the item says of its runs. `BusyPreparationHasRun` and
`SkipMatchesRun` are about the row as it is, but an edit writes back the whole
metadata it read, so what holds of the row must hold of every copy an editor
carries (`RecordsSound`). A skipped or retryable outcome stays true because a run that is
over is written by two things only, its supersession and a stage whose runner
died (`OrphansAreScoped`: such a stage belongs to a run that collected, and no
outcome speaks of those), and a preparation that is under way has the run that
its runner's program counter calls for (`PhaseFitsRun`).

Assumptions: the named ASSUMEs of the module; none bounds the number of
requests, items, edits, faults or expiries.

### 5.2 AggregateRefreshProofs and AggregateRefinementProofs

| theorem | property |
|---|---|
| `RefreshTyped` | `Spec => []TypeOK` |
| `CompletedRequestsAreCovered` | `Spec => []CompletedIsCovered` |
| `HealthyCountriesAreFresh` | `MaxDrops = 0` and `Spec => []HealthyMeansFresh` |
| `RefreshImplementsProjection` | `MaxDrops = 0` and `Spec => ImplementsProjection` |

The invariant of the first two, `IInv`, needs no assumption on failures. An
operation that is not over has no request yet (`OperationsBeforeRequests`), a
request in the table has its change committed (`PromotionsCommitted`), a batch
is of one country (`BatchesOfCountry`), a runner's snapshot is its own until it
is completed (`SnapshotsOwned`), what a runner has loaded covers its batch
(`LoadsCoverBatches`: it loads after it claims, and what is claimed is
committed), and what a dead runner's psql may still write belongs to no runner
(`LateBelongsToNobody`).

The other two hold while no runner loses the connection that holds its lock;
TLC refutes them otherwise, since two runners may then publish in the wrong
order. `LockInv` says that whoever is inside holds the lock (`HolderHasLock`)
and owns started requests; `VersionInv` that snapshots are completed in the
order in which they were loaded (`Ordered`, `BuiltBefore`, `LoadedLast`), and
that what is not completed can only be completed as the newest; `FailureInv`
follows a failed request until a later snapshot shows its promotion, which is
what the health of a country reports. The refinement takes each action to a step
of `PublicProjection` or to a stutter: `PersistResult` and `LateCommit` publish,
`CompleteBatch` reports, a commit of products extends the canonical ones.

### 5.3 CandidatePublicationProofs

| theorem | property |
|---|---|
| `PublicationTyped` | `Spec => []TypeOK` |
| `VersionsFormOneChain` | `Spec => []OneCurrentVersion` |
| `ServedProductsAreApproved` | `Spec => []ServedIsApproved` |
| `OnlyRetractionsWithdraw` | `Spec => []WithdrawnByRetraction` |
| `AcceptedCandidatesAreDecided` | `Spec => []AcceptedIsDecided` |
| `SupersededForApproved` | `Spec => SupersededByApproval` |

The transactions of this module read without locks, lock some rows and skip
others, and commit all at once; the invariant `IInv` says what each has a right
to believe until then. Candidates are held by one transaction (`HeldByOne`) and
product rows written by one (`WrittenByOne`). A promotion has decided only what
it holds, and what it decided as stale has a newer approved candidate of the same
page (`Promotions`, `StaleFor`); a row it writes extends the committed one by
versions of candidates it approves (`RowShapes`), no candidate is in two rows
(`OneRow`, `OneProduct`), and the version number it read is within the row it
will find (`Bases`). That is what makes the chain survive a promotion computed
from a version that has been superseded since: either the row is as it was
found, or its next number exists and the unique key refuses it. A retraction may
find that the product it read has moved on (`Reads`, `NotServing`); what it then
misses is recorded (`Missed`), and `ServedIsApproved` allows exactly that.
`AcceptedIsTaken` says that an accepted candidate its run's promotion has passed
over is in other hands.

Assumptions: `CandidatesAssumption` (finitely many candidates, numbered by
positive naturals), `RunsAssumption`, `TransactionsAssumption` (runs, CLI calls
and retractions are different things), `BoundAssumption`, `TextAssumption` and
`NoneAssumption`.
The order in which a promotion handles its candidates (`InOrder`, a CHOOSE of
an ascending enumeration) exists by induction on the number of candidates; the
library's induction theorem takes an operator, so `WFMin` states the least
counterexample and `Sortable` uses it.

### 5.4 SourceRegistryProofs

| theorem | property |
|---|---|
| `Typed` | `Spec => []TypeOK` |
| `RemovedSourcesStayOut` | `Spec => RemovedStaysOut` |
| `SourcesLeaveForAReason` | `Spec => LeavesForAReason` |
| `CollectedSourcesAreActive` | `Spec => CollectedIsActive` |

Two discoveries never write one row (`LocksExclude`). Within a discovery
(`Sound`), every row it deactivates was turned down or is replaced context, the
rows it holds are of the sources it found, and the targets of a run are active
details among them (`TargetsSound`); a removal that commits in between meets the
row lock, or is found by the statement's own condition.

### 5.5 AdminAccessProofs

| theorem | property |
|---|---|
| `AccessTyped` | `Spec => []TypeOK` |
| `OneCountryStaysActive` | `Spec => []LastCountryStays` |
| `AccountsAgreeWithSignups` | `Spec => []SignupsAgree` |
| `ClosedSessionsStayClosed` | `Spec => ClosedSessionStays` |

A deactivation that reaches its UPDATE holds the country it deactivates and
another that is active, both locked (`DeactivationHoldsCountries`), so that of
two that meet one waits and looks again. A switch holds its session when it
writes it (`SwitchHoldsSession`), and a request leaves a session or a signup of
its own only when it ends (`RowsOfEnded`). `Asked` says which fields a request
of each kind has filled in.

### 5.6 ProjectionCacheProofs

| theorem | property |
|---|---|
| `OneLoadAtATime` | `Spec => []OneLoadPerKey` |
| `CacheTyped` | `Spec => []TypeOK` |
| `PublicationIsSeen` | `Spec => []PublicationSeenAtOnce` |
| `ServedRowsAreYoung` | `Spec => []ServedRowsAreRecent` |

`FlightInv` says that whoever loads a key is the one named in flight for it
(`LoadersInFlight`), which is single flight. `CacheInv` says what may be
believed of rows before they are served. An entry holds rows of the snapshot in
its key, and its deadline is at most a time to live and a load after they were
read (`EntrySound`): the time to live starts when the load ends. A future that
is resolved answers its owner's request, with rows read after the owner looked
(`Answers`); a request that waits has asked for the same key, and looked at most
a load after the owner (`WaitOK`), which is why rows joined late are not older
than rows that were hit. The lemmas about `Without`, `Append` and `Evicted` say
what the two operations of the `OrderedDict` keep: each key once, never more
than the limit, and nothing but sound entries.

Assumption: `SizeAssumption`. A time to live of zero is excluded: nothing is
then cached, a load of no length reads and looks at one instant, and
`ServedRowsAreRecent`, which is strict, fails. The code's default is 60 seconds.

### 5.7 SourceCollectionProofs

| theorem | property |
|---|---|
| `CollectionTypesCorrect` | `Spec => []TypeOK` |
| `RetriesReplaceEndedRuns` | `Spec => []ReplacedRunIsOver` |
| `RetryLinksAreSound` | `Spec => []RetryLinkSound` |
| `EvidenceIsOfOnePiece` | `Spec => []OneSnapshotPerRun` |
| `ResearchCostsNoEvidence` | `Spec => []ResearchKeepsEvidence` |
| `CleanRunsAreComplete` | `Spec => []CleanRunIsComplete` |

Three inductive invariants, each with the one before it. `Shape` is the types,
with what makes a step typed: some content was captured last (`LatestExists`),
and a stage under way has read something of every source it works on, targets
only where the stage is about targets (`WorkTyped`).

`RetryInv` is about rows and links. A runner that has begun is past its request,
and its row says `source_collection` again only when the runner marks it failed;
until then a stage's name stands there, and a retry turns such rows down
(`RowOfRunner`). So a row that a retry would take belongs to a run that is over,
and so does the original of every retry whose request is still open
(`RetryOver`), although the retry read it without a lock and links it later.
Nothing is known of a run before it is registered (`NotYet`).

`EvidenceInv` is about what the stages leave behind. A stage that was given up
may still write: one of a research round works on tainted sources only, and any
other is the last its runner began (`LateFits`). What a run has of a
source comes from the content it selected, and no later artifact exists before
an earlier one (`OnePiece`, `InOrder`); what a stage under way has read is what
is there when it writes (`Fits`), which is what a stale stage could break.
Research keeps what was parsed (`KeepsEvidence`), and a run that has lost nothing
so far is complete up to its present stage, at the end with every target
validated (`CompleteSoFar`). Each part is an
operator of one run's data, so that the lemmas about a write (`StepKeepsPiece`,
`PersistKeepsPiece`, `LateKeepsPiece`, ...) speak of data before and after it, and
the lemmas about actions only say who writes what.

The proof attempt changed the model once. Stages given up by a runner used to be
remembered one at a time, and a runner that died forgot which sources its late
stages might still touch. With two faults and a round of research,
`OneSnapshotPerRun` is then false in the model: a second late stage writes to a
source nothing accounts for. `late` is now a set, and its sources stay tainted
when the runner dies.

## 6. What is left

Where the code is a set of text heuristics (extraction, normalization, the
merging of supporting pages, accuracy verdicts, scoring of links), the models
keep its place in the order of transactions and make its outcome a free choice.
Those files are most of the repository's lines; a state machine says nothing
about them that a table of examples does not say better.

Not modelled, though they keep state: `collection_ai_autopilot`,
`ai_verification`, `review_ai_correction` and `bank_ai_onboarding` (records of
model calls that are started and ended by one handler), banks and product types,
and feedback. `fpds_apply_data_retention()` (migration 0040, 109-125) fails the
runs that have been started for more than twelve hours; nothing in the tree calls
it or its wrapper `data_retention.py` but a test and the policy document, so it is
a task of the operator and not a step of the models. One hazard has no property: a login or a switch looks whether a
country is active before the deactivation commits, and opens a session in it
afterwards (`auth.py` 377); the code relies on the next request's check.

In order of importance:

1. Abstract specifications for more of the components, as `PublicProjection` is
   one for the refresh: a catalog of versioned products that
   `CandidatePublication` implements, and a store of whole snapshots that
   `ProjectionCache` reads through.
2. A module of the model-call records, with provider failures and retries.
