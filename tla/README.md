# LLM cost control: a TLA+ verification development

The system meters what callers of a language-model gateway spend.  Before a
request the gateway asks the tracker whether the caller has budget left; after
it, the gateway reports the tokens used, and the tracker prices them, adds the
cost to the caller's running spend for the month and appends one audit row.
This directory models that system in TLA+, checks it with TLC on small
instances and proves its central properties with TLAPS.

Paths below are relative to the repository; `UserBudgetGrain.cs:140` stands for
that line of `src/LLMCostControl.Grains/Implementations/UserBudgetGrain.cs`.

## 1. The system

| Component | State | Operations | Interacts with |
|---|---|---|---|
| **User budget grain** (`Grains/Implementations/UserBudgetGrain.cs`, `State/UserBudgetGrainState.cs`) | persisted: period, running spend; in memory: that state and its etag, cached budget and its load time | `CheckBudgetAsync`, `CaptureUsageAsync`; rollover at the start of both | API calls it; calls pricing grain, budget store, usage store, grain storage |
| **Grain storage** (`docker/postgres/orleans-persistence.sql`) | one versioned row per grain | `writetostorage`: update if the version matches, insert if there is no row | called by Orleans for the grain |
| **Usage ledger** (`Infrastructure/Repositories/UsageEventRepository.cs`, `Domain/Usage/UsageEvent.cs`) | table `usage_events`, key `EventId` | `AppendAsync` (exists, then insert), `GetByIdAsync`, `GetForCallerAsync` | called by the grain |
| **Budget resolution** (`BudgetResolutionRepository.cs`, `EffectiveBudget.cs`, the group, membership, group budget and override repositories) | tables of groups, memberships, group budgets, overrides | `ResolveAsync`, upserts, deletes | called by the grain; edited by administrators |
| **Pricing grain and cache** (`PricingGrain.cs`, `Storage/PricingCache.cs`) | per silo: model → price, load time | `GetPricingAsync`; `Get`, `RefreshAsync`, `Remove` | called by the budget grain; reads `model_pricing` |
| **Pricing refresh job** (`Infrastructure/Pricing/PricingRefreshJob.cs`, `ModelPricingRepository.cs`) | last fetch per provider, run guard; table `model_pricing` | `RefreshDueAdaptersAsync`, `RefreshAllAsync`, `ReplaceProviderPricingAsync` | adapters, database, pricing stream (no one subscribes) |
| **Adapters** (`Infrastructure/Pricing/Adapters`) | none | fetch, fall back to the stored rows, marked as stale | providers over HTTP, database |
| **Pricing file and validator** (`PricingFile.cs`, `PricingFileValidator.cs`) | none | validate, convert | refresh job, adapters |
| **Periods, caller ids, money** (`Domain/Common`) | none | `FromDate`, `Next`, `Previous`, `From`, arithmetic | everything |
| **API** (`Tracker.Api/Program.cs`) | none | `POST /api/budget/check`, `POST /api/usage/capture` | the gateway; the budget grain |
| **Admin application** (`Admin.App/Components/Layout/*.razor.js`) | in the browser: reconnection dialog, its listener, calls under way; the menu's checkbox | react to the circuit's events, retry, resume, reload; toggle | Blazor's client, the browser, the user |
| Authentication, observability, database context | configuration | – | – |

### What is hard here

* **An accrual and its audit row are two writes.** The spend is stored at
  `UserBudgetGrain.cs:140`, the row at line 163, with a budget look-up between
  them, and a retry is recognised by the row.  Everything that fails in
  between matters: a crash, a lost acknowledgement, a retry, the end of the month.
* **Memory outlives a failed call.** An exception leaves `_storage.State`
  changed in memory; the next successful write stores it.
* **Two activations of one grain.** Orleans may run two for a while (a split
  brain); only the version check in `writetostorage` separates them.
* **Time.** The period is derived from the clock several times in one call; the
  cached budget has an age but no period; silos have clocks of their own.
* **A context that outlives its use.** The refresh job keeps one `DbContext`; what a
  failed `SaveChanges` leaves in its change tracker takes part in every later one.
* **Reads before writes in the database.** `ResolveAsync` asks three times, an upsert
  reads and saves later, `writetostorage` looks for a row and inserts one: whatever
  commits in between counts.
* **A page whose server is gone.** Retries, resumptions, Blazor's own reconnection and
  the user overlap, and each of them opens, closes or abandons the page.
* **Caches.** The budget (per activation) and the prices (per silo) are stale by
  design; the question is by how much.

### What makes each component correct

* *Budget grain*: the spend of a period is kept; every audit row is covered by it
  and no two rows account for the same part; retries do not charge again; a check
  sees every audited capture; a budget is used for less than the TTL after it was
  replaced; every call ends.
* *Grain storage*: a write takes effect only on top of the version it was
  prepared on; a first insert succeeds once.
* *Ledger*: one row per event id, never changed; it adds up to the spend.
* *Budget resolution*: a budget that stands counts, none is made up, a single edit is
  seen whole; an upsert that returns took effect.
* *Pricing cache*: a price is at most the TTL and one read old; a known model is not
  reported unknown.
* *Admin page*: a page that lost its circuit always has a way back; the dialog covers
  dead pages and no live one; no page is given up that can be resumed.
* *Refresh job*: one run at a time; a failure of one provider leaves the others
  and the old prices alone; a provider is tried again.

## 2. What is modelled

### UserBudgetGrain

The grain with everything around it that can interfere: storage, ledger, clock,
administrators, failures.

| Variable | In the program |
|---|---|
| `now` | the time the `TimeProvider`s show, minus `LagOf[s]` on the silo of slot `s` |
| `effective` | what `ResolveAsync` returns for a caller and a period |
| `stored` | the grain's row in `OrleansStorage`: version, period, spend |
| `usageEvents` | the table `usage_events` |
| `pc` | for each slot, the await the running call is in; `down` without an activation |
| `mem` | `_storage.State` and its etag |
| `cache` | `_cachedBudget`, `_budgetLoadedAt` |
| `call` | the arguments and locals of the running call |
| `reply` | the result the last call of the activation returned |
| `sends`, `changes`, `faults` | counters that bound retries, edits and failures |

History variables and fields, read by properties only: `tally` (how often each
request is contained in a spend), `changes`, the fields `key` and `accruedIn`
of an audit row, `since` of a budget.

A grain is not reentrant, so a call is a sequence of steps cut at its awaits, and
between two of them anything else may happen:

    idle --BeginCall--> [rollover --write--] --+--> budget ... decide --AnswerCheck--> idle
                                               +--> [dedupe] --> price --Accrue--> accrue
         accrue --write--> budget ... decide --CreateEvent--> append --> insert --> idle
         budget: CachedBudget | AskBudget, ResolveBudget, LoadBudget

| Actions | Code |
|---|---|
| `CheckBudget`, `CaptureUsage` (`BeginCall`) | `Program.cs:111-181`; `EnsurePeriodCurrentAsync`, lines 192-204 |
| `AnswerDuplicate`, `NotADuplicate` | lines 106-115 |
| `RejectUnknownModel`, `Accrue` | lines 117-140, `ComputeCost` 168-185 |
| `WriteSucceeds`, `WriteConflicts` | `writetostorage`, `orleans-persistence.sql:19-134` |
| `CachedBudget`, `AskBudget`, `ResolveBudget`, `LoadBudget` | lines 210-223, `BudgetResolutionRepository.cs:25-62` |
| `AnswerCheck` | lines 82-87, 233-273 |
| `CreateEvent`, `RejectEvent` | lines 145-161, `UsageEvent.cs:70-126` |
| `SkipAppend`, `BeginInsert`, `AppendEvent`, `InsertRefused` | line 163, `UsageEventRepository.cs:23-34` and the primary key of the table |
| `Activate`, `Deactivate`, `Crash` | Orleans: state is read on activation and lost with it |
| `CallFails`, `WriteUnacknowledged`, `AppendUnacknowledged` | a call to the database throws before, or after, it took effect |
| `Tick`, `ChangeBudget` | time, administrators |

Abstractions.  Amounts are integers in millionths, so the division by one million
disappears.  Currencies, model names, group ids and budget sources are left out.
Prices a capture may be quoted are a set (`QuotesOf`), which covers a pricing
grain that answers from any state of its cache.  `ResolveAsync` reads its three
tables at one instant; `BudgetResolution` takes it apart.  A write to grain storage is
one atomic compare-and-swap on the version.  `OrleansStorage` shows that the statements of
`writetostorage` come to this as long as one activation at most starts before the grain
has a row; when two do, both may insert one (`two_first_inserts`), and none of what
follows can be relied on.  `FirstWriters` are the activations that may start without a row, and
`OneFirstWriter`, an assumption of the module and a hypothesis of its theorems, allows one
of them for each grain; once the row is there (`HasRow`), any other slot may activate.
A write of a caller that is gone, or was told of a failure, has either been committed by
then or never will be.
A state never written and one that was reset have period numbers -1 and 0, 1, ...
in place of year and month, which keeps the `!=` of line 197.

### UserBudgetLedger, and the SpendLedger it implements

The same system, seen as bookkeeping.  `CostOf` is the sum of the costs of rows, written as
the number of their units, since the provers know the sizes of finite sets and no
recursive sum; an `ASSUME` of `MCUserBudgetGrain` lets TLC compare it with the sum of the
community modules.  `AuditNeverExceedsSpend`, `AuditAccountsForSpend` and
`SpendIsReconstructible` compare such sums with the stored spend.

`SpendLedger` is what the grain promises, without its awaits, versions and stores: an
account for each grain, which only goes forward, and a ledger.  `Charge` begins a period
or puts an amount on top of what has been charged, and may leave its holder with an entry
for the whole amount or a part of it at the top; `MakeEntry` puts that entry in the
ledger; `Forget` is a failure in between.  The refinement mapping (`Ledger`) takes the
account from the stored row, the ledger from `usageEvents`, and the pending entry from a
capture between its accepted write and its row.  `Charge` is a write that is accepted,
acknowledged or not; `MakeEntry` an insert that is committed; the rest of a call is a
stutter.  A charge with no entry is a write whose writer does not hear of it, and one
larger than its entry is a write that also stores what an earlier, failed call had left
in memory.

### PricingCache

The activations of the pricing grains on one silo and the cache they share.  A
look-up is cut at its two locks and its await.

    idle --AnswerFromCache--> idle
    idle --Miss--> read --Read--> store --Store--> reread --AnswerStored|AnswerUnknown--> idle

| Variable | In the program |
|---|---|
| `now` | `DateTimeOffset.UtcNow` |
| `row` | what `model_pricing` holds for a model |
| `entries` | `_entries`: price and load time |
| `pc`, `call` | where a look-up is, and its locals |
| `answer` | what it returned last |
| `inForce`, `changes` | history of the table; counter of its rewrites |

`MaxLatency` bounds the time from the start of a look-up to the arrival of its
answer (connection and command timeouts), `MaxPause` the time from then to the
second `Get`, which follows without an await: `MaxPause <= Ttl` is the one
assumption about time.  `Reprice` is the refresh job's transaction, seen one
model at a time.

### PricingRefresh

The refresh job, the adapters it asks and the repository it writes through.

    idle --RefreshDueAdapters|RefreshAll--> fetch --SkipAdapter--> next adapter
    fetch --FetchLive|FetchFallsBack--> replace --ReplaceSucceeds--> publish --Publish--> next adapter
    fetch, replace --(empty, refused, failed)--> next adapter          after the last adapter: idle

| Variable | In the program |
|---|---|
| `now` | `DateTimeOffset.UtcNow` |
| `table` | the committed rows of `model_pricing`: provider, model, id, stale or not |
| `added`, `modified` | what the change tracker of the job's `DbContext` holds as added and as modified |
| `lastFetch` | `_lastFetchTimes` |
| `pc`, `at`, `forced`, `began`, `entries` | `_isRunning` and the await of the run; the adapter; which of the two entry points; its `now`; the list of the attempt |
| `fetches`, `faults` | counters that bound attempts and failures |
| `result`, `troubled` | history: rows of the last replacement that returned; whether one has thrown |

| Actions | Code |
|---|---|
| `RefreshDueAdapters`, `RefreshAll` | `PricingRefreshJob.cs:63-118`; while a run is under way the calls return, which is no step |
| `SkipAdapter` | lines 77-80, `IsDue` 150-162, `PricingRefreshOptions.cs:39-53` |
| `FetchLive`, `FetchFallsBack`, `FetchFails` | `FetchLiveAsync` of the adapters, `PricingAdapterBase.cs:33-63` |
| `ReplaceSucceeds`, `ReplaceRefused`, `ReplaceFails`, `CommitUnacknowledged` | `ModelPricingRepository.cs:48-62` and the `catch` of the job, line 144 |
| `Publish` | lines 136-137, `OrleansPricingPublisher.cs:27-40`; nothing subscribes to the stream |
| `Tick`, `JobStops` | time; the end of the process and a new one |

Job and adapters are given their repositories by their constructors and live as
long as the process.  No code in `src/` registers them yet; the model takes them to
share one repository and so one `DbContext`, as the tests of the job give it a single
one.  What that context does is the part that is hard to see in the code.
`AddRange` marks rows as added and `ExecuteDelete` passes the tracker by.  `SaveChanges`
inserts and updates everything the tracker holds, from whatever attempt, and empties
it only when it succeeds; an update of a row that is gone throws.  Prices themselves are
left out, and a file is the sequence of models it lists for the provider: valid files
may list a model twice, as `PricingFileValidator` does not look for that.

### OrleansStorage, and the VersionedCell it implements

The rows of one grain and overlapping calls of `writetostorage`, statement by
statement.  `UserBudgetGrain` takes a write as one compare-and-swap on the version;
`VersionedCell` says that, and `ImplementsCell` that the function does it.

    idle --CallWrite--> called --BeginUpdate--> update --LockRow...--> WriteSucceeds | WriteConflicts --> idle
                        called --BeginInsert--> insert --> WriteSucceeds --> idle
                        called --(a row is there)--> WriteConflicts --> idle

| Variable | In the program |
|---|---|
| `rows` | the grain's rows in `OrleansStorage`: version and value (the set of writes it contains) |
| `locks`, `found` | row locks of the transactions; rows an `UPDATE` has found and not yet locked |
| `acts` | of each activation: whether it runs, and the version and value it holds |
| `writing`, `stage` | the write a call is for, and how far the call is |
| `writes`, `faults` | counters that bound writes and failures |
| `acked`, `refused` | history: writes whose activation was told the new version, or the old one |

PostgreSQL is external, at its default READ COMMITTED: a statement sees what was
committed when it began; an `UPDATE` waits for a locked row and looks at its `WHERE`
again when it has it; an `INSERT ... WHERE NOT EXISTS` locks nothing.  A call may fail
before its commit, or its commit may not be acknowledged, and an activation may die at
any time.  `FirstWriters` are the activations that may start before the grain has a row.
One is normal operation, and there the cell is implemented; two is a split brain at
the first use, and `two_first_inserts` shows what becomes of it.

The refinement mapping takes the cell's version and value from the row (version 0
without one).  `Swap` is the commit, acknowledged or not; `Refuse` is `WriteConflicts`;
everything a transaction does before its commit is a stutter.

### BudgetResolution

One call of `ResolveAsync` for one caller and period, while overrides, group budgets and
memberships are edited.

    idle --ReadOverride--> memberships --ReadMemberships--> budgets --ReadGroupBudgets--> answered
    an upsert: idle --BeginUpsert--> saving --SaveRow|SaveNothing--> saved, or refused, or failed

| Variable | In the program |
|---|---|
| `rows` | `user_budget_overrides` and `group_budgets`: the row of the caller, and of each group |
| `members` | `group_memberships` of the caller |
| `stage`, `groupIds`, `answer` | the query `ResolveAsync` waits for, its local, its result |
| `upserts` | each call of `UpsertAsync`: where it is, key, amount, the row it read |
| `edits` | counter that bounds edits |
| `during`, `held` | history: the tables during `ResolveAsync`; the rows of its key during an upsert |

| Actions | Code |
|---|---|
| `ReadOverride`, `ReadMemberships`, `ReadGroupBudgets` | `BudgetResolutionRepository.cs:30-36`, `38-46`, `48-61` |
| `BeginUpsert`; `SaveRow`, `SaveNothing`, `SaveRefused` | `UserBudgetOverrideRepository.cs:32-34`; `36-45` with the unique indexes of `CostTrackerDbContext.cs:102, 127`; `GroupBudgetRepository.cs:38-53` is the same |
| `DeleteOverride`, `AddMembership`, `RemoveMembership` | `UserBudgetOverrideRepository.cs:49-54`, `GroupMembershipRepository.cs:26-38` |
| `QueryFails`, `SaveFails`, `SaveUnacknowledged` | a call to the database throws before, or after, it took effect |

Every call has a context of its own (`BudgetStore.cs` makes one per call), so nothing
is kept between calls.  EF Core is external: it updates by primary key, throws when the
row is gone, and sends nothing when the amount is the one that was read; a row deleted and
inserted again has another id.  Which of two equal group budgets is `First` is
open, as the queries give no order.

### ReconnectModal, NavMenu, AdminPage

The two scripts of the admin page, `ReconnectModal.razor.js` and `NavMenu.razor.js`, and
the page they are on.  A handler runs to its next `await`; any number of calls of
`retry` and `resume` may be waiting.

| Variable | In the program |
|---|---|
| `circuit`, `reachable` | the server's side: circuit there, connection lost, only its saved state left, nothing left; whether the server answers |
| `display` | the class Blazor gives the dialog; `ReconnectModal.razor` shows its buttons by it |
| `modalOpen`, `dismissed` | the dialog is open (`showModal`); history: the user closed it |
| `listening` | `retryWhenDocumentBecomesVisible` is registered (adding a listener twice adds one) |
| `visible` | `document.visibilityState` |
| `calls` | the await each call of `retry` or `resume` is in |
| `reloading` | `location.reload()` has been called |
| `checked`, `narrow` | the checkbox of the menu; the viewport is below 641px |

| Actions | Code |
|---|---|
| `HandleReconnectStateChanged` | `ReconnectModal.razor.js:11-21` |
| `Retry`; `ReconnectSucceeds`, `ReconnectRefused`, `RetryThrows` | lines 23-31; 31-35, 42-45 |
| `Resume`; `ResumeSucceeds`, `ResumeRefused`, `ResumeThrows` | lines 48-50; 35-41 and 50-56 |
| `RetryWhenDocumentBecomesVisible` | lines 59-63 |
| `Toggle`, `ClickMenu`, `ClickToggler` | `NavMenu.razor.js:3-9` |
| `Drop`, `Pause`, `Forget`, `BlazorReconnects`, `BlazorIsRejected`, `BlazorGivesUp` | external: the server and Blazor's own reconnection |
| `Dismiss`, `VisibilityChange`, `Resize`, `Reloaded` | external: the user and the browser |

What is assumed of Blazor, whose client is not in the repository: a promise is settled
by the state of the circuit when it is answered (comment at lines 27-30); the event
"hide" comes before the promise of a successful reconnection is settled; a pause opens the
dialog by "show"; its own reconnection ends in success, "rejected" or
"failed".  What the browser does with a modal dialog is assumed as specified: Escape
closes it, as nothing handles its `cancel` event.

## 3. What is checked

All runs use the constants of the `MC...` modules.  `CHECK_DEADLOCK FALSE`: time,
retries, edits and failures are bounded, so a run may stop when they are used up.
`admin_page` has no such bounds and is checked for deadlock.

| Run | Checks | Shows |
|---|---|---|
| `audit_faults` | `TypeOK`, `AuditSlices`, `AuditNeverExceedsSpend`, `OneAccrualPerFault`, `SpendNeverDecreases`, `ChecksCountEveryCapture` | One activation with crashes, lost acknowledgements, retries and refused counts over a change of month: every audit row is covered by the stored spend, each failure costs at most one extra accrual, and no check overlooks an audited capture. |
| `split_brain` | `AuditSlices`, `AuditInvariant`, `SpendNeverDecreases`, `EveryCallEnds`, `ImplementsLedger` | Two activations of one grain, the second started once the first has written a row, write against each other, with a failure and a retry: the version check keeps audit and spend together, so that the grain implements a ledger whose account only goes forward; the inductive invariant of the proofs holds, and every call ends. |
| `fault_free` | `AuditAccountsForSpend`, `DuplicateNeverDoubleAccrues`, `BudgetWithinTtl`, `EveryCaptureIsAudited`, `ExhaustedBudgetIsDenied` | Without failures, with unknown models, zero budgets, retries and edits of budgets: the audit table adds up to the stored spend exactly, no request is accrued twice, every capture of a known model ends in the table, no call decides with a budget replaced BudgetCacheTtl or more before it asked, and no check allows a caller whose audited captures have used up the budget it compares with, zero included. |
| `pricing_cache` | `CacheInvariant`, `PriceIsRecent`, `UnknownIsRecent` | Two overlapping look-ups of one model while its row is rewritten: a price charged was in force at most the TTL and one slow read before, and a model is reported unknown only if it had no row about then. |
| `pricing_refresh` | `RefreshInvariant`, `TableIsExact`, `PricesStay`, `EveryRunEnds` | Runs over two providers whose sources list good, empty and unacceptable files or fail, with failures of the database and restarts: a provider keeps prices once it had some, the table holds exactly what was last fetched until a replacement throws, and every run releases its guard. |
| `orleans_storage` | `StorageInvariant`, `NoWriteIsLost`, `RefusedIsNotStored`, `ImplementsCell`, `EveryWriteReturns` | Three activations of a split brain write one grain's row in overlapping transactions, with failures: to the grain this is a versioned cell with atomic writes, nothing acknowledged is lost, nothing refused is stored, and no call waits for ever. |
| `budget_resolution` | `ResolutionInvariant`, `KeptBudgetsCount`, `NothingIsInvented`, `OneEditIsSeenWhole`, `UpsertTookEffect`, `RefusedIfOvertaken` | ResolveAsync's three queries while overrides, group budgets and memberships are edited by calls that overlap and fail: no budget that stands throughout is overlooked, none is made up, a single edit is seen whole, and upserts neither lose each other's amounts nor fail without a race. |
| `admin_page` | `PageInvariant`, `NeverStranded`, `DialogMatchesCircuit`, `NothingResumableIsDiscarded`, `EntryUncoversPage`, `ComesBack` | The admin page while its circuit is lost, paused and forgotten, with retries and resumptions that overlap: something always brings the page back, the dialog covers exactly a page that is dead, and no page is reloaded that could have been resumed. |

### Bounds, and why they are enough

One or two slots: interference between activations is pairwise, through one
version number; of two, one starts before the grain has a row.  Two requests, one with
an id and one without: the two paths through the duplicate check, sharing a spend; in
`audit_faults` a third one, whose negative count is refused after it was charged.  Two or three sends of a request:
a first attempt and its retries.  Up to two failures: one that leaves something
behind and one that strikes the recovery.  `MaxTime` spans at least one change
of month in every run about periods, and in `fault_free`, where budgets are edited,
two TTLs: a budget is loaded, replaced, and too old.  Budgets there are none, zero and
2, which the first capture uses up.  The first request costs 2, the others 1, so that sums of
different captures differ.  `pricing_refresh` has two providers,
the one whose changes may leak and the one they leak to; files that are good, empty,
refused for themselves and refused because of the other provider; four attempts and
two failures: two full runs, with something left behind by the first.
`orleans_storage` has three activations, so that one may wait for a row that a second
has locked and a third has changed, four writes and two failures.  `budget_resolution` has
two groups, of which one gives more, amounts zero and one, and three edits: one
between each two of the three queries, or two upserts that meet and a deletion between
them; groups and editors are symmetric, which is sound as the run checks invariants only.
`admin_page` has three calls: a retry under way, another one started over it, and a
resumption.  The safety theorems below hold for all of these constants.

### Fairness

`FairSpec` has weak fairness of `Step(s)` for each slot: Orleans runs a call it has
started, and every await is answered or throws (database commands and grain calls
have timeouts).  That of `PricingRefresh` has weak fairness of `Step`, the run's own
steps, for the same reason, that of `OrleansStorage` of each call's statements: the
database goes on with what it has begun, and no row is locked for longer than its
transaction.  `AdminPage` has weak fairness of the settling of promises, of the end of
Blazor's own reconnection and of the load of a page; that the server can be reached in
the end and that the user looks away and back are assumptions of `ComesBack` itself.
Nothing forces the gateway to call or to retry, the clock to
advance, an activation to be made or a failure to happen.

### Where documents and code disagree

Each of these runs checks one statement of a document or comment, and TLC finds it
violated by what the code does.

| Run | Statement | What the code does |
|---|---|---|
| `retry_double_accrues` | `DuplicateNeverDoubleAccrues` | The accrual is stored (line 140) before the audit row that carries the request id is appended (line 163), and a retry is recognised by that row alone (line 110). When the call fails in between, or when the write fails and the spend in memory keeps the cost, the retry accrues again. SPEC.md:178-179 says "a duplicate capture with the same `requestId` must not double-accrue". |
| `month_boundary` | `SpendIsReconstructible` | The period of the audit row is the current one when the row is made (line 160); the spend went into the period that was current when the call began (line 100). A capture during which the month ends is in the spend of one month and in the ledger of the next. SPEC.md:424-425 says "Running spend can be reconstructed by summing `cost_amount` per `caller_id` per `period`". |
| `job_poisoned` | `ProperListIsPersisted` | The job keeps one repository, and so one context, for its whole life. When SaveChangesAsync throws, the rows of the attempt stay in its change tracker as added; the next replacement adds the new rows to them, two rows for one model violate the unique index (CostTrackerDbContext.cs:150), and so on until the process restarts: one failure of the database stops a provider's prices from ever being refreshed. SPEC.md:267-268 says the job "invokes `FetchAsync`, and **persists** the results into PostgreSQL". |
| `two_first_inserts` | `OnlyOneInsertSucceeds` | The INSERT of a state that has not been read is guarded by WHERE NOT EXISTS alone: at READ COMMITTED two transactions both find no row and both insert one, and the index of the table is not unique (lines 15-17). Both activations are told version 1, the grain has two rows, and which of them the next activation reads is open. The comment at orleans-persistence.sql:81-82 says "The following locks rather pessimistically to ensure only one INSERT succeeds". |

More were met while modelling and have no run:

* `EffectiveBudget.HasBudget` is false for a budget of zero (`EffectiveBudget.cs:22`), so
  a check of such a caller answers `AllowNonBudgetedUsers`, while SPEC.md:136 says
  "Returns `allowed: false` when remaining budget ≤ 0"; `ExhaustedIsDenied` has
  `~AllowNonBudgetedUsers` among its assumptions for this reason.
* The answer to a duplicate capture has a remaining budget of zero
  (`UserBudgetGrain.cs:326`), while the comment at line 94 says "a duplicate capture
  returns the original result".
* SPEC.md:350-351 (8.6) says that pricing grains "subscribe to this stream and refresh their
  in-memory value on push".  The job publishes (`OrleansPricingPublisher.cs:39`) and nothing in
  `src/` but a test subscribes; CONTEXT_SNAPSHOT.md:93-95 explains why.  What bounds the
  age of a price is the TTL, which is what `PriceIsRecent` says.
* The grain is keyed by the caller id as it is spelt (`Program.cs:153`), the ledger and the
  budgets by `CallerId.From`, which trims: two spellings have two spends and one
  ledger, which no longer adds up to either (SPEC.md:424-425).
* Token counts are validated by `UsageEvent.Create`, after the cost was stored
  (`UsageEvent.cs:102`): a capture with a negative count is refused and still changes the
  spend.
* A refresh that read the price table before a model was imported removes the
  entry a later look-up has just stored (`PricingCache.cs:89`), which then reads the cache
  again and answers "unknown" for a model that was known all the time it ran;
  `UnknownIsRecent` bounds how long ago the model was imported.
* With two edits during a call, `ResolveAsync` may answer what no state of the tables
  gives: a caller who is given an override and then taken out of the only group may be
  told there is no budget.  `AnswerWasEffective` of `BudgetResolution` states it, and TLC finds it violated with
  `MaxEdits = 2`.  Nothing in the repository promises a snapshot.
* An upsert that replaces an amount leaves `SetAt` as it was
  (`UserBudgetOverrideRepository.cs:38`), while `UserBudgetOverride.cs:23` says "When the
  override was set".
* A dialog of a paused circuit that the user closes by Escape leaves a page that only
  a reload by hand brings back: nothing opens it again.

A matter of taste: the cached budget is keyed by nothing but its age
(`UserBudgetGrain.cs:214`), so that for up to the TTL after a change of month a check
compares the new spend with the old month's budget.

## 4. What is proved

`UserBudgetGrainProofs` proves, for every value of the constants:

* `TypeCorrect`: `Spec => []TypeOK`, without further assumptions.
* `AuditInvariantHolds`: `AuditInvariant` is an invariant, when token counts are
  not negative, activations of one grain have clocks in step, and one of them at most
  starts before the grain has a row (`OneFirstWriter`).
* `AuditIsSliced`, `SpendIsKept`: `AuditSlices` and `SpendNeverDecreases`, from it.
* `ChecksAreComplete`: `ChecksCountEveryCapture`, when also a grain has one
  activation.
* `ExhaustedIsDenied`: `ExhaustedBudgetIsDenied`, when also callers without a
  budget are denied.

The assumptions are necessary.  A negative count lets a refused capture lower the
spend.  A silo whose clock is behind takes a stored period for another one
(`UserBudgetGrain.cs:197` compares with `!=`), goes back to its own and drops the
spend.  With two first writers both may insert a row; one of them goes on with a row that
lacks what the other has charged, and whoever reads that row is behind the audit table.
With a split brain the older activation answers checks from its own memory.

`AuditSlices` says that row *e* accounts for the stretch of its spend from
`e.after - e.cost` to `e.after`, that stretches of different rows are apart, and that
all lie within the stored spend (and that no cost is negative).  It is not inductive: a row is made from what an
activation remembers, so the invariant has to say what activations remember.
The first write comes first: until a grain has a row only a first writer runs, and alone
(`FirstWriteAlone`), so that the version check is all that is asked of the storage.
`AuditFits`, the rest of `AuditInvariant`, adds, for each slot (`SlotOK`): an activation whose version is the
stored one is not behind the stored spend; the cost of an accrual under way comes
on top of what is stored; an accrual that is stored and whose row is to come is
still there; no period is later than the clock's.  And (`ClaimsApart`): the stretches
those captures will account for are apart from the recorded ones and from each
other.  The heart is `WriteStep`: a write that passes the version check starts at or
above the stored spend, so what it adds lies beyond every row and claim, and it
makes the version of every other activation stale.  `ChecksAreComplete` needs
`MemoryAhead` in addition: an activation knows at least what is stored, which
holds only while no other activation writes.

`UserBudgetCallProofs` proves `BudgetsAreFresh`: `BudgetWithinTtl`, when silos show one
time (`OneClock`) and the TTL is positive.  `BudgetInvariant` says of each cache entry,
of each answer of the store under way and of each decision since when its budget, if it
is no longer in force, has been replaced; the step that matters is `LoadBudget`, which
stamps the entry with the time before the store was asked.

It also proves `RetriesCostOnePerFault`: `OneAccrualPerFault`, when counts are not negative and a grain has one activation.  The invariant (`RetryOK`) says that
a request whose row is not in the table is in the spend at most as often as there were
failures, unless a capture is just carrying its cost to the row; a failure pays for what a
call leaves behind, and the duplicate check lets a call pass only in the first
case.  With two activations it is false: the second may charge while the first is between
its write and its row.

`UserBudgetLedgerProofs` proves what the audit table adds up to:

* `AuditIsWithinSpend`: `AuditNeverExceedsSpend`, from the assumptions of
  `AuditInvariantHolds`, so with failures and with split brains after the first write.  Rows whose stretches
  are apart cost together as many units as the stretches have (`CostIsTaken`, by a
  bijection), and these lie within the spend.
* `SpendIsAccountedFor`: `AuditAccountsForSpend` as long as nothing has failed
  (`faults = 0`, for any `MaxFaults`), when also a grain has one activation and a request
  id is used for one grain (`IdsOfOneGrain`).
* `DuplicatesAreFree`: `DuplicateNeverDoubleAccrues` as long as nothing has failed, from
  `RetriesCostOnePerFault`.
* `GrainKeepsALedger`: `ImplementsLedger`, from the assumptions of `AuditInvariantHolds`:
  the initial states map to initial states, and each action to a `Charge`, a `MakeEntry`,
  a `Forget` or a stutter.  Only an accepted write charges (`WritesCharge`), on top of what
  was stored because `SlotOK` says so of every activation that passes the version check.

`AccountInvariant` is the inductive invariant behind `SpendIsAccountedFor`.  To
`AuditInvariant` it adds the other direction: each unit of the spend belongs to a row or to
a capture that is to write one (`Covered`).  For that, memory has to be exactly what is
stored, but for the reset or the cost being written (`InStepWithStore`), and
a capture that passed the duplicate check has to get its row (`CaptureOK`): no row has
its id, which others cannot bring about because ids belong to one grain, and a guid
belongs to one capture (`GuidsAreFresh`).  The assumptions are needed: with two grains and one
request id, or with two activations of a grain and no failure at all, TLC finds
`AuditAccountsForSpend` violated by a capture that is charged and whose row is refused.

`PricingCacheProofs` proves of `PricingCache`, from `MaxPause <= Ttl` (so nothing is said
of a TTL shorter than the code between two look-ups takes):
`TypeCorrect`, `CacheInvariantHolds`, and from it `PricesAreRecent` and
`KnownModelsStayKnown`.  The invariant adds to the two properties that an entry
was in force shortly before it was stored (`EntryOK`), that what a look-up has read
held while it ran, and that a look-up about to read the cache again (`Waits`)
either finds an entry or has lost it to a look-up that read, lately, that there
is no row.

`PricingRefreshProofs` proves of `PricingRefresh`, without assumptions beyond the types
of the constants: `TypeCorrect`, `RefreshInvariantHolds`, and from it
`TableStaysExact` and `PricesAlwaysStay`.  `TableIsExact` needs to know that the tracker
is clean (`TrackerIsClean`): while nothing has thrown, it holds only rows of the
replacement under way, so a commit stores those and nothing else.  `PricesStay` has
to hold when the tracker is not clean.  A commit may then update rows of another
provider, and `RowsAreOwned` says that such an update replaces a row by one of the same
provider, whatever old copies of it the tracker kept.

`OrleansStorageProofs` proves of `OrleansStorage`, when at most one activation starts
before the first write (`OneFirstWriter`): `StorageInvariantHolds`, from it
`NothingIsLost` and `NothingRefusedIsStored`, and `StorageIsAVersionedCell`, the
refinement: each step is a step of the cell or leaves it as it is.  The invariant says
what a row lock is worth: the row has the version its activation has read and nobody
else changes it (`CallOK`); a row that was looked at and not locked is ahead
(`LookedAtOK`); and an activation that has the stored version has all that is stored
(`KnowledgeOK`), so that what it writes contains every acknowledged write.

`BudgetResolutionProofs` proves of `BudgetResolution`, without further assumptions, that
`ResolutionInvariant` is an invariant, and from it the five properties.  It says of each
query that it was answered from one of the tables met during the call (`ReaderOK`), of
an upsert that it has met the row it read and the row there is (`UpsertOK`), and of two
tables with one edit between them that they differ in memberships or in one row
(`OneEditOK`).

`AdminPageProofs` proves of `AdminPage`, for any number of calls, that `PageInvariant` is
an invariant, and from it `NeverStranded`, `DialogMatchesCircuit`,
`NothingResumableIsDiscarded` and the action property `EntryUncoversPage`.  They are inductive together with the types and the link
between the circuit and the dialog's class (`DisplayFollowsCircuit`).

Only model-checked: the liveness properties (`EveryCallEnds`, `EveryCaptureIsAudited`,
`EveryRunEnds`, `EveryWriteReturns`, `ComesBack`), because `ENABLED` is beyond the prover.
Every other property of a passing run is the subject of a theorem.  `audit_faults` has a
request with a negative count, which the theorems' `NonNegativeTokens` excludes: the kind
counted has no price, so that it is charged 1 and refused, and is in the run for that path.

## 5. What is not modelled, and the plan

Planned, in this order:

1. `UserBudgetGrain`, `UserBudgetLedger`, `UserBudgetGrainProofs`: done.
2. `PricingCache`, `PricingRefresh` and their proofs: done.
3. `OrleansStorage`, `VersionedCell`, the refinement and its proof: done.
4. `BudgetResolution` and its proofs; the age of budgets and the price of retries
   (`UserBudgetCallProofs`): done.
5. `ReconnectModal`, `NavMenu`, `AdminPage` and their proofs: done.
6. The sums of the ledger (`UserBudgetLedgerProofs`); `SpendLedger`, the refinement and
   its proof: done.
7. `PricingRefresh` composed with `PricingCache`: how old a price is that a capture
   is charged, from the source to the spend.
8. `TrackerApi`: two callers and a shared request id, composing the grain, pricing
   and budgets.
9. `PricingFile`: the validator as operators against a reference definition;
   `BudgetPeriod`, `Money`, `CallerId`: pure algorithms with lemmas (`Next` and
   `Previous` are inverse, `FromDate` is monotone), which then discharge
   `ClockAssumption`.

Not planned: authentication, telemetry, the empty host of the admin page, generated
migrations and deployment files: configuration without state of their own.
