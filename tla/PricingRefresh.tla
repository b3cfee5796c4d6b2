---------------------------- MODULE PricingRefresh ----------------------------
(***************************************************************************)
(* The background job that keeps model_pricing warm                        *)
(* (src/LLMCostControl.Infrastructure/Pricing/PricingRefreshJob.cs), with  *)
(* the adapters it asks and the repository it writes through.              *)
(*                                                                         *)
(* A run goes through the adapters one after the other and is cut at its  *)
(* awaits.  Job and adapters share one repository, hence one DbContext for *)
(* the life of the job: what a failed SaveChanges leaves in its change     *)
(* tracker (`added', `modified') is part of every later one.               *)
(***************************************************************************)
EXTENDS Integers, Sequences

CONSTANTS
    Providers,
    Adapters,       \* _adapters: one provider after the other, none twice
    Models,
    FilesOf,        \* [Providers -> sets of sequences of models a source may list]
    ProviderCadences, ProviderJitters, \* functions on the providers that are configured
    DefaultCadence, DefaultJitter,
    MaxTime,        \* bound: the last tick
    MaxFetches,     \* bound: attempts before the last run
    MaxFaults       \* bound: failures of the database, restarts of the job

ASSUME ProvidersAssumption ==
    /\ Adapters \in Seq(Providers) /\ Adapters # <<>>
    /\ \A i, j \in DOMAIN Adapters : Adapters[i] = Adapters[j] => i = j
    /\ \A p \in Providers : FilesOf[p] \subseteq Seq(Models)
    /\ \A f \in {ProviderCadences, ProviderJitters} :
          DOMAIN f \subseteq Providers /\ f \in [DOMAIN f -> Nat]
    /\ {DefaultCadence, DefaultJitter, MaxTime, MaxFetches, MaxFaults} \subseteq Nat

VARIABLES
    now,
    table,          \* the rows of model_pricing that are committed
    added,          \* rows the change tracker will insert at the next SaveChanges
    modified,       \* rows it will update
    lastFetch,      \* _lastFetchTimes
    pc,             \* "idle": _isRunning is 0; or the await the run is in
    at,             \* the adapter the loop is at
    forced,         \* the run is one of RefreshAllAsync
    began,          \* `now' of the run
    entries,        \* `entries' of RefreshProviderAsync
    fetches,        \* attempts so far
    faults,         \* failures so far
    result,         \* history: rows of the last replacement that returned
    troubled        \* history: a replacement has thrown since the job started

vars == <<now, table, added, modified, lastFetch, pc, at, forced, began,
          entries, fetches, faults, result, troubled>>
loop == <<at, forced, began>>

Never == -1
\* A row of the batch of an attempt.
Row(p, m, id, stale) == [provider |-> p, model |-> m, id |-> id, stale |-> stale]
RowsOf(p) == {r \in table : r.provider = p}
Ids(rows) == {r.id : r \in rows}

Init ==
    /\ now = 0
    /\ table = {} /\ added = {} /\ modified = {}
    /\ lastFetch = [p \in Providers |-> Never]
    /\ pc = "idle"
    /\ at = 0 /\ forced = FALSE /\ began = 0 /\ entries = {}
    /\ fetches = 0 /\ faults = 0
    /\ result = [p \in Providers |-> {}]
    /\ troubled = FALSE

-----------------------------------------------------------------------------
Tick ==
    /\ now < MaxTime
    /\ now' = now + 1
    /\ UNCHANGED <<table, added, modified, lastFetch, pc, loop, entries, fetches,
                   faults, result, troubled>>

\* The process of the job ends, and another one starts with nothing remembered.
JobStops ==
    /\ faults < MaxFaults
    /\ faults' = faults + 1
    /\ added' = {} /\ modified' = {}
    /\ lastFetch' = [p \in Providers |-> Never]
    /\ pc' = "idle"
    /\ at' = 0 /\ forced' = FALSE /\ began' = 0 /\ entries' = {}
    /\ result' = [p \in Providers |-> RowsOf(p)]
    /\ troubled' = FALSE
    /\ UNCHANGED <<now, table, fetches>>

-----------------------------------------------------------------------------
(* A run: the loop over the adapters. *)

\* A run begins unless one is under way.
BeginRun(all) ==
    /\ pc = "idle"
    /\ fetches < MaxFetches
    /\ pc' = "fetch"
    /\ at' = 1 /\ forced' = all /\ began' = now
    /\ UNCHANGED <<now, table, added, modified, lastFetch, entries, fetches, faults,
                   result, troubled>>
RefreshDueAdapters == BeginRun(FALSE)
RefreshAll == BeginRun(TRUE)

Current == Adapters[at]

Configured(f, p, default) == IF p \in DOMAIN f THEN f[p] ELSE default
GetCadence(p) == Configured(ProviderCadences, p, DefaultCadence)
GetJitter(p) == Configured(ProviderJitters, p, DefaultJitter)

IsDue(p) ==
    \/ lastFetch[p] = Never
    \/ began - lastFetch[p] >= GetCadence(p) + GetJitter(p)

\* The loop goes on to the next adapter; after the last one the guard is released.
NextAdapter ==
    /\ IF at = Len(Adapters) THEN pc' = "idle" /\ at' = 0
       ELSE pc' = "fetch" /\ at' = at + 1
    /\ entries' = {}
    /\ UNCHANGED <<forced, began>>

SkipAdapter ==
    /\ pc = "fetch"
    /\ ~forced /\ ~IsDue(Current)
    /\ NextAdapter
    /\ UNCHANGED <<now, table, added, modified, lastFetch, fetches, faults, result,
                   troubled>>

Fetching == pc = "fetch" /\ (forced \/ IsDue(Current))

\* RefreshProviderAsync is over, one way or the other: the time of the run counts as
\* the provider's fetch time.
ProviderDone ==
    /\ lastFetch' = [lastFetch EXCEPT ![Current] = began]
    /\ NextAdapter

-----------------------------------------------------------------------------
(* FetchAsync. *)

Listed(p, file) == {Row(p, file[i], <<fetches, i>>, FALSE) : i \in DOMAIN file}

\* Mutant: an empty list is not looked for.
Fetched_Empty(rows) ==
    /\ entries' = rows
    /\ pc' = "replace"
    /\ UNCHANGED <<loop, lastFetch>>

\* An empty list ends the attempt.
Fetched(rows) ==
    IF rows = {} THEN ProviderDone
    ELSE /\ entries' = rows
         /\ pc' = "replace"
         /\ UNCHANGED <<loop, lastFetch>>

FetchLive ==
    /\ Fetching
    /\ \E file \in FilesOf[Current] : Fetched(Listed(Current, file))
    /\ fetches' = fetches + 1
    /\ UNCHANGED <<now, table, added, modified, faults, result, troubled>>

MarkedStale(rows) == {Row(r.provider, r.model, r.id, TRUE) : r \in rows}

\* The source fails or sends an invalid file: the stored rows are loaded, tracked,
\* and marked as stale.
FetchFallsBack ==
    /\ Fetching
    /\ LET rows == MarkedStale(RowsOf(Current))
       IN  /\ Fetched(rows)
           /\ modified' = {r \in modified : r.id \notin Ids(rows)}
                             \cup {r \in rows : r.id \notin Ids(added)}
    /\ fetches' = fetches + 1
    /\ UNCHANGED <<now, table, added, faults, result, troubled>>

\* The stored rows cannot be loaded either.
FetchFails ==
    /\ Fetching
    /\ faults < MaxFaults
    /\ faults' = faults + 1
    /\ ProviderDone
    /\ fetches' = fetches + 1
    /\ UNCHANGED <<now, table, added, modified, result, troubled>>

-----------------------------------------------------------------------------
(* ReplaceProviderPricingAsync: one transaction. *)

\* Mutant: the old rows stay.
Deleted_Nothing(p) == table
\* ExecuteDelete, past the change tracker.
Deleted(p) == table \ RowsOf(p)

\* AddRange: what SaveChanges will insert, and what it will update.
ToInsert == {r \in added : r.id \notin Ids(entries)} \cup entries
ToUpdate == {r \in modified : r.id \notin Ids(entries)}

\* SaveChanges throws when a row to update is gone, and when the unique index on
\* the model or the key refuses a row.
Refused(rows) ==
    \/ \E r \in ToUpdate : r.id \notin Ids(rows)
    \/ \E r, s \in ToInsert : r # s /\ r.model = s.model
    \/ \E r \in ToInsert, s \in rows : r.model = s.model
Saved(rows) == {r \in rows : r.id \notin Ids(ToUpdate)} \cup ToUpdate \cup ToInsert

\* After a SaveChanges that threw, and after one that did not.
TrackerKeeps == added' = ToInsert /\ modified' = ToUpdate
TrackerAccepts == added' = {} /\ modified' = {}

ReplaceSucceeds ==
    /\ pc = "replace"
    /\ ~Refused(Deleted(Current))
    /\ table' = Saved(Deleted(Current))
    /\ TrackerAccepts
    /\ pc' = "publish"
    /\ result' = [result EXCEPT ![Current] = entries]
    /\ UNCHANGED <<now, lastFetch, loop, entries, fetches, faults, troubled>>

\* Mutant: the exception leaves the loop and the guard stays taken.
ReplaceRefused_Escapes ==
    /\ pc = "replace"
    /\ Refused(Deleted(Current))
    /\ TrackerKeeps
    /\ troubled' = TRUE
    /\ UNCHANGED <<now, table, lastFetch, pc, loop, entries, fetches, faults, result>>

\* The exception is logged and the transaction rolled back.
ReplaceThrows ==
    /\ ProviderDone
    /\ troubled' = TRUE
    /\ UNCHANGED <<now, fetches, result>>

ReplaceRefused ==
    /\ pc = "replace"
    /\ Refused(Deleted(Current))
    /\ TrackerKeeps
    /\ ReplaceThrows
    /\ UNCHANGED <<table, faults>>

\* The database fails before AddRange, in SaveChanges, or in the commit.
ReplaceFails ==
    /\ pc = "replace"
    /\ faults < MaxFaults
    /\ faults' = faults + 1
    /\ \/ UNCHANGED <<added, modified>>
       \/ TrackerKeeps
       \/ ~Refused(Deleted(Current)) /\ TrackerAccepts
    /\ ReplaceThrows
    /\ UNCHANGED table

CommitUnacknowledged ==
    /\ pc = "replace"
    /\ faults < MaxFaults
    /\ faults' = faults + 1
    /\ ~Refused(Deleted(Current))
    /\ table' = Saved(Deleted(Current))
    /\ TrackerAccepts
    /\ ReplaceThrows

-----------------------------------------------------------------------------
\* PublishAsync returns or throws; nothing subscribes to the stream.
Publish ==
    /\ pc = "publish"
    /\ ProviderDone
    /\ UNCHANGED <<now, table, added, modified, fetches, faults, result, troubled>>

-----------------------------------------------------------------------------
\* What the run does by itself.
Step ==
    \/ SkipAdapter
    \/ FetchLive
    \/ FetchFallsBack
    \/ ReplaceSucceeds
    \/ ReplaceRefused
    \/ Publish

Fault == JobStops \/ FetchFails \/ ReplaceFails \/ CommitUnacknowledged

Next == Tick \/ RefreshDueAdapters \/ RefreshAll \/ Step \/ Fault

Spec == Init /\ [][Next]_vars

\* Requests to sources and databases return or time out.
FairSpec == Spec /\ WF_vars(Step)

-----------------------------------------------------------------------------
(* Properties. *)

Rows == [provider : Providers, model : Models, id : Nat \X Nat, stale : BOOLEAN]

\* The type invariant.
TypeOK ==
    /\ now \in 0 .. MaxTime
    /\ table \subseteq Rows /\ added \subseteq Rows /\ modified \subseteq Rows
    /\ lastFetch \in [Providers -> Nat \cup {Never}]
    /\ pc \in {"idle", "fetch", "replace", "publish"}
    /\ at \in 0 .. Len(Adapters)
    /\ pc = "idle" <=> at = 0
    /\ forced \in BOOLEAN
    /\ began \in 0 .. MaxTime
    /\ entries \subseteq Rows
    /\ fetches \in Nat
    /\ faults \in 0 .. MaxFaults
    /\ result \in [Providers -> SUBSET Rows]
    /\ troubled \in BOOLEAN

\* Whatever fails and whatever sources send, a provider that has had prices keeps
\* some: no reader of model_pricing finds all its models unknown
\* (PricingRefreshJob.cs:128, ModelPricingRepository.cs:53-61).
PricesStay ==
    [][\A p \in Providers : RowsOf(p) # {} => RowsOf(p)' # {}]_vars

\* Until a replacement throws, each provider has exactly the rows last fetched for
\* it, fresh or marked as stale: the changes of one provider do not leak into the
\* transaction of another (ModelPricingRepository.cs:47-62).  A restart of the job
\* makes good again.
TableIsExact ==
    ~troubled => \A p \in Providers : RowsOf(p) = result[p]

\* Every run ends and releases the guard, so that later ones are not skipped
\* (PricingRefreshJob.cs:65-69, 86-89).
EveryRunEnds == (pc # "idle") ~> (pc = "idle")

-----------------------------------------------------------------------------
(* The inductive invariant behind them. *)

Known == table \cup added \cup modified \cup entries

\* A row has one owner, whatever copies of it there are, and new rows are new.
Owned(rows, n) ==
    /\ \A r \in rows : r.id[1] < n
    /\ \A r, s \in rows : r.id = s.id => r.provider = s.provider
RowsAreOwned == Owned(Known, fetches)

\* What a replacement is about to store.
EntriesOK ==
    pc = "replace" => entries # {} /\ \A r \in entries : r.provider = Current

\* The change tracker holds nothing but what the replacement under way put there.
TrackerIsClean ==
    ~troubled => /\ added = {}
                 /\ pc = "replace" => Ids(modified) \subseteq Ids(entries)
                 /\ pc # "replace" => modified = {}

\* The inductive invariant.
RefreshInvariant ==
    TypeOK /\ RowsAreOwned /\ EntriesOK /\ TrackerIsClean /\ TableIsExact

-----------------------------------------------------------------------------
\* A list without two rows for a model, and without a model of another provider.
Proper(rows) ==
    /\ \A r, s \in rows : r.model = s.model => r = s
    /\ \A r \in rows, s \in table : r.model = s.model => r.provider = s.provider

\* SPEC.md:267-268: the job "invokes FetchAsync, and persists the results into
\* PostgreSQL": a proper list is, unless the database fails right then.
ProperListIsPersisted ==
    [][(pc = "replace" /\ pc' # "replace" /\ Proper(entries) /\ faults' = faults)
          => \A r \in entries : r \in table']_vars
=============================================================================
