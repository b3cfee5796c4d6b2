------------------------- MODULE PricingRefreshProofs -------------------------
(***************************************************************************)
(* Proofs about PricingRefresh, for all values of its constants.           *)
(***************************************************************************)
EXTENDS PricingRefresh, TLAPS

LEMMA ConstantTypes ==
    /\ Adapters \in Seq(Providers) /\ Len(Adapters) \in Nat \ {0}
    /\ \A i \in 1 .. Len(Adapters) : Adapters[i] \in Providers
    /\ \A p \in Providers : \A file \in FilesOf[p] : file \in Seq(Models)
    /\ MaxTime \in Nat /\ MaxFetches \in Nat /\ MaxFaults \in Nat
BY ProvidersAssumption

\* A run is at an adapter.
LEMMA CurrentType ==
    ASSUME TypeOK, pc # "idle"
    PROVE  at \in 1 .. Len(Adapters) /\ Current \in Providers
<1>1. at \in 1 .. Len(Adapters)
  BY ConstantTypes DEF TypeOK
<1>2. QED
  BY <1>1, ConstantTypes DEF Current

\* Copies of rows, marked as stale, are rows of the same ids and owners.
LEMMA MarkedRows ==
    ASSUME NEW rows
    PROVE  /\ rows \subseteq Rows => MarkedStale(rows) \subseteq Rows
           /\ Ids(MarkedStale(rows)) = Ids(rows)
           /\ \A r \in MarkedStale(rows) :
                 \E s \in rows : s.id = r.id /\ s.provider = r.provider
           /\ MarkedStale(rows) = {} => rows = {}
<1> DEFINE copy(r) == Row(r.provider, r.model, r.id, TRUE)
<1>1. \A r : copy(r).id = r.id /\ copy(r).provider = r.provider
  BY DEF Row
<1>2. \A r \in Rows : copy(r) \in Rows
  BY DEF Row, Rows
<1>3. MarkedStale(rows) = {copy(r) : r \in rows}
  BY DEF MarkedStale
<1> HIDE DEF copy
<1>4. Ids(MarkedStale(rows)) = Ids(rows)
  BY <1>1, <1>3 DEF Ids
<1>5. QED
  BY <1>1, <1>2, <1>3, <1>4

\* What a source lists are new rows of the provider.
LEMMA ListedRows ==
    ASSUME fetches \in Nat, NEW p \in Providers, NEW file \in Seq(Models)
    PROVE  /\ Listed(p, file) \subseteq Rows
           /\ \A r \in Listed(p, file) : r.id[1] = fetches /\ r.provider = p
<1>1. \A i \in DOMAIN file : i \in Nat /\ file[i] \in Models
  OBVIOUS
<1> DEFINE row(i) == Row(p, file[i], <<fetches, i>>, FALSE)
<1>2. \A i \in DOMAIN file : row(i).id = <<fetches, i>> /\ row(i).provider = p
  BY DEF Row
<1>3. \A i \in DOMAIN file : row(i) \in Rows
  BY <1>1 DEF Row, Rows
<1>4. Listed(p, file) = {row(i) : i \in DOMAIN file}
  BY DEF Listed
<1> HIDE DEF row
<1>5. QED
  BY <1>2, <1>3, <1>4

-----------------------------------------------------------------------------
(* Types. *)

\* The next adapter leaves the loop where it should be.
LEMMA NextAdapterType ==
    ASSUME TypeOK, pc # "idle", NextAdapter
    PROVE  /\ pc' \in {"idle", "fetch"}
           /\ at' \in 0 .. Len(Adapters) /\ (pc' = "idle" <=> at' = 0)
           /\ forced' \in BOOLEAN /\ began' \in 0 .. MaxTime
           /\ entries' = {}
<1>1. at \in 1 .. Len(Adapters)
  BY CurrentType
<1>2. QED
  BY <1>1, ConstantTypes DEF TypeOK, NextAdapter

\* So does the end of an attempt.
LEMMA ProviderDoneType ==
    ASSUME TypeOK, pc # "idle", ProviderDone
    PROVE  /\ pc' \in {"idle", "fetch"}
           /\ at' \in 0 .. Len(Adapters) /\ (pc' = "idle" <=> at' = 0)
           /\ forced' \in BOOLEAN /\ began' \in 0 .. MaxTime
           /\ entries' = {}
           /\ lastFetch' \in [Providers -> Nat \cup {Never}]
<1>1. began \in Nat
  BY ConstantTypes DEF TypeOK
<1>2. lastFetch' \in [Providers -> Nat \cup {Never}]
  BY <1>1 DEF TypeOK, ProviderDone
<1>3. QED
  BY <1>2, NextAdapterType DEF ProviderDone

\* What a fetch hands on is typed.
LEMMA FetchedType ==
    ASSUME TypeOK, pc # "idle", NEW rows \in SUBSET Rows, Fetched(rows)
    PROVE  /\ pc' \in {"idle", "fetch", "replace"}
           /\ at' \in 0 .. Len(Adapters) /\ (pc' = "idle" <=> at' = 0)
           /\ forced' \in BOOLEAN /\ began' \in 0 .. MaxTime
           /\ entries' \subseteq Rows
           /\ lastFetch' \in [Providers -> Nat \cup {Never}]
<1>1. CASE rows = {}
  BY <1>1, ProviderDoneType DEF Fetched
<1>2. CASE rows # {}
  BY <1>2 DEF Fetched, TypeOK, loop
<1>3. QED
  BY <1>1, <1>2

\* What a replacement leaves in the table and in the tracker.
LEMMA ReplaceType ==
    ASSUME TypeOK
    PROVE  /\ Saved(Deleted(Current)) \subseteq Rows
           /\ ToInsert \subseteq Rows /\ ToUpdate \subseteq Rows
BY DEF TypeOK, Saved, Deleted, ToInsert, ToUpdate

LEMMA InitType == Init => TypeOK
<1> SUFFICES ASSUME Init PROVE TypeOK
  OBVIOUS
<1>1. lastFetch \in [Providers -> Nat \cup {Never}]
  BY DEF Init
<1>2. result \in [Providers -> SUBSET Rows]
  BY DEF Init
<1>3. 0 \in 0 .. MaxTime /\ 0 \in 0 .. MaxFaults /\ 0 \in 0 .. Len(Adapters)
  BY ConstantTypes
<1>4. QED
  BY <1>1, <1>2, <1>3 DEF Init, TypeOK

LEMMA NextType == TypeOK /\ [Next]_vars => TypeOK'
<1> SUFFICES ASSUME TypeOK, [Next]_vars PROVE TypeOK'
  OBVIOUS
<1>1. CASE Tick
  BY <1>1, ConstantTypes DEF Tick, TypeOK, loop
<1>2. ASSUME NEW all \in BOOLEAN, BeginRun(all) PROVE TypeOK'
  BY <1>2, ConstantTypes DEF BeginRun, TypeOK
<1>3. CASE SkipAdapter
  BY <1>3, NextAdapterType DEF SkipAdapter, TypeOK
<1>4. CASE FetchLive
  <2>1. PICK file \in FilesOf[Current] : Fetched(Listed(Current, file))
    BY <1>4 DEF FetchLive
  <2>2. pc # "idle" /\ Current \in Providers
    BY <1>4, CurrentType DEF FetchLive, Fetching
  <2>3. Listed(Current, file) \subseteq Rows
    BY <2>2, ListedRows, ConstantTypes DEF TypeOK
  <2>4. QED
    BY <1>4, <2>1, <2>2, <2>3, FetchedType DEF FetchLive, TypeOK
<1>5. CASE FetchFallsBack
  <2> DEFINE rows == MarkedStale(RowsOf(Current))
  <2>1. rows \subseteq Rows
    BY MarkedRows DEF TypeOK, RowsOf
  <2>2. Fetched(rows) /\ modified' \subseteq modified \cup rows /\ pc # "idle"
    BY <1>5 DEF FetchFallsBack, Fetching
  <2> HIDE DEF rows
  <2>3. modified' \subseteq Rows
    BY <2>1, <2>2 DEF TypeOK
  <2>4. QED
    BY <1>5, <2>1, <2>2, <2>3, FetchedType DEF FetchFallsBack, TypeOK
<1>6. CASE FetchFails
  BY <1>6, ProviderDoneType, ConstantTypes DEF FetchFails, Fetching, TypeOK
<1>7. CASE ReplaceSucceeds
  <2>1. Current \in Providers
    BY <1>7, CurrentType DEF ReplaceSucceeds
  <2>2. result' \in [Providers -> SUBSET Rows]
    BY <1>7 DEF ReplaceSucceeds, TypeOK
  <2>3. QED
    BY <1>7, <2>2, ReplaceType DEF ReplaceSucceeds, TrackerAccepts, TypeOK, loop
<1>8. CASE ReplaceRefused
  BY <1>8, ProviderDoneType, ReplaceType
  DEF ReplaceRefused, ReplaceThrows, TrackerKeeps, TypeOK
<1>9. CASE ReplaceFails
  BY <1>9, ProviderDoneType, ReplaceType, ConstantTypes
  DEF ReplaceFails, ReplaceThrows, TrackerKeeps, TrackerAccepts, TypeOK
<1>10. CASE CommitUnacknowledged
  BY <1>10, ProviderDoneType, ReplaceType, ConstantTypes
  DEF CommitUnacknowledged, ReplaceThrows, TrackerAccepts, TypeOK
<1>11. CASE Publish
  BY <1>11, ProviderDoneType DEF Publish, TypeOK
<1>12. CASE JobStops
  <2>1. \A p \in Providers : RowsOf(p) \subseteq Rows
    BY DEF TypeOK, RowsOf
  <2>2. result' \in [Providers -> SUBSET Rows]
    BY <1>12, <2>1 DEF JobStops
  <2>3. lastFetch' \in [Providers -> Nat \cup {Never}]
    BY <1>12 DEF JobStops
  <2>4. 0 \in 0 .. MaxTime /\ 0 \in 0 .. Len(Adapters)
    BY ConstantTypes
  <2>5. faults' \in 0 .. MaxFaults
    BY <1>12, ConstantTypes DEF JobStops, TypeOK
  <2>6. QED
    BY <1>12, <2>2, <2>3, <2>4, <2>5 DEF JobStops, TypeOK
<1>13. CASE UNCHANGED vars
  BY <1>13 DEF vars, TypeOK
<1>14. QED
  BY <1>1, <1>2, <1>3, <1>4, <1>5, <1>6, <1>7, <1>8, <1>9, <1>10, <1>11, <1>12, <1>13
  DEF Next, Step, Fault, RefreshDueAdapters, RefreshAll

\* Type correctness: every variable keeps its type in every reachable state.
THEOREM TypeCorrect == Spec => []TypeOK
<1>1. Init => TypeOK
  BY InitType
<1>2. TypeOK /\ [Next]_vars => TypeOK'
  BY NextType
<1>3. QED
  BY <1>1, <1>2, PTL DEF Spec

-----------------------------------------------------------------------------
(* Rows and their owners. *)

\* Copies of owned rows are owned.
LEMMA OwnedCopies ==
    ASSUME NEW K \in SUBSET Rows, NEW L, NEW n \in Nat, NEW n2 \in Nat, n <= n2,
           Owned(K, n),
           \A r \in L : \E s \in K : s.id = r.id /\ s.provider = r.provider
    PROVE  Owned(L, n2)
<1>1. \A s \in K : s.id[1] \in Nat
  BY DEF Rows
<1>2. \A r \in L : r.id[1] < n2
  <2> SUFFICES ASSUME NEW r \in L PROVE r.id[1] < n2
    OBVIOUS
  <2>1. PICK s \in K : s.id = r.id
    OBVIOUS
  <2>2. s.id[1] < n /\ s.id[1] \in Nat
    BY <1>1 DEF Owned
  <2>3. QED
    BY <2>1, <2>2
<1>3. \A r, s \in L : r.id = s.id => r.provider = s.provider
  <2> SUFFICES ASSUME NEW r \in L, NEW s \in L, r.id = s.id
               PROVE  r.provider = s.provider
    OBVIOUS
  <2>1. PICK r0 \in K : r0.id = r.id /\ r0.provider = r.provider
    OBVIOUS
  <2>2. PICK s0 \in K : s0.id = s.id /\ s0.provider = s.provider
    OBVIOUS
  <2>3. r0.provider = s0.provider
    BY <2>1, <2>2 DEF Owned
  <2>4. QED
    BY <2>1, <2>2, <2>3
<1>4. QED
  BY <1>2, <1>3 DEF Owned

\* So are new rows of one provider next to the known ones.
LEMMA OwnedNew ==
    ASSUME NEW K \in SUBSET Rows, NEW N, NEW n \in Nat, NEW p, Owned(K, n),
           \A r \in N : r.id[1] = n /\ r.provider = p
    PROVE  Owned(K \cup N, n + 1)
<1>1. \A s \in K : s.id[1] \in Nat /\ s.id[1] < n
  BY DEF Rows, Owned
<1>2. \A r \in K \cup N : r.id[1] < n + 1
  BY <1>1
<1>3. \A r, s \in K : r.id = s.id => r.provider = s.provider
  BY DEF Owned
<1>4. \A r \in K, s \in N : r.id # s.id
  BY <1>1
<1>5. QED
  BY <1>2, <1>3, <1>4 DEF Owned

\* A replacement stores rows that are known.
LEMMA SavedIsKnown ==
    /\ Saved(Deleted(Current)) \subseteq Known
    /\ ToInsert \subseteq Known /\ ToUpdate \subseteq Known
BY DEF Saved, Deleted, ToInsert, ToUpdate, Known

LEMMA KnownType == TypeOK => Known \in SUBSET Rows
BY DEF TypeOK, Known

LEMMA InitOwned == Init => RowsAreOwned
BY DEF Init, RowsAreOwned, Known, Owned

LEMMA NextOwned == TypeOK /\ RowsAreOwned /\ [Next]_vars => RowsAreOwned'
<1> SUFFICES ASSUME TypeOK, RowsAreOwned, [Next]_vars PROVE RowsAreOwned'
  OBVIOUS
<1> USE KnownType
<1>1. fetches \in Nat /\ fetches' \in Nat /\ fetches <= fetches'
  BY NextType DEF TypeOK, Next, Step, Fault, Tick, RefreshDueAdapters, RefreshAll,
     BeginRun, SkipAdapter, FetchLive, FetchFallsBack, FetchFails, ReplaceSucceeds,
     ReplaceRefused, ReplaceFails, CommitUnacknowledged, ReplaceThrows, Publish,
     JobStops, vars
<1>2. ASSUME Known' \subseteq Known PROVE RowsAreOwned'
  BY <1>1, <1>2, OwnedCopies DEF RowsAreOwned
<1>3. CASE FetchLive
  <2>1. PICK file \in FilesOf[Current] : Fetched(Listed(Current, file))
    BY <1>3 DEF FetchLive
  <2>2. Current \in Providers
    BY <1>3, CurrentType DEF FetchLive, Fetching
  <2> DEFINE new == Listed(Current, file)
  <2>3. \A r \in new : r.id[1] = fetches /\ r.provider = Current
    BY <1>1, <2>2, ListedRows, ConstantTypes
  <2>4. Fetched(new)
    BY <2>1
  <2> HIDE DEF new
  <2>5. Owned(Known \cup new, fetches + 1) /\ Known \cup new \subseteq Rows
    <3>1. new \subseteq Rows
      BY <1>1, <2>2, ListedRows, ConstantTypes DEF new
    <3>2. QED
      BY <1>1, <2>3, <3>1, OwnedNew DEF RowsAreOwned
  <2>6. Known' \subseteq Known \cup new
    BY <1>3, <2>4 DEF FetchLive, Fetched, ProviderDone, NextAdapter, Known
  <2>7. fetches' = fetches + 1
    BY <1>3 DEF FetchLive
  <2>8. QED
    BY <1>1, <2>5, <2>6, <2>7 DEF RowsAreOwned, Owned
<1>4. CASE FetchFallsBack
  <2> DEFINE rows == MarkedStale(RowsOf(Current))
  <2>1. \A r \in rows : \E s \in Known : s.id = r.id /\ s.provider = r.provider
    BY MarkedRows DEF RowsOf, Known
  <2>2. Fetched(rows) /\ modified' \subseteq modified \cup rows
        /\ table' = table /\ added' = added
    BY <1>4 DEF FetchFallsBack
  <2> HIDE DEF rows
  <2>3. Known' \subseteq Known \cup rows
    BY <2>2 DEF Fetched, ProviderDone, NextAdapter, Known
  <2>4. \A r \in Known' : \E s \in Known : s.id = r.id /\ s.provider = r.provider
    BY <2>1, <2>3
  <2>5. QED
    BY <1>1, <2>4, OwnedCopies DEF RowsAreOwned
<1>5. CASE FetchFails
  BY <1>2, <1>5 DEF FetchFails, ProviderDone, NextAdapter, Known
<1>6. CASE SkipAdapter
  BY <1>2, <1>6 DEF SkipAdapter, NextAdapter, Known
<1>7. CASE ReplaceSucceeds
  BY <1>2, <1>7, SavedIsKnown DEF ReplaceSucceeds, TrackerAccepts, Known
<1>8. CASE ReplaceRefused
  BY <1>2, <1>8, SavedIsKnown
  DEF ReplaceRefused, TrackerKeeps, ReplaceThrows, ProviderDone, NextAdapter, Known
<1>9. CASE ReplaceFails
  BY <1>2, <1>9, SavedIsKnown
  DEF ReplaceFails, TrackerKeeps, TrackerAccepts, ReplaceThrows, ProviderDone,
      NextAdapter, Known
<1>10. CASE CommitUnacknowledged
  BY <1>2, <1>10, SavedIsKnown
  DEF CommitUnacknowledged, TrackerAccepts, ReplaceThrows, ProviderDone,
      NextAdapter, Known
<1>11. CASE Publish
  BY <1>2, <1>11 DEF Publish, ProviderDone, NextAdapter, Known
<1>12. CASE JobStops
  BY <1>2, <1>12 DEF JobStops, Known
<1>13. CASE Tick
  BY <1>2, <1>13 DEF Tick, Known
<1>14. ASSUME NEW all \in BOOLEAN, BeginRun(all) PROVE RowsAreOwned'
  BY <1>2, <1>14 DEF BeginRun, Known
<1>15. CASE UNCHANGED vars
  BY <1>2, <1>15 DEF vars, Known
<1>16. QED
  BY <1>3, <1>4, <1>5, <1>6, <1>7, <1>8, <1>9, <1>10, <1>11, <1>12, <1>13, <1>14,
     <1>15
  DEF Next, Step, Fault, RefreshDueAdapters, RefreshAll

-----------------------------------------------------------------------------
(* What is about to be stored, and what the tracker holds. *)

\* The rows of a fetch are handed on together with the adapter they are of.
LEMMA FetchedEntries ==
    ASSUME NEW rows, Fetched(rows), \A r \in rows : r.provider = Current
    PROVE  /\ EntriesOK'
           /\ pc' = "replace" => entries' = rows
           /\ pc' # "replace" => rows = {}
<1>1. CASE rows = {}
  BY <1>1 DEF Fetched, ProviderDone, NextAdapter, EntriesOK
<1>2. CASE rows # {}
  BY <1>2 DEF Fetched, EntriesOK, loop, Current
<1>3. QED
  BY <1>1, <1>2

LEMMA NextEntries == TypeOK /\ EntriesOK /\ [Next]_vars => EntriesOK'
<1> SUFFICES ASSUME TypeOK, EntriesOK, [Next]_vars PROVE EntriesOK'
  OBVIOUS
<1>1. CASE FetchLive
  <2>1. PICK file \in FilesOf[Current] : Fetched(Listed(Current, file))
    BY <1>1 DEF FetchLive
  <2>2. Current \in Providers
    BY <1>1, CurrentType DEF FetchLive, Fetching
  <2>3. \A r \in Listed(Current, file) : r.provider = Current
    BY <2>2, ListedRows, ConstantTypes DEF TypeOK
  <2>4. QED
    BY <2>1, <2>3, FetchedEntries
<1>2. CASE FetchFallsBack
  <2>1. Fetched(MarkedStale(RowsOf(Current)))
    BY <1>2 DEF FetchFallsBack
  <2>2. \A r \in MarkedStale(RowsOf(Current)) : r.provider = Current
    BY MarkedRows DEF RowsOf
  <2>3. QED
    BY <2>1, <2>2, FetchedEntries
<1>3. CASE Tick \/ UNCHANGED vars
  BY <1>3 DEF Tick, vars, loop, EntriesOK, Current
<1>4. CASE pc' # "replace"
  BY <1>4 DEF EntriesOK
<1>5. QED
  BY <1>1, <1>2, <1>3, <1>4
  DEF Next, Step, Fault, RefreshDueAdapters, RefreshAll, BeginRun, SkipAdapter,
      FetchFails, ReplaceSucceeds, ReplaceRefused, ReplaceFails, CommitUnacknowledged,
      ReplaceThrows, Publish, JobStops, ProviderDone, NextAdapter

LEMMA NextTracker ==
    TypeOK /\ EntriesOK /\ TrackerIsClean /\ [Next]_vars => TrackerIsClean'
<1> SUFFICES ASSUME TypeOK, EntriesOK, TrackerIsClean, [Next]_vars,
                    ~troubled'
             PROVE  /\ added' = {}
                    /\ pc' = "replace" => Ids(modified') \subseteq Ids(entries')
                    /\ pc' # "replace" => modified' = {}
  BY DEF TrackerIsClean, Ids
<1> DEFINE Goal == /\ added' = {}
                   /\ pc' = "replace" => Ids(modified') \subseteq Ids(entries')
                   /\ pc' # "replace" => modified' = {}
<1>1. CASE FetchLive
  <2>1. added' = {} /\ modified' = {}
    BY <1>1 DEF FetchLive, Fetching, TrackerIsClean
  <2>2. QED
    BY <2>1 DEF Ids
<1>2. CASE FetchFallsBack
  <2> DEFINE rows == MarkedStale(RowsOf(Current))
  <2>1. \A r \in rows : r.provider = Current
    BY MarkedRows DEF RowsOf
  <2>2. added' = {} /\ modified' \subseteq rows /\ Fetched(rows)
    BY <1>2 DEF FetchFallsBack, Fetching, TrackerIsClean
  <2> HIDE DEF rows
  <2>3. /\ pc' = "replace" => entries' = rows
        /\ pc' # "replace" => rows = {}
    BY <2>1, <2>2, FetchedEntries
  <2>4. QED
    BY <2>2, <2>3 DEF Ids
<1>3. CASE ReplaceSucceeds
  BY <1>3 DEF ReplaceSucceeds, TrackerAccepts, Ids
<1>4. CASE JobStops
  BY <1>4 DEF JobStops, Ids
<1>5. CASE Tick \/ UNCHANGED vars
  BY <1>5 DEF Tick, vars, TrackerIsClean, Ids
<1>6. CASE SkipAdapter \/ FetchFails \/ Publish
  BY <1>6 DEF SkipAdapter, FetchFails, Fetching, Publish, ProviderDone, NextAdapter,
     TrackerIsClean
<1>7. ASSUME NEW all \in BOOLEAN, BeginRun(all) PROVE Goal
  BY <1>7 DEF BeginRun, TrackerIsClean
<1>8. CASE ReplaceRefused \/ ReplaceFails \/ CommitUnacknowledged
  BY <1>8 DEF ReplaceRefused, ReplaceFails, CommitUnacknowledged, ReplaceThrows
<1>9. QED
  BY <1>1, <1>2, <1>3, <1>4, <1>5, <1>6, <1>7, <1>8
  DEF Next, Step, Fault, RefreshDueAdapters, RefreshAll

-----------------------------------------------------------------------------
(* The table. *)

\* With a clean tracker a replacement stores its rows and nothing else.
LEMMA CleanReplacement ==
    ASSUME TypeOK, EntriesOK, TrackerIsClean, ~troubled, pc = "replace"
    PROVE  Saved(Deleted(Current)) = Deleted(Current) \cup entries
<1>1. added = {} /\ Ids(modified) \subseteq Ids(entries)
  BY DEF TrackerIsClean
<1>2. ToInsert = entries
  BY <1>1 DEF ToInsert
<1>3. ToUpdate = {}
  BY <1>1 DEF ToUpdate, Ids
<1>4. {r \in Deleted(Current) : r.id \notin Ids(ToUpdate)} = Deleted(Current)
  BY <1>3 DEF Ids
<1>5. QED
  BY <1>2, <1>3, <1>4 DEF Saved

LEMMA NextExact ==
    TypeOK /\ EntriesOK /\ TrackerIsClean /\ TableIsExact /\ [Next]_vars
        => TableIsExact'
<1> SUFFICES ASSUME TypeOK, EntriesOK, TrackerIsClean, TableIsExact, [Next]_vars,
                    ~troubled', NEW p \in Providers
             PROVE  RowsOf(p)' = result'[p]
  BY DEF TableIsExact
<1>1. CASE ReplaceSucceeds
  <2>1. table' = Deleted(Current) \cup entries
    BY <1>1, CleanReplacement DEF ReplaceSucceeds
  <2>2. result' = [result EXCEPT ![Current] = entries]
    BY <1>1 DEF ReplaceSucceeds
  <2>3. \A r \in entries : r.provider = Current
    BY <1>1 DEF ReplaceSucceeds, EntriesOK
  <2>4. Current \in Providers
    BY <1>1, CurrentType DEF ReplaceSucceeds
  <2>5. CASE p = Current
    BY <2>1, <2>2, <2>3, <2>4, <2>5 DEF RowsOf, Deleted, TypeOK
  <2>6. CASE p # Current
    <3>1. RowsOf(p)' = RowsOf(p)
      BY <2>1, <2>3, <2>6 DEF RowsOf, Deleted
    <3>2. result'[p] = result[p]
      BY <2>2, <2>6 DEF TypeOK
    <3>3. QED
      BY <1>1, <3>1, <3>2 DEF ReplaceSucceeds, TableIsExact
  <2>7. QED
    BY <2>5, <2>6
<1>2. CASE JobStops
  BY <1>2 DEF JobStops, RowsOf
<1>3. CASE UNCHANGED <<table, result, troubled>>
  BY <1>3 DEF RowsOf, TableIsExact
<1>4. CASE ReplaceRefused \/ ReplaceFails \/ CommitUnacknowledged
  BY <1>4 DEF ReplaceRefused, ReplaceFails, CommitUnacknowledged, ReplaceThrows
<1>5. QED
  BY <1>1, <1>2, <1>3, <1>4
  DEF Next, Step, Fault, RefreshDueAdapters, RefreshAll, Tick, BeginRun, SkipAdapter,
      FetchLive, FetchFallsBack, FetchFails, Publish, vars

\* A transaction that commits leaves no provider that had rows without any.
LEMMA ReplacementKeepsPrices ==
    ASSUME RefreshInvariant, pc = "replace", table' = Saved(Deleted(Current)),
           NEW p \in Providers, RowsOf(p) # {}
    PROVE  RowsOf(p)' # {}
<1>1. CASE p = Current
  <2>1. PICK e \in entries : e.provider = Current
    BY DEF RefreshInvariant, EntriesOK
  <2>2. e \in table'
    BY DEF Saved, ToInsert
  <2>3. QED
    BY <1>1, <2>1, <2>2 DEF RowsOf
<1>2. CASE p # Current
  <2>1. PICK r \in RowsOf(p) : TRUE
    OBVIOUS
  <2>2. r \in table /\ r.provider = p /\ r \in Deleted(Current) /\ r \in Known
    BY <1>2 DEF RowsOf, Deleted, Known
  <2>3. CASE r.id \in Ids(ToUpdate)
    <3>1. PICK u \in ToUpdate : u.id = r.id
      BY <2>3 DEF Ids
    <3>2. u \in Known /\ u \in table'
      BY SavedIsKnown DEF Saved
    <3>3. u.provider = p
      BY <2>2, <3>1, <3>2 DEF RefreshInvariant, RowsAreOwned, Owned
    <3>4. QED
      BY <3>2, <3>3 DEF RowsOf
  <2>4. CASE r.id \notin Ids(ToUpdate)
    <3>1. r \in table'
      BY <2>2, <2>4 DEF Saved
    <3>2. QED
      BY <2>2, <3>1 DEF RowsOf
  <2>5. QED
    BY <2>3, <2>4
<1>3. QED
  BY <1>1, <1>2

-----------------------------------------------------------------------------
(* The theorems. *)

\* RefreshInvariant is an invariant: rows have one owner, a replacement stores rows
\* of its own provider, the tracker is clean until a replacement throws.
THEOREM RefreshInvariantHolds == Spec => []RefreshInvariant
<1>1. Init => RefreshInvariant
  <2> SUFFICES ASSUME Init PROVE RefreshInvariant
    OBVIOUS
  <2>1. EntriesOK /\ TrackerIsClean /\ TableIsExact
    BY DEF Init, EntriesOK, TrackerIsClean, TableIsExact, RowsOf
  <2>2. QED
    BY <2>1, InitType, InitOwned DEF RefreshInvariant
<1>2. RefreshInvariant /\ [Next]_vars => RefreshInvariant'
  BY NextType, NextOwned, NextEntries, NextTracker, NextExact DEF RefreshInvariant
<1>3. QED
  BY <1>1, <1>2, PTL DEF Spec

\* TableIsExact: until a replacement throws, the table holds for each provider
\* exactly what was last fetched for it.
THEOREM TableStaysExact == Spec => []TableIsExact
<1>1. RefreshInvariant => TableIsExact
  BY DEF RefreshInvariant
<1>2. QED
  BY <1>1, RefreshInvariantHolds, PTL

\* PricesStay: no failure and no file takes away all prices of a provider.
THEOREM PricesAlwaysStay == Spec => PricesStay
<1>1. RefreshInvariant /\ [Next]_vars
        => [\A p \in Providers : RowsOf(p) # {} => RowsOf(p)' # {}]_vars
  <2> SUFFICES ASSUME RefreshInvariant, [Next]_vars,
                      NEW p \in Providers, RowsOf(p) # {}
               PROVE  RowsOf(p)' # {}
    OBVIOUS
  <2>1. CASE ReplaceSucceeds \/ CommitUnacknowledged
    BY <2>1, ReplacementKeepsPrices DEF ReplaceSucceeds, CommitUnacknowledged
  <2>2. CASE UNCHANGED table
    BY <2>2 DEF RowsOf
  <2>3. QED
    BY <2>1, <2>2
    DEF Next, Step, Fault, RefreshDueAdapters, RefreshAll, Tick, BeginRun, SkipAdapter,
        FetchLive, FetchFallsBack, FetchFails, ReplaceRefused, ReplaceFails, Publish,
        JobStops, vars
<1>2. QED
  BY <1>1, RefreshInvariantHolds, PTL DEF Spec, PricesStay
=============================================================================
