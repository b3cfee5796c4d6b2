------------------------- MODULE UserBudgetCallProofs --------------------------
(***************************************************************************)
(* What a call of UserBudgetGrain relies on, for all values of its         *)
(* constants: the age of the budget it decides with, and how often a       *)
(* request that is sent again and again is charged.                        *)
(***************************************************************************)
EXTENDS UserBudgetGrainProofs

-----------------------------------------------------------------------------
(* The cached budget. *)

\* The two times BudgetWithinTtl compares are read from one clock.
OneClock == \A s \in Slots : LagOf[s] = 0

\* A budget that was in force at time t: if another one is, it came at t or later.
HeldAt(c, p, budget, t) ==
    budget # effective[c][p].budget => effective[c][p].since >= t

\* What an activation knows of the budget: its cache held when it was loaded, and so
\* does what the store answered; what it decides with was replaced within the TTL.
BudgetOK(s) ==
    /\ cache[s].loadedAt >= 0 =>
          /\ cache[s].period \in Periods /\ cache[s].loadedAt <= now
          /\ HeldAt(Caller(s), cache[s].period, cache[s].budget, cache[s].loadedAt)
    /\ pc[s] \in {"resolve", "resolved"} => call[s].askedAt <= now
    /\ pc[s] = "resolved" =>
          HeldAt(Caller(s), call[s].period, call[s].budget, call[s].askedAt)
    /\ pc[s] = "decide" =>
          /\ cache[s].period \in Periods /\ call[s].askedAt <= now
          /\ call[s].budget # effective[Caller(s)][cache[s].period].budget =>
                call[s].askedAt - effective[Caller(s)][cache[s].period].since < BudgetCacheTtl

BudgetInvariant ==
    /\ TypeOK
    /\ \A c \in Callers, p \in Periods : effective[c][p].since <= now
    /\ \A s \in Slots : BudgetOK(s)

LEMMA ClockShowsNow ==
    ASSUME OneClock, TypeOK, NEW s \in Slots
    PROVE  Clock(s) = now /\ now \in Nat
BY ClockAssumption DEF OneClock, Clock, TypeOK

LEMMA BudgetTypes ==
    ASSUME TypeOK, NEW s \in Slots
    PROVE  /\ Caller(s) \in Callers
           /\ cache[s].loadedAt \in Int /\ call[s].askedAt \in Int
           /\ \A c \in Callers, p \in Periods : effective[c][p].since \in Int
BY KeysAssumption DEF TypeOK, Caller, CacheEntries, Calls

\* Nothing that leaves the time, the budgets and the slot alone concerns the slot.
LEMMA BudgetKept ==
    ASSUME NEW s \in Slots, BudgetOK(s), UNCHANGED <<now, effective>>,
           cache'[s] = cache[s], pc'[s] = pc[s], call'[s] = call[s]
    PROVE  BudgetOK(s)'
BY DEF BudgetOK, HeldAt, Caller

\* Nor does a step that takes the slot elsewhere, while its cache stays.
LEMMA BudgetForgotten ==
    ASSUME NEW s \in Slots, BudgetOK(s), UNCHANGED <<now, effective>>,
           cache'[s] = cache[s] \/ cache'[s] = NoCache,
           pc'[s] \notin {"resolve", "resolved", "decide"}
    PROVE  BudgetOK(s)'
BY DEF BudgetOK, HeldAt, Caller, NoCache

LEMMA BudgetTick ==
    ASSUME BudgetInvariant, Tick
    PROVE  BudgetInvariant'
<1>1. TypeOK'
  BY TypeOKNext DEF BudgetInvariant, Next
<1>2. now \in Int /\ now' = now + 1
  BY DEF BudgetInvariant, TypeOK, Tick
<1>3. ASSUME NEW c \in Callers, NEW p \in Periods
      PROVE  effective'[c][p].since <= now'
  BY <1>2 DEF BudgetInvariant, TypeOK, Tick
<1>4. ASSUME NEW s \in Slots
      PROVE  BudgetOK(s)'
  <2>1. cache[s].loadedAt \in Int /\ call[s].askedAt \in Int
    BY BudgetTypes DEF BudgetInvariant
  <2>2. BudgetOK(s)
    BY DEF BudgetInvariant
  <2> QED  BY <1>2, <2>1, <2>2 DEF Tick, BudgetOK, HeldAt, Caller
<1> QED  BY <1>1, <1>3, <1>4 DEF BudgetInvariant

\* An edit happens now, and nothing was loaded or asked later than now.
LEMMA BudgetEdit ==
    ASSUME BudgetInvariant, BudgetCacheTtl > 0,
           NEW c \in Callers, NEW p \in Periods, NEW b \in Budgets, ChangeBudget(c, p, b)
    PROVE  BudgetInvariant'
<1>1. TypeOK'
  BY TypeOKNext DEF BudgetInvariant, Next
<1>2. now' = now /\ now \in Int /\ BudgetCacheTtl \in Nat
  BY ClockAssumption DEF BudgetInvariant, TypeOK, ChangeBudget
<1>3. ASSUME NEW d \in Callers, NEW q \in Periods
      PROVE  \/ effective'[d][q] = effective[d][q]
             \/ effective'[d][q].since = now
  BY DEF BudgetInvariant, TypeOK, ChangeBudget
<1>4. ASSUME NEW d \in Callers, NEW q \in Periods
      PROVE  effective'[d][q].since <= now'
  BY <1>2, <1>3 DEF BudgetInvariant
<1>5. ASSUME NEW s \in Slots
      PROVE  BudgetOK(s)'
  <2>1. /\ Caller(s) \in Callers /\ cache[s].loadedAt \in Int /\ call[s].askedAt \in Int
        /\ Caller(s)' = Caller(s) /\ cache' = cache /\ call' = call /\ pc' = pc
    BY BudgetTypes DEF BudgetInvariant, ChangeBudget, Caller
  <2>2. BudgetOK(s) /\ (pc[s] \in {"resolve", "resolved"} => call[s].period \in Periods)
    BY DEF BudgetInvariant, TypeOK, AwaitTypeOK
  <2>3. cache'[s].loadedAt >= 0 =>
          /\ cache'[s].period \in Periods /\ cache'[s].loadedAt <= now'
          /\ HeldAt(Caller(s), cache[s].period, cache[s].budget, cache[s].loadedAt)'
    BY <1>2, <1>3, <2>1, <2>2 DEF BudgetOK, HeldAt
  <2>4. pc'[s] = "resolved" =>
          HeldAt(Caller(s), call[s].period, call[s].budget, call[s].askedAt)'
    BY <1>2, <1>3, <2>1, <2>2 DEF BudgetOK, HeldAt
  <2>5. pc'[s] = "decide" =>
          /\ cache'[s].period \in Periods /\ call'[s].askedAt <= now'
          /\ call'[s].budget # effective'[Caller(s)][cache[s].period].budget =>
                call[s].askedAt - effective'[Caller(s)][cache[s].period].since < BudgetCacheTtl
    BY <1>2, <1>3, <2>1, <2>2 DEF BudgetOK
  <2> QED  BY <1>2, <2>1, <2>2, <2>3, <2>4, <2>5 DEF BudgetOK
<1> QED  BY <1>1, <1>4, <1>5 DEF BudgetInvariant

\* The four steps of GetEffectiveBudgetAsync.
LEMMA BudgetAsked ==
    ASSUME OneClock, BudgetInvariant, BudgetCacheTtl > 0, NEW s \in Slots,
           CachedBudget(s) \/ AskBudget(s) \/ ResolveBudget(s) \/ LoadBudget(s)
    PROVE  BudgetOK(s)'
<1>1. /\ Clock(s) = now /\ now \in Nat /\ BudgetCacheTtl \in Nat
      /\ Caller(s) \in Callers /\ cache[s].loadedAt \in Int /\ call[s].askedAt \in Int
      /\ BudgetOK(s)
  BY ClockShowsNow, BudgetTypes, ClockAssumption DEF BudgetInvariant
<1>2. now' = now /\ effective' = effective /\ Caller(s)' = Caller(s)
  BY DEF CachedBudget, AskBudget, ResolveBudget, LoadBudget, outside, Caller
<1>3. /\ pc \in [Slots -> PcValues] /\ cache \in [Slots -> CacheEntries]
      /\ call \in [Slots -> Calls] /\ call[s] \in Calls
  BY DEF BudgetInvariant, TypeOK
<1>4. CASE CachedBudget(s)
  <2>1. /\ pc'[s] = "decide" /\ cache' = cache
        /\ call'[s].budget = cache[s].budget /\ call'[s].askedAt = now
        /\ cache[s].loadedAt >= 0 /\ now - cache[s].loadedAt < BudgetCacheTtl
    BY <1>1, <1>3, <1>4 DEF CachedBudget, CacheIsFresh, Calls
  <2>2. effective[Caller(s)][cache[s].period].since \in Int
    BY <1>1, <2>1, BudgetTypes DEF BudgetInvariant, BudgetOK
  <2> QED  BY <1>1, <1>2, <2>1, <2>2 DEF BudgetOK, HeldAt
<1>5. CASE AskBudget(s)
  <2>1. pc'[s] = "resolve" /\ cache' = cache /\ call'[s].askedAt = now
    BY <1>1, <1>3, <1>5 DEF AskBudget, Calls
  <2> QED  BY <1>1, <1>2, <2>1 DEF BudgetOK, HeldAt
<1>6. CASE ResolveBudget(s)
  <2>1. /\ pc[s] = "resolve" /\ pc'[s] = "resolved" /\ cache' = cache
        /\ call'[s].askedAt = call[s].askedAt /\ call'[s].period = call[s].period
        /\ call'[s].budget = effective[Caller(s)][call[s].period].budget
    BY <1>3, <1>6 DEF ResolveBudget, Calls
  <2> QED  BY <1>1, <1>2, <2>1 DEF BudgetOK, HeldAt
<1>7. CASE LoadBudget(s)
  <2>1. /\ pc[s] = "resolved" /\ pc'[s] = "decide" /\ call' = call
        /\ cache'[s].budget = call[s].budget /\ cache'[s].loadedAt = call[s].askedAt
        /\ cache'[s].period = call[s].period
    BY <1>3, <1>7 DEF LoadBudget
  <2>2. call[s].period \in Periods
    BY <2>1 DEF BudgetInvariant, TypeOK, AwaitTypeOK
  <2>3. effective[Caller(s)][call[s].period].since \in Int
    BY <1>1, <2>2, BudgetTypes DEF BudgetInvariant
  <2>4. /\ call[s].askedAt <= now
        /\ HeldAt(Caller(s), call[s].period, call[s].budget, call[s].askedAt)
    BY <1>1, <2>1 DEF BudgetOK
  <2> QED  BY <1>1, <1>2, <2>1, <2>2, <2>3, <2>4 DEF BudgetOK, HeldAt
<1> QED  BY <1>4, <1>5, <1>6, <1>7

\* Every other step of a slot takes it away from the budget.
LEMMA BudgetLeft ==
    ASSUME BudgetInvariant, NEW s \in Slots,
           \/ Activate(s) \/ Deactivate(s) \/ CheckBudget(s)
           \/ \E r \in Requests : CaptureUsage(s, r)
           \/ Fault(s)
           \/ Step(s) /\ ~(CachedBudget(s) \/ AskBudget(s) \/ ResolveBudget(s) \/ LoadBudget(s))
    PROVE  BudgetOK(s)'
<1> USE DEF outside
<1>1. /\ pc \in [Slots -> PcValues] /\ cache \in [Slots -> CacheEntries] /\ BudgetOK(s)
  BY DEF BudgetInvariant, TypeOK
<1>2. \A c : AfterPeriod(c) \notin {"resolve", "resolved", "decide"}
  BY DEF AfterPeriod
<1>3. CASE Activate(s)
  BY <1>1, <1>3, BudgetForgotten DEF Activate
<1>4. CASE Deactivate(s) \/ Crash(s) \/ WriteConflicts(s)
  BY <1>1, <1>4, BudgetForgotten DEF Deactivate, Crash, WriteConflicts, Discard
<1>5. CASE CheckBudget(s) \/ \E r \in Requests : CaptureUsage(s, r)
  <2>1. PICK c : BeginCall(s, c)
    BY <1>5 DEF CheckBudget, CaptureUsage
  <2>2. /\ pc'[s] \notin {"resolve", "resolved", "decide"} /\ cache' = cache
        /\ now' = now /\ effective' = effective
    BY <1>1, <1>2, <2>1 DEF BeginCall, PeriodIsCurrent, RollOver
  <2> QED  BY <1>1, <2>2, BudgetForgotten
<1>6. CASE CallFails(s) \/ WriteUnacknowledged(s) \/ AppendUnacknowledged(s)
  BY <1>1, <1>6, BudgetForgotten
     DEF CallFails, WriteUnacknowledged, AppendUnacknowledged, Return
<1>7. CASE WriteSucceeds(s)
  BY <1>1, <1>2, <1>7, BudgetForgotten DEF WriteSucceeds
<1>8. CASE AnswerDuplicate(s) \/ NotADuplicate(s) \/ RejectUnknownModel(s) \/ Accrue(s)
  BY <1>1, <1>8, BudgetForgotten
     DEF AnswerDuplicate, NotADuplicate, RejectUnknownModel, Accrue, Return
<1>9. CASE AnswerCheck(s) \/ RejectEvent(s) \/ CreateEvent(s) \/ SkipAppend(s)
           \/ BeginInsert(s) \/ AppendEvent(s) \/ InsertRefused(s)
  BY <1>1, <1>9, BudgetForgotten
     DEF AnswerCheck, RejectEvent, CreateEvent, SkipAppend, BeginInsert, AppendEvent,
         InsertRefused, Captured, Return
<1> QED  BY <1>3, <1>4, <1>5, <1>6, <1>7, <1>8, <1>9 DEF Fault, Step

SlotStep(s) ==
    \/ Activate(s) \/ Deactivate(s) \/ CheckBudget(s)
    \/ \E r \in Requests : CaptureUsage(s, r)
    \/ Fault(s) \/ Step(s)

\* A slot's step is its own.
LEMMA BudgetElsewhere ==
    ASSUME TypeOK, NEW s \in Slots, NEW t \in Slots \ {s}, SlotStep(s)
    PROVE  cache'[t] = cache[t] /\ pc'[t] = pc[t] /\ call'[t] = call[t]
<1> USE DEF outside
<1>1. /\ pc \in [Slots -> PcValues] /\ cache \in [Slots -> CacheEntries]
      /\ call \in [Slots -> Calls]
  BY DEF TypeOK
<1>2. CASE Activate(s)
  BY <1>1, <1>2 DEF Activate
<1>3. CASE Deactivate(s) \/ Crash(s) \/ WriteConflicts(s)
  BY <1>1, <1>3 DEF Deactivate, Crash, WriteConflicts, Discard
<1>4. CASE CheckBudget(s) \/ \E r \in Requests : CaptureUsage(s, r)
  <2>1. PICK c : BeginCall(s, c)
    BY <1>4 DEF CheckBudget, CaptureUsage
  <2> QED  BY <1>1, <2>1 DEF BeginCall, PeriodIsCurrent, RollOver
<1>5. CASE CallFails(s) \/ WriteUnacknowledged(s) \/ AppendUnacknowledged(s)
  BY <1>1, <1>5 DEF CallFails, WriteUnacknowledged, AppendUnacknowledged, Return
<1>6. CASE WriteSucceeds(s)
  BY <1>1, <1>6 DEF WriteSucceeds
<1>7. CASE AnswerDuplicate(s) \/ NotADuplicate(s) \/ RejectUnknownModel(s) \/ Accrue(s)
  BY <1>1, <1>7 DEF AnswerDuplicate, NotADuplicate, RejectUnknownModel, Accrue, Return
<1>8. CASE CachedBudget(s) \/ AskBudget(s) \/ ResolveBudget(s) \/ LoadBudget(s)
  BY <1>1, <1>8 DEF CachedBudget, AskBudget, ResolveBudget, LoadBudget
<1>9. CASE AnswerCheck(s) \/ RejectEvent(s) \/ CreateEvent(s) \/ SkipAppend(s)
           \/ BeginInsert(s) \/ AppendEvent(s) \/ InsertRefused(s)
  BY <1>1, <1>9 DEF AnswerCheck, RejectEvent, CreateEvent, SkipAppend, BeginInsert,
                    AppendEvent, InsertRefused, Captured, Return
<1> QED  BY <1>2, <1>3, <1>4, <1>5, <1>6, <1>7, <1>8, <1>9 DEF SlotStep, Fault, Step

LEMMA BudgetMoment ==
    ASSUME NEW s \in Slots, SlotStep(s)
    PROVE  now' = now /\ effective' = effective
<1> USE DEF outside
<1> QED  BY DEF SlotStep, Activate, Deactivate, CheckBudget, CaptureUsage, BeginCall,
            Fault, Crash, CallFails, WriteUnacknowledged, AppendUnacknowledged,
            Step, WriteSucceeds, WriteConflicts, AnswerDuplicate, NotADuplicate,
            RejectUnknownModel, Accrue, CachedBudget, AskBudget, ResolveBudget,
            LoadBudget, AnswerCheck, RejectEvent, CreateEvent, SkipAppend,
            BeginInsert, AppendEvent, InsertRefused

LEMMA BudgetSlotStep ==
    ASSUME OneClock, BudgetCacheTtl > 0, BudgetInvariant, TypeOK',
           NEW s \in Slots, SlotStep(s)
    PROVE  BudgetInvariant'
<1>1. TypeOK /\ \A t \in Slots : BudgetOK(t)
  BY DEF BudgetInvariant
<1>2. BudgetOK(s)'
  <2>1. CASE CachedBudget(s) \/ AskBudget(s) \/ ResolveBudget(s) \/ LoadBudget(s)
    BY <2>1, BudgetAsked
  <2>2. CASE ~(CachedBudget(s) \/ AskBudget(s) \/ ResolveBudget(s) \/ LoadBudget(s))
    BY <2>2, BudgetLeft DEF SlotStep
  <2> QED  BY <2>1, <2>2
<1>3. now' = now /\ effective' = effective
  BY <1>1, BudgetMoment
<1>4. ASSUME NEW t \in Slots, t # s
      PROVE  BudgetOK(t)'
  BY <1>1, <1>3, <1>4, BudgetElsewhere, BudgetKept
<1> QED  BY <1>2, <1>3, <1>4 DEF BudgetInvariant

LEMMA BudgetInit == Init => BudgetInvariant
<1> SUFFICES ASSUME Init
             PROVE  BudgetInvariant
  OBVIOUS
<1>1. TypeOK
  BY TypeOKInit
<1>2. ASSUME NEW c \in Callers, NEW p \in Periods
      PROVE  effective[c][p].since <= now
  <2>1. effective[c][p].since = -BudgetCacheTtl
    BY DEF Init
  <2> QED  BY <2>1, ClockAssumption DEF Init
<1>3. ASSUME NEW s \in Slots
      PROVE  BudgetOK(s)
  BY DEF Init, BudgetOK, NoCache
<1> QED  BY <1>1, <1>2, <1>3 DEF BudgetInvariant

LEMMA BudgetNext ==
    ASSUME OneClock, BudgetCacheTtl > 0, BudgetInvariant, [Next]_vars
    PROVE  BudgetInvariant'
<1>1. TypeOK'
  BY TypeOKNext DEF BudgetInvariant
<1>2. CASE Tick
  BY <1>2, BudgetTick
<1>3. ASSUME NEW c \in Callers, NEW p \in Periods, NEW b \in Budgets, ChangeBudget(c, p, b)
      PROVE  BudgetInvariant'
  BY <1>3, BudgetEdit
<1>4. ASSUME NEW s \in Slots, SlotStep(s)
      PROVE  BudgetInvariant'
  BY <1>1, <1>4, BudgetSlotStep
<1>5. CASE UNCHANGED vars
  <2>1. ASSUME NEW s \in Slots
        PROVE  BudgetOK(s)'
    BY <1>5, BudgetKept DEF BudgetInvariant, vars
  <2>2. now' = now /\ effective' = effective
    BY <1>5 DEF vars
  <2> QED  BY <1>1, <2>1, <2>2 DEF BudgetInvariant
<1> QED  BY <1>2, <1>3, <1>4, <1>5 DEF Next, SlotStep

\* A budget that is no longer in force is decided with only while it was replaced
\* less than the time-to-live before the call asked (GetEffectiveBudgetAsync, lines
\* 210-223), in every interleaving of calls, edits and failures.
THEOREM BudgetsAreFresh ==
    ASSUME OneClock, BudgetCacheTtl > 0
    PROVE  Spec => []BudgetWithinTtl
<1>1. BudgetInvariant => BudgetWithinTtl
  BY DEF BudgetInvariant, BudgetOK, BudgetWithinTtl
<1> QED  BY <1>1, BudgetInit, BudgetNext, PTL DEF Spec

-----------------------------------------------------------------------------
(* Requests that are sent again. *)

WithId == {r \in Requests : IdOf[r] # NoId}
Id(r) == <<IdOf[r], 0>>

\* The cost of r is in the spend in memory, and its row still to come.
Carrying(s, r) ==
    call[s].req = r /\ pc[s] \in {"accrue", "append", "insert"} \cup BudgetPcs

InMemory(s, r) == mem[s].tally[r]
InStore(s, r) == stored[KeyOf[s]].tally[r]

\* Without its row, r was charged by failed calls only; the call that charges it again
\* came to its accrual in that state.
RetryOK(s, r) ==
    /\ InMemory(s, r) <= 1 + faults /\ InStore(s, r) <= 1 + faults
    /\ pc[s] = "price" /\ call[s].req = r => InMemory(s, r) <= faults /\ InStore(s, r) <= faults
    /\ pc[s] = "accrue" /\ call[s].req = r => InStore(s, r) <= faults
    /\ ~Recorded(Id(r)) /\ ~Carrying(s, r) => InMemory(s, r) <= faults /\ InStore(s, r) <= faults

RetryInvariant ==
    /\ TypeOK
    /\ OneAccrualPerFault
    /\ \A s \in Slots, r \in WithId : RetryOK(s, r)

LEMMA TallyTypes ==
    ASSUME TypeOK, NEW s \in Slots, NEW r \in WithId
    PROVE  /\ InMemory(s, r) \in Nat /\ InStore(s, r) \in Nat /\ faults \in Nat
           /\ r \in Requests /\ r # NoRequest
BY FieldTypes, RequestsAssumption, ClockAssumption
   DEF InMemory, InStore, WithId, TypeOK, StateRows

LEMMA TallyUpdates ==
    ASSUME NEW n \in StateRows, NEW r \in WithId
    PROVE  /\ Written(n).tally[r] = n.tally[r]
           /\ NoRow.tally[r] = 0
           /\ \A p : Reset(n, p).tally[r] = 0
           /\ \A q \in Requests, x \in Int :
                 Charge(n, q, x).tally[r] = IF q = r THEN n.tally[r] + 1 ELSE n.tally[r]
<1>1. r \in Requests
  BY DEF WithId
<1>2. Written(n).tally = n.tally
  BY DEF Written, StateRows
<1>3. NoRow.tally[r] = 0 /\ \A p : Reset(n, p).tally[r] = 0
  BY <1>1 DEF NoRow, Reset, NoTally
<1>4. ASSUME NEW q \in Requests, NEW x \in Int
      PROVE  Charge(n, q, x).tally[r] = IF q = r THEN n.tally[r] + 1 ELSE n.tally[r]
  <2>1. n.tally \in [Requests -> Nat]
    BY DEF StateRows
  <2>2. Charge(n, q, x).tally = [n.tally EXCEPT ![q] = @ + 1]
    BY DEF Charge
  <2> QED  BY <1>1, <2>1, <2>2
<1> QED  BY <1>2, <1>3, <1>4

\* A row that names r makes it recorded; rows stay.
LEMMA RecordedStays ==
    ASSUME NEW r \in WithId, usageEvents \subseteq usageEvents', Recorded(Id(r))
    PROVE  Recorded(Id(r))'
BY DEF Recorded, Id

LEMMA EventIdIs ==
    ASSUME NEW r \in WithId, NEW c, c.req = r
    PROVE  EventId(c) = Id(r)
BY DEF EventId, Id, WithId

\* A step that moves the call on, and the tallies not at all.
LEMMA RetryMoves ==
    ASSUME NEW s \in Slots, NEW r \in WithId, RetryOK(s, r), UNCHANGED <<stored, faults>>,
           mem'[s] = mem[s],
           pc'[s] \in {"price", "accrue"} => call'[s].req # r,
           Recorded(Id(r)) => Recorded(Id(r))',
           Carrying(s, r) => Carrying(s, r)' \/ Recorded(Id(r))'
    PROVE  RetryOK(s, r)'
<1>1. InMemory(s, r)' = InMemory(s, r) /\ InStore(s, r)' = InStore(s, r)
  BY DEF InMemory, InStore
<1> QED  BY <1>1 DEF RetryOK

\* A failure pays for what was not recorded.
LEMMA RetryFails ==
    ASSUME TypeOK, TypeOK', NEW s \in Slots, NEW r \in WithId, RetryOK(s, r),
           faults' = faults + 1, pc'[s] \in {"idle", "down"},
           InMemory(s, r)' \in {0, InMemory(s, r)},
           InStore(s, r)' \in {InMemory(s, r), InStore(s, r)}
    PROVE  RetryOK(s, r)'
<1>1. InMemory(s, r) \in Nat /\ InStore(s, r) \in Nat /\ faults \in Nat
  BY TallyTypes
<1>2. InMemory(s, r)' <= faults' /\ InStore(s, r)' <= faults'
  BY <1>1 DEF RetryOK
<1> QED  BY <1>1, <1>2 DEF RetryOK

\* So does the end of an activation, which leaves the store as it is.
LEMMA RetryForgets ==
    ASSUME TypeOK, NEW s \in Slots, NEW r \in WithId, RetryOK(s, r),
           UNCHANGED <<stored, faults, usageEvents>>, mem'[s] = NoRow, pc'[s] = "down",
           ~Carrying(s, r) \/ InStore(s, r) <= faults
    PROVE  RetryOK(s, r)'
<1>1. InMemory(s, r) \in Nat /\ InStore(s, r) \in Nat /\ faults \in Nat
  BY TallyTypes
<1>2. InMemory(s, r)' = 0 /\ InStore(s, r)' = InStore(s, r)
  BY FieldTypes, TallyUpdates DEF InMemory, InStore
<1>3. Recorded(Id(r))' <=> Recorded(Id(r))
  BY DEF Recorded, Id
<1> QED  BY <1>1, <1>2, <1>3 DEF RetryOK

\* The steps of one activation leave the memory and the store of other grains alone.
LEMMA RetryElsewhere ==
    ASSUME TypeOK, NEW s \in Slots, SlotStep(s)
    PROVE  /\ \A t \in Slots \ {s} : mem'[t] = mem[t]
           /\ \A k \in Keys \ {KeyOf[s]} : stored'[k] = stored[k]
           /\ usageEvents \subseteq usageEvents'
           /\ faults' \in {faults, faults + 1}
<1> USE DEF outside
<1>1. /\ mem \in [Slots -> StateRows] /\ stored \in [Keys -> StateRows]
      /\ KeyOf[s] \in Keys
  BY FieldTypes DEF TypeOK
<1>2. CASE Activate(s)
  BY <1>1, <1>2 DEF Activate
<1>3. CASE Deactivate(s) \/ Crash(s) \/ WriteConflicts(s)
  BY <1>1, <1>3 DEF Deactivate, Crash, WriteConflicts, Discard
<1>4. CASE CheckBudget(s) \/ \E r \in Requests : CaptureUsage(s, r)
  <2>1. PICK c : BeginCall(s, c)
    BY <1>4 DEF CheckBudget, CaptureUsage
  <2> QED  BY <1>1, <2>1 DEF BeginCall, PeriodIsCurrent, RollOver
<1>5. CASE CallFails(s) \/ WriteUnacknowledged(s) \/ AppendUnacknowledged(s)
  BY <1>1, <1>5 DEF CallFails, WriteUnacknowledged, AppendUnacknowledged, Return, Persist,
                    InsertEvent
<1>6. CASE WriteSucceeds(s)
  BY <1>1, <1>6 DEF WriteSucceeds, Persist
<1>7. CASE AnswerDuplicate(s) \/ NotADuplicate(s) \/ RejectUnknownModel(s) \/ Accrue(s)
  BY <1>1, <1>7 DEF AnswerDuplicate, NotADuplicate, RejectUnknownModel, Accrue, Return
<1>8. CASE CachedBudget(s) \/ AskBudget(s) \/ ResolveBudget(s) \/ LoadBudget(s)
  BY <1>1, <1>8 DEF CachedBudget, AskBudget, ResolveBudget, LoadBudget
<1>9. CASE AnswerCheck(s) \/ RejectEvent(s) \/ CreateEvent(s) \/ SkipAppend(s)
           \/ BeginInsert(s) \/ AppendEvent(s) \/ InsertRefused(s)
  BY <1>1, <1>9 DEF AnswerCheck, RejectEvent, CreateEvent, SkipAppend, BeginInsert,
                    AppendEvent, InsertRefused, Captured, Return, InsertEvent
<1> QED  BY <1>2, <1>3, <1>4, <1>5, <1>6, <1>7, <1>8, <1>9 DEF SlotStep, Fault, Step

LEMMA RetryFaultStep ==
    ASSUME RetryInvariant, TypeOK', NEW s \in Slots, NEW r \in WithId, Fault(s)
    PROVE  RetryOK(s, r)'
<1> USE DEF outside
<1>1. /\ TypeOK /\ RetryOK(s, r) /\ KeyOf[s] \in Keys /\ mem[s] \in StateRows
      /\ mem \in [Slots -> StateRows] /\ stored \in [Keys -> StateRows]
      /\ pc \in [Slots -> PcValues]
  BY FieldTypes DEF RetryInvariant, TypeOK
<1>2. /\ faults' = faults + 1 /\ pc'[s] \in {"idle", "down"}
      /\ mem'[s] \in {NoRow, mem[s]}
      /\ stored'[KeyOf[s]] \in {Written(mem[s]), stored[KeyOf[s]]}
  BY <1>1 DEF Fault, Crash, CallFails, WriteUnacknowledged, AppendUnacknowledged, Discard,
              Return, Persist, InsertEvent
<1>3. InMemory(s, r)' \in {0, InMemory(s, r)}
  BY <1>1, <1>2, TallyUpdates DEF InMemory
<1>4. InStore(s, r)' \in {InMemory(s, r), InStore(s, r)}
  BY <1>1, <1>2, TallyUpdates DEF InMemory, InStore
<1> QED  BY <1>1, <1>2, <1>3, <1>4, RetryFails

LEMMA RetryCallBegins ==
    ASSUME RetryInvariant, TypeOK', NEW s \in Slots, NEW r \in WithId, NEW c, BeginCall(s, c)
    PROVE  RetryOK(s, r)'
<1> USE DEF outside
<1>1. /\ TypeOK /\ RetryOK(s, r) /\ KeyOf[s] \in Keys /\ mem[s] \in StateRows
      /\ mem \in [Slots -> StateRows] /\ pc \in [Slots -> PcValues]
      /\ call \in [Slots -> Calls]
  BY FieldTypes DEF RetryInvariant, TypeOK
<1>2. /\ ~Carrying(s, r) /\ call'[s] = c
      /\ stored' = stored /\ faults' = faults /\ usageEvents' = usageEvents
  BY <1>1 DEF BeginCall, Carrying, BudgetPcs
<1>3. Recorded(Id(r))' <=> Recorded(Id(r))
  BY <1>2 DEF Recorded, Id
<1>4. CASE PeriodIsCurrent(s, c)
  <2>1. mem'[s] = mem[s] /\ pc'[s] = AfterPeriod(c)
    BY <1>1, <1>4 DEF PeriodIsCurrent
  <2>2. pc'[s] \in {"price", "accrue"} => c.req # r
    BY <2>1, TallyTypes, <1>1 DEF AfterPeriod, IsCapture, WithId
  <2> QED  BY <1>1, <1>2, <1>3, <2>1, <2>2, RetryMoves
<1>5. CASE RollOver(s)
  <2>1. mem'[s] = Reset(mem[s], CurrentPeriod(s)) /\ pc'[s] = "rollover"
    BY <1>1, <1>5 DEF RollOver
  <2>2. InMemory(s, r)' = 0 /\ InStore(s, r)' = InStore(s, r)
    BY <1>1, <1>2, <2>1, TallyUpdates DEF InMemory, InStore
  <2> QED  BY <1>1, <1>2, <1>3, <2>1, <2>2, TallyTypes DEF RetryOK
<1> QED  BY <1>4, <1>5 DEF BeginCall

LEMMA RetryWrites ==
    ASSUME RetryInvariant, TypeOK', NEW s \in Slots, NEW r \in WithId, WriteSucceeds(s)
    PROVE  RetryOK(s, r)'
<1> USE DEF outside
<1>1. /\ TypeOK /\ RetryOK(s, r) /\ KeyOf[s] \in Keys /\ mem[s] \in StateRows
      /\ mem \in [Slots -> StateRows] /\ pc \in [Slots -> PcValues]
      /\ stored \in [Keys -> StateRows]
  BY FieldTypes DEF RetryInvariant, TypeOK
<1>2. /\ mem'[s] = Written(mem[s]) /\ stored'[KeyOf[s]] = Written(mem[s])
      /\ call' = call /\ faults' = faults /\ usageEvents' = usageEvents
      /\ pc[s] \in {"rollover", "accrue"}
      /\ pc'[s] = IF pc[s] = "rollover" THEN AfterPeriod(call[s]) ELSE "budget"
  BY <1>1 DEF WriteSucceeds, Persist, Writing
<1>3. InMemory(s, r)' = InMemory(s, r) /\ InStore(s, r)' = InMemory(s, r)
  BY <1>1, <1>2, TallyUpdates DEF InMemory, InStore
<1>4. Recorded(Id(r))' <=> Recorded(Id(r))
  BY <1>2 DEF Recorded, Id
<1>5. CASE pc[s] = "accrue"
  <2>1. Carrying(s, r)' <=> Carrying(s, r)
    BY <1>2, <1>5 DEF Carrying, BudgetPcs
  <2> QED  BY <1>1, <1>2, <1>3, <1>4, <1>5, <2>1 DEF RetryOK
<1>6. CASE pc[s] = "rollover"
  <2>1. ~Carrying(s, r) /\ (pc'[s] \in {"price", "accrue"} => call[s].req # r)
    BY <1>1, <1>2, <1>6, TallyTypes DEF Carrying, AfterPeriod, BudgetPcs, IsCapture, WithId
  <2> QED  BY <1>1, <1>2, <1>3, <1>4, <1>6, <2>1 DEF RetryOK
<1> QED  BY <1>2, <1>5, <1>6

LEMMA RetryAccrues ==
    ASSUME RetryInvariant, TypeOK', NEW s \in Slots, NEW r \in WithId,
           NotADuplicate(s) \/ Accrue(s)
    PROVE  RetryOK(s, r)'
<1> USE DEF outside
<1>1. /\ TypeOK /\ RetryOK(s, r) /\ KeyOf[s] \in Keys /\ mem[s] \in StateRows
      /\ mem \in [Slots -> StateRows] /\ pc \in [Slots -> PcValues]
      /\ call \in [Slots -> Calls] /\ call[s] \in Calls
      /\ InMemory(s, r) \in Nat /\ InStore(s, r) \in Nat /\ faults \in Nat
  BY FieldTypes, TallyTypes DEF RetryInvariant, TypeOK
<1>2. /\ stored' = stored /\ faults' = faults /\ usageEvents' = usageEvents
  BY DEF NotADuplicate, Accrue
<1>3. /\ Recorded(Id(r))' <=> Recorded(Id(r))
      /\ InStore(s, r)' = InStore(s, r)
  BY <1>2 DEF Recorded, Id, InStore
<1>4. CASE NotADuplicate(s)
  <2>1. /\ pc[s] = "dedupe" /\ pc'[s] = "price" /\ call' = call /\ mem' = mem
        /\ ~Recorded(EventId(call[s])) /\ ~Carrying(s, r)
    BY <1>1, <1>4 DEF NotADuplicate, Carrying, BudgetPcs
  <2>2. InMemory(s, r)' = InMemory(s, r)
    BY <2>1 DEF InMemory
  <2>3. call[s].req = r => ~Recorded(Id(r))
    BY <2>1, EventIdIs
  <2> QED  BY <1>1, <1>2, <1>3, <2>1, <2>2, <2>3 DEF RetryOK
<1>5. CASE Accrue(s)
  <2>1. pc[s] = "price" /\ pc'[s] = "accrue" /\ call[s].req \in Requests
    BY <1>1, <1>5 DEF Accrue, TypeOK, AwaitTypeOK, CapturePcs, IsCapture, Calls
  <2>2. PICK cost : /\ call' = [call EXCEPT ![s].cost = cost]
                    /\ mem'[s] = Charge(mem[s], call[s].req, cost)
    BY <1>1, <1>5 DEF Accrue
  <2>3. call'[s].req = call[s].req
    BY <1>1, <2>2 DEF Calls
  <2>4. InMemory(s, r)' = IF call[s].req = r THEN InMemory(s, r) + 1 ELSE InMemory(s, r)
    <3>1. Charge(mem[s], call[s].req, cost).tally = [mem[s].tally EXCEPT ![call[s].req] = @ + 1]
      BY DEF Charge
    <3>2. mem[s].tally \in [Requests -> Nat] /\ r \in Requests
      BY <1>1, TallyTypes DEF StateRows
    <3> QED  BY <2>1, <2>2, <3>1, <3>2 DEF InMemory
  <2>5. CASE call[s].req = r
    <3>1. Carrying(s, r)' /\ InMemory(s, r) <= faults /\ InStore(s, r) <= faults
      BY <1>1, <2>1, <2>3, <2>5 DEF Carrying, RetryOK
    <3> QED  BY <1>1, <1>2, <1>3, <2>1, <2>4, <2>5, <3>1 DEF RetryOK
  <2>6. CASE call[s].req # r
    <3>1. ~Carrying(s, r) /\ ~Carrying(s, r)'
      BY <2>3, <2>6 DEF Carrying
    <3> QED  BY <1>1, <1>2, <1>3, <2>1, <2>3, <2>4, <2>6, <3>1 DEF RetryOK
  <2> QED  BY <2>5, <2>6
<1> QED  BY <1>4, <1>5

\* The steps that move the call on only.
LEMMA RetryGoesOn ==
    ASSUME RetryInvariant, TypeOK', NonNegativeTokens, NEW s \in Slots, NEW r \in WithId,
           \/ AnswerDuplicate(s) \/ RejectUnknownModel(s)
           \/ CachedBudget(s) \/ AskBudget(s) \/ ResolveBudget(s) \/ LoadBudget(s)
           \/ AnswerCheck(s) \/ RejectEvent(s) \/ CreateEvent(s) \/ SkipAppend(s)
           \/ BeginInsert(s) \/ AppendEvent(s) \/ InsertRefused(s)
    PROVE  RetryOK(s, r)'
<1> USE DEF outside
<1>1. /\ TypeOK /\ RetryOK(s, r) /\ r \in Requests /\ r # NoRequest
      /\ pc \in [Slots -> PcValues] /\ call \in [Slots -> Calls] /\ call[s] \in Calls
  BY TallyTypes DEF RetryInvariant, TypeOK
<1>2. CASE AnswerDuplicate(s) \/ RejectUnknownModel(s) \/ AnswerCheck(s)
  <2>1. /\ ~Carrying(s, r) /\ pc'[s] = "idle"
        /\ stored' = stored /\ faults' = faults /\ mem' = mem /\ usageEvents' = usageEvents
    BY <1>1, <1>2 DEF AnswerDuplicate, RejectUnknownModel, AnswerCheck, Return, Carrying,
                      BudgetPcs, IsCapture
  <2>2. Recorded(Id(r)) => Recorded(Id(r))'
    BY <2>1 DEF Recorded, Id
  <2> QED  BY <1>1, <2>1, <2>2, RetryMoves
<1>3. CASE CachedBudget(s) \/ AskBudget(s) \/ ResolveBudget(s) \/ LoadBudget(s)
           \/ CreateEvent(s) \/ BeginInsert(s)
  <2>1. /\ pc'[s] \in {"append", "insert"} \cup BudgetPcs /\ call'[s].req = call[s].req
        /\ stored' = stored /\ faults' = faults /\ mem' = mem /\ usageEvents' = usageEvents
    BY <1>1, <1>3 DEF CachedBudget, AskBudget, ResolveBudget, LoadBudget, CreateEvent,
                      BeginInsert, BudgetPcs, Calls
  <2>2. Recorded(Id(r)) => Recorded(Id(r))'
    BY <2>1 DEF Recorded, Id
  <2>3. Carrying(s, r) => Carrying(s, r)'
    BY <2>1 DEF Carrying
  <2>4. pc'[s] \notin {"price", "accrue"}
    BY <2>1 DEF BudgetPcs
  <2> QED  BY <1>1, <2>1, <2>2, <2>3, <2>4, RetryMoves
<1>4. CASE RejectEvent(s)
  BY <1>1, <1>4 DEF RejectEvent, NonNegativeTokens, IsCapture, Calls
<1>5. CASE SkipAppend(s) \/ InsertRefused(s)
  <2>1. /\ pc'[s] = "idle" /\ pc[s] \in {"append", "insert"} /\ Recorded(EventId(call[s]))
        /\ stored' = stored /\ faults' = faults /\ mem' = mem /\ usageEvents' = usageEvents
    BY <1>1, <1>5 DEF SkipAppend, InsertRefused, Captured, Return
  <2>2. call[s].req = r => Recorded(Id(r))
    BY <2>1, EventIdIs
  <2>3. Recorded(Id(r)) => Recorded(Id(r))'
    BY <2>1 DEF Recorded, Id
  <2>4. Carrying(s, r) => Recorded(Id(r))'
    BY <2>2, <2>3 DEF Carrying
  <2> QED  BY <1>1, <2>1, <2>3, <2>4, RetryMoves
<1>6. CASE AppendEvent(s)
  <2>1. /\ pc'[s] = "idle" /\ pc[s] = "insert" /\ usageEvents' = usageEvents \cup {UsageEvent(s)}
        /\ stored' = stored /\ faults' = faults /\ mem' = mem
    BY <1>1, <1>6 DEF AppendEvent, InsertEvent, Captured, Return
  <2>2. call[s].req = r => Recorded(Id(r))'
    <3>1. UsageEvent(s).eventId = EventId(call[s])
      BY DEF UsageEvent
    <3> QED  BY <2>1, <3>1, EventIdIs DEF Recorded, Id
  <2>3. Recorded(Id(r)) => Recorded(Id(r))'
    BY <2>1, RecordedStays
  <2>4. Carrying(s, r) => Recorded(Id(r))'
    BY <2>2 DEF Carrying
  <2> QED  BY <1>1, <2>1, <2>3, <2>4, RetryMoves
<1> QED  BY <1>2, <1>3, <1>4, <1>5, <1>6

LEMMA RetryComesAndGoes ==
    ASSUME RetryInvariant, TypeOK', NEW s \in Slots, NEW r \in WithId,
           Activate(s) \/ Deactivate(s) \/ WriteConflicts(s)
    PROVE  RetryOK(s, r)'
<1> USE DEF outside
<1>1. /\ TypeOK /\ RetryOK(s, r) /\ pc \in [Slots -> PcValues]
      /\ mem \in [Slots -> StateRows]
  BY DEF RetryInvariant, TypeOK
<1>2. CASE Activate(s)
  <2>1. /\ ~Carrying(s, r) /\ pc'[s] = "idle" /\ mem'[s] = stored[KeyOf[s]]
        /\ stored' = stored /\ faults' = faults /\ usageEvents' = usageEvents
    BY <1>1, <1>2 DEF Activate, Carrying, BudgetPcs
  <2>2. InMemory(s, r)' = InStore(s, r) /\ InStore(s, r)' = InStore(s, r)
    BY <2>1 DEF InMemory, InStore
  <2>3. Recorded(Id(r))' <=> Recorded(Id(r))
    BY <2>1 DEF Recorded, Id
  <2> QED  BY <1>1, <2>1, <2>2, <2>3 DEF RetryOK
<1>3. CASE Deactivate(s) \/ WriteConflicts(s)
  <2>1. /\ pc'[s] = "down" /\ mem'[s] = NoRow
        /\ stored' = stored /\ faults' = faults /\ usageEvents' = usageEvents
        /\ pc[s] \in {"idle", "rollover", "accrue"}
    BY <1>1, <1>3 DEF Deactivate, WriteConflicts, Writing, Discard
  <2>2. ~Carrying(s, r) \/ InStore(s, r) <= faults
    BY <1>1, <2>1 DEF Carrying, RetryOK, BudgetPcs
  <2> QED  BY <1>1, <2>1, <2>2, RetryForgets
<1> QED  BY <1>2, <1>3

LEMMA RetrySlotStep ==
    ASSUME RetryInvariant, TypeOK', NonNegativeTokens, SingleActivation,
           NEW s \in Slots, SlotStep(s)
    PROVE  RetryInvariant'
<1>1. /\ TypeOK /\ OneAccrualPerFault /\ \A t \in Slots, r \in WithId : RetryOK(t, r)
      /\ KeyOf[s] \in Keys /\ faults \in Nat
  BY FieldTypes, ClockAssumption DEF RetryInvariant, TypeOK
<1>2. ASSUME NEW r \in WithId
      PROVE  RetryOK(s, r)'
  <2>1. CASE CheckBudget(s) \/ \E q \in Requests : CaptureUsage(s, q)
    <3>1. PICK c : BeginCall(s, c)
      BY <2>1 DEF CheckBudget, CaptureUsage
    <3> QED  BY <3>1, RetryCallBegins
  <2>2. CASE Fault(s)
    BY <2>2, RetryFaultStep
  <2>3. CASE WriteSucceeds(s)
    BY <2>3, RetryWrites
  <2>4. CASE NotADuplicate(s) \/ Accrue(s)
    BY <2>4, RetryAccrues
  <2>5. CASE Activate(s) \/ Deactivate(s) \/ WriteConflicts(s)
    BY <2>5, RetryComesAndGoes
  <2> QED  BY <2>1, <2>2, <2>3, <2>4, <2>5, RetryGoesOn DEF SlotStep, Step
<1>3. /\ \A t \in Slots \ {s} : mem'[t] = mem[t]
      /\ \A k \in Keys \ {KeyOf[s]} : stored'[k] = stored[k]
      /\ usageEvents \subseteq usageEvents' /\ faults' \in {faults, faults + 1}
  BY <1>1, RetryElsewhere
<1>4. ASSUME NEW t \in Slots, t # s, NEW r \in WithId
      PROVE  RetryOK(t, r)'
  <2>1. KeyOf[t] \in Keys \ {KeyOf[s]}
    BY <1>1, <1>4, FieldTypes DEF SingleActivation
  <2>2. /\ InMemory(t, r)' = InMemory(t, r) /\ InStore(t, r)' = InStore(t, r)
        /\ InMemory(t, r) \in Nat /\ InStore(t, r) \in Nat
    BY <1>1, <1>3, <1>4, <2>1, TallyTypes DEF InMemory, InStore
  <2>3. pc'[t] = pc[t] /\ call'[t] = call[t]
    BY <1>1, <1>4, BudgetElsewhere
  <2>4. /\ Carrying(t, r)' <=> Carrying(t, r)
        /\ Recorded(Id(r)) => Recorded(Id(r))'
    BY <1>3, <2>3, RecordedStays DEF Carrying
  <2> QED  BY <1>1, <1>3, <2>2, <2>3, <2>4 DEF RetryOK
<1>5. OneAccrualPerFault'
  <2> SUFFICES ASSUME NEW k \in Keys, NEW r \in Requests, IdOf[r] # NoId
               PROVE  stored'[k].tally[r] <= 1 + faults'
    BY DEF OneAccrualPerFault
  <2>1. CASE k = KeyOf[s]
    BY <1>2, <2>1 DEF WithId, RetryOK, InStore
  <2>2. CASE k # KeyOf[s]
    <3>1. stored'[k] = stored[k] /\ stored[k].tally[r] \in Nat
      BY <1>1, <1>3, <2>2 DEF TypeOK, StateRows
    <3> QED  BY <1>1, <1>3, <3>1 DEF OneAccrualPerFault
  <2> QED  BY <2>1, <2>2
<1> QED  BY <1>2, <1>4, <1>5 DEF RetryInvariant

LEMMA RetryInit == Init => RetryInvariant
<1> SUFFICES ASSUME Init
             PROVE  RetryInvariant
  OBVIOUS
<1>1. TypeOK
  BY TypeOKInit
<1>2. \A k \in Keys, r \in Requests : stored[k].tally[r] = 0
  BY DEF Init, NoRow, NoTally
<1>3. \A s \in Slots, r \in Requests : mem[s].tally[r] = 0
  BY DEF Init, NoRow, NoTally
<1>4. faults = 0 /\ \A s \in Slots : KeyOf[s] \in Keys
  BY <1>1, FieldTypes DEF Init
<1>5. \A s \in Slots, r \in WithId : RetryOK(s, r)
  BY <1>2, <1>3, <1>4 DEF RetryOK, InMemory, InStore, WithId
<1> QED  BY <1>1, <1>2, <1>4, <1>5 DEF RetryInvariant, OneAccrualPerFault

LEMMA RetryNext ==
    ASSUME NonNegativeTokens, SingleActivation, RetryInvariant, [Next]_vars
    PROVE  RetryInvariant'
<1>1. TypeOK'
  BY TypeOKNext DEF RetryInvariant
<1>2. ASSUME NEW s \in Slots, SlotStep(s)
      PROVE  RetryInvariant'
  BY <1>1, <1>2, RetrySlotStep
<1>3. ASSUME UNCHANGED <<stored, mem, pc, call, usageEvents, faults>>
      PROVE  RetryInvariant'
  BY <1>1, <1>3 DEF RetryInvariant, OneAccrualPerFault, RetryOK, InMemory, InStore, Carrying,
                    Recorded, Id
<1>4. ASSUME NEW c \in Callers, NEW p \in Periods, NEW b \in Budgets, ChangeBudget(c, p, b)
      PROVE  RetryInvariant'
  BY <1>3, <1>4 DEF ChangeBudget
<1>5. CASE Tick \/ UNCHANGED vars
  BY <1>3, <1>5 DEF Tick, vars
<1> QED  BY <1>2, <1>4, <1>5 DEF Next, SlotStep

\* Each failure costs at most one charge: a request with an id is in the spend of a
\* period once, and once more for every call that failed or activation that died, where
\* a grain has one activation and counts are not negative (lines 108-115 and 136-163).
THEOREM RetriesCostOnePerFault ==
    ASSUME NonNegativeTokens, SingleActivation
    PROVE  Spec => []OneAccrualPerFault
<1>1. RetryInvariant => OneAccrualPerFault
  BY DEF RetryInvariant
<1> QED  BY <1>1, RetryInit, RetryNext, PTL DEF Spec
================================================================================
