------------------------ MODULE UserBudgetGrainProofs ------------------------
(***************************************************************************)
(* Proofs about UserBudgetGrain, for all values of its constants.          *)
(***************************************************************************)
EXTENDS UserBudgetGrain, TLAPS

\* Every slot's clock shows a tick, and its period is a natural number.
LEMMA PeriodType ==
    ASSUME now \in Times, NEW s \in Slots
    PROVE  /\ Clock(s) \in Times
           /\ CurrentPeriod(s) \in Periods
           /\ CurrentPeriod(s) \in Nat
<1>1. LagOf[s] \in Nat /\ MaxTime \in Nat
  BY ClockAssumption
<1>2. Clock(s) \in Times
  BY <1>1 DEF Clock, Times
<1>3. QED
  BY <1>2, ClockAssumption DEF CurrentPeriod, Periods

\* Periods are integers.
LEMMA PeriodsAreIntegers == PeriodOrNone \subseteq Int
  BY ClockAssumption DEF PeriodOrNone, Periods, NoPeriod

\* A cost is an integer, and not negative for well-formed counts.
LEMMA CostType ==
    ASSUME NEW r \in Requests, NEW quote \in QuotesOf[r] \ {UnknownModel}
    PROVE  /\ ComputeCost(TokensOf[r], quote) \in Int
           /\ WellFormed(r) => ComputeCost(TokensOf[r], quote) >= 0
<1> DEFINE tokens == TokensOf[r]
<1>1. quote \in Prices /\ tokens \in [TokenKinds -> Int]
  BY RequestsAssumption
<1>2. /\ quote.input \in Nat /\ quote.output \in Nat
      /\ OrZero(quote.cacheRead) \in Nat /\ OrZero(quote.cacheWrite) \in Nat
  BY <1>1 DEF Prices, OrZero, NoPrice
<1>3. /\ tokens["input"] \in Int /\ tokens["output"] \in Int
      /\ tokens["cacheRead"] \in Int /\ tokens["cacheWrite"] \in Int
  BY <1>1 DEF TokenKinds
<1>4. ASSUME NEW n \in Int, NEW p \in Nat
      PROVE  n * p \in Int /\ (n >= 0 => n * p >= 0)
  OBVIOUS
<1>5. WellFormed(r) => /\ tokens["input"] >= 0 /\ tokens["output"] >= 0
                       /\ tokens["cacheRead"] >= 0 /\ tokens["cacheWrite"] >= 0
  BY DEF WellFormed, TokenKinds
<1> HIDE DEF tokens
<1>6. /\ ComputeCost(tokens, quote) \in Int
      /\ WellFormed(r) => ComputeCost(tokens, quote) >= 0
  <2> DEFINE a == tokens["input"] * quote.input
             b == tokens["output"] * quote.output
             c == tokens["cacheRead"] * OrZero(quote.cacheRead)
             d == tokens["cacheWrite"] * OrZero(quote.cacheWrite)
  <2>1. a \in Int /\ b \in Int /\ c \in Int /\ d \in Int
    BY <1>2, <1>3, <1>4
  <2>2. WellFormed(r) => a >= 0 /\ b >= 0 /\ c >= 0 /\ d >= 0
    BY <1>2, <1>3, <1>4, <1>5
  <2>3. ComputeCost(tokens, quote) = a + b + c + d
    BY DEF ComputeCost
  <2> HIDE DEF a, b, c, d
  <2>4. QED
    BY <2>1, <2>2, <2>3
<1>7. QED
  BY <1>6 DEF tokens

\* What the calls return is a reply.
LEMMA ReplyTypes ==
    ASSUME NEW budget \in Amount, NEW spend \in Int
    PROVE  /\ BuildCheckResult(budget, spend) \in Replies
           /\ BuildCaptureResult(spend) \in Replies
<1>1. Allowed(budget, spend) \in BOOLEAN
  BY BudgetsAssumption DEF Allowed, HasBudget
<1>2. QED
  BY <1>1 DEF BuildCheckResult, BuildCaptureResult, Answer, Replies, ReplyKinds

\* The defaults are of their types.
LEMMA DefaultTypes ==
    /\ NoRow \in StateRows /\ NoTally \in [Requests -> Nat]
    /\ NoCache \in CacheEntries
    /\ NoCall \in Calls /\ ~IsCapture(NoCall)
    /\ NoReply \in Replies /\ Error("failed") \in Replies /\ Error("unknown_model") \in Replies
<1>1. /\ NoRow \in StateRows /\ NoTally \in [Requests -> Nat]
  BY DEF NoRow, StateRows, NoTally, PeriodOrNone
<1>2. NoCache \in CacheEntries /\ NoCall \in Calls /\ ~IsCapture(NoCall)
  BY DEF NoCache, CacheEntries, NoCall, Call, Calls, IsCapture, PeriodOrNone, Amount
<1>3. NoReply \in Replies /\ Error("failed") \in Replies /\ Error("unknown_model") \in Replies
  BY DEF NoReply, Error, Answer, Replies, ReplyKinds
<1>4. QED
  BY <1>1, <1>2, <1>3

\* A call waits where its kind allows it to.
LEMMA AfterPeriodType ==
    ASSUME NEW c
    PROVE  /\ AfterPeriod(c) \in PcValues
           /\ AfterPeriod(c) \in CapturePcs => IsCapture(c)
           /\ AfterPeriod(c) \notin {"resolve", "resolved"}
  BY DEF AfterPeriod, PcValues, CapturePcs, BudgetPcs

-----------------------------------------------------------------------------
(* Type correctness. *)

\* The event id of a capture is of its type.
LEMMA EventIdType ==
    ASSUME NEW c \in Calls, IsCapture(c)
    PROVE  EventId(c) \in EventIds
<1>1. c.req \in Requests /\ c.attempt \in Nat
  BY DEF Calls, IsCapture
<1>2. QED
  BY <1>1 DEF EventId, EventIds

\* The updates the grain makes to its state, field by field.
LEMMA Updates ==
    ASSUME NEW m \in StateRows
    PROVE  /\ Written(m) \in StateRows
           /\ Written(m).version = m.version + 1 /\ Written(m).period = m.period
           /\ Written(m).spend = m.spend
           /\ \A p \in PeriodOrNone :
                 /\ Reset(m, p) \in StateRows
                 /\ Reset(m, p).version = m.version /\ Reset(m, p).period = p
                 /\ Reset(m, p).spend = 0
           /\ \A r \in Requests, x \in Int :
                 /\ Charge(m, r, x) \in StateRows
                 /\ Charge(m, r, x).version = m.version /\ Charge(m, r, x).period = m.period
                 /\ Charge(m, r, x).spend = m.spend + x
<1>1. /\ Written(m) \in StateRows
      /\ Written(m).version = m.version + 1 /\ Written(m).period = m.period
      /\ Written(m).spend = m.spend
  BY DEF StateRows, Written
<1>2. ASSUME NEW p \in PeriodOrNone
      PROVE  /\ Reset(m, p) \in StateRows
             /\ Reset(m, p).version = m.version /\ Reset(m, p).period = p
             /\ Reset(m, p).spend = 0
  <2>1. NoTally \in [Requests -> Nat]
    BY DefaultTypes
  <2>2. QED
    BY <2>1 DEF StateRows, Reset
<1>3. ASSUME NEW r \in Requests, NEW x \in Int
      PROVE  /\ Charge(m, r, x) \in StateRows
             /\ Charge(m, r, x).version = m.version /\ Charge(m, r, x).period = m.period
             /\ Charge(m, r, x).spend = m.spend + x
  <2>1. [m.tally EXCEPT ![r] = @ + 1] \in [Requests -> Nat]
    BY DEF StateRows
  <2>2. QED
    BY <2>1 DEF StateRows, Charge
<1>4. QED
  BY <1>1, <1>2, <1>3

\* A write puts a state where a state was.
LEMMA PersistType ==
    ASSUME stored \in [Keys -> StateRows], NEW s \in Slots, mem[s] \in StateRows, Persist(s)
    PROVE  stored' \in [Keys -> StateRows]
<1>1. Written(mem[s]) \in StateRows
  BY Updates
<1>2. QED
  BY <1>1, KeysAssumption DEF Persist

\* Initially every variable has its type.
LEMMA TypeOKInit == Init => TypeOK
<1> SUFFICES ASSUME Init PROVE TypeOK
  OBVIOUS
<1>1. now \in 0 .. MaxTime /\ changes \in 0 .. MaxChanges /\ faults \in 0 .. MaxFaults
  BY ClockAssumption DEF Init
<1>2. effective \in [Callers -> [Periods -> [budget : Budgets, since : Int]]]
  <2>1. {-BudgetCacheTtl} \subseteq Int
    BY ClockAssumption
  <2>2. QED
    BY <2>1 DEF Init
<1>3. QED
  BY <1>1, <1>2, DefaultTypes DEF Init, TypeOK, AwaitTypeOK, PcValues, CapturePcs

\* Every step keeps every variable in its type.
LEMMA TypeOKNext == TypeOK /\ [Next]_vars => TypeOK'
<1> SUFFICES ASSUME TypeOK, [Next]_vars PROVE TypeOK'
  OBVIOUS
<1> USE DEF outside, AwaitTypeOK
<1>1. CASE Tick
  BY <1>1, ClockAssumption DEF Tick, TypeOK
<1>2. ASSUME NEW c \in Callers, NEW p \in Periods, NEW b \in Budgets, ChangeBudget(c, p, b)
      PROVE  TypeOK'
  <2>1. [budget |-> b, since |-> now] \in [budget : Budgets, since : Int]
    BY DEF TypeOK
  <2>2. effective' \in [Callers -> [Periods -> [budget : Budgets, since : Int]]]
    BY <1>2, <2>1 DEF ChangeBudget, TypeOK
  <2>3. changes' \in 0 .. MaxChanges
    BY <1>2, ClockAssumption DEF ChangeBudget, TypeOK
  <2>4. QED
    BY <1>2, <2>2, <2>3 DEF ChangeBudget, TypeOK
<1>3. ASSUME NEW s \in Slots
      PROVE  Activate(s) \/ Deactivate(s) \/ Crash(s) \/ CallFails(s)
               \/ WriteConflicts(s) \/ WriteUnacknowledged(s) => TypeOK'
  <2>1. stored[KeyOf[s]] \in StateRows /\ KeyOf[s] \in Keys
    BY KeysAssumption DEF TypeOK
  <2>2. CASE Activate(s)
    BY <2>1, <2>2 DEF Activate, TypeOK, PcValues, CapturePcs
  <2>3. ASSUME NEW answer \in Replies, Discard(s, answer)
        PROVE  /\ pc' \in [Slots -> PcValues] /\ mem' \in [Slots -> StateRows]
               /\ cache' \in [Slots -> CacheEntries] /\ call' \in [Slots -> Calls]
               /\ reply' \in [Slots -> Replies]
               /\ AwaitTypeOK'
    BY <2>3, DefaultTypes DEF Discard, TypeOK, PcValues, CapturePcs
  <2>4. ASSUME NEW answer \in Replies, Return(s, answer)
        PROVE  /\ pc' \in [Slots -> PcValues] /\ call' \in [Slots -> Calls]
               /\ reply' \in [Slots -> Replies]
               /\ AwaitTypeOK'
    BY <2>4, DefaultTypes DEF Return, TypeOK, PcValues, CapturePcs
  <2>5. faults < MaxFaults /\ faults' = faults + 1 => faults' \in 0 .. MaxFaults
    BY ClockAssumption DEF TypeOK
  <2>6. CASE Deactivate(s)
    BY <2>3, <2>6, DefaultTypes DEF Deactivate, TypeOK
  <2>7. CASE Crash(s)
    BY <2>3, <2>5, <2>7, DefaultTypes DEF Crash, TypeOK
  <2>8. CASE CallFails(s)
    BY <2>4, <2>5, <2>8, DefaultTypes DEF CallFails, TypeOK
  <2>9. CASE WriteConflicts(s)
    BY <2>3, <2>9, DefaultTypes DEF WriteConflicts, TypeOK
  <2>10. CASE WriteUnacknowledged(s)
    <3>1. stored' \in [Keys -> StateRows]
      BY <2>1, <2>10, PersistType DEF WriteUnacknowledged, TypeOK
    <3>2. QED
      BY <2>4, <2>5, <2>10, <3>1, DefaultTypes DEF WriteUnacknowledged, TypeOK
  <2>11. QED
    BY <2>2, <2>6, <2>7, <2>8, <2>9, <2>10
<1>4. ASSUME NEW s \in Slots, NEW c \in Calls, BeginCall(s, c),
             sends' \in [Requests -> Nat]
      PROVE  TypeOK'
  <2>1. /\ pc' \in [Slots -> PcValues]
        /\ pc'[s] \in CapturePcs => IsCapture(c)
        /\ pc'[s] \notin {"resolve", "resolved"}
        /\ \A t \in Slots \ {s} : pc'[t] = pc[t]
    BY <1>4, AfterPeriodType
       DEF BeginCall, PeriodIsCurrent, RollOver, TypeOK, PcValues, CapturePcs
  <2>2. mem' \in [Slots -> StateRows]
    <3>1. CurrentPeriod(s) \in PeriodOrNone
      BY PeriodType DEF TypeOK, Times, PeriodOrNone
    <3>2. mem[s] \in StateRows
      BY DEF TypeOK
    <3>3. Reset(mem[s], CurrentPeriod(s)) \in StateRows
      BY <3>1, <3>2, Updates
    <3>4. QED
      BY <1>4, <3>3 DEF BeginCall, PeriodIsCurrent, RollOver, TypeOK
  <2>3. call' \in [Slots -> Calls] /\ reply' \in [Slots -> Replies]
    BY <1>4, DefaultTypes DEF BeginCall, TypeOK
  <2>4. AwaitTypeOK'
    BY <1>4, <2>1 DEF BeginCall, TypeOK
  <2>5. QED
    BY <1>4, <2>1, <2>2, <2>3, <2>4 DEF BeginCall, TypeOK
<1>5. ASSUME NEW s \in Slots, CheckBudget(s)
      PROVE  TypeOK'
  <2>1. NoCall \in Calls /\ sends' \in [Requests -> Nat] /\ BeginCall(s, NoCall)
    BY <1>5, DefaultTypes DEF CheckBudget, TypeOK
  <2>2. QED
    BY <1>4, <2>1
<1>6. ASSUME NEW s \in Slots, NEW r \in Requests, CaptureUsage(s, r)
      PROVE  TypeOK'
  <2>1. Call(r, sends[r] + 1) \in Calls
    BY DEF Call, Calls, TypeOK, Amount, PeriodOrNone
  <2>2. sends' \in [Requests -> Nat]
    BY <1>6 DEF CaptureUsage, TypeOK
  <2>3. QED
    BY <1>4, <1>6, <2>1, <2>2 DEF CaptureUsage
<1>7. ASSUME NEW s \in Slots
      PROVE  Step(s) \/ AppendUnacknowledged(s) => TypeOK'
  <2> DEFINE c == call[s]
  <2>1. /\ c \in Calls /\ mem[s] \in StateRows /\ cache[s] \in CacheEntries
        /\ KeyOf[s] \in Keys /\ Caller(s) \in Callers
    BY KeysAssumption DEF TypeOK, Caller
  <2>2. /\ c.cost \in Int /\ c.budget \in Amount /\ c.askedAt \in Nat
        /\ c.period \in PeriodOrNone /\ mem[s].spend \in Int
        /\ mem[s].period \in PeriodOrNone
    BY <2>1 DEF Calls, StateRows
  <2>3. /\ CurrentPeriod(s) \in PeriodOrNone /\ CurrentPeriod(s) \in Periods
        /\ Clock(s) \in Nat
    BY PeriodType DEF TypeOK, Times, PeriodOrNone
  <2>4. ASSUME NEW answer \in Replies, Return(s, answer)
        PROVE  /\ pc' \in [Slots -> PcValues] /\ call' \in [Slots -> Calls]
               /\ reply' \in [Slots -> Replies]
               /\ AwaitTypeOK'
    BY <2>4, DefaultTypes DEF Return, TypeOK, PcValues, CapturePcs
  <2>5. CASE WriteSucceeds(s)
    <3>1. stored' \in [Keys -> StateRows]
      BY <2>1, <2>5, PersistType DEF WriteSucceeds, TypeOK
    <3>2. mem' \in [Slots -> StateRows]
      <4>1. Written(mem[s]) \in StateRows
        BY <2>1, Updates
      <4>2. QED
        BY <2>5, <4>1 DEF WriteSucceeds, TypeOK
    <3>3. /\ pc' \in [Slots -> PcValues]
          /\ AwaitTypeOK'
      BY <2>5, AfterPeriodType
         DEF WriteSucceeds, Writing, TypeOK, PcValues, CapturePcs, BudgetPcs
    <3>4. QED
      BY <2>5, <3>1, <3>2, <3>3 DEF WriteSucceeds, TypeOK
  <2>6. CASE WriteConflicts(s)
    BY <1>3, <2>6
  <2>7. CASE AnswerDuplicate(s)
    <3>1. PICK e \in usageEvents : Return(s, BuildCaptureResultFromEvent(e))
      BY <2>7 DEF AnswerDuplicate
    <3>2. BuildCaptureResultFromEvent(e) \in Replies
      BY DEF TypeOK, AuditRows, BuildCaptureResultFromEvent, Answer, Replies, ReplyKinds
    <3>3. QED
      BY <2>4, <2>7, <3>1, <3>2 DEF AnswerDuplicate, TypeOK
  <2>8. CASE NotADuplicate(s)
    BY <2>8 DEF NotADuplicate, TypeOK, PcValues, CapturePcs
  <2>9. CASE RejectUnknownModel(s)
    BY <2>4, <2>9, DefaultTypes DEF RejectUnknownModel, TypeOK
  <2>10. CASE Accrue(s)
    <3>1. c.req \in Requests
      BY <2>1, <2>10 DEF Accrue, TypeOK, CapturePcs, IsCapture, Calls
    <3>2. PICK quote \in QuotesOf[c.req] \ {UnknownModel} :
            LET cost == ComputeCost(TokensOf[c.req], quote)
            IN  /\ call' = [call EXCEPT ![s].cost = cost]
                /\ mem' = [mem EXCEPT ![s] = Charge(@, c.req, cost)]
      BY <2>10 DEF Accrue
    <3> DEFINE cost == ComputeCost(TokensOf[c.req], quote)
    <3>3. cost \in Int
      BY <3>1, CostType
    <3> HIDE DEF cost
    <3>4. call' = [call EXCEPT ![s].cost = cost] /\ call' \in [Slots -> Calls]
      BY <3>2, <3>3 DEF TypeOK, Calls, cost
    <3>5. mem' \in [Slots -> StateRows]
      <4>1. Charge(mem[s], c.req, cost) \in StateRows
        BY <2>1, <3>1, <3>3, Updates
      <4>2. QED
        BY <3>2, <4>1 DEF TypeOK, cost
    <3>6. /\ pc' \in [Slots -> PcValues]
          /\ AwaitTypeOK'
      BY <2>10, <3>4 DEF Accrue, TypeOK, PcValues, CapturePcs, IsCapture, Calls
    <3>7. QED
      BY <2>10, <3>4, <3>5, <3>6 DEF Accrue, TypeOK
  <2>11. CASE CachedBudget(s)
    BY <2>1, <2>3, <2>11
       DEF CachedBudget, CacheIsFresh, TypeOK, CacheEntries, Calls, PcValues, CapturePcs,
           BudgetPcs, IsCapture
  <2>12. CASE AskBudget(s)
    BY <2>1, <2>3, <2>12
       DEF AskBudget, TypeOK, Calls, PcValues, CapturePcs, BudgetPcs, IsCapture
  <2>13. CASE ResolveBudget(s)
    <3>1. c.period \in Periods
      BY <2>13 DEF ResolveBudget, TypeOK
    <3>2. effective[Caller(s)][c.period].budget \in Amount
      BY <2>1, <3>1, BudgetsAssumption DEF TypeOK, Amount
    <3>3. QED
      BY <2>1, <2>13, <3>2
         DEF ResolveBudget, TypeOK, Calls, PcValues, CapturePcs, BudgetPcs, IsCapture
  <2>14. CASE LoadBudget(s)
    BY <2>1, <2>2, <2>14
       DEF LoadBudget, TypeOK, CacheEntries, PcValues, CapturePcs, BudgetPcs
  <2>15. CASE AnswerCheck(s)
    BY <2>2, <2>4, <2>15, ReplyTypes DEF AnswerCheck, TypeOK
  <2>16. CASE RejectEvent(s)
    BY <2>4, <2>16, DefaultTypes DEF RejectEvent, TypeOK
  <2>17. CASE CreateEvent(s)
    BY <2>1, <2>3, <2>17
       DEF CreateEvent, TypeOK, Calls, PcValues, CapturePcs, IsCapture
  <2>18. Captured(s) => /\ pc' \in [Slots -> PcValues] /\ call' \in [Slots -> Calls]
                        /\ reply' \in [Slots -> Replies]
                        /\ AwaitTypeOK'
    BY <2>2, <2>4, ReplyTypes DEF Captured
  <2>19. CASE SkipAppend(s)
    BY <2>18, <2>19 DEF SkipAppend, TypeOK
  <2>20. CASE BeginInsert(s)
    BY <2>20 DEF BeginInsert, TypeOK, PcValues, CapturePcs
  <2>21. InsertEvent(s) => usageEvents' \subseteq AuditRows
    <3> SUFFICES ASSUME InsertEvent(s) PROVE UsageEvent(s) \in AuditRows
      BY DEF InsertEvent, TypeOK
    <3>1. EventId(c) \in EventIds
      BY <2>1, EventIdType DEF InsertEvent, TypeOK, CapturePcs
    <3>2. QED
      BY <2>1, <2>2, <3>1 DEF UsageEvent, AuditRows
  <2>22. CASE AppendEvent(s)
    BY <2>18, <2>21, <2>22 DEF AppendEvent, TypeOK
  <2>23. CASE InsertRefused(s)
    BY <2>4, <2>23, DefaultTypes DEF InsertRefused, TypeOK
  <2>24. CASE AppendUnacknowledged(s)
    <3>1. faults' \in 0 .. MaxFaults
      BY <2>24, ClockAssumption DEF AppendUnacknowledged, TypeOK
    <3>2. QED
      BY <2>4, <2>21, <2>24, <3>1, DefaultTypes DEF AppendUnacknowledged, TypeOK
  <2>25. QED
    BY <2>5, <2>6, <2>7, <2>8, <2>9, <2>10, <2>11, <2>12, <2>13, <2>14, <2>15, <2>16,
       <2>17, <2>19, <2>20, <2>22, <2>23, <2>24 DEF Step
<1>8. CASE UNCHANGED vars
  BY <1>8 DEF vars, TypeOK
<1>9. QED
  BY <1>1, <1>2, <1>3, <1>5, <1>6, <1>7, <1>8 DEF Next, Fault

\* Every variable stays in its type, for any number of slots, requests and
\* budgets, any calendar, any clocks and any bounds.
THEOREM TypeCorrect == Spec => []TypeOK
  BY TypeOKInit, TypeOKNext, PTL DEF Spec


-----------------------------------------------------------------------------
(* The audit table and the stored spend. *)

\* The orders used below are about integers.
LEMMA FieldTypes ==
    ASSUME TypeOK, NEW s \in Slots
    PROVE  /\ KeyOf[s] \in Keys
           /\ mem[s] \in StateRows /\ mem[s].version \in Nat /\ mem[s].period \in Int
           /\ mem[s].spend \in Int
           /\ stored[KeyOf[s]] \in StateRows /\ stored[KeyOf[s]].version \in Nat
           /\ stored[KeyOf[s]].period \in Int /\ stored[KeyOf[s]].spend \in Int
           /\ call[s].cost \in Int
           /\ CurrentPeriod(s) \in Nat /\ CurrentPeriod(s) \in PeriodOrNone
<1>1. KeyOf[s] \in Keys /\ mem[s] \in StateRows /\ stored[KeyOf[s]] \in StateRows
      /\ call[s] \in Calls
  BY KeysAssumption DEF TypeOK
<1>2. CurrentPeriod(s) \in Nat /\ CurrentPeriod(s) \in PeriodOrNone
  BY PeriodType DEF TypeOK, Times, PeriodOrNone
<1>3. QED
  BY <1>1, <1>2, PeriodsAreIntegers DEF StateRows, Calls

LEMMA RowTypes ==
    ASSUME TypeOK, NEW e \in usageEvents
    PROVE  e.key \in Keys /\ e.accruedIn \in Int /\ e.after \in Int /\ e.cost \in Int
  BY PeriodsAreIntegers DEF TypeOK, AuditRows

\* Time does not take an activation back to an earlier period.
LEMMA PeriodAdvances ==
    ASSUME now \in Times, now' \in Times, now <= now', NEW s \in Slots
    PROVE  /\ CurrentPeriod(s) <= CurrentPeriod(s)'
           /\ CurrentPeriod(s) \in Nat /\ CurrentPeriod(s)' \in Nat
<1>1. LagOf[s] \in Nat /\ MaxTime \in Nat
  BY ClockAssumption
<1>2. Clock(s) \in Times /\ Clock(s)' \in Times /\ Clock(s) <= Clock(s)'
  BY <1>1 DEF Clock, Times
<1>3. QED
  BY <1>2, ClockAssumption DEF CurrentPeriod

\* A step of slot s touches the activation of s only.
Alone(s) ==
    /\ now' = now
    /\ \A t \in Slots \ {s} :
          pc'[t] = pc[t] /\ mem'[t] = mem[t] /\ call'[t] = call[t]

\* An activation whose own variables, stored state and clock stay is as it was.
LEMMA BystanderKept ==
    ASSUME NEW t \in Slots, now' = now, stored'[KeyOf[t]] = stored[KeyOf[t]],
           pc'[t] = pc[t], mem'[t] = mem[t], call'[t] = call[t], SlotOK(t)
    PROVE  SlotOK(t)'
  BY DEF SlotOK, CurrentPeriod, Clock, Behind, Charging, IsCapture

LEMMA ClaimKept ==
    ASSUME NEW t \in Slots, pc'[t] = pc[t], mem'[t] = mem[t], call'[t] = call[t]
    PROVE  Charging(t)' = Charging(t) /\ Claim(t)' = Claim(t)
  BY DEF Claim, Charging, IsCapture

\* A step that writes neither the state nor the audit table keeps the invariant
\* if no capture starts to wait for its row.
LEMMA PrivateStep ==
    ASSUME AuditFits, TypeOK', UNCHANGED <<stored, usageEvents>>,
           \A t \in Slots : SlotOK(t)',
           \A t \in Slots : Charging(t)' => Charging(t) /\ Claim(t)' = Claim(t)
    PROVE  AuditFits'
<1>1. AuditSlices'
  BY DEF AuditFits, AuditSlices, SameSpend, Apart
<1>2. ClaimsApart'
  <2> SUFFICES ASSUME NEW s \in Slots, Charging(s)'
               PROVE  /\ \A e \in usageEvents' : (SameSpend(Claim(s), e) => Apart(Claim(s), e))'
                      /\ \A t \in Slots \ {s} :
                           (Charging(t) /\ SameSpend(Claim(s), Claim(t)) => Apart(Claim(s), Claim(t)))'
    BY DEF ClaimsApart, SameSpend, Apart
  <2>1. Charging(s) /\ Claim(s)' = Claim(s)
    OBVIOUS
  <2>2. QED
    BY <2>1 DEF AuditFits, ClaimsApart, SameSpend, Apart
<1>3. QED
  BY <1>1, <1>2 DEF AuditFits

\* So does a step of one activation that leaves it in order.
LEMMA LocalStep ==
    ASSUME AuditFits, TypeOK', NEW s \in Slots, Alone(s),
           UNCHANGED <<stored, usageEvents>>, SlotOK(s)',
           Charging(s)' => Charging(s) /\ Claim(s)' = Claim(s)
    PROVE  AuditFits'
<1>1. \A t \in Slots : SlotOK(t)'
  BY BystanderKept DEF Alone, AuditFits
<1>2. \A t \in Slots : Charging(t)' => Charging(t) /\ Claim(t)' = Claim(t)
  BY ClaimKept DEF Alone
<1>3. QED
  BY <1>1, <1>2, PrivateStep

\* Being behind is an order.
LEMMA BehindTransitive ==
    ASSUME NEW l, NEW m, NEW n,
           l.period \in Int, m.period \in Int, n.period \in Int,
           l.spend \in Int, m.spend \in Int, n.spend \in Int,
           Behind(l, m), Behind(m, n)
    PROVE  Behind(l, n)
  BY DEF Behind

\* An accepted write keeps the invariant: what was stored is behind it, and what
\* a capture adds lies beyond every row and every other claim.
LEMMA WriteStep ==
    ASSUME AuditFits, TypeOK', ClocksInStep, NEW s \in Slots, Alone(s),
           Writing(s), Persist(s), UNCHANGED usageEvents, SlotOK(s)',
           Charging(s)' => pc[s] = "accrue" /\ Claim(s)' = Claim(s)
    PROVE  AuditFits'
<1> DEFINE kept == stored[KeyOf[s]]
<1>1. /\ TypeOK /\ SlotOK(s) /\ ClaimsApart /\ AuditSlices
      /\ KeyOf[s] \in Keys /\ mem[s] \in StateRows
  BY FieldTypes DEF AuditFits
<1>2. /\ stored'[KeyOf[s]] = Written(mem[s])
      /\ \A k \in Keys \ {KeyOf[s]} : stored'[k] = stored[k]
  BY <1>1 DEF Persist, TypeOK
<1>3. /\ stored'[KeyOf[s]].version = kept.version + 1
      /\ stored'[KeyOf[s]].period = mem[s].period
      /\ stored'[KeyOf[s]].spend = mem[s].spend
  BY <1>1, <1>2, Updates DEF Persist
<1>4. Behind(kept, mem[s]) /\ Behind(kept, stored'[KeyOf[s]])
  BY <1>1, <1>3 DEF SlotOK, Writing, Persist, Behind
<1>5. \A k \in Keys : (0 <= stored[k].spend)'
  BY <1>1, <1>2, <1>3 DEF AuditFits, SlotOK
<1>6. ASSUME NEW t \in Slots \ {s} PROVE SlotOK(t)'
  <2>1. SlotOK(t) /\ pc'[t] = pc[t] /\ mem'[t] = mem[t] /\ call'[t] = call[t] /\ now' = now
    BY DEF AuditFits, Alone
  <2>2. CASE KeyOf[t] # KeyOf[s]
    BY <1>1, <1>2, <2>1, <2>2, BystanderKept, KeysAssumption
  <2>3. CASE KeyOf[t] = KeyOf[s]
    <3>1. CurrentPeriod(t)' = CurrentPeriod(t) /\ CurrentPeriod(t) = CurrentPeriod(s)
      BY <2>1, <2>3 DEF ClocksInStep, CurrentPeriod, Clock
    <3>2. /\ mem[t].version \in Nat /\ kept.version \in Nat
          /\ mem[t].period \in Int /\ mem[s].period \in Int /\ kept.period \in Int
          /\ mem[t].spend \in Int /\ mem[s].spend \in Int /\ kept.spend \in Int
      BY <1>1, FieldTypes
    <3>3. pc[t] # "down" => mem[t].version < stored'[KeyOf[t]].version
      BY <1>3, <2>1, <2>3, <3>2 DEF SlotOK
    <3>4. Charging(t) => Behind(mem[t], stored'[KeyOf[t]])
      BY <1>3, <1>4, <2>1, <2>3, <3>2 DEF SlotOK, Behind
    <3>5. Charging(t)' = Charging(t)
      BY <2>1, ClaimKept
    <3>6. mem[s].period <= CurrentPeriod(s)
      BY <1>1 DEF SlotOK
    <3>7. pc[t] = "accrue" => call[t].cost <= mem[t].spend
      BY <2>1 DEF SlotOK
    <3>8. Charging(t) => call[t].cost <= mem[t].spend
      BY <2>1 DEF SlotOK
    <3>9. mem[t].period <= CurrentPeriod(t) /\ 0 <= mem[t].spend /\ 0 <= call[t].cost
      BY <2>1 DEF SlotOK
    <3>10. SlotOK(t)' = LET new == stored'[KeyOf[t]]
                       IN  /\ new.period <= CurrentPeriod(t)' /\ mem[t].period <= CurrentPeriod(t)'
                           /\ 0 <= mem[t].spend /\ 0 <= call[t].cost
                           /\ pc[t] # "down" =>
                                /\ mem[t].version <= new.version
                                /\ mem[t].version = new.version => Behind(new, mem[t])
                           /\ pc[t] = "accrue" =>
                                /\ call[t].cost <= mem[t].spend
                                /\ mem[t].version = new.version /\ mem[t].period = new.period =>
                                      new.spend <= mem[t].spend - call[t].cost
                           /\ Charging(t)' => call[t].cost <= mem[t].spend /\ Behind(mem[t], new)
      BY <2>1 DEF SlotOK, Behind
    <3>11. mem[t].version # stored'[KeyOf[t]].version \/ pc[t] = "down"
      BY <1>3, <2>3, <3>2, <3>3
    <3>12. QED
      BY <1>3, <2>3, <3>1, <3>2, <3>3, <3>4, <3>5, <3>6, <3>7, <3>8, <3>9, <3>10, <3>11
  <2>4. QED
    BY <2>2, <2>3
<1>7. AuditSlices'
  <2>1. ASSUME NEW e \in usageEvents
        PROVE  /\ e.cost <= e.after
               /\ e.accruedIn <= stored'[e.key].period
               /\ e.accruedIn = stored'[e.key].period => e.after <= stored'[e.key].spend
    <3>1. /\ e.cost <= e.after /\ e.accruedIn <= stored[e.key].period
          /\ e.accruedIn = stored[e.key].period => e.after <= stored[e.key].spend
      BY <1>1 DEF AuditSlices
    <3>2. CASE e.key # KeyOf[s]
      BY <1>1, <1>2, <3>1, <3>2, RowTypes
    <3>3. CASE e.key = KeyOf[s]
      BY <1>1, <1>3, <1>4, <3>1, <3>3, RowTypes, FieldTypes DEF Behind
    <3>4. QED
      BY <3>2, <3>3
  <2>2. QED
    BY <1>1, <2>1 DEF AuditSlices, SameSpend, Apart
<1>8. ASSUME pc[s] = "accrue"
      PROVE  /\ \A e \in usageEvents : SameSpend(Claim(s), e) => Apart(Claim(s), e)
             /\ \A t \in Slots \ {s} :
                   Charging(t) /\ SameSpend(Claim(s), Claim(t)) => Apart(Claim(s), Claim(t))
  <2>1. mem[s].period = kept.period => kept.spend <= mem[s].spend - call[s].cost
    BY <1>1, <1>8 DEF SlotOK, Persist
  <2>2. ASSUME NEW e \in usageEvents, SameSpend(Claim(s), e)
        PROVE  Apart(Claim(s), e)
    <3>1. /\ e.key = KeyOf[s] /\ e.accruedIn = mem[s].period
          /\ e.accruedIn <= kept.period
          /\ e.accruedIn = kept.period => e.after <= kept.spend
      BY <1>1, <2>2 DEF AuditSlices, SameSpend, Claim
    <3>2. e.after <= mem[s].spend - call[s].cost
      BY <1>1, <1>4, <2>1, <3>1, RowTypes, FieldTypes DEF Behind
    <3>3. QED
      BY <3>2 DEF Apart, Claim
  <2>3. ASSUME NEW t \in Slots \ {s}, Charging(t), SameSpend(Claim(s), Claim(t))
        PROVE  Apart(Claim(s), Claim(t))
    <3>1. /\ KeyOf[t] = KeyOf[s] /\ mem[t].period = mem[s].period
          /\ Behind(mem[t], kept)
      BY <2>3 DEF AuditFits, SlotOK, SameSpend, Claim
    <3>2. mem[t].spend <= mem[s].spend - call[s].cost
      BY <1>1, <1>4, <2>1, <3>1, FieldTypes DEF Behind
    <3>3. QED
      BY <3>2 DEF Apart, Claim
  <2>4. QED
    BY <2>2, <2>3
<1>9. ClaimsApart'
  <2>1. \A t \in Slots \ {s} : Charging(t)' = Charging(t) /\ Claim(t)' = Claim(t)
    BY ClaimKept DEF Alone
  <2>2. ASSUME NEW t \in Slots, Charging(t)'
        PROVE  /\ \A e \in usageEvents : SameSpend(Claim(t)', e) => Apart(Claim(t)', e)
               /\ \A u \in Slots \ {t} :
                     Charging(u)' /\ SameSpend(Claim(t)', Claim(u)') => Apart(Claim(t)', Claim(u)')
    <3>1. CASE t = s
      BY <1>8, <2>1, <2>2, <3>1
    <3>2. CASE t # s
      <4>1. Charging(t) /\ Claim(t)' = Claim(t)
        BY <2>1, <2>2, <3>2
      <4>2. ASSUME NEW u \in Slots \ {t}, Charging(u)', SameSpend(Claim(t)', Claim(u)')
            PROVE  Apart(Claim(t)', Claim(u)')
        <5>1. CASE u = s
          <6>1. pc[s] = "accrue" /\ Claim(s)' = Claim(s)
            BY <4>2, <5>1
          <6>2. Apart(Claim(s), Claim(t))
            BY <1>8, <3>2, <4>1, <4>2, <5>1, <6>1 DEF SameSpend
          <6>3. QED
            BY <4>1, <5>1, <6>1, <6>2 DEF Apart
        <5>2. CASE u # s
          BY <1>1, <2>1, <4>1, <4>2, <5>2 DEF ClaimsApart
        <5>3. QED
          BY <5>1, <5>2
      <4>3. QED
        BY <1>1, <4>1, <4>2 DEF ClaimsApart
    <3>3. QED
      BY <3>1, <3>2
  <2>3. QED
    BY <2>2 DEF ClaimsApart, SameSpend, Apart
<1>10. QED
  BY <1>5, <1>6, <1>7, <1>9 DEF AuditFits


\* An inserted row takes over the claim of its capture.
LEMMA AppendStep ==
    ASSUME AuditFits, TypeOK', NEW s \in Slots, Alone(s), InsertEvent(s),
           UNCHANGED <<stored, mem>>, pc'[s] = "idle", call'[s] = NoCall
    PROVE  AuditFits'
<1>1. /\ TypeOK /\ SlotOK(s) /\ ClaimsApart /\ AuditSlices /\ Charging(s)
  BY DEF AuditFits, InsertEvent, TypeOK, AwaitTypeOK, CapturePcs, Charging
<1> DEFINE new == UsageEvent(s)
<1>2. /\ usageEvents' = usageEvents \cup {new}
      /\ new.key = KeyOf[s] /\ new.accruedIn = mem[s].period
      /\ new.after = mem[s].spend /\ new.cost = call[s].cost
  BY DEF InsertEvent, UsageEvent
<1> HIDE DEF new
<1>3. ASSUME NEW e
      PROVE  /\ SameSpend(new, e) = SameSpend(Claim(s), e)
             /\ SameSpend(e, new) = SameSpend(Claim(s), e)
             /\ Apart(new, e) = Apart(Claim(s), e)
             /\ Apart(e, new) <=> Apart(Claim(s), e)
  BY <1>2 DEF SameSpend, Apart, Claim
<1>4. ~Charging(s)'
  BY DEF Charging, IsCapture, NoCall, Call
<1>5. \A t \in Slots : SlotOK(t)'
  <2>1. \A t \in Slots \ {s} : SlotOK(t)'
    BY BystanderKept DEF Alone, AuditFits
  <2>2. CurrentPeriod(s)' = CurrentPeriod(s)
    BY DEF CurrentPeriod, Clock, Alone
  <2>3. SlotOK(s)'
    BY <1>1, <1>4, <2>2 DEF SlotOK, Behind, NoCall, Call, InsertEvent
  <2>4. QED
    BY <2>1, <2>3
<1>6. AuditSlices'
  <2>1. /\ 0 <= new.cost /\ new.cost <= new.after
        /\ new.accruedIn <= stored[new.key].period
        /\ new.accruedIn = stored[new.key].period => new.after <= stored[new.key].spend
    BY <1>1, <1>2 DEF SlotOK, Behind
  <2>2. ASSUME NEW e \in usageEvents, SameSpend(new, e)
        PROVE  Apart(new, e) /\ Apart(e, new)
    BY <1>1, <1>3, <2>2 DEF ClaimsApart
  <2>3. ASSUME NEW e \in usageEvents, SameSpend(e, new)
        PROVE  Apart(new, e) /\ Apart(e, new)
    BY <1>3, <2>2, <2>3
  <2>4. QED
    BY <1>1, <1>2, <2>1, <2>2, <2>3 DEF AuditSlices, SameSpend, Apart
<1>7. ClaimsApart'
  <2>1. \A t \in Slots \ {s} : Charging(t)' = Charging(t) /\ Claim(t)' = Claim(t)
    BY ClaimKept DEF Alone
  <2>2. ASSUME NEW t \in Slots, Charging(t)'
        PROVE  /\ \A e \in usageEvents' : SameSpend(Claim(t)', e) => Apart(Claim(t)', e)
               /\ \A u \in Slots \ {t} :
                     Charging(u)' /\ SameSpend(Claim(t)', Claim(u)') => Apart(Claim(t)', Claim(u)')
    <3>1. t # s /\ Charging(t) /\ Claim(t)' = Claim(t)
      BY <1>4, <2>1, <2>2
    <3>2. ASSUME SameSpend(Claim(t), new)
          PROVE  Apart(Claim(t), new)
      <4>1. SameSpend(Claim(s), Claim(t))
        BY <1>3, <3>2
      <4>2. Apart(Claim(s), Claim(t))
        BY <1>1, <3>1, <4>1 DEF ClaimsApart
      <4>3. QED
        BY <1>3, <4>2
    <3>3. QED
      BY <1>1, <1>2, <1>4, <2>1, <3>1, <3>2 DEF ClaimsApart
  <2>3. QED
    BY <2>2 DEF ClaimsApart, SameSpend, Apart
<1>8. QED
  BY <1>1, <1>5, <1>6, <1>7 DEF AuditFits

\* A call that returns, and an activation that is discarded, claim nothing.
LEMMA ReturnStep ==
    ASSUME AuditFits, TypeOK', NEW s \in Slots, Alone(s),
           UNCHANGED <<stored, usageEvents, mem>>, pc[s] # "down",
           pc'[s] = "idle", call'[s] = NoCall
    PROVE  AuditFits'
<1>1. ~Charging(s)' /\ CurrentPeriod(s)' = CurrentPeriod(s)
  BY DEF Charging, IsCapture, NoCall, Call, CurrentPeriod, Clock, Alone
<1>2. SlotOK(s)'
  BY <1>1 DEF AuditFits, SlotOK, Behind, NoCall, Call
<1>3. QED
  BY <1>1, <1>2, LocalStep

LEMMA DiscardStep ==
    ASSUME AuditFits, TypeOK', NEW s \in Slots, Alone(s),
           UNCHANGED <<stored, usageEvents>>, mem'[s] = NoRow,
           pc'[s] = "down", call'[s] = NoCall
    PROVE  AuditFits'
<1>1. ~Charging(s)' /\ CurrentPeriod(s)' = CurrentPeriod(s)
  BY DEF Charging, IsCapture, NoCall, Call, CurrentPeriod, Clock, Alone
<1>2. SlotOK(s)'
  BY <1>1, FieldTypes DEF AuditFits, SlotOK, NoCall, Call, NoRow, NoPeriod
<1>3. QED
  BY <1>1, <1>2, LocalStep

\* A call that moves on, with its state and its cost unchanged, claims what it
\* claimed.
LEMMA MoveStep ==
    ASSUME AuditFits, TypeOK', NEW s \in Slots, Alone(s),
           UNCHANGED <<stored, usageEvents, mem>>,
           pc[s] # "down", pc'[s] # "accrue",
           call'[s].cost = call[s].cost, Charging(s)' => Charging(s)
    PROVE  AuditFits'
<1>1. CurrentPeriod(s)' = CurrentPeriod(s)
  BY DEF CurrentPeriod, Clock, Alone
<1>2. Claim(s)' = Claim(s)
  BY DEF Claim
<1>3. SlotOK(s)'
  BY <1>1 DEF AuditFits, SlotOK, Behind
<1>4. QED
  BY <1>2, <1>3, LocalStep

LEMMA AuditFitsInit == Init => AuditFits
<1> SUFFICES ASSUME Init PROVE AuditFits
  OBVIOUS
<1>1. TypeOK
  BY TypeOKInit
<1>2. AuditSlices /\ \A k \in Keys : 0 <= stored[k].spend
  BY DEF Init, AuditSlices, NoRow
<1>3. ASSUME NEW s \in Slots PROVE SlotOK(s) /\ ~Charging(s)
  <2>1. stored[KeyOf[s]] = NoRow
    BY KeysAssumption DEF Init
  <2>2. QED
    BY <1>1, <2>1, FieldTypes
       DEF Init, SlotOK, NoRow, NoCall, Call, NoPeriod, Charging, IsCapture
<1>4. ClaimsApart
  BY <1>3 DEF ClaimsApart
<1>5. QED
  BY <1>1, <1>2, <1>3, <1>4 DEF AuditFits

LEMMA AuditFitsNext ==
    ASSUME NonNegativeTokens, ClocksInStep, AuditFits, [Next]_vars
    PROVE  AuditFits'
<1>1. TypeOK /\ TypeOK'
  BY TypeOKNext DEF AuditFits
<1> USE DEF outside
<1>2. CASE Tick
  <2>1. now \in Times /\ now' \in Times /\ now <= now'
    BY <1>1, <1>2 DEF Tick, TypeOK, Times
  <2>2. ASSUME NEW s \in Slots PROVE SlotOK(s)'
    <3>1. CurrentPeriod(s) <= CurrentPeriod(s)'
      BY <2>1, PeriodAdvances
    <3>2. CurrentPeriod(s) \in Nat /\ CurrentPeriod(s)' \in Nat
      BY <2>1, PeriodAdvances
    <3>3. Charging(s)' = Charging(s)
      BY <1>2 DEF Tick, Charging, IsCapture
    <3>4. mem[s].period \in Int /\ stored[KeyOf[s]].period \in Int
      BY <1>1, FieldTypes
    <3>5. /\ stored[KeyOf[s]].period <= CurrentPeriod(s)'
          /\ mem[s].period <= CurrentPeriod(s)'
      BY <3>1, <3>2, <3>4 DEF AuditFits, SlotOK
    <3>6. QED
      BY <1>2, <3>3, <3>5 DEF AuditFits, Tick, SlotOK, Behind
  <2>3. \A s \in Slots : Charging(s)' = Charging(s) /\ Claim(s)' = Claim(s)
    BY <1>2, ClaimKept DEF Tick
  <2>4. QED
    BY <1>1, <1>2, <2>2, <2>3, PrivateStep DEF Tick
<1>3. ASSUME now' = now, UNCHANGED <<stored, usageEvents, pc, mem, call>>
      PROVE  AuditFits'
  <2>1. \A s \in Slots : Charging(s)' = Charging(s) /\ Claim(s)' = Claim(s)
    BY <1>3, ClaimKept
  <2>2. \A s \in Slots : SlotOK(s)'
    BY <1>3, BystanderKept DEF AuditFits
  <2>3. QED
    BY <1>1, <1>3, <2>1, <2>2, PrivateStep
<1>4. ASSUME NEW c \in Callers, NEW p \in Periods, NEW b \in Budgets, ChangeBudget(c, p, b)
      PROVE  AuditFits'
  BY <1>3, <1>4 DEF ChangeBudget
<1>5. CASE UNCHANGED vars
  BY <1>3, <1>5 DEF vars
<1>6. ASSUME NEW s \in Slots, NEW answer, Return(s, answer), UNCHANGED mem, now' = now
      PROVE  Alone(s) /\ pc'[s] = "idle" /\ call'[s] = NoCall
  BY <1>1, <1>6 DEF Return, Alone, TypeOK
<1>7. ASSUME NEW s \in Slots, NEW answer, Discard(s, answer), now' = now
      PROVE  Alone(s) /\ pc'[s] = "down" /\ call'[s] = NoCall /\ mem'[s] = NoRow
  BY <1>1, <1>7 DEF Discard, Alone, TypeOK
<1>8. ASSUME NEW s \in Slots, Activate(s)
      PROVE  AuditFits'
  <2>1. /\ Alone(s) /\ pc[s] = "down" /\ pc'[s] = "idle"
        /\ mem'[s] = stored[KeyOf[s]] /\ call' = call
        /\ UNCHANGED <<stored, usageEvents>>
    BY <1>1, <1>8 DEF Activate, Alone, TypeOK
  <2>2. ~Charging(s)' /\ CurrentPeriod(s)' = CurrentPeriod(s)
    BY <2>1 DEF Charging, BudgetPcs, CurrentPeriod, Clock, Alone
  <2>3. SlotOK(s)'
    BY <1>1, <2>1, <2>2, FieldTypes DEF AuditFits, SlotOK, Behind
  <2>4. QED
    BY <1>1, <2>1, <2>2, <2>3, LocalStep
<1>9. ASSUME NEW s \in Slots, Deactivate(s) \/ Crash(s) \/ WriteConflicts(s)
      PROVE  AuditFits'
  <2>1. \E answer : Discard(s, answer)
    BY <1>9 DEF Deactivate, Crash, WriteConflicts
  <2>2. UNCHANGED <<stored, usageEvents>> /\ now' = now
    BY <1>9 DEF Deactivate, Crash, WriteConflicts
  <2>3. QED
    BY <1>1, <1>7, <2>1, <2>2, DiscardStep
<1>10. ASSUME NEW s \in Slots,
              \/ CallFails(s) \/ AnswerDuplicate(s) \/ RejectUnknownModel(s)
              \/ AnswerCheck(s) \/ RejectEvent(s) \/ SkipAppend(s) \/ InsertRefused(s)
       PROVE  AuditFits'
  <2>1. /\ \E answer : Return(s, answer)
        /\ pc[s] # "down"
        /\ UNCHANGED <<stored, usageEvents, mem>> /\ now' = now
    BY <1>10 DEF CallFails, AnswerDuplicate, RejectUnknownModel, AnswerCheck, RejectEvent,
                 SkipAppend, InsertRefused, Captured
  <2>2. QED
    BY <1>1, <1>6, <2>1, ReturnStep
<1>11. ASSUME NEW s \in Slots,
              \/ NotADuplicate(s) \/ CachedBudget(s) \/ AskBudget(s) \/ ResolveBudget(s)
              \/ LoadBudget(s) \/ CreateEvent(s) \/ BeginInsert(s)
       PROVE  AuditFits'
  <2>1. /\ Alone(s) /\ UNCHANGED <<stored, usageEvents, mem>>
    BY <1>1, <1>11 DEF NotADuplicate, CachedBudget, AskBudget, ResolveBudget, LoadBudget,
                       CreateEvent, BeginInsert, Alone, TypeOK
  <2>2. /\ pc[s] # "down" /\ pc'[s] # "accrue"
        /\ call'[s].cost = call[s].cost /\ call'[s].req = call[s].req
        /\ pc[s] \in BudgetPcs \cup {"append", "insert"} \/ pc'[s] = "price"
    BY <1>1, <1>11 DEF NotADuplicate, CachedBudget, AskBudget, ResolveBudget, LoadBudget,
                       CreateEvent, BeginInsert, TypeOK, Calls, BudgetPcs
  <2>3. Charging(s)' => Charging(s)
    BY <2>2 DEF Charging, IsCapture, BudgetPcs
  <2>4. QED
    BY <1>1, <2>1, <2>2, <2>3, MoveStep
<1>12. ASSUME NEW s \in Slots, NEW c \in Calls, BeginCall(s, c), c.cost = 0
       PROVE  AuditFits'
  <2>1. /\ Alone(s) /\ pc[s] = "idle" /\ call'[s] = c
        /\ UNCHANGED <<stored, usageEvents>>
        /\ pc'[s] \in {"rollover", AfterPeriod(c)}
        /\ mem'[s] \in {mem[s], Reset(mem[s], CurrentPeriod(s))}
        /\ mem'[s] # mem[s] => mem[s].period # CurrentPeriod(s)
    BY <1>1, <1>12 DEF BeginCall, PeriodIsCurrent, RollOver, Alone, TypeOK
  <2>2. ~Charging(s)' /\ pc'[s] # "accrue" /\ CurrentPeriod(s)' = CurrentPeriod(s)
    BY <2>1 DEF AfterPeriod, Charging, IsCapture, BudgetPcs, CurrentPeriod, Clock, Alone
  <2>3. SlotOK(s)'
    <3>1. SlotOK(s)
      BY DEF AuditFits
    <3>2. CASE mem'[s] = mem[s]
      BY <1>12, <2>1, <2>2, <3>1, <3>2 DEF SlotOK, Behind
    <3>3. CASE mem'[s] # mem[s]
      <4>1. /\ mem'[s].version = mem[s].version /\ mem'[s].period = CurrentPeriod(s)
            /\ mem'[s].spend = 0
        BY <1>1, <2>1, <3>3, FieldTypes, Updates
      <4>2. mem[s].period < CurrentPeriod(s)
        BY <1>1, <2>1, <3>1, <3>3, FieldTypes DEF SlotOK
      <4>3. pc[s] # "down" /\ (mem[s].version = stored[KeyOf[s]].version =>
                                 Behind(stored[KeyOf[s]], mem'[s]))
        BY <1>1, <2>1, <3>1, <4>1, <4>2, FieldTypes DEF SlotOK, Behind
      <4>4. QED
        BY <1>1, <1>12, <2>1, <2>2, <3>1, <4>1, <4>2, <4>3, FieldTypes DEF SlotOK, Behind
    <3>4. QED
      BY <3>2, <3>3
  <2>4. QED
    BY <1>1, <2>1, <2>2, <2>3, LocalStep
<1>13. ASSUME NEW s \in Slots, CheckBudget(s)
       PROVE  AuditFits'
  <2>1. NoCall \in Calls /\ NoCall.cost = 0
    BY DefaultTypes DEF NoCall, Call
  <2>2. QED
    BY <1>12, <1>13, <2>1 DEF CheckBudget
<1>14. ASSUME NEW s \in Slots, NEW r \in Requests, CaptureUsage(s, r)
       PROVE  AuditFits'
  <2>1. Call(r, sends[r] + 1) \in Calls /\ Call(r, sends[r] + 1).cost = 0
    BY <1>1 DEF Call, Calls, TypeOK, Amount, PeriodOrNone
  <2>2. QED
    BY <1>12, <1>14, <2>1 DEF CaptureUsage
<1>15. ASSUME NEW s \in Slots, Accrue(s)
       PROVE  AuditFits'
  <2> DEFINE req == call[s].req
  <2>1. req \in Requests /\ pc[s] = "price"
    BY <1>1, <1>15 DEF Accrue, TypeOK, AwaitTypeOK, CapturePcs, IsCapture, Calls
  <2>2. PICK quote \in QuotesOf[req] \ {UnknownModel} :
          LET cost == ComputeCost(TokensOf[req], quote)
          IN  /\ call' = [call EXCEPT ![s].cost = cost]
              /\ mem' = [mem EXCEPT ![s] = Charge(@, req, cost)]
    BY <1>15 DEF Accrue
  <2> DEFINE cost == ComputeCost(TokensOf[req], quote)
  <2>3. cost \in Int /\ cost >= 0
    BY <2>1, CostType DEF NonNegativeTokens
  <2> HIDE DEF cost
  <2>4. /\ mem'[s] = Charge(mem[s], req, cost) /\ call'[s].cost = cost /\ pc'[s] = "accrue"
        /\ Alone(s) /\ UNCHANGED <<stored, usageEvents>>
    BY <1>1, <1>15, <2>2 DEF Accrue, Alone, TypeOK, Calls, cost
  <2>5. /\ mem'[s].version = mem[s].version /\ mem'[s].period = mem[s].period
        /\ mem'[s].spend = mem[s].spend + cost
    BY <1>1, <2>1, <2>3, <2>4, FieldTypes, Updates
  <2>6. ~Charging(s)' /\ CurrentPeriod(s)' = CurrentPeriod(s)
    BY <2>4 DEF Charging, BudgetPcs, CurrentPeriod, Clock, Alone
  <2>7. SlotOK(s)'
    BY <1>1, <2>1, <2>3, <2>4, <2>5, <2>6, FieldTypes DEF AuditFits, SlotOK, Behind
  <2>8. QED
    BY <1>1, <2>4, <2>6, <2>7, LocalStep
<1>16. ASSUME NEW s \in Slots, WriteSucceeds(s)
       PROVE  AuditFits'
  <2>1. /\ Alone(s) /\ Writing(s) /\ Persist(s) /\ UNCHANGED <<usageEvents, call>>
        /\ mem'[s] = Written(mem[s])
        /\ stored'[KeyOf[s]] = Written(mem[s])
        /\ pc'[s] = IF pc[s] = "rollover" THEN AfterPeriod(call[s]) ELSE "budget"
    BY <1>1, <1>16, FieldTypes DEF WriteSucceeds, Persist, Alone, TypeOK
  <2>2. /\ Written(mem[s]).period = mem[s].period /\ Written(mem[s]).spend = mem[s].spend
        /\ Written(mem[s]).version = mem[s].version + 1
    BY <1>1, FieldTypes, Updates
  <2>3. Charging(s)' => pc[s] = "accrue" /\ Claim(s)' = Claim(s)
    BY <2>1, <2>2 DEF Charging, Claim, Writing, AfterPeriod, IsCapture, BudgetPcs
  <2>4. CurrentPeriod(s)' = CurrentPeriod(s) /\ pc'[s] # "accrue"
    BY <2>1 DEF CurrentPeriod, Clock, Alone, AfterPeriod
  <2>5. SlotOK(s)'
    BY <1>1, <2>1, <2>2, <2>3, <2>4, FieldTypes DEF AuditFits, SlotOK, Behind
  <2>6. QED
    BY <1>1, <2>1, <2>3, <2>5, WriteStep
<1>17. ASSUME NEW s \in Slots, WriteUnacknowledged(s)
       PROVE  AuditFits'
  <2>1. /\ Alone(s) /\ Writing(s) /\ Persist(s) /\ UNCHANGED <<usageEvents, mem>>
        /\ stored'[KeyOf[s]] = Written(mem[s])
        /\ pc'[s] = "idle" /\ call'[s] = NoCall
    BY <1>1, <1>6, <1>17, FieldTypes DEF WriteUnacknowledged, Persist, TypeOK
  <2>2. /\ Written(mem[s]).period = mem[s].period /\ Written(mem[s]).spend = mem[s].spend
        /\ Written(mem[s]).version = mem[s].version + 1
    BY <1>1, FieldTypes, Updates
  <2>3. ~Charging(s)' /\ CurrentPeriod(s)' = CurrentPeriod(s)
    BY <2>1 DEF Charging, BudgetPcs, CurrentPeriod, Clock, Alone
  <2>4. SlotOK(s)'
    BY <1>1, <2>1, <2>2, <2>3, FieldTypes DEF AuditFits, SlotOK, Behind, NoCall, Call
  <2>5. QED
    BY <1>1, <2>1, <2>3, <2>4, WriteStep
<1>18. ASSUME NEW s \in Slots, AppendEvent(s) \/ AppendUnacknowledged(s)
       PROVE  AuditFits'
  <2>1. /\ \E answer : Return(s, answer)
        /\ InsertEvent(s) /\ UNCHANGED <<stored, mem>> /\ now' = now
    BY <1>18 DEF AppendEvent, AppendUnacknowledged, Captured
  <2>2. QED
    BY <1>1, <1>6, <2>1, AppendStep
<1>19. QED
  BY <1>2, <1>4, <1>5, <1>8, <1>9, <1>10, <1>11, <1>13, <1>14, <1>15, <1>16, <1>17, <1>18
     DEF Next, Step, Fault

-----------------------------------------------------------------------------
(* The first write of a grain. *)

\* Only an accepted write changes what is stored.
LEMMA OnlyWritesStore ==
    ASSUME TypeOK, [Next]_vars, stored' # stored
    PROVE  \E s \in Slots : Writing(s) /\ Persist(s)
<1>1. \E s \in Slots : WriteSucceeds(s) \/ WriteUnacknowledged(s)
  BY DEF Next, Step, Fault, vars, outside, Tick, ChangeBudget, Activate, Deactivate, Crash,
         CallFails, BeginCall, CheckBudget, CaptureUsage, WriteConflicts,
         AnswerDuplicate, NotADuplicate, RejectUnknownModel, Accrue, CachedBudget, AskBudget,
         ResolveBudget, LoadBudget, AnswerCheck, RejectEvent, CreateEvent, SkipAppend,
         BeginInsert, AppendEvent, AppendUnacknowledged, InsertRefused
<1>2. QED
  BY <1>1 DEF WriteSucceeds, WriteUnacknowledged

\* Nothing but its start brings a slot to life.
LEMMA OnlyActivationWakes ==
    ASSUME TypeOK, [Next]_vars, NEW s \in Slots, pc[s] = "down", pc'[s] # "down"
    PROVE  Activate(s)
<1> USE DEF outside
<1>1. pc \in [Slots -> PcValues]
  BY DEF TypeOK
<1>2. PICK t \in Slots : \/ Activate(t) \/ Deactivate(t) \/ CheckBudget(t)
                         \/ \E r \in Requests : CaptureUsage(t, r)
                         \/ Step(t) \/ Fault(t)
  BY DEF Next, vars, Tick, ChangeBudget
<1>3. t = s
  <2>1. \E v : pc' = [pc EXCEPT ![t] = v]
    BY <1>2 DEF Step, Fault, Activate, Deactivate, Crash, Discard, Return, Captured,
           CallFails, BeginCall, PeriodIsCurrent, RollOver, CheckBudget, CaptureUsage,
           WriteSucceeds, WriteConflicts, WriteUnacknowledged, AnswerDuplicate,
           NotADuplicate, RejectUnknownModel, Accrue, CachedBudget, AskBudget,
           ResolveBudget, LoadBudget, AnswerCheck, RejectEvent, CreateEvent, SkipAppend,
           BeginInsert, AppendEvent, AppendUnacknowledged, InsertRefused
  <2> QED  BY <1>1, <2>1
<1> QED  BY <1>2, <1>3
         DEF Step, Fault, Deactivate, Crash, CallFails, BeginCall, CheckBudget,
             CaptureUsage, WriteSucceeds, Writing, WriteConflicts, WriteUnacknowledged,
             AnswerDuplicate, NotADuplicate, RejectUnknownModel, Accrue, CachedBudget,
             AskBudget, ResolveBudget, LoadBudget, AnswerCheck, RejectEvent, CreateEvent,
             SkipAppend, BeginInsert, InsertEvent, AppendEvent, AppendUnacknowledged,
             InsertRefused

\* A row is there for good.
LEMMA RowsStay ==
    ASSUME TypeOK, [Next]_vars, NEW k \in Keys, HasRow(k)
    PROVE  HasRow(k)'
<1>1. CASE stored' = stored
  BY <1>1 DEF HasRow
<1>2. CASE stored' # stored
  <2>1. PICK s \in Slots : Persist(s)
    BY <1>2, OnlyWritesStore
  <2>2. KeyOf[s] \in Keys /\ mem[s] \in StateRows /\ stored \in [Keys -> StateRows]
    BY FieldTypes DEF TypeOK
  <2>3. Written(mem[s]).version = mem[s].version + 1 /\ mem[s].version \in Nat
    BY <2>2 DEF Written, StateRows
  <2> QED  BY <2>1, <2>2, <2>3 DEF Persist, HasRow
<1> QED  BY <1>1, <1>2

\* No two activations are at their first write at once.
LEMMA FirstWriteAloneNext ==
    ASSUME OneFirstWriter, TypeOK, FirstWriteAlone, [Next]_vars
    PROVE  FirstWriteAlone'
<1>1. ASSUME NEW s \in Slots, pc'[s] # "down", ~HasRow(KeyOf[s])'
      PROVE  s \in FirstWriters
  <2>1. ~HasRow(KeyOf[s])
    BY <1>1, RowsStay, KeysAssumption
  <2>2. CASE pc[s] # "down"
    BY <2>1, <2>2 DEF FirstWriteAlone
  <2>3. CASE pc[s] = "down"
    BY <1>1, <2>1, <2>3, OnlyActivationWakes DEF Activate
  <2> QED  BY <2>2, <2>3
<1>2. ASSUME NEW s \in Slots, pc'[s] # "down", ~HasRow(KeyOf[s])',
             NEW t \in Slots \ {s}, KeyOf[t] = KeyOf[s]
      PROVE  pc'[t] = "down"
  BY <1>1, <1>2 DEF OneFirstWriter
<1> QED  BY <1>1, <1>2 DEF FirstWriteAlone

LEMMA AuditInvariantInit == Init => AuditInvariant
  BY AuditFitsInit DEF Init, FirstWriteAlone, AuditInvariant

LEMMA AuditInvariantNext ==
    ASSUME NonNegativeTokens, ClocksInStep, OneFirstWriter, AuditInvariant, [Next]_vars
    PROVE  AuditInvariant'
  BY AuditFitsNext, FirstWriteAloneNext DEF AuditInvariant, AuditFits

\* The audit invariant holds in every reachable state, where the first write of a
\* grain is made by one activation.
THEOREM AuditInvariantHolds ==
    ASSUME NonNegativeTokens, ClocksInStep, OneFirstWriter
    PROVE  Spec => []AuditInvariant
  BY AuditInvariantInit, AuditInvariantNext, PTL DEF Spec

\* Every audit row accounts for a stretch of the stored spend of its own, however
\* activations crash, retry, conflict or lose acknowledgements once one of them has
\* made the first write.
THEOREM AuditIsSliced ==
    ASSUME NonNegativeTokens, ClocksInStep, OneFirstWriter
    PROVE  Spec => []AuditSlices
<1>1. AuditInvariant => AuditSlices
  BY DEF AuditInvariant, AuditFits
<1>2. QED
  BY <1>1, AuditInvariantHolds, PTL

-----------------------------------------------------------------------------
(* Writes and the stored spend. *)

\* A write that passes the version check was prepared on top of what is stored.
LEMMA WritesGoForward ==
    ASSUME AuditInvariant, [Next]_vars, stored' # stored, NEW k \in Keys
    PROVE  Behind(stored[k], stored'[k])
<1>1. TypeOK /\ stored[k].period \in Int /\ stored[k].spend \in Int
  BY PeriodsAreIntegers DEF AuditInvariant, AuditFits, TypeOK, StateRows
<1>2. PICK s \in Slots : Writing(s) /\ Persist(s)
  BY <1>1, OnlyWritesStore
<1>3. KeyOf[s] \in Keys /\ mem[s] \in StateRows
  BY <1>1, FieldTypes
<1>4. /\ stored'[KeyOf[s]] = Written(mem[s])
      /\ \A j \in Keys \ {KeyOf[s]} : stored'[j] = stored[j]
  BY <1>1, <1>2, <1>3 DEF Persist, TypeOK
<1>5. CASE k = KeyOf[s]
  <2>1. Behind(stored[k], mem[s])
    BY <1>2, <1>5 DEF AuditInvariant, AuditFits, SlotOK, Writing, Persist
  <2>2. Written(mem[s]).period = mem[s].period /\ Written(mem[s]).spend = mem[s].spend
    BY <1>3, Updates
  <2>3. QED
    BY <1>4, <1>5, <2>1, <2>2 DEF Behind
<1>6. CASE k # KeyOf[s]
  BY <1>1, <1>4, <1>6 DEF Behind
<1>7. QED
  BY <1>5, <1>6

\* A write never takes back spend, nor a later period, where clocks are in step and the
\* first write of a grain is made by one activation.
THEOREM SpendIsKept ==
    ASSUME NonNegativeTokens, ClocksInStep, OneFirstWriter
    PROVE  Spec => SpendNeverDecreases
<1>1. ASSUME AuditInvariant, [Next]_vars
      PROVE  [\A k \in Keys :
                /\ stored[k].period <= stored'[k].period
                /\ stored[k].period = stored'[k].period =>
                      stored[k].spend <= stored'[k].spend]_stored
  BY <1>1, WritesGoForward DEF Behind
<1>2. QED
  BY <1>1, AuditInvariantHolds, PTL DEF Spec, SpendNeverDecreases

-----------------------------------------------------------------------------
(* Checks and the audit table, where a grain has one activation. *)

\* An activation knows at least what is stored, whatever became of its writes.
MemoryAhead == \A s \in Slots : pc[s] # "down" => Behind(stored[KeyOf[s]], mem[s])

LEMMA MemoryAheadNext ==
    ASSUME NonNegativeTokens, SingleActivation, AuditInvariant, MemoryAhead, [Next]_vars
    PROVE  MemoryAhead'
<1> USE DEF outside
<1>1. TypeOK
  BY DEF AuditInvariant, AuditFits
<1>2. SUFFICES ASSUME NEW s \in Slots, pc'[s] # "down"
               PROVE  Behind(stored'[KeyOf[s]], mem'[s])
  BY DEF MemoryAhead, Behind
<1>3. ASSUME stored'[KeyOf[s]] = stored[KeyOf[s]], mem'[s] = mem[s], pc[s] # "down"
      PROVE  Behind(stored'[KeyOf[s]], mem'[s])
  BY <1>3 DEF MemoryAhead
<1>4. CASE Tick \/ (\E c \in Callers, p \in Periods, b \in Budgets : ChangeBudget(c, p, b))
           \/ UNCHANGED vars
  BY <1>2, <1>3, <1>4 DEF Tick, ChangeBudget, vars
<1>5. ASSUME NEW t \in Slots, Activate(t)
      PROVE  Behind(stored'[KeyOf[s]], mem'[s])
  <2>1. CASE t = s
    BY <1>1, <1>5, <2>1, FieldTypes DEF Activate, Behind, TypeOK
  <2>2. CASE t # s
    BY <1>1, <1>2, <1>3, <1>5, <2>2 DEF Activate, TypeOK
  <2>3. QED
    BY <2>1, <2>2
<1>6. ASSUME NEW t \in Slots, Deactivate(t) \/ Crash(t) \/ WriteConflicts(t)
      PROVE  Behind(stored'[KeyOf[s]], mem'[s])
  <2>1. (\E answer : Discard(t, answer)) /\ UNCHANGED stored
    BY <1>6 DEF Deactivate, Crash, WriteConflicts
  <2>2. s # t /\ pc'[s] = pc[s] /\ mem'[s] = mem[s]
    BY <1>1, <1>2, <2>1 DEF Discard, TypeOK
  <2>3. QED
    BY <1>2, <1>3, <2>1, <2>2
<1>7. ASSUME NEW t \in Slots,
             \/ CallFails(t) \/ AnswerDuplicate(t) \/ RejectUnknownModel(t)
             \/ AnswerCheck(t) \/ RejectEvent(t) \/ SkipAppend(t) \/ InsertRefused(t)
             \/ AppendEvent(t) \/ AppendUnacknowledged(t)
             \/ NotADuplicate(t) \/ CachedBudget(t) \/ AskBudget(t) \/ ResolveBudget(t)
             \/ LoadBudget(t) \/ CreateEvent(t) \/ BeginInsert(t)
      PROVE  Behind(stored'[KeyOf[s]], mem'[s])
  <2>1. UNCHANGED <<stored, mem>> /\ pc[t] # "down" /\ \E v : pc' = [pc EXCEPT ![t] = v]
    BY <1>7 DEF CallFails, AnswerDuplicate, RejectUnknownModel, AnswerCheck, RejectEvent,
                SkipAppend, InsertRefused, AppendEvent, AppendUnacknowledged, InsertEvent,
                NotADuplicate, CachedBudget, AskBudget, ResolveBudget, LoadBudget,
                CreateEvent, BeginInsert, Captured, Return
  <2>2. pc[s] # "down"
    BY <1>1, <1>2, <2>1 DEF TypeOK
  <2>3. QED
    BY <1>3, <2>1, <2>2
<1>8. ASSUME NEW t \in Slots, CheckBudget(t) \/ \E r \in Requests : CaptureUsage(t, r)
      PROVE  Behind(stored'[KeyOf[s]], mem'[s])
  <2>1. PICK c : BeginCall(t, c)
    BY <1>8 DEF CheckBudget, CaptureUsage
  <2>2. /\ pc[t] = "idle" /\ UNCHANGED stored
        /\ \A u \in Slots \ {t} : pc'[u] = pc[u] /\ mem'[u] = mem[u]
        /\ \/ mem'[t] = mem[t]
           \/ mem[t].period # CurrentPeriod(t) /\ mem'[t] = Reset(mem[t], CurrentPeriod(t))
    BY <1>1, <2>1 DEF BeginCall, PeriodIsCurrent, RollOver, TypeOK
  <2>3. CASE mem'[s] = mem[s]
    BY <1>2, <1>3, <2>2, <2>3
  <2>4. CASE mem'[s] # mem[s]
    <3>1. /\ t = s /\ mem[s].period # CurrentPeriod(s)
          /\ mem'[s] = Reset(mem[s], CurrentPeriod(s))
      BY <2>2, <2>4
    <3>2. mem'[s].period = CurrentPeriod(s)
      BY <1>1, <3>1, FieldTypes, Updates
    <3>3. Behind(stored[KeyOf[s]], mem[s]) /\ mem[s].period <= CurrentPeriod(s)
      BY <2>2, <3>1 DEF MemoryAhead, AuditInvariant, AuditFits, SlotOK
    <3>4. QED
      BY <1>1, <2>2, <3>1, <3>2, <3>3, FieldTypes DEF Behind
  <2>5. QED
    BY <2>3, <2>4
<1>9. ASSUME NEW t \in Slots, Accrue(t)
      PROVE  Behind(stored'[KeyOf[s]], mem'[s])
  <2>1. CASE t # s
    BY <1>1, <1>2, <1>3, <1>9, <2>1 DEF Accrue, TypeOK
  <2>2. CASE t = s
    <3> DEFINE req == call[s].req
    <3>1. req \in Requests /\ pc[s] = "price"
      BY <1>1, <1>9, <2>2 DEF Accrue, TypeOK, AwaitTypeOK, CapturePcs, IsCapture, Calls
    <3>2. PICK quote \in QuotesOf[req] \ {UnknownModel} :
            mem' = [mem EXCEPT ![s] = Charge(@, req, ComputeCost(TokensOf[req], quote))]
      BY <1>9, <2>2 DEF Accrue
    <3> DEFINE cost == ComputeCost(TokensOf[req], quote)
    <3>3. cost \in Int /\ cost >= 0
      BY <3>1, CostType DEF NonNegativeTokens
    <3> HIDE DEF cost
    <3>4. mem'[s] = Charge(mem[s], req, cost) /\ UNCHANGED stored
      BY <1>1, <1>9, <2>2, <3>2 DEF Accrue, TypeOK, cost
    <3>5. mem'[s].period = mem[s].period /\ mem'[s].spend = mem[s].spend + cost
      BY <1>1, <3>1, <3>3, <3>4, FieldTypes, Updates
    <3>6. Behind(stored[KeyOf[s]], mem[s])
      BY <3>1 DEF MemoryAhead
    <3>7. QED
      BY <1>1, <3>3, <3>4, <3>5, <3>6, FieldTypes DEF Behind
  <2>3. QED
    BY <2>1, <2>2
<1>10. ASSUME NEW t \in Slots, WriteSucceeds(t) \/ WriteUnacknowledged(t)
       PROVE  Behind(stored'[KeyOf[s]], mem'[s])
  <2>1. /\ pc[t] # "down"
        /\ \A k \in Keys \ {KeyOf[t]} : stored'[k] = stored[k]
        /\ stored'[KeyOf[t]] = Written(mem[t])
        /\ \A u \in Slots \ {t} : pc'[u] = pc[u] /\ mem'[u] = mem[u]
        /\ mem'[t] \in {mem[t], Written(mem[t])}
    BY <1>1, <1>10, FieldTypes
       DEF WriteSucceeds, WriteUnacknowledged, Writing, Persist, Return, TypeOK
  <2>2. CASE t # s
    BY <1>2, <1>3, <2>1, <2>2, KeysAssumption DEF SingleActivation
  <2>3. CASE t = s
    <3>1. Written(mem[s]).period = mem[s].period /\ Written(mem[s]).spend = mem[s].spend
      BY <1>1, FieldTypes, Updates
    <3>2. QED
      BY <1>1, <2>1, <2>3, <3>1, FieldTypes DEF Behind
  <2>4. QED
    BY <2>2, <2>3
<1>11. QED
  BY <1>4, <1>5, <1>6, <1>7, <1>8, <1>9, <1>10 DEF Next, Step, Fault

\* A check is answered from a spend that has every audited capture in it.
LEMMA CheckAnswer ==
    ASSUME AuditInvariant, MemoryAhead, [Next]_vars, NEW s \in Slots, Answers(s)
    PROVE  /\ reply'[s] = BuildCheckResult(call[s].budget, mem[s].spend)
           /\ call[s].budget \in Amount /\ mem[s].spend \in Int
           /\ \A e \in usageEvents :
                 e.key = KeyOf[s] /\ e.accruedIn = mem[s].period
                    => e.after \in Int /\ e.after <= mem[s].spend
<1>1. TypeOK
  BY DEF AuditInvariant, AuditFits
<1>2. pc \in [Slots -> PcValues] /\ reply \in [Slots -> Replies]
      /\ call[s].budget \in Amount
  BY <1>1 DEF TypeOK, Calls
<1>3. pc[s] = "decide" /\ pc'[s] = "idle" /\ reply'[s].kind = "check"
  BY DEF Answers
<1>4. PICK t \in Slots : \/ Activate(t) \/ Deactivate(t) \/ CheckBudget(t)
                         \/ \E r \in Requests : CaptureUsage(t, r)
                         \/ Step(t) \/ Fault(t)
  BY <1>3 DEF Next, vars, Tick, ChangeBudget
<1>5. t = s
  <2>1. \E v : pc' = [pc EXCEPT ![t] = v]
    BY <1>4 DEF Step, Fault, Activate, Deactivate, Crash, Discard, Return, Captured,
           CallFails, BeginCall, PeriodIsCurrent, RollOver, CheckBudget, CaptureUsage,
           WriteSucceeds, WriteConflicts, WriteUnacknowledged, AnswerDuplicate,
           NotADuplicate, RejectUnknownModel, Accrue, CachedBudget, AskBudget,
           ResolveBudget, LoadBudget, AnswerCheck, RejectEvent, CreateEvent, SkipAppend,
           BeginInsert, AppendEvent, AppendUnacknowledged, InsertRefused
  <2>2. QED
    BY <1>2, <1>3, <2>1
<1>6. AnswerCheck(s) \/ RejectEvent(s)
  BY <1>2, <1>3, <1>4, <1>5
     DEF Step, Fault, Activate, Deactivate, Crash, Discard, CallFails, BeginCall,
         CheckBudget, CaptureUsage, WriteSucceeds, Writing, WriteConflicts,
         WriteUnacknowledged, AnswerDuplicate, NotADuplicate, RejectUnknownModel, Accrue,
         CachedBudget, AskBudget, ResolveBudget, LoadBudget, CreateEvent, SkipAppend,
         BeginInsert, InsertEvent, AppendEvent, AppendUnacknowledged, InsertRefused
<1>7. ~RejectEvent(s)
  BY <1>2, <1>3 DEF RejectEvent, Return, Error, Answer
<1>8. reply'[s] = BuildCheckResult(call[s].budget, mem[s].spend)
  BY <1>2, <1>6, <1>7 DEF AnswerCheck, Return
<1>9. ASSUME NEW e \in usageEvents, e.key = KeyOf[s], e.accruedIn = mem[s].period
      PROVE  e.after \in Int /\ e.after <= mem[s].spend
  <2>1. /\ e.accruedIn <= stored[KeyOf[s]].period
        /\ e.accruedIn = stored[KeyOf[s]].period => e.after <= stored[KeyOf[s]].spend
    BY <1>9 DEF AuditInvariant, AuditFits, AuditSlices
  <2>2. Behind(stored[KeyOf[s]], mem[s])
    BY <1>3 DEF MemoryAhead
  <2>3. QED
    BY <1>1, <1>9, <2>1, <2>2, FieldTypes, RowTypes DEF Behind
<1>10. QED
  BY <1>1, <1>2, <1>8, <1>9, FieldTypes

\* What both theorems about checks rest on.
LEMMA MemoryAheadHolds ==
    ASSUME NonNegativeTokens, SingleActivation
    PROVE  Spec => [](AuditInvariant /\ MemoryAhead)
<1>1. ClocksInStep /\ OneFirstWriter
  BY FirstWritersAssumption DEF SingleActivation, ClocksInStep
<1>2. Init => MemoryAhead
  BY DEF Init, MemoryAhead
<1>3. QED
  BY <1>1, <1>2, AuditInvariantInit, AuditInvariantNext, MemoryAheadNext, PTL DEF Spec

\* Where every grain has one activation, the answer to a check counts every
\* capture that is in the audit table.
THEOREM ChecksAreComplete ==
    ASSUME NonNegativeTokens, SingleActivation
    PROVE  Spec => ChecksCountEveryCapture
<1>1. ASSUME AuditInvariant, MemoryAhead, [Next]_vars
      PROVE  [\A s \in Slots : Answers(s) =>
                \A e \in usageEvents :
                   e.key = KeyOf[s] /\ e.accruedIn = mem[s].period
                      => e.after <= reply'[s].spend]_vars
  <2> SUFFICES ASSUME NEW s \in Slots, Answers(s), NEW e \in usageEvents,
                      e.key = KeyOf[s], e.accruedIn = mem[s].period
               PROVE  e.after <= reply'[s].spend
    OBVIOUS
  <2>1. reply'[s].spend = mem[s].spend
    <3>1. reply'[s] = BuildCheckResult(call[s].budget, mem[s].spend)
      BY <1>1, CheckAnswer
    <3>2. QED
      BY <3>1 DEF BuildCheckResult, Answer
  <2>2. QED
    BY <1>1, <2>1, CheckAnswer
<1>2. QED
  BY <1>1, MemoryAheadHolds, PTL DEF Spec, ChecksCountEveryCapture

\* A caller whose audited captures have used up the budget is denied, where callers
\* without a budget are.
THEOREM ExhaustedIsDenied ==
    ASSUME NonNegativeTokens, SingleActivation, ~AllowNonBudgetedUsers
    PROVE  Spec => ExhaustedBudgetIsDenied
<1>1. ASSUME AuditInvariant, MemoryAhead, [Next]_vars
      PROVE  [\A s \in Slots : Answers(s) /\ reply'[s].allowed /\ call[s].budget # NoBudget =>
                \A e \in usageEvents :
                   e.key = KeyOf[s] /\ e.accruedIn = mem[s].period
                      => e.after < call[s].budget]_vars
  <2> SUFFICES ASSUME NEW s \in Slots, Answers(s), reply'[s].allowed, NEW e \in usageEvents,
                      e.key = KeyOf[s], e.accruedIn = mem[s].period
               PROVE  e.after < call[s].budget
    OBVIOUS
  <2>1. Allowed(call[s].budget, mem[s].spend)
    <3>1. reply'[s] = BuildCheckResult(call[s].budget, mem[s].spend)
      BY <1>1, CheckAnswer
    <3>2. QED
      BY <3>1 DEF BuildCheckResult, Answer
  <2>2. call[s].budget \in Int
    BY <1>1, CheckAnswer DEF Amount, NoBudget
  <2>3. call[s].budget - mem[s].spend > 0
    BY <2>1 DEF Allowed, Remaining
  <2>4. mem[s].spend \in Int /\ e.after \in Int /\ e.after <= mem[s].spend
    BY <1>1, CheckAnswer
  <2>5. QED
    BY <2>2, <2>3, <2>4
<1>2. QED
  BY <1>1, MemoryAheadHolds, PTL DEF Spec, ExhaustedBudgetIsDenied
=============================================================================
