--------------------------- MODULE UserBudgetGrain ---------------------------
(***************************************************************************)
(* The grain that meters one budget subject: it answers budget checks,     *)
(* captures usage, keeps the running spend of the current period in Orleans*)
(* storage and appends one audit row per capture                           *)
(* (src/LLMCostControl.Grains/Implementations/UserBudgetGrain.cs).         *)
(*                                                                         *)
(* An activation runs one call at a time.  A call is cut at its awaits:    *)
(* pc[s] names the await (or the synchronous stretch) slot s is in, and one*)
(* action takes it to the next.  Between two actions anything else may     *)
(* happen: time passes, an administrator edits budgets, another activation *)
(* steps, a store fails, the silo dies.                                    *)
(*                                                                         *)
(* Amounts are integers, in millionths of the smallest price unit.         *)
(***************************************************************************)
EXTENDS Integers, FiniteSets

CONSTANTS
    Keys,           \* grain keys: caller ids exactly as the requests spell them
    Callers,        \* caller ids after CallerId.From
    CallerOf,       \* [Keys -> Callers]: CallerId.From, which trims
    Slots,          \* places where an activation can live
    KeyOf,          \* [Slots -> Keys]; two slots of one key: a split brain
    FirstWriters,   \* activations that may start before their grain has a row
    Requests,       \* capture requests of the gateway
    NoRequest,      \* "the call is a budget check"
    TargetOf,       \* [Requests -> Keys]
    IdOf,           \* [Requests -> request ids and NoId]
    NoId,           \* a null or blank requestId
    TokensOf,       \* [Requests -> token counts, by TokenKinds]
    QuotesOf,       \* [Requests -> what PricingGrain may answer for its model]
    UnknownModel,   \* the null answer of PricingGrain
    Budgets,        \* amounts an administrator may put in force, or NoBudget
    BudgetCacheTtl,
    AllowNonBudgetedUsers,
    PeriodOf,       \* [Times -> Nat]: BudgetPeriod.FromDate, months counted from 0
    LagOf,          \* [Slots -> Nat]: how far the silo's clock is behind
    MaxTime,        \* bound: the last tick
    MaxSends,       \* bound: times the gateway sends one request
    MaxChanges,     \* bound: edits of budgets
    MaxFaults       \* bound: injected failures

TokenKinds == {"input", "output", "cacheRead", "cacheWrite"}
NoBudget == -1      \* EffectiveBudget.Amount is null
NoPeriod == -1      \* year 0, month 0 of a state that was never written
NoPrice == -1       \* a null CacheRead or CacheWrite price

Times == 0 .. MaxTime
Periods == {PeriodOf[t] : t \in Times}
Prices == [input : Nat, output : Nat,
           cacheRead : Nat \cup {NoPrice}, cacheWrite : Nat \cup {NoPrice}]

ASSUME KeysAssumption == /\ CallerOf \in [Keys -> Callers]
                         /\ KeyOf \in [Slots -> Keys]
\* The first write of a grain is made by one activation; once its row is there, any
\* number may write at once.  Of two first writes both may insert a row (run
\* two_first_inserts of OrleansStorage), which the one row of this module is not.
OneFirstWriter == \A s, t \in FirstWriters : KeyOf[s] = KeyOf[t] => s = t
ASSUME FirstWritersAssumption == FirstWriters \subseteq Slots /\ OneFirstWriter
ASSUME RequestsAssumption == /\ NoRequest \notin Requests
                             /\ TargetOf \in [Requests -> Keys]
                             /\ \A r \in Requests : TokensOf[r] \in [TokenKinds -> Int]
                             /\ \A r \in Requests : QuotesOf[r] \ {UnknownModel} \subseteq Prices
ASSUME BudgetsAssumption == /\ Budgets \subseteq Nat \cup {NoBudget}
                            /\ NoBudget \in Budgets
                            /\ AllowNonBudgetedUsers \in BOOLEAN
ASSUME ClockAssumption == /\ PeriodOf \in [Times -> Nat]
                          /\ \A t, u \in Times : t <= u => PeriodOf[t] <= PeriodOf[u]
                          /\ LagOf \in [Slots -> Nat]
                          /\ BudgetCacheTtl \in Nat
                          /\ {MaxTime, MaxSends, MaxChanges, MaxFaults} \subseteq Nat

VARIABLES
    now,            \* the time
    effective,      \* [Callers -> [Periods -> budget in force, and since when]]
    changes,        \* edits so far
    stored,         \* [Keys -> row of OrleansStorage]
    usageEvents,    \* the usage_events table
    pc,             \* [Slots -> where the activation is]
    mem,            \* [Slots -> _storage.State and its etag]
    cache,          \* [Slots -> _cachedBudget, _budgetLoadedAt]
    call,           \* [Slots -> arguments and locals of the running call]
    reply,          \* [Slots -> what the last call of this activation returned]
    sends,          \* [Requests -> times sent]
    faults          \* failures so far

vars == <<now, effective, changes, stored, usageEvents, pc, mem, cache, call,
          reply, sends, faults>>
outside == <<now, effective, changes>>

-----------------------------------------------------------------------------
NoTally == [r \in Requests |-> 0]
\* The persisted state before any write, as an activation reads it.  `tally' is
\* a history variable: how often each request is contained in `spend'.
NoRow == [version |-> 0, period |-> NoPeriod, spend |-> 0, tally |-> NoTally]
\* The updates of _storage.State: a new period, a cost, a successful write.
Reset(m, p) == [version |-> m.version, period |-> p, spend |-> 0, tally |-> NoTally]
\* Mutant: the cost replaces the spend.
Charge_Overwrites(m, req, cost) ==
    [version |-> m.version, period |-> m.period, spend |-> cost,
     tally |-> [m.tally EXCEPT ![req] = @ + 1]]
Charge(m, req, cost) ==
    [version |-> m.version, period |-> m.period, spend |-> m.spend + cost,
     tally |-> [m.tally EXCEPT ![req] = @ + 1]]
Written(m) == [m EXCEPT !.version = @ + 1]

NoCache == [budget |-> NoBudget, loadedAt |-> -1, period |-> NoPeriod]
Call(req, attempt) == [req |-> req, attempt |-> attempt, cost |-> 0,
                       budget |-> NoBudget, askedAt |-> 0, period |-> NoPeriod]
NoCall == Call(NoRequest, 0)
Answer(kind, allowed, spend) == [kind |-> kind, allowed |-> allowed, spend |-> spend]
NoReply == Answer("none", FALSE, 0)
Error(kind) == Answer(kind, FALSE, 0)

Init ==
    /\ now = 0
    /\ effective \in [Callers -> [Periods -> [budget : Budgets, since : {-BudgetCacheTtl}]]]
    /\ changes = 0
    /\ stored = [k \in Keys |-> NoRow]
    /\ usageEvents = {}
    /\ pc = [s \in Slots |-> "down"]
    /\ mem = [s \in Slots |-> NoRow]
    /\ cache = [s \in Slots |-> NoCache]
    /\ call = [s \in Slots |-> NoCall]
    /\ reply = [s \in Slots |-> NoReply]
    /\ sends = [r \in Requests |-> 0]
    /\ faults = 0

-----------------------------------------------------------------------------
(* What the calls compute. *)

Caller(s) == CallerOf[KeyOf[s]]
\* The TimeProvider of the silo, and the period it puts the activation in.
Clock(s) == IF now < LagOf[s] THEN 0 ELSE now - LagOf[s]
CurrentPeriod(s) == PeriodOf[Clock(s)]
IsCapture(c) == c.req # NoRequest

\* Mutant: every capture gets a fresh id.
EventId_Fresh(c) == <<c.req, c.attempt>>

\* The event id of a capture: the request id, or a fresh guid when there is none.
EventId(c) == IF IdOf[c.req] = NoId THEN <<c.req, c.attempt>> ELSE <<IdOf[c.req], 0>>

OrZero(price) == IF price = NoPrice THEN 0 ELSE price
ComputeCost(tokens, quote) ==
      tokens["input"] * quote.input + tokens["output"] * quote.output
    + tokens["cacheRead"] * OrZero(quote.cacheRead)
    + tokens["cacheWrite"] * OrZero(quote.cacheWrite)

HasBudget(budget) == budget \notin {NoBudget, 0}
Remaining(budget, spend) == budget - spend

\* Mutant: a budget that is used up still allows.
Allowed_AtZero(budget, spend) ==
    \/ HasBudget(budget) /\ Remaining(budget, spend) >= 0
    \/ ~HasBudget(budget) /\ AllowNonBudgetedUsers

Allowed(budget, spend) ==
    \/ HasBudget(budget) /\ Remaining(budget, spend) > 0
    \/ ~HasBudget(budget) /\ AllowNonBudgetedUsers

BuildCheckResult(budget, spend) ==
    Answer("check", Allowed(budget, spend), spend)
BuildCaptureResult(spend) == Answer("captured", FALSE, spend)
BuildCaptureResultFromEvent(e) == Answer("duplicate", FALSE, e.after)

\* UsageEvent.Create refuses negative counts.
WellFormed(req) == \A k \in TokenKinds : TokensOf[req][k] >= 0

\* The audit row of the capture running in s.  `key' and `accruedIn' are history:
\* the grain that captured, and the period whose spend the cost went into.
UsageEvent(s) ==
    [eventId |-> EventId(call[s]), caller |-> Caller(s), cost |-> call[s].cost,
     after |-> mem[s].spend, period |-> call[s].period, key |-> KeyOf[s],
     accruedIn |-> mem[s].period]
Recorded(id) == \E e \in usageEvents : e.eventId = id

-----------------------------------------------------------------------------
(* The world around the grain. *)

\* Time passes, on every silo alike.
Tick ==
    /\ now < MaxTime
    /\ now' = now + 1
    /\ UNCHANGED <<effective, changes, stored, usageEvents, pc, mem, cache, call,
                   reply, sends, faults>>

\* An administrator edits groups, memberships, group budgets or overrides, and
\* what they resolve to for a caller and a period changes.
ChangeBudget(c, p, b) ==
    /\ changes < MaxChanges
    /\ b # effective[c][p].budget
    /\ effective' = [effective EXCEPT ![c][p] = [budget |-> b, since |-> now]]
    /\ changes' = changes + 1
    /\ UNCHANGED <<now, stored, usageEvents, pc, mem, cache, call, reply, sends,
                   faults>>

-----------------------------------------------------------------------------
(* The life of an activation. *)

HasRow(k) == stored[k].version # 0

\* Orleans creates the activation and reads its state before the first call.
Activate(s) ==
    /\ pc[s] = "down"
    /\ HasRow(KeyOf[s]) \/ s \in FirstWriters
    /\ pc' = [pc EXCEPT ![s] = "idle"]
    /\ mem' = [mem EXCEPT ![s] = stored[KeyOf[s]]]
    /\ UNCHANGED <<outside, stored, usageEvents, cache, call, reply, sends, faults>>

\* The activation is gone, and with it everything it had not written.
Discard(s, answer) ==
    /\ pc' = [pc EXCEPT ![s] = "down"]
    /\ mem' = [mem EXCEPT ![s] = NoRow]
    /\ cache' = [cache EXCEPT ![s] = NoCache]
    /\ call' = [call EXCEPT ![s] = NoCall]
    /\ reply' = [reply EXCEPT ![s] = answer]

\* Idle activations are collected.
Deactivate(s) ==
    /\ pc[s] = "idle"
    /\ Discard(s, NoReply)
    /\ UNCHANGED <<outside, stored, usageEvents, sends, faults>>

\* The silo dies; the gateway gets no answer.
Crash(s) ==
    /\ pc[s] # "down"
    /\ faults < MaxFaults
    /\ faults' = faults + 1
    /\ Discard(s, NoReply)
    /\ UNCHANGED <<outside, stored, usageEvents, sends>>

\* The running call ends and the activation takes the next one.
Return(s, answer) ==
    /\ pc' = [pc EXCEPT ![s] = "idle"]
    /\ call' = [call EXCEPT ![s] = NoCall]
    /\ reply' = [reply EXCEPT ![s] = answer]

\* An await throws before its store did anything (a timeout, a lost connection).
\* The exception reaches the gateway; memory keeps what was already assigned.
CallFails(s) ==
    /\ pc[s] \in {"rollover", "dedupe", "price", "accrue", "resolve", "resolved",
                  "append", "insert"}
    /\ faults < MaxFaults
    /\ faults' = faults + 1
    /\ Return(s, Error("failed"))
    /\ UNCHANGED <<outside, stored, usageEvents, mem, cache, sends>>

-----------------------------------------------------------------------------
(* EnsurePeriodCurrentAsync, which opens every call. *)

\* Mutant: a check takes the path of a capture.
AfterPeriod_Shared(c) == "price"

\* Where a call goes once the period is current.
AfterPeriod(c) ==
    IF ~IsCapture(c) THEN "budget"
    ELSE IF IdOf[c.req] = NoId THEN "price" ELSE "dedupe"

PeriodIsCurrent(s, c) ==
    /\ mem[s].period = CurrentPeriod(s)
    /\ pc' = [pc EXCEPT ![s] = AfterPeriod(c)]
    /\ UNCHANGED mem

\* Mutants: the period is not compared; the spend is not reset.
RollOver_EveryCall(s) ==
    /\ mem' = [mem EXCEPT ![s] = Reset(@, CurrentPeriod(s))]
    /\ pc' = [pc EXCEPT ![s] = "rollover"]
RollOver_KeepsSpend(s) ==
    /\ mem[s].period # CurrentPeriod(s)
    /\ mem' = [mem EXCEPT ![s].period = CurrentPeriod(s)]
    /\ pc' = [pc EXCEPT ![s] = "rollover"]

\* The state is reset in memory first, then written.
RollOver(s) ==
    /\ mem[s].period # CurrentPeriod(s)
    /\ mem' = [mem EXCEPT ![s] = Reset(@, CurrentPeriod(s))]
    /\ pc' = [pc EXCEPT ![s] = "rollover"]

BeginCall(s, c) ==
    /\ pc[s] = "idle"
    /\ PeriodIsCurrent(s, c) \/ RollOver(s)
    /\ call' = [call EXCEPT ![s] = c]
    /\ reply' = [reply EXCEPT ![s] = NoReply]
    /\ UNCHANGED <<outside, stored, usageEvents, cache, faults>>

\* POST /api/budget/check.
CheckBudget(s) == BeginCall(s, NoCall) /\ UNCHANGED sends

\* POST /api/usage/capture, sent for the first time or again.
CaptureUsage(s, r) ==
    /\ TargetOf[r] = KeyOf[s]
    /\ sends[r] < MaxSends
    /\ sends' = [sends EXCEPT ![r] = @ + 1]
    /\ BeginCall(s, Call(r, sends[r] + 1))

-----------------------------------------------------------------------------
(* WriteStateAsync: a compare-and-swap on the version.  OrleansStorage cuts its *)
(* statements open and shows that this is what they come to, with one first    *)
(* writer: no INSERT can be under way while another activation makes the row.  *)

Writing(s) == pc[s] \in {"rollover", "accrue"}
\* Mutant: the last writer wins.
Persist_Unversioned(s) ==
    stored' = [stored EXCEPT ![KeyOf[s]] = Written(mem[s])]

\* The UPDATE finds the version that was read, or the INSERT finds no row.
Persist(s) ==
    /\ mem[s].version = stored[KeyOf[s]].version
    /\ stored' = [stored EXCEPT ![KeyOf[s]] = Written(mem[s])]

WriteSucceeds(s) ==
    /\ Writing(s)
    /\ Persist(s)
    /\ mem' = [mem EXCEPT ![s] = Written(@)]
    /\ pc' = [pc EXCEPT ![s] = IF pc[s] = "rollover" THEN AfterPeriod(call[s])
                                                     ELSE "budget"]
    /\ UNCHANGED <<outside, usageEvents, cache, call, reply, sends, faults>>

\* Mutant: the conflict is swallowed and the same write tried again.
WriteConflicts_Retried(s) ==
    /\ Writing(s)
    /\ mem[s].version # stored[KeyOf[s]].version
    /\ UNCHANGED vars

\* Another version is stored, or a row where there was none when the activation
\* read: InconsistentStateException, on which Orleans deactivates the activation.
WriteConflicts(s) ==
    /\ Writing(s)
    /\ mem[s].version # stored[KeyOf[s]].version
    /\ Discard(s, Error("failed"))
    /\ UNCHANGED <<outside, stored, usageEvents, sends, faults>>

\* The write is applied and its acknowledgement lost.
WriteUnacknowledged(s) ==
    /\ Writing(s)
    /\ faults < MaxFaults
    /\ faults' = faults + 1
    /\ Persist(s)
    /\ Return(s, Error("failed"))
    /\ UNCHANGED <<outside, usageEvents, mem, cache, sends>>

-----------------------------------------------------------------------------
(* CaptureUsageAsync up to the accrual. *)

\* A request already in the audit table is answered from its row.
AnswerDuplicate(s) ==
    /\ pc[s] = "dedupe"
    /\ \E e \in usageEvents :
          /\ e.eventId = EventId(call[s])
          /\ Return(s, BuildCaptureResultFromEvent(e))
    /\ UNCHANGED <<outside, stored, usageEvents, mem, cache, sends, faults>>

\* Mutant: the audit table is not consulted.
NotADuplicate_Assumed(s) ==
    /\ pc[s] = "dedupe"
    /\ pc' = [pc EXCEPT ![s] = "price"]
    /\ UNCHANGED <<outside, stored, usageEvents, mem, cache, call, reply, sends,
                   faults>>

NotADuplicate(s) ==
    /\ pc[s] = "dedupe"
    /\ ~Recorded(EventId(call[s]))
    /\ pc' = [pc EXCEPT ![s] = "price"]
    /\ UNCHANGED <<outside, stored, usageEvents, mem, cache, call, reply, sends,
                   faults>>

RejectUnknownModel(s) ==
    /\ pc[s] = "price"
    /\ UnknownModel \in QuotesOf[call[s].req]
    /\ Return(s, Error("unknown_model"))
    /\ UNCHANGED <<outside, stored, usageEvents, mem, cache, sends, faults>>

\* The cost goes into the spend in memory; the write is under way.
Accrue(s) ==
    /\ pc[s] = "price"
    /\ \E quote \in QuotesOf[call[s].req] \ {UnknownModel} :
          LET cost == ComputeCost(TokensOf[call[s].req], quote)
          IN  /\ call' = [call EXCEPT ![s].cost = cost]
              /\ mem' = [mem EXCEPT ![s] = Charge(@, call[s].req, cost)]
    /\ pc' = [pc EXCEPT ![s] = "accrue"]
    /\ UNCHANGED <<outside, stored, usageEvents, cache, reply, sends, faults>>

-----------------------------------------------------------------------------
(* GetEffectiveBudgetAsync. *)

CacheIsFresh(s) ==
    cache[s].loadedAt >= 0 /\ Clock(s) - cache[s].loadedAt < BudgetCacheTtl

CachedBudget(s) ==
    /\ pc[s] = "budget"
    /\ CacheIsFresh(s)
    /\ call' = [call EXCEPT ![s].budget = cache[s].budget, ![s].askedAt = Clock(s)]
    /\ pc' = [pc EXCEPT ![s] = "decide"]
    /\ UNCHANGED <<outside, stored, usageEvents, mem, cache, reply, sends, faults>>

\* The clock is read before the store is asked.
AskBudget(s) ==
    /\ pc[s] = "budget"
    /\ ~CacheIsFresh(s)
    /\ call' = [call EXCEPT ![s].askedAt = Clock(s), ![s].period = CurrentPeriod(s)]
    /\ pc' = [pc EXCEPT ![s] = "resolve"]
    /\ UNCHANGED <<outside, stored, usageEvents, mem, cache, reply, sends, faults>>

\* The database evaluates ResolveAsync ...
ResolveBudget(s) ==
    /\ pc[s] = "resolve"
    /\ call' = [call EXCEPT ![s].budget = effective[Caller(s)][call[s].period].budget]
    /\ pc' = [pc EXCEPT ![s] = "resolved"]
    /\ UNCHANGED <<outside, stored, usageEvents, mem, cache, reply, sends, faults>>

\* Mutant: the entry is stamped when the answer arrives.
LoadBudget_StampedOnArrival(s) ==
    /\ pc[s] = "resolved"
    /\ cache' = [cache EXCEPT ![s] = [budget |-> call[s].budget, loadedAt |-> Clock(s),
                                      period |-> call[s].period]]
    /\ pc' = [pc EXCEPT ![s] = "decide"]
    /\ UNCHANGED <<outside, stored, usageEvents, mem, call, reply, sends, faults>>

\* ... and its answer arrives some time later.
LoadBudget(s) ==
    /\ pc[s] = "resolved"
    /\ cache' = [cache EXCEPT ![s] = [budget |-> call[s].budget,
                                      loadedAt |-> call[s].askedAt,
                                      period |-> call[s].period]]
    /\ pc' = [pc EXCEPT ![s] = "decide"]
    /\ UNCHANGED <<outside, stored, usageEvents, mem, call, reply, sends, faults>>

-----------------------------------------------------------------------------
(* The end of the calls. *)

AnswerCheck(s) ==
    /\ pc[s] = "decide"
    /\ ~IsCapture(call[s])
    /\ Return(s, BuildCheckResult(call[s].budget, mem[s].spend))
    /\ UNCHANGED <<outside, stored, usageEvents, mem, cache, sends, faults>>

\* UsageEvent.Create throws; the accrual has been written.
RejectEvent(s) ==
    /\ pc[s] = "decide"
    /\ IsCapture(call[s])
    /\ ~WellFormed(call[s].req)
    /\ Return(s, Error("failed"))
    /\ UNCHANGED <<outside, stored, usageEvents, mem, cache, sends, faults>>

\* The row is made, in the period of that moment, and AppendAsync looks for its id.
CreateEvent(s) ==
    /\ pc[s] = "decide"
    /\ IsCapture(call[s])
    /\ WellFormed(call[s].req)
    /\ call' = [call EXCEPT ![s].period = CurrentPeriod(s)]
    /\ pc' = [pc EXCEPT ![s] = "append"]
    /\ UNCHANGED <<outside, stored, usageEvents, mem, cache, reply, sends, faults>>

Captured(s) ==
    Return(s, BuildCaptureResult(mem[s].spend))

\* Mutant: the result of an insert that did not happen.
BeginInsert_Forgotten(s) ==
    /\ pc[s] = "append"
    /\ Captured(s)
    /\ UNCHANGED <<outside, stored, usageEvents, mem, cache, sends, faults>>

\* AppendAsync returns false, which the grain ignores.
SkipAppend(s) ==
    /\ pc[s] = "append"
    /\ Recorded(EventId(call[s]))
    /\ Captured(s)
    /\ UNCHANGED <<outside, stored, usageEvents, mem, cache, sends, faults>>

BeginInsert(s) ==
    /\ pc[s] = "append"
    /\ ~Recorded(EventId(call[s]))
    /\ pc' = [pc EXCEPT ![s] = "insert"]
    /\ UNCHANGED <<outside, stored, usageEvents, mem, cache, call, reply, sends,
                   faults>>

InsertEvent(s) ==
    /\ pc[s] = "insert"
    /\ ~Recorded(EventId(call[s]))
    /\ usageEvents' = usageEvents \cup {UsageEvent(s)}

AppendEvent(s) ==
    /\ InsertEvent(s)
    /\ Captured(s)
    /\ UNCHANGED <<outside, stored, mem, cache, sends, faults>>

\* The insert commits and its acknowledgement is lost.
AppendUnacknowledged(s) ==
    /\ InsertEvent(s)
    /\ faults < MaxFaults
    /\ faults' = faults + 1
    /\ Return(s, Error("failed"))
    /\ UNCHANGED <<outside, stored, mem, cache, sends>>

\* Someone inserted the id since AppendAsync looked: the primary key refuses it.
InsertRefused(s) ==
    /\ pc[s] = "insert"
    /\ Recorded(EventId(call[s]))
    /\ Return(s, Error("failed"))
    /\ UNCHANGED <<outside, stored, usageEvents, mem, cache, sends, faults>>

-----------------------------------------------------------------------------
\* What brings the running call of s to its end.
Step(s) ==
    \/ WriteSucceeds(s)
    \/ WriteConflicts(s)
    \/ AnswerDuplicate(s)
    \/ NotADuplicate(s)
    \/ RejectUnknownModel(s)
    \/ Accrue(s)
    \/ CachedBudget(s)
    \/ AskBudget(s)
    \/ ResolveBudget(s)
    \/ LoadBudget(s)
    \/ AnswerCheck(s)
    \/ RejectEvent(s)
    \/ CreateEvent(s)
    \/ SkipAppend(s)
    \/ BeginInsert(s)
    \/ AppendEvent(s)
    \/ InsertRefused(s)

Fault(s) ==
    \/ Crash(s)
    \/ CallFails(s)
    \/ WriteUnacknowledged(s)
    \/ AppendUnacknowledged(s)

Next ==
    \/ Tick
    \/ \E c \in Callers, p \in Periods, b \in Budgets : ChangeBudget(c, p, b)
    \/ \E s \in Slots :
          \/ Activate(s)
          \/ Deactivate(s)
          \/ CheckBudget(s)
          \/ \E r \in Requests : CaptureUsage(s, r)
          \/ Step(s)
          \/ Fault(s)

Spec == Init /\ [][Next]_vars
\* Orleans keeps running a call it has started: every await is answered, well or
\* badly.  Nothing is assumed of the gateway, the administrators or the clock.
FairSpec == Spec /\ \A s \in Slots : WF_vars(Step(s))

-----------------------------------------------------------------------------
(* Types. *)

Amount == Nat \cup {NoBudget}
PeriodOrNone == Periods \cup {NoPeriod}
EventIds == (Requests \X Nat) \cup ({IdOf[r] : r \in Requests} \X {0})
StateRows == [version : Nat, period : PeriodOrNone, spend : Int,
              tally : [Requests -> Nat]]
CacheEntries == [budget : Amount, loadedAt : Nat \cup {-1}, period : PeriodOrNone]
Calls == [req : Requests \cup {NoRequest}, attempt : Nat, cost : Int,
          budget : Amount, askedAt : Nat, period : PeriodOrNone]
ReplyKinds == {"none", "check", "captured", "duplicate", "unknown_model", "failed"}
Replies == [kind : ReplyKinds, allowed : BOOLEAN, spend : Int]
AuditRows == [eventId : EventIds, caller : Callers, cost : Int, after : Int,
              period : PeriodOrNone, key : Keys, accruedIn : PeriodOrNone]
CapturePcs == {"dedupe", "price", "accrue", "append", "insert"}
BudgetPcs == {"budget", "resolve", "resolved", "decide"}
PcValues == CapturePcs \cup BudgetPcs \cup {"down", "idle", "rollover"}

\* The awaits of CaptureUsageAsync are reached by captures only, and ResolveAsync
\* is asked about a period that exists.
AwaitTypeOK ==
    \A s \in Slots : /\ pc[s] \in CapturePcs => IsCapture(call[s])
                     /\ pc[s] \in {"resolve", "resolved"} => call[s].period \in Periods

\* The type invariant: every variable stays in its type, and calls wait where
\* their kind allows.
TypeOK ==
    /\ now \in 0 .. MaxTime
    /\ effective \in [Callers -> [Periods -> [budget : Budgets, since : Int]]]
    /\ changes \in 0 .. MaxChanges
    /\ stored \in [Keys -> StateRows]
    /\ usageEvents \subseteq AuditRows
    /\ pc \in [Slots -> PcValues]
    /\ mem \in [Slots -> StateRows]
    /\ cache \in [Slots -> CacheEntries]
    /\ call \in [Slots -> Calls]
    /\ reply \in [Slots -> Replies]
    /\ sends \in [Requests -> Nat]
    /\ faults \in 0 .. MaxFaults
    /\ AwaitTypeOK

-----------------------------------------------------------------------------
(* Safety.  The captures are assumed well formed where a theorem says so. *)

NonNegativeTokens == \A r \in Requests : WellFormed(r)
\* Silos that serve one grain agree on the time.
ClocksInStep == \A s, t \in Slots : KeyOf[s] = KeyOf[t] => LagOf[s] = LagOf[t]
SingleActivation == \A s, t \in Slots : KeyOf[s] = KeyOf[t] => s = t

\* Two audit rows that went into the same spend, and the stretches of that spend
\* the two rows account for.
SameSpend(d, e) == d.key = e.key /\ d.accruedIn = e.accruedIn
Apart(d, e) == d.after <= e.after - e.cost \/ e.after <= d.after - d.cost

\* Each audit row accounts for a stretch of the spend of its own, from
\* after - cost to after, and every stretch lies within what is stored: nothing
\* in the audit table is charged twice, or not charged (accrue, write, append:
\* lines 137-163), under crashes, retries and a second activation that started
\* after the first write.
AuditSlices ==
    /\ \A d, e \in usageEvents : d # e /\ SameSpend(d, e) => Apart(d, e)
    /\ \A e \in usageEvents :
          /\ 0 <= e.cost /\ e.cost <= e.after
          /\ e.accruedIn <= stored[e.key].period
          /\ e.accruedIn = stored[e.key].period => e.after <= stored[e.key].spend

\* A write never takes back spend: the stored period never goes back, and within
\* a period the stored spend never decreases (WriteStateAsync of lines 140, 202).
\* UserBudgetGrainState.cs:6-9 keeps the spend "so that silo restarts do not lose
\* accrued spend"; that needs clocks in step, and one first writer.
SpendNeverDecreases ==
    [][\A k \in Keys :
          /\ stored[k].period <= stored'[k].period
          /\ stored[k].period = stored'[k].period => stored[k].spend <= stored'[k].spend]_stored

\* The step in which a budget check is answered.
Answers(s) == pc[s] = "decide" /\ pc'[s] = "idle" /\ reply'[s].kind = "check"

\* A budget check counts every capture that was audited before it answers, also
\* when activations crashed, were collected or lost an acknowledgement in
\* between (CheckBudgetAsync, lines 82-87).
ChecksCountEveryCapture ==
    [][\A s \in Slots : Answers(s) =>
          \A e \in usageEvents :
             e.key = KeyOf[s] /\ e.accruedIn = mem[s].period => e.after <= reply'[s].spend]_vars

\* SPEC 6.2.1: a check "returns allowed: false when remaining budget <= 0", where
\* every audited capture has been taken off the budget.  (With a budget of zero
\* and AllowNonBudgetedUsers the code allows: EffectiveBudget.HasBudget, line 22.)
ExhaustedBudgetIsDenied ==
    [][\A s \in Slots : Answers(s) /\ reply'[s].allowed /\ call[s].budget # NoBudget =>
          \A e \in usageEvents :
             e.key = KeyOf[s] /\ e.accruedIn = mem[s].period => e.after < call[s].budget]_vars

\* The budget a call decides with was in force less than BudgetCacheTtl before
\* the call asked for it, or later (GetEffectiveBudgetAsync, lines 210-223: the
\* entry is stamped with the time before the store was asked).  The two times
\* are compared on one clock, so LagOf is 0 wherever this is checked.
BudgetWithinTtl ==
    \A s \in Slots : pc[s] = "decide" =>
       LET inForce == effective[Caller(s)][cache[s].period]
       IN  call[s].budget # inForce.budget => call[s].askedAt - inForce.since < BudgetCacheTtl

\* A request that carries an id enters the spend of a period at most once, plus
\* once for every failure the system went through (idempotency, lines 108-115).
OneAccrualPerFault ==
    \A k \in Keys, r \in Requests :
       IdOf[r] # NoId => stored[k].tally[r] <= 1 + faults

-----------------------------------------------------------------------------
(* Why the slices stay apart: the inductive invariant behind AuditSlices.  The *)
(* version check orders the writes, so a write that is accepted extends the    *)
(* spend that was stored, and what it adds belongs to no earlier capture.      *)

\* m is an earlier state of a spend than n, or as late.
Behind(m, n) == m.period <= n.period /\ (m.period = n.period => m.spend <= n.spend)

\* The captures whose accrual is stored and whose row is still to come, and the
\* stretch of the spend that row will account for.
Charging(s) == IsCapture(call[s]) /\ pc[s] \in BudgetPcs \cup {"append", "insert"}
Claim(s) == [key |-> KeyOf[s], accruedIn |-> mem[s].period, after |-> mem[s].spend,
             cost |-> call[s].cost]

\* What one activation knows about its spend and the stored one: an activation
\* that would win the version check is not behind, its running accrual comes on
\* top of what is stored, and what it has stored is still there.
SlotOK(s) ==
    LET kept == stored[KeyOf[s]]
    IN  /\ kept.period <= CurrentPeriod(s) /\ mem[s].period <= CurrentPeriod(s)
        /\ 0 <= mem[s].spend /\ 0 <= call[s].cost
        /\ pc[s] # "down" => /\ mem[s].version <= kept.version
                             /\ mem[s].version = kept.version => Behind(kept, mem[s])
        /\ pc[s] = "accrue" =>
              /\ call[s].cost <= mem[s].spend
              /\ mem[s].version = kept.version /\ mem[s].period = kept.period =>
                    kept.spend <= mem[s].spend - call[s].cost
        /\ Charging(s) => call[s].cost <= mem[s].spend /\ Behind(mem[s], kept)

\* The stretches still to be recorded are apart from the recorded ones and from
\* each other.
ClaimsApart ==
    \A s \in Slots : Charging(s) =>
       /\ \A e \in usageEvents : SameSpend(Claim(s), e) => Apart(Claim(s), e)
       /\ \A t \in Slots \ {s} :
             Charging(t) /\ SameSpend(Claim(s), Claim(t)) => Apart(Claim(s), Claim(t))

\* Until a grain has its row, only a first writer runs, and it runs alone: no INSERT
\* is under way when another one makes the row, so that Persist is what the code does.
FirstWriteAlone ==
    \A s \in Slots : pc[s] # "down" /\ ~HasRow(KeyOf[s]) =>
       /\ s \in FirstWriters
       /\ \A t \in Slots \ {s} : KeyOf[t] = KeyOf[s] => pc[t] = "down"

\* Every activation, and every capture between its accrual and its row, fits the
\* stored spend and the audit table.
AuditFits ==
    /\ TypeOK
    /\ AuditSlices
    /\ \A k \in Keys : 0 <= stored[k].spend
    /\ \A s \in Slots : SlotOK(s)
    /\ ClaimsApart

\* The inductive invariant: a grain's first write is made alone, and from there on
\* memory, stored spend and audit table fit (lines 136-163 and 193-204).
AuditInvariant == FirstWriteAlone /\ AuditFits

-----------------------------------------------------------------------------
(* Liveness. *)

\* Every call ends, also when a write conflicts or a store fails.
EveryCallEnds ==
    \A s \in Slots : pc[s] \notin {"idle", "down"} ~> pc[s] \in {"idle", "down"}

\* Every capture the grain begins, of a known model and with well-formed counts,
\* is in the audit table in the end, provided nothing fails.
EveryCaptureIsAudited ==
    \A r \in {q \in Requests : WellFormed(q) /\ UnknownModel \notin QuotesOf[q]},
       n \in 1 .. MaxSends :
       (\E s \in Slots : call[s].req = r /\ call[s].attempt = n)
          ~> Recorded(EventId([req |-> r, attempt |-> n]))

-----------------------------------------------------------------------------
(* What the repository's documents say and the code does not do. *)

\* SPEC 6.2.2: "a duplicate capture with the same requestId must not
\* double-accrue".
DuplicateNeverDoubleAccrues ==
    \A k \in Keys, r \in Requests : IdOf[r] # NoId => stored[k].tally[r] <= 1
=============================================================================
