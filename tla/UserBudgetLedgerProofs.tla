------------------------ MODULE UserBudgetLedgerProofs -------------------------
(***************************************************************************)
(* What the audit table adds up to, for all values of the constants.       *)
(***************************************************************************)
EXTENDS UserBudgetCallProofs, UserBudgetLedger, FiniteSetTheorems

-----------------------------------------------------------------------------
(* Sums as sizes of sets. *)

\* The units of the spend that a row stands for, and those that many rows take.
Stretch(e) == (e.after - e.cost + 1) .. e.after
Taken(rows) == UNION {Stretch(e) : e \in rows}

\* The units counted for a sum.
Units(rows) == UNION {{e} \X (1 .. e.cost) : e \in rows}

LEMMA UnitsIn ==
    ASSUME NEW S, NEW u
    PROVE  u \in Units(S) <=> \E e \in S : \E i \in 1 .. e.cost : u = <<e, i>>
<1>1. u \in Units(S) <=> \E e \in S : u \in {e} \X (1 .. e.cost)
  BY DEF Units
<1>2. ASSUME NEW e \in S
      PROVE  u \in {e} \X (1 .. e.cost) <=> \E i \in 1 .. e.cost : u = <<e, i>>
  OBVIOUS
<1> QED  BY <1>1, <1>2

LEMMA TakenIn ==
    ASSUME NEW S, NEW u
    PROVE  u \in Taken(S) <=> \E e \in S : u \in Stretch(e)
BY DEF Taken

LEMMA SpendUnits ==
    ASSUME NEW n \in Nat
    PROVE  IsFiniteSet(1 .. n) /\ Cardinality(1 .. n) = n
BY FS_Interval

LEMMA CostIsSize == \A S : CostOf(S) = Cardinality(Units(S))
BY DEF CostOf, Units

\* Finitely many rows have finitely many units.
LEMMA UnitsFinite ==
    ASSUME NEW S, IsFiniteSet(S), \A e \in S : e.cost \in Nat
    PROVE  IsFiniteSet(Units(S))
<1> DEFINE Of(e) == {e} \X (1 .. e.cost)
           f == [e \in S |-> Of(e)]
           T == {Of(e) : e \in S}
<1>1. f \in Surjection(S, T)
  BY DEF Surjection
<1>2. IsFiniteSet(T)
  BY <1>1, FS_Surjection
<1>3. \A U \in T : IsFiniteSet(U)
  <2> SUFFICES ASSUME NEW e \in S
               PROVE  IsFiniteSet(Of(e))
    OBVIOUS
  <2>1. IsFiniteSet({e})
    BY FS_Singleton
  <2>2. IsFiniteSet(1 .. e.cost)
    <3>1. e.cost \in Int
      OBVIOUS
    <3> QED  BY <3>1, FS_Interval
  <2> QED  BY <2>1, <2>2, FS_Product
<1> QED  BY <1>2, <1>3, FS_UNION DEF Units

\* CostOf is a sum: nothing costs nothing, and a row more costs what it costs.
LEMMA CostAddsUp ==
    /\ CostOf({}) = 0
    /\ \A S, x : IsFiniteSet(S) /\ (\A e \in S \cup {x} : e.cost \in Nat) /\ x \notin S
                    => CostOf(S \cup {x}) = CostOf(S) + x.cost
<1>1. CostOf({}) = 0
  <2>1. UNION {{e} \X (1 .. e.cost) : e \in {}} = {}
    OBVIOUS
  <2> QED  BY <2>1, FS_EmptySet DEF CostOf
<1>2. ASSUME NEW S, NEW x, IsFiniteSet(S), \A e \in S \cup {x} : e.cost \in Nat, x \notin S
      PROVE  CostOf(S \cup {x}) = CostOf(S) + x.cost
  <2> DEFINE X == {x} \X (1 .. x.cost)
  <2>1. IsFiniteSet(Units(S))
    BY <1>2, UnitsFinite
  <2>2. IsFiniteSet(X) /\ Cardinality(X) = x.cost
    <3>1. x.cost \in Nat
      BY <1>2
    <3>2. IsFiniteSet({x}) /\ Cardinality({x}) = 1
      BY FS_Singleton
    <3>3. IsFiniteSet(1 .. x.cost) /\ Cardinality(1 .. x.cost) = x.cost
      BY <3>1, FS_Interval
    <3>4. IsFiniteSet(X) /\ Cardinality(X) = 1 * x.cost
      BY <3>2, <3>3, FS_Product
    <3> QED  BY <3>1, <3>4
  <2>3. Units(S \cup {x}) = Units(S) \cup X
    BY DEF Units
  <2>4. Units(S) \cap X = {}
    BY <1>2, UnitsIn
  <2>5. Cardinality(Units(S) \cup X) = Cardinality(Units(S)) + Cardinality(X) - Cardinality({})
    BY <2>1, <2>2, <2>4, FS_Union
  <2>6. Cardinality({}) = 0 /\ Cardinality(Units(S)) \in Nat
    BY <2>1, FS_EmptySet, FS_CardinalityType
  <2>7. x.cost \in Nat
    BY <1>2
  <2>8. CostOf(S \cup {x}) = Cardinality(Units(S \cup {x})) /\ CostOf(S) = Cardinality(Units(S))
    BY CostIsSize
  <2>9. Cardinality(Units(S \cup {x})) = Cardinality(Units(S)) + Cardinality(X) - Cardinality({})
    BY <2>3, <2>5
  <2> HIDE DEF X
  <2> QED  BY <2>2, <2>6, <2>7, <2>8, <2>9
<1> QED  BY <1>1, <1>2

\* What rows cost that are apart from each other is the number of units they take.
LEMMA CostIsTaken ==
    ASSUME NEW S, NEW n \in Nat,
           \A x \in S : /\ x.cost \in Nat /\ x.after \in Nat
                        /\ x.cost <= x.after /\ x.after <= n,
           \A x, y \in S : x # y => Apart(x, y)
    PROVE  /\ Taken(S) \subseteq 1 .. n
           /\ IsFiniteSet(Taken(S))
           /\ CostOf(S) = Cardinality(Taken(S))
<1> DEFINE At(x, i) == x.after - x.cost + i
           f == [u \in Units(S) |-> At(u[1], u[2])]
<1>1. ASSUME NEW x \in S
      PROVE  Stretch(x) \subseteq 1 .. n
  BY DEF Stretch
<1>2. Taken(S) \subseteq 1 .. n
  BY <1>1, TakenIn
<1>3. IsFiniteSet(Taken(S))
  <2>1. IsFiniteSet(1 .. n)
    BY FS_Interval
  <2> QED  BY <1>2, <2>1, FS_Subset
<1>4. ASSUME NEW x \in S, NEW i \in 1 .. x.cost
      PROVE  /\ <<x, i>> \in Units(S) /\ f[<<x, i>>] = At(x, i)
             /\ At(x, i) \in Stretch(x) /\ At(x, i) \in Taken(S)
  <2>1. <<x, i>> \in Units(S)
    BY UnitsIn
  <2>2. At(x, i) \in Stretch(x)
    BY DEF Stretch
  <2> QED  BY <2>1, <2>2, TakenIn
<1>5. f \in [Units(S) -> Taken(S)]
  <2> SUFFICES ASSUME NEW u \in Units(S)
               PROVE  At(u[1], u[2]) \in Taken(S)
    OBVIOUS
  <2>1. PICK x \in S : \E i \in 1 .. x.cost : u = <<x, i>>
    BY UnitsIn
  <2>2. PICK i \in 1 .. x.cost : u = <<x, i>>
    BY <2>1
  <2>3. u[1] = x /\ u[2] = i
    BY <2>2
  <2> QED  BY <1>4, <2>3
<1>6. ASSUME NEW u \in Units(S), NEW v \in Units(S), f[u] = f[v]
      PROVE  u = v
  <2>1. PICK x \in S : \E i \in 1 .. x.cost : u = <<x, i>>
    BY UnitsIn
  <2>2. PICK y \in S : \E j \in 1 .. y.cost : v = <<y, j>>
    BY UnitsIn
  <2>3. PICK i \in 1 .. x.cost : u = <<x, i>>
    BY <2>1
  <2>4. PICK j \in 1 .. y.cost : v = <<y, j>>
    BY <2>2
  <2>5. At(x, i) = At(y, j)
    BY <1>4, <1>6, <2>3, <2>4
  <2>6. x = y
    <3> SUFFICES ASSUME x # y
                 PROVE  FALSE
      OBVIOUS
    <3>1. Apart(x, y)
      OBVIOUS
    <3> QED  BY <2>5, <3>1 DEF Apart
  <2>7. i = j
    BY <2>5, <2>6
  <2> QED  BY <2>3, <2>4, <2>6, <2>7
<1>7. ASSUME NEW t \in Taken(S)
      PROVE  \E u \in Units(S) : f[u] = t
  <2>1. PICK x \in S : t \in Stretch(x)
    BY TakenIn
  <2>2. t - (x.after - x.cost) \in 1 .. x.cost
    BY <2>1 DEF Stretch
  <2>3. At(x, t - (x.after - x.cost)) = t
    BY <2>1 DEF Stretch
  <2> QED  BY <1>4, <2>2, <2>3
<1> HIDE DEF f
<1>8. f \in Injection(Units(S), Taken(S)) /\ f \in Surjection(Units(S), Taken(S))
  BY <1>5, <1>6, <1>7 DEF Injection, IsInjective, Surjection
<1>9. Cardinality(Units(S)) = Cardinality(Taken(S))
  BY <1>3, <1>8, FS_Injection
<1> QED  BY <1>2, <1>3, <1>9, CostIsSize

-----------------------------------------------------------------------------
(* The rows against the spend. *)

\* The rows of one spend take units of their own, all of them within the spend.
LEMMA AuditedFit ==
    ASSUME AuditInvariant, NEW k \in Keys
    PROVE  /\ stored[k].spend \in Nat
           /\ \A e \in Audited(k) : /\ e.cost \in Nat /\ e.after \in Nat
                                    /\ e.cost <= e.after /\ e.after <= stored[k].spend
           /\ \A d, e \in Audited(k) : d # e => Apart(d, e)
<1>1. TypeOK /\ AuditSlices /\ stored[k].spend >= 0
  BY DEF AuditInvariant, AuditFits
<1>2. stored[k].spend \in Nat
  BY <1>1 DEF TypeOK, StateRows
<1>3. ASSUME NEW e \in Audited(k)
      PROVE  /\ e.cost \in Nat /\ e.after \in Nat
             /\ e.cost <= e.after /\ e.after <= stored[k].spend
  <2>1. e \in usageEvents /\ e.key = k /\ e.accruedIn = stored[k].period
    BY DEF Audited
  <2>2. e.cost \in Int /\ e.after \in Int
    BY <1>1, <2>1, RowTypes
  <2> QED  BY <1>1, <2>1, <2>2 DEF AuditSlices
<1>4. \A d, e \in Audited(k) : d # e => Apart(d, e)
  BY <1>1 DEF Audited, AuditSlices, SameSpend
<1> QED  BY <1>2, <1>3, <1>4

\* The audit table never holds more cost of a period than was charged in it: a capture
\* is charged before its row is written (lines 136-163), whatever fails in between and
\* whichever activation writes after the first write, which one activation makes.
THEOREM AuditIsWithinSpend ==
    ASSUME NonNegativeTokens, ClocksInStep, OneFirstWriter
    PROVE  Spec => []AuditNeverExceedsSpend
<1>1. ASSUME AuditInvariant
      PROVE  AuditNeverExceedsSpend
  <2> SUFFICES ASSUME NEW k \in Keys
               PROVE  CostOf(Audited(k)) <= stored[k].spend
    BY DEF AuditNeverExceedsSpend
  <2>1. /\ Taken(Audited(k)) \subseteq 1 .. stored[k].spend
        /\ CostOf(Audited(k)) = Cardinality(Taken(Audited(k)))
    BY <1>1, AuditedFit, CostIsTaken
  <2>2. /\ IsFiniteSet(1 .. stored[k].spend)
        /\ Cardinality(1 .. stored[k].spend) = stored[k].spend
    BY <1>1, AuditedFit, SpendUnits
  <2> QED  BY <2>1, <2>2, FS_Subset
<1> QED  BY <1>1, AuditInvariantHolds, PTL

-----------------------------------------------------------------------------
(* Every unit of the spend is accounted for, where nothing fails. *)

\* A request id is used for one grain.  Ids are global in usage_events, and a grain
\* takes another one's row for its own (lines 108-115).
IdsOfOneGrain == \A q, r \in WithId : IdOf[q] = IdOf[r] => TargetOf[q] = TargetOf[r]

\* The capture of s has a cost in memory or will have one: its id has been looked for.
PastCheck(s) ==
    /\ IsCapture(call[s])
    /\ \/ pc[s] \in {"price", "accrue", "append", "insert"} \cup BudgetPcs
       \/ pc[s] = "rollover" /\ IdOf[call[s].req] = NoId

\* A capture was sent to its grain, and no row has its id yet.
CaptureOK(s) ==
    /\ IsCapture(call[s]) => /\ TargetOf[call[s].req] = KeyOf[s]
                             /\ call[s].attempt \in 1 .. sends[call[s].req]
    /\ PastCheck(s) => ~Recorded(EventId(call[s]))

\* A guid is made when its capture begins.
GuidsAreFresh == \A r \in Requests, n \in Nat : n > sends[r] => ~Recorded(<<r, n>>)

\* Memory is what is stored, but for the reset and the cost that are being written.
InStepWithStore(s) ==
    LET kept == stored[KeyOf[s]]
    IN  /\ pc[s] # "down" => mem[s].version = kept.version
        /\ pc[s] \notin {"down", "rollover"} => mem[s].period = kept.period
        /\ pc[s] = "rollover" => mem[s].spend = 0
        /\ pc[s] = "accrue" => mem[s].spend = kept.spend + call[s].cost
        /\ pc[s] \notin {"down", "rollover", "accrue"} => mem[s].spend = kept.spend

\* No unit of the spend of k is without a row, or a capture that is to write one.
Covered(k) == 1 .. stored[k].spend \subseteq Taken(Audited(k)) \cup Taken(ToAudit(k))

\* The inductive invariant behind AuditAccountsForSpend.
AccountInvariant ==
    /\ AuditInvariant
    /\ faults = 0
    /\ GuidsAreFresh
    /\ \A s \in Slots : CaptureOK(s) /\ InStepWithStore(s)
    /\ \A k \in Keys : Covered(k)

\* The accounts are in order, and complete as long as nothing has failed.
AccountSoFar == AuditInvariant /\ (faults = 0 => AccountInvariant)

LEMMA AccountTypes ==
    ASSUME AccountInvariant, NEW s \in Slots
    PROVE  /\ TypeOK /\ KeyOf[s] \in Keys /\ faults \in Nat
           /\ mem[s] \in StateRows /\ stored[KeyOf[s]] \in StateRows
           /\ call[s] \in Calls /\ pc[s] \in PcValues
           /\ mem \in [Slots -> StateRows] /\ stored \in [Keys -> StateRows]
           /\ call \in [Slots -> Calls] /\ pc \in [Slots -> PcValues]
           /\ sends \in [Requests -> Nat]
           /\ CaptureOK(s) /\ InStepWithStore(s)
           /\ IsCapture(call[s]) <=> call[s].req \in Requests
BY FieldTypes, RequestsAssumption DEF AccountInvariant, AuditInvariant, AuditFits, TypeOK, IsCapture, Calls

\* Where no failure is counted, none happens.
LEMMA NothingFails ==
    ASSUME AccountInvariant, faults' = 0, NEW s \in Slots
    PROVE  ~Fault(s)
BY DEF AccountInvariant, Fault, Crash, CallFails, WriteUnacknowledged, AppendUnacknowledged

\* The ids in the audit table after a step of s.
LEMMA RecordedBy ==
    ASSUME NEW s \in Slots, SlotStep(s)
    PROVE  \A e \in usageEvents' :
              Recorded(e.eventId) \/ (pc[s] = "insert" /\ e.eventId = EventId(call[s]))
<1>1. usageEvents' = usageEvents \/ InsertEvent(s)
  BY DEF SlotStep, Activate, Deactivate, CheckBudget, CaptureUsage, BeginCall,
         Fault, Crash, CallFails, WriteUnacknowledged, AppendUnacknowledged,
         Step, WriteSucceeds, WriteConflicts, AnswerDuplicate, NotADuplicate,
         RejectUnknownModel, Accrue, CachedBudget, AskBudget, ResolveBudget,
         LoadBudget, AnswerCheck, RejectEvent, CreateEvent, SkipAppend,
         BeginInsert, AppendEvent, InsertRefused
<1>2. CASE usageEvents' = usageEvents
  BY <1>2 DEF Recorded
<1>3. CASE InsertEvent(s)
  <2>1. UsageEvent(s).eventId = EventId(call[s])
    BY DEF UsageEvent
  <2> QED  BY <1>3, <2>1 DEF InsertEvent, Recorded
<1> QED  BY <1>1, <1>2, <1>3

\* A request is never unsent.
LEMMA SendsGrow ==
    ASSUME TypeOK, NEW s \in Slots, SlotStep(s), NEW r \in Requests
    PROVE  sends[r] \in Nat /\ sends'[r] \in Nat /\ sends[r] <= sends'[r]
<1>1. sends \in [Requests -> Nat]
  BY DEF TypeOK
<1>2. CASE \E q \in Requests : CaptureUsage(s, q)
  BY <1>1, <1>2 DEF CaptureUsage
<1>3. CASE ~\E q \in Requests : CaptureUsage(s, q)
  <2>1. sends' = sends
    BY <1>3 DEF SlotStep, Activate, Deactivate, CheckBudget,
         Fault, Crash, CallFails, WriteUnacknowledged, AppendUnacknowledged,
         Step, WriteSucceeds, WriteConflicts, AnswerDuplicate, NotADuplicate,
         RejectUnknownModel, Accrue, CachedBudget, AskBudget, ResolveBudget,
         LoadBudget, AnswerCheck, RejectEvent, CreateEvent, SkipAppend,
         BeginInsert, AppendEvent, InsertRefused
  <2> QED  BY <1>1, <2>1
<1> QED  BY <1>2, <1>3

\* What a grain captures has ids of its own.
LEMMA OwnIds ==
    ASSUME AccountInvariant, IdsOfOneGrain, NEW s \in Slots, NEW t \in Slots,
           KeyOf[s] # KeyOf[t], IsCapture(call[s]), IsCapture(call[t])
    PROVE  EventId(call[s]) # EventId(call[t])
<1>1. /\ call[s].req \in Requests /\ TargetOf[call[s].req] = KeyOf[s]
      /\ call[t].req \in Requests /\ TargetOf[call[t].req] = KeyOf[t]
      /\ call[s].attempt # 0 /\ call[t].attempt # 0
  BY AccountTypes DEF CaptureOK
<1>2. call[s].req # call[t].req
  BY <1>1
<1>3. CASE IdOf[call[s].req] = NoId \/ IdOf[call[t].req] = NoId
  BY <1>1, <1>2, <1>3 DEF EventId
<1>4. CASE IdOf[call[s].req] # NoId /\ IdOf[call[t].req] # NoId
  <2>1. IdOf[call[s].req] # IdOf[call[t].req]
    BY <1>1, <1>4 DEF IdsOfOneGrain, WithId
  <2> QED  BY <1>4, <2>1 DEF EventId
<1> QED  BY <1>3, <1>4

LEMMA GuidsStayFresh ==
    ASSUME AccountInvariant, NEW s \in Slots, SlotStep(s)
    PROVE  GuidsAreFresh'
<1> SUFFICES ASSUME NEW r \in Requests, NEW n \in Nat, n > sends'[r], Recorded(<<r, n>>)'
             PROVE  FALSE
  BY DEF GuidsAreFresh, Recorded
<1>1. sends[r] \in Nat /\ sends'[r] \in Nat /\ n > sends[r]
  BY AccountTypes, SendsGrow
<1>2. ~Recorded(<<r, n>>)
  BY <1>1 DEF AccountInvariant, GuidsAreFresh
<1>3. pc[s] = "insert" /\ <<r, n>> = EventId(call[s])
  BY <1>2, RecordedBy DEF Recorded
<1>4. IsCapture(call[s])
  BY <1>3, AccountTypes DEF TypeOK, AwaitTypeOK, CapturePcs
<1>5. call[s].attempt \in 1 .. sends[call[s].req]
  BY <1>4, AccountTypes DEF CaptureOK
<1>6. CASE IdOf[call[s].req] = NoId
  BY <1>1, <1>3, <1>5, <1>6 DEF EventId
<1>7. CASE IdOf[call[s].req] # NoId
  BY <1>1, <1>3, <1>7 DEF EventId
<1> QED  BY <1>6, <1>7

\* The other activations are as they were.
LEMMA AccountElsewhere ==
    ASSUME AccountInvariant, SingleActivation, IdsOfOneGrain,
           NEW s \in Slots, NEW t \in Slots \ {s}, SlotStep(s)
    PROVE  CaptureOK(t)' /\ InStepWithStore(t)'
<1>1. /\ TypeOK /\ KeyOf[s] # KeyOf[t] /\ KeyOf[t] \in Keys
      /\ CaptureOK(t) /\ InStepWithStore(t)
  BY AccountTypes DEF SingleActivation
<1>2. /\ pc'[t] = pc[t] /\ call'[t] = call[t] /\ mem'[t] = mem[t]
      /\ stored'[KeyOf[t]] = stored[KeyOf[t]]
  BY <1>1, BudgetElsewhere, RetryElsewhere
<1>3. InStepWithStore(t)'
  BY <1>1, <1>2 DEF InStepWithStore
<1>4. ASSUME IsCapture(call[t])
      PROVE  /\ TargetOf[call[t].req] = KeyOf[t]
             /\ call[t].attempt \in 1 .. sends'[call[t].req]
  <2>1. call[t].req \in Requests
    BY <1>4, AccountTypes
  <2>2. /\ sends[call[t].req] \in Nat /\ sends'[call[t].req] \in Nat
        /\ sends[call[t].req] <= sends'[call[t].req]
    BY <1>1, <2>1, SendsGrow
  <2> QED  BY <1>1, <1>4, <2>2 DEF CaptureOK
<1>5. ASSUME PastCheck(t), NEW e \in usageEvents', e.eventId = EventId(call[t])
      PROVE  FALSE
  <2>1. ~Recorded(EventId(call[t])) /\ IsCapture(call[t])
    BY <1>1, <1>5 DEF CaptureOK, PastCheck
  <2>2. pc[s] = "insert" /\ EventId(call[t]) = EventId(call[s])
    BY <1>5, <2>1, RecordedBy DEF Recorded
  <2>3. IsCapture(call[s])
    BY <1>1, <2>2 DEF TypeOK, AwaitTypeOK, CapturePcs
  <2> QED  BY <1>1, <2>1, <2>2, <2>3, OwnIds
<1>6. PastCheck(t)' = PastCheck(t) /\ EventId(call[t])' = EventId(call[t])
  BY <1>2 DEF PastCheck, EventId, IsCapture
<1>7. Recorded(EventId(call[t]))' <=> \E e \in usageEvents' : e.eventId = EventId(call[t])
  BY <1>6 DEF Recorded
<1> QED  BY <1>2, <1>3, <1>4, <1>5, <1>6, <1>7 DEF CaptureOK, IsCapture

\* A capture that goes on in the same memory and store stays in order.
LEMMA AccountMoves ==
    ASSUME AccountInvariant, NEW s \in Slots, UNCHANGED <<usageEvents, sends>>,
           mem'[s] = mem[s], stored'[KeyOf[s]] = stored[KeyOf[s]],
           call'[s].req = call[s].req, call'[s].attempt = call[s].attempt,
           {pc[s], pc'[s]} \subseteq BudgetPcs \cup {"append", "insert"}
    PROVE  CaptureOK(s)' /\ InStepWithStore(s)'
<1>1. CaptureOK(s) /\ InStepWithStore(s)
  BY AccountTypes
<1>2. {pc[s], pc'[s]} \cap {"down", "rollover", "accrue"} = {}
  BY DEF BudgetPcs
<1>3. InStepWithStore(s)'
  BY <1>1, <1>2 DEF InStepWithStore
<1>4. EventId(call[s])' = EventId(call[s]) /\ (IsCapture(call[s])' <=> IsCapture(call[s]))
  BY DEF EventId, IsCapture
<1>5. (Recorded(EventId(call[s])))' <=> Recorded(EventId(call[s]))
  BY <1>4 DEF Recorded
<1> QED  BY <1>1, <1>3, <1>4, <1>5 DEF CaptureOK, PastCheck

\* So does an activation that has no call any more.
LEMMA AccountReturns ==
    ASSUME AccountInvariant, NEW s \in Slots,
           mem'[s] = mem[s], stored'[KeyOf[s]] = stored[KeyOf[s]],
           pc[s] \notin {"down", "rollover", "accrue"}, pc'[s] = "idle", call'[s] = NoCall
    PROVE  CaptureOK(s)' /\ InStepWithStore(s)'
<1>1. InStepWithStore(s)
  BY AccountTypes
<1>2. ~IsCapture(call[s])'
  BY DEF NoCall, Call, IsCapture
<1> QED  BY <1>1, <1>2 DEF CaptureOK, PastCheck, InStepWithStore, IsCapture

LEMMA AccountComesAndGoes ==
    ASSUME AccountInvariant, NEW s \in Slots, Activate(s) \/ Deactivate(s)
    PROVE  CaptureOK(s)' /\ InStepWithStore(s)'
<1> USE DEF outside
<1>1. /\ pc \in [Slots -> PcValues] /\ mem \in [Slots -> StateRows]
      /\ call \in [Slots -> Calls] /\ CaptureOK(s)
  BY AccountTypes
<1>2. CASE Activate(s)
  <2>1. /\ pc'[s] = "idle" /\ mem'[s] = stored[KeyOf[s]]
        /\ UNCHANGED <<stored, usageEvents, call, sends>>
    BY <1>1, <1>2 DEF Activate
  <2>2. ~PastCheck(s)'
    BY <2>1 DEF PastCheck, BudgetPcs
  <2> QED  BY <1>1, <2>1, <2>2 DEF CaptureOK, InStepWithStore, IsCapture
<1>3. CASE Deactivate(s)
  <2>1. pc'[s] = "down" /\ call'[s] = NoCall
    BY <1>1, <1>3 DEF Deactivate, Discard
  <2>2. ~IsCapture(call[s])'
    BY <2>1 DEF NoCall, Call, IsCapture
  <2> QED  BY <2>1, <2>2 DEF CaptureOK, PastCheck, InStepWithStore, IsCapture
<1> QED  BY <1>2, <1>3

LEMMA AccountCallBegins ==
    ASSUME AccountInvariant, NEW s \in Slots,
           CheckBudget(s) \/ \E r \in Requests : CaptureUsage(s, r)
    PROVE  CaptureOK(s)' /\ InStepWithStore(s)'
<1> USE DEF outside
<1>1. /\ pc \in [Slots -> PcValues] /\ mem \in [Slots -> StateRows] /\ mem[s] \in StateRows
      /\ call \in [Slots -> Calls] /\ InStepWithStore(s) /\ sends \in [Requests -> Nat]
  BY AccountTypes
<1>2. PICK c : /\ BeginCall(s, c)
               /\ \/ c = NoCall
                  \/ \E r \in Requests : CaptureUsage(s, r) /\ c = Call(r, sends[r] + 1)
  BY DEF CheckBudget, CaptureUsage
<1>3. /\ pc[s] = "idle" /\ call'[s] = c /\ UNCHANGED <<stored, usageEvents>>
      /\ PeriodIsCurrent(s, c) \/ RollOver(s)
  BY <1>1, <1>2 DEF BeginCall
<1>4. /\ PeriodIsCurrent(s, c) => mem'[s] = mem[s] /\ pc'[s] = AfterPeriod(c)
      /\ RollOver(s) => mem'[s] = Reset(mem[s], CurrentPeriod(s)) /\ pc'[s] = "rollover"
  BY <1>1 DEF PeriodIsCurrent, RollOver
<1>5. AfterPeriod(c) \notin {"down", "rollover", "accrue"}
  BY DEF AfterPeriod
<1>6. InStepWithStore(s)'
  BY <1>1, <1>3, <1>4, <1>5 DEF InStepWithStore, Reset
<1>7. CASE c = NoCall
  <2>1. ~IsCapture(call[s])'
    BY <1>3, <1>7 DEF NoCall, Call, IsCapture
  <2> QED  BY <1>6, <2>1 DEF CaptureOK, PastCheck, IsCapture
<1>8. ASSUME NEW r \in Requests, CaptureUsage(s, r), c = Call(r, sends[r] + 1)
      PROVE  CaptureOK(s)'
  <2>1. /\ c.req = r /\ c.attempt = sends[r] + 1 /\ TargetOf[r] = KeyOf[s]
        /\ sends'[r] = sends[r] + 1
    BY <1>1, <1>8 DEF Call, CaptureUsage
  <2>2. ~Recorded(<<r, sends[r] + 1>>)
    BY <1>1 DEF AccountInvariant, GuidsAreFresh
  <2>3. PastCheck(s)' => IdOf[r] = NoId
    BY <1>3, <1>4, <2>1 DEF PastCheck, AfterPeriod, IsCapture, BudgetPcs
  <2>4. IdOf[r] = NoId => EventId(call'[s]) = <<r, sends[r] + 1>>
    BY <1>3, <2>1 DEF EventId
  <2>5. PastCheck(s)' => ~Recorded(EventId(call[s]))'
    BY <1>3, <2>2, <2>3, <2>4 DEF Recorded, EventId
  <2> QED  BY <1>1, <1>3, <2>1, <2>5 DEF CaptureOK
<1> QED  BY <1>2, <1>6, <1>7, <1>8

LEMMA AccountWrites ==
    ASSUME AccountInvariant, NEW s \in Slots, WriteSucceeds(s)
    PROVE  CaptureOK(s)' /\ InStepWithStore(s)'
<1> USE DEF outside
<1>1. /\ pc \in [Slots -> PcValues] /\ mem \in [Slots -> StateRows] /\ mem[s] \in StateRows
      /\ stored \in [Keys -> StateRows] /\ KeyOf[s] \in Keys /\ CaptureOK(s)
  BY AccountTypes
<1>2. /\ mem'[s] = Written(mem[s]) /\ stored'[KeyOf[s]] = Written(mem[s])
      /\ UNCHANGED <<usageEvents, call, sends>>
      /\ pc[s] \in {"rollover", "accrue"}
      /\ pc'[s] = IF pc[s] = "rollover" THEN AfterPeriod(call[s]) ELSE "budget"
  BY <1>1 DEF WriteSucceeds, Persist, Writing
<1>3. pc'[s] \notin {"down", "rollover", "accrue"}
  BY <1>2 DEF AfterPeriod
<1>4. PastCheck(s)' => PastCheck(s)
  BY <1>2 DEF PastCheck, AfterPeriod, IsCapture, BudgetPcs
<1> QED  BY <1>1, <1>2, <1>3, <1>4 DEF CaptureOK, InStepWithStore, Recorded, EventId, IsCapture

LEMMA AccountAccrues ==
    ASSUME AccountInvariant, NEW s \in Slots, NotADuplicate(s) \/ Accrue(s)
    PROVE  CaptureOK(s)' /\ InStepWithStore(s)'
<1> USE DEF outside
<1>1. /\ pc \in [Slots -> PcValues] /\ mem \in [Slots -> StateRows] /\ mem[s] \in StateRows
      /\ call \in [Slots -> Calls] /\ call[s] \in Calls
      /\ CaptureOK(s) /\ InStepWithStore(s) /\ TypeOK
  BY AccountTypes
<1>2. CASE NotADuplicate(s)
  <2>1. /\ pc[s] = "dedupe" /\ pc'[s] = "price" /\ ~Recorded(EventId(call[s]))
        /\ UNCHANGED <<stored, usageEvents, mem, call, sends>>
    BY <1>1, <1>2 DEF NotADuplicate
  <2> QED  BY <1>1, <2>1 DEF CaptureOK, InStepWithStore, Recorded, EventId, IsCapture
<1>3. CASE Accrue(s)
  <2>1. /\ pc[s] = "price" /\ pc'[s] = "accrue" /\ IsCapture(call[s])
        /\ UNCHANGED <<stored, usageEvents, sends>>
    BY <1>1, <1>3 DEF Accrue, TypeOK, AwaitTypeOK, CapturePcs
  <2>2. PICK cost : /\ call' = [call EXCEPT ![s].cost = cost]
                    /\ mem'[s] = Charge(mem[s], call[s].req, cost)
    BY <1>1, <1>3 DEF Accrue
  <2>3. /\ call'[s].req = call[s].req /\ call'[s].attempt = call[s].attempt
        /\ call'[s].cost = cost
    BY <1>1, <2>2 DEF Calls
  <2>4. InStepWithStore(s)'
    BY <1>1, <2>1, <2>2, <2>3 DEF InStepWithStore, Charge
  <2>5. EventId(call[s])' = EventId(call[s]) /\ IsCapture(call[s])' = IsCapture(call[s])
    BY <2>3 DEF EventId, IsCapture
  <2>6. ~Recorded(EventId(call[s]))
    BY <1>1, <2>1 DEF CaptureOK, PastCheck
  <2>7. ~(Recorded(EventId(call[s])))'
    BY <2>1, <2>5, <2>6 DEF Recorded
  <2> QED  BY <1>1, <2>1, <2>3, <2>4, <2>5, <2>7 DEF CaptureOK
<1> QED  BY <1>2, <1>3

LEMMA AccountOwn ==
    ASSUME AccountInvariant, faults' = 0, NonNegativeTokens, NEW s \in Slots, SlotStep(s)
    PROVE  /\ CaptureOK(s)' /\ InStepWithStore(s)'
           /\ ~WriteConflicts(s) /\ ~RejectEvent(s) /\ ~SkipAppend(s) /\ ~InsertRefused(s)
<1> USE DEF outside
<1>1. /\ pc \in [Slots -> PcValues] /\ call \in [Slots -> Calls] /\ call[s] \in Calls
      /\ CaptureOK(s) /\ InStepWithStore(s) /\ TypeOK
      /\ IsCapture(call[s]) <=> call[s].req \in Requests
  BY AccountTypes
<1>2. ~WriteConflicts(s)
  BY <1>1 DEF WriteConflicts, Writing, InStepWithStore
<1>3. ~RejectEvent(s)
  BY <1>1 DEF RejectEvent, NonNegativeTokens
<1>4. ~SkipAppend(s) /\ ~InsertRefused(s)
  BY <1>1 DEF SkipAppend, InsertRefused, CaptureOK, PastCheck, TypeOK, AwaitTypeOK, CapturePcs
<1>5. CASE AnswerDuplicate(s) \/ RejectUnknownModel(s) \/ AnswerCheck(s) \/ AppendEvent(s)
  <2>1. /\ pc[s] \notin {"down", "rollover", "accrue"} /\ pc'[s] = "idle" /\ call'[s] = NoCall
        /\ UNCHANGED <<stored, mem>>
    BY <1>1, <1>5 DEF AnswerDuplicate, RejectUnknownModel, AnswerCheck, AppendEvent, InsertEvent,
                      Captured, Return
  <2>2. CaptureOK(s)' /\ InStepWithStore(s)'
    BY <2>1, AccountReturns
  <2> QED  BY <1>2, <1>3, <1>4, <2>2
<1>6. CASE CachedBudget(s) \/ AskBudget(s) \/ ResolveBudget(s) \/ LoadBudget(s)
           \/ CreateEvent(s) \/ BeginInsert(s)
  <2>1. /\ {pc[s], pc'[s]} \subseteq BudgetPcs \cup {"append", "insert"}
        /\ call'[s].req = call[s].req /\ call'[s].attempt = call[s].attempt
        /\ UNCHANGED <<stored, usageEvents, mem, sends>>
    BY <1>1, <1>6 DEF CachedBudget, AskBudget, ResolveBudget, LoadBudget, CreateEvent,
                      BeginInsert, BudgetPcs, Calls
  <2>2. CaptureOK(s)' /\ InStepWithStore(s)'
    BY <2>1, AccountMoves
  <2> QED  BY <1>2, <1>3, <1>4, <2>2
<1> QED  BY <1>2, <1>3, <1>4, <1>5, <1>6, NothingFails, AccountComesAndGoes, AccountCallBegins,
            AccountWrites, AccountAccrues DEF SlotStep, Step

\* Rows stay, and a capture that was to write one is still to, or has.
LEMMA CoveredKept ==
    ASSUME NEW k \in Keys, Covered(k),
           stored'[k].period = stored[k].period, stored'[k].spend = stored[k].spend,
           usageEvents \subseteq usageEvents',
           \A t \in Unaudited(k) :
              \/ /\ t \in Unaudited(k)'
                 /\ mem'[t].spend = mem[t].spend /\ call'[t].cost = call[t].cost
              \/ \E e \in Audited(k)' : e.after = mem[t].spend /\ e.cost = call[t].cost
    PROVE  Covered(k)'
<1> SUFFICES ASSUME NEW u \in 1 .. stored[k].spend
             PROVE  \/ \E e \in Audited(k)' : u \in Stretch(e)
                    \/ \E x \in ToAudit(k)' : u \in Stretch(x)
  BY DEF Covered, Taken, Stretch
<1>1. CASE u \in Taken(Audited(k))
  <2>1. PICK e \in Audited(k) : u \in Stretch(e)
    BY <1>1, TakenIn
  <2>2. e \in Audited(k)'
    BY <2>1 DEF Audited
  <2> QED  BY <2>1, <2>2
<1>2. CASE u \in Taken(ToAudit(k))
  <2>1. PICK x \in ToAudit(k) : u \in Stretch(x)
    BY <1>2, TakenIn
  <2>2. PICK t \in Unaudited(k) : x = [slot |-> t, after |-> mem[t].spend, cost |-> call[t].cost]
    BY <2>1 DEF ToAudit
  <2>3. x.after = mem[t].spend /\ x.cost = call[t].cost
    BY <2>2
  <2>4. CASE \E e \in Audited(k)' : e.after = mem[t].spend /\ e.cost = call[t].cost
    BY <2>1, <2>3, <2>4 DEF Stretch
  <2>5. CASE /\ t \in Unaudited(k)'
             /\ mem'[t].spend = mem[t].spend /\ call'[t].cost = call[t].cost
    <3>1. x \in ToAudit(k)'
      BY <2>2, <2>5 DEF ToAudit
    <3> QED  BY <2>1, <3>1
  <2> QED  BY <2>4, <2>5
<1> QED  BY <1>1, <1>2 DEF Covered

\* What is uncovered is elsewhere, or the capture of the grain's one activation.
LEMMA UnauditedIs ==
    ASSUME SingleActivation, NEW s \in Slots, NEW k, NEW t \in Unaudited(k)
    PROVE  t = s \/ (t \in Slots \ {s} /\ k = KeyOf[t] /\ k # KeyOf[s])
BY DEF Unaudited, SingleActivation

\* A step of s leaves the spend of other grains covered.
LEMMA CoveredElsewhere ==
    ASSUME AccountInvariant, SingleActivation, NEW s \in Slots, SlotStep(s),
           NEW k \in Keys \ {KeyOf[s]}
    PROVE  Covered(k)'
<1>1. TypeOK /\ Covered(k)
  BY AccountTypes DEF AccountInvariant
<1>2. /\ \A t \in Slots \ {s} : mem'[t] = mem[t]
      /\ stored'[k] = stored[k] /\ usageEvents \subseteq usageEvents'
  BY <1>1, RetryElsewhere
<1>3. ASSUME NEW t \in Unaudited(k)
      PROVE  t \in Unaudited(k)' /\ mem'[t].spend = mem[t].spend /\ call'[t].cost = call[t].cost
  <2>1. t \in Slots \ {s}
    BY DEF Unaudited
  <2>2. pc'[t] = pc[t] /\ call'[t] = call[t] /\ mem'[t] = mem[t]
    BY <1>1, <1>2, <2>1, BudgetElsewhere
  <2> QED  BY <1>2, <2>2 DEF Unaudited, Charging, IsCapture
<1> QED  BY <1>1, <1>2, <1>3, CoveredKept

\* So does one that writes nothing, if the capture goes on or its row is written.
LEMMA CoveredHere ==
    ASSUME AccountInvariant, SingleActivation, NEW s \in Slots, stored' = stored,
           usageEvents \subseteq usageEvents',
           Charging(s) =>
              \/ Charging(s)' /\ mem'[s] = mem[s] /\ call'[s].cost = call[s].cost
              \/ \E e \in usageEvents' : /\ e.key = KeyOf[s] /\ e.accruedIn = mem[s].period
                                         /\ e.after = mem[s].spend /\ e.cost = call[s].cost
    PROVE  Covered(KeyOf[s])'
<1> DEFINE k == KeyOf[s]
<1>1. k \in Keys /\ Covered(k)
  BY AccountTypes DEF AccountInvariant
<1>2. ASSUME NEW t \in Unaudited(k)
      PROVE  \/ /\ t \in Unaudited(k)'
                /\ mem'[t].spend = mem[t].spend /\ call'[t].cost = call[t].cost
             \/ \E e \in Audited(k)' : e.after = mem[t].spend /\ e.cost = call[t].cost
  <2>1. t = s /\ Charging(s) /\ mem[s].period = stored[k].period
    BY UnauditedIs DEF Unaudited
  <2>2. CASE Charging(s)' /\ mem'[s] = mem[s] /\ call'[s].cost = call[s].cost
    BY <2>1, <2>2 DEF Unaudited
  <2>3. CASE \E e \in usageEvents' : /\ e.key = KeyOf[s] /\ e.accruedIn = mem[s].period
                                     /\ e.after = mem[s].spend /\ e.cost = call[s].cost
    BY <2>1, <2>3 DEF Audited
  <2> QED  BY <2>1, <2>2, <2>3
<1> HIDE DEF k
<1> QED  BY <1>1, <1>2, CoveredKept DEF k

\* A write that is accepted clears the spend, or puts the cost of a capture on top of it
\* that is to write its row.
LEMMA CoveredWrites ==
    ASSUME AccountInvariant, SingleActivation, NEW s \in Slots, WriteSucceeds(s)
    PROVE  Covered(KeyOf[s])'
<1> DEFINE k == KeyOf[s]
<1>1. /\ pc \in [Slots -> PcValues] /\ mem \in [Slots -> StateRows] /\ mem[s] \in StateRows
      /\ stored \in [Keys -> StateRows] /\ k \in Keys /\ stored[k] \in StateRows
      /\ call[s] \in Calls /\ InStepWithStore(s) /\ TypeOK /\ Covered(k)
  BY AccountTypes DEF AccountInvariant
<1>2. /\ mem'[s] = Written(mem[s]) /\ stored'[k] = Written(mem[s])
      /\ UNCHANGED <<usageEvents, call>>
      /\ pc[s] \in {"rollover", "accrue"}
      /\ pc[s] = "accrue" => pc'[s] = "budget"
  BY <1>1 DEF WriteSucceeds, Persist, Writing
<1>3. Written(mem[s]).spend = mem[s].spend /\ Written(mem[s]).period = mem[s].period
  BY <1>1, Updates
<1>4. mem[s].spend \in Int /\ stored[k].spend \in Int /\ call[s].cost \in Int
  BY <1>1, FieldTypes
<1>5. CASE pc[s] = "rollover"
  <2>1. stored'[k].spend = 0
    BY <1>1, <1>2, <1>3, <1>5 DEF InStepWithStore
  <2>2. 1 .. stored'[k].spend = {}
    BY <2>1
  <2> HIDE DEF k
  <2> QED  BY <2>2 DEF Covered, k
<1>6. CASE pc[s] = "accrue"
  <2>1. /\ stored'[k].spend = stored[k].spend + call[s].cost
        /\ stored'[k].period = stored[k].period
    BY <1>1, <1>2, <1>3, <1>6 DEF InStepWithStore
  <2>2. Unaudited(k) = {}
    <3> SUFFICES ASSUME NEW t \in Unaudited(k)
                 PROVE  FALSE
      OBVIOUS
    <3>1. t = s /\ Charging(s)
      BY UnauditedIs DEF Unaudited
    <3> QED  BY <1>6, <3>1 DEF Charging, BudgetPcs
  <2>3. IsCapture(call[s])
    BY <1>1, <1>6 DEF TypeOK, AwaitTypeOK, CapturePcs
  <2>4. s \in Unaudited(k)'
    BY <1>2, <1>6, <2>3 DEF Unaudited, Charging, BudgetPcs
  <2> DEFINE x == [slot |-> s, after |-> mem'[s].spend, cost |-> call'[s].cost]
  <2>5. x \in ToAudit(k)'
    BY <2>4 DEF ToAudit
  <2>6. ASSUME NEW u \in 1 .. stored'[k].spend
        PROVE  \/ \E e \in Audited(k)' : u \in Stretch(e)
               \/ \E y \in ToAudit(k)' : u \in Stretch(y)
    <3>1. CASE u <= stored[k].spend
      <4>1. u \in Taken(Audited(k)) \/ u \in Taken(ToAudit(k))
        BY <1>1, <1>4, <2>1, <3>1 DEF Covered
      <4>2. u \notin Taken(ToAudit(k))
        BY <2>2 DEF Taken, ToAudit
      <4>3. PICK e \in Audited(k) : u \in Stretch(e)
        BY <4>1, <4>2, TakenIn
      <4>4. e \in Audited(k)'
        BY <1>2, <2>1, <4>3 DEF Audited
      <4> QED  BY <4>3, <4>4
    <3>2. CASE ~(u <= stored[k].spend)
      <4>1. x.after = stored'[k].spend /\ x.cost = call[s].cost
        BY <1>2
      <4>2. u \in Stretch(x)
        BY <1>4, <2>1, <3>2, <4>1 DEF Stretch
      <4> QED  BY <2>5, <4>2
    <3> QED  BY <3>1, <3>2
  <2> HIDE DEF k, x
  <2> QED  BY <2>6 DEF Covered, Taken, Stretch, k
<1> QED  BY <1>2, <1>5, <1>6


\* A capture goes on to its row, in the same memory.
LEMMA CaptureGoesOn ==
    ASSUME AccountInvariant, faults' = 0, NonNegativeTokens, NEW s \in Slots, SlotStep(s),
           Charging(s)
    PROVE  \/ Charging(s)' /\ mem'[s] = mem[s] /\ call'[s].cost = call[s].cost
           \/ \E e \in usageEvents' : /\ e.key = KeyOf[s] /\ e.accruedIn = mem[s].period
                                      /\ e.after = mem[s].spend /\ e.cost = call[s].cost
<1> USE DEF outside
<1>1. /\ pc \in [Slots -> PcValues] /\ call \in [Slots -> Calls] /\ call[s] \in Calls
      /\ pc[s] \in BudgetPcs \cup {"append", "insert"} /\ IsCapture(call[s])
  BY AccountTypes DEF Charging
<1>2. /\ ~Fault(s)
      /\ ~RejectEvent(s) /\ ~SkipAppend(s) /\ ~InsertRefused(s)
  BY AccountOwn, NothingFails
<1>3. CASE \/ CachedBudget(s) \/ AskBudget(s) \/ ResolveBudget(s) \/ LoadBudget(s)
           \/ CreateEvent(s) \/ BeginInsert(s)
  <2>1. /\ pc'[s] \in BudgetPcs \cup {"append", "insert"} /\ mem' = mem
        /\ call'[s].req = call[s].req /\ call'[s].cost = call[s].cost
    BY <1>1, <1>3 DEF CachedBudget, AskBudget, ResolveBudget, LoadBudget, CreateEvent,
                      BeginInsert, BudgetPcs, Calls
  <2> QED  BY <1>1, <2>1 DEF Charging, IsCapture
<1>4. CASE AppendEvent(s)
  <2>1. UsageEvent(s) \in usageEvents'
    BY <1>4 DEF AppendEvent, InsertEvent
  <2> QED  BY <2>1 DEF UsageEvent
<1>5. ~(\/ Activate(s) \/ Deactivate(s) \/ CheckBudget(s) \/ \E r \in Requests : CaptureUsage(s, r)
        \/ WriteSucceeds(s) \/ WriteConflicts(s) \/ AnswerDuplicate(s) \/ NotADuplicate(s)
        \/ RejectUnknownModel(s) \/ Accrue(s) \/ AnswerCheck(s))
  BY <1>1 DEF Activate, Deactivate, CheckBudget, CaptureUsage, BeginCall, WriteSucceeds, Writing,
              WriteConflicts, AnswerDuplicate, NotADuplicate, RejectUnknownModel, Accrue,
              AnswerCheck, BudgetPcs
<1> QED  BY <1>2, <1>3, <1>4, <1>5 DEF SlotStep, Step

LEMMA AccountSlotStep ==
    ASSUME AccountInvariant, AuditInvariant', faults' = 0, NonNegativeTokens,
           SingleActivation, IdsOfOneGrain, NEW s \in Slots, SlotStep(s)
    PROVE  AccountInvariant'
<1>1. /\ CaptureOK(s)' /\ InStepWithStore(s)'
      /\ \A t \in Slots \ {s} : CaptureOK(t)' /\ InStepWithStore(t)'
  BY AccountOwn, AccountElsewhere
<1>2. TypeOK /\ usageEvents \subseteq usageEvents'
  BY AccountTypes, RetryElsewhere
<1>4. GuidsAreFresh'
  BY GuidsStayFresh
<1>5. Covered(KeyOf[s])'
  <2>1. CASE WriteSucceeds(s)
    BY <2>1, CoveredWrites
  <2>2. CASE ~WriteSucceeds(s)
    <3>1. stored' = stored
      <4>1. ~Fault(s)
        BY NothingFails
      <4> USE DEF outside
      <4> QED  BY <2>2, <4>1 DEF SlotStep, Activate, Deactivate, CheckBudget, CaptureUsage,
                  BeginCall, Step, WriteConflicts, AnswerDuplicate, NotADuplicate,
                  RejectUnknownModel, Accrue, CachedBudget, AskBudget, ResolveBudget,
                  LoadBudget, AnswerCheck, RejectEvent, CreateEvent, SkipAppend,
                  BeginInsert, AppendEvent, InsertRefused
    <3> QED  BY <1>2, <3>1, CaptureGoesOn, CoveredHere
  <2> QED  BY <2>1, <2>2
<1>6. \A k \in Keys \ {KeyOf[s]} : Covered(k)'
  BY CoveredElsewhere
<1>7. /\ \A t \in Slots : CaptureOK(t)' /\ InStepWithStore(t)'
      /\ \A k \in Keys : Covered(k)'
  BY <1>1, <1>5, <1>6
<1> QED  BY <1>4, <1>7 DEF AccountInvariant

\* Time and administrators touch no account.
LEMMA AccountUntouched ==
    ASSUME AccountInvariant, AuditInvariant',
           UNCHANGED <<stored, usageEvents, pc, mem, call, sends, faults>>
    PROVE  AccountInvariant'
<1>1. GuidsAreFresh'
  BY DEF AccountInvariant, GuidsAreFresh, Recorded
<1>2. ASSUME NEW s \in Slots
      PROVE  CaptureOK(s)' /\ InStepWithStore(s)'
  <2>1. CaptureOK(s) /\ InStepWithStore(s)
    BY DEF AccountInvariant
  <2> QED  BY <2>1 DEF CaptureOK, PastCheck, InStepWithStore, Recorded, EventId, IsCapture
<1>3. ASSUME NEW k \in Keys
      PROVE  Covered(k)'
  <2>1. Covered(k)
    BY DEF AccountInvariant
  <2> QED  BY <2>1 DEF Covered, Taken, Audited, ToAudit, Unaudited, Charging, IsCapture
<1> QED  BY <1>1, <1>2, <1>3 DEF AccountInvariant

LEMMA AccountInit == Init => AccountInvariant
<1> SUFFICES ASSUME Init
             PROVE  AccountInvariant
  OBVIOUS
<1>1. AuditInvariant /\ faults = 0
  BY AuditInvariantInit DEF Init
<1>2. GuidsAreFresh
  BY DEF Init, GuidsAreFresh, Recorded
<1>3. ASSUME NEW s \in Slots
      PROVE  CaptureOK(s) /\ InStepWithStore(s)
  <2>1. pc[s] = "down" /\ ~IsCapture(call[s])
    BY DEF Init, NoCall, Call, IsCapture
  <2> QED  BY <2>1 DEF CaptureOK, PastCheck, InStepWithStore
<1>4. ASSUME NEW k \in Keys
      PROVE  Covered(k)
  <2>1. stored[k].spend = 0
    BY DEF Init, NoRow
  <2>2. 1 .. stored[k].spend = {}
    BY <2>1
  <2> QED  BY <2>2 DEF Covered
<1> QED  BY <1>1, <1>2, <1>3, <1>4 DEF AccountInvariant

\* A failure is counted for good.
LEMMA FailuresStay ==
    ASSUME TypeOK, [Next]_vars, faults' = 0
    PROVE  faults = 0
<1>1. faults \in Nat
  BY ClockAssumption DEF TypeOK
<1>2. ASSUME NEW s \in Slots, SlotStep(s)
      PROVE  faults' \in {faults, faults + 1}
  BY <1>2, RetryElsewhere
<1>3. CASE Tick \/ UNCHANGED vars \/ \E c \in Callers, p \in Periods, b \in Budgets : ChangeBudget(c, p, b)
  BY <1>3 DEF Tick, vars, ChangeBudget
<1> QED  BY <1>1, <1>2, <1>3 DEF Next, SlotStep

LEMMA AccountNext ==
    ASSUME NonNegativeTokens, SingleActivation, IdsOfOneGrain,
           AccountSoFar, [Next]_vars
    PROVE  AccountSoFar'
<1>1. ClocksInStep /\ OneFirstWriter
  BY FirstWritersAssumption DEF SingleActivation, ClocksInStep
<1>2. AuditInvariant'
  BY <1>1, AuditInvariantNext DEF AccountSoFar
<1> SUFFICES ASSUME faults' = 0
             PROVE  AccountInvariant'
  BY <1>2 DEF AccountSoFar
<1>3. AccountInvariant
  BY FailuresStay DEF AccountSoFar, AuditInvariant, AuditFits
<1>4. ASSUME NEW s \in Slots, SlotStep(s)
      PROVE  AccountInvariant'
  BY <1>2, <1>3, <1>4, AccountSlotStep
<1>5. ASSUME NEW c \in Callers, NEW p \in Periods, NEW b \in Budgets, ChangeBudget(c, p, b)
      PROVE  AccountInvariant'
  BY <1>2, <1>3, <1>5, AccountUntouched DEF ChangeBudget
<1>6. CASE Tick \/ UNCHANGED vars
  BY <1>2, <1>3, <1>6, AccountUntouched DEF Tick, vars
<1> QED  BY <1>4, <1>5, <1>6 DEF Next, SlotStep

\* What is to be audited fits the spend, next to what has been.
LEMMA ToAuditFits ==
    ASSUME AccountInvariant, SingleActivation, NEW k \in Keys
    PROVE  /\ \A x \in ToAudit(k) : /\ x.cost \in Nat /\ x.after \in Nat
                                    /\ x.cost <= x.after /\ x.after <= stored[k].spend
           /\ \A x, y \in ToAudit(k) : x # y => Apart(x, y)
           /\ \A x \in ToAudit(k), e \in Audited(k) : Apart(x, e)
<1>1. TypeOK /\ ClaimsApart
  BY DEF AccountInvariant, AuditInvariant, AuditFits
<1>2. ASSUME NEW t \in Unaudited(k)
      PROVE  /\ t \in Slots /\ KeyOf[t] = k /\ Charging(t) /\ mem[t].period = stored[k].period
             /\ call[t].cost \in Nat /\ mem[t].spend \in Nat
             /\ call[t].cost <= mem[t].spend /\ mem[t].spend <= stored[k].spend
  <2>1. t \in Slots /\ KeyOf[t] = k /\ Charging(t) /\ mem[t].period = stored[k].period
    BY DEF Unaudited
  <2>2. SlotOK(t) /\ call[t].cost \in Int /\ mem[t].spend \in Int
    BY <1>1, <2>1, FieldTypes DEF AccountInvariant, AuditInvariant, AuditFits
  <2> QED  BY <2>1, <2>2 DEF SlotOK, Behind
<1>3. ASSUME NEW x \in ToAudit(k)
      PROVE  \E t \in Unaudited(k) : /\ x = [slot |-> t, after |-> mem[t].spend,
                                             cost |-> call[t].cost]
                                     /\ x.after = mem[t].spend /\ x.cost = call[t].cost
  BY DEF ToAudit
<1>4. ASSUME NEW x \in ToAudit(k)
      PROVE  /\ x.cost \in Nat /\ x.after \in Nat
             /\ x.cost <= x.after /\ x.after <= stored[k].spend
  BY <1>2, <1>3
<1>5. ASSUME NEW x \in ToAudit(k), NEW y \in ToAudit(k), x # y
      PROVE  Apart(x, y)
  BY <1>2, <1>3, <1>5 DEF SingleActivation
<1>6. ASSUME NEW x \in ToAudit(k), NEW e \in Audited(k)
      PROVE  Apart(x, e)
  <2>1. PICK t \in Unaudited(k) : x.after = mem[t].spend /\ x.cost = call[t].cost
    BY <1>3
  <2>2. e \in usageEvents /\ SameSpend(Claim(t), e)
    BY <1>2 DEF Audited, SameSpend, Claim
  <2>3. Apart(Claim(t), e)
    BY <1>1, <1>2, <2>2 DEF ClaimsApart
  <2> QED  BY <2>1, <2>3 DEF Apart, Claim
<1> QED  BY <1>4, <1>5, <1>6

\* The spend of a period is the sum of its audited costs, and of those of the captures
\* between their write and their row: the audit table misses nothing (lines 136-163),
\* until something fails, where a grain has one activation and a request id is of one grain.
THEOREM SpendIsAccountedFor ==
    ASSUME NonNegativeTokens, SingleActivation, IdsOfOneGrain
    PROVE  Spec => [](faults = 0 => AuditAccountsForSpend)
<1>1. ASSUME AccountInvariant
      PROVE  AuditAccountsForSpend
  <2> SUFFICES ASSUME NEW k \in Keys
               PROVE  stored[k].spend = CostOf(Audited(k)) + CostOf(ToAudit(k))
    BY DEF AuditAccountsForSpend
  <2> DEFINE n == stored[k].spend
             rows == Taken(Audited(k))
             claims == Taken(ToAudit(k))
  <2>1. /\ n \in Nat
        /\ rows \subseteq 1 .. n /\ IsFiniteSet(rows)
        /\ CostOf(Audited(k)) = Cardinality(rows)
    BY <1>1, AuditedFit, CostIsTaken DEF AccountInvariant
  <2>2. /\ claims \subseteq 1 .. n /\ IsFiniteSet(claims)
        /\ CostOf(ToAudit(k)) = Cardinality(claims)
    BY <1>1, <2>1, ToAuditFits, CostIsTaken
  <2>3. rows \cup claims = 1 .. n
    BY <1>1, <2>1, <2>2 DEF AccountInvariant, Covered
  <2>4. rows \cap claims = {}
    <3> SUFFICES ASSUME NEW u, u \in rows, u \in claims
                 PROVE  FALSE
      OBVIOUS
    <3>1. PICK e \in Audited(k) : u \in Stretch(e)
      BY TakenIn
    <3>2. PICK x \in ToAudit(k) : u \in Stretch(x)
      BY TakenIn
    <3>3. Apart(x, e)
      BY <1>1, ToAuditFits
    <3>4. e.cost \in Nat /\ e.after \in Nat /\ x.cost \in Nat /\ x.after \in Nat
      BY <1>1, AuditedFit, ToAuditFits DEF AccountInvariant
    <3> QED  BY <3>1, <3>2, <3>3, <3>4 DEF Stretch, Apart
  <2> HIDE DEF n, rows, claims
  <2>5. Cardinality(rows \cup claims) = Cardinality(rows) + Cardinality(claims)
    <3>1. /\ Cardinality(rows \cup claims)
                = Cardinality(rows) + Cardinality(claims) - Cardinality(rows \cap claims)
          /\ Cardinality(rows) \in Nat /\ Cardinality(claims) \in Nat
      BY <2>1, <2>2, FS_Union, FS_CardinalityType
    <3>2. Cardinality(rows \cap claims) = 0
      BY <2>4, FS_EmptySet
    <3> QED  BY <3>1, <3>2
  <2>6. Cardinality(rows \cup claims) = n
    BY <2>1, <2>3, SpendUnits
  <2> QED  BY <2>1, <2>2, <2>5, <2>6 DEF n
<1>2. Init => AccountSoFar
  BY AccountInit DEF AccountInvariant, AccountSoFar
<1>3. AccountSoFar => (faults = 0 => AuditAccountsForSpend)
  BY <1>1 DEF AccountSoFar
<1> QED  BY <1>2, <1>3, AccountNext, PTL DEF Spec

\* SPEC 6.2.2's promise about duplicates holds until something fails: what breaks it is
\* a capture that is sent again after its accrual was written and its row was not.
THEOREM DuplicatesAreFree ==
    ASSUME NonNegativeTokens, SingleActivation
    PROVE  Spec => [](faults = 0 => DuplicateNeverDoubleAccrues)
<1>1. OneAccrualPerFault => (faults = 0 => DuplicateNeverDoubleAccrues)
  BY DEF OneAccrualPerFault, DuplicateNeverDoubleAccrues
<1> QED  BY <1>1, RetriesCostOnePerFault, PTL


-----------------------------------------------------------------------------
(* The grain and its stores implement a ledger of the spend. *)

LEMMA LedgerInitially == Init => Ledger!LedgerInit
<1> SUFFICES ASSUME Init
             PROVE  Ledger!LedgerInit
  OBVIOUS
<1>1. \A k \in Keys : Account(k) = [period |-> NoPeriod, spend |-> 0]
  BY DEF Init, NoRow, Account
<1>2. \A s \in Slots : Pending(s) = {}
  BY DEF Init, Pending, Charging, BudgetPcs
<1>3. {Entry(e) : e \in usageEvents} = {}
  BY DEF Init
<1> QED  BY <1>1, <1>2, <1>3 DEF Ledger!LedgerInit

\* Only a write makes an entry pending, and what is pending stays as it is.
LEMMA PendingStays ==
    ASSUME TypeOK, NEW s \in Slots, SlotStep(s), ~WriteSucceeds(s)
    PROVE  Pending(s)' \in {Pending(s), {}}
<1> USE DEF outside
<1>1. /\ pc \in [Slots -> PcValues] /\ call \in [Slots -> Calls] /\ call[s] \in Calls
  BY FieldTypes DEF TypeOK
<1> SUFFICES ASSUME Charging(s)'
             PROVE  Charging(s) /\ Claim(s)' = Claim(s)
  BY DEF Pending
<1>2. pc'[s] \in BudgetPcs \cup {"append", "insert"} /\ IsCapture(call'[s])
  BY DEF Charging
<1>3. ~(\/ Activate(s) \/ Deactivate(s) \/ Fault(s)
        \/ WriteConflicts(s) \/ AnswerDuplicate(s) \/ NotADuplicate(s)
        \/ RejectUnknownModel(s) \/ Accrue(s) \/ AnswerCheck(s) \/ RejectEvent(s)
        \/ SkipAppend(s) \/ AppendEvent(s) \/ InsertRefused(s))
  BY <1>1, <1>2 DEF Activate, Deactivate, Fault, Crash, CallFails, WriteUnacknowledged,
         AppendUnacknowledged, WriteConflicts, AnswerDuplicate, NotADuplicate,
         RejectUnknownModel, Accrue, AnswerCheck, RejectEvent, SkipAppend, AppendEvent,
         InsertRefused, Captured, Discard, Return, BudgetPcs
<1>4. ASSUME NEW c, BeginCall(s, c)
      PROVE  FALSE
  <2>1. call'[s] = c /\ pc'[s] \in {AfterPeriod(c), "rollover"}
    BY <1>1, <1>4 DEF BeginCall, PeriodIsCurrent, RollOver
  <2> QED  BY <1>2, <2>1 DEF AfterPeriod, BudgetPcs
<1>5. CASE \/ CachedBudget(s) \/ AskBudget(s) \/ ResolveBudget(s) \/ LoadBudget(s)
           \/ CreateEvent(s) \/ BeginInsert(s)
  <2>1. /\ pc[s] \in BudgetPcs \cup {"append", "insert"} /\ mem' = mem
        /\ call'[s].req = call[s].req /\ call'[s].cost = call[s].cost
    BY <1>1, <1>5 DEF CachedBudget, AskBudget, ResolveBudget, LoadBudget, CreateEvent,
                      BeginInsert, BudgetPcs, Calls
  <2> QED  BY <1>2, <2>1 DEF Charging, Claim, IsCapture
<1> QED  BY <1>3, <1>4, <1>5 DEF SlotStep, Step, CheckBudget, CaptureUsage

\* A step of s leaves the accounts and the pending entries of others alone.
LEMMA LedgerElsewhere ==
    ASSUME TypeOK, NEW s \in Slots, SlotStep(s)
    PROVE  /\ \A t \in Slots \ {s} : Pending(t)' = Pending(t)
           /\ \A k \in Keys \ {KeyOf[s]} : Account(k)' = Account(k)
<1>1. ASSUME NEW t \in Slots \ {s}
      PROVE  Pending(t)' = Pending(t)
  <2>1. pc'[t] = pc[t] /\ call'[t] = call[t] /\ mem'[t] = mem[t]
    BY BudgetElsewhere, RetryElsewhere
  <2> QED  BY <2>1 DEF Pending, Charging, Claim, IsCapture
<1>2. ASSUME NEW k \in Keys \ {KeyOf[s]}
      PROVE  Account(k)' = Account(k)
  BY RetryElsewhere DEF Account
<1> QED  BY <1>1, <1>2

\* An accepted write takes the account forward and leaves, after an accrual whose
\* writer hears of it, the entry it charged pending.
LEMMA WritesCharge ==
    ASSUME AuditInvariant, NEW s \in Slots, WriteSucceeds(s) \/ WriteUnacknowledged(s)
    PROVE  /\ Pending(s) = {} /\ usageEvents' = usageEvents
           /\ Behind(stored[KeyOf[s]], stored'[KeyOf[s]])
           /\ \/ Pending(s)' = {}
              \/ \E cost \in Int :
                    /\ Pending(s)' = {[key |-> KeyOf[s], accruedIn |-> stored'[KeyOf[s]].period,
                                       after |-> stored'[KeyOf[s]].spend, cost |-> cost]}
                    /\ 0 <= cost /\ cost <= stored'[KeyOf[s]].spend
                    /\ stored[KeyOf[s]].period = stored'[KeyOf[s]].period =>
                          stored[KeyOf[s]].spend <= stored'[KeyOf[s]].spend - cost
<1> USE DEF outside
<1> DEFINE k == KeyOf[s]
<1>1. /\ TypeOK /\ SlotOK(s) /\ k \in Keys /\ mem[s] \in StateRows
      /\ pc \in [Slots -> PcValues] /\ mem \in [Slots -> StateRows]
      /\ stored \in [Keys -> StateRows] /\ call[s].cost \in Int
  BY FieldTypes DEF AuditInvariant, AuditFits, TypeOK
<1>2. /\ Writing(s) /\ Persist(s) /\ stored'[k] = Written(mem[s]) /\ usageEvents' = usageEvents
      /\ mem[s].version = stored[k].version
  BY <1>1 DEF WriteSucceeds, WriteUnacknowledged, Persist
<1>3. Written(mem[s]).spend = mem[s].spend /\ Written(mem[s]).period = mem[s].period
  BY <1>1, Updates
<1>4. Pending(s) = {}
  BY <1>2 DEF Pending, Charging, Writing, BudgetPcs
<1>5. Behind(stored[k], stored'[k])
  BY <1>1, <1>2, <1>3 DEF SlotOK, Behind, Writing
<1>6. CASE ~Charging(s)'
  BY <1>2, <1>4, <1>5, <1>6 DEF Pending
<1>7. CASE Charging(s)'
  <2>1. WriteSucceeds(s) /\ pc[s] = "accrue"
    BY <1>1, <1>2, <1>7 DEF WriteSucceeds, WriteUnacknowledged, Return, Charging, AfterPeriod,
                            Writing, BudgetPcs
  <2>2. mem'[s] = Written(mem[s]) /\ call' = call
    BY <1>1, <2>1 DEF WriteSucceeds
  <2>3. Pending(s)' = {[key |-> k, accruedIn |-> stored'[k].period,
                        after |-> stored'[k].spend, cost |-> call[s].cost]}
    BY <1>2, <1>7, <2>2 DEF Pending, Claim
  <2>4. /\ 0 <= call[s].cost /\ call[s].cost <= mem[s].spend
        /\ stored[k].period = mem[s].period => stored[k].spend <= mem[s].spend - call[s].cost
    BY <1>1, <1>2, <2>1 DEF SlotOK
  <2> HIDE DEF k
  <2> QED  BY <1>1, <1>2, <1>3, <1>4, <1>5, <2>3, <2>4 DEF k
<1> QED  BY <1>6, <1>7


\* Every step of an activation is a charge, an entry made, one forgotten, or nothing.
LEMMA SlotStepIsLedgerStep ==
    ASSUME AuditInvariant, AuditInvariant', NEW s \in Slots, SlotStep(s)
    PROVE  Ledger!LedgerNext \/ UNCHANGED Ledger!ledgerVars
<1> DEFINE k == KeyOf[s]
           account == [j \in Keys |-> Account(j)]
           pending == [t \in Slots |-> Pending(t)]
           ledger == {Entry(e) : e \in usageEvents}
<1>1. TypeOK /\ TypeOK' /\ k \in Keys /\ usageEvents \subseteq usageEvents'
  BY FieldTypes, RetryElsewhere DEF AuditInvariant, AuditFits
<1>2. /\ account' = [account EXCEPT ![k] = account'[k]]
      /\ pending' = [pending EXCEPT ![s] = Pending(s)']
      /\ pending[s] = Pending(s)
  BY <1>1, LedgerElsewhere
<1>3. CASE WriteSucceeds(s) \/ WriteUnacknowledged(s)
  <2>1. /\ pending[s] = {} /\ ledger' = ledger
        /\ account[k].period = stored[k].period /\ account[k].spend = stored[k].spend
        /\ account'[k].period = stored'[k].period /\ account'[k].spend = stored'[k].spend
    BY <1>1, <1>3, WritesCharge DEF Account
  <2>2. /\ stored[k].period \in Int /\ stored[k].spend \in Int
        /\ stored'[k].period \in Int /\ stored'[k].spend \in Int /\ 0 <= stored'[k].spend
    BY <1>1, PeriodsAreIntegers DEF AuditInvariant, AuditFits, TypeOK, StateRows
  <2>3. Behind(stored[k], stored'[k])
    BY <1>3, WritesCharge
  <2> DEFINE until == Ledger!ChargedUntilNow(k)
  <2>4. /\ until = IF stored'[k].period = stored[k].period THEN stored[k].spend ELSE 0
        /\ until \in Int /\ until <= stored'[k].spend
    BY <2>1, <2>2, <2>3 DEF Ledger!ChargedUntilNow, Behind
  <2>5. account[k].period <= account'[k].period /\ until <= account'[k].spend
    BY <2>1, <2>3, <2>4 DEF Behind
  <2>6. CASE Pending(s)' = {}
    <3>1. pending' = pending
      BY <1>2, <2>1, <2>6
    <3> HIDE DEF until
    <3>2. Ledger!Charge(s)
      BY <1>2, <2>1, <2>5, <3>1 DEF Ledger!Charge, until
    <3> QED  BY <3>2 DEF Ledger!LedgerNext
  <2>7. ASSUME NEW cost \in Int,
               Pending(s)' = {[key |-> k, accruedIn |-> stored'[k].period,
                               after |-> stored'[k].spend, cost |-> cost]},
               0 <= cost, cost <= stored'[k].spend,
               stored[k].period = stored'[k].period => stored[k].spend <= stored'[k].spend - cost
        PROVE  Ledger!Charge(s)
    <3>1. cost \in 0 .. (account'[k].spend - until)
      BY <2>1, <2>2, <2>4, <2>7
    <3>2. pending' = [pending EXCEPT ![s] = {Ledger!Entry(k, cost)}]
      BY <1>2, <2>1, <2>7 DEF Ledger!Entry
    <3> HIDE DEF until
    <3> QED  BY <1>2, <2>1, <2>5, <3>1, <3>2 DEF Ledger!Charge, until
  <2> QED  BY <1>3, <2>6, <2>7, WritesCharge DEF Ledger!LedgerNext
<1>4. CASE InsertEvent(s) /\ pc'[s] = "idle" /\ stored' = stored
  <2>1. Pending(s) = {Claim(s)} /\ Pending(s)' = {}
    BY <1>1, <1>4 DEF InsertEvent, Pending, Charging, TypeOK, AwaitTypeOK, CapturePcs, BudgetPcs
  <2>2. Entry(UsageEvent(s)) = Claim(s)
    BY DEF Entry, UsageEvent, Claim
  <2>3. ledger' = ledger \cup pending[s]
    BY <1>2, <1>4, <2>1, <2>2 DEF InsertEvent
  <2>4. account' = account
    BY <1>4 DEF Account
  <2> QED  BY <1>2, <2>1, <2>3, <2>4 DEF Ledger!LedgerNext, Ledger!MakeEntry
<1>5. CASE usageEvents' = usageEvents /\ stored' = stored /\ ~WriteSucceeds(s)
  <2>1. ledger' = ledger /\ account' = account
    BY <1>5 DEF Account
  <2>2. CASE Pending(s)' = {}
    BY <1>2, <2>1, <2>2 DEF Ledger!LedgerNext, Ledger!Forget
  <2>3. CASE Pending(s)' = Pending(s)
    <3>1. pending' = pending
      BY <1>2, <2>3
    <3> QED  BY <2>1, <3>1 DEF Ledger!ledgerVars
  <2> QED  BY <1>1, <1>5, <2>2, <2>3, PendingStays
<1>6. \/ WriteSucceeds(s) \/ WriteUnacknowledged(s)
      \/ InsertEvent(s) /\ pc'[s] = "idle" /\ stored' = stored
      \/ usageEvents' = usageEvents /\ stored' = stored
  <2> USE DEF outside
  <2>1. pc \in [Slots -> PcValues]
    BY <1>1 DEF TypeOK
  <2> QED  BY <2>1 DEF SlotStep, Activate, Deactivate, CheckBudget, CaptureUsage, BeginCall,
              Fault, Crash, CallFails, AppendUnacknowledged, Captured, Return, Step,
              WriteConflicts, AnswerDuplicate, NotADuplicate, RejectUnknownModel, Accrue,
              CachedBudget, AskBudget, ResolveBudget, LoadBudget, AnswerCheck, RejectEvent,
              CreateEvent, SkipAppend, BeginInsert, AppendEvent, InsertRefused
<1> QED  BY <1>3, <1>4, <1>5, <1>6

\* Whatever fails, and whichever of its activations write once one of them has made the
\* first write, the grain keeps a ledger of its spend: an account that only goes forward,
\* and rows that were charged to it before they were written, once, and on top of
\* everything charged until then.
THEOREM GrainKeepsALedger ==
    ASSUME NonNegativeTokens, ClocksInStep, OneFirstWriter
    PROVE  Spec => ImplementsLedger
<1>1. ASSUME AuditInvariant, AuditInvariant', [Next]_vars
      PROVE  [Ledger!LedgerNext]_(Ledger!ledgerVars)
  <2>1. ASSUME NEW s \in Slots, SlotStep(s)
        PROVE  [Ledger!LedgerNext]_(Ledger!ledgerVars)
    BY <1>1, <2>1, SlotStepIsLedgerStep
  <2>2. ASSUME UNCHANGED <<stored, usageEvents, pc, mem, call>>
        PROVE  UNCHANGED Ledger!ledgerVars
    BY <2>2 DEF Ledger!ledgerVars, Account, Pending, Charging, Claim, IsCapture
  <2>3. ASSUME NEW c \in Callers, NEW p \in Periods, NEW b \in Budgets, ChangeBudget(c, p, b)
        PROVE  UNCHANGED Ledger!ledgerVars
    BY <2>2, <2>3 DEF ChangeBudget
  <2>4. CASE Tick \/ UNCHANGED vars
    BY <2>2, <2>4 DEF Tick, vars
  <2> QED  BY <1>1, <2>1, <2>3, <2>4 DEF Next, SlotStep
<1> QED  BY <1>1, LedgerInitially, AuditInvariantHolds, PTL DEF Spec, ImplementsLedger, Ledger!LedgerSpec
=============================================================================
