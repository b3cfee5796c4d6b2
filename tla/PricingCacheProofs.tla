-------------------------- MODULE PricingCacheProofs --------------------------
(***************************************************************************)
(* Proofs about PricingCache, for all values of its constants.             *)
(***************************************************************************)
EXTENDS PricingCache, TLAPS

LEMMA ConstantTypes ==
    /\ \A w \in Workers : ModelOf[w] \in Models
    /\ NoPricing \notin Quotes
    /\ Ttl \in Nat /\ MaxLatency \in Nat /\ MaxPause \in Nat
    /\ MaxTime \in Nat /\ MaxChanges \in Nat
    /\ MaxPause <= Ttl
BY ModelsAssumption, TimesAssumption

\* What a history has, a longer one has in every wider span.
LEMMA HeldGrows ==
    ASSUME NEW h1, NEW h2, h1 \subseteq h2, NEW q,
           NEW a \in Int, NEW b \in Int, NEW c \in Int, NEW d \in Int,
           c <= a, b <= d, Held(h1, q, a, b)
    PROVE  Held(h2, q, c, d)
BY DEF Held

\* What is in the history at a time of a span, it has during the span.
LEMMA HeldAt ==
    ASSUME NEW h, NEW q, NEW a \in Int, NEW b \in Int, NEW t \in Int,
           a <= t, t <= b, <<q, t>> \in h
    PROVE  Held(h, q, a, b)
BY DEF Held

\* The types that make the arithmetic of the lemmas below meaningful.
LEMMA TimesAreIntegers ==
    ASSUME TypeOK
    PROVE  /\ now \in Nat
           /\ \A m \in Models : entries[m].loadedAt \in Nat
           /\ \A w \in Workers : /\ call[w].began \in Nat /\ call[w].stored \in Nat
                                 /\ answer[w].began \in Nat
                                 /\ answer[w].at \in Nat
BY ConstantTypes DEF TypeOK, Times

-----------------------------------------------------------------------------
(* Types. *)

LEMMA InitType == Init => TypeOK
<1> SUFFICES ASSUME Init PROVE TypeOK
  OBVIOUS
<1>1. 0 \in Times /\ NoPricing \in Results /\ 0 \in 0 .. MaxChanges
  BY ConstantTypes DEF Times, Results
<1>2. inForce \in [Models -> SUBSET (Results \X Times)]
  BY <1>1 DEF Init
<1>3. /\ NoEntry \in [result : Results, loadedAt : Times]
      /\ NoCall \in [began : Times, stored : Times, result : Results]
      /\ NoAnswer \in [given : BOOLEAN, result : Results, began : Times, at : Times]
  BY <1>1 DEF NoEntry, NoCall, NoAnswer
<1>4. QED
  BY <1>1, <1>2, <1>3 DEF Init, TypeOK, PcValues

LEMMA NextType == TypeOK /\ [Next]_vars => TypeOK'
<1> SUFFICES ASSUME TypeOK, [Next]_vars PROVE TypeOK'
  OBVIOUS
<1> USE DEF TypeOK
<1>0. /\ 0 \in Times /\ NoPricing \in Results
      /\ \A w \in Workers : ModelOf[w] \in Models
      /\ {"idle", "read", "store", "reread"} \subseteq PcValues
      /\ NoEntry \in [result : Results, loadedAt : Times]
      /\ NoCall \in [began : Times, stored : Times, result : Results]
      /\ NoAnswer \in [given : BOOLEAN, result : Results, began : Times, at : Times]
  BY ConstantTypes DEF Times, Results, PcValues, NoEntry, NoCall, NoAnswer
<1>1. CASE Tick
  <2>1. now' \in Times
    BY <1>1, ConstantTypes DEF Tick, Times
  <2>2. inForce' \in [Models -> SUBSET (Results \X Times)]
    BY <1>1, <2>1 DEF Tick
  <2>3. QED
    BY <1>1, <2>1, <2>2 DEF Tick
<1>2. ASSUME NEW m \in Models, NEW q \in Results, Reprice(m, q) PROVE TypeOK'
  <2>1. changes' \in 0 .. MaxChanges
    BY <1>2, ConstantTypes DEF Reprice
  <2>2. inForce' \in [Models -> SUBSET (Results \X Times)]
    BY <1>2 DEF Reprice
  <2>3. QED
    BY <1>2, <2>1, <2>2 DEF Reprice
<1>3. ASSUME NEW w \in Workers, NEW result \in Results, NEW began \in Times,
             Answers(w, result, began)
      PROVE  /\ pc' \in [Workers -> PcValues]
             /\ call' \in [Workers -> [began : Times, stored : Times, result : Results]]
             /\ answer' \in [Workers -> [given : BOOLEAN, result : Results,
                                         began : Times, at : Times]]
  <2>1. [given |-> TRUE, result |-> result, began |-> began, at |-> now]
           \in [given : BOOLEAN, result : Results, began : Times, at : Times]
    OBVIOUS
  <2>2. QED
    BY <1>0, <1>3, <2>1 DEF Answers
<1>4. ASSUME NEW w \in Workers, AnswerFromCache(w) \/ AnswerStored(w) PROVE TypeOK'
  BY <1>0, <1>3, <1>4 DEF AnswerFromCache, AnswerStored
<1>5. ASSUME NEW w \in Workers, AnswerUnknown(w) PROVE TypeOK'
  BY <1>0, <1>3, <1>5 DEF AnswerUnknown
<1>6. ASSUME NEW w \in Workers, Miss(w) PROVE TypeOK'
  BY <1>0, <1>6 DEF Miss
<1>7. ASSUME NEW w \in Workers, Read(w) PROVE TypeOK'
  BY <1>0, <1>7 DEF Read
<1>8. ASSUME NEW w \in Workers, ReadFails(w) PROVE TypeOK'
  BY <1>0, <1>8 DEF ReadFails
<1>9. ASSUME NEW w \in Workers, Store(w) PROVE TypeOK'
  <2>1. [result |-> call[w].result, loadedAt |-> now] \in [result : Results, loadedAt : Times]
    OBVIOUS
  <2>2. QED
    BY <1>0, <1>9, <2>1 DEF Store, Put
<1>10. CASE UNCHANGED vars
  BY <1>10 DEF vars
<1>11. QED
  BY <1>1, <1>2, <1>4, <1>5, <1>6, <1>7, <1>8, <1>9, <1>10 DEF Next

\* Type correctness: every variable keeps its type in every reachable state.
THEOREM TypeCorrect == Spec => []TypeOK
<1>1. Init => TypeOK
  BY InitType
<1>2. TypeOK /\ [Next]_vars => TypeOK'
  BY NextType
<1>3. QED
  BY <1>1, <1>2, PTL DEF Spec

-----------------------------------------------------------------------------
(* The history of the table. *)

\* Time and history only grow, and the history knows the present row.
LEMMA HistoryGrows ==
    ASSUME TypeOK, RowIsCurrent, [Next]_vars
    PROVE  /\ now <= now'
           /\ \A m \in Models : inForce[m] \subseteq inForce'[m]
           /\ RowIsCurrent'
<1> USE DEF TypeOK, RowIsCurrent
<1>1. now \in Nat
  BY TimesAreIntegers
<1>2. CASE Tick
  BY <1>1, <1>2 DEF Tick
<1>3. ASSUME NEW m \in Models, NEW q \in Results, Reprice(m, q)
      PROVE  /\ now <= now'
             /\ \A n \in Models : inForce[n] \subseteq inForce'[n]
             /\ RowIsCurrent'
  BY <1>1, <1>3 DEF Reprice
<1>4. CASE UNCHANGED <<now, row, inForce>>
  BY <1>1, <1>4
<1>5. QED
  BY <1>2, <1>3, <1>4
  DEF Next, vars, AnswerFromCache, Miss, Read, ReadFails, Store, AnswerStored, AnswerUnknown

-----------------------------------------------------------------------------
(* The cache. *)

\* An entry not older than what a look-up has stored cannot expire before it reads it.
LEMMA OwnEntryIsGood ==
    ASSUME TypeOK, NEW w \in Workers, LookUpOK(w), pc[w] = "reread", HasOwnEntry(w)
    PROVE  Hit(ModelOf[w])
<1>1. /\ entries[ModelOf[w]] # NoEntry
      /\ call[w].stored <= entries[ModelOf[w]].loadedAt
      /\ now - call[w].stored <= MaxPause
  BY DEF HasOwnEntry, LookUpOK
<1>2. /\ now \in Nat /\ call[w].stored \in Nat /\ entries[ModelOf[w]].loadedAt \in Nat
      /\ MaxPause <= Ttl /\ MaxPause \in Nat /\ Ttl \in Nat
  BY TimesAreIntegers, ConstantTypes
<1>3. QED
  BY <1>1, <1>2 DEF Hit

\* What a look-up stores was read not longer than MaxLatency ago.
LEMMA StoredIsRecent ==
    ASSUME TypeOK, NEW w \in Workers, LookUpOK(w), pc[w] = "store"
    PROVE  Held(inForce[ModelOf[w]], call[w].result, now - MaxLatency, now)
<1>1. /\ now - call[w].began <= MaxLatency
      /\ Held(inForce[ModelOf[w]], call[w].result, call[w].began, now)
  BY DEF LookUpOK
<1>2. now \in Nat /\ call[w].began \in Nat /\ MaxLatency \in Nat
  BY TimesAreIntegers, ConstantTypes
<1> DEFINE h == inForce[ModelOf[w]]
           b == call[w].began
           r == call[w].result
<1> HIDE DEF h, b, r
<1>3. now - MaxLatency <= b /\ b \in Int /\ now - MaxLatency \in Int
  BY <1>1, <1>2 DEF b
<1>4. Held(h, r, b, now)
  BY <1>1 DEF h, b, r
<1>5. Held(h, r, now - MaxLatency, now)
  BY <1>2, <1>3, <1>4, HeldGrows
<1>6. QED
  BY <1>5 DEF h, r

\* How a step may change the entry of a model: it stays, it is removed as expired,
\* or a look-up stores what it has read.
LEMMA EntrySteps ==
    ASSUME TypeOK, [Next]_vars, NEW m \in Models
    PROVE  \/ entries'[m] = entries[m]
           \/ ~Hit(m) /\ entries'[m] = NoEntry
           \/ \E v \in Workers :
                /\ ModelOf[v] = m /\ pc[v] = "store" /\ now' = now
                /\ entries'[m] = IF call[v].result = NoPricing THEN NoEntry
                                 ELSE [result |-> call[v].result, loadedAt |-> now]
<1>1. entries = [n \in Models |-> entries[n]]
  BY DEF TypeOK
<1>2. CASE UNCHANGED entries
  BY <1>2
<1>3. ASSUME NEW w \in Workers, Miss(w) \/ AnswerUnknown(w)
      PROVE  entries'[m] = entries[m] \/ (~Hit(m) /\ entries'[m] = NoEntry)
  BY <1>1, <1>3 DEF Miss, AnswerUnknown
<1>4. ASSUME NEW w \in Workers, Store(w)
      PROVE  \/ entries'[m] = entries[m]
             \/ /\ ModelOf[w] = m /\ pc[w] = "store" /\ now' = now
                /\ entries'[m] = IF call[w].result = NoPricing THEN NoEntry
                                 ELSE [result |-> call[w].result, loadedAt |-> now]
  BY <1>1, <1>4 DEF Store, Put
<1>5. QED
  BY <1>2, <1>3, <1>4
  DEF Next, vars, Tick, Reprice, AnswerFromCache, Read, ReadFails, AnswerStored

\* The entries of the cache stay good.
LEMMA EntryNext ==
    ASSUME TypeOK, TypeOK', RowIsCurrent, [Next]_vars,
           \A w \in Workers : LookUpOK(w),
           NEW m \in Models, EntryOK(m)
    PROVE  EntryOK(m)'
<1>1. inForce[m] \subseteq inForce'[m] /\ now <= now'
  BY HistoryGrows
<1>2. /\ now \in Nat /\ now' \in Nat /\ MaxLatency \in Nat
      /\ entries[m].loadedAt \in Nat
  BY TimesAreIntegers, ConstantTypes DEF TypeOK, Times
<1>3. CASE entries'[m] = entries[m]
  <2> SUFFICES ASSUME entries[m] # NoEntry
               PROVE  /\ entries[m].result # NoPricing
                      /\ entries[m].loadedAt <= now'
                      /\ Held(inForce'[m], entries[m].result,
                              entries[m].loadedAt - MaxLatency, entries[m].loadedAt)
    BY <1>3 DEF EntryOK
  <2> DEFINE at == entries[m].loadedAt
             r == entries[m].result
  <2>1. r # NoPricing /\ at <= now /\ Held(inForce[m], r, at - MaxLatency, at)
    BY DEF EntryOK
  <2>2. at \in Int /\ at - MaxLatency \in Int
    BY <1>2
  <2> HIDE DEF at, r
  <2>3. Held(inForce'[m], r, at - MaxLatency, at)
    BY <1>1, <2>1, <2>2, HeldGrows
  <2>4. at <= now'
    BY <1>1, <1>2, <2>1, <2>2
  <2>5. QED
    BY <2>1, <2>3, <2>4 DEF at, r
<1>4. CASE entries'[m] = NoEntry
  BY <1>4 DEF EntryOK
<1>5. ASSUME NEW v \in Workers, ModelOf[v] = m, pc[v] = "store", now' = now,
             call[v].result # NoPricing,
             entries'[m] = [result |-> call[v].result, loadedAt |-> now]
      PROVE  EntryOK(m)'
  <2>1. Held(inForce[m], call[v].result, now - MaxLatency, now)
    BY <1>5, StoredIsRecent
  <2>2. Held(inForce'[m], call[v].result, now - MaxLatency, now)
    BY <1>1, <1>2, <2>1, HeldGrows
  <2>3. entries'[m].result = call[v].result /\ entries'[m].loadedAt = now
    BY <1>5
  <2>4. QED
    BY <1>2, <1>5, <2>2, <2>3 DEF EntryOK
<1>6. QED
  BY <1>3, <1>4, <1>5, EntrySteps

-----------------------------------------------------------------------------
(* The look-ups. *)

\* What a look-up waits for survives the steps of the others.
LEMMA StillWaits ==
    ASSUME TypeOK, TypeOK', RowIsCurrent, [Next]_vars,
           \A v \in Workers : LookUpOK(v),
           NEW w \in Workers, pc[w] = "reread", Waits(w), call'[w] = call[w]
    PROVE  Waits(w)'
<1> DEFINE m == ModelOf[w]
           b == call[w].began
           s == call[w].stored
<1>1. /\ now \in Nat /\ now' \in Nat /\ MaxLatency \in Nat /\ b \in Nat /\ s \in Nat
      /\ entries[m].loadedAt \in Nat /\ m \in Models
  BY TimesAreIntegers, ConstantTypes DEF TypeOK, Times
<1>2. now <= now' /\ inForce[m] \subseteq inForce'[m]
  BY <1>1, HistoryGrows
<1>3. b <= s /\ s <= now
  BY DEF LookUpOK
<1>4. /\ Waits(w) <=> (HasOwnEntry(w) \/ Held(inForce[m], NoPricing, b - MaxLatency, now))
      /\ Waits(w)' <=> (HasOwnEntry(w)' \/ Held(inForce'[m], NoPricing, b - MaxLatency, now'))
  BY DEF Waits
<1>5. /\ HasOwnEntry(w) <=> (entries[m] # NoEntry /\ s <= entries[m].loadedAt)
      /\ HasOwnEntry(w)' <=> (entries'[m] # NoEntry /\ s <= entries'[m].loadedAt)
  BY DEF HasOwnEntry
<1>6. HasOwnEntry(w) => Hit(m)
  BY OwnEntryIsGood
<1> HIDE DEF m, b, s
<1>7. CASE Held(inForce[m], NoPricing, b - MaxLatency, now)
  BY <1>1, <1>2, <1>4, <1>7, HeldGrows
<1>8. CASE HasOwnEntry(w) /\ entries'[m] = entries[m]
  BY <1>4, <1>5, <1>8
<1>9. ASSUME NEW v \in Workers, ModelOf[v] = m, pc[v] = "store", now' = now,
             entries'[m] = IF call[v].result = NoPricing THEN NoEntry
                           ELSE [result |-> call[v].result, loadedAt |-> now]
      PROVE  Waits(w)'
  <2>1. CASE call[v].result = NoPricing
    <3>1. Held(inForce[m], NoPricing, now - MaxLatency, now)
      BY <1>9, <2>1, StoredIsRecent
    <3>2. b - MaxLatency <= now - MaxLatency
      BY <1>1, <1>3
    <3>3. Held(inForce'[m], NoPricing, b - MaxLatency, now')
      BY <1>1, <1>2, <3>1, <3>2, HeldGrows
    <3>4. QED
      BY <1>4, <3>3
  <2>2. CASE call[v].result # NoPricing
    <3>1. entries'[m] = [result |-> call[v].result, loadedAt |-> now]
      BY <1>9, <2>2
    <3>2. entries'[m] # NoEntry /\ entries'[m].loadedAt = now
      BY <2>2, <3>1 DEF NoEntry
    <3>3. QED
      BY <1>3, <1>4, <1>5, <3>2
  <2>3. QED
    BY <2>1, <2>2
<1>10. QED
  BY <1>1, <1>4, <1>6, <1>7, <1>8, <1>9, EntrySteps

\* No look-up is overdue after a step, if it stays where it is.
LEMMA InTime ==
    ASSUME TypeOK, [Next]_vars, NEW w \in Workers, LookUpOK(w)
    PROVE  /\ pc[w] \in {"read", "store"} => now' - call[w].began <= MaxLatency
           /\ pc[w] = "reread" => now' - call[w].stored <= MaxPause
<1>1. /\ now \in Nat /\ MaxLatency \in Nat /\ MaxPause \in Nat
      /\ call[w].began \in Nat /\ call[w].stored \in Nat
  BY TimesAreIntegers, ConstantTypes
<1>2. CASE Tick
  BY <1>1, <1>2 DEF Tick
<1>3. CASE now' = now
  BY <1>3 DEF LookUpOK
<1>4. QED
  BY <1>2, <1>3 DEF Next, vars, Reprice, AnswerFromCache, Miss, Read, ReadFails,
                    Store, AnswerStored, AnswerUnknown

\* A look-up that is in no step of its own stays right.
LEMMA LookUpStays ==
    ASSUME TypeOK, TypeOK', RowIsCurrent, [Next]_vars,
           \A v \in Workers : LookUpOK(v),
           NEW w \in Workers, pc'[w] = pc[w], call'[w] = call[w]
    PROVE  LookUpOK(w)'
<1> DEFINE b == call[w].began
           s == call[w].stored
           h == inForce[ModelOf[w]]
           k == inForce'[ModelOf[w]]
           r == call[w].result
<1>1. /\ now \in Nat /\ now' \in Nat /\ b \in Nat /\ s \in Nat
      /\ ModelOf[w] \in Models
  BY TimesAreIntegers, ConstantTypes DEF TypeOK, Times
<1>2. now <= now' /\ h \subseteq k
  BY <1>1, HistoryGrows
<1>3. /\ pc[w] \in {"read", "store"} => b <= now
      /\ pc[w] = "store" => Held(h, r, b, now)
      /\ pc[w] = "reread" => b <= s /\ s <= now /\ Waits(w)
  BY DEF LookUpOK
<1>4. pc[w] = "reread" => Waits(w)'
  BY <1>3, StillWaits
<1>5. /\ pc[w] \in {"read", "store"} => now' - b <= MaxLatency
      /\ pc[w] = "reread" => now' - s <= MaxPause
  BY InTime
<1> HIDE DEF b, s, h, k, r
<1>6. pc[w] = "store" => Held(k, r, b, now')
  BY <1>1, <1>2, <1>3, HeldGrows
<1>7. /\ pc[w] \in {"read", "store"} => b <= now'
      /\ pc[w] = "reread" => s <= now'
  BY <1>1, <1>2, <1>3
<1>8. QED
  BY <1>3, <1>4, <1>5, <1>6, <1>7 DEF LookUpOK, b, s, h, k, r

\* Every step keeps what is known of a look-up.
LEMMA LookUpNext ==
    ASSUME TypeOK, TypeOK', RowIsCurrent, [Next]_vars,
           \A v \in Workers : LookUpOK(v),
           NEW w \in Workers
    PROVE  LookUpOK(w)'
<1>1. /\ now \in Nat /\ MaxLatency \in Nat /\ MaxPause \in Nat
      /\ call[w].began \in Nat /\ call[w].stored \in Nat /\ ModelOf[w] \in Models
  BY TimesAreIntegers, ConstantTypes
<1>2. /\ pc = [v \in Workers |-> pc[v]] /\ call = [v \in Workers |-> call[v]]
      /\ entries = [m \in Models |-> entries[m]]
      /\ DOMAIN call[w] = {"began", "stored", "result"}
  BY DEF TypeOK
<1>3. CASE pc'[w] = pc[w] /\ call'[w] = call[w]
  BY <1>3, LookUpStays
<1>4. CASE pc'[w] = "idle"
  BY <1>4 DEF LookUpOK
<1>5. CASE Miss(w)
  <2>1. call'[w] = [NoCall EXCEPT !.began = now] /\ pc'[w] = "read" /\ now' = now
    BY <1>2, <1>5 DEF Miss
  <2>2. call'[w].began = now
    BY <2>1 DEF NoCall
  <2>3. QED
    BY <1>1, <2>1, <2>2 DEF LookUpOK
<1>6. CASE Read(w)
  <2>1. /\ pc[w] = "read" /\ pc'[w] = "store" /\ now' = now /\ inForce' = inForce
        /\ call'[w] = [call[w] EXCEPT !.result = row[ModelOf[w]]]
    BY <1>2, <1>6 DEF Read
  <2>2. call'[w].began = call[w].began /\ call'[w].result = row[ModelOf[w]]
    BY <1>2, <2>1
  <2>3. call[w].began <= now /\ now - call[w].began <= MaxLatency
    BY <2>1 DEF LookUpOK
  <2>4. <<row[ModelOf[w]], now>> \in inForce[ModelOf[w]]
    BY <1>1 DEF RowIsCurrent
  <2>5. Held(inForce[ModelOf[w]], row[ModelOf[w]], call[w].began, now)
    <3> DEFINE h == inForce[ModelOf[w]]
               q == row[ModelOf[w]]
               b == call[w].began
    <3>1. /\ b \in Int /\ now \in Int /\ b <= now /\ now <= now
          /\ <<q, now>> \in h
      BY <1>1, <2>3, <2>4
    <3> HIDE DEF h, q, b
    <3>2. Held(h, q, b, now)
      BY <3>1, HeldAt
    <3>3. QED
      BY <3>2 DEF h, q, b
  <2>6. QED
    BY <2>1, <2>2, <2>3, <2>5 DEF LookUpOK
<1>7. CASE Store(w)
  <2> DEFINE m == ModelOf[w]
  <2>1. /\ pc[w] = "store" /\ pc'[w] = "reread" /\ now' = now /\ inForce' = inForce
        /\ call'[w] = [call[w] EXCEPT !.stored = now]
    BY <1>2, <1>7 DEF Store
  <2>2. call'[w].began = call[w].began /\ call'[w].stored = now
    BY <1>2, <2>1
  <2>3. call[w].began <= now
    BY <2>1 DEF LookUpOK
  <2>4. entries'[m] = IF call[w].result = NoPricing THEN NoEntry
                      ELSE [result |-> call[w].result, loadedAt |-> now]
    BY <1>1, <1>2, <1>7 DEF Store, Put
  <2>5. Waits(w)'
    <3>1. CASE call[w].result = NoPricing
      <4>1. Held(inForce[m], NoPricing, call[w].began, now)
        BY <2>1, <3>1 DEF LookUpOK
      <4>2. Held(inForce[m], NoPricing, call[w].began - MaxLatency, now)
        BY <1>1, <4>1, HeldGrows
      <4>3. QED
        BY <2>1, <2>2, <4>2 DEF Waits
    <3>2. CASE call[w].result # NoPricing
      <4>1. entries'[m] = [result |-> call[w].result, loadedAt |-> now]
        BY <2>4, <3>2
      <4>2. entries'[m] # NoEntry /\ entries'[m].loadedAt = now
        BY <3>2, <4>1 DEF NoEntry
      <4>3. QED
        BY <1>1, <2>2, <4>2 DEF Waits, HasOwnEntry
    <3>3. QED
      BY <3>1, <3>2
  <2>6. QED
    BY <1>1, <2>1, <2>2, <2>3, <2>5 DEF LookUpOK
<1>8. \/ pc'[w] = pc[w] /\ call'[w] = call[w]
      \/ pc'[w] = "idle"
      \/ Miss(w) \/ Read(w) \/ Store(w)
  <2>1. ASSUME NEW v \in Workers, v # w,
               \/ AnswerFromCache(v) \/ Miss(v) \/ Read(v) \/ ReadFails(v)
               \/ Store(v) \/ AnswerStored(v) \/ AnswerUnknown(v)
        PROVE  pc'[w] = pc[w] /\ call'[w] = call[w]
    BY <1>2, <2>1 DEF AnswerFromCache, Miss, Read, ReadFails, Store, AnswerStored,
                      AnswerUnknown, Answers
  <2>2. ASSUME AnswerFromCache(w) \/ ReadFails(w) \/ AnswerStored(w) \/ AnswerUnknown(w)
        PROVE  pc'[w] = "idle"
    BY <1>2, <2>2 DEF AnswerFromCache, ReadFails, AnswerStored, AnswerUnknown, Answers
  <2>3. CASE UNCHANGED <<pc, call>>
    BY <2>3
  <2>4. QED
    BY <2>1, <2>2, <2>3 DEF Next, vars, Tick, Reprice
<1>9. QED
  BY <1>3, <1>4, <1>5, <1>6, <1>7, <1>8

-----------------------------------------------------------------------------
(* The answers. *)

\* An answer stays what it was, is withdrawn, or is given by this step.
LEMMA AnswerSteps ==
    ASSUME TypeOK, [Next]_vars, NEW w \in Workers
    PROVE  \/ answer'[w] = answer[w]
           \/ answer'[w] = NoAnswer
           \/ AnswerFromCache(w) \/ AnswerStored(w) \/ AnswerUnknown(w)
<1>1. answer = [v \in Workers |-> answer[v]]
  BY DEF TypeOK
<1>2. ASSUME NEW v \in Workers, v # w,
             AnswerFromCache(v) \/ AnswerStored(v) \/ AnswerUnknown(v)
      PROVE  answer'[w] = answer[w]
  BY <1>1, <1>2 DEF AnswerFromCache, AnswerStored, AnswerUnknown, Answers
<1>3. ASSUME NEW v \in Workers, Miss(v)
      PROVE  answer'[w] = answer[w] \/ answer'[w] = NoAnswer
  BY <1>1, <1>3 DEF Miss
<1>4. CASE UNCHANGED answer
  BY <1>4
<1>5. QED
  BY <1>2, <1>3, <1>4 DEF Next, vars, Tick, Reprice, Read, ReadFails, Store

\* What the properties say of one answer.
PriceOK(w) ==
    answer[w].given /\ answer[w].result # NoPricing =>
       Held(inForce[ModelOf[w]], answer[w].result,
            answer[w].at - Ttl - MaxLatency, answer[w].at)
UnknownOK(w) ==
    answer[w].given /\ answer[w].result = NoPricing =>
       Held(inForce[ModelOf[w]], NoPricing, answer[w].began - MaxLatency, answer[w].at)

\* An entry that is good at a time was in force shortly before.
LEMMA GoodEntryIsRecent ==
    ASSUME TypeOK, NEW m \in Models, EntryOK(m), Hit(m)
    PROVE  /\ entries[m].result # NoPricing
           /\ Held(inForce[m], entries[m].result, now - Ttl - MaxLatency, now)
<1> DEFINE at == entries[m].loadedAt
           r == entries[m].result
<1>1. r # NoPricing /\ at <= now /\ Held(inForce[m], r, at - MaxLatency, at)
  BY DEF EntryOK, Hit
<1>2. now - at <= Ttl
  BY DEF Hit
<1>3. now \in Nat /\ at \in Nat /\ MaxLatency \in Nat /\ Ttl \in Nat
  BY TimesAreIntegers, ConstantTypes
<1> HIDE DEF at, r
<1>4. now - Ttl - MaxLatency <= at - MaxLatency
  BY <1>2, <1>3
<1>5. Held(inForce[m], r, now - Ttl - MaxLatency, now)
  BY <1>1, <1>3, <1>4, HeldGrows
<1>6. QED
  BY <1>1, <1>5 DEF r

\* Every step keeps both promises for every answer.
LEMMA AnswerNext ==
    ASSUME TypeOK, TypeOK', RowIsCurrent, [Next]_vars,
           \A m \in Models : EntryOK(m), \A v \in Workers : LookUpOK(v),
           NEW w \in Workers, PriceOK(w), UnknownOK(w)
    PROVE  PriceOK(w)' /\ UnknownOK(w)'
<1> DEFINE m == ModelOf[w]
<1>1. /\ now \in Nat /\ MaxLatency \in Nat /\ Ttl \in Nat /\ call[w].began \in Nat
      /\ answer[w].began \in Nat /\ answer[w].at \in Nat /\ m \in Models
  BY TimesAreIntegers, ConstantTypes
<1>2. inForce[m] \subseteq inForce'[m] /\ answer = [v \in Workers |-> answer[v]]
  BY <1>1, HistoryGrows DEF TypeOK
<1>3. CASE answer'[w] = answer[w]
  <2> DEFINE r == answer[w].result
             b == answer[w].began
             t == answer[w].at
             h == inForce[m]
             k == inForce'[m]
  <2>1. /\ PriceOK(w) <=> (answer[w].given /\ r # NoPricing =>
                              Held(h, r, t - Ttl - MaxLatency, t))
        /\ PriceOK(w)' <=> (answer[w].given /\ r # NoPricing =>
                              Held(k, r, t - Ttl - MaxLatency, t))
        /\ UnknownOK(w) <=> (answer[w].given /\ r = NoPricing =>
                              Held(h, NoPricing, b - MaxLatency, t))
        /\ UnknownOK(w)' <=> (answer[w].given /\ r = NoPricing =>
                              Held(k, NoPricing, b - MaxLatency, t))
    BY <1>3 DEF PriceOK, UnknownOK
  <2>2. /\ h \subseteq k /\ t \in Int /\ t - Ttl - MaxLatency \in Int
        /\ b - MaxLatency \in Int
    BY <1>1, <1>2
  <2> HIDE DEF r, b, t, h, k
  <2>3. /\ Held(h, r, t - Ttl - MaxLatency, t) => Held(k, r, t - Ttl - MaxLatency, t)
        /\ Held(h, NoPricing, b - MaxLatency, t) => Held(k, NoPricing, b - MaxLatency, t)
    BY <2>2, HeldGrows, <1>1
  <2>4. QED
    BY <2>1, <2>3
<1>4. CASE answer'[w] = NoAnswer
  BY <1>4 DEF NoAnswer, PriceOK, UnknownOK
<1>5. ASSUME NEW began, Hit(m), Answers(w, entries[m].result, began),
             inForce' = inForce
      PROVE  PriceOK(w)' /\ UnknownOK(w)'
  <2>1. answer'[w].result = entries[m].result /\ answer'[w].at = now
    BY <1>2, <1>5 DEF Answers
  <2>2. /\ entries[m].result # NoPricing
        /\ Held(inForce[m], entries[m].result, now - Ttl - MaxLatency, now)
    BY <1>1, <1>5, GoodEntryIsRecent
  <2>3. QED
    BY <1>5, <2>1, <2>2 DEF PriceOK, UnknownOK
<1>6. CASE AnswerUnknown(w)
  <2>1. /\ pc[w] = "reread" /\ ~Hit(m) /\ inForce' = inForce
        /\ answer'[w].result = NoPricing /\ answer'[w].began = call[w].began
        /\ answer'[w].at = now
    BY <1>2, <1>6 DEF AnswerUnknown, Answers
  <2>2. ~HasOwnEntry(w)
    BY <2>1, OwnEntryIsGood
  <2>3. Held(inForce[m], NoPricing, call[w].began - MaxLatency, now)
    BY <2>1, <2>2 DEF LookUpOK, Waits
  <2>4. QED
    BY <2>1, <2>3 DEF PriceOK, UnknownOK
<1>7. QED
  BY <1>3, <1>4, <1>5, <1>6, AnswerSteps DEF AnswerFromCache, AnswerStored

-----------------------------------------------------------------------------
(* The invariant and the theorems. *)

LEMMA InitInvariant == Init => CacheInvariant
<1> SUFFICES ASSUME Init PROVE CacheInvariant
  OBVIOUS
<1>1. RowIsCurrent
  BY DEF Init, RowIsCurrent
<1>2. \A m \in Models : EntryOK(m)
  BY DEF Init, EntryOK
<1>3. \A w \in Workers : LookUpOK(w)
  BY DEF Init, LookUpOK
<1>4. PriceIsRecent /\ UnknownIsRecent
  BY DEF Init, NoAnswer, PriceIsRecent, UnknownIsRecent
<1>5. QED
  BY <1>1, <1>2, <1>3, <1>4, InitType DEF CacheInvariant

LEMMA NextInvariant == CacheInvariant /\ [Next]_vars => CacheInvariant'
<1> SUFFICES ASSUME CacheInvariant, [Next]_vars PROVE CacheInvariant'
  OBVIOUS
<1>1. /\ TypeOK /\ RowIsCurrent
      /\ \A m \in Models : EntryOK(m)
      /\ \A w \in Workers : LookUpOK(w)
      /\ \A w \in Workers : PriceOK(w) /\ UnknownOK(w)
  BY DEF CacheInvariant, PriceIsRecent, UnknownIsRecent, PriceOK, UnknownOK
<1>2. TypeOK'
  BY <1>1, NextType
<1>3. RowIsCurrent'
  BY <1>1, HistoryGrows
<1>4. \A m \in Models : EntryOK(m)'
  BY <1>1, <1>2, EntryNext
<1>5. \A w \in Workers : LookUpOK(w)'
  BY <1>1, <1>2, LookUpNext
<1>6. \A w \in Workers : PriceOK(w)' /\ UnknownOK(w)'
  BY <1>1, <1>2, AnswerNext
<1>7. PriceIsRecent' /\ UnknownIsRecent'
  BY <1>6 DEF PriceIsRecent, UnknownIsRecent, PriceOK, UnknownOK
<1>8. QED
  BY <1>2, <1>3, <1>4, <1>5, <1>7 DEF CacheInvariant

\* Cache, look-ups and answers agree with the history of the table in every
\* reachable state.
THEOREM CacheInvariantHolds == Spec => []CacheInvariant
<1>1. Init => CacheInvariant
  BY InitInvariant
<1>2. CacheInvariant /\ [Next]_vars => CacheInvariant'
  BY NextInvariant
<1>3. QED
  BY <1>1, <1>2, PTL DEF Spec

\* No capture is charged at a price that was replaced more than Ttl + MaxLatency
\* before, whatever number of look-ups overlap (PricingCache.cs:49-96).
THEOREM PricesAreRecent == Spec => []PriceIsRecent
<1>1. CacheInvariant => PriceIsRecent
  BY DEF CacheInvariant
<1>2. QED
  BY <1>1, CacheInvariantHolds, PTL

\* No long-known model is answered as unknown, if the cache is read again within
\* the time to live of what was stored (PricingGrain.cs:54-55).
THEOREM KnownModelsStayKnown == Spec => []UnknownIsRecent
<1>1. CacheInvariant => UnknownIsRecent
  BY DEF CacheInvariant
<1>2. QED
  BY <1>1, CacheInvariantHolds, PTL
=============================================================================
