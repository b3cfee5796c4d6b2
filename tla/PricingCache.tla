----------------------------- MODULE PricingCache -----------------------------
(***************************************************************************)
(* What one silo knows about prices: the activations of the pricing grains *)
(* (stateless workers, many per model) and the cache they share            *)
(* (PricingGrain.cs, PricingCache.cs).  Silos share nothing but the        *)
(* database, so one silo is enough.                                        *)
(*                                                                         *)
(* A look-up is cut where its lock is released and at its await; `row' is  *)
(* the model_pricing table, which the refresh job rewrites at any time.    *)
(***************************************************************************)
EXTENDS Integers

CONSTANTS
    Models,
    Workers,        \* activations of pricing grains
    ModelOf,        \* [Workers -> Models], the grain's key
    Quotes,         \* contents of a row of model_pricing
    NoPricing,      \* no row; null
    Ttl,
    MaxLatency,     \* a look-up has its answer from the database within this time
    MaxPause,       \* ... and reads the cache again within this time
    MaxTime,        \* bound: the last tick
    MaxChanges      \* bound: rewrites of a price

ASSUME ModelsAssumption == ModelOf \in [Workers -> Models] /\ NoPricing \notin Quotes
ASSUME TimesAssumption == /\ {Ttl, MaxLatency, MaxPause, MaxTime, MaxChanges} \subseteq Nat
                          /\ MaxPause <= Ttl

VARIABLES
    now,
    row,            \* [Models -> Quotes or NoPricing]
    inForce,        \* history: which row held when
    changes,
    entries,        \* _entries
    pc,             \* [Workers -> where the look-up is]
    call,           \* [Workers -> when the look-up began and stored, what it has read]
    answer          \* [Workers -> the last answer, and when]

vars == <<now, row, inForce, changes, entries, pc, call, answer>>

Results == Quotes \cup {NoPricing}
NoEntry == [result |-> NoPricing, loadedAt |-> 0]
NoCall == [began |-> 0, stored |-> 0, result |-> NoPricing]
NoAnswer == [given |-> FALSE, result |-> NoPricing, began |-> 0, at |-> 0]

Init ==
    /\ now = 0
    /\ row \in [Models -> Results]
    /\ inForce = [m \in Models |-> {<<row[m], 0>>}]
    /\ changes = 0
    /\ entries = [m \in Models |-> NoEntry]
    /\ pc = [w \in Workers |-> "idle"]
    /\ call = [w \in Workers |-> NoCall]
    /\ answer = [w \in Workers |-> NoAnswer]

-----------------------------------------------------------------------------
\* Time passes, while no look-up is overdue.
Tick ==
    /\ now < MaxTime
    /\ \A w \in Workers :
          /\ pc[w] \in {"read", "store"} => now - call[w].began < MaxLatency
          /\ pc[w] = "reread" => now - call[w].stored < MaxPause
    /\ now' = now + 1
    /\ inForce' = [m \in Models |-> inForce[m] \cup {<<row[m], now + 1>>}]
    /\ UNCHANGED <<row, changes, entries, pc, call, answer>>

\* The refresh job replaces the row of a model, or drops it.
Reprice(m, q) ==
    /\ changes < MaxChanges
    /\ q # row[m]
    /\ row' = [row EXCEPT ![m] = q]
    /\ inForce' = [inForce EXCEPT ![m] = @ \cup {<<q, now>>}]
    /\ changes' = changes + 1
    /\ UNCHANGED <<now, entries, pc, call, answer>>

-----------------------------------------------------------------------------
(* PricingCache. *)

\* Mutant: an entry never expires.
Hit_Forever(m) == entries[m] # NoEntry

\* Get: an entry is good until its time to live is over.
Hit(m) == entries[m] # NoEntry /\ now - entries[m].loadedAt <= Ttl

\* Mutant: the time of arrival is not renewed.
Put_KeepsTime(m, result) ==
    entries' = [entries EXCEPT ![m] =
                   IF result = NoPricing THEN NoEntry
                   ELSE [result |-> result, loadedAt |-> entries[m].loadedAt]]

\* The end of RefreshAsync: a price is stored with the time of its arrival, an
\* unknown model loses its entry.
Put(m, result) ==
    entries' = [entries EXCEPT ![m] =
                   IF result = NoPricing THEN NoEntry
                   ELSE [result |-> result, loadedAt |-> now]]

-----------------------------------------------------------------------------
(* PricingGrain.GetPricingAsync. *)

Answers(w, result, began) ==
    /\ pc' = [pc EXCEPT ![w] = "idle"]
    /\ call' = [call EXCEPT ![w] = NoCall]
    /\ answer' = [answer EXCEPT ![w] = [given |-> TRUE, result |-> result,
                                        began |-> began, at |-> now]]

AnswerFromCache(w) ==
    /\ pc[w] = "idle"
    /\ Hit(ModelOf[w])
    /\ Answers(w, entries[ModelOf[w]].result, now)
    /\ UNCHANGED <<now, row, inForce, changes, entries>>

\* Get has removed what was expired.
Miss(w) ==
    /\ pc[w] = "idle"
    /\ ~Hit(ModelOf[w])
    /\ entries' = [entries EXCEPT ![ModelOf[w]] = NoEntry]
    /\ call' = [call EXCEPT ![w] = [NoCall EXCEPT !.began = now]]
    /\ pc' = [pc EXCEPT ![w] = "read"]
    /\ answer' = [answer EXCEPT ![w] = NoAnswer]
    /\ UNCHANGED <<now, row, inForce, changes>>

\* The database evaluates the query ...
Read(w) ==
    /\ pc[w] = "read"
    /\ call' = [call EXCEPT ![w].result = row[ModelOf[w]]]
    /\ pc' = [pc EXCEPT ![w] = "store"]
    /\ UNCHANGED <<now, row, inForce, changes, entries, answer>>

\* ... or throws; the exception reaches the capture.
ReadFails(w) ==
    /\ pc[w] \in {"read", "store"}
    /\ pc' = [pc EXCEPT ![w] = "idle"]
    /\ call' = [call EXCEPT ![w] = NoCall]
    /\ UNCHANGED <<now, row, inForce, changes, entries, answer>>

Store(w) ==
    /\ pc[w] = "store"
    /\ Put(ModelOf[w], call[w].result)
    /\ call' = [call EXCEPT ![w].stored = now]
    /\ pc' = [pc EXCEPT ![w] = "reread"]
    /\ UNCHANGED <<now, row, inForce, changes, answer>>

\* The answer is not what was read but what the cache holds by now.
AnswerStored(w) ==
    /\ pc[w] = "reread"
    /\ Hit(ModelOf[w])
    /\ Answers(w, entries[ModelOf[w]].result, call[w].began)
    /\ UNCHANGED <<now, row, inForce, changes, entries>>

AnswerUnknown(w) ==
    /\ pc[w] = "reread"
    /\ ~Hit(ModelOf[w])
    /\ entries' = [entries EXCEPT ![ModelOf[w]] = NoEntry]
    /\ Answers(w, NoPricing, call[w].began)
    /\ UNCHANGED <<now, row, inForce, changes>>

Next ==
    \/ Tick
    \/ \E m \in Models, q \in Results : Reprice(m, q)
    \/ \E w \in Workers :
          \/ AnswerFromCache(w)
          \/ Miss(w)
          \/ Read(w)
          \/ ReadFails(w)
          \/ Store(w)
          \/ AnswerStored(w)
          \/ AnswerUnknown(w)

Spec == Init /\ [][Next]_vars

-----------------------------------------------------------------------------
(* Properties. *)

Times == 0 .. MaxTime
PcValues == {"idle", "read", "store", "reread"}

\* The type invariant.
TypeOK ==
    /\ now \in Times
    /\ row \in [Models -> Results]
    /\ inForce \in [Models -> SUBSET (Results \X Times)]
    /\ changes \in 0 .. MaxChanges
    /\ entries \in [Models -> [result : Results, loadedAt : Times]]
    /\ pc \in [Workers -> PcValues]
    /\ call \in [Workers -> [began : Times, stored : Times, result : Results]]
    /\ answer \in [Workers -> [given : BOOLEAN, result : Results, began : Times, at : Times]]

\* The history h of a model's row has q at some time from first to last.
Held(h, q, first, last) == \E t \in first .. last : <<q, t>> \in h

\* A price a capture is charged at was in force not longer ago than the time to
\* live and one slow read, however look-ups of other captures overlap with it
\* (PricingCache.cs:49-96; the age counts from the arrival of the row).
PriceIsRecent ==
    \A w \in Workers : answer[w].given /\ answer[w].result # NoPricing =>
       Held(inForce[ModelOf[w]], answer[w].result,
            answer[w].at - Ttl - MaxLatency, answer[w].at)

\* A capture is refused for an unknown model only if the model had no row shortly
\* before the look-up began, or later: an entry that expires, or that another
\* look-up removes, between lines 54 and 55 of PricingGrain.cs does not make a
\* long-known model unknown.
UnknownIsRecent ==
    \A w \in Workers : answer[w].given /\ answer[w].result = NoPricing =>
       Held(inForce[ModelOf[w]], NoPricing, answer[w].began - MaxLatency, answer[w].at)

-----------------------------------------------------------------------------
(* The inductive invariant behind them. *)

RowIsCurrent == \A m \in Models : <<row[m], now>> \in inForce[m]

\* What the cache holds was read not long before it was stored.
EntryOK(m) ==
    entries[m] # NoEntry =>
       /\ entries[m].result # NoPricing
       /\ entries[m].loadedAt <= now
       /\ Held(inForce[m], entries[m].result,
               entries[m].loadedAt - MaxLatency, entries[m].loadedAt)

\* An entry not older than what w has stored is there.
HasOwnEntry(w) ==
    /\ entries[ModelOf[w]] # NoEntry
    /\ call[w].stored <= entries[ModelOf[w]].loadedAt

\* A look-up that is about to read the cache again finds an entry, or the model had
\* no row lately.
Waits(w) ==
    \/ HasOwnEntry(w)
    \/ Held(inForce[ModelOf[w]], NoPricing, call[w].began - MaxLatency, now)

\* Look-ups are not overdue, and what they have read held while they ran.
LookUpOK(w) ==
    /\ pc[w] \in {"read", "store"} =>
          call[w].began <= now /\ now - call[w].began <= MaxLatency
    /\ pc[w] = "store" => Held(inForce[ModelOf[w]], call[w].result, call[w].began, now)
    /\ pc[w] = "reread" =>
          /\ call[w].began <= call[w].stored
          /\ call[w].stored <= now /\ now - call[w].stored <= MaxPause
          /\ Waits(w)

\* The inductive invariant: cache, look-ups and answers agree with the history of
\* the table.
CacheInvariant ==
    /\ TypeOK
    /\ RowIsCurrent
    /\ \A m \in Models : EntryOK(m)
    /\ \A w \in Workers : LookUpOK(w)
    /\ PriceIsRecent
    /\ UnknownIsRecent

=============================================================================
