-------------------------- MODULE MCUserBudgetGrain --------------------------
(***************************************************************************)
(* Small instances of UserBudgetGrain for TLC.                             *)
(***************************************************************************)
EXTENDS UserBudgetLedger, FiniteSetsExt, TLC

\* CostOf is the sum of the costs, as the community modules define sums.
ASSUME CostOfIsTheSum ==
    \A rows \in SUBSET [id : {1, 2, 3}, cost : 0 .. 2] :
       CostOf(rows) = MapThenSumSet(LAMBDA e : e.cost, rows)

\* One caller, whose id CallerId.From leaves as it is.
OneKey == {"alice"}
TrimmedOne == "alice" :> "alice"

\* One activation of one grain; two of one grain.
OneSlot == "s1" :> "alice"
SplitBrain == "s1" :> "alice" @@ "s2" :> "alice"

Tokens(input, cacheRead) ==
    "input" :> input @@ "output" :> 0 @@ "cacheRead" :> cacheRead @@ "cacheWrite" :> 0
Quote(input, cacheRead) ==
    [input |-> input, output |-> 1, cacheRead |-> cacheRead, cacheWrite |-> NoPrice]

\* r1 carries a request id, r2 none.
OneRequest == {"r1"}
TwoRequests == {"r1", "r2"}
ToAlice == [r \in TwoRequests |-> "alice"]
ToAliceOnly == "r1" :> "alice"
FirstHasId == "r1" :> "id1" @@ "r2" :> "none"
OnlyId == "r1" :> "id1"

\* r1 costs 2, r2 costs 1.
TokensOfTwo == "r1" :> Tokens(1, 1) @@ "r2" :> Tokens(1, 0)
TokensOfOne == "r1" :> Tokens(1, 1)
QuotesOfOne == "r1" :> {Quote(1, 1)}

\* r2 costs 1, and its model may be unknown.
QuotesWithUnknown == "r1" :> {Quote(1, 1)} @@ "r2" :> {Quote(1, NoPrice), UnknownModel}

\* r3 carries no id either, and reports a negative count of a kind without a price.
ThreeRequests == TwoRequests \cup {"r3"}
AllToAlice == ToAlice @@ "r3" :> "alice"
OnlyFirstHasId == FirstHasId @@ "r3" :> "none"
TokensWithMalformed == TokensOfTwo @@ "r3" :> Tokens(1, -1)
QuotesOfThree == "r1" :> {Quote(1, 1)} @@ "r2" :> {Quote(1, NoPrice)} @@ "r3" :> {Quote(1, NoPrice)}

NoBudgets == {NoBudget}
SomeBudgets == {NoBudget, 0, 2}

\* Periods of one tick and of two; silos in step.
EveryTick == [t \in Times |-> t]
EveryTwoTicks == [t \in Times |-> t \div 2]
InStep == [s \in Slots |-> 0]
=============================================================================
