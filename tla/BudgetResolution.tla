--------------------------- MODULE BudgetResolution ---------------------------
(***************************************************************************)
(* How the effective budget of one caller in one period is read while it   *)
(* is edited: BudgetResolutionRepository.ResolveAsync with its three       *)
(* queries, and the repositories of overrides, group budgets and           *)
(* memberships, whose upserts read first and save later.  Every call has a *)
(* DbContext of its own, which ResolveAsync gets from BudgetStore.         *)
(*                                                                         *)
(* External: PostgreSQL at READ COMMITTED, where each query sees what is   *)
(* committed when it begins, with the unique indexes of                    *)
(* CostTrackerDbContext; EF Core, which updates a row by its primary key,  *)
(* throws when it is gone and sends nothing for a value that is the same.  *)
(***************************************************************************)
EXTENDS Naturals

CONSTANTS
    Groups,
    Amounts,
    Editors,        \* calls of UpsertAsync that may overlap
    MaxEdits        \* bound: edits

Override == "override"

ASSUME ResolutionAssumption ==
    Override \notin Groups /\ Amounts \subseteq Nat /\ MaxEdits \in Nat

\* What has a budget of its own: the caller, who has an override, and each group.
Keys == Groups \union {Override}

\* Id and amount; every insert gives a new id.
Row(id, amount) == [id |-> id, amount |-> amount]
NoRow == Row(0, 0)
StoredRows == {Row(id, a) : id \in 1..(MaxEdits + 1), a \in Amounts}

FromUserOverride(amount) == [source |-> "UserOverride", amount |-> amount]
FromGroup(amount, g) == [source |-> "Group", amount |-> amount, group |-> g]
None == [source |-> "None"]

VARIABLES
    rows,           \* user_budget_overrides and group_budgets: the row of each key
    members,        \* group_memberships: the caller's groups
    stage,          \* the query ResolveAsync waits for; "answered" when it is over
    groupIds,       \* its local
    answer,         \* its result
    upserts,        \* of each call of UpsertAsync: where it is, key, amount, row it read
    edits,
    during,         \* history: the tables as they were during ResolveAsync
    held            \* history: the rows of its key during an UpsertAsync

tables == <<rows, members>>
reader == <<stage, groupIds, answer>>
vars == <<rows, members, stage, groupIds, answer, upserts, edits, during, held>>

Upsert(at, key, amount, existing) ==
    [at |-> at, key |-> key, amount |-> amount, existing |-> existing]
NoUpsert == Upsert("idle", Override, 0, NoRow)

Tables == [rows |-> rows, members |-> members]

Init ==
    /\ rows \in [Keys -> {NoRow} \union {Row(1, a) : a \in Amounts}]
    /\ members \in SUBSET Groups
    /\ stage = "idle" /\ groupIds = {} /\ answer = None
    /\ upserts = [e \in Editors |-> NoUpsert]
    /\ edits = 0
    /\ during = {} /\ held = [e \in Editors |-> {}]

-------------------------------------------------------------------------------
(* EffectiveBudget.Resolve, the definition ResolveAsync is measured by.    *)

\* Of equal budgets, which one is the first is open.
Largest(r, gs) ==
    {g \in gs : r[g] # NoRow /\ \A h \in gs : r[h] # NoRow => r[h].amount <= r[g].amount}

Resolve(t) ==
    IF t.rows[Override] # NoRow THEN {FromUserOverride(t.rows[Override].amount)}
    ELSE IF \A g \in t.members : t.rows[g] = NoRow THEN {None}
    ELSE {FromGroup(t.rows[g].amount, g) : g \in Largest(t.rows, t.members)}

-------------------------------------------------------------------------------
(* A call of ResolveAsync; another one would be no different.              *)

\* Mutant: an override of zero is taken for none.
ReadOverride_Positive ==
    /\ stage = "idle"
    /\ during' = {Tables}
    /\ \/ /\ rows[Override].amount > 0
          /\ answer' = FromUserOverride(rows[Override].amount) /\ stage' = "answered"
       \/ /\ rows[Override].amount = 0
          /\ stage' = "memberships" /\ UNCHANGED answer
    /\ UNCHANGED <<tables, groupIds, upserts, edits, held>>
ReadOverride ==
    /\ stage = "idle"
    /\ during' = {Tables}
    /\ \/ /\ rows[Override] # NoRow
          /\ answer' = FromUserOverride(rows[Override].amount) /\ stage' = "answered"
       \/ /\ rows[Override] = NoRow
          /\ stage' = "memberships" /\ UNCHANGED answer
    /\ UNCHANGED <<tables, groupIds, upserts, edits, held>>

ReadMemberships ==
    /\ stage = "memberships"
    /\ groupIds' = members
    /\ \/ members = {} /\ answer' = None /\ stage' = "answered"
       \/ members # {} /\ stage' = "budgets" /\ UNCHANGED answer
    /\ UNCHANGED <<tables, upserts, edits, during, held>>

\* Mutants: the budgets of all groups are read; the first is taken, not the largest.
ReadGroupBudgets_OfAll ==
    /\ stage = "budgets" /\ stage' = "answered"
    /\ \/ (\A g \in Groups : rows[g] = NoRow) /\ answer' = None
       \/ \E g \in Largest(rows, Groups) : answer' = FromGroup(rows[g].amount, g)
    /\ UNCHANGED <<tables, groupIds, upserts, edits, during, held>>
ReadGroupBudgets_Unordered ==
    /\ stage = "budgets" /\ stage' = "answered"
    /\ \/ (\A g \in groupIds : rows[g] = NoRow) /\ answer' = None
       \/ \E g \in groupIds : rows[g] # NoRow /\ answer' = FromGroup(rows[g].amount, g)
    /\ UNCHANGED <<tables, groupIds, upserts, edits, during, held>>
ReadGroupBudgets ==
    /\ stage = "budgets" /\ stage' = "answered"
    /\ \/ (\A g \in groupIds : rows[g] = NoRow) /\ answer' = None
       \/ \E g \in Largest(rows, groupIds) : answer' = FromGroup(rows[g].amount, g)
    /\ UNCHANGED <<tables, groupIds, upserts, edits, during, held>>

\* A query throws; the caller gets no answer.
QueryFails ==
    /\ stage \in {"memberships", "budgets"}
    /\ stage' = "idle" /\ groupIds' = {} /\ during' = {}
    /\ UNCHANGED <<tables, answer, upserts, edits, held>>

-------------------------------------------------------------------------------
(* The edits.                                                              *)

Resolving == stage \in {"memberships", "budgets"}
Saving(e) == upserts[e].at = "saving"

\* What the calls under way get to see of a change.
Watched ==
    /\ during' = IF Resolving THEN during \union {Tables'} ELSE during
    /\ held' = [e \in Editors |->
                   IF Saving(e) THEN held[e] \union {rows'[upserts[e].key]} ELSE held[e]]

Edit == edits < MaxEdits /\ edits' = edits + 1

\* UpsertAsync of the override or of a group's budget, to its save.
\* Mutant: it does not look for the row it may replace.
BeginUpsert_Blind(e, k, a) ==
    /\ ~Saving(e) /\ Edit
    /\ upserts' = [upserts EXCEPT ![e] = Upsert("saving", k, a, NoRow)]
    /\ held' = [held EXCEPT ![e] = {rows[k]}]
    /\ UNCHANGED <<tables, reader, during>>
BeginUpsert(e, k, a) ==
    /\ ~Saving(e) /\ Edit
    /\ upserts' = [upserts EXCEPT ![e] = Upsert("saving", k, a, rows[k])]
    /\ held' = [held EXCEPT ![e] = {rows[k]}]
    /\ UNCHANGED <<tables, reader, during>>

Return(e, result) ==
    upserts' = [upserts EXCEPT ![e] = Upsert(result, @.key, @.amount, @.existing)]

NothingToSave(e) ==
    upserts[e].existing # NoRow /\ upserts[e].existing.amount = upserts[e].amount

\* The INSERT finds the key free; the UPDATE finds the row that was read.
RowIsAsRead(e) == rows[upserts[e].key].id = upserts[e].existing.id

StoreRow(e) ==
    LET u == upserts[e]
    IN  /\ Saving(e) /\ ~NothingToSave(e) /\ RowIsAsRead(e)
        /\ rows' = [rows EXCEPT ![u.key] =
                       Row(IF u.existing = NoRow THEN edits + 1 ELSE u.existing.id, u.amount)]
        /\ UNCHANGED <<members, reader, edits>>
        /\ Watched

SaveRow(e) == StoreRow(e) /\ Return(e, "saved")

SaveNothing(e) ==
    /\ Saving(e) /\ NothingToSave(e)
    /\ Return(e, "saved")
    /\ UNCHANGED <<tables, reader, edits, during, held>>

\* The unique index refuses the INSERT; the UPDATE finds no row.
\* Mutant: what the save throws is taken for success.
SaveRefused_Ignored(e) ==
    /\ Saving(e) /\ ~NothingToSave(e) /\ ~RowIsAsRead(e)
    /\ Return(e, "saved")
    /\ UNCHANGED <<tables, reader, edits, during, held>>
SaveRefused(e) ==
    /\ Saving(e) /\ ~NothingToSave(e) /\ ~RowIsAsRead(e)
    /\ Return(e, "refused")
    /\ UNCHANGED <<tables, reader, edits, during, held>>

\* The database fails before the commit, or after it.
SaveFails(e) ==
    /\ Saving(e)
    /\ Return(e, "failed")
    /\ UNCHANGED <<tables, reader, edits, during, held>>
SaveUnacknowledged(e) == StoreRow(e) /\ Return(e, "failed")

DeleteOverride ==
    /\ Edit
    /\ rows' = [rows EXCEPT ![Override] = NoRow]
    /\ UNCHANGED <<members, reader, upserts>>
    /\ Watched

\* Adding a membership there is throws, removing one there is not does nothing.
AddMembership(g) ==
    /\ Edit /\ g \notin members
    /\ members' = members \union {g}
    /\ UNCHANGED <<rows, reader, upserts>>
    /\ Watched

RemoveMembership(g) ==
    /\ Edit /\ g \in members
    /\ members' = members \ {g}
    /\ UNCHANGED <<rows, reader, upserts>>
    /\ Watched

-------------------------------------------------------------------------------

Next ==
    \/ ReadOverride
    \/ ReadMemberships
    \/ ReadGroupBudgets
    \/ QueryFails
    \/ \E e \in Editors :
          \/ \E k \in Keys, a \in Amounts : BeginUpsert(e, k, a)
          \/ SaveRow(e)
          \/ SaveNothing(e)
          \/ SaveRefused(e)
          \/ SaveFails(e)
          \/ SaveUnacknowledged(e)
    \/ DeleteOverride
    \/ \E g \in Groups : AddMembership(g) \/ RemoveMembership(g)

Spec == Init /\ [][Next]_vars

-------------------------------------------------------------------------------
(* Properties.                                                             *)

TypeOK ==
    /\ rows \in [Keys -> {NoRow} \union StoredRows]
    /\ members \subseteq Groups /\ groupIds \subseteq Groups
    /\ stage \in {"idle", "memberships", "budgets", "answered"}
    /\ answer \in {None} \union {FromUserOverride(a) : a \in Amounts}
                  \union {FromGroup(a, g) : a \in Amounts, g \in Groups}
    /\ upserts \in [Editors -> [at : {"idle", "saving", "saved", "refused", "failed"},
                                key : Keys, amount : Amounts \union {0},
                                existing : {NoRow} \union StoredRows]]
    /\ \A e \in Editors : Saving(e) => upserts[e].amount \in Amounts
    /\ edits \in 0..MaxEdits
    /\ held \in [Editors -> SUBSET ({NoRow} \union StoredRows)]
    /\ \A t \in during : t.rows \in [Keys -> {NoRow} \union StoredRows] /\ t.members \subseteq Groups

\* However edits fall between the three queries, ResolveAsync does not overlook a
\* budget the caller keeps: an override that stood all the time is the answer, and
\* without one the answer is not below what a group gave all the time
\* (BudgetResolutionRepository.cs:30-61).
KeptBudgetsCount ==
    stage = "answered" =>
       /\ (\A t \in during : t.rows[Override] # NoRow) => answer.source = "UserOverride"
       /\ \A g \in Groups :
             (\A t \in during : g \in t.members /\ t.rows[g] # NoRow) =>
                \/ answer.source = "UserOverride"
                \/ /\ answer.source = "Group"
                   /\ \E t \in during : t.rows[g].amount <= answer.amount

\* Nor does it make up one: an override, a group's budget and the membership it
\* comes from were there during the call, if not all at once.
NothingIsInvented ==
    stage = "answered" =>
       /\ answer.source = "UserOverride" =>
             \E t \in during : t.rows[Override] # NoRow /\ t.rows[Override].amount = answer.amount
       /\ answer.source = "Group" =>
             /\ \E t \in during : t.rows[Override] = NoRow
             /\ \E t \in during : answer.group \in t.members
             /\ \E t \in during :
                   t.rows[answer.group] # NoRow /\ t.rows[answer.group].amount = answer.amount

\* With one edit during the call, the answer is that of before or of after:
\* EffectiveBudget.Resolve gives it (EffectiveBudget.cs:54-73).
OneEditIsSeenWhole ==
    stage = "answered" /\ (\E t, u \in during : during = {t, u}) =>
       \E t \in during : answer \in Resolve(t)

\* An UpsertAsync that returns has had its amount in the table, whatever other
\* edits of the row it overlapped: no save overwrites a row it did not read and
\* none that is refused is taken for done.
UpsertTookEffect ==
    \A e \in Editors : upserts[e].at = "saved" =>
       \E r \in held[e] : r # NoRow /\ r.amount = upserts[e].amount

\* It is refused only if another edit came in between: with the row looked for
\* first (lines 34-36), the unique index is met in a race only.
RefusedIfOvertaken ==
    \A e \in Editors : upserts[e].at = "refused" =>
       \E q, r \in held[e] : q.id # r.id

\* What ResolveAsync knows: each query was answered from one of the tables it has met.
ReaderOK ==
    /\ stage = "idle" => during = {}
    /\ Resolving => Tables \in during /\ \E t \in during : t.rows[Override] = NoRow
    /\ stage = "budgets" => \E t \in during : groupIds = t.members

\* Two tables with one edit between them.
OneEditApart(t, u) ==
    \/ t.rows = u.rows
    \/ /\ t.members = u.members
       /\ \E k \in Keys : \A j \in Keys \ {k} : t.rows[j] = u.rows[j]
OneEditOK ==
    \A t, u \in during : during = {t, u} => OneEditApart(t, u)

\* What an upsert knows: it has met the row it read and the row there is.
UpsertOK(e) ==
    Saving(e) => upserts[e].existing \in held[e] /\ rows[upserts[e].key] \in held[e]

\* The inductive invariant.
ResolutionInvariant ==
    /\ TypeOK
    /\ ReaderOK
    /\ OneEditOK
    /\ \A e \in Editors : UpsertOK(e)
    /\ KeptBudgetsCount
    /\ NothingIsInvented
    /\ OneEditIsSeenWhole
    /\ UpsertTookEffect
    /\ RefusedIfOvertaken

\* BudgetResolutionRepository.cs:21-23: the budget of the caller is `per-user
\* override wins; otherwise the largest group budget; otherwise none'.
AnswerWasEffective ==
    stage = "answered" => \E t \in during : answer \in Resolve(t)
===============================================================================
