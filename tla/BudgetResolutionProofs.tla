------------------------ MODULE BudgetResolutionProofs ------------------------
(***************************************************************************)
(* Proofs about BudgetResolution: what an answer says of the tables, and   *)
(* an upsert's result of its row, for any groups, amounts and number of    *)
(* edits and editors.                                                      *)
(***************************************************************************)
EXTENDS BudgetResolution, TLAPS

\* What is said of ResolveAsync, and of the upserts.
ReaderPart ==
    /\ ReaderOK
    /\ OneEditOK
    /\ KeptBudgetsCount
    /\ NothingIsInvented
    /\ OneEditIsSeenWhole
UpsertPart ==
    /\ \A e \in Editors : UpsertOK(e)
    /\ UpsertTookEffect
    /\ RefusedIfOvertaken

\* What an edit is to ResolveAsync.
Edited ==
    /\ UNCHANGED reader
    /\ OneEditApart(Tables, Tables')
    /\ during' = IF Resolving THEN during \union {Tables'} ELSE during

LEMMA Parts == ResolutionInvariant <=> TypeOK /\ ReaderPart /\ UpsertPart
BY DEF ResolutionInvariant, ReaderPart, UpsertPart

LEMMA PartsNext ==
    ASSUME TypeOK', ReaderPart', UpsertPart'
    PROVE  ResolutionInvariant'
BY DEF ResolutionInvariant, ReaderPart, UpsertPart

-------------------------------------------------------------------------------
(* Edits and ResolveAsync.                                                 *)

\* The tables met so far and those after one more edit.
LEMMA OneMoreEdit ==
    ASSUME OneEditOK, Resolving, ReaderOK, Edited
    PROVE  OneEditOK'
<1>1. Tables \in during /\ during' = during \union {Tables'}
  BY DEF ReaderOK, Edited
<1>2. SUFFICES ASSUME NEW t \in during', NEW u \in during', during' = {t, u}
               PROVE  OneEditApart(t, u)
  BY DEF OneEditOK, OneEditApart
<1>3. OneEditApart(Tables, Tables')
  BY DEF Edited
<1>4. CASE Tables' \in during
  <2>1. during' = during
    BY <1>1, <1>4
  <2> QED  BY <1>2, <2>1 DEF OneEditOK
<1>5. CASE Tables' \notin during
  <2>1. {t, u} = {Tables, Tables'}
    BY <1>1, <1>2, <1>5
  <2>2. (t = Tables /\ u = Tables') \/ (u = Tables /\ t = Tables') \/ (t = u)
    BY <2>1
  <2>3. CASE t = Tables /\ u = Tables'
    BY <1>3, <2>3
  <2>4. CASE u = Tables /\ t = Tables'
    BY <1>3, <2>4 DEF OneEditApart
  <2>5. CASE t = u
    BY <2>5 DEF OneEditApart
  <2> QED  BY <2>2, <2>3, <2>4, <2>5
<1> QED  BY <1>4, <1>5

\* An edit leaves alone what is said of an answer that was given, and adds to what
\* a call under way has met.
LEMMA EditKeepsReader ==
    ASSUME ReaderPart, Edited
    PROVE  ReaderPart'
<1>1. CASE Resolving
  <2>1. OneEditOK'
    BY <1>1, OneMoreEdit DEF ReaderPart
  <2>2. stage' = stage /\ stage # "answered" /\ stage # "idle" /\ groupIds' = groupIds
    BY <1>1 DEF Edited, reader, Resolving
  <2>3. during' = during \union {Tables'}
    BY <1>1 DEF Edited
  <2>4. ReaderOK'
    BY <1>1, <2>2, <2>3 DEF ReaderPart, ReaderOK, Resolving
  <2> QED
    BY <2>1, <2>2, <2>4
    DEF ReaderPart, KeptBudgetsCount, NothingIsInvented, OneEditIsSeenWhole
<1>2. CASE ~Resolving
  <2>1. stage' = stage /\ answer' = answer /\ groupIds' = groupIds /\ during' = during
    BY <1>2 DEF Edited, reader
  <2>2. ReaderOK'
    BY <1>2, <2>1 DEF ReaderPart, ReaderOK, Resolving
  <2>3. OneEditOK'
    BY <2>1 DEF ReaderPart, OneEditOK
  <2>4. KeptBudgetsCount'
    BY <2>1 DEF ReaderPart, KeptBudgetsCount
  <2>5. NothingIsInvented'
    BY <2>1 DEF ReaderPart, NothingIsInvented
  <2>6. OneEditIsSeenWhole'
    BY <2>1 DEF ReaderPart, OneEditIsSeenWhole
  <2> QED  BY <2>2, <2>3, <2>4, <2>5, <2>6 DEF ReaderPart
<1> QED  BY <1>1, <1>2

LEMMA QuietKeepsReader ==
    ASSUME ReaderPart, UNCHANGED <<tables, reader, during>>
    PROVE  ReaderPart'
<1>1. /\ stage' = stage /\ answer' = answer /\ groupIds' = groupIds /\ during' = during
      /\ rows' = rows /\ members' = members
  BY DEF tables, reader
<1>2. ReaderOK'
  BY <1>1 DEF ReaderPart, ReaderOK, Resolving, Tables
<1>3. OneEditOK'
  BY <1>1 DEF ReaderPart, OneEditOK
<1>4. KeptBudgetsCount'
  BY <1>1 DEF ReaderPart, KeptBudgetsCount
<1>5. NothingIsInvented'
  BY <1>1 DEF ReaderPart, NothingIsInvented
<1>6. OneEditIsSeenWhole'
  BY <1>1 DEF ReaderPart, OneEditIsSeenWhole
<1> QED  BY <1>2, <1>3, <1>4, <1>5, <1>6 DEF ReaderPart

-------------------------------------------------------------------------------
(* The answers.                                                            *)

LEMMA AfterReadOverride ==
    ASSUME TypeOK, ReaderPart, ReadOverride
    PROVE  ReaderPart'
<1>1. /\ during' = {Tables} /\ Tables' = Tables
      /\ groupIds' = groupIds /\ Tables.rows = rows
  BY DEF ReadOverride, Tables, tables
<1>2. OneEditOK'
  BY <1>1 DEF OneEditOK, OneEditApart
<1>3. CASE rows[Override] # NoRow
  <2>1. answer' = FromUserOverride(rows[Override].amount) /\ stage' = "answered"
    BY <1>3 DEF ReadOverride
  <2>2. answer'.source = "UserOverride" /\ answer'.amount = rows[Override].amount
    BY <2>1 DEF FromUserOverride
  <2>3. ReaderOK'
    BY <2>1 DEF ReaderOK, Resolving
  <2>4. KeptBudgetsCount'
    BY <2>2 DEF KeptBudgetsCount
  <2>5. NothingIsInvented'
    BY <1>1, <1>3, <2>2 DEF NothingIsInvented
  <2>6. OneEditIsSeenWhole'
    <3>1. answer' \in Resolve(Tables)
      BY <1>1, <1>3, <2>1 DEF Resolve
    <3> QED  BY <1>1, <3>1 DEF OneEditIsSeenWhole, Resolve
  <2> QED  BY <1>2, <2>3, <2>4, <2>5, <2>6 DEF ReaderPart
<1>4. CASE rows[Override] = NoRow
  <2>1. stage' = "memberships"
    BY <1>4 DEF ReadOverride
  <2>2. ReaderOK'
    BY <1>1, <1>4, <2>1 DEF ReaderOK, Resolving
  <2> QED
    BY <1>2, <2>1, <2>2
    DEF ReaderPart, KeptBudgetsCount, NothingIsInvented, OneEditIsSeenWhole
<1> QED  BY <1>3, <1>4

LEMMA AfterReadMemberships ==
    ASSUME TypeOK, ReaderPart, ReadMemberships
    PROVE  ReaderPart'
<1>1. /\ during' = during /\ Tables' = Tables /\ groupIds' = members /\ stage = "memberships"
      /\ Tables.rows = rows /\ Tables.members = members
  BY DEF ReadMemberships, Tables, tables
<1>2. Tables \in during
  BY <1>1 DEF ReaderPart, ReaderOK, Resolving
<1>3. PICK v \in during : v.rows[Override] = NoRow
  BY <1>1 DEF ReaderPart, ReaderOK, Resolving
<1>4. OneEditOK'
  BY <1>1 DEF ReaderPart, OneEditOK
<1>5. CASE members = {}
  <2>1. answer' = None /\ stage' = "answered"
    BY <1>5 DEF ReadMemberships
  <2>2. answer'.source = "None"
    BY <2>1 DEF None
  <2>3. ReaderOK'
    BY <2>1 DEF ReaderOK, Resolving
  <2>4. KeptBudgetsCount'
    BY <1>1, <1>2, <1>3, <1>5, <2>1 DEF KeptBudgetsCount
  <2>5. NothingIsInvented'
    BY <2>2 DEF NothingIsInvented
  <2>6. OneEditIsSeenWhole'
    <3>1. SUFFICES ASSUME NEW t \in during, NEW u \in during, during = {t, u}
                   PROVE  \E w \in during : None \in Resolve(w)
      BY <1>1, <2>1 DEF OneEditIsSeenWhole, Resolve
    <3>2. OneEditApart(v, Tables)
      <4>1. OneEditApart(t, u)
        BY <3>1 DEF ReaderPart, OneEditOK
      <4> QED  BY <1>2, <1>3, <3>1, <4>1 DEF OneEditApart
    <3>3. CASE v.rows = Tables.rows
      BY <1>1, <1>2, <1>3, <1>5, <3>3 DEF Resolve
    <3>4. CASE v.members = Tables.members
      BY <1>1, <1>3, <1>5, <3>4 DEF Resolve
    <3> QED  BY <3>2, <3>3, <3>4 DEF OneEditApart
  <2> QED  BY <1>4, <2>3, <2>4, <2>5, <2>6 DEF ReaderPart
<1>6. CASE members # {}
  <2>1. stage' = "budgets"
    BY <1>6 DEF ReadMemberships
  <2>2. ReaderOK'
    BY <1>1, <1>2, <1>3, <2>1 DEF ReaderOK, Resolving
  <2> QED
    BY <1>4, <2>1, <2>2
    DEF ReaderPart, KeptBudgetsCount, NothingIsInvented, OneEditIsSeenWhole
<1> QED  BY <1>5, <1>6

LEMMA AfterReadGroupBudgets ==
    ASSUME ResolutionAssumption, TypeOK, ReaderPart, ReadGroupBudgets
    PROVE  ReaderPart'
<1>1. /\ during' = during /\ stage = "budgets" /\ stage' = "answered"
      /\ Tables.rows = rows /\ Tables.members = members
  BY DEF ReadGroupBudgets, Tables
<1>2. Tables \in during
  BY <1>1 DEF ReaderPart, ReaderOK, Resolving
<1>3. PICK v \in during : v.rows[Override] = NoRow
  BY <1>1 DEF ReaderPart, ReaderOK, Resolving
<1>4. PICK w \in during : groupIds = w.members
  BY <1>1 DEF ReaderPart, ReaderOK
<1>5. OneEditOK'
  BY <1>1 DEF ReaderPart, OneEditOK
<1>6. ReaderOK'
  BY <1>1 DEF ReaderOK, Resolving
\* With one edit, the three queries were answered as from one table.
<1>7. ASSUME NEW t \in during, NEW u \in during, during = {t, u}
      PROVE  \E x \in during :
                /\ x.rows[Override] = NoRow /\ x.members = groupIds
                /\ \A g \in Groups : x.rows[g] = rows[g]
  <2>1. \A x, y \in during : OneEditApart(x, y)
    <3>1. OneEditApart(t, u)
      BY <1>7 DEF ReaderPart, OneEditOK
    <3> QED  BY <1>7, <3>1 DEF OneEditApart
  <2>2. OneEditApart(v, Tables) /\ OneEditApart(w, Tables) /\ OneEditApart(v, w)
    BY <1>2, <1>3, <1>4, <2>1
  <2>3. CASE v.rows = Tables.rows /\ w.rows = Tables.rows
    BY <1>1, <1>3, <1>4, <2>3
  <2>4. CASE v.rows # Tables.rows
    <3>1. v.members = Tables.members
      BY <2>2, <2>4 DEF OneEditApart
    <3>2. during = {v, Tables}
      BY <1>2, <1>3, <1>7, <2>4
    <3>3. w.members = members
      BY <1>1, <1>4, <3>1, <3>2
    <3>4. PICK k \in Keys : \A j \in Keys \ {k} : v.rows[j] = Tables.rows[j]
      BY <2>2, <2>4 DEF OneEditApart
    <3>5. Override \in Keys /\ Groups \subseteq Keys /\ Override \notin Groups
      BY DEF Keys, ResolutionAssumption
    <3>6. CASE k = Override
      BY <1>1, <1>3, <1>4, <3>1, <3>3, <3>4, <3>5, <3>6
    <3>7. CASE k # Override
      BY <1>1, <1>2, <1>3, <1>4, <3>3, <3>4, <3>5, <3>7
    <3> QED  BY <3>6, <3>7
  <2>5. CASE v.rows = Tables.rows /\ w.rows # Tables.rows
    <3>1. w.members = Tables.members
      BY <2>2, <2>5 DEF OneEditApart
    <3> QED  BY <1>1, <1>2, <1>3, <1>4, <2>5, <3>1
  <2> QED  BY <2>3, <2>4, <2>5
<1>8. groupIds \subseteq Groups
  BY DEF TypeOK
<1>9. CASE (\A g \in groupIds : rows[g] = NoRow) /\ answer' = None
  <2>1. answer'.source = "None"
    BY <1>9 DEF None
  <2>2. KeptBudgetsCount'
    BY <1>1, <1>2, <1>3, <1>4, <1>9 DEF KeptBudgetsCount
  <2>3. NothingIsInvented'
    BY <2>1 DEF NothingIsInvented
  <2>4. OneEditIsSeenWhole'
    <3>1. SUFFICES ASSUME NEW t \in during, NEW u \in during, during = {t, u}
                   PROVE  \E x \in during : None \in Resolve(x)
      BY <1>1, <1>9 DEF OneEditIsSeenWhole, Resolve
    <3>2. PICK x \in during : /\ x.rows[Override] = NoRow /\ x.members = groupIds
                              /\ \A g \in Groups : x.rows[g] = rows[g]
      BY <1>7, <3>1
    <3>3. \A g \in x.members : x.rows[g] = NoRow
      BY <1>8, <1>9, <3>2
    <3> QED  BY <3>2, <3>3 DEF Resolve
  <2> QED  BY <1>5, <1>6, <2>2, <2>3, <2>4 DEF ReaderPart
<1>10. ASSUME NEW g \in Largest(rows, groupIds), answer' = FromGroup(rows[g].amount, g)
       PROVE  ReaderPart'
  <2>1. /\ answer'.source = "Group" /\ answer'.amount = rows[g].amount /\ answer'.group = g
        /\ answer'.source # "UserOverride"
    BY <1>10 DEF FromGroup
  <2>2. /\ g \in groupIds /\ rows[g] # NoRow
        /\ \A h \in groupIds : rows[h] # NoRow => rows[h].amount <= rows[g].amount
    BY <1>10 DEF Largest
  <2>3. KeptBudgetsCount'
    <3>1. ~\A t \in during : t.rows[Override] # NoRow
      BY <1>3
    <3>2. ASSUME NEW h \in Groups, \A t \in during : h \in t.members /\ t.rows[h] # NoRow
          PROVE  \E t \in during : t.rows[h].amount <= answer'.amount
      <4>1. h \in groupIds /\ rows[h] # NoRow
        BY <1>1, <1>2, <1>4, <3>2
      <4> QED  BY <1>1, <1>2, <2>1, <2>2, <4>1
    <3> QED  BY <1>1, <2>1, <3>1, <3>2 DEF KeptBudgetsCount
  <2>4. NothingIsInvented'
    BY <1>1, <1>2, <1>3, <1>4, <2>1, <2>2 DEF NothingIsInvented
  <2>5. OneEditIsSeenWhole'
    <3>1. SUFFICES ASSUME NEW t \in during, NEW u \in during, during = {t, u}
                   PROVE  \E x \in during : FromGroup(rows[g].amount, g) \in Resolve(x)
      BY <1>1, <1>10 DEF OneEditIsSeenWhole, Resolve
    <3>2. PICK x \in during : /\ x.rows[Override] = NoRow /\ x.members = groupIds
                              /\ \A h \in Groups : x.rows[h] = rows[h]
      BY <1>7, <3>1
    <3>3. x.rows[g] = rows[g] /\ g \in x.members /\ x.rows[g] # NoRow
      BY <1>8, <2>2, <3>2
    <3>4. g \in Largest(x.rows, x.members)
      BY <1>8, <2>2, <3>2, <3>3 DEF Largest
    <3> QED  BY <3>2, <3>3, <3>4 DEF Resolve
  <2> QED  BY <1>5, <1>6, <2>3, <2>4, <2>5 DEF ReaderPart
<1> QED  BY <1>9, <1>10 DEF ReadGroupBudgets

LEMMA AfterQueryFails ==
    ASSUME ReaderPart, QueryFails
    PROVE  ReaderPart'
BY DEF QueryFails, ReaderPart, ReaderOK, Resolving, OneEditOK, KeptBudgetsCount,
       NothingIsInvented, OneEditIsSeenWhole

-------------------------------------------------------------------------------
(* Upserts.                                                                *)

LEMMA Fields ==
    /\ \A at, k, a, x : /\ Upsert(at, k, a, x).at = at /\ Upsert(at, k, a, x).key = k
                        /\ Upsert(at, k, a, x).amount = a /\ Upsert(at, k, a, x).existing = x
    /\ \A id, a : Row(id, a).id = id /\ Row(id, a).amount = a
    /\ NoRow.id = 0
BY DEF Upsert, Row, NoRow

\* What is said of one call, the properties among it.
CallPart(e) ==
    /\ UpsertOK(e)
    /\ upserts[e].at = "saved" =>
          \E r \in held[e] : r # NoRow /\ r.amount = upserts[e].amount
    /\ upserts[e].at = "refused" => \E q, r \in held[e] : q.id # r.id

LEMMA CallParts == UpsertPart <=> \A e \in Editors : CallPart(e)
BY DEF UpsertPart, CallPart, UpsertTookEffect, RefusedIfOvertaken

LEMMA CallPartsNext ==
    ASSUME \A e \in Editors : CallPart(e)'
    PROVE  UpsertPart'
BY DEF UpsertPart, CallPart, UpsertTookEffect, RefusedIfOvertaken

\* A call that goes on meets the row others make of its own.
LEMMA WatchedCall ==
    ASSUME NEW e \in Editors, CallPart(e), Watched, upserts'[e] = upserts[e]
    PROVE  CallPart(e)'
<1>1. held'[e] = IF Saving(e) THEN held[e] \union {rows'[upserts[e].key]} ELSE held[e]
  BY DEF Watched
<1>2. CASE Saving(e)
  BY <1>1, <1>2 DEF CallPart, UpsertOK, Saving
<1>3. CASE ~Saving(e)
  BY <1>1, <1>3 DEF CallPart, UpsertOK, Saving
<1> QED  BY <1>2, <1>3

LEMMA QuietCall ==
    ASSUME NEW e \in Editors, CallPart(e), UNCHANGED rows,
           upserts'[e] = upserts[e], held'[e] = held[e]
    PROVE  CallPart(e)'
BY DEF CallPart, UpsertOK, Saving

LEMMA CallBegins ==
    ASSUME TypeOK, NEW e \in Editors, NEW k \in Keys, NEW a \in Amounts, BeginUpsert(e, k, a)
    PROVE  CallPart(e)'
<1>1. upserts'[e] = Upsert("saving", k, a, rows[k]) /\ held'[e] = {rows[k]} /\ rows' = rows
  <2>1. e \in DOMAIN upserts
    BY DEF TypeOK
  <2>2. e \in DOMAIN held
    BY DEF TypeOK
  <2> QED  BY <2>1, <2>2 DEF BeginUpsert, tables
<1> QED  BY <1>1, Fields DEF CallPart, UpsertOK, Saving

LEMMA CallReturns ==
    ASSUME TypeOK, NEW e \in Editors, NEW result, Return(e, result)
    PROVE  /\ upserts'[e].at = result /\ upserts'[e].key = upserts[e].key
           /\ upserts'[e].amount = upserts[e].amount
           /\ \A d \in Editors \ {e} : upserts'[d] = upserts[d]
<1>1. upserts'[e] = Upsert(result, upserts[e].key, upserts[e].amount, upserts[e].existing)
  BY DEF Return, TypeOK
<1> QED  BY <1>1, Fields DEF Return, TypeOK

LEMMA RowIsStored ==
    ASSUME TypeOK, NEW e \in Editors, StoreRow(e)
    PROVE  \E r \in held'[e] : r # NoRow /\ r.amount = upserts[e].amount
<1>1. PICK id \in Nat : /\ id # 0
                        /\ rows'[upserts[e].key] = Row(id, upserts[e].amount)
  <2>1. upserts[e].key \in Keys /\ edits \in Nat
    BY DEF TypeOK
  <2>2. upserts[e].existing = NoRow \/ (upserts[e].existing.id \in Nat /\ upserts[e].existing.id # 0)
    BY Fields DEF TypeOK, StoredRows
  <2>3. DOMAIN rows = Keys
    BY DEF TypeOK
  <2>4. CASE upserts[e].existing = NoRow
    BY <2>1, <2>3, <2>4 DEF StoreRow
  <2>5. CASE upserts[e].existing # NoRow
    BY <2>1, <2>2, <2>3, <2>5 DEF StoreRow
  <2> QED  BY <2>4, <2>5
<1>2. rows'[upserts[e].key] \in held'[e]
  BY DEF StoreRow, Watched
<1> QED  BY <1>1, <1>2, Fields

LEMMA OthersCalls ==
    ASSUME TypeOK, \A c \in Editors : CallPart(c), NEW e \in Editors, NEW d \in Editors, d # e,
           \/ \E k \in Keys, a \in Amounts : BeginUpsert(e, k, a)
           \/ SaveRow(e) \/ SaveNothing(e) \/ SaveRefused(e) \/ SaveFails(e)
           \/ SaveUnacknowledged(e)
    PROVE  CallPart(d)'
<1>1. CallPart(d)
  OBVIOUS
<1>2. upserts'[d] = upserts[d]
  <2>1. CASE \E k \in Keys, a \in Amounts : BeginUpsert(e, k, a)
    BY <2>1 DEF BeginUpsert, TypeOK
  <2>2. CASE SaveRow(e) \/ SaveNothing(e) \/ SaveRefused(e) \/ SaveFails(e) \/ SaveUnacknowledged(e)
    BY <2>2, CallReturns DEF SaveRow, SaveNothing, SaveRefused, SaveFails, SaveUnacknowledged
  <2> QED  BY <2>1, <2>2
<1>3. CASE SaveRow(e) \/ SaveUnacknowledged(e)
  BY <1>1, <1>2, <1>3, WatchedCall DEF SaveRow, SaveUnacknowledged, StoreRow
<1>4. CASE SaveNothing(e) \/ SaveRefused(e) \/ SaveFails(e)
  BY <1>1, <1>2, <1>4, QuietCall DEF SaveNothing, SaveRefused, SaveFails, tables
<1>5. CASE \E k \in Keys, a \in Amounts : BeginUpsert(e, k, a)
  <2>1. held'[d] = held[d] /\ rows' = rows
    BY <1>5 DEF BeginUpsert, tables
  <2> QED  BY <1>1, <1>2, <2>1, QuietCall
<1> QED  BY <1>3, <1>4, <1>5

LEMMA OwnCall ==
    ASSUME TypeOK, \A d \in Editors : CallPart(d), NEW e \in Editors,
           SaveRow(e) \/ SaveNothing(e) \/ SaveRefused(e) \/ SaveFails(e) \/ SaveUnacknowledged(e)
    PROVE  CallPart(e)'
<1>1. CallPart(e)
  OBVIOUS
<1>2. CASE SaveRow(e)
  BY <1>2, CallReturns, RowIsStored DEF SaveRow, CallPart, UpsertOK, Saving
<1>3. CASE SaveNothing(e)
  <2>1. upserts[e].existing \in held[e] /\ upserts[e].existing # NoRow
        /\ upserts[e].existing.amount = upserts[e].amount /\ held' = held
    BY <1>1, <1>3 DEF SaveNothing, NothingToSave, CallPart, UpsertOK
  <2> QED  BY <1>3, <2>1, CallReturns DEF SaveNothing, CallPart, UpsertOK, Saving
<1>4. CASE SaveRefused(e)
  <2>1. /\ upserts[e].existing \in held[e] /\ rows[upserts[e].key] \in held[e] /\ held' = held
        /\ rows[upserts[e].key].id # upserts[e].existing.id
    BY <1>1, <1>4 DEF SaveRefused, RowIsAsRead, CallPart, UpsertOK
  <2> QED  BY <1>4, <2>1, CallReturns DEF SaveRefused, CallPart, UpsertOK, Saving
<1>5. CASE SaveFails(e) \/ SaveUnacknowledged(e)
  BY <1>5, CallReturns DEF SaveFails, SaveUnacknowledged, CallPart, UpsertOK, Saving
<1> QED  BY <1>2, <1>3, <1>4, <1>5

-------------------------------------------------------------------------------
(* Types.                                                                  *)

LEMMA RowType ==
    ASSUME NEW id \in 1..(MaxEdits + 1), NEW a \in Amounts
    PROVE  Row(id, a) \in StoredRows
BY DEF StoredRows

\* Edits bring rows and memberships of their types, and so do the histories of them.
LEMMA EditedTypes ==
    ASSUME TypeOK, Watched,
           rows' \in [Keys -> {NoRow} \union StoredRows], members' \subseteq Groups
    PROVE  /\ held' \in [Editors -> SUBSET ({NoRow} \union StoredRows)]
           /\ \A t \in during' : t.rows \in [Keys -> {NoRow} \union StoredRows] /\ t.members \subseteq Groups
<1>1. Tables'.rows = rows' /\ Tables'.members = members'
  BY DEF Tables
<1>2. \A e \in Editors : rows'[upserts[e].key] \in {NoRow} \union StoredRows
  BY DEF TypeOK
<1> QED  BY <1>1, <1>2 DEF TypeOK, Watched

LEMMA EditCounts ==
    ASSUME ResolutionAssumption, TypeOK, Edit
    PROVE  edits' \in 0..MaxEdits
BY DEF ResolutionAssumption, TypeOK, Edit

LEMMA TypeOfRead ==
    ASSUME ResolutionAssumption, TypeOK,
           ReadOverride \/ ReadMemberships \/ ReadGroupBudgets \/ QueryFails
    PROVE  TypeOK'
<1>1. rows' = rows /\ members' = members /\ upserts' = upserts /\ edits' = edits /\ held' = held
  BY DEF ReadOverride, ReadMemberships, ReadGroupBudgets, QueryFails, tables
<1>2. stage' \in {"idle", "memberships", "budgets", "answered"} /\ groupIds' \subseteq Groups
  BY DEF TypeOK, ReadOverride, ReadMemberships, ReadGroupBudgets, QueryFails
<1>3. \A k \in Keys : rows[k] # NoRow => rows[k].amount \in Amounts
  BY Fields DEF TypeOK, StoredRows
<1>4. answer' \in {None} \union {FromUserOverride(a) : a \in Amounts}
                  \union {FromGroup(a, g) : a \in Amounts, g \in Groups}
  <2>1. CASE ReadOverride
    BY <1>3, <2>1 DEF TypeOK, ReadOverride, Keys
  <2>2. CASE ReadMemberships \/ QueryFails
    BY <2>2 DEF TypeOK, ReadMemberships, QueryFails
  <2>3. CASE ReadGroupBudgets
    <3>1. CASE answer' = None
      BY <3>1
    <3>2. CASE \E g \in Largest(rows, groupIds) : answer' = FromGroup(rows[g].amount, g)
      <4>1. PICK g \in Largest(rows, groupIds) : answer' = FromGroup(rows[g].amount, g)
        BY <3>2
      <4>2. g \in Groups /\ rows[g].amount \in Amounts
        BY <1>3, <4>1 DEF Largest, TypeOK, Keys
      <4> QED  BY <4>1, <4>2
    <3> QED  BY <2>3, <3>1, <3>2 DEF ReadGroupBudgets
  <2> QED  BY <2>1, <2>2, <2>3
<1>5. \A t \in during' : t.rows \in [Keys -> {NoRow} \union StoredRows] /\ t.members \subseteq Groups
  <2>1. Tables.rows = rows /\ Tables.members = members
    BY DEF Tables
  <2>2. during' \subseteq during \union {Tables}
    BY DEF ReadOverride, ReadMemberships, ReadGroupBudgets, QueryFails
  <2> QED  BY <2>1, <2>2 DEF TypeOK
<1> QED  BY <1>1, <1>2, <1>4, <1>5 DEF TypeOK, Saving

LEMMA TypeOfBegin ==
    ASSUME ResolutionAssumption, TypeOK,
           NEW e \in Editors, NEW k \in Keys, NEW a \in Amounts, BeginUpsert(e, k, a)
    PROVE  TypeOK'
<1>1. /\ rows' = rows /\ members' = members /\ stage' = stage /\ groupIds' = groupIds
      /\ answer' = answer /\ during' = during
  BY DEF BeginUpsert, tables, reader
<1>2. edits' \in 0..MaxEdits
  BY EditCounts DEF BeginUpsert
<1>3. rows[k] \in {NoRow} \union StoredRows
  BY DEF TypeOK
<1>4. upserts' = [upserts EXCEPT ![e] = Upsert("saving", k, a, rows[k])]
  BY DEF BeginUpsert
<1>5. upserts' \in [Editors -> [at : {"idle", "saving", "saved", "refused", "failed"},
                                key : Keys, amount : Amounts \union {0},
                                existing : {NoRow} \union StoredRows]]
  BY <1>3, <1>4 DEF TypeOK, Upsert
<1>6. \A d \in Editors : Saving(d)' => upserts'[d].amount \in Amounts
  BY <1>4, Fields DEF TypeOK, Saving
<1>7. held' \in [Editors -> SUBSET ({NoRow} \union StoredRows)]
  BY <1>3 DEF TypeOK, BeginUpsert
<1> QED  BY <1>1, <1>2, <1>5, <1>6, <1>7 DEF TypeOK

LEMMA TypeOfReturn ==
    ASSUME TypeOK, NEW e \in Editors, NEW result \in {"saved", "refused", "failed"},
           Return(e, result)
    PROVE  /\ upserts' \in [Editors -> [at : {"idle", "saving", "saved", "refused", "failed"},
                                        key : Keys, amount : Amounts \union {0},
                                        existing : {NoRow} \union StoredRows]]
           /\ \A d \in Editors : Saving(d)' => upserts'[d].amount \in Amounts
<1>1. upserts' = [upserts EXCEPT ![e] = Upsert(result, upserts[e].key, upserts[e].amount,
                                               upserts[e].existing)]
  BY DEF Return
<1>2. /\ upserts[e].key \in Keys /\ upserts[e].amount \in Amounts \union {0}
      /\ upserts[e].existing \in {NoRow} \union StoredRows
  BY DEF TypeOK
<1> QED  BY <1>1, <1>2, Fields DEF TypeOK, Saving, Upsert

LEMMA TypeOfStore ==
    ASSUME ResolutionAssumption, TypeOK, NEW e \in Editors, SaveRow(e) \/ SaveUnacknowledged(e)
    PROVE  TypeOK'
<1>1. /\ members' = members /\ stage' = stage /\ groupIds' = groupIds
      /\ answer' = answer /\ edits' = edits /\ Watched /\ StoreRow(e)
  BY DEF SaveRow, SaveUnacknowledged, StoreRow, reader
<1>2. rows' \in [Keys -> {NoRow} \union StoredRows]
  <2>1. upserts[e].amount \in Amounts /\ edits + 1 \in 1..(MaxEdits + 1)
    BY <1>1 DEF TypeOK, StoreRow, ResolutionAssumption
  <2>2. upserts[e].existing = NoRow \/ upserts[e].existing.id \in 1..(MaxEdits + 1)
    BY Fields DEF TypeOK, StoredRows
  <2>3. PICK id \in 1..(MaxEdits + 1) :
           rows' = [rows EXCEPT ![upserts[e].key] = Row(id, upserts[e].amount)]
    <3>1. CASE upserts[e].existing = NoRow
      BY <1>1, <2>1, <3>1 DEF StoreRow
    <3>2. CASE upserts[e].existing # NoRow
      BY <1>1, <2>2, <3>2 DEF StoreRow
    <3> QED  BY <3>1, <3>2
  <2>4. Row(id, upserts[e].amount) \in StoredRows
    BY <2>1, <2>3, RowType
  <2> QED  BY <2>3, <2>4 DEF TypeOK
<1>3. /\ upserts' \in [Editors -> [at : {"idle", "saving", "saved", "refused", "failed"},
                                   key : Keys, amount : Amounts \union {0},
                                   existing : {NoRow} \union StoredRows]]
      /\ \A d \in Editors : Saving(d)' => upserts'[d].amount \in Amounts
  BY TypeOfReturn DEF SaveRow, SaveUnacknowledged
<1>4. members' \subseteq Groups
  BY <1>1 DEF TypeOK
<1> QED  BY <1>1, <1>2, <1>3, <1>4, EditedTypes DEF TypeOK

LEMMA TypeOfQuietSave ==
    ASSUME TypeOK, NEW e \in Editors, SaveNothing(e) \/ SaveRefused(e) \/ SaveFails(e)
    PROVE  TypeOK'
<1>1. /\ rows' = rows /\ members' = members /\ stage' = stage /\ groupIds' = groupIds
      /\ answer' = answer /\ edits' = edits /\ during' = during /\ held' = held
  BY DEF SaveNothing, SaveRefused, SaveFails, tables, reader
<1>2. /\ upserts' \in [Editors -> [at : {"idle", "saving", "saved", "refused", "failed"},
                                   key : Keys, amount : Amounts \union {0},
                                   existing : {NoRow} \union StoredRows]]
      /\ \A d \in Editors : Saving(d)' => upserts'[d].amount \in Amounts
  BY TypeOfReturn DEF SaveNothing, SaveRefused, SaveFails
<1> QED  BY <1>1, <1>2 DEF TypeOK

LEMMA TypeOfAdministration ==
    ASSUME ResolutionAssumption, TypeOK,
           DeleteOverride \/ \E g \in Groups : AddMembership(g) \/ RemoveMembership(g)
    PROVE  TypeOK'
<1>1. /\ stage' = stage /\ groupIds' = groupIds /\ answer' = answer /\ upserts' = upserts
      /\ Watched /\ Edit
  BY DEF DeleteOverride, AddMembership, RemoveMembership, reader
<1>2. rows' \in [Keys -> {NoRow} \union StoredRows] /\ members' \subseteq Groups
  BY DEF TypeOK, DeleteOverride, AddMembership, RemoveMembership
<1>3. edits' \in 0..MaxEdits
  BY <1>1, EditCounts
<1> QED  BY <1>1, <1>2, <1>3, EditedTypes DEF TypeOK, Saving

-------------------------------------------------------------------------------
(* The invariant.                                                          *)

LEMMA InitIsOK == ASSUME ResolutionAssumption, Init PROVE ResolutionInvariant
<1>1. rows \in [Keys -> {NoRow} \union StoredRows]
  <2>1. \A a \in Amounts : Row(1, a) \in StoredRows
    BY RowType DEF ResolutionAssumption
  <2> QED  BY <2>1 DEF Init
<1>2. \A e \in Editors : upserts[e].at = "idle"
  BY Fields DEF Init, NoUpsert
<1>3. TypeOK
  <2>1. NoUpsert \in [at : {"idle", "saving", "saved", "refused", "failed"},
                      key : Keys, amount : Amounts \union {0},
                      existing : {NoRow} \union StoredRows]
    BY DEF NoUpsert, Upsert, Keys
  <2> QED  BY <1>1, <1>2, <2>1 DEF TypeOK, Init, Saving, ResolutionAssumption
<1>4. ReaderPart
  BY DEF Init, ReaderPart, ReaderOK, Resolving, OneEditOK, KeptBudgetsCount,
         NothingIsInvented, OneEditIsSeenWhole
<1>5. UpsertPart
  BY <1>2, CallParts DEF CallPart, UpsertOK, Saving
<1> QED  BY <1>3, <1>4, <1>5, Parts

LEMMA StoreEdits ==
    ASSUME TypeOK, NEW e \in Editors, StoreRow(e)
    PROVE  Edited
<1>1. Tables.rows = rows /\ Tables'.rows = rows'
      /\ Tables.members = members /\ Tables'.members = members'
  BY DEF Tables
<1>2. OneEditApart(Tables, Tables')
  BY <1>1 DEF StoreRow, TypeOK, OneEditApart
<1> QED  BY <1>2 DEF StoreRow, Edited, Watched

LEMMA AdministrationEdits ==
    ASSUME TypeOK, DeleteOverride \/ \E g \in Groups : AddMembership(g) \/ RemoveMembership(g)
    PROVE  Edited
<1>1. Tables.rows = rows /\ Tables'.rows = rows'
      /\ Tables.members = members /\ Tables'.members = members'
  BY DEF Tables
<1>2. OneEditApart(Tables, Tables')
  <2>1. CASE DeleteOverride
    BY <1>1, <2>1 DEF DeleteOverride, TypeOK, OneEditApart, Keys
  <2>2. CASE \E g \in Groups : AddMembership(g) \/ RemoveMembership(g)
    BY <1>1, <2>2 DEF AddMembership, RemoveMembership, OneEditApart
  <2> QED  BY <2>1, <2>2
<1> QED  BY <1>2 DEF DeleteOverride, AddMembership, RemoveMembership, Edited, Watched

LEMMA StepIsOK ==
    ASSUME ResolutionAssumption, ResolutionInvariant, [Next]_vars
    PROVE  ResolutionInvariant'
<1>0. TypeOK /\ ReaderPart /\ \A e \in Editors : CallPart(e)
  BY Parts, CallParts
<1>1. CASE ReadOverride \/ ReadMemberships \/ ReadGroupBudgets \/ QueryFails
  <2>1. ReaderPart'
    BY <1>0, <1>1, AfterReadOverride, AfterReadMemberships, AfterReadGroupBudgets, AfterQueryFails
  <2>2. UpsertPart'
    <3>1. rows' = rows /\ upserts' = upserts /\ held' = held
      BY <1>1 DEF ReadOverride, ReadMemberships, ReadGroupBudgets, QueryFails, tables
    <3> QED  BY <1>0, <3>1, CallPartsNext, QuietCall
  <2> QED  BY <1>0, <1>1, <2>1, <2>2, TypeOfRead, PartsNext
<1>2. ASSUME NEW e \in Editors, NEW k \in Keys, NEW a \in Amounts, BeginUpsert(e, k, a)
      PROVE  ResolutionInvariant'
  <2>1. ReaderPart'
    BY <1>0, <1>2, QuietKeepsReader DEF BeginUpsert
  <2>2. UpsertPart'
    BY <1>0, <1>2, CallBegins, OthersCalls, CallPartsNext
  <2> QED  BY <1>0, <1>2, <2>1, <2>2, TypeOfBegin, PartsNext
<1>3. ASSUME NEW e \in Editors, SaveRow(e) \/ SaveUnacknowledged(e)
      PROVE  ResolutionInvariant'
  <2>1. ReaderPart'
    BY <1>0, <1>3, StoreEdits, EditKeepsReader DEF SaveRow, SaveUnacknowledged
  <2>2. UpsertPart'
    BY <1>0, <1>3, OwnCall, OthersCalls, CallPartsNext
  <2> QED  BY <1>0, <1>3, <2>1, <2>2, TypeOfStore, PartsNext
<1>4. ASSUME NEW e \in Editors, SaveNothing(e) \/ SaveRefused(e) \/ SaveFails(e)
      PROVE  ResolutionInvariant'
  <2>1. ReaderPart'
    BY <1>0, <1>4, QuietKeepsReader DEF SaveNothing, SaveRefused, SaveFails
  <2>2. UpsertPart'
    BY <1>0, <1>4, OwnCall, OthersCalls, CallPartsNext
  <2> QED  BY <1>0, <1>4, <2>1, <2>2, TypeOfQuietSave, PartsNext
<1>5. CASE DeleteOverride \/ \E g \in Groups : AddMembership(g) \/ RemoveMembership(g)
  <2>1. ReaderPart'
    BY <1>0, <1>5, AdministrationEdits, EditKeepsReader
  <2>2. UpsertPart'
    <3>1. Watched /\ upserts' = upserts
      BY <1>5 DEF DeleteOverride, AddMembership, RemoveMembership
    <3> QED  BY <1>0, <3>1, CallPartsNext, WatchedCall
  <2> QED  BY <1>0, <1>5, <2>1, <2>2, TypeOfAdministration, PartsNext
<1>6. CASE UNCHANGED vars
  <2>1. UNCHANGED <<tables, reader, during>> /\ rows' = rows /\ upserts' = upserts /\ held' = held
        /\ edits' = edits
    BY <1>6 DEF vars, tables, reader
  <2>2. ReaderPart'
    BY <1>0, <2>1, QuietKeepsReader
  <2>3. UpsertPart'
    BY <1>0, <2>1, CallPartsNext, QuietCall
  <2>4. TypeOK'
    BY <1>0, <1>6 DEF TypeOK, Saving, vars
  <2> QED  BY <2>2, <2>3, <2>4, PartsNext
<1> QED  BY <1>1, <1>2, <1>3, <1>4, <1>5, <1>6 DEF Next

\* The inductive invariant that ties a resolution and the upserts under way to the
\* tables they have met.
THEOREM ResolutionInvariantHolds == ASSUME ResolutionAssumption PROVE Spec => []ResolutionInvariant
<1>1. Init => ResolutionInvariant
  BY InitIsOK
<1>2. ResolutionInvariant /\ [Next]_vars => ResolutionInvariant'
  BY StepIsOK
<1> QED  BY <1>1, <1>2, PTL DEF Spec

\* ResolveAsync never overlooks a budget the caller keeps, whatever edits fall between
\* its three queries.
THEOREM KeptBudgetsAlwaysCount == ASSUME ResolutionAssumption PROVE Spec => []KeptBudgetsCount
<1>1. ResolutionInvariant => KeptBudgetsCount
  BY DEF ResolutionInvariant
<1> QED  BY <1>1, ResolutionInvariantHolds, PTL

\* What it answers was there.
THEOREM AnswersAreFound == ASSUME ResolutionAssumption PROVE Spec => []NothingIsInvented
<1>1. ResolutionInvariant => NothingIsInvented
  BY DEF ResolutionInvariant
<1> QED  BY <1>1, ResolutionInvariantHolds, PTL

\* With one edit during the call the answer is EffectiveBudget.Resolve's, before or after.
THEOREM OneEditIsAtomic == ASSUME ResolutionAssumption PROVE Spec => []OneEditIsSeenWhole
<1>1. ResolutionInvariant => OneEditIsSeenWhole
  BY DEF ResolutionInvariant
<1> QED  BY <1>1, ResolutionInvariantHolds, PTL

\* An UpsertAsync that returns has taken effect.
THEOREM UpsertsTakeEffect == ASSUME ResolutionAssumption PROVE Spec => []UpsertTookEffect
<1>1. ResolutionInvariant => UpsertTookEffect
  BY DEF ResolutionInvariant
<1> QED  BY <1>1, ResolutionInvariantHolds, PTL

\* An UpsertAsync is refused in a race only.
THEOREM RefusalsAreRaces == ASSUME ResolutionAssumption PROVE Spec => []RefusedIfOvertaken
<1>1. ResolutionInvariant => RefusedIfOvertaken
  BY DEF ResolutionInvariant
<1> QED  BY <1>1, ResolutionInvariantHolds, PTL
===============================================================================
