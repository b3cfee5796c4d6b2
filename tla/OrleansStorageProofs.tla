------------------------- MODULE OrleansStorageProofs -------------------------
(***************************************************************************)
(* Overlapping calls of writetostorage are atomic writes to a versioned    *)
(* cell, and lose nothing, when at most one activation can start before    *)
(* the grain has a row.                                                    *)
(***************************************************************************)
EXTENDS OrleansStorage, TLAPS

OneFirstWriter == \A s, t \in FirstWriters : s = t

LEMMA ActivationTypes ==
    ASSUME NEW a \in Activation
    PROVE  a.on \in BOOLEAN /\ a.version \in Nat /\ a.value \in SUBSET Writes
BY DEF Activation

LEMMA RowTypes ==
    ASSUME NEW r \in RowType
    PROVE  r.version \in Nat /\ r.value \in SUBSET Writes
BY DEF RowType

LEMMA Fields ==
    ASSUME TypeOK
    PROVE  /\ \A r \in DOMAIN rows : rows[r].version \in Nat /\ rows[r].value \subseteq Writes
           /\ \A s \in Slots : acts[s].version \in Nat /\ acts[s].value \subseteq Writes
           /\ Writes \subseteq Nat /\ writes \in Nat /\ NoWrite \notin Writes
<1>1. \A r \in DOMAIN rows : rows[r] \in RowType
  BY DEF TypeOK
<1>2. \A s \in Slots : acts[s] \in Activation
  BY DEF TypeOK
<1>3. Writes \subseteq Nat /\ writes \in Nat /\ NoWrite \notin Writes
  BY DEF TypeOK, Writes, NoWrite
<1> QED  BY <1>1, <1>2, <1>3, RowTypes, ActivationTypes

\* One entry of a function over the activations changes.
LEMMA Changes ==
    ASSUME NEW S, NEW T, NEW f \in [S -> T], NEW g, NEW s \in S, NEW a \in T,
           g = [f EXCEPT ![s] = a]
    PROVE  g \in [S -> T] /\ g[s] = a /\ \A t \in S : t # s => g[t] = f[t]
OBVIOUS

\* One activation gets another version and value, or ends.
LEMMA ActivationRuns ==
    ASSUME acts \in [Slots -> Activation], NEW s \in Slots, NEW n \in Nat,
           NEW v \in SUBSET Writes, acts' = [acts EXCEPT ![s] = Running(n, v)]
    PROVE  /\ acts' \in [Slots -> Activation]
           /\ acts'[s].on = TRUE /\ acts'[s].version = n /\ acts'[s].value = v
           /\ \A t \in Slots : t # s => acts'[t] = acts[t]
<1>1. /\ Running(n, v) \in Activation
      /\ Running(n, v).on = TRUE /\ Running(n, v).version = n /\ Running(n, v).value = v
  BY DEF Running, Activation
<1>2. /\ acts' \in [Slots -> Activation] /\ acts'[s] = Running(n, v)
      /\ \A t \in Slots : t # s => acts'[t] = acts[t]
  BY <1>1, Changes
<1> QED  BY <1>1, <1>2

LEMMA ActivationStops ==
    ASSUME acts \in [Slots -> Activation], NEW s \in Slots,
           acts' = [acts EXCEPT ![s] = Off]
    PROVE  /\ acts' \in [Slots -> Activation]
           /\ acts'[s].on = FALSE /\ acts'[s].value = {}
           /\ \A t \in Slots : t # s => acts'[t] = acts[t]
<1>1. Off \in Activation /\ Off.on = FALSE /\ Off.value = {}
  BY DEF Off, Activation
<1>2. /\ acts' \in [Slots -> Activation] /\ acts'[s] = Off
      /\ \A t \in Slots : t # s => acts'[t] = acts[t]
  BY <1>1, Changes
<1> QED  BY <1>1, <1>2

\* What the end of a call leaves.
LEMMA FinishFacts ==
    ASSUME TypeOK, StorageAssumption, NEW s \in Slots, Finish(s)
    PROVE  /\ stage' \in [Slots -> {"idle", "called", "update", "insert"}]
           /\ found' \in [Slots -> SUBSET Writes]
           /\ writing' \in [Slots -> {NoWrite} \union Writes]
           /\ locks' \in [Writes -> Slots \union {Nobody}]
           /\ stage'[s] = "idle" /\ found'[s] = {} /\ writing'[s] = NoWrite
           /\ \A t \in Slots : t # s =>
                 stage'[t] = stage[t] /\ found'[t] = found[t] /\ writing'[t] = writing[t]
           /\ \A r \in Writes : /\ locks[r] = s => locks'[r] = Nobody
                                /\ locks[r] # s => locks'[r] = locks[r]
<1>1. /\ stage' \in [Slots -> {"idle", "called", "update", "insert"}]
      /\ stage'[s] = "idle" /\ \A t \in Slots : t # s => stage'[t] = stage[t]
  BY Changes DEF TypeOK, Finish
<1>2. /\ found' \in [Slots -> SUBSET Writes]
      /\ found'[s] = {} /\ \A t \in Slots : t # s => found'[t] = found[t]
  BY Changes DEF TypeOK, Finish
<1>3. /\ writing' \in [Slots -> {NoWrite} \union Writes]
      /\ writing'[s] = NoWrite /\ \A t \in Slots : t # s => writing'[t] = writing[t]
  BY Changes DEF TypeOK, Finish
<1>4. /\ locks' \in [Writes -> Slots \union {Nobody}]
      /\ \A r \in Writes : /\ locks[r] = s => locks'[r] = Nobody
                           /\ locks[r] # s => locks'[r] = locks[r]
  BY DEF TypeOK, Finish, Unlocked
<1> QED  BY <1>1, <1>2, <1>3, <1>4

\* A step that starts, refuses or ends a call and leaves the rows alone.
LEMMA ActivateKeeps ==
    ASSUME StorageAssumption, StorageInvariant, NEW s \in Slots, Activate(s)
    PROVE  StorageInvariant'
<1> USE DEF StorageInvariant
<1>1. PICK n \in Nat, v \in SUBSET Writes :
         /\ acts' = [acts EXCEPT ![s] = Running(n, v)]
         /\ DOMAIN rows = {} => s \in FirstWriters /\ n = 0 /\ v = {}
         /\ \A r \in DOMAIN rows : n = rows[r].version /\ v = rows[r].value
  <2>1. CASE DOMAIN rows = {}
    BY <2>1 DEF Activate
  <2>2. CASE DOMAIN rows # {}
    <3>1. PICK r \in DOMAIN rows : acts' = [acts EXCEPT ![s] = Running(rows[r].version, rows[r].value)]
      BY <2>2 DEF Activate
    <3>2. rows[r] \in RowType /\ \A q \in DOMAIN rows : q = r
      BY DEF TypeOK, OneRow
    <3>3. rows[r].version \in Nat /\ rows[r].value \in SUBSET Writes
      BY <3>2, RowTypes
    <3> QED  BY <3>1, <3>2, <3>3, <2>2
  <2> QED  BY <2>1, <2>2
<1>2. /\ acts' \in [Slots -> Activation]
      /\ acts'[s].on = TRUE /\ acts'[s].version = n /\ acts'[s].value = v
      /\ \A t \in Slots : t # s => acts'[t] = acts[t]
  BY <1>1, ActivationRuns DEF TypeOK
<1>4. stage[s] = "idle" /\ writing[s] = NoWrite
  BY DEF Activate, CallOK
<1>5. TypeOK'
  BY <1>2 DEF TypeOK, Activate
<1>6. \A t \in Slots : CallOK(t)'
  BY <1>2, <1>4 DEF CallOK, Activate, LockedBy, Matches
<1>7. \A t \in Slots : KnowledgeOK(t)'
  BY <1>1, <1>2, RowTypes DEF KnowledgeOK, Activate, TypeOK
<1>7a. \A t \in Slots : LookedAtOK(t)'
  BY <1>2, <1>4 DEF LookedAtOK, Activate, LockedBy
<1>8. NumberedOK'
  BY <1>1, <1>2 DEF NumberedOK, Activate
<1>9. UnsettledOK'
  <2>1. /\ v \intersect refused = {}
        /\ \A t \in Slots : writing[t] # NoWrite => writing[t] \notin v
    <3>1. CASE DOMAIN rows = {}
      BY <3>1, <1>1
    <3>2. CASE DOMAIN rows # {}
      BY <3>2, <1>1 DEF UnsettledOK, RefusedIsNotStored
    <3> QED  BY <3>1, <3>2
  <2>2. UNCHANGED <<rows, writing, refused>>
    BY DEF Activate
  <2> QED  BY <1>2, <1>4, <2>1, <2>2 DEF UnsettledOK
<1> QED
  BY <1>5, <1>6, <1>7, <1>7a, <1>8, <1>9 DEF Activate, OneRow, NoWriteIsLost, RefusedIsNotStored

LEMMA CallWriteKeeps ==
    ASSUME StorageAssumption, StorageInvariant, NEW s \in Slots, CallWrite(s)
    PROVE  StorageInvariant'
<1> USE DEF StorageInvariant
<1> DEFINE w == writes + 1
<1>1. /\ w \in Writes
      /\ \A t \in Slots : w \notin acts[t].value
      /\ \A r \in DOMAIN rows : w \notin rows[r].value
      /\ w \notin acked \union refused
      /\ w = writes + 1 /\ writes \in Nat /\ writes' = w /\ writing' = [writing EXCEPT ![s] = w]
      /\ w \in 0..MaxWrites
      /\ acts' = [acts EXCEPT ![s] = Running(acts[s].version, acts[s].value \union {w})]
      /\ stage' = [stage EXCEPT ![s] = "called"]
      /\ UNCHANGED <<rows, locks, found, faults, acked, refused>>
  BY DEF CallWrite, TypeOK, NumberedOK, StorageAssumption, Writes
<1> HIDE DEF w
<1>2. acts[s] \in Activation /\ acts[s].on = TRUE /\ stage[s] = "idle"
  BY DEF CallWrite, TypeOK
<1>3. acts[s].version \in Nat /\ acts[s].value \union {w} \in SUBSET Writes
  BY <1>1, <1>2, ActivationTypes
<1>4. /\ acts' \in [Slots -> Activation]
      /\ acts'[s].on = TRUE /\ acts'[s].version = acts[s].version
      /\ acts'[s].value = acts[s].value \union {w}
      /\ \A t \in Slots : t # s => acts'[t] = acts[t]
  <2> DEFINE n == acts[s].version
             v == acts[s].value \union {w}
  <2>1. /\ n \in Nat /\ v \in SUBSET Writes /\ acts \in [Slots -> Activation]
        /\ acts' = [acts EXCEPT ![s] = Running(n, v)]
    BY <1>1, <1>3 DEF TypeOK
  <2> HIDE DEF n, v
  <2>2. /\ acts' \in [Slots -> Activation]
        /\ acts'[s].on = TRUE /\ acts'[s].version = n /\ acts'[s].value = v
        /\ \A t \in Slots : t # s => acts'[t] = acts[t]
    BY <2>1, ActivationRuns
  <2> QED  BY <2>2 DEF n, v
<1>6. /\ writing' \in [Slots -> {NoWrite} \union Writes]
      /\ writing'[s] = w /\ \A t \in Slots : t # s => writing'[t] = writing[t]
  BY <1>1, Changes DEF TypeOK
<1>7. /\ stage' \in [Slots -> {"idle", "called", "update", "insert"}]
      /\ stage'[s] = "called" /\ \A t \in Slots : t # s => stage'[t] = stage[t]
  BY <1>1, Changes DEF TypeOK
<1>8. w # NoWrite /\ NoWrite \notin Writes
  BY <1>1 DEF NoWrite, Writes
<1>9. TypeOK'
  BY <1>1, <1>4, <1>6, <1>7, StorageAssumption DEF TypeOK
<1>10. \A t \in Slots : CallOK(t)'
  <2>1. UNCHANGED <<rows, locks, found>>
    BY <1>1
  <2>2. CallOK(s)'
    BY <1>2, <1>4, <1>6, <1>7, <1>8, <2>1 DEF CallOK, LockedBy, Matches
  <2>3. ASSUME NEW t \in Slots, t # s  PROVE CallOK(t)'
    BY <1>4, <1>6, <1>7, <2>1, <2>3 DEF CallOK, LockedBy, Matches
  <2> QED  BY <2>2, <2>3
<1>11. \A t \in Slots : KnowledgeOK(t)'
  <2>1. KnowledgeOK(s)'
    BY <1>1, <1>2, <1>4 DEF KnowledgeOK
  <2>2. ASSUME NEW t \in Slots, t # s  PROVE KnowledgeOK(t)'
    BY <1>1, <1>4, <2>2 DEF KnowledgeOK
  <2> QED  BY <2>1, <2>2
<1>11a. \A t \in Slots : LookedAtOK(t)'
  BY <1>1, <1>4, <1>7 DEF LookedAtOK, LockedBy
<1>12. NumberedOK'
  <2>1. w = writes + 1 /\ writes' = w /\ UNCHANGED <<rows, acked, refused>>
    BY <1>1
  <2>2. writes \in Nat /\ Writes \subseteq Nat
    BY Fields
  <2>3. ASSUME NEW x \in Writes, x <= writes  PROVE x <= w
    BY <2>1, <2>2, <2>3
  <2>4. \A r \in DOMAIN rows : \A x \in rows[r].value : x <= w
    BY <2>3, Fields DEF NumberedOK
  <2>5. \A t \in Slots : \A x \in acts[t].value : x <= w
    BY <2>3, Fields DEF NumberedOK
  <2>6. \A x \in acked \union refused : x <= w
    BY <2>3 DEF NumberedOK, TypeOK
  <2>7. w <= w
    BY <2>1, <2>2
  <2>8. \A t \in Slots : \A x \in acts'[t].value : x <= w
    BY <1>4, <2>5, <2>7
  <2> QED  BY <2>1, <2>4, <2>6, <2>8 DEF NumberedOK
<1>13. UnsettledOK'
  <2>1. ASSUME NEW t \in Slots, writing'[t] # NoWrite
        PROVE  /\ \A r \in DOMAIN rows : writing'[t] \notin rows[r].value
               /\ \A u \in Slots \ {t} : writing'[t] \notin acts'[u].value
    <3>1. CASE t = s
      BY <1>1, <1>4, <1>6, <3>1
    <3>2. CASE t # s
      <4>1. writing'[t] = writing[t] /\ writing[t] \in acts[t].value
        BY <1>6, <3>2, <2>1 DEF CallOK
      <4>2. writing[t] # w
        BY <1>1, <4>1
      <4> QED  BY <1>1, <1>4, <2>1, <4>1, <4>2 DEF UnsettledOK
    <3> QED  BY <3>1, <3>2
  <2>2. \A t \in Slots : acts'[t].value \intersect refused = {}
    BY <1>1, <1>4 DEF UnsettledOK
  <2> QED  BY <1>1, <2>1, <2>2 DEF UnsettledOK
<1> QED
  BY <1>1, <1>9, <1>10, <1>11, <1>11a, <1>12, <1>13 DEF OneRow, NoWriteIsLost, RefusedIsNotStored

\* A step inside a call, before its commit.
LEMMA StatementKeeps ==
    ASSUME StorageAssumption, StorageInvariant, NEW s \in Slots,
           BeginUpdate(s) \/ BeginInsert(s) \/ \E r \in DOMAIN rows : LockRow(s, r)
    PROVE  StorageInvariant'
<1> USE DEF StorageInvariant
<1>0. UNCHANGED <<rows, acts, writing, writes, faults, acked, refused>>
  BY DEF BeginUpdate, BeginInsert, LockRow
<1>1. CASE BeginUpdate(s)
  <2>1. /\ stage' \in [Slots -> {"idle", "called", "update", "insert"}]
        /\ stage'[s] = "update" /\ \A t \in Slots : t # s => stage'[t] = stage[t]
    BY <1>1, Changes DEF BeginUpdate, TypeOK
  <2>2. /\ {r \in DOMAIN rows : Matches(s, r)} \in SUBSET Writes
        /\ found' = [found EXCEPT ![s] = {r \in DOMAIN rows : Matches(s, r)}]
    BY <1>1 DEF BeginUpdate, TypeOK
  <2>3. /\ found' \in [Slots -> SUBSET Writes]
        /\ found'[s] \subseteq DOMAIN rows /\ \A t \in Slots : t # s => found'[t] = found[t]
    BY <2>2, Changes DEF TypeOK
  <2>4. TypeOK'
    BY <1>0, <1>1, <2>1, <2>3 DEF TypeOK, BeginUpdate
  <2>5. LockedBy(s) = {} /\ acts[s].version > 0
    BY <1>1, ActivationTypes DEF BeginUpdate, CallOK, TypeOK
  <2>6. \A t \in Slots : CallOK(t)'
    BY <1>0, <1>1, <2>1, <2>3, <2>5 DEF CallOK, BeginUpdate, LockedBy, Matches
  <2>7. found'[s] = {r \in DOMAIN rows : Matches(s, r)} /\ locks' = locks
    BY <1>1, <2>2, Changes DEF BeginUpdate, TypeOK
  <2>8. LookedAtOK(s)'
    <3>1. ASSUME NEW r \in DOMAIN rows, r \notin found'[s]
          PROVE  acts[s].version < rows[r].version
      <4>1. acts[s].version # rows[r].version
        BY <2>7, <3>1 DEF Matches
      <4>2. acts[s].version \in 0..rows[r].version
        BY <1>1 DEF KnowledgeOK, CallOK, BeginUpdate
      <4> QED  BY <4>1, <4>2, Fields
    <3> QED  BY <1>0, <3>1 DEF LookedAtOK
  <2>9. ASSUME NEW t \in Slots, t # s  PROVE LookedAtOK(t)'
    BY <1>0, <2>1, <2>3, <2>7, <2>9 DEF LookedAtOK, LockedBy
  <2> QED
    BY <1>0, <1>1, <2>4, <2>6, <2>8, <2>9 DEF BeginUpdate, OneRow, NoWriteIsLost, RefusedIsNotStored, KnowledgeOK, NumberedOK,
         UnsettledOK
<1>2. CASE BeginInsert(s)
  <2>1. /\ stage' \in [Slots -> {"idle", "called", "update", "insert"}]
        /\ stage'[s] = "insert" /\ \A t \in Slots : t # s => stage'[t] = stage[t]
    BY <1>2, Changes DEF BeginInsert, TypeOK
  <2>2. TypeOK'
    BY <1>0, <1>2, <2>1 DEF TypeOK, BeginInsert
  <2>3. \A t \in Slots : CallOK(t)'
    BY <1>0, <1>2, <2>1 DEF CallOK, BeginInsert, LockedBy, Matches
  <2>4. \A t \in Slots : LookedAtOK(t)'
    BY <1>0, <1>2, <2>1 DEF LookedAtOK, LockedBy, BeginInsert
  <2> QED
    BY <1>0, <1>2, <2>2, <2>3, <2>4 DEF BeginInsert, OneRow, NoWriteIsLost, RefusedIsNotStored, KnowledgeOK, NumberedOK,
         UnsettledOK
<1>3. ASSUME NEW r \in DOMAIN rows, LockRow(s, r)  PROVE StorageInvariant'
  <2>0. r \in Writes
    BY DEF TypeOK
  <2>1. /\ found' \in [Slots -> SUBSET Writes]
        /\ found'[s] = found[s] \ {r} /\ \A t \in Slots : t # s => found'[t] = found[t]
    <3>1. found[s] \ {r} \in SUBSET Writes /\ found' = [found EXCEPT ![s] = found[s] \ {r}]
      BY <1>3 DEF LockRow, TypeOK
    <3> QED  BY <3>1, Changes DEF TypeOK
  <2>2. /\ locks' \in [Writes -> Slots \union {Nobody}]
        /\ \A q \in Writes : q # r => locks'[q] = locks[q]
        /\ locks[r] = Nobody
        /\ locks'[r] \in {s, Nobody}
        /\ locks'[r] = s => Matches(s, r)
    BY <1>3, <2>0, StorageAssumption DEF LockRow, TypeOK, StorageAssumption, Nobody
  <2>3. TypeOK'
    BY <1>0, <1>3, <2>1, <2>2 DEF TypeOK, LockRow
  <2>4. Nobody \notin Slots /\ stage[s] = "update" /\ stage' = stage
    BY <1>3, StorageAssumption DEF StorageAssumption, Nobody, LockRow
  <2>5. \A t \in Slots : CallOK(t)'
    BY <1>0, <2>0, <2>1, <2>2, <2>4 DEF CallOK, LockedBy, Matches, TypeOK
  <2>6. \A q \in Writes : locks'[q] # Nobody => q \in DOMAIN rows'
    BY <1>0, <2>2
  <2>7. ASSUME NEW q \in DOMAIN rows, q \notin found'[s], q \notin LockedBy(s)'
        PROVE  acts[s].version < rows[q].version
    <3>1. CASE q # r
      BY <1>0, <2>1, <2>2, <2>4, <2>7, <3>1 DEF LookedAtOK, LockedBy, TypeOK
    <3>2. CASE q = r
      <4>1. acts[s].version # rows[r].version
        BY <1>0, <1>3, <2>2, <2>7, <3>2 DEF LockRow, LockedBy, Matches, TypeOK
      <4>2. acts[s].version \in 0..rows[r].version
        BY <2>4 DEF KnowledgeOK, CallOK
      <4> QED  BY <3>2, <4>1, <4>2, Fields
    <3> QED  BY <3>1, <3>2
  <2>8. LookedAtOK(s)'
    BY <1>0, <2>7 DEF LookedAtOK
  <2>9. ASSUME NEW t \in Slots, t # s  PROVE LookedAtOK(t)'
    BY <1>0, <2>0, <2>1, <2>2, <2>4, <2>9 DEF LookedAtOK, LockedBy, TypeOK
  <2> QED
    BY <1>0, <2>3, <2>5, <2>6, <2>8, <2>9 DEF OneRow, NoWriteIsLost, RefusedIsNotStored, KnowledgeOK, NumberedOK,
         UnsettledOK
<1> QED  BY <1>1, <1>2, <1>3


\* A call ends without having changed the row: its activation lives on or stops.
LEMMA EndKeeps ==
    ASSUME StorageAssumption, StorageInvariant, NEW s \in Slots, Finish(s),
           UNCHANGED <<rows, writes, acked>>, faults' \in 0..MaxFaults,
           \/ UNCHANGED <<acts, refused>>
           \/ acts' = [acts EXCEPT ![s] = Off] /\ UNCHANGED refused
           \/ /\ acts' = [acts EXCEPT ![s] = Off] /\ stage[s] # "idle"
              /\ refused' = refused \union {writing[s]}
    PROVE  StorageInvariant'
<1> USE DEF StorageInvariant
<1>1. /\ stage' \in [Slots -> {"idle", "called", "update", "insert"}]
      /\ found' \in [Slots -> SUBSET Writes]
      /\ writing' \in [Slots -> {NoWrite} \union Writes]
      /\ locks' \in [Writes -> Slots \union {Nobody}]
      /\ stage'[s] = "idle" /\ found'[s] = {} /\ writing'[s] = NoWrite
      /\ \A t \in Slots : t # s =>
            stage'[t] = stage[t] /\ found'[t] = found[t] /\ writing'[t] = writing[t]
      /\ \A r \in Writes : /\ locks[r] = s => locks'[r] = Nobody
                           /\ locks[r] # s => locks'[r] = locks[r]
  BY FinishFacts
<1>2. /\ acts' \in [Slots -> Activation]
      /\ \A t \in Slots : t # s => acts'[t] = acts[t]
      /\ \/ acts'[s] = acts[s]
         \/ acts'[s].on = FALSE /\ acts'[s].value = {}
  BY ActivationStops DEF TypeOK
<1>3. /\ refused' \subseteq Writes /\ refused \subseteq refused'
      /\ \A r \in DOMAIN rows : refused' \intersect rows[r].value = {}
      /\ \A t \in Slots : acts'[t].value \intersect refused' = {}
      /\ \A w \in refused' : w <= writes
  <2>1. CASE refused' = refused
    BY <1>2, <2>1 DEF TypeOK, RefusedIsNotStored, UnsettledOK, NumberedOK
  <2>2. CASE /\ acts' = [acts EXCEPT ![s] = Off] /\ stage[s] # "idle"
             /\ refused' = refused \union {writing[s]}
    <3>1. writing[s] # NoWrite /\ writing[s] \in acts[s].value
      BY <2>2 DEF CallOK
    <3>2. writing[s] \in Writes /\ writing[s] <= writes
      BY <3>1, Fields DEF NumberedOK
    <3>3. acts'[s].value = {}
      BY <2>2, ActivationStops DEF TypeOK
    <3> QED
      BY <1>2, <2>2, <3>1, <3>2, <3>3 DEF TypeOK, RefusedIsNotStored, UnsettledOK, NumberedOK
  <2> QED  BY <2>1, <2>2
<1>4. Nobody \notin Slots /\ UNCHANGED <<rows, writes, acked>>
  BY DEF StorageAssumption, Nobody
<1>5. TypeOK'
  BY <1>1, <1>2, <1>3, <1>4 DEF TypeOK
<1>6. \A t \in Slots : CallOK(t)'
  <2>1. DOMAIN rows \subseteq Writes
    BY DEF TypeOK
  <2>2. CallOK(s)'
    BY <1>1, <1>4, <2>1 DEF CallOK, LockedBy
  <2>3. ASSUME NEW t \in Slots, t # s  PROVE CallOK(t)'
    BY <1>1, <1>2, <1>4, <2>1, <2>3 DEF CallOK, LockedBy, Matches
  <2> QED  BY <2>2, <2>3
<1>7. \A t \in Slots : KnowledgeOK(t)'
  BY <1>2, <1>4 DEF KnowledgeOK
<1>7a. \A t \in Slots : LookedAtOK(t)'
  <2>1. LookedAtOK(s)'
    BY <1>1 DEF LookedAtOK
  <2>2. ASSUME NEW t \in Slots, t # s  PROVE LookedAtOK(t)'
    <3>1. LockedBy(t)' = LockedBy(t)
      BY <1>1, <1>4, <2>2 DEF LockedBy, TypeOK
    <3> QED  BY <1>1, <1>2, <1>4, <2>2, <3>1 DEF LookedAtOK
  <2> QED  BY <2>1, <2>2
<1>8. NumberedOK'
  <2>1. \A t \in Slots : acts'[t].value \subseteq acts[t].value
    BY <1>2
  <2> QED  BY <1>3, <1>4, <2>1 DEF NumberedOK
<1>9. UnsettledOK'
  <2>1. \A t \in Slots : acts'[t].value \subseteq acts[t].value
    BY <1>2
  <2>2. \A t \in Slots : writing'[t] \in {NoWrite, writing[t]}
    BY <1>1
  <2> QED  BY <1>3, <1>4, <2>1, <2>2 DEF UnsettledOK
<1>10. \A r \in Writes : locks'[r] # Nobody => r \in DOMAIN rows'
  BY <1>1, <1>4
<1> QED
  BY <1>3, <1>4, <1>5, <1>6, <1>7, <1>7a, <1>8, <1>9, <1>10
  DEF OneRow, NoWriteIsLost, RefusedIsNotStored

\* What a commit makes of the row: it goes up by one version from the one its activation
\* had, and holds what the activation knew.
LEMMA CommitFacts ==
    ASSUME StorageAssumption, OneFirstWriter, StorageInvariant, NEW s \in Slots, Commit(s)
    PROVE  \E r \in Writes :
              /\ DOMAIN rows' = {r}
              /\ rows' \in [{r} -> RowType]
              /\ rows'[r].version = acts[s].version + 1
              /\ rows'[r].value = acts[s].value
              /\ DOMAIN rows \subseteq {r}
              /\ \A q \in DOMAIN rows : rows[q].version = acts[s].version
              /\ DOMAIN rows = {} => acts[s].version = 0
              /\ locks[r] \in {s, Nobody}
              /\ writing[s] # NoWrite /\ acts[s].on
              /\ \A t \in Slots \ {s} : /\ stage[t] # "insert"
                                        /\ DOMAIN rows = {} => ~acts[t].on
<1> USE DEF StorageInvariant
<1> DEFINE n == acts[s].version
           v == acts[s].value
<1>1. n \in Nat /\ v \subseteq Writes /\ acts[s].on /\ writing[s] \in Writes
  <2>1. stage[s] # "idle"
    BY DEF Commit, Counted
  <2> QED  BY <2>1, Fields DEF CallOK, TypeOK
<1>2. NewRow(s, n + 1) \in RowType /\ NewRow(s, n + 1).version = n + 1 /\ NewRow(s, n + 1).value = v
  BY <1>1 DEF NewRow, RowType
<1>3. writing[s] # NoWrite
  BY <1>1, Fields
<1>4. CASE stage[s] = "update"
  <2>1. PICK r \in DOMAIN rows : locks[r] = s
    BY <1>4 DEF Commit, Counted, LockedBy
  <2>2. r \in Writes /\ DOMAIN rows = {r} /\ rows[r].version = n
    <3>1. r \in Writes
      BY DEF TypeOK
    <3>2. DOMAIN rows = {r}
      BY DEF OneRow
    <3>3. r \in LockedBy(s)
      BY <2>1 DEF LockedBy
    <3> QED  BY <3>1, <3>2, <3>3 DEF CallOK, Matches
  <2>3. rows' = [q \in {r} |-> NewRow(s, n + 1)]
    BY <1>4, <2>1, <2>2 DEF Commit
  <2>4. \A t \in Slots : stage[t] # "insert"
    BY <2>2 DEF CallOK
  <2> HIDE DEF n, v
  <2>5. DOMAIN rows' = {r} /\ rows' \in [{r} -> RowType] /\ rows'[r] = NewRow(s, n + 1)
    BY <1>2, <2>3
  <2> QED  BY <1>1, <1>2, <1>3, <2>1, <2>2, <2>4, <2>5 DEF n, v
<1>5. CASE stage[s] = "insert"
  <2> DEFINE r == writing[s]
  <2>1. r \in Writes /\ DOMAIN rows = {} /\ n = 0 /\ locks[r] = Nobody
    BY <1>1, <1>5 DEF CallOK
  <2>2. rows' = [q \in {r} |-> NewRow(s, n + 1)]
    BY <1>5, <2>1 DEF Commit
  <2>3. \A t \in Slots \ {s} : stage[t] # "insert" /\ ~acts[t].on
    BY <1>1, <2>1 DEF CallOK, KnowledgeOK, OneFirstWriter
  <2> HIDE DEF n, v, r
  <2>4. DOMAIN rows' = {r} /\ rows' \in [{r} -> RowType] /\ rows'[r] = NewRow(s, n + 1)
    BY <1>2, <2>2
  <2>5. rows'[r].version = n + 1 /\ rows'[r].value = v
    BY <1>2, <2>4
  <2> QED  BY <1>1, <1>3, <2>1, <2>3, <2>4, <2>5 DEF n, v
<1> QED  BY <1>4, <1>5 DEF Commit, Counted

LEMMA CommitKeeps ==
    ASSUME StorageAssumption, OneFirstWriter, StorageInvariant, NEW s \in Slots, Commit(s),
           UNCHANGED <<writes, refused>>, faults' \in 0..MaxFaults,
           \/ UNCHANGED <<acts, acked>>
           \/ /\ acts' = [acts EXCEPT ![s] = Running(acts[s].version + 1, acts[s].value)]
              /\ acked' = acked \union {writing[s]}
    PROVE  StorageInvariant'
<1> USE DEF StorageInvariant
<1> DEFINE n == acts[s].version
           v == acts[s].value
<1>1. PICK r \in Writes :
         /\ DOMAIN rows' = {r} /\ rows' \in [{r} -> RowType]
         /\ rows'[r].version = n + 1 /\ rows'[r].value = v
         /\ DOMAIN rows \subseteq {r}
         /\ \A q \in DOMAIN rows : rows[q].version = n
         /\ DOMAIN rows = {} => n = 0
         /\ locks[r] \in {s, Nobody}
         /\ writing[s] # NoWrite /\ acts[s].on
         /\ \A t \in Slots \ {s} : stage[t] # "insert" /\ (DOMAIN rows = {} => ~acts[t].on)
  BY CommitFacts
<1>2. /\ stage' \in [Slots -> {"idle", "called", "update", "insert"}]
      /\ found' \in [Slots -> SUBSET Writes]
      /\ writing' \in [Slots -> {NoWrite} \union Writes]
      /\ locks' \in [Writes -> Slots \union {Nobody}]
      /\ stage'[s] = "idle" /\ found'[s] = {} /\ writing'[s] = NoWrite
      /\ \A t \in Slots : t # s =>
            stage'[t] = stage[t] /\ found'[t] = found[t] /\ writing'[t] = writing[t]
      /\ \A q \in Writes : /\ locks[q] = s => locks'[q] = Nobody
                           /\ locks[q] # s => locks'[q] = locks[q]
  BY FinishFacts DEF Commit
<1>3. n \in Nat /\ v \in SUBSET Writes /\ acts \in [Slots -> Activation]
  BY Fields DEF TypeOK
<1>4. writing[s] \in v /\ \A q \in DOMAIN rows : rows[q].value \subseteq v
  BY <1>1 DEF CallOK, KnowledgeOK
<1>5. acked \subseteq v /\ refused \intersect v = {} /\ \A w \in v : w <= writes
  <2>1. acked \subseteq v
    <3>1. CASE DOMAIN rows = {}
      BY <3>1
    <3>2. CASE DOMAIN rows # {}
      BY <1>4, <3>2 DEF NoWriteIsLost
    <3> QED  BY <3>1, <3>2
  <2> QED  BY <2>1 DEF UnsettledOK, NumberedOK
<1>6. acked' \subseteq v
  BY <1>4, <1>5
<1>7. UNCHANGED acts \/ acts' = [acts EXCEPT ![s] = Running(n + 1, v)]
  OBVIOUS
<1> HIDE DEF n, v
<1>8. /\ acts' \in [Slots -> Activation]
      /\ acts'[s].version \in {n, n + 1} /\ acts'[s].value = v
      /\ \A t \in Slots : t # s => acts'[t] = acts[t]
  <2>1. CASE acts' = acts
    BY <1>3, <2>1 DEF n, v
  <2>2. CASE acts' = [acts EXCEPT ![s] = Running(n + 1, v)]
    <3>1. n + 1 \in Nat
      BY <1>3
    <3> QED  BY <1>3, <2>2, <3>1, ActivationRuns
  <2> QED  BY <1>7, <2>1, <2>2
<1>9. Nobody \notin Slots /\ Nobody # s
  BY DEF StorageAssumption, Nobody
<1>10. locks'[r] = Nobody
  BY <1>1, <1>2, <1>9
<1>11. TypeOK'
  BY <1>1, <1>2, <1>3, <1>6, <1>8 DEF TypeOK
<1>12. \A t \in Slots : CallOK(t)'
  <2>1. \A t \in Slots : LockedBy(t)' = {}
    BY <1>1, <1>9, <1>10 DEF LockedBy
  <2>2. CallOK(s)'
    BY <1>2, <2>1 DEF CallOK
  <2>3. ASSUME NEW t \in Slots, t # s  PROVE CallOK(t)'
    BY <1>1, <1>2, <1>8, <2>1, <2>3 DEF CallOK
  <2> QED  BY <2>2, <2>3
<1>13. \A t \in Slots : KnowledgeOK(t)'
  <2>1. KnowledgeOK(s)'
    BY <1>1, <1>3, <1>8 DEF KnowledgeOK
  <2>2. ASSUME NEW t \in Slots, t # s  PROVE KnowledgeOK(t)'
    <3>1. acts[t].on => acts[t].version \in 0..n
      BY <1>1, <2>2 DEF KnowledgeOK
    <3> QED  BY <1>1, <1>3, <1>8, <2>2, <3>1 DEF KnowledgeOK
  <2> QED  BY <2>1, <2>2
<1>13a. \A t \in Slots : LookedAtOK(t)'
  <2>1. LookedAtOK(s)'
    BY <1>2 DEF LookedAtOK
  <2>2. ASSUME NEW t \in Slots, t # s, stage'[t] = "update"
        PROVE  acts'[t].version < rows'[r].version
    <3>1. acts[t].on /\ stage[t] = "update"
      BY <1>2, <2>2 DEF CallOK
    <3>2. acts[t].version \in 0..n
      BY <1>1, <2>2, <3>1 DEF KnowledgeOK
    <3> QED  BY <1>1, <1>3, <1>8, <2>2, <3>2
  <2>3. ASSUME NEW t \in Slots, t # s  PROVE LookedAtOK(t)'
    BY <1>1, <2>2, <2>3 DEF LookedAtOK
  <2> QED  BY <2>1, <2>3
<1>14. NumberedOK'
  <2>1. \A t \in Slots : acts'[t].value = acts[t].value
    BY <1>8 DEF v
  <2>2. \A w \in acked' \union refused : w <= writes
    BY <1>5, <1>6 DEF NumberedOK
  <2> QED  BY <1>1, <1>5, <2>1, <2>2 DEF NumberedOK
<1>15. UnsettledOK'
  <2>1. \A t \in Slots : acts'[t].value = acts[t].value
    BY <1>8 DEF v
  <2>2. ASSUME NEW t \in Slots, writing'[t] # NoWrite
        PROVE  /\ writing'[t] \notin v
               /\ \A u \in Slots \ {t} : writing'[t] \notin acts'[u].value
    <3>1. t # s /\ writing'[t] = writing[t]
      BY <1>2, <2>2
    <3> QED  BY <2>1, <2>2, <3>1 DEF UnsettledOK, v
  <2>3. \A t \in Slots : acts'[t].value \intersect refused' = {}
    BY <2>1 DEF UnsettledOK
  <2> QED  BY <1>1, <2>2, <2>3 DEF UnsettledOK
<1>16. \A q \in Writes : locks'[q] # Nobody => q \in DOMAIN rows'
  BY <1>1, <1>2
<1> QED
  BY <1>1, <1>3, <1>5, <1>6, <1>11, <1>12, <1>13, <1>13a, <1>14, <1>15, <1>16
  DEF OneRow, NoWriteIsLost, RefusedIsNotStored

LEMMA InitInOrder == StorageAssumption /\ Init => StorageInvariant
<1> SUFFICES ASSUME StorageAssumption, Init  PROVE StorageInvariant
  OBVIOUS
<1>1. Off \in Activation /\ Off.on = FALSE /\ Off.value = {}
  BY DEF Off, Activation
<1>2. /\ DOMAIN rows = {} /\ rows \in [DOMAIN rows -> RowType]
      /\ \A s \in Slots : acts[s] = Off /\ writing[s] = NoWrite /\ stage[s] = "idle" /\ found[s] = {}
  BY DEF Init
<1>3. TypeOK
  BY <1>1, <1>2 DEF Init, TypeOK, StorageAssumption
<1>4. \A s \in Slots : CallOK(s) /\ LookedAtOK(s) /\ KnowledgeOK(s)
  BY <1>1, <1>2 DEF CallOK, LookedAtOK, KnowledgeOK, LockedBy
<1> QED
  BY <1>1, <1>2, <1>3, <1>4 DEF StorageInvariant, Init, OneRow, NumberedOK, UnsettledOK,
     NoWriteIsLost, RefusedIsNotStored

\* Every step keeps the invariant.
LEMMA NextKeeps ==
    ASSUME StorageAssumption, OneFirstWriter, StorageInvariant, [Next]_vars
    PROVE  StorageInvariant'
<1>1. CASE UNCHANGED vars
  BY <1>1 DEF vars, StorageInvariant, TypeOK, OneRow, CallOK, LookedAtOK, KnowledgeOK, NumberedOK, UnsettledOK,
     NoWriteIsLost, RefusedIsNotStored, LockedBy, Matches
<1>2. ASSUME NEW s \in Slots, WriteSucceeds(s)  PROVE StorageInvariant'
  <2>1. faults' \in 0..MaxFaults
    BY <1>2 DEF WriteSucceeds, StorageInvariant, TypeOK
  <2> QED  BY <1>2, <2>1, CommitKeeps DEF WriteSucceeds
<1>3. ASSUME NEW s \in Slots, CommitUnacknowledged(s)  PROVE StorageInvariant'
  <2>1. faults' \in 0..MaxFaults
    BY <1>3 DEF CommitUnacknowledged, StorageInvariant, TypeOK, StorageAssumption
  <2> QED  BY <1>3, <2>1, CommitKeeps DEF CommitUnacknowledged
<1>4. ASSUME NEW s \in Slots, WriteConflicts(s)  PROVE StorageInvariant'
  <2>1. faults' \in 0..MaxFaults /\ stage[s] # "idle"
    BY <1>4 DEF WriteConflicts, NothingCounted, StorageInvariant, TypeOK
  <2> QED  BY <1>4, <2>1, EndKeeps DEF WriteConflicts
<1>5. ASSUME NEW s \in Slots, Fails(s)  PROVE StorageInvariant'
  <2>1. faults' \in 0..MaxFaults
    BY <1>5 DEF Fails, StorageInvariant, TypeOK, StorageAssumption
  <2> QED  BY <1>5, <2>1, EndKeeps DEF Fails
<1> QED
  BY <1>1, <1>2, <1>3, <1>4, <1>5, ActivateKeeps, CallWriteKeeps, StatementKeeps DEF Next

-------------------------------------------------------------------------------

\* However calls of writetostorage overlap, fail and go unacknowledged, the rows, what
\* the activations know of them and what the calls have locked fit together.
THEOREM StorageInvariantHolds ==
    ASSUME StorageAssumption, OneFirstWriter
    PROVE  Spec => []StorageInvariant
<1>1. StorageInvariant /\ [Next]_vars => StorageInvariant'
  BY NextKeeps
<1> QED  BY InitInOrder, <1>1, PTL DEF Spec

\* No acknowledged write is ever missing from the row (orleans-persistence.sql:41-44).
THEOREM NothingIsLost ==
    ASSUME StorageAssumption, OneFirstWriter
    PROVE  Spec => []NoWriteIsLost
<1>1. StorageInvariant => NoWriteIsLost
  BY DEF StorageInvariant
<1> QED  BY StorageInvariantHolds, <1>1, PTL

\* A write that was refused has left nothing in the row (lines 52-53).
THEOREM NothingRefusedIsStored ==
    ASSUME StorageAssumption, OneFirstWriter
    PROVE  Spec => []RefusedIsNotStored
<1>1. StorageInvariant => RefusedIsNotStored
  BY DEF StorageInvariant
<1> QED  BY StorageInvariantHolds, <1>1, PTL

-------------------------------------------------------------------------------
(* The refinement.                                                         *)

LEMMA CellOfNoRow ==
    ASSUME DOMAIN rows = {}
    PROVE  TheCell = [version |-> 0, value |-> {}]
BY DEF TheCell

LEMMA CellOfRow ==
    ASSUME NEW r, DOMAIN rows = {r}
    PROVE  TheCell = [version |-> rows[r].version, value |-> rows[r].value]
<1>1. TheRow = r
  BY DEF TheRow
<1> QED  BY <1>1 DEF TheCell

\* The version of the cell is that of the row there is, if any.
LEMMA VersionOfCell ==
    ASSUME StorageInvariant
    PROVE  /\ DOMAIN rows = {} => TheCell.version = 0
           /\ \A r \in DOMAIN rows : TheCell.version = rows[r].version /\ rows[r].version # 0
<1>1. CASE DOMAIN rows = {}
  BY <1>1, CellOfNoRow
<1>2. ASSUME NEW r \in DOMAIN rows
      PROVE  TheCell.version = rows[r].version /\ rows[r].version # 0
  <2>1. DOMAIN rows = {r}
    BY DEF StorageInvariant, OneRow
  <2> QED  BY <2>1, CellOfRow, Fields DEF StorageInvariant
<1> QED  BY <1>1, <1>2

LEMMA InitImplements == StorageAssumption /\ Init => Cell!CellInit
<1> SUFFICES ASSUME StorageAssumption, Init  PROVE Cell!CellInit
  OBVIOUS
<1>1. TheCell = [version |-> 0, value |-> {}]
  BY CellOfNoRow DEF Init
<1>2. TheCell \in [version : Nat, value : SUBSET Writes]
  BY <1>1
<1> QED  BY <1>2 DEF Init, Cell!CellInit, Cell!Off, Cell!NoWrite, Off, NoWrite

LEMMA ActivateReads ==
    ASSUME StorageInvariant, NEW s \in Slots, Activate(s)
    PROVE  Cell!Read(s)
<1>1. acts' = [acts EXCEPT ![s] = Running(TheCell.version, TheCell.value)]
  <2>1. CASE DOMAIN rows = {}
    <3>1. TheCell.version = 0 /\ TheCell.value = {}
      BY <2>1, CellOfNoRow
    <3> QED  BY <2>1, <3>1 DEF Activate
  <2>2. CASE DOMAIN rows # {}
    <3>1. PICK r \in DOMAIN rows :
             acts' = [acts EXCEPT ![s] = Running(rows[r].version, rows[r].value)]
      BY <2>2 DEF Activate
    <3>2. DOMAIN rows = {r}
      BY DEF StorageInvariant, OneRow
    <3>3. TheCell.version = rows[r].version /\ TheCell.value = rows[r].value
      BY <3>2, CellOfRow
    <3> QED  BY <3>1, <3>3
  <2> QED  BY <2>1, <2>2
<1>2. ~acts[s].on /\ UNCHANGED <<rows, writing>>
  BY DEF Activate
<1>3. TheCell' = TheCell
  BY <1>2 DEF TheCell, TheRow
<1> QED  BY <1>1, <1>2, <1>3 DEF Cell!Read, Cell!Running, Running

LEMMA CallWriteStarts ==
    ASSUME StorageAssumption, StorageInvariant, NEW s \in Slots, CallWrite(s)
    PROVE  \E w \in Writes : Cell!Start(s, w)
<1>1. writes + 1 \in Writes
  BY DEF CallWrite, StorageInvariant, TypeOK, StorageAssumption, Writes
<1>2. writing[s] = NoWrite
  BY DEF CallWrite, StorageInvariant, CallOK
<1>3. TheCell' = TheCell
  BY DEF CallWrite, TheCell, TheRow
<1>4. Cell!Start(s, writes + 1)
  BY <1>2, <1>3 DEF CallWrite, Cell!Start, Cell!Running, Running, Cell!NoWrite, NoWrite
<1> QED  BY <1>1, <1>4

LEMMA CommitSwaps ==
    ASSUME StorageAssumption, OneFirstWriter, StorageInvariant, NEW s \in Slots, Commit(s),
           \/ UNCHANGED acts
           \/ acts' = [acts EXCEPT ![s] = Running(acts[s].version + 1, acts[s].value)]
    PROVE  Cell!Swap(s)
<1>1. PICK r \in Writes :
         /\ DOMAIN rows' = {r}
         /\ rows'[r].version = acts[s].version + 1 /\ rows'[r].value = acts[s].value
         /\ \A q \in DOMAIN rows : rows[q].version = acts[s].version
         /\ DOMAIN rows = {} => acts[s].version = 0
         /\ writing[s] # NoWrite
  BY CommitFacts
<1>2. TheCell.version = acts[s].version
  BY <1>1, VersionOfCell
<1>3. TheCell' = [version |-> acts[s].version + 1, value |-> acts[s].value]
  <2>1. TheRow' = r
    BY <1>1 DEF TheRow
  <2> QED  BY <1>1, <2>1 DEF TheCell
<1>4. writing' = [writing EXCEPT ![s] = NoWrite]
  BY DEF Commit, Finish
<1> QED
  BY <1>1, <1>2, <1>3, <1>4 DEF Cell!Swap, Cell!Running, Running, Cell!NoWrite, NoWrite

LEMMA ConflictRefuses ==
    ASSUME StorageInvariant, NEW s \in Slots, WriteConflicts(s)
    PROVE  Cell!Refuse(s)
<1>1. stage[s] \in {"update", "called"}
  BY DEF WriteConflicts, NothingCounted
<1>2. writing[s] # NoWrite /\ acts[s].on
  BY <1>1 DEF StorageInvariant, CallOK
<1>3. acts[s].version # TheCell.version
  <2>1. CASE stage[s] = "update"
    <3>0. found[s] = {} /\ LockedBy(s) = {}
      BY <2>1 DEF WriteConflicts, NothingCounted
    <3>4. acts[s].version > 0
      BY <2>1 DEF StorageInvariant, CallOK
    <3>5. DOMAIN rows = {} => acts[s].version = 0
      BY <1>2 DEF StorageInvariant, KnowledgeOK
    <3>1. DOMAIN rows # {} /\ found[s] = {} /\ LockedBy(s) = {}
      BY <3>0, <3>4, <3>5
    <3>2. PICK r \in DOMAIN rows : TRUE
      BY <3>1
    <3>3. acts[s].version < rows[r].version
      BY <2>1, <3>1 DEF StorageInvariant, LookedAtOK
    <3> QED  BY <3>3, VersionOfCell, Fields DEF StorageInvariant
  <2>2. CASE stage[s] = "called"
    BY <2>2, VersionOfCell DEF WriteConflicts, NothingCounted
  <2> QED  BY <1>1, <2>1, <2>2
<1>4. TheCell' = TheCell
  BY DEF WriteConflicts, TheCell, TheRow
<1> QED
  BY <1>2, <1>3, <1>4 DEF WriteConflicts, Finish, Cell!Refuse, Cell!Off, Off, Cell!NoWrite, NoWrite

LEMMA FailureFails ==
    ASSUME NEW s \in Slots, Fails(s)
    PROVE  Cell!Fail(s)
<1>1. TheCell' = TheCell
  BY DEF Fails, TheCell, TheRow
<1> QED  BY <1>1 DEF Fails, Finish, Cell!Fail, Cell!Off, Off, Cell!NoWrite, NoWrite

\* Inside a call nothing happens to the cell.
LEMMA StatementStutters ==
    ASSUME UNCHANGED <<rows, acts, writing>>
    PROVE  UNCHANGED Cell!cellVars
<1>1. TheCell' = TheCell
  BY DEF TheCell, TheRow
<1> QED  BY <1>1 DEF Cell!cellVars

LEMMA NextImplements ==
    ASSUME StorageAssumption, OneFirstWriter, StorageInvariant, [Next]_vars
    PROVE  [Cell!CellNext]_(Cell!cellVars)
<1>1. CASE UNCHANGED vars
  BY <1>1, StatementStutters DEF vars
<1>2. ASSUME NEW s \in Slots,
             BeginUpdate(s) \/ BeginInsert(s) \/ \E r \in DOMAIN rows : LockRow(s, r)
      PROVE  UNCHANGED Cell!cellVars
  <2>1. UNCHANGED <<rows, acts, writing>>
    BY <1>2 DEF BeginUpdate, BeginInsert, LockRow
  <2> QED  BY <2>1, StatementStutters
<1>3. ASSUME NEW s \in Slots, WriteSucceeds(s) \/ CommitUnacknowledged(s)
      PROVE  Cell!Swap(s)
  <2>1. /\ Commit(s)
        /\ \/ UNCHANGED acts
           \/ acts' = [acts EXCEPT ![s] = Running(acts[s].version + 1, acts[s].value)]
    BY <1>3 DEF WriteSucceeds, CommitUnacknowledged
  <2> QED  BY <2>1, CommitSwaps
<1> QED
  BY <1>1, <1>2, <1>3, ActivateReads, CallWriteStarts, ConflictRefuses, FailureFails
  DEF Next, Cell!CellNext

\* To the grain, writetostorage is a write to a versioned cell that happens in one step:
\* what UserBudgetGrain takes its storage for.
THEOREM StorageIsAVersionedCell ==
    ASSUME StorageAssumption, OneFirstWriter
    PROVE  Spec => ImplementsCell
<1>1. StorageInvariant /\ [Next]_vars => [Cell!CellNext]_(Cell!cellVars)
  BY NextImplements
<1> QED
  BY InitImplements, StorageInvariantHolds, <1>1, PTL DEF Spec, ImplementsCell, Cell!CellSpec
===============================================================================
