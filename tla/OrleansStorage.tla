---------------------------- MODULE OrleansStorage ----------------------------
(***************************************************************************)
(* The rows of one grain in OrleansStorage and the function that writes    *)
(* them, writetostorage (docker/postgres/orleans-persistence.sql:19-134),  *)
(* statement by statement, with the calls of several activations at once.  *)
(*                                                                         *)
(* External: PostgreSQL at READ COMMITTED.  A statement sees what was      *)
(* committed when it began; an UPDATE locks the rows it found, waits for   *)
(* those another transaction has locked, and looks again at its condition  *)
(* when it has a row.  Changes appear at the commit.  The table has no     *)
(* unique index (lines 1-17), so a grain may get several rows.             *)
(***************************************************************************)
EXTENDS Naturals, FiniteSets

CONSTANTS
    Slots,          \* activations of the grain, at most one unless the cluster is split
    FirstWriters,   \* activations that may start before the grain has a row; in normal
                    \* operation one, a split brain may make it more
    MaxWrites,      \* bound: calls of writetostorage
    MaxFaults       \* bound: failed calls, crashes

ASSUME StorageAssumption ==
    FirstWriters \subseteq Slots /\ "nobody" \notin Slots /\ MaxWrites \in Nat /\ MaxFaults \in Nat

Writes == 1..MaxWrites

VARIABLES
    rows,           \* the committed rows, by the write that inserted them
    locks,          \* the activation whose transaction has locked a row
    acts,           \* of each activation: runs, version (0: NULL) and value it has
    writing,        \* the write its call of writetostorage is for
    stage,          \* how far that call is
    found,          \* rows its UPDATE has found and not yet looked at again
    writes,         \* writes so far
    faults,
    acked,          \* history: writes whose activation was told a new version
    refused         \* history: writes whose activation was told its old one

vars == <<rows, locks, acts, writing, stage, found, writes, faults, acked, refused>>

NoWrite == 0
Nobody == "nobody"
Off == [on |-> FALSE, version |-> 0, value |-> {}]
Running(version, value) == [on |-> TRUE, version |-> version, value |-> value]

Init ==
    /\ rows = [r \in {} |-> [version |-> 1, value |-> {}]]
    /\ locks = [r \in Writes |-> Nobody]
    /\ acts = [s \in Slots |-> Off]
    /\ writing = [s \in Slots |-> NoWrite]
    /\ stage = [s \in Slots |-> "idle"]
    /\ found = [s \in Slots |-> {}]
    /\ writes = 0 /\ faults = 0
    /\ acked = {} /\ refused = {}

-------------------------------------------------------------------------------

\* The state is read at activation; of two rows the reader may get either.
Activate(s) ==
    /\ ~acts[s].on
    /\ \/ /\ DOMAIN rows = {} /\ s \in FirstWriters
          /\ acts' = [acts EXCEPT ![s] = Running(0, {})]
       \/ \E r \in DOMAIN rows :
             acts' = [acts EXCEPT ![s] = Running(rows[r].version, rows[r].value)]
    /\ UNCHANGED <<rows, locks, writing, stage, found, writes, faults, acked, refused>>

\* WriteStateAsync, with something new in the state.
CallWrite(s) ==
    /\ acts[s].on /\ stage[s] = "idle" /\ writes < MaxWrites
    /\ writes' = writes + 1
    /\ writing' = [writing EXCEPT ![s] = writes + 1]
    /\ acts' = [acts EXCEPT ![s] = Running(@.version, @.value \union {writes + 1})]
    /\ stage' = [stage EXCEPT ![s] = "called"]
    /\ UNCHANGED <<rows, locks, found, faults, acked, refused>>

\* The WHERE clause of the UPDATE, as far as versions decide.
\* Mutant: the version is not compared.
Matches_AnyVersion(s, r) == TRUE
Matches(s, r) == rows[r].version = acts[s].version

LockedBy(s) == {r \in DOMAIN rows : locks[r] = s}
Unlocked(s) == [r \in DOMAIN locks |-> IF locks[r] = s THEN Nobody ELSE locks[r]]

\* The transaction is over and so is the call.
Finish(s) ==
    /\ stage' = [stage EXCEPT ![s] = "idle"]
    /\ found' = [found EXCEPT ![s] = {}]
    /\ writing' = [writing EXCEPT ![s] = NoWrite]
    /\ locks' = Unlocked(s)

\* The state has been read: the UPDATE begins.
BeginUpdate(s) ==
    /\ stage[s] = "called" /\ acts[s].version # 0
    /\ stage' = [stage EXCEPT ![s] = "update"]
    /\ found' = [found EXCEPT ![s] = {r \in DOMAIN rows : Matches(s, r)}]
    /\ UNCHANGED <<rows, locks, acts, writing, writes, faults, acked, refused>>

LockRow(s, r) ==
    /\ stage[s] = "update" /\ r \in found[s] /\ locks[r] = Nobody
    /\ found' = [found EXCEPT ![s] = @ \ {r}]
    /\ locks' = IF Matches(s, r) THEN [locks EXCEPT ![r] = s] ELSE locks
    /\ UNCHANGED <<rows, acts, writing, stage, writes, faults, acked, refused>>

\* The state has not been read: the INSERT looks for a row, and inserts later.
\* Mutant: without NOT EXISTS.
BeginInsert_Always(s) ==
    /\ stage[s] = "called" /\ acts[s].version = 0
    /\ stage' = [stage EXCEPT ![s] = "insert"]
    /\ UNCHANGED <<rows, locks, acts, writing, found, writes, faults, acked, refused>>
BeginInsert(s) ==
    /\ stage[s] = "called" /\ acts[s].version = 0 /\ DOMAIN rows = {}
    /\ stage' = [stage EXCEPT ![s] = "insert"]
    /\ UNCHANGED <<rows, locks, acts, writing, found, writes, faults, acked, refused>>

\* RowCountVar > 0.
Counted(s) == \/ stage[s] = "insert"
              \/ stage[s] = "update" /\ found[s] = {} /\ LockedBy(s) # {}

NewRow(s, version) == [version |-> version, value |-> acts[s].value]
Commit(s) ==
    /\ Counted(s)
    /\ rows' = IF stage[s] = "update"
               THEN [r \in DOMAIN rows |->
                        IF locks[r] = s THEN NewRow(s, rows[r].version + 1) ELSE rows[r]]
               ELSE [r \in DOMAIN rows \union {writing[s]} |->
                        IF r = writing[s] THEN NewRow(s, 1) ELSE rows[r]]
    /\ Finish(s)

\* Mutant: the version is not counted up after the INSERT.
WriteSucceeds_SameVersion(s) ==
    /\ Commit(s)
    /\ IF stage[s] = "insert"
       THEN /\ acts' = [acts EXCEPT ![s] = Off]
            /\ refused' = refused \union {writing[s]} /\ UNCHANGED acked
       ELSE /\ acts' = [acts EXCEPT ![s] = Running(@.version + 1, @.value)]
            /\ acked' = acked \union {writing[s]} /\ UNCHANGED refused
    /\ UNCHANGED <<writes, faults>>

\* _newGrainStateVersion comes back.
WriteSucceeds(s) ==
    /\ Commit(s)
    /\ acts' = [acts EXCEPT ![s] = Running(@.version + 1, @.value)]
    /\ acked' = acked \union {writing[s]}
    /\ UNCHANGED <<writes, faults, refused>>

CommitUnacknowledged(s) ==
    /\ faults < MaxFaults /\ faults' = faults + 1
    /\ Commit(s)
    /\ UNCHANGED <<acts, writes, acked, refused>>

\* No row: _GrainStateVersion comes back unchanged, which Orleans takes for
\* InconsistentStateException, and ends the activation.
NothingCounted(s) ==
    \/ stage[s] = "update" /\ found[s] = {} /\ LockedBy(s) = {}
    \/ stage[s] = "called" /\ acts[s].version = 0 /\ DOMAIN rows # {}
\* Mutants: the new version is returned whatever RowCountVar is; the call tries again.
WriteConflicts_Counted(s) ==
    /\ NothingCounted(s)
    /\ Finish(s)
    /\ acts' = [acts EXCEPT ![s] = Running(@.version + 1, @.value)]
    /\ acked' = acked \union {writing[s]}
    /\ UNCHANGED <<rows, writes, faults, refused>>
WriteConflicts_Retried(s) ==
    /\ NothingCounted(s)
    /\ stage' = [stage EXCEPT ![s] = "called"]
    /\ UNCHANGED <<rows, locks, acts, writing, found, writes, faults, acked, refused>>
WriteConflicts(s) ==
    /\ NothingCounted(s)
    /\ Finish(s)
    /\ acts' = [acts EXCEPT ![s] = Off]
    /\ refused' = refused \union {writing[s]}
    /\ UNCHANGED <<rows, writes, faults, acked>>

\* The transaction is rolled back; the activation lives on, or dies, too.
Fails(s) ==
    /\ acts[s].on
    /\ faults < MaxFaults /\ faults' = faults + 1
    /\ \/ stage[s] # "idle" /\ UNCHANGED acts
       \/ acts' = [acts EXCEPT ![s] = Off]
    /\ Finish(s)
    /\ UNCHANGED <<rows, writes, acked, refused>>

-------------------------------------------------------------------------------

Statement(s) ==
    \/ BeginUpdate(s)
    \/ \E r \in DOMAIN rows : LockRow(s, r)
    \/ BeginInsert(s)
    \/ WriteSucceeds(s)
    \/ WriteConflicts(s)

Next == \E s \in Slots :
    \/ Activate(s)
    \/ CallWrite(s)
    \/ BeginUpdate(s)
    \/ \E r \in DOMAIN rows : LockRow(s, r)
    \/ BeginInsert(s)
    \/ WriteSucceeds(s)
    \/ CommitUnacknowledged(s)
    \/ WriteConflicts(s)
    \/ Fails(s)

Spec == Init /\ [][Next]_vars

\* PostgreSQL goes on with a statement it has begun.
FairSpec == Spec /\ \A s \in Slots : WF_vars(Statement(s))
-------------------------------------------------------------------------------
(* Properties.                                                             *)

Activation == [on : BOOLEAN, version : Nat, value : SUBSET Writes]
RowType == [version : Nat, value : SUBSET Writes]

TypeOK ==
    /\ DOMAIN rows \subseteq Writes
    /\ rows \in [DOMAIN rows -> RowType]
    /\ locks \in [Writes -> Slots \union {Nobody}]
    /\ acts \in [Slots -> Activation]
    /\ writing \in [Slots -> {NoWrite} \union Writes]
    /\ stage \in [Slots -> {"idle", "called", "update", "insert"}]
    /\ found \in [Slots -> SUBSET Writes]
    /\ writes \in 0..MaxWrites /\ faults \in 0..MaxFaults
    /\ acked \subseteq Writes /\ refused \subseteq Writes

\* What a call of writetostorage holds: a row it has locked has the version the
\* activation read and cannot change under it.
CallOK(s) ==
    /\ stage[s] = "idle" <=> writing[s] = NoWrite
    /\ stage[s] # "idle" => acts[s].on /\ writing[s] \in acts[s].value
    /\ stage[s] = "update" => acts[s].version > 0
    /\ stage[s] = "insert" => acts[s].version = 0 /\ DOMAIN rows = {}
    /\ found[s] \subseteq DOMAIN rows
    /\ \A r \in LockedBy(s) :
          stage[s] = "update" /\ r \notin found[s] /\ Matches(s, r)

\* A row an UPDATE has looked at and not locked is ahead of its activation.
LookedAtOK(s) == stage[s] = "update" =>
    \A r \in DOMAIN rows \ (found[s] \union LockedBy(s)) : acts[s].version < rows[r].version

\* A grain has one row at most.
OneRow == \A q, r \in DOMAIN rows : q = r

\* What an activation knows of the row: no version to come, and all of the value
\* if it has the version that is stored.  Before there is a row, it has read none.
KnowledgeOK(s) == acts[s].on =>
    /\ DOMAIN rows = {} => s \in FirstWriters /\ acts[s].version = 0
    /\ \A r \in DOMAIN rows :
          /\ acts[s].version \in 0..rows[r].version
          /\ acts[s].version = rows[r].version => rows[r].value \subseteq acts[s].value

\* No write an activation was told of is ever missing from a row, whichever
\* transactions overlap: `the updates should work correctly due to version number'
\* (orleans-persistence.sql:43-44).
NoWriteIsLost == \A r \in DOMAIN rows : acked \subseteq rows[r].value

\* A write whose version came back unchanged has left nothing behind (lines 52-53), so
\* that the activation may be ended and the call sent again.
RefusedIsNotStored == \A r \in DOMAIN rows : refused \intersect rows[r].value = {}

\* A write that is not settled is known to its own activation only.
UnsettledOK ==
    /\ \A s \in Slots : writing[s] # NoWrite =>
          /\ \A r \in DOMAIN rows : writing[s] \notin rows[r].value
          /\ \A t \in Slots \ {s} : writing[s] \notin acts[t].value
    /\ \A s \in Slots : acts[s].value \intersect refused = {}

\* Writes are numbered as they come.
NumberedOK ==
    /\ \A r \in DOMAIN rows : \A w \in rows[r].value : w <= writes
    /\ \A s \in Slots : \A w \in acts[s].value : w <= writes
    /\ \A w \in acked \union refused : w <= writes

\* The inductive invariant, for at most one first writer.
StorageInvariant ==
    /\ TypeOK
    /\ OneRow
    /\ \A r \in Writes : locks[r] # Nobody => r \in DOMAIN rows
    /\ \A s \in Slots : CallOK(s) /\ LookedAtOK(s) /\ KnowledgeOK(s)
    /\ \A r \in DOMAIN rows : rows[r].version > 0
    /\ NumberedOK
    /\ UnsettledOK
    /\ DOMAIN rows = {} => acked = {}
    /\ NoWriteIsLost
    /\ RefusedIsNotStored

\* Writes that overlap are, to the grain, writes to a versioned cell that happen in one
\* step each.
TheRow == CHOOSE r \in DOMAIN rows : TRUE
TheCell == IF DOMAIN rows = {} THEN [version |-> 0, value |-> {}]
           ELSE [version |-> rows[TheRow].version, value |-> rows[TheRow].value]
Cell == INSTANCE VersionedCell WITH cell <- TheCell
ImplementsCell == Cell!CellSpec

\* Every call of writetostorage comes back: whoever waits for a row gets it.
EveryWriteReturns == \A s \in Slots : stage[s] # "idle" ~> stage[s] = "idle"

\* `the following locks rather pessimistically to ensure only one INSERT succeeds'
\* (lines 81-82; also 46-50).
OnlyOneInsertSucceeds == Cardinality(DOMAIN rows) <= 1
===============================================================================
