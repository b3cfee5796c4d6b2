----------------------------- MODULE VersionedCell -----------------------------
(***************************************************************************)
(* What the grain may expect of its storage: one versioned value, and      *)
(* writes that take effect in one step, on top of the version they were    *)
(* made from or not at all.  A value is the set of the writes it contains. *)
(***************************************************************************)
EXTENDS Naturals

CONSTANTS
    Slots,          \* activations of the grain, at most one unless the cluster is split
    Writes

VARIABLES
    cell,           \* version (0: never written) and value
    acts,           \* of each activation: whether it runs, the version and value it has
    writing         \* the write an activation waits for, NoWrite if none

cellVars == <<cell, acts, writing>>

NoWrite == 0
Off == [on |-> FALSE, version |-> 0, value |-> {}]
Running(version, value) == [on |-> TRUE, version |-> version, value |-> value]

CellInit ==
    /\ cell \in [version : Nat, value : SUBSET Writes]
    /\ acts = [s \in Slots |-> Off]
    /\ writing = [s \in Slots |-> NoWrite]

\* The activation starts from what is stored.
Read(s) ==
    /\ ~acts[s].on
    /\ acts' = [acts EXCEPT ![s] = Running(cell.version, cell.value)]
    /\ UNCHANGED <<cell, writing>>

Start(s, w) ==
    /\ acts[s].on /\ writing[s] = NoWrite
    /\ writing' = [writing EXCEPT ![s] = w]
    /\ acts' = [acts EXCEPT ![s] = Running(@.version, @.value \union {w})]
    /\ UNCHANGED cell

\* The write takes effect; its caller may hear of it or not.
Swap(s) ==
    /\ writing[s] # NoWrite
    /\ acts[s].version = cell.version
    /\ cell' = [version |-> cell.version + 1, value |-> acts[s].value]
    /\ writing' = [writing EXCEPT ![s] = NoWrite]
    /\ acts' \in {acts, [acts EXCEPT ![s] = Running(@.version + 1, @.value)]}

\* Another version is stored: the activation ends.
Refuse(s) ==
    /\ writing[s] # NoWrite
    /\ acts[s].version # cell.version
    /\ acts' = [acts EXCEPT ![s] = Off]
    /\ writing' = [writing EXCEPT ![s] = NoWrite]
    /\ UNCHANGED cell

\* The call fails without an effect, or the activation with it.
Fail(s) ==
    /\ acts' \in {acts, [acts EXCEPT ![s] = Off]}
    /\ writing' = [writing EXCEPT ![s] = NoWrite]
    /\ UNCHANGED cell

CellNext == \E s \in Slots :
    \/ Read(s)
    \/ \E w \in Writes : Start(s, w)
    \/ Swap(s)
    \/ Refuse(s)
    \/ Fail(s)

CellSpec == CellInit /\ [][CellNext]_cellVars
================================================================================
