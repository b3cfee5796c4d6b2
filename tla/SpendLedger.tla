------------------------------ MODULE SpendLedger ------------------------------
(***************************************************************************)
(* What metering promises of every budget subject: an account of what it   *)
(* spent, which only goes forward, and a ledger of what was charged to it. *)
(* An entry of the ledger is charged before it is made, on top of          *)
(* everything charged until then, and made at most once.                   *)
(***************************************************************************)
EXTENDS Integers

CONSTANTS
    Accounts,       \* budget subjects
    Holders,        \* who charges them
    AccountOf,      \* [Holders -> Accounts]
    NoPeriod        \* of an account that was never charged

VARIABLES
    account,        \* [Accounts -> period and spend]
    pending,        \* [Holders -> the entry it has charged and not made, if any]
    ledger          \* the entries made

ledgerVars == <<account, pending, ledger>>

LedgerInit ==
    /\ account = [k \in Accounts |-> [period |-> NoPeriod, spend |-> 0]]
    /\ pending = [h \in Holders |-> {}]
    /\ ledger = {}

\* What is charged to k in this step comes on top of this.
ChargedUntilNow(k) == IF account'[k].period = account[k].period THEN account[k].spend ELSE 0

Entry(k, cost) == [key |-> k, accruedIn |-> account'[k].period,
                   after |-> account'[k].spend, cost |-> cost]

\* A new period begins, or a charge is made: of the entry that h keeps, and of
\* what h could not keep.
Charge(h) ==
    LET k == AccountOf[h]
    IN  /\ pending[h] = {}
        /\ account[k].period <= account'[k].period
        /\ ChargedUntilNow(k) <= account'[k].spend
        /\ account' = [account EXCEPT ![k] = account'[k]]
        /\ \/ UNCHANGED pending
           \/ \E cost \in 0 .. (account'[k].spend - ChargedUntilNow(k)) :
                 pending' = [pending EXCEPT ![h] = {Entry(k, cost)}]
        /\ UNCHANGED ledger

MakeEntry(h) ==
    /\ ledger' = ledger \cup pending[h]
    /\ pending' = [pending EXCEPT ![h] = {}]
    /\ UNCHANGED account

\* What was charged is never entered.
Forget(h) ==
    /\ pending' = [pending EXCEPT ![h] = {}]
    /\ UNCHANGED <<account, ledger>>

LedgerNext == \E h \in Holders : Charge(h) \/ MakeEntry(h) \/ Forget(h)

LedgerSpec == LedgerInit /\ [][LedgerNext]_ledgerVars
================================================================================
