-------------------------- MODULE UserBudgetLedger --------------------------
(***************************************************************************)
(* What the audit table adds up to, against the spend the grain keeps.     *)
(*                                                                         *)
(* The costs added up are natural numbers (NonNegativeTokens), and a sum   *)
(* of naturals is written as the size of a set: one element for every unit *)
(* of every cost.  A recursive sum is out of reach of the provers; this    *)
(* one takes the theorems about finite sets, and grows by e.cost when e    *)
(* joins (lemma CostAddsUp in UserBudgetLedgerProofs).                     *)
(***************************************************************************)
EXTENDS UserBudgetGrain

CostOf(rows) == Cardinality(UNION {{e} \X (1 .. e.cost) : e \in rows})

\* The captures of k whose cost is in the stored spend and in no row yet.
Unaudited(k) ==
    {s \in Slots : KeyOf[s] = k /\ Charging(s) /\ mem[s].period = stored[k].period}

\* The rows in the stored period of k, and what is to become one.
Audited(k) == {e \in usageEvents : e.key = k /\ e.accruedIn = stored[k].period}
ToAudit(k) == {[slot |-> s, after |-> mem[s].spend, cost |-> call[s].cost] : s \in Unaudited(k)}

\* The audited costs never exceed the spend they went into, whatever fails.
AuditNeverExceedsSpend ==
    \A k \in Keys : CostOf(Audited(k)) <= stored[k].spend

\* Without failures the audit table accounts for the spend exactly, up to the
\* captures that are between their write and their append (lines 140-163).
AuditAccountsForSpend ==
    \A k \in Keys : stored[k].spend = CostOf(Audited(k)) + CostOf(ToAudit(k))

\* SPEC 9.4: "Running spend can be reconstructed by summing cost_amount per
\* caller_id per period", at any moment when no call is running.
SpendIsReconstructible ==
    (\A s \in Slots : pc[s] \in {"idle", "down"}) =>
       \A k \in Keys :
          stored[k].spend =
             CostOf({e \in usageEvents : e.caller = CallerOf[k] /\ e.period = stored[k].period})

-----------------------------------------------------------------------------
(* The grain and its stores, seen as a ledger of the spend. *)

Account(k) == [period |-> stored[k].period, spend |-> stored[k].spend]
Pending(s) == IF Charging(s) THEN {Claim(s)} ELSE {}
Entry(e) == [key |-> e.key, accruedIn |-> e.accruedIn, after |-> e.after, cost |-> e.cost]

Ledger == INSTANCE SpendLedger WITH
    Accounts <- Keys,
    Holders <- Slots,
    AccountOf <- KeyOf,
    account <- [k \in Keys |-> Account(k)],
    pending <- [s \in Slots |-> Pending(s)],
    ledger <- {Entry(e) : e \in usageEvents}

\* The grain keeps a ledger: its row is charged before it is written, once, on top
\* of all that was charged until then, and a write only takes the account forward
\* (lines 136-163 and 193-204), whatever fails and whichever activation writes after
\* the first write.
ImplementsLedger == Ledger!LedgerSpec
=============================================================================
