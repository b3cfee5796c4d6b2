-------------------------- MODULE MCBudgetResolution --------------------------
(***************************************************************************)
(* Small instances of BudgetResolution for TLC.                            *)
(***************************************************************************)
EXTENDS BudgetResolution, TLC

CONSTANTS g1, g2, e1, e2

\* Two groups, so that one may give more; a budget of zero and another one.
TwoGroups == {g1, g2}
TwoAmounts == {0, 1}
TwoEditors == {e1, e2}

\* Which group and which editor is which makes no difference.
Alike == Permutations(TwoGroups) \union Permutations(TwoEditors)
===============================================================================
