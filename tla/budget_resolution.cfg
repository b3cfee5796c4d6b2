SPECIFICATION Spec
CONSTANTS
    Groups <- TwoGroups
    Amounts <- TwoAmounts
    Editors <- TwoEditors
    MaxEdits = 3
    g1 = g1
    g2 = g2
    e1 = e1
    e2 = e2
SYMMETRY Alike
INVARIANTS
    ResolutionInvariant
    KeptBudgetsCount
    NothingIsInvented
    OneEditIsSeenWhole
    UpsertTookEffect
    RefusedIfOvertaken
CHECK_DEADLOCK FALSE
