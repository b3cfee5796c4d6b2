SPECIFICATION Spec
CONSTANTS
    Keys <- OneKey
    Callers = {"alice"}
    CallerOf <- TrimmedOne
    Slots = {"s1"}
    KeyOf <- OneSlot
    FirstWriters = {"s1"}
    Requests <- ThreeRequests
    NoRequest = "check"
    TargetOf <- AllToAlice
    IdOf <- OnlyFirstHasId
    NoId = "none"
    TokensOf <- TokensWithMalformed
    QuotesOf <- QuotesOfThree
    UnknownModel = UnknownModel
    Budgets <- NoBudgets
    BudgetCacheTtl = 1
    AllowNonBudgetedUsers = FALSE
    PeriodOf <- EveryTwoTicks
    LagOf <- InStep
    MaxTime = 2
    MaxSends = 2
    MaxChanges = 0
    MaxFaults = 2
INVARIANTS
    TypeOK
    AuditSlices
    AuditNeverExceedsSpend
    OneAccrualPerFault
PROPERTIES
    SpendNeverDecreases
    ChecksCountEveryCapture
CHECK_DEADLOCK FALSE
