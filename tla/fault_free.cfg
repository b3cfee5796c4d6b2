SPECIFICATION FairSpec
CONSTANTS
    Keys <- OneKey
    Callers = {"alice"}
    CallerOf <- TrimmedOne
    Slots = {"s1"}
    KeyOf <- OneSlot
    FirstWriters = {"s1"}
    Requests <- TwoRequests
    NoRequest = "check"
    TargetOf <- ToAlice
    IdOf <- FirstHasId
    NoId = "none"
    TokensOf <- TokensOfTwo
    QuotesOf <- QuotesWithUnknown
    UnknownModel = UnknownModel
    Budgets <- SomeBudgets
    BudgetCacheTtl = 1
    AllowNonBudgetedUsers = FALSE
    PeriodOf <- EveryTwoTicks
    LagOf <- InStep
    MaxTime = 2
    MaxSends = 2
    MaxChanges = 1
    MaxFaults = 0
INVARIANTS
    AuditAccountsForSpend
    DuplicateNeverDoubleAccrues
    BudgetWithinTtl
PROPERTIES
    EveryCaptureIsAudited
    ExhaustedBudgetIsDenied
CHECK_DEADLOCK FALSE
