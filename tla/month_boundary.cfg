SPECIFICATION Spec
CONSTANTS
    Keys <- OneKey
    Callers = {"alice"}
    CallerOf <- TrimmedOne
    Slots = {"s1"}
    KeyOf <- OneSlot
    FirstWriters = {"s1"}
    Requests <- OneRequest
    NoRequest = "check"
    TargetOf <- ToAliceOnly
    IdOf <- OnlyId
    NoId = "none"
    TokensOf <- TokensOfOne
    QuotesOf <- QuotesOfOne
    UnknownModel = UnknownModel
    Budgets <- NoBudgets
    BudgetCacheTtl = 1
    AllowNonBudgetedUsers = FALSE
    PeriodOf <- EveryTick
    LagOf <- InStep
    MaxTime = 1
    MaxSends = 1
    MaxChanges = 0
    MaxFaults = 0
INVARIANTS
    SpendIsReconstructible
CHECK_DEADLOCK FALSE
