SPECIFICATION Spec
CONSTANTS
    Keys <- OneKey
    Callers = {"alice"}
    CallerOf <- TrimmedOne
    Slots = {"s1"}
    KeyOf <- OneSlot
    FirstWriters = {"s1"}
    Requests <- OneRequest
    NoRequest = "check"
    TargetOf <- ToAliceOnly
    IdOf <- OnlyId
    NoId = "none"
    TokensOf <- TokensOfOne
    QuotesOf <- QuotesOfOne
    UnknownModel = UnknownModel
    Budgets <- NoBudgets
    BudgetCacheTtl = 1
    AllowNonBudgetedUsers = FALSE
    PeriodOf <- EveryTick
    LagOf <- InStep
    MaxTime = 0
    MaxSends = 2
    MaxChanges = 0
    MaxFaults = 1
INVARIANTS
    DuplicateNeverDoubleAccrues
CHECK_DEADLOCK FALSE
