SPECIFICATION FairSpec
CONSTANTS
    Keys <- OneKey
    Callers = {"alice"}
    CallerOf <- TrimmedOne
    Slots = {"s1", "s2"}
    KeyOf <- SplitBrain
    FirstWriters = {"s1"}
    Requests <- OneRequest
    NoRequest = "check"
    TargetOf <- ToAliceOnly
    IdOf <- OnlyId
    NoId = "none"
    TokensOf <- TokensOfOne
    QuotesOf <- QuotesOfOne
    UnknownModel = UnknownModel
    Budgets <- NoBudgets
    BudgetCacheTtl = 1
    AllowNonBudgetedUsers = FALSE
    PeriodOf <- EveryTick
    LagOf <- InStep
    MaxTime = 1
    MaxSends = 2
    MaxChanges = 0
    MaxFaults = 1
INVARIANTS
    AuditSlices
    AuditInvariant
PROPERTIES
    SpendNeverDecreases
    EveryCallEnds
    ImplementsLedger
CHECK_DEADLOCK FALSE
