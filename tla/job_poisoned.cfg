SPECIFICATION Spec
CONSTANTS
    Providers <- OneProvider
    Adapters <- Alone
    Models <- OneModel
    FilesOf <- OneFile
    ProviderCadences <- NothingConfigured
    ProviderJitters <- NothingConfigured
    DefaultCadence = 1
    DefaultJitter = 0
    MaxTime = 2
    MaxFetches = 2
    MaxFaults = 1
PROPERTIES
    ProperListIsPersisted
CHECK_DEADLOCK FALSE
