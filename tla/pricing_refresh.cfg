SPECIFICATION FairSpec
CONSTANTS
    Providers <- TwoProviders
    Adapters <- InOrder
    Models <- ThreeModels
    FilesOf <- AnyFiles
    ProviderCadences <- OpenAIOneTick
    ProviderJitters <- OpenAINoJitter
    DefaultCadence = 1
    DefaultJitter = 1
    MaxTime = 2
    MaxFetches = 4
    MaxFaults = 2
INVARIANTS
    RefreshInvariant
    TableIsExact
PROPERTIES
    PricesStay
    EveryRunEnds
CHECK_DEADLOCK FALSE
