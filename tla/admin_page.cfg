SPECIFICATION FairSpec
CONSTANT
    Calls <- ThreeCalls
INVARIANTS
    PageInvariant
    NeverStranded
    DialogMatchesCircuit
    NothingResumableIsDiscarded
PROPERTIES
    EntryUncoversPage
    ComesBack
