SPECIFICATION FairSpec
CONSTANT
    MaxCalls = 6
INVARIANTS
    TypeOK
    PairingSound
    ReadersBounded
PROPERTIES
    WedgeIsFinal
    EveryCallReturns
    ReadersEnd
