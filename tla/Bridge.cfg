SPECIFICATION FairSpec
CONSTANTS
    Away = Away
    PartModes = {}
    NoMode = NoMode
    MaxEvents = 1
    MaxTaps = 2
    MaxFaults = 2
INVARIANTS
    TypeOK
    LinkMatchesTrust
    AckMemoryWithinGate
    ConnectionOffWhileHealing
PROPERTIES
    FlagsKeepTransient
    DriftCorrected
    ConnectionRecovers
    ConnectionSpec
