SPECIFICATION Spec
CONSTANTS
    Away = Away
    PartModes = {Home, Night}
    NoMode = NoMode
    Unused = Unused
    ZoneCounts = {88, 168}
INVARIANTS
    BitmapReadsBack
    ReadingsAgree
    ArmRoundTrip
    PollSettles
