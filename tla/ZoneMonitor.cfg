SPECIFICATION Spec
CONSTANTS
    Away = Away
    PartModes = {}
    NoMode = NoMode
    Zones = {z1, z2}
    InUse = {z1}
    Statuses = {0, 5}
    NoZone = NoZone
    BufferLen = 2
    MaxChanges = 4
    MaxReads = 1
    MaxFaults = 2
INVARIANTS
    TypeOK
    ZonesShown
    EntryHasSnapshot
PROPERTY
    PushNamesOpener
CHECK_DEADLOCK FALSE
