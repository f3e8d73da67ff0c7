SPECIFICATION Spec
CONSTANTS
    Away = Away
    PartModes = {}
    NoMode = NoMode
    Zones = {z1, z2}
    InUse = {z1}
    Statuses = {0, 5}
    NoZone = NoZone
    BufferLen = 2
    MaxChanges = 3
    MaxReads = 1
    MaxFaults = 0
INVARIANT
    SnapshotNamesOpener
CHECK_DEADLOCK FALSE
