SPECIFICATION Spec
CONSTANTS
    Away = Away
    PartModes = {}
    NoMode = NoMode
    MaxEvents = 0
    MaxTaps = 1
    MaxFaults = 1
PROPERTY
    HangUpTurnsConnectionOff
