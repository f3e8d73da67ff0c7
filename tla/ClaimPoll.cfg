SPECIFICATION FairSpec
CONSTANTS
    Away = Away
    PartModes = {}
    NoMode = NoMode
    MaxEvents = 2
    MaxTaps = 0
    MaxFaults = 1
PROPERTY
    PollCorrectsAlarm
