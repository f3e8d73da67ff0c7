SPECIFICATION FairSpec
CONSTANTS
    Listener = Listener
    Commander = Commander
    SeqMod = 2
    Lag = 1
    MaxCalls = 2
    MaxEvents = 1
    MaxFaults = 1
PROPERTY
    CommandsEnd
