SPECIFICATION Spec
CONSTANTS
    Listener = Listener
    Commander = Commander
    SeqMod = 2
    Lag = 2
    MaxCalls = 2
    MaxEvents = 2
    MaxFaults = 1
INVARIANTS
    TypeOK
    MatchIsOwn
    EventsInOrder
PROPERTY
    ExchangeSpec
