SPECIFICATION Spec
CONSTANTS
    CheckinInterval = 2
    Patience = 3
    RecoverWindow = 2
    FailWindow = 4
    AnswerTimeout = 1
    Lag = 1
    MaxTime = 16
INVARIANTS
    TypeOK
    RefusingPanelDetected
    StuckOffEndsSession
    OffThroughRecoverWindow
PROPERTIES
    DeadOnlyAfterPatience
    ConnectionSpec
