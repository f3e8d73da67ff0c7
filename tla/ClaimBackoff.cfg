SPECIFICATION Spec
CONSTANTS
    MaxExponent = 1024
    MaxLoginFailures = 1100
    MaxLives = 1
    MaxFaults = 0
    MaxTaps = 0
INVARIANT NeverGivesUp
CHECK_DEADLOCK FALSE
