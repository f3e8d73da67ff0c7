CONSTANTS
    Checksum <- Crc8
    Frames <- MCFrames
    Strays <- MCStrays
    MaxFrames = 2
    MaxNoise = 1
SPECIFICATION FairSpec
INVARIANTS TypeOK DeliveredInOrder EndsForAReason
PROPERTY StreamIsRead
CHECK_DEADLOCK FALSE
