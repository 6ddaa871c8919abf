CONSTANTS
    QueueMax = 1
    Period <- Periods
    EncoderDelay <- NoneLate
    MaxFrames <- FewFrames
    MaxRounds = 1
    InitMayFail = FALSE
    EncoderMayFail = FALSE
    OutputMayFail = TRUE
SPECIFICATION FairSpec
CHECK_DEADLOCK FALSE
PROPERTIES StopReturns
