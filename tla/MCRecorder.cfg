CONSTANTS
    QueueMax = 1
    Period <- Periods
    EncoderDelay <- AudioLate
    MaxFrames <- VideoAhead
    MaxRounds = 2
    InitMayFail = TRUE
    EncoderMayFail = TRUE
    OutputMayFail = FALSE
SPECIFICATION Spec
CHECK_DEADLOCK FALSE
INVARIANTS RecorderTypeOK WrittenInOrder NothingLostWhileRecording RestsKnown NoCrashWhileRecording
