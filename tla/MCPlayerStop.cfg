CONSTANTS
    FileStreams = {"video", "audio"}
    PacketStreams = {"audio"}
    PacketMax = 1
    FrameMax = 1
    Frames = {0, 1}
    MaxStart = 2
    MaxPause = 1
    MaxSeek = 1
    MayEnd = TRUE
    MayDestroy = TRUE
    SeekMayFail = FALSE
    DeviceMayFail = TRUE
SPECIFICATION Spec
CHECK_DEADLOCK FALSE
INVARIANTS PauseIsSilent NoLostResume PlayerTypeOK StateAgrees RestsKnown ClockFromFrames
