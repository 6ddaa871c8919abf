CONSTANTS
    FileStreams = {"video", "audio"}
    PacketStreams = {"audio"}
    PacketMax = 1
    FrameMax = 1
    Frames = {0, 1}
    MaxStart = 1
    MaxPause = 1
    MaxSeek = 1
    MayEnd = FALSE
    MayDestroy = FALSE
    SeekMayFail = TRUE
    DeviceMayFail = FALSE
SPECIFICATION FairSpec
CHECK_DEADLOCK FALSE
PROPERTIES HandlersReturn SeekEnds
