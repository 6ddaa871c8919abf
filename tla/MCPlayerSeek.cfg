CONSTANTS
    FileStreams = {"video", "audio"}
    PacketStreams = {"video"}
    PacketMax = 1
    FrameMax = 1
    Frames = {0, 1, 2}
    MaxStart = 2
    MaxPause = 0
    MaxSeek = 2
    MayEnd = FALSE
    MayDestroy = FALSE
    SeekMayFail = TRUE
    DeviceMayFail = FALSE
SPECIFICATION Spec
CHECK_DEADLOCK FALSE
INVARIANTS CodecsFlushedAlone ObjectsExistWhenUsed CrashesKnown OnlyFreshData
PROPERTIES ResumesWhereAsked NothingDroppedWhilePlaying
