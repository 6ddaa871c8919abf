CONSTANTS
    MaxPayload = 1460
    Codecs = {"H264", "HEVC", "AAC"}
    AccessUnits <- Units
    MaxFrames = 2
    MaxInFlight = 2
    MaxDoubled = 1
SPECIFICATION Spec
CHECK_DEADLOCK FALSE
INVARIANTS WholeNalusSurvive TwiceOnlyIfDoubled LossesKnown
