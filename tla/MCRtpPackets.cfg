CONSTANTS
    MaxPayload = 1460
    Codecs = {"H264"}
    AccessUnits <- Units
    MaxFrames = 2
    MaxInFlight = 2
    MaxDoubled = 1
SPECIFICATION Spec
CHECK_DEADLOCK FALSE
INVARIANTS PacketsFit
