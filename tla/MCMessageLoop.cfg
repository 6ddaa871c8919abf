CONSTANTS
    Posters = {ui, extract}
    Destroyer = ui
    Messages = {kWhatStart, kWhatSeek}
    InitialCount = 2
    MaxPosts = 3
SPECIFICATION FairSpec
INVARIANTS PopFindsMessage TokensCoverMessages HandledInOrder
PROPERTIES EveryMessageHandled ExitIsSeen
CHECK_DEADLOCK FALSE
