CONSTANTS
    Programs <- ProgramsOfEach
    Styles = {"own", "spaced", "reversed"}
    SendRooms = {9, 12, 100}
    MaxInits = 2
SPECIFICATION FairSpec
CHECK_DEADLOCK FALSE
INVARIANTS InitEndsKnown TrueMeansServed DescriptionsAgree
PROPERTIES InitReturns
