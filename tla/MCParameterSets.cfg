CONSTANTS
    Headers <- SomeHeaders
    Tails <- SomeTails
    MaxUnits = 2
    LengthSizes = {1, 4}
SPECIFICATION Spec
INVARIANTS FormatsAgree
CHECK_DEADLOCK FALSE
