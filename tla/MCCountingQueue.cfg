CONSTANTS
    Threads = {t1, t2, t3}
    Values = {a, b}
    MaxCount = 2
    NoValue = NoValue
SPECIFICATION FairSpec
INVARIANTS NoLostWakeup
PROPERTIES ImplementsChannel
