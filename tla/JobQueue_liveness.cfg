SPECIFICATION FairSpec
CONSTANTS
    Jobs = {j1}
    Workers = {w1, w2}
    Reapers = {r1}
    MaxAttempts = 2
    MaxAge = 0
    NoMsg = NoMsg
PROPERTIES
    EventuallySettled
    EventuallyDrained
