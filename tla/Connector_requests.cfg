SPECIFICATION FairSpec
CONSTANTS
    Callers = {c1, c2}
    Nobody = Nobody
    Rate = 2
    Interval = 2
    MaxRetries = 2
    BaseDelay = 1
    MaxDelay = 2
    RetryAfters <- MCRetryAfters
    Threshold = 2
    Recovery = 2
INVARIANTS
    LoadIsShed
    RateKept
PROPERTIES
    EveryRequestEnds
    BreakerRecovers
