SPECIFICATION FairSpec
CONSTANTS
    Jobs = {j1}
    Runs = {k1, k2}
    Releases = {rel1}
    rel1 = rel1
    rel2 = rel2
    rel3 = rel3
    Page <- MCPage
    MaxFailures = 1
    MaxPauses = 1
    None = None
PROPERTY JobsSettle
CHECK_DEADLOCK FALSE
