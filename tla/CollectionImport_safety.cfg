SPECIFICATION Spec
CONSTANTS
    Jobs = {j1}
    Runs = {k1, k2}
    Releases = {rel1, rel2, rel3}
    rel1 = rel1
    rel2 = rel2
    rel3 = rel3
    Page <- MCPage
    MaxFailures = 2
    MaxPauses = 1
    None = None
SYMMETRY RunSymmetry
INVARIANTS
    ResumeSkipsNothing
    CompletionIsComplete
    DuplicatesNeedOverlap
    FlagsMatchTasks
PROPERTY ProgressKept
CHECK_DEADLOCK FALSE
