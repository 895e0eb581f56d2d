CONSTANTS
    MaxRuns = 1
    LLVM16 = TRUE
SPECIFICATION FairSpec
INVARIANTS
    RunsMain
