CONSTANTS
    MaxRuns = 3
    LLVM16 = TRUE
SPECIFICATION FairSpec
INVARIANTS
    TypeOK
    FilesOfExecuted
    ObjectNotNewer
PROPERTIES
    FilesOnlyOfGenerated
    Progresses
