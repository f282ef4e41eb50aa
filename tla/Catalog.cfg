SPECIFICATION FairSpec
CONSTANTS
    run1 = run1
    run2 = run2
    search = search
    bind = bind
    Run = {run1, run2}
    Search = {search}
    Binding = {bind}
    Code = {1, 2, 3}
    Absent = Absent
    Empty = Empty
    Swept = Swept
    CleanupAge = 1
    Kept = Kept
    Before = Before
    PageSize = 2
    MaxPages = 3
    MinTotal = 2
    StatusEvery = 1
    ImportEvery = 2
    BatchSize = 2
    Attempts = 2
    MaxCrashes = 1
    Horizon = 2
CONSTRAINT OneMoreActor
INVARIANTS
    CompletedMirrorsSnapshot
    TruncatedNeverClears
    RunningIsReleased
PROPERTY EveryDownloadEnds
