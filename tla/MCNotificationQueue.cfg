\* The hand-over between poller and worker, with both threads scheduled fairly.
SPECIFICATION FairSpec
CONSTANTS
    Speeds = {0, 1, 2}
    Job <- MCJob
    NoJob = NoJob
INVARIANTS
    TypeOK
    SemMatchesQueue
    OneJobPerRec
    ActiveNamesJob
PROPERTY
    ImplementsSlots
