\* Two instances of one release share the database; the advisory lock is
\* taken before the current version is read.
CONSTANTS
    Runners = {r1, r2}
    NoRunner = NoRunner
    Releases <- MCReleasesOne
    SchemaLatest <- MCSchemaLatest
    Targets <- MCTargets
    LockBeforeRead = TRUE
    MaxRequests = 4
    MaxFailures = 1
SPECIFICATION Spec
INVARIANT TypeOK
INVARIANT RequestReachesTarget
PROPERTY ImplementsSchemaHistory
