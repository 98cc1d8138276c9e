\* One instance of a release whose newest up script is shared by every provider.
CONSTANTS
    Runners = {r1}
    NoRunner = NoRunner
    Releases <- MCReleasesAllScope
    SchemaLatest <- MCSchemaLatest
    Targets <- MCTargets
    LockBeforeRead = TRUE
    MaxRequests = 3
    MaxFailures = 1
SPECIFICATION Spec
INVARIANT RequestReachesTarget
