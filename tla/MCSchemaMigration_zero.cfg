\* One instance of a release with a version-0 down script.
CONSTANTS
    Runners = {r1}
    NoRunner = NoRunner
    Releases <- MCReleasesZero
    SchemaLatest <- MCSchemaLatest
    Targets <- MCTargets
    LockBeforeRead = TRUE
    MaxRequests = 3
    MaxFailures = 0
SPECIFICATION Spec
PROPERTY ImplementsSchemaHistory
