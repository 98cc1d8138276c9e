\* Two instances of one release; the advisory lock is taken only to apply
\* a plan, as spec 5 words it, after the current version has been read.
CONSTANTS
    Runners = {r1, r2}
    NoRunner = NoRunner
    Releases <- MCReleasesOne
    SchemaLatest <- MCSchemaLatest
    Targets <- MCTargets
    LockBeforeRead = FALSE
    MaxRequests = 2
    MaxFailures = 0
SPECIFICATION Spec
PROPERTY StepRunsOnAssumedSchema
