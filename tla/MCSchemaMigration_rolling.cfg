\* Two instances during a rolling upgrade: one still runs release 1.
CONSTANTS
    Runners = {r1, r2}
    NoRunner = NoRunner
    Releases <- MCReleasesRolling
    SchemaLatest <- MCSchemaLatest
    Targets <- MCTargets
    LockBeforeRead = TRUE
    MaxRequests = 4
    MaxFailures = 1
SPECIFICATION Spec
PROPERTY StepRunsOnAssumedSchema
