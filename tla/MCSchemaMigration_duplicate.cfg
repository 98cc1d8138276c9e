\* One instance, a catalog with two applicable up scripts for version 2.
CONSTANTS
    Runners = {r1}
    NoRunner = NoRunner
    Releases <- MCReleasesDuplicate
    SchemaLatest <- MCSchemaLatest
    Targets <- MCTargets
    LockBeforeRead = TRUE
    MaxRequests = 2
    MaxFailures = 0
SPECIFICATION Spec
PROPERTY ImplementsSchemaHistory
