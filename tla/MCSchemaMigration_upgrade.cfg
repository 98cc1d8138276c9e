\* One instance upgraded from release 1 to a release with a misnamed up
\* script for version 3, then to the fixed release 2, between requests.
CONSTANTS
    Runners = {r1}
    NoRunner = NoRunner
    Releases <- MCReleasesMalformed
    SchemaLatest <- MCSchemaLatest
    Targets <- MCTargets
    LockBeforeRead = TRUE
    MaxRequests = 4
    MaxFailures = 1
SPECIFICATION Spec
PROPERTY ImplementsSchemaHistory
