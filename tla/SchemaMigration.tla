---------------------------- MODULE SchemaMigration ----------------------------
(***************************************************************************)
(* Migrating one database with the engine of MigrationCatalog.             *)
(*                                                                         *)
(* The preflight checks (schemaMigrateChecks) and the runner that applies *)
(* a plan and appends one migration record per step live outside src/;    *)
(* they are modelled from spec.md sections 4.3, 5 and 7.  Each runner is  *)
(* one instance of the program, with the catalog of the release it runs.  *)
(* Instances of one deployment share the database and serialise through  *)
(* an external advisory lock (spec section 5).                            *)
(*                                                                         *)
(* The database is the append-only history table records, whose last     *)
(* version_after is the current version (0, NoSchema, when it is empty),  *)
(* and the ghost variable schema: the set of versions whose effect the    *)
(* tables carry.  A step is atomic: its script and its record commit      *)
(* together or not at all.                                                *)
(***************************************************************************)
EXTENDS MigrationCatalog

CONSTANTS
    Runners,        \* the program instances sharing the database
    NoRunner,       \* model value: nobody holds the lock
    Releases,       \* sequence of catalogs, one per release, oldest first
    SchemaLatest,   \* the request sentinel Latest (math.MaxInt32 in the code)
    Targets,        \* the target versions an operator may request
    LockBeforeRead, \* TRUE: the lock is taken before the current version is read
    MaxRequests,    \* bound on migrate requests
    MaxFailures     \* bound on failed steps

ASSUME /\ NoRunner \notin Runners
       /\ Len(Releases) >= 1
       /\ SchemaLatest \in Targets
       /\ LockBeforeRead \in BOOLEAN
       /\ MaxRequests \in Nat /\ MaxFailures \in Nat

VARIABLES
    provider,   \* the database engine of the deployment
    records,    \* the migrations table: Seq([before, after])
    schema,     \* ghost: the versions whose changes the tables carry
    release,    \* release[r]: the index in Releases that runner r runs
    pc,         \* pc[r] \in {"idle", "locked", "planned", "running"}
    plan,       \* plan[r]: the steps r has still to apply
    request,    \* request[r]: the accepted request and the version it read
    outcome,    \* outcome[r]: the result of r's last request, and the version
                \* the database was at when it ended
    lock,       \* the advisory lock holder, or NoRunner
    requests,   \* requests issued so far
    failures    \* steps failed so far

vars == <<provider, records, schema, release, pc, plan, request, outcome,
          lock, requests, failures>>

\* The results of a request besides the errors of the preflight checks.
Done   == "done"
Failed == "failed"
Pending == "pending"

Catalog(r) == Releases[release[r]]

\* The current version: version_after of the latest record, NoSchema if none.
CurrentVersion == IF records = <<>> THEN 0 ELSE Last(records).after

\* The record a step appends (version_before, version_after).
StepRecord(m) ==
    IF m.up THEN [before |-> m.version - 1, after |-> m.version]
            ELSE [before |-> m.version, after |-> m.version - 1]

\* What a step does to the tables.
StepEffect(m, s) == IF m.up THEN s \cup {m.version} ELSE s \ {m.version}

(***************************************************************************)
(* PreflightValidator: the decision table of spec 4.3, first match wins.   *)
(* Latest is resolved to latestKnown before the bounds that need a number.*)
(***************************************************************************)
Resolve(up, target, latest) ==
    IF up /\ target = SchemaLatest THEN latest ELSE target

Validate(up, target, current, latest) ==
    LET t == Resolve(up, target, latest)
    IN  CASE target = current                          -> "AlreadyOnTarget"
          [] up /\ target = SchemaLatest /\ current = latest -> "AlreadyUpToDate"
          [] up /\ t < current                         -> "UpTargetLessThanCurrent"
          [] up /\ t > latest                          -> "UpTargetGreaterThanLatest"
          [] up /\ current > latest                    -> "CurrentGreaterThanLatestKnown"
          [] ~up /\ target < -1                        -> "DownTargetLessThanMinimum"
          [] ~up /\ target > current                   -> "DownTargetGreaterThanCurrent"
          [] OTHER                                     -> NoError

-----------------------------------------------------------------------------
Init ==
    /\ provider \in {providerSQLite, providerMySQL}
    /\ records  = <<>>
    /\ schema   = {}
    /\ release  = [r \in Runners |-> 1]
    /\ pc       = [r \in Runners |-> "idle"]
    /\ plan     = [r \in Runners |-> <<>>]
    /\ request  = [r \in Runners |-> [up |-> TRUE, target |-> 0, read |-> 0,
                                      rel |-> 1]]
    /\ outcome  = [r \in Runners |-> [result |-> NoError, at |-> 0]]
    /\ lock     = NoRunner
    /\ requests = 0
    /\ failures = 0

\* Take the advisory lock: before reading the current version when
\* LockBeforeRead, else once the plan is computed, to apply it.
Acquire(r) ==
    /\ lock = NoRunner
    /\ ~LockBeforeRead \/ requests < MaxRequests
    /\ pc[r] = IF LockBeforeRead THEN "idle" ELSE "planned"
    /\ lock' = r
    /\ pc' = [pc EXCEPT ![r] = IF LockBeforeRead THEN "locked" ELSE "running"]
    /\ UNCHANGED <<provider, records, schema, release, plan, request, outcome,
                   requests, failures>>

\* The end of a request, with the database at version at: back to idle,
\* the lock released if r holds it.
Finish(r, result, at) ==
    /\ pc'      = [pc EXCEPT ![r] = "idle"]
    /\ plan'    = [plan EXCEPT ![r] = <<>>]
    /\ outcome' = [outcome EXCEPT ![r] = [result |-> result, at |-> at]]
    /\ lock'    = IF lock = r THEN NoRunner ELSE lock

(***************************************************************************)
(* "migrate {up|down} to target": read the current version, run the       *)
(* preflight checks against the latest version of r's catalog, resolve    *)
(* Latest and compute the plan.  Any error ends the request; so does an   *)
(* empty plan, which leaves the database where it is.                     *)
(***************************************************************************)
Request(r) ==
    /\ pc[r] = IF LockBeforeRead THEN "locked" ELSE "idle"
    /\ requests < MaxRequests
    /\ requests' = requests + 1
    /\ \E up \in BOOLEAN, target \in Targets :
        LET cat    == Catalog(r)
            latest == latestMigrationVersion(cat, provider)
            check  == IF CatalogError(cat) # NoError THEN CatalogError(cat)
                      ELSE Validate(up, target, CurrentVersion, latest)
            result == loadMigrations(cat, provider, CurrentVersion,
                                     Resolve(up, target, latest))
        IN  /\ request' = [request EXCEPT ![r] = [up |-> up, target |-> target,
                                                  read |-> CurrentVersion,
                                                  rel |-> release[r]]]
            /\ \/ /\ check # NoError
                  /\ Finish(r, check, CurrentVersion)
               \/ /\ check = NoError /\ result.err # NoError
                  /\ Finish(r, result.err, CurrentVersion)
               \/ /\ check = NoError /\ result.err = NoError
                  /\ \E p \in result.plans :
                        IF p = <<>> THEN Finish(r, Done, CurrentVersion)
                        ELSE /\ plan' = [plan EXCEPT ![r] = p]
                             /\ pc' = [pc EXCEPT ![r] =
                                         IF LockBeforeRead THEN "running"
                                                           ELSE "planned"]
                             /\ outcome' = [outcome EXCEPT ![r].result = Pending]
                             /\ UNCHANGED lock
    /\ UNCHANGED <<provider, records, schema, release, failures>>

\* A faulty variant that never ends the request after its last step.
ApplyNoEnd(r) ==
    /\ pc[r] = "running"
    /\ LET m == Head(plan[r]) IN
         /\ records' = Append(records, StepRecord(m))
         /\ schema'  = StepEffect(m, schema)
    /\ IF Len(plan[r]) = 0
       THEN Finish(r, Done, StepRecord(Head(plan[r])).after)
       ELSE /\ plan' = [plan EXCEPT ![r] = Tail(plan[r])]
            /\ UNCHANGED <<pc, outcome, lock>>
    /\ UNCHANGED <<provider, release, request, requests, failures>>

\* Apply the next step of the plan: run its script and append its record
\* in one transaction; the last step ends the request.
Apply(r) ==
    /\ pc[r] = "running"
    /\ LET m == Head(plan[r]) IN
         /\ records' = Append(records, StepRecord(m))
         /\ schema'  = StepEffect(m, schema)
    /\ IF Len(plan[r]) = 1
       THEN Finish(r, Done, StepRecord(Head(plan[r])).after)
       ELSE /\ plan' = [plan EXCEPT ![r] = Tail(plan[r])]
            /\ UNCHANGED <<pc, outcome, lock>>
    /\ UNCHANGED <<provider, release, request, requests, failures>>

\* A step fails (its script errors, or the instance dies): the transaction
\* rolls back and the rest of the plan is abandoned (spec 7).
Fail(r) ==
    /\ pc[r] = "running"
    /\ failures < MaxFailures
    /\ failures' = failures + 1
    /\ Finish(r, Failed, CurrentVersion)
    /\ UNCHANGED <<provider, records, schema, release, request, requests>>

\* An idle instance is replaced by one running the next release.
Upgrade(r) ==
    /\ pc[r] = "idle"
    /\ release[r] < Len(Releases)
    /\ release' = [release EXCEPT ![r] = release[r] + 1]
    /\ UNCHANGED <<provider, records, schema, pc, plan, request, outcome,
                   lock, requests, failures>>

\* Every instance is idle and the operators issue no further request
\* (they may stop at any time; at the latest after MaxRequests).
Terminated ==
    /\ \A r \in Runners : pc[r] = "idle"
    /\ UNCHANGED vars

Next ==
    \/ \E r \in Runners :
        \/ Acquire(r)
        \/ Request(r)
        \/ Apply(r)
        \/ Fail(r)
        \/ Upgrade(r)
    \/ Terminated

Spec == Init /\ [][Next]_vars

-----------------------------------------------------------------------------
(***************************************************************************)
(* Properties.                                                             *)
(***************************************************************************)
Versions == {-1, 0} \cup {m.version : m \in UNION {Scanned(Releases[i]) :
                                                   i \in 1..Len(Releases)}}
Step     == [before : Int, after : Int]

TypeOK ==
    /\ provider \in Providers
    /\ records \in Seq(Step)
    /\ schema \subseteq Versions
    /\ release \in [Runners -> 1..Len(Releases)]
    /\ pc \in [Runners -> {"idle", "locked", "planned", "running"}]
    /\ \A r \in Runners : plan[r] \in Seq([version : Versions,
                                            provider : Providers \cup {providerAll},
                                            up : BOOLEAN,
                                            file : UNION {DOMAIN Releases[i] :
                                                            i \in DOMAIN Releases}])
    /\ \A r \in Runners : (pc[r] = "running") => plan[r] # <<>>
    /\ lock \in Runners \cup {NoRunner}
    /\ requests \in 0..MaxRequests /\ failures \in 0..MaxFailures

\* The version Latest means (spec 3 and 4.1): the newest Up migration whose
\* scope is all or the provider.
SpecLatestVersion(cat, p) ==
    LET vs == {m.version : m \in {x \in Scanned(cat) :
                                   x.up /\ x.provider \in {providerAll, p}}}
    IN  IF vs = {} THEN 0 ELSE CHOOSE v \in vs : \A w \in vs : v >= w

\* Where an accepted request must leave the database (spec 4.2): at the
\* newest version for Latest, at version 1 for a rollback to PreSchema
\* from a tracked version (version 1's down step is never run), else at
\* its target.
ExpectedEnd(q) ==
    CASE q.target = SchemaLatest -> SpecLatestVersion(Releases[q.rel], provider)
      [] q.target = -1           -> IF q.read >= 1 THEN 1 ELSE q.read
      [] OTHER                   -> q.target

(***************************************************************************)
(* Every step's script runs against the schema it was written for: the     *)
(* tables carry exactly versions 1..version_before when the step commits. *)
(* This is what the plan order of loadMigrations, the bounds of           *)
(* skipMigration, the preflight checks and the advisory lock must give    *)
(* together, over failed steps and several instances.                     *)
(***************************************************************************)
StepRunsOnAssumedSchema ==
    [][Len(records') > Len(records) => schema = 1..Last(records').before]_vars

(***************************************************************************)
(* A request that the preflight checks accept and no failed step cuts     *)
(* short leaves the database where it was asked to go (ExpectedEnd).      *)
(***************************************************************************)
RequestReachesTarget ==
    \A r \in Runners : outcome[r].result = Done =>
                        outcome[r].at = ExpectedEnd(request[r])

(***************************************************************************)
(* The engine implements SchemaHistory: the version_after column of the   *)
(* history table, read in insertion order, moves one version per step,   *)
(* and the tables always carry versions 1..current.  A step that re-runs *)
(* the script of the current version, skips a version, or runs on a      *)
(* schema other than the one its record claims violates it.               *)
(***************************************************************************)
History == INSTANCE SchemaHistory
               WITH history <- [i \in DOMAIN records |-> records[i].after],
                    tables  <- schema

ImplementsSchemaHistory == History!Spec
=============================================================================
