--------------------------- MODULE MigrationPlanner ---------------------------
(***************************************************************************)
(* The catalog calls of internal/storage/migrations.go taken one at a time *)
(* with arbitrary arguments: the engine's interface Plan and find (spec 6) *)
(* over every small catalog, compared with what spec 4.1, 4.2 and 8 say   *)
(* they return.  The catalog is fixed for a run of the program (it is     *)
(* embedded in the binary); every call is read-only and may come in any  *)
(* order, so a behaviour is a catalog and a sequence of calls.            *)
(***************************************************************************)
EXTENDS MigrationCatalog

CONSTANTS
    Catalogs,   \* the embedded directories to consider
    Dialects,   \* the providers a call may name
    Priors,     \* the prior versions a caller may pass
    Goals       \* the target versions a caller may pass

VARIABLES
    cat,        \* migrationsFS: the entries ReadDir lists, in order
    call        \* the last call and its result

vars == <<cat, call>>

NoCall == [op |-> "none"]

Init ==
    /\ cat \in Catalogs
    /\ call = NoCall

\* loadMigrations(providerName, prior, target).
Plan(p, prior, target) ==
    /\ call' = [op |-> "plan", provider |-> p, prior |-> prior,
                target |-> target,
                result |-> loadMigrations(cat, p, prior, target)]
    /\ UNCHANGED cat

\* loadMigration(providerName, version, up).
Find(p, version, up) ==
    /\ call' = [op |-> "find", provider |-> p, version |-> version, up |-> up,
                result |-> loadMigration(cat, p, version, up)]
    /\ UNCHANGED cat

Next ==
    \E p \in Dialects :
        \/ \E prior \in Priors, target \in Goals : Plan(p, prior, target)
        \/ \E v \in Priors \cup Goals, up \in BOOLEAN : Find(p, v, up)

Spec == Init /\ [][Next]_vars

-----------------------------------------------------------------------------
(***************************************************************************)
(* The reference: what spec 4.1 and 4.2 say of a catalog.                  *)
(***************************************************************************)

\* Spec 4.1: a descriptor applies to a dialect when its scope is All or it.
Applies(m, p) == m.provider \in {providerAll, p}

\* Spec 4.1: every entry that is not a directory follows the naming
\* convention, with a scope and a direction token the catalog knows.
SpecWellFormed(c) ==
    \A i \in 1..Len(c) :
        ~c[i].isDir => /\ c[i].match
                       /\ c[i].provider \in Providers \cup {providerAll}
                       /\ c[i].direction \in {"up", "down"}

\* Spec 4.2 rules 1 and 2: the descriptors a plan from prior to target keeps.
SpecKept(c, p, prior, target) ==
    {m \in Scanned(c) :
        /\ Applies(m, p)
        /\ IF prior < target
           THEN m.up /\ prior < m.version /\ m.version <= target
           ELSE /\ ~m.up /\ target < m.version /\ m.version <= prior
                /\ ~(target = -1 /\ m.version = 1)}

\* Spec 4.2 ordering: ascending for an up plan, descending for a down plan.
SpecOrdered(s, up) ==
    \A i, j \in DOMAIN s :
        i < j => IF up THEN s[i].version <= s[j].version
                       ELSE s[i].version >= s[j].version

(***************************************************************************)
(* Every plan the planner returns is the one spec 4.2 and 8 describe:     *)
(* equal versions fail with SameVersionError except prior = target =      *)
(* PreSchema (rule 3, the check of line 89), a catalog with an unparsable *)
(* entry fails with a ParseError, and otherwise each step is kept by the  *)
(* scope, direction and bound rules (version 1 excluded when rolling back *)
(* to PreSchema), no kept descriptor is missing, and the steps are in     *)
(* version order.  PreSchema to PreSchema is the empty plan.              *)
(***************************************************************************)
PlanFollowsSpec ==
    call.op = "plan" =>
        LET r    == call.result
            kept == SpecKept(cat, call.provider, call.prior, call.target)
        IN  CASE call.prior = call.target /\ call.prior # -1 ->
                     r.err = ErrSameVersion
              [] ~SpecWellFormed(cat) ->
                     r.err \in {ErrFormat, ErrDirection, ErrProvider}
              [] OTHER ->
                     /\ r.err = NoError
                     /\ r.plans # {}
                     /\ \A s \in r.plans :
                            /\ ToSet(s) = kept /\ Len(s) = Cardinality(kept)
                            /\ SpecOrdered(s, call.prior < call.target)

(***************************************************************************)
(* loadMigration and loadMigrations filter the catalog with two separate  *)
(* tests: the direction, provider and version test of line 71, and        *)
(* skipMigration (lines 130-166).  On a catalog that scans cleanly they   *)
(* agree on every version from NoSchema up: finding version v in one      *)
(* direction fails with NotFound exactly when the one-step plan over v    *)
(* (v-1 to v up, v to v-1 down) is empty, and otherwise returns a step of *)
(* that plan, whichever order sort.Slice gives it.                        *)
(***************************************************************************)
OneStepPlan(p, v, up) ==
    IF up THEN loadMigrations(cat, p, v - 1, v) ELSE loadMigrations(cat, p, v, v - 1)

=============================================================================
