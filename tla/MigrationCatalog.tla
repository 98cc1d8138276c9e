--------------------------- MODULE MigrationCatalog ---------------------------
(***************************************************************************)
(* The migration catalog and planner of internal/storage/migrations.go.    *)
(*                                                                         *)
(* The embedded directory migrationsFS is a sequence of directory entries  *)
(* in ReadDir order.  A file entry carries the four fields the name        *)
(* pattern reMigration captures (version, name, provider, direction), or  *)
(* match = FALSE when the name does not fit the pattern.  The name and    *)
(* the SQL body are left out: no property tells them apart.  The version  *)
(* field is already the integer strconv.Atoi produces (0 when it fails).  *)
(*                                                                         *)
(* Every operator takes the catalog cat as its first argument, so that a  *)
(* model can give different instances (binaries) different catalogs.      *)
(***************************************************************************)
EXTENDS Integers, Sequences, SequencesExt, FiniteSets

\* The provider names of the storage package (providerAll, providerSQLite,
\* providerMySQL, providerPostgres).
providerAll      == "all"
providerSQLite   == "sqlite"
providerMySQL    == "mysql"
providerPostgres == "postgres"
Providers        == {providerSQLite, providerMySQL, providerPostgres}

\* A parsed migration: model.SchemaMigration without Name and Query.
SchemaMigration(v, p, up) == [version |-> v, provider |-> p, up |-> up]

\* Errors of the catalog, one value per error site of migrations.go.
ErrFormat    == "invalid migration: could not parse the format"
ErrDirection == "invalid migration: position 4 must be up or down"
ErrProvider  == "invalid migration: position 3 must be a provider"
ErrSameVersion == "ErrMigrateCurrentVersionSameAsTarget"
ErrNotFound  == "migration not found"
NoError      == "none"

(***************************************************************************)
(* scanMigration: the pattern must match, then the direction token must be *)
(* up or down, then the provider token must be a known provider, in that  *)
(* order.  The ReadFile of an entry ReadDir has just listed cannot fail   *)
(* on an embed.FS and is left out.                                         *)
(***************************************************************************)
ScanMigration(e) ==
    CASE ~e.match                        -> [err |-> ErrFormat]
      [] e.direction \notin {"up", "down"} -> [err |-> ErrDirection]
      [] e.provider \notin Providers \cup {providerAll}
                                         -> [err |-> ErrProvider]
      [] OTHER -> [err |-> NoError,
                   m   |-> SchemaMigration(e.version, e.provider,
                                           e.direction = "up")]

\* The loop shared by latestMigrationVersion and loadMigrations: skip the
\* directories, scan every file, and return the error of the first file
\* that fails to scan, in ReadDir order.
\* A faulty variant of the loop that skips an entry it cannot scan instead
\* of returning its error.
CatalogErrorSkipsBad(cat) == NoError

FileIndexes(cat) == {i \in 1..Len(cat) : ~cat[i].isDir}
ScanFailures(cat) ==
    {i \in FileIndexes(cat) : ScanMigration(cat[i]).err # NoError}
CatalogError(cat) ==
    IF ScanFailures(cat) = {} THEN NoError
    ELSE LET first == CHOOSE i \in ScanFailures(cat) :
                          \A j \in ScanFailures(cat) : i <= j
         IN  ScanMigration(cat[first]).err
\* The descriptor of the file at position i.  Its position in ReadDir order
\* stands for its Name and Query: two files whose captured fields agree are
\* still two migrations, as in the loop.
Descriptor(cat, i) == ScanMigration(cat[i]).m @@ [file |-> i]
Scanned(cat) == {Descriptor(cat, i) : i \in FileIndexes(cat) \ ScanFailures(cat)}

(***************************************************************************)
(* latestMigrationVersion: the largest version of the Up migrations whose  *)
(* provider is exactly providerName, starting from 0.  The comparison is  *)
(* m.Provider != providerName: an all-provider Up migration is not seen.  *)
(* Callers test CatalogError first, as the code returns -1 and the error. *)
(***************************************************************************)
latestMigrationVersion(cat, providerName) ==
    LET vs == {m.version : m \in {x \in Scanned(cat) :
                                   x.provider = providerName /\ x.up}}
    IN  IF \E v \in vs : v > 0
        THEN CHOOSE v \in vs : \A w \in vs : v >= w
        ELSE 0

\* Faulty variants of skipMigration: the up bound keeps the prior version
\* (< for <=), and the down filter without the version 1 guard.
skipMigrationPriorKept(providerName, up, target, prior, migration) ==
    \/ migration.provider # providerAll /\ migration.provider # providerName
    \/ /\ up
       /\ \/ ~migration.up
          \/ target # -1 /\ (migration.version > target \/ migration.version < prior)
    \/ /\ ~up
       /\ \/ migration.up
          \/ migration.version = 1 /\ target = -1
          \/ migration.version <= target \/ migration.version > prior
skipMigrationNoPre1Guard(providerName, up, target, prior, migration) ==
    \/ migration.provider # providerAll /\ migration.provider # providerName
    \/ /\ up
       /\ \/ ~migration.up
          \/ target # -1 /\ (migration.version > target \/ migration.version <= prior)
    \/ /\ ~up
       /\ \/ migration.up
          \/ migration.version <= target \/ migration.version > prior

(***************************************************************************)
(* skipMigration, condition by condition.                                  *)
(***************************************************************************)
skipMigration(providerName, up, target, prior, migration) ==
    \/ migration.provider # providerAll /\ migration.provider # providerName
    \/ /\ up
       /\ \/ ~migration.up
          \/ target # -1 /\ (migration.version > target \/ migration.version <= prior)
    \/ /\ ~up
       /\ \/ migration.up
          \/ migration.version = 1 /\ target = -1
          \/ migration.version <= target \/ migration.version > prior

\* The sort.Slice orders of loadMigrations: ascending versions for an up
\* plan, descending for a down plan.  sort.Slice is not stable, so two
\* kept migrations of one version may come out in either order.
PlanOrders(kept, up) ==
    {s \in SetToSeqs(kept) :
        IF up THEN IsSorted(s, LAMBDA a, b : a.version <= b.version)
              ELSE IsSorted(s, LAMBDA a, b : a.version >= b.version)}

\* A faulty variant that rejects every equal pair, PreSchema included.
loadMigrationsRejectsPre1Noop(cat, providerName, prior, target) ==
    LET up   == prior < target
        kept == {m \in Scanned(cat) :
                    ~skipMigration(providerName, up, target, prior, m)}
    IN  CASE prior = target -> [err |-> ErrSameVersion, plans |-> {}]
          [] CatalogError(cat) # NoError
                 -> [err |-> CatalogError(cat), plans |-> {}]
          [] OTHER -> [err |-> NoError, plans |-> PlanOrders(kept, up)]

(***************************************************************************)
(* loadMigrations(providerName, prior, target): the same-version check,    *)
(* the scan of every entry, the filter skipMigration and the sort.  The   *)
(* result is the error and the set of plans the sort can produce.         *)
(***************************************************************************)
loadMigrations(cat, providerName, prior, target) ==
    LET up   == prior < target
        kept == {m \in Scanned(cat) :
                    ~skipMigration(providerName, up, target, prior, m)}
    IN  CASE prior = target /\ (prior # -1 \/ target # -1)
                 -> [err |-> ErrSameVersion, plans |-> {}]
          [] CatalogError(cat) # NoError
                 -> [err |-> CatalogError(cat), plans |-> {}]
          [] OTHER -> [err |-> NoError, plans |-> PlanOrders(kept, up)]

loadMigration(cat, providerName, version, up) ==
    LET Hit(i) == LET m == ScanMigration(cat[i]).m
                  IN  /\ m.up = up
                      /\ m.provider \in {providerAll, providerName}
                      /\ m.version = version
        stops  == ScanFailures(cat) \cup
                  {i \in FileIndexes(cat) \ ScanFailures(cat) : Hit(i)}
        first  == CHOOSE i \in stops : \A j \in stops : i <= j
    IN  CASE stops = {}                -> [err |-> ErrNotFound]
          [] first \in ScanFailures(cat) -> [err |-> ScanMigration(cat[first]).err]
          [] OTHER -> [err |-> NoError, m |-> Descriptor(cat, first)]
=============================================================================
