--------------------------- MODULE MCSchemaMigration ---------------------------
(***************************************************************************)
(* Catalogs and bounds for checking SchemaMigration with TLC.              *)
(***************************************************************************)
EXTENDS SchemaMigration

\* A migration file V<v>.<name>.<provider>.<direction>.sql, and a directory.
File(v, p, d) == [isDir |-> FALSE, match |-> TRUE, version |-> v,
                  provider |-> p, direction |-> d]
Dir == [isDir |-> TRUE, match |-> FALSE, version |-> 0,
        provider |-> "", direction |-> ""]

\* Release 1: versions 1 and 2; the up scripts are per provider, the down
\* scripts are shared, as in the repository's migrations directory.
Release1 ==
    << File(1, "all", "down"), File(1, "mysql", "up"), File(1, "sqlite", "up"),
       File(2, "all", "down"), File(2, "mysql", "up"), File(2, "sqlite", "up"),
       Dir >>

\* Release 2 adds version 3, whose up script is shared by every provider,
\* and version 4, with a per-provider up script.
Release2 ==
    Release1 \o
    << File(3, "all", "down"), File(3, "all", "up"),
       File(4, "all", "down"), File(4, "mysql", "up"), File(4, "sqlite", "up") >>

\* A release whose newest up script is shared by every provider.
ReleaseAllScopeTop ==
    Release1 \o << File(3, "all", "down"), File(3, "all", "up") >>

\* Release 1 plus an all-scoped up script for version 2, next to the
\* per-provider ones: two applicable descriptors for one version.
ReleaseDuplicate == Release1 \o << File(2, "all", "up") >>

\* Release 2 with the shared up script of version 3 misnamed: the name
\* pattern does not match it.
ReleaseMalformed ==
    Release1 \o
    << File(3, "all", "down"), [File(3, "all", "up") EXCEPT !.match = FALSE],
       File(4, "all", "down"), File(4, "mysql", "up"), File(4, "sqlite", "up") >>

\* Release 1 plus a down script whose version field reads 0 (V0000, or a
\* version strconv.Atoi cannot parse).
ReleaseZero == << File(0, "all", "down") >> \o Release1

MCReleasesOne      == << Release2 >>
MCReleasesMalformed == << Release1, ReleaseMalformed, Release2 >>
MCReleasesZero     == << ReleaseZero >>
MCReleasesRolling  == << Release1, Release2 >>
MCReleasesAllScope == << ReleaseAllScopeTop >>
MCReleasesDuplicate == << ReleaseDuplicate >>

\* SchemaLatest stands for math.MaxInt32: any number above every version.
MCSchemaLatest == 9
MCTargets == {-2, -1, 0, 1, 2, 3, 4, 5, MCSchemaLatest}
=============================================================================
