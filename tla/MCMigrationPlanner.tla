-------------------------- MODULE MCMigrationPlanner --------------------------
(***************************************************************************)
(* Every embedded directory of up to three entries drawn from versions 0  *)
(* to 2, the scopes all, sqlite and mysql, both directions, one entry of  *)
(* each malformed kind and a directory.                                   *)
(***************************************************************************)
EXTENDS MigrationPlanner

File(v, p, d) == [isDir |-> FALSE, match |-> TRUE, version |-> v,
                  provider |-> p, direction |-> d]
Dir == [isDir |-> TRUE, match |-> FALSE, version |-> 0,
        provider |-> "", direction |-> ""]

\* A name the pattern does not match, an unknown direction token and an
\* unknown scope token.
Malformed == { [File(1, "all", "up") EXCEPT !.match = FALSE],
               File(1, "all", "sideways"),
               File(1, "oracle", "up") }

Entries == {File(v, p, d) : v \in 0..2, p \in {"all", "sqlite", "mysql"},
                            d \in {"up", "down"}}
           \cup Malformed \cup {Dir}

MCCatalogs == UNION {[1..n -> Entries] : n \in 0..3}

\* The versions a caller of the planner holds: PreSchema, NoSchema, 1 to 3.
MCVersions == -1..3
=============================================================================
