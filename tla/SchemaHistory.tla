---------------------------- MODULE SchemaHistory ----------------------------
(***************************************************************************)
(* What the migration engine promises a database (spec.md sections 3 and  *)
(* 4.2): the history of versions only ever moves one version up or down   *)
(* per step, and the tables always carry exactly the changes of versions  *)
(* 1 to the current version.  SchemaMigration implements this module.     *)
(***************************************************************************)
EXTENDS Integers, Sequences

VARIABLES
    history,   \* the version_after of every step applied, in order
    tables     \* the versions whose changes the tables carry

\* The current version: the last version reached, NoSchema (0) at first.
Version == IF history = <<>> THEN 0 ELSE history[Len(history)]

Init == history = <<>> /\ tables = {}

\* Apply the up script of the next version.
MigrateUp ==
    /\ history' = Append(history, Version + 1)
    /\ tables'  = tables \cup {Version + 1}

\* Apply the down script of the current version.
MigrateDown ==
    /\ Version >= 1
    /\ history' = Append(history, Version - 1)
    /\ tables'  = tables \ {Version}

Next == MigrateUp \/ MigrateDown

Spec == Init /\ [][Next]_<<history, tables>>
=============================================================================
