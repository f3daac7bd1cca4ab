--------------------------- MODULE MigrationParts ---------------------------
(***************************************************************************)
(* The migrations of a database, under the names by which runs and         *)
(* theorems know them.                                                     *)
(***************************************************************************)
CONSTANTS File, Colliding, Proc, Flavour, MaxCommands, MaxChanges

VARIABLES flavour, present, hasDown, row, effect, proc, calls, changes, excused

Migrate == INSTANCE Migrations WITH MaxCalls <- MaxCommands

migrations == <<flavour, present, hasDown, row, effect, proc, calls, changes, excused>>

\* A script and its row part only by what is not in one transaction.
DriftExcused == Migrate!DriftExcused
=============================================================================
