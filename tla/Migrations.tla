----------------------------- MODULE Migrations -----------------------------
(***************************************************************************)
(* Database migrations.  The Migrator of src/db/migrator.ts runs a script  *)
(* and its row of the tracking table in one SQLite transaction;            *)
(* runMigrations() and rollbackMigration() of src/database.ts await them   *)
(* one after the other.  Processes run them at once, and may crash; files  *)
(* come and go.  A script is known by how often it is in effect.           *)
(***************************************************************************)
EXTENDS Integers, Functions, FiniteSetsExt

CONSTANTS
  File,      \* migration files, in the order of their names: a set of numbers
  Colliding, \* files whose names begin with one number; the others' differ
  Proc,      \* processes that migrate
  Flavour,   \* what they use: a subset of {"migrator", "runner"}
  MaxCalls,  \* bound on the calls of all processes
  MaxChanges \* bound on the crashes, and on the files added or removed

VARIABLES
  flavour,   \* what this system uses
  present,   \* the files in the directory, or the list the runner is given
  hasDown,   \* files with a down script
  row,       \* each file: its row number in the tracking table, or 0
  effect,    \* each file: up scripts run less down scripts run
  proc,      \* each process: what it does, the files left to do it to
  calls, changes,
  excused    \* history: how often something may have left a script and its row apart

migVars == <<flavour, present, hasDown, row, effect, proc, calls, changes, excused>>

Idle == [op |-> "idle", todo |-> {}]

Init ==
  /\ flavour \in Flavour
  /\ present \in SUBSET File /\ hasDown \in {File, {}}
  /\ row = [f \in File |-> 0] /\ effect = [f \in File |-> 0]
  /\ proc = [p \in Proc |-> Idle]
  /\ calls = 0 /\ changes = 0 /\ excused = 0

Tracked(f) == row[f] > 0
Track(f) == row' = [row EXCEPT ![f] = 1 + Max({row[g] : g \in File})]
Untrack(f) == row' = [row EXCEPT ![f] = 0]
Become(p, op, todo) == proc' = [proc EXCEPT ![p] = [op |-> op, todo |-> todo]]
First(p) == Min(proc[p].todo)
Rest(p) == proc[p].todo \ {First(p)}

\* list(): one file for a number, the last read (here: by name), in the order
\* of the numbers.  The runner is handed a list.
List(files) == {f \in files : f \in Colliding => \A g \in files \cap Colliding : g <= f}
Given(files) == IF flavour = "migrator" THEN List(files) ELSE files

-----------------------------------------------------------------------------
\* up(), runMigrations(): what is applied is read once, before the first.
Up(p) ==
  /\ calls < MaxCalls /\ proc[p].op = "idle"
  /\ Become(p, "up", {f \in Given(present) : ~Tracked(f)})
  /\ calls' = calls + 1
  /\ excused' = IF flavour = "runner" /\ \E q \in Proc : proc[q].op # "idle"
                THEN excused + 1 ELSE excused
  /\ UNCHANGED <<flavour, present, hasDown, row, effect, changes>>

\* applyOne(): the row's primary key refuses a second run, and the
\* transaction undoes the script; up() throws.
ApplyUndoesNothing(p) ==
  LET f == First(p) IN
  /\ flavour = "migrator" /\ proc[p].op = "up" /\ proc[p].todo # {}
  /\ effect' = [effect EXCEPT ![f] = @ + 1]
  /\ IF Tracked(f)
     THEN Become(p, "idle", {}) /\ UNCHANGED row
     ELSE Become(p, "up", Rest(p)) /\ Track(f)
  /\ UNCHANGED <<flavour, present, hasDown, calls, changes, excused>>

ApplyOne(p) ==
  LET f == First(p) IN
  /\ flavour = "migrator" /\ proc[p].op = "up" /\ proc[p].todo # {}
  /\ IF Tracked(f)
     THEN Become(p, "idle", {}) /\ UNCHANGED <<row, effect>>
     ELSE /\ Become(p, "up", Rest(p))
          /\ Track(f)
          /\ effect' = [effect EXCEPT ![f] = @ + 1]
  /\ UNCHANGED <<flavour, present, hasDown, calls, changes, excused>>

\* The runner's up(), then its INSERT, which the unique name may refuse.
RunUp(p) ==
  /\ flavour = "runner" /\ proc[p].op = "up" /\ proc[p].todo # {}
  /\ effect' = [effect EXCEPT ![First(p)] = @ + 1]
  /\ Become(p, "insert", proc[p].todo)
  /\ UNCHANGED <<flavour, present, hasDown, row, calls, changes, excused>>

Insert(p) ==
  LET f == First(p) IN
  /\ proc[p].op = "insert"
  /\ IF Tracked(f)
     THEN Become(p, "idle", {}) /\ UNCHANGED row
     ELSE Become(p, "up", Rest(p)) /\ Track(f)
  /\ UNCHANGED <<flavour, present, hasDown, effect, calls, changes, excused>>

UpEnds(p) ==
  /\ proc[p].op = "up" /\ proc[p].todo = {}
  /\ Become(p, "idle", {})
  /\ UNCHANGED <<flavour, present, hasDown, row, effect, calls, changes, excused>>

\* A script throws, and so does the call: in the Migrator's transaction, which
\* undoes what it did, or before it did anything.
ScriptFails(p) ==
  /\ proc[p].op \in {"up", "down"} /\ proc[p].todo # {}
  /\ Become(p, "idle", {})
  /\ UNCHANGED <<flavour, present, hasDown, row, effect, calls, changes, excused>>

\* The runner's script throws, or the process ends, half-way: no transaction
\* undoes what it did, which counts as the script (another call runs all of it
\* again), and there is no row, or still the row.
HalfRun(p) ==
  /\ flavour = "runner" /\ proc[p].op \in {"up", "down"} /\ proc[p].todo # {}
  /\ effect' = [effect EXCEPT ![First(p)] = IF proc[p].op = "up" THEN @ + 1 ELSE @ - 1]
  /\ Become(p, "idle", {})
  /\ excused' = excused + 1
  /\ UNCHANGED <<flavour, present, hasDown, row, calls, changes>>

\* down(), rollbackMigration(): the last applied is read, by row number; or by
\* applied_at, where rows of one timestamp tie.  The runner throws if it is not
\* in its list.
Down(p) ==
  /\ calls < MaxCalls /\ proc[p].op = "idle"
  /\ \E f \in File :
       /\ Tracked(f)
       /\ IF flavour = "migrator" THEN \A g \in File : row[g] <= row[f] ELSE f \in present
       /\ Become(p, "down", {f})
  /\ calls' = calls + 1
  /\ excused' = IF \E q \in Proc : proc[q].op = "down" \/ (flavour = "runner" /\ proc[q].op # "idle")
                THEN excused + 1 ELSE excused
  /\ UNCHANGED <<flavour, present, hasDown, row, effect, changes>>

\* The Migrator: script and DELETE in a transaction; without a script, or a
\* file, the row alone goes.
Revert(p) ==
  LET f == First(p)
      scripted == f \in List(present) /\ f \in hasDown
  IN /\ flavour = "migrator" /\ proc[p].op = "down"
     /\ Untrack(f) /\ Become(p, "idle", {})
     /\ effect' = IF scripted THEN [effect EXCEPT ![f] = @ - 1] ELSE effect
     /\ excused' = IF scripted \/ ~Tracked(f) THEN excused ELSE excused + 1
     /\ UNCHANGED <<flavour, present, hasDown, calls, changes>>

\* The runner's down(), then its DELETE.
RunDown(p) ==
  /\ flavour = "runner" /\ proc[p].op = "down"
  /\ effect' = [effect EXCEPT ![First(p)] = @ - 1]
  /\ Become(p, "delete", proc[p].todo)
  /\ UNCHANGED <<flavour, present, hasDown, row, calls, changes, excused>>

Delete(p) ==
  /\ proc[p].op = "delete"
  /\ Untrack(First(p)) /\ Become(p, "idle", {})
  /\ UNCHANGED <<flavour, present, hasDown, effect, calls, changes, excused>>

\* The process ends between two steps, or the statement for the row fails.
Crash(p) ==
  /\ changes < MaxChanges /\ proc[p].op # "idle"
  /\ Become(p, "idle", {})
  /\ changes' = changes + 1
  /\ excused' = IF proc[p].op \in {"insert", "delete"} THEN excused + 1 ELSE excused
  /\ UNCHANGED <<flavour, present, hasDown, row, effect, calls>>

FilesChange ==
  /\ changes < MaxChanges
  /\ \E f \in File : present' = SymDiff(present, {f})
  /\ changes' = changes + 1
  /\ UNCHANGED <<flavour, hasDown, row, effect, proc, calls, excused>>

Next ==
  \/ \E p \in Proc :
       \/ Up(p) \/ ApplyOne(p) \/ RunUp(p) \/ Insert(p) \/ UpEnds(p)
       \/ ScriptFails(p) \/ HalfRun(p) \/ Down(p) \/ Revert(p) \/ RunDown(p) \/ Delete(p) \/ Crash(p)
  \/ FilesChange

Spec == Init /\ [][Next]_migVars

-----------------------------------------------------------------------------
Distance(a, b) == IF a < b THEN b - a ELSE a - b
Rows(f) == IF Tracked(f) THEN 1 ELSE 0
Drift == SumFunction([f \in File |-> Distance(effect[f], Rows(f))])
Between == {p \in Proc : proc[p].op \in {"insert", "delete"}}

\* Scripts in effect and rows of the tracking table part only by what is not
\* in one transaction: a crash or a failing statement of the runner between the
\* two, a script of the runner that stops half-way, runner calls or down() calls
\* that overlap, a row dropped without a down script.  Each parts one script from
\* its row once; up() of the Migrator may run in any number of
\* processes at once and crash anywhere.
DriftExcused == Drift <= excused + Cardinality(Between)
=============================================================================
