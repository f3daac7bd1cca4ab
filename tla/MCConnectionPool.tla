-------------------------- MODULE MCConnectionPool --------------------------
(***************************************************************************)
(* The database, bounded for TLC: a behaviour belongs to the connection    *)
(* pool or to the migrations, the other's variables stay as they start.    *)
(* The liveness properties exclude symmetry.                               *)
(***************************************************************************)
EXTENDS ConnectionPool, MigrationParts

VARIABLE part

allVars == <<part, vars, migrations>>

MCInit ==
  /\ Init /\ Migrate!Init /\ part \in {"pool", "migrations"}
  /\ part = "pool" => /\ flavour = CHOOSE f \in Flavour : TRUE
                      /\ present = {} /\ hasDown = {}

MCNext ==
  \/ part = "pool" /\ Next /\ UNCHANGED <<part, migrations>>
  \/ part = "migrations" /\ Migrate!Next /\ UNCHANGED <<part, vars>>

\* No fair action of the pool is enabled where it stays as it starts.
MCSpec == MCInit /\ [][MCNext]_allVars /\ Fairness
=============================================================================
