---------------------------- MODULE MCLifecycle ----------------------------
(***************************************************************************)
(* An application's start and end, bounded for TLC: a behaviour belongs to *)
(* the shutdown or to the initialisation of plugins, and the variables of  *)
(* the other stay as they start.  The liveness properties exclude symmetry.*)
(***************************************************************************)
EXTENDS Lifecycle, PluginParts, Sequences

\* b and c both need a; c needs b, which needs a; b and c need each other.
MCGraphs ==
  {[a |-> <<>>, b |-> <<"a">>, c |-> <<"a">>], [a |-> <<>>, b |-> <<"a">>, c |-> <<"b">>],
   [a |-> <<>>, b |-> <<"c">>, c |-> <<"b">>]}

allVars == <<part, vars, plugins>>

MCInit ==
  /\ Init /\ Plugins!Init
  /\ part \in {"shutdown", "plugins"}
  /\ part # "shutdown" => handlers = 0
  /\ part # "plugins" => configDeps = CHOOSE g \in MCGraphs : TRUE

MCNext ==
  /\ UNCHANGED part
  /\ \/ part = "shutdown" /\ Next /\ UNCHANGED plugins
     \/ part = "plugins" /\ Plugins!Next /\ UNCHANGED vars

\* The fair step of each part.
Progresses ==
  /\ UNCHANGED part
  /\ \/ part = "shutdown" /\ Progress /\ UNCHANGED plugins
     \/ part = "plugins" /\ Plugins!Progress /\ UNCHANGED vars

MCSpec == MCInit /\ [][MCNext]_allVars /\ WF_allVars(Progresses)

EventuallyApplied == Plugins!EventuallyApplied
=============================================================================
