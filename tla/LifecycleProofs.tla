--------------------------- MODULE LifecycleProofs ---------------------------
(***************************************************************************)
(* Shutdowns for every number of calls, connections and handlers: one at a *)
(* time unless one timed out, and handlers only after the drain.  Then the *)
(* dependency graph of plugins: of every graph the searches find a cycle   *)
(* when there is one and an order when there is none.  Then their          *)
(* initialisation for every set of plugins and every graph: a plugin is    *)
(* applied after its dependencies, and initPlugins() resolves when all it  *)
(* was asked for are applied.                                              *)
(***************************************************************************)
EXTENDS Lifecycle, PluginParts, SumProofs, Integers, Sequences, FiniteSetTheorems,
        SequenceTheorems, TLAPS

\* A call in its drain or its handlers.
Busy(c) == at[c] \in {"draining", "running"}

Shapes ==
  /\ DOMAIN at = Call /\ DOMAIN timer = Call /\ DOMAIN found = Call
  /\ loop \in [Call -> Nat] /\ handlers \in Nat
  /\ DOMAIN conn = Conn /\ active \subseteq Conn

\* What the steps do to a call's place and its handlers: a call that was not
\* busy does not become so unless it is new and no shutdown is in progress.
LEMMA StopAndRunMoves ==
  ASSUME Shapes, NEW c \in Call, StopAndRun(c)
  PROVE  /\ listening' = FALSE /\ active' = {}
         /\ DOMAIN at' = Call /\ loop' \in [Call -> Nat]
         /\ \A d \in Call : d # c => at'[d] = at[d] /\ loop'[d] = loop[d]
         /\ \/ at'[c] = "over" /\ loop'[c] = loop[c] /\ shutting' = FALSE
            \/ at'[c] = "running" /\ loop'[c] = 1 /\ shutting' = TRUE
<1>1. CASE handlers = 0
  BY <1>1 DEF StopAndRun, Finish, Shapes
<1>2. CASE handlers # 0
  BY <1>2 DEF StopAndRun, Shapes
<1> QED
  BY <1>1, <1>2

-----------------------------------------------------------------------------
(***************************************************************************)
(* isShuttingDown is set while a call is busy, so a second one is skipped. *)
(* A call whose handlers run is busy unless its timer has fired.           *)
(***************************************************************************)
OneInv ==
  /\ Shapes
  /\ \A c \in Call : Busy(c) => shutting = TRUE
  /\ \A c, d \in Call : Busy(c) /\ Busy(d) => c = d
  /\ \A c \in Call : at[c] \in {"new", "draining"} => loop[c] = 0
  /\ \A c \in Call : loop[c] > 0 /\ timer[c] # "fired" => at[c] = "running"

\* A new shutdown finds nobody busy.
LEMMA ShutdownStep ==
  ASSUME OneInv, NEW c \in Call, NEW signal, Shutdown(c, signal)
  PROVE  OneInv'
<1> USE DEF OneInv, Busy
<1>1. /\ at[c] = "new" /\ loop[c] = 0 /\ ~ shutting
      /\ timer' = [timer EXCEPT ![c] = "armed"]
      /\ found' = [found EXCEPT ![c] = active] /\ handlers' = handlers
  BY DEF Shutdown, Begin
<1>2. \A d \in Call : ~ Busy(d)
  BY <1>1
<1>3. CASE active = {}
  <2>1. StopAndRun(c) /\ conn' = conn
    BY <1>3 DEF Shutdown, Begin
  <2>2. Shapes'
    BY <1>1, <2>1, StopAndRunMoves DEF Shapes
  <2>3. /\ \A d \in Call : d # c => at'[d] = at[d] /\ loop'[d] = loop[d]
        /\ \/ at'[c] = "over" /\ loop'[c] = loop[c] /\ shutting' = FALSE
           \/ at'[c] = "running" /\ loop'[c] = 1 /\ shutting' = TRUE
    BY <2>1, StopAndRunMoves
  <2>4. \A d \in Call : d # c => timer'[d] = timer[d]
    BY <1>1 DEF Shapes
  <2>5. \A d \in Call : Busy(d)' => d = c /\ shutting' = TRUE
    BY <1>2, <2>3
  <2>6. \A d \in Call : at'[d] \in {"new", "draining"} => loop'[d] = 0
    BY <2>3
  <2>7. \A d \in Call : loop'[d] > 0 /\ timer'[d] # "fired" => at'[d] = "running"
    <3>1. ASSUME NEW d \in Call, d # c, loop'[d] > 0, timer'[d] # "fired"
          PROVE  at'[d] = "running"
      BY <2>3, <2>4, <3>1
    <3>2. loop'[c] > 0 => at'[c] = "running"
      BY <1>1, <2>3
    <3> QED
      BY <3>1, <3>2
  <2> QED
    BY <2>2, <2>5, <2>6, <2>7
<1>4. CASE active # {}
  <2>1. /\ shutting' = TRUE /\ at' = [at EXCEPT ![c] = "draining"]
        /\ DOMAIN conn' = Conn /\ UNCHANGED <<active, loop>>
    BY <1>4 DEF Shutdown, Begin
  <2> QED
    BY <1>1, <1>2, <2>1 DEF Shapes
<1> QED
  BY <1>3, <1>4

\* The other steps of a call, and those of the clients.
LEMMA OtherSteps ==
  ASSUME OneInv,
         \/ \E c \in Call : \/ \E signal \in BOOLEAN : ShutdownSkipped(c, signal)
                            \/ Drained(c) \/ HandlerReturns(c) \/ HandlerThrows(c)
                            \/ TimesOut(c) \/ Exit(c)
         \/ OnShutdown \/ \E w \in Conn : Ask(w) \/ Upgrade(w) \/ Closes(w) \/ Errs(w)
         \/ UNCHANGED vars
  PROVE  OneInv'
<1> USE DEF OneInv, Busy
<1>1. ASSUME NEW c \in Call, NEW signal \in BOOLEAN, ShutdownSkipped(c, signal)
      PROVE  OneInv'
  BY <1>1 DEF ShutdownSkipped, Finish, Shapes, connVars, history
<1>2. ASSUME NEW c \in Call, Drained(c) PROVE OneInv'
  <2>1. UNCHANGED <<handlers, timer, found>> /\ DOMAIN conn' = Conn
    BY <1>2 DEF Drained, history
  <2>2. CASE at[c] = "draining"
    <3>1. StopAndRun(c)
      BY <1>2, <2>2 DEF Drained
    <3>2. \A d \in Call : d # c => ~ Busy(d)
      BY <2>2
    <3>3. Shapes'
      BY <2>1, <3>1, StopAndRunMoves DEF Shapes
    <3> QED
      BY <2>1, <2>2, <3>1, <3>2, <3>3, StopAndRunMoves, ZenonT(60) DEF Shapes
  <2>3. CASE at[c] # "draining"
    <3>1. active' = {} /\ UNCHANGED <<shutting, at, loop>>
      BY <1>2, <2>3 DEF Drained
    <3> QED
      BY <2>1, <3>1 DEF Shapes
  <2> QED
    BY <2>2, <2>3
<1>3. ASSUME NEW c \in Call, HandlerReturns(c) \/ HandlerThrows(c) PROVE OneInv'
  <2>1. UNCHANGED <<handlers, timer, conn, active, found>> /\ loop[c] > 0
    BY <1>3 DEF HandlerReturns, HandlerThrows, connVars, history
  <2>2. \/ loop' = [loop EXCEPT ![c] = @ + 1] /\ UNCHANGED <<at, shutting>>
        \/ loop' = [loop EXCEPT ![c] = 0] /\ at[c] # "running" /\ UNCHANGED <<at, shutting>>
        \/ /\ loop' = [loop EXCEPT ![c] = 0] /\ at[c] = "running"
           /\ at' = [at EXCEPT ![c] = "over"] /\ shutting' = FALSE
    BY <1>3 DEF HandlerReturns, HandlerThrows, Finish
  <2>3. at[c] \notin {"new", "draining"}
    BY <2>1 DEF Shapes
  <2>4. Shapes'
    BY <2>1, <2>2 DEF Shapes
  <2> QED
    BY <2>1, <2>2, <2>3, <2>4 DEF Shapes
<1>4. ASSUME NEW c \in Call, TimesOut(c) PROVE OneInv'
  <2>1. /\ UNCHANGED <<handlers, conn, active, found, loop>>
        /\ timer' = [timer EXCEPT ![c] = "fired"]
        /\ \/ UNCHANGED <<at, shutting>>
           \/ Busy(c) /\ at' = [at EXCEPT ![c] = "over"] /\ shutting' = FALSE
    BY <1>4 DEF TimesOut, Finish, connVars, history
  <2> QED
    BY <2>1 DEF Shapes
<1>5. ASSUME NEW c \in Call, Exit(c) PROVE OneInv'
  BY <1>5 DEF Exit, Shapes, connVars, callVars, history
<1>6. ASSUME OnShutdown PROVE OneInv'
  BY <1>6 DEF OnShutdown, Shapes, connVars, callVars, history
<1>7. ASSUME NEW w \in Conn, Ask(w) \/ Upgrade(w) \/ Closes(w) \/ Errs(w) PROVE OneInv'
  BY <1>7 DEF Ask, Upgrade, Closes, Errs, Shapes, callVars, history
<1>8. CASE UNCHANGED vars
  BY <1>8 DEF vars, Shapes, connVars, callVars, history
<1> QED
  BY <1>1, <1>2, <1>3, <1>4, <1>5, <1>6, <1>7, <1>8

\* A shutdown's place, its loop and its timer agree in every reachable state.
LEMMA OneInvHolds == Spec => []OneInv
<1>1. Init => OneInv
  BY LifecycleAssumption DEF Init, OneInv, Busy, Shapes, LifecycleAssumption
<1>2. OneInv /\ [Next]_vars => OneInv'
  BY ShutdownStep, OtherSteps DEF Next
<1> QED
  BY <1>1, <1>2, PTL DEF Spec

\* A set whose elements are all the same has at most one.
LEMMA AtMostOne ==
  ASSUME NEW S, \A x, y \in S : x = y
  PROVE  Cardinality(S) <= 1
<1>1. CASE S = {}
  BY <1>1, FS_EmptySet
<1>2. CASE S # {}
  <2>1. PICK x \in S : S = {x}
    BY <1>2
  <2> QED
    BY <2>1, FS_Singleton
<1> QED
  BY <1>1, <1>2

\* Two shutdowns run handlers side by side only after one of them timed out.
THEOREM OneAtATimeHolds == Spec => []OneAtATime
<1>1. OneInv => OneAtATime
  <2> SUFFICES ASSUME OneInv, \A c \in Call : timer[c] # "fired"
               PROVE  Cardinality({c \in Call : loop[c] > 0}) <= 1
    BY DEF OneAtATime
  <2> DEFINE S == {c \in Call : loop[c] > 0}
  <2>1. \A x, y \in S : x = y
    BY DEF OneInv, Busy
  <2>2. Cardinality(S) <= 1
    <3> HIDE DEF S
    <3> QED
      BY <2>1, AtMostOne
  <2> QED
    BY <2>2
<1> QED
  BY <1>1, OneInvHolds, PTL

-----------------------------------------------------------------------------
(***************************************************************************)
(* Every connection a shutdown finds gets a close frame, stays in the      *)
(* active set until it is gone or in error, and the handlers start as the  *)
(* drain closes what is left in the set.                                   *)
(***************************************************************************)
Gone == {"closed", "forgotten"}

DrainInv ==
  /\ \A w \in Conn : conn[w] = "closing" => w \in active
  /\ \A w \in active : conn[w] \in {"open", "closing"}
  /\ \A c \in Call : \A w \in found[c] : conn[w] \in {"closing"} \cup Gone
  /\ DrainedFirst

\* A connection leaves its closing for closed or forgotten only, and never these.
LEMMA ConnStep ==
  ASSUME OneInv, DrainInv, UNCHANGED <<found, loop, listening>>,
         \A w \in Conn : conn[w] \in {"closing"} \cup Gone
                           => conn'[w] = conn[w] \/ conn'[w] \in Gone,
         \A w \in Conn : conn'[w] = "closing" => w \in active',
         \A w \in active' : conn'[w] \in {"open", "closing"},
         \A c \in Call : found[c] \subseteq Conn
  PROVE  DrainInv'
BY DEF DrainInv, DrainedFirst, Gone

\* What every call found are connections.
FoundInv == \A c \in Call : found[c] \subseteq Conn

\* The handlers of a shutdown start once the server has stopped listening and
\* all the connections its drain found are closed, or in error and forgotten.
THEOREM DrainedFirstHolds == Spec => []DrainedFirst
<1>1. Init => DrainInv /\ FoundInv
  BY DEF Init, DrainInv, DrainedFirst, FoundInv
<1>2. OneInv /\ DrainInv /\ FoundInv /\ [Next]_vars => DrainInv' /\ FoundInv'
  <2> SUFFICES ASSUME OneInv, DrainInv, FoundInv, [Next]_vars
               PROVE  DrainInv' /\ FoundInv'
    OBVIOUS
  <2>0. Shapes
    BY DEF OneInv
  <2>1. ASSUME NEW c \in Call, NEW signal \in BOOLEAN, Shutdown(c, signal)
        PROVE  DrainInv' /\ FoundInv'
    <3>1. /\ at[c] = "new" /\ loop[c] = 0 /\ ~ shutting
          /\ found' = [found EXCEPT ![c] = active]
      BY <2>1 DEF Shutdown, Begin, OneInv
    <3>2. FoundInv'
      BY <2>0, <3>1 DEF FoundInv, Shapes
    <3>3. /\ found'[c] = active
          /\ \A d \in Call : d # c => found'[d] = found[d]
      BY <2>0, <3>1 DEF Shapes
    <3>4. CASE active = {}
      <4>1. StopAndRun(c) /\ conn' = conn
        BY <2>1, <3>4 DEF Shutdown, Begin
      <4>2. listening' = FALSE /\ \A d \in Call : d # c => loop'[d] = loop[d]
        BY <2>0, <4>1, StopAndRunMoves
      <4>3. \A w \in Conn : conn[w] # "closing"
        BY <3>4 DEF DrainInv
      <4>4. DrainedFirst'
        BY <3>3, <3>4, <4>1, <4>2 DEF DrainInv, DrainedFirst, Gone
      <4> QED
        <5>1. active' = {}
          BY <2>0, <4>1, StopAndRunMoves
        <5> QED
          BY <3>2, <3>3, <3>4, <4>1, <4>3, <4>4, <5>1 DEF DrainInv
    <3>5. CASE active # {}
      <4>1. /\ conn' = [w \in Conn |-> IF w \in active THEN "closing" ELSE conn[w]]
            /\ UNCHANGED <<active, listening, loop>>
        BY <2>1, <3>5 DEF Shutdown, Begin
      <4>2. \A w \in Conn : conn'[w] = "closing" => w \in active'
        BY <4>1 DEF DrainInv
      <4>3. \A d \in Call : \A w \in found'[d] : conn'[w] \in {"closing"} \cup Gone
        BY <2>0, <3>3, <4>1 DEF DrainInv, FoundInv, Shapes
      <4>4. ASSUME NEW d \in Call, loop[d] > 0
            PROVE  ~ listening /\ \A w \in found'[d] : conn'[w] \in Gone
        <5>1. d # c /\ found'[d] = found[d] /\ found[d] \subseteq Conn
          BY <3>1, <3>3, <4>4 DEF FoundInv
        <5>2. ~ listening /\ \A w \in found[d] : conn[w] \in Gone
          BY <4>4 DEF DrainInv, DrainedFirst, Gone
        <5>3. \A w \in found[d] : w \notin active
          BY <5>2 DEF DrainInv, Gone
        <5> QED
          BY <4>1, <5>1, <5>2, <5>3
      <4>5. \A w \in active' : conn'[w] \in {"open", "closing"}
        BY <2>0, <4>1 DEF Shapes
      <4> QED
        BY <3>2, <4>1, <4>2, <4>3, <4>4, <4>5 DEF DrainInv, DrainedFirst, Gone
    <3> QED
      BY <3>4, <3>5
  <2>2. ASSUME NEW c \in Call, Drained(c) PROVE DrainInv' /\ FoundInv'
    <3>1. /\ conn' = [w \in Conn |-> IF w \in active THEN "closed" ELSE conn[w]]
          /\ UNCHANGED found
      BY <2>2 DEF Drained, history
    <3>2. /\ active' = {}
          /\ \A d \in Call : loop'[d] > 0 => loop[d] > 0 \/ (d = c /\ listening' = FALSE)
          /\ listening' = listening \/ listening' = FALSE
      BY <2>0, <2>2, StopAndRunMoves DEF Drained
    <3>3. \A w \in Conn : conn[w] \in {"closing"} \cup Gone => conn'[w] \in Gone
      BY <3>1 DEF DrainInv, Gone
    <3>4. \A d \in Call : \A w \in found[d] : conn'[w] \in Gone
      BY <3>3 DEF DrainInv, FoundInv
    <3>5. \A w \in Conn : conn'[w] # "closing"
      BY <3>1, <3>3 DEF Gone
    <3>6. DrainedFirst'
      BY <3>1, <3>2, <3>4 DEF DrainedFirst, DrainInv, Gone
    <3> QED
      BY <3>1, <3>2, <3>4, <3>5, <3>6 DEF DrainInv, FoundInv
  <2>3. ASSUME NEW c \in Call, HandlerReturns(c) \/ HandlerThrows(c)
        PROVE  DrainInv' /\ FoundInv'
    <3>1. /\ UNCHANGED <<conn, active, listening, found>> /\ loop[c] > 0
          /\ loop' = [loop EXCEPT ![c] = @ + 1] \/ loop' = [loop EXCEPT ![c] = 0]
      BY <2>3 DEF HandlerReturns, HandlerThrows, connVars, history
    <3>2. \A d \in Call : loop'[d] > 0 => loop[d] > 0
      BY <2>0, <3>1 DEF Shapes
    <3> QED
      BY <3>1, <3>2 DEF DrainInv, DrainedFirst, FoundInv
  <2>4. ASSUME NEW w \in Conn, Ask(w) \/ Upgrade(w) \/ Closes(w) \/ Errs(w)
        PROVE  DrainInv' /\ FoundInv'
    <3>1. /\ UNCHANGED <<found, loop, listening>>
          /\ \/ /\ conn[w] = "out" /\ conn' = [conn EXCEPT ![w] = "asked"]
                /\ active' = active
             \/ /\ conn[w] = "asked" /\ conn' = [conn EXCEPT ![w] = "open"]
                /\ active' = active \cup {w}
             \/ \E gone \in Gone : /\ conn' = [conn EXCEPT ![w] = gone]
                                   /\ active' = active \ {w}
      BY <2>4 DEF Gone, Ask, Upgrade, Closes, Errs, callVars, history
    <3>2. \A v \in Conn : conn[v] \in {"closing"} \cup Gone
                            => conn'[v] = conn[v] \/ conn'[v] \in Gone
      BY <2>0, <3>1 DEF Shapes, Gone
    <3>3. \A v \in Conn : conn'[v] = "closing" => v \in active'
      BY <2>0, <3>1 DEF Shapes, DrainInv, Gone
    <3>4. \A v \in active' : conn'[v] \in {"open", "closing"}
      BY <2>0, <3>1 DEF Shapes, DrainInv, Gone
    <3> QED
      BY <3>1, <3>2, <3>3, <3>4, ConnStep DEF FoundInv
  <2>5. ASSUME \/ OnShutdown \/ UNCHANGED vars
               \/ \E c \in Call : \/ \E signal \in BOOLEAN : ShutdownSkipped(c, signal)
                                  \/ TimesOut(c) \/ Exit(c)
        PROVE  DrainInv' /\ FoundInv'
    <3>1. UNCHANGED <<conn, active, listening, found, loop>>
      BY <2>5 DEF OnShutdown, vars, ShutdownSkipped, TimesOut, Exit, connVars, callVars,
                  history
    <3> QED
      BY <3>1 DEF DrainInv, DrainedFirst, FoundInv
  <2> QED
    BY <2>1, <2>2, <2>3, <2>4, <2>5 DEF Next
<1>3. DrainInv => DrainedFirst
  BY DEF DrainInv
<1> QED
  BY <1>1, <1>2, <1>3, OneInvHolds, PTL DEF Spec

-----------------------------------------------------------------------------
(***************************************************************************)
(* A call ends with "ok" only when there was no handler to run or its loop *)
(* has passed the last one registered, and handlers are never taken out.   *)
(***************************************************************************)
ResultInv ==
  /\ DOMAIN result = Call /\ ran \in [Call -> SUBSET Nat] /\ due \in [Call -> Nat]
  /\ \A c \in Call : at[c] # "over" => result[c] = "none"
  /\ \A c \in Call : due[c] <= handlers
  /\ \A c \in Call : loop[c] > 0 => \A i \in 1..loop[c] - 1 : i \in ran[c]
  /\ \A c \in Call : result[c] = "ok" => \A i \in 1..due[c] : i \in ran[c]
  /\ \A c \in Call : at[c] = "over" => result[c] \in {"ok", "skipped", "failed"}
  /\ exited = "clean" => \E c \in Call : bySignal[c] /\ result[c] \in {"ok", "skipped"}

\* A stop that starts the handlers leaves the record of those that returned.
LEMMA StopAndRunResult ==
  ASSUME OneInv, ResultInv, NEW c \in Call, StopAndRun(c), loop[c] = 0, at[c] # "over",
         UNCHANGED <<handlers, ran, exited>>, exited = "no",
         due' = due \/ due' = [due EXCEPT ![c] = handlers]
  PROVE  ResultInv'
<1> USE DEF ResultInv
<1>0. Shapes
  BY DEF OneInv
<1>1. /\ due' \in [Call -> Nat] /\ \A d \in Call : due'[d] <= handlers
      /\ \A d \in Call : d # c => due'[d] = due[d]
  BY <1>0 DEF Shapes
<1>2. /\ loop'[c] \in {0, 1} /\ at'[c] \in {"over", "running"}
      /\ \A d \in Call : d # c => at'[d] = at[d] /\ loop'[d] = loop[d]
  BY <1>0, StopAndRunMoves
<1>3. /\ DOMAIN result' = Call
      /\ \A d \in Call : d # c => result'[d] = result[d]
      /\ \/ at'[c] = "over" /\ result'[c] = "ok" /\ handlers = 0
         \/ at'[c] = "running" /\ result'[c] = "none"
  <2>1. CASE handlers = 0
    BY <1>0, <2>1 DEF StopAndRun, Finish, Shapes
  <2>2. CASE handlers # 0
    BY <1>0, <2>2 DEF StopAndRun, Shapes
  <2> QED
    BY <2>1, <2>2
<1>4. \A d \in Call : loop'[d] > 0 => \A i \in 1..loop'[d] - 1 : i \in ran[d]
  <2>1. \A i \in 1..loop'[c] - 1 : i \in ran[c]
    BY <1>2
  <2> QED
    BY <1>2, <2>1
<1>5. \A d \in Call : result'[d] = "ok" => \A i \in 1..due'[d] : i \in ran[d]
  <2>1. result'[c] = "ok" => \A i \in 1..due'[c] : i \in ran[c]
    <3>1. result'[c] = "ok" => due'[c] = 0
      BY <1>1, <1>3
    <3> QED
      BY <3>1
  <2> QED
    BY <1>1, <1>3, <2>1
<1>6. \A d \in Call : at'[d] # "over" => result'[d] = "none"
  BY <1>2, <1>3
<1>7. \A d \in Call : at'[d] = "over" => result'[d] \in {"ok", "skipped", "failed"}
  BY <1>2, <1>3
<1> QED
  BY <1>1, <1>3, <1>4, <1>5, <1>6, <1>7

\* A signal's exit status is 0 only if all the handlers registered when its
\* shutdown began have returned, or a shutdown was skipped.
THEOREM CleanExitHolds == Spec => []CleanExit
<1> USE DEF ResultInv
<1>1. Init => ResultInv
  <2> SUFFICES ASSUME Init PROVE ResultInv
    OBVIOUS
  <2>1. handlers \in Nat
    BY LifecycleAssumption DEF Init, LifecycleAssumption
  <2> QED
    BY <2>1 DEF Init
<1>2. OneInv /\ ResultInv /\ [Next]_vars => ResultInv'
  <2> SUFFICES ASSUME OneInv, ResultInv, [Next]_vars PROVE ResultInv'
    OBVIOUS
  <2>0. /\ Shapes /\ loop \in [Call -> Nat] /\ handlers \in Nat /\ DOMAIN at = Call
    BY DEF OneInv, Shapes
  <2>1. ASSUME NEW c \in Call, NEW signal \in BOOLEAN, Shutdown(c, signal)
        PROVE  ResultInv'
    <3>1. /\ at[c] = "new" /\ loop[c] = 0 /\ exited = "no"
          /\ due' = [due EXCEPT ![c] = handlers]
          /\ UNCHANGED <<handlers, ran, exited>>
      BY <2>1 DEF Shutdown, Begin, OneInv, Alive
    <3>2. CASE active = {}
      BY <2>1, <3>1, <3>2, StopAndRunResult DEF Shutdown, Begin
    <3>3. CASE active # {}
      <4>1. at' = [at EXCEPT ![c] = "draining"] /\ UNCHANGED <<result, loop>>
        BY <2>1, <3>3 DEF Shutdown, Begin
      <4>2. result[c] = "none"
        BY <3>1
      <4> QED
        BY <2>0, <3>1, <4>1, <4>2
    <3> QED
      BY <3>2, <3>3
  <2>2. ASSUME NEW c \in Call, Drained(c) PROVE ResultInv'
    <3>1. UNCHANGED <<handlers, ran, due, exited, bySignal>> /\ exited = "no"
      BY <2>2 DEF Drained, history, Alive
    <3>2. CASE at[c] = "draining"
      <4>1. StopAndRun(c)
        BY <2>2, <3>2 DEF Drained
      <4> QED
        BY <3>1, <3>2, <4>1, StopAndRunResult DEF OneInv
    <3>3. CASE at[c] # "draining"
      BY <2>2, <3>1, <3>3 DEF Drained
    <3> QED
      BY <3>2, <3>3
  <2>3. ASSUME NEW c \in Call, HandlerReturns(c) PROVE ResultInv'
    <3>1. /\ UNCHANGED <<handlers, due, exited>> /\ exited = "no" /\ loop[c] > 0
          /\ ran' = [ran EXCEPT ![c] = @ \cup {loop[c]}]
      BY <2>3 DEF HandlerReturns, Alive
    <3>2. \A i \in 1..loop[c] : i \in ran'[c]
      BY <2>0, <3>1
    <3>3. \A d \in Call : d # c => ran'[d] = ran[d]
      BY <3>1
    <3>4. ran' \in [Call -> SUBSET Nat]
      BY <2>0, <3>1
    <3>5. CASE loop[c] < handlers
      <4>1. loop' = [loop EXCEPT ![c] = @ + 1] /\ UNCHANGED <<at, result>>
        BY <2>3, <3>5 DEF HandlerReturns
      <4>2. \A d \in Call : loop'[d] > 0 => \A i \in 1..loop'[d] - 1 : i \in ran'[d]
        BY <2>0, <3>2, <3>3, <4>1
      <4>3. \A d \in Call : ran[d] \subseteq ran'[d]
        BY <3>1, <3>3
      <4> QED
        BY <3>1, <3>4, <4>1, <4>2, <4>3
    <3>6. CASE ~ (loop[c] < handlers)
      <4>1. /\ loop' = [loop EXCEPT ![c] = 0]
            /\ \/ UNCHANGED <<at, result>>
               \/ /\ at' = [at EXCEPT ![c] = "over"]
                  /\ result' = [result EXCEPT ![c] = "ok"]
        BY <2>3, <3>6 DEF HandlerReturns, Finish
      <4>2. \A i \in 1..due[c] : i \in ran'[c]
        <5>1. due[c] \in Nat /\ due[c] <= loop[c]
          BY <2>0, <3>6
        <5> QED
          BY <2>0, <3>2, <5>1
      <4>3. \A d \in Call : loop'[d] > 0 => \A i \in 1..loop'[d] - 1 : i \in ran'[d]
        BY <2>0, <3>3, <4>1
      <4>4. \A d \in Call : result'[d] = "ok" => \A i \in 1..due[d] : i \in ran'[d]
        BY <3>3, <4>1, <4>2
      <4>5. DOMAIN result' = Call
        BY <4>1
      <4>6. \A d \in Call : at'[d] # "over" => result'[d] = "none"
        BY <2>0, <4>1
      <4>7. \A d \in Call : at'[d] = "over" => result'[d] \in {"ok", "skipped", "failed"}
        BY <2>0, <4>1
      <4> QED
        BY <3>1, <3>4, <4>3, <4>4, <4>5, <4>6, <4>7
    <3> QED
      BY <3>5, <3>6
  <2>4. ASSUME NEW c \in Call, HandlerThrows(c) \/ TimesOut(c) PROVE ResultInv'
    <3>1. /\ UNCHANGED <<handlers, due, ran, exited>> /\ exited = "no"
          /\ loop' = loop \/ loop' = [loop EXCEPT ![c] = 0]
          /\ \/ UNCHANGED <<at, result>>
             \/ /\ at' = [at EXCEPT ![c] = "over"]
                /\ result' = [result EXCEPT ![c] = "failed"]
      BY <2>4 DEF HandlerThrows, TimesOut, Finish, Alive, history
    <3>2. \A d \in Call : loop'[d] > 0 => loop'[d] = loop[d]
      BY <2>0, <3>1
    <3> QED
      BY <2>0, <3>1, <3>2
  <2>5. ASSUME NEW c \in Call, NEW signal \in BOOLEAN, ShutdownSkipped(c, signal)
        PROVE  ResultInv'
    <3>1. /\ UNCHANGED <<handlers, due, ran, exited, loop>> /\ exited = "no"
          /\ at' = [at EXCEPT ![c] = "over"]
          /\ result' = [result EXCEPT ![c] = "skipped"]
      BY <2>5 DEF ShutdownSkipped, Finish, Alive, history
    <3> QED
      BY <2>0, <3>1
  <2>6. ASSUME NEW c \in Call, Exit(c) PROVE ResultInv'
    <3>1. /\ UNCHANGED <<handlers, due, ran, loop, at, result, bySignal>>
          /\ bySignal[c] /\ at[c] = "over"
          /\ exited' = IF result[c] = "failed" THEN "failed" ELSE "clean"
      BY <2>6 DEF Exit, callVars, history
    <3>2. exited' = "clean" => result[c] \in {"ok", "skipped"}
      BY <3>1
    <3> QED
      BY <3>1, <3>2
  <2>7. CASE OnShutdown
    <3>1. /\ handlers' = handlers + 1
          /\ UNCHANGED <<due, ran, exited, loop, at, result, bySignal>>
      BY <2>7 DEF OnShutdown, callVars, history
    <3>2. \A c \in Call : due[c] <= handlers'
      BY <2>0, <3>1
    <3> QED
      BY <3>1, <3>2
  <2>8. CASE UNCHANGED vars \/ \E w \in Conn : Ask(w) \/ Upgrade(w) \/ Closes(w) \/ Errs(w)
    <3>1. UNCHANGED <<handlers, due, ran, exited, loop, at, result, bySignal>>
      BY <2>8 DEF vars, Ask, Upgrade, Closes, Errs, callVars, history
    <3> QED
      BY <3>1
  <2> QED
    BY <2>1, <2>2, <2>3, <2>4, <2>5, <2>6, <2>7, <2>8 DEF Next
<1>3. ResultInv => CleanExit
  <2> SUFFICES ASSUME ResultInv, exited = "clean", \A c \in Call : result[c] # "skipped"
               PROVE  \E c \in Call : bySignal[c] /\ result[c] = "ok"
                                      /\ 1..due[c] \subseteq ran[c]
    BY DEF CleanExit
  <2> QED
    OBVIOUS
<1> QED
  BY <1>1, <1>2, <1>3, OneInvHolds, PTL DEF Spec

-----------------------------------------------------------------------------
(* The searches of the dependency manager: what a loop of so many steps    *)
(* comes to.                                                               *)
\* What holds at 0 and of the next holds of all up to a bound.
LEMMA UpTo ==
  ASSUME NEW N \in Nat, NEW P, 0 \in P, \A k \in Nat : k < N /\ k \in P => k + 1 \in P
  PROVE  \A k \in 0..N : k \in P
<1> DEFINE Bad == {k \in Nat : k <= N /\ k \notin P}
<1>1. Bad = {}
  <2> SUFFICES ASSUME Bad # {} PROVE FALSE
    OBVIOUS
  <2>1. PICK k \in Bad : \A m \in Bad : k <= m
    <3>1. Bad \in SUBSET Nat
      OBVIOUS
    <3> HIDE DEF Bad
    <3> QED
      BY <3>1, LeastNumber
  <2>2. k \in Nat /\ k <= N /\ k \notin P /\ k # 0
    OBVIOUS
  <2>3. PICK j : j = k - 1
    OBVIOUS
  <2>4. j \in Nat /\ j < N /\ j + 1 = k /\ j <= N /\ ~ (k <= j)
    BY <2>2, <2>3
  <2>5. j \in P
    BY <2>1, <2>4
  <2> QED
    BY <2>2, <2>4, <2>5
<1> QED
  BY <1>1

\* A loop whose body is a function of the round and the state has its states.
RunsFor(run, start, step, N) ==
  run = [k \in 0..N |-> IF k = 0 THEN start ELSE step[<<k, run[k - 1]>>]]

\* The function a loop recurses by exists.
LEMMA RunExists ==
  ASSUME NEW N \in Nat, NEW start, NEW step
  PROVE  \E run : RunsFor(run, start, step, N)
<1> DEFINE P == {n \in Nat : \E run : RunsFor(run, start, step, n)}
<1>1. 0 \in P
  <2> DEFINE run == [k \in 0..0 |-> start]
  <2>1. run = [k \in 0..0 |-> IF k = 0 THEN start ELSE step[<<k, run[k - 1]>>]]
    OBVIOUS
  <2> QED
    BY <2>1 DEF RunsFor
<1>2. ASSUME NEW n \in Nat, n \in P PROVE n + 1 \in P
  <2>1. PICK run : RunsFor(run, start, step, n)
    BY <1>2
  <2>2. \A k \in 0..n : run[k] = IF k = 0 THEN start ELSE step[<<k, run[k - 1]>>]
    BY <2>1 DEF RunsFor
  <2> DEFINE last == step[<<n + 1, run[n]>>]
             more == [k \in 0..(n + 1) |-> IF k = n + 1 THEN last ELSE run[k]]
  <2>3. \A k \in 0..(n + 1) :
          more[k] = IF k = 0 THEN start ELSE step[<<k, more[k - 1]>>]
    <3> SUFFICES ASSUME NEW k \in 0..(n + 1)
                 PROVE  more[k] = IF k = 0 THEN start ELSE step[<<k, more[k - 1]>>]
      OBVIOUS
    <3>1. CASE k = n + 1
      <4>1. k # 0 /\ k - 1 = n /\ more[n] = run[n] /\ more[k] = last
        BY <3>1
      <4> QED
        BY <3>1, <4>1
    <3>2. CASE k # n + 1
      <4>1. k \in 0..n /\ more[k] = run[k] /\ (k # 0 => more[k - 1] = run[k - 1])
        BY <3>2
      <4> HIDE DEF more, last
      <4> QED
        BY <2>2, <4>1
    <3> QED
      BY <3>1, <3>2
  <2>4. more = [k \in 0..(n + 1) |-> more[k]]
    OBVIOUS
  <2>5. RunsFor(more, start, step, n + 1)
    <3> HIDE DEF more
    <3> QED
      BY <2>3, <2>4 DEF RunsFor
  <2> QED
    BY <2>5
<1>3. N \in P
  <2> HIDE DEF P
  <2>1. \A k \in Nat : k < N /\ k \in P => k + 1 \in P
    BY <1>2
  <2>2. \A k \in 0..N : k \in P
    BY <1>1, <2>1, UpTo
  <2> QED
    BY <2>2
<1> QED
  BY <1>3

\* The states stay in a set the body stays in.  As long as the body makes a
\* measure of the state less, that many rounds bring it to zero.
LEMMA RunStays ==
  ASSUME NEW N \in Nat, NEW X, NEW run, run[0] \in X,
         \A k \in Nat : k < N /\ run[k] \in X => run[k + 1] \in X
  PROVE  \A k \in 0..N : run[k] \in X
<1> DEFINE P == {k \in Nat : run[k] \in X}
<1>1. 0 \in P /\ \A k \in Nat : k < N /\ k \in P => k + 1 \in P
  OBVIOUS
<1> HIDE DEF P
<1>2. \A k \in 0..N : k \in P
  BY <1>1, UpTo
<1> QED
  BY <1>2 DEF P

\* A measure that falls until it is zero is zero after as many rounds as it begins with.
LEMMA RunEnds ==
  ASSUME NEW N \in Nat, NEW run, NEW m, \A k \in 0..N : m[k] \in Nat, m[0] <= N,
         \A k \in Nat : k < N /\ m[k] > 0 => m[k + 1] < m[k],
         \A k \in Nat : k < N /\ m[k] = 0 => m[k + 1] = 0
  PROVE  m[N] = 0
<1> DEFINE P == {k \in Nat : k <= N => m[k] = 0 \/ m[k] + k <= N}
<1>1. 0 \in P
  OBVIOUS
<1>2. ASSUME NEW k \in Nat, k < N, k \in P PROVE k + 1 \in P
  <2>1. k \in 0..N /\ k + 1 \in 0..N
    BY <1>2
  <2>2. PICK a \in Nat, b \in Nat : a = m[k] /\ b = m[k + 1]
    BY <2>1
  <2>3. (a = 0 \/ a + k <= N) /\ (a > 0 => b < a) /\ (a = 0 => b = 0)
    BY <1>2, <2>1, <2>2
  <2>4. b = 0 \/ b + (k + 1) <= N
    BY <2>3
  <2> QED
    BY <2>2, <2>4
<1>3. \A k \in 0..N : k \in P
  <2> HIDE DEF P
  <2> QED
    BY <1>1, <1>2, UpTo
<1>4. N \in P /\ N \in 0..N
  BY <1>3
<1>5. PICK a \in Nat : a = m[N]
  BY <1>4
<1>6. a = 0 \/ a + N <= N
  BY <1>4, <1>5
<1> QED
  BY <1>5, <1>6

-----------------------------------------------------------------------------
(* detectCycle(). *)
IsGraph(known, g) ==
  /\ known \in Seq(Plugin) /\ g \in [Plugin -> Seq(Plugin)]
  /\ \A i, j \in DOMAIN known : known[i] = known[j] => i = j

Names(known) == {known[i] : i \in DOMAIN known}
DependsOn(g, n, d) == \E j \in DOMAIN g[n] : g[n][j] = d

\* A set in which each depends on another of it.
Circle(known, g, S) ==
  /\ S \in SUBSET Names(known) /\ S # {}
  /\ \A n \in S : \E d \in S : DependsOn(g, n, d)

Colours(known) == [Names(known) -> {"white", "gray", "black"}]
SearchState(known) ==
  [color : Colours(known), next : [Names(known) -> Nat], path : Seq(Names(known)),
   root : Nat, cycle : Seq(Plugin)]

\* The gray names are the path, on which each depends on the next, and the first
\* finds the last again when there is a cycle.
GrayIsPath(known, color, path) ==
  \A n \in Names(known) : color[n] = "gray" <=> \E i \in DOMAIN path : path[i] = n
Distinct(path) == \A i, j \in DOMAIN path : path[i] = path[j] => i = j
PathDepends(g, path) ==
  \A i \in DOMAIN path : i # Len(path) => DependsOn(g, path[i], path[i + 1])

\* What a loop has passed is black, or a call that has not returned.
LoopPassed(known, g, color, next, path) ==
  \A i \in DOMAIN path : \A j \in DOMAIN g[path[i]] :
    j < next[path[i]] /\ g[path[i]][j] \in Names(known) =>
      \/ color[g[path[i]][j]] = "black"
      \/ i # Len(path) /\ g[path[i]][j] = path[i + 1]
NextInside(known, g, color, next) ==
  \A n \in Names(known) : /\ 1 <= next[n] /\ next[n] <= Len(g[n]) + 1
                          /\ color[n] = "white" => next[n] = 1
RootsPassed(known, color, root) ==
  /\ 1 <= root /\ root <= Len(known) + 1
  /\ \A i \in DOMAIN known : i < root => color[known[i]] # "white"

\* A name becomes black after all it depends on, so none of a circle can be the
\* first.
NoBlackCircle(known, g, color) ==
  \A S : Circle(known, g, S) => \A n \in S : color[n] # "black"

SearchInv(known, g, s) ==
  /\ s \in SearchState(known)
  /\ GrayIsPath(known, s.color, s.path) /\ Distinct(s.path) /\ PathDepends(g, s.path)
  /\ s.cycle = <<>> => LoopPassed(known, g, s.color, s.next, s.path)
  /\ NextInside(known, g, s.color, s.next) /\ RootsPassed(known, s.color, s.root)
  /\ NoBlackCircle(known, g, s.color)
  /\ s.cycle # <<>> => \E S : Circle(known, g, S)

\* What is left to do.
LeftOf(known, g, s) ==
  [n \in Names(known) |-> IF s.color[n] = "black" THEN 0 ELSE Len(g[n]) + 2 - s.next[n]]
SearchLeft(known, g, s) ==
  IF s.cycle # <<>> THEN 0
  ELSE Len(known) + 1 - s.root + SumFunctionOnSet(LeftOf(known, g, s), Names(known))

\* A sequence without repetition has as many elements as places.
LEMMA DistinctCounts ==
  ASSUME NEW S, NEW q \in Seq(S), \A i, j \in DOMAIN q : q[i] = q[j] => i = j
  PROVE  /\ IsFiniteSet({q[i] : i \in DOMAIN q})
         /\ Cardinality({q[i] : i \in DOMAIN q}) = Len(q)
<1> DEFINE T == {q[i] : i \in DOMAIN q}
<1>1. Len(q) \in Nat /\ DOMAIN q = 1..Len(q)
  OBVIOUS
<1>2. q \in [1..Len(q) -> T]
  BY <1>1
<1>3. q \in Bijection(1..Len(q), T)
  <2>1. \A i, j \in 1..Len(q) : q[i] = q[j] => i = j
    BY <1>1
  <2>2. \A t \in T : \E i \in 1..Len(q) : q[i] = t
    BY <1>1
  <2> HIDE DEF T
  <2> QED
    BY <1>2, <2>1, <2>2 DEF Bijection, Injection, Surjection, IsInjective
<1>4. ExistsBijection(1..Len(q), T)
  BY <1>3 DEF ExistsBijection
<1> HIDE DEF T
<1>5. IsFiniteSet(1..Len(q)) /\ Cardinality(1..Len(q)) = Len(q)
  <2>1. 1 \in Int /\ Len(q) \in Int
    BY <1>1
  <2> QED
    BY <1>1, <2>1, FS_Interval
<1> QED
  BY <1>4, <1>5, FS_Bijection DEF T

\* What the graph is made of.
LEMMA GraphIs ==
  ASSUME NEW known, NEW g, IsGraph(known, g)
  PROVE  /\ Len(known) \in Nat /\ DOMAIN known = 1..Len(known)
         /\ Names(known) \subseteq Plugin /\ IsFiniteSet(Names(known))
         /\ \A i \in DOMAIN known : known[i] \in Names(known)
         /\ \A n \in Names(known) : g[n] \in Seq(Plugin) /\ Len(g[n]) \in Nat
                                    /\ DOMAIN g[n] = 1..Len(g[n])
         /\ Search!ToSet(known) = Names(known)
         /\ \A n \in Names(known) : Search!ToSet(g[n]) = {d \in Plugin : DependsOn(g, n, d)}
<1>1. Len(known) \in Nat /\ DOMAIN known = 1..Len(known)
  BY DEF IsGraph
<1>2. Names(known) \subseteq Plugin /\ \A i \in DOMAIN known : known[i] \in Names(known)
  BY DEF IsGraph, Names
<1>3. IsFiniteSet(Names(known))
  BY DistinctCounts DEF IsGraph, Names
<1>4. \A n \in Names(known) : g[n] \in Seq(Plugin)
  BY <1>2 DEF IsGraph
<1>5. \A n \in Names(known) : Len(g[n]) \in Nat /\ DOMAIN g[n] = 1..Len(g[n])
  BY <1>4
<1>6. Search!ToSet(known) = Names(known)
  BY DEF Search!ToSet, Names
<1>7. ASSUME NEW n \in Names(known)
      PROVE  Search!ToSet(g[n]) = {d \in Plugin : DependsOn(g, n, d)}
  <2>1. \A j \in DOMAIN g[n] : g[n][j] \in Plugin
    BY <1>4
  <2> QED
    BY <2>1 DEF Search!ToSet, DependsOn
<1> QED
  BY <1>1, <1>2, <1>3, <1>4, <1>5, <1>6, <1>7

\* A circle is what Cyclic asks for.
LEMMA CyclicIs ==
  ASSUME NEW known, NEW g, IsGraph(known, g)
  PROVE  Search!Cyclic(known, g) <=> \E S : Circle(known, g, S)
<1>1. \A S : S \in SUBSET Names(known) =>
        (\A n \in S : Search!ToSet(g[n]) \cap S # {})
          <=> \A n \in S : \E d \in S : DependsOn(g, n, d)
  <2> SUFFICES ASSUME NEW S \in SUBSET Names(known), NEW n \in S
               PROVE  Search!ToSet(g[n]) \cap S # {} <=> \E d \in S : DependsOn(g, n, d)
    OBVIOUS
  <2>1. Search!ToSet(g[n]) = {d \in Plugin : DependsOn(g, n, d)} /\ S \subseteq Plugin
    BY GraphIs
  <2> QED
    BY <2>1
<1>2. Search!ToSet(known) = Names(known)
  BY GraphIs
<1> QED
  BY <1>1, <1>2, Zenon DEF Search!Cyclic, Circle

\* A path is as long as it is.
LEMMA PathIs ==
  ASSUME NEW known, NEW path \in Seq(Names(known))
  PROVE  /\ Len(path) \in Nat /\ DOMAIN path = 1..Len(path)
         /\ \A i \in DOMAIN path : path[i] \in Names(known)
         /\ path = <<>> <=> Len(path) = 0
OBVIOUS

\* Calls that run, one behind the other, of which the last has come to a place.
Calls(known, g, color, next, path) ==
  /\ IsGraph(known, g) /\ color \in Colours(known) /\ next \in [Names(known) -> Nat]
  /\ path \in Seq(Names(known))
  /\ GrayIsPath(known, color, path) /\ Distinct(path) /\ PathDepends(g, path)
  /\ LoopPassed(known, g, color, next, path) /\ NextInside(known, g, color, next)
  /\ NoBlackCircle(known, g, color)

\* A call joins them: of a root, or of what the last depends on there.
Joins(known, g, color, next, path, n, color2, next2, path2) ==
  /\ Calls(known, g, color, next, path) /\ n \in Names(known) /\ color[n] = "white"
  /\ color2 \in Colours(known) /\ next2 \in [Names(known) -> Nat] /\ path2 \in Seq(Names(known))
  /\ \A m \in Names(known) : color2[m] = IF m = n THEN "gray" ELSE color[m]
  /\ Len(path2) = Len(path) + 1 /\ path2[Len(path) + 1] = n
  /\ \A i \in 1..Len(path) : path2[i] = path[i]
  /\ path = <<>> => \A m \in Names(known) : next2[m] = next[m]
  /\ path # <<>> => /\ next[path[Len(path)]] \in DOMAIN g[path[Len(path)]]
                    /\ g[path[Len(path)]][next[path[Len(path)]]] = n
                    /\ \A m \in Names(known) :
                         next2[m] = IF m = path[Len(path)] THEN next[m] + 1 ELSE next[m]

\* A name that is called joins the path, and each call still leads to the next.
LEMMA CallJoins ==
  ASSUME NEW known, NEW g, NEW color, NEW next, NEW path, NEW n, NEW color2, NEW next2, NEW path2,
         Joins(known, g, color, next, path, n, color2, next2, path2)
  PROVE  Calls(known, g, color2, next2, path2)
<1> SUFFICES ASSUME Calls(known, g, color, next, path), n \in Names(known), color[n] = "white",
                    color2 \in Colours(known), next2 \in [Names(known) -> Nat],
                    path2 \in Seq(Names(known)),
                    \A m \in Names(known) : color2[m] = IF m = n THEN "gray" ELSE color[m],
                    Len(path2) = Len(path) + 1, path2[Len(path) + 1] = n,
                    \A i \in 1..Len(path) : path2[i] = path[i],
                    path = <<>> => \A m \in Names(known) : next2[m] = next[m],
                    path # <<>> => /\ next[path[Len(path)]] \in DOMAIN g[path[Len(path)]]
                                   /\ g[path[Len(path)]][next[path[Len(path)]]] = n
                                   /\ \A m \in Names(known) :
                                        next2[m] = IF m = path[Len(path)] THEN next[m] + 1
                                                   ELSE next[m]
             PROVE  Calls(known, g, color2, next2, path2)
  BY Zenon DEF Joins
<1>1. /\ Len(path) \in Nat /\ DOMAIN path = 1..Len(path)
      /\ \A i \in DOMAIN path : path[i] \in Names(known)
      /\ path = <<>> <=> Len(path) = 0
  BY PathIs DEF Calls
<1>2. DOMAIN path2 = 1..(Len(path) + 1) /\ Len(path2) = Len(path) + 1
  BY PathIs
<1>13. Len(path2) # Len(path)
  <2>1. PICK l \in Nat : l = Len(path)
    BY <1>1
  <2>2. Len(path2) = l + 1
    BY <2>1
  <2> QED
    BY <2>1, <2>2
<1>3. \A i \in DOMAIN path2 : i \in DOMAIN path \/ i = Len(path) + 1
  BY <1>1, <1>2
<1>4. \A i \in DOMAIN path : path2[i] = path[i] /\ i \in DOMAIN path2 /\ color[path[i]] = "gray"
  BY <1>1, <1>2 DEF Calls, GrayIsPath
<1>5. \A i \in DOMAIN path : path[i] # n
  BY <1>4
<1>6. GrayIsPath(known, color2, path2)
  <2> SUFFICES ASSUME NEW m \in Names(known)
               PROVE  color2[m] = "gray" <=> \E i \in DOMAIN path2 : path2[i] = m
    BY DEF GrayIsPath
  <2>1. color[m] = "gray" <=> \E i \in DOMAIN path : path[i] = m
    BY DEF Calls, GrayIsPath
  <2>2. Len(path) + 1 \in DOMAIN path2
    BY <1>1, <1>2
  <2> QED
    BY <1>3, <1>4, <2>1, <2>2
<1>7. Distinct(path2)
  <2> SUFFICES ASSUME NEW i \in DOMAIN path2, NEW j \in DOMAIN path2, path2[i] = path2[j]
               PROVE  i = j
    BY DEF Distinct
  <2>1. CASE i \in DOMAIN path /\ j \in DOMAIN path
    BY <1>4, <2>1 DEF Distinct, Calls
  <2>2. \A k \in DOMAIN path : path2[k] # n
    BY <1>4, <1>5
  <2>3. \A k \in DOMAIN path2 : k \notin DOMAIN path => k = Len(path) + 1 /\ path2[k] = n
    BY <1>3
  <2> QED
    BY <2>1, <2>2, <2>3
<1>8. path # <<>> => DependsOn(g, path[Len(path)], n)
  BY DEF DependsOn
<1>9. PathDepends(g, path2)
  <2> SUFFICES ASSUME NEW i \in DOMAIN path2, i # Len(path2)
               PROVE  DependsOn(g, path2[i], path2[i + 1])
    BY DEF PathDepends
  <2>1. i \in DOMAIN path /\ i \in 1..Len(path)
    BY <1>1, <1>2
  <2>2. CASE i = Len(path)
    <3>1. path # <<>> /\ path2[i] = path[i]
      BY <1>1, <1>4, <2>1
    <3>2. path2[i + 1] = n
      BY <2>2, Zenon
    <3> QED
      BY <1>8, <2>2, <3>1, <3>2, Zenon
  <2>3. CASE i # Len(path)
    <3>1. i + 1 \in DOMAIN path
      BY <1>1, <2>1, <2>3
    <3>2. DependsOn(g, path[i], path[i + 1])
      BY <2>1, <2>3 DEF Calls, PathDepends
    <3> QED
      BY <1>4, <2>1, <3>1, <3>2
  <2> QED
    BY <2>2, <2>3
<1>10. LoopPassed(known, g, color2, next2, path2)
  <2> SUFFICES ASSUME NEW i \in DOMAIN path2, NEW j \in DOMAIN g[path2[i]],
                      j < next2[path2[i]], g[path2[i]][j] \in Names(known)
               PROVE  \/ color2[g[path2[i]][j]] = "black"
                      \/ i # Len(path2) /\ g[path2[i]][j] = path2[i + 1]
    BY DEF LoopPassed
  <2>0. path2[i] \in Names(known)
    BY PathIs
  <2>1. j \in Nat /\ j >= 1
    <3>1. DOMAIN g[path2[i]] = 1..Len(g[path2[i]]) /\ Len(g[path2[i]]) \in Nat
      BY <2>0, GraphIs DEF Calls
    <3> QED
      BY <3>1
  <2>2. CASE i = Len(path) + 1
    <3>1. path2[i] = n
      BY <2>2
    <3>2. next[n] = 1 /\ next2[n] = next[n]
      <4>1. next[n] = 1
        BY DEF Calls, NextInside
      <4>2. path # <<>> => path[Len(path)] # n
        BY <1>1, <1>5
      <4> QED
        BY <4>1, <4>2
    <3> QED
      BY <2>1, <3>1, <3>2
  <2>3. CASE i # Len(path) + 1
    <3>1. i \in DOMAIN path /\ i \in 1..Len(path) /\ path2[i] = path[i] /\ path # <<>>
      BY <1>1, <1>3, <1>4, <2>3
    <3>2. PICK d \in Names(known) : d = g[path[i]][j]
      BY <3>1
    <3>3. j \in DOMAIN g[path[i]]
      BY <3>1
    <3>4. j < next[path[i]] => \/ color[d] = "black"
                               \/ i # Len(path) /\ d = path[i + 1]
      BY <3>1, <3>2, <3>3 DEF Calls, LoopPassed
    <3>5. color[d] = "black" => color2[d] = "black"
      BY <3>2
    <3>6. i # Len(path) => i + 1 \in 1..Len(path) /\ path2[i + 1] = path[i + 1]
      BY <1>1, <3>1
    <3>7. CASE j < next[path[i]]
      BY <1>2, <3>1, <3>2, <3>4, <3>5, <3>6, <3>7
    <3>8. CASE ~ (j < next[path[i]])
      <4>1. next2[path[i]] # next[path[i]]
        BY <3>1, <3>8
      <4>2. path[i] = path[Len(path)]
        BY <1>1, <3>1, <4>1
      <4>3. i = Len(path)
        <5>1. Len(path) \in DOMAIN path
          BY <1>1, <3>1
        <5> QED
          BY <3>1, <4>2, <5>1 DEF Calls, Distinct
      <4>4. next[path[i]] \in Nat /\ next2[path[i]] = next[path[i]] + 1
        BY <1>1, <3>1, <4>2 DEF Calls
      <4>5. j = next[path[i]]
        BY <2>1, <3>1, <3>8, <4>4
      <4>6. g[path[i]][j] = n
        BY <3>1, <4>3, <4>5
      <4>7. path2[i + 1] = n
        BY <4>3, Zenon
      <4>8. i # Len(path2)
        BY <1>13, <4>3, Zenon
      <4> QED
        BY <3>1, <4>6, <4>7, <4>8, Zenon
    <3> QED
      BY <3>7, <3>8
  <2> QED
    BY <2>2, <2>3
<1>11. NextInside(known, g, color2, next2)
  <2> SUFFICES ASSUME NEW m \in Names(known)
               PROVE  /\ 1 <= next2[m] /\ next2[m] <= Len(g[m]) + 1
                      /\ color2[m] = "white" => next2[m] = 1
    BY DEF NextInside
  <2>1. /\ 1 <= next[m] /\ next[m] <= Len(g[m]) + 1 /\ next[m] \in Nat
        /\ color[m] = "white" => next[m] = 1
    BY DEF Calls, NextInside
  <2>2. Len(g[m]) \in Nat /\ DOMAIN g[m] = 1..Len(g[m])
    BY GraphIs DEF Calls
  <2>3. CASE next2[m] = next[m]
    BY <2>1, <2>3
  <2>4. CASE next2[m] # next[m]
    <3>1. path # <<>> /\ m = path[Len(path)] /\ next2[m] = next[m] + 1 /\ next[m] \in DOMAIN g[m]
      BY <2>4
    <3>2. Len(path) \in DOMAIN path /\ color[m] = "gray" /\ m # n
      BY <1>1, <1>4, <1>5, <3>1
    <3> QED
      BY <2>1, <2>2, <3>1, <3>2, SMTT(30)
  <2> QED
    BY <2>3, <2>4
<1>12. NoBlackCircle(known, g, color2)
  BY DEF Calls, NoBlackCircle, Circle
<1> QED
  BY <1>6, <1>7, <1>9, <1>10, <1>11, <1>12 DEF Calls

\* A dependency is passed over that is unknown, or black already.
LEMMA DependencyPassed ==
  ASSUME NEW known, NEW g, NEW color, NEW next, NEW path, Calls(known, g, color, next, path),
         path # <<>>, NEW u, u = path[Len(path)], NEW j, j = next[u], j \in DOMAIN g[u],
         g[u][j] \in Names(known) => color[g[u][j]] = "black",
         NEW next2 \in [Names(known) -> Nat],
         \A m \in Names(known) : next2[m] = IF m = u THEN next[m] + 1 ELSE next[m]
  PROVE  Calls(known, g, color, next2, path)
<1>1. /\ Len(path) \in Nat /\ DOMAIN path = 1..Len(path)
      /\ \A i \in DOMAIN path : path[i] \in Names(known)
      /\ path = <<>> <=> Len(path) = 0
  BY PathIs DEF Calls
<1>2. Len(path) \in DOMAIN path /\ u \in Names(known)
  BY <1>1
<1>3. color[u] = "gray"
  BY <1>2 DEF Calls, GrayIsPath
<1>4. next[u] \in Nat /\ next2[u] = j + 1 /\ j \in Nat
  BY <1>2 DEF Calls
<1>5. LoopPassed(known, g, color, next2, path)
  <2> SUFFICES ASSUME NEW i \in DOMAIN path, NEW k \in DOMAIN g[path[i]],
                      k < next2[path[i]], g[path[i]][k] \in Names(known)
               PROVE  \/ color[g[path[i]][k]] = "black"
                      \/ i # Len(path) /\ g[path[i]][k] = path[i + 1]
    BY DEF LoopPassed
  <2>1. CASE k < next[path[i]]
    BY <2>1 DEF Calls, LoopPassed
  <2>2. CASE ~ (k < next[path[i]])
    <3>1. path[i] = u
      BY <1>1, <2>2
    <3>2. k \in Nat
      <4>1. DOMAIN g[u] = 1..Len(g[u]) /\ Len(g[u]) \in Nat
        BY <1>2, GraphIs DEF Calls
      <4> QED
        BY <3>1, <4>1
    <3>3. k = j
      BY <1>4, <2>2, <3>1, <3>2
    <3> QED
      BY <3>1, <3>3
  <2> QED
    BY <2>1, <2>2
<1>6. NextInside(known, g, color, next2)
  <2> SUFFICES ASSUME NEW m \in Names(known)
               PROVE  /\ 1 <= next2[m] /\ next2[m] <= Len(g[m]) + 1
                      /\ color[m] = "white" => next2[m] = 1
    BY DEF NextInside
  <2>1. /\ 1 <= next[m] /\ next[m] <= Len(g[m]) + 1 /\ next[m] \in Nat
        /\ color[m] = "white" => next[m] = 1
    BY DEF Calls, NextInside
  <2>2. CASE m # u
    BY <2>1, <2>2
  <2>3. CASE m = u
    <3>1. Len(g[u]) \in Nat /\ DOMAIN g[u] = 1..Len(g[u])
      BY <1>2, GraphIs DEF Calls
    <3> QED
      BY <1>3, <1>4, <2>3, <3>1
  <2> QED
    BY <2>2, <2>3
<1> QED
  BY <1>5, <1>6 DEF Calls

\* The last call returns when its loop is over.
LEMMA CallReturns ==
  ASSUME NEW known, NEW g, NEW color, NEW next, NEW path, Calls(known, g, color, next, path),
         path # <<>>, NEW u, u = path[Len(path)], next[u] > Len(g[u]),
         NEW color2 \in Colours(known), NEW path2 \in Seq(Names(known)),
         \A m \in Names(known) : color2[m] = IF m = u THEN "black" ELSE color[m],
         Len(path2) = Len(path) - 1,
         \A i \in 1..(Len(path) - 1) : path2[i] = path[i]
  PROVE  Calls(known, g, color2, next, path2)
<1>1. /\ Len(path) \in Nat /\ DOMAIN path = 1..Len(path)
      /\ \A i \in DOMAIN path : path[i] \in Names(known)
      /\ path = <<>> <=> Len(path) = 0
  BY PathIs DEF Calls
<1>2. Len(path) \in DOMAIN path /\ u \in Names(known)
  BY <1>1
<1>3. DOMAIN path2 = 1..(Len(path) - 1)
  BY PathIs
<1>4. \A i \in DOMAIN path2 : i \in DOMAIN path /\ i # Len(path) /\ path2[i] = path[i]
  BY <1>1, <1>3
<1>5. \A i \in DOMAIN path : i # Len(path) => i \in DOMAIN path2 /\ path[i] # u
  <2> SUFFICES ASSUME NEW i \in DOMAIN path, i # Len(path)
               PROVE  i \in DOMAIN path2 /\ path[i] # u
    OBVIOUS
  <2>1. i \in DOMAIN path2
    BY <1>1, <1>3
  <2>2. path[i] # path[Len(path)]
    BY <1>2 DEF Calls, Distinct
  <2> QED
    BY <2>1, <2>2
<1>6. color[u] = "gray"
  BY <1>2 DEF Calls, GrayIsPath
<1>7. GrayIsPath(known, color2, path2)
  <2> SUFFICES ASSUME NEW m \in Names(known)
               PROVE  color2[m] = "gray" <=> \E i \in DOMAIN path2 : path2[i] = m
    BY DEF GrayIsPath
  <2>1. color[m] = "gray" <=> \E i \in DOMAIN path : path[i] = m
    BY DEF Calls, GrayIsPath
  <2> QED
    BY <1>4, <1>5, <2>1
<1>8. Distinct(path2)
  BY <1>4 DEF Distinct, Calls
<1>9. \A i \in DOMAIN path2 : i # Len(path2) =>
        i + 1 \in DOMAIN path2 /\ i + 1 \in DOMAIN path /\ path2[i + 1] = path[i + 1]
  <2> SUFFICES ASSUME NEW i \in DOMAIN path2, i # Len(path2)
               PROVE  i + 1 \in DOMAIN path2
    BY <1>4
  <2> QED
    BY <1>1, <1>3
<1>10. PathDepends(g, path2)
  BY <1>4, <1>9 DEF PathDepends, Calls
<1>11. LoopPassed(known, g, color2, next, path2)
  <2> SUFFICES ASSUME NEW i \in DOMAIN path2, NEW j \in DOMAIN g[path2[i]],
                      j < next[path2[i]], g[path2[i]][j] \in Names(known)
               PROVE  \/ color2[g[path2[i]][j]] = "black"
                      \/ i # Len(path2) /\ g[path2[i]][j] = path2[i + 1]
    BY DEF LoopPassed
  <2>1. i \in DOMAIN path /\ i # Len(path) /\ path2[i] = path[i]
    BY <1>4
  <2>2. PICK d \in Names(known) : d = g[path2[i]][j]
    OBVIOUS
  <2>3. color[d] = "black" \/ d = path[i + 1]
    BY <2>1, <2>2 DEF Calls, LoopPassed
  <2>4. color[d] = "black" => color2[d] = "black"
    BY <1>6
  <2>5. CASE i = Len(path2)
    <3>1. i + 1 = Len(path)
      BY <1>1, <2>5
    <3>2. path[i + 1] = u
      BY <3>1, Zenon
    <3> QED
      BY <2>2, <2>3, <2>4, <3>2
  <2>6. CASE i # Len(path2)
    BY <1>9, <2>2, <2>3, <2>4, <2>6
  <2> QED
    BY <2>5, <2>6
<1>12. NextInside(known, g, color2, next)
  BY DEF Calls, NextInside
<1>13. NoBlackCircle(known, g, color2)
  <2> SUFFICES ASSUME NEW S, Circle(known, g, S), NEW n \in S PROVE color2[n] # "black"
    BY DEF NoBlackCircle
  <2>1. \A m \in S : m \in Names(known) /\ color[m] # "black"
    BY DEF Calls, NoBlackCircle, Circle
  <2>2. CASE n # u
    BY <2>1, <2>2
  <2>3. CASE n = u
    <3>1. PICK d \in S : DependsOn(g, u, d)
      BY <2>3 DEF Circle
    <3>2. PICK j \in DOMAIN g[u] : g[u][j] = d
      BY <3>1 DEF DependsOn
    <3>3. j < next[u]
      <4>1. Len(g[u]) \in Nat /\ DOMAIN g[u] = 1..Len(g[u]) /\ next[u] \in Nat
        BY <1>2, GraphIs DEF Calls
      <4> QED
        BY <4>1
    <3>4. color[d] = "black"
      BY <1>2, <2>1, <3>2, <3>3 DEF Calls, LoopPassed
    <3> QED
      BY <2>1, <3>4
  <2> QED
    BY <2>2, <2>3
<1> QED
  BY <1>7, <1>8, <1>10, <1>11, <1>12, <1>13 DEF Calls

\* When the last depends on one that has not returned, the calls are a circle.
LEMMA CallsCircle ==
  ASSUME NEW known, NEW g, NEW color, NEW next, NEW path, Calls(known, g, color, next, path),
         path # <<>>, NEW d \in Names(known), color[d] = "gray",
         DependsOn(g, path[Len(path)], d)
  PROVE  Circle(known, g, {path[i] : i \in DOMAIN path})
<1> DEFINE S == {path[i] : i \in DOMAIN path}
<1>1. /\ Len(path) \in Nat /\ DOMAIN path = 1..Len(path)
      /\ \A i \in DOMAIN path : path[i] \in Names(known)
      /\ path = <<>> <=> Len(path) = 0
  BY PathIs DEF Calls
<1>2. S \in SUBSET Names(known) /\ Len(path) \in DOMAIN path /\ S # {}
  BY <1>1
<1>3. d \in S
  BY DEF Calls, GrayIsPath
<1>4. ASSUME NEW i \in DOMAIN path PROVE \E e \in S : DependsOn(g, path[i], e)
  <2>1. CASE i = Len(path)
    BY <1>3, <2>1
  <2>2. CASE i # Len(path)
    <3>1. i + 1 \in DOMAIN path /\ DependsOn(g, path[i], path[i + 1])
      BY <1>1, <2>2 DEF Calls, PathDepends
    <3> QED
      BY <3>1
  <2> QED
    BY <2>1, <2>2
<1> QED
  BY <1>2, <1>4 DEF Circle

\* The last call of a path, and the path without it.
LEMMA SearchEnds ==
  ASSUME NEW path
  PROVE  Search!Last(path) = path[Len(path)] /\ Search!Front(path) = SubSeq(path, 1, Len(path) - 1)
BY DEF Search!Last, Search!Front

\* What is in the state of a search.
LEMMA StateIs ==
  ASSUME NEW known, NEW s \in SearchState(known)
  PROVE  /\ s.color \in Colours(known) /\ s.next \in [Names(known) -> Nat]
         /\ s.path \in Seq(Names(known)) /\ s.root \in Nat /\ s.cycle \in Seq(Plugin)
BY DEF SearchState

\* A call of a name.
Called(known, s, n, c) ==
  /\ c \in SearchState(known)
  /\ \A m \in Names(known) : c.color[m] = IF m = n THEN "gray" ELSE s.color[m]
  /\ c.path = Append(s.path, n) /\ c.next = s.next /\ c.root = s.root /\ c.cycle = s.cycle

\* Visit() makes a name gray and puts it on the path.
LEMMA CallIs ==
  ASSUME NEW known, NEW s \in SearchState(known), NEW n \in Names(known)
  PROVE  Called(known, s, n, Search!Visit(s, n))
<1>1. PICK color, path, mid : /\ color = [s.color EXCEPT ![n] = "gray"] /\ path = Append(s.path, n)
                              /\ mid = [s EXCEPT !.color = color]
  OBVIOUS
<1>2. color \in Colours(known) /\ path \in Seq(Names(known))
  BY <1>1, StateIs DEF Colours
<1>3. \A m \in Names(known) : color[m] = IF m = n THEN "gray" ELSE s.color[m]
  BY <1>1, StateIs DEF Colours
<1>4. /\ mid \in SearchState(known) /\ mid.color = color /\ mid.path = s.path
      /\ mid.next = s.next /\ mid.root = s.root /\ mid.cycle = s.cycle
  BY <1>1, <1>2 DEF SearchState
<1>5. PICK t : t = [mid EXCEPT !.path = path]
  OBVIOUS
<1>6. /\ t \in SearchState(known) /\ t.color = color /\ t.path = path
      /\ t.next = s.next /\ t.root = s.root /\ t.cycle = s.cycle
  BY <1>2, <1>4, <1>5 DEF SearchState
<1>7. t = Search!Visit(s, n)
  BY <1>1, <1>5, Zenon DEF Search!Visit
<1> QED
  BY <1>1, <1>3, <1>6, <1>7, Zenon DEF Called

\* What is left is a number, and something is left of a call that has not returned.
LEMMA LeftIs ==
  ASSUME NEW known, NEW g, NEW s, IsGraph(known, g), SearchInv(known, g, s)
  PROVE  /\ \A n \in Names(known) : /\ LeftOf(known, g, s)[n] \in Nat
                                    /\ s.color[n] # "black" => LeftOf(known, g, s)[n] > 0
         /\ SumFunctionOnSet(LeftOf(known, g, s), Names(known)) \in Nat
         /\ SearchLeft(known, g, s) \in Nat
         /\ \A n \in Names(known) :
              LeftOf(known, g, s)[n] <= SumFunctionOnSet(LeftOf(known, g, s), Names(known))
<1>1. s.next \in [Names(known) -> Nat] /\ s.root \in Nat /\ NextInside(known, g, s.color, s.next)
  BY StateIs DEF SearchInv
<1> DEFINE left == LeftOf(known, g, s)
<1>2. ASSUME NEW n \in Names(known)
      PROVE  left[n] \in Nat /\ (s.color[n] # "black" => left[n] > 0)
  <2>1. left[n] = IF s.color[n] = "black" THEN 0 ELSE Len(g[n]) + 2 - s.next[n]
    BY DEF LeftOf
  <2>2. Len(g[n]) \in Nat /\ s.next[n] \in Nat /\ s.next[n] <= Len(g[n]) + 1
    BY <1>1, GraphIs DEF NextInside
  <2> QED
    BY <2>1, <2>2
<1> DEFINE nought == [n \in Names(known) |-> 0]
           sum == SumFunctionOnSet(left, Names(known))
<1> HIDE DEF left
<1>3. IsFiniteSet(Names(known)) /\ \A n \in Names(known) : left[n] \in Int
  BY <1>2, GraphIs
<1>4. sum \in Int
  BY <1>3, SumType
<1>5. SumFunctionOnSet(nought, Names(known)) = 0
  <2>1. \A n \in Names(known) : nought[n] = 0
    OBVIOUS
  <2> HIDE DEF nought
  <2> QED
    BY <1>3, <2>1, SumZero
<1>6. 0 <= sum
  <2>1. \A n \in Names(known) : nought[n] \in Int /\ left[n] \in Int /\ nought[n] <= left[n]
    BY <1>2
  <2> HIDE DEF nought
  <2>2. SumFunctionOnSet(nought, Names(known)) <= SumFunctionOnSet(left, Names(known))
    BY <1>3, <2>1, SumMonotone
  <2> QED
    BY <1>4, <1>5, <2>2
<1>7. ASSUME NEW n \in Names(known) PROVE left[n] <= sum
  <2> DEFINE one == [m \in Names(known) |-> IF m = n THEN left[n] ELSE 0]
  <2>1. SumFunctionOnSet(one, Names(known))
          = SumFunctionOnSet(nought, Names(known)) + (one[n] - nought[n])
    <3>1. \A m \in Names(known) : nought[m] \in Int /\ one[m] \in Int
      BY <1>3
    <3>2. \A m \in Names(known) \ {n} : nought[m] = one[m]
      OBVIOUS
    <3> HIDE DEF one, nought
    <3> QED
      BY <1>3, <3>1, <3>2, SumChanges
  <2>2. \A m \in Names(known) : one[m] \in Int /\ left[m] \in Int /\ one[m] <= left[m]
    BY <1>2
  <2>3. one[n] = left[n] /\ nought[n] = 0 /\ left[n] \in Int
    BY <1>3
  <2> HIDE DEF one, nought
  <2>4. SumFunctionOnSet(one, Names(known)) <= SumFunctionOnSet(left, Names(known))
    BY <1>3, <2>2, SumMonotone
  <2> HIDE DEF sum
  <2>5. SumFunctionOnSet(one, Names(known)) = left[n]
    BY <1>5, <2>1, <2>3
  <2> QED
    BY <2>4, <2>5 DEF sum
<1>8. SearchLeft(known, g, s) \in Nat
  <2>1. Len(known) \in Nat /\ s.root <= Len(known) + 1
    BY GraphIs DEF SearchInv, RootsPassed
  <2>2. SearchLeft(known, g, s) = IF s.cycle # <<>> THEN 0 ELSE Len(known) + 1 - s.root + sum
    BY DEF SearchLeft, left
  <2> HIDE DEF sum
  <2> QED
    BY <1>1, <1>4, <1>6, <2>1, <2>2
<1>9. sum \in Nat
  <2> HIDE DEF sum
  <2> QED
    BY <1>4, <1>6
<1> QED
  BY <1>2, <1>7, <1>8, <1>9 DEF left

\* A step takes one away from what is left.
LEMMA LeftFalls ==
  ASSUME NEW known, NEW g, NEW s, NEW t, IsGraph(known, g), SearchInv(known, g, s),
         SearchInv(known, g, t), s.cycle = <<>>, t.cycle = <<>>,
         \/ /\ t.root = s.root + 1
            /\ \A n \in Names(known) : LeftOf(known, g, t)[n] = LeftOf(known, g, s)[n]
         \/ /\ t.root = s.root
            /\ \E u \in Names(known) :
                 /\ LeftOf(known, g, t)[u] = LeftOf(known, g, s)[u] - 1
                 /\ \A n \in Names(known) :
                      n # u => LeftOf(known, g, t)[n] = LeftOf(known, g, s)[n]
  PROVE  SearchLeft(known, g, t) < SearchLeft(known, g, s)
<1> DEFINE a == LeftOf(known, g, s)
           b == LeftOf(known, g, t)
<1>1. IsFiniteSet(Names(known)) /\ Len(known) \in Nat /\ s.root \in Nat /\ t.root \in Nat
  BY GraphIs, StateIs DEF SearchInv
<1>2. /\ \A n \in Names(known) : a[n] \in Int /\ b[n] \in Int
      /\ SumFunctionOnSet(a, Names(known)) \in Int /\ SumFunctionOnSet(b, Names(known)) \in Int
  BY LeftIs
<1>3. /\ SearchLeft(known, g, s) = Len(known) + 1 - s.root + SumFunctionOnSet(a, Names(known))
      /\ SearchLeft(known, g, t) = Len(known) + 1 - t.root + SumFunctionOnSet(b, Names(known))
  BY DEF SearchLeft
<1> HIDE DEF a, b
<1>4. CASE t.root = s.root + 1 /\ \A n \in Names(known) : b[n] = a[n]
  <2>1. SumFunctionOnSet(b, Names(known)) = SumFunctionOnSet(a, Names(known))
    BY <1>1, <1>4, SumSame
  <2> QED
    BY <1>1, <1>2, <1>3, <1>4, <2>1
<1>5. ASSUME t.root = s.root, NEW u \in Names(known), b[u] = a[u] - 1,
             \A n \in Names(known) : n # u => b[n] = a[n]
      PROVE  SearchLeft(known, g, t) < SearchLeft(known, g, s)
  <2>1. SumFunctionOnSet(b, Names(known)) = SumFunctionOnSet(a, Names(known)) + (b[u] - a[u])
    <3>1. \A n \in Names(known) \ {u} : a[n] = b[n]
      BY <1>5
    <3> QED
      BY <1>1, <1>2, <3>1, SumChanges
  <2>2. a[u] \in Int /\ b[u] = a[u] - 1
    BY <1>2, <1>5
  <2> QED
    BY <1>1, <1>2, <1>3, <1>5, <2>1, <2>2
<1> QED
  BY <1>4, <1>5 DEF a, b

\* A step that finds no cycle keeps the search sound when its calls are.
LEMMA GoesOnSound ==
  ASSUME NEW known, NEW g, NEW t \in SearchState(known), IsGraph(known, g), t.cycle = <<>>,
         Calls(known, g, t.color, t.next, t.path), RootsPassed(known, t.color, t.root)
  PROVE  SearchInv(known, g, t)
BY DEF SearchInv, Calls

\* Of a search that found no cycle, the calls are sound.
LEMMA SoundCalls ==
  ASSUME NEW known, NEW g, NEW s, IsGraph(known, g), SearchInv(known, g, s), s.cycle = <<>>
  PROVE  Calls(known, g, s.color, s.next, s.path)
<1>1. s \in SearchState(known)
  BY DEF SearchInv
<1> QED
  BY <1>1, StateIs DEF SearchInv, Calls

\* The loop that starts the calls comes to its next root.
LEMMA RootKeeps ==
  ASSUME NEW known, NEW g, NEW s, IsGraph(known, g), SearchInv(known, g, s), s.cycle = <<>>,
         s.path = <<>>, s.root <= Len(known), NEW t, t = Search!NextRoot(known, s)
  PROVE  SearchInv(known, g, t) /\ SearchLeft(known, g, t) < SearchLeft(known, g, s)
<1>1. /\ s \in SearchState(known) /\ Calls(known, g, s.color, s.next, s.path)
      /\ s.root \in Nat /\ 1 <= s.root
      /\ \A i \in DOMAIN known : i < s.root => s.color[known[i]] # "white"
  BY SoundCalls, StateIs DEF SearchInv, RootsPassed
<1>2. PICK n : n = known[s.root]
  OBVIOUS
<1>3. n \in Names(known) /\ Len(known) \in Nat /\ DOMAIN known = 1..Len(known)
  BY <1>1, <1>2, GraphIs
<1>4. CASE s.color[n] # "white"
  <2>1. t = [s EXCEPT !.root = @ + 1]
    BY <1>2, <1>4 DEF Search!NextRoot
  <2>2. /\ t \in SearchState(known) /\ t.color = s.color /\ t.next = s.next /\ t.path = s.path
        /\ t.root = s.root + 1 /\ t.cycle = <<>>
    BY <1>1, <2>1 DEF SearchState
  <2>3. RootsPassed(known, t.color, t.root)
    <3>1. \A i \in DOMAIN known : i < s.root + 1 => i < s.root \/ i = s.root
      BY <1>1, <1>3
    <3> QED
      BY <1>1, <1>2, <1>3, <1>4, <2>2, <3>1 DEF RootsPassed
  <2>4. SearchInv(known, g, t)
    BY <1>1, <2>2, <2>3, GoesOnSound
  <2>5. \A m \in Names(known) : LeftOf(known, g, t)[m] = LeftOf(known, g, s)[m]
    BY <2>2 DEF LeftOf
  <2> QED
    BY <2>2, <2>4, <2>5, LeftFalls
<1>5. CASE s.color[n] = "white"
  <2>1. t = Search!Visit([s EXCEPT !.root = @ + 1], n)
    BY <1>2, <1>5 DEF Search!NextRoot
  <2>2. /\ t \in SearchState(known) /\ t.next = s.next /\ t.path = Append(s.path, n)
        /\ t.root = s.root + 1 /\ t.cycle = <<>>
        /\ \A m \in Names(known) : t.color[m] = IF m = n THEN "gray" ELSE s.color[m]
    <3>1. PICK passed : passed = [s EXCEPT !.root = @ + 1]
      OBVIOUS
    <3>2. /\ passed \in SearchState(known) /\ passed.color = s.color /\ passed.next = s.next
          /\ passed.path = s.path /\ passed.root = s.root + 1 /\ passed.cycle = <<>>
      BY <1>1, <3>1 DEF SearchState
    <3>3. t = Search!Visit(passed, n)
      BY <2>1, <3>1
    <3>4. Called(known, passed, n, t)
      BY <1>3, <3>2, <3>3, CallIs
    <3> QED
      BY <3>2, <3>4, Zenon DEF Called
  <2>3. \A m \in Names(known) : t.color[m] = IF m = n THEN "gray" ELSE s.color[m]
    BY <2>2
  <2>4. Calls(known, g, t.color, t.next, t.path)
    <3>1. /\ t.color \in Colours(known) /\ t.next \in [Names(known) -> Nat]
          /\ t.path \in Seq(Names(known))
      BY <2>2, StateIs
    <3>2. /\ Len(t.path) = Len(s.path) + 1 /\ t.path[Len(s.path) + 1] = n
          /\ \A i \in 1..Len(s.path) : t.path[i] = s.path[i]
      BY <1>1, <1>3, <2>2, StateIs
    <3>3. \A m \in Names(known) : t.next[m] = s.next[m]
      BY <2>2
    <3>4. Calls(known, g, s.color, s.next, s.path)
      BY <1>1
    <3>5. \A c2 \in Colours(known), x2 \in [Names(known) -> Nat], p2 \in Seq(Names(known)) :
            /\ \A m \in Names(known) : c2[m] = IF m = n THEN "gray" ELSE s.color[m]
            /\ Len(p2) = Len(s.path) + 1 /\ p2[Len(s.path) + 1] = n
            /\ \A i \in 1..Len(s.path) : p2[i] = s.path[i]
            /\ \A m \in Names(known) : x2[m] = s.next[m]
            => Calls(known, g, c2, x2, p2)
      <4> SUFFICES ASSUME NEW c2 \in Colours(known), NEW x2 \in [Names(known) -> Nat],
                          NEW p2 \in Seq(Names(known)),
                          \A m \in Names(known) : c2[m] = IF m = n THEN "gray" ELSE s.color[m],
                          Len(p2) = Len(s.path) + 1, p2[Len(s.path) + 1] = n,
                          \A i \in 1..Len(s.path) : p2[i] = s.path[i],
                          \A m \in Names(known) : x2[m] = s.next[m]
                   PROVE  Calls(known, g, c2, x2, p2)
        OBVIOUS
      <4>1. s.path = <<>> => \A m \in Names(known) : x2[m] = s.next[m]
        OBVIOUS
      <4>2. s.path # <<>> =>
              /\ s.next[s.path[Len(s.path)]] \in DOMAIN g[s.path[Len(s.path)]]
              /\ g[s.path[Len(s.path)]][s.next[s.path[Len(s.path)]]] = n
              /\ \A m \in Names(known) :
                   x2[m] = IF m = s.path[Len(s.path)] THEN s.next[m] + 1 ELSE s.next[m]
        OBVIOUS
      <4> QED
        <5>1. Joins(known, g, s.color, s.next, s.path, n, c2, x2, p2)
          BY <1>3, <1>5, <3>4, <4>1, <4>2, Zenon DEF Joins
        <5> QED
          BY <5>1, CallJoins
    <3> QED
      BY <2>3, <3>1, <3>2, <3>3, <3>5
  <2>5. RootsPassed(known, t.color, t.root)
    <3>1. \A i \in DOMAIN known : i < s.root + 1 => i < s.root \/ i = s.root
      BY <1>1, <1>3
    <3>2. \A i \in DOMAIN known : i < s.root => t.color[known[i]] # "white"
      BY <1>1, <2>3, GraphIs
    <3> QED
      BY <1>1, <1>2, <1>3, <2>2, <2>3, <3>1, <3>2 DEF RootsPassed
  <2>6. SearchInv(known, g, t)
    BY <2>2, <2>4, <2>5, GoesOnSound
  <2>7. \A m \in Names(known) : LeftOf(known, g, t)[m] = LeftOf(known, g, s)[m]
    BY <1>5, <2>2, <2>3 DEF LeftOf
  <2> QED
    BY <2>2, <2>6, <2>7, LeftFalls
<1> QED
  BY <1>4, <1>5

\* A call comes to its next dependency.
LEMMA DependencyKeeps ==
  ASSUME NEW known, NEW g, NEW s, IsGraph(known, g), SearchInv(known, g, s), s.cycle = <<>>,
         s.path # <<>>, s.next[s.path[Len(s.path)]] <= Len(g[s.path[Len(s.path)]]),
         NEW t, t = Search!NextDependency(known, g, s)
  PROVE  SearchInv(known, g, t) /\ SearchLeft(known, g, t) < SearchLeft(known, g, s)
<1>0. PICK u, j, v : u = Search!Last(s.path) /\ j = s.next[u] /\ v = g[u][j]
  OBVIOUS
<1>1. u = s.path[Len(s.path)] /\ j = s.next[u] /\ v = g[u][j]
  BY <1>0, SearchEnds
<1>2. /\ s \in SearchState(known) /\ Calls(known, g, s.color, s.next, s.path)
      /\ RootsPassed(known, s.color, s.root)
  BY SoundCalls DEF SearchInv
<1>3. /\ s.color \in Colours(known) /\ s.next \in [Names(known) -> Nat]
      /\ s.path \in Seq(Names(known)) /\ s.root \in Nat
  BY <1>2, StateIs
<1>4. u \in Names(known) /\ Len(s.path) \in DOMAIN s.path /\ s.color[u] = "gray"
  <2>1. Len(s.path) \in DOMAIN s.path
    BY <1>3
  <2> QED
    BY <1>1, <1>2, <1>3, <2>1, PathIs DEF Calls, GrayIsPath
<1>5. Len(g[u]) \in Nat /\ j \in Nat /\ j \in DOMAIN g[u] /\ v \in Plugin
  <2>1. g[u] \in Seq(Plugin) /\ Len(g[u]) \in Nat /\ DOMAIN g[u] = 1..Len(g[u])
    BY <1>4, GraphIs
  <2>2. j \in Nat /\ 1 <= j /\ j <= Len(g[u])
    BY <1>1, <1>2, <1>3, <1>4 DEF Calls, NextInside
  <2> QED
    BY <1>1, <2>1, <2>2
<1>6. PICK passed : passed = [s EXCEPT !.next[u] = @ + 1]
  OBVIOUS
<1>7. t = IF v \notin Search!ToSet(known) \/ s.color[v] = "black" THEN passed
          ELSE IF s.color[v] = "gray" THEN [passed EXCEPT !.cycle = Search!CyclePath(s.path, v)]
          ELSE Search!Visit(passed, v)
  BY <1>0, <1>6, Zenon DEF Search!NextDependency
<1>8. Search!ToSet(known) = Names(known)
  BY GraphIs
<1>9. /\ passed \in SearchState(known) /\ passed.color = s.color /\ passed.path = s.path
      /\ passed.root = s.root /\ passed.cycle = <<>>
      /\ passed.next \in [Names(known) -> Nat]
      /\ \A m \in Names(known) : passed.next[m] = IF m = u THEN s.next[m] + 1 ELSE s.next[m]
  <2>1. PICK next : next = [s.next EXCEPT ![u] = @ + 1]
    OBVIOUS
  <2>2. next \in [Names(known) -> Nat]
    BY <1>3, <1>4, <2>1
  <2>3. \A m \in Names(known) : next[m] = IF m = u THEN s.next[m] + 1 ELSE s.next[m]
    BY <1>3, <1>4, <2>1
  <2>4. passed = [s EXCEPT !.next = next]
    BY <1>6, <2>1, Zenon
  <2>5. /\ passed \in SearchState(known) /\ passed.color = s.color /\ passed.path = s.path
        /\ passed.root = s.root /\ passed.cycle = <<>> /\ passed.next = next
    BY <1>2, <2>2, <2>4 DEF SearchState
  <2> QED
    BY <2>2, <2>3, <2>5
\* In every case but a cycle a step less of the loop is left.
<1>10. ASSUME NEW r, SearchInv(known, g, r), r.cycle = <<>>, r.root = s.root,
              \A m \in Names(known) : r.next[m] = IF m = u THEN s.next[m] + 1 ELSE s.next[m],
              \A m \in Names(known) : r.color[m] = "black" <=> s.color[m] = "black"
       PROVE  SearchLeft(known, g, r) < SearchLeft(known, g, s)
  <2>1. \A m \in Names(known) : m # u => LeftOf(known, g, r)[m] = LeftOf(known, g, s)[m]
    BY <1>10 DEF LeftOf
  <2>2. LeftOf(known, g, r)[u] = LeftOf(known, g, s)[u] - 1
    <3>1. /\ LeftOf(known, g, r)[u] = Len(g[u]) + 2 - r.next[u]
          /\ LeftOf(known, g, s)[u] = Len(g[u]) + 2 - s.next[u]
      BY <1>4, <1>10 DEF LeftOf
    <3>2. r.next[u] = s.next[u] + 1 /\ s.next[u] \in Nat
      BY <1>3, <1>4, <1>10
    <3> QED
      <4>1. PICK l \in Nat, x \in Nat, y \in Nat : l = Len(g[u]) /\ x = s.next[u] /\ y = r.next[u]
        BY <1>5, <3>2
      <4>2. LeftOf(known, g, r)[u] = l + 2 - y /\ LeftOf(known, g, s)[u] = l + 2 - x
        BY <3>1, <4>1, Zenon
      <4>3. l + 2 - y = (l + 2 - x) - 1
        <5>1. y = x + 1
          BY <3>2, <4>1, Zenon
        <5> QED
          BY <5>1
      <4> QED
        BY <4>2, <4>3, Zenon
  <2> QED
    BY <1>4, <1>10, <2>1, <2>2, LeftFalls
<1>11. CASE v \notin Names(known) \/ s.color[v] = "black"
  <2>1. t = passed
    BY <1>7, <1>8, <1>11
  <2>2. Calls(known, g, s.color, passed.next, s.path)
    BY <1>1, <1>2, <1>5, <1>9, <1>11, DependencyPassed, SMTT(30)
  <2>3. SearchInv(known, g, passed)
    BY <1>2, <1>9, <2>2, GoesOnSound
  <2>4. SearchLeft(known, g, passed) < SearchLeft(known, g, s)
    BY <1>9, <1>10, <2>3
  <2> QED
    BY <2>1, <2>3, <2>4
<1>12. CASE v \in Names(known) /\ s.color[v] = "white"
  <2>1. t = Search!Visit(passed, v)
    BY <1>7, <1>8, <1>12
  <2>2. /\ t \in SearchState(known) /\ t.path = Append(s.path, v) /\ t.next = passed.next
        /\ t.root = s.root /\ t.cycle = <<>>
        /\ \A m \in Names(known) : t.color[m] = IF m = v THEN "gray" ELSE s.color[m]
    <3>1. PICK c : c = Search!Visit(passed, v)
      OBVIOUS
    <3>2. /\ c \in SearchState(known) /\ c.path = Append(passed.path, v) /\ c.next = passed.next
          /\ c.root = passed.root /\ c.cycle = passed.cycle
          /\ \A m \in Names(known) : c.color[m] = IF m = v THEN "gray" ELSE passed.color[m]
      <4>1. passed \in SearchState(known) /\ v \in Names(known)
        BY <1>9, <1>12
      <4>2. Called(known, passed, v, Search!Visit(passed, v))
        BY <4>1, CallIs
      <4> QED
        BY <3>1, <4>2, Zenon DEF Called
    <3>3. t = c
      BY <2>1, <3>1, Zenon
    <3> QED
      BY <1>9, <3>2, <3>3, Zenon
  <2>3. Calls(known, g, t.color, t.next, t.path)
    <3>1. /\ t.color \in Colours(known) /\ t.next \in [Names(known) -> Nat]
          /\ t.path \in Seq(Names(known))
      BY <2>2, StateIs
    <3>2. /\ Len(t.path) = Len(s.path) + 1 /\ t.path[Len(s.path) + 1] = v
          /\ \A i \in 1..Len(s.path) : t.path[i] = s.path[i]
      BY <1>3, <1>12, <2>2
    <3>3. \A m \in Names(known) : t.next[m] = IF m = u THEN s.next[m] + 1 ELSE s.next[m]
      BY <1>9, <2>2
    <3>4. Calls(known, g, s.color, s.next, s.path)
      BY <1>2
    <3>5. \A c2 \in Colours(known), x2 \in [Names(known) -> Nat], p2 \in Seq(Names(known)) :
            /\ \A m \in Names(known) : c2[m] = IF m = v THEN "gray" ELSE s.color[m]
            /\ Len(p2) = Len(s.path) + 1 /\ p2[Len(s.path) + 1] = v
            /\ \A i \in 1..Len(s.path) : p2[i] = s.path[i]
            /\ \A m \in Names(known) : x2[m] = IF m = u THEN s.next[m] + 1 ELSE s.next[m]
            => Calls(known, g, c2, x2, p2)
      <4> SUFFICES ASSUME NEW c2 \in Colours(known), NEW x2 \in [Names(known) -> Nat],
                          NEW p2 \in Seq(Names(known)),
                          \A m \in Names(known) : c2[m] = IF m = v THEN "gray" ELSE s.color[m],
                          Len(p2) = Len(s.path) + 1, p2[Len(s.path) + 1] = v,
                          \A i \in 1..Len(s.path) : p2[i] = s.path[i],
                          \A m \in Names(known) : x2[m] = IF m = u THEN s.next[m] + 1 ELSE s.next[m]
                   PROVE  Calls(known, g, c2, x2, p2)
        OBVIOUS
      <4>1. s.path = <<>> => \A m \in Names(known) : x2[m] = s.next[m]
        OBVIOUS
      <4>2. s.path # <<>> =>
              /\ s.next[s.path[Len(s.path)]] \in DOMAIN g[s.path[Len(s.path)]]
              /\ g[s.path[Len(s.path)]][s.next[s.path[Len(s.path)]]] = v
              /\ \A m \in Names(known) :
                   x2[m] = IF m = s.path[Len(s.path)] THEN s.next[m] + 1 ELSE s.next[m]
        BY <1>1, <1>5
      <4> QED
        <5>1. Joins(known, g, s.color, s.next, s.path, v, c2, x2, p2)
          BY <1>12, <3>4, <4>1, <4>2, Zenon DEF Joins
        <5> QED
          BY <5>1, CallJoins
    <3> QED
      BY <2>2, <3>1, <3>2, <3>3, <3>5
  <2>4. RootsPassed(known, t.color, t.root)
    <3>1. \A i \in DOMAIN known : t.color[known[i]] = "white" => s.color[known[i]] = "white"
      BY <2>2, GraphIs
    <3> QED
      BY <1>2, <2>2, <3>1 DEF RootsPassed
  <2>5. SearchInv(known, g, t)
    BY <2>2, <2>3, <2>4, GoesOnSound
  <2>6. \A m \in Names(known) : t.color[m] = "black" <=> s.color[m] = "black"
    BY <1>12, <2>2
  <2>7. SearchLeft(known, g, t) < SearchLeft(known, g, s)
    BY <1>9, <1>10, <2>2, <2>5, <2>6
  <2> QED
    BY <2>5, <2>7
<1>13. CASE v \in Names(known) /\ s.color[v] = "gray"
  <2>1. PICK cycle : cycle = Search!CyclePath(s.path, v)
    OBVIOUS
  <2>2. t = [passed EXCEPT !.cycle = cycle]
    BY <1>7, <1>8, <1>13, <2>1
  <2>3. cycle \in Seq(Plugin) /\ cycle # <<>>
    <3> DEFINE spot == CHOOSE i \in DOMAIN s.path : s.path[i] = v
               from == IF Search!Last(s.path) = v THEN 1 ELSE 1 + spot
    <3>2. cycle = <<v>> \o SubSeq(s.path, from, Len(s.path)) \o <<v>>
      BY <2>1, Zenon DEF Search!CyclePath
    <3>3. from \in Nat /\ 1 <= from
      <4>1. \E i \in DOMAIN s.path : s.path[i] = v
        BY <1>2, <1>13 DEF Calls, GrayIsPath
      <4>2. spot \in DOMAIN s.path
        BY <4>1
      <4> HIDE DEF spot
      <4>3. spot \in Nat
        BY <1>3, <4>2
      <4> QED
        BY <4>3
    <3> HIDE DEF from
    <3>4. PICK ways : ways = SubSeq(s.path, from, Len(s.path))
      OBVIOUS
    <3>5. ways \in Seq(Plugin)
      <4>1. s.path \in Seq(Plugin)
        BY <1>3, GraphIs
      <4>2. Len(s.path) \in Nat
        BY <1>3
      <4> QED
        BY <3>3, <3>4, <4>1, <4>2
    <3>6. cycle \in Seq(Plugin) /\ Len(cycle) = 1 + Len(ways) + 1 /\ Len(ways) \in Nat
      <4>1. PICK a : a = <<v>> \o ways
        OBVIOUS
      <4>2. a \in Seq(Plugin) /\ Len(a) = 1 + Len(ways) /\ Len(ways) \in Nat
        BY <1>5, <3>5, <4>1
      <4>3. cycle = a \o <<v>>
        BY <3>2, <3>4, <4>1, Zenon
      <4> QED
        BY <1>5, <4>2, <4>3
    <3>7. Len(cycle) # 0
      BY <3>6
    <3> QED
      BY <3>6, <3>7
  <2>4. /\ t \in SearchState(known) /\ t.color = s.color /\ t.path = s.path
        /\ t.root = s.root /\ t.cycle = cycle /\ t.next = passed.next
    BY <1>9, <2>2, <2>3 DEF SearchState
  <2>5. \E S : Circle(known, g, S)
    <3>1. DependsOn(g, u, v)
      BY <1>1, <1>5 DEF DependsOn
    <3> QED
      BY <1>1, <1>2, <1>13, <3>1, CallsCircle
  <2>6. NextInside(known, g, t.color, t.next)
    <3> SUFFICES ASSUME NEW m \in Names(known)
                 PROVE  /\ 1 <= t.next[m] /\ t.next[m] <= Len(g[m]) + 1
                        /\ t.color[m] = "white" => t.next[m] = 1
      BY DEF NextInside
    <3>1. /\ 1 <= s.next[m] /\ s.next[m] <= Len(g[m]) + 1 /\ s.next[m] \in Nat
          /\ s.color[m] = "white" => s.next[m] = 1
      BY <1>2, <1>3 DEF Calls, NextInside
    <3>2. CASE m = u
      <4>1. t.next[m] = j + 1 /\ t.color[m] # "white" /\ 1 <= j /\ j <= Len(g[m])
        BY <1>1, <1>4, <1>5, <1>9, <2>4, <3>1, <3>2
      <4> QED
        BY <1>5, <3>2, <4>1
    <3>3. CASE m # u
      BY <1>9, <2>4, <3>1, <3>3
    <3> QED
      BY <3>2, <3>3
  <2>7. SearchInv(known, g, t)
    BY <1>2, <2>3, <2>4, <2>5, <2>6 DEF SearchInv, Calls
  <2>8. SearchLeft(known, g, t) = 0
    BY <2>3, <2>4 DEF SearchLeft
  <2>9. SearchLeft(known, g, s) > 0
    <3>1. /\ Len(known) \in Nat /\ s.root <= Len(known) + 1
          /\ SearchLeft(known, g, s)
               = Len(known) + 1 - s.root + SumFunctionOnSet(LeftOf(known, g, s), Names(known))
      BY <1>2, GraphIs DEF SearchLeft, RootsPassed
    <3>2. /\ LeftOf(known, g, s)[u] \in Nat /\ LeftOf(known, g, s)[u] > 0
          /\ LeftOf(known, g, s)[u] <= SumFunctionOnSet(LeftOf(known, g, s), Names(known))
          /\ SumFunctionOnSet(LeftOf(known, g, s), Names(known)) \in Nat
      BY <1>4, LeftIs
    <3> QED
      BY <1>3, <3>1, <3>2
  <2> QED
    BY <2>7, <2>8, <2>9
<1>14. v \in Names(known) => s.color[v] \in {"white", "gray", "black"}
  BY <1>3 DEF Colours
<1> QED
  BY <1>11, <1>12, <1>13, <1>14

\* The last call returns.
LEMMA ReturnKeeps ==
  ASSUME NEW known, NEW g, NEW s, IsGraph(known, g), SearchInv(known, g, s), s.cycle = <<>>,
         s.path # <<>>, ~ (s.next[s.path[Len(s.path)]] <= Len(g[s.path[Len(s.path)]])),
         NEW t, t = Search!Return(s)
  PROVE  SearchInv(known, g, t) /\ SearchLeft(known, g, t) < SearchLeft(known, g, s)
<1>1. PICK u : u = s.path[Len(s.path)]
  OBVIOUS
<1>2. /\ s \in SearchState(known) /\ Calls(known, g, s.color, s.next, s.path)
      /\ RootsPassed(known, s.color, s.root)
  BY SoundCalls DEF SearchInv
<1>3. /\ s.color \in Colours(known) /\ s.next \in [Names(known) -> Nat]
      /\ s.path \in Seq(Names(known)) /\ s.root \in Nat
  BY <1>2, StateIs
<1>4. u \in Names(known) /\ Len(s.path) \in DOMAIN s.path /\ s.color[u] = "gray"
  <2>1. Len(s.path) \in DOMAIN s.path
    BY <1>3
  <2> QED
    BY <1>1, <1>2, <1>3, <2>1, PathIs DEF Calls, GrayIsPath
<1>5. Len(g[u]) \in Nat /\ s.next[u] = Len(g[u]) + 1
  <2>1. Len(g[u]) \in Nat /\ s.next[u] \in Nat /\ s.next[u] <= Len(g[u]) + 1
    BY <1>2, <1>3, <1>4, GraphIs DEF Calls, NextInside
  <2> QED
    BY <1>1, <2>1
<1>6. PICK color, path, mid : /\ color = [s.color EXCEPT ![u] = "black"]
                              /\ path = SubSeq(s.path, 1, Len(s.path) - 1)
                              /\ mid = [s EXCEPT !.color = color]
  OBVIOUS
<1>7. /\ color \in Colours(known) /\ path \in Seq(Names(known))
      /\ \A m \in Names(known) : color[m] = IF m = u THEN "black" ELSE s.color[m]
      /\ Len(path) = Len(s.path) - 1 /\ \A i \in 1..(Len(s.path) - 1) : path[i] = s.path[i]
  <2>1. color \in Colours(known)
    BY <1>3, <1>6 DEF Colours
  <2>2. \A m \in Names(known) : color[m] = IF m = u THEN "black" ELSE s.color[m]
    BY <1>3, <1>6 DEF Colours
  <2>3. PICK l \in Nat : l = Len(s.path) /\ l >= 1
    BY <1>3, <1>4
  <2>4. path \in Seq(Names(known)) /\ Len(path) = l - 1 /\ \A i \in 1..(l - 1) : path[i] = s.path[i]
    BY <1>3, <1>6, <2>3
  <2> QED
    BY <2>1, <2>2, <2>3, <2>4
<1>8. /\ mid \in SearchState(known) /\ mid.color = color /\ mid.path = s.path
      /\ mid.next = s.next /\ mid.root = s.root /\ mid.cycle = <<>>
  BY <1>2, <1>6, <1>7 DEF SearchState
<1>9. t = [mid EXCEPT !.path = path]
  BY <1>1, <1>6, SearchEnds DEF Search!Return
<1>10. /\ t \in SearchState(known) /\ t.color = color /\ t.path = path
       /\ t.next = s.next /\ t.root = s.root /\ t.cycle = <<>>
  BY <1>7, <1>8, <1>9 DEF SearchState
<1>11. Calls(known, g, color, s.next, path)
  <2>1. s.next[u] > Len(g[u])
    BY <1>5
  <2> QED
    BY <1>1, <1>2, <1>7, <2>1, CallReturns, SMTT(30)
<1>12. RootsPassed(known, color, s.root)
  <2>1. \A i \in DOMAIN known : color[known[i]] = "white" => s.color[known[i]] = "white"
    BY <1>7, GraphIs
  <2> QED
    BY <1>2, <2>1 DEF RootsPassed
<1>13. SearchInv(known, g, t)
  BY <1>10, <1>11, <1>12, GoesOnSound
<1>14. \A m \in Names(known) : m # u => LeftOf(known, g, t)[m] = LeftOf(known, g, s)[m]
  BY <1>7, <1>10 DEF LeftOf
<1>15. LeftOf(known, g, t)[u] = LeftOf(known, g, s)[u] - 1
  <2>1. LeftOf(known, g, t)[u] = 0 /\ LeftOf(known, g, s)[u] = Len(g[u]) + 2 - s.next[u]
    BY <1>4, <1>7, <1>10 DEF LeftOf
  <2> QED
    BY <1>5, <2>1
<1> QED
  BY <1>4, <1>10, <1>13, <1>14, <1>15, LeftFalls

\* A step of the search keeps it sound and leaves less to do, until nothing is.
LEMMA SearchStepKeeps ==
  ASSUME NEW known, NEW g, NEW s, IsGraph(known, g), SearchInv(known, g, s),
         NEW t, t = Search!SearchStep(known, g, s)
  PROVE  /\ SearchInv(known, g, t)
         /\ SearchLeft(known, g, s) > 0 => SearchLeft(known, g, t) < SearchLeft(known, g, s)
         /\ SearchLeft(known, g, s) = 0 => SearchLeft(known, g, t) = 0
<1>1. SearchLeft(known, g, s) \in Nat
  BY LeftIs
<1>2. CASE s.cycle # <<>>
  <2>1. t = s
    BY <1>2 DEF Search!SearchStep
  <2>2. SearchLeft(known, g, s) = 0
    BY <1>2 DEF SearchLeft
  <2> QED
    BY <2>1, <2>2
<1>3. ASSUME SearchInv(known, g, t), SearchLeft(known, g, t) < SearchLeft(known, g, s)
      PROVE  SearchLeft(known, g, s) # 0
  <2>1. SearchLeft(known, g, t) \in Nat
    BY <1>3, LeftIs
  <2> QED
    BY <1>3, <2>1
<1>4. CASE s.cycle = <<>> /\ s.path # <<>>
  <2>0. PICK u : u = Search!Last(s.path)
    OBVIOUS
  <2>1. u = s.path[Len(s.path)]
    BY <2>0, SearchEnds
  <2>2. t = IF s.next[u] <= Len(g[u]) THEN Search!NextDependency(known, g, s) ELSE Search!Return(s)
    BY <1>4, <2>0, Zenon DEF Search!SearchStep
  <2>3. SearchInv(known, g, t) /\ SearchLeft(known, g, t) < SearchLeft(known, g, s)
    <3>1. CASE s.next[u] <= Len(g[u])
      BY <1>4, <2>1, <2>2, <3>1, DependencyKeeps
    <3>2. CASE ~ (s.next[u] <= Len(g[u]))
      BY <1>4, <2>1, <2>2, <3>2, ReturnKeeps
    <3> QED
      BY <3>1, <3>2
  <2> QED
    BY <1>3, <2>3
<1>5. CASE s.cycle = <<>> /\ s.path = <<>> /\ s.root <= Len(known)
  <2>1. t = Search!NextRoot(known, s)
    <3>1. Len(known) \in Nat /\ s.root \in Nat
      BY GraphIs, StateIs DEF SearchInv
    <3>2. ~ (s.root > Len(known))
      BY <1>5, <3>1
    <3> QED
      BY <1>5, <3>2 DEF Search!SearchStep
  <2>2. SearchInv(known, g, t) /\ SearchLeft(known, g, t) < SearchLeft(known, g, s)
    BY <1>5, <2>1, RootKeeps
  <2> QED
    BY <1>3, <2>2
<1>6. CASE s.cycle = <<>> /\ s.path = <<>> /\ ~ (s.root <= Len(known))
  <2>1. Len(known) \in Nat /\ s.root \in Nat /\ s.root = Len(known) + 1
    <3>1. Len(known) \in Nat /\ s.root \in Nat /\ s.root <= Len(known) + 1
      BY GraphIs, StateIs DEF SearchInv, RootsPassed
    <3> QED
      BY <1>6, <3>1
  <2>2. t = s
    <3>1. s.root > Len(known)
      BY <2>1
    <3> QED
      BY <1>6, <3>1 DEF Search!SearchStep
  <2>3. \A n \in Names(known) : s.color[n] = "black"
    <3> SUFFICES ASSUME NEW n \in Names(known) PROVE s.color[n] = "black"
      OBVIOUS
    <3>1. PICK i \in DOMAIN known : n = known[i]
      BY DEF Names
    <3>2. i < s.root
      <4>1. DOMAIN known = 1..Len(known)
        BY GraphIs
      <4> QED
        BY <2>1, <4>1
    <3>3. s.color[n] # "white"
      BY <3>1, <3>2 DEF SearchInv, RootsPassed
    <3>4. s.color[n] # "gray"
      BY <1>6 DEF SearchInv, GrayIsPath
    <3>5. s.color[n] \in {"white", "gray", "black"}
      BY StateIs DEF SearchInv, Colours
    <3> QED
      BY <3>3, <3>4, <3>5
  <2>4. SumFunctionOnSet(LeftOf(known, g, s), Names(known)) = 0
    <3>1. \A n \in Names(known) : LeftOf(known, g, s)[n] = 0
      BY <2>3 DEF LeftOf
    <3> QED
      BY <3>1, GraphIs, SumZero
  <2>5. SearchLeft(known, g, s) = 0
    BY <1>6, <2>1, <2>4 DEF SearchLeft
  <2> QED
    BY <2>2, <2>5
<1> QED
  BY <1>2, <1>4, <1>5, <1>6

\* Before the first step.
LEMMA SearchStartsSound ==
  ASSUME NEW known, NEW g, IsGraph(known, g)
  PROVE  /\ SearchInv(known, g, Search!SearchStarts(known))
         /\ SearchLeft(known, g, Search!SearchStarts(known)) = Search!SearchSteps(known, g)
         /\ Search!SearchSteps(known, g) \in Nat
<1> DEFINE s == Search!SearchStarts(known)
<1>1. /\ s.color = [n \in Names(known) |-> "white"] /\ s.next = [n \in Names(known) |-> 1]
      /\ s.path = <<>> /\ s.root = 1 /\ s.cycle = <<>>
  BY GraphIs DEF Search!SearchStarts
<1>2. s \in SearchState(known)
  BY GraphIs DEF Search!SearchStarts, SearchState, Colours
<1> HIDE DEF s
<1>3. Len(known) \in Nat
  BY GraphIs
<1>4. GrayIsPath(known, s.color, s.path) /\ Distinct(s.path) /\ PathDepends(g, s.path)
  BY <1>1 DEF GrayIsPath, Distinct, PathDepends
<1>5. LoopPassed(known, g, s.color, s.next, s.path)
  BY <1>1 DEF LoopPassed
<1>6. NextInside(known, g, s.color, s.next)
  <2>1. \A n \in Names(known) : Len(g[n]) \in Nat
    BY GraphIs
  <2> QED
    BY <1>1, <2>1 DEF NextInside
<1>7. RootsPassed(known, s.color, s.root)
  <2>1. DOMAIN known = 1..Len(known)
    BY GraphIs
  <2> QED
    BY <1>1, <1>3, <2>1 DEF RootsPassed
<1>8. NoBlackCircle(known, g, s.color)
  BY <1>1 DEF NoBlackCircle, Circle
<1>9. SearchInv(known, g, s)
  BY <1>1, <1>2, <1>4, <1>5, <1>6, <1>7, <1>8 DEF SearchInv
<1>10. SearchLeft(known, g, s) = Search!SearchSteps(known, g)
  <2> DEFINE all == [n \in Names(known) |-> Len(g[n]) + 1]
  <2>1. SumFunctionOnSet(LeftOf(known, g, s), Names(known)) = SumFunctionOnSet(all, Names(known))
    <3>1. \A n \in Names(known) : LeftOf(known, g, s)[n] = all[n]
      <4> SUFFICES ASSUME NEW n \in Names(known) PROVE LeftOf(known, g, s)[n] = all[n]
        OBVIOUS
      <4>1. LeftOf(known, g, s)[n] = Len(g[n]) + 2 - 1 /\ all[n] = Len(g[n]) + 1
        BY <1>1 DEF LeftOf
      <4>2. Len(g[n]) \in Nat
        BY GraphIs
      <4> HIDE DEF all
      <4> QED
        BY <4>1, <4>2
    <3> HIDE DEF all
    <3> QED
      BY <3>1, GraphIs, SumSame
  <2>2. Search!SearchSteps(known, g) = Len(known) + SumFunctionOnSet(all, Names(known))
    <3>1. Search!ToSet(known) = Names(known)
      BY GraphIs
    <3>2. Search!SumFunctionOnSet(all, Names(known)) = SumFunctionOnSet(all, Names(known))
      BY DEF Search!SumFunctionOnSet, SumFunctionOnSet, Search!FoldFunctionOnSet,
             FoldFunctionOnSet, Search!MapThenFoldSet, MapThenFoldSet
    <3> QED
      BY <3>1, <3>2 DEF Search!SearchSteps
  <2>3. SearchLeft(known, g, s)
          = Len(known) + 1 - 1 + SumFunctionOnSet(LeftOf(known, g, s), Names(known))
    BY <1>1 DEF SearchLeft
  <2>4. SumFunctionOnSet(LeftOf(known, g, s), Names(known)) \in Nat
    BY <1>9, LeftIs
  <2> HIDE DEF all
  <2> QED
    BY <1>3, <2>1, <2>2, <2>3, <2>4
<1>11. SearchLeft(known, g, s) \in Nat
  BY <1>9, LeftIs
<1> QED
  BY <1>9, <1>10, <1>11 DEF s

\* With nothing left and no cycle found all is black, and there is no circle.
LEMMA NothingLeft ==
  ASSUME NEW known, NEW g, NEW s, IsGraph(known, g), SearchInv(known, g, s),
         SearchLeft(known, g, s) = 0, s.cycle = <<>>
  PROVE  ~ \E S : Circle(known, g, S)
<1>1. Len(known) \in Nat /\ s.root \in Nat /\ s.root <= Len(known) + 1
  BY GraphIs, StateIs DEF SearchInv, RootsPassed
<1>2. Len(known) + 1 - s.root + SumFunctionOnSet(LeftOf(known, g, s), Names(known)) = 0
  BY DEF SearchLeft
<1>3. SumFunctionOnSet(LeftOf(known, g, s), Names(known)) \in Nat
  BY LeftIs
<1>4. SumFunctionOnSet(LeftOf(known, g, s), Names(known)) = 0
  BY <1>1, <1>2, <1>3
<1>5. ASSUME NEW n \in Names(known) PROVE s.color[n] = "black"
  <2>1. /\ LeftOf(known, g, s)[n] \in Nat
        /\ LeftOf(known, g, s)[n] <= SumFunctionOnSet(LeftOf(known, g, s), Names(known))
        /\ s.color[n] # "black" => LeftOf(known, g, s)[n] > 0
    BY LeftIs
  <2> QED
    BY <1>4, <2>1
<1> QED
  BY <1>5 DEF SearchInv, NoBlackCircle, Circle

\* The search goes through all its steps and ends with the verdict.
LEMMA DetectCycleFinds ==
  ASSUME NEW known, NEW g, IsGraph(known, g)
  PROVE  Search!DetectCycle(known, g) # <<>> <=> \E S : Circle(known, g, S)
<1> DEFINE N == Search!SearchSteps(known, g)
           Start == Search!SearchStarts(known)
           Sound == {s \in SearchState(known) : SearchInv(known, g, s)}
           step == [p \in Nat \X Sound |-> Search!SearchStep(known, g, p[2])]
           Body(r) == [k \in 0..N |-> IF k = 0 THEN Start
                                      ELSE Search!SearchStep(known, g, r[k - 1])]
           search == CHOOSE r : r = Body(r)
<1>1. N \in Nat /\ Start \in Sound /\ SearchLeft(known, g, Start) = N
  BY SearchStartsSound DEF SearchInv
<1>2. ASSUME NEW s \in Sound PROVE Search!SearchStep(known, g, s) \in Sound
  BY <1>2, SearchStepKeeps DEF SearchInv
<1>3. \E r : r = Body(r)
  <2>1. PICK run : RunsFor(run, Start, step, N)
    <3> HIDE DEF N, Start, step
    <3> QED
      BY <1>1, RunExists
  <2>2. run = [k \in 0..N |-> IF k = 0 THEN Start ELSE step[<<k, run[k - 1]>>]]
    BY <2>1 DEF RunsFor
  <2>3. run[0] = Start /\ \A k \in Nat : k < N => run[k + 1] = step[<<k + 1, run[k]>>]
    <3> HIDE DEF N, Start, step
    <3>1. run[0] = Start
      BY <1>1, <2>2
    <3>2. ASSUME NEW k \in Nat, k < N PROVE run[k + 1] = step[<<k + 1, run[k]>>]
      <4>1. k + 1 \in 0..N /\ k + 1 # 0 /\ (k + 1) - 1 = k
        BY <1>1, <3>2
      <4> QED
        BY <2>2, <4>1
    <3> QED
      BY <3>1, <3>2
  <2>4. \A k \in Nat : k < N /\ run[k] \in Sound => run[k + 1] \in Sound
    <3> SUFFICES ASSUME NEW k \in Nat, k < N, run[k] \in Sound PROVE run[k + 1] \in Sound
      OBVIOUS
    <3>1. step[<<k + 1, run[k]>>] = Search!SearchStep(known, g, run[k])
      <4> HIDE DEF Sound
      <4> QED
        OBVIOUS
    <3> HIDE DEF Sound, step, N
    <3> QED
      BY <1>2, <2>3, <3>1
  <2>5. \A k \in 0..N : run[k] \in Sound
    <3> HIDE DEF Sound, step, N, Start
    <3> QED
      BY <1>1, <2>3, <2>4, RunStays
  <2>6. \A k \in 0..N : k # 0 => step[<<k, run[k - 1]>>] = Search!SearchStep(known, g, run[k - 1])
    <3> SUFFICES ASSUME NEW k \in 0..N, k # 0
                 PROVE  step[<<k, run[k - 1]>>] = Search!SearchStep(known, g, run[k - 1])
      OBVIOUS
    <3>1. k - 1 \in 0..N /\ k \in Nat
      <4> HIDE DEF N
      <4> QED
        BY <1>1
    <3>2. run[k - 1] \in Sound
      BY <2>5, <3>1
    <3> HIDE DEF Sound
    <3> QED
      BY <3>1, <3>2
  <2>7. run = Body(run)
    <3> HIDE DEF N, Start, step
    <3> QED
      BY <2>2, <2>6
  <2> QED
    BY <2>7
<1>4. search = Body(search)
  <2> HIDE DEF Body
  <2> QED
    BY <1>3
<1>5. Search!DetectCycle(known, g) = search[N].cycle
  BY DEF Search!DetectCycle
<1> HIDE DEF search, N, Start
<1>6. /\ search[0] = Start
      /\ \A k \in Nat : k < N => search[k + 1] = Search!SearchStep(known, g, search[k])
  <2>1. search[0] = Start
    BY <1>1, <1>4
  <2>2. ASSUME NEW k \in Nat, k < N PROVE search[k + 1] = Search!SearchStep(known, g, search[k])
    <3>1. k + 1 \in 0..N /\ k + 1 # 0 /\ (k + 1) - 1 = k
      BY <1>1, <2>2
    <3> QED
      BY <1>4, <3>1
  <2> QED
    BY <2>1, <2>2
<1>7. \A k \in 0..N : search[k] \in Sound
  <2> HIDE DEF Sound
  <2>1. \A k \in Nat : k < N /\ search[k] \in Sound => search[k + 1] \in Sound
    BY <1>2, <1>6
  <2> QED
    BY <1>1, <1>6, <2>1, RunStays
<1> DEFINE m == [k \in 0..N |-> SearchLeft(known, g, search[k])]
<1>8. /\ \A k \in 0..N : m[k] \in Nat
      /\ m[0] = N
  BY <1>1, <1>6, <1>7, LeftIs
<1>9. \A k \in Nat : k < N => (m[k] > 0 => m[k + 1] < m[k]) /\ (m[k] = 0 => m[k + 1] = 0)
  <2> SUFFICES ASSUME NEW k \in Nat, k < N
               PROVE  (m[k] > 0 => m[k + 1] < m[k]) /\ (m[k] = 0 => m[k + 1] = 0)
    OBVIOUS
  <2>1. k \in 0..N /\ k + 1 \in 0..N
    BY <1>1
  <2>2. SearchInv(known, g, search[k]) /\ search[k + 1] = Search!SearchStep(known, g, search[k])
    BY <1>6, <1>7, <2>1
  <2>3. /\ m[k] = SearchLeft(known, g, search[k]) 
        /\ m[k + 1] = SearchLeft(known, g, search[k + 1])
    BY <2>1
  <2> HIDE DEF m
  <2> QED
    BY <2>2, <2>3, SearchStepKeeps
<1>10. m[N] = 0
  <2> HIDE DEF m
  <2>1. /\ \A k \in Nat : k < N /\ m[k] > 0 => m[k + 1] < m[k]
        /\ \A k \in Nat : k < N /\ m[k] = 0 => m[k + 1] = 0
    BY <1>9
  <2>2. m[0] <= N
    BY <1>1, <1>8
  <2> QED
    BY <1>1, <1>8, <2>1, <2>2, RunEnds
<1>11. PICK s : s = search[N]
  OBVIOUS
<1>12. SearchInv(known, g, s) /\ SearchLeft(known, g, s) = 0
  <2>1. N \in 0..N
    BY <1>1
  <2> QED
    BY <1>7, <1>10, <1>11, <2>1
<1>13. s.cycle # <<>> <=> \E S : Circle(known, g, S)
  <2>1. s.cycle # <<>> => \E S : Circle(known, g, S)
    BY <1>12 DEF SearchInv
  <2>2. s.cycle = <<>> => ~ \E S : Circle(known, g, S)
    BY <1>12, NothingLeft
  <2> QED
    BY <2>1, <2>2
<1> QED
  BY <1>5, <1>11, <1>13

-----------------------------------------------------------------------------
(* resolveOrder(). *)
In(q, n) == \E i \in DOMAIN q : q[i] = n

\* A loop whose body stays in a set has its states there.
LEMMA LoopRuns ==
  ASSUME NEW N \in Nat, NEW X, NEW start \in X, NEW step \in [(1..N) \X X -> X]
  PROVE  \E run : /\ RunsFor(run, start, step, N) /\ run[0] = start
                  /\ \A k \in Nat : k < N => run[k + 1] = step[<<k + 1, run[k]>>]
                  /\ \A k \in 0..N : run[k] \in X
<1>1. PICK run : RunsFor(run, start, step, N)
  BY RunExists
<1>2. run = [k \in 0..N |-> IF k = 0 THEN start ELSE step[<<k, run[k - 1]>>]]
  BY <1>1 DEF RunsFor
<1>3. run[0] = start
  BY <1>2
<1>4. ASSUME NEW k \in Nat, k < N PROVE run[k + 1] = step[<<k + 1, run[k]>>]
  <2>1. k + 1 \in 0..N /\ k + 1 # 0 /\ (k + 1) - 1 = k
    BY <1>4
  <2> QED
    BY <1>2, <2>1
<1>5. \A k \in Nat : k < N /\ run[k] \in X => run[k + 1] \in X
  <2> SUFFICES ASSUME NEW k \in Nat, k < N, run[k] \in X PROVE run[k + 1] \in X
    OBVIOUS
  <2>1. <<k + 1, run[k]>> \in (1..N) \X X
    OBVIOUS
  <2> QED
    BY <1>4, <2>1
<1>6. \A k \in 0..N : run[k] \in X
  BY <1>3, <1>5, RunStays
<1> QED
  BY <1>1, <1>3, <1>4, <1>6

\* A queue of so many different names grows by another.
JoinsQueue(S, q, n, r) ==
  q \in Seq(S) /\ Distinct(q) /\ n \in S /\ ~ In(q, n) /\ r = Append(q, n)

\* The longer queue holds what it held and the new name.
LEMMA AnotherJoins ==
  ASSUME NEW S, NEW q, NEW n, NEW r, JoinsQueue(S, q, n, r)
  PROVE  /\ r \in Seq(S) /\ Distinct(r) /\ Len(r) = Len(q) + 1 /\ Len(q) \in Nat
         /\ DOMAIN r = 1..(Len(q) + 1) /\ DOMAIN q = 1..Len(q) /\ r[Len(q) + 1] = n
         /\ \A i \in DOMAIN q : i \in DOMAIN r /\ r[i] = q[i]
         /\ \A m : In(r, m) <=> In(q, m) \/ m = n
<1> SUFFICES ASSUME q \in Seq(S), Distinct(q), n \in S, ~ In(q, n), r = Append(q, n)
             PROVE  /\ r \in Seq(S) /\ Distinct(r) /\ Len(r) = Len(q) + 1 /\ Len(q) \in Nat
                    /\ DOMAIN r = 1..(Len(q) + 1) /\ DOMAIN q = 1..Len(q) /\ r[Len(q) + 1] = n
                    /\ \A i \in DOMAIN q : i \in DOMAIN r /\ r[i] = q[i]
                    /\ \A m : In(r, m) <=> In(q, m) \/ m = n
  BY Zenon DEF JoinsQueue
<1>1. /\ r \in Seq(S) /\ Len(r) = Len(q) + 1 /\ Len(q) \in Nat
      /\ DOMAIN r = 1..(Len(q) + 1) /\ DOMAIN q = 1..Len(q) /\ r[Len(q) + 1] = n
  OBVIOUS
<1>2. \A i \in DOMAIN q : i \in DOMAIN r /\ r[i] = q[i]
  OBVIOUS
<1>3. \A i \in DOMAIN r : i \in DOMAIN q \/ i = Len(q) + 1
  BY <1>1
<1>4. Len(q) + 1 \in DOMAIN r
  BY <1>1
<1>5. Distinct(r)
  <2> SUFFICES ASSUME NEW i \in DOMAIN r, NEW j \in DOMAIN r, r[i] = r[j] PROVE i = j
    BY DEF Distinct
  <2>1. \A k \in DOMAIN q : r[k] # n
    BY <1>2 DEF In
  <2>2. \A k \in DOMAIN r : k \notin DOMAIN q => k = Len(q) + 1 /\ r[k] = n
    BY <1>1, <1>3
  <2>3. CASE i \in DOMAIN q /\ j \in DOMAIN q
    BY <1>2, <2>3 DEF Distinct
  <2> QED
    BY <2>1, <2>2, <2>3
<1>6. \A m : In(r, m) <=> In(q, m) \/ m = n
  BY <1>1, <1>2, <1>3, <1>4 DEF In
<1> QED
  BY <1>1, <1>2, <1>5, <1>6

\* The names of a set in the order they were added are those of it.
LEMMA InOrderIs ==
  ASSUME NEW known, NEW g, IsGraph(known, g), NEW set \in SUBSET Names(known)
  PROVE  /\ Search!InOrder(known, set) \in Seq(Names(known))
         /\ Distinct(Search!InOrder(known, set))
         /\ \A m : In(Search!InOrder(known, set), m) <=> m \in set
<1> DEFINE N == Len(known)
           X == Seq(Names(known))
           step == [p \in (1..N) \X X |-> IF known[p[1]] \in set THEN Append(p[2], known[p[1]])
                                       ELSE p[2]]
           Body(r) == [k \in 0..N |-> IF k = 0 THEN <<>>
                                      ELSE IF known[k] \in set THEN Append(r[k - 1], known[k])
                                      ELSE r[k - 1]]
           first == CHOOSE r : r = Body(r)
<1>1. N \in Nat /\ DOMAIN known = 1..N /\ \A k \in 1..N : known[k] \in Names(known)
  BY GraphIs
<1>2. \E r : r = Body(r)
  <2>1. step \in [(1..N) \X X -> X]
    <3>1. ASSUME NEW k \in 1..N, NEW q \in X, known[k] \in set PROVE Append(q, known[k]) \in X
      BY <1>1
    <3> HIDE DEF X, N
    <3> QED
      BY <3>1
  <2>2. <<>> \in X
    OBVIOUS
  <2>3. PICK run : RunsFor(run, <<>>, step, N) /\ \A k \in 0..N : run[k] \in X
    <3> HIDE DEF N, X, step
    <3> QED
      BY <1>1, <2>1, <2>2, LoopRuns
  <2>4. run = [k \in 0..N |-> IF k = 0 THEN <<>> ELSE step[<<k, run[k - 1]>>]]
    BY <2>3 DEF RunsFor
  <2>5. ASSUME NEW k \in 0..N, k # 0
        PROVE  step[<<k, run[k - 1]>>]
                 = IF known[k] \in set THEN Append(run[k - 1], known[k]) ELSE run[k - 1]
    <3> HIDE DEF N, X
    <3>1. k - 1 \in 0..N /\ k \in 1..N
      BY <1>1, <2>5
    <3>2. run[k - 1] \in X
      BY <2>3, <3>1
    <3> QED
      BY <3>1, <3>2
  <2>6. run = Body(run)
    <3> HIDE DEF N, step
    <3> QED
      BY <2>4, <2>5
  <2> QED
    BY <2>6
<1>3. first = Body(first)
  <2> HIDE DEF Body
  <2> QED
    BY <1>2
<1>4. Search!InOrder(known, set) = first[N]
  BY DEF Search!InOrder
<1> HIDE DEF first
<1> DEFINE Good == {k \in Nat : k <= N => /\ first[k] \in X /\ Distinct(first[k])
                                          /\ \A m : In(first[k], m) <=>
                                               m \in set /\ \E i \in 1..k : known[i] = m}
<1>5. 0 \in Good
  <2>1. first[0] = <<>>
    BY <1>1, <1>3
  <2>2. PICK q : q = first[0]
    OBVIOUS
  <2>3. q \in X /\ DOMAIN q = {}
    BY <2>1, <2>2
  <2>4. Distinct(q) /\ \A m : ~ In(q, m)
    BY <2>3 DEF Distinct, In
  <2>5. \A m : ~ \E i \in 1..0 : known[i] = m
    OBVIOUS
  <2> QED
    BY <2>2, <2>3, <2>4, <2>5
<1>6. ASSUME NEW k \in Nat, k < N, k \in Good PROVE k + 1 \in Good
  <2>1. PICK a, b, n : a = first[k] /\ b = first[k + 1] /\ n = known[k + 1]
    OBVIOUS
  <2>2. k + 1 \in 0..N /\ k + 1 # 0 /\ (k + 1) - 1 = k /\ k <= N /\ k + 1 \in 1..N
    BY <1>1, <1>6
  <2>3. b = IF n \in set THEN Append(a, n) ELSE a
    <3>1. first[k + 1] = Body(first)[k + 1]
      BY <1>3
    <3>2. Body(first)[k + 1] = IF known[k + 1] \in set THEN Append(first[(k + 1) - 1], known[k + 1])
                               ELSE first[(k + 1) - 1]
      <4> HIDE DEF N
      <4> QED
        BY <2>2
    <3> QED
      BY <2>1, <2>2, <3>1, <3>2
  <2>4. /\ a \in X /\ Distinct(a)
        /\ \A m : In(a, m) <=> m \in set /\ \E i \in 1..k : known[i] = m
    BY <1>6, <2>1, <2>2
  <2>5. ~ In(a, n)
    <3>1. \A i \in 1..k : i \in DOMAIN known /\ i # k + 1 /\ k + 1 \in DOMAIN known
      BY <1>1, <1>6
    <3>2. \A i \in 1..k : known[i] # n
      BY <2>1, <3>1 DEF IsGraph
    <3> QED
      BY <2>4, <3>2
  <2>6. n \in Names(known)
    BY <1>1, <2>1, <2>2
  <2>7. \A m : (\E i \in 1..(k + 1) : known[i] = m) <=> (\E i \in 1..k : known[i] = m) \/ m = n
    <3>1. \A i \in 1..(k + 1) : i \in 1..k \/ i = k + 1
      OBVIOUS
    <3>2. k + 1 \in 1..(k + 1) /\ \A i \in 1..k : i \in 1..(k + 1)
      OBVIOUS
    <3> QED
      BY <2>1, <3>1, <3>2
  <2>8. /\ b \in X /\ Distinct(b)
        /\ \A m : In(b, m) <=> m \in set /\ \E i \in 1..(k + 1) : known[i] = m
    <3>1. CASE n \in set
      <4>1. JoinsQueue(Names(known), a, n, b)
        BY <2>3, <2>4, <2>5, <2>6, <3>1, Zenon DEF JoinsQueue
      <4>2. b \in X /\ Distinct(b) /\ \A m : In(b, m) <=> In(a, m) \/ m = n
        BY <4>1, AnotherJoins
      <4> QED
        BY <2>4, <2>7, <3>1, <4>2
    <3>2. CASE n \notin set
      <4>1. b = a
        BY <2>3, <3>2
      <4> QED
        BY <2>4, <2>7, <3>2, <4>1
    <3> QED
      BY <3>1, <3>2
  <2> QED
    BY <2>1, <2>8
<1>7. \A k \in 0..N : k \in Good
  <2> HIDE DEF Good, N
  <2> QED
    BY <1>1, <1>5, <1>6, UpTo
<1>8. N \in Good /\ N <= N
  <2> HIDE DEF Good, N
  <2>1. N \in 0..N /\ N <= N
    BY <1>1
  <2> QED
    BY <1>7, <2>1
<1>9. PICK q : q = first[N]
  OBVIOUS
<1>10. q \in X /\ Distinct(q) /\ \A m : In(q, m) <=> m \in set /\ \E i \in 1..N : known[i] = m
  BY <1>8, <1>9
<1>11. \A m \in set : \E i \in 1..N : known[i] = m
  BY <1>1 DEF Names
<1> QED
  BY <1>4, <1>9, <1>10, <1>11

\* Every dependency is known.
AllKnown(known, g) == \A n \in Names(known) : \A i \in DOMAIN g[n] : g[n][i] \in Names(known)

\* Where a name lists another, and where it lists one that is not released.
Places(g, m, n) == {i \in DOMAIN g[m] : g[m][i] = n}
Waits(g, output, m) == {i \in DOMAIN g[m] : ~ In(output, g[m][i])}

QueueState(known) ==
  [degree : [Names(known) -> Int], queue : Seq(Names(known)), result : Seq(Names(known))]

\* What has no dependency left to wait for is in the queue or released, once; what
\* is released comes after all it depends on.
QueueInv(known, g, s) ==
  /\ s \in QueueState(known) /\ Distinct(s.queue) /\ Distinct(s.result)
  /\ \A m : ~ (In(s.queue, m) /\ In(s.result, m))
  /\ \A m \in Names(known) : s.degree[m] = Cardinality(Waits(g, s.result, m))
  /\ \A m \in Names(known) : Waits(g, s.result, m) = {} <=> In(s.queue, m) \/ In(s.result, m)
  /\ \A i \in DOMAIN s.result : \A d : DependsOn(g, s.result[i], d) =>
       \E j \in 1..(i - 1) : s.result[j] = d

\* What is in the state of the queue.
LEMMA QueueIs ==
  ASSUME NEW known, NEW s \in QueueState(known)
  PROVE  /\ s.degree \in [Names(known) -> Int] /\ s.queue \in Seq(Names(known))
         /\ s.result \in Seq(Names(known))
BY DEF QueueState

\* The cardinality of the searches is that of the proofs.
LEMMA GraphCardinality == \A S : Search!Cardinality(S) = Cardinality(S)
BY DEF Search!Cardinality, Cardinality

\* Names without repetition are as many as are known at most.
LEMMA NamesFit ==
  ASSUME NEW known, NEW g, IsGraph(known, g), NEW q \in Seq(Names(known)), Distinct(q)
  PROVE  Len(q) \in Nat /\ Len(q) <= Len(known)
<1> DEFINE T == {q[i] : i \in DOMAIN q}
<1>1. IsFiniteSet(T) /\ Cardinality(T) = Len(q)
  BY DistinctCounts DEF Distinct
<1>2. IsFiniteSet(Names(known)) /\ Cardinality(Names(known)) = Len(known)
  BY DistinctCounts DEF IsGraph, Names
<1>3. T \in SUBSET Names(known)
  BY PathIs
<1> HIDE DEF T
<1>4. Cardinality(T) <= Cardinality(Names(known))
  BY <1>2, <1>3, FS_Subset
<1>5. Len(q) \in Nat
  OBVIOUS
<1> QED
  BY <1>1, <1>2, <1>4, <1>5

\* Releasing a name takes its places from those that are waited for.
Released(known, g, output, n, r) ==
  /\ IsGraph(known, g) /\ ~ In(output, n)
  /\ \A d : In(r, d) <=> In(output, d) \/ d = n

\* The places left to wait for are those that do not list the name.
LEMMA WaitsFall ==
  ASSUME NEW known, NEW g, NEW output, NEW n, NEW r, Released(known, g, output, n, r),
         NEW m \in Names(known)
  PROVE  /\ Waits(g, r, m) = Waits(g, output, m) \ Places(g, m, n)
         /\ Places(g, m, n) \subseteq Waits(g, output, m)
         /\ Cardinality(Waits(g, r, m)) = Cardinality(Waits(g, output, m)) - Search!Listed(g, m, n)
         /\ Cardinality(Waits(g, r, m)) \in Nat /\ Search!Listed(g, m, n) \in Nat
         /\ Cardinality(Waits(g, output, m)) \in Nat
         /\ Cardinality(Waits(g, r, m)) = 0 <=> Waits(g, r, m) = {}
         /\ Search!Listed(g, m, n) > 0 <=> Places(g, m, n) # {}
<1>0. IsGraph(known, g) /\ ~ In(output, n) /\ \A d : In(r, d) <=> In(output, d) \/ d = n
  BY Zenon DEF Released
<1> DEFINE W == Waits(g, output, m)
           P == Places(g, m, n)
           V == Waits(g, r, m)
<1>1. V = W \ P /\ P \subseteq W
  BY <1>0 DEF Waits, Places
<1>2. IsFiniteSet(DOMAIN g[m])
  <2>1. DOMAIN g[m] = 1..Len(g[m]) /\ Len(g[m]) \in Int /\ 1 \in Int
    BY <1>0, GraphIs
  <2> QED
    BY <2>1, FS_Interval
<1>3. W \in SUBSET DOMAIN g[m] /\ P \in SUBSET DOMAIN g[m] /\ V \in SUBSET DOMAIN g[m]
  BY DEF Waits, Places
<1>4. Search!Listed(g, m, n) = Cardinality(P)
  BY GraphCardinality DEF Search!Listed, Places
<1> HIDE DEF W, P, V
<1>5. IsFiniteSet(W) /\ IsFiniteSet(P) /\ IsFiniteSet(V)
  BY <1>2, <1>3, FS_Subset
<1>6. Cardinality(W) \in Nat /\ Cardinality(P) \in Nat /\ Cardinality(V) \in Nat
  BY <1>5, FS_CardinalityType
<1>7. (Cardinality(V) = 0 <=> V = {}) /\ (Cardinality(P) = 0 <=> P = {})
  BY <1>5, FS_EmptySet
<1>8. Cardinality(W) = Cardinality(V) + Cardinality(P)
  <2>1. W = V \cup P /\ V \cap P = {}
    BY <1>1
  <2>2. Cardinality(V \cup P) = Cardinality(V) + Cardinality(P) - Cardinality(V \cap P)
    BY <1>5, FS_Union
  <2>3. Cardinality(V \cap P) = 0
    BY <2>1, FS_EmptySet
  <2> QED
    BY <1>6, <2>1, <2>2, <2>3
<1>9. Cardinality(V) = Cardinality(W) - Cardinality(P)
  BY <1>6, <1>8
<1>10. Cardinality(P) > 0 <=> P # {}
  BY <1>6, <1>7
<1> QED
  BY <1>1, <1>4, <1>6, <1>7, <1>9, <1>10 DEF W, P, V

\* The queue without its first, and others behind it.
Moves(S, q, f, r) ==
  /\ q \in Seq(S) /\ q # <<>> /\ Distinct(q) /\ f \in Seq(S) /\ Distinct(f)
  /\ \A m : ~ (In(q, m) /\ In(f, m))
  /\ r = Tail(q) \o f

\* The new queue has each name once: the old ones but the first, and the others.
LEMMA QueueMoves ==
  ASSUME NEW S, NEW q, NEW f, NEW r, Moves(S, q, f, r)
  PROVE  /\ Head(q) \in S /\ In(q, Head(q)) /\ r \in Seq(S) /\ Distinct(r)
         /\ \A m : In(r, m) <=> (In(q, m) /\ m # Head(q)) \/ In(f, m)
<1> SUFFICES ASSUME q \in Seq(S), q # <<>>, Distinct(q), f \in Seq(S), Distinct(f),
                    \A m : ~ (In(q, m) /\ In(f, m)), r = Tail(q) \o f
             PROVE  /\ Head(q) \in S /\ In(q, Head(q)) /\ r \in Seq(S) /\ Distinct(r)
                    /\ \A m : In(r, m) <=> (In(q, m) /\ m # Head(q)) \/ In(f, m)
  BY Zenon DEF Moves
<1>1. /\ Head(q) = q[1] /\ 1 \in DOMAIN q /\ Len(q) \in Nat /\ Len(q) >= 1
      /\ DOMAIN q = 1..Len(q) /\ Len(f) \in Nat /\ DOMAIN f = 1..Len(f)
  OBVIOUS
<1>2. PICK l \in Nat : l = Len(q) - 1
  <2>1. Len(q) - 1 \in Nat
    BY <1>1
  <2> QED
    BY <2>1, Zenon
<1>3. PICK k \in Nat : k = Len(f)
  BY <1>1
<1>4. PICK t : t = Tail(q)
  OBVIOUS
<1>5. t \in Seq(S) /\ Len(t) = l /\ \A i \in 1..l : t[i] = q[i + 1]
  BY <1>1, <1>2, <1>4
<1>6. r \in Seq(S) /\ Len(r) = l + k /\ DOMAIN r = 1..(l + k)
  <2>1. r = t \o f
    BY <1>4
  <2>2. r \in Seq(S)
    <3>1. t \in Seq(S) /\ f \in Seq(S)
      BY <1>5
    <3>2. t \o f \in Seq(S)
      BY <3>1
    <3> QED
      BY <2>1, <3>2, Zenon
  <2>3. Len(r) = Len(t) + Len(f)
    <3>1. t \in Seq(S) /\ f \in Seq(S)
      BY <1>5
    <3>2. Len(t \o f) = Len(t) + Len(f)
      BY <3>1, ConcatProperties, Zenon
    <3> QED
      BY <2>1, <3>2, Zenon
  <2>4. DOMAIN r = 1..Len(r)
    BY <2>2
  <2> QED
    BY <1>3, <1>5, <2>2, <2>3, <2>4
<1>7. \A i \in 1..l : r[i] = q[i + 1] /\ i + 1 \in DOMAIN q /\ i \in DOMAIN r
  <2> SUFFICES ASSUME NEW i \in 1..l PROVE r[i] = q[i + 1] /\ i + 1 \in DOMAIN q /\ i \in DOMAIN r
    OBVIOUS
  <2>1. r[i] = t[i]
    BY <1>4, <1>5
  <2> QED
    BY <1>1, <1>2, <1>5, <1>6, <2>1
<1>8. \A j \in 1..k : r[l + j] = f[j] /\ l + j \in DOMAIN r
  <2> SUFFICES ASSUME NEW j \in 1..k PROVE r[l + j] = f[j] /\ l + j \in DOMAIN r
    OBVIOUS
  <2>1. r = t \o f
    BY <1>4
  <2>2. l + j > l /\ (l + j) - l = j /\ l + j \in 1..(l + k)
    OBVIOUS
  <2>3. r[l + j] = f[(l + j) - Len(t)]
    BY <1>3, <1>5, <2>1, <2>2, SMTT(30)
  <2> QED
    BY <1>5, <1>6, <2>2, <2>3
<1>9. \A i \in DOMAIN r : i \in 1..l \/ \E j \in 1..k : i = l + j
  <2> SUFFICES ASSUME NEW i \in DOMAIN r, i \notin 1..l PROVE \E j \in 1..k : i = l + j
    OBVIOUS
  <2>1. i - l \in 1..k /\ i = l + (i - l)
    BY <1>6
  <2> QED
    BY <2>1
<1>10. \A i \in DOMAIN q : i # 1 => i - 1 \in 1..l /\ (i - 1) + 1 = i
  BY <1>1, <1>2
<1>11. \A m : In(r, m) <=> (In(q, m) /\ m # Head(q)) \/ In(f, m)
  <2> SUFFICES ASSUME NEW m PROVE In(r, m) <=> (In(q, m) /\ m # Head(q)) \/ In(f, m)
    OBVIOUS
  <2>1. ASSUME In(r, m) PROVE (In(q, m) /\ m # Head(q)) \/ In(f, m)
    <3>1. PICK i \in DOMAIN r : r[i] = m
      BY <2>1 DEF In
    <3>2. CASE i \in 1..l
      <4>1. q[i + 1] = m /\ i + 1 \in DOMAIN q /\ i + 1 # 1
        BY <1>7, <3>1, <3>2
      <4>2. q[i + 1] # q[1]
        BY <1>1, <4>1 DEF Distinct
      <4> QED
        BY <1>1, <4>1, <4>2 DEF In
    <3>3. ASSUME NEW j \in 1..k, i = l + j PROVE In(f, m)
      BY <1>1, <1>3, <1>8, <3>1, <3>3 DEF In
    <3> QED
      BY <1>9, <3>2, <3>3
  <2>2. ASSUME In(q, m), m # Head(q) PROVE In(r, m)
    <3>1. PICK i \in DOMAIN q : q[i] = m
      BY <2>2 DEF In
    <3>2. i # 1
      BY <1>1, <2>2, <3>1
    <3>3. r[i - 1] = m /\ i - 1 \in DOMAIN r
      BY <1>7, <1>10, <3>1, <3>2
    <3> QED
      BY <3>3 DEF In
  <2>3. ASSUME In(f, m) PROVE In(r, m)
    BY <1>1, <1>3, <1>8, <2>3 DEF In
  <2> QED
    BY <2>1, <2>2, <2>3
<1>12. Distinct(r)
  <2> SUFFICES ASSUME NEW a \in DOMAIN r, NEW b \in DOMAIN r, r[a] = r[b] PROVE a = b
    BY DEF Distinct
  <2>1. CASE a \in 1..l /\ b \in 1..l
    <3>1. a + 1 \in DOMAIN q /\ b + 1 \in DOMAIN q /\ q[a + 1] = q[b + 1]
      BY <1>7, <2>1
    <3>2. a + 1 = b + 1
      BY <3>1 DEF Distinct
    <3> QED
      BY <2>1, <3>2
  <2>2. ASSUME NEW i \in 1..k, NEW j \in 1..k, a = l + i, b = l + j PROVE a = b
    <3>1. f[i] = f[j] /\ i \in DOMAIN f /\ j \in DOMAIN f
      BY <1>1, <1>3, <1>8, <2>2
    <3> QED
      BY <2>2, <3>1 DEF Distinct
  <2>3. ASSUME NEW c \in 1..l, NEW j \in 1..k PROVE r[c] # r[l + j]
    <3>1. In(q, r[c])
      BY <1>7 DEF In
    <3>2. In(f, r[l + j])
      BY <1>1, <1>3, <1>8 DEF In
    <3> QED
      BY <3>1, <3>2
  <2> QED
    BY <1>9, <2>1, <2>2, <2>3
<1>13. Head(q) \in S /\ In(q, Head(q))
  BY <1>1 DEF In
<1> QED
  BY <1>6, <1>11, <1>12, <1>13

\* Before the first is released.
LEMMA QueueStartsSound ==
  ASSUME NEW known, NEW g, IsGraph(known, g)
  PROVE  QueueInv(known, g, Search!QueueStarts(known, g))
<1> DEFINE free == {n \in Names(known) : Search!InDegree(g, n) = 0}
           s == Search!QueueStarts(known, g)
<1>1. /\ s.degree = [n \in Names(known) |-> Search!InDegree(g, n)]
      /\ s.queue = Search!InOrder(known, free) /\ s.result = <<>>
  BY GraphIs DEF Search!QueueStarts
<1>2. /\ s.queue \in Seq(Names(known)) /\ Distinct(s.queue)
      /\ \A m : In(s.queue, m) <=> m \in free
  <2>1. free \in SUBSET Names(known)
    OBVIOUS
  <2> HIDE DEF free, s
  <2> QED
    BY <1>1, <2>1, InOrderIs
<1>3. \A n \in Names(known) : Search!InDegree(g, n) = Len(g[n]) /\ Len(g[n]) \in Nat
  BY GraphIs DEF Search!InDegree
<1>4. s.degree \in [Names(known) -> Int]
  <2> HIDE DEF s
  <2> QED
    BY <1>1, <1>3
<1>5. s \in QueueState(known)
  <2>1. s = [degree |-> s.degree, queue |-> s.queue, result |-> <<>>]
    BY DEF Search!QueueStarts
  <2>2. PICK degree, queue : degree = s.degree /\ queue = s.queue
    OBVIOUS
  <2> HIDE DEF s
  <2>3. [degree |-> degree, queue |-> queue, result |-> <<>>] \in QueueState(known)
    BY <1>2, <1>4, <2>2 DEF QueueState
  <2> QED
    BY <2>1, <2>2, <2>3
<1>6. \A m \in Names(known) : Waits(g, s.result, m) = 1..Len(g[m])
  <2> HIDE DEF s
  <2> QED
    BY <1>1, GraphIs DEF Waits, In
<1>7. \A m \in Names(known) : Cardinality(1..Len(g[m])) = Len(g[m])
  <2> SUFFICES ASSUME NEW m \in Names(known) PROVE Cardinality(1..Len(g[m])) = Len(g[m])
    OBVIOUS
  <2>1. PICK l \in Nat : l = Len(g[m])
    BY <1>3
  <2>2. Cardinality(1..l) = IF 1 > l THEN 0 ELSE l - 1 + 1
    BY FS_Interval
  <2> QED
    BY <2>1, <2>2
<1>8. \A m \in Names(known) : s.degree[m] = Cardinality(Waits(g, s.result, m))
  <2> HIDE DEF s
  <2> QED
    BY <1>1, <1>3, <1>6, <1>7
<1>9. \A m \in Names(known) : Waits(g, s.result, m) = {} <=> In(s.queue, m) \/ In(s.result, m)
  <2>1. \A m : ~ In(s.result, m)
    BY <1>1 DEF In
  <2>2. \A m \in Names(known) : 1..Len(g[m]) = {} <=> Len(g[m]) = 0
    BY <1>3
  <2> HIDE DEF s
  <2> QED
    BY <1>2, <1>3, <1>6, <2>1, <2>2
<1> HIDE DEF s
<1>10. PICK output : output = s.result
  OBVIOUS
<1>11. output = <<>> /\ DOMAIN output = {}
  BY <1>1, <1>10
<1>12. /\ Distinct(output) /\ \A m : ~ In(output, m)
       /\ \A i \in DOMAIN output : \A d : DependsOn(g, output[i], d) =>
            \E j \in 1..(i - 1) : output[j] = d
  BY <1>11 DEF Distinct, In
<1>13. QueueInv(known, g, s)
  BY <1>2, <1>5, <1>8, <1>9, <1>10, <1>12, Zenon DEF QueueInv
<1> QED
  BY <1>13 DEF s

\* Releasing the first of the queue keeps it sound.
LEMMA ReleaseKeeps ==
  ASSUME NEW known, NEW g, IsGraph(known, g), NEW s, QueueInv(known, g, s), s.queue # <<>>,
         NEW t, t = Search!Release(known, g, s)
  PROVE  QueueInv(known, g, t) /\ Len(t.result) = Len(s.result) + 1
<1>1. PICK n, left : /\ n = Head(s.queue)
                     /\ left = [m \in Names(known) |-> s.degree[m] - Search!Listed(g, m, n)]
  OBVIOUS
<1>2. PICK freed : freed = {m \in Names(known) : Search!Listed(g, m, n) > 0 /\ left[m] = 0}
  OBVIOUS
<1>3. PICK behind, queue, output : /\ behind = Search!InOrder(known, freed)
                                   /\ queue = Tail(s.queue) \o behind
                                   /\ output = Append(s.result, n)
  OBVIOUS
<1>4. t = [degree |-> left, queue |-> queue, result |-> output]
  BY <1>1, <1>2, <1>3, GraphIs, Zenon DEF Search!Release
<1>5. /\ s.degree \in [Names(known) -> Int] /\ s.queue \in Seq(Names(known))
      /\ s.result \in Seq(Names(known)) /\ Distinct(s.queue) /\ Distinct(s.result)
  BY QueueIs DEF QueueInv
<1>6. freed \in SUBSET Names(known)
  BY <1>2
<1>7. behind \in Seq(Names(known)) /\ Distinct(behind) /\ \A m : In(behind, m) <=> m \in freed
  BY <1>3, <1>6, InOrderIs
<1>8. n \in Names(known) /\ In(s.queue, n)
  <2>1. Head(s.queue) = s.queue[1] /\ 1 \in DOMAIN s.queue
    BY <1>5
  <2> QED
    BY <1>1, <1>5, <2>1 DEF In
<1>9. ~ In(s.result, n) /\ Waits(g, s.result, n) = {}
  BY <1>8 DEF QueueInv
<1>10. /\ output \in Seq(Names(known)) /\ Distinct(output) /\ Len(output) = Len(s.result) + 1
       /\ Len(s.result) \in Nat /\ DOMAIN output = 1..(Len(s.result) + 1)
       /\ DOMAIN s.result = 1..Len(s.result) /\ output[Len(s.result) + 1] = n
       /\ \A i \in DOMAIN s.result : i \in DOMAIN output /\ output[i] = s.result[i]
       /\ \A m : In(output, m) <=> In(s.result, m) \/ m = n
  <2>1. JoinsQueue(Names(known), s.result, n, output)
    BY <1>3, <1>5, <1>8, <1>9, Zenon DEF JoinsQueue
  <2> QED
    BY <2>1, AnotherJoins
<1>11. ASSUME NEW m \in Names(known)
       PROVE  /\ Waits(g, output, m) = Waits(g, s.result, m) \ Places(g, m, n)
              /\ Places(g, m, n) \subseteq Waits(g, s.result, m)
              /\ left[m] = Cardinality(Waits(g, output, m)) /\ left[m] \in Int
              /\ m \in freed <=> Places(g, m, n) # {} /\ Waits(g, output, m) = {}
  <2>1. \A d : In(output, d) <=> In(s.result, d) \/ d = n
    BY <1>10
  <2>2. /\ Waits(g, output, m) = Waits(g, s.result, m) \ Places(g, m, n)
        /\ Places(g, m, n) \subseteq Waits(g, s.result, m)
        /\ Cardinality(Waits(g, output, m))
             = Cardinality(Waits(g, s.result, m)) - Search!Listed(g, m, n)
        /\ Cardinality(Waits(g, output, m)) \in Nat /\ Search!Listed(g, m, n) \in Nat
        /\ Cardinality(Waits(g, output, m)) = 0 <=> Waits(g, output, m) = {}
        /\ Search!Listed(g, m, n) > 0 <=> Places(g, m, n) # {}
    <3>1. Released(known, g, s.result, n, output)
      BY <1>9, <2>1, Zenon DEF Released
    <3> QED
      BY <3>1, WaitsFall
  <2>3. left[m] = s.degree[m] - Search!Listed(g, m, n)
    BY <1>1
  <2>4. s.degree[m] = Cardinality(Waits(g, s.result, m))
    BY DEF QueueInv
  <2>5. left[m] = Cardinality(Waits(g, output, m)) /\ left[m] \in Int
    BY <2>2, <2>3, <2>4
  <2>6. m \in freed <=> Search!Listed(g, m, n) > 0 /\ left[m] = 0
    BY <1>2
  <2> QED
    BY <2>2, <2>5, <2>6
<1>12. \A m \in freed : Waits(g, s.result, m) # {} /\ m # n /\ ~ In(s.queue, m) /\ ~ In(s.result, m)
  <2> SUFFICES ASSUME NEW m \in freed
               PROVE  Waits(g, s.result, m) # {} /\ m # n /\ ~ In(s.queue, m) /\ ~ In(s.result, m)
    OBVIOUS
  <2>1. m \in Names(known) /\ Waits(g, s.result, m) # {}
    BY <1>6, <1>11
  <2> QED
    BY <1>9, <2>1 DEF QueueInv
<1>13. /\ queue \in Seq(Names(known)) /\ Distinct(queue)
       /\ \A m : In(queue, m) <=> (In(s.queue, m) /\ m # n) \/ m \in freed
  <2>1. \A m : ~ (In(s.queue, m) /\ In(behind, m))
    BY <1>7, <1>12
  <2>2. /\ queue \in Seq(Names(known)) /\ Distinct(queue)
        /\ \A m : In(queue, m) <=> (In(s.queue, m) /\ m # Head(s.queue)) \/ In(behind, m)
    <3>1. Moves(Names(known), s.queue, behind, queue)
      BY <1>3, <1>5, <1>7, <2>1, Zenon DEF Moves
    <3> QED
      BY <3>1, QueueMoves
  <2> QED
    BY <1>1, <1>7, <2>2
<1>14. t \in QueueState(known)
  <2>1. left \in [Names(known) -> Int]
    BY <1>1, <1>11
  <2> QED
    BY <1>4, <1>10, <1>13, <2>1 DEF QueueState
<1>15. \A m : ~ (In(queue, m) /\ In(output, m))
  BY <1>10, <1>12, <1>13 DEF QueueInv
<1>16. \A m \in Names(known) : Waits(g, output, m) = {} <=> In(queue, m) \/ In(output, m)
  <2> SUFFICES ASSUME NEW m \in Names(known)
               PROVE  Waits(g, output, m) = {} <=> In(queue, m) \/ In(output, m)
    OBVIOUS
  <2>1. Waits(g, s.result, m) = {} <=> In(s.queue, m) \/ In(s.result, m)
    BY DEF QueueInv
  <2>2. In(queue, m) \/ In(output, m) <=> In(s.queue, m) \/ In(s.result, m) \/ m \in freed
    BY <1>8, <1>10, <1>13
  <2>3. Waits(g, output, m) = {} <=> Waits(g, s.result, m) = {} \/ m \in freed
    BY <1>11
  <2> QED
    BY <2>1, <2>2, <2>3
<1>17. \A i \in DOMAIN output : \A d : DependsOn(g, output[i], d) =>
         \E j \in 1..(i - 1) : output[j] = d
  <2> SUFFICES ASSUME NEW i \in DOMAIN output, NEW d, DependsOn(g, output[i], d)
               PROVE  \E j \in 1..(i - 1) : output[j] = d
    OBVIOUS
  <2>1. CASE i \in DOMAIN s.result
    <3>1. PICK j \in 1..(i - 1) : s.result[j] = d
      BY <1>10, <2>1 DEF QueueInv
    <3>2. j \in DOMAIN s.result
      BY <1>10, <2>1, <3>1
    <3> QED
      BY <1>10, <3>1, <3>2
  <2>2. CASE i \notin DOMAIN s.result
    <3>1. i = Len(s.result) + 1 /\ output[i] = n
      BY <1>10, <2>2
    <3>2. PICK k \in DOMAIN g[n] : g[n][k] = d
      BY <3>1 DEF DependsOn
    <3>3. In(s.result, d)
      BY <1>9, <3>2 DEF Waits
    <3>4. PICK j \in DOMAIN s.result : s.result[j] = d
      BY <3>3 DEF In
    <3>5. j \in 1..(i - 1) /\ output[j] = d
      BY <1>10, <3>1, <3>4
    <3> QED
      BY <3>5
  <2> QED
    BY <2>1, <2>2
<1>18. t.degree = left /\ t.queue = queue /\ t.result = output
  BY <1>4
<1>19. \A m \in Names(known) : left[m] = Cardinality(Waits(g, output, m))
  BY <1>11
<1> QED
  <2>1. /\ \A m : ~ (In(t.queue, m) /\ In(t.result, m))
        /\ \A m \in Names(known) : Waits(g, t.result, m) = {} <=> In(t.queue, m) \/ In(t.result, m)
    BY <1>15, <1>16, <1>18, Zenon
  <2>2. \A m \in Names(known) : t.degree[m] = Cardinality(Waits(g, t.result, m))
    BY <1>18, <1>19, Zenon
  <2>3. \A i \in DOMAIN t.result : \A d : DependsOn(g, t.result[i], d) =>
          \E j \in 1..(i - 1) : t.result[j] = d
    <3> SUFFICES ASSUME NEW i \in DOMAIN output, NEW d, DependsOn(g, output[i], d)
                 PROVE  \E j \in 1..(i - 1) : output[j] = d
      BY <1>18, ZenonT(40)
    <3> QED
      BY <1>17, Zenon
  <2>4. Distinct(t.queue) /\ Distinct(t.result) /\ Len(t.result) = Len(s.result) + 1
    BY <1>10, <1>13, <1>18, Zenon
  <2> QED
    BY <1>14, <2>1, <2>2, <2>3, <2>4, Zenon DEF QueueInv

\* How many are still to be released while the queue is not empty.
QueueLeft(known, s) == IF s.queue = <<>> THEN 0 ELSE Len(known) - Len(s.result)

\* What is left is a number, and not zero before the queue is empty.
LEMMA QueueLeftIs ==
  ASSUME NEW known, NEW g, IsGraph(known, g), NEW s, QueueInv(known, g, s)
  PROVE  /\ QueueLeft(known, s) \in Nat /\ QueueLeft(known, s) <= Len(known)
         /\ s.queue # <<>> => QueueLeft(known, s) > 0
         /\ Len(s.result) \in Nat /\ Len(known) \in Nat
<1>1. /\ s.queue \in Seq(Names(known)) /\ s.result \in Seq(Names(known)) /\ Distinct(s.result)
      /\ Len(known) \in Nat /\ Len(s.result) \in Nat
  BY QueueIs, GraphIs DEF QueueInv
<1>2. CASE s.queue = <<>>
  BY <1>1, <1>2 DEF QueueLeft
<1>3. CASE s.queue # <<>>
  <2>1. PICK n, r : n = s.queue[1] /\ r = Append(s.result, n)
    OBVIOUS
  <2>2. 1 \in DOMAIN s.queue
    BY <1>1, <1>3
  <2>3. n \in Names(known) /\ In(s.queue, n)
    BY <1>1, <2>1, <2>2 DEF In
  <2>4. ~ In(s.result, n)
    BY <2>3 DEF QueueInv
  <2>5. r \in Seq(Names(known)) /\ Distinct(r) /\ Len(r) = Len(s.result) + 1
    <3>1. JoinsQueue(Names(known), s.result, n, r)
      BY <1>1, <2>1, <2>3, <2>4, Zenon DEF JoinsQueue
    <3> QED
      BY <3>1, AnotherJoins
  <2>6. Len(r) <= Len(known)
    BY <2>5, NamesFit
  <2>7. QueueLeft(known, s) = Len(known) - Len(s.result)
    BY <1>3 DEF QueueLeft
  <2> QED
    BY <1>1, <2>5, <2>6, <2>7
<1> QED
  BY <1>2, <1>3, <1>1

\* An empty queue with a name left over means a circle of names left over.
LEMMA QueueEnds ==
  ASSUME NEW known, NEW g, IsGraph(known, g), AllKnown(known, g), NEW s, QueueInv(known, g, s),
         s.queue = <<>>, ~ \E S : Circle(known, g, S)
  PROVE  s.result \in Seq(Plugin) /\ Search!IsOrder(s.result, known, g)
<1>1. s.result \in Seq(Names(known)) /\ Distinct(s.result)
  BY QueueIs DEF QueueInv
<1>2. \A m \in Names(known) : In(s.result, m)
  <2> DEFINE S == {m \in Names(known) : ~ In(s.result, m)}
  <2>1. ASSUME NEW m \in S PROVE \E d \in S : DependsOn(g, m, d)
    <3>1. m \in Names(known) /\ ~ In(s.result, m)
      OBVIOUS
    <3>2. ~ In(s.queue, m)
      BY DEF In
    <3>3. Waits(g, s.result, m) # {}
      BY <3>1, <3>2 DEF QueueInv
    <3>4. PICK i \in DOMAIN g[m] : ~ In(s.result, g[m][i])
      BY <3>3 DEF Waits
    <3>5. g[m][i] \in Names(known)
      BY <3>1, <3>4 DEF AllKnown
    <3>6. g[m][i] \in S /\ DependsOn(g, m, g[m][i])
      BY <3>4, <3>5 DEF DependsOn
    <3> QED
      BY <3>6
  <2>2. S \in SUBSET Names(known)
    OBVIOUS
  <2>3. S = {}
    <3> HIDE DEF S
    <3> QED
      BY <2>1, <2>2 DEF Circle
  <2> QED
    BY <2>3
<1>3. \A i \in DOMAIN s.result : s.result[i] \in Names(known)
  BY <1>1, PathIs
<1>4. {s.result[i] : i \in DOMAIN s.result} = Names(known)
  BY <1>2, <1>3 DEF In
<1>5. Len(s.result) = Len(known)
  <2>1. Cardinality({s.result[i] : i \in DOMAIN s.result}) = Len(s.result)
    BY <1>1, DistinctCounts DEF Distinct
  <2>2. Cardinality(Names(known)) = Len(known)
    BY DistinctCounts DEF IsGraph, Names
  <2> QED
    BY <1>4, <2>1, <2>2, Zenon
<1>6. Search!ToSet(s.result) = Search!ToSet(known)
  <2>1. Search!ToSet(known) = Names(known)
    BY GraphIs
  <2>2. Search!ToSet(s.result) = {s.result[i] : i \in DOMAIN s.result}
    BY Zenon DEF Search!ToSet
  <2> QED
    BY <1>4, <2>1, <2>2, Zenon
<1>7. ASSUME NEW i \in DOMAIN s.result, NEW d \in Search!ToSet(g[s.result[i]])
      PROVE  \E j \in 1..(i - 1) : s.result[j] = d
  <2>1. DependsOn(g, s.result[i], d)
    BY <1>3, <1>7, GraphIs
  <2> QED
    BY <2>1 DEF QueueInv
<1>8. s.result \in Seq(Plugin)
  BY <1>1, GraphIs
<1> QED
  BY <1>5, <1>6, <1>7, <1>8 DEF Search!IsOrder

\* Kahn's queue runs empty, and what it released is an order.
LEMMA OrderIsOrder ==
  ASSUME NEW known, NEW g, IsGraph(known, g), AllKnown(known, g), ~ \E S : Circle(known, g, S)
  PROVE  Search!Order(known, g) \in Seq(Plugin) /\ Search!IsOrder(Search!Order(known, g), known, g)
<1> DEFINE N == Len(known)
           Start == Search!QueueStarts(known, g)
           Sound == {s \in QueueState(known) : QueueInv(known, g, s)}
           Onward(s) == IF s.queue = <<>> THEN s ELSE Search!Release(known, g, s)
           step == [p \in (1..N) \X Sound |-> Onward(p[2])]
           Body(r) == [k \in 0..N |-> IF k = 0 THEN Start
                                      ELSE IF r[k - 1].queue = <<>> THEN r[k - 1]
                                      ELSE Search!Release(known, g, r[k - 1])]
           run == CHOOSE r : r = Body(r)
<1>1. N \in Nat /\ Start \in Sound
  <2>1. N \in Nat
    BY GraphIs
  <2>2. QueueInv(known, g, Start)
    BY QueueStartsSound
  <2> HIDE DEF Start
  <2>3. Start \in QueueState(known)
    BY <2>2 DEF QueueInv
  <2> QED
    BY <2>1, <2>2, <2>3
<1>2. ASSUME NEW s \in Sound PROVE Onward(s) \in Sound
  <2>1. CASE s.queue = <<>>
    BY <2>1
  <2>2. CASE s.queue # <<>>
    <3>1. PICK t : t = Search!Release(known, g, s)
      OBVIOUS
    <3>2. QueueInv(known, g, t)
      BY <2>2, <3>1, ReleaseKeeps, Zenon
    <3>3. t \in Sound
      BY <3>2 DEF QueueInv
    <3>4. Onward(s) = t
      BY <2>2, <3>1
    <3> QED
      BY <3>3, <3>4, Zenon
  <2> QED
    BY <2>1, <2>2
<1>3. \E r : r = Body(r)
  <2>1. step \in [(1..N) \X Sound -> Sound]
    <3> HIDE DEF Sound, Onward, N
    <3> QED
      BY <1>2
  <2>2. PICK r : RunsFor(r, Start, step, N) /\ \A k \in 0..N : r[k] \in Sound
    <3> HIDE DEF N, Start, Sound, step
    <3> QED
      BY <1>1, <2>1, LoopRuns
  <2>3. r = [k \in 0..N |-> IF k = 0 THEN Start ELSE step[<<k, r[k - 1]>>]]
    BY <2>2 DEF RunsFor
  <2>4. ASSUME NEW k \in 0..N, k # 0 PROVE step[<<k, r[k - 1]>>] = Onward(r[k - 1])
    <3> HIDE DEF N, Sound, Onward
    <3>1. k - 1 \in 0..N /\ k \in 1..N
      BY <1>1, <2>4
    <3>2. r[k - 1] \in Sound
      BY <2>2, <3>1
    <3> QED
      BY <3>1, <3>2
  <2>5. r = Body(r)
    <3> HIDE DEF N, Start, step
    <3> QED
      BY <2>3, <2>4
  <2> QED
    BY <2>5
<1>4. run = Body(run)
  <2> HIDE DEF Body
  <2> QED
    BY <1>3
<1>5. Search!Order(known, g) = run[N].result
  BY DEF Search!Order
<1> HIDE DEF run, N, Start
<1>6. run[0] = Start /\ \A k \in Nat : k < N => run[k + 1] = Onward(run[k])
  <2>1. run[0] = Start
    BY <1>1, <1>4
  <2>2. ASSUME NEW k \in Nat, k < N PROVE run[k + 1] = Onward(run[k])
    <3>1. k + 1 \in 0..N /\ k + 1 # 0 /\ (k + 1) - 1 = k
      BY <1>1, <2>2
    <3> QED
      BY <1>4, <3>1
  <2> QED
    BY <2>1, <2>2
<1>7. \A k \in 0..N : run[k] \in Sound
  <2> HIDE DEF Sound, Onward
  <2>1. \A k \in Nat : k < N /\ run[k] \in Sound => run[k + 1] \in Sound
    BY <1>2, <1>6
  <2> QED
    BY <1>1, <1>6, <2>1, RunStays
<1> DEFINE m == [k \in 0..N |-> QueueLeft(known, run[k])]
<1>8. (\A k \in 0..N : m[k] \in Nat) /\ m[0] <= N
  <2>1. \A k \in 0..N : m[k] \in Nat /\ m[k] <= N
    BY <1>7, QueueLeftIs DEF N
  <2>2. 0 \in 0..N
    BY <1>1
  <2> HIDE DEF m
  <2> QED
    BY <2>1, <2>2
<1>9. ASSUME NEW k \in Nat, k < N
      PROVE  (m[k] > 0 => m[k + 1] < m[k]) /\ (m[k] = 0 => m[k + 1] = 0)
  <2>1. k \in 0..N /\ k + 1 \in 0..N
    BY <1>1, <1>9
  <2>2. PICK s, t : s = run[k] /\ t = run[k + 1]
    OBVIOUS
  <2>3. QueueInv(known, g, s) /\ QueueInv(known, g, t) /\ t = Onward(s)
    BY <1>6, <1>7, <1>9, <2>1, <2>2
  <2>4. m[k] = QueueLeft(known, s) /\ m[k + 1] = QueueLeft(known, t)
    BY <2>1, <2>2
  <2> HIDE DEF m
  <2>5. CASE s.queue = <<>>
    <3>1. t = s /\ QueueLeft(known, s) = 0
      BY <2>3, <2>5 DEF QueueLeft
    <3> QED
      BY <2>4, <3>1
  <2>6. CASE s.queue # <<>>
    <3>1. Len(t.result) = Len(s.result) + 1
      BY <2>3, <2>6, ReleaseKeeps
    <3>2. /\ QueueLeft(known, s) = Len(known) - Len(s.result) /\ QueueLeft(known, s) > 0
          /\ Len(s.result) \in Nat /\ Len(known) \in Nat
      BY <2>3, <2>6, QueueLeftIs DEF QueueLeft
    <3>3. QueueLeft(known, t) = 0 \/ QueueLeft(known, t) = Len(known) - Len(t.result)
      BY DEF QueueLeft
    <3>4. QueueLeft(known, t) < QueueLeft(known, s)
      BY <3>1, <3>2, <3>3
    <3> QED
      BY <2>4, <3>2, <3>4
  <2> QED
    BY <2>5, <2>6
<1>10. m[N] = 0
  <2> HIDE DEF m
  <2>1. /\ \A k \in Nat : k < N /\ m[k] > 0 => m[k + 1] < m[k]
        /\ \A k \in Nat : k < N /\ m[k] = 0 => m[k + 1] = 0
    BY <1>9
  <2> QED
    BY <1>1, <1>8, <2>1, RunEnds
<1>11. PICK s : s = run[N]
  OBVIOUS
<1>12. QueueInv(known, g, s) /\ QueueLeft(known, s) = 0
  <2>1. N \in 0..N
    BY <1>1
  <2> QED
    BY <1>7, <1>10, <1>11, <2>1
<1>13. s.queue = <<>>
  BY <1>12, QueueLeftIs
<1>14. s.result \in Seq(Plugin) /\ Search!IsOrder(s.result, known, g)
  BY <1>12, <1>13, QueueEnds
<1> QED
  BY <1>5, <1>11, <1>14

-----------------------------------------------------------------------------
\* Of every graph the search finds a cycle exactly when there is one, and when
\* nothing throws resolveOrder() returns every plugin once, after all it depends
\* on; whatever the order of declaration, unknown names and duplicates included.
THEOREM SearchesAreRight ==
  ASSUME NEW known, NEW g, IsGraph(known, g)
  PROVE  /\ Search!DetectCycle(known, g) # <<>> <=> Search!Cyclic(known, g)
         /\ ~ Refuses(known, g) =>
              /\ ResolveOrder(known, g) \in Seq(Plugin)
              /\ Search!IsOrder(ResolveOrder(known, g), known, g)
<1>1. Search!DetectCycle(known, g) # <<>> <=> \E S : Circle(known, g, S)
  BY DetectCycleFinds
<1>2. Search!Cyclic(known, g) <=> \E S : Circle(known, g, S)
  BY CyclicIs
<1>3. ASSUME ~ Refuses(known, g)
      PROVE  /\ ResolveOrder(known, g) \in Seq(Plugin)
             /\ Search!IsOrder(ResolveOrder(known, g), known, g)
  <2>1. ~ Search!Missing(known, g) /\ Search!DetectCycle(known, g) = <<>>
    BY <1>3 DEF Refuses, Search!Refuses
  <2>2. ResolveOrder(known, g) = Search!Order(known, g)
    BY <1>3 DEF ResolveOrder, Search!ResolveOrder, Refuses
  <2>3. AllKnown(known, g)
    <3> SUFFICES ASSUME NEW n \in Names(known), NEW i \in DOMAIN g[n]
                 PROVE  g[n][i] \in Names(known)
      BY DEF AllKnown
    <3>1. Search!ToSet(g[n]) \subseteq Names(known)
      BY <2>1, GraphIs DEF Search!Missing
    <3>2. g[n][i] \in Search!ToSet(g[n])
      BY DEF Search!ToSet
    <3> QED
      BY <3>1, <3>2
  <2>4. ~ \E S : Circle(known, g, S)
    BY <1>1, <2>1
  <2> QED
    BY <2>2, <2>3, <2>4, OrderIsOrder
<1> QED
  BY <1>1, <1>2, <1>3

\* So the searches are right on every graph over a finite set of plugins, with
\* lists of any length, in whatever state they are used.
THEOREM InitialisationOrderHolds ==
  ASSUME IsFiniteSet(Plugin), MaxDeps \in Nat
  PROVE  SearchesRight /\ InitialisationOrder
<1> SUFFICES ASSUME NEW o \in Search!Insertions, NEW f \in [Search!ToSet(o) -> Search!DepLists],
                    NEW deps, deps = [p \in Plugin |-> IF p \in Search!ToSet(o) THEN f[p] ELSE <<>>]
             PROVE  /\ Search!DetectCycle(o, deps) # <<>> <=> Search!Cyclic(o, deps)
                    /\ ~ Refuses(o, deps) => Search!IsOrder(ResolveOrder(o, deps), o, deps)
  BY DEF InitialisationOrder, SearchesRight
<1>1. PICK S \in SUBSET Plugin : o \in Search!SetToSeqs(S)
  BY DEF Search!Insertions
<1>2. PICK D : D = 1..Search!Cardinality(S)
  OBVIOUS
<1>3. o \in [D -> S] /\ \A i, j \in D : i # j => o[i] # o[j]
  BY <1>1, <1>2 DEF Search!SetToSeqs
<1>4. Search!Cardinality(S) \in Nat
  <2>1. IsFiniteSet(S)
    BY FS_Subset
  <2> QED
    BY <2>1, FS_CardinalityType, GraphCardinality
<1>5. o \in Seq(Plugin) /\ DOMAIN o = D
  <2>1. PICK k \in Nat : k = Search!Cardinality(S)
    BY <1>4
  <2>2. o \in [1..k -> Plugin]
    BY <1>2, <1>3, <2>1
  <2> QED
    BY <1>3, <2>2
<1>6. deps \in [Plugin -> Seq(Plugin)]
  <2>1. \A d \in Search!DepLists : d \in Seq(Plugin)
    <3> SUFFICES ASSUME NEW n \in 0..MaxDeps, NEW d \in [1..n -> Plugin] PROVE d \in Seq(Plugin)
      BY DEF Search!DepLists
    <3>1. n \in Nat
      OBVIOUS
    <3> QED
      BY <3>1
  <2>2. <<>> \in Seq(Plugin) /\ \A p \in Search!ToSet(o) : f[p] \in Search!DepLists
    OBVIOUS
  <2>3. \A p \in Plugin : (IF p \in Search!ToSet(o) THEN f[p] ELSE <<>>) \in Seq(Plugin)
    BY <2>1, <2>2, Zenon
  <2> QED
    BY <2>3
<1>7. IsGraph(o, deps)
  BY <1>3, <1>5, <1>6 DEF IsGraph
<1> QED
  BY <1>7, SearchesAreRight

-----------------------------------------------------------------------------
(* The initialisation of plugins. *)

\* The graphs give every plugin a list of plugins, of whatever shape.
PluginAssumption == Plugins!None \notin Task /\ Graphs \subseteq [Plugin -> Seq(Plugin)]

Statuses == {"unknown", "pending", "initializing", "initialized"}

TaskRecord ==
  [runs : {"nothing", "init", "final"}, plugin : Plugin \cup {Plugins!None},
   at : {"free", "before", "apply", "after", "loop", "failed"}, hooked : BOOLEAN,
   todo : SUBSET Nat, parent : Task \cup {Plugins!None}]

\* A task awaits at most one other, and only in its loop.
Tree(ts) ==
  /\ ts \in [Task -> TaskRecord]
  /\ \A u \in Task : ts[u].runs = "nothing" \/ ts[u].at = "free" => ts[u] = Plugins!Free
  /\ \A u \in Task : ts[u].runs = "init" => ts[u].plugin \in Plugin
  /\ \A u \in Task : ts[u].runs = "final" =>
       ts[u].at \in {"loop", "failed"} /\ ts[u].parent = Plugins!None
  /\ \A u, t \in Task : ts[u].parent = t => ts[t].at = "loop"
  /\ \A u, v, t \in Task : ts[u].parent = t /\ ts[v].parent = t => u = v

\* With done the plugins whose apply() has returned and need what each depends on:
\* an init runs, and goes on to start, plugins whose dependencies are applied;
InitSound(r, need, done, nd) ==
  r.runs = "init" =>
    /\ need[r.plugin] \subseteq done
    /\ r.at \in {"after", "loop"} => r.plugin \in done
    /\ r.at = "loop" => \A i \in r.todo : i \in DOMAIN nd /\ need[nd[i]] \subseteq done

\* The plugins that are applied when what a task awaits is done.
Settled(ts, done, t) == done \cup {ts[u].plugin : u \in {v \in Task : ts[v].parent = t}}

\* Whatever initPlugins() was asked for, and whatever what is left of its list
\* depends on, is settled or comes earlier in what is left.
Ordered(todo, settled, need, od, as) ==
  /\ todo \subseteq DOMAIN od
  /\ \A i \in todo : \A d \in need[od[i]] :
       d \in settled \/ \E j \in todo : j < i /\ od[j] = d
  /\ \A p \in as : p \in settled \/ \E j \in todo : od[j] = p

FinalSound(r, settled, need, od, as) ==
  r.runs = "final" /\ r.at = "loop" => Ordered(r.todo, settled, need, od, as)

TasksSound(ts, need, done, nd, od, as) ==
  \A t \in Task : /\ InitSound(ts[t], need, done, nd)
                  /\ FinalSound(ts[t], Settled(ts, done, t), need, od, as)

Loop(r, rest) == [[r EXCEPT !.at = "loop"] EXCEPT !.todo = rest]

\* A call plugin() starts: it has no hooks yet and nobody awaits it.
Alone(p) ==
  [runs |-> "init", plugin |-> p, at |-> "apply", hooked |-> FALSE, todo |-> {},
   parent |-> Plugins!None]

\* What stays of a task as long as it runs.
SameCall(r, q) == r.runs = q.runs /\ r.plugin = q.plugin /\ r.parent = q.parent

\* What is sound of initPlugins() stays so as more plugins are applied.
LEMMA MoreSettled ==
  ASSUME NEW r, NEW few, NEW many, few \subseteq many, NEW need, NEW od, NEW as,
         FinalSound(r, few, need, od, as)
  PROVE  FinalSound(r, many, need, od, as)
<1>1. ASSUME NEW todo, Ordered(todo, few, need, od, as)
      PROVE  Ordered(todo, many, need, od, as)
  BY <1>1 DEF Ordered
<1> QED
  BY <1>1 DEF FinalSound

\* A function updated at one place.
LEMMA OneUpdate ==
  ASSUME NEW S, NEW T, NEW f \in [T -> S], NEW t \in T, NEW a \in S,
         NEW new, new = [f EXCEPT ![t] = a]
  PROVE  new \in [T -> S] /\ new[t] = a /\ \A u \in T \ {t} : new[u] = f[u]
OBVIOUS

\* A task that goes on with its loop is still of the same call.
LEMMA LoopRecord ==
  ASSUME NEW r \in TaskRecord, NEW rest \in SUBSET Nat
  PROVE  /\ Loop(r, rest) \in TaskRecord /\ SameCall(Loop(r, rest), r)
         /\ Loop(r, rest).todo = rest /\ Loop(r, rest).at = "loop"
<1> DEFINE r1 == [r EXCEPT !.at = "loop"]
<1>1. r1 \in TaskRecord /\ r1.at = "loop" /\ SameCall(r1, r)
  BY DEF TaskRecord, SameCall
<1>2. Loop(r, rest) = [r1 EXCEPT !.todo = rest]
  BY DEF Loop
<1> HIDE DEF r1
<1> QED
  BY <1>1, <1>2 DEF TaskRecord, SameCall

\* A running task goes on; one that is awaited by itself stays in its loop.
LEMMA TreeChanges ==
  ASSUME Plugins!None \notin Task, NEW ts, Tree(ts), NEW t \in Task, NEW r \in TaskRecord,
         SameCall(r, ts[t]), r.runs # "nothing", r.at # "free",
         r.at \notin {"loop", "failed"} => r.runs # "final",
         r.at = "loop" \/ \A u \in Task : ts[u].parent # t,
         NEW new, new = [ts EXCEPT ![t] = r]
  PROVE  Tree(new)
<1>1. ts \in [Task -> TaskRecord]
  BY DEF Tree
<1>2. new \in [Task -> TaskRecord] /\ new[t] = r /\ \A u \in Task \ {t} : new[u] = ts[u]
  BY <1>1, OneUpdate
<1>3. \A u \in Task : SameCall(new[u], ts[u])
  BY <1>2 DEF SameCall
<1>4. \A u \in Task : new[u].runs = "nothing" \/ new[u].at = "free" => new[u] = Plugins!Free
  BY <1>2 DEF Tree
<1>5. \A u \in Task : new[u].runs = "init" => new[u].plugin \in Plugin
  BY <1>3 DEF Tree, SameCall
<1>6. \A u \in Task : new[u].runs = "final" =>
        new[u].at \in {"loop", "failed"} /\ new[u].parent = Plugins!None
  <2> SUFFICES ASSUME NEW u \in Task, new[u].runs = "final"
               PROVE  new[u].at \in {"loop", "failed"} /\ new[u].parent = Plugins!None
    OBVIOUS
  <2>1. ts[u].runs = "final" /\ ts[u].parent = new[u].parent
    BY <1>3 DEF SameCall
  <2>2. ts[u].at \in {"loop", "failed"} /\ ts[u].parent = Plugins!None
    BY <2>1 DEF Tree
  <2>3. CASE u = t
    BY <1>2, <2>1, <2>2, <2>3
  <2>4. CASE u # t
    BY <1>2, <2>2, <2>4
  <2> QED
    BY <2>3, <2>4
<1>7. ASSUME NEW u \in Task, NEW v \in Task, new[u].parent = v PROVE new[v].at = "loop"
  <2>1. ts[u].parent = v /\ ts[v].at = "loop"
    BY <1>3, <1>7 DEF SameCall, Tree
  <2> QED
    BY <1>2, <2>1
<1>8. \A u, v, x \in Task : new[u].parent = x /\ new[v].parent = x => u = v
  BY <1>3 DEF SameCall, Tree
<1> QED
  BY <1>2, <1>4, <1>5, <1>6, <1>7, <1>8 DEF Tree

\* Tasks are sound when all but one are and the one that changes is.
LEMMA SoundChanges ==
  ASSUME NEW need, NEW done, NEW nd, NEW od, NEW as,
         NEW ts \in [Task -> TaskRecord], NEW t \in Task, NEW r \in TaskRecord,
         SameCall(r, ts[t]), NEW new, new = [ts EXCEPT ![t] = r],
         \A u \in Task \ {t} : InitSound(ts[u], need, done, nd)
                               /\ FinalSound(ts[u], Settled(ts, done, u), need, od, as),
         InitSound(r, need, done, nd),
         FinalSound(new[t], Settled(new, done, t), need, od, as)
  PROVE  TasksSound(new, need, done, nd, od, as)
<1>1. new \in [Task -> TaskRecord] /\ new[t] = r /\ \A u \in Task \ {t} : new[u] = ts[u]
  BY OneUpdate
<1>2. \A u \in Task : SameCall(new[u], ts[u])
  BY <1>1 DEF SameCall
<1>3. \A u \in Task : Settled(new, done, u) = Settled(ts, done, u)
  BY <1>2 DEF Settled, SameCall
<1>4. ASSUME NEW u \in Task \ {t} PROVE FinalSound(new[u], Settled(new, done, u), need, od, as)
  <2>1. new[u] = ts[u] /\ FinalSound(ts[u], Settled(ts, done, u), need, od, as)
    BY <1>1
  <2> QED
    BY <1>3, <2>1
<1> QED
  BY <1>1, <1>4 DEF TasksSound

\* A call takes a free task, started on its own or by one that awaits nothing.
TreeOfChild(ts, child) ==
  /\ child \in TaskRecord /\ child.runs = "init" /\ child.plugin \in Plugin
  /\ child.at \in {"before", "apply"}
  /\ \/ child.parent = Plugins!None
     \/ /\ child.parent \in Task /\ ts[child.parent].at = "loop"
        /\ \A u \in Task : ts[u].parent # child.parent

\* The same, or the one call of initPlugins() that has a list to go through.
MayJoin(ts, child) ==
  \/ TreeOfChild(ts, child)
  \/ /\ child \in TaskRecord /\ child.runs = "final" /\ child.at = "loop"
     /\ child.parent = Plugins!None

\* A task that joins a free one leaves each awaited by one at most.
LEMMA TreeGrows ==
  ASSUME Plugins!None \notin Task, NEW ts, Tree(ts), NEW w \in Task, ts[w] = Plugins!Free,
         NEW child, MayJoin(ts, child), NEW new, new = [ts EXCEPT ![w] = child]
  PROVE  Tree(new)
<1>1. ts \in [Task -> TaskRecord] /\ child \in TaskRecord
  BY DEF Tree, TreeOfChild, MayJoin
<1>2. new \in [Task -> TaskRecord] /\ new[w] = child /\ \A u \in Task \ {w} : new[u] = ts[u]
  BY <1>1, OneUpdate
<1>3. ts[w].at = "free" /\ ts[w].parent = Plugins!None
  BY DEF Plugins!Free
<1>4. \A u \in Task : new[u].runs = "nothing" \/ new[u].at = "free" => new[u] = Plugins!Free
  BY <1>2 DEF Tree, TreeOfChild, MayJoin
<1>5. \A u \in Task : new[u].runs = "init" => new[u].plugin \in Plugin
  BY <1>2 DEF Tree, TreeOfChild, MayJoin
<1>6. \A u \in Task : new[u].runs = "final" =>
        new[u].at \in {"loop", "failed"} /\ new[u].parent = Plugins!None
  BY <1>2 DEF Tree, TreeOfChild, MayJoin
<1>7. ASSUME NEW u \in Task, NEW v \in Task, new[u].parent = v PROVE new[v].at = "loop"
  <2>1. ts[v].at = "loop"
    <3>1. CASE u = w
      BY <1>2, <1>7, <3>1 DEF TreeOfChild, MayJoin
    <3>2. CASE u # w
      BY <1>2, <1>7, <3>2 DEF Tree
    <3> QED
      BY <3>1, <3>2
  <2> QED
    BY <1>2, <1>3, <2>1
<1>8. ASSUME NEW u \in Task, NEW v \in Task, NEW x \in Task,
             new[u].parent = x, new[v].parent = x, u # v
      PROVE  FALSE
  <2>1. CASE u = w
    BY <1>2, <1>8, <2>1 DEF TreeOfChild, MayJoin
  <2>2. CASE v = w
    BY <1>2, <1>8, <2>2 DEF TreeOfChild, MayJoin
  <2>3. CASE u # w /\ v # w
    BY <1>2, <1>8, <2>3 DEF Tree
  <2> QED
    BY <2>1, <2>2, <2>3
<1> QED
  BY <1>2, <1>4, <1>5, <1>6, <1>7, <1>8 DEF Tree

\* A new task for a plugin whose dependencies are applied keeps all sound.
LEMMA SoundGrows ==
  ASSUME Plugins!None \notin Task, NEW need, NEW done, NEW nd, NEW od, NEW as, NEW ts, Tree(ts),
         TasksSound(ts, need, done, nd, od, as), NEW w \in Task, ts[w] = Plugins!Free,
         NEW child, TreeOfChild(ts, child), need[child.plugin] \subseteq done,
         NEW new, new = [ts EXCEPT ![w] = child]
  PROVE  TasksSound(new, need, done, nd, od, as)
<1>1. ts \in [Task -> TaskRecord] /\ child \in TaskRecord
  BY DEF Tree, TreeOfChild
<1>2. new \in [Task -> TaskRecord] /\ new[w] = child /\ \A u \in Task \ {w} : new[u] = ts[u]
  BY <1>1, OneUpdate
<1>3. InitSound(child, need, done, nd)
  BY DEF InitSound, TreeOfChild
<1>4. \A u \in Task : Settled(ts, done, u) \subseteq Settled(new, done, u)
  <2>1. ts[w].parent \notin Task
    BY DEF Plugins!Free
  <2> QED
    BY <1>2, <2>1 DEF Settled
<1>5. ASSUME NEW u \in Task PROVE FinalSound(new[u], Settled(new, done, u), need, od, as)
  <2>1. CASE u = w
    BY <1>2, <2>1 DEF FinalSound, TreeOfChild
  <2>2. CASE u # w
    <3>1. new[u] = ts[u] /\ FinalSound(ts[u], Settled(ts, done, u), need, od, as)
      BY <1>2, <2>2 DEF TasksSound
    <3> QED
      BY <1>4, <3>1, MoreSettled
  <2> QED
    BY <2>1, <2>2
<1>6. ASSUME NEW u \in Task PROVE InitSound(new[u], need, done, nd)
  BY <1>2, <1>3 DEF TasksSound
<1> QED
  BY <1>5, <1>6 DEF TasksSound

\* A task that awaits nothing ends: only the one that awaited it is concerned.
LEMMA TreeFrees ==
  ASSUME Plugins!None \notin Task, NEW ts, Tree(ts), NEW t \in Task,
         \A u \in Task : ts[u].parent # t,
         NEW new, new = [ts EXCEPT ![t] = Plugins!Free]
  PROVE  Tree(new)
<1>1. ts \in [Task -> TaskRecord] /\ Plugins!Free \in TaskRecord
  BY DEF Tree, Plugins!Free, TaskRecord
<1>2. new \in [Task -> TaskRecord] /\ new[t] = Plugins!Free
      /\ \A u \in Task \ {t} : new[u] = ts[u]
  BY <1>1, OneUpdate
<1>3. /\ Plugins!Free.parent = Plugins!None /\ Plugins!Free.runs = "nothing"
      /\ Plugins!Free.at = "free"
  BY DEF Plugins!Free
<1>4. \A u \in Task : new[u].parent \in Task => u # t /\ new[u] = ts[u]
  BY <1>2, <1>3
<1>5. \A u \in Task : new[u].runs = "nothing" \/ new[u].at = "free" => new[u] = Plugins!Free
  BY <1>2 DEF Tree
<1>6. \A u \in Task : new[u].runs = "init" => new[u].plugin \in Plugin
  BY <1>2, <1>3 DEF Tree
<1>7. \A u \in Task : new[u].runs = "final" =>
        new[u].at \in {"loop", "failed"} /\ new[u].parent = Plugins!None
  BY <1>2, <1>3 DEF Tree
<1>8. ASSUME NEW u \in Task, NEW v \in Task, new[u].parent = v PROVE new[v].at = "loop"
  BY <1>2, <1>4, <1>8 DEF Tree
<1>9. \A u, v, x \in Task : new[u].parent = x /\ new[v].parent = x => u = v
  BY <1>4 DEF Tree
<1> QED
  BY <1>2, <1>5, <1>6, <1>7, <1>8, <1>9 DEF Tree

\* A task that ends keeps the others sound when its plugin is applied.
LEMMA SoundFrees ==
  ASSUME Plugins!None \notin Task, NEW need, NEW done, NEW nd, NEW od, NEW as, NEW ts, Tree(ts),
         TasksSound(ts, need, done, nd, od, as), NEW t \in Task,
         NEW new, new = [ts EXCEPT ![t] = Plugins!Free]
  PROVE  \A u \in Task : /\ InitSound(new[u], need, done, nd)
                         /\ ts[t].parent # u \/ ts[t].plugin \in done
                            => FinalSound(new[u], Settled(new, done, u), need, od, as)
<1>1. ts \in [Task -> TaskRecord] /\ Plugins!Free \in TaskRecord
  BY DEF Tree, Plugins!Free, TaskRecord
<1>2. new \in [Task -> TaskRecord] /\ new[t] = Plugins!Free
      /\ \A u \in Task \ {t} : new[u] = ts[u]
  BY <1>1, OneUpdate
<1>3. Plugins!Free.runs = "nothing"
  BY DEF Plugins!Free
<1>4. ASSUME NEW u \in Task PROVE InitSound(new[u], need, done, nd)
  BY <1>2, <1>3 DEF TasksSound, InitSound
<1>5. ASSUME NEW u \in Task, ts[t].parent # u \/ ts[t].plugin \in done
      PROVE  FinalSound(new[u], Settled(new, done, u), need, od, as)
  <2>1. Settled(ts, done, u) \subseteq Settled(new, done, u)
    BY <1>2, <1>5 DEF Settled
  <2>2. CASE u = t
    BY <1>2, <1>3, <2>2 DEF FinalSound
  <2>3. CASE u # t
    <3>1. new[u] = ts[u] /\ FinalSound(ts[u], Settled(ts, done, u), need, od, as)
      BY <1>2, <2>3 DEF TasksSound
    <3> QED
      BY <2>1, <3>1, MoreSettled
  <2> QED
    BY <2>2, <2>3
<1> QED
  BY <1>4, <1>5

\* What a loop skips is applied, so what is left of its list stays in order.
LEMMA OrderedRest ==
  ASSUME NEW todo, NEW rest, rest \subseteq todo, NEW settled, NEW need, NEW od, NEW as,
         Ordered(todo, settled, need, od, as),
         \A j \in todo : od[j] \in settled \/ j \in rest
  PROVE  Ordered(rest, settled, need, od, as)
<1>1. rest \subseteq DOMAIN od
  BY DEF Ordered
<1>2. ASSUME NEW i \in rest, NEW d \in need[od[i]], d \notin settled
      PROVE  \E j \in rest : j < i /\ od[j] = d
  <2>1. PICK j \in todo : j < i /\ od[j] = d
    BY <1>2 DEF Ordered
  <2> QED
    BY <1>2, <2>1
<1>3. \A p \in as : p \in settled \/ \E j \in rest : od[j] = p
  BY DEF Ordered
<1> QED
  BY <1>1, <1>2, <1>3 DEF Ordered

\* Passing plugins that are settled keeps the loop of initPlugins() sound.
LEMMA SkipKeepsFinal ==
  ASSUME NEW r \in TaskRecord, r.at = "loop", NEW settled, NEW need, NEW od, NEW as,
         FinalSound(r, settled, need, od, as), NEW rest \in SUBSET r.todo,
         r.runs = "final" => \A j \in r.todo \ rest : od[j] \in settled
  PROVE  FinalSound(Loop(r, rest), settled, need, od, as)
<1>1. rest \in SUBSET Nat
  BY DEF TaskRecord
<1>2. Loop(r, rest).todo = rest /\ Loop(r, rest).runs = r.runs
  BY <1>1, LoopRecord DEF SameCall
<1>3. ASSUME r.runs = "final" PROVE Ordered(rest, settled, need, od, as)
  <2>1. Ordered(r.todo, settled, need, od, as)
    BY <1>3 DEF FinalSound
  <2>2. \A j \in r.todo : od[j] \in settled \/ j \in rest
    BY <1>3
  <2> QED
    BY <2>1, <2>2, OrderedRest
<1> QED
  BY <1>2, <1>3 DEF FinalSound

\* Passing plugins keeps the loop of a flush sound.
LEMMA SkipKeepsInit ==
  ASSUME NEW r \in TaskRecord, r.at = "loop", NEW need, NEW done, NEW nd,
         InitSound(r, need, done, nd), NEW rest \in SUBSET r.todo
  PROVE  InitSound(Loop(r, rest), need, done, nd)
<1>1. rest \in SUBSET Nat
  BY DEF TaskRecord
<1>2. /\ Loop(r, rest).todo = rest /\ Loop(r, rest).runs = r.runs
      /\ Loop(r, rest).plugin = r.plugin
  BY <1>1, LoopRecord DEF SameCall
<1> QED
  BY <1>2 DEF InitSound

\* The first plugin a loop does not skip may start.
LEMMA FirstMayStart ==
  ASSUME NEW r \in TaskRecord, r.runs # "nothing", r.at = "loop", NEW need, NEW done, NEW nd,
         NEW od, NEW as, InitSound(r, need, done, nd), FinalSound(r, done, need, od, as),
         NEW i \in r.todo, r.runs = "final" => \A j \in r.todo : j < i => od[j] \in done
  PROVE  need[IF r.runs = "final" THEN od[i] ELSE nd[i]] \subseteq done
<1>1. CASE r.runs = "final"
  <2>1. \A d \in need[od[i]] : d \in done \/ \E j \in r.todo : j < i /\ od[j] = d
    BY <1>1 DEF FinalSound, Ordered
  <2> QED
    BY <1>1, <2>1
<1>2. CASE r.runs = "init"
  BY <1>2 DEF InitSound
<1> QED
  BY <1>1, <1>2 DEF TaskRecord

\* Task t has the positions in rest of its list left, once w runs a call.
ListLeft(ts, t, rest) == [ts EXCEPT ![t] = Loop(ts[t], rest)]
ListLeftWith(ts, t, rest, w, child) ==
  [[ts EXCEPT ![w] = child] EXCEPT ![t] = Loop(ts[t], rest)]

\* Setting what a task has left twice is setting it once.
LEMMA LoopTwice ==
  ASSUME NEW r \in TaskRecord, NEW left, NEW rest
  PROVE  Loop(Loop(r, left), rest) = Loop(r, rest)
BY DEF Loop, TaskRecord

\* What a step of GoOn does to the tasks whose lists are sound.
LEMMA NothingToStart ==
  ASSUME Plugins!None \notin Task, NEW need, NEW done, NEW nd, NEW od, NEW as,
         NEW lp, Tree(lp), TasksSound(lp, need, done, nd, od, as),
         NEW t \in Task, lp[t].at = "loop", lp[t].runs # "nothing",
         \A i \in lp[t].todo : lp[t].runs = "final" /\ od[i] \in done,
         NEW new, new = ListLeft(lp, t, {})
  PROVE  Tree(new) /\ TasksSound(new, need, done, nd, od, as)
<1> DEFINE r == Loop(lp[t], {})
<1>1. lp \in [Task -> TaskRecord] /\ lp[t] \in TaskRecord
  BY DEF Tree
<1>2. r \in TaskRecord /\ SameCall(r, lp[t]) /\ r.at = "loop"
  BY <1>1, LoopRecord
<1>3. InitSound(lp[t], need, done, nd) /\ FinalSound(lp[t], Settled(lp, done, t), need, od, as)
  BY DEF TasksSound
<1>4. InitSound(r, need, done, nd)
  BY <1>1, <1>3, SkipKeepsInit
<1>5. \A j \in lp[t].todo \ {} : od[j] \in Settled(lp, done, t)
  BY DEF Settled
<1>6. FinalSound(r, Settled(lp, done, t), need, od, as)
  BY <1>1, <1>3, <1>5, SkipKeepsFinal
<1> HIDE DEF r
<1>7. new = [lp EXCEPT ![t] = r]
  BY DEF r, ListLeft
<1>8. Tree(new)
  BY <1>2, <1>7, TreeChanges DEF SameCall
<1>9. new[t] = r /\ Settled(new, done, t) = Settled(lp, done, t)
  <2>1. new[t] = r /\ \A u \in Task \ {t} : new[u] = lp[u]
    BY <1>1, <1>2, <1>7, OneUpdate
  <2> QED
    BY <1>2, <2>1 DEF Settled, SameCall
<1>10. \A u \in Task \ {t} : InitSound(lp[u], need, done, nd)
                             /\ FinalSound(lp[u], Settled(lp, done, u), need, od, as)
  BY DEF TasksSound
<1> QED
  BY <1>1, <1>2, <1>4, <1>6, <1>7, <1>8, <1>9, <1>10, SoundChanges

\* Task t starts child, on a free task w, for the first plugin of its list that
\* is not skipped, the one at i; rest follows it.
Starts(lp, t, i, rest, w, child, done, nd, od) ==
  /\ t \in Task /\ lp[t].at = "loop" /\ lp[t].runs # "nothing"
  /\ \A u \in Task : lp[u].parent # t
  /\ i \in lp[t].todo /\ rest \subseteq lp[t].todo
  /\ \A j \in lp[t].todo : j < i \/ j = i \/ j \in rest
  /\ lp[t].runs = "final" => \A j \in lp[t].todo : j < i => od[j] \in done
  /\ w \in Task /\ lp[w] = Plugins!Free
  /\ TreeOfChild(lp, child) /\ child.parent = t
  /\ child.plugin = (IF lp[t].runs = "final" THEN od[i] ELSE nd[i])

\* A loop that starts a plugin and awaits it keeps all sound.
LEMMA OneStarts ==
  ASSUME Plugins!None \notin Task, NEW need, NEW done, NEW nd, NEW od, NEW as,
         NEW lp, Tree(lp), TasksSound(lp, need, done, nd, od, as),
         NEW t, NEW i, NEW rest, NEW w, NEW child, Starts(lp, t, i, rest, w, child, done, nd, od)
  PROVE  /\ Tree(ListLeftWith(lp, t, rest, w, child))
         /\ TasksSound(ListLeftWith(lp, t, rest, w, child), need, done, nd, od, as)
         /\ need[child.plugin] \subseteq done
<1>a. /\ t \in Task /\ lp[t].at = "loop" /\ lp[t].runs # "nothing"
      /\ \A u \in Task : lp[u].parent # t
      /\ w \in Task /\ lp[w] = Plugins!Free
  BY DEF Starts
<1> USE <1>a
<1>b. PICK p \in Plugin : p = child.plugin
  BY DEF Starts, TreeOfChild
<1>c. PICK new : new = ListLeftWith(lp, t, rest, w, child)
  OBVIOUS
<1> DEFINE g == [lp EXCEPT ![w] = child]
           r == Loop(lp[t], rest)
<1>0. /\ i \in lp[t].todo /\ p = (IF lp[t].runs = "final" THEN od[i] ELSE nd[i])
      /\ rest \in SUBSET lp[t].todo /\ \A j \in lp[t].todo : j < i \/ j = i \/ j \in rest
      /\ lp[t].runs = "final" => \A j \in lp[t].todo : j < i => od[j] \in done
  BY <1>b DEF Starts
<1>1. lp \in [Task -> TaskRecord] /\ lp[t] \in TaskRecord
  BY DEF Tree
<1>2. r \in TaskRecord /\ SameCall(r, lp[t]) /\ r.at = "loop"
  <2>1. rest \in SUBSET Nat
    BY <1>0, <1>1 DEF TaskRecord
  <2> QED
    BY <1>1, <2>1, LoopRecord
<1>3. InitSound(lp[t], need, done, nd) /\ FinalSound(lp[t], Settled(lp, done, t), need, od, as)
  BY DEF TasksSound
<1>4. Settled(lp, done, t) = done
  BY DEF Settled
<1>5. need[p] \subseteq done
  <2>1. FinalSound(lp[t], done, need, od, as)
    BY <1>3, <1>4
  <2>2. need[IF lp[t].runs = "final" THEN od[i] ELSE nd[i]] \subseteq done
    BY <1>0, <1>1, <1>3, <2>1, FirstMayStart
  <2> QED
    BY <1>0, <2>2
<1>6. TreeOfChild(lp, child) /\ child.plugin = p /\ child.parent = t
  BY <1>b DEF Starts
<1>7. InitSound(r, need, done, nd)
  BY <1>0, <1>1, <1>3, SkipKeepsInit
<1>8. w # t
  BY DEF Plugins!Free
<1> HIDE DEF r
<1>9. Tree(g)
  BY <1>6, TreeGrows DEF MayJoin
<1>10. TasksSound(g, need, done, nd, od, as)
  BY <1>5, <1>6, SoundGrows
<1>11. /\ g \in [Task -> TaskRecord] /\ g[w] = child /\ \A u \in Task \ {w} : g[u] = lp[u]
  BY <1>1, <1>6, OneUpdate DEF TreeOfChild
<1>12. g[t] = lp[t]
  BY <1>8, <1>11
<1> HIDE DEF g
<1>13. new = [g EXCEPT ![t] = r]
  BY <1>c DEF g, r, ListLeftWith
<1>14. Tree(new)
  <2>1. SameCall(r, g[t]) /\ r.runs # "nothing" /\ r.at = "loop" /\ r \in TaskRecord
    BY <1>2, <1>12 DEF SameCall
  <2> QED
    BY <1>9, <1>13, <2>1, TreeChanges
<1>15. new \in [Task -> TaskRecord] /\ new[t] = r /\ new[w] = child
  BY <1>2, <1>8, <1>11, <1>13, OneUpdate
<1>16. done \subseteq Settled(new, done, t) /\ p \in Settled(new, done, t)
  BY <1>6, <1>15 DEF Settled
<1>17. FinalSound(lp[t], Settled(new, done, t), need, od, as)
  BY <1>3, <1>4, <1>16, MoreSettled
<1>18. lp[t].runs = "final" => \A j \in lp[t].todo \ rest : od[j] \in Settled(new, done, t)
  <2> SUFFICES ASSUME lp[t].runs = "final", NEW j \in lp[t].todo \ rest
               PROVE  od[j] \in Settled(new, done, t)
    OBVIOUS
  <2>1. CASE j < i
    BY <1>0, <1>16, <2>1
  <2>2. CASE j = i
    BY <1>0, <1>16, <2>2
  <2> QED
    BY <1>0, <2>1, <2>2
<1>19. FinalSound(r, Settled(new, done, t), need, od, as)
  BY <1>0, <1>1, <1>17, <1>18, SkipKeepsFinal DEF r
<1>20. \A u \in Task \ {t} : InitSound(g[u], need, done, nd)
                             /\ FinalSound(g[u], Settled(g, done, u), need, od, as)
  BY <1>10 DEF TasksSound
<1>21. SameCall(r, g[t]) /\ FinalSound(new[t], Settled(new, done, t), need, od, as)
  BY <1>2, <1>12, <1>15, <1>19
<1>22. TasksSound(new, need, done, nd, od, as)
  BY <1>2, <1>7, <1>11, <1>13, <1>20, <1>21, SoundChanges
<1> QED
  BY <1>b, <1>c, <1>5, <1>14, <1>22

\* What was started had its dependencies applied; what is initialised is applied.
StartsSound(st, ap, need, done) ==
  \A p \in Plugin : /\ st[p] = "initialized" => p \in done
                    /\ ap[p] > 0 => need[p] \subseteq done

Started(st, p) == [st EXCEPT ![p] = "initializing"]
Counted(ap, p) == [ap EXCEPT ![p] = @ + 1]

\* The status and the count of a plugin whose dependencies are applied may change.
LEMMA StartKeeps ==
  ASSUME NEW need, NEW done, NEW st, NEW ap, st \in [Plugin -> Statuses], ap \in [Plugin -> Nat],
         StartsSound(st, ap, need, done), NEW p \in Plugin, need[p] \subseteq done
  PROVE  /\ Started(st, p) \in [Plugin -> Statuses] /\ Counted(ap, p) \in [Plugin -> Nat]
         /\ StartsSound(Started(st, p), ap, need, done)
         /\ StartsSound(Started(st, p), Counted(ap, p), need, done)
         /\ StartsSound(st, Counted(ap, p), need, done)
<1>1. /\ Started(st, p) \in [Plugin -> Statuses]
      /\ \A q \in Plugin : Started(st, p)[q] = "initialized" => q \in done
  BY DEF StartsSound, Statuses, Started
<1>2. Counted(ap, p) \in [Plugin -> Nat] /\ \A q \in Plugin \ {p} : Counted(ap, p)[q] = ap[q]
  BY DEF Counted
<1>3. \A q \in Plugin : Counted(ap, p)[q] > 0 => need[q] \subseteq done
  BY <1>2 DEF StartsSound
<1> QED
  BY <1>1, <1>2, <1>3 DEF StartsSound

\* Plugins!GoOn as a relation of values: task t of ts goes on with the positions
\* in left of list, and ts2, st2 and ap2 follow ts, st and ap.
Child(t, p) ==
  [runs |-> "init", plugin |-> p, at |-> IF p \in Hooked THEN "before" ELSE "apply",
   hooked |-> p \in Hooked, todo |-> {}, parent |-> t]

Passes(r, now, p) == r.runs = "final" /\ now[p] = "initialized"

GoesOn(ts, st, now, ap, t, list, left, ts2, st2, ap2) ==
  \/ /\ \A i \in left : Passes(ts[t], now, list[i])
     /\ ts2 = ListLeft(ts, t, {}) /\ st2 = st /\ ap2 = ap
  \/ \E i \in left, w \in Task :
       LET lr == ListLeft(ts, t, {j \in left : j > i})
       IN /\ \A j \in left : j < i => Passes(ts[t], now, list[j])
          /\ lr[w] = Plugins!Free /\ ts2 = [lr EXCEPT ![w] = Child(t, list[i])]
          /\ st2 = Started(st, list[i])
          /\ ap2 = ap \/ ap2 = Counted(ap, list[i])

\* Task t, which awaits nothing, has the positions in left of its list left.
GoesThrough(ts, t, list, left, now, done, nd, od) ==
  /\ ts \in [Task -> TaskRecord] /\ t \in Task /\ left \subseteq Nat
  /\ ts[t].runs # "nothing" /\ \A u \in Task : ts[u].parent # t
  /\ list = (IF ts[t].runs = "final" THEN od ELSE nd)
  /\ \A i \in left : list[i] \in Plugin
  /\ \A p \in Plugin : now[p] = "initialized" => p \in done

\* A step that goes through a list whose rest is sound keeps the tasks sound,
\* and starts a plugin only when what it depends on is applied.
LEMMA GoOnKeeps ==
  ASSUME Plugins!None \notin Task, NEW need, NEW done, NEW nd, NEW od, NEW as,
         NEW ts, NEW st, NEW now, NEW ap, NEW t, NEW list, NEW left, NEW ts2, NEW st2, NEW ap2,
         GoesThrough(ts, t, list, left, now, done, nd, od),
         Tree(ListLeft(ts, t, left)),
         TasksSound(ListLeft(ts, t, left), need, done, nd, od, as),
         st \in [Plugin -> Statuses], ap \in [Plugin -> Nat], StartsSound(st, ap, need, done),
         GoesOn(ts, st, now, ap, t, list, left, ts2, st2, ap2)
  PROVE  /\ Tree(ts2) /\ TasksSound(ts2, need, done, nd, od, as)
         /\ \A u \in Task : ts2[u].runs = "final" => ts[u].runs = "final"
         /\ st2 \in [Plugin -> Statuses] /\ ap2 \in [Plugin -> Nat]
         /\ StartsSound(st2, ap2, need, done)
<1> ts \in [Task -> TaskRecord] /\ t \in Task /\ left \in SUBSET Nat
  BY DEF GoesThrough
<1>b. /\ ts[t].runs # "nothing" /\ \A u \in Task : ts[u].parent # t
      /\ list = (IF ts[t].runs = "final" THEN od ELSE nd) /\ \A i \in left : list[i] \in Plugin
      /\ \A p \in Plugin : now[p] = "initialized" => p \in done
  BY DEF GoesThrough
<1> USE <1>b
<1>0. PICK lp : lp = ListLeft(ts, t, left)
  OBVIOUS
<1>a. Tree(lp) /\ TasksSound(lp, need, done, nd, od, as)
  BY <1>0
<1>1. /\ lp \in [Task -> TaskRecord] /\ lp[t] = Loop(ts[t], left)
      /\ \A u \in Task \ {t} : lp[u] = ts[u]
  <2>1. Loop(ts[t], left) \in TaskRecord
    BY LoopRecord
  <2> QED
    BY <1>0, <2>1, OneUpdate DEF ListLeft
<1>2. SameCall(lp[t], ts[t]) /\ lp[t].at = "loop" /\ lp[t].todo = left
  BY <1>1, LoopRecord
<1>3. \A u \in Task : lp[u].parent = ts[u].parent /\ lp[u].runs = ts[u].runs
  BY <1>1, <1>2 DEF SameCall
<1>5. CASE /\ \A i \in left : Passes(ts[t], now, list[i])
           /\ ts2 = ListLeft(ts, t, {}) /\ st2 = st /\ ap2 = ap
  <2>1. ts2 = ListLeft(lp, t, {})
    <3>1. PICK a : a = Loop(ts[t], {})
      OBVIOUS
    <3>2. a = Loop(lp[t], {})
      BY <1>1, <3>1, LoopTwice
    <3>3. ts2 = [ts EXCEPT ![t] = a]
      BY <1>5, <3>1 DEF ListLeft
    <3>4. [lp EXCEPT ![t] = a] = [ts EXCEPT ![t] = a]
      BY <1>0 DEF ListLeft
    <3> QED
      BY <3>2, <3>3, <3>4 DEF ListLeft
  <2>2. \A i \in left : lp[t].runs = "final" /\ od[i] \in done
    BY <1>3, <1>5 DEF Passes
  <2>3. Tree(ts2) /\ TasksSound(ts2, need, done, nd, od, as)
    <3>1. /\ lp[t].at = "loop" /\ lp[t].runs # "nothing"
          /\ \A i \in lp[t].todo : lp[t].runs = "final" /\ od[i] \in done
      BY <1>2, <1>3, <2>2
    <3> QED
      BY <1>a, <2>1, <3>1, NothingToStart
  <2>4. \A u \in Task : ts2[u].runs = "final" => ts[u].runs = "final"
    <3>1. Loop(lp[t], {}) \in TaskRecord /\ Loop(lp[t], {}).runs = ts[t].runs
      BY <1>1, <1>3, LoopRecord DEF SameCall
    <3>2. ts2[t] = Loop(lp[t], {}) /\ \A u \in Task \ {t} : ts2[u] = lp[u]
      BY <1>1, <2>1, <3>1, OneUpdate DEF ListLeft
    <3> QED
      BY <1>3, <3>1, <3>2
  <2> QED
    BY <1>5, <2>3, <2>4
<1>6. ASSUME NEW i \in left, NEW w \in Task, NEW lr, NEW rest,
             rest = {j \in left : j > i}, lr = ListLeft(ts, t, rest),
             \A j \in left : j < i => Passes(ts[t], now, list[j]),
             lr[w] = Plugins!Free, ts2 = [lr EXCEPT ![w] = Child(t, list[i])],
             st2 = Started(st, list[i]), ap2 = ap \/ ap2 = Counted(ap, list[i])
      PROVE  /\ Tree(ts2) /\ TasksSound(ts2, need, done, nd, od, as)
             /\ \A u \in Task : ts2[u].runs = "final" => ts[u].runs = "final"
             /\ st2 \in [Plugin -> Statuses] /\ ap2 \in [Plugin -> Nat]
             /\ StartsSound(st2, ap2, need, done)
  <2>1. PICK p \in Plugin : p = list[i]
    OBVIOUS
  <2>2. PICK child : child = Child(t, p)
    OBVIOUS
  <2>3. rest \in SUBSET left /\ (\A j \in left : j < i \/ j = i \/ j \in rest)
    BY <1>6
  <2>4. w # t
    <3>1. lr[t] = Loop(ts[t], rest) /\ Loop(ts[t], rest).at = "loop"
      <4>1. rest \in SUBSET Nat
        BY <2>3
      <4> QED
        BY <1>6, <4>1, LoopRecord DEF ListLeft
    <3> QED
      BY <1>6, <3>1 DEF Plugins!Free
  <2>5. lp[w] = Plugins!Free
    BY <1>1, <1>6, <2>4 DEF ListLeft
  <2>6. ts2 = ListLeftWith(lp, t, rest, w, child)
    <3>1. PICK a : a = Loop(ts[t], rest)
      OBVIOUS
    <3>2. a = Loop(lp[t], rest)
      BY <1>1, <3>1, LoopTwice
    <3>3. [[lp EXCEPT ![w] = child] EXCEPT ![t] = a] = [[ts EXCEPT ![t] = a] EXCEPT ![w] = child]
      BY <1>0, <2>4 DEF ListLeft
    <3>4. ts2 = [[ts EXCEPT ![t] = a] EXCEPT ![w] = child]
      BY <1>6, <2>1, <2>2, <3>1 DEF ListLeft
    <3> QED
      BY <3>2, <3>3, <3>4 DEF ListLeftWith
  <2>7. Starts(lp, t, i, rest, w, child, done, nd, od)
    <3>1. /\ lp[t].at = "loop" /\ lp[t].runs # "nothing" /\ lp[t].todo = left
          /\ \A u \in Task : lp[u].parent # t
      BY <1>2, <1>3
    <3>2. lp[t].runs = "final" => \A j \in lp[t].todo : j < i => od[j] \in done
      BY <1>3, <1>6, <3>1 DEF Passes
    <3>3. /\ i \in lp[t].todo /\ rest \subseteq lp[t].todo
          /\ \A j \in lp[t].todo : j < i \/ j = i \/ j \in rest
      BY <2>3, <3>1
    <3>4. TreeOfChild(lp, child) /\ child.plugin = p /\ child.parent = t
      <4>1. (p \in Hooked) \in BOOLEAN
        OBVIOUS
      <4> QED
        BY <2>2, <3>1, <4>1 DEF TreeOfChild, Child, TaskRecord
    <3>5. p = (IF lp[t].runs = "final" THEN od[i] ELSE nd[i])
      BY <1>3, <2>1
    <3> QED
      BY <2>5, <3>1, <3>2, <3>3, <3>4, <3>5 DEF Starts
  <2>8. child.plugin = p /\ child.runs = "init"
    BY <2>2 DEF Child
  <2>9. /\ Tree(ts2) /\ TasksSound(ts2, need, done, nd, od, as)
        /\ need[p] \subseteq done
    <3>1. /\ Tree(ListLeftWith(lp, t, rest, w, child))
          /\ TasksSound(ListLeftWith(lp, t, rest, w, child), need, done, nd, od, as)
          /\ need[child.plugin] \subseteq done
      BY <1>a, <2>7, OneStarts
    <3> QED
      BY <2>6, <2>8, <3>1
  <2>10. \A u \in Task : ts2[u].runs = "final" => ts[u].runs = "final"
    <3>1. Loop(ts[t], rest).runs = ts[t].runs
      <4>1. rest \in SUBSET Nat
        BY <2>3
      <4> QED
        BY <4>1, LoopRecord DEF SameCall
    <3>2. ts2 = [lr EXCEPT ![w] = child]
      BY <1>6, <2>1, <2>2
    <3> QED
      BY <1>6, <2>4, <2>8, <3>1, <3>2 DEF ListLeft
  <2>11. /\ st2 \in [Plugin -> Statuses] /\ ap2 \in [Plugin -> Nat]
         /\ StartsSound(st2, ap2, need, done)
    <3>1. st2 = Started(st, p) /\ (ap2 = ap \/ ap2 = Counted(ap, p))
      BY <1>6, <2>1
    <3>2. /\ Started(st, p) \in [Plugin -> Statuses] /\ Counted(ap, p) \in [Plugin -> Nat]
          /\ StartsSound(Started(st, p), ap, need, done)
          /\ StartsSound(Started(st, p), Counted(ap, p), need, done)
      BY <2>9, StartKeeps
    <3> QED
      BY <3>1, <3>2
  <2> QED
    BY <2>9, <2>10, <2>11
<1> QED
  BY <1>5, <1>6 DEF GoesOn

\* A step of GoOn by a running init, over nodes.
LEMMA LoopBegins ==
  ASSUME Plugins!None \notin Task, NEW need, NEW done, NEW nd, NEW od, NEW as,
         NEW ts, Tree(ts), TasksSound(ts, need, done, nd, od, as),
         NEW t \in Task, ts[t].runs = "init", \A u \in Task : ts[u].parent # t,
         ts[t].plugin \in done,
         NEW left \in SUBSET Nat, \A i \in left : i \in DOMAIN nd /\ need[nd[i]] \subseteq done
  PROVE  Tree(ListLeft(ts, t, left)) /\ TasksSound(ListLeft(ts, t, left), need, done, nd, od, as)
<1>1. ts \in [Task -> TaskRecord] /\ ts[t] \in TaskRecord
  BY DEF Tree
<1>2. PICK r : r = Loop(ts[t], left)
  OBVIOUS
<1>3. r \in TaskRecord /\ SameCall(r, ts[t]) /\ r.at = "loop" /\ r.todo = left
  BY <1>1, <1>2, LoopRecord
<1>4. r.runs = "init" /\ r.plugin = ts[t].plugin
  BY <1>3 DEF SameCall
<1>5. InitSound(r, need, done, nd)
  <2>1. InitSound(ts[t], need, done, nd)
    BY DEF TasksSound
  <2> QED
    BY <1>3, <1>4, <2>1 DEF InitSound
<1>6. PICK new : new = [ts EXCEPT ![t] = r]
  OBVIOUS
<1>7. new = ListLeft(ts, t, left)
  BY <1>2, <1>6 DEF ListLeft
<1>8. new[t] = r
  BY <1>1, <1>3, <1>6, OneUpdate
<1>9. FinalSound(new[t], Settled(new, done, t), need, od, as)
  BY <1>4, <1>8 DEF FinalSound
<1>10. Tree(new)
  BY <1>3, <1>4, <1>6, TreeChanges
<1>11. \A u \in Task \ {t} : InitSound(ts[u], need, done, nd)
                             /\ FinalSound(ts[u], Settled(ts, done, u), need, od, as)
  BY DEF TasksSound
<1>12. TasksSound(new, need, done, nd, od, as)
  BY <1>1, <1>3, <1>5, <1>6, <1>9, <1>11, SoundChanges
<1> QED
  BY <1>7, <1>10, <1>12

\* The dependencies a graph gives, and the plugins whose apply() has returned.
NeedOf(deps) == [p \in Plugin |-> Plugins!ToSet(deps[p])]
Need == NeedOf(configDeps)
Applied == {p \in Plugin : completed[p] > 0}

PluginShapes ==
  /\ configDeps \in Graphs /\ asked \subseteq Plugin
  /\ nodes \in Seq(Plugin) /\ order \in Seq(Plugin)
  /\ \A i, j \in DOMAIN nodes : nodes[i] = nodes[j] => i = j
  /\ status \in [Plugin -> Statuses]
  /\ applies \in [Plugin -> Nat] /\ completed \in [Plugin -> Nat]

\* initPlugins() runs at most once.
FinalOnce ==
  /\ \A t \in Task : tasks[t].runs = "final" => initialized = "yes" /\ final = "none"
  /\ \A t, u \in Task : tasks[t].runs = "final" /\ tasks[u].runs = "final" => t = u
  /\ initialized = "no" => final = "none"

PluginInv ==
  /\ PluginShapes /\ Tree(tasks) /\ FinalOnce
  /\ TasksSound(tasks, Need, Applied, nodes, order, asked)
  /\ StartsSound(status, applies, Need, Applied)
  /\ final = "resolved" => asked \subseteq Applied

\* As more plugins are applied all stays sound.
LEMMA MoreApplied ==
  ASSUME NEW need, NEW few, NEW many, few \subseteq many, NEW nd, NEW od, NEW as, NEW ts,
         TasksSound(ts, need, few, nd, od, as)
  PROVE  TasksSound(ts, need, many, nd, od, as)
<1>1. ASSUME NEW t \in Task PROVE InitSound(ts[t], need, many, nd)
  <2>1. InitSound(ts[t], need, few, nd)
    BY DEF TasksSound
  <2> QED
    BY <2>1 DEF InitSound
<1>2. ASSUME NEW t \in Task PROVE FinalSound(ts[t], Settled(ts, many, t), need, od, as)
  <2>1. FinalSound(ts[t], Settled(ts, few, t), need, od, as)
    BY DEF TasksSound
  <2>2. Settled(ts, few, t) \subseteq Settled(ts, many, t)
    BY DEF Settled
  <2> QED
    BY <2>1, <2>2, MoreSettled
<1> QED
  BY <1>1, <1>2 DEF TasksSound

\* As more plugins are added all stays sound.
LEMMA MoreNodes ==
  ASSUME NEW need, NEW done, NEW nd \in Seq(Plugin), NEW p \in Plugin, NEW od, NEW as, NEW ts,
         TasksSound(ts, need, done, nd, od, as)
  PROVE  TasksSound(ts, need, done, Append(nd, p), od, as)
<1>1. \A i \in DOMAIN nd : i \in DOMAIN Append(nd, p) /\ Append(nd, p)[i] = nd[i]
  OBVIOUS
<1>2. ASSUME NEW t \in Task PROVE InitSound(ts[t], need, done, Append(nd, p))
  <2>1. InitSound(ts[t], need, done, nd)
    BY DEF TasksSound
  <2> QED
    BY <1>1, <2>1 DEF InitSound
<1> QED
  BY <1>2 DEF TasksSound

\* plugin(): adds one to the graph, and applies it at once when it may.
LEMMA AddPluginKeeps ==
  ASSUME PluginAssumption, PluginInv, NEW p \in Plugin, Plugins!AddPlugin(p)
  PROVE  PluginInv'
<1>1. PICK need : need = Need
  OBVIOUS
<1>2. PICK done : done = Applied
  OBVIOUS
<1>3. /\ Tree(tasks) /\ TasksSound(tasks, need, done, nodes, order, asked)
      /\ StartsSound(status, applies, need, done)
      /\ PluginShapes /\ FinalOnce /\ Plugins!None \notin Task
  BY <1>1, <1>2 DEF PluginInv, PluginAssumption
<1>4. /\ nodes' = Append(nodes, p) /\ p \notin Plugins!Known
      /\ configDeps' = configDeps /\ order' = order /\ asked' = asked
      /\ completed' = completed /\ initialized' = initialized /\ final' = final
  BY DEF Plugins!AddPlugin
<1>5. Need' = need /\ Applied' = done
  BY <1>1, <1>2, <1>4 DEF Need, Applied
<1>6. /\ nodes' \in Seq(Plugin)
      /\ \A i, j \in DOMAIN nodes' : nodes'[i] = nodes'[j] => i = j
  <2>1. nodes \in Seq(Plugin) /\ \A i, j \in DOMAIN nodes : nodes[i] = nodes[j] => i = j
    BY <1>3 DEF PluginShapes
  <2>2. \A i \in DOMAIN nodes : nodes[i] # p
    BY <1>4 DEF Plugins!Known, Plugins!ToSet
  <2>3. \A i \in DOMAIN nodes' : \/ i \in DOMAIN nodes /\ nodes'[i] = nodes[i]
                                 \/ i = Len(nodes) + 1 /\ nodes'[i] = p
    <3>1. DOMAIN nodes = 1..Len(nodes) /\ Len(nodes) \in Nat
      BY <2>1
    <3>2. DOMAIN nodes' = 1..(Len(nodes) + 1)
      BY <1>4, <2>1
    <3>3. \A i \in DOMAIN nodes' : i \in DOMAIN nodes \/ i = Len(nodes) + 1
      BY <3>1, <3>2
    <3>4. \A i \in DOMAIN nodes : nodes'[i] = nodes[i]
      BY <1>4, <2>1
    <3>5. nodes'[Len(nodes) + 1] = p
      BY <1>4, <2>1
    <3> QED
      BY <3>3, <3>4, <3>5
  <2> QED
    BY <1>4, <2>1, <2>2, <2>3
<1>7. TasksSound(tasks, need, done, nodes', order, asked)
  <2>1. nodes \in Seq(Plugin)
    BY <1>3 DEF PluginShapes
  <2> QED
    BY <1>3, <1>4, <2>1, MoreNodes
<1>8. /\ Tree(tasks') /\ TasksSound(tasks', need, done, nodes', order, asked)
      /\ status' \in [Plugin -> Statuses] /\ applies' \in [Plugin -> Nat]
      /\ StartsSound(status', applies', need, done)
      /\ \A u \in Task : tasks'[u].runs = "final" => tasks[u].runs = "final"
  <2>1. status \in [Plugin -> Statuses] /\ applies \in [Plugin -> Nat]
    BY <1>3 DEF PluginShapes
  <2>2. CASE Plugins!DepsReady(p, status) /\ Plugins!Begin(tasks, status, p, FALSE, Plugins!None)
    <3>1. PICK w \in Task : /\ tasks[w] = Plugins!Free
                            /\ tasks' = [tasks EXCEPT ![w] = Alone(p)]
      <4>1. Plugins!FreshTask(tasks) \in Plugins!Fresh(tasks)
        BY <2>2 DEF Plugins!Begin, Plugins!FreshTask
      <4> QED
        BY <2>2, <4>1 DEF Plugins!Begin, Plugins!Fresh, Alone
    <3>2. PICK child : child = Alone(p)
      OBVIOUS
    <3>3. TreeOfChild(tasks, child) /\ child.plugin = p /\ child.runs = "init"
      BY <3>2 DEF TreeOfChild, Alone, TaskRecord
    <3>4. need[p] \subseteq done
      <4>1. need[p] = Plugins!ToSet(configDeps[p]) /\ need[p] \subseteq Plugin
        <5>1. configDeps[p] \in Seq(Plugin)
          BY <1>3 DEF PluginShapes, PluginAssumption
        <5> QED
          BY <1>1, <5>1 DEF Need, NeedOf, Plugins!ToSet
      <4>2. \A d \in need[p] : status[d] = "initialized"
        BY <2>2, <4>1 DEF Plugins!DepsReady
      <4> QED
        BY <1>3, <4>1, <4>2 DEF StartsSound
    <3>5. tasks' = [tasks EXCEPT ![w] = child]
      BY <3>1, <3>2
    <3>6. Tree(tasks')
      BY <1>3, <3>1, <3>3, <3>5, TreeGrows DEF MayJoin
    <3>7. TasksSound(tasks', need, done, nodes', order, asked)
      BY <1>3, <1>7, <3>1, <3>3, <3>4, <3>5, SoundGrows
    <3>8. \A u \in Task : tasks'[u].runs = "final" => tasks[u].runs = "final"
      <4>1. tasks \in [Task -> TaskRecord] /\ child \in TaskRecord
        BY <1>3, <3>3 DEF Tree, TreeOfChild
      <4>2. tasks'[w] = child /\ \A u \in Task \ {w} : tasks'[u] = tasks[u]
        BY <3>5, <4>1, OneUpdate
      <4> QED
        BY <3>3, <4>2
    <3>9. /\ status' = [status EXCEPT ![p] = "initializing"]
          /\ applies' = [applies EXCEPT ![p] = @ + 1]
      BY <2>2 DEF Plugins!Begin
    <3> QED
      <4>1. status' = Started(status, p) /\ applies' = Counted(applies, p)
        BY <3>9 DEF Started, Counted
      <4>2. /\ Started(status, p) \in [Plugin -> Statuses]
            /\ Counted(applies, p) \in [Plugin -> Nat]
            /\ StartsSound(Started(status, p), Counted(applies, p), need, done)
        BY <1>3, <2>1, <3>4, StartKeeps
      <4> QED
        BY <3>6, <3>7, <3>8, <4>1, <4>2
  <2>3. CASE status' = [status EXCEPT ![p] = "pending"] /\ UNCHANGED <<tasks, applies>>
    <3>1. status' \in [Plugin -> Statuses]
      BY <2>1, <2>3 DEF Statuses
    <3>2. StartsSound(status', applies', need, done)
      BY <1>3, <2>1, <2>3 DEF StartsSound
    <3> QED
      BY <1>3, <1>7, <2>1, <2>3, <3>1, <3>2
  <2> QED
    BY <2>2, <2>3 DEF Plugins!AddPlugin
<1>9. PluginShapes'
  BY <1>3, <1>4, <1>6, <1>8 DEF PluginShapes
<1>10. FinalOnce'
  BY <1>3, <1>4, <1>8 DEF FinalOnce
<1> QED
  BY <1>2, <1>4, <1>5, <1>8, <1>9, <1>10 DEF PluginInv

\* A running task moves on to where it awaits nothing of ours.
MovedTo(ts, t, a) == [ts EXCEPT ![t].at = a]

MayMove(ts, t, a, done) ==
  /\ t \in Task /\ a \in {"apply", "after", "failed"} /\ \A u \in Task : ts[u].parent # t
  /\ ts[t].runs = "init" \/ (ts[t].runs = "final" /\ a = "failed")
  /\ a = "after" => ts[t].plugin \in done

SoundExcept(ts, t, need, done, nd, od, as) ==
  /\ \A u \in Task : InitSound(ts[u], need, done, nd)
  /\ \A u \in Task \ {t} : FinalSound(ts[u], Settled(ts, done, u), need, od, as)

\* A task that goes to another place of its call keeps all sound.
LEMMA MoveKeeps ==
  ASSUME Plugins!None \notin Task, NEW need, NEW done, NEW nd, NEW od, NEW as,
         NEW ts, Tree(ts), NEW t, NEW a, MayMove(ts, t, a, done),
         SoundExcept(ts, t, need, done, nd, od, as)
  PROVE  /\ Tree(MovedTo(ts, t, a))
         /\ TasksSound(MovedTo(ts, t, a), need, done, nd, od, as)
         /\ \A u \in Task : MovedTo(ts, t, a)[u].runs = ts[u].runs
<1>0. /\ t \in Task /\ a \in {"apply", "after", "failed"} /\ \A u \in Task : ts[u].parent # t
      /\ ts[t].runs = "init" \/ (ts[t].runs = "final" /\ a = "failed")
      /\ a = "after" => ts[t].plugin \in done
      /\ \A u \in Task : InitSound(ts[u], need, done, nd)
      /\ \A u \in Task \ {t} : FinalSound(ts[u], Settled(ts, done, u), need, od, as)
  BY DEF MayMove, SoundExcept
<1> USE <1>0
<1>1. ts \in [Task -> TaskRecord] /\ ts[t] \in TaskRecord
  BY DEF Tree
<1>2. PICK r : r = [ts[t] EXCEPT !.at = a]
  OBVIOUS
<1>3. r \in TaskRecord /\ SameCall(r, ts[t]) /\ r.at = a
  BY <1>1, <1>2 DEF TaskRecord, SameCall
<1>4. r.runs = ts[t].runs /\ r.plugin = ts[t].plugin
  BY <1>3 DEF SameCall
<1>5. PICK new : new = [ts EXCEPT ![t] = r]
  OBVIOUS
<1>6. new = MovedTo(ts, t, a)
  BY <1>1, <1>2, <1>5 DEF MovedTo
<1>7. new[t] = r /\ \A u \in Task \ {t} : new[u] = ts[u]
  BY <1>1, <1>3, <1>5, OneUpdate
<1>8. InitSound(r, need, done, nd)
  BY <1>3, <1>4 DEF InitSound
<1>9. FinalSound(new[t], Settled(new, done, t), need, od, as)
  BY <1>3, <1>4, <1>7 DEF FinalSound
<1>10. Tree(new)
  BY <1>3, <1>4, <1>5, TreeChanges
<1>11. TasksSound(new, need, done, nd, od, as)
  BY <1>1, <1>3, <1>5, <1>8, <1>9, SoundChanges
<1>12. \A u \in Task : new[u].runs = ts[u].runs
  BY <1>4, <1>7
<1> QED
  BY <1>6, <1>10, <1>11, <1>12

\* The hooks before apply() return.
LEMMA HookedApplyKeeps ==
  ASSUME PluginAssumption, PluginInv, NEW t \in Task, Plugins!HookedApply(t)
  PROVE  PluginInv'
<1>1. PICK need : need = Need
  OBVIOUS
<1>2. PICK done : done = Applied
  OBVIOUS
<1>3. /\ Tree(tasks) /\ TasksSound(tasks, need, done, nodes, order, asked)
      /\ StartsSound(status, applies, need, done)
      /\ PluginShapes /\ FinalOnce /\ Plugins!None \notin Task
  BY <1>1, <1>2 DEF PluginInv, PluginAssumption
<1>4. /\ nodes' = nodes /\ configDeps' = configDeps /\ order' = order /\ asked' = asked
      /\ completed' = completed /\ initialized' = initialized /\ final' = final
      /\ status' = status /\ tasks[t].at = "before" /\ tasks' = MovedTo(tasks, t, "apply")
      /\ applies' = Counted(applies, tasks[t].plugin)
  BY DEF Plugins!HookedApply, MovedTo, Counted
<1>5. Need' = need /\ Applied' = done
  BY <1>1, <1>2, <1>4 DEF Need, Applied
<1>6. tasks[t].runs = "init" /\ tasks[t].plugin \in Plugin /\ \A u \in Task : tasks[u].parent # t
  <2>1. tasks[t].runs \in {"nothing", "init", "final"}
    BY <1>3 DEF Tree, TaskRecord
  <2> QED
    BY <1>3, <1>4, <2>1 DEF Tree, Plugins!Free
<1>7. InitSound(tasks[t], need, done, nodes) /\ need[tasks[t].plugin] \subseteq done
  <2>1. InitSound(tasks[t], need, done, nodes)
    BY <1>3 DEF TasksSound
  <2> QED
    BY <1>6, <2>1 DEF InitSound
<1>8. /\ Tree(tasks') /\ TasksSound(tasks', need, done, nodes, order, asked)
      /\ \A u \in Task : tasks'[u].runs = tasks[u].runs
  <2>1. \A u \in Task : InitSound(tasks[u], need, done, nodes)
                        /\ FinalSound(tasks[u], Settled(tasks, done, u), need, order, asked)
    BY <1>3 DEF TasksSound
  <2>2. /\ Tree(MovedTo(tasks, t, "apply"))
        /\ TasksSound(MovedTo(tasks, t, "apply"), need, done, nodes, order, asked)
        /\ \A u \in Task : MovedTo(tasks, t, "apply")[u].runs = tasks[u].runs
    <3>1. MayMove(tasks, t, "apply", done)
      BY <1>6 DEF MayMove
    <3>2. SoundExcept(tasks, t, need, done, nodes, order, asked)
      BY <2>1 DEF SoundExcept
    <3> QED
      BY <1>3, <3>1, <3>2, MoveKeeps
  <2> QED
    BY <1>4, <2>2
<1>9. applies' \in [Plugin -> Nat] /\ StartsSound(status, applies', need, done)
  <2>1. status \in [Plugin -> Statuses] /\ applies \in [Plugin -> Nat]
    BY <1>3 DEF PluginShapes
  <2> QED
    BY <1>3, <1>4, <1>6, <1>7, <2>1, StartKeeps
<1>10. PluginShapes' /\ FinalOnce'
  BY <1>3, <1>4, <1>8, <1>9 DEF PluginShapes, FinalOnce
<1>11. final' = "resolved" => asked' \subseteq done
  BY <1>2, <1>4 DEF PluginInv
<1> QED
  BY <1>4, <1>5, <1>8, <1>9, <1>10, <1>11 DEF PluginInv

\* A hook or apply() throws.
LEMMA ThrowsKeeps ==
  ASSUME PluginAssumption, PluginInv, NEW t \in Task, Plugins!Throws(t)
  PROVE  PluginInv'
<1>1. PICK need : need = Need
  OBVIOUS
<1>2. PICK done : done = Applied
  OBVIOUS
<1>3. /\ Tree(tasks) /\ TasksSound(tasks, need, done, nodes, order, asked)
      /\ StartsSound(status, applies, need, done)
      /\ PluginShapes /\ FinalOnce /\ Plugins!None \notin Task
  BY <1>1, <1>2 DEF PluginInv, PluginAssumption
<1>4. /\ nodes' = nodes /\ configDeps' = configDeps /\ order' = order /\ asked' = asked
      /\ completed' = completed /\ initialized' = initialized /\ final' = final
      /\ status' = status /\ tasks[t].at \in {"before", "apply", "after"}
      /\ tasks' = MovedTo(tasks, t, "failed") /\ applies' = applies
  BY DEF Plugins!Throws, MovedTo
<1>5. Need' = need /\ Applied' = done
  BY <1>1, <1>2, <1>4 DEF Need, Applied
<1>6. tasks[t].runs = "init" /\ \A u \in Task : tasks[u].parent # t
  <2>1. tasks[t].runs \in {"nothing", "init", "final"}
    BY <1>3 DEF Tree, TaskRecord
  <2> QED
    BY <1>3, <1>4, <2>1 DEF Tree, Plugins!Free
<1>7. /\ Tree(tasks') /\ TasksSound(tasks', need, done, nodes, order, asked)
      /\ \A u \in Task : tasks'[u].runs = tasks[u].runs
  <2>1. \A u \in Task : InitSound(tasks[u], need, done, nodes)
                        /\ FinalSound(tasks[u], Settled(tasks, done, u), need, order, asked)
    BY <1>3 DEF TasksSound
  <2> QED
    <3>1. MayMove(tasks, t, "failed", done)
      BY <1>6 DEF MayMove
    <3>2. SoundExcept(tasks, t, need, done, nodes, order, asked)
      BY <2>1 DEF SoundExcept
    <3> QED
      BY <1>3, <1>4, <3>1, <3>2, MoveKeeps
<1>8. PluginShapes' /\ FinalOnce'
  BY <1>3, <1>4, <1>7, ZenonT(60) DEF PluginShapes, FinalOnce
<1>9. final' = "resolved" => asked' \subseteq done
  BY <1>2, <1>4 DEF PluginInv
<1> QED
  BY <1>3, <1>4, <1>5, <1>7, <1>8, <1>9 DEF PluginInv

\* The init in t has its plugin applied, and left holds positions of plugins that
\* may start.
InitDone(ts, t, left, now, need, done, nd) ==
  /\ t \in Task /\ ts[t].runs = "init" /\ ts[t].at # "loop" /\ ts[t].plugin \in done
  /\ nd \in Seq(Plugin) /\ \A i \in left : i \in DOMAIN nd /\ need[nd[i]] \subseteq done
  /\ \A p \in Plugin : now[p] = "initialized" => p \in done

\* What an init does once its plugin is applied: it starts those that are ready.
LEMMA InitGoesOn ==
  ASSUME Plugins!None \notin Task, NEW need, NEW done, NEW nd, NEW od, NEW as,
         NEW ts, NEW st, NEW now, NEW ap, NEW t, NEW left, NEW ts2, NEW st2, NEW ap2,
         Tree(ts), TasksSound(ts, need, done, nd, od, as),
         InitDone(ts, t, left, now, need, done, nd),
         st \in [Plugin -> Statuses], ap \in [Plugin -> Nat], StartsSound(st, ap, need, done),
         GoesOn(ts, st, now, ap, t, nd, left, ts2, st2, ap2)
  PROVE  /\ Tree(ts2) /\ TasksSound(ts2, need, done, nd, od, as)
         /\ \A u \in Task : ts2[u].runs = "final" => ts[u].runs = "final"
         /\ st2 \in [Plugin -> Statuses] /\ ap2 \in [Plugin -> Nat]
         /\ StartsSound(st2, ap2, need, done)
<1>0. /\ t \in Task /\ ts[t].runs = "init" /\ ts[t].at # "loop" /\ ts[t].plugin \in done
      /\ nd \in Seq(Plugin) /\ \A i \in left : i \in DOMAIN nd /\ need[nd[i]] \subseteq done
      /\ \A p \in Plugin : now[p] = "initialized" => p \in done
  BY DEF InitDone
<1> USE <1>0
<1>1. ts \in [Task -> TaskRecord] /\ \A u \in Task : ts[u].parent # t
  BY DEF Tree
<1>2. left \in SUBSET Nat /\ \A i \in left : nd[i] \in Plugin
  <2>1. \A i \in DOMAIN nd : i \in Nat /\ nd[i] \in Plugin
    OBVIOUS
  <2> QED
    BY <2>1
<1>3. Tree(ListLeft(ts, t, left)) /\ TasksSound(ListLeft(ts, t, left), need, done, nd, od, as)
  BY <1>1, <1>2, LoopBegins
<1>4. GoesThrough(ts, t, nd, left, now, done, nd, od)
  BY <1>1, <1>2 DEF GoesThrough
<1> QED
  BY <1>3, <1>4, GoOnKeeps

\* The ready plugins' dependencies are applied.
ReadyAt(nd, deps, st) ==
  {i \in DOMAIN nd : \A d \in Plugins!ToSet(deps[nd[i]]) : st[d] = "initialized"}

\* The dependencies of what a flush starts are applied.
LEMMA ReadyMayStart ==
  ASSUME NEW done, NEW nd, nd \in Seq(Plugin), NEW st, NEW ap, NEW deps,
         deps \in [Plugin -> Seq(Plugin)], StartsSound(st, ap, NeedOf(deps), done)
  PROVE  \A i \in ReadyAt(nd, deps, st) : i \in DOMAIN nd /\ NeedOf(deps)[nd[i]] \subseteq done
<1> SUFFICES ASSUME NEW i \in ReadyAt(nd, deps, st)
             PROVE  i \in DOMAIN nd /\ NeedOf(deps)[nd[i]] \subseteq done
  OBVIOUS
<1>1. i \in DOMAIN nd /\ \A d \in Plugins!ToSet(deps[nd[i]]) : st[d] = "initialized"
  BY DEF ReadyAt
<1>2. PICK p \in Plugin : p = nd[i]
  BY <1>1
<1>3. NeedOf(deps)[p] = Plugins!ToSet(deps[p]) /\ NeedOf(deps)[p] \subseteq Plugin
  BY DEF Plugins!ToSet, NeedOf
<1>4. \A d \in NeedOf(deps)[p] : st[d] = "initialized"
  BY <1>1, <1>2, <1>3
<1>5. NeedOf(deps)[p] \subseteq done
  BY <1>3, <1>4 DEF StartsSound
<1> QED
  BY <1>1, <1>2, <1>5

\* Plugins!GoOn and Plugins!Begin with every value as an argument.
BeginOf(ts, st, ap, p, hooked, parent, ts2, st2, ap2) ==
  /\ Plugins!Fresh(ts) # {}
  /\ ts2 = [ts EXCEPT ![Plugins!FreshTask(ts)] =
              [runs |-> "init", plugin |-> p, at |-> IF hooked THEN "before" ELSE "apply",
               hooked |-> hooked, todo |-> {}, parent |-> parent]]
  /\ st2 = [st EXCEPT ![p] = "initializing"]
  /\ ap2 = IF hooked THEN ap ELSE [ap EXCEPT ![p] = @ + 1]

GoOnOf(ts, st, now, ap, t, list, left, ts2, st2, ap2) ==
  LET loops(rest) == [ts EXCEPT ![t].at = "loop", ![t].todo = rest]
  IN \/ /\ \A i \in left : Passes(ts[t], now, list[i])
        /\ ts2 = loops({}) /\ st2 = st /\ ap2 = ap
     \/ \E i \in left :
          /\ ~ Passes(ts[t], now, list[i])
          /\ \A j \in left : j < i => Passes(ts[t], now, list[j])
          /\ BeginOf(loops({j \in left : j > i}), st, ap, list[i], list[i] \in Hooked, t,
                     ts2, st2, ap2)

\* GoOn() passes what is settled and starts the first that is not, or leaves the loop.
LEMMA GoOnIs ==
  ASSUME NEW ts \in [Task -> TaskRecord], NEW st, NEW now, NEW ap, NEW t \in Task, NEW list,
         NEW left, NEW ts2, NEW st2, NEW ap2,
         GoOnOf(ts, st, now, ap, t, list, left, ts2, st2, ap2)
  PROVE  GoesOn(ts, st, now, ap, t, list, left, ts2, st2, ap2)
<1>1. \A rest : [ts EXCEPT ![t].at = "loop", ![t].todo = rest] = ListLeft(ts, t, rest)
  BY DEF ListLeft, Loop
<1>2. CASE /\ \A i \in left : Passes(ts[t], now, list[i])
           /\ ts2 = [ts EXCEPT ![t].at = "loop", ![t].todo = {}] /\ st2 = st /\ ap2 = ap
  BY <1>1, <1>2 DEF GoesOn
<1>3. ASSUME NEW i \in left, \A j \in left : j < i => Passes(ts[t], now, list[j]),
             BeginOf([ts EXCEPT ![t].at = "loop", ![t].todo = {j \in left : j > i}], st, ap,
                     list[i], list[i] \in Hooked, t, ts2, st2, ap2)
      PROVE  GoesOn(ts, st, now, ap, t, list, left, ts2, st2, ap2)
  <2>1. PICK lr : lr = ListLeft(ts, t, {j \in left : j > i})
    OBVIOUS
  <2>2. PICK p : p = list[i]
    OBVIOUS
  <2>3. BeginOf(lr, st, ap, p, p \in Hooked, t, ts2, st2, ap2)
    BY <1>1, <1>3, <2>1, <2>2
  <2>4. PICK w : w = Plugins!FreshTask(lr)
    OBVIOUS
  <2>5. w \in Task /\ lr[w] = Plugins!Free
    <3>1. w \in Plugins!Fresh(lr)
      BY <2>3, <2>4 DEF BeginOf, Plugins!FreshTask
    <3> QED
      BY <3>1 DEF Plugins!Fresh
  <2>6. ts2 = [lr EXCEPT ![w] = Child(t, p)]
    BY <2>3, <2>4 DEF BeginOf, Child
  <2>7. st2 = Started(st, p) /\ (ap2 = ap \/ ap2 = Counted(ap, p))
    BY <2>3 DEF BeginOf, Started, Counted
  <2> QED
    BY <1>3, <2>1, <2>2, <2>5, <2>6, <2>7 DEF GoesOn
<1> QED
  BY <1>2, <1>3 DEF GoOnOf

\* The hooks after apply() return, and the flush begins.
LEMMA AfterReturnsKeeps ==
  ASSUME PluginAssumption, PluginInv, NEW t \in Task, Plugins!AfterReturns(t)
  PROVE  PluginInv'
<1>1. PICK need : need = Need
  OBVIOUS
<1>2. PICK done : done = Applied
  OBVIOUS
<1>3. /\ Tree(tasks) /\ TasksSound(tasks, need, done, nodes, order, asked)
      /\ StartsSound(status, applies, need, done)
      /\ PluginShapes /\ FinalOnce /\ Plugins!None \notin Task
  BY <1>1, <1>2 DEF PluginInv, PluginAssumption
<1>4. /\ nodes' = nodes /\ configDeps' = configDeps /\ order' = order /\ asked' = asked
      /\ completed' = completed /\ initialized' = initialized /\ final' = final
      /\ tasks[t].at = "after"
  BY DEF Plugins!AfterReturns
<1>5. Need' = need /\ Applied' = done
  BY <1>1, <1>2, <1>4 DEF Need, Applied
<1>6. tasks[t].runs = "init" /\ tasks[t].plugin \in done
  <2>1. tasks[t].runs \in {"nothing", "init", "final"}
    BY <1>3 DEF Tree, TaskRecord
  <2>2. tasks[t].runs = "init"
    BY <1>3, <1>4, <2>1 DEF Tree, Plugins!Free
  <2>3. InitSound(tasks[t], need, done, nodes)
    BY <1>3 DEF TasksSound
  <2> QED
    BY <1>4, <2>2, <2>3 DEF InitSound
<1>7. PICK left : left = Plugins!ReadyPlugins(status)
  OBVIOUS
<1>8. GoesOn(tasks, status, status, applies, t, nodes, left, tasks', status', applies')
  <2>1. Plugins!GoOn(tasks, status, t, nodes, left)
    BY <1>7 DEF Plugins!AfterReturns
  <2>2. GoOnOf(tasks, status, status, applies, t, nodes, left, tasks', status', applies')
    BY <2>1 DEF GoOnOf, BeginOf, Plugins!GoOn, Plugins!Begin, Plugins!Skips, Passes
  <2>3. tasks \in [Task -> TaskRecord]
    BY <1>3 DEF Tree
  <2> QED
    BY <2>2, <2>3, GoOnIs
<1>9. \A i \in left : i \in DOMAIN nodes /\ need[nodes[i]] \subseteq done
  <2>1. configDeps \in [Plugin -> Seq(Plugin)] /\ nodes \in Seq(Plugin)
    BY <1>3 DEF PluginShapes, PluginAssumption
  <2>2. left \subseteq ReadyAt(nodes, configDeps, status)
    BY <1>7 DEF Plugins!ReadyPlugins, Plugins!DepsReady, ReadyAt
  <2>3. need = NeedOf(configDeps)
    BY <1>1 DEF Need
  <2> QED
    BY <1>3, <2>1, <2>2, <2>3, ReadyMayStart
<1>10. /\ Tree(tasks') /\ TasksSound(tasks', need, done, nodes, order, asked)
       /\ \A u \in Task : tasks'[u].runs = "final" => tasks[u].runs = "final"
       /\ status' \in [Plugin -> Statuses] /\ applies' \in [Plugin -> Nat]
       /\ StartsSound(status', applies', need, done)
  <2>1. /\ nodes \in Seq(Plugin) /\ status \in [Plugin -> Statuses]
        /\ applies \in [Plugin -> Nat] /\ tasks[t].at # "loop"
        /\ \A p \in Plugin : status[p] = "initialized" => p \in done
    BY <1>3, <1>4 DEF PluginShapes, StartsSound
  <2> QED
    <3>1. InitDone(tasks, t, left, status, need, done, nodes)
      BY <1>6, <1>9, <2>1 DEF InitDone
    <3> QED
      BY <1>3, <1>8, <2>1, <3>1, InitGoesOn
<1>11. PluginShapes' /\ FinalOnce'
  BY <1>3, <1>4, <1>10 DEF PluginShapes, FinalOnce
<1>12. final' = "resolved" => asked' \subseteq done
  BY <1>2, <1>4 DEF PluginInv
<1> QED
  BY <1>4, <1>5, <1>10, <1>11, <1>12 DEF PluginInv

\* apply() returns: its plugin is applied.
LEMMA ApplyReturnsKeeps ==
  ASSUME PluginAssumption, PluginInv, NEW t \in Task, Plugins!ApplyReturns(t)
  PROVE  PluginInv'
<1>1. PICK need : need = Need
  OBVIOUS
<1>2. PICK few : few = Applied
  OBVIOUS
<1>3. /\ Tree(tasks) /\ TasksSound(tasks, need, few, nodes, order, asked)
      /\ StartsSound(status, applies, need, few)
      /\ PluginShapes /\ FinalOnce /\ Plugins!None \notin Task
  BY <1>1, <1>2 DEF PluginInv, PluginAssumption
<1>4. /\ nodes' = nodes /\ configDeps' = configDeps /\ order' = order /\ asked' = asked
      /\ initialized' = initialized /\ final' = final /\ tasks[t].at = "apply"
      /\ completed' = [completed EXCEPT ![tasks[t].plugin] = @ + 1]
  BY DEF Plugins!ApplyReturns
<1>5. /\ completed \in [Plugin -> Nat] /\ applies \in [Plugin -> Nat]
      /\ status \in [Plugin -> Statuses] /\ nodes \in Seq(Plugin)
  BY <1>3 DEF PluginShapes
<1>6. tasks[t].runs = "init" /\ tasks[t].plugin \in Plugin /\ \A u \in Task : tasks[u].parent # t
  <2>1. tasks[t].runs \in {"nothing", "init", "final"}
    BY <1>3 DEF Tree, TaskRecord
  <2> QED
    BY <1>3, <1>4, <2>1 DEF Tree, Plugins!Free
<1>7. PICK p \in Plugin : p = tasks[t].plugin
  BY <1>6
<1>8. PICK done : done = few \cup {p}
  OBVIOUS
<1>9. Need' = need /\ Applied' = done
  <2>1. completed' = [completed EXCEPT ![p] = @ + 1]
    BY <1>4, <1>7
  <2>2. completed'[p] > 0 /\ \A q \in Plugin \ {p} : completed'[q] = completed[q]
    BY <1>5, <2>1
  <2> QED
    BY <1>1, <1>2, <1>4, <1>8, <2>2 DEF Need, Applied
<1>10. TasksSound(tasks, need, done, nodes, order, asked)
  BY <1>3, <1>8, MoreApplied
<1>11. PICK after : after = [status EXCEPT ![p] = "initialized"]
  OBVIOUS
<1>12. after \in [Plugin -> Statuses] /\ StartsSound(after, applies, need, done)
  BY <1>3, <1>5, <1>8, <1>11 DEF StartsSound, Statuses
<1>13. /\ Tree(tasks') /\ TasksSound(tasks', need, done, nodes, order, asked)
       /\ \A u \in Task : tasks'[u].runs = "final" => tasks[u].runs = "final"
       /\ status' \in [Plugin -> Statuses] /\ applies' \in [Plugin -> Nat]
       /\ StartsSound(status', applies', need, done)
  <2>1. CASE /\ tasks' = [tasks EXCEPT ![t].at = "after"]
             /\ status' = after /\ UNCHANGED applies
    <3>1. \A u \in Task : InitSound(tasks[u], need, done, nodes)
                          /\ FinalSound(tasks[u], Settled(tasks, done, u), need, order, asked)
      BY <1>10 DEF TasksSound
    <3>2. tasks[t].plugin \in done
      BY <1>7, <1>8
    <3>3. /\ Tree(MovedTo(tasks, t, "after"))
          /\ TasksSound(MovedTo(tasks, t, "after"), need, done, nodes, order, asked)
          /\ \A u \in Task : MovedTo(tasks, t, "after")[u].runs = tasks[u].runs
      <4>1. MayMove(tasks, t, "after", done)
        BY <1>6, <3>2 DEF MayMove
      <4>2. SoundExcept(tasks, t, need, done, nodes, order, asked)
        BY <3>1 DEF SoundExcept
      <4> QED
        BY <1>3, <4>1, <4>2, MoveKeeps
    <3> QED
      BY <1>5, <1>12, <2>1, <3>3 DEF MovedTo
  <2>2. CASE Plugins!GoOn(tasks, after, t, nodes, Plugins!ReadyPlugins(after))
    <3>1. PICK left : left = Plugins!ReadyPlugins(after)
      OBVIOUS
    <3>2. Plugins!GoOn(tasks, after, t, nodes, left)
      BY <2>2, <3>1
    <3>3. GoOnOf(tasks, after, status, applies, t, nodes, left, tasks', status', applies')
      BY <3>2 DEF GoOnOf, BeginOf, Plugins!GoOn, Plugins!Begin, Plugins!Skips, Passes
    <3>4. tasks \in [Task -> TaskRecord]
      BY <1>3 DEF Tree
    <3>5. GoesOn(tasks, after, status, applies, t, nodes, left, tasks', status', applies')
      BY <3>3, <3>4, GoOnIs
    <3>6. \A i \in left : i \in DOMAIN nodes /\ need[nodes[i]] \subseteq done
      <4>1. configDeps \in [Plugin -> Seq(Plugin)]
        BY <1>3 DEF PluginShapes, PluginAssumption
      <4>2. left \subseteq ReadyAt(nodes, configDeps, after)
        BY <3>1 DEF Plugins!ReadyPlugins, Plugins!DepsReady, ReadyAt
      <4>3. need = NeedOf(configDeps)
        BY <1>1 DEF Need
      <4> QED
        BY <1>5, <1>12, <4>1, <4>2, <4>3, ReadyMayStart
    <3>7. \A q \in Plugin : status[q] = "initialized" => q \in done
      BY <1>3, <1>8 DEF StartsSound
    <3>8. InitDone(tasks, t, left, status, need, done, nodes)
      BY <1>4, <1>5, <1>6, <1>7, <1>8, <3>6, <3>7 DEF InitDone
    <3> QED
      BY <1>3, <1>5, <1>10, <1>12, <3>5, <3>8, InitGoesOn
  <2> QED
    BY <1>7, <1>11, <2>1, <2>2 DEF Plugins!ApplyReturns
<1>14. PluginShapes'
  <2>1. completed' = Counted(completed, p)
    BY <1>4, <1>7 DEF Counted
  <2>2. completed' \in [Plugin -> Nat]
    BY <1>5, <2>1 DEF Counted
  <2> QED
    BY <1>3, <1>4, <1>13, <2>2 DEF PluginShapes
<1>15. FinalOnce'
  BY <1>3, <1>4, <1>13 DEF FinalOnce
<1>16. final' = "resolved" => asked' \subseteq done
  BY <1>2, <1>4, <1>8 DEF PluginInv
<1> QED
  BY <1>4, <1>9, <1>13, <1>14, <1>15, <1>16 DEF PluginInv

\* What a loop awaits is done, and it goes on.
LEMMA LoopNextKeeps ==
  ASSUME PluginAssumption, PluginInv, NEW t \in Task, Plugins!LoopNext(t)
  PROVE  PluginInv'
<1>1. PICK need : need = Need
  OBVIOUS
<1>2. PICK done : done = Applied
  OBVIOUS
<1>3. /\ Tree(tasks) /\ TasksSound(tasks, need, done, nodes, order, asked)
      /\ StartsSound(status, applies, need, done)
      /\ PluginShapes /\ FinalOnce /\ Plugins!None \notin Task
  BY <1>1, <1>2 DEF PluginInv, PluginAssumption
<1>4. /\ nodes' = nodes /\ configDeps' = configDeps /\ order' = order /\ asked' = asked
      /\ completed' = completed /\ initialized' = initialized /\ final' = final
      /\ tasks[t].at = "loop" /\ \A u \in Task : tasks[u].parent # t
  BY DEF Plugins!LoopNext, Plugins!AwaitsChild
<1>5. Need' = need /\ Applied' = done
  BY <1>1, <1>2, <1>4 DEF Need, Applied
<1>6. tasks \in [Task -> TaskRecord] /\ tasks[t] \in TaskRecord /\ tasks[t].runs # "nothing"
  BY <1>3, <1>4 DEF Tree, Plugins!Free
<1>7. PICK left : left = tasks[t].todo
  OBVIOUS
<1>8. PICK list : list = IF tasks[t].runs = "final" THEN order ELSE nodes
  OBVIOUS
<1>9. GoesOn(tasks, status, status, applies, t, list, left, tasks', status', applies')
  <2>1. Plugins!GoOn(tasks, status, t, list, left)
    BY <1>7, <1>8 DEF Plugins!LoopNext
  <2>2. GoOnOf(tasks, status, status, applies, t, list, left, tasks', status', applies')
    BY <2>1 DEF GoOnOf, BeginOf, Plugins!GoOn, Plugins!Begin, Plugins!Skips, Passes
  <2> QED
    BY <1>6, <2>2, GoOnIs
<1>10. ListLeft(tasks, t, left) = tasks
  <2>1. Loop(tasks[t], left) = tasks[t]
    BY <1>4, <1>6, <1>7 DEF Loop, TaskRecord
  <2> QED
    BY <1>6, <2>1 DEF ListLeft
<1>11. GoesThrough(tasks, t, list, left, status, done, nodes, order)
  <2>1. left \subseteq Nat
    BY <1>6, <1>7 DEF TaskRecord
  <2>2. \A p \in Plugin : status[p] = "initialized" => p \in done
    BY <1>3 DEF StartsSound
  <2>3. \A i \in left : list[i] \in Plugin
    <3>1. nodes \in Seq(Plugin) /\ order \in Seq(Plugin)
      BY <1>3 DEF PluginShapes
    <3>2. /\ \A i \in DOMAIN nodes : nodes[i] \in Plugin
          /\ \A i \in DOMAIN order : order[i] \in Plugin
      BY <3>1
    <3>3. /\ InitSound(tasks[t], need, done, nodes)
          /\ FinalSound(tasks[t], Settled(tasks, done, t), need, order, asked)
      BY <1>3 DEF TasksSound
    <3>4. CASE tasks[t].runs = "final"
      BY <1>4, <1>7, <1>8, <3>2, <3>3, <3>4 DEF FinalSound, Ordered
    <3>5. CASE tasks[t].runs = "init"
      BY <1>4, <1>7, <1>8, <3>2, <3>3, <3>5 DEF InitSound
    <3> QED
      BY <1>6, <3>4, <3>5 DEF TaskRecord
  <2> QED
    BY <1>4, <1>6, <1>8, <2>1, <2>2, <2>3 DEF GoesThrough
<1>12. /\ Tree(tasks') /\ TasksSound(tasks', need, done, nodes, order, asked)
       /\ \A u \in Task : tasks'[u].runs = "final" => tasks[u].runs = "final"
       /\ status' \in [Plugin -> Statuses] /\ applies' \in [Plugin -> Nat]
       /\ StartsSound(status', applies', need, done)
  <2>1. /\ Tree(ListLeft(tasks, t, left))
        /\ TasksSound(ListLeft(tasks, t, left), need, done, nodes, order, asked)
    BY <1>3, <1>10
  <2>2. status \in [Plugin -> Statuses] /\ applies \in [Plugin -> Nat]
    BY <1>3 DEF PluginShapes
  <2> QED
    BY <1>3, <1>9, <1>11, <2>1, <2>2, GoOnKeeps
<1>13. PluginShapes' /\ FinalOnce'
  BY <1>3, <1>4, <1>12 DEF PluginShapes, FinalOnce
<1>14. final' = "resolved" => asked' \subseteq done
  BY <1>2, <1>4 DEF PluginInv
<1> QED
  BY <1>4, <1>5, <1>12, <1>13, <1>14 DEF PluginInv

\* A task comes to the end of its loop.
LEMMA ResolveKeeps ==
  ASSUME PluginAssumption, PluginInv, NEW t \in Task, Plugins!Resolve(t)
  PROVE  PluginInv'
<1>1. PICK need : need = Need
  OBVIOUS
<1>2. PICK done : done = Applied
  OBVIOUS
<1>3. /\ Tree(tasks) /\ TasksSound(tasks, need, done, nodes, order, asked)
      /\ StartsSound(status, applies, need, done)
      /\ PluginShapes /\ FinalOnce /\ Plugins!None \notin Task
  BY <1>1, <1>2 DEF PluginInv, PluginAssumption
<1>4. /\ nodes' = nodes /\ configDeps' = configDeps /\ order' = order /\ asked' = asked
      /\ completed' = completed /\ initialized' = initialized
      /\ status' = status /\ applies' = applies
      /\ tasks[t].at = "loop" /\ tasks[t].todo = {} /\ \A u \in Task : tasks[u].parent # t
      /\ tasks' = [tasks EXCEPT ![t] = Plugins!Free]
      /\ final' = IF tasks[t].runs = "final" THEN "resolved" ELSE final
  BY DEF Plugins!Resolve, Plugins!AwaitsChild
<1>5. Need' = need /\ Applied' = done
  BY <1>1, <1>2, <1>4 DEF Need, Applied
<1>6. tasks \in [Task -> TaskRecord] /\ tasks[t].runs \in {"init", "final"}
  BY <1>3, <1>4 DEF Tree, Plugins!Free, TaskRecord
<1>7. /\ InitSound(tasks[t], need, done, nodes)
      /\ FinalSound(tasks[t], Settled(tasks, done, t), need, order, asked)
  BY <1>3 DEF TasksSound
<1>8. Tree(tasks')
  BY <1>3, <1>4, TreeFrees
<1>9. TasksSound(tasks', need, done, nodes, order, asked)
  <2>1. \A u \in Task : tasks[t].parent # u \/ tasks[t].plugin \in done
    BY <1>3, <1>4, <1>6, <1>7 DEF InitSound, Tree
  <2>2. \A u \in Task :
          /\ InitSound(tasks'[u], need, done, nodes)
          /\ tasks[t].parent # u \/ tasks[t].plugin \in done
               => FinalSound(tasks'[u], Settled(tasks', done, u), need, order, asked)
    BY <1>3, <1>4, SoundFrees
  <2> QED
    BY <2>1, <2>2 DEF TasksSound
<1>10. \A u \in Task : tasks'[u].runs = "final" => tasks[u].runs = "final" /\ u # t
  <2>1. Plugins!Free.runs = "nothing"
    BY DEF Plugins!Free
  <2> QED
    BY <1>4, <1>6, <2>1
<1>11. FinalOnce'
  BY <1>3, <1>4, <1>10 DEF FinalOnce
<1>12. final' = "resolved" => asked' \subseteq done
  <2>1. CASE tasks[t].runs = "final"
    <3>1. Settled(tasks, done, t) = done
      BY <1>4 DEF Settled
    <3> QED
      BY <1>4, <1>7, <2>1, <3>1 DEF FinalSound, Ordered
  <2>2. CASE tasks[t].runs # "final"
    BY <1>2, <1>4, <2>2 DEF PluginInv
  <2> QED
    BY <2>1, <2>2
<1>13. PluginShapes'
  BY <1>3, <1>4 DEF PluginShapes
<1> QED
  BY <1>3, <1>4, <1>5, <1>8, <1>9, <1>11, <1>12, <1>13 DEF PluginInv

\* A task fails, and what awaits it with it.
LEMMA RejectKeeps ==
  ASSUME PluginAssumption, PluginInv, NEW t \in Task, Plugins!Reject(t)
  PROVE  PluginInv'
<1>1. PICK need : need = Need
  OBVIOUS
<1>2. PICK done : done = Applied
  OBVIOUS
<1>3. /\ Tree(tasks) /\ TasksSound(tasks, need, done, nodes, order, asked)
      /\ StartsSound(status, applies, need, done)
      /\ PluginShapes /\ FinalOnce /\ Plugins!None \notin Task
  BY <1>1, <1>2 DEF PluginInv, PluginAssumption
<1>4. PICK up : up = tasks[t].parent
  OBVIOUS
<1>5. PICK gone : gone = [tasks EXCEPT ![t] = Plugins!Free]
  OBVIOUS
<1>6. /\ nodes' = nodes /\ configDeps' = configDeps /\ order' = order /\ asked' = asked
      /\ completed' = completed /\ initialized' = initialized
      /\ status' = status /\ applies' = applies /\ tasks[t].at = "failed"
      /\ tasks' = IF up = Plugins!None THEN gone ELSE MovedTo(gone, up, "failed")
      /\ final' = IF tasks[t].runs = "final" THEN "rejected" ELSE final
  BY <1>4, <1>5 DEF Plugins!Reject, MovedTo
<1>7. Need' = need /\ Applied' = done
  BY <1>1, <1>2, <1>6 DEF Need, Applied
<1>8. /\ tasks \in [Task -> TaskRecord] /\ tasks[t].runs \in {"init", "final"}
      /\ \A u \in Task : tasks[u].parent # t /\ up \in Task \cup {Plugins!None}
  BY <1>3, <1>4, <1>6 DEF Tree, Plugins!Free, TaskRecord
<1>9. Tree(gone)
  BY <1>3, <1>5, <1>8, TreeFrees
<1>10. \A u \in Task : /\ InitSound(gone[u], need, done, nodes)
                       /\ up # u => FinalSound(gone[u], Settled(gone, done, u), need, order, asked)
  BY <1>3, <1>4, <1>5, SoundFrees
<1>11. gone[t] = Plugins!Free /\ \A u \in Task \ {t} : gone[u] = tasks[u]
  BY <1>5, <1>8
<1>12. /\ Plugins!Free.runs = "nothing" /\ Plugins!Free.parent = Plugins!None
  BY DEF Plugins!Free
<1>13. /\ Tree(tasks') /\ TasksSound(tasks', need, done, nodes, order, asked)
       /\ \A u \in Task : tasks'[u].runs = gone[u].runs
  <2>1. CASE up = Plugins!None
    BY <1>3, <1>6, <1>9, <1>10, <2>1 DEF TasksSound
  <2>2. CASE up \in Task
    <3>1. tasks[up].at = "loop" /\ up # t
      BY <1>3, <1>4, <1>6, <2>2 DEF Tree
    <3>2. gone[up] = tasks[up] /\ gone[up].runs \in {"init", "final"}
      <4>1. tasks[up].runs \in {"nothing", "init", "final"} /\ tasks[up].runs # "nothing"
        BY <1>3, <1>8, <2>2, <3>1 DEF Tree, TaskRecord, Plugins!Free
      <4> QED
        BY <1>11, <2>2, <3>1, <4>1
    <3>3. \A u \in Task : gone[u].parent # up
      <4>1. \A u \in Task \ {t} : tasks[u].parent # up
        BY <1>3, <1>4, <2>2 DEF Tree
      <4> QED
        BY <1>3, <1>11, <1>12, <2>2, <4>1
    <3>4. \A u \in Task \ {up} : InitSound(gone[u], need, done, nodes)
                                 /\ FinalSound(gone[u], Settled(gone, done, u), need, order, asked)
      BY <1>10
    <3>5. InitSound(gone[up], need, done, nodes)
      BY <1>10, <2>2
    <3>6. /\ Tree(MovedTo(gone, up, "failed"))
          /\ TasksSound(MovedTo(gone, up, "failed"), need, done, nodes, order, asked)
          /\ \A u \in Task : MovedTo(gone, up, "failed")[u].runs = gone[u].runs
      <4>1. MayMove(gone, up, "failed", done)
        BY <2>2, <3>2, <3>3 DEF MayMove
      <4>2. SoundExcept(gone, up, need, done, nodes, order, asked)
        BY <1>10, <3>4 DEF SoundExcept
      <4> QED
        BY <1>3, <1>9, <4>1, <4>2, MoveKeeps
    <3> QED
      BY <1>3, <1>6, <2>2, <3>6
  <2> QED
    BY <1>8, <2>1, <2>2
<1>14. \A u \in Task : tasks'[u].runs = "final" => tasks[u].runs = "final" /\ u # t
  BY <1>11, <1>12, <1>13
<1>15. PluginShapes' /\ FinalOnce'
  BY <1>3, <1>6, <1>14 DEF PluginShapes, FinalOnce
<1>16. final' = "resolved" => asked' \subseteq done
  BY <1>2, <1>6 DEF PluginInv
<1> QED
  BY <1>3, <1>6, <1>7, <1>13, <1>15, <1>16 DEF PluginInv

\* initPlugins(): refuses, or begins the loop over the order.
LEMMA InitPluginsKeeps ==
  ASSUME PluginAssumption, PluginInv, Plugins!InitPlugins
  PROVE  PluginInv'
<1>1. PICK need : need = Need
  OBVIOUS
<1>2. PICK done : done = Applied
  OBVIOUS
<1>3. /\ Tree(tasks) /\ TasksSound(tasks, need, done, nodes, order, asked)
      /\ StartsSound(status, applies, need, done)
      /\ PluginShapes /\ FinalOnce /\ Plugins!None \notin Task
  BY <1>1, <1>2 DEF PluginInv, PluginAssumption
<1>4. /\ nodes' = nodes /\ configDeps' = configDeps /\ completed' = completed
      /\ initialized = "no" /\ initialized' = "yes" /\ asked' = Plugins!Known
  BY DEF Plugins!InitPlugins
<1>5. Need' = need /\ Applied' = done
  BY <1>1, <1>2, <1>4 DEF Need, Applied
<1>6. final = "none" /\ \A u \in Task : tasks[u].runs # "final"
  BY <1>3, <1>4 DEF FinalOnce
<1>7. /\ nodes \in Seq(Plugin) /\ configDeps \in Graphs
      /\ status \in [Plugin -> Statuses] /\ applies \in [Plugin -> Nat]
      /\ \A i, j \in DOMAIN nodes : nodes[i] = nodes[j] => i = j
  BY <1>3 DEF PluginShapes
<1>8. asked' \subseteq Plugin
  BY <1>4, <1>7 DEF Plugins!Known, Plugins!ToSet
<1>9. PICK as : as = asked'
  OBVIOUS
<1>10. ASSUME NEW od PROVE TasksSound(tasks, need, done, nodes, od, as)
  BY <1>3, <1>6 DEF TasksSound, FinalSound
<1>11. CASE final' = "rejected" /\ UNCHANGED <<tasks, status, order, applies>>
  <2>1. FinalOnce' /\ PluginShapes'
    BY <1>3, <1>4, <1>6, <1>8, <1>11 DEF FinalOnce, PluginShapes
  <2>2. TasksSound(tasks, need, done, nodes, order, as)
    BY <1>10
  <2> QED
    BY <1>3, <1>4, <1>5, <1>9, <1>11, <2>1, <2>2 DEF PluginInv
<1>12. CASE /\ ~ Refuses(nodes, configDeps) /\ Plugins!Fresh(tasks) # {}
            /\ order' = ResolveOrder(nodes, configDeps) /\ final' = final
            /\ LET t == Plugins!FreshTask(tasks)
               IN Plugins!GoOn([tasks EXCEPT ![t].runs = "final"], status, t, order', DOMAIN order')
  <2>1. PICK od : od = order'
    OBVIOUS
  <2>2. od \in Seq(Plugin) /\ Plugins!IsOrder(od, nodes, configDeps)
    <3>1. IsGraph(nodes, configDeps)
      BY <1>7 DEF PluginAssumption, IsGraph
    <3>2. od = ResolveOrder(nodes, configDeps) /\ ~ Refuses(nodes, configDeps)
      BY <1>12, <2>1
    <3>3. od \in Seq(Plugin) /\ Search!IsOrder(od, nodes, configDeps)
      BY <3>1, <3>2, SearchesAreRight
    <3> QED
      BY <3>3 DEF Search!IsOrder, Plugins!IsOrder, Search!ToSet, Plugins!ToSet
  <2>3. PICK t \in Task : /\ tasks[t] = Plugins!Free
                          /\ Plugins!GoOn([tasks EXCEPT ![t].runs = "final"], status, t, od,
                                          DOMAIN od)
    <3>1. Plugins!FreshTask(tasks) \in Plugins!Fresh(tasks)
      BY <1>12 DEF Plugins!FreshTask
    <3> QED
      BY <1>12, <2>1, <3>1 DEF Plugins!Fresh
  <2>4. PICK r : r = [Plugins!Free EXCEPT !.runs = "final"]
    OBVIOUS
  <2>5. /\ r \in TaskRecord /\ r.runs = "final" /\ r.parent = Plugins!None
        /\ Plugins!Free \in TaskRecord
    BY <2>4 DEF Plugins!Free, TaskRecord
  <2>6. PICK ts : ts = [tasks EXCEPT ![t] = r]
    OBVIOUS
  <2>7. tasks \in [Task -> TaskRecord] /\ \A u \in Task : tasks[u].parent # t
    BY <1>3, <2>3 DEF Tree, Plugins!Free
  <2>8. /\ ts = [tasks EXCEPT ![t].runs = "final"]
        /\ ts \in [Task -> TaskRecord] /\ ts[t] = r /\ \A u \in Task \ {t} : ts[u] = tasks[u]
    BY <2>3, <2>4, <2>5, <2>6, <2>7
  <2>9. PICK left : left = DOMAIN od
    OBVIOUS
  <2>10. GoesOn(ts, status, status, applies, t, od, left, tasks', status', applies')
    <3>1. Plugins!GoOn(ts, status, t, od, left)
      BY <2>3, <2>8, <2>9
    <3>2. GoOnOf(ts, status, status, applies, t, od, left, tasks', status', applies')
      BY <3>1 DEF GoOnOf, BeginOf, Plugins!GoOn, Plugins!Begin, Plugins!Skips, Passes
    <3> QED
      BY <2>8, <3>2, GoOnIs
  <2>11. left \in SUBSET Nat /\ \A i \in left : od[i] \in Plugin
    BY <2>2, <2>9
  <2>12. GoesThrough(ts, t, od, left, status, done, nodes, od)
    <3>1. \A u \in Task : ts[u].parent # t
      BY <1>3, <2>5, <2>7, <2>8
    <3>2. \A p \in Plugin : status[p] = "initialized" => p \in done
      BY <1>3 DEF StartsSound
    <3> QED
      BY <2>5, <2>8, <2>11, <3>1, <3>2 DEF GoesThrough
  <2>13. PICK looping : looping = Loop(r, left)
    OBVIOUS
  <2>14. /\ looping \in TaskRecord /\ looping.runs = "final" /\ looping.at = "loop"
         /\ looping.parent = Plugins!None /\ looping.todo = left
    BY <2>5, <2>11, <2>13, LoopRecord DEF SameCall
  <2>15. PICK lp : lp = [tasks EXCEPT ![t] = looping]
    OBVIOUS
  <2>16. lp = ListLeft(ts, t, left)
    BY <2>6, <2>7, <2>8, <2>13, <2>15 DEF ListLeft
  <2>17. Tree(lp)
    BY <1>3, <2>3, <2>14, <2>15, TreeGrows DEF MayJoin
  <2>18. lp[t] = looping /\ \A u \in Task \ {t} : lp[u] = tasks[u]
    BY <2>7, <2>15
  <2>19. Ordered(left, Settled(lp, done, t), need, od, as)
    <3>1. as = Plugins!ToSet(od)
      BY <1>4, <1>9, <2>2 DEF Plugins!Known, Plugins!IsOrder
    <3>2. \A p \in as : \E j \in left : od[j] = p
      BY <2>9, <3>1 DEF Plugins!ToSet
    <3>3. ASSUME NEW i \in left, NEW d \in need[od[i]]
          PROVE  \E j \in left : j < i /\ od[j] = d
      <4>1. PICK p \in Plugin : p = od[i]
        BY <2>11
      <4>2. d \in Plugins!ToSet(configDeps[p])
        BY <1>1, <3>3, <4>1 DEF Need, NeedOf
      <4>3. PICK j \in 1..(i - 1) : od[j] = d
        BY <2>2, <2>9, <4>1, <4>2 DEF Plugins!IsOrder
      <4>4. i \in 1..Len(od) /\ left = 1..Len(od) /\ Len(od) \in Nat
        BY <2>2, <2>9
      <4>5. j \in left /\ j < i
        BY <4>4
      <4> QED
        BY <4>3, <4>5
    <3> QED
      BY <2>9, <3>2, <3>3 DEF Ordered
  <2>20. TasksSound(lp, need, done, nodes, od, as)
    <3>1. ASSUME NEW u \in Task
          PROVE  /\ InitSound(lp[u], need, done, nodes)
                 /\ FinalSound(lp[u], Settled(lp, done, u), need, od, as)
      <4>1. CASE u = t
        BY <2>14, <2>18, <2>19, <4>1 DEF InitSound, FinalSound
      <4>2. CASE u # t
        <5>1. lp[u] = tasks[u] /\ InitSound(tasks[u], need, done, nodes)
          BY <1>3, <2>18, <4>2 DEF TasksSound
        <5> QED
          BY <1>6, <5>1 DEF FinalSound
      <4> QED
        BY <4>1, <4>2
    <3> QED
      BY <3>1 DEF TasksSound
  <2>21. /\ Tree(tasks') /\ TasksSound(tasks', need, done, nodes, od, as)
         /\ \A u \in Task : tasks'[u].runs = "final" => ts[u].runs = "final"
         /\ status' \in [Plugin -> Statuses] /\ applies' \in [Plugin -> Nat]
         /\ StartsSound(status', applies', need, done)
    <3>1. /\ Tree(ListLeft(ts, t, left))
          /\ TasksSound(ListLeft(ts, t, left), need, done, nodes, od, as)
      BY <2>16, <2>17, <2>20
    <3> QED
      BY <1>3, <1>7, <2>10, <2>12, <3>1, GoOnKeeps
  <2>22. \A u \in Task : tasks'[u].runs = "final" => u = t
    BY <1>6, <2>8, <2>21
  <2>23. FinalOnce'
    BY <1>4, <1>6, <1>12, <2>22 DEF FinalOnce
  <2>24. PluginShapes'
    BY <1>3, <1>4, <1>8, <2>1, <2>2, <2>21 DEF PluginShapes
  <2> QED
    BY <1>4, <1>5, <1>6, <1>9, <1>12, <2>1, <2>21, <2>23, <2>24 DEF PluginInv
<1> QED
  BY <1>11, <1>12 DEF Plugins!InitPlugins

\* Every step keeps the invariant of the initialisation.
LEMMA PluginInvHolds ==
  ASSUME PluginAssumption
  PROVE  Plugins!Spec => []PluginInv
<1>1. Plugins!Init => PluginInv
  <2> SUFFICES ASSUME Plugins!Init PROVE PluginInv
    OBVIOUS
  <2>1. /\ Plugins!Free \in TaskRecord /\ Plugins!Free.runs = "nothing"
        /\ Plugins!Free.parent = Plugins!None
    BY DEF Plugins!Free, TaskRecord
  <2>2. tasks = [t \in Task |-> Plugins!Free]
    BY DEF Plugins!Init
  <2>3. Tree(tasks)
    BY <2>1, <2>2 DEF Tree, PluginAssumption
  <2>4. TasksSound(tasks, Need, Applied, nodes, order, asked)
    BY <2>1, <2>2 DEF TasksSound, InitSound, FinalSound
  <2>5. FinalOnce
    BY <2>1, <2>2 DEF FinalOnce, Plugins!Init
  <2>6. PluginShapes
    BY DEF PluginShapes, Plugins!Init, Statuses
  <2>7. StartsSound(status, applies, Need, Applied)
    BY DEF StartsSound, Plugins!Init
  <2> QED
    BY <2>3, <2>4, <2>5, <2>6, <2>7 DEF PluginInv, Plugins!Init
<1>2. PluginInv /\ [Plugins!Next]_plugins => PluginInv'
  <2> SUFFICES ASSUME PluginInv, [Plugins!Next]_plugins PROVE PluginInv'
    OBVIOUS
  <2>1. CASE \E p \in Plugin : Plugins!AddPlugin(p)
    BY <2>1, AddPluginKeeps
  <2>2. CASE Plugins!InitPlugins
    BY <2>2, InitPluginsKeeps
  <2>3. ASSUME NEW t \in Task, Plugins!Step(t) PROVE PluginInv'
    BY <2>3, HookedApplyKeeps, ApplyReturnsKeeps, AfterReturnsKeeps, ThrowsKeeps, LoopNextKeeps,
       ResolveKeeps, RejectKeeps DEF Plugins!Step
  <2>4. CASE UNCHANGED plugins
    BY <2>4 DEF PluginInv, PluginShapes, FinalOnce, Need, Applied, plugins
  <2> QED
    BY <2>1, <2>2, <2>3, <2>4 DEF Plugins!Next, Plugins!InitPluginsAgain, Plugins!vars, plugins
<1> QED
  BY <1>1, <1>2, PTL DEF Plugins!Spec, Plugins!vars, plugins

\* apply() of a plugin begins only when apply() of everything it depends on has
\* returned, whether plugin(), a flush or initPlugins() started it.
THEOREM DepsBeforeApplyHolds ==
  ASSUME PluginAssumption
  PROVE  Plugins!Spec => []DepsBeforeApply
<1>1. PluginInv => DepsBeforeApply
  <2> SUFFICES ASSUME PluginInv, NEW p \in Plugin, applies[p] > 0,
                      NEW d \in Plugins!ToSet(configDeps[p])
               PROVE  completed[d] > 0
    BY DEF DepsBeforeApply, Plugins!DepsBeforeApply
  <2>1. Need[p] \subseteq Applied
    BY DEF PluginInv, StartsSound
  <2> QED
    BY <2>1 DEF Need, NeedOf, Applied
<1> QED
  BY <1>1, PluginInvHolds, PTL

\* When initPlugins() resolves, apply() of every plugin known when it was called
\* has returned.
THEOREM FinalAwaitsAllHolds ==
  ASSUME PluginAssumption
  PROVE  Plugins!Spec => []FinalAwaitsAll
<1>1. PluginInv => FinalAwaitsAll
  BY DEF PluginInv, Applied, FinalAwaitsAll, Plugins!FinalAwaitsAll
<1> QED
  BY <1>1, PluginInvHolds, PTL
=============================================================================
