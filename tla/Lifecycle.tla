----------------------------- MODULE Lifecycle -----------------------------
(***************************************************************************)
(* Graceful shutdown: LifecycleManager of src/lifecycle.ts with            *)
(* drainWebSockets(), stop() and the WebSocket callbacks of src/asi.ts.    *)
(* Every shutdown() call races its drain and then its handlers against one *)
(* timer; the loser of a race goes on in the background.                   *)
(***************************************************************************)
EXTENDS Naturals, FiniteSets

CONSTANTS
  Call,        \* the shutdown() calls
  Conn,        \* the WebSocket connections clients may open
  MaxHandlers  \* bound on the shutdown handlers registered

ASSUME LifecycleAssumption == MaxHandlers \in Nat \ {0}

VARIABLES
  handlers,    \* length of shutdownHandlers
  shutting,    \* isShuttingDown
  listening,   \* the server accepts connections
  conn,        \* each connection: out, asked, open, closing (frame sent), closed, or
               \* forgotten by the error callback, not closed yet
  active,      \* activeWsConnections
  at,          \* each call: new, draining, running (its handlers) or over
  result,      \* how it ended: ok, skipped or failed
  bySignal,    \* it was made by a signal, which exits the process after it
  timer,       \* its graceful timeout: idle, armed or fired
  drain,       \* its drainWebSockets(): none, polling or done
  loop,        \* the handler its runShutdownHandlers() awaits, 0 for none
  exited,      \* the process: no, clean (status 0) or failed (status 1)
  found,       \* history: connections active when the call began
  due,         \* history: handlers registered when the call began
  ran          \* history: the handlers its loop saw return

connVars == <<listening, conn, active>>
callVars == <<at, result, bySignal, timer, drain, loop>>
history == <<found, due, ran>>
vars == <<handlers, shutting, connVars, callVars, exited, history>>

Init ==
  /\ handlers \in 0..MaxHandlers
  /\ shutting = FALSE /\ listening = TRUE
  /\ conn = [w \in Conn |-> "out"] /\ active = {}
  /\ at = [c \in Call |-> "new"] /\ result = [c \in Call |-> "none"]
  /\ bySignal = [c \in Call |-> FALSE] /\ timer = [c \in Call |-> "idle"]
  /\ drain = [c \in Call |-> "none"] /\ loop = [c \in Call |-> 0]
  /\ exited = "no"
  /\ found = [c \in Call |-> {}] /\ due = [c \in Call |-> 0]
  /\ ran = [c \in Call |-> {}]

Alive == exited = "no"

-----------------------------------------------------------------------------
(* Clients. *)

\* A request to upgrade, which beforeUpgrade() may keep waiting.
Ask(w) ==
  /\ Alive /\ listening /\ conn[w] = "out"
  /\ conn' = [conn EXCEPT ![w] = "asked"]
  /\ UNCHANGED <<handlers, shutting, listening, active, callVars, exited, history>>

\* The upgrade, whatever has happened to the server meanwhile.
Upgrade(w) ==
  /\ Alive /\ conn[w] = "asked"
  /\ conn' = [conn EXCEPT ![w] = "open"]
  /\ active' = active \cup {w}
  /\ UNCHANGED <<handlers, shutting, listening, callVars, exited, history>>

\* The close callback, whoever closed.
Closes(w) ==
  /\ Alive /\ conn[w] \in {"open", "closing", "forgotten"}
  /\ conn' = [conn EXCEPT ![w] = "closed"]
  /\ active' = active \ {w}
  /\ UNCHANGED <<handlers, shutting, listening, callVars, exited, history>>

\* The error callback: the connection is no longer counted, but it is not closed.
Errs(w) ==
  /\ Alive /\ conn[w] \in {"open", "closing"}
  /\ conn' = [conn EXCEPT ![w] = "forgotten"]
  /\ active' = active \ {w}
  /\ UNCHANGED <<handlers, shutting, listening, callVars, exited, history>>

\* onShutdown(), also while the handlers run.
OnShutdown ==
  /\ Alive /\ handlers < MaxHandlers
  /\ handlers' = handlers + 1
  /\ UNCHANGED <<shutting, connVars, callVars, exited, history>>

-----------------------------------------------------------------------------
(* shutdown(). *)
Finish(c, how) ==
  /\ at' = [at EXCEPT ![c] = "over"]
  /\ result' = [result EXCEPT ![c] = how]

\* stop() does not close the connections it forgets; the first handler is
\* called at once.
StopAndRun(c) ==
  /\ listening' = FALSE /\ active' = {}
  /\ IF handlers = 0
     THEN Finish(c, "ok") /\ shutting' = FALSE /\ UNCHANGED loop
     ELSE /\ at' = [at EXCEPT ![c] = "running"]
          /\ loop' = [loop EXCEPT ![c] = 1]
          /\ shutting' = TRUE
          /\ UNCHANGED result

\* A call that finds a shutdown in progress returns.
ShutdownSkipped(c, signal) ==
  /\ Alive /\ at[c] = "new" /\ shutting
  /\ Finish(c, "skipped")
  /\ bySignal' = [bySignal EXCEPT ![c] = signal]
  /\ UNCHANGED <<handlers, shutting, connVars, timer, drain, loop, exited, history>>

\* Others arm the timer and send the close frames, if anybody is connected.
Begin(c, signal) ==
  /\ Alive /\ at[c] = "new"
  /\ bySignal' = [bySignal EXCEPT ![c] = signal]
  /\ timer' = [timer EXCEPT ![c] = "armed"]
  /\ found' = [found EXCEPT ![c] = active] /\ due' = [due EXCEPT ![c] = handlers]
  /\ IF active = {}
     THEN StopAndRun(c) /\ UNCHANGED <<conn, drain>>
     ELSE /\ shutting' = TRUE
          /\ at' = [at EXCEPT ![c] = "draining"]
          /\ drain' = [drain EXCEPT ![c] = "polling"]
          /\ conn' = [w \in Conn |-> IF w \in active THEN "closing" ELSE conn[w]]
          /\ UNCHANGED <<listening, active, result, loop>>
  /\ UNCHANGED <<handlers, exited, ran>>

Shutdown(c, signal) == ~ shutting /\ Begin(c, signal)

\* The drain's next look finds nobody left, or its deadline has passed and it
\* terminates those that are; connections made meanwhile count too.
DrainLeaves(c) ==
  /\ Alive /\ drain[c] = "polling"
  /\ drain' = [drain EXCEPT ![c] = "done"]
  /\ IF at[c] = "draining"
     THEN StopAndRun(c)
     ELSE active' = {} /\ UNCHANGED <<listening, shutting, at, result, loop>>
  /\ UNCHANGED <<handlers, conn, bySignal, timer, exited, history>>

Drained(c) ==
  /\ Alive /\ drain[c] = "polling"
  /\ drain' = [drain EXCEPT ![c] = "done"]
  /\ conn' = [w \in Conn |-> IF w \in active THEN "closed" ELSE conn[w]]
  /\ IF at[c] = "draining"
     THEN StopAndRun(c)
     ELSE active' = {} /\ UNCHANGED <<listening, shutting, at, result, loop>>
  /\ UNCHANGED <<handlers, bySignal, timer, exited, history>>

\* A handler returned: the next one is called, or the loop is over.
HandlerReturns(c) ==
  /\ Alive /\ loop[c] > 0
  /\ ran' = [ran EXCEPT ![c] = @ \cup {loop[c]}]
  /\ IF loop[c] < handlers
     THEN /\ loop' = [loop EXCEPT ![c] = @ + 1]
          /\ UNCHANGED <<at, result, shutting>>
     ELSE /\ loop' = [loop EXCEPT ![c] = 0]
          /\ IF at[c] = "running"
             THEN Finish(c, "ok") /\ shutting' = FALSE
             ELSE UNCHANGED <<at, result, shutting>>
  /\ UNCHANGED <<handlers, connVars, bySignal, timer, drain, exited, found, due>>

HandlerThrows(c) ==
  /\ Alive /\ loop[c] > 0
  /\ loop' = [loop EXCEPT ![c] = 0]
  /\ IF at[c] = "running"
     THEN Finish(c, "failed") /\ shutting' = FALSE
     ELSE UNCHANGED <<at, result, shutting>>
  /\ UNCHANGED <<handlers, connVars, bySignal, timer, drain, exited, history>>

\* The graceful timeout ends the call; what it awaited goes on.
TimesOutDone(c) ==
  /\ Alive /\ timer[c] = "armed"
  /\ timer' = [timer EXCEPT ![c] = "fired"]
  /\ IF at[c] \in {"draining", "running"}
     THEN Finish(c, "ok") /\ shutting' = FALSE
     ELSE UNCHANGED <<at, result, shutting>>
  /\ UNCHANGED <<handlers, connVars, bySignal, drain, loop, exited, history>>

TimesOut(c) ==
  /\ Alive /\ timer[c] = "armed"
  /\ timer' = [timer EXCEPT ![c] = "fired"]
  /\ IF at[c] \in {"draining", "running"}
     THEN Finish(c, "failed") /\ shutting' = FALSE
     ELSE UNCHANGED <<at, result, shutting>>
  /\ UNCHANGED <<handlers, connVars, bySignal, drain, loop, exited, history>>

\* The signal handler's then() and catch().
ExitOnSuccess(c) ==
  /\ Alive /\ bySignal[c] /\ result[c] \in {"ok", "skipped"}
  /\ exited' = "clean"
  /\ UNCHANGED <<handlers, shutting, connVars, callVars, history>>

Exit(c) ==
  /\ Alive /\ bySignal[c] /\ at[c] = "over"
  /\ exited' = IF result[c] = "failed" THEN "failed" ELSE "clean"
  /\ UNCHANGED <<handlers, shutting, connVars, callVars, history>>

Next ==
  \/ OnShutdown
  \/ \E w \in Conn : Ask(w) \/ Upgrade(w) \/ Closes(w) \/ Errs(w)
  \/ \E c \in Call :
       \/ \E signal \in BOOLEAN : Shutdown(c, signal) \/ ShutdownSkipped(c, signal)
       \/ Drained(c) \/ HandlerReturns(c) \/ HandlerThrows(c) \/ TimesOut(c) \/ Exit(c)

Spec == Init /\ [][Next]_vars

\* Timers fire and the callbacks of settled promises run; clients, handlers and
\* the drain owe nothing.
Progress == \E c \in Call : TimesOut(c) \/ Exit(c)
FairSpec == Spec /\ WF_vars(Progress)

-----------------------------------------------------------------------------
\* The handlers of a shutdown, which close what requests need, run only once
\* the server no longer listens and every connection its drain found is gone, but
\* for those an error made it forget, which may be open still.
DrainedFirst ==
  \A c \in Call :
    loop[c] > 0 => ~ listening /\ \A w \in found[c] : conn[w] \in {"closed", "forgotten"}

\* Two shutdowns never run handlers side by side unless one of them timed out
\* and left its handlers running.
OneAtATime ==
  (\A c \in Call : timer[c] # "fired") =>
    Cardinality({c \in Call : loop[c] > 0}) <= 1

\* Status 0 means that every handler registered when the shutdown began has
\* returned, unless the exit is of a later signal that found it in progress.
CleanExit ==
  exited = "clean" /\ (\A c \in Call : result[c] # "skipped") =>
    \E c \in Call : bySignal[c] /\ result[c] = "ok" /\ 1..due[c] \subseteq ran[c]

\* A signal ends the process, though clients never close and handlers hang.
SignalEnds == (\E c \in Call : bySignal[c]) ~> exited # "no"
=============================================================================
