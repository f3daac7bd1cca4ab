-------------------------- MODULE GraphQLTransport --------------------------
(***************************************************************************)
(* The WebSocket transport of packages/graphql-asijs/src/transport.ts: one *)
(* map of subscriptions, keyed by the ids the clients choose, serves every *)
(* connection of the application.                                          *)
(***************************************************************************)
EXTENDS Naturals

CONSTANTS
  Conn,     \* the connections
  Id,       \* the ids of their messages
  MaxSubs   \* bound on the operations asked for

Sub == 1..MaxSubs
None == 0

VARIABLES
  socket,    \* each connection: "new", "open" or "closed"
  kaTimer,   \* the connection the keep-alive timer pings, if it runs
  subs,      \* the map: each id's operation, or None
  op,        \* each operation: its connection and id, and where its loop is
  cancelled, \* operations cancelled
  told,      \* history: operations whose client was sent "complete" or "error"
  asked      \* history: operations their own client completed

vars == <<socket, kaTimer, subs, op, cancelled, told, asked>>

Init ==
  /\ socket = [c \in Conn |-> "new"]
  /\ kaTimer = {}
  /\ subs = [i \in Id |-> None]
  /\ op = [s \in Sub |-> [at |-> "none"]]
  /\ cancelled = {} /\ told = {} /\ asked = {}

\* open(): the first connection gets the timer.
Open(c) ==
  /\ socket[c] = "new"
  /\ socket' = [socket EXCEPT ![c] = "open"]
  /\ kaTimer' = IF kaTimer = {} THEN {c} ELSE kaTimer
  /\ UNCHANGED <<subs, op, cancelled, told, asked>>

\* "subscribe": the id's entry is overwritten, and the loop asks its source.
Subscribe(c, i) ==
  \E s \in Sub :
    /\ socket[c] = "open"
    /\ op[s].at = "none" /\ \A z \in Sub : z < s => op[z].at # "none"
    /\ op' = [op EXCEPT ![s] = [at |-> "asking", conn |-> c, id |-> i]]
    /\ subs' = [subs EXCEPT ![i] = s]
    /\ UNCHANGED <<socket, kaTimer, cancelled, told, asked>>

\* "subscribe" with a query that has one result.
Query(c, i) ==
  \E s \in Sub :
    /\ socket[c] = "open"
    /\ op[s].at = "none" /\ \A z \in Sub : z < s => op[z].at # "none"
    /\ op' = [op EXCEPT ![s] = [at |-> "querying", conn |-> c, id |-> i]]
    /\ UNCHANGED <<socket, kaTimer, subs, cancelled, told, asked>>

\* "complete" and "next", or "error".
QueryAnswers(s) ==
  /\ op[s].at = "querying"
  /\ op' = [op EXCEPT ![s].at = "over"]
  /\ told' = told \cup {s}
  /\ UNCHANGED <<socket, kaTimer, subs, cancelled, asked>>

\* The source gives a value, ends or throws; return() may come first or not.
SourceSettles(s, outcome) ==
  /\ op[s].at = "asking"
  /\ op' = [op EXCEPT ![s].at = outcome]
  /\ UNCHANGED <<socket, kaTimer, subs, cancelled, told, asked>>

\* The loop goes on: a value is sent, unless it was cancelled meanwhile.
Forward(s) ==
  /\ op[s].at = "value" /\ s \notin cancelled
  /\ op' = [op EXCEPT ![s].at = "asking"]
  /\ UNCHANGED <<socket, kaTimer, subs, cancelled, told, asked>>

\* It ends: the client is told, unless it was cancelled; the map loses its id.
Finish(s) ==
  /\ \/ op[s].at \in {"ended", "threw"}
     \/ op[s].at = "value" /\ s \in cancelled
  /\ op' = [op EXCEPT ![s].at = "over"]
  /\ told' = IF s \in cancelled THEN told ELSE told \cup {s}
  /\ subs' = [subs EXCEPT ![op[s].id] = None]
  /\ UNCHANGED <<socket, kaTimer, cancelled, asked>>

\* "complete" for an operation of c that runs: the map's, if any, is cancelled.
Complete(c, s) ==
  /\ socket[c] = "open"
  /\ op[s].at \notin {"none", "over"} /\ op[s].conn = c /\ s \notin asked
  /\ asked' = asked \cup {s}
  /\ cancelled' = cancelled \cup ({subs[op[s].id]} \ {None})
  /\ subs' = [subs EXCEPT ![op[s].id] = None]
  /\ UNCHANGED <<socket, kaTimer, op, told>>

\* close(): every subscription is cancelled, whoever's it is.
Close(c) ==
  /\ socket[c] = "open"
  /\ socket' = [socket EXCEPT ![c] = "closed"]
  /\ cancelled' = cancelled \cup ({subs[i] : i \in Id} \ {None})
  /\ subs' = [i \in Id |-> None]
  /\ kaTimer' = {}
  /\ UNCHANGED <<op, told, asked>>

Next ==
  \/ \E c \in Conn : \/ Open(c) \/ Close(c)
                     \/ \E i \in Id : Subscribe(c, i) \/ Query(c, i)
                     \/ \E s \in Sub : Complete(c, s)
  \/ \E s \in Sub : \/ QueryAnswers(s) \/ Forward(s) \/ Finish(s)
                    \/ \E o \in {"value", "ended", "threw"} : SourceSettles(s, o)

Spec == Init /\ [][Next]_vars

-----------------------------------------------------------------------------
\* When the loop of an operation is over, its client knows: it was sent
\* "complete" or "error", asked for the end itself, or is gone.
EndIsTold ==
  \A s \in Sub :
    op[s].at = "over" =>
      s \in told \cup asked \/ socket[op[s].conn] = "closed"
=============================================================================
