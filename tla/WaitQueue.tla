------------------------------ MODULE WaitQueue ------------------------------
(***************************************************************************)
(* What a pool of connections promises its clients, with no queue index,   *)
(* no compaction and no sockets: a client is idle, waiting or served; the  *)
(* waiting ones are served one at a time, first come first served, each by *)
(* a served client that leaves; shutting down abandons whoever waits.      *)
(***************************************************************************)
EXTENDS Naturals, Sequences

CONSTANT Client
VARIABLES status, queue
vars == <<status, queue>>

Init == status = [c \in Client |-> "idle"] /\ queue = <<>>

Serve(c) ==
  /\ status[c] = "idle"
  /\ status' = [status EXCEPT ![c] = "served"]
  /\ UNCHANGED queue

Enqueue(c) ==
  /\ status[c] = "idle"
  /\ status' = [status EXCEPT ![c] = "waiting"]
  /\ queue' = Append(queue, c)

\* A served client leaves; if somebody waits, the first in line is served.
Leave(c) ==
  /\ status[c] = "served"
  /\ IF queue = <<>>
     THEN /\ status' = [status EXCEPT ![c] = "idle"]
          /\ UNCHANGED queue
     ELSE /\ status' = [status EXCEPT ![c] = "idle", ![Head(queue)] = "served"]
          /\ queue' = Tail(queue)

\* A client that could not be served after all: nobody takes its place.
GiveUp(c) ==
  /\ status[c] = "served"
  /\ status' = [status EXCEPT ![c] = "idle"]
  /\ UNCHANGED queue

Abandon == queue' = <<>> /\ UNCHANGED status

Next == Abandon \/ \E c \in Client : Serve(c) \/ Enqueue(c) \/ Leave(c) \/ GiveUp(c)

Spec == Init /\ [][Next]_vars
=============================================================================
