---------------------------- MODULE MCDeduplicate ----------------------------
(***************************************************************************)
(* What requests and connections share, bounded for TLC: a behaviour       *)
(* belongs to the rooms of one process, the deduplication of one key, an   *)
(* event stream and its client, the container's resolve() calls, the loads *)
(* of a DataLoader, the subscriptions of a GraphQL transport or two event  *)
(* buses, and the variables of the others stay as they start.  The         *)
(* liveness properties exclude symmetry.                                   *)
(***************************************************************************)
EXTENDS RoomManager, RequestParts, Sequences

VARIABLES
  part,
  socket, kaTimer, subs, op, cancelled, told, asked

\* Two singletons that share a third; a transient used twice over a factory
\* that gives undefined; a cycle at once, and one behind another dependency.
Provider(scope, inject, gives) == [scope |-> scope, inject |-> inject, gives |-> gives]
One(inject) == Provider("singleton", inject, "object")
MCConfigs ==
  {[a |-> One(<<"b", "c">>), b |-> One(<<"c">>), c |-> One(<<>>)],
   [a |-> One(<<"b", "b">>), b |-> Provider("transient", <<"c">>, "object"),
    c |-> Provider("singleton", <<>>, "undefined")],
   [a |-> One(<<"b">>), b |-> One(<<"a">>), c |-> One(<<"a">>)],
   [a |-> One(<<"c", "b">>), b |-> One(<<"a">>), c |-> Provider("singleton", <<>>, "value")]}

Transport == INSTANCE GraphQLTransport WITH Conn <- {"c", "d"}, Id <- {"i", "j"}, MaxSubs <- 2

transport == <<socket, kaTimer, subs, op, cancelled, told, asked>>

allVars == <<part, vars, requests, events, container, loader, transport, buses>>

MCInit ==
  /\ part \in {"rooms", "dedup", "events", "container", "loader", "transport", "buses"}
  /\ Init /\ Dedup!Init /\ Stream!Init /\ Providers!Init
  /\ Loader!Init /\ Transport!Init /\ Buses!Init
  /\ part # "events" => habit = CHOOSE h \in Habit : TRUE
  /\ part # "container" => config = CHOOSE c \in MCConfigs : TRUE

Only(p, others) == part = p /\ UNCHANGED <<part, others>>

MCNext ==
  \/ Only("rooms", <<requests, events, container, loader, transport, buses>>) /\ Next
  \/ Only("dedup", <<vars, events, container, loader, transport, buses>>) /\ Dedup!Next
  \/ Only("events", <<vars, requests, container, loader, transport, buses>>) /\ Stream!Next
  \/ Only("container", <<vars, requests, events, loader, transport, buses>>) /\ Providers!Next
  \/ Only("loader", <<vars, requests, events, container, transport, buses>>) /\ Loader!Next
  \/ Only("transport", <<vars, requests, events, container, loader, buses>>) /\ Transport!Next
  \/ Only("buses", <<vars, requests, events, container, loader, transport>>) /\ Buses!Next

\* The fair step of each part that promises what must happen.
Progresses ==
  /\ UNCHANGED <<part, vars, transport, buses>>
  /\ \/ part = "dedup" /\ Dedup!Progress /\ UNCHANGED <<events, container, loader>>
     \/ part = "events" /\ Stream!Progress /\ UNCHANGED <<requests, container, loader>>
     \/ part = "container" /\ Providers!Progress /\ UNCHANGED <<requests, events, loader>>
     \/ part = "loader" /\ Loader!Progress /\ UNCHANGED <<requests, events, container>>

MCSpec == MCInit /\ [][MCNext]_allVars /\ WF_allVars(Progresses)

WaitersAnswered == Dedup!WaitersAnswered
CatchesUp == Stream!CatchesUp
ResolvesSettle == Providers!ResolvesSettle
=============================================================================
