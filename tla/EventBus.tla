------------------------------ MODULE EventBus ------------------------------
(***************************************************************************)
(* src/event-bus.ts: the handlers of one topic on several buses, emit() and*)
(* emitAsync() over them, and the Redis bridge between the buses.  A loop  *)
(* over a Set sees what is added to it meanwhile and skips what is removed,*)
(* so a Set is a sequence that only grows, with its removed entries marked.*)
(* Topics share nothing; the statistics are left out.                      *)
(***************************************************************************)
EXTENDS Integers, SequencesExt, FiniteSetsExt

CONSTANTS
  Bus,          \* the buses: their bridges share one channel
  Handler,      \* the functions of an application; on() of one is the same
                \* entry, once() of one wraps it anew
  MaxHandlers,  \* maxHandlersPerTopic
  MaxEvents,    \* bound on the events emitted
  MaxOps        \* bound on the other calls

Event == 1..MaxEvents
None == 0

VARIABLES
  sets,     \* each bus: the Sets there have been
  current,  \* each bus: the Set in its map, or None
  stack,    \* loops that run, the one called last in front
  awaiting, \* loops of emitAsync() that await a handler
  bridge,   \* each bus: "off", "subscribing", "on" or "leaving"
  inbox,    \* each bus: the messages Redis has for it
  emitted,  \* events emitted so far
  opCount,
  joined,   \* history: entries made of each handler, by on() or by once()
  heard,    \* history: calls of each handler, by event
  cleared   \* history: buses that were cleared

busVars == <<sets, current, stack, awaiting, bridge, inbox, emitted, opCount, joined, heard, cleared>>

Ways == {"on", "once"}
Init ==
  /\ sets = [b \in Bus |-> <<>>] /\ current = [b \in Bus |-> None]
  /\ stack = <<>> /\ awaiting = {}
  /\ bridge = [b \in Bus |-> "off"] /\ inbox = [b \in Bus |-> <<>>]
  /\ emitted = 0 /\ opCount = 0
  /\ joined = [b \in Bus |-> [h \in Handler |-> [w \in Ways |-> 0]]]
  /\ heard = [b \in Bus |-> [h \in Handler |-> [w \in Ways |-> [e \in Event |-> 0]]]]
  /\ cleared = {}

Live(set) == {i \in DOMAIN set : set[i].live = "yes"}
CurrentSet(b) == IF current[b] = None THEN <<>> ELSE sets[b][current[b]]
loops == <<stack, awaiting>>
wire == <<bridge, inbox>>

\* Code of the application runs: a handler the innermost loop has called, or,
\* when no loop runs, anything.
AppRuns == stack # <<>> => Head(stack).next > 1
Op == AppRuns /\ opCount < MaxOps /\ opCount' = opCount + 1

-----------------------------------------------------------------------------
\* on(), once(): refused when the Set is full, also if the handler is in it.
Subscribe(b, h, way) ==
  LET set == CurrentSet(b) IN
  /\ Op
  /\ Cardinality(Live(set)) < MaxHandlers
  /\ way = "on" => \A i \in Live(set) : set[i].h # h \/ set[i].way # "on"
  /\ LET grown == Append(set, [h |-> h, way |-> way, live |-> "yes"])
     IN IF current[b] = None
        THEN /\ sets' = [sets EXCEPT ![b] = Append(@, grown)]
             /\ current' = [current EXCEPT ![b] = Len(sets[b]) + 1]
        ELSE /\ sets' = [sets EXCEPT ![b][current[b]] = grown]
             /\ UNCHANGED current
  /\ joined' = [joined EXCEPT ![b][h][way] = @ + 1]
  /\ UNCHANGED <<loops, wire, emitted, heard, cleared>>

\* off() of entry i of the Set the map has; an empty Set leaves the map.
Off(b, i) ==
  LET rest == [CurrentSet(b) EXCEPT ![i].live = "no"]
  IN /\ sets' = [sets EXCEPT ![b][current[b]] = rest]
     /\ current' = IF Live(rest) = {} THEN [current EXCEPT ![b] = None] ELSE current

Unsubscribe(b) ==
  /\ Op
  /\ \E i \in Live(CurrentSet(b)) : Off(b, i)
  /\ UNCHANGED <<loops, wire, emitted, joined, heard, cleared>>

\* clear() empties the map, not its Sets.
Clear(b) ==
  /\ Op /\ current[b] # None
  /\ current' = [current EXCEPT ![b] = None]
  /\ cleared' = cleared \cup {b}
  /\ UNCHANGED <<sets, loops, wire, emitted, joined, heard>>

-----------------------------------------------------------------------------
\* deliver(), deliverAsync(): a loop over the Set of the moment.
Loop(b, e, kind) == [bus |-> b, event |-> e, kind |-> kind, set |-> current[b], next |-> 1]

Emit(b, kind) ==
  /\ AppRuns /\ emitted < MaxEvents
  /\ emitted' = emitted + 1
  /\ stack' = <<Loop(b, emitted + 1, kind)>> \o stack
  /\ UNCHANGED <<sets, current, awaiting, wire, opCount, joined, heard, cleared>>

\* The entries the loop f has still to come to.
Ahead(f) ==
  IF f.set = None THEN {} ELSE {i \in Live(sets[f.bus][f.set]) : i >= f.next}

\* The loop f comes to entry i.  The wrapper of once() takes itself off, from
\* the Set in the map, before it calls the handler.
Calls(f, i) ==
  LET entry == sets[f.bus][f.set][i]
  IN /\ heard' = [heard EXCEPT ![f.bus][entry.h][entry.way][f.event] = @ + 1]
     /\ IF entry.way = "once" /\ current[f.bus] = f.set
        THEN Off(f.bus, i)
        ELSE UNCHANGED <<sets, current>>

\* publish(): Redis hands the message to every subscription of the channel.
Publish(f) ==
  inbox' = IF f.kind # "remote" /\ bridge[f.bus] = "on"
           THEN [b \in Bus |-> IF bridge[b] = "off" THEN inbox[b]
                               ELSE Append(inbox[b], [event |-> f.event, from |-> f.bus])]
           ELSE inbox

\* emitAsync() awaits what the handler returns; the others go on.
Step(f, rest, others) ==
  /\ IF Ahead(f) = {}
     THEN /\ Publish(f)
          /\ stack' = rest /\ awaiting' = others
          /\ UNCHANGED <<sets, current, heard>>
     ELSE /\ Calls(f, Min(Ahead(f)))
          /\ LET on == [f EXCEPT !.next = Min(Ahead(f)) + 1]
             IN IF f.kind = "async"
                THEN stack' = rest /\ awaiting' = others \cup {on}
                ELSE stack' = <<on>> \o rest /\ awaiting' = others
          /\ UNCHANGED inbox
  /\ UNCHANGED <<bridge, emitted, opCount, joined, cleared>>

Runs == stack # <<>> /\ Step(Head(stack), Tail(stack), awaiting)

Resumes(f) == stack = <<>> /\ Step(f, <<>>, awaiting \ {f})

\* A handler throws: its loop ends there, and nothing is published.
Throws ==
  /\ stack # <<>> /\ Head(stack).next > 1
  /\ stack' = Tail(stack)
  /\ UNCHANGED <<sets, current, awaiting, wire, emitted, opCount, joined, heard, cleared>>

Rejects(f) ==
  /\ stack = <<>>
  /\ awaiting' = awaiting \ {f}
  /\ UNCHANGED <<sets, current, stack, wire, emitted, opCount, joined, heard, cleared>>

-----------------------------------------------------------------------------
\* A message is dropped if it comes from this bus, or was lost with the
\* connection.
ReceiveOwn(b) ==
  /\ stack = <<>> /\ inbox[b] # <<>>
  /\ inbox' = [inbox EXCEPT ![b] = Tail(@)]
  /\ stack' = <<Loop(b, Head(inbox[b]).event, "remote")>>
  /\ UNCHANGED <<sets, current, awaiting, bridge, emitted, opCount, joined, heard, cleared>>

Receive(b) ==
  /\ stack = <<>> /\ inbox[b] # <<>>
  /\ inbox' = [inbox EXCEPT ![b] = Tail(@)]
  /\ \/ /\ Head(inbox[b]).from # b /\ bridge[b] # "subscribing"
        /\ stack' = <<Loop(b, Head(inbox[b]).event, "remote")>>
     \/ UNCHANGED stack
  /\ UNCHANGED <<sets, current, awaiting, bridge, emitted, opCount, joined, heard, cleared>>

\* connect() by createRedisEventBus(): the subscription counts before the
\* handler of its messages is set.  disconnect() at the end.
Connect(b) ==
  /\ Op /\ bridge[b] = "off"
  /\ bridge' = [bridge EXCEPT ![b] = "subscribing"]
  /\ UNCHANGED <<sets, current, loops, inbox, emitted, joined, heard, cleared>>

Connected(b) ==
  /\ stack = <<>> /\ bridge[b] = "subscribing"
  /\ bridge' = [bridge EXCEPT ![b] = "on"]
  /\ UNCHANGED <<sets, current, loops, inbox, emitted, opCount, joined, heard, cleared>>

Disconnect(b) ==
  /\ Op /\ bridge[b] = "on"
  /\ bridge' = [bridge EXCEPT ![b] = "leaving"]
  /\ UNCHANGED <<sets, current, loops, inbox, emitted, joined, heard, cleared>>

Disconnected(b) ==
  /\ stack = <<>> /\ bridge[b] = "leaving"
  /\ bridge' = [bridge EXCEPT ![b] = "off"]
  /\ inbox' = [inbox EXCEPT ![b] = <<>>]
  /\ UNCHANGED <<sets, current, loops, emitted, opCount, joined, heard, cleared>>

Next ==
  \/ \E b \in Bus :
       \/ \E h \in Handler, way \in Ways : Subscribe(b, h, way)
       \/ Unsubscribe(b) \/ Clear(b)
       \/ \E kind \in {"emit", "async"} : Emit(b, kind)
       \/ Receive(b) \/ Connect(b) \/ Connected(b) \/ Disconnect(b) \/ Disconnected(b)
  \/ Runs \/ Throws
  \/ \E f \in awaiting : Resumes(f) \/ Rejects(f)

Spec == Init /\ [][Next]_busVars

-----------------------------------------------------------------------------
\* However loops overlap and nest, handlers come and go and messages arrive,
\* a handler hears an event once per subscription at most, its own bus's
\* included, and a once() hears one event in all unless the bus was cleared.
HeardOnce ==
  \A b \in Bus, h \in Handler :
    /\ \A e \in Event : heard[b][h]["on"][e] <= joined[b][h]["on"]
    /\ b \notin cleared =>
         SumFunction(heard[b][h]["once"]) <= joined[b][h]["once"]
=============================================================================
