---------------------------- MODULE RedisBridge ----------------------------
(***************************************************************************)
(* The Redis bridge of WebSocket broadcasts, src/ws-redis.ts.  Every       *)
(* server instance has a room manager whose broadcast() is replaced by one *)
(* that also publishes; what its subscription receives from the others is  *)
(* handed to that same broadcast().  Redis delivers a published message to *)
(* the subscribers of that moment, in one order for all.  An instance calls*)
(* connect() once, as createRedisPubSub() does: a second call, before or   *)
(* after a disconnect(), would open connections beside the first ones.     *)
(***************************************************************************)
EXTENDS Naturals, FiniteSets, SequencesExt

CONSTANTS
  Instance,     \* the server instances
  Payload,      \* the messages applications broadcast, each once
  MaxPublishes  \* bound on the messages published

None == "none"

VARIABLES
  connects,   \* each instance's calls of connect() so far, one at most
  connected,  \* connected
  joining,    \* connect() calls that await their subscription
  subs,       \* subscriptions with a message handler
  hooks,      \* how often broadcast() has been wrapped
  outbox,     \* envelopes published and not yet at Redis
  inbox,      \* envelopes delivered by Redis and not yet handled
  origin,     \* history: the instance whose application broadcast a payload
  order,      \* history: the payloads in the order they were broadcast
  missed,     \* history: broadcasts made before an instance last subscribed
  heard,      \* history: the payloads each instance broadcast locally, in order
  published   \* publishes so far

connVars == <<connects, connected, joining, subs, hooks>>
vars == <<connVars, outbox, inbox, origin, order, missed, heard, published>>

Init ==
  /\ connects = [i \in Instance |-> 0] /\ connected = [i \in Instance |-> "no"]
  /\ joining = [i \in Instance |-> 0]
  /\ subs = [i \in Instance |-> 0] /\ hooks = [i \in Instance |-> 0]
  /\ outbox = [i \in Instance |-> <<>>] /\ inbox = [i \in Instance |-> <<>>]
  /\ origin = [p \in Payload |-> None] /\ order = <<>>
  /\ missed = [i \in Instance |-> 0]
  /\ heard = [i \in Instance |-> <<>>]
  /\ published = 0

\* connect(), which an instance calls once, awaits its subscription.
Connect(i) ==
  /\ connects[i] = 0 /\ connected[i] = "no"
  /\ connects' = [connects EXCEPT ![i] = @ + 1]
  /\ joining' = [joining EXCEPT ![i] = @ + 1]
  /\ UNCHANGED <<connected, subs, hooks, outbox, inbox, origin, order, missed, heard, published>>

\* Subscribed: the handler is attached and broadcast() wrapped once more.
Subscribed(i) ==
  /\ joining[i] > 0
  /\ joining' = [joining EXCEPT ![i] = @ - 1]
  /\ connected' = [connected EXCEPT ![i] = "yes"]
  /\ subs' = [subs EXCEPT ![i] = @ + 1]
  /\ hooks' = [hooks EXCEPT ![i] = @ + 1]
  /\ missed' = [missed EXCEPT ![i] = Len(order)]
  /\ UNCHANGED <<connects, outbox, inbox, origin, order, heard, published>>

\* The subscription fails: connect() returns, nothing is wrapped.
ConnectFails(i) ==
  /\ joining[i] > 0
  /\ joining' = [joining EXCEPT ![i] = @ - 1]
  /\ connected' = [connected EXCEPT ![i] = "no"]
  /\ UNCHANGED <<connects, subs, hooks, outbox, inbox, origin, order, missed, heard, published>>

\* disconnect(): the last subscription ends; the wrapping stays.
Disconnect(i) ==
  /\ connected[i] = "yes" /\ joining[i] = 0
  /\ connected' = [connected EXCEPT ![i] = "no"]
  /\ subs' = [subs EXCEPT ![i] = IF @ = 0 THEN 0 ELSE @ - 1]
  /\ UNCHANGED <<connects, joining, hooks, outbox, inbox, origin, order, missed, heard, published>>

\* The wrapped broadcast(): local delivery once, then a publish per wrapping;
\* publish() does nothing when not connected.  Publishes beyond the bound are
\* not made.
Copies(i, p) ==
  IF connected[i] = "no" THEN <<>>
  ELSE [k \in 1..hooks[i] |-> [payload |-> p, from |-> i]]

BroadcastNewestFirst(i, p, rest) ==
  LET new == Copies(i, p)
      room == MaxPublishes - published
      kept == SubSeq(new, 1, IF Len(new) <= room THEN Len(new) ELSE room)
  IN /\ heard' = [heard EXCEPT ![i] = Append(@, p)]
     /\ outbox' = [outbox EXCEPT ![i] = kept \o @]
     /\ published' = published + Len(kept)
     /\ inbox' = rest

Broadcast(i, p, rest) ==
  LET new == Copies(i, p)
      room == MaxPublishes - published
      kept == SubSeq(new, 1, IF Len(new) <= room THEN Len(new) ELSE room)
  IN /\ heard' = [heard EXCEPT ![i] = Append(@, p)]
     /\ outbox' = [outbox EXCEPT ![i] = @ \o kept]
     /\ published' = published + Len(kept)
     /\ inbox' = rest

\* The application of an instance broadcasts a message.
AppBroadcast(i, p) ==
  /\ origin[p] = None
  /\ origin' = [origin EXCEPT ![p] = i]
  /\ order' = Append(order, p)
  /\ Broadcast(i, p, inbox)
  /\ UNCHANGED <<connVars, missed>>

\* Redis takes a message: a copy for every subscription.
Deliver(i) ==
  /\ outbox[i] # <<>>
  /\ outbox' = [outbox EXCEPT ![i] = Tail(@)]
  /\ inbox' = [j \in Instance |-> inbox[j] \o [k \in 1..subs[j] |-> Head(outbox[i])]]
  /\ UNCHANGED <<connVars, origin, order, missed, heard, published>>

\* The message handler: its own envelopes are skipped, others broadcast.
Receive(i) ==
  LET env == Head(inbox[i])
      rest == [inbox EXCEPT ![i] = Tail(@)]
  IN /\ inbox[i] # <<>>
     /\ IF env.from = i
        THEN inbox' = rest /\ UNCHANGED <<outbox, heard, published>>
        ELSE Broadcast(i, env.payload, rest)
     /\ UNCHANGED <<connVars, origin, order, missed>>

Next ==
  \E i \in Instance :
    \/ Connect(i) \/ Subscribed(i) \/ ConnectFails(i) \/ Disconnect(i)
    \/ Deliver(i) \/ Receive(i)
    \/ \E p \in Payload : AppBroadcast(i, p)

Spec == Init /\ [][Next]_vars

-----------------------------------------------------------------------------
FirstIndex(s, p) == CHOOSE n \in DOMAIN s : s[n] = p /\ \A k \in 1..(n - 1) : s[k] # p

\* Two messages of one origin, both broadcast after an instance subscribed, are
\* first heard there in the order of their broadcasts, although the others
\* publish what they receive again: no copy of a later one overtakes.
FirstInOrder ==
  \A i \in Instance, p, q \in Payload :
    (origin[p] # None /\ origin[p] = origin[q] /\ {p, q} \subseteq ToSet(heard[i]) /\
     missed[i] < FirstIndex(order, p) /\ FirstIndex(order, p) < FirstIndex(order, q))
      => FirstIndex(heard[i], p) < FirstIndex(heard[i], q)
=============================================================================
