---------------------------- MODULE EventStream ----------------------------
(***************************************************************************)
(* Server-sent events, src/sse.ts: an endpoint built with sse() around an  *)
(* SSEController, and the client of createSSEClient() that reconnects with *)
(* the id of the last event it parsed.  The application numbers its events *)
(* and sends a connection those after that id: later, from a timer, or at  *)
(* once, while its handler runs; or it closes the controller there.        *)
(***************************************************************************)
EXTENDS Integers, Sequences

CONSTANTS
  Habit,       \* when handlers send: a subset of {"later", "at once", "closes"}
  Connections, \* bound on the connections
  Events,      \* bound on the events
  MaxRetries,  \* options.maxRetries
  MaxManual    \* bound on the application's calls of connect()

VARIABLES
  habit,       \* what this application's handlers do
  published,   \* events so far, numbered from 1
  server,      \* each connection's controller: none, open, shut (_closed, its
               \* stream open) or closed
  next,        \* the event its handler sends next; before that, the one after
               \* the Last-Event-ID of the request
  stream,      \* what is in the stream and not read
  given,       \* history: the first event its handler gave to send()
  client,      \* each connection at the client: none, fetching, reading or over
  newest,      \* the connection abortController belongs to, 0 for none
  timers,      \* reconnect timers pending
  attempts,    \* reconnectAttempts
  lastId,      \* lastEventId
  closed,      \* close() was called
  gaveUp,      \* "Max retries reached" was emitted
  heard,       \* history: the events emitted
  manual       \* connect() calls of the application

serverVars == <<habit, published, server, next, stream, given>>
clientVars == <<client, newest, timers, attempts, lastId, closed, gaveUp, heard, manual>>
sseVars == <<serverVars, clientVars>>

Connection == 1..Connections

Init ==
  /\ habit \in Habit /\ published = 0
  /\ server = [k \in Connection |-> "none"] /\ next = [k \in Connection |-> 1]
  /\ stream = [k \in Connection |-> <<>>] /\ given = [k \in Connection |-> 0]
  \* createSSEClient() connects at once.
  /\ client = [k \in Connection |-> IF k = 1 THEN "fetching" ELSE "none"]
  /\ newest = 1 /\ timers = 0 /\ attempts = 0 /\ lastId = 0
  /\ closed = FALSE /\ gaveUp = FALSE /\ heard = <<>> /\ manual = 0

Publish ==
  /\ published < Events
  /\ published' = published + 1
  /\ UNCHANGED <<habit, server, next, stream, given, clientVars>>

-----------------------------------------------------------------------------
(* The client. *)

\* connect(): a new request, with the last id.  Beyond the bound it is as if
\* never made.
Unused == {k \in Connection : client[k] = "none"}
ConnectFrom(first) ==
  \E k \in Unused :
    /\ \A l \in Unused : k <= l
    /\ client' = [client EXCEPT ![k] = "fetching"] /\ newest' = k
    /\ next' = [next EXCEPT ![k] = first]

ConnectAnew == ConnectFrom(1)
Connect == ConnectFrom(lastId + 1)

ManualConnect ==
  /\ ~ closed /\ manual < MaxManual
  /\ Connect /\ manual' = manual + 1
  /\ UNCHANGED <<habit, published, server, stream, given, timers, attempts, lastId, closed,
                 gaveUp, heard>>

\* scheduleReconnect(), after a failure or the end of the stream.
Lost(k) ==
  /\ client' = [client EXCEPT ![k] = "over"]
  /\ IF closed \/ attempts >= MaxRetries
     THEN gaveUp' = (gaveUp \/ ~ closed) /\ UNCHANGED <<timers, attempts>>
     ELSE timers' = timers + 1 /\ attempts' = attempts + 1 /\ UNCHANGED gaveUp

TimerFires ==
  /\ timers > 0 /\ timers' = timers - 1
  /\ IF closed THEN UNCHANGED <<client, newest, next>> ELSE Connect
  /\ UNCHANGED <<habit, published, server, stream, given, attempts, lastId, closed, gaveUp, heard, manual>>

\* The request fails or is answered with an error; the last connection of the
\* bound does not.
Refused(k) ==
  /\ client[k] = "fetching" /\ k < Connections
  /\ Lost(k)
  /\ UNCHANGED <<serverVars, newest, lastId, closed, heard, manual>>

\* Bytes arrive: whole events are parsed and emitted, all of them even if one
\* of the callbacks calls close().
Read(k, n) ==
  /\ client[k] = "reading" /\ n \in 1..Len(stream[k])
  /\ heard' = heard \o SubSeq(stream[k], 1, n)
  /\ lastId' = stream[k][n]
  /\ stream' = [stream EXCEPT ![k] = SubSeq(@, n + 1, Len(@))]
  /\ UNCHANGED <<habit, published, server, next, given, client, newest, timers, attempts,
                 closed, gaveUp, manual>>

\* The stream ends after close() on the server, or the connection breaks and
\* takes with it what was not parsed.
EndedForGood(k) ==
  /\ client[k] = "reading"
  /\ (server[k] = "closed" /\ stream[k] = <<>>) \/ k < Connections
  /\ client' = [client EXCEPT ![k] = "over"]
  /\ stream' = [stream EXCEPT ![k] = <<>>]
  /\ UNCHANGED <<habit, published, server, next, given, newest, timers, attempts, lastId, closed,
                 gaveUp, heard, manual>>

Ended(k) ==
  /\ client[k] = "reading"
  /\ (server[k] = "closed" /\ stream[k] = <<>>) \/ k < Connections
  /\ Lost(k)
  /\ stream' = [stream EXCEPT ![k] = <<>>]
  /\ UNCHANGED <<habit, published, server, next, given, newest, lastId, closed, heard, manual>>

\* close(): the newest request is aborted, and the newest timer cleared.
Close ==
  /\ ~ closed /\ closed' = TRUE
  /\ timers' = IF timers > 0 THEN timers - 1 ELSE 0
  /\ client' = [client EXCEPT ![newest] = "over"]
  /\ newest' = 0
  /\ UNCHANGED <<serverVars, attempts, lastId, gaveUp, heard, manual>>

-----------------------------------------------------------------------------
(* The server. *)

\* The request is answered: the handler runs before toResponse() starts the
\* stream, so that what it sends at once finds no controller and is dropped.
\* The client resets its attempts.
Accept(k) ==
  /\ client[k] = "fetching"
  /\ client' = [client EXCEPT ![k] = "reading"] /\ attempts' = 0
  /\ server' = [server EXCEPT ![k] = IF habit = "closes" THEN "shut" ELSE "open"]
  /\ given' = [given EXCEPT ![k] = next[k]]
  /\ next' = [next EXCEPT ![k] = IF habit = "at once" THEN published + 1 ELSE @]
  /\ UNCHANGED <<habit, published, stream, newest, timers, lastId, closed, gaveUp, heard, manual>>

\* send(): nothing once _closed.
Send(k) ==
  /\ server[k] \in {"open", "shut"} /\ next[k] <= published
  /\ next' = [next EXCEPT ![k] = @ + 1]
  /\ stream' = [stream EXCEPT ![k] = IF server[k] = "open" /\ client[k] = "reading"
                                     THEN Append(@, next[k]) ELSE @]
  /\ UNCHANGED <<habit, published, server, given, clientVars>>

\* close() of the controller, which does nothing to one that is shut; cancel()
\* when the client is gone.
ServerCloses(k) ==
  /\ \/ server[k] = "open" /\ k < Connections
     \/ server[k] \in {"open", "shut"} /\ client[k] = "over"
  /\ server' = [server EXCEPT ![k] = "closed"]
  /\ UNCHANGED <<habit, published, next, stream, given, clientVars>>

Progress ==
  \/ TimerFires
  \/ \E k \in Connection : Accept(k) \/ Send(k) \/ Ended(k) \/ \E n \in 1..Events : Read(k, n)

Next ==
  \/ Publish \/ ManualConnect \/ Close \/ Progress
  \/ \E k \in Connection : Refused(k) \/ ServerCloses(k)

Spec == Init /\ [][Next]_sseVars

-----------------------------------------------------------------------------
\* An application that sends later: across refusals, broken connections and
\* streams closed by the server, the client hears every event once and in
\* order, unless it calls connect() itself.
Gapless ==
  habit = "later" /\ manual = 0 => heard = [n \in 1..Len(heard) |-> n]

\* The client that is neither closed nor out of retries catches up with all
\* that was published: no way a connection ends leaves it without another.
CatchesUp ==
  habit = "later" ~> closed \/ gaveUp \/ 1..published \subseteq {heard[n] : n \in DOMAIN heard}

\* "Send an event to the client": what a handler gave to send() on an open
\* connection is in its stream or has been heard.
SentIsStreamed ==
  \A k \in Connection, e \in 1..Events :
    server[k] = "open" /\ client[k] = "reading" /\ given[k] <= e /\ e < next[k]
      => \E n \in DOMAIN (heard \o stream[k]) : (heard \o stream[k])[n] = e
=============================================================================
