---------------------------- MODULE RoomManager ----------------------------
(***************************************************************************)
(* The WebSocket room manager, src/ws-pubsub.ts: which connections are in  *)
(* which rooms, kept in two maps that mirror each other, and their         *)
(* presence data.  Broadcasts read the maps and change nothing; typed      *)
(* event handlers hold no connection: both are left out.                   *)
(***************************************************************************)
EXTENDS Integers, FiniteSets

CONSTANTS
  Conn,       \* the connections
  Room,       \* room names
  MaxRooms,   \* maxRoomsPerConnection
  MaxConns    \* maxConnectionsPerRoom

VARIABLES
  ready,      \* each connection: "new", "open", "closed"
  roomKeys,   \* the keys of the map rooms
  rooms,      \* rooms, for the names that are keys; empty elsewhere
  connKeys,   \* the keys of the map connectionRooms
  connRooms,  \* connectionRooms, for the keys; empty elsewhere
  presence,   \* connections with presence data
  quiet       \* history: connections cleaned up that did nothing since

roomVars == <<roomKeys, rooms, connKeys, connRooms>>
vars == <<ready, roomVars, presence, quiet>>

Init ==
  /\ ready = [c \in Conn |-> "new"]
  /\ roomKeys = {} /\ rooms = [r \in Room |-> {}]
  /\ connKeys = {} /\ connRooms = [c \in Conn |-> {}]
  /\ presence = {} /\ quiet = {}

Open(c) ==
  /\ ready[c] = "new"
  /\ ready' = [ready EXCEPT ![c] = "open"]
  /\ UNCHANGED <<roomVars, presence, quiet>>

\* join(): refused at either limit, even of a room joined already; a limit is
\* looked at only where there is a set already.  Handlers are asynchronous: a
\* closed connection may still join.
Join(c, r) ==
  /\ ready[c] # "new"
  /\ c \in connKeys => Cardinality(connRooms[c]) < MaxRooms
  /\ r \in roomKeys => Cardinality(rooms[r]) < MaxConns
  /\ roomKeys' = roomKeys \cup {r}
  /\ rooms' = [rooms EXCEPT ![r] = @ \cup {c}]
  /\ connKeys' = connKeys \cup {c}
  /\ connRooms' = [connRooms EXCEPT ![c] = @ \cup {r}]
  /\ quiet' = quiet \ {c}
  /\ UNCHANGED <<ready, presence>>

\* leave(): each map drops the key of a set that became empty.
Leave(c, r) ==
  /\ rooms' = [rooms EXCEPT ![r] = @ \ {c}]
  /\ roomKeys' = IF rooms[r] \ {c} = {} THEN roomKeys \ {r} ELSE roomKeys
  /\ connRooms' = [connRooms EXCEPT ![c] = @ \ {r}]
  /\ connKeys' = IF connRooms[c] \ {r} = {} THEN connKeys \ {c} ELSE connKeys
  /\ UNCHANGED <<ready, presence, quiet>>

SetPresence(c) ==
  /\ ready[c] # "new"
  /\ presence' = presence \cup {c}
  /\ quiet' = quiet \ {c}
  /\ UNCHANGED <<ready, roomVars>>

DeletePresence(c) ==
  /\ presence' = presence \ {c}
  /\ UNCHANGED <<ready, roomVars, quiet>>

\* The connection closes; the application's close handler calls cleanup(),
\* at once or later.
Close(c) ==
  /\ ready[c] = "open"
  /\ ready' = [ready EXCEPT ![c] = "closed"]
  /\ UNCHANGED <<roomVars, presence, quiet>>

\* cleanup(): the rooms are found by the reverse map.
Cleanup(c) ==
  /\ ready[c] = "closed"
  /\ rooms' = [r \in Room |-> IF r \in connRooms[c] THEN rooms[r] \ {c} ELSE rooms[r]]
  /\ roomKeys' = roomKeys \ {r \in connRooms[c] : rooms[r] \ {c} = {}}
  /\ connRooms' = [connRooms EXCEPT ![c] = {}]
  /\ connKeys' = connKeys \ {c}
  /\ presence' = presence \ {c}
  /\ quiet' = quiet \cup {c}
  /\ UNCHANGED ready

ClearAll ==
  /\ roomKeys' = {} /\ rooms' = [r \in Room |-> {}]
  /\ connKeys' = {} /\ connRooms' = [c \in Conn |-> {}]
  /\ presence' = {}
  /\ UNCHANGED <<ready, quiet>>

Next ==
  \/ \E c \in Conn : \/ Open(c) \/ Close(c) \/ Cleanup(c)
                     \/ SetPresence(c) \/ DeletePresence(c)
  \/ \E c \in Conn, r \in Room : Join(c, r) \/ Leave(c, r)
  \/ ClearAll

Spec == Init /\ [][Next]_vars

-----------------------------------------------------------------------------
\* The types of the maps.
TypeOK ==
  /\ ready \in [Conn -> {"new", "open", "closed"}]
  /\ roomKeys \subseteq Room /\ rooms \in [Room -> SUBSET Conn]
  /\ connKeys \subseteq Conn /\ connRooms \in [Conn -> SUBSET Room]
  /\ presence \subseteq Conn /\ quiet \subseteq Conn

\* The two maps mirror each other: a connection is in a room's set exactly when
\* the room is in the connection's.
Mirrored == \A c \in Conn, r \in Room : c \in rooms[r] <=> r \in connRooms[c]

\* Neither map keeps a key for an empty set, which would grow with every room
\* name ever used, nor a set without its key.
NoEmptyKeys ==
  /\ \A r \in Room : r \in roomKeys <=> rooms[r] # {}
  /\ \A c \in Conn : c \in connKeys <=> connRooms[c] # {}

\* Neither limit is exceeded, whatever the order of joins and leaves, where a
\* limit of 0 stands for 1: the first join finds no set to look at.
FiniteBounds ==
  /\ IsFiniteSet(Conn) /\ IsFiniteSet(Room)
  /\ MaxRooms \in Nat /\ MaxConns \in Nat
Admitted(limit) == IF limit = 0 THEN 1 ELSE limit
WithinLimits ==
  /\ \A c \in Conn : Cardinality(connRooms[c]) <= Admitted(MaxRooms)
  /\ \A r \in Room : Cardinality(rooms[r]) <= Admitted(MaxConns)

\* A connection that was cleaned up, and did nothing since, is held nowhere.
NothingHeld ==
  \A c \in quiet : /\ c \notin connKeys \cup presence
                   /\ \A r \in Room : c \notin rooms[r]
=============================================================================
