--------------------------- MODULE ConnectionPool ---------------------------
(***************************************************************************)
(* ConnectionPool of src/database.ts, used through withConnection().  The  *)
(* pool is a stack, the waiters an array consumed through an index and     *)
(* compacted now and then, and the factory and every conn.close() are      *)
(* awaited, so clients, initialize() and close() interleave there.         *)
(***************************************************************************)
EXTENDS Integers, Sequences, FiniteSets

CONSTANTS
  Client,     \* concurrent users of withConnection()
  MaxSize,    \* options.maxSize
  MinSize,    \* options.minSize
  CompactAt   \* served waiters the array may keep before it is compacted (64)

ASSUME PoolAssumption ==
  /\ IsFiniteSet(Client)
  /\ MaxSize \in Nat \ {0} /\ MinSize \in Nat /\ CompactAt \in Nat

None == 0   \* no connection; connections are numbered as the factory makes them

VARIABLES
  pool, inUse, waiting, waitingIndex,   \* the fields of the same name
  made,        \* connections the factory has made
  closed,      \* connections whose close() was called
  initPending, \* createConnection() calls of initialize() awaiting the factory
  initialized, \* initialize() was called
  pc,          \* each client: idle, creating, waiting or holding
  conn,        \* the connection it holds
  closing,     \* where close() is: not called, its two loops, finished
  closeIdx     \* position of its first loop in the pool array

store == <<pool, inUse, waiting, waitingIndex>>
births == <<made, initPending, initialized>>
clients == <<pc, conn>>
shutdown == <<closed, closing, closeIdx>>
vars == <<store, births, clients, shutdown>>

Elems(s) == {s[i] : i \in 1..Len(s)}
Pooled == Elems(pool)
Held == {conn[c] : c \in {d \in Client : pc[d] = "holding"}}
\* The waiters not yet served: the array from the index on.
Pending == SubSeq(waiting, waitingIndex + 1, Len(waiting))

Init ==
  /\ pool = <<>> /\ inUse = {} /\ waiting = <<>> /\ waitingIndex = 0
  /\ made = 0 /\ initPending = 0 /\ initialized = "no"
  /\ pc = [c \in Client |-> "idle"]
  /\ conn = [c \in Client |-> None]
  /\ closed = {} /\ closing = "no" /\ closeIdx = 0

-----------------------------------------------------------------------------
(* initialize(): MinSize createConnection() calls at once. *)
Initialize ==
  /\ initialized = "no"
  /\ initialized' = "yes"
  /\ initPending' = MinSize
  /\ UNCHANGED <<store, made, clients, shutdown>>

InitCreated ==
  /\ initPending > 0
  /\ initPending' = initPending - 1
  /\ made' = made + 1
  /\ pool' = Append(pool, made')
  /\ UNCHANGED <<inUse, waiting, waitingIndex, initialized, clients, shutdown>>

\* The factory rejects: initialize() rejects and the pool has one less.
InitFailed ==
  /\ initPending > 0
  /\ initPending' = initPending - 1
  /\ UNCHANGED <<store, made, initialized, clients, shutdown>>

-----------------------------------------------------------------------------
(* acquire(): an idle connection, a new one, or a place in the queue. *)
Size == Cardinality(inUse) + Len(pool)

AcquirePooled(c) ==
  /\ pc[c] = "idle"
  /\ pool # <<>>
  /\ pool' = SubSeq(pool, 1, Len(pool) - 1)
  /\ inUse' = inUse \cup {pool[Len(pool)]}
  /\ pc' = [pc EXCEPT ![c] = "holding"]
  /\ conn' = [conn EXCEPT ![c] = pool[Len(pool)]]
  /\ UNCHANGED <<waiting, waitingIndex, births, shutdown>>

\* The size is checked before the await and not again after it.
AcquireNew(c) ==
  /\ pc[c] = "idle"
  /\ pool = <<>>
  /\ Size < MaxSize
  /\ pc' = [pc EXCEPT ![c] = "creating"]
  /\ UNCHANGED <<store, births, conn, shutdown>>

AcquireWait(c) ==
  /\ pc[c] = "idle"
  /\ pool = <<>>
  /\ Size >= MaxSize
  /\ waiting' = Append(waiting, c)
  /\ pc' = [pc EXCEPT ![c] = "waiting"]
  /\ UNCHANGED <<pool, inUse, waitingIndex, births, conn, shutdown>>

FactoryMakes(c) ==
  /\ pc[c] = "creating"
  /\ made' = made + 1
  /\ inUse' = inUse \cup {made'}
  /\ pc' = [pc EXCEPT ![c] = "holding"]
  /\ conn' = [conn EXCEPT ![c] = made']
  /\ UNCHANGED <<pool, waiting, waitingIndex, initPending, initialized,
                 shutdown>>

FactoryFails(c) ==
  /\ pc[c] = "creating"
  /\ pc' = [pc EXCEPT ![c] = "idle"]
  /\ UNCHANGED <<store, births, conn, shutdown>>

-----------------------------------------------------------------------------
(* release(), from the finally block of withConnection(). *)
CompactedKeepsIndex(index) ==
  IF index > CompactAt /\ index * 2 >= Len(waiting)
  THEN /\ waiting' = SubSeq(waiting, index + 1, Len(waiting))
       /\ waitingIndex' = index
  ELSE waiting' = waiting /\ waitingIndex' = index

Compacted(index) ==
  IF index > CompactAt /\ index * 2 >= Len(waiting)
  THEN /\ waiting' = SubSeq(waiting, index + 1, Len(waiting))
       /\ waitingIndex' = 0
  ELSE waiting' = waiting /\ waitingIndex' = index

HandOverAndPool(c) ==
  LET next == waiting[waitingIndex + 1]
  IN /\ pc[c] = "holding"
     /\ waitingIndex < Len(waiting)
     /\ Compacted(waitingIndex + 1)
     /\ inUse' = inUse \cup {conn[c]}
     /\ pool' = Append(pool, conn[c])
     /\ pc' = [pc EXCEPT ![c] = "idle", ![next] = "holding"]
     /\ conn' = [conn EXCEPT ![c] = None, ![next] = conn[c]]
     /\ UNCHANGED <<births, shutdown>>

HandOver(c) ==
  LET next == waiting[waitingIndex + 1]
  IN /\ pc[c] = "holding"
     /\ waitingIndex < Len(waiting)
     /\ Compacted(waitingIndex + 1)
     /\ inUse' = inUse \cup {conn[c]}
     /\ pc' = [pc EXCEPT ![c] = "idle", ![next] = "holding"]
     /\ conn' = [conn EXCEPT ![c] = None, ![next] = conn[c]]
     /\ UNCHANGED <<pool, births, shutdown>>

PutBackAnyway(c) ==
  /\ pc[c] = "holding"
  /\ inUse' = inUse \ {conn[c]}
  /\ pool' = Append(pool, conn[c])
  /\ pc' = [pc EXCEPT ![c] = "idle"]
  /\ conn' = [conn EXCEPT ![c] = None]
  /\ UNCHANGED <<waiting, waitingIndex, births, shutdown>>

PutBack(c) ==
  /\ pc[c] = "holding"
  /\ waitingIndex >= Len(waiting)
  /\ inUse' = inUse \ {conn[c]}
  /\ pool' = Append(pool, conn[c])
  /\ waiting' = IF waitingIndex # 0 THEN <<>> ELSE waiting
  /\ waitingIndex' = 0
  /\ pc' = [pc EXCEPT ![c] = "idle"]
  /\ conn' = [conn EXCEPT ![c] = None]
  /\ UNCHANGED <<births, shutdown>>

Release(c) == HandOver(c) \/ PutBack(c)

-----------------------------------------------------------------------------
(* close(): two awaiting loops over the live array and the live set. *)
Close ==
  /\ closing = "no"
  /\ closing' = "pool"
  /\ UNCHANGED <<store, births, clients, closed, closeIdx>>

ClosePooled ==
  /\ closing = "pool"
  /\ IF closeIdx < Len(pool)
     THEN /\ closed' = closed \cup {pool[closeIdx + 1]}
          /\ closeIdx' = closeIdx + 1
          /\ UNCHANGED closing
     ELSE closing' = "inUse" /\ UNCHANGED <<closed, closeIdx>>
  /\ UNCHANGED <<store, births, clients>>

CloseInUse ==
  /\ closing = "inUse"
  /\ \E k \in inUse \ closed : closed' = closed \cup {k}
  /\ UNCHANGED <<store, births, clients, closing, closeIdx>>

CloseEnds ==
  /\ closing = "inUse"
  /\ inUse \subseteq closed
  /\ closing' = "done"
  /\ pool' = <<>> /\ inUse' = {} /\ waiting' = <<>> /\ waitingIndex' = 0
  /\ UNCHANGED <<births, clients, closed, closeIdx>>

Next ==
  \/ Initialize \/ InitCreated \/ InitFailed
  \/ Close \/ ClosePooled \/ CloseInUse \/ CloseEnds
  \/ \E c \in Client :
       \/ AcquirePooled(c) \/ AcquireNew(c) \/ AcquireWait(c)
       \/ FactoryMakes(c) \/ FactoryFails(c)
       \/ Release(c)

Spec == Init /\ [][Next]_vars

\* The function given to withConnection() settles, and so does the factory.
Fairness ==
  \A c \in Client :
    WF_vars(Release(c)) /\ WF_vars(FactoryMakes(c) \/ FactoryFails(c))

FairSpec == Spec /\ Fairness

-----------------------------------------------------------------------------
Conns == 1..made

\* The types of the pool's fields, of its clients and of close().
TypeOK ==
  /\ made \in Nat /\ closed \subseteq Conns
  /\ pool \in Seq(Conns) /\ inUse \subseteq Conns
  /\ waiting \in Seq(Client) /\ waitingIndex \in 0..Len(waiting)
  /\ initPending \in 0..MinSize /\ initialized \in {"no", "yes"}
  /\ pc \in [Client -> {"idle", "creating", "waiting", "holding"}]
  /\ conn \in [Client -> Conns \cup {None}]
  /\ \A c \in Client : pc[c] = "holding" <=> conn[c] # None
  /\ closing \in {"no", "pool", "inUse", "done"} /\ closeIdx \in Nat

\* No connection is ever with two clients, nor with a client and in the pool,
\* nor twice in the pool: hand-overs, awaited creations and close() included.
Exclusive ==
  /\ \A c, d \in Client :
       pc[c] = "holding" /\ pc[d] = "holding" /\ conn[c] = conn[d] => c = d
  /\ \A c \in Client, i \in 1..Len(pool) :
       pc[c] = "holding" => pool[i] # conn[c]
  /\ \A i, j \in 1..Len(pool) : pool[i] = pool[j] => i = j

\* The pool's own bookkeeping agrees with who holds what (only close() makes
\* it forget), so nothing leaks from the size that acquire() checks.
InUseIsHeld ==
  /\ inUse \subseteq Held
  /\ closing # "done" => inUse = Held

\* Whoever holds a connection holds it alone, and the pool knows it does.
Ownership == Exclusive /\ InUseIsHeld

\* First come first served, whatever the array behind the queue looks like.
Status == [c \in Client |-> IF pc[c] \in {"idle", "waiting"} THEN pc[c] ELSE "served"]
Queue == INSTANCE WaitQueue WITH status <- Status, queue <- Pending
ImplementsQueue == Queue!Spec

\* While the pool is not closed every waiter gets a connection.
WaitersServed ==
  \A c \in Client :
    pc[c] = "waiting" ~> pc[c] = "holding" \/ closing # "no"
=============================================================================
