------------------------ MODULE ConnectionPoolProofs ------------------------
(***************************************************************************)
(* What holds of the database's shared state for every number of users.    *)
(* The pool, for every number of clients and every size: its connections   *)
(* are exclusive, its record of them agrees with who holds what, and its   *)
(* waiters are served first come first served. The migrations, for all     *)
(* files and processes: the ledger of what the table records and what was  *)
(* done to the schema, and how far overlapping calls can drive the two     *)
(* apart.                                                                  *)
(***************************************************************************)
EXTENDS ConnectionPool, MigrationParts, SumProofs, SequenceTheorems

\* What HandOver does to the waiting array keeps it an array of clients with
\* the index inside it, compacted or not.
LEMMA CompactedType ==
  ASSUME waiting \in Seq(Client), NEW index \in 0..Len(waiting),
         Compacted(index)
  PROVE  waiting' \in Seq(Client) /\ waitingIndex' \in 0..Len(waiting')
<1>1. CASE waiting' = waiting /\ waitingIndex' = index
  BY <1>1
<1>2. CASE waiting' = SubSeq(waiting, index + 1, Len(waiting)) /\ waitingIndex' = 0
  <2>1. waiting' \in Seq(Client)
    BY <1>2, SubSeqProperties
  <2>2. Len(waiting') \in Nat
    BY <2>1
  <2> QED
    BY <1>2, <2>1, <2>2
<1> QED
  BY <1>1, <1>2 DEF Compacted

\* Every field of the pool keeps its type through every step.
THEOREM TypeCorrect == Spec => []TypeOK
<1> USE PoolAssumption DEF PoolAssumption
<1>1. Init => TypeOK
  BY DEF Init, TypeOK, Conns, None
<1>2. TypeOK /\ [Next]_vars => TypeOK'
  <2> SUFFICES ASSUME TypeOK, [Next]_vars PROVE TypeOK'
    OBVIOUS
  <2> USE DEF TypeOK, Conns, None, store, births, clients, shutdown
  <2>1. CASE Initialize
    BY <2>1 DEF Initialize
  <2>2. CASE InitCreated
    BY <2>2 DEF InitCreated
  <2>3. CASE InitFailed
    BY <2>3 DEF InitFailed
  <2>4. CASE Close
    <3>1. Pooled \subseteq Conns
      BY ElementOfSeq DEF Pooled, Elems
    <3> QED
      BY <2>4, <3>1 DEF Close
  <2>5. CASE ClosePooled
    <3>1. closeIdx < Len(pool) => pool[closeIdx + 1] \in Conns
      BY ElementOfSeq
    <3>2. CASE closeIdx < Len(pool)
      <4>1. closed' = closed \cup {pool[closeIdx + 1]} /\ closeIdx' = closeIdx + 1
        BY <2>5, <3>2 DEF ClosePooled
      <4>2. closed' \subseteq Conns
        BY <3>1, <3>2, <4>1
      <4>3. closeIdx' \in Nat
        BY <4>1
      <4>4. UNCHANGED <<store, births, clients, closing>>
        BY <2>5, <3>2 DEF ClosePooled
      <4> QED
        BY <4>2, <4>3, <4>4
    <3>3. CASE ~ (closeIdx < Len(pool))
      BY <2>5, <3>3 DEF ClosePooled
    <3> QED
      BY <3>2, <3>3
  <2>6. CASE CloseInUse
    BY <2>6 DEF CloseInUse
  <2>7. CASE CloseEnds
    BY <2>7 DEF CloseEnds
  <2>8. ASSUME NEW c \in Client, AcquirePooled(c) PROVE TypeOK'
    <3>1. Len(pool) \in 1..Len(pool)
      BY <2>8 DEF AcquirePooled
    <3>2. pool[Len(pool)] \in Conns
      BY <3>1, ElementOfSeq
    <3>3. pool' \in Seq(Conns)
      BY <2>8, <3>1, SubSeqProperties DEF AcquirePooled
    <3>4. inUse' \subseteq Conns
      BY <2>8, <3>2 DEF AcquirePooled
    <3>5. /\ conn' \in [Client -> Conns \cup {None}]
          /\ pc' \in [Client -> {"idle", "creating", "waiting", "holding"}]
          /\ \A d \in Client : pc'[d] = "holding" <=> conn'[d] # None
      BY <2>8, <3>2 DEF AcquirePooled
    <3> QED
      BY <2>8, <3>3, <3>4, <3>5 DEF AcquirePooled
  <2>9. ASSUME NEW c \in Client, AcquireNew(c) PROVE TypeOK'
    BY <2>9 DEF AcquireNew
  <2>10. ASSUME NEW c \in Client, AcquireWait(c) PROVE TypeOK'
    BY <2>10 DEF AcquireWait
  <2>11. ASSUME NEW c \in Client, FactoryMakes(c) PROVE TypeOK'
    BY <2>11 DEF FactoryMakes
  <2>12. ASSUME NEW c \in Client, FactoryFails(c) PROVE TypeOK'
    BY <2>12 DEF FactoryFails
  <2>13. ASSUME NEW c \in Client, HandOver(c) PROVE TypeOK'
    <3>1. waiting' \in Seq(Client) /\ waitingIndex' \in 0..Len(waiting')
      BY <2>13, CompactedType DEF HandOver
    <3>2. waiting[waitingIndex + 1] \in Client
      BY <2>13 DEF HandOver
    <3> QED
      BY <2>13, <3>1, <3>2 DEF HandOver
  <2>14. ASSUME NEW c \in Client, PutBack(c) PROVE TypeOK'
    <3>1. conn[c] \in Conns
      BY <2>14 DEF PutBack
    <3>2. pool' \in Seq(Conns) /\ waiting' \in Seq(Client) /\ Len(waiting') \in Nat
      BY <2>14, <3>1 DEF PutBack
    <3>3. waitingIndex' \in 0..Len(waiting')
      BY <2>14, <3>2 DEF PutBack
    <3> QED
      BY <2>14, <3>2, <3>3 DEF PutBack
  <2>15. CASE UNCHANGED vars
    BY <2>15 DEF vars
  <2> QED
    BY <2>1, <2>2, <2>3, <2>4, <2>5, <2>6, <2>7, <2>8, <2>9, <2>10, <2>11,
       <2>12, <2>13, <2>14, <2>15 DEF Next, Release
<1> QED
  BY <1>1, <1>2, PTL DEF Spec

-----------------------------------------------------------------------------
(***************************************************************************)
(* Exclusive is inductive with TypeOK.  A hand-over moves the connection   *)
(* from one client to one other, a return moves it to the end of the pool, *)
(* and a new one has a number nobody has.                                  *)
(***************************************************************************)
\* No connection is with two clients, or with one and in the pool, or twice
\* in the pool.
THEOREM ExclusiveHolds == Spec => []Exclusive
<1> USE DEF None
<1>1. Init => Exclusive
  BY DEF Init, Exclusive
<1>2. TypeOK /\ Exclusive /\ [Next]_vars => Exclusive'
  <2> SUFFICES ASSUME TypeOK, Exclusive, [Next]_vars PROVE Exclusive'
    OBVIOUS
  <2> USE DEF Exclusive
  <2>0. /\ made \in Nat /\ Len(pool) \in Nat
        /\ \A i \in 1..Len(pool) : pool[i] \in 1..made
        /\ \A c \in Client : conn[c] \in 0..made
        /\ \A c \in Client : pc[c] = "holding" <=> conn[c] # 0
        /\ pc \in [Client -> {"idle", "creating", "waiting", "holding"}]
        /\ DOMAIN conn = Client
    BY ElementOfSeq, LenProperties DEF TypeOK, Conns
  <2>1. ASSUME UNCHANGED <<pool, pc, conn>> PROVE Exclusive'
    BY <2>1
  <2>2. CASE InitCreated
    <3>1. /\ Len(pool') = Len(pool) + 1
          /\ \A i \in 1..Len(pool) : pool'[i] = pool[i]
          /\ pool'[Len(pool) + 1] = made + 1
      BY <2>2, AppendProperties DEF InitCreated, TypeOK
    <3> QED
      BY <2>0, <2>2, <3>1 DEF InitCreated, clients
  <2>3. CASE CloseEnds
    BY <2>3 DEF CloseEnds, clients
  <2>4. ASSUME NEW c \in Client, AcquirePooled(c) PROVE Exclusive'
    <3>1. /\ Len(pool) \in 1..Len(pool) /\ Len(pool') = Len(pool) - 1
          /\ \A i \in 1..Len(pool) - 1 : pool'[i] = pool[i]
      <4>1. pool # <<>> /\ pool' = SubSeq(pool, 1, Len(pool) - 1)
        BY <2>4 DEF AcquirePooled
      <4>2. Len(pool) > 0 /\ Len(pool) - 1 \in Int
        BY <4>1, EmptySeq DEF TypeOK
      <4>3. \A i \in 1..Len(pool) - 1 : pool[i] \in Conns
        BY <2>0 DEF Conns
      <4>4. Len(pool') = IF 1 <= Len(pool) - 1 THEN (Len(pool) - 1) - 1 + 1 ELSE 0
        BY <4>1, <4>2, <4>3, SubSeqProperties
      <4>5. \A i \in 1..(Len(pool) - 1) - 1 + 1 : pool'[i] = pool[1 + i - 1]
        BY <4>1, <4>2, <4>3, SubSeqProperties
      <4>6. Len(pool') = Len(pool) - 1
        <5>1. \A n \in Nat : n > 0 =>
                (IF 1 <= n - 1 THEN (n - 1) - 1 + 1 ELSE 0) = n - 1
          OBVIOUS
        <5> QED
          BY <2>0, <4>2, <4>4, <5>1
      <4>7. \A i \in 1..Len(pool) - 1 : pool'[i] = pool[i]
        BY <2>0, <4>2, <4>5
      <4>8. Len(pool) \in 1..Len(pool)
        BY <2>0, <4>2
      <4> QED
        BY <4>6, <4>7, <4>8
    <3>2. \A d \in Client : conn'[d] = IF d = c THEN pool[Len(pool)] ELSE conn[d]
      BY <2>0, <2>4 DEF AcquirePooled
    <3>3. \A d \in Client : pc'[d] = IF d = c THEN "holding" ELSE pc[d]
      BY <2>0, <2>4 DEF AcquirePooled
    <3>4. \A d, e \in Client :
            pc'[d] = "holding" /\ pc'[e] = "holding" /\ conn'[d] = conn'[e] => d = e
      BY <3>1, <3>2, <3>3
    <3>5. \A d \in Client, i \in 1..Len(pool') :
            pc'[d] = "holding" => pool'[i] # conn'[d]
      BY <2>0, <3>1, <3>2, <3>3
    <3>6. \A i, j \in 1..Len(pool') : pool'[i] = pool'[j] => i = j
      <4> SUFFICES ASSUME NEW i \in 1..Len(pool'), NEW j \in 1..Len(pool'), pool'[i] = pool'[j]
                   PROVE  i = j
        OBVIOUS
      <4>1. /\ i \in 1..Len(pool) /\ pool'[i] = pool[i]
            /\ j \in 1..Len(pool) /\ pool'[j] = pool[j]
        BY <2>0, <3>1
      <4> QED
        BY <2>0, <4>1
    <3> QED
      BY <3>4, <3>5, <3>6
  <2>5. ASSUME NEW c \in Client, FactoryMakes(c) PROVE Exclusive'
    <3>1. \A d \in Client : conn'[d] = IF d = c THEN made + 1 ELSE conn[d]
      BY <2>0, <2>5 DEF FactoryMakes
    <3>2. \A d \in Client : pc'[d] = IF d = c THEN "holding" ELSE pc[d]
      BY <2>0, <2>5 DEF FactoryMakes
    <3> QED
      BY <2>0, <2>5, <3>1, <3>2 DEF FactoryMakes
  <2>6. ASSUME NEW c \in Client, HandOver(c) PROVE Exclusive'
    <3> DEFINE next == waiting[waitingIndex + 1]
    <3>1. next \in Client
      BY <2>6, ElementOfSeq DEF HandOver, TypeOK
    <3>2. \A d \in Client : conn'[d] = IF d = next THEN conn[c]
                                       ELSE IF d = c THEN 0 ELSE conn[d]
      BY <2>0, <2>6, <3>1 DEF HandOver
    <3>3. \A d \in Client : pc'[d] = IF d = next THEN "holding"
                                     ELSE IF d = c THEN "idle" ELSE pc[d]
      BY <2>0, <2>6, <3>1 DEF HandOver
    <3>4. pool' = pool /\ pc[c] = "holding"
      BY <2>6 DEF HandOver
    <3> HIDE DEF next
    <3> QED
      BY <3>1, <3>2, <3>3, <3>4
  <2>7. ASSUME NEW c \in Client, PutBack(c) PROVE Exclusive'
    <3>1. /\ Len(pool') = Len(pool) + 1
          /\ \A i \in 1..Len(pool) : pool'[i] = pool[i]
          /\ pool'[Len(pool) + 1] = conn[c]
      BY <2>0, <2>7, AppendProperties DEF PutBack, TypeOK, Conns
    <3>2. \A d \in Client : conn'[d] = IF d = c THEN 0 ELSE conn[d]
      BY <2>0, <2>7 DEF PutBack
    <3>3. \A d \in Client : pc'[d] = IF d = c THEN "idle" ELSE pc[d]
      BY <2>0, <2>7 DEF PutBack
    <3>4. pc[c] = "holding"
      BY <2>7 DEF PutBack
    <3>5. \A d, e \in Client :
            pc'[d] = "holding" /\ pc'[e] = "holding" /\ conn'[d] = conn'[e] => d = e
      BY <3>2, <3>3
    <3>6. \A d \in Client, i \in 1..Len(pool') :
            pc'[d] = "holding" => pool'[i] # conn'[d]
      BY <2>0, <3>1, <3>2, <3>3, <3>4
    <3>7. \A i, j \in 1..Len(pool') : pool'[i] = pool'[j] => i = j
      BY <2>0, <3>1, <3>4
    <3> QED
      BY <3>5, <3>6, <3>7
  <2>8. ASSUME NEW c \in Client, AcquireNew(c) \/ AcquireWait(c) \/ FactoryFails(c)
        PROVE  Exclusive'
    <3>1. UNCHANGED <<pool, conn>>
      BY <2>8 DEF AcquireNew, AcquireWait, FactoryFails, store
    <3>2. \A d \in Client : pc'[d] = "holding" => pc[d] = "holding"
      BY <2>0, <2>8 DEF AcquireNew, AcquireWait, FactoryFails
    <3> QED
      BY <3>1, <3>2
  <2>9. Initialize \/ InitFailed \/ Close \/ ClosePooled \/ CloseInUse
          \/ UNCHANGED vars => UNCHANGED <<pool, pc, conn>>
    BY DEF Initialize, InitFailed, Close, ClosePooled, CloseInUse, vars, store,
           clients
  <2> QED
    BY <2>1, <2>2, <2>3, <2>4, <2>5, <2>6, <2>7, <2>8, <2>9 DEF Next, Release
<1> QED
  BY <1>1, <1>2, TypeCorrect, PTL DEF Spec
-----------------------------------------------------------------------------
(***************************************************************************)
(* The queue behind the array.  A hand-over takes the head of the pending  *)
(* waiters off, whether it compacts the array or not; an acquire puts one  *)
(* at the end; nothing else touches them.                                  *)
(***************************************************************************)
\* The pending waiters are the array from the index on.
LEMMA PendingType ==
  ASSUME TypeOK
  PROVE  /\ Pending \in Seq(Client)
         /\ Len(Pending) = Len(waiting) - waitingIndex
         /\ \A i \in 1..Len(Pending) : Pending[i] = waiting[waitingIndex + i]
<1>1. /\ waiting \in Seq(Client) /\ Len(waiting) \in Nat
      /\ waitingIndex \in 0..Len(waiting)
  BY DEF TypeOK
<1>2. \A i \in waitingIndex + 1 .. Len(waiting) : waiting[i] \in Client
  BY <1>1, ElementOfSeq
<1>3. /\ Pending \in Seq(Client)
      /\ Len(Pending) = IF waitingIndex + 1 <= Len(waiting)
                        THEN Len(waiting) - (waitingIndex + 1) + 1 ELSE 0
      /\ \A i \in 1 .. Len(waiting) - (waitingIndex + 1) + 1 :
           Pending[i] = waiting[(waitingIndex + 1) + i - 1]
  BY <1>1, <1>2, SubSeqProperties DEF Pending
<1>4. Len(Pending) = Len(waiting) - waitingIndex
  BY <1>1, <1>3
<1>5. \A i \in 1..Len(Pending) : Pending[i] = waiting[waitingIndex + i]
  BY <1>1, <1>3, <1>4
<1> QED
  BY <1>3, <1>4, <1>5

\* A hand-over serves the first of the pending waiters.
LEMMA HandOverTakesHead ==
  ASSUME TypeOK, NEW c \in Client, HandOver(c)
  PROVE  /\ Pending # <<>>
         /\ waiting[waitingIndex + 1] = Head(Pending)
         /\ Pending' = Tail(Pending)
<1>1. /\ waiting \in Seq(Client) /\ Len(waiting) \in Nat
      /\ waitingIndex \in Nat /\ waitingIndex < Len(waiting)
  BY DEF TypeOK, HandOver
<1>2. /\ Head(Pending) = waiting[waitingIndex + 1]
      /\ Tail(Pending) = SubSeq(waiting, waitingIndex + 2, Len(waiting))
  <2>1. waitingIndex + 1 \in 1..Len(waiting) /\ Len(waiting) \in waitingIndex + 1 .. Len(waiting)
    BY <1>1
  <2>2. /\ Head(Pending) = waiting[waitingIndex + 1]
        /\ Tail(Pending) = SubSeq(waiting, waitingIndex + 1 + 1, Len(waiting))
    BY <1>1, <2>1, HeadTailOfSubSeq DEF Pending
  <2>3. waitingIndex + 1 + 1 = waitingIndex + 2
    BY <1>1
  <2> QED
    BY <2>2, <2>3
<1>3. Pending # <<>>
  BY <1>1, PendingType, EmptySeq
<1>4. Compacted(waitingIndex + 1)
  BY DEF HandOver
<1>5. CASE waiting' = waiting /\ waitingIndex' = waitingIndex + 1
  <2>1. Pending' = SubSeq(waiting, (waitingIndex + 1) + 1, Len(waiting))
    BY <1>5 DEF Pending
  <2>2. (waitingIndex + 1) + 1 = waitingIndex + 2
    BY <1>1
  <2> QED
    BY <1>2, <1>3, <2>1, <2>2
<1>6. CASE /\ waiting' = SubSeq(waiting, waitingIndex + 1 + 1, Len(waiting))
           /\ waitingIndex' = 0
  <2>1. waitingIndex + 1 + 1 = waitingIndex + 2 /\ 0 + 1 = 1
    BY <1>1
  <2>2. waiting' = Tail(Pending)
    BY <1>2, <1>6, <2>1
  <2>3. Tail(Pending) \in Seq(Client)
    BY <1>3, PendingType, HeadTailProperties
  <2>4. Pending' = SubSeq(waiting', 0 + 1, Len(waiting'))
    BY <1>6 DEF Pending
  <2>5. Pending' = waiting'
    BY <2>1, <2>2, <2>3, <2>4, SubSeqFull
  <2> QED
    BY <1>2, <1>3, <2>2, <2>5
<1>7. \/ waiting' = waiting /\ waitingIndex' = waitingIndex + 1
      \/ /\ waiting' = SubSeq(waiting, waitingIndex + 1 + 1, Len(waiting))
         /\ waitingIndex' = 0
  BY <1>4, Zenon DEF Compacted
<1> QED
  BY <1>5, <1>6, <1>7, Zenon

\* A client that has to wait goes to the end of the queue.
LEMMA WaitAppends ==
  ASSUME TypeOK, NEW c \in Client, AcquireWait(c)
  PROVE  Pending' = Append(Pending, c)
<1>1. /\ waiting \in Seq(Client) /\ Len(waiting) \in Nat
      /\ waitingIndex \in 0..Len(waiting)
  BY DEF TypeOK
<1>2. waiting' = Append(waiting, c) /\ waitingIndex' = waitingIndex
  BY DEF AcquireWait
<1>3. /\ waiting' \in Seq(Client) /\ Len(waiting') = Len(waiting) + 1
      /\ \A i \in 1..Len(waiting) : waiting'[i] = waiting[i]
      /\ waiting'[Len(waiting) + 1] = c
  BY <1>1, <1>2, AppendProperties
<1>4. \A i \in waitingIndex + 1 .. Len(waiting) + 1 : waiting'[i] \in Client
  BY <1>1, <1>3
<1>5. Pending' = SubSeq(waiting', waitingIndex + 1, Len(waiting) + 1)
  BY <1>2, <1>3 DEF Pending
<1>6. /\ Pending' \in Seq(Client)
      /\ Len(Pending') = Len(waiting) - waitingIndex + 1
      /\ \A i \in 1 .. Len(waiting) - waitingIndex + 1 : Pending'[i] = waiting'[waitingIndex + i]
  <2>1. /\ Pending' \in Seq(Client)
        /\ Len(Pending') = IF waitingIndex + 1 <= Len(waiting) + 1
                           THEN Len(waiting) + 1 - (waitingIndex + 1) + 1 ELSE 0
        /\ \A i \in 1 .. Len(waiting) + 1 - (waitingIndex + 1) + 1 :
             Pending'[i] = waiting'[(waitingIndex + 1) + i - 1]
    BY <1>1, <1>4, <1>5, SubSeqProperties
  <2> QED
    BY <1>1, <2>1
<1>7. /\ Append(Pending, c) \in Seq(Client)
      /\ Len(Append(Pending, c)) = Len(waiting) - waitingIndex + 1
      /\ \A i \in 1 .. Len(waiting) - waitingIndex : Append(Pending, c)[i] = waiting[waitingIndex + i]
      /\ Append(Pending, c)[Len(waiting) - waitingIndex + 1] = c
  BY PendingType, AppendProperties
<1>8. ASSUME NEW i \in 1..Len(Pending') PROVE Pending'[i] = Append(Pending, c)[i]
  <2>1. Len(waiting) - waitingIndex \in Nat /\ i \in Int
    BY <1>1
  <2>2. CASE i = Len(waiting) - waitingIndex + 1
    <3>1. waitingIndex + i = Len(waiting) + 1
      BY <1>1, <2>2
    <3> QED
      BY <1>3, <1>6, <1>7, <2>2, <3>1
  <2>3. CASE i \in 1 .. Len(waiting) - waitingIndex
    <3>1. waitingIndex + i \in 1..Len(waiting)
      BY <1>1, <2>3
    <3> QED
      BY <1>3, <1>6, <1>7, <2>3, <3>1
  <2>4. i \in 1 .. Len(waiting) - waitingIndex + 1
    BY <1>6
  <2>5. i = Len(waiting) - waitingIndex + 1 \/ i \in 1 .. Len(waiting) - waitingIndex
    BY <2>1, <2>4
  <2> QED
    BY <2>2, <2>3, <2>5, Zenon
<1> QED
  BY <1>6, <1>7, <1>8, SeqEqual

\* An empty array has no pending waiters.
LEMMA EmptiedQueue ==
  ASSUME waiting' = <<>>, waitingIndex' = 0
  PROVE  Pending' = <<>>
<1>1. Len(waiting') = 0
  OBVIOUS
<1>2. Pending' = SubSeq(waiting', 0 + 1, 0)
  BY <1>1 DEF Pending
<1> QED
  BY <1>2, SubSeqEmpty

\* A connection returned to the pool finds nobody waiting and leaves nobody.
LEMMA NoneWait ==
  ASSUME TypeOK, NEW c \in Client, PutBack(c)
  PROVE  Pending = <<>> /\ Pending' = <<>>
<1>1. waiting \in Seq(Client) /\ Len(waiting) \in Nat /\ waitingIndex \in 0..Len(waiting)
  BY DEF TypeOK
<1>2. waitingIndex = Len(waiting)
  BY <1>1 DEF PutBack
<1>3. Pending = <<>>
  BY <1>1, <1>2, SubSeqEmpty DEF Pending
<1>4. waitingIndex = 0 => waiting = <<>>
  BY <1>1, <1>2, EmptySeq
<1> QED
  BY <1>3, <1>4, EmptiedQueue DEF PutBack

\* Every other step leaves the pending waiters as they are.
LEMMA OthersKeepQueue ==
  ASSUME UNCHANGED <<waiting, waitingIndex>>
  PROVE  Pending' = Pending
BY DEF Pending

\* Whoever is in the queue is waiting, and is there once.
QueueInv ==
  /\ \A i \in 1..Len(Pending) : pc[Pending[i]] = "waiting"
  /\ \A i, j \in 1..Len(Pending) : Pending[i] = Pending[j] => i = j

\* The steps that touch neither the queue nor a waiting client.
LEMMA QueueInvKept ==
  ASSUME TypeOK, QueueInv, UNCHANGED <<waiting, waitingIndex>>,
         \A d \in Client : pc[d] = "waiting" => pc'[d] = "waiting"
  PROVE  QueueInv'
<1>1. Pending' = Pending /\ Pending \in Seq(Client)
  BY OthersKeepQueue, PendingType
<1>2. \A i \in 1..Len(Pending) : Pending[i] \in Client
  BY <1>1, ElementOfSeq
<1> QED
  BY <1>1, <1>2 DEF QueueInv

\* The waiters in the queue are waiting and distinct, in every reachable state.
LEMMA QueueInvHolds == Spec => []QueueInv
<1>1. Init => QueueInv
  <2> SUFFICES ASSUME Init PROVE QueueInv
    OBVIOUS
  <2>1. Pending = SubSeq(waiting, 0 + 1, 0)
    BY DEF Init, Pending
  <2>2. Pending = <<>>
    BY <2>1, SubSeqEmpty
  <2> QED
    BY <2>2 DEF QueueInv
<1>2. TypeOK /\ QueueInv /\ [Next]_vars => QueueInv'
  <2> SUFFICES ASSUME TypeOK, QueueInv, [Next]_vars PROVE QueueInv'
    OBVIOUS
  <2>0. /\ Pending \in Seq(Client) /\ Len(Pending) \in Nat
        /\ \A i \in 1..Len(Pending) : Pending[i] \in Client
        /\ DOMAIN pc = Client
    BY PendingType, ElementOfSeq, LenProperties DEF TypeOK
  <2>1. ASSUME NEW c \in Client, AcquireWait(c) PROVE QueueInv'
    <3>1. Pending' = Append(Pending, c)
      BY <2>1, WaitAppends
    <3>2. /\ Len(Pending') = Len(Pending) + 1
          /\ \A i \in 1..Len(Pending) : Pending'[i] = Pending[i]
          /\ Pending'[Len(Pending) + 1] = c
      BY <2>0, <3>1, AppendProperties
    <3>3. \A d \in Client : pc'[d] = IF d = c THEN "waiting" ELSE pc[d]
      BY <2>0, <2>1 DEF AcquireWait
    <3>4. \A i \in 1..Len(Pending) : Pending[i] # c
      BY <2>1 DEF QueueInv, AcquireWait
    <3>5. \A i \in 1..Len(Pending') : pc'[Pending'[i]] = "waiting"
      BY <2>0, <3>2, <3>3 DEF QueueInv
    <3>6. \A i, j \in 1..Len(Pending') : Pending'[i] = Pending'[j] => i = j
      BY <2>0, <3>2, <3>4 DEF QueueInv
    <3> QED
      BY <3>5, <3>6 DEF QueueInv
  <2>2. ASSUME NEW c \in Client, HandOver(c) PROVE QueueInv'
    <3> DEFINE next == waiting[waitingIndex + 1]
    <3>1. Pending # <<>> /\ next = Head(Pending) /\ Pending' = Tail(Pending)
      BY <2>2, HandOverTakesHead
    <3>2. /\ Len(Pending') = Len(Pending) - 1 /\ next = Pending[1]
          /\ \A i \in 1..Len(Pending') : Pending'[i] = Pending[i + 1]
      BY <2>0, <3>1, HeadTailProperties
    <3>3. next \in Client
      BY <2>0, <3>1, HeadTailProperties
    <3>4. pc[c] = "holding" /\ \A d \in Client : d # next /\ d # c => pc'[d] = pc[d]
      BY <2>0, <2>2, <3>3 DEF HandOver
    <3> HIDE DEF next
    <3>5. ASSUME NEW i \in 1..Len(Pending') PROVE pc'[Pending'[i]] = "waiting"
      <4>1. i + 1 \in 1..Len(Pending) /\ 1 \in 1..Len(Pending) /\ i + 1 # 1
        BY <2>0, <3>2
      <4>2. Pending[i + 1] # next /\ pc[Pending[i + 1]] = "waiting"
        BY <3>2, <4>1 DEF QueueInv
      <4>3. Pending[i + 1] \in Client /\ Pending[i + 1] # c
        BY <2>0, <3>4, <4>1, <4>2
      <4> QED
        BY <3>2, <3>4, <4>2, <4>3
    <3>6. ASSUME NEW i \in 1..Len(Pending'), NEW j \in 1..Len(Pending'),
                 Pending'[i] = Pending'[j]
          PROVE  i = j
      <4>1. i + 1 \in 1..Len(Pending) /\ j + 1 \in 1..Len(Pending)
        BY <2>0, <3>2
      <4>2. Pending[i + 1] = Pending[j + 1]
        BY <3>2, <3>6
      <4>3. i + 1 = j + 1
        BY <4>1, <4>2 DEF QueueInv
      <4> QED
        BY <4>3
    <3> QED
      BY <3>5, <3>6 DEF QueueInv
  <2>3. ASSUME NEW c \in Client, PutBack(c) PROVE QueueInv'
    <3>1. Pending' = <<>>
      BY <2>3, NoneWait
    <3> QED
      BY <3>1 DEF QueueInv
  <2>4. CASE CloseEnds
    <3>1. Pending' = <<>>
      BY <2>4, EmptiedQueue DEF CloseEnds
    <3> QED
      BY <3>1 DEF QueueInv
  <2>5. ASSUME NEW c \in Client,
               AcquirePooled(c) \/ AcquireNew(c) \/ FactoryMakes(c) \/ FactoryFails(c)
        PROVE  QueueInv'
    <3>1. UNCHANGED <<waiting, waitingIndex>>
      BY <2>5 DEF AcquirePooled, AcquireNew, FactoryMakes, FactoryFails, store
    <3>2. \A d \in Client : pc[d] = "waiting" => pc'[d] = "waiting"
      BY <2>0, <2>5 DEF AcquirePooled, AcquireNew, FactoryMakes, FactoryFails
    <3> QED
      BY <3>1, <3>2, QueueInvKept
  <2>6. Initialize \/ InitCreated \/ InitFailed \/ Close \/ ClosePooled
          \/ CloseInUse \/ UNCHANGED vars => UNCHANGED <<waiting, waitingIndex, pc>>
    BY DEF Initialize, InitCreated, InitFailed, Close, ClosePooled, CloseInUse,
           vars, store, clients
  <2> QED
    BY <2>1, <2>2, <2>3, <2>4, <2>5, <2>6, QueueInvKept DEF Next, Release
<1> QED
  BY <1>1, <1>2, TypeCorrect, PTL DEF Spec

-----------------------------------------------------------------------------
(***************************************************************************)
(* A hand-over gives the connection to a client that holds none, as the    *)
(* waiters are waiting (QueueInv), and a return takes it from the only one *)
(* that has it (Exclusive): so inUse and Held lose and gain the same.      *)
(***************************************************************************)
\* The pool's record of the connections in use is who holds what, until
\* close() forgets it.
THEOREM InUseIsHeldHolds == Spec => []InUseIsHeld
<1> USE DEF Held
<1>1. Init => InUseIsHeld
  BY DEF Init, InUseIsHeld
<1>2. TypeOK /\ Exclusive /\ QueueInv /\ InUseIsHeld /\ [Next]_vars => InUseIsHeld'
  <2> SUFFICES ASSUME TypeOK, Exclusive, QueueInv, InUseIsHeld, [Next]_vars
               PROVE  InUseIsHeld'
    OBVIOUS
  <2> USE DEF InUseIsHeld
  <2>0. DOMAIN conn = Client /\ DOMAIN pc = Client
    BY DEF TypeOK
  <2>1. ASSUME NEW c \in Client, NEW k, pc[c] # "holding",
               pc' = [pc EXCEPT ![c] = "holding"], conn' = [conn EXCEPT ![c] = k]
        PROVE  Held' = Held \cup {k}
    <3>1. \A d \in Client : /\ pc'[d] = IF d = c THEN "holding" ELSE pc[d]
                            /\ conn'[d] = IF d = c THEN k ELSE conn[d]
      BY <2>0, <2>1
    <3> QED
      BY <2>1, <3>1
  <2>2. ASSUME NEW c \in Client, AcquirePooled(c) \/ FactoryMakes(c) PROVE InUseIsHeld'
    <3>1. PICK k : /\ inUse' = inUse \cup {k} /\ pc[c] # "holding"
                   /\ pc' = [pc EXCEPT ![c] = "holding"]
                   /\ conn' = [conn EXCEPT ![c] = k]
      BY <2>2 DEF AcquirePooled, FactoryMakes
    <3>2. closing' = closing
      BY <2>2 DEF AcquirePooled, FactoryMakes, shutdown
    <3>3. Held' = Held \cup {k}
      BY <2>1, <3>1
    <3> HIDE DEF Held
    <3> QED
      BY <3>1, <3>2, <3>3
  <2>3. ASSUME NEW c \in Client, HandOver(c) PROVE InUseIsHeld'
    <3> DEFINE next == waiting[waitingIndex + 1]
    <3>1. pc[c] = "holding" /\ inUse' = inUse \cup {conn[c]} /\ closing' = closing
      BY <2>3 DEF HandOver, shutdown
    <3>2. next \in Client /\ pc[next] = "waiting"
      <4>1. next = Head(Pending) /\ Pending # <<>>
        BY <2>3, HandOverTakesHead
      <4>2. Pending \in Seq(Client) /\ Len(Pending) \in Nat \ {0}
        BY <4>1, PendingType, EmptySeq
      <4>3. next = Pending[1] /\ 1 \in 1..Len(Pending)
        BY <4>1, <4>2
      <4> QED
        BY <4>2, <4>3, ElementOfSeq DEF QueueInv
    <3>3. \A d \in Client :
            /\ pc'[d] = IF d = next THEN "holding" ELSE IF d = c THEN "idle" ELSE pc[d]
            /\ conn'[d] = IF d = next THEN conn[c] ELSE IF d = c THEN None ELSE conn[d]
      BY <2>0, <2>3, <3>2 DEF HandOver
    <3> HIDE DEF next
    <3>4. Held' = Held
      BY <3>1, <3>2, <3>3
    <3>5. conn[c] \in Held
      BY <3>1
    <3> HIDE DEF Held
    <3> QED
      BY <3>1, <3>4, <3>5
  <2>4. ASSUME NEW c \in Client, PutBack(c) PROVE InUseIsHeld'
    <3>1. pc[c] = "holding" /\ inUse' = inUse \ {conn[c]} /\ closing' = closing
      BY <2>4 DEF PutBack, shutdown
    <3>2. \A d \in Client : /\ pc'[d] = IF d = c THEN "idle" ELSE pc[d]
                            /\ conn'[d] = IF d = c THEN None ELSE conn[d]
      BY <2>0, <2>4 DEF PutBack
    <3>3. \A d \in Client : pc[d] = "holding" /\ conn[d] = conn[c] => d = c
      BY <3>1 DEF Exclusive
    <3>4. Held' = Held \ {conn[c]}
      BY <3>1, <3>2, <3>3
    <3> HIDE DEF Held
    <3> QED
      BY <3>1, <3>4
  <2>5. ASSUME NEW c \in Client, AcquireNew(c) \/ AcquireWait(c) \/ FactoryFails(c)
        PROVE  InUseIsHeld'
    <3>1. inUse' = inUse /\ closing' = closing /\ conn' = conn
      BY <2>5 DEF AcquireNew, AcquireWait, FactoryFails, store, shutdown
    <3>2. \A d \in Client : pc'[d] = "holding" <=> pc[d] = "holding"
      BY <2>0, <2>5 DEF AcquireNew, AcquireWait, FactoryFails
    <3>3. Held' = Held
      BY <3>1, <3>2
    <3> HIDE DEF Held
    <3> QED
      BY <3>1, <3>3
  <2>6. CASE CloseEnds
    BY <2>6 DEF CloseEnds, clients
  <2>7. CASE Close \/ ClosePooled
    BY <2>7 DEF Close, ClosePooled, clients, store
  <2>8. CASE Initialize \/ InitCreated \/ InitFailed \/ CloseInUse \/ UNCHANGED vars
    <3>1. UNCHANGED <<inUse, pc, conn, closing>>
      BY <2>8 DEF Initialize, InitCreated, InitFailed, CloseInUse, vars, store,
                  clients, shutdown
    <3> QED
      BY <3>1
  <2> QED
    BY <2>2, <2>3, <2>4, <2>5, <2>6, <2>7, <2>8 DEF Next, Release
<1> QED
  BY <1>1, <1>2, TypeCorrect, ExclusiveHolds, QueueInvHolds, PTL DEF Spec

\* Both halves of ownership, for release() and the withConnection() around it.
THEOREM OwnershipHolds == Spec => []Ownership
BY ExclusiveHolds, InUseIsHeldHolds, PTL DEF Ownership

-----------------------------------------------------------------------------
(***************************************************************************)
(* Every step of the pool is a step of the queue or leaves it alone.       *)
(***************************************************************************)
\* The clients of the pool are served first come first served: the pool
\* implements WaitQueue, its array, index and compaction included.
THEOREM ImplementsQueueHolds == Spec => ImplementsQueue
<1>1. Init => Queue!Init
  <2> SUFFICES ASSUME Init PROVE Queue!Init
    OBVIOUS
  <2>1. Pending = SubSeq(waiting, 0 + 1, 0)
    BY DEF Init, Pending
  <2>2. Pending = <<>>
    BY <2>1, SubSeqEmpty
  <2>3. Status = [c \in Client |-> "idle"]
    BY DEF Init, Status
  <2> QED
    BY <2>2, <2>3 DEF Queue!Init
<1>2. TypeOK /\ QueueInv /\ [Next]_vars => [Queue!Next]_(Queue!vars)
  <2> SUFFICES ASSUME TypeOK, QueueInv, [Next]_vars
               PROVE  Queue!Next \/ UNCHANGED <<Status, Pending>>
    BY DEF Queue!vars
  <2>0. DOMAIN pc = Client /\ pc \in [Client -> {"idle", "creating", "waiting", "holding"}]
    BY DEF TypeOK
  <2>1. ASSUME NEW c \in Client, AcquirePooled(c) \/ AcquireNew(c)
        PROVE  Queue!Next
    <3>1. Pending' = Pending
      BY <2>1, OthersKeepQueue DEF AcquirePooled, AcquireNew, store
    <3>2. Status[c] = "idle" /\ Status' = [Status EXCEPT ![c] = "served"]
      BY <2>0, <2>1 DEF AcquirePooled, AcquireNew, Status
    <3>3. Queue!Serve(c)
      BY <3>1, <3>2 DEF Queue!Serve
    <3> QED
      BY <3>3 DEF Queue!Next
  <2>2. ASSUME NEW c \in Client, AcquireWait(c) PROVE Queue!Next
    <3>1. Pending' = Append(Pending, c)
      BY <2>2, WaitAppends
    <3>2. Status[c] = "idle" /\ Status' = [Status EXCEPT ![c] = "waiting"]
      BY <2>0, <2>2 DEF AcquireWait, Status
    <3>3. Queue!Enqueue(c)
      BY <3>1, <3>2 DEF Queue!Enqueue
    <3> QED
      BY <3>3 DEF Queue!Next
  <2>3. ASSUME NEW c \in Client, FactoryMakes(c) PROVE UNCHANGED <<Status, Pending>>
    <3>1. Pending' = Pending
      BY <2>3, OthersKeepQueue DEF FactoryMakes
    <3>2. Status' = Status
      BY <2>0, <2>3 DEF FactoryMakes, Status
    <3> QED
      BY <3>1, <3>2
  <2>4. ASSUME NEW c \in Client, FactoryFails(c) PROVE Queue!Next
    <3>1. Pending' = Pending
      BY <2>4, OthersKeepQueue DEF FactoryFails, store
    <3>2. Status[c] = "served" /\ Status' = [Status EXCEPT ![c] = "idle"]
      BY <2>0, <2>4 DEF FactoryFails, Status
    <3>3. Queue!GiveUp(c)
      BY <3>1, <3>2 DEF Queue!GiveUp
    <3> QED
      BY <3>3 DEF Queue!Next
  <2>5. ASSUME NEW c \in Client, HandOver(c) PROVE Queue!Next
    <3> DEFINE next == Head(Pending)
    <3>1. Pending # <<>> /\ next = waiting[waitingIndex + 1] /\ Pending' = Tail(Pending)
      BY <2>5, HandOverTakesHead
    <3>2. next \in Client
      BY <3>1, PendingType, HeadTailProperties
    <3>3. pc[c] = "holding" /\ pc' = [pc EXCEPT ![c] = "idle", ![next] = "holding"]
      BY <2>5, <3>1 DEF HandOver
    <3> HIDE DEF next
    <3>4. Status[c] = "served"
      BY <3>3 DEF Status
    <3>5. Status' = [Status EXCEPT ![c] = "idle", ![next] = "served"]
      BY <2>0, <3>2, <3>3 DEF Status
    <3>6. Queue!Leave(c)
      BY <3>1, <3>4, <3>5 DEF Queue!Leave, next
    <3> QED
      BY <3>6 DEF Queue!Next
  <2>6. ASSUME NEW c \in Client, PutBack(c) PROVE Queue!Next
    <3>1. Pending = <<>> /\ Pending' = Pending
      BY <2>6, NoneWait
    <3>2. Status[c] = "served" /\ Status' = [Status EXCEPT ![c] = "idle"]
      BY <2>0, <2>6 DEF PutBack, Status
    <3>3. Queue!Leave(c)
      BY <3>1, <3>2 DEF Queue!Leave
    <3> QED
      BY <3>3 DEF Queue!Next
  <2>7. CASE CloseEnds
    <3>1. Pending' = <<>> /\ Status' = Status
      BY <2>7, EmptiedQueue DEF CloseEnds, clients, Status
    <3> QED
      BY <3>1 DEF Queue!Next, Queue!Abandon
  <2>8. CASE Initialize \/ InitCreated \/ InitFailed \/ Close \/ ClosePooled
               \/ CloseInUse \/ UNCHANGED vars
    <3>1. UNCHANGED <<waiting, waitingIndex, pc>>
      BY <2>8 DEF Initialize, InitCreated, InitFailed, Close, ClosePooled,
                  CloseInUse, vars, store, clients
    <3> QED
      BY <3>1 DEF Status, Pending
  <2> QED
    BY <2>1, <2>2, <2>3, <2>4, <2>5, <2>6, <2>7, <2>8 DEF Next, Release
<1> QED
  BY <1>1, <1>2, TypeCorrect, QueueInvHolds, PTL DEF Spec, ImplementsQueue, Queue!Spec

-----------------------------------------------------------------------------
(* Migrations: scripts in effect, and rows of the tracking table.          *)
MigrationBounds ==
  /\ File \in SUBSET Nat /\ IsFiniteSet(File) /\ IsFiniteSet(Proc)
  /\ Flavour \subseteq {"migrator", "runner"}

WorkType == [op : {"idle", "up", "insert", "down", "delete"}, todo : SUBSET File]

\* Processes about to insert or to delete the row of a file, and the distance of
\* scripts and rows that they leave when they have.
Waiting(pr, op, f) == {q \in Proc : pr[q].op = op /\ Migrate!Min(pr[q].todo) = f}
RowsOf(rw, f) == IF rw[f] > 0 THEN 1 ELSE 0
LedgerOf(ef, rw, pr) ==
  [f \in File |-> Migrate!Distance(ef[f] + Cardinality(Waiting(pr, "delete", f)),
                                   RowsOf(rw, f) + Cardinality(Waiting(pr, "insert", f)))]

\* What one process and its file add to it.
Waits(w, op, f) == IF w.op = op /\ Migrate!Min(w.todo) = f THEN 1 ELSE 0
Owes(ef, rw, w, f) ==
  ef[f] + Waits(w, "delete", f) - (RowsOf(rw, f) + Waits(w, "insert", f))

Works == [Proc -> WorkType]
Effects == [File -> Int]
Rows == [File -> Nat]

\* One process more or less waits.
LEMMA WaitingChanges ==
  ASSUME MigrationBounds, NEW pr \in Works, NEW p \in Proc, NEW w \in WorkType, NEW op, NEW f
  PROVE  /\ Cardinality(Waiting(pr, op, f)) \in Nat
         /\ Cardinality(Waiting([pr EXCEPT ![p] = w], op, f))
              = Cardinality(Waiting(pr, op, f)) + Waits(w, op, f) - Waits(pr[p], op, f)
<1> DEFINE old == Waiting(pr, op, f)
           new == Waiting([pr EXCEPT ![p] = w], op, f)
           rest == old \ {p}
<1>1. IsFiniteSet(rest) /\ IsFiniteSet(old)
  <2>1. old \in SUBSET Proc /\ rest \in SUBSET Proc
    BY DEF Waiting
  <2> QED
    BY <2>1, FS_Subset DEF MigrationBounds
<1>2. Cardinality(rest) \in Nat /\ Cardinality(old) \in Nat
  BY <1>1, FS_CardinalityType
<1>3. Cardinality(old) = Cardinality(rest) + Waits(pr[p], op, f)
  <2>1. CASE p \in old
    <3>1. Waits(pr[p], op, f) = 1
      BY <2>1 DEF Waiting, Waits
    <3>2. Cardinality(rest) = Cardinality(old) - 1
      <4> HIDE DEF old
      <4> QED
        BY <1>1, <2>1, FS_RemoveElement
    <3> HIDE DEF old, rest
    <3> QED
      BY <1>2, <3>1, <3>2
  <2>2. CASE p \notin old
    <3>1. Waits(pr[p], op, f) = 0
      BY <2>2 DEF Waiting, Waits
    <3>2. rest = old
      BY <2>2
    <3> HIDE DEF old, rest
    <3> QED
      BY <1>2, <3>1, <3>2
  <2> QED
    BY <2>1, <2>2
<1>4. Cardinality(new) = Cardinality(rest) + Waits(w, op, f)
  <2>0. /\ \A q \in Proc \ {p} : [pr EXCEPT ![p] = w][q] = pr[q]
        /\ [pr EXCEPT ![p] = w][p] = w
    BY DEF Works
  <2>1. CASE Waits(w, op, f) = 1
    <3>1. new = rest \cup {p}
      BY <2>0, <2>1 DEF Waiting, Waits
    <3>2. p \notin rest
      OBVIOUS
    <3> HIDE DEF new, rest
    <3> QED
      BY <1>1, <2>1, <3>1, <3>2, FS_AddElement
  <2>2. CASE Waits(w, op, f) # 1
    <3>1. new = rest
      BY <2>0, <2>2 DEF Waiting, Waits
    <3>2. Waits(w, op, f) = 0
      BY <2>2 DEF Waits
    <3> HIDE DEF new, rest
    <3> QED
      BY <1>2, <3>1, <3>2
  <2> QED
    BY <2>1, <2>2
<1> QED
  <2>1. Waits(w, op, f) \in Nat /\ Waits(pr[p], op, f) \in Nat
    BY DEF Waits
  <2> HIDE DEF old, new, rest
  <2>2. Cardinality(new) = Cardinality(old) + Waits(w, op, f) - Waits(pr[p], op, f)
    BY <1>2, <1>3, <1>4, <2>1
  <2> QED
    BY <1>2, <2>2 DEF old, new

\* The ledger of a file moves by what the process owes more or less.
LEMMA LedgerMoves ==
  ASSUME MigrationBounds, NEW pr \in Works, NEW p \in Proc, NEW w \in WorkType,
         NEW ef \in Effects, NEW rw \in Rows, NEW ef2 \in Effects, NEW rw2 \in Rows, NEW f \in File
  PROVE  LET was == LedgerOf(ef, rw, pr)[f]
             is == LedgerOf(ef2, rw2, [pr EXCEPT ![p] = w])[f]
             more == Owes(ef2, rw2, w, f) - Owes(ef, rw, pr[p], f)
         IN /\ was \in Nat /\ is \in Nat
            /\ more = 0 => is = was
            /\ more \in -1..1 => is <= was + 1
<1> DEFINE pr2 == [pr EXCEPT ![p] = w]
<1>1. PICK d \in Nat, i \in Nat, d2 \in Nat, i2 \in Nat :
        /\ d = Cardinality(Waiting(pr, "delete", f)) /\ i = Cardinality(Waiting(pr, "insert", f))
        /\ d2 = Cardinality(Waiting(pr2, "delete", f)) /\ i2 = Cardinality(Waiting(pr2, "insert", f))
  <2>1. pr2 \in Works
    BY DEF Works
  <2> HIDE DEF pr2
  <2> QED
    BY <2>1, WaitingChanges
<1>2. /\ d2 = d + Waits(w, "delete", f) - Waits(pr[p], "delete", f)
      /\ i2 = i + Waits(w, "insert", f) - Waits(pr[p], "insert", f)
  BY <1>1, WaitingChanges
<1>3. PICK a \in Int, b \in Int, a2 \in Int, b2 \in Int :
        /\ a = ef[f] /\ b = RowsOf(rw, f) /\ a2 = ef2[f] /\ b2 = RowsOf(rw2, f)
  BY DEF Effects, Rows, RowsOf
<1>4. PICK wd \in Int, wi \in Int, vd \in Int, vi \in Int :
        /\ wd = Waits(w, "delete", f) /\ vd = Waits(pr[p], "delete", f)
        /\ wi = Waits(w, "insert", f) /\ vi = Waits(pr[p], "insert", f)
  BY DEF Waits
<1>5. /\ LedgerOf(ef, rw, pr)[f] = Migrate!Distance(a + d, b + i)
      /\ LedgerOf(ef2, rw2, pr2)[f] = Migrate!Distance(a2 + d2, b2 + i2)
  BY <1>1, <1>3 DEF LedgerOf
<1>6. Owes(ef2, rw2, w, f) - Owes(ef, rw, pr[p], f) = (a2 + wd - (b2 + wi)) - (a + vd - (b + vi))
  BY <1>3, <1>4 DEF Owes
<1>7. d2 = d + wd - vd /\ i2 = i + wi - vi
  BY <1>2, <1>4
<1> DEFINE more == (a2 + wd - (b2 + wi)) - (a + vd - (b + vi))
<1>8. (a2 + d2) - (b2 + i2) = (a + d) - (b + i) + more
  BY <1>7
<1>9. PICK x \in Int, y \in Int, x2 \in Int, y2 \in Int, m \in Int :
        x = a + d /\ y = b + i /\ x2 = a2 + d2 /\ y2 = b2 + i2 /\ m = more
  OBVIOUS
<1>10. x2 - y2 = x - y + m
  BY <1>8, <1>9
<1>11. /\ Migrate!Distance(x, y) \in Nat /\ Migrate!Distance(x2, y2) \in Nat
       /\ m = 0 => Migrate!Distance(x2, y2) = Migrate!Distance(x, y)
       /\ m \in -1..1 => Migrate!Distance(x2, y2) <= Migrate!Distance(x, y) + 1
  BY <1>10 DEF Migrate!Distance
<1> QED
  BY <1>5, <1>6, <1>9, <1>11

SumOf(ef, rw, pr) == SumFunctionOnSet(LedgerOf(ef, rw, pr), File)

\* A process that owes nothing more or less leaves the sum.
LEMMA LedgerSame ==
  ASSUME MigrationBounds, NEW pr \in Works, NEW p \in Proc, NEW w \in WorkType,
         NEW ef \in Effects, NEW rw \in Rows, NEW ef2 \in Effects, NEW rw2 \in Rows,
         \A f \in File : Owes(ef2, rw2, w, f) - Owes(ef, rw, pr[p], f) = 0
  PROVE  SumOf(ef2, rw2, [pr EXCEPT ![p] = w]) = SumOf(ef, rw, pr)
<1>1. \A f \in File : LedgerOf(ef2, rw2, [pr EXCEPT ![p] = w])[f] = LedgerOf(ef, rw, pr)[f]
  BY LedgerMoves
<1>2. PICK was, is : was = LedgerOf(ef, rw, pr) /\ is = LedgerOf(ef2, rw2, [pr EXCEPT ![p] = w])
  OBVIOUS
<1>3. \A f \in File : is[f] = was[f]
  BY <1>1, <1>2
<1>4. SumFunctionOnSet(is, File) = SumFunctionOnSet(was, File)
  BY <1>3, SumSame DEF MigrationBounds
<1> QED
  BY <1>2, <1>4 DEF SumOf

\* One that owes one file more or less changes it by one, at most.
LEMMA LedgerOne ==
  ASSUME MigrationBounds, NEW pr \in Works, NEW p \in Proc, NEW w \in WorkType,
         NEW ef \in Effects, NEW rw \in Rows, NEW ef2 \in Effects, NEW rw2 \in Rows, NEW f \in File,
         \A g \in File : g # f => Owes(ef2, rw2, w, g) - Owes(ef, rw, pr[p], g) = 0,
         Owes(ef2, rw2, w, f) - Owes(ef, rw, pr[p], f) \in -1..1
  PROVE  SumOf(ef2, rw2, [pr EXCEPT ![p] = w]) <= SumOf(ef, rw, pr) + 1
<1> DEFINE was == LedgerOf(ef, rw, pr)
           is == LedgerOf(ef2, rw2, [pr EXCEPT ![p] = w])
<1>1. \A g \in File : was[g] \in Nat /\ is[g] \in Nat /\ (g # f => was[g] = is[g])
  BY LedgerMoves
<1>2. is[f] <= was[f] + 1
  BY LedgerMoves
<1> HIDE DEF was, is
<1>3. /\ \A g \in File : was[g] \in Int /\ is[g] \in Int
      /\ \A g \in File \ {f} : was[g] = is[g]
  BY <1>1
<1>4. SumFunctionOnSet(is, File) = SumFunctionOnSet(was, File) + (is[f] - was[f])
  BY <1>3, SumChanges DEF MigrationBounds
<1>5. SumFunctionOnSet(was, File) \in Int
  BY <1>3, SumType DEF MigrationBounds
<1>6. SumFunctionOnSet(is, File) <= SumFunctionOnSet(was, File) + 1
  BY <1>1, <1>2, <1>4, <1>5
<1> QED
  BY <1>6 DEF SumOf, was, is

\* The sum is a number.
LEMMA SumOfType ==
  ASSUME MigrationBounds, NEW pr \in Works, NEW ef \in Effects, NEW rw \in Rows
  PROVE  SumOf(ef, rw, pr) \in Int /\ \A f \in File : LedgerOf(ef, rw, pr)[f] \in Nat
<1>1. \A f \in File : LedgerOf(ef, rw, pr)[f] \in Nat
  <2> TAKE f \in File
  <2>1. PICK d \in Nat, i \in Nat :
          d = Cardinality(Waiting(pr, "delete", f)) /\ i = Cardinality(Waiting(pr, "insert", f))
    <3>1. \A op : Waiting(pr, op, f) \in SUBSET Proc
      BY DEF Waiting
    <3>2. \A op : Cardinality(Waiting(pr, op, f)) \in Nat
      BY <3>1, FS_Subset, FS_CardinalityType DEF MigrationBounds
    <3> QED
      BY <3>2
  <2>2. PICK a \in Int, b \in Int : a = ef[f] /\ b = RowsOf(rw, f)
    BY DEF Effects, Rows, RowsOf
  <2>3. LedgerOf(ef, rw, pr)[f] = Migrate!Distance(a + d, b + i)
    BY <2>1, <2>2 DEF LedgerOf
  <2>4. Migrate!Distance(a + d, b + i) \in Nat
    BY DEF Migrate!Distance
  <2> QED
    BY <2>3, <2>4
<1>2. PICK it : it = LedgerOf(ef, rw, pr)
  OBVIOUS
<1>3. \A f \in File : it[f] \in Int
  BY <1>1, <1>2
<1>4. SumFunctionOnSet(it, File) \in Int
  BY <1>3, SumType DEF MigrationBounds
<1> QED
  BY <1>1, <1>2, <1>4 DEF SumOf

\* Calls that may part a script from its row, and those of them that will not,
\* if nothing else happens: an up() of the runner whose files are all behind
\* what is tracked of any up()'s files, and a down() of a tracked file.
BusyWork(fl, w) == w.op \notin IF fl = "runner" THEN {"idle"} ELSE {"idle", "up"}
UpWork(w) == w.op \in {"up", "insert"}
Busy(fl, pr) == {q \in Proc : BusyWork(fl, pr[q])}
Leads(rw, pr, q) ==
  IF UpWork(pr[q])
  THEN \A p \in Proc : UpWork(pr[p]) =>
         \A f \in pr[p].todo : rw[f] > 0 => \A g \in pr[q].todo : f < g
  ELSE rw[Migrate!Min(pr[q].todo)] > 0
Led(fl, rw, pr) == \E q \in Busy(fl, pr) : Leads(rw, pr, q)
BehindOf(fl, rw, pr) == Cardinality(Busy(fl, pr)) - (IF Led(fl, rw, pr) THEN 1 ELSE 0)

Shaped(fl, w) ==
  /\ w.op = "insert" => w.todo # {}
  /\ w.op \in {"down", "delete"} => \E f \in File : w.todo = {f}
  /\ fl = "migrator" => w.op \in {"idle", "up", "down"}

\* Each call that may part a script from its row does so once; the first to run
\* is excused by nobody, as it does no harm.
InvOf(fl, rw, ef, pr, ex) ==
  /\ fl \in {"migrator", "runner"} /\ rw \in Rows /\ ef \in Effects /\ pr \in Works /\ ex \in Nat
  /\ \A p \in Proc : Shaped(fl, pr[p])
  /\ SumOf(ef, rw, pr) + BehindOf(fl, rw, pr) <= ex
MigrationInv == present \in SUBSET File /\ InvOf(flavour, row, effect, proc, excused)

\* What becomes of the calls when one goes on.
LEMMA WorkMoves ==
  ASSUME NEW pr \in Works, NEW p \in Proc, NEW w \in WorkType
  PROVE  /\ [pr EXCEPT ![p] = w] \in Works
         /\ [pr EXCEPT ![p] = w][p] = w
         /\ \A q \in Proc : q # p => [pr EXCEPT ![p] = w][q] = pr[q]
BY DEF Works

\* Those that are behind are a number of calls.
LEMMA BehindType ==
  ASSUME MigrationBounds, NEW fl, NEW rw, NEW pr
  PROVE  /\ IsFiniteSet(Busy(fl, pr)) /\ Cardinality(Busy(fl, pr)) \in Nat
         /\ BehindOf(fl, rw, pr) \in Nat
         /\ Led(fl, rw, pr) => Cardinality(Busy(fl, pr)) = BehindOf(fl, rw, pr) + 1
         /\ ~Led(fl, rw, pr) => Cardinality(Busy(fl, pr)) = BehindOf(fl, rw, pr)
<1>1. Busy(fl, pr) \in SUBSET Proc
  BY DEF Busy
<1>2. IsFiniteSet(Busy(fl, pr)) /\ Cardinality(Busy(fl, pr)) \in Nat
  BY <1>1, FS_Subset, FS_CardinalityType DEF MigrationBounds
<1>3. Led(fl, rw, pr) => Cardinality(Busy(fl, pr)) # 0
  BY <1>2, FS_EmptySet DEF Led
<1>4. PICK n \in Nat : n = Cardinality(Busy(fl, pr))
  BY <1>2
<1>5. BehindOf(fl, rw, pr) = n - (IF Led(fl, rw, pr) THEN 1 ELSE 0)
  BY <1>4 DEF BehindOf
<1> QED
  BY <1>2, <1>3, <1>4, <1>5

\* A call that ends leaves no more behind; one that did not lead leaves one less,
\* where those that lead still do.
LEMMA BehindLeaves ==
  ASSUME MigrationBounds, NEW pr \in Works, NEW p \in Proc, NEW w \in WorkType, NEW fl, NEW rw, NEW rw2,
         BusyWork(fl, pr[p]), ~BusyWork(fl, w)
  PROVE  LET pr2 == [pr EXCEPT ![p] = w] IN
         /\ BehindOf(fl, rw2, pr2) <= BehindOf(fl, rw, pr)
         /\ (Led(fl, rw, pr) => Led(fl, rw2, pr2)) =>
              BehindOf(fl, rw2, pr2) <= BehindOf(fl, rw, pr) - 1
<1> DEFINE pr2 == [pr EXCEPT ![p] = w]
<1>1. Busy(fl, pr2) = Busy(fl, pr) \ {p} /\ p \in Busy(fl, pr)
  <2>1. pr2[p] = w /\ \A q \in Proc : q # p => pr2[q] = pr[q]
    BY DEF Works
  <2> HIDE DEF pr2
  <2> QED
    BY <2>1 DEF Busy
<1> HIDE DEF pr2
<1>2. Cardinality(Busy(fl, pr2)) = Cardinality(Busy(fl, pr)) - 1
  <2>1. PICK B : B = Busy(fl, pr)
    OBVIOUS
  <2>2. IsFiniteSet(B)
    BY <2>1, BehindType
  <2> QED
    BY <1>1, <2>1, <2>2, FS_RemoveElement
<1>3. /\ BehindOf(fl, rw, pr) \in Nat
      /\ Led(fl, rw, pr) => Cardinality(Busy(fl, pr)) = BehindOf(fl, rw, pr) + 1
      /\ ~Led(fl, rw, pr) => Cardinality(Busy(fl, pr)) = BehindOf(fl, rw, pr)
  BY BehindType
<1>4. /\ BehindOf(fl, rw2, pr2) \in Nat
      /\ Led(fl, rw2, pr2) => Cardinality(Busy(fl, pr2)) = BehindOf(fl, rw2, pr2) + 1
      /\ ~Led(fl, rw2, pr2) => Cardinality(Busy(fl, pr2)) = BehindOf(fl, rw2, pr2)
  BY BehindType
<1>5. PICK a \in Nat, b \in Nat : a = BehindOf(fl, rw, pr) /\ b = BehindOf(fl, rw2, pr2)
  BY <1>3, <1>4
<1>6. b <= a /\ ((Led(fl, rw, pr) => Led(fl, rw2, pr2)) => b <= a - 1)
  BY <1>2, <1>3, <1>4, <1>5
<1> QED
  BY <1>5, <1>6 DEF pr2

\* One that goes on, or has nothing to part, leaves as many.
LEMMA BehindStays ==
  ASSUME MigrationBounds, NEW pr \in Works, NEW p \in Proc, NEW w \in WorkType, NEW fl, NEW rw, NEW rw2,
         BusyWork(fl, pr[p]) <=> BusyWork(fl, w),
         Led(fl, rw, pr) => Led(fl, rw2, [pr EXCEPT ![p] = w])
  PROVE  BehindOf(fl, rw2, [pr EXCEPT ![p] = w]) <= BehindOf(fl, rw, pr)
<1> DEFINE pr2 == [pr EXCEPT ![p] = w]
<1>1. Busy(fl, pr2) = Busy(fl, pr)
  <2>1. pr2[p] = w /\ \A q \in Proc : q # p => pr2[q] = pr[q]
    BY DEF Works
  <2> HIDE DEF pr2
  <2> QED
    BY <2>1 DEF Busy
<1> HIDE DEF pr2
<1>3. /\ BehindOf(fl, rw, pr) \in Nat
      /\ Led(fl, rw, pr) => Cardinality(Busy(fl, pr)) = BehindOf(fl, rw, pr) + 1
      /\ ~Led(fl, rw, pr) => Cardinality(Busy(fl, pr)) = BehindOf(fl, rw, pr)
  BY BehindType
<1>4. /\ BehindOf(fl, rw2, pr2) \in Nat
      /\ Led(fl, rw2, pr2) => Cardinality(Busy(fl, pr2)) = BehindOf(fl, rw2, pr2) + 1
      /\ ~Led(fl, rw2, pr2) => Cardinality(Busy(fl, pr2)) = BehindOf(fl, rw2, pr2)
  BY BehindType
<1>5. Led(fl, rw, pr) => Led(fl, rw2, pr2)
  BY DEF pr2
<1>6. PICK a \in Nat, b \in Nat : a = BehindOf(fl, rw, pr) /\ b = BehindOf(fl, rw2, pr2)
  BY <1>3, <1>4
<1>7. b <= a
  BY <1>1, <1>3, <1>4, <1>5, <1>6
<1> QED
  BY <1>6, <1>7 DEF pr2

\* One that begins alone leads; beside others it is one more.
LEMMA BehindJoins ==
  ASSUME MigrationBounds, NEW pr \in Works, NEW p \in Proc, NEW w \in WorkType, NEW fl, NEW rw,
         ~BusyWork(fl, pr[p]), BusyWork(fl, w),
         Led(fl, rw, pr) \/ Busy(fl, pr) = {} => Led(fl, rw, [pr EXCEPT ![p] = w])
  PROVE  LET pr2 == [pr EXCEPT ![p] = w] IN
         /\ BehindOf(fl, rw, pr2) <= BehindOf(fl, rw, pr) + 1
         /\ Busy(fl, pr) = {} => BehindOf(fl, rw, pr2) <= BehindOf(fl, rw, pr)
<1> DEFINE pr2 == [pr EXCEPT ![p] = w]
<1>1. Busy(fl, pr2) = Busy(fl, pr) \cup {p} /\ p \notin Busy(fl, pr)
  <2>1. pr2[p] = w /\ \A q \in Proc : q # p => pr2[q] = pr[q]
    BY DEF Works
  <2> HIDE DEF pr2
  <2> QED
    BY <2>1 DEF Busy
<1> HIDE DEF pr2
<1>2. Cardinality(Busy(fl, pr2)) = Cardinality(Busy(fl, pr)) + 1
  <2>1. PICK B : B = Busy(fl, pr)
    OBVIOUS
  <2>2. IsFiniteSet(B)
    BY <2>1, BehindType
  <2> QED
    BY <1>1, <2>1, <2>2, FS_AddElement
<1>3. /\ BehindOf(fl, rw, pr) \in Nat
      /\ Led(fl, rw, pr) => Cardinality(Busy(fl, pr)) = BehindOf(fl, rw, pr) + 1
      /\ ~Led(fl, rw, pr) => Cardinality(Busy(fl, pr)) = BehindOf(fl, rw, pr)
  BY BehindType
<1>4. /\ BehindOf(fl, rw, pr2) \in Nat
      /\ Led(fl, rw, pr2) => Cardinality(Busy(fl, pr2)) = BehindOf(fl, rw, pr2) + 1
      /\ ~Led(fl, rw, pr2) => Cardinality(Busy(fl, pr2)) = BehindOf(fl, rw, pr2)
  BY BehindType
<1>5. Led(fl, rw, pr) \/ Busy(fl, pr) = {} => Led(fl, rw, pr2)
  BY DEF pr2
<1>6. Busy(fl, pr) = {} => Cardinality(Busy(fl, pr)) = 0
  BY FS_EmptySet
<1>7. PICK a \in Nat, b \in Nat : a = BehindOf(fl, rw, pr) /\ b = BehindOf(fl, rw, pr2)
  BY <1>3, <1>4
<1>8. b <= a + 1 /\ (Busy(fl, pr) = {} => b <= a)
  BY <1>2, <1>3, <1>4, <1>5, <1>6, <1>7
<1> QED
  BY <1>7, <1>8 DEF pr2

\* The least of the files left to do.
LEMMA FirstIs ==
  ASSUME MigrationBounds, NEW S \in SUBSET File, S # {}
  PROVE  /\ Migrate!Min(S) \in S /\ \A g \in S : Migrate!Min(S) <= g
         /\ \A f : S = {f} => Migrate!Min(S) = f
<1>1. PICK n \in S : \A m \in S : n <= m
  BY LeastNumber DEF MigrationBounds
<1>2. Migrate!Min(S) \in S /\ \A g \in S : Migrate!Min(S) <= g
  BY <1>1, Zenon DEF Migrate!Min
<1> QED
  BY <1>2

\* What makes a step keep the invariant.
LEMMA WorkDone ==
  ASSUME MigrationBounds, NEW fl, NEW rw, NEW ef, NEW pr, NEW ex, InvOf(fl, rw, ef, pr, ex),
         NEW p \in Proc, NEW w \in WorkType, Shaped(fl, w),
         NEW rw2 \in Rows, NEW ef2 \in Effects, NEW s \in Int, NEW b \in Int,
         SumOf(ef2, rw2, [pr EXCEPT ![p] = w]) <= SumOf(ef, rw, pr) + s,
         BehindOf(fl, rw2, [pr EXCEPT ![p] = w]) <= BehindOf(fl, rw, pr) + b
  PROVE  /\ s + b <= 0 => InvOf(fl, rw2, ef2, [pr EXCEPT ![p] = w], ex)
         /\ s + b <= 1 => InvOf(fl, rw2, ef2, [pr EXCEPT ![p] = w], ex + 1)
<1>1. PICK pr2 \in Works : /\ pr2 = [pr EXCEPT ![p] = w] /\ pr2[p] = w
                           /\ \A q \in Proc : q # p => pr2[q] = pr[q]
  <2>1. /\ [pr EXCEPT ![p] = w] \in Works /\ [pr EXCEPT ![p] = w][p] = w
        /\ \A q \in Proc : q # p => [pr EXCEPT ![p] = w][q] = pr[q]
    BY DEF InvOf, Works
  <2> QED
    BY <2>1, Zenon
<1>2. \A q \in Proc : Shaped(fl, pr2[q])
  BY <1>1 DEF InvOf
<1>3. /\ SumOf(ef2, rw2, pr2) \in Int /\ BehindOf(fl, rw2, pr2) \in Nat
      /\ SumOf(ef, rw, pr) \in Int /\ BehindOf(fl, rw, pr) \in Nat
  BY SumOfType, BehindType DEF InvOf
<1>4. PICK x \in Int, y \in Int, x2 \in Int, y2 \in Int :
        /\ x = SumOf(ef, rw, pr) /\ y = BehindOf(fl, rw, pr)
        /\ x2 = SumOf(ef2, rw2, pr2) /\ y2 = BehindOf(fl, rw2, pr2)
  BY <1>3
<1>5. x2 <= x + s /\ y2 <= y + b /\ x + y <= ex /\ ex \in Nat
  BY <1>1, <1>4 DEF InvOf
<1>6. (s + b <= 0 => x2 + y2 <= ex) /\ (s + b <= 1 => x2 + y2 <= ex + 1)
  BY <1>5
<1>7. /\ s + b <= 0 => InvOf(fl, rw2, ef2, pr2, ex)
      /\ s + b <= 1 => InvOf(fl, rw2, ef2, pr2, ex + 1)
  BY <1>2, <1>4, <1>5, <1>6 DEF InvOf
<1> QED
  BY <1>1, <1>7

\* A call that leads still does after the step of another one that tracks nothing
\* and adds no tracked file to those of any up(); a down() in any case.
LEMMA OthersLead ==
  ASSUME NEW pr \in Works, NEW rw, NEW rw2, NEW p \in Proc, NEW w \in WorkType,
         NEW q \in Proc, q # p, Leads(rw, pr, q),
         ~UpWork(pr[q]) =>
           (rw[Migrate!Min(pr[q].todo)] > 0 => rw2[Migrate!Min(pr[q].todo)] > 0),
         UpWork(pr[q]) =>
           /\ rw2 = rw
           /\ UpWork(w) => \A f \in w.todo : rw[f] > 0 => UpWork(pr[p]) /\ f \in pr[p].todo
  PROVE  Leads(rw2, [pr EXCEPT ![p] = w], q)
<1>1. PICK pr2 : /\ pr2 = [pr EXCEPT ![p] = w] /\ pr2[p] = w
                 /\ \A r \in Proc : r # p => pr2[r] = pr[r]
  <2>1. /\ [pr EXCEPT ![p] = w][p] = w
        /\ \A r \in Proc : r # p => [pr EXCEPT ![p] = w][r] = pr[r]
    BY DEF Works
  <2> QED
    BY <2>1, Zenon
<1>2. pr2[q] = pr[q]
  BY <1>1
<1>3. CASE UpWork(pr[q])
  <2>1. ASSUME NEW r \in Proc, UpWork(pr2[r]), NEW f \in pr2[r].todo, rw2[f] > 0, NEW g \in pr[q].todo
        PROVE  f < g
    <3>1. rw[f] > 0
      BY <1>3, <2>1
    <3>2. CASE r # p
      <4>1. UpWork(pr[r]) /\ f \in pr[r].todo
        BY <1>1, <2>1, <3>2
      <4> QED
        BY <1>3, <3>1, <4>1 DEF Leads
    <3>3. CASE r = p
      <4>1. UpWork(pr[p]) /\ f \in pr[p].todo
        BY <1>1, <1>3, <2>1, <3>1, <3>3
      <4> QED
        BY <1>3, <3>1, <4>1 DEF Leads
    <3> QED
      BY <3>2, <3>3
  <2> QED
    BY <1>1, <1>2, <1>3, <2>1 DEF Leads
<1>4. CASE ~UpWork(pr[q])
  BY <1>1, <1>2, <1>4 DEF Leads
<1> QED
  BY <1>3, <1>4

\* So a call is led if it was, by another one than the one that goes on.
LEMMA LedByOther ==
  ASSUME NEW pr \in Works, NEW fl, NEW rw, NEW rw2, NEW p \in Proc, NEW w \in WorkType,
         NEW q \in Busy(fl, pr), q # p, Leads(rw2, [pr EXCEPT ![p] = w], q)
  PROVE  Led(fl, rw2, [pr EXCEPT ![p] = w])
<1>1. PICK pr2 : /\ pr2 = [pr EXCEPT ![p] = w] /\ pr2[p] = w
                 /\ \A r \in Proc : r # p => pr2[r] = pr[r]
  <2>1. /\ [pr EXCEPT ![p] = w][p] = w
        /\ \A r \in Proc : r # p => [pr EXCEPT ![p] = w][r] = pr[r]
    BY DEF Works
  <2> QED
    BY <2>1, Zenon
<1>2. q \in Busy(fl, pr2)
  BY <1>1 DEF Busy
<1> QED
  BY <1>1, <1>2 DEF Led

\* A call ends that has left nothing between a script and its row.
LEMMA EndKeeps ==
  ASSUME MigrationBounds, NEW fl, NEW rw, NEW ef, NEW pr, NEW ex, InvOf(fl, rw, ef, pr, ex),
         NEW p \in Proc, NEW w \in WorkType, w.op = "idle", pr[p].op \in {"up", "down"}
  PROVE  InvOf(fl, rw, ef, [pr EXCEPT ![p] = w], ex)
<1>0. /\ fl \in {"migrator", "runner"} /\ rw \in Rows /\ ef \in Effects /\ pr \in Works
      /\ pr[p] \in WorkType
  BY DEF InvOf, Works
<1>1. \A f \in File : Owes(ef, rw, w, f) - Owes(ef, rw, pr[p], f) = 0
  <2> TAKE f \in File
  <2>1. /\ Waits(w, "insert", f) = 0 /\ Waits(w, "delete", f) = 0
        /\ Waits(pr[p], "insert", f) = 0 /\ Waits(pr[p], "delete", f) = 0
    BY DEF Waits
  <2>2. PICK a \in Int, b \in Int : a = ef[f] /\ b = RowsOf(rw, f)
    BY <1>0 DEF Effects, Rows, RowsOf
  <2> QED
    BY <2>1, <2>2 DEF Owes
<1>2. SumOf(ef, rw, [pr EXCEPT ![p] = w]) <= SumOf(ef, rw, pr) + 0
  <2>1. SumOf(ef, rw, [pr EXCEPT ![p] = w]) = SumOf(ef, rw, pr)
    BY <1>0, <1>1, LedgerSame
  <2>2. SumOf(ef, rw, pr) \in Int
    BY <1>0, SumOfType
  <2> QED
    BY <2>1, <2>2
<1>3. Shaped(fl, w)
  BY <1>0 DEF Shaped
<1>4. BehindOf(fl, rw, [pr EXCEPT ![p] = w]) <= BehindOf(fl, rw, pr) + 0
  <2>0. BehindOf(fl, rw, pr) \in Nat /\ ~BusyWork(fl, w)
    BY <1>0, BehindType DEF BusyWork
  <2>1. BehindOf(fl, rw, [pr EXCEPT ![p] = w]) <= BehindOf(fl, rw, pr)
    <3>1. CASE BusyWork(fl, pr[p])
      BY <1>0, <2>0, <3>1, BehindLeaves
    <3>2. CASE ~BusyWork(fl, pr[p])
      <4>1. ASSUME Led(fl, rw, pr) PROVE Led(fl, rw, [pr EXCEPT ![p] = w])
        <5>1. PICK q \in Busy(fl, pr) : Leads(rw, pr, q)
          BY <4>1 DEF Led
        <5>2. q \in Proc /\ q # p
          BY <3>2 DEF Busy
        <5>3. ~UpWork(w)
          BY DEF UpWork
        <5>4. Leads(rw, [pr EXCEPT ![p] = w], q)
          BY <1>0, <5>1, <5>2, <5>3, OthersLead
        <5> QED
          BY <1>0, <5>2, <5>4, LedByOther
      <4> QED
        BY <1>0, <2>0, <3>2, <4>1, BehindStays
    <3> QED
      BY <3>1, <3>2
  <2>2. BehindOf(fl, rw, [pr EXCEPT ![p] = w]) \in Nat
    BY BehindType
  <2> QED
    BY <2>0, <2>1, <2>2
<1> QED
  BY <1>0, <1>2, <1>3, <1>4, WorkDone

\* LedgerSame and BehindStays as WorkDone wants them.
LEMMA SumKeeps ==
  ASSUME MigrationBounds, NEW pr \in Works, NEW p \in Proc, NEW w \in WorkType,
         NEW ef \in Effects, NEW rw \in Rows, NEW ef2 \in Effects, NEW rw2 \in Rows,
         \A f \in File : Owes(ef2, rw2, w, f) - Owes(ef, rw, pr[p], f) = 0
  PROVE  SumOf(ef2, rw2, [pr EXCEPT ![p] = w]) <= SumOf(ef, rw, pr) + 0
<1>1. SumOf(ef2, rw2, [pr EXCEPT ![p] = w]) = SumOf(ef, rw, pr)
  BY LedgerSame
<1>2. SumOf(ef, rw, pr) \in Int
  BY SumOfType
<1> QED
  BY <1>1, <1>2

LEMMA BehindKeeps ==
  ASSUME MigrationBounds, NEW pr \in Works, NEW p \in Proc, NEW w \in WorkType, NEW fl, NEW rw, NEW rw2,
         BusyWork(fl, pr[p]) <=> BusyWork(fl, w),
         Led(fl, rw, pr) => Led(fl, rw2, [pr EXCEPT ![p] = w])
  PROVE  BehindOf(fl, rw2, [pr EXCEPT ![p] = w]) <= BehindOf(fl, rw, pr) + 0
<1>1. BehindOf(fl, rw2, [pr EXCEPT ![p] = w]) <= BehindOf(fl, rw, pr)
  BY BehindStays
<1>2. BehindOf(fl, rw, pr) \in Nat
  BY BehindType
<1> QED
  BY <1>1, <1>2

\* up() and runMigrations() begin: nothing of what they will do is tracked.
LEMMA UpKeeps ==
  ASSUME MigrationBounds, NEW fl, NEW rw, NEW ef, NEW pr, NEW ex, InvOf(fl, rw, ef, pr, ex),
         NEW p \in Proc, NEW w \in WorkType, pr[p].op = "idle", w.op = "up",
         \A f \in w.todo : ~(rw[f] > 0)
  PROVE  /\ fl = "runner" /\ (\E q \in Proc : pr[q].op # "idle") =>
              InvOf(fl, rw, ef, [pr EXCEPT ![p] = w], ex + 1)
         /\ ~(fl = "runner" /\ \E q \in Proc : pr[q].op # "idle") =>
              InvOf(fl, rw, ef, [pr EXCEPT ![p] = w], ex)
<1>0. /\ fl \in {"migrator", "runner"} /\ rw \in Rows /\ ef \in Effects /\ pr \in Works
      /\ pr[p] \in WorkType /\ Shaped(fl, w)
  BY DEF InvOf, Works, Shaped
<1>1. \A f \in File : Owes(ef, rw, w, f) - Owes(ef, rw, pr[p], f) = 0
  <2> TAKE f \in File
  <2>1. /\ Waits(w, "insert", f) = 0 /\ Waits(w, "delete", f) = 0
        /\ Waits(pr[p], "insert", f) = 0 /\ Waits(pr[p], "delete", f) = 0
    BY DEF Waits
  <2>2. PICK a \in Int, b \in Int : a = ef[f] /\ b = RowsOf(rw, f)
    BY <1>0 DEF Effects, Rows, RowsOf
  <2> QED
    BY <2>1, <2>2 DEF Owes
<1>2. SumOf(ef, rw, [pr EXCEPT ![p] = w]) <= SumOf(ef, rw, pr) + 0
  BY <1>0, <1>1, SumKeeps
<1>3. ~BusyWork(fl, pr[p]) /\ ~UpWork(pr[p])
  BY <1>0 DEF BusyWork, UpWork
<1>4. ASSUME Led(fl, rw, pr) PROVE Led(fl, rw, [pr EXCEPT ![p] = w])
  <2>1. PICK q \in Busy(fl, pr) : Leads(rw, pr, q)
    BY <1>4 DEF Led
  <2>2. q \in Proc /\ q # p
    BY <1>3 DEF Busy
  <2>3. Leads(rw, [pr EXCEPT ![p] = w], q)
    BY <1>0, <2>1, <2>2, OthersLead
  <2> QED
    BY <1>0, <2>2, <2>3, LedByOther
<1>5. BehindOf(fl, rw, pr) \in Nat /\ BehindOf(fl, rw, [pr EXCEPT ![p] = w]) \in Nat
  BY BehindType
<1>6. CASE fl = "runner"
  <2>1. BusyWork(fl, w)
    BY <1>6 DEF BusyWork
  <2>2. Busy(fl, pr) = {} <=> \A q \in Proc : pr[q].op = "idle"
    BY <1>6 DEF Busy, BusyWork
  <2>3. ASSUME Busy(fl, pr) = {} PROVE Led(fl, rw, [pr EXCEPT ![p] = w])
    <3>1. PICK pr2 : /\ pr2 = [pr EXCEPT ![p] = w] /\ pr2[p] = w
                     /\ \A r \in Proc : r # p => pr2[r] = pr[r]
      <4>1. /\ [pr EXCEPT ![p] = w][p] = w
            /\ \A r \in Proc : r # p => [pr EXCEPT ![p] = w][r] = pr[r]
        BY <1>0 DEF Works
      <4> QED
        BY <4>1, Zenon
    <3>2. \A r \in Proc : UpWork(pr2[r]) => r = p
      BY <2>2, <2>3, <3>1 DEF UpWork
    <3>3. Leads(rw, pr2, p)
      BY <3>1, <3>2 DEF Leads, UpWork
    <3>4. p \in Busy(fl, pr2)
      BY <2>1, <3>1 DEF Busy
    <3> QED
      BY <3>1, <3>3, <3>4 DEF Led
  <2>4. /\ BehindOf(fl, rw, [pr EXCEPT ![p] = w]) <= BehindOf(fl, rw, pr) + 1
        /\ Busy(fl, pr) = {} => BehindOf(fl, rw, [pr EXCEPT ![p] = w]) <= BehindOf(fl, rw, pr)
    BY <1>0, <1>3, <1>4, <2>1, <2>3, BehindJoins
  <2>5. Busy(fl, pr) = {} => BehindOf(fl, rw, [pr EXCEPT ![p] = w]) <= BehindOf(fl, rw, pr) + 0
    BY <1>5, <2>4
  <2>6. InvOf(fl, rw, ef, [pr EXCEPT ![p] = w], ex + 1)
    BY <1>0, <1>2, <2>4, WorkDone
  <2>7. Busy(fl, pr) = {} => InvOf(fl, rw, ef, [pr EXCEPT ![p] = w], ex)
    BY <1>0, <1>2, <2>5, WorkDone
  <2> QED
    BY <1>6, <2>2, <2>6, <2>7
<1>7. CASE fl = "migrator"
  <2>1. ~BusyWork(fl, w)
    BY <1>7 DEF BusyWork
  <2>2. BehindOf(fl, rw, [pr EXCEPT ![p] = w]) <= BehindOf(fl, rw, pr) + 0
    BY <1>0, <1>3, <1>4, <2>1, BehindKeeps
  <2>3. InvOf(fl, rw, ef, [pr EXCEPT ![p] = w], ex)
    BY <1>0, <1>2, <2>2, WorkDone
  <2> QED
    BY <1>7, <2>3
<1> QED
  BY <1>0, <1>6, <1>7

\* down() and rollbackMigration() begin, with a file that is tracked.
LEMMA DownKeeps ==
  ASSUME MigrationBounds, NEW fl, NEW rw, NEW ef, NEW pr, NEW ex, InvOf(fl, rw, ef, pr, ex),
         NEW p \in Proc, NEW w \in WorkType, pr[p].op = "idle", w.op = "down",
         NEW f \in File, w.todo = {f}, rw[f] > 0
  PROVE  LET others == \E q \in Proc : pr[q].op = "down" \/ (fl = "runner" /\ pr[q].op # "idle")
         IN /\ others => InvOf(fl, rw, ef, [pr EXCEPT ![p] = w], ex + 1)
            /\ ~others => InvOf(fl, rw, ef, [pr EXCEPT ![p] = w], ex)
<1>0. /\ fl \in {"migrator", "runner"} /\ rw \in Rows /\ ef \in Effects /\ pr \in Works
      /\ pr[p] \in WorkType /\ Shaped(fl, w)
  BY DEF InvOf, Works, Shaped
<1>1. \A g \in File : Owes(ef, rw, w, g) - Owes(ef, rw, pr[p], g) = 0
  <2> TAKE g \in File
  <2>1. /\ Waits(w, "insert", g) = 0 /\ Waits(w, "delete", g) = 0
        /\ Waits(pr[p], "insert", g) = 0 /\ Waits(pr[p], "delete", g) = 0
    BY DEF Waits
  <2>2. PICK a \in Int, b \in Int : a = ef[g] /\ b = RowsOf(rw, g)
    BY <1>0 DEF Effects, Rows, RowsOf
  <2> QED
    BY <2>1, <2>2 DEF Owes
<1>2. SumOf(ef, rw, [pr EXCEPT ![p] = w]) <= SumOf(ef, rw, pr) + 0
  BY <1>0, <1>1, SumKeeps
<1>3. ~BusyWork(fl, pr[p]) /\ BusyWork(fl, w) /\ ~UpWork(w)
  BY <1>0 DEF BusyWork, UpWork
<1>4. Led(fl, rw, [pr EXCEPT ![p] = w])
  <2>1. PICK pr2 : pr2 = [pr EXCEPT ![p] = w] /\ pr2[p] = w
    <3>1. [pr EXCEPT ![p] = w][p] = w
      BY <1>0 DEF Works
    <3> QED
      BY <3>1, Zenon
  <2>2. Migrate!Min(w.todo) = f
    BY FirstIs
  <2>3. Leads(rw, pr2, p)
    BY <1>3, <2>1, <2>2 DEF Leads
  <2>4. p \in Busy(fl, pr2)
    BY <1>3, <2>1 DEF Busy
  <2> QED
    BY <2>1, <2>3, <2>4 DEF Led
<1>5. /\ BehindOf(fl, rw, [pr EXCEPT ![p] = w]) <= BehindOf(fl, rw, pr) + 1
      /\ Busy(fl, pr) = {} => BehindOf(fl, rw, [pr EXCEPT ![p] = w]) <= BehindOf(fl, rw, pr)
  BY <1>0, <1>3, <1>4, BehindJoins
<1>6. BehindOf(fl, rw, pr) \in Nat /\ BehindOf(fl, rw, [pr EXCEPT ![p] = w]) \in Nat
  BY BehindType
<1>7. Busy(fl, pr) = {} => BehindOf(fl, rw, [pr EXCEPT ![p] = w]) <= BehindOf(fl, rw, pr) + 0
  BY <1>5, <1>6
<1>8. InvOf(fl, rw, ef, [pr EXCEPT ![p] = w], ex + 1)
  BY <1>0, <1>2, <1>5, WorkDone
<1>9. Busy(fl, pr) = {} => InvOf(fl, rw, ef, [pr EXCEPT ![p] = w], ex)
  BY <1>0, <1>2, <1>7, WorkDone
<1> DEFINE others == \E q \in Proc : pr[q].op = "down" \/ (fl = "runner" /\ pr[q].op # "idle")
<1>10. ~others => Busy(fl, pr) = {}
  <2>1. ASSUME NEW q \in Busy(fl, pr) PROVE others
    <3>1. q \in Proc /\ BusyWork(fl, pr[q]) /\ Shaped(fl, pr[q])
      BY DEF Busy, InvOf
    <3> QED
      BY <1>0, <3>1 DEF BusyWork, Shaped
  <2> QED
    BY <2>1
<1> QED
  BY <1>8, <1>9, <1>10

\* applyOne() runs a script and tracks it in one transaction.
LEMMA ApplyKeeps ==
  ASSUME MigrationBounds, NEW fl, NEW rw, NEW ef, NEW pr, NEW ex, InvOf(fl, rw, ef, pr, ex),
         NEW p \in Proc, NEW w \in WorkType, fl = "migrator", pr[p].op = "up", w.op = "up",
         NEW f \in File, ~(rw[f] > 0), NEW rw2 \in Rows, NEW ef2 \in Effects,
         rw2[f] > 0, ef2[f] = ef[f] + 1,
         \A g \in File : g # f => rw2[g] = rw[g] /\ ef2[g] = ef[g]
  PROVE  InvOf(fl, rw2, ef2, [pr EXCEPT ![p] = w], ex)
<1>0. /\ rw \in Rows /\ ef \in Effects /\ pr \in Works
      /\ pr[p] \in WorkType /\ Shaped(fl, w)
  BY DEF InvOf, Works, Shaped
<1>1. \A g \in File : Owes(ef2, rw2, w, g) - Owes(ef, rw, pr[p], g) = 0
  <2> TAKE g \in File
  <2>1. /\ Waits(w, "insert", g) = 0 /\ Waits(w, "delete", g) = 0
        /\ Waits(pr[p], "insert", g) = 0 /\ Waits(pr[p], "delete", g) = 0
    BY DEF Waits
  <2>2. PICK a \in Int, b \in Int, a2 \in Int, b2 \in Int :
          a = ef[g] /\ b = RowsOf(rw, g) /\ a2 = ef2[g] /\ b2 = RowsOf(rw2, g)
    BY <1>0 DEF Effects, Rows, RowsOf
  <2>3. a2 - b2 = a - b
    BY <2>2 DEF RowsOf
  <2> QED
    BY <2>1, <2>2, <2>3 DEF Owes
<1>2. SumOf(ef2, rw2, [pr EXCEPT ![p] = w]) <= SumOf(ef, rw, pr) + 0
  BY <1>0, <1>1, SumKeeps
<1>3. ~BusyWork(fl, pr[p]) /\ ~BusyWork(fl, w)
  BY DEF BusyWork
<1>4. ASSUME Led(fl, rw, pr) PROVE Led(fl, rw2, [pr EXCEPT ![p] = w])
  <2>1. PICK q \in Busy(fl, pr) : Leads(rw, pr, q)
    BY <1>4 DEF Led
  <2>2. q \in Proc /\ q # p /\ Shaped(fl, pr[q]) /\ pr[q] \in WorkType
    BY <1>0, <1>3 DEF Busy, InvOf, Works
  <2>3. ~UpWork(pr[q]) /\ pr[q].op = "down"
    BY <2>1, <2>2 DEF Busy, BusyWork, UpWork, Shaped, WorkType
  <2>4. rw[Migrate!Min(pr[q].todo)] > 0 => rw2[Migrate!Min(pr[q].todo)] > 0
    <3>1. Migrate!Min(pr[q].todo) \in File
      BY <2>2, <2>3, FirstIs DEF Shaped, WorkType
    <3> QED
      BY <3>1
  <2>5. Leads(rw2, [pr EXCEPT ![p] = w], q)
    BY <1>0, <2>1, <2>2, <2>3, <2>4, OthersLead
  <2> QED
    BY <1>0, <2>2, <2>5, LedByOther
<1>5. BehindOf(fl, rw2, [pr EXCEPT ![p] = w]) <= BehindOf(fl, rw, pr) + 0
  BY <1>0, <1>3, <1>4, BehindKeeps
<1> QED
  BY <1>0, <1>2, <1>5, WorkDone

\* The runner's script ran, its row is next: the call is as far as before.
LEMMA RunKeeps ==
  ASSUME MigrationBounds, NEW fl, NEW rw, NEW ef, NEW pr, NEW ex, InvOf(fl, rw, ef, pr, ex),
         NEW p \in Proc, NEW w \in WorkType, fl = "runner", w.todo = pr[p].todo, w.todo # {},
         NEW f \in File, f = Migrate!Min(w.todo), NEW ef2 \in Effects,
         \A g \in File : g # f => ef2[g] = ef[g],
         \/ pr[p].op = "up" /\ w.op = "insert" /\ ef2[f] = ef[f] + 1
         \/ pr[p].op = "down" /\ w.op = "delete" /\ ef2[f] = ef[f] - 1
  PROVE  InvOf(fl, rw, ef2, [pr EXCEPT ![p] = w], ex)
<1>0. /\ rw \in Rows /\ ef \in Effects /\ pr \in Works
      /\ pr[p] \in WorkType /\ Shaped(fl, pr[p])
  BY DEF InvOf, Works
<1>1. Shaped(fl, w)
  BY <1>0 DEF Shaped
<1>2. \A g \in File : Owes(ef2, rw, w, g) - Owes(ef, rw, pr[p], g) = 0
  <2> TAKE g \in File
  <2>1. Waits(pr[p], "insert", g) = 0 /\ Waits(pr[p], "delete", g) = 0
    BY DEF Waits
  <2>2. /\ Waits(w, "insert", g) = IF w.op = "insert" /\ g = f THEN 1 ELSE 0
        /\ Waits(w, "delete", g) = IF w.op = "delete" /\ g = f THEN 1 ELSE 0
    BY DEF Waits
  <2>3. PICK a \in Int, b \in Int, a2 \in Int :
          a = ef[g] /\ b = RowsOf(rw, g) /\ a2 = ef2[g]
    BY <1>0 DEF Effects, Rows, RowsOf
  <2>4. CASE g # f
    <3>1. a2 = a /\ Waits(w, "insert", g) = 0 /\ Waits(w, "delete", g) = 0
      BY <2>2, <2>3, <2>4
    <3> QED
      BY <2>1, <2>3, <3>1 DEF Owes
  <2>5. CASE g = f
    <3>1. \/ a2 = a + 1 /\ Waits(w, "insert", g) = 1 /\ Waits(w, "delete", g) = 0
          \/ a2 = a - 1 /\ Waits(w, "insert", g) = 0 /\ Waits(w, "delete", g) = 1
      BY <2>2, <2>3, <2>5
    <3> QED
      BY <2>1, <2>3, <3>1 DEF Owes
  <2> QED
    BY <2>4, <2>5
<1>3. SumOf(ef2, rw, [pr EXCEPT ![p] = w]) <= SumOf(ef, rw, pr) + 0
  BY <1>0, <1>2, SumKeeps
<1>4. BusyWork(fl, pr[p]) /\ BusyWork(fl, w) /\ (UpWork(w) <=> UpWork(pr[p]))
  BY DEF BusyWork, UpWork
<1>5. ASSUME Led(fl, rw, pr) PROVE Led(fl, rw, [pr EXCEPT ![p] = w])
  <2>1. PICK q \in Busy(fl, pr) : Leads(rw, pr, q)
    BY <1>5 DEF Led
  <2>2. q \in Proc
    BY DEF Busy
  <2>3. CASE q # p
    <3>1. Leads(rw, [pr EXCEPT ![p] = w], q)
      BY <1>0, <1>4, <2>1, <2>2, <2>3, OthersLead
    <3> QED
      BY <1>0, <2>3, <3>1, LedByOther
  <2>4. CASE q = p
    <3>1. PICK pr2 : /\ pr2 = [pr EXCEPT ![p] = w] /\ pr2[p] = w
                     /\ \A r \in Proc : r # p => pr2[r] = pr[r]
      <4>1. /\ [pr EXCEPT ![p] = w][p] = w
            /\ \A r \in Proc : r # p => [pr EXCEPT ![p] = w][r] = pr[r]
        BY <1>0 DEF Works
      <4> QED
        BY <4>1, Zenon
    <3>2. \A r \in Proc : (UpWork(pr2[r]) <=> UpWork(pr[r])) /\ pr2[r].todo = pr[r].todo
      BY <1>4, <3>1
    <3>3. Leads(rw, pr2, p)
      BY <2>1, <2>4, <3>2 DEF Leads
    <3>4. p \in Busy(fl, pr2)
      BY <1>4, <3>1 DEF Busy
    <3> QED
      BY <3>1, <3>3, <3>4 DEF Led
  <2> QED
    BY <2>3, <2>4
<1>6. BehindOf(fl, rw, [pr EXCEPT ![p] = w]) <= BehindOf(fl, rw, pr) + 0
  BY <1>0, <1>4, <1>5, BehindKeeps
<1> QED
  BY <1>0, <1>1, <1>3, <1>6, WorkDone

\* The row follows its script.  Where another call led that would track the same
\* file, this one, which did so first, leads now.
LEMMA InsertKeeps ==
  ASSUME MigrationBounds, NEW fl, NEW rw, NEW ef, NEW pr, NEW ex, InvOf(fl, rw, ef, pr, ex),
         NEW p \in Proc, NEW w \in WorkType, pr[p].op = "insert", w.op = "up",
         NEW f \in File, f = Migrate!Min(pr[p].todo), w.todo = pr[p].todo \ {f}, ~(rw[f] > 0),
         NEW rw2 \in Rows, rw2[f] > 0, \A g \in File : g # f => rw2[g] = rw[g]
  PROVE  InvOf(fl, rw2, ef, [pr EXCEPT ![p] = w], ex)
<1>0. /\ fl \in {"migrator", "runner"} /\ rw \in Rows /\ ef \in Effects /\ pr \in Works
      /\ pr[p] \in WorkType /\ Shaped(fl, pr[p])
  BY DEF InvOf, Works
<1>1. fl = "runner" /\ Shaped(fl, w)
  BY <1>0 DEF Shaped
<1>2. \A g \in File : Owes(ef, rw2, w, g) - Owes(ef, rw, pr[p], g) = 0
  <2> TAKE g \in File
  <2>1. /\ Waits(w, "insert", g) = 0 /\ Waits(w, "delete", g) = 0 /\ Waits(pr[p], "delete", g) = 0
        /\ Waits(pr[p], "insert", g) = IF g = f THEN 1 ELSE 0
    BY DEF Waits
  <2>2. PICK a \in Int, b \in Int, b2 \in Int :
          a = ef[g] /\ b = RowsOf(rw, g) /\ b2 = RowsOf(rw2, g)
    BY <1>0 DEF Effects, Rows, RowsOf
  <2>3. b2 = b + Waits(pr[p], "insert", g)
    BY <2>1, <2>2 DEF RowsOf
  <2> QED
    BY <2>1, <2>2, <2>3 DEF Owes
<1>3. SumOf(ef, rw2, [pr EXCEPT ![p] = w]) <= SumOf(ef, rw, pr) + 0
  BY <1>0, <1>2, SumKeeps
<1>4. BusyWork(fl, pr[p]) /\ BusyWork(fl, w) /\ UpWork(w) /\ UpWork(pr[p])
  BY <1>1 DEF BusyWork, UpWork
<1>5. /\ f \in pr[p].todo /\ \A g \in pr[p].todo : f <= g
      /\ \A g \in w.todo : f < g /\ g \in pr[p].todo
  <2>1. f \in pr[p].todo /\ \A g \in pr[p].todo : f <= g
    BY <1>0, FirstIs DEF Shaped, WorkType
  <2>2. \A g \in File : g \in Int
    BY DEF MigrationBounds
  <2>3. \A g \in w.todo : g \in File /\ g # f /\ g \in pr[p].todo
    BY DEF WorkType
  <2> QED
    BY <2>1, <2>2, <2>3
<1>6. ASSUME Led(fl, rw, pr) PROVE Led(fl, rw2, [pr EXCEPT ![p] = w])
  <2>1. PICK q \in Busy(fl, pr) : Leads(rw, pr, q)
    BY <1>6 DEF Led
  <2>2. q \in Proc /\ pr[q] \in WorkType /\ Shaped(fl, pr[q]) /\ pr[q].op # "idle"
    BY <1>0, <1>1 DEF Busy, InvOf, Works, BusyWork
  <2>3. PICK pr2 : /\ pr2 = [pr EXCEPT ![p] = w] /\ pr2[p] = w
                   /\ \A r \in Proc : r # p => pr2[r] = pr[r]
    <3>1. /\ [pr EXCEPT ![p] = w][p] = w
          /\ \A r \in Proc : r # p => [pr EXCEPT ![p] = w][r] = pr[r]
      BY <1>0 DEF Works
    <3> QED
      BY <3>1, Zenon
  <2>4. p \in Busy(fl, pr2)
    BY <1>4, <2>3 DEF Busy
  <2>5. \A r \in Proc, g \in File : UpWork(pr2[r]) /\ g \in pr2[r].todo => UpWork(pr[r]) /\ g \in pr[r].todo
    BY <1>4, <1>5, <2>3
  <2>6. \A r \in Proc : pr2[r].todo \subseteq File
    BY <1>0, <2>3 DEF Works, WorkType
  <2>7. CASE ~UpWork(pr[q])
    <3>1. q # p
      BY <1>4, <2>7
    <3>2. Migrate!Min(pr[q].todo) \in File
      BY <2>2, <2>7, FirstIs DEF Shaped, WorkType, UpWork
    <3>3. rw2[Migrate!Min(pr[q].todo)] > 0
      BY <2>1, <2>7, <3>2 DEF Leads
    <3>4. Leads(rw2, [pr EXCEPT ![p] = w], q)
      BY <1>0, <2>1, <2>2, <2>7, <3>1, <3>3, OthersLead
    <3> QED
      BY <1>0, <3>1, <3>4, LedByOther
  <2>8. CASE UpWork(pr[q])
    <3>1. \A r \in Proc : UpWork(pr[r]) =>
            \A g \in pr[r].todo : rw[g] > 0 => \A h \in pr[q].todo : g < h
      BY <2>1, <2>8 DEF Leads
    <3>2. CASE q # p /\ \A h \in pr[q].todo : f < h
      <4>1. ASSUME NEW r \in Proc, UpWork(pr2[r]), NEW g \in pr2[r].todo, rw2[g] > 0, NEW h \in pr[q].todo
            PROVE  g < h
        <5>1. g \in File /\ UpWork(pr[r]) /\ g \in pr[r].todo
          BY <2>5, <2>6, <4>1
        <5>2. CASE g = f
          BY <3>2, <4>1, <5>2
        <5>3. CASE g # f
          <6>1. rw[g] > 0
            BY <4>1, <5>1, <5>3
          <6> QED
            BY <3>1, <4>1, <5>1, <6>1
        <5> QED
          BY <5>2, <5>3
      <4>2. Leads(rw2, pr2, q)
        BY <2>3, <2>8, <3>2, <4>1 DEF Leads
      <4> QED
        BY <1>0, <2>3, <3>2, <4>2, LedByOther
    <3>3. CASE q = p \/ \E h \in pr[q].todo : ~(f < h)
      <4>1. ASSUME NEW r \in Proc, UpWork(pr2[r]), NEW g \in pr2[r].todo, rw2[g] > 0, NEW k \in w.todo
            PROVE  g < k
        <5>1. g \in File /\ UpWork(pr[r]) /\ g \in pr[r].todo
          BY <2>5, <2>6, <4>1
        <5>2. f < k /\ k \in pr[p].todo
          BY <1>5
        <5>3. CASE g = f
          BY <5>2, <5>3
        <5>4. CASE g # f
          <6>1. rw[g] > 0
            BY <4>1, <5>1, <5>4
          <6>2. CASE q = p
            BY <3>1, <5>1, <5>2, <6>1, <6>2
          <6>3. CASE q # p
            <7>1. PICK h \in pr[q].todo : ~(f < h)
              BY <3>3, <6>3
            <7>2. g < h
              BY <3>1, <5>1, <6>1
            <7>3. g \in Int /\ h \in Int /\ f \in Int /\ k \in Int
              <8>1. g \in File /\ h \in File /\ k \in File
                BY <2>2, <5>1 DEF WorkType
              <8>2. \A x \in File : x \in Int
                BY DEF MigrationBounds
              <8> QED
                BY <8>1, <8>2
            <7> QED
              BY <5>2, <7>1, <7>2, <7>3
          <6> QED
            BY <6>2, <6>3
        <5> QED
          BY <5>3, <5>4
      <4>2. Leads(rw2, pr2, p)
        BY <1>4, <2>3, <4>1 DEF Leads
      <4> QED
        BY <2>3, <2>4, <4>2 DEF Led
    <3> QED
      BY <3>2, <3>3
  <2> QED
    BY <2>7, <2>8
<1>7. BehindOf(fl, rw2, [pr EXCEPT ![p] = w]) <= BehindOf(fl, rw, pr) + 0
  BY <1>0, <1>4, <1>6, BehindKeeps
<1> QED
  BY <1>0, <1>1, <1>3, <1>7, WorkDone

\* A call ends that parts a script from its row: excused, or by one that did not
\* lead.
LEMMA PartsKeeps ==
  ASSUME MigrationBounds, NEW fl, NEW rw, NEW ef, NEW pr, NEW ex, InvOf(fl, rw, ef, pr, ex),
         NEW p \in Proc, NEW w \in WorkType, BusyWork(fl, pr[p]), w.op = "idle",
         NEW rw2 \in Rows, NEW ef2 \in Effects, NEW f \in File,
         \A g \in File : g # f => Owes(ef2, rw2, w, g) - Owes(ef, rw, pr[p], g) = 0,
         Owes(ef2, rw2, w, f) - Owes(ef, rw, pr[p], f) \in -1..1
  PROVE  /\ InvOf(fl, rw2, ef2, [pr EXCEPT ![p] = w], ex + 1)
         /\ rw2 = rw /\ ~Leads(rw, pr, p) => InvOf(fl, rw2, ef2, [pr EXCEPT ![p] = w], ex)
<1>0. /\ fl \in {"migrator", "runner"} /\ rw \in Rows /\ ef \in Effects /\ pr \in Works
      /\ Shaped(fl, w) /\ ~BusyWork(fl, w) /\ ~UpWork(w)
  BY DEF InvOf, Shaped, BusyWork, UpWork
<1>1. SumOf(ef2, rw2, [pr EXCEPT ![p] = w]) <= SumOf(ef, rw, pr) + 1
  BY <1>0, LedgerOne
<1>2. ASSUME rw2 = rw, ~Leads(rw, pr, p), Led(fl, rw, pr)
      PROVE  Led(fl, rw2, [pr EXCEPT ![p] = w])
  <2>1. PICK q \in Busy(fl, pr) : Leads(rw, pr, q)
    BY <1>2 DEF Led
  <2>2. q \in Proc /\ q # p
    BY <1>2, <2>1 DEF Busy
  <2>3. Leads(rw, [pr EXCEPT ![p] = w], q)
    BY <1>0, <2>1, <2>2, OthersLead
  <2> QED
    BY <1>0, <1>2, <2>2, <2>3, LedByOther
<1>3. /\ BehindOf(fl, rw2, [pr EXCEPT ![p] = w]) <= BehindOf(fl, rw, pr)
      /\ rw2 = rw /\ ~Leads(rw, pr, p) =>
           BehindOf(fl, rw2, [pr EXCEPT ![p] = w]) <= BehindOf(fl, rw, pr) - 1
  BY <1>0, <1>2, BehindLeaves
<1>4. BehindOf(fl, rw2, [pr EXCEPT ![p] = w]) \in Nat /\ BehindOf(fl, rw, pr) \in Nat
  BY BehindType
<1>5. /\ BehindOf(fl, rw2, [pr EXCEPT ![p] = w]) <= BehindOf(fl, rw, pr) + 0
      /\ rw2 = rw /\ ~Leads(rw, pr, p) =>
           BehindOf(fl, rw2, [pr EXCEPT ![p] = w]) <= BehindOf(fl, rw, pr) + (-1)
  BY <1>3, <1>4
<1>6. InvOf(fl, rw2, ef2, [pr EXCEPT ![p] = w], ex + 1)
  BY <1>0, <1>1, <1>5, WorkDone
<1>7. ASSUME rw2 = rw, ~Leads(rw, pr, p) PROVE InvOf(fl, rw2, ef2, [pr EXCEPT ![p] = w], ex)
  BY <1>0, <1>1, <1>5, <1>7, WorkDone
<1> QED
  BY <1>6, <1>7

\* A call ends with script and row as far apart as they were.
LEMMA EvenKeeps ==
  ASSUME MigrationBounds, NEW fl, NEW rw, NEW ef, NEW pr, NEW ex, InvOf(fl, rw, ef, pr, ex),
         NEW p \in Proc, NEW w \in WorkType, BusyWork(fl, pr[p]), w.op = "idle",
         NEW rw2 \in Rows, NEW ef2 \in Effects,
         \A g \in File : Owes(ef2, rw2, w, g) - Owes(ef, rw, pr[p], g) = 0
  PROVE  InvOf(fl, rw2, ef2, [pr EXCEPT ![p] = w], ex)
<1>0. /\ fl \in {"migrator", "runner"} /\ rw \in Rows /\ ef \in Effects /\ pr \in Works
      /\ Shaped(fl, w) /\ ~BusyWork(fl, w)
  BY DEF InvOf, Shaped, BusyWork
<1>1. SumOf(ef2, rw2, [pr EXCEPT ![p] = w]) <= SumOf(ef, rw, pr) + 0
  BY <1>0, SumKeeps
<1>2. BehindOf(fl, rw2, [pr EXCEPT ![p] = w]) <= BehindOf(fl, rw, pr)
  BY <1>0, BehindLeaves
<1>3. BehindOf(fl, rw2, [pr EXCEPT ![p] = w]) \in Nat /\ BehindOf(fl, rw, pr) \in Nat
  BY BehindType
<1>4. BehindOf(fl, rw2, [pr EXCEPT ![p] = w]) <= BehindOf(fl, rw, pr) + 0
  BY <1>2, <1>3
<1> QED
  BY <1>0, <1>1, <1>4, WorkDone

\* The unique name refuses the row of a script that has run.
LEMMA RefusedKeeps ==
  ASSUME MigrationBounds, NEW fl, NEW rw, NEW ef, NEW pr, NEW ex, InvOf(fl, rw, ef, pr, ex),
         NEW p \in Proc, NEW w \in WorkType, pr[p].op = "insert", w.op = "idle",
         NEW f \in File, f = Migrate!Min(pr[p].todo)
  PROVE  /\ InvOf(fl, rw, ef, [pr EXCEPT ![p] = w], ex + 1)
         /\ rw[f] > 0 => InvOf(fl, rw, ef, [pr EXCEPT ![p] = w], ex)
<1>0. /\ fl \in {"migrator", "runner"} /\ rw \in Rows /\ ef \in Effects /\ pr \in Works
      /\ pr[p] \in WorkType /\ Shaped(fl, pr[p]) /\ pr[p].todo # {}
  BY DEF InvOf, Works, Shaped
<1>1. BusyWork(fl, pr[p])
  BY DEF BusyWork
<1>2. \A g \in File : Owes(ef, rw, w, g) - Owes(ef, rw, pr[p], g) = IF g = f THEN 1 ELSE 0
  <2> TAKE g \in File
  <2>1. /\ Waits(w, "insert", g) = 0 /\ Waits(w, "delete", g) = 0 /\ Waits(pr[p], "delete", g) = 0
        /\ Waits(pr[p], "insert", g) = IF g = f THEN 1 ELSE 0
    BY DEF Waits
  <2>2. PICK a \in Int, b \in Int : a = ef[g] /\ b = RowsOf(rw, g)
    BY <1>0 DEF Effects, Rows, RowsOf
  <2> QED
    BY <2>1, <2>2 DEF Owes
<1>3. ASSUME rw[f] > 0 PROVE ~Leads(rw, pr, p)
  <2>1. f \in pr[p].todo
    BY <1>0, FirstIs DEF WorkType
  <2>2. f \in Int
    BY DEF MigrationBounds
  <2>3. UpWork(pr[p])
    BY DEF UpWork
  <2> QED
    BY <1>3, <2>1, <2>2, <2>3 DEF Leads
<1>4. /\ \A g \in File : g # f => Owes(ef, rw, w, g) - Owes(ef, rw, pr[p], g) = 0
      /\ Owes(ef, rw, w, f) - Owes(ef, rw, pr[p], f) \in -1..1
  BY <1>2
<1> QED
  BY <1>0, <1>1, <1>3, <1>4, PartsKeeps

\* A crash leaves the row of a script that has been undone.
LEMMA DroppedKeeps ==
  ASSUME MigrationBounds, NEW fl, NEW rw, NEW ef, NEW pr, NEW ex, InvOf(fl, rw, ef, pr, ex),
         NEW p \in Proc, NEW w \in WorkType, pr[p].op = "delete", w.op = "idle",
         NEW f \in File, f = Migrate!Min(pr[p].todo)
  PROVE  InvOf(fl, rw, ef, [pr EXCEPT ![p] = w], ex + 1)
<1>0. /\ fl \in {"migrator", "runner"} /\ rw \in Rows /\ ef \in Effects /\ pr \in Works
  BY DEF InvOf
<1>1. BusyWork(fl, pr[p])
  BY DEF BusyWork
<1>2. \A g \in File : Owes(ef, rw, w, g) - Owes(ef, rw, pr[p], g) = IF g = f THEN -1 ELSE 0
  <2> TAKE g \in File
  <2>1. /\ Waits(w, "insert", g) = 0 /\ Waits(w, "delete", g) = 0 /\ Waits(pr[p], "insert", g) = 0
        /\ Waits(pr[p], "delete", g) = IF g = f THEN 1 ELSE 0
    BY DEF Waits
  <2>2. PICK a \in Int, b \in Int : a = ef[g] /\ b = RowsOf(rw, g)
    BY <1>0 DEF Effects, Rows, RowsOf
  <2> QED
    BY <2>1, <2>2 DEF Owes
<1>3. /\ \A g \in File : g # f => Owes(ef, rw, w, g) - Owes(ef, rw, pr[p], g) = 0
      /\ Owes(ef, rw, w, f) - Owes(ef, rw, pr[p], f) \in -1..1
  BY <1>2
<1> QED
  BY <1>0, <1>1, <1>3, PartsKeeps

\* The row goes, and the script with it, or not.
LEMMA UntrackKeeps ==
  ASSUME MigrationBounds, NEW fl, NEW rw, NEW ef, NEW pr, NEW ex, InvOf(fl, rw, ef, pr, ex),
         NEW p \in Proc, NEW w \in WorkType, pr[p].op \in {"down", "delete"}, w.op = "idle",
         NEW f \in File, pr[p].todo = {f},
         NEW rw2 \in Rows, rw2[f] = 0, NEW ef2 \in Effects, pr[p].op = "delete" => ef2[f] = ef[f],
         \A g \in File : g # f => rw2[g] = rw[g] /\ ef2[g] = ef[g]
  PROVE  /\ (pr[p].op = "delete" \/ ef2[f] = ef[f] - 1) => InvOf(fl, rw2, ef2, [pr EXCEPT ![p] = w], ex)
         /\ ef2[f] = ef[f] => /\ InvOf(fl, rw2, ef2, [pr EXCEPT ![p] = w], ex + 1)
                              /\ rw[f] = 0 => InvOf(fl, rw2, ef2, [pr EXCEPT ![p] = w], ex)
<1>0. /\ fl \in {"migrator", "runner"} /\ rw \in Rows /\ ef \in Effects /\ pr \in Works
      /\ pr[p] \in WorkType /\ Shaped(fl, pr[p]) /\ BusyWork(fl, pr[p])
  BY DEF InvOf, Works, BusyWork
<1>1. Migrate!Min(pr[p].todo) = f
  BY FirstIs
<1>2. \A g \in File : /\ Waits(w, "insert", g) = 0 /\ Waits(w, "delete", g) = 0
                      /\ Waits(pr[p], "insert", g) = 0
                      /\ Waits(pr[p], "delete", g) = IF pr[p].op = "delete" /\ g = f THEN 1 ELSE 0
  BY <1>1 DEF Waits
<1>3. \A g \in File : ef[g] \in Int /\ RowsOf(rw, g) \in Int /\ ef2[g] \in Int /\ RowsOf(rw2, g) \in Int
  BY <1>0 DEF Effects, Rows, RowsOf
<1>4. ASSUME NEW g \in File, g # f PROVE Owes(ef2, rw2, w, g) - Owes(ef, rw, pr[p], g) = 0
  <2>1. PICK a \in Int, b \in Int : a = ef[g] /\ b = RowsOf(rw, g)
    BY <1>3
  <2>2. ef2[g] = a /\ RowsOf(rw2, g) = b
    BY <1>4, <2>1 DEF RowsOf
  <2> QED
    BY <1>2, <1>4, <2>1, <2>2 DEF Owes
<1>5. PICK a \in Int, a2 \in Int, b \in Int : a = ef[f] /\ a2 = ef2[f] /\ b = RowsOf(rw, f)
  BY <1>3
<1>6. RowsOf(rw2, f) = 0 /\ (b = 0 \/ b = 1) /\ (b = 0 <=> rw[f] = 0)
  BY <1>0, <1>5 DEF RowsOf, Rows
<1>7. Owes(ef2, rw2, w, f) - Owes(ef, rw, pr[p], f)
        = a2 - a + b - (IF pr[p].op = "delete" THEN 1 ELSE 0)
  BY <1>2, <1>5, <1>6 DEF Owes
<1>8. ASSUME rw[f] = 0 PROVE rw2 = rw /\ ~Leads(rw, pr, p)
  <2>1. rw2 = rw
    BY <1>0, <1>8 DEF Rows
  <2>2. ~UpWork(pr[p]) /\ ~(rw[f] > 0)
    BY <1>0, <1>8 DEF UpWork, Rows
  <2> QED
    BY <1>1, <2>1, <2>2 DEF Leads
<1>9. Owes(ef2, rw2, w, f) - Owes(ef, rw, pr[p], f) = 0 =>
        InvOf(fl, rw2, ef2, [pr EXCEPT ![p] = w], ex)
  <2> SUFFICES ASSUME Owes(ef2, rw2, w, f) - Owes(ef, rw, pr[p], f) = 0
               PROVE  InvOf(fl, rw2, ef2, [pr EXCEPT ![p] = w], ex)
    OBVIOUS
  <2>1. \A g \in File : Owes(ef2, rw2, w, g) - Owes(ef, rw, pr[p], g) = 0
    BY <1>4
  <2> QED
    BY <1>0, <2>1, EvenKeeps
<1>10. Owes(ef2, rw2, w, f) - Owes(ef, rw, pr[p], f) \in -1..1 =>
         /\ InvOf(fl, rw2, ef2, [pr EXCEPT ![p] = w], ex + 1)
         /\ rw[f] = 0 => InvOf(fl, rw2, ef2, [pr EXCEPT ![p] = w], ex)
  BY <1>0, <1>4, <1>8, PartsKeeps
<1>11. CASE pr[p].op = "delete"
  <2>1. a2 = a
    BY <1>5, <1>11
  <2>2. CASE b = 1
    <3>1. Owes(ef2, rw2, w, f) - Owes(ef, rw, pr[p], f) = 0
      BY <1>7, <1>11, <2>1, <2>2
    <3>2. Owes(ef2, rw2, w, f) - Owes(ef, rw, pr[p], f) \in -1..1
      BY <3>1
    <3> QED
      BY <1>9, <1>10, <3>1, <3>2
  <2>3. CASE b = 0
    <3>1. Owes(ef2, rw2, w, f) - Owes(ef, rw, pr[p], f) \in -1..1
      BY <1>7, <1>11, <2>1, <2>3
    <3> QED
      BY <1>6, <1>10, <2>3, <3>1
  <2> QED
    BY <1>6, <2>2, <2>3
<1>12. CASE pr[p].op = "down"
  <2>0. Owes(ef2, rw2, w, f) - Owes(ef, rw, pr[p], f) = a2 - a + b
    BY <1>7, <1>12
  <2>1. ASSUME a2 = a - 1 PROVE InvOf(fl, rw2, ef2, [pr EXCEPT ![p] = w], ex)
    <3>1. CASE b = 1
      <4>1. Owes(ef2, rw2, w, f) - Owes(ef, rw, pr[p], f) = 0
        BY <2>0, <2>1, <3>1
      <4> QED
        BY <1>9, <4>1
    <3>2. CASE b = 0
      <4>1. Owes(ef2, rw2, w, f) - Owes(ef, rw, pr[p], f) \in -1..1
        BY <2>0, <2>1, <3>2
      <4> QED
        BY <1>6, <1>10, <3>2, <4>1
    <3> QED
      BY <1>6, <3>1, <3>2
  <2>2. ASSUME a2 = a PROVE /\ InvOf(fl, rw2, ef2, [pr EXCEPT ![p] = w], ex + 1)
                            /\ rw[f] = 0 => InvOf(fl, rw2, ef2, [pr EXCEPT ![p] = w], ex)
    <3>1. Owes(ef2, rw2, w, f) - Owes(ef, rw, pr[p], f) \in -1..1
      BY <1>6, <2>0, <2>2
    <3> QED
      BY <1>10, <3>1
  <2> QED
    BY <1>5, <1>12, <2>1, <2>2
<1> QED
  BY <1>11, <1>12

\* Among the row numbers of finitely many files one is the greatest.
LEMMA GreatestRow ==
  ASSUME MigrationBounds, NEW rw \in Rows, NEW f \in File
  PROVE  Migrate!Max({rw[g] : g \in File}) \in Nat
<1> DEFINE Bad == {s \in SUBSET File : s # {} /\ ~ \E m \in s : \A g \in s : rw[g] <= rw[m]}
<1>0. \A g \in File : rw[g] \in Nat
  BY DEF Rows
<1>1. Bad = {}
  <2> SUFFICES ASSUME Bad # {} PROVE FALSE
    OBVIOUS
  <2>1. PICK s \in Bad : \A x \in s : s \ {x} \notin Bad
    <3>1. Bad \in SUBSET SUBSET File
      OBVIOUS
    <3> HIDE DEF Bad
    <3> QED
      BY <3>1, SmallestSet DEF MigrationBounds
  <2>2. PICK x \in s : TRUE
    OBVIOUS
  <2>3. CASE s \ {x} = {}
    BY <1>0, <2>2, <2>3
  <2>4. CASE s \ {x} # {}
    <3>1. PICK m \in s \ {x} : \A g \in s \ {x} : rw[g] <= rw[m]
      BY <2>1, <2>4
    <3>2. rw[m] \in Nat /\ rw[x] \in Nat /\ \A g \in s : rw[g] \in Nat
      BY <1>0
    <3>3. CASE rw[x] <= rw[m]
      <4>1. \A g \in s : rw[g] <= rw[m]
        BY <3>1, <3>3
      <4> QED
        BY <4>1
    <3>4. CASE ~(rw[x] <= rw[m])
      <4>1. \A g \in s : rw[g] <= rw[x]
        BY <3>1, <3>2, <3>4
      <4> QED
        BY <4>1
    <3> QED
      BY <3>3, <3>4
  <2> QED
    BY <2>3, <2>4
<1>2. PICK m \in File : \A g \in File : rw[g] <= rw[m]
  BY <1>1
<1> DEFINE numbers == {rw[g] : g \in File}
<1>3. rw[m] \in numbers /\ \A n \in numbers : n <= rw[m] /\ n \in Nat
  BY <1>0, <1>2
<1> HIDE DEF numbers
<1>4. \A n \in numbers : rw[m] >= n
  BY <1>0, <1>3
<1>5. Migrate!Max(numbers) \in numbers
  BY <1>3, <1>4, Zenon DEF Migrate!Max
<1> QED
  BY <1>3, <1>5 DEF numbers

\* The migrations start with every script where its row is.
LEMMA MigrationStarts == ASSUME MigrationBounds, Migrate!Init PROVE MigrationInv
<1>1. /\ row \in Rows /\ effect \in Effects /\ proc \in Works /\ excused = 0 /\ present \in SUBSET File
      /\ flavour \in {"migrator", "runner"} /\ \A q \in Proc : proc[q].op = "idle"
  BY DEF Migrate!Init, Migrate!Idle, Rows, Effects, Works, WorkType, MigrationBounds
<1>2. \A q \in Proc : Shaped(flavour, proc[q])
  BY <1>1 DEF Shaped
<1>3. Busy(flavour, proc) = {}
  BY <1>1 DEF Busy, BusyWork
<1>4. BehindOf(flavour, row, proc) = 0
  BY <1>3, FS_EmptySet DEF BehindOf, Led
<1>5. \A f \in File : LedgerOf(effect, row, proc)[f] = 0
  <2> TAKE f \in File
  <2>1. Waiting(proc, "delete", f) = {} /\ Waiting(proc, "insert", f) = {}
    BY <1>1 DEF Waiting
  <2>2. effect[f] = 0 /\ RowsOf(row, f) = 0
    BY DEF Migrate!Init, RowsOf
  <2>3. LedgerOf(effect, row, proc)[f] = Migrate!Distance(0 + 0, 0 + 0)
    BY <2>1, <2>2, FS_EmptySet DEF LedgerOf
  <2> QED
    BY <2>3 DEF Migrate!Distance
<1>6. SumOf(effect, row, proc) = 0
  <2>1. PICK it : it = LedgerOf(effect, row, proc)
    OBVIOUS
  <2>2. \A f \in File : it[f] = 0
    BY <1>5, <2>1
  <2>3. SumFunctionOnSet(it, File) = 0
    BY <2>2, SumZero DEF MigrationBounds
  <2> QED
    BY <2>1, <2>3 DEF SumOf
<1> QED
  BY <1>1, <1>2, <1>4, <1>6 DEF MigrationInv, InvOf

\* What a call is given to do next.
LEMMA BecomesWork ==
  ASSUME NEW p, NEW op \in {"idle", "up", "insert", "down", "delete"}, NEW todo \in SUBSET File,
         Migrate!Become(p, op, todo)
  PROVE  \E w \in WorkType : w.op = op /\ w.todo = todo /\ proc' = [proc EXCEPT ![p] = w]
BY DEF Migrate!Become, WorkType

\* Tracking a file gives it a number, and no other file another one.
LEMMA TrackedNow ==
  ASSUME MigrationBounds, row \in Rows, NEW f \in File, Migrate!Track(f)
  PROVE  row' \in Rows /\ row'[f] > 0 /\ \A g \in File : g # f => row'[g] = row[g]
<1>1. PICK n \in Nat : n = Migrate!Max({row[g] : g \in File})
  BY GreatestRow
<1>2. row' = [row EXCEPT ![f] = 1 + n]
  BY <1>1 DEF Migrate!Track
<1> QED
  BY <1>2 DEF Rows

\* Every step of a process keeps the invariant.
LEMMA ProcessSteps ==
  ASSUME MigrationBounds, MigrationInv, NEW p \in Proc,
         \/ Migrate!Up(p) \/ Migrate!ApplyOne(p) \/ Migrate!RunUp(p) \/ Migrate!Insert(p)
         \/ Migrate!UpEnds(p) \/ Migrate!ScriptFails(p) \/ Migrate!HalfRun(p) \/ Migrate!Down(p) \/ Migrate!Revert(p)
         \/ Migrate!RunDown(p) \/ Migrate!Delete(p) \/ Migrate!Crash(p)
  PROVE  /\ present' = present /\ flavour' = flavour
         /\ InvOf(flavour, row', effect', proc', excused')
<1>0. /\ present \in SUBSET File /\ InvOf(flavour, row, effect, proc, excused)
      /\ row \in Rows /\ effect \in Effects /\ proc \in Works /\ excused \in Nat
      /\ flavour \in {"migrator", "runner"}
      /\ proc[p] \in WorkType /\ Shaped(flavour, proc[p])
  BY DEF MigrationInv, InvOf, Works
<1>t. proc[p].todo \in SUBSET File /\ {} \in SUBSET File
  BY <1>0 DEF WorkType
<1>f. proc[p].todo # {} => Migrate!First(p) \in File /\ Migrate!First(p) = Migrate!Min(proc[p].todo)
  <2> SUFFICES ASSUME proc[p].todo # {}
               PROVE  Migrate!First(p) \in File /\ Migrate!First(p) = Migrate!Min(proc[p].todo)
    OBVIOUS
  <2>1. Migrate!Min(proc[p].todo) \in proc[p].todo
    BY <1>t, FirstIs
  <2> QED
    BY <1>t, <2>1 DEF Migrate!First
<1>s. proc[p].op \in {"down", "delete"} =>
        /\ proc[p].todo # {} /\ proc[p].todo = {Migrate!First(p)}
  <2> SUFFICES ASSUME proc[p].op \in {"down", "delete"} PROVE proc[p].todo # {} /\ proc[p].todo = {Migrate!First(p)}
    OBVIOUS
  <2>1. PICK f \in File : proc[p].todo = {f}
    BY <1>0 DEF Shaped
  <2>2. Migrate!Min(proc[p].todo) = f
    BY <1>t, <2>1, FirstIs
  <2> QED
    BY <2>1, <2>2 DEF Migrate!First
<1>1. CASE Migrate!Up(p)
  <2> DEFINE S == {f \in Migrate!Given(present) : ~Migrate!Tracked(f)}
             others == flavour = "runner" /\ \E q \in Proc : proc[q].op # "idle"
  <2>1. S \in SUBSET File /\ \A f \in S : ~(row[f] > 0)
    BY <1>0 DEF Migrate!Given, Migrate!List, Migrate!Tracked
  <2>2. /\ proc[p].op = "idle" /\ Migrate!Become(p, "up", S)
        /\ excused' = IF others THEN excused + 1 ELSE excused
        /\ row' = row /\ effect' = effect /\ present' = present /\ flavour' = flavour
    BY <1>1 DEF Migrate!Up
  <2> HIDE DEF S, others
  <2>3. PICK w \in WorkType : w.op = "up" /\ w.todo = S /\ proc' = [proc EXCEPT ![p] = w]
    BY <2>1, <2>2, BecomesWork
  <2>4. /\ others => InvOf(flavour, row, effect, [proc EXCEPT ![p] = w], excused + 1)
        /\ ~others => InvOf(flavour, row, effect, [proc EXCEPT ![p] = w], excused)
    BY <1>0, <2>1, <2>2, <2>3, UpKeeps DEF others
  <2>5. CASE others
    BY <2>2, <2>3, <2>4, <2>5
  <2>6. CASE ~others
    BY <2>2, <2>3, <2>4, <2>6
  <2> QED
    BY <2>5, <2>6
<1>2. CASE Migrate!ApplyOne(p)
  <2> DEFINE f == Migrate!First(p)
  <2>1. /\ flavour = "migrator" /\ proc[p].op = "up" /\ proc[p].todo # {}
        /\ excused' = excused /\ present' = present /\ flavour' = flavour
    BY <1>2 DEF Migrate!ApplyOne
  <2>2. f \in File
    BY <1>f, <2>1
  <2>3. CASE row[f] > 0
    <3>1. Migrate!Become(p, "idle", {}) /\ row' = row /\ effect' = effect
      BY <1>2, <2>3 DEF Migrate!ApplyOne, Migrate!Tracked
    <3>2. PICK w \in WorkType : w.op = "idle" /\ proc' = [proc EXCEPT ![p] = w]
      BY <1>t, <3>1, BecomesWork
    <3>3. InvOf(flavour, row, effect, [proc EXCEPT ![p] = w], excused)
      BY <1>0, <2>1, <3>2, EndKeeps
    <3> QED
      BY <2>1, <3>1, <3>2, <3>3
  <2>4. CASE ~(row[f] > 0)
    <3>1. /\ Migrate!Become(p, "up", Migrate!Rest(p)) /\ Migrate!Track(f)
          /\ effect' = [effect EXCEPT ![f] = @ + 1]
      BY <1>2, <2>4 DEF Migrate!ApplyOne, Migrate!Tracked
    <3> HIDE DEF f
    <3>2. Migrate!Rest(p) \in SUBSET File
      BY <1>t DEF Migrate!Rest
    <3>3. PICK w \in WorkType : w.op = "up" /\ proc' = [proc EXCEPT ![p] = w]
      BY <3>1, <3>2, BecomesWork
    <3>4. row' \in Rows /\ row'[f] > 0 /\ \A g \in File : g # f => row'[g] = row[g]
      BY <1>0, <2>2, <3>1, TrackedNow
    <3>5. /\ effect' \in Effects /\ effect'[f] = effect[f] + 1
          /\ \A g \in File : g # f => effect'[g] = effect[g]
      BY <1>0, <2>2, <3>1 DEF Effects
    <3>6. PICK rw2 \in Rows, ef2 \in Effects : rw2 = row' /\ ef2 = effect'
      BY <3>4, <3>5
    <3>7. /\ rw2[f] > 0 /\ ef2[f] = effect[f] + 1
          /\ \A g \in File : g # f => rw2[g] = row[g] /\ ef2[g] = effect[g]
      BY <3>4, <3>5, <3>6
    <3>8. InvOf(flavour, rw2, ef2, [proc EXCEPT ![p] = w], excused)
      <4>1. flavour = "migrator" /\ proc[p].op = "up" /\ w.op = "up" /\ ~(row[f] > 0)
        BY <2>1, <2>4, <3>3
      <4> QED
        BY <1>0, <2>2, <3>7, <4>1, ApplyKeeps
    <3> QED
      BY <2>1, <3>3, <3>6, <3>8
  <2> QED
    BY <2>3, <2>4
<1>3. CASE Migrate!RunUp(p)
  <2> DEFINE f == Migrate!First(p)
  <2>1. /\ flavour = "runner" /\ proc[p].op = "up" /\ proc[p].todo # {}
        /\ effect' = [effect EXCEPT ![f] = @ + 1] /\ Migrate!Become(p, "insert", proc[p].todo)
        /\ row' = row /\ excused' = excused /\ present' = present /\ flavour' = flavour
    BY <1>3 DEF Migrate!RunUp
  <2>2. f \in File /\ f = Migrate!Min(proc[p].todo)
    BY <1>f, <2>1
  <2>3. PICK w \in WorkType : w.op = "insert" /\ w.todo = proc[p].todo /\ proc' = [proc EXCEPT ![p] = w]
    BY <1>t, <2>1, BecomesWork
  <2>4. /\ effect' \in Effects /\ effect'[f] = effect[f] + 1
        /\ \A g \in File : g # f => effect'[g] = effect[g]
    BY <1>0, <2>1, <2>2 DEF Effects
  <2> HIDE DEF f
  <2>5. PICK ef2 \in Effects : ef2 = effect'
    BY <2>4
  <2>6. InvOf(flavour, row, ef2, [proc EXCEPT ![p] = w], excused)
    <3>1. \A g \in File : g # f => ef2[g] = effect[g]
      BY <2>4, <2>5
    <3>2. \/ proc[p].op = "up" /\ w.op = "insert" /\ ef2[f] = effect[f] + 1
          \/ proc[p].op = "down" /\ w.op = "delete" /\ ef2[f] = effect[f] - 1
      BY <2>1, <2>3, <2>4, <2>5
    <3>3. flavour = "runner" /\ w.todo = proc[p].todo /\ w.todo # {} /\ f = Migrate!Min(w.todo)
      BY <2>1, <2>2, <2>3
    <3> QED
      BY <1>0, <2>2, <3>1, <3>2, <3>3, RunKeeps
  <2> QED
    BY <2>1, <2>3, <2>5, <2>6
<1>4. CASE Migrate!Insert(p)
  <2> DEFINE f == Migrate!First(p)
  <2>1. /\ proc[p].op = "insert" /\ effect' = effect
        /\ excused' = excused /\ present' = present /\ flavour' = flavour
    BY <1>4 DEF Migrate!Insert
  <2>2. f \in File /\ f = Migrate!Min(proc[p].todo)
    BY <1>0, <1>f, <2>1 DEF Shaped
  <2>3. CASE row[f] > 0
    <3>1. Migrate!Become(p, "idle", {}) /\ row' = row
      BY <1>4, <2>3 DEF Migrate!Insert, Migrate!Tracked
    <3>2. PICK w \in WorkType : w.op = "idle" /\ proc' = [proc EXCEPT ![p] = w]
      BY <1>t, <3>1, BecomesWork
    <3> HIDE DEF f
    <3>3. InvOf(flavour, row, effect, [proc EXCEPT ![p] = w], excused)
      BY <1>0, <2>1, <2>2, <2>3, <3>2, RefusedKeeps
    <3> QED
      BY <2>1, <3>1, <3>2, <3>3
  <2>4. CASE ~(row[f] > 0)
    <3>1. Migrate!Become(p, "up", Migrate!Rest(p)) /\ Migrate!Track(f)
      BY <1>4, <2>4 DEF Migrate!Insert, Migrate!Tracked
    <3>2. Migrate!Rest(p) \in SUBSET File /\ Migrate!Rest(p) = proc[p].todo \ {f}
      BY <1>t DEF Migrate!Rest
    <3> HIDE DEF f
    <3>3. PICK w \in WorkType : w.op = "up" /\ w.todo = Migrate!Rest(p) /\ proc' = [proc EXCEPT ![p] = w]
      BY <3>1, <3>2, BecomesWork
    <3>4. row' \in Rows /\ row'[f] > 0 /\ \A g \in File : g # f => row'[g] = row[g]
      BY <1>0, <2>2, <3>1, TrackedNow
    <3>5. PICK rw2 \in Rows : rw2 = row'
      BY <3>4
    <3>6. InvOf(flavour, rw2, effect, [proc EXCEPT ![p] = w], excused)
      <4>1. rw2[f] > 0 /\ \A g \in File : g # f => rw2[g] = row[g]
        BY <3>4, <3>5
      <4>2. /\ proc[p].op = "insert" /\ w.op = "up" /\ ~(row[f] > 0)
            /\ f = Migrate!Min(proc[p].todo) /\ w.todo = proc[p].todo \ {f}
        BY <2>1, <2>2, <2>4, <3>2, <3>3
      <4> QED
        BY <1>0, <2>2, <4>1, <4>2, InsertKeeps
    <3> QED
      BY <2>1, <3>3, <3>5, <3>6
  <2> QED
    BY <2>3, <2>4
<1>5. CASE Migrate!UpEnds(p) \/ Migrate!ScriptFails(p)
  <2>1. /\ proc[p].op \in {"up", "down"} /\ Migrate!Become(p, "idle", {})
        /\ row' = row /\ effect' = effect /\ excused' = excused
        /\ present' = present /\ flavour' = flavour
    BY <1>5 DEF Migrate!UpEnds, Migrate!ScriptFails
  <2>2. PICK w \in WorkType : w.op = "idle" /\ proc' = [proc EXCEPT ![p] = w]
    BY <1>t, <2>1, BecomesWork
  <2>3. InvOf(flavour, row, effect, [proc EXCEPT ![p] = w], excused)
    BY <1>0, <2>1, <2>2, EndKeeps
  <2> QED
    BY <2>1, <2>2, <2>3
<1>6. CASE Migrate!Down(p)
  <2> DEFINE others == \E q \in Proc : proc[q].op = "down" \/ (flavour = "runner" /\ proc[q].op # "idle")
  <2>1. /\ proc[p].op = "idle" /\ row' = row /\ effect' = effect
        /\ excused' = IF others THEN excused + 1 ELSE excused
        /\ present' = present /\ flavour' = flavour
    BY <1>6 DEF Migrate!Down
  <2>2. PICK f \in File : row[f] > 0 /\ Migrate!Become(p, "down", {f})
    BY <1>6 DEF Migrate!Down, Migrate!Tracked
  <2>3. PICK w \in WorkType : w.op = "down" /\ w.todo = {f} /\ proc' = [proc EXCEPT ![p] = w]
    <3>1. {f} \in SUBSET File
      OBVIOUS
    <3> QED
      BY <2>2, <3>1, BecomesWork
  <2>4. /\ others => InvOf(flavour, row, effect, [proc EXCEPT ![p] = w], excused + 1)
        /\ ~others => InvOf(flavour, row, effect, [proc EXCEPT ![p] = w], excused)
    BY <1>0, <2>1, <2>2, <2>3, DownKeeps
  <2> HIDE DEF others
  <2>5. CASE others
    BY <2>1, <2>3, <2>4, <2>5
  <2>6. CASE ~others
    BY <2>1, <2>3, <2>4, <2>6
  <2> QED
    BY <2>5, <2>6
<1>7. CASE Migrate!Revert(p)
  <2> DEFINE f == Migrate!First(p)
             scripted == f \in Migrate!List(present) /\ f \in hasDown
  <2>1. /\ proc[p].op = "down" /\ Migrate!Untrack(f) /\ Migrate!Become(p, "idle", {})
        /\ effect' = IF scripted THEN [effect EXCEPT ![f] = @ - 1] ELSE effect
        /\ excused' = IF scripted \/ ~(row[f] > 0) THEN excused ELSE excused + 1
        /\ present' = present /\ flavour' = flavour
    BY <1>7 DEF Migrate!Revert, Migrate!Tracked
  <2>2. f \in File /\ proc[p].todo = {f}
    BY <1>f, <1>s, <2>1
  <2> HIDE DEF f, scripted
  <2>3. PICK w \in WorkType : w.op = "idle" /\ proc' = [proc EXCEPT ![p] = w]
    BY <1>t, <2>1, BecomesWork
  <2>4. row' \in Rows /\ row'[f] = 0 /\ \A g \in File : g # f => row'[g] = row[g]
    BY <1>0, <2>1, <2>2 DEF Rows, Migrate!Untrack
  <2>5. /\ effect' \in Effects /\ \A g \in File : g # f => effect'[g] = effect[g]
        /\ scripted => effect'[f] = effect[f] - 1
        /\ ~scripted => effect'[f] = effect[f]
    BY <1>0, <2>1, <2>2 DEF Effects
  <2>6. PICK rw2 \in Rows, ef2 \in Effects : rw2 = row' /\ ef2 = effect'
    BY <2>4, <2>5
  <2>7. /\ ef2[f] = effect[f] - 1 => InvOf(flavour, rw2, ef2, [proc EXCEPT ![p] = w], excused)
        /\ ef2[f] = effect[f] =>
             /\ InvOf(flavour, rw2, ef2, [proc EXCEPT ![p] = w], excused + 1)
             /\ row[f] = 0 => InvOf(flavour, rw2, ef2, [proc EXCEPT ![p] = w], excused)
    <3>1. rw2[f] = 0 /\ \A g \in File : g # f => rw2[g] = row[g] /\ ef2[g] = effect[g]
      BY <2>4, <2>5, <2>6
    <3>2. /\ proc[p].op \in {"down", "delete"} /\ proc[p].op # "delete" /\ w.op = "idle"
          /\ proc[p].todo = {f}
      BY <2>1, <2>2, <2>3
    <3> QED
      BY <1>0, <2>2, <3>1, <3>2, UntrackKeeps
  <2>8. ~(row[f] > 0) => row[f] = 0
    BY <1>0, <2>2 DEF Rows
  <2>9. CASE scripted
    BY <2>1, <2>3, <2>5, <2>6, <2>7, <2>9
  <2>10. CASE ~scripted /\ row[f] > 0
    BY <2>1, <2>3, <2>5, <2>6, <2>7, <2>10
  <2>11. CASE ~scripted /\ ~(row[f] > 0)
    BY <2>1, <2>3, <2>5, <2>6, <2>7, <2>8, <2>11
  <2> QED
    BY <2>9, <2>10, <2>11
<1>8. CASE Migrate!RunDown(p)
  <2> DEFINE f == Migrate!First(p)
  <2>1. /\ flavour = "runner" /\ proc[p].op = "down"
        /\ effect' = [effect EXCEPT ![f] = @ - 1] /\ Migrate!Become(p, "delete", proc[p].todo)
        /\ row' = row /\ excused' = excused /\ present' = present /\ flavour' = flavour
    BY <1>8 DEF Migrate!RunDown
  <2>2. f \in File /\ f = Migrate!Min(proc[p].todo) /\ proc[p].todo # {}
    BY <1>f, <1>s, <2>1
  <2>3. PICK w \in WorkType : w.op = "delete" /\ w.todo = proc[p].todo /\ proc' = [proc EXCEPT ![p] = w]
    BY <1>t, <2>1, BecomesWork
  <2>4. /\ effect' \in Effects /\ effect'[f] = effect[f] - 1
        /\ \A g \in File : g # f => effect'[g] = effect[g]
    BY <1>0, <2>1, <2>2 DEF Effects
  <2> HIDE DEF f
  <2>5. PICK ef2 \in Effects : ef2 = effect'
    BY <2>4
  <2>6. InvOf(flavour, row, ef2, [proc EXCEPT ![p] = w], excused)
    <3>1. \A g \in File : g # f => ef2[g] = effect[g]
      BY <2>4, <2>5
    <3>2. \/ proc[p].op = "up" /\ w.op = "insert" /\ ef2[f] = effect[f] + 1
          \/ proc[p].op = "down" /\ w.op = "delete" /\ ef2[f] = effect[f] - 1
      BY <2>1, <2>3, <2>4, <2>5
    <3>3. flavour = "runner" /\ w.todo = proc[p].todo /\ w.todo # {} /\ f = Migrate!Min(w.todo)
      BY <2>1, <2>2, <2>3
    <3> QED
      BY <1>0, <2>2, <3>1, <3>2, <3>3, RunKeeps
  <2> QED
    BY <2>1, <2>3, <2>5, <2>6
<1>9. CASE Migrate!Delete(p)
  <2> DEFINE f == Migrate!First(p)
  <2>1. /\ proc[p].op = "delete" /\ Migrate!Untrack(f) /\ Migrate!Become(p, "idle", {})
        /\ effect' = effect /\ excused' = excused /\ present' = present /\ flavour' = flavour
    BY <1>9 DEF Migrate!Delete
  <2>2. f \in File /\ proc[p].todo = {f}
    BY <1>f, <1>s, <2>1
  <2> HIDE DEF f
  <2>3. PICK w \in WorkType : w.op = "idle" /\ proc' = [proc EXCEPT ![p] = w]
    BY <1>t, <2>1, BecomesWork
  <2>4. row' \in Rows /\ row'[f] = 0 /\ \A g \in File : g # f => row'[g] = row[g]
    BY <1>0, <2>1, <2>2 DEF Rows, Migrate!Untrack
  <2>5. PICK rw2 \in Rows : rw2 = row'
    BY <2>4
  <2>6. InvOf(flavour, rw2, effect, [proc EXCEPT ![p] = w], excused)
    BY <1>0, <2>1, <2>2, <2>3, <2>4, <2>5, UntrackKeeps
  <2> QED
    BY <2>1, <2>3, <2>5, <2>6
<1>10. CASE Migrate!Crash(p)
  <2> DEFINE f == Migrate!First(p)
  <2>1. /\ proc[p].op # "idle" /\ Migrate!Become(p, "idle", {})
        /\ excused' = IF proc[p].op \in {"insert", "delete"} THEN excused + 1 ELSE excused
        /\ row' = row /\ effect' = effect /\ present' = present /\ flavour' = flavour
    BY <1>10 DEF Migrate!Crash
  <2>2. PICK w \in WorkType : w.op = "idle" /\ proc' = [proc EXCEPT ![p] = w]
    BY <1>t, <2>1, BecomesWork
  <2>3. CASE proc[p].op \in {"up", "down"}
    <3>1. InvOf(flavour, row, effect, [proc EXCEPT ![p] = w], excused)
      BY <1>0, <2>2, <2>3, EndKeeps
    <3> QED
      BY <2>1, <2>2, <2>3, <3>1
  <2>4. CASE proc[p].op = "insert"
    <3>1. f \in File /\ f = Migrate!Min(proc[p].todo)
      BY <1>0, <1>f, <2>4 DEF Shaped
    <3> HIDE DEF f
    <3>2. InvOf(flavour, row, effect, [proc EXCEPT ![p] = w], excused + 1)
      BY <1>0, <2>2, <2>4, <3>1, RefusedKeeps
    <3> QED
      BY <2>1, <2>2, <2>4, <3>2
  <2>5. CASE proc[p].op = "delete"
    <3>1. f \in File /\ f = Migrate!Min(proc[p].todo) /\ proc[p].todo # {}
      BY <1>f, <1>s, <2>5
    <3> HIDE DEF f
    <3>2. InvOf(flavour, row, effect, [proc EXCEPT ![p] = w], excused + 1)
      BY <1>0, <2>2, <2>5, <3>1, DroppedKeeps
    <3> QED
      BY <2>1, <2>2, <2>5, <3>2
  <2> QED
    BY <1>0, <2>1, <2>3, <2>4, <2>5 DEF WorkType
<1>11. CASE Migrate!HalfRun(p)
  <2> DEFINE f == Migrate!First(p)
  <2>1. /\ flavour = "runner" /\ proc[p].op \in {"up", "down"} /\ proc[p].todo # {}
        /\ effect' = [effect EXCEPT ![f] = IF proc[p].op = "up" THEN @ + 1 ELSE @ - 1]
        /\ Migrate!Become(p, "idle", {}) /\ excused' = excused + 1
        /\ row' = row /\ present' = present /\ flavour' = flavour
    BY <1>11 DEF Migrate!HalfRun
  <2>2. f \in File
    BY <1>f, <2>1
  <2> HIDE DEF f
  <2>3. PICK w \in WorkType : w.op = "idle" /\ proc' = [proc EXCEPT ![p] = w]
    BY <1>t, <2>1, BecomesWork
  <2>4. /\ effect' \in Effects /\ effect'[f] - effect[f] \in -1..1
        /\ \A g \in File : g # f => effect'[g] = effect[g]
    BY <1>0, <2>1, <2>2 DEF Effects
  <2>5. PICK ef2 \in Effects : ef2 = effect'
    BY <2>4
  <2>6. /\ \A g \in File : g # f => Owes(ef2, row, w, g) - Owes(effect, row, proc[p], g) = 0
        /\ Owes(ef2, row, w, f) - Owes(effect, row, proc[p], f) \in -1..1
    <3>1. ASSUME NEW g \in File
          PROVE  Owes(ef2, row, w, g) - Owes(effect, row, proc[p], g) = ef2[g] - effect[g]
      <4>1. /\ Waits(w, "insert", g) = 0 /\ Waits(w, "delete", g) = 0
            /\ Waits(proc[p], "insert", g) = 0 /\ Waits(proc[p], "delete", g) = 0
        BY <2>1, <2>3 DEF Waits
      <4>2. PICK a \in Int, b \in Int, a2 \in Int :
              a = effect[g] /\ b = RowsOf(row, g) /\ a2 = ef2[g]
        BY <1>0 DEF Effects, Rows, RowsOf
      <4> QED
        BY <4>1, <4>2 DEF Owes
    <3>2. \A g \in File : g # f => ef2[g] - effect[g] = 0
      BY <1>0, <2>4, <2>5 DEF Effects
    <3>3. ef2[f] - effect[f] \in -1..1
      BY <2>4, <2>5
    <3> QED
      BY <2>2, <3>1, <3>2, <3>3
  <2>7. InvOf(flavour, row, ef2, [proc EXCEPT ![p] = w], excused + 1)
    <3>1. BusyWork(flavour, proc[p])
      BY <2>1 DEF BusyWork
    <3> QED
      BY <1>0, <2>2, <2>3, <2>6, <3>1, PartsKeeps
  <2> QED
    BY <2>1, <2>3, <2>5, <2>7
<1> QED
  BY <1>1, <1>2, <1>3, <1>4, <1>5, <1>6, <1>7, <1>8, <1>9, <1>10, <1>11

\* Cardinality and the sum are the same in the instance.
LEMMA MigrateMeans ==
  /\ \A S : Migrate!Cardinality(S) = Cardinality(S)
  /\ \A f : Migrate!SumFunction([g \in File |-> f[g]]) = SumFunctionOnSet([g \in File |-> f[g]], File)
<1>1. \A S : Migrate!Cardinality(S) = Cardinality(S)
  BY DEF Migrate!Cardinality, Cardinality
<1>2. ASSUME NEW f
      PROVE  Migrate!SumFunction([g \in File |-> f[g]]) = SumFunctionOnSet([g \in File |-> f[g]], File)
  <2>1. PICK it : it = [g \in File |-> f[g]]
    OBVIOUS
  <2>2. DOMAIN it = File
    BY <2>1
  <2>3. Migrate!SumFunction(it) = SumFunctionOnSet(it, DOMAIN it)
    BY Zenon DEF Migrate!SumFunction, Migrate!SumFunctionOnSet,
       Migrate!FoldFunctionOnSet, Migrate!MapThenFoldSet,
       SumFunctionOnSet, FoldFunctionOnSet, MapThenFoldSet
  <2> QED
    BY <2>1, <2>2, <2>3
<1> QED
  BY <1>1, <1>2

\* Scripts and rows are as far apart as the ledger says, and as the calls between
\* the two steps of one file account for.
LEMMA DriftFromInv == ASSUME MigrationBounds, MigrationInv PROVE DriftExcused
<1> DEFINE S == Migrate!Between
           first == [q \in Proc |-> Migrate!Min(proc[q].todo)]
           drift == [f \in File |-> Migrate!Distance(effect[f], RowsOf(row, f))]
           open == [f \in File |-> Cardinality({q \in S : first[q] = f})]
           both == [f \in File |-> LedgerOf(effect, row, proc)[f] + open[f]]
<1>0. /\ InvOf(flavour, row, effect, proc, excused)
      /\ row \in Rows /\ effect \in Effects /\ proc \in Works /\ excused \in Nat
  BY DEF MigrationInv, InvOf
<1>1. S = {q \in Proc : proc[q].op \in {"insert", "delete"}} /\ IsFiniteSet(S)
  <2>1. S = {q \in Proc : proc[q].op \in {"insert", "delete"}}
    BY DEF Migrate!Between
  <2> QED
    BY <2>1, FS_Subset DEF MigrationBounds
<1>2. \A q \in S : first[q] \in File /\ first[q] = Migrate!Min(proc[q].todo)
  <2> TAKE q \in S
  <2>1. q \in Proc /\ Shaped(flavour, proc[q]) /\ proc[q].todo \in SUBSET File /\ proc[q].todo # {}
    BY <1>0, <1>1 DEF InvOf, Works, WorkType, Shaped
  <2>2. Migrate!Min(proc[q].todo) \in proc[q].todo
    BY <2>1, FirstIs
  <2> QED
    BY <2>1, <2>2
<1>3. SumFunctionOnSet(open, File) = Cardinality(S)
  <2>1. \A q \in S : first[q] \in File
    BY <1>2
  <2>2. IsFiniteSet(S) /\ IsFiniteSet(File)
    BY <1>1 DEF MigrationBounds
  <2> HIDE DEF S, first, drift, both
  <2> QED
    BY <2>1, <2>2, SumFibres
<1>4. ASSUME NEW f \in File
      PROVE  /\ open[f] = Cardinality(Waiting(proc, "delete", f)) + Cardinality(Waiting(proc, "insert", f))
             /\ Cardinality(Waiting(proc, "delete", f)) \in Nat
             /\ Cardinality(Waiting(proc, "insert", f)) \in Nat
  <2> DEFINE d == Waiting(proc, "delete", f)
             i == Waiting(proc, "insert", f)
  <2>1. {q \in S : first[q] = f} = d \cup i /\ d \cap i = {}
    BY <1>1, <1>2 DEF Waiting
  <2>2. d \in SUBSET Proc /\ i \in SUBSET Proc
    BY DEF Waiting
  <2>3. IsFiniteSet(d) /\ IsFiniteSet(i)
    BY <2>2, FS_Subset DEF MigrationBounds
  <2>4. open[f] = Cardinality(d \cup i)
    BY <2>1
  <2> HIDE DEF d, i, open, S, first
  <2>5. Cardinality(d) \in Nat /\ Cardinality(i) \in Nat
    BY <2>3, FS_CardinalityType
  <2>6. Cardinality(d \cup i) = Cardinality(d) + Cardinality(i) - Cardinality(d \cap i)
    BY <2>3, FS_Union
  <2>7. Cardinality(d \cap i) = 0
    BY <2>1, FS_EmptySet
  <2>8. open[f] = Cardinality(d) + Cardinality(i)
    BY <2>4, <2>5, <2>6, <2>7
  <2> QED
    BY <2>5, <2>8 DEF d, i
<1>5. ASSUME NEW f \in File
      PROVE  /\ drift[f] \in Int /\ LedgerOf(effect, row, proc)[f] \in Int /\ open[f] \in Int
             /\ drift[f] <= LedgerOf(effect, row, proc)[f] + open[f]
  <2>1. PICK d \in Nat, i \in Nat :
          d = Cardinality(Waiting(proc, "delete", f)) /\ i = Cardinality(Waiting(proc, "insert", f))
    BY <1>4
  <2>2. open[f] = d + i
    BY <1>4, <2>1
  <2>3. PICK a \in Int, b \in Int : a = effect[f] /\ b = RowsOf(row, f)
    BY <1>0 DEF Effects, Rows, RowsOf
  <2>4. LedgerOf(effect, row, proc)[f] = Migrate!Distance(a + d, b + i)
    BY <2>1, <2>3 DEF LedgerOf
  <2>5. drift[f] = Migrate!Distance(a, b)
    BY <2>3
  <2> HIDE DEF drift, open
  <2>6. /\ Migrate!Distance(a, b) \in Int /\ Migrate!Distance(a + d, b + i) \in Int
        /\ Migrate!Distance(a, b) <= Migrate!Distance(a + d, b + i) + (d + i)
    BY DEF Migrate!Distance
  <2> QED
    BY <2>2, <2>4, <2>5, <2>6
<1>6. SumFunctionOnSet(drift, File) <= SumOf(effect, row, proc) + Cardinality(S)
  <2>1. PICK L : L = LedgerOf(effect, row, proc)
    OBVIOUS
  <2>2. \A f \in File : both[f] = L[f] + open[f]
    BY <2>1
  <2> HIDE DEF drift, open, both, S
  <2>3. \A f \in File : L[f] \in Int /\ open[f] \in Int /\ drift[f] \in Int /\ drift[f] <= L[f] + open[f]
    BY <1>5, <2>1
  <2>4. SumFunctionOnSet(both, File) = SumFunctionOnSet(L, File) + SumFunctionOnSet(open, File)
    <3>1. PICK g, h : g = open /\ h = both
      OBVIOUS
    <3>2. /\ \A f \in File : L[f] \in Int
          /\ \A f \in File : g[f] \in Int
          /\ \A f \in File : h[f] = L[f] + g[f]
      BY <2>2, <2>3, <3>1
    <3>3. SumFunctionOnSet(h, File) = SumFunctionOnSet(L, File) + SumFunctionOnSet(g, File)
      <4>1. IsFiniteSet(File)
        BY DEF MigrationBounds
      <4> QED
        BY <3>2, <4>1, SumPlus
    <3> QED
      BY <3>1, <3>3
  <2>5. \A f \in File : drift[f] \in Int /\ both[f] \in Int /\ drift[f] <= both[f]
    BY <2>2, <2>3
  <2>6. SumFunctionOnSet(drift, File) <= SumFunctionOnSet(both, File)
    BY <2>5, SumMonotone DEF MigrationBounds
  <2> QED
    BY <1>3, <2>1, <2>4, <2>6 DEF SumOf
<1>7. Migrate!Drift = SumFunctionOnSet(drift, File)
  <2>1. \A f \in File : Migrate!Rows(f) = RowsOf(row, f)
    BY DEF Migrate!Rows, Migrate!Tracked, RowsOf
  <2>2. Migrate!Drift = Migrate!SumFunction(drift)
    BY <2>1 DEF Migrate!Drift
  <2>3. drift = [f \in File |-> drift[f]]
    OBVIOUS
  <2> HIDE DEF drift
  <2>4. Migrate!SumFunction([f \in File |-> drift[f]]) = SumFunctionOnSet([f \in File |-> drift[f]], File)
    BY MigrateMeans
  <2> QED
    BY <2>2, <2>3, <2>4
<1>8. Migrate!Cardinality(Migrate!Between) = Cardinality(S)
  BY MigrateMeans
<1> HIDE DEF S, drift
<1>9. PICK x \in Int, y \in Nat, z \in Nat :
        /\ x = SumOf(effect, row, proc) /\ y = BehindOf(flavour, row, proc) /\ z = Cardinality(S)
  BY <1>0, <1>1, SumOfType, BehindType, FS_CardinalityType
<1>10. x + y <= excused
  BY <1>0, <1>9 DEF InvOf
<1>11. SumFunctionOnSet(drift, File) \in Int
  BY <1>5, SumType DEF MigrationBounds
<1>12. SumFunctionOnSet(drift, File) <= excused + z
  BY <1>0, <1>6, <1>9, <1>10, <1>11
<1> QED
  BY <1>7, <1>8, <1>9, <1>12 DEF DriftExcused, Migrate!DriftExcused

\* Scripts in effect and rows of the tracking table part only by what is not in
\* one transaction, each such event by one, however many processes migrate
\* however many files and crash.
THEOREM DriftExcusedHolds == ASSUME MigrationBounds PROVE Migrate!Spec => []DriftExcused
<1>1. Migrate!Init => MigrationInv
  BY MigrationStarts
<1>2. MigrationInv /\ [Migrate!Next]_(Migrate!migVars) => MigrationInv'
  <2> SUFFICES ASSUME MigrationInv, [Migrate!Next]_(Migrate!migVars) PROVE MigrationInv'
    OBVIOUS
  <2>1. CASE Migrate!FilesChange
    <3>1. present' \in SUBSET File
      <4>1. PICK f \in File : present' = Migrate!SymDiff(present, {f})
        BY <2>1 DEF Migrate!FilesChange
      <4> QED
        BY <4>1 DEF MigrationInv, Migrate!SymDiff
    <3>2. flavour' = flavour /\ row' = row /\ effect' = effect /\ proc' = proc /\ excused' = excused
      BY <2>1 DEF Migrate!FilesChange
    <3> QED
      BY <3>1, <3>2 DEF MigrationInv
  <2>2. ASSUME NEW p \in Proc,
               \/ Migrate!Up(p) \/ Migrate!ApplyOne(p) \/ Migrate!RunUp(p) \/ Migrate!Insert(p)
               \/ Migrate!UpEnds(p) \/ Migrate!ScriptFails(p) \/ Migrate!HalfRun(p) \/ Migrate!Down(p) \/ Migrate!Revert(p)
               \/ Migrate!RunDown(p) \/ Migrate!Delete(p) \/ Migrate!Crash(p)
        PROVE  MigrationInv'
    <3>1. /\ present' = present /\ flavour' = flavour
          /\ InvOf(flavour, row', effect', proc', excused')
      BY <2>2, ProcessSteps
    <3> QED
      BY <3>1 DEF MigrationInv
  <2>3. CASE UNCHANGED Migrate!migVars
    BY <2>3 DEF MigrationInv, Migrate!migVars
  <2> QED
    BY <2>1, <2>2, <2>3 DEF Migrate!Next
<1>3. MigrationInv => DriftExcused
  BY DriftFromInv
<1> QED
  BY <1>1, <1>2, <1>3, PTL DEF Migrate!Spec
=============================================================================
