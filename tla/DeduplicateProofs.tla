------------------------- MODULE DeduplicateProofs -------------------------
(***************************************************************************)
(* What reaches whom, and how often, for all values of the constants.      *)
(* Deduplication: one request at a time goes to the backend, and no value  *)
(* outlives its ttl. A DataLoader: a load has its own key's value. A       *)
(* container: a singleton is made once. A handler of an event bus hears an *)
(* event once per subscription; the two maps of the rooms mirror each      *)
(* other; a client of an event stream hears everything in order. The       *)
(* assumptions are hypotheses of the theorems.                             *)
(***************************************************************************)
EXTENDS RoomManager, RequestParts, SumProofs, Sequences, SequenceTheorems

InFlight == {"backend", "storing", "stored"}

DedupTypes ==
  /\ DOMAIN phase = Request
  /\ entry \in Request \cup {Dedup!None}

\* Unless an entry was removed by its timer, whoever is on its way to the
\* backend, or storing what it answered, is the entry of the key.
InFlightIsEntry ==
  overran = "no" => \A r \in Request : phase[r] \in InFlight => entry = r

DedupInv == DedupTypes /\ InFlightIsEntry

\* A request goes to the backend only while no other is in flight, and only the
\* entry's own request clears it.
LEMMA DedupStep ==
  ASSUME Dedup!None \notin Request, DedupInv, [Dedup!Next]_(Dedup!vars) PROVE DedupInv'
<1> USE DEF DedupInv, DedupTypes, InFlightIsEntry, InFlight
<1>1. CASE Dedup!Tick \/ Dedup!EntryTimeout \/ UNCHANGED Dedup!vars
  BY <1>1 DEF Dedup!Tick, Dedup!EntryTimeout, Dedup!vars, Dedup!inflightVars, Dedup!cacheVars
<1>2. ASSUME NEW r \in Request,
             Dedup!Arrive(r) \/ Dedup!Lookup(r) \/ Dedup!AnswerCached(r) \/ Dedup!Join(r)
                     \/ Dedup!Share(r) \/ Dedup!WaiterTimeout(r)
      PROVE  DedupInv'
  <2>1. /\ UNCHANGED Dedup!inflightVars
        /\ \E p \in {"asking", "missed", "found", "done", "waiting"} :
             phase' = [phase EXCEPT ![r] = p]
    BY <1>2 DEF Dedup!Arrive, Dedup!Lookup, Dedup!AnswerCached, Dedup!Join, Dedup!Share, Dedup!WaiterTimeout
  <2> QED
    BY <2>1 DEF Dedup!inflightVars
<1>3. ASSUME NEW r \in Request, Dedup!Lead(r) PROVE DedupInv'
  BY <1>3 DEF Dedup!Lead
<1>4. ASSUME NEW r \in Request, Dedup!BackendAnswers(r) \/ Dedup!Store(r) \/ Dedup!Stored(r) \/ Dedup!Fails(r)
      PROVE  DedupInv'
  <2>1. /\ phase[r] \in InFlight /\ overran' = overran
        /\ \/ /\ entry' = entry
              /\ \E p \in {"storing", "stored"} : phase' = [phase EXCEPT ![r] = p]
           \/ /\ entry' = Dedup!None
              /\ phase' = [phase EXCEPT ![r] = "done"]
    BY <1>4 DEF Dedup!BackendAnswers, Dedup!Store, Dedup!Stored, Dedup!Fails, Dedup!Settle, Dedup!inflightVars
  <2>2. overran = "no" => entry = r /\ \A q \in Request \ {r} : phase[q] \notin InFlight
    BY <2>1
  <2>3. DOMAIN phase' = Request /\ \A q \in Request \ {r} : phase'[q] = phase[q]
    BY <2>1
  <2>4. entry' = r \/ phase'[r] = "done" \/ overran # "no"
    BY <2>1, <2>2
  <2>5. DedupTypes'
    BY <2>1
  <2>6. InFlightIsEntry'
    BY <2>1, <2>2, <2>3, <2>4
  <2> QED
    BY <2>5, <2>6
<1> QED
  BY <1>1, <1>2, <1>3, <1>4 DEF Dedup!Next, Dedup!Progress

LEMMA SameCardinality == \A S : Dedup!Cardinality(S) = Cardinality(S)
BY DEF Dedup!Cardinality, Cardinality

\* Unless some request outlived maxWaitMs, at most one request is at the
\* backend for the key.
THEOREM OneAtBackendHolds ==
  ASSUME Dedup!None \notin Request PROVE Dedup!Spec => []OneAtBackend
<1>1. Dedup!Init => DedupInv
  BY DEF Dedup!Init, DedupInv, DedupTypes, InFlightIsEntry, InFlight
<1>2. DedupInv /\ [Dedup!Next]_(Dedup!vars) => DedupInv'
  BY DedupStep
<1>3. DedupInv => OneAtBackend
  <2> SUFFICES ASSUME DedupInv, overran = "no" PROVE Cardinality(Dedup!AtBackend) <= 1
    BY SameCardinality DEF OneAtBackend, Dedup!OneAtBackend
  <2>1. Dedup!AtBackend \subseteq {entry}
    BY DEF DedupInv, InFlightIsEntry, InFlight, Dedup!AtBackend
  <2>2. IsFiniteSet({entry}) /\ Cardinality({entry}) = 1
    BY FS_Singleton
  <2>3. Cardinality(Dedup!AtBackend) <= Cardinality({entry})
    BY <2>1, <2>2, FS_Subset
  <2> QED
    BY <2>2, <2>3
<1> QED
  BY <1>1, <1>2, <1>3, PTL DEF Dedup!Spec

-----------------------------------------------------------------------------
\* The age of the cached value is a number, and Absent is one that is past.
AgeInv == age \in Nat /\ DOMAIN hit = Request /\ NoneOutlived

\* With XFetch a value is answered from the cache only while it is not older
\* than ttl, however long MemoryCache keeps it.
THEOREM NoneOutlivedHolds ==
  ASSUME Ttl \in Nat, TtlScale \in Nat, XFetch \in BOOLEAN
  PROVE  Dedup!Spec => []NoneOutlived
<1> USE DEF AgeInv
<1>0. Dedup!Absent \in Nat
  BY DEF Dedup!Absent, Dedup!Lifetime
<1>1. Dedup!Init => AgeInv
  BY <1>0 DEF Dedup!Init, NoneOutlived, Dedup!NoneOutlived
<1>2. AgeInv /\ [Dedup!Next]_(Dedup!vars) => AgeInv'
  <2> SUFFICES ASSUME AgeInv, [Dedup!Next]_(Dedup!vars) PROVE AgeInv'
    OBVIOUS
  <2>1. CASE Dedup!Tick
    BY <2>1, <1>0 DEF Dedup!Tick, NoneOutlived, Dedup!NoneOutlived
  <2>2. ASSUME NEW r \in Request, Dedup!Lookup(r) PROVE AgeInv'
    <3>1. CASE age = Dedup!Absent
      BY <2>2, <3>1 DEF Dedup!Lookup, NoneOutlived, Dedup!NoneOutlived
    <3>2. CASE age # Dedup!Absent
      <4>1. PICK refresh \in Dedup!MayRefresh :
              hit' = [hit EXCEPT ![r] = IF refresh THEN "miss"
                                        ELSE IF age <= Ttl THEN "fresh" ELSE "outlived"]
        BY <2>2, <3>2 DEF Dedup!Lookup
      <4>2. XFetch => refresh \/ age <= Ttl
        <5>1. CASE age <= Ttl
          BY <5>1
        <5>2. CASE XFetch /\ age > Ttl
          <6>1. XFetch /\ age # 0 /\ age >= Ttl
            BY <5>2
          <6>2. Dedup!MayRefresh = {TRUE}
            BY <6>1, Zenon DEF Dedup!MayRefresh
          <6> QED
            BY <4>1, <6>2
        <5> QED
          BY <5>1, <5>2
      <4>3. age' = age
        BY <2>2 DEF Dedup!Lookup
      <4> QED
        BY <4>1, <4>2, <4>3 DEF NoneOutlived, Dedup!NoneOutlived
    <3> QED
      BY <3>1, <3>2
  <2>3. ASSUME NEW r \in Request, Dedup!Store(r) PROVE AgeInv'
    BY <2>3 DEF Dedup!Store, NoneOutlived, Dedup!NoneOutlived
  <2>4. CASE Dedup!EntryTimeout \/ UNCHANGED Dedup!vars
    BY <2>4 DEF Dedup!EntryTimeout, Dedup!vars, Dedup!cacheVars, NoneOutlived, Dedup!NoneOutlived
  <2>5. ASSUME NEW r \in Request,
               \/ Dedup!Arrive(r) \/ Dedup!AnswerCached(r) \/ Dedup!Join(r) \/ Dedup!Lead(r) \/ Dedup!Share(r)
               \/ Dedup!WaiterTimeout(r) \/ Dedup!BackendAnswers(r) \/ Dedup!Stored(r) \/ Dedup!Fails(r)
        PROVE  AgeInv'
    <3>1. UNCHANGED <<hit, age>>
      BY <2>5 DEF Dedup!Arrive, Dedup!AnswerCached, Dedup!Join, Dedup!Lead, Dedup!Share, Dedup!WaiterTimeout, Dedup!BackendAnswers,
                  Dedup!Stored, Dedup!Fails, Dedup!cacheVars
    <3> QED
      BY <3>1 DEF NoneOutlived, Dedup!NoneOutlived
  <2> QED
    BY <2>1, <2>2, <2>3, <2>4, <2>5 DEF Dedup!Next, Dedup!Progress
<1> QED
  BY <1>1, <1>2, PTL DEF Dedup!Spec

-----------------------------------------------------------------------------
(* The DataLoader. *)

LoadRecord == [key : Key, value : Key \cup {"pending", "error"}]
BatchRecord == [entries : Seq(Nat), keys : Seq(Key), at : {"gathering", "fetching", "done"}]

LoaderTypes ==
  /\ loads \in Seq(LoadRecord)
  /\ batches \in Seq(BatchRecord)

\* this.batch is still gathering, and what a batch gathers are loads.
Gathers ==
  /\ batch # Loader!None => batch \in DOMAIN batches /\ batches[batch].at = "gathering"
  /\ \A b \in DOMAIN batches, i \in Nat :
       i \in DOMAIN batches[b].entries => batches[b].entries[i] \in DOMAIN loads

\* A batch on its way was fetched with the keys of all its entries, in order:
\* none joins it after it left.
KeysInOrder ==
  \A b \in DOMAIN batches :
    batches[b].at # "gathering" =>
      /\ DOMAIN batches[b].keys = DOMAIN batches[b].entries
      /\ \A i \in DOMAIN batches[b].entries :
           batches[b].keys[i] = loads[batches[b].entries[i]].key

LoaderInv == LoaderTypes /\ Gathers /\ KeysInOrder /\ OwnValue

\* Loads that keep their keys keep what is known of batches that stay.
LEMMA LoaderStill ==
  ASSUME LoaderInv, UNCHANGED <<batches, batch, loads>> PROVE LoaderInv'
BY DEF LoaderInv, LoaderTypes, Gathers, KeysInOrder, OwnValue, Loader!OwnValue

LEMMA LoaderLoads ==
  ASSUME LoaderInv, NEW k \in Key, Loader!Load(k) PROVE LoaderInv'
<1> DEFINE l == Len(loads) + 1
<1>1. /\ loads' = Append(loads, [key |-> k, value |-> "pending"])
      /\ l \in Nat /\ DOMAIN loads' = 1..l /\ DOMAIN loads = 1..Len(loads)
      /\ loads' \in Seq(LoadRecord)
      /\ \A m \in DOMAIN loads : loads'[m] = loads[m]
      /\ loads'[l] = [key |-> k, value |-> "pending"]
  BY DEF Loader!Load, LoaderInv, LoaderTypes, LoadRecord
<1>2. OwnValue'
  BY <1>1 DEF LoaderInv, OwnValue, Loader!OwnValue
<1>3. Loader!Enqueue(l)
  BY DEF Loader!Load
<1> HIDE DEF l
<1>4. CASE batch = Loader!None \/ Len(batches[batch].entries) + 1 > MaxBatch
  <2> DEFINE new == [entries |-> <<l>>, keys |-> <<>>, at |-> "gathering"]
  <2>1. /\ batches' = Append(batches, new)
        /\ batch' = Len(batches)'
    BY <1>3, <1>4 DEF Loader!Enqueue
  <2>2. new \in BatchRecord
    BY <1>1 DEF BatchRecord
  <2>3. new.entries = <<l>> /\ new.at = "gathering"
    OBVIOUS
  <2> HIDE DEF new
  <2>4. /\ batches' \in Seq(BatchRecord) /\ batch' \in DOMAIN batches'
        /\ batches'[batch'] = new
        /\ \A b \in DOMAIN batches' : b # batch' => b \in DOMAIN batches /\ batches'[b] = batches[b]
    BY <2>1, <2>2 DEF LoaderInv, LoaderTypes
  <2>5. Gathers'
    <3>1. DOMAIN loads' = DOMAIN loads \cup {l} /\ <<l>>[1] = l /\ DOMAIN <<l>> = {1}
      BY <1>1
    <3>2. ASSUME NEW b \in DOMAIN batches', NEW i \in Nat, i \in DOMAIN batches'[b].entries
          PROVE  batches'[b].entries[i] \in DOMAIN loads'
      <4>1. CASE b = batch'
        BY <2>3, <2>4, <3>1, <3>2, <4>1
      <4>2. CASE b # batch'
        BY <2>4, <3>1, <3>2, <4>2 DEF LoaderInv, Gathers
      <4> QED
        BY <4>1, <4>2
    <3> QED
      BY <2>3, <2>4, <3>2 DEF Gathers
  <2>6. KeysInOrder'
    <3> SUFFICES ASSUME NEW b \in DOMAIN batches', batches'[b].at # "gathering"
                 PROVE  /\ DOMAIN batches'[b].keys = DOMAIN batches'[b].entries
                        /\ \A i \in DOMAIN batches'[b].entries :
                             batches'[b].keys[i] = loads'[batches'[b].entries[i]].key
      BY DEF KeysInOrder
    <3>1. b \in DOMAIN batches /\ batches'[b] = batches[b]
      BY <2>3, <2>4
    <3>2. batches[b] \in BatchRecord
      BY <3>1 DEF LoaderInv, LoaderTypes
    <3>3. \A i \in DOMAIN batches[b].entries : i \in Nat /\ batches[b].entries[i] \in DOMAIN loads
      BY <3>1, <3>2 DEF LoaderInv, Gathers, BatchRecord
    <3> QED
      BY <1>1, <3>1, <3>3 DEF LoaderInv, KeysInOrder
  <2> QED
    BY <1>1, <1>2, <2>4, <2>5, <2>6 DEF LoaderInv, LoaderTypes
<1>5. CASE ~(batch = Loader!None \/ Len(batches[batch].entries) + 1 > MaxBatch)
  <2>1. /\ batches' = [batches EXCEPT ![batch].entries = Append(@, l)]
        /\ batch' = batch /\ batch # Loader!None
    BY <1>3, <1>5 DEF Loader!Enqueue
  <2>2. batch \in DOMAIN batches /\ batches[batch].at = "gathering" /\ batches[batch] \in BatchRecord
    BY <2>1 DEF LoaderInv, LoaderTypes, Gathers
  <2> DEFINE new == [batches[batch] EXCEPT !.entries = Append(batches[batch].entries, l)]
  <2>3. /\ new \in BatchRecord /\ new.at = "gathering"
        /\ new.entries = Append(batches[batch].entries, l)
    <3> DEFINE entries == Append(batches[batch].entries, l)
    <3>1. entries \in Seq(Nat)
      BY <2>2, <1>1 DEF BatchRecord
    <3> HIDE DEF entries
    <3>2. [batches[batch] EXCEPT !.entries = entries] \in BatchRecord
      BY <2>2, <3>1 DEF BatchRecord
    <3>3. /\ [batches[batch] EXCEPT !.entries = entries].at = "gathering"
          /\ [batches[batch] EXCEPT !.entries = entries].entries = entries
      BY <2>2 DEF BatchRecord
    <3> QED
      BY <3>2, <3>3 DEF entries
  <2>4. batches' = [batches EXCEPT ![batch] = new]
    BY <2>1
  <2> HIDE DEF new
  <2>5. /\ batches' \in Seq(BatchRecord) /\ DOMAIN batches' = DOMAIN batches
        /\ batches'[batch] = new
        /\ \A b \in DOMAIN batches : b # batch => batches'[b] = batches[b]
    BY <2>2, <2>3, <2>4 DEF LoaderInv, LoaderTypes
  <2>6. \A i \in Nat : i \in DOMAIN new.entries => new.entries[i] \in DOMAIN loads'
    <3>1. batches[batch].entries \in Seq(Nat)
      BY <2>2 DEF BatchRecord
    <3>2. \A i \in Nat : i \in DOMAIN batches[batch].entries
                          => batches[batch].entries[i] \in DOMAIN loads
      BY <2>2 DEF LoaderInv, Gathers
    <3> QED
      BY <1>1, <2>3, <3>1, <3>2, SMTT(30)
  <2>7. Gathers'
    BY <1>1, <2>1, <2>3, <2>5, <2>6 DEF LoaderInv, Gathers
  <2>8. KeysInOrder'
    <3> SUFFICES ASSUME NEW b \in DOMAIN batches', batches'[b].at # "gathering"
                 PROVE  /\ DOMAIN batches'[b].keys = DOMAIN batches'[b].entries
                        /\ \A i \in DOMAIN batches'[b].entries :
                             batches'[b].keys[i] = loads'[batches'[b].entries[i]].key
      BY DEF KeysInOrder
    <3>1. b \in DOMAIN batches /\ batches'[b] = batches[b]
      BY <2>3, <2>5
    <3>2. batches[b] \in BatchRecord
      BY <3>1 DEF LoaderInv, LoaderTypes
    <3>3. \A i \in DOMAIN batches[b].entries : i \in Nat /\ batches[b].entries[i] \in DOMAIN loads
      BY <3>1, <3>2 DEF LoaderInv, Gathers, BatchRecord
    <3> QED
      BY <1>1, <3>1, <3>3 DEF LoaderInv, KeysInOrder
  <2> QED
    BY <1>1, <1>2, <2>5, <2>7, <2>8 DEF LoaderInv, LoaderTypes
<1> QED
  BY <1>4, <1>5

LEMMA LoaderDispatches == ASSUME LoaderInv, Loader!Dispatch PROVE LoaderInv'
<1>1. CASE batch = Loader!None
  <2>1. UNCHANGED <<batches, batch, loads>>
    BY <1>1 DEF Loader!Dispatch
  <2> QED
    BY <2>1, LoaderStill
<1>2. CASE batch # Loader!None
  <2> DEFINE keys == [i \in DOMAIN batches[batch].entries |-> loads[batches[batch].entries[i]].key]
             new == [[batches[batch] EXCEPT !.at = "fetching"] EXCEPT !.keys = keys]
  <2>1. batch \in DOMAIN batches /\ batches[batch] \in BatchRecord
    BY <1>2 DEF LoaderInv, LoaderTypes, Gathers
  <2>2. batches' = [batches EXCEPT ![batch] = new] /\ batch' = Loader!None /\ loads' = loads
    BY <1>2, <2>1 DEF Loader!Dispatch
  <2>3. \A i \in DOMAIN batches[batch].entries :
          i \in Nat /\ batches[batch].entries[i] \in DOMAIN loads
    BY <2>1 DEF LoaderInv, Gathers, BatchRecord
  <2>4. \A m \in DOMAIN loads : loads[m].key \in Key
    <3>1. \A m \in DOMAIN loads : loads[m] \in LoadRecord
      BY DEF LoaderInv, LoaderTypes
    <3> QED
      BY <3>1 DEF LoadRecord
  <2>5. keys \in Seq(Key) /\ DOMAIN keys = DOMAIN batches[batch].entries
    <3> DEFINE n == Len(batches[batch].entries)
    <3>1. n \in Nat /\ DOMAIN batches[batch].entries = 1..n
      BY <2>1 DEF BatchRecord
    <3>2. keys \in [1..n -> Key]
      BY <2>3, <2>4, <3>1
    <3> QED
      BY <3>1, <3>2
  <2>6. \A i \in DOMAIN keys : keys[i] = loads[batches[batch].entries[i]].key
    OBVIOUS
  <2> HIDE DEF keys
  <2>7. /\ new \in BatchRecord /\ new.entries = batches[batch].entries /\ new.keys = keys
        /\ new.at = "fetching"
    BY <2>1, <2>5 DEF BatchRecord
  <2> HIDE DEF new
  <2>8. /\ batches' \in Seq(BatchRecord) /\ DOMAIN batches' = DOMAIN batches
        /\ batches'[batch] = new
        /\ \A b \in DOMAIN batches : b # batch => batches'[b] = batches[b]
    BY <2>1, <2>2, <2>7 DEF LoaderInv, LoaderTypes
  <2>9. Gathers'
    BY <2>1, <2>2, <2>7, <2>8 DEF LoaderInv, Gathers
  <2>10. KeysInOrder'
    BY <2>2, <2>5, <2>6, <2>7, <2>8 DEF LoaderInv, KeysInOrder
  <2>11. OwnValue'
    BY <2>2 DEF LoaderInv, OwnValue, Loader!OwnValue
  <2> QED
    BY <2>2, <2>8, <2>9, <2>10, <2>11 DEF LoaderInv, LoaderTypes
<1> QED
  BY <1>1, <1>2

\* A batch that settles its entries, each with an error or the value of the key
\* it was fetched with.
LEMMA LoaderSettles ==
  ASSUME LoaderInv, NEW b \in DOMAIN batches, batches[b].at = "fetching",
         NEW values, DOMAIN values = DOMAIN batches[b].entries,
         \A i \in DOMAIN values : values[i] \in {"error", batches[b].keys[i]},
         Loader!Settled(b, values)
  PROVE  LoaderInv'
<1> DEFINE mine(l) == {i \in DOMAIN values : batches[b].entries[i] = l}
           pick(l) == CHOOSE i \in mine(l) : TRUE
           value(l) == values[pick(l)]
<1>1. /\ batches' = [batches EXCEPT ![b].at = "done"] /\ batch' = batch
      /\ loads' = [l \in DOMAIN loads |-> IF mine(l) = {} THEN loads[l]
                                         ELSE [loads[l] EXCEPT !.value = value(l)]]
  BY DEF Loader!Settled
<1>2. batches[b] \in BatchRecord
  BY DEF LoaderInv, LoaderTypes
<1>3. \A l \in DOMAIN loads : mine(l) # {} => value(l) \in {"error", loads[l].key}
  <2> SUFFICES ASSUME NEW l \in DOMAIN loads, mine(l) # {}
               PROVE  value(l) \in {"error", loads[l].key}
    OBVIOUS
  <2>1. pick(l) \in DOMAIN values /\ batches[b].entries[pick(l)] = l
    <3>1. pick(l) \in mine(l)
      OBVIOUS
    <3> QED
      BY <3>1
  <2> HIDE DEF pick
  <2>2. batches[b].keys[pick(l)] = loads[l].key
    BY <2>1 DEF LoaderInv, KeysInOrder
  <2> QED
    BY <2>1, <2>2
<1> HIDE DEF mine, value
<1>4. \A l \in DOMAIN loads :
        /\ loads'[l] \in LoadRecord /\ loads'[l].key = loads[l].key
        /\ loads'[l].value \in {"pending", "error", loads[l].key}
  <2> SUFFICES ASSUME NEW l \in DOMAIN loads
               PROVE  /\ loads'[l] \in LoadRecord /\ loads'[l].key = loads[l].key
                      /\ loads'[l].value \in {"pending", "error", loads[l].key}
    OBVIOUS
  <2>1. loads[l] \in LoadRecord /\ loads[l].value \in {"pending", "error", loads[l].key}
    BY DEF LoaderInv, LoaderTypes, OwnValue, Loader!OwnValue
  <2>2. CASE mine(l) = {}
    BY <1>1, <2>1, <2>2
  <2>3. CASE mine(l) # {}
    <3>1. loads'[l] = [loads[l] EXCEPT !.value = value(l)]
      BY <1>1, <2>3
    <3> QED
      BY <1>3, <2>1, <2>3, <3>1 DEF LoadRecord
  <2> QED
    BY <2>2, <2>3
<1>5. DOMAIN loads' = DOMAIN loads /\ loads' \in Seq(LoadRecord)
  <2>1. DOMAIN loads' = DOMAIN loads
    BY <1>1
  <2>2. Len(loads) \in Nat /\ DOMAIN loads = 1..Len(loads)
    BY DEF LoaderInv, LoaderTypes
  <2>3. loads' \in [1..Len(loads) -> LoadRecord]
    BY <1>1, <1>4, <2>2
  <2> QED
    BY <2>1, <2>2, <2>3
<1> DEFINE new == [batches[b] EXCEPT !.at = "done"]
<1>6. /\ new \in BatchRecord /\ new.at = "done"
      /\ new.entries = batches[b].entries /\ new.keys = batches[b].keys
  BY <1>2 DEF BatchRecord
<1>7. batches' = [batches EXCEPT ![b] = new]
  BY <1>1
<1> HIDE DEF new
<1>8. /\ batches' \in Seq(BatchRecord) /\ DOMAIN batches' = DOMAIN batches
      /\ \A c \in DOMAIN batches :
           /\ batches'[c].entries = batches[c].entries /\ batches'[c].keys = batches[c].keys
           /\ c # b => batches'[c].at = batches[c].at
  BY <1>6, <1>7 DEF LoaderInv, LoaderTypes
<1>9. Gathers'
  <2>1. batch # b
    BY DEF LoaderInv, LoaderTypes, Gathers, Loader!None
  <2> QED
    BY <1>1, <1>5, <1>8, <2>1 DEF LoaderInv, Gathers
<1>10. KeysInOrder'
  <2> SUFFICES ASSUME NEW c \in DOMAIN batches, batches'[c].at # "gathering"
               PROVE  /\ DOMAIN batches'[c].keys = DOMAIN batches'[c].entries
                      /\ \A i \in DOMAIN batches'[c].entries :
                           batches'[c].keys[i] = loads'[batches'[c].entries[i]].key
    BY <1>8 DEF KeysInOrder
  <2>1. batches[c].at # "gathering" /\ batches[c] \in BatchRecord
    BY <1>8 DEF LoaderInv, LoaderTypes
  <2>2. \A i \in DOMAIN batches[c].entries : batches[c].entries[i] \in DOMAIN loads
    BY <2>1 DEF LoaderInv, Gathers, BatchRecord
  <2>3. /\ DOMAIN batches[c].keys = DOMAIN batches[c].entries
        /\ \A i \in DOMAIN batches[c].entries :
             batches[c].keys[i] = loads[batches[c].entries[i]].key
    BY <2>1 DEF LoaderInv, KeysInOrder
  <2>4. batches'[c].entries = batches[c].entries /\ batches'[c].keys = batches[c].keys
    BY <1>8
  <2>5. \A i \in DOMAIN batches[c].entries :
          loads'[batches[c].entries[i]].key = loads[batches[c].entries[i]].key
    BY <1>4, <2>2
  <2> QED
    BY <2>3, <2>4, <2>5
<1>11. OwnValue'
  BY <1>4, <1>5 DEF OwnValue, Loader!OwnValue
<1> QED
  BY <1>5, <1>8, <1>9, <1>10, <1>11 DEF LoaderInv, LoaderTypes

LEMMA LoaderStep == LoaderInv /\ [Loader!Next]_Loader!vars => LoaderInv'
<1> SUFFICES ASSUME LoaderInv, [Loader!Next]_Loader!vars PROVE LoaderInv'
  OBVIOUS
<1>1. CASE Loader!ClearAll \/ (\E k \in Key : Loader!Clear(k) \/ Loader!Prime(k)) \/ UNCHANGED Loader!vars
  <2>1. UNCHANGED <<batches, batch, loads>>
    BY <1>1 DEF Loader!ClearAll, Loader!Clear, Loader!Prime, Loader!vars
  <2> QED
    BY <2>1, LoaderStill
<1>2. ASSUME NEW k \in Key, Loader!Load(k) PROVE LoaderInv'
  BY <1>2, LoaderLoads
<1>3. CASE Loader!Dispatch
  BY <1>3, LoaderDispatches
<1>4. ASSUME NEW b \in DOMAIN batches, Loader!Refuse(b) PROVE LoaderInv'
  <2> DEFINE values == [i \in DOMAIN batches[b].entries |-> "error"]
  <2>1. batches[b].at = "fetching" /\ Loader!Settled(b, values)
    BY <1>4 DEF Loader!Refuse
  <2>2. DOMAIN values = DOMAIN batches[b].entries /\ \A i \in DOMAIN values : values[i] = "error"
    OBVIOUS
  <2> HIDE DEF values
  <2> QED
    BY <2>1, <2>2, LoaderSettles
<1>5. ASSUME NEW b \in DOMAIN batches, NEW F \in SUBSET Key, Loader!Answer(b, F) PROVE LoaderInv'
  <2> DEFINE values == [i \in DOMAIN batches[b].entries |->
                          IF i \notin DOMAIN batches[b].keys THEN "undefined"
                          ELSE IF batches[b].keys[i] \in F THEN "error" ELSE batches[b].keys[i]]
  <2>1. batches[b].at = "fetching" /\ Loader!Settled(b, values)
    BY <1>5 DEF Loader!Answer
  <2>2. DOMAIN batches[b].keys = DOMAIN batches[b].entries
    BY <2>1 DEF LoaderInv, KeysInOrder
  <2>3. /\ DOMAIN values = DOMAIN batches[b].entries
        /\ \A i \in DOMAIN values : values[i] \in {"error", batches[b].keys[i]}
    BY <2>2
  <2> HIDE DEF values
  <2> QED
    BY <2>1, <2>3, LoaderSettles
<1> QED
  BY <1>1, <1>2, <1>3, <1>4, <1>5 DEF Loader!Next, Loader!Progress

\* Whatever loads share a batch, come while it is fetched or fail in it, a load
\* that resolved has the value of its own key.
THEOREM OwnValueHolds == Loader!Spec => []OwnValue
<1>1. Loader!Init => LoaderInv
  BY DEF Loader!Init, LoaderInv, LoaderTypes, Gathers, KeysInOrder, OwnValue, Loader!OwnValue
<1>2. LoaderInv => OwnValue
  BY DEF LoaderInv
<1> QED
  BY <1>1, <1>2, LoaderStep, PTL DEF Loader!Spec

-----------------------------------------------------------------------------
(***************************************************************************)
(* The container.  A second call for one registration of a singleton can   *)
(* only begin while the first has not returned its promise, and then the   *)
(* calls on the stack ask for each other round and round, each for the     *)
(* first thing it needs, until the stack overflows and all of them fail.   *)
(***************************************************************************)
ContainerAssumption ==
  /\ Configs \subseteq [Token -> [scope : {"singleton", "transient"}, inject : Seq(Token),
                                  gives : {"value", "object", "undefined"}]]
  /\ MaxDepth \in Nat

CallRecord ==
  [token : Token, version : Nat, next : Nat \ {0}, on : Nat,
   at : {"running", "waiting", "making", "made", "failed"}]

ContainerTypes ==
  /\ config \in Configs /\ version \in [Token -> Nat]
  /\ instance \in [Token -> Nat] /\ promise \in [Token -> 0..Len(call)]
  /\ call \in Seq(CallRecord) /\ stack \in Seq(DOMAIN call)
  /\ \A i \in DOMAIN call : call[i].on \in 0..Len(call) /\ call[i].version <= version[call[i].token]

\* What the n-th call on the stack is for.
On(n) == call[stack[n]].token

\* Each call on the stack runs for what the one below it needs next, which was
\* registered and neither at hand nor promised.
StackSound ==
  /\ \A m, n \in DOMAIN stack : stack[m] = stack[n] => m = n
  /\ \A n \in DOMAIN stack :
       /\ call[stack[n]].at = IF n = Len(stack) THEN "running" ELSE "waiting"
       /\ n > 1 => /\ call[stack[n]].next = 1
                   /\ call[stack[n - 1]].next \in DOMAIN Providers!Deps(stack[n - 1])
                   /\ On(n) = Providers!Deps(stack[n - 1])[call[stack[n - 1]].next]
       /\ n \in Providers!Started =>
            /\ version[On(n)] # 0 /\ call[stack[n]].version = version[On(n)]
            /\ ~ Providers!Ready(On(n)) /\ ~ Providers!Joins(On(n))

Kept(t) == Providers!Singleton(t) /\ config[t].gives # "undefined"

\* A registration for which there was a call is at hand or promised, or a call
\* for it has not returned yet.
Asked ==
  \A i \in DOMAIN call :
    LET t == call[i].token IN
    Kept(t) /\ call[i].version = version[t] =>
      promise[t] # 0 \/ instance[t] # 0 \/ \E n \in Providers!Started : On(n) = t

\* Once something comes twice on the stack, so does what comes after it.
Round ==
  (\E m, n \in Providers!Started : m < n /\ On(m) = On(n))
    => \E m \in Providers!Started : m < Len(stack) /\ On(m) = On(Len(stack))

Twice(i, j) ==
  /\ i < j /\ call[j].token = call[i].token /\ call[j].version = call[i].version
  /\ Kept(call[i].token)

TwiceFails ==
  \A i, j \in DOMAIN call :
    Twice(i, j) =>
      /\ Providers!Cyclic
      /\ \/ call[i].at = "failed" /\ call[j].at = "failed"
         \/ \E m, n \in Providers!Started : m < n /\ stack[m] = i /\ stack[n] = j

ContainerInv == ContainerTypes /\ StackSound /\ Asked /\ Round /\ TwiceFails

LEMMA Least ==
  ASSUME NEW S \in SUBSET Nat, S # {}
  PROVE  \E n \in S : \A m \in S : n <= m
<1> DEFINE less == OpToRel(<, Nat)
<1>1. IsWellFoundedOn(less, Nat)
  BY NatLessThanWellFounded
<1>2. \A m, n \in Nat : m < n => <<m, n>> \in less
  BY DEF OpToRel
<1> HIDE DEF less
<1>3. PICK n \in S : \A m \in S : ~ (<<m, n>> \in less)
  BY <1>1, WFMin
<1>4. ASSUME NEW m \in S PROVE n <= m
  <2>1. m \in Nat /\ n \in Nat /\ ~ (<<m, n>> \in less)
    BY <1>3
  <2>2. ~ (m < n)
    BY <1>2, <2>1, Zenon
  <2> QED
    BY <2>1, <2>2
<1> QED
  BY <1>4

LEMMA ConfigTypes ==
  ASSUME ContainerAssumption, ContainerTypes
  PROVE  /\ config \in [Token -> [scope : {"singleton", "transient"}, inject : Seq(Token),
                                  gives : {"value", "object", "undefined"}]]
         /\ \A i \in DOMAIN call : call[i].token \in Token /\ call[i].next \in Nat \ {0}
         /\ \A i \in DOMAIN call : Providers!Deps(i) \in Seq(Token)
         /\ Len(call) \in Nat /\ DOMAIN call = 1..Len(call)
         /\ Len(stack) \in Nat /\ DOMAIN stack = 1..Len(stack)
         /\ \A n \in DOMAIN stack : stack[n] \in DOMAIN call /\ On(n) \in Token
<1>1. config \in [Token -> [scope : {"singleton", "transient"}, inject : Seq(Token),
                            gives : {"value", "object", "undefined"}]]
  BY DEF ContainerAssumption, ContainerTypes
<1>2. Len(call) \in Nat /\ DOMAIN call = 1..Len(call)
  BY DEF ContainerTypes
<1>3. Len(stack) \in Nat /\ DOMAIN stack = 1..Len(stack)
  BY DEF ContainerTypes
<1>4. \A i \in DOMAIN call : call[i].token \in Token /\ call[i].next \in Nat \ {0}
  <2>1. \A i \in DOMAIN call : call[i] \in CallRecord
    BY DEF ContainerTypes
  <2> QED
    BY <2>1 DEF CallRecord
<1>5. \A n \in DOMAIN stack : stack[n] \in DOMAIN call
  BY DEF ContainerTypes
<1>6. \A n \in DOMAIN stack : On(n) \in Token
  BY <1>4, <1>5 DEF On
<1>7. \A i \in DOMAIN call : Providers!Deps(i) \in Seq(Token)
  BY <1>1, <1>4 DEF Providers!Deps
<1> QED
  BY <1>1, <1>2, <1>3, <1>4, <1>5, <1>6, <1>7

\* resolve() stores a promise of every call that began, and takes none away.
LEMMA PromisesStore ==
  ASSUME ContainerAssumption, ContainerTypes, promise' = Providers!Promises
  PROVE  /\ promise' \in [Token -> 0..Len(call)]
         /\ \A t \in Token : promise[t] # 0 => promise'[t] # 0
         /\ \A n \in Providers!Started : Providers!Singleton(On(n)) => promise'[On(n)] # 0
<1> DEFINE mine(t) == {n \in Providers!Started : call[stack[n]].token = t}
<1>1. \A t \in Token :
        promise'[t] = IF mine(t) = {} \/ ~ Providers!Singleton(t) THEN promise[t]
                      ELSE stack[CHOOSE n \in mine(t) : \A m \in mine(t) : n <= m]
  BY DEF Providers!Promises
<1>2. DOMAIN promise' = Token /\ promise' = [t \in Token |-> promise'[t]]
  BY DEF Providers!Promises
<1>3. /\ Providers!Started \subseteq DOMAIN stack /\ DOMAIN stack \subseteq Nat
      /\ \A n \in DOMAIN stack : stack[n] \in DOMAIN call
  BY ConfigTypes DEF Providers!Started
<1>4. \A t : mine(t) # {} => (CHOOSE n \in mine(t) : \A m \in mine(t) : n <= m) \in DOMAIN stack
  <2> SUFFICES ASSUME NEW t, mine(t) # {}
               PROVE  (CHOOSE n \in mine(t) : \A m \in mine(t) : n <= m) \in DOMAIN stack
    OBVIOUS
  <2>1. mine(t) \in SUBSET Nat /\ mine(t) \subseteq DOMAIN stack
    BY <1>3
  <2> HIDE DEF mine
  <2>2. \E n \in mine(t) : \A m \in mine(t) : n <= m
    BY <2>1, Least
  <2> QED
    BY <2>1, <2>2
<1>5. \A n \in Providers!Started : n \in mine(On(n))
  BY DEF On
<1> HIDE DEF mine
<1>6. DOMAIN call = 1..Len(call) /\ Len(call) \in Nat
  BY ConfigTypes
<1>7. ASSUME NEW t \in Token
      PROVE  /\ promise'[t] \in 0..Len(call)
             /\ promise[t] # 0 => promise'[t] # 0
             /\ mine(t) # {} /\ Providers!Singleton(t) => promise'[t] # 0
  <2>1. CASE mine(t) = {} \/ ~ Providers!Singleton(t)
    BY <1>1, <2>1 DEF ContainerTypes
  <2>2. CASE mine(t) # {} /\ Providers!Singleton(t)
    <3>1. PICK n \in DOMAIN stack : promise'[t] = stack[n]
      BY <1>1, <1>4, <2>2
    <3> QED
      BY <1>3, <1>6, <3>1
  <2> QED
    BY <2>1, <2>2
<1>8. \A n \in Providers!Started : On(n) \in Token
  BY <1>3, ConfigTypes
<1>9. promise' \in [Token -> 0..Len(call)]
  BY <1>2, <1>7
<1>10. \A n \in Providers!Started : Providers!Singleton(On(n)) => promise'[On(n)] # 0
  BY <1>5, <1>7, <1>8
<1> QED
  BY <1>7, <1>9, <1>10

\* Of what is asked for twice, either both calls failed or both are on the stack;
\* and there, what comes next was asked for already.
LEMMA RoundGoesOn ==
  ASSUME ContainerAssumption, ContainerTypes, StackSound,
         NEW m \in Providers!Started, m < Len(stack), On(m) = On(Len(stack))
  PROVE  /\ call[Providers!Top].next \in DOMAIN Providers!Deps(Providers!Top)
         /\ m + 1 \in Providers!Started
         /\ Providers!Deps(Providers!Top)[call[Providers!Top].next] = On(m + 1)
<1>1. /\ Len(stack) \in Nat /\ DOMAIN stack = 1..Len(stack) /\ m \in DOMAIN stack
      /\ Providers!Top = stack[Len(stack)]
  BY ConfigTypes DEF Providers!Started, Providers!Top, Providers!Last
<1>2. m \in 1..Len(stack) /\ m + 1 \in DOMAIN stack /\ m + 1 > 1 /\ (m + 1) - 1 = m
      /\ Len(stack) \in DOMAIN stack /\ Len(stack) > 1
  BY <1>1
<1>3. call[stack[Len(stack)]].next = 1
  BY <1>2 DEF StackSound
<1>4. call[stack[m]].next = 1
  <2>1. CASE m = 1
    BY <2>1 DEF Providers!Started
  <2>2. CASE m > 1
    BY <1>1, <2>2 DEF StackSound
  <2> QED
    BY <1>2, <2>1, <2>2
<1>5. /\ call[stack[m]].next \in DOMAIN Providers!Deps(stack[m])
      /\ On(m + 1) = Providers!Deps(stack[m])[call[stack[m]].next]
  BY <1>2 DEF StackSound
<1>6. Providers!Deps(stack[m]) = Providers!Deps(stack[Len(stack)])
  BY DEF On, Providers!Deps
<1>7. m + 1 \in Providers!Started
  BY <1>2 DEF Providers!Started
<1> QED
  BY <1>1, <1>3, <1>4, <1>5, <1>6, <1>7

\* What runs asks again for something that runs: each call between the two injects
\* the next, so the configuration has a cycle.
LEMMA RoundIsCyclic ==
  ASSUME ContainerAssumption, ContainerTypes, StackSound,
         NEW n \in Providers!Started,
         call[Providers!Top].next \in DOMAIN Providers!Deps(Providers!Top),
         Providers!Deps(Providers!Top)[call[Providers!Top].next] = On(n)
  PROVE  Providers!Cyclic
<1> DEFINE S == {On(x) : x \in n..Len(stack)}
<1>1. /\ Len(stack) \in Nat /\ DOMAIN stack = 1..Len(stack) /\ n \in DOMAIN stack
      /\ Providers!Top = stack[Len(stack)]
  BY ConfigTypes DEF Providers!Started, Providers!Top, Providers!Last
<1>2. \A x \in n..Len(stack) : x \in DOMAIN stack /\ x \in Providers!Started
  BY <1>1 DEF Providers!Started
<1>3. S \in (SUBSET Token) \ {{}}
  <2>1. \A x \in n..Len(stack) : On(x) \in Token
    BY <1>2, ConfigTypes
  <2>2. On(n) \in S
    BY <1>1
  <2>3. S \subseteq Token /\ S # {}
    BY <2>1, <2>2
  <2> HIDE DEF S
  <2> QED
    BY <2>3
<1>4. ASSUME NEW x \in n..Len(stack)
      PROVE  config[On(x)].gives # "value" /\ Providers!ToSet(config[On(x)].inject) \cap S # {}
  <2>1. config[On(x)].gives # "value"
    BY <1>2 DEF StackSound, Providers!Ready
  <2>2. Providers!Deps(stack[x]) = config[On(x)].inject
    BY DEF Providers!Deps, On
  <2>3. \E y \in n..Len(stack), i \in DOMAIN Providers!Deps(stack[x]) :
          Providers!Deps(stack[x])[i] = On(y)
    <3>1. CASE x = Len(stack)
      BY <1>1, <3>1
    <3>2. CASE x < Len(stack)
      <4>1. x + 1 \in DOMAIN stack /\ x + 1 > 1 /\ (x + 1) - 1 = x /\ x + 1 \in n..Len(stack)
        BY <1>1, <3>2
      <4>2. /\ call[stack[x]].next \in DOMAIN Providers!Deps(stack[x])
            /\ On(x + 1) = Providers!Deps(stack[x])[call[stack[x]].next]
        BY <4>1 DEF StackSound
      <4> QED
        BY <4>1, <4>2
    <3>3. x = Len(stack) \/ x < Len(stack)
      BY <1>1
    <3> QED
      BY <3>1, <3>2, <3>3, Zenon
  <2>4. PICK y \in n..Len(stack), i \in DOMAIN config[On(x)].inject : config[On(x)].inject[i] = On(y)
    BY <2>2, <2>3
  <2>5. On(y) \in Providers!ToSet(config[On(x)].inject) /\ On(y) \in S
    BY <2>4 DEF Providers!ToSet
  <2> QED
    BY <2>1, <2>5
<1>5. \A t \in S : config[t].gives # "value" /\ Providers!ToSet(config[t].inject) \cap S # {}
  BY <1>4
<1> HIDE DEF S
<1> QED
  BY <1>3, <1>5 DEF Providers!Cyclic

\* A step that ends what runs: the calls return to the event loop, each promise
\* is stored, and of what was asked for twice both calls failed.
LEMMA StackEmpties ==
  ASSUME ContainerAssumption, ContainerInv, stack' = <<>>, promise' = Providers!Promises,
         UNCHANGED <<config, version, instance>>,
         call' \in Seq(CallRecord), Len(call') = Len(call),
         \A i \in DOMAIN call : /\ call'[i].token = call[i].token
                                /\ call'[i].version = call[i].version
                                /\ call'[i].on \in 0..Len(call),
         \A i, j \in DOMAIN call : Twice(i, j) => call'[i].at = "failed" /\ call'[j].at = "failed"
  PROVE  ContainerInv'
<1>1. /\ ContainerTypes /\ StackSound /\ Asked /\ TwiceFails
      /\ DOMAIN call = 1..Len(call) /\ DOMAIN call' = DOMAIN call
  BY ConfigTypes DEF ContainerInv
<1>2. /\ promise' \in [Token -> 0..Len(call)]
      /\ \A t \in Token : promise[t] # 0 => promise'[t] # 0
      /\ \A n \in Providers!Started : Providers!Singleton(On(n)) => promise'[On(n)] # 0
  BY <1>1, PromisesStore
<1>3. DOMAIN stack' = {} /\ stack' \in Seq(DOMAIN call')
  OBVIOUS
<1>4. ContainerTypes'
  BY <1>1, <1>2, <1>3 DEF ContainerTypes
<1>5. StackSound'
  BY <1>3 DEF StackSound
<1>6. ASSUME NEW i \in DOMAIN call, NEW t \in Token, t = call[i].token, Kept(t),
             call[i].version = version[t]
      PROVE  promise'[t] # 0 \/ instance[t] # 0
  <2>1. promise[t] # 0 \/ instance[t] # 0 \/ \E n \in Providers!Started : On(n) = t
    BY <1>1, <1>6 DEF Asked
  <2> QED
    BY <1>2, <1>6, <2>1 DEF Kept
<1>7. Asked'
  <2>1. \A i \in DOMAIN call : call[i].token \in Token
    BY <1>1, ConfigTypes
  <2> QED
    BY <1>1, <1>6, <2>1 DEF Asked, Kept, Providers!Singleton
<1>8. Round'
  BY <1>3 DEF Round, Providers!Started
<1>9. TwiceFails'
  BY <1>1 DEF TwiceFails, Twice, Kept, Providers!Singleton, Providers!Cyclic
<1> QED
  BY <1>4, <1>5, <1>7, <1>8, <1>9 DEF ContainerInv

LEMMA RegisterKeeps ==
  ASSUME ContainerAssumption, ContainerInv, NEW t \in Token, Providers!Register(t)
  PROVE  ContainerInv'
<1>1. /\ stack = <<>> /\ version' = [version EXCEPT ![t] = @ + 1]
      /\ instance' = [instance EXCEPT ![t] = 0] /\ promise' = [promise EXCEPT ![t] = 0]
      /\ UNCHANGED <<config, call, stack>>
  BY DEF Providers!Register, Providers!Idle
<1>2. /\ ContainerTypes /\ StackSound /\ Asked /\ TwiceFails
      /\ DOMAIN call = 1..Len(call) /\ Len(call) \in Nat /\ DOMAIN stack = {}
  BY <1>1, ConfigTypes DEF ContainerInv
<1>3. \A i \in DOMAIN call : call[i].token \in Token /\ call[i].version \in Nat
  <2>1. \A i \in DOMAIN call : call[i] \in CallRecord
    BY <1>2 DEF ContainerTypes
  <2> QED
    BY <2>1 DEF CallRecord
<1>4. ContainerTypes'
  <2>1. /\ version' \in [Token -> Nat] /\ instance' \in [Token -> Nat]
        /\ promise' \in [Token -> 0..Len(call)]
    BY <1>1, <1>2 DEF ContainerTypes
  <2>2. \A i \in DOMAIN call : call[i].version <= version'[call[i].token]
    BY <1>1, <1>2, <1>3 DEF ContainerTypes
  <2> QED
    BY <1>1, <1>2, <2>1, <2>2 DEF ContainerTypes
<1>5. StackSound' /\ Round'
  BY <1>1, <1>2 DEF StackSound, Round, Providers!Started
<1>6. Asked'
  <2> SUFFICES ASSUME NEW i \in DOMAIN call, Kept(call[i].token),
                      call[i].version = version'[call[i].token]
               PROVE  promise'[call[i].token] # 0 \/ instance'[call[i].token] # 0
    BY <1>1 DEF Asked, Kept, Providers!Singleton
  <2>1. call[i].token # t
    BY <1>1, <1>2, <1>3 DEF ContainerTypes
  <2>2. version'[call[i].token] = version[call[i].token]
    BY <1>1, <1>3, <2>1 DEF ContainerTypes
  <2>3. promise[call[i].token] # 0 \/ instance[call[i].token] # 0
    BY <1>2, <2>2 DEF Asked, Providers!Started
  <2> QED
    BY <1>1, <1>3, <2>1, <2>3 DEF ContainerTypes
<1>7. TwiceFails'
  BY <1>1, <1>2 DEF TwiceFails, Twice, Kept, Providers!Singleton, Providers!Cyclic, Providers!Started
<1> QED
  BY <1>4, <1>5, <1>6, <1>7 DEF ContainerInv

\* What was at hand stays so when a call's value is kept.
LEMMA KeepHolds ==
  ASSUME ContainerTypes, NEW on \in DOMAIN call, Providers!Keep(on)
  PROVE  /\ instance' \in [Token -> Nat] /\ promise' \in [Token -> 0..Len(call)]
         /\ \A t \in Token : Kept(t) /\ (promise[t] # 0 \/ instance[t] # 0)
                               => promise'[t] # 0 \/ instance'[t] # 0
<1>1. DOMAIN call = 1..Len(call) /\ Len(call) \in Nat /\ on # 0 /\ on \in Nat
  BY DEF ContainerTypes
<1>2. instance \in [Token -> Nat] /\ promise \in [Token -> 0..Len(call)]
  BY DEF ContainerTypes
<1>3. CASE UNCHANGED <<promise, instance>>
  BY <1>2, <1>3
<1>4. CASE ~ UNCHANGED <<promise, instance>>
  <2>1. PICK t : t = call[on].token
    OBVIOUS
  <2>2. PICK v \in Nat : v = IF config[t].gives = "undefined" THEN 0 ELSE on
    BY <1>1
  <2>3. /\ promise' = [promise EXCEPT ![t] = 0] /\ instance' = [instance EXCEPT ![t] = v]
        /\ config[t].gives # "undefined" => v # 0
    BY <1>1, <1>4, <2>1, <2>2 DEF Providers!Keep
  <2>4. 0 \in 0..Len(call)
    BY <1>1
  <2>5. instance' \in [Token -> Nat] /\ promise' \in [Token -> 0..Len(call)]
    BY <1>2, <2>2, <2>3, <2>4
  <2>6. ASSUME NEW u \in Token, Kept(u), promise[u] # 0 \/ instance[u] # 0
        PROVE  promise'[u] # 0 \/ instance'[u] # 0
    BY <1>2, <2>3, <2>6 DEF Kept
  <2> QED
    BY <2>5, <2>6
<1> QED
  BY <1>3, <1>4

LEMMA ContainerStill ==
  ASSUME ContainerInv, UNCHANGED <<config, version, instance, promise, call, stack>>
  PROVE  ContainerInv'
<1>1. ContainerTypes'
  BY DEF ContainerInv, ContainerTypes
<1>2. StackSound'
  BY DEF ContainerInv, StackSound, On, Providers!Started, Providers!Deps, Providers!Ready,
         Providers!Joins, Providers!Singleton
<1>3. Asked' /\ Round'
  BY DEF ContainerInv, Asked, Round, Kept, On, Providers!Started, Providers!Singleton
<1>4. TwiceFails'
  BY DEF ContainerInv, TwiceFails, Twice, Kept, Providers!Started, Providers!Singleton,
         Providers!Cyclic
<1> QED
  BY <1>1, <1>2, <1>3, <1>4 DEF ContainerInv

\* A call that goes on is the same call.
AtSet(f, i, a) == [f EXCEPT ![i].at = a]
OnSet(f, i, on) == [f EXCEPT ![i].on = on]
NextSet(f, i, pos) == [f EXCEPT ![i].next = pos]

SameCall(f, g, i) ==
  /\ Len(g) = Len(f) /\ DOMAIN g = DOMAIN f
  /\ g[i].token = f[i].token /\ g[i].version = f[i].version
  /\ \A j \in DOMAIN f : j # i => g[j] = f[j]

LEMMA AtMoves ==
  ASSUME NEW f \in Seq(CallRecord), NEW i \in DOMAIN f, NEW a \in {"running", "waiting", "making", "made", "failed"}
  PROVE  AtSet(f, i, a) \in Seq(CallRecord) /\ SameCall(f, AtSet(f, i, a), i)
         /\ AtSet(f, i, a)[i].at = a
         /\ AtSet(f, i, a)[i].next = f[i].next
         /\ AtSet(f, i, a)[i].on = f[i].on
<1> DEFINE r == [f[i] EXCEPT !.at = a]
<1>1. r \in CallRecord /\ r.at = a
      /\ r.token = f[i].token
      /\ r.version = f[i].version
      /\ r.next = f[i].next
      /\ r.on = f[i].on
  <2>1. f[i] \in CallRecord
    OBVIOUS
  <2> QED
    BY <2>1 DEF CallRecord
<1>2. AtSet(f, i, a) = [f EXCEPT ![i] = r]
  BY DEF AtSet
<1> HIDE DEF r
<1> QED
  BY <1>1, <1>2 DEF SameCall

LEMMA OnMoves ==
  ASSUME NEW f \in Seq(CallRecord), NEW i \in DOMAIN f, NEW on \in Nat
  PROVE  OnSet(f, i, on) \in Seq(CallRecord) /\ SameCall(f, OnSet(f, i, on), i)
         /\ OnSet(f, i, on)[i].on = on
         /\ OnSet(f, i, on)[i].next = f[i].next
         /\ OnSet(f, i, on)[i].at = f[i].at
<1> DEFINE r == [f[i] EXCEPT !.on = on]
<1>1. r \in CallRecord /\ r.on = on
      /\ r.token = f[i].token
      /\ r.version = f[i].version
      /\ r.next = f[i].next
      /\ r.at = f[i].at
  <2>1. f[i] \in CallRecord
    OBVIOUS
  <2> QED
    BY <2>1 DEF CallRecord
<1>2. OnSet(f, i, on) = [f EXCEPT ![i] = r]
  BY DEF OnSet
<1> HIDE DEF r
<1> QED
  BY <1>1, <1>2 DEF SameCall

LEMMA NextMoves ==
  ASSUME NEW f \in Seq(CallRecord), NEW i \in DOMAIN f, NEW pos \in Nat \ {0}
  PROVE  NextSet(f, i, pos) \in Seq(CallRecord) /\ SameCall(f, NextSet(f, i, pos), i)
         /\ NextSet(f, i, pos)[i].next = pos
         /\ NextSet(f, i, pos)[i].on = f[i].on
         /\ NextSet(f, i, pos)[i].at = f[i].at
<1> DEFINE r == [f[i] EXCEPT !.next = pos]
<1>1. r \in CallRecord /\ r.next = pos
      /\ r.token = f[i].token
      /\ r.version = f[i].version
      /\ r.on = f[i].on
      /\ r.at = f[i].at
  <2>1. f[i] \in CallRecord
    OBVIOUS
  <2> QED
    BY <2>1 DEF CallRecord
<1>2. NextSet(f, i, pos) = [f EXCEPT ![i] = r]
  BY DEF NextSet
<1> HIDE DEF r
<1> QED
  BY <1>1, <1>2 DEF SameCall

\* A call that waits for another, and one that goes on.
Waits(f, i, on) == [f EXCEPT ![i].at = "waiting", ![i].on = on]
GoesOn(f, i) == [f EXCEPT ![i].at = "running", ![i].on = 0, ![i].next = @ + 1]

LEMMA CallWaits ==
  ASSUME NEW f \in Seq(CallRecord), NEW i \in DOMAIN f, NEW on \in Nat
  PROVE  /\ Waits(f, i, on) \in Seq(CallRecord) /\ SameCall(f, Waits(f, i, on), i)
         /\ Waits(f, i, on)[i].at = "waiting" /\ Waits(f, i, on)[i].on = on
         /\ Waits(f, i, on)[i].next = f[i].next
<1>0. PICK g : g = Waits(f, i, on)
  OBVIOUS
<1>1. PICK h : h = AtSet(f, i, "waiting")
  OBVIOUS
<1>2. g = OnSet(h, i, on)
  BY <1>0, <1>1 DEF AtSet, OnSet, Waits
<1>3. /\ h \in Seq(CallRecord) /\ SameCall(f, h, i)
      /\ h[i].at = "waiting" /\ h[i].next = f[i].next /\ i \in DOMAIN h
  <2>1. /\ h \in Seq(CallRecord) /\ SameCall(f, h, i)
        /\ h[i].at = "waiting" /\ h[i].next = f[i].next
    BY <1>1, AtMoves
  <2> QED
    BY <2>1 DEF SameCall
<1>4. /\ g \in Seq(CallRecord) /\ SameCall(h, g, i)
      /\ g[i].on = on /\ g[i].next = h[i].next /\ g[i].at = h[i].at
  <2>1. h \in Seq(CallRecord) /\ i \in DOMAIN h
    BY <1>3
  <2>2. /\ OnSet(h, i, on) \in Seq(CallRecord) /\ SameCall(h, OnSet(h, i, on), i)
        /\ OnSet(h, i, on)[i].on = on /\ OnSet(h, i, on)[i].next = h[i].next
        /\ OnSet(h, i, on)[i].at = h[i].at
    BY <2>1, OnMoves
  <2> QED
    BY <1>2, <2>2
<1> QED
  BY <1>0, <1>3, <1>4 DEF SameCall

LEMMA CallResumes ==
  ASSUME NEW f \in Seq(CallRecord), NEW i \in DOMAIN f
  PROVE  /\ GoesOn(f, i) \in Seq(CallRecord) /\ SameCall(f, GoesOn(f, i), i)
         /\ GoesOn(f, i)[i].at = "running" /\ GoesOn(f, i)[i].on = 0 /\ GoesOn(f, i)[i].next > 1
<1>0. PICK g : g = GoesOn(f, i)
  OBVIOUS
<1>1. PICK h : h = AtSet(f, i, "running")
  OBVIOUS
<1>2. PICK k : k = OnSet(h, i, 0)
  OBVIOUS
<1>3. g = NextSet(k, i, k[i].next + 1)
  BY <1>0, <1>1, <1>2 DEF AtSet, OnSet, NextSet, GoesOn
<1>4. /\ h \in Seq(CallRecord) /\ SameCall(f, h, i)
      /\ h[i].at = "running" /\ h[i].next = f[i].next /\ i \in DOMAIN h
  <2>1. /\ h \in Seq(CallRecord) /\ SameCall(f, h, i)
        /\ h[i].at = "running" /\ h[i].next = f[i].next
    BY <1>1, AtMoves
  <2> QED
    BY <2>1 DEF SameCall
<1>5. /\ k \in Seq(CallRecord) /\ SameCall(h, k, i)
      /\ k[i].on = 0 /\ k[i].next = h[i].next /\ k[i].at = h[i].at /\ i \in DOMAIN k
  <2>0. /\ OnSet(h, i, 0) \in Seq(CallRecord) /\ SameCall(h, OnSet(h, i, 0), i)
        /\ OnSet(h, i, 0)[i].on = 0 /\ OnSet(h, i, 0)[i].next = h[i].next
        /\ OnSet(h, i, 0)[i].at = h[i].at
    <3>1. h \in Seq(CallRecord) /\ i \in DOMAIN h /\ 0 \in Nat
      BY <1>4
    <3> QED
      BY <3>1, OnMoves
  <2>1. /\ k \in Seq(CallRecord) /\ SameCall(h, k, i)
        /\ k[i].on = 0 /\ k[i].next = h[i].next /\ k[i].at = h[i].at
    BY <1>2, <2>0
  <2> QED
    BY <1>4, <2>1 DEF SameCall
<1>6. k[i] \in CallRecord /\ k[i].next \in Nat \ {0} /\ k[i].next + 1 \in Nat \ {0}
  <2>1. k[i] \in CallRecord
    BY <1>5
  <2>2. k[i].next \in Nat \ {0}
    BY <2>1 DEF CallRecord
  <2> QED
    BY <2>1, <2>2
<1>7. /\ g \in Seq(CallRecord) /\ SameCall(k, g, i)
      /\ g[i].next = k[i].next + 1 /\ g[i].on = k[i].on /\ g[i].at = k[i].at
  <2>1. k \in Seq(CallRecord) /\ i \in DOMAIN k
    BY <1>5
  <2>2. PICK pos \in Nat \ {0} : pos = k[i].next + 1
    BY <1>6
  <2>3. /\ NextSet(k, i, pos) \in Seq(CallRecord) /\ SameCall(k, NextSet(k, i, pos), i)
        /\ NextSet(k, i, pos)[i].next = pos /\ NextSet(k, i, pos)[i].on = k[i].on
        /\ NextSet(k, i, pos)[i].at = k[i].at
    BY <2>1, NextMoves
  <2> QED
    BY <1>3, <2>2, <2>3
<1>8. SameCall(f, g, i)
  BY <1>4, <1>5, <1>7 DEF SameCall
<1> QED
  BY <1>0, <1>4, <1>5, <1>6, <1>7, <1>8

\* The application's call of instantiate() is the first one for its registration.
LEMMA ResolveKeeps ==
  ASSUME ContainerAssumption, ContainerInv,
         NEW r \in Resolver, NEW t \in Token, Providers!Resolve(r, t)
  PROVE  ContainerInv'
<1>1. /\ stack = <<>> /\ version[t] # 0 /\ ~ Providers!Ready(t)
      /\ UNCHANGED <<config, version, instance, promise>>
  BY DEF Providers!Resolve, Providers!Idle
<1>2. /\ ContainerTypes /\ StackSound /\ Asked /\ TwiceFails
      /\ DOMAIN call = 1..Len(call) /\ Len(call) \in Nat /\ DOMAIN stack = {}
  BY <1>1, ConfigTypes DEF ContainerInv
<1>3. CASE UNCHANGED <<call, stack>>
  BY <1>1, <1>3, ContainerStill
<1>4. CASE ~ UNCHANGED <<call, stack>>
  <2> DEFINE new == Providers!New(t)
  <2>0. PICK k \in Nat : k = Len(call) + 1
    BY <1>2
  <2>1. call' = Append(call, new) /\ stack' = <<Len(call')>> /\ ~ Providers!Joins(t)
    BY <1>4 DEF Providers!Resolve
  <2>2. /\ new \in CallRecord /\ new.token = t /\ new.version = version[t] /\ new.next = 1
        /\ new.on = 0 /\ new.at = "running"
    BY <1>2 DEF Providers!New, CallRecord, ContainerTypes
  <2> HIDE DEF new
  <2>3. /\ call' \in Seq(CallRecord) /\ Len(call') = k /\ DOMAIN call' = 1..k /\ call'[k] = new
        /\ \A i \in DOMAIN call : call'[i] = call[i] /\ i \in 1..k /\ i < k
    BY <1>2, <2>0, <2>1, <2>2 DEF ContainerTypes
  <2>4. DOMAIN stack' = {1} /\ stack'[1] = k /\ Len(stack') = 1 /\ stack' \in Seq(1..k)
    BY <1>2, <2>0, <2>1, <2>3
  <2>5. \A i \in DOMAIN call' : i = k \/ i \in DOMAIN call
    BY <1>2, <2>0, <2>3
  <2>6. On(1)' = t /\ Providers!Started' = {1}
    BY <2>2, <2>3, <2>4 DEF On, Providers!Started
  <2>7. ContainerTypes'
    <3>1. promise' \in [Token -> 0..Len(call')]
      BY <1>1, <1>2, <2>3 DEF ContainerTypes
    <3>2. \A i \in DOMAIN call' : call'[i].on \in 0..k /\ call'[i].version <= version[call'[i].token]
      <4>1. call'[k].on \in 0..k /\ call'[k].version <= version[call'[k].token]
        BY <1>2, <2>2, <2>3 DEF ContainerTypes
      <4>2. \A i \in DOMAIN call : call'[i].on \in 0..k /\ call'[i].version <= version[call'[i].token]
        BY <1>2, <2>3 DEF ContainerTypes
      <4> QED
        BY <2>5, <4>1, <4>2
    <3> QED
      BY <1>1, <1>2, <2>3, <2>4, <3>1, <3>2 DEF ContainerTypes
  <2>8. StackSound'
    <3>1. ~ Providers!Ready(t)' /\ ~ Providers!Joins(t)'
      BY <1>1, <2>1 DEF Providers!Ready, Providers!Joins, Providers!Singleton
    <3> QED
      BY <1>1, <2>2, <2>3, <2>4, <2>6, <3>1 DEF StackSound
  <2>9. Asked'
    <3>1. \A i \in DOMAIN call : Kept(call[i].token) /\ call[i].version = version[call[i].token] =>
            promise[call[i].token] # 0 \/ instance[call[i].token] # 0
      BY <1>2 DEF Asked, Providers!Started
    <3> QED
      BY <1>1, <2>2, <2>3, <2>5, <2>6, <3>1 DEF Asked, Kept, Providers!Singleton
  <2>10. Round'
    BY <2>6 DEF Round
  <2>11. TwiceFails'
    <3>1. ASSUME NEW i \in DOMAIN call, Twice(i, k)' PROVE FALSE
      <4>1. Kept(t) /\ call[i].token = t /\ call[i].version = version[t]
        <5>1. call'[i] = call[i] /\ call'[k].token = t /\ call'[k].version = version[t]
          BY <2>2, <2>3
        <5>2. /\ call'[k].token = call'[i].token /\ call'[k].version = call'[i].version
              /\ config'[call'[i].token].scope = "singleton"
              /\ config'[call'[i].token].gives # "undefined"
          BY <3>1 DEF Twice, Kept, Providers!Singleton
        <5> QED
          BY <1>1, <5>1, <5>2 DEF Kept, Providers!Singleton
      <4>2. promise[t] # 0 \/ instance[t] # 0
        BY <1>2, <4>1 DEF Asked, Providers!Started
      <4> QED
        BY <1>1, <2>1, <4>1, <4>2 DEF Kept, Providers!Ready, Providers!Joins
    <3>2. ASSUME NEW i \in DOMAIN call, NEW j \in DOMAIN call, Twice(i, j)'
          PROVE  Providers!Cyclic' /\ call'[i].at = "failed" /\ call'[j].at = "failed"
      <4>1. Twice(i, j)
        BY <1>1, <2>3, <3>2 DEF Twice, Kept, Providers!Singleton
      <4>2. Providers!Cyclic /\ call[i].at = "failed" /\ call[j].at = "failed"
        BY <1>2, <4>1 DEF TwiceFails, Providers!Started
      <4> QED
        BY <1>1, <2>3, <4>2 DEF Providers!Cyclic
    <3> SUFFICES ASSUME NEW i \in DOMAIN call', NEW j \in DOMAIN call', Twice(i, j)'
                 PROVE  Providers!Cyclic' /\ call'[i].at = "failed" /\ call'[j].at = "failed"
      BY DEF TwiceFails
    <3>3. i \in DOMAIN call
      <4>1. i < j /\ i \in 1..k /\ j \in 1..k
        BY <2>3 DEF Twice
      <4> QED
        BY <1>2, <2>0, <4>1
    <3>4. j # k
      BY <3>1, <3>3
    <3> QED
      BY <2>5, <3>2, <3>3, <3>4
  <2> QED
    BY <2>7, <2>8, <2>9, <2>10, <2>11 DEF ContainerInv
<1> QED
  BY <1>3, <1>4

LEMMA TwiceEnds ==
  ASSUME TwiceFails, NEW i \in DOMAIN call, NEW j \in DOMAIN call, Twice(i, j)
  PROVE  /\ Providers!Cyclic
         /\ \/ call[i].at = "failed" /\ call[j].at = "failed"
            \/ \E m, n \in Providers!Started : m < n /\ stack[m] = i /\ stack[n] = j
  BY DEF TwiceFails

\* The first thing that is not at hand is instantiated in turn.
LEMMA RunCalls ==
  ASSUME ContainerAssumption, ContainerInv, ~ Providers!Idle, NEW d \in Token,
         call[Providers!Top].next \in DOMAIN Providers!Deps(Providers!Top),
         d = Providers!Deps(Providers!Top)[call[Providers!Top].next],
         version[d] # 0, ~ Providers!Ready(d), ~ Providers!Joins(d),
         call' = Append([call EXCEPT ![Providers!Top].at = "waiting",
                                     ![Providers!Top].on = Len(call) + 1], Providers!New(d)),
         stack' = Append(stack, Len(call')),
         UNCHANGED <<config, version, instance, promise>>
  PROVE  ContainerInv'
<1>1. /\ ContainerTypes /\ StackSound /\ Asked /\ Round /\ TwiceFails
      /\ DOMAIN call = 1..Len(call) /\ Len(call) \in Nat /\ call \in Seq(CallRecord)
  BY ConfigTypes DEF ContainerInv, ContainerTypes
<1>2. PICK k \in Nat, L \in Nat : k = Len(call) + 1 /\ L = Len(stack)
  <2>1. Len(stack) \in Nat /\ Len(call) + 1 \in Nat
    BY <1>1, ConfigTypes
  <2> QED
    BY <2>1
<1>3. DOMAIN stack = 1..L /\ L >= 1 /\ L \in DOMAIN stack /\ Providers!Top = stack[L]
  <2>1. stack # <<>> /\ stack \in Seq(DOMAIN call) /\ DOMAIN stack = 1..L
    BY <1>1, <1>2 DEF Providers!Idle, ContainerTypes
  <2> QED
    BY <1>2, <2>1 DEF Providers!Top, Providers!Last
<1>4. PICK top \in DOMAIN call : top = stack[L]
  BY <1>1, <1>3, ConfigTypes
<1>5. PICK new \in CallRecord :
        /\ new = Providers!New(d) /\ new.token = d /\ new.version = version[d] /\ new.next = 1
        /\ new.on = 0 /\ new.at = "running"
  <2>1. version[d] \in Nat
    BY <1>1 DEF ContainerTypes
  <2>2. /\ Providers!New(d) \in CallRecord
        /\ Providers!New(d).token = d /\ Providers!New(d).version = version[d]
        /\ Providers!New(d).next = 1 /\ Providers!New(d).on = 0
        /\ Providers!New(d).at = "running"
    BY <2>1 DEF Providers!New, CallRecord
  <2> QED
    BY <2>2
<1>6. PICK run \in Seq(CallRecord) :
        /\ run = [call EXCEPT ![top].at = "waiting", ![top].on = k]
        /\ SameCall(call, run, top)
        /\ run[top].at = "waiting" /\ run[top].on = k /\ run[top].next = call[top].next
  <2>1. PICK run : run = Waits(call, top, k)
    OBVIOUS
  <2>3. /\ Waits(call, top, k) \in Seq(CallRecord) /\ SameCall(call, Waits(call, top, k), top)
        /\ Waits(call, top, k)[top].at = "waiting" /\ Waits(call, top, k)[top].on = k
        /\ Waits(call, top, k)[top].next = call[top].next
    BY <1>1, CallWaits
  <2>2. /\ run \in Seq(CallRecord) /\ SameCall(call, run, top)
        /\ run[top].at = "waiting" /\ run[top].on = k /\ run[top].next = call[top].next
    BY <2>1, <2>3
  <2> QED
    BY <2>1, <2>2 DEF Waits
<1>7. call' = Append(run, new) /\ stack' = Append(stack, Len(call'))
  BY <1>2, <1>3, <1>4, <1>5, <1>6
<1>8. /\ call' \in Seq(CallRecord) /\ Len(call') = k /\ DOMAIN call' = 1..k /\ call'[k] = new
      /\ \A i \in DOMAIN call : call'[i] = run[i] /\ i \in 1..k /\ i < k /\ i # k
  <2>1. Len(run) = Len(call)
    BY <1>6 DEF SameCall
  <2>2. /\ call' \in Seq(CallRecord) /\ Len(call') = k /\ DOMAIN call' = 1..k /\ call'[k] = new
        /\ \A i \in 1..Len(call) : call'[i] = run[i]
    <3>1. run \in Seq(CallRecord) /\ new \in CallRecord /\ Len(run) = Len(call)
          /\ call' = Append(run, new) /\ Len(run) \in Nat /\ k = Len(run) + 1
      BY <1>1, <1>2, <1>7, <2>1
    <3>2. /\ Append(run, new) \in Seq(CallRecord) /\ Len(Append(run, new)) = Len(run) + 1
          /\ \A i \in 1..Len(run) : Append(run, new)[i] = run[i]
          /\ Append(run, new)[Len(run) + 1] = new
      BY <3>1, AppendProperties
    <3>3. call' \in Seq(CallRecord) /\ Len(call') = k /\ DOMAIN call' = 1..k
      <4>1. call' \in Seq(CallRecord) /\ Len(call') = k
        BY <3>1, <3>2
      <4> QED
        BY <4>1
    <3> QED
      BY <3>1, <3>2, <3>3
  <2>3. \A i \in 1..Len(call) : i \in 1..k /\ i < k /\ i # k
    BY <1>1, <1>2
  <2> QED
    BY <1>1, <2>2, <2>3
<1>9. /\ stack' \in Seq(1..k) /\ Len(stack') = L + 1 /\ DOMAIN stack' = 1..(L + 1)
      /\ stack'[L + 1] = k
      /\ \A n \in DOMAIN stack : stack'[n] = stack[n] /\ n \in 1..(L + 1) /\ n < L + 1
  <2>1. stack \in Seq(1..k) /\ k \in 1..k
    BY <1>1, <1>2 DEF ContainerTypes
  <2>2. stack' = Append(stack, k)
    BY <1>7, <1>8
  <2> QED
    BY <1>2, <1>3, <2>1, <2>2
<1>10. /\ \A i \in DOMAIN call : call'[i].token = call[i].token /\ call'[i].next = call[i].next
                                 /\ call'[i].version = call[i].version
                                 /\ (i # top => call'[i] = call[i])
       /\ call'[top].at = "waiting" /\ call'[top].on = k
       /\ \A i \in 1..k : i = k \/ i \in DOMAIN call
       /\ \A n \in 1..(L + 1) : n = L + 1 \/ n \in DOMAIN stack
  <2>1. /\ \A i \in DOMAIN call : i # top => run[i] = call[i]
        /\ run[top].token = call[top].token /\ run[top].version = call[top].version
    BY <1>6 DEF SameCall
  <2>2. \A i \in DOMAIN call : i # top => call'[i] = call[i]
    BY <1>8, <2>1
  <2>3. /\ call'[top].token = call[top].token /\ call'[top].next = call[top].next
        /\ call'[top].version = call[top].version
        /\ call'[top].at = "waiting" /\ call'[top].on = k
    BY <1>6, <1>8, <2>1
  <2>4. /\ \A i \in 1..k : i = k \/ i \in DOMAIN call
        /\ \A n \in 1..(L + 1) : n = L + 1 \/ n \in DOMAIN stack
    BY <1>1, <1>2, <1>3
  <2> QED
    BY <2>2, <2>3, <2>4
<1>11. \A n \in DOMAIN stack : stack[n] \in DOMAIN call /\ On(n) \in Token
  BY <1>1, ConfigTypes
<1>12. On(L + 1)' = d /\ \A n \in DOMAIN stack : On(n)' = On(n)
  <2>1. call'[stack'[L + 1]].token = d
    BY <1>5, <1>8, <1>9
  <2>2. \A n \in DOMAIN stack : call'[stack'[n]].token = call[stack[n]].token
    BY <1>9, <1>10, <1>11, SMTT(30)
  <2> QED
    BY <2>1, <2>2 DEF On
<1>13. /\ L + 1 \in Providers!Started'
       /\ \A n \in DOMAIN stack : n \in Providers!Started <=> n \in Providers!Started'
       /\ \A n \in Providers!Started : n \in DOMAIN stack /\ n \in 1..L
  <2>1. call'[stack'[1]].next = call[stack[1]].next /\ L + 1 # 1 /\ L + 1 \in DOMAIN stack'
    BY <1>3, <1>9, <1>10, <1>11
  <2> QED
    BY <1>3, <1>9, <2>1 DEF Providers!Started
<1>14. /\ \A i \in DOMAIN call : Providers!Deps(i)' = Providers!Deps(i)
       /\ \A t \in Token :
            /\ Providers!Ready(t)' = Providers!Ready(t) /\ Providers!Joins(t)' = Providers!Joins(t)
            /\ Kept(t)' = Kept(t)
       /\ Providers!Cyclic' <=> Providers!Cyclic
  BY <1>10 DEF Providers!Deps, Providers!Ready, Providers!Joins, Kept, Providers!Singleton,
               Providers!Cyclic
<1>15. ContainerTypes'
  <2>1. promise' \in [Token -> 0..Len(call')]
    BY <1>1, <1>2, <1>8 DEF ContainerTypes
  <2>2. call'[k].on \in 0..k /\ call'[k].version <= version'[call'[k].token]
    BY <1>1, <1>5, <1>8, SMTT(30) DEF ContainerTypes
  <2>3. \A i \in DOMAIN call : call'[i].on \in 0..k /\ call'[i].version <= version'[call'[i].token]
    <3> SUFFICES ASSUME NEW i \in DOMAIN call
                 PROVE  call'[i].on \in 0..k /\ call'[i].version <= version'[call'[i].token]
      OBVIOUS
    <3>1. call'[i].version <= version'[call'[i].token]
      BY <1>1, <1>10 DEF ContainerTypes
    <3>2. call[i].on \in 0..Len(call)
      BY <1>1 DEF ContainerTypes
    <3>3. call'[i].on = k \/ call'[i].on = call[i].on
      BY <1>10
    <3> QED
      BY <1>1, <1>2, <3>1, <3>2, <3>3
  <2> QED
    BY <1>1, <1>8, <1>9, <1>10, <2>1, <2>2, <2>3 DEF ContainerTypes
<1>16. StackSound'
  <2>1. \A m, n \in DOMAIN stack' : stack'[m] = stack'[n] => m = n
    <3>1. \A m, n \in DOMAIN stack : stack[m] = stack[n] => m = n
      BY <1>1 DEF StackSound
    <3>2. \A n \in DOMAIN stack : stack'[n] = stack[n] /\ stack[n] # k
      BY <1>8, <1>9, <1>11
    <3> QED
      BY <1>9, <1>10, <3>1, <3>2
  <2>2. \A n \in DOMAIN stack : call'[stack'[n]].at = "waiting"
    <3> SUFFICES ASSUME NEW n \in DOMAIN stack PROVE call'[stack[n]].at = "waiting"
      BY <1>9
    <3>1. CASE n = L
      BY <1>4, <1>10, <3>1
    <3>2. CASE n # L
      <4>1. stack[n] # top
        BY <1>1, <1>3, <1>4, <3>2 DEF StackSound
      <4> QED
        BY <1>1, <1>2, <1>10, <1>11, <3>2, <4>1 DEF StackSound
    <3> QED
      BY <3>1, <3>2
  <2>3. call'[stack'[L + 1]].at = "running" /\ call'[stack'[L + 1]].next = 1
    BY <1>5, <1>8, <1>9
  <2>4. \A n \in DOMAIN stack' : call'[stack'[n]].at = IF n = Len(stack') THEN "running" ELSE "waiting"
    <3>1. Len(stack') = L + 1 /\ \A n \in DOMAIN stack : n # L + 1
      BY <1>2, <1>9
    <3>2. \A n \in DOMAIN stack' : n = L + 1 \/ n \in DOMAIN stack
      BY <1>9, <1>10
    <3> QED
      BY <2>2, <2>3, <3>1, <3>2, Zenon
  <2>5. ASSUME NEW n \in DOMAIN stack', n > 1
        PROVE  /\ call'[stack'[n]].next = 1
               /\ call'[stack'[n - 1]].next \in DOMAIN config[call'[stack'[n - 1]].token].inject
               /\ On(n)' = config[call'[stack'[n - 1]].token].inject[call'[stack'[n - 1]].next]
    <3>1. CASE n = L + 1
      <4>1. n - 1 = L
        BY <1>2, <3>1
      <4>2. /\ stack'[n - 1] = top /\ call'[top].next = call[top].next
            /\ call'[top].token = call[top].token /\ call'[stack'[n]].next = 1 /\ On(n)' = d
        BY <1>3, <1>4, <1>9, <1>10, <1>12, <2>3, <3>1, <4>1
      <4>3. /\ call[top].next \in DOMAIN config[call[top].token].inject
            /\ d = config[call[top].token].inject[call[top].next]
        BY <1>3, <1>4 DEF Providers!Deps
      <4> QED
        BY <4>2, <4>3
    <3>2. CASE n \in DOMAIN stack
      <4>1. n - 1 \in DOMAIN stack
        BY <1>3, <2>5, <3>2
      <4>2. /\ call[stack[n]].next = 1
            /\ call[stack[n - 1]].next \in DOMAIN config[call[stack[n - 1]].token].inject
            /\ On(n) = config[call[stack[n - 1]].token].inject[call[stack[n - 1]].next]
        BY <1>1, <2>5, <3>2 DEF StackSound, Providers!Deps
      <4>3. PICK i \in DOMAIN call, j \in DOMAIN call :
              i = stack[n] /\ j = stack[n - 1] /\ i = stack'[n] /\ j = stack'[n - 1]
        BY <1>9, <1>11, <3>2, <4>1
      <4>4. /\ call'[i].next = call[i].next /\ call'[j].next = call[j].next
            /\ call'[j].token = call[j].token /\ On(n)' = On(n)
        BY <1>10, <1>12, <3>2
      <4> QED
        BY <4>2, <4>3, <4>4
    <3> QED
      BY <1>9, <1>10, <3>1, <3>2
  <2>6. ASSUME NEW n \in DOMAIN stack', n \in Providers!Started', NEW t \in Token, t = On(n)'
        PROVE  /\ version[t] # 0 /\ call'[stack'[n]].version = version[t]
               /\ config[t].gives # "value"
               /\ config[t].scope = "singleton" => instance[t] = 0 /\ promise[t] = 0
    <3>0. ~ Providers!Ready(t) /\ ~ Providers!Joins(t) =>
            /\ config[t].gives # "value"
            /\ config[t].scope = "singleton" => instance[t] = 0 /\ promise[t] = 0
      BY DEF Providers!Ready, Providers!Joins, Providers!Singleton
    <3>1. CASE n = L + 1
      BY <1>5, <1>8, <1>9, <1>12, <2>6, <3>0, <3>1
    <3>2. CASE n \in DOMAIN stack
      <4>1. n \in Providers!Started /\ t = On(n) /\ stack[n] \in DOMAIN call
            /\ call'[stack'[n]].version = call[stack[n]].version
        BY <1>9, <1>10, <1>11, <1>12, <1>13, <2>6, <3>2
      <4>2. /\ version[t] # 0 /\ call[stack[n]].version = version[t]
            /\ ~ Providers!Ready(t) /\ ~ Providers!Joins(t)
        BY <1>1, <3>2, <4>1 DEF StackSound
      <4> QED
        BY <3>0, <4>1, <4>2
    <3> QED
      BY <1>9, <1>10, <3>1, <3>2
  <2>7. \A n \in DOMAIN stack' : On(n)' \in Token
    BY <1>9, <1>10, <1>11, <1>12, SMTT(30)
  <2>8. \A n \in DOMAIN stack' : n > 1 =>
          /\ call'[stack'[n]].next = 1
          /\ call'[stack'[n - 1]].next \in DOMAIN config'[call'[stack'[n - 1]].token].inject
          /\ call'[stack'[n]].token
               = config'[call'[stack'[n - 1]].token].inject[call'[stack'[n - 1]].next]
    BY <2>5 DEF On
  <2>9. \A n \in DOMAIN stack' : n \in Providers!Started' =>
          /\ version'[call'[stack'[n]].token] # 0
          /\ call'[stack'[n]].version = version'[call'[stack'[n]].token]
          /\ config'[call'[stack'[n]].token].gives # "value"
          /\ config'[call'[stack'[n]].token].scope = "singleton" =>
               instance'[call'[stack'[n]].token] = 0 /\ promise'[call'[stack'[n]].token] = 0
    <3> SUFFICES ASSUME NEW n \in DOMAIN stack', n \in Providers!Started'
                 PROVE  /\ version[call'[stack'[n]].token] # 0
                        /\ call'[stack'[n]].version = version[call'[stack'[n]].token]
                        /\ config[call'[stack'[n]].token].gives # "value"
                        /\ config[call'[stack'[n]].token].scope = "singleton" =>
                             /\ instance[call'[stack'[n]].token] = 0
                             /\ promise[call'[stack'[n]].token] = 0
      OBVIOUS
    <3>1. PICK t \in Token : t = On(n)'
      BY <2>7
    <3>2. t = call'[stack'[n]].token
      BY <3>1 DEF On
    <3>3. /\ version[t] # 0 /\ call'[stack'[n]].version = version[t]
          /\ config[t].gives # "value"
          /\ config[t].scope = "singleton" => instance[t] = 0 /\ promise[t] = 0
      BY <2>6, <3>1
    <3> QED
      BY <3>2, <3>3
  <2> QED
    BY <2>1, <2>4, <2>8, <2>9
       DEF StackSound, On, Providers!Deps, Providers!Ready, Providers!Joins, Providers!Singleton
<1>17. Asked'
  <2> SUFFICES ASSUME NEW i \in 1..k, Kept(call[i].token)',
                      call'[i].version = version[call'[i].token]
               PROVE  \/ promise[call'[i].token] # 0 \/ instance[call'[i].token] # 0
                      \/ \E n \in Providers!Started' : On(n)' = call'[i].token
    BY <1>8 DEF Asked
  <2>1. CASE i = k
    BY <1>5, <1>8, <1>12, <1>13, <2>1, SMTT(30)
  <2>2. CASE i \in DOMAIN call
    <3>1. call'[i].token = call[i].token /\ call[i].version = version[call[i].token]
      BY <1>10, <2>2
    <3>2. Kept(call[i].token)
      BY <3>1 DEF Kept, Providers!Singleton
    <3>3. \/ promise[call[i].token] # 0 \/ instance[call[i].token] # 0
          \/ \E n \in Providers!Started : On(n) = call[i].token
      BY <1>1, <2>2, <3>1, <3>2 DEF Asked
    <3> QED
      BY <1>12, <1>13, <3>1, <3>3
  <2> QED
    BY <1>10, <2>1, <2>2
<1>18. Round'
  <2> SUFFICES ASSUME NEW m \in Providers!Started', NEW n \in Providers!Started', m < n,
                      On(m)' = On(n)'
               PROVE  \E i \in Providers!Started' : i < L + 1 /\ On(i)' = d
    BY <1>9, <1>12 DEF Round
  <2>1. m \in 1..(L + 1) /\ n \in 1..(L + 1) /\ m \in DOMAIN stack
    BY <1>2, <1>3, <1>9, SMTT(30) DEF Providers!Started
  <2>2. CASE n = L + 1
    BY <1>12, <2>1, <2>2
  <2>3. CASE n \in DOMAIN stack
    <3>1. PICK i \in Providers!Started : i < L /\ On(i) = On(L)
      BY <1>1, <1>2, <1>12, <1>13, <2>1, <2>3 DEF Round
    <3>2. i + 1 \in Providers!Started /\ On(i + 1) = d
      BY <1>1, <1>2, <3>1, RoundGoesOn
    <3>3. i + 1 < L + 1 /\ i + 1 \in Providers!Started' /\ On(i + 1)' = On(i + 1)
      BY <1>2, <1>12, <1>13, <3>1, <3>2
    <3> QED
      BY <3>2, <3>3
  <2> QED
    BY <1>10, <2>1, <2>2, <2>3
<1>19. ASSUME NEW i \in DOMAIN call, Kept(d), call[i].token = d, call[i].version = version[d]
       PROVE  /\ Providers!Cyclic
              /\ \E m \in Providers!Started : stack[m] = i
  <2>1. PICK n \in Providers!Started : On(n) = d
    BY <1>1, <1>19 DEF Asked, Kept, Providers!Ready, Providers!Joins
  <2>2. Providers!Cyclic
    BY <1>1, <2>1, RoundIsCyclic
  <2>3. CASE stack[n] = i
    BY <2>1, <2>2, <2>3
  <2>4. CASE stack[n] # i
    <3>1. PICK j \in DOMAIN call : j = stack[n] /\ n \in DOMAIN stack
      BY <1>11, <1>13, <2>1
    <3>2. /\ call[j].token = d /\ call[j].version = version[d]
          /\ call[j].at \in {"running", "waiting"}
      BY <1>1, <2>1, <3>1 DEF StackSound, On
    <3>3. Twice(i, j) \/ Twice(j, i)
      <4>1. i < j \/ j < i
        BY <1>1, <2>4, <3>1
      <4> QED
        BY <1>19, <3>2, <4>1 DEF Twice
    <3>4. call[j].at # "failed"
      BY <3>2
    <3>5. \E m \in Providers!Started : stack[m] = i
      <4>1. CASE Twice(i, j)
        BY <1>1, <3>4, <4>1, TwiceEnds
      <4>2. CASE Twice(j, i)
        BY <1>1, <3>4, <4>2, TwiceEnds
      <4> QED
        BY <3>3, <4>1, <4>2
    <3> QED
      BY <2>2, <3>5
  <2> QED
    BY <2>3, <2>4
<1>20. TwiceFails'
  <2> SUFFICES ASSUME NEW i \in DOMAIN call', NEW j \in DOMAIN call', Twice(i, j)'
               PROVE  /\ Providers!Cyclic'
                      /\ \/ call'[i].at = "failed" /\ call'[j].at = "failed"
                         \/ \E m, n \in Providers!Started' :
                              m < n /\ stack'[m] = i /\ stack'[n] = j
    BY Zenon DEF TwiceFails
  <2>0. i \in 1..k /\ j \in 1..k /\ (Providers!Cyclic' <=> Providers!Cyclic)
    BY <1>8, <1>14
  <2>1. i < j /\ i \in DOMAIN call
    <3>1. i < j
      BY DEF Twice
    <3> QED
      BY <1>1, <1>2, <2>0, <3>1
  <2>2. /\ call'[i].token = call[i].token /\ call'[i].version = call[i].version
        /\ call'[j].token = call[i].token /\ call'[j].version = call[i].version
        /\ Kept(call[i].token)
    BY <1>10, <2>1 DEF Twice, Kept, Providers!Singleton
  <2>3. CASE j = k
    <3>1. call[i].token = d /\ call[i].version = version[d]
      BY <1>5, <1>8, <2>2, <2>3
    <3>2. Providers!Cyclic
      BY <1>19, <2>1, <2>2, <3>1
    <3>3. PICK m \in Providers!Started : stack[m] = i
      BY <1>19, <2>1, <2>2, <3>1
    <3>4. m \in Providers!Started' /\ m < L + 1 /\ stack'[m] = i /\ stack'[L + 1] = j
      BY <1>9, <1>13, <2>3, <3>3
    <3> QED
      BY <1>13, <2>0, <3>2, <3>4
  <2>4. CASE j \in DOMAIN call
    <3>1. Twice(i, j)
      BY <1>10, <2>1, <2>2, <2>4 DEF Twice
    <3>2. Providers!Cyclic
      BY <1>1, <2>1, <2>4, <3>1 DEF TwiceFails
    <3>3. CASE call[i].at = "failed" /\ call[j].at = "failed"
      <4>1. call[top].at = "running"
        BY <1>1, <1>2, <1>3, <1>4 DEF StackSound
      <4>2. i # top /\ j # top
        BY <3>3, <4>1
      <4> QED
        BY <1>10, <2>0, <2>1, <2>4, <3>2, <3>3, <4>2
    <3>4. CASE \E m, n \in Providers!Started : m < n /\ stack[m] = i /\ stack[n] = j
      BY <1>9, <1>13, <2>0, <3>2, <3>4
    <3> QED
      BY <1>1, <2>1, <2>4, <3>1, <3>3, <3>4, TwiceEnds, ZenonT(60)
  <2> QED
    BY <1>10, <2>0, <2>3, <2>4
<1> QED
  BY <1>15, <1>16, <1>17, <1>18, <1>20 DEF ContainerInv

\* When what runs waits or returns, nothing was asked for twice by the calls that
\* run: what the innermost needs next would be one that nobody has asked for yet.
LEMMA RunEnds ==
  ASSUME ContainerAssumption, ContainerInv, ~ Providers!Idle,
         \A n \in DOMAIN Providers!Deps(Providers!Top) :
           LET d == Providers!Deps(Providers!Top)[n] IN
           n = call[Providers!Top].next => version[d] = 0 \/ Providers!Ready(d) \/ Providers!Joins(d),
         stack' = <<>>, promise' = Providers!Promises, UNCHANGED <<config, version, instance>>,
         call' \in Seq(CallRecord), SameCall(call, call', Providers!Top),
         call'[Providers!Top].on \in 0..Len(call)
  PROVE  ContainerInv'
<1>1. /\ ContainerTypes /\ StackSound /\ Round /\ TwiceFails /\ DOMAIN call = 1..Len(call)
  BY ConfigTypes DEF ContainerInv
<1>2. PICK L \in Nat : L = Len(stack)
  BY <1>1, ConfigTypes
<1>3. DOMAIN stack = 1..L /\ L \in DOMAIN stack /\ Providers!Top = stack[L]
  <2>1. stack # <<>> /\ stack \in Seq(DOMAIN call) /\ DOMAIN stack = 1..L
    BY <1>1, <1>2 DEF Providers!Idle, ContainerTypes
  <2> QED
    BY <1>2, <2>1 DEF Providers!Top, Providers!Last
<1>4. PICK top \in DOMAIN call : top = Providers!Top /\ top = stack[L]
  BY <1>1, <1>3, ConfigTypes
<1>5. call[top].at = "running"
  BY <1>1, <1>2, <1>3, <1>4 DEF StackSound
<1>6. ASSUME NEW m \in Providers!Started, NEW n \in Providers!Started, m < n, On(m) = On(n)
      PROVE  FALSE
  <2>1. PICK i \in Providers!Started : i < Len(stack) /\ On(i) = On(Len(stack))
    BY <1>1, <1>6 DEF Round
  <2>2. /\ call[top].next \in DOMAIN Providers!Deps(top) /\ i + 1 \in Providers!Started
        /\ Providers!Deps(top)[call[top].next] = On(i + 1)
    BY <1>1, <1>4, <2>1, RoundGoesOn
  <2>3. /\ version[On(i + 1)] # 0 /\ ~ Providers!Ready(On(i + 1)) /\ ~ Providers!Joins(On(i + 1))
    <3>1. i + 1 \in DOMAIN stack
      BY <2>2 DEF Providers!Started
    <3> QED
      BY <1>1, <2>2, <3>1 DEF StackSound
  <2>4. \/ version[On(i + 1)] = 0 \/ Providers!Ready(On(i + 1)) \/ Providers!Joins(On(i + 1))
    BY <1>4, <2>2
  <2> QED
    BY <2>3, <2>4
<1>7. ASSUME NEW i \in DOMAIN call, NEW j \in DOMAIN call, Twice(i, j)
      PROVE  call[i].at = "failed" /\ call[j].at = "failed"
  <2>1. ASSUME NEW m \in Providers!Started, NEW n \in Providers!Started, m < n,
               stack[m] = i, stack[n] = j
        PROVE  FALSE
    <3>1. On(m) = On(n)
      BY <1>7, <2>1 DEF On, Twice
    <3> QED
      BY <1>6, <2>1, <3>1
  <2> QED
    BY <1>1, <1>7, <2>1, TwiceEnds
<1>8. ASSUME NEW i \in DOMAIN call
      PROVE  /\ call'[i].token = call[i].token /\ call'[i].version = call[i].version
             /\ call'[i].on \in 0..Len(call)
             /\ call[i].at = "failed" => call'[i].at = "failed"
  <2>1. CASE i = top
    BY <1>4, <1>5, <2>1 DEF SameCall
  <2>2. CASE i # top
    BY <1>1, <1>4, <2>2 DEF SameCall, ContainerTypes
  <2> QED
    BY <2>1, <2>2
<1>9. Len(call') = Len(call)
  BY DEF SameCall
<1>10. \A i, j \in DOMAIN call : Twice(i, j) => call'[i].at = "failed" /\ call'[j].at = "failed"
  BY <1>7, <1>8
<1>11. \A i \in DOMAIN call : /\ call'[i].token = call[i].token
                              /\ call'[i].version = call[i].version
                              /\ call'[i].on \in 0..Len(call)
  BY <1>8
<1> QED
  BY <1>9, <1>10, <1>11, StackEmpties

\* When the stack overflows, all calls on it fail.
LEMMA RunOverflows ==
  ASSUME ContainerAssumption, ContainerInv,
         call' = [i \in DOMAIN call |-> IF i \in Providers!ToSet(stack)
                                        THEN [call[i] EXCEPT !.at = "failed"] ELSE call[i]],
         stack' = <<>>, promise' = Providers!Promises, UNCHANGED <<config, version, instance>>
  PROVE  ContainerInv'
<1>1. /\ ContainerTypes /\ TwiceFails /\ DOMAIN call = 1..Len(call) /\ Len(call) \in Nat
  BY ConfigTypes DEF ContainerInv
<1>2. ASSUME NEW i \in DOMAIN call
      PROVE  /\ call'[i] \in CallRecord
             /\ call'[i].token = call[i].token /\ call'[i].version = call[i].version
             /\ call'[i].on = call[i].on
             /\ call[i].at = "failed" \/ i \in Providers!ToSet(stack) => call'[i].at = "failed"
  <2>1. call[i] \in CallRecord
    BY <1>1 DEF ContainerTypes
  <2>2. CASE i \in Providers!ToSet(stack)
    <3>1. call'[i] = [call[i] EXCEPT !.at = "failed"]
      BY <2>2
    <3> QED
      BY <2>1, <3>1 DEF CallRecord
  <2>3. CASE i \notin Providers!ToSet(stack)
    <3>1. call'[i] = call[i]
      BY <2>3
    <3> QED
      BY <2>1, <2>3, <3>1
  <2> QED
    BY <2>2, <2>3
<1>3. call' \in Seq(CallRecord) /\ Len(call') = Len(call)
  <2>1. call' \in [1..Len(call) -> CallRecord]
    BY <1>1, <1>2
  <2> QED
    BY <1>1, <2>1
<1>4. ASSUME NEW i \in DOMAIN call, NEW j \in DOMAIN call, Twice(i, j)
      PROVE  call'[i].at = "failed" /\ call'[j].at = "failed"
  <2>1. ASSUME NEW m \in Providers!Started, NEW n \in Providers!Started,
               stack[m] = i, stack[n] = j
        PROVE  i \in Providers!ToSet(stack) /\ j \in Providers!ToSet(stack)
    BY <2>1 DEF Providers!ToSet, Providers!Started
  <2>2. \/ call[i].at = "failed" /\ call[j].at = "failed"
        \/ i \in Providers!ToSet(stack) /\ j \in Providers!ToSet(stack)
    BY <1>1, <1>4, <2>1, TwiceEnds
  <2> QED
    BY <1>2, <2>2
<1>5. \A i \in DOMAIN call : /\ call'[i].token = call[i].token
                             /\ call'[i].version = call[i].version
                             /\ call'[i].on \in 0..Len(call)
  BY <1>1, <1>2 DEF ContainerTypes
<1> QED
  BY <1>3, <1>4, <1>5, StackEmpties

LEMMA RunKeeps ==
  ASSUME ContainerAssumption, ContainerInv, Providers!Run
  PROVE  ContainerInv'
<1>1. /\ ContainerTypes /\ DOMAIN call = 1..Len(call) /\ Len(call) \in Nat
      /\ call \in Seq(CallRecord) /\ ~ Providers!Idle
  BY ConfigTypes DEF ContainerInv, ContainerTypes, Providers!Run
<1>2. PICK top \in DOMAIN call : top = Providers!Top
  <2>1. stack # <<>> /\ stack \in Seq(DOMAIN call)
    BY <1>1 DEF Providers!Idle, ContainerTypes
  <2> QED
    BY <2>1 DEF Providers!Top, Providers!Last
<1>3. call[top].next \in Nat \ {0} /\ Providers!Deps(top) \in Seq(Token)
  BY <1>1, ConfigTypes
<1>4. PICK d : d = Providers!Deps(Providers!Top)[call[Providers!Top].next]
  OBVIOUS
<1>5. CASE Len(stack) > MaxDepth
  BY <1>5, RunOverflows DEF Providers!Run
<1>6. ASSUME NEW at \in {"making", "failed", "waiting"}, Providers!Return(at),
             \/ call[top].next > Len(Providers!Deps(top))
             \/ version[d] = 0 \/ Providers!Ready(d)
      PROVE  ContainerInv'
  <2>1. /\ call' = AtSet(call, top, at) /\ stack' = <<>> /\ promise' = Providers!Promises
        /\ UNCHANGED <<config, version, instance>>
    BY <1>2, <1>6 DEF Providers!Return, AtSet
  <2>2. /\ AtSet(call, top, at) \in Seq(CallRecord) /\ SameCall(call, AtSet(call, top, at), top)
        /\ AtSet(call, top, at)[top].on = call[top].on
    <3>1. at \in {"running", "waiting", "making", "made", "failed"}
      BY <1>6
    <3> QED
      BY <1>1, <3>1, AtMoves, SMTT(30)
  <2>3. call[top].on \in 0..Len(call)
    BY <1>1 DEF ContainerTypes
  <2>4. \A n \in DOMAIN Providers!Deps(top) :
          n = call[top].next => version[d] = 0 \/ Providers!Ready(d)
    BY <1>3, <1>6
  <2> QED
    BY <1>1, <1>2, <1>4, <2>1, <2>2, <2>3, <2>4, RunEnds
<1>7. CASE /\ ~ Len(stack) > MaxDepth
           /\ call[top].next > Len(Providers!Deps(top)) \/ version[d] = 0 \/ Providers!Ready(d)
  <2>1. Providers!Return("making") \/ Providers!Return("failed") \/ Providers!Return("waiting")
    BY <1>2, <1>4, <1>7 DEF Providers!Run
  <2> QED
    BY <1>6, <1>7, <2>1
<1>8. CASE /\ ~ Len(stack) > MaxDepth
           /\ ~ call[top].next > Len(Providers!Deps(top)) /\ version[d] # 0 /\ ~ Providers!Ready(d)
  <2>1. call[top].next \in DOMAIN Providers!Deps(top) /\ d \in Token
    <3>1. call[top].next \in DOMAIN Providers!Deps(top)
      BY <1>3, <1>8
    <3> QED
      BY <1>2, <1>3, <1>4, <3>1
  <2>2. CASE Providers!Joins(d)
    <3>1. /\ call' = Waits(call, top, promise[d]) /\ stack' = <<>> /\ promise' = Providers!Promises
          /\ UNCHANGED <<config, version, instance>>
      BY <1>2, <1>4, <1>8, <2>2 DEF Providers!Run, Waits
    <3>2. promise[d] \in 0..Len(call) /\ promise[d] \in Nat
      BY <1>1, <2>1 DEF ContainerTypes
    <3>3. PICK on \in Nat : on = promise[d]
      BY <3>2
    <3>4. /\ Waits(call, top, on) \in Seq(CallRecord) /\ SameCall(call, Waits(call, top, on), top)
          /\ Waits(call, top, on)[top].on = on
      BY <1>1, CallWaits
    <3> QED
      BY <1>1, <1>2, <1>4, <2>2, <3>1, <3>2, <3>3, <3>4, RunEnds
  <2>3. CASE ~ Providers!Joins(d)
    <3>1. /\ call' = Append([call EXCEPT ![Providers!Top].at = "waiting",
                                         ![Providers!Top].on = Len(call) + 1], Providers!New(d))
          /\ stack' = Append(stack, Len(call'))
          /\ UNCHANGED <<config, version, instance, promise>>
      BY <1>2, <1>4, <1>8, <2>3 DEF Providers!Run
    <3> QED
      BY <1>1, <1>2, <1>4, <1>8, <2>1, <2>3, <3>1, RunCalls
  <2> QED
    BY <2>2, <2>3
<1> QED
  BY <1>5, <1>7, <1>8

\* Nothing is asked for anew when a call that nobody runs moves on.
LEMMA IdleMoves ==
  ASSUME ContainerAssumption, ContainerInv, Providers!Idle, NEW i \in DOMAIN call,
         call[i].at # "failed",
         call' \in Seq(CallRecord), SameCall(call, call', i), call'[i].on \in 0..Len(call),
         \/ stack' = <<>>
         \/ stack' = <<i>> /\ call'[i].at = "running" /\ call'[i].next > 1,
         instance' \in [Token -> Nat], promise' \in [Token -> 0..Len(call)],
         \A t \in Token : Kept(t) /\ (promise[t] # 0 \/ instance[t] # 0)
                            => promise'[t] # 0 \/ instance'[t] # 0,
         UNCHANGED <<config, version>>
  PROVE  ContainerInv'
<1>1. /\ ContainerTypes /\ Asked /\ TwiceFails /\ DOMAIN call = 1..Len(call)
      /\ \A j \in DOMAIN call : call[j].token \in Token
  BY ConfigTypes DEF ContainerInv
<1>2. Providers!Started = {}
  BY DEF Providers!Idle, Providers!Started
<1>3. Len(call') = Len(call) /\ DOMAIN call' = DOMAIN call
  BY DEF SameCall
<1>4. ASSUME NEW j \in DOMAIN call
      PROVE  /\ call'[j].token = call[j].token /\ call'[j].version = call[j].version
             /\ call'[j].on \in 0..Len(call)
             /\ call[j].at = "failed" => call'[j].at = "failed"
  <2>1. CASE j = i
    BY <2>1 DEF SameCall
  <2>2. CASE j # i
    BY <1>1, <2>2 DEF SameCall, ContainerTypes
  <2> QED
    BY <2>1, <2>2
<1>5. /\ stack' \in Seq(DOMAIN call') /\ Providers!Started' = {}
      /\ \A n \in DOMAIN stack' : n = 1 /\ Len(stack') = 1 /\ call'[stack'[n]].at = "running"
  <2>1. CASE stack' = <<>>
    BY <2>1 DEF Providers!Started
  <2>2. CASE stack' = <<i>> /\ call'[i].at = "running" /\ call'[i].next > 1
    <3>1. DOMAIN stack' = {1} /\ stack'[1] = i /\ Len(stack') = 1 /\ stack' \in Seq(DOMAIN call')
      BY <1>3, <2>2
    <3>2. call'[stack'[1]].next # 1
      BY <2>2, <3>1
    <3> QED
      BY <2>2, <3>1, <3>2 DEF Providers!Started
  <2> QED
    BY <2>1, <2>2
<1>6. ContainerTypes'
  BY <1>1, <1>3, <1>4, <1>5 DEF ContainerTypes
<1>7. StackSound'
  BY <1>5 DEF StackSound
<1>8. Asked'
  <2> SUFFICES ASSUME NEW j \in DOMAIN call, Kept(call[j].token)',
                      call'[j].version = version[call'[j].token]
               PROVE  promise'[call'[j].token] # 0 \/ instance'[call'[j].token] # 0
    BY <1>3 DEF Asked
  <2>1. /\ call'[j].token = call[j].token /\ call[j].version = version[call[j].token]
        /\ call[j].token \in Token
    BY <1>1, <1>4
  <2>2. Kept(call[j].token)
    BY <2>1 DEF Kept, Providers!Singleton
  <2>3. promise[call[j].token] # 0 \/ instance[call[j].token] # 0
    BY <1>1, <1>2, <2>1, <2>2 DEF Asked
  <2> QED
    BY <2>1, <2>2, <2>3
<1>9. Round'
  BY <1>5 DEF Round
<1>10. TwiceFails'
  <2> SUFFICES ASSUME NEW j \in DOMAIN call', NEW k \in DOMAIN call', Twice(j, k)'
               PROVE  Providers!Cyclic' /\ call'[j].at = "failed" /\ call'[k].at = "failed"
    BY Zenon DEF TwiceFails
  <2>1. Twice(j, k) /\ j \in DOMAIN call /\ k \in DOMAIN call
    BY <1>3, <1>4 DEF Twice, Kept, Providers!Singleton
  <2>2. Providers!Cyclic /\ call[j].at = "failed" /\ call[k].at = "failed"
    BY <1>1, <1>2, <2>1, TwiceEnds
  <2>3. Providers!Cyclic' <=> Providers!Cyclic
    BY DEF Providers!Cyclic
  <2> QED
    BY <1>4, <2>1, <2>2, <2>3
<1> QED
  BY <1>6, <1>7, <1>8, <1>9, <1>10 DEF ContainerInv

LEMMA MakeKeeps ==
  ASSUME ContainerAssumption, ContainerInv, NEW i \in DOMAIN call, Providers!Make(i)
  PROVE  ContainerInv'
<1>1. PICK end \in {"made", "failed"} : call' = AtSet(call, i, end)
  BY DEF Providers!Make, AtSet
<1>2. /\ Providers!Idle /\ call[i].at # "failed" /\ stack' = <<>>
      /\ UNCHANGED <<config, version, instance, promise>>
  BY DEF Providers!Make, Providers!Idle
<1>3. /\ call \in Seq(CallRecord) /\ end \in {"running", "waiting", "making", "made", "failed"}
      /\ call[i].on \in 0..Len(call)
      /\ instance \in [Token -> Nat] /\ promise \in [Token -> 0..Len(call)]
  BY DEF ContainerInv, ContainerTypes
<1>4. /\ AtSet(call, i, end) \in Seq(CallRecord) /\ SameCall(call, AtSet(call, i, end), i)
      /\ AtSet(call, i, end)[i].on = call[i].on
  BY <1>3, AtMoves
<1> QED
  BY <1>1, <1>2, <1>3, <1>4, IdleMoves

LEMMA ResumeKeeps ==
  ASSUME ContainerAssumption, ContainerInv, NEW i \in DOMAIN call, Providers!Resume(i)
  PROVE  ContainerInv'
<1>1. /\ Providers!Idle /\ call[i].at = "waiting" /\ UNCHANGED <<config, version>>
      /\ ContainerTypes /\ call \in Seq(CallRecord) /\ DOMAIN call = 1..Len(call)
      /\ call[i].on \in 0..Len(call) /\ Len(call) \in Nat
      /\ instance \in [Token -> Nat] /\ promise \in [Token -> 0..Len(call)]
  BY ConfigTypes DEF Providers!Resume, ContainerInv, ContainerTypes
<1>2. CASE call[i].on # 0 /\ call[call[i].on].at = "failed"
  <2>1. /\ call' = AtSet(call, i, "failed") /\ stack' = <<>> /\ UNCHANGED <<promise, instance>>
    BY <1>1, <1>2 DEF Providers!Resume, AtSet, Providers!Idle
  <2>2. /\ AtSet(call, i, "failed") \in Seq(CallRecord)
        /\ SameCall(call, AtSet(call, i, "failed"), i)
        /\ AtSet(call, i, "failed")[i].on = call[i].on
    BY <1>1, AtMoves
  <2> QED
    BY <1>1, <2>1, <2>2, IdleMoves
<1>3. CASE ~ (call[i].on # 0 /\ call[call[i].on].at = "failed")
  <2>1. /\ call' = GoesOn(call, i) /\ stack' = <<i>>
        /\ IF call[i].on = 0 THEN UNCHANGED <<promise, instance>> ELSE Providers!Keep(call[i].on)
    BY <1>1, <1>3 DEF Providers!Resume, GoesOn
  <2>2. /\ GoesOn(call, i) \in Seq(CallRecord) /\ SameCall(call, GoesOn(call, i), i)
        /\ GoesOn(call, i)[i].at = "running" /\ GoesOn(call, i)[i].on = 0
        /\ GoesOn(call, i)[i].next > 1
    BY <1>1, CallResumes
  <2>3. /\ instance' \in [Token -> Nat] /\ promise' \in [Token -> 0..Len(call)]
        /\ \A t \in Token : Kept(t) /\ (promise[t] # 0 \/ instance[t] # 0)
                              => promise'[t] # 0 \/ instance'[t] # 0
    <3>1. CASE call[i].on = 0
      BY <1>1, <2>1, <3>1
    <3>2. CASE call[i].on # 0
      <4>1. PICK on \in DOMAIN call : on = call[i].on
        BY <1>1, <3>2
      <4>2. Providers!Keep(on)
        BY <2>1, <3>2, <4>1
      <4> QED
        BY <1>1, <4>2, KeepHolds
    <3> QED
      BY <3>1, <3>2
  <2>4. 0 \in 0..Len(call)
    BY <1>1
  <2> QED
    BY <1>1, <2>1, <2>2, <2>3, <2>4, IdleMoves
<1> QED
  BY <1>2, <1>3

LEMMA AnsweredKeeps ==
  ASSUME ContainerAssumption, ContainerInv, NEW r \in Resolver, Providers!Answered(r)
  PROVE  ContainerInv'
<1>1. PICK on \in DOMAIN call : on = resolving[r]
  BY DEF Providers!Answered
<1>2. /\ Providers!Idle /\ stack' = <<>> /\ UNCHANGED <<config, version, call, stack>>
      /\ ContainerTypes /\ call \in Seq(CallRecord) /\ call[on].on \in 0..Len(call)
  BY DEF Providers!Answered, Providers!Idle, ContainerInv, ContainerTypes
<1>3. CASE call[on].at # "made"
  BY <1>1, <1>2, <1>3, ContainerStill DEF Providers!Answered
<1>4. CASE call[on].at = "made"
  <2>1. Providers!Keep(on)
    BY <1>1, <1>4 DEF Providers!Answered
  <2>2. SameCall(call, call', on) /\ call' \in Seq(CallRecord) /\ call'[on].on \in 0..Len(call)
    BY <1>2 DEF SameCall
  <2>3. /\ instance' \in [Token -> Nat] /\ promise' \in [Token -> 0..Len(call)]
        /\ \A t \in Token : Kept(t) /\ (promise[t] # 0 \/ instance[t] # 0)
                              => promise'[t] # 0 \/ instance'[t] # 0
    BY <1>2, <2>1, KeepHolds
  <2> QED
    BY <1>2, <1>4, <2>2, <2>3, IdleMoves
<1> QED
  BY <1>3, <1>4

LEMMA ContainerStep ==
  ASSUME ContainerAssumption, ContainerInv, [Providers!Next]_Providers!diVars
  PROVE  ContainerInv'
<1>1. CASE UNCHANGED Providers!diVars
  BY <1>1, ContainerStill DEF Providers!diVars
<1>2. CASE Providers!Next
  <2>1. ASSUME NEW t \in Token, Providers!Register(t) PROVE ContainerInv'
    BY <2>1, RegisterKeeps
  <2>2. ASSUME NEW t \in Token, NEW r \in Resolver, Providers!Resolve(r, t) PROVE ContainerInv'
    BY <2>2, ResolveKeeps
  <2>3. ASSUME NEW i \in DOMAIN call, Providers!Make(i) PROVE ContainerInv'
    BY <2>3, MakeKeeps
  <2>4. ASSUME NEW i \in DOMAIN call, Providers!Resume(i) PROVE ContainerInv'
    BY <2>4, ResumeKeeps
  <2>5. ASSUME NEW r \in Resolver, Providers!Answered(r) PROVE ContainerInv'
    BY <2>5, AnsweredKeeps
  <2> QED
    BY <1>2, <2>1, <2>2, <2>3, <2>4, <2>5, RunKeeps DEF Providers!Next, Providers!Progress
<1> QED
  BY <1>1, <1>2

LEMMA ContainerInit ==
  ASSUME ContainerAssumption, Providers!Init
  PROVE  ContainerInv
<1>1. /\ config \in Configs /\ call = <<>> /\ stack = <<>> /\ Len(call) = 0
      /\ version \in [Token -> Nat] /\ instance \in [Token -> Nat]
      /\ promise \in [Token -> 0..0] /\ DOMAIN call = {} /\ DOMAIN stack = {}
  BY DEF Providers!Init
<1>2. ContainerTypes
  BY <1>1 DEF ContainerTypes
<1> QED
  BY <1>1, <1>2 DEF ContainerInv, StackSound, Asked, Round, TwiceFails, Providers!Started

\* A registration of a singleton is made once: a second call for it exists only
\* where providers need each other in a cycle, and such calls fail together.
THEOREM MadeOnceHolds ==
  ASSUME ContainerAssumption
  PROVE  Providers!Spec => []MadeOnce
<1>1. ASSUME ContainerInv PROVE MadeOnce
  <2> SUFFICES ASSUME NEW i \in DOMAIN call, NEW j \in DOMAIN call, Twice(i, j)
               PROVE  "made" \notin {call[i].at, call[j].at} /\ Providers!Cyclic
    BY DEF MadeOnce, Providers!MadeOnce, Twice, Kept
  <2>1. TwiceFails /\ StackSound
    BY <1>1 DEF ContainerInv
  <2>2. ASSUME NEW m \in Providers!Started
        PROVE  call[stack[m]].at \in {"running", "waiting"}
    BY <2>1 DEF StackSound, Providers!Started
  <2> QED
    BY <2>1, <2>2, TwiceEnds
<1>2. Providers!Spec => []ContainerInv
  <2>1. Providers!Init => ContainerInv
    BY ContainerInit
  <2>2. ContainerInv /\ [Providers!Next]_Providers!diVars => ContainerInv'
    BY ContainerStep
  <2> QED
    BY <2>1, <2>2, PTL DEF Providers!Spec
<1> QED
  BY <1>1, <1>2, PTL

-----------------------------------------------------------------------------
(* The event buses. *)
BusEvent == 1..MaxEvents
HearWays == {"on", "once"}
EntryType == [h : Handler, way : HearWays, live : {"yes", "no"}]
LoopType == [bus : Bus, event : Nat, kind : {"emit", "async", "remote"}, set : Nat, next : Nat]
MessageType == [event : Nat, from : Bus]

BusTypes ==
  /\ sets \in [Bus -> Seq(Seq(EntryType))] /\ current \in [Bus -> Nat]
  /\ \A b \in Bus : current[b] \in DOMAIN sets[b] \cup {0}
  /\ running \in Seq(LoopType) /\ awaiting \in SUBSET LoopType
  /\ mail \in [Bus -> Seq(MessageType)] /\ emitted \in Nat
  /\ joined \in [Bus -> [Handler -> [HearWays -> Nat]]]
  /\ hears \in [Bus -> [Handler -> [HearWays -> [BusEvent -> Nat]]]]

\* No two loops deliver the same event on the same bus.
Alike(f, g) == f.bus = g.bus /\ f.event = g.event
LoopsIn(stk, aw) == {stk[i] : i \in DOMAIN stk} \cup aw
Apart(stk, aw) ==
  /\ \A i, j \in DOMAIN stk : Alike(stk[i], stk[j]) => i = j
  /\ \A i \in DOMAIN stk, f \in aw : ~ Alike(stk[i], f)
  /\ \A f, g \in aw : Alike(f, g) => f = g

\* A bus has not met an event.
Unmet(b, e, L) ==
  /\ \A f \in L : ~ (f.bus = b /\ f.event = e)
  /\ \A h \in Handler, w \in HearWays : hears[b][h][w][e] = 0
NoMessage(e) == \A b \in Bus : \A i \in DOMAIN mail[b] : mail[b][i].event # e
Foreign(b, i) == mail[b][i].from # b

\* While the loop it was emitted in runs, an event is nowhere else; afterwards a
\* message of another bus is the only one of its event, which its receiver has
\* not met.
Unborn(L) ==
  \A e \in BusEvent : e > emitted => NoMessage(e) /\ \A b \in Bus : Unmet(b, e, L)
AtOrigin(L) ==
  \A f \in L : f.kind # "remote" =>
    NoMessage(f.event) /\ \A b \in Bus \ {f.bus} : Unmet(b, f.event, L)
InMail(L) ==
  \A b \in Bus : \A i \in DOMAIN mail[b] :
    /\ mail[b][i].event \in BusEvent /\ mail[b][i].event <= emitted
    /\ Foreign(b, i) =>
         /\ Unmet(b, mail[b][i].event, L)
         /\ \A j \in DOMAIN mail[b] :
              Foreign(b, j) /\ mail[b][j].event = mail[b][i].event => i = j
Delivery(L) ==
  /\ \A f \in L : f.bus \in Bus /\ f.event \in BusEvent /\ f.event <= emitted
  /\ Unborn(L) /\ AtOrigin(L) /\ InMail(L)

\* A loop has called each entry it has passed once, at most, and what was ever
\* called of a once() is no longer in the Set.
Of(set, h, way) == {i \in DOMAIN set : set[i].h = h /\ set[i].way = way}
Passed(f, h) == {i \in Of(sets[f.bus][f.set], h, "on") : i < f.next}
LoopAt(f) ==
  /\ f.set \in DOMAIN sets[f.bus] \cup {0} /\ f.next # 0
  /\ f.set # 0 => f.next <= Len(sets[f.bus][f.set]) + 1
LoopCounts(f) ==
  \A h \in Handler :
    hears[f.bus][h]["on"][f.event] <= IF f.set = 0 THEN 0 ELSE Cardinality(Passed(f, h))
SetCounts ==
  \A b \in Bus, h \in Handler : \A k \in DOMAIN sets[b] :
    Cardinality(Of(sets[b][k], h, "on")) <= joined[b][h]["on"]
EventCounts ==
  \A b \in Bus, h \in Handler : \A e \in BusEvent : hears[b][h]["on"][e] <= joined[b][h]["on"]
LiveOnce(b, h) ==
  {i \in Buses!Live(Buses!CurrentSet(b)) : i \in Of(Buses!CurrentSet(b), h, "once")}
OnlyCurrentLives(b) ==
  \A k \in DOMAIN sets[b] : k # current[b] => Buses!Live(sets[b][k]) = {}
OnceCounts ==
  \A b \in Bus : b \notin cleared =>
    /\ OnlyCurrentLives(b)
    /\ \A h \in Handler :
         SumFunctionOnSet(hears[b][h]["once"], BusEvent) + Cardinality(LiveOnce(b, h))
           <= joined[b][h]["once"]

Counts(L) ==
  /\ SetCounts /\ EventCounts /\ OnceCounts
  /\ \A f \in L : LoopAt(f) /\ LoopCounts(f)

BusLoops == LoopsIn(running, awaiting)
BusInv == BusTypes /\ Apart(running, awaiting) /\ Delivery(BusLoops) /\ Counts(BusLoops)

-----------------------------------------------------------------------------
\* A loop is put in front of the others,
LEMMA ApartPush ==
  ASSUME NEW stk \in Seq(LoopType), NEW aw, Apart(stk, aw), NEW f \in LoopType,
         \A g \in LoopsIn(stk, aw) : ~ Alike(f, g)
  PROVE  /\ Apart(<<f>> \o stk, aw) /\ <<f>> \o stk \in Seq(LoopType)
         /\ LoopsIn(<<f>> \o stk, aw) = {f} \cup LoopsIn(stk, aw)
<1>1. PICK all : all = <<f>> \o stk
  OBVIOUS
<1>2. /\ all \in Seq(LoopType) /\ Len(stk) \in Nat /\ Len(all) = Len(stk) + 1
      /\ DOMAIN stk = 1..Len(stk) /\ DOMAIN all = 1..(Len(stk) + 1)
      /\ \A i \in DOMAIN all : all[i] = IF i = 1 THEN f ELSE stk[i - 1]
  BY <1>1
<1>3. \A i \in DOMAIN all : i # 1 => i - 1 \in DOMAIN stk /\ all[i] = stk[i - 1]
  BY <1>2
<1>4. 1 \in DOMAIN all /\ all[1] = f
  BY <1>2
<1>5. \A i \in DOMAIN stk : i + 1 \in DOMAIN all /\ all[i + 1] = stk[i]
  BY <1>2
<1>6. \A i \in DOMAIN stk : ~ Alike(f, stk[i]) /\ ~ Alike(stk[i], f)
  BY DEF LoopsIn, Alike
<1>7. \A i, j \in DOMAIN all : Alike(all[i], all[j]) => i = j
  <2> SUFFICES ASSUME NEW i \in DOMAIN all, NEW j \in DOMAIN all, Alike(all[i], all[j])
               PROVE  i = j
    OBVIOUS
  <2>1. i \in Nat /\ j \in Nat
    BY <1>2
  <2>2. CASE i = 1 \/ j = 1
    BY <1>3, <1>4, <1>6, <2>2
  <2>3. CASE i # 1 /\ j # 1
    BY <1>3, <2>1, <2>3 DEF Apart
  <2> QED
    BY <2>2, <2>3
<1>8. \A i \in DOMAIN all, g \in aw : ~ Alike(all[i], g)
  BY <1>3, <1>4 DEF Apart, LoopsIn
<1>9. {all[i] : i \in DOMAIN all} = {f} \cup {stk[i] : i \in DOMAIN stk}
  BY <1>3, <1>4, <1>5
<1>10. all \in Seq(LoopType) /\ LoopsIn(all, aw) = {f} \cup LoopsIn(stk, aw)
  BY <1>2, <1>9 DEF LoopsIn
<1>11. Apart(all, aw)
  BY <1>7, <1>8 DEF Apart
<1> QED
  BY <1>1, <1>10, <1>11

\* taken from the front,
LEMMA ApartPop ==
  ASSUME NEW stk \in Seq(LoopType), stk # <<>>, NEW aw, Apart(stk, aw)
  PROVE  /\ Apart(Tail(stk), aw) /\ Tail(stk) \in Seq(LoopType) /\ Head(stk) \in LoopType
         /\ LoopsIn(stk, aw) = {Head(stk)} \cup LoopsIn(Tail(stk), aw)
         /\ \A g \in LoopsIn(Tail(stk), aw) : ~ Alike(Head(stk), g)
<1>1. PICK rest : rest = Tail(stk)
  OBVIOUS
<1>2. /\ rest \in Seq(LoopType) /\ Len(stk) \in Nat /\ Len(stk) # 0 /\ Len(rest) = Len(stk) - 1
      /\ DOMAIN stk = 1..Len(stk) /\ DOMAIN rest = 1..(Len(stk) - 1)
      /\ \A i \in DOMAIN rest : rest[i] = stk[i + 1]
  BY <1>1
<1>3. 1 \in DOMAIN stk /\ Head(stk) = stk[1] /\ Head(stk) \in LoopType
  BY <1>2
<1>4. \A i \in DOMAIN rest : i \in Nat /\ i + 1 \in DOMAIN stk /\ i + 1 # 1 /\ rest[i] = stk[i + 1]
  BY <1>2
<1>5. \A i \in DOMAIN stk : i # 1 => i - 1 \in DOMAIN rest /\ rest[i - 1] = stk[i]
  BY <1>2
<1>6. \A i, j \in DOMAIN rest : Alike(rest[i], rest[j]) => i = j
  <2> SUFFICES ASSUME NEW i \in DOMAIN rest, NEW j \in DOMAIN rest, Alike(rest[i], rest[j])
               PROVE  i = j
    OBVIOUS
  <2>1. i + 1 = j + 1
    BY <1>4 DEF Apart
  <2> QED
    BY <1>4, <2>1
<1>7. \A i \in DOMAIN rest, g \in aw : ~ Alike(rest[i], g)
  BY <1>4 DEF Apart
<1>8. {stk[i] : i \in DOMAIN stk} = {Head(stk)} \cup {rest[i] : i \in DOMAIN rest}
  <2>1. \A i \in DOMAIN stk : stk[i] \in {Head(stk)} \cup {rest[j] : j \in DOMAIN rest}
    BY <1>3, <1>5
  <2>2. \A j \in DOMAIN rest : rest[j] \in {stk[i] : i \in DOMAIN stk}
    BY <1>4
  <2>3. Head(stk) \in {stk[i] : i \in DOMAIN stk}
    BY <1>3
  <2> QED
    BY <2>1, <2>2, <2>3
<1>9. \A g \in LoopsIn(rest, aw) : ~ Alike(Head(stk), g)
  BY <1>3, <1>4 DEF Apart, LoopsIn
<1> QED
  BY <1>1, <1>2, <1>3, <1>6, <1>7, <1>8, <1>9 DEF Apart, LoopsIn

\* or moves between the two, and no two loops become alike.
LEMMA ApartLeaves ==
  ASSUME NEW stk, NEW aw, Apart(stk, aw), NEW f \in aw
  PROVE  /\ Apart(stk, aw \ {f}) /\ LoopsIn(stk, aw) = {f} \cup LoopsIn(stk, aw \ {f})
         /\ \A g \in LoopsIn(stk, aw \ {f}) : ~ Alike(f, g)
BY DEF Apart, LoopsIn, Alike

\* A loop that awaits joins the others.
LEMMA ApartJoins ==
  ASSUME NEW stk, NEW aw, Apart(stk, aw), NEW f, \A g \in LoopsIn(stk, aw) : ~ Alike(f, g)
  PROVE  Apart(stk, aw \cup {f}) /\ LoopsIn(stk, aw \cup {f}) = {f} \cup LoopsIn(stk, aw)
<1>1. \A g \in LoopsIn(stk, aw) : ~ Alike(g, f)
  BY DEF Alike
<1> QED
  BY <1>1 DEF Apart, LoopsIn

-----------------------------------------------------------------------------
\* Where a bus met nothing new and no message came, events are where they were.
LEMMA DeliveryKeeps ==
  ASSUME BusTypes, BusTypes', NEW L, NEW M, Delivery(L), emitted' = emitted,
         \A f \in M : \E g \in L : Alike(f, g) /\ f.kind = g.kind,
         \A b \in Bus, e \in BusEvent : Unmet(b, e, L) =>
           \A h \in Handler, w \in HearWays : hears'[b][h][w][e] = 0,
         \A b \in Bus : \/ mail'[b] = mail[b] \/ mail'[b] = <<>>
                        \/ mail[b] # <<>> /\ mail'[b] = Tail(mail[b])
  PROVE  Delivery(M)'
<1>1. \A b \in Bus, e \in BusEvent : Unmet(b, e, L) => Unmet(b, e, M)'
  BY DEF Unmet, Alike
<1>2. ASSUME NEW b \in Bus
      PROVE  \E s \in {0, 1} : \A i \in DOMAIN mail'[b] :
               i \in Nat /\ i + s \in DOMAIN mail[b] /\ mail'[b][i] = mail[b][i + s]
  <2>0. mail[b] \in Seq(MessageType)
    BY DEF BusTypes
  <2>1. CASE mail'[b] = mail[b]
    <3>1. \A i \in DOMAIN mail'[b] : i \in Nat /\ i + 0 = i
      BY <2>0, <2>1
    <3> QED
      BY <2>1, <3>1
  <2>2. CASE mail'[b] = <<>>
    BY <2>2
  <2>3. CASE mail[b] # <<>> /\ mail'[b] = Tail(mail[b])
    <3>1. \A i \in DOMAIN mail'[b] :
            i \in Nat /\ i + 1 \in DOMAIN mail[b] /\ mail'[b][i] = mail[b][i + 1]
      BY <2>0, <2>3
    <3> QED
      BY <3>1
  <2> QED
    BY <2>1, <2>2, <2>3
<1>3. \A e : NoMessage(e) => NoMessage(e)'
  BY <1>2 DEF NoMessage
<1>4. Unborn(M)'
  BY <1>1, <1>3 DEF Delivery, Unborn
<1>5. AtOrigin(M)'
  <2> SUFFICES ASSUME NEW f \in M, f.kind # "remote"
               PROVE  (NoMessage(f.event) /\ \A b \in Bus \ {f.bus} : Unmet(b, f.event, M))'
    BY DEF AtOrigin
  <2>1. PICK g \in L : Alike(f, g) /\ f.kind = g.kind
    OBVIOUS
  <2>2. g.event = f.event /\ g.bus = f.bus /\ f.event \in BusEvent
    BY <2>1 DEF Alike, Delivery
  <2> QED
    BY <1>1, <1>3, <2>1, <2>2 DEF Delivery, AtOrigin
<1>6. InMail(M)'
  <2> SUFFICES ASSUME NEW b \in Bus, NEW i \in DOMAIN mail'[b]
               PROVE  (/\ mail[b][i].event \in BusEvent /\ mail[b][i].event <= emitted
                       /\ Foreign(b, i) =>
                            /\ Unmet(b, mail[b][i].event, M)
                            /\ \A j \in DOMAIN mail[b] :
                                 Foreign(b, j) /\ mail[b][j].event = mail[b][i].event => i = j)'
    BY DEF InMail
  <2>1. PICK s \in {0, 1} : \A j \in DOMAIN mail'[b] :
               j \in Nat /\ j + s \in DOMAIN mail[b] /\ mail'[b][j] = mail[b][j + s]
    BY <1>2
  <2>2. /\ mail[b][i + s].event \in BusEvent /\ mail[b][i + s].event <= emitted
        /\ Foreign(b, i + s) => Unmet(b, mail[b][i + s].event, L)
    BY <2>1 DEF Delivery, InMail
  <2>3. \A j \in DOMAIN mail'[b] : Foreign(b, j)' <=> Foreign(b, j + s)
    BY <2>1 DEF Foreign
  <2>4. ASSUME NEW j \in DOMAIN mail'[b], Foreign(b, i)', Foreign(b, j)',
               mail'[b][j].event = mail'[b][i].event
        PROVE  i = j
    <3>1. i + s = j + s
      BY <2>1, <2>3, <2>4 DEF Delivery, InMail
    <3> QED
      BY <2>1, <3>1
  <2> QED
    BY <1>1, <2>1, <2>2, <2>3, <2>4
<1>7. \A f \in M : f.bus \in Bus /\ f.event \in BusEvent /\ f.event <= emitted
  BY DEF Delivery, Alike
<1> QED
  BY <1>4, <1>5, <1>6, <1>7 DEF Delivery

\* A loop ends and hands its event to Redis, which has it for everyone at once.
LEMMA DeliveryPublishes ==
  ASSUME BusTypes, BusTypes', NEW L, NEW f \in L, Delivery(L), f.kind # "remote",
         \A g \in L \ {f} : ~ Alike(f, g), emitted' = emitted, hears' = hears,
         \A b \in Bus : \/ mail'[b] = mail[b]
                        \/ mail'[b] = Append(mail[b], [event |-> f.event, from |-> f.bus])
  PROVE  Delivery(L \ {f})'
<1>1. PICK e \in BusEvent : e = f.event /\ e <= emitted
  BY DEF Delivery
<1>2. NoMessage(e) /\ \A b \in Bus \ {f.bus} : Unmet(b, e, L)
  BY <1>1 DEF Delivery, AtOrigin
<1>3. \A b \in Bus : \A d : Unmet(b, d, L) => Unmet(b, d, L \ {f})'
  BY DEF Unmet
<1>4. ASSUME NEW b \in Bus, NEW i \in DOMAIN mail'[b]
      PROVE  \/ i \in DOMAIN mail[b] /\ mail'[b][i] = mail[b][i]
             \/ /\ mail'[b][i].event = e /\ mail'[b][i].from = f.bus
                /\ i = Len(mail[b]) + 1
  <2>1. mail[b] \in Seq(MessageType)
    BY DEF BusTypes
  <2> QED
    BY <1>1, <2>1
<1>5. \A g \in L \ {f} : g.kind # "remote" => g.event # e
  <2> SUFFICES ASSUME NEW g \in L \ {f}, g.kind # "remote", g.event = e PROVE FALSE
    OBVIOUS
  <2>1. g.bus # f.bus /\ g.bus \in Bus
    BY <1>1 DEF Alike, Delivery
  <2> QED
    BY <1>2, <2>1 DEF Unmet
<1>6. \A d : d # e => (NoMessage(d) => NoMessage(d)')
  BY <1>4 DEF NoMessage
<1>7. Unborn(L \ {f})'
  <2>1. \A d \in BusEvent : d > emitted => d # e
    BY <1>1 DEF BusTypes, BusEvent
  <2> QED
    BY <1>3, <1>6, <2>1 DEF Delivery, Unborn
<1>8. AtOrigin(L \ {f})'
  BY <1>3, <1>5, <1>6 DEF Delivery, AtOrigin
<1>9. InMail(L \ {f})'
  <2> SUFFICES ASSUME NEW b \in Bus, NEW i \in DOMAIN mail'[b]
               PROVE  (/\ mail[b][i].event \in BusEvent /\ mail[b][i].event <= emitted
                       /\ Foreign(b, i) =>
                            /\ Unmet(b, mail[b][i].event, L \ {f})
                            /\ \A j \in DOMAIN mail[b] :
                                 Foreign(b, j) /\ mail[b][j].event = mail[b][i].event => i = j)'
    BY DEF InMail
  <2>1. CASE i \in DOMAIN mail[b] /\ mail'[b][i] = mail[b][i]
    <3>1. mail[b][i].event # e
      BY <1>2, <2>1 DEF NoMessage
    <3>2. ASSUME NEW j \in DOMAIN mail'[b], Foreign(b, i)', Foreign(b, j)',
                 mail'[b][j].event = mail'[b][i].event
          PROVE  i = j
      <4>1. j \in DOMAIN mail[b] /\ mail'[b][j] = mail[b][j]
        BY <1>4, <2>1, <3>1, <3>2
      <4> QED
        BY <2>1, <3>2, <4>1 DEF Delivery, InMail, Foreign
    <3> QED
      BY <1>3, <2>1, <3>2 DEF Delivery, InMail, Foreign
  <2>2. CASE mail'[b][i].event = e /\ mail'[b][i].from = f.bus /\ i = Len(mail[b]) + 1
    <3>1. \A j \in DOMAIN mail'[b] : mail'[b][j].event = e => i = j
      BY <1>2, <1>4, <2>2 DEF NoMessage
    <3>2. Foreign(b, i)' => Unmet(b, e, L \ {f})'
      BY <1>2, <1>3, <2>2 DEF Foreign
    <3> QED
      BY <1>1, <2>2, <3>1, <3>2
  <2> QED
    BY <1>4, <2>1, <2>2
<1>10. \A g \in L \ {f} : g.bus \in Bus /\ g.event \in BusEvent /\ g.event <= emitted
  BY DEF Delivery
<1> QED
  BY <1>7, <1>8, <1>9, <1>10 DEF Delivery

\* An event is emitted where nothing has met it.
LEMMA DeliveryEmits ==
  ASSUME BusTypes, MaxEvents \in Nat, NEW L, Delivery(L), emitted < MaxEvents,
         emitted' = emitted + 1, hears' = hears, mail' = mail,
         NEW f \in LoopType, f.event = emitted + 1
  PROVE  Delivery({f} \cup L)' /\ \A b \in Bus : Unmet(b, f.event, L)
<1>1. PICK e \in BusEvent : e = emitted + 1 /\ e = f.event /\ e > emitted
  BY DEF BusTypes, BusEvent
<1>2. NoMessage(e) /\ \A b \in Bus : Unmet(b, e, L)
  BY <1>1 DEF Delivery, Unborn
<1>3. \A b \in Bus : \A d : d # e /\ Unmet(b, d, L) => Unmet(b, d, {f} \cup L)'
  BY <1>1 DEF Unmet
<1>4. \A b \in Bus : b # f.bus => Unmet(b, e, {f} \cup L)'
  BY <1>1, <1>2 DEF Unmet
<1>5. \A d : NoMessage(d) => NoMessage(d)'
  BY DEF NoMessage
<1>6. \A d \in BusEvent : d <= emitted => d # e /\ d <= emitted'
  BY <1>1 DEF BusTypes, BusEvent
<1>7. Unborn({f} \cup L)'
  <2>1. \A d \in BusEvent : d > emitted' => d # e /\ d > emitted
    BY <1>1 DEF BusTypes, BusEvent
  <2> QED
    BY <1>3, <1>5, <2>1 DEF Delivery, Unborn
<1>8. AtOrigin({f} \cup L)'
  <2>1. \A g \in L : g.event # e
    BY <1>6 DEF Delivery
  <2> QED
    BY <1>1, <1>2, <1>3, <1>4, <1>5, <2>1 DEF Delivery, AtOrigin
<1>9. InMail({f} \cup L)'
  BY <1>3, <1>6 DEF Delivery, InMail, Foreign
<1>10. \A g \in {f} \cup L : g.bus \in Bus /\ g.event \in BusEvent /\ g.event <= emitted'
  <2>1. f.bus \in Bus /\ e <= emitted'
    BY <1>1 DEF LoopType, BusTypes
  <2> QED
    BY <1>1, <1>6, <2>1 DEF Delivery
<1> QED
  BY <1>1, <1>2, <1>7, <1>8, <1>9, <1>10 DEF Delivery

\* A message of another bus starts a loop, where nothing has met its event.
LEMMA DeliveryReceives ==
  ASSUME BusTypes, BusTypes', NEW L, Delivery(L), emitted' = emitted, hears' = hears,
         NEW b \in Bus, mail[b] # <<>>, mail'[b] = Tail(mail[b]), Head(mail[b]).from # b,
         \A c \in Bus \ {b} : mail'[c] = mail[c],
         NEW f \in LoopType, f.bus = b, f.event = Head(mail[b]).event, f.kind = "remote"
  PROVE  Delivery({f} \cup L)' /\ Unmet(b, f.event, L)
<1>1. Delivery(L)'
  BY DeliveryKeeps DEF Alike, Unmet
<1>2. mail[b] \in Seq(MessageType) /\ 1 \in DOMAIN mail[b] /\ Head(mail[b]) = mail[b][1]
  BY DEF BusTypes
<1>3. PICK e \in BusEvent : e = f.event /\ e <= emitted
  BY <1>2 DEF Delivery, InMail
<1>4. Foreign(b, 1) /\ Unmet(b, e, L)
  BY <1>2, <1>3 DEF Delivery, InMail, Foreign
<1>5. \A c \in Bus : \A d : (c # b \/ d # e) /\ Unmet(c, d, L)' => Unmet(c, d, {f} \cup L)'
  BY <1>3 DEF Unmet
<1>6. \A i \in DOMAIN mail'[b] : mail'[b][i].from # b => mail'[b][i].event # e
  <2> SUFFICES ASSUME NEW i \in DOMAIN mail'[b], mail'[b][i].from # b, mail'[b][i].event = e
               PROVE  FALSE
    OBVIOUS
  <2>1. i + 1 \in DOMAIN mail[b] /\ mail'[b][i] = mail[b][i + 1] /\ i + 1 # 1
    BY <1>2
  <2> QED
    BY <1>2, <1>3, <1>4, <2>1 DEF Delivery, InMail, Foreign
<1>7. Unborn({f} \cup L)'
  <2>1. \A d \in BusEvent : d > emitted => d # e
    BY <1>3 DEF BusTypes, BusEvent
  <2> QED
    BY <1>1, <1>5, <2>1 DEF Delivery, Unborn
<1>8. AtOrigin({f} \cup L)'
  <2>1. \A g \in L : g.kind # "remote" => g.event # e
    BY <1>2, <1>3 DEF Delivery, AtOrigin, NoMessage
  <2> QED
    BY <1>1, <1>5, <2>1 DEF Delivery, AtOrigin
<1>9. InMail({f} \cup L)'
  <2> SUFFICES ASSUME NEW c \in Bus, NEW i \in DOMAIN mail'[c]
               PROVE  (/\ mail[c][i].event \in BusEvent /\ mail[c][i].event <= emitted
                       /\ Foreign(c, i) =>
                            /\ Unmet(c, mail[c][i].event, {f} \cup L)
                            /\ \A j \in DOMAIN mail[c] :
                                 Foreign(c, j) /\ mail[c][j].event = mail[c][i].event => i = j)'
    BY DEF InMail
  <2>1. (/\ mail[c][i].event \in BusEvent /\ mail[c][i].event <= emitted
         /\ Foreign(c, i) =>
              /\ Unmet(c, mail[c][i].event, L)
              /\ \A j \in DOMAIN mail[c] :
                   Foreign(c, j) /\ mail[c][j].event = mail[c][i].event => i = j)'
    BY <1>1 DEF Delivery, InMail
  <2>2. Foreign(c, i)' => c # b \/ mail'[c][i].event # e
    BY <1>6 DEF Foreign
  <2> QED
    BY <1>5, <2>1, <2>2
<1>10. \A g \in {f} \cup L : g.bus \in Bus /\ g.event \in BusEvent /\ g.event <= emitted'
  BY <1>3 DEF Delivery
<1> QED
  BY <1>3, <1>4, <1>7, <1>8, <1>9, <1>10 DEF Delivery

-----------------------------------------------------------------------------
\* Positions in a Set can be counted.
LEMMA Positions ==
  ASSUME NEW set \in Seq(EntryType), NEW T \in SUBSET DOMAIN set, NEW S \in SUBSET T
  PROVE  /\ IsFiniteSet(S) /\ IsFiniteSet(T)
         /\ Cardinality(S) \in Nat /\ Cardinality(T) \in Nat /\ Cardinality(S) <= Cardinality(T)
         /\ \A i \in T : i \notin S => Cardinality(S) + 1 <= Cardinality(T)
<1>1. IsFiniteSet(DOMAIN set)
  <2>1. DOMAIN set = 1..Len(set) /\ Len(set) \in Nat
    OBVIOUS
  <2> QED
    BY <2>1, FS_Interval
<1>2. IsFiniteSet(T) /\ IsFiniteSet(S) /\ Cardinality(S) \in Nat /\ Cardinality(T) \in Nat
  BY <1>1, FS_Subset, FS_CardinalityType
<1>3. Cardinality(S) <= Cardinality(T)
  BY <1>2, FS_Subset
<1>4. ASSUME NEW i \in T, i \notin S PROVE Cardinality(S) + 1 <= Cardinality(T)
  <2>1. IsFiniteSet(S \cup {i}) /\ Cardinality(S \cup {i}) = Cardinality(S) + 1
    BY <1>2, <1>4, FS_AddElement
  <2> QED
    BY <1>2, <2>1, FS_Subset
<1> QED
  BY <1>2, <1>3, <1>4

\* The Sets are sequences of entries, and the counters count.
LEMMA SetType ==
  ASSUME BusTypes, NEW b \in Bus, NEW k \in DOMAIN sets[b]
  PROVE  sets[b][k] \in Seq(EntryType) /\ Len(sets[b][k]) \in Nat
<1>1. sets[b] \in Seq(Seq(EntryType))
  BY DEF BusTypes
<1>2. sets[b][k] \in Seq(EntryType)
  BY <1>1
<1> QED
  BY <1>2

\* What is counted is numbers.
LEMMA CountersType ==
  ASSUME BusTypes, BusTypes'
  PROVE  \A b \in Bus, h \in Handler, w \in {"on", "once"} :
           /\ joined[b][h][w] \in Nat
           /\ hears[b][h][w] \in [BusEvent -> Nat] /\ hears'[b][h][w] \in [BusEvent -> Nat]
<1>1. ASSUME NEW b \in Bus, NEW h \in Handler, NEW w \in HearWays
      PROVE  /\ joined[b][h][w] \in Nat
             /\ hears[b][h][w] \in [BusEvent -> Nat] /\ hears'[b][h][w] \in [BusEvent -> Nat]
  <2>1. joined[b][h][w] \in Nat
    BY DEF BusTypes
  <2>2. hears[b][h][w] \in [BusEvent -> Nat]
    BY DEF BusTypes
  <2>3. hears'[b][h][w] \in [BusEvent -> Nat]
    BY DEF BusTypes
  <2> QED
    BY <2>1, <2>2, <2>3
<1> QED
  BY <1>1 DEF HearWays

\* Entries stay where they are, whose they are; a Set may grow.
Grows(b) ==
  \A k \in DOMAIN sets[b] :
    /\ k \in DOMAIN sets'[b] /\ Len(sets[b][k]) <= Len(sets'[b][k])
    /\ \A i \in DOMAIN sets[b][k] :
         /\ i \in DOMAIN sets'[b][k]
         /\ sets'[b][k][i].h = sets[b][k][i].h /\ sets'[b][k][i].way = sets[b][k][i].way
\* No entry comes, no entry revives, and only a Set that is empty leaves the map.
Fades(b) ==
  /\ DOMAIN sets'[b] = DOMAIN sets[b]
  /\ \A k \in DOMAIN sets[b] :
       /\ DOMAIN sets'[b][k] = DOMAIN sets[b][k]
       /\ Buses!Live(sets'[b][k]) \subseteq Buses!Live(sets[b][k])
InMap(b) ==
  \/ current'[b] = current[b]
  \/ current'[b] = 0 /\ current[b] # 0 /\ Buses!Live(sets'[b][current[b]]) = {}

\* A loop that calls nobody keeps its counts while Sets only grow.
LEMMA LoopKeeps ==
  ASSUME BusTypes, BusTypes', NEW f, f.bus \in Bus, f.event \in BusEvent, f.next \in Nat,
         Grows(f.bus), LoopAt(f), LoopCounts(f),
         \A h \in Handler : hears'[f.bus][h]["on"][f.event] = hears[f.bus][h]["on"][f.event]
  PROVE  LoopAt(f)' /\ LoopCounts(f)'
<1>k. PICK k : k = f.set
  OBVIOUS
<1>1. PICK b \in Bus : b = f.bus
  OBVIOUS
<1>2. sets[b] \in Seq(Seq(EntryType)) /\ sets'[b] \in Seq(Seq(EntryType))
  BY DEF BusTypes
<1>3. k \in DOMAIN sets'[b] \cup {0}
  BY <1>1, <1>k DEF Grows, LoopAt
<1>4. CASE k = 0
  BY <1>1, <1>k, <1>3, <1>4 DEF LoopAt, LoopCounts
<1>5. CASE k # 0
  <2>1. k \in DOMAIN sets[b] /\ k \in DOMAIN sets'[b]
    BY <1>1, <1>k, <1>5 DEF Grows, LoopAt
  <2>2. sets[b][k] \in Seq(EntryType) /\ sets'[b][k] \in Seq(EntryType)
    BY <1>2, <2>1
  <2>3. f.next <= Len(sets'[b][k]) + 1
    <3>1. f.next <= Len(sets[b][k]) + 1 /\ Len(sets[b][k]) <= Len(sets'[b][k])
      BY <1>1, <1>k, <1>5, <2>1 DEF LoopAt, Grows
    <3> QED
      BY <2>2, <3>1
  <2>4. ASSUME NEW h \in Handler
        PROVE  hears'[b][h]["on"][f.event] <= Cardinality(Passed(f, h)')
    <3>1. Passed(f, h) \subseteq Passed(f, h)' /\ Passed(f, h)' \subseteq DOMAIN sets'[b][k]
      BY <1>1, <1>k, <2>1 DEF Passed, Of, Grows
    <3>2. /\ Cardinality(Passed(f, h)) \in Nat /\ Cardinality(Passed(f, h)') \in Nat
          /\ Cardinality(Passed(f, h)) <= Cardinality(Passed(f, h)')
      <4>1. PICK S, T : S = Passed(f, h) /\ T = Passed(f, h)'
        OBVIOUS
      <4> QED
        BY <2>2, <3>1, <4>1, Positions
    <3>3. hears[b][h]["on"][f.event] <= Cardinality(Passed(f, h))
      BY <1>1, <1>k, <1>5 DEF LoopCounts
    <3>4. hears[b][h]["on"][f.event] \in Nat
      <4>1. hears[b][h]["on"] \in [BusEvent -> Nat]
        BY CountersType
      <4> QED
        BY <4>1
    <3> QED
      BY <1>1, <1>k, <3>2, <3>3, <3>4
  <2>5. LoopAt(f)'
    BY <1>1, <1>k, <1>3, <2>3 DEF LoopAt
  <2> QED
    BY <1>1, <1>k, <1>5, <2>4, <2>5 DEF LoopCounts
<1> QED
  BY <1>4, <1>5

\* off(): one entry fades.
LEMMA OffFades ==
  ASSUME BusTypes, NEW b \in Bus, NEW i \in Buses!Live(Buses!CurrentSet(b)), Buses!Off(b, i)
  PROVE  /\ sets' \in [Bus -> Seq(Seq(EntryType))] /\ current' \in [Bus -> Nat]
         /\ \A c \in Bus : /\ current'[c] \in DOMAIN sets'[c] \cup {0}
                           /\ Grows(c) /\ Fades(c) /\ InMap(c)
         /\ current[b] \in DOMAIN sets[b]
         /\ i \notin Buses!Live(sets'[b][current[b]])
<1>1. PICK k : k = current[b]
  OBVIOUS
<1>2. k \in DOMAIN sets[b] /\ k # 0 /\ k \in Nat /\ Buses!CurrentSet(b) = sets[b][k]
  <2>1. current[b] # 0
    BY DEF Buses!CurrentSet, Buses!None, Buses!Live
  <2> QED
    BY <1>1, <2>1 DEF Buses!CurrentSet, Buses!None, BusTypes
<1>3. PICK all : all = sets[b]
  OBVIOUS
<1>4. PICK set : set = all[k]
  OBVIOUS
<1>5. /\ all \in Seq(Seq(EntryType)) /\ set \in Seq(EntryType)
      /\ i \in DOMAIN set /\ set[i] \in EntryType
  <2>1. all \in Seq(Seq(EntryType))
    BY <1>3 DEF BusTypes
  <2>2. set \in Seq(EntryType)
    BY <1>2, <1>3, <1>4, <2>1
  <2>3. i \in DOMAIN set
    BY <1>2, <1>3, <1>4 DEF Buses!Live
  <2> QED
    BY <2>1, <2>2, <2>3
<1>6. PICK rest : rest = [set EXCEPT ![i].live = "no"]
  OBVIOUS
<1>7. /\ rest \in Seq(EntryType) /\ DOMAIN rest = DOMAIN set
      /\ \A j \in DOMAIN set : rest[j].h = set[j].h /\ rest[j].way = set[j].way
                               /\ (j # i => rest[j] = set[j])
      /\ rest[i].live = "no"
  <2>1. PICK gone : gone = [set[i] EXCEPT !.live = "no"]
    OBVIOUS
  <2>2. gone \in EntryType /\ gone.h = set[i].h /\ gone.way = set[i].way /\ gone.live = "no"
    BY <1>5, <2>1 DEF EntryType
  <2>3. rest = [set EXCEPT ![i] = gone]
    BY <1>5, <1>6, <2>1
  <2>4. rest \in Seq(EntryType) /\ Len(rest) = Len(set)
    BY <1>5, <2>2, <2>3, ExceptSeq
  <2>5. DOMAIN rest = DOMAIN set /\ \A j \in DOMAIN set : rest[j] = IF j = i THEN gone ELSE set[j]
    BY <2>3
  <2> QED
    BY <1>5, <2>2, <2>4, <2>5
<1>8. PICK sall : sall = [all EXCEPT ![k] = rest]
  OBVIOUS
<1>9. /\ sall \in Seq(Seq(EntryType)) /\ DOMAIN sall = DOMAIN all
      /\ \A j \in DOMAIN all : sall[j] = IF j = k THEN rest ELSE all[j]
  <2>1. k \in DOMAIN all
    BY <1>2, <1>3
  <2>2. sall \in Seq(Seq(EntryType)) /\ Len(sall) = Len(all)
    BY <1>5, <1>7, <1>8, <2>1, ExceptSeq
  <2> QED
    BY <1>8, <2>2
<1>10. sets' = [sets EXCEPT ![b] = sall]
  <2>1. sets' = [sets EXCEPT ![b][current[b]] = [Buses!CurrentSet(b) EXCEPT ![i].live = "no"]]
    BY DEF Buses!Off
  <2> QED
    BY <1>1, <1>2, <1>3, <1>4, <1>6, <1>8, <2>1
<1>11. sets' \in [Bus -> Seq(Seq(EntryType))] /\ sets'[b] = sall
       /\ \A c \in Bus \ {b} : sets'[c] = sets[c]
  BY <1>9, <1>10 DEF BusTypes
<1>12. current' = IF Buses!Live(rest) = {} THEN [current EXCEPT ![b] = 0] ELSE current
  <2>1. rest = [Buses!CurrentSet(b) EXCEPT ![i].live = "no"]
    BY <1>2, <1>3, <1>4, <1>6
  <2> QED
    BY <2>1 DEF Buses!Off, Buses!None
<1>13. /\ current' \in [Bus -> Nat] /\ \A c \in Bus \ {b} : current'[c] = current[c]
       /\ \/ current'[b] = current[b]
          \/ current'[b] = 0 /\ Buses!Live(rest) = {}
  BY <1>12 DEF BusTypes
<1>14. sets'[b][k] = rest
  BY <1>2, <1>3, <1>9, <1>11
<1>15. ASSUME NEW c \in Bus
       PROVE  current'[c] \in DOMAIN sets'[c] \cup {0} /\ Grows(c) /\ Fades(c) /\ InMap(c)
  <2>1. CASE c = b
    <3>1. Buses!Live(rest) \subseteq Buses!Live(set)
      BY <1>7 DEF Buses!Live
    <3>2. DOMAIN sets'[c] = DOMAIN sets[c] /\ \A j \in DOMAIN sets[c] :
            /\ DOMAIN sets'[c][j] = DOMAIN sets[c][j]
            /\ Buses!Live(sets'[c][j]) \subseteq Buses!Live(sets[c][j])
            /\ \A m \in DOMAIN sets[c][j] : /\ sets'[c][j][m].h = sets[c][j][m].h
                                            /\ sets'[c][j][m].way = sets[c][j][m].way
      <4>1. sets'[c] = sall /\ sets[c] = all
        BY <1>3, <1>11, <2>1
      <4>2. ASSUME NEW j \in DOMAIN all
            PROVE  /\ DOMAIN sall[j] = DOMAIN all[j]
                   /\ Buses!Live(sall[j]) \subseteq Buses!Live(all[j])
                   /\ \A m \in DOMAIN all[j] : /\ sall[j][m].h = all[j][m].h
                                                /\ sall[j][m].way = all[j][m].way
        <5>1. CASE j = k
          BY <1>4, <1>7, <1>9, <3>1, <5>1
        <5>2. CASE j # k
          BY <1>9, <5>2
        <5> QED
          BY <5>1, <5>2
      <4> QED
        BY <1>9, <4>1, <4>2
    <3>3. Fades(c)
      BY <3>2 DEF Fades, Buses!Live
    <3>4. Grows(c)
      <4> SUFFICES ASSUME NEW j \in DOMAIN sets[c] PROVE Len(sets[c][j]) <= Len(sets'[c][j])
        BY <3>2 DEF Grows
      <4>1. sets[c][j] \in Seq(EntryType)
        BY SetType
      <4>2. sets'[c][j] \in Seq(EntryType)
        BY <1>11, <3>2
      <4> QED
        BY <3>2, <4>1, <4>2
    <3>5. InMap(c)
      BY <1>1, <1>2, <1>13, <1>14, <2>1 DEF InMap
    <3> QED
      BY <1>13, <2>1, <3>2, <3>3, <3>4, <3>5 DEF BusTypes
  <2>2. CASE c # b
    <3>1. sets'[c] = sets[c] /\ current'[c] = current[c]
      BY <1>11, <1>13, <2>2
    <3>2. \A j \in DOMAIN sets[c] : Len(sets[c][j]) <= Len(sets[c][j])
      <4> SUFFICES ASSUME NEW j \in DOMAIN sets[c] PROVE Len(sets[c][j]) <= Len(sets[c][j])
        OBVIOUS
      <4> QED
        BY SetType
    <3> QED
      BY <3>1, <3>2 DEF Grows, Fades, InMap, BusTypes, Buses!Live
  <2> QED
    BY <2>1, <2>2
<1>16. i \notin Buses!Live(sets'[b][current[b]])
  BY <1>1, <1>7, <1>14 DEF Buses!Live
<1> QED
  BY <1>1, <1>2, <1>11, <1>13, <1>15, <1>16

\* Sets that stay grow and fade by nothing.
LEMMA StayKeeps ==
  ASSUME BusTypes, NEW b \in Bus, sets' = sets
  PROVE  Grows(b) /\ Fades(b) /\ (current' = current => InMap(b))
<1>1. \A k \in DOMAIN sets[b] : Len(sets[b][k]) <= Len(sets[b][k])
  <2> SUFFICES ASSUME NEW k \in DOMAIN sets[b] PROVE Len(sets[b][k]) <= Len(sets[b][k])
    OBVIOUS
  <2>1. sets[b][k] \in Seq(EntryType)
    BY DEF BusTypes
  <2> QED
    BY <2>1
<1> QED
  BY <1>1 DEF Grows, Fades, InMap

\* Where nothing comes, the counts of the entries stay, and the once() of a bus
\* that was not cleared only become fewer.
LEMMA FadesKeep ==
  ASSUME BusTypes, BusTypes', NEW b \in Bus, Grows(b), Fades(b)
  PROVE  /\ \A k \in DOMAIN sets'[b], h \in Handler :
              k \in DOMAIN sets[b] /\ Of(sets'[b][k], h, "on") = Of(sets[b][k], h, "on")
         /\ InMap(b) /\ OnlyCurrentLives(b) =>
              /\ OnlyCurrentLives(b)'
              /\ \A h \in Handler : /\ LiveOnce(b, h)' \subseteq LiveOnce(b, h)
                                    /\ current[b] = 0 => LiveOnce(b, h)' = {}
<1>1. ASSUME NEW k \in DOMAIN sets'[b], NEW h \in Handler
      PROVE  k \in DOMAIN sets[b] /\ Of(sets'[b][k], h, "on") = Of(sets[b][k], h, "on")
  BY <1>1 DEF Fades, Grows, Of
<1>2. ASSUME InMap(b), OnlyCurrentLives(b)
      PROVE  /\ OnlyCurrentLives(b)'
             /\ \A h \in Handler : /\ LiveOnce(b, h)' \subseteq LiveOnce(b, h)
                                   /\ current[b] = 0 => LiveOnce(b, h)' = {}
  <2>1. \A k \in DOMAIN sets[b] : Buses!Live(sets'[b][k]) \subseteq Buses!Live(sets[b][k])
    BY DEF Fades, Buses!Live
  <2>2. OnlyCurrentLives(b)'
    <3> SUFFICES ASSUME NEW k \in DOMAIN sets'[b], k # current'[b]
                 PROVE  Buses!Live(sets'[b][k]) = {}
      BY DEF OnlyCurrentLives, Buses!Live
    <3>1. k \in DOMAIN sets[b]
      BY DEF Fades
    <3> QED
      BY <1>2, <2>1, <3>1 DEF OnlyCurrentLives, InMap
  <2>3. Buses!Live(<<>>) = {}
    BY DEF Buses!Live
  <2>4. current'[b] = 0 => \A h \in Handler : LiveOnce(b, h)' = {}
    BY <2>3 DEF LiveOnce, Buses!CurrentSet, Buses!None, Buses!Live
  <2>5. ASSUME current'[b] # 0
        PROVE  current[b] # 0 /\ \A h \in Handler : LiveOnce(b, h)' \subseteq LiveOnce(b, h)
    <3>1. PICK k : k = current[b] /\ k = current'[b] /\ k # 0
      BY <1>2, <2>5 DEF InMap
    <3>2. k \in DOMAIN sets[b]
      BY <3>1 DEF BusTypes
    <3>3. \A h \in Handler :
            /\ LiveOnce(b, h)' =
                 {i \in Buses!Live(sets'[b][k]) : i \in Of(sets'[b][k], h, "once")}
            /\ LiveOnce(b, h) = {i \in Buses!Live(sets[b][k]) : i \in Of(sets[b][k], h, "once")}
      BY <3>1 DEF LiveOnce, Buses!CurrentSet, Buses!None, Buses!Live, Of
    <3>4. \A h \in Handler : Of(sets'[b][k], h, "once") = Of(sets[b][k], h, "once")
      BY <3>2 DEF Fades, Grows, Of
    <3> QED
      BY <2>1, <3>1, <3>2, <3>3, <3>4
  <2> QED
    BY <2>2, <2>4, <2>5
<1> QED
  BY <1>1, <1>2

\* The once() entries of a bus are positions of a Set, and its calls have a sum.
LEMMA LiveOnceIs ==
  ASSUME BusTypes, NEW b \in Bus
  PROVE  /\ Buses!CurrentSet(b) \in Seq(EntryType)
         /\ \A h \in Handler : LiveOnce(b, h) \subseteq DOMAIN Buses!CurrentSet(b)
<1>1. Buses!CurrentSet(b) \in Seq(EntryType)
  <2>1. sets[b] \in Seq(Seq(EntryType)) /\ current[b] \in DOMAIN sets[b] \cup {0}
    BY DEF BusTypes
  <2>2. CASE current[b] = 0
    BY <2>2 DEF Buses!CurrentSet, Buses!None
  <2>3. CASE current[b] # 0
    <3>1. sets[b][current[b]] \in Seq(EntryType)
      BY <2>1, <2>3
    <3> QED
      BY <2>3, <3>1 DEF Buses!CurrentSet, Buses!None
  <2> QED
    BY <2>2, <2>3
<1> QED
  BY <1>1 DEF LiveOnce, Buses!Live

\* The calls of a handler can be summed over the events.
LEMMA CallsSum ==
  ASSUME MaxEvents \in Nat, NEW f \in [BusEvent -> Nat]
  PROVE  IsFiniteSet(BusEvent) /\ SumFunctionOnSet(f, BusEvent) \in Int
<1>1. IsFiniteSet(BusEvent)
  BY FS_Interval DEF BusEvent
<1>2. \A e \in BusEvent : f[e] \in Int
  OBVIOUS
<1> QED
  BY <1>1, <1>2, SumType

\* What is not a call and adds no entry keeps the counts.
LEMMA CountsFade ==
  ASSUME MaxEvents \in Nat, BusTypes, BusTypes', NEW L, Counts(L),
         joined' = joined, hears' = hears, cleared \subseteq cleared',
         \A b \in Bus : Grows(b) /\ Fades(b) /\ (b \notin cleared' => InMap(b)),
         NEW M,
         \A f \in M : \/ f \in L /\ f.bus \in Bus /\ f.event \in BusEvent /\ f.next \in Nat
                      \/ LoopAt(f)' /\ LoopCounts(f)'
  PROVE  Counts(M)'
<1>1. SetCounts'
  BY FadesKeep DEF Counts, SetCounts
<1>2. EventCounts'
  BY DEF Counts, EventCounts
<1>3. OnceCounts'
  <2> SUFFICES ASSUME NEW b \in Bus, b \notin cleared'
               PROVE  /\ OnlyCurrentLives(b)'
                      /\ \A h \in Handler :
                           SumFunctionOnSet(hears[b][h]["once"], BusEvent)
                             + Cardinality(LiveOnce(b, h)') <= joined[b][h]["once"]
    BY DEF OnceCounts
  <2>1. /\ OnlyCurrentLives(b)
        /\ \A h \in Handler :
             SumFunctionOnSet(hears[b][h]["once"], BusEvent) + Cardinality(LiveOnce(b, h))
               <= joined[b][h]["once"]
    BY DEF Counts, OnceCounts
  <2>2. OnlyCurrentLives(b)' /\ \A h \in Handler : LiveOnce(b, h)' \subseteq LiveOnce(b, h)
    BY <2>1, FadesKeep
  <2>3. ASSUME NEW h \in Handler
        PROVE  SumFunctionOnSet(hears[b][h]["once"], BusEvent)
                             + Cardinality(LiveOnce(b, h)') <= joined[b][h]["once"]
    <3>1. PICK S, T : S = LiveOnce(b, h)' /\ T = LiveOnce(b, h)
      OBVIOUS
    <3>2. Cardinality(S) \in Nat /\ Cardinality(T) \in Nat /\ Cardinality(S) <= Cardinality(T)
      BY <2>2, <3>1, LiveOnceIs, Positions
    <3>3. joined[b][h]["once"] \in Nat /\ hears[b][h]["once"] \in [BusEvent -> Nat]
      BY DEF BusTypes, HearWays
    <3>4. PICK n : n = SumFunctionOnSet(hears[b][h]["once"], BusEvent) /\ n \in Int
      BY <3>3, CallsSum
    <3>5. n + Cardinality(T) <= joined[b][h]["once"]
      BY <2>1, <3>1, <3>4
    <3>6. n + Cardinality(S) <= joined[b][h]["once"]
      BY <3>2, <3>3, <3>4, <3>5
    <3> QED
      BY <3>1, <3>4, <3>6
  <2> QED
    BY <2>2, <2>3
<1>4. \A f \in M : LoopAt(f)' /\ LoopCounts(f)'
  <2> SUFFICES ASSUME NEW f \in L, f.bus \in Bus, f.event \in BusEvent, f.next \in Nat
               PROVE  LoopAt(f)' /\ LoopCounts(f)'
    OBVIOUS
  <2>1. LoopAt(f) /\ LoopCounts(f)
    BY DEF Counts
  <2> QED
    BY <2>1, LoopKeeps
<1> QED
  BY <1>1, <1>2, <1>3, <1>4 DEF Counts

\* A loop calls the handler of an entry.
HearsAnother(b, h, w, e) == hears' = [hears EXCEPT ![b][h][w][e] = @ + 1]

\* A call is one more of its event on its bus, in its way, and of no other.
LEMMA HearsOne ==
  ASSUME BusTypes, NEW f \in LoopType, f.event \in BusEvent, NEW h \in Handler, NEW w \in HearWays,
         HearsAnother(f.bus, h, w, f.event)
  PROVE  /\ hears' \in [Bus -> [Handler -> [HearWays -> [BusEvent -> Nat]]]]
         /\ \A c \in Bus, g \in Handler, v \in HearWays, e \in BusEvent :
              hears'[c][g][v][e] = IF c = f.bus /\ g = h /\ v = w /\ e = f.event
                                     THEN hears[c][g][v][e] + 1 ELSE hears[c][g][v][e]
         /\ \A c \in Bus, g \in Handler, v \in HearWays :
              ~ (c = f.bus /\ g = h /\ v = w) => hears'[c][g][v] = hears[c][g][v]
<1>1. PICK b \in Bus, e \in BusEvent : b = f.bus /\ e = f.event
  BY DEF LoopType
<1>2. PICK calls : calls = [hears[b][h][w] EXCEPT ![e] = @ + 1]
  OBVIOUS
<1>3. hears[b][h][w] \in [BusEvent -> Nat]
  BY DEF BusTypes
<1>4. calls \in [BusEvent -> Nat] /\ \A d \in BusEvent :
        calls[d] = IF d = e THEN hears[b][h][w][d] + 1 ELSE hears[b][h][w][d]
  BY <1>2, <1>3
<1>5. hears' = [hears EXCEPT ![b][h][w] = calls]
  BY <1>1, <1>2 DEF HearsAnother
<1>6. PICK ways : ways = [hears[b][h] EXCEPT ![w] = calls]
  OBVIOUS
<1>7. PICK all : all = [hears[b] EXCEPT ![h] = ways]
  OBVIOUS
<1>8. hears' = [hears EXCEPT ![b] = all]
  BY <1>5, <1>6, <1>7
<1>9. /\ ways \in [HearWays -> [BusEvent -> Nat]]
      /\ \A v \in HearWays : ways[v] = IF v = w THEN calls ELSE hears[b][h][v]
  <2>1. hears[b][h] \in [HearWays -> [BusEvent -> Nat]]
    BY DEF BusTypes
  <2> QED
    BY <1>4, <1>6, <2>1
<1>10. /\ all \in [Handler -> [HearWays -> [BusEvent -> Nat]]]
       /\ \A g \in Handler : all[g] = IF g = h THEN ways ELSE hears[b][g]
  <2>1. hears[b] \in [Handler -> [HearWays -> [BusEvent -> Nat]]]
    BY DEF BusTypes
  <2> QED
    BY <1>7, <1>9, <2>1
<1>11. /\ hears' \in [Bus -> [Handler -> [HearWays -> [BusEvent -> Nat]]]]
       /\ \A c \in Bus : hears'[c] = IF c = b THEN all ELSE hears[c]
  BY <1>8, <1>10 DEF BusTypes
<1>12. \A c \in Bus, g \in Handler, v \in HearWays :
        hears'[c][g][v] = IF c = b /\ g = h /\ v = w THEN calls ELSE hears[c][g][v]
  <2> SUFFICES ASSUME NEW c \in Bus, NEW g \in Handler, NEW v \in HearWays
               PROVE  hears'[c][g][v] = IF c = b /\ g = h /\ v = w THEN calls ELSE hears[c][g][v]
    OBVIOUS
  <2>1. CASE c # b
    BY ONLY <1>11, <2>1, c \in Bus
  <2>2. CASE c = b /\ g # h
    BY ONLY <1>11, <1>10, <2>2, c \in Bus, g \in Handler
  <2>3. CASE c = b /\ g = h
    BY ONLY <1>11, <1>10, <1>9, <2>3, c \in Bus, g \in Handler, v \in HearWays
  <2> QED
    BY ONLY <2>1, <2>2, <2>3
<1> QED
  BY <1>1, <1>4, <1>11, <1>12

\* A loop calls the handler of an entry: at most that entry fades.
LEMMA CallsOne ==
  ASSUME BusTypes, NEW f \in LoopType, f.event \in BusEvent, LoopAt(f),
         NEW i \in Buses!Ahead(f), Buses!Calls(f, i)
  PROVE  /\ f.set \in DOMAIN sets[f.bus] /\ f.set # 0 /\ i \in Buses!Live(sets[f.bus][f.set])
         /\ i \in Nat /\ f.next <= i /\ i <= Len(sets[f.bus][f.set])
         /\ sets' \in [Bus -> Seq(Seq(EntryType))] /\ current' \in [Bus -> Nat]
         /\ \A c \in Bus : /\ current'[c] \in DOMAIN sets'[c] \cup {0}
                           /\ Grows(c) /\ Fades(c) /\ InMap(c)
         /\ hears' \in [Bus -> [Handler -> [HearWays -> [BusEvent -> Nat]]]]
         /\ \E h \in Handler, w \in HearWays :
              /\ i \in Of(sets[f.bus][f.set], h, w)
              /\ \A c \in Bus, g \in Handler, v \in HearWays, e \in BusEvent :
                   hears'[c][g][v][e] = IF c = f.bus /\ g = h /\ v = w /\ e = f.event
                                          THEN hears[c][g][v][e] + 1 ELSE hears[c][g][v][e]
              /\ \A c \in Bus, g \in Handler, v \in HearWays :
                   ~ (c = f.bus /\ g = h /\ v = w) => hears'[c][g][v] = hears[c][g][v]
              /\ w = "once" /\ current[f.bus] = f.set => i \notin Buses!Live(sets'[f.bus][f.set])
<1>k. PICK k : k = f.set
  OBVIOUS
<1>1. PICK b \in Bus : b = f.bus
  BY DEF LoopType
<1>2. k # 0 /\ i \in Buses!Live(sets[b][k]) /\ i >= f.next
  BY <1>1, <1>k DEF Buses!Ahead, Buses!None
<1>3. k \in DOMAIN sets[b]
  BY <1>1, <1>k, <1>2 DEF LoopAt
<1>4. PICK set : set = sets[b][k]
  OBVIOUS
<1>5. set \in Seq(EntryType) /\ i \in DOMAIN set /\ set[i] \in EntryType
      /\ i \in Nat /\ i <= Len(set)
  <2>1. sets[b] \in Seq(Seq(EntryType))
    BY DEF BusTypes
  <2>2. set \in Seq(EntryType)
    BY <1>3, <1>4, <2>1
  <2>3. i \in DOMAIN set
    BY <1>2, <1>4 DEF Buses!Live
  <2> QED
    BY <2>2, <2>3
<1>6. PICK h \in Handler, w \in HearWays : h = set[i].h /\ w = set[i].way
  <2>1. set[i].h \in Handler /\ set[i].way \in HearWays
    BY <1>5 DEF EntryType
  <2> QED
    BY <2>1
<1>e. PICK one : one = sets[f.bus][f.set][i]
  OBVIOUS
<1>w. h = one.h /\ w = one.way
  BY <1>1, <1>k, <1>4, <1>6, <1>e
<1>7. HearsAnother(f.bus, h, w, f.event)
  <2>1. HearsAnother(f.bus, one.h, one.way, f.event)
    BY <1>e, Zenon DEF Buses!Calls, HearsAnother
  <2> QED
    BY <1>w, <2>1
<1>8. IF w = "once" /\ current[b] = k THEN Buses!Off(b, i) ELSE UNCHANGED <<sets, current>>
  <2>1. IF one.way = "once" /\ current[f.bus] = f.set THEN Buses!Off(f.bus, i)
        ELSE UNCHANGED <<sets, current>>
    BY <1>e, Zenon DEF Buses!Calls
  <2> QED
    BY <1>1, <1>k, <1>w, <2>1
<1>9. /\ sets' \in [Bus -> Seq(Seq(EntryType))] /\ current' \in [Bus -> Nat]
      /\ \A c \in Bus : /\ current'[c] \in DOMAIN sets'[c] \cup {0}
                        /\ Grows(c) /\ Fades(c) /\ InMap(c)
      /\ w = "once" /\ current[b] = k => i \notin Buses!Live(sets'[b][k])
  <2>1. CASE w = "once" /\ current[b] = k
    <3>1. Buses!Off(b, i)
      BY <1>8, <2>1
    <3>2. i \in Buses!Live(Buses!CurrentSet(b))
      BY <1>2, <2>1 DEF Buses!CurrentSet, Buses!None
    <3> QED
      BY <2>1, <3>1, <3>2, OffFades
  <2>2. CASE ~ (w = "once" /\ current[b] = k)
    <3>1. sets' = sets /\ current' = current
      BY <1>8, <2>2
    <3> QED
      BY <2>2, <3>1, StayKeeps DEF BusTypes
  <2> QED
    BY <2>1, <2>2
<1>10. i \in Of(sets[f.bus][f.set], h, w)
  BY <1>1, <1>k, <1>4, <1>5, <1>6 DEF Of
<1>11. /\ f.set \in DOMAIN sets[f.bus] /\ f.set # 0 /\ i \in Buses!Live(sets[f.bus][f.set])
       /\ i \in Nat /\ f.next <= i /\ i <= Len(sets[f.bus][f.set])
  BY <1>1, <1>k, <1>2, <1>3, <1>4, <1>5
<1>12. w = "once" /\ current[f.bus] = f.set => i \notin Buses!Live(sets'[f.bus][f.set])
  BY <1>1, <1>k, <1>9
<1>13. /\ hears' \in [Bus -> [Handler -> [HearWays -> [BusEvent -> Nat]]]]
       /\ \A c \in Bus, g \in Handler, v \in HearWays, e \in BusEvent :
            hears'[c][g][v][e] = IF c = f.bus /\ g = h /\ v = w /\ e = f.event
                                   THEN hears[c][g][v][e] + 1 ELSE hears[c][g][v][e]
       /\ \A c \in Bus, g \in Handler, v \in HearWays :
            ~ (c = f.bus /\ g = h /\ v = w) => hears'[c][g][v] = hears[c][g][v]
  BY <1>7, HearsOne
<1> QED
  BY ONLY <1>9, <1>10, <1>11, <1>12, <1>13, h \in Handler, w \in HearWays

\* The other loops deliver other events; the loop has passed one more entry.
LEMMA CallsKeep ==
  ASSUME MaxEvents \in Nat, BusTypes, BusTypes', NEW R, NEW f \in LoopType, f.event \in BusEvent,
         Counts({f} \cup R),
         \A g \in R : ~ Alike(f, g) /\ g.bus \in Bus /\ g.event \in BusEvent /\ g.next \in Nat,
         NEW i \in Buses!Ahead(f), Buses!Calls(f, i), joined' = joined, cleared' = cleared,
         NEW on, on.bus = f.bus, on.event = f.event, on.set = f.set, on.next = i + 1
  PROVE  Counts({on} \cup R)'
<1>0. LoopAt(f) /\ LoopCounts(f)
  BY DEF Counts
<1>1. /\ f.set \in DOMAIN sets[f.bus] /\ f.set # 0 /\ i \in Buses!Live(sets[f.bus][f.set])
      /\ i \in Nat /\ f.next <= i /\ i <= Len(sets[f.bus][f.set])
      /\ \A c \in Bus : Grows(c) /\ Fades(c) /\ InMap(c)
  BY <1>0, CallsOne
<1>2. PICK h \in Handler, w \in HearWays :
        /\ i \in Of(sets[f.bus][f.set], h, w)
        /\ \A c \in Bus, g \in Handler, v \in HearWays, e \in BusEvent :
             hears'[c][g][v][e] = IF c = f.bus /\ g = h /\ v = w /\ e = f.event
                                    THEN hears[c][g][v][e] + 1 ELSE hears[c][g][v][e]
        /\ \A c \in Bus, g \in Handler, v \in HearWays :
             ~ (c = f.bus /\ g = h /\ v = w) => hears'[c][g][v] = hears[c][g][v]
        /\ w = "once" /\ current[f.bus] = f.set => i \notin Buses!Live(sets'[f.bus][f.set])
  BY <1>0, CallsOne
<1>k. PICK k : k = f.set
  OBVIOUS
<1>3. PICK b \in Bus, e \in BusEvent : b = f.bus /\ e = f.event
  BY DEF LoopType
<1>4. SetCounts'
  BY <1>1, FadesKeep DEF Counts, SetCounts
<1>5. LoopAt(on)' /\ LoopCounts(on)'
  <2>1. /\ k \in DOMAIN sets[b] /\ k \in DOMAIN sets'[b]
        /\ Len(sets[b][k]) <= Len(sets'[b][k])
    BY <1>1, <1>3, <1>k DEF Grows
  <2>2. sets[b][k] \in Seq(EntryType) /\ sets'[b][k] \in Seq(EntryType)
    <3>1. sets[b] \in Seq(Seq(EntryType)) /\ sets'[b] \in Seq(Seq(EntryType))
      BY DEF BusTypes
    <3> QED
      BY <2>1, <3>1
  <2>3. i + 1 <= Len(sets'[b][k]) + 1 /\ i + 1 # 0
    <3>1. /\ i \in Nat /\ i <= Len(sets[b][k]) /\ Len(sets[b][k]) \in Nat
          /\ Len(sets'[b][k]) \in Nat
      BY <1>1, <1>3, <1>k, <2>2
    <3> QED
      BY <2>1, <3>1
  <2>4. LoopAt(on)'
    BY <1>3, <1>k, <2>1, <2>3 DEF LoopAt
  <2>5. ASSUME NEW g \in Handler
        PROVE  hears'[b][g]["on"][e] <= Cardinality(Passed(on, g)')
    <3>1. PICK S, T : S = Passed(f, g) /\ T = Passed(on, g)'
      OBVIOUS
    <3>2. \A j \in S : j \in Nat /\ j < i + 1 /\ j # i
      <4>1. \A j \in S : j \in DOMAIN sets[b][k] /\ j < f.next
        BY <1>3, <1>k, <3>1 DEF Passed, Of
      <4>2. \A j \in DOMAIN sets[b][k] : j \in Nat
        BY <2>2
      <4>3. f.next \in Nat
        BY DEF LoopType
      <4> QED
        BY <1>1, <4>1, <4>2, <4>3
    <3>3. S \subseteq T /\ T \subseteq DOMAIN sets'[b][k]
      <4>1. T = {j \in Of(sets'[b][k], g, "on") : j < i + 1}
        BY <1>3, <1>k, <3>1 DEF Passed, Of
      <4>2. S \subseteq Of(sets[b][k], g, "on")
        BY <1>3, <1>k, <3>1 DEF Passed
      <4>3. Of(sets[b][k], g, "on") \subseteq Of(sets'[b][k], g, "on")
        <5>1. \A j \in DOMAIN sets[b][k] :
                /\ j \in DOMAIN sets'[b][k] /\ sets'[b][k][j].h = sets[b][k][j].h
                /\ sets'[b][k][j].way = sets[b][k][j].way
          BY <1>1, <2>1 DEF Grows
        <5> QED
          BY <5>1 DEF Of
      <4>4. Of(sets'[b][k], g, "on") \subseteq DOMAIN sets'[b][k]
        BY DEF Of
      <4> QED
        BY <3>2, <4>1, <4>2, <4>3, <4>4
    <3>4. /\ Cardinality(S) \in Nat /\ Cardinality(T) \in Nat /\ Cardinality(S) <= Cardinality(T)
          /\ i \in T => Cardinality(S) + 1 <= Cardinality(T)
      BY <2>2, <3>2, <3>3, Positions
    <3>5. hears[b][g]["on"][e] <= Cardinality(S)
      BY <1>0, <1>1, <1>3, <1>k, <3>1 DEF LoopCounts
    <3>6. hears[b][g]["on"][e] \in Nat
      <4>1. hears[b][g]["on"] \in [BusEvent -> Nat]
        BY CountersType
      <4> QED
        BY <4>1
    <3>7. CASE g = h /\ w = "on"
      <4>1. i \in T
        <5>1. i \in Of(sets[b][k], g, "on")
          BY <1>2, <1>3, <1>k, <3>7
        <5>2. i \in DOMAIN sets'[b][k] /\ sets'[b][k][i].h = g /\ sets'[b][k][i].way = "on"
          BY <1>1, <2>1, <5>1 DEF Of, Grows
        <5>3. T = {j \in Of(sets'[b][k], g, "on") : j < i + 1}
          BY <1>3, <1>k, <3>1 DEF Passed, Of
        <5>4. i < i + 1
          BY <1>1
        <5> QED
          BY <5>2, <5>3, <5>4 DEF Of
      <4>2. hears'[b][g]["on"][e] = hears[b][g]["on"][e] + 1
        BY <1>2, <1>3, <1>k, <3>7
      <4> QED
        BY <3>1, <3>4, <3>5, <3>6, <4>1, <4>2
    <3>8. CASE ~ (g = h /\ w = "on")
      <4>1. hears'[b][g]["on"][e] = hears[b][g]["on"][e]
        BY <1>2, <1>3, <1>k, <3>8 DEF HearWays
      <4> QED
        BY <3>1, <3>4, <3>5, <3>6, <4>1
    <3> QED
      BY <3>7, <3>8
  <2>6. LoopCounts(on)'
    BY <1>1, <1>3, <1>k, <2>5 DEF LoopCounts
  <2> QED
    BY <2>4, <2>6
<1>6. ASSUME NEW g \in R PROVE LoopAt(g)' /\ LoopCounts(g)'
  <2>1. LoopAt(g) /\ LoopCounts(g) /\ Grows(g.bus)
    BY <1>1 DEF Counts
  <2>2. \A q \in Handler : hears'[g.bus][q]["on"][g.event] = hears[g.bus][q]["on"][g.event]
    BY <1>2 DEF Alike, HearWays
  <2> QED
    BY <2>1, <2>2, LoopKeeps
<1>7. EventCounts'
  <2> SUFFICES ASSUME NEW c \in Bus, NEW g \in Handler, NEW d \in BusEvent
               PROVE  hears'[c][g]["on"][d] <= joined[c][g]["on"]
    BY DEF EventCounts
  <2>0. hears[c][g]["on"][d] <= joined[c][g]["on"]
    BY DEF Counts, EventCounts
  <2>1. CASE c = b /\ d = e
    <3>1. PICK T, U : T = Passed(on, g)' /\ U = Of(sets'[b][k], g, "on")
      OBVIOUS
    <3>2. hears'[b][g]["on"][e] <= Cardinality(T)
      BY <1>1, <1>3, <1>k, <1>5, <3>1 DEF LoopCounts
    <3>3. k \in DOMAIN sets'[b] /\ sets'[b][k] \in Seq(EntryType)
      <4>1. k \in DOMAIN sets'[b] /\ sets'[b] \in Seq(Seq(EntryType))
        BY <1>1, <1>3, <1>k DEF Grows, BusTypes
      <4> QED
        BY <4>1
    <3>4. T \subseteq U /\ U \subseteq DOMAIN sets'[b][k]
      BY <1>3, <1>k, <3>1 DEF Passed, Of
    <3>5. Cardinality(T) \in Nat /\ Cardinality(U) \in Nat /\ Cardinality(T) <= Cardinality(U)
      BY <3>3, <3>4, Positions
    <3>6. Cardinality(U) <= joined[b][g]["on"]
      BY <1>4, <3>1, <3>3 DEF SetCounts
    <3>7. hears'[b][g]["on"][e] \in Nat /\ joined[b][g]["on"] \in Nat
      <4>1. joined[b][g]["on"] \in Nat /\ hears'[b][g]["on"] \in [BusEvent -> Nat]
        BY CountersType
      <4> QED
        BY <4>1
    <3> QED
      BY <2>1, <3>2, <3>5, <3>6, <3>7
  <2>2. CASE ~ (c = b /\ d = e)
    BY <1>2, <1>3, <1>k, <2>0, <2>2 DEF HearWays
  <2> QED
    BY <2>1, <2>2
<1>8. OnceCounts'
  <2> SUFFICES ASSUME NEW c \in Bus, c \notin cleared
               PROVE  /\ OnlyCurrentLives(c)'
                      /\ \A g \in Handler :
                           SumFunctionOnSet(hears'[c][g]["once"], BusEvent)
                             + Cardinality(LiveOnce(c, g)') <= joined[c][g]["once"]
    BY DEF OnceCounts
  <2>1. /\ OnlyCurrentLives(c)
        /\ \A g \in Handler :
             SumFunctionOnSet(hears[c][g]["once"], BusEvent) + Cardinality(LiveOnce(c, g))
               <= joined[c][g]["once"]
    BY DEF Counts, OnceCounts
  <2>2. OnlyCurrentLives(c)' /\ \A g \in Handler : LiveOnce(c, g)' \subseteq LiveOnce(c, g)
    BY <1>1, <2>1, FadesKeep
  <2>3. ASSUME NEW g \in Handler
        PROVE  SumFunctionOnSet(hears'[c][g]["once"], BusEvent)
                             + Cardinality(LiveOnce(c, g)') <= joined[c][g]["once"]
    <3>1. PICK S, T : S = LiveOnce(c, g)' /\ T = LiveOnce(c, g)
      OBVIOUS
    <3>2. /\ Cardinality(S) \in Nat /\ Cardinality(T) \in Nat /\ Cardinality(S) <= Cardinality(T)
          /\ \A j \in T : j \notin S => Cardinality(S) + 1 <= Cardinality(T)
      BY <2>2, <3>1, LiveOnceIs, Positions
    <3>3. /\ joined[c][g]["once"] \in Nat
          /\ hears[c][g]["once"] \in [BusEvent -> Nat] /\ hears'[c][g]["once"] \in [BusEvent -> Nat]
      BY CountersType
    <3>4. PICK n, m : /\ n = SumFunctionOnSet(hears[c][g]["once"], BusEvent)
                      /\ m = SumFunctionOnSet(hears'[c][g]["once"], BusEvent)
      OBVIOUS
    <3>5. n \in Int /\ m \in Int
      BY <3>3, <3>4, CallsSum
    <3>6. n + Cardinality(T) <= joined[c][g]["once"]
      BY <2>1, <3>1, <3>4
    <3>7. m + Cardinality(S) <= joined[c][g]["once"]
      <4>1. CASE c = b /\ g = h /\ w = "once"
        <5>1. current[b] = k
          BY <1>1, <1>3, <1>k, <2>1, <4>1 DEF OnlyCurrentLives
        <5>2. i \in T
          BY <1>1, <1>2, <1>3, <1>k, <3>1, <4>1, <5>1 DEF LiveOnce, Buses!CurrentSet, Buses!None
        <5>3. i \notin S
          <6>1. i \notin Buses!Live(sets'[b][k])
            BY <1>2, <1>3, <1>k, <4>1, <5>1
          <6>2. current'[b] = k \/ current'[b] = 0
            BY <1>1, <5>1 DEF InMap
          <6>3. Buses!Live(<<>>) = {}
            BY DEF Buses!Live
          <6> QED
            BY <3>1, <4>1, <6>1, <6>2, <6>3 DEF LiveOnce, Buses!CurrentSet, Buses!None, Buses!Live
        <5>4. m = n + 1
          <6>1. PICK F, G : F = hears[c][g]["once"] /\ G = hears'[c][g]["once"]
            OBVIOUS
          <6>2. /\ F \in [BusEvent -> Nat] /\ G \in [BusEvent -> Nat]
                /\ \A d \in BusEvent : G[d] = IF d = e THEN F[d] + 1 ELSE F[d]
            BY <1>2, <1>3, <1>k, <3>3, <4>1, <6>1
          <6>3. \A d \in BusEvent : F[d] \in Int /\ G[d] \in Int
            BY <6>2
          <6>4. \A d \in BusEvent \ {e} : F[d] = G[d]
            BY <6>2
          <6>5. IsFiniteSet(BusEvent)
            BY <6>2, CallsSum
          <6>6. SumFunctionOnSet(G, BusEvent) = SumFunctionOnSet(F, BusEvent) + (G[e] - F[e])
            BY <6>3, <6>4, <6>5, SumChanges
          <6>7. G[e] - F[e] = 1
            BY <6>2, <6>3
          <6> QED
            BY <3>4, <6>1, <6>6, <6>7
        <5> QED
          BY <3>2, <3>3, <3>5, <3>6, <5>2, <5>3, <5>4
      <4>2. CASE ~ (c = b /\ g = h /\ w = "once")
        <5>1. m = n
          BY <1>2, <1>3, <1>k, <3>4, <4>2 DEF HearWays
        <5> QED
          BY <3>2, <3>3, <3>5, <3>6, <5>1
      <4> QED
        BY <4>1, <4>2
    <3> QED
      BY <3>1, <3>4, <3>7
  <2> QED
    BY <2>2, <2>3
<1> QED
  BY <1>4, <1>5, <1>6, <1>7, <1>8 DEF Counts

\* on(), once(): one entry more, at the end of the Set in the map.
JoinsAnother(b, h, w) == joined' = [joined EXCEPT ![b][h][w] = @ + 1]

\* A subscription is one more of its handler, and of no other.
LEMMA JoinsOne ==
  ASSUME BusTypes, NEW b \in Bus, NEW h \in Handler, NEW w \in HearWays, JoinsAnother(b, h, w)
  PROVE  /\ joined' \in [Bus -> [Handler -> [HearWays -> Nat]]]
         /\ \A c \in Bus, g \in Handler, v \in HearWays :
              joined'[c][g][v] = IF c = b /\ g = h /\ v = w THEN joined[c][g][v] + 1
                                 ELSE joined[c][g][v]
<1>1. PICK ways : ways = [joined[b][h] EXCEPT ![w] = joined[b][h][w] + 1]
  OBVIOUS
<1>2. PICK all : all = [joined[b] EXCEPT ![h] = ways]
  OBVIOUS
<1>3. joined' = [joined EXCEPT ![b] = all]
  BY <1>1, <1>2 DEF JoinsAnother
<1>4. /\ ways \in [HearWays -> Nat]
      /\ \A v \in HearWays : ways[v] = IF v = w THEN joined[b][h][v] + 1 ELSE joined[b][h][v]
  <2>1. joined[b][h] \in [HearWays -> Nat]
    BY DEF BusTypes
  <2> QED
    BY <1>1, <2>1
<1>5. /\ all \in [Handler -> [HearWays -> Nat]]
      /\ \A g \in Handler : all[g] = IF g = h THEN ways ELSE joined[b][g]
  <2>1. joined[b] \in [Handler -> [HearWays -> Nat]]
    BY DEF BusTypes
  <2> QED
    BY <1>2, <1>4, <2>1
<1>6. /\ joined' \in [Bus -> [Handler -> [HearWays -> Nat]]]
      /\ \A c \in Bus : joined'[c] = IF c = b THEN all ELSE joined[c]
  BY <1>3, <1>5 DEF BusTypes
<1>7. \A c \in Bus, g \in Handler, v \in HearWays :
        joined'[c][g][v] = IF c = b /\ g = h /\ v = w THEN joined[c][g][v] + 1
                           ELSE joined[c][g][v]
  <2> SUFFICES ASSUME NEW c \in Bus, NEW g \in Handler, NEW v \in HearWays
               PROVE  joined'[c][g][v] = IF c = b /\ g = h /\ v = w THEN joined[c][g][v] + 1
                                         ELSE joined[c][g][v]
    OBVIOUS
  <2>1. CASE c # b
    BY <1>6, <2>1
  <2>2. CASE c = b /\ g # h
    BY <1>5, <1>6, <2>2
  <2>3. CASE c = b /\ g = h
    BY <1>4, <1>5, <1>6, <2>3
  <2> QED
    BY <2>1, <2>2, <2>3
<1> QED
  BY <1>6, <1>7

\* on() and once() add an entry to the bus's Set, or make a Set of it.
LEMMA SubscribeAdds ==
  ASSUME BusTypes, NEW b \in Bus, NEW h \in Handler, NEW w \in HearWays,
         Buses!Subscribe(b, h, w)
  PROVE  /\ sets' \in [Bus -> Seq(Seq(EntryType))] /\ current' \in [Bus -> Nat]
         /\ \A c \in Bus : current'[c] \in DOMAIN sets'[c] \cup {0} /\ Grows(c)
         /\ \A c \in Bus \ {b} : sets'[c] = sets[c] /\ current'[c] = current[c]
         /\ current'[b] \in DOMAIN sets'[b] /\ current'[b] # 0
         /\ current[b] # 0 => current'[b] = current[b]
         /\ sets'[b][current'[b]] =
              Append(Buses!CurrentSet(b), [h |-> h, way |-> w, live |-> "yes"])
         /\ \A k \in DOMAIN sets'[b] :
              k # current'[b] => k \in DOMAIN sets[b] /\ sets'[b][k] = sets[b][k]
<1>1. PICK all : all = sets[b]
  OBVIOUS
<1>2. PICK set : set = Buses!CurrentSet(b)
  OBVIOUS
<1>3. PICK one : one = [h |-> h, way |-> w, live |-> "yes"]
  OBVIOUS
<1>4. PICK grown : grown = Append(set, one)
  OBVIOUS
<1>5. all \in Seq(Seq(EntryType)) /\ set \in Seq(EntryType)
  BY <1>1, <1>2, LiveOnceIs DEF BusTypes
<1>6. /\ grown \in Seq(EntryType) /\ Len(grown) = Len(set) + 1 /\ Len(set) \in Nat
      /\ \A i \in DOMAIN set : i \in DOMAIN grown /\ grown[i] = set[i]
  <2>1. one \in EntryType
    BY <1>3 DEF EntryType
  <2> QED
    BY <1>4, <1>5, <2>1
<1>7. \E k, sall :
        /\ sall \in Seq(Seq(EntryType)) /\ k \in DOMAIN sall /\ k # 0 /\ k \in Nat
        /\ sall[k] = grown
        /\ current[b] # 0 => k = current[b] /\ all[k] = set
        /\ current[b] = 0 => k \notin DOMAIN all
        /\ \A j \in DOMAIN all : j \in DOMAIN sall
        /\ \A j \in DOMAIN sall : j # k => j \in DOMAIN all /\ sall[j] = all[j]
        /\ sets' = [sets EXCEPT ![b] = sall] /\ current' = [current EXCEPT ![b] = k]
  <2>1. CASE current[b] = 0
    <3>1. PICK sall : sall = Append(all, grown)
      OBVIOUS
    <3>2. PICK k : k = Len(all) + 1
      OBVIOUS
    <3>3. sets' = [sets EXCEPT ![b] = sall] /\ current' = [current EXCEPT ![b] = k]
      BY <1>1, <1>2, <1>3, <1>4, <2>1, <3>1, <3>2 DEF Buses!Subscribe, Buses!None
    <3>4. /\ sall \in Seq(Seq(EntryType)) /\ k \in DOMAIN sall /\ k # 0 /\ k \in Nat
          /\ sall[k] = grown
          /\ k \notin DOMAIN all
          /\ \A j \in DOMAIN all : j \in DOMAIN sall
          /\ \A j \in DOMAIN sall : j # k => j \in DOMAIN all /\ sall[j] = all[j]
      BY <1>5, <1>6, <3>1, <3>2
    <3> QED
      BY <2>1, <3>3, <3>4
  <2>2. CASE current[b] # 0
    <3>1. PICK k : k = current[b]
      OBVIOUS
    <3>2. PICK sall : sall = [all EXCEPT ![k] = grown]
      OBVIOUS
    <3>3. k \in DOMAIN all /\ k # 0 /\ k \in Nat /\ all[k] = set
      BY <1>1, <1>2, <2>2, <3>1 DEF BusTypes, Buses!CurrentSet, Buses!None
    <3>4. sets' = [sets EXCEPT ![b] = sall] /\ current' = current
      BY <1>1, <1>2, <1>3, <1>4, <2>2, <3>1, <3>2 DEF Buses!Subscribe, Buses!None
    <3>5. current' = [current EXCEPT ![b] = k]
      BY <3>1, <3>4 DEF BusTypes
    <3>6. sall \in Seq(Seq(EntryType)) /\ Len(sall) = Len(all)
      BY <1>5, <1>6, <3>2, <3>3, ExceptSeq
    <3>7. /\ DOMAIN sall = DOMAIN all
          /\ \A j \in DOMAIN all : sall[j] = IF j = k THEN grown ELSE all[j]
      BY <3>2
    <3> QED
      BY <2>2, <3>1, <3>3, <3>4, <3>5, <3>6, <3>7
  <2> QED
    BY <2>1, <2>2
<1>8. PICK k, sall :
        /\ sall \in Seq(Seq(EntryType)) /\ k \in DOMAIN sall /\ k # 0 /\ k \in Nat
        /\ sall[k] = grown
        /\ current[b] # 0 => k = current[b] /\ all[k] = set
        /\ current[b] = 0 => k \notin DOMAIN all
        /\ \A j \in DOMAIN all : j \in DOMAIN sall
        /\ \A j \in DOMAIN sall : j # k => j \in DOMAIN all /\ sall[j] = all[j]
        /\ sets' = [sets EXCEPT ![b] = sall] /\ current' = [current EXCEPT ![b] = k]
  BY <1>7
<1>9. /\ sets' \in [Bus -> Seq(Seq(EntryType))] /\ sets'[b] = sall
      /\ \A c \in Bus \ {b} : sets'[c] = sets[c]
  BY <1>8 DEF BusTypes
<1>10. /\ current' \in [Bus -> Nat] /\ current'[b] = k
       /\ \A c \in Bus \ {b} : current'[c] = current[c]
  BY <1>8 DEF BusTypes
<1>11. ASSUME NEW c \in Bus PROVE current'[c] \in DOMAIN sets'[c] \cup {0} /\ Grows(c)
  <2>1. CASE c = b
    <3>1. ASSUME NEW j \in DOMAIN all
          PROVE  /\ j \in DOMAIN sall /\ Len(all[j]) <= Len(sall[j])
                 /\ \A i \in DOMAIN all[j] : i \in DOMAIN sall[j] /\ sall[j][i] = all[j][i]
      <4>1. j \in DOMAIN sall /\ all[j] \in Seq(EntryType)
        BY <1>5, <1>8
      <4>2. CASE j = k
        <5>1. all[j] = set /\ sall[j] = grown
          BY <1>8, <4>2
        <5> QED
          BY <1>5, <1>6, <4>1, <5>1
      <4>3. CASE j # k
        <5>1. sall[j] = all[j]
          BY <1>8, <4>1, <4>3
        <5> QED
          BY <4>1, <5>1
      <4> QED
        BY <4>2, <4>3
    <3> QED
      BY <1>1, <1>8, <1>9, <1>10, <2>1, <3>1 DEF Grows
  <2>2. CASE c # b
    <3>1. sets'[c] = sets[c] /\ current'[c] = current[c]
      BY <1>9, <1>10, <2>2
    <3>2. \A j \in DOMAIN sets[c] : Len(sets[c][j]) <= Len(sets[c][j])
      <4> SUFFICES ASSUME NEW j \in DOMAIN sets[c] PROVE Len(sets[c][j]) <= Len(sets[c][j])
        OBVIOUS
      <4> QED
        BY SetType
    <3> QED
      BY <3>1, <3>2 DEF Grows, BusTypes
  <2> QED
    BY <2>1, <2>2
<1>12. /\ current'[b] \in DOMAIN sets'[b] /\ current'[b] # 0
       /\ current[b] # 0 => current'[b] = current[b]
       /\ sets'[b][current'[b]] = Append(Buses!CurrentSet(b), [h |-> h, way |-> w, live |-> "yes"])
  BY <1>2, <1>3, <1>4, <1>8, <1>9, <1>10
<1>13. \A j \in DOMAIN sets'[b] :
         j # current'[b] => j \in DOMAIN sets[b] /\ sets'[b][j] = sets[b][j]
  BY <1>1, <1>8, <1>9, <1>10
<1> QED
  BY <1>9, <1>10, <1>11, <1>12, <1>13

\* They keep the counts: the new entry is one the handler joined for.
LEMMA SubscribeKeeps ==
  ASSUME MaxEvents \in Nat, BusTypes, BusTypes', NEW L, Counts(L),
         \A f \in L : f.bus \in Bus /\ f.event \in BusEvent /\ f.next \in Nat,
         NEW b \in Bus, NEW h \in Handler, NEW w \in HearWays, Buses!Subscribe(b, h, w)
  PROVE  Counts(L)'
<1>1. /\ \A c \in Bus : Grows(c)
      /\ \A c \in Bus \ {b} : sets'[c] = sets[c] /\ current'[c] = current[c]
      /\ current'[b] \in DOMAIN sets'[b] /\ current'[b] # 0
      /\ current[b] # 0 => current'[b] = current[b]
      /\ sets'[b][current'[b]] =
           Append(Buses!CurrentSet(b), [h |-> h, way |-> w, live |-> "yes"])
      /\ \A k \in DOMAIN sets'[b] :
           k # current'[b] => k \in DOMAIN sets[b] /\ sets'[b][k] = sets[b][k]
  BY SubscribeAdds
<1>2. PICK k, set, grown : k = current'[b] /\ set = Buses!CurrentSet(b) /\ grown = sets'[b][k]
  OBVIOUS
<1>3. /\ \A c \in Bus, g \in Handler, v \in HearWays :
           joined'[c][g][v] = IF c = b /\ g = h /\ v = w THEN joined[c][g][v] + 1
                              ELSE joined[c][g][v]
      /\ hears' = hears /\ cleared' = cleared
  <2>1. JoinsAnother(b, h, w)
    BY DEF Buses!Subscribe, JoinsAnother
  <2> QED
    BY <2>1, JoinsOne DEF Buses!Subscribe
<1>4. PICK n : n = Len(set) + 1
  OBVIOUS
<1>5. /\ set \in Seq(EntryType) /\ n \in Nat /\ n \notin DOMAIN set
      /\ DOMAIN grown = DOMAIN set \cup {n} /\ \A i \in DOMAIN set : grown[i] = set[i]
      /\ grown[n].h = h /\ grown[n].way = w /\ grown[n].live = "yes"
  <2>1. set \in Seq(EntryType)
    BY <1>2, LiveOnceIs
  <2> QED
    BY <1>1, <1>2, <1>4, <2>1
<1>6. ASSUME NEW g \in Handler, NEW v \in HearWays
      PROVE  Of(grown, g, v) = Of(set, g, v) \cup (IF g = h /\ v = w THEN {n} ELSE {})
  BY <1>5 DEF Of
<1>7. ASSUME NEW S \in SUBSET DOMAIN set
      PROVE  /\ Cardinality(S) \in Nat
             /\ Cardinality(S \cup {n}) = Cardinality(S) + 1
  <2>1. IsFiniteSet(S) /\ Cardinality(S) \in Nat
    BY <1>5, Positions
  <2>2. n \notin S
    BY <1>5
  <2> QED
    BY <2>1, <2>2, FS_AddElement
<1>8. ASSUME NEW c \in Bus, NEW g \in Handler, NEW v \in HearWays
      PROVE  /\ joined[c][g][v] \in Nat /\ joined'[c][g][v] \in Nat
             /\ joined[c][g][v] <= joined'[c][g][v]
             /\ c = b /\ g = h /\ v = w => joined'[c][g][v] = joined[c][g][v] + 1
  <2>1. joined[c][g][v] \in Nat
    BY CountersType DEF HearWays
  <2> QED
    BY <1>3, <2>1
<1>9. SetCounts'
  <2> SUFFICES ASSUME NEW c \in Bus, NEW g \in Handler, NEW j \in DOMAIN sets'[c]
               PROVE  Cardinality(Of(sets'[c][j], g, "on")) <= joined'[c][g]["on"]
    BY DEF SetCounts
  <2>1. CASE c = b /\ j = k
    <3>1. Cardinality(Of(set, g, "on")) <= joined[b][g]["on"]
      <4>1. CASE current[b] = 0
        <5>1. set = <<>>
          BY <1>2, <4>1 DEF Buses!CurrentSet, Buses!None
        <5>2. Of(set, g, "on") = {}
          BY <5>1 DEF Of
        <5>3. Cardinality({}) = 0
          BY FS_EmptySet
        <5>4. joined[b][g]["on"] \in Nat
          BY <1>8 DEF HearWays
        <5> QED
          BY <5>2, <5>3, <5>4
      <4>2. CASE current[b] # 0
        <5>1. current[b] \in DOMAIN sets[b] /\ set = sets[b][current[b]]
          BY <1>2, <4>2 DEF Buses!CurrentSet, Buses!None, BusTypes
        <5> QED
          BY <5>1 DEF Counts, SetCounts
      <4> QED
        BY <4>1, <4>2
    <3>2. PICK S : S = Of(set, g, "on")
      OBVIOUS
    <3>3. S \in SUBSET DOMAIN set
      BY <3>2 DEF Of
    <3>4. /\ Cardinality(S) \in Nat /\ Cardinality(S \cup {n}) = Cardinality(S) + 1
          /\ Cardinality(S) <= joined[b][g]["on"]
      BY <1>7, <3>1, <3>2, <3>3
    <3>5. CASE g = h /\ "on" = w
      <4>1. Of(sets'[c][j], g, "on") = S \cup {n}
        BY <1>2, <1>6, <2>1, <3>2, <3>5
      <4>2. /\ joined[b][g]["on"] \in Nat /\ joined'[b][g]["on"] = joined[b][g]["on"] + 1
        BY <1>8, <3>5
      <4>3. Cardinality(S \cup {n}) <= joined'[b][g]["on"]
        BY <3>4, <4>2
      <4> QED
        BY <2>1, <4>1, <4>3
    <3>6. CASE ~ (g = h /\ "on" = w)
      <4>1. Of(sets'[c][j], g, "on") = S
        <5>1. Of(grown, g, "on") = Of(set, g, "on") \cup (IF g = h /\ "on" = w THEN {n} ELSE {})
          BY <1>6 DEF HearWays
        <5>2. Of(grown, g, "on") = S
          BY <3>2, <3>6, <5>1
        <5> QED
          BY <1>2, <2>1, <5>2
      <4>2. /\ joined[b][g]["on"] \in Nat /\ joined'[b][g]["on"] \in Nat
            /\ joined[b][g]["on"] <= joined'[b][g]["on"]
        BY <1>8 DEF HearWays
      <4> QED
        BY <2>1, <3>4, <4>1, <4>2
    <3> QED
      BY <3>5, <3>6
  <2>2. CASE ~ (c = b /\ j = k)
    <3>1. j \in DOMAIN sets[c] /\ sets'[c][j] = sets[c][j]
      BY <1>1, <1>2, <2>2
    <3>2. Cardinality(Of(sets[c][j], g, "on")) <= joined[c][g]["on"]
      BY <3>1 DEF Counts, SetCounts
    <3>3. PICK S : S = Of(sets[c][j], g, "on")
      OBVIOUS
    <3>4. Cardinality(S) \in Nat
      <4>1. sets[c][j] \in Seq(EntryType)
        BY <3>1, SetType
      <4>2. S \subseteq DOMAIN sets[c][j]
        BY <3>3 DEF Of
      <4> QED
        BY <4>1, <4>2, Positions
    <3>5. /\ joined[c][g]["on"] \in Nat /\ joined'[c][g]["on"] \in Nat
          /\ joined[c][g]["on"] <= joined'[c][g]["on"]
      BY <1>8 DEF HearWays
    <3> QED
      BY <3>1, <3>2, <3>3, <3>4, <3>5
  <2> QED
    BY <2>1, <2>2
<1>10. EventCounts'
  <2> SUFFICES ASSUME NEW c \in Bus, NEW g \in Handler, NEW e \in BusEvent
               PROVE  hears'[c][g]["on"][e] <= joined'[c][g]["on"]
    BY DEF EventCounts
  <2>1. hears[c][g]["on"][e] <= joined[c][g]["on"] /\ hears'[c][g]["on"][e] = hears[c][g]["on"][e]
    BY <1>3 DEF Counts, EventCounts
  <2>2. hears[c][g]["on"][e] \in Nat
    <3>1. hears[c][g]["on"] \in [BusEvent -> Nat]
      BY CountersType
    <3> QED
      BY <3>1
  <2>3. /\ joined[c][g]["on"] \in Nat /\ joined'[c][g]["on"] \in Nat
        /\ joined[c][g]["on"] <= joined'[c][g]["on"]
    BY <1>8 DEF HearWays
  <2> QED
    BY <2>1, <2>2, <2>3
<1>11. OnceCounts'
  <2> SUFFICES ASSUME NEW c \in Bus, c \notin cleared
               PROVE  /\ OnlyCurrentLives(c)'
                      /\ \A g \in Handler :
                           SumFunctionOnSet(hears[c][g]["once"], BusEvent)
                             + Cardinality(LiveOnce(c, g)') <= joined'[c][g]["once"]
    BY <1>3 DEF OnceCounts
  <2>1. /\ OnlyCurrentLives(c)
        /\ \A g \in Handler :
             SumFunctionOnSet(hears[c][g]["once"], BusEvent) + Cardinality(LiveOnce(c, g))
               <= joined[c][g]["once"]
    BY DEF Counts, OnceCounts
  <2>2. OnlyCurrentLives(c)'
    <3> SUFFICES ASSUME NEW j \in DOMAIN sets'[c], j # current'[c]
                 PROVE  Buses!Live(sets'[c][j]) = {}
      BY DEF OnlyCurrentLives, Buses!Live
    <3>1. j \in DOMAIN sets[c] /\ sets'[c][j] = sets[c][j]
      BY <1>1
    <3>2. j # current[c]
      <4>1. CASE current[c] = 0
        <5>1. j # 0
          <6>1. sets[c] \in Seq(Seq(EntryType))
            BY DEF BusTypes
          <6> QED
            BY <3>1, <6>1
        <5> QED
          BY <4>1, <5>1
      <4>2. CASE current[c] # 0
        BY <1>1, <4>2
      <4> QED
        BY <4>1, <4>2
    <3> QED
      BY <2>1, <3>1, <3>2 DEF OnlyCurrentLives
  <2>3. ASSUME NEW g \in Handler
        PROVE  SumFunctionOnSet(hears[c][g]["once"], BusEvent)
                 + Cardinality(LiveOnce(c, g)') <= joined'[c][g]["once"]
    <3>1. PICK S, T : S = LiveOnce(c, g)' /\ T = LiveOnce(c, g)
      OBVIOUS
    <3>2. PICK m : m = SumFunctionOnSet(hears[c][g]["once"], BusEvent)
      OBVIOUS
    <3>3. m \in Int
      <4>1. hears[c][g]["once"] \in [BusEvent -> Nat]
        BY CountersType
      <4> QED
        BY <3>2, <4>1, CallsSum
    <3>4. m + Cardinality(T) <= joined[c][g]["once"]
      BY <2>1, <3>1, <3>2
    <3>5. /\ joined[c][g]["once"] \in Nat /\ joined'[c][g]["once"] \in Nat
          /\ joined[c][g]["once"] <= joined'[c][g]["once"]
          /\ c = b /\ g = h /\ "once" = w => joined'[c][g]["once"] = joined[c][g]["once"] + 1
      BY <1>8 DEF HearWays
    <3>6. Cardinality(T) \in Nat
      BY <3>1, LiveOnceIs, Positions
    <3>7. CASE c = b
      <4>1. S = T \cup (IF g = h /\ "once" = w THEN {n} ELSE {})
        <5>1. S = {i \in Buses!Live(grown) : i \in Of(grown, g, "once")}
          <6>1. (Buses!CurrentSet(b))' = grown
            BY <1>1, <1>2 DEF Buses!CurrentSet, Buses!None
          <6> QED
            BY <3>1, <3>7, <6>1 DEF LiveOnce, Buses!Live, Of
        <5>2. T = {i \in Buses!Live(set) : i \in Of(set, g, "once")}
          BY <1>2, <3>1, <3>7 DEF LiveOnce
        <5>3. Buses!Live(grown) = Buses!Live(set) \cup {n}
          BY <1>5 DEF Buses!Live
        <5>4. Of(grown, g, "once") =
                Of(set, g, "once") \cup (IF g = h /\ "once" = w THEN {n} ELSE {})
          BY <1>6 DEF HearWays
        <5>5. n \notin Buses!Live(set) /\ n \notin Of(set, g, "once")
          BY <1>5 DEF Of, Buses!Live
        <5> QED
          BY <5>1, <5>2, <5>3, <5>4, <5>5
      <4>2. T \in SUBSET DOMAIN set
        BY <1>2, <3>1, <3>7, LiveOnceIs
      <4>3. Cardinality(T \cup {n}) = Cardinality(T) + 1
        BY <1>7, <4>2
      <4>4. CASE g = h /\ "once" = w
        <5>1. S = T \cup {n}
          BY <4>1, <4>4
        <5> QED
          <6>1. m + Cardinality(S) <= joined'[c][g]["once"]
            <7>1. Cardinality(S) = Cardinality(T) + 1
              BY <4>3, <5>1
            <7>2. joined'[c][g]["once"] = joined[c][g]["once"] + 1
              BY <3>5, <3>7, <4>4
            <7> QED
              BY <3>3, <3>4, <3>5, <3>6, <7>1, <7>2
          <6> QED
            BY <3>1, <3>2, <6>1
      <4>5. CASE ~ (g = h /\ "once" = w)
        <5>1. S = T
          BY <4>1, <4>5
        <5> QED
          BY <3>1, <3>2, <3>3, <3>4, <3>5, <3>6, <5>1
      <4> QED
        BY <4>4, <4>5
    <3>8. CASE c # b
      <4>1. (Buses!CurrentSet(c))' = Buses!CurrentSet(c)
        BY <1>1, <3>8 DEF Buses!CurrentSet, Buses!None
      <4>2. S = T
        BY <3>1, <4>1 DEF LiveOnce, Buses!Live, Of
      <4> QED
        BY <3>1, <3>2, <3>3, <3>4, <3>5, <3>6, <4>2
    <3> QED
      BY <3>7, <3>8
  <2> QED
    BY <2>2, <2>3
<1>12. \A f \in L : LoopAt(f)' /\ LoopCounts(f)'
  <2> SUFFICES ASSUME NEW f \in L PROVE LoopAt(f)' /\ LoopCounts(f)'
    OBVIOUS
  <2>1. LoopAt(f) /\ LoopCounts(f) /\ Grows(f.bus)
    BY <1>1 DEF Counts
  <2>2. \A g \in Handler : hears'[f.bus][g]["on"][f.event] = hears[f.bus][g]["on"][f.event]
    BY <1>3
  <2> QED
    BY <2>1, <2>2, LoopKeeps
<1> QED
  BY <1>9, <1>10, <1>11, <1>12 DEF Counts

-----------------------------------------------------------------------------
\* A loop that starts on a bus has called nothing of its event.
LEMMA NewLoop ==
  ASSUME BusTypes, BusTypes', NEW b \in Bus, NEW e \in BusEvent, NEW kind, NEW L, Unmet(b, e, L),
         kind \in {"emit", "async", "remote"}, sets' = sets, hears' = hears,
         NEW f, f = Buses!Loop(b, e, kind)
  PROVE  /\ f \in LoopType /\ f.bus = b /\ f.event = e /\ f.kind = kind
         /\ LoopAt(f)' /\ LoopCounts(f)' /\ \A g \in L : ~ Alike(f, g)
<1>1. f.bus = b /\ f.event = e /\ f.kind = kind /\ f.set = current[b] /\ f.next = 1
  BY DEF Buses!Loop
<1>2. f \in LoopType
  <2>1. current[b] \in Nat /\ e \in Nat
    BY DEF BusTypes, BusEvent
  <2>2. f = [bus |-> b, event |-> e, kind |-> kind, set |-> current[b], next |-> 1]
    BY DEF Buses!Loop
  <2> QED
    BY <2>1, <2>2 DEF LoopType
<1>3. \A k \in DOMAIN sets[b] : sets[b][k] \in Seq(EntryType)
  <2>1. sets[b] \in Seq(Seq(EntryType))
    BY DEF BusTypes
  <2> QED
    BY <2>1
<1>4. current[b] \in DOMAIN sets[b] \cup {0}
  BY DEF BusTypes
<1>5. LoopAt(f)'
  <2>1. \A k \in DOMAIN sets[b] : 1 <= Len(sets[b][k]) + 1
    <3> SUFFICES ASSUME NEW k \in DOMAIN sets[b] PROVE 1 <= Len(sets[b][k]) + 1
      OBVIOUS
    <3>1. sets[b][k] \in Seq(EntryType)
      BY <1>3
    <3> QED
      BY <3>1
  <2> QED
    BY <1>1, <1>4, <2>1 DEF LoopAt
<1>6. ASSUME NEW h \in Handler PROVE hears'[b][h]["on"][e] = 0
  BY DEF Unmet, HearWays
<1>7. ASSUME NEW h \in Handler, f.set # 0 PROVE 0 <= Cardinality(Passed(f, h)')
  <2>1. PICK T : T = Passed(f, h)'
    OBVIOUS
  <2>2. T \subseteq DOMAIN sets[b][f.set] /\ f.set \in DOMAIN sets[b]
    BY <1>1, <1>4, <1>7, <2>1 DEF Passed, Of
  <2>3. Cardinality(T) \in Nat
    BY <1>3, <2>2, Positions
  <2> QED
    BY <2>1, <2>3
<1>8. LoopCounts(f)'
  BY <1>1, <1>6, <1>7 DEF LoopCounts
<1>9. \A g \in L : ~ Alike(f, g)
  BY <1>1 DEF Unmet, Alike
<1> QED
  BY <1>1, <1>2, <1>5, <1>8, <1>9

\* What a loop under way is.
LEMMA LoopsType ==
  ASSUME BusInv
  PROVE  \A f \in BusLoops : /\ f \in LoopType /\ f.bus \in Bus /\ f.event \in BusEvent
                             /\ f.next \in Nat
<1>1. \A f \in BusLoops : f \in LoopType
  <2>1. \A i \in DOMAIN running : running[i] \in LoopType
    BY DEF BusInv, BusTypes
  <2> QED
    BY <2>1 DEF BusInv, BusTypes, BusLoops, LoopsIn
<1>2. \A f \in BusLoops : f.event \in BusEvent
  BY DEF BusInv, Delivery
<1> QED
  BY <1>1, <1>2 DEF LoopType

\* Nothing is called, no entry comes and no event is emitted: loops may end.
LEMMA QuietKeeps ==
  ASSUME MaxEvents \in Nat, BusInv, BusTypes', Apart(running', awaiting'),
         BusLoops' \subseteq BusLoops,
         emitted' = emitted, hears' = hears, joined' = joined, cleared \subseteq cleared',
         \A b \in Bus : Grows(b) /\ Fades(b) /\ (b \notin cleared' => InMap(b)),
         \A b \in Bus : \/ mail'[b] = mail[b] \/ mail'[b] = <<>>
                        \/ mail[b] # <<>> /\ mail'[b] = Tail(mail[b])
  PROVE  BusInv'
<1>1. PICK L, M : L = BusLoops /\ M = BusLoops'
  OBVIOUS
<1>2. Delivery(L) /\ Counts(L) /\ BusTypes
  BY <1>1 DEF BusInv
<1>3. Delivery(M)'
  <2>1. \A b \in Bus, e \in BusEvent : Unmet(b, e, L) =>
          \A h \in Handler, w \in HearWays : hears'[b][h][w][e] = 0
    BY DEF Unmet
  <2>2. \A f \in M : \E g \in L : Alike(f, g) /\ f.kind = g.kind
    BY <1>1 DEF Alike
  <2> QED
    BY <1>2, <2>1, <2>2, DeliveryKeeps
<1>4. Counts(M)'
  BY <1>1, <1>2, LoopsType, CountsFade
<1> QED
  BY <1>1, <1>3, <1>4 DEF BusInv

\* The bus is left as it was, but for what runs and the messages.
LEMMA SetsStay ==
  ASSUME BusTypes, sets' = sets, current' = current
  PROVE  \A b \in Bus : Grows(b) /\ Fades(b) /\ InMap(b)
BY StayKeeps

\* on() and once() keep the invariant,
LEMMA SubscribeStep ==
  ASSUME MaxEvents \in Nat, BusInv, NEW b \in Bus, NEW h \in Handler, NEW w \in HearWays,
         Buses!Subscribe(b, h, w)
  PROVE  BusInv'
<1>1. /\ running' = running /\ awaiting' = awaiting /\ mail' = mail /\ emitted' = emitted
      /\ hears' = hears
  BY DEF Buses!Subscribe, Buses!loops, Buses!wire
<1>2. BusTypes
  BY DEF BusInv
<1>3. BusTypes'
  <2>1. /\ sets' \in [Bus -> Seq(Seq(EntryType))] /\ current' \in [Bus -> Nat]
        /\ \A c \in Bus : current'[c] \in DOMAIN sets'[c] \cup {0}
    BY <1>2, SubscribeAdds
  <2>2. joined' \in [Bus -> [Handler -> [HearWays -> Nat]]]
    <3>1. JoinsAnother(b, h, w)
      BY DEF Buses!Subscribe, JoinsAnother
    <3> QED
      BY <1>2, <3>1, JoinsOne
  <2> QED
    BY <1>1, <1>2, <2>1, <2>2 DEF BusTypes
<1>4. PICK L : L = BusLoops /\ L = BusLoops'
  BY <1>1 DEF BusLoops
<1>5. Delivery(L)'
  <2>1. \A d \in Bus, e \in BusEvent : Unmet(d, e, L) =>
          \A g \in Handler, v \in HearWays : hears'[d][g][v][e] = 0
    BY <1>1 DEF Unmet
  <2>2. \A f \in L : \E g \in L : Alike(f, g) /\ f.kind = g.kind
    BY DEF Alike
  <2>3. Delivery(L) /\ emitted' = emitted /\ \A c \in Bus : mail'[c] = mail[c]
    BY <1>1, <1>4 DEF BusInv
  <2> QED
    BY <1>2, <1>3, <2>1, <2>2, <2>3, DeliveryKeeps
<1>6. Counts(L)'
  <2>1. Counts(L) /\ \A f \in L : f.bus \in Bus /\ f.event \in BusEvent /\ f.next \in Nat
    BY <1>4, LoopsType DEF BusInv
  <2> QED
    BY <1>2, <1>3, <2>1, SubscribeKeeps
<1>7. Apart(running, awaiting)'
  BY <1>1 DEF BusInv, Apart
<1> QED
  BY <1>3, <1>4, <1>5, <1>6, <1>7 DEF BusInv

\* off() and clear() do,
LEMMA UnsubscribeStep ==
  ASSUME MaxEvents \in Nat, BusInv, NEW b \in Bus, Buses!Unsubscribe(b) \/ Buses!Clear(b)
  PROVE  BusInv'
<1>1. /\ running' = running /\ awaiting' = awaiting /\ mail' = mail /\ emitted' = emitted
      /\ hears' = hears /\ joined' = joined /\ cleared \subseteq cleared'
  BY DEF Buses!Unsubscribe, Buses!Clear, Buses!loops, Buses!wire
<1>2. BusTypes
  BY DEF BusInv
<1>3. /\ sets' \in [Bus -> Seq(Seq(EntryType))] /\ current' \in [Bus -> Nat]
      /\ \A c \in Bus : /\ current'[c] \in DOMAIN sets'[c] \cup {0}
                        /\ Grows(c) /\ Fades(c) /\ (c \notin cleared' => InMap(c))
  <2>1. CASE Buses!Unsubscribe(b)
    <3>1. PICK i \in Buses!Live(Buses!CurrentSet(b)) : Buses!Off(b, i)
      BY <2>1 DEF Buses!Unsubscribe
    <3> QED
      BY <1>2, <3>1, OffFades
  <2>2. CASE Buses!Clear(b)
    <3>1. /\ sets' = sets /\ current' = [current EXCEPT ![b] = 0] /\ cleared' = cleared \cup {b}
      BY <2>2 DEF Buses!Clear, Buses!None
    <3>2. current' \in [Bus -> Nat] /\ \A c \in Bus : current'[c] = IF c = b THEN 0 ELSE current[c]
      BY <1>2, <3>1 DEF BusTypes
    <3>3. \A c \in Bus : Grows(c) /\ Fades(c)
      BY <1>2, <3>1, StayKeeps
    <3>4. \A c \in Bus : c \notin cleared' => InMap(c)
      BY <3>1, <3>2 DEF InMap
    <3> QED
      BY <1>2, <3>1, <3>2, <3>3, <3>4 DEF BusTypes
  <2> QED
    BY <2>1, <2>2
<1>4. BusTypes'
  BY <1>1, <1>2, <1>3 DEF BusTypes
<1>5. Apart(running', awaiting') /\ BusLoops' = BusLoops
  BY <1>1 DEF BusInv, Apart, BusLoops
<1> QED
  BY <1>1, <1>3, <1>4, <1>5, QuietKeeps

\* emit() and emitAsync() do, of a new event,
LEMMA EmitStep ==
  ASSUME MaxEvents \in Nat, BusInv, NEW b \in Bus, NEW kind \in {"emit", "async"},
         Buses!Emit(b, kind)
  PROVE  BusInv'
<1>1. /\ sets' = sets /\ current' = current /\ awaiting' = awaiting /\ mail' = mail
      /\ joined' = joined /\ hears' = hears /\ cleared' = cleared
      /\ emitted < MaxEvents /\ emitted' = emitted + 1
  BY DEF Buses!Emit, Buses!wire
<1>2. PICK f, L : f = Buses!Loop(b, emitted + 1, kind) /\ L = BusLoops
  OBVIOUS
<1>3. running' = <<f>> \o running
  BY <1>2 DEF Buses!Emit
<1>4. BusTypes /\ Apart(running, awaiting) /\ Delivery(L) /\ Counts(L)
  BY <1>2 DEF BusInv
<1>5. PICK e \in BusEvent : e = emitted + 1
  BY <1>1, <1>4 DEF BusTypes, BusEvent
<1>6. f \in LoopType /\ f.bus = b /\ f.event = e /\ f.kind = kind
  <2>1. f = [bus |-> b, event |-> e, kind |-> kind, set |-> current[b], next |-> 1]
    BY <1>2, <1>5 DEF Buses!Loop
  <2>2. current[b] \in Nat /\ e \in Nat
    BY <1>4 DEF BusTypes, BusEvent
  <2> QED
    BY <2>1, <2>2 DEF LoopType
<1>7. Delivery({f} \cup L)' /\ Unmet(b, e, L)
  BY <1>1, <1>4, <1>5, <1>6, DeliveryEmits
<1>8. \A g \in LoopsIn(running, awaiting) : ~ Alike(f, g)
  BY <1>2, <1>6, <1>7 DEF Unmet, Alike, BusLoops
<1>9. running \in Seq(LoopType)
  BY <1>4 DEF BusTypes
<1>10. /\ Apart(<<f>> \o running, awaiting) /\ <<f>> \o running \in Seq(LoopType)
       /\ LoopsIn(<<f>> \o running, awaiting) = {f} \cup LoopsIn(running, awaiting)
  BY <1>4, <1>6, <1>8, <1>9, ApartPush
<1>11. BusTypes'
  BY <1>1, <1>3, <1>4, <1>10 DEF BusTypes
<1>12. Apart(running, awaiting)' /\ BusLoops' = {f} \cup L
  BY <1>1, <1>2, <1>3, <1>10 DEF BusLoops, Apart
<1>13. LoopAt(f)' /\ LoopCounts(f)'
  BY <1>1, <1>2, <1>4, <1>5, <1>7, <1>11, NewLoop
<1>14. Counts({f} \cup L)'
  BY <1>1, <1>2, <1>4, <1>11, <1>13, SetsStay, LoopsType, CountsFade
<1> QED
  BY <1>7, <1>11, <1>12, <1>14 DEF BusInv

\* a message of another bus does, of an event its receiver has not met,
LEMMA ReceiveStep ==
  ASSUME MaxEvents \in Nat, BusInv, NEW b \in Bus, Buses!Receive(b)
  PROVE  BusInv'
<1>1. /\ sets' = sets /\ current' = current /\ awaiting' = awaiting /\ emitted' = emitted
      /\ joined' = joined /\ hears' = hears /\ cleared' = cleared
      /\ running = <<>> /\ mail[b] # <<>> /\ mail' = [mail EXCEPT ![b] = Tail(mail[b])]
  BY DEF Buses!Receive
<1>2. BusTypes /\ Apart(running, awaiting)
  BY DEF BusInv
<1>3. /\ mail' \in [Bus -> Seq(MessageType)] /\ mail'[b] = Tail(mail[b])
      /\ \A c \in Bus \ {b} : mail'[c] = mail[c]
  <2>1. mail[b] \in Seq(MessageType)
    BY <1>2 DEF BusTypes
  <2>2. Tail(mail[b]) \in Seq(MessageType)
    BY <1>1, <2>1
  <2> QED
    BY <1>1, <1>2, <2>2 DEF BusTypes
<1>4. \A c \in Bus : Grows(c) /\ Fades(c) /\ InMap(c)
  BY <1>1, <1>2, SetsStay
<1>5. CASE running' = running
  <2>1. BusTypes'
    BY <1>1, <1>2, <1>3, <1>5 DEF BusTypes
  <2>2. Apart(running', awaiting') /\ BusLoops' = BusLoops
    BY <1>1, <1>2, <1>5 DEF Apart, BusLoops
  <2> QED
    BY <1>1, <1>3, <1>4, <2>1, <2>2, QuietKeeps
<1>6. CASE running' # running
  <2>1. PICK f, L : f = Buses!Loop(b, Head(mail[b]).event, "remote") /\ L = BusLoops
    OBVIOUS
  <2>2. running' = <<f>> /\ Head(mail[b]).from # b
    BY <1>6, <2>1 DEF Buses!Receive
  <2>3. Delivery(L) /\ Counts(L)
    BY <2>1 DEF BusInv
  <2>4. PICK e \in BusEvent : e = Head(mail[b]).event
    <3>1. mail[b] \in Seq(MessageType)
      BY <1>2 DEF BusTypes
    <3>2. 1 \in DOMAIN mail[b] /\ Head(mail[b]) = mail[b][1]
      BY <1>1, <3>1
    <3> QED
      BY <2>3, <3>2 DEF Delivery, InMail
  <2>5. f \in LoopType /\ f.bus = b /\ f.event = e /\ f.kind = "remote"
    <3>1. f = [bus |-> b, event |-> e, kind |-> "remote", set |-> current[b], next |-> 1]
      BY <2>1, <2>4 DEF Buses!Loop
    <3>2. current[b] \in Nat /\ e \in Nat
      BY <1>2 DEF BusTypes, BusEvent
    <3> QED
      BY <3>1, <3>2 DEF LoopType
  <2>6. running' \in Seq(LoopType) /\ running' = <<f>> \o running
    BY <1>1, <2>2, <2>5
  <2>7. BusTypes'
    BY <1>1, <1>2, <1>3, <2>6 DEF BusTypes
  <2>8. Delivery({f} \cup L)' /\ Unmet(b, e, L)
    <3>1. emitted' = emitted /\ hears' = hears /\ mail[b] # <<>>
      BY <1>1
    <3>2. f.event = Head(mail[b]).event
      BY <2>4, <2>5
    <3>3. Delivery({f} \cup L)' /\ Unmet(b, f.event, L)
      BY <1>2, <1>3, <2>2, <2>3, <2>5, <2>7, <3>1, <3>2, DeliveryReceives
    <3> QED
      BY <2>5, <3>3
  <2>9. \A g \in LoopsIn(running, awaiting) : ~ Alike(f, g)
    BY <2>1, <2>5, <2>8 DEF Unmet, Alike, BusLoops
  <2>10. running \in Seq(LoopType)
    BY <1>2 DEF BusTypes
  <2>11. /\ Apart(<<f>> \o running, awaiting)
         /\ LoopsIn(<<f>> \o running, awaiting) = {f} \cup LoopsIn(running, awaiting)
    BY <1>2, <2>5, <2>9, <2>10, ApartPush
  <2>12. Apart(running, awaiting)' /\ BusLoops' = {f} \cup L
    BY <1>1, <2>1, <2>6, <2>11 DEF BusLoops, Apart
  <2>13. LoopAt(f)' /\ LoopCounts(f)'
    BY <1>1, <1>2, <2>1, <2>4, <2>7, <2>8, NewLoop
  <2>14. Counts({f} \cup L)'
    BY <1>1, <1>4, <1>2, <2>1, <2>3, <2>7, <2>13, LoopsType, CountsFade
  <2> QED
    BY <2>7, <2>8, <2>12, <2>14 DEF BusInv
<1> QED
  BY <1>5, <1>6

\* The bridge goes up and down, a loop fails, or nothing happens.
LEMMA BridgeStep ==
  ASSUME MaxEvents \in Nat, BusInv,
         \/ \E b \in Bus : Buses!Connect(b) \/ Buses!Connected(b) \/ Buses!Disconnect(b)
                           \/ Buses!Disconnected(b)
         \/ Buses!Throws \/ (\E f \in awaiting : Buses!Rejects(f)) \/ UNCHANGED Buses!busVars
  PROVE  BusInv'
<1>1. /\ sets' = sets /\ current' = current /\ emitted' = emitted
      /\ joined' = joined /\ hears' = hears /\ cleared' = cleared
  BY DEF Buses!Connect, Buses!Connected, Buses!Disconnect, Buses!Disconnected, Buses!Throws,
         Buses!Rejects, Buses!busVars
<1>2. BusTypes /\ Apart(running, awaiting)
  BY DEF BusInv
<1>3. /\ mail' \in [Bus -> Seq(MessageType)]
      /\ \A b \in Bus : mail'[b] = mail[b] \/ mail'[b] = <<>>
  <2>1. CASE mail' = mail
    BY <1>2, <2>1 DEF BusTypes
  <2>2. CASE \E b \in Bus : mail' = [mail EXCEPT ![b] = <<>>]
    BY <1>2, <2>2 DEF BusTypes
  <2> QED
    BY <2>1, <2>2 DEF Buses!Connect, Buses!Connected, Buses!Disconnect, Buses!Disconnected,
       Buses!Throws, Buses!Rejects, Buses!busVars, Buses!loops, Buses!wire
<1>4. /\ running' \in Seq(LoopType) /\ awaiting' \in SUBSET LoopType
      /\ Apart(running', awaiting') /\ BusLoops' \subseteq BusLoops
  <2>1. CASE running' = running /\ awaiting' = awaiting
    BY <1>2, <2>1 DEF BusTypes, BusLoops
  <2>2. CASE Buses!Throws
    <3>1. running # <<>> /\ running' = Tail(running) /\ awaiting' = awaiting
      BY <2>2 DEF Buses!Throws
    <3>2. running \in Seq(LoopType) /\ awaiting \in SUBSET LoopType
      BY <1>2 DEF BusTypes
    <3>3. /\ Apart(Tail(running), awaiting) /\ Tail(running) \in Seq(LoopType)
          /\ LoopsIn(running, awaiting) = {Head(running)} \cup LoopsIn(Tail(running), awaiting)
      BY <1>2, <3>1, <3>2, ApartPop
    <3> QED
      BY <3>1, <3>2, <3>3 DEF BusLoops
  <2>3. CASE \E f \in awaiting : Buses!Rejects(f)
    <3>1. PICK f \in awaiting : running' = running /\ awaiting' = awaiting \ {f}
      BY <2>3 DEF Buses!Rejects
    <3>2. running \in Seq(LoopType) /\ awaiting \in SUBSET LoopType
      BY <1>2 DEF BusTypes
    <3>3. /\ Apart(running, awaiting \ {f})
          /\ LoopsIn(running, awaiting) = {f} \cup LoopsIn(running, awaiting \ {f})
      BY <1>2, <3>1, ApartLeaves
    <3> QED
      BY <3>1, <3>2, <3>3 DEF BusLoops
  <2> QED
    BY <2>1, <2>2, <2>3 DEF Buses!Connect, Buses!Connected, Buses!Disconnect,
       Buses!Disconnected, Buses!busVars, Buses!loops
<1>5. BusTypes'
  BY <1>1, <1>2, <1>3, <1>4 DEF BusTypes
<1>6. \A b \in Bus : Grows(b) /\ Fades(b) /\ InMap(b)
  BY <1>1, <1>2, SetsStay
<1> QED
  BY <1>1, <1>3, <1>4, <1>5, <1>6, QuietKeeps

\* The loop f takes a step: it ends, or it calls the next entry and runs on.
LEMMA LoopStep ==
  ASSUME MaxEvents \in Nat, BusInv, NEW f \in LoopType, NEW rest \in Seq(LoopType),
         NEW others \in SUBSET LoopType, Apart(rest, others),
         BusLoops = {f} \cup LoopsIn(rest, others),
         \A g \in LoopsIn(rest, others) : ~ Alike(f, g),
         Buses!Step(f, rest, others)
  PROVE  BusInv'
<1>1. BusTypes /\ Apart(running, awaiting)
  BY DEF BusInv
<1>2. emitted' = emitted /\ joined' = joined /\ cleared' = cleared
  BY DEF Buses!Step
<1>3. PICK R : R = LoopsIn(rest, others)
  OBVIOUS
<1>4. f.bus \in Bus /\ f.event \in BusEvent /\ f.next \in Nat
  BY LoopsType
<1>5. \A g \in R : ~ Alike(f, g) /\ g.bus \in Bus /\ g.event \in BusEvent /\ g.next \in Nat
  BY <1>3, LoopsType
<1>6. Delivery({f} \cup R) /\ Counts({f} \cup R)
  BY <1>3 DEF BusInv
<1>7. f \notin R
  BY <1>5 DEF Alike
<1>8. CASE Buses!Ahead(f) = {}
  <2>1. /\ Buses!Publish(f) /\ running' = rest /\ awaiting' = others
        /\ sets' = sets /\ current' = current /\ hears' = hears
    BY <1>8 DEF Buses!Step
  <2>2. PICK message : message = [event |-> f.event, from |-> f.bus]
    OBVIOUS
  <2>3. message \in MessageType
    BY <1>4, <2>2 DEF MessageType, BusEvent
  <2>4. CASE mail' = mail
    <3>1. BusTypes'
      BY <1>1, <1>2, <2>1, <2>4 DEF BusTypes
    <3>2. \A b \in Bus : Grows(b) /\ Fades(b) /\ InMap(b)
      BY <1>1, <2>1, SetsStay
    <3>3. Apart(running', awaiting') /\ BusLoops' \subseteq BusLoops
      BY <2>1 DEF BusLoops
    <3> QED
      BY <1>2, <2>1, <2>4, <3>1, <3>2, <3>3, QuietKeeps
  <2>5. CASE mail' # mail
    <3>1. /\ f.kind # "remote"
          /\ mail' = [b \in Bus |-> IF link[b] = "off" THEN mail[b] ELSE Append(mail[b], message)]
      BY <2>1, <2>2, <2>5 DEF Buses!Publish
    <3>2. \A b \in Bus : mail'[b] = mail[b] \/ mail'[b] = Append(mail[b], message)
      BY <3>1
    <3>3. mail' \in [Bus -> Seq(MessageType)]
      <4>1. ASSUME NEW b \in Bus
            PROVE  mail[b] \in Seq(MessageType) /\ Append(mail[b], message) \in Seq(MessageType)
        <5>1. mail[b] \in Seq(MessageType)
          BY <1>1 DEF BusTypes
        <5> QED
          BY <2>3, <5>1
      <4> QED
        BY <3>1, <4>1
    <3>4. BusTypes'
      BY <1>1, <1>2, <2>1, <3>3 DEF BusTypes
    <3>5. ({f} \cup R) \ {f} = R
      BY <1>7
    <3>6. Delivery(R)'
      <4>1. PICK L : L = {f} \cup R
        OBVIOUS
      <4>2. Delivery(L \ {f})'
        BY <1>1, <1>2, <1>5, <1>6, <2>1, <2>2, <3>1, <3>2, <3>4, <4>1, DeliveryPublishes
      <4> QED
        BY <3>5, <4>1, <4>2
    <3>7. \A b \in Bus : Grows(b) /\ Fades(b) /\ InMap(b)
      BY <1>1, <2>1, SetsStay
    <3>8. Counts(R)'
      BY <1>1, <1>2, <1>5, <1>6, <2>1, <3>4, <3>7, CountsFade
    <3>9. BusLoops' = R /\ Apart(running, awaiting)'
      BY <1>3, <2>1 DEF BusLoops, Apart
    <3> QED
      BY <3>4, <3>6, <3>8, <3>9 DEF BusInv
  <2> QED
    BY <2>4, <2>5
<1>9. CASE Buses!Ahead(f) # {}
  <2>1. LoopAt(f)
    BY <1>6 DEF Counts
  <2>2. PICK i \in Buses!Ahead(f) : i = Buses!Min(Buses!Ahead(f))
    <3>1. Buses!Ahead(f) \subseteq Nat
      <4>1. f.set # 0 => \A i \in DOMAIN sets[f.bus][f.set] : i \in Nat
        <5> SUFFICES ASSUME f.set # 0 PROVE \A i \in DOMAIN sets[f.bus][f.set] : i \in Nat
          OBVIOUS
        <5>1. sets[f.bus] \in Seq(Seq(EntryType))
          BY <1>1, <1>4 DEF BusTypes
        <5>2. sets[f.bus][f.set] \in Seq(EntryType)
          BY <2>1, <5>1 DEF LoopAt
        <5> QED
          BY <5>2
      <4> QED
        BY <4>1 DEF Buses!Ahead, Buses!None, Buses!Live
    <3>2. \E i \in Buses!Ahead(f) : \A j \in Buses!Ahead(f) : i <= j
      BY <1>9, <3>1, LeastNumber
    <3> QED
      BY <3>2 DEF Buses!Min
  <2>3. PICK on : on = [f EXCEPT !.next = i + 1]
    OBVIOUS
  <2>4. /\ Buses!Calls(f, i) /\ mail' = mail
        /\ \/ running' = rest /\ awaiting' = others \cup {on}
           \/ running' = <<on>> \o rest /\ awaiting' = others
    BY <1>9, <2>2, <2>3 DEF Buses!Step
  <2>5. /\ i \in Nat
        /\ sets' \in [Bus -> Seq(Seq(EntryType))] /\ current' \in [Bus -> Nat]
        /\ \A c \in Bus : current'[c] \in DOMAIN sets'[c] \cup {0}
        /\ hears' \in [Bus -> [Handler -> [HearWays -> [BusEvent -> Nat]]]]
        /\ \A c \in Bus, e \in BusEvent : ~ (c = f.bus /\ e = f.event) =>
             \A g \in Handler, v \in HearWays : hears'[c][g][v][e] = hears[c][g][v][e]
    BY <1>1, <1>4, <2>1, <2>4, CallsOne
  <2>6. /\ on \in LoopType /\ on.bus = f.bus /\ on.event = f.event /\ on.kind = f.kind
        /\ on.set = f.set /\ on.next = i + 1
    <3>1. /\ DOMAIN f = {"bus", "event", "kind", "set", "next"} /\ f.bus \in Bus /\ f.event \in Nat
          /\ f.kind \in {"emit", "async", "remote"} /\ f.set \in Nat /\ i + 1 \in Nat
      BY <2>5 DEF LoopType
    <3>2. on = [bus |-> f.bus, event |-> f.event, kind |-> f.kind, set |-> f.set, next |-> i + 1]
      BY <2>3 DEF LoopType
    <3> QED
      BY <3>1, <3>2 DEF LoopType
  <2>7. \A g \in R : ~ Alike(on, g)
    BY <1>5, <2>6 DEF Alike
  <2>8. /\ Apart(running', awaiting') /\ BusLoops' = {on} \cup R
        /\ running' \in Seq(LoopType) /\ awaiting' \in SUBSET LoopType
    <3>1. CASE running' = rest /\ awaiting' = others \cup {on}
      <4>1. /\ Apart(rest, others \cup {on})
            /\ LoopsIn(rest, others \cup {on}) = {on} \cup LoopsIn(rest, others)
        <5>1. \A g \in LoopsIn(rest, others) : ~ Alike(on, g)
          BY <1>3, <2>7
        <5>2. Apart(rest, others)
          OBVIOUS
        <5> QED
          BY <5>1, <5>2, ApartJoins
      <4> QED
        BY <1>3, <2>6, <3>1, <4>1 DEF BusLoops
    <3>2. CASE running' = <<on>> \o rest /\ awaiting' = others
      <4>1. /\ Apart(<<on>> \o rest, others) /\ <<on>> \o rest \in Seq(LoopType)
            /\ LoopsIn(<<on>> \o rest, others) = {on} \cup LoopsIn(rest, others)
        BY <1>3, <2>6, <2>7, ApartPush
      <4> QED
        BY <1>3, <2>6, <3>2, <4>1 DEF BusLoops
    <3> QED
      BY <2>4, <3>1, <3>2
  <2>9. BusTypes'
    BY <1>1, <1>2, <2>4, <2>5, <2>8 DEF BusTypes
  <2>10. Delivery({on} \cup R)'
    <3>1. PICK L, M : L = {f} \cup R /\ M = {on} \cup R
      OBVIOUS
    <3>2. \A d \in Bus, e \in BusEvent : Unmet(d, e, L) =>
            \A g \in Handler, v \in HearWays : hears'[d][g][v][e] = 0
      <4> SUFFICES ASSUME NEW d \in Bus, NEW e \in BusEvent, Unmet(d, e, L),
                          NEW g \in Handler, NEW v \in HearWays
                   PROVE  hears'[d][g][v][e] = 0
        OBVIOUS
      <4>1. ~ (f.bus = d /\ f.event = e) /\ hears[d][g][v][e] = 0
        BY <3>1 DEF Unmet
      <4> QED
        BY <2>5, <4>1
    <3>3. \A m \in M : \E g \in L : Alike(m, g) /\ m.kind = g.kind
      BY <2>6, <3>1 DEF Alike
    <3>4. Delivery(M)'
      BY <1>1, <1>2, <1>6, <2>4, <2>9, <3>1, <3>2, <3>3, DeliveryKeeps
    <3> QED
      BY <3>1, <3>4
  <2>11. Counts({on} \cup R)'
    BY <1>1, <1>2, <1>4, <1>5, <1>6, <2>4, <2>6, <2>9, CallsKeep
  <2> QED
    BY <2>8, <2>9, <2>10, <2>11 DEF BusInv
<1> QED
  BY <1>8, <1>9

\* and so do the loops, called on or resumed,
LEMMA LoopSteps ==
  ASSUME MaxEvents \in Nat, BusInv, Buses!Runs \/ \E f \in awaiting : Buses!Resumes(f)
  PROVE  BusInv'
<1>1. /\ Apart(running, awaiting) /\ running \in Seq(LoopType) /\ awaiting \in SUBSET LoopType
  BY DEF BusInv, BusTypes
<1>2. CASE Buses!Runs
  <2>1. PICK f, rest : f = Head(running) /\ rest = Tail(running)
    OBVIOUS
  <2>2. running # <<>> /\ Buses!Step(f, rest, awaiting)
    BY <1>2, <2>1 DEF Buses!Runs
  <2>3. /\ Apart(rest, awaiting) /\ rest \in Seq(LoopType) /\ f \in LoopType
        /\ BusLoops = {f} \cup LoopsIn(rest, awaiting)
        /\ \A g \in LoopsIn(rest, awaiting) : ~ Alike(f, g)
    BY <1>1, <2>1, <2>2, ApartPop DEF BusLoops
  <2> QED
    BY <1>1, <2>2, <2>3, LoopStep
<1>3. CASE \E f \in awaiting : Buses!Resumes(f)
  <2>1. PICK f \in awaiting : running = <<>> /\ Buses!Step(f, <<>>, awaiting \ {f})
    BY <1>3 DEF Buses!Resumes
  <2>2. /\ Apart(<<>>, awaiting \ {f}) /\ BusLoops = {f} \cup LoopsIn(<<>>, awaiting \ {f})
        /\ \A g \in LoopsIn(<<>>, awaiting \ {f}) : ~ Alike(f, g)
    <3>1. Apart(<<>>, awaiting) /\ BusLoops = LoopsIn(<<>>, awaiting)
      BY <1>1, <2>1 DEF BusLoops
    <3>2. /\ Apart(<<>>, awaiting \ {f}) /\ LoopsIn(<<>>, awaiting)
                                              = {f} \cup LoopsIn(<<>>, awaiting \ {f})
          /\ \A g \in LoopsIn(<<>>, awaiting \ {f}) : ~ Alike(f, g)
      BY <3>1, ApartLeaves
    <3> QED
      BY <3>1, <3>2
  <2>3. f \in LoopType /\ <<>> \in Seq(LoopType) /\ awaiting \ {f} \in SUBSET LoopType
    BY <1>1
  <2> QED
    BY <2>1, <2>2, <2>3, LoopStep
<1> QED
  BY <1>2, <1>3

\* from a start without subscriptions.
LEMMA BusStarts == ASSUME MaxEvents \in Nat, Buses!Init PROVE BusInv
<1>1. BusTypes
  <2>1. sets \in [Bus -> Seq(Seq(EntryType))] /\ current \in [Bus -> Nat]
    BY DEF Buses!Init, Buses!None
  <2>2. \A b \in Bus : current[b] \in DOMAIN sets[b] \cup {0}
    BY DEF Buses!Init, Buses!None
  <2>3. running \in Seq(LoopType) /\ awaiting \in SUBSET LoopType
    BY DEF Buses!Init
  <2>4. mail \in [Bus -> Seq(MessageType)] /\ emitted \in Nat
    BY DEF Buses!Init
  <2>5. joined \in [Bus -> [Handler -> [HearWays -> Nat]]]
    BY DEF Buses!Init, Buses!Ways, HearWays
  <2>6. hears \in [Bus -> [Handler -> [HearWays -> [BusEvent -> Nat]]]]
    BY DEF Buses!Init, Buses!Ways, HearWays, Buses!Event, BusEvent
  <2> QED
    BY <2>1, <2>2, <2>3, <2>4, <2>5, <2>6 DEF BusTypes
<1>2. BusLoops = {} /\ Apart(running, awaiting)
  BY DEF Buses!Init, BusLoops, LoopsIn, Apart
<1>3. /\ \A b \in Bus : sets[b] = <<>> /\ current[b] = 0 /\ mail[b] = <<>>
      /\ \A b \in Bus, h \in Handler, w \in HearWays, e \in BusEvent : hears[b][h][w][e] = 0
      /\ \A b \in Bus, h \in Handler, w \in HearWays : joined[b][h][w] = 0
  BY DEF Buses!Init, Buses!None, Buses!Ways, HearWays, Buses!Event, BusEvent
<1>4. Delivery({})
  BY <1>3 DEF Delivery, Unborn, AtOrigin, InMail, NoMessage, Unmet
<1>5. SetCounts /\ EventCounts
  BY <1>3 DEF SetCounts, EventCounts, HearWays
<1>6. OnceCounts
  <2> SUFFICES ASSUME NEW b \in Bus
               PROVE  /\ OnlyCurrentLives(b)
                      /\ \A h \in Handler :
                           SumFunctionOnSet(hears[b][h]["once"], BusEvent)
                             + Cardinality(LiveOnce(b, h)) <= joined[b][h]["once"]
    BY DEF OnceCounts
  <2>1. OnlyCurrentLives(b)
    BY <1>3 DEF OnlyCurrentLives
  <2>2. ASSUME NEW h \in Handler
        PROVE  SumFunctionOnSet(hears[b][h]["once"], BusEvent)
                 + Cardinality(LiveOnce(b, h)) <= joined[b][h]["once"]
    <3>1. LiveOnce(b, h) = {}
      BY <1>3 DEF LiveOnce, Buses!Live, Buses!CurrentSet, Buses!None
    <3>2. Cardinality(LiveOnce(b, h)) = 0
      BY <3>1, FS_EmptySet
    <3>3. SumFunctionOnSet(hears[b][h]["once"], BusEvent) = 0
      <4>1. PICK F : F = hears[b][h]["once"]
        OBVIOUS
      <4>2. \A e \in BusEvent : F[e] = 0
        BY <1>3, <4>1 DEF HearWays
      <4>3. IsFiniteSet(BusEvent)
        BY FS_Interval DEF BusEvent
      <4>4. SumFunctionOnSet(F, BusEvent) = 0
        BY <4>2, <4>3, SumZero
      <4> QED
        BY <4>1, <4>4
    <3>4. joined[b][h]["once"] = 0
      BY <1>3 DEF HearWays
    <3> QED
      BY <3>2, <3>3, <3>4
  <2> QED
    BY <2>1, <2>2
<1> QED
  BY <1>1, <1>2, <1>4, <1>5, <1>6 DEF BusInv, Counts

\* What the invariant is for.
LEMMA OnceFromCounts == ASSUME MaxEvents \in Nat, BusInv PROVE HeardOnce
<1>0. \A F : Buses!SumFunction(F) = SumFunctionOnSet(F, DOMAIN F)
  BY Zenon DEF Buses!SumFunction, Buses!SumFunctionOnSet, Buses!FoldFunctionOnSet,
     Buses!MapThenFoldSet, SumFunctionOnSet, FoldFunctionOnSet, MapThenFoldSet
<1> SUFFICES ASSUME NEW b \in Bus, NEW h \in Handler
             PROVE  /\ \A e \in BusEvent : hears[b][h]["on"][e] <= joined[b][h]["on"]
                    /\ b \notin cleared =>
                         SumFunctionOnSet(hears[b][h]["once"], DOMAIN hears[b][h]["once"])
                           <= joined[b][h]["once"]
  BY <1>0 DEF HeardOnce, Buses!HeardOnce, Buses!Event, BusEvent
<1>1. \A e \in BusEvent : hears[b][h]["on"][e] <= joined[b][h]["on"]
  BY DEF BusInv, Counts, EventCounts
<1>2. ASSUME b \notin cleared
      PROVE  SumFunctionOnSet(hears[b][h]["once"], DOMAIN hears[b][h]["once"])
               <= joined[b][h]["once"]
  <2>1. /\ joined[b][h] \in [HearWays -> Nat] /\ hears[b][h] \in [HearWays -> [BusEvent -> Nat]]
    BY DEF BusInv, BusTypes
  <2>2. joined[b][h]["once"] \in Nat /\ hears[b][h]["once"] \in [BusEvent -> Nat]
    BY <2>1 DEF HearWays
  <2>3. PICK n : n = SumFunctionOnSet(hears[b][h]["once"], BusEvent) /\ n \in Int
    BY <2>2, CallsSum
  <2>4. n + Cardinality(LiveOnce(b, h)) <= joined[b][h]["once"]
    BY <1>2, <2>3 DEF BusInv, Counts, OnceCounts
  <2>5. Cardinality(LiveOnce(b, h)) \in Nat
    BY LiveOnceIs, Positions DEF BusInv
  <2>6. n <= joined[b][h]["once"]
    BY <2>2, <2>3, <2>4, <2>5
  <2> QED
    BY <2>2, <2>3, <2>6
<1> QED
  BY <1>1, <1>2

\* However loops overlap and nest over the buses, entries come and go and messages
\* pass between them: a handler hears an event once per subscription at most, and a
\* once() hears one event in all, unless its bus was cleared.
THEOREM HeardOnceHolds == ASSUME MaxEvents \in Nat PROVE Buses!Spec => []HeardOnce
<1>1. Buses!Init => BusInv
  BY BusStarts
<1>2. BusInv /\ [Buses!Next]_(Buses!busVars) => BusInv'
  <2> SUFFICES ASSUME BusInv, [Buses!Next]_(Buses!busVars) PROVE BusInv'
    OBVIOUS
  <2>1. ASSUME NEW b \in Bus, NEW h \in Handler, NEW w \in HearWays, Buses!Subscribe(b, h, w)
        PROVE  BusInv'
    BY <2>1, SubscribeStep
  <2>2. ASSUME NEW b \in Bus, Buses!Unsubscribe(b) \/ Buses!Clear(b) PROVE BusInv'
    BY <2>2, UnsubscribeStep
  <2>3. ASSUME NEW b \in Bus, NEW kind \in {"emit", "async"}, Buses!Emit(b, kind) PROVE BusInv'
    BY <2>3, EmitStep
  <2>4. ASSUME NEW b \in Bus, Buses!Receive(b) PROVE BusInv'
    BY <2>4, ReceiveStep
  <2>5. ASSUME \/ \E b \in Bus : Buses!Connect(b) \/ Buses!Connected(b) \/ Buses!Disconnect(b)
                                 \/ Buses!Disconnected(b)
               \/ Buses!Throws \/ (\E f \in awaiting : Buses!Rejects(f))
               \/ UNCHANGED Buses!busVars
        PROVE  BusInv'
    BY <2>5, BridgeStep
  <2>6. ASSUME Buses!Runs \/ \E f \in awaiting : Buses!Resumes(f) PROVE BusInv'
    BY <2>6, LoopSteps
  <2> QED
    BY <2>1, <2>2, <2>3, <2>4, <2>5, <2>6 DEF Buses!Next, Buses!Ways, HearWays
<1>3. BusInv => HeardOnce
  BY OnceFromCounts
<1> QED
  BY <1>1, <1>2, <1>3, PTL DEF Buses!Spec

-----------------------------------------------------------------------------
(* The rooms. *)
\* The maps, and the presence data keep their types.
THEOREM TypeCorrect == Spec => []TypeOK
<1>1. Init => TypeOK
  BY DEF Init, TypeOK
<1>2. TypeOK /\ [Next]_vars => TypeOK'
  <2>. SUFFICES ASSUME TypeOK, [Next]_vars PROVE TypeOK'
    OBVIOUS
  <2>1. ASSUME NEW c \in Conn, Open(c) PROVE TypeOK'
    BY <2>1 DEF TypeOK, Open, roomVars
  <2>2. ASSUME NEW c \in Conn, Close(c) PROVE TypeOK'
    BY <2>2 DEF TypeOK, Close, roomVars
  <2>3. ASSUME NEW c \in Conn, Cleanup(c) PROVE TypeOK'
    BY <2>3 DEF TypeOK, Cleanup
  <2>4. ASSUME NEW c \in Conn, SetPresence(c) \/ DeletePresence(c) PROVE TypeOK'
    BY <2>4 DEF TypeOK, SetPresence, DeletePresence, roomVars
  <2>5. ASSUME NEW c \in Conn, NEW r \in Room, Join(c, r) PROVE TypeOK'
    BY <2>5 DEF TypeOK, Join
  <2>6. ASSUME NEW c \in Conn, NEW r \in Room, Leave(c, r) PROVE TypeOK'
    BY <2>6 DEF TypeOK, Leave
  <2>8. CASE ClearAll
    BY <2>8 DEF TypeOK, ClearAll
  <2>9. CASE UNCHANGED vars
    BY <2>9 DEF TypeOK, vars, roomVars
  <2>. QED BY <2>1, <2>2, <2>3, <2>4, <2>5, <2>6, <2>8, <2>9 DEF Next
<1>. QED BY <1>1, <1>2, PTL DEF Spec

-----------------------------------------------------------------------------
\* The two maps mirror each other for every number of connections and rooms.
THEOREM MirroredHolds == Spec => []Mirrored
<1>1. Init => Mirrored
  BY DEF Init, Mirrored
<1>2. TypeOK /\ Mirrored /\ [Next]_vars => Mirrored'
  <2>. SUFFICES ASSUME TypeOK, Mirrored, [Next]_vars PROVE Mirrored'
    OBVIOUS
  <2>1. ASSUME NEW c \in Conn, Cleanup(c) PROVE Mirrored'
    BY <2>1 DEF TypeOK, Mirrored, Cleanup
  <2>2. ASSUME NEW c \in Conn, NEW r \in Room, Join(c, r) PROVE Mirrored'
    BY <2>2 DEF TypeOK, Mirrored, Join
  <2>3. ASSUME NEW c \in Conn, NEW r \in Room, Leave(c, r) PROVE Mirrored'
    BY <2>3 DEF TypeOK, Mirrored, Leave
  <2>4. CASE ClearAll
    BY <2>4 DEF Mirrored, ClearAll
  <2>5. CASE UNCHANGED roomVars
    BY <2>5 DEF Mirrored, roomVars
  <2>. QED BY <2>1, <2>2, <2>3, <2>4, <2>5
       DEF Next, Open, Close, SetPresence, DeletePresence, vars
<1>. QED BY <1>1, <1>2, TypeCorrect, PTL DEF Spec

\* Neither map ever holds a key of an empty set or a set without its key.
THEOREM NoEmptyKeysHolds == Spec => []NoEmptyKeys
<1>1. Init => NoEmptyKeys
  BY DEF Init, NoEmptyKeys
<1>2. TypeOK /\ Mirrored /\ NoEmptyKeys /\ [Next]_vars => NoEmptyKeys'
  <2>. SUFFICES ASSUME TypeOK, Mirrored, NoEmptyKeys, [Next]_vars PROVE NoEmptyKeys'
    OBVIOUS
  <2>1. ASSUME NEW c \in Conn, Cleanup(c) PROVE NoEmptyKeys'
    BY <2>1 DEF TypeOK, Mirrored, NoEmptyKeys, Cleanup
  <2>2. ASSUME NEW c \in Conn, NEW r \in Room, Join(c, r) PROVE NoEmptyKeys'
    BY <2>2 DEF TypeOK, NoEmptyKeys, Join
  <2>3. ASSUME NEW c \in Conn, NEW r \in Room, Leave(c, r) PROVE NoEmptyKeys'
    BY <2>3 DEF TypeOK, NoEmptyKeys, Leave
  <2>4. CASE ClearAll
    BY <2>4 DEF NoEmptyKeys, ClearAll
  <2>5. CASE UNCHANGED roomVars
    BY <2>5 DEF NoEmptyKeys, roomVars
  <2>. QED BY <2>1, <2>2, <2>3, <2>4, <2>5
       DEF Next, Open, Close, SetPresence, DeletePresence, vars
<1>. QED BY <1>1, <1>2, TypeCorrect, MirroredHolds, PTL DEF Spec

-----------------------------------------------------------------------------
\* A connection cleaned up and quiet since is held by neither map nor the
\* presence data: cleanup finds every room by the reverse map, which Mirrored
\* makes complete.
THEOREM NothingHeldHolds == Spec => []NothingHeld
<1>1. Init => NothingHeld
  BY DEF Init, NothingHeld
<1>2. TypeOK /\ Mirrored /\ NoEmptyKeys /\ NothingHeld /\ [Next]_vars => NothingHeld'
  <2>. SUFFICES ASSUME TypeOK, Mirrored, NoEmptyKeys, NothingHeld, [Next]_vars PROVE NothingHeld'
    OBVIOUS
  <2>1. ASSUME NEW c \in Conn, Cleanup(c) PROVE NothingHeld'
    BY <2>1 DEF TypeOK, Mirrored, NothingHeld, Cleanup
  <2>2. ASSUME NEW c \in Conn, NEW r \in Room, Join(c, r) PROVE NothingHeld'
    BY <2>2 DEF TypeOK, NothingHeld, Join
  <2>3. ASSUME NEW c \in Conn, NEW r \in Room, Leave(c, r) PROVE NothingHeld'
    BY <2>3 DEF TypeOK, NothingHeld, Leave
  <2>4. ASSUME NEW c \in Conn, SetPresence(c) \/ DeletePresence(c) PROVE NothingHeld'
    BY <2>4 DEF TypeOK, NothingHeld, SetPresence, DeletePresence, roomVars
  <2>5. CASE ClearAll
    BY <2>5 DEF TypeOK, NothingHeld, ClearAll
  <2>6. CASE UNCHANGED <<roomVars, presence, quiet>>
    BY <2>6 DEF NothingHeld, roomVars
  <2>. QED BY <2>1, <2>2, <2>3, <2>4, <2>5, <2>6
       DEF Next, Open, Close, vars
<1>. QED BY <1>1, <1>2, TypeCorrect, MirroredHolds, NoEmptyKeysHolds, PTL DEF Spec

-----------------------------------------------------------------------------
\* Adding to a set below its limit, or to none, stays within what is admitted.
LEMMA AddWithin ==
  ASSUME NEW S, IsFiniteSet(S), NEW x, NEW m \in Nat, S = {} \/ Cardinality(S) < m
  PROVE  Cardinality(S \cup {x}) <= Admitted(m)
<1>1. Cardinality(S) \in Nat
  BY FS_CardinalityType
<1>2. Cardinality(S \cup {x}) = IF x \in S THEN Cardinality(S) ELSE Cardinality(S) + 1
  BY FS_AddElement
<1>3. S = {} => Cardinality(S) = 0
  BY FS_EmptySet
<1>. QED BY <1>1, <1>2, <1>3 DEF Admitted

\* A part of a set is no larger.
LEMMA PartWithin ==
  ASSUME NEW S, NEW T, IsFiniteSet(S), T \subseteq S, NEW m \in Nat, Cardinality(S) <= m
  PROVE  Cardinality(T) <= m
<1>1. Cardinality(S) \in Nat /\ IsFiniteSet(T) /\ Cardinality(T) <= Cardinality(S)
  BY FS_Subset, FS_CardinalityType
<1>2. Cardinality(T) \in Nat
  BY <1>1, FS_CardinalityType
<1>. QED BY <1>1, <1>2

\* Neither limit is ever exceeded, for finite sets of connections and rooms, but
\* that a limit of 0 admits one: where there is no key the set is empty.
THEOREM WithinLimitsHolds == FiniteBounds => (Spec => []WithinLimits)
<1>. SUFFICES ASSUME FiniteBounds PROVE Spec => []WithinLimits
  OBVIOUS
<1>. DEFINE Finite == /\ \A c \in Conn : IsFiniteSet(connRooms[c])
                      /\ \A r \in Room : IsFiniteSet(rooms[r])
<1>0. TypeOK => Finite
  BY FS_Subset DEF TypeOK, FiniteBounds
<1>1. Init => WithinLimits
  <2>1. Cardinality({}) = 0
    BY FS_EmptySet
  <2>2. 0 <= Admitted(MaxRooms) /\ 0 <= Admitted(MaxConns)
    BY DEF Admitted, FiniteBounds
  <2>. QED BY <2>1, <2>2 DEF Init, WithinLimits
<1>2. TypeOK /\ NoEmptyKeys /\ WithinLimits /\ [Next]_vars => WithinLimits'
  <2>. SUFFICES ASSUME TypeOK, NoEmptyKeys, WithinLimits, [Next]_vars PROVE WithinLimits'
    OBVIOUS
  <2>0. Finite
    BY <1>0
  <2>1. ASSUME NEW c \in Conn, NEW r \in Room, Join(c, r) PROVE WithinLimits'
    <3>1. Cardinality(connRooms[c] \cup {r}) <= Admitted(MaxRooms)
      <4>1. connRooms[c] = {} \/ Cardinality(connRooms[c]) < MaxRooms
        BY <2>1 DEF Join, NoEmptyKeys
      <4>. QED BY <2>0, <4>1, AddWithin DEF FiniteBounds
    <3>2. Cardinality(rooms[r] \cup {c}) <= Admitted(MaxConns)
      <4>1. rooms[r] = {} \/ Cardinality(rooms[r]) < MaxConns
        BY <2>1 DEF Join, NoEmptyKeys
      <4>. QED BY <2>0, <4>1, AddWithin DEF FiniteBounds
    <3>3. \A d \in Conn : connRooms'[d] = IF d = c THEN connRooms[c] \cup {r} ELSE connRooms[d]
      BY <2>1 DEF Join, TypeOK
    <3>4. \A q \in Room : rooms'[q] = IF q = r THEN rooms[r] \cup {c} ELSE rooms[q]
      BY <2>1 DEF Join, TypeOK
    <3>. QED BY <3>1, <3>2, <3>3, <3>4 DEF WithinLimits
  <2>2. ASSUME \A d \in Conn : connRooms'[d] \subseteq connRooms[d],
               \A q \in Room : rooms'[q] \subseteq rooms[q]
        PROVE WithinLimits'
    <3>1. ASSUME NEW d \in Conn PROVE Cardinality(connRooms'[d]) <= Admitted(MaxRooms)
      <4>1. Cardinality(connRooms[d]) <= Admitted(MaxRooms) /\ IsFiniteSet(connRooms[d])
        BY <2>0 DEF WithinLimits
      <4>2. Admitted(MaxRooms) \in Nat
        BY DEF FiniteBounds, Admitted
      <4>. QED BY <2>2, <4>1, <4>2, PartWithin
    <3>2. ASSUME NEW q \in Room PROVE Cardinality(rooms'[q]) <= Admitted(MaxConns)
      <4>1. Cardinality(rooms[q]) <= Admitted(MaxConns) /\ IsFiniteSet(rooms[q])
        BY <2>0 DEF WithinLimits
      <4>2. Admitted(MaxConns) \in Nat
        BY DEF FiniteBounds, Admitted
      <4>. QED BY <2>2, <4>1, <4>2, PartWithin
    <3>. QED BY <3>1, <3>2 DEF WithinLimits
  <2>3. ASSUME NEW c \in Conn, Cleanup(c) PROVE WithinLimits'
    <3>1. \A d \in Conn : connRooms'[d] \subseteq connRooms[d]
      BY <2>3 DEF Cleanup, TypeOK
    <3>2. \A q \in Room : rooms'[q] \subseteq rooms[q]
      BY <2>3 DEF Cleanup, TypeOK
    <3>. QED BY <2>2, <3>1, <3>2
  <2>4. ASSUME NEW c \in Conn, NEW r \in Room, Leave(c, r) PROVE WithinLimits'
    <3>1. \A d \in Conn : connRooms'[d] \subseteq connRooms[d]
      BY <2>4 DEF Leave, TypeOK
    <3>2. \A q \in Room : rooms'[q] \subseteq rooms[q]
      BY <2>4 DEF Leave, TypeOK
    <3>. QED BY <2>2, <3>1, <3>2
  <2>5. CASE ClearAll
    <3>1. \A d \in Conn : connRooms'[d] \subseteq connRooms[d]
      BY <2>5 DEF ClearAll
    <3>2. \A q \in Room : rooms'[q] \subseteq rooms[q]
      BY <2>5 DEF ClearAll
    <3>. QED BY <2>2, <3>1, <3>2
  <2>6. CASE UNCHANGED roomVars
    BY <2>6 DEF WithinLimits, roomVars
  <2>. QED BY <2>1, <2>3, <2>4, <2>5, <2>6
       DEF Next, Open, Close, SetPresence, DeletePresence, vars
<1>. QED BY <1>1, <1>2, TypeCorrect, NoEmptyKeysHolds, PTL DEF Spec

-----------------------------------------------------------------------------
(* The event stream. *)


\* The application sends from a timer and leaves connecting to the client.
Unaided == habit = "later" /\ manual = 0

StreamTypes ==
  /\ client \in [Stream!Connection -> {"none", "fetching", "reading", "over"}]
  /\ server \in [Stream!Connection -> {"none", "open", "closed"}]
  /\ next \in [Stream!Connection -> Nat]
  /\ stream \in [Stream!Connection -> Seq(Nat)]
  /\ timers \in {0, 1}
  /\ heard \in Seq(Nat) /\ lastId = Len(heard)

Live(k) == client[k] \in {"fetching", "reading"}

\* The client has one connection or a timer for the next, never two of them.
OneAtATime ==
  /\ \A k, l \in Stream!Connection : Live(k) /\ Live(l) => k = l
  /\ timers = 1 => \A k \in Stream!Connection : ~ Live(k)

\* The stream of the live connection goes on where the client is, and the
\* handler where the stream ends.
StreamGoesOn(k) ==
  /\ client[k] \in {"none", "fetching"} => server[k] = "none" /\ stream[k] = <<>>
  /\ Live(k) => /\ next[k] = lastId + Len(stream[k]) + 1
                /\ \A i \in 1..Len(stream[k]) : stream[k][i] = lastId + i

InOrder == \A n \in 1..Len(heard) : heard[n] = n

StreamInv ==
  /\ manual \in Nat
  /\ Unaided => /\ StreamTypes
                /\ OneAtATime
                /\ \A k \in Stream!Connection : StreamGoesOn(k)
                /\ InOrder

\* The live connection ends: one timer at most takes its place.
LEMMA LostIsReplaced ==
  ASSUME StreamTypes, OneAtATime, NEW k \in Stream!Connection, Live(k), Stream!Lost(k)
  PROVE  /\ client' = [client EXCEPT ![k] = "over"]
         /\ timers' \in {0, 1}
         /\ \A l \in Stream!Connection : ~ Live(l)'
<1>1. client' = [client EXCEPT ![k] = "over"] /\ timers = 0
  BY DEF Stream!Lost, StreamTypes, OneAtATime
<1>2. timers' \in {0, 1}
  BY <1>1 DEF Stream!Lost
<1>3. ASSUME NEW l \in Stream!Connection PROVE ~ Live(l)'
  BY <1>1 DEF StreamTypes, OneAtATime, Live
<1> QED
  BY <1>1, <1>2, <1>3

\* Steps that make no connection live and leave the live ones, what they carry
\* and what was heard alone.
LEMMA StreamQuiet ==
  ASSUME StreamTypes, OneAtATime, \A k \in Stream!Connection : StreamGoesOn(k), InOrder,
         UNCHANGED <<heard, lastId>>,
         StreamTypes',
         timers' = 1 => timers = 1 \/ \A k \in Stream!Connection : ~ Live(k)',
         \A k \in Stream!Connection :
           /\ client'[k] \in {client[k], "over"}
           /\ client'[k] # "over" => UNCHANGED <<next[k], stream[k]>>
           /\ client'[k] \in {"none", "fetching"} => UNCHANGED server[k]
  PROVE  OneAtATime' /\ (\A k \in Stream!Connection : StreamGoesOn(k)') /\ InOrder'
<1>1. \A k \in Stream!Connection : Live(k)' => Live(k) /\ client'[k] = client[k]
  BY DEF Live
<1>2. OneAtATime'
  BY <1>1 DEF OneAtATime, StreamTypes
<1>3. ASSUME NEW k \in Stream!Connection PROVE StreamGoesOn(k)'
  <2>1. CASE client'[k] = "over"
    BY <2>1 DEF StreamGoesOn, Live
  <2>2. CASE client'[k] # "over"
    BY <1>1, <2>2 DEF StreamGoesOn, Live
  <2> QED
    BY <2>1, <2>2
<1>4. InOrder'
  BY DEF InOrder
<1> QED
  BY <1>2, <1>3, <1>4

\* The timer that reconnects finds no other connection under way,
LEMMA TimerConnects ==
  ASSUME StreamTypes, OneAtATime, \A k \in Stream!Connection : StreamGoesOn(k), InOrder,
         Stream!TimerFires
  PROVE  StreamTypes' /\ OneAtATime' /\ (\A k \in Stream!Connection : StreamGoesOn(k)') /\ InOrder'
<1>1. /\ timers = 1 /\ timers' = 0
      /\ UNCHANGED <<server, stream, heard, lastId>>
  BY DEF Stream!TimerFires, StreamTypes
<1>2. CASE closed
  <2>1. UNCHANGED <<client, next>>
    BY <1>2 DEF Stream!TimerFires
  <2>2. StreamTypes'
    BY <1>1, <2>1 DEF StreamTypes
  <2> QED
    BY <1>1, <2>1, <2>2, StreamQuiet
<1>3. CASE ~ closed
  <2>1. PICK k \in Stream!Connection :
          /\ client[k] = "none"
          /\ client' = [client EXCEPT ![k] = "fetching"]
          /\ next' = [next EXCEPT ![k] = lastId + 1]
    BY <1>3 DEF Stream!TimerFires, Stream!Connect, Stream!ConnectFrom, Stream!Unused
  <2>2. StreamTypes'
    BY <1>1, <2>1 DEF StreamTypes
  <2>3. \A l \in Stream!Connection : l # k => ~ Live(l)'
    BY <1>1, <2>1 DEF OneAtATime, Live, StreamTypes
  <2>4. OneAtATime'
    BY <1>1, <2>3 DEF OneAtATime
  <2>5. ASSUME NEW l \in Stream!Connection PROVE StreamGoesOn(l)'
    <3>1. CASE l = k
      <4>1. server[k] = "none" /\ stream[k] = <<>>
        BY <2>1 DEF StreamGoesOn
      <4>2. next'[k] = lastId' + 1 /\ stream'[k] = <<>> /\ server'[k] = "none" /\ lastId' \in Nat
        BY <1>1, <2>1, <4>1 DEF StreamTypes
      <4> QED
        BY <3>1, <4>2 DEF StreamGoesOn
    <3>2. CASE l # k
      BY <1>1, <2>1, <2>3, <3>2 DEF StreamGoesOn, StreamTypes
    <3> QED
      BY <3>1, <3>2
  <2>6. InOrder'
    BY <1>1 DEF InOrder
  <2> QED
    BY <2>2, <2>4, <2>5, <2>6
<1> QED
  BY <1>2, <1>3

\* what the client reads is next in order,
LEMMA ReadGoesOn ==
  ASSUME StreamTypes, OneAtATime, \A k \in Stream!Connection : StreamGoesOn(k), InOrder,
         NEW k \in Stream!Connection, NEW n, Stream!Read(k, n)
  PROVE  StreamTypes' /\ OneAtATime' /\ (\A l \in Stream!Connection : StreamGoesOn(l)') /\ InOrder'
<1> DEFINE s == stream[k]
           rest == SubSeq(s, n + 1, Len(s))
           first == SubSeq(s, 1, n)
<1>1. /\ client[k] = "reading" /\ n \in 1..Len(s)
      /\ heard' = heard \o first /\ lastId' = s[n]
      /\ stream' = [stream EXCEPT ![k] = rest]
      /\ UNCHANGED <<server, next, client, timers>>
  BY DEF Stream!Read
<1>2. s \in Seq(Nat) /\ Len(s) \in Nat /\ lastId \in Nat /\ Len(heard) = lastId
  BY DEF StreamTypes
<1>3. \A i \in 1..Len(s) : s[i] = lastId + i
  BY <1>1 DEF StreamGoesOn, Live
<1>3a. next[k] = lastId + Len(s) + 1
  BY <1>1 DEF StreamGoesOn, Live
<1>4. n \in Nat /\ n <= Len(s) /\ lastId' = lastId + n
  BY <1>1, <1>2, <1>3
<1>5. /\ rest \in Seq(Nat) /\ Len(rest) = Len(s) - n
      /\ \A i \in 1..Len(rest) : rest[i] = s[n + i]
  BY <1>1, <1>2, <1>4, SMTT(30)
<1>6. /\ first \in Seq(Nat) /\ Len(first) = n
      /\ \A i \in 1..n : first[i] = s[i]
  BY <1>1, <1>2, <1>4, SMTT(30)
<1> HIDE DEF rest, first
<1>7. /\ heard' \in Seq(Nat) /\ Len(heard') = lastId + n
      /\ \A i \in 1..lastId : heard'[i] = heard[i]
      /\ \A i \in 1..n : heard'[lastId + i] = first[i]
  <2>1. heard \in Seq(Nat)
    BY DEF StreamTypes
  <2>2. /\ heard \o first \in Seq(Nat) /\ Len(heard \o first) = lastId + n
        /\ \A i \in 1..lastId : (heard \o first)[i] = heard[i]
        /\ \A i \in 1..n : (heard \o first)[lastId + i] = first[i]
    <3>1. Len(heard \o first) = lastId + n /\ heard \o first \in Seq(Nat)
      <4>1. first \in Seq(Nat) /\ Len(first) = n
        BY <1>6
      <4>2. Len(heard \o first) = Len(heard) + Len(first) /\ heard \o first \in Seq(Nat)
        BY <2>1, <4>1, SMTT(30)
      <4> QED
        BY <1>2, <4>1, <4>2
    <3>2. \A i \in 1..lastId : (heard \o first)[i] = heard[i]
      BY <1>2, <1>6, <2>1
    <3>3. \A i \in 1..n : (heard \o first)[lastId + i] = first[i]
      <4> SUFFICES ASSUME NEW i \in 1..n PROVE (heard \o first)[lastId + i] = first[i]
        OBVIOUS
      <4>1. lastId + i \in 1..(lastId + n) /\ lastId + i > lastId /\ (lastId + i) - lastId = i
        BY <1>2, <1>4
      <4> QED
        BY <1>2, <1>4, <1>6, <2>1, <4>1, SMTT(30)
    <3> QED
      BY <3>1, <3>2, <3>3
  <2> QED
    BY <1>1, <2>2
<1>8. StreamTypes'
  BY <1>1, <1>4, <1>5, <1>7 DEF StreamTypes
<1>9. OneAtATime'
  BY <1>1 DEF OneAtATime, Live
<1>10. InOrder'
  <2> SUFFICES ASSUME NEW i \in 1..(lastId + n) PROVE heard'[i] = i
    BY <1>7 DEF InOrder
  <2>1. CASE i <= lastId
    BY <1>2, <1>4, <1>7, <2>1 DEF InOrder
  <2>2. CASE i > lastId
    <3>1. i - lastId \in 1..n /\ i = lastId + (i - lastId) /\ i - lastId \in 1..Len(s)
      BY <1>2, <1>4, <2>2
    <3>2. heard'[i] = first[i - lastId]
      BY <1>7, <3>1
    <3>3. first[i - lastId] = lastId + (i - lastId)
      BY <1>3, <1>6, <3>1
    <3> QED
      BY <3>1, <3>2, <3>3
  <2> QED
    BY <1>2, <1>4, <2>1, <2>2
<1>11. ASSUME NEW l \in Stream!Connection PROVE StreamGoesOn(l)'
  <2>1. CASE l = k
    <3>1. stream'[k] = rest
      BY <1>1 DEF StreamTypes
    <3>2. next'[k] = lastId' + Len(rest) + 1
      <4>1. next'[k] = lastId + Len(s) + 1
        BY <1>1, <1>3a
      <4>2. lastId + Len(s) + 1 = (lastId + n) + Len(rest) + 1
        <5>1. Len(rest) = Len(s) - n
          BY <1>5
        <5> HIDE DEF s
        <5> QED
          BY <1>2, <1>4, <5>1
      <4> QED
        BY <1>4, <4>1, <4>2
    <3>3. ASSUME NEW i \in 1..Len(rest) PROVE rest[i] = lastId' + i
      <4>0. /\ i \in Nat /\ 1 <= i /\ i <= Len(s) - n
            /\ n \in Nat /\ Len(s) \in Nat /\ lastId \in Nat
        <5>1. i \in 1..(Len(s) - n)
          BY <1>5
        <5> QED
          BY <1>2, <1>4, <5>1
      <4>1. n + i \in 1..Len(s)
        <5> HIDE DEF s
        <5> QED
          BY <4>0
      <4>2. rest[i] = s[n + i] /\ s[n + i] = lastId + (n + i)
        BY <1>3, <1>5, <4>1
      <4>3. lastId + (n + i) = (lastId + n) + i
        <5> HIDE DEF s
        <5> QED
          BY <4>0
      <4> QED
        BY <1>4, <4>2, <4>3
    <3> QED
      BY <1>1, <2>1, <3>1, <3>2, <3>3 DEF StreamGoesOn, Live
  <2>2. CASE l # k
    <3>1. ~ Live(l)'
      BY <1>1, <2>2 DEF OneAtATime, Live
    <3> QED
      BY <1>1, <2>2, <3>1 DEF StreamGoesOn, StreamTypes
  <2> QED
    BY <2>1, <2>2
<1> QED
  BY <1>8, <1>9, <1>10, <1>11

\* what the server sends is next behind it,
LEMMA SendGoesOn ==
  ASSUME StreamTypes, OneAtATime, \A k \in Stream!Connection : StreamGoesOn(k), InOrder,
         NEW k \in Stream!Connection, Stream!Send(k)
  PROVE  StreamTypes' /\ OneAtATime' /\ (\A l \in Stream!Connection : StreamGoesOn(l)') /\ InOrder'
<1>1. /\ server[k] = "open"
      /\ next' = [next EXCEPT ![k] = next[k] + 1]
      /\ stream' = [stream EXCEPT ![k] = IF client[k] = "reading" THEN Append(stream[k], next[k])
                                         ELSE stream[k]]
      /\ UNCHANGED <<server, client, timers, heard, lastId>>
  BY DEF Stream!Send, Stream!clientVars, StreamTypes
<1>2. stream[k] \in Seq(Nat) /\ next[k] \in Nat /\ lastId \in Nat
  BY DEF StreamTypes
<1>3. CASE client[k] = "reading"
  <2> DEFINE s == Append(stream[k], next[k])
  <2>1. /\ s \in Seq(Nat) /\ Len(s) = Len(stream[k]) + 1 /\ s[Len(s)] = next[k]
        /\ \A i \in 1..Len(stream[k]) : s[i] = stream[k][i]
        /\ Len(stream[k]) \in Nat
    BY <1>2
  <2> HIDE DEF s
  <2>2. stream' = [stream EXCEPT ![k] = s]
    BY <1>1, <1>3 DEF s
  <2>3. StreamTypes'
    BY <1>1, <1>2, <2>1, <2>2 DEF StreamTypes
  <2>4. OneAtATime' /\ InOrder'
    BY <1>1 DEF OneAtATime, Live, InOrder
  <2>5. ASSUME NEW l \in Stream!Connection PROVE StreamGoesOn(l)'
    <3>1. CASE l = k
      <4>1. next[k] = lastId + Len(stream[k]) + 1
        BY <1>3 DEF StreamGoesOn, Live
      <4>1a. \A i \in 1..Len(stream[k]) : stream[k][i] = lastId + i
        BY <1>3 DEF StreamGoesOn, Live
      <4>2. \A i \in 1..Len(s) : s[i] = lastId + i
        <5> SUFFICES ASSUME NEW i \in 1..Len(s) PROVE s[i] = lastId + i
          OBVIOUS
        <5>1. CASE i = Len(s)
          BY <1>2, <2>1, <4>1, <5>1
        <5>2. CASE i # Len(s)
          <6>1. i \in 1..Len(stream[k])
            BY <2>1, <5>2
          <6> QED
            BY <2>1, <4>1a, <6>1
        <5> QED
          BY <5>1, <5>2
      <4>3. stream'[k] = s /\ next'[k] = next[k] + 1 /\ lastId' = lastId
        BY <1>1, <2>2 DEF StreamTypes
      <4>4. next[k] + 1 = lastId + Len(s) + 1
        BY <1>2, <2>1, <4>1
      <4> QED
        BY <1>1, <1>3, <3>1, <4>2, <4>3, <4>4 DEF StreamGoesOn, Live
    <3>2. CASE l # k
      <4>1. stream'[l] = stream[l] /\ next'[l] = next[l]
        BY <1>1, <2>2, <3>2 DEF StreamTypes
      <4> QED
        BY <1>1, <4>1 DEF StreamGoesOn, Live
    <3> QED
      BY <3>1, <3>2
  <2> QED
    BY <2>3, <2>4, <2>5
<1>4. CASE client[k] # "reading"
  <2>1. client[k] = "over"
    BY <1>1, <1>4 DEF StreamGoesOn, StreamTypes
  <2>2. stream' = stream
    BY <1>1, <1>4 DEF StreamTypes
  <2>3. StreamTypes'
    BY <1>1, <1>2, <2>2 DEF StreamTypes
  <2>4. \A l \in Stream!Connection : l # k => next'[l] = next[l]
    BY <1>1 DEF StreamTypes
  <2> QED
    BY <1>1, <2>1, <2>2, <2>3, <2>4, StreamQuiet
<1> QED
  BY <1>3, <1>4

\* and so every step of server and client keeps the stream's invariant.
LEMMA StreamStep == StreamInv /\ [Stream!Next]_Stream!sseVars => StreamInv'
<1> SUFFICES ASSUME StreamInv, [Stream!Next]_Stream!sseVars PROVE StreamInv'
  OBVIOUS
<1> USE DEF Stream!clientVars, Stream!serverVars
<1>1. habit' = habit
  BY DEF Stream!Next, Stream!Publish, Stream!ManualConnect, Stream!Close, Stream!Progress,
         Stream!TimerFires, Stream!Accept, Stream!Send, Stream!Ended, Stream!Read,
         Stream!Refused, Stream!ServerCloses, Stream!sseVars
<1>2. manual' = manual \/ manual' = manual + 1
  BY DEF Stream!Next, Stream!Publish, Stream!ManualConnect, Stream!Close, Stream!Progress,
         Stream!TimerFires, Stream!Accept, Stream!Send, Stream!Ended, Stream!Read,
         Stream!Refused, Stream!ServerCloses, Stream!sseVars
<1>3. manual' \in Nat /\ (Unaided' => Unaided /\ manual' = manual)
  BY <1>1, <1>2 DEF StreamInv, Unaided
<1> DEFINE Goal == /\ StreamTypes' /\ OneAtATime'
                   /\ (\A k \in Stream!Connection : StreamGoesOn(k)') /\ InOrder'
<1> SUFFICES ASSUME Unaided, manual' = manual PROVE Goal
  BY <1>3 DEF StreamInv
<1>4. StreamTypes /\ OneAtATime /\ (\A k \in Stream!Connection : StreamGoesOn(k)) /\ InOrder
  BY DEF StreamInv
<1>5. CASE Stream!Publish \/ UNCHANGED Stream!sseVars
  <2>1. UNCHANGED <<server, next, stream, client, timers, heard, lastId>>
    BY <1>5 DEF Stream!Publish, Stream!sseVars
  <2>2. StreamTypes'
    BY <1>4, <2>1 DEF StreamTypes
  <2> QED
    BY <1>4, <2>1, <2>2, StreamQuiet
<1>6. CASE Stream!ManualConnect
  <2>1. manual' = manual + 1 /\ manual \in Nat
    BY <1>6 DEF Stream!ManualConnect, StreamInv
  <2> QED
    BY <2>1
<1>7. CASE Stream!Close
  <2>1. /\ client' = [client EXCEPT ![newest] = "over"] /\ timers' = 0
        /\ UNCHANGED <<server, next, stream, heard, lastId>>
    BY <1>4, <1>7 DEF Stream!Close, StreamTypes
  <2>2. \A k \in Stream!Connection : client'[k] \in {client[k], "over"}
    BY <1>4, <2>1 DEF StreamTypes
  <2>3. StreamTypes'
    BY <1>4, <2>1 DEF StreamTypes
  <2> QED
    BY <1>4, <2>1, <2>2, <2>3, StreamQuiet
<1>8. CASE Stream!TimerFires
  BY <1>4, <1>8, TimerConnects
<1>9. ASSUME NEW k \in Stream!Connection, Stream!Accept(k) PROVE Goal
  <2>1. /\ client[k] = "fetching"
        /\ client' = [client EXCEPT ![k] = "reading"]
        /\ server' = [server EXCEPT ![k] = "open"]
        /\ next' = [next EXCEPT ![k] = next[k]]
        /\ UNCHANGED <<stream, timers, heard, lastId>>
    BY <1>9 DEF Stream!Accept, Unaided
  <2>2. next' = next
    BY <1>4, <2>1 DEF StreamTypes
  <2>3. StreamTypes'
    BY <1>4, <2>1, <2>2 DEF StreamTypes
  <2>4. \A l \in Stream!Connection : Live(l)' <=> Live(l)
    BY <1>4, <2>1 DEF StreamTypes, Live
  <2>5. OneAtATime' /\ InOrder'
    BY <1>4, <2>1, <2>4 DEF OneAtATime, InOrder
  <2>6. ASSUME NEW l \in Stream!Connection PROVE StreamGoesOn(l)'
    <3>1. Live(l)' => /\ next'[l] = lastId' + Len(stream'[l]) + 1
                      /\ \A i \in 1..Len(stream'[l]) : stream'[l][i] = lastId' + i
      BY <1>4, <2>1, <2>2, <2>4 DEF StreamGoesOn
    <3>2. client'[l] \in {"none", "fetching"} => server'[l] = "none" /\ stream'[l] = <<>>
      BY <1>4, <2>1 DEF StreamGoesOn, StreamTypes
    <3> QED
      BY <3>1, <3>2 DEF StreamGoesOn
  <2> QED
    BY <2>3, <2>5, <2>6
<1>10. ASSUME NEW k \in Stream!Connection, Stream!Send(k) PROVE Goal
  BY <1>4, <1>10, SendGoesOn
<1>11. ASSUME NEW k \in Stream!Connection, NEW n \in 1..Events, Stream!Read(k, n) PROVE Goal
  BY <1>4, <1>11, ReadGoesOn
<1>12. ASSUME NEW k \in Stream!Connection, Stream!Ended(k) \/ Stream!Refused(k) PROVE Goal
  <2>1. /\ Live(k) /\ Stream!Lost(k)
        /\ stream' = stream \/ stream' = [stream EXCEPT ![k] = <<>>]
        /\ UNCHANGED <<server, next, heard, lastId>>
    BY <1>12 DEF Stream!Ended, Stream!Refused, Live
  <2>2. /\ client' = [client EXCEPT ![k] = "over"]
        /\ timers' \in {0, 1}
        /\ \A l \in Stream!Connection : ~ Live(l)'
    BY <1>4, <2>1, LostIsReplaced
  <2>3. StreamTypes'
    <3>1. stream' \in [Stream!Connection -> Seq(Nat)]
      <4>1. stream \in [Stream!Connection -> Seq(Nat)] /\ <<>> \in Seq(Nat)
        BY <1>4 DEF StreamTypes
      <4>2. [stream EXCEPT ![k] = <<>>] \in [Stream!Connection -> Seq(Nat)]
        BY <4>1, Zenon
      <4> QED
        BY <2>1, <4>1, <4>2
    <3> QED
      BY <1>4, <2>1, <2>2, <3>1 DEF StreamTypes
  <2>4. \A l \in Stream!Connection :
          /\ client'[l] \in {client[l], "over"}
          /\ client'[l] # "over" => stream'[l] = stream[l]
    BY <1>4, <2>1, <2>2 DEF StreamTypes
  <2> QED
    BY <1>4, <2>1, <2>2, <2>3, <2>4, StreamQuiet
<1>13. ASSUME NEW k \in Stream!Connection, Stream!ServerCloses(k) PROVE Goal
  <2>1. /\ server' = [server EXCEPT ![k] = "closed"] /\ server[k] # "none"
        /\ UNCHANGED <<next, stream, client, timers, heard, lastId>>
    BY <1>13 DEF Stream!ServerCloses
  <2>2. StreamTypes'
    BY <1>4, <2>1 DEF StreamTypes
  <2>3. \A l \in Stream!Connection : client'[l] \in {"none", "fetching"} => server'[l] = server[l]
    BY <1>4, <2>1 DEF StreamTypes, StreamGoesOn
  <2> QED
    BY <1>4, <2>1, <2>2, <2>3, StreamQuiet
<1> QED
  BY <1>5, <1>6, <1>7, <1>8, <1>9, <1>10, <1>11, <1>12, <1>13
  DEF Stream!Next, Stream!Progress

\* Across refusals, broken connections and streams closed by the server, the
\* client of an application that sends later hears every event once, in order.
THEOREM GaplessHolds ==
  ASSUME Connections \in Nat
  PROVE  Stream!Spec => []Gapless
<1>1. Stream!Init => StreamInv
  BY DEF Stream!Init, Stream!Connection, StreamInv, StreamTypes, OneAtATime, StreamGoesOn, Live,
         InOrder, Unaided
<1>2. StreamInv => Gapless
  <2> SUFFICES ASSUME StreamInv, Unaided PROVE heard = [n \in 1..Len(heard) |-> n]
    BY DEF Gapless, Stream!Gapless, Unaided
  <2>1. heard \in Seq(Nat) /\ \A n \in 1..Len(heard) : heard[n] = n
    BY DEF StreamInv, StreamTypes, InOrder
  <2> QED
    BY <2>1
<1> QED
  BY <1>1, <1>2, StreamStep, PTL DEF Stream!Spec
=============================================================================
