--------------------------- MODULE Storage_proofs ---------------------------
(***************************************************************************)
(* The two storages of src/storage.rs, for every set of keys and values,   *)
(* every time-to-live and every time: MemoryStorage implements a map with  *)
(* times-to-live, and the two maps of DualStorage stay the same.           *)
(***************************************************************************)
EXTENDS DualStorage, TLAPS

-----------------------------------------------------------------------------
(* MemoryStorage implements TtlMap.                                        *)

Entries == [value : Values, timestamp : Nat, ttl : Nat]

\* A map from some of the keys to entries.
IsMap(map) == DOMAIN map \subseteq Keys /\ map \in [DOMAIN map -> Entries]

\* What get can see of a map at a given time.
View(map, time) ==
  [k \in Keys |-> IF k \in DOMAIN map /\ live(map[k], time)
                    THEN <<map[k].value, map[k].timestamp + map[k].ttl>>
                    ELSE Nothing]

\* The inductive invariant of MemoryStorage.
MemoryInv == IsMap(storage) /\ now \in Nat

(***************************************************************************)
(* The three operations that change the map return a map.                  *)
(***************************************************************************)
LEMMA OperationsReturnMaps ==
  ASSUME NEW map, IsMap(map), NEW k \in Keys, NEW v \in Values, NEW ttl \in Nat,
         NEW time \in Nat
  PROVE  /\ IsMap(store_with_ttl(map, k, v, ttl, time))
         /\ IsMap(remove(map, k))
         /\ IsMap(cleanup(map, time))
<1>1. IsMap(store_with_ttl(map, k, v, ttl, time))
  BY DEF IsMap, store_with_ttl, Entries
<1>2. IsMap(remove(map, k))
  BY DEF IsMap, remove
<1>3. IsMap(cleanup(map, time))
  BY DEF IsMap, cleanup
<1> QED
  BY <1>1, <1>2, <1>3

(***************************************************************************)
(* A store replaces what get sees of its key, and an entry whose           *)
(* time-to-live is zero is never seen.                                     *)
(***************************************************************************)
LEMMA StoreIsSeen ==
  ASSUME NEW map, IsMap(map), NEW k \in Keys, NEW v \in Values, NEW ttl \in Nat,
         NEW time \in Nat
  PROVE  View(store_with_ttl(map, k, v, ttl, time), time)
           = [View(map, time) EXCEPT ![k] = IF ttl = 0 THEN Nothing ELSE <<v, time + ttl>>]
<1> DEFINE new == store_with_ttl(map, k, v, ttl, time)
<1>1. /\ DOMAIN new = DOMAIN map \cup {k}
      /\ new[k] = [value |-> v, timestamp |-> time, ttl |-> ttl]
      /\ \A j \in DOMAIN map : j # k => new[j] = map[j]
  BY DEF store_with_ttl
<1> HIDE DEF new
<1>2. live(new[k], time) <=> ttl # 0
  BY <1>1 DEF live
<1>3. ASSUME NEW j \in Keys
      PROVE  View(new, time)[j]
               = [View(map, time) EXCEPT ![k] = IF ttl = 0 THEN Nothing ELSE <<v, time + ttl>>][j]
  <2>1. CASE j = k
    BY <1>1, <1>2, <2>1 DEF View
  <2>2. CASE j # k
    <3>1. j \in DOMAIN new <=> j \in DOMAIN map
      BY <1>1, <2>2
    <3> QED
      BY <1>1, <2>2, <3>1 DEF View
  <2> QED
    BY <2>1, <2>2
<1>4. View(new, time)
        = [View(map, time) EXCEPT ![k] = IF ttl = 0 THEN Nothing ELSE <<v, time + ttl>>]
  BY <1>3 DEF View
<1> QED
  BY <1>4 DEF new

(***************************************************************************)
(* A removal hides the key from get; cleanup hides nothing.                *)
(***************************************************************************)
LEMMA RemovalAndCleanupSeen ==
  ASSUME NEW map, IsMap(map), NEW k \in Keys, NEW time \in Nat
  PROVE  /\ View(remove(map, k), time) = [View(map, time) EXCEPT ![k] = Nothing]
         /\ View(cleanup(map, time), time) = View(map, time)
<1>1. View(remove(map, k), time) = [View(map, time) EXCEPT ![k] = Nothing]
  BY DEF View, remove
<1>2. View(cleanup(map, time), time) = View(map, time)
  BY DEF View, cleanup
<1> QED
  BY <1>1, <1>2

(***************************************************************************)
(* When a second passes, get stops seeing the values whose deadline it is. *)
(***************************************************************************)
LEMMA TimeHidesExpired ==
  ASSUME NEW map, IsMap(map), NEW time \in Nat
  PROVE  View(map, time + 1)
           = [k \in Keys |-> IF /\ View(map, time)[k] # Nothing
                                /\ View(map, time)[k][2] > time + 1
                               THEN View(map, time)[k] ELSE Nothing]
<1> SUFFICES ASSUME NEW k \in Keys
             PROVE  View(map, time + 1)[k]
                      = IF /\ View(map, time)[k] # Nothing
                           /\ View(map, time)[k][2] > time + 1
                          THEN View(map, time)[k] ELSE Nothing
  BY DEF View
<1>1. CASE k \notin DOMAIN map
  BY <1>1 DEF View
<1>2. CASE k \in DOMAIN map
  <2> DEFINE deadline == map[k].timestamp + map[k].ttl
             seen == <<map[k].value, deadline>>
  <2>1. deadline \in Nat
    BY <1>2 DEF IsMap, Entries
  <2>2. seen # Nothing /\ seen[2] = deadline
    BY DEF Nothing
  <2>3. /\ View(map, time)[k] = IF deadline > time THEN seen ELSE Nothing
        /\ View(map, time + 1)[k] = IF deadline > time + 1 THEN seen ELSE Nothing
    BY <1>2 DEF View, live
  <2> HIDE DEF deadline, seen
  <2> QED
    BY <2>1, <2>2, <2>3
<1> QED
  BY <1>1, <1>2

(***************************************************************************)
(* The invariant of MemoryStorage is kept by every operation.              *)
(***************************************************************************)
LEMMA MemoryStepInv ==
  ASSUME MemoryInv, [Next]_vars
  PROVE  MemoryInv'
<1>1. IsMap(storage) /\ now \in Nat
  BY DEF MemoryInv
<1>2. ASSUME NEW k \in Keys, NEW v \in Values, NEW ttl \in Ttls, Store(k, v, ttl)
      PROVE  MemoryInv'
  BY <1>1, <1>2, OperationsReturnMaps, TtlsAssumption DEF Store, MemoryInv
<1>3. ASSUME NEW k \in Keys, Get(k)
      PROVE  MemoryInv'
  BY <1>1, <1>3 DEF Get, MemoryInv
<1>4. ASSUME NEW k \in Keys, RemoveKey(k)
      PROVE  MemoryInv'
  <2>1. IsMap(remove(storage, k))
    BY <1>1 DEF IsMap, remove
  <2> QED
    BY <1>1, <1>4, <2>1 DEF RemoveKey, MemoryInv
<1>5. CASE Cleanup
  <2>1. IsMap(cleanup(storage, now))
    BY <1>1 DEF IsMap, cleanup
  <2> QED
    BY <1>1, <1>5, <2>1 DEF Cleanup, MemoryInv
<1>6. CASE Tick
  BY <1>1, <1>6 DEF Tick, MemoryInv
<1>7. CASE UNCHANGED vars
  BY <1>1, <1>7 DEF vars, MemoryInv
<1> QED
  BY <1>2, <1>3, <1>4, <1>5, <1>6, <1>7 DEF Next

(***************************************************************************)
(* Every step of MemoryStorage is a step of the map with times-to-live, or *)
(* changes nothing that can be seen of it.                                 *)
(***************************************************************************)
LEMMA MemoryStepSimulation ==
  ASSUME MemoryInv, [Next]_vars
  PROVE  [Abstract!Next]_(Abstract!vars)
<1>1. IsMap(storage) /\ now \in Nat
  BY DEF MemoryInv
<1>2. LiveContents = View(storage, now) /\ LiveContents' = View(storage', now')
  BY DEF LiveContents, View
<1>3. ASSUME NEW k \in Keys, NEW v \in Values, NEW ttl \in Ttls, Store(k, v, ttl)
      PROVE  Abstract!Put(k, v, ttl)
  <2>1. View(storage', now')
          = [View(storage, now) EXCEPT ![k] = IF ttl = 0 THEN Nothing ELSE <<v, now + ttl>>]
    BY <1>1, <1>3, StoreIsSeen, TtlsAssumption DEF Store
  <2> QED
    BY <1>2, <1>3, <2>1 DEF Store, Abstract!Put, Abstract!Nothing, Nothing
<1>4. ASSUME NEW k \in Keys, Get(k)
      PROVE  Abstract!Get(k)
  <2>1. storage' = storage /\ now' = now /\ answer' = <<k, lookup(storage, k, now)>>
    BY <1>4 DEF Get
  <2>2. LiveContents' = LiveContents
    BY <1>2, <2>1
  <2>3. lookup(storage, k, now)
          = IF View(storage, now)[k] = Nothing THEN Nothing ELSE <<View(storage, now)[k][1]>>
    BY DEF lookup, View, Nothing
  <2> QED
    BY <1>2, <2>1, <2>2, <2>3 DEF Abstract!Get, Abstract!Nothing, Nothing
<1>5. ASSUME NEW k \in Keys, RemoveKey(k)
      PROVE  Abstract!Delete(k)
  <2>1. View(storage', now') = [View(storage, now) EXCEPT ![k] = Nothing]
    BY <1>1, <1>5, RemovalAndCleanupSeen DEF RemoveKey
  <2> QED
    BY <1>2, <1>5, <2>1 DEF RemoveKey, Abstract!Delete, Abstract!Nothing, Nothing
<1>6. CASE Cleanup
  <2>1. View(storage', now') = View(storage, now)
    BY <1>1, <1>6 DEF Cleanup, View, cleanup
  <2> QED
    BY <1>2, <1>6, <2>1 DEF Cleanup, Abstract!vars
<1>7. CASE Tick
  <2>1. now' = now + 1 /\ storage' = storage
    BY <1>7 DEF Tick
  <2>2. View(storage', now')
          = [k \in Keys |-> IF /\ View(storage, now)[k] # Nothing
                               /\ View(storage, now)[k][2] > now'
                              THEN View(storage, now)[k] ELSE Nothing]
    BY <1>1, <2>1, TimeHidesExpired
  <2>3. Abstract!Pass
    BY <1>2, <1>7, <2>2 DEF Tick, Abstract!Pass, Abstract!Nothing, Nothing
  <2> QED
    BY <2>3 DEF Abstract!Next
<1>8. CASE UNCHANGED vars
  BY <1>2, <1>8 DEF vars, Abstract!vars
<1> QED
  BY <1>3, <1>4, <1>5, <1>6, <1>7, <1>8 DEF Next, Abstract!Next

(***************************************************************************)
(* The empty map starts as the map in which get finds nothing.             *)
(***************************************************************************)
LEMMA MemoryInitSimulation == Init => MemoryInv /\ Abstract!Init
BY DEF Init, EmptyMap, MemoryInv, IsMap, LiveContents, Abstract!Init, Abstract!Nothing, Nothing

(***************************************************************************)
(* MemoryStorage is a map with times-to-live: whenever cleanup runs, get   *)
(* returns the value stored last under the key until its deadline, and     *)
(* nothing afterwards or once it is removed.                               *)
(***************************************************************************)
THEOREM StorageRefinement == Spec => StorageImplementsTtlMap
<1>1. MemoryInv /\ [Next]_vars => MemoryInv'
  BY MemoryStepInv
<1>2. MemoryInv /\ [Next]_vars => [Abstract!Next]_(Abstract!vars)
  BY MemoryStepSimulation
<1> QED
  BY <1>1, <1>2, MemoryInitSimulation, PTL DEF Spec, StorageImplementsTtlMap, Abstract!Spec

-----------------------------------------------------------------------------
(* The storage a node is built with, among the two.                        *)

(***************************************************************************)
(* The storage that with_udp and with_tcp build a node with implements the *)
(* map with times-to-live, in the specification that starts either of the  *)
(* two storages.                                                           *)
(***************************************************************************)
THEOREM MemoryRefinement == DualSpec => MemoryImplementsTtlMap
<1> DEFINE Inv == kind \in {"memory", "dual"} /\ (kind = "memory" => MemoryInv)
<1>1. DualInit => Inv /\ AsTtlMap!Init
  <2> SUFFICES ASSUME DualInit PROVE Inv /\ AsTtlMap!Init
    OBVIOUS
  <2>1. Init /\ kind \in {"memory", "dual"}
    BY DEF DualInit
  <2>2. MemoryInv /\ Abstract!Init
    BY <2>1, MemoryInitSimulation
  <2>3. CASE kind = "memory"
    BY <2>2, <2>3 DEF Abstract!Init, AsTtlMap!Init, Abstract!Nothing, AsTtlMap!Nothing
  <2>4. CASE kind = "dual"
    BY <2>4 DEF AsTtlMap!Init, AsTtlMap!Nothing, Nothing
  <2> QED
    BY <2>1, <2>2, <2>3, <2>4
<1>2. Inv /\ [DualNext]_dualVars => Inv' /\ [AsTtlMap!Next]_(AsTtlMap!vars)
  <2> SUFFICES ASSUME Inv, [DualNext]_dualVars
               PROVE  Inv' /\ [AsTtlMap!Next]_(AsTtlMap!vars)
    OBVIOUS
  <2>1. kind' = kind
    BY DEF DualNext, dualVars, DualStore, DualGet, DualRemove, DualCleanup, DualTick
  <2>2. CASE kind = "memory"
    <3>1. [Next]_vars
      BY <2>2 DEF DualNext, dualVars, vars
    <3>2. MemoryInv' /\ [Abstract!Next]_(Abstract!vars)
      BY <2>2, <3>1, MemoryStepInv, MemoryStepSimulation
    <3>3. CASE Abstract!Next
      <4>1. AsTtlMap!Next
        BY <2>1, <2>2, <3>3
           DEF Abstract!Next, AsTtlMap!Next, Abstract!Put, AsTtlMap!Put, Abstract!Get,
               AsTtlMap!Get, Abstract!Delete, AsTtlMap!Delete, Abstract!Pass,
               AsTtlMap!Pass, Abstract!Nothing, AsTtlMap!Nothing
      <4> QED
        BY <2>1, <3>2, <4>1
    <3>4. CASE UNCHANGED Abstract!vars
      BY <2>1, <2>2, <3>2, <3>4 DEF Abstract!vars, AsTtlMap!vars
    <3> QED
      BY <3>2, <3>3, <3>4
  <2>3. CASE kind = "dual"
    BY <2>1, <2>3 DEF AsTtlMap!vars
  <2> QED
    BY <2>2, <2>3
<1> QED
  BY <1>1, <1>2, PTL DEF DualSpec, MemoryImplementsTtlMap, AsTtlMap!Spec

-----------------------------------------------------------------------------
(* DualStorage.                                                            *)

\* The inductive invariant: the shared map mirrors memory, memory holds the
\* value stored last, and so does the last answer.
DualInv ==
  /\ SharedMirrorsMemory
  /\ latest = [k \in Keys |-> latest[k]]
  /\ kind = "dual" =>
       /\ DOMAIN storage \subseteq Keys
       /\ \A k \in DOMAIN storage : latest[k] = <<storage[k].value>>
       /\ answer # Nothing =>
            \E k \in Keys : answer = <<k, Nothing>> \/ answer = <<k, latest[k]>>

(***************************************************************************)
(* Every operation of DualStorage keeps its invariant.                     *)
(***************************************************************************)
LEMMA DualStepInv ==
  ASSUME DualInv, [DualNext]_dualVars
  PROVE  DualInv'
<1>1. CASE kind # "dual"
  BY <1>1 DEF DualInv, DualNext, dualVars, SharedMirrorsMemory
<1>2. CASE kind = "dual"
  <2>1. /\ DOMAIN shared_storage = DOMAIN storage /\ DOMAIN storage \subseteq Keys
        /\ \A k \in DOMAIN storage : /\ shared_storage[k] = storage[k].value
                                     /\ latest[k] = <<storage[k].value>>
        /\ latest = [k \in Keys |-> latest[k]]
    BY <1>2 DEF DualInv, SharedMirrorsMemory
  <2>2. answer # Nothing =>
          \E k \in Keys : answer = <<k, Nothing>> \/ answer = <<k, latest[k]>>
    BY <1>2 DEF DualInv
  <2>3. ASSUME NEW k \in Keys, NEW v \in Values, DualStore(k, v)
        PROVE  DualInv'
    <3>1. storage' = memory_store(k, v)
      BY <2>3 DEF DualStore
    <3>2. /\ DOMAIN storage' = DOMAIN storage \cup {k} /\ storage'[k].value = v
          /\ \A j \in DOMAIN storage : j # k => storage'[j] = storage[j]
      BY <3>1 DEF memory_store, store_with_ttl
    <3>3. /\ DOMAIN shared_storage' = DOMAIN storage \cup {k} /\ shared_storage'[k] = v
          /\ \A j \in DOMAIN storage : j # k => shared_storage'[j] = shared_storage[j]
      BY <2>1, <2>3 DEF DualStore
    <3>4. latest' = [latest EXCEPT ![k] = <<v>>] /\ answer' = Nothing
      BY <2>3 DEF DualStore
    <3> QED
      BY <2>1, <3>2, <3>3, <3>4 DEF DualInv, SharedMirrorsMemory
  <2>4. ASSUME NEW k \in Keys, DualGet(k)
        PROVE  DualInv'
    <3>1. shared_storage' = shared_storage /\ latest' = latest /\ kind' = kind
      BY <2>4 DEF DualGet
    <3>2. CASE lookup(storage, k, now) # Nothing \/ k \notin DOMAIN shared_storage
      <4>1. answer' = <<k, lookup(storage, k, now)>> /\ storage' = storage
        BY <2>4, <3>2 DEF DualGet
      <4>2. lookup(storage, k, now) = Nothing \/ lookup(storage, k, now) = latest[k]
        BY <2>1 DEF lookup
      <4> QED
        BY <2>1, <3>1, <4>1, <4>2 DEF DualInv, SharedMirrorsMemory
    <3>3. CASE lookup(storage, k, now) = Nothing /\ k \in DOMAIN shared_storage
      <4> DEFINE new == memory_store(k, shared_storage[k])
      <4>1. answer' = <<k, <<shared_storage[k]>> >> /\ storage' = new
        BY <2>4, <3>3 DEF DualGet
      <4>2. /\ DOMAIN new = DOMAIN storage \cup {k} /\ new[k].value = shared_storage[k]
            /\ \A j \in DOMAIN storage : j # k => new[j] = storage[j]
        BY DEF memory_store, store_with_ttl
      <4> HIDE DEF new
      <4>3. /\ DOMAIN storage' = DOMAIN storage
            /\ \A j \in DOMAIN storage : storage'[j].value = storage[j].value
        BY <2>1, <3>3, <4>1, <4>2
      <4>4. answer' = <<k, latest'[k]>>
        BY <2>1, <3>1, <3>3, <4>1
      <4> QED
        BY <2>1, <3>1, <4>3, <4>4 DEF DualInv, SharedMirrorsMemory
    <3> QED
      BY <3>2, <3>3
  <2>5. ASSUME NEW k \in Keys, DualRemove(k)
        PROVE  DualInv'
    BY <2>1, <2>5 DEF DualRemove, remove, DualInv, SharedMirrorsMemory
  <2>6. CASE DualCleanup
    <3>1. /\ DOMAIN storage' \subseteq DOMAIN storage
          /\ \A j \in DOMAIN storage' : storage'[j] = storage[j]
      BY <2>6 DEF DualCleanup, cleanup
    <3>2. /\ DOMAIN shared_storage' = DOMAIN storage'
          /\ \A j \in DOMAIN storage' : shared_storage'[j] = shared_storage[j]
      BY <2>1, <2>6, <3>1 DEF DualCleanup
    <3>3. answer' = answer /\ latest' = latest
      BY <2>6 DEF DualCleanup
    <3> QED
      BY <2>1, <2>2, <3>1, <3>2, <3>3 DEF DualInv, SharedMirrorsMemory
  <2>7. CASE DualTick
    BY <2>1, <2>7 DEF DualTick, Tick, DualInv, SharedMirrorsMemory
  <2>8. CASE UNCHANGED dualVars
    BY <2>1, <2>2, <2>8 DEF dualVars, DualInv, SharedMirrorsMemory
  <2> QED
    BY <1>2, <2>3, <2>4, <2>5, <2>6, <2>7, <2>8 DEF DualNext
<1> QED
  BY <1>1, <1>2

(***************************************************************************)
(* The two maps start empty.                                               *)
(***************************************************************************)
LEMMA DualInitInv == DualInit => DualInv
BY DEF DualInit, Init, EmptyMap, DualInv, SharedMirrorsMemory

(***************************************************************************)
(* DualStorage keeps its inductive invariant.                              *)
(***************************************************************************)
LEMMA DualInvHolds == DualSpec => []DualInv
<1>1. DualInv /\ [DualNext]_dualVars => DualInv'
  BY DualStepInv
<1> QED
  BY <1>1, DualInitInv, PTL DEF DualSpec

(***************************************************************************)
(* The two maps of DualStorage always have the same keys and values, also  *)
(* after an expired entry was revived from the shared one or cleaned up.   *)
(***************************************************************************)
THEOREM SharedMirrorsMemoryCorrect == DualSpec => []SharedMirrorsMemory
<1>1. DualInv => SharedMirrorsMemory
  BY DEF DualInv
<1> QED
  BY <1>1, DualInvHolds, PTL

(***************************************************************************)
(* get of DualStorage never returns a value that was overwritten or        *)
(* removed, although it revives values that have expired.                  *)
(***************************************************************************)
THEOREM ReturnsLatestCorrect == DualSpec => []ReturnsLatest
<1>1. DualInv => ReturnsLatest
  <2> SUFFICES ASSUME DualInv, kind = "dual", answer # Nothing
               PROVE  answer[2] = Nothing \/ answer[2] = latest[answer[1]]
    BY DEF ReturnsLatest
  <2>1. PICK k \in Keys : answer = <<k, Nothing>> \/ answer = <<k, latest[k]>>
    BY DEF DualInv
  <2> QED
    BY <2>1
<1> QED
  BY <1>1, DualInvHolds, PTL

=============================================================================
