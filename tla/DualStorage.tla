---------------------------- MODULE DualStorage -----------------------------
(***************************************************************************)
(* The second implementation of the Storage trait in src/storage.rs:       *)
(* DualStorage keeps a MemoryStorage, here the variable "storage", and a   *)
(* plain map of the same keys, both under the one lock of the protocol's   *)
(* storage.  A behaviour is one of a DualStorage or of a MemoryStorage.    *)
(***************************************************************************)
EXTENDS MemoryStorage

CONSTANT DEFAULT_TTL        \* 24 hours in the code

ASSUME DefaultTtlAssumption == DEFAULT_TTL \in Nat \ {0}

VARIABLES kind,             \* "memory" or "dual"
          shared_storage,
          latest            \* the value stored last and not removed since

dualVars == <<kind, storage, shared_storage, now, answer, latest>>

DualInit ==
  /\ kind \in {"memory", "dual"}
  /\ Init
  /\ shared_storage = [k \in {} |-> Nothing]
  /\ latest = [k \in Keys |-> Nothing]

memory_store(k, v) == store_with_ttl(storage, k, v, DEFAULT_TTL, now)

\* A store that forgets the shared map.
StoreInMemoryOnly(k, v) ==
  /\ storage' = memory_store(k, v)
  /\ answer' = Nothing
  /\ latest' = [latest EXCEPT ![k] = <<v>>]
  /\ UNCHANGED <<kind, shared_storage, now>>

DualStore(k, v) ==
  /\ storage' = memory_store(k, v)
  /\ shared_storage' = [j \in DOMAIN shared_storage \cup {k} |->
                          IF j = k THEN v ELSE shared_storage[j]]
  /\ answer' = Nothing
  /\ latest' = [latest EXCEPT ![k] = <<v>>]
  /\ UNCHANGED <<kind, now>>

\* A value that memory does not have, or has let expire, comes from the shared
\* map and starts a new time-to-live in memory.
DualGet(k) ==
  /\ LET local == lookup(storage, k, now)
     IN IF local # Nothing \/ k \notin DOMAIN shared_storage
          THEN answer' = <<k, local>> /\ UNCHANGED storage
          ELSE /\ answer' = <<k, <<shared_storage[k]>> >>
               /\ storage' = memory_store(k, shared_storage[k])
  /\ UNCHANGED <<kind, shared_storage, now, latest>>

\* A removal from memory alone.
RemoveFromMemoryOnly(k) ==
  /\ storage' = remove(storage, k)
  /\ answer' = Nothing
  /\ latest' = [latest EXCEPT ![k] = Nothing]
  /\ UNCHANGED <<kind, shared_storage, now>>

DualRemove(k) ==
  /\ storage' = remove(storage, k)
  /\ shared_storage' = [j \in DOMAIN shared_storage \ {k} |-> shared_storage[j]]
  /\ answer' = Nothing
  /\ latest' = [latest EXCEPT ![k] = Nothing]
  /\ UNCHANGED <<kind, now>>

\* Memory drops what has expired, and the shared map what memory no longer has.
DualCleanup ==
  /\ storage' = cleanup(storage, now)
  /\ shared_storage' = [j \in DOMAIN shared_storage \cap DOMAIN storage' |->
                          shared_storage[j]]
  /\ UNCHANGED <<kind, now, answer, latest>>

DualTick == Tick /\ UNCHANGED <<kind, shared_storage, latest>>

DualNext ==
  \/ kind = "memory" /\ Next /\ UNCHANGED <<kind, shared_storage, latest>>
  \/ /\ kind = "dual"
     /\ \/ \E k \in Keys : \/ \E v \in Values : DualStore(k, v)
                           \/ DualGet(k) \/ DualRemove(k)
        \/ DualCleanup \/ DualTick

DualSpec == DualInit /\ [][DualNext]_dualVars

-----------------------------------------------------------------------------

\* "synchronized access to both" (storage.rs:246): the two maps have the same
\* keys and values, so that it does not matter which of them answers.
SharedMirrorsMemory == kind = "dual" =>
  /\ DOMAIN shared_storage = DOMAIN storage
  /\ \A k \in DOMAIN storage : shared_storage[k] = storage[k].value

\* get never returns a value that was overwritten or removed.
ReturnsLatest ==
  kind = "dual" /\ answer # Nothing =>
    answer[2] = Nothing \/ answer[2] = latest[answer[1]]

AsTtlMap ==
  INSTANCE TtlMap WITH
    contents <- IF kind = "memory" THEN LiveContents ELSE [k \in Keys |-> Nothing],
    now <- IF kind = "memory" THEN now ELSE 0,
    answer <- IF kind = "memory" THEN answer ELSE Nothing

\* The storage a node is built with is a map with times-to-live
\* (StorageImplementsTtlMap).  DualStorage is not one: its get revives an entry
\* that has expired and has not been cleaned up.
MemoryImplementsTtlMap == AsTtlMap!Spec

=============================================================================
