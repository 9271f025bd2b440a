--------------------------- MODULE MemoryStorage ----------------------------
(***************************************************************************)
(* MemoryStorage of src/storage.rs: a map from keys to entries with a      *)
(* timestamp and a time-to-live.  Expired entries stay in the map until    *)
(* they are overwritten, removed or cleaned up.  It is the storage that    *)
(* with_udp and with_tcp of src/network/node.rs build a node with.         *)
(***************************************************************************)
EXTENDS Naturals

CONSTANTS Keys, Values,
          Ttls,             \* the times-to-live entries are stored with
          MaxTime           \* bound of the clock

ASSUME TtlsAssumption == Ttls \subseteq Nat
ASSUME MaxTimeAssumption == MaxTime \in Nat

VARIABLES storage, now,
          answer            \* the last get's key and outcome, or Nothing

vars == <<storage, now, answer>>

Nothing == <<>>

-----------------------------------------------------------------------------
(* The operations as functions of the map.                                 *)

\* Expiry one tick late: the deadline itself still counts as live.
live_until_after(entry, time) == entry.timestamp + entry.ttl >= time

\* timestamp + ttl > now
live(entry, time) == entry.timestamp + entry.ttl > time

store_with_ttl(map, k, v, ttl, time) ==
  [j \in DOMAIN map \cup {k} |->
     IF j = k THEN [value |-> v, timestamp |-> time, ttl |-> ttl] ELSE map[j]]

\* A lookup that leaves the time-to-live to cleanup.
lookup_any(map, k, time) ==
  IF k \in DOMAIN map THEN <<map[k].value>> ELSE Nothing

\* The value as a one-element sequence, or Nothing for ValueNotFound.
lookup(map, k, time) ==
  IF k \in DOMAIN map /\ live(map[k], time) THEN <<map[k].value>> ELSE Nothing

remove(map, k) == [j \in DOMAIN map \ {k} |-> map[j]]

\* A cleanup that keeps the expired entries.
cleanup_inverted(map, time) ==
  [j \in {k \in DOMAIN map : ~live(map[k], time)} |-> map[j]]

cleanup(map, time) == [j \in {k \in DOMAIN map : live(map[k], time)} |-> map[j]]

-----------------------------------------------------------------------------
(* The state machine.                                                      *)

EmptyMap == [k \in {} |-> [value |-> Nothing, timestamp |-> 0, ttl |-> 0]]

Init == storage = EmptyMap /\ now = 0 /\ answer = Nothing

Store(k, v, ttl) ==
  /\ storage' = store_with_ttl(storage, k, v, ttl, now)
  /\ answer' = Nothing
  /\ UNCHANGED now

Get(k) ==
  /\ answer' = <<k, lookup(storage, k, now)>>
  /\ UNCHANGED <<storage, now>>

RemoveKey(k) ==
  /\ storage' = remove(storage, k)
  /\ answer' = Nothing
  /\ UNCHANGED now

Cleanup ==
  /\ storage' = cleanup(storage, now)
  /\ UNCHANGED <<now, answer>>

Tick ==
  /\ now < MaxTime
  /\ now' = now + 1
  /\ answer' = Nothing
  /\ UNCHANGED storage

Next == \/ \E k \in Keys : \/ \E v \in Values, ttl \in Ttls : Store(k, v, ttl)
                           \/ Get(k) \/ RemoveKey(k)
        \/ Cleanup \/ Tick

Spec == Init /\ [][Next]_vars

-----------------------------------------------------------------------------

\* The map without its expired entries.
LiveContents ==
  [k \in Keys |-> IF k \in DOMAIN storage /\ live(storage[k], now)
                    THEN <<storage[k].value, storage[k].timestamp + storage[k].ttl>>
                    ELSE Nothing]

Abstract == INSTANCE TtlMap WITH contents <- LiveContents

\* The storage is a map with times-to-live: cleanup, whenever it runs, changes
\* nothing that get can see, and get never returns an expired, removed or
\* overwritten value.
StorageImplementsTtlMap == Abstract!Spec

=============================================================================
