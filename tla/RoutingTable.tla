---------------------------- MODULE RoutingTable ----------------------------
(***************************************************************************)
(* The routing table of src/routing/routing_table.rs and the operations    *)
(* the protocol performs on it under its write lock, each of them atomic.  *)
(* The variable "now" is the system clock in seconds; the contacts that    *)
(* are handed to update() carry the default statistics and any identifier  *)
(* of Peers.                                                               *)
(***************************************************************************)
EXTENDS Table

CONSTANTS local_node_id,    \* the node the table belongs to
          Peers,            \* identifiers the node hears of
          ResponseTimes,    \* response times that are measured
          MaxTime,          \* bound of the clock
          ClockStepsBack    \* TRUE: the system clock may be set back

ASSUME LocalAssumption == local_node_id \in NodeIds
ASSUME PeersAssumption == Peers \subseteq NodeIds
ASSUME ResponseTimesAssumption == ResponseTimes \subseteq Nat
ASSUME MaxTimeAssumption == MaxTime \in Nat
ASSUME ClockAssumption == ClockStepsBack \in BOOLEAN

VARIABLES buckets,          \* index -> bucket, for the buckets created so far
          now

vars == <<buckets, now>>

-----------------------------------------------------------------------------
(* The state machine.                                                      *)

Init == buckets = [i \in {} |-> new_bucket(0)] /\ now = 0

Update(id) ==
  /\ buckets' = table_update(local_node_id, buckets, NewContact(id), now).table
  /\ UNCHANGED now

NodeSeen(id) ==
  /\ buckets' = table_node_seen(local_node_id, buckets, id, now)
  /\ UNCHANGED now

RecordSuccess(id) ==
  /\ \E ms \in ResponseTimes :
       buckets' = table_record_success(local_node_id, buckets, id, ms, now)
  /\ UNCHANGED now

RecordFailure(id) ==
  /\ buckets' = table_record_failure(local_node_id, buckets, id, now)
  /\ UNCHANGED now

RemoveNode(id) ==
  /\ buckets' = table_remove(local_node_id, buckets, id, now)
  /\ UNCHANGED now

\* The system clock moves on, or is set back.
Clock ==
  /\ now' \in {t \in 0 .. MaxTime : t > now \/ ClockStepsBack}
  /\ UNCHANGED buckets

Next ==
  \/ \E id \in Peers : \/ Update(id)
                       \/ NodeSeen(id)
                       \/ RecordSuccess(id)
                       \/ RecordFailure(id)
                       \/ RemoveNode(id)
  \/ Clock

Spec == Init /\ [][Next]_vars

-----------------------------------------------------------------------------
(* What the table promises.                                                *)

TypeOK ==
  /\ DOMAIN buckets \subseteq Position
  /\ buckets \in [DOMAIN buckets -> KBuckets]
  /\ now \in 0 .. MaxTime

InBucket(contacts, i) ==
  \A p \in DOMAIN contacts : bucket_index(local_node_id, contacts[p].id) = i

\* Every contact, waiting or not, lives in the bucket of its distance to the
\* local node, so that contains, get and remove look for it where update put
\* it, the local node is nowhere, and update's split never happens: the
\* contacts of bucket i all differ from the local node at bit i, the very bit
\* should_split compares.
BucketPlacement ==
  \A i \in DOMAIN buckets :
    /\ buckets[i].prefix_len = i
    /\ InBucket(buckets[i].nodes, i)
    /\ InBucket(buckets[i].replacement_cache, i)
    /\ ~should_split(buckets[i])

\* A bucket never exceeds K contacts, and contacts wait in the replacement
\* cache only while the bucket has no free place: update appends only to a
\* bucket that is not full and remove promotes a waiting contact.
NoVacancyWhileWaiting ==
  \A i \in DOMAIN buckets :
    /\ Len(buckets[i].nodes) <= K
    /\ buckets[i].replacement_cache # <<>> => Len(buckets[i].nodes) = K

\* update looks for the contact in the replacement cache before it appends it:
\* no contact waits twice.
WaitsOnce ==
  \A i \in DOMAIN buckets :
    LET cache == buckets[i].replacement_cache
    IN \A p, q \in DOMAIN cache : cache[p].id = cache[q].id => p = q

\* A contact that takes the place of a silent one may be waiting as well, and is
\* listed a second time when the next removal promotes it (k_bucket.rs:122, 149).
\* It is never listed three times, nor twice while it waits: only a contact that
\* is not listed goes into the cache, and a promotion takes it out.
ListedAtMostTwice ==
  \A i \in DOMAIN buckets :
    LET nodes == buckets[i].nodes
    IN \A p, q \in DOMAIN nodes : p # q /\ nodes[p].id = nodes[q].id =>
         /\ Positions(nodes, nodes[p].id) = {p, q}
         /\ Positions(buckets[i].replacement_cache, nodes[p].id) = {}

SeenInOrder(contacts) ==
  /\ \A p \in DOMAIN contacts : contacts[p].last_seen \in 0 .. now
  /\ \A p, q \in DOMAIN contacts :
       p <= q => contacts[p].last_seen <= contacts[q].last_seen

\* "Queue of nodes in order of least recently seen" (k_bucket.rs:32): while the
\* clock is not set back, the front of a bucket is its least recently seen
\* contact, the one that update tests, replaces or has pinged.  The cache is in
\* the same order.
LeastRecentlySeenFirst ==
  \A i \in DOMAIN buckets : /\ SeenInOrder(buckets[i].nodes)
                            /\ SeenInOrder(buckets[i].replacement_cache)

ListedAt(table, i, id) == i \in DOMAIN table /\ contains(table[i], id)

\* "Priority: unreliable nodes > inactive nodes > LRU nodes" (k_bucket.rs:101):
\* a contact leaves its bucket only when it is removed by name, or when a
\* newcomer takes its place because its statistics call it unreliable or, if
\* nobody's do, because it is the least recently seen one and has been silent for
\* longer than NODE_TIMEOUT.  A contact seen "in the future" of a clock that was
\* set back is not silent.
EvictsByPriority ==
  [][\A i \in DOMAIN buckets : \A id \in Peers :
       ListedAt(buckets, i, id) /\ ~ListedAt(buckets', i, id) =>
         \/ RemoveNode(id)
         \/ /\ \E new \in Peers : Update(new) /\ ListedAt(buckets', i, new)
            /\ \/ \E p \in Unreliable(buckets[i]) : buckets[i].nodes[p].id = id
               \/ /\ Unreliable(buckets[i]) = {}
                  /\ buckets[i].nodes[1].id = id
                  /\ now > buckets[i].nodes[1].last_seen + NODE_TIMEOUT]_vars

IdsOf(contacts) == {contacts[p].id : p \in DOMAIN contacts}

Listed(table) == UNION {IdsOf(table[i].nodes) : i \in DOMAIN table}

\* What FIND_NODE, FIND_VALUE and replication rely on: get_closest returns as
\* many contacts as it can, sorted by distance, and leaves out no contact
\* closer to the target than one it returns.
ClosestFirst ==
  \A target \in NodeIds : \A count \in 0 .. K + 1 :
    LET closest == get_closest(buckets, target, count)
        total == Cardinality(get_all_nodes(buckets))
    IN /\ Len(closest) = IF count < total THEN count ELSE total
       /\ \A p, q \in DOMAIN closest :
            p < q => ~Closer(target, closest[q].id, closest[p].id)
       /\ \A id \in Listed(buckets) \ IdsOf(closest) : \A p \in DOMAIN closest :
            Closer(target, closest[p].id, id)

\* A promise of a doc comment that the code does not keep.

\* "Removes a node from the routing table" (routing_table.rs:156): after
\* remove(id) the table does not contain id.
RemoveRemoves ==
  [][\A id \in Peers : RemoveNode(id) => ~table_contains(local_node_id, buckets', id)]_vars

=============================================================================
