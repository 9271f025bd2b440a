------------------------------ MODULE KBucket -------------------------------
(***************************************************************************)
(* One k-bucket of src/routing/k_bucket.rs as a value: contacts from least *)
(* to most recently seen, and the replacement cache.  Every operation is a *)
(* function of the bucket; "local" is the node it belongs to and "time"    *)
(* the clock the operation reads.                                          *)
(***************************************************************************)
EXTENDS Contact, SequencesExt

CONSTANTS K,                     \* capacity of a bucket
          NODE_TIMEOUT      \* seconds after which a contact is inactive

ASSUME KAssumption == K \in Nat \ {0}
ASSUME NodeTimeoutAssumption == NODE_TIMEOUT \in Nat

KBuckets ==
  [prefix_len : Nat, nodes : Seq(Contacts), replacement_cache : Seq(Contacts)]

NoPing == <<>>              \* no contact to ping

new_bucket(prefix_len) ==
  [prefix_len |-> prefix_len, nodes |-> <<>>, replacement_cache |-> <<>>]

is_full(b) == Len(b.nodes) >= K

\* iter().position(): the first index that satisfies the predicate.
Positions(contacts, id) == {p \in DOMAIN contacts : contacts[p].id = id}

position(contacts, id) == LeastOf(Positions(contacts, id))

contains(b, id) == Positions(b.nodes, id) # {}

get(b, id) == b.nodes[position(b.nodes, id)]

\* Positions of the contacts below MIN_SUCCESS_RATE = 1/2.
Unreliable(b) ==
  {p \in DOMAIN b.nodes : ~is_reliable(b.nodes[p].response_stats, 1, 2)}

-----------------------------------------------------------------------------

Done(b, status, ping) == [bucket |-> b, status |-> status, ping |-> ping]

\* The variant that keeps the position of a contact seen again.
RefreshInPlace(b, id, time) ==
  LET p == position(b.nodes, id)
  IN [b EXCEPT !.nodes[p] = update_last_seen(@, time)]

\* The known contact goes to the back with a fresh timestamp.  It is the stored
\* contact that stays: the one passed in is dropped.
MoveToBack(b, id, time) ==
  LET p == position(b.nodes, id)
  IN [b EXCEPT !.nodes =
        Append(RemoveAt(@, p), update_last_seen(b.nodes[p], time))]

\* The contact at position p makes room for the newcomer.  The replacement
\* cache is left alone, even when it holds the newcomer.
ReplaceNode(b, p, node, time) ==
  [b EXCEPT !.nodes = Append(RemoveAt(@, p), update_last_seen(node, time))]

\* The variant without the search of the cache.
AddToCacheAgain(b, node, time) ==
  [b EXCEPT !.replacement_cache = Append(@, update_last_seen(node, time))]

\* The newcomer waits in the cache, at most once.
AddToCache(b, node, time) ==
  LET cache == b.replacement_cache
      rest == IF Positions(cache, node.id) = {}
                THEN cache
                ELSE RemoveAt(cache, position(cache, node.id))
  IN [b EXCEPT !.replacement_cache =
        Append(rest, update_last_seen(node, time))]

bucket_update(local, b, node, time) ==
  IF node.id = local THEN Done(b, "Err", NoPing)
  ELSE IF contains(b, node.id)
    THEN Done(MoveToBack(b, node.id, time), "Updated", NoPing)
  ELSE IF ~is_full(b)
    THEN Done([b EXCEPT !.nodes = Append(@, update_last_seen(node, time))],
              "Updated", NoPing)
  ELSE IF Unreliable(b) # {}
    THEN Done(ReplaceNode(b, LeastOf(Unreliable(b)), node, time), "Updated", NoPing)
  ELSE IF ~is_active(b.nodes[1], time, NODE_TIMEOUT)
    THEN Done(ReplaceNode(b, 1, node, time), "Updated", NoPing)
  ELSE Done(AddToCache(b, node, time), "PendingPing", <<b.nodes[1].id>>)

\* A removal that promotes nobody.
PromoteNobody(b, time) == b

\* A promotion that leaves the contact in the cache.
PromoteCopy(b, time) ==
  IF b.replacement_cache = <<>>
    THEN b
    ELSE [b EXCEPT !.nodes = Append(@, update_last_seen(b.replacement_cache[1], time))]

\* The cache's oldest entry fills the place of a removed contact.
PromoteFromCache(b, time) ==
  IF b.replacement_cache = <<>>
    THEN b
    ELSE [b EXCEPT !.nodes = Append(@, update_last_seen(b.replacement_cache[1], time)),
                   !.replacement_cache = Tail(@)]

bucket_remove(b, id, time) ==
  IF contains(b, id)
    THEN PromoteFromCache([b EXCEPT !.nodes = RemoveAt(@, position(@, id))], time)
    ELSE b

-----------------------------------------------------------------------------

\* The bit the bucket would be split on.
should_split(b) ==
  /\ is_full(b)
  /\ \E p \in DOMAIN b.nodes :
       bit_at(b.nodes[p].id, b.prefix_len) # bit_at(b.nodes[1].id, b.prefix_len)

\* The half of the contacts with the given bit, inserted in order into a new
\* bucket.  The replacement cache is not carried over.
split_half(local, b, bit, time) ==
  FoldLeft(LAMBDA half, node : bucket_update(local, half, node, time).bucket,
           new_bucket(b.prefix_len + 1),
           SelectSeq(b.nodes, LAMBDA node : bit_at(node.id, b.prefix_len) = bit))

=============================================================================
