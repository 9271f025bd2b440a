------------------------ MODULE RoutingTable_proofs -------------------------
(***************************************************************************)
(* The response statistics of a contact, for every history of response     *)
(* times; the routing table's type correctness and safety invariants, for  *)
(* every identifier length, bucket size, timeout and set of peers; and the *)
(* request handlers that share it.                                         *)
(***************************************************************************)
EXTENDS RecordContact, NodeId_proofs, SequenceTheorems

-----------------------------------------------------------------------------
(* Response statistics: the moving average and the timeout derived from it *)

\* The average, when there is one, lies within the given bounds.
AverageWithin(stats, lo, hi) ==
  stats.avg_response_time_ms # NoAverage => stats.avg_response_time_ms \in lo .. hi

(***************************************************************************)
(* The truncating division of record_response_time never takes the average *)
(* below the smallest nor above the largest response time measured so far: *)
(* bounds of the samples are bounds of the average after every further     *)
(* sample.                                                                 *)
(***************************************************************************)
THEOREM AverageStaysWithinSamples ==
  ASSUME NEW stats \in ResponseStats, NEW lo \in Nat, NEW hi \in Nat,
         NEW ms \in lo .. hi, AverageWithin(stats, lo, hi)
  PROVE  /\ AverageWithin(record_response_time(stats, ms), lo, hi)
         /\ record_response_time(stats, ms).avg_response_time_ms \in Nat
<1> DEFINE avg == stats.avg_response_time_ms
           new == record_response_time(stats, ms).avg_response_time_ms
<1>1. new = IF avg = NoAverage THEN ms ELSE (ms + 4 * avg) \div 5
  BY DEF record_response_time, ResponseStats
<1>2. avg \in Nat \cup {NoAverage}
  BY DEF ResponseStats
<1>3. CASE avg = NoAverage
  BY <1>1, <1>3 DEF AverageWithin
<1>4. CASE avg # NoAverage
  <2>1. avg \in lo .. hi
    BY <1>4 DEF AverageWithin
  <2> HIDE DEF avg
  <2>2. 5 * lo <= ms + 4 * avg /\ ms + 4 * avg <= 5 * hi
    BY <2>1
  <2>3. ASSUME NEW n \in Nat, 5 * lo <= n, n <= 5 * hi
        PROVE  n \div 5 \in lo .. hi
    BY <2>3
  <2>4. ms + 4 * avg \in Nat
    BY <2>1
  <2>5. new \in lo .. hi
    BY <1>1, <1>4, <2>2, <2>3, <2>4
  <2> QED
    BY <2>5 DEF AverageWithin
<1> QED
  BY <1>2, <1>3, <1>4

(***************************************************************************)
(* adaptive_timeout stays between the base it is given and the ceiling of  *)
(* 30 seconds: a call to a contact with any history is given at least its  *)
(* base time, and no contact can make a caller wait longer than the        *)
(* ceiling.                                                                *)
(***************************************************************************)
THEOREM AdaptiveTimeoutWithinBounds ==
  ASSUME NEW stats \in ResponseStats, NEW multiplier \in Nat,
         NEW base \in 0 .. TimeoutCap
  PROVE  adaptive_timeout(stats, multiplier, base) \in base .. TimeoutCap
<1> DEFINE avg == stats.avg_response_time_ms
           extra == multiplier * avg
<1>1. CASE avg = NoAverage
  BY <1>1 DEF adaptive_timeout, TimeoutCap
<1>2. CASE avg # NoAverage
  <2>1. avg \in Nat
    BY <1>2 DEF ResponseStats
  <2>2. extra \in Nat
    BY <2>1
  <2>3. adaptive_timeout(stats, multiplier, base)
          = IF extra + base < TimeoutCap THEN extra + base ELSE TimeoutCap
    BY <1>2 DEF adaptive_timeout
  <2> HIDE DEF extra
  <2> QED
    BY <2>2, <2>3 DEF TimeoutCap
<1> QED
  BY <1>1, <1>2

(***************************************************************************)
(* A larger average never shortens the timeout: a contact that has become  *)
(* slower is not given up sooner.                                          *)
(***************************************************************************)
THEOREM AdaptiveTimeoutIsMonotone ==
  ASSUME NEW s \in ResponseStats, NEW t \in ResponseStats,
         NEW multiplier \in Nat, NEW base \in 0 .. TimeoutCap,
         s.avg_response_time_ms \in Nat, t.avg_response_time_ms \in Nat,
         s.avg_response_time_ms <= t.avg_response_time_ms
  PROVE  adaptive_timeout(s, multiplier, base) <= adaptive_timeout(t, multiplier, base)
<1> DEFINE a == s.avg_response_time_ms
           b == t.avg_response_time_ms
           x == multiplier * a
           y == multiplier * b
<1>1. x \in Nat /\ y \in Nat
  OBVIOUS
<1>2. PICK d \in Nat : b = a + d
  <2>1. b - a \in Nat /\ b = a + (b - a)
    OBVIOUS
  <2> QED
    BY <2>1
<1>3. x <= y
  <2> HIDE DEF a, b
  <2>0. a \in Nat
    BY DEF a
  <2>1. multiplier * (a + d) = multiplier * a + multiplier * d /\ multiplier * d \in Nat
    BY <2>0
  <2> QED
    BY <1>1, <1>2, <2>1
<1>4. a # NoAverage /\ b # NoAverage
  BY DEF NoAverage
<1>5. /\ adaptive_timeout(s, multiplier, base)
           = IF x + base < TimeoutCap THEN x + base ELSE TimeoutCap
      /\ adaptive_timeout(t, multiplier, base)
           = IF y + base < TimeoutCap THEN y + base ELSE TimeoutCap
  BY <1>4 DEF adaptive_timeout
<1> HIDE DEF x, y
<1> QED
  BY <1>1, <1>3, <1>5 DEF TimeoutCap

-----------------------------------------------------------------------------
(* Sequences of contacts.                                                  *)

(***************************************************************************)
(* RemoveAt, in the form the bucket operations use it.                     *)
(***************************************************************************)
LEMMA RemoveAtProperties ==
  ASSUME NEW S, NEW s \in Seq(S), NEW i \in 1 .. Len(s)
  PROVE  /\ RemoveAt(s, i) \in Seq(S)
         /\ Len(RemoveAt(s, i)) = Len(s) - 1
         /\ \A j \in 1 .. (Len(s) - 1) :
              RemoveAt(s, i)[j] = IF j < i THEN s[j] ELSE s[j + 1]
<1> DEFINE L == SubSeq(s, 1, i - 1)
           R == SubSeq(s, i + 1, Len(s))
<1>1. L \in Seq(S) /\ Len(L) = i - 1 /\ \A j \in 1 .. (i - 1) : L[j] = s[j]
  BY SubSeqProperties
<1>2. R \in Seq(S) /\ Len(R) = Len(s) - i /\ \A j \in 1 .. (Len(s) - i) : R[j] = s[j + i]
  BY SubSeqProperties
<1>3. RemoveAt(s, i) = L \o R
  BY DEF RemoveAt
<1> HIDE DEF L, R
<1>4. /\ L \o R \in Seq(S)
      /\ Len(L \o R) = Len(L) + Len(R)
      /\ \A j \in 1 .. (Len(L) + Len(R)) :
           (L \o R)[j] = IF j <= Len(L) THEN L[j] ELSE R[j - Len(L)]
  BY <1>1, <1>2, ConcatProperties
<1>5. \A j \in 1 .. (Len(s) - 1) : (L \o R)[j] = IF j < i THEN s[j] ELSE s[j + 1]
  <2> TAKE j \in 1 .. (Len(s) - 1)
  <2>1. CASE j < i
    BY <1>1, <1>2, <1>4, <2>1
  <2>2. CASE ~(j < i)
    <3>1. j - (i - 1) \in 1 .. (Len(s) - i) /\ j - (i - 1) + i = j + 1
      BY <2>2
    <3>2. R[j - (i - 1)] = s[j + 1]
      BY <1>2, <3>1
    <3> QED
      BY <1>1, <1>2, <1>4, <2>2, <3>2
  <2> QED
    BY <2>1, <2>2
<1> QED
  BY <1>1, <1>2, <1>3, <1>4, <1>5

(***************************************************************************)
(* iter().position() finds a position whenever the identifier is there.    *)
(***************************************************************************)
LEMMA PositionProperties ==
  ASSUME NEW S, NEW s \in Seq(S), NEW id, Positions(s, id) # {}
  PROVE  /\ position(s, id) \in 1 .. Len(s)
         /\ s[position(s, id)].id = id
         /\ \A q \in 1 .. Len(s) : s[q].id = id => position(s, id) <= q
<1>1. Positions(s, id) \subseteq Nat
  BY DEF Positions
<1>2. /\ LeastOf(Positions(s, id)) \in Positions(s, id)
      /\ \A q \in Positions(s, id) : LeastOf(Positions(s, id)) <= q
  BY <1>1, LeastOfIsLeast
<1> QED
  BY <1>2 DEF Positions, position

-----------------------------------------------------------------------------
(* The buckets.                                                            *)

\* The contacts that belong in bucket i, among the peers the node hears of.
Residents(i) == {c \in Contacts : c.id \in Peers /\ bucket_index(local_node_id, c.id) = i}

\* The contacts that bucket i really keeps: they have been seen, and nothing has
\* been recorded of their responses.
Kept(i) == {c \in Residents(i) : /\ c.last_seen \in Nat
                                 /\ c.response_stats = DefaultStats}

\* The invariant of bucket i: its type, the placement of its contacts, its
\* capacity and the rule that contacts wait only while it is full.
GoodBucket(b, i) ==
  /\ b \in [prefix_len : {i}, nodes : Seq(Kept(i)),
            replacement_cache : Seq(Kept(i))]
  /\ Len(b.nodes) <= K
  /\ b.replacement_cache # <<>> => Len(b.nodes) = K

(***************************************************************************)
(* update_last_seen makes a contact without recorded responses one that    *)
(* its bucket may keep.                                                    *)
(***************************************************************************)
LEMMA SeenIsKept ==
  ASSUME NEW i, NEW node \in Residents(i), node.response_stats = DefaultStats,
         NEW time \in Nat
  PROVE  /\ update_last_seen(node, time) \in Kept(i)
         /\ update_last_seen(node, time).id = node.id
<1>1. update_last_seen(node, time) = [node EXCEPT !.last_seen = time]
  BY DEF update_last_seen
<1>2. node \in Contacts /\ node.id \in Peers /\ bucket_index(local_node_id, node.id) = i
  BY DEF Residents
<1>3. /\ update_last_seen(node, time) \in Contacts
      /\ update_last_seen(node, time).id = node.id
      /\ update_last_seen(node, time).last_seen = time
      /\ update_last_seen(node, time).response_stats = node.response_stats
  BY <1>1, <1>2 DEF Contacts
<1> QED
  BY <1>2, <1>3 DEF Residents, Kept

(***************************************************************************)
(* A contact nobody has asked anything is reliable: update never finds an  *)
(* unreliable contact to replace.                                          *)
(***************************************************************************)
LEMMA KeptAreReliable ==
  ASSUME NEW i, NEW b, b.nodes \in Seq(Kept(i))
  PROVE  Unreliable(b) = {}
<1>1. is_reliable(DefaultStats, 1, 2)
  BY MaxU32Assumption DEF is_reliable, total_responses, DefaultStats
<1> QED
  BY <1>1 DEF Unreliable, Kept

(***************************************************************************)
(* The contacts of a good bucket agree at the bucket's bit: should_split   *)
(* is never true and update's split is unreachable.                        *)
(***************************************************************************)
LEMMA GoodBucketNeverSplits ==
  ASSUME NEW i \in Position, NEW b, GoodBucket(b, i)
  PROVE  ~should_split(b)
<1> SUFFICES ASSUME NEW p \in DOMAIN b.nodes, is_full(b)
             PROVE  bit_at(b.nodes[p].id, b.prefix_len)
                      = bit_at(b.nodes[1].id, b.prefix_len)
  BY DEF should_split
<1>1. b.prefix_len = i /\ b.nodes \in Seq(Kept(i))
  BY DEF GoodBucket
<1>2. 1 \in DOMAIN b.nodes
  BY <1>1
<1>3. b.nodes[p] \in Residents(i) /\ b.nodes[1] \in Residents(i)
  BY <1>1, <1>2 DEF Kept
<1>4. /\ b.nodes[p].id \in NodeIds /\ bucket_index(local_node_id, b.nodes[p].id) = i
      /\ b.nodes[1].id \in NodeIds /\ bucket_index(local_node_id, b.nodes[1].id) = i
  BY <1>3 DEF Residents, Contacts
<1>5. b.nodes[p].id # local_node_id
  BY <1>4, BucketIndexProperties, LocalAssumption, KeyLengthAssumption
     DEF NoIndex, Position
<1>6. bit_at(b.nodes[p].id, i) <=> bit_at(b.nodes[1].id, i)
  BY <1>4, <1>5, SameBucketSameBit, LocalAssumption
<1>7. bit_at(b.nodes[p].id, i) \in BOOLEAN /\ bit_at(b.nodes[1].id, i) \in BOOLEAN
  BY DEF bit_at
<1> QED
  BY <1>1, <1>6, <1>7
(***************************************************************************)
(* Replacing one contact of a bucket by a contact of the same bucket.      *)
(***************************************************************************)
LEMMA ReplacedSequence ==
  ASSUME NEW i, NEW s \in Seq(Kept(i)), NEW p \in 1 .. Len(s),
         NEW node \in Kept(i)
  PROVE  /\ Append(RemoveAt(s, p), node) \in Seq(Kept(i))
         /\ Len(Append(RemoveAt(s, p), node)) = Len(s)
<1>1. RemoveAt(s, p) \in Seq(Kept(i)) /\ Len(RemoveAt(s, p)) = Len(s) - 1
  BY RemoveAtProperties
<1> QED
  BY <1>1, AppendProperties

(***************************************************************************)
(* MoveToBack keeps a good bucket good.                                    *)
(***************************************************************************)
LEMMA MoveToBackGood ==
  ASSUME NEW i, NEW b, GoodBucket(b, i), NEW id, contains(b, id), NEW time \in Nat
  PROVE  GoodBucket(MoveToBack(b, id, time), i)
<1>1. /\ b.nodes \in Seq(Kept(i))
      /\ b = [prefix_len |-> i, nodes |-> b.nodes,
              replacement_cache |-> b.replacement_cache]
  BY DEF GoodBucket
<1>2. position(b.nodes, id) \in 1 .. Len(b.nodes)
  BY <1>1, PositionProperties DEF contains
<1>3. update_last_seen(b.nodes[position(b.nodes, id)], time) \in Kept(i)
  <2>1. b.nodes[position(b.nodes, id)] \in Kept(i)
    BY <1>1, <1>2
  <2> QED
    BY <2>1, SeenIsKept DEF Kept
<1>4. ASSUME NEW s \in Seq(Kept(i)), Len(s) = Len(b.nodes)
      PROVE  GoodBucket([b EXCEPT !.nodes = s], i)
  BY <1>1, <1>4 DEF GoodBucket
<1> QED
  BY <1>1, <1>2, <1>3, <1>4, ReplacedSequence DEF MoveToBack

(***************************************************************************)
(* Every branch of KBucket::update keeps a good bucket good.               *)
(***************************************************************************)
LEMMA BucketUpdateGood ==
  ASSUME NEW i, NEW b, GoodBucket(b, i), NEW node \in Residents(i), NEW time \in Nat,
         node.response_stats = DefaultStats
  PROVE  GoodBucket(bucket_update(local_node_id, b, node, time).bucket, i)
<1> DEFINE seen == update_last_seen(node, time)
<1>1. seen \in Kept(i)
  BY SeenIsKept
<1>2. /\ b = [prefix_len |-> i, nodes |-> b.nodes,
              replacement_cache |-> b.replacement_cache]
      /\ b.nodes \in Seq(Kept(i)) /\ b.replacement_cache \in Seq(Kept(i))
      /\ Len(b.nodes) <= K
      /\ b.replacement_cache # <<>> => Len(b.nodes) = K
      /\ Len(b.nodes) \in Nat
  BY DEF GoodBucket
<1>3. ASSUME NEW s \in Seq(Kept(i)), Len(s) = Len(b.nodes)
      PROVE  GoodBucket([b EXCEPT !.nodes = s], i)
  BY <1>2, <1>3 DEF GoodBucket
<1>4. CASE node.id = local_node_id
  BY <1>4 DEF bucket_update, Done
<1>5. CASE node.id # local_node_id /\ contains(b, node.id)
  BY <1>5, MoveToBackGood DEF bucket_update, Done
<1>6. CASE node.id # local_node_id /\ ~contains(b, node.id) /\ ~is_full(b)
  <2>1. Append(b.nodes, seen) \in Seq(Kept(i)) /\ Len(Append(b.nodes, seen)) = Len(b.nodes) + 1
    BY <1>1, <1>2, AppendProperties
  <2>2. Len(b.nodes) + 1 <= K /\ b.replacement_cache = <<>>
    BY <1>2, <1>6, KAssumption DEF is_full
  <2>3. GoodBucket([b EXCEPT !.nodes = Append(b.nodes, seen)], i)
    BY <1>2, <2>1, <2>2 DEF GoodBucket
  <2> QED
    BY <1>6, <2>3 DEF bucket_update, Done
<1>7. CASE node.id # local_node_id /\ ~contains(b, node.id) /\ is_full(b)
  <2>1. ASSUME NEW p \in 1 .. Len(b.nodes)
        PROVE  GoodBucket(ReplaceNode(b, p, node, time), i)
    BY <1>1, <1>2, <1>3, ReplacedSequence DEF ReplaceNode
  <2>2. Unreliable(b) = {}
    BY <1>2, KeptAreReliable
  <2>3. CASE ~is_active(b.nodes[1], time, NODE_TIMEOUT)
    <3>1. 1 \in 1 .. Len(b.nodes)
      BY <1>2, <1>7, KAssumption DEF is_full
    <3> QED
      BY <1>7, <2>1, <2>2, <2>3, <3>1 DEF bucket_update, Done
  <2>4. CASE is_active(b.nodes[1], time, NODE_TIMEOUT)
    <3> DEFINE cache == b.replacement_cache
               rest == IF Positions(cache, node.id) = {}
                         THEN cache
                         ELSE RemoveAt(cache, position(cache, node.id))
    <3>1. rest \in Seq(Kept(i))
      BY <1>2, PositionProperties, RemoveAtProperties
    <3>2. Append(rest, seen) \in Seq(Kept(i))
      BY <1>1, <3>1, AppendProperties
    <3>3. AddToCache(b, node, time) = [b EXCEPT !.replacement_cache = Append(rest, seen)]
      BY DEF AddToCache
    <3>4. Len(b.nodes) = K
      BY <1>2, <1>7, KAssumption DEF is_full
    <3> HIDE DEF rest, seen
    <3>5. GoodBucket(AddToCache(b, node, time), i)
      BY <1>2, <3>2, <3>3, <3>4 DEF GoodBucket
    <3> QED
      BY <1>7, <2>2, <2>4, <3>5 DEF bucket_update, Done
  <2> QED
    BY <2>3, <2>4
<1> QED
  BY <1>4, <1>5, <1>6, <1>7

(***************************************************************************)
(* KBucket::remove keeps a good bucket good: the place it frees is filled  *)
(* from the replacement cache when somebody waits there.                   *)
(***************************************************************************)
LEMMA BucketRemoveGood ==
  ASSUME NEW i, NEW b, GoodBucket(b, i), NEW id, NEW time \in Nat
  PROVE  GoodBucket(bucket_remove(b, id, time), i)
<1>1. CASE ~contains(b, id)
  BY <1>1 DEF bucket_remove
<1>2. CASE contains(b, id)
  <2> DEFINE cache == b.replacement_cache
             rest == RemoveAt(b.nodes, position(b.nodes, id))
             emptied == [b EXCEPT !.nodes = rest]
  <2>1. /\ b = [prefix_len |-> i, nodes |-> b.nodes,
                replacement_cache |-> cache]
        /\ b.nodes \in Seq(Kept(i)) /\ cache \in Seq(Kept(i))
        /\ Len(b.nodes) <= K
        /\ cache # <<>> => Len(b.nodes) = K
    BY DEF GoodBucket
  <2>2. rest \in Seq(Kept(i)) /\ Len(rest) = Len(b.nodes) - 1
    BY <1>2, <2>1, PositionProperties, RemoveAtProperties DEF contains
  <2>3. bucket_remove(b, id, time) = PromoteFromCache(emptied, time)
    BY <1>2, <2>1 DEF bucket_remove
  <2> HIDE DEF rest
  <2>4. emptied = [prefix_len |-> i, nodes |-> rest, replacement_cache |-> cache]
    BY <2>1
  <2>5. CASE cache = <<>>
    BY <2>1, <2>2, <2>3, <2>4, <2>5, KAssumption DEF PromoteFromCache, GoodBucket
  <2>6. CASE cache # <<>>
    <3>1. cache[1] \in Kept(i) /\ Tail(cache) \in Seq(Kept(i))
      BY <2>1, <2>6, HeadTailProperties
    <3>2. update_last_seen(cache[1], time) \in Kept(i)
      BY <3>1, SeenIsKept DEF Kept
    <3> DEFINE filled == Append(rest, update_last_seen(cache[1], time))
    <3>3. filled \in Seq(Kept(i)) /\ Len(filled) = Len(b.nodes)
      BY <2>2, <3>2, AppendProperties
    <3>4. PromoteFromCache(emptied, time)
            = [prefix_len |-> i, nodes |-> filled, replacement_cache |-> Tail(cache)]
      BY <2>4, <2>6 DEF PromoteFromCache
    <3>5. Len(filled) <= K /\ Len(filled) = K
      BY <2>1, <2>6, <3>3
    <3> DEFINE promoted == [prefix_len |-> i, nodes |-> filled,
                            replacement_cache |-> Tail(cache)]
    <3>6. promoted.nodes = filled /\ promoted.replacement_cache = Tail(cache)
      OBVIOUS
    <3>7. promoted \in [prefix_len : {i}, nodes : Seq(Kept(i)),
                        replacement_cache : Seq(Kept(i))]
      BY <3>1, <3>3
    <3>8. bucket_remove(b, id, time) = promoted
      BY <2>3, <3>4
    <3> HIDE DEF promoted, filled
    <3> QED
      BY <3>5, <3>6, <3>7, <3>8 DEF GoodBucket
  <2> QED
    BY <2>5, <2>6
<1> QED
  BY <1>1, <1>2
-----------------------------------------------------------------------------
(* The table.                                                              *)

\* A map from bucket indices to good buckets.
GoodTable(t) ==
  /\ DOMAIN t \subseteq Position
  /\ t = [i \in DOMAIN t |-> t[i]]
  /\ \A i \in DOMAIN t : GoodBucket(t[i], i)

(***************************************************************************)
(* Inserting a good bucket at its index.                                   *)
(***************************************************************************)
LEMMA PutGood ==
  ASSUME NEW t, GoodTable(t), NEW i \in Position, NEW b, GoodBucket(b, i)
  PROVE  GoodTable(Put(t, i, b))
BY DEF GoodTable, Put

(***************************************************************************)
(* The identifiers with a bucket are the ones other than the local node's. *)
(***************************************************************************)
LEMMA IndexOfPeer ==
  ASSUME NEW id \in NodeIds
  PROVE  /\ id # local_node_id => bucket_index(local_node_id, id) \in Position
         /\ id = local_node_id => bucket_index(local_node_id, id) \notin Position
BY BucketIndexProperties, LocalAssumption, KeyLengthAssumption
   DEF NoIndex, Position

(***************************************************************************)
(* What update does to a good table for a contact other than the local     *)
(* node: one pass on the contact's bucket, without a split.                *)
(***************************************************************************)
LEMMA TableUpdateIsOnePass ==
  ASSUME NEW t, GoodTable(t), NEW node \in Contacts, NEW time \in Nat,
         node.id \in Peers, node.response_stats = DefaultStats,
         node.id # local_node_id
  PROVE  LET i == bucket_index(local_node_id, node.id)
             b == get_or_create_bucket(t, i)
             u == bucket_update(local_node_id, b, node, time)
         IN /\ i \in Position /\ node \in Residents(i) /\ GoodBucket(b, i)
            /\ table_update(local_node_id, t, node, time).table = Put(t, i, u.bucket)
            /\ table_update(local_node_id, t, node, time).status = u.status
            /\ table_update(local_node_id, t, node, time).ping = u.ping
<1> DEFINE i == bucket_index(local_node_id, node.id)
           b == get_or_create_bucket(t, i)
           u == bucket_update(local_node_id, b, node, time)
<1>1. i \in Position /\ node \in Residents(i)
  BY IndexOfPeer DEF Contacts, Residents
<1>2. GoodBucket(b, i)
  <2>1. CASE i \in DOMAIN t
    BY <2>1 DEF GoodTable, get_or_create_bucket
  <2>2. CASE i \notin DOMAIN t
    BY <2>2, KAssumption DEF get_or_create_bucket, new_bucket, GoodBucket
  <2> QED
    BY <2>1, <2>2
<1>3. GoodBucket(u.bucket, i)
  <2> HIDE DEF i, b
  <2> QED BY <1>1, <1>2, BucketUpdateGood
<1>4. ~should_split(u.bucket)
  <2> HIDE DEF i, u
  <2> QED BY <1>1, <1>3, GoodBucketNeverSplits
<1>5. update_pass(local_node_id, t, node, time)
        = [table |-> Put(t, i, u.bucket), again |-> FALSE,
           status |-> u.status, ping |-> u.ping]
  BY <1>4 DEF update_pass
<1>6. /\ table_update(local_node_id, t, node, time).table = Put(t, i, u.bucket)
      /\ table_update(local_node_id, t, node, time).status = u.status
      /\ table_update(local_node_id, t, node, time).ping = u.ping
  <2> HIDE DEF i, u
  <2> QED BY <1>5 DEF table_update
<1> QED
  BY <1>1, <1>2, <1>6

(***************************************************************************)
(* RoutingTable::update keeps a good table good.                           *)
(***************************************************************************)
LEMMA TableUpdateGood ==
  ASSUME NEW t, GoodTable(t), NEW node \in Contacts, NEW time \in Nat,
         node.id \in Peers, node.response_stats = DefaultStats
  PROVE  GoodTable(table_update(local_node_id, t, node, time).table)
<1>1. CASE node.id = local_node_id
  BY <1>1 DEF table_update
<1>2. CASE node.id # local_node_id
  BY <1>2, TableUpdateIsOnePass, BucketUpdateGood, PutGood
<1> QED
  BY <1>1, <1>2

(***************************************************************************)
(* The contact that get returns is a kept one, with the identifier asked   *)
(* for.                                                                    *)
(***************************************************************************)
LEMMA GetKept ==
  ASSUME NEW i, NEW b, GoodBucket(b, i), NEW id, contains(b, id)
  PROVE  get(b, id) \in Kept(i) /\ get(b, id).id = id
<1>1. b.nodes \in Seq(Kept(i))
  BY DEF GoodBucket
<1> QED
  BY <1>1, PositionProperties DEF contains, get

(***************************************************************************)
(* A bucket that has the contact moves it to the back, whatever contact of *)
(* that identifier is handed to update.                                    *)
(***************************************************************************)
LEMMA KnownContactMovesBack ==
  ASSUME NEW b, NEW node, NEW time, contains(b, node.id), node.id # local_node_id
  PROVE  bucket_update(local_node_id, b, node, time).bucket = MoveToBack(b, node.id, time)
BY DEF bucket_update, Done

(***************************************************************************)
(* The clones of node_seen, record_success and record_failure are dropped: *)
(* all three move a known contact to the back of its bucket and change     *)
(* nothing else.                                                           *)
(***************************************************************************)
LEMMA TouchMovesBack ==
  ASSUME NEW t, GoodTable(t), NEW id \in NodeIds, NEW time, NEW ms,
         table_contains(local_node_id, t, id)
  PROVE  LET i == bucket_index(local_node_id, id)
             moved == Put(t, i, MoveToBack(t[i], id, time))
         IN /\ i \in DOMAIN t /\ contains(t[i], id) /\ id # local_node_id
            /\ table_node_seen(local_node_id, t, id, time) = moved
            /\ table_record_success(local_node_id, t, id, ms, time) = moved
            /\ table_record_failure(local_node_id, t, id, time) = moved
<1> DEFINE i == bucket_index(local_node_id, id)
           b == t[i]
           node == stored(local_node_id, t, id)
           ok == update_last_seen(
                   [node EXCEPT !.response_stats =
                      record_response_time(record_success(@), ms)], time)
           failed == [node EXCEPT !.response_stats = record_failure(@)]
<1>1. i \in DOMAIN t /\ i \in Position /\ GoodBucket(b, i) /\ contains(b, id)
  BY DEF table_contains, GoodTable
<1>2. id # local_node_id
  BY <1>1, IndexOfPeer
<1>3. node \in Contacts /\ node.id = id
  BY <1>1, GetKept DEF stored, Kept, Residents
<1>4. update_last_seen(node, time).id = id /\ ok.id = id /\ failed.id = id
  BY <1>3 DEF update_last_seen, Contacts
<1>5. table_node_seen(local_node_id, t, id, time)
        = Put(t, i, bucket_update(local_node_id, b, update_last_seen(node, time), time).bucket)
  BY DEF table_node_seen, update_clone
<1>6. table_record_success(local_node_id, t, id, ms, time)
        = Put(t, i, bucket_update(local_node_id, b, ok, time).bucket)
  BY DEF table_record_success, update_clone
<1>7. table_record_failure(local_node_id, t, id, time)
        = Put(t, i, bucket_update(local_node_id, b, failed, time).bucket)
  BY DEF table_record_failure, update_clone
<1> HIDE DEF i, b, node, ok, failed
<1>8. ASSUME NEW n, n.id = id
      PROVE  bucket_update(local_node_id, b, n, time).bucket = MoveToBack(b, id, time)
  BY <1>1, <1>2, <1>8, KnownContactMovesBack
<1>9. /\ table_node_seen(local_node_id, t, id, time) = Put(t, i, MoveToBack(b, id, time))
      /\ table_record_success(local_node_id, t, id, ms, time)
           = Put(t, i, MoveToBack(b, id, time))
      /\ table_record_failure(local_node_id, t, id, time) = Put(t, i, MoveToBack(b, id, time))
  BY <1>4, <1>5, <1>6, <1>7, <1>8
<1> QED
  BY <1>1, <1>2, <1>9 DEF i, b

(***************************************************************************)
(* record_success and record_failure are indistinguishable from node_seen: *)
(* no success, failure or response time reaches a good table.              *)
(***************************************************************************)
THEOREM RecordingOnlyRefreshes ==
  ASSUME NEW t, GoodTable(t), NEW id \in NodeIds, NEW time, NEW ms
  PROVE  /\ table_record_success(local_node_id, t, id, ms, time)
              = table_node_seen(local_node_id, t, id, time)
         /\ table_record_failure(local_node_id, t, id, time)
              = table_node_seen(local_node_id, t, id, time)
<1>1. CASE ~table_contains(local_node_id, t, id)
  BY <1>1 DEF table_node_seen, table_record_success, table_record_failure, update_clone
<1>2. CASE table_contains(local_node_id, t, id)
  BY <1>2, TouchMovesBack
<1> QED
  BY <1>1, <1>2

(***************************************************************************)
(* node_seen, record_success and record_failure keep a good table good.    *)
(***************************************************************************)
LEMMA TableTouchGood ==
  ASSUME NEW t, GoodTable(t), NEW id \in NodeIds, NEW time \in Nat, NEW ms
  PROVE  /\ GoodTable(table_node_seen(local_node_id, t, id, time))
         /\ GoodTable(table_record_success(local_node_id, t, id, ms, time))
         /\ GoodTable(table_record_failure(local_node_id, t, id, time))
<1>1. GoodTable(table_node_seen(local_node_id, t, id, time))
  <2>1. CASE ~table_contains(local_node_id, t, id)
    BY <2>1 DEF table_node_seen, update_clone
  <2>2. CASE table_contains(local_node_id, t, id)
    <3>1. /\ bucket_index(local_node_id, id) \in DOMAIN t
          /\ contains(t[bucket_index(local_node_id, id)], id)
          /\ table_node_seen(local_node_id, t, id, time)
               = Put(t, bucket_index(local_node_id, id),
                     MoveToBack(t[bucket_index(local_node_id, id)], id, time))
      BY <2>2, TouchMovesBack
    <3>2. /\ bucket_index(local_node_id, id) \in Position
          /\ GoodBucket(t[bucket_index(local_node_id, id)], bucket_index(local_node_id, id))
      BY <3>1 DEF GoodTable
    <3> QED
      BY <3>1, <3>2, MoveToBackGood, PutGood
  <2> QED
    BY <2>1, <2>2
<1> QED
  BY <1>1, RecordingOnlyRefreshes

(***************************************************************************)
(* RoutingTable::remove keeps a good table good.                           *)
(***************************************************************************)
LEMMA TableRemoveGood ==
  ASSUME NEW t, GoodTable(t), NEW id, NEW time \in Nat
  PROVE  GoodTable(table_remove(local_node_id, t, id, time))
<1>1. CASE bucket_index(local_node_id, id) \notin DOMAIN t
  BY <1>1 DEF table_remove
<1>2. CASE bucket_index(local_node_id, id) \in DOMAIN t
  <2>1. /\ bucket_index(local_node_id, id) \in Position
        /\ GoodBucket(t[bucket_index(local_node_id, id)], bucket_index(local_node_id, id))
    BY <1>2 DEF GoodTable
  <2>2. GoodBucket(bucket_remove(t[bucket_index(local_node_id, id)], id, time),
                   bucket_index(local_node_id, id))
    BY <2>1, BucketRemoveGood
  <2> QED
    BY <1>2, <2>1, <2>2, PutGood DEF table_remove
<1> QED
  BY <1>1, <1>2

-----------------------------------------------------------------------------
(* The specification.                                                      *)

\* The inductive invariant: a good table and a clock within its bound.
IInv == GoodTable(buckets) /\ now \in 0 .. MaxTime

(***************************************************************************)
(* A node handed to update carries the default statistics.                 *)
(***************************************************************************)
LEMMA NewContactType ==
  ASSUME NEW id \in NodeIds
  PROVE  /\ NewContact(id) \in Contacts
         /\ NewContact(id).id = id
         /\ NewContact(id).response_stats = DefaultStats
BY MaxU32Assumption DEF NewContact, Contacts, DefaultStats, ResponseStats, NoAverage, Never

(***************************************************************************)
(* The table starts good.                                                  *)
(***************************************************************************)
LEMMA InitIInv == Init => IInv
BY MaxTimeAssumption DEF Init, IInv, GoodTable

(***************************************************************************)
(* Every operation of the table, and every move of the clock, keeps the    *)
(* invariant.                                                              *)
(***************************************************************************)
LEMMA NextIInv == IInv /\ [Next]_vars => IInv'
<1> SUFFICES ASSUME IInv, [Next]_vars
             PROVE  IInv'
  OBVIOUS
<1>1. GoodTable(buckets) /\ now \in 0 .. MaxTime /\ now \in Nat
  BY MaxTimeAssumption DEF IInv
<1>2. ASSUME NEW id \in Peers, Update(id)
      PROVE  IInv'
  <2>1. /\ NewContact(id) \in Contacts /\ NewContact(id).id \in Peers
        /\ NewContact(id).response_stats = DefaultStats
    BY PeersAssumption, NewContactType
  <2> QED
    BY <1>1, <1>2, <2>1, TableUpdateGood DEF Update, IInv
<1>3. ASSUME NEW id \in Peers, NodeSeen(id)
      PROVE  IInv'
  BY <1>1, <1>3, PeersAssumption, TableTouchGood DEF NodeSeen, IInv
<1>4. ASSUME NEW id \in Peers, RecordSuccess(id)
      PROVE  IInv'
  <2>1. PICK ms \in ResponseTimes : buckets'
                                        = table_record_success(local_node_id, buckets, id, ms, now)
    BY <1>4 DEF RecordSuccess
  <2> QED
    BY <1>1, <1>4, <2>1, PeersAssumption, TableTouchGood DEF RecordSuccess, IInv
<1>5. ASSUME NEW id \in Peers, RecordFailure(id)
      PROVE  IInv'
  BY <1>1, <1>5, PeersAssumption, TableTouchGood DEF RecordFailure, IInv
<1>6. ASSUME NEW id \in Peers, RemoveNode(id)
      PROVE  IInv'
  BY <1>1, <1>6, TableRemoveGood DEF RemoveNode, IInv
<1>7. CASE Clock
  BY <1>1, <1>7 DEF Clock, IInv
<1>8. CASE UNCHANGED vars
  BY <1>1, <1>8 DEF vars, IInv
<1> QED
  BY <1>2, <1>3, <1>4, <1>5, <1>6, <1>7, <1>8 DEF Next

(***************************************************************************)
(* The invariant gives the properties the model checker checks.            *)
(***************************************************************************)
LEMMA IInvImplies == IInv => TypeOK /\ BucketPlacement /\ NoVacancyWhileWaiting
<1> SUFFICES ASSUME IInv
             PROVE  TypeOK /\ BucketPlacement /\ NoVacancyWhileWaiting
  OBVIOUS
<1>1. ASSUME NEW i \in DOMAIN buckets
      PROVE  /\ i \in Position
             /\ GoodBucket(buckets[i], i)
             /\ buckets[i] \in KBuckets
             /\ InBucket(buckets[i].nodes, i)
             /\ InBucket(buckets[i].replacement_cache, i)
             /\ ~should_split(buckets[i])
  <2>1. i \in Position /\ GoodBucket(buckets[i], i)
    BY DEF IInv, GoodTable
  <2>2. /\ buckets[i] \in [prefix_len : {i}, nodes : Seq(Kept(i)),
                           replacement_cache : Seq(Kept(i))]
    BY <2>1 DEF GoodBucket
  <2>3. InBucket(buckets[i].nodes, i) /\ InBucket(buckets[i].replacement_cache, i)
    BY <2>2 DEF InBucket, Residents, Kept
  <2>4. Kept(i) \subseteq Contacts
    BY DEF Residents, Kept
  <2>5. buckets[i].nodes \in Seq(Contacts) /\ buckets[i].replacement_cache \in Seq(Contacts)
    BY <2>2, <2>4, SeqMonotonic
  <2>6. buckets[i] \in KBuckets
    BY <2>1, <2>2, <2>5, KeyLengthAssumption DEF KBuckets, Position
  <2> QED
    BY <2>1, <2>3, <2>6, GoodBucketNeverSplits
<1>2. TypeOK
  BY <1>1 DEF TypeOK, IInv, GoodTable
<1>3. BucketPlacement
  BY <1>1 DEF BucketPlacement, GoodBucket
<1>4. NoVacancyWhileWaiting
  BY <1>1 DEF NoVacancyWhileWaiting, GoodBucket
<1> QED
  BY <1>2, <1>3, <1>4

(***************************************************************************)
(* The specification keeps the inductive invariant.                        *)
(***************************************************************************)
THEOREM TableIsGood == Spec => []IInv
BY InitIInv, NextIInv, PTL DEF Spec

(***************************************************************************)
(* Type correctness of the routing table.                                  *)
(***************************************************************************)
THEOREM TypeCorrect == Spec => []TypeOK
BY TableIsGood, IInvImplies, PTL

(***************************************************************************)
(* Every contact is in the bucket of its distance and no bucket is ever    *)
(* split, whatever the number of bits, the peers and their order.          *)
(***************************************************************************)
THEOREM PlacementCorrect == Spec => []BucketPlacement
BY TableIsGood, IInvImplies, PTL

(***************************************************************************)
(* Buckets hold at most K contacts and contacts wait only for full ones.   *)
(***************************************************************************)
THEOREM CapacityCorrect == Spec => []NoVacancyWhileWaiting
BY TableIsGood, IInvImplies, PTL


(***************************************************************************)
(* No statistics are ever kept: every contact, waiting or not, has the     *)
(* default ones, so that each is reliable for ever and the adaptive        *)
(* timeout is always its base.                                             *)
(***************************************************************************)
THEOREM StatisticsStayDefault ==
  Spec => [](\A i \in DOMAIN buckets :
               /\ \A p \in DOMAIN buckets[i].nodes :
                    buckets[i].nodes[p].response_stats = DefaultStats
               /\ \A p \in DOMAIN buckets[i].replacement_cache :
                    buckets[i].replacement_cache[p].response_stats = DefaultStats)
<1>1. IInv => \A i \in DOMAIN buckets :
                /\ \A p \in DOMAIN buckets[i].nodes :
                     buckets[i].nodes[p].response_stats = DefaultStats
                /\ \A p \in DOMAIN buckets[i].replacement_cache :
                     buckets[i].replacement_cache[p].response_stats = DefaultStats
  <2> SUFFICES ASSUME IInv, NEW i \in DOMAIN buckets
               PROVE  /\ \A p \in DOMAIN buckets[i].nodes :
                           buckets[i].nodes[p].response_stats = DefaultStats
                      /\ \A p \in DOMAIN buckets[i].replacement_cache :
                           buckets[i].replacement_cache[p].response_stats = DefaultStats
    OBVIOUS
  <2>1. /\ buckets[i].nodes \in Seq(Kept(i))
        /\ buckets[i].replacement_cache \in Seq(Kept(i))
    BY DEF IInv, GoodTable, GoodBucket
  <2> QED
    BY <2>1 DEF Kept
<1> QED
  BY <1>1, TableIsGood, PTL

-----------------------------------------------------------------------------
(* Who leaves a bucket.                                                    *)

(***************************************************************************)
(* Taking a contact out and appending another one loses no other contact.  *)
(***************************************************************************)
LEMMA OthersStay ==
  ASSUME NEW S, NEW s \in Seq(S), NEW p \in 1 .. Len(s), NEW x \in S,
         NEW q \in 1 .. Len(s), q # p
  PROVE  /\ Positions(RemoveAt(s, p), s[q].id) # {}
         /\ Positions(Append(RemoveAt(s, p), x), s[q].id) # {}
<1> DEFINE r == RemoveAt(s, p)
           j == IF q < p THEN q ELSE q - 1
<1>1. /\ r \in Seq(S) /\ Len(r) = Len(s) - 1
      /\ \A k \in 1 .. (Len(s) - 1) : r[k] = IF k < p THEN s[k] ELSE s[k + 1]
  BY RemoveAtProperties
<1>2. j \in 1 .. (Len(s) - 1) /\ (IF j < p THEN s[j] ELSE s[j + 1]) = s[q]
  OBVIOUS
<1> HIDE DEF r, j
<1>3. j \in DOMAIN r /\ r[j] = s[q]
  BY <1>1, <1>2
<1>4. j \in DOMAIN Append(r, x) /\ Append(r, x)[j] = r[j]
  BY <1>1, <1>2, AppendProperties
<1> QED
  BY <1>3, <1>4 DEF r, Positions

(***************************************************************************)
(* MoveToBack loses no contact, the moved one included.                    *)
(***************************************************************************)
LEMMA MoveToBackKeepsAll ==
  ASSUME NEW i, NEW b, GoodBucket(b, i), NEW x, contains(b, x), NEW time \in Nat,
         NEW id, contains(b, id)
  PROVE  contains(MoveToBack(b, x, time), id)
<1> DEFINE p == position(b.nodes, x)
           s == update_last_seen(b.nodes[p], time)
           new == Append(RemoveAt(b.nodes, p), s)
<1>1. /\ b.nodes \in Seq(Kept(i))
      /\ b = [prefix_len |-> i, nodes |-> b.nodes,
              replacement_cache |-> b.replacement_cache]
  BY DEF GoodBucket
<1>2. p \in 1 .. Len(b.nodes) /\ b.nodes[p].id = x
  BY <1>1, PositionProperties DEF contains
<1>3. MoveToBack(b, x, time).nodes = new
  BY <1>1 DEF MoveToBack
<1>4. s \in Kept(i) /\ s.id = x
  <2>1. b.nodes[p] \in Kept(i)
    BY <1>1, <1>2
  <2> QED
    BY <1>2, <2>1, SeenIsKept DEF Kept
<1>5. PICK q \in 1 .. Len(b.nodes) : b.nodes[q].id = id
  BY <1>1 DEF contains, Positions
<1> HIDE DEF p, s
<1>6. CASE q # p
  BY <1>1, <1>2, <1>3, <1>4, <1>5, <1>6, OthersStay DEF contains
<1>7. CASE q = p
  <2>1. RemoveAt(b.nodes, p) \in Seq(Kept(i)) /\ Len(RemoveAt(b.nodes, p)) = Len(b.nodes) - 1
    BY <1>1, <1>2, RemoveAtProperties
  <2>2. Len(b.nodes) \in DOMAIN new /\ new[Len(b.nodes)] = s
    BY <1>1, <1>2, <1>4, <2>1, AppendProperties
  <2> QED
    BY <1>2, <1>3, <1>4, <1>5, <1>7, <2>2 DEF contains, Positions
<1> QED
  BY <1>6, <1>7

(***************************************************************************)
(* KBucket::update drops a contact only from the front of the queue, only  *)
(* when it has been silent for longer than NODE_TIMEOUT, and only for the  *)
(* newcomer.                                                               *)
(***************************************************************************)
LEMMA UpdateDropsOnlySilent ==
  ASSUME NEW i, NEW b, GoodBucket(b, i), NEW node \in Residents(i), NEW time \in Nat,
         node.response_stats = DefaultStats,
         NEW id, contains(b, id),
         ~contains(bucket_update(local_node_id, b, node, time).bucket, id)
  PROVE  /\ b.nodes[1].id = id
         /\ time > b.nodes[1].last_seen + NODE_TIMEOUT
         /\ contains(bucket_update(local_node_id, b, node, time).bucket, node.id)
<1> DEFINE seen == update_last_seen(node, time)
<1>1. seen \in Kept(i) /\ seen.id = node.id
  BY SeenIsKept
<1>2. /\ b = [prefix_len |-> i, nodes |-> b.nodes,
              replacement_cache |-> b.replacement_cache]
      /\ b.nodes \in Seq(Kept(i))
      /\ Unreliable(b) = {}
  BY KeptAreReliable DEF GoodBucket
<1>3. PICK q \in 1 .. Len(b.nodes) : b.nodes[q].id = id
  BY <1>2 DEF contains, Positions
<1>4. node.id # local_node_id
  BY DEF bucket_update, Done
<1>5. ~contains(b, node.id)
  <2> SUFFICES ASSUME contains(b, node.id) PROVE FALSE
    OBVIOUS
  <2>1. bucket_update(local_node_id, b, node, time).bucket = MoveToBack(b, node.id, time)
    BY <1>4, KnownContactMovesBack
  <2> QED
    BY <2>1, MoveToBackKeepsAll
<1>6. is_full(b)
  <2> SUFFICES ASSUME ~is_full(b) PROVE FALSE
    OBVIOUS
  <2>1. bucket_update(local_node_id, b, node, time).bucket
          = [b EXCEPT !.nodes = Append(b.nodes, seen)]
    BY <1>4, <1>5 DEF bucket_update, Done
  <2>2. bucket_update(local_node_id, b, node, time).bucket.nodes = Append(b.nodes, seen)
    BY <1>2, <2>1
  <2>3. q \in DOMAIN Append(b.nodes, seen) /\ Append(b.nodes, seen)[q] = b.nodes[q]
    BY <1>1, <1>2, AppendProperties
  <2> QED
    BY <1>3, <2>2, <2>3 DEF contains, Positions
<1>7. ~is_active(b.nodes[1], time, NODE_TIMEOUT)
  <2> SUFFICES ASSUME is_active(b.nodes[1], time, NODE_TIMEOUT) PROVE FALSE
    OBVIOUS
  <2>1. bucket_update(local_node_id, b, node, time).bucket = AddToCache(b, node, time)
    BY <1>2, <1>4, <1>5, <1>6 DEF bucket_update, Done
  <2>2. AddToCache(b, node, time).nodes = b.nodes
    BY <1>2 DEF AddToCache
  <2> QED
    BY <2>1, <2>2 DEF contains
<1>8. bucket_update(local_node_id, b, node, time).bucket.nodes
        = Append(RemoveAt(b.nodes, 1), seen)
  <2>1. bucket_update(local_node_id, b, node, time).bucket = ReplaceNode(b, 1, node, time)
    BY <1>2, <1>4, <1>5, <1>6, <1>7 DEF bucket_update, Done
  <2> QED
    BY <1>2, <2>1 DEF ReplaceNode
<1> HIDE DEF seen
<1>9. q = 1
  <2> SUFFICES ASSUME q # 1 PROVE FALSE
    OBVIOUS
  <2>1. 1 \in 1 .. Len(b.nodes)
    BY <1>2
  <2> QED
    BY <1>1, <1>2, <1>3, <1>8, <2>1, OthersStay DEF contains
<1>10. time > b.nodes[1].last_seen + NODE_TIMEOUT
  <2>1. b.nodes[1].last_seen \in Nat
    BY <1>2, <1>9 DEF Kept
  <2> QED
    BY <1>7, <2>1, NodeTimeoutAssumption DEF is_active, Never
<1>11. contains(bucket_update(local_node_id, b, node, time).bucket, node.id)
  <2>1. RemoveAt(b.nodes, 1) \in Seq(Kept(i)) /\ Len(RemoveAt(b.nodes, 1)) = Len(b.nodes) - 1
    BY <1>2, <1>9, RemoveAtProperties
  <2>2. /\ Len(b.nodes) \in DOMAIN Append(RemoveAt(b.nodes, 1), seen)
        /\ Append(RemoveAt(b.nodes, 1), seen)[Len(b.nodes)] = seen
    BY <1>1, <1>2, <2>1, AppendProperties
  <2> QED
    BY <1>1, <1>8, <2>2 DEF contains, Positions
<1> QED
  BY <1>3, <1>9, <1>10, <1>11

(***************************************************************************)
(* KBucket::remove drops nobody but the contact it is given.               *)
(***************************************************************************)
LEMMA RemoveDropsOnlyItsContact ==
  ASSUME NEW i, NEW b, GoodBucket(b, i), NEW x, NEW time \in Nat,
         NEW id, contains(b, id), id # x
  PROVE  contains(bucket_remove(b, x, time), id)
<1>1. CASE ~contains(b, x)
  BY <1>1 DEF bucket_remove
<1>2. CASE contains(b, x)
  <2> DEFINE cache == b.replacement_cache
             p == position(b.nodes, x)
             rest == RemoveAt(b.nodes, p)
  <2>1. /\ b = [prefix_len |-> i, nodes |-> b.nodes, replacement_cache |-> cache]
        /\ b.nodes \in Seq(Kept(i)) /\ cache \in Seq(Kept(i))
    BY DEF GoodBucket
  <2>2. p \in 1 .. Len(b.nodes) /\ b.nodes[p].id = x
    BY <1>2, <2>1, PositionProperties DEF contains
  <2>3. PICK q \in 1 .. Len(b.nodes) : b.nodes[q].id = id
    BY <2>1 DEF contains, Positions
  <2>4. q # p
    BY <2>2, <2>3
  <2>5. bucket_remove(b, x, time)
          = PromoteFromCache([prefix_len |-> i, nodes |-> rest,
                              replacement_cache |-> cache], time)
    BY <1>2, <2>1 DEF bucket_remove
  <2> HIDE DEF p
  <2>6. CASE cache = <<>>
    <3>1. bucket_remove(b, x, time).nodes = rest
      BY <2>5, <2>6 DEF PromoteFromCache
    <3>2. b.nodes[q] \in Kept(i)
      BY <2>1
    <3> QED
      BY <2>1, <2>2, <2>3, <2>4, <3>1, <3>2, OthersStay DEF contains
  <2>7. CASE cache # <<>>
    <3> DEFINE s == update_last_seen(cache[1], time)
    <3>1. bucket_remove(b, x, time).nodes = Append(rest, s)
      BY <2>5, <2>7 DEF PromoteFromCache
    <3>2. s \in Kept(i)
      <4>1. cache[1] \in Kept(i)
        BY <2>1, <2>7
      <4> QED
        BY <4>1, SeenIsKept DEF Kept
    <3> HIDE DEF s
    <3> QED
      BY <2>1, <2>2, <2>3, <2>4, <3>1, <3>2, OthersStay DEF contains
  <2> QED
    BY <2>6, <2>7
<1> QED
  BY <1>1, <1>2

(***************************************************************************)
(* Replacing the bucket at one index drops a contact from that one only.   *)
(***************************************************************************)
LEMMA PutDrops ==
  ASSUME NEW t, NEW i, NEW id, ListedAt(t, i, id), NEW j, NEW b,
         ~ListedAt(Put(t, j, b), i, id)
  PROVE  j = i /\ ~contains(b, id)
BY DEF Put, ListedAt

(***************************************************************************)
(* An update of the table drops only a silent front, for the newcomer.     *)
(***************************************************************************)
LEMMA TableUpdateDropsOnlySilent ==
  ASSUME NEW t, GoodTable(t), NEW time \in Nat, NEW new \in Peers, NEW i, NEW id,
         ListedAt(t, i, id),
         ~ListedAt(table_update(local_node_id, t, NewContact(new), time).table, i, id)
  PROVE  /\ t[i].nodes[1].id = id
         /\ time > t[i].nodes[1].last_seen + NODE_TIMEOUT
         /\ ListedAt(table_update(local_node_id, t, NewContact(new), time).table, i, new)
<1> DEFINE node == NewContact(new)
           j == bucket_index(local_node_id, new)
           b == get_or_create_bucket(t, j)
           u == bucket_update(local_node_id, b, node, time).bucket
<1>1. node \in Contacts /\ node.id = new /\ node.response_stats = DefaultStats
  BY PeersAssumption, NewContactType
<1>2. ~ListedAt(table_update(local_node_id, t, node, time).table, i, id)
  OBVIOUS
<1> HIDE DEF node
<1>3. new # local_node_id
  BY <1>1, <1>2 DEF table_update
<1>4. /\ node \in Residents(j) /\ GoodBucket(b, j)
      /\ table_update(local_node_id, t, node, time).table = Put(t, j, u)
  BY <1>1, <1>3, TableUpdateIsOnePass
<1>5. j = i /\ ~contains(u, id)
  <2> HIDE DEF j, u
  <2> QED BY <1>2, <1>4, PutDrops
<1>6. i \in DOMAIN t /\ b = t[i] /\ contains(t[i], id)
  BY <1>5 DEF get_or_create_bucket, ListedAt
<1> HIDE DEF j, b
<1>7. /\ b.nodes[1].id = id
      /\ time > b.nodes[1].last_seen + NODE_TIMEOUT
      /\ contains(u, new)
  BY <1>1, <1>4, <1>5, <1>6, UpdateDropsOnlySilent
<1>8. ListedAt(table_update(local_node_id, t, node, time).table, i, new)
  <2> HIDE DEF u
  <2> QED BY <1>4, <1>5, <1>7 DEF ListedAt, Put
<1> QED
  BY <1>6, <1>7, <1>8 DEF node

(***************************************************************************)
(* node_seen, record_success and record_failure drop nobody.               *)
(***************************************************************************)
LEMMA TableTouchDropsNobody ==
  ASSUME NEW t, GoodTable(t), NEW time \in Nat, NEW ms, NEW x \in Peers, NEW i, NEW id,
         ListedAt(t, i, id)
  PROVE  /\ ListedAt(table_node_seen(local_node_id, t, x, time), i, id)
         /\ ListedAt(table_record_success(local_node_id, t, x, ms, time), i, id)
         /\ ListedAt(table_record_failure(local_node_id, t, x, time), i, id)
<1>1. x \in NodeIds
  BY PeersAssumption
<1> SUFFICES ListedAt(table_node_seen(local_node_id, t, x, time), i, id)
  BY <1>1, RecordingOnlyRefreshes
<1>2. CASE ~table_contains(local_node_id, t, x)
  BY <1>2 DEF table_node_seen, update_clone
<1>3. CASE table_contains(local_node_id, t, x)
  <2> DEFINE j == bucket_index(local_node_id, x)
  <2>1. /\ j \in DOMAIN t /\ contains(t[j], x)
        /\ table_node_seen(local_node_id, t, x, time) = Put(t, j, MoveToBack(t[j], x, time))
    BY <1>1, <1>3, TouchMovesBack
  <2>2. GoodBucket(t[j], j)
    BY <2>1 DEF GoodTable
  <2> HIDE DEF j
  <2>3. j = i => contains(MoveToBack(t[j], x, time), id)
    BY <2>1, <2>2, MoveToBackKeepsAll DEF ListedAt
  <2> QED
    BY <2>1, <2>3, PutDrops
<1> QED
  BY <1>2, <1>3

(***************************************************************************)
(* remove drops nobody but the contact it names.                           *)
(***************************************************************************)
LEMMA TableRemoveDropsOnlyItsContact ==
  ASSUME NEW t, GoodTable(t), NEW time \in Nat, NEW x, NEW i, NEW id,
         ListedAt(t, i, id), ~ListedAt(table_remove(local_node_id, t, x, time), i, id)
  PROVE  id = x
<1> DEFINE j == bucket_index(local_node_id, x)
<1>1. /\ j \in DOMAIN t
      /\ table_remove(local_node_id, t, x, time) = Put(t, j, bucket_remove(t[j], x, time))
  BY DEF table_remove
<1>2. GoodBucket(t[j], j)
  BY <1>1 DEF GoodTable
<1> HIDE DEF j
<1>3. j = i /\ ~contains(bucket_remove(t[j], x, time), id)
  BY <1>1, PutDrops
<1> QED
  BY <1>2, <1>3, RemoveDropsOnlyItsContact DEF ListedAt

\* The body of EvictsByPriority for one bucket and one contact.
EvictionIsJustified(i, id) ==
  \/ RemoveNode(id)
  \/ /\ \E new \in Peers : Update(new) /\ ListedAt(buckets', i, new)
     /\ \/ \E p \in Unreliable(buckets[i]) : buckets[i].nodes[p].id = id
        \/ /\ Unreliable(buckets[i]) = {}
           /\ buckets[i].nodes[1].id = id
           /\ now > buckets[i].nodes[1].last_seen + NODE_TIMEOUT

(***************************************************************************)
(* Every step that drops a contact from a bucket is justified.             *)
(***************************************************************************)
LEMMA StepEvictsByPriority ==
  ASSUME IInv, Next, NEW i \in DOMAIN buckets, NEW id \in Peers,
         ListedAt(buckets, i, id), ~ListedAt(buckets', i, id)
  PROVE  EvictionIsJustified(i, id)
<1>1. GoodTable(buckets) /\ now \in Nat
  BY MaxTimeAssumption DEF IInv
<1>2. ASSUME NEW new \in Peers, Update(new)
      PROVE  EvictionIsJustified(i, id)
  <2>1. buckets' = table_update(local_node_id, buckets, NewContact(new), now).table
    BY <1>2 DEF Update
  <2>2. /\ buckets[i].nodes[1].id = id
        /\ now > buckets[i].nodes[1].last_seen + NODE_TIMEOUT
        /\ ListedAt(buckets', i, new)
    BY <1>1, <2>1, TableUpdateDropsOnlySilent
  <2>3. Unreliable(buckets[i]) = {}
    BY <1>1, KeptAreReliable DEF GoodTable, GoodBucket
  <2> QED
    BY <1>2, <2>2, <2>3 DEF EvictionIsJustified
<1>3. ASSUME NEW x \in Peers, NEW ms,
             \/ buckets' = table_node_seen(local_node_id, buckets, x, now)
             \/ buckets' = table_record_success(local_node_id, buckets, x, ms, now)
             \/ buckets' = table_record_failure(local_node_id, buckets, x, now)
      PROVE  FALSE
  BY <1>1, <1>3, TableTouchDropsNobody
<1>4. ASSUME NEW x \in Peers, RemoveNode(x)
      PROVE  EvictionIsJustified(i, id)
  <2>1. id = x
    BY <1>1, <1>4, TableRemoveDropsOnlyItsContact DEF RemoveNode
  <2> QED
    BY <1>4, <2>1 DEF EvictionIsJustified
<1>5. CASE Clock
  BY <1>5 DEF Clock
<1> QED
  BY <1>2, <1>3, <1>4, <1>5 DEF Next, NodeSeen, RecordSuccess, RecordFailure

(***************************************************************************)
(* A contact leaves its bucket only when it is removed by name, as an      *)
(* unreliable one, or as the least recently seen one after a silence       *)
(* longer than NODE_TIMEOUT if no contact is unreliable: for every bucket  *)
(* size, timeout and set of peers, and also when the clock is set back.    *)
(***************************************************************************)
THEOREM EvictionsCorrect == Spec => EvictsByPriority
<1> DEFINE Justified ==
      \A i \in DOMAIN buckets : \A id \in Peers :
        ListedAt(buckets, i, id) /\ ~ListedAt(buckets', i, id) =>
          \/ RemoveNode(id)
          \/ /\ \E new \in Peers : Update(new) /\ ListedAt(buckets', i, new)
             /\ \/ \E p \in Unreliable(buckets[i]) : buckets[i].nodes[p].id = id
                \/ /\ Unreliable(buckets[i]) = {}
                   /\ buckets[i].nodes[1].id = id
                   /\ now > buckets[i].nodes[1].last_seen + NODE_TIMEOUT
<1>1. IInv /\ [Next]_vars => [Justified]_vars
  <2> SUFFICES ASSUME IInv, Next
               PROVE  Justified
    OBVIOUS
  <2> QED
    BY StepEvictsByPriority DEF EvictionIsJustified
<1> QED
  BY <1>1, TableIsGood, PTL DEF Spec, EvictsByPriority

-----------------------------------------------------------------------------
(* The order of the queue and of the cache.                                *)

\* What an operation at "time" may make of the queue s: it keeps it, or takes at
\* most one contact out and appends at most one that is seen at "time".
QueueStep(s, r, time, i) ==
  \/ r = s
  \/ \E p \in 1 .. Len(s) : r = RemoveAt(s, p)
  \/ \E x \in Kept(i) :
       /\ x.last_seen = time
       /\ r = Append(s, x) \/ \E p \in 1 .. Len(s) : r = Append(RemoveAt(s, p), x)

\* What it may make of the cache s: its front leaves, or a contact joins at the
\* back after the search for its identifier.
CacheStep(s, r, time, i) ==
  \/ r = s
  \/ s # <<>> /\ r = Tail(s)
  \/ \E x \in Kept(i) :
       /\ x.last_seen = time
       /\ r = IF Positions(s, x.id) = {}
                THEN Append(s, x)
                ELSE Append(RemoveAt(s, position(s, x.id)), x)

\* Whose entry an operation may add to the queue s, or to the cache c: that of a
\* contact it takes out, of one that is not listed, or of the front of the cache,
\* which leaves the cache.
EntryStep(s, c, r, d) ==
  \/ d = c /\ (r = s \/ \E p \in 1 .. Len(s) : r = RemoveAt(s, p))
  \/ \E x : /\ d = c
            /\ \E p \in 1 .. Len(s) : x.id = s[p].id /\ r = Append(RemoveAt(s, p), x)
  \/ \E x : /\ d = c /\ Positions(s, x.id) = {}
            /\ r = Append(s, x) \/ \E p \in 1 .. Len(s) : r = Append(RemoveAt(s, p), x)
  \/ \E x : /\ r = s /\ Positions(s, x.id) = {}
            /\ d = IF Positions(c, x.id) = {}
                     THEN Append(c, x)
                     ELSE Append(RemoveAt(c, position(c, x.id)), x)
  \/ \E x : /\ c # <<>> /\ x.id = c[1].id /\ d = Tail(c)
            /\ \E p \in 1 .. Len(s) : r = Append(RemoveAt(s, p), x)

BucketStep(b, u, time, i) ==
  /\ QueueStep(b.nodes, u.nodes, time, i)
  /\ CacheStep(b.replacement_cache, u.replacement_cache, time, i)
  /\ EntryStep(b.nodes, b.replacement_cache, u.nodes, u.replacement_cache)

(***************************************************************************)
(* update_last_seen stamps the contact with the time.                      *)
(***************************************************************************)
LEMMA SeenAtTime ==
  ASSUME NEW node \in Contacts, NEW time
  PROVE  update_last_seen(node, time).last_seen = time
BY DEF update_last_seen, Contacts

(***************************************************************************)
(* MoveToBack as a step of the queue.                                      *)
(***************************************************************************)
LEMMA MoveToBackStep ==
  ASSUME NEW i, NEW b, GoodBucket(b, i), NEW id, contains(b, id), NEW time \in Nat
  PROVE  BucketStep(b, MoveToBack(b, id, time), time, i)
<1> DEFINE p == position(b.nodes, id)
           x == update_last_seen(b.nodes[p], time)
<1>1. /\ b.nodes \in Seq(Kept(i))
      /\ b = [prefix_len |-> i, nodes |-> b.nodes,
              replacement_cache |-> b.replacement_cache]
  BY DEF GoodBucket
<1>2. p \in 1 .. Len(b.nodes)
  BY <1>1, PositionProperties DEF contains
<1>3. b.nodes[p] \in Kept(i)
  BY <1>1, <1>2
<1>4. x \in Kept(i) /\ x.last_seen = time /\ x.id = b.nodes[p].id
  BY <1>3, SeenIsKept, SeenAtTime DEF Kept, Residents
<1>5. /\ MoveToBack(b, id, time).nodes = Append(RemoveAt(b.nodes, p), x)
      /\ MoveToBack(b, id, time).replacement_cache = b.replacement_cache
  BY <1>1 DEF MoveToBack
<1> HIDE DEF p, x
<1> QED
  BY <1>2, <1>4, <1>5 DEF BucketStep, QueueStep, CacheStep, EntryStep

(***************************************************************************)
(* Every branch of KBucket::update is a step of the queue and the cache.   *)
(***************************************************************************)
LEMMA BucketUpdateStep ==
  ASSUME NEW i, NEW b, GoodBucket(b, i), NEW node \in Residents(i), NEW time \in Nat,
         node.response_stats = DefaultStats
  PROVE  BucketStep(b, bucket_update(local_node_id, b, node, time).bucket, time, i)
<1> DEFINE x == update_last_seen(node, time)
           u == bucket_update(local_node_id, b, node, time).bucket
<1>1. x \in Kept(i) /\ x.id = node.id /\ x.last_seen = time
  BY SeenIsKept, SeenAtTime DEF Residents
<1>2. /\ b = [prefix_len |-> i, nodes |-> b.nodes,
              replacement_cache |-> b.replacement_cache]
      /\ b.nodes \in Seq(Kept(i)) /\ b.replacement_cache \in Seq(Kept(i))
      /\ Unreliable(b) = {}
  BY KeptAreReliable DEF GoodBucket
<1>3. CASE node.id = local_node_id
  <2>1. u = b
    BY <1>3 DEF bucket_update, Done
  <2> QED
    BY <2>1 DEF BucketStep, QueueStep, CacheStep, EntryStep
<1>4. CASE node.id # local_node_id /\ contains(b, node.id)
  BY <1>4, KnownContactMovesBack, MoveToBackStep
<1>5. CASE node.id # local_node_id /\ ~contains(b, node.id) /\ ~is_full(b)
  <2>1. u = [b EXCEPT !.nodes = Append(b.nodes, x)]
    BY <1>5 DEF bucket_update, Done
  <2>2. u.nodes = Append(b.nodes, x) /\ u.replacement_cache = b.replacement_cache
    BY <1>2, <2>1
  <2> HIDE DEF x, u
  <2>3. Positions(b.nodes, x.id) = {}
    BY <1>1, <1>5 DEF contains
  <2>9. BucketStep(b, u, time, i)
    BY <1>1, <2>2, <2>3 DEF BucketStep, QueueStep, CacheStep, EntryStep
  <2> QED
    BY <2>9 DEF u
<1>6. CASE /\ node.id # local_node_id /\ ~contains(b, node.id) /\ is_full(b)
           /\ ~is_active(b.nodes[1], time, NODE_TIMEOUT)
  <2>1. u = ReplaceNode(b, 1, node, time)
    BY <1>2, <1>6 DEF bucket_update, Done
  <2>2. u.nodes = Append(RemoveAt(b.nodes, 1), x) /\ u.replacement_cache = b.replacement_cache
    BY <1>2, <2>1 DEF ReplaceNode
  <2>3. 1 \in 1 .. Len(b.nodes)
    BY <1>2, <1>6, KAssumption DEF is_full
  <2> HIDE DEF x, u
  <2>4. QueueStep(b.nodes, u.nodes, time, i)
    BY <1>1, <2>2, <2>3 DEF QueueStep
  <2>5. Positions(b.nodes, x.id) = {}
    BY <1>1, <1>6 DEF contains
  <2>9. BucketStep(b, u, time, i)
    BY <2>2, <2>3, <2>4, <2>5 DEF BucketStep, CacheStep, EntryStep
  <2> QED
    BY <2>9 DEF u
<1>7. CASE /\ node.id # local_node_id /\ ~contains(b, node.id) /\ is_full(b)
           /\ is_active(b.nodes[1], time, NODE_TIMEOUT)
  <2>1. u = AddToCache(b, node, time)
    BY <1>2, <1>7 DEF bucket_update, Done
  <2> DEFINE cache == b.replacement_cache
  <2>2. /\ u.nodes = b.nodes
        /\ u.replacement_cache = IF Positions(cache, node.id) = {}
                                   THEN Append(cache, x)
                                   ELSE Append(RemoveAt(cache, position(cache, node.id)), x)
    BY <1>2, <2>1 DEF AddToCache
  <2> HIDE DEF x, u, cache
  <2>3. CacheStep(cache, u.replacement_cache, time, i)
    BY <1>1, <2>2 DEF CacheStep
  <2>4. Positions(b.nodes, x.id) = {}
    BY <1>1, <1>7 DEF contains
  <2>5. EntryStep(b.nodes, cache, u.nodes, u.replacement_cache)
    BY <1>1, <2>2, <2>4 DEF EntryStep
  <2>9. BucketStep(b, u, time, i)
    BY <2>2, <2>3, <2>5 DEF BucketStep, QueueStep, cache
  <2> QED
    BY <2>9 DEF u
<1> QED
  BY <1>3, <1>4, <1>5, <1>6, <1>7

(***************************************************************************)
(* KBucket::remove is a step of the queue and the cache.                   *)
(***************************************************************************)
LEMMA BucketRemoveStep ==
  ASSUME NEW i, NEW b, GoodBucket(b, i), NEW id, NEW time \in Nat
  PROVE  BucketStep(b, bucket_remove(b, id, time), time, i)
<1>1. CASE ~contains(b, id)
  BY <1>1 DEF bucket_remove, BucketStep, QueueStep, CacheStep, EntryStep
<1>2. CASE contains(b, id)
  <2> DEFINE cache == b.replacement_cache
             p == position(b.nodes, id)
             rest == RemoveAt(b.nodes, p)
             x == update_last_seen(cache[1], time)
             u == bucket_remove(b, id, time)
  <2>1. /\ b = [prefix_len |-> i, nodes |-> b.nodes, replacement_cache |-> cache]
        /\ b.nodes \in Seq(Kept(i)) /\ cache \in Seq(Kept(i))
    BY DEF GoodBucket
  <2>2. p \in 1 .. Len(b.nodes)
    BY <1>2, <2>1, PositionProperties DEF contains
  <2>3. u = PromoteFromCache([prefix_len |-> i, nodes |-> rest,
                              replacement_cache |-> cache], time)
    BY <1>2, <2>1 DEF bucket_remove
  <2>4. CASE cache = <<>>
    <3>1. u.nodes = rest /\ u.replacement_cache = cache
      BY <2>3, <2>4 DEF PromoteFromCache
    <3> HIDE DEF p, u
    <3>9. BucketStep(b, u, time, i)
      BY <2>2, <3>1 DEF BucketStep, QueueStep, CacheStep, EntryStep
    <3> QED
      BY <3>9 DEF u
  <2>5. CASE cache # <<>>
    <3>1. u.nodes = Append(rest, x) /\ u.replacement_cache = Tail(cache)
      BY <2>3, <2>5 DEF PromoteFromCache
    <3>2. cache[1] \in Kept(i)
      BY <2>1, <2>5
    <3>3. x \in Kept(i) /\ x.last_seen = time /\ x.id = cache[1].id
      BY <3>2, SeenIsKept, SeenAtTime DEF Kept, Residents
    <3> HIDE DEF p, u, x
    <3>9. BucketStep(b, u, time, i)
      BY <2>2, <2>5, <3>1, <3>3 DEF BucketStep, QueueStep, CacheStep, EntryStep
    <3> QED
      BY <3>9 DEF u
  <2> QED
    BY <2>4, <2>5
<1> QED
  BY <1>1, <1>2

(***************************************************************************)
(* Every step of the table leaves it alone or, at an unchanged clock,      *)
(* performs one operation on one bucket, new or old.                       *)
(***************************************************************************)
LEMMA StepTouchesOneBucket ==
  ASSUME IInv, [Next]_vars
  PROVE  \/ buckets' = buckets
         \/ /\ now' = now
            /\ \E i \in Position : \E u :
                 /\ buckets' = Put(buckets, i, u)
                 /\ GoodBucket(get_or_create_bucket(buckets, i), i)
                 /\ BucketStep(get_or_create_bucket(buckets, i), u, now, i)
<1> DEFINE OneBucket ==
      \/ buckets' = buckets
      \/ /\ now' = now
         /\ \E i \in Position : \E u :
              /\ buckets' = Put(buckets, i, u)
              /\ GoodBucket(get_or_create_bucket(buckets, i), i)
              /\ BucketStep(get_or_create_bucket(buckets, i), u, now, i)
<1>1. GoodTable(buckets) /\ now \in Nat
  BY MaxTimeAssumption DEF IInv
<1>2. ASSUME NEW id \in Peers, Update(id)
      PROVE  OneBucket
  <2> DEFINE node == NewContact(id)
             i == bucket_index(local_node_id, id)
             b == get_or_create_bucket(buckets, i)
             u == bucket_update(local_node_id, b, node, now).bucket
  <2>1. node \in Contacts /\ node.id = id /\ node.response_stats = DefaultStats
    BY PeersAssumption, NewContactType
  <2>2. buckets' = table_update(local_node_id, buckets, node, now).table /\ now' = now
    BY <1>2 DEF Update
  <2> HIDE DEF node
  <2>3. CASE id = local_node_id
    BY <2>1, <2>2, <2>3 DEF table_update
  <2>4. CASE id # local_node_id
    <3>1. /\ i \in Position /\ node \in Residents(i) /\ GoodBucket(b, i)
          /\ buckets' = Put(buckets, i, u)
      BY <1>1, <2>1, <2>2, <2>4, TableUpdateIsOnePass
    <3>2. BucketStep(b, u, now, i)
      BY <1>1, <2>1, <3>1, BucketUpdateStep
    <3> HIDE DEF i, u
    <3> QED
      BY <2>2, <3>1, <3>2
  <2> QED
    BY <2>3, <2>4
<1>3. ASSUME NEW id \in Peers, NEW ms, now' = now,
             \/ buckets' = table_node_seen(local_node_id, buckets, id, now)
             \/ buckets' = table_record_success(local_node_id, buckets, id, ms, now)
             \/ buckets' = table_record_failure(local_node_id, buckets, id, now)
      PROVE  OneBucket
  <2> DEFINE i == bucket_index(local_node_id, id)
             u == MoveToBack(buckets[i], id, now)
  <2>1. id \in NodeIds
    BY PeersAssumption
  <2>2. buckets' = table_node_seen(local_node_id, buckets, id, now)
    BY <1>1, <1>3, <2>1, RecordingOnlyRefreshes
  <2>3. CASE ~table_contains(local_node_id, buckets, id)
    BY <2>2, <2>3 DEF table_node_seen, update_clone
  <2>4. CASE table_contains(local_node_id, buckets, id)
    <3>1. i \in DOMAIN buckets /\ contains(buckets[i], id) /\ buckets' = Put(buckets, i, u)
      BY <1>1, <2>1, <2>2, <2>4, TouchMovesBack
    <3>2. i \in Position /\ GoodBucket(buckets[i], i)
      BY <1>1, <3>1 DEF GoodTable
    <3>3. get_or_create_bucket(buckets, i) = buckets[i]
      BY <3>1 DEF get_or_create_bucket
    <3>4. BucketStep(buckets[i], u, now, i)
      BY <1>1, <3>1, <3>2, MoveToBackStep
    <3> HIDE DEF i, u
    <3> QED
      BY <1>3, <3>1, <3>2, <3>3, <3>4
  <2> QED
    BY <2>3, <2>4
<1>4. ASSUME NEW id \in Peers, RemoveNode(id)
      PROVE  OneBucket
  <2> DEFINE i == bucket_index(local_node_id, id)
             u == bucket_remove(buckets[i], id, now)
  <2>1. CASE i \notin DOMAIN buckets
    BY <1>4, <2>1 DEF RemoveNode, table_remove
  <2>2. CASE i \in DOMAIN buckets
    <3>1. buckets' = Put(buckets, i, u) /\ now' = now
      BY <1>4, <2>2 DEF RemoveNode, table_remove
    <3>2. i \in Position /\ GoodBucket(buckets[i], i)
      BY <1>1, <2>2 DEF GoodTable
    <3>3. get_or_create_bucket(buckets, i) = buckets[i]
      BY <2>2 DEF get_or_create_bucket
    <3>4. BucketStep(buckets[i], u, now, i)
      BY <1>1, <3>2, BucketRemoveStep
    <3> HIDE DEF i, u
    <3> QED
      BY <3>1, <3>2, <3>3, <3>4
  <2> QED
    BY <2>1, <2>2
<1>5. CASE Clock
  BY <1>5 DEF Clock
<1>6. CASE UNCHANGED vars
  BY <1>6 DEF vars
<1> HIDE DEF OneBucket
<1>7. OneBucket
  BY <1>2, <1>3, <1>4, <1>5, <1>6 DEF Next, NodeSeen, RecordSuccess, RecordFailure, OneBucket
<1> QED
  BY <1>7 DEF OneBucket

\* No identifier occurs twice.
DistinctIds(s) == \A p, q \in DOMAIN s : s[p].id = s[q].id => p = q

(***************************************************************************)
(* Taking one out of distinct contacts leaves distinct contacts, none of   *)
(* them with the identifier taken out.                                     *)
(***************************************************************************)
LEMMA RemovedIsGone ==
  ASSUME NEW S, NEW s \in Seq(S), NEW p \in 1 .. Len(s), DistinctIds(s)
  PROVE  /\ DistinctIds(RemoveAt(s, p))
         /\ \A q \in DOMAIN RemoveAt(s, p) : RemoveAt(s, p)[q].id # s[p].id
<1> DEFINE r == RemoveAt(s, p)
           old(q) == IF q < p THEN q ELSE q + 1
<1>1. /\ r \in Seq(S) /\ Len(r) = Len(s) - 1
      /\ \A k \in 1 .. (Len(s) - 1) : r[k] = IF k < p THEN s[k] ELSE s[k + 1]
  BY RemoveAtProperties
<1> HIDE DEF r
<1>2. \A q \in DOMAIN r : /\ q \in 1 .. (Len(s) - 1) /\ r[q] = s[old(q)]
                          /\ old(q) \in DOMAIN s /\ old(q) # p
  BY <1>1
<1>3. \A q1, q2 \in DOMAIN r : old(q1) = old(q2) => q1 = q2
  BY <1>1
<1>4. DistinctIds(r)
  BY <1>2, <1>3 DEF DistinctIds
<1>5. p \in DOMAIN s
  OBVIOUS
<1>6. \A q \in DOMAIN r : r[q].id # s[p].id
  BY <1>2, <1>5 DEF DistinctIds
<1> QED
  BY <1>4, <1>6 DEF r

(***************************************************************************)
(* A contact with a new identifier may join distinct contacts.             *)
(***************************************************************************)
LEMMA NewIdStaysDistinct ==
  ASSUME NEW S, NEW s \in Seq(S), NEW x \in S, DistinctIds(s),
         \A q \in DOMAIN s : s[q].id # x.id
  PROVE  DistinctIds(Append(s, x))
<1>1. /\ Append(s, x) \in Seq(S) /\ Len(Append(s, x)) = Len(s) + 1
      /\ \A k \in 1 .. Len(s) : Append(s, x)[k] = s[k]
      /\ Append(s, x)[Len(s) + 1] = x
  BY AppendProperties
<1>2. \A q \in DOMAIN Append(s, x) :
        \/ q \in DOMAIN s /\ Append(s, x)[q] = s[q]
        \/ q = Len(s) + 1 /\ Append(s, x)[q] = x
  BY <1>1
<1> QED
  BY <1>2 DEF DistinctIds

(***************************************************************************)
(* The search before the push keeps the cache free of duplicates.          *)
(***************************************************************************)
LEMMA CacheStaysDistinct ==
  ASSUME NEW i, NEW s \in Seq(Kept(i)), NEW r, NEW time, CacheStep(s, r, time, i),
         DistinctIds(s)
  PROVE  DistinctIds(r)
<1>1. CASE r = s
  BY <1>1
<1>2. CASE s # <<>> /\ r = Tail(s)
  <2>1. /\ r \in Seq(Kept(i)) /\ Len(r) = Len(s) - 1
        /\ \A k \in 1 .. Len(r) : r[k] = s[k + 1]
    BY <1>2, HeadTailProperties
  <2>2. \A q \in DOMAIN r : q \in Nat /\ q + 1 \in DOMAIN s /\ r[q] = s[q + 1]
    BY <2>1
  <2>3. \A p, q \in DOMAIN r : p + 1 = q + 1 => p = q
    BY <2>1
  <2> QED
    BY <2>2, <2>3 DEF DistinctIds
<1>3. ASSUME NEW x \in Kept(i),
             r = IF Positions(s, x.id) = {}
                   THEN Append(s, x)
                   ELSE Append(RemoveAt(s, position(s, x.id)), x)
      PROVE  DistinctIds(r)
  <2>1. CASE Positions(s, x.id) = {}
    <3>1. \A q \in DOMAIN s : s[q].id # x.id
      BY <2>1 DEF Positions
    <3> QED
      BY <1>3, <2>1, <3>1, NewIdStaysDistinct
  <2>2. CASE Positions(s, x.id) # {}
    <3> DEFINE p == position(s, x.id)
    <3>1. p \in 1 .. Len(s) /\ s[p].id = x.id
      BY <2>2, PositionProperties
    <3> HIDE DEF p
    <3>2. RemoveAt(s, p) \in Seq(Kept(i))
      BY <3>1, RemoveAtProperties
    <3>3. /\ DistinctIds(RemoveAt(s, p))
          /\ \A q \in DOMAIN RemoveAt(s, p) : RemoveAt(s, p)[q].id # x.id
      BY <3>1, RemovedIsGone
    <3> QED
      BY <1>3, <2>2, <3>2, <3>3, NewIdStaysDistinct DEF p
  <2> QED
    BY <2>1, <2>2
<1> QED
  BY <1>1, <1>2, <1>3 DEF CacheStep

(***************************************************************************)
(* A bucket that was just created has nobody in its queue and its cache.   *)
(***************************************************************************)
LEMMA BucketOrNew ==
  ASSUME NEW t, NEW i
  PROVE  \/ i \in DOMAIN t /\ get_or_create_bucket(t, i) = t[i]
         \/ /\ get_or_create_bucket(t, i).nodes = <<>>
            /\ get_or_create_bucket(t, i).replacement_cache = <<>>
BY DEF get_or_create_bucket, new_bucket

(***************************************************************************)
(* No contact waits twice in a replacement cache, for every bucket size,   *)
(* timeout and set of peers.                                               *)
(***************************************************************************)
THEOREM WaitsOnceCorrect == Spec => []WaitsOnce
<1>1. WaitsOnce <=> \A i \in DOMAIN buckets : DistinctIds(buckets[i].replacement_cache)
  BY DEF WaitsOnce, DistinctIds
<1>2. Init => WaitsOnce
  BY DEF Init, WaitsOnce
<1>3. IInv /\ WaitsOnce /\ [Next]_vars => WaitsOnce'
  <2> SUFFICES ASSUME IInv, WaitsOnce, [Next]_vars
               PROVE  WaitsOnce'
    OBVIOUS
  <2>1. CASE buckets' = buckets
    BY <2>1 DEF WaitsOnce
  <2>2. ASSUME NEW i \in Position, NEW u,
               buckets' = Put(buckets, i, u),
               GoodBucket(get_or_create_bucket(buckets, i), i),
               BucketStep(get_or_create_bucket(buckets, i), u, now, i)
        PROVE  WaitsOnce'
    <3> DEFINE cache == get_or_create_bucket(buckets, i).replacement_cache
    <3>1. cache \in Seq(Kept(i)) /\ CacheStep(cache, u.replacement_cache, now, i)
      BY <2>2 DEF GoodBucket, BucketStep
    <3>2. DistinctIds(cache)
      BY <1>1, BucketOrNew DEF DistinctIds
    <3> HIDE DEF cache
    <3>3. DistinctIds(u.replacement_cache)
      BY <3>1, <3>2, CacheStaysDistinct
    <3>4. \A j \in DOMAIN buckets' : \/ j = i /\ buckets'[j] = u
                                     \/ j \in DOMAIN buckets /\ buckets'[j] = buckets[j]
      BY <2>2 DEF Put
    <3>5. \A j \in DOMAIN buckets' : DistinctIds(buckets'[j].replacement_cache)
      BY <1>1, <3>3, <3>4
    <3> QED
      BY <3>5 DEF WaitsOnce, DistinctIds
  <2> QED
    BY <2>1, <2>2, StepTouchesOneBucket
<1> QED
  BY <1>2, <1>3, TableIsGood, PTL DEF Spec

\* No identifier occurs three times in the queue s, nor twice and in the cache c.
TwiceAtMost(s, c) ==
  \A p, q \in DOMAIN s : p # q /\ s[p].id = s[q].id =>
    /\ \A r \in DOMAIN s : s[r].id = s[p].id => r = p \/ r = q
    /\ \A r \in DOMAIN c : c[r].id # s[p].id

(***************************************************************************)
(* A queue whose entries come from different places of another one, beside *)
(* a cache that waits for nobody new.                                      *)
(***************************************************************************)
LEMMA TwiceAmongOld ==
  ASSUME NEW s, NEW c, NEW r, NEW d, NEW old \in [DOMAIN r -> DOMAIN s], TwiceAtMost(s, c),
         \A p, q \in DOMAIN r : old[p] = old[q] => p = q,
         \A p \in DOMAIN r : r[p].id = s[old[p]].id,
         \A p \in DOMAIN d : \E q \in DOMAIN c : d[p].id = c[q].id
  PROVE  TwiceAtMost(r, d)
<1> SUFFICES ASSUME NEW p \in DOMAIN r, NEW q \in DOMAIN r, p # q, r[p].id = r[q].id
             PROVE  /\ \A k \in DOMAIN r : r[k].id = r[p].id => k = p \/ k = q
                    /\ \A k \in DOMAIN d : d[k].id # r[p].id
  BY DEF TwiceAtMost
<1>1. /\ old[p] \in DOMAIN s /\ old[q] \in DOMAIN s /\ old[p] # old[q]
      /\ s[old[p]].id = s[old[q]].id
  OBVIOUS
<1>2. /\ \A k \in DOMAIN s : s[k].id = s[old[p]].id => k = old[p] \/ k = old[q]
      /\ \A k \in DOMAIN c : c[k].id # s[old[p]].id
  BY <1>1 DEF TwiceAtMost
<1> QED
  BY <1>2

(***************************************************************************)
(* Taking a contact out of the queue.                                      *)
(***************************************************************************)
LEMMA TwiceAfterRemoval ==
  ASSUME NEW S, NEW s \in Seq(S), NEW c, NEW p \in 1 .. Len(s), TwiceAtMost(s, c)
  PROVE  /\ RemoveAt(s, p) \in Seq(S)
         /\ TwiceAtMost(RemoveAt(s, p), c)
         /\ \A q \in DOMAIN RemoveAt(s, p) : \E k \in DOMAIN s : RemoveAt(s, p)[q] = s[k]
<1> DEFINE r == RemoveAt(s, p)
           old == [q \in DOMAIN r |-> IF q < p THEN q ELSE q + 1]
<1>1. /\ r \in Seq(S) /\ Len(r) = Len(s) - 1
      /\ \A k \in 1 .. (Len(s) - 1) : r[k] = IF k < p THEN s[k] ELSE s[k + 1]
  BY RemoveAtProperties
<1> HIDE DEF r
<1>2. /\ \A q \in DOMAIN r : r[q] = s[old[q]] /\ old[q] \in DOMAIN s /\ old[q] # p
      /\ old \in [DOMAIN r -> DOMAIN s]
  BY <1>1
<1>3. \A q1, q2 \in DOMAIN r : old[q1] = old[q2] => q1 = q2
  BY <1>1
<1> HIDE DEF old
<1>4. TwiceAtMost(r, c)
  BY <1>2, <1>3, TwiceAmongOld
<1> QED
  BY <1>1, <1>2, <1>3, <1>4 DEF r

(***************************************************************************)
(* A contact joins the queue that is there at most once and no longer      *)
(* waits, or is there not at all.                                          *)
(***************************************************************************)
LEMMA TwiceAfterAppend ==
  ASSUME NEW S, NEW s \in Seq(S), NEW c, NEW d, NEW x, TwiceAtMost(s, c),
         \A k \in DOMAIN d : \E l \in DOMAIN c : d[k].id = c[l].id,
         \/ \A k \in DOMAIN s : s[k].id # x.id
         \/ /\ \A k, l \in DOMAIN s : s[k].id = x.id /\ s[l].id = x.id => k = l
            /\ \A k \in DOMAIN d : d[k].id # x.id
  PROVE  TwiceAtMost(Append(s, x), d)
<1> DEFINE r == Append(s, x)
           n == Len(s) + 1
<1>1. /\ DOMAIN r = DOMAIN s \cup {n} /\ n \notin DOMAIN s /\ r[n] = x
      /\ \A k \in DOMAIN s : r[k] = s[k]
  OBVIOUS
<1> HIDE DEF r, n
<1> SUFFICES ASSUME NEW p \in DOMAIN r, NEW q \in DOMAIN r, p # q, r[p].id = r[q].id
             PROVE  /\ \A k \in DOMAIN r : r[k].id = r[p].id => k = p \/ k = q
                    /\ \A k \in DOMAIN d : d[k].id # r[p].id
  BY DEF TwiceAtMost, r
<1>2. CASE r[p].id = x.id
  BY <1>1, <1>2
<1>3. CASE r[p].id # x.id
  <2>1. p \in DOMAIN s /\ q \in DOMAIN s /\ s[p].id = s[q].id
    BY <1>1, <1>3
  <2>2. /\ \A k \in DOMAIN s : s[k].id = s[p].id => k = p \/ k = q
        /\ \A k \in DOMAIN c : c[k].id # s[p].id
    BY <2>1 DEF TwiceAtMost
  <2> QED
    BY <1>1, <1>3, <2>1, <2>2
<1> QED
  BY <1>2, <1>3

(***************************************************************************)
(* No operation lists a contact a third time.                              *)
(***************************************************************************)
LEMMA EntryStepKeepsTwice ==
  ASSUME NEW S, NEW s \in Seq(S), NEW c \in Seq(S), NEW r, NEW d, EntryStep(s, c, r, d),
         TwiceAtMost(s, c), DistinctIds(c)
  PROVE  TwiceAtMost(r, d)
<1>1. CASE d = c /\ (r = s \/ \E p \in 1 .. Len(s) : r = RemoveAt(s, p))
  BY <1>1, TwiceAfterRemoval
<1>2. ASSUME NEW x, d = c, NEW p \in 1 .. Len(s), x.id = s[p].id, r = Append(RemoveAt(s, p), x)
      PROVE  TwiceAtMost(r, d)
  <2> DEFINE rest == RemoveAt(s, p)
  <2>1. /\ rest \in Seq(S) /\ Len(rest) = Len(s) - 1
        /\ \A k \in 1 .. (Len(s) - 1) : rest[k] = IF k < p THEN s[k] ELSE s[k + 1]
    BY RemoveAtProperties
  <2> HIDE DEF rest
  <2> DEFINE old == [q \in 1 .. Len(s) |-> IF q = Len(s) THEN p ELSE IF q < p THEN q ELSE q + 1]
  <2>2. /\ DOMAIN r = 1 .. Len(s) /\ r[Len(s)] = x
        /\ \A k \in 1 .. (Len(s) - 1) : r[k] = rest[k]
    BY <1>2, <2>1 DEF rest
  <2>3. /\ old \in [DOMAIN r -> DOMAIN s]
        /\ \A q1, q2 \in DOMAIN r : old[q1] = old[q2] => q1 = q2
    BY <2>2
  <2>4. \A q \in DOMAIN r : r[q].id = s[old[q]].id
    BY <1>2, <2>1, <2>2
  <2> HIDE DEF old
  <2>5. \A k \in DOMAIN d : \E l \in DOMAIN c : d[k].id = c[l].id
    BY <1>2
  <2> QED
    BY <2>3, <2>4, <2>5, TwiceAmongOld
<1>3. ASSUME NEW x, d = c, Positions(s, x.id) = {},
             r = Append(s, x) \/ \E p \in 1 .. Len(s) : r = Append(RemoveAt(s, p), x)
      PROVE  TwiceAtMost(r, d)
  <2>1. \A k \in DOMAIN s : s[k].id # x.id
    BY <1>3 DEF Positions
  <2>2. CASE r = Append(s, x)
    BY <1>3, <2>1, <2>2, TwiceAfterAppend
  <2>3. ASSUME NEW p \in 1 .. Len(s), r = Append(RemoveAt(s, p), x)
        PROVE  TwiceAtMost(r, d)
    <3> DEFINE rest == RemoveAt(s, p)
    <3>1. /\ rest \in Seq(S) /\ TwiceAtMost(rest, c)
          /\ \A q \in DOMAIN rest : \E k \in DOMAIN s : rest[q] = s[k]
      BY TwiceAfterRemoval, ZenonT(60)
    <3>2. r = Append(rest, x)
      BY <2>3
    <3> HIDE DEF rest
    <3>3. \A q \in DOMAIN rest : rest[q].id # x.id
      BY <2>1, <3>1
    <3>4. \A k \in DOMAIN d : \E l \in DOMAIN c : d[k].id = c[l].id
      BY <1>3
    <3> QED
      BY <3>1, <3>2, <3>3, <3>4, TwiceAfterAppend
  <2> QED
    BY <1>3, <2>2, <2>3
<1>4. ASSUME NEW x, r = s, Positions(s, x.id) = {},
             d = IF Positions(c, x.id) = {}
                   THEN Append(c, x)
                   ELSE Append(RemoveAt(c, position(c, x.id)), x)
      PROVE  TwiceAtMost(r, d)
  <2>1. \A k \in DOMAIN s : s[k].id # x.id
    BY <1>4 DEF Positions
  <2>2. \A k \in DOMAIN d : d[k].id = x.id \/ \E l \in DOMAIN c : d[k].id = c[l].id
    <3>1. CASE Positions(c, x.id) = {}
      BY <1>4, <3>1
    <3>2. CASE Positions(c, x.id) # {}
      <4> DEFINE p == position(c, x.id)
                 rest == RemoveAt(c, p)
      <4>1. p \in 1 .. Len(c)
        BY <3>2, PositionProperties
      <4> HIDE DEF p
      <4>2. /\ rest \in Seq(S) /\ Len(rest) = Len(c) - 1
            /\ \A k \in 1 .. (Len(c) - 1) : rest[k] = IF k < p THEN c[k] ELSE c[k + 1]
        BY <4>1, RemoveAtProperties
      <4>3. d = Append(rest, x)
        BY <1>4, <3>2 DEF p
      <4> HIDE DEF rest
      <4>4. \A q \in DOMAIN rest : \E l \in DOMAIN c : rest[q] = c[l]
        BY <4>1, <4>2
      <4> QED
        BY <4>2, <4>3, <4>4
    <3> QED
      BY <3>1, <3>2
  <2> QED
    BY <1>4, <2>1, <2>2 DEF TwiceAtMost
<1>5. ASSUME NEW x, c # <<>>, x.id = c[1].id, d = Tail(c),
             NEW p \in 1 .. Len(s), r = Append(RemoveAt(s, p), x)
      PROVE  TwiceAtMost(r, d)
  <2> DEFINE rest == RemoveAt(s, p)
  <2>1. rest \in Seq(S) /\ TwiceAtMost(rest, c) /\ r = Append(rest, x)
    BY <1>5, TwiceAfterRemoval
  <2> HIDE DEF rest
  <2>2. 1 \in DOMAIN c
    BY <1>5
  <2>3. \A k \in DOMAIN d : k \in Nat /\ k + 1 \in DOMAIN c /\ k + 1 # 1 /\ d[k] = c[k + 1]
    <3>1. d \in Seq(S) /\ Len(d) = Len(c) - 1 /\ \A k \in 1 .. Len(d) : d[k] = c[k + 1]
      BY <1>5, HeadTailProperties
    <3> QED
      BY <3>1
  <2>4. \A k \in DOMAIN d : d[k].id # x.id /\ \E l \in DOMAIN c : d[k].id = c[l].id
    BY <1>5, <2>2, <2>3 DEF DistinctIds
  <2>5. \A k, l \in DOMAIN rest : rest[k].id = x.id /\ rest[l].id = x.id => k = l
    BY <1>5, <2>1, <2>2 DEF TwiceAtMost
  <2> QED
    BY <2>1, <2>4, <2>5, TwiceAfterAppend
<1> QED
  BY <1>1, <1>2, <1>3, <1>4, <1>5 DEF EntryStep

(***************************************************************************)
(* No contact is listed three times, nor twice while it waits, for every   *)
(* bucket size, timeout and set of peers.                                  *)
(***************************************************************************)
THEOREM TwiceAtMostCorrect == Spec => []ListedAtMostTwice
<1> DEFINE Twice == \A i \in DOMAIN buckets :
                      TwiceAtMost(buckets[i].nodes, buckets[i].replacement_cache)
<1>1. Init => Twice
  BY DEF Init
<1>2. IInv /\ WaitsOnce /\ Twice /\ [Next]_vars => Twice'
  <2> SUFFICES ASSUME IInv, WaitsOnce, Twice, [Next]_vars
               PROVE  Twice'
    OBVIOUS
  <2>1. CASE buckets' = buckets
    BY <2>1
  <2>2. ASSUME NEW i \in Position, NEW u,
               buckets' = Put(buckets, i, u),
               GoodBucket(get_or_create_bucket(buckets, i), i),
               BucketStep(get_or_create_bucket(buckets, i), u, now, i)
        PROVE  Twice'
    <3> DEFINE b == get_or_create_bucket(buckets, i)
    <3>1. /\ b.nodes \in Seq(Kept(i)) /\ b.replacement_cache \in Seq(Kept(i))
          /\ EntryStep(b.nodes, b.replacement_cache, u.nodes, u.replacement_cache)
      BY <2>2 DEF GoodBucket, BucketStep
    <3>2. DistinctIds(b.replacement_cache) /\ TwiceAtMost(b.nodes, b.replacement_cache)
      BY BucketOrNew DEF DistinctIds, TwiceAtMost, WaitsOnce
    <3> HIDE DEF b
    <3>3. TwiceAtMost(u.nodes, u.replacement_cache)
      BY <3>1, <3>2, EntryStepKeepsTwice
    <3>4. \A j \in DOMAIN buckets' : \/ j = i /\ buckets'[j] = u
                                     \/ j \in DOMAIN buckets /\ buckets'[j] = buckets[j]
      BY <2>2 DEF Put
    <3> QED
      BY <3>3, <3>4
  <2> QED
    BY <2>1, <2>2, StepTouchesOneBucket
<1>3. Twice => ListedAtMostTwice
  BY DEF ListedAtMostTwice, TwiceAtMost, Positions
<1> HIDE DEF Twice
<1> QED
  BY <1>1, <1>2, <1>3, TableIsGood, WaitsOnceCorrect, PTL DEF Spec

\* SeenInOrder at a given time.
InOrderAt(s, time) ==
  /\ \A p \in DOMAIN s : s[p].last_seen \in 0 .. time
  /\ \A p, q \in DOMAIN s : p <= q => s[p].last_seen <= s[q].last_seen

(***************************************************************************)
(* Taking a contact out keeps the order.                                   *)
(***************************************************************************)
LEMMA RemovedInOrder ==
  ASSUME NEW S, NEW s \in Seq(S), NEW p \in 1 .. Len(s), NEW time, InOrderAt(s, time)
  PROVE  InOrderAt(RemoveAt(s, p), time)
<1> DEFINE r == RemoveAt(s, p)
           old(q) == IF q < p THEN q ELSE q + 1
<1>1. /\ r \in Seq(S) /\ Len(r) = Len(s) - 1
      /\ \A k \in 1 .. (Len(s) - 1) : r[k] = IF k < p THEN s[k] ELSE s[k + 1]
  BY RemoveAtProperties
<1> HIDE DEF r
<1>2. \A q \in DOMAIN r : r[q] = s[old(q)] /\ old(q) \in DOMAIN s
  BY <1>1
<1>3. \A q1, q2 \in DOMAIN r : q1 <= q2 => old(q1) <= old(q2)
  BY <1>1
<1> HIDE DEF old
<1>4. InOrderAt(r, time)
  BY <1>2, <1>3 DEF InOrderAt
<1> QED
  BY <1>4 DEF r

(***************************************************************************)
(* A contact seen now goes to the back of the order.                       *)
(***************************************************************************)
LEMMA AppendedInOrder ==
  ASSUME NEW S, NEW s \in Seq(S), NEW x \in S, NEW time \in Nat, InOrderAt(s, time),
         x.last_seen = time
  PROVE  InOrderAt(Append(s, x), time)
<1>1. /\ Append(s, x) \in Seq(S) /\ Len(Append(s, x)) = Len(s) + 1
      /\ \A k \in 1 .. Len(s) : Append(s, x)[k] = s[k]
      /\ Append(s, x)[Len(s) + 1] = x
  BY AppendProperties
<1>2. \A q \in DOMAIN Append(s, x) :
        \/ q \in DOMAIN s /\ q \in 1 .. Len(s) /\ Append(s, x)[q] = s[q]
        \/ q = Len(s) + 1 /\ Append(s, x)[q] = x
  BY <1>1
<1>3. \A q \in DOMAIN Append(s, x) : Append(s, x)[q].last_seen \in 0 .. time
  BY <1>2 DEF InOrderAt
<1>4. ASSUME NEW p \in DOMAIN Append(s, x), NEW q \in DOMAIN Append(s, x), p <= q
      PROVE  Append(s, x)[p].last_seen <= Append(s, x)[q].last_seen
  <2>1. CASE q = Len(s) + 1
    BY <1>1, <1>3, <2>1
  <2>2. CASE q # Len(s) + 1
    <3>1. q \in DOMAIN s /\ p \in DOMAIN s
      BY <1>2, <1>4, <2>2
    <3> QED
      BY <1>1, <1>4, <3>1 DEF InOrderAt
  <2> QED
    BY <2>1, <2>2
<1> QED
  BY <1>3, <1>4 DEF InOrderAt

(***************************************************************************)
(* Every operation on a bucket keeps its queue and its cache in order.     *)
(***************************************************************************)
LEMMA BucketStepInOrder ==
  ASSUME NEW i, NEW b, NEW u, NEW time \in Nat, GoodBucket(b, i),
         BucketStep(b, u, time, i),
         InOrderAt(b.nodes, time), InOrderAt(b.replacement_cache, time)
  PROVE  InOrderAt(u.nodes, time) /\ InOrderAt(u.replacement_cache, time)
<1> DEFINE nodes == b.nodes
           cache == b.replacement_cache
<1>1. nodes \in Seq(Kept(i)) /\ cache \in Seq(Kept(i))
  BY DEF GoodBucket
<1>2. QueueStep(nodes, u.nodes, time, i) /\ CacheStep(cache, u.replacement_cache, time, i)
  BY DEF BucketStep
<1>3. InOrderAt(nodes, time) /\ InOrderAt(cache, time)
  OBVIOUS
<1> HIDE DEF nodes, cache
<1>4. ASSUME NEW s \in Seq(Kept(i)), InOrderAt(s, time), NEW p \in 1 .. Len(s),
             NEW x \in Kept(i), x.last_seen = time
      PROVE  InOrderAt(Append(RemoveAt(s, p), x), time)
  <2>1. RemoveAt(s, p) \in Seq(Kept(i))
    BY RemoveAtProperties
  <2>2. InOrderAt(RemoveAt(s, p), time)
    BY <1>4, RemovedInOrder
  <2> QED
    BY <1>4, <2>1, <2>2, AppendedInOrder
<1>5. InOrderAt(u.nodes, time)
  BY <1>1, <1>2, <1>3, <1>4, RemovedInOrder, AppendedInOrder DEF QueueStep
<1>6. InOrderAt(u.replacement_cache, time)
  <2>1. CASE u.replacement_cache = cache
    BY <1>3, <2>1
  <2>2. CASE cache # <<>> /\ u.replacement_cache = Tail(cache)
    <3>1. /\ Tail(cache) \in Seq(Kept(i)) /\ Len(Tail(cache)) = Len(cache) - 1
          /\ \A k \in 1 .. Len(Tail(cache)) : Tail(cache)[k] = cache[k + 1]
      BY <1>1, <2>2, HeadTailProperties
    <3>2. \A q \in DOMAIN Tail(cache) :
            q \in Nat /\ q + 1 \in DOMAIN cache /\ Tail(cache)[q] = cache[q + 1]
      BY <1>1, <3>1
    <3>3. InOrderAt(Tail(cache), time)
      BY <1>3, <3>2 DEF InOrderAt
    <3> QED
      BY <2>2, <3>3
  <2>3. ASSUME NEW x \in Kept(i), x.last_seen = time,
               u.replacement_cache
                 = IF Positions(cache, x.id) = {}
                     THEN Append(cache, x)
                     ELSE Append(RemoveAt(cache, position(cache, x.id)), x)
        PROVE  InOrderAt(u.replacement_cache, time)
    <3>1. CASE Positions(cache, x.id) = {}
      BY <1>1, <1>3, <2>3, <3>1, AppendedInOrder
    <3>2. CASE Positions(cache, x.id) # {}
      <4>1. position(cache, x.id) \in 1 .. Len(cache)
        BY <1>1, <3>2, PositionProperties
      <4> QED
        BY <1>1, <1>3, <1>4, <2>3, <3>2, <4>1
    <3> QED
      BY <3>1, <3>2
  <2> QED
    BY <1>2, <2>1, <2>2, <2>3 DEF CacheStep
<1> QED
  BY <1>5, <1>6

(***************************************************************************)
(* While the system clock is not set back, every queue and every cache is  *)
(* in the order of the last contact, whatever the bucket size, the timeout *)
(* and the peers: the front that update tests, replaces or has pinged is   *)
(* the least recently seen contact of its bucket.                          *)
(***************************************************************************)
THEOREM OrderCorrect ==
  ASSUME ~ClockStepsBack
  PROVE  Spec => []LeastRecentlySeenFirst
<1>1. LeastRecentlySeenFirst
        <=> \A i \in DOMAIN buckets : /\ InOrderAt(buckets[i].nodes, now)
                                      /\ InOrderAt(buckets[i].replacement_cache, now)
  BY DEF LeastRecentlySeenFirst, SeenInOrder, InOrderAt
<1>2. Init => LeastRecentlySeenFirst
  BY DEF Init, LeastRecentlySeenFirst
<1>3. IInv /\ LeastRecentlySeenFirst /\ [Next]_vars => LeastRecentlySeenFirst'
  <2> SUFFICES ASSUME IInv, LeastRecentlySeenFirst, [Next]_vars
               PROVE  LeastRecentlySeenFirst'
    OBVIOUS
  <2>1. now \in Nat
    BY MaxTimeAssumption DEF IInv
  <2>2. now' \in Nat /\ now <= now'
    <3>1. CASE Clock
      BY <2>1, <3>1, MaxTimeAssumption DEF Clock
    <3>2. CASE now' = now
      BY <2>1, <3>2
    <3> QED
      BY <3>1, <3>2
         DEF Next, vars, Update, NodeSeen, RecordSuccess, RecordFailure, RemoveNode
  <2>3. CASE buckets' = buckets
    <3>1. ASSUME NEW s, InOrderAt(s, now)
          PROVE  InOrderAt(s, now')
      BY <2>1, <2>2, <3>1 DEF InOrderAt
    <3>2. \A i \in DOMAIN buckets' : /\ InOrderAt(buckets'[i].nodes, now')
                                     /\ InOrderAt(buckets'[i].replacement_cache, now')
      BY <1>1, <2>3, <3>1
    <3> QED
      BY <3>2 DEF LeastRecentlySeenFirst, SeenInOrder, InOrderAt
  <2>4. ASSUME NEW i \in Position, NEW u, now' = now,
               buckets' = Put(buckets, i, u),
               GoodBucket(get_or_create_bucket(buckets, i), i),
               BucketStep(get_or_create_bucket(buckets, i), u, now, i)
        PROVE  LeastRecentlySeenFirst'
    <3> DEFINE b == get_or_create_bucket(buckets, i)
    <3>1. InOrderAt(b.nodes, now) /\ InOrderAt(b.replacement_cache, now)
      <4>1. InOrderAt(<<>>, now)
        BY DEF InOrderAt
      <4> QED
        BY <1>1, <4>1, BucketOrNew
    <3>2. InOrderAt(u.nodes, now) /\ InOrderAt(u.replacement_cache, now)
      BY <2>1, <2>4, <3>1, BucketStepInOrder
    <3>3. \A j \in DOMAIN buckets' : \/ j = i /\ buckets'[j] = u
                                     \/ j \in DOMAIN buckets /\ buckets'[j] = buckets[j]
      BY <2>4 DEF Put
    <3>4. \A j \in DOMAIN buckets' : /\ InOrderAt(buckets'[j].nodes, now')
                                     /\ InOrderAt(buckets'[j].replacement_cache, now')
      BY <1>1, <2>4, <3>2, <3>3
    <3> QED
      BY <3>4 DEF LeastRecentlySeenFirst, SeenInOrder, InOrderAt
  <2> QED
    BY <2>3, <2>4, StepTouchesOneBucket
<1> QED
  BY <1>2, <1>3, TableIsGood, PTL DEF Spec

-----------------------------------------------------------------------------
(* get_closest.                                                            *)

(***************************************************************************)
(* The contacts of a good table are finitely many, and have identifiers.   *)
(***************************************************************************)
LEMMA AllNodesProperties ==
  ASSUME NEW t, GoodTable(t)
  PROVE  /\ IsFiniteSet(get_all_nodes(t))
         /\ \A x \in get_all_nodes(t) :
              /\ x[1] \in DOMAIN t /\ x[1] \in Int
              /\ x[2] \in DOMAIN t[x[1]].nodes /\ x[2] \in Int
              /\ x = <<x[1], x[2]>>
              /\ NodeAt(t, x).id \in NodeIds
         /\ Listed(t) = {NodeAt(t, x).id : x \in get_all_nodes(t)}
<1>1. \A i \in DOMAIN t : /\ i \in Position /\ i \in Int
                          /\ t[i].nodes \in Seq(Contacts) /\ Len(t[i].nodes) <= K
                          /\ DOMAIN t[i].nodes \subseteq 1 .. K
  <2> SUFFICES ASSUME NEW i \in DOMAIN t
               PROVE  /\ i \in Position /\ i \in Int
                      /\ t[i].nodes \in Seq(Contacts) /\ Len(t[i].nodes) <= K
                      /\ DOMAIN t[i].nodes \subseteq 1 .. K
    OBVIOUS
  <2>1. i \in Position /\ GoodBucket(t[i], i)
    BY DEF GoodTable
  <2>2. t[i].nodes \in Seq(Contacts) /\ Len(t[i].nodes) <= K
    BY <2>1 DEF GoodBucket, Kept, Residents
  <2>3. DOMAIN t[i].nodes \subseteq 1 .. K
    BY <2>2, KAssumption
  <2> QED
    BY <2>1, <2>2, <2>3, KeyLengthAssumption DEF Position
<1>2. ASSUME NEW x \in get_all_nodes(t)
      PROVE  /\ x[1] \in DOMAIN t /\ x[2] \in DOMAIN t[x[1]].nodes /\ x = <<x[1], x[2]>>
  BY DEF get_all_nodes
<1>3. get_all_nodes(t) \subseteq Position \X (1 .. K)
  <2> SUFFICES ASSUME NEW x \in get_all_nodes(t) PROVE x \in Position \X (1 .. K)
    OBVIOUS
  <2>1. x = <<x[1], x[2]>> /\ x[1] \in Position /\ x[2] \in 1 .. K
    BY <1>1, <1>2
  <2> QED
    BY <2>1
<1>4. IsFiniteSet(get_all_nodes(t))
  <2>1. IsFiniteSet(Position) /\ IsFiniteSet(1 .. K)
    BY FS_Interval, KeyLengthAssumption, KAssumption DEF Position
  <2>2. IsFiniteSet(Position \X (1 .. K))
    BY <2>1, FS_Product
  <2> QED
    BY <1>3, <2>2, FS_Subset
<1>5. ASSUME NEW x \in get_all_nodes(t)
      PROVE  x[1] \in Int /\ x[2] \in Int /\ NodeAt(t, x).id \in NodeIds
  <2>1. NodeAt(t, x) \in Contacts
    BY <1>1, <1>2 DEF NodeAt
  <2>2. NodeAt(t, x).id \in NodeIds
    BY <2>1 DEF Contacts
  <2> QED
    BY <1>1, <1>2, <2>2, KAssumption
<1>6. Listed(t) = {NodeAt(t, x).id : x \in get_all_nodes(t)}
  <2>1. ASSUME NEW id \in Listed(t) PROVE \E x \in get_all_nodes(t) : id = NodeAt(t, x).id
    <3>1. PICK i \in DOMAIN t : id \in IdsOf(t[i].nodes)
      BY DEF Listed
    <3>2. PICK p \in DOMAIN t[i].nodes : id = t[i].nodes[p].id
      BY <3>1 DEF IdsOf
    <3>3. <<i, p>> \in get_all_nodes(t)
      BY DEF get_all_nodes
    <3>4. NodeAt(t, <<i, p>>) = t[i].nodes[p]
      BY DEF NodeAt
    <3> QED
      BY <3>2, <3>3, <3>4
  <2>2. ASSUME NEW x \in get_all_nodes(t) PROVE NodeAt(t, x).id \in Listed(t)
    <3>1. NodeAt(t, x).id \in IdsOf(t[x[1]].nodes)
      BY <1>2 DEF NodeAt, IdsOf
    <3> QED
      BY <1>2, <3>1 DEF Listed
  <2> QED
    BY <2>1, <2>2
<1> QED
  BY <1>2, <1>4, <1>5, <1>6

(***************************************************************************)
(* The places that sort_by puts up to a place: the place itself, and all   *)
(* of one place or all of the other for any two places.                    *)
(***************************************************************************)
LEMMA PlacesAreInLine ==
  ASSUME NEW t, GoodTable(t), NEW target \in NodeIds
  PROVE  /\ \A x \in get_all_nodes(t) : /\ x \in UpTo(t, target, x)
                                        /\ UpTo(t, target, x) \subseteq get_all_nodes(t)
         /\ \A x, y \in get_all_nodes(t) : x # y =>
              \/ UpTo(t, target, x) \subseteq UpTo(t, target, y) /\ y \notin UpTo(t, target, x)
              \/ UpTo(t, target, y) \subseteq UpTo(t, target, x) /\ x \notin UpTo(t, target, y)
<1> DEFINE P == get_all_nodes(t)
           id(x) == NodeAt(t, x).id
           Before(x, y) == x[1] < y[1] \/ (x[1] = y[1] /\ x[2] <= y[2])
<1>1. \A x \in P : x[1] \in Int /\ x[2] \in Int /\ x = <<x[1], x[2]>> /\ id(x) \in NodeIds
  BY AllNodesProperties
<1>2. \A x, y \in P : x \in UpTo(t, target, y) <=>
        Closer(target, id(x), id(y)) \/ (id(x) = id(y) /\ Before(x, y))
  BY DEF UpTo
<1>3. \A x \in P : UpTo(t, target, x) \subseteq P
  BY DEF UpTo
<1>4. /\ \A x \in P : Before(x, x)
      /\ \A x, y \in P : x # y => (Before(x, y) <=> ~Before(y, x))
      /\ \A x, y, z \in P : Before(x, y) /\ Before(y, z) => Before(x, z)
  <2>1. \A x, y \in P : x[1] = y[1] /\ x[2] = y[2] => x = y
    BY <1>1, Zenon
  <2> QED
    BY <1>1, <2>1
<1> HIDE DEF P, id, Before
<1>5. ASSUME NEW x \in P, NEW y \in P, x # y, x \in UpTo(t, target, y)
      PROVE  UpTo(t, target, x) \subseteq UpTo(t, target, y) /\ y \notin UpTo(t, target, x)
  <2>1. id(x) \in NodeIds /\ id(y) \in NodeIds
    BY <1>1
  <2>2. Closer(target, id(x), id(y)) \/ (id(x) = id(y) /\ Before(x, y))
    BY <1>2, <1>5
  <2>3. ~Closer(target, id(y), id(x))
    BY <2>1, <2>2, CloserIsTotalOrder
  <2>4. ~(id(y) = id(x) /\ Before(y, x))
    BY <1>4, <1>5, <2>1, <2>2, CloserIsTotalOrder
  <2>5. ASSUME NEW z \in P, z \in UpTo(t, target, x) PROVE z \in UpTo(t, target, y)
    <3>1. id(z) \in NodeIds
      BY <1>1
    <3>2. Closer(target, id(z), id(x)) \/ (id(z) = id(x) /\ Before(z, x))
      BY <1>2, <2>5
    <3>3. Closer(target, id(z), id(y)) \/ (id(z) = id(y) /\ Before(z, y))
      <4>1. CASE Closer(target, id(z), id(x)) /\ Closer(target, id(x), id(y))
        BY <2>1, <3>1, <4>1, CloserIsTotalOrder
      <4>2. CASE id(z) = id(x) /\ Before(z, x) /\ id(x) = id(y) /\ Before(x, y)
        BY <1>4, <4>2
      <4> QED
        BY <2>2, <3>2, <4>1, <4>2
    <3> QED
      BY <1>2, <3>3
  <2> QED
    BY <1>2, <1>3, <2>3, <2>4, <2>5
<1>6. ASSUME NEW x \in P, NEW y \in P, x # y, x \notin UpTo(t, target, y)
      PROVE  y \in UpTo(t, target, x)
  <2>1. id(x) \in NodeIds /\ id(y) \in NodeIds
    BY <1>1
  <2>2. ~Closer(target, id(x), id(y)) /\ ~(id(x) = id(y) /\ Before(x, y))
    BY <1>2, <1>6
  <2>3. Closer(target, id(y), id(x)) \/ (id(y) = id(x) /\ Before(y, x))
    BY <1>4, <1>6, <2>1, <2>2, CloserIsTotalOrder
  <2> QED
    BY <1>2, <2>3
<1>7. \A x \in P : x \in UpTo(t, target, x)
  BY <1>2, <1>4
<1> QED
  BY <1>3, <1>5, <1>6, <1>7 DEF P

(***************************************************************************)
(* What get_closest returns for a good table: as many contacts as there    *)
(* are and are asked for, in order of distance, and none left out that is  *)
(* closer than one of them.                                                *)
(***************************************************************************)
LEMMA GetClosestProperties ==
  ASSUME NEW t, GoodTable(t), NEW target \in NodeIds, NEW count \in Nat
  PROVE  LET closest == get_closest(t, target, count)
             total == Cardinality(get_all_nodes(t))
         IN /\ Len(closest) = IF count < total THEN count ELSE total
            /\ \A p, q \in DOMAIN closest :
                 p < q => ~Closer(target, closest[q].id, closest[p].id)
            /\ \A id \in Listed(t) \ IdsOf(closest) : \A p \in DOMAIN closest :
                 Closer(target, closest[p].id, id)
<1> DEFINE closest == get_closest(t, target, count)
           P == get_all_nodes(t)
           n == Cardinality(P)
           m == IF count < n THEN count ELSE n
           U == [x \in P |-> UpTo(t, target, x)]
           at(r) == CHOOSE x \in P : Cardinality(UpTo(t, target, x)) = r
           id(x) == NodeAt(t, x).id
<1>1. /\ IsFiniteSet(P) /\ n \in Nat
      /\ \A x \in P : id(x) \in NodeIds
      /\ Listed(t) = {id(x) : x \in P}
  BY AllNodesProperties, FS_CardinalityType
<1>2. \A x, y \in P : x \in UpTo(t, target, y) =>
        Closer(target, id(x), id(y)) \/ id(x) = id(y)
  BY DEF UpTo
<1>3. \A x, y \in P : Closer(target, id(x), id(y)) => x \in UpTo(t, target, y)
  BY DEF UpTo
<1>4. /\ U \in [P -> SUBSET P]
      /\ \A x \in P : U[x] = UpTo(t, target, x)
  BY PlacesAreInLine
<1>5. /\ \A x \in P : x \in U[x]
      /\ \A x, y \in P : x # y => \/ U[x] \subseteq U[y] /\ y \notin U[x]
                                  \/ U[y] \subseteq U[x] /\ x \notin U[y]
  BY <1>4, PlacesAreInLine
<1>6. m \in Nat /\ m <= n
  BY <1>1
<1>7. closest = [r \in 1 .. m |-> NodeAt(t, at(r))]
  BY DEF get_closest, Truncated
<1> HIDE DEF P, U, closest
<1>8. /\ \A x \in P : Cardinality(U[x]) \in 1 .. n
      /\ \A x, y \in P : Cardinality(U[x]) = Cardinality(U[y]) => x = y
      /\ \A x, y \in P : Cardinality(U[x]) < Cardinality(U[y]) => x \in U[y] /\ y \notin U[x]
      /\ \A r \in 1 .. n : \E x \in P : Cardinality(U[x]) = r
  BY <1>1, <1>4, <1>5, PlacesByCounting
<1> HIDE DEF n, m
<1>9. \A r \in 1 .. m : at(r) \in P /\ Cardinality(U[at(r)]) = r
  <2>1. \A r \in 1 .. m : r \in 1 .. n
    BY <1>1, <1>6
  <2>2. \A r \in 1 .. m : \E x \in P : Cardinality(UpTo(t, target, x)) = r
    BY <1>4, <1>8, <2>1
  <2>3. \A r \in 1 .. m : at(r) \in P /\ Cardinality(UpTo(t, target, at(r))) = r
    BY <2>2
  <2> QED
    BY <1>4, <2>3
<1> HIDE DEF at
<1>10. /\ DOMAIN closest = 1 .. m /\ Len(closest) = m
       /\ \A r \in 1 .. m : closest[r].id = id(at(r))
  BY <1>6, <1>7
<1> HIDE DEF id
<1>11. ASSUME NEW p \in 1 .. m, NEW q \in 1 .. m, p < q
       PROVE  ~Closer(target, id(at(q)), id(at(p)))
  <2>1. at(q) \notin U[at(p)]
    BY <1>8, <1>9, <1>11
  <2> QED
    BY <1>3, <1>4, <1>9, <2>1
<1>12. ASSUME NEW x \in P, NEW p \in 1 .. m, id(x) \notin IdsOf(closest)
       PROVE  Closer(target, id(at(p)), id(x))
  <2>1. Cardinality(U[x]) \notin 1 .. m
    <3> SUFFICES ASSUME Cardinality(U[x]) \in 1 .. m PROVE FALSE
      OBVIOUS
    <3>1. at(Cardinality(U[x])) = x
      BY <1>8, <1>9
    <3> QED
      BY <1>10, <1>12, <3>1 DEF IdsOf
  <2>2. p < Cardinality(U[x])
    BY <1>6, <1>8, <2>1
  <2>3. at(p) \in U[x]
    BY <1>8, <1>9, <2>2
  <2>4. id(at(p)) # id(x)
    BY <1>10, <1>12 DEF IdsOf
  <2> QED
    BY <1>2, <1>4, <1>9, <2>3, <2>4
<1>13. \A p, q \in DOMAIN closest : p < q => ~Closer(target, closest[q].id, closest[p].id)
  BY <1>10, <1>11
<1>14. \A i \in Listed(t) \ IdsOf(closest) : \A p \in DOMAIN closest :
         Closer(target, closest[p].id, i)
  BY <1>1, <1>10, <1>12
<1> QED
  BY <1>10, <1>13, <1>14 DEF closest, m, n, P

(***************************************************************************)
(* In every state of the table and for every target, get_closest returns   *)
(* the closest contacts, closest first, whatever is in the table twice.    *)
(***************************************************************************)
THEOREM ClosestCorrect == Spec => []ClosestFirst
<1>1. IInv => ClosestFirst
  <2> SUFFICES ASSUME IInv, NEW target \in NodeIds, NEW count \in 0 .. K + 1
               PROVE  LET closest == get_closest(buckets, target, count)
                          total == Cardinality(get_all_nodes(buckets))
                      IN /\ Len(closest) = IF count < total THEN count ELSE total
                         /\ \A p, q \in DOMAIN closest :
                              p < q => ~Closer(target, closest[q].id, closest[p].id)
                         /\ \A id \in Listed(buckets) \ IdsOf(closest) :
                              \A p \in DOMAIN closest : Closer(target, closest[p].id, id)
    BY DEF ClosestFirst
  <2>1. GoodTable(buckets) /\ count \in Nat
    BY KAssumption DEF IInv
  <2> QED
    BY <2>1, GetClosestProperties
<1> QED
  BY <1>1, TableIsGood, PTL

-----------------------------------------------------------------------------
(* The concurrent request handlers, for every number of handlers and every *)
(* set of peers: they implement the routing table, evict nobody but the    *)
(* contact they have pinged in vain, and report an insertion only of a     *)
(* contact that is listed.                                                 *)

-----------------------------------------------------------------------------
(* What update tells its caller.                                           *)

(***************************************************************************)
(* update asks for a ping of a contact of the bucket, and when it says     *)
(* "Updated" the contact it was given is listed.                           *)
(***************************************************************************)
LEMMA BucketUpdateTells ==
  ASSUME NEW i, NEW b, GoodBucket(b, i), NEW node \in Residents(i), NEW time \in Nat,
         node.response_stats = DefaultStats
  PROVE  LET u == bucket_update(local_node_id, b, node, time)
         IN /\ u.status = "PendingPing" => \E p \in Peers : u.ping = <<p>>
            /\ u.status # "PendingPing" => u.ping = NoPing
            /\ u.status = "Updated" => contains(u.bucket, node.id)
<1> DEFINE seen == update_last_seen(node, time)
           u == bucket_update(local_node_id, b, node, time)
<1>1. seen \in Kept(i) /\ seen.id = node.id
  BY SeenIsKept
<1>2. /\ b = [prefix_len |-> i, nodes |-> b.nodes,
              replacement_cache |-> b.replacement_cache]
      /\ b.nodes \in Seq(Kept(i))
      /\ Unreliable(b) = {}
  BY KeptAreReliable DEF GoodBucket
<1>3. ASSUME NEW s \in Seq(Kept(i)), u.bucket.nodes = Append(s, seen)
      PROVE  contains(u.bucket, node.id)
  <2>1. Len(s) + 1 \in DOMAIN Append(s, seen) /\ Append(s, seen)[Len(s) + 1] = seen
    BY <1>1, AppendProperties
  <2> HIDE DEF u, seen
  <2> QED
    BY <1>1, <1>3, <2>1 DEF contains, Positions
<1>4. CASE node.id = local_node_id
  <2>1. u = Done(b, "Err", NoPing)
    BY <1>4 DEF bucket_update
  <2> QED
    BY <2>1 DEF Done
<1>5. CASE node.id # local_node_id /\ contains(b, node.id)
  <2>1. u = Done(MoveToBack(b, node.id, time), "Updated", NoPing)
    BY <1>5 DEF bucket_update
  <2>2. u.bucket = MoveToBack(b, node.id, time) /\ u.status = "Updated" /\ u.ping = NoPing
    BY <2>1 DEF Done
  <2> HIDE DEF u
  <2>3. contains(u.bucket, node.id)
    BY <1>5, <2>2, MoveToBackKeepsAll
  <2> QED
    BY <2>2, <2>3 DEF u
<1>6. CASE node.id # local_node_id /\ ~contains(b, node.id) /\ ~is_full(b)
  <2>1. u = Done([b EXCEPT !.nodes = Append(b.nodes, seen)], "Updated", NoPing)
    BY <1>6 DEF bucket_update
  <2>2. u.bucket.nodes = Append(b.nodes, seen) /\ u.status = "Updated" /\ u.ping = NoPing
    BY <1>2, <2>1 DEF Done
  <2>3. contains(u.bucket, node.id)
    BY <1>2, <1>3, <2>2
  <2> QED
    BY <2>2, <2>3
<1>7. CASE /\ node.id # local_node_id /\ ~contains(b, node.id) /\ is_full(b)
           /\ ~is_active(b.nodes[1], time, NODE_TIMEOUT)
  <2>1. u = Done(ReplaceNode(b, 1, node, time), "Updated", NoPing)
    BY <1>2, <1>7 DEF bucket_update
  <2>2. /\ u.bucket.nodes = Append(RemoveAt(b.nodes, 1), seen)
        /\ u.status = "Updated" /\ u.ping = NoPing
    BY <1>2, <2>1 DEF Done, ReplaceNode
  <2>3. 1 \in 1 .. Len(b.nodes)
    BY <1>2, <1>7, KAssumption DEF is_full
  <2>4. RemoveAt(b.nodes, 1) \in Seq(Kept(i))
    BY <1>2, <2>3, RemoveAtProperties
  <2>5. contains(u.bucket, node.id)
    BY <1>3, <2>2, <2>4
  <2> QED
    BY <2>2, <2>5
<1>8. CASE /\ node.id # local_node_id /\ ~contains(b, node.id) /\ is_full(b)
           /\ is_active(b.nodes[1], time, NODE_TIMEOUT)
  <2>1. u = Done(AddToCache(b, node, time), "PendingPing", <<b.nodes[1].id>>)
    BY <1>2, <1>8 DEF bucket_update
  <2>2. u.status = "PendingPing" /\ u.ping = <<b.nodes[1].id>>
    BY <2>1 DEF Done
  <2>3. b.nodes[1] \in Kept(i)
    BY <1>2, <1>8, KAssumption DEF is_full
  <2>4. b.nodes[1].id \in Peers
    BY <2>3 DEF Kept, Residents
  <2> HIDE DEF u
  <2> QED
    BY <2>2, <2>4 DEF u
<1> QED
  BY <1>4, <1>5, <1>6, <1>7, <1>8

(***************************************************************************)
(* The same of the table's update.                                         *)
(***************************************************************************)
LEMMA TableUpdateTells ==
  ASSUME NEW t, GoodTable(t), NEW p \in Peers, NEW time \in Nat
  PROVE  LET u == table_update(local_node_id, t, NewContact(p), time)
         IN /\ u.status = "PendingPing" => \E q \in Peers : u.ping = <<q>>
            /\ u.status # "PendingPing" => u.ping = NoPing
            /\ u.status = "Updated" => table_contains(local_node_id, u.table, p)
<1> DEFINE node == NewContact(p)
           u == table_update(local_node_id, t, node, time)
           i == bucket_index(local_node_id, p)
           b == get_or_create_bucket(t, i)
           v == bucket_update(local_node_id, b, node, time)
<1>1. node \in Contacts /\ node.id = p /\ node.response_stats = DefaultStats
  BY PeersAssumption, NewContactType
<1> HIDE DEF node
<1>2. CASE p = local_node_id
  <2>1. u.status = "Unchanged" /\ u.ping = NoPing
    BY <1>1, <1>2 DEF table_update
  <2> QED
    BY <2>1 DEF node
<1>3. CASE p # local_node_id
  <2>1. /\ node \in Residents(i) /\ GoodBucket(b, i)
        /\ u.table = Put(t, i, v.bucket) /\ u.status = v.status /\ u.ping = v.ping
    BY <1>1, <1>3, TableUpdateIsOnePass
  <2>2. /\ v.status = "PendingPing" => \E q \in Peers : v.ping = <<q>>
        /\ v.status # "PendingPing" => v.ping = NoPing
        /\ v.status = "Updated" => contains(v.bucket, p)
    <3> HIDE DEF i, b
    <3> QED BY <1>1, <2>1, BucketUpdateTells
  <2>3. v.status = "Updated" => table_contains(local_node_id, u.table, p)
    <3> HIDE DEF v, u
    <3> QED BY <2>1, <2>2 DEF Put, table_contains
  <2> HIDE DEF u, v, i
  <2>4. /\ u.status = "PendingPing" => \E q \in Peers : u.ping = <<q>>
        /\ u.status # "PendingPing" => u.ping = NoPing
        /\ u.status = "Updated" => table_contains(local_node_id, u.table, p)
    BY <2>1, <2>2, <2>3
  <2> QED
    BY <2>4 DEF u, node
<1> QED
  BY <1>2, <1>3

-----------------------------------------------------------------------------
(* The inductive invariant.                                                *)

\* The handlers' states after the first update.
Active ==
  [pc : {"ping", "seen", "evict", "retry", "reply"}, node : Peers,
   was_known : BOOLEAN, inserted : BOOLEAN,
   target : {NoPing} \cup {<<p>> : p \in Peers}, unanswered : BOOLEAN]

\* A handler that pings knows whom, evicts only after a ping in vain, and has
\* inserted nobody before it decides to reply.
HandlerOK(r) ==
  \/ r = Idle
  \/ /\ r \in Active
     /\ r.pc \in {"ping", "seen", "evict"} => \E p \in Peers : r.target = <<p>>
     /\ r.pc # "reply" => r.inserted = FALSE
     /\ r.pc = "evict" => r.unanswered = TRUE

HandlersOK ==
  /\ handler = [h \in Handlers |-> handler[h]]
  /\ \A h \in Handlers : HandlerOK(handler[h])
  /\ alive \subseteq Peers

HandlerInv == IInv /\ HandlersOK

(***************************************************************************)
(* A handler that has not replied yet has the fields of a request, and one *)
(* that pings or evicts has a target.                                      *)
(***************************************************************************)
LEMMA BusyHandler ==
  ASSUME HandlersOK, NEW h \in Handlers, handler[h].pc # "idle"
  PROVE  /\ handler[h] \in Active
         /\ handler[h].pc \in {"ping", "seen", "evict"} => Target(h) \in Peers
         /\ handler[h].pc # "reply" => handler[h].inserted = FALSE
         /\ handler[h].pc = "evict" => handler[h].unanswered = TRUE
<1>1. handler[h] # Idle
  BY DEF Idle
<1>2. /\ handler[h] \in Active
      /\ handler[h].pc \in {"ping", "seen", "evict"} =>
           \E p \in Peers : handler[h].target = <<p>>
      /\ handler[h].pc # "reply" => handler[h].inserted = FALSE
      /\ handler[h].pc = "evict" => handler[h].unanswered = TRUE
  BY <1>1 DEF HandlersOK, HandlerOK
<1> QED
  BY <1>2 DEF Target

(***************************************************************************)
(* Every step of the handlers is a step of the routing table, or leaves it *)
(* and its clock alone.                                                    *)
(***************************************************************************)
LEMMA HandlerStepUsesTheTable ==
  ASSUME HandlersOK, [HandlerNext]_handlerVars
  PROVE  [Next]_vars
<1>1. ASSUME NEW h \in Handlers, NEW p \in Peers, Receive(h, p)
      PROVE  Next
  <2>1. Update(p)
    BY <1>1 DEF Receive, Update
  <2> QED
    BY <2>1 DEF Next
<1>2. ASSUME NEW h \in Handlers, Step(h)
      PROVE  [Next]_vars
  <2>1. CASE PingAnswered(h)
    <3>1. Target(h) \in Peers /\ RecordSuccess(Target(h))
      BY <2>1, BusyHandler DEF PingAnswered, RecordSuccess
    <3> QED
      BY <3>1 DEF Next
  <2>2. CASE PingTimesOut(h)
    <3>1. Target(h) \in Peers /\ RecordFailure(Target(h))
      BY <2>2, BusyHandler DEF PingTimesOut, RecordFailure
    <3> QED
      BY <3>1 DEF Next
  <2>3. CASE PingFails(h)
    BY <2>3 DEF PingFails, vars
  <2>4. CASE MarkSeen(h)
    <3>1. Target(h) \in Peers /\ NodeSeen(Target(h))
      BY <2>4, BusyHandler DEF MarkSeen, NodeSeen
    <3> QED
      BY <3>1 DEF Next
  <2>5. CASE Evict(h)
    <3>1. Target(h) \in Peers /\ RemoveNode(Target(h))
      BY <2>5, BusyHandler DEF Evict, RemoveNode
    <3> QED
      BY <3>1 DEF Next
  <2>6. CASE Retry(h)
    <3>1. handler[h].node \in Peers
      BY <2>6, BusyHandler DEF Retry, Active
    <3>2. Update(handler[h].node)
      BY <2>6 DEF Retry, Update
    <3> QED
      BY <3>1, <3>2 DEF Next
  <2>7. CASE Reply(h)
    BY <2>7 DEF Reply, vars
  <2> QED
    BY <1>2, <2>1, <2>2, <2>3, <2>4, <2>5, <2>6, <2>7 DEF Step
<1>3. ASSUME NEW p \in Peers, Crash(p)
      PROVE  [Next]_vars
  BY <1>3 DEF Crash, vars
<1>4. CASE HandlerClock
  BY <1>4 DEF HandlerClock, Next
<1>5. CASE UNCHANGED handlerVars
  BY <1>5 DEF handlerVars, vars
<1> QED
  BY <1>1, <1>2, <1>3, <1>4, <1>5 DEF HandlerNext

(***************************************************************************)
(* A step of one handler that leaves it in order keeps them all in order.  *)
(***************************************************************************)
LEMMA OneHandlerMoves ==
  ASSUME HandlersOK, NEW h \in Handlers, NEW r, HandlerOK(r),
         handler' = [handler EXCEPT ![h] = r], alive' = alive
  PROVE  HandlersOK'
BY DEF HandlersOK

(***************************************************************************)
(* Every step of the handlers keeps their part of the invariant.           *)
(***************************************************************************)
LEMMA HandlerStepOK ==
  ASSUME HandlerInv, [HandlerNext]_handlerVars
  PROVE  HandlersOK'
<1>1. HandlersOK /\ GoodTable(buckets) /\ now \in Nat
  BY MaxTimeAssumption DEF HandlerInv, IInv
<1>2. ASSUME NEW h \in Handlers, NEW p \in Peers, Receive(h, p)
      PROVE  HandlersOK'
  <2> DEFINE known == table_contains(local_node_id, buckets, p)
             u == table_update(local_node_id, buckets, NewContact(p), now)
             r == [pc |-> IF u.status = "PendingPing" THEN "ping" ELSE "reply",
                   node |-> p, was_known |-> known,
                   inserted |-> ~known /\ u.status = "Updated",
                   target |-> u.ping, unanswered |-> FALSE]
  <2>1. handler' = [handler EXCEPT ![h] = r] /\ alive' = alive
    BY <1>2 DEF Receive
  <2>2. /\ u.status = "PendingPing" => \E q \in Peers : u.ping = <<q>>
        /\ u.status # "PendingPing" => u.ping = NoPing
    BY <1>1, TableUpdateTells
  <2>3. known \in BOOLEAN
    BY DEF table_contains
  <2> HIDE DEF known, u
  <2>4. r \in Active
    BY <2>2, <2>3 DEF Active
  <2>5. r.pc # "reply" => r.inserted = FALSE
    <3>1. u.status = "PendingPing" => u.status # "Updated"
      OBVIOUS
    <3> QED BY <3>1
  <2>6. HandlerOK(r)
    BY <2>2, <2>4, <2>5 DEF HandlerOK
  <2> HIDE DEF r
  <2> QED
    BY <1>1, <2>1, <2>6, OneHandlerMoves
<1>3. ASSUME NEW h \in Handlers, Step(h)
      PROVE  HandlersOK'
  <2>1. CASE PingAnswered(h)
    <3> DEFINE r == [handler[h] EXCEPT !.pc = "seen"]
    <3>1. handler' = [handler EXCEPT ![h] = r] /\ alive' = alive /\ handler[h].pc = "ping"
      BY <2>1 DEF PingAnswered
    <3>2. HandlerOK(r)
      BY <1>1, <3>1 DEF HandlersOK, HandlerOK, Active, Idle
    <3> QED
      BY <1>1, <3>1, <3>2, OneHandlerMoves
  <2>2. CASE PingTimesOut(h) \/ PingFails(h)
    <3> DEFINE r == [handler[h] EXCEPT !.pc = "evict", !.unanswered = TRUE]
    <3>1. handler' = [handler EXCEPT ![h] = r] /\ alive' = alive /\ handler[h].pc = "ping"
      BY <2>2 DEF PingTimesOut, PingFails
    <3>2. /\ handler[h] \in Active /\ handler[h].inserted = FALSE
          /\ \E p \in Peers : handler[h].target = <<p>>
      BY <1>1, <3>1 DEF HandlersOK, HandlerOK, Idle
    <3>3. /\ r \in Active /\ r.pc = "evict" /\ r.unanswered = TRUE
          /\ r.inserted = handler[h].inserted /\ r.target = handler[h].target
      BY <3>2 DEF Active
    <3> HIDE DEF r
    <3>4. HandlerOK(r)
      BY <3>2, <3>3 DEF HandlerOK
    <3> QED
      BY <1>1, <3>1, <3>4, OneHandlerMoves
  <2>3. CASE MarkSeen(h)
    <3> DEFINE r == [handler[h] EXCEPT !.pc = "reply"]
    <3>1. handler' = [handler EXCEPT ![h] = r] /\ alive' = alive /\ handler[h].pc = "seen"
      BY <2>3 DEF MarkSeen
    <3>2. HandlerOK(r)
      BY <1>1, <3>1 DEF HandlersOK, HandlerOK, Active, Idle
    <3> QED
      BY <1>1, <3>1, <3>2, OneHandlerMoves
  <2>4. CASE Evict(h)
    <3> DEFINE r == [handler[h] EXCEPT !.pc = "retry"]
    <3>1. handler' = [handler EXCEPT ![h] = r] /\ alive' = alive /\ handler[h].pc = "evict"
      BY <2>4 DEF Evict
    <3>2. HandlerOK(r)
      BY <1>1, <3>1 DEF HandlersOK, HandlerOK, Active, Idle
    <3> QED
      BY <1>1, <3>1, <3>2, OneHandlerMoves
  <2>5. CASE Retry(h)
    <3> DEFINE u == table_update(local_node_id, buckets, NewContact(handler[h].node), now)
               ins == handler[h].inserted \/ (u.status = "Updated" /\ ~handler[h].was_known)
               r == [handler[h] EXCEPT !.pc = "reply", !.inserted = ins]
    <3>1. handler' = [handler EXCEPT ![h] = r] /\ alive' = alive /\ handler[h].pc = "retry"
      BY <2>5 DEF Retry
    <3>2. ins \in BOOLEAN
      OBVIOUS
    <3> HIDE DEF ins
    <3>3. handler[h] \in Active
      BY <1>1, <3>1 DEF HandlersOK, HandlerOK, Idle
    <3>4. r \in Active /\ r.pc = "reply"
      BY <3>2, <3>3 DEF Active
    <3> HIDE DEF r
    <3>5. HandlerOK(r)
      BY <3>4 DEF HandlerOK
    <3> QED
      BY <1>1, <3>1, <3>5, OneHandlerMoves
  <2>6. CASE Reply(h)
    BY <1>1, <2>6, OneHandlerMoves DEF Reply, HandlerOK
  <2> QED
    BY <1>3, <2>1, <2>2, <2>3, <2>4, <2>5, <2>6 DEF Step
<1>4. ASSUME NEW p \in Peers, Crash(p)
      PROVE  HandlersOK'
  BY <1>1, <1>4 DEF Crash, HandlersOK
<1>5. CASE HandlerClock
  BY <1>1, <1>5 DEF HandlerClock, HandlersOK
<1>6. CASE UNCHANGED handlerVars
  BY <1>1, <1>6 DEF handlerVars, HandlersOK
<1> QED
  BY <1>2, <1>3, <1>4, <1>5, <1>6 DEF HandlerNext

(***************************************************************************)
(* The handlers keep the inductive invariant.                              *)
(***************************************************************************)
THEOREM HandlersAreOK == HandlerSpec => []HandlerInv
<1>1. HandlerInit => HandlerInv
  <2> SUFFICES ASSUME HandlerInit PROVE HandlerInv
    OBVIOUS
  <2>1. IInv
    BY InitIInv DEF HandlerInit
  <2>2. HandlersOK
    BY DEF HandlerInit, HandlersOK, HandlerOK
  <2> QED
    BY <2>1, <2>2 DEF HandlerInv
<1>2. HandlerInv /\ [HandlerNext]_handlerVars => HandlerInv'
  <2> SUFFICES ASSUME HandlerInv, [HandlerNext]_handlerVars
               PROVE  HandlerInv'
    OBVIOUS
  <2>1. [Next]_vars
    BY HandlerStepUsesTheTable DEF HandlerInv
  <2>2. IInv'
    BY <2>1, NextIInv DEF HandlerInv
  <2> QED
    BY <2>2, HandlerStepOK DEF HandlerInv
<1> QED
  BY <1>1, <1>2, PTL DEF HandlerSpec

-----------------------------------------------------------------------------
(* The theorems.                                                           *)

(***************************************************************************)
(* The handlers, however many run and interleave, change the table only by *)
(* its own operations, one per step: every property of the routing table   *)
(* is one of a node that handles requests.                                 *)
(***************************************************************************)
THEOREM HandlersRefineTheTable == HandlerSpec => HandlersUseTheTable
<1>1. HandlerInit => Init
  BY DEF HandlerInit
<1>2. HandlerInv /\ [HandlerNext]_handlerVars => [Next]_vars
  BY HandlerStepUsesTheTable DEF HandlerInv
<1> QED
  BY <1>1, <1>2, HandlersAreOK, PTL DEF HandlerSpec, HandlersUseTheTable, Spec

(***************************************************************************)
(* A contact that leaves the table was silent, or was pinged in vain by    *)
(* the very handler that removes it: the outcome of a ping is never        *)
(* applied to a contact that became least recently seen in the meantime.   *)
(***************************************************************************)
THEOREM HandlersEvictOnlyTheirTarget == HandlerSpec => EvictsOnlyItsTarget
<1> DEFINE Justified(i, p) ==
      \/ \E h \in Handlers : Evict(h) /\ Target(h) = p /\ handler[h].unanswered
      \/ /\ buckets[i].nodes[1].id = p
         /\ now > buckets[i].nodes[1].last_seen + NODE_TIMEOUT
<1>1. ASSUME HandlerInv, HandlerNext, NEW i \in DOMAIN buckets, NEW p \in Peers,
             ListedAt(buckets, i, p), ~ListedAt(buckets', i, p)
      PROVE  Justified(i, p)
  <2>1. HandlersOK /\ GoodTable(buckets) /\ now \in Nat
    BY <1>1, MaxTimeAssumption DEF HandlerInv, IInv
  <2>2. buckets' # buckets
    BY <1>1
  <2>3. ASSUME NEW q \in Peers, buckets' = table_update(local_node_id, buckets, NewContact(q), now).table
        PROVE  Justified(i, p)
    <3>1. /\ buckets[i].nodes[1].id = p
          /\ now > buckets[i].nodes[1].last_seen + NODE_TIMEOUT
      BY <1>1, <2>1, <2>3, TableUpdateDropsOnlySilent
    <3> QED
      BY <3>1
  <2>4. ASSUME NEW h \in Handlers, NEW q \in Peers, Receive(h, q)
        PROVE  Justified(i, p)
    BY <2>3, <2>4 DEF Receive
  <2>5. ASSUME NEW h \in Handlers, Step(h)
        PROVE  Justified(i, p)
    <3>1. ASSUME PingAnswered(h) \/ PingTimesOut(h) \/ MarkSeen(h)
          PROVE  FALSE
      <4>1. Target(h) \in Peers
        BY <2>1, <3>1, BusyHandler DEF PingAnswered, PingTimesOut, MarkSeen
      <4> QED
        BY <1>1, <2>1, <3>1, <4>1, TableTouchDropsNobody
           DEF PingAnswered, PingTimesOut, MarkSeen
    <3>2. CASE Evict(h)
      <4>1. handler[h].unanswered
        BY <2>1, <3>2, BusyHandler DEF Evict
      <4>2. p = Target(h)
        BY <1>1, <2>1, <3>2, TableRemoveDropsOnlyItsContact DEF Evict
      <4> QED
        BY <3>2, <4>1, <4>2
    <3>3. CASE Retry(h)
      <4>1. handler[h].node \in Peers
        BY <2>1, <3>3, BusyHandler DEF Retry, Active
      <4> QED
        BY <2>3, <3>3, <4>1 DEF Retry
    <3>4. CASE PingFails(h) \/ Reply(h)
      BY <2>2, <3>4 DEF PingFails, Reply
    <3> QED
      BY <2>5, <3>1, <3>2, <3>3, <3>4 DEF Step
  <2>6. ASSUME NEW q \in Peers, Crash(q)
        PROVE  FALSE
    BY <2>2, <2>6 DEF Crash
  <2>7. CASE HandlerClock
    BY <2>2, <2>7 DEF HandlerClock, Clock
  <2> HIDE DEF Justified
  <2> QED
    BY <1>1, <2>4, <2>5, <2>6, <2>7 DEF HandlerNext
<1>2. HandlerInv /\ [HandlerNext]_handlerVars =>
        [\A i \in DOMAIN buckets : \A p \in Peers :
           ListedAt(buckets, i, p) /\ ~ListedAt(buckets', i, p) => Justified(i, p)]_handlerVars
  <2> HIDE DEF Justified
  <2> QED BY <1>1
<1> QED
  BY <1>2, HandlersAreOK, PTL DEF HandlerSpec, EvictsOnlyItsTarget

(***************************************************************************)
(* When a handler decides that its sender was inserted, and so replicates  *)
(* to it, the sender is in the table and was not there before, whatever    *)
(* the other handlers did between the handler's two updates.               *)
(***************************************************************************)
THEOREM HandlersInsertWhatTheyReport == HandlerSpec => InsertedMeansListed
<1> DEFINE Reports(h) ==
      handler'[h].pc = "reply" /\ handler[h].pc # "reply" /\ handler'[h].inserted =>
        /\ table_contains(local_node_id, buckets', handler'[h].node)
        /\ ~handler'[h].was_known
<1>1. ASSUME HandlerInv, HandlerNext, NEW h \in Handlers
      PROVE  Reports(h)
  <2>1. /\ HandlersOK /\ GoodTable(buckets) /\ now \in Nat
        /\ handler = [g \in Handlers |-> handler[g]]
    BY <1>1, MaxTimeAssumption DEF HandlerInv, IInv, HandlersOK
  <2>2. ASSUME handler'[h] = handler[h]
        PROVE  Reports(h)
    BY <2>2
  <2>3. ASSUME NEW g \in Handlers, NEW q \in Peers, Receive(g, q)
        PROVE  Reports(h)
    <3> DEFINE known == table_contains(local_node_id, buckets, q)
               u == table_update(local_node_id, buckets, NewContact(q), now)
               r == [pc |-> IF u.status = "PendingPing" THEN "ping" ELSE "reply",
                     node |-> q, was_known |-> known,
                     inserted |-> ~known /\ u.status = "Updated",
                     target |-> u.ping, unanswered |-> FALSE]
    <3>1. handler' = [handler EXCEPT ![g] = r] /\ buckets' = u.table
      BY <2>3 DEF Receive
    <3>2. u.status = "Updated" => table_contains(local_node_id, u.table, q)
      BY <2>1, TableUpdateTells
    <3> HIDE DEF known, u
    <3>3. /\ r.node = q /\ r.was_known = known
          /\ r.inserted = (~known /\ u.status = "Updated")
      OBVIOUS
    <3> HIDE DEF r
    <3>4. CASE g = h
      <4>1. handler'[h] = r
        BY <2>1, <3>1, <3>4
      <4> QED
        BY <3>1, <3>2, <3>3, <4>1
    <3>5. CASE g # h
      BY <2>1, <2>2, <3>1, <3>5
    <3> QED
      BY <3>4, <3>5
  <2>4. ASSUME NEW g \in Handlers, Step(g), g # h
        PROVE  Reports(h)
    <3>1. handler'[h] = handler[h]
      BY <2>1, <2>4
         DEF Step, PingAnswered, PingTimesOut, PingFails, MarkSeen, Evict, Retry, Reply
    <3> QED
      BY <2>2, <3>1
  <2>5. ASSUME Step(h)
        PROVE  Reports(h)
    <3>1. CASE PingAnswered(h)
      BY <2>1, <3>1, BusyHandler DEF PingAnswered, Active
    <3>2. CASE PingTimesOut(h) \/ PingFails(h)
      BY <2>1, <3>2, BusyHandler DEF PingTimesOut, PingFails, Active
    <3>3. CASE MarkSeen(h)
      <4>1. handler[h] \in Active /\ handler[h].inserted = FALSE
        BY <2>1, <3>3, BusyHandler DEF MarkSeen
      <4>2. handler'[h] = [handler[h] EXCEPT !.pc = "reply"]
        BY <2>1, <3>3 DEF MarkSeen
      <4>3. handler'[h].inserted = FALSE
        BY <4>1, <4>2 DEF Active
      <4> QED
        BY <4>3
    <3>4. CASE Evict(h)
      BY <2>1, <3>4, BusyHandler DEF Evict, Active
    <3>5. CASE Retry(h)
      <4> DEFINE q == handler[h].node
                 u == table_update(local_node_id, buckets, NewContact(q), now)
                 ins == handler[h].inserted \/ (u.status = "Updated" /\ ~handler[h].was_known)
      <4>1. /\ handler'[h] = [handler[h] EXCEPT !.pc = "reply", !.inserted = ins]
            /\ buckets' = u.table
        BY <2>1, <3>5 DEF Retry
      <4>2. handler[h] \in Active /\ handler[h].inserted = FALSE
        BY <2>1, <3>5, BusyHandler DEF Retry
      <4>3. q \in Peers
        BY <4>2 DEF Active
      <4>4. u.status = "Updated" => table_contains(local_node_id, u.table, q)
        BY <2>1, <4>3, TableUpdateTells
      <4>5. ins => u.status = "Updated" /\ ~handler[h].was_known
        BY <4>2
      <4> HIDE DEF ins, u
      <4>6. /\ handler'[h].inserted = ins /\ handler'[h].node = q
            /\ handler'[h].was_known = handler[h].was_known
        BY <4>1, <4>2 DEF Active
      <4> QED
        BY <4>1, <4>4, <4>5, <4>6
    <3>6. CASE Reply(h)
      BY <2>1, <3>6 DEF Reply, Idle
    <3> QED
      BY <2>5, <3>1, <3>2, <3>3, <3>4, <3>5, <3>6 DEF Step
  <2>6. ASSUME NEW q \in Peers, Crash(q)
        PROVE  Reports(h)
    BY <2>2, <2>6 DEF Crash
  <2>7. ASSUME HandlerClock
        PROVE  Reports(h)
    BY <2>2, <2>7 DEF HandlerClock
  <2> HIDE DEF Reports
  <2> QED
    BY <1>1, <2>3, <2>4, <2>5, <2>6, <2>7 DEF HandlerNext
<1>2. HandlerInv /\ [HandlerNext]_handlerVars => [\A h \in Handlers : Reports(h)]_handlerVars
  <2> HIDE DEF Reports
  <2> QED BY <1>1
<1> QED
  BY <1>2, HandlersAreOK, PTL DEF HandlerSpec, InsertedMeansListed

=============================================================================
