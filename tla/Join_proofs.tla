---------------------------- MODULE Join_proofs -----------------------------
(***************************************************************************)
(* Nodes that join each other and check on their contacts before they      *)
(* answer: no wait ends in itself, and a node forgets only the contacts    *)
(* its own checks had no answer from.  For every set of nodes, bucket size *)
(* and limit, whatever is down, late or lost and whenever the timers fire. *)
(***************************************************************************)
EXTENDS Join, NodeId_proofs, SequenceTheorems

-----------------------------------------------------------------------------
(* The invariant.                                                          *)

\* What bucket i of a node holds while the clock stands still: contacts that have
\* been seen just now, and of whose responses nothing has been recorded.
Kept(local, i) ==
  {c \in Contacts : /\ bucket_index(local, c.id) = i
                    /\ c.last_seen = Time /\ c.response_stats = DefaultStats}

GoodBucket(local, b, i) ==
  b \in [prefix_len : {i}, nodes : Seq(Kept(local, i)),
         replacement_cache : Seq(Kept(local, i))]

GoodTable(local, table) ==
  /\ DOMAIN table \subseteq Position
  /\ \A i \in DOMAIN table : GoodBucket(local, table[i], i)

\* The names of tasks: paths of pings that begin with a node.
Names == Seq(Nodes \cup Nat) \ {<<>>}

\* Only joins, whose names have one element, end without an answer; a handler
\* answers the ping that its name ends with.
TaskOK(t, task) ==
  /\ t \in Names
  /\ task \in [pc : {"record", "check", "ping"}, node : Nodes, peer : Nodes,
               stage : {"enter", "answered", "confirmed", "handle"}, k : Nat,
               target : NodeIds]
  /\ task.stage # "handle" => Len(t) = 1
  /\ task.stage = "handle" => Front(t) \in Names /\ Last(t) \in Nat
  /\ task.pc = "ping" => task.stage # "handle"

MessageOK(m) ==
  /\ m.task \in Names /\ m.k \in Nat
  /\ m.kind = "request" => m.from \in Nodes

\* The k-th ping of the task t or its answer is among the messages, or its handler
\* among the tasks under way, unless it was lost.
Answerable(t, k, messages, names, gone) ==
  \/ \E m \in messages : m.task = t /\ m.k = k
  \/ Append(t, k) \in names
  \/ <<t, k>> \in gone

AwaitsAnswer(t, task, messages, names, gone) ==
  task.pc # "record" => Answerable(t, task.k, messages, names, gone)

TasksOK ==
  /\ IsFiniteSet(DOMAIN tasks)
  /\ \A t \in DOMAIN tasks :
       /\ TaskOK(t, tasks[t])
       /\ AwaitsAnswer(t, tasks[t], net, DOMAIN tasks, lost)

TablesOK ==
  /\ buckets = [n \in Nodes |-> buckets[n]]
  /\ \A n \in Nodes : GoodTable(n, buckets[n])

NetOK == \A m \in net : MessageOK(m)

JoinInv == TablesOK /\ NetOK /\ TasksOK /\ NobodyForgotten

-----------------------------------------------------------------------------
(* Sequences of contacts.                                                  *)

(***************************************************************************)
(* RemoveAt keeps every element but the one at its position.               *)
(***************************************************************************)
LEMMA RemoveAtKeeps ==
  ASSUME NEW S, NEW s \in Seq(S), NEW i \in 1 .. Len(s)
  PROVE  /\ RemoveAt(s, i) \in Seq(S)
         /\ \A j \in 1 .. Len(s) :
              j # i => \E l \in DOMAIN RemoveAt(s, i) : RemoveAt(s, i)[l] = s[j]
<1> DEFINE L == SubSeq(s, 1, i - 1)
           R == SubSeq(s, i + 1, Len(s))
<1>1. L \in Seq(S) /\ Len(L) = i - 1 /\ \A j \in 1 .. (i - 1) : L[j] = s[j]
  BY SubSeqProperties
<1>2. R \in Seq(S) /\ Len(R) = Len(s) - i /\ \A j \in 1 .. (Len(s) - i) : R[j] = s[j + i]
  BY SubSeqProperties
<1>3. RemoveAt(s, i) = L \o R
  BY DEF RemoveAt
<1> HIDE DEF L, R
<1>4. /\ L \o R \in Seq(S)
      /\ Len(L \o R) = Len(L) + Len(R)
      /\ \A j \in 1 .. (Len(L) + Len(R)) :
           (L \o R)[j] = IF j <= Len(L) THEN L[j] ELSE R[j - Len(L)]
  BY <1>1, <1>2, ConcatProperties
<1>5. DOMAIN (L \o R) = 1 .. (Len(s) - 1)
  BY <1>1, <1>2, <1>4
<1>6. ASSUME NEW j \in 1 .. Len(s), j # i
      PROVE  \E l \in 1 .. (Len(s) - 1) : (L \o R)[l] = s[j]
  <2>1. CASE j < i
    <3>1. j \in 1 .. (i - 1) /\ j \in 1 .. (Len(s) - 1) /\ j <= Len(L)
      BY <1>1, <2>1
    <3> QED
      BY <1>1, <1>2, <1>4, <3>1
  <2>2. CASE j > i
    <3>1. /\ j - 1 \in 1 .. (Len(s) - 1) /\ ~(j - 1 <= i - 1)
          /\ j - 1 - (i - 1) = j - i /\ j - i \in 1 .. (Len(s) - i) /\ j - i + i = j
      BY <2>2
    <3>2. R[j - i] = s[j]
      BY <1>2, <3>1
    <3>3. (L \o R)[j - 1] = R[j - 1 - Len(L)]
      BY <1>1, <1>2, <1>4, <3>1
    <3> QED
      BY <1>1, <3>1, <3>2, <3>3
  <2>3. i \in Nat /\ j \in Nat
    BY LenProperties
  <2>4. j < i \/ j > i
    BY <1>6, <2>3
  <2> QED
    BY <2>1, <2>2, <2>4, Zenon
<1> QED
  BY <1>3, <1>4, <1>5, <1>6

(***************************************************************************)
(* iter().position() finds the contact whenever it is there.               *)
(***************************************************************************)
LEMMA PositionFound ==
  ASSUME NEW S, NEW s \in Seq(S), NEW id, Positions(s, id) # {}
  PROVE  position(s, id) \in 1 .. Len(s) /\ s[position(s, id)].id = id
<1>1. Positions(s, id) \subseteq Nat
  BY DEF Positions
<1>2. LeastOf(Positions(s, id)) \in Positions(s, id)
  BY <1>1, LeastOfIsLeast
<1> QED
  BY <1>2 DEF Positions, position

-----------------------------------------------------------------------------
(* Buckets while the clock stands still.                                   *)

(***************************************************************************)
(* A contact without recorded responses may be kept in its bucket.         *)
(***************************************************************************)
LEMMA SeenIsKept ==
  ASSUME NEW local, NEW i, NEW node \in Contacts, bucket_index(local, node.id) = i,
         node.response_stats = DefaultStats
  PROVE  /\ update_last_seen(node, Time) \in Kept(local, i)
         /\ update_last_seen(node, Time).id = node.id
<1>1. /\ update_last_seen(node, Time) \in Contacts
      /\ update_last_seen(node, Time).id = node.id
      /\ update_last_seen(node, Time).last_seen = Time
      /\ update_last_seen(node, Time).response_stats = node.response_stats
  BY DEF update_last_seen, Contacts, Time
<1> QED
  BY <1>1 DEF Kept

(***************************************************************************)
(* The contacts of a bucket agree at its bit: it is never split.           *)
(***************************************************************************)
LEMMA NeverSplits ==
  ASSUME NEW local \in NodeIds, NEW i \in Position, NEW b, GoodBucket(local, b, i)
  PROVE  ~should_split(b)
<1> SUFFICES ASSUME NEW p \in DOMAIN b.nodes, is_full(b)
             PROVE  bit_at(b.nodes[p].id, b.prefix_len)
                      = bit_at(b.nodes[1].id, b.prefix_len)
  BY DEF should_split
<1>1. b.prefix_len = i /\ b.nodes \in Seq(Kept(local, i))
  BY DEF GoodBucket
<1>2. 1 \in DOMAIN b.nodes
  BY <1>1
<1>3. /\ b.nodes[p].id \in NodeIds /\ bucket_index(local, b.nodes[p].id) = i
      /\ b.nodes[1].id \in NodeIds /\ bucket_index(local, b.nodes[1].id) = i
  BY <1>1, <1>2 DEF Kept, Contacts
<1>4. b.nodes[p].id # local
  BY <1>3, BucketIndexProperties, KeyLengthAssumption DEF NoIndex, Position
<1>5. bit_at(b.nodes[p].id, i) <=> bit_at(b.nodes[1].id, i)
  BY <1>3, <1>4, SameBucketSameBit DEF bit_at
<1>6. bit_at(b.nodes[p].id, i) \in BOOLEAN /\ bit_at(b.nodes[1].id, i) \in BOOLEAN
  BY DEF bit_at
<1> QED
  BY <1>1, <1>5, <1>6

\* The bucket b has become new, has remained good and has lost nobody, neither
\* from its contacts nor from its replacement cache.
KeepsBucket(local, b, new, i) ==
  GoodBucket(local, new, i) /\ \A id : Has(b, id) => Has(new, id)

(***************************************************************************)
(* A bucket keeps the contact it moves to the back, and all others.        *)
(***************************************************************************)
LEMMA MoveToBackKeeps ==
  ASSUME NEW local, NEW i, NEW b, GoodBucket(local, b, i), NEW id, contains(b, id)
  PROVE  KeepsBucket(local, b, MoveToBack(b, id, Time), i)
<1> DEFINE p == position(b.nodes, id)
           seen == update_last_seen(b.nodes[p], Time)
           rest == RemoveAt(b.nodes, p)
           moved == Append(rest, seen)
<1>1. b.nodes \in Seq(Kept(local, i))
  BY DEF GoodBucket
<1>2. p \in 1 .. Len(b.nodes) /\ b.nodes[p].id = id
  BY <1>1, PositionFound DEF contains
<1>3. b.nodes[p] \in Kept(local, i)
  BY <1>1, <1>2
<1>4. seen \in Kept(local, i) /\ seen.id = id
  BY <1>2, <1>3, SeenIsKept DEF Kept
<1>5. /\ rest \in Seq(Kept(local, i))
      /\ \A j \in 1 .. Len(b.nodes) : j # p => \E l \in DOMAIN rest : rest[l] = b.nodes[j]
  BY <1>1, <1>2, RemoveAtKeeps
<1>6. MoveToBack(b, id, Time) = [b EXCEPT !.nodes = moved]
  BY DEF MoveToBack
<1> HIDE DEF p, seen, rest
<1>7. /\ moved \in Seq(Kept(local, i)) /\ Len(moved) = Len(rest) + 1
      /\ moved[Len(rest) + 1] = seen
      /\ \A l \in 1 .. Len(rest) : moved[l] = rest[l]
      /\ DOMAIN rest = 1 .. Len(rest) /\ DOMAIN moved = 1 .. (Len(rest) + 1)
      /\ Len(rest) \in Nat
  BY <1>4, <1>5, AppendProperties, LenProperties
<1> HIDE DEF moved
<1>8. /\ GoodBucket(local, [b EXCEPT !.nodes = moved], i)
      /\ [b EXCEPT !.nodes = moved].nodes = moved
  BY <1>7 DEF GoodBucket
<1>9. ASSUME NEW x, contains(b, x)
      PROVE  \E l \in DOMAIN moved : moved[l].id = x
  <2>1. PICK j \in DOMAIN b.nodes : b.nodes[j].id = x
    BY <1>9 DEF contains, Positions
  <2>2. j \in 1 .. Len(b.nodes)
    BY <1>1, <2>1
  <2>3. CASE j = p
    <3>1. Len(rest) + 1 \in DOMAIN moved
      BY <1>7
    <3> QED
      BY <1>2, <1>4, <1>7, <2>1, <2>3, <3>1
  <2>4. CASE j # p
    <3>1. PICK l \in DOMAIN rest : rest[l] = b.nodes[j]
      BY <1>5, <2>2, <2>4
    <3>2. l \in DOMAIN moved /\ moved[l] = rest[l]
      BY <1>7, <3>1
    <3> QED
      BY <2>1, <3>1, <3>2
  <2> QED
    BY <2>3, <2>4
<1> QED
  <2>1. [b EXCEPT !.nodes = moved].replacement_cache = b.replacement_cache
    BY DEF GoodBucket
  <2>2. ASSUME NEW x, contains(b, x)
        PROVE  contains([b EXCEPT !.nodes = moved], x)
    BY <1>8, <1>9, <2>2 DEF contains, Positions
  <2> QED
    BY <1>6, <1>8, <2>1, <2>2 DEF KeepsBucket, Has

(***************************************************************************)
(* KBucket::update replaces no contact: those it has were seen just now    *)
(* and nothing is held against them.                                       *)
(***************************************************************************)
LEMMA BucketUpdateKeeps ==
  ASSUME NEW local, NEW i, NEW b, GoodBucket(local, b, i),
         NEW node \in Contacts, bucket_index(local, node.id) = i,
         node.response_stats = DefaultStats
  PROVE  /\ KeepsBucket(local, b, bucket_update(local, b, node, Time).bucket, i)
         /\ node.id # local => Has(bucket_update(local, b, node, Time).bucket, node.id)
         /\ LET u == bucket_update(local, b, node, Time)
            IN u.status = "PendingPing" => u.ping[1] \in NodeIds
<1> DEFINE seen == update_last_seen(node, Time)
<1>1. seen \in Kept(local, i) /\ seen.id = node.id
  BY SeenIsKept
<1>2. b.nodes \in Seq(Kept(local, i)) /\ b.replacement_cache \in Seq(Kept(local, i))
  BY DEF GoodBucket
<1>3. CASE node.id = local
  BY <1>3 DEF bucket_update, Done, KeepsBucket
<1>4. CASE node.id # local /\ contains(b, node.id)
  <2>1. KeepsBucket(local, b, MoveToBack(b, node.id, Time), i)
    BY <1>4, MoveToBackKeeps
  <2>2. Has(MoveToBack(b, node.id, Time), node.id)
    BY <1>4, <2>1 DEF KeepsBucket, Has
  <2> QED
    BY <1>4, <2>1, <2>2 DEF bucket_update, Done
<1>5. CASE node.id # local /\ ~contains(b, node.id) /\ ~is_full(b)
  <2> DEFINE longer == Append(b.nodes, seen)
  <2>1. /\ longer \in Seq(Kept(local, i)) /\ DOMAIN b.nodes \subseteq DOMAIN longer
        /\ \A j \in DOMAIN b.nodes : longer[j] = b.nodes[j]
        /\ Len(longer) \in DOMAIN longer /\ longer[Len(longer)] = seen
    BY <1>1, <1>2, AppendProperties
  <2>2. /\ bucket_update(local, b, node, Time).bucket = [b EXCEPT !.nodes = longer]
        /\ bucket_update(local, b, node, Time).status = "Updated"
    BY <1>5 DEF bucket_update, Done
  <2> HIDE DEF longer
  <2>3. /\ GoodBucket(local, [b EXCEPT !.nodes = longer], i)
        /\ [b EXCEPT !.nodes = longer].nodes = longer
        /\ [b EXCEPT !.nodes = longer].replacement_cache = b.replacement_cache
    BY <2>1 DEF GoodBucket
  <2>4. /\ \A id : contains(b, id) => contains([b EXCEPT !.nodes = longer], id)
        /\ contains([b EXCEPT !.nodes = longer], node.id)
    BY <1>1, <2>1, <2>3 DEF contains, Positions
  <2>5. /\ KeepsBucket(local, b, [b EXCEPT !.nodes = longer], i)
        /\ Has([b EXCEPT !.nodes = longer], node.id)
    BY <2>3, <2>4 DEF KeepsBucket, Has
  <2> QED
    BY <2>2, <2>5
<1>6. CASE node.id # local /\ ~contains(b, node.id) /\ is_full(b)
  <2>1. is_reliable(DefaultStats, 1, 2)
    BY MaxU32Assumption DEF is_reliable, total_responses, DefaultStats
  <2>2. Unreliable(b) = {}
    BY <1>2, <2>1 DEF Unreliable, Kept
  <2>3. 1 \in DOMAIN b.nodes
    BY <1>2, <1>6, KAssumption DEF is_full
  <2>4. b.nodes[1] \in Kept(local, i)
    BY <1>2, <2>3
  <2>5. is_active(b.nodes[1], Time, NODE_TIMEOUT)
    BY <2>4, NodeTimeoutAssumption DEF Kept, is_active, Time, Never
  <2>6. /\ bucket_update(local, b, node, Time).bucket = AddToCache(b, node, Time)
        /\ bucket_update(local, b, node, Time).ping[1] = b.nodes[1].id
    BY <1>6, <2>2, <2>5 DEF bucket_update, Done
  <2> DEFINE cache == b.replacement_cache
             rest == IF Positions(cache, node.id) = {}
                       THEN cache
                       ELSE RemoveAt(cache, position(cache, node.id))
             longer == Append(rest, seen)
  <2>7. /\ rest \in Seq(Kept(local, i))
        /\ \A j \in DOMAIN cache : cache[j].id # node.id => \E l \in DOMAIN rest : rest[l] = cache[j]
    <3>1. CASE Positions(cache, node.id) = {}
      BY <1>2, <3>1
    <3>2. CASE Positions(cache, node.id) # {}
      <4>1. /\ position(cache, node.id) \in 1 .. Len(cache)
            /\ cache[position(cache, node.id)].id = node.id
        BY <1>2, <3>2, PositionFound
      <4>2. rest = RemoveAt(cache, position(cache, node.id))
        BY <3>2
      <4>3. /\ RemoveAt(cache, position(cache, node.id)) \in Seq(Kept(local, i))
            /\ \A j \in 1 .. Len(cache) : j # position(cache, node.id) =>
                 \E l \in DOMAIN RemoveAt(cache, position(cache, node.id)) :
                   RemoveAt(cache, position(cache, node.id))[l] = cache[j]
        BY <1>2, <4>1, RemoveAtKeeps
      <4> HIDE DEF rest
      <4>4. DOMAIN cache = 1 .. Len(cache)
        BY <1>2
      <4> QED
        BY <4>1, <4>2, <4>3, <4>4
    <3> QED
      BY <3>1, <3>2
  <2>8. AddToCache(b, node, Time) = [b EXCEPT !.replacement_cache = longer]
    BY DEF AddToCache
  <2> HIDE DEF rest
  <2>9. /\ longer \in Seq(Kept(local, i)) /\ DOMAIN rest \subseteq DOMAIN longer
        /\ \A l \in DOMAIN rest : longer[l] = rest[l]
        /\ Len(longer) \in DOMAIN longer /\ longer[Len(longer)] = seen
    BY <1>1, <2>7, AppendProperties
  <2> HIDE DEF longer
  <2>10. /\ GoodBucket(local, [b EXCEPT !.replacement_cache = longer], i)
         /\ [b EXCEPT !.replacement_cache = longer].nodes = b.nodes
         /\ [b EXCEPT !.replacement_cache = longer].replacement_cache = longer
    BY <2>9 DEF GoodBucket
  <2>11. b.nodes[1].id \in NodeIds
    BY <2>4 DEF Kept, Contacts
  <2>12. Positions(longer, node.id) # {}
    BY <1>1, <2>9 DEF Positions
  <2>13. ASSUME NEW x, Positions(cache, x) # {}
         PROVE  Positions(longer, x) # {}
    <3>1. CASE x = node.id
      BY <2>12, <3>1
    <3>2. CASE x # node.id
      <4>1. PICK j \in DOMAIN cache : cache[j].id = x
        BY <2>13 DEF Positions
      <4>2. PICK l \in DOMAIN rest : rest[l] = cache[j]
        BY <2>7, <3>2, <4>1
      <4> QED
        BY <2>9, <4>1, <4>2 DEF Positions
    <3> QED
      BY <3>1, <3>2
  <2>14. /\ KeepsBucket(local, b, AddToCache(b, node, Time), i)
         /\ Has(AddToCache(b, node, Time), node.id)
    BY <2>8, <2>10, <2>12, <2>13 DEF KeepsBucket, Has, contains
  <2> QED
    BY <2>6, <2>11, <2>14
<1> QED
  BY <1>3, <1>4, <1>5, <1>6

(***************************************************************************)
(* KBucket::remove forgets nobody but the one it removes: who waits the    *)
(* longest in the cache becomes a contact.                                 *)
(***************************************************************************)
LEMMA BucketRemoveKeeps ==
  ASSUME NEW local, NEW i, NEW b, GoodBucket(local, b, i), NEW id
  PROVE  /\ GoodBucket(local, bucket_remove(b, id, Time), i)
         /\ \A x : x # id /\ Has(b, x) => Has(bucket_remove(b, id, Time), x)
<1>1. b.nodes \in Seq(Kept(local, i)) /\ b.replacement_cache \in Seq(Kept(local, i))
  BY DEF GoodBucket
<1>2. CASE ~contains(b, id)
  BY <1>2 DEF bucket_remove
<1>3. CASE contains(b, id)
  <2> DEFINE p == position(b.nodes, id)
             rest == RemoveAt(b.nodes, p)
             removed == [b EXCEPT !.nodes = rest]
             cache == b.replacement_cache
             first == update_last_seen(cache[1], Time)
             longer == Append(rest, first)
  <2>1. p \in 1 .. Len(b.nodes) /\ b.nodes[p].id = id
    BY <1>1, <1>3, PositionFound DEF contains
  <2>2. /\ rest \in Seq(Kept(local, i))
        /\ \A j \in 1 .. Len(b.nodes) : j # p => \E l \in DOMAIN rest : rest[l] = b.nodes[j]
    BY <1>1, <2>1, RemoveAtKeeps
  <2>3. bucket_remove(b, id, Time) = PromoteFromCache(removed, Time)
    BY <1>3 DEF bucket_remove
  <2> HIDE DEF p, rest
  <2>4. /\ GoodBucket(local, removed, i) /\ removed.nodes = rest
        /\ removed.replacement_cache = cache
    BY <2>2 DEF GoodBucket
  <2>5. ASSUME NEW x, x # id, contains(b, x)
        PROVE  Positions(rest, x) # {}
    <3>1. PICK j \in DOMAIN b.nodes : b.nodes[j].id = x
      BY <2>5 DEF contains, Positions
    <3>2. j \in 1 .. Len(b.nodes) /\ j # p
      BY <1>1, <2>1, <2>5, <3>1
    <3>3. PICK l \in DOMAIN rest : rest[l] = b.nodes[j]
      BY <2>2, <3>2
    <3> QED
      BY <3>1, <3>3 DEF Positions
  <2>6. CASE cache = <<>>
    <3>1. bucket_remove(b, id, Time) = removed
      BY <2>3, <2>4, <2>6 DEF PromoteFromCache
    <3> HIDE DEF removed
    <3> QED
      BY <2>4, <2>5, <3>1 DEF Has, contains
  <2>7. CASE cache # <<>>
    <3> DEFINE new == [removed EXCEPT !.nodes = longer, !.replacement_cache = Tail(cache)]
    <3>1. /\ 1 \in DOMAIN cache /\ cache[1] \in Kept(local, i) /\ Tail(cache) \in Seq(Kept(local, i))
          /\ \A j \in DOMAIN cache : j # 1 => j - 1 \in DOMAIN Tail(cache) /\ Tail(cache)[j - 1] = cache[j]
      BY <1>1, <2>7
    <3>2. first \in Kept(local, i) /\ first.id = cache[1].id
      BY <3>1, SeenIsKept DEF Kept
    <3>3. bucket_remove(b, id, Time) = new
      BY <2>3, <2>4, <2>7 DEF PromoteFromCache
    <3> HIDE DEF first
    <3>4. /\ longer \in Seq(Kept(local, i)) /\ DOMAIN rest \subseteq DOMAIN longer
          /\ \A l \in DOMAIN rest : longer[l] = rest[l]
          /\ Len(longer) \in DOMAIN longer /\ longer[Len(longer)] = first
      BY <2>2, <3>2, AppendProperties
    <3> HIDE DEF longer, removed
    <3>5. /\ GoodBucket(local, new, i) /\ new.nodes = longer
          /\ new.replacement_cache = Tail(cache)
      BY <2>4, <3>1, <3>4 DEF GoodBucket
    <3> HIDE DEF new
    <3>6. ASSUME NEW x, x # id, contains(b, x)
          PROVE  contains(new, x)
      BY <2>5, <3>4, <3>5, <3>6 DEF contains, Positions
    <3>7. ASSUME NEW x, Positions(cache, x) # {}
          PROVE  Has(new, x)
      <4>1. PICK j \in DOMAIN cache : cache[j].id = x
        BY <3>7 DEF Positions
      <4>2. CASE j = 1
        BY <3>2, <3>4, <3>5, <4>1, <4>2 DEF Has, contains, Positions
      <4>3. CASE j # 1
        <5>1. j - 1 \in DOMAIN Tail(cache) /\ Tail(cache)[j - 1].id = x
          BY <3>1, <4>1, <4>3
        <5> QED
          BY <3>5, <5>1 DEF Has, Positions
      <4> QED
        BY <4>2, <4>3
    <3> QED
      BY <3>3, <3>5, <3>6, <3>7 DEF Has
  <2> QED
    BY <2>6, <2>7
<1> QED
  BY <1>2, <1>3

-----------------------------------------------------------------------------
(* Tables while the clock stands still.                                    *)

\* The table of a node has become new, has remained good and has lost nobody.
KeepsTable(local, table, new) ==
  /\ GoodTable(local, new)
  /\ \A id : Remembers(local, table, id) => Remembers(local, new, id)

(***************************************************************************)
(* A step of one bucket is a step of the table.                            *)
(***************************************************************************)
LEMMA PutKeeps ==
  ASSUME NEW local, NEW table, GoodTable(local, table), NEW i \in Position, NEW new,
         GoodBucket(local, new, i),
         i \in DOMAIN table => KeepsBucket(local, table[i], new, i)
  PROVE  KeepsTable(local, table, Put(table, i, new))
<1>1. /\ DOMAIN Put(table, i, new) = DOMAIN table \cup {i}
      /\ Put(table, i, new)[i] = new
      /\ \A j \in DOMAIN table : j # i => Put(table, i, new)[j] = table[j]
  BY DEF Put
<1>2. GoodTable(local, Put(table, i, new))
  BY <1>1 DEF GoodTable
<1>3. ASSUME NEW id, Remembers(local, table, id)
      PROVE  Remembers(local, Put(table, i, new), id)
  BY <1>1, <1>3 DEF Remembers, KeepsBucket
<1> QED
  BY <1>2, <1>3 DEF KeepsTable

(***************************************************************************)
(* RoutingTable::update of a node that has just been built neither splits  *)
(* a bucket nor drops a contact, remembers the node, and has only a listed *)
(* contact pinged.                                                         *)
(***************************************************************************)
LEMMA UpdateKeeps ==
  ASSUME NEW local \in NodeIds, NEW table, GoodTable(local, table), NEW id \in NodeIds
  PROVE  LET update == table_update(local, table, NewContact(id), Time)
         IN /\ KeepsTable(local, table, update.table)
            /\ id # local => Remembers(local, update.table, id)
            /\ update.status = "PendingPing" => update.ping[1] \in NodeIds
<1> DEFINE node == NewContact(id)
           i == bucket_index(local, id)
           b == get_or_create_bucket(table, i)
           u == bucket_update(local, b, node, Time)
<1>1. node \in Contacts /\ node.id = id /\ node.response_stats = DefaultStats
  BY MaxU32Assumption
     DEF NewContact, Contacts, ResponseStats, DefaultStats, Never, NoAverage
<1>2. CASE id = local
  <2>1. /\ table_update(local, table, node, Time).table = table
        /\ table_update(local, table, node, Time).status = "Unchanged"
    BY <1>1, <1>2 DEF table_update
  <2> QED
    BY <1>2, <2>1 DEF KeepsTable
<1>3. CASE id # local
  <2>1. i \in Position
    BY <1>3, BucketIndexProperties
  <2>2. GoodBucket(local, b, i) /\ (i \in DOMAIN table => b = table[i])
    <3>1. CASE i \in DOMAIN table
      BY <3>1 DEF GoodTable, get_or_create_bucket
    <3>2. CASE i \notin DOMAIN table
      BY <3>2 DEF get_or_create_bucket, new_bucket, GoodBucket
    <3> QED
      BY <3>1, <3>2
  <2>3. update_pass(local, table, node, Time)
          = IF should_split(u.bucket) /\ i < KEY_LENGTH_BITS - 1
              THEN [table |-> Put(Put(table, i, split_half(local, u.bucket, FALSE, Time)),
                                  i + 1, split_half(local, u.bucket, TRUE, Time)),
                    again |-> TRUE, status |-> "Updated", ping |-> NoPing]
              ELSE [table |-> Put(table, i, u.bucket), again |-> FALSE,
                    status |-> u.status, ping |-> u.ping]
    BY <1>1 DEF update_pass
  <2> HIDE DEF i, b, node
  <2>4. /\ KeepsBucket(local, b, u.bucket, i) /\ Has(u.bucket, id)
        /\ u.status = "PendingPing" => u.ping[1] \in NodeIds
    BY <1>1, <1>3, <2>2, BucketUpdateKeeps DEF i
  <2> HIDE DEF u
  <2>5. ~should_split(u.bucket)
    BY <2>1, <2>4, NeverSplits DEF KeepsBucket
  <2>6. update_pass(local, table, node, Time)
          = [table |-> Put(table, i, u.bucket), again |-> FALSE,
             status |-> u.status, ping |-> u.ping]
    BY <2>3, <2>5
  <2>7. /\ table_update(local, table, node, Time).table = Put(table, i, u.bucket)
        /\ table_update(local, table, node, Time).status = u.status
        /\ table_update(local, table, node, Time).ping = u.ping
    BY <1>1, <1>3, <2>6 DEF table_update
  <2>8. KeepsTable(local, table, Put(table, i, u.bucket))
    BY <2>1, <2>2, <2>4, PutKeeps DEF KeepsBucket
  <2>9. Remembers(local, Put(table, i, u.bucket), id)
    BY <2>4 DEF Remembers, Put, i
  <2> QED
    BY <2>4, <2>7, <2>8, <2>9 DEF node
<1> QED
  BY <1>2, <1>3

(***************************************************************************)
(* A clone of a stored contact makes its bucket move the contact to the    *)
(* back; nobody is dropped.                                                *)
(***************************************************************************)
LEMMA CloneKeeps ==
  ASSUME NEW local, NEW table, GoodTable(local, table), NEW id, NEW clone,
         table_contains(local, table, id) => clone.id = id
  PROVE  KeepsTable(local, table, update_clone(local, table, id, clone, Time))
<1> DEFINE i == bucket_index(local, id)
<1>1. CASE ~table_contains(local, table, id)
  BY <1>1 DEF update_clone, KeepsTable
<1>2. CASE table_contains(local, table, id)
  <2>1. i \in DOMAIN table /\ contains(table[i], id) /\ clone.id = id
    BY <1>2 DEF table_contains
  <2>2. i \in Position /\ GoodBucket(local, table[i], i)
    BY <2>1 DEF GoodTable
  <2>3. \/ bucket_update(local, table[i], clone, Time).bucket = table[i]
        \/ bucket_update(local, table[i], clone, Time).bucket = MoveToBack(table[i], id, Time)
    BY <2>1 DEF bucket_update, Done
  <2>4. update_clone(local, table, id, clone, Time)
          = Put(table, i, bucket_update(local, table[i], clone, Time).bucket)
    BY <1>2 DEF update_clone
  <2> HIDE DEF i
  <2>5. KeepsBucket(local, table[i], bucket_update(local, table[i], clone, Time).bucket, i)
    <3>1. KeepsBucket(local, table[i], table[i], i)
      BY <2>2 DEF KeepsBucket
    <3>2. KeepsBucket(local, table[i], MoveToBack(table[i], id, Time), i)
      BY <2>1, <2>2, MoveToBackKeeps
    <3> QED
      BY <2>3, <3>1, <3>2
  <2> QED
    BY <2>2, <2>4, <2>5, PutKeeps DEF KeepsBucket
<1> QED
  BY <1>1, <1>2

(***************************************************************************)
(* record_success, record_failure and node_seen drop nobody.               *)
(***************************************************************************)
LEMMA RecordingKeeps ==
  ASSUME NEW local, NEW table, GoodTable(local, table), NEW id, NEW ms
  PROVE  /\ KeepsTable(local, table, table_record_success(local, table, id, ms, Time))
         /\ KeepsTable(local, table, table_record_failure(local, table, id, Time))
         /\ KeepsTable(local, table, table_node_seen(local, table, id, Time))
<1> DEFINE node == stored(local, table, id)
           ok == update_last_seen(
                   [node EXCEPT !.response_stats =
                      record_response_time(record_success(@), ms)], Time)
           failed == [node EXCEPT !.response_stats = record_failure(@)]
           seen == update_last_seen(node, Time)
<1>1. ASSUME table_contains(local, table, id)
      PROVE  node \in Contacts /\ node.id = id
  <2> DEFINE b == table[bucket_index(local, id)]
  <2>1. GoodBucket(local, b, bucket_index(local, id)) /\ contains(b, id)
    BY <1>1 DEF table_contains, GoodTable
  <2>2. b.nodes \in Seq(Kept(local, bucket_index(local, id)))
    BY <2>1 DEF GoodBucket
  <2>3. /\ position(b.nodes, id) \in 1 .. Len(b.nodes)
        /\ b.nodes[position(b.nodes, id)].id = id
    BY <2>1, <2>2, PositionFound DEF contains
  <2>4. b.nodes[position(b.nodes, id)] \in Kept(local, bucket_index(local, id))
    BY <2>2, <2>3
  <2> QED
    BY <2>3, <2>4 DEF stored, get, Kept
<1>2. ASSUME node \in Contacts, node.id = id
      PROVE  ok.id = id /\ failed.id = id /\ seen.id = id
  BY <1>2 DEF update_last_seen, Contacts
<1>3. /\ table_record_success(local, table, id, ms, Time)
           = update_clone(local, table, id, ok, Time)
      /\ table_record_failure(local, table, id, Time)
           = update_clone(local, table, id, failed, Time)
      /\ table_node_seen(local, table, id, Time)
           = update_clone(local, table, id, seen, Time)
  BY DEF table_record_success, table_record_failure, table_node_seen
<1> HIDE DEF node, ok, failed, seen
<1> QED
  BY <1>1, <1>2, <1>3, CloneKeeps

(***************************************************************************)
(* RoutingTable::remove forgets nobody but the one it removes.             *)
(***************************************************************************)
LEMMA RemoveKeeps ==
  ASSUME NEW local, NEW table, GoodTable(local, table), NEW id
  PROVE  /\ GoodTable(local, table_remove(local, table, id, Time))
         /\ \A x : x # id /\ Remembers(local, table, x)
                    => Remembers(local, table_remove(local, table, id, Time), x)
<1> DEFINE i == bucket_index(local, id)
           new == bucket_remove(table[i], id, Time)
<1>1. CASE i \notin DOMAIN table
  BY <1>1 DEF table_remove
<1>2. CASE i \in DOMAIN table
  <2>1. table_remove(local, table, id, Time) = Put(table, i, new)
    BY <1>2 DEF table_remove
  <2>2. /\ GoodBucket(local, new, i)
        /\ \A x : x # id /\ Has(table[i], x) => Has(new, x)
    BY <1>2, BucketRemoveKeeps DEF GoodTable
  <2> HIDE DEF i, new
  <2>3. /\ DOMAIN Put(table, i, new) = DOMAIN table
        /\ Put(table, i, new)[i] = new
        /\ \A j \in DOMAIN table : j # i => Put(table, i, new)[j] = table[j]
    BY <1>2 DEF Put
  <2>4. GoodTable(local, Put(table, i, new))
    BY <2>2, <2>3 DEF GoodTable
  <2>5. ASSUME NEW x, x # id, Remembers(local, table, x)
        PROVE  Remembers(local, Put(table, i, new), x)
    BY <2>2, <2>3, <2>5 DEF Remembers
  <2> QED
    BY <2>1, <2>4, <2>5
<1> QED
  BY <1>1, <1>2

-----------------------------------------------------------------------------
(* Tasks and messages.                                                     *)

(***************************************************************************)
(* The handler of a ping is named after the task and the ping it answers.  *)
(***************************************************************************)
LEMMA HandlerName ==
  ASSUME NEW t \in Names, NEW k \in Nat
  PROVE  /\ Append(t, k) \in Names /\ Len(Append(t, k)) = Len(t) + 1
         /\ Front(Append(t, k)) = t /\ Last(Append(t, k)) = k
         /\ Len(t) \in Nat \ {0}
<1> DEFINE S == Nodes \cup Nat
           u == Append(t, k)
<1>1. t \in Seq(S) /\ t # <<>> /\ k \in S
  BY DEF Names
<1>2. Len(t) \in Nat \ {0}
  BY <1>1, EmptySeq
<1>3. /\ u \in Seq(S) /\ Len(u) = Len(t) + 1 /\ u[Len(t) + 1] = k
      /\ \A i \in 1 .. Len(t) : u[i] = t[i]
  BY <1>1, AppendProperties
<1>4. u # <<>>
  BY <1>2, <1>3
<1>5. Last(u) = k
  BY <1>3 DEF Last
<1>6. /\ SubSeq(u, 1, Len(t)) \in Seq(S) /\ Len(SubSeq(u, 1, Len(t))) = Len(t)
      /\ \A i \in 1 .. Len(t) : SubSeq(u, 1, Len(t))[i] = u[i]
  <2>1. \A i \in 1 .. Len(t) : u[i] \in S
    BY <1>1, <1>3, ElementOfSeq
  <2> HIDE DEF S, u
  <2> QED
    BY <1>2, <2>1, SubSeqProperties
<1>7. SubSeq(u, 1, Len(t)) = t
  <2> HIDE DEF S, u
  <2> QED
    BY <1>1, <1>3, <1>6, SeqEqual
<1>8. Front(u) = t
  <2>1. Len(u) - 1 = Len(t)
    BY <1>2, <1>3
  <2> QED
    BY <1>7, <2>1 DEF Front
<1> QED
  BY <1>2, <1>3, <1>4, <1>5, <1>8 DEF Names

\* The step consumes no message but answers to the task t and the ping t answers.
ConsumesFor(t) == \A m \in net \ net' : m.task = t \/ Append(m.task, m.k) = t

(***************************************************************************)
(* A task that begins or goes on, and has sent the ping it waits for.      *)
(***************************************************************************)
LEMMA TaskGoesOn ==
  ASSUME TasksOK, NEW t, NEW task, TaskOK(t, task), PutTask(t, task), ConsumesFor(t),
         lost \subseteq lost',
         task.pc # "record" => \E m \in net' : m.task = t /\ m.k = task.k
  PROVE  TasksOK'
<1>1. /\ DOMAIN tasks' = DOMAIN tasks \cup {t} /\ tasks'[t] = task
      /\ \A s \in DOMAIN tasks : s # t => tasks'[s] = tasks[s]
  BY DEF PutTask
<1>2. IsFiniteSet(DOMAIN tasks')
  BY <1>1, FS_AddElement DEF TasksOK
<1>3. ASSUME NEW s \in DOMAIN tasks', s # t
      PROVE  TaskOK(s, tasks'[s]) /\ AwaitsAnswer(s, tasks'[s], net', DOMAIN tasks', lost')
  <2>1. s \in DOMAIN tasks /\ tasks'[s] = tasks[s] /\ TaskOK(s, tasks[s])
    BY <1>1, <1>3 DEF TasksOK
  <2>2. ASSUME tasks[s].pc # "record"
        PROVE  Answerable(s, tasks[s].k, net', DOMAIN tasks', lost')
    <3>1. Answerable(s, tasks[s].k, net, DOMAIN tasks, lost)
      BY <2>1, <2>2 DEF TasksOK, AwaitsAnswer
    <3>2. CASE Append(s, tasks[s].k) \in DOMAIN tasks
      BY <1>1, <2>1, <3>2 DEF Answerable
    <3>3. ASSUME NEW m \in net, m.task = s, m.k = tasks[s].k
          PROVE  Answerable(s, tasks[s].k, net', DOMAIN tasks', lost')
      BY <1>1, <1>3, <2>1, <3>3 DEF Answerable, ConsumesFor
    <3>4. CASE <<s, tasks[s].k>> \in lost
      BY <3>4 DEF Answerable
    <3> QED
      BY <3>1, <3>2, <3>3, <3>4 DEF Answerable
  <2> QED
    BY <2>1, <2>2 DEF AwaitsAnswer
<1>4. TaskOK(t, tasks'[t]) /\ AwaitsAnswer(t, tasks'[t], net', DOMAIN tasks', lost')
  BY <1>1 DEF AwaitsAnswer, Answerable
<1> QED
  BY <1>2, <1>3, <1>4 DEF TasksOK

(***************************************************************************)
(* A task that ends: a join, for which nobody waits, or a handler that has *)
(* answered.                                                               *)
(***************************************************************************)
LEMMA TaskEnds ==
  ASSUME TasksOK, NEW t, EndTask(t), ConsumesFor(t), lost \subseteq lost',
         \/ Len(t) = 1
         \/ \E m \in net' : m.task = Front(t) /\ m.k = Last(t)
  PROVE  TasksOK'
<1>1. /\ DOMAIN tasks' = DOMAIN tasks \ {t}
      /\ \A s \in DOMAIN tasks' : tasks'[s] = tasks[s]
  BY DEF EndTask
<1>2. IsFiniteSet(DOMAIN tasks')
  BY <1>1, FS_RemoveElement DEF TasksOK
<1>3. ASSUME NEW s \in DOMAIN tasks'
      PROVE  TaskOK(s, tasks'[s]) /\ AwaitsAnswer(s, tasks'[s], net', DOMAIN tasks', lost')
  <2>1. s \in DOMAIN tasks /\ tasks'[s] = tasks[s] /\ TaskOK(s, tasks[s]) /\ s # t
    BY <1>1, <1>3 DEF TasksOK
  <2>2. s \in Names /\ tasks[s].k \in Nat
    BY <2>1 DEF TaskOK
  <2>3. ASSUME Append(s, tasks[s].k) = t
        PROVE  \E m \in net' : m.task = s /\ m.k = tasks[s].k
    <3>1. Front(t) = s /\ Last(t) = tasks[s].k /\ Len(t) = Len(s) + 1 /\ Len(s) \in Nat \ {0}
      BY <2>2, <2>3, HandlerName
    <3> QED
      BY <3>1
  <2>4. ASSUME tasks[s].pc # "record"
        PROVE  Answerable(s, tasks[s].k, net', DOMAIN tasks', lost')
    <3>1. Answerable(s, tasks[s].k, net, DOMAIN tasks, lost)
      BY <2>1, <2>4 DEF TasksOK, AwaitsAnswer
    <3>2. CASE Append(s, tasks[s].k) \in DOMAIN tasks
      BY <1>1, <2>1, <2>3, <3>2 DEF Answerable
    <3>3. ASSUME NEW m \in net, m.task = s, m.k = tasks[s].k
          PROVE  Answerable(s, tasks[s].k, net', DOMAIN tasks', lost')
      BY <2>1, <2>3, <3>3 DEF Answerable, ConsumesFor
    <3>4. CASE <<s, tasks[s].k>> \in lost
      BY <3>4 DEF Answerable
    <3> QED
      BY <3>1, <3>2, <3>3, <3>4 DEF Answerable
  <2> QED
    BY <2>1, <2>4 DEF AwaitsAnswer
<1> QED
  BY <1>2, <1>3 DEF TasksOK

(***************************************************************************)
(* A ping is under way once it is sent.                                    *)
(***************************************************************************)
LEMMA PingIsSent ==
  ASSUME TasksOK, NetOK, lost \subseteq lost', NEW t, NEW task, TaskOK(t, task),
         NEW rest, rest \subseteq net,
         \A m \in net \ rest : m.task = t \/ Append(m.task, m.k) = t,
         NEW pc \in {"check", "ping"}, pc = "ping" => task.stage # "handle",
         NEW target \in NodeIds, SendPing(t, task, pc, target, rest)
  PROVE  TasksOK' /\ NetOK'
<1> DEFINE ping == Ping(t, task.k + 1, task.node, target)
           new == [task EXCEPT !.pc = pc, !.k = @ + 1, !.target = target]
<1>1. net' = rest \cup {ping} /\ PutTask(t, new)
  BY DEF SendPing
<1>2. ping.task = t /\ ping.k = task.k + 1 /\ ping.from = task.node
  BY DEF Ping
<1>3. /\ TaskOK(t, new) /\ new.k = task.k + 1
      /\ task.k + 1 \in Nat /\ task.node \in Nodes /\ t \in Names
  <2> DEFINE Tasks == [pc : {"record", "check", "ping"}, node : Nodes, peer : Nodes,
                       stage : {"enter", "answered", "confirmed", "handle"}, k : Nat,
                       target : NodeIds]
  <2>1. task \in Tasks /\ task.k \in Nat /\ task.node \in Nodes /\ t \in Names
    BY DEF TaskOK
  <2>2. \A n \in Nat : LET next == [task EXCEPT !.pc = pc, !.k = n, !.target = target]
                      IN next \in Tasks /\ next.k = n /\ next.pc = pc /\ next.stage = task.stage
    BY <2>1
  <2>3. /\ task.k + 1 \in Nat
        /\ new = [task EXCEPT !.pc = pc, !.k = task.k + 1, !.target = target]
    BY <2>1
  <2>4. new \in Tasks /\ new.k = task.k + 1 /\ new.pc = pc /\ new.stage = task.stage
    BY <2>2, <2>3
  <2> HIDE DEF new
  <2> QED
    BY <2>1, <2>4 DEF TaskOK
<1> HIDE DEF ping, new
<1>4. ConsumesFor(t)
  BY <1>1 DEF ConsumesFor
<1>5. TasksOK'
  BY <1>1, <1>2, <1>3, <1>4, TaskGoesOn
<1>6. MessageOK(ping)
  BY <1>2, <1>3 DEF MessageOK
<1> QED
  BY <1>1, <1>5, <1>6 DEF NetOK

(***************************************************************************)
(* What follows record_contact leaves nobody waiting in vain: the next     *)
(* ping of a join, its end, or the answer of a handler.                    *)
(***************************************************************************)
LEMMA CarriesOn ==
  ASSUME TasksOK, NetOK, lost \subseteq lost', NEW t, NEW task, TaskOK(t, task),
         NEW rest, rest \subseteq net,
         \A m \in net \ rest : m.task = t \/ Append(m.task, m.k) = t,
         CarryOn(t, task, rest)
  PROVE  TasksOK' /\ NetOK'
<1>1. CASE PingBootstrap(t, task, rest)
  <2>1. /\ task.stage # "handle" /\ SendPing(t, task, "ping", task.peer, rest)
        /\ task.peer \in NodeIds
    BY <1>1, NodesAssumption DEF PingBootstrap, TaskOK
  <2> QED
    BY <2>1, PingIsSent
<1>2. CASE ConfirmSender(t, task, rest)
  <2> DEFINE new == [task EXCEPT !.pc = "record", !.stage = "confirmed"]
  <2>1. PutTask(t, new) /\ net' = rest
    BY <1>2 DEF ConfirmSender
  <2>2. TaskOK(t, new) /\ new.pc = "record"
    BY <1>2 DEF ConfirmSender, TaskOK
  <2> HIDE DEF new
  <2>3. ConsumesFor(t) /\ NetOK'
    BY <2>1 DEF ConsumesFor, NetOK
  <2> QED
    BY <2>1, <2>2, <2>3, TaskGoesOn
<1>3. CASE FinishJoin(t, task, rest)
  <2>1. EndTask(t) /\ net' = rest /\ Len(t) = 1
    BY <1>3 DEF FinishJoin, TaskOK
  <2>2. ConsumesFor(t) /\ NetOK'
    BY <2>1 DEF ConsumesFor, NetOK
  <2> QED
    BY <2>1, <2>2, TaskEnds
<1>4. CASE Answer(t, task, rest)
  <2> DEFINE pong == Pong(Front(t), Last(t), task.peer)
  <2>1. EndTask(t) /\ net' = rest \cup {pong}
    BY <1>4 DEF Answer
  <2>2. pong.task = Front(t) /\ pong.k = Last(t) /\ pong.kind = "response"
    BY DEF Pong
  <2>3. MessageOK(pong)
    BY <1>4, <2>2 DEF MessageOK, Answer, TaskOK
  <2> HIDE DEF pong
  <2>4. ConsumesFor(t) /\ NetOK'
    BY <2>1, <2>3 DEF ConsumesFor, NetOK
  <2> QED
    BY <2>1, <2>2, <2>4, TaskEnds
<1> QED
  BY <1>1, <1>2, <1>3, <1>4 DEF CarryOn

\* Only the table of n changes, and it may forget only "dropped"; n has entered
\* only contacts that it remembers.
TablesStep(n, new, dropped) ==
  /\ buckets' = [buckets EXCEPT ![n] = new] /\ GoodTable(n, new)
  /\ \A id : id \notin dropped /\ Remembers(n, buckets[n], id) => Remembers(n, new, id)
  /\ \A m, id : <<m, id>> \in known' /\ id # m =>
       \/ <<m, id>> \in known /\ ~(m = n /\ id \in dropped)
       \/ m = n /\ Remembers(n, new, id)

(***************************************************************************)
(* A step of the table of one node.                                        *)
(***************************************************************************)
LEMMA TablesKept ==
  ASSUME TablesOK, NobodyForgotten, NEW n \in Nodes, NEW new, NEW dropped,
         TablesStep(n, new, dropped)
  PROVE  TablesOK' /\ NobodyForgotten'
<1>1. /\ buckets' = [m \in Nodes |-> buckets'[m]] /\ buckets'[n] = new
      /\ \A m \in Nodes : m # n => buckets'[m] = buckets[m]
  BY DEF TablesOK, TablesStep
<1>2. TablesOK'
  BY <1>1 DEF TablesOK, TablesStep
<1>3. ASSUME NEW m \in Nodes, NEW p \in Nodes, <<m, p>> \in known', p # m
      PROVE  Remembers(m, buckets'[m], p)
  <2>1. CASE m = n /\ Remembers(n, new, p)
    BY <1>1, <2>1
  <2>2. CASE <<m, p>> \in known /\ ~(m = n /\ p \in dropped)
    <3>1. Remembers(m, buckets[m], p)
      BY <1>3, <2>2 DEF NobodyForgotten
    <3> QED
      BY <1>1, <2>2, <3>1 DEF TablesStep
  <2> QED
    BY <1>3, <2>1, <2>2 DEF TablesStep
<1>4. NobodyForgotten'
  BY <1>3 DEF NobodyForgotten
<1> QED
  BY <1>2, <1>4

(***************************************************************************)
(* record_contact, which pings a contact or carries on.                    *)
(***************************************************************************)
LEMMA RecordsContact ==
  ASSUME TablesOK, NetOK, TasksOK, NobodyForgotten, lost \subseteq lost',
         NEW t, NEW task, TaskOK(t, task), NEW rest, rest \subseteq net,
         \A m \in net \ rest : m.task = t \/ Append(m.task, m.k) = t,
         NEW n \in Nodes, NEW table, KeepsTable(n, buckets[n], table),
         record_contact(n, table, t, task, rest)
  PROVE  JoinInv'
<1> DEFINE update == table_update(n, table, NewContact(task.peer), Time)
<1>1. /\ buckets' = [buckets EXCEPT ![n] = update.table]
      /\ known' = known \cup {<<n, task.peer>>}
      /\ IF update.status = "PendingPing"
           THEN SendPing(t, task, "check", update.ping[1], rest)
           ELSE CarryOn(t, task, rest)
  BY DEF record_contact
<1>2. task.peer \in NodeIds /\ n \in NodeIds /\ GoodTable(n, table)
  BY NodesAssumption DEF TaskOK, KeepsTable
<1>3. /\ KeepsTable(n, table, update.table)
      /\ task.peer # n => Remembers(n, update.table, task.peer)
      /\ update.status = "PendingPing" => update.ping[1] \in NodeIds
  BY <1>2, UpdateKeeps
<1> HIDE DEF update
<1>4. TablesStep(n, update.table, {})
  BY <1>1, <1>3 DEF TablesStep, KeepsTable
<1>5. TablesOK' /\ NobodyForgotten'
  BY <1>4, TablesKept
<1>6. CASE update.status = "PendingPing"
  BY <1>1, <1>3, <1>5, <1>6, PingIsSent DEF JoinInv
<1>7. CASE update.status # "PendingPing"
  BY <1>1, <1>5, <1>7, CarriesOn DEF JoinInv
<1> QED
  BY <1>6, <1>7

-----------------------------------------------------------------------------
(* The specification.                                                      *)

(***************************************************************************)
(* Initially there are no tasks, and a table is empty or has the contact   *)
(* that update has entered in an empty one.                                *)
(***************************************************************************)
LEMMA JoinInitInv == Init => JoinInv
<1> SUFFICES ASSUME Init PROVE JoinInv
  OBVIOUS
<1>1. NetOK
  BY DEF Init, NetOK
<1>2. TasksOK
  BY FS_EmptySet DEF Init, TasksOK
<1>3. PICK tried \in SUBSET (Nodes \ down) :
        /\ buckets = [n \in Nodes |->
             IF n \in tried
               THEN table_update(n, <<>>, NewContact(bootstrap[n]), Time).table
               ELSE <<>>]
        /\ known = {<<n, bootstrap[n]>> : n \in tried}
  BY DEF Init
<1>4. ASSUME NEW n \in Nodes
      PROVE  /\ GoodTable(n, buckets[n])
             /\ n \in tried /\ bootstrap[n] # n => Remembers(n, buckets[n], bootstrap[n])
  <2>1. GoodTable(n, <<>>)
    BY DEF GoodTable
  <2>2. n \in NodeIds /\ bootstrap[n] \in NodeIds
    BY NodesAssumption, BootstrapAssumption
  <2> DEFINE new == table_update(n, <<>>, NewContact(bootstrap[n]), Time).table
  <2>3. GoodTable(n, new) /\ (bootstrap[n] # n => Remembers(n, new, bootstrap[n]))
    BY <2>1, <2>2, UpdateKeeps DEF KeepsTable
  <2> QED
    BY <1>3, <2>1, <2>3
<1>5. buckets = [n \in Nodes |-> buckets[n]]
  BY <1>3
<1>6. NobodyForgotten
  BY <1>3, <1>4 DEF NobodyForgotten
<1> QED
  BY <1>1, <1>2, <1>4, <1>5, <1>6 DEF TablesOK, JoinInv

(***************************************************************************)
(* A join that is called has a task and its ping.                          *)
(***************************************************************************)
LEMMA StartsJoin ==
  ASSUME JoinInv, NEW n \in Nodes, StartJoin(n)
  PROVE  JoinInv'
<1> DEFINE task == NewTask(n, bootstrap[n], "enter")
<1>1. <<n>> \in Names /\ Len(<<n>>) = 1
  BY DEF Names
<1>2. bootstrap[n] \in Nodes /\ bootstrap[n] \in NodeIds
  BY NodesAssumption, BootstrapAssumption
<1>3. TaskOK(<<n>>, task)
  BY <1>1, <1>2 DEF TaskOK, NewTask
<1>4. record_contact(n, buckets[n], <<n>>, task, net) /\ lost \subseteq lost'
  BY DEF StartJoin
<1>5. KeepsTable(n, buckets[n], buckets[n])
  BY DEF JoinInv, TablesOK, KeepsTable
<1> HIDE DEF task
<1> QED
  BY <1>3, <1>4, <1>5, RecordsContact DEF JoinInv

(***************************************************************************)
(* A request that is let through has a handler, or its answer at once.     *)
(***************************************************************************)
LEMMA AdmitsPing ==
  ASSUME JoinInv, NEW n \in Nodes, NEW m \in net, m.kind = "request", Admit(n, m)
  PROVE  JoinInv'
<1> DEFINE t == Append(m.task, m.k)
           task == NewTask(n, m.from, "handle")
           rest == net \ {m}
<1>1. m.task \in Names /\ m.k \in Nat /\ m.from \in Nodes /\ m.from \in NodeIds
  BY NodesAssumption DEF JoinInv, NetOK, MessageOK
<1>2. t \in Names /\ Front(t) = m.task /\ Last(t) = m.k
  BY <1>1, HandlerName
<1>3. record_contact(n, buckets[n], t, task, rest) /\ lost \subseteq lost'
  BY DEF Admit
<1>4. rest \subseteq net /\ \A msg \in net \ rest : Append(msg.task, msg.k) = t
  OBVIOUS
<1> HIDE DEF t, rest
<1>5. TaskOK(t, task)
  BY <1>1, <1>2 DEF TaskOK, NewTask
<1>6. KeepsTable(n, buckets[n], buckets[n])
  BY DEF JoinInv, TablesOK, KeepsTable
<1> HIDE DEF task
<1> QED
  BY <1>3, <1>4, <1>5, <1>6, RecordsContact DEF JoinInv

(***************************************************************************)
(* A message that is dropped: its ping is lost, or nobody waits for it.    *)
(***************************************************************************)
LEMMA DropsMessage ==
  ASSUME JoinInv, NEW m \in net, net' = net \ {m}, lost \subseteq lost',
         UNCHANGED <<buckets, tasks, known>>,
         \/ <<m.task, m.k>> \in lost'
         \/ ~Waits(m, "check") /\ ~Waits(m, "ping")
  PROVE  JoinInv'
<1>1. TablesOK' /\ NetOK' /\ NobodyForgotten'
  BY DEF JoinInv, TablesOK, NetOK, NobodyForgotten
<1>2. ASSUME NEW t \in DOMAIN tasks, tasks[t].pc # "record"
      PROVE  Answerable(t, tasks[t].k, net', DOMAIN tasks, lost')
  <2>1. Answerable(t, tasks[t].k, net, DOMAIN tasks, lost) /\ tasks[t].pc \in {"check", "ping"}
    BY <1>2 DEF JoinInv, TasksOK, AwaitsAnswer, TaskOK
  <2>2. m.task = t /\ m.k = tasks[t].k => <<t, tasks[t].k>> \in lost'
    BY <2>1 DEF Waits
  <2> QED
    BY <2>1, <2>2 DEF Answerable
<1>3. TasksOK'
  BY <1>2 DEF JoinInv, TasksOK, AwaitsAnswer
<1> QED
  BY <1>1, <1>3 DEF JoinInv

(***************************************************************************)
(* An answer is received by the task that waits for it.                    *)
(***************************************************************************)
LEMMA ReceivesPong ==
  ASSUME JoinInv, NEW n \in Nodes, NEW m \in net,
         ReceiveCheckPong(n, m) \/ ReceiveJoinPong(n, m)
  PROVE  JoinInv'
<1> DEFINE t == m.task
           target == tasks[t].target
           recorded == table_record_success(n, buckets[n], target, 1, Time)
           rest == net \ {m}
<1>0. TablesOK /\ NetOK /\ TasksOK /\ NobodyForgotten
  BY DEF JoinInv
<1>1. t \in DOMAIN tasks /\ TaskOK(t, tasks[t]) /\ lost \subseteq lost'
  BY <1>0 DEF ReceiveCheckPong, ReceiveJoinPong, Waits, TasksOK
<1>2. rest \subseteq net /\ \A msg \in net \ rest : msg.task = t
  OBVIOUS
<1>3. GoodTable(n, buckets[n])
  BY <1>0 DEF TablesOK
<1>4. KeepsTable(n, buckets[n], recorded)
  BY <1>3, RecordingKeeps
<1>5. CASE ReceiveCheckPong(n, m)
  <2> DEFINE seen == table_node_seen(n, recorded, target, Time)
  <2>1. /\ buckets' = [buckets EXCEPT ![n] = seen] /\ CarryOn(t, tasks[t], rest)
        /\ known' = known
    BY <1>5 DEF ReceiveCheckPong
  <2> HIDE DEF recorded, target, rest, t
  <2>2. KeepsTable(n, recorded, seen)
    BY <1>4, RecordingKeeps DEF KeepsTable
  <2> HIDE DEF seen
  <2>3. TablesStep(n, seen, {})
    BY <1>4, <2>1, <2>2 DEF TablesStep, KeepsTable
  <2>4. TasksOK' /\ NetOK'
    BY <1>0, <1>1, <1>2, <2>1, CarriesOn
  <2> QED
    BY <1>0, <2>3, <2>4, TablesKept DEF JoinInv
<1>6. CASE ReceiveJoinPong(n, m)
  <2> DEFINE new == [tasks[t] EXCEPT !.stage = "answered"]
  <2>1. record_contact(n, recorded, t, new, rest) /\ tasks[t].pc = "ping"
    BY <1>6 DEF ReceiveJoinPong, Waits
  <2>2. TaskOK(t, new)
    BY <1>1, <2>1 DEF TaskOK
  <2> HIDE DEF recorded, new, rest, t
  <2> QED
    BY <1>0, <1>1, <1>2, <1>4, <2>1, <2>2, RecordsContact
<1> QED
  BY <1>5, <1>6

(***************************************************************************)
(* join enters the contact that has answered once more.                    *)
(***************************************************************************)
LEMMA RecordsAgain ==
  ASSUME JoinInv, NEW n \in Nodes, NEW t \in DOMAIN tasks, RecordConfirmed(n, t)
  PROVE  JoinInv'
<1>1. record_contact(n, buckets[n], t, tasks[t], net) /\ lost \subseteq lost'
  BY DEF RecordConfirmed
<1>2. TaskOK(t, tasks[t]) /\ KeepsTable(n, buckets[n], buckets[n])
  BY DEF JoinInv, TasksOK, TablesOK, KeepsTable
<1> QED
  BY <1>1, <1>2, RecordsContact DEF JoinInv

(***************************************************************************)
(* A timer, whichever of the two it is, leaves the table with everybody.   *)
(***************************************************************************)
LEMMA TimeoutKeeps ==
  ASSUME TablesOK, NEW n \in Nodes, NEW target, NEW table \in AfterTimeout(n, target)
  PROVE  KeepsTable(n, buckets[n], table)
<1>1. GoodTable(n, buckets[n])
  BY DEF TablesOK
<1>2. KeepsTable(n, buckets[n], buckets[n])
  BY <1>1 DEF KeepsTable
<1>3. KeepsTable(n, buckets[n], table_record_failure(n, buckets[n], target, Time))
  BY <1>1, RecordingKeeps
<1> QED
  BY <1>2, <1>3 DEF AfterTimeout

(***************************************************************************)
(* A health check that fails costs nobody a place but the one checked on,  *)
(* and the task carries on.                                                *)
(***************************************************************************)
LEMMA FailsCheck ==
  ASSUME JoinInv, NEW n \in Nodes, NEW t \in DOMAIN tasks, CheckTimesOut(n, t)
  PROVE  JoinInv'
<1> DEFINE target == tasks[t].target
           peer == tasks[t].peer
<1>0. TablesOK /\ NetOK /\ TasksOK /\ NobodyForgotten
  BY DEF JoinInv
<1>1. PICK table \in AfterTimeout(n, target) :
        buckets' = [buckets EXCEPT ![n] =
          table_update(n, table_remove(n, table, target, Time), NewContact(peer), Time).table]
  BY DEF CheckTimesOut
<1>2. /\ known' = (known \ {<<n, target>>}) \cup {<<n, peer>>}
      /\ CarryOn(t, tasks[t], net) /\ lost \subseteq lost'
  BY DEF CheckTimesOut
<1>3. TaskOK(t, tasks[t]) /\ peer \in NodeIds /\ n \in NodeIds
  BY <1>0, NodesAssumption DEF TasksOK, TaskOK
<1> HIDE DEF target, peer
<1> DEFINE removed == table_remove(n, table, target, Time)
           new == table_update(n, removed, NewContact(peer), Time).table
<1>4. KeepsTable(n, buckets[n], table)
  BY <1>0, <1>1, TimeoutKeeps
<1>5. /\ GoodTable(n, removed)
      /\ \A x : x # target /\ Remembers(n, table, x) => Remembers(n, removed, x)
  BY <1>4, RemoveKeeps DEF KeepsTable
<1> HIDE DEF removed
<1>6. KeepsTable(n, removed, new) /\ (peer # n => Remembers(n, new, peer))
  BY <1>3, <1>5, UpdateKeeps
<1>7. buckets' = [buckets EXCEPT ![n] = new]
  BY <1>1 DEF removed
<1> HIDE DEF new
<1>8. TablesStep(n, new, {target})
  BY <1>2, <1>4, <1>5, <1>6, <1>7 DEF TablesStep, KeepsTable
<1>9. TablesOK' /\ NobodyForgotten'
  BY <1>0, <1>8, TablesKept
<1>10. TasksOK' /\ NetOK'
  BY <1>0, <1>2, <1>3, CarriesOn
<1> QED
  BY <1>9, <1>10 DEF JoinInv

(***************************************************************************)
(* A join that fails leaves the table with everybody.                      *)
(***************************************************************************)
LEMMA FailsJoin ==
  ASSUME JoinInv, NEW n \in Nodes, NEW t \in DOMAIN tasks, JoinTimesOut(n, t)
  PROVE  JoinInv'
<1>0. TablesOK /\ NetOK /\ TasksOK /\ NobodyForgotten
  BY DEF JoinInv
<1>1. PICK table \in AfterTimeout(n, tasks[t].target) : buckets' = [buckets EXCEPT ![n] = table]
  BY DEF JoinTimesOut
<1>2. /\ tasks[t].pc = "ping" /\ EndTask(t) /\ net' = net /\ known' = known
      /\ lost \subseteq lost'
  BY DEF JoinTimesOut
<1>3. KeepsTable(n, buckets[n], table)
  BY <1>0, TimeoutKeeps
<1>4. TablesStep(n, table, {})
  BY <1>1, <1>2, <1>3 DEF TablesStep, KeepsTable
<1>5. Len(t) = 1 /\ ConsumesFor(t)
  BY <1>0, <1>2 DEF TasksOK, TaskOK, ConsumesFor
<1>6. TasksOK'
  BY <1>0, <1>2, <1>5, TaskEnds
<1> QED
  BY <1>0, <1>2, <1>4, <1>6, TablesKept DEF JoinInv, NetOK

(***************************************************************************)
(* Every step keeps the invariant.                                         *)
(***************************************************************************)
LEMMA JoinStepInv ==
  ASSUME JoinInv, [Next]_vars
  PROVE  JoinInv'
<1>1. ASSUME NEW m \in net, Lose(m)
      PROVE  JoinInv'
  BY <1>1, DropsMessage DEF Lose
<1>2. ASSUME NEW n \in Nodes, StartJoin(n)
      PROVE  JoinInv'
  BY <1>2, StartsJoin
<1>3. ASSUME NEW n \in Nodes, NEW m \in net, Deliver(n, m)
      PROVE  JoinInv'
  <2>1. CASE ReceivePing(n, m)
    <3>1. CASE Admit(n, m)
      BY <2>1, <3>1, AdmitsPing DEF ReceivePing
    <3>2. CASE Refuse(n, m)
      BY <3>2, DropsMessage DEF Refuse
    <3> QED
      BY <2>1, <3>1, <3>2 DEF ReceivePing
  <2>2. CASE ReceiveCheckPong(n, m) \/ ReceiveJoinPong(n, m)
    BY <2>2, ReceivesPong
  <2>3. CASE PongTooLate(m)
    BY <2>3, DropsMessage DEF PongTooLate
  <2> QED
    BY <1>3, <2>1, <2>2, <2>3 DEF Deliver
<1>4. ASSUME NEW n \in Nodes, NEW t \in DOMAIN tasks, Work(n, t)
      PROVE  JoinInv'
  BY <1>4, RecordsAgain, FailsCheck, FailsJoin DEF Work
<1>5. CASE vars' = vars
  BY <1>5 DEF vars, JoinInv, TablesOK, NetOK, TasksOK, NobodyForgotten
<1> QED
  BY <1>1, <1>2, <1>3, <1>4, <1>5 DEF Next, Run

(***************************************************************************)
(* Every task that waits has its ping, the answer or the handler under     *)
(* way, unless that was lost, and what the tables hold was seen just now   *)
(* and has nothing recorded against it.                                    *)
(***************************************************************************)
THEOREM JoinInvariant == Spec => []JoinInv
<1>1. JoinInv /\ [Next]_vars => JoinInv'
  BY JoinStepInv
<1> QED
  BY <1>1, JoinInitInv, PTL DEF Spec

(***************************************************************************)
(* A name that begins with t still does when it grows.                     *)
(***************************************************************************)
LEMMA PrefixOfHandler ==
  ASSUME NEW t \in Names, NEW s \in Names, NEW k \in Nat, IsPrefix(t, s)
  PROVE  IsPrefix(t, Append(s, k))
<1> DEFINE S == Nodes \cup Nat
           u == Append(s, k)
<1>1. t \in Seq(S) /\ s \in Seq(S) /\ k \in S /\ Len(t) \in Nat /\ Len(s) \in Nat
  BY DEF Names
<1>2. u \in Seq(S) /\ Len(u) = Len(s) + 1 /\ \A i \in 1 .. Len(s) : u[i] = s[i]
  BY <1>1, AppendProperties
<1>3. Len(t) <= Len(s) /\ SubSeq(t, 1, Len(t)) = SubSeq(s, 1, Len(t))
  BY DEF IsPrefix
<1> HIDE DEF S, u
<1>4. SubSeq(u, 1, Len(t)) = SubSeq(s, 1, Len(t))
  BY <1>1, <1>2, <1>3 DEF SubSeq
<1> QED
  BY <1>1, <1>2, <1>3, <1>4 DEF IsPrefix, u

(***************************************************************************)
(* With no message under way and no task at work, a task waits for another *)
(* with a longer name or for a message that was lost: not all of the first *)
(* kind.                                                                   *)
(***************************************************************************)
LEMMA WaitsEnd ==
  ASSUME TasksOK, Quiet, NEW t0 \in DOMAIN tasks
  PROVE  \E s \in DOMAIN tasks : IsPrefix(t0, s) /\ <<s, tasks[s].k>> \in lost
<1> DEFINE D == {s \in DOMAIN tasks : IsPrefix(t0, s)}
           handler == [t \in D |-> Append(t, tasks[t].k)]
           lengths == {Len(t) : t \in D}
<1> SUFFICES ASSUME \A s \in D : <<s, tasks[s].k>> \notin lost PROVE FALSE
  OBVIOUS
<1>0. t0 \in D
  <2>1. t0 \in Names /\ Len(t0) \in Nat
    BY DEF TasksOK, TaskOK, Names
  <2> QED
    BY <2>1 DEF IsPrefix
<1>1. \A t \in D : t \in Names /\ tasks[t].k \in Nat
  BY DEF TasksOK, TaskOK
<1>2. ASSUME NEW t \in D
      PROVE  handler[t] \in D
  <2>1. Append(t, tasks[t].k) \in DOMAIN tasks
    BY <1>2 DEF TasksOK, AwaitsAnswer, Answerable, Quiet
  <2>2. IsPrefix(t0, Append(t, tasks[t].k))
    BY <1>0, <1>1, <1>2, PrefixOfHandler
  <2> QED
    BY <2>1, <2>2
<1>3. ASSUME NEW t \in D
      PROVE  /\ Front(handler[t]) = t /\ Len(handler[t]) = Len(t) + 1
             /\ Len(t) \in Nat
  BY <1>1, <1>3, HandlerName
<1>4. IsFiniteSet(D)
  BY FS_Subset DEF TasksOK
<1> HIDE DEF D
<1>5. handler \in Injection(D, D)
  <2>1. handler \in [D -> D]
    BY <1>2
  <2>2. \A s, t \in D : handler[s] = handler[t] => s = t
    BY <1>3, Zenon
  <2> HIDE DEF handler
  <2> QED
    BY <2>1, <2>2 DEF Injection, IsInjective
<1> HIDE DEF handler
<1>6. handler \in Surjection(D, D)
  BY <1>4, <1>5, FS_Injection
<1>7. lengths \subseteq Nat /\ lengths # {}
  BY <1>0, <1>3
<1>8. PICK t \in D : \A s \in D : Len(t) <= Len(s)
  <2>1. LeastOf(lengths) \in lengths /\ \A l \in lengths : LeastOf(lengths) <= l
    BY <1>7, LeastOfIsLeast
  <2> QED
    BY <2>1
<1>9. PICK s \in D : handler[s] = t
  BY <1>6 DEF Surjection
<1>10. Len(t) = Len(s) + 1 /\ Len(s) \in Nat /\ Len(t) <= Len(s)
  BY <1>3, <1>8, <1>9
<1> QED
  BY <1>10

(***************************************************************************)
(* Handlers ping before they answer, but no wait ends in itself: when only *)
(* timers are left, whoever waits does so for a message that was lost or   *)
(* refused, its own or one further along the chain of handlers.            *)
(***************************************************************************)
THEOREM NoCircularWaitCorrect == Spec => []NoCircularWait
<1>1. JoinInv => NoCircularWait
  BY WaitsEnd DEF JoinInv, NoCircularWait
<1> QED
  BY <1>1, JoinInvariant, PTL

(***************************************************************************)
(* A node forgets nobody that it has entered but the contacts that its own *)
(* health checks had no answer from.                                       *)
(***************************************************************************)
THEOREM NobodyForgottenCorrect == Spec => []NobodyForgotten
<1>1. JoinInv => NobodyForgotten
  BY DEF JoinInv
<1> QED
  BY <1>1, JoinInvariant, PTL

=============================================================================
