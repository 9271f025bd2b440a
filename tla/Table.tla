------------------------------- MODULE Table --------------------------------
(***************************************************************************)
(* A routing table of src/routing/routing_table.rs as a value: a map from  *)
(* bucket index to k-bucket.  Every operation is a function of the table;  *)
(* "local" is the node it belongs to and "time" the clock the operation    *)
(* reads.                                                                  *)
(***************************************************************************)
EXTENDS KBucket

Put(table, index, b) ==
  [i \in DOMAIN table \cup {index} |-> IF i = index THEN b ELSE table[i]]

get_or_create_bucket(table, index) ==
  IF index \in DOMAIN table THEN table[index] ELSE new_bucket(index)

table_contains(local, table, id) ==
  bucket_index(local, id) \in DOMAIN table /\ contains(table[bucket_index(local, id)], id)

\* A pass that puts the contact in the bucket after the one of its index.
update_pass_shifted(local, table, node, time) ==
  LET index == (bucket_index(local, node.id) + 1) % KEY_LENGTH_BITS
      u == bucket_update(local, get_or_create_bucket(table, index), node, time)
  IN [table |-> Put(table, index, u.bucket),
      again |-> FALSE, status |-> u.status, ping |-> u.ping]

\* The body of update() up to its tail call: "again" asks for another pass,
\* after a bucket was split in two.
update_pass(local, table, node, time) ==
  LET index == bucket_index(local, node.id)
      u == bucket_update(local, get_or_create_bucket(table, index), node, time)
  IN IF should_split(u.bucket) /\ index < KEY_LENGTH_BITS - 1
       THEN [table |-> Put(Put(table, index, split_half(local, u.bucket, FALSE, time)),
                           index + 1, split_half(local, u.bucket, TRUE, time)),
             again |-> TRUE, status |-> "Updated", ping |-> NoPing]
       ELSE [table |-> Put(table, index, u.bucket),
             again |-> FALSE, status |-> u.status, ping |-> u.ping]

\* The tail calls of update(): every split lengthens the prefix, so that at
\* most KEY_LENGTH_BITS of them follow.
update_after_split(local, pass, node, time) ==
  LET passes[n \in 0 .. KEY_LENGTH_BITS] ==
        IF n = 0 THEN pass
        ELSE IF passes[n - 1].again
          THEN update_pass(local, passes[n - 1].table, node, time)
          ELSE passes[n - 1]
  IN passes[KEY_LENGTH_BITS]

\* An update that does not look for the local node's own identifier.
update_without_self_check(local, table, node, time) ==
  LET pass == update_pass(local, table, node, time)
  IN IF pass.again THEN update_after_split(local, pass, node, time) ELSE pass

table_update(local, table, node, time) ==
  IF node.id = local
    THEN [table |-> table, again |-> FALSE, status |-> "Unchanged", ping |-> NoPing]
    ELSE LET pass == update_pass(local, table, node, time)
         IN IF pass.again THEN update_after_split(local, pass, node, time) ELSE pass

stored(local, table, id) == get(table[bucket_index(local, id)], id)

\* node_seen, record_success and record_failure hand a modified clone of the
\* stored contact to the bucket's update; unknown identifiers are ignored.
update_clone(local, table, id, clone, time) ==
  IF table_contains(local, table, id)
    THEN LET index == bucket_index(local, id)
         IN Put(table, index, bucket_update(local, table[index], clone, time).bucket)
    ELSE table

table_node_seen(local, table, id, time) ==
  update_clone(local, table, id, update_last_seen(stored(local, table, id), time), time)

table_record_success(local, table, id, ms, time) ==
  LET clone == [stored(local, table, id) EXCEPT
                  !.response_stats = record_response_time(record_success(@), ms)]
  IN update_clone(local, table, id, update_last_seen(clone, time), time)

table_record_failure(local, table, id, time) ==
  LET clone == [stored(local, table, id) EXCEPT !.response_stats = record_failure(@)]
  IN update_clone(local, table, id, clone, time)

table_remove(local, table, id, time) ==
  LET index == bucket_index(local, id)
  IN IF index \in DOMAIN table
       THEN Put(table, index, bucket_remove(table[index], id, time))
       ELSE table

\* All contacts, as the places where they are: a HashMap has no order.
get_all_nodes(table) == UNION {{i} \X DOMAIN table[i].nodes : i \in DOMAIN table}

NodeAt(table, at) == table[at[1]].nodes[at[2]]

\* The places that sort_by, which is stable, puts first, up to "at".
UpTo(table, target, at) ==
  LET id == NodeAt(table, at).id
  IN {x \in get_all_nodes(table) :
        \/ Closer(target, NodeAt(table, x).id, id)
        \/ /\ NodeAt(table, x).id = id
           /\ x[1] < at[1] \/ (x[1] = at[1] /\ x[2] <= at[2])}

Truncated(table, count) ==
  LET total == Cardinality(get_all_nodes(table))
  IN 1 .. (IF count < total THEN count ELSE total)

\* A comparison the wrong way round: closest to the opposite comes first.
get_farthest(table, target, count) ==
  LET opposite == [p \in Position |-> 1 - target[p]]
  IN [r \in Truncated(table, count) |->
        NodeAt(table, CHOOSE at \in get_all_nodes(table) :
                        Cardinality(UpTo(table, opposite, at)) = r)]

\* The "count" contacts closest to the target, closest first.
get_closest(table, target, count) ==
  [r \in Truncated(table, count) |->
     NodeAt(table, CHOOSE at \in get_all_nodes(table) :
                     Cardinality(UpTo(table, target, at)) = r)]

=============================================================================
