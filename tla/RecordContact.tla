--------------------------- MODULE RecordContact ----------------------------
(***************************************************************************)
(* The request handlers of a node up to their reply: handle_request,       *)
(* record_contact and health_check_ping of src/protocol/operation.rs.  The *)
(* handlers of several requests run concurrently and share the routing     *)
(* table; each acquisition of its write lock is one step.  How the health  *)
(* check's ping gets its answer or its timeout is the subject of Rpc; here *)
(* it has an outcome.                                                      *)
(***************************************************************************)
EXTENDS RoutingTable

CONSTANT Handlers           \* tasks that handle requests

VARIABLES handler,          \* each handler's local state; "unanswered" records
                            \* that its ping has failed
          alive             \* the peers that are running

handlerVars == <<buckets, now, handler, alive>>

-----------------------------------------------------------------------------

Idle == [pc |-> "idle"]

HandlerInit == Init /\ handler = [h \in Handlers |-> Idle] /\ alive = Peers

Target(h) == handler[h].target[1]

\* A request of p: the sender is entered in the table, and a full bucket asks
\* for a ping of its least recently seen contact.
Receive(h, p) ==
  /\ handler[h].pc = "idle"
  /\ p \in alive
  /\ LET known == table_contains(local_node_id, buckets, p)
         update == table_update(local_node_id, buckets, NewContact(p), now)
     IN /\ buckets' = update.table
        /\ handler' = [handler EXCEPT ![h] =
             [pc |-> IF update.status = "PendingPing" THEN "ping" ELSE "reply",
              node |-> p, was_known |-> known,
              inserted |-> ~known /\ update.status = "Updated",
              target |-> update.ping, unanswered |-> FALSE]]
  /\ UNCHANGED <<now, alive>>

\* The pinged contact answers and its success is recorded.
PingAnswered(h) ==
  /\ handler[h].pc = "ping"
  /\ Target(h) \in alive
  /\ \E ms \in ResponseTimes :
       buckets' = table_record_success(local_node_id, buckets, Target(h), ms, now)
  /\ handler' = [handler EXCEPT ![h].pc = "seen"]
  /\ UNCHANGED <<now, alive>>

\* The outer timer of the ping fires, be it that the contact is down or that its
\* answer is lost or late: a failure is recorded.
PingTimesOut(h) ==
  /\ handler[h].pc = "ping"
  /\ buckets' = table_record_failure(local_node_id, buckets, Target(h), now)
  /\ handler' = [handler EXCEPT ![h].pc = "evict", ![h].unanswered = TRUE]
  /\ UNCHANGED <<now, alive>>

\* The inner timer fires, or the ping cannot be sent: nothing is recorded.
PingFails(h) ==
  /\ handler[h].pc = "ping"
  /\ handler' = [handler EXCEPT ![h].pc = "evict", ![h].unanswered = TRUE]
  /\ UNCHANGED <<buckets, now, alive>>

\* record_contact marks the contact that answered as seen once more.
MarkSeen(h) ==
  /\ handler[h].pc = "seen"
  /\ buckets' = table_node_seen(local_node_id, buckets, Target(h), now)
  /\ handler' = [handler EXCEPT ![h].pc = "reply"]
  /\ UNCHANGED <<now, alive>>

\* An eviction of whoever is at the front now, not of the contact pinged.
EvictFront(h) ==
  /\ handler[h].pc = "evict"
  /\ LET nodes == buckets[bucket_index(local_node_id, Target(h))].nodes
     IN buckets' = table_remove(local_node_id, buckets, nodes[1].id, now)
  /\ handler' = [handler EXCEPT ![h].pc = "retry"]
  /\ UNCHANGED <<now, alive>>

\* An eviction that leaves the replacement cache alone.
EvictOnly(h) ==
  /\ handler[h].pc = "evict"
  /\ LET i == bucket_index(local_node_id, Target(h))
     IN buckets' = [buckets EXCEPT ![i].nodes =
                      SelectSeq(@, LAMBDA n : n.id # Target(h))]
  /\ handler' = [handler EXCEPT ![h].pc = "retry"]
  /\ UNCHANGED <<now, alive>>

\* The contact that did not answer is removed, wherever it is by now.
Evict(h) ==
  /\ handler[h].pc = "evict"
  /\ buckets' = table_remove(local_node_id, buckets, Target(h), now)
  /\ handler' = [handler EXCEPT ![h].pc = "retry"]
  /\ UNCHANGED <<now, alive>>

\* A second try that counts every outcome as an insertion.
RetryUnchecked(h) ==
  /\ handler[h].pc = "retry"
  /\ buckets' = table_update(local_node_id, buckets, NewContact(handler[h].node), now).table
  /\ handler' = [handler EXCEPT ![h].pc = "reply", ![h].inserted = ~handler[h].was_known]
  /\ UNCHANGED <<now, alive>>

\* The sender gets a second try; a second PendingPing is ignored.
Retry(h) ==
  /\ handler[h].pc = "retry"
  /\ LET update == table_update(local_node_id, buckets, NewContact(handler[h].node), now)
     IN /\ buckets' = update.table
        /\ handler' = [handler EXCEPT
             ![h].pc = "reply",
             ![h].inserted = @ \/ (update.status = "Updated" /\ ~handler[h].was_known)]
  /\ UNCHANGED <<now, alive>>

\* The handler replies and, to an inserted contact, replicates.
Reply(h) ==
  /\ handler[h].pc = "reply"
  /\ handler' = [handler EXCEPT ![h] = Idle]
  /\ UNCHANGED <<buckets, now, alive>>

Step(h) == \/ PingAnswered(h) \/ PingTimesOut(h) \/ PingFails(h)
           \/ MarkSeen(h) \/ Evict(h) \/ Retry(h) \/ Reply(h)

Crash(p) ==
  /\ p \in alive
  /\ alive' = alive \ {p}
  /\ UNCHANGED <<buckets, now, handler>>

HandlerClock == Clock /\ UNCHANGED <<handler, alive>>

HandlerNext ==
  \/ \E h \in Handlers : Step(h) \/ \E p \in Peers : Receive(h, p)
  \/ \E p \in Peers : Crash(p)
  \/ HandlerClock

HandlerSpec == HandlerInit /\ [][HandlerNext]_handlerVars

-----------------------------------------------------------------------------

\* The handlers change the table by its operations only, one per step, so that
\* everything the routing table promises holds however they interleave.
HandlersUseTheTable == Spec

\* A contact leaves the table only for being silent, or by the eviction of a
\* handler that has pinged this very contact in vain: the ping's outcome is
\* applied to whoever was pinged, not to whoever has become least recently seen
\* since, and a contact that answers its pings is never evicted by them.
EvictsOnlyItsTarget ==
  [][\A i \in DOMAIN buckets : \A p \in Peers :
       ListedAt(buckets, i, p) /\ ~ListedAt(buckets', i, p) =>
         \/ \E h \in Handlers : Evict(h) /\ Target(h) = p /\ handler[h].unanswered
         \/ /\ buckets[i].nodes[1].id = p
            /\ now > buckets[i].nodes[1].last_seen + NODE_TIMEOUT]_handlerVars

\* handle_request replicates to contacts that have just entered the table: when
\* a handler decides that its sender was inserted, the sender is listed.
InsertedMeansListed ==
  [][\A h \in Handlers :
       handler'[h].pc = "reply" /\ handler[h].pc # "reply" /\ handler'[h].inserted =>
         /\ table_contains(local_node_id, buckets', handler'[h].node)
         /\ ~handler'[h].was_known]_handlerVars

=============================================================================
