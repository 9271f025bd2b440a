-------------------------------- MODULE Join --------------------------------
(***************************************************************************)
(* A network of nodes that join it at the same time: Node::join of         *)
(* src/network/node.rs up to its lookup (which is FindNode), the handlers  *)
(* of the pings it causes, the health checks these make before they answer *)
(* (record_contact of src/protocol/operation.rs) and the limit on requests *)
(* of src/network/udp.rs.  Every node has its own routing table; a task's  *)
(* work between two messages is one step (how such steps interleave at the *)
(* table's lock is RecordContact's subject).                               *)
(*                                                                         *)
(* A timer, of 5 seconds for a contact that is listed and of RPC_TIMEOUT = *)
(* 30 seconds for another, may fire whatever is under way: a message may   *)
(* be late or lost, and the handler may be waiting itself.  The model is   *)
(* of the first minute: no window of the limit begins anew and no contact  *)
(* is silent for NODE_TIMEOUT, so that the clock of the tables and of the  *)
(* windows stands still.                                                   *)
(***************************************************************************)
EXTENDS Table

CONSTANTS MAX_REQUESTS_PER_WINDOW,
          Nodes,            \* identifiers, one address each
          bootstrap,        \* the node each of them is told to join
          MaxDown,          \* how many nodes may be down
          MaxJoins,         \* how many nodes join
          MaxLost,          \* how many messages to running nodes may be lost
          MaxTimeouts       \* how many timers may fire

ASSUME NodesAssumption == Nodes \subseteq NodeIds
ASSUME BootstrapAssumption == bootstrap \in [Nodes -> Nodes]

VARIABLES buckets,          \* each node's routing table
          rate_limit_table, \* each node's windows
          tasks,            \* the joins and request handlers under way
          net,              \* the messages under way
          started,          \* the nodes whose join was called
          down,             \* the nodes that do not run
          timeouts,         \* the timers that have fired
          lost,             \* pings <<task, k>> that were lost or refused, or
                            \* whose answer was lost
          known             \* pairs <<n, p>>: n has entered p in its table, and
                            \* no check of n on p has failed since

vars == <<buckets, rate_limit_table, tasks, net, started, down, timeouts, lost, known>>

Time == 0

RL == INSTANCE RateLimit
        WITH Ips <- Nodes, RATE_LIMIT_WINDOW <- 60, MaxTime <- Time, now <- Time,
             admitted <- {}, refused <- {}

-----------------------------------------------------------------------------
(* A task is named by the path of pings that led to it: <<n>> is the join  *)
(* of n, Append(t, k) the handler of the k-th ping of task t.              *)

Ping(t, k, from, to) == [kind |-> "request", task |-> t, k |-> k, from |-> from, to |-> to]
Pong(t, k, to) == [kind |-> "response", task |-> t, k |-> k, to |-> to]

\* "node" runs the task, "peer" is the contact it enters in the table, "stage"
\* the call of record_contact it is at, "k" the number of pings it has sent and
\* "target" whom it has pinged last.
NewTask(node, peer, stage) ==
  [pc |-> "record", node |-> node, peer |-> peer, stage |-> stage, k |-> 0, target |-> peer]

PutTask(t, task) ==
  tasks' = [s \in DOMAIN tasks \cup {t} |-> IF s = t THEN task ELSE tasks[s]]

EndTask(t) == tasks' = [s \in DOMAIN tasks \ {t} |-> tasks[s]]

\* Nodes that have tried to join while their bootstrap node was not running yet
\* have its contact in their table; the others' are empty.
Init ==
  /\ down \in {D \in SUBSET Nodes : Cardinality(D) <= MaxDown}
  /\ \E tried \in SUBSET (Nodes \ down) :
       /\ buckets = [n \in Nodes |->
            IF n \in tried
              THEN table_update(n, <<>>, NewContact(bootstrap[n]), Time).table
              ELSE <<>>]
       /\ known = {<<n, bootstrap[n]>> : n \in tried}
  /\ rate_limit_table = [n \in Nodes |-> RL!NoWindows]
  /\ tasks = <<>>
  /\ net = {}
  /\ started = {}
  /\ timeouts = 0
  /\ lost = {}

-----------------------------------------------------------------------------
(* The steps of a task "t" in state "task", while "rest" are the messages  *)
(* under way.                                                              *)

\* A ping of "target", whose outcome the task waits for.
SendPing(t, task, pc, target, rest) ==
  /\ net' = rest \cup {Ping(t, task.k + 1, task.node, target)}
  /\ PutTask(t, [task EXCEPT !.pc = pc, !.k = @ + 1, !.target = target])

\* join validates its bootstrap contact.
PingBootstrap(t, task, rest) ==
  /\ task.stage = "enter"
  /\ SendPing(t, task, "ping", task.peer, rest)

\* ping has entered the sender of the answer; join does so again.
ConfirmSender(t, task, rest) ==
  /\ task.stage = "answered"
  /\ PutTask(t, [task EXCEPT !.pc = "record", !.stage = "confirmed"])
  /\ net' = rest

FinishJoin(t, task, rest) ==
  /\ task.stage = "confirmed"
  /\ EndTask(t)
  /\ net' = rest

\* A handler that returns early after a health check.
AnswerUnlessChecked(t, task, rest) ==
  /\ task.stage = "handle"
  /\ net' = IF task.k = 0 THEN rest \cup {Pong(Front(t), Last(t), task.peer)} ELSE rest
  /\ EndTask(t)

\* handle_ping.
Answer(t, task, rest) ==
  /\ task.stage = "handle"
  /\ net' = rest \cup {Pong(Front(t), Last(t), task.peer)}
  /\ EndTask(t)

\* What follows when record_contact has returned.
CarryOn(t, task, rest) ==
  \/ PingBootstrap(t, task, rest)
  \/ ConfirmSender(t, task, rest)
  \/ FinishJoin(t, task, rest)
  \/ Answer(t, task, rest)

\* The peer enters the table of node n, unless its bucket is full and the least
\* recently seen contact is to be pinged first.
record_contact(n, table, t, task, rest) ==
  LET update == table_update(n, table, NewContact(task.peer), Time)
  IN /\ buckets' = [buckets EXCEPT ![n] = update.table]
     /\ known' = known \cup {<<n, task.peer>>}
     /\ IF update.status = "PendingPing"
          THEN SendPing(t, task, "check", update.ping[1], rest)
          ELSE CarryOn(t, task, rest)

-----------------------------------------------------------------------------

\* join enters the bootstrap contact before it has been heard of.
StartJoin(n) ==
  /\ n \notin started /\ Cardinality(started) < MaxJoins
  /\ started' = started \cup {n}
  /\ record_contact(n, buckets[n], <<n>>, NewTask(n, bootstrap[n], "enter"), net)
  /\ UNCHANGED <<rate_limit_table, down, timeouts, lost>>

\* The limit lets the request through, and it gets a handler of its own.
Admit(n, m) ==
  /\ RL!allowed(rate_limit_table[n], m.from, Time)
  /\ record_contact(n, buckets[n], Append(m.task, m.k), NewTask(n, m.from, "handle"),
                    net \ {m})
  /\ UNCHANGED lost

Refuse(n, m) ==
  /\ ~RL!allowed(rate_limit_table[n], m.from, Time)
  /\ net' = net \ {m}
  /\ lost' = lost \cup {<<m.task, m.k>>}
  /\ UNCHANGED <<buckets, tasks, known>>

ReceivePing(n, m) ==
  /\ m.kind = "request"
  /\ rate_limit_table' = [rate_limit_table EXCEPT ![n] =
                            RL!check_rate_limit(@, m.from, Time)]
  /\ Admit(n, m) \/ Refuse(n, m)
  /\ UNCHANGED <<started, down, timeouts>>

Waits(m, pc) ==
  m.task \in DOMAIN tasks /\ tasks[m.task].k = m.k /\ tasks[m.task].pc = pc

\* health_check_ping has its answer: the contact counts as seen and stays, the
\* peer waits in the replacement cache.
ReceiveCheckPong(n, m) ==
  /\ m.kind = "response" /\ Waits(m, "check")
  /\ LET target == tasks[m.task].target
         recorded == table_record_success(n, buckets[n], target, 1, Time)
     IN buckets' = [buckets EXCEPT ![n] = table_node_seen(n, recorded, target, Time)]
  /\ CarryOn(m.task, tasks[m.task], net \ {m})
  /\ UNCHANGED <<rate_limit_table, started, down, timeouts, lost, known>>

\* The bootstrap contact has answered join's ping, which enters it.
ReceiveJoinPong(n, m) ==
  /\ m.kind = "response" /\ Waits(m, "ping")
  /\ LET task == tasks[m.task]
     IN record_contact(n, table_record_success(n, buckets[n], task.target, 1, Time),
                       m.task, [task EXCEPT !.stage = "answered"], net \ {m})
  /\ UNCHANGED <<rate_limit_table, started, down, timeouts, lost>>

\* join enters it again.
RecordConfirmed(n, t) ==
  /\ tasks[t].pc = "record"
  /\ record_contact(n, buckets[n], t, tasks[t], net)
  /\ UNCHANGED <<rate_limit_table, started, down, timeouts, lost>>

\* The answer comes after the timer has fired.
PongTooLate(m) ==
  /\ m.kind = "response" /\ ~Waits(m, "check") /\ ~Waits(m, "ping")
  /\ net' = net \ {m}
  /\ UNCHANGED <<buckets, rate_limit_table, tasks, started, down, timeouts, lost, known>>

\* The network loses a message, or nobody runs at its address.
Lose(m) ==
  /\ m.to \in down \/ Cardinality(lost) < MaxLost
  /\ net' = net \ {m}
  /\ lost' = lost \cup {<<m.task, m.k>>}
  /\ UNCHANGED <<buckets, rate_limit_table, tasks, started, down, timeouts, known>>

\* The table when a ping has no answer in time: of the two timers, both of the same
\* length, the outer one records a failure and the inner one leaves by "?".
AfterTimeout(n, target) ==
  {buckets[n], table_record_failure(n, buckets[n], target, Time)}

\* A failed check that removes whoever is the least recently seen by now.
CheckTimesOutOnFront(n, t) ==
  /\ timeouts < MaxTimeouts /\ timeouts' = timeouts + 1
  /\ tasks[t].pc = "check"
  /\ LET target == tasks[t].target
         peer == tasks[t].peer
         front == buckets[n][bucket_index(n, target)].nodes[1].id
     IN /\ buckets' = [buckets EXCEPT ![n] =
             table_update(n, table_remove(n, @, front, Time), NewContact(peer), Time).table]
        /\ known' = (known \ {<<n, target>>}) \cup {<<n, peer>>}
  /\ CarryOn(t, tasks[t], net)
  /\ UNCHANGED <<rate_limit_table, started, down, lost>>

\* The contact that did not answer a health check is removed, and the peer gets
\* a second try.
CheckTimesOut(n, t) ==
  /\ timeouts < MaxTimeouts /\ timeouts' = timeouts + 1
  /\ tasks[t].pc = "check"
  /\ LET target == tasks[t].target
         peer == tasks[t].peer
     IN /\ \E table \in AfterTimeout(n, target) :
             buckets' = [buckets EXCEPT ![n] =
               table_update(n, table_remove(n, table, target, Time),
                            NewContact(peer), Time).table]
        /\ known' = (known \ {<<n, target>>}) \cup {<<n, peer>>}
  /\ CarryOn(t, tasks[t], net)
  /\ UNCHANGED <<rate_limit_table, started, down, lost>>

\* join fails, and the bootstrap contact stays where it is.
JoinTimesOut(n, t) ==
  /\ timeouts < MaxTimeouts /\ timeouts' = timeouts + 1
  /\ tasks[t].pc = "ping"
  /\ \E table \in AfterTimeout(n, tasks[t].target) :
       buckets' = [buckets EXCEPT ![n] = table]
  /\ EndTask(t)
  /\ UNCHANGED <<rate_limit_table, net, started, down, lost, known>>

Deliver(n, m) == \/ ReceivePing(n, m) \/ ReceiveCheckPong(n, m)
                 \/ ReceiveJoinPong(n, m) \/ PongTooLate(m)

Work(n, t) == RecordConfirmed(n, t) \/ CheckTimesOut(n, t) \/ JoinTimesOut(n, t)

Run(n) == \/ \E m \in net : m.to = n /\ Deliver(n, m)
          \/ \E t \in DOMAIN tasks : tasks[t].node = n /\ Work(n, t)

Next == \/ \E n \in Nodes \ down : StartJoin(n) \/ Run(n)
        \/ \E m \in net : Lose(m)

Spec == Init /\ [][Next]_vars

-----------------------------------------------------------------------------

\* No message is under way and no task is at work: only a timer can go on.
Quiet == net = {} /\ \A t \in DOMAIN tasks : tasks[t].pc # "record"

\* Handlers ping before they answer, and whom they ping may do the same, around a
\* circle of full buckets back to the first.  No wait ends in itself: every
\* request has a task of its own, answers whatever its check came to, and so, when
\* only timers are left, whoever waits does so for a message that was lost or
\* refused, its own or one further along the chain of handlers.
NoCircularWait ==
  Quiet =>
    \A t \in DOMAIN tasks : \E s \in DOMAIN tasks :
      IsPrefix(t, s) /\ <<s, tasks[s].k>> \in lost

\* The contact is in the bucket or waits in its replacement cache.
Has(b, id) == contains(b, id) \/ Positions(b.replacement_cache, id) # {}

Remembers(n, table, id) ==
  bucket_index(n, id) \in DOMAIN table /\ Has(table[bucket_index(n, id)], id)

\* Whatever overlaps (several checks on the same contact, evictions that promote
\* somebody else's peer, a join that fails half way), a node forgets nobody that
\* it has entered but the contacts its own checks had no answer from.
NobodyForgotten ==
  \A n, p \in Nodes : <<n, p>> \in known /\ p # n => Remembers(n, buckets[n], p)

=============================================================================
