----------------------------- MODULE Replication -----------------------------
(***************************************************************************)
(* How a value gets to several nodes and stays there: Node::store, get and *)
(* the republishing and expiration tasks of src/network/node.rs, with the  *)
(* store_value, replicate_to_new_node, handle_store and handle_find_value  *)
(* of src/protocol/operation.rs they use.  There is one key; the values    *)
(* stored under it are numbered in the order of the calls of store.        *)
(*                                                                         *)
(* Routing tables are the sets of their contacts (full buckets are the     *)
(* subject of RoutingTable and Join), a lookup is the one answer it takes  *)
(* its value from (FindValue), and a call has its answer or its timeout    *)
(* (Rpc).  All of this takes seconds to minutes, while the clock counts    *)
(* parts of a day: it moves on only when there is nothing to do.           *)
(***************************************************************************)
EXTENDS Naturals, FiniteSets

CONSTANTS Nodes,
          Distance,            \* how far from the key each of them is
          Newcomer, First,     \* a node that may be new, and whom it knows then
          Phases,              \* when in the interval the nodes may be started
          K,                   \* how many nodes store_value sends to
          DEFAULT_TTL,         \* time-to-live of what a node stores
          REPUBLISH_INTERVAL,  \* between two ticks of a republishing task
          MaxOperations,       \* bound of the calls of store and get
          MaxFaults,           \* bound of crashes, lost messages and late timers
          MaxEvents            \* bound of all these and the ticks of the clock

ASSUME NodesAssumption == IsFiniteSet(Nodes) /\ {Newcomer, First} \subseteq Nodes
ASSUME DistanceAssumption ==
  Distance \in [Nodes -> Nat] /\ \A p, q \in Nodes : Distance[p] = Distance[q] => p = q
ASSUME KAssumption == K \in Nat \ {0}
ASSUME TtlAssumption == DEFAULT_TTL \in Nat \ {0}
ASSUME IntervalAssumption == REPUBLISH_INTERVAL \in Nat \ {0}
ASSUME PhasesAssumption == Phases \subseteq [Nodes -> 0 .. (REPUBLISH_INTERVAL - 1)]
ASSUME BoundsAssumption == {MaxOperations, MaxFaults, MaxEvents} \subseteq Nat

VARIABLES storage,    \* each node's storage
          known,      \* the contacts in each node's table
          tasks,      \* what is under way: the tasks that make calls
          net,        \* the messages under way
          now,        \* the clock
          phase,      \* when in the interval each node was started
          due,        \* the nodes whose republishing task is to run
          fresh,      \* <<n, p>>: n is to replicate to p, which is new to it
          stores, gets, faults,  \* how many of them there were
          lost,       \* how many messages were lost since the last store began
          down,       \* the nodes that have crashed
          clean,      \* the last store has been alone, no timer has fired and no
                      \* message was lost
          settled     \* the value of the last store, if that was so to its end

vars == <<storage, known, tasks, net, now, phase, due, fresh, stores, gets, faults, lost,
          down, clean, settled>>

clockVars == <<now, phase>>
pending == <<due, fresh>>
ghosts == <<clean, settled>>
counters == <<stores, gets, faults, lost>>

MS == INSTANCE MemoryStorage
        WITH Keys <- {"key"}, Values <- 1 .. MaxOperations, Ttls <- {DEFAULT_TTL},
             MaxTime <- MaxEvents, answer <- <<>>

Nothing == MS!Nothing

Room == stores + gets + faults + now < MaxEvents

MayBegin == Room /\ stores + gets < MaxOperations

MayFail == Room /\ faults < MaxFaults

get(n) == MS!lookup(storage[n], "key", now)

store(n, value) ==
  storage' = [storage EXCEPT ![n] = MS!store_with_ttl(@, "key", value, DEFAULT_TTL, now)]

\* The "count" nodes of a set that are closest to the key.
Closest(S, count) ==
  {p \in S : Cardinality({q \in S : Distance[q] < Distance[p]}) < count}

get_closest(n, count) == Closest(known[n], count)

-----------------------------------------------------------------------------
(* Tasks and messages.  The name of a task begins with its node; "to" is   *)
(* the node whose answer it waits for, "queue" holds those it is yet to    *)
(* send its value to; the answer to a message that is not awaited any more *)
(* is dropped.                                                             *)

Client(n) == <<n, "client", n>>
Republisher(n) == <<n, "republish", n>>
Replicator(n, p) == <<n, "replicate", p>>

Task(op, value, to) ==
  [op |-> op, value |-> value, to |-> to, queue |-> {}, direct |-> FALSE]

Message(kind, t, from, to, value) ==
  [kind |-> kind, task |-> t, from |-> from, to |-> to, value |-> value, awaited |-> TRUE]

Answer(kind, m, value) ==
  [m EXCEPT !.kind = kind, !.from = m.to, !.to = m.from, !.value = value]

Put(t, task) == [s \in DOMAIN tasks \cup {t} |-> IF s = t THEN task ELSE tasks[s]]

Without(t) == [s \in DOMAIN tasks \ {t} |-> tasks[s]]

\* What is sent to a node that has crashed vanishes.
Send(m, rest) == net' = IF m.to \in down THEN rest ELSE rest \cup {m}

\* store_value goes through its nodes from the closest on; get_all_nodes, which
\* the direct calls go through, has no order.
Candidates(queue, direct) ==
  IF direct THEN queue ELSE {p \in queue : \A q \in queue : Distance[p] <= Distance[q]}

\* The task calls the next node of the queue.
Call(t, task, queue, rest) ==
  \E p \in Candidates(queue, task.direct) :
    /\ tasks' = Put(t, [task EXCEPT !.to = p, !.queue = queue \ {p}])
    /\ Send(Message("store", t, t[1], p, task.value), rest)

\* Another operation is under way or begins.
Disturb == clean' = FALSE /\ UNCHANGED settled

Full == \A n \in Nodes : known[n] = Nodes \ {n}

\* A network of which every node knows every other, or but for a newcomer that
\* knows one of the others or nobody.
Init ==
  /\ storage = [n \in Nodes |-> MS!EmptyMap]
  /\ \/ known = [n \in Nodes |-> Nodes \ {n}]
     \/ \E contacts \in {{}, {First} \ {Newcomer}} :
          known = [n \in Nodes |-> IF n = Newcomer THEN contacts ELSE Nodes \ {n, Newcomer}]
  /\ tasks = <<>> /\ net = {}
  /\ now = 0 /\ due = {} /\ fresh = {}
  /\ phase \in Phases
  /\ stores = 0 /\ gets = 0 /\ faults = 0 /\ lost = 0
  /\ down = {}
  /\ clean = FALSE /\ settled = Nothing

-----------------------------------------------------------------------------
(* The tasks of a node.                                                    *)

\* Node::store: store_value stores the value locally and begins with the K
\* contacts closest to the key, if there are any.
StartStore(n) ==
  /\ n \notin down /\ Client(n) \notin DOMAIN tasks /\ MayBegin
  /\ stores' = stores + 1 /\ lost' = 0
  /\ store(n, stores')
  /\ \/ Call(Client(n), Task("store", <<stores'>>, n), get_closest(n, K), net)
     \/ known[n] = {} /\ UNCHANGED <<tasks, net>>
  /\ clean' = (tasks = <<>> /\ net = {} /\ fresh = {}) /\ settled' = Nothing
  /\ UNCHANGED <<known, clockVars, pending, gets, faults, down>>

\* The next node of the queue is called.
CallNext(t, rest) == Call(t, tasks[t], tasks[t].queue, rest)

InStoreValue(task) == task.op = "store" /\ ~task.direct

\* A store that leaves it at the K closest contacts.
CallNobody(t, rest) == tasks' = Without(t) /\ net' = rest

\* After store_value, Node::store sends the value to every contact once more.
CallAll(t, rest) == Call(t, [tasks[t] EXCEPT !.direct = TRUE], known[t[1]], rest)

Ends(task) == task.queue = {} /\ ~InStoreValue(task)

Finish(t, rest) ==
  /\ Ends(tasks[t])
  /\ tasks' = Without(t) /\ net' = rest

\* A call has its outcome, which nobody looks at.
Proceed(t, rest) ==
  \/ CallNext(t, rest)
  \/ tasks[t].queue = {} /\ InStoreValue(tasks[t]) /\ CallAll(t, rest)
  \/ Finish(t, rest)

Settle(t) ==
  /\ settled' = IF tasks[t].op = "store" /\ Ends(tasks[t]) /\ clean /\ Full
                  THEN tasks[t].value ELSE settled
  /\ UNCHANGED clean

\* The republishing task reads the storage ...
RepublishRead(n) ==
  /\ n \in due /\ Republisher(n) \notin DOMAIN tasks
  /\ due' = due \ {n}
  /\ tasks' = IF get(n) = Nothing THEN tasks
              ELSE Put(Republisher(n), Task("read", get(n), n))
  /\ Disturb
  /\ UNCHANGED <<storage, known, net, clockVars, fresh, counters, down>>

\* ... and renews it in its own storage only.
RepublishLocally(n) ==
  LET t == Republisher(n)
  IN /\ t \in DOMAIN tasks /\ tasks[t].op = "read"
     /\ store(n, tasks[t].value[1])
     /\ tasks' = Without(t)
     /\ UNCHANGED <<known, net, clockVars, pending, counters, down, ghosts>>

\* ... and hands what it has read to store_value, some time later.
RepublishStore(n) ==
  LET t == Republisher(n)
  IN /\ t \in DOMAIN tasks /\ tasks[t].op = "read"
     /\ store(n, tasks[t].value[1])
     /\ \/ Call(t, Task("republish", tasks[t].value, n), get_closest(n, K), net)
        \/ known[n] = {} /\ tasks' = Without(t) /\ UNCHANGED net
     /\ UNCHANGED <<known, clockVars, pending, counters, down, ghosts>>

\* replicate_to_new_node, once the request of p has been answered.
Replicate(n, p) ==
  /\ <<n, p>> \in fresh
  /\ fresh' = fresh \ {<<n, p>>}
  /\ IF p \in get_closest(n, K) /\ get(n) # Nothing
       THEN Call(Replicator(n, p), Task("replicate", get(n), p), {p}, net)
       ELSE UNCHANGED <<tasks, net>>
  /\ UNCHANGED <<storage, known, clockVars, due, counters, down, ghosts>>

\* get does not find the value in its own storage; the lookup asks p, among
\* others.
StartGet(n, p) ==
  /\ n \notin down /\ Client(n) \notin DOMAIN tasks /\ MayBegin
  /\ get(n) = Nothing /\ known[n] # {}
  /\ gets' = gets + 1
  /\ tasks' = Put(Client(n), Task("get", Nothing, p))
  /\ Send(Message("find", Client(n), n, p, Nothing), net)
  /\ Disturb
  /\ UNCHANGED <<storage, known, clockVars, pending, stores, faults, lost, down>>

-----------------------------------------------------------------------------
(* Messages and timers.                                                    *)

\* record_contact and, for a contact that is new, the replication that follows
\* the answer.
Welcome(n, p) ==
  /\ known' = [known EXCEPT ![n] = @ \cup {p}]
  /\ fresh' = IF p \in known[n] THEN fresh ELSE fresh \cup {<<n, p>>}

\* The answer of a STORE, whose contents nobody looks at and whose sender is in
\* the table already, comes back in the same step, if it is awaited.
StoreAnswered(m) ==
  IF m.awaited THEN Proceed(m.task, net \ {m}) /\ Settle(m.task)
  ELSE net' = net \ {m} /\ UNCHANGED <<tasks, ghosts>>

\* A handler that keeps the value it has.
HandleStoreIfAbsent(m) ==
  /\ m.kind = "store"
  /\ Welcome(m.to, m.from)
  /\ IF get(m.to) = Nothing THEN store(m.to, m.value[1]) ELSE UNCHANGED storage
  /\ StoreAnswered(m)
  /\ UNCHANGED <<clockVars, due, counters, down>>

HandleStore(m) ==
  /\ m.kind = "store"
  /\ Welcome(m.to, m.from)
  /\ store(m.to, m.value[1])
  /\ StoreAnswered(m)
  /\ UNCHANGED <<clockVars, due, counters, down>>

HandleFindValue(m) ==
  /\ m.kind = "find"
  /\ Welcome(m.to, m.from)
  /\ Send(Answer("found", m, get(m.to)), net \ {m})
  /\ UNCHANGED <<storage, tasks, clockVars, due, counters, down, ghosts>>

\* The node that answered is entered in the table, and a value is cached.
Found(m) ==
  /\ m.kind = "found" /\ m.awaited
  /\ known' = [known EXCEPT ![m.to] = @ \cup {m.from}]
  /\ IF m.value # Nothing THEN store(m.to, m.value[1]) ELSE UNCHANGED storage
  /\ tasks' = Without(m.task) /\ net' = net \ {m}
  /\ UNCHANGED <<clockVars, pending, counters, down, ghosts>>

Dropped(m) ==
  /\ m.kind = "found" /\ ~m.awaited
  /\ net' = net \ {m}
  /\ UNCHANGED <<storage, known, tasks, clockVars, pending, counters, down, ghosts>>

Calls(t) == tasks[t].op # "read"

\* The messages under way, when the task t waits for none of them any more.
Unawaited(t) == {IF m.task = t THEN [m EXCEPT !.awaited = FALSE] ELSE m : m \in net}

\* Nobody is there to answer.
CallFails(t) ==
  /\ Calls(t) /\ tasks[t].to \in down /\ \A m \in net : m.task = t => ~m.awaited
  /\ Proceed(t, net) /\ Settle(t)
  /\ UNCHANGED <<storage, known, clockVars, pending, counters, down>>

\* The call or its answer was lost.
CallLost(t) ==
  /\ Calls(t) /\ tasks[t].to \notin down /\ \A m \in net : m.task = t => ~m.awaited
  /\ Proceed(t, net)
  /\ Disturb
  /\ UNCHANGED <<storage, known, clockVars, pending, counters, down>>

\* The timer fires though the call or its answer is still under way.
CallTooLate(t) ==
  /\ Calls(t) /\ tasks[t].to \notin down
  /\ MayFail /\ faults' = faults + 1
  /\ Proceed(t, Unawaited(t))
  /\ Disturb
  /\ UNCHANGED <<storage, known, clockVars, pending, stores, gets, lost, down>>

\* store_value takes longer than Node::store waits for it, which goes on to the
\* direct calls.
StoreValueTooLate(t) ==
  /\ InStoreValue(tasks[t])
  /\ MayFail /\ faults' = faults + 1
  /\ CallAll(t, Unawaited(t))
  /\ UNCHANGED <<storage, known, clockVars, pending, stores, gets, lost, down, ghosts>>

\* The network loses a message, or the limit on requests refuses it; nobody sends it
\* again.
Lose(m) ==
  /\ MayFail /\ faults' = faults + 1 /\ lost' = lost + 1
  /\ net' = net \ {m}
  /\ Disturb
  /\ UNCHANGED <<storage, known, tasks, clockVars, pending, stores, gets, down>>

\* A node stops, and what it stored is gone.
Crash(n) ==
  /\ n \notin down /\ down' = down \cup {n}
  /\ MayFail /\ faults' = faults + 1
  /\ storage' = [storage EXCEPT ![n] = MS!EmptyMap]
  /\ tasks' = [t \in {u \in DOMAIN tasks : u[1] # n} |-> tasks[t]]
  /\ net' = {IF m.task[1] = n THEN [m EXCEPT !.awaited = FALSE] ELSE m :
               m \in {msg \in net : msg.to # n}}
  /\ due' = due \ {n}
  /\ fresh' = {f \in fresh : f[1] # n}
  /\ UNCHANGED <<known, clockVars, stores, gets, lost, ghosts>>

\* Time passes when there is nothing to do; expiration tasks clean up and the
\* timers of republishing tasks fire.
Tick ==
  /\ tasks = <<>> /\ net = {} /\ due = {} /\ fresh = {} /\ Room
  /\ now' = now + 1
  /\ storage' = [n \in Nodes |-> MS!cleanup(storage[n], now')]
  /\ due' = {n \in Nodes \ down : now' % REPUBLISH_INTERVAL = phase[n]}
  /\ UNCHANGED <<known, tasks, net, phase, fresh, counters, down, ghosts>>

Next ==
  \/ \E n \in Nodes : \/ StartStore(n) \/ RepublishRead(n) \/ RepublishStore(n) \/ Crash(n)
                      \/ \E p \in Nodes \ {n} : StartGet(n, p) \/ Replicate(n, p)
  \/ \E m \in net : HandleStore(m) \/ HandleFindValue(m) \/ Found(m) \/ Dropped(m) \/ Lose(m)
  \/ \E t \in DOMAIN tasks : \/ CallFails(t) \/ CallLost(t)
                             \/ CallTooLate(t) \/ StoreValueTooLate(t)
  \/ Tick

Spec == Init /\ [][Next]_vars

-----------------------------------------------------------------------------

\* Once a store has run alone and to its end in a network of which every node
\* knows every other, what was stored before does not come back: neither by
\* republishing, replication or caching, nor by calls that were given up.  (It
\* may when one of these was under way at the time, having read the old value.)
OldStaysAway ==
  settled # Nothing => \A n \in Nodes : get(n) \in {settled, Nothing}

\* Values live exactly as long as it takes a republishing task to come back, so
\* that a node alone may find its values expired when it comes to republish them.
\* The K + 1 nodes closest to the key republish to each other, each when it was
\* started, and so renew each other's values in time: with two different times
\* among them the value survives, and with every further one a lost message or a
\* crash more.
KeptAlive ==
  LET closest == Closest(Nodes, K + 1)
      times == {phase[n] : n \in closest}
  IN settled # Nothing /\ Cardinality(times) >= 2 + lost + Cardinality(down \cap closest)
       => \A n \in closest \ down : get(n) = settled

\* A store that has been alone has stored its value at every running contact of
\* its node by the time it ends, also when some of them have crashed on the way or
\* had never heard of the node before, and at the node itself: what a contact
\* replicates to the newcomer is not the value it had before.
StoreTakesEffect ==
  [][\A n \in Nodes :
       LET t == Client(n)
       IN (/\ t \in DOMAIN tasks /\ tasks[t].op = "store" /\ clean'
           /\ t \notin DOMAIN tasks' /\ n \notin down')
          => \A p \in (known[n] \cup {n}) \ down' : get(p)' = tasks[t].value]_vars

=============================================================================
