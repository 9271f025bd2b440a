------------------------- MODULE Replication_proofs -------------------------
(***************************************************************************)
(* Values on several nodes, for every finite network, every distance of    *)
(* its nodes from the key, every number of operations, crashes and lost    *)
(* messages: a store that runs alone takes effect, what was stored before  *)
(* it stays away, and nodes that republish out of phase keep it alive.     *)
(***************************************************************************)
EXTENDS Replication, FiniteSetTheorems, TLAPS

-----------------------------------------------------------------------------
(* Types, and how tasks and messages belong together.                      *)

Vals == {<<v>> : v \in Nat}

Entries == [value : Nat, timestamp : Nat, ttl : {DEFAULT_TTL}]

IsMap(map) == DOMAIN map \subseteq {"key"} /\ ("key" \in DOMAIN map => map["key"] \in Entries)

Kinds == {"client", "republish", "replicate"}

KindOf(op) == IF op \in {"store", "get"} THEN "client"
              ELSE IF op = "replicate" THEN "replicate" ELSE "republish"

TaskRecords ==
  [op : {"store", "get", "read", "republish", "replicate"}, value : Vals \cup {Nothing},
   to : Nodes, queue : SUBSET Nodes, direct : BOOLEAN]

\* A task t that waits for "to", whom its node knows or a lookup has found.
TaskOK(t, task) ==
  /\ t \in Nodes \X Kinds \X Nodes /\ t[1] \notin down
  /\ task \in TaskRecords
  /\ t[2] = KindOf(task.op)
  /\ t[2] # "replicate" => t[3] = t[1]
  /\ t[2] = "replicate" => t[3] \in known[t[1]] /\ <<t[1], t[3]>> \notin fresh
  /\ task.op = "get" <=> task.value = Nothing
  /\ task.op \in {"get", "read", "replicate"} => task.queue = {}
  /\ task.op # "read" => task.to # t[1]
  /\ task.queue \subseteq known[t[1]]

\* A message is on its way between two nodes, of which the sender of a STORE
\* knows the other; one that is awaited is the call its task is at.
MessageOK(m) ==
  /\ m \in [kind : {"store", "find", "found"}, task : Nodes \X Kinds \X Nodes,
            from : Nodes, to : Nodes, value : Vals \cup {Nothing}, awaited : BOOLEAN]
  /\ m.from # m.to /\ m.to \notin down
  /\ m.kind = "store" => m.value \in Vals /\ m.from = m.task[1] /\ m.to \in known[m.from]
  /\ m.kind = "find" => m.from = m.task[1]
  /\ m.kind = "found" => m.to = m.task[1]
  /\ m.kind # "store" => m.task[2] = "client"
  /\ m.awaited =>
       /\ m.task \in DOMAIN tasks
       /\ tasks[m.task].op # "read"
       /\ m.kind = "store" <=> tasks[m.task].op # "get"
       /\ m.kind = "store" => m.to = tasks[m.task].to

TypeInv ==
  /\ storage = [n \in Nodes |-> storage[n]] /\ \A n \in Nodes : IsMap(storage[n])
  /\ \A n \in down : "key" \notin DOMAIN storage[n]
  /\ known \in [Nodes -> SUBSET Nodes] /\ \A n \in Nodes : n \notin known[n]
  /\ now \in Nat /\ phase \in [Nodes -> 0 .. (REPUBLISH_INTERVAL - 1)]
  /\ due \subseteq Nodes \ down /\ down \subseteq Nodes
  /\ fresh \subseteq Nodes \X Nodes
  /\ \A f \in fresh : f[1] \notin down /\ f[2] \in known[f[1]]
  /\ stores \in Nat /\ lost \in Nat /\ clean \in BOOLEAN /\ settled \in Vals \cup {Nothing}

TasksOK == \A t \in DOMAIN tasks : TaskOK(t, tasks[t])

NetOK ==
  /\ \A m \in net : MessageOK(m)
  /\ \A m1, m2 \in net : m1.awaited /\ m2.awaited /\ m1.task = m2.task => m1 = m2

BaseInv == TypeInv /\ TasksOK /\ NetOK

-----------------------------------------------------------------------------
(* What a store that runs alone has achieved.                              *)

\* The node p has stored the given value just now.
HasNow(p, value) ==
  /\ "key" \in DOMAIN storage[p]
  /\ storage[p]["key"] = [value |-> value, timestamp |-> now, ttl |-> DEFAULT_TTL]

\* The store of n has its value at n and, in its direct calls, at every contact
\* it has called; whoever sends to n is a contact of n already.
Storing(n) ==
  LET task == tasks[Client(n)]
  IN /\ HasNow(n, stores)
     /\ task.direct =>
          \A p \in known[n] \ (down \cup {task.to} \cup task.queue) : HasNow(p, stores)
     /\ \A m \in net : m.to = n => m.from \in known[n]

CleanInv ==
  clean =>
    /\ \A t \in DOMAIN tasks : /\ tasks[t].op \in {"store", "replicate"}
                               /\ tasks[t].value = <<stores>>
    /\ \A m \in net : m.kind = "store" /\ m.value = <<stores>>
    /\ \A f \in fresh : HasNow(f[1], stores) /\ f[1] \in known[f[2]]
    /\ \A n \in Nodes : Client(n) \in DOMAIN tasks => Storing(n)
    /\ \A n, p \in Nodes : {Client(n), Client(p)} \subseteq DOMAIN tasks => n = p

\* Once a store is settled, everybody knows everybody, and nothing but its value
\* is stored or under way.
SettledInv ==
  settled # Nothing =>
    /\ Full
    /\ \A n \in Nodes : "key" \in DOMAIN storage[n] => <<storage[n]["key"].value>> = settled
    /\ \A t \in DOMAIN tasks : tasks[t].value \in {settled, Nothing}
    /\ \A m \in net : m.value \in {settled, Nothing}

-----------------------------------------------------------------------------
(* How republishing keeps it alive.                                        *)

Core == Closest(Nodes, K + 1)

\* The node p has stored its value just now.
Stamped(p) == "key" \in DOMAIN storage[p] /\ storage[p]["key"].timestamp = now

\* It has, or the value is on its way to p, or the republishing of c is to send it.
Covered(c, p) ==
  \/ Stamped(p)
  \/ \E m \in net : m.kind = "store" /\ m.to = p
  \/ Republisher(c) \in DOMAIN tasks /\ p \in tasks[Republisher(c)].queue

\* The task of c that has read the storage.
HasRead(c) == Republisher(c) \in DOMAIN tasks /\ tasks[Republisher(c)].op = "read"

\* The republishing of c, which is due at this time, will have renewed p before time
\* goes on.
Renews(c, p) == c \in due \/ HasRead(c) \/ Covered(c, p)

Pending(p) ==
  \E c \in Core \ down : phase[c] = now % REPUBLISH_INTERVAL /\ Renews(c, p)

\* The times of the interval at which nodes of the core were started, and those of
\* nodes that have crashed.
Times == {phase[c] : c \in Core}

DownTimes == {phase[c] : c \in Core \cap down}

Enough == Cardinality(Times) >= 2 + lost + Cardinality(down \cap Core)

\* The time r of the interval has come again since p stored its value.
Passed(p, r) ==
  \E time \in (storage[p]["key"].timestamp + 1) .. now : time % REPUBLISH_INTERVAL = r

\* The times at which p should have been renewed since it stored its value, and was not.
Missed(p) ==
  {r \in Times : /\ Passed(p, r) /\ r \notin DownTimes
                 /\ ~(r = now % REPUBLISH_INTERVAL /\ Pending(p))}

\* Every node of the core that runs has the value, and has missed no more renewals
\* than messages were lost.
KeptInv ==
  settled # Nothing /\ Enough =>
    \A p \in Core \ down : get(p) = settled /\ Cardinality(Missed(p)) <= lost

-----------------------------------------------------------------------------
(* What the operators do.                                                  *)

(***************************************************************************)
(* A store at n leaves the other nodes' storages alone.                    *)
(***************************************************************************)
LEMMA StoreEffect ==
  ASSUME TypeInv, NEW n \in Nodes, NEW v \in Nat, store(n, v)
  PROVE  /\ storage' = [p \in Nodes |-> storage'[p]]
         /\ \A p \in Nodes : IsMap(storage'[p])
         /\ "key" \in DOMAIN storage'[n]
         /\ storage'[n]["key"] = [value |-> v, timestamp |-> now, ttl |-> DEFAULT_TTL]
         /\ \A p \in Nodes : p # n => storage'[p] = storage[p]
<1> DEFINE new == MS!store_with_ttl(storage[n], "key", v, DEFAULT_TTL, now)
<1>1. storage = [p \in Nodes |-> storage[p]]
  BY DEF TypeInv
<1>2. storage' = [storage EXCEPT ![n] = new]
  BY DEF store
<1>3. /\ "key" \in DOMAIN new /\ DOMAIN new \subseteq {"key"}
      /\ new["key"] = [value |-> v, timestamp |-> now, ttl |-> DEFAULT_TTL]
  BY DEF MS!store_with_ttl, TypeInv, IsMap
<1>4. IsMap(new)
  BY <1>3, TtlAssumption DEF IsMap, Entries, TypeInv
<1> HIDE DEF new
<1> QED
  BY <1>1, <1>2, <1>3, <1>4 DEF TypeInv

\* The task t, from now on "task", calls p.
Goes(t, p, task, rest) ==
  /\ tasks' = Put(t, task)
  /\ net' = IF p \in down THEN rest
            ELSE rest \cup {Message("store", t, t[1], p, task.value)}

(***************************************************************************)
(* A call goes to a node of the queue, which leaves the queue.             *)
(***************************************************************************)
LEMMA CallGoes ==
  ASSUME NEW t, NEW task \in TaskRecords, NEW queue \in SUBSET Nodes, NEW rest,
         Call(t, task, queue, rest)
  PROVE  \E p \in queue : \E new \in TaskRecords :
           /\ Goes(t, p, new, rest)
           /\ new.op = task.op /\ new.value = task.value /\ new.direct = task.direct
           /\ new.to = p /\ new.queue = queue \ {p}
<1>1. PICK p \in Candidates(queue, task.direct) :
        /\ tasks' = Put(t, [task EXCEPT !.to = p, !.queue = queue \ {p}])
        /\ Send(Message("store", t, t[1], p, task.value), rest)
  BY DEF Call
<1> DEFINE new == [task EXCEPT !.to = p, !.queue = queue \ {p}]
<1>2. p \in queue
  BY <1>1 DEF Candidates
<1>3. /\ new \in TaskRecords
      /\ new.op = task.op /\ new.value = task.value /\ new.direct = task.direct
      /\ new.to = p /\ new.queue = queue \ {p}
  BY <1>2 DEF TaskRecords
<1>4. Message("store", t, t[1], p, task.value).to = p
  BY DEF Message
<1>5. Goes(t, p, new, rest)
  BY <1>1, <1>3, <1>4 DEF Goes, Send
<1> HIDE DEF new
<1> QED
  BY <1>2, <1>3, <1>5

\* No message of "rest" is a call that t waits for.
RestOK(t, rest) ==
  /\ \A m \in rest : MessageOK(m) /\ (m.awaited => m.task # t)
  /\ \A m1, m2 \in rest : m1.awaited /\ m2.awaited /\ m1.task = m2.task => m1 = m2

\* Tables only grow and nobody crashes.
Grows ==
  /\ \A n \in Nodes : known[n] \subseteq known'[n]
  /\ known' \in [Nodes -> SUBSET Nodes]
  /\ down' = down

(***************************************************************************)
(* Messages that are under way stay in order when t goes on or ends.       *)
(***************************************************************************)
LEMMA RestStays ==
  ASSUME NEW t, NEW rest, RestOK(t, rest), Grows, NEW m \in rest,
         \A s \in DOMAIN tasks : s # t => s \in DOMAIN tasks' /\ tasks'[s] = tasks[s]
  PROVE  MessageOK(m)'
BY DEF RestOK, Grows, MessageOK

(***************************************************************************)
(* A call is in order, and so is everything under way.                     *)
(***************************************************************************)
LEMMA GoesNet ==
  ASSUME NEW t \in Nodes \X Kinds \X Nodes, NEW rest, RestOK(t, rest), Grows,
         NEW p \in known[t[1]], p # t[1], NEW task, task.to = p,
         task.op \notin {"read", "get"}, task.value \in Vals, Goes(t, p, task, rest)
  PROVE  NetOK'
<1> DEFINE new == Message("store", t, t[1], p, task.value)
<1>1. /\ \A s \in DOMAIN tasks : s # t => s \in DOMAIN tasks' /\ tasks'[s] = tasks[s]
      /\ t \in DOMAIN tasks' /\ tasks'[t] = task
  BY DEF Goes, Put
<1>2. /\ new.kind = "store" /\ new.task = t /\ new.from = t[1] /\ new.to = p
      /\ new.value = task.value /\ new.awaited = TRUE
      /\ p \notin down => MessageOK(new)'
  <2>1. t[1] \in Nodes /\ p \in Nodes /\ p \in known'[t[1]]
    BY DEF Grows
  <2> QED
    BY <1>1, <2>1 DEF Message, MessageOK, Grows
<1> HIDE DEF new
<1>3. \A m \in rest : MessageOK(m)'
  BY <1>1, RestStays
<1>4. net' = rest \/ (p \notin down /\ net' = rest \cup {new})
  BY DEF Goes, new
<1> QED
  BY <1>2, <1>3, <1>4 DEF NetOK, RestOK

(***************************************************************************)
(* The same when t ends, or does not change.                               *)
(***************************************************************************)
LEMMA EndsNet ==
  ASSUME NEW t, NEW rest, RestOK(t, rest), Grows, net' = rest,
         \A s \in DOMAIN tasks : s # t => s \in DOMAIN tasks' /\ tasks'[s] = tasks[s]
  PROVE  NetOK'
BY RestStays DEF NetOK, RestOK

(***************************************************************************)
(* A task stays in order while tables grow and its replication is not      *)
(* asked for again.                                                        *)
(***************************************************************************)
LEMMA TaskStays ==
  ASSUME NEW t, TaskOK(t, tasks[t]), tasks'[t] = tasks[t], Grows,
         t[2] = "replicate" => <<t[1], t[3]>> \notin fresh'
  PROVE  TaskOK(t, tasks[t])'
BY DEF TaskOK, Grows

\* The task t goes on after a call: it is over, or it calls the next node.
Ended(t, rest) == Ends(tasks[t]) /\ tasks' = Without(t) /\ net' = rest

Continued(t, p, new, rest) ==
  /\ Goes(t, p, new, rest)
  /\ new.op = tasks[t].op /\ new.op \notin {"get", "replicate"}
  /\ new.value = tasks[t].value /\ new.to = p
  /\ p \notin new.queue /\ new.queue \subseteq known[t[1]]
  /\ tasks[t].queue \subseteq {p} \cup new.queue
  /\ new.direct => {p} \cup new.queue = IF tasks[t].direct THEN tasks[t].queue
                                                           ELSE known[t[1]]

Advances(t, rest) ==
  Ended(t, rest) \/ \E p \in known[t[1]] : \E new \in TaskRecords : Continued(t, p, new, rest)

(***************************************************************************)
(* The three ways to go on, and the timer around store_value.              *)
(***************************************************************************)
LEMMA AllAreCalled ==
  ASSUME BaseInv, NEW t \in DOMAIN tasks, NEW rest, InStoreValue(tasks[t]), CallAll(t, rest)
  PROVE  Advances(t, rest)
<1> DEFINE task == [tasks[t] EXCEPT !.direct = TRUE]
<1>1. TaskOK(t, tasks[t])
  BY DEF BaseInv, TasksOK
<1>2. tasks[t] \in TaskRecords /\ t[1] \in Nodes /\ tasks[t].queue \subseteq known[t[1]]
  BY <1>1 DEF TaskOK
<1>3. known[t[1]] \in SUBSET Nodes
  BY <1>2 DEF BaseInv, TypeInv
<1>4. /\ task \in TaskRecords /\ task.op = tasks[t].op /\ task.value = tasks[t].value
      /\ task.direct = TRUE
  BY <1>2 DEF TaskRecords
<1>5. Call(t, task, known[t[1]], rest)
  BY DEF CallAll
<1> HIDE DEF task
<1>6. PICK p \in known[t[1]], new \in TaskRecords :
        /\ Goes(t, p, new, rest)
        /\ new.op = task.op /\ new.value = task.value /\ new.direct = task.direct
        /\ new.to = p /\ new.queue = known[t[1]] \ {p}
  BY <1>3, <1>4, <1>5, CallGoes
<1>7. Continued(t, p, new, rest)
  BY <1>2, <1>4, <1>6 DEF Continued, InStoreValue
<1> QED
  BY <1>7 DEF Advances

(***************************************************************************)
(* Whatever the outcome of a call, its task goes on.                       *)
(***************************************************************************)
LEMMA ProceedAdvances ==
  ASSUME BaseInv, NEW t \in DOMAIN tasks, NEW rest, Proceed(t, rest)
  PROVE  Advances(t, rest)
<1>1. TaskOK(t, tasks[t])
  BY DEF BaseInv, TasksOK
<1>2. /\ tasks[t] \in TaskRecords /\ t[1] \in Nodes /\ tasks[t].queue \subseteq known[t[1]]
      /\ tasks[t].op \in {"get", "replicate"} => tasks[t].queue = {}
  BY <1>1 DEF TaskOK
<1>3. known[t[1]] \in SUBSET Nodes
  BY <1>2 DEF BaseInv, TypeInv
<1>4. CASE CallNext(t, rest)
  <2>1. tasks[t].queue \in SUBSET Nodes
    BY <1>2, <1>3
  <2>2. PICK p \in tasks[t].queue, new \in TaskRecords :
          /\ Goes(t, p, new, rest)
          /\ new.op = tasks[t].op /\ new.value = tasks[t].value
          /\ new.direct = tasks[t].direct
          /\ new.to = p /\ new.queue = tasks[t].queue \ {p}
    BY <1>2, <1>4, <2>1, CallGoes DEF CallNext
  <2>3. Continued(t, p, new, rest)
    BY <1>2, <2>2 DEF Continued
  <2> QED
    BY <1>2, <2>3 DEF Advances
<1>5. CASE InStoreValue(tasks[t]) /\ CallAll(t, rest)
  BY <1>5, AllAreCalled
<1>6. CASE Finish(t, rest)
  BY <1>6 DEF Finish, Advances, Ended
<1> QED
  BY <1>4, <1>5, <1>6 DEF Proceed

(***************************************************************************)
(* A task that begins or goes on, with the messages that are under way.    *)
(***************************************************************************)
LEMMA GoesBase ==
  ASSUME BaseInv, Grows, NEW t \in Nodes \X Kinds \X Nodes, NEW rest, RestOK(t, rest),
         NEW p \in known[t[1]], NEW new \in TaskRecords, Goes(t, p, new, rest),
         new.op \notin {"read", "get"}, new.value \in Vals, new.to = p,
         new.queue \subseteq known[t[1]], new.op = "replicate" => new.queue = {},
         t[2] = KindOf(new.op), t[1] \notin down,
         t[2] # "replicate" => t[3] = t[1],
         t[2] = "replicate" => t[3] \in known[t[1]],
         \A s \in DOMAIN tasks \cup {t} : s[2] = "replicate" => <<s[1], s[3]>> \notin fresh'
  PROVE  TasksOK' /\ NetOK'
<1>1. t[1] \in Nodes /\ p # t[1] /\ Nothing \notin Vals
  BY DEF BaseInv, TypeInv, Nothing, MS!Nothing, Vals
<1>2. NetOK'
  BY <1>1, GoesNet
<1>3. /\ DOMAIN tasks' = DOMAIN tasks \cup {t} /\ tasks'[t] = new
      /\ \A s \in DOMAIN tasks : s # t => tasks'[s] = tasks[s]
  BY DEF Goes, Put
<1>4. TaskOK(t, tasks[t])'
  BY <1>1, <1>3 DEF TaskOK, Grows
<1>5. ASSUME NEW s \in DOMAIN tasks, s # t
      PROVE  TaskOK(s, tasks[s])'
  BY <1>3, <1>5, TaskStays DEF BaseInv, TasksOK
<1> QED
  BY <1>2, <1>3, <1>4, <1>5 DEF TasksOK

(***************************************************************************)
(* A task that ends.                                                       *)
(***************************************************************************)
LEMMA EndsBase ==
  ASSUME BaseInv, Grows, NEW t, NEW rest, RestOK(t, rest), tasks' = Without(t), net' = rest,
         \A s \in DOMAIN tasks : s[2] = "replicate" => <<s[1], s[3]>> \notin fresh'
  PROVE  TasksOK' /\ NetOK'
<1>1. /\ DOMAIN tasks' = DOMAIN tasks \ {t}
      /\ \A s \in DOMAIN tasks : s # t => s \in DOMAIN tasks' /\ tasks'[s] = tasks[s]
  BY DEF Without
<1>2. NetOK'
  BY <1>1, EndsNet
<1>3. ASSUME NEW s \in DOMAIN tasks, s # t
      PROVE  TaskOK(s, tasks[s])'
  BY <1>1, <1>3, TaskStays DEF BaseInv, TasksOK
<1> QED
  BY <1>1, <1>2, <1>3 DEF TasksOK

(***************************************************************************)
(* A task that has had a call's outcome.                                   *)
(***************************************************************************)
LEMMA AdvancesBase ==
  ASSUME BaseInv, Grows, NEW t \in DOMAIN tasks, tasks[t].op # "read",
         NEW rest, RestOK(t, rest), Advances(t, rest),
         \A s \in DOMAIN tasks : s[2] = "replicate" => <<s[1], s[3]>> \notin fresh'
  PROVE  TasksOK' /\ NetOK'
<1>1. CASE Ended(t, rest)
  BY <1>1, EndsBase DEF Ended
<1>2. ASSUME NEW p \in known[t[1]], NEW new \in TaskRecords, Continued(t, p, new, rest)
      PROVE  TasksOK' /\ NetOK'
  <2>1. TaskOK(t, tasks[t])
    BY DEF BaseInv, TasksOK
  <2>2. /\ t \in Nodes \X Kinds \X Nodes /\ t[1] \notin down /\ t[2] = KindOf(new.op)
        /\ t[2] # "replicate" => t[3] = t[1]
        /\ t[2] = "replicate" => t[3] \in known[t[1]]
        /\ new.value \in Vals
    BY <1>2, <2>1 DEF TaskOK, Continued, TaskRecords
  <2>3. /\ new.op \notin {"read", "get", "replicate"} /\ new.to = p
        /\ new.queue \subseteq known[t[1]]
        /\ Goes(t, p, new, rest)
    BY <1>2 DEF Continued
  <2> QED
    BY <2>2, <2>3, GoesBase
<1> QED
  BY <1>1, <1>2 DEF Advances

(***************************************************************************)
(* Messages that t does not wait for.                                      *)
(***************************************************************************)
LEMMA RestOfNet ==
  ASSUME BaseInv, NEW t, NEW rest \in SUBSET net, \A m \in rest : m.task = t => ~m.awaited
  PROVE  RestOK(t, rest)
BY DEF BaseInv, NetOK, RestOK

(***************************************************************************)
(* A task that is not under way, or only reads, waits for none.            *)
(***************************************************************************)
LEMMA NotWaiting ==
  ASSUME BaseInv, NEW t, t \notin DOMAIN tasks \/ tasks[t].op = "read"
  PROVE  RestOK(t, net)
<1>1. \A m \in net : m.task = t => ~m.awaited
  BY DEF BaseInv, NetOK, MessageOK
<1> QED
  BY <1>1, RestOfNet

(***************************************************************************)
(* Nor does one whose call has been answered.                              *)
(***************************************************************************)
LEMMA RestAnswered ==
  ASSUME BaseInv, NEW m \in net, m.awaited
  PROVE  /\ RestOK(m.task, net \ {m}) /\ m.task \in DOMAIN tasks
         /\ tasks[m.task].op # "read"
         /\ m.kind = "store" <=> tasks[m.task].op # "get"
<1>1. \A x \in net \ {m} : x.task = m.task => ~x.awaited
  BY DEF BaseInv, NetOK, MessageOK
<1> QED
  BY <1>1, RestOfNet DEF BaseInv, NetOK, MessageOK

(***************************************************************************)
(* The messages under way are the same when a task gives up its call.      *)
(***************************************************************************)
LEMMA RestUnawaited ==
  ASSUME BaseInv, NEW t
  PROVE  /\ RestOK(t, Unawaited(t))
         /\ \A x \in Unawaited(t) : \E m \in net :
              /\ x.kind = m.kind /\ x.task = m.task /\ x.from = m.from /\ x.to = m.to
              /\ x.value = m.value /\ (x.awaited => x = m)
<1>1. ASSUME NEW m \in net
      PROVE  LET x == [m EXCEPT !.awaited = FALSE]
             IN /\ x.kind = m.kind /\ x.task = m.task /\ x.from = m.from /\ x.to = m.to
                /\ x.value = m.value /\ x.awaited = FALSE
                /\ MessageOK(x)
  BY DEF BaseInv, NetOK, MessageOK
<1>2. ASSUME NEW x \in Unawaited(t)
      PROVE  \E m \in net :
               /\ \/ x = m /\ m.task # t
                  \/ x.awaited = FALSE
               /\ x.kind = m.kind /\ x.task = m.task /\ x.from = m.from /\ x.to = m.to
               /\ x.value = m.value /\ MessageOK(x)
  <2>1. PICK m \in net : x = IF m.task = t THEN [m EXCEPT !.awaited = FALSE] ELSE m
    BY DEF Unawaited
  <2>2. CASE m.task = t
    BY <1>1, <2>1, <2>2
  <2>3. CASE m.task # t
    BY <2>1, <2>3 DEF BaseInv, NetOK
  <2> QED
    BY <2>2, <2>3
<1>3. \A x, y \in Unawaited(t) : x.awaited /\ y.awaited /\ x.task = y.task => x = y
  BY <1>2 DEF BaseInv, NetOK
<1> QED
  BY <1>2, <1>3 DEF RestOK

(***************************************************************************)
(* Nothing starts, goes on or ends, but messages may be received.          *)
(***************************************************************************)
LEMMA IdleBase ==
  ASSUME BaseInv, Grows, tasks' = tasks, net' \in SUBSET net,
         \A s \in DOMAIN tasks : s[2] = "replicate" => <<s[1], s[3]>> \notin fresh'
  PROVE  TasksOK' /\ NetOK'
<1>1. ASSUME NEW s \in DOMAIN tasks
      PROVE  TaskOK(s, tasks[s])'
  BY TaskStays DEF BaseInv, TasksOK
<1>2. ASSUME NEW m \in net
      PROVE  MessageOK(m)'
  BY DEF BaseInv, NetOK, MessageOK, Grows
<1> QED
  BY <1>1, <1>2 DEF TasksOK, NetOK, BaseInv

(***************************************************************************)
(* Answers and lookups: a message that is not a STORE joins the others.    *)
(***************************************************************************)
LEMMA JoinNet ==
  ASSUME Grows, NEW x, NEW rest, RestOK(x.task, rest), Send(x, rest),
         x.to \notin down => MessageOK(x)',
         \A s \in DOMAIN tasks : s # x.task => s \in DOMAIN tasks' /\ tasks'[s] = tasks[s]
  PROVE  NetOK'
<1>1. \A m \in rest : MessageOK(m)'
  BY RestStays
<1>2. net' = rest \/ (x.to \notin down /\ net' = rest \cup {x})
  BY DEF Send
<1> QED
  BY <1>1, <1>2 DEF NetOK, RestOK

(***************************************************************************)
(* What get returns.                                                       *)
(***************************************************************************)
LEMMA GetResult ==
  ASSUME BaseInv, NEW n \in Nodes
  PROVE  /\ get(n) \in Vals \cup {Nothing} /\ Nothing \notin Vals
         /\ \A v \in Vals : v[1] \in Nat /\ v = <<v[1]>>
         /\ get(n) # Nothing =>
              /\ "key" \in DOMAIN storage[n] /\ get(n) = <<storage[n]["key"].value>>
              /\ storage[n]["key"] \in Entries
              /\ storage[n]["key"].timestamp + DEFAULT_TTL > now
         /\ ("key" \in DOMAIN storage[n] /\ storage[n]["key"].timestamp + DEFAULT_TTL > now)
              => get(n) = <<storage[n]["key"].value>>
<1>1. IsMap(storage[n])
  BY DEF BaseInv, TypeInv
<1>2. Nothing = <<>> /\ Nothing \notin Vals /\ MS!Nothing = <<>>
  BY DEF Nothing, MS!Nothing, Vals
<1>3. \A v \in Vals : v[1] \in Nat /\ v = <<v[1]>>
  BY DEF Vals
<1>4. "key" \in DOMAIN storage[n] =>
        /\ storage[n]["key"] \in Entries /\ storage[n]["key"].ttl = DEFAULT_TTL
        /\ <<storage[n]["key"].value>> \in Vals
  BY <1>1 DEF IsMap, Entries, Vals
<1>5. <<storage[n]["key"].value>> # <<>>
  OBVIOUS
<1> QED
  BY <1>2, <1>3, <1>4, <1>5 DEF get, MS!lookup, MS!live

(***************************************************************************)
(* The network the nodes are started in.                                   *)
(***************************************************************************)
LEMMA InitBase == Init => BaseInv
<1> SUFFICES ASSUME Init
             PROVE  BaseInv
  OBVIOUS
<1>1. known \in [Nodes -> SUBSET Nodes] /\ \A n \in Nodes : n \notin known[n]
  <2>1. CASE known = [n \in Nodes |-> Nodes \ {n}]
    BY <2>1
  <2>2. ASSUME NEW contacts \in {{}, {First} \ {Newcomer}},
               known = [n \in Nodes |-> IF n = Newcomer THEN contacts
                                        ELSE Nodes \ {n, Newcomer}]
        PROVE  known \in [Nodes -> SUBSET Nodes] /\ \A n \in Nodes : n \notin known[n]
    BY <2>2, NodesAssumption
  <2> QED
    BY <2>1, <2>2 DEF Init
<1>2. /\ storage = [n \in Nodes |-> storage[n]]
      /\ \A n \in Nodes : IsMap(storage[n])
  BY DEF Init, MS!EmptyMap, IsMap
<1>3. /\ now = 0 /\ due = {} /\ fresh = {} /\ down = {} /\ stores = 0 /\ lost = 0
      /\ clean = FALSE /\ settled = Nothing /\ net = {} /\ tasks = <<>> /\ phase \in Phases
  BY DEF Init
<1>4. TypeInv
  BY <1>1, <1>2, <1>3, PhasesAssumption DEF TypeInv
<1>5. DOMAIN tasks = {}
  BY <1>3
<1> QED
  BY <1>3, <1>4, <1>5 DEF BaseInv, TasksOK, NetOK

(***************************************************************************)
(* The tasks of a node keep the types.                                     *)
(***************************************************************************)
LEMMA StoreType ==
  ASSUME BaseInv, NEW n \in Nodes, n \notin down, NEW v \in Nat, store(n, v)
  PROVE  /\ storage' = [p \in Nodes |-> storage'[p]] /\ \A p \in Nodes : IsMap(storage'[p])
         /\ \A p \in down : "key" \notin DOMAIN storage'[p]
<1>1. TypeInv
  BY DEF BaseInv
<1> QED
  BY <1>1, StoreEffect DEF TypeInv

(***************************************************************************)
(* Whom a node calls it knows.                                             *)
(***************************************************************************)
LEMMA ClosestKnown ==
  ASSUME NEW n, NEW count
  PROVE  get_closest(n, count) \in SUBSET known[n]
BY DEF get_closest, Closest

LEMMA StartStoreBase ==
  ASSUME BaseInv, NEW n \in Nodes, StartStore(n)
  PROVE  BaseInv'
<1> DEFINE t == Client(n)
<1>1. /\ n \notin down /\ t \notin DOMAIN tasks /\ stores' = stores + 1 /\ store(n, stores')
      /\ clean' = (tasks = <<>> /\ net = {} /\ fresh = {}) /\ settled' = Nothing
      /\ known' = known /\ now' = now /\ phase' = phase /\ due' = due /\ fresh' = fresh
      /\ down' = down /\ lost' = 0
  BY DEF StartStore, clockVars, pending
<1>2. stores' \in Nat /\ <<stores'>> \in Vals /\ clean' \in BOOLEAN
  BY <1>1 DEF BaseInv, TypeInv, Vals
<1>3. TypeInv'
  BY <1>1, <1>2, StoreType DEF BaseInv, TypeInv
<1>4. Grows /\ RestOK(t, net)
  BY <1>1, NotWaiting DEF Grows, BaseInv, TypeInv
<1>5. \A s \in DOMAIN tasks \cup {t} : s[2] = "replicate" => <<s[1], s[3]>> \notin fresh'
  BY <1>1 DEF BaseInv, TasksOK, TaskOK, Client
<1>6. CASE Call(t, Task("store", <<stores'>>, n), get_closest(n, K), net)
  <2>1. PICK p \in get_closest(n, K), new \in TaskRecords :
          /\ Goes(t, p, new, net)
          /\ new.op = "store" /\ new.value = <<stores'>> /\ new.direct = FALSE
          /\ new.to = p /\ new.queue = get_closest(n, K) \ {p}
    <3> DEFINE task == Task("store", <<stores'>>, n)
    <3>1. get_closest(n, K) \in SUBSET Nodes
      BY ClosestKnown DEF BaseInv, TypeInv
    <3>2. /\ task \in TaskRecords /\ task.op = "store" /\ task.value = <<stores'>>
          /\ task.direct = FALSE
      BY <1>2, <1>6 DEF Task, TaskRecords
    <3> HIDE DEF t, task
    <3>3. Call(t, task, get_closest(n, K), net)
      BY <1>2, <1>6 DEF task
    <3> QED
      BY <3>1, <3>2, <3>3, CallGoes
  <2>2. /\ t \in Nodes \X Kinds \X Nodes /\ t[1] = n /\ t[2] = "client" /\ t[3] = n
        /\ p \in known[n] /\ new.queue \subseteq known[n] /\ t[2] = KindOf(new.op)
    BY <2>1, ClosestKnown DEF Client, Kinds, KindOf
  <2> QED
    BY <1>1, <1>2, <1>3, <1>4, <1>5, <2>1, <2>2, GoesBase DEF BaseInv
<1>7. CASE UNCHANGED <<tasks, net>>
  BY <1>3, <1>4, <1>5, <1>7, IdleBase DEF BaseInv
<1> QED
  BY <1>6, <1>7 DEF StartStore

LEMMA RepublishReadBase ==
  ASSUME BaseInv, NEW n \in Nodes, RepublishRead(n)
  PROVE  BaseInv'
<1> DEFINE t == Republisher(n)
           new == Task("read", get(n), n)
<1>1. /\ n \in due /\ t \notin DOMAIN tasks /\ due' = due \ {n} /\ clean' = FALSE
      /\ settled' = settled /\ storage' = storage /\ known' = known /\ net' = net
      /\ now' = now /\ phase' = phase /\ fresh' = fresh /\ stores' = stores /\ down' = down
      /\ lost' = lost
      /\ tasks' = tasks \/ (get(n) # Nothing /\ tasks' = Put(t, new))
  BY DEF RepublishRead, Disturb, clockVars, counters
<1>2. TypeInv'
  BY <1>1 DEF BaseInv, TypeInv
<1>3. Grows /\ RestOK(t, net) /\ n \notin down
  BY <1>1, NotWaiting DEF Grows, BaseInv, TypeInv
<1>4. \A s \in DOMAIN tasks : s[2] = "replicate" => <<s[1], s[3]>> \notin fresh'
  BY <1>1 DEF BaseInv, TasksOK, TaskOK
<1>5. CASE tasks' = tasks
  BY <1>1, <1>2, <1>3, <1>4, <1>5, IdleBase DEF BaseInv
<1>6. CASE get(n) # Nothing /\ tasks' = Put(t, new)
  <2>1. get(n) \in Vals /\ Nothing \notin Vals
    BY <1>6, GetResult
  <2>2. /\ DOMAIN tasks' = DOMAIN tasks \cup {t} /\ tasks'[t] = new
        /\ \A s \in DOMAIN tasks : s # t => tasks'[s] = tasks[s]
    BY <1>6 DEF Put
  <2>3. NetOK'
    BY <1>1, <1>3, <2>2, EndsNet
  <2>4. TaskOK(t, tasks[t])'
    BY <1>1, <1>3, <2>1, <2>2
       DEF TaskOK, Task, TaskRecords, Republisher, Kinds, KindOf
  <2>5. ASSUME NEW s \in DOMAIN tasks
        PROVE  TaskOK(s, tasks[s])'
    BY <1>1, <1>3, <1>4, <2>2, TaskStays DEF BaseInv, TasksOK
  <2> QED
    BY <1>2, <2>2, <2>3, <2>4, <2>5 DEF BaseInv, TasksOK
<1> QED
  BY <1>1, <1>5, <1>6

LEMMA RepublishStoreBase ==
  ASSUME BaseInv, NEW n \in Nodes, RepublishStore(n)
  PROVE  BaseInv'
<1> DEFINE t == Republisher(n)
<1>1. /\ t \in DOMAIN tasks /\ tasks[t].op = "read" /\ store(n, tasks[t].value[1])
      /\ known' = known /\ now' = now /\ phase' = phase /\ due' = due /\ fresh' = fresh
      /\ stores' = stores /\ down' = down /\ clean' = clean /\ settled' = settled
      /\ lost' = lost
  BY DEF RepublishStore, clockVars, pending, counters, ghosts
<1>2. TaskOK(t, tasks[t]) /\ t[1] = n /\ t[2] = "republish" /\ t[3] = n
  BY <1>1 DEF BaseInv, TasksOK, Republisher
<1>3. n \notin down /\ tasks[t].value \in Vals /\ tasks[t].value[1] \in Nat
  BY <1>1, <1>2 DEF TaskOK, TaskRecords, Vals
<1>4. TypeInv'
  BY <1>1, <1>3, StoreType DEF BaseInv, TypeInv
<1>5. Grows /\ RestOK(t, net)
  BY <1>1, NotWaiting DEF Grows, BaseInv, TypeInv
<1>6. \A s \in DOMAIN tasks \cup {t} : s[2] = "replicate" => <<s[1], s[3]>> \notin fresh'
  BY <1>1 DEF BaseInv, TasksOK, TaskOK
<1>7. CASE Call(t, Task("republish", tasks[t].value, n), get_closest(n, K), net)
  <2>1. PICK p \in get_closest(n, K), new \in TaskRecords :
          /\ Goes(t, p, new, net)
          /\ new.op = "republish" /\ new.value = tasks[t].value /\ new.direct = FALSE
          /\ new.to = p /\ new.queue = get_closest(n, K) \ {p}
    <3> DEFINE task == Task("republish", tasks[t].value, n)
    <3>1. get_closest(n, K) \in SUBSET Nodes
      BY ClosestKnown DEF BaseInv, TypeInv
    <3>2. /\ task \in TaskRecords /\ task.op = "republish" /\ task.value = tasks[t].value
          /\ task.direct = FALSE
      BY <1>3, <1>7 DEF Task, TaskRecords
    <3> HIDE DEF t, task
    <3>3. Call(t, task, get_closest(n, K), net)
      BY <1>3, <1>7 DEF task
    <3> QED
      BY <3>1, <3>2, <3>3, CallGoes
  <2>2. /\ p \in known[n] /\ new.queue \subseteq known[n] /\ t[2] = KindOf(new.op)
        /\ t \in Nodes \X Kinds \X Nodes
    BY <1>2, <2>1, ClosestKnown DEF KindOf, TaskOK
  <2> QED
    BY <1>2, <1>3, <1>4, <1>5, <1>6, <2>1, <2>2, GoesBase DEF BaseInv
<1>8. CASE tasks' = Without(t) /\ UNCHANGED net
  BY <1>4, <1>5, <1>6, <1>8, EndsBase DEF BaseInv
<1> QED
  BY <1>7, <1>8 DEF RepublishStore

LEMMA ReplicateBase ==
  ASSUME BaseInv, NEW n \in Nodes, NEW q \in Nodes, Replicate(n, q)
  PROVE  BaseInv'
<1> DEFINE t == Replicator(n, q)
<1>1. /\ <<n, q>> \in fresh /\ fresh' = fresh \ {<<n, q>>}
      /\ storage' = storage /\ known' = known /\ now' = now /\ phase' = phase
      /\ due' = due /\ stores' = stores /\ down' = down
      /\ clean' = clean /\ settled' = settled /\ lost' = lost
  BY DEF Replicate, clockVars, counters, ghosts
<1>2. TypeInv'
  BY <1>1 DEF BaseInv, TypeInv
<1>3. t[1] = n /\ t[2] = "replicate" /\ t[3] = q /\ t \in Nodes \X Kinds \X Nodes
  BY DEF Replicator, Kinds
<1>4. t \notin DOMAIN tasks /\ n \notin down /\ q \in known[n] /\ Grows
  BY <1>1, <1>3 DEF BaseInv, TypeInv, TasksOK, TaskOK, Grows
<1>5. RestOK(t, net)
  BY <1>4, NotWaiting
<1>6. \A s \in DOMAIN tasks \cup {t} : s[2] = "replicate" => <<s[1], s[3]>> \notin fresh'
  BY <1>1, <1>3 DEF BaseInv, TasksOK, TaskOK
<1>7. CASE get(n) # Nothing /\ Call(t, Task("replicate", get(n), q), {q}, net)
  <2>1. get(n) \in Vals
    BY <1>7, GetResult
  <2>2. PICK p \in {q}, new \in TaskRecords :
          /\ Goes(t, p, new, net)
          /\ new.op = "replicate" /\ new.value = get(n) /\ new.direct = FALSE
          /\ new.to = p /\ new.queue = {q} \ {p}
    <3> DEFINE task == Task("replicate", get(n), q)
               queue == {q}
    <3>1. queue \in SUBSET Nodes
      BY <1>4 DEF BaseInv, TypeInv
    <3>2. /\ task \in TaskRecords /\ task.op = "replicate" /\ task.value = get(n)
          /\ task.direct = FALSE
      BY <1>4, <1>7, <2>1 DEF Task, TaskRecords
    <3>3. Call(t, task, queue, net)
      BY <1>7
    <3> HIDE DEF t, task, queue
    <3>4. \E p \in queue : \E new \in TaskRecords :
            /\ Goes(t, p, new, net)
            /\ new.op = task.op /\ new.value = task.value /\ new.direct = task.direct
            /\ new.to = p /\ new.queue = queue \ {p}
      BY <3>1, <3>2, <3>3, CallGoes
    <3> QED
      BY <3>2, <3>4 DEF queue
  <2>3. t[2] = KindOf(new.op)
    BY <1>3, <2>2 DEF KindOf
  <2> QED
    BY <1>2, <1>3, <1>4, <1>5, <1>6, <2>1, <2>2, <2>3, GoesBase DEF BaseInv
<1>8. CASE UNCHANGED <<tasks, net>>
  BY <1>2, <1>4, <1>6, <1>8, IdleBase DEF BaseInv
<1> QED
  BY <1>7, <1>8 DEF Replicate

LEMMA StartGetBase ==
  ASSUME BaseInv, NEW n \in Nodes, NEW p \in Nodes \ {n}, StartGet(n, p)
  PROVE  BaseInv'
<1> DEFINE t == Client(n)
           new == Task("get", Nothing, p)
           x == Message("find", t, n, p, Nothing)
<1>1. /\ n \notin down /\ t \notin DOMAIN tasks /\ tasks' = Put(t, new) /\ Send(x, net)
      /\ clean' = FALSE /\ settled' = settled /\ storage' = storage /\ known' = known
      /\ now' = now /\ phase' = phase /\ due' = due /\ fresh' = fresh
      /\ stores' = stores /\ down' = down /\ lost' = lost
  BY DEF StartGet, Disturb, clockVars, pending
<1>2. TypeInv'
  BY <1>1 DEF BaseInv, TypeInv
<1>3. Grows /\ RestOK(t, net)
  BY <1>1, NotWaiting DEF Grows, BaseInv, TypeInv
<1>4. /\ DOMAIN tasks' = DOMAIN tasks \cup {t} /\ tasks'[t] = new
      /\ \A s \in DOMAIN tasks : s # t => tasks'[s] = tasks[s]
  BY <1>1 DEF Put
<1>5. x.task = t /\ (x.to \notin down => MessageOK(x)')
  BY <1>1, <1>4 DEF Message, MessageOK, Client, Kinds, Task
<1>6. NetOK'
  BY <1>1, <1>3, <1>4, <1>5, JoinNet
<1>7. TaskOK(t, tasks[t])'
  <2>1. /\ new \in TaskRecords /\ new.op = "get" /\ new.value = Nothing /\ new.to = p
        /\ new.queue = {}
    BY DEF Task, TaskRecords
  <2>2. t \in Nodes \X Kinds \X Nodes /\ t[1] = n /\ t[2] = "client" /\ t[3] = n
    BY DEF Client, Kinds
  <2> HIDE DEF new, t
  <2> QED
    BY <1>1, <1>4, <2>1, <2>2 DEF TaskOK, KindOf
<1>8. ASSUME NEW s \in DOMAIN tasks
      PROVE  TaskOK(s, tasks[s])'
  BY <1>1, <1>3, <1>4, TaskStays DEF BaseInv, TasksOK, TaskOK
<1> QED
  BY <1>2, <1>4, <1>6, <1>7, <1>8 DEF BaseInv, TasksOK

(***************************************************************************)
(* Receiving a message enters its sender in the table.                     *)
(***************************************************************************)
LEMMA WelcomeGrows ==
  ASSUME BaseInv, NEW m \in net, Welcome(m.to, m.from), down' = down
  PROVE  /\ Grows /\ \A n \in Nodes : n \notin known'[n]
         /\ known'[m.to] = known[m.to] \cup {m.from}
         /\ \A n \in Nodes : n # m.to => known'[n] = known[n]
         /\ fresh \subseteq fresh' /\ fresh' \subseteq fresh \cup {<<m.to, m.from>>}
         /\ <<m.to, m.from>> \in fresh' \ fresh => m.from \notin known[m.to]
         /\ fresh' \subseteq Nodes \X Nodes
         /\ \A f \in fresh' : f[1] \notin down /\ f[2] \in known'[f[1]]
         /\ \A s \in DOMAIN tasks : s[2] = "replicate" => <<s[1], s[3]>> \notin fresh'
<1>1. m.to \in Nodes /\ m.from \in Nodes /\ m.from # m.to /\ m.to \notin down
  BY DEF BaseInv, NetOK, MessageOK
<1>2. /\ known' = [known EXCEPT ![m.to] = @ \cup {m.from}]
      /\ fresh' = IF m.from \in known[m.to] THEN fresh ELSE fresh \cup {<<m.to, m.from>>}
  BY DEF Welcome
<1>3. /\ known \in [Nodes -> SUBSET Nodes] /\ \A n \in Nodes : n \notin known[n]
      /\ fresh \subseteq Nodes \X Nodes
      /\ \A f \in fresh : f[1] \notin down /\ f[2] \in known[f[1]]
  BY DEF BaseInv, TypeInv
<1>4. /\ known' \in [Nodes -> SUBSET Nodes] /\ \A n \in Nodes : n \notin known'[n]
      /\ known'[m.to] = known[m.to] \cup {m.from}
      /\ \A n \in Nodes : n # m.to => known'[n] = known[n]
  BY <1>1, <1>2, <1>3
<1>5. Grows
  BY <1>4 DEF Grows
<1>6. /\ fresh \subseteq fresh' /\ fresh' \subseteq fresh \cup {<<m.to, m.from>>}
      /\ <<m.to, m.from>> \in fresh' \ fresh => m.from \notin known[m.to]
      /\ fresh' \subseteq Nodes \X Nodes
  BY <1>1, <1>2, <1>3
<1>7. \A f \in fresh' : f[1] \notin down /\ f[2] \in known'[f[1]]
  <2> SUFFICES ASSUME NEW f \in fresh'
               PROVE  f[1] \notin down /\ f[2] \in known'[f[1]]
    OBVIOUS
  <2>1. CASE f \in fresh
    BY <1>3, <1>5, <2>1 DEF Grows
  <2>2. CASE f = <<m.to, m.from>>
    BY <1>1, <1>4, <2>2
  <2> QED
    BY <1>6, <2>1, <2>2
<1>8. \A s \in DOMAIN tasks : s[2] = "replicate" => <<s[1], s[3]>> \notin fresh'
  <2> SUFFICES ASSUME NEW s \in DOMAIN tasks, s[2] = "replicate"
               PROVE  <<s[1], s[3]>> \notin fresh'
    OBVIOUS
  <2>1. s[3] \in known[s[1]] /\ <<s[1], s[3]>> \notin fresh
    BY DEF BaseInv, TasksOK, TaskOK
  <2> QED
    BY <1>2, <2>1
<1> QED
  BY <1>4, <1>5, <1>6, <1>7, <1>8

LEMMA HandleStoreBase ==
  ASSUME BaseInv, NEW m \in net, HandleStore(m)
  PROVE  BaseInv'
<1>1. /\ m.kind = "store" /\ Welcome(m.to, m.from) /\ store(m.to, m.value[1])
      /\ StoreAnswered(m)
      /\ lost' = lost
      /\ now' = now /\ phase' = phase /\ due' = due /\ stores' = stores /\ down' = down
  BY DEF HandleStore, clockVars, counters
<1>2. /\ m.to \in Nodes /\ m.to \notin down /\ m.value \in Vals /\ m.value[1] \in Nat
  BY <1>1 DEF BaseInv, NetOK, MessageOK, Vals
<1>3. /\ Grows /\ \A n \in Nodes : n \notin known'[n]
      /\ fresh' \subseteq Nodes \X Nodes
      /\ \A f \in fresh' : f[1] \notin down /\ f[2] \in known'[f[1]]
      /\ \A s \in DOMAIN tasks : s[2] = "replicate" => <<s[1], s[3]>> \notin fresh'
  BY <1>1, WelcomeGrows
<1>4. CASE m.awaited /\ Proceed(m.task, net \ {m}) /\ Settle(m.task)
  <2>1. /\ RestOK(m.task, net \ {m}) /\ m.task \in DOMAIN tasks
        /\ tasks[m.task].op # "read"
    BY <1>4, RestAnswered
  <2>2. Advances(m.task, net \ {m})
    BY <1>4, <2>1, ProceedAdvances
  <2>3. TasksOK' /\ NetOK'
    BY <1>3, <2>1, <2>2, AdvancesBase
  <2>4. tasks[m.task].value \in Vals \cup {Nothing}
    BY <2>1 DEF BaseInv, TasksOK, TaskOK, TaskRecords
  <2>5. clean' \in BOOLEAN /\ settled' \in Vals \cup {Nothing}
    BY <1>4, <2>4 DEF Settle, BaseInv, TypeInv
  <2>6. TypeInv'
    BY <1>1, <1>2, <1>3, <2>5, StoreType DEF BaseInv, TypeInv, Grows
  <2> QED
    BY <2>3, <2>6 DEF BaseInv
<1>5. CASE ~m.awaited /\ net' = net \ {m} /\ UNCHANGED <<tasks, ghosts>>
  <2>1. TasksOK' /\ NetOK'
    BY <1>3, <1>5, IdleBase
  <2>2. TypeInv'
    BY <1>1, <1>2, <1>3, <1>5, StoreType DEF BaseInv, TypeInv, Grows, ghosts
  <2> QED
    BY <2>1, <2>2 DEF BaseInv
<1> QED
  BY <1>1, <1>4, <1>5 DEF StoreAnswered

LEMMA HandleFindValueBase ==
  ASSUME BaseInv, NEW m \in net, HandleFindValue(m)
  PROVE  BaseInv'
<1>0. PICK x : x = Answer("found", m, get(m.to))
  OBVIOUS
<1>1. /\ m.kind = "find" /\ Welcome(m.to, m.from) /\ Send(x, net \ {m})
      /\ storage' = storage /\ tasks' = tasks /\ clean' = clean /\ settled' = settled
      /\ now' = now /\ phase' = phase /\ due' = due /\ stores' = stores /\ down' = down
      /\ lost' = lost
  BY <1>0 DEF HandleFindValue, clockVars, counters, ghosts
<1>2. /\ Grows /\ \A n \in Nodes : n \notin known'[n]
      /\ fresh' \subseteq Nodes \X Nodes
      /\ \A f \in fresh' : f[1] \notin down /\ f[2] \in known'[f[1]]
      /\ \A s \in DOMAIN tasks : s[2] = "replicate" => <<s[1], s[3]>> \notin fresh'
  BY <1>1, WelcomeGrows
<1>3. TypeInv'
  BY <1>1, <1>2 DEF BaseInv, TypeInv, Grows
<1>4. MessageOK(m) /\ get(m.to) \in Vals \cup {Nothing}
  BY GetResult DEF BaseInv, NetOK, MessageOK
<1>5. /\ x.kind = "found" /\ x.from = m.to /\ x.to = m.from /\ x.value = get(m.to)
      /\ x.task = m.task /\ x.awaited = m.awaited
      /\ x \in [kind : {"store", "find", "found"}, task : Nodes \X Kinds \X Nodes,
                from : Nodes, to : Nodes, value : Vals \cup {Nothing}, awaited : BOOLEAN]
  BY <1>0, <1>4 DEF Answer, MessageOK
<1>6. x.to \notin down => MessageOK(x)'
  BY <1>1, <1>4, <1>5 DEF MessageOK
<1>7. CASE m.awaited
  <2>1. RestOK(x.task, net \ {m})
    BY <1>5, <1>7, RestAnswered
  <2>2. NetOK'
    BY <1>1, <1>2, <1>6, <2>1, JoinNet
  <2> QED
    BY <1>1, <1>2, <1>3, <2>2, TaskStays DEF BaseInv, TasksOK
<1>8. CASE ~m.awaited
  <2>1. ASSUME NEW y \in net
        PROVE  MessageOK(y)'
    BY <1>1, <1>2 DEF BaseInv, NetOK, MessageOK, Grows
  <2>2. net' = net \ {m} \/ (x.to \notin down /\ net' = (net \ {m}) \cup {x})
    BY <1>1 DEF Send
  <2>3. NetOK'
    BY <1>5, <1>6, <1>8, <2>1, <2>2 DEF NetOK, BaseInv
  <2> QED
    BY <1>1, <1>2, <1>3, <2>3, TaskStays DEF BaseInv, TasksOK
<1> QED
  BY <1>7, <1>8

LEMMA FoundBase ==
  ASSUME BaseInv, NEW m \in net, Found(m)
  PROVE  BaseInv'
<1>1. /\ m.kind = "found" /\ m.awaited
      /\ known' = [known EXCEPT ![m.to] = @ \cup {m.from}]
      /\ storage' = storage \/ (m.value # Nothing /\ store(m.to, m.value[1]))
      /\ tasks' = Without(m.task) /\ net' = net \ {m}
      /\ now' = now /\ phase' = phase /\ due' = due /\ fresh' = fresh
      /\ stores' = stores /\ down' = down /\ clean' = clean /\ settled' = settled
      /\ lost' = lost
  BY DEF Found, clockVars, pending, counters, ghosts
<1>2. /\ m.to \in Nodes /\ m.from \in Nodes /\ m.from # m.to /\ m.to \notin down
      /\ m.value # Nothing => m.value \in Vals /\ m.value[1] \in Nat
  BY DEF BaseInv, NetOK, MessageOK, Vals
<1>3. /\ Grows /\ \A n \in Nodes : n \notin known'[n]
      /\ \A f \in fresh : f[2] \in known'[f[1]]
  BY <1>1, <1>2 DEF Grows, BaseInv, TypeInv
<1>4. TypeInv'
  <2>1. /\ storage' = [p \in Nodes |-> storage'[p]] /\ \A p \in Nodes : IsMap(storage'[p])
        /\ \A p \in down : "key" \notin DOMAIN storage'[p]
    BY <1>1, <1>2, StoreType DEF BaseInv, TypeInv
  <2> QED
    BY <1>1, <1>3, <2>1 DEF BaseInv, TypeInv, Grows
<1>5. RestOK(m.task, net \ {m})
  BY <1>1, RestAnswered
<1>6. \A s \in DOMAIN tasks : s[2] = "replicate" => <<s[1], s[3]>> \notin fresh'
  BY <1>1 DEF BaseInv, TasksOK, TaskOK
<1> QED
  BY <1>1, <1>3, <1>4, <1>5, <1>6, EndsBase DEF BaseInv

LEMMA DroppedBase ==
  ASSUME BaseInv, NEW m \in net, Dropped(m) \/ Lose(m)
  PROVE  BaseInv'
<1>1. /\ net' = net \ {m} /\ storage' = storage /\ known' = known /\ tasks' = tasks
      /\ now' = now /\ phase' = phase /\ due' = due /\ fresh' = fresh
      /\ stores' = stores /\ down' = down /\ settled' = settled
      /\ (lost' = lost \/ lost' = lost + 1) /\ clean' \in {clean, FALSE}
  BY DEF Dropped, Lose, Disturb, clockVars, pending, counters, ghosts
<1>2. TypeInv'
  <2>1. lost' \in Nat
    BY <1>1 DEF BaseInv, TypeInv
  <2>2. clean' \in BOOLEAN
    BY <1>1, Zenon DEF BaseInv, TypeInv
  <2> QED
    BY <1>1, <2>1, <2>2 DEF BaseInv, TypeInv
<1> QED
  BY <1>1, <1>2, IdleBase DEF BaseInv, TypeInv, Grows, TasksOK, TaskOK

(***************************************************************************)
(* The timers of calls, and of store_value.                                *)
(***************************************************************************)
LEMMA TimersBase ==
  ASSUME BaseInv, NEW t \in DOMAIN tasks,
         CallFails(t) \/ CallLost(t) \/ CallTooLate(t) \/ StoreValueTooLate(t)
  PROVE  BaseInv' /\ \E rest : RestOK(t, rest) /\ Advances(t, rest)
<1>1. /\ storage' = storage /\ known' = known /\ now' = now /\ phase' = phase
      /\ due' = due /\ fresh' = fresh /\ stores' = stores /\ lost' = lost /\ down' = down
  BY DEF CallFails, CallLost, CallTooLate, StoreValueTooLate, clockVars, pending, counters
<1>2. Grows /\ \A s \in DOMAIN tasks : s[2] = "replicate" => <<s[1], s[3]>> \notin fresh'
  BY <1>1 DEF Grows, BaseInv, TypeInv, TasksOK, TaskOK
<1>3. tasks[t].op # "read" /\ \E rest : RestOK(t, rest) /\ Advances(t, rest)
  <2>1. CASE CallFails(t) \/ CallLost(t)
    BY <2>1, RestOfNet, ProceedAdvances DEF CallFails, CallLost, Calls
  <2>2. CASE CallTooLate(t)
    BY <2>2, RestUnawaited, ProceedAdvances DEF CallTooLate, Calls
  <2>3. CASE StoreValueTooLate(t)
    BY <2>3, RestUnawaited, AllAreCalled DEF StoreValueTooLate, InStoreValue
  <2> QED
    BY <2>1, <2>2, <2>3
<1>4. TasksOK' /\ NetOK'
  BY <1>2, <1>3, AdvancesBase
<1>5. clean' \in BOOLEAN /\ settled' \in Vals \cup {Nothing}
  <2>1. /\ tasks[t].value \in Vals \cup {Nothing} /\ clean \in BOOLEAN
        /\ settled \in Vals \cup {Nothing}
    BY DEF BaseInv, TypeInv, TasksOK, TaskOK, TaskRecords
  <2>2. CASE CallFails(t)
    BY <2>1, <2>2 DEF CallFails, Settle
  <2>3. CASE CallLost(t) \/ CallTooLate(t)
    BY <2>1, <2>3 DEF CallLost, CallTooLate, Disturb
  <2>4. CASE StoreValueTooLate(t)
    BY <2>1, <2>4 DEF StoreValueTooLate, ghosts
  <2> QED
    BY <2>2, <2>3, <2>4
<1>6. TypeInv'
  BY <1>1, <1>5 DEF BaseInv, TypeInv
<1> QED
  BY <1>3, <1>4, <1>6 DEF BaseInv

(***************************************************************************)
(* The messages of a network in which n crashes: those to n are lost, and  *)
(* nobody waits for the answers to its calls.                              *)
(***************************************************************************)
LEMMA CrashNet ==
  ASSUME BaseInv, NEW n \in Nodes, Crash(n), NEW x \in net'
  PROVE  /\ MessageOK(x)' /\ (x.awaited => x \in net)
         /\ \E m \in net : /\ x.kind = m.kind /\ x.task = m.task /\ x.from = m.from
                           /\ x.to = m.to /\ x.value = m.value
<1>1. PICK m \in net :
        m.to # n /\ x = IF m.task[1] = n THEN [m EXCEPT !.awaited = FALSE] ELSE m
  BY DEF Crash
<1>2. MessageOK(m)
  BY DEF BaseInv, NetOK
<1>3. /\ x \in [kind : {"store", "find", "found"}, task : Nodes \X Kinds \X Nodes,
                from : Nodes, to : Nodes, value : Vals \cup {Nothing}, awaited : BOOLEAN]
      /\ x.kind = m.kind /\ x.task = m.task /\ x.from = m.from /\ x.to = m.to
      /\ x.value = m.value /\ (x.awaited => x = m /\ m.task[1] # n)
  BY <1>1, <1>2 DEF MessageOK
<1>4. /\ down' = down \cup {n} /\ known' = known
      /\ \A t \in DOMAIN tasks : t[1] # n => t \in DOMAIN tasks' /\ tasks'[t] = tasks[t]
  BY DEF Crash
<1>5. MessageOK(x)'
  BY <1>1, <1>2, <1>3, <1>4 DEF MessageOK
<1> QED
  BY <1>3, <1>5

LEMMA CrashBase ==
  ASSUME BaseInv, NEW n \in Nodes, Crash(n)
  PROVE  BaseInv'
<1>1. /\ n \notin down /\ down' = down \cup {n}
      /\ storage' = [storage EXCEPT ![n] = MS!EmptyMap]
      /\ DOMAIN tasks' = {u \in DOMAIN tasks : u[1] # n}
      /\ \A t \in DOMAIN tasks' : tasks'[t] = tasks[t]
      /\ due' = due \ {n} /\ fresh' = {f \in fresh : f[1] # n}
      /\ known' = known /\ now' = now /\ phase' = phase
      /\ stores' = stores /\ clean' = clean /\ settled' = settled /\ lost' = lost
  BY DEF Crash, clockVars, ghosts
<1>2. IsMap(MS!EmptyMap) /\ "key" \notin DOMAIN MS!EmptyMap
  BY DEF IsMap, MS!EmptyMap
<1>3. TypeInv'
  BY <1>1, <1>2 DEF BaseInv, TypeInv
<1>4. ASSUME NEW t \in DOMAIN tasks'
      PROVE  TaskOK(t, tasks[t])'
  BY <1>1 DEF BaseInv, TasksOK, TaskOK
<1>5. NetOK'
  BY CrashNet DEF NetOK, BaseInv
<1> QED
  BY <1>3, <1>4, <1>5 DEF BaseInv, TasksOK

(***************************************************************************)
(* What a tick of the clock does.                                          *)
(***************************************************************************)
LEMMA TickEffect ==
  ASSUME BaseInv, Tick
  PROVE  /\ now' = now + 1 /\ now \in Nat
         /\ storage' = [n \in Nodes |-> storage'[n]]
         /\ \A n \in Nodes :
              /\ IsMap(storage'[n])
              /\ "key" \in DOMAIN storage'[n] <=>
                   "key" \in DOMAIN storage[n]
                     /\ storage[n]["key"].timestamp + DEFAULT_TTL > now'
              /\ "key" \in DOMAIN storage'[n] => storage'[n]["key"] = storage[n]["key"]
<1>1. storage' = [n \in Nodes |-> MS!cleanup(storage[n], now')] /\ now' = now + 1
  BY DEF Tick
<1>2. ASSUME NEW n \in Nodes
      PROVE  LET map == MS!cleanup(storage[n], now')
             IN /\ IsMap(map)
                /\ "key" \in DOMAIN map <=>
                     "key" \in DOMAIN storage[n]
                       /\ storage[n]["key"].timestamp + DEFAULT_TTL > now'
                /\ "key" \in DOMAIN map => map["key"] = storage[n]["key"]
  <2>1. IsMap(storage[n])
    BY DEF BaseInv, TypeInv
  <2>2. "key" \in DOMAIN storage[n] => storage[n]["key"].ttl = DEFAULT_TTL
    BY <2>1 DEF IsMap, Entries
  <2> QED
    BY <2>1, <2>2 DEF IsMap, MS!cleanup, MS!live
<1>3. now \in Nat
  BY DEF BaseInv, TypeInv
<1> QED
  BY <1>1, <1>2, <1>3

LEMMA TickBase ==
  ASSUME BaseInv, Tick
  PROVE  BaseInv'
<1>1. /\ tasks = <<>> /\ net = {} /\ fresh = {}
      /\ due' = {n \in Nodes \ down : now' % REPUBLISH_INTERVAL = phase[n]}
      /\ known' = known /\ tasks' = tasks /\ net' = net /\ phase' = phase /\ fresh' = fresh
      /\ stores' = stores /\ down' = down /\ clean' = clean /\ settled' = settled
      /\ lost' = lost
  BY DEF Tick, counters, ghosts
<1>2. TypeInv'
  <2>1. /\ now' \in Nat /\ due' \subseteq Nodes \ down
        /\ storage' = [n \in Nodes |-> storage'[n]] /\ \A n \in Nodes : IsMap(storage'[n])
    BY <1>1, TickEffect
  <2>2. \A n \in down : "key" \notin DOMAIN storage'[n]
    BY TickEffect DEF BaseInv, TypeInv
  <2> QED
    BY <1>1, <2>1, <2>2 DEF BaseInv, TypeInv
<1>3. DOMAIN tasks' = {}
  BY <1>1
<1> QED
  BY <1>1, <1>2, <1>3 DEF BaseInv, TasksOK, NetOK

(***************************************************************************)
(* Tasks and messages belong together in every state.                      *)
(***************************************************************************)
LEMMA StepBase == BaseInv /\ [Next]_vars => BaseInv'
<1> SUFFICES ASSUME BaseInv, [Next]_vars
             PROVE  BaseInv'
  OBVIOUS
<1>1. ASSUME NEW n \in Nodes,
             StartStore(n) \/ RepublishRead(n) \/ RepublishStore(n) \/ Crash(n)
      PROVE  BaseInv'
  BY <1>1, StartStoreBase, RepublishReadBase, RepublishStoreBase, CrashBase
<1>2. ASSUME NEW n \in Nodes, NEW p \in Nodes \ {n}, StartGet(n, p) \/ Replicate(n, p)
      PROVE  BaseInv'
  BY <1>2, StartGetBase, ReplicateBase
<1>3. ASSUME NEW m \in net,
             HandleStore(m) \/ HandleFindValue(m) \/ Found(m) \/ Dropped(m) \/ Lose(m)
      PROVE  BaseInv'
  BY <1>3, HandleStoreBase, HandleFindValueBase, FoundBase, DroppedBase
<1>4. ASSUME NEW t \in DOMAIN tasks,
             CallFails(t) \/ CallLost(t) \/ CallTooLate(t) \/ StoreValueTooLate(t)
      PROVE  BaseInv'
  BY <1>4, TimersBase
<1>5. CASE Tick
  BY <1>5, TickBase
<1>6. CASE UNCHANGED vars
  <2>1. TasksOK'
    BY <1>6 DEF vars, BaseInv, TasksOK, TaskOK
  <2>2. NetOK'
    BY <1>6 DEF vars, BaseInv, NetOK, MessageOK
  <2> QED
    BY <1>6, <2>1, <2>2 DEF vars, BaseInv, TypeInv
<1> QED
  BY <1>1, <1>2, <1>3, <1>4, <1>5, <1>6 DEF Next

-----------------------------------------------------------------------------
(* A store that runs alone.                                                *)

\* The messages of "rest" say what messages under way say.
FromNet(rest) ==
  \A x \in rest : \E m \in net : /\ x.kind = m.kind /\ x.from = m.from /\ x.to = m.to
                                 /\ x.value = m.value

\* A step of the network in which a store is alone: who has its value keeps it,
\* and the tables of the nodes that are storing do not change.
Alone ==
  /\ stores' = stores /\ down' = down
  /\ \A p \in Nodes : HasNow(p, stores) => HasNow(p, stores)'
  /\ \A n \in Nodes : Client(n) \in DOMAIN tasks => known'[n] = known[n]
  /\ \A f \in fresh' : HasNow(f[1], stores)' /\ f[1] \in known'[f[2]]

(***************************************************************************)
(* Two clients are two tasks, and a client's is not a replication.         *)
(***************************************************************************)
LEMMA ClientNames ==
  ASSUME NEW n, NEW p
  PROVE  /\ Client(n)[1] = n /\ Client(n)[2] = "client"
         /\ Client(n) = Client(p) => n = p
BY DEF Client

(***************************************************************************)
(* A store or replication goes on or ends after a call that has reached    *)
(* its node or has found it crashed, or is given up with store_value.      *)
(***************************************************************************)
LEMMA AdvancesClean ==
  ASSUME BaseInv, CleanInv, clean, Alone, NEW t \in DOMAIN tasks, NEW rest, FromNet(rest),
         Advances(t, rest), NEW last, last = tasks[t].to,
         last \in down \/ HasNow(last, stores)' \/ InStoreValue(tasks[t])
  PROVE  CleanInv'
<1>1. /\ \A s \in DOMAIN tasks : /\ tasks[s].op \in {"store", "replicate"}
                                 /\ tasks[s].value = <<stores>>
      /\ \A m \in net : m.kind = "store" /\ m.value = <<stores>>
      /\ \A n \in Nodes : Client(n) \in DOMAIN tasks => Storing(n)
      /\ \A n, p \in Nodes : {Client(n), Client(p)} \subseteq DOMAIN tasks => n = p
  BY DEF CleanInv
<1>2. /\ stores' = stores /\ down' = down
      /\ \A p \in Nodes : HasNow(p, stores) => HasNow(p, stores)'
      /\ \A n \in Nodes : Client(n) \in DOMAIN tasks => known'[n] = known[n]
      /\ \A f \in fresh' : HasNow(f[1], stores)' /\ f[1] \in known'[f[2]]
  BY DEF Alone
<1>3. \A x \in rest : /\ x.kind = "store" /\ x.value = <<stores>>
                      /\ \E m \in net : x.to = m.to /\ x.from = m.from
  BY <1>1 DEF FromNet
<1>4. CASE Ended(t, rest)
  <2>1. /\ DOMAIN tasks' = DOMAIN tasks \ {t} /\ net' = rest
        /\ \A s \in DOMAIN tasks' : tasks'[s] = tasks[s]
    BY <1>4 DEF Ended, Without
  <2>2. ASSUME NEW n \in Nodes, Client(n) \in DOMAIN tasks'
        PROVE  Storing(n)'
    <3>1. /\ Storing(n) /\ tasks'[Client(n)] = tasks[Client(n)] /\ known'[n] = known[n]
          /\ known[n] \subseteq Nodes
      BY <1>1, <1>2, <2>1, <2>2 DEF BaseInv, TypeInv
    <3>2. \A m \in net' : m.to = n => m.from \in known[n]
      BY <1>3, <2>1, <3>1 DEF Storing
    <3> QED
      BY <1>2, <3>1, <3>2 DEF Storing
  <2> QED
    BY <1>1, <1>2, <1>3, <2>1, <2>2 DEF CleanInv
<1>5. ASSUME NEW p \in known[t[1]], NEW new \in TaskRecords, Continued(t, p, new, rest)
      PROVE  CleanInv'
  <2>1. TaskOK(t, tasks[t])
    BY DEF BaseInv, TasksOK
  <2> DEFINE n == t[1]
  <2>2. n \in Nodes /\ known[n] \subseteq Nodes /\ p # n /\ p \in Nodes
    BY <2>1 DEF TaskOK, BaseInv, TypeInv
  <2>3. /\ new.op = "store" /\ new.op = tasks[t].op /\ new.value = <<stores>> /\ new.to = p
        /\ new.direct => {p} \cup new.queue = IF tasks[t].direct THEN tasks[t].queue
                                                                 ELSE known[n]
    BY <1>1, <1>5 DEF Continued
  <2>4. t = Client(n)
    BY <2>1, <2>3 DEF TaskOK, KindOf, Client
  <2>5. /\ DOMAIN tasks' = DOMAIN tasks /\ tasks'[t] = new
        /\ \A s \in DOMAIN tasks : s # t => tasks'[s] = tasks[s]
    BY <1>5 DEF Continued, Goes, Put
  <2> DEFINE call == Message("store", t, n, p, new.value)
  <2>6. net' \subseteq rest \cup {call}
    BY <1>5 DEF Continued, Goes
  <2>7. call.kind = "store" /\ call.value = <<stores>> /\ call.to = p
    BY <2>3 DEF Message
  <2> HIDE DEF call
  <2>8. \A x \in net' : /\ x.kind = "store" /\ x.value = <<stores>>
                        /\ (x.to = p \/ \E m \in net : x.to = m.to /\ x.from = m.from)
    BY <1>3, <2>6, <2>7
  <2>9. Storing(n) /\ known'[n] = known[n]
    BY <1>1, <1>2, <2>2, <2>4
  <2>10. ASSUME new.direct, NEW q \in known[n] \ (down \cup {p} \cup new.queue)
         PROVE  HasNow(q, stores)'
    <3>1. tasks[t].direct /\ q \notin tasks[t].queue
      BY <2>3, <2>10
    <3>2. CASE q = tasks[t].to
      BY <3>1, <3>2, <2>10 DEF InStoreValue
    <3>3. CASE q # tasks[t].to
      BY <1>2, <2>2, <2>4, <2>9, <3>1, <3>3 DEF Storing
    <3> QED
      BY <3>2, <3>3
  <2>11. ASSUME NEW x \in net', x.to = n
         PROVE  x.from \in known[n]
    BY <2>2, <2>8, <2>9, <2>11 DEF Storing
  <2>12. Storing(n)'
    BY <1>2, <2>2, <2>3, <2>4, <2>5, <2>9, <2>10, <2>11 DEF Storing
  <2>13. \A q \in Nodes : Client(q) \in DOMAIN tasks' => q = n
    BY <1>1, <2>2, <2>4, <2>5
  <2>14. \A s \in DOMAIN tasks' : /\ tasks'[s].op \in {"store", "replicate"}
                                  /\ tasks'[s].value = <<stores>>
    BY <1>1, <2>3, <2>5
  <2> QED
    BY <1>2, <2>8, <2>12, <2>13, <2>14 DEF CleanInv
<1> QED
  BY <1>4, <1>5 DEF Advances

(***************************************************************************)
(* A node that receives a STORE of the store that is alone.                *)
(***************************************************************************)
LEMMA HandleStoreAlone ==
  ASSUME BaseInv, CleanInv, clean, NEW m \in net, HandleStore(m)
  PROVE  Alone /\ HasNow(m.to, stores)'
<1>1. /\ Welcome(m.to, m.from) /\ store(m.to, m.value[1]) /\ m.kind = "store"
      /\ now' = now /\ stores' = stores /\ down' = down
  BY DEF HandleStore, clockVars, counters
<1>2. /\ m.to \in Nodes /\ m.from \in Nodes /\ m.to \in known[m.from] /\ m.value = <<stores>>
      /\ m.from # m.to /\ stores \in Nat /\ m.value[1] = stores
  BY <1>1 DEF BaseInv, TypeInv, NetOK, MessageOK, CleanInv
<1>3. HasNow(m.to, stores)' /\ \A p \in Nodes : p # m.to => storage'[p] = storage[p]
  BY <1>1, <1>2, StoreEffect DEF BaseInv, HasNow
<1>4. \A p \in Nodes : HasNow(p, stores) => HasNow(p, stores)'
  BY <1>1, <1>3 DEF HasNow
<1>5. /\ known'[m.to] = known[m.to] \cup {m.from} /\ Grows
      /\ \A n \in Nodes : n # m.to => known'[n] = known[n]
      /\ fresh' \subseteq fresh \cup {<<m.to, m.from>>}
  BY <1>1, WelcomeGrows
<1>6. ASSUME NEW n \in Nodes, Client(n) \in DOMAIN tasks
      PROVE  known'[n] = known[n]
  <2>1. n = m.to => m.from \in known[n]
    BY <1>6 DEF CleanInv, Storing
  <2> QED
    BY <1>5, <2>1
<1>7. ASSUME NEW f \in fresh'
      PROVE  HasNow(f[1], stores)' /\ f[1] \in known'[f[2]]
  <2>1. CASE f \in fresh
    <3>1. f[1] \in Nodes /\ f[2] \in Nodes
      BY <2>1 DEF BaseInv, TypeInv
    <3>2. HasNow(f[1], stores) /\ f[1] \in known[f[2]]
      BY <2>1 DEF CleanInv
    <3> QED
      BY <1>4, <1>5, <3>1, <3>2 DEF Grows
  <2>2. CASE f = <<m.to, m.from>>
    BY <1>2, <1>3, <1>5, <2>2 DEF Grows
  <2> QED
    BY <1>5, <2>1, <2>2
<1> QED
  BY <1>1, <1>3, <1>4, <1>6, <1>7 DEF Alone

LEMMA StartStoreClean ==
  ASSUME BaseInv, NEW n \in Nodes, StartStore(n), clean'
  PROVE  CleanInv'
<1> DEFINE t == Client(n)
<1>1. /\ tasks = <<>> /\ net = {} /\ fresh = {} /\ fresh' = fresh /\ known' = known
      /\ store(n, stores') /\ now' = now /\ stores' = stores + 1
  BY DEF StartStore, clockVars, pending
<1>2. DOMAIN tasks = {} /\ stores' \in Nat /\ <<stores'>> \in Vals
  BY <1>1 DEF BaseInv, TypeInv, Vals
<1>3. HasNow(n, stores)'
  BY <1>1, <1>2, StoreEffect DEF BaseInv, HasNow
<1>4. CASE Call(t, Task("store", <<stores'>>, n), get_closest(n, K), net)
  <2>1. PICK p \in known[n], new \in TaskRecords :
          /\ Goes(t, p, new, net)
          /\ new.op = "store" /\ new.value = <<stores'>> /\ new.direct = FALSE
    <3> DEFINE task == Task("store", <<stores'>>, n)
    <3>1. get_closest(n, K) \in SUBSET Nodes /\ get_closest(n, K) \subseteq known[n]
      BY ClosestKnown DEF BaseInv, TypeInv
    <3>2. /\ task \in TaskRecords /\ task.op = "store" /\ task.value = <<stores'>>
          /\ task.direct = FALSE
      BY <1>2 DEF Task, TaskRecords
    <3> HIDE DEF t, task
    <3>3. Call(t, task, get_closest(n, K), net)
      BY <1>4 DEF task
    <3> QED
      BY <3>1, <3>2, <3>3, CallGoes
  <2> DEFINE call == Message("store", t, t[1], p, new.value)
  <2>2. DOMAIN tasks' = {t} /\ tasks'[t] = new /\ net' \subseteq {call}
    BY <1>1, <1>2, <2>1 DEF Goes, Put
  <2>3. call.kind = "store" /\ call.value = <<stores'>> /\ call.to = p /\ p # n
    BY <2>1 DEF Message, BaseInv, TypeInv
  <2> HIDE DEF call
  <2>4. \A m \in net' : m.kind = "store" /\ m.value = <<stores'>> /\ m.to # n
    BY <2>2, <2>3
  <2>5. Storing(n)'
    BY <1>3, <2>1, <2>2, <2>4 DEF Storing
  <2>6. \A q \in Nodes : Client(q) \in DOMAIN tasks' => q = n
    BY <2>2, ClientNames
  <2> QED
    BY <1>1, <2>1, <2>2, <2>4, <2>5, <2>6 DEF CleanInv
<1>5. CASE UNCHANGED <<tasks, net>>
  BY <1>1, <1>2, <1>5 DEF CleanInv
<1> QED
  BY <1>4, <1>5 DEF StartStore

LEMMA ReplicateClean ==
  ASSUME BaseInv, CleanInv, clean, NEW n \in Nodes, NEW q \in Nodes, Replicate(n, q)
  PROVE  CleanInv'
<1> DEFINE t == Replicator(n, q)
<1>1. /\ <<n, q>> \in fresh /\ fresh' = fresh \ {<<n, q>>} /\ storage' = storage
      /\ known' = known /\ now' = now /\ stores' = stores /\ down' = down
  BY DEF Replicate, clockVars, counters, ghosts
<1>2. HasNow(n, stores) /\ n \in known[q] /\ now \in Nat
  BY <1>1 DEF CleanInv, BaseInv, TypeInv
<1>3. get(n) = <<stores>> /\ stores \in Nat /\ <<stores>> \in Vals
  <2>1. /\ "key" \in DOMAIN storage[n] /\ storage[n]["key"].value = stores
        /\ storage[n]["key"].timestamp = now
    BY <1>2 DEF HasNow
  <2> QED
    BY <1>2, <2>1, GetResult, TtlAssumption DEF BaseInv, TypeInv, Vals
<1>4. \A p \in Nodes : HasNow(p, stores) => HasNow(p, stores)'
  BY <1>1 DEF HasNow
<1>5. CASE Call(t, Task("replicate", get(n), q), {q}, net)
  <2>1. PICK p \in {q}, new \in TaskRecords :
          /\ Goes(t, p, new, net)
          /\ new.op = "replicate" /\ new.value = <<stores>>
    <3> DEFINE task == Task("replicate", get(n), q)
               queue == {q}
    <3>1. queue \in SUBSET Nodes
      OBVIOUS
    <3>2. task \in TaskRecords /\ task.op = "replicate" /\ task.value = <<stores>>
      BY <1>3 DEF Task, TaskRecords
    <3>3. Call(t, task, queue, net)
      BY <1>5
    <3> HIDE DEF t, task, queue
    <3>4. \E p \in queue : \E new \in TaskRecords :
            /\ Goes(t, p, new, net)
            /\ new.op = task.op /\ new.value = task.value
      BY <3>1, <3>2, <3>3, CallGoes
    <3> QED
      BY <3>2, <3>4 DEF queue
  <2> DEFINE call == Message("store", t, t[1], p, new.value)
  <2>2. /\ DOMAIN tasks' = DOMAIN tasks \cup {t} /\ tasks'[t] = new
        /\ \A s \in DOMAIN tasks : s # t => tasks'[s] = tasks[s]
        /\ net' \subseteq net \cup {call}
    BY <2>1 DEF Goes, Put
  <2>3. call.kind = "store" /\ call.value = <<stores>> /\ call.to = q /\ call.from = n
    BY <2>1 DEF Message, Replicator
  <2> HIDE DEF call
  <2>4. \A m \in net' : /\ m.kind = "store" /\ m.value = <<stores>>
                        /\ m \in net \/ (m.to = q /\ m.from = n)
    BY <2>2, <2>3 DEF CleanInv
  <2>5. \A p_1 \in Nodes : Client(p_1) # t
    BY DEF Client, Replicator
  <2> HIDE DEF t
  <2>6. ASSUME NEW c \in Nodes, Client(c) \in DOMAIN tasks'
        PROVE  Client(c) \in DOMAIN tasks /\ Storing(c)'
    <3>1. /\ Client(c) \in DOMAIN tasks /\ tasks'[Client(c)] = tasks[Client(c)]
          /\ known[c] \subseteq Nodes /\ Storing(c)
      BY <2>2, <2>5, <2>6 DEF CleanInv, BaseInv, TypeInv
    <3>2. \A m \in net' : m.to = c => m.from \in known[c]
      BY <1>2, <2>4, <3>1 DEF Storing
    <3> QED
      BY <1>1, <1>4, <3>1, <3>2 DEF Storing
  <2>7. \A s \in DOMAIN tasks' : /\ tasks'[s].op \in {"store", "replicate"}
                                 /\ tasks'[s].value = <<stores>>
    BY <2>1, <2>2 DEF CleanInv
  <2>8. \A f \in fresh' : HasNow(f[1], stores)' /\ f[1] \in known[f[2]]
    BY <1>1, <1>4 DEF CleanInv, BaseInv, TypeInv
  <2> QED
    BY <1>1, <2>4, <2>6, <2>7, <2>8 DEF CleanInv
<1>6. CASE UNCHANGED <<tasks, net>>
  BY <1>1, <1>6 DEF CleanInv, Storing, HasNow
<1> QED
  BY <1>5, <1>6 DEF Replicate

LEMMA CrashClean ==
  ASSUME BaseInv, CleanInv, clean, NEW n \in Nodes, Crash(n)
  PROVE  CleanInv'
<1>1. /\ down' = down \cup {n} /\ storage' = [storage EXCEPT ![n] = MS!EmptyMap]
      /\ DOMAIN tasks' = {u \in DOMAIN tasks : u[1] # n}
      /\ \A t \in DOMAIN tasks' : tasks'[t] = tasks[t]
      /\ fresh' = {f \in fresh : f[1] # n}
      /\ known' = known /\ now' = now /\ stores' = stores
  BY DEF Crash, clockVars, ghosts
<1>2. \A p \in Nodes \ {n} : HasNow(p, stores) => HasNow(p, stores)'
  BY <1>1 DEF HasNow, BaseInv, TypeInv
<1>3. ASSUME NEW c \in Nodes, Client(c) \in DOMAIN tasks'
      PROVE  Client(c) \in DOMAIN tasks /\ Storing(c)'
  <2>1. /\ Client(c) \in DOMAIN tasks /\ tasks'[Client(c)] = tasks[Client(c)] /\ c # n
        /\ Storing(c) /\ known[c] \subseteq Nodes
    BY <1>1, <1>3, ClientNames DEF CleanInv, BaseInv, TypeInv
  <2>2. \A x \in net' : x.to = c => x.from \in known[c]
    BY <2>1, CrashNet DEF Storing
  <2> QED
    BY <1>1, <1>2, <2>1, <2>2 DEF Storing
<1>4. \A x \in net' : x.kind = "store" /\ x.value = <<stores>>
  BY CrashNet DEF CleanInv
<1>5. \A f \in fresh' : HasNow(f[1], stores)' /\ f[1] \in known[f[2]]
  BY <1>1, <1>2 DEF CleanInv, BaseInv, TypeInv
<1> QED
  BY <1>1, <1>3, <1>4, <1>5 DEF CleanInv

(***************************************************************************)
(* A store that is alone leaves its value wherever it has been.            *)
(***************************************************************************)
LEMMA StepClean == BaseInv /\ CleanInv /\ [Next]_vars => CleanInv'
<1> SUFFICES ASSUME BaseInv, CleanInv, [Next]_vars, clean'
             PROVE  CleanInv'
  BY DEF CleanInv
<1>1. ASSUME NEW n \in Nodes, StartStore(n)
      PROVE  CleanInv'
  BY <1>1, StartStoreClean
<1>2. ASSUME NEW n \in Nodes, RepublishRead(n) \/ \E p \in Nodes \ {n} : StartGet(n, p)
      PROVE  CleanInv'
  BY <1>2 DEF RepublishRead, StartGet, Disturb
<1>3. ASSUME NEW n \in Nodes, RepublishStore(n)
      PROVE  CleanInv'
  BY <1>3 DEF RepublishStore, CleanInv, ghosts
<1>4. ASSUME NEW n \in Nodes, Crash(n)
      PROVE  CleanInv'
  BY <1>4, CrashClean DEF Crash, ghosts
<1>5. ASSUME NEW n \in Nodes, NEW p \in Nodes \ {n}, Replicate(n, p)
      PROVE  CleanInv'
  BY <1>5, ReplicateClean DEF Replicate, ghosts
<1>6. ASSUME NEW m \in net, HandleStore(m)
      PROVE  CleanInv'
  <2>1. clean
    BY <1>6 DEF HandleStore, StoreAnswered, Settle, ghosts
  <2>2. Alone /\ HasNow(m.to, stores)' /\ FromNet(net \ {m})
    BY <1>6, <2>1, HandleStoreAlone DEF FromNet
  <2>3. CASE m.awaited
    <3>1. m.task \in DOMAIN tasks /\ Advances(m.task, net \ {m}) /\ m.to = tasks[m.task].to
      <4>1. m.task \in DOMAIN tasks /\ m.to = tasks[m.task].to
        BY <1>6, <2>3 DEF HandleStore, BaseInv, NetOK, MessageOK
      <4> QED
        BY <1>6, <2>3, <4>1, ProceedAdvances DEF HandleStore, StoreAnswered
    <3> QED
      BY <2>1, <2>2, <3>1, AdvancesClean
  <2>4. CASE ~m.awaited
    <3>1. tasks' = tasks /\ net' = net \ {m}
      BY <1>6, <2>4 DEF HandleStore, StoreAnswered
    <3>2. ASSUME NEW c \in Nodes, Client(c) \in DOMAIN tasks
          PROVE  Storing(c)'
      <4>1. Storing(c) /\ known'[c] = known[c] /\ known[c] \subseteq Nodes
        BY <2>1, <2>2, <3>2 DEF CleanInv, Alone, BaseInv, TypeInv
      <4> QED
        BY <2>2, <3>1, <4>1 DEF Storing, Alone
    <3> QED
      BY <2>1, <2>2, <3>1, <3>2 DEF CleanInv, Alone
  <2> QED
    BY <2>3, <2>4
<1>7. ASSUME NEW m \in net, HandleFindValue(m) \/ Found(m) \/ Dropped(m)
      PROVE  CleanInv'
  BY <1>7 DEF HandleFindValue, Found, Dropped, CleanInv, ghosts
<1>8. ASSUME NEW t \in DOMAIN tasks, CallFails(t) \/ StoreValueTooLate(t)
      PROVE  CleanInv'
  <2>1. /\ clean /\ storage' = storage /\ known' = known /\ fresh' = fresh /\ now' = now
        /\ down' = down /\ stores' = stores
    BY <1>8 DEF CallFails, StoreValueTooLate, Settle, ghosts, pending, counters, clockVars
  <2>2. Alone
    BY <2>1 DEF Alone, CleanInv, HasNow
  <2>3. PICK last : last = tasks[t].to
    OBVIOUS
  <2>4. CASE CallFails(t)
    <3>1. Advances(t, net) /\ FromNet(net) /\ last \in down
      BY <2>3, <2>4, ProceedAdvances DEF CallFails, FromNet
    <3> QED
      BY <2>1, <2>2, <2>3, <3>1, AdvancesClean
  <2>5. CASE StoreValueTooLate(t)
    <3>1. /\ Advances(t, Unawaited(t)) /\ FromNet(Unawaited(t)) /\ InStoreValue(tasks[t])
      BY <2>5, AllAreCalled, RestUnawaited DEF StoreValueTooLate, FromNet
    <3> QED
      BY <2>1, <2>2, <2>3, <3>1, AdvancesClean
  <2> QED
    BY <1>8, <2>4, <2>5
<1>9. ASSUME (\E t \in DOMAIN tasks : CallLost(t) \/ CallTooLate(t)) \/ \E m \in net : Lose(m)
      PROVE  CleanInv'
  BY <1>9 DEF CallLost, CallTooLate, Lose, Disturb
<1>10. CASE Tick
  <2>1. DOMAIN tasks' = {} /\ net' = {} /\ fresh' = {}
    BY <1>10 DEF Tick
  <2> QED
    BY <2>1 DEF CleanInv
<1>11. CASE UNCHANGED vars
  BY <1>11 DEF vars, CleanInv, Storing, HasNow
<1> QED
  BY <1>1, <1>2, <1>3, <1>4, <1>5, <1>6, <1>7, <1>8, <1>9, <1>10, <1>11 DEF Next

(***************************************************************************)
(* When the store that is alone has had the outcome of its last call, its  *)
(* value is at its node and at every running contact of it.                *)
(***************************************************************************)
LEMMA StoreReachesAll ==
  ASSUME BaseInv, CleanInv, clean, Alone, NEW t \in DOMAIN tasks, tasks[t].op = "store",
         Ends(tasks[t]), NEW last, last = tasks[t].to, last \in down \/ HasNow(last, stores)'
  PROVE  /\ tasks[t].value = <<stores>>
         /\ \A p \in (known[t[1]] \cup {t[1]}) \ down : HasNow(p, stores)'
<1> DEFINE n == t[1]
<1>1. TaskOK(t, tasks[t])
  BY DEF BaseInv, TasksOK
<1>2. t = Client(n) /\ n \in Nodes /\ known[n] \subseteq Nodes
  BY <1>1 DEF TaskOK, KindOf, Client, BaseInv, TypeInv
<1>3. tasks[t].direct /\ tasks[t].queue = {}
  BY DEF Ends, InStoreValue
<1>4. Storing(n) /\ tasks[t].value = <<stores>>
  BY <1>2 DEF CleanInv
<1>5. HasNow(n, stores)'
  BY <1>2, <1>4 DEF Storing, Alone
<1>6. ASSUME NEW p \in known[n] \ down
      PROVE  HasNow(p, stores)'
  BY <1>2, <1>3, <1>4 DEF Storing, Alone
<1> QED
  BY <1>4, <1>5, <1>6

(***************************************************************************)
(* The last call of a store that is alone is answered or fails.            *)
(***************************************************************************)
LEMMA LastCall ==
  ASSUME BaseInv, CleanInv, clean, NEW t \in DOMAIN tasks,
         \/ \E m \in net : HandleStore(m) /\ m.awaited /\ m.task = t
         \/ CallFails(t)
  PROVE  /\ Alone
         /\ \E last : last = tasks[t].to /\ (last \in down \/ HasNow(last, stores)')
<1>1. ASSUME NEW m \in net, HandleStore(m), m.awaited, m.task = t
      PROVE  Alone /\ \E last : last = tasks[t].to /\ HasNow(last, stores)'
  <2>1. m.to = tasks[t].to
    BY <1>1 DEF HandleStore, BaseInv, NetOK, MessageOK
  <2> QED
    BY <1>1, <2>1, HandleStoreAlone
<1>2. CASE CallFails(t)
  <2>1. /\ storage' = storage /\ known' = known /\ fresh' = fresh /\ now' = now
        /\ down' = down /\ stores' = stores /\ tasks[t].to \in down
    BY <1>2 DEF CallFails, pending, counters, clockVars
  <2>2. Alone
    BY <2>1 DEF Alone, CleanInv, HasNow
  <2> QED
    BY <2>1, <2>2
<1> QED
  BY <1>1, <1>2

(***************************************************************************)
(* How the task of a client can end.                                       *)
(***************************************************************************)
LEMMA HowItEnds ==
  ASSUME BaseInv, CleanInv, [Next]_vars, clean', NEW n \in Nodes,
         Client(n) \in DOMAIN tasks, tasks[Client(n)].op = "store",
         Client(n) \notin DOMAIN tasks', n \notin down'
  PROVE  /\ clean /\ Ends(tasks[Client(n)]) /\ down' = down
         /\ \/ \E m \in net : HandleStore(m) /\ m.awaited /\ m.task = Client(n)
            \/ CallFails(Client(n))
<1> DEFINE t == Client(n)
<1>1. t[1] = n /\ \A p : t # Republisher(p)
  BY DEF Client, Republisher
<1> HIDE DEF t
<1>2. \A s, task : t \in DOMAIN Put(s, task)
  BY DEF Put, t
<1>3. ASSUME NEW s, NEW rest, Advances(s, rest)
      PROVE  s = t /\ Ends(tasks[s])
  <2>1. \A p, new : ~Goes(s, p, new, rest)
    BY <1>2 DEF Goes, t
  <2> QED
    BY <1>3, <2>1 DEF Advances, Continued, Ended, Without, t
<1>4. ASSUME NEW c \in Nodes, StartStore(c)
      PROVE  FALSE
  BY <1>2, <1>4 DEF StartStore, Call, t
<1>5. ASSUME NEW c \in Nodes, RepublishRead(c) \/ \E p \in Nodes \ {c} : StartGet(c, p)
      PROVE  FALSE
  BY <1>5 DEF RepublishRead, StartGet, Disturb
<1>6. ASSUME NEW c \in Nodes, RepublishStore(c)
      PROVE  FALSE
  BY <1>6 DEF RepublishStore, CleanInv, ghosts
<1>7. ASSUME NEW c \in Nodes, Crash(c)
      PROVE  FALSE
  BY <1>1, <1>7 DEF Crash, t
<1>8. ASSUME NEW c \in Nodes, NEW p \in Nodes \ {c}, Replicate(c, p)
      PROVE  FALSE
  BY <1>2, <1>8 DEF Replicate, Call, t
<1>9. ASSUME NEW m \in net, HandleStore(m)
      PROVE  clean /\ Ends(tasks[t]) /\ down' = down /\ m.awaited /\ m.task = t
  <2>1. clean /\ down' = down /\ m.awaited /\ Proceed(m.task, net \ {m})
    BY <1>9 DEF HandleStore, StoreAnswered, Settle, ghosts, t
  <2>2. Advances(m.task, net \ {m})
    BY <2>1, RestAnswered, ProceedAdvances
  <2> QED
    BY <1>3, <2>1, <2>2
<1>10. ASSUME NEW m \in net, HandleFindValue(m) \/ Found(m) \/ Dropped(m)
       PROVE  FALSE
  BY <1>10 DEF HandleFindValue, Found, Dropped, CleanInv, ghosts
<1>11. ASSUME NEW s \in DOMAIN tasks, CallFails(s)
       PROVE  clean /\ Ends(tasks[t]) /\ down' = down /\ s = t
  <2>1. Advances(s, net)
    BY <1>11, ProceedAdvances DEF CallFails
  <2> QED
    BY <1>3, <1>11, <2>1 DEF CallFails, Settle
<1>12. ASSUME NEW s \in DOMAIN tasks, CallLost(s) \/ CallTooLate(s) \/ StoreValueTooLate(s)
       PROVE  FALSE
  BY <1>2, <1>12 DEF CallLost, CallTooLate, StoreValueTooLate, Disturb, CallAll, Call, t
<1>13. CASE Tick \/ \E m \in net : Lose(m)
  BY <1>13 DEF Tick, Lose
<1>14. CASE UNCHANGED vars
  BY <1>14 DEF vars
<1> QED
  BY <1>4, <1>5, <1>6, <1>7, <1>8, <1>9, <1>10, <1>11, <1>12, <1>13, <1>14 DEF Next, t

(***************************************************************************)
(* A step that ends a store that has been alone leaves its value at its    *)
(* node and at every running contact.                                      *)
(***************************************************************************)
LEMMA StepTakesEffect ==
  ASSUME BaseInv, BaseInv', CleanInv, [Next]_vars, clean', NEW n \in Nodes,
         Client(n) \in DOMAIN tasks, tasks[Client(n)].op = "store",
         Client(n) \notin DOMAIN tasks', n \notin down'
  PROVE  \A p \in (known[n] \cup {n}) \ down' : get(p)' = tasks[Client(n)].value
<1> DEFINE t == Client(n)
<1>1. t[1] = n
  BY DEF Client
<1>2. /\ clean /\ Ends(tasks[t]) /\ down' = down
      /\ \/ \E m \in net : HandleStore(m) /\ m.awaited /\ m.task = t
         \/ CallFails(t)
  BY HowItEnds
<1> HIDE DEF t
<1>3. PICK last : /\ Alone /\ last = tasks[t].to
                  /\ last \in down \/ HasNow(last, stores)'
  BY <1>2, LastCall DEF t
<1>4. /\ tasks[t].value = <<stores>> /\ stores' = stores
      /\ \A p \in (known[n] \cup {n}) \ down : HasNow(p, stores)'
  BY <1>1, <1>2, <1>3, StoreReachesAll DEF t, Alone
<1>5. ASSUME NEW p \in (known[n] \cup {n}) \ down
      PROVE  get(p)' = <<stores>>
  <2>1. p \in Nodes /\ HasNow(p, stores)'
    BY <1>4, <1>5 DEF BaseInv, TypeInv
  <2>2. now' \in Nat
    BY DEF BaseInv, TypeInv
  <2> QED
    BY <1>4, <2>1, <2>2, TtlAssumption DEF HasNow, get, MS!lookup, MS!live
<1> QED
  BY <1>2, <1>4, <1>5 DEF t

-----------------------------------------------------------------------------
(* After a store that has run alone.                                       *)

\* The values of tasks and messages are in V.
UnderWayIn(V) == /\ \A t \in DOMAIN tasks : tasks[t].value \in V
                 /\ \A m \in net : m.value \in V

(***************************************************************************)
(* A task goes on with the value it has.                                   *)
(***************************************************************************)
LEMMA AdvancesValues ==
  ASSUME NEW t \in DOMAIN tasks, NEW rest, FromNet(rest), Advances(t, rest),
         NEW V, UnderWayIn(V)
  PROVE  UnderWayIn(V)'
<1>1. CASE Ended(t, rest)
  BY <1>1 DEF Ended, Without, FromNet, UnderWayIn
<1>2. ASSUME NEW p, NEW new, Continued(t, p, new, rest)
      PROVE  UnderWayIn(V)'
  <2>1. new.value \in V /\ Goes(t, p, new, rest)
    BY <1>2 DEF Continued, UnderWayIn
  <2> DEFINE call == Message("store", t, t[1], p, new.value)
  <2>2. call.value \in V
    BY <2>1 DEF Message
  <2> HIDE DEF call
  <2>3. net' \subseteq rest \cup {call}
    BY <2>1 DEF Goes, call
  <2>4. /\ DOMAIN tasks' = DOMAIN tasks \cup {t} /\ tasks'[t] = new
        /\ \A s \in DOMAIN tasks : s # t => tasks'[s] = tasks[s]
    BY <2>1 DEF Goes, Put
  <2>5. \A x \in rest : x.value \in V
    BY DEF FromNet, UnderWayIn
  <2> QED
    BY <2>1, <2>2, <2>3, <2>4, <2>5 DEF UnderWayIn
<1> QED
  BY <1>1, <1>2 DEF Advances

(***************************************************************************)
(* A task that begins has the value it is given.                           *)
(***************************************************************************)
LEMMA CallValues ==
  ASSUME NEW t, NEW op, NEW value, NEW q, NEW queue, Call(t, Task(op, value, q), queue, net),
         NEW V, value \in V, UnderWayIn(V)
  PROVE  UnderWayIn(V)'
<1>1. PICK p \in Candidates(queue, Task(op, value, q).direct) :
        /\ tasks' = Put(t, [Task(op, value, q) EXCEPT !.to = p, !.queue = queue \ {p}])
        /\ Send(Message("store", t, t[1], p, Task(op, value, q).value), net)
  BY DEF Call
<1> DEFINE new == [Task(op, value, q) EXCEPT !.to = p, !.queue = queue \ {p}]
           call == Message("store", t, t[1], p, Task(op, value, q).value)
<1>2. new.value = value /\ call.value = value
  BY DEF Task, Message
<1> HIDE DEF new, call
<1>3. net' \subseteq net \cup {call}
  BY <1>1 DEF Send, call
<1>4. /\ DOMAIN tasks' = DOMAIN tasks \cup {t} /\ tasks'[t] = new
      /\ \A s \in DOMAIN tasks : s # t => tasks'[s] = tasks[s]
  BY <1>1 DEF Put, new
<1> QED
  BY <1>2, <1>3, <1>4 DEF UnderWayIn

\* What is stored is the given value.
StoredIs(v) ==
  \A n \in Nodes : "key" \in DOMAIN storage[n] => <<storage[n]["key"].value>> = v

(***************************************************************************)
(* A store of that value at one node.                                      *)
(***************************************************************************)
LEMMA StoreKeepsValue ==
  ASSUME BaseInv, NEW n \in Nodes, NEW value \in Vals, store(n, value[1]), StoredIs(value)
  PROVE  StoredIs(value)'
<1>1. TypeInv /\ value[1] \in Nat
  BY DEF BaseInv, Vals
<1>2. value = <<value[1]>>
  BY DEF Vals
<1>3. /\ storage'[n]["key"] = [value |-> value[1], timestamp |-> now, ttl |-> DEFAULT_TTL]
      /\ \A p \in Nodes : p # n => storage'[p] = storage[p]
  BY <1>1, StoreEffect
<1> QED
  BY <1>2, <1>3 DEF StoredIs

(***************************************************************************)
(* Everybody still knows everybody.                                        *)
(***************************************************************************)
LEMMA FullStays ==
  ASSUME BaseInv', Full, \A n \in Nodes : known[n] \subseteq known'[n]
  PROVE  Full'
BY DEF BaseInv, TypeInv, Full

(***************************************************************************)
(* A step that settles a store.                                            *)
(***************************************************************************)
LEMMA Settles ==
  ASSUME BaseInv, BaseInv', CleanInv, CleanInv', NEW t \in DOMAIN tasks, Settle(t),
         \/ \E m \in net : HandleStore(m) /\ m.awaited /\ m.task = t
         \/ CallFails(t),
         tasks[t].op = "store", Ends(tasks[t]), clean, Full
  PROVE  SettledInv'
<1>1. PICK last : /\ Alone /\ last = tasks[t].to
                  /\ last \in down \/ HasNow(last, stores)'
  BY LastCall
<1>2. /\ settled' = <<stores>> /\ stores' = stores /\ down' = down /\ clean'
      /\ \A p \in (known[t[1]] \cup {t[1]}) \ down : HasNow(p, stores)'
  BY <1>1, StoreReachesAll DEF Settle, Alone
<1>3. t[1] \in Nodes
  BY DEF BaseInv, TasksOK, TaskOK
<1>4. \A p \in Nodes \ down : HasNow(p, stores)'
  BY <1>2, <1>3 DEF Full
<1>5. StoredIs(<<stores>>)'
  <2> SUFFICES ASSUME NEW p \in Nodes, "key" \in DOMAIN storage'[p]
               PROVE  <<storage'[p]["key"].value>> = <<stores>>'
    BY DEF StoredIs
  <2>1. p \notin down
    BY <1>2 DEF BaseInv, TypeInv
  <2> QED
    BY <1>2, <1>4, <2>1 DEF HasNow
<1>6. Full'
  <2>1. \A n \in Nodes : known[n] \subseteq known'[n]
    <3>1. ASSUME NEW m \in net, HandleStore(m)
          PROVE  \A n \in Nodes : known[n] \subseteq known'[n]
      BY <1>2, <3>1, WelcomeGrows DEF HandleStore, Grows
    <3>2. CASE CallFails(t)
      BY <3>2 DEF CallFails
    <3> QED
      BY <3>1, <3>2
  <2> QED
    BY <2>1, FullStays
<1> QED
  BY <1>2, <1>5, <1>6 DEF SettledInv, CleanInv, StoredIs

(***************************************************************************)
(* Nothing but the value of the last store that ran alone is stored or     *)
(* under way.                                                              *)
(***************************************************************************)
LEMMA StepSettled ==
  ASSUME BaseInv, BaseInv', CleanInv, CleanInv', SettledInv, [Next]_vars
  PROVE  SettledInv'
<1> SUFFICES ASSUME settled' # Nothing
             PROVE  SettledInv'
  BY DEF SettledInv
<1> DEFINE V == {settled, Nothing}
<1>1. ASSUME settled' = settled,
             settled # Nothing => /\ \A n \in Nodes : known[n] \subseteq known'[n]
                                  /\ StoredIs(settled)' /\ UnderWayIn(V)'
      PROVE  SettledInv'
  <2>1. Full
    BY <1>1 DEF SettledInv
  <2>2. Full'
    BY <1>1, <2>1, FullStays
  <2> QED
    BY <1>1, <2>2 DEF SettledInv, StoredIs, UnderWayIn
<1>2. settled # Nothing => StoredIs(settled) /\ UnderWayIn(V) /\ settled \in Vals
  BY DEF SettledInv, StoredIs, UnderWayIn, BaseInv, TypeInv
<1>3. \A n \in Nodes : settled # Nothing => get(n) \in V
  BY <1>2, GetResult DEF StoredIs
<1>4. ASSUME NEW n \in Nodes, StartStore(n)
      PROVE  FALSE
  BY <1>4 DEF StartStore
<1>5. ASSUME NEW n \in Nodes, RepublishRead(n)
      PROVE  SettledInv'
  <2>1. /\ settled' = settled /\ known' = known /\ storage' = storage /\ net' = net
        /\ \/ tasks' = tasks
           \/ tasks' = Put(Republisher(n), Task("read", get(n), n))
    BY <1>5 DEF RepublishRead, Disturb
  <2>2. Task("read", get(n), n).value = get(n)
    BY DEF Task
  <2>3. ASSUME settled # Nothing
        PROVE  UnderWayIn(V)'
    BY <1>2, <1>3, <2>1, <2>2, <2>3 DEF UnderWayIn, Put
  <2> QED
    BY <1>1, <1>2, <2>1, <2>3 DEF StoredIs
<1>6. ASSUME NEW n \in Nodes, RepublishStore(n)
      PROVE  SettledInv'
  <2> DEFINE t == Republisher(n)
  <2>1. /\ settled' = settled /\ known' = known /\ t \in DOMAIN tasks
        /\ tasks[t].op = "read" /\ store(n, tasks[t].value[1])
        /\ \/ Call(t, Task("republish", tasks[t].value, n), get_closest(n, K), net)
           \/ tasks' = Without(t) /\ net' = net
    BY <1>6 DEF RepublishStore, ghosts
  <2>2. tasks[t].value # Nothing
    BY <2>1 DEF BaseInv, TasksOK, TaskOK
  <2> HIDE DEF t
  <2>3. ASSUME settled # Nothing
        PROVE  StoredIs(settled)' /\ UnderWayIn(V)'
    <3>1. tasks[t].value = settled
      BY <1>2, <2>1, <2>2, <2>3 DEF UnderWayIn
    <3>2. PICK v : v = settled
      OBVIOUS
    <3>3. StoredIs(v)'
      BY <1>2, <2>1, <2>3, <3>1, <3>2, StoreKeepsValue
    <3>4. PICK W : W = V
      OBVIOUS
    <3>5. UnderWayIn(W)'
      <4>1. CASE tasks' = Without(t) /\ net' = net
        BY <1>2, <2>3, <3>4, <4>1 DEF UnderWayIn, Without
      <4>2. CASE Call(t, Task("republish", tasks[t].value, n), get_closest(n, K), net)
        BY <1>2, <2>3, <3>1, <3>4, <4>2, CallValues
      <4> QED
        BY <2>1, <4>1, <4>2
    <3> QED
      BY <2>1, <3>2, <3>3, <3>4, <3>5
  <2> QED
    BY <1>1, <2>1, <2>3
<1>7. ASSUME NEW n \in Nodes, Crash(n)
      PROVE  SettledInv'
  <2>1. /\ settled' = settled /\ known' = known
        /\ storage' = [storage EXCEPT ![n] = MS!EmptyMap]
        /\ tasks' = [t \in {u \in DOMAIN tasks : u[1] # n} |-> tasks[t]]
    BY <1>7 DEF Crash, ghosts
  <2>2. ASSUME settled # Nothing
        PROVE  StoredIs(settled)' /\ UnderWayIn(V)'
    <3>1. StoredIs(settled)'
      BY <1>2, <2>1, <2>2 DEF StoredIs, MS!EmptyMap, BaseInv, TypeInv
    <3>2. \A x \in net' : x.value \in V
      BY <1>2, <1>7, <2>2, CrashNet DEF UnderWayIn
    <3> QED
      BY <1>2, <2>1, <2>2, <3>1, <3>2 DEF UnderWayIn
  <2> QED
    BY <1>1, <2>1, <2>2
<1>8. ASSUME NEW n \in Nodes, NEW p \in Nodes \ {n}, StartGet(n, p)
      PROVE  SettledInv'
  <2> DEFINE call == Message("find", Client(n), n, p, Nothing)
             task == Task("get", Nothing, p)
  <2>1. /\ settled' = settled /\ known' = known /\ storage' = storage
        /\ net' \subseteq net \cup {call} /\ tasks' = Put(Client(n), task)
    BY <1>8 DEF StartGet, Disturb, Send
  <2>2. call.value = Nothing /\ task.value = Nothing
    BY DEF Message, Task
  <2> HIDE DEF call, task
  <2> QED
    BY <1>1, <1>2, <2>1, <2>2 DEF UnderWayIn, Put, StoredIs
<1>9. ASSUME NEW n \in Nodes, NEW p \in Nodes \ {n}, Replicate(n, p)
      PROVE  SettledInv'
  <2>1. /\ settled' = settled /\ known' = known /\ storage' = storage
        /\ \/ UNCHANGED <<tasks, net>>
           \/ Call(Replicator(n, p), Task("replicate", get(n), p), {p}, net)
    BY <1>9 DEF Replicate, ghosts
  <2>2. PICK W : W = V
    OBVIOUS
  <2>3. ASSUME settled # Nothing
        PROVE  UnderWayIn(W)'
    <3>1. CASE UNCHANGED <<tasks, net>>
      BY <1>2, <2>2, <2>3, <3>1 DEF UnderWayIn
    <3>2. CASE Call(Replicator(n, p), Task("replicate", get(n), p), {p}, net)
      <4>1. PICK t, value, queue : t = Replicator(n, p) /\ value = get(n) /\ queue = {p}
        OBVIOUS
      <4>2. Call(t, Task("replicate", value, p), queue, net) /\ value \in W
        BY <1>3, <2>2, <2>3, <3>2, <4>1
      <4>3. UnderWayIn(W)
        BY <1>2, <2>2, <2>3
      <4> QED
        BY <4>2, <4>3, CallValues
    <3> QED
      BY <2>1, <3>1, <3>2
  <2> QED
    BY <1>1, <1>2, <2>1, <2>2, <2>3 DEF StoredIs
<1>10. ASSUME NEW m \in net, HandleStore(m)
       PROVE  SettledInv'
  <2>1. /\ m.kind = "store" /\ store(m.to, m.value[1]) /\ m.to \in Nodes /\ m.value \in Vals
        /\ \A n \in Nodes : known[n] \subseteq known'[n]
    BY <1>10, WelcomeGrows DEF HandleStore, BaseInv, NetOK, MessageOK, Grows
  <2>2. ASSUME settled # Nothing
        PROVE  StoredIs(settled)' \/ settled' # settled
    <3>1. m.value = settled
      BY <1>2, <2>1, <2>2, GetResult DEF UnderWayIn
    <3>2. PICK v : v = settled
      OBVIOUS
    <3>3. StoredIs(v)'
      BY <1>2, <2>1, <2>2, <3>1, <3>2, StoreKeepsValue
    <3> QED
      BY <3>2, <3>3
  <2>3. CASE m.awaited
    <3>1. Proceed(m.task, net \ {m}) /\ Settle(m.task) /\ m.task \in DOMAIN tasks
      BY <1>10, <2>3, RestAnswered DEF HandleStore, StoreAnswered
    <3>2. CASE /\ tasks[m.task].op = "store" /\ Ends(tasks[m.task]) /\ clean /\ Full
      BY <1>10, <2>3, <3>1, <3>2, Settles
    <3>3. CASE settled' = settled
      <4>1. ASSUME settled # Nothing
            PROVE  UnderWayIn(V)'
        <5>1. PICK W : W = V
          OBVIOUS
        <5>2. Advances(m.task, net \ {m}) /\ FromNet(net \ {m}) /\ UnderWayIn(W)
          BY <1>2, <3>1, <4>1, <5>1, ProceedAdvances DEF FromNet
        <5>3. UnderWayIn(W)'
          BY <3>1, <5>2, AdvancesValues
        <5> QED
          BY <3>3, <5>1, <5>3
      <4> QED
        BY <1>1, <2>1, <2>2, <3>3, <4>1
    <3> QED
      BY <3>1, <3>2, <3>3 DEF Settle
  <2>4. CASE ~m.awaited
    <3>1. net' = net \ {m} /\ tasks' = tasks /\ settled' = settled
      BY <1>10, <2>4 DEF HandleStore, StoreAnswered, ghosts
    <3> QED
      BY <1>1, <1>2, <2>1, <2>2, <3>1 DEF UnderWayIn
  <2> QED
    BY <2>3, <2>4
<1>11. ASSUME NEW m \in net, HandleFindValue(m)
       PROVE  SettledInv'
  <2>1. PICK x : x = Answer("found", m, get(m.to))
    OBVIOUS
  <2>2. /\ settled' = settled /\ storage' = storage /\ tasks' = tasks
        /\ net' \subseteq net \cup {x} /\ \A n \in Nodes : known[n] \subseteq known'[n]
    BY <1>11, <2>1, WelcomeGrows DEF HandleFindValue, Send, ghosts, Grows
  <2>3. x.value = get(m.to) /\ m.to \in Nodes
    BY <2>1 DEF Answer, BaseInv, NetOK, MessageOK
  <2> QED
    BY <1>1, <1>2, <1>3, <2>2, <2>3 DEF UnderWayIn, StoredIs
<1>12. ASSUME NEW m \in net, Found(m)
       PROVE  SettledInv'
  <2>1. /\ settled' = settled /\ tasks' = Without(m.task) /\ net' = net \ {m}
        /\ known' = [known EXCEPT ![m.to] = @ \cup {m.from}]
        /\ storage' = storage \/ (m.value # Nothing /\ store(m.to, m.value[1]))
    BY <1>12 DEF Found, ghosts
  <2>2. m.to \in Nodes /\ m.value \in Vals \cup {Nothing}
    BY DEF BaseInv, NetOK, MessageOK
  <2>3. ASSUME settled # Nothing
        PROVE  StoredIs(settled)'
    <3>1. CASE storage' = storage
      BY <1>2, <2>1, <2>3, <3>1 DEF StoredIs
    <3>2. CASE m.value # Nothing /\ store(m.to, m.value[1])
      <4>1. m.value = settled
        BY <1>2, <2>3, <3>2 DEF UnderWayIn
      <4>2. PICK v : v = settled
        OBVIOUS
      <4>3. StoredIs(v)'
        BY <1>2, <2>2, <2>3, <3>2, <4>1, <4>2, StoreKeepsValue
      <4> QED
        BY <2>1, <4>2, <4>3
    <3> QED
      BY <2>1, <3>1, <3>2
  <2>4. \A n \in Nodes : known[n] \subseteq known'[n]
    BY <2>1, <2>2 DEF BaseInv, TypeInv
  <2>5. settled # Nothing => UnderWayIn(V)'
    BY <1>2, <2>1 DEF UnderWayIn, Without
  <2> QED
    BY <1>1, <2>1, <2>3, <2>4, <2>5
<1>13. ASSUME NEW m \in net, Dropped(m) \/ Lose(m)
       PROVE  SettledInv'
  BY <1>1, <1>2, <1>13 DEF Dropped, Lose, Disturb, ghosts, UnderWayIn, StoredIs
<1>14. ASSUME NEW t \in DOMAIN tasks, NEW rest, Advances(t, rest), FromNet(rest),
              storage' = storage, known' = known, settled' = settled
       PROVE  SettledInv'
  <2>1. PICK W : W = V
    OBVIOUS
  <2>2. settled # Nothing => UnderWayIn(W)'
    BY <1>2, <1>14, <2>1, AdvancesValues
  <2> QED
    BY <1>1, <1>2, <1>14, <2>1, <2>2 DEF StoredIs
<1>15. ASSUME NEW t \in DOMAIN tasks, CallFails(t)
       PROVE  SettledInv'
  <2>1. /\ Advances(t, net) /\ FromNet(net) /\ storage' = storage /\ known' = known
        /\ Settle(t)
    BY <1>15, ProceedAdvances DEF CallFails, FromNet
  <2>2. CASE /\ tasks[t].op = "store" /\ Ends(tasks[t]) /\ clean /\ Full
    BY <1>15, <2>1, <2>2, Settles
  <2>3. CASE settled' = settled
    BY <1>14, <2>1, <2>3
  <2> QED
    BY <2>1, <2>2, <2>3 DEF Settle
<1>16. ASSUME NEW t \in DOMAIN tasks, CallTooLate(t) \/ StoreValueTooLate(t)
       PROVE  SettledInv'
  <2>1. /\ Advances(t, Unawaited(t)) /\ FromNet(Unawaited(t))
    BY <1>16, ProceedAdvances, AllAreCalled, RestUnawaited
       DEF CallTooLate, StoreValueTooLate, FromNet
  <2>2. storage' = storage /\ known' = known /\ settled' = settled
    BY <1>16 DEF CallTooLate, StoreValueTooLate, Disturb, ghosts
  <2> QED
    BY <1>14, <2>1, <2>2
<1>17. CASE Tick
  <2>1. /\ settled' = settled /\ known' = known /\ tasks' = tasks /\ net' = net
    BY <1>17 DEF Tick, ghosts
  <2>2. settled # Nothing => StoredIs(settled)'
    BY <1>2, <1>17, <2>1, TickEffect DEF StoredIs
  <2> QED
    BY <1>1, <1>2, <2>1, <2>2 DEF UnderWayIn
<1>18. CASE UNCHANGED vars
  BY <1>1, <1>2, <1>18 DEF vars, UnderWayIn, StoredIs
<1>19. ASSUME NEW t \in DOMAIN tasks, CallLost(t)
       PROVE  SettledInv'
  <2>1. /\ Advances(t, net) /\ FromNet(net) /\ storage' = storage /\ known' = known
        /\ settled' = settled
    BY <1>19, ProceedAdvances DEF CallLost, Disturb, FromNet
  <2> QED
    BY <1>14, <2>1
<1> HIDE DEF V
<1> QED
  BY <1>4, <1>5, <1>6, <1>7, <1>8, <1>9, <1>10, <1>11, <1>12, <1>13, <1>15, <1>16, <1>17,
     <1>18, <1>19 DEF Next

(***************************************************************************)
(* Once a store has run alone and to its end in a network of which every   *)
(* node knows every other, what was stored before it does not come back.   *)
(***************************************************************************)
THEOREM OldValuesStayAway == Spec => []OldStaysAway
<1> DEFINE Inv == BaseInv /\ CleanInv /\ SettledInv
<1>1. Init => Inv
  BY InitBase DEF Init, CleanInv, SettledInv
<1>2. Inv /\ [Next]_vars => Inv'
  BY StepBase, StepClean, StepSettled
<1>3. Inv => OldStaysAway
  BY GetResult DEF SettledInv, OldStaysAway
<1> QED
  BY <1>1, <1>2, <1>3, PTL DEF Spec

(***************************************************************************)
(* A store that has been alone has stored its value at its node and at     *)
(* every running contact by the time it ends, whatever crashes on the way  *)
(* and whoever replicates to whom meanwhile.                               *)
(***************************************************************************)
THEOREM StoresTakeEffect == Spec => StoreTakesEffect
<1> DEFINE Inv == BaseInv /\ CleanInv
           Effect == \A n \in Nodes :
             LET t == Client(n)
             IN (/\ t \in DOMAIN tasks /\ tasks[t].op = "store" /\ clean'
                 /\ t \notin DOMAIN tasks' /\ n \notin down')
                => \A p \in (known[n] \cup {n}) \ down' : get(p)' = tasks[t].value
<1>1. Init => Inv
  BY InitBase DEF Init, CleanInv
<1>2. Inv /\ [Next]_vars => Inv'
  BY StepBase, StepClean
<1>3. Inv /\ Inv' /\ [Next]_vars => [Effect]_vars
  BY StepTakesEffect
<1> QED
  BY <1>1, <1>2, <1>3, PTL DEF Spec, StoreTakesEffect

-----------------------------------------------------------------------------
(* Republishing.                                                           *)

(***************************************************************************)
(* A number below the interval, but for the remainder of s, is a remainder *)
(* again before an interval has passed since s.                            *)
(***************************************************************************)
LEMMA ComesBack ==
  ASSUME NEW I \in Nat \ {0}, NEW s \in Nat, NEW r \in 0 .. (I - 1), r # s % I
  PROVE  \E time \in (s + 1) .. (s + I - 1) : time % I = r
<1>1. s % I = s - I * (s \div I)
  BY SMTT(30)
<1>2. s \div I \in Nat /\ s % I \in 0 .. (I - 1)
  OBVIOUS
<1>3. PICK q \in Nat, a \in 0 .. (I - 1) : s = I * q + a /\ a # r
  <2> DEFINE quotient == s \div I
             remainder == s % I
  <2>1. quotient \in Nat /\ remainder \in 0 .. (I - 1) /\ remainder # r
    BY <1>2
  <2>2. remainder = s - I * quotient
    BY <1>1
  <2> HIDE DEF quotient, remainder
  <2>3. I * quotient \in Nat
    BY <2>1
  <2>4. s = I * quotient + remainder
    BY <2>1, <2>2, <2>3
  <2> QED
    BY <2>1, <2>4
<1>4. \A n \in Nat : (I * n + r) % I = r
  OBVIOUS
<1>5. CASE r > a
  <2> DEFINE time == s + (r - a)
  <2>1. time = I * q + r
    BY <1>3
  <2>2. time \in (s + 1) .. (s + I - 1)
    BY <1>3, <1>5
  <2> HIDE DEF time
  <2>3. (I * q + r) % I = r
    BY <1>3, <1>4, Zenon
  <2> QED
    BY <2>1, <2>2, <2>3, Zenon
<1>6. CASE r < a
  <2> DEFINE time == s + (I + r - a)
             next == q + 1
  <2>1. I * next = I * q + I /\ I * q \in Nat /\ next \in Nat
    OBVIOUS
  <2>2. time = I * next + r
    BY <1>3, <2>1
  <2>3. time \in (s + 1) .. (s + I - 1)
    BY <1>3, <1>6
  <2> HIDE DEF time, next
  <2>4. (I * next + r) % I = r
    BY <1>4, <2>1, Zenon
  <2> QED
    BY <2>2, <2>3, <2>4, Zenon
<1> QED
  BY <1>3, <1>5, <1>6

(***************************************************************************)
(* The K + 1 nodes closest to the key, when they know everybody, have each *)
(* other among the K contacts that they send to.                           *)
(***************************************************************************)
LEMMA CoreIsCalled ==
  ASSUME NEW c \in Core, NEW p \in Core, p # c
  PROVE  p \in Closest(Nodes \ {c}, K)
<1> DEFINE Before(n) == {q \in Nodes : Distance[q] < Distance[n]}
           Others == {q \in Nodes \ {c} : Distance[q] < Distance[p]}
<1>1. /\ c \in Nodes /\ p \in Nodes /\ Cardinality(Before(c)) < K + 1
      /\ Cardinality(Before(p)) < K + 1
  BY DEF Core, Closest
<1>2. IsFiniteSet(Before(c)) /\ IsFiniteSet(Before(p)) /\ IsFiniteSet(Others)
  BY FS_Subset, NodesAssumption
<1>3. /\ Cardinality(Before(c)) \in Nat /\ Cardinality(Before(p)) \in Nat
      /\ Cardinality(Others) \in Nat
  BY <1>2, FS_CardinalityType
<1>4. Distance[c] \in Nat /\ Distance[p] \in Nat /\ Distance[c] # Distance[p]
  BY <1>1, DistanceAssumption
<1>5. CASE Distance[c] < Distance[p]
  <2>1. Others = Before(p) \ {c} /\ c \in Before(p)
    BY <1>1, <1>5
  <2> HIDE DEF Before, Others
  <2>2. Cardinality(Others) = Cardinality(Before(p)) - 1
    BY <1>2, <2>1, FS_RemoveElement
  <2> QED
    BY <1>1, <1>3, <2>2, KAssumption DEF Closest, Others
<1>6. CASE Distance[p] < Distance[c]
  <2>1. Others \subseteq Before(c) \ {p} /\ p \in Before(c)
    BY <1>1, <1>4, <1>6, DistanceAssumption
  <2> HIDE DEF Before, Others
  <2>2. /\ Cardinality(Before(c) \ {p}) = Cardinality(Before(c)) - 1
        /\ IsFiniteSet(Before(c) \ {p})
    BY <1>2, <2>1, FS_RemoveElement
  <2>3. Cardinality(Others) <= Cardinality(Before(c) \ {p})
    BY <2>1, <2>2, FS_Subset
  <2> QED
    BY <1>1, <1>3, <2>2, <2>3, KAssumption DEF Closest, Others
<1> QED
  BY <1>4, <1>5, <1>6

\* A step in which the clock stands still and no message is lost: for nodes that do
\* not crash, storages keep their entries or store one, STOREs stay under way or are
\* received, and queues are worked off.
Stands ==
  /\ now' = now
  /\ \A p \in Nodes \ down' : storage'[p] = storage[p] \/ Stamped(p)'
  /\ \A m \in net : m.kind = "store" /\ m.to \notin down' =>
       Stamped(m.to)' \/ \E x \in net' : x.kind = "store" /\ x.to = m.to
  /\ \A n \in Nodes \ down' : Republisher(n) \in DOMAIN tasks =>
       \A p \in tasks[Republisher(n)].queue \ down' :
         \/ Republisher(n) \in DOMAIN tasks' /\ p \in tasks'[Republisher(n)].queue
         \/ \E x \in net' : x.kind = "store" /\ x.to = p

(***************************************************************************)
(* Who is covered stays covered.                                           *)
(***************************************************************************)
LEMMA CoveredStays ==
  ASSUME Stands, NEW c \in Nodes \ down', NEW p \in Nodes \ down', Covered(c, p)
  PROVE  Covered(c, p)'
<1>1. CASE Stamped(p)
  BY <1>1 DEF Stands, Covered, Stamped
<1>2. ASSUME NEW m \in net, m.kind = "store", m.to = p
      PROVE  Covered(c, p)'
  BY <1>2 DEF Stands, Covered
<1>3. CASE Republisher(c) \in DOMAIN tasks /\ p \in tasks[Republisher(c)].queue
  BY <1>3 DEF Stands, Covered
<1> QED
  BY <1>1, <1>2, <1>3 DEF Covered

(***************************************************************************)
(* A task works off its queue.                                             *)
(***************************************************************************)
LEMMA AdvancesQueue ==
  ASSUME NEW t \in DOMAIN tasks, NEW rest, Advances(t, rest)
  PROVE  /\ rest \subseteq net'
         /\ \A s \in DOMAIN tasks : \A p \in tasks[s].queue \ down :
              \/ s \in DOMAIN tasks' /\ p \in tasks'[s].queue
              \/ \E x \in net' : x.kind = "store" /\ x.to = p
         /\ \A s \in DOMAIN tasks : s # t => s \in DOMAIN tasks' /\ tasks'[s] = tasks[s]
<1>1. CASE Ended(t, rest)
  BY <1>1 DEF Ended, Ends, Without
<1>2. ASSUME NEW p \in known[t[1]], NEW new, Continued(t, p, new, rest)
      PROVE  /\ rest \subseteq net'
             /\ \A s \in DOMAIN tasks : \A q \in tasks[s].queue \ down :
                  \/ s \in DOMAIN tasks' /\ q \in tasks'[s].queue
                  \/ \E x \in net' : x.kind = "store" /\ x.to = q
             /\ \A s \in DOMAIN tasks : s # t => s \in DOMAIN tasks' /\ tasks'[s] = tasks[s]
  <2> DEFINE call == Message("store", t, t[1], p, new.value)
  <2>1. /\ net' = (IF p \in down THEN rest ELSE rest \cup {call}) /\ tasks' = Put(t, new)
        /\ tasks[t].queue \subseteq {p} \cup new.queue
    BY <1>2 DEF Continued, Goes
  <2>2. call.kind = "store" /\ call.to = p
    BY DEF Message
  <2> HIDE DEF call
  <2>3. /\ DOMAIN tasks' = DOMAIN tasks \cup {t} /\ tasks'[t] = new
        /\ \A s \in DOMAIN tasks : s # t => tasks'[s] = tasks[s]
    BY <2>1 DEF Put
  <2> QED
    BY <2>1, <2>2, <2>3
<1> QED
  BY <1>1, <1>2 DEF Advances

\* What is due of the republishing of c stays due until it is done.
Persists(c) ==
  /\ c \in due => c \in due' \/ RepublishRead(c)
  /\ HasRead(c) => HasRead(c)' \/ RepublishStore(c)

(***************************************************************************)
(* A store stamps its node.                                                *)
(***************************************************************************)
LEMMA StoreStamps ==
  ASSUME BaseInv, NEW n \in Nodes, NEW v \in Nat, store(n, v), now' = now
  PROVE  Stamped(n)' /\ \A p \in Nodes : storage'[p] = storage[p] \/ Stamped(p)'
<1>1. TypeInv
  BY DEF BaseInv
<1>2. /\ "key" \in DOMAIN storage'[n]
      /\ storage'[n]["key"] = [value |-> v, timestamp |-> now, ttl |-> DEFAULT_TTL]
      /\ \A p \in Nodes : p # n => storage'[p] = storage[p]
  BY <1>1, StoreEffect
<1>3. storage'[n]["key"].timestamp = now'
  BY <1>2
<1> QED
  BY <1>2, <1>3 DEF Stamped

(***************************************************************************)
(* The tasks of other nodes go on as before.                               *)
(***************************************************************************)
LEMMA AdvancesStands ==
  ASSUME BaseInv, down' = down, NEW t \in DOMAIN tasks, tasks[t].op # "read",
         NEW rest, Advances(t, rest), now' = now, due' = due,
         \A p \in Nodes : storage'[p] = storage[p] \/ Stamped(p)',
         \A m \in net : m.kind = "store" =>
           Stamped(m.to)' \/ \E x \in rest : x.kind = "store" /\ x.to = m.to
  PROVE  Stands /\ \A c \in Nodes : Persists(c)
<1>1. /\ rest \subseteq net'
      /\ \A s \in DOMAIN tasks : \A p \in tasks[s].queue \ down :
           \/ s \in DOMAIN tasks' /\ p \in tasks'[s].queue
           \/ \E x \in net' : x.kind = "store" /\ x.to = p
      /\ \A s \in DOMAIN tasks : s # t => s \in DOMAIN tasks' /\ tasks'[s] = tasks[s]
  BY AdvancesQueue
<1>2. Stands
  BY <1>1 DEF Stands
<1>3. ASSUME NEW c \in Nodes
      PROVE  Persists(c)
  BY <1>1 DEF Persists, HasRead
<1> QED
  BY <1>2, <1>3

(***************************************************************************)
(* A task that begins leaves the others and the messages alone.            *)
(***************************************************************************)
LEMMA BeginStands ==
  ASSUME NEW t, t \notin DOMAIN tasks \/ tasks[t].queue = {},
         \A s \in DOMAIN tasks : s # t => s \in DOMAIN tasks' /\ tasks'[s] = tasks[s],
         net \subseteq net', now' = now,
         \A p \in Nodes : storage'[p] = storage[p] \/ Stamped(p)'
  PROVE  Stands
BY DEF Stands

(***************************************************************************)
(* In every step but a tick of the clock and the loss of a message.        *)
(***************************************************************************)
LEMMA StepStands ==
  ASSUME BaseInv, [Next]_vars, ~Tick, \A m \in net : ~Lose(m)
  PROVE  Stands /\ \A c \in Nodes \ down' : Persists(c)
<1>1. ASSUME NEW n \in Nodes, StartStore(n)
      PROVE  Stands /\ \A c \in Nodes \ down' : Persists(c)
  <2> DEFINE t == Client(n)
  <2>1. /\ t \notin DOMAIN tasks /\ store(n, stores + 1) /\ now' = now /\ due' = due
        /\ net \subseteq net'
        /\ \A s \in DOMAIN tasks : s # t => s \in DOMAIN tasks' /\ tasks'[s] = tasks[s]
    BY <1>1 DEF StartStore, clockVars, pending, Call, Send, Put
  <2>2. stores + 1 \in Nat /\ \A c \in Nodes : Republisher(c) # t
    BY DEF BaseInv, TypeInv, Republisher, Client
  <2> HIDE DEF t
  <2>3. Stands
    BY <2>1, <2>2, StoreStamps, BeginStands
  <2> QED
    BY <2>1, <2>2, <2>3 DEF Persists, HasRead
<1>2. ASSUME NEW n \in Nodes, RepublishRead(n)
      PROVE  Stands /\ \A c \in Nodes \ down' : Persists(c)
  <2> DEFINE t == Republisher(n)
  <2>1. /\ t \notin DOMAIN tasks /\ storage' = storage /\ now' = now /\ due' = due \ {n}
        /\ net' = net
        /\ \A s \in DOMAIN tasks : s # t => s \in DOMAIN tasks' /\ tasks'[s] = tasks[s]
    BY <1>2 DEF RepublishRead, clockVars, Put
  <2>2. Stands
    BY <2>1, BeginStands
  <2> QED
    BY <1>2, <2>1, <2>2 DEF Persists, HasRead
<1>3. ASSUME NEW n \in Nodes, RepublishStore(n)
      PROVE  Stands /\ \A c \in Nodes \ down' : Persists(c)
  <2> DEFINE t == Republisher(n)
  <2>1. /\ t \in DOMAIN tasks /\ tasks[t].op = "read" /\ store(n, tasks[t].value[1])
        /\ now' = now /\ due' = due /\ net \subseteq net'
        /\ \A s \in DOMAIN tasks : s # t => s \in DOMAIN tasks' /\ tasks'[s] = tasks[s]
    BY <1>3 DEF RepublishStore, clockVars, pending, Call, Send, Put, Without
  <2>2. TaskOK(t, tasks[t])
    BY <2>1 DEF BaseInv, TasksOK
  <2>3. tasks[t].queue = {} /\ tasks[t].value[1] \in Nat
    BY <2>1, <2>2 DEF TaskOK, TaskRecords, Vals
  <2>4. \A c \in Nodes : Republisher(c) = t => c = n
    BY DEF Republisher
  <2> HIDE DEF t
  <2>5. Stands
    BY <2>1, <2>3, StoreStamps, BeginStands
  <2> QED
    BY <1>3, <2>1, <2>4, <2>5 DEF Persists, HasRead
<1>4. ASSUME NEW n \in Nodes, Crash(n)
      PROVE  Stands /\ \A c \in Nodes \ down' : Persists(c)
  <2>1. /\ n \in down' /\ now' = now /\ due' = due \ {n}
        /\ \A p \in Nodes : p # n => storage'[p] = storage[p]
        /\ \A s \in DOMAIN tasks : s[1] # n => s \in DOMAIN tasks' /\ tasks'[s] = tasks[s]
    BY <1>4 DEF Crash, clockVars, BaseInv, TypeInv
  <2>2. ASSUME NEW m \in net, m.to # n
        PROVE  \E x \in net' : x.kind = m.kind /\ x.to = m.to
    <3> DEFINE x == IF m.task[1] = n THEN [m EXCEPT !.awaited = FALSE] ELSE m
    <3>1. x \in net'
      BY <1>4, <2>2 DEF Crash
    <3>2. x.kind = m.kind /\ x.to = m.to
      BY DEF BaseInv, NetOK, MessageOK
    <3> HIDE DEF x
    <3> QED
      BY <3>1, <3>2
  <2>3. \A c \in Nodes : Republisher(c)[1] = c
    BY DEF Republisher
  <2>4. \A c \in Nodes \ down' : Republisher(c) \in DOMAIN tasks =>
          Republisher(c) \in DOMAIN tasks' /\ tasks'[Republisher(c)] = tasks[Republisher(c)]
    BY <2>1, <2>3
  <2> QED
    BY <2>1, <2>2, <2>4 DEF Stands, Persists, HasRead
<1>5. ASSUME NEW n \in Nodes, NEW p \in Nodes \ {n}, StartGet(n, p)
      PROVE  Stands /\ \A c \in Nodes \ down' : Persists(c)
  <2> DEFINE t == Client(n)
  <2>1. /\ t \notin DOMAIN tasks /\ storage' = storage /\ now' = now /\ due' = due
        /\ net \subseteq net'
        /\ \A s \in DOMAIN tasks : s # t => s \in DOMAIN tasks' /\ tasks'[s] = tasks[s]
    BY <1>5 DEF StartGet, clockVars, pending, Send, Put
  <2>2. Stands
    BY <2>1, BeginStands
  <2> QED
    BY <2>1, <2>2 DEF Persists, HasRead
<1>6. ASSUME NEW n \in Nodes, NEW p \in Nodes \ {n}, Replicate(n, p)
      PROVE  Stands /\ \A c \in Nodes \ down' : Persists(c)
  <2> DEFINE t == Replicator(n, p)
  <2>1. t[1] = n /\ t[2] = "replicate" /\ t[3] = p
    BY DEF Replicator
  <2>2. /\ <<n, p>> \in fresh /\ storage' = storage /\ now' = now /\ due' = due
        /\ net \subseteq net'
        /\ \A s \in DOMAIN tasks : s # t => s \in DOMAIN tasks' /\ tasks'[s] = tasks[s]
    BY <1>6 DEF Replicate, clockVars, Call, Send, Put
  <2> HIDE DEF t
  <2>3. t \notin DOMAIN tasks
    BY <2>1, <2>2 DEF BaseInv, TasksOK, TaskOK
  <2>4. Stands
    BY <2>2, <2>3, BeginStands
  <2> QED
    BY <2>2, <2>3, <2>4 DEF Persists, HasRead
<1>7. ASSUME NEW m \in net, HandleStore(m)
      PROVE  Stands /\ \A c \in Nodes \ down' : Persists(c)
  <2>1. /\ m.kind = "store" /\ store(m.to, m.value[1]) /\ now' = now /\ due' = due
        /\ down' = down
    BY <1>7 DEF HandleStore, clockVars
  <2>2. m.to \in Nodes /\ m.value[1] \in Nat
    BY <2>1 DEF BaseInv, NetOK, MessageOK, Vals
  <2>3. Stamped(m.to)' /\ \A p \in Nodes : storage'[p] = storage[p] \/ Stamped(p)'
    BY <2>1, <2>2, StoreStamps
  <2>4. \A x \in net : x.kind = "store" =>
          Stamped(x.to)' \/ \E y \in net \ {m} : y.kind = "store" /\ y.to = x.to
    BY <2>3
  <2>5. CASE m.awaited
    <3>1. /\ m.task \in DOMAIN tasks /\ tasks[m.task].op # "read"
          /\ Advances(m.task, net \ {m})
      BY <1>7, <2>5, RestAnswered, ProceedAdvances DEF HandleStore, StoreAnswered
    <3> QED
      BY <2>1, <2>3, <2>4, <3>1, AdvancesStands
  <2>6. CASE ~m.awaited
    <3>1. tasks' = tasks /\ net' = net \ {m}
      BY <1>7, <2>6 DEF HandleStore, StoreAnswered
    <3> QED
      BY <2>1, <2>3, <2>4, <3>1 DEF Stands, Persists, HasRead
  <2> QED
    BY <2>5, <2>6
<1>8. ASSUME NEW m \in net, HandleFindValue(m)
      PROVE  Stands /\ \A c \in Nodes \ down' : Persists(c)
  BY <1>8 DEF HandleFindValue, Send, clockVars, Stands, Persists, HasRead
<1>9. ASSUME NEW m \in net, Found(m)
      PROVE  Stands /\ \A c \in Nodes \ down' : Persists(c)
  <2>1. /\ m.kind = "found" /\ tasks' = Without(m.task) /\ net' = net \ {m} /\ now' = now
        /\ due' = due
        /\ storage' = storage \/ (m.value # Nothing /\ store(m.to, m.value[1]))
    BY <1>9 DEF Found, clockVars, pending
  <2>2. /\ m.to \in Nodes /\ (m.value # Nothing => m.value[1] \in Nat)
        /\ m.task[2] = "client"
    BY <2>1 DEF BaseInv, NetOK, MessageOK, Vals
  <2>3. \A p \in Nodes : storage'[p] = storage[p] \/ Stamped(p)'
    BY <2>1, <2>2, StoreStamps
  <2>4. \A c \in Nodes : Republisher(c) # m.task
    BY <2>2 DEF Republisher
  <2> QED
    BY <2>1, <2>3, <2>4 DEF Stands, Persists, HasRead, Without
<1>10. ASSUME NEW m \in net, Dropped(m)
       PROVE  Stands /\ \A c \in Nodes \ down' : Persists(c)
  BY <1>10 DEF Dropped, clockVars, pending, Stands, Persists, HasRead
<1>11. ASSUME NEW t \in DOMAIN tasks, CallFails(t) \/ CallLost(t)
       PROVE  Stands /\ \A c \in Nodes \ down' : Persists(c)
  <2>1. /\ tasks[t].op # "read" /\ Advances(t, net) /\ storage' = storage /\ now' = now
        /\ due' = due /\ down' = down
    BY <1>11, ProceedAdvances DEF CallFails, CallLost, Calls, clockVars, pending
  <2> QED
    BY <2>1, AdvancesStands
<1>12. ASSUME NEW t \in DOMAIN tasks, CallTooLate(t) \/ StoreValueTooLate(t)
       PROVE  Stands /\ \A c \in Nodes \ down' : Persists(c)
  <2>1. /\ tasks[t].op # "read" /\ Advances(t, Unawaited(t))
    BY <1>12, ProceedAdvances, AllAreCalled
       DEF CallTooLate, StoreValueTooLate, Calls, InStoreValue
  <2>2. storage' = storage /\ now' = now /\ due' = due /\ down' = down
    BY <1>12 DEF CallTooLate, StoreValueTooLate, clockVars, pending
  <2>3. ASSUME NEW m \in net
        PROVE  \E x \in Unawaited(t) : x.kind = m.kind /\ x.to = m.to
    <3> DEFINE x == IF m.task = t THEN [m EXCEPT !.awaited = FALSE] ELSE m
    <3>1. x \in Unawaited(t)
      BY DEF Unawaited
    <3>2. x.kind = m.kind /\ x.to = m.to
      BY DEF BaseInv, NetOK, MessageOK
    <3> HIDE DEF x
    <3> QED
      BY <3>1, <3>2
  <2> QED
    BY <2>1, <2>2, <2>3, AdvancesStands
<1>13. CASE UNCHANGED vars
  BY <1>13 DEF vars, Stands, Persists, HasRead
<1> QED
  BY <1>1, <1>2, <1>3, <1>4, <1>5, <1>6, <1>7, <1>8, <1>9, <1>10, <1>11, <1>12, <1>13 DEF Next

(***************************************************************************)
(* What is to be renewed at this time will be, until time goes on or a     *)
(* message to it is lost.                                                  *)
(***************************************************************************)
LEMMA RenewsStays ==
  ASSUME BaseInv, [Next]_vars, ~Tick, Full, NEW c \in Core, c \notin down', NEW p \in Core,
         p \notin down', \A m \in net : ~Lose(m), get(c) # Nothing, Renews(c, p)
  PROVE  Renews(c, p)'
<1> DEFINE t == Republisher(c)
<1>1. Stands /\ Persists(c) /\ c \in Nodes /\ p \in Nodes
  BY StepStands DEF Core, Closest
<1>2. CASE c \in due
  <2>1. CASE RepublishRead(c)
    <3>1. tasks' = Put(t, Task("read", get(c), c))
      BY <2>1 DEF RepublishRead
    <3> QED
      BY <3>1 DEF Renews, HasRead, Put, Task
  <2> QED
    BY <1>1, <1>2, <2>1 DEF Persists, Renews
<1>3. CASE HasRead(c)
  <2>1. CASE RepublishStore(c)
    <3>1. /\ tasks[t].op = "read" /\ t \in DOMAIN tasks /\ store(c, tasks[t].value[1])
          /\ \/ Call(t, Task("republish", tasks[t].value, c), get_closest(c, K), net)
             \/ known[c] = {}
          /\ now' = now /\ down' = down
      BY <2>1 DEF RepublishStore, clockVars
    <3>2. TaskOK(t, tasks[t])
      BY <3>1 DEF BaseInv, TasksOK
    <3>3. tasks[t].value[1] \in Nat /\ tasks[t].value \in Vals
      BY <3>1, <3>2 DEF TaskOK, TaskRecords, Vals
    <3>4. CASE p = c
      BY <1>1, <3>1, <3>3, <3>4, StoreStamps DEF Renews, Covered
    <3>5. CASE p # c
      <4>1. known[c] = Nodes \ {c} /\ known[c] # {}
        BY <1>1, <3>5 DEF Full
      <4>2. p \in get_closest(c, K)
        BY <3>5, <4>1, CoreIsCalled DEF get_closest
      <4>3. PICK q \in get_closest(c, K), new \in TaskRecords :
              Goes(t, q, new, net) /\ new.queue = get_closest(c, K) \ {q}
        <5> DEFINE task == Task("republish", tasks[t].value, c)
        <5>1. get_closest(c, K) \in SUBSET Nodes
          BY <1>1, ClosestKnown DEF BaseInv, TypeInv
        <5>2. task \in TaskRecords
          BY <1>1, <3>3 DEF Task, TaskRecords
        <5> HIDE DEF t, task
        <5>3. Call(t, task, get_closest(c, K), net)
          BY <3>1, <4>1 DEF task
        <5> QED
          BY <5>1, <5>2, <5>3, CallGoes
      <4> DEFINE call == Message("store", t, t[1], q, new.value)
      <4>4. call.kind = "store" /\ call.to = q
        BY DEF Message
      <4> HIDE DEF call
      <4>5. /\ q \notin down => call \in net'
            /\ t \in DOMAIN tasks' /\ tasks'[t].queue = get_closest(c, K) \ {q}
        BY <4>3 DEF Goes, Put, call
      <4> QED
        BY <3>1, <4>2, <4>4, <4>5 DEF Renews, Covered
    <3> QED
      BY <3>4, <3>5
  <2> QED
    BY <1>1, <1>3, <2>1 DEF Persists, Renews
<1>4. CASE Covered(c, p)
  BY <1>1, <1>4, CoveredStays DEF Renews
<1> QED
  BY <1>2, <1>3, <1>4 DEF Renews

(***************************************************************************)
(* What get finds of the settled value.                                    *)
(***************************************************************************)
LEMMA SettledIsFound ==
  ASSUME BaseInv, SettledInv, settled # Nothing, NEW p \in Nodes, get(p) = settled
  PROVE  /\ "key" \in DOMAIN storage[p] /\ storage[p]["key"].timestamp \in Nat
         /\ storage[p]["key"].timestamp + DEFAULT_TTL > now
BY GetResult DEF Entries

(***************************************************************************)
(* And, after a step, that it finds it.                                    *)
(***************************************************************************)
LEMMA SettledWillBeFound ==
  ASSUME BaseInv', SettledInv', settled' # Nothing, NEW p \in Nodes,
         "key" \in DOMAIN storage'[p], storage'[p]["key"].timestamp + DEFAULT_TTL > now'
  PROVE  get(p)' = settled'
<1>1. storage'[p]["key"].ttl = DEFAULT_TTL
  BY DEF BaseInv, TypeInv, IsMap, Entries
<1>2. <<storage'[p]["key"].value>> = settled'
  BY DEF SettledInv, Nothing, MS!Nothing
<1> QED
  BY <1>1, <1>2 DEF get, MS!lookup, MS!live

(***************************************************************************)
(* There are no more times than nodes.                                     *)
(***************************************************************************)
LEMMA TimesAreFinite ==
  ASSUME NEW S \in SUBSET Nodes, NEW f
  PROVE  /\ IsFiniteSet(S) /\ Cardinality(S) \in Nat
         /\ IsFiniteSet({f[c] : c \in S}) /\ Cardinality({f[c] : c \in S}) \in Nat
         /\ Cardinality({f[c] : c \in S}) <= Cardinality(S)
<1> DEFINE T == {f[c] : c \in S}
           g == [c \in S |-> f[c]]
<1>1. IsFiniteSet(S)
  BY FS_Subset, NodesAssumption
<1>2. g \in Surjection(S, T)
  BY DEF Surjection
<1> HIDE DEF g, T
<1>3. IsFiniteSet(T) /\ Cardinality(T) <= Cardinality(S)
  BY <1>1, <1>2, FS_Surjection
<1> QED
  BY <1>1, <1>3, FS_CardinalityType DEF T

(***************************************************************************)
(* The same for the renewals that a node has missed.                       *)
(***************************************************************************)
LEMMA MissedIsFinite ==
  ASSUME NEW p
  PROVE  /\ IsFiniteSet(Times) /\ IsFiniteSet(Missed(p)) /\ IsFiniteSet(DownTimes)
         /\ Cardinality(Times) \in Nat /\ Cardinality(Missed(p)) \in Nat
         /\ Cardinality(DownTimes) \in Nat /\ Cardinality(down \cap Core) \in Nat
         /\ Cardinality(DownTimes) <= Cardinality(down \cap Core)
<1>1. Core \in SUBSET Nodes /\ Core \cap down \in SUBSET Nodes
      /\ down \cap Core = Core \cap down
  BY DEF Core, Closest
<1>2. IsFiniteSet(Times) /\ Cardinality(Times) \in Nat
  BY <1>1, TimesAreFinite DEF Times
<1>3. /\ IsFiniteSet(DownTimes) /\ Cardinality(DownTimes) \in Nat
      /\ Cardinality(down \cap Core) \in Nat
      /\ Cardinality(DownTimes) <= Cardinality(down \cap Core)
  BY <1>1, TimesAreFinite DEF DownTimes
<1>4. IsFiniteSet(Missed(p)) /\ Cardinality(Missed(p)) \in Nat
  <2>1. Missed(p) \in SUBSET Times
    BY DEF Missed
  <2> QED
    BY <1>2, <2>1, FS_Subset, FS_CardinalityType
<1> QED
  BY <1>2, <1>3, <1>4

(***************************************************************************)
(* A node outlives an interval without a renewal only if the times at      *)
(* which it should have been renewed were missed or are those of nodes     *)
(* that have crashed.                                                      *)
(***************************************************************************)
LEMMA EnoughOutlive ==
  ASSUME BaseInv, NEW p, NEW s \in Nat, Times \subseteq {s} \cup Missed(p) \cup DownTimes,
         Cardinality(Missed(p)) <= lost, Enough
  PROVE  FALSE
<1>1. /\ IsFiniteSet(Missed(p)) /\ IsFiniteSet(DownTimes)
      /\ Cardinality(Times) \in Nat /\ Cardinality(Missed(p)) \in Nat
      /\ Cardinality(DownTimes) \in Nat /\ Cardinality(down \cap Core) \in Nat
      /\ Cardinality(DownTimes) <= Cardinality(down \cap Core) /\ lost \in Nat
  BY MissedIsFinite DEF BaseInv, TypeInv
<1> DEFINE both == Missed(p) \cup DownTimes
           all == both \cup {s}
<1>2. /\ IsFiniteSet(both) /\ Cardinality(both) \in Nat
      /\ Cardinality(both) <= Cardinality(Missed(p)) + Cardinality(DownTimes)
  <2> DEFINE shared == Missed(p) \cap DownTimes
  <2>1. Cardinality(shared) \in Nat
    <3>1. IsFiniteSet(shared)
      BY <1>1, FS_Intersection
    <3> QED
      BY <3>1, FS_CardinalityType
  <2>2. /\ IsFiniteSet(both)
        /\ Cardinality(both)
             = Cardinality(Missed(p)) + Cardinality(DownTimes) - Cardinality(shared)
    BY <1>1, FS_Union
  <2> HIDE DEF both, shared
  <2>3. Cardinality(both) \in Nat
    BY <2>2, FS_CardinalityType
  <2> QED
    BY <1>1, <2>1, <2>2, <2>3
<1>3. Times \subseteq all
  OBVIOUS
<1> HIDE DEF both
<1>4. IsFiniteSet(all) /\ Cardinality(all) <= Cardinality(both) + 1
  <2>1. /\ IsFiniteSet(all)
        /\ Cardinality(all) = IF s \in both THEN Cardinality(both) ELSE Cardinality(both) + 1
    BY <1>2, FS_AddElement
  <2> QED
    BY <1>2, <2>1
<1> HIDE DEF all
<1>5. Cardinality(Times) <= Cardinality(all) /\ Cardinality(all) \in Nat
  BY <1>3, <1>4, FS_Subset, FS_CardinalityType
<1> QED
  BY <1>1, <1>2, <1>4, <1>5 DEF Enough

(***************************************************************************)
(* A tick finds everything renewed that was to be, and of the times of the *)
(* core one that was not missed comes before anything expires.             *)
(***************************************************************************)
LEMMA TickKept ==
  ASSUME BaseInv, BaseInv', SettledInv, SettledInv', KeptInv, Tick,
         DEFAULT_TTL >= REPUBLISH_INTERVAL
  PROVE  KeptInv'
<1> SUFFICES ASSUME (settled # Nothing /\ Enough)', NEW p \in Core, p \notin down'
             PROVE  (get(p) = settled /\ Cardinality(Missed(p)) <= lost)'
  BY DEF KeptInv, Core, Closest
<1> DEFINE I == REPUBLISH_INTERVAL
           s == storage[p]["key"].timestamp
<1>1. /\ settled' = settled /\ down' = down /\ phase' = phase /\ lost' = lost
      /\ DOMAIN tasks = {} /\ net = {} /\ due = {}
      /\ due' = {n \in Nodes \ down : now' % I = phase[n]}
  BY DEF Tick, ghosts, counters
<1>2. settled # Nothing /\ Enough /\ Core' = Core /\ Times' = Times /\ DownTimes' = DownTimes
  BY <1>1 DEF Enough, Times, DownTimes, Core, Closest
<1>3. p \in Nodes /\ get(p) = settled /\ Cardinality(Missed(p)) <= lost
  BY <1>1, <1>2 DEF KeptInv, Core, Closest
<1>4. "key" \in DOMAIN storage[p] /\ s \in Nat /\ now \in Nat /\ now' = now + 1
  BY <1>2, <1>3, SettledIsFound, TickEffect
<1>5. ASSUME NEW r \in Times, Passed(p, r), r \notin DownTimes
      PROVE  r \in Missed(p)
  <2>1. CASE r = now % I /\ Pending(p)
    <3>1. Stamped(p)
      BY <1>1, <2>1 DEF Pending, Renews, HasRead, Covered
    <3>2. s = now
      BY <3>1 DEF Stamped
    <3>3. PICK time \in (s + 1) .. now : time % I = r
      BY <1>5 DEF Passed
    <3> HIDE DEF s
    <3> QED
      BY <1>4, <3>2, <3>3
  <2> QED
    BY <1>5, <2>1 DEF Missed
<1>6. s + DEFAULT_TTL > now'
  <2> SUFFICES ASSUME s + DEFAULT_TTL <= now'
               PROVE  FALSE
    BY <1>4, TtlAssumption
  <2>1. I \in Nat \ {0} /\ DEFAULT_TTL \in Nat /\ DEFAULT_TTL >= I
    BY IntervalAssumption, TtlAssumption
  <2>2. s % I \in Nat
    BY <1>4, <2>1
  <2>3. ASSUME NEW r \in Times, r # s % I
        PROVE  Passed(p, r)
    <3>1. r \in 0 .. (I - 1)
      <4>1. PICK c \in Core : r = phase[c]
        BY <2>3 DEF Times
      <4>2. phase \in [Nodes -> 0 .. (I - 1)] /\ c \in Nodes
        BY DEF BaseInv, TypeInv, Core, Closest
      <4> QED
        BY <4>1, <4>2
    <3>2. PICK time \in (s + 1) .. (s + I - 1) : time % I = r
      <4> HIDE DEF I, s
      <4> QED
        BY <1>4, <2>1, <2>3, <3>1, ComesBack
    <3>3. time \in (s + 1) .. now
      <4> HIDE DEF I, s
      <4> QED
        BY <1>4, <2>1, <3>2
    <3> QED
      BY <3>2, <3>3 DEF Passed
  <2>4. Times \subseteq {s % I} \cup Missed(p) \cup DownTimes
    BY <1>5, <2>3
  <2> QED
    BY <1>2, <1>3, <2>2, <2>4, EnoughOutlive
<1>7. "key" \in DOMAIN storage'[p] /\ storage'[p]["key"] = storage[p]["key"]
  BY <1>3, <1>4, <1>6, TickEffect
<1>8. get(p)' = settled'
  BY <1>1, <1>2, <1>3, <1>6, <1>7, SettledWillBeFound
<1>9. Missed(p)' \subseteq Missed(p)
  <2> SUFFICES ASSUME NEW r \in Missed(p)'
               PROVE  r \in Missed(p)
    OBVIOUS
  <2>1. /\ r \in Times /\ Passed(p, r)' /\ r \notin DownTimes
        /\ ~(r = now' % I /\ Pending(p)')
    BY <1>2 DEF Missed
  <2>2. PICK time \in (s + 1) .. now' : time % I = r
    BY <1>7, <2>1 DEF Passed
  <2>3. CASE time = now'
    <3>1. PICK c \in Core : phase[c] = r
      BY <2>1 DEF Times
    <3>2. c \notin down /\ c \in Nodes
      BY <2>1, <3>1 DEF DownTimes, Core, Closest
    <3>3. Pending(p)'
      BY <1>1, <1>2, <2>2, <2>3, <3>1, <3>2 DEF Pending, Renews
    <3> QED
      BY <2>1, <2>2, <2>3, <3>3
  <2>4. CASE time # now'
    <3>1. time \in (s + 1) .. now
      <4> HIDE DEF s
      <4> QED
        BY <1>4, <2>2, <2>4
    <3> QED
      BY <1>5, <2>1, <2>2, <3>1 DEF Passed
  <2> QED
    BY <2>3, <2>4
<1>10. Cardinality(Missed(p)') <= Cardinality(Missed(p))
  BY <1>9, MissedIsFinite, FS_Subset
<1>11. /\ Cardinality(Missed(p)) \in Nat /\ lost \in Nat
       /\ Cardinality(Missed(p)') \in Nat
  <2>1. IsFiniteSet(Missed(p)')
    BY <1>9, MissedIsFinite, FS_Subset
  <2> QED
    BY <2>1, MissedIsFinite, FS_CardinalityType DEF BaseInv, TypeInv
<1> QED
  BY <1>1, <1>3, <1>8, <1>10, <1>11

(***************************************************************************)
(* Between two ticks nobody misses a renewal but by a message that is      *)
(* lost.                                                                   *)
(***************************************************************************)
LEMMA MissedStays ==
  ASSUME BaseInv, BaseInv', Full, [Next]_vars, ~Tick, \A m \in net : ~Lose(m),
         NEW p \in Core, p \notin down', \A c \in Core \ down : get(c) # Nothing,
         phase' = phase, down \subseteq down', now \in Nat
  PROVE  Missed(p)' \subseteq Missed(p)
<1> SUFFICES ASSUME NEW r \in Missed(p)'
             PROVE  r \in Missed(p)
  OBVIOUS
<1>1. Stands /\ p \in Nodes /\ Core' = Core /\ now' = now
  BY StepStands DEF Core, Closest, Stands
<1>2. /\ r \in Times /\ Passed(p, r)' /\ r \notin DownTimes'
      /\ ~(r = now % REPUBLISH_INTERVAL /\ Pending(p)')
  BY <1>1 DEF Missed, Times
<1>3. storage'[p] = storage[p]
  <2>1. CASE Stamped(p)'
    <3>1. storage'[p]["key"].timestamp = now
      BY <1>1, <2>1 DEF Stamped
    <3>2. \E time \in (now + 1) .. now : time % REPUBLISH_INTERVAL = r
      BY <1>1, <1>2, <3>1 DEF Passed
    <3> QED
      BY <3>2
  <2> QED
    BY <1>1, <2>1 DEF Stands
<1>4. Passed(p, r) /\ r \notin DownTimes
  BY <1>1, <1>2, <1>3 DEF Passed, DownTimes
<1>5. ASSUME r = now % REPUBLISH_INTERVAL, Pending(p)
      PROVE  FALSE
  <2>1. PICK c \in Core \ down : phase[c] = now % REPUBLISH_INTERVAL /\ Renews(c, p)
    BY <1>5 DEF Pending
  <2>2. c \notin down'
    BY <1>1, <1>2, <1>5, <2>1 DEF DownTimes
  <2>3. Renews(c, p)'
    BY <2>1, <2>2, RenewsStays
  <2>4. Pending(p)'
    BY <1>1, <2>1, <2>2, <2>3 DEF Pending
  <2> QED
    BY <1>2, <1>5, <2>4
<1> QED
  BY <1>2, <1>4, <1>5 DEF Missed

(***************************************************************************)
(* The loss of a message is one renewal of one node.                       *)
(***************************************************************************)
LEMMA LoseMissed ==
  ASSUME BaseInv, NEW m \in net, Lose(m), NEW p
  PROVE  Missed(p)' \subseteq Missed(p) \cup {now % REPUBLISH_INTERVAL}
<1>1. storage' = storage /\ now' = now /\ phase' = phase /\ down' = down /\ Core' = Core
  BY DEF Lose, clockVars, Core, Closest
<1> QED
  BY <1>1 DEF Missed, Passed, Times, DownTimes

(***************************************************************************)
(* Between two ticks nothing expires, and what is to be renewed will be.   *)
(***************************************************************************)
LEMMA StandsKept ==
  ASSUME BaseInv, BaseInv', SettledInv, SettledInv', KeptInv, [Next]_vars, ~Tick,
         settled' = settled
  PROVE  KeptInv'
<1> SUFFICES ASSUME (settled # Nothing /\ Enough)', NEW p \in Core, p \notin down'
             PROVE  (get(p) = settled /\ Cardinality(Missed(p)) <= lost)'
  BY DEF KeptInv, Core, Closest
<1>1. /\ phase' = phase /\ down \subseteq down' /\ now' = now
      /\ IF \E m \in net : Lose(m) THEN lost' = lost + 1 /\ storage' = storage
                                   ELSE lost' = lost
  BY DEF Next, vars, StartStore, RepublishRead, RepublishStore, Crash, StartGet, Replicate,
         HandleStore, HandleFindValue, Found, Dropped, Lose, CallFails, CallLost, CallTooLate,
         StoreValueTooLate, clockVars, counters
<1>2. /\ settled # Nothing /\ Full /\ p \in Nodes /\ p \notin down /\ Core' = Core
      /\ lost \in Nat /\ lost' \in Nat /\ now \in Nat
  BY <1>1 DEF Core, Closest, SettledInv, BaseInv, TypeInv
<1>3. Enough
  <2>1. /\ Cardinality(Times) \in Nat /\ Cardinality(down \cap Core) \in Nat
    BY MissedIsFinite
  <2>2. Times' = Times /\ down \cap Core \subseteq down' \cap Core /\ lost <= lost'
    BY <1>1, <1>2 DEF Times
  <2>3. IsFiniteSet(down' \cap Core)
    BY FS_Subset, NodesAssumption DEF Core, Closest
  <2>4. /\ Cardinality(down \cap Core) <= Cardinality(down' \cap Core)
        /\ Cardinality(down' \cap Core) \in Nat
    BY <2>2, <2>3, FS_Subset, FS_CardinalityType
  <2>5. Cardinality(Times) >= 2 + lost' + Cardinality(down' \cap Core)
    BY <1>2, <2>2 DEF Enough
  <2> QED
    BY <1>2, <2>1, <2>2, <2>4, <2>5 DEF Enough
<1>4. \A c \in Core \ down : get(c) = settled /\ Cardinality(Missed(c)) <= lost
  BY <1>2, <1>3 DEF KeptInv
<1>5. /\ "key" \in DOMAIN storage[p] /\ storage[p]["key"].timestamp + DEFAULT_TTL > now
  BY <1>2, <1>4, SettledIsFound
<1>6. get(p)' = settled'
  <2>1. storage'[p] = storage[p] \/ Stamped(p)'
    BY <1>1, <1>2, StepStands DEF Stands
  <2>2. "key" \in DOMAIN storage'[p] /\ storage'[p]["key"].timestamp + DEFAULT_TTL > now'
    BY <1>1, <1>2, <1>5, <2>1, TtlAssumption DEF Stamped
  <2> QED
    BY <1>2, <2>2, SettledWillBeFound
<1>7. /\ IsFiniteSet(Missed(p)) /\ Cardinality(Missed(p)) \in Nat
      /\ Cardinality(Missed(p)) <= lost
  BY <1>2, <1>4, MissedIsFinite
<1>8. CASE \E m \in net : Lose(m)
  <2> DEFINE more == Missed(p) \cup {now % REPUBLISH_INTERVAL}
  <2>1. Missed(p)' \subseteq more
    BY <1>8, LoseMissed
  <2>2. IsFiniteSet(more) /\ Cardinality(more) <= lost + 1 /\ Cardinality(more) \in Nat
    <3>1. /\ IsFiniteSet(more)
          /\ Cardinality(more) = IF now % REPUBLISH_INTERVAL \in Missed(p)
                                   THEN Cardinality(Missed(p)) ELSE Cardinality(Missed(p)) + 1
      BY <1>7, FS_AddElement
    <3> HIDE DEF more
    <3> QED
      BY <1>2, <1>7, <3>1
  <2> HIDE DEF more
  <2>3. Cardinality(Missed(p)') <= Cardinality(more) /\ Cardinality(Missed(p)') \in Nat
    BY <2>1, <2>2, FS_Subset, FS_CardinalityType
  <2> QED
    BY <1>1, <1>2, <1>6, <1>8, <2>2, <2>3
<1>9. CASE \A m \in net : ~Lose(m)
  <2>1. Missed(p)' \subseteq Missed(p)
    BY <1>1, <1>2, <1>4, <1>9, MissedStays
  <2>2. Cardinality(Missed(p)') <= Cardinality(Missed(p)) /\ Cardinality(Missed(p)') \in Nat
    BY <1>7, <2>1, FS_Subset, FS_CardinalityType
  <2> QED
    BY <1>1, <1>2, <1>6, <1>7, <1>9, <2>2
<1> QED
  BY <1>8, <1>9

(***************************************************************************)
(* A store that settles has just been stored everywhere.                   *)
(***************************************************************************)
LEMMA SettlesKept ==
  ASSUME BaseInv, BaseInv', CleanInv, SettledInv', [Next]_vars,
         settled' # settled, settled' # Nothing
  PROVE  KeptInv'
<1>1. PICK t \in DOMAIN tasks :
        /\ \/ \E m \in net : HandleStore(m) /\ m.awaited /\ m.task = t
           \/ CallFails(t)
        /\ tasks[t].op = "store" /\ Ends(tasks[t]) /\ clean /\ Full
  <2>1. ASSUME NEW m \in net, HandleStore(m)
        PROVE  /\ m.awaited /\ m.task \in DOMAIN tasks /\ tasks[m.task].op = "store"
               /\ Ends(tasks[m.task]) /\ clean /\ Full
    BY <2>1, RestAnswered DEF HandleStore, StoreAnswered, Settle, ghosts
  <2>2. ASSUME NEW t \in DOMAIN tasks, CallFails(t)
        PROVE  tasks[t].op = "store" /\ Ends(tasks[t]) /\ clean /\ Full
    BY <2>2 DEF CallFails, Settle
  <2>3. \/ \E m \in net : HandleStore(m)
        \/ \E t \in DOMAIN tasks : CallFails(t)
    BY DEF Next, vars, StartStore, RepublishRead, RepublishStore, Crash, StartGet, Replicate,
           HandleFindValue, Found, Dropped, Lose, CallLost, CallTooLate, StoreValueTooLate,
           Tick, Disturb, ghosts
  <2> QED
    BY <2>1, <2>2, <2>3
<1>2. PICK last : /\ Alone /\ last = tasks[t].to
                  /\ last \in down \/ HasNow(last, stores)'
  BY <1>1, LastCall
<1>3. \A p \in (known[t[1]] \cup {t[1]}) \ down : HasNow(p, stores)'
  BY <1>1, <1>2, StoreReachesAll
<1>4. t[1] \in Nodes /\ down' = down
  BY <1>2 DEF BaseInv, TasksOK, TaskOK, Alone
<1>5. \A p \in Nodes \ down' : HasNow(p, stores)'
  BY <1>1, <1>3, <1>4 DEF Full
<1> SUFFICES ASSUME NEW p \in Core, p \notin down'
             PROVE  (get(p) = settled /\ Cardinality(Missed(p)) <= lost)'
  BY DEF KeptInv, Core, Closest
<1>6. /\ p \in Nodes /\ "key" \in DOMAIN storage'[p] /\ now' \in Nat /\ lost' \in Nat
      /\ storage'[p]["key"].timestamp = now'
  BY <1>5 DEF HasNow, Core, Closest, BaseInv, TypeInv
<1>7. get(p)' = settled'
  BY <1>6, SettledWillBeFound, TtlAssumption
<1>8. \A time \in (storage'[p]["key"].timestamp + 1) .. now' : FALSE
  <2>1. \A n \in Nat : \A time \in (n + 1) .. n : FALSE
    OBVIOUS
  <2> QED
    BY <1>6, <2>1
<1>9. Missed(p)' = {}
  BY <1>8 DEF Missed, Passed
<1> QED
  BY <1>6, <1>7, <1>9, FS_EmptySet

(***************************************************************************)
(* When the K + 1 nodes closest to the key were started at two different   *)
(* times of the interval, and at one more for every message that was lost  *)
(* and every one of them that has crashed, a settled value stays alive at  *)
(* those that run, if values live at least as long as it takes a           *)
(* republishing task to come back.  Both are 24 hours in the code.         *)
(***************************************************************************)
THEOREM ValuesAreKeptAlive ==
  ASSUME DEFAULT_TTL >= REPUBLISH_INTERVAL
  PROVE  Spec => []KeptAlive
<1> DEFINE Inv == BaseInv /\ CleanInv /\ SettledInv /\ KeptInv
<1>1. Init => Inv
  BY InitBase DEF Init, CleanInv, SettledInv, KeptInv
<1>2. Inv /\ [Next]_vars => Inv'
  <2> SUFFICES ASSUME Inv, [Next]_vars
               PROVE  Inv'
    OBVIOUS
  <2>1. BaseInv' /\ CleanInv' /\ SettledInv'
    BY StepBase, StepClean, StepSettled
  <2>2. CASE Tick
    BY <2>1, <2>2, TickKept
  <2>3. CASE ~Tick /\ settled' = settled
    BY <2>1, <2>3, StandsKept
  <2>4. CASE settled' # settled /\ settled' # Nothing
    BY <2>1, <2>4, SettlesKept
  <2>5. CASE settled' = Nothing
    BY <2>1, <2>5 DEF KeptInv
  <2> QED
    BY <2>1, <2>2, <2>3, <2>4, <2>5
<1>3. Inv => KeptAlive
  BY DEF KeptInv, KeptAlive, Core, Enough, Times
<1> QED
  BY <1>1, <1>2, <1>3, PTL DEF Spec

=============================================================================
