# A TLA+ model of kademlia-rs

Specifications, model-checking configurations and machine-checked proofs for the
Kademlia implementation in this repository. Paths below are relative to the
repository's root.

## 1. The system

A node is a `Protocol` (`src/protocol/operation.rs`) over a `Network` transport, a
`RoutingTable` and a `Storage`. All handlers and background tasks of a node are
tokio tasks that share these through locks; every await between two locks is a
point where others run.

| component | state | operations | hard parts |
|---|---|---|---|
| `node_id` | - | distance, order, bucket index, random identifier of a bucket, `from_bytes` | bit arithmetic at the edges |
| `node` (a contact) | last-seen second, response statistics | record success, failure, response time; adaptive timeout; activity | u32 overflow, truncating average, a clock set back |
| `routing/k_bucket` | up to `k` contacts by least recently seen, a replacement cache | update, remove, split | full buckets, promotion from the cache |
| `routing/routing_table` | map from bucket index to bucket | update, node_seen, record_success, record_failure, remove, get_closest | the same, across calls |
| `protocol`: contacts | the table, shared | record_contact, health_check_ping | the table is unlocked during the ping |
| `protocol`: calls | `pending_requests` | ping, store, find_node_rpc, find_value_rpc | two nested timers, cancellation |
| `protocol`: lookups | candidate list, seen set | find_node, find_value | failures while the list changes, termination, convergence |
| `protocol`: values | the storage, shared | store_value, handle_store, handle_find_value, replicate_to_new_node | a value read before an await and sent after it |
| `network/udp` | `pending_responses`, a channel, rate limits | send, wait_response, two background tasks | early, late, lost and repeated responses; a full channel; where windows begin |
| `network/tcp` | `pending_responses`, a channel | the same over TCP, one connection per message | one sending task for all peers, no second attempt |
| `network/mock` | `pending_responses`, a registry of weak references | the same in memory | a destructor that changes the registry |
| `storage` | entries with a time-to-live; `DualStorage` mirrors them in a second map | store, get, remove, cleanup | expiry between cleanups |
| `network/node` | - | store, get, join; refresh, republish and expiration tasks | several nodes at once; crashes; a republishing interval equal to the time-to-live |

Interaction: a transport task receives a request and spawns `handle_request`, which
enters the sender in the routing table (and may first ping the least recently seen
contact of a full bucket), answers, and replicates values to a contact that is new.
A call registers in `pending_requests`, hands its message to the transport's channel,
registers in `pending_responses`, and waits under two timers. Lookups are rounds of
calls. The background tasks use lookups and stores.

What makes the components correct: distances order nodes as Kademlia requires; a
contact is in the bucket where it is looked for; a bucket keeps its capacity, fills
its vacancies and gives up only unreliable, silent or unresponsive contacts; a call ends, once,
and cleans up; a lookup ends and finds the closest node, and the value it holds; a
storage returns a value until its time-to-live has passed, and not after; nodes that
check on one another do not wait for one another in a circle, and a check that fails costs
nobody but the contact it pinged its place; a stored value reaches the contacts,
displaces the older one for good, and is kept alive by republishing.

## 2. The modules

| module | models | kind |
|---|---|---|
| `NodeId` | `src/node_id.rs` | operators; an identifier is a bit string |
| `Contact` | `src/node.rs` | operators on contact records |
| `KBucket` | `src/routing/k_bucket.rs` | operators on a bucket record |
| `Table` | `src/routing/routing_table.rs` | operators on a node's table |
| `RoutingTable` | the table of one node | state machine over `Table`: one action per operation under the write lock |
| `RecordContact` | `record_contact`, `health_check_ping` | extends `RoutingTable` with the handlers of one node (`HandlerSpec`) |
| `Join` | `Node::join`, `handle_ping`, health checks, the limit on requests | composes `Table` and `RateLimit` on several nodes |
| `RpcAbstract`, `Rpc` | the calls and the three transports | what a call promises, and how it is done |
| `Lookup` | what both lookups share: tables that answer, lists of candidates | operators and variables |
| `FindNode`, `FindValue` | `find_node`, `find_value` | state machines of one lookup, over `Lookup` |
| `Replication` | `Node::store`, `get`, republishing, expiration, replication | composes `MemoryStorage` on several nodes |
| `RateLimit` | the limit on requests of `src/network/udp.rs` | state machine |
| `TtlMap`, `MemoryStorage` | `MemoryStorage` | what a storage promises, and how it is done |
| `DualStorage` | `DualStorage` | state machine beside `MemoryStorage`, over its operators |
| `Registry` | the registry of `src/network/mock.rs` | state machine |
| `NodeId_proofs`, `MCNodeId_proofs`, `RoutingTable_proofs`, `Network_proofs`, `Storage_proofs`, `Lookup_proofs`, `Replication_proofs`, `Join_proofs` | - | theorems (section 4) |
| `MC*` | - | instances for TLC |

Mutants: an operator whose comment begins with what it gets wrong ("a store that
forgets the shared map") is a wrong variant of the definition that follows it. No
specification uses it; substituting it must break the property it is paired with.

### Identifiers and contacts

`NodeIds` are functions from bit positions to {0, 1}, most significant bit first;
byte and shift arithmetic is flattened. `random_in_bucket` is the set of its possible
results. The socket address is left out of contacts: no property tells two addresses
of one identifier apart. Times are whole seconds as in the code, and `now` is the
system clock. The moving average is computed in integers, `(ms + 4 * avg) \div 5`; the
code's `f64` expression truncates to the same number for all response times that the
timeouts admit. Counters saturate at `MAX_U32`, and their sum in `success_rate` wraps there
as in a release build.

### The routing table

A table is the code's `HashMap` from bucket index to bucket, and its operations (`Table`) are
functions of the table, the local node and the clock; `bucket_update`, `bucket_remove` and
`split_half` are `KBucket`'s methods. `RoutingTable` runs them on the table `buckets` of the
node `local_node_id`. The recursion of
`RoutingTable::update` after a split is a recursive function over at most
`KEY_LENGTH_BITS` passes. `node_seen`, `record_success` and `record_failure` build a
clone of the contact and hand it to `bucket_update`, which keeps the stored contact
and drops the clone, as in the code. `get_closest` sorts the places of the contacts (bucket
index and position), since a contact may be listed twice (section 3) and the iteration over a
`HashMap` has no order; the p-th result is the place with p - 1 places before it, which is what
a stable sort returns. `Clock` lets time pass, and with
`ClockStepsBack` lets it be set back.

### Handlers

`RecordContact` runs a set of handlers over one table, the variables of `RoutingTable`. Each acquisition of the write
lock is a step: `Receive` (contains and update), `PingAnswered`, `PingTimesOut`
(record_success and record_failure inside the health check), `MarkSeen`, `Evict` and
`Retry`. Between them other handlers run, peers crash and the clock moves. A ping has
an outcome, and a running peer's ping may fail like that of one that is down: answers are
lost or late.

### Several nodes that join

`Join` gives every node a table (`Table`'s operators) and windows (`RateLimit`'s).
A task is a join or the handler of a request; it is named by the path of pings that led
to it, which is how an answer finds its caller. What a task does between two messages is
one step. `record_contact` either carries on or pings the least recently seen contact of
the full bucket first; `CheckTimesOut` removes that contact and tries again. A timer (5
seconds for a listed contact, 30 for another) may fire at any time, with the ping, its answer
or its handler still under way: messages are late or lost (`Lose`), and handlers wait for their
own checks, around a circle of full buckets as long as the limit on requests lets them. Of the
two nested timers the outer one records a failure and the inner one does not
(`AfterTimeout`). The model is of the first minute, so that no window ends, no contact is
silent for `NODE_TIMEOUT` and the clock stands still. `lost` is a history of the pings that
were lost or refused, or whose answer was lost, and `known` of the contacts a node has entered
and that no check of its own has failed on since. The nodes hold no values: the replication that follows the handling of a request is `Replication`'s. The lookup at the
end of join is `FindNode`'s. A node's table is empty at first, or has the bootstrap
contact that an earlier, failed join has left in it.

### Calls

In `Rpc` a call and its message identifier are the same thing (identifiers are random
u64). `transport` is chosen at first and stays. `pc` is the caller's place; `channel`,
`sending` and `attempt` belong to `handle_outgoing` of UDP and TCP, which differ in the
number of attempts; the in-memory transport sends without a task (`SendInMemory`,
`SendRefused`). `Deliver` is the response branch of `handle_incoming`,
`handle_connection` and `deliver_response`. `InnerTimeout` is the timer in
`wait_response`, `OuterTimeout` the one around it. A response that is there when the
caller is polled wins, because tokio's `timeout` polls its future before its timer.
Messages may be lost, delayed and reordered, datagrams also duplicated: nothing obliges
the network to deliver what is in `net`, and a datagram stays there. The channel carries
the requests of the modelled calls; replies to other nodes share it in the code and only
lengthen the wait for a place. An attempt to send over TCP need not end: `connect` and
`write_all` have no timeout, so that a peer that accepts and does not read holds up the only
sending task, and callers wait in `send`, outside every timer, once the channel is full.
`RpcAbstract` tells the two apart: a call is `queued` until the transport has taken its
message, which happens for certain if the transport drains its queue (`draining`: UDP and in
memory), and `open` from then on, when it ends for certain over each transport. The table operations of a call are those of
`RoutingTable`. A TCP frame arrives or does not; its length prefix is left out.

### Lookups

Peers answer with the closest contacts of a routing table that holds at least `fill`
contacts (0 or 1) of every bucket that has as many nodes, and that may differ from one
answer to the next (`Lookup`). A table may list a contact twice (`twice`), as the finding on
`k_bucket.rs:122` shows, but not three times (`ListedAtMostTwice`, which is proved): the contact
then takes two of the places of an answer (`ClosestOf`), is twice among the first candidates of
`find_node`, which takes them unfiltered, and is asked twice in a round. Of two entries in a
peer's answer `find_node` adds the first (`Unseen`). `SortByDistance` is defined by counting, as in `RoutingTable`: a list sorted by
`SortSeq`, by choice among permutations, is opaque to the provers. `FindNode` follows `find_node`: the candidate list, the seen set, rounds of
at most `ALPHA` calls, and the answers handled in the order of the requests by their
index. `FindValue` follows `find_value`: the visited set, the candidates that are there
as often as they were learnt, the stop at the first iteration without new nodes, the
limit on iterations and the caching of the value. The fall-back to all known nodes when
the closest ones are none adds nothing, for then there are none at all.

### Values on several nodes

`Replication` has one key and values numbered by the calls of `store`. A task (a client's
store or get, a republication, a replication) has a queue of nodes it sends to, one call
at a time, and looks at no outcome. The queue is a set: `store_value` goes through it from the
node closest to the key on, and the direct calls that `Node::store` adds for every contact,
which come from `get_all_nodes`, in no order (`Candidates`). A node without contacts stores
locally only. A timer may fire while the call or its answer is under way (`CallTooLate`); the
message stays under way and has its effect, and its answer is dropped. `StoreValueTooLate` is
the timer of `Node::store` around the whole of `store_value`. A message may be lost, which includes
one that the limit on requests refuses (`Lose`); nobody sends it again, and the call goes on
by its timer (`CallLost`). `RepublishRead` and
`RepublishStore` are two steps, as the storage is unlocked between them. `Welcome` enters the
sender of a request in the table, and `Replicate` follows if it is new. A crashed node loses
its storage and its tasks. The clock counts parts of a day and moves only when nothing is
under way. `settled` is the value of the last store if that store met no other operation, no
timer fired, no message was lost and every node knew every other when it ended; `lost` counts
the messages lost since the last store began.

### Storage

`MemoryStorage` is what `with_udp` and `with_tcp` build a node with. It keeps expired
entries until cleanup; `LiveContents` is its refinement mapping to `TtlMap`.
`DualStorage` is the second implementation of `Storage`; no constructor of a node uses
it. All operations run under the protocol's storage lock, so that each is one step.

### The limit and the registry

`RateLimit` is `check_rate_limit` as a function of the table of windows, with a history
of the requests let through. `Registry` has the registry's lock as a variable, because
the destructor only tries it; a transport lives while its owner or a sender that looked
it up holds a reference, and the destructor is a step of its own.

## 3. The runs

Passing runs:

| run | shows |
|---|---|
| `node_id` | identifier arithmetic against the numeric XOR metric, every triple of 4-bit identifiers |
| `routing_table` | placement, capacity, promotion, order, the priorities of evictions (`EvictsByPriority`), how often a contact can be listed (`ListedAtMostTwice`) and get_closest over every sequence of operations on 5 peers and the node itself |
| `record_contact` | overlapping handlers change the table by its operations only (`RoutingTable!Spec` is implemented), evict only whom they pinged in vain, and call a contact inserted only if it is listed |
| `join` | nodes that ping before they answer: when only timers are left, everybody waits for a message that was lost or refused, never for one another around a circle (`NoCircularWait`); a node forgets nobody but the contacts its own checks had no answer from (`NobodyForgotten`) |
| `rpc` | over each transport, calls implement `RpcAbstract`, liveness included: they end once their message is taken, and only once, and return only what the peer served; over UDP and in memory every message is taken; a success leaves no entry behind, and an error no more than its own path does |
| `lookup` | with one contact per non-empty bucket and answered calls, a lookup finds the closest node, and a value held there, also when tables list a contact twice; whatever tables say and whoever fails, the candidates of `find_node` stay ordered, none is there three times, and both lookups end |
| `storage` | `MemoryStorage` implements `TtlMap`; the two maps of `DualStorage` stay equal and its get never returns an overwritten or removed value |
| `rate_limit` | at most twice the limit passes in any stretch as long as a window, and nobody is refused who has not used up the limit within one |
| `replication` | an undisturbed store reaches every running contact (`StoreTakesEffect`), older values do not come back after it (`OldStaysAway`), and the K + 1 closest nodes keep it alive when they republish at two different times, and at one more for every lost message and every crash among them (`KeptAlive`) |

Violations: each states what a comment says and the code does not do.

| run | what the counterexample shows |
|---|---|
| `table_RemoveRemoves` | a contact waiting in the replacement cache takes an inactive contact's place and stays in the cache; it is later promoted beside itself, and is still listed after its removal |
| `find_node_FailedAreRemoved` | an earlier answer of the round moves the candidates; the failure at index 1 then removes a node that answered |
| `registry_DuplicateIsRefused` | the destructor of a refused transport removes the registry entry of the living one: the next duplicate is accepted, and two transports live at one address |

### Known deviations without a run of their own

Behaviours of the models that a reader of the code may not expect:

- No success, failure or response time is ever recorded: `record_failure` changes a clone
  that is dropped, renews `last_seen` and makes a failing contact the most recently seen
  one (`RecordingOnlyRefreshes`, section 4).
- A contact that is promoted beside itself is returned twice by `get_closest`, and `find_node`
  and its peers' answers then have it twice.
- Over TCP a peer that accepts a connection and does not read stops the node's sending for
  good; calls whose message is not in the channel yet never end.
- A response that arrives between `send` and `wait_response` is dropped, and the call
  times out (`Deliver`).
- The inner timer of a call and a send that fails skip the clean-up of
  `pending_requests`; the outer timer skips that of `pending_responses`
  (`OnlyErrorsLeaveEntries` says exactly which).
- `find_node` asks no candidate after the first `ALPHA`, so that its result may miss one
  of the k closest nodes. `find_value` stops when the nodes asked know nobody new: a value
  held by one of the k closest nodes, but not by the closest, may not be found.
- `DualStorage::get` returns a value that has expired and not been cleaned up, and
  restarts its time-to-live (`DualGet`).
- Health checks around a circle of full buckets do not wait for one another, since every
  request has a task of its own; they multiply, each causing the next, until the limit on
  requests refuses one (over TCP and in memory: until the timers of the first fire, with the
  others under way), and running contacts are evicted. A running contact is also evicted when
  an answer is lost or its handler is slow because of its own check of a node that is down. No
  property excludes these evictions, since the code does not; `NobodyForgotten` bounds what
  they cost.
- A bootstrap contact that is down stays in the table after the failed join, until a check
  happens to ping it: with `K` = 20 that takes a full bucket in which it is the front.
- The republishing interval is the time-to-live. If all the nodes that hold a value were
  started in the same part of the interval, the value expires as they come to republish it;
  in the code that is a race of milliseconds. `KeptAlive` needs two phases. A lost or refused
  republication is not repeated: with two phases one such message lets the value expire
  at its receiver, and each further phase makes up for one of them.
- A republication that read the old value before a store began may overwrite the new one;
  with it goes the hypothesis of `OldStaysAway`.
- `node.rs:18` calls the background tasks disabled; `start` spawns them.
- `success_rate` may exceed 1 when its u32 sum wraps.

### Bounds

- `KEY_LENGTH_BITS` 3 or 4, `K` 2 or 3, against 160 and 20: a bucket overflows with one
  peer more than `K`, and the cache holds two peers at once with two more.
- `NODE_TIMEOUT` 0 or 1 and `MaxTime` 1 or 3 seconds: a contact can be active, exactly
  at the timeout and beyond it, with one more tick for what follows.
- `MAX_U32` 3: any value will do, since no statistics are kept.
- Three calls, each transport, channel capacity 1, two attempts: one caller waits for the channel while a
  second one's message is in it and a third one's keeps failing.
- Two handlers and three peers for a bucket of two: both handlers ping the same contact,
  or one pings whom the other evicts.
- Lookups of all 8 identifiers in a network of 5 nodes with `ALPHA` = 2 < `K` = 3 and at most
  one contact that a table lists twice (`MaxTwice`): answers are truncated, also by the second
  entry, candidates remain that are not asked, and two of the local node's buckets have two
  nodes each, of which its table may hold only the farther one.
- Value lookups in the same network, at most one holder, three iterations, against 10:
  lookups that exhaust them happen, and `FindsHeldValue` speaks of the others.
- Two keys, two values, times-to-live of 0 to 2 ticks.
- `join`: five nodes, three-bit identifiers, `K` = 1, a limit of one request, two joins, four of
  the nodes in a ring, at most one node down, one lost message and two timers that fire. Two or
  three other nodes compete for each node's far bucket, checks follow one another around the
  ring, and one fails while another handler waits for the same contact or its answer is under
  way. The properties are proved for every K, limit and number of faults.
- `rate_limit`: windows of 2 seconds, limit 2, 6 seconds: two whole windows and their ends.
- `replication`: three nodes that all republish to each other (`K` = 2), two stores or gets, one
  fault (a lost message, a late timer or a crash), six events in all with the ticks of the
  clock, time-to-live and interval of three ticks. The nodes were started at two or three
  different times of the interval, and the one closest to the key may be a newcomer, who knows
  one node or nobody. With six events a store, a fault and a second store overlap, or a value
  lives through a whole interval and a fault in it.
- `registry`: three transports, two addresses, one sender.

### Fairness

Only `Rpc` and the lookups assume fairness. In `Rpc` the executor runs a task that can
run (weak fairness of the caller's steps and of the sending task) and fires a timer that
is due; `Send` is strongly fair because tokio's bounded channel serves waiting senders
first come, first served. An attempt to send ends over UDP, where it is one local system call
and a sleep, and is not assumed to end over TCP, where it waits for the peer (`Attempt`).
Nothing is assumed of the network or the peer. In `FindNode`
and `FindValue` the lookup's task runs, and every call has an outcome, which `Rpc` shows.
Deadlock checking is off where the system may stop: calls that are all over (`Rpc`), a
lookup that is over, handlers with no peer left to serve (`RecordContact`), joins that are
over (`Join`), a budget of events that is used up (`Replication`), transports that are gone
(`Registry`).

## 4. The proofs

Every theorem holds for every value of the constants that the named `ASSUME`s of the modules
admit; further hypotheses are in the statement and mentioned here. Three arguments recur:
a non-empty set of naturals has a least element (`LeastOfIsLeast`, from the library's
well-foundedness of Nat), which also serves for induction, since a set of exceptions without
a least element is empty; a sort by counting puts every element at exactly one place
(`PlacesByCounting`); and what an operation does to one bucket, list or map is a lemma, of
which the step of the state machine is a consequence, one case per action.

### Identifiers: `NodeId_proofs`, `MCNodeId_proofs`

For every identifier length:

- `BucketOfCloserNodeIsCloser`: if a node is closer to the target than c, every contact of
  c in that node's bucket is closer than c. This is why one contact per bucket is enough
  for a lookup to make progress; `OwnBucketContactIsCloser` is the case of the target's own
  bucket.
- `DistanceHasNoTies`, `CloserIsTotalOrder`: sorting by distance has one result.
- `RandomInBucketIsTheBucket`: the refresh targets of a bucket are its identifiers.
- `XorMetricCorrect`, `BucketScaleCorrect`, `OwnBucketCorrect`, `RefreshCorrect`: the four
  invariants of the run `node_id`, which that run checks at four bits. The numeric reading
  of an identifier is a recursive function of its length (`Numbers`), and the proofs are
  inductions over that length: equal leading bits cancel, and the first difference decides.

### The routing table: `RoutingTable_proofs`

For every identifier length, `K`, timeout, set of peers, and (but for `OrderCorrect`) with or
without a clock that is set back:

- `TableIsGood`: `Spec => []IInv`. `IInv` says of every bucket that its prefix length is
  its index, its contacts and waiting contacts are contacts of that index (so not the
  local node) that have been seen and have the default statistics, it has at most `K`
  contacts, and exactly `K` while any contact waits.
- `TypeCorrect`, `PlacementCorrect`, `CapacityCorrect`: `TypeOK`, `BucketPlacement` and
  `NoVacancyWhileWaiting` follow.
- `WaitsOnceCorrect`: no contact waits twice.
- `TwiceAtMostCorrect` (`ListedAtMostTwice`): the contact that is promoted beside itself is
  never listed a third time, nor waits while it is listed twice. An entry of a bucket is one of
  its entries before the step, or the newcomer, who was not listed, or the promoted one, which
  waited once (`WaitsOnce`) and no longer does. `Lookup` takes its tables from this.
- `OrderCorrect`: buckets and caches are in the order of least recently seen, if the clock
  is not set back. Without that hypothesis it is false: the renewed contact at the end of
  the queue then has the earlier second.
- `ClosestCorrect`: `ClosestFirst`, for every target and count.
- `RecordingOnlyRefreshes`, `StatisticsStayDefault`: `record_success` and `record_failure`
  do what `node_seen` does and no statistics are ever kept, so that the replacement of
  unreliable contacts in `KBucket::update` is dead code and the adaptive timeout is always
  its base.
- `EvictionsCorrect`: `EvictsByPriority`, the order of `k_bucket.rs:101`, also under a clock that
  is set back, which the run does not cover. The property does not depend on the statistics
  being dropped: with working ones an unreliable contact would be the first to go.
- Of a contact by itself, for every history of response times: the moving average stays
  within the range of its samples (`AverageStaysWithinSamples`), and the adaptive timeout
  within its base and 30 seconds (`AdaptiveTimeoutWithinBounds`), growing with the average
  (`AdaptiveTimeoutIsMonotone`).

The strengthening `IInv` is needed because `update` may split a bucket and drop its cache; the
lemma `GoodBucketNeverSplits` excludes it: contacts of bucket i all differ from the local
node at bit i, the bit `should_split` compares, so that they agree there. The split of
`RoutingTable::update` is dead code, and `update` is one pass.
Contacts are handed to `update` with the default statistics, as `Node::new` builds them; a
contact that a peer sends in a message carries the statistics of that peer's table, which are
the default ones for the same reason.

### Handlers: `RoutingTable_proofs`

For every set of handlers, however they overlap. `HandlerInv` is `IInv` and, of each handler,
that it has a peer as its target while it pings, marks it as seen or evicts it, evicts only
after a ping in vain, and has inserted nobody before it decides to reply (`HandlersAreOK`).
`HandlersRefineTheTable` maps every handler's step to an operation of `RoutingTable` or a
stutter, so that whatever is proved of the table holds beneath the handlers.
`HandlersEvictOnlyTheirTarget` and `HandlersInsertWhatTheyReport` are the two action
properties of the run.

### Calls: `Network_proofs`

For each transport and every number of calls, attempts and places in the channel.
`RpcInvariant` proves `RpcInv`: types; only a waiting caller has an entry for its response, and
loses it when it is handed one; responses are to requests the peer has served; nothing of a
call exists before it is made; and `OnlyErrorsLeaveEntries` itself, which is thereby proved too
(`LeftEntriesCorrect`). From it `RpcRefinement`: `Spec` implements the safety part of
`RpcAbstract`. A call ends once, and returns only what was served after its message was taken.

### Storages: `Storage_proofs`

For all keys, values and times. `StorageRefinement`: `MemoryStorage` implements `TtlMap`. The
mapping hides what has expired, so that the theorem says that it makes no difference when, or
whether, `cleanup` runs. `MemoryRefinement`: so does the memory half of `DualStorage`.
`SharedMirrorsMemoryCorrect` and `ReturnsLatestCorrect` rest on `DualInv`: both maps have the
same keys and values, and these are the latest stored and not removed.

### The limit: `Network_proofs`

For every limit, length of window and set of addresses, `RateInvariant` proves `RateInv`: the
window of an address has counted every request let through since its start, none came after
its end, and within a window's length before its start at most the limit passed. A stretch as
long as a window meets at most these two parts: `LimitCorrect` (`AtMostTwiceTheLimit`).
`RefusalCorrect` (`RefusedOnlyAtTheLimit`) reads the count of the open window.

### Lookups: `Lookup_proofs`

For every finite network, `ALPHA` and number of iterations:

- `CandidatesCorrect`: the candidates of `find_node` stay sorted, at most `K`, none of them three
  times and the local node never, whatever tables say, contacts listed twice included, and
  whoever fails. Whoever is in the list is recorded as seen, and an answer adds the unseen once.
- `FindNodeConverges` (`FindsClosest`), for `K >= 3`. `ConvergesInv` says that as long as
  calls are answered and tables have a contact in every bucket, the first candidate is as
  close as anything seen, and a round that brings nothing closer has asked it. Its answer
  would have had a closer contact if there were one (`BucketOfCloserNodeIsCloser`), and would
  not have cut it off.
- `FindValueConverges` (`FindsHeldValue`), for `K >= 3`. Under the same conditions `AheadInv`
  says that no node the lookup knows of is closer than its first candidate, which it asks in
  the next iteration at the latest, and that a node that has answered without the value was
  the closest one or is followed by a closer one, among the candidates or in the answers
  gathered in this iteration. So when no node is new, the closest one has been asked and does
  not hold the value.

`K >= 3` is needed, and the code's `K` is 20. With `K` = 2 an answer may consist of the asker
alone, who is in the peer's table like anybody else and may be listed there twice: the lookup
then ends early, as TLC shows. TLC checked `AheadInv` and `ConvergesInv` on the instance of the
run `lookup` before they were proved.

### Values on several nodes: `Replication_proofs`

For every finite set of nodes, distances without ties, `K`, number of operations, faults and
events, and every set of phases:

- `StoresTakeEffect` (`StoreTakesEffect`), from `CleanInv`: while the last store is alone,
  whatever is under way carries its value, a node that is to replicate to another has stored
  it, and so have the store's own node and, once it makes its direct calls, every running
  contact it is done with. The direct calls begin anew with every contact (`CallAll`), which is
  why it does not matter whom `store_value` has reached before.
- `OldValuesStayAway` (`OldStaysAway`), from `SettledInv`: once a store has settled, everybody
  knows everybody, and every entry, expired or not, every task and every message has its value
  or none, until the next store begins.
- `ValuesAreKeptAlive` (`KeptAlive`), from `KeptInv`, with the hypothesis `DEFAULT_TTL >=
  REPUBLISH_INTERVAL`; the code has 24 hours for both (`storage.rs:31`, `node.rs:23`). Each of
  the K + 1 nodes closest to the key that runs has the settled value, and of the times of the
  interval that have come since it was stored there it has missed no more renewals than messages
  were lost, those of crashed nodes and one that is still under way aside. A republication calls
  the K contacts closest to the key, which with the caller include these nodes (`CoreIsCalled`,
  by cardinalities), and a node comes back to its phase within an interval (`ComesBack`, by the
  properties of `%`), so that one time more than are spoilt by losses and crashes, besides the
  one at which the value was stored, renews it before it expires. Neither term can be dropped:
  TLC refutes `KeptAlive` without the count of lost messages and without that of crashed nodes.

The three rest on `BaseInv`: types, tasks that belong to running nodes and wait for whom they
have called, and messages whose task, if they are awaited, is there and waits for them. TLC
checked the four invariants on the instance of the run `replication` before they were proved.

### Nodes that join: `Join_proofs`

For every set of nodes (`NodesAssumption`), choice of bootstrap nodes among them
(`BootstrapAssumption`), `K`, limit and number of joins, nodes down, lost messages and timers.
`JoinInvariant` proves `JoinInv`:

- every table has only contacts of the bucket they are in, seen just now and with the default
  statistics, so that `update` neither replaces an inactive or unreliable contact nor splits
  a bucket (`BucketUpdateKeeps`, `NeverSplits`), and drops nobody;
- every task that waits has its ping, the answer or the handler of the ping under way, unless
  that was lost or refused, and a handler's name ends with the ping it is to answer;
- `NobodyForgotten` itself, which is thereby proved too (`NobodyForgottenCorrect`).

`NoCircularWaitCorrect` (`NoCircularWait`): when nothing is under way, follow from a waiting task
the handlers it waits for. Each has a name that is one longer, so that in a finite set of tasks
this comes to an end (`WaitsEnd`), and the last one waits for a message that was lost or
refused. Handlers that ping one another around a circle of full buckets therefore never wait
for one another.

### Only model-checked

Liveness (`LookupEnds`, the liveness of `CallsImplementAbstract`, `HandedOverIsReturned`),
which the prover cannot do.

## 5. Not modelled

The refresh task has no module: it is a sequence of lookups (`FindNode`) of identifiers
that `random_in_bucket` draws (`RefreshHitsItsBucket`). `with_tcp`, `with_udp` and `start`
construct and spawn. The length prefix of TCP frames, text, hashing, serialization, logging,
the error type and the example's command line have no state of their own. Liveness of `Join`
is not stated: a wait for an answer is bounded by a timer, and TLC's test of enabledness over
the composed tables is out of reach at this size.

## 6. Plan

The models are complete as far as section 5 allows, and every safety property of the passing
runs is proved. What is left is a fairness of the composed network under which joins end.
