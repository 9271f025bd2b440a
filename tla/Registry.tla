------------------------------ MODULE Registry ------------------------------
(***************************************************************************)
(* The registry of the in-memory transport (src/network/mock.rs): a map,   *)
(* behind a lock, from addresses to weak references.  A transport is kept  *)
(* alive by whoever holds a strong reference to it: its owner, or a sender *)
(* that has looked it up and is delivering to it.  When the last of these  *)
(* is given up, the destructor tries to take the transport out of the      *)
(* registry.                                                               *)
(***************************************************************************)
CONSTANTS Transports,   \* the transports that are ever made
          Addresses,    \* socket addresses
          Senders,      \* tasks that send to an address
          Owner,        \* the task that makes a transport and keeps it
          NoTransport   \* no entry, or a lock that nobody has

Tasks == Senders \union {Owner}

VARIABLES registry,  \* registry[a]: the transport that the entry of a refers to
          lock,      \* the task, or the transport being made, that has the lock
          addr,      \* addr[t]: the address of t
          pc,        \* pc[t]: how far the life of t has come
          refs       \* refs[t]: who holds a strong reference to t

vars == <<registry, lock, addr, pc, refs>>

TypeOK ==
  /\ registry \in [Addresses -> Transports \union {NoTransport}]
  /\ lock \in Transports \union Senders \union {NoTransport}
  /\ addr \in [Transports -> Addresses]
  /\ pc \in [Transports -> {"unborn", "new", "made", "dropping", "gone"}]
  /\ refs \in [Transports -> SUBSET Tasks]

(* upgrade() succeeds while somebody holds the transport.                  *)
upgrade(t) == t # NoTransport /\ refs[t] # {}

Init ==
  /\ registry = [a \in Addresses |-> NoTransport]
  /\ lock = NoTransport
  /\ addr \in [Transports -> Addresses]
  /\ pc = [t \in Transports |-> "unborn"]
  /\ refs = [t \in Transports |-> {}]

(* new builds the transport and takes the lock ...                         *)
New(t) ==
  /\ pc[t] = "unborn"
  /\ lock = NoTransport
  /\ lock' = t
  /\ pc' = [pc EXCEPT ![t] = "new"]
  /\ refs' = [refs EXCEPT ![t] = {Owner}]
  /\ UNCHANGED <<registry, addr>>

(* ... and enters it, unless the entry's transport is alive.               *)
Insert(t) ==
  /\ pc[t] = "new"
  /\ ~ upgrade(registry[addr[t]])
  /\ registry' = [registry EXCEPT ![addr[t]] = t]
  /\ lock' = NoTransport
  /\ pc' = [pc EXCEPT ![t] = "made"]
  /\ UNCHANGED <<addr, refs>>

(* Otherwise new returns an error: its locals go in the reverse order of   *)
(* their declaration, the guard of the lock first and then the transport,  *)
(* whose destructor is next.                                               *)
AlreadyRegistered(t) ==
  /\ pc[t] = "new"
  /\ upgrade(registry[addr[t]])
  /\ lock' = NoTransport
  /\ pc' = [pc EXCEPT ![t] = "dropping"]
  /\ refs' = [refs EXCEPT ![t] = {}]
  /\ UNCHANGED <<registry, addr>>

(* A task gives up its reference; with the last one the destructor is due. *)
GiveUp(t, task) ==
  /\ pc[t] = "made"
  /\ task \in refs[t]
  /\ refs' = [refs EXCEPT ![t] = @ \ {task}]
  /\ pc' = [pc EXCEPT ![t] = IF refs'[t] = {} THEN "dropping" ELSE @]
  /\ UNCHANGED <<registry, lock, addr>>

(* The destructor removes the entry of its address, whosever it is, but    *)
(* only if nobody has the lock.                                            *)
Drop(t) ==
  /\ pc[t] = "dropping"
  /\ registry' = IF lock = NoTransport
                 THEN [registry EXCEPT ![addr[t]] = NoTransport]
                 ELSE registry
  /\ pc' = [pc EXCEPT ![t] = "gone"]
  /\ UNCHANGED <<lock, addr, refs>>

(* A sender's lookup takes the lock ...                                    *)
Lookup(s) ==
  /\ lock = NoTransport
  /\ lock' = s
  /\ UNCHANGED <<registry, addr, pc, refs>>

(* ... and comes away with a reference, or without one, taking away the    *)
(* entry of a transport that is no more.                                   *)
LookedUp(s, a) ==
  /\ lock = s
  /\ lock' = NoTransport
  /\ IF upgrade(registry[a])
     THEN /\ refs' = [refs EXCEPT ![registry[a]] = @ \union {s}]
          /\ UNCHANGED registry
     ELSE /\ registry' = [registry EXCEPT ![a] = NoTransport]
          /\ UNCHANGED refs
  /\ UNCHANGED <<addr, pc>>

Next ==
  \/ \E t \in Transports :
       \/ New(t) \/ Insert(t) \/ AlreadyRegistered(t) \/ Drop(t)
       \/ \E task \in Tasks : GiveUp(t, task)
  \/ \E s \in Senders : Lookup(s) \/ \E a \in Addresses : LookedUp(s, a)

Spec == Init /\ [][Next]_vars

(* An address at which a transport is alive is given to no other: the      *)
(* comment on new (mock.rs:64) says that a duplicate address is an error.  *)
(* The code breaks this: the destructor of a refused transport removes the *)
(* entry of the one it was refused for, and the next one is accepted.      *)
DuplicateIsRefused ==
  [][\A t, other \in Transports :
       (Insert(t) /\ other # t /\ addr[other] = addr[t] /\ pc[other] = "made")
         => refs[other] = {}]_vars
=============================================================================
