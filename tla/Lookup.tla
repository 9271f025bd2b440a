------------------------------- MODULE Lookup -------------------------------
(***************************************************************************)
(* What the two iterative lookups of src/protocol/operation.rs, find_node  *)
(* and find_value, have in common: the network they ask and the lists of   *)
(* candidates they keep.  The peers answer from routing tables that hold   *)
(* at least "fill" contacts of each bucket with as many nodes, and may     *)
(* change between two answers.  A call to a peer has an outcome here; Rpc  *)
(* is about how it comes by it.                                            *)
(***************************************************************************)
EXTENDS NodeId, SequencesExt

CONSTANTS local_node_id,
          Nodes,            \* the nodes of the network, the local one included
          K,                \* length of an answer and of the candidate list
          ALPHA,            \* nodes asked in a round
          Fills,            \* contacts that tables hold of each bucket, if
                            \* there are as many nodes in it
          MaxTwice          \* bound: contacts that a table lists twice

ASSUME NodesAssumption ==
  Nodes \subseteq NodeIds /\ IsFiniteSet(Nodes) /\ local_node_id \in Nodes
ASSUME ParametersAssumption == K \in Nat \ {0} /\ ALPHA \in Nat \ {0}
ASSUME FillsAssumption == Fills \subseteq 0 .. K
ASSUME TwiceAssumption == MaxTwice \in Nat

VARIABLES operation,        \* "find_node" or "find_value"
          target,           \* the node or the key that is looked for
          fill,
          pc,
          closest_nodes,    \* candidates, closest first
          queried,          \* the nodes asked in this round
          idx,              \* the next of their answers
          failed            \* the nodes that have not answered

lookupVars == <<operation, target, fill, pc, closest_nodes, queried, idx, failed>>

-----------------------------------------------------------------------------
(* Routing tables, seen from outside.                                      *)

Bucket(S, p, i) == {n \in S : bucket_index(p, n) = i}

\* The contacts a node's routing table may hold.  A bucket may list a contact a
\* second time, when one that is listed is promoted from the replacement cache
\* (RoutingTable), but never a third: it goes into the cache once, and only
\* while it is not listed.
Tables(p, least) ==
  {t \in [contacts : SUBSET (Nodes \ {p}), twice : SUBSET (Nodes \ {p})] :
     /\ t.twice \subseteq t.contacts /\ Cardinality(t.twice) <= MaxTwice
     /\ \A i \in Position :
          /\ Cardinality(Bucket(t.contacts, p, i)) + Cardinality(Bucket(t.twice, p, i)) <= K
          /\ \/ Cardinality(Bucket(t.contacts, p, i)) >= least
             \/ Bucket(t.contacts, p, i) = Bucket(Nodes, p, i)}

Listed(t) == SetToSeq(t.contacts) \o SetToSeq(t.twice)

-----------------------------------------------------------------------------
(* Lists of candidates.                                                    *)

Ids(nodes) == {nodes[i] : i \in DOMAIN nodes}

take(nodes, count) == SubSeq(nodes, 1, IF count < Len(nodes) THEN count ELSE Len(nodes))

\* f itself.  The comparison makes TLC tabulate a function once.
Tabulated(f) == CHOOSE g \in {f} : g = f

\* The nodes that are closer to an identifier than a node is.
Nearer ==
  Tabulated([to \in NodeIds |-> [n \in Nodes |-> {m \in Nodes : Closer(to, m, n)}]])

\* The places that sort_by, which is stable, puts first, up to the one of i.
UpTo(nodes, to, i) ==
  {j \in DOMAIN nodes : \/ nodes[j] \in Nearer[to][nodes[i]]
                        \/ nodes[j] = nodes[i] /\ j <= i}

SortByDistance(nodes, to) ==
  [r \in DOMAIN nodes |->
     nodes[CHOOSE i \in DOMAIN nodes : Cardinality(UpTo(nodes, to, i)) = r]]

\* What the list has at some places, in its order.
AtPlaces(nodes, places) ==
  [r \in 1 .. Cardinality(places) |->
     nodes[CHOOSE i \in places : Cardinality({j \in places : j <= i}) = r]]

\* The list without some nodes.
Without(nodes, ids) == AtPlaces(nodes, {i \in DOMAIN nodes : nodes[i] \notin ids})

\* What get_closest(target, K) may return at each node: a contact that is listed
\* twice takes two of the places.
ClosestOf ==
  Tabulated([p \in Nodes |-> [to \in NodeIds |-> [least \in Fills |->
               {take(SortByDistance(nodes, to), K) :
                  nodes \in {Listed(t) : t \in Tables(p, least)}}]]])

LookupInit ==
  /\ target \in NodeIds /\ fill \in Fills
  /\ pc = "start"
  /\ closest_nodes = <<>> /\ queried = <<>> /\ idx = 1 /\ failed = {}

Others == Nodes \ {local_node_id}

IsClosest(n, to) == \A m \in Others : ~Closer(to, m, n)

=============================================================================
