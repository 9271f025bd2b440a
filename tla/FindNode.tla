------------------------------ MODULE FindNode ------------------------------
(***************************************************************************)
(* The iterative node lookup, find_node of src/protocol/operation.rs.      *)
(***************************************************************************)
EXTENDS Lookup

VARIABLES seen,
          looking_for_closest

vars == <<lookupVars, seen, looking_for_closest>>

Init ==
  /\ operation = "find_node" /\ LookupInit
  /\ seen = {local_node_id} /\ looking_for_closest = TRUE

\* The first candidates come from the node's own table, as it lists them.
Start ==
  /\ pc = "start"
  /\ closest_nodes' \in ClosestOf[local_node_id][target][fill]
  /\ seen' = seen \cup Ids(closest_nodes')
  /\ pc' = "loop"
  /\ UNCHANGED <<operation, target, fill, queried, idx, looking_for_closest, failed>>

\* A round that passes over the closest candidate.
QueryOthers ==
  /\ pc = "loop"
  /\ looking_for_closest /\ closest_nodes # <<>>
  /\ queried' = take(Tail(closest_nodes), ALPHA)
  /\ idx' = 1 /\ looking_for_closest' = FALSE
  /\ pc' = "results"
  /\ UNCHANGED <<operation, target, fill, closest_nodes, seen, failed>>

\* The ALPHA closest candidates are asked at once, whether or not they have
\* been asked before.
QueryRound ==
  /\ pc = "loop"
  /\ looking_for_closest /\ closest_nodes # <<>>
  /\ queried' = take(closest_nodes, ALPHA)
  /\ idx' = 1 /\ looking_for_closest' = FALSE
  /\ pc' = "results"
  /\ UNCHANGED <<operation, target, fill, closest_nodes, seen, failed>>

\* Candidates that are added whether seen or not.
AddAll(nodes) == take(SortByDistance(closest_nodes \o nodes, target), K)

\* The unseen nodes of an answer.  A node is recorded as seen when it is added,
\* so that only the first of two entries is.
Unseen(nodes) ==
  AtPlaces(nodes, {i \in DOMAIN nodes :
                     nodes[i] \notin seen /\ \A j \in 1 .. i - 1 : nodes[j] # nodes[i]})

\* The unseen ones of the answer join the candidates.
AddUnseen(nodes) == take(SortByDistance(closest_nodes \o Unseen(nodes), target), K)

\* A comparison that is satisfied with no progress.
NotFarther(new, old) == ~Closer(target, old, new)

Improved(new, old) == Closer(target, new, old)

\* join_all waits for every answer; they are handled in the order of the
\* requests, and an answer is drawn when it is handled.  One that has no
\* candidate at its index any more is passed over.
HandleOk ==
  /\ pc = "results" /\ idx <= Len(queried) /\ idx <= Len(closest_nodes)
  /\ \E nodes \in ClosestOf[queried[idx]][target][fill] :
       /\ closest_nodes' = AddUnseen(nodes)
       /\ seen' = seen \cup Ids(nodes)
  /\ looking_for_closest' =
       (looking_for_closest \/ Improved(closest_nodes'[1], closest_nodes[1]))
  /\ idx' = idx + 1
  /\ UNCHANGED <<operation, target, fill, pc, queried, failed>>

\* The candidate at the answer's index is removed, which is the one that failed
\* only as long as no earlier answer has moved the candidates.
HandleErr ==
  /\ pc = "results" /\ idx <= Len(queried) /\ idx <= Len(closest_nodes)
  /\ closest_nodes' = RemoveAt(closest_nodes, idx)
  /\ failed' = failed \cup {queried[idx]}
  /\ idx' = idx + 1
  /\ UNCHANGED <<operation, target, fill, pc, seen, queried, looking_for_closest>>

PassOver ==
  /\ pc = "results" /\ idx <= Len(queried) /\ idx > Len(closest_nodes)
  /\ \/ UNCHANGED failed
     \/ failed' = failed \cup {queried[idx]}
  /\ idx' = idx + 1
  /\ UNCHANGED <<operation, target, fill, pc, closest_nodes, seen, queried, looking_for_closest>>

EndRound ==
  /\ pc = "results" /\ idx > Len(queried)
  /\ pc' = "loop"
  /\ UNCHANGED <<operation, target, fill, closest_nodes, seen, queried, idx, looking_for_closest, failed>>

Finish ==
  /\ pc = "loop"
  /\ ~looking_for_closest \/ closest_nodes = <<>>
  /\ pc' = "done"
  /\ UNCHANGED <<operation, target, fill, closest_nodes, seen, queried, idx, looking_for_closest, failed>>

Next == \/ Start \/ QueryRound \/ HandleOk \/ HandleErr \/ PassOver
        \/ EndRound \/ Finish

\* The lookup's task runs, and every call has an outcome (Rpc).
Spec == Init /\ [][Next]_vars /\ WF_vars(Next)

-----------------------------------------------------------------------------

\* The candidates are in order of their distance, whatever the tables hold and
\* whoever fails.  None is there three times, though the first ones come from a
\* table that may list a contact twice and every peer may name it again; they
\* are at most K, the local node is not among them, and each is recorded as
\* seen, which is what keeps one that leaves from coming back.
CandidatesInOrder == operation = "find_node" =>
  /\ \A i, j \in DOMAIN closest_nodes : i < j =>
       ~Closer(target, closest_nodes[j], closest_nodes[i])
  /\ \A i, j \in DOMAIN closest_nodes : i + 1 < j =>
       closest_nodes[i] # closest_nodes[j]
  /\ Len(closest_nodes) <= K
  /\ Ids(closest_nodes) \subseteq seen \ {local_node_id}

\* Whatever the peers answer and whoever fails, the lookup ends.
LookupEnds == <>(pc = "done")

\* Kademlia's guarantee: when every node has a contact in each bucket that is
\* not empty (fill > 0) and every call is answered, the lookup finds the node
\* closest to its target, wherever it starts.
FindsClosest ==
  (/\ operation = "find_node" /\ pc = "done"
   /\ fill > 0 /\ failed = {} /\ Others # {}) =>
    closest_nodes # <<>> /\ IsClosest(closest_nodes[1], target)

\* The promise of a comment that the code does not keep.

\* "If a node didn't respond, remove it" (operation.rs:419): after a round the
\* nodes that have not answered are no longer candidates.
FailedAreRemoved ==
  operation = "find_node" /\ pc = "loop" => failed \cap Ids(closest_nodes) = {}

=============================================================================
