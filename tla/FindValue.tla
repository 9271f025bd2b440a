----------------------------- MODULE FindValue ------------------------------
(***************************************************************************)
(* The iterative value lookup, find_value of src/protocol/operation.rs,    *)
(* for one key, and the answers of handle_find_value.  Which nodes hold a  *)
(* value of the key does not change during the lookup, save by the         *)
(* lookup's own caching.                                                   *)
(***************************************************************************)
EXTENDS Lookup

CONSTANTS MAX_ITERATIONS,   \* 10 in the code
          MaxHolders        \* bound: the nodes that hold the value at first

ASSUME IterationsAssumption == MAX_ITERATIONS \in Nat \ {0}
ASSUME HoldersAssumption == MaxHolders \in Nat

VARIABLES visited,
          iteration,            \* iterations done
          all_closest_nodes,    \* the unvisited nodes of this iteration's answers
          holders,              \* the nodes that hold the value
          result                \* "none" until a value is found

valueVars == <<visited, iteration, all_closest_nodes, holders, result>>

ValueInit ==
  /\ operation = "find_value" /\ LookupInit
  /\ holders \in {S \in SUBSET Nodes : Cardinality(S) <= MaxHolders}
  /\ visited = {local_node_id} /\ iteration = 0
  /\ all_closest_nodes = <<>> /\ result = "none"

\* The node holds the value itself.
FindLocally ==
  /\ pc = "start" /\ local_node_id \in holders
  /\ result' = "found"
  /\ pc' = "done"
  /\ UNCHANGED <<operation, target, fill, closest_nodes, visited, queried, idx, iteration,
                 all_closest_nodes, holders, failed>>

\* The first candidates come from the node's own table; without any, the lookup
\* is over.
StartValue ==
  /\ pc = "start" /\ local_node_id \notin holders
  /\ closest_nodes' \in ClosestOf[local_node_id][target][fill]
  /\ pc' = IF closest_nodes' = <<>> THEN "done" ELSE "loop"
  /\ UNCHANGED <<operation, target, fill, visited, queried, idx, iteration, all_closest_nodes,
                 holders, result, failed>>

\* A candidate that was repeated in the list is repeated here.
Unvisited == take(Without(closest_nodes, visited), ALPHA)

\* The closest unvisited candidates are asked at once.
QueryUnvisited ==
  /\ pc = "loop" /\ iteration < MAX_ITERATIONS /\ Unvisited # <<>>
  /\ queried' = Unvisited
  /\ visited' = visited \cup Ids(Unvisited)
  /\ idx' = 1 /\ all_closest_nodes' = <<>>
  /\ pc' = "results"
  /\ UNCHANGED <<operation, target, fill, closest_nodes, iteration, holders, result, failed>>

\* The answers are awaited in the order of the requests.  A value ends the
\* lookup, whatever the later answers are, and is cached.
ResultValue ==
  /\ pc = "results" /\ idx <= Len(queried) /\ queried[idx] \in holders
  /\ holders' = holders \cup {local_node_id}
  /\ result' = "found"
  /\ pc' = "done"
  /\ UNCHANGED <<operation, target, fill, closest_nodes, visited, queried, idx, iteration,
                 all_closest_nodes, failed>>

\* A node without the value answers with the nodes closest to the key.
ResultNodes ==
  /\ pc = "results" /\ idx <= Len(queried) /\ queried[idx] \notin holders
  /\ \E nodes \in ClosestOf[queried[idx]][target][fill] :
       all_closest_nodes' = all_closest_nodes \o Without(nodes, visited)
  /\ idx' = idx + 1
  /\ UNCHANGED <<operation, target, fill, pc, closest_nodes, visited, queried, iteration,
                 holders, result, failed>>

\* A call that fails, and one whose timeout find_value_rpc turns into an empty
\* answer, add nothing.
ResultNothing ==
  /\ pc = "results" /\ idx <= Len(queried)
  /\ failed' = failed \cup {queried[idx]}
  /\ idx' = idx + 1
  /\ UNCHANGED <<operation, target, fill, pc, closest_nodes, visited, queried, iteration,
                 all_closest_nodes, holders, result>>

\* A list that is cut before it is sorted.
ContinueCutsFirst ==
  /\ pc = "results" /\ idx > Len(queried) /\ all_closest_nodes # <<>>
  /\ closest_nodes' = SortByDistance(take(closest_nodes \o all_closest_nodes, K), target)
  /\ iteration' = iteration + 1
  /\ pc' = "loop"
  /\ UNCHANGED <<operation, target, fill, visited, queried, idx, all_closest_nodes, holders,
                 result, failed>>

\* The new nodes join the candidates, and those that were candidates already or
\* came in several answers are there more than once.
Continue ==
  /\ pc = "results" /\ idx > Len(queried) /\ all_closest_nodes # <<>>
  /\ closest_nodes' =
       take(SortByDistance(closest_nodes \o all_closest_nodes, target), K)
  /\ iteration' = iteration + 1
  /\ pc' = "loop"
  /\ UNCHANGED <<operation, target, fill, visited, queried, idx, all_closest_nodes, holders,
                 result, failed>>

\* An iteration without new nodes ends the lookup, though candidates may be
\* unvisited.
NoNewNodes ==
  /\ pc = "results" /\ idx > Len(queried) /\ all_closest_nodes = <<>>
  /\ pc' = "done"
  /\ UNCHANGED <<operation, target, fill, closest_nodes, visited, queried, idx, iteration,
                 all_closest_nodes, holders, result, failed>>

Exhausted ==
  /\ pc = "loop" /\ (iteration = MAX_ITERATIONS \/ Unvisited = <<>>)
  /\ pc' = "done"
  /\ UNCHANGED <<operation, target, fill, closest_nodes, visited, queried, idx, iteration,
                 all_closest_nodes, holders, result, failed>>

ValueNext == \/ FindLocally \/ StartValue \/ QueryUnvisited \/ ResultValue \/ ResultNodes
        \/ ResultNothing \/ Continue \/ NoNewNodes \/ Exhausted

\* The lookup's task runs, and every call has an outcome (Rpc).
ValueSpec ==
  ValueInit /\ [][ValueNext]_<<lookupVars, valueVars>>
            /\ WF_<<lookupVars, valueVars>>(ValueNext)

-----------------------------------------------------------------------------

\* When every node has a contact in each bucket that is not empty, every call is
\* answered and the iterations suffice, a value that the node closest to its key
\* holds is found, although repeated candidates take places in the list and the
\* lookup stops at the first iteration without new nodes.
FindsHeldValue ==
  (/\ operation = "find_value" /\ pc = "done"
   /\ fill > 0 /\ failed = {} /\ iteration < MAX_ITERATIONS
   /\ \E n \in holders \cap Others : IsClosest(n, target))
     => result = "found"

=============================================================================
