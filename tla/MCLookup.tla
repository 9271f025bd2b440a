------------------------------ MODULE MCLookup ------------------------------
(***************************************************************************)
(* Lookups of every identifier, the nodes' own included, as a node and as  *)
(* a key, in a network of five nodes in a three-bit identifier space.      *)
(***************************************************************************)
EXTENDS FindNode, FindValue

Bits(b0, b1, b2) ==
  [p \in Position |-> CASE p = 0 -> b0 [] p = 1 -> b1 [] OTHER -> b2]

MCLocal == Bits(0, 0, 0)

\* Two of the local node's buckets have two nodes each, so that in each a table
\* may hold only the one that is farther from the target.
MCNodes ==
  {MCLocal, Bits(0, 1, 0), Bits(0, 1, 1), Bits(1, 0, 1), Bits(1, 1, 0)}

MCInit ==
  \/ /\ Init
     /\ visited = {} /\ iteration = 0 /\ all_closest_nodes = <<>>
     /\ holders = {} /\ result = "none"
  \/ /\ ValueInit
     /\ seen = {} /\ looking_for_closest = FALSE

MCNext ==
  \/ operation = "find_node" /\ Next /\ UNCHANGED valueVars
  \/ operation = "find_value" /\ ValueNext /\ UNCHANGED <<seen, looking_for_closest>>

MCVars == <<vars, valueVars>>

\* The lookup's task runs, and every call has an outcome (Rpc).
MCSpec == MCInit /\ [][MCNext]_MCVars /\ WF_MCVars(MCNext)

=============================================================================
