--------------------------- MODULE MCRoutingTable ---------------------------
(***************************************************************************)
(* The routing table of node 000 in a three-bit identifier space.  Four    *)
(* peers share bucket 0, whose capacity of two they exceed, and one peer   *)
(* lives in bucket 1.                                                      *)
(***************************************************************************)
EXTENDS RoutingTable

Bits(b0, b1, b2) ==
  [p \in Position |-> CASE p = 0 -> b0 [] p = 1 -> b1 [] OTHER -> b2]

MCLocal == Bits(0, 0, 0)

MCPeers == {Bits(1, 0, 0), Bits(1, 0, 1), Bits(1, 1, 0), Bits(1, 1, 1), Bits(0, 1, 0)}

\* With the local node among the identifiers: the node hears of itself too.
MCPeersAndSelf == MCPeers \cup {MCLocal}

MCFarPeers == MCPeers \ {Bits(1, 1, 1), Bits(0, 1, 0)}

=============================================================================
