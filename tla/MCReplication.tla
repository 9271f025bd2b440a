--------------------------- MODULE MCReplication ----------------------------
(***************************************************************************)
(* Three nodes that all republish to each other, started at two or three   *)
(* different times of the interval: with three times the value survives a  *)
(* lost message or a crash.                                                *)
(***************************************************************************)
EXTENDS Replication

CONSTANTS n1, n2, n3

MCNodes == {n1, n2, n3}

MCDistance == [n \in MCNodes |-> CASE n = n1 -> 1 [] n = n2 -> 2 [] OTHER -> 3]

MCPhases == {[n \in MCNodes |-> CASE n = n1 -> first [] n = n2 -> 1 [] OTHER -> 2] :
               first \in {0, 1}}

=============================================================================
