------------------------------- MODULE MCJoin -------------------------------
(***************************************************************************)
(* Five nodes that join each other, four of them in a ring.  Each finds    *)
(* two or three of the others in one bucket with room for one, so that     *)
(* their checks can follow each other around the ring, and two of them     *)
(* have three contacts competing for one place.                            *)
(***************************************************************************)
EXTENDS Join

Id(b0, b1, b2) == [p \in 0 .. 2 |-> <<b0, b1, b2>>[p + 1]]

outsider == Id(1, 1, 0)

MCNodes == {Id(0, 0, 0), Id(0, 0, 1), Id(1, 0, 0), Id(1, 0, 1), outsider}

\* 000 -> 100 -> 001 -> 101 -> 000, and 110 -> 000
MCBootstrap == [n \in MCNodes |->
  IF n = outsider THEN Id(0, 0, 0)
  ELSE IF n[0] = 0 THEN Id(1, 0, n[2])
  ELSE Id(0, 0, 1 - n[2])]

=============================================================================
