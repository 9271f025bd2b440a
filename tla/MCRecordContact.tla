-------------------------- MODULE MCRecordContact ---------------------------
(***************************************************************************)
(* Two handlers and three peers that compete for a bucket with room for    *)
(* two.                                                                    *)
(***************************************************************************)
EXTENDS RecordContact

Bits(b0, b1) == [p \in 0 .. 2 |-> CASE p = 0 -> 1 [] p = 1 -> b0 [] OTHER -> b1]

MCLocal == [p \in 0 .. 2 |-> 0]

MCPeers == {Bits(0, 0), Bits(0, 1), Bits(1, 0)}

=============================================================================
