-------------------------------- MODULE MCRpc --------------------------------
(***************************************************************************)
(* Three calls over a channel with one place, so that one caller waits for *)
(* the channel while a second one's message is in it and a third one's is  *)
(* being sent: a find_value_rpc, a ping, which is adaptive, and a store,   *)
(* which is adaptive and runs under store_value's own timeout.             *)
(***************************************************************************)
EXTENDS Rpc

CONSTANTS find_value, ping, store

MCCalls == {find_value, ping, store}
MCFindValueCalls == {find_value}
MCCancellableCalls == {store}

=============================================================================
