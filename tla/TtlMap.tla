------------------------------- MODULE TtlMap -------------------------------
(***************************************************************************)
(* What a storage with time-to-live promises: get returns the value stored *)
(* last under the key, from the moment it is stored until its time-to-live *)
(* has passed or it is removed, and nothing otherwise.                     *)
(***************************************************************************)
EXTENDS Naturals

CONSTANTS Keys, Values, Ttls, MaxTime

VARIABLES contents,         \* Keys -> a value with its deadline, or Nothing
          now,
          answer            \* the last get's key and outcome, or Nothing

vars == <<contents, now, answer>>

Nothing == <<>>

Init == contents = [k \in Keys |-> Nothing] /\ now = 0 /\ answer = Nothing

Put(k, v, ttl) ==
  /\ contents' = [contents EXCEPT ![k] =
       IF ttl = 0 THEN Nothing ELSE <<v, now + ttl>>]
  /\ answer' = Nothing
  /\ UNCHANGED now

Get(k) ==
  /\ answer' = <<k, IF contents[k] = Nothing THEN Nothing ELSE <<contents[k][1]>> >>
  /\ UNCHANGED <<contents, now>>

Delete(k) ==
  /\ contents' = [contents EXCEPT ![k] = Nothing]
  /\ answer' = Nothing
  /\ UNCHANGED now

Pass ==
  /\ now < MaxTime
  /\ now' = now + 1
  /\ contents' = [k \in Keys |->
       IF contents[k] # Nothing /\ contents[k][2] > now' THEN contents[k] ELSE Nothing]
  /\ answer' = Nothing

Next == \/ \E k \in Keys : \/ \E v \in Values, ttl \in Ttls : Put(k, v, ttl)
                           \/ Get(k) \/ Delete(k)
        \/ Pass

Spec == Init /\ [][Next]_vars

=============================================================================
