------------------------------ MODULE Contact -------------------------------
(***************************************************************************)
(* A contact as src/node.rs keeps it: the identifier, the time it was last *)
(* seen and its response statistics.  The socket address is determined by  *)
(* the identifier for what is checked here and is left out.  Times are     *)
(* whole seconds, response times whole milliseconds.                       *)
(***************************************************************************)
EXTENDS NodeId

CONSTANT MAX_U32            \* 2^32 - 1 in the code

ASSUME MaxU32Assumption == MAX_U32 \in Nat \ {0}

Never == -1                 \* LastSeen::Never
NoAverage == -1             \* avg_response_time_ms = None
TimeoutCap == 30000         \* adaptive_timeout's ceiling, in milliseconds

ResponseStats ==
  [successes : 0 .. MAX_U32, failures : 0 .. MAX_U32,
   avg_response_time_ms : Nat \cup {NoAverage}]

DefaultStats ==
  [successes |-> 0, failures |-> 0, avg_response_time_ms |-> NoAverage]

Contacts ==
  [id : NodeIds, last_seen : Nat \cup {Never}, response_stats : ResponseStats]

-----------------------------------------------------------------------------
(* ResponseStats                                                           *)

saturating_add_1(n) == IF n < MAX_U32 THEN n + 1 ELSE MAX_U32

\* The u32 sum of success_rate, which wraps around in a release build.
total_responses(stats) == (stats.successes + stats.failures) % (MAX_U32 + 1)

\* is_reliable(num / den): a contact nobody has asked anything is reliable.
is_reliable(stats, num, den) ==
  \/ total_responses(stats) = 0
  \/ stats.successes * den >= num * total_responses(stats)

record_success(stats) ==
  [stats EXCEPT !.successes = saturating_add_1(@)]

record_failure(stats) ==
  [stats EXCEPT !.failures = saturating_add_1(@)]

\* An exponential moving average with weight 0.2 (1/5), truncated to u64.
record_response_time(stats, ms) ==
  LET avg == stats.avg_response_time_ms
  IN [stats EXCEPT !.avg_response_time_ms =
        IF avg = NoAverage THEN ms ELSE (ms + 4 * avg) \div 5]

adaptive_timeout(stats, multiplier, base) ==
  IF stats.avg_response_time_ms = NoAverage
    THEN base
    ELSE LET total == multiplier * stats.avg_response_time_ms + base
         IN IF total < TimeoutCap THEN total ELSE TimeoutCap

-----------------------------------------------------------------------------
(* Node                                                                    *)

NewContact(id) ==
  [id |-> id, last_seen |-> Never, response_stats |-> DefaultStats]

update_last_seen(node, time) == [node EXCEPT !.last_seen = time]

\* A timeout that has passed one second early.
is_active_strict(node, time, timeout) ==
  /\ node.last_seen # Never
  /\ time < node.last_seen \/ time - node.last_seen < timeout

\* A contact from the future (the clock went backwards) counts as active.
is_active(node, time, timeout) ==
  /\ node.last_seen # Never
  /\ time < node.last_seen \/ time - node.last_seen <= timeout

=============================================================================
