----------------------------- MODULE RateLimit ------------------------------
(***************************************************************************)
(* The limit on incoming requests of src/network/udp.rs.  A window is      *)
(* opened by the first request of an address and replaced by the first     *)
(* request that comes after its end.                                       *)
(***************************************************************************)
EXTENDS Naturals

CONSTANTS Ips,
          RATE_LIMIT_WINDOW,         \* 60 seconds in the code
          MAX_REQUESTS_PER_WINDOW,   \* 100 in the code
          MaxTime                    \* bound of the clock

ASSUME WindowAssumption == RATE_LIMIT_WINDOW \in Nat
ASSUME LimitAssumption == MAX_REQUESTS_PER_WINDOW \in Nat \ {0}
ASSUME MaxTimeAssumption == MaxTime \in Nat

VARIABLES rate_limit_table,   \* for the addresses heard of, their window
          now,
          admitted,           \* for each address and second, requests let through
          refused             \* the address whose request was just refused

limitVars == <<rate_limit_table, now, admitted, refused>>

-----------------------------------------------------------------------------
(* The check as functions of the table.                                    *)

NoWindows == [ip \in {} |-> [window_start |-> 0, request_count |-> 0]]

\* The window a request falls into: the one found, or a new one.
current_window(table, ip, time) ==
  IF ip \in DOMAIN table /\ time - table[ip].window_start <= RATE_LIMIT_WINDOW
    THEN table[ip]
    ELSE [window_start |-> time, request_count |-> 0]

\* A comparison that lets one request too many through.
allowed_inclusive(table, ip, time) ==
  current_window(table, ip, time).request_count <= MAX_REQUESTS_PER_WINDOW

allowed(table, ip, time) ==
  current_window(table, ip, time).request_count < MAX_REQUESTS_PER_WINDOW

\* A refused request starts the window again.
check_rate_limit_extending(table, ip, time) ==
  LET window == current_window(table, ip, time)
  IN [i \in DOMAIN table \cup {ip} |->
        IF i # ip THEN table[i]
        ELSE IF allowed(table, ip, time) THEN [window EXCEPT !.request_count = @ + 1]
        ELSE [window EXCEPT !.window_start = time]]

\* The table after the check: only a request that is let through is counted.
check_rate_limit(table, ip, time) ==
  LET window == current_window(table, ip, time)
  IN [i \in DOMAIN table \cup {ip} |->
        IF i # ip THEN table[i]
        ELSE IF allowed(table, ip, time) THEN [window EXCEPT !.request_count = @ + 1]
        ELSE window]

-----------------------------------------------------------------------------
(* The state machine.                                                      *)

LimitInit ==
  /\ rate_limit_table = NoWindows
  /\ now = 0
  /\ admitted = [ip \in Ips |-> [t \in 0 .. MaxTime |-> 0]]
  /\ refused = {}

IncomingRequest(ip) ==
  /\ rate_limit_table' = check_rate_limit(rate_limit_table, ip, now)
  /\ IF allowed(rate_limit_table, ip, now)
       THEN admitted' = [admitted EXCEPT ![ip][now] = @ + 1] /\ refused' = {}
       ELSE UNCHANGED admitted /\ refused' = {ip}
  /\ UNCHANGED now

Clock ==
  /\ now < MaxTime
  /\ now' = now + 1
  /\ refused' = {}
  /\ UNCHANGED <<rate_limit_table, admitted>>

LimitNext == (\E ip \in Ips : IncomingRequest(ip)) \/ Clock

LimitSpec == LimitInit /\ [][LimitNext]_limitVars

-----------------------------------------------------------------------------

\* The sum of a function of the seconds.
Total(f) ==
  LET sum[t \in 0 .. MaxTime] == f[t] + (IF t = 0 THEN 0 ELSE sum[t - 1])
  IN sum[MaxTime]

\* The requests of an address that were let through from one second to another.
Count(ip, from, to) ==
  Total([t \in 0 .. MaxTime |-> IF from <= t /\ t <= to THEN admitted[ip][t] ELSE 0])

\* The limit holds for windows, and windows begin where requests put them: in
\* any stretch of time as long as a window an address gets at most twice the
\* limit through, however its requests are spread.
AtMostTwiceTheLimit ==
  \A ip \in Ips : \A t \in 0 .. now :
    Count(ip, t, t + RATE_LIMIT_WINDOW) <= 2 * MAX_REQUESTS_PER_WINDOW

\* A request is refused only when its own address has had as many requests let
\* through as the limit allows, within a window's length up to now: refused
\* requests do not count, other addresses do not matter, and nobody is shut out
\* for longer than a window.
RefusedOnlyAtTheLimit ==
  \A ip \in refused :
    Count(ip, IF now < RATE_LIMIT_WINDOW THEN 0 ELSE now - RATE_LIMIT_WINDOW, now)
      >= MAX_REQUESTS_PER_WINDOW

=============================================================================
