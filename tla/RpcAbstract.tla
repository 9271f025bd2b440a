---------------------------- MODULE RpcAbstract -----------------------------
(***************************************************************************)
(* What a remote procedure call of the protocol promises its caller: it    *)
(* ends once, it ends well only when the peer has served the request, and  *)
(* it ends for certain once the transport has taken its message, which a   *)
(* transport that drains its queue does for certain.  A peer may serve a   *)
(* request whose caller has given up.                                      *)
(***************************************************************************)
CONSTANT Calls

VARIABLES status,           \* Calls -> {"idle", "queued", "open", "ok", "failed"}
          served,           \* the calls the peer has handled
          draining          \* whether the transport drains its queue

vars == <<status, served, draining>>

Init ==
  /\ status = [c \in Calls |-> "idle"]
  /\ served = {}
  /\ draining \in BOOLEAN

Move(c, from, to) ==
  /\ status[c] = from
  /\ status' = [status EXCEPT ![c] = to]
  /\ UNCHANGED <<served, draining>>

Queue(c) == Move(c, "idle", "queued")
Open(c) == Move(c, "queued", "open")
Reject(c) == Move(c, "queued", "failed")
Return(c) == c \in served /\ Move(c, "open", "ok")
Fail(c) == Move(c, "open", "failed")

Serve(c) ==
  /\ status[c] \notin {"idle", "queued"}
  /\ served' = served \cup {c}
  /\ UNCHANGED <<status, draining>>

Next == \E c \in Calls : \/ Queue(c) \/ Open(c) \/ Reject(c)
                        \/ Serve(c) \/ Return(c) \/ Fail(c)

\* The safety part: a call ends once, and well only after it was served.
SafetySpec == Init /\ [][Next]_vars

Spec == /\ SafetySpec
        /\ \A c \in Calls : /\ WF_vars(Return(c) \/ Fail(c))
                            /\ WF_vars(draining /\ (Open(c) \/ Reject(c)))

=============================================================================
