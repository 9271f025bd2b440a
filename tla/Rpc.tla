-------------------------------- MODULE Rpc ---------------------------------
(***************************************************************************)
(* The calls a node makes to its peers: ping, store, find_node_rpc,        *)
(* find_value_rpc and health_check_ping of src/protocol/operation.rs over  *)
(* each of the three transports: UDP and TCP, which hand their messages to *)
(* a sending task by a channel, and the in-memory one, which calls the     *)
(* peer.  A call and its message identifier (a random u64) are one and the *)
(* same.  The routing table's part of a call is in RoutingTable and        *)
(* RecordContact.                                                          *)
(***************************************************************************)
EXTENDS Naturals, Sequences, FiniteSets

CONSTANTS Calls,
          FindValueCalls,   \* calls of find_value_rpc; the others are adaptive
          CancellableCalls, \* calls under a caller's own timeout (store_value)
          ChannelCapacity,  \* of the mpsc channel: 100 in the code
          MAX_RETRIES       \* attempts of UDP's handle_outgoing: 3 in the code

ASSUME CallSetsAssumption ==
  FindValueCalls \subseteq Calls /\ CancellableCalls \subseteq Calls
ASSUME CapacityAssumption == ChannelCapacity \in Nat \ {0}
ASSUME RetriesAssumption == MAX_RETRIES \in Nat \ {0}

VARIABLES transport,           \* the Network the node was built with
          pc,                  \* where each caller is
          pending_requests,    \* Protocol: requests without an outcome
          pending_responses,   \* transport: calls with a oneshot sender
          delivered,           \* calls whose oneshot holds the response
          channel,             \* the mpsc channel to handle_outgoing
          sending,             \* the message handle_outgoing works on, if any
          attempt,             \* its attempt
          net,                 \* messages under way: each may arrive late, out
                               \* of order or never, and a datagram repeatedly
          served               \* calls the peer has handled

vars == <<transport, pc, pending_requests, pending_responses, delivered, channel, sending,
          attempt, net, served>>

callerVars == <<pc, pending_requests>>
senderVars == <<transport, channel, sending, attempt>>
networkVars == <<net, served>>

Request(c) == [call |-> c, kind |-> "request"]
Response(c) == [call |-> c, kind |-> "response"]

Transports == {"udp", "tcp", "memory"}

Messages == {Request(c) : c \in Calls} \cup {Response(c) : c \in Calls}

Timeouts == {"inner_timeout", "outer_timeout"}
Final == {"ok", "cancelled", "send_error"} \cup Timeouts

Goto(c, label) == pc' = [pc EXCEPT ![c] = label]

Init ==
  /\ transport \in Transports
  /\ pc = [c \in Calls |-> "idle"]
  /\ pending_requests = {} /\ pending_responses = {} /\ delivered = {}
  /\ channel = <<>> /\ sending = {} /\ attempt = 1
  /\ net = {} /\ served = {}

-----------------------------------------------------------------------------
(* The caller.                                                             *)

\* A new identifier is drawn and the request is remembered.
Register(c) ==
  /\ pc[c] = "idle"
  /\ Goto(c, "registered")
  /\ pending_requests' = pending_requests \cup {c}
  /\ UNCHANGED <<pending_responses, delivered, senderVars, networkVars>>

\* A send that does not wait for a place.
SendUnbounded(c) ==
  /\ transport # "memory" /\ pc[c] = "registered"
  /\ channel' = Append(channel, c)
  /\ Goto(c, "sent")
  /\ UNCHANGED <<transport, pending_requests, pending_responses, delivered, sending,
                 attempt, networkVars>>

\* network.send: waits, outside of every timeout of the call, for a place in
\* the channel.
Send(c) ==
  /\ transport # "memory" /\ pc[c] = "registered"
  /\ Len(channel) < ChannelCapacity
  /\ channel' = Append(channel, c)
  /\ Goto(c, "sent")
  /\ UNCHANGED <<transport, pending_requests, pending_responses, delivered, sending,
                 attempt, networkVars>>

\* The in-memory transport finds the peer in its registry and has it spawn its
\* request handler.
SendInMemory(c) ==
  /\ transport = "memory" /\ pc[c] = "registered"
  /\ net' = net \cup {Request(c)}
  /\ Goto(c, "sent")
  /\ UNCHANGED <<pending_requests, pending_responses, delivered, senderVars, served>>

\* Nobody is registered at the address: "?" leaves the call, and its request is
\* not forgotten.
SendRefused(c) ==
  /\ transport = "memory" /\ pc[c] = "registered"
  /\ Goto(c, "send_error")
  /\ UNCHANGED <<pending_requests, pending_responses, delivered, senderVars, networkVars>>

\* wait_response: only now can a response find its caller.
WaitResponse(c) ==
  /\ pc[c] = "sent"
  /\ Goto(c, "waiting")
  /\ pending_responses' = pending_responses \cup {c}
  /\ UNCHANGED <<pending_requests, delivered, senderVars, networkVars>>

\* A success that forgets to remove the request.
AcceptKeepsPending(c) ==
  /\ pc[c] = "waiting"
  /\ c \in delivered
  /\ Goto(c, "ok")
  /\ UNCHANGED <<pending_requests, pending_responses, delivered, senderVars, networkVars>>

\* The response is in the oneshot: it wins over a timer that has fired too.
AcceptResponse(c) ==
  /\ pc[c] = "waiting"
  /\ c \in delivered
  /\ Goto(c, "ok")
  /\ pending_requests' = pending_requests \ {c}
  /\ UNCHANGED <<pending_responses, delivered, senderVars, networkVars>>

\* The timer inside wait_response fires first: its entry is removed, and
\* "result?" leaves the call before the clean-up that follows.  The 30 s of
\* find_value_rpc never fire before the 10 s around them.
InnerTimeout(c) ==
  /\ pc[c] = "waiting" /\ c \notin delivered
  /\ c \notin FindValueCalls
  /\ Goto(c, "inner_timeout")
  /\ pending_responses' = pending_responses \ {c}
  /\ UNCHANGED <<pending_requests, delivered, senderVars, networkVars>>

\* A timer that does not look for the response first.
HastyTimeout(c) ==
  /\ pc[c] = "waiting"
  /\ Goto(c, "outer_timeout")
  /\ pending_requests' = pending_requests \ {c}
  /\ UNCHANGED <<pending_responses, delivered, senderVars, networkVars>>

\* The timer around wait_response fires first and drops it, its entry of
\* pending_responses included.
OuterTimeout(c) ==
  /\ pc[c] = "waiting" /\ c \notin delivered
  /\ Goto(c, "outer_timeout")
  /\ pending_requests' = pending_requests \ {c}
  /\ UNCHANGED <<pending_responses, delivered, senderVars, networkVars>>

\* The timeout of the caller's caller drops the call wherever it waits.
Cancel(c) ==
  /\ c \in CancellableCalls
  /\ pc[c] \in {"registered", "sent", "waiting"}
  /\ Goto(c, "cancelled")
  /\ UNCHANGED <<pending_requests, pending_responses, delivered, senderVars, networkVars>>

-----------------------------------------------------------------------------
(* The transport's tasks.                                                  *)

\* The attempts of handle_outgoing: over TCP a connection that cannot be made,
\* or breaks while the frame is written, is not tried again.
MaxAttempts == IF transport = "udp" THEN MAX_RETRIES ELSE 1

\* Only datagrams are duplicated.
WithoutReceived(m) == IF transport = "udp" THEN net ELSE net \ {m}

\* handle_outgoing takes the next message off the channel.
TakeMessage ==
  /\ sending = {} /\ channel # <<>>
  /\ sending' = {Head(channel)}
  /\ channel' = Tail(channel)
  /\ attempt' = 1
  /\ UNCHANGED <<transport, callerVars, pending_responses, delivered, networkVars>>

SendTo(c) ==
  /\ c \in sending
  /\ net' = net \cup {Request(c)}
  /\ sending' = {}
  /\ UNCHANGED <<transport, callerVars, pending_responses, delivered, channel, attempt,
                 served>>

\* A message whose last attempt failed stays with the task.
SendToNeverGivesUp(c) ==
  /\ c \in sending
  /\ attempt' = (attempt % MaxAttempts) + 1
  /\ UNCHANGED <<transport, callerVars, pending_responses, delivered, channel, sending,
                 networkVars>>

\* The attempt fails: the task sleeps and tries again, or gives the message up.
SendToFails(c) ==
  /\ c \in sending
  /\ IF attempt < MaxAttempts
       THEN attempt' = attempt + 1 /\ sending' = sending
       ELSE attempt' = attempt /\ sending' = {}
  /\ UNCHANGED <<transport, callerVars, pending_responses, delivered, channel, networkVars>>

\* handle_incoming, handle_connection, deliver_response: a response without an
\* entry is dropped, also one that comes between the caller's send and its
\* wait_response; one whose caller is gone takes the entry with it.
Deliver(c) ==
  /\ Response(c) \in net
  /\ pending_responses' = pending_responses \ {c}
  /\ delivered' = IF c \in pending_responses /\ pc[c] = "waiting"
                    THEN delivered \cup {c} ELSE delivered
  /\ net' = WithoutReceived(Response(c))
  /\ UNCHANGED <<callerVars, senderVars, served>>

-----------------------------------------------------------------------------
(* The peer.                                                               *)

\* The peer serves a request and answers; a duplicated datagram is served again.
PeerServes(c) ==
  /\ Request(c) \in net
  /\ served' = served \cup {c}
  /\ net' = WithoutReceived(Request(c)) \cup {Response(c)}
  /\ UNCHANGED <<callerVars, pending_responses, delivered, senderVars>>

Timeout(c) == InnerTimeout(c) \/ OuterTimeout(c)

Caller(c) == \/ Register(c) \/ Send(c) \/ SendInMemory(c) \/ SendRefused(c)
             \/ WaitResponse(c) \/ AcceptResponse(c)
             \/ InnerTimeout(c) \/ OuterTimeout(c) \/ Cancel(c)

Outgoing == TakeMessage \/ \E c \in Calls : SendTo(c) \/ SendToFails(c)

Network == \E c \in Calls : Deliver(c) \/ PeerServes(c)

Next == (\E c \in Calls : Caller(c)) \/ Outgoing \/ Network

\* An attempt to send ends, well or not, except over TCP: connect and write_all
\* wait as long as the peer accepts and does not read.
Attempt ==
  /\ transport # "tcp"
  /\ \E c \in Calls : SendTo(c) \/ SendToFails(c)

\* The executor runs the tasks that can run and fires the timers that are due.
\* Nothing is assumed of the network and the peer, so that a datagram that never
\* arrives is a lost one, and one peer can hold up TCP's only sending task for
\* ever.
Fairness ==
  /\ \A c \in Calls : /\ WF_vars(WaitResponse(c))
                      /\ WF_vars(AcceptResponse(c))
                      /\ WF_vars(Timeout(c))
                      \* the channel hands its places to waiting senders in turn
                      /\ SF_vars(Send(c))
                      /\ WF_vars(SendInMemory(c) \/ SendRefused(c))
  /\ WF_vars(TakeMessage)
  /\ WF_vars(Attempt)

Spec == Init /\ [][Next]_vars /\ Fairness

-----------------------------------------------------------------------------
(* What the calls promise.                                                 *)

TypeOK ==
  /\ transport \in Transports
  /\ pc \in [Calls -> {"idle", "registered", "sent", "waiting"} \cup Final]
  /\ pending_requests \subseteq Calls
  /\ pending_responses \subseteq Calls
  /\ delivered \subseteq Calls
  /\ channel \in Seq(Calls) /\ Len(channel) <= ChannelCapacity
  /\ sending \subseteq Calls /\ Cardinality(sending) <= 1
  /\ attempt \in 1 .. MAX_RETRIES
  /\ net \subseteq Messages
  /\ served \subseteq Calls

\* The call as its caller sees it.
Status(c) ==
  CASE pc[c] = "idle" -> "idle"
    [] pc[c] = "registered" -> "queued"
    [] pc[c] = "ok" -> "ok"
    [] pc[c] \in Final \ {"ok"} -> "failed"
    [] OTHER -> "open"

Abstract == INSTANCE RpcAbstract WITH status <- [c \in Calls |-> Status(c)],
                                      draining <- transport # "tcp"

\* Whatever the network loses, repeats or reorders and whichever timer wins, a
\* call ends once, returns a response only if the peer served its request, and
\* ends for certain once network.send has taken its message.  network.send takes
\* it for certain except over TCP, where no timer of the call has begun and the
\* caller may wait for ever on a sending task that is held up.
CallsImplementAbstract == Abstract!Spec

\* A response that was handed to a waiting caller is returned by the call, even
\* when the timers fire before the caller runs (unless the caller is dropped).
HandedOverIsReturned ==
  \A c \in Calls : c \in delivered ~> pc[c] \in {"ok", "cancelled"}

\* What a finished call may leave behind, whatever late or duplicate responses
\* follow: a request only when an error left the call before its clean-up (the
\* inner timer, an unknown address), a response entry only when the outer timer
\* dropped wait_response, and otherwise only when the call was cancelled.
OnlyErrorsLeaveEntries ==
  \A c \in Calls : pc[c] \in Final \ {"cancelled"} =>
    /\ c \in pending_requests => pc[c] \in {"inner_timeout", "send_error"}
    /\ c \in pending_responses => pc[c] = "outer_timeout"

=============================================================================
