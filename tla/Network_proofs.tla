--------------------------- MODULE Network_proofs ---------------------------
(***************************************************************************)
(* What the transports do, in two parts.  The remote procedure calls, for  *)
(* every set of calls, every capacity of the channel, every number of      *)
(* attempts and each of the three transports: type correctness, what a     *)
(* finished call leaves behind, and the safety part of the promise that a  *)
(* call makes its caller.  And the limit on incoming requests, for every   *)
(* window length, every limit, every set of addresses and every time.      *)
(***************************************************************************)
EXTENDS Rpc, RateLimit, FiniteSetTheorems, SequenceTheorems, WellFoundedInduction, TLAPS

-----------------------------------------------------------------------------
(* The inductive invariant.                                                *)

Before == {"idle", "registered", "sent"}    \* before wait_response

\* Only wait_response creates an entry for the response, and only a waiting
\* caller is handed one, after which the entry is gone.
EntriesOfWaiting ==
  /\ \A c \in Calls : pc[c] \in Before => c \notin pending_responses /\ c \notin delivered
  /\ delivered \cap pending_responses = {}

\* Responses, under way or handed over, are to requests the peer has served.
ResponsesAreServed ==
  /\ delivered \subseteq served
  /\ \A c \in Calls : Response(c) \in net => c \in served

\* Nothing of a call exists before it is made, and nothing but the request that
\* is remembered before network.send has taken its message.
NothingBeforeTheCall ==
  \A c \in Calls : pc[c] \in {"idle", "registered"} =>
    /\ pc[c] = "idle" => c \notin pending_requests
    /\ c \notin sending /\ c \notin served
    /\ Request(c) \notin net
    /\ \A p \in DOMAIN channel : channel[p] # c

RpcInv ==
  /\ TypeOK
  /\ EntriesOfWaiting
  /\ ResponsesAreServed
  /\ NothingBeforeTheCall
  /\ OnlyErrorsLeaveEntries

(***************************************************************************)
(* Requests and responses are different messages, one per call.            *)
(***************************************************************************)
LEMMA MessagesDiffer ==
  ASSUME NEW c \in Calls, NEW d \in Calls
  PROVE  /\ Request(c) \in Messages /\ Response(c) \in Messages
         /\ Request(c) # Response(d)
         /\ Request(c) = Request(d) => c = d
         /\ Response(c) = Response(d) => c = d
BY DEF Request, Response, Messages

(***************************************************************************)
(* Nothing is pending, sent or served at first.                            *)
(***************************************************************************)
LEMMA RpcInitInv == Init => RpcInv
<1> SUFFICES ASSUME Init PROVE RpcInv
  OBVIOUS
<1>1. TypeOK
  BY CapacityAssumption, RetriesAssumption, FS_EmptySet
     DEF Init, TypeOK
<1>2. EntriesOfWaiting /\ ResponsesAreServed /\ NothingBeforeTheCall
  BY DEF Init, EntriesOfWaiting, ResponsesAreServed, NothingBeforeTheCall
<1>3. OnlyErrorsLeaveEntries
  BY DEF Init, OnlyErrorsLeaveEntries
<1> QED
  BY <1>1, <1>2, <1>3 DEF RpcInv

(***************************************************************************)
(* Every step of a caller, of the transport's tasks, of the network and of *)
(* the peer keeps the types.                                               *)
(***************************************************************************)
LEMMA RpcTypeStep ==
  ASSUME TypeOK, [Next]_vars
  PROVE  TypeOK'
<1> DEFINE Labels == {"idle", "registered", "sent", "waiting"} \cup Final
<1>1. /\ transport \in Transports /\ pc \in [Calls -> Labels]
      /\ pending_requests \subseteq Calls /\ pending_responses \subseteq Calls
      /\ delivered \subseteq Calls
      /\ channel \in Seq(Calls) /\ Len(channel) <= ChannelCapacity
      /\ sending \subseteq Calls /\ Cardinality(sending) <= 1
      /\ attempt \in 1 .. MAX_RETRIES
      /\ net \subseteq Messages /\ served \subseteq Calls
  BY DEF TypeOK
<1>2. \A l \in {"registered", "sent", "waiting", "ok", "cancelled", "send_error",
                "inner_timeout", "outer_timeout"} :
        \A c \in Calls : [pc EXCEPT ![c] = l] \in [Calls -> Labels]
  BY <1>1 DEF Final, Timeouts
<1>3. ASSUME NEW c \in Calls, Caller(c)
      PROVE  TypeOK'
  <2>1. CASE Register(c)
    BY <1>1, <1>2, <2>1 DEF Register, TypeOK, Goto, senderVars, networkVars
  <2>2. CASE Send(c)
    <3>1. channel' \in Seq(Calls) /\ Len(channel') <= ChannelCapacity
      BY <1>1, <2>2, AppendProperties, CapacityAssumption DEF Send
    <3> QED
      BY <1>1, <1>2, <2>2, <3>1 DEF Send, TypeOK, Goto, networkVars
  <2>3. CASE SendInMemory(c)
    BY <1>1, <1>2, <2>3, MessagesDiffer DEF SendInMemory, TypeOK, Goto, senderVars
  <2>4. CASE SendRefused(c)
    BY <1>1, <1>2, <2>4 DEF SendRefused, TypeOK, Goto, senderVars, networkVars
  <2>5. CASE WaitResponse(c)
    BY <1>1, <1>2, <2>5 DEF WaitResponse, TypeOK, Goto, senderVars, networkVars
  <2>6. CASE AcceptResponse(c)
    BY <1>1, <1>2, <2>6 DEF AcceptResponse, TypeOK, Goto, senderVars, networkVars
  <2>7. CASE InnerTimeout(c)
    BY <1>1, <1>2, <2>7 DEF InnerTimeout, TypeOK, Goto, senderVars, networkVars
  <2>8. CASE OuterTimeout(c)
    BY <1>1, <1>2, <2>8 DEF OuterTimeout, TypeOK, Goto, senderVars, networkVars
  <2>9. CASE Cancel(c)
    BY <1>1, <1>2, <2>9 DEF Cancel, TypeOK, Goto, senderVars, networkVars
  <2> QED
    BY <1>3, <2>1, <2>2, <2>3, <2>4, <2>5, <2>6, <2>7, <2>8, <2>9 DEF Caller
<1>4. CASE TakeMessage
  <2>1. /\ Head(channel) \in Calls /\ Tail(channel) \in Seq(Calls)
        /\ Len(Tail(channel)) = Len(channel) - 1
    BY <1>1, <1>4, HeadTailProperties DEF TakeMessage
  <2>2. Cardinality({Head(channel)}) = 1
    BY FS_Singleton
  <2> QED
    BY <1>1, <1>4, <2>1, <2>2, CapacityAssumption, RetriesAssumption
       DEF TakeMessage, TypeOK, callerVars, networkVars
<1>5. ASSUME NEW c \in Calls, SendTo(c)
      PROVE  TypeOK'
  BY <1>1, <1>5, FS_EmptySet, MessagesDiffer DEF SendTo, TypeOK, callerVars
<1>6. ASSUME NEW c \in Calls, SendToFails(c)
      PROVE  TypeOK'
  <2>1. attempt' \in 1 .. MAX_RETRIES
    BY <1>1, <1>6, RetriesAssumption DEF SendToFails, MaxAttempts
  <2>2. sending' \subseteq Calls /\ Cardinality(sending') <= 1
    <3>1. sending' = sending \/ sending' = {}
      BY <1>6 DEF SendToFails
    <3>2. sending' = {} => Cardinality(sending') = 0
      BY FS_EmptySet
    <3> QED
      BY <1>1, <3>1, <3>2
  <2> QED
    BY <1>1, <1>6, <2>1, <2>2 DEF SendToFails, TypeOK, callerVars, networkVars
<1>7. ASSUME NEW c \in Calls, Deliver(c)
      PROVE  TypeOK'
  BY <1>1, <1>7 DEF Deliver, WithoutReceived, TypeOK, callerVars, senderVars
<1>8. ASSUME NEW c \in Calls, PeerServes(c)
      PROVE  TypeOK'
  BY <1>1, <1>8, MessagesDiffer DEF PeerServes, WithoutReceived, TypeOK, callerVars, senderVars
<1>9. CASE UNCHANGED vars
  BY <1>1, <1>9 DEF vars, TypeOK
<1> QED
  BY <1>3, <1>4, <1>5, <1>6, <1>7, <1>8, <1>9 DEF Next, Outgoing, Network

(***************************************************************************)
(* Every step keeps the rest of the invariant.                             *)
(***************************************************************************)
LEMMA RpcStepInv ==
  ASSUME RpcInv, [Next]_vars
  PROVE  RpcInv'
<1> DEFINE Rest == /\ EntriesOfWaiting /\ ResponsesAreServed /\ NothingBeforeTheCall
                   /\ OnlyErrorsLeaveEntries
<1>1. TypeOK /\ TypeOK' /\ pc \in [Calls -> {"idle", "registered", "sent", "waiting"} \cup Final]
  BY RpcTypeStep DEF RpcInv, TypeOK
<1>2. EntriesOfWaiting /\ ResponsesAreServed /\ NothingBeforeTheCall /\ OnlyErrorsLeaveEntries
  BY DEF RpcInv
<1> USE DEF EntriesOfWaiting, ResponsesAreServed, NothingBeforeTheCall,
            OnlyErrorsLeaveEntries, Before, Final, Timeouts
<1>3. ASSUME NEW c \in Calls, Caller(c)
      PROVE  Rest'
  <2>1. CASE Register(c)
    BY <1>1, <1>2, <2>1 DEF Register, Goto, senderVars, networkVars
  <2>2. CASE Send(c)
    <3>1. \A p \in DOMAIN channel' :
            channel'[p] = c \/ (p \in DOMAIN channel /\ channel'[p] = channel[p])
      <4>1. channel \in Seq(Calls) /\ channel' = Append(channel, c)
        BY <1>1, <2>2 DEF Send, TypeOK
      <4>2. /\ Len(channel') = Len(channel) + 1 /\ channel' \in Seq(Calls)
            /\ \A p \in 1 .. Len(channel) : channel'[p] = channel[p]
            /\ channel'[Len(channel) + 1] = c
        BY <4>1, AppendProperties
      <4> QED
        BY <4>1, <4>2
    <3> QED
      BY <1>1, <1>2, <2>2, <3>1 DEF Send, Goto, networkVars
  <2>3. CASE SendInMemory(c)
    BY <1>1, <1>2, <2>3, MessagesDiffer DEF SendInMemory, Goto, senderVars
  <2>4. CASE SendRefused(c)
    BY <1>1, <1>2, <2>4 DEF SendRefused, Goto, senderVars, networkVars
  <2>5. CASE WaitResponse(c)
    BY <1>1, <1>2, <2>5 DEF WaitResponse, Goto, senderVars, networkVars
  <2>6. CASE AcceptResponse(c)
    BY <1>1, <1>2, <2>6 DEF AcceptResponse, Goto, senderVars, networkVars
  <2>7. CASE InnerTimeout(c)
    BY <1>1, <1>2, <2>7 DEF InnerTimeout, Goto, senderVars, networkVars
  <2>8. CASE OuterTimeout(c)
    BY <1>1, <1>2, <2>8 DEF OuterTimeout, Goto, senderVars, networkVars
  <2>9. CASE Cancel(c)
    BY <1>1, <1>2, <2>9 DEF Cancel, Goto, senderVars, networkVars
  <2> QED
    BY <1>3, <2>1, <2>2, <2>3, <2>4, <2>5, <2>6, <2>7, <2>8, <2>9 DEF Caller
<1>4. ASSUME TakeMessage
      PROVE  Rest'
  <2>1. /\ 1 \in DOMAIN channel /\ Head(channel) = channel[1]
        /\ \A p \in DOMAIN Tail(channel) : p + 1 \in DOMAIN channel /\ Tail(channel)[p] = channel[p + 1]
    BY <1>1, <1>4, HeadTailProperties DEF TakeMessage, TypeOK
  <2> QED
    BY <1>1, <1>2, <1>4, <2>1 DEF TakeMessage, callerVars, networkVars
<1>5. ASSUME NEW c \in Calls, SendTo(c)
      PROVE  Rest'
  BY <1>1, <1>2, <1>5, MessagesDiffer DEF SendTo, callerVars
<1>6. ASSUME NEW c \in Calls, SendToFails(c)
      PROVE  Rest'
  BY <1>1, <1>2, <1>6 DEF SendToFails, callerVars, networkVars
<1>7. ASSUME NEW c \in Calls, Deliver(c)
      PROVE  Rest'
  BY <1>1, <1>2, <1>7 DEF Deliver, WithoutReceived, callerVars, senderVars
<1>8. ASSUME NEW c \in Calls, PeerServes(c)
      PROVE  Rest'
  BY <1>1, <1>2, <1>8, MessagesDiffer DEF PeerServes, WithoutReceived, callerVars, senderVars
<1>9. ASSUME UNCHANGED vars
      PROVE  Rest'
  BY <1>2, <1>9 DEF vars
<1> HIDE DEF Rest
<1>10. Rest'
  BY <1>3, <1>4, <1>5, <1>6, <1>7, <1>8, <1>9 DEF Next, Outgoing, Network
<1> QED
  BY <1>1, <1>10 DEF Rest, RpcInv

(***************************************************************************)
(* The specification keeps the inductive invariant.                        *)
(***************************************************************************)
THEOREM RpcInvariant == Spec => []RpcInv
<1>1. RpcInv /\ [Next]_vars => RpcInv'
  BY RpcStepInv
<1> QED
  BY <1>1, RpcInitInv, PTL DEF Spec

(***************************************************************************)
(* Type correctness of the calls.                                          *)
(***************************************************************************)
THEOREM RpcTypeCorrect == Spec => []TypeOK
<1>1. RpcInv => TypeOK
  BY DEF RpcInv
<1> QED
  BY <1>1, RpcInvariant, PTL

(***************************************************************************)
(* A finished call leaves a request behind only after an error that        *)
(* skipped the clean-up, and a response entry only when the outer timer    *)
(* dropped wait_response, whatever the network loses, repeats or reorders. *)
(***************************************************************************)
THEOREM LeftEntriesCorrect == Spec => []OnlyErrorsLeaveEntries
<1>1. RpcInv => OnlyErrorsLeaveEntries
  BY DEF RpcInv
<1> QED
  BY <1>1, RpcInvariant, PTL

-----------------------------------------------------------------------------
(* The calls implement what they promise.                                  *)

StatusOf(label) ==
  CASE label = "idle" -> "idle"
    [] label = "registered" -> "queued"
    [] label = "ok" -> "ok"
    [] label \in Final \ {"ok"} -> "failed"
    [] OTHER -> "open"

(***************************************************************************)
(* The status of each label of a call.                                     *)
(***************************************************************************)
LEMMA StatusOfLabels ==
  /\ StatusOf("idle") = "idle" /\ StatusOf("registered") = "queued" /\ StatusOf("ok") = "ok"
  /\ \A l \in {"sent", "waiting"} : StatusOf(l) = "open"
  /\ \A l \in Final \ {"ok"} : StatusOf(l) = "failed"
BY DEF StatusOf, Final, Timeouts

(***************************************************************************)
(* A step that moves one call moves its status alone.                      *)
(***************************************************************************)
LEMMA GotoMovesStatus ==
  ASSUME NEW c \in Calls, NEW label, pc = [d \in Calls |-> pc[d]], Goto(c, label)
  PROVE  /\ [d \in Calls |-> Status(d)]' = [[d \in Calls |-> Status(d)] EXCEPT ![c] = StatusOf(label)]
         /\ [d \in Calls |-> Status(d)][c] = StatusOf(pc[c])
<1>1. \A d \in Calls : Status(d) = StatusOf(pc[d]) /\ Status(d)' = StatusOf(pc'[d])
  BY DEF Status, StatusOf
<1>2. \A d \in Calls : pc'[d] = IF d = c THEN label ELSE pc[d]
  BY DEF Goto
<1> QED
  BY <1>1, <1>2

(***************************************************************************)
(* Every step of the calls is a step of the promise or invisible to it.    *)
(***************************************************************************)
LEMMA RpcStepSimulation ==
  ASSUME RpcInv, [Next]_vars
  PROVE  [Abstract!Next]_(Abstract!vars)
<1> DEFINE status == [c \in Calls |-> Status(c)]
           Labels == {"idle", "registered", "sent", "waiting"} \cup Final
<1>1. pc \in [Calls -> Labels] /\ pc = [d \in Calls |-> pc[d]]
  BY DEF RpcInv, TypeOK
<1>2. ASSUME pc' = pc
      PROVE  status' = status
  BY <1>2 DEF Status
<1>3. ASSUME NEW c \in Calls, NEW label, Goto(c, label)
      PROVE  /\ status' = [status EXCEPT ![c] = StatusOf(label)]
             /\ status[c] = StatusOf(pc[c])
  BY <1>1, <1>3, GotoMovesStatus
<1>4. \A c \in Calls : status[c] = StatusOf(pc[c])
  BY DEF Status, StatusOf
<1>5. DOMAIN status = Calls
  OBVIOUS
<1>6. ASSUME NEW c \in Calls, NEW label \in {"sent", "waiting"},
             pc[c] \in {"sent", "waiting"}, Goto(c, label)
      PROVE  status' = status
  <2>1. StatusOf(label) = status[c]
    BY <1>4, <1>6, StatusOfLabels
  <2>2. status' = [status EXCEPT ![c] = status[c]]
    BY <1>3, <1>6, <2>1
  <2> HIDE DEF status
  <2>3. ASSUME NEW f, f = [d \in Calls |-> f[d]]
        PROVE  [f EXCEPT ![c] = f[c]] = f
    BY <2>3
  <2> QED
    BY <2>2, <2>3 DEF status
<1>16. transport' = transport
  <2>1. ASSUME NEW c \in Calls, Caller(c)
        PROVE  transport' = transport
    BY <2>1 DEF Caller, Register, Send, SendInMemory, SendRefused, WaitResponse, AcceptResponse,
                InnerTimeout, OuterTimeout, Cancel, senderVars
  <2>2. Outgoing \/ Network \/ UNCHANGED vars => transport' = transport
    BY DEF Outgoing, TakeMessage, SendTo, SendToFails, Network, Deliver, PeerServes, senderVars,
           vars
  <2> QED
    BY <2>1, <2>2 DEF Next
<1> HIDE DEF status
<1>7. ASSUME NEW c \in Calls, NEW label \in Final \ {"ok"}, served' = served,
             pc[c] \in {"registered", "sent", "waiting"}, Goto(c, label)
      PROVE  Abstract!Next
  <2>1. CASE pc[c] = "registered"
    <3>1. Abstract!Reject(c)
      BY <1>3, <1>7, <1>16, <2>1, StatusOfLabels DEF Abstract!Reject, Abstract!Move, status
    <3> QED
      BY <3>1 DEF Abstract!Next
  <2>2. CASE pc[c] \in {"sent", "waiting"}
    <3>1. Abstract!Fail(c)
      BY <1>3, <1>7, <1>16, <2>2, StatusOfLabels DEF Abstract!Fail, Abstract!Move, status
    <3> QED
      BY <3>1 DEF Abstract!Next
  <2> QED
    BY <1>7, <2>1, <2>2
<1>8. ASSUME NEW c \in Calls, Register(c)
      PROVE  Abstract!Queue(c)
  BY <1>3, <1>8, <1>16, StatusOfLabels
     DEF Register, networkVars, Abstract!Queue, Abstract!Move, status
<1>17. ASSUME NEW c \in Calls, pc[c] = "registered", Goto(c, "sent"), served' = served
       PROVE  Abstract!Open(c)
  BY <1>3, <1>16, <1>17, StatusOfLabels DEF Abstract!Open, Abstract!Move, status
<1>9. ASSUME NEW c \in Calls, AcceptResponse(c)
      PROVE  Abstract!Return(c)
  <2>1. c \in served
    BY <1>9 DEF AcceptResponse, RpcInv, ResponsesAreServed
  <2> QED
    BY <1>3, <1>9, <1>16, <2>1, StatusOfLabels
       DEF AcceptResponse, networkVars, Abstract!Return, Abstract!Move, status
<1>10. ASSUME NEW c \in Calls, PeerServes(c)
       PROVE  Abstract!Serve(c)
  <2>1. pc[c] \notin {"idle", "registered"}
    BY <1>10 DEF PeerServes, RpcInv, NothingBeforeTheCall
  <2>2. status[c] \notin {"idle", "queued"}
    <3>1. pc[c] = "ok" \/ pc[c] \in {"sent", "waiting"} \/ pc[c] \in Final \ {"ok"}
      BY <1>1, <2>1
    <3> QED
      BY <1>4, <3>1, StatusOfLabels
  <2>3. status' = status /\ served' = served \cup {c}
    BY <1>2, <1>10 DEF PeerServes, callerVars
  <2> QED
    BY <1>16, <2>2, <2>3 DEF Abstract!Serve, status
<1>11. ASSUME NEW c \in Calls, Caller(c)
       PROVE  [Abstract!Next]_(Abstract!vars)
  <2>1. CASE Register(c)
    BY <1>8, <2>1 DEF Abstract!Next
  <2>2. CASE Send(c)
    <3>1. Abstract!Open(c)
      BY <1>17, <2>2 DEF Send, networkVars
    <3> QED
      BY <3>1 DEF Abstract!Next
  <2>3. CASE SendInMemory(c)
    <3>1. Abstract!Open(c)
      BY <1>17, <2>3 DEF SendInMemory
    <3> QED
      BY <3>1 DEF Abstract!Next
  <2>4. CASE SendRefused(c)
    BY <1>7, <2>4 DEF SendRefused, networkVars, Final, Timeouts
  <2>5. CASE WaitResponse(c)
    BY <1>6, <1>16, <2>5 DEF WaitResponse, networkVars, Abstract!vars, status
  <2>6. CASE AcceptResponse(c)
    BY <1>9, <2>6 DEF Abstract!Next
  <2>7. CASE InnerTimeout(c)
    BY <1>7, <2>7 DEF InnerTimeout, networkVars, Final, Timeouts
  <2>8. CASE OuterTimeout(c)
    BY <1>7, <2>8 DEF OuterTimeout, networkVars, Final, Timeouts
  <2>9. CASE Cancel(c)
    BY <1>7, <2>9 DEF Cancel, networkVars, Final, Timeouts
  <2> QED
    BY <1>11, <2>1, <2>2, <2>3, <2>4, <2>5, <2>6, <2>7, <2>8, <2>9 DEF Caller
<1>12. ASSUME pc' = pc, served' = served
       PROVE  [Abstract!Next]_(Abstract!vars)
  BY <1>2, <1>12, <1>16 DEF Abstract!vars, status
<1>13. CASE Outgoing
  BY <1>12, <1>13 DEF Outgoing, TakeMessage, SendTo, SendToFails, callerVars, networkVars
<1>14. CASE Network
  <2>1. ASSUME NEW c \in Calls, Deliver(c)
        PROVE  [Abstract!Next]_(Abstract!vars)
    BY <1>12, <2>1 DEF Deliver, callerVars
  <2>2. ASSUME NEW c \in Calls, PeerServes(c)
        PROVE  [Abstract!Next]_(Abstract!vars)
    BY <1>10, <2>2 DEF Abstract!Next
  <2> QED
    BY <1>14, <2>1, <2>2 DEF Network
<1>15. CASE UNCHANGED vars
  BY <1>12, <1>15 DEF vars
<1> QED
  BY <1>11, <1>13, <1>14, <1>15 DEF Next

(***************************************************************************)
(* Whatever the network loses, repeats or reorders and whichever timer     *)
(* wins, a call ends at most once, and returns a response only when the    *)
(* peer has served its request: the safety part of CallsImplementAbstract. *)
(***************************************************************************)
THEOREM RpcRefinement == Spec => Abstract!SafetySpec
<1>1. Init => Abstract!Init
  <2> SUFFICES ASSUME Init PROVE Abstract!Init
    OBVIOUS
  <2>1. \A c \in Calls : Status(c) = StatusOf(pc[c]) /\ pc[c] = "idle"
    BY DEF Init, Status, StatusOf
  <2> QED
    BY <2>1, StatusOfLabels DEF Init, Abstract!Init
<1>2. RpcInv /\ [Next]_vars => [Abstract!Next]_(Abstract!vars)
  BY RpcStepSimulation
<1> QED
  BY <1>1, <1>2, RpcInvariant, PTL DEF Spec, Abstract!SafetySpec

-----------------------------------------------------------------------------
(* Induction over the seconds, by sets of naturals.                        *)

(***************************************************************************)
(* A set of naturals with 0 that is closed under successor is all of them. *)
(***************************************************************************)
LEMMA SetInduction ==
  ASSUME NEW S, 0 \in S, \A n \in Nat : n \in S => n + 1 \in S
  PROVE  \A n \in Nat : n \in S
<1> DEFINE Rest == Nat \ S
<1> SUFFICES ASSUME Rest # {} PROVE FALSE
  OBVIOUS
<1>1. Rest \subseteq Nat
  OBVIOUS
<1> HIDE DEF Rest
<1>2. PICK x \in Rest : \A y \in Rest : ~(<<y, x>> \in OpToRel(<, Nat))
  BY <1>1, WFMin, NatLessThanWellFounded
<1>3. \A y \in Rest : <<y, x>> \in Nat \X Nat /\ (y < x => <<y, x>> \in OpToRel(<, Nat))
  BY <1>1 DEF OpToRel
<1>4. \A y \in Rest : ~(y < x)
  BY <1>2, <1>3, Zenon
<1>5. x \in Nat /\ x \notin S /\ x # 0
  BY DEF Rest
<1>6. x - 1 \in Nat /\ x - 1 < x /\ (x - 1) + 1 = x
  BY <1>5
<1>7. x - 1 \notin Rest
  BY <1>4, <1>6
<1> QED
  BY <1>5, <1>6, <1>7 DEF Rest

-----------------------------------------------------------------------------
(* Sums.                                                                   *)

Seconds == 0 .. MaxTime

Counts == [Seconds -> Nat]

\* s[t] is the sum of f up to t.
IsSum(s, f) == s = [t \in Seconds |-> f[t] + (IF t = 0 THEN 0 ELSE s[t - 1])]

(***************************************************************************)
(* The sums exist.                                                         *)
(***************************************************************************)
LEMMA SumExists ==
  ASSUME NEW f \in Counts
  PROVE  \E s : IsSum(s, f)
<1> DEFINE Upto(n, s) == \A t \in 0 .. n : s[t] = f[t] + (IF t = 0 THEN 0 ELSE s[t - 1])
           P == {n \in Nat : n \in Seconds => \E s \in [0 .. n -> Nat] : Upto(n, s)}
<1>1. 0 \in P
  <2> DEFINE s == [t \in 0 .. 0 |-> f[0]]
  <2>1. f[0] \in Nat
    BY MaxTimeAssumption DEF Counts, Seconds
  <2>2. s \in [0 .. 0 -> Nat] /\ Upto(0, s)
    BY <2>1
  <2> QED
    BY <2>2
<1>2. ASSUME NEW n \in Nat, n \in P
      PROVE  n + 1 \in P
  <2> SUFFICES ASSUME n + 1 \in Seconds
               PROVE  \E s \in [0 .. n + 1 -> Nat] : Upto(n + 1, s)
    OBVIOUS
  <2>1. n \in Seconds
    BY MaxTimeAssumption DEF Seconds
  <2>2. PICK r \in [0 .. n -> Nat] : Upto(n, r)
    BY <1>2, <2>1
  <2> DEFINE s == [t \in 0 .. n + 1 |-> IF t = n + 1 THEN f[n + 1] + r[n] ELSE r[t]]
  <2>3. f[n + 1] \in Nat /\ r[n] \in Nat
    BY DEF Counts
  <2>4. s \in [0 .. n + 1 -> Nat]
    BY <2>3
  <2>5. Upto(n + 1, s)
    <3> SUFFICES ASSUME NEW t \in 0 .. n + 1
                 PROVE  s[t] = f[t] + (IF t = 0 THEN 0 ELSE s[t - 1])
      OBVIOUS
    <3>1. CASE t = n + 1
      <4>1. s[t - 1] = r[n] /\ t # 0
        BY <3>1
      <4> QED
        BY <3>1, <4>1
    <3>2. CASE t # n + 1
      <4>1. t \in 0 .. n /\ (t # 0 => t - 1 \in 0 .. n)
        BY <3>2
      <4>2. r[t] = f[t] + (IF t = 0 THEN 0 ELSE r[t - 1])
        BY <2>2, <4>1
      <4>3. s[t] = r[t] /\ (t # 0 => s[t - 1] = r[t - 1])
        BY <3>2, <4>1
      <4> HIDE DEF s
      <4> QED
        BY <4>2, <4>3
    <3> QED
      BY <3>1, <3>2
  <2> QED
    BY <2>4, <2>5
<1> HIDE DEF P
<1>3. MaxTime \in P
  BY <1>1, <1>2, SetInduction, MaxTimeAssumption
<1>4. MaxTime \in Seconds
  BY MaxTimeAssumption DEF Seconds
<1>5. \E s \in [0 .. MaxTime -> Nat] : Upto(MaxTime, s)
  <2> HIDE DEF Upto
  <2> QED BY <1>3, <1>4 DEF P
<1>6. PICK s \in [0 .. MaxTime -> Nat] : Upto(MaxTime, s)
  <2> HIDE DEF Upto
  <2> QED BY <1>5
<1>7. IsSum(s, f)
  BY <1>6 DEF IsSum, Seconds
<1> QED
  BY <1>7

\* The sums of f.
Sums(f) == CHOOSE s : IsSum(s, f)

(***************************************************************************)
(* What Total computes: a running sum of naturals.                         *)
(***************************************************************************)
LEMMA SumProperties ==
  ASSUME NEW f \in Counts
  PROVE  /\ Sums(f) \in Counts
         /\ \A t \in Seconds : Sums(f)[t] = f[t] + (IF t = 0 THEN 0 ELSE Sums(f)[t - 1])
         /\ Total(f) = Sums(f)[MaxTime]
<1> DEFINE s == Sums(f)
<1>1. IsSum(s, f)
  BY SumExists DEF Sums
<1>2. Total(f) = s[MaxTime]
  BY DEF Total, Sums, IsSum, Seconds
<1> HIDE DEF s
<1>3. /\ s = [t \in Seconds |-> s[t]]
      /\ \A t \in Seconds : s[t] = f[t] + (IF t = 0 THEN 0 ELSE s[t - 1])
  BY <1>1 DEF IsSum
<1> DEFINE P == {n \in Nat : n \in Seconds => s[n] \in Nat}
<1>4. 0 \in P
  <2>1. 0 \in Seconds
    BY MaxTimeAssumption DEF Seconds
  <2>2. s[0] = f[0] + 0 /\ f[0] \in Nat
    BY <1>3, <2>1 DEF Counts
  <2> QED
    BY <2>2
<1>5. ASSUME NEW n \in Nat, n \in P
      PROVE  n + 1 \in P
  <2> SUFFICES ASSUME n + 1 \in Seconds
               PROVE  s[n + 1] \in Nat
    OBVIOUS
  <2>1. n \in Seconds /\ (n + 1) - 1 = n /\ n + 1 # 0
    BY MaxTimeAssumption DEF Seconds
  <2>2. s[n + 1] = f[n + 1] + s[n]
    BY <1>3, <2>1
  <2> QED
    BY <1>5, <2>1, <2>2 DEF Counts
<1> HIDE DEF P
<1>6. \A n \in Nat : n \in P
  BY <1>4, <1>5, SetInduction
<1>7. \A n \in Seconds : s[n] \in Nat
  BY <1>6, MaxTimeAssumption DEF P, Seconds
<1> QED
  BY <1>2, <1>3, <1>7 DEF s, Counts

(***************************************************************************)
(* Total is a natural, and the total of a sum is the sum of the totals.    *)
(***************************************************************************)
LEMMA TotalAdds ==
  ASSUME NEW f \in Counts, NEW g \in Counts, NEW h \in Counts,
         \A t \in Seconds : h[t] = f[t] + g[t]
  PROVE  /\ Total(f) \in Nat /\ Total(g) \in Nat /\ Total(h) \in Nat
         /\ Total(h) = Total(f) + Total(g)
<1> DEFINE a == Sums(f)
           b == Sums(g)
           c == Sums(h)
           P == {n \in Nat : n \in Seconds => c[n] = a[n] + b[n]}
<1>1. /\ a \in Counts /\ b \in Counts /\ c \in Counts
      /\ \A t \in Seconds : /\ a[t] = f[t] + (IF t = 0 THEN 0 ELSE a[t - 1])
                            /\ b[t] = g[t] + (IF t = 0 THEN 0 ELSE b[t - 1])
                            /\ c[t] = h[t] + (IF t = 0 THEN 0 ELSE c[t - 1])
      /\ Total(f) = a[MaxTime] /\ Total(g) = b[MaxTime] /\ Total(h) = c[MaxTime]
  BY SumProperties
<1> HIDE DEF a, b, c
<1>2. 0 \in P
  BY <1>1, MaxTimeAssumption DEF Seconds, Counts
<1>3. ASSUME NEW n \in Nat, n \in P
      PROVE  n + 1 \in P
  <2> SUFFICES ASSUME n + 1 \in Seconds
               PROVE  c[n + 1] = a[n + 1] + b[n + 1]
    OBVIOUS
  <2>1. n \in Seconds /\ (n + 1) - 1 = n /\ n + 1 # 0
    BY MaxTimeAssumption DEF Seconds
  <2>2. /\ a[n + 1] = f[n + 1] + a[n] /\ b[n + 1] = g[n + 1] + b[n]
        /\ c[n + 1] = h[n + 1] + c[n] /\ h[n + 1] = f[n + 1] + g[n + 1]
    BY <1>1, <2>1
  <2>3. c[n] = a[n] + b[n]
    BY <1>3, <2>1
  <2>4. /\ a[n] \in Nat /\ b[n] \in Nat /\ f[n + 1] \in Nat /\ g[n + 1] \in Nat
    BY <1>1, <2>1 DEF Counts
  <2> QED
    BY <2>2, <2>3, <2>4
<1> HIDE DEF P
<1>4. \A n \in Nat : n \in P
  BY <1>2, <1>3, SetInduction
<1>5. c[MaxTime] = a[MaxTime] + b[MaxTime]
  BY <1>4, MaxTimeAssumption DEF P, Seconds
<1> QED
  BY <1>1, <1>5, MaxTimeAssumption DEF Counts, Seconds

(***************************************************************************)
(* A larger function has a larger total.                                   *)
(***************************************************************************)
LEMMA TotalIsMonotone ==
  ASSUME NEW f \in Counts, NEW h \in Counts, \A t \in Seconds : f[t] <= h[t]
  PROVE  Total(f) <= Total(h)
<1> DEFINE g == [t \in Seconds |-> h[t] - f[t]]
<1>1. g \in Counts /\ \A t \in Seconds : h[t] = f[t] + g[t]
  BY DEF Counts
<1> HIDE DEF g
<1>2. /\ Total(f) \in Nat /\ Total(g) \in Nat
      /\ Total(h) = Total(f) + Total(g)
  BY <1>1, TotalAdds
<1> QED
  BY <1>2

(***************************************************************************)
(* The totals of nothing and of one request.                               *)
(***************************************************************************)
LEMMA TotalOfOne ==
  ASSUME NEW n \in Nat
  PROVE  Total([t \in Seconds |-> IF t = n THEN 1 ELSE 0]) = IF n \in Seconds THEN 1 ELSE 0
<1> DEFINE f == [t \in Seconds |-> IF t = n THEN 1 ELSE 0]
           s == Sums(f)
           P == {m \in Nat : m \in Seconds => s[m] = IF m < n THEN 0 ELSE 1}
<1>1. f \in Counts
  BY DEF Counts
<1>2. /\ \A t \in Seconds : s[t] = f[t] + (IF t = 0 THEN 0 ELSE s[t - 1])
      /\ Total(f) = s[MaxTime]
  <2> HIDE DEF f
  <2> QED BY <1>1, SumProperties
<1>3. \A t \in Seconds : f[t] = IF t = n THEN 1 ELSE 0
  OBVIOUS
<1> HIDE DEF f, s
<1>4. 0 \in P
  BY <1>2, <1>3, MaxTimeAssumption DEF Seconds
<1>5. ASSUME NEW m \in Nat, m \in P
      PROVE  m + 1 \in P
  <2> SUFFICES ASSUME m + 1 \in Seconds
               PROVE  s[m + 1] = IF m + 1 < n THEN 0 ELSE 1
    OBVIOUS
  <2>1. m \in Seconds /\ (m + 1) - 1 = m /\ m + 1 # 0
    BY MaxTimeAssumption DEF Seconds
  <2>2. s[m + 1] = (IF m + 1 = n THEN 1 ELSE 0) + s[m]
    BY <1>2, <1>3, <2>1
  <2>3. s[m] = IF m < n THEN 0 ELSE 1
    BY <1>5, <2>1
  <2> QED
    BY <2>2, <2>3
<1> HIDE DEF P
<1>6. \A m \in Nat : m \in P
  BY <1>4, <1>5, SetInduction
<1>7. s[MaxTime] = IF MaxTime < n THEN 0 ELSE 1
  BY <1>6, MaxTimeAssumption DEF P, Seconds
<1>8. Total(f) = IF n \in Seconds THEN 1 ELSE 0
  BY <1>2, <1>7, MaxTimeAssumption DEF Seconds
<1> QED
  BY <1>8 DEF f

-----------------------------------------------------------------------------
(* What was let through in a stretch of time.                              *)

\* Count, for what an address was let through at each second.
Part(a, from, to) == [t \in Seconds |-> IF from <= t /\ t <= to THEN a[t] ELSE 0]
Got(a, from, to) == Total(Part(a, from, to))

(***************************************************************************)
(* Count is Got, before and after a step.                                  *)
(***************************************************************************)
LEMMA CountIsGot ==
  \A ip, from, to : Count(ip, from, to) = Got(admitted[ip], from, to)
BY DEF Count, Got, Part, Seconds

(***************************************************************************)
(* Got is a natural.                                                       *)
(***************************************************************************)
LEMMA GotIsNat ==
  ASSUME NEW a \in Counts, NEW from \in Int, NEW to \in Int
  PROVE  Part(a, from, to) \in Counts /\ Got(a, from, to) \in Nat
<1>1. Part(a, from, to) \in Counts
  BY DEF Part, Counts
<1> DEFINE z == [t \in Seconds |-> 0]
           f == Part(a, from, to)
<1>2. z \in Counts /\ \A t \in Seconds : f[t] = f[t] + z[t]
  BY <1>1 DEF Counts
<1> HIDE DEF z, f
<1>3. f \in Counts
  BY <1>1 DEF f
<1>4. Total(f) \in Nat
  BY <1>2, <1>3, TotalAdds
<1> QED
  BY <1>1, <1>4 DEF f, Got

(***************************************************************************)
(* A stretch that has every request of another one has at least as many.   *)
(***************************************************************************)
LEMMA GotIsMonotone ==
  ASSUME NEW a \in Counts, NEW b \in Counts,
         NEW from \in Int, NEW to \in Int, NEW from2 \in Int, NEW to2 \in Int,
         \A t \in Seconds : from <= t /\ t <= to /\ a[t] # 0
                              => from2 <= t /\ t <= to2 /\ a[t] <= b[t]
  PROVE  Got(a, from, to) <= Got(b, from2, to2)
<1> DEFINE f == Part(a, from, to)
           h == Part(b, from2, to2)
<1>1. f \in Counts /\ h \in Counts
  BY GotIsNat
<1>2. ASSUME NEW t \in Seconds PROVE f[t] <= h[t]
  <2>1. a[t] \in Nat /\ b[t] \in Nat
    BY DEF Counts
  <2>2. t \in Int
    BY DEF Seconds
  <2>3. f[t] = (IF from <= t /\ t <= to THEN a[t] ELSE 0)
    BY DEF Part
  <2>4. h[t] = (IF from2 <= t /\ t <= to2 THEN b[t] ELSE 0)
    BY DEF Part
  <2> HIDE DEF f, h
  <2> QED
    BY <2>1, <2>2, <2>3, <2>4
<1> HIDE DEF f, h
<1>3. Total(f) <= Total(h)
  BY <1>1, <1>2, TotalIsMonotone
<1> QED
  BY <1>3 DEF f, h, Got

(***************************************************************************)
(* Nothing let through in a stretch counts as none.                        *)
(***************************************************************************)
LEMMA GotNothing ==
  ASSUME NEW a \in Counts, NEW from \in Int, NEW to \in Int,
         \A t \in Seconds : from <= t /\ t <= to => a[t] = 0
  PROVE  Got(a, from, to) = 0
<1> DEFINE f == Part(a, from, to)
<1>1. f \in Counts /\ Got(a, from, to) \in Nat
  BY GotIsNat
<1>2. \A t \in Seconds : f[t] = f[t] + f[t]
  <2>1. \A t \in Seconds : f[t] = 0
    BY DEF Part
  <2> HIDE DEF f
  <2> QED BY <2>1
<1> HIDE DEF f
<1>3. Total(f) \in Nat /\ Total(f) = Total(f) + Total(f)
  BY <1>1, <1>2, TotalAdds
<1>4. \A n \in Nat : n = n + n => n = 0
  OBVIOUS
<1>5. Total(f) = 0
  BY <1>3, <1>4, Zenon
<1> QED
  BY <1>5 DEF f, Got

(***************************************************************************)
(* A stretch of time is no more than the part of it before a second and    *)
(* the part from there on.                                                 *)
(***************************************************************************)
LEMMA GotSplits ==
  ASSUME NEW a \in Counts, NEW from \in Int, NEW to \in Int, NEW m \in Int
  PROVE  Got(a, from, to) <= Got(a, from, m - 1) + Got(a, m, to)
<1> DEFINE f == Part(a, from, m - 1)
           g == Part(a, m, to)
           k == Part(a, from, to)
           h == [t \in Seconds |-> f[t] + g[t]]
<1>1. f \in Counts /\ g \in Counts /\ k \in Counts
  BY GotIsNat
<1>2. h \in Counts /\ \A t \in Seconds : h[t] = f[t] + g[t]
  BY <1>1 DEF Counts
<1>3. ASSUME NEW t \in Seconds PROVE k[t] <= h[t]
  <2>1. a[t] \in Nat /\ t \in Int
    BY DEF Counts, Seconds
  <2>2. /\ f[t] = (IF from <= t /\ t <= m - 1 THEN a[t] ELSE 0)
        /\ g[t] = (IF m <= t /\ t <= to THEN a[t] ELSE 0)
        /\ k[t] = (IF from <= t /\ t <= to THEN a[t] ELSE 0)
    BY DEF Part
  <2>3. h[t] = f[t] + g[t]
    BY <1>2
  <2> HIDE DEF f, g, k, h
  <2> QED
    BY <2>1, <2>2, <2>3
<1> HIDE DEF f, g, k, h
<1>4. Total(h) = Total(f) + Total(g)
  BY <1>1, <1>2, TotalAdds
<1>5. Total(k) <= Total(h)
  BY <1>1, <1>2, <1>3, TotalIsMonotone
<1>6. Total(k) <= Total(f) + Total(g)
  BY <1>4, <1>5
<1> QED
  BY <1>6 DEF Got, f, g, k

(***************************************************************************)
(* One more request let through at a second of the stretch is one more.    *)
(***************************************************************************)
LEMMA GotOneMore ==
  ASSUME NEW a \in Counts, NEW n \in Seconds, NEW from \in Int, NEW to \in Int,
         from <= n, n <= to
  PROVE  /\ [a EXCEPT ![n] = @ + 1] \in Counts
         /\ Got([a EXCEPT ![n] = @ + 1], from, to) = Got(a, from, to) + 1
<1> DEFINE b == [a EXCEPT ![n] = @ + 1]
           f == Part(a, from, to)
           g == [t \in Seconds |-> IF t = n THEN 1 ELSE 0]
           h == Part(b, from, to)
<1>1. /\ b \in Counts
      /\ \A t \in Seconds : b[t] = IF t = n THEN a[n] + 1 ELSE a[t]
  BY DEF Counts
<1> HIDE DEF b
<1>2. f \in Counts /\ h \in Counts
  BY <1>1, GotIsNat
<1>3. g \in Counts
  BY DEF Counts
<1>4. ASSUME NEW t \in Seconds PROVE h[t] = f[t] + g[t]
  <2>1. a[t] \in Nat /\ t \in Int
    BY DEF Counts, Seconds
  <2>2. /\ f[t] = (IF from <= t /\ t <= to THEN a[t] ELSE 0)
        /\ h[t] = (IF from <= t /\ t <= to THEN b[t] ELSE 0)
    BY DEF Part
  <2>3. g[t] = (IF t = n THEN 1 ELSE 0)
    OBVIOUS
  <2>4. b[t] = (IF t = n THEN a[t] + 1 ELSE a[t])
    BY <1>1
  <2> HIDE DEF f, g, h
  <2> QED
    BY <2>1, <2>2, <2>3, <2>4
<1>5. Total(g) = 1
  <2>1. n \in Nat
    BY MaxTimeAssumption DEF Seconds
  <2> QED BY <2>1, TotalOfOne
<1> HIDE DEF f, g, h
<1>6. Total(h) = Total(f) + Total(g)
  BY <1>2, <1>3, <1>4, TotalAdds
<1>7. Total(h) = Total(f) + 1
  BY <1>5, <1>6
<1> QED
  BY <1>1, <1>7 DEF Got, b, f, h

-----------------------------------------------------------------------------
(* The inductive invariant.                                                *)

\* What holds of an address with a window w, when a[t] of its requests were let
\* through at second t: the window has counted every request since its start,
\* none came after its end or in the future, and in the length of a window
\* before its start no more than the limit was let through.
Counted(a, w, time) ==
  /\ w \in [window_start : Nat, request_count : Nat]
  /\ w.window_start <= time
  /\ w.request_count <= MAX_REQUESTS_PER_WINDOW
  /\ \A t \in Seconds : t > time \/ t > w.window_start + RATE_LIMIT_WINDOW => a[t] = 0
  /\ Got(a, w.window_start, MaxTime) = w.request_count
  /\ \A t \in Nat : t + RATE_LIMIT_WINDOW >= w.window_start
                      => Got(a, t, w.window_start - 1) <= MAX_REQUESTS_PER_WINDOW

\* In every stretch as long as a window at most twice the limit.
AtMostTwice(a) ==
  \A t \in Nat : Got(a, t, t + RATE_LIMIT_WINDOW) <= 2 * MAX_REQUESTS_PER_WINDOW

\* The address just refused has used up a window that is still open.
Full(w, time) ==
  w.request_count >= MAX_REQUESTS_PER_WINDOW /\ time - w.window_start <= RATE_LIMIT_WINDOW

RateInv ==
  /\ now \in Seconds
  /\ admitted \in [Ips -> Counts]
  /\ DOMAIN rate_limit_table \subseteq Ips
  /\ refused \subseteq DOMAIN rate_limit_table
  /\ \A ip \in DOMAIN rate_limit_table : Counted(admitted[ip], rate_limit_table[ip], now)
  /\ \A ip \in Ips \ DOMAIN rate_limit_table : \A t \in Seconds : admitted[ip][t] = 0
  /\ \A ip \in Ips : AtMostTwice(admitted[ip])
  /\ \A ip \in refused : Full(rate_limit_table[ip], now)

(***************************************************************************)
(* The clock leaves a window as it is.                                     *)
(***************************************************************************)
LEMMA CountedLater ==
  ASSUME NEW a \in Counts, NEW w, NEW time \in Nat, Counted(a, w, time)
  PROVE  Counted(a, w, time + 1)
BY WindowAssumption DEF Counted, Seconds

(***************************************************************************)
(* The window that a request finds, before it is counted: a window that is *)
(* opened at the end of another one begins after every request of that     *)
(* one, and less than the limit of them are within its length.             *)
(***************************************************************************)
LEMMA WindowFound ==
  ASSUME NEW table, NEW ip, NEW a \in Counts, NEW time \in Seconds,
         ip \in DOMAIN table => Counted(a, table[ip], time),
         ip \notin DOMAIN table => \A t \in Seconds : a[t] = 0
  PROVE  /\ Counted(a, current_window(table, ip, time), time)
         /\ time - current_window(table, ip, time).window_start <= RATE_LIMIT_WINDOW
<1> DEFINE fresh == [window_start |-> time, request_count |-> 0]
<1>0. time \in Nat /\ time \in Int /\ time - 1 \in Int /\ MaxTime \in Int
  BY MaxTimeAssumption DEF Seconds
<1>1. CASE ip \in DOMAIN table /\ time - table[ip].window_start <= RATE_LIMIT_WINDOW
  <2>1. current_window(table, ip, time) = table[ip]
    BY <1>1 DEF current_window
  <2> QED
    BY <1>1, <2>1
<1>2. CASE ~(ip \in DOMAIN table /\ time - table[ip].window_start <= RATE_LIMIT_WINDOW)
  <2>1. current_window(table, ip, time) = fresh
    BY <1>2 DEF current_window
  <2>2. \A t \in Seconds : t >= time => a[t] = 0
    BY <1>0, <1>2, WindowAssumption DEF Counted, Seconds
  <2>3. Got(a, time, MaxTime) = 0
    <3>1. \A t \in Seconds : time <= t /\ t <= MaxTime => a[t] = 0
      BY <1>0, <2>2 DEF Seconds
    <3> QED
      BY <1>0, <3>1, GotNothing
  <2>4. ASSUME NEW t \in Nat, t + RATE_LIMIT_WINDOW >= time
        PROVE  Got(a, t, time - 1) <= MAX_REQUESTS_PER_WINDOW
    <3>1. t \in Int
      OBVIOUS
    <3>2. CASE ip \notin DOMAIN table
      <4>1. Got(a, t, time - 1) = 0
        BY <1>0, <3>1, <3>2, GotNothing
      <4> QED
        BY <4>1, LimitAssumption
    <3>3. CASE ip \in DOMAIN table
      <4> DEFINE w == table[ip]
      <4>1. Counted(a, w, time) /\ ~(time - w.window_start <= RATE_LIMIT_WINDOW)
        BY <1>2, <3>3
      <4> HIDE DEF w
      <4>2. /\ w.window_start \in Nat /\ w.request_count \in Nat
            /\ w.request_count <= MAX_REQUESTS_PER_WINDOW
            /\ Got(a, w.window_start, MaxTime) = w.request_count
        BY <4>1 DEF Counted
      <4>3. w.window_start <= t
        BY <1>0, <2>4, <4>1, <4>2, WindowAssumption
      <4>4. \A u \in Seconds : t <= u /\ u <= time - 1 /\ a[u] # 0
                                => w.window_start <= u /\ u <= MaxTime /\ a[u] <= a[u]
        BY <4>2, <4>3, MaxTimeAssumption DEF Seconds, Counts
      <4>5. Got(a, t, time - 1) <= Got(a, w.window_start, MaxTime)
        BY <1>0, <3>1, <4>2, <4>4, GotIsMonotone
      <4>6. Got(a, t, time - 1) \in Nat
        BY <1>0, <3>1, GotIsNat
      <4> QED
        BY <4>2, <4>5, <4>6, LimitAssumption
    <3> QED
      BY <3>2, <3>3
  <2>5. /\ fresh.window_start = time /\ fresh.request_count = 0
        /\ fresh \in [window_start : Nat, request_count : Nat]
    BY <1>0
  <2> HIDE DEF fresh
  <2>6. Counted(a, fresh, time)
    BY <1>0, <2>2, <2>3, <2>4, <2>5, WindowAssumption, LimitAssumption DEF Counted, Seconds
  <2> QED
    BY <1>0, <2>1, <2>5, <2>6, WindowAssumption
<1> QED
  BY <1>1, <1>2

(***************************************************************************)
(* A request that is let through is counted in its window.                 *)
(***************************************************************************)
LEMMA CountedOneMore ==
  ASSUME NEW a \in Counts, NEW w, NEW time \in Seconds, Counted(a, w, time),
         time - w.window_start <= RATE_LIMIT_WINDOW,
         w.request_count < MAX_REQUESTS_PER_WINDOW
  PROVE  Counted([a EXCEPT ![time] = @ + 1], [w EXCEPT !.request_count = @ + 1], time)
<1> DEFINE b == [a EXCEPT ![time] = @ + 1]
           v == [w EXCEPT !.request_count = @ + 1]
           start == w.window_start
<1>1. /\ w \in [window_start : Nat, request_count : Nat]
      /\ w.window_start \in Nat /\ w.request_count \in Nat /\ w.window_start <= time
      /\ Got(a, w.window_start, MaxTime) = w.request_count
  BY DEF Counted
<1>2. time \in Nat /\ time <= MaxTime /\ MaxTime \in Int /\ start \in Int
  BY <1>1, MaxTimeAssumption DEF Seconds
<1>3. b \in Counts /\ Got(b, start, MaxTime) = Got(a, start, MaxTime) + 1
  BY <1>1, <1>2, GotOneMore
<1>4. \A t \in Seconds : t # time => b[t] = a[t]
  BY DEF Counts
<1>5. /\ v \in [window_start : Nat, request_count : Nat]
      /\ v.window_start = start /\ v.request_count = w.request_count + 1
  BY <1>1
<1> HIDE DEF b, v
<1>6. ASSUME NEW t \in Nat, t + RATE_LIMIT_WINDOW >= start
      PROVE  Got(b, t, start - 1) <= MAX_REQUESTS_PER_WINDOW
  <2>1. t \in Int /\ start - 1 \in Int
    BY <1>2
  <2>2. \A u \in Seconds : t <= u /\ u <= start - 1 /\ b[u] # 0
                            => t <= u /\ u <= start - 1 /\ b[u] <= a[u]
    BY <1>1, <1>2, <1>4 DEF Seconds, Counts
  <2>3. Got(b, t, start - 1) <= Got(a, t, start - 1)
    BY <1>3, <2>1, <2>2, GotIsMonotone
  <2>4. Got(a, t, start - 1) <= MAX_REQUESTS_PER_WINDOW
    BY <1>6 DEF Counted
  <2>5. Got(a, t, start - 1) \in Nat /\ Got(b, t, start - 1) \in Nat
    BY <1>3, <2>1, GotIsNat
  <2> QED
    BY <2>3, <2>4, <2>5, LimitAssumption
<1>7. \A t \in Seconds : t > time \/ t > start + RATE_LIMIT_WINDOW => b[t] = 0
  BY <1>1, <1>2, <1>4, WindowAssumption DEF Counted, Seconds
<1>8. Counted(b, v, time)
  BY <1>1, <1>2, <1>3, <1>5, <1>6, <1>7, LimitAssumption DEF Counted
<1> QED
  BY <1>8 DEF b, v

(***************************************************************************)
(* A stretch that reaches the current second is within one window's length *)
(* before the current window and this window; an earlier one is as it was. *)
(***************************************************************************)
LEMMA TwiceStays ==
  ASSUME NEW a \in Counts, NEW w, NEW time \in Seconds,
         Counted([a EXCEPT ![time] = @ + 1], w, time), AtMostTwice(a)
  PROVE  AtMostTwice([a EXCEPT ![time] = @ + 1])
<1> DEFINE b == [a EXCEPT ![time] = @ + 1]
           start == w.window_start
<1>1. b \in Counts /\ \A t \in Seconds : t # time => b[t] = a[t]
  BY DEF Counts
<1>2. Counted(b, w, time)
  OBVIOUS
<1> HIDE DEF b
<1>3. /\ start \in Nat /\ start <= time /\ w.request_count \in Nat
      /\ w.request_count <= MAX_REQUESTS_PER_WINDOW
      /\ Got(b, start, MaxTime) = w.request_count
  BY <1>2 DEF Counted
<1>4. time \in Nat /\ MaxTime \in Int /\ start \in Int /\ start - 1 \in Int
  BY <1>3, MaxTimeAssumption DEF Seconds
<1>5. ASSUME NEW t \in Nat
      PROVE  Got(b, t, t + RATE_LIMIT_WINDOW) <= 2 * MAX_REQUESTS_PER_WINDOW
  <2> DEFINE to == t + RATE_LIMIT_WINDOW
  <2>1. t \in Int /\ to \in Int
    BY WindowAssumption
  <2>2. Got(a, t, to) \in Nat /\ Got(b, t, to) \in Nat
    BY <1>1, <2>1, GotIsNat
  <2>3. CASE to < time
    <3>1. \A u \in Seconds : t <= u /\ u <= to /\ b[u] # 0
                              => t <= u /\ u <= to /\ b[u] <= a[u]
      <4> HIDE DEF to
      <4>1. \A u \in Seconds : u <= to => u # time
        BY <1>4, <2>1, <2>3 DEF Seconds
      <4>2. \A u \in Seconds : a[u] \in Nat
        BY DEF Counts
      <4> QED
        BY <1>1, <4>1, <4>2
    <3>2. Got(b, t, to) <= Got(a, t, to)
      BY <1>1, <2>1, <3>1, GotIsMonotone
    <3>3. Got(a, t, to) <= 2 * MAX_REQUESTS_PER_WINDOW
      BY DEF AtMostTwice
    <3> HIDE DEF to
    <3>4. Got(b, t, to) <= 2 * MAX_REQUESTS_PER_WINDOW
      BY <2>2, <3>2, <3>3, LimitAssumption
    <3> QED
      BY <3>4 DEF to
  <2>4. CASE to >= time
    <3>1. Got(b, t, start - 1) <= MAX_REQUESTS_PER_WINDOW
      BY <1>2, <1>3, <1>4, <2>1, <2>4 DEF Counted
    <3>2. \A u \in Seconds : start <= u /\ u <= to /\ b[u] # 0
                              => start <= u /\ u <= MaxTime /\ b[u] <= b[u]
      BY <1>1, MaxTimeAssumption DEF Seconds, Counts
    <3> HIDE DEF to
    <3>3. Got(b, start, to) <= Got(b, start, MaxTime)
      BY <1>1, <1>4, <2>1, <3>2, GotIsMonotone
    <3>4. Got(b, t, to) <= Got(b, t, start - 1) + Got(b, start, to)
      BY <1>1, <1>4, <2>1, GotSplits
    <3>5. Got(b, t, start - 1) \in Nat /\ Got(b, start, to) \in Nat
      BY <1>1, <1>4, <2>1, GotIsNat
    <3>6. Got(b, t, to) <= 2 * MAX_REQUESTS_PER_WINDOW
      BY <1>3, <2>2, <3>1, <3>3, <3>4, <3>5, LimitAssumption
    <3> QED
      BY <3>6 DEF to
  <2> QED
    BY <1>4, <2>1, <2>3, <2>4
<1>6. AtMostTwice(b)
  BY <1>5 DEF AtMostTwice
<1> QED
  BY <1>6 DEF b

-----------------------------------------------------------------------------
(* The theorems.                                                           *)

(***************************************************************************)
(* The first state: no windows, and nothing let through.                   *)
(***************************************************************************)
LEMMA RateInvInit == LimitInit => RateInv
<1> SUFFICES ASSUME LimitInit PROVE RateInv
  OBVIOUS
<1>1. now \in Seconds
  BY MaxTimeAssumption DEF LimitInit, Seconds
<1>2. /\ admitted \in [Ips -> Counts]
      /\ \A ip \in Ips : \A t \in Seconds : admitted[ip][t] = 0
  BY DEF LimitInit, Seconds, Counts
<1>3. DOMAIN rate_limit_table = {} /\ refused = {}
  BY DEF LimitInit, NoWindows
<1>4. ASSUME NEW ip \in Ips PROVE AtMostTwice(admitted[ip])
  <2> DEFINE a == admitted[ip]
  <2>1. a \in Counts /\ \A t \in Seconds : a[t] = 0
    BY <1>2
  <2> HIDE DEF a
  <2>2. ASSUME NEW t \in Nat
        PROVE  Got(a, t, t + RATE_LIMIT_WINDOW) <= 2 * MAX_REQUESTS_PER_WINDOW
    <3>1. t \in Int /\ t + RATE_LIMIT_WINDOW \in Int
      BY WindowAssumption
    <3>2. Got(a, t, t + RATE_LIMIT_WINDOW) = 0
      BY <2>1, <3>1, GotNothing
    <3> QED
      BY <3>2, LimitAssumption
  <2> QED
    BY <2>2 DEF AtMostTwice, a
<1> QED
  BY <1>1, <1>2, <1>3, <1>4 DEF RateInv

(***************************************************************************)
(* A request: its window is found or opened, and it is counted or refused. *)
(***************************************************************************)
LEMMA RequestKeepsRateInv ==
  ASSUME RateInv, NEW ip \in Ips, IncomingRequest(ip)
  PROVE  RateInv'
<1> DEFINE table == rate_limit_table
           a == admitted[ip]
           w == current_window(table, ip, now)
<1>0. /\ now \in Seconds /\ now' = now
      /\ admitted \in [Ips -> Counts] /\ a \in Counts
      /\ table' = check_rate_limit(table, ip, now)
  BY DEF RateInv, IncomingRequest
<1>1. /\ Counted(a, w, now)
      /\ now - w.window_start <= RATE_LIMIT_WINDOW
  BY <1>0, WindowFound DEF RateInv
<1>2. /\ DOMAIN table' = DOMAIN table \cup {ip}
      /\ \A i \in DOMAIN table : i # ip => table'[i] = table[i]
  BY <1>0 DEF check_rate_limit
<1>3. \A i \in DOMAIN table : Counted(admitted[i], table[i], now)
  BY DEF RateInv
<1>4. CASE allowed(table, ip, now)
  <2>1. /\ admitted' = [admitted EXCEPT ![ip] = [a EXCEPT ![now] = @ + 1]]
        /\ refused' = {}
    BY <1>0, <1>4 DEF IncomingRequest
  <2>2. table'[ip] = [w EXCEPT !.request_count = @ + 1]
    BY <1>0, <1>4 DEF check_rate_limit
  <2>3. w.request_count < MAX_REQUESTS_PER_WINDOW
    BY <1>4 DEF allowed
  <2> HIDE DEF w, a, table
  <2> DEFINE b == [a EXCEPT ![now] = @ + 1]
  <2>4. /\ b \in Counts /\ admitted' \in [Ips -> Counts] /\ admitted'[ip] = b
        /\ \A i \in Ips : i # ip => admitted'[i] = admitted[i]
    <3>1. b \in Counts
      BY <1>0 DEF Counts
    <3> HIDE DEF b
    <3>2. admitted' = [admitted EXCEPT ![ip] = b]
      BY <2>1 DEF b
    <3> QED
      BY <1>0, <3>1, <3>2
  <2>5. Counted(b, table'[ip], now)
    BY <1>0, <1>1, <2>2, <2>3, CountedOneMore
  <2>6. AtMostTwice(b)
    <3>1. AtMostTwice(a)
      BY DEF RateInv, a
    <3> QED
      BY <1>0, <2>5, <3>1, TwiceStays
  <2> HIDE DEF b
  <2>7. \A i \in DOMAIN table' : Counted(admitted'[i], table'[i], now)
    BY <1>2, <1>3, <2>4, <2>5 DEF RateInv, table
  <2>8. \A i \in Ips : AtMostTwice(admitted'[i])
    BY <2>4, <2>6 DEF RateInv
  <2>9. \A i \in Ips \ DOMAIN table' : \A t \in Seconds : admitted'[i][t] = 0
    BY <1>2, <2>4 DEF RateInv, table
  <2> QED
    BY <1>0, <1>2, <2>1, <2>4, <2>7, <2>8, <2>9 DEF RateInv, table, Counted, AtMostTwice
<1>5. CASE ~allowed(table, ip, now)
  <2>1. admitted' = admitted /\ refused' = {ip}
    BY <1>0, <1>5 DEF IncomingRequest
  <2>2. table'[ip] = w
    BY <1>0, <1>5 DEF check_rate_limit
  <2>3. Full(w, now)
    <3>1. ~(w.request_count < MAX_REQUESTS_PER_WINDOW)
      BY <1>5 DEF allowed
    <3> QED
      BY <1>1, <3>1, LimitAssumption DEF Full, Counted
  <2> HIDE DEF w, table
  <2>4. \A i \in DOMAIN table' : Counted(admitted'[i], table'[i], now)
    BY <1>1, <1>2, <1>3, <2>1, <2>2 DEF RateInv, table
  <2>5. \A i \in Ips \ DOMAIN table' : \A t \in Seconds : admitted'[i][t] = 0
    BY <1>2, <2>1 DEF RateInv, table
  <2>6. \A i \in refused' : Full(table'[i], now)
    BY <2>1, <2>2, <2>3
  <2>7. \A i \in Ips : AtMostTwice(admitted'[i])
    BY <2>1 DEF RateInv
  <2> QED
    BY <1>0, <1>2, <2>1, <2>4, <2>5, <2>6, <2>7 DEF RateInv, table, Counted, Full, AtMostTwice
<1> QED
  BY <1>4, <1>5

(***************************************************************************)
(* Every step keeps the invariant.                                         *)
(***************************************************************************)
LEMMA RateInvStep == RateInv /\ [LimitNext]_limitVars => RateInv'
<1> SUFFICES ASSUME RateInv, [LimitNext]_limitVars PROVE RateInv'
  OBVIOUS
<1>1. ASSUME NEW ip \in Ips, IncomingRequest(ip) PROVE RateInv'
  BY <1>1, RequestKeepsRateInv
<1>2. CASE Clock
  <2>1. /\ now' = now + 1 /\ now' \in Seconds /\ now \in Nat
        /\ rate_limit_table' = rate_limit_table /\ admitted' = admitted /\ refused' = {}
    BY <1>2, MaxTimeAssumption DEF Clock, RateInv, Seconds
  <2>2. \A ip \in DOMAIN rate_limit_table :
          Counted(admitted[ip], rate_limit_table[ip], now + 1)
    BY <2>1, CountedLater DEF RateInv
  <2> QED
    BY <2>1, <2>2 DEF RateInv, Counted, AtMostTwice
<1>3. CASE UNCHANGED limitVars
  BY <1>3 DEF limitVars, RateInv, Counted, AtMostTwice, Full
<1> QED
  BY <1>1, <1>2, <1>3 DEF LimitNext

(***************************************************************************)
(* The invariant holds in every state.                                     *)
(***************************************************************************)
THEOREM RateInvariant == LimitSpec => []RateInv
BY RateInvInit, RateInvStep, PTL DEF LimitSpec

(***************************************************************************)
(* In any stretch of time as long as a window, an address gets at most     *)
(* twice the limit of requests past check_rate_limit.                      *)
(***************************************************************************)
THEOREM LimitCorrect == LimitSpec => []AtMostTwiceTheLimit
<1>1. RateInv => AtMostTwiceTheLimit
  <2> SUFFICES ASSUME RateInv, NEW ip \in Ips, NEW t \in 0 .. now
               PROVE  Count(ip, t, t + RATE_LIMIT_WINDOW) <= 2 * MAX_REQUESTS_PER_WINDOW
    BY DEF AtMostTwiceTheLimit
  <2>1. t \in Nat
    BY DEF RateInv, Seconds
  <2>2. Got(admitted[ip], t, t + RATE_LIMIT_WINDOW) <= 2 * MAX_REQUESTS_PER_WINDOW
    BY <2>1 DEF RateInv, AtMostTwice
  <2> QED
    BY <2>2, CountIsGot
<1> QED
  BY <1>1, RateInvariant, PTL

(***************************************************************************)
(* check_rate_limit refuses a request only when the limit of requests of   *)
(* its address was let through within a window's length up to now.         *)
(***************************************************************************)
THEOREM RefusalCorrect == LimitSpec => []RefusedOnlyAtTheLimit
<1>1. RateInv => RefusedOnlyAtTheLimit
  <2> SUFFICES ASSUME RateInv, NEW ip \in refused
               PROVE  Count(ip, IF now < RATE_LIMIT_WINDOW THEN 0 ELSE now - RATE_LIMIT_WINDOW, now)
                        >= MAX_REQUESTS_PER_WINDOW
    BY DEF RefusedOnlyAtTheLimit
  <2> DEFINE from == IF now < RATE_LIMIT_WINDOW THEN 0 ELSE now - RATE_LIMIT_WINDOW
             a == admitted[ip]
             w == rate_limit_table[ip]
  <2>1. /\ Counted(a, w, now) /\ Full(w, now) /\ a \in Counts
        /\ now \in Nat /\ now \in Int /\ MaxTime \in Int
    BY MaxTimeAssumption DEF RateInv, Seconds
  <2> HIDE DEF a, w
  <2>2. /\ w.window_start \in Int /\ w.request_count \in Nat /\ from \in Int
        /\ w.window_start \in Nat
        /\ Got(a, w.window_start, MaxTime) = w.request_count
    BY <2>1, WindowAssumption DEF Counted
  <2>3. from <= w.window_start
    BY <2>1, <2>2, WindowAssumption DEF Full
  <2> HIDE DEF from
  <2>4. \A t \in Seconds : w.window_start <= t /\ t <= MaxTime /\ a[t] # 0
                            => from <= t /\ t <= now /\ a[t] <= a[t]
    BY <2>1, <2>2, <2>3 DEF Counted, Seconds, Counts
  <2>5. Got(a, w.window_start, MaxTime) <= Got(a, from, now)
    BY <2>1, <2>2, <2>4, GotIsMonotone
  <2>6. Got(a, from, now) \in Nat
    BY <2>1, <2>2, GotIsNat
  <2>7. Got(a, from, now) >= MAX_REQUESTS_PER_WINDOW
    BY <2>1, <2>2, <2>5, <2>6, LimitAssumption DEF Full
  <2> QED
    BY <2>7, CountIsGot DEF from, a
<1> QED
  BY <1>1, RateInvariant, PTL

=============================================================================
