--------------------------- MODULE RpcNodeProofs ----------------------------
(***************************************************************************)
(* For every set of nodes and calls: the types, the agreement of the       *)
(* pending table with promises, timers and deserializations, that a result *)
(* was produced before a caller gets it, that a call made with a timeout   *)
(* settles, and that the node implements the abstract call.                *)
(***************************************************************************)
EXTENDS RpcNode, TLAPS

\* A call has a promise once it is made, and has left nothing behind before.
IdleIsFresh ==
  \A c \in Call :
    /\ sendPc[c] = "idle" <=> promise[c] = "none"
    /\ sendPc[c] = "idle" => /\ c \notin decoding
                             /\ servePc[c] = "none"
                             /\ \A m \in wire : m.call # c

\* A result on its way back, or about to be, was produced.
ReplyWasProduced ==
  /\ \A m \in wire : m.kind = "result" => m.call \in produced
  /\ \A c \in Call : servePc[c] \in {"result", "reply", "replying"} => c \in produced

IInv == /\ TypeOK
        /\ NoOrphan
        /\ PendingIsUnsettled
        /\ TimerHasEntry
        /\ FulfilledWasProduced
        /\ IdleIsFresh
        /\ ReplyWasProduced

USE NodesAssumption

\* The invariant holds before any call is made.
LEMMA InitIInv == Init => IInv
  BY DEF Init, IInv, TypeOK, NoOrphan, PendingIsUnsettled, TimerHasEntry,
         FulfilledWasProduced, IdleIsFresh, ReplyWasProduced,
         SendStages, Outcomes, ServeStages, Message

-----------------------------------------------------------------------------
(* Types.                                                                  *)

\* Every action keeps the variables in their types.
LEMMA TypeStep == TypeOK /\ [Next]_vars => TypeOK'
<1> SUFFICES ASSUME TypeOK, [Next]_vars PROVE TypeOK'
  OBVIOUS
<1> USE DEF TypeOK, SendStages, Outcomes, ServeStages, Message, callerVars
<1>1. CASE UNCHANGED vars
  BY <1>1 DEF vars
<1>2. ASSUME NEW c \in Call, CallerStep(c) PROVE TypeOK'
  <2>1. CASE CallMethod(c)
    BY <2>1 DEF CallMethod
  <2>2. CASE SerializeParams(c)
    BY <2>2 DEF SerializeParams, Msg
  <2>3. CASE SendSucceeds(c)
    BY <2>3 DEF SendSucceeds
  <2>4. CASE SendFails(c)
    BY <2>4 DEF SendFails, Settle, Forget, PendingOf
  <2>5. CASE Timeout(c)
    BY <2>5 DEF Timeout, Settle
  <2>6. CASE DecodeResult(c)
    BY <2>6 DEF DecodeResult, Settle
  <2> QED
    BY <1>2, <2>1, <2>2, <2>3, <2>4, <2>5, <2>6 DEF CallerStep
<1>3. ASSUME NEW c \in Call, ServerStep(c) PROVE TypeOK'
  BY <1>3 DEF ServerStep, PreMiddleware, DecodeParams, PostMiddleware, MethodFails,
              MethodReturns, EncodeResult, SendReply, ReplySettles, SendError,
              Stage, Answer, Goto, Msg
<1>4. ASSUME NEW m \in wire, Receive(m) PROVE TypeOK'
  <2>1. m \in Message
    OBVIOUS
  <2>2. CASE DropResponse(m)
    BY <2>2 DEF DropResponse
  <2>3. CASE HandleError(m)
    BY <2>3 DEF HandleError, Settle, Forget
  <2>4. CASE HandleResult(m)
    BY <2>1, <2>4 DEF HandleResult, Settle, Forget
  <2>5. CASE ReceiveRequest(m)
    BY <2>1, <2>5 DEF ReceiveRequest, Goto
  <2> QED
    BY <1>4, <2>2, <2>3, <2>4, <2>5 DEF Receive
<1>5. ASSUME NEW n \in Node, Close(n) PROVE TypeOK'
  BY <1>5 DEF Close, Settle, Forget, PendingOf
<1> QED
  BY <1>1, <1>2, <1>3, <1>4, <1>5 DEF Next

\* The variables of the nodes and of the wire always have their types.
THEOREM TypeCorrect == Spec => []TypeOK
<1>1. Init => TypeOK
  BY InitIInv DEF IInv
<1> QED
  BY <1>1, TypeStep, PTL DEF Spec

-----------------------------------------------------------------------------
(* The caller's table.                                                     *)

Table == NoOrphan /\ PendingIsUnsettled /\ TimerHasEntry

\* Every action of a caller keeps table, timers and promises in step; the
\* actions of the peer do not touch them.
LEMMA TableStep == IInv /\ [Next]_vars => Table'
<1> SUFFICES ASSUME IInv, [Next]_vars PROVE Table'
  OBVIOUS
<1> USE DEF IInv, TypeOK, Table, NoOrphan, PendingIsUnsettled, TimerHasEntry,
            SendStages, Outcomes
<1>1. CASE UNCHANGED vars
  BY <1>1 DEF vars, callerVars
<1>2. ASSUME NEW c \in Call, CallerStep(c) PROVE Table'
  <2>1. CASE CallMethod(c)
    BY <2>1 DEF CallMethod, IdleIsFresh
  <2>2. CASE SerializeParams(c)
    BY <2>2 DEF SerializeParams
  <2>3. CASE SendSucceeds(c)
    BY <2>3 DEF SendSucceeds
  <2>4. CASE SendFails(c)
    BY <2>4 DEF SendFails, Settle, Forget, PendingOf
  <2>5. CASE Timeout(c)
    BY <2>5 DEF Timeout, Settle
  <2>6. CASE DecodeResult(c)
    BY <2>6 DEF DecodeResult, Settle
  <2> QED
    BY <1>2, <2>1, <2>2, <2>3, <2>4, <2>5, <2>6 DEF CallerStep
<1>3. ASSUME NEW c \in Call, ServerStep(c) PROVE Table'
  BY <1>3 DEF ServerStep, PreMiddleware, DecodeParams, PostMiddleware, MethodFails,
              MethodReturns, EncodeResult, SendReply, ReplySettles, SendError,
              Stage, Answer, callerVars
<1>4. ASSUME NEW m \in wire, Receive(m) PROVE Table'
  <2>1. m.call \in Call
    BY DEF Message
  <2>2. CASE DropResponse(m)
    BY <2>2 DEF DropResponse, callerVars
  <2>3. CASE HandleError(m)
    BY <2>1, <2>3 DEF HandleError, Settle, Forget
  <2>4. CASE HandleResult(m)
    BY <2>1, <2>4 DEF HandleResult, Settle, Forget
  <2>5. CASE ReceiveRequest(m)
    BY <2>5 DEF ReceiveRequest, callerVars
  <2> QED
    BY <1>4, <2>2, <2>3, <2>4, <2>5 DEF Receive
<1>5. ASSUME NEW n \in Node, Close(n) PROVE Table'
  BY <1>5 DEF Close, Settle, Forget, PendingOf
<1> QED
  BY <1>1, <1>2, <1>3, <1>4, <1>5 DEF Next

-----------------------------------------------------------------------------
(* Where results come from.                                                *)

Origin == FulfilledWasProduced /\ ReplyWasProduced

\* A result is put on the wire, decoded and handed to a caller only after it
\* was produced, and it stays produced.
LEMMA OriginStep == IInv /\ [Next]_vars => Origin'
<1> SUFFICES ASSUME IInv, [Next]_vars PROVE Origin'
  OBVIOUS
<1> USE DEF IInv, TypeOK, Origin, FulfilledWasProduced, ReplyWasProduced,
            SendStages, Outcomes, ServeStages
<1>1. CASE UNCHANGED vars
  BY <1>1 DEF vars, callerVars
<1>2. ASSUME NEW c \in Call, CallerStep(c) PROVE Origin'
  <2>1. CASE CallMethod(c)
    BY <2>1 DEF CallMethod
  <2>2. CASE SerializeParams(c)
    BY <2>2 DEF SerializeParams, Msg
  <2>3. CASE SendSucceeds(c)
    BY <2>3 DEF SendSucceeds
  <2>4. CASE SendFails(c)
    BY <2>4 DEF SendFails, Settle
  <2>5. CASE Timeout(c)
    BY <2>5 DEF Timeout, Settle
  <2>6. CASE DecodeResult(c)
    BY <2>6 DEF DecodeResult, Settle
  <2> QED
    BY <1>2, <2>1, <2>2, <2>3, <2>4, <2>5, <2>6 DEF CallerStep
<1>3. ASSUME NEW c \in Call, ServerStep(c) PROVE Origin'
  BY <1>3 DEF ServerStep, PreMiddleware, DecodeParams, PostMiddleware, MethodFails,
              MethodReturns, EncodeResult, SendReply, ReplySettles, SendError,
              Stage, Answer, Goto, Msg, callerVars
<1>4. ASSUME NEW m \in wire, Receive(m) PROVE Origin'
  <2>1. m.call \in Call
    BY DEF Message
  <2>2. CASE DropResponse(m)
    BY <2>2 DEF DropResponse, callerVars
  <2>3. CASE HandleError(m)
    BY <2>3 DEF HandleError, Settle
  <2>4. CASE HandleResult(m)
    BY <2>4 DEF HandleResult, Settle
  <2>5. CASE ReceiveRequest(m)
    BY <2>1, <2>5 DEF ReceiveRequest, Goto, callerVars
  <2> QED
    BY <1>4, <2>2, <2>3, <2>4, <2>5 DEF Receive
<1>5. ASSUME NEW n \in Node, Close(n) PROVE Origin'
  BY <1>5 DEF Close, Settle
<1> QED
  BY <1>1, <1>2, <1>3, <1>4, <1>5 DEF Next

\* Nothing refers to a call before it is made.
LEMMA FreshStep == IInv /\ [Next]_vars => IdleIsFresh'
<1> SUFFICES ASSUME IInv, [Next]_vars PROVE IdleIsFresh'
  OBVIOUS
<1> USE DEF IInv, TypeOK, IdleIsFresh, SendStages, Outcomes, ServeStages
<1>1. CASE UNCHANGED vars
  BY <1>1 DEF vars, callerVars
<1>2. ASSUME NEW c \in Call, CallerStep(c) PROVE IdleIsFresh'
  <2>1. CASE CallMethod(c)
    BY <2>1 DEF CallMethod
  <2>2. CASE SerializeParams(c)
    BY <2>2 DEF SerializeParams, Msg
  <2>3. CASE SendSucceeds(c)
    BY <2>3 DEF SendSucceeds
  <2>4. CASE SendFails(c)
    BY <2>4 DEF SendFails, Settle
  <2>5. CASE Timeout(c)
    BY <2>5 DEF Timeout, Settle
  <2>6. CASE DecodeResult(c)
    BY <2>6 DEF DecodeResult, Settle
  <2> QED
    BY <1>2, <2>1, <2>2, <2>3, <2>4, <2>5, <2>6 DEF CallerStep
<1>3. ASSUME NEW c \in Call, ServerStep(c) PROVE IdleIsFresh'
  BY <1>3 DEF ServerStep, PreMiddleware, DecodeParams, PostMiddleware, MethodFails,
              MethodReturns, EncodeResult, SendReply, ReplySettles, SendError,
              Stage, Answer, Goto, Msg, callerVars
<1>4. ASSUME NEW m \in wire, Receive(m) PROVE IdleIsFresh'
  <2>1. m.call \in Call /\ sendPc[m.call] # "idle"
    BY DEF Message
  <2>2. CASE DropResponse(m)
    BY <2>2 DEF DropResponse, callerVars
  <2>3. CASE HandleError(m)
    BY <2>1, <2>3 DEF HandleError, Settle
  <2>4. CASE HandleResult(m)
    BY <2>1, <2>4 DEF HandleResult, Settle
  <2>5. CASE ReceiveRequest(m)
    BY <2>1, <2>5 DEF ReceiveRequest, Goto, callerVars
  <2> QED
    BY <1>4, <2>2, <2>3, <2>4, <2>5 DEF Receive
<1>5. ASSUME NEW n \in Node, Close(n) PROVE IdleIsFresh'
  BY <1>5 DEF Close, Settle
<1> QED
  BY <1>1, <1>2, <1>3, <1>4, <1>5 DEF Next

-----------------------------------------------------------------------------
\* So it holds in every state, in every order of the steps.
LEMMA IInvAlways == Spec => []IInv
<1>1. IInv /\ [Next]_vars => IInv'
  BY TypeStep, TableStep, OriginStep, FreshStep DEF IInv, Table, Origin
<1> QED
  BY InitIInv, <1>1, PTL DEF Spec

\* No call is orphaned, nothing answers or rejects a call twice, and an armed
\* timer always has its entry: the pending table of MethodManager.
THEOREM TableCorrect == Spec => [](NoOrphan /\ PendingIsUnsettled /\ TimerHasEntry)
<1>1. IInv => NoOrphan /\ PendingIsUnsettled /\ TimerHasEntry
  BY DEF IInv
<1> QED
  BY IInvAlways, <1>1, PTL

\* A caller is given only results that its peer produced.
THEOREM ResultCorrect == Spec => []FulfilledWasProduced
<1>1. IInv => FulfilledWasProduced
  BY DEF IInv
<1> QED
  BY IInvAlways, <1>1, PTL

-----------------------------------------------------------------------------
(* Calls with a timeout settle.                                            *)

\* A result that is being deserialized is left there until deserialize
\* settles: no timeout, failed send or close() takes the call away.
LEMMA DecodingStays ==
  ASSUME NEW c \in Call
  PROVE  IInv /\ ~(c \notin decoding) /\ [Next]_vars
           => ~(c \notin decoding)' \/ DecodeResult(c)
<1> SUFFICES ASSUME IInv, c \in decoding, [Next]_vars
             PROVE  c \in decoding' \/ DecodeResult(c)
  OBVIOUS
<1>1. CASE UNCHANGED vars
  BY <1>1 DEF vars, callerVars
<1>2. ASSUME NEW d \in Call, CallerStep(d) PROVE c \in decoding' \/ DecodeResult(c)
  BY <1>2 DEF CallerStep, CallMethod, SerializeParams, SendSucceeds, SendFails, Timeout,
              DecodeResult
<1>3. ASSUME NEW d \in Call, ServerStep(d) PROVE decoding' = decoding
  BY <1>3 DEF ServerStep, PreMiddleware, DecodeParams, PostMiddleware, MethodFails,
              MethodReturns, EncodeResult, SendReply, ReplySettles, SendError,
              Stage, Answer, callerVars
<1>4. ASSUME NEW m \in wire, Receive(m) PROVE decoding \subseteq decoding'
  BY <1>4 DEF Receive, DropResponse, HandleError, HandleResult, ReceiveRequest, callerVars
<1>5. ASSUME NEW n \in Node, Close(n) PROVE decoding' = decoding
  BY <1>5 DEF Close
<1> QED
  BY <1>1, <1>2, <1>3, <1>4, <1>5 DEF Next

\* A call made with a timeout settles, whatever the transport and the peer do:
\* it waits with its timer armed, or for a deserializer that settles.
THEOREM LivenessCorrect == Spec => TimedCallsSettle
<1> SUFFICES ASSUME NEW c \in Call, c \in TimedCall
             PROVE  Spec => (promise[c] = "waiting" ~> promise[c] # "waiting")
  BY DEF TimedCallsSettle
<1>1. Spec => []<>(c \notin timer) \/ []<><<Timeout(c)>>_vars
  BY DEF Spec, Fairness, TimerFires
<1>2. Spec => []<>(c \notin decoding) \/ []<><<DecodeResult(c)>>_vars
  BY DEF Spec, Fairness, DecodeSettles
<1>3. IInv /\ ~(promise[c] # "waiting") => ~(c \notin timer) \/ ~(c \notin decoding)
  BY DEF IInv, NoOrphan, TimerHasEntry
<1>4. IInv /\ ~(promise[c] # "waiting") /\ Timeout(c)
        => (promise[c] # "waiting")'
  BY DEF IInv, TypeOK, TimerHasEntry, Timeout, Settle
<1>5. IInv /\ ~(promise[c] # "waiting") /\ DecodeResult(c) => (promise[c] # "waiting")'
  BY DEF IInv, TypeOK, DecodeResult, Settle
<1>6. IInv /\ ~(c \notin decoding) /\ [Next]_vars
        => ~(c \notin decoding)' \/ DecodeResult(c)
  BY DecodingStays
<1>7. Spec => [][Next]_vars
  BY DEF Spec
<1> QED
  BY <1>1, <1>2, <1>3, <1>4, <1>5, <1>6, <1>7, IInvAlways, PTL

-----------------------------------------------------------------------------
(* The node implements the abstract remote call.                           *)

\* How the phase of a call follows from its promise.
LEMMA PhaseOf ==
  ASSUME TypeOK, NEW c \in Call
  PROVE  /\ promise[c] = "none" <=> Phase[c] = "idle"
         /\ promise[c] = "waiting" <=> Phase[c] = "waiting"
         /\ promise[c] = "fulfilled" => Phase[c] = "fulfilled"
         /\ promise[c] \notin {"none", "waiting", "fulfilled"} => Phase[c] = "rejected"
  BY DEF Phase, TypeOK, Outcomes

\* Settling promises with an error rejects those that still waited.
LEMMA SettleRejects ==
  ASSUME TypeOK, NEW S \in SUBSET Call,
         NEW outcome \in Outcomes \ {"none", "waiting", "fulfilled"},
         Settle(S, outcome), produced' = produced
  PROVE  Abstract!Next
<1> DEFINE R == {c \in S : promise[c] = "waiting"}
<1>1. \A c \in R : Phase[c] = "waiting"
  BY PhaseOf
<1>2. Phase' = [c \in Call |-> IF c \in R THEN "rejected" ELSE Phase[c]]
  BY DEF Phase, Settle, TypeOK, Outcomes
<1>3. Abstract!Reject(R)
  BY <1>1, <1>2 DEF Abstract!Reject
<1>4. R \in SUBSET Call
  OBVIOUS
<1> QED
  BY <1>3, <1>4 DEF Abstract!Next

\* Settling a promise with a produced result fulfils it, if it still waited.
LEMMA SettleFulfils ==
  ASSUME TypeOK, NEW c \in Call, c \in produced,
         Settle({c}, "fulfilled"), produced' = produced
  PROVE  [Abstract!Next]_(Abstract!vars)
<1>1. CASE promise[c] = "waiting"
  <2>1. Phase[c] = "waiting"
    BY <1>1, PhaseOf
  <2>2. Phase' = [Phase EXCEPT ![c] = "fulfilled"]
    BY <1>1 DEF Phase, Settle, TypeOK, Outcomes
  <2> QED
    BY <2>1, <2>2 DEF Abstract!Fulfil, Abstract!Next
<1>2. CASE promise[c] # "waiting"
  <2>1. promise' = promise
    BY <1>2 DEF Settle, TypeOK
  <2> QED
    BY <2>1 DEF Phase, Abstract!vars
<1> QED
  BY <1>1, <1>2

\* Every step of the node is a step of the abstract call or leaves it alone.
LEMMA StepSimulation == IInv /\ [Next]_vars => [Abstract!Next]_(Abstract!vars)
<1> SUFFICES ASSUME IInv, [Next]_vars PROVE [Abstract!Next]_(Abstract!vars)
  OBVIOUS
<1>0. TypeOK
  BY DEF IInv
<1>1. ASSUME promise' = promise, produced' = produced PROVE UNCHANGED Abstract!vars
  BY <1>1 DEF Abstract!vars, Phase
<1>2. CASE UNCHANGED vars
  BY <1>1, <1>2 DEF vars, callerVars
<1>3. ASSUME NEW c \in Call, CallerStep(c) PROVE [Abstract!Next]_(Abstract!vars)
  <2>1. CASE CallMethod(c)
    <3>1. promise[c] = "none" /\ Phase[c] = "idle"
      BY <2>1, <1>0, PhaseOf DEF CallMethod, IInv, IdleIsFresh
    <3>2. Phase' = [Phase EXCEPT ![c] = "waiting"]
      BY <2>1, <1>0 DEF CallMethod, Phase, TypeOK
    <3>3. Abstract!Invoke(c)
      BY <2>1, <3>1, <3>2 DEF CallMethod, Abstract!Invoke
    <3> QED
      BY <3>3 DEF Abstract!Next
  <2>2. CASE SerializeParams(c) \/ SendSucceeds(c)
    BY <2>2, <1>1 DEF SerializeParams, SendSucceeds
  <2>3. CASE SendFails(c)
    <3>1. {c} \cup PendingOf(Caller[c]) \in SUBSET Call
      BY <1>0 DEF PendingOf, TypeOK
    <3> QED
      BY <2>3, <3>1, <1>0, SettleRejects DEF SendFails, Outcomes
  <2>4. CASE Timeout(c)
    BY <2>4, <1>0, SettleRejects DEF Timeout, Outcomes
  <2>5. CASE DecodeResult(c)
    <3>1. c \in produced /\ produced' = produced
      BY <2>5 DEF DecodeResult, IInv, FulfilledWasProduced
    <3>2. CASE Settle({c}, "fulfilled")
      BY <3>1, <3>2, <1>0, SettleFulfils
    <3>3. CASE Settle({c}, "undecodable")
      BY <3>1, <3>3, <1>0, SettleRejects DEF Outcomes
    <3> QED
      BY <2>5, <3>2, <3>3 DEF DecodeResult
  <2> QED
    BY <1>3, <2>1, <2>2, <2>3, <2>4, <2>5 DEF CallerStep
<1>4. ASSUME NEW c \in Call, ServerStep(c) PROVE [Abstract!Next]_(Abstract!vars)
  <2>1. promise' = promise
    BY <1>4 DEF ServerStep, PreMiddleware, DecodeParams, PostMiddleware, MethodFails,
                MethodReturns, EncodeResult, SendReply, ReplySettles, SendError,
                Stage, Answer, callerVars
  <2>2. Phase' = Phase
    BY <2>1 DEF Phase
  <2>3. CASE produced' = produced
    BY <2>1, <2>3, <1>1
  <2>4. CASE produced' # produced
    <3>1. servePc[c] # "none" /\ produced' = produced \cup {c}
      BY <1>4, <2>4 DEF ServerStep, PreMiddleware, DecodeParams, PostMiddleware,
                MethodFails, MethodReturns, EncodeResult, SendReply, ReplySettles,
                SendError, Stage, Answer
    <3>2. sendPc[c] # "idle"
      BY <3>1 DEF IInv, IdleIsFresh
    <3>3. Phase[c] # "idle" /\ c \notin produced
      BY <3>1, <3>2, <2>4, <1>0, PhaseOf DEF IInv, IdleIsFresh
    <3>4. Abstract!Produce(c)
      BY <3>1, <3>3, <2>2 DEF Abstract!Produce
    <3> QED
      BY <3>4 DEF Abstract!Next
  <2> QED
    BY <2>3, <2>4
<1>5. ASSUME NEW m \in wire, Receive(m) PROVE [Abstract!Next]_(Abstract!vars)
  <2>1. m.call \in Call
    BY <1>0 DEF TypeOK, Message
  <2>2. CASE DropResponse(m) \/ ReceiveRequest(m)
    BY <2>2, <1>1 DEF DropResponse, ReceiveRequest, callerVars
  <2>3. CASE HandleError(m)
    BY <2>1, <2>3, <1>0, SettleRejects DEF HandleError, Outcomes
  <2>4. CASE HandleResult(m)
    <3>1. m.call \in produced /\ produced' = produced
      BY <2>4 DEF HandleResult, IInv, ReplyWasProduced
    <3>2. CASE promise' = promise
      BY <3>1, <3>2, <1>1
    <3>3. CASE Settle({m.call}, "fulfilled")
      BY <2>1, <3>1, <3>3, <1>0, SettleFulfils
    <3>4. CASE Settle({m.call}, "undecodable")
      BY <2>1, <3>1, <3>4, <1>0, SettleRejects DEF Outcomes
    <3> QED
      BY <2>4, <3>2, <3>3, <3>4 DEF HandleResult
  <2> QED
    BY <1>5, <2>2, <2>3, <2>4 DEF Receive
<1>6. ASSUME NEW n \in Node, Close(n) PROVE [Abstract!Next]_(Abstract!vars)
  <2>1. PendingOf(n) \in SUBSET Call
    BY <1>0 DEF PendingOf, TypeOK
  <2> QED
    BY <1>6, <2>1, <1>0, SettleRejects DEF Close, Outcomes
<1> QED
  BY <1>2, <1>3, <1>4, <1>5, <1>6 DEF Next

\* The detailed node implements RemoteCall, for every set of calls and every
\* order of delivery, loss, timeout, failed send and close.
THEOREM Refinement == Spec => ImplementsRemoteCall
<1>1. Init => Abstract!Init
  BY DEF Init, Abstract!Init, Phase
<1> QED
  BY <1>1, IInvAlways, StepSimulation, PTL DEF Spec, ImplementsRemoteCall, Abstract!Spec

=============================================================================
