------------------------------ MODULE RpcNode -------------------------------
(***************************************************************************)
(* JSONRPCNode and its MethodManager: the nodes of a connection call each  *)
(* other's methods.  Every `await` in callMethod, handleRequest and        *)
(* handleResponse is a point where other code of the node may run, so each *)
(* segment between two awaits is an action.  A call is identified with its *)
(* id: callMethod draws it with crypto.randomUUID().                       *)
(*                                                                         *)
(* The transport is the set `wire` of messages in flight: it delivers in   *)
(* any order, may lose a message (one that is never received) and may      *)
(* report as failed a send whose message arrives.                          *)
(***************************************************************************)
CONSTANTS Node,            \* the nodes of the connection
          Call,            \* the calls made, by id
          Caller,          \* Caller[c]: the node that makes call c
          Peer,            \* Peer[n]: the node at the other end
          TimedCall,       \* calls made with timeoutInSeconds > 0
          SerializedCall   \* calls of a method with a result serializer

ASSUME NodesAssumption == /\ Caller \in [Call -> Node]
                          /\ Peer \in [Node -> Node]
                          /\ TimedCall \subseteq Call

VARIABLES
  sendPc,     \* sendPc[c]: where sendRequest of c is
  pending,    \* keys of the callers' pendingRequests
  timer,      \* calls whose timeout is armed
  decoding,   \* calls suspended in serializer.result.deserialize
  promise,    \* promise[c]: the promise callMethod returned
  wire,       \* messages in flight
  servePc,    \* servePc[c]: where the peer's handleRequest of c is
  produced,   \* calls a middleware or method of the peer has a result for
  guarded     \* guarded[n]: the middleware of n is installed

callerVars == <<sendPc, pending, timer, decoding, promise>>
vars == <<callerVars, wire, servePc, produced, guarded>>

SendStages  == {"idle", "serializing", "sending", "sent", "failed"}
Outcomes    == {"none", "waiting", "fulfilled", "remoteError", "undecodable",
                "timeout", "sendError", "closed"}
ServeStages == {"none", "pre", "params", "post", "method", "result", "reply",
                "replying", "refuse", "served"}
Message     == [kind : {"request", "result", "error"}, call : Call]

\* Fault: messages are sent without their id.
MsgWithoutId(k, c) == [kind |-> k]

Msg(k, c) == [kind |-> k, call |-> c]

Init == /\ sendPc = [c \in Call |-> "idle"]
        /\ pending = {} /\ timer = {} /\ decoding = {}
        /\ promise = [c \in Call |-> "none"]
        /\ wire = {}
        /\ servePc = [c \in Call |-> "none"]
        /\ produced = {}
        /\ guarded = [n \in Node |-> TRUE]

-----------------------------------------------------------------------------
(* The caller.                                                             *)

\* A promise that is already settled ignores a second resolve or reject.
Settle(S, outcome) ==
  promise' = [c \in Call |-> IF c \in S /\ promise[c] = "waiting"
                             THEN outcome ELSE promise[c]]

\* Faults: the whole table is cleared, the timer or the entry is left
\* behind, the timers of other calls are cleared.
ForgetAll(S)    == pending' = {} /\ timer' = {}
ForgetEntry(S)  == pending' = pending \ S /\ timer' = timer
ForgetTimer(S)  == pending' = pending /\ timer' = timer \ S
ForgetTimers(S) == pending' = pending \ S /\ timer' = {}

Forget(S) == /\ pending' = pending \ S
             /\ timer' = timer \ S

PendingOf(n) == {c \in pending : Caller[c] = n}

CallMethod(c) ==
  /\ sendPc[c] = "idle"
  /\ sendPc' = [sendPc EXCEPT ![c] = "serializing"]
  /\ pending' = pending \cup {c}
  /\ timer' = timer \cup ({c} \cap TimedCall)
  /\ promise' = [promise EXCEPT ![c] = "waiting"]
  /\ UNCHANGED <<decoding, wire, servePc, produced, guarded>>

SerializeParams(c) ==
  /\ sendPc[c] = "serializing"
  /\ sendPc' = [sendPc EXCEPT ![c] = "sending"]
  /\ wire' = wire \cup {Msg("request", c)}
  /\ UNCHANGED <<pending, timer, decoding, promise, servePc, produced, guarded>>

SendSucceeds(c) ==
  /\ sendPc[c] = "sending"
  /\ sendPc' = [sendPc EXCEPT ![c] = "sent"]
  /\ UNCHANGED <<pending, timer, decoding, promise, wire, servePc, produced, guarded>>

\* The catch of sendRequest: it rejects its own promise and then, through
\* rejectAllRequests, every other pending call of the node.
SendFails(c) ==
  /\ sendPc[c] \in {"serializing", "sending"}
  /\ sendPc' = [sendPc EXCEPT ![c] = "failed"]
  /\ Settle({c} \cup PendingOf(Caller[c]), "sendError")
  /\ Forget(PendingOf(Caller[c]))
  /\ UNCHANGED <<decoding, wire, servePc, produced, guarded>>

Timeout(c) ==
  /\ c \in timer
  /\ timer' = timer \ {c}
  /\ pending' = pending \ {c}
  /\ Settle({c} \cap pending, "timeout")
  /\ UNCHANGED <<sendPc, decoding, wire, servePc, produced, guarded>>

\* A response whose id is not pending is dropped.
DropResponse(m) ==
  /\ m.kind \in {"result", "error"} /\ m.call \notin pending
  /\ wire' = wire \ {m}
  /\ UNCHANGED <<callerVars, servePc, produced, guarded>>

\* Fault: the error member of a response is not looked at.
HandleErrorAsResult(m) ==
  /\ m.kind = "error" /\ m.call \in pending
  /\ wire' = wire \ {m}
  /\ Forget({m.call})
  /\ Settle({m.call}, "fulfilled")
  /\ UNCHANGED <<sendPc, decoding, servePc, produced, guarded>>

HandleError(m) ==
  /\ m.kind = "error" /\ m.call \in pending
  /\ wire' = wire \ {m}
  /\ Forget({m.call})
  /\ Settle({m.call}, "remoteError")
  /\ UNCHANGED <<sendPc, decoding, servePc, produced, guarded>>

\* The entry and its timer go before the result is looked at; a method with
\* a result serializer then suspends in deserialize.
HandleResult(m) ==
  /\ m.kind = "result" /\ m.call \in pending
  /\ wire' = wire \ {m}
  /\ Forget({m.call})
  /\ \/ /\ m.call \in SerializedCall
        /\ decoding' = decoding \cup {m.call}
        /\ UNCHANGED promise
     \/ /\ m.call \notin SerializedCall
        /\ Settle({m.call}, "fulfilled")
        /\ UNCHANGED decoding
     \/ /\ Settle({m.call}, "undecodable")
        /\ UNCHANGED decoding
  /\ UNCHANGED <<sendPc, servePc, produced, guarded>>

DecodeResult(c) ==
  /\ c \in decoding
  /\ decoding' = decoding \ {c}
  /\ \E outcome \in {"fulfilled", "undecodable"} : Settle({c}, outcome)
  /\ UNCHANGED <<sendPc, pending, timer, wire, servePc, produced, guarded>>

\* close() leaves the transport handler and the methods in place: the node
\* still answers, without its middleware, and callMethod still sends.
Close(n) ==
  /\ guarded' = [guarded EXCEPT ![n] = FALSE]
  /\ Settle(PendingOf(n), "closed")
  /\ Forget(PendingOf(n))
  /\ UNCHANGED <<sendPc, decoding, wire, servePc, produced>>

-----------------------------------------------------------------------------
(* The peer serving a request.                                             *)

Server(c) == Peer[Caller[c]]

Goto(c, stage) == servePc' = [servePc EXCEPT ![c] = stage]

ReceiveRequest(m) ==
  /\ m.kind = "request"
  /\ wire' = wire \ {m}
  /\ Goto(m.call, IF guarded[Server(m.call)] THEN "pre" ELSE "params")
  /\ UNCHANGED <<callerVars, produced, guarded>>

\* What may go on (to), fail (the catch of handleRequest) or answer itself.
Stage(c, from, to) ==
  /\ servePc[c] = from
  /\ \/ Goto(c, to)
     \/ Goto(c, "refuse")
  /\ UNCHANGED <<callerVars, wire, produced, guarded>>

Answer(c, from, to) ==
  /\ servePc[c] = from
  /\ Goto(c, to)
  /\ produced' = produced \cup {c}
  /\ UNCHANGED <<callerVars, wire, guarded>>

PreMiddleware(c)  == Stage(c, "pre", "params") \/ Answer(c, "pre", "reply")
DecodeParams(c)   == Stage(c, "params", IF guarded[Server(c)] THEN "post" ELSE "method")
PostMiddleware(c) == Stage(c, "post", "method") \/ Answer(c, "post", "result")
MethodFails(c)    == /\ servePc[c] = "method"
                     /\ Goto(c, "refuse")
                     /\ UNCHANGED <<callerVars, wire, produced, guarded>>
MethodReturns(c)  == Answer(c, "method", "result")
EncodeResult(c)   == Stage(c, "result", "reply")

SendReply(c) ==
  /\ servePc[c] = "reply"
  /\ Goto(c, "replying")
  /\ wire' = wire \cup {Msg("result", c)}
  /\ UNCHANGED <<callerVars, produced, guarded>>

\* A send that fails falls into the same catch as the method: the request
\* is answered a second time, now with an error.
ReplySettles(c) == Stage(c, "replying", "served")

SendError(c) ==
  /\ servePc[c] = "refuse"
  /\ Goto(c, "served")
  /\ wire' = wire \cup {Msg("error", c)}
  /\ UNCHANGED <<callerVars, produced, guarded>>

-----------------------------------------------------------------------------
CallerStep(c) == \/ CallMethod(c) \/ SerializeParams(c) \/ SendSucceeds(c)
                 \/ SendFails(c) \/ Timeout(c) \/ DecodeResult(c)

ServerStep(c) == \/ PreMiddleware(c) \/ DecodeParams(c) \/ PostMiddleware(c)
                 \/ MethodFails(c) \/ MethodReturns(c) \/ EncodeResult(c)
                 \/ SendReply(c) \/ ReplySettles(c) \/ SendError(c)

Receive(m) == \/ DropResponse(m) \/ HandleError(m) \/ HandleResult(m)
              \/ ReceiveRequest(m)

Next == \/ \E c \in Call : CallerStep(c) \/ ServerStep(c)
        \/ \E m \in wire : Receive(m)
        \/ \E n \in Node : Close(n)

\* A timer that stays armed fires, and a deserializer settles.  Each is weak
\* fairness of an action, with the guard that enables it written out.
TimerFires(c)    == []<>(c \notin timer) \/ []<><<Timeout(c)>>_vars
DecodeSettles(c) == []<>(c \notin decoding) \/ []<><<DecodeResult(c)>>_vars

\* Nothing is assumed of the transport, of the peer or of the application.
Fairness == \A c \in Call : TimerFires(c) /\ DecodeSettles(c)

Spec == Init /\ [][Next]_vars /\ Fairness

-----------------------------------------------------------------------------
(* Properties.                                                             *)

\* The values each variable of a node may take.
TypeOK == /\ sendPc \in [Call -> SendStages]
          /\ pending \subseteq Call /\ timer \subseteq Call /\ decoding \subseteq Call
          /\ promise \in [Call -> Outcomes]
          /\ wire \subseteq Message
          /\ servePc \in [Call -> ServeStages]
          /\ produced \subseteq Call
          /\ guarded \in [Node -> BOOLEAN]

\* No call is orphaned: as long as its promise is unsettled, either its
\* entry is in pendingRequests, where a response, the timer, a failed send or
\* close() finds it, or its result is being deserialized.  handleResponse
\* deletes the entry before it settles the promise, so this relates the
\* order of those two across the await.
NoOrphan == \A c \in Call : promise[c] = "waiting" => c \in pending \cup decoding

\* An entry that is still in pendingRequests has an unsettled promise, and is
\* not also being deserialized: nothing answers or rejects a call twice.
PendingIsUnsettled == \A c \in pending : promise[c] = "waiting" /\ c \notin decoding

\* No phantom timeout: a timer that is armed belongs to a pending entry, on
\* every path that removes one (response, send failure, close, timeout).
TimerHasEntry == timer \subseteq pending /\ pending \cap TimedCall \subseteq timer

\* A caller is never given a result nobody computed: a fulfilled promise, and
\* one about to be, belongs to a call the peer's middleware or method answered.
\* What a middleware returns counts as an answer whatever it is: if it is a reply
\* with an error, the handler after DecodeParams sends its (undefined) result.
FulfilledWasProduced ==
  /\ \A c \in Call : promise[c] = "fulfilled" => c \in produced
  /\ decoding \subseteq produced

\* A call made with a timeout settles, whatever the transport and the peer do.
TimedCallsSettle == \A c \in TimedCall : promise[c] = "waiting" ~> promise[c] # "waiting"

\* The documentation of callMethod: an error of the transport reaches the
\* caller "If sending the request fails", that is, its own request.
SendErrorIsOwn == \A c \in Call : promise[c] = "sendError" => sendPc[c] = "failed"

\* The node implements the abstract call: the promise settles once, with a
\* result only if the peer produced one, and the peer produces it at most once.
Phase == [c \in Call |-> CASE promise[c] = "none" -> "idle"
                           [] promise[c] \in {"waiting", "fulfilled"} -> promise[c]
                           [] OTHER -> "rejected"]

Abstract == INSTANCE RemoteCall WITH phase <- Phase

ImplementsRemoteCall == Abstract!Spec
=============================================================================
