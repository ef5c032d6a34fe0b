------------------------------ MODULE RpcProxy ------------------------------
(***************************************************************************)
(* JSONRPCProxy: the router's connection to one wallet.  forward() hands a *)
(* request to the transport unchanged and waits, under the id the request  *)
(* carries, for a response, a timeout, a failed send or close().  Each     *)
(* forward closes over its own timer and promise; the table is by id.      *)
(***************************************************************************)
CONSTANTS Forward,   \* the requests handed to forward()
          Id,        \* Id[f]: the id in the message of f
          None       \* undefined

ASSUME NoneAssumption == None \notin Forward

VARIABLES entry,     \* entry[i]: the forward that pendingRequests has under id i
          timer,     \* forwards whose timeout is armed
          sendPc,    \* sendPc[f]: where transport.send of f is
          promise,   \* promise[f]: the promise forward() returned
          closed,
          requests,  \* requests on their way to the wallet
          answers,   \* responses on their way back
          produced   \* forwards the wallet has answered

proxyVars == <<entry, timer, sendPc, promise, closed>>
vars == <<proxyVars, requests, answers, produced>>

Ids       == {Id[f] : f \in Forward}
SendStages == {"idle", "sending", "sent", "failed"}
Outcomes  == {"none", "waiting", "fulfilled", "timeout", "sendError", "closed"}

Init == /\ entry = [i \in Ids |-> None]
        /\ timer = {}
        /\ sendPc = [f \in Forward |-> "idle"]
        /\ promise = [f \in Forward |-> "none"]
        /\ closed = FALSE
        /\ requests = {} /\ answers = {} /\ produced = {}

Settle(S, outcome) ==
  promise' = [f \in Forward |-> IF f \in S /\ promise[f] = "waiting"
                                THEN outcome ELSE promise[f]]

\* Faults: the id is left in the place of the entry; the entry is left.
DropToId(i) == entry' = [entry EXCEPT ![i] = i]
DropNothing(i) == entry' = entry

Drop(i) == entry' = [entry EXCEPT ![i] = None]

\* A closed proxy throws; an open one overwrites whatever has the id.
StartForward(f) ==
  /\ sendPc[f] = "idle" /\ ~closed
  /\ timer' = timer \cup {f}
  /\ entry' = [entry EXCEPT ![Id[f]] = f]
  /\ promise' = [promise EXCEPT ![f] = "waiting"]
  /\ sendPc' = [sendPc EXCEPT ![f] = "sending"]
  /\ requests' = requests \cup {f}
  /\ UNCHANGED <<closed, answers, produced>>

SendSucceeds(f) ==
  /\ sendPc[f] = "sending"
  /\ sendPc' = [sendPc EXCEPT ![f] = "sent"]
  /\ UNCHANGED <<entry, timer, promise, closed, requests, answers, produced>>

\* The message of a failed send may still arrive.
SendFails(f) ==
  /\ sendPc[f] = "sending"
  /\ sendPc' = [sendPc EXCEPT ![f] = "failed"]
  /\ Drop(Id[f])
  /\ timer' = timer \ {f}
  /\ Settle({f}, "sendError")
  /\ UNCHANGED <<closed, requests, answers, produced>>

\* The timer asks whether the id is pending, not whether f is.
Timeout(f) ==
  /\ f \in timer
  /\ timer' = timer \ {f}
  /\ Drop(Id[f])
  /\ Settle(IF entry[Id[f]] # None THEN {f} ELSE {}, "timeout")
  /\ UNCHANGED <<sendPc, closed, requests, answers, produced>>

WalletAnswers(f) ==
  /\ f \in requests
  /\ requests' = requests \ {f}
  /\ answers' = answers \cup {f}
  /\ produced' = produced \cup {f}
  /\ UNCHANGED proxyVars

\* Fault: a response resolves any forward that waits, whatever its id.
HandleResponseToAny(f) ==
  /\ f \in answers
  /\ answers' = answers \ {f}
  /\ \E i \in Ids : /\ Drop(i)
                   /\ timer' = timer \ {entry[i]}
                   /\ Settle({entry[i]}, "fulfilled")
  /\ UNCHANGED <<sendPc, closed, requests, produced>>

\* Whatever is pending under the id of the response is resolved with it; a
\* response nobody waits for is ignored.
HandleResponse(f) ==
  /\ f \in answers
  /\ answers' = answers \ {f}
  /\ Drop(Id[f])
  /\ timer' = timer \ {entry[Id[f]]}
  /\ Settle({entry[Id[f]]}, "fulfilled")
  /\ UNCHANGED <<sendPc, closed, requests, produced>>

\* Fault: close() clears the table and the timers but rejects nobody.
CloseSilently ==
  /\ ~closed
  /\ closed' = TRUE
  /\ entry' = [i \in Ids |-> None]
  /\ timer' = {}
  /\ UNCHANGED <<promise, sendPc, requests, answers, produced>>

Close ==
  /\ ~closed
  /\ closed' = TRUE
  /\ entry' = [i \in Ids |-> None]
  /\ timer' = timer \ {entry[i] : i \in Ids}
  /\ Settle({entry[i] : i \in Ids}, "closed")
  /\ UNCHANGED <<sendPc, requests, answers, produced>>

Next == \/ \E f \in Forward : \/ StartForward(f) \/ SendSucceeds(f) \/ SendFails(f)
                              \/ Timeout(f) \/ WalletAnswers(f) \/ HandleResponse(f)
        \/ Close

\* A timer that stays armed fires.  This is weak fairness of Timeout(f), which
\* is enabled while its guard holds, with the guard written out.
TimerFires(f) == []<>(f \notin timer) \/ []<><<Timeout(f)>>_vars

\* Timers fire; the wallet and its transport promise nothing.
Spec == Init /\ [][Next]_vars /\ \A f \in Forward : TimerFires(f)

-----------------------------------------------------------------------------
\* The values of the proxy's state.
TypeOK == /\ entry \in [Ids -> Forward \cup {None}]
          /\ timer \subseteq Forward
          /\ sendPc \in [Forward -> SendStages]
          /\ promise \in [Forward -> Outcomes]
          /\ closed \in BOOLEAN
          /\ requests \subseteq Forward /\ answers \subseteq Forward
          /\ produced \subseteq Forward

\* With distinct ids the table, the timers and the promises say the same: a
\* forward waits exactly while its entry is there and its timer runs, in
\* every order of response, timeout, failed send and close, and a closed proxy
\* has none left.
WaitingIffPending ==
  \A f \in Forward : /\ promise[f] = "waiting" <=> entry[Id[f]] = f
                     /\ promise[f] = "waiting" <=> f \in timer
                     /\ closed => promise[f] # "waiting"

\* Every forward ends, by the default timeout at the latest.
ForwardsEnd == \A f \in Forward : promise[f] = "waiting" ~> promise[f] # "waiting"

\* The proxy implements the abstract call, with the wallet as the peer.
Phase == [f \in Forward |-> CASE promise[f] = "none" -> "idle"
                              [] promise[f] \in {"waiting", "fulfilled"} -> promise[f]
                              [] OTHER -> "rejected"]

Abstract == INSTANCE RemoteCall WITH Call <- Forward, phase <- Phase

ImplementsRemoteCall == Abstract!Spec
=============================================================================
