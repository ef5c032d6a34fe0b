------------------------------ MODULE Discovery -----------------------------
(***************************************************************************)
(* DiscoveryInitiator with its InitiatorStateMachine, and the wallets it   *)
(* discovers.                                                              *)
(*                                                                         *)
(* The dApp broadcasts with dispatchEvent, which calls the wallets in the  *)
(* same page one after the other before it returns; each may answer, and   *)
(* the initiator's response handler then runs inside the answer, all of it *)
(* inside transition('DISCOVERING').  `turn` says which dispatch is going  *)
(* on and `told` whom it still has to call.  Wallets behind an extension   *)
(* get and send messages that may be late or lost.                         *)
(*                                                                         *)
(* A state machine lives from startDiscovery to cleanup(), exactly as long *)
(* as sessionId, so `session` stands for both; its terminal states last    *)
(* only within the step that cleans up.                                    *)
(***************************************************************************)
EXTENDS DiscoveryResponder

CONSTANTS InPage,   \* wallets that share the page's event target
          Rdns,     \* Rdns[r]: the reverse domain name of wallet r
          None      \* undefined

ASSUME NoneAssumption == None \notin Response

VARIABLES session,      \* sessionId, 0 for null
          drawn,        \* the last session id drawn
          known,        \* lastKnownState
          promise,      \* promise[s]: what startDiscovery of session s returned
          first,        \* firstResponses
          wallets,      \* keys of qualifiedWallets
          result,       \* result[s]: what the promise resolved with
          timer,        \* session whose state timeout is armed, or 0
          rebroadcast,  \* the rebroadcast interval is running
          turn,         \* the dispatch of a request that is going on
          told,         \* wallets the dispatch has still to call
          asked,        \* requests on their way to wallets behind an extension
          replies       \* responses on their way back

sessionVars == <<session, drawn, known, promise, timer, rebroadcast>>
foundVars   == <<first, wallets, result>>
pageVars    == <<turn, told>>
wireVars    == <<asked, replies>>
vars == <<responderVars, sessionVars, foundVars, pageVars, wireVars>>

Names    == {Rdns[r] : r \in Responder}
Outcomes == {"none", "waiting", "resolved", "conflict", "undispatched"}
Remote   == Responder \ InPage

Init == /\ ResponderInit
        /\ session = 0 /\ drawn = 0 /\ known = "IDLE"
        /\ promise = [s \in Session |-> "none"]
        /\ first = [d \in Names |-> None] /\ wallets = {}
        /\ result = [s \in Session |-> {}]
        /\ timer = 0 /\ rebroadcast = FALSE
        /\ turn = "free" /\ told = {}
        /\ asked = {} /\ replies = {}

-----------------------------------------------------------------------------
(* A response reaches the initiator.                                       *)

\* The response handler goes, the state machine is disposed, both timers are
\* cleared.  What was found stays until the next start or reset.
Cleanup == session' = 0 /\ timer' = 0 /\ rebroadcast' = FALSE

\* Fault: the session of a response is not compared.
ExpectedAny(m) == session # 0

Expected(m) == m.session = session

\* Fault: responses are told apart by responder id.
SeenById(m) == m.from \in wallets

Seen(m) == first[Rdns[m.from]] # None

\* Fault: a duplicate is harmless only from the very same wallet.
SameSender(m) == first[Rdns[m.from]].from = m.from

\* Equal in everything but the responder id.
Same(m) == first[Rdns[m.from]].look = m.look

\* A stale response, a malformed one or an identical duplicate.
IgnoreResponse(m) ==
  /\ Expected(m) => Seen(m) /\ Same(m)
  /\ UNCHANGED <<sessionVars, foundVars>>

\* Fault: the name of the first response is noted, not the response.
FirstResponseBare(m) ==
  /\ Expected(m) /\ ~Seen(m)
  /\ first' = [first EXCEPT ![Rdns[m.from]] = m.from]
  /\ wallets' = wallets \cup {m.from}
  /\ UNCHANGED <<sessionVars, result>>

FirstResponse(m) ==
  /\ Expected(m) /\ ~Seen(m)
  /\ first' = [first EXCEPT ![Rdns[m.from]] = m]
  /\ wallets' = wallets \cup {m.from}
  /\ UNCHANGED <<sessionVars, result>>

\* handleDuplicateResponse moves the state machine to ERROR; its listeners
\* dispatch the error event, reject the promise and clean up.
ConflictingResponse(m) ==
  /\ Expected(m) /\ Seen(m) /\ ~Same(m)
  /\ known' = "ERROR"
  /\ promise' = [promise EXCEPT ![session] = "conflict"]
  /\ Cleanup
  /\ UNCHANGED <<drawn, foundVars>>

HandleResponse(m) == \/ IgnoreResponse(m) \/ FirstResponse(m)
                     \/ ConflictingResponse(m)

-----------------------------------------------------------------------------
(* Broadcasting.                                                           *)

\* The event of the last session drawn; the interval dispatches it again.
Dispatch == /\ told' = listening \cap InPage
            /\ asked' = asked \cup (Remote \X {drawn'})
            /\ UNCHANGED replies

\* Fault: the state timeout is not armed.
StartUntimed ==
  /\ turn = "free" /\ session = 0
  /\ known \notin {"COMPLETED", "ERROR"}
  /\ drawn < MaxSession
  /\ drawn' = drawn + 1
  /\ session' = drawn + 1
  /\ promise' = [promise EXCEPT ![drawn + 1] = "waiting"]
  /\ first' = [d \in Names |-> None] /\ wallets' = {}
  /\ turn' = "starting"
  /\ Dispatch
  /\ UNCHANGED <<responderVars, known, timer, rebroadcast, result>>

\* The machine is in DISCOVERING from here on, and its timeout armed, but
\* lastKnownState changes only after the dispatch.
StartDiscovery ==
  /\ turn = "free" /\ session = 0
  /\ known \notin {"COMPLETED", "ERROR"}
  /\ drawn < MaxSession
  /\ drawn' = drawn + 1
  /\ session' = drawn + 1
  /\ timer' = drawn + 1
  /\ promise' = [promise EXCEPT ![drawn + 1] = "waiting"]
  /\ first' = [d \in Names |-> None] /\ wallets' = {}
  /\ turn' = "starting"
  /\ Dispatch
  /\ UNCHANGED <<responderVars, known, rebroadcast, result>>

Rebroadcast ==
  /\ turn = "free" /\ rebroadcast
  /\ turn' = "again"
  /\ drawn' = drawn
  /\ Dispatch
  /\ UNCHANGED <<responderVars, session, known, promise, timer, rebroadcast, foundVars>>

\* A wallet in the page handles the event, and its answer is heard at once.
Tell(r) ==
  /\ turn # "free" /\ r \in told
  /\ told' = told \ {r}
  /\ \/ /\ Refuse(r, drawn) \/ AdmitMismatch(r, drawn)
        /\ UNCHANGED <<sessionVars, foundVars>>
     \/ /\ SendResponse(r, drawn)
        /\ HandleResponse(Answer(r, drawn))
  /\ UNCHANGED <<turn, wireVars>>

\* Fault: the interval starts even if the machine was disposed meanwhile.
EndDispatchAlways ==
  /\ turn # "free" /\ told = {}
  /\ turn' = "free"
  /\ IF turn = "starting"
     THEN known' = "DISCOVERING" /\ rebroadcast' = TRUE
     ELSE UNCHANGED <<known, rebroadcast>>
  /\ UNCHANGED <<responderVars, session, drawn, promise, timer, foundVars, told, wireVars>>

\* transition('DISCOVERING') goes on: the interval is started unless the
\* machine was disposed in between, and the second listener is told of a
\* state that may be over.
EndDispatch ==
  /\ turn # "free" /\ told = {}
  /\ turn' = "free"
  /\ IF turn = "starting"
     THEN known' = "DISCOVERING" /\ rebroadcast' = (session # 0)
     ELSE UNCHANGED <<known, rebroadcast>>
  /\ UNCHANGED <<responderVars, session, drawn, promise, timer, foundVars, told, wireVars>>

\* A wallet behind an extension gets the request, and its answer comes back.
RemoteRequest(r, s) ==
  /\ <<r, s>> \in asked /\ r \in listening
  /\ asked' = asked \ {<<r, s>>}
  /\ \/ /\ Refuse(r, s) \/ AdmitMismatch(r, s)
        /\ UNCHANGED replies
     \/ /\ SendResponse(r, s)
        /\ replies' = replies \cup {Answer(r, s)}
  /\ UNCHANGED <<sessionVars, foundVars, pageVars>>

RemoteResponse(m) ==
  /\ turn = "free"
  /\ replies' = replies \ {m}
  /\ HandleResponse(m)
  /\ UNCHANGED <<responderVars, pageVars, asked>>

-----------------------------------------------------------------------------
(* The end of a session.                                                   *)

\* What COMPLETED means for the caller.  If the COMPLETE event cannot be
\* dispatched, the promise is rejected first.
Settle ==
  \/ /\ promise' = [promise EXCEPT ![session] = "resolved"]
     /\ result' = [result EXCEPT ![session] = wallets]
  \/ /\ promise' = [promise EXCEPT ![session] = "undispatched"]
     /\ UNCHANGED result

\* transition('COMPLETED') up to the settled promise.
Complete == /\ known' = "COMPLETED"
            /\ Settle
            /\ Cleanup
            /\ UNCHANGED <<drawn, first, wallets>>

\* The state timeout of DISCOVERING.
Timeout ==
  /\ turn = "free" /\ timer # 0
  /\ Complete
  /\ UNCHANGED <<responderVars, pageVars, wireVars>>

StopDiscovery ==
  /\ turn = "free" /\ session # 0
  /\ Complete
  /\ UNCHANGED <<responderVars, pageVars, wireVars>>

\* reset() stops the session that is open and forgets everything found;
\* dispose() and updateConfig() begin with it.
Reset ==
  /\ turn = "free" /\ known # "IDLE"
  /\ IF session # 0 THEN Settle ELSE UNCHANGED <<promise, result>>
  /\ Cleanup
  /\ first' = [d \in Names |-> None] /\ wallets' = {}
  /\ known' = "IDLE"
  /\ UNCHANGED <<responderVars, drawn, pageVars, wireVars>>

-----------------------------------------------------------------------------
Wallet(r) ==
  /\ r \in Unsteady
  /\ turn = "free" \/ r \in Remote
  /\ WalletActs(r)
  /\ UNCHANGED <<sessionVars, foundVars, pageVars, wireVars>>

Next == \/ StartDiscovery \/ Rebroadcast \/ EndDispatch
        \/ Timeout \/ StopDiscovery \/ Reset
        \/ \E r \in Responder : Tell(r) \/ Wallet(r)
        \/ \E r \in Remote, s \in Session : RemoteRequest(r, s)
        \/ \E m \in replies : RemoteResponse(m)

\* The state timeout is due once and runs in some turn between the ticks of
\* the interval, which keep disabling it.  This is strong fairness of Timeout,
\* with the guard that enables it written out.
TimeoutRuns == <>[]~(turn = "free" /\ timer # 0) \/ []<><<Timeout>>_vars

\* Every listener that a dispatch calls returns, and so does the dispatch.
DispatchRuns == (\A r \in Responder : WF_vars(Tell(r))) /\ WF_vars(EndDispatch)

Fairness == DispatchRuns /\ TimeoutRuns

Spec == Init /\ [][Next]_vars /\ Fairness

-----------------------------------------------------------------------------
(* Properties.                                                             *)

\* The values the variables may take.
TypeOK == /\ ResponderTypeOK
          /\ session \in 0..drawn /\ drawn \in 0..MaxSession
          /\ known \in {"IDLE", "DISCOVERING", "COMPLETED", "ERROR"}
          /\ promise \in [Session -> Outcomes]
          /\ first \in [Names -> Response \cup {None}]
          /\ wallets \subseteq Responder
          /\ result \in [Session -> SUBSET Responder]
          /\ timer \in 0..drawn /\ rebroadcast \in BOOLEAN
          /\ turn \in {"free", "starting", "again"}
          /\ told \subseteq InPage
          /\ asked \subseteq Remote \X Session
          /\ replies \subseteq Response

\* A session is whole: the promise that is unsettled is the current session's
\* and its timeout is armed; no interval goes on broadcasting without one,
\* even if the session ended inside the dispatch that was to start it.
SessionIsWhole ==
  /\ \A s \in Session : promise[s] = "waiting" <=> s = session
  /\ timer = session
  /\ rebroadcast => session # 0

\* A name belongs to the wallet that used it first: of several wallets under
\* one reverse domain name, only the first to answer is offered to the user.
FirstWins == wallets = {first[d].from : d \in {d \in Names : first[d] # None}}

\* The result holds only wallets that answered this very session: a late
\* answer to an earlier one does not count.
ResultAnswered ==
  \A s \in Session : \A r \in result[s] : \E a \in answered : a.session = s /\ a.from = r

\* Identical duplicates are tolerated: a discovery fails as a conflict only if
\* two answers to it, under one name, really differed.
ConflictIsReal ==
  \A s \in Session : promise[s] = "conflict" =>
    \E a, b \in answered : /\ a.session = s /\ b.session = s
                           /\ Rdns[a.from] = Rdns[b.from] /\ a.look # b.look

\* A request that is broadcast again and again is answered once.
AnsweredOnce == twice = {}

\* Every discovery ends, and the caller is told.
DiscoveryEnds == \A s \in Session : promise[s] = "waiting" ~> promise[s] # "waiting"

\* getState gives "the current protocol state for the discovery session": it
\* is DISCOVERING exactly while a session is open.
StateIsCurrent == turn = "free" => (known = "DISCOVERING" <=> session # 0)

\* Discovery implements the abstract session.
Phase == [s \in Session |-> CASE promise[s] = "none" -> "idle"
                              [] promise[s] \in {"waiting", "resolved"} -> promise[s]
                              [] OTHER -> "rejected"]
Found == [s \in Session |-> IF s = session THEN wallets ELSE result[s]]

Abstract == INSTANCE DiscoverySession WITH phase <- Phase, found <- Found

ImplementsSession == Abstract!Spec
=============================================================================
