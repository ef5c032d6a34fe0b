--------------------------- MODULE DiscoveryProofs --------------------------
(***************************************************************************)
(* For every set of wallets, names and looks and every number of sessions: *)
(* a discovery keeps what it promises, ends, and implements                *)
(* DiscoverySession.                                                       *)
(* Nothing is assumed of the wallets but what DiscoveryResponder does, nor *)
(* of the channel to an extension.                                         *)
(***************************************************************************)
EXTENDS Discovery, TLAPS

\* Answers on their way were sent; a dispatch is of a session that was drawn.
WireIsReal == replies \subseteq answered /\ (turn # "free" => drawn # 0)

\* While a session is open, what was found are answers to it, each noted
\* under its own name.
FirstIsCurrent ==
  session # 0 => \A d \in Names : first[d] # None =>
    first[d] \in answered /\ first[d].session = session /\ Rdns[first[d].from] = d

\* A session that was not drawn is new, and only one that resolved has a result.
ResultIsFinal ==
  \A s \in Session : /\ s > drawn => promise[s] = "none"
                     /\ promise[s] # "resolved" => result[s] = {}

\* A wallet remembers the sessions it answered until it forgets them all.
SentIsUsed == \A r \in Responder : sent[r] \subseteq usedSessions[r]

InitiatorOK ==
  /\ session \in 0..drawn /\ drawn \in 0..MaxSession
  /\ promise \in [Session -> Outcomes]
  /\ first \in [Names -> Response \cup {None}]
  /\ wallets \subseteq Responder
  /\ result \in [Session -> SUBSET Responder]
  /\ SessionIsWhole /\ FirstWins /\ FirstIsCurrent
  /\ ResultAnswered /\ ConflictIsReal /\ ResultIsFinal

IInv == TypeOK /\ InitiatorOK /\ WireIsReal /\ AnsweredOnce /\ SentIsUsed

USE ResponderAssumption, NoneAssumption

\* The invariant holds before anything is discovered.
LEMMA InitIInv == Init => IInv
<1> SUFFICES ASSUME Init PROVE IInv
  OBVIOUS
<1> USE DEF Init, ResponderInit
<1>1. InitiatorOK
  BY DEF InitiatorOK, Outcomes, Session, SessionIsWhole, FirstWins, FirstIsCurrent,
     ResultAnswered, ConflictIsReal, ResultIsFinal
<1>2. TypeOK
  BY <1>1 DEF InitiatorOK, TypeOK, ResponderTypeOK, SessionIsWhole
<1> QED
  BY <1>1, <1>2 DEF IInv, WireIsReal, AnsweredOnce, SentIsUsed

-----------------------------------------------------------------------------
(* The wallets.                                                            *)

Responds(r, s) == Refuse(r, s) \/ AdmitMismatch(r, s) \/ SendResponse(r, s)

WalletOK == ResponderTypeOK /\ AnsweredOnce /\ SentIsUsed

\* A wallet answers a session it has not used, and so once.
LEMMA RespondsStep ==
  ASSUME WalletOK, NEW r \in Responder, NEW s \in Session, Responds(r, s)
  PROVE  WalletOK' /\ answered \subseteq answered'
<1> USE DEF WalletOK, ResponderTypeOK, AnsweredOnce, SentIsUsed
<1>1. CASE Refuse(r, s)
  BY <1>1 DEF Refuse, responderVars
<1>2. CASE AdmitMismatch(r, s)
  BY <1>2 DEF AdmitMismatch, Record
<1>3. CASE SendResponse(r, s)
  <2>1. Answer(r, s) \in Response
    BY DEF Answer, Response
  <2>2. s \notin sent[r]
    BY <1>3 DEF SendResponse, Admits
  <2> QED
    BY <1>3, <2>1, <2>2 DEF SendResponse, Record
<1> QED
  BY <1>1, <1>2, <1>3 DEF Responds

\* What a wallet does besides takes no answer back; cleanup() forgets the
\* answered sessions together with the used ones.
LEMMA WalletActsStep ==
  ASSUME WalletOK, NEW r \in Responder, WalletActs(r)
  PROVE  WalletOK' /\ answered' = answered
<1> USE DEF WalletOK, ResponderTypeOK, AnsweredOnce, SentIsUsed
<1> QED
  BY DEF WalletActs, StartListening, StopListening, CleanupResponder, UpdateResponderInfo

-----------------------------------------------------------------------------
(* The initiator, beside the step of the abstract session it takes.        *)

AbstractStep == [Abstract!Next]_(Abstract!vars)

\* What the initiator does not touch is as good as it was: answers are kept.
LEMMA Untouched ==
  ASSUME InitiatorOK, UNCHANGED <<session, drawn, promise, timer, foundVars>>,
         answered \subseteq answered', rebroadcast' => session # 0
  PROVE  InitiatorOK' /\ AbstractStep
<1> USE DEF foundVars
<1>1. InitiatorOK'
  BY DEF InitiatorOK, SessionIsWhole, FirstWins, FirstIsCurrent, ResultAnswered, ConflictIsReal,
     ResultIsFinal
<1>2. UNCHANGED <<Phase, Found>>
  BY DEF Phase, Found
<1> QED
  BY <1>1, <1>2 DEF AbstractStep, Abstract!vars

\* Only the first answer under a name is noted, and only a different one to
\* the same session is a conflict.
LEMMA Heard ==
  ASSUME InitiatorOK, NEW m \in Response, m \in answered', answered \subseteq answered',
         HandleResponse(m)
  PROVE  InitiatorOK' /\ AbstractStep
<1> DEFINE d == Rdns[m.from]
<1>0. m.session \in Session /\ m.from \in Responder /\ d \in Names /\ m # None
  BY DEF Response, Names
<1>1. CASE IgnoreResponse(m)
  BY <1>1, Untouched DEF IgnoreResponse, sessionVars, InitiatorOK, SessionIsWhole
<1>2. CASE FirstResponse(m)
  <2>1. session = m.session /\ first[d] = None /\ first' = [first EXCEPT ![d] = m]
        /\ wallets' = wallets \cup {m.from} /\ UNCHANGED <<sessionVars, result>>
    BY <1>2 DEF FirstResponse, Expected, Seen
  <2> HIDE DEF d
  <2>2. FirstWins'
    BY <1>0, <2>1 DEF InitiatorOK, FirstWins
  <2>3. FirstIsCurrent'
    BY <1>0, <2>1 DEF InitiatorOK, FirstIsCurrent, sessionVars, d
  <2>4. InitiatorOK'
    BY <1>0, <2>1, <2>2, <2>3 DEF InitiatorOK, SessionIsWhole, ResultAnswered, ConflictIsReal,
       ResultIsFinal, sessionVars
  <2>5. Abstract!Find(session, m.from)
    <3>1. Phase[session] = "waiting" /\ Found[session] = wallets /\ Phase' = Phase
      BY <1>0, <2>1 DEF InitiatorOK, SessionIsWhole, Phase, Found, sessionVars
    <3>2. \A q \in wallets : Rdns[q] # Rdns[m.from]
      BY <1>0, <2>1 DEF InitiatorOK, FirstWins, FirstIsCurrent, Session, d
    <3>3. Found' = [Found EXCEPT ![session] = @ \cup {m.from}]
      BY <1>0, <2>1 DEF Found, sessionVars
    <3> QED
      BY <3>1, <3>2, <3>3 DEF Abstract!Find
  <2> QED
    BY <1>0, <2>1, <2>4, <2>5 DEF AbstractStep, Abstract!Next
<1>3. CASE ConflictingResponse(m)
  <2>1. /\ session = m.session /\ first[d] # None /\ first[d].look # m.look
        /\ promise' = [promise EXCEPT ![session] = "conflict"]
        /\ session' = 0 /\ timer' = 0 /\ rebroadcast' = FALSE
        /\ UNCHANGED <<drawn, foundVars>>
    BY <1>3 DEF ConflictingResponse, Expected, Seen, Same, Cleanup
  <2> HIDE DEF d
  <2>2. ConflictIsReal'
    <3>1. first[d] \in answered /\ first[d].session = session /\ Rdns[first[d].from] = d
      BY <1>0, <2>1 DEF InitiatorOK, FirstIsCurrent, Session
    <3>2. \A s \in Session : promise'[s] = "conflict" => s = session \/ promise[s] = "conflict"
      BY <2>1 DEF InitiatorOK
    <3> QED
      BY <1>0, <2>1, <3>1, <3>2 DEF InitiatorOK, ConflictIsReal, d
  <2>3. SessionIsWhole'
    BY <1>0, <2>1 DEF InitiatorOK, SessionIsWhole, Session
  <2>4. ResultIsFinal'
    BY <1>0, <2>1 DEF InitiatorOK, ResultIsFinal, SessionIsWhole, foundVars
  <2>5. InitiatorOK'
    BY <1>0, <2>1, <2>2, <2>3, <2>4 DEF InitiatorOK, FirstWins, FirstIsCurrent, ResultAnswered,
       Outcomes, foundVars
  <2>6. Abstract!Reject(session)
    <3>1. Phase[session] = "waiting" /\ Phase' = [Phase EXCEPT ![session] = "rejected"]
      BY <1>0, <2>1 DEF InitiatorOK, SessionIsWhole, Phase
    <3>2. Found' = [Found EXCEPT ![session] = {}]
      <4>1. 0 \notin Session /\ result[session] = {}
        BY <1>0, <2>1 DEF InitiatorOK, SessionIsWhole, ResultIsFinal, Session
      <4>2. Found' = [s \in Session |-> result[s]]
        BY <2>1, <4>1 DEF Found, foundVars
      <4> QED
        BY <1>0, <2>1, <4>1, <4>2 DEF Found
    <3> QED
      BY <3>1, <3>2 DEF Abstract!Reject
  <2> QED
    BY <1>0, <2>1, <2>5, <2>6 DEF AbstractStep, Abstract!Next
<1> QED
  BY <1>1, <1>2, <1>3 DEF HandleResponse

\* A new session begins with nothing found, when no other is open.
LEMMA Started ==
  ASSUME InitiatorOK, StartDiscovery PROVE InitiatorOK' /\ AbstractStep
<1> DEFINE s == drawn + 1
<1>1. /\ s \in Session /\ session = 0 /\ drawn' = s /\ session' = s /\ timer' = s
      /\ promise' = [promise EXCEPT ![s] = "waiting"]
      /\ first' = [d \in Names |-> None] /\ wallets' = {}
      /\ UNCHANGED <<rebroadcast, result, answered>>
  BY DEF StartDiscovery, InitiatorOK, Session, responderVars
<1>2. promise[s] = "none" /\ result[s] = {} /\ (\A t \in Session : promise[t] # "waiting")
  BY <1>1 DEF InitiatorOK, ResultIsFinal, SessionIsWhole, Session
<1>3. SessionIsWhole'
  BY <1>1, <1>2 DEF InitiatorOK, SessionIsWhole
<1>4. ResultIsFinal' /\ ConflictIsReal'
  BY <1>1, <1>2 DEF InitiatorOK, ResultIsFinal, ConflictIsReal, Session
<1>5. InitiatorOK'
  BY <1>1, <1>3, <1>4 DEF InitiatorOK, FirstWins, FirstIsCurrent, ResultAnswered, Outcomes, Session
<1>6. Abstract!Open(s)
  <2>1. (\A t \in Session : Phase[t] # "waiting") /\ Phase[s] = "idle"
    BY <1>1, <1>2 DEF Phase
  <2>2. Phase' = [Phase EXCEPT ![s] = "waiting"]
    BY <1>1 DEF InitiatorOK, Phase
  <2>3. Found' = Found
    <3>1. 0 \notin Session
      BY DEF Session
    <3>2. Found = [t \in Session |-> result[t]]
      BY <1>1, <3>1 DEF Found
    <3> QED
      BY <1>1, <1>2, <3>2 DEF Found
  <2> QED
    BY <2>1, <2>2, <2>3 DEF Abstract!Open
<1> QED
  BY <1>1, <1>5, <1>6 DEF AbstractStep, Abstract!Next

\* The end of a session: its promise is settled with what was found.
LEMMA Settled ==
  ASSUME InitiatorOK, session # 0, Settle, Cleanup, UNCHANGED <<drawn, answered>>,
         first' \in [Names -> Response \cup {None}], wallets' \subseteq Responder, FirstWins'
  PROVE  InitiatorOK' /\ AbstractStep
<1>1. session \in Session /\ session' = 0 /\ timer' = 0 /\ rebroadcast' = FALSE
  BY DEF InitiatorOK, Session, Cleanup
<1>2. \A r \in wallets : \E a \in answered : a.session = session /\ a.from = r
  BY DEF InitiatorOK, FirstWins, FirstIsCurrent
<1>3. \/ /\ promise' = [promise EXCEPT ![session] = "resolved"]
         /\ result' = [result EXCEPT ![session] = wallets]
      \/ /\ promise' = [promise EXCEPT ![session] = "undispatched"]
         /\ result' = result
  BY DEF Settle
<1>4. SessionIsWhole' /\ ConflictIsReal' /\ ResultIsFinal'
  <2>1. 0 \notin Session /\ session <= drawn
    BY DEF InitiatorOK, Session
  <2>2. /\ promise'[session] \in {"resolved", "undispatched"}
        /\ \A s \in Session : s # session => promise'[s] = promise[s] /\ result'[s] = result[s]
        /\ promise'[session] # "resolved" => result'[session] = result[session]
    BY <1>1, <1>3 DEF InitiatorOK
  <2>3. SessionIsWhole'
    BY <1>1, <2>1, <2>2 DEF InitiatorOK, SessionIsWhole
  <2>4. ConflictIsReal'
    <3>1. \A s \in Session : promise'[s] = "conflict" => promise[s] = "conflict"
      BY <1>1, <2>2
    <3> QED
      BY <3>1 DEF InitiatorOK, ConflictIsReal
  <2>5. ResultIsFinal'
    <3>1. promise[session] = "waiting"
      BY <1>1 DEF InitiatorOK, SessionIsWhole
    <3>2. \A s \in Session : s > drawn => s # session
      BY <2>1 DEF InitiatorOK, Session
    <3> QED
      BY <1>1, <2>2, <3>1, <3>2 DEF InitiatorOK, ResultIsFinal
  <2> QED
    BY <2>3, <2>4, <2>5
<1>5. ResultAnswered'
  BY <1>1, <1>2, <1>3 DEF InitiatorOK, ResultAnswered
<1>6. InitiatorOK'
  BY <1>1, <1>3, <1>4, <1>5 DEF InitiatorOK, FirstIsCurrent, Outcomes
<1>7. Phase[session] = "waiting" /\ promise[session] = "waiting" /\ result[session] = {}
  BY <1>1 DEF InitiatorOK, SessionIsWhole, ResultIsFinal, Phase
<1>8. CASE promise' = [promise EXCEPT ![session] = "resolved"]
           /\ result' = [result EXCEPT ![session] = wallets]
  <2>1. Phase' = [Phase EXCEPT ![session] = "resolved"]
    BY <1>1, <1>8 DEF InitiatorOK, Phase
  <2>2. Found' = Found
    BY <1>1, <1>8 DEF InitiatorOK, Found, Session
  <2> QED
    BY <1>1, <1>6, <1>7, <2>1, <2>2 DEF AbstractStep, Abstract!Next, Abstract!Resolve
<1>9. CASE promise' = [promise EXCEPT ![session] = "undispatched"] /\ result' = result
  <2>1. Phase' = [Phase EXCEPT ![session] = "rejected"]
    BY <1>1, <1>9 DEF InitiatorOK, Phase
  <2>2. Found' = [Found EXCEPT ![session] = {}]
    <3>1. 0 \notin Session
      BY DEF Session
    <3>2. Found' = [t \in Session |-> result[t]]
      BY <1>1, <1>9, <3>1 DEF Found
    <3> QED
      BY <1>1, <1>7, <3>2 DEF Found
  <2> QED
    BY <1>1, <1>6, <1>7, <2>1, <2>2 DEF AbstractStep, Abstract!Next, Abstract!Reject
<1> QED
  BY <1>3, <1>8, <1>9

-----------------------------------------------------------------------------
(* Every step of the specification.                                        *)

\* The parts of TypeOK that are not the wallets' and not the initiator's.
PageTypeOK == /\ known \in {"IDLE", "DISCOVERING", "COMPLETED", "ERROR"}
              /\ rebroadcast \in BOOLEAN
              /\ turn \in {"free", "starting", "again"} /\ told \subseteq InPage
              /\ asked \subseteq Remote \X Session

\* What can be told of the wallets, the initiator and the wire apart.
LEMMA Parts ==
  /\ IInv => WalletOK /\ InitiatorOK /\ PageTypeOK /\ WireIsReal /\ replies \subseteq Response
  /\ (WalletOK /\ InitiatorOK /\ PageTypeOK /\ WireIsReal /\ replies \subseteq Response)' => IInv'
<1> USE DEF IInv, TypeOK, WalletOK, InitiatorOK, PageTypeOK, SessionIsWhole
<1>1. IInv => WalletOK /\ InitiatorOK /\ PageTypeOK /\ WireIsReal /\ replies \subseteq Response
  OBVIOUS
<1>2. (WalletOK /\ InitiatorOK /\ PageTypeOK /\ WireIsReal /\ replies \subseteq Response)' => IInv'
  OBVIOUS
<1> QED
  BY <1>1, <1>2

\* Every step keeps the invariant, and is one of the abstract session or none.
LEMMA NextStep == IInv /\ [Next]_vars => IInv' /\ AbstractStep
<1> SUFFICES ASSUME IInv, [Next]_vars PROVE IInv' /\ AbstractStep
  OBVIOUS
<1> USE DEF PageTypeOK, WireIsReal
<1>0. WalletOK /\ InitiatorOK /\ PageTypeOK /\ WireIsReal /\ replies \subseteq Response
  BY Parts
<1>1. ASSUME UNCHANGED responderVars PROVE WalletOK' /\ answered' = answered
  BY <1>0, <1>1 DEF responderVars, WalletOK, ResponderTypeOK, AnsweredOnce, SentIsUsed
<1>2. SessionIsWhole /\ (drawn # 0 => drawn \in Session) /\ (session # 0 => drawn # 0)
  BY <1>0 DEF InitiatorOK, Session
<1>3. CASE UNCHANGED vars
  BY <1>0, <1>1, <1>2, <1>3, Untouched, Parts
     DEF vars, sessionVars, foundVars, pageVars, wireVars, SessionIsWhole
<1>4. CASE StartDiscovery
  <2>1. drawn' \in Session
    BY <1>0, <1>4 DEF StartDiscovery, InitiatorOK, Session
  <2>2. PageTypeOK' /\ WireIsReal' /\ replies' \subseteq Response
    BY <1>0, <1>1, <1>4, <2>1 DEF StartDiscovery, Dispatch, Session
  <2> QED
    BY <1>0, <1>1, <1>4, <2>2, Started, Parts DEF StartDiscovery
<1>5. CASE Rebroadcast
  <2>1. drawn' \in Session /\ drawn # 0
    BY <1>2, <1>5 DEF Rebroadcast, SessionIsWhole
  <2>2. PageTypeOK' /\ WireIsReal' /\ replies' \subseteq Response
    BY <1>0, <1>1, <1>5, <2>1 DEF Rebroadcast, Dispatch
  <2> QED
    BY <1>0, <1>1, <1>2, <1>5, <2>2, Untouched, Parts DEF Rebroadcast, SessionIsWhole
<1>6. CASE EndDispatch
  <2>1. PageTypeOK' /\ WireIsReal' /\ replies' \subseteq Response
    BY <1>0, <1>1, <1>6 DEF EndDispatch, wireVars
  <2>2. rebroadcast' => session # 0
    BY <1>2, <1>6 DEF EndDispatch, SessionIsWhole
  <2> QED
    BY <1>0, <1>1, <1>6, <2>1, <2>2, Untouched, Parts DEF EndDispatch
<1>7. CASE Timeout \/ StopDiscovery
  <2>1. session # 0 /\ Settle /\ Cleanup
    BY <1>2, <1>7 DEF Timeout, StopDiscovery, Complete, SessionIsWhole
  <2>2. UNCHANGED <<drawn, first, wallets, responderVars, pageVars, wireVars>> /\ known' = "COMPLETED"
    BY <1>7 DEF Timeout, StopDiscovery, Complete
  <2>3. FirstWins'
    BY <1>0, <2>2 DEF InitiatorOK, FirstWins
  <2>4. PageTypeOK' /\ WireIsReal' /\ replies' \subseteq Response
    BY <1>0, <1>1, <2>1, <2>2 DEF pageVars, wireVars, Cleanup
  <2>5. first \in [Names -> Response \cup {None}] /\ wallets \subseteq Responder
    BY <1>0 DEF InitiatorOK
  <2> QED
    BY <1>0, <1>1, <2>1, <2>2, <2>3, <2>4, <2>5, Settled, Parts
<1>8. CASE Reset
  <2>1. /\ UNCHANGED <<drawn, responderVars, pageVars, wireVars>> /\ known' = "IDLE" /\ Cleanup
        /\ first' = [d \in Names |-> None] /\ wallets' = {}
    BY <1>8 DEF Reset
  <2>2. FirstWins'
    BY <2>1 DEF FirstWins
  <2>3. PageTypeOK' /\ WireIsReal' /\ replies' \subseteq Response
    BY <1>0, <1>1, <2>1 DEF pageVars, wireVars, Cleanup
  <2>4. CASE session # 0
    BY <1>0, <1>1, <1>8, <2>1, <2>2, <2>3, <2>4, Settled, Parts DEF Reset
  <2>5. CASE session = 0
    <3>1. UNCHANGED <<session, drawn, promise, timer, result>> /\ rebroadcast' = FALSE
      BY <1>2, <1>8, <2>1, <2>5 DEF Reset, Cleanup, SessionIsWhole
    <3>2. InitiatorOK'
      BY <1>0, <1>1, <2>1, <2>2, <2>5, <3>1 DEF InitiatorOK, SessionIsWhole, FirstIsCurrent,
         ResultAnswered, ConflictIsReal, ResultIsFinal
    <3>3. UNCHANGED <<Phase, Found>>
      BY <2>5, <3>1 DEF Phase, Found, Session
    <3> QED
      BY <1>1, <2>1, <2>3, <3>2, <3>3, Parts DEF AbstractStep, Abstract!vars
  <2> QED
    BY <2>4, <2>5
<1>9. ASSUME NEW r \in Responder, Tell(r) PROVE IInv' /\ AbstractStep
  <2>1. drawn \in Session /\ UNCHANGED <<turn, wireVars, drawn>> /\ told' \subseteq told
    BY <1>0, <1>2, <1>9 DEF Tell, HandleResponse, IgnoreResponse, FirstResponse,
       ConflictingResponse, sessionVars
  <2>2. Responds(r, drawn)
    BY <1>9 DEF Tell, Responds
  <2>3. WalletOK' /\ answered \subseteq answered'
    BY <1>0, <2>1, <2>2, RespondsStep
  <2>4. CASE UNCHANGED <<sessionVars, foundVars>>
    <3>1. rebroadcast' => session # 0
      BY <1>2, <2>4 DEF sessionVars, SessionIsWhole
    <3>2. InitiatorOK' /\ AbstractStep
      BY <1>0, <2>3, <2>4, <3>1, Untouched DEF sessionVars
    <3> QED
      BY <1>0, <2>1, <2>3, <2>4, <3>2, Parts DEF sessionVars, wireVars
  <2>5. CASE SendResponse(r, drawn) /\ HandleResponse(Answer(r, drawn))
    <3>1. Answer(r, drawn) \in Response /\ Answer(r, drawn) \in answered'
      BY <1>0, <2>1, <2>5 DEF SendResponse, Answer, Response, WalletOK, ResponderTypeOK
    <3>2. InitiatorOK' /\ AbstractStep
      BY <1>0, <2>3, <2>5, <3>1, Heard
    <3>3. PageTypeOK'
      BY <1>0, <2>1, <2>5 DEF HandleResponse, IgnoreResponse, FirstResponse, ConflictingResponse,
         Cleanup, sessionVars, wireVars
    <3> QED
      BY <1>0, <2>1, <2>3, <3>2, <3>3, Parts DEF wireVars
  <2> QED
    BY <1>9, <2>4, <2>5 DEF Tell
<1>10. ASSUME NEW r \in Responder, Wallet(r) PROVE IInv' /\ AbstractStep
  <2>1. WalletOK' /\ answered' = answered /\ UNCHANGED <<sessionVars, foundVars, pageVars, wireVars>>
    BY <1>0, <1>10, WalletActsStep DEF Wallet
  <2>2. InitiatorOK' /\ AbstractStep
    BY <1>0, <1>2, <2>1, Untouched DEF sessionVars, SessionIsWhole
  <2> QED
    BY <1>0, <2>1, <2>2, Parts DEF sessionVars, pageVars, wireVars
<1>11. ASSUME NEW r \in Remote, NEW s \in Session, RemoteRequest(r, s) PROVE IInv' /\ AbstractStep
  <2>1. r \in Responder /\ asked' \subseteq asked /\ UNCHANGED <<sessionVars, foundVars, pageVars>>
    BY <1>11 DEF RemoteRequest, Remote
  <2>2. Responds(r, s)
    BY <1>11 DEF RemoteRequest, Responds
  <2>3. WalletOK' /\ answered \subseteq answered'
    BY <1>0, <2>1, <2>2, RespondsStep
  <2>4. InitiatorOK' /\ AbstractStep
    BY <1>0, <1>2, <2>1, <2>3, Untouched DEF sessionVars, SessionIsWhole
  <2>5. Answer(r, s) \in Response
    BY <1>0, <2>1 DEF Answer, Response, WalletOK, ResponderTypeOK
  <2>6. replies' \subseteq Response /\ replies' \subseteq answered'
    BY <1>0, <1>11, <2>3, <2>5 DEF RemoteRequest, SendResponse
  <2> QED
    BY <1>0, <2>1, <2>3, <2>4, <2>6, Parts DEF sessionVars, pageVars
<1>12. ASSUME NEW m \in replies, RemoteResponse(m) PROVE IInv' /\ AbstractStep
  <2>1. WalletOK' /\ answered' = answered
    BY <1>1, <1>12 DEF RemoteResponse
  <2>2. m \in Response /\ m \in answered'
    BY <1>0, <2>1
  <2>3. InitiatorOK' /\ AbstractStep
    BY <1>0, <1>12, <2>1, <2>2, Heard DEF RemoteResponse
  <2>4. PageTypeOK' /\ WireIsReal' /\ replies' \subseteq Response
    BY <1>0, <1>12, <2>1 DEF RemoteResponse, HandleResponse, IgnoreResponse, FirstResponse,
       ConflictingResponse, Cleanup, sessionVars, pageVars
  <2> QED
    BY <2>1, <2>3, <2>4, Parts
<1> QED
  BY <1>3, <1>4, <1>5, <1>6, <1>7, <1>8, <1>9, <1>10, <1>11, <1>12 DEF Next

-----------------------------------------------------------------------------
(* The theorems.                                                           *)

\* So the invariant holds of every state, and the initial state is abstract.
LEMMA IInvAlways == Spec => []IInv
<1>1. IInv /\ [Next]_vars => IInv'
  BY NextStep
<1> QED
  BY <1>1, InitIInv, PTL DEF Spec

\* The variables of initiator and wallets keep their types.
THEOREM TypeCorrect == Spec => []TypeOK
<1>1. IInv => TypeOK
  BY DEF IInv
<1> QED
  BY <1>1, IInvAlways, PTL

\* Every session that is open has its timer, and none that is over has a
\* promise unsettled or an interval that goes on broadcasting.
THEOREM WholeCorrect == Spec => []SessionIsWhole
<1>1. IInv => SessionIsWhole
  BY DEF IInv, InitiatorOK
<1> QED
  BY <1>1, IInvAlways, PTL

\* Only the first wallet under a name is offered to the user.
THEOREM FirstCorrect == Spec => []FirstWins
<1>1. IInv => FirstWins
  BY DEF IInv, InitiatorOK
<1> QED
  BY <1>1, IInvAlways, PTL

\* A late answer to an earlier session is in no result.
THEOREM ResultCorrect == Spec => []ResultAnswered
<1>1. IInv => ResultAnswered
  BY DEF IInv, InitiatorOK
<1> QED
  BY <1>1, IInvAlways, PTL

\* A conflict is never reported of answers that were alike.
THEOREM ConflictCorrect == Spec => []ConflictIsReal
<1>1. IInv => ConflictIsReal
  BY DEF IInv, InitiatorOK
<1> QED
  BY <1>1, IInvAlways, PTL

\* However often a request is broadcast, each wallet answers it once, unless
\* it was told to forget its sessions.
THEOREM OnceCorrect == Spec => []AnsweredOnce
<1>1. IInv => AnsweredOnce
  BY DEF IInv
<1> QED
  BY <1>1, IInvAlways, PTL

\* Discovery implements the abstract session: one session at a time, one
\* wallet under a name, one outcome, and a result that is final.
THEOREM Refinement == Spec => ImplementsSession
<1>1. Init => Abstract!Init
  <2>1. 0 \notin Session
    BY DEF Session
  <2> QED
    BY <2>1 DEF Init, Abstract!Init, Phase, Found
<1>2. IInv /\ [Next]_vars => [Abstract!Next]_(Abstract!vars)
  BY NextStep DEF AbstractStep
<1> QED
  BY <1>1, <1>2, IInvAlways, PTL DEF Spec, ImplementsSession, Abstract!Spec

-----------------------------------------------------------------------------
(* Discoveries end.                                                        *)

\* Every dispatch returns to its caller.
DispatchReturns == []<>(turn = "free")

\* Every discovery ends, by its state timeout at the latest, however many
\* wallets answer and however often the request is broadcast, if each dispatch
\* returns: the timer is that of the open session until the session is over.
THEOREM LivenessCorrect == Spec /\ DispatchReturns => DiscoveryEnds
<1> SUFFICES ASSUME NEW s \in Session
             PROVE  Spec /\ DispatchReturns => (promise[s] = "waiting" ~> promise[s] # "waiting")
  BY DEF DiscoveryEnds
<1>1. Spec => <>[]~(turn = "free" /\ timer # 0) \/ []<><<Timeout>>_vars
  <2>1. Spec => TimeoutRuns
    BY DEF Spec, Fairness
  <2>2. TimeoutRuns => <>[]~(turn = "free" /\ timer # 0) \/ []<><<Timeout>>_vars
    BY DEF TimeoutRuns
  <2> QED
    BY <2>1, <2>2
<1>2. IInv /\ ~(promise[s] # "waiting") => timer # 0
  BY DEF IInv, SessionIsWhole, InitiatorOK, Session
<1>3. IInv /\ ~(promise[s] # "waiting") /\ Timeout => (promise[s] # "waiting")'
  <2> SUFFICES ASSUME IInv, promise[s] = "waiting", Timeout PROVE promise'[s] # "waiting"
    OBVIOUS
  <2>1. s = session /\ promise \in [Session -> Outcomes]
    BY DEF IInv, InitiatorOK, SessionIsWhole
  <2> QED
    BY <2>1 DEF Timeout, Complete, Settle
<1> QED
  BY <1>1, <1>2, <1>3, IInvAlways, PTL DEF DispatchReturns
=============================================================================
