------------------------- MODULE WalletRouterProofs -------------------------
(***************************************************************************)
(* For every set of requests, sessions and chains and every bulk size:     *)
(* what the router's checks guarantee of a request that has passed them,   *)
(* however the requests interleave with each other, with the user, the     *)
(* timers and the wallet's side.  What the approval queue guarantees comes *)
(* from ApprovalQueueProofs.                                               *)
(***************************************************************************)
EXTENDS WalletRouter, TLAPS

Q == INSTANCE ApprovalQueueProofs WITH Id <- [r \in Request |-> r], Immediate <- {}

USE RouterAssumption

-----------------------------------------------------------------------------
(* The invariant.                                                          *)

\* The stages in which a request is past the session middleware.
Checked == {"permission", "approval", "handler", "approving", "reading", "cleaning", "forwarded"}

\* A request names a session that was drawn, and is in a stage of its method.
ParamsOK(r) == /\ sid[r] \in drawn \cup {None}
               /\ kind[r] # "connect" \/ pc[r] = "approving" => sid[r] \in drawn
               /\ pc[r] = "approving" => kind[r] \in {"connect", "updatePermissions"}
               /\ pc[r] = "cleaning" => kind[r] = "disconnect"
               /\ pc[r] = "reading" => kind[r] # "connect"

\* While the middleware is installed, what it let pass names a session that
\* somebody approved, although the session may be gone by now.
SessionOK(r) ==
  open /\ kind[r] # "connect" /\ (pc[r] \in Checked \/ (pc[r] = "session" /\ held[r] # None))
    => Granted(sid[r])

\* A request is in the queue while it waits for the user, and past the queue
\* only with the user's consent.
ApprovalOK(r) ==
  /\ pc[r] \in {"new", "session", "permission"} => verdict[r] = "none"
  /\ verdict[r] = "waiting" => pc[r] = "approval"
  /\ open /\ AsksUser(r) /\ pc[r] \in {"handler", "forwarded"} => dialog[r] = "yes"

\* A forward waits for a proxy that is open, for at least one answer.
ForwardOK(r) ==
  /\ pc[r] = "forwarded" => /\ kind[r] \in ForwardKinds /\ via[r] \in Live
                            /\ left[r] \in 1..BulkSize
  /\ pc[r] \in Stages \ {"forwarded"} => left[r] = 0
  /\ pc[r] = "partial" => kind[r] = "bulkCall" /\ left[r] \in 1..(BulkSize - 1)

RequestOK(r) == ParamsOK(r) /\ SessionOK(r) /\ ApprovalOK(r) /\ ForwardOK(r)

\* The variables that are not the queue's.
RouterTypeOK ==
  /\ store \in [Session -> Session \cup {None}]
  /\ ctx \in Session \cup {None}
  /\ drawn \subseteq Session /\ terminated \subseteq drawn /\ revoking \subseteq drawn
  /\ open \in BOOLEAN
  /\ proxy \in [Chain -> 0..proxies] /\ proxies \in 0..MaxProxy
  /\ pc \in [Request -> Stages \cup Outcomes]
  /\ kind \in [Request -> Kinds]
  /\ sid \in [Request -> Session \cup {None}]
  /\ held \in [Request -> Session \cup {None}]
  /\ shown \in [Request -> Session \cup {None}]
  /\ via \in [Request -> 0..proxies]
  /\ left \in [Request -> 0..BulkSize]

StoreOK == StoredIsGranted /\ \A s \in Session : store[s] # None => s \in drawn

IInv == RouterTypeOK /\ StoreOK /\ Q!IInv /\ \A r \in Request : RequestOK(r)

\* The invariant holds when the router starts, with what the store kept.
LEMMA InitIInv == Init => IInv
<1> SUFFICES ASSUME Init PROVE IInv
  OBVIOUS
<1> USE DEF Init
<1>1. Q!IInv
  <2>1. Q!QueueInit
    BY DEF Q!QueueInit, Approvals!QueueInit, Q!Ids, Approvals!Ids
  <2> QED
    BY <2>1, Q!InitIInv DEF Q!NoneAssumption
<1>2. RouterTypeOK
  BY DEF RouterTypeOK, Stages, Kinds
<1>3. StoreOK
  BY DEF StoreOK, StoredIsGranted, Granted
<1>4. \A r \in Request : RequestOK(r)
  <2>1. \A r \in Request : verdict[r] = "none"
    BY DEF Approvals!QueueInit
  <2> QED
    BY <2>1 DEF RequestOK, ParamsOK, SessionOK, ApprovalOK, ForwardOK, Checked, Stages
<1> QED
  BY <1>1, <1>2, <1>3, <1>4 DEF IInv

-----------------------------------------------------------------------------
(* The approval queue.                                                     *)

\* What the router needs to know of the queue.
LEMMA QueueFacts ==
  ASSUME Q!IInv
  PROVE  \A r \in Request : /\ verdict[r] = "waiting" <=> pending[r] = r
                            /\ verdict[r] = "approved" => dialog[r] = "yes"
<1> USE DEF Q!IInv
<1>1. \A r \in Request : [q \in Request |-> q][r] = r
  OBVIOUS
<1>2. \A r \in Request : verdict[r] = "waiting" <=> pending[r] = r
  BY <1>1 DEF Q!QueueConsistent
<1>3. \A r \in Request : verdict[r] = "approved" => dialog[r] = "yes"
  BY <1>1 DEF Q!OwnVerdict
<1> QED
  BY <1>2, <1>3

\* What the router does with its queue is a step of the queue by itself.
LEMMA QueueMove ==
  ASSUME \/ UNCHANGED queueVars
         \/ \E r \in Request : Approvals!Queue(r) \/ Approvals!Decide(r) \/ Approvals!Expire(r)
  PROVE  [Q!QueueNext]_(Q!queueVars)
<1>1. \A r \in Request : r \in Q!Ids
  BY DEF Q!Ids
<1>2. CASE UNCHANGED queueVars
  BY <1>2 DEF queueVars, Q!queueVars
<1>3. ASSUME NEW r \in Request, Approvals!Queue(r) PROVE Q!QueueNext
  <2>1. Q!Queue(r)
    BY <1>3 DEF Approvals!Queue, Approvals!AskUser, Approvals!AutoApprove, Approvals!Enqueue,
       Q!Queue, Q!AskUser, Q!AutoApprove, Q!Enqueue
  <2> QED
    BY <2>1 DEF Q!QueueNext
<1>4. ASSUME NEW r \in Request, Approvals!Decide(r) PROVE Q!QueueNext
  <2>1. Q!Decide(r)
    BY <1>4 DEF Approvals!Decide, Approvals!Release, Q!Decide, Q!Release
  <2> QED
    BY <2>1 DEF Q!QueueNext
<1>5. ASSUME NEW r \in Request, Approvals!Expire(r) PROVE Q!QueueNext
  <2>1. Q!Expire(r)
    BY <1>5 DEF Approvals!Expire, Approvals!Release, Q!Expire, Q!Release
  <2> QED
    BY <1>1, <2>1 DEF Q!QueueNext
<1> QED
  BY <1>2, <1>3, <1>4, <1>5

\* So the router keeps what the queue keeps.
LEMMA QueueStep ==
  ASSUME Q!IInv,
         \/ UNCHANGED queueVars
         \/ \E r \in Request : Approvals!Queue(r) \/ Approvals!Decide(r) \/ Approvals!Expire(r)
  PROVE  Q!IInv'
<1>1. Q!NoneAssumption
  BY DEF Q!NoneAssumption
<1> QED
  BY <1>1, QueueMove, Q!MapsStep, Q!VerdictStep DEF Q!IInv

\* A request that enters the queue changes nothing for the others.
LEMMA QueueEnters ==
  ASSUME Q!IInv, NEW r \in Request, Approvals!Queue(r)
  PROVE  \A q \in Request \ {r} : verdict'[q] = verdict[q] /\ dialog'[q] = dialog[q]
  BY DEF Q!IInv, Q!QueueTypeOK, Approvals!Queue, Approvals!AskUser, Approvals!AutoApprove,
         Approvals!Enqueue

\* The user and the timers release; they neither enqueue nor take consent back.
LEMMA QueueMoves ==
  ASSUME Q!IInv, UserOrTimer
  PROVE  \A q \in Request : /\ verdict'[q] = "waiting" => verdict[q] = "waiting"
                            /\ verdict[q] = "none" => verdict'[q] = "none"
                            /\ dialog[q] = "yes" => dialog'[q] = "yes"
<1> USE DEF Q!IInv, Q!QueueTypeOK, Approvals!Release
<1>0. \A r \in Request : [q \in Request |-> q][r] = r /\ r \in Q!Ids
  BY DEF Q!Ids
<1>1. \A q \in Request : pending[q] = q <=> verdict[q] = "waiting"
  BY QueueFacts
<1>2. \A i \in Request : pending[i] # None => pending[i] = i
  <2>1. \A i \in Request : pending[i] # None => pending[i] \in Request
    BY <1>0
  <2> QED
    BY <1>0, <2>1 DEF Q!EntryIsOwn
<1>3. ASSUME NEW r \in Request, Approvals!Decide(r) \/ Approvals!Expire(r), NEW q \in Request
      PROVE  /\ verdict'[q] = "waiting" => verdict[q] = "waiting"
             /\ verdict[q] = "none" => verdict'[q] = "none"
             /\ dialog[q] = "yes" => dialog'[q] = "yes"
  <2>1. pending[r] \in {r, None}
    BY <1>2
  <2>2. dialog[q] = "yes" => dialog'[q] = "yes"
    BY <1>3 DEF Approvals!Decide, Approvals!Expire
  <2>3. verdict'[q] = verdict[q]
        \/ (q = pending[r] /\ verdict'[q] \in {"approved", "denied", "timedOut"})
    BY <1>0, <1>3 DEF Approvals!Decide, Approvals!Expire
  <2>4. q = pending[r] => verdict[q] = "waiting"
    BY <1>1, <2>1
  <2> QED
    BY <2>2, <2>3, <2>4
<1> QED
  BY <1>3 DEF UserOrTimer, UserDecides, ApprovalExpires

-----------------------------------------------------------------------------
(* What a step leaves of the other requests.                               *)

\* An approved session stays one: a connect that ended does not begin again.
LEMMA GrantedStays ==
  ASSUME \A r \in Request : pc[r] = "ok" => /\ pc'[r] = "ok"
                                            /\ kind'[r] = kind[r] /\ sid'[r] = sid[r],
         NEW s, Granted(s)
  PROVE  Granted(s)'
  BY DEF Granted

\* Request q does not move, and the queue keeps what it has said to it.
Stays(q) == /\ pc'[q] = pc[q] /\ kind'[q] = kind[q] /\ sid'[q] = sid[q]
            /\ held'[q] = held[q] /\ via'[q] = via[q] /\ left'[q] = left[q]
            /\ verdict'[q] = "waiting" => verdict[q] = "waiting"
            /\ verdict[q] = "none" => verdict'[q] = "none"
            /\ dialog[q] = "yes" => dialog'[q] = "yes"

\* A request that stays is as good as before, if its session stays approved
\* and its wallet stays connected.
LEMMA StillOK ==
  ASSUME NEW q \in Request, RequestOK(q), Stays(q), drawn \subseteq drawn', open' => open,
         pc[q] = "forwarded" => (via[q] \in Live => via[q] \in Live'),
         Granted(sid[q]) => Granted(sid[q])'
  PROVE  RequestOK(q)'
<1> USE DEF RequestOK, Stays
<1>1. ParamsOK(q)'
  BY DEF ParamsOK
<1>2. SessionOK(q)'
  BY DEF SessionOK
<1>3. ApprovalOK(q)'
  BY DEF ApprovalOK, AsksUser
<1>4. ForwardOK(q)'
  BY DEF ForwardOK
<1> QED
  BY <1>1, <1>2, <1>3, <1>4

\* A step of request r: no other request moves, and no wallet comes or goes.
Moves(r) == /\ pc[r] \in Stages
            /\ \A q \in Request \ {r} : Stays(q)
            /\ drawn \subseteq drawn' /\ UNCHANGED walletVars

\* A step of one request needs to be looked at for that request only.
LEMMA MovesOK ==
  ASSUME IInv, NEW r \in Request, Moves(r),
         RouterTypeOK', StoreOK', Q!IInv',
         (\A s \in Session : Granted(s) => Granted(s)') => RequestOK(r)'
  PROVE  IInv'
<1>1. \A s : Granted(s) => Granted(s)'
  <2>1. \A q \in Request : pc[q] = "ok" => pc'[q] = "ok" /\ kind'[q] = kind[q] /\ sid'[q] = sid[q]
    BY DEF Moves, Stays, Stages
  <2> QED
    BY <2>1, GrantedStays
<1>2. ASSUME NEW q \in Request, q # r PROVE RequestOK(q)'
  <2>1. Stays(q) /\ drawn \subseteq drawn' /\ open' = open /\ RequestOK(q) /\ Live' = Live
    BY <1>2 DEF Moves, IInv, walletVars, Live
  <2> QED
    <3>1. Granted(sid[q]) => Granted(sid[q])'
      BY <1>1, <1>2, <2>1 DEF Granted, Stays, Moves
    <3> QED
      BY <1>2, <2>1, <3>1, StillOK DEF Moves
<1> QED
  BY <1>1, <1>2 DEF IInv

-----------------------------------------------------------------------------
(* The steps of one request.                                               *)

\* Most steps leave the store and the queue alone.
LEMMA QuietOK ==
  ASSUME IInv, NEW r \in Request, Moves(r), UNCHANGED <<store, queueVars>>, RouterTypeOK',
         (\A s \in Session : Granted(s) => Granted(s)') => RequestOK(r)'
  PROVE  IInv'
<1>1. Q!IInv'
  BY QueueStep DEF IInv
<1>2. \A s : Granted(s) => Granted(s)'
  <2>1. \A q \in Request : pc[q] = "ok" => pc'[q] = "ok" /\ kind'[q] = kind[q] /\ sid'[q] = sid[q]
    BY DEF Moves, Stays, Stages
  <2> QED
    BY <2>1, GrantedStays
<1>3. StoreOK'
  BY <1>2 DEF IInv, StoreOK, StoredIsGranted, Moves, walletVars
<1> QED
  BY <1>1, <1>3, MovesOK

\* The middleware and the handlers that neither store nor ask.
LEMMA QuietSteps ==
  ASSUME IInv, NEW r \in Request,
         \/ ArriveConnect(r) \/ ArriveMalformed(r)
         \/ \E k \in Kinds \ {"connect"}, s \in drawn : ArriveWithSession(r, k, s)
         \/ SessionChecked(r) \/ PermissionRefused(r) \/ ApprovalSettled(r)
         \/ PermissionsRefused(r) \/ PermissionsRead(r) \/ HandlerRefuses(r)
         \/ UpdatePermissions(r) \/ Reconnect(r) \/ GetPermissions(r) \/ Disconnect(r)
         \/ ListRouterMethods(r) \/ (\E s \in Session : Connect(r, s))
         \/ (\E ch \in Chain : Forward(r, ch)) \/ Answer(r)
  PROVE  IInv'
<1> DEFINE Keeps == \A s \in Session : Granted(s) => Granted(s)'
           Quiet == /\ Moves(r) /\ UNCHANGED <<store, queueVars>> /\ RouterTypeOK'
                    /\ Keeps => RequestOK(r)'
<1> SUFFICES Quiet
  BY QuietOK
<1>0. RouterTypeOK /\ RequestOK(r) /\ StoreOK
  BY DEF IInv
<1> USE <1>0 DEF Goto, Moves, Stays, RouterTypeOK, sessionVars, walletVars, paramVars, queueVars
<1>1. CASE ArriveConnect(r)
  <2>1. Moves(r) /\ UNCHANGED <<store, queueVars>> /\ RouterTypeOK'
    BY <1>1 DEF ArriveConnect, Stages, Outcomes, Kinds
  <2>2. ASSUME Keeps PROVE RequestOK(r)'
    BY <1>1, <2>1, <2>2 DEF ArriveConnect, RequestOK, ParamsOK, SessionOK, ApprovalOK, ForwardOK,
       Checked, Stages, ForwardKinds, AsksUser, Live
  <2> QED
    BY <2>1, <2>2
<1>2. ASSUME NEW k \in Kinds \ {"connect"}, NEW s \in drawn, ArriveWithSession(r, k, s)
      PROVE  Quiet
  <2>3. store[s] # None /\ open => Granted(s)
    BY DEF StoreOK, StoredIsGranted
  <2>1. Moves(r) /\ UNCHANGED <<store, queueVars>> /\ RouterTypeOK'
    BY <1>2 DEF ArriveWithSession, Stages, Outcomes, Kinds
  <2>2. ASSUME Keeps PROVE RequestOK(r)'
    BY <1>2, <2>1, <2>2, <2>3 DEF ArriveWithSession, RequestOK, ParamsOK, SessionOK, ApprovalOK, ForwardOK,
       Checked, Stages, ForwardKinds, AsksUser, Live
  <2> QED
    BY <2>1, <2>2
<1>3. CASE SessionChecked(r)
  <2>1. Moves(r) /\ UNCHANGED <<store, queueVars>> /\ RouterTypeOK'
    BY <1>3 DEF SessionChecked, Stages, Outcomes, Kinds
  <2>2. ASSUME Keeps PROVE RequestOK(r)'
    BY <1>3, <2>1, <2>2 DEF SessionChecked, RequestOK, ParamsOK, SessionOK, ApprovalOK, ForwardOK,
       Checked, Stages, ForwardKinds, AsksUser, Live
  <2> QED
    BY <2>1, <2>2
<1>4. CASE \/ ArriveMalformed(r) \/ PermissionRefused(r) \/ PermissionsRefused(r) \/ SendFails(r)
          \/ PermissionsRead(r) \/ HandlerRefuses(r) \/ Disconnect(r) \/ ListRouterMethods(r)
  <2>1. Moves(r) /\ UNCHANGED <<store, queueVars>> /\ RouterTypeOK'
    BY <1>4 DEF ArriveMalformed, PermissionRefused, PermissionsRefused, SendFails, PermissionsRead,
       HandlerRefuses, Disconnect, ListRouterMethods, Stages, Outcomes, Kinds
  <2>2. ASSUME Keeps PROVE RequestOK(r)'
    BY <1>4, <2>1, <2>2 DEF ArriveMalformed, PermissionRefused, PermissionsRefused, SendFails, PermissionsRead,
       HandlerRefuses, Disconnect, ListRouterMethods, RequestOK, ParamsOK, SessionOK, ApprovalOK, ForwardOK,
       Checked, Stages, ForwardKinds, AsksUser, Live
  <2> QED
    BY <2>1, <2>2
<1>5. CASE ApprovalSettled(r)
  <2>3. verdict[r] = "approved" => dialog[r] = "yes"
    BY QueueFacts DEF IInv
  <2>1. Moves(r) /\ UNCHANGED <<store, queueVars>> /\ RouterTypeOK'
    BY <1>5 DEF ApprovalSettled, Stages, Outcomes, Kinds
  <2>2. ASSUME Keeps PROVE RequestOK(r)'
    BY <1>5, <2>1, <2>2, <2>3 DEF ApprovalSettled, RequestOK, ParamsOK, SessionOK, ApprovalOK, ForwardOK,
       Checked, Stages, ForwardKinds, AsksUser, Live
  <2> QED
    BY <2>1, <2>2
<1>6. CASE UpdatePermissions(r) \/ Reconnect(r) \/ GetPermissions(r)
  <2>3. kind[r] = "reconnect" => sid[r] \in Session
    BY DEF RequestOK, ParamsOK
  <2>1. Moves(r) /\ UNCHANGED <<store, queueVars>> /\ RouterTypeOK'
    BY <1>6, <2>3 DEF UpdatePermissions, Reconnect, GetPermissions, Stages, Outcomes, Kinds
  <2>2. ASSUME Keeps PROVE RequestOK(r)'
    BY <1>6, <2>1, <2>2 DEF UpdatePermissions, Reconnect, GetPermissions, RequestOK, ParamsOK, SessionOK, ApprovalOK, ForwardOK,
       Checked, Stages, ForwardKinds, AsksUser, Live
  <2> QED
    BY <2>1, <2>2
<1>7. ASSUME NEW s \in Session, Connect(r, s) PROVE Quiet
  <2>1. Moves(r) /\ UNCHANGED <<store, queueVars>> /\ RouterTypeOK'
    BY <1>7 DEF Connect, Stages, Outcomes, Kinds
  <2>2. ASSUME Keeps PROVE RequestOK(r)'
    BY <1>7, <2>1, <2>2 DEF Connect, RequestOK, ParamsOK, SessionOK, ApprovalOK, ForwardOK,
       Checked, Stages, ForwardKinds, AsksUser, Live
  <2> QED
    BY <2>1, <2>2
<1>8. ASSUME NEW ch \in Chain, Forward(r, ch) PROVE Quiet
  <2>1. Moves(r) /\ UNCHANGED <<store, queueVars>> /\ RouterTypeOK'
    BY <1>8 DEF Forward, Stages, Outcomes, Kinds, ForwardKinds
  <2>2. ASSUME Keeps PROVE RequestOK(r)'
    BY <1>8, <2>1, <2>2 DEF Forward, RequestOK, ParamsOK, SessionOK, ApprovalOK, ForwardOK,
       Checked, Stages, ForwardKinds, AsksUser, Live
  <2> QED
    BY <2>1, <2>2
<1>9. CASE WalletAnswers(r)
  <2>3. left[r] \in 1..BulkSize
    BY <1>9 DEF WalletAnswers, RequestOK, ForwardOK
  <2>1. Moves(r) /\ UNCHANGED <<store, queueVars>> /\ RouterTypeOK'
    BY <1>9, <2>3 DEF WalletAnswers, Stages, Outcomes, Kinds
  <2>2. ASSUME Keeps PROVE RequestOK(r)'
    BY <1>9, <2>1, <2>2, <2>3 DEF WalletAnswers, RequestOK, ParamsOK, SessionOK, ApprovalOK, ForwardOK,
       Checked, Stages, ForwardKinds, AsksUser, Live
  <2> QED
    BY <2>1, <2>2
<1>10. CASE ForwardFails(r)
  <2>1. Moves(r) /\ UNCHANGED <<store, queueVars>> /\ RouterTypeOK'
    BY <1>10 DEF ForwardFails, Failure, Stages, Outcomes, Kinds
  <2>2. ASSUME Keeps PROVE RequestOK(r)'
    BY <1>10, <2>1, <2>2 DEF ForwardFails, Failure, RequestOK, ParamsOK, SessionOK, ApprovalOK, ForwardOK,
       Checked, Stages, ForwardKinds, AsksUser, Live
  <2> QED
    BY <2>1, <2>2
<1> QED
  BY <1>1, <1>2, <1>3, <1>4, <1>5, <1>6, <1>7, <1>8, <1>9, <1>10 DEF Answer

\* A request asks the user before its handler, or need not.
LEMMA PermissionGrantedStep ==
  ASSUME IInv, NEW r \in Request, PermissionGranted(r) PROVE IInv'
<1>0. RouterTypeOK /\ RequestOK(r) /\ StoreOK /\ Q!IInv
  BY DEF IInv
<1>1. CASE AsksUser(r)
  <2>1. /\ Approvals!Queue(r) /\ pc' = [pc EXCEPT ![r] = "approval"]
        /\ shown' = [shown EXCEPT ![r] = ctx] /\ pc[r] = "permission"
        /\ UNCHANGED <<sessionVars, walletVars, kind, sid, held, via, left>>
    BY <1>1 DEF PermissionGranted, Goto
  <2>2. \A q \in Request \ {r} : verdict'[q] = verdict[q] /\ dialog'[q] = dialog[q]
    BY <1>0, <2>1, QueueEnters
  <2>3. Q!IInv'
    BY <1>0, <2>1, QueueStep
  <2>4. Moves(r) /\ RouterTypeOK'
    BY <1>0, <2>1, <2>2 DEF RouterTypeOK, Moves, Stays, Stages, sessionVars, walletVars
  <2>5. \A s : Granted(s) => Granted(s)'
    <3>1. \A q \in Request : pc[q] = "ok" => pc'[q] = "ok" /\ kind'[q] = kind[q] /\ sid'[q] = sid[q]
      BY <2>1, <2>4 DEF Moves, Stays
    <3> QED
      BY <3>1, GrantedStays
  <2>6. StoreOK'
    BY <1>0, <2>1, <2>5 DEF StoreOK, StoredIsGranted, sessionVars, walletVars
  <2>7. ASSUME \A s \in Session : Granted(s) => Granted(s)' PROVE RequestOK(r)'
    BY <1>0, <2>1, <2>4, <2>7 DEF RouterTypeOK, RequestOK, ParamsOK, SessionOK, ApprovalOK,
       ForwardOK, Checked, Stages, ForwardKinds, sessionVars, walletVars
  <2> QED
    BY <2>3, <2>4, <2>6, <2>7, MovesOK
<1>2. CASE ~AsksUser(r)
  <2>1. /\ pc' = [pc EXCEPT ![r] = "handler"] /\ pc[r] = "permission"
        /\ UNCHANGED <<sessionVars, walletVars, paramVars, queueVars>>
    BY <1>2 DEF PermissionGranted, Goto, paramVars
  <2>2. Moves(r) /\ UNCHANGED <<store, queueVars>> /\ RouterTypeOK'
    BY <1>0, <2>1 DEF RouterTypeOK, Moves, Stays, Stages, sessionVars, walletVars, paramVars,
       queueVars
  <2>3. ASSUME \A s \in Session : Granted(s) => Granted(s)' PROVE RequestOK(r)'
    BY <1>0, <1>2, <2>1, <2>3 DEF RouterTypeOK, RequestOK, ParamsOK, SessionOK, ApprovalOK,
       ForwardOK, AsksUser, Checked, Stages, sessionVars, walletVars, paramVars, queueVars
  <2> QED
    BY <2>2, <2>3, QuietOK
<1> QED
  BY <1>1, <1>2

\* What connect and updatePermissions store is under the id of an approved
\* session, whatever session object it is; disconnect only deletes.
LEMMA StoringSteps ==
  ASSUME IInv, NEW r \in Request, PermissionsApproved(r) \/ Disconnected(r) PROVE IInv'
<1>0. RouterTypeOK /\ RequestOK(r) /\ StoreOK /\ Q!IInv
  BY DEF IInv
<1>1. UNCHANGED queueVars /\ UNCHANGED walletVars /\ UNCHANGED paramVars /\ UNCHANGED drawn
  BY DEF PermissionsApproved, Disconnected
<1>2. Q!IInv'
  BY <1>0, <1>1, QueueStep
<1>3. Moves(r) /\ RouterTypeOK'
  BY <1>0, <1>1 DEF PermissionsApproved, Disconnected, Delete, Goto, RouterTypeOK, Moves, Stays,
     Stages, Outcomes, walletVars, paramVars, queueVars, RequestOK, ParamsOK
<1>4. \A s : Granted(s) => Granted(s)'
  <2>1. \A q \in Request : pc[q] = "ok" => pc'[q] = "ok" /\ kind'[q] = kind[q] /\ sid'[q] = sid[q]
    BY <1>3 DEF Moves, Stays, Stages
  <2> QED
    BY <2>1, GrantedStays
<1>5. StoreOK'
  <2>1. CASE PermissionsApproved(r)
    <3>1. /\ pc[r] = "approving" /\ store' = [store EXCEPT ![sid[r]] = held[r]]
          /\ pc' = [pc EXCEPT ![r] = "ok"]
      BY <2>1 DEF PermissionsApproved, Goto
    <3>2. sid[r] \in drawn
      BY <1>0, <3>1 DEF RequestOK, ParamsOK
    <3>3. open => Granted(sid[r])'
      <4>1. CASE kind[r] = "connect"
        BY <1>0, <1>1, <3>1, <4>1 DEF Granted, RouterTypeOK, paramVars
      <4>2. CASE kind[r] # "connect"
        <5>1. open => Granted(sid[r])
          BY <1>0, <3>1, <4>2 DEF RequestOK, SessionOK, Checked
        <5> QED
          BY <1>1, <1>4, <5>1 DEF paramVars, Granted
      <4> QED
        BY <4>1, <4>2
    <3>4. ASSUME NEW s \in Session, store'[s] # None, open' PROVE Granted(s)'
      <4>1. CASE s = sid[r]
        BY <1>1, <3>3, <3>4, <4>1 DEF Granted, paramVars, walletVars
      <4>2. CASE s # sid[r]
        BY <1>0, <1>1, <1>4, <3>1, <3>4, <4>2 DEF RouterTypeOK, StoreOK, StoredIsGranted, walletVars
      <4> QED
        BY <4>1, <4>2
    <3>5. \A s \in Session : store'[s] # None => s \in drawn'
      BY <1>0, <1>1, <3>1, <3>2 DEF RouterTypeOK, StoreOK
    <3> QED
      BY <3>4, <3>5 DEF StoreOK, StoredIsGranted
  <2>2. CASE Disconnected(r)
    <3>1. \A s \in Session : store'[s] # None => store[s] # None
      BY <1>0, <2>2 DEF Disconnected, Delete, RouterTypeOK
    <3> QED
      BY <1>0, <1>1, <1>4, <3>1 DEF StoreOK, StoredIsGranted, walletVars
  <2> QED
    BY <2>1, <2>2
<1>6. ASSUME \A s \in Session : Granted(s) => Granted(s)' PROVE RequestOK(r)'
  BY <1>0, <1>1, <1>3 DEF PermissionsApproved, Disconnected, Goto, RouterTypeOK, RequestOK,
     ParamsOK, SessionOK, ApprovalOK, ForwardOK, Checked, Stages, walletVars, paramVars, queueVars
<1> QED
  BY <1>2, <1>3, <1>5, <1>6, MovesOK

-----------------------------------------------------------------------------
(* The steps beside the requests.                                          *)

\* No request moves but the forwards that a closed proxy fails.
LEMMA BesideOK ==
  ASSUME IInv, RouterTypeOK', Q!IInv', drawn \subseteq drawn', open' => open,
         UNCHANGED <<kind, sid, held, via, left>>,
         \A s \in Session : store'[s] # None => store[s] # None,
         \A q \in Request : \/ Stays(q) /\ (pc[q] = "forwarded" => via[q] \in Live')
                            \/ pc[q] = "forwarded" /\ pc'[q] = Failure(q) /\ verdict'[q] = verdict[q]
  PROVE  IInv'
<1>1. \A s : Granted(s) => Granted(s)'
  <2>1. \A q \in Request : pc[q] = "ok" => pc'[q] = "ok" /\ kind'[q] = kind[q] /\ sid'[q] = sid[q]
    BY DEF Stays
  <2> QED
    BY <2>1, GrantedStays
<1>2. StoreOK'
  BY <1>1 DEF IInv, StoreOK, StoredIsGranted
<1>3. ASSUME NEW q \in Request PROVE RequestOK(q)'
  <2>1. RequestOK(q) /\ RouterTypeOK
    BY DEF IInv
  <2>2. CASE Stays(q) /\ (pc[q] = "forwarded" => via[q] \in Live')
    <3>1. Granted(sid[q]) => Granted(sid[q])'
      BY <1>1, <2>2 DEF Granted, Stays
    <3> QED
      BY <2>1, <2>2, <3>1, StillOK
  <2>3. CASE pc[q] = "forwarded" /\ pc'[q] = Failure(q) /\ verdict'[q] = verdict[q]
    BY <2>1, <2>3 DEF Failure, RouterTypeOK, RequestOK, ParamsOK, SessionOK, ApprovalOK,
       ForwardOK, Checked, Stages, ForwardKinds
  <2> QED
    BY <2>2, <2>3
<1> QED
  BY <1>2, <1>3 DEF IInv

\* Closing proxies fails every forward that waits for one of them.
LEMMA CloseProxiesStep ==
  ASSUME RouterTypeOK, NEW P, CloseProxies(P), \A p \in Live \ P : p \in Live',
         \A r \in Request : RequestOK(r), UNCHANGED <<kind, sid, held, via, left, queueVars>>
  PROVE  /\ pc' \in [Request -> Stages \cup Outcomes]
         /\ \A q \in Request :
              \/ Stays(q) /\ (pc[q] = "forwarded" => via[q] \in Live')
              \/ pc[q] = "forwarded" /\ pc'[q] = Failure(q) /\ verdict'[q] = verdict[q]
<1>1. \A q \in Request : Failure(q) \in Outcomes
  BY DEF Failure, Outcomes
<1>2. \A q \in Request : pc[q] = "forwarded" => via[q] \in Live
  BY DEF RequestOK, ForwardOK
<1>3. \A q \in Request : pc'[q] = IF pc[q] = "forwarded" /\ via[q] \in P THEN Failure(q) ELSE pc[q]
  BY DEF CloseProxies
<1> HIDE DEF Live, Failure
<1>4. pc' \in [Request -> Stages \cup Outcomes]
  BY <1>1 DEF CloseProxies, RouterTypeOK
<1> QED
  BY <1>2, <1>3, <1>4 DEF Stays, queueVars

\* The wallet's side adds, removes, revokes and closes.
LEMMA WalletSideStep ==
  ASSUME IInv, WalletSide PROVE IInv'
<1>0. RouterTypeOK /\ StoreOK /\ Q!IInv /\ \A r \in Request : RequestOK(r)
  BY DEF IInv
<1>1. UNCHANGED queueVars /\ UNCHANGED paramVars /\ drawn' = drawn
  BY DEF WalletSide, AddWallet, RemoveWallet, Close, Revoke, RevokeSession, RevokeAllSessions,
     Revoked, sessionVars
<1>2. Q!IInv' /\ UNCHANGED <<kind, sid, held, shown, via, left>>
  BY <1>0, <1>1, QueueStep DEF paramVars
<1>3. ASSUME NEW ch \in Chain, AddWallet(ch) PROVE IInv'
  <2>1. RouterTypeOK'
    BY <1>0, <1>2, <1>3 DEF AddWallet, RouterTypeOK, sessionVars
  <2>2. \A p \in Live : p \in Live'
    BY <1>0, <1>3 DEF AddWallet, Live, RouterTypeOK
  <2>3. \A q \in Request : Stays(q) /\ (pc[q] = "forwarded" => via[q] \in Live')
    BY <1>0, <1>1, <1>2, <1>3, <2>2 DEF AddWallet, Stays, RequestOK, ForwardOK, queueVars
  <2> QED
    BY <1>2, <1>3, <2>1, <2>3, BesideOK DEF AddWallet, sessionVars
<1>4. ASSUME NEW ch \in Chain, RemoveWallet(ch) PROVE IInv'
  <2>1. \A p \in Live \ {proxy[ch]} : p \in Live'
    BY <1>0, <1>4 DEF RemoveWallet, Live, RouterTypeOK
  <2>2. CloseProxies({proxy[ch]}) /\ UNCHANGED <<sessionVars, open, proxies>>
    BY <1>4 DEF RemoveWallet
  <2>3. /\ pc' \in [Request -> Stages \cup Outcomes]
        /\ \A q \in Request :
             \/ Stays(q) /\ (pc[q] = "forwarded" => via[q] \in Live')
             \/ pc[q] = "forwarded" /\ pc'[q] = Failure(q) /\ verdict'[q] = verdict[q]
    BY <1>0, <1>1, <1>2, <2>1, <2>2, CloseProxiesStep
  <2>4. RouterTypeOK'
    BY <1>0, <1>2, <1>4, <2>2, <2>3 DEF RemoveWallet, RouterTypeOK, sessionVars
  <2> QED
    BY <1>2, <2>2, <2>3, <2>4, BesideOK DEF sessionVars
<1>5. CASE Close
  <2>1. CloseProxies({proxy[ch] : ch \in Chain}) /\ UNCHANGED <<sessionVars, proxies>> /\ ~open'
        /\ open' = FALSE /\ proxy' = [ch \in Chain |-> 0]
    BY <1>5 DEF Close
  <2>2. \A p \in Live \ {proxy[ch] : ch \in Chain} : p \in Live'
    BY DEF Live
  <2>3. /\ pc' \in [Request -> Stages \cup Outcomes]
        /\ \A q \in Request :
             \/ Stays(q) /\ (pc[q] = "forwarded" => via[q] \in Live')
             \/ pc[q] = "forwarded" /\ pc'[q] = Failure(q) /\ verdict'[q] = verdict[q]
    BY <1>0, <1>1, <1>2, <2>1, <2>2, CloseProxiesStep
  <2>4. RouterTypeOK'
    <3>1. proxy' \in [Chain -> 0..proxies']
      BY <1>0, <2>1 DEF RouterTypeOK
    <3> QED
      BY <1>0, <1>2, <2>1, <2>3, <3>1 DEF RouterTypeOK, sessionVars
  <2> QED
    BY <1>2, <2>1, <2>3, <2>4, BesideOK DEF sessionVars
<1>6. ASSUME NEW S \in SUBSET Session, RevokeSession(S) PROVE IInv'
  <2>1. RouterTypeOK' /\ UNCHANGED <<store, drawn, pc, walletVars>>
    BY <1>0, <1>2, <1>6 DEF RevokeSession, RouterTypeOK, StoreOK, walletVars
  <2>2. \A q \in Request : Stays(q) /\ (pc[q] = "forwarded" => via[q] \in Live')
    BY <1>0, <1>1, <1>2, <2>1 DEF Stays, RequestOK, ForwardOK, Live, queueVars, walletVars
  <2> QED
    BY <1>2, <2>1, <2>2, BesideOK DEF walletVars
<1>7. ASSUME NEW s \in Session, Revoked(s) PROVE IInv'
  <2>1. RouterTypeOK' /\ UNCHANGED <<drawn, pc, walletVars>>
    BY <1>0, <1>2, <1>7 DEF Revoked, Delete, RouterTypeOK, walletVars
  <2>2. \A q \in Request : Stays(q) /\ (pc[q] = "forwarded" => via[q] \in Live')
    BY <1>0, <1>1, <1>2, <2>1 DEF Stays, RequestOK, ForwardOK, Live, queueVars, walletVars
  <2>3. \A t \in Session : store'[t] # None => store[t] # None
    BY <1>0, <1>7 DEF Revoked, Delete, RouterTypeOK
  <2> QED
    BY <1>2, <2>1, <2>2, <2>3, BesideOK DEF walletVars
<1>8. CASE RevokeAllSessions
  BY <1>6, <1>8 DEF RevokeAllSessions
<1> QED
  BY <1>3, <1>4, <1>5, <1>6, <1>7, <1>8 DEF WalletSide, Revoke

\* The queue answers: a request that waits is released and has yet to resume.
LEMMA UserOrTimerStep ==
  ASSUME IInv, UserOrTimer PROVE IInv'
<1>0. RouterTypeOK /\ Q!IInv /\ (\A r \in Request : RequestOK(r))
      /\ UNCHANGED <<sessionVars, walletVars, pc, paramVars>>
  BY DEF IInv, UserOrTimer, UserDecides, ApprovalExpires
<1>1. Q!IInv'
  BY <1>0, QueueStep DEF UserOrTimer, UserDecides, ApprovalExpires
<1>2. RouterTypeOK'
  BY <1>0 DEF RouterTypeOK, sessionVars, walletVars, paramVars
<1>3. \A q \in Request : Stays(q) /\ (pc[q] = "forwarded" => via[q] \in Live')
  BY <1>0, QueueMoves DEF Stays, RequestOK, ForwardOK, Live, walletVars, paramVars
<1> QED
  BY <1>0, <1>1, <1>2, <1>3, BesideOK DEF sessionVars, walletVars, paramVars

\* Every step keeps the invariant.
LEMMA NextIInv == IInv /\ [Next]_vars => IInv'
<1> SUFFICES ASSUME IInv, [Next]_vars PROVE IInv'
  OBVIOUS
<1>1. CASE UNCHANGED vars
  <2>1. UNCHANGED <<sessionVars, walletVars, pc, paramVars, queueVars>>
    BY <1>1 DEF vars
  <2>2. Q!IInv' /\ RouterTypeOK'
    BY <2>1, QueueStep DEF IInv, RouterTypeOK, sessionVars, walletVars, paramVars
  <2>3. \A q \in Request : Stays(q) /\ (pc[q] = "forwarded" => via[q] \in Live')
    BY <2>1 DEF IInv, Stays, RequestOK, ForwardOK, Live, walletVars, paramVars, queueVars
  <2> QED
    BY <2>1, <2>2, <2>3, BesideOK DEF sessionVars, walletVars, paramVars
<1>2. ASSUME NEW r \in Request, Arrive(r) \/ Resume(r) \/ Handle(r) \/ Answer(r) PROVE IInv'
  BY <1>2, QuietSteps, PermissionGrantedStep, StoringSteps DEF Arrive, Resume, Handle
<1> QED
  BY <1>1, <1>2, WalletSideStep, UserOrTimerStep DEF Next

\* So the invariant holds in every state.
LEMMA IInvAlways == Spec => []IInv
  BY InitIInv, NextIInv, PTL DEF Spec

-----------------------------------------------------------------------------
(* The theorems.                                                           *)

\* The variables of the router and of its queue keep their types.
THEOREM TypeCorrect == Spec => []TypeOK
<1>1. IInv => TypeOK
  <2> SUFFICES ASSUME IInv PROVE TypeOK
    OBVIOUS
  <2>1. Approvals!QueueTypeOK
    BY DEF IInv, Q!IInv, Q!QueueTypeOK, Approvals!QueueTypeOK, Q!Ids, Approvals!Ids,
       Q!Verdicts, Approvals!Verdicts, Q!Dialogs, Approvals!Dialogs
  <2> QED
    BY <2>1 DEF IInv, RouterTypeOK, TypeOK
<1> QED
  BY <1>1, IInvAlways, PTL

\* No session is valid that nobody approved, although wm_connect publishes its
\* session in the shared context before the approval: what a concurrent
\* request stores goes under a key that was approved before it.
THEOREM StoredCorrect == Spec => []StoredIsGranted
<1>1. IInv => StoredIsGranted
  BY DEF IInv, StoreOK
<1> QED
  BY <1>1, IInvAlways, PTL

\* A call reaches a wallet for an approved session, and with the user's
\* consent to that very call where its method asks for it.
THEOREM ForwardedCorrect == Spec => []ForwardedIsAuthorised
<1>1. IInv => ForwardedIsAuthorised
  BY DEF IInv, RequestOK, SessionOK, ApprovalOK, ForwardOK, ForwardKinds, Checked,
     ForwardedIsAuthorised
<1> QED
  BY <1>1, IInvAlways, PTL

\* A request blocks exactly while the queue holds it.
THEOREM BlockedCorrect == Spec => []BlockedIffQueued
<1>1. IInv => BlockedIffQueued
  BY QueueFacts DEF IInv, RequestOK, ApprovalOK, BlockedIffQueued
<1> QED
  BY <1>1, IInvAlways, PTL

\* removeWallet and close leave no call waiting for a wallet that is gone.
THEOREM ClosedCorrect == Spec => []NoWaitOnClosedProxy
<1>1. IInv => NoWaitOnClosedProxy
  BY DEF IInv, RequestOK, ForwardOK, NoWaitOnClosedProxy
<1> QED
  BY <1>1, IInvAlways, PTL

\* A failure is called partial only if some calls were answered and some not.
THEOREM PartialCorrect == Spec => []PartialIsPartial
<1>1. IInv => PartialIsPartial
  BY DEF IInv, RequestOK, ForwardOK, PartialIsPartial
<1> QED
  BY <1>1, IInvAlways, PTL

-----------------------------------------------------------------------------
(* What a session that ended needs to come back.                           *)

Connects(r) == kind[r] = "connect" /\ pc[r] \in {"approving", "ok"}
Offers(r)   == kind[r] = "connect" /\ pc[r] = "approving"

\* A session that wm_connect has drawn and nobody approved yet is nobody else's.
Fresh == /\ Stored \subseteq drawn
         /\ \A r \in Request : Offers(r) =>
              /\ sid[r] \notin Stored
              /\ \A q \in Request \ {r} : Connects(q) => sid[q] # sid[r]

\* What was ended, or is about to be, was once approved.
Ended == open => \A s \in terminated \cup revoking : Granted(s)

\* The method, the session and the stage of q are as before.
Same(q) == pc'[q] = pc[q] /\ kind'[q] = kind[q] /\ sid'[q] = sid[q]

\* A step changes nothing for requests that do not make it, unless it fails
\* a forward.
LEMMA OthersSame ==
  ASSUME IInv, NEW r \in Request, Arrive(r) \/ Resume(r) \/ Handle(r) \/ Answer(r),
         NEW q \in Request \ {r}
  PROVE  Same(q)
<1> USE DEF Same, Goto, paramVars, IInv, RouterTypeOK
<1>1. CASE Arrive(r)
  BY <1>1 DEF Arrive, ArriveConnect, ArriveMalformed, ArriveWithSession
<1>2. CASE Resume(r)
  BY <1>2 DEF Resume, SessionChecked, PermissionRefused, PermissionGranted, ApprovalSettled,
     PermissionsApproved, PermissionsRefused, PermissionsRead, Disconnected
<1>3. CASE Handle(r)
  BY <1>3 DEF Handle, HandlerRefuses, UpdatePermissions, Reconnect, GetPermissions, Disconnect,
     ListRouterMethods, Connect, Forward
<1>4. CASE Answer(r)
  BY <1>4 DEF Answer, WalletAnswers, ForwardFails, SendFails
<1> QED
  BY <1>1, <1>2, <1>3, <1>4

\* A wm_connect comes to its approval by drawing a session, and ends well by
\* being approved; then it stays as it is.
LEMMA ConnectsStep ==
  ASSUME IInv, [Next]_vars, NEW q \in Request
  PROVE  /\ pc[q] = "ok" => Same(q)
         /\ \/ ~Connects(q)'
            \/ Connects(q) /\ sid'[q] = sid[q] /\ (Offers(q)' => Offers(q))
            \/ \E s \in Session : Connect(q, s)
<1>0. RouterTypeOK /\ RequestOK(q)
  BY DEF IInv
<1> USE <1>0 DEF RouterTypeOK, Connects, Offers
<1>1. Same(q) => \/ ~Connects(q)'
                 \/ Connects(q) /\ sid'[q] = sid[q] /\ (Offers(q)' => Offers(q))
  BY DEF Same
<1>2. CASE UserOrTimer \/ UNCHANGED vars
  BY <1>1, <1>2 DEF Same, UserOrTimer, UserDecides, ApprovalExpires, vars, paramVars
<1>3. CASE WalletSide
  <2>1. UNCHANGED <<kind, sid>> /\ (pc' = pc \/ \E P : CloseProxies(P))
    BY <1>3 DEF WalletSide, AddWallet, RemoveWallet, Close, Revoke, RevokeSession,
       RevokeAllSessions, Revoked, paramVars
  <2>2. \/ pc'[q] = pc[q]
        \/ pc[q] = "forwarded" /\ kind[q] # "connect"
    BY <2>1 DEF CloseProxies, RequestOK, ForwardOK, ForwardKinds
  <2> QED
    BY <1>1, <2>1, <2>2 DEF Same
<1>4. ASSUME NEW r \in Request, Arrive(r) \/ Resume(r) \/ Handle(r) \/ Answer(r), r # q
      PROVE  Same(q)
  BY <1>4, OthersSame
<1>5. CASE Arrive(q)
  BY <1>5 DEF Arrive, ArriveConnect, ArriveMalformed, ArriveWithSession, Goto, paramVars
<1>6. CASE Resume(q)
  BY <1>6 DEF Resume, SessionChecked, PermissionRefused, PermissionGranted, ApprovalSettled,
     PermissionsApproved, PermissionsRefused, PermissionsRead, Disconnected, Goto, paramVars,
     RequestOK, ParamsOK
<1>7. CASE Handle(q)
  BY <1>7 DEF Handle, HandlerRefuses, UpdatePermissions, Reconnect, GetPermissions, Disconnect,
     ListRouterMethods, Connect, Forward, Goto, paramVars
<1>8. CASE Answer(q)
  BY <1>8 DEF Answer, WalletAnswers, ForwardFails, SendFails, Goto, paramVars, RequestOK,
     ForwardOK, ForwardKinds
<1> QED
  BY <1>1, <1>2, <1>3, <1>4, <1>5, <1>6, <1>7, <1>8 DEF Next

\* Session ids are drawn, never given back.
LEMMA DrawnGrows ==
  ASSUME IInv, [Next]_vars
  PROVE  drawn \subseteq drawn'
<1>1. CASE \E q \in Request, s \in Session : Connect(q, s)
  BY <1>1 DEF Connect
<1>2. ASSUME NEW q \in Request, Arrive(q) \/ Resume(q) \/ Answer(q) PROVE drawn' = drawn
  <2>1. CASE Arrive(q)
    BY <2>1 DEF Arrive, ArriveConnect, ArriveMalformed, ArriveWithSession, sessionVars
  <2>2. CASE Resume(q)
    BY <2>2 DEF Resume, SessionChecked, PermissionRefused, PermissionGranted, ApprovalSettled,
       PermissionsApproved, PermissionsRefused, PermissionsRead, Disconnected, sessionVars
  <2>3. CASE Answer(q)
    BY <2>3 DEF Answer, WalletAnswers, ForwardFails, SendFails, sessionVars
  <2> QED
    BY <1>2, <2>1, <2>2, <2>3
<1>3. ASSUME NEW q \in Request, Handle(q), ~\E s \in Session : Connect(q, s) PROVE drawn' = drawn
  BY <1>3 DEF Handle, HandlerRefuses, UpdatePermissions, Reconnect, GetPermissions, Disconnect,
     ListRouterMethods, Forward, sessionVars
<1>4. CASE WalletSide \/ UserOrTimer \/ UNCHANGED vars
  BY <1>4 DEF WalletSide, AddWallet, RemoveWallet, Close, Revoke, RevokeSession,
     RevokeAllSessions, Revoked, UserOrTimer, UserDecides, ApprovalExpires, vars, sessionVars
<1> QED
  BY <1>1, <1>2, <1>3, <1>4 DEF Next

\* A session that is drawn is new to everybody.
LEMMA FreshStep == IInv /\ Fresh /\ [Next]_vars => Fresh'
<1> SUFFICES ASSUME IInv, Fresh, [Next]_vars,
                    NEW r \in Request, Offers(r)'
             PROVE  /\ sid'[r] \notin Stored
                    /\ \A q \in Request \ {r} : Connects(q)' => sid'[q] # sid'[r]
  BY DrawnGrows DEF Fresh
<1>0. RouterTypeOK /\ \A q \in Request : ParamsOK(q)
  BY DEF IInv, RequestOK
<1>1. Connects(r)'
  BY DEF Offers, Connects
<1>2. ASSUME NEW q \in Request, NEW s \in Session, Connect(q, s)
      PROVE  /\ s \notin Stored /\ sid'[q] = s
             /\ \A o \in Request \ {q} : sid'[o] = sid[o] /\ sid[o] # s
  BY <1>0, <1>2 DEF Connect, Fresh, RouterTypeOK, ParamsOK
<1>3. CASE \E s \in Session : Connect(r, s)
  BY <1>2, <1>3
<1>4. CASE ~\E s \in Session : Connect(r, s)
  <2>1. Offers(r) /\ sid'[r] = sid[r]
    BY <1>1, <1>4, ConnectsStep
  <2>2. ASSUME NEW q \in Request \ {r}, Connects(q)' PROVE sid'[q] # sid'[r]
    <3>1. CASE \E s \in Session : Connect(q, s)
      BY <1>2, <2>1, <3>1
    <3>2. CASE ~\E s \in Session : Connect(q, s)
      BY <2>1, <2>2, <3>2, ConnectsStep DEF Fresh
    <3> QED
      BY <3>1, <3>2
  <2> QED
    BY <2>1, <2>2 DEF Fresh
<1> QED
  BY <1>3, <1>4

\* Only sessions that are valid are revoked, and only those of a request that
\* passed the session check are disconnected.
LEMMA EndedStep == IInv /\ Ended /\ [Next]_vars => Ended'
<1> SUFFICES ASSUME IInv, Ended, [Next]_vars, open',
                    NEW s \in terminated' \cup revoking'
             PROVE  Granted(s)'
  BY DEF Ended
<1>0. RouterTypeOK /\ StoreOK /\ \A q \in Request : RequestOK(q)
  BY DEF IInv
<1>1. Granted(s) => Granted(s)'
  BY ConnectsStep, GrantedStays DEF Same
<1>2. ASSUME UNCHANGED <<terminated, revoking>>, open PROVE Granted(s)
  BY <1>2 DEF Ended
<1>3. ASSUME NEW r \in Request, Disconnected(r) PROVE Granted(s)
  <2>1. open /\ s \in terminated \cup {sid[r]} \cup revoking
    BY <1>3 DEF Disconnected, Delete, walletVars
  <2>2. Granted(sid[r])
    BY <1>0, <1>3, <2>1 DEF Disconnected, RequestOK, ParamsOK, SessionOK, Checked
  <2> QED
    BY <2>1, <2>2 DEF Ended
<1>4. ASSUME NEW t \in Session, Revoked(t) PROVE Granted(s)
  BY <1>4 DEF Revoked, Delete, walletVars, Ended
<1>5. ASSUME NEW S \in SUBSET Session, RevokeSession(S) PROVE Granted(s)
  BY <1>0, <1>5 DEF RevokeSession, walletVars, Ended, StoreOK, StoredIsGranted
<1>6. ASSUME NEW r \in Request, Arrive(r) \/ Resume(r) \/ Handle(r) \/ Answer(r), ~Disconnected(r)
      PROVE  UNCHANGED <<terminated, revoking>> /\ open
  <2>1. CASE Arrive(r)
    BY <2>1 DEF Arrive, ArriveConnect, ArriveMalformed, ArriveWithSession, sessionVars, walletVars
  <2>2. CASE Resume(r)
    BY <1>6, <2>2 DEF Resume, SessionChecked, PermissionRefused, PermissionGranted,
       ApprovalSettled, PermissionsApproved, PermissionsRefused, PermissionsRead, sessionVars,
       walletVars
  <2>3. CASE Handle(r)
    BY <2>3 DEF Handle, HandlerRefuses, UpdatePermissions, Reconnect, GetPermissions, Disconnect,
       ListRouterMethods, Connect, Forward, sessionVars, walletVars
  <2>4. CASE Answer(r)
    BY <2>4 DEF Answer, WalletAnswers, ForwardFails, SendFails, sessionVars, walletVars
  <2> QED
    BY <1>6, <2>1, <2>2, <2>3, <2>4
<1>7. CASE UserOrTimer \/ UNCHANGED vars \/ \E ch \in Chain : AddWallet(ch) \/ RemoveWallet(ch)
  BY <1>1, <1>2, <1>7 DEF UserOrTimer, UserDecides, ApprovalExpires, vars, AddWallet,
     RemoveWallet, sessionVars, walletVars
<1>8. ~Close
  BY DEF Close
<1> QED
  BY <1>1, <1>2, <1>3, <1>4, <1>5, <1>6, <1>7, <1>8 DEF Next, WalletSide, Revoke,
     RevokeAllSessions

\* The store gains a session only when a wm_connect or a wm_updatePermissions
\* is approved.
LEMMA StoreGrows ==
  ASSUME IInv, [Next]_vars, NEW s \in Session, store[s] = None, store'[s] # None
  PROVE  \E r \in Request : /\ kind[r] \in {"connect", "updatePermissions"} /\ sid[r] = s
                            /\ pc[r] = "approving" /\ pc'[r] = "ok"
<1>0. RouterTypeOK /\ \A q \in Request : ParamsOK(q)
  BY DEF IInv, RequestOK
<1>1. ASSUME NEW t \in Session \cup {None}, Delete(t) PROVE FALSE
  BY <1>0, <1>1 DEF Delete, RouterTypeOK
<1>2. CASE UserOrTimer \/ UNCHANGED vars
  BY <1>2 DEF UserOrTimer, UserDecides, ApprovalExpires, vars, sessionVars
<1>3. CASE WalletSide
  BY <1>1, <1>3 DEF WalletSide, AddWallet, RemoveWallet, Close, Revoke, RevokeSession,
     RevokeAllSessions, Revoked, sessionVars
<1>4. ASSUME NEW r \in Request, Arrive(r) \/ Handle(r) \/ Answer(r) PROVE store' = store
  <2>1. CASE Arrive(r)
    BY <2>1 DEF Arrive, ArriveConnect, ArriveMalformed, ArriveWithSession, sessionVars
  <2>2. CASE Handle(r)
    BY <2>2 DEF Handle, HandlerRefuses, UpdatePermissions, Reconnect, GetPermissions, Disconnect,
       ListRouterMethods, Connect, Forward, sessionVars
  <2>3. CASE Answer(r)
    BY <2>3 DEF Answer, WalletAnswers, ForwardFails, SendFails, sessionVars
  <2> QED
    BY <1>4, <2>1, <2>2, <2>3
<1>5. ASSUME NEW r \in Request, Resume(r) PROVE PermissionsApproved(r)
  <2>1. ~Disconnected(r)
    BY <1>0, <1>1 DEF Disconnected, RouterTypeOK
  <2> QED
    BY <1>5, <2>1 DEF Resume, SessionChecked, PermissionRefused, PermissionGranted,
       ApprovalSettled, PermissionsRefused, PermissionsRead, sessionVars
<1>6. ASSUME NEW r \in Request, PermissionsApproved(r)
      PROVE  /\ kind[r] \in {"connect", "updatePermissions"} /\ sid[r] = s
             /\ pc[r] = "approving" /\ pc'[r] = "ok"
  BY <1>0, <1>6 DEF PermissionsApproved, Goto, RouterTypeOK, ParamsOK
<1> QED
  BY <1>2, <1>3, <1>4, <1>5, <1>6 DEF Next

\* A session that ended comes back only by an update of its permissions that
\* waited for the user: what a wm_connect stores was never ended, because
\* nobody can end it before it is stored.
THEOREM RevivedCorrect == Spec => RevivedByUpdateOnly
<1>1. Init => Fresh /\ Ended
  BY DEF Init, Fresh, Ended, Offers
<1>2. Spec => [](IInv /\ Fresh /\ Ended)
  BY <1>1, IInvAlways, FreshStep, EndedStep, PTL DEF Spec
<1>3. ASSUME IInv, Fresh, Ended, [Next]_vars, open, NEW s \in terminated,
             store[s] = None, store'[s] # None
      PROVE  \E r \in Request : /\ kind[r] = "updatePermissions" /\ sid[r] = s
                                /\ pc[r] = "approving" /\ pc'[r] = "ok"
  <2>1. s \in Session
    BY <1>3 DEF IInv, RouterTypeOK
  <2>2. PICK r \in Request : /\ kind[r] \in {"connect", "updatePermissions"} /\ sid[r] = s
                             /\ pc[r] = "approving" /\ pc'[r] = "ok"
    BY <1>3, <2>1, StoreGrows
  <2>3. Granted(s)
    BY <1>3 DEF Ended
  <2>4. ~Offers(r)
    BY <1>3, <2>2, <2>3 DEF Granted, Fresh, Offers, Connects
  <2> QED
    BY <2>2, <2>4 DEF Offers
<1>4. IInv /\ Fresh /\ Ended /\ [Next]_vars => [UpdateRevives]_vars
  BY <1>3 DEF UpdateRevives
<1> QED
  BY <1>2, <1>4, PTL DEF Spec, RevivedByUpdateOnly

-----------------------------------------------------------------------------
(* Waits end.                                                              *)

\* What the fairness of the specification says of one request.
LEMMA FairnessOf ==
  ASSUME NEW r \in Request
  PROVE  /\ Spec => []<>(r \notin armed) \/ []<><<ApprovalExpires(r)>>_vars
         /\ Spec => \/ []<>~(pc[r] = "approval" /\ verdict[r] # "waiting")
                    \/ []<><<ApprovalSettled(r)>>_vars
         /\ Spec => \/ []<>~(pc[r] = "forwarded" /\ via[r] \in Live)
                    \/ []<><<Answer(r)>>_vars
<1>1. Spec => TimerFires(r) /\ Resumes(r) /\ ForwardEnds(r)
  BY DEF Spec, Fairness
<1>2. TimerFires(r) => []<>(r \notin armed) \/ []<><<ApprovalExpires(r)>>_vars
  BY DEF TimerFires
<1>3. Resumes(r) => \/ []<>~(pc[r] = "approval" /\ verdict[r] # "waiting")
                    \/ []<><<ApprovalSettled(r)>>_vars
  BY DEF Resumes
<1>4. ForwardEnds(r) => \/ []<>~(pc[r] = "forwarded" /\ via[r] \in Live)
                        \/ []<><<Answer(r)>>_vars
  BY DEF ForwardEnds
<1> QED
  BY <1>1, <1>2, <1>3, <1>4

\* Every step of the router moves the queue as the queue moves by itself.
LEMMA NextMovesQueue == [Next]_vars => [Q!QueueNext]_(Q!queueVars)
<1> SUFFICES ASSUME [Next]_vars PROVE [Q!QueueNext]_(Q!queueVars)
  OBVIOUS
<1>1. CASE UserOrTimer
  BY <1>1, QueueMove DEF UserOrTimer, UserDecides, ApprovalExpires
<1>2. CASE WalletSide \/ UNCHANGED vars
  <2>1. UNCHANGED queueVars
    BY <1>2 DEF WalletSide, AddWallet, RemoveWallet, Close, Revoke, RevokeSession,
       RevokeAllSessions, Revoked, vars
  <2> QED
    BY <2>1, QueueMove
<1>3. ASSUME NEW r \in Request, Arrive(r) \/ Resume(r) \/ Handle(r) \/ Answer(r)
      PROVE  UNCHANGED queueVars \/ Approvals!Queue(r)
  <2>1. CASE Arrive(r)
    BY <2>1 DEF Arrive, ArriveConnect, ArriveMalformed, ArriveWithSession
  <2>2. CASE Resume(r)
    BY <2>2 DEF Resume, SessionChecked, PermissionRefused, PermissionGranted, ApprovalSettled,
       PermissionsApproved, PermissionsRefused, PermissionsRead, Disconnected
  <2>3. CASE Handle(r)
    BY <2>3 DEF Handle, HandlerRefuses, UpdatePermissions, Reconnect, GetPermissions, Disconnect,
       ListRouterMethods, Connect, Forward
  <2>4. CASE Answer(r)
    BY <2>4 DEF Answer, WalletAnswers, ForwardFails, SendFails
  <2> QED
    BY <1>3, <2>1, <2>2, <2>3, <2>4
<1> QED
  BY <1>1, <1>2, <1>3, QueueMove DEF Next

\* Seen through its queue, the router behaves as the approval queue on its own
\* does, the queue's timers included.
THEOREM QueueRefinement == Spec => Q!QueueSpec
<1>0. Q!NoneAssumption
  BY DEF Q!NoneAssumption
<1>1. Init => Q!QueueInit
  BY DEF Init, Q!QueueInit, Approvals!QueueInit, Q!Ids, Approvals!Ids
<1>2. [Next]_vars => [Q!QueueNext]_(Q!queueVars)
  BY NextMovesQueue
<1>3. Spec => \A i \in Q!Ids : Q!TimerFires(i)
  <2> SUFFICES ASSUME NEW r \in Request PROVE Spec => Q!TimerFires(r)
    BY DEF Q!Ids
  <2>1. Spec => []<>(r \notin armed) \/ []<><<ApprovalExpires(r)>>_vars
    BY FairnessOf
  <2>2. <<ApprovalExpires(r)>>_vars => <<Q!Expire(r)>>_(Q!queueVars)
    BY DEF ApprovalExpires, Approvals!Expire, Approvals!Release, Q!Expire, Q!Release, Q!queueVars
  <2> QED
    BY <2>1, <2>2, PTL DEF Q!TimerFires
<1> QED
  BY <1>1, <1>2, <1>3, IInvAlways, PTL DEF Spec, Q!QueueSpec

\* An answer, or a failure, of a forward ends it or leaves one call fewer to
\* be answered, and the last one ends it.
LEMMA AnswerStep ==
  ASSUME IInv, NEW r \in Request, Answer(r)
  PROVE  \/ pc'[r] \in Outcomes
         \/ pc'[r] = "forwarded" /\ left'[r] = left[r] - 1 /\ left[r] # 1
<1>1. RouterTypeOK
  BY DEF IInv
<1>2. Failure(r) \in Outcomes
  BY DEF Failure, Outcomes
<1> QED
  BY <1>1, <1>2 DEF Answer, WalletAnswers, ForwardFails, SendFails, Goto, Outcomes, RouterTypeOK

\* What a step does to a request that waits: it goes on, or it waits for the
\* same thing, and then a promise that was settled stays so and no call is
\* added to those that are to be answered.
LEMMA WaitStep ==
  ASSUME IInv, [Next]_vars, NEW r \in Request
  PROVE  /\ pc[r] = "approval"
              => /\ pc'[r] \in {"approval", "handler", "refused"}
                 /\ verdict'[r] = "waiting" => verdict[r] = "waiting"
         /\ pc[r] = "forwarded"
              => \/ pc'[r] \in Outcomes
                 \/ pc'[r] = "forwarded" /\ left'[r] \in {left[r], left[r] - 1}
<1> DEFINE Still == pc'[r] = pc[r] /\ left'[r] = left[r]
           Kept  == verdict'[r] = "waiting" => verdict[r] = "waiting"
<1>0. RouterTypeOK /\ RequestOK(r) /\ Q!IInv
  BY DEF IInv
<1> USE <1>0 DEF RouterTypeOK
<1>1. CASE UserOrTimer
  <2>1. Still
    BY <1>1 DEF UserOrTimer, UserDecides, ApprovalExpires, paramVars
  <2>2. Kept
    BY <1>1, QueueMoves
  <2> QED
    BY <2>1, <2>2
<1>2. CASE WalletSide
  <2>1. ASSUME NEW P, CloseProxies(P), left' = left
        PROVE  Still \/ (pc[r] = "forwarded" /\ pc'[r] \in Outcomes)
    BY <2>1 DEF CloseProxies, Failure, Outcomes
  <2>2. left' = left /\ verdict' = verdict
    BY <1>2 DEF WalletSide, AddWallet, RemoveWallet, Close, Revoke, RevokeSession,
       RevokeAllSessions, Revoked, paramVars, queueVars
  <2>3. pc' = pc \/ \E P : CloseProxies(P)
    BY <1>2 DEF WalletSide, AddWallet, RemoveWallet, Close, Revoke, RevokeSession,
       RevokeAllSessions, Revoked
  <2> QED
    BY <2>1, <2>2, <2>3
<1>3. CASE UNCHANGED vars
  BY <1>3 DEF vars, paramVars, queueVars
<1>4. ASSUME NEW q \in Request, Arrive(q) \/ Resume(q) \/ Handle(q) \/ Answer(q), q # r
      PROVE  Still /\ Kept
  <2>1. CASE Arrive(q)
    BY <1>4, <2>1 DEF Arrive, ArriveConnect, ArriveMalformed, ArriveWithSession, Goto,
       paramVars, queueVars
  <2>2. CASE Resume(q) /\ ~PermissionGranted(q)
    BY <1>4, <2>2 DEF Resume, SessionChecked, PermissionRefused, ApprovalSettled,
       PermissionsApproved, PermissionsRefused, PermissionsRead, Disconnected, Goto,
       paramVars, queueVars
  <2>3. CASE PermissionGranted(q)
    BY <1>4, <2>3, QueueEnters DEF PermissionGranted, Goto, queueVars
  <2>4. CASE Handle(q)
    BY <1>4, <2>4 DEF Handle, HandlerRefuses, UpdatePermissions, Reconnect, GetPermissions,
       Disconnect, ListRouterMethods, Connect, Forward, Goto, paramVars, queueVars
  <2>5. CASE Answer(q)
    BY <1>4, <2>5 DEF Answer, WalletAnswers, ForwardFails, SendFails, Goto, paramVars, queueVars
  <2> QED
    BY <1>4, <2>1, <2>2, <2>3, <2>4, <2>5
<1>5. ASSUME Arrive(r) \/ Resume(r) \/ Handle(r) \/ Answer(r), pc[r] = "approval"
      PROVE  pc'[r] \in {"handler", "refused"} /\ Kept
  <2>1. ApprovalSettled(r)
    BY <1>5 DEF Arrive, ArriveConnect, ArriveMalformed, ArriveWithSession, Resume,
       SessionChecked, PermissionRefused, PermissionGranted, PermissionsApproved,
       PermissionsRefused, PermissionsRead, Disconnected, Handle, HandlerRefuses,
       UpdatePermissions, Reconnect, GetPermissions, Disconnect, ListRouterMethods, Connect,
       Forward, Answer, WalletAnswers, ForwardFails, SendFails
  <2> QED
    BY <2>1 DEF ApprovalSettled, Goto, queueVars
<1>6. ASSUME Arrive(r) \/ Resume(r) \/ Handle(r) \/ Answer(r), pc[r] = "forwarded"
      PROVE  \/ pc'[r] \in Outcomes
             \/ pc'[r] = "forwarded" /\ left'[r] = left[r] - 1
  <2>1. Answer(r)
    BY <1>6 DEF Arrive, ArriveConnect, ArriveMalformed, ArriveWithSession, Resume,
       SessionChecked, PermissionRefused, PermissionGranted, ApprovalSettled,
       PermissionsApproved, PermissionsRefused, PermissionsRead, Disconnected, Handle,
       HandlerRefuses, UpdatePermissions, Reconnect, GetPermissions, Disconnect,
       ListRouterMethods, Connect, Forward
  <2> QED
    BY <1>6, <2>1, AnswerStep
<1> QED
  BY <1>1, <1>2, <1>3, <1>4, <1>5, <1>6 DEF Next

\* A request that asked the user goes on or is refused, if not by the user then
\* by its own timer.
LEMMA ApprovalEnds ==
  ASSUME NEW r \in Request
  PROVE  Spec => (pc[r] = "approval" ~> pc[r] \in Outcomes \cup {"handler"})
<1>1. Spec => Q!QueueSpec
  BY QueueRefinement
<1>2. Q!QueueSpec => (verdict[r] = "waiting" ~> verdict[r] # "waiting")
  BY Q!LivenessCorrect DEF Q!Released, Q!NoneAssumption
<1>3. Spec => \/ []<>~(pc[r] = "approval" /\ verdict[r] # "waiting")
              \/ []<><<ApprovalSettled(r)>>_vars
  BY FairnessOf
<1>4. ~(verdict[r] # "waiting") => verdict[r] = "waiting"
  OBVIOUS
<1>5. IInv /\ pc[r] = "approval" /\ [Next]_vars
        => (pc[r] = "approval")' \/ (pc[r] \in Outcomes \cup {"handler"})'
  BY WaitStep DEF Outcomes
<1>6. IInv /\ pc[r] = "approval" /\ verdict[r] # "waiting" /\ [Next]_vars
        => (verdict[r] # "waiting")'
  BY WaitStep
<1>7. IInv /\ ApprovalSettled(r) => (pc[r] \in Outcomes \cup {"handler"})'
  BY DEF ApprovalSettled, Goto, Outcomes, IInv, RouterTypeOK
<1>8. pc[r] = "approval" /\ verdict[r] # "waiting"
        => ~~(pc[r] = "approval" /\ verdict[r] # "waiting")
  OBVIOUS
<1>9. Spec => [][Next]_vars
  BY DEF Spec
<1> QED
  BY <1>1, <1>2, <1>3, <1>4, <1>5, <1>6, <1>7, <1>8, <1>9, IInvAlways, PTL

\* Request r waits for a wallet, with n calls left to be answered.
Awaits(r, n) == pc[r] = "forwarded" /\ left[r] = n

\* With n calls left a forward ends, or comes to n - 1 calls; the last one ends it.
Advances(r, n) ==
  Awaits(r, n) ~> pc[r] \in Outcomes \/ (n # 1 /\ Awaits(r, n - 1))

\* So every forward does, whatever the bulk size.
THEOREM ForwardAdvances == ASSUME NEW r \in Request, NEW n \in Nat PROVE Spec => Advances(r, n)
<1>1. Spec => \/ []<>~(pc[r] = "forwarded" /\ via[r] \in Live)
              \/ []<><<Answer(r)>>_vars
  BY FairnessOf
<1>2. IInv /\ Awaits(r, n) => ~~(pc[r] = "forwarded" /\ via[r] \in Live)
  BY DEF IInv, RequestOK, ForwardOK, Awaits
<1>3. IInv /\ Awaits(r, n) /\ [Next]_vars
        => Awaits(r, n)' \/ (pc[r] \in Outcomes \/ (n # 1 /\ Awaits(r, n - 1)))'
  <2> SUFFICES ASSUME IInv, Awaits(r, n), [Next]_vars
               PROVE  Awaits(r, n)' \/ (pc[r] \in Outcomes \/ (n # 1 /\ Awaits(r, n - 1)))'
    OBVIOUS
  <2>1. pc'[r] \in Outcomes \/ (pc'[r] = "forwarded" /\ left'[r] \in {n, n - 1})
    BY WaitStep DEF Awaits
  <2>2. left'[r] # 0 \/ pc'[r] # "forwarded"
    BY NextIInv DEF IInv, RequestOK, ForwardOK
  <2> QED
    BY <2>1, <2>2 DEF Awaits
<1>4. IInv /\ Awaits(r, n) /\ Answer(r)
        => (pc[r] \in Outcomes \/ (n # 1 /\ Awaits(r, n - 1)))'
  BY AnswerStep DEF Awaits
<1>5. Spec => [][Next]_vars
  BY DEF Spec
<1> QED
  BY <1>1, <1>2, <1>3, <1>4, <1>5, IInvAlways, PTL DEF Advances

\* Only a bulk call has more than one call left.
Single == \A r \in Request : pc[r] = "forwarded" /\ kind[r] # "bulkCall" => left[r] = 1

\* A forward begins with one call, and ends with its answer.
LEMMA SingleStep == IInv /\ Single /\ [Next]_vars => Single'
<1> SUFFICES ASSUME IInv, Single, [Next]_vars, NEW r \in Request,
                    pc'[r] = "forwarded", kind'[r] # "bulkCall"
             PROVE  left'[r] = 1
  BY DEF Single
<1>0. RouterTypeOK
  BY DEF IInv
<1> USE <1>0 DEF RouterTypeOK, Single
<1>1. CASE UNCHANGED vars \/ UserOrTimer
  BY <1>1 DEF vars, UserOrTimer, UserDecides, ApprovalExpires, paramVars
<1>2. CASE WalletSide
  <2>1. UNCHANGED <<kind, left>>
    BY <1>2 DEF WalletSide, AddWallet, RemoveWallet, Close, Revoke, RevokeSession,
       RevokeAllSessions, Revoked, paramVars
  <2>2. pc' = pc \/ \E P : CloseProxies(P)
    BY <1>2 DEF WalletSide, AddWallet, RemoveWallet, Close, Revoke, RevokeSession,
       RevokeAllSessions, Revoked
  <2>3. pc[r] = "forwarded"
    BY <2>2 DEF CloseProxies
  <2> QED
    BY <2>1, <2>3
<1>3. ASSUME NEW q \in Request, Arrive(q) PROVE left'[r] = 1
  BY <1>3 DEF Arrive, ArriveConnect, ArriveMalformed, ArriveWithSession, Goto, paramVars
<1>4. ASSUME NEW q \in Request, Resume(q) PROVE left'[r] = 1
  BY <1>4 DEF Resume, SessionChecked, PermissionRefused, PermissionGranted, ApprovalSettled,
     PermissionsApproved, PermissionsRefused, PermissionsRead, Disconnected, Goto, paramVars
<1>5. ASSUME NEW q \in Request, Handle(q) PROVE left'[r] = 1
  <2>1. CASE \E ch \in Chain : Forward(q, ch)
    BY <2>1 DEF Forward, Goto
  <2>2. CASE ~\E ch \in Chain : Forward(q, ch)
    BY <1>5, <2>2 DEF Handle, HandlerRefuses, UpdatePermissions, Reconnect, GetPermissions,
       Disconnect, ListRouterMethods, Connect, Goto, paramVars
  <2> QED
    BY <2>1, <2>2
<1>6. ASSUME NEW q \in Request, Answer(q) PROVE left'[r] = 1
  <2>1. CASE q = r
    BY <1>6, <2>1, AnswerStep DEF Answer, WalletAnswers, ForwardFails, SendFails, Outcomes,
       paramVars
  <2>2. CASE q # r
    BY <1>6, <2>2 DEF Answer, WalletAnswers, ForwardFails, SendFails, Goto, paramVars
  <2> QED
    BY <2>1, <2>2
<1> QED
  BY <1>1, <1>2, <1>3, <1>4, <1>5, <1>6 DEF Next

\* Whatever the bulk size: every request that waits for the user, and every
\* forward that is not a bulk call, ends.
THEOREM CallsEnd ==
  ASSUME NEW r \in Request
  PROVE  Spec => (pc[r] = "approval" \/ (pc[r] = "forwarded" /\ kind[r] # "bulkCall")
                    ~> pc[r] \in Outcomes \cup {"handler"})
<1>1. Init => Single
  BY DEF Init, Single
<1>2. Spec => []Single
  BY <1>1, SingleStep, IInvAlways, PTL DEF Spec
<1>3. Spec => Advances(r, 1)
  BY ForwardAdvances
<1>4. Advances(r, 1) => (Awaits(r, 1) ~> pc[r] \in Outcomes \/ (1 # 1 /\ Awaits(r, 1 - 1)))
  BY DEF Advances
<1>5. pc[r] \in Outcomes \/ (1 # 1 /\ Awaits(r, 1 - 1)) => pc[r] \in Outcomes \cup {"handler"}
  OBVIOUS
<1>6. Single /\ pc[r] = "forwarded" /\ kind[r] # "bulkCall" => Awaits(r, 1)
  BY DEF Single, Awaits
<1>7. Spec => (pc[r] = "approval" ~> pc[r] \in Outcomes \cup {"handler"})
  BY ApprovalEnds
<1> QED
  BY <1>2, <1>3, <1>4, <1>5, <1>6, <1>7, PTL

\* A request that waits for the user or for a wallet ends.  The calls of a bulk
\* call are counted down one at a time, and that is written out here up to
\* three of them.
THEOREM LivenessCorrect == ASSUME BulkSize \in 1..3 PROVE Spec => WaitsEnd
<1> SUFFICES ASSUME NEW r \in Request
             PROVE  Spec => (pc[r] \in {"approval", "forwarded"}
                               ~> pc[r] \in Outcomes \cup {"handler"})
  BY DEF WaitsEnd
<1>1. Spec => Advances(r, 1) /\ Advances(r, 2) /\ Advances(r, 3)
  BY ForwardAdvances
<1>2. /\ Advances(r, 1) => (Awaits(r, 1) ~> pc[r] \in Outcomes \/ (1 # 1 /\ Awaits(r, 1 - 1)))
      /\ Advances(r, 2) => (Awaits(r, 2) ~> pc[r] \in Outcomes \/ (2 # 1 /\ Awaits(r, 2 - 1)))
      /\ Advances(r, 3) => (Awaits(r, 3) ~> pc[r] \in Outcomes \/ (3 # 1 /\ Awaits(r, 3 - 1)))
  BY DEF Advances
<1>4. pc[r] \in Outcomes \/ (1 # 1 /\ Awaits(r, 1 - 1)) => pc[r] \in Outcomes \cup {"handler"}
  OBVIOUS
<1>5. pc[r] \in Outcomes \/ (2 # 1 /\ Awaits(r, 2 - 1))
        => pc[r] \in Outcomes \cup {"handler"} \/ Awaits(r, 1)
  BY DEF Awaits
<1>6. pc[r] \in Outcomes \/ (3 # 1 /\ Awaits(r, 3 - 1))
        => pc[r] \in Outcomes \cup {"handler"} \/ Awaits(r, 2)
  BY DEF Awaits
<1>7. IInv /\ pc[r] \in {"approval", "forwarded"}
        => pc[r] = "approval" \/ Awaits(r, 1) \/ Awaits(r, 2) \/ Awaits(r, 3)
  BY DEF IInv, RequestOK, ForwardOK, Awaits
<1>8. Spec => (pc[r] = "approval" ~> pc[r] \in Outcomes \cup {"handler"})
  BY ApprovalEnds
<1> QED
  BY <1>1, <1>2, <1>4, <1>5, <1>6, <1>7, <1>8, IInvAlways, PTL
=============================================================================
