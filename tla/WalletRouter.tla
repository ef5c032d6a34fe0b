---------------------------- MODULE WalletRouter ----------------------------
(***************************************************************************)
(* WalletRouter: the JSONRPCNode a dApp talks to.  Its requests run        *)
(* through the session, permission and approval middleware into the wm_*   *)
(* handlers, and interleave at every await.  They share one context: the   *)
(* node hands the same object to every request, and both the session       *)
(* middleware and wm_connect write context.session.  Beside them the       *)
(* wallet revokes sessions, adds and removes wallets and closes the router.*)
(*                                                                         *)
(* A session store reads and writes when it is called (MemorySessionStore, *)
(* LocalStorageSessionStore) and its caller resumes later.  A SessionData  *)
(* object is its id.  The permission manager may grant or refuse anything. *)
(***************************************************************************)
EXTENDS Naturals

CONSTANTS Request,        \* the requests of the dApp, by JSON-RPC id
          NeedsApproval,  \* requests whose wm_call method needs an approval
          Session,        \* session ids
          Stored,         \* sessions that an earlier run left in the store
          Chain,          \* chain ids
          BulkSize,       \* number of calls of a wm_bulkCall
          MaxProxy,       \* bound on the proxies ever created
          None            \* undefined

ASSUME RouterAssumption == /\ Stored \subseteq Session
                           /\ None \notin Session \cup Request
                           /\ BulkSize \in Nat \ {0} /\ MaxProxy \in Nat

VARIABLES
  store,       \* store[s]: the id in the SessionData stored under key s, or None
  ctx,         \* context.session of the one context all requests share
  drawn,       \* session ids wm_connect has drawn
  terminated,  \* sessions onSessionDeleted was called for
  revoking,    \* sessions revokeSession is about to delete
  open,        \* the middleware is installed: close() was not called
  proxy,       \* proxy[ch]: the JSONRPCProxy of chain ch, 0 if it has none
  proxies,     \* number of proxies created so far
  pc,          \* pc[r]: the await that r is suspended in, or its outcome
  kind,        \* kind[r]: the wm_ method of r
  sid,         \* sid[r]: params.sessionId of r; of wm_connect, the id it draws
  held,        \* held[r]: the session object r has in a local variable
  shown,       \* shown[r]: the sessionId in the ApprovalContext of r
  via,         \* via[r]: the proxy r forwards to
  left,        \* left[r]: calls of r that are still to be answered
  pending, armed, verdict, dialog    \* the approval queue

sessionVars == <<store, ctx, drawn, terminated, revoking>>
walletVars  == <<open, proxy, proxies>>
paramVars   == <<kind, sid, held, shown, via, left>>
queueVars   == <<pending, armed, verdict, dialog>>
vars == <<sessionVars, walletVars, pc, paramVars, queueVars>>

Approvals == INSTANCE ApprovalQueue WITH Id <- [r \in Request |-> r], Immediate <- {}

Kinds    == {"connect", "reconnect", "disconnect", "getPermissions",
             "updatePermissions", "call", "bulkCall", "getSupportedMethods"}
Outcomes == {"ok", "gone", "refused", "failed", "partial"}
Stages   == {"new", "session", "permission", "approval", "handler", "approving",
             "reading", "cleaning", "forwarded"}

Init == /\ store = [s \in Session |-> IF s \in Stored THEN s ELSE None]
        /\ ctx = None
        /\ drawn = Stored
        /\ terminated = {} /\ revoking = {}
        /\ open = TRUE
        /\ proxy = [ch \in Chain |-> 0] /\ proxies = 0
        /\ pc = [r \in Request |-> "new"]
        /\ kind = [r \in Request |-> "connect"]
        /\ sid = [r \in Request |-> None]
        /\ held = [r \in Request |-> None]
        /\ shown = [r \in Request |-> None]
        /\ via = [r \in Request |-> 0]
        /\ left = [r \in Request |-> 0]
        /\ Approvals!QueueInit

Goto(r, stage) == pc' = [pc EXCEPT ![r] = stage]

-----------------------------------------------------------------------------
(* The middleware.                                                         *)

\* wm_connect carries no session id and goes straight to the permission check.
ArriveConnect(r) ==
  /\ pc[r] = "new"
  /\ kind' = [kind EXCEPT ![r] = "connect"]
  /\ Goto(r, IF open THEN "permission" ELSE "handler")
  /\ UNCHANGED <<sessionVars, walletVars, sid, held, shown, via, left, queueVars>>

\* wm_connect with a session id, or any other method without one.
ArriveMalformed(r) ==
  /\ pc[r] = "new" /\ open
  /\ Goto(r, "refused")
  /\ UNCHANGED <<sessionVars, walletVars, paramVars, queueVars>>

\* Every other method names a session; the store is read at once.  After
\* close() no middleware is left in front of the handlers.
ArriveWithSession(r, k, s) ==
  /\ pc[r] = "new"
  /\ kind' = [kind EXCEPT ![r] = k]
  /\ sid' = [sid EXCEPT ![r] = s]
  /\ held' = [held EXCEPT ![r] = IF open THEN store[s] ELSE None]
  /\ Goto(r, IF open THEN "session" ELSE "handler")
  /\ UNCHANGED <<sessionVars, walletVars, shown, via, left, queueVars>>

SessionChecked(r) ==
  /\ pc[r] = "session"
  /\ \/ /\ held[r] = None
        /\ Goto(r, "refused")
        /\ UNCHANGED ctx
     \/ /\ held[r] # None
        /\ ctx' = held[r]
        /\ Goto(r, "permission")
  /\ UNCHANGED <<store, drawn, terminated, revoking, walletVars, paramVars, queueVars>>

PermissionRefused(r) ==
  /\ pc[r] = "permission"
  /\ Goto(r, "refused")
  /\ UNCHANGED <<sessionVars, walletVars, paramVars, queueVars>>

AsksUser(r) == kind[r] = "call" /\ r \in NeedsApproval

\* Fault: the promise of queueApproval is not awaited.
PermissionGrantedNoWait(r) ==
  /\ pc[r] = "permission"
  /\ AsksUser(r)
  /\ shown' = [shown EXCEPT ![r] = ctx]
  /\ Approvals!Queue(r)
  /\ Goto(r, "handler")
  /\ UNCHANGED <<sessionVars, walletVars, kind, sid, held, via, left>>

PermissionGranted(r) ==
  /\ pc[r] = "permission"
  /\ \/ /\ AsksUser(r)
        /\ shown' = [shown EXCEPT ![r] = ctx]
        /\ Approvals!Queue(r)
        /\ Goto(r, "approval")
     \/ /\ ~AsksUser(r)
        /\ Goto(r, "handler")
        /\ UNCHANGED <<shown, queueVars>>
  /\ UNCHANGED <<sessionVars, walletVars, kind, sid, held, via, left>>

\* Fault: only a denial stops the request, not a timeout.
ApprovalSettledUnlessDenied(r) ==
  /\ pc[r] = "approval" /\ verdict[r] # "waiting"
  /\ Goto(r, IF verdict[r] = "denied" THEN "refused" ELSE "handler")
  /\ UNCHANGED <<sessionVars, walletVars, paramVars, queueVars>>

\* The request resumes after the promise of queueApproval has settled.
ApprovalSettled(r) ==
  /\ pc[r] = "approval" /\ verdict[r] # "waiting"
  /\ Goto(r, IF verdict[r] = "approved" THEN "handler" ELSE "refused")
  /\ UNCHANGED <<sessionVars, walletVars, paramVars, queueVars>>

UserDecides(r) == /\ Approvals!Decide(r)
                  /\ UNCHANGED <<sessionVars, walletVars, pc, paramVars>>

ApprovalExpires(r) == /\ Approvals!Expire(r)
                      /\ UNCHANGED <<sessionVars, walletVars, pc, paramVars>>

UserOrTimer == \E r \in Request : UserDecides(r) \/ ApprovalExpires(r)

-----------------------------------------------------------------------------
(* The handlers.  Each starts after the await of deserializeParams.        *)

HandlerRefuses(r) ==
  /\ pc[r] = "handler"
  /\ \/ kind[r] = "connect"      \* unknown origin, no chains
     \/ kind[r] = "reconnect"    \* unknown origin
     \/ kind[r] \in {"disconnect", "getPermissions", "updatePermissions"} /\ ctx = None
     \/ kind[r] \in {"call", "bulkCall", "getSupportedMethods"}
        /\ \E ch \in Chain : proxy[ch] = 0
  /\ Goto(r, "refused")
  /\ UNCHANGED <<sessionVars, walletVars, paramVars, queueVars>>

\* Fault: the session is stored before its permissions are approved.
ConnectStoringFirst(r, s) ==
  /\ pc[r] = "handler" /\ kind[r] = "connect"
  /\ s \notin drawn
  /\ drawn' = drawn \cup {s}
  /\ sid' = [sid EXCEPT ![r] = s]
  /\ held' = [held EXCEPT ![r] = s]
  /\ ctx' = s
  /\ store' = [store EXCEPT ![s] = s]
  /\ Goto(r, "approving")
  /\ UNCHANGED <<terminated, revoking, walletVars, kind, shown, via, left, queueVars>>

\* The new session is in the shared context before anybody approved it.
Connect(r, s) ==
  /\ pc[r] = "handler" /\ kind[r] = "connect"
  /\ s \notin drawn
  /\ drawn' = drawn \cup {s}
  /\ sid' = [sid EXCEPT ![r] = s]
  /\ held' = [held EXCEPT ![r] = s]
  /\ ctx' = s
  /\ Goto(r, "approving")
  /\ UNCHANGED <<store, terminated, revoking, walletVars, kind, shown, via, left, queueVars>>

UpdatePermissions(r) ==
  /\ pc[r] = "handler" /\ kind[r] = "updatePermissions"
  /\ ctx # None
  /\ held' = [held EXCEPT ![r] = ctx]
  /\ Goto(r, "approving")
  /\ UNCHANGED <<sessionVars, walletVars, kind, sid, shown, via, left, queueVars>>

\* connect and updatePermissions end alike: sessionStore.set(sessionId, session).
PermissionsApproved(r) ==
  /\ pc[r] = "approving"
  /\ store' = [store EXCEPT ![sid[r]] = held[r]]
  /\ Goto(r, "ok")
  /\ UNCHANGED <<ctx, drawn, terminated, revoking, walletVars, paramVars, queueVars>>

PermissionsRefused(r) ==
  /\ pc[r] = "approving"
  /\ Goto(r, "refused")
  /\ UNCHANGED <<sessionVars, walletVars, paramVars, queueVars>>

Reconnect(r) ==
  /\ pc[r] = "handler" /\ kind[r] = "reconnect"
  /\ held' = [held EXCEPT ![r] = store[sid[r]]]
  /\ Goto(r, "reading")
  /\ UNCHANGED <<sessionVars, walletVars, kind, sid, shown, via, left, queueVars>>

GetPermissions(r) ==
  /\ pc[r] = "handler" /\ kind[r] = "getPermissions"
  /\ ctx # None
  /\ held' = [held EXCEPT ![r] = ctx]
  /\ Goto(r, "reading")
  /\ UNCHANGED <<sessionVars, walletVars, kind, sid, shown, via, left, queueVars>>

PermissionsRead(r) ==
  /\ pc[r] = "reading"
  /\ \/ held[r] = None /\ Goto(r, "gone")
     \/ held[r] # None /\ Goto(r, "ok")
     \/ held[r] # None /\ Goto(r, "refused")
  /\ UNCHANGED <<sessionVars, walletVars, paramVars, queueVars>>

Disconnect(r) ==
  /\ pc[r] = "handler" /\ kind[r] = "disconnect"
  /\ ctx # None
  /\ Goto(r, "cleaning")
  /\ UNCHANGED <<sessionVars, walletVars, paramVars, queueVars>>

Delete(s) == /\ store' = [store EXCEPT ![s] = None]
             /\ terminated' = terminated \cup {s}

\* A permission manager whose cleanup fails keeps the session.
Disconnected(r) ==
  /\ pc[r] = "cleaning"
  /\ \/ Delete(sid[r]) /\ Goto(r, "ok")
     \/ Goto(r, "refused") /\ UNCHANGED <<store, terminated>>
  /\ UNCHANGED <<ctx, drawn, revoking, walletVars, paramVars, queueVars>>

ForwardKinds == {"call", "bulkCall", "getSupportedMethods"}

\* validateChain takes the proxy once; a bulk call keeps it.
Forward(r, ch) ==
  /\ pc[r] = "handler" /\ kind[r] \in ForwardKinds
  /\ proxy[ch] # 0
  /\ via' = [via EXCEPT ![r] = proxy[ch]]
  /\ left' = [left EXCEPT ![r] = IF kind[r] = "bulkCall" THEN BulkSize ELSE 1]
  /\ Goto(r, "forwarded")
  /\ UNCHANGED <<sessionVars, walletVars, kind, sid, held, shown, queueVars>>

\* wm_getSupportedMethods without chains is answered by the router itself.
ListRouterMethods(r) ==
  /\ pc[r] = "handler" /\ kind[r] = "getSupportedMethods"
  /\ Goto(r, "ok")
  /\ UNCHANGED <<sessionVars, walletVars, paramVars, queueVars>>

Live == {proxy[ch] : ch \in Chain} \ {0}

\* Fault: the loop of bulkCall runs once too often.
WalletAnswersOnceMore(r) ==
  /\ pc[r] = "forwarded" /\ via[r] \in Live
  /\ left' = [left EXCEPT ![r] = @ - 1]
  /\ IF left[r] < 0 THEN Goto(r, "ok") ELSE UNCHANGED pc
  /\ UNCHANGED <<sessionVars, walletVars, kind, sid, held, shown, via, queueVars>>

\* A bulk call goes on to its next call as soon as one is answered.  A closed
\* proxy has no entry that an answer or a timer could find.
WalletAnswers(r) ==
  /\ pc[r] = "forwarded" /\ via[r] \in Live
  /\ left' = [left EXCEPT ![r] = @ - 1]
  /\ IF left[r] = 1 THEN Goto(r, "ok") ELSE UNCHANGED pc
  /\ UNCHANGED <<sessionVars, walletVars, kind, sid, held, shown, via, queueVars>>

\* Fault: a bulk call that got no answer at all fails partially.
FailurePartial(r) == CASE kind[r] = "getSupportedMethods" -> "ok"
                       [] kind[r] = "bulkCall"             -> "partial"
                       [] OTHER                            -> "failed"

\* What a failed forward leaves of r: wm_getSupportedMethods takes a wallet
\* error (a closed proxy, a timeout) for a wallet with no methods.
Failure(r) == CASE kind[r] = "getSupportedMethods"           -> "ok"
                [] kind[r] = "bulkCall" /\ left[r] < BulkSize -> "partial"
                [] OTHER                                      -> "failed"

\* A wallet error, or the timeout of the proxy.
ForwardFails(r) ==
  /\ pc[r] = "forwarded" /\ via[r] \in Live
  /\ Goto(r, Failure(r))
  /\ UNCHANGED <<sessionVars, walletVars, paramVars, queueVars>>

\* The transport of the wallet refuses the message.
SendFails(r) ==
  /\ pc[r] = "forwarded" /\ via[r] \in Live /\ kind[r] = "getSupportedMethods"
  /\ Goto(r, "failed")
  /\ UNCHANGED <<sessionVars, walletVars, paramVars, queueVars>>

-----------------------------------------------------------------------------
(* The wallet's side.                                                      *)

AddWallet(ch) ==
  /\ proxy[ch] = 0
  /\ proxies < MaxProxy
  /\ proxies' = proxies + 1
  /\ proxy' = [proxy EXCEPT ![ch] = proxies + 1]
  /\ UNCHANGED <<sessionVars, open, pc, paramVars, queueVars>>

\* Fault: closing a proxy rejects nothing.
CloseSilently(P) == UNCHANGED pc

\* JSONRPCProxy.close rejects every forward that waits for the proxy.
CloseProxies(P) ==
  pc' = [r \in Request |-> IF pc[r] = "forwarded" /\ via[r] \in P
                           THEN Failure(r) ELSE pc[r]]

RemoveWallet(ch) ==
  /\ proxy[ch] # 0
  /\ CloseProxies({proxy[ch]})
  /\ proxy' = [proxy EXCEPT ![ch] = 0]
  /\ UNCHANGED <<sessionVars, open, proxies, paramVars, queueVars>>

Close ==
  /\ CloseProxies({proxy[ch] : ch \in Chain})
  /\ proxy' = [ch \in Chain |-> 0]
  /\ open' = FALSE
  /\ UNCHANGED <<sessionVars, proxies, paramVars, queueVars>>

\* revokeSession reads the session and cleans up its permissions; then, even
\* if the cleanup failed, it deletes the session.
RevokeSession(S) ==
  /\ S # {} /\ \A s \in S : store[s] # None
  /\ revoking' = revoking \cup S
  /\ UNCHANGED <<store, ctx, drawn, terminated, walletVars, pc, paramVars, queueVars>>

Revoke(s) == RevokeSession({s})

\* revokeAllSessions revokes by the ids inside the stored data, not by key.
RevokeAllSessions ==
  RevokeSession({s \in Session : store[s] # None /\ \E k \in Session : store[k] = s})

Revoked(s) ==
  /\ s \in revoking
  /\ Delete(s)
  /\ revoking' = revoking \ {s}
  /\ UNCHANGED <<ctx, drawn, walletVars, pc, paramVars, queueVars>>

-----------------------------------------------------------------------------
Arrive(r) ==
  \/ ArriveConnect(r) \/ ArriveMalformed(r)
  \/ \E k \in Kinds \ {"connect"}, s \in drawn : ArriveWithSession(r, k, s)

Resume(r) ==
  \/ SessionChecked(r) \/ PermissionRefused(r) \/ PermissionGranted(r)
  \/ ApprovalSettled(r) \/ PermissionsApproved(r) \/ PermissionsRefused(r)
  \/ PermissionsRead(r) \/ Disconnected(r)

Handle(r) ==
  \/ HandlerRefuses(r) \/ UpdatePermissions(r) \/ Reconnect(r)
  \/ GetPermissions(r) \/ Disconnect(r) \/ ListRouterMethods(r)
  \/ \E s \in Session : Connect(r, s)
  \/ \E ch \in Chain : Forward(r, ch)

Answer(r) == WalletAnswers(r) \/ ForwardFails(r) \/ SendFails(r)

WalletSide == \/ \E ch \in Chain : AddWallet(ch) \/ RemoveWallet(ch)
              \/ \E s \in Session : Revoke(s) \/ Revoked(s)
              \/ RevokeAllSessions
              \/ Close

Next == \/ \E r \in Request : Arrive(r) \/ Resume(r) \/ Handle(r) \/ Answer(r)
        \/ UserOrTimer
        \/ WalletSide

\* A timer of the queue fires, a settled promise resumes its request, and a
\* forward is answered or ends with the timeout of its proxy.  Each is weak
\* fairness of an action, with the guard that enables it written out.
TimerFires(r) == []<>(r \notin armed) \/ []<><<ApprovalExpires(r)>>_vars

Resumes(r) == \/ []<>~(pc[r] = "approval" /\ verdict[r] # "waiting")
              \/ []<><<ApprovalSettled(r)>>_vars

ForwardEnds(r) == \/ []<>~(pc[r] = "forwarded" /\ via[r] \in Live)
                  \/ []<><<Answer(r)>>_vars

Fairness == \A r \in Request : TimerFires(r) /\ Resumes(r) /\ ForwardEnds(r)

Spec == Init /\ [][Next]_vars /\ Fairness

-----------------------------------------------------------------------------
(* Properties.                                                             *)

\* The values the router's state may take.
TypeOK == /\ store \in [Session -> Session \cup {None}]
          /\ ctx \in Session \cup {None}
          /\ drawn \subseteq Session /\ terminated \subseteq drawn /\ revoking \subseteq drawn
          /\ open \in BOOLEAN
          /\ proxy \in [Chain -> 0..proxies] /\ proxies \in 0..MaxProxy
          /\ pc \in [Request -> Stages \cup Outcomes]
          /\ kind \in [Request -> Kinds]
          /\ sid \in [Request -> Session \cup {None}]
          /\ held \in [Request -> Session \cup {None}]
          /\ shown \in [Request -> Session \cup {None}]
          /\ via \in [Request -> 0..proxies]
          /\ left \in [Request -> 0..BulkSize]
          /\ Approvals!QueueTypeOK

Granted(s) == \/ s \in Stored
              \/ \E r \in Request : kind[r] = "connect" /\ sid[r] = s /\ pc[r] = "ok"

\* No session is valid that nobody approved.  wm_connect publishes its session
\* in the shared context before approval, where a concurrent request may pick
\* it up and store it; the key it is valid under must still be an approved one.
StoredIsGranted == open => \A s \in Session : store[s] # None => Granted(s)

\* A call reaches a wallet only on behalf of an approved session, and, where
\* the method asks for it, only after the user said yes to that very call,
\* however the requests interleave with each other and with the timeouts.
ForwardedIsAuthorised ==
  \A r \in Request : open /\ pc[r] = "forwarded" =>
    Granted(sid[r]) /\ (AsksUser(r) => dialog[r] = "yes")

\* Nothing waits in the approval queue but the requests that block on it, and
\* no request blocks on a promise the queue has lost.
BlockedIffQueued ==
  \A r \in Request : (pc[r] = "approval" /\ verdict[r] = "waiting") <=> pending[r] = r

\* No call waits for a wallet that is gone: removeWallet and close settle
\* every forward, also one that started on a proxy since replaced.
NoWaitOnClosedProxy == \A r \in Request : pc[r] = "forwarded" => via[r] \in Live

\* A partial failure is reported for bulk calls only, after some of the calls
\* were answered and not all.
PartialIsPartial ==
  \A r \in Request : pc[r] = "partial" =>
    kind[r] = "bulkCall" /\ left[r] \in 1..(BulkSize - 1)

\* In this step, a session that ended becomes valid by an update only.
UpdateRevives ==
  open => \A s \in terminated : store[s] = None /\ store'[s] # None =>
    \E r \in Request : /\ kind[r] = "updatePermissions" /\ sid[r] = s
                      /\ pc[r] = "approving" /\ pc'[r] = "ok"

\* A session that was disconnected or revoked becomes valid again in one way
\* only: a wm_updatePermissions that waited for the user meanwhile stores it
\* again.  No wm_connect revives one, although its session is in the shared
\* context, and so in the hands of others, before it is approved.
RevivedByUpdateOnly == [][UpdateRevives]_vars

\* A request that waits for the user or for a wallet ends.
WaitsEnd ==
  \A r \in Request : pc[r] \in {"approval", "forwarded"} ~> pc[r] \in Outcomes \cup {"handler"}

\* "Session ID for the request" (ApprovalContext): what the user is shown.
ShowsOwnSession ==
  \A r \in Request : pc[r] = "approval" => shown[r] = sid[r]

\* revokeSession is "terminating the connection with the dApp": a session that
\* was reported as deleted is not valid any more.
TerminatedStaysInvalid == open => \A s \in terminated : store[s] = None
=============================================================================
