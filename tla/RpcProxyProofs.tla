--------------------------- MODULE RpcProxyProofs ---------------------------
(***************************************************************************)
(* For every set of forwards.  Whatever ids their messages have, what the  *)
(* table leads to is a forward that waits.  If the ids are distinct, as    *)
(* the router draws them, table, timers and promises agree, every forward  *)
(* ends, and the proxy implements a remote call.                           *)
(***************************************************************************)
EXTENDS RpcProxy, TLAPS

\* Whoever finds an entry finds, under the id of its own message, a forward
\* that waits with its timer armed; a closed proxy has no entries.
TableIsLive ==
  \A i \in Ids : entry[i] # None =>
    /\ Id[entry[i]] = i /\ promise[entry[i]] = "waiting" /\ entry[i] \in timer
    /\ ~closed

\* A forward that was not made has left nothing; the wallet answers it once.
AnswerIsFresh ==
  \A f \in Forward : /\ promise[f] = "none" <=> sendPc[f] = "idle"
                     /\ f \in requests => sendPc[f] # "idle" /\ f \notin produced
                     /\ f \in answers => f \in produced
                     /\ f \in produced => sendPc[f] # "idle"

AnyIds == TypeOK /\ TableIsLive /\ AnswerIsFresh

USE NoneAssumption

\* The invariant holds of a proxy that has forwarded nothing.
LEMMA InitAnyIds == Init => AnyIds
  BY DEF Init, AnyIds, TypeOK, TableIsLive, AnswerIsFresh, Ids, SendStages, Outcomes

\* Every action of the proxy and of the wallet preserves it.
LEMMA NextAnyIds == AnyIds /\ [Next]_vars => AnyIds'
<1> SUFFICES ASSUME AnyIds, [Next]_vars PROVE AnyIds'
  OBVIOUS
<1> USE DEF AnyIds, TypeOK, TableIsLive, AnswerIsFresh, SendStages, Outcomes
<1>0. \A f \in Forward : Id[f] \in Ids /\ f # None
  BY DEF Ids
<1>1. CASE UNCHANGED vars
  BY <1>1 DEF vars, proxyVars
<1>2. ASSUME NEW f \in Forward, StartForward(f) PROVE AnyIds'
  BY <1>0, <1>2 DEF StartForward
<1>3. ASSUME NEW f \in Forward, SendSucceeds(f) PROVE AnyIds'
  BY <1>3 DEF SendSucceeds
<1>4. ASSUME NEW f \in Forward, SendFails(f) PROVE AnyIds'
  BY <1>0, <1>4 DEF SendFails, Drop, Settle
<1>5. ASSUME NEW f \in Forward, Timeout(f) PROVE AnyIds'
  BY <1>0, <1>5 DEF Timeout, Drop, Settle
<1>6. ASSUME NEW f \in Forward, WalletAnswers(f) PROVE AnyIds'
  BY <1>6 DEF WalletAnswers, proxyVars
<1>7. ASSUME NEW f \in Forward, HandleResponse(f) PROVE AnyIds'
  BY <1>0, <1>7 DEF HandleResponse, Drop, Settle
<1>8. CASE Close
  BY <1>0, <1>8 DEF Close, Settle
<1> QED
  BY <1>1, <1>2, <1>3, <1>4, <1>5, <1>6, <1>7, <1>8 DEF Next

\* So it holds in every state.
LEMMA AnyIdsAlways == Spec => []AnyIds
  BY InitAnyIds, NextAnyIds, PTL DEF Spec

\* The variables of the proxy have their types.
THEOREM TypeCorrect == Spec => []TypeOK
<1>1. AnyIds => TypeOK
  BY DEF AnyIds
<1> QED
  BY <1>1, AnyIdsAlways, PTL

\* Whatever ids the messages have, nothing that was settled is left in the
\* table, so no response, timer or failed send can find it there again.
THEOREM EntryCorrect == Spec => []TableIsLive
<1>1. AnyIds => TableIsLive
  BY DEF AnyIds
<1> QED
  BY <1>1, AnyIdsAlways, PTL

-----------------------------------------------------------------------------
(* Messages with distinct ids.                                             *)

DistinctIds == \A f, g \in Forward : Id[f] = Id[g] => f = g

IInv == AnyIds /\ WaitingIffPending

\* Whatever a response finds under its id is the forward it answers.
LEMMA FoundIsOwn ==
  ASSUME DistinctIds, IInv, NEW f \in Forward
  PROVE  entry[Id[f]] \in {f, None}
  BY DEF DistinctIds, IInv, AnyIds, TypeOK, TableIsLive, Ids

\* A forward that waits keeps its entry and its timer.
LEMMA NextIInv == ASSUME DistinctIds PROVE IInv /\ [Next]_vars => IInv'
<1> SUFFICES ASSUME IInv, [Next]_vars PROVE WaitingIffPending'
  BY NextAnyIds DEF IInv
<1> USE DEF IInv, AnyIds, TypeOK, WaitingIffPending, AnswerIsFresh
<1>0. \A f \in Forward : Id[f] \in Ids
  BY DEF Ids
<1>1. CASE UNCHANGED vars
  BY <1>1 DEF vars, proxyVars
<1>2. ASSUME NEW f \in Forward, StartForward(f) PROVE WaitingIffPending'
  BY <1>0, <1>2 DEF StartForward, DistinctIds
<1>3. ASSUME NEW f \in Forward, SendSucceeds(f) PROVE WaitingIffPending'
  BY <1>3 DEF SendSucceeds
<1>4. ASSUME NEW f \in Forward, SendFails(f) PROVE WaitingIffPending'
  BY <1>0, <1>4 DEF SendFails, Drop, Settle, DistinctIds
<1>5. ASSUME NEW f \in Forward, Timeout(f) PROVE WaitingIffPending'
  BY <1>0, <1>5, FoundIsOwn DEF Timeout, Drop, Settle, DistinctIds
<1>6. ASSUME NEW f \in Forward, WalletAnswers(f) PROVE WaitingIffPending'
  BY <1>6 DEF WalletAnswers, proxyVars
<1>7. ASSUME NEW f \in Forward, HandleResponse(f) PROVE WaitingIffPending'
  BY <1>0, <1>7, FoundIsOwn DEF HandleResponse, Drop, Settle, DistinctIds
<1>8. CASE Close
  BY <1>0, <1>8 DEF Close, Settle
<1> QED
  BY <1>1, <1>2, <1>3, <1>4, <1>5, <1>6, <1>7, <1>8 DEF Next

\* So the invariant holds in every state, if no two messages share an id.
LEMMA IInvAlways == ASSUME DistinctIds PROVE Spec => []IInv
<1>1. Init => IInv
  BY InitAnyIds DEF Init, IInv, WaitingIffPending, Ids
<1> QED
  BY <1>1, NextIInv, PTL DEF Spec

\* A forward waits exactly while its entry is there and its timer runs, in
\* every order of response, timeout, failed send and close, and a closed
\* proxy has none left.
THEOREM TableCorrect == ASSUME DistinctIds PROVE Spec => []WaitingIffPending
<1>1. IInv => WaitingIffPending
  BY DEF IInv
<1> QED
  BY <1>1, IInvAlways, PTL

\* Every forward ends, by the default timeout at the latest: its timer is
\* armed as long as it waits, and when it fires the forward is settled.
THEOREM LivenessCorrect == ASSUME DistinctIds PROVE Spec => ForwardsEnd
<1> SUFFICES ASSUME NEW f \in Forward
             PROVE  Spec => (promise[f] = "waiting" ~> promise[f] # "waiting")
  BY DEF ForwardsEnd
<1>1. Spec => []<>(f \notin timer) \/ []<><<Timeout(f)>>_vars
  BY DEF Spec, TimerFires
<1>2. IInv /\ ~(promise[f] # "waiting") => ~(f \notin timer)
  BY DEF IInv, WaitingIffPending
<1>3. IInv /\ Timeout(f) => (promise[f] # "waiting")'
  <2> SUFFICES ASSUME IInv, Timeout(f) PROVE promise'[f] # "waiting"
    OBVIOUS
  <2>1. entry[Id[f]] = f /\ f # None
    BY DEF IInv, WaitingIffPending, Timeout
  <2> QED
    BY <2>1 DEF IInv, AnyIds, TypeOK, Timeout, Settle
<1> QED
  BY <1>1, <1>2, <1>3, IInvAlways, PTL

-----------------------------------------------------------------------------
(* The proxy implements RemoteCall.                                        *)

\* Settling promises otherwise than with a result ends calls that wait.
LEMMA SettleRejects ==
  ASSUME TypeOK, NEW S \in SUBSET Forward, NEW o \in {"timeout", "sendError", "closed"},
         Settle(S, o), produced' = produced
  PROVE  Abstract!Reject({f \in S : promise[f] = "waiting"})
<1> DEFINE W == {f \in S : promise[f] = "waiting"}
<1>1. \A f \in W : Phase[f] = "waiting"
  BY DEF Phase
<1>2. Phase' = [f \in Forward |-> IF f \in W THEN "rejected" ELSE Phase[f]]
  BY DEF Phase, Settle, TypeOK
<1> QED
  BY <1>1, <1>2 DEF Abstract!Reject

\* Every step of the proxy is a step of the abstract call or leaves it alone.
LEMMA StepSimulation ==
  ASSUME DistinctIds PROVE IInv /\ [Next]_vars => [Abstract!Next]_(Abstract!vars)
<1> SUFFICES ASSUME IInv, [Next]_vars PROVE [Abstract!Next]_(Abstract!vars)
  OBVIOUS
<1>0. TypeOK
  BY DEF IInv, AnyIds
<1>1. ASSUME promise' = promise, produced' = produced PROVE UNCHANGED Abstract!vars
  BY <1>1 DEF Abstract!vars, Phase
<1>2. ASSUME NEW S, NEW o \in {"timeout", "sendError", "closed"},
             Settle(S, o), produced' = produced
      PROVE  Abstract!Next
  <2> DEFINE T == S \cap Forward
             W == {f \in T : promise[f] = "waiting"}
  <2>1. T \in SUBSET Forward /\ Settle(T, o)
    BY <1>2 DEF Settle
  <2>2. Abstract!Reject(W)
    BY <1>0, <1>2, <2>1, SettleRejects
  <2>3. W \in SUBSET Forward
    OBVIOUS
  <2> QED
    BY <2>2, <2>3 DEF Abstract!Next
<1>3. CASE UNCHANGED vars
  BY <1>1, <1>3 DEF vars, proxyVars
<1>4. ASSUME NEW f \in Forward, StartForward(f) PROVE Abstract!Next
  <2>1. promise[f] = "none" /\ Phase[f] = "idle"
    BY <1>4 DEF StartForward, IInv, AnyIds, AnswerIsFresh, Phase
  <2>2. Phase' = [Phase EXCEPT ![f] = "waiting"]
    BY <1>0, <1>4 DEF StartForward, Phase, TypeOK
  <2> QED
    BY <1>4, <2>1, <2>2 DEF StartForward, Abstract!Invoke, Abstract!Next
<1>5. ASSUME NEW f \in Forward, SendSucceeds(f) PROVE UNCHANGED Abstract!vars
  BY <1>1, <1>5 DEF SendSucceeds
<1>6. ASSUME NEW f \in Forward, SendFails(f) PROVE Abstract!Next
  BY <1>2, <1>6 DEF SendFails
<1>7. ASSUME NEW f \in Forward, Timeout(f) PROVE Abstract!Next
  BY <1>2, <1>7 DEF Timeout
<1>8. ASSUME NEW f \in Forward, WalletAnswers(f) PROVE Abstract!Next
  <2>1. Phase' = Phase
    BY <1>8 DEF WalletAnswers, proxyVars, Phase
  <2>2. f \notin produced /\ promise[f] # "none"
    BY <1>8 DEF WalletAnswers, IInv, AnyIds, AnswerIsFresh
  <2>3. Phase[f] # "idle"
    BY <2>2 DEF Phase
  <2> QED
    BY <1>8, <2>1, <2>2, <2>3 DEF WalletAnswers, Abstract!Produce, Abstract!Next
<1>9. ASSUME NEW f \in Forward, HandleResponse(f) PROVE [Abstract!Next]_(Abstract!vars)
  <2>1. f \in produced /\ produced' = produced
    BY <1>9 DEF HandleResponse, IInv, AnyIds, AnswerIsFresh
  <2>2. CASE entry[Id[f]] = f
    <3>1. promise[f] = "waiting"
      BY <2>2 DEF IInv, WaitingIffPending
    <3>2. Phase[f] = "waiting"
      BY <3>1 DEF Phase
    <3>3. Phase' = [Phase EXCEPT ![f] = "fulfilled"]
      BY <1>0, <1>9, <2>2, <3>1 DEF HandleResponse, Settle, Phase, TypeOK
    <3> QED
      BY <2>1, <3>2, <3>3 DEF Abstract!Fulfil, Abstract!Next
  <2>3. CASE entry[Id[f]] = None
    <3>1. promise' = promise
      BY <1>0, <1>9, <2>3 DEF HandleResponse, Settle, TypeOK
    <3> QED
      BY <1>1, <2>1, <3>1
  <2> QED
    BY <2>2, <2>3, FoundIsOwn
<1>10. CASE Close
  BY <1>2, <1>10 DEF Close
<1> QED
  BY <1>3, <1>4, <1>5, <1>6, <1>7, <1>8, <1>9, <1>10 DEF Next

\* The proxy implements the abstract call, with the wallet as the peer.
THEOREM Refinement == ASSUME DistinctIds PROVE Spec => ImplementsRemoteCall
<1>1. Init => Abstract!Init
  BY DEF Init, Abstract!Init, Phase
<1> QED
  BY <1>1, IInvAlways, StepSimulation, PTL DEF Spec, ImplementsRemoteCall, Abstract!Spec
=============================================================================
