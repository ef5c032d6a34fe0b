-------------------------- MODULE ModalClientProofs --------------------------
(***************************************************************************)
(* For every set of wallets, sessions and calls, and any number of pages:  *)
(* the types, the agreement of store, registry and active session, that an *)
(* ended session stays ended, and what a disconnect achieves.              *)
(***************************************************************************)
EXTENDS ModalClient, TLAPS

USE StoreAssumption, ClientAssumption

(* What each operation of the store does to the sessions that it keeps.    *)

\* A new session is active and has its provider.
LEMMA Created ==
  ASSUME StoreTypeOK, NEW s \in Session, NEW w \in Wallet,
         RegisterProvider(s), CreateSession(s, w)
  PROVE  /\ StoreTypeOK' /\ Kept' = Kept \cup {s}
         /\ active' = s /\ providers' = providers \cup {s}
  BY DEF StoreTypeOK, RegisterProvider, CreateSession, Kept

\* A session that is rejected leaves nothing but its provider.
LEMMA Rejected ==
  ASSUME StoreTypeOK, NEW s \in Session, RegisterProvider(s), RejectSession
  PROVE  /\ StoreTypeOK' /\ Kept' = Kept
         /\ active' = active /\ providers' = providers \cup {s}
  BY DEF StoreTypeOK, RegisterProvider, RejectSession, Kept

\* Ended sessions lose their providers, and a session that remains becomes active.
LEMMA Ended ==
  ASSUME StoreTypeOK, NEW S, EndSessions(S)
  PROVE  /\ StoreTypeOK' /\ Kept' = Kept \ S
         /\ providers' = providers \ S
         /\ active' \in Kept' \cup {None} \/ (active' = active /\ active \notin S)
<1>1. sessions' \in [Session -> Wallet \cup {None}] /\ Kept' = Kept \ S
  BY DEF StoreTypeOK, EndSessions, Kept
<1>2. CASE active \notin S
  BY <1>1, <1>2 DEF StoreTypeOK, EndSessions, Kept
<1>3. CASE active \in S /\ Kept \subseteq S
  BY <1>1, <1>3 DEF StoreTypeOK, EndSessions, Kept
<1>4. CASE active \in S /\ ~(Kept \subseteq S)
  BY <1>1, <1>4 DEF StoreTypeOK, EndSessions, Kept
<1> QED
  BY <1>2, <1>3, <1>4

\* A cleanup of an adapter leaves the registry and the active session as they are.
LEMMA Wiped ==
  ASSUME StoreTypeOK, NEW w \in Wallet, WipeSessions(w)
  PROVE  /\ StoreTypeOK' /\ Kept' = Kept \ SessionsOf(w)
         /\ UNCHANGED <<active, providers>>
  BY DEF StoreTypeOK, WipeSessions, Kept, SessionsOf

\* The session that becomes active is one that is kept.
LEMMA Switched ==
  ASSUME StoreTypeOK, NEW s \in Session, SwitchToSession(s)
  PROVE  StoreTypeOK' /\ Kept' = Kept /\ active' \in Kept /\ providers' = providers
  BY DEF StoreTypeOK, SwitchToSession, Kept

\* Writing a session to localStorage changes nothing in the page.
LEMMA Persisted ==
  ASSUME StoreTypeOK, NEW s \in Session, NEW w, PersistSession(s, w)
  PROVE  StoreTypeOK' /\ Kept' = Kept /\ UNCHANGED <<active, providers>>
  BY DEF StoreTypeOK, PersistSession, Kept

\* A new page keeps no session that the last one did not.
LEMMA Restored ==
  ASSUME StoreTypeOK, Restore
  PROVE  StoreTypeOK' /\ Kept' \subseteq Kept /\ active' \in Kept' \cup {None} /\ providers' = {}
  BY DEF StoreTypeOK, Restore, Kept

\* What does not touch the store leaves what is kept.
LEMMA Untouched ==
  ASSUME StoreTypeOK, UNCHANGED storeVars
  PROVE  StoreTypeOK' /\ Kept' = Kept /\ UNCHANGED <<active, providers>>
  BY DEF StoreTypeOK, storeVars, Kept

\* The sessions of a wallet are among those that are kept.
LEMMA SessionsOfKept ==
  ASSUME StoreTypeOK, NEW w \in Wallet PROVE SessionsOf(w) \subseteq Kept
  BY DEF StoreTypeOK, SessionsOf, Kept

-----------------------------------------------------------------------------
(* The inductive invariant.                                                *)

\* A run that goes on knows its wallet, and its session once it has one.
RunsAreWhole ==
  \A r \in Run :
    /\ pc[r] \in {"loading", "checking", "asking", "granted", "created", "rejected",
                  "recreating", "closing", "ending", "leaving"} => target[r] \in Wallet
    /\ pc[r] \in {"granted", "created"} => sid[r] \in drawn

\* Before initialize nothing has happened in a page.
NewPage == booted = "no" => /\ \A r \in Run : pc[r] = "idle"
                            /\ \A w \in Wallet : subscribed[w] = 0
                            /\ active \in Kept \cup {None}

\* The session of a connection that was just granted is known to nobody.
GrantIsNew ==
  \A r \in Run : pc[r] = "granted" =>
    /\ sid[r] \notin Kept \cup wiped \cup unmade
    /\ \A c \in Run : sid[r] \notin owed[c]
    /\ \A q \in Run \ {r} : pc[q] = "granted" => sid[q] # sid[r]

\* What a disconnect still owes, it has in its list.
OwedIsListed ==
  \A c \in Call : /\ pc[c] = "closing" => owed[c] \cap Kept = {}
                  /\ pc[c] = "ending" => owed[c] \cap Kept \subseteq left[c]

IInv == /\ TypeOK /\ RunsAreWhole /\ NewPage
        /\ GrantIsNew /\ OwedIsListed /\ StoreConsistent

\* The invariant holds of the first page.
LEMMA InitIInv == Init => IInv
<1> SUFFICES ASSUME Init PROVE IInv
  OBVIOUS
<1>1. Kept = {}
  BY DEF Init, StoreInit, Kept
<1> QED
  BY <1>1 DEF Init, StoreInit, Nobody, Nothing, IInv, TypeOK, StoreTypeOK, RunsAreWhole,
              NewPage, GrantIsNew, OwedIsListed, StoreConsistent, Labels, Run

-----------------------------------------------------------------------------
(* The steps of a connect call.                                            *)

\* Every step of a connect call, and of the reconnection at boot, preserves it.
LEMMA ConnectStep ==
  ASSUME IInv, NEW r \in Run,
         \/ Load(r) \/ CheckPasses(r) \/ CheckFails(r) \/ Accept(r)
         \/ ConnectFails(r) \/ Create(r) \/ CreateThrows(r) \/ Persist(r)
  PROVE  IInv'
<1> USE DEF IInv, TypeOK, RunsAreWhole, NewPage, GrantIsNew, OwedIsListed, StoreConsistent,
            strayVars, Labels, Goto
<1>0. StoreTypeOK /\ Run = Call \cup {Boot}
  BY DEF Run
<1>1. CASE Load(r)
  BY <1>0, <1>1, Untouched DEF Load, Ask
<1>2. ASSUME Grant(r), pc[r] \in {"checking", "asking"},
             cachedProvider' \subseteq Wallet, subscribed' \in [Wallet -> Nat]
      PROVE  IInv'
  BY <1>0, <1>2, Untouched DEF Grant
<1>3. ASSUME Fail(r), pc[r] \in {"loading", "checking", "asking", "rejected"},
             UNCHANGED cachedProvider
      PROVE  IInv'
  BY <1>0, <1>3, Untouched DEF Fail, Finish
<1>4. CASE CheckPasses(r)
  BY <1>2, <1>3, <1>4 DEF CheckPasses
<1>5. CASE CheckFails(r)
  BY <1>0, <1>5, Untouched DEF CheckFails
<1>6. CASE Accept(r)
  BY <1>2, <1>6 DEF Accept
<1>7. CASE ConnectFails(r)
  BY <1>3, <1>7 DEF ConnectFails
<1>8. CASE Create(r)
  BY <1>0, <1>8, Created DEF Create, adapterVars
<1>9. CASE Persist(r)
  BY <1>0, <1>9, Persisted DEF Persist, Finish, adapterVars
<1>10. CASE CreateThrows(r)
  <2>1. sid[r] \in Session /\ sid[r] # active
    BY <1>10 DEF CreateThrows
  <2> QED
    BY <1>0, <1>10, <2>1, Rejected DEF CreateThrows, adapterVars
<1> QED
  BY <1>1, <1>4, <1>5, <1>6, <1>7, <1>8, <1>9, <1>10

-----------------------------------------------------------------------------
(* The steps of a disconnect call and of the wallets.                      *)

\* The beginning of a connect call, also the one that Boot makes.
LEMMA EnterStep ==
  ASSUME IInv, NEW r \in Run, NEW w \in Wallet, Enter(r, w),
         booted # "no", pc[r] \in {"idle", "recreating"}, UNCHANGED booted
  PROVE  IInv'
<1>0. StoreTypeOK
  BY DEF IInv, TypeOK
<1> QED
  BY <1>0, Untouched DEF IInv, TypeOK, RunsAreWhole, NewPage, GrantIsNew, OwedIsListed,
     StoreConsistent, strayVars, Labels, Goto, Enter, Ask, Run

\* So does every step of a disconnect call, and the call itself.
LEMMA DisconnectStep ==
  ASSUME IInv, NEW c \in Call,
         \/ AdapterClosed(c) \/ EndNext(c) \/ Disconnected(c) \/ WalletLeft(c)
         \/ \E w \in Wallet : Connect(c, w) \/ Disconnect(c, w) \/ WalletLeaves(c, w)
  PROVE  IInv'
<1> USE DEF IInv, TypeOK, RunsAreWhole, NewPage, GrantIsNew, OwedIsListed, StoreConsistent,
            strayVars, Labels, Goto
<1>0. StoreTypeOK /\ c \in Run /\ Call \subseteq Run
  BY DEF Run
<1>1. CASE AdapterClosed(c)
  BY <1>0, <1>1, Untouched, SessionsOfKept DEF AdapterClosed
<1>2. CASE EndNext(c)
  BY <1>0, <1>2, Ended DEF EndNext, adapterVars
<1>3. CASE Disconnected(c)
  BY <1>0, <1>3, Untouched DEF Disconnected, Finish
<1>4. CASE WalletLeft(c)
  BY <1>0, <1>4, Untouched DEF WalletLeft, Finish
<1>5. ASSUME NEW w \in Wallet, Connect(c, w) PROVE IInv'
  BY <1>0, <1>5, EnterStep DEF Connect
<1>6. ASSUME NEW w \in Wallet, Disconnect(c, w) PROVE IInv'
  <2>1. SessionsOf(w) \subseteq Kept
    BY <1>0, SessionsOfKept
  <2>2. CASE w \in cached
    BY <1>0, <1>6, <2>1, <2>2, Wiped DEF Disconnect, AdapterDisconnects
  <2>3. CASE w \notin cached
    BY <1>0, <1>6, <2>1, <2>3, Untouched DEF Disconnect
  <2> QED
    BY <2>2, <2>3
<1>7. ASSUME NEW w \in Wallet, WalletLeaves(c, w) PROVE IInv'
  BY <1>0, <1>7, Untouched, SessionsOfKept DEF WalletLeaves, adapterVars
<1> QED
  BY <1>1, <1>2, <1>3, <1>4, <1>5, <1>6, <1>7

\* So does every event of a wallet.
LEMMA WalletStep ==
  ASSUME IInv, NEW w \in Wallet, AccountsChanged(w) \/ WalletLocks(w) \/ LockCleaned(w)
  PROVE  IInv'
<1> USE DEF IInv, TypeOK, RunsAreWhole, NewPage, GrantIsNew, OwedIsListed, StoreConsistent,
            strayVars, Labels, adapterVars, runVars
<1>0. StoreTypeOK /\ SessionsOf(w) \subseteq Kept
  BY SessionsOfKept
<1>1. CASE AccountsChanged(w)
  BY <1>0, <1>1, Ended DEF AccountsChanged
<1>2. CASE WalletLocks(w)
  BY <1>0, <1>2, Wiped DEF WalletLocks, AdapterDisconnects
<1>3. CASE LockCleaned(w)
  BY <1>0, <1>3, Untouched DEF LockCleaned
<1> QED
  BY <1>1, <1>2, <1>3

-----------------------------------------------------------------------------
(* The steps of a page.                                                    *)

\* So do a reload, the boot of a page and a switch of the active session.
LEMMA PageStep ==
  ASSUME IInv, \/ Reload \/ Initialize \/ Reconnect \/ Reconnected
               \/ \E s \in Session : /\ SwitchToSession(s)
                                     /\ UNCHANGED <<booted, adapterVars, runVars, strayVars>>
               \/ UNCHANGED vars
  PROVE  IInv'
<1> USE DEF IInv, TypeOK, RunsAreWhole, NewPage, GrantIsNew, OwedIsListed, StoreConsistent,
            strayVars, Labels, Goto, Nobody, Nothing
<1>0. StoreTypeOK /\ Boot \in Run /\ Call \subseteq Run \ {Boot}
  BY DEF Run
<1>1. CASE Reload
  BY <1>0, <1>1, Restored DEF Reload
<1>2. CASE Initialize
  <2>1. active \in Kept => sessions[active] \in Wallet /\ active \in drawn
    BY <1>0 DEF Kept, StoreTypeOK
  <2> QED
    BY <1>0, <1>2, <2>1, Untouched DEF Initialize, adapterVars
<1>3. CASE Reconnect
  BY <1>0, <1>3, EnterStep DEF Reconnect
<1>4. CASE Reconnected
  <2>1. PICK S : /\ EndSessions(S)
                 /\ S = Orphans \cup IF pc[Boot] = "failed" THEN left[Boot] ELSE {}
    BY <1>4 DEF Reconnected
  <2>2. Kept' \subseteq providers'
    BY <1>0, <2>1, Ended DEF Orphans
  <2> QED
    BY <1>0, <1>4, <2>1, <2>2, Ended DEF Reconnected, adapterVars
<1>5. ASSUME NEW s \in Session, SwitchToSession(s),
             UNCHANGED <<booted, adapterVars, runVars, strayVars>>
      PROVE  IInv'
  BY <1>0, <1>5, Switched DEF adapterVars, runVars
<1>6. CASE UNCHANGED vars
  BY <1>0, <1>6, Untouched DEF vars, adapterVars, runVars, strayVars
<1> QED
  BY <1>1, <1>2, <1>3, <1>4, <1>5, <1>6

\* Every step of the client, its adapters, the wallets and the page preserves
\* the invariant.
LEMMA NextIInv == IInv /\ [Next]_vars => IInv'
  BY ConnectStep, DisconnectStep, WalletStep, PageStep DEF Next

\* The invariant holds in every page.
LEMMA IInvAlways == Spec => []IInv
  BY InitIInv, NextIInv, PTL DEF Spec

-----------------------------------------------------------------------------
(* The results.                                                            *)

\* The state is well formed, in every page.
THEOREM TypeCorrect == Spec => []TypeOK
<1>1. IInv => TypeOK
  BY DEF IInv
<1> QED
  BY <1>1, IInvAlways, PTL

\* Store, registry and active session agree, but for the sessions that an
\* adapter deleted behind the client and the providers of rejected ones.
THEOREM StoreCorrect == Spec => []StoreConsistent
<1>1. IInv => StoreConsistent
  BY DEF IInv
<1> QED
  BY <1>1, IInvAlways, PTL

\* Only a connection that was just granted adds a session to the store.
LEMMA OnlyGrantsAdd ==
  ASSUME IInv, [Next]_vars, NEW s \in Kept' \ Kept
  PROVE  \E r \in Run : pc[r] = "granted" /\ sid[r] = s
<1>0. StoreTypeOK
  BY DEF IInv, TypeOK
<1>1. ASSUME UNCHANGED storeVars PROVE FALSE
  BY <1>0, <1>1, Untouched
<1>2. ASSUME NEW S, EndSessions(S) PROVE FALSE
  BY <1>0, <1>2, Ended
<1>3. ASSUME NEW w \in Wallet, WipeSessions(w) PROVE FALSE
  BY <1>0, <1>3, Wiped
<1>4. CASE UNCHANGED vars
  BY <1>1, <1>4 DEF vars
<1>5. ASSUME NEW r \in Run,
             \/ Load(r) \/ CheckPasses(r) \/ CheckFails(r) \/ Accept(r)
             \/ ConnectFails(r) \/ Create(r) \/ CreateThrows(r) \/ Persist(r)
      PROVE  \E q \in Run : pc[q] = "granted" /\ sid[q] = s
  <2>1. CASE Create(r)
    <3>1. pc[r] = "granted" /\ sid[r] \in Session /\ target[r] \in Wallet
      BY <2>1 DEF Create, IInv, RunsAreWhole, TypeOK
    <3> QED
      BY <1>0, <2>1, <3>1, Created DEF Create
  <2>2. CASE Persist(r)
    <3>1. sid[r] \in Session
      BY <2>2 DEF Persist, IInv, RunsAreWhole, TypeOK
    <3> QED
      BY <1>0, <2>2, <3>1, Persisted DEF Persist
  <2>3. CASE CreateThrows(r)
    BY <1>0, <2>3, Rejected DEF CreateThrows, IInv, RunsAreWhole, TypeOK
  <2> QED
    BY <1>1, <1>5, <2>1, <2>2, <2>3 DEF Load, CheckPasses, CheckFails, Accept, ConnectFails,
       Grant, Fail
<1>6. ASSUME NEW c \in Call,
             \/ AdapterClosed(c) \/ EndNext(c) \/ Disconnected(c) \/ WalletLeft(c)
             \/ \E w \in Wallet : Connect(c, w) \/ Disconnect(c, w) \/ WalletLeaves(c, w)
      PROVE  FALSE
  BY <1>1, <1>2, <1>3, <1>6 DEF AdapterClosed, EndNext, Disconnected, WalletLeft, Connect,
     Enter, Disconnect, AdapterDisconnects, WalletLeaves
<1>7. ASSUME NEW w \in Wallet, AccountsChanged(w) \/ WalletLocks(w) \/ LockCleaned(w)
      PROVE  FALSE
  BY <1>1, <1>2, <1>3, <1>7 DEF AccountsChanged, WalletLocks, AdapterDisconnects, LockCleaned
<1>8. CASE Reload
  BY <1>0, <1>8, Restored DEF Reload
<1>9. CASE Initialize \/ Reconnect \/ Reconnected
  BY <1>1, <1>2, <1>9 DEF Initialize, Reconnect, Enter, Reconnected
<1>10. ASSUME NEW q \in Session, SwitchToSession(q) PROVE FALSE
  BY <1>0, <1>10, Switched
<1> QED
  BY <1>4, <1>5, <1>6, <1>7, <1>8, <1>9, <1>10 DEF Next

\* A session that ended never comes back: no connect that goes on, no event of
\* a wallet and no new page revives it.
THEOREM EndedCorrect == Spec => EndedStaysEnded
<1>1. IInv /\ [Next]_vars =>
        \A s \in drawn \ Kept :
          (\A r \in Run : pc[r] = "granted" => sid[r] # s) => s \notin Kept'
  BY OnlyGrantsAdd
<1> QED
  BY <1>1, IInvAlways, PTL DEF Spec, EndedStaysEnded

\* A disconnect that completes has ended every session that its wallet had.
THEOREM DisconnectCorrect == Spec => DisconnectEndsAll
<1>1. ASSUME IInv, [Next]_vars, NEW c \in Call, pc[c] = "ending", pc'[c] = "done"
      PROVE  owed[c] \cap Kept' = {}
  <2>1. Disconnected(c)
    <3>1. c \in Run /\ c # Boot /\ Call \subseteq Run
      BY DEF Run
    <3> QED
      BY <1>1, <3>1 DEF IInv, TypeOK, Next, vars, adapterVars, runVars, Goto, Finish, Ask, Nobody,
         Load, CheckPasses, CheckFails, Accept, ConnectFails, Create, CreateThrows, Persist, Grant, Fail,
         AdapterClosed, EndNext, Disconnected, WalletLeft, Connect, Enter, Disconnect,
         WalletLeaves, AccountsChanged, WalletLocks, LockCleaned, Reload, Initialize,
         Reconnect, Reconnected
  <2>2. Kept' = Kept /\ left[c] = {}
    BY <1>1, <2>1, Untouched DEF Disconnected, IInv, TypeOK
  <2>3. owed[c] \cap Kept \subseteq left[c]
    BY <1>1 DEF IInv, OwedIsListed
  <2> QED
    BY <2>2, <2>3
<1>2. IInv /\ [Next]_vars =>
        \A c \in Call : pc[c] = "ending" /\ pc'[c] = "done" => owed[c] \cap Kept' = {}
  BY <1>1
<1> QED
  BY <1>2, IInvAlways, PTL DEF Spec, DisconnectEndsAll
=============================================================================
