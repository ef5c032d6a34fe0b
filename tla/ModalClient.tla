----------------------------- MODULE ModalClient -----------------------------
(***************************************************************************)
(* WalletMeshClientImpl with its EVM adapters: connect, disconnect, the    *)
(* reconnection of a new page to the sessions it finds, and the events of  *)
(* the wallets.                                                            *)
(*                                                                         *)
(* A run is one call of an asynchronous method: a call of the application, *)
(* a handler of "wallet:disconnected", or Boot, the connect call that      *)
(* initialize makes.  pc[r] names the await it is suspended in.  Adapters  *)
(* live in a registry for as long as the page, one per wallet; cached says *)
(* which of them this.adapters holds.                                      *)
(***************************************************************************)
EXTENDS SessionStore

CONSTANTS Call,   \* runs other than Boot, each used once in a page
          Boot

ASSUME ClientAssumption == Boot \notin Call

Run == Call \cup {Boot}

VARIABLES
  booted,          \* "no", "reconnecting" (handleRehydratedSessions) or "done"
  cached,          \* keys of this.adapters
  heard,           \* wallets whose adapter has the client's listeners
  errored,         \* keys of this.adapterHealth
  cachedProvider,  \* wallets whose adapter has a cachedProvider
  subscribed,      \* subscribed[w]: listeners of its adapter at the wallet, per event
  locked,          \* wallets whose adapter disconnects because no account is left
  pc, target,      \* target[r]: the wallet r is about
  sid,             \* sid[r]: the session of its connection
  left,            \* left[r]: sessions it has still to end
  drawn,           \* session ids that were ever generated
  owed,            \* owed[r]: sessions disconnect call r was made to end
  wiped,           \* sessions that WipeSessions deleted in this page
  unmade           \* sessions that createSession rejected in this page

adapterVars == <<cached, heard, errored, cachedProvider, subscribed, locked>>
runVars     == <<pc, target, sid, left, drawn, owed>>
strayVars   == <<wiped, unmade>>
vars        == <<storeVars, booted, adapterVars, runVars, strayVars>>

Nobody == [r \in Run |-> None]
Nothing == [r \in Run |-> {}]

Init == /\ StoreInit /\ booted = "no"
        /\ cached = {} /\ heard = {} /\ errored = {}
        /\ cachedProvider = {} /\ locked = {}
        /\ subscribed = [w \in Wallet |-> 0]
        /\ pc = [r \in Run |-> "idle"]
        /\ target = Nobody /\ sid = Nobody
        /\ left = Nothing /\ owed = Nothing
        /\ drawn = {} /\ wiped = {} /\ unmade = {}

Goto(r, label) == pc' = [pc EXCEPT ![r] = label]

\* r is over: it returned or threw.
Finish(r) == /\ Goto(r, "done")
             /\ target' = [target EXCEPT ![r] = None]
             /\ sid' = [sid EXCEPT ![r] = None]
             /\ owed' = [owed EXCEPT ![r] = {}]
             /\ UNCHANGED <<left, drawn>>

-----------------------------------------------------------------------------
(* connect(walletId)                                                       *)

\* adapter.connect: the accounts behind a cached provider are asked for
\* first, and only a wallet that has none is asked to connect.
Ask(r, w) == Goto(r, IF w \in cachedProvider THEN "checking" ELSE "asking")

\* From the beginning to the first await.  An adapter with a record of errors
\* is invalidated if the errors are recent or many.
Enter(r, w) ==
  /\ target' = [target EXCEPT ![r] = w]
  /\ \/ /\ w \in cached
        /\ Ask(r, w)
        /\ UNCHANGED <<cached, heard>>
     \/ /\ w \in cached => w \in errored
        /\ cached' = cached \ {w}
        /\ heard' = IF w \in cached THEN heard \ {w} ELSE heard
        /\ Goto(r, "loading")
  /\ UNCHANGED <<storeVars, errored, cachedProvider, subscribed, locked,
                 sid, left, drawn, owed, strayVars>>

Connect(c, w) == booted # "no" /\ pc[c] = "idle" /\ Enter(c, w) /\ UNCHANGED booted

\* The adapter is ready: cache it and give it the client's listeners.
Load(r) == /\ pc[r] = "loading"
           /\ cached' = cached \cup {target[r]}
           /\ heard' = heard \cup {target[r]}
           /\ Ask(r, target[r])
           /\ UNCHANGED <<storeVars, booted, errored, cachedProvider, subscribed, locked,
                          target, sid, left, drawn, owed, strayVars>>

\* The catch of connect: invalidateAdapter.
Fail(r) == LET w == target[r]
           IN  /\ cached' = cached \ {w}
               /\ heard' = IF w \in cached THEN heard \ {w} ELSE heard
               /\ errored' = errored \cup {w}
               /\ IF r = Boot THEN Goto(r, "failed") /\ UNCHANGED <<target, sid, left, drawn, owed>>
                              ELSE Finish(r)
               /\ UNCHANGED <<storeVars, booted, subscribed, locked, strayVars>>

\* The adapter has a connection, under a new session id.
Grant(r) == \E s \in Session \ drawn :
              /\ drawn' = drawn \cup {s}
              /\ sid' = [sid EXCEPT ![r] = s]
              /\ Goto(r, "granted")
              /\ UNCHANGED <<storeVars, booted, cached, heard, errored, locked,
                             target, left, owed, strayVars>>

\* eth_accounts and eth_chainId of a cached provider: there may be no account,
\* the request may fail, and the provider may be gone by now, which is only
\* noticed when the connection is used.
CheckPasses(r) == /\ pc[r] = "checking"
                  /\ IF target[r] \in cachedProvider THEN Grant(r) ELSE Fail(r)
                  /\ UNCHANGED <<cachedProvider, subscribed>>

CheckFails(r) == /\ pc[r] = "checking"
                 /\ Goto(r, "asking")
                 /\ cachedProvider' \in {cachedProvider, cachedProvider \ {target[r]}}
                 /\ UNCHANGED <<storeVars, booted, cached, heard, errored, subscribed, locked,
                                target, sid, left, drawn, owed, strayVars>>

\* eth_requestAccounts and eth_chainId: a new provider, whose listeners are
\* added to those of the providers before it.
Accept(r) == /\ pc[r] = "asking"
             /\ Grant(r)
             /\ cachedProvider' = cachedProvider \cup {target[r]}
             /\ subscribed' = [subscribed EXCEPT ![target[r]] = @ + 1]

\* There is no adapter, the wallet refuses, or createSession has rejected.
ConnectFails(r) == /\ pc[r] \in {"loading", "asking", "rejected"}
                   /\ Fail(r)
                   /\ UNCHANGED cachedProvider

Create(r) == /\ pc[r] = "granted"
             /\ RegisterProvider(sid[r])
             /\ CreateSession(sid[r], target[r])
             /\ Goto(r, "created")
             /\ UNCHANGED <<booted, adapterVars, target, sid, left, drawn, owed, strayVars>>

\* createSession refuses what the wallet said, such as an empty account, and
\* nobody takes the provider out of the registry again.
CreateThrows(r) == /\ pc[r] = "granted"
                   /\ RegisterProvider(sid[r])
                   /\ RejectSession
                   /\ unmade' = unmade \cup {sid[r]}
                   /\ Goto(r, "rejected")
                   /\ UNCHANGED <<booted, adapterVars, target, sid, left, drawn, owed, wiped>>

Persist(r) == /\ pc[r] = "created"
              /\ PersistSession(sid[r], target[r])
              /\ IF r = Boot THEN Goto(r, "connected") /\ UNCHANGED <<target, sid, left, drawn, owed>>
                             ELSE Finish(r)
              /\ UNCHANGED <<booted, adapterVars, strayVars>>

-----------------------------------------------------------------------------
(* disconnect(walletId) and the wallet's own end of a connection           *)

\* EvmAdapter.disconnect up to the await of the provider's disconnect.
AdapterDisconnects(w) == /\ cachedProvider' = cachedProvider \ {w}
                         /\ WipeSessions(w)
                         /\ wiped' = wiped \cup SessionsOf(w)
                         /\ UNCHANGED unmade

Disconnect(c, w) ==
  /\ booted # "no" /\ pc[c] = "idle"
  /\ target' = [target EXCEPT ![c] = w]
  /\ owed' = [owed EXCEPT ![c] = SessionsOf(w)]
  /\ IF w \in cached
     THEN /\ AdapterDisconnects(w)
          /\ Goto(c, "closing")
          /\ UNCHANGED left
     ELSE /\ Goto(c, "ending")
          /\ left' = [left EXCEPT ![c] = SessionsOf(w)]
          /\ UNCHANGED <<storeVars, cachedProvider, strayVars>>
  /\ UNCHANGED <<booted, cached, heard, errored, subscribed, locked, sid, drawn>>

\* The adapter has removed all listeners; the client drops it and looks for
\* the sessions of the wallet.
AdapterClosed(c) ==
  LET w == target[c]
  IN  /\ pc[c] = "closing"
      /\ heard' = heard \ {w}
      /\ cached' = cached \ {w}
      /\ left' = [left EXCEPT ![c] = SessionsOf(w)]
      /\ owed' = [owed EXCEPT ![c] = @ \cup SessionsOf(w)]
      /\ Goto(c, "ending")
      /\ UNCHANGED <<storeVars, booted, errored, cachedProvider, subscribed, locked,
                     target, sid, drawn, strayVars>>

EndNext(c) == /\ pc[c] \in {"ending", "leaving"}
              /\ \E s \in left[c] : /\ EndSessions({s})
                                    /\ left' = [left EXCEPT ![c] = @ \ {s}]
              /\ UNCHANGED <<booted, adapterVars, pc, target, sid, drawn, owed, strayVars>>

\* Fault: only the first of the sessions is ended.
DisconnectedEarly(c) == /\ pc[c] = "ending" /\ Cardinality(left[c]) < 2
                        /\ errored' = errored \ {target[c]}
                        /\ Finish(c)
                        /\ UNCHANGED <<storeVars, booted, cached, heard, cachedProvider,
                                       subscribed, locked, strayVars>>

Disconnected(c) == /\ pc[c] = "ending" /\ left[c] = {}
                   /\ errored' = errored \ {target[c]}
                   /\ Finish(c)
                   /\ UNCHANGED <<storeVars, booted, cached, heard, cachedProvider,
                                  subscribed, locked, strayVars>>

\* handleWalletDisconnected, in a run of its own.
WalletLeaves(c, w) == /\ pc[c] = "idle" /\ subscribed[w] > 0 /\ w \in heard
                      /\ target' = [target EXCEPT ![c] = w]
                      /\ left' = [left EXCEPT ![c] = SessionsOf(w)]
                      /\ Goto(c, "leaving")
                      /\ UNCHANGED <<storeVars, booted, adapterVars, sid, drawn, owed, strayVars>>

WalletLeft(c) == /\ pc[c] = "leaving" /\ left[c] = {}
                 /\ cached' = cached \ {target[c]}
                 /\ Finish(c)
                 /\ UNCHANGED <<storeVars, booted, heard, errored, cachedProvider,
                                subscribed, locked, strayVars>>

\* accountsChanged with accounts: every listener ends a session of the wallet,
\* if one is left; the new session fails for want of a provider.
AccountsChanged(w) ==
  /\ subscribed[w] > 0 /\ w \in heard
  /\ \E S \in SUBSET SessionsOf(w) :
       /\ Cardinality(S) = IF subscribed[w] < Cardinality(SessionsOf(w))
                           THEN subscribed[w] ELSE Cardinality(SessionsOf(w))
       /\ EndSessions(S)
  /\ UNCHANGED <<booted, adapterVars, runVars, strayVars>>

\* accountsChanged without accounts: the adapter disconnects behind the client.
WalletLocks(w) == /\ subscribed[w] > 0
                  /\ AdapterDisconnects(w)
                  /\ locked' = locked \cup {w}
                  /\ UNCHANGED <<booted, cached, heard, errored, subscribed, runVars>>

LockCleaned(w) == /\ w \in locked
                  /\ locked' = locked \ {w}
                  /\ heard' = heard \ {w}
                  /\ UNCHANGED <<storeVars, booted, cached, errored, cachedProvider, subscribed,
                                 runVars, strayVars>>

-----------------------------------------------------------------------------
(* A new page: handleRehydratedSessions                                    *)

Reload == /\ Restore /\ booted' = "no"
          /\ cached' = {} /\ heard' = {} /\ errored' = {}
          /\ cachedProvider' = {} /\ locked' = {}
          /\ subscribed' = [w \in Wallet |-> 0]
          /\ pc' = [r \in Run |-> "idle"]
          /\ target' = Nobody /\ sid' = Nobody
          /\ left' = Nothing /\ owed' = Nothing
          /\ wiped' = {} /\ unmade' = {}
          /\ UNCHANGED drawn

\* Until the adapters of the sessions are recreated.  What is to be
\* reconnected is decided here: left[Boot] is the active session.
Initialize == /\ booted = "no"
              /\ booted' = IF Kept = {} THEN "done" ELSE "reconnecting"
              /\ IF Kept = {} THEN UNCHANGED <<pc, target, left>>
                 ELSE IF active = None THEN Goto(Boot, "connected") /\ UNCHANGED <<target, left>>
                 ELSE /\ Goto(Boot, "recreating")
                      /\ target' = [target EXCEPT ![Boot] = sessions[active]]
                      /\ left' = [left EXCEPT ![Boot] = {active}]
              /\ UNCHANGED <<storeVars, adapterVars, sid, drawn, owed, strayVars>>

Reconnect == pc[Boot] = "recreating" /\ Enter(Boot, target[Boot]) /\ UNCHANGED booted

\* Fault: sessions that found no provider are kept.
OrphansKept == {}

\* cleanupOrphanedSessions
Orphans == Kept \ providers

\* The session that could not be reconnected is ended, and then the orphans.
Reconnected == /\ pc[Boot] \in {"connected", "failed"}
               /\ EndSessions(Orphans \cup IF pc[Boot] = "failed" THEN left[Boot] ELSE {})
               /\ booted' = "done"
               /\ Goto(Boot, "done")
               /\ left' = [left EXCEPT ![Boot] = {}]
               /\ target' = [target EXCEPT ![Boot] = None]
               /\ sid' = [sid EXCEPT ![Boot] = None]
               /\ UNCHANGED <<adapterVars, drawn, owed, strayVars>>

-----------------------------------------------------------------------------
Next == \/ \E r \in Run : \/ Load(r) \/ CheckPasses(r) \/ CheckFails(r)
                          \/ Accept(r) \/ ConnectFails(r) \/ Persist(r)
                          \/ Create(r) \/ CreateThrows(r)
        \/ \E c \in Call : \/ AdapterClosed(c) \/ EndNext(c) \/ Disconnected(c) \/ WalletLeft(c)
                           \/ \E w \in Wallet : \/ Connect(c, w) \/ Disconnect(c, w)
                                                \/ WalletLeaves(c, w)
        \/ \E w \in Wallet : AccountsChanged(w) \/ WalletLocks(w) \/ LockCleaned(w)
        \/ \E s \in Session : /\ SwitchToSession(s)
                              /\ UNCHANGED <<booted, adapterVars, runVars, strayVars>>
        \/ Reload \/ Initialize \/ Reconnect \/ Reconnected

Spec == Init /\ [][Next]_vars

-----------------------------------------------------------------------------
Labels == {"idle", "loading", "checking", "asking", "granted", "created", "rejected",
           "connected", "failed", "recreating", "closing", "ending", "leaving", "done"}

\* The state is well formed; a session has an id that was generated, and only
\* a run that ends sessions has any left to end.
TypeOK == /\ StoreTypeOK /\ Kept \subseteq drawn
          /\ booted \in {"no", "reconnecting", "done"}
          /\ cached \subseteq Wallet /\ heard \subseteq Wallet /\ errored \subseteq Wallet
          /\ cachedProvider \subseteq Wallet /\ locked \subseteq Wallet
          /\ subscribed \in [Wallet -> Nat]
          /\ pc \in [Run -> Labels]
          /\ target \in [Run -> Wallet \cup {None}]
          /\ sid \in [Run -> drawn \cup {None}]
          /\ left \in [Run -> SUBSET drawn] /\ owed \in [Run -> SUBSET drawn]
          /\ drawn \subseteq Session /\ wiped \subseteq drawn /\ unmade \subseteq drawn
          /\ \A c \in Call : left[c] # {} => pc[c] \in {"ending", "leaving"}

\* The active session exists, and once the page has reconnected the sessions
\* of the store are those that have a provider.  There are two exceptions: the
\* sessions that an adapter deleted behind the client, and the provider of a
\* connection whose session could not be created, which never is in the store.
StoreConsistent == /\ active \in Kept \cup wiped \cup {None}
                   /\ providers \subseteq Kept \cup wiped \cup unmade
                   /\ unmade \cap (Kept \cup {active}) = {}
                   /\ booted = "done" => Kept \subseteq providers

\* A session that ended never comes back: no connect that goes on, no event of
\* a wallet and no new page revives it.
EndedStaysEnded == [][\A s \in drawn \ Kept :
                        (\A r \in Run : pc[r] = "granted" => sid[r] # s) => s \notin Kept']_vars

\* A disconnect that completes has ended every session its wallet had when it
\* was called, and when the adapter had closed, whatever ran in between.
DisconnectEndsAll == [][\A c \in Call : pc[c] = "ending" /\ pc'[c] = "done"
                                         => owed[c] \cap Kept' = {}]_vars
=============================================================================
