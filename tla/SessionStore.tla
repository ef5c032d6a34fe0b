---------------------------- MODULE SessionStore ----------------------------
(***************************************************************************)
(* The sessions of a dApp as modal-core keeps them: the Zustand store with *)
(* its copy in localStorage, and the ProviderRegistry beside it, because   *)
(* providers cannot be stored.  All operations are synchronous.            *)
(***************************************************************************)
EXTENDS Naturals, FiniteSets

CONSTANTS Wallet, Session, None

ASSUME StoreAssumption == None \notin Wallet \cup Session

VARIABLES
  sessions,   \* entities.sessions: the wallet of each session, None if it is not there
  active,     \* active.sessionId
  saved,      \* sessions with adapterReconstruction, which localStorage has as well
  providers   \* keys of the ProviderRegistry

storeVars == <<sessions, active, saved, providers>>

StoreInit == /\ sessions = [s \in Session |-> None]
             /\ active = None
             /\ saved = {} /\ providers = {}

Kept == {s \in Session : sessions[s] # None}
SessionsOf(w) == {s \in Session : sessions[s] = w}

StoreTypeOK == /\ sessions \in [Session -> Wallet \cup {None}]
               /\ active \in Session \cup {None}
               /\ saved \subseteq Kept
               /\ providers \subseteq Session

\* setProviderForSession: a session is created with its provider in the
\* registry already.
RegisterProvider(s) == providers' = providers \cup {s}

\* createSession, of parameters that pass its validation, or do not.
CreateSession(s, w) == /\ sessions' = [sessions EXCEPT ![s] = w]
                       /\ active' = s
                       /\ UNCHANGED saved

RejectSession == UNCHANGED <<sessions, active, saved>>

\* endSession, for every member of S: the first session that remains takes
\* over, and which one that is, is left open.
EndSessions(S) ==
  /\ sessions' = [s \in Session |-> IF s \in S THEN None ELSE sessions[s]]
  /\ saved' = saved \ S
  /\ providers' = providers \ S
  /\ active' \in CASE active \notin S     -> {active}
                   [] Kept \subseteq S    -> {None}
                   [] OTHER               -> Kept \ S

\* Fault: the copy in localStorage keeps them.
WipeSessionsNotCopies(w) == /\ sessions' = [s \in Session |-> IF sessions[s] = w THEN None ELSE sessions[s]]
                            /\ UNCHANGED <<saved, active, providers>>

\* An adapter that cleans up deletes the sessions of its wallet by itself.
WipeSessions(w) == /\ sessions' = [s \in Session |-> IF sessions[s] = w THEN None ELSE sessions[s]]
                   /\ saved' = saved \ SessionsOf(w)
                   /\ UNCHANGED <<active, providers>>

SwitchToSession(s) == /\ s \in Kept
                      /\ active' = s
                      /\ UNCHANGED <<sessions, saved, providers>>

\* Fault: the session is written without looking whether it still exists.
PersistAnyway(s, w) == /\ sessions' = [sessions EXCEPT ![s] = w]
                       /\ saved' = saved \cup {s}
                       /\ UNCHANGED <<active, providers>>

\* persistSession, of wallet w.
PersistSession(s, w) == /\ saved' = IF s \in Kept THEN saved \cup {s} ELSE saved
                        /\ UNCHANGED <<sessions, active, providers>>

\* A new page merges what localStorage has, without the sessions that are too
\* old; the registry begins empty.
Restore == \E young \in SUBSET saved :
             /\ sessions' = [s \in Session |-> IF s \in young THEN sessions[s] ELSE None]
             /\ saved' = young
             /\ active' = IF active \in young THEN active ELSE None
             /\ providers' = {}
=============================================================================
