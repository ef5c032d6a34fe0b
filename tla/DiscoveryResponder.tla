------------------------- MODULE DiscoveryResponder -------------------------
(***************************************************************************)
(* DiscoveryResponder: the wallets that answer discovery requests.  A      *)
(* wallet answers a session at most once and is silent about what it       *)
(* refuses.                                                                *)
(*                                                                         *)
(* What a wallet says of itself (name, icon, capabilities, transport) is   *)
(* its look.  There is one dApp, hence one origin; the answers of a wallet *)
(* whose look is Fulfilling also pass the dApp's checks of their form.     *)
(***************************************************************************)
EXTENDS Naturals

CONSTANTS Responder,    \* the wallets
          Unsteady,     \* bound: those that stop, forget or change their look
          MaxSession,   \* bound on the discovery sessions ever started
          Look,         \* what a wallet may say of itself
          Fulfilling,   \* looks that meet the requirements of the dApp
          FirstLook     \* FirstLook[r]: what r says of itself at first

ASSUME ResponderAssumption == /\ MaxSession \in Nat
                              /\ FirstLook \in [Responder -> Look]
                              /\ Fulfilling \subseteq Look
                              /\ Unsteady \subseteq Responder

VARIABLES listening,      \* wallets whose request handler is registered
          usedSessions,   \* usedSessions[r]: sessions r has admitted
          look,           \* look[r]: the ResponderInfo of r
          sent,           \* sent[r]: sessions answered since usedSessions was empty
          twice,          \* wallets that answered a session again nevertheless
          answered        \* every answer ever sent

responderVars == <<listening, usedSessions, look, sent, twice, answered>>

Session == 1..MaxSession

Response == [session : Session, from : Responder, look : Look]

Answer(r, s) == [session |-> s, from |-> r, look |-> look[r]]

\* Every wallet has called startListening.
ResponderInit == /\ listening = Responder
                 /\ usedSessions = [r \in Responder |-> {}]
                 /\ look = FirstLook
                 /\ sent = [r \in Responder |-> {}]
                 /\ twice = {}
                 /\ answered = {}

\* Fault: a session that was used before is admitted.
AdmitsReplay(r, s) == TRUE

Admits(r, s) == s \notin usedSessions[r]

Record(r, s) == usedSessions' = [usedSessions EXCEPT ![r] = @ \cup {s}]

\* The session was used, the origin is not allowed or over its rate limit.
\* What the policy and the limiter decide is left open.
Refuse(r, s) == UNCHANGED responderVars

\* The session counts as used before the capabilities are matched.
AdmitMismatch(r, s) ==
  /\ Admits(r, s) /\ look[r] \notin Fulfilling
  /\ Record(r, s)
  /\ UNCHANGED <<listening, look, sent, twice, answered>>

SendResponse(r, s) ==
  /\ Admits(r, s) /\ look[r] \in Fulfilling
  /\ Record(r, s)
  /\ sent' = [sent EXCEPT ![r] = @ \cup {s}]
  /\ twice' = IF s \in sent[r] THEN twice \cup {r} ELSE twice
  /\ answered' = answered \cup {Answer(r, s)}
  /\ UNCHANGED <<listening, look>>

StartListening(r) ==
  /\ r \notin listening
  /\ listening' = listening \cup {r}
  /\ UNCHANGED <<usedSessions, look, sent, twice, answered>>

StopListening(r) ==
  /\ r \in listening
  /\ listening' = listening \ {r}
  /\ UNCHANGED <<usedSessions, look, sent, twice, answered>>

\* cleanup() forgets the sessions, not the rate limit.
CleanupResponder(r) ==
  /\ listening' = listening \ {r}
  /\ usedSessions' = [usedSessions EXCEPT ![r] = {}]
  /\ sent' = [sent EXCEPT ![r] = {}]
  /\ UNCHANGED <<look, twice, answered>>

UpdateResponderInfo(r) ==
  /\ \E l \in Look : look' = [look EXCEPT ![r] = l]
  /\ UNCHANGED <<listening, usedSessions, sent, twice, answered>>

WalletActs(r) == \/ StartListening(r) \/ StopListening(r)
                 \/ CleanupResponder(r) \/ UpdateResponderInfo(r)

ResponderTypeOK == /\ listening \subseteq Responder
                   /\ usedSessions \in [Responder -> SUBSET Session]
                   /\ look \in [Responder -> Look]
                   /\ sent \in [Responder -> SUBSET Session]
                   /\ twice \subseteq Responder
                   /\ answered \subseteq Response
=============================================================================
