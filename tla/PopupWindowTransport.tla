------------------------ MODULE PopupWindowTransport ------------------------
(***************************************************************************)
(* The transport of a dApp to a wallet in a popup window: connect, with    *)
(* the retries of AbstractTransport, disconnect, send and destroy, the     *)
(* handshake timeout, the interval that looks whether the popup was closed *)
(* and the handlers of message events.                                     *)
(*                                                                         *)
(* this.popup, this.messageHandler and this.checkClosedInterval are set    *)
(* together by an attempt that gets a window, and each attempt overwrites  *)
(* them; they are the number of that window in held.  What was overwritten *)
(* stays registered with the page: hooks holds the attempts whose handler  *)
(* and interval do.  All handlers compare the source of an event with      *)
(* this.popup.  An attempt that waits has its timer and its first-message  *)
(* handler, which are set, cleared and fired together.                     *)
(***************************************************************************)
EXTENDS WindowChannel, FiniteSets

CONSTANTS Call,           \* calls of connect()
          ConnectRetries, \* MAX_RETRIES of connectWithRetry
          SendRetries     \* MAX_RETRIES of send

ASSUME TransportAssumption == ConnectRetries \in Nat /\ SendRetries \in Nat

VARIABLES
  connected,   \* this.connected
  popup,       \* this.popup, 0 if null
  hooks,       \* attempts whose message handler and close interval are registered
  pc,          \* pc[c]: the await connect call c is suspended in, or its outcome
  attempt,     \* attempt[c]: its loop counter
  sending,     \* sending[s]: the await of the send of s, or its outcome
  tries,       \* tries[s]: its loop counter
  subscribed,  \* the application's listeners: destroy() removes them
  emitted,     \* emitted[m]: how often the application was given message m
  overlapped   \* some connect call began while another one was pending

connectVars   == <<connected, popup, hooks, pc, attempt>>
sendVars      == <<sending, tries>>
appVars       == <<subscribed, emitted, overlapped>>
transportVars == <<connectVars, sendVars, appVars>>

TransportInit == /\ connected = FALSE /\ popup = 0 /\ hooks = {}
                 /\ pc = [c \in Call |-> "idle"]
                 /\ attempt = [c \in Call |-> 0]
                 /\ sending = [s \in Request |-> "idle"]
                 /\ tries = [s \in Request |-> 0]
                 /\ subscribed = TRUE
                 /\ emitted = [m \in Message |-> 0]
                 /\ overlapped = FALSE

TransportTypeOK ==
  /\ connected \in BOOLEAN /\ subscribed \in BOOLEAN /\ overlapped \in BOOLEAN
  /\ popup \in 0..opened /\ hooks \subseteq 1..opened
  /\ pc \in [Call -> {"idle", "waiting", "sleeping", "resolved", "rejected"}]
  /\ attempt \in [Call -> 0..ConnectRetries]
  /\ sending \in [Request -> {"idle", "sleeping", "resolved", "rejected"}]
  /\ tries \in [Request -> 0..SendRetries]
  /\ emitted \in [Message -> Nat]

Pending(c) == pc[c] \in {"waiting", "sleeping"}

\* Fault: the handler and the interval stay registered.
CleanupKeepsHooks == /\ windows' = windows \ {popup}
                     /\ connected' = FALSE
                     /\ popup' = 0
                     /\ UNCHANGED hooks

\* cleanupResources: it can only undo what the last attempt left in the object.
Cleanup == /\ windows' = windows \ {popup}
           /\ hooks' = hooks \ {popup}
           /\ connected' = FALSE
           /\ popup' = 0

\* Fault: one retry too many.
RejectLate(c) == IF attempt[c] <= ConnectRetries
                 THEN /\ pc' = [pc EXCEPT ![c] = "sleeping"]
                      /\ attempt' = [attempt EXCEPT ![c] = @ + 1]
                 ELSE /\ pc' = [pc EXCEPT ![c] = "rejected"]
                      /\ UNCHANGED attempt

\* Fault: instead of giving up the call begins to count again.
RejectEndless(c) == /\ pc' = [pc EXCEPT ![c] = "sleeping"]
                    /\ attempt' = [attempt EXCEPT ![c] = IF @ < ConnectRetries THEN @ + 1 ELSE 0]

\* An attempt is rejected: sleep DELAY_MS before the next one, or give up.
Reject(c) == IF attempt[c] < ConnectRetries
             THEN /\ pc' = [pc EXCEPT ![c] = "sleeping"]
                  /\ attempt' = [attempt EXCEPT ![c] = @ + 1]
             ELSE /\ pc' = [pc EXCEPT ![c] = "rejected"]
                  /\ UNCHANGED attempt

\* connectInternal finds the transport connected.
AttemptConnected(c) == /\ connected
                       /\ pc' = [pc EXCEPT ![c] = "resolved"]
                       /\ UNCHANGED <<channelVars, connected, popup, hooks, attempt>>

\* connectInternal opens a window, registers its handlers and waits.
AttemptOpens(c) == /\ ~connected
                   /\ opened' = opened + 1
                   /\ windows' = windows \cup {opened'}
                   /\ popup' = opened'
                   /\ hooks' = hooks \cup {opened'}
                   /\ pc' = [pc EXCEPT ![c] = "waiting"]
                   /\ UNCHANGED <<toApp, toWallet, connected, attempt>>

\* window.open returns null: this.popup is null when the failure is cleaned
\* up, so the window of an older attempt stays open.
AttemptBlocked(c) == /\ ~connected
                     /\ popup' = 0
                     /\ hooks' = hooks \ {popup}
                     /\ Reject(c)
                     /\ UNCHANGED <<channelVars, connected>>

Attempt(c) == AttemptConnected(c) \/ AttemptOpens(c) \/ AttemptBlocked(c)

Connect(c) == /\ pc[c] = "idle"
              /\ Attempt(c)
              /\ overlapped' = (overlapped \/ \E d \in Call : Pending(d))
              /\ UNCHANGED <<sendVars, subscribed, emitted>>

RetryConnect(c) == /\ pc[c] = "sleeping"
                   /\ Attempt(c)
                   /\ UNCHANGED <<sendVars, appVars>>

\* The handshake timer of an attempt: it cleans up whatever is current.
Timeout(c) == /\ pc[c] = "waiting"
              /\ Cleanup
              /\ Reject(c)
              /\ UNCHANGED <<opened, toApp, toWallet, sendVars, appVars>>

-----------------------------------------------------------------------------
(* Message events.  Every hook gives a message of the popup to the         *)
(* application; the first-message handler of every attempt that waits      *)
(* takes "ready" for its own.                                              *)

Emit(m) == emitted' = IF subscribed /\ m \in Message
                      THEN [emitted EXCEPT ![m] = @ + Cardinality(hooks)]
                      ELSE emitted

\* Fault: the first handler that is called keeps the event from the others,
\* whose timers stay armed.
HandleConnectedOnce ==
  LET waits == {c \in Call : pc[c] = "waiting"}
  IN  /\ connected' = (connected \/ waits # {})
      /\ pc' = IF waits = {} THEN pc ELSE [pc EXCEPT ![CHOOSE c \in waits : TRUE] = "resolved"]

HandleConnected == /\ pc' = [c \in Call |-> IF pc[c] = "waiting" THEN "resolved" ELSE pc[c]]
                   /\ connected' = (connected \/ \E c \in Call : pc[c] = "waiting")

ReceiveMessage == /\ toApp # <<>>
                  /\ toApp' = Tail(toApp)
                  /\ IF Head(toApp).from # popup
                     THEN UNCHANGED <<pc, connected, emitted>>
                     ELSE /\ Emit(Head(toApp).data)
                          /\ IF Head(toApp).data = "ready"
                             THEN HandleConnected
                             ELSE UNCHANGED <<pc, connected>>
                  /\ UNCHANGED <<opened, windows, toWallet, popup, hooks, attempt,
                                 sendVars, subscribed, overlapped>>

-----------------------------------------------------------------------------
(* The end of a connection.                                                *)

\* The interval of any hook sees that this.popup was closed.
PopupClosed == /\ hooks # {} /\ popup # 0 /\ popup \notin windows
               /\ Cleanup
               /\ UNCHANGED <<opened, toApp, toWallet, pc, attempt, sendVars, appVars>>

Disconnect == /\ Cleanup
              /\ UNCHANGED <<opened, toApp, toWallet, pc, attempt, sendVars, appVars>>

Destroy == /\ Cleanup
           /\ subscribed' = FALSE
           /\ UNCHANGED <<opened, toApp, toWallet, pc, attempt, sendVars, emitted, overlapped>>

-----------------------------------------------------------------------------
(* send: only a transport that is connected is tried at all.               *)

\* Fault: a message that was posted is tried again.
SendAttemptAgain(s) ==
  /\ sending' = [sending EXCEPT ![s] =
                   IF tries[s] < SendRetries THEN "sleeping"
                   ELSE IF connected THEN "resolved" ELSE "rejected"]
  /\ tries' = [tries EXCEPT ![s] = IF @ < SendRetries THEN @ + 1 ELSE @]
  /\ toWallet' = IF connected /\ popup \in windows
                 THEN Append(toWallet, [to |-> popup, data |-> s]) ELSE toWallet

\* sendInternal: post to this.popup, or fail and be tried again.
SendAttempt(s) == IF connected /\ popup \in windows
                  THEN /\ toWallet' = Append(toWallet, [to |-> popup, data |-> s])
                       /\ sending' = [sending EXCEPT ![s] = "resolved"]
                       /\ UNCHANGED tries
                  ELSE /\ sending' = [sending EXCEPT ![s] =
                                        IF tries[s] < SendRetries THEN "sleeping" ELSE "rejected"]
                       /\ tries' = [tries EXCEPT ![s] = IF @ < SendRetries THEN @ + 1 ELSE @]
                       /\ UNCHANGED toWallet

Send(s) == /\ sending[s] = "idle"
           /\ IF connected THEN SendAttempt(s)
                           ELSE /\ sending' = [sending EXCEPT ![s] = "rejected"]
                                /\ UNCHANGED <<toWallet, tries>>
           /\ UNCHANGED <<opened, windows, toApp, connectVars, appVars>>

RetrySend(s) == /\ sending[s] = "sleeping"
                /\ SendAttempt(s)
                /\ UNCHANGED <<opened, windows, toApp, connectVars, appVars>>

TransportStep == \/ \E c \in Call : Connect(c) \/ RetryConnect(c) \/ Timeout(c)
                 \/ ReceiveMessage \/ PopupClosed \/ Disconnect \/ Destroy
                 \/ \E s \in Request : Send(s) \/ RetrySend(s)
=============================================================================
