---------------------------- MODULE WalletWindow ----------------------------
(***************************************************************************)
(* A wallet in a popup window: its page loads and reloads, and it talks to *)
(* its opener through a CrossWindowTransport, which finds window.opener,   *)
(* takes itself for connected at once and says so with "wallet_ready".     *)
(* Its message handler is registered exactly while it is connected.        *)
(***************************************************************************)
EXTENDS WindowChannel

VARIABLES
  ready,      \* windows whose transport is connected
  unsent,     \* messages the wallet's application has not sent
  received    \* received[s]: how often it was given message s

walletVars == <<ready, unsent, received>>

WalletInit == /\ ready = {} /\ unsent = Message
              /\ received = [s \in Request |-> 0]

WalletTypeOK == /\ ready \subseteq windows /\ unsent \subseteq Message
                /\ received \in [Request -> Nat]

\* connectInternal in the wallet's context.
WalletConnect(w) == /\ w \in windows \ ready
                    /\ ready' = ready \cup {w}
                    /\ PostToApp(w, "ready")
                    /\ UNCHANGED <<opened, windows, toWallet, unsent, received>>

\* disconnectInternal, or the page is reloaded.
WalletDisconnect(w) == /\ w \in ready
                       /\ ready' = ready \ {w}
                       /\ UNCHANGED <<channelVars, unsent, received>>

WalletSend(w, m) == /\ w \in ready /\ m \in unsent
                    /\ unsent' = unsent \ {m}
                    /\ PostToApp(w, m)
                    /\ UNCHANGED <<opened, windows, toWallet, ready, received>>

\* The handler of message events; without one the event is lost.
WalletReceive(w) ==
  \E i \in 1..Len(toWallet) :
    /\ IsNextFor(i, w)
    /\ toWallet' = RemoveAt(toWallet, i)
    /\ received' = IF w \in ready THEN [received EXCEPT ![toWallet[i].data] = @ + 1]
                                  ELSE received
    /\ UNCHANGED <<opened, windows, toApp, ready, unsent>>

\* The user closes the window.
UserCloses(w) == /\ w \in windows
                 /\ windows' = windows \ {w}
                 /\ ready' = ready \ {w}
                 /\ UNCHANGED <<opened, toApp, toWallet, unsent, received>>

\* A window that was closed keeps no transport.
Unload == ready' = ready \cap windows'

WalletStep == \E w \in 1..opened :
                \/ WalletConnect(w) \/ WalletDisconnect(w) \/ WalletReceive(w) \/ UserCloses(w)
                \/ \E m \in unsent : WalletSend(w, m)
=============================================================================
