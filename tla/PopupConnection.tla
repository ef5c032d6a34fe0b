-------------------------- MODULE PopupConnection ---------------------------
(***************************************************************************)
(* A dApp's popup transport and the wallet windows it opens.               *)
(***************************************************************************)
EXTENDS PopupWindowTransport, WalletWindow

vars == <<channelVars, transportVars, walletVars>>

Init == ChannelInit /\ TransportInit /\ WalletInit

\* Windows the transport closes lose their transport in the same step.
AppStep == TransportStep /\ Unload /\ UNCHANGED <<unsent, received>>

Next == \/ AppStep
        \/ WalletStep /\ UNCHANGED transportVars

AppTimeout(c) == Timeout(c) /\ Unload /\ UNCHANGED <<unsent, received>>
AppRetry(c)   == RetryConnect(c) /\ Unload /\ UNCHANGED <<unsent, received>>

\* The timer of an attempt fires, and a sleep between two attempts ends.  Each
\* is weak fairness of an action, with the guard that enables it written out.
TimerFires(c) == []<>(pc[c] # "waiting") \/ []<><<AppTimeout(c)>>_vars
SleepEnds(c)  == []<>(pc[c] # "sleeping") \/ []<><<AppRetry(c)>>_vars

\* Nothing is asked of the wallet, the user or the network.
Fairness == \A c \in Call : TimerFires(c) /\ SleepEnds(c)

Spec == Init /\ [][Next]_vars /\ Fairness

-----------------------------------------------------------------------------
\* The state is well formed: the transport, the channel and the wallet windows.
TypeOK == ChannelTypeOK /\ TransportTypeOK /\ WalletTypeOK

\* Unless connect calls overlap, an attempt leaves nothing behind when the
\* next one begins: no handler, no interval and no open window but the
\* current one, so that the application is given each message of the wallet
\* once.
NoLeftovers == ~overlapped => /\ hooks \subseteq {popup} /\ windows \subseteq {popup}
                              /\ \A m \in Message : emitted[m] <= 1

\* A send reaches the wallet's application at most once, and never when it
\* was rejected, however often it was tried.
SendIsExact == \A s \in Request :
                 /\ received[s] <= 1
                 /\ sending[s] # "resolved" => received[s] = 0 /\ \A i \in DOMAIN toWallet : toWallet[i].data # s

\* An established connection ends only because the application disconnects
\* or its own popup was closed: no timer of another attempt tears it down.
EndsForAReason == [][connected /\ ~connected' => \/ popup \notin windows
                                                 \/ Disconnect \/ Destroy]_vars

\* Every connect call is settled, whatever the wallet and the user do.
ConnectSettles == \A c \in Call : Pending(c) ~> ~Pending(c)
=============================================================================
