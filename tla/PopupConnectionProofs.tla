----------------------- MODULE PopupConnectionProofs -------------------------
(***************************************************************************)
(* For every number of connect calls, retries, messages and windows: what  *)
(* an attempt leaves behind, how often a message arrives, what ends a      *)
(* connection, and that every attempt to connect ends.                     *)
(***************************************************************************)
EXTENDS PopupConnection, FiniteSetTheorems, SequenceTheorems, TLAPS

\* While the transport is connected no attempt waits, so no timer is armed.
ConnectedIsSettled == connected => \A c \in Call : pc[c] # "waiting"

\* Without an overlap the object knows all there is.
AloneIsTidy ==
  ~overlapped => /\ \A c, d \in Call : Pending(c) /\ Pending(d) => c = d
                 /\ hooks \subseteq {popup} /\ windows \subseteq {popup}
                 /\ ~connected /\ (\A c \in Call : pc[c] # "waiting") => popup = 0

\* A message of the wallet is unsent, under way once, or has arrived.
MailIsSingle ==
  /\ \A i, j \in 1..Len(toApp) :
       toApp[i].data \in Message /\ toApp[i].data = toApp[j].data => i = j
  /\ \A i \in 1..Len(toApp) :
       toApp[i].data \in Message => toApp[i].data \notin unsent /\ emitted[toApp[i].data] = 0
  /\ \A m \in unsent : emitted[m] = 0
  /\ ~overlapped => \A m \in Message : emitted[m] <= 1

\* So is a message to the wallet, and its send was resolved.
PostIsSingle ==
  /\ \A i, j \in 1..Len(toWallet) : toWallet[i].data = toWallet[j].data => i = j
  /\ \A i \in 1..Len(toWallet) : /\ received[toWallet[i].data] = 0
                                 /\ sending[toWallet[i].data] = "resolved"
  /\ \A s \in Request : received[s] <= 1 /\ (sending[s] # "resolved" => received[s] = 0)

IInv == TypeOK /\ ConnectedIsSettled /\ AloneIsTidy /\ MailIsSingle /\ PostIsSingle

USE ChannelAssumption, TransportAssumption

\* The invariant holds before anything is opened.
LEMMA InitIInv == Init => IInv
<1> SUFFICES ASSUME Init PROVE IInv
  OBVIOUS
<1> USE DEF Init, ChannelInit, TransportInit, WalletInit
<1>1. ChannelTypeOK /\ WalletTypeOK
  BY DEF ChannelTypeOK, WalletTypeOK
<1>2. TransportTypeOK
  <2>1. attempt \in [Call -> 0..ConnectRetries]
    OBVIOUS
  <2>2. tries \in [Request -> 0..SendRetries]
    OBVIOUS
  <2>3. connected \in BOOLEAN /\ subscribed \in BOOLEAN /\ overlapped \in BOOLEAN
    OBVIOUS
  <2>4. popup \in 0..opened /\ hooks \subseteq 1..opened
    OBVIOUS
  <2>5. emitted \in [Message -> Nat]
    OBVIOUS
  <2> QED
    BY <2>1, <2>2, <2>3, <2>4, <2>5 DEF TransportTypeOK
<1>3. Len(toApp) = 0 /\ Len(toWallet) = 0
  OBVIOUS
<1>4. ConnectedIsSettled /\ AloneIsTidy
  BY DEF ConnectedIsSettled, AloneIsTidy, Pending
<1>5. MailIsSingle /\ PostIsSingle
  BY <1>3 DEF MailIsSingle, PostIsSingle
<1> QED
  BY <1>1, <1>2, <1>4, <1>5 DEF IInv, TypeOK

-----------------------------------------------------------------------------
(* Sequences of message events.                                            *)

\* What is left of a sequence without its i-th element.
LEMMA RemoveAtProperties ==
  ASSUME NEW S, NEW s \in Seq(S), NEW i \in 1..Len(s)
  PROVE  /\ RemoveAt(s, i) \in Seq(S)
         /\ Len(RemoveAt(s, i)) = Len(s) - 1
         /\ \A k \in 1..(Len(s) - 1) : RemoveAt(s, i)[k] = s[IF k < i THEN k ELSE k + 1]
<1> DEFINE front == SubSeq(s, 1, i - 1)
           back  == SubSeq(s, i + 1, Len(s))
<1>1. /\ front \in Seq(S) /\ Len(front) = i - 1
      /\ \A k \in 1..(i - 1) : front[k] = s[k]
  <2>1. \A k \in 1..(i - 1) : s[k] \in S
    OBVIOUS
  <2>2. i - 1 \in Int /\ 1 \in Int
    OBVIOUS
  <2> HIDE DEF front
  <2>3. /\ front \in Seq(S) /\ Len(front) = IF 1 <= i - 1 THEN (i - 1) - 1 + 1 ELSE 0
        /\ \A k \in 1..((i - 1) - 1 + 1) : front[k] = s[1 + k - 1]
    BY <2>1, <2>2, SubSeqProperties DEF front
  <2> QED
    BY <2>3
<1>2. /\ back \in Seq(S) /\ Len(back) = Len(s) - i
      /\ \A k \in 1..(Len(s) - i) : back[k] = s[k + i]
  <2>1. \A k \in (i + 1)..Len(s) : s[k] \in S
    OBVIOUS
  <2>2. i + 1 \in Int /\ Len(s) \in Int
    OBVIOUS
  <2> HIDE DEF back
  <2>3. /\ back \in Seq(S) /\ Len(back) = IF i + 1 <= Len(s) THEN Len(s) - (i + 1) + 1 ELSE 0
        /\ \A k \in 1..(Len(s) - (i + 1) + 1) : back[k] = s[(i + 1) + k - 1]
    BY <2>1, <2>2, SubSeqProperties DEF back
  <2> QED
    BY <2>3
<1>3. RemoveAt(s, i) = front \o back
  BY DEF RemoveAt
<1> HIDE DEF front, back
<1>4. /\ front \o back \in Seq(S)
      /\ Len(front \o back) = Len(front) + Len(back)
      /\ \A k \in 1..(Len(front) + Len(back)) :
           (front \o back)[k] = IF k <= Len(front) THEN front[k] ELSE back[k - Len(front)]
  BY <1>1, <1>2, ConcatProperties
<1> QED
  BY <1>1, <1>2, <1>3, <1>4

-----------------------------------------------------------------------------
(* Types.                                                                  *)

\* There are only as many handlers as windows were opened.
LEMMA HooksAreFinite ==
  ASSUME TypeOK PROVE IsFiniteSet(hooks) /\ Cardinality(hooks) \in Nat
<1>1. IsFiniteSet(1..opened)
  BY FS_Interval DEF TypeOK, ChannelTypeOK
<1>2. hooks \subseteq 1..opened
  BY DEF TypeOK, TransportTypeOK
<1> QED
  BY <1>1, <1>2, FS_Subset, FS_CardinalityType

\* The events under way are messages of the right kind.
LEMMA MailTypes ==
  ASSUME TypeOK
  PROVE  /\ \A i \in 1..Len(toApp) : toApp[i].data \in Message \cup {"ready"}
         /\ \A i \in 1..Len(toWallet) : toWallet[i].data \in Request
         /\ Len(toApp) \in Nat /\ Len(toWallet) \in Nat
<1> DEFINE A == [from : 1..opened, data : Message \cup {"ready"}]
           W == [to : 1..opened, data : Request]
<1>1. toApp \in Seq(A) /\ toWallet \in Seq(W)
  BY DEF TypeOK, ChannelTypeOK
<1>2. \A x \in A : x.data \in Message \cup {"ready"}
  OBVIOUS
<1>3. \A x \in W : x.data \in Request
  OBVIOUS
<1> HIDE DEF A, W
<1>4. /\ \A i \in 1..Len(toApp) : toApp[i] \in A
      /\ \A i \in 1..Len(toWallet) : toWallet[i] \in W
  BY <1>1, ElementOfSeq
<1> QED
  BY <1>1, <1>2, <1>3, <1>4

\* The transport's own steps keep the channel and the transport in their types.
LEMMA TransportTypeStep ==
  ASSUME TypeOK, TransportStep PROVE ChannelTypeOK' /\ TransportTypeOK'
<1> DEFINE ToApp(n) == [from : 1..n, data : Message \cup {"ready"}]
           ToWallet(n) == [to : 1..n, data : Request]
<1>1. opened \in Nat /\ toApp \in Seq(ToApp(opened)) /\ toWallet \in Seq(ToWallet(opened))
  BY DEF TypeOK, ChannelTypeOK
<1>2. Seq(ToApp(opened)) \subseteq Seq(ToApp(opened + 1))
  <2>1. ToApp(opened) \subseteq ToApp(opened + 1)
    BY <1>1
  <2> QED
    BY <2>1, SeqMonotonic
<1>3. Seq(ToWallet(opened)) \subseteq Seq(ToWallet(opened + 1))
  <2>1. ToWallet(opened) \subseteq ToWallet(opened + 1)
    BY <1>1
  <2> QED
    BY <2>1, SeqMonotonic
<1>4. ChannelTypeOK' <=> /\ opened' \in Nat /\ windows' \subseteq 1..opened'
                         /\ toApp' \in Seq(ToApp(opened')) /\ toWallet' \in Seq(ToWallet(opened'))
  BY DEF ChannelTypeOK
<1> HIDE DEF ToApp, ToWallet
<1> USE DEF TypeOK, TransportTypeOK
<1>5. windows \subseteq 1..opened
  BY DEF ChannelTypeOK
<1>12. ASSUME UNCHANGED <<opened, toApp, toWallet>>, windows' \subseteq windows
       PROVE  ChannelTypeOK'
  BY <1>1, <1>4, <1>5, <1>12
<1>13. ASSUME NEW c \in Call, Reject(c)
       PROVE  /\ pc' \in [Call -> {"idle", "waiting", "sleeping", "resolved", "rejected"}]
              /\ attempt' \in [Call -> 0..ConnectRetries]
  <2>1. CASE attempt[c] < ConnectRetries
    <3>1. attempt[c] + 1 \in 0..ConnectRetries
      BY <2>1
    <3> QED
      BY <1>13, <2>1, <3>1 DEF Reject
  <2>2. CASE ~(attempt[c] < ConnectRetries)
    BY <1>13, <2>2 DEF Reject
  <2> QED
    BY <2>1, <2>2
<1>14. Cleanup => /\ windows' \subseteq windows /\ connected' \in BOOLEAN
                  /\ popup' \in 0..opened /\ hooks' \subseteq 1..opened
  <2> SUFFICES ASSUME Cleanup
               PROVE  /\ windows' \subseteq windows /\ connected' \in BOOLEAN
                      /\ popup' \in 0..opened /\ hooks' \subseteq 1..opened
    OBVIOUS
  <2>1. connected' \in BOOLEAN /\ windows' \subseteq windows /\ hooks' \subseteq hooks
    BY DEF Cleanup
  <2>2. popup' \in 0..opened
    BY <1>1 DEF Cleanup
  <2> QED
    BY <2>1, <2>2
<1>6. ASSUME NEW c \in Call, Attempt(c), UNCHANGED sendVars,
             subscribed' = subscribed, emitted' = emitted, overlapped' \in BOOLEAN
      PROVE  ChannelTypeOK' /\ TransportTypeOK'
  <2>1. CASE AttemptConnected(c)
    BY <1>1, <1>4, <1>5, <1>6, <2>1 DEF AttemptConnected, channelVars, sendVars
  <2>2. CASE AttemptOpens(c)
    BY <1>1, <1>2, <1>3, <1>4, <1>5, <1>6, <2>2 DEF AttemptOpens, sendVars
  <2>3. CASE AttemptBlocked(c)
    <3>1. popup' \in 0..opened /\ hooks' \subseteq 1..opened /\ Reject(c)
      BY <1>1, <2>3 DEF AttemptBlocked
    <3> QED
      BY <1>6, <1>12, <1>13, <2>3, <3>1 DEF AttemptBlocked, channelVars, sendVars
  <2> QED
    BY <1>6, <2>1, <2>2, <2>3 DEF Attempt
<1>7. ASSUME NEW c \in Call, Connect(c) \/ RetryConnect(c)
      PROVE  ChannelTypeOK' /\ TransportTypeOK'
  BY <1>6, <1>7 DEF Connect, RetryConnect, appVars
<1>8. ASSUME NEW c \in Call, Timeout(c) PROVE ChannelTypeOK' /\ TransportTypeOK'
  BY <1>8, <1>12, <1>13, <1>14 DEF Timeout, sendVars, appVars
<1>9. CASE ReceiveMessage
  <2>1. toApp' \in Seq(ToApp(opened))
    BY <1>1, <1>9, HeadTailProperties DEF ReceiveMessage
  <2>2. emitted' \in [Message -> Nat]
    BY <1>9, HooksAreFinite DEF ReceiveMessage, Emit
  <2> QED
    BY <1>1, <1>4, <1>5, <1>9, <2>1, <2>2 DEF ReceiveMessage, HandleConnected, sendVars
<1>10. CASE PopupClosed \/ Disconnect \/ Destroy
  BY <1>10, <1>12, <1>14 DEF PopupClosed, Disconnect, Destroy, sendVars, appVars
<1>11. ASSUME NEW s \in Request, Send(s) \/ RetrySend(s)
       PROVE  ChannelTypeOK' /\ TransportTypeOK'
  <2>1. toWallet' \in Seq(ToWallet(opened))
    <3>1. popup \in windows => [to |-> popup, data |-> s] \in ToWallet(opened)
      BY <1>5 DEF ToWallet
    <3>2. popup \in windows => Append(toWallet, [to |-> popup, data |-> s]) \in Seq(ToWallet(opened))
      BY <1>1, <3>1, AppendProperties
    <3> QED
      BY <1>1, <1>11, <3>2 DEF Send, RetrySend, SendAttempt
  <2>2. sending' \in [Request -> {"idle", "sleeping", "resolved", "rejected"}]
    BY <1>11 DEF Send, RetrySend, SendAttempt
  <2>3. tries' \in [Request -> 0..SendRetries]
    <3>1. tries[s] < SendRetries => tries[s] + 1 \in 0..SendRetries
      OBVIOUS
    <3>2. tries' \in {tries, [tries EXCEPT ![s] = IF tries[s] < SendRetries THEN tries[s] + 1
                                                                         ELSE tries[s]]}
      BY <1>11 DEF Send, RetrySend, SendAttempt
    <3> QED
      BY <3>1, <3>2
  <2> QED
    BY <1>1, <1>4, <1>5, <1>11, <2>1, <2>2, <2>3 DEF Send, RetrySend, connectVars, appVars
<1> QED
  BY <1>7, <1>8, <1>9, <1>10, <1>11 DEF TransportStep

\* The wallet's steps keep the channel and the windows in their types.
LEMMA WalletTypeStep ==
  ASSUME TypeOK, WalletStep PROVE ChannelTypeOK' /\ WalletTypeOK'
<1> USE DEF TypeOK, ChannelTypeOK, WalletTypeOK
<1>1. ASSUME NEW w \in windows, NEW d \in Message \cup {"ready"}, PostToApp(w, d)
      PROVE  toApp' \in Seq([from : 1..opened, data : Message \cup {"ready"}])
  BY <1>1, AppendProperties DEF PostToApp
<1>2. ASSUME NEW w \in 1..opened,
             WalletConnect(w) \/ WalletDisconnect(w) \/ UserCloses(w)
      PROVE  ChannelTypeOK' /\ WalletTypeOK'
  BY <1>1, <1>2 DEF WalletConnect, WalletDisconnect, UserCloses, channelVars
<1>3. ASSUME NEW w \in 1..opened, WalletReceive(w) PROVE ChannelTypeOK' /\ WalletTypeOK'
  <2>1. PICK i \in 1..Len(toWallet) :
          /\ toWallet' = RemoveAt(toWallet, i)
          /\ received' = IF w \in ready THEN [received EXCEPT ![toWallet[i].data] = @ + 1]
                                        ELSE received
    BY <1>3 DEF WalletReceive
  <2>2. toWallet' \in Seq([to : 1..opened, data : Request])
    BY <2>1, RemoveAtProperties
  <2>3. toWallet[i].data \in Request
    BY MailTypes
  <2>4. received' \in [Request -> Nat]
    BY <2>1, <2>3
  <2> QED
    BY <1>3, <2>2, <2>4 DEF WalletReceive
<1>4. ASSUME NEW w \in 1..opened, NEW m \in unsent, WalletSend(w, m)
      PROVE  ChannelTypeOK' /\ WalletTypeOK'
  BY <1>1, <1>4 DEF WalletSend
<1> QED
  BY <1>2, <1>3, <1>4 DEF WalletStep

\* So every step keeps the types.
LEMMA TypeStep == TypeOK /\ [Next]_vars => TypeOK'
<1> SUFFICES ASSUME TypeOK, [Next]_vars PROVE TypeOK'
  OBVIOUS
<1>1. CASE UNCHANGED vars
  BY <1>1 DEF vars, channelVars, transportVars, connectVars, sendVars, appVars, walletVars,
              TypeOK, ChannelTypeOK, TransportTypeOK, WalletTypeOK
<1>2. CASE AppStep
  BY <1>2, TransportTypeStep DEF AppStep, Unload, TypeOK, WalletTypeOK
<1>3. CASE WalletStep /\ UNCHANGED transportVars
  <2>1. ChannelTypeOK' /\ WalletTypeOK' /\ opened' = opened
    BY <1>3, WalletTypeStep DEF WalletStep, WalletConnect, WalletDisconnect, UserCloses,
       WalletReceive, WalletSend, channelVars
  <2> QED
    BY <1>3, <2>1 DEF TypeOK, TransportTypeOK, transportVars, connectVars, sendVars, appVars
<1> QED
  BY <1>1, <1>2, <1>3 DEF Next

-----------------------------------------------------------------------------
(* The attempts to connect.                                                *)

\* What the rest of the page and the wallet leave alone.
LEMMA SendsAndWallet ==
  ASSUME \/ UNCHANGED vars
         \/ WalletStep /\ UNCHANGED transportVars
         \/ \E s \in Request : Send(s) \/ RetrySend(s)
  PROVE  UNCHANGED <<connectVars, overlapped>> /\ windows' \subseteq windows
  BY DEF vars, transportVars, appVars, channelVars, Send, RetrySend, WalletStep, WalletConnect,
         WalletDisconnect, WalletReceive, WalletSend, UserCloses

\* A window is opened only while the transport is not connected, and all that
\* wait are told of the connection.
LEMMA SettledStep ==
  ASSUME TypeOK, ConnectedIsSettled, [Next]_vars PROVE ConnectedIsSettled'
<1> USE DEF ConnectedIsSettled
<1>0. pc \in [Call -> {"idle", "waiting", "sleeping", "resolved", "rejected"}]
  BY DEF TypeOK, TransportTypeOK
<1>1. ASSUME UNCHANGED connectVars PROVE ConnectedIsSettled'
  BY <1>1 DEF connectVars
<1>2. ASSUME Cleanup PROVE ConnectedIsSettled'
  BY <1>2 DEF Cleanup
<1>3. ASSUME NEW c \in Call, Attempt(c) PROVE ConnectedIsSettled'
  BY <1>0, <1>3 DEF Attempt, AttemptConnected, AttemptOpens, AttemptBlocked
<1>4. CASE ReceiveMessage
  BY <1>0, <1>4 DEF ReceiveMessage, HandleConnected
<1>5. CASE TransportStep
  BY <1>1, <1>2, <1>3, <1>4, <1>5, SendsAndWallet
     DEF TransportStep, Connect, RetryConnect, Timeout, PopupClosed, Disconnect, Destroy
<1> QED
  BY <1>1, <1>5, SendsAndWallet DEF Next, AppStep

\* Without an overlap an attempt begins only when the object holds nothing.
LEMMA TidyStep ==
  ASSUME TypeOK, ConnectedIsSettled, AloneIsTidy, [Next]_vars PROVE AloneIsTidy'
<1> USE DEF AloneIsTidy, Pending
<1>0. /\ pc \in [Call -> {"idle", "waiting", "sleeping", "resolved", "rejected"}]
      /\ opened \in Nat /\ hooks \subseteq 1..opened /\ windows \subseteq 1..opened
      /\ overlapped \in BOOLEAN
  BY DEF TypeOK, TransportTypeOK, ChannelTypeOK
<1>1. ASSUME UNCHANGED <<connectVars, overlapped>>, windows' \subseteq windows PROVE AloneIsTidy'
  BY <1>1 DEF connectVars
<1>2. ASSUME Cleanup, UNCHANGED <<pc, overlapped>> PROVE AloneIsTidy'
  BY <1>2 DEF Cleanup
<1>3. ASSUME NEW c \in Call, Attempt(c),
             \/ overlapped' = overlapped /\ pc[c] = "sleeping"
             \/ overlapped' = (overlapped \/ \E d \in Call : Pending(d))
      PROVE  AloneIsTidy'
  <2> SUFFICES ASSUME ~overlapped' PROVE AloneIsTidy'
    OBVIOUS
  <2>0. ~overlapped
    BY <1>0, <1>3
  <2>1. \A d \in Call : d # c => ~Pending(d)
    BY <1>0, <1>3, <2>0
  <2>2. CASE AttemptConnected(c)
    <3>1. connected' /\ UNCHANGED <<hooks, popup, windows>>
      BY <2>2 DEF AttemptConnected, channelVars
    <3>2. pc' = [pc EXCEPT ![c] = "resolved"]
      BY <2>2 DEF AttemptConnected
    <3> QED
      BY <1>0, <2>0, <2>1, <3>1, <3>2
  <2>3. ASSUME ~connected PROVE popup = 0 /\ hooks = {} /\ windows = {}
    <3>1. \A d \in Call : pc[d] # "waiting"
      BY <1>3, <2>0, <2>1
    <3>2. popup = 0 /\ hooks \subseteq {0} /\ windows \subseteq {0}
      BY <2>0, <2>3, <3>1
    <3> QED
      BY <1>0, <3>2
  <2>4. CASE AttemptOpens(c)
    BY <1>0, <2>1, <2>3, <2>4 DEF AttemptOpens
  <2>5. CASE AttemptBlocked(c)
    <3>1. /\ popup' = 0 /\ hooks' = {} /\ windows' = {}
          /\ \A d \in Call : d # c => pc'[d] = pc[d]
      BY <1>0, <2>3, <2>5 DEF AttemptBlocked, Reject, channelVars
    <3> QED
      BY <1>0, <2>1, <3>1
  <2> QED
    BY <1>3, <2>2, <2>4, <2>5 DEF Attempt
<1>4. ASSUME NEW c \in Call, Timeout(c) PROVE AloneIsTidy'
  BY <1>0, <1>4 DEF Timeout, Cleanup, Reject, appVars
<1>5. CASE ReceiveMessage
  BY <1>0, <1>5 DEF ReceiveMessage, HandleConnected
<1>6. CASE TransportStep
  BY <1>1, <1>2, <1>3, <1>4, <1>5, <1>6, SendsAndWallet
     DEF TransportStep, Connect, RetryConnect, PopupClosed, Disconnect, Destroy, appVars
<1> QED
  BY <1>1, <1>6, SendsAndWallet DEF Next, AppStep

-----------------------------------------------------------------------------
(* Messages to the dApp.                                                   *)

\* Of an open transport without leftovers at most one handler is registered.
LEMMA OneHook ==
  ASSUME TypeOK, AloneIsTidy, ~overlapped PROVE Cardinality(hooks) \in 0..1
<1>1. hooks \subseteq {popup}
  BY DEF AloneIsTidy
<1>2. CASE hooks = {}
  BY <1>2, FS_EmptySet
<1>3. CASE hooks = {popup}
  <2>1. Cardinality({popup}) = 1
    BY FS_Singleton
  <2> QED
    BY <1>3, <2>1
<1> QED
  BY <1>1, <1>2, <1>3

\* A message leaves the wallet once, and its arrival is its only emission.
LEMMA MailStep ==
  ASSUME TypeOK, AloneIsTidy, MailIsSingle, [Next]_vars PROVE MailIsSingle'
<1> USE DEF MailIsSingle
<1>0. /\ unsent \subseteq Message /\ emitted \in [Message -> Nat] /\ overlapped \in BOOLEAN
      /\ toApp \in Seq([from : 1..opened, data : Message \cup {"ready"}])
  BY DEF TypeOK, TransportTypeOK, ChannelTypeOK, WalletTypeOK
<1>1. ASSUME UNCHANGED <<toApp, unsent, emitted>>, overlapped => overlapped' PROVE MailIsSingle'
  BY <1>1
<1>2. CASE ReceiveMessage /\ UNCHANGED unsent
  <2> DEFINE m == Head(toApp).data
  <2>1. toApp # <<>> /\ Head(toApp) = toApp[1] /\ overlapped' = overlapped
    BY <1>0, <1>2 DEF ReceiveMessage
  <2>2. /\ Len(toApp') = Len(toApp) - 1 /\ Len(toApp) \in Nat
        /\ \A i \in 1..Len(toApp') : toApp'[i] = toApp[i + 1]
    BY <1>0, <1>2, HeadTailProperties DEF ReceiveMessage
  <2>3. \/ emitted' = emitted
        \/ m \in Message /\ emitted' = [emitted EXCEPT ![m] = @ + Cardinality(hooks)]
    BY <1>2 DEF ReceiveMessage, Emit
  <2>4. m \in Message => /\ m \notin unsent /\ emitted[m] = 0
                         /\ \A i \in 1..Len(toApp') : toApp'[i].data # m
    BY <2>1, <2>2
  <2> HIDE DEF m
  <2>5. \A k \in Message : m # k => emitted'[k] = emitted[k]
    BY <1>0, <2>3
  <2>6. ~overlapped => \A k \in Message : emitted'[k] <= 1
    <3>1. ASSUME ~overlapped, m \in Message PROVE emitted'[m] <= 1
      BY <1>0, <2>3, <2>4, <3>1, OneHook
    <3> QED
      BY <2>5, <3>1
  <2>7. \A i, j \in 1..Len(toApp') :
          toApp'[i].data \in Message /\ toApp'[i].data = toApp'[j].data => i = j
    BY <2>2
  <2>8. \A i \in 1..Len(toApp') : toApp'[i].data \in Message =>
          toApp'[i].data \notin unsent /\ emitted'[toApp'[i].data] = 0
    <3> SUFFICES ASSUME NEW i \in 1..Len(toApp'), toApp'[i].data \in Message
                 PROVE  toApp'[i].data \notin unsent /\ emitted'[toApp'[i].data] = 0
      OBVIOUS
    <3>1. i + 1 \in 1..Len(toApp) /\ toApp'[i] = toApp[i + 1]
      BY <2>2
    <3>2. toApp[i + 1].data \notin unsent /\ emitted[toApp[i + 1].data] = 0
      BY <3>1
    <3>3. toApp'[i].data # m
      BY <2>4
    <3> QED
      BY <2>5, <3>1, <3>2, <3>3
  <2>9. \A k \in unsent : emitted'[k] = 0
    BY <1>0, <2>4, <2>5
  <2> QED
    BY <1>2, <2>1, <2>6, <2>7, <2>8, <2>9
<1>3. ASSUME NEW w \in windows, NEW d \in Message \cup {"ready"}, PostToApp(w, d),
             d \in Message => d \in unsent, unsent' = unsent \ {d},
             UNCHANGED <<emitted, overlapped>>
      PROVE  MailIsSingle'
  <2>1. [from |-> w, data |-> d] \in [from : 1..opened, data : Message \cup {"ready"}]
    BY DEF TypeOK, ChannelTypeOK
  <2>2. /\ Len(toApp') = Len(toApp) + 1 /\ Len(toApp) \in Nat
        /\ \A i \in 1..Len(toApp) : toApp'[i] = toApp[i]
        /\ toApp'[Len(toApp) + 1].data = d
    BY <1>0, <1>3, <2>1, AppendProperties DEF PostToApp
  <2>3. d \in Message => \A i \in 1..Len(toApp) : toApp[i].data # d
    BY <1>3
  <2>4. \A i \in 1..Len(toApp') :
          \/ i \in 1..Len(toApp) /\ toApp'[i].data = toApp[i].data
          \/ i = Len(toApp) + 1 /\ toApp'[i].data = d
    BY <2>2
  <2>5. \A i, j \in 1..Len(toApp') :
          toApp'[i].data \in Message /\ toApp'[i].data = toApp'[j].data => i = j
    BY <2>3, <2>4
  <2>6. \A i \in 1..Len(toApp') : toApp'[i].data \in Message =>
          toApp'[i].data \notin unsent' /\ emitted'[toApp'[i].data] = 0
    BY <1>3, <2>4
  <2> QED
    BY <1>3, <2>5, <2>6
<1>4. CASE TransportStep /\ UNCHANGED unsent
  <2>1. CASE ReceiveMessage
    BY <1>2, <1>4, <2>1
  <2>2. ASSUME ~ReceiveMessage PROVE UNCHANGED <<toApp, emitted>> /\ (overlapped => overlapped')
    BY <1>4, <2>2, <1>0 DEF TransportStep, Connect, RetryConnect, Attempt, AttemptConnected,
       AttemptOpens, AttemptBlocked, Timeout, PopupClosed, Disconnect, Destroy, Send, RetrySend,
       SendAttempt, channelVars, appVars
  <2> QED
    BY <1>1, <1>4, <2>1, <2>2
<1>5. CASE WalletStep /\ UNCHANGED transportVars
  <2>1. "ready" \notin unsent
    BY <1>0
  <2>2. PICK w \in 1..opened :
          \/ WalletConnect(w) \/ WalletDisconnect(w) \/ WalletReceive(w) \/ UserCloses(w)
          \/ \E m \in unsent : WalletSend(w, m)
    BY <1>5 DEF WalletStep
  <2>3. CASE WalletConnect(w)
    BY <1>3, <1>5, <2>1, <2>3 DEF WalletConnect, transportVars, appVars
  <2>4. ASSUME NEW m \in unsent, WalletSend(w, m) PROVE MailIsSingle'
    <3>1. w \in windows /\ m \in Message
      BY <1>0, <2>4 DEF WalletSend, TypeOK, WalletTypeOK
    <3> QED
      BY <1>3, <1>5, <2>4, <3>1 DEF WalletSend, transportVars, appVars
  <2>5. CASE WalletDisconnect(w) \/ WalletReceive(w) \/ UserCloses(w)
    BY <1>1, <1>5, <2>5 DEF WalletDisconnect, WalletReceive, UserCloses, channelVars,
       transportVars, appVars
  <2> QED
    BY <2>2, <2>3, <2>4, <2>5
<1>6. CASE UNCHANGED vars
  BY <1>1, <1>6 DEF vars, channelVars, transportVars, appVars, walletVars
<1> QED
  BY <1>4, <1>5, <1>6 DEF Next, AppStep

-----------------------------------------------------------------------------
(* Messages to the wallet.                                                 *)

\* A send posts its message only while it is unresolved, and is resolved by it.
LEMMA PostAttempt ==
  ASSUME TypeOK, PostIsSingle, NEW s \in Request, sending[s] # "resolved", SendAttempt(s),
         UNCHANGED received
  PROVE  PostIsSingle'
<1> USE DEF PostIsSingle
<1>0. /\ sending \in [Request -> {"idle", "sleeping", "resolved", "rejected"}]
      /\ toWallet \in Seq([to : 1..opened, data : Request]) /\ windows \subseteq 1..opened
  BY DEF TypeOK, TransportTypeOK, ChannelTypeOK
<1>1. \A i \in 1..Len(toWallet) : toWallet[i].data \in Request /\ toWallet[i].data # s
  BY MailTypes
<1>2. received[s] = 0 /\ \A r \in Request : r # s => sending'[r] = sending[r]
  BY <1>0 DEF SendAttempt
<1>3. CASE connected /\ popup \in windows
  <2>1. [to |-> popup, data |-> s] \in [to : 1..opened, data : Request]
    BY <1>0, <1>3
  <2>2. /\ Len(toWallet') = Len(toWallet) + 1 /\ Len(toWallet) \in Nat
        /\ \A i \in 1..Len(toWallet) : toWallet'[i] = toWallet[i]
        /\ toWallet'[Len(toWallet) + 1].data = s
    BY <1>0, <1>3, <2>1, AppendProperties DEF SendAttempt
  <2>3. \A i \in 1..Len(toWallet') :
          \/ i \in 1..Len(toWallet) /\ toWallet'[i].data = toWallet[i].data
          \/ i = Len(toWallet) + 1 /\ toWallet'[i].data = s
    BY <2>2
  <2>4. \A i, j \in 1..Len(toWallet') : toWallet'[i].data = toWallet'[j].data => i = j
    BY <1>1, <2>3
  <2>5. sending'[s] = "resolved"
    BY <1>0, <1>3 DEF SendAttempt
  <2>6. \A i \in 1..Len(toWallet') : /\ received'[toWallet'[i].data] = 0
                                     /\ sending'[toWallet'[i].data] = "resolved"
    BY <1>1, <1>2, <2>3, <2>5
  <2> QED
    BY <1>2, <2>4, <2>5, <2>6
<1>4. CASE ~(connected /\ popup \in windows)
  BY <1>1, <1>2, <1>4 DEF SendAttempt
<1> QED
  BY <1>3, <1>4

\* Posting and receiving keep a message to the wallet single.
LEMMA PostStep ==
  ASSUME TypeOK, PostIsSingle, [Next]_vars PROVE PostIsSingle'
<1> USE DEF PostIsSingle
<1>0. /\ received \in [Request -> Nat] /\ toWallet \in Seq([to : 1..opened, data : Request])
      /\ sending \in [Request -> {"idle", "sleeping", "resolved", "rejected"}]
  BY DEF TypeOK, TransportTypeOK, ChannelTypeOK, WalletTypeOK
<1>1. ASSUME UNCHANGED <<toWallet, sending, received>> PROVE PostIsSingle'
  BY <1>1
<1>2. ASSUME NEW s \in Request, Send(s) \/ RetrySend(s), UNCHANGED received PROVE PostIsSingle'
  <2>1. CASE SendAttempt(s)
    BY <1>2, <2>1, PostAttempt DEF Send, RetrySend
  <2>2. CASE Send(s) /\ ~connected
    <3>1. toWallet' = toWallet /\ sending[s] = "idle" /\ sending' = [sending EXCEPT ![s] = "rejected"]
      BY <2>2 DEF Send
    <3>2. \A i \in 1..Len(toWallet) : toWallet[i].data \in Request /\ toWallet[i].data # s
      BY <3>1, MailTypes
    <3> QED
      BY <1>0, <1>2, <3>1, <3>2
  <2> QED
    BY <1>2, <2>1, <2>2 DEF Send, RetrySend
<1>3. ASSUME NEW w \in 1..opened, WalletReceive(w), UNCHANGED sending PROVE PostIsSingle'
  <2>1. PICK i \in 1..Len(toWallet) :
          /\ toWallet' = RemoveAt(toWallet, i)
          /\ received' = IF w \in ready THEN [received EXCEPT ![toWallet[i].data] = @ + 1]
                                        ELSE received
    BY <1>3 DEF WalletReceive
  <2> DEFINE r == toWallet[i].data
             at(k) == IF k < i THEN k ELSE k + 1
  <2>2. /\ Len(toWallet') = Len(toWallet) - 1 /\ Len(toWallet) \in Nat
        /\ \A k \in 1..(Len(toWallet) - 1) : toWallet'[k] = toWallet[at(k)]
    <3> DEFINE S == [to : 1..opened, data : Request]
    <3>1. toWallet \in Seq(S) /\ Len(toWallet) \in Nat
      BY <1>0
    <3> HIDE DEF S
    <3>2. /\ Len(RemoveAt(toWallet, i)) = Len(toWallet) - 1
          /\ \A k \in 1..(Len(toWallet) - 1) :
               RemoveAt(toWallet, i)[k] = toWallet[IF k < i THEN k ELSE k + 1]
      BY <3>1, RemoveAtProperties
    <3> QED
      BY <2>1, <3>1, <3>2
  <2>3. r \in Request /\ received[r] = 0 /\ sending[r] = "resolved"
    BY MailTypes
  <2>4. \A k \in 1..Len(toWallet') : at(k) \in 1..Len(toWallet) /\ at(k) # i
    BY <2>2
  <2>5. \A k, l \in 1..Len(toWallet') : at(k) = at(l) => k = l
    BY <2>2
  <2>6. \A k \in 1..Len(toWallet') : toWallet'[k] = toWallet[at(k)] /\ toWallet'[k].data # r
    BY <2>2, <2>4
  <2>7. /\ \A q \in Request : q # r => received'[q] = received[q]
        /\ received'[r] \in 0..1
    BY <1>0, <2>1, <2>3
  <2> HIDE DEF r, at
  <2>8. \A k, l \in 1..Len(toWallet') : toWallet'[k].data = toWallet'[l].data => k = l
    BY <2>4, <2>5, <2>6
  <2>9. \A k \in 1..Len(toWallet') : /\ received'[toWallet'[k].data] = 0
                                     /\ sending'[toWallet'[k].data] = "resolved"
    BY <1>3, <2>4, <2>6, <2>7, MailTypes
  <2> QED
    BY <1>3, <2>3, <2>7, <2>8, <2>9
<1>4. CASE AppStep
  <2>1. CASE \E s \in Request : Send(s) \/ RetrySend(s)
    BY <1>2, <1>4, <2>1 DEF AppStep
  <2>2. ASSUME ~\E s \in Request : Send(s) \/ RetrySend(s)
        PROVE  UNCHANGED <<toWallet, sending, received>>
    BY <1>4, <2>2 DEF AppStep, TransportStep, Connect, RetryConnect, Attempt, AttemptConnected,
       AttemptOpens, AttemptBlocked, Timeout, ReceiveMessage, PopupClosed, Disconnect, Destroy,
       channelVars, sendVars
  <2> QED
    BY <1>1, <2>1, <2>2
<1>5. CASE WalletStep /\ UNCHANGED transportVars
  <2>1. UNCHANGED sending
    BY <1>5 DEF transportVars, sendVars
  <2>2. CASE \E w \in 1..opened : WalletReceive(w)
    BY <1>3, <2>1, <2>2
  <2>3. ASSUME ~\E w \in 1..opened : WalletReceive(w) PROVE UNCHANGED <<toWallet, received>>
    BY <1>5, <2>3 DEF WalletStep, WalletConnect, WalletDisconnect, WalletSend, UserCloses, channelVars
  <2> QED
    BY <1>1, <2>1, <2>2, <2>3
<1>6. CASE UNCHANGED vars
  BY <1>1, <1>6 DEF vars, channelVars, transportVars, sendVars, walletVars
<1> QED
  BY <1>4, <1>5, <1>6 DEF Next

-----------------------------------------------------------------------------
(* The theorems.                                                           *)

\* Every step keeps the strengthening.
LEMMA NextIInv == IInv /\ [Next]_vars => IInv'
  BY TypeStep, SettledStep, TidyStep, MailStep, PostStep DEF IInv

\* So it holds in every state, whatever the wallet and the user do.
LEMMA IInvAlways == Spec => []IInv
  BY InitIInv, NextIInv, PTL DEF Spec

\* The two transports and the channel keep their types.
THEOREM TypeCorrect == Spec => []TypeOK
<1>1. IInv => TypeOK
  BY DEF IInv
<1> QED
  BY <1>1, IInvAlways, PTL

\* Unless connect calls overlap, no attempt leaves a handler, an interval or
\* a window to the next, and no message is given to the application twice:
\* cleanupResources undoes what its attempt set up.
THEOREM TidyCorrect == Spec => []NoLeftovers
<1>1. IInv => NoLeftovers
  BY DEF IInv, AloneIsTidy, MailIsSingle, NoLeftovers
<1> QED
  BY <1>1, IInvAlways, PTL

\* A message arrives at most once, and only of a send that was resolved,
\* however often send was tried.
THEOREM SendCorrect == Spec => []SendIsExact
<1>1. ASSUME IInv PROVE SendIsExact
  <2>1. toWallet \in Seq([to : 1..opened, data : Request])
    BY <1>1 DEF IInv, TypeOK, ChannelTypeOK
  <2>2. DOMAIN toWallet = 1..Len(toWallet)
    BY <2>1
  <2> QED
    BY <1>1, <2>2 DEF IInv, PostIsSingle, SendIsExact
<1> QED
  BY <1>1, IInvAlways, PTL

\* No timer and no handler of another attempt ends a connection: when the
\* transport is connected every attempt was told, and its timer cleared.
THEOREM EndsCorrect == Spec => EndsForAReason
<1>1. ASSUME IInv, [Next]_vars, connected, ~connected'
      PROVE  popup \notin windows \/ Disconnect \/ Destroy
  <2>1. \A c \in Call : pc[c] # "waiting"
    BY <1>1 DEF IInv, ConnectedIsSettled
  <2>2. CASE TransportStep
    <3>1. ASSUME NEW c \in Call, Connect(c) \/ RetryConnect(c) PROVE FALSE
      BY <1>1, <3>1 DEF Connect, RetryConnect, Attempt, AttemptConnected, AttemptOpens,
         AttemptBlocked
    <3>2. ASSUME NEW c \in Call, Timeout(c) PROVE FALSE
      BY <2>1, <3>2 DEF Timeout
    <3>3. ASSUME ReceiveMessage PROVE FALSE
      BY <1>1, <3>3 DEF ReceiveMessage, HandleConnected
    <3>4. ASSUME NEW s \in Request, Send(s) \/ RetrySend(s) PROVE FALSE
      BY <1>1, <3>4 DEF Send, RetrySend, connectVars
    <3> QED
      BY <2>2, <3>1, <3>2, <3>3, <3>4 DEF TransportStep, PopupClosed
  <2>3. ASSUME UNCHANGED connected PROVE FALSE
    BY <1>1, <2>3
  <2> QED
    BY <1>1, <2>2, <2>3 DEF Next, AppStep, vars, transportVars, connectVars
<1>2. IInv /\ [Next]_vars => [connected /\ ~connected' => \/ popup \notin windows
                                                         \/ Disconnect \/ Destroy]_vars
  BY <1>1
<1> QED
  BY <1>2, IInvAlways, PTL DEF Spec, EndsForAReason

-----------------------------------------------------------------------------
(* Attempts end.                                                           *)

\* Call c makes its attempt number n, or sleeps before it.
Waits(c, n)  == pc[c] = "waiting" /\ attempt[c] = n
Sleeps(c, n) == pc[c] = "sleeping" /\ attempt[c] = n

\* The attempt was the last: the call is settled, or comes to the next one.
Over(c, n) == ~Pending(c) \/ (n < ConnectRetries /\ Sleeps(c, n + 1))

\* A rejected attempt is over.
LEMMA RejectIsOver ==
  ASSUME IInv, NEW c \in Call, NEW n \in Nat, attempt[c] = n, Reject(c)
  PROVE  Over(c, n)'
<1>1. /\ pc \in [Call -> {"idle", "waiting", "sleeping", "resolved", "rejected"}]
      /\ attempt \in [Call -> 0..ConnectRetries]
  BY DEF IInv, TypeOK, TransportTypeOK
<1> QED
  BY <1>1 DEF Reject, Over, Pending, Sleeps

\* A retry waits for a window, is told of a connection, or is over at once.
LEMMA RetryIsOver ==
  ASSUME IInv, NEW c \in Call, NEW n \in Nat, attempt[c] = n, Attempt(c)
  PROVE  Waits(c, n)' \/ Over(c, n)'
<1>1. pc \in [Call -> {"idle", "waiting", "sleeping", "resolved", "rejected"}]
  BY DEF IInv, TypeOK, TransportTypeOK
<1>2. CASE AttemptConnected(c)
  BY <1>1, <1>2 DEF AttemptConnected, Over, Pending
<1>3. CASE AttemptOpens(c)
  BY <1>1, <1>3 DEF AttemptOpens, Waits
<1>4. CASE AttemptBlocked(c)
  BY <1>4, RejectIsOver DEF AttemptBlocked
<1> QED
  BY <1>2, <1>3, <1>4 DEF Attempt

\* What a step does to a call that is pending: it goes on as it was, or its own
\* timer or sleep ends, or a connection of the page settles it.
LEMMA PendingStep ==
  ASSUME IInv, [Next]_vars, NEW c \in Call, NEW n \in Nat
  PROVE  /\ Waits(c, n) => Waits(c, n)' \/ Over(c, n)'
         /\ Sleeps(c, n) => Sleeps(c, n)' \/ Waits(c, n)' \/ Over(c, n)'
<1> DEFINE Still == pc'[c] = pc[c] /\ attempt'[c] = attempt[c]
<1> SUFFICES ASSUME attempt[c] = n, pc[c] \in {"waiting", "sleeping"}
             PROVE  \/ Still \/ Over(c, n)' \/ (pc[c] = "sleeping" /\ Waits(c, n)')
  BY DEF Waits, Sleeps
<1>0. /\ pc \in [Call -> {"idle", "waiting", "sleeping", "resolved", "rejected"}]
      /\ attempt \in [Call -> 0..ConnectRetries]
  BY DEF IInv, TypeOK, TransportTypeOK
<1>1. CASE UNCHANGED connectVars
  BY <1>1 DEF connectVars
<1>2. ASSUME NEW d \in Call, d # c, Reject(d) PROVE Still
  BY <1>0, <1>2 DEF Reject
<1>3. ASSUME NEW d \in Call, d # c, Attempt(d) PROVE Still
  BY <1>0, <1>2, <1>3 DEF Attempt, AttemptConnected, AttemptOpens, AttemptBlocked
<1>4. ASSUME NEW d \in Call, Connect(d) PROVE Still
  BY <1>3, <1>4 DEF Connect
<1>5. ASSUME NEW d \in Call, RetryConnect(d)
      PROVE  \/ Still \/ Over(c, n)' \/ (pc[c] = "sleeping" /\ Waits(c, n)')
  BY <1>3, <1>5, RetryIsOver DEF RetryConnect
<1>6. ASSUME NEW d \in Call, Timeout(d) PROVE Still \/ Over(c, n)'
  BY <1>2, <1>6, RejectIsOver DEF Timeout
<1>7. CASE ReceiveMessage
  BY <1>0, <1>7 DEF ReceiveMessage, HandleConnected, Over, Pending
<1>8. CASE PopupClosed \/ Disconnect \/ Destroy
  BY <1>8 DEF PopupClosed, Disconnect, Destroy
<1> QED
  BY <1>1, <1>4, <1>5, <1>6, <1>7, <1>8, SendsAndWallet DEF Next, AppStep, TransportStep

\* Attempt number n ends, whatever the wallet and the user do.
AttemptEnds(c, n) == Waits(c, n) \/ Sleeps(c, n) ~> Over(c, n)

\* So does every attempt of every call, also of calls that overlap.
THEOREM AttemptsEnd == ASSUME NEW c \in Call, NEW n \in Nat PROVE Spec => AttemptEnds(c, n)
<1>1. Spec => TimerFires(c) /\ SleepEnds(c)
  BY DEF Spec, Fairness
<1>2. TimerFires(c) => []<>(pc[c] # "waiting") \/ []<><<AppTimeout(c)>>_vars
  BY DEF TimerFires
<1>3. SleepEnds(c) => []<>(pc[c] # "sleeping") \/ []<><<AppRetry(c)>>_vars
  BY DEF SleepEnds
<1>4. IInv /\ Waits(c, n) /\ [Next]_vars => Waits(c, n)' \/ Over(c, n)'
  BY PendingStep
<1>5. IInv /\ Sleeps(c, n) /\ [Next]_vars => Sleeps(c, n)' \/ Waits(c, n)' \/ Over(c, n)'
  BY PendingStep
<1>6. IInv /\ Waits(c, n) /\ AppTimeout(c) => Over(c, n)'
  BY RejectIsOver DEF AppTimeout, Timeout, Waits
<1>7. IInv /\ Sleeps(c, n) /\ AppRetry(c) => Waits(c, n)' \/ Over(c, n)'
  BY RetryIsOver DEF AppRetry, RetryConnect, Sleeps
<1>8. (Waits(c, n) => ~(pc[c] # "waiting")) /\ (Sleeps(c, n) => ~(pc[c] # "sleeping"))
  BY DEF Waits, Sleeps
<1>9. Spec => [][Next]_vars
  BY DEF Spec
<1> QED
  BY <1>1, <1>2, <1>3, <1>4, <1>5, <1>6, <1>7, <1>8, <1>9, IInvAlways, PTL DEF AttemptEnds

\* Every connect call is settled, whatever the wallet and the user do.  The
\* attempts are counted one at a time, and that is written out here up to the
\* three retries that the transport makes.
THEOREM LivenessCorrect == ASSUME ConnectRetries \in 0..3 PROVE Spec => ConnectSettles
<1> SUFFICES ASSUME NEW c \in Call PROVE Spec => (Pending(c) ~> ~Pending(c))
  BY DEF ConnectSettles
<1>1. Spec => /\ AttemptEnds(c, 0) /\ AttemptEnds(c, 1)
              /\ AttemptEnds(c, 2) /\ AttemptEnds(c, 3)
  BY AttemptsEnd
<1>2. /\ AttemptEnds(c, 0) => (Waits(c, 0) \/ Sleeps(c, 0) ~> Over(c, 0))
      /\ AttemptEnds(c, 1) => (Waits(c, 1) \/ Sleeps(c, 1) ~> Over(c, 1))
      /\ AttemptEnds(c, 2) => (Waits(c, 2) \/ Sleeps(c, 2) ~> Over(c, 2))
      /\ AttemptEnds(c, 3) => (Waits(c, 3) \/ Sleeps(c, 3) ~> Over(c, 3))
  BY DEF AttemptEnds
<1>3. /\ Over(c, 0) => ~Pending(c) \/ Sleeps(c, 1)
      /\ Over(c, 1) => ~Pending(c) \/ Sleeps(c, 2)
      /\ Over(c, 2) => ~Pending(c) \/ Sleeps(c, 3)
      /\ Over(c, 3) => ~Pending(c)
  BY DEF Over
<1>4. IInv /\ Pending(c) => \/ Waits(c, 0) \/ Sleeps(c, 0)
                           \/ Waits(c, 1) \/ Sleeps(c, 1)
                           \/ Waits(c, 2) \/ Sleeps(c, 2)
                           \/ Waits(c, 3) \/ Sleeps(c, 3)
  BY DEF IInv, TypeOK, TransportTypeOK, Pending, Waits, Sleeps
<1> QED
  BY <1>1, <1>2, <1>3, <1>4, IInvAlways, PTL
=============================================================================
