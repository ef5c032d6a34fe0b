--------------------------- MODULE WindowChannel ----------------------------
(***************************************************************************)
(* What the browser gives the two transports of a popup connection: the    *)
(* windows opened with window.open and the message events that postMessage *)
(* puts in the queue of the other side.  A window is the number of the     *)
(* window.open call it came from.  Messages of one sender keep their       *)
(* order; nothing a closed window or an unloaded page would have received  *)
(* is kept for it.                                                         *)
(***************************************************************************)
EXTENDS Naturals, Sequences, SequencesExt

CONSTANTS Message,     \* messages the wallet's application sends
          Request,     \* messages the dApp's application sends
          MaxMail      \* bound on the messages under way to the dApp

ASSUME ChannelAssumption == /\ Message \cap Request = {}
                            /\ "ready" \notin Message
                            /\ MaxMail \in Nat \ {0}

VARIABLES
  opened,    \* number of windows opened so far
  windows,   \* the windows among them that are open
  toApp,     \* message events under way to the dApp's page
  toWallet   \* message events under way to popup windows

channelVars == <<opened, windows, toApp, toWallet>>

ChannelInit == /\ opened = 0 /\ windows = {}
               /\ toApp = <<>> /\ toWallet = <<>>

ChannelTypeOK == /\ opened \in Nat /\ windows \subseteq 1..opened
                 /\ toApp \in Seq([from : 1..opened, data : Message \cup {"ready"}])
                 /\ toWallet \in Seq([to : 1..opened, data : Request])

\* postMessage from window w to its opener.
PostToApp(w, data) == /\ Len(toApp) < MaxMail
                      /\ toApp' = Append(toApp, [from |-> w, data |-> data])

\* toWallet[i] is the next message event of window w.
IsNextFor(i, w) == /\ toWallet[i].to = w
                   /\ \A j \in 1..(i - 1) : toWallet[j].to # w
=============================================================================
