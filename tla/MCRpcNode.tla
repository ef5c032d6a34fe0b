----------------------------- MODULE MCRpcNode ------------------------------
(* Two nodes of one connection; the wallet and the dapp call each other.   *)
EXTENDS RpcNode, TLC

CONSTANTS dapp, wallet, c1, c2

\* Both calls go from the dapp to the wallet: they share one pending table.
SameCaller == [c \in {c1, c2} |-> dapp]

PeerOf == (dapp :> wallet) @@ (wallet :> dapp)
=============================================================================
