----------------------------- MODULE MCRpcProxy -----------------------------
EXTENDS RpcProxy, TLC

CONSTANTS f1, f2, f3, i1, i2, i3

\* The router draws the id of every inner request with crypto.randomUUID().
UniqueIds == (f1 :> i1) @@ (f2 :> i2) @@ (f3 :> i3)
=============================================================================
