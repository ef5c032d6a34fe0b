---------------------------- MODULE MCDiscovery -----------------------------
EXTENDS Discovery, TLC

CONSTANTS w1, w2, w3, d1, d2, good, other, poor

\* w1 and w2 are in the page and use one name; w3 is an extension.
TwoUnderOneName == (w1 :> d1) @@ (w2 :> d1) @@ (w3 :> d2)

AllGood == [r \in Responder |-> good]
=============================================================================
