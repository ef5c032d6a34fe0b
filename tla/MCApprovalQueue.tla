--------------------------- MODULE MCApprovalQueue --------------------------
EXTENDS ApprovalQueue, TLC

CONSTANTS r1, r2, r3, r4, i1, i2, i3, i4

\* Ids from crypto.randomUUID(): all different.
UniqueIds == (r1 :> i1) @@ (r2 :> i2) @@ (r3 :> i3) @@ (r4 :> i4)

\* A dApp that numbers its requests and starts again: r2 and r3 share an id.
ReusedIds == (r1 :> i1) @@ (r2 :> i2) @@ (r3 :> i2) @@ (r4 :> i4)
=============================================================================
