--------------------------- MODULE MCModalClient ----------------------------
EXTENDS ModalClient, TLC

CONSTANTS w1, w2, s1, s2, s3, c1, c2

\* Wallets, session ids and calls are alike, and no property is a liveness one.
Alike == Permutations(Wallet) \cup Permutations(Session) \cup Permutations(Call)
=============================================================================
