--------------------------- MODULE MCWalletRouter ---------------------------
EXTENDS WalletRouter

CONSTANTS r1, r2, s1, s2, s3, ch1, ch2
=============================================================================
