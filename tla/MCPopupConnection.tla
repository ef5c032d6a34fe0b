------------------------- MODULE MCPopupConnection --------------------------
EXTENDS PopupConnection

CONSTANTS c1, c2, c3, m1, s1, s2
=============================================================================
