--------------------------- MODULE MCPaymentRoute ---------------------------
\* Instances of PaymentRoute for TLC: payments apart, or one sent again.
EXTENDS PaymentRouteProperties, TLC

CONSTANTS c1, c2

Apart == [c \in Calls |-> c]
Again == [c \in Calls |-> c1]
Alike == Permutations(Calls)
=============================================================================
