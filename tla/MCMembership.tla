----------------------------- MODULE MCMembership -----------------------------
\* Instances of Membership for TLC.  Calls, claims and wallet requests are each
\* alike, so the runs without a temporal property take them up to symmetry.
EXTENDS MembershipProperties, TLC

CONSTANTS u1, a1, a2, k1, k2, p1, p2

Alike == UNION {Permutations(s) : s \in {Calls, Claims, Provisions}}
=============================================================================
