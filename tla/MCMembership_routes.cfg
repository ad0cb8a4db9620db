\* One user, two calls, two claims, one wallet request, one event from outside.
SPECIFICATION Spec
CONSTANTS
    u1 = u1
    a1 = a1
    a2 = a2
    k1 = k1
    k2 = k2
    p1 = p1
    p2 = p2
    Users = {u1}
    Calls = {a1, a2}
    Claims = {k1, k2}
    Provisions = {p1}
    Roles = {"owner", "viewer"}
    MaxWallets = 1
    MaxOutside = 1
    MaxFaults = 1
CHECK_DEADLOCK FALSE
INVARIANTS
    DriftIsExplained
    GrantsAreSigned
    InviteAdmitsOnce
SYMMETRY Alike
