\* One address, registered before or by a call, two calls, four blocks.
SPECIFICATION Spec
CONSTANTS
    a1 = a1
    c1 = c1
    c2 = c2
    Agents = {a1}
    Calls = {c1, c2}
    Caps = {0, 1, 2}
    MaxBlocks = 4
    MaxFaults = 1
CHECK_DEADLOCK FALSE
INVARIANTS
    TypeOK
    SnapshotsAreTrue
    ChangesAreSigned
    RegistrationsAreWhole
    LoweringIsRaced
SYMMETRY Alike
