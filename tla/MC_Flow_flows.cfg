SPECIFICATION FairSpec
CONSTANTS
    f1 = f1
    k1 = k1
    k2 = k2
    k3 = k3
    Requests = {f1}
    Rotations = {k1, k2, k3}
    FirstKey = FirstKey
    NoKey = NoKey
INVARIANTS
    TypeOK
    KeyIsHeld
    RefetchHeals
    AppliedOnce
PROPERTIES
    RotationSettles
    FormsTakeEffect
CHECK_DEADLOCK FALSE
