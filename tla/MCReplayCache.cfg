CONSTANTS
    k1 = k1
    k2 = k2
    k3 = k3
    k4 = k4
    Key <- MCKey
    Caps <- MCCaps
SPECIFICATION Spec
INVARIANTS
    SetMatchesDeque
    ForgottenOnlyAfterCapOthers
