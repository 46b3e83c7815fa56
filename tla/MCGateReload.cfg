CONSTANTS
    w1 = w1
    w2 = w2
    p1 = p1
    NoPayment = NoPayment
    Worker <- Workers
    Payment <- Payments
    Timeout <- ZeroOrOne
    Reloads <- SetOrUnset
    PreimageTtl = 2
    CacheCap = 0
    MaxRestarts = 1
    MaxStall = 1
    Horizon = 5
SPECIFICATION Spec
INVARIANTS
    MarkerOutlivesMacaroon
