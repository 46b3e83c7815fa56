CONSTANTS
    w1 = w1
    w2 = w2
    p1 = p1
    NoPayment = NoPayment
    Worker <- Workers
    Payment <- Payments
    Timeout <- Lifetimes
    Reloads <- ChangeOnly
    PreimageTtl = 4
    CacheCap = 0
    MaxRestarts = 1
    MaxStall = 1
    Horizon = 5
SPECIFICATION FairSpec
INVARIANTS
    AtMostOnce
    MarkerOutlivesMacaroon
    RefusedOnlyIfUsed
    OncePerWorkerLife
PROPERTIES
    PaidEventuallyAdmitted
    ImplementsAdmitOnce
