CONSTANTS
    w1 = w1
    w2 = w2
    t1 = t1
    t2 = t2
    t3 = t3
    a = a
    b = b
    NoToken = NoToken
    Worker <- Workers
    Token <- Tokens
    Proof <- Proofs
    Deployments <- MCDeployments
    CacheCap = 3
    MaxRestarts = 1
    MaxLapses = 1
SPECIFICATION FairSpec
INVARIANTS
    EachProofPaysOnce
    SwappedNotRefused
    UsedIsExplained
    SpendableIsUnspent
    AdmittedIsPaid
PROPERTIES
    PresentedEventuallyAdmitted
