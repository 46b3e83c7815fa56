CONSTANTS
    w1 = w1
    w2 = w2
    t1 = t1
    t2 = t2
    alice = alice
    bob = bob
    Default = Default
    None = None
    Worker <- Workers
    Token <- Tokens
    Tenant <- Tenants
    Deployments <- Calm
SPECIFICATION FairSpec
PROPERTIES
    HeldIsRedeemed
    SpentMappingsSwept
