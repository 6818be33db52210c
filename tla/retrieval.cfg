SPECIFICATION Spec
CONSTANTS
    n1 = n1
    n2 = n2
    o1 = o1
    t1 = t1
    t2 = t2
    Nodes <- TwoNodes
    Orgs <- OneOrg
    OrgOf <- OrgOfTwo
    Client <- TwoClients
    Consumer = consumer
    None = None
    Query <- QueryText
    Matches <- FirstTexts
    Seeded = {n2}
    CacheSize = 1
    Limit = 1
    MaxVersion = 2
    MaxChanges = 1
    MaxFaults = 1
    Durable = TRUE
SYMMETRY ClientSymmetry
INVARIANTS
    TypeOK
    VectorsMatchTexts
    IndexedOrgsAreCovered
    StalePointsAreExplained
    AgreedHitsFirst
CHECK_DEADLOCK FALSE
