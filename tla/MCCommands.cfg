SPECIFICATION Spec
CONSTANTS
    A = A
    B = B
    C = C
    D = D
    g = g
    h = h
    gB = gB
    gg = gg
    gC = gC
    g1 = g1
    bob = bob
    prod = prod
    m1 = m1
    m2 = m2
    keyA = keyA
    keyB = keyB
    keyC = keyC
    None = None
    NoLabel = NoLabel
    Segments <- MCSegments
    Tuples <- MCTuples
    LabelKeys = {}
    LabelValues = {}
    Users <- MCUsers
    rootUser = A
    Groups <- MCGroups
    Grants <- MCGrants
    UserHandles = {bob}
    VaultHandles = {prod}
    KeyOf <- MCKeyOf
    Rank <- MCRank
    MaxRounds = 8
    Machines = {m1, m2}
    Holds <- MCHolds
    Scenarios <- MCScenarios
    Fields = {"f"}
    EnvSegment <- MCEnvSegment
    MaxCounter = 9
    MaxCommits = 2
INVARIANTS
    TypeOK
    EffectiveNotBelowMemory
    RestoredHasNoOldAccess
PROPERTIES
    PublishedIsAdmitted
    ReadsNeverGoBack
CHECK_DEADLOCK FALSE
