SPECIFICATION Spec
CONSTANTS
    root = root
    alice = alice
    g1 = g1
    Users = {root, alice}
    Workers = {root}
    Secrets = {s1}
    Grants = {g2}
    Subject <- MCSubject
    Values = {v1}
    MaxCounter = 3
    Genesis <- MCGenesis
    MaxCommits = 2
    NoSession = NoSession
CHECK_DEADLOCK FALSE
INVARIANTS
    TypeOK
    ShownNotBelowMemory
    WriteTakesEffect
PROPERTIES
    CommitsAdvanceMemory
