SPECIFICATION Spec
CONSTANTS
    p1 = p1
    p2 = p2
    w1 = w1
    w2 = w2
    Procs = {p1, p2}
    Workspaces = {w1, w2}
    WorkspaceOf <- Apart
    Keys = {k1, k2}
    MaxCounter = 1
    Writers = {w1}
    broken = broken
    noone = noone
    Images <- MCImages
    Genesis <- MCGenesis
    Watermarks <- MCWatermarks
    Clean <- MCClean
    Successors <- MCSuccessors
    MaxEdits = 1
    MaxCrashes = 1
    NoProc = NoProc
    NoJournal = NoJournal
    NoSession = NoSession
CHECK_DEADLOCK FALSE
INVARIANTS
    TypeOK
    RatchetRecoverable
    AckedRemembered
PROPERTIES
    TrustMonotone
    VaultCovered
    AtomicSpec
