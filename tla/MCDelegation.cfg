SPECIFICATION DelegationSpec
CONSTANTS
    Segments <- MCSegments
    Tuples <- MCTuples
    LabelKeys = {env}
    LabelValues = {prod, dev}
    NoLabel = NoLabel
    env = env
    manager = manager
    delegate = delegate
    Holders = {manager, delegate}
    Starts <- MCStartsWithRoot
    MaxGrants <- MCMaxGrants
CHECK_DEADLOCK FALSE
INVARIANTS
    DelegationTypeOK
    NoAmplification
    GranterCanExercise
