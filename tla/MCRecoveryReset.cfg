CONSTANTS
    r1 = r1
    r2 = r2
    c1 = c1
    c2 = c2
    f1 = f1
    f2 = f2
    Job <- MCJob
    AttemptLimit = 2
    Run <- MCRun
    Callback <- MCOneCallback
    Form <- MCForm
    CreatedAt <- MCCreatedAt
    Id <- MCId
    MicrosPerMilli = 10
    MaxChanges = 0
    MaxResets = 2
SYMMETRY Symmetry
SPECIFICATION Spec
CHECK_DEADLOCK FALSE
INVARIANTS
    OneResetPerLink
