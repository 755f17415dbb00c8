CONSTANTS
    r1 = r1
    r2 = r2
    c1 = c1
    c2 = c2
    f1 = f1
    f2 = f2
    Job <- MCJob
    AttemptLimit = 2
    Run <- MCRun
    Callback <- MCCallback
    Form <- MCOneForm
    CreatedAt <- MCCreatedAt
    Id <- MCId
    MicrosPerMilli = 10
    MaxChanges = 1
    MaxResets = 1
SYMMETRY Symmetry
SPECIFICATION MCSpec
CHECK_DEADLOCK FALSE
INVARIANTS
    TypeOK
    NewestJobWins
    SilentOnlyForCause
    OneLoginPerLink
PROPERTIES
    LinksAreOneTime
