\* Commits that collide, resolved or aborted, beside creations and deletions.
SPECIFICATION Spec
CONSTANTS
    all = all
    lap = lap
    os = os
    m1 = m1
    m2 = m2
    v1 = v1
    v2 = v2
    Machines = {m1, m2}
    Scopes <- LapScopes
    Founded <- TwoScopes
    FoundedOn <- TwoParents
    Names <- LapNames
    NoScope = NoScope
    Paths = {p1}
    Files = {v1, v2}
    Absent = Absent
    Gone = Gone
    Commands = {"read", "sync", "commit", "create", "delete", "join", "continue", "abort"}
    MaxEdits = 2
    MaxAnswers = 2
    MaxFailures = 0
    MaxRuns = 2
CHECK_DEADLOCK TRUE
INVARIANTS HeadsHoldWhatWasPublished NothingStaleReturns
PROPERTIES RemoteGrows DeletionStands PassReachesScopes
ACTION_CONSTRAINT OnlyExchangesInterleave
SYMMETRY ContentsAreAlike
