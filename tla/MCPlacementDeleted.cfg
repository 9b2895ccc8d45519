\* A move to a scope that another machine has deleted and this one has moved.
SPECIFICATION PlacementSpec
CONSTANTS
    all = all
    lap = lap
    os = os
    m1 = m1
    m2 = m2
    v1 = v1
    v2 = v2
    work = work
    Machines = {m1, m2}
    Scopes <- LapScopes
    Founded <- LapScopes
    FoundedOn <- LapParents
    Names <- LapNames
    NoScope = NoScope
    Paths = {p1}
    Files = {v1}
    Absent = Absent
    Gone = Gone
    Commands = {"commit", "delete", "move"}
    MaxEdits = 3
    MaxAnswers = 0
    MaxFailures = 1
    MaxRuns = 1
CHECK_DEADLOCK FALSE
PROPERTIES MovedVersionIsHeld
ACTION_CONSTRAINT OnlyExchangesInterleave OwnScopesStay
