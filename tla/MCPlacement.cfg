\* Commits, moves and drops of two machines race; no command is without bound.
SPECIFICATION PlacementSpec
CONSTANTS
    all = all
    lap = lap
    os = os
    m1 = m1
    m2 = m2
    v1 = v1
    v2 = v2
    work = work
    Machines = {m1, m2}
    Scopes <- FanScopes
    Founded <- FanScopes
    FoundedOn <- FanParents
    Names <- FanNames
    NoScope = NoScope
    Paths = {p1}
    Files = {v1, v2}
    Absent = Absent
    Gone = Gone
    Commands = {"commit", "move", "drop"}
    MaxEdits = 3
    MaxAnswers = 0
    MaxFailures = 0
    MaxRuns = 2
CHECK_DEADLOCK FALSE
INVARIANTS TypeOK HeadsHoldWhatWasPublished NothingStaleReturns
PROPERTIES PublishedScopesGrow PassReachesScopes PlacementKeepsOtherVersions
    PlacementReachesItsMachines TurnedDownForDisagreement CommitReachesItsMachines
ACTION_CONSTRAINT OnlyExchangesInterleave
SYMMETRY ContentsAreAlike
