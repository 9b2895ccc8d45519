\* A resolution after a fetch.
SPECIFICATION Spec
CONSTANTS
    all = all
    lap = lap
    os = os
    m1 = m1
    m2 = m2
    v1 = v1
    v2 = v2
    Machines = {m1, m2}
    Scopes <- TwoScopes
    Founded <- TwoScopes
    FoundedOn <- TwoParents
    Names <- TwoNames
    NoScope = NoScope
    Paths = {p1}
    Files = {v1, v2}
    Absent = Absent
    Gone = Gone
    Commands = {"sync", "commit", "continue"}
    MaxEdits = 4
    MaxAnswers = 1
    MaxFailures = 0
    MaxRuns = 1
CHECK_DEADLOCK TRUE
PROPERTIES ResolutionBuildsOnPublished
ACTION_CONSTRAINT OnlyExchangesInterleave
SYMMETRY ContentsAreAlike
