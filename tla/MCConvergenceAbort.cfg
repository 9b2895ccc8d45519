\* An abort after a fetch: published history is taken back.
SPECIFICATION Spec
CONSTANTS
    all = all
    lap = lap
    os = os
    m1 = m1
    m2 = m2
    v1 = v1
    v2 = v2
    Machines = {m1, m2}
    Scopes <- TwoScopes
    Founded <- TwoScopes
    FoundedOn <- TwoParents
    Names <- TwoNames
    NoScope = NoScope
    Paths = {p1}
    Files = {v1, v2}
    Absent = Absent
    Gone = Gone
    Commands = {"sync", "commit", "abort"}
    MaxEdits = 2
    MaxAnswers = 0
    MaxFailures = 0
    MaxRuns = 2
CHECK_DEADLOCK TRUE
PROPERTIES PublishedIsNeverLost
ACTION_CONSTRAINT OnlyExchangesInterleave
SYMMETRY ContentsAreAlike
