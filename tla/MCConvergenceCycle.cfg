\* Scopes created and deleted across each other: the graph gets a cycle.
SPECIFICATION Spec
CONSTANTS
    all = all
    lap = lap
    os = os
    m1 = m1
    m2 = m2
    v1 = v1
    v2 = v2
    Machines = {m1, m2}
    Scopes <- LapScopes
    Founded <- TwoScopes
    FoundedOn <- TwoParents
    Names <- LapNames
    NoScope = NoScope
    Paths = {p1}
    Files = {v1}
    Absent = Absent
    Gone = Gone
    Commands = {"read", "create", "delete", "join"}
    MaxEdits = 3
    MaxAnswers = 0
    MaxFailures = 0
    MaxRuns = 2
CHECK_DEADLOCK TRUE
INVARIANTS GraphIsADag
