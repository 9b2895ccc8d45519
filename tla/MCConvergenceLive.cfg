\* One commit or deletion and one failure; every machine goes on syncing.
SPECIFICATION Spec
CONSTANTS
    all = all
    lap = lap
    os = os
    m1 = m1
    m2 = m2
    v1 = v1
    v2 = v2
    Machines = {m1, m2}
    Scopes <- TwoScopes
    Founded <- TwoScopes
    FoundedOn <- TwoParents
    Names <- TwoNames
    NoScope = NoScope
    Paths = {p1}
    Files = {v1, v2}
    Absent = Absent
    Gone = Gone
    Commands = {"sync", "commit", "delete"}
    MaxEdits = 1
    MaxAnswers = 0
    MaxFailures = 1
    MaxRuns = 2
CHECK_DEADLOCK TRUE
INVARIANTS HeadsHoldWhatWasPublished NothingUnpublishedReadsClean
PROPERTIES FleetSettles RemoteGrows
