\* Two contents at two paths: how paths interact through one run.
SPECIFICATION Spec
CONSTANTS
    Paths = {p1, p2}
    f00 = f00
    f01 = f01
    f10 = f10
    f11 = f11
    Files <- TwoFiles
    Links <- OneLink
    Absent = Absent
    Irregular = Irregular
    Conflict = Conflict
    Combine <- NeverCombines
    MaxHeads = 2
    MaxEdits = 1
    MaxFailures = 1
SYMMETRY MCPaths
INVARIANTS TypeOK HomeFollowsMark WcCommitIsHome
PROPERTIES KeepsEdits AbortRestoresHome SwitchLeavesWhatWasReported
