\* One path and a line merge that combines; liveness, so no symmetry.
SPECIFICATION Spec
CONSTANTS
    Paths = {p1}
    f00 = f00
    f01 = f01
    f10 = f10
    f11 = f11
    Files <- AllFiles
    Links <- NoLinks
    Absent = Absent
    Irregular = Irregular
    Conflict = Conflict
    Combine <- CombinesLines
    MaxHeads = 2
    MaxEdits = 1
    MaxFailures = 1
INVARIANTS ReportForetellsSync ReportNamesTheUsersChanges
PROPERTIES CatchesUp KeepsEdits
