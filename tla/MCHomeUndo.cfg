\* A file taken back after a run that recorded a switch died: the repair undoes it.
SPECIFICATION Spec
CONSTANTS
    Paths = {p1}
    f00 = f00
    f01 = f01
    f10 = f10
    f11 = f11
    Files <- TwoFiles
    Links <- NoLinks
    Absent = Absent
    Irregular = Irregular
    Conflict = Conflict
    Combine <- NeverCombines
    MaxHeads = 1
    MaxEdits = 2
    MaxFailures = 1
PROPERTIES RepairCarriesEdits
ACTION_CONSTRAINT EditsBetweenRuns
