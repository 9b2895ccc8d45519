\* A status of a folder, and then another run.
SPECIFICATION Spec
CONSTANTS
    d = d
    e = e
    f = f
    g = g
    v1 = v1
    v2 = v2
    Names = {d, e, f, g}
    Places <- MCPlaces
    Paths <- MCPaths
    Files = {v1, v2}
    Link = Link
    Target <- MCTarget
    Absent = Absent
    Folder = Folder
    Conflict = Conflict
    MaxEdits = 0
    MaxRuns = 2
CHECK_DEADLOCK FALSE
PROPERTIES UntrackedIsLeftAlone
ACTION_CONSTRAINTS TargetIsLeftAlone StatusIsFollowed
SYMMETRY FilesAndNamesAreAlike
