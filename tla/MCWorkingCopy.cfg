\* One name, an entry or a folder of two; an edit, a failure, a second run.
SPECIFICATION Spec
CONSTANTS
    d = d
    e = e
    f = f
    g = g
    v1 = v1
    v2 = v2
    Names = {d, e, f, g}
    Places <- MCPlaces
    Paths <- MCPaths
    Files = {v1, v2}
    Link = Link
    Target <- MCTarget
    Absent = Absent
    Folder = Folder
    Conflict = Conflict
    MaxEdits = 1
    MaxRuns = 2
CHECK_DEADLOCK FALSE
INVARIANTS TypeOK HomeHoldsTheGoal CommitTakesWhatItIsAsked FolderIsWhatIsUnderIt
PROPERTIES OnlyAFileForAFolderFails TouchesOnlyItsPaths EachSideKeepsItsChanges TakesUpWhatWasLeft DeliversPathByPath
ACTION_CONSTRAINTS TargetIsLeftAlone StatusIsFollowed
SYMMETRY FilesAndNamesAreAlike
