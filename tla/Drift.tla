------------------------------- MODULE Drift -------------------------------
(* Where one path stands between the tree this machine last synced, home,   *)
(* and the head: the vocabulary of status, diff, commit's selection and the *)
(* home sync (drift.rs).                                                    *)
CONSTANTS
    Absent,     \* a path that holds nothing
    Conflict,   \* a path a contested head's two sides disagree at
    Links       \* the contents that are symlinks

LocalChanges ==
    {"EditedInHome", "KindDiffersFromScope", "EditedInHomeButRemovedFromRepo",
     "DeletedInHome", "DeletedInHomeTipAlsoChanged", "DivergedEdit",
     "DivergedEditThatMerges", "IncomingNewCollidesWithUntrackedHome"}

IncomingChanges ==
    {"IncomingNew", "StaleNotYours", "RemovedFromRepo", "AwaitingMerge"}

BlockingStates ==
    {"StaleNotYours", "IncomingNew", "RemovedFromRepo", "AwaitingMerge",
     "IncomingNewCollidesWithUntrackedHome"}

(* Which of the three sides moved, and then what is left where it moved;    *)
(* merges is what the sync's own merge says when home and the head both did *)
(* and to different contents.                                               *)
HomeUnmoved(last, tip) ==
    IF last = tip THEN IF tip = Absent THEN "AbsentEverywhere" ELSE "InSync"
    ELSE IF last = Absent THEN "IncomingNew"
    ELSE IF tip = Absent THEN "RemovedFromRepo"
    ELSE "StaleNotYours"

OnlyHomeMoved(last, home) ==
    IF home = Absent THEN "DeletedInHome"
    ELSE IF last = Absent THEN "UntrackedInHome"
    ELSE IF (last \in Links) # (home \in Links) THEN "KindDiffersFromScope"
    ELSE "EditedInHome"

BothMovedAlike(last, home) ==
    IF home = Absent THEN "RemovedEverywhere"
    ELSE IF last = Absent THEN "IncomingNewAlreadyMatchesHome"
    ELSE "AlreadyApplied"

BothMoved(last, home, tip, merges) ==
    IF home = Absent THEN "DeletedInHomeTipAlsoChanged"
    ELSE IF tip = Absent THEN "EditedInHomeButRemovedFromRepo"
    ELSE IF merges THEN "DivergedEditThatMerges"
    ELSE IF last = Absent THEN "IncomingNewCollidesWithUntrackedHome"
    ELSE "DivergedEdit"

(* mutant: home against the head alone, as if it were what was last synced *)
ClassifyTwoSided(last, home, tip, merges) ==
    IF home = tip THEN HomeUnmoved(tip, tip) ELSE OnlyHomeMoved(tip, home)

Classify(last, home, tip, merges) ==
    IF tip = Conflict THEN "AwaitingMerge"
    ELSE IF home = last THEN HomeUnmoved(last, tip)
    ELSE IF tip = last THEN OnlyHomeMoved(last, home)
    ELSE IF home = tip THEN BothMovedAlike(last, home)
    ELSE BothMoved(last, home, tip, merges)
=============================================================================
