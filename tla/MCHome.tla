------------------------------- MODULE MCHome -------------------------------
(* Small instances of Home.  Two line merges: one in which no two different *)
(* changes to a file ever combine, and one over a file of two lines, where  *)
(* changes to different lines do.                                           *)
EXTENDS HomeReport, TLC

CONSTANTS f00, f01, f10, f11

NeverCombines(ours, base, theirs) == Conflict

(* f00 is the file as first written, f01 and f10 each change one line of    *)
(* it, and f11 changes both.                                                *)
CombinesLines(ours, base, theirs) ==
    IF base = f00 /\ {ours, theirs} = {f01, f10} THEN f11
    ELSE IF base = f11 /\ {ours, theirs} = {f01, f10} THEN f00
    ELSE Conflict

TwoFiles == {f00, f01}
AllFiles == {f00, f01, f10, f11}
NoLinks  == {}
OneLink  == {f01}

(* The user writes between two runs, not beside one. *)
EditsBetweenRuns == phase # "idle" => edits' = edits

MCPaths == Permutations(Paths)
=============================================================================
