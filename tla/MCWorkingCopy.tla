--------------------------- MODULE MCWorkingCopy ---------------------------
(* A small home for WorkingCopy and Selection: one name that can be an      *)
(* entry or a folder of two, and a folder links lead to, with the same      *)
(* names in it.                                                             *)
EXTENDS Selection, TLC

CONSTANTS d, e, f, g, v1, v2

MCPaths  == {<<d>>, <<d, f>>, <<d, g>>}
MCTarget == <<e>>
MCPlaces == MCPaths \cup {<<e>>, <<e, f>>, <<e, g>>}

(* The user leaves what the links lead to alone. *)
TargetIsLeftAlone == edits' = edits \/ \A p \in AtOrBelow(Target) : disk'[p] = disk[p]

(* status writes nothing in home: with no run after it there is nothing of  *)
(* it to see.                                                               *)
StatusIsFollowed == cmd' = "status" => runs' < MaxRuns

(* No step tells one file from another, or one name in a folder.            *)
FilesAndNamesAreAlike == Permutations(Files) \cup Permutations({f, g})
=============================================================================
