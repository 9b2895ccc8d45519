----------------------------- MODULE HomeReport -----------------------------
(* What status, diff, discard and commit say about home: one state per      *)
(* path, read off the mark, the working-copy commit, the head and the merge *)
(* of the three that a sync would write (sync.rs, drift.rs).                *)
EXTENDS Home

CONSTANT Links      \* the files that are symlinks

ASSUME LinksAreFiles == Links \subseteq Files

D == INSTANCE Drift

StateOf(p) == D!Classify(wcMark.tree[p], wcTree[p], head.tree[p],
                         MergeWithHead[p] # Conflict)

(* The states of a path a sync stops at. *)
StopsSync == {"DivergedEdit", "DeletedInHomeTipAlsoChanged",
              "EditedInHomeButRemovedFromRepo",
              "IncomingNewCollidesWithUntrackedHome"}

-----------------------------------------------------------------------------
(* Nothing can call a path conflicted that the sync then merges, nor the    *)
(* other way round: the classification and the merge agree at every path,   *)
(* whatever was interrupted before (drift.rs, classify).                    *)
ReportForetellsSync ==
    \A p \in Paths : StateOf(p) \in StopsSync <=> MergeWithHead[p] = Conflict

(* A report names the user's changes, all of them, and only them.  What it  *)
(* calls a local change the user made, or an interrupted delivery left      *)
(* there; and what the user put at a path, different from the mark and from *)
(* the head, it calls a local change, unless dotsync does not manage the    *)
(* path at all (drift.rs, is_drift; status.rs).                             *)
ReportNamesTheUsersChanges ==
    phase = "observed" =>
        \A p \in Paths :
            /\ StateOf(p) \in D!LocalChanges => p \in touched \cup torn
            /\ (/\ p \in probe \ raced
                /\ disk[p] \notin {wcMark.tree[p], head.tree[p]}
                /\ {wcMark.tree[p], head.tree[p]} # {Absent})
               => StateOf(p) \in D!LocalChanges

(* What a run reports as carried or discarded, before it writes, is what is *)
(* true afterwards: once the switch is recorded nothing is incoming, no     *)
(* path has become a local change, and none is left where the command took  *)
(* the head's side (sync.rs, sync_home_to_machine_scope).                   *)
SwitchLeavesWhatWasReported ==
    [][RecordSwitch =>
          \A p \in Paths :
              /\ StateOf(p)' \notin D!IncomingChanges
              /\ StateOf(p)' \in D!LocalChanges =>
                    p \notin waived /\ StateOf(p) \in D!LocalChanges]_vars
=============================================================================
