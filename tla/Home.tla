-------------------------------- MODULE Home --------------------------------
(***************************************************************************)
(* One machine's home: the files the user edits, the working-copy commit   *)
(* (a snapshot of home on top of the commit home was last moved to, the    *)
(* mark), and the state file beside the repository that says which tree    *)
(* home was last seen to hold.  The three are written by separate steps of *)
(* a run, the user may write a file between any two of them, and the run   *)
(* may die between any two of them; the next run has to work out from what *)
(* is left which changes are the user's.                                   *)
(*                                                                         *)
(* A tree is a function from paths to contents, and a commit carries its   *)
(* tree.  Where the machine scope's head comes from is the business of     *)
(* module Convergence: here it moves to an arbitrary new commit.           *)
(***************************************************************************)
EXTENDS Naturals

CONSTANTS
    Paths,              \* the managed paths
    Files,              \* what a path can hold: bytes, kind and executable bit
    Absent,             \* a path that holds nothing
    Irregular,          \* a fifo, socket or device: only ever found on disk
    Conflict,           \* what a merge holds at a path it could not resolve
    Combine(_, _, _),   \* the line merge of three different files, or Conflict
    MaxHeads,           \* bound: how many commits the head may move to
    MaxEdits,           \* bound: how many times the user writes a file
    MaxFailures         \* bound: how many runs die or stop short

Contents == Files \cup {Absent}
Trees    == [Paths -> Contents]
Commits  == [id : 0..MaxHeads, tree : Trees]

ASSUME ContentsDistinct ==
    /\ Absent \notin Files /\ Irregular \notin Files \cup {Absent}
    /\ Conflict \notin Files \cup {Absent, Irregular}
ASSUME CombineReturns ==
    \A ours, theirs \in Files, base \in Contents :
        Combine(ours, base, theirs) \in Files \cup {Conflict}
ASSUME BoundsAreNumbers ==
    MaxHeads \in Nat /\ MaxEdits \in Nat /\ MaxFailures \in Nat

Commands == {"read", "sync", "discard", "abort", "continue"}
Phases   == {"idle", "locked", "repairing", "ready", "observed", "writing",
             "stopping"}

EmptyTree  == [p \in Paths |-> Absent]
RootCommit == [id |-> 0, tree |-> EmptyTree]

VARIABLES
    disk,       \* what home holds
    wcTree,     \* the working-copy commit's tree
    wcMark,     \* its parent, the commit home was last moved to
    stTree,     \* the state file: the tree home was last seen to hold
    stMark,     \* the mark as of the operation the state file names
    head,       \* the machine scope's head
    heads,      \* every head there has been (abort returns to one)
    phase,      \* where the run on this machine stands
    cmd,        \* the command it runs
    tree,       \* the locked working copy's idea of what is on disk
    probe,      \* the paths the next snapshot reads
    goal,       \* the commit home is being written to match, and its tree
    todo,       \* the paths check_out has still to write
    waived,     \* the paths at which the command takes the head's side
    touched,    \* history: paths whose content the user wrote
    torn,       \* history: paths delivered ahead of the recorded mark
    raced,      \* history: paths the user wrote since the run last read home
    edits, failures

store    == <<wcTree, wcMark, stTree, stMark>>
run      == <<phase, cmd, tree, probe, goal, todo, waived>>
history  == <<touched, torn, raced>>
counters == <<edits, failures>>
vars     == <<disk, store, head, heads, run, history, counters>>

-----------------------------------------------------------------------------
(* Trees and their merge. *)

Managed(t) == {p \in Paths : t[p] # Absent}

(* jj's three-way merge of one entry: a side that did not move yields to    *)
(* the other, both sides moving alike is no conflict, a deletion against a  *)
(* change is one, and two changed or added files go to the line merge.      *)
MergeEntry(ours, base, theirs) ==
    IF theirs \in {base, ours} THEN ours
    ELSE IF ours = base THEN theirs
    ELSE IF Absent \in {ours, theirs} THEN Conflict
    ELSE Combine(ours, base, theirs)

MergeTrees(ours, base, theirs) ==
    [p \in Paths |-> MergeEntry(ours[p], base[p], theirs[p])]

Conflicted(t) == {p \in Paths : t[p] = Conflict}
Differ(s, t)  == {p \in Paths : s[p] # t[p]}

(* home as the run reads it: the probed paths from disk, the others as the  *)
(* run already believes them to be *)
SnapshotOf(paths) ==
    [p \in Paths |-> IF p \in paths THEN disk[p] ELSE tree[p]]
Readable(paths) == \A p \in paths : disk[p] # Irregular

(* merge(snapshot, mark, head): the one merge a run makes *)
MergeWithHead == MergeTrees(wcTree, wcMark.tree, head.tree)

-----------------------------------------------------------------------------
NoGoal == [mark |-> RootCommit, tree |-> EmptyTree]

RunEnds ==
    /\ phase' = "idle"       /\ cmd' = "read"
    /\ tree' = EmptyTree     /\ probe' = {}
    /\ goal' = NoGoal        /\ todo' = {}     /\ waived' = {}
    /\ raced' = {}

Init ==
    /\ disk \in Trees
    /\ wcTree = EmptyTree /\ wcMark = RootCommit
    /\ stTree = EmptyTree /\ stMark = RootCommit
    /\ head = RootCommit  /\ heads = {RootCommit}
    /\ phase = "idle"     /\ cmd = "read"
    /\ tree = EmptyTree   /\ probe = {}
    /\ goal = NoGoal      /\ todo = {}   /\ waived = {}
    /\ touched = Managed(disk) /\ torn = {} /\ raced = {}
    /\ edits = 0 /\ failures = 0

-----------------------------------------------------------------------------
(* The world around the run. *)

(* The user writes or removes a file, at any moment. *)
UserEdit(p, v) ==
    /\ edits < MaxEdits
    /\ v # disk[p]
    /\ disk' = [disk EXCEPT ![p] = v]
    /\ touched' = touched \cup {p}
    /\ raced' = IF phase = "idle" THEN raced ELSE raced \cup {p}
    /\ edits' = edits + 1
    /\ UNCHANGED <<store, head, heads, run, torn, failures>>

(* Fetching, converging or committing moves the machine scope's head while  *)
(* the run holds home: to a commit nobody has seen, or, when the run is an  *)
(* abort, back to one the scope stood at before.                            *)
HeadMoves ==
    /\ phase = "ready"
    /\ \E c \in Commits :
         /\ \A h \in heads : h.id < c.id
         /\ \E h \in heads : h.id + 1 = c.id
         /\ head' = c /\ heads' = heads \cup {c}
    /\ UNCHANGED <<disk, store, run, history, counters>>

HeadRestored ==
    /\ phase = "ready" /\ cmd = "abort"
    /\ head' \in {h \in heads : h.id \in 1..(head.id - 1)}
    /\ UNCHANGED <<disk, store, heads, run, history, counters>>

-----------------------------------------------------------------------------
(* Acquiring home: take the lock, re-read the state file, snapshot, and     *)
(* repair if the working-copy commit and the state file disagree.           *)

StartRun(c) ==
    /\ phase = "idle"
    /\ phase' = "locked"
    /\ cmd' = c
    /\ tree' = stTree
    /\ probe' = Managed(stTree) \cup Managed(wcTree) \cup Managed(wcMark.tree)
    /\ UNCHANGED <<disk, store, head, heads, goal, todo, waived, history,
                   counters>>

(* A probed path with no content to read stops the run before it has        *)
(* written anything, the state file included.                               *)
AcquireRefused ==
    /\ phase = "locked"
    /\ ~Readable(probe)
    /\ RunEnds
    /\ UNCHANGED <<disk, store, head, heads, touched, torn, counters>>

(* Nothing was interrupted: the snapshot amends the working-copy commit. *)
AcquireFresh ==
    /\ phase = "locked"
    /\ Readable(probe)
    /\ wcTree = stTree
    /\ tree' = SnapshotOf(probe)
    /\ wcTree' = tree'
    /\ phase' = "ready"
    /\ raced' = {}
    /\ UNCHANGED <<disk, wcMark, stTree, stMark, head, heads, cmd, probe, goal,
                   todo, waived, touched, torn, counters>>

(* The last run died after home was written: only the state file is behind. *)
RepairDelivered ==
    /\ phase = "locked"
    /\ Readable(probe)
    /\ wcTree # stTree
    /\ SnapshotOf(probe) = wcTree
    /\ tree' = wcTree
    /\ phase' = "ready"
    /\ raced' = {}
    /\ UNCHANGED <<disk, store, head, heads, cmd, probe, goal, todo, waived,
                   touched, torn, counters>>

(* What the repair merges: home now, the tree the state file says home      *)
(* derives from, and the tree the interrupted run was heading for.          *)
RepairMerge == MergeTrees(SnapshotOf(probe), stTree, wcTree)

(* The three agree: amend to the merge, then write it into home. *)
RepairCompletes ==
    /\ phase = "locked"
    /\ Readable(probe)
    /\ wcTree # stTree
    /\ SnapshotOf(probe) # wcTree
    /\ Conflicted(RepairMerge) = {}
    /\ tree' = SnapshotOf(probe)
    /\ wcTree' = RepairMerge
    /\ goal' = [mark |-> wcMark, tree |-> RepairMerge]
    /\ todo' = Differ(tree', goal'.tree)
    /\ phase' = "repairing"
    /\ raced' = {}
    /\ UNCHANGED <<disk, wcMark, stTree, stMark, head, heads, cmd, probe,
                   waived, touched, torn, counters>>

(* They collide: the working-copy commit becomes a snapshot of home on the  *)
(* mark the state file's operation recorded.                                *)
RepairRewinds ==
    /\ phase = "locked"
    /\ Readable(probe)
    /\ wcTree # stTree
    /\ SnapshotOf(probe) # wcTree
    /\ Conflicted(RepairMerge) # {}
    /\ tree' = SnapshotOf(probe)
    /\ wcTree' = tree'
    /\ wcMark' = stMark
    /\ phase' = "ready"
    /\ raced' = {}
    /\ torn' = torn \cup (Differ(tree', stMark.tree) \ touched)
    /\ UNCHANGED <<disk, stTree, stMark, head, heads, cmd, probe, goal, todo,
                   waived, touched, counters>>

-----------------------------------------------------------------------------
(* Meeting the head.  Every command first widens the snapshot to the paths  *)
(* only the head holds, reading home again if that added any.               *)

(* mutant: the head is met with the snapshot as it was *)
ObserveNothing ==
    /\ phase = "ready" /\ phase' = "observed"
    /\ UNCHANGED <<disk, store, head, heads, cmd, tree, probe, goal, todo,
                   waived, history, counters>>

(* mutant: home is read again and the working-copy commit is not amended *)
ObserveWithoutAmending ==
    /\ phase = "ready"
    /\ probe' = probe \cup Managed(head.tree) /\ Readable(probe')
    /\ tree' = SnapshotOf(probe')
    /\ phase' = "observed"
    /\ raced' = {}
    /\ UNCHANGED <<disk, store, head, heads, cmd, goal, todo, waived, touched,
                   torn, counters>>

Observe ==
    /\ phase = "ready"
    /\ probe' = probe \cup Managed(head.tree)
    /\ IF probe' = probe
       THEN phase' = "observed" /\ UNCHANGED <<tree, wcTree, raced>>
       ELSE IF Readable(probe')
       THEN /\ tree' = SnapshotOf(probe')
            /\ wcTree' = tree'
            /\ phase' = "observed"
            /\ raced' = {}
       ELSE phase' = "stopping" /\ UNCHANGED <<tree, wcTree, raced>>
    /\ UNCHANGED <<disk, wcMark, stTree, stMark, head, heads, cmd, goal, todo,
                   waived, touched, torn, counters>>

StartCheckOut(t, taken) ==
    /\ goal' = [mark |-> head, tree |-> t]
    /\ todo' = Differ(tree, t)
    /\ waived' = taken
    /\ phase' = "writing"
    /\ UNCHANGED <<disk, store, head, heads, cmd, tree, probe, history,
                   counters>>

(* The run is over as far as home goes: only the state file is left. *)
Stop ==
    /\ phase' = "stopping"
    /\ UNCHANGED <<disk, store, head, heads, cmd, tree, probe, goal, todo,
                   waived, history, counters>>

(* status, diff and dry runs have read what they report *)
Report == phase = "observed" /\ cmd = "read" /\ Stop

(* mutant: a sync that does not look for conflicts *)
SyncIgnoresConflicts ==
    /\ phase = "observed" /\ cmd = "sync" /\ head # wcMark
    /\ StartCheckOut(MergeWithHead, {})

(* The ordinary sync: carry the local changes, or stop and touch nothing. *)
SyncCarries ==
    /\ phase = "observed" /\ cmd = "sync" /\ head # wcMark
    /\ Conflicted(MergeWithHead) = {}
    /\ StartCheckOut(MergeWithHead, {})

SyncStops ==
    /\ phase = "observed" /\ cmd = "sync"
    /\ head = wcMark \/ Conflicted(MergeWithHead) # {}
    /\ Stop

(* continue with no merge paused: home's bytes answer the conflicts *)
ContinueResolves ==
    /\ phase = "observed" /\ cmd = "continue" /\ head # wcMark
    /\ Conflicted(MergeWithHead) # {}
    /\ StartCheckOut([p \in Paths |-> IF MergeWithHead[p] = Conflict
                                      THEN wcTree[p] ELSE MergeWithHead[p]], {})

ContinueNothing ==
    /\ phase = "observed" /\ cmd = "continue"
    /\ head = wcMark \/ Conflicted(MergeWithHead) = {}
    /\ Stop

(* mutant: dropping a change returns to the version last synced *)
MarkWinsAt(paths) ==
    [p \in Paths |-> IF p \in paths THEN wcMark.tree[p] ELSE MergeWithHead[p]]

(* discard, and the end of a resolution: the head wins at the named paths *)
HeadWinsAt(paths) ==
    [p \in Paths |-> IF p \in paths THEN head.tree[p] ELSE MergeWithHead[p]]

DiscardTakesHead(paths) ==
    /\ phase = "observed" /\ cmd = "discard"
    /\ Conflicted(HeadWinsAt(paths)) = {}
    /\ head # wcMark \/ HeadWinsAt(paths) # wcTree
    /\ StartCheckOut(HeadWinsAt(paths), paths)

DiscardStops(paths) ==
    /\ phase = "observed" /\ cmd = "discard"
    /\ \/ Conflicted(HeadWinsAt(paths)) # {}
       \/ head = wcMark /\ HeadWinsAt(paths) = wcTree
    /\ Stop

(* mutant: an abort that takes the head's side only where there is a conflict *)
AbortCarries ==
    /\ phase = "observed" /\ cmd = "abort"
    /\ head # wcMark \/ wcTree # head.tree
    /\ StartCheckOut(HeadWinsAt(Conflicted(MergeWithHead)), Paths)

(* abort and init: the head's tree whole *)
AbortTakesHead ==
    /\ phase = "observed" /\ cmd = "abort"
    /\ head # wcMark \/ wcTree # head.tree
    /\ StartCheckOut(head.tree, Paths)

AbortStops ==
    /\ phase = "observed" /\ cmd = "abort"
    /\ head = wcMark /\ wcTree = head.tree
    /\ Stop

-----------------------------------------------------------------------------
(* Writing home: removals, then writes, one path at a time, from the tree   *)
(* the run believes is on disk to the goal.                                 *)

WriteFile(p) ==
    /\ phase \in {"repairing", "writing"}
    /\ p \in todo
    /\ goal.tree[p] = Absent \/ \A q \in todo : goal.tree[q] # Absent
    /\ disk' = [disk EXCEPT ![p] = goal.tree[p]]
    /\ todo' = todo \ {p}
    /\ torn' = IF phase = "writing" THEN torn \cup {p} ELSE torn
    /\ UNCHANGED <<store, head, heads, phase, cmd, tree, probe, goal, waived,
                   touched, raced, counters>>

(* The repair's checkout is done: home is what the amended commit says. *)
RepairDone ==
    /\ phase = "repairing" /\ todo = {}
    /\ tree' = goal.tree
    /\ phase' = "ready"
    /\ goal' = NoGoal
    /\ UNCHANGED <<disk, store, head, heads, cmd, probe, todo, waived, history,
                   counters>>

(* mutants: the switch recorded before home is written, and one that leaves  *)
(* the mark where it was                                                    *)
RecordSwitchFirst ==
    /\ phase = "writing"
    /\ wcTree' = goal.tree /\ wcMark' = goal.mark
    /\ tree' = goal.tree
    /\ phase' = "stopping"
    /\ UNCHANGED <<disk, stTree, stMark, head, heads, cmd, probe, goal, todo,
                   waived, history, counters>>

RecordSwitchUnmarked ==
    /\ phase = "writing" /\ todo = {}
    /\ wcTree' = goal.tree
    /\ tree' = goal.tree
    /\ phase' = "stopping"
    /\ UNCHANGED <<disk, wcMark, stTree, stMark, head, heads, cmd, probe, goal,
                   todo, waived, history, counters>>

(* Home is written, so the switch is recorded: a working-copy commit on the *)
(* new head.  What home now shares with the head is nobody's change.        *)
RecordSwitch ==
    /\ phase = "writing" /\ todo = {}
    /\ wcTree' = goal.tree
    /\ wcMark' = goal.mark
    /\ tree' = goal.tree
    /\ phase' = "stopping"
    /\ LET level == {p \in Paths : /\ goal.tree[p] = goal.mark.tree[p]
                                   /\ disk[p] = goal.tree[p]}
       IN  touched' = touched \ level /\ torn' = torn \ level
    /\ UNCHANGED <<disk, stTree, stMark, head, heads, cmd, probe, goal, todo,
                   waived, raced, counters>>

(* Whichever way the run went, the state file says what home holds. *)
Finish ==
    /\ phase = "stopping"
    /\ stTree' = tree /\ stMark' = wcMark
    /\ RunEnds
    /\ UNCHANGED <<disk, wcTree, wcMark, head, heads, touched, torn, counters>>

-----------------------------------------------------------------------------
(* What can cut a run short. *)

(* The process dies; the lock dies with it. *)
Crash ==
    /\ phase # "idle" /\ failures < MaxFailures
    /\ RunEnds
    /\ failures' = failures + 1
    /\ UNCHANGED <<disk, store, head, heads, touched, torn, edits>>

(* A checkout refuses (a folder in the way) or fails part-way.  A sync still *)
(* finishes; in the repair there is no handle yet to finish with.           *)
CheckOutFails ==
    /\ phase \in {"repairing", "writing"} /\ failures < MaxFailures
    /\ IF phase = "writing"
       THEN /\ phase' = "stopping"
            /\ UNCHANGED <<cmd, tree, probe, goal, todo, waived, raced>>
       ELSE RunEnds
    /\ failures' = failures + 1
    /\ UNCHANGED <<disk, store, head, heads, touched, torn, edits>>

(* The run stops before it meets the head: a paused merge, a refusal. *)
RunStops ==
    /\ phase = "ready" /\ failures < MaxFailures
    /\ phase' = "stopping"
    /\ failures' = failures + 1
    /\ UNCHANGED <<disk, store, head, heads, cmd, tree, probe, goal, todo,
                   waived, history, edits>>

-----------------------------------------------------------------------------
Acquire == \/ AcquireRefused \/ AcquireFresh
           \/ RepairDelivered \/ RepairCompletes \/ RepairRewinds

Decide == \/ Report \/ SyncCarries \/ SyncStops
          \/ ContinueResolves \/ ContinueNothing
          \/ \E paths \in (SUBSET Paths) \ {{}} :
                DiscardTakesHead(paths) \/ DiscardStops(paths)
          \/ AbortTakesHead \/ AbortStops

RunStep == \/ Acquire \/ Observe \/ Decide
           \/ \E p \in Paths : WriteFile(p)
           \/ RepairDone \/ RecordSwitch \/ Finish

Next == \/ \E p \in Paths, v \in Contents \cup {Irregular} : UserEdit(p, v)
        \/ HeadMoves \/ HeadRestored
        \/ \E c \in Commands : StartRun(c)
        \/ RunStep
        \/ Crash \/ CheckOutFails \/ RunStops

(* A run that is not cut short takes its next step, and the user who is told *)
(* to "run dotsync again" eventually does.                                   *)
Fairness == WF_vars(RunStep) /\ SF_vars(StartRun("sync"))

Spec == Init /\ [][Next]_vars /\ Fairness

-----------------------------------------------------------------------------
(* The type invariant: every variable stays in its set, and in particular   *)
(* no tree the run keeps or aims at ever holds a conflict.                  *)
TypeOK ==
    /\ disk \in [Paths -> Contents \cup {Irregular}]
    /\ wcTree \in Trees /\ stTree \in Trees /\ tree \in Trees
    /\ wcMark \in Commits /\ stMark \in Commits /\ head \in Commits
    /\ heads \subseteq Commits
    /\ phase \in Phases /\ cmd \in Commands
    /\ probe \subseteq Paths /\ todo \subseteq Paths /\ waived \subseteq Paths
    /\ goal \in [mark : Commits, tree : Trees]
    /\ touched \subseteq Paths /\ torn \subseteq Paths /\ raced \subseteq Paths
    /\ edits \in Nat /\ failures \in Nat

(* The mark never claims what home was not given: a file the user has not   *)
(* written, and that no interrupted delivery left ahead of the mark, is on  *)
(* disk, in the working-copy commit and in the mark the same.  Without it   *)
(* an undelivered change reads as a local edit undoing it (the              *)
(* "silent-revert path" of home.rs, repair).                                *)
HomeFollowsMark ==
    \A p \in Paths \ (touched \cup torn) :
        disk[p] = wcTree[p] /\ wcTree[p] = wcMark.tree[p]

(* Once home is acquired the working-copy commit describes it: the run's    *)
(* tree and the commit agree, and both are what is on disk at every path    *)
(* the run reads and the user has not written since (home.rs, Home).        *)
WcCommitIsHome ==
    /\ phase \in {"ready", "observed", "writing", "stopping"} => wcTree = tree
    /\ phase \in {"ready", "observed"} =>
          \A p \in probe \ raced : disk[p] = wcTree[p]

(* A step of the program, not of the user, changes what home holds at p. *)
WritesHome(p) == edits' = edits /\ disk'[p] # disk[p]

(* What the run takes local changes to be relative to. *)
Base == IF phase = "repairing" THEN stTree ELSE wcMark.tree

(* No write loses the user's content.  What the user put at a path before   *)
(* the run last read home is overwritten only where the command takes the   *)
(* head's side, where it is no change from the version the merge started    *)
(* from, or by a line merge that includes it (home.rs, materialize and      *)
(* observe: a path only the head holds is read before it is written).       *)
KeepsEdits ==
    [][\A p \in touched \ raced : WritesHome(p) =>
          \/ p \in waived
          \/ disk[p] = Base[p]
          \/ \E theirs \in Files : goal.tree[p] = Combine(disk[p], Base[p], theirs)]_vars

(* abort reverts all the config files: when its switch is recorded, every   *)
(* path the run knew of holds the restored head's version, whatever local   *)
(* changes there were (pause.rs, abort_in_session).                         *)
AbortRestoresHome ==
    [][(RecordSwitch /\ cmd = "abort") =>
          \A p \in probe \ raced : disk[p] = head.tree[p]]_vars

(* Settled: home is on the head, or something only the user can resolve is  *)
(* in the way.                                                              *)
Settled ==
    \/ wcMark = head
    \/ Conflicted(MergeWithHead) # {}
    \/ ~Readable(Paths)

(* No dead ends: whatever died, wherever it died, running dotsync again     *)
(* brings home to the head for good, or to a conflict (DESIGN.md, Failure   *)
(* model).                                                                  *)
CatchesUp == <>[]Settled

-----------------------------------------------------------------------------
(* What the comments and the design say, and the code does not do.          *)

(* home.rs on the repair of a run that died after it had recorded a switch: *)
(* post-crash edits that do not collide with the interrupted sync are       *)
(* carried, so the repair never writes over content the user put in home    *)
(* before the run read it.                                                  *)
RepairCarriesEdits ==
    [][\A p \in touched \ raced : WritesHome(p) =>
          \/ phase # "repairing" \/ wcMark = stMark
          \/ \E theirs \in Files : goal.tree[p] = Combine(disk[p], stTree[p], theirs)]_vars
=============================================================================
