----------------------------- MODULE HomeProofs -----------------------------
(* Proofs about Home, for every set of paths and of files, every line merge *)
(* and every bound.                                                         *)
EXTENDS Home, TLAPS

(* What each phase of a run knows, beyond the types. *)

(* locked: the run believes the state file, and every path that file, the   *)
(* working-copy commit or the mark knows of is about to be read.            *)
LockedInv ==
    phase = "locked" =>
        /\ tree = stTree
        /\ \A p \in Paths \ probe : stTree[p] = Absent /\ wcTree[p] = Absent

AcquiredInv == phase \in {"ready", "observed", "writing", "stopping"} => wcTree = tree

(* What the run believes is on disk is there, unless the user wrote it      *)
(* since; where it has not looked it believes nothing.                      *)
ReadInv ==
    phase \in {"ready", "observed"} =>
        \A p \in Paths : IF p \in probe THEN p \in raced \/ disk[p] = tree[p]
                                        ELSE tree[p] = Absent

ObservedInv ==
    phase = "observed" => \A p \in Paths \ probe : head.tree[p] = Absent

(* What check_out has still to write, and what it has written. *)
PendingInv(base) ==
    \A p \in Paths :
        /\ p \in todo => /\ goal.tree[p] # tree[p]
                         /\ p \in raced \/ disk[p] = tree[p]
                         /\ \/ p \in waived
                            \/ \E theirs \in Contents :
                                 goal.tree[p] = MergeEntry(tree[p], base[p], theirs)
        /\ (p \in probe \ todo /\ p \notin raced) => disk[p] = goal.tree[p]
        /\ p \notin probe => goal.tree[p] = Absent

WritingInv ==
    phase = "writing" =>
        /\ PendingInv(wcMark.tree)
        /\ goal.mark = head
        /\ cmd = "abort" => goal.tree = head.tree
        /\ \A p \in Paths \ (touched \cup torn) :
              /\ goal.tree[p] = head.tree[p]
              /\ p \notin todo => tree[p] = goal.tree[p]

RepairingInv ==
    phase = "repairing" =>
        /\ PendingInv(stTree)
        /\ waived = {}
        /\ wcTree = goal.tree

WaivedInv == phase \notin {"writing", "stopping"} => waived = {}

IInv == /\ TypeOK /\ HomeFollowsMark
        /\ LockedInv /\ AcquiredInv /\ ReadInv /\ ObservedInv
        /\ WritingInv /\ RepairingInv /\ WaivedInv
-----------------------------------------------------------------------------
(* The merge of one entry: typed, and a side that did not move yields. *)
LEMMA MergeEntryType ==
    ASSUME NEW ours \in Contents, NEW base \in Contents, NEW theirs \in Contents
    PROVE  MergeEntry(ours, base, theirs) \in Contents \cup {Conflict}
BY CombineReturns, ContentsDistinct DEF MergeEntry, Contents

LEMMA MergeEntryYields ==
    ASSUME NEW ours, NEW base, NEW theirs
    PROVE  /\ ours = base => MergeEntry(ours, base, theirs) = theirs
           /\ ours = theirs => MergeEntry(ours, base, theirs) = ours
BY DEF MergeEntry

(* A merge that resolved everywhere is a tree. *)
LEMMA MergeTreesType ==
    ASSUME NEW ours \in Trees, NEW base \in Trees, NEW theirs \in Trees
    PROVE  \A p \in Paths :
              /\ MergeTrees(ours, base, theirs)[p]
                    = MergeEntry(ours[p], base[p], theirs[p])
              /\ MergeTrees(ours, base, theirs)[p] \in Contents \cup {Conflict}
BY MergeEntryType DEF MergeTrees, Trees

LEMMA ResolvedMergeIsTree ==
    ASSUME NEW ours \in Trees, NEW base \in Trees, NEW theirs \in Trees,
           Conflicted(MergeTrees(ours, base, theirs)) = {}
    PROVE  MergeTrees(ours, base, theirs) \in Trees
<1>1. \A p \in Paths : MergeTrees(ours, base, theirs)[p] \in Contents
  BY MergeTreesType DEF Conflicted
<1>. QED  BY <1>1 DEF MergeTrees, Trees

(* What a snapshot of readable paths is. *)
LEMMA SnapshotType ==
    ASSUME TypeOK, NEW paths \in SUBSET Paths, Readable(paths)
    PROVE  /\ SnapshotOf(paths) \in Trees
           /\ \A p \in Paths :
                 SnapshotOf(paths)[p] = IF p \in paths THEN disk[p] ELSE tree[p]
BY DEF TypeOK, SnapshotOf, Readable, Trees, Contents

LEMMA RootIsCommit == RootCommit \in Commits /\ EmptyTree \in Trees
                      /\ NoGoal \in [mark : Commits, tree : Trees]
BY BoundsAreNumbers DEF RootCommit, EmptyTree, Commits, Trees, Contents, NoGoal

LEMMA CommitTree == ASSUME NEW c \in Commits PROVE c.tree \in Trees
BY DEF Commits

-----------------------------------------------------------------------------
LEMMA InitIInv == Init => IInv
<1>. SUFFICES ASSUME Init PROVE IInv
  OBVIOUS
<1>1. TypeOK
  BY RootIsCommit DEF Init, TypeOK, Trees, Phases, Commands, Managed
<1>2. HomeFollowsMark
  BY DEF Init, HomeFollowsMark, Managed, EmptyTree, RootCommit
<1>. QED
  BY <1>1, <1>2 DEF Init, IInv, LockedInv, AcquiredInv, ReadInv, ObservedInv,
     WritingInv, RepairingInv, WaivedInv


(* A decision either stops, or starts a checkout of a resolved tree that    *)
(* merges the local changes with the head except where the command takes a  *)
(* side.                                                                    *)
LEMMA DecideSteps ==
    ASSUME TypeOK, Decide
    PROVE  \/ Stop /\ phase = "observed"
           \/ \E t \in Trees, taken \in SUBSET Paths :
                /\ StartCheckOut(t, taken)
                /\ phase = "observed"
                /\ cmd = "abort" => t = head.tree
                /\ \A p \in Paths :
                      \/ p \in taken /\ t[p] = head.tree[p]
                      \/ t[p] = MergeEntry(wcTree[p], wcMark.tree[p], head.tree[p])
                      \/ /\ t[p] = wcTree[p]
                         /\ MergeEntry(wcTree[p], wcMark.tree[p], head.tree[p]) = Conflict
<1>. DEFINE Outcome(t, taken) ==
              /\ cmd = "abort" => t = head.tree
              /\ \A p \in Paths :
                    \/ p \in taken /\ t[p] = head.tree[p]
                    \/ t[p] = MergeEntry(wcTree[p], wcMark.tree[p], head.tree[p])
                    \/ /\ t[p] = wcTree[p]
                       /\ MergeEntry(wcTree[p], wcMark.tree[p], head.tree[p]) = Conflict
<1>1. /\ wcTree \in Trees /\ wcMark.tree \in Trees /\ head.tree \in Trees
  BY CommitTree DEF TypeOK
<1>2. \A p \in Paths :
         /\ MergeWithHead[p] = MergeEntry(wcTree[p], wcMark.tree[p], head.tree[p])
         /\ MergeWithHead[p] \in Contents \cup {Conflict}
  BY <1>1, MergeTreesType DEF MergeWithHead
<1>3. CASE Report \/ SyncStops \/ ContinueNothing \/ AbortStops
           \/ \E paths \in (SUBSET Paths) \ {{}} : DiscardStops(paths)
  BY <1>3 DEF Report, SyncStops, ContinueNothing, AbortStops, DiscardStops
<1>4. CASE SyncCarries
  <2>1. MergeWithHead \in Trees
    BY <1>1, <1>4, ResolvedMergeIsTree DEF SyncCarries, MergeWithHead
  <2>2. Outcome(MergeWithHead, {}) /\ StartCheckOut(MergeWithHead, {}) /\ phase = "observed"
    BY <1>2, <1>4 DEF SyncCarries
  <2>. QED  BY <2>1, <2>2
<1>5. CASE ContinueResolves
  <2>. DEFINE t == [p \in Paths |-> IF MergeWithHead[p] = Conflict
                                    THEN wcTree[p] ELSE MergeWithHead[p]]
  <2>1. t \in Trees
    BY <1>1, <1>2 DEF Trees
  <2>2. Outcome(t, {}) /\ StartCheckOut(t, {}) /\ phase = "observed"
    BY <1>2, <1>5 DEF ContinueResolves
  <2>. QED  BY <2>1, <2>2
<1>6. ASSUME NEW paths \in SUBSET Paths, DiscardTakesHead(paths)
      PROVE  \E t \in Trees, taken \in SUBSET Paths :
                StartCheckOut(t, taken) /\ phase = "observed" /\ Outcome(t, taken)
  <2>1. HeadWinsAt(paths) \in Trees
    BY <1>1, <1>2, <1>6 DEF DiscardTakesHead, HeadWinsAt, Conflicted, Trees
  <2>2. /\ Outcome(HeadWinsAt(paths), paths) /\ phase = "observed"
        /\ StartCheckOut(HeadWinsAt(paths), paths)
    BY <1>2, <1>6 DEF DiscardTakesHead, HeadWinsAt
  <2>. QED  BY <2>1, <2>2
<1>7. CASE AbortTakesHead
  <2>1. Outcome(head.tree, Paths) /\ StartCheckOut(head.tree, Paths) /\ phase = "observed"
    BY <1>7 DEF AbortTakesHead
  <2>. QED  BY <1>1, <2>1
<1>. QED
  BY <1>3, <1>4, <1>5, <1>6, <1>7 DEF Decide

-----------------------------------------------------------------------------
(* Every action preserves the types. *)
LEMMA TypeStep == ASSUME TypeOK, [Next]_vars PROVE TypeOK'
<1>. USE DEF TypeOK
<1>1. ASSUME NEW p \in Paths, NEW v \in Contents \cup {Irregular}, UserEdit(p, v)
      PROVE  TypeOK'
  BY <1>1 DEF UserEdit, store, run
<1>2. CASE HeadMoves
  BY <1>2 DEF HeadMoves, store, run, history, counters
<1>3. CASE HeadRestored
  BY <1>3 DEF HeadRestored, store, run, history, counters
<1>4. ASSUME NEW c \in Commands, StartRun(c) PROVE TypeOK'
  BY <1>4 DEF StartRun, store, history, counters, Phases, Managed
<1>5. CASE AcquireRefused
  BY <1>5, RootIsCommit DEF AcquireRefused, RunEnds, store, counters, Phases, Commands
<1>6. CASE AcquireFresh
  BY <1>6, SnapshotType DEF AcquireFresh, counters, Phases
<1>7. CASE RepairDelivered
  BY <1>7 DEF RepairDelivered, store, counters, Phases
<1>8. CASE RepairCompletes
  <2>1. SnapshotOf(probe) \in Trees /\ RepairMerge \in Trees
    BY <1>8, SnapshotType, ResolvedMergeIsTree DEF RepairCompletes, RepairMerge
  <2>. QED
    BY <1>8, <2>1 DEF RepairCompletes, counters, Phases, Differ
<1>9. CASE RepairRewinds
  BY <1>9, SnapshotType DEF RepairRewinds, counters, Phases, Differ
<1>10. CASE Observe
  <2>1. probe' \in SUBSET Paths
    BY <1>10 DEF Observe, Managed
  <2>2. Readable(probe') => SnapshotOf(probe') \in Trees
    BY <2>1, SnapshotType
  <2>. QED
    BY <1>10, <2>1, <2>2 DEF Observe, counters, Phases
<1>11. ASSUME NEW t \in Trees, NEW taken \in SUBSET Paths, StartCheckOut(t, taken)
       PROVE  TypeOK'
  BY <1>11 DEF StartCheckOut, store, history, counters, Phases, Differ
<1>12. CASE Stop
  BY <1>12 DEF Stop, store, history, counters, Phases
<1>13. CASE Decide
  BY <1>13, <1>11, <1>12, DecideSteps
<1>14. ASSUME NEW p \in Paths, WriteFile(p) PROVE TypeOK'
  BY <1>14 DEF WriteFile, store, counters, Trees
<1>15. CASE RepairDone
  BY <1>15, RootIsCommit DEF RepairDone, store, history, counters, Phases
<1>16. CASE RecordSwitch
  BY <1>16 DEF RecordSwitch, counters, Phases
<1>17. CASE Finish
  BY <1>17, RootIsCommit DEF Finish, RunEnds, counters, Phases, Commands
<1>18. CASE Crash
  BY <1>18, RootIsCommit DEF Crash, RunEnds, store, Phases, Commands
<1>19. CASE CheckOutFails
  BY <1>19, RootIsCommit DEF CheckOutFails, RunEnds, store, Phases, Commands
<1>20. CASE RunStops
  BY <1>20 DEF RunStops, store, history, Phases
<1>21. CASE UNCHANGED vars
  BY <1>21 DEF vars, store, run, history, counters
<1>. QED
  BY <1>1, <1>2, <1>3, <1>4, <1>5, <1>6, <1>7, <1>8, <1>9, <1>10, <1>13, <1>14,
     <1>15, <1>16, <1>17, <1>18, <1>19, <1>20, <1>21
  DEF Next, RunStep, Acquire

(* The types hold in every state of every run. *)
THEOREM TypeCorrect == Spec => []TypeOK
<1>1. Init => TypeOK
  BY InitIInv DEF IInv
<1>2. TypeOK /\ [Next]_vars => TypeOK'
  BY TypeStep
<1>. QED  BY <1>1, <1>2, PTL DEF Spec

-----------------------------------------------------------------------------
(* The steps of the world and of a run that ends keep what is known. *)
LEMMA WorldStep ==
    ASSUME IInv, TypeOK',
           \/ \E p \in Paths, v \in Contents \cup {Irregular} : UserEdit(p, v)
           \/ HeadMoves \/ HeadRestored
           \/ \E c \in Commands : StartRun(c)
           \/ AcquireRefused \/ Finish \/ Crash \/ CheckOutFails \/ RunStops
           \/ UNCHANGED vars
    PROVE  IInv'
<1>. USE DEF IInv
<1>1. ASSUME NEW p \in Paths, NEW v \in Contents \cup {Irregular}, UserEdit(p, v)
      PROVE  IInv'
  <2>1. /\ \A q \in Paths : q # p => disk'[q] = disk[q]
        /\ touched' = touched \cup {p} /\ torn' = torn
        /\ raced \subseteq raced'
        /\ phase # "idle" => raced' = raced \cup {p}
        /\ UNCHANGED <<wcTree, wcMark, stTree, stMark, head, heads, phase, cmd,
                       tree, probe, goal, todo, waived>>
    BY <1>1 DEF UserEdit, TypeOK, store, run
  <2>2. HomeFollowsMark'
    BY <2>1 DEF HomeFollowsMark
  <2>3. (LockedInv /\ AcquiredInv /\ ObservedInv /\ WaivedInv)'
    BY <2>1 DEF LockedInv, AcquiredInv, ObservedInv, WaivedInv
  <2>4. ReadInv'
    BY <2>1 DEF ReadInv
  <2>5. phase # "idle" => /\ PendingInv(wcMark.tree) => PendingInv(wcMark.tree)'
                          /\ PendingInv(stTree) => PendingInv(stTree)'
    BY <2>1 DEF PendingInv
  <2>6. WritingInv' /\ RepairingInv'
    BY <2>1, <2>5 DEF WritingInv, RepairingInv
  <2>. QED  BY <2>2, <2>3, <2>4, <2>6
<1>2. CASE HeadMoves \/ HeadRestored
  BY <1>2 DEF HeadMoves, HeadRestored, store, run, history, counters,
     HomeFollowsMark, LockedInv, AcquiredInv, ReadInv, ObservedInv, WritingInv,
     RepairingInv, WaivedInv
<1>3. ASSUME NEW c \in Commands, StartRun(c) PROVE IInv'
  BY <1>3 DEF StartRun, store, history, counters, Managed, HomeFollowsMark,
     LockedInv, AcquiredInv, ReadInv, ObservedInv, WritingInv, RepairingInv,
     WaivedInv
<1>4. CASE AcquireRefused \/ Finish \/ Crash
  BY <1>4 DEF AcquireRefused, Finish, Crash, RunEnds, store, HomeFollowsMark,
     LockedInv, AcquiredInv, ReadInv, ObservedInv, WritingInv, RepairingInv,
     WaivedInv
<1>5. CASE CheckOutFails
  BY <1>5 DEF CheckOutFails, RunEnds, store, HomeFollowsMark,
     LockedInv, AcquiredInv, ReadInv, ObservedInv, WritingInv, RepairingInv,
     WaivedInv
<1>6. CASE RunStops
  BY <1>6 DEF RunStops, store, history, HomeFollowsMark, LockedInv,
     AcquiredInv, ReadInv, ObservedInv, WritingInv, RepairingInv, WaivedInv
<1>7. CASE UNCHANGED vars
  <2>1. /\ PendingInv(wcMark.tree) => PendingInv(wcMark.tree)'
        /\ PendingInv(stTree) => PendingInv(stTree)'
    BY <1>7 DEF vars, store, run, history, PendingInv
  <2>. QED
    BY <1>7, <2>1 DEF vars, store, run, history, HomeFollowsMark, LockedInv,
       AcquiredInv, ReadInv, ObservedInv, WritingInv, RepairingInv, WaivedInv
<1>. QED  BY <1>1, <1>2, <1>3, <1>4, <1>5, <1>6, <1>7

(* Acquiring home, with or without a repair, leaves a working-copy commit   *)
(* that says what home holds.                                               *)
LEMMA AcquireStep == ASSUME IInv, TypeOK', Acquire PROVE IInv'
<1>. USE DEF IInv
<1>1. CASE AcquireRefused
  BY <1>1, WorldStep
<1>. SUFFICES ASSUME ~AcquireRefused PROVE IInv'
  BY <1>1
<1>2. phase = "locked" /\ Readable(probe) /\ probe \in SUBSET Paths
  BY DEF Acquire, AcquireFresh, RepairDelivered, RepairCompletes, RepairRewinds,
     TypeOK
<1>3. \A p \in Paths : IF p \in probe THEN SnapshotOf(probe)[p] = disk[p]
                       ELSE SnapshotOf(probe)[p] = Absent /\ stTree[p] = Absent
                            /\ wcTree[p] = Absent
  BY <1>2, SnapshotType DEF LockedInv
<1>4. \A p \in Paths \ (touched \cup torn) : SnapshotOf(probe)[p] = wcTree[p]
  BY <1>3 DEF HomeFollowsMark
<1>5. CASE AcquireFresh
  BY <1>3, <1>4, <1>5 DEF AcquireFresh, HomeFollowsMark, LockedInv, AcquiredInv,
     ReadInv, ObservedInv, WritingInv, RepairingInv, WaivedInv
<1>6. CASE RepairDelivered
  BY <1>3, <1>6 DEF RepairDelivered, store, HomeFollowsMark, LockedInv, AcquiredInv,
     ReadInv, ObservedInv, WritingInv, RepairingInv, WaivedInv
<1>7. CASE RepairRewinds
  <2>1. HomeFollowsMark'
    BY <1>3, <1>4, <1>7 DEF RepairRewinds, HomeFollowsMark, Differ
  <2>. QED
    BY <1>3, <1>7, <2>1 DEF RepairRewinds, LockedInv, AcquiredInv, ReadInv,
       ObservedInv, WritingInv, RepairingInv, WaivedInv
<1>8. CASE RepairCompletes
  <2>1. /\ \A p \in Paths :
              RepairMerge[p] = MergeEntry(SnapshotOf(probe)[p], stTree[p], wcTree[p])
        /\ wcTree \in Trees /\ RepairMerge \in Trees
    BY <1>2, <1>8, SnapshotType, MergeTreesType, ResolvedMergeIsTree
    DEF TypeOK, RepairMerge, RepairCompletes
  <2>2. HomeFollowsMark'
    <3>1. \A p \in Paths \ (touched \cup torn) : RepairMerge[p] = wcTree[p]
      BY <1>4, <2>1, MergeEntryYields
    <3>. QED  BY <1>8, <3>1 DEF RepairCompletes, HomeFollowsMark
  <2>3. \A p \in Paths \ probe : RepairMerge[p] = Absent
    BY <1>3, <2>1, MergeEntryYields
  <2>4. /\ goal'.tree = RepairMerge /\ tree' = SnapshotOf(probe)
        /\ todo' = Differ(SnapshotOf(probe), RepairMerge)
        /\ disk' = disk /\ probe' = probe /\ raced' = {} /\ stTree' = stTree
    BY <1>8 DEF RepairCompletes
  <2>5. PendingInv(stTree)'
    <3>. SUFFICES ASSUME NEW p \in Paths
                  PROVE  /\ p \in todo' =>
                               /\ goal'.tree[p] # tree'[p]
                               /\ p \in raced' \/ disk'[p] = tree'[p]
                               /\ \/ p \in waived'
                                  \/ \E theirs \in Contents :
                                       goal'.tree[p] = MergeEntry(tree'[p], stTree'[p], theirs)
                         /\ (p \in probe' \ todo' /\ p \notin raced') => disk'[p] = goal'.tree[p]
                         /\ p \notin probe' => goal'.tree[p] = Absent
      BY DEF PendingInv
    <3>1. p \in todo' => SnapshotOf(probe)[p] # RepairMerge[p] /\ p \in probe
      BY <1>3, <2>3, <2>4 DEF Differ
    <3>2. p \notin todo' => SnapshotOf(probe)[p] = RepairMerge[p]
      BY <2>4 DEF Differ
    <3>3. wcTree[p] \in Contents
      BY <2>1 DEF Trees
    <3>. QED  BY <1>3, <2>1, <2>3, <2>4, <3>1, <3>2, <3>3
  <2>6. RepairingInv'
    BY <1>2, <1>8, <2>5 DEF RepairingInv, RepairCompletes, WaivedInv
  <2>. QED
    BY <1>8, <2>2, <2>6 DEF RepairCompletes, LockedInv, AcquiredInv, ReadInv,
       ObservedInv, WritingInv, WaivedInv
<1>. QED  BY <1>5, <1>6, <1>7, <1>8 DEF Acquire

-----------------------------------------------------------------------------
(* Meeting the head: the paths only the head holds are read too. *)
LEMMA ObserveStep == ASSUME IInv, TypeOK', Observe PROVE IInv'
<1>. USE DEF IInv
<1>1. /\ phase = "ready" /\ probe' = probe \cup Managed(head.tree)
      /\ UNCHANGED <<disk, wcMark, stTree, head, goal, todo, waived, touched, torn>>
  BY DEF Observe
<1>2. \A p \in Paths \ probe' : head.tree[p] = Absent
  BY <1>1 DEF Managed
<1>3. CASE phase' = "stopping" \/ probe' = probe
  BY <1>1, <1>2, <1>3 DEF Observe, HomeFollowsMark, LockedInv, AcquiredInv, ReadInv,
     ObservedInv, WritingInv, RepairingInv, WaivedInv
<1>4. CASE phase' # "stopping" /\ probe' # probe
  <2>1. /\ Readable(probe') /\ tree' = SnapshotOf(probe') /\ wcTree' = tree'
        /\ phase' = "observed" /\ raced' = {}
    BY <1>4 DEF Observe
  <2>2. \A p \in Paths : tree'[p] = IF p \in probe' THEN disk[p] ELSE tree[p]
    BY <1>1, <2>1, SnapshotType DEF TypeOK
  <2>3. HomeFollowsMark'
    BY <1>1, <2>1, <2>2 DEF HomeFollowsMark, AcquiredInv
  <2>4. ReadInv'
    BY <1>1, <2>1, <2>2 DEF ReadInv
  <2>. QED
    BY <1>1, <1>2, <2>1, <2>3, <2>4 DEF LockedInv, AcquiredInv, ObservedInv,
       WritingInv, RepairingInv, WaivedInv
<1>. QED  BY <1>3, <1>4

(* A decision starts a checkout only of paths the run has read. *)
LEMMA DecideStep == ASSUME IInv, TypeOK', Decide PROVE IInv'
<1>. USE DEF IInv
<1>1. CASE Stop /\ phase = "observed"
  BY <1>1 DEF Stop, store, history, HomeFollowsMark, LockedInv, AcquiredInv,
     ReadInv, ObservedInv, WritingInv, RepairingInv, WaivedInv
<1>2. ASSUME NEW t \in Trees, NEW taken \in SUBSET Paths,
             StartCheckOut(t, taken), phase = "observed",
             cmd = "abort" => t = head.tree,
             \A p \in Paths :
                \/ p \in taken /\ t[p] = head.tree[p]
                \/ t[p] = MergeEntry(wcTree[p], wcMark.tree[p], head.tree[p])
                \/ /\ t[p] = wcTree[p]
                   /\ MergeEntry(wcTree[p], wcMark.tree[p], head.tree[p]) = Conflict
      PROVE  IInv'
  <2>1. /\ goal'.mark = head /\ goal'.tree = t /\ todo' = Differ(tree, t)
        /\ waived' = taken /\ phase' = "writing"
        /\ UNCHANGED <<disk, wcTree, wcMark, stTree, head, cmd, tree, probe,
                       touched, torn, raced>>
    BY <1>2 DEF StartCheckOut, store, history
  <2>2. /\ wcTree = tree
        /\ head.tree \in Trees
    BY <1>2, CommitTree DEF AcquiredInv, TypeOK
  <2>3. \A p \in Paths \ probe : tree[p] = Absent /\ t[p] = Absent
    BY <1>2, <2>2, MergeEntryYields DEF ReadInv, ObservedInv
  <2>4. \A p \in probe : p \in raced \/ disk[p] = tree[p]
    BY <1>2 DEF ReadInv, TypeOK
  <2>5. PendingInv(wcMark.tree)'
    <3>. SUFFICES ASSUME NEW p \in Paths
                  PROVE  /\ p \in todo' =>
                               /\ t[p] # tree[p]
                               /\ p \in raced \/ disk[p] = tree[p]
                               /\ \/ p \in taken
                                  \/ \E theirs \in Contents :
                                       t[p] = MergeEntry(tree[p], wcMark.tree[p], theirs)
                         /\ (p \in probe \ todo' /\ p \notin raced) => disk[p] = t[p]
                         /\ p \notin probe => t[p] = Absent
      BY <2>1 DEF PendingInv
    <3>1. p \in todo' <=> tree[p] # t[p]
      BY <2>1 DEF Differ
    <3>2. head.tree[p] \in Contents
      BY <2>2 DEF Trees
    <3>. QED  BY <1>2, <2>2, <2>3, <2>4, <3>1, <3>2
  <2>6. \A p \in Paths \ (touched \cup torn) : t[p] = head.tree[p]
    <3>. SUFFICES ASSUME NEW p \in Paths \ (touched \cup torn)
                  PROVE  t[p] = head.tree[p]
      OBVIOUS
    <3>1. MergeEntry(wcTree[p], wcMark.tree[p], head.tree[p]) = head.tree[p]
      BY MergeEntryYields DEF HomeFollowsMark
    <3>2. head.tree[p] # Conflict
      BY <2>2, ContentsDistinct DEF Trees, Contents
    <3>. QED  BY <1>2, <3>1, <3>2
  <2>7. WritingInv'
    BY <1>2, <2>1, <2>5, <2>6 DEF WritingInv, Differ
  <2>. QED
    BY <2>1, <2>2, <2>7 DEF HomeFollowsMark, LockedInv, AcquiredInv, ReadInv,
       ObservedInv, RepairingInv, WaivedInv
<1>. QED  BY <1>1, <1>2, DecideSteps

(* Writing home keeps to the plan, and recording the switch concludes it. *)
LEMMA CheckOutStep ==
    ASSUME IInv, TypeOK',
           (\E p \in Paths : WriteFile(p)) \/ RepairDone \/ RecordSwitch
    PROVE  IInv'
<1>. USE DEF IInv
<1>1. ASSUME NEW p \in Paths, WriteFile(p) PROVE IInv'
  <2>1. /\ phase \in {"repairing", "writing"} /\ p \in todo
        /\ disk'[p] = goal.tree[p]
        /\ \A q \in Paths : q # p => disk'[q] = disk[q]
        /\ todo' = todo \ {p}
        /\ phase = "writing" => torn' = torn \cup {p}
        /\ phase = "repairing" => torn' = torn
        /\ UNCHANGED <<wcTree, wcMark, stTree, stMark, head, phase, cmd, tree,
                       probe, goal, waived, touched, raced>>
    BY <1>1 DEF WriteFile, store, TypeOK
  <2>2. HomeFollowsMark'
    BY <2>1 DEF HomeFollowsMark, RepairingInv
  <2>3. /\ PendingInv(wcMark.tree) => PendingInv(wcMark.tree)'
        /\ PendingInv(stTree) => PendingInv(stTree)'
    BY <2>1 DEF PendingInv
  <2>4. WritingInv'
    BY <2>1, <2>3 DEF WritingInv
  <2>5. RepairingInv'
    BY <2>1, <2>3 DEF RepairingInv
  <2>. QED
    BY <2>1, <2>2, <2>4, <2>5 DEF LockedInv, AcquiredInv, ReadInv, ObservedInv,
       WaivedInv
<1>2. CASE RepairDone
  <2>1. ReadInv'
    BY <1>2 DEF RepairDone, store, history, ReadInv, RepairingInv, PendingInv
  <2>. QED
    BY <1>2, <2>1 DEF RepairDone, store, history, HomeFollowsMark, LockedInv,
       AcquiredInv, ObservedInv, WritingInv, RepairingInv, WaivedInv
<1>3. CASE RecordSwitch
  <2>1. HomeFollowsMark'
    BY <1>3 DEF RecordSwitch, HomeFollowsMark, WritingInv, AcquiredInv
  <2>. QED
    BY <1>3, <2>1 DEF RecordSwitch, LockedInv, AcquiredInv, ReadInv, ObservedInv,
       WritingInv, RepairingInv, WaivedInv
<1>. QED  BY <1>1, <1>2, <1>3

LEMMA StepIInv == ASSUME IInv, [Next]_vars PROVE IInv'
<1>1. TypeOK'
  BY TypeStep DEF IInv
<1>. QED
  BY <1>1, WorldStep, AcquireStep, ObserveStep, DecideStep, CheckOutStep
  DEF Next, RunStep, Acquire

(* The inductive invariant holds in every state of every run. *)
LEMMA Inductive == Spec => []IInv
<1>1. IInv /\ [Next]_vars => IInv'
  BY StepIInv
<1>. QED  BY InitIInv, <1>1, PTL DEF Spec

-----------------------------------------------------------------------------
(* The mark never claims what home was not given. *)
THEOREM MarkIsFollowed == Spec => []HomeFollowsMark
<1>1. IInv => HomeFollowsMark
  BY DEF IInv
<1>. QED  BY Inductive, <1>1, PTL

(* Once home is acquired, the working-copy commit describes it. *)
THEOREM WcCommitDescribesHome == Spec => []WcCommitIsHome
<1>1. IInv => WcCommitIsHome
  BY DEF IInv, WcCommitIsHome, AcquiredInv, ReadInv, TypeOK
<1>. QED  BY Inductive, <1>1, PTL

(* Only check_out writes home, and only at a path still to be written. *)
LEMMA OnlyCheckOutWrites ==
    ASSUME TypeOK, [Next]_vars, NEW p \in Paths, WritesHome(p)
    PROVE  /\ p \in todo /\ phase \in {"repairing", "writing"}
<1>1. edits' = edits /\ disk' # disk
  BY DEF WritesHome
<1>2. ASSUME NEW q \in Paths, NEW v \in Contents \cup {Irregular} PROVE ~UserEdit(q, v)
  BY <1>1 DEF UserEdit, TypeOK
<1>3. ~Decide
  BY <1>1, DecideSteps DEF Stop, StartCheckOut
<1>4. \E q \in Paths : WriteFile(q)
  BY <1>1, <1>2, <1>3 DEF Next, RunStep, Acquire, HeadMoves, HeadRestored, StartRun,
     AcquireRefused, AcquireFresh, RepairDelivered, RepairCompletes, RepairRewinds,
     Observe, RepairDone, RecordSwitch, Finish, Crash, CheckOutFails, RunStops, vars
<1>. QED  BY <1>4 DEF WriteFile, WritesHome, TypeOK

(* No write loses the user's content. *)
THEOREM EditsAreKept == Spec => KeepsEdits
<1>1. ASSUME IInv, [Next]_vars, NEW p \in touched \ raced, WritesHome(p)
      PROVE  \/ p \in waived
             \/ disk[p] = Base[p]
             \/ \E theirs \in Files : goal.tree[p] = Combine(disk[p], Base[p], theirs)
  <2>1. p \in Paths /\ p \in todo /\ phase \in {"repairing", "writing"}
    BY <1>1, OnlyCheckOutWrites DEF IInv, TypeOK
  <2>2. PendingInv(Base)
    BY <1>1, <2>1 DEF IInv, Base, WritingInv, RepairingInv
  <2>3. CASE p \notin waived
    <3>1. PICK theirs \in Contents :
             goal.tree[p] = MergeEntry(tree[p], Base[p], theirs)
      BY <2>1, <2>2, <2>3 DEF PendingInv
    <3>2. disk[p] = tree[p] /\ goal.tree[p] # tree[p]
      BY <1>1, <2>1, <2>2 DEF PendingInv
    <3>3. goal.tree[p] \in Contents
      BY <1>1, <2>1 DEF IInv, TypeOK, Trees
    <3>. QED
      BY <3>1, <3>2, <3>3, ContentsDistinct DEF MergeEntry, Contents
  <2>. QED  BY <2>3
<1>2. IInv /\ [Next]_vars =>
        [\A p \in touched \ raced : WritesHome(p) =>
          \/ p \in waived
          \/ disk[p] = Base[p]
          \/ \E theirs \in Files : goal.tree[p] = Combine(disk[p], Base[p], theirs)]_vars
  BY <1>1
<1>. QED  BY Inductive, <1>2, PTL DEF Spec, KeepsEdits

(* An abort that is recorded left the restored head's version everywhere.   *)
THEOREM AbortRestores == Spec => AbortRestoresHome
<1>1. IInv /\ [Next]_vars =>
        [(RecordSwitch /\ cmd = "abort") =>
            \A p \in probe \ raced : disk[p] = head.tree[p]]_vars
  BY DEF RecordSwitch, IInv, TypeOK, WritingInv, PendingInv
<1>. QED  BY Inductive, <1>1, PTL DEF Spec, AbortRestoresHome
=============================================================================
