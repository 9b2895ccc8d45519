------------------------- MODULE WorkingCopyProofs -------------------------
(* Proofs about WorkingCopy.                                                *)
EXTENDS WorkingCopy, WellFoundedInduction, TLAPS

(* Places are ordered as paths are: what is above is shorter, and what is   *)
(* above that is above too.                                                 *)
LEMMA AboveIsShorter ==
    ASSUME NEW p \in Places, NEW q \in Above(p)
    PROVE  q \in Places /\ q \in Seq(Names) /\ Len(q) < Len(p) /\ q # p
<1>1. p \in Seq(Names) /\ Above(p) \subseteq Places
  BY PlacesAreClosed
<1>2. PICK n \in 1..(Len(p) - 1) : q = SubSeq(p, 1, n)
  BY DEF Above
<1>3. Len(p) \in Nat /\ n \in Nat
  BY <1>1, <1>2
<1>4. q \in Seq(Names) /\ Len(q) = n
  BY <1>1, <1>2, <1>3
<1>. QED  BY <1>1, <1>2, <1>3, <1>4

(* What is above a place above p is above p.                                *)
LEMMA AboveIsTransitive ==
    ASSUME NEW p \in Places, NEW q \in Above(p), NEW r \in Above(q)
    PROVE  r \in Above(p)
<1>1. p \in Seq(Names)
  BY PlacesAreClosed
<1>2. PICK n \in 1..(Len(p) - 1) : q = SubSeq(p, 1, n)
  BY DEF Above
<1>3. PICK k \in 1..(Len(q) - 1) : r = SubSeq(q, 1, k)
  BY DEF Above
<1>4. Len(p) \in Nat /\ Len(q) = n
  BY <1>1, <1>2
<1>5. SubSeq(SubSeq(p, 1, n), 1, k) = SubSeq(p, 1, k)
  BY <1>1, <1>2, <1>3, <1>4
<1>6. k \in 1..(Len(p) - 1)
  BY <1>2, <1>3, <1>4
<1>. QED  BY <1>2, <1>3, <1>5, <1>6 DEF Above

(* The places above p lie above one another.                                *)
LEMMA AboveIsAChain ==
    ASSUME NEW p \in Places, NEW q \in Above(p), NEW r \in Above(p)
    PROVE  q = r \/ q \in Above(r) \/ r \in Above(q)
<1>1. p \in Seq(Names)
  BY PlacesAreClosed
<1>2. PICK n \in 1..(Len(p) - 1) : q = SubSeq(p, 1, n)
  BY DEF Above
<1>3. PICK k \in 1..(Len(p) - 1) : r = SubSeq(p, 1, k)
  BY DEF Above
<1>4. Len(p) \in Nat /\ Len(q) = n /\ Len(r) = k
  BY <1>1, <1>2, <1>3
<1>5. CASE n < k
  <2>1. SubSeq(SubSeq(p, 1, k), 1, n) = SubSeq(p, 1, n)
    BY <1>1, <1>2, <1>3, <1>4, <1>5
  <2>. QED  BY <2>1, <1>2, <1>3, <1>4, <1>5 DEF Above
<1>6. CASE k < n
  <2>1. SubSeq(SubSeq(p, 1, n), 1, k) = SubSeq(p, 1, k)
    BY <1>1, <1>2, <1>3, <1>4, <1>6
  <2>. QED  BY <2>1, <1>2, <1>3, <1>4, <1>6 DEF Above
<1>. QED  BY <1>2, <1>3, <1>4, <1>5, <1>6

(* What is below a place below p is below p.                                *)
LEMMA BelowBelow ==
    ASSUME NEW p \in Places, NEW q \in Below(p), NEW r \in Below(q)
    PROVE  r \in Below(p)
BY AboveIsTransitive DEF Below

(* No place is above or below itself, or both.                              *)
LEMMA NotBelowItself ==
    ASSUME NEW p \in Places
    PROVE  p \notin Above(p) /\ p \notin Below(p) /\ Above(p) \cap Below(p) = {}
<1>1. \A q \in Above(p) : q \in Places /\ Len(q) < Len(p) /\ Len(q) \in Nat /\ Len(p) \in Nat
  BY AboveIsShorter, PlacesAreClosed
<1>2. \A q \in Below(p) : Len(p) < Len(q)
  BY AboveIsShorter DEF Below
<1>. QED  BY <1>1, <1>2

-----------------------------------------------------------------------------
(* Whatever the user or a run does, home stays a file system.               *)

(* A tree put on disk has folders wherever its entries need them.           *)
LEMMA MaterializedHolds ==
    ASSUME NEW t
    PROVE  HoldsTogether(Materialized(t))
<1>. SUFFICES ASSUME NEW p \in Places, Materialized(t)[p] # Absent,
                     NEW q \in Above(p)
              PROVE  Materialized(t)[q] = Folder
  BY DEF HoldsTogether
<1>1. q \in Places /\ p \in Below(q)
  BY AboveIsShorter DEF Below
<1>2. CASE \E r \in Below(p) : t[r] # Absent
  BY <1>1, <1>2, BelowBelow DEF Materialized
<1>3. CASE ~\E r \in Below(p) : t[r] # Absent
  BY <1>1, <1>3 DEF Materialized
<1>. QED  BY <1>2, <1>3

Put(d, p, v) ==
    [q \in Places |-> IF q = p THEN v
                      ELSE IF q \in Above(p) THEN Folder
                      ELSE IF q \in Below(p) THEN Absent
                      ELSE d[q]]

(* So has home after a place is written with the folders to it.             *)
LEMMA PutHolds ==
    ASSUME NEW d, HoldsTogether(d), NEW p \in Places, NEW v
    PROVE  HoldsTogether(Put(d, p, v))
<1>. SUFFICES ASSUME NEW r \in Places, Put(d, p, v)[r] # Absent, NEW q \in Above(r)
              PROVE  Put(d, p, v)[q] = Folder
  BY DEF HoldsTogether
<1>1. q \in Places /\ q # r /\ r \in Below(q)
  BY AboveIsShorter DEF Below
<1>2. CASE r = p
  BY <1>1, <1>2 DEF Put
<1>3. CASE r \in Above(p)
  <2>1. q \in Above(p) /\ q # p
    BY <1>3, AboveIsTransitive, NotBelowItself
  <2>. QED  BY <1>1, <2>1 DEF Put
<1>4. CASE r # p /\ r \notin Above(p)
  <2>1. r \notin Below(p) /\ d[r] # Absent
    BY <1>4 DEF Put
  <2>2. q # p /\ q \notin Below(p)
    BY <1>1, <2>1, BelowBelow
  <2>3. d[q] = Folder
    BY <2>1 DEF HoldsTogether
  <2>. QED  BY <1>1, <2>2, <2>3 DEF Put
<1>. QED  BY <1>2, <1>3, <1>4

(* A place goes with all that lies below it.                                *)
LEMMA RemovedHolds ==
    ASSUME NEW d, HoldsTogether(d), NEW p \in Places
    PROVE  HoldsTogether(Removed(d, p))
<1>. SUFFICES ASSUME NEW r \in Places, Removed(d, p)[r] # Absent, NEW q \in Above(r)
              PROVE  Removed(d, p)[q] = Folder
  BY DEF HoldsTogether
<1>1. q \in Places /\ r \in Below(q)
  BY AboveIsShorter DEF Below
<1>2. r \notin AtOrBelow(p) /\ d[r] # Absent
  BY DEF Removed
<1>3. q \notin AtOrBelow(p)
  BY <1>1, <1>2, BelowBelow DEF AtOrBelow
<1>. QED  BY <1>1, <1>2, <1>3 DEF Removed, HoldsTogether

(* A path that nothing leads away from is written where it is. *)
LEMMA WrittenIsPut ==
    ASSUME NEW d, NEW p \in Places, NEW v, ~Refused(d, p)
    PROVE  Written(Removed(d, p), p, v) = Put(d, p, v)
<1>1. \A q \in Above(p) : q \in Places /\ d[q] # Link
  BY AboveIsShorter DEF Refused, LinksAbove
<1>2. LinksAbove(Removed(d, p), p) = {}
  BY <1>1, EntriesAreDistinct DEF LinksAbove, Removed
<1>3. Leads(Removed(d, p), p) = p
  BY <1>2 DEF Leads
<1>. QED  BY <1>3 DEF Written, Put, Removed, AtOrBelow

(* The folders a removal takes leave none in the air.                       *)
LEMMA RemovedWithFoldersHolds ==
    ASSUME NEW d, HoldsTogether(d), NEW p \in Places, d[p] # Folder
    PROVE  HoldsTogether(RemovedWithFolders(d, p))
<1>. DEFINE e == RemovedWithFolders(d, p)
<1>. SUFFICES ASSUME NEW r \in Places, e[r] # Absent, NEW q \in Above(r)
              PROVE  e[q] = Folder
  BY DEF HoldsTogether
<1>1. q \in Places /\ r \in Below(q)
  BY AboveIsShorter DEF Below
<1>2. r # p /\ r \notin EmptiedAbove(d, p) /\ d[r] # Absent
  BY DEF RemovedWithFolders
<1>3. d[q] = Folder /\ q # p
  BY <1>2 DEF HoldsTogether
<1>4. q \notin EmptiedAbove(d, p)
  <2>. SUFFICES ASSUME q \in EmptiedAbove(d, p)
                PROVE  FALSE
    OBVIOUS
  <2>1. q \in Above(p) /\ r \in Above(p)
    BY <1>1, <1>2 DEF EmptiedAbove
  <2>2. AtOrBelow(r) \subseteq AtOrBelow(q) /\ Below(r) \subseteq Below(q)
    BY <1>1, BelowBelow DEF AtOrBelow
  <2>3. r \in EmptiedAbove(d, p)
    BY <2>1, <2>2 DEF EmptiedAbove
  <2>. QED  BY <1>2, <2>3
<1>. QED  BY <1>1, <1>3, <1>4 DEF RemovedWithFolders

-----------------------------------------------------------------------------
(* The inductive invariant of the safety properties.                        *)

Types ==
    /\ edits \in Nat /\ cmd \in Commands
    /\ disk \in [Places -> Entries \cup {Folder}]
    /\ {mark, head, tree, goal} \subseteq [Places -> Entries]
    /\ probe \subseteq Places /\ todo \subseteq Places

(* The run reads every path at which home, its mark or the head may hold    *)
(* something.                                                               *)
ReadsAll ==
    /\ phase \in {"acquired", "observed"} =>
          \A p \in Places \ probe : tree[p] = Absent /\ mark[p] = Absent
    /\ phase = "observed" => \A p \in Places \ probe : head[p] = Absent
    /\ phase \in {"checked", "writing"} => todo \subseteq probe \cap Differ(tree, goal)

(* What home holds at the paths the run read and the user has left alone    *)
(* since: what it read, and where it has written, the goal.                 *)
AsRead ==
    /\ phase \in {"acquired", "observed"} =>
          \A p \in probe \ raced : ReadEntry(disk, p) = tree[p]
    /\ phase \in {"checked", "writing", "done"} =>
          \A p \in probe \ raced :
              ReadEntry(disk, p) = IF p \in todo /\ phase # "done" THEN tree[p] ELSE goal[p]

NoFolderEmptied ==
    (phase \in {"checked", "writing", "done"} /\ raced = {}) =>
        \A p \in Places : IsEmpty(disk, p) => IsEmpty(before, p)

IInv == Types /\ HoldsTogether(disk) /\ ReadsAll /\ AsRead /\ NoFolderEmptied

(* Home as it is first is as the invariant says.                            *)
LEMMA InitIInv == Init => IInv
<1>. SUFFICES ASSUME Init PROVE IInv
  OBVIOUS
<1>. DEFINE t == [p \in Places |-> IF InTarget(p) THEN Link ELSE mark[p]]
<1>1. disk = Materialized(t) /\ mark \in [Places -> Entries]
      /\ head \in [Places -> Entries]
  BY DEF Init, FleetTrees, Trees
<1>2. t \in [Places -> Entries]
  BY <1>1 DEF Entries
<1>3. disk \in [Places -> Entries \cup {Folder}]
  BY <1>1, <1>2 DEF Materialized
<1>4. Types
  BY <1>1, <1>3 DEF Init, Types, EmptyTree, Entries, Commands
<1>5. HoldsTogether(disk)
  BY <1>1, MaterializedHolds
<1>6. ReadsAll /\ AsRead /\ NoFolderEmptied
  BY DEF Init, ReadsAll, AsRead, NoFolderEmptied
<1>. QED  BY <1>4, <1>5, <1>6 DEF IInv

(* A run that reads home finds there what it holds.                         *)
LEMMA SnapshotReads ==
    ASSUME NEW d, NEW t, NEW paths, HoldsTogether(d), NEW p \in Places, p \in paths
    PROVE  Snapshot(t, d, paths)[p] = ReadEntry(d, p)
<1>1. CASE BeneathManagedLink(t, d, p)
  <2>1. PICK q \in Above(p) : d[q] = Link
    BY <1>1 DEF BeneathManagedLink
  <2>2. d[p] = Absent
    BY <2>1, EntriesAreDistinct DEF HoldsTogether
  <2>. QED  BY <1>1, <2>2 DEF Snapshot, ReadEntry, IsEntry
<1>2. CASE ~BeneathManagedLink(t, d, p)
  BY <1>2 DEF Snapshot
<1>. QED  BY <1>1, <1>2

(* What is read at a place is an entry: a folder reads as nothing.          *)
LEMMA ReadEntryIsEntry ==
    ASSUME NEW d \in [Places -> Entries \cup {Folder}], NEW p \in Places
    PROVE  ReadEntry(d, p) \in Entries
BY DEF ReadEntry, IsEntry, Entries

(* A tree amended with what home holds is one of entries.                   *)
LEMMA SnapshotIsTyped ==
    ASSUME NEW d \in [Places -> Entries \cup {Folder}],
           NEW t \in [Places -> Entries], NEW paths
    PROVE  Snapshot(t, d, paths) \in [Places -> Entries]
<1>1. Absent \in Entries
  BY DEF Entries
<1>. QED  BY <1>1, ReadEntryIsEntry DEF Snapshot

(* Acquire reads all the trees the run knows hold anything.                 *)
LEMMA AcquireKeeps ==
    ASSUME IInv, NEW c \in Commands, Acquire(c)
    PROVE  IInv'
<1>. DEFINE paths == Managed(tree) \cup Managed(mark)
<1>1. /\ UNCHANGED <<disk, mark, head, goal, todo, edits>>
      /\ Reads(paths, "acquired")
      /\ cmd' \in Commands
  BY DEF Acquire
<1>2. Types /\ HoldsTogether(disk)
  BY DEF IInv
<1>3. CASE Readable(tree, disk, paths)
  <2>1. tree' = Snapshot(tree, disk, paths) /\ probe' = paths /\ phase' = "acquired"
    BY <1>1, <1>3 DEF Reads
  <2>2. paths \subseteq Places
    BY DEF Managed
  <2>3. tree' \in [Places -> Entries]
    BY <1>2, <2>1, SnapshotIsTyped DEF Types
  <2>4. Types'
    BY <1>1, <1>2, <2>1, <2>2, <2>3 DEF Types
  <2>5. \A p \in Places \ paths : tree'[p] = Absent /\ mark[p] = Absent
    BY <2>1 DEF Managed, Snapshot
  <2>6. ReadsAll'
    BY <1>1, <2>1, <2>5 DEF ReadsAll
  <2>7. AsRead'
    BY <1>1, <1>2, <2>1, <2>2, SnapshotReads DEF AsRead, ReadEntry, IsEntry
  <2>8. NoFolderEmptied'
    BY <2>1 DEF NoFolderEmptied
  <2>. QED  BY <1>1, <1>2, <2>4, <2>6, <2>7, <2>8 DEF IInv, HoldsTogether
<1>4. CASE ~Readable(tree, disk, paths)
  <2>1. phase' = "stopped" /\ UNCHANGED <<tree, probe, raced>>
    BY <1>1, <1>4 DEF Reads
  <2>. QED
    BY <1>1, <1>2, <2>1
    DEF IInv, Types, HoldsTogether, ReadsAll, AsRead, NoFolderEmptied
<1>. QED  BY <1>3, <1>4

(* Observe reads what the head holds besides.                               *)
LEMMA ObserveKeeps ==
    ASSUME IInv, Observe
    PROVE  IInv'
<1>. DEFINE paths == probe \cup Managed(head)
<1>1. /\ UNCHANGED <<disk, mark, head, goal, todo, edits>>
      /\ phase = "acquired" /\ cmd' = cmd
  BY DEF Observe, counters
<1>2. Types /\ HoldsTogether(disk) /\ ReadsAll /\ AsRead
  BY DEF IInv
<1>3. CASE Managed(head) \subseteq probe
  <2>1. phase' = "observed" /\ UNCHANGED <<tree, probe, raced>>
    BY <1>3 DEF Observe
  <2>2. \A p \in Places \ probe : head[p] = Absent
    BY <1>3 DEF Managed
  <2>3. ReadsAll'
    BY <1>1, <1>2, <2>1, <2>2 DEF ReadsAll
  <2>4. AsRead' /\ NoFolderEmptied'
    BY <1>1, <1>2, <2>1 DEF AsRead, ReadEntry, IsEntry, NoFolderEmptied
  <2>. QED  BY <1>1, <1>2, <2>1, <2>3, <2>4 DEF IInv, Types, HoldsTogether
<1>4. CASE ~(Managed(head) \subseteq probe) /\ Readable(tree, disk, paths)
  <2>1. tree' = Snapshot(tree, disk, paths) /\ probe' = paths /\ phase' = "observed"
    BY <1>4 DEF Observe, Reads
  <2>2. paths \subseteq Places
    BY <1>2 DEF Managed, Types
  <2>3. tree' \in [Places -> Entries]
    BY <1>2, <2>1, SnapshotIsTyped DEF Types
  <2>4. Types'
    BY <1>1, <1>2, <2>1, <2>2, <2>3 DEF Types
  <2>5. \A p \in Places \ paths : tree'[p] = Absent /\ mark[p] = Absent /\ head[p] = Absent
    BY <1>1, <1>2, <2>1 DEF Managed, Snapshot, ReadsAll
  <2>6. ReadsAll'
    BY <1>1, <2>1, <2>5 DEF ReadsAll
  <2>7. AsRead'
    BY <1>1, <1>2, <2>1, <2>2, SnapshotReads DEF AsRead, ReadEntry, IsEntry
  <2>8. NoFolderEmptied'
    BY <2>1 DEF NoFolderEmptied
  <2>. QED  BY <1>1, <1>2, <2>4, <2>6, <2>7, <2>8 DEF IInv, HoldsTogether
<1>5. CASE ~(Managed(head) \subseteq probe) /\ ~Readable(tree, disk, paths)
  <2>1. phase' = "stopped" /\ UNCHANGED <<tree, probe, raced>>
    BY <1>5 DEF Observe, Reads
  <2>. QED
    BY <1>1, <1>2, <2>1
    DEF IInv, Types, HoldsTogether, ReadsAll, AsRead, NoFolderEmptied
<1>. QED  BY <1>3, <1>4, <1>5

(* A status ends the run, whatever it read.                                 *)
LEMMA LookKeeps ==
    ASSUME IInv, NEW a \in Places, Look(a)
    PROVE  IInv'
<1>. DEFINE paths == probe \cup Untracked(a)
<1>1. /\ UNCHANGED <<disk, mark, head, cmd, goal, todo, edits>>
      /\ phase' = "stopped"
      /\ \/ UNCHANGED <<tree, probe>>
         \/ tree' = Snapshot(tree, disk, paths) /\ probe' = paths
  BY DEF Look, Reads, counters
<1>2. Types /\ HoldsTogether(disk)
  BY DEF IInv
<1>3. paths \subseteq Places
  BY <1>2 DEF Types, Untracked, EntriesBelow, Below
<1>4. Types'
  BY <1>1, <1>2, <1>3, SnapshotIsTyped DEF Types
<1>. QED
  BY <1>1, <1>2, <1>4 DEF IInv, HoldsTogether, ReadsAll, AsRead, NoFolderEmptied

-----------------------------------------------------------------------------
(* The goal. *)

(* The merge holds entries and conflicts.                                   *)
LEMMA MergedIsTyped ==
    ASSUME Types
    PROVE  Merged(tree) \in [Places -> Entries \cup {Conflict}]
<1>1. \A p \in Places : {tree[p], head[p], Absent} \subseteq Entries
  BY DEF Types, Entries
<1>. QED  BY <1>1 DEF Merged

(* Where no side holds anything the merge holds nothing, or a conflict.     *)
LEMMA MergedOfNothing ==
    ASSUME NEW p \in Places, tree[p] = Absent, head[p] = Absent
    PROVE  Merged(tree)[p] \in {Absent, Conflict}
BY DEF Merged

(* So does what any command makes of it.                                    *)
LEMMA GoalIsTyped ==
    ASSUME Types, cmd \in Commands \ {"status"}, NEW paths
    PROVE  Goal(paths) \in [Places -> Entries \cup {Conflict}]
<1>1. \A p \in Places : /\ {tree[p], head[p], Absent} \subseteq Entries
                         /\ Merged(tree)[p] \in Entries \cup {Conflict}
  BY MergedIsTyped DEF Types, Entries
<1>2. CASE cmd = "sync"
  BY <1>2, MergedIsTyped DEF Goal
<1>3. CASE cmd = "discard"
  BY <1>1, <1>3 DEF Goal, HeadAt
<1>4. CASE cmd = "continue"
  BY <1>1, <1>4 DEF Goal, HomeAtConflicts
<1>5. CASE cmd = "abort"
  BY <1>5 DEF Goal, Types
<1>. QED  BY <1>2, <1>3, <1>4, <1>5 DEF Commands

(* No command writes where neither home nor the head holds anything.        *)
LEMMA GoalOfNothing ==
    ASSUME cmd \in Commands \ {"status"}, NEW paths, NEW p \in Places,
           tree[p] = Absent, head[p] = Absent
    PROVE  Goal(paths)[p] \in {Absent, Conflict}
<1>1. Merged(tree)[p] \in {Absent, Conflict}
  BY MergedOfNothing
<1>2. CASE cmd = "sync"
  BY <1>1, <1>2 DEF Goal
<1>3. CASE cmd = "discard"
  BY <1>1, <1>3 DEF Goal, HeadAt
<1>4. CASE cmd = "continue"
  BY <1>1, <1>4 DEF Goal, HomeAtConflicts
<1>5. CASE cmd = "abort"
  BY <1>5 DEF Goal
<1>. QED  BY <1>2, <1>3, <1>4, <1>5 DEF Commands

(* What a run sets out to change is among what it read.                     *)
LEMMA DecideKeeps ==
    ASSUME IInv, NEW paths, Decide(paths)
    PROVE  IInv'
<1>1. /\ phase = "observed" /\ cmd # "status"
      /\ UNCHANGED <<disk, mark, head, cmd, tree, probe, raced, edits>>
  BY DEF Decide, counters
<1>2. Types /\ HoldsTogether(disk) /\ ReadsAll /\ AsRead
  BY DEF IInv
<1>3. CASE phase' = "stopped" /\ UNCHANGED <<goal, todo, before>>
  BY <1>1, <1>2, <1>3
  DEF IInv, Types, HoldsTogether, ReadsAll, AsRead, NoFolderEmptied
<1>4. CASE /\ goal' = Goal(paths) /\ todo' = Differ(tree, goal')
           /\ before' = disk /\ phase' = "checked"
           /\ \A p \in Places : Goal(paths)[p] # Conflict
  <2>0. cmd \in Commands \ {"status"}
    BY <1>1, <1>2 DEF Types
  <2>1. goal' \in [Places -> Entries]
    BY <1>2, <1>4, <2>0, GoalIsTyped DEF Types
  <2>2. todo' \subseteq Places
    BY <1>4 DEF Differ
  <2>3. Types'
    BY <1>1, <1>2, <2>1, <2>2 DEF Types
  <2>4. \A p \in Places \ probe : tree[p] = Absent /\ goal'[p] = Absent
    BY <1>1, <1>2, <1>4, <2>0, GoalOfNothing DEF ReadsAll, Types
  <2>5. ReadsAll'
    BY <1>1, <1>4, <2>4 DEF ReadsAll, Differ
  <2>6. AsRead'
    <3>1. \A p \in probe : p \notin todo' => tree[p] = goal'[p]
      BY <1>2, <1>4 DEF Differ, Types
    <3>2. \A p \in probe \ raced : ReadEntry(disk, p) = tree[p]
      BY <1>1, <1>2 DEF AsRead
    <3>. QED  BY <1>1, <1>4, <3>1, <3>2 DEF AsRead, ReadEntry, IsEntry
  <2>7. NoFolderEmptied'
    BY <1>1, <1>4 DEF NoFolderEmptied, IsEmpty
  <2>. QED  BY <1>1, <1>2, <2>3, <2>5, <2>6, <2>7 DEF IInv, HoldsTogether
<1>. QED  BY <1>3, <1>4 DEF Decide, ConflictsIn

(* A removal takes its path and folders it was the last entry of.           *)
LEMMA RemoveEntryKeeps ==
    ASSUME IInv, NEW p \in Places, RemoveEntry(p)
    PROVE  IInv'
<1>1. /\ phase = "writing" /\ p \in todo /\ goal[p] = Absent
      /\ UNCHANGED <<mark, head, cmd, tree, probe, goal, before, raced, edits>>
  BY DEF RemoveEntry, Reaches, counters, Removals
<1>2. Types /\ HoldsTogether(disk) /\ ReadsAll /\ AsRead /\ NoFolderEmptied
  BY DEF IInv
<1>3. CASE phase' = "failed" /\ UNCHANGED <<disk, todo>>
  BY <1>1, <1>2, <1>3
  DEF IInv, Types, HoldsTogether, ReadsAll, AsRead, NoFolderEmptied
<1>4. CASE /\ ~Refused(disk, p) /\ disk[Leads(disk, p)] # Folder
           /\ disk' = RemovedWithFolders(disk, Leads(disk, p))
           /\ todo' = todo \ {p} /\ phase' = phase
  <2>1. disk' = RemovedWithFolders(disk, p) /\ disk[p] # Folder
    BY <1>4 DEF Leads, Refused
  <2>2. HoldsTogether(disk')
    BY <1>2, <2>1, RemovedWithFoldersHolds
  <2>3. Types'
    <3>1. disk' \in [Places -> Entries \cup {Folder}]
      BY <1>2, <2>1 DEF RemovedWithFolders, Types, Entries
    <3>. QED  BY <1>1, <1>2, <1>4, <3>1 DEF Types
  <2>4. ReadsAll'
    BY <1>1, <1>2, <1>4 DEF ReadsAll, Differ
  <2>5. \A q \in Places : ReadEntry(disk', q) = IF q = p THEN Absent ELSE ReadEntry(disk, q)
    <3>. SUFFICES ASSUME NEW q \in Places
                  PROVE  ReadEntry(disk', q) = IF q = p THEN Absent ELSE ReadEntry(disk, q)
      OBVIOUS
    <3>1. q \in EmptiedAbove(disk, p) => disk[q] = Folder
      BY DEF EmptiedAbove, AtOrBelow
    <3>. QED  BY <2>1, <3>1 DEF RemovedWithFolders, ReadEntry, IsEntry
  <2>6. AsRead'
    BY <1>1, <1>2, <1>4, <2>5 DEF AsRead, Types
  <2>7. NoFolderEmptied'
    <3>. SUFFICES ASSUME raced = {}, NEW q \in Places, IsEmpty(disk', q)
                  PROVE  IsEmpty(before, q)
      BY <1>1 DEF NoFolderEmptied, IsEmpty
    <3>1. disk[p] # Absent
      BY <1>1, <1>2 DEF AsRead, ReadsAll, Differ, ReadEntry
    <3>2. \A r \in Above(p) : disk[r] = Folder
      BY <1>2, <3>1 DEF HoldsTogether
    <3>3. /\ disk[q] = Folder /\ q # p /\ q \notin EmptiedAbove(disk, p)
          /\ \A r \in Below(q) : r \in {p} \cup EmptiedAbove(disk, p) \/ disk[r] = Absent
      BY <2>1, EntriesAreDistinct DEF IsEmpty, RemovedWithFolders, Below
    <3>4. q \notin Above(p)
      BY <3>2, <3>3 DEF EmptiedAbove
    <3>5. p \notin Below(q) /\ Above(p) \cap Below(q) = {}
      BY <3>4, AboveIsTransitive DEF Below
    <3>6. EmptiedAbove(disk, p) \subseteq Above(p)
      BY DEF EmptiedAbove
    <3>7. IsEmpty(disk, q)
      BY <3>3, <3>5, <3>6 DEF IsEmpty
    <3>. QED  BY <1>1, <1>2, <3>7 DEF NoFolderEmptied
  <2>. QED  BY <2>2, <2>3, <2>4, <2>6, <2>7 DEF IInv
<1>. QED  BY <1>3, <1>4 DEF RemoveEntry, Reaches, EndsPartWay

(* A write brings its path, and folders that are not empty.                 *)
LEMMA WriteEntryKeeps ==
    ASSUME IInv, NEW p \in Places, WriteEntry(p)
    PROVE  IInv'
<1>1. /\ phase = "writing" /\ p \in todo /\ goal[p] # Absent
      /\ UNCHANGED <<mark, head, cmd, tree, probe, goal, before, raced, edits>>
  BY DEF WriteEntry, Reaches, counters, Writes
<1>2. Types /\ HoldsTogether(disk) /\ ReadsAll /\ AsRead /\ NoFolderEmptied
  BY DEF IInv
<1>3. CASE phase' = "failed" /\ UNCHANGED <<disk, todo>>
  BY <1>1, <1>2, <1>3
  DEF IInv, Types, HoldsTogether, ReadsAll, AsRead, NoFolderEmptied
<1>4. CASE /\ ~Refused(disk, p) /\ EntriesBelow(disk, p) = {}
           /\ \A q \in Above(p) : disk[q] \in {Folder, Absent, Link}
           /\ disk' = Written(Removed(disk, p), p, goal[p])
           /\ todo' = todo \ {p} /\ phase' = phase
  <2>1. disk' = Put(disk, p, goal[p])
    BY <1>4, WrittenIsPut
  <2>2. HoldsTogether(disk')
    BY <1>2, <2>1, PutHolds
  <2>3. goal[p] \in Entries \ {Absent} /\ goal[p] # Folder
    BY <1>1, <1>2, EntriesAreDistinct DEF Types, Entries
  <2>4. Types'
    <3>1. disk' \in [Places -> Entries \cup {Folder}]
      BY <1>2, <2>1, <2>3 DEF Put, Types, Entries
    <3>. QED  BY <1>1, <1>2, <1>4, <3>1 DEF Types
  <2>5. ReadsAll'
    BY <1>1, <1>2, <1>4 DEF ReadsAll, Differ
  <2>6. \A q \in Places : ReadEntry(disk', q) = IF q = p THEN goal[p] ELSE ReadEntry(disk, q)
    <3>. SUFFICES ASSUME NEW q \in Places
                  PROVE  ReadEntry(disk', q) = IF q = p THEN goal[p] ELSE ReadEntry(disk, q)
      OBVIOUS
    <3>1. q \in Above(p) => disk[q] \in {Folder, Absent}
      BY <1>4 DEF Refused, LinksAbove
    <3>2. q \in Below(p) => disk[q] \in {Folder, Absent}
      BY <1>4 DEF EntriesBelow, IsEntry
    <3>. QED  BY <2>1, <2>3, <3>1, <3>2 DEF Put, ReadEntry, IsEntry
  <2>7. AsRead'
    BY <1>1, <1>2, <1>4, <2>6 DEF AsRead, Types
  <2>8. NoFolderEmptied'
    <3>. SUFFICES ASSUME raced = {}, NEW q \in Places, IsEmpty(disk', q)
                  PROVE  IsEmpty(before, q)
      BY <1>1 DEF NoFolderEmptied, IsEmpty
    <3>1. q # p /\ q \notin Above(p) /\ q \notin Below(p)
      BY <1>1, <2>1, <2>3, EntriesAreDistinct, NotBelowItself DEF IsEmpty, Put, Below
    <3>2. disk[q] = Folder
      BY <2>1, <3>1 DEF IsEmpty, Put
    <3>3. \A r \in Below(q) : r # p /\ r \notin Above(p) /\ r \notin Below(p)
      BY <3>1, AboveIsTransitive, AboveIsAChain DEF Below
    <3>4. IsEmpty(disk, q)
      BY <2>1, <3>2, <3>3 DEF IsEmpty, Put, Below
    <3>. QED  BY <1>1, <1>2, <3>4 DEF NoFolderEmptied
  <2>. QED  BY <2>2, <2>4, <2>5, <2>7, <2>8 DEF IInv
<1>. QED  BY <1>3, <1>4 DEF WriteEntry, Reaches, EndsPartWay

(* The user's writes are remembered as raced: nothing is claimed of them.   *)
LEMMA UserKeeps ==
    ASSUME IInv, User
    PROVE  IInv'
<1>1. PICK p \in Places : UserRemoves(p) \/ \E v \in Files \cup {Link} : UserPuts(p, v)
  BY DEF User
<1>2. Types /\ HoldsTogether(disk) /\ ReadsAll /\ AsRead
  BY DEF IInv
<1>3. /\ edits' = edits + 1
      /\ raced' = raced \cup {q \in Places : disk'[q] # disk[q]}
      /\ UNCHANGED <<mark, head, phase, cmd, tree, probe, goal, todo, before>>
  BY <1>1 DEF UserRemoves, UserPuts, UserWrites, run
<1>4. disk' \in [Places -> Entries \cup {Folder}] /\ HoldsTogether(disk') /\ disk' # disk
  <2>1. CASE UserRemoves(p)
    BY <1>2, <2>1, RemovedHolds DEF UserRemoves, UserWrites, Removed, Types, Entries
  <2>2. ASSUME NEW v \in Files \cup {Link}, UserPuts(p, v)
        PROVE  disk' \in [Places -> Entries \cup {Folder}] /\ HoldsTogether(disk')
               /\ disk' # disk
    <3>1. disk' = Put(disk, p, v) /\ disk' # disk
      BY <2>2 DEF UserPuts, UserWrites, Put
    <3>2. Put(disk, p, v) \in [Places -> Entries \cup {Folder}]
      BY <1>2 DEF Put, Types, Entries
    <3>. QED  BY <1>2, <3>1, <3>2, PutHolds
  <2>. QED  BY <1>1, <2>1, <2>2
<1>5. Types' /\ ReadsAll'
  BY <1>2, <1>3, <1>4 DEF Types, ReadsAll
<1>6. \A q \in Places : q \notin raced' => q \notin raced /\ disk'[q] = disk[q]
  BY <1>3
<1>7. AsRead'
  BY <1>2, <1>3, <1>6 DEF AsRead, ReadEntry, IsEntry, Types
<1>8. raced' # {}
  BY <1>2, <1>3, <1>4 DEF Types
<1>9. NoFolderEmptied'
  BY <1>8 DEF NoFolderEmptied
<1>. QED  BY <1>4, <1>5, <1>7, <1>9 DEF IInv

(* The other steps write nothing in home.                                   *)
LEMMA CheckOutStartsKeeps ==
    ASSUME IInv, CheckOutStarts
    PROVE  IInv'
<1>1. /\ phase = "checked" /\ phase' \in {"writing", "refused"}
      /\ UNCHANGED <<disk, mark, head, cmd, tree, probe, goal, todo, before, raced, edits>>
  BY DEF CheckOutStarts, counters
<1>. QED
  BY <1>1 DEF IInv, Types, HoldsTogether, ReadsAll, AsRead, ReadEntry, IsEntry,
              NoFolderEmptied, IsEmpty, Differ

(* A run that ends part-way claims nothing of home.                         *)
LEMMA EndsKeep ==
    ASSUME IInv, WriteFails \/ Finish
    PROVE  IInv'
<1>1. /\ phase' \in {"failed", "idle"}
      /\ UNCHANGED <<disk, mark, head, tree, edits>>
      /\ cmd' \in {cmd, "sync"} /\ probe' \in {probe, {}}
      /\ goal' \in {goal, EmptyTree} /\ todo' \in {todo, {}}
  BY DEF WriteFails, EndsPartWay, Finish, counters
<1>2. EmptyTree \in [Places -> Entries] /\ "sync" \in Commands
  BY DEF EmptyTree, Entries, Commands
<1>3. Types'
  BY <1>1, <1>2 DEF IInv, Types
<1>. QED
  BY <1>1, <1>3 DEF IInv, HoldsTogether, ReadsAll, AsRead, NoFolderEmptied

(* With nothing left to write, home holds the goal.                         *)
LEMMA CheckOutEndsKeeps ==
    ASSUME IInv, CheckOutEnds
    PROVE  IInv'
<1>1. /\ phase = "writing" /\ todo = {} /\ phase' = "done" /\ tree' = goal /\ mark' = head
      /\ UNCHANGED <<disk, head, cmd, probe, goal, todo, before, raced, edits>>
  BY DEF CheckOutEnds, counters
<1>2. Types' /\ HoldsTogether(disk') /\ ReadsAll'
  BY <1>1 DEF IInv, Types, HoldsTogether, ReadsAll
<1>3. AsRead' /\ NoFolderEmptied'
  BY <1>1 DEF IInv, AsRead, ReadEntry, IsEntry, NoFolderEmptied, IsEmpty
<1>. QED  BY <1>1, <1>2, <1>3 DEF IInv, HoldsTogether

(* The invariant is about the variables alone.                              *)
LEMMA StutterKeeps ==
    ASSUME IInv, UNCHANGED vars
    PROVE  IInv'
BY DEF IInv, Types, HoldsTogether, ReadsAll, AsRead, ReadEntry, IsEntry,
       NoFolderEmptied, IsEmpty, Differ, vars, run, counters

(* Every step keeps the invariant.                                          *)
LEMMA NextKeeps ==
    ASSUME IInv, [Next]_vars
    PROVE  IInv'
<1>1. ASSUME NEW c \in Commands, Acquire(c) PROVE IInv'
  BY <1>1, AcquireKeeps
<1>2. CASE Observe
  BY <1>2, ObserveKeeps
<1>10. ASSUME NEW a \in Places, Look(a) PROVE IInv'
  BY <1>10, LookKeeps
<1>3. ASSUME NEW paths, Decide(paths) PROVE IInv'
  BY <1>3, DecideKeeps
<1>4. CASE CheckOutStarts
  BY <1>4, CheckOutStartsKeeps
<1>5. ASSUME NEW p \in Places, RemoveEntry(p) \/ WriteEntry(p) PROVE IInv'
  BY <1>5, RemoveEntryKeeps, WriteEntryKeeps
<1>6. CASE CheckOutEnds
  BY <1>6, CheckOutEndsKeeps
<1>7. CASE WriteFails \/ Finish
  BY <1>7, EndsKeep
<1>8. CASE User
  BY <1>8, UserKeeps
<1>9. CASE UNCHANGED vars
  BY <1>9, StutterKeeps
<1>. QED
  BY <1>1, <1>2, <1>3, <1>4, <1>5, <1>6, <1>7, <1>8, <1>9, <1>10 DEF Next, RunStep

(* The inductive invariant holds of every home, whatever stands in it.      *)
THEOREM HomeInvariant == Spec => []IInv
<1>. QED  BY InitIInv, NextKeeps, PTL DEF Spec

-----------------------------------------------------------------------------
(* A run that has written home, with the user out of the way, leaves it     *)
(* holding the goal and no new empty folder.                                *)
THEOREM GoalTheorem == Spec => []HomeHoldsTheGoal
<1>1. IInv => HomeHoldsTheGoal
  BY DEF IInv, AsRead, NoFolderEmptied, HomeHoldsTheGoal
<1>. QED  BY <1>1, HomeInvariant, PTL

(* A run removes and writes nothing in home but what it set out to, however *)
(* the user and it take turns (working_copy.rs, check_out, home_disk_path). *)
TouchesOnly(p) ==
    disk'[p] # disk[p] =>
        /\ IsEntry(disk, p) => p \in todo /\ (disk[p] = tree[p] \/ p \in raced)
        /\ IsEntry(disk', p) => p \in todo /\ disk'[p] = goal[p]

(* A step of a run either leaves home, or moves one path to its goal.       *)
LEMMA StepsTouchOnly ==
    ASSUME IInv, [Next]_vars, ByTheRun, NEW p \in Places
    PROVE  TouchesOnly(p)
<1>1. Types /\ ReadsAll /\ AsRead
  BY DEF IInv
<1>2. ASSUME NEW q \in Places, RemoveEntry(q), disk' # disk
      PROVE  TouchesOnly(p)
  <2>1. /\ phase = "writing" /\ q \in todo
        /\ disk' = RemovedWithFolders(disk, q)
    BY <1>2 DEF RemoveEntry, Reaches, EndsPartWay, Leads, Refused
  <2>2. disk'[p] = disk[p] \/ disk'[p] = Absent
    BY <1>1, <2>1 DEF RemovedWithFolders
  <2>3. disk'[p] # disk[p] => p = q \/ disk[p] = Folder
    BY <1>1, <2>1 DEF RemovedWithFolders, EmptiedAbove, AtOrBelow
  <2>4. IsEntry(disk, q) => disk[q] = tree[q] \/ q \in raced
    BY <1>1, <2>1 DEF ReadsAll, AsRead, ReadEntry
  <2>. QED  BY <2>1, <2>2, <2>3, <2>4 DEF TouchesOnly, IsEntry
<1>3. ASSUME NEW q \in Places, WriteEntry(q), disk' # disk
      PROVE  TouchesOnly(p)
  <2>1. /\ phase = "writing" /\ q \in todo
        /\ ~Refused(disk, q) /\ EntriesBelow(disk, q) = {}
        /\ \A r \in Above(q) : disk[r] \in {Folder, Absent, Link}
        /\ disk' = Put(disk, q, goal[q])
    BY <1>3, WrittenIsPut DEF WriteEntry, Reaches, EndsPartWay
  <2>2. p \in Above(q) => disk[p] \in {Folder, Absent}
    BY <2>1 DEF Refused, LinksAbove
  <2>3. p \in Below(q) => disk[p] \in {Folder, Absent}
    BY <2>1 DEF EntriesBelow, IsEntry
  <2>4. IsEntry(disk, q) => disk[q] = tree[q] \/ q \in raced
    BY <1>1, <2>1 DEF ReadsAll, AsRead, ReadEntry
  <2>. QED  BY <2>1, <2>2, <2>3, <2>4 DEF TouchesOnly, IsEntry, Put
<1>4. disk' # disk => \E q \in Places : RemoveEntry(q) \/ WriteEntry(q)
  <2>1. User => FALSE
    BY <1>1 DEF User, UserRemoves, UserPuts, UserWrites, ByTheRun, Types
  <2>. QED
    BY <2>1 DEF Next, RunStep, Acquire, Observe, Look, Decide, CheckOutStarts, CheckOutEnds,
                Finish, WriteFails, EndsPartWay, vars
<1>. QED  BY <1>2, <1>3, <1>4 DEF TouchesOnly

(* So whatever stands in home and whenever the user writes, no step of run *)
(* takes or brings an entry elsewhere (working_copy.rs, check_out).         *)
THEOREM TouchesTheorem == Spec => TouchesOnlyItsPaths
<1>1. ASSUME IInv, [Next]_vars
      PROVE  [ByTheRun => \A p \in Places : TouchesOnly(p)]_vars
  BY <1>1, StepsTouchOnly
<1>2. [ByTheRun => \A p \in Places : TouchesOnly(p)]_vars
        => [ByTheRun =>
             \A p \in Places : disk'[p] # disk[p] =>
                /\ IsEntry(disk, p) => p \in todo /\ (disk[p] = tree[p] \/ p \in raced)
                /\ IsEntry(disk', p) => p \in todo /\ disk'[p] = goal[p]]_vars
  BY DEF TouchesOnly
<1>. QED  BY <1>1, <1>2, HomeInvariant, PTL DEF Spec, TouchesOnlyItsPaths

-----------------------------------------------------------------------------
(* No run writes a tree with an entry beneath another: where a folder meets *)
(* an entry, the highest path that is not merged within decides for all     *)
(* that lies below it.                                                      *)

(* A set of numbers has a least member.                                     *)
LEMMA NatsHaveALeast ==
    ASSUME NEW T \in SUBSET Nat, T # {}
    PROVE  \E x \in T : \A y \in T : x <= y
<1>1. PICK x \in T : \A y \in T : <<y, x>> \notin OpToRel(<, Nat)
  BY NatLessThanWellFounded, WFMin
<1>2. \A y \in T : ~(y < x)
  BY <1>1 DEF OpToRel
<1>. QED  BY <1>2

Deciding(home, p) == {q \in {p} \cup Above(p) : q = p \/ Side(home, q) # "within"}

(* DecidedAt is what its name says: the choice in it is never of nothing.   *)
LEMMA TheHighestDecides ==
    ASSUME NEW home, NEW p \in Places
    PROVE  /\ DecidedAt(home, p) \in Deciding(home, p)
           /\ \A r \in Deciding(home, p) : Len(DecidedAt(home, p)) <= Len(r)
<1>. DEFINE lens == {Len(q) : q \in Deciding(home, p)}
<1>1. \A q \in Deciding(home, p) : Len(q) \in Nat
  BY AboveIsShorter, PlacesAreClosed DEF Deciding
<1>2. lens \in SUBSET Nat /\ lens # {}
  BY <1>1 DEF Deciding
<1>. HIDE DEF lens
<1>3. PICK x \in lens : \A y \in lens : x <= y
  BY <1>2, NatsHaveALeast
<1>4. \E q \in Deciding(home, p) : \A r \in Deciding(home, p) : Len(q) <= Len(r)
  BY <1>3 DEF lens
<1>5. DecidedAt(home, p) = CHOOSE q \in Deciding(home, p) : \A r \in Deciding(home, p) : Len(q) <= Len(r)
  BY DEF DecidedAt, Deciding
<1>. QED  BY <1>4, <1>5

(* A path is decided where one above it is, or that is merged within.       *)
LEMMA DecidedAlike ==
    ASSUME NEW home, NEW p \in Places, NEW q \in Above(p)
    PROVE  DecidedAt(home, p) = DecidedAt(home, q) \/ Side(home, DecidedAt(home, q)) = "within"
<1>. DEFINE r == DecidedAt(home, p)
            x == DecidedAt(home, q)
<1>1. q \in Places /\ Len(q) < Len(p)
  BY AboveIsShorter
<1>2. /\ r \in Deciding(home, p) /\ \A s \in Deciding(home, p) : Len(r) <= Len(s)
      /\ x \in Deciding(home, q) /\ \A s \in Deciding(home, q) : Len(x) <= Len(s)
  BY <1>1, TheHighestDecides
<1>. HIDE DEF r, x
<1>. SUFFICES ASSUME Side(home, x) # "within"
              PROVE  r = x
  BY DEF r, x
<1>3. /\ r \in {p} \cup Above(p) /\ (r = p \/ Side(home, r) # "within")
      /\ x \in {q} \cup Above(q)
  BY <1>2 DEF Deciding
<1>4. x \in Above(p) /\ x \in Deciding(home, p)
  BY <1>3, AboveIsTransitive DEF Deciding
<1>5. /\ \A s \in {p, q, r, x} : Len(s) \in Nat
      /\ Len(x) <= Len(q) /\ Len(r) <= Len(x)
  BY <1>1, <1>2, <1>3, <1>4, AboveIsShorter, PlacesAreClosed
<1>6. r \in Above(p) /\ Side(home, r) # "within"
  BY <1>1, <1>3, <1>5
<1>7. q \notin Above(r)
  BY <1>5, <1>6, AboveIsShorter
<1>8. r \in Deciding(home, q)
  BY <1>6, <1>7, AboveIsAChain DEF Deciding
<1>9. Len(x) = Len(r)
  BY <1>2, <1>5, <1>8
<1>10. r \notin Above(x) /\ x \notin Above(r)
  BY <1>4, <1>5, <1>6, <1>9, AboveIsShorter
<1>. QED  BY <1>4, <1>6, <1>10, AboveIsAChain

(* The merge makes nothing up.                                              *)
LEMMA MergedIsOneOf ==
    ASSUME NEW home, NEW p \in Places
    PROVE  Merged(home)[p] \in {home[p], head[p], Absent, Conflict}
BY DEF Merged

(* The merge holds an entry below another only where it holds conflicts.    *)
LEMMA MergedNests ==
    ASSUME NEW home, IsTree(home), IsTree(head),
           NEW p \in Places, NEW q \in Above(p), Merged(home)[p] # Absent
    PROVE  Merged(home)[q] = Absent \/ (Merged(home)[q] = Conflict /\ Merged(home)[p] = Conflict)
<1>1. q \in Places
  BY AboveIsShorter
<1>2. /\ home[p] # Absent => home[q] = Absent
      /\ head[p] # Absent => head[q] = Absent
  BY <1>1 DEF IsTree, Managed
<1>3. CASE Side(home, DecidedAt(home, q)) = "within"
  BY <1>1, <1>3 DEF Merged
<1>4. CASE DecidedAt(home, p) = DecidedAt(home, q)
  BY <1>1, <1>2, <1>4 DEF Merged
<1>. QED  BY <1>3, <1>4, DecidedAlike

(* What discard writes has nothing below an entry.                          *)
LEMMA HeadAtIsATree ==
    ASSUME IsTree(tree), IsTree(head), NEW paths \in SUBSET Places,
           \A n \in paths : tree[n] # head[n],
           \A p \in Places : HeadAt(paths)[p] # Conflict,
           NEW p \in Places, NEW q \in Above(p), HeadAt(paths)[p] # Absent
    PROVE  HeadAt(paths)[q] = Absent
<1>. DEFINE G == HeadAt(paths)
            Under(r) == \E n \in paths : r \in AtOrBelow(n)
<1>. SUFFICES ASSUME G[q] # Absent
              PROVE  FALSE
  OBVIOUS
<1>1. q \in Places /\ p \in Below(q) /\ G[p] # Conflict /\ G[q] # Conflict
  BY AboveIsShorter DEF Below
<1>2. CASE Under(q)
  <2>1. Under(p)
    BY <1>1, <1>2, BelowBelow DEF AtOrBelow
  <2>2. head[p] # Absent /\ head[q] # Absent
    BY <1>1, <1>2, <2>1 DEF HeadAt
  <2>. QED  BY <1>1, <2>2 DEF IsTree, Managed
<1>3. CASE ~Under(q) /\ Under(p)
  <2>1. PICK n \in paths : p \in AtOrBelow(n)
    BY <1>3
  <2>2. head[p] # Absent /\ head[q] = Absent
    BY <1>1, <1>3 DEF HeadAt, IsTree, Managed
  <2>3. q \in Above(n)
    BY <1>1, <1>3, <2>1, AboveIsAChain DEF AtOrBelow, Below
  <2>4. head[n] = Absent
    BY <1>1, <1>3, <2>1, <2>3 DEF HeadAt, AtOrBelow, Below, Managed
  <2>5. tree[q] = Absent
    BY <1>1, <2>1, <2>3, <2>4 DEF IsTree, Managed
  <2>6. G[q] \in {Absent, Merged(tree)[q]} /\ Merged(tree)[q] \in {Absent, Conflict}
    BY <1>1, <1>3, <2>2, <2>5, MergedIsOneOf DEF HeadAt
  <2>. QED  BY <1>1, <2>6
<1>4. CASE ~Under(q) /\ ~Under(p)
  <2>1. G[q] = Merged(tree)[q] /\ G[p] = Merged(tree)[p]
    BY <1>1, <1>4 DEF HeadAt
  <2>. QED  BY <1>1, <2>1, MergedNests
<1>. QED  BY <1>2, <1>3, <1>4

(* Neither has what continue writes, if home's trees have not.              *)
LEMMA HomeAtConflictsIsATree ==
    ASSUME IsTree(tree), IsTree(head),
           NEW p \in Places, NEW q \in Above(p), HomeAtConflicts[p] # Absent
    PROVE  HomeAtConflicts[q] = Absent
<1>1. q \in Places
  BY AboveIsShorter
<1>2. tree[p] # Absent => tree[q] = Absent
  BY <1>1 DEF IsTree, Managed
<1>3. Absent # Conflict
  BY EntriesAreDistinct
<1>. QED
  BY <1>1, <1>2, <1>3, MergedNests DEF HomeAtConflicts

(* The goal of every command holds together, if it holds no conflict.       *)
LEMMA GoalIsATree ==
    ASSUME TypeOK, NEW paths, MayName(paths), cmd # "status",
           \A p \in Places : Goal(paths)[p] # Conflict
    PROVE  Goal(paths) \in Trees
<1>. DEFINE G == Goal(paths)
<1>1. /\ cmd \in Commands \ {"status"} /\ {tree, head} \subseteq Trees
      /\ IsTree(tree) /\ IsTree(head)
  BY DEF TypeOK, Trees
<1>2. \A p \in Places : {tree[p], head[p], Absent} \subseteq Entries
  BY <1>1 DEF Trees, Entries
<1>3. \A p \in Places : G[p] \in {tree[p], head[p], Absent}
  <2>. SUFFICES ASSUME NEW p \in Places
                PROVE  G[p] \in {tree[p], head[p], Absent}
    OBVIOUS
  <2>1. G[p] # Conflict /\ Merged(tree)[p] \in {tree[p], head[p], Absent, Conflict}
    BY MergedIsOneOf
  <2>2. CASE cmd = "sync"
    BY <2>1, <2>2 DEF Goal
  <2>3. CASE cmd = "discard"
    BY <2>1, <2>3 DEF Goal, HeadAt
  <2>4. CASE cmd = "continue"
    BY <2>1, <2>4 DEF Goal, HomeAtConflicts
  <2>5. CASE cmd = "abort"
    BY <2>5 DEF Goal
  <2>. QED  BY <1>1, <2>2, <2>3, <2>4, <2>5 DEF Commands
<1>4. G \in [Places -> Entries]
  <2>1. G = [p \in Places |-> G[p]]
    <3>1. CASE cmd = "sync"
      BY <3>1 DEF Goal, Merged
    <3>2. CASE cmd = "discard"
      BY <3>2 DEF Goal, HeadAt
    <3>3. CASE cmd = "continue"
      BY <3>3 DEF Goal, HomeAtConflicts
    <3>4. CASE cmd = "abort"
      BY <1>1, <3>4 DEF Goal, Trees
    <3>. QED  BY <1>1, <3>1, <3>2, <3>3, <3>4 DEF Commands
  <2>. QED  BY <1>2, <1>3, <2>1
<1>6. ASSUME NEW p \in Places, G[p] # Absent, NEW q \in Above(p)
      PROVE  G[q] = Absent
  <2>1. CASE cmd = "sync"
    <3>1. Merged(tree)[p] # Absent /\ Merged(tree)[p] # Conflict
      BY <1>6, <2>1 DEF Goal
    <3>. QED  BY <1>1, <2>1, <3>1, MergedNests DEF Goal
  <2>2. CASE cmd = "discard"
    <3>1. paths \in SUBSET Places /\ \A n \in paths : tree[n] # head[n]
      BY <2>2 DEF MayName, Differ
    <3>. QED  BY <1>1, <1>6, <2>2, <3>1, HeadAtIsATree DEF Goal
  <2>3. CASE cmd = "continue"
    BY <1>1, <1>6, <2>3, HomeAtConflictsIsATree DEF Goal
  <2>4. CASE cmd = "abort"
    BY <1>1, <1>6, <2>4, AboveIsShorter DEF Goal, IsTree, Managed
  <2>. QED  BY <1>1, <2>1, <2>2, <2>3, <2>4 DEF Commands
<1>7. IsTree(G)
  BY <1>6, AboveIsShorter DEF IsTree, Managed
<1>. QED  BY <1>4, <1>7 DEF Trees

(* What a run reads holds together because home does.                       *)
LEMMA SnapshotIsATree ==
    ASSUME TypeOK, NEW paths \in SUBSET Places,
           \A p \in Places \ paths : tree[p] = Absent
    PROVE  Snapshot(tree, disk, paths) \in Trees
<1>. DEFINE t == Snapshot(tree, disk, paths)
<1>1. disk \in [Places -> Entries \cup {Folder}] /\ tree \in [Places -> Entries]
      /\ HoldsTogether(disk)
  BY DEF TypeOK, Trees
<1>2. t \in [Places -> Entries]
  BY <1>1, SnapshotIsTyped
<1>3. \A p \in Places : t[p] # Absent => p \in paths /\ IsEntry(disk, p)
  BY DEF Snapshot, ReadEntry
<1>4. ASSUME NEW p \in Places, t[p] # Absent, NEW q \in Above(p)
      PROVE  t[q] = Absent
  <2>1. q \in Places /\ disk[q] = Folder
    BY <1>1, <1>3, <1>4, AboveIsShorter DEF HoldsTogether, IsEntry
  <2>. QED  BY <1>3, <2>1 DEF IsEntry
<1>5. IsTree(t)
  BY <1>3, <1>4 DEF IsTree, Managed
<1>. QED  BY <1>2, <1>5 DEF Trees

(* Reading home, in full or not at all, leaves a tree.                      *)
LEMMA ReadsKeepsTypes ==
    ASSUME TypeOK, NEW paths \in SUBSET Places,
           \A p \in Places \ paths : tree[p] = Absent,
           NEW next \in Phases, Reads(paths, next)
    PROVE  /\ tree' \in Trees /\ probe' \subseteq Places /\ phase' \in Phases
           /\ raced' \subseteq Places
<1>1. CASE Readable(tree, disk, paths)
  BY <1>1, SnapshotIsATree DEF Reads
<1>2. CASE ~Readable(tree, disk, paths)
  BY <1>2 DEF Reads, TypeOK, Phases
<1>. QED  BY <1>1, <1>2

(* The types of the first state.                                            *)
LEMMA InitTypeOK == Init => TypeOK
<1>. SUFFICES ASSUME Init PROVE TypeOK
  OBVIOUS
<1>1. IInv
  BY InitIInv
<1>2. EmptyTree \in Trees
  BY DEF EmptyTree, Trees, IsTree, Managed, Entries
<1>3. "idle" \in Phases /\ "sync" \in Commands /\ 0 \in 0..MaxEdits /\ 0 \in 0..MaxRuns
  BY BoundsAreNumbers DEF Phases, Commands
<1>. QED  BY <1>1, <1>2, <1>3 DEF Init, FleetTrees, TypeOK, IInv, Types

(* Every step keeps the types, with the trees' shape.                       *)
LEMMA NextTypeOK ==
    ASSUME TypeOK, IInv, [Next]_vars
    PROVE  TypeOK'
<1>1. IInv'
  BY NextKeeps
<1>2. disk' \in [Places -> Entries \cup {Folder}] /\ HoldsTogether(disk')
      /\ cmd' \in Commands
  BY <1>1 DEF IInv, Types
<1>15. partly' \in BOOLEAN
  <2>1. partly \in BOOLEAN
    BY DEF TypeOK
  <2>. QED
    BY <2>1 DEF Next, RunStep, User, UserRemoves, UserPuts, UserWrites, Acquire, Observe,
                Look, Decide, CheckOutStarts, RemoveEntry, WriteEntry, Reaches,
                EndsPartWay, WriteFails, CheckOutEnds, Finish, vars
<1>. DEFINE Rest == /\ {mark', head', tree', goal'} \subseteq Trees
                    /\ phase' \in Phases
                    /\ named' \subseteq Paths /\ probe' \subseteq Places
                    /\ todo' \subseteq Places /\ raced' \subseteq Places
                    /\ edits' \in 0..MaxEdits /\ runs' \in 0..MaxRuns
<1>3. SUFFICES Rest
  BY <1>2, <1>15 DEF TypeOK
<1>4. Paths \subseteq Places /\ {MaxEdits, MaxRuns} \subseteq Nat
  BY PlacesAreClosed, BoundsAreNumbers
<1>5. ASSUME NEW c \in Commands, Acquire(c) PROVE Rest
  <2>. DEFINE paths == Managed(tree) \cup Managed(mark)
  <2>1. /\ Reads(paths, "acquired") /\ runs' = runs + 1 /\ runs < MaxRuns
        /\ UNCHANGED <<mark, head, named, goal, todo, edits>>
    BY <1>5 DEF Acquire
  <2>2. paths \in SUBSET Places /\ \A p \in Places \ paths : tree[p] = Absent
    BY DEF TypeOK, Trees, IsTree, Managed
  <2>3. "acquired" \in Phases
    BY DEF Phases
  <2>. HIDE DEF paths
  <2>4. tree' \in Trees /\ probe' \subseteq Places /\ phase' \in Phases /\ raced' \subseteq Places
    BY <2>1, <2>2, <2>3, ReadsKeepsTypes
  <2>. QED  BY <1>4, <2>1, <2>4 DEF TypeOK
<1>6. CASE Observe
  <2>. DEFINE paths == probe \cup Managed(head)
  <2>1. /\ phase = "acquired"
        /\ UNCHANGED <<mark, head, named, goal, todo, edits, runs>>
        /\ \/ phase' = "observed" /\ UNCHANGED <<tree, probe, raced>>
           \/ Reads(paths, "observed")
    BY <1>6 DEF Observe, counters
  <2>2. paths \in SUBSET Places /\ \A p \in Places \ paths : tree[p] = Absent
    BY <2>1 DEF TypeOK, Trees, IsTree, Managed, IInv, ReadsAll
  <2>3. "observed" \in Phases
    BY DEF Phases
  <2>. HIDE DEF paths
  <2>4. tree' \in Trees /\ probe' \subseteq Places /\ phase' \in Phases /\ raced' \subseteq Places
    BY <2>1, <2>2, <2>3, ReadsKeepsTypes DEF TypeOK
  <2>. QED  BY <2>1, <2>4 DEF TypeOK
<1>14. ASSUME NEW a \in Places, Look(a) PROVE Rest
  <2>. DEFINE paths == probe \cup Untracked(a)
  <2>1. /\ phase = "observed"
        /\ UNCHANGED <<mark, head, named, goal, todo, edits, runs>>
        /\ \/ phase' = "stopped" /\ UNCHANGED <<tree, probe, raced>>
           \/ Reads(paths, "stopped")
    BY <1>14 DEF Look, counters
  <2>2. paths \in SUBSET Places /\ \A p \in Places \ paths : tree[p] = Absent
    BY <2>1 DEF TypeOK, IInv, ReadsAll, Untracked, EntriesBelow, Below
  <2>3. "stopped" \in Phases
    BY DEF Phases
  <2>. HIDE DEF paths
  <2>4. tree' \in Trees /\ probe' \subseteq Places /\ phase' \in Phases /\ raced' \subseteq Places
    BY <2>1, <2>2, <2>3, ReadsKeepsTypes DEF TypeOK
  <2>. QED  BY <2>1, <2>4 DEF TypeOK
<1>7. ASSUME NEW paths \in SUBSET Paths, Decide(paths) PROVE Rest
  <2>1. /\ MayName(paths) /\ cmd # "status" /\ UNCHANGED <<mark, head, tree, probe, raced, edits, runs>>
        /\ \/ phase' = "stopped" /\ UNCHANGED <<named, goal, todo>>
           \/ /\ named' = paths /\ goal' = Goal(paths) /\ todo' = Differ(tree, goal')
              /\ phase' = "checked" /\ \A p \in Places : Goal(paths)[p] # Conflict
    BY <1>7 DEF Decide, ConflictsIn, counters
  <2>2. CASE phase' = "stopped" /\ UNCHANGED <<named, goal, todo>>
    BY <2>1, <2>2 DEF TypeOK, Phases
  <2>3. CASE /\ named' = paths /\ goal' = Goal(paths) /\ todo' = Differ(tree, goal')
             /\ phase' = "checked" /\ \A p \in Places : Goal(paths)[p] # Conflict
    <3>1. goal' \in Trees
      BY <2>1, <2>3, GoalIsATree
    <3>2. todo' \subseteq Places
      BY <2>3, <3>1 DEF TypeOK, Differ, Trees, IsTree, Managed
    <3>. QED  BY <2>1, <2>3, <3>1, <3>2 DEF TypeOK, Phases
  <2>. QED  BY <2>1, <2>2, <2>3
<1>8. ASSUME NEW p \in Places, RemoveEntry(p) \/ WriteEntry(p) PROVE Rest
  BY <1>8 DEF RemoveEntry, WriteEntry, Reaches, EndsPartWay, counters, TypeOK, Phases
<1>9. CASE CheckOutStarts \/ WriteFails
  BY <1>9 DEF CheckOutStarts, WriteFails, EndsPartWay, counters, TypeOK, Phases
<1>10. CASE CheckOutEnds
  BY <1>10 DEF CheckOutEnds, counters, TypeOK, Phases
<1>11. CASE Finish
  <2>1. EmptyTree \in Trees
    BY DEF EmptyTree, Trees, IsTree, Managed, Entries
  <2>. QED  BY <1>11, <2>1 DEF Finish, counters, TypeOK, Phases
<1>12. CASE User
  BY <1>4, <1>12 DEF User, UserRemoves, UserPuts, UserWrites, run, counters, TypeOK
<1>13. CASE UNCHANGED vars
  BY <1>13 DEF vars, run, counters, TypeOK
<1>. QED
  BY <1>5, <1>6, <1>7, <1>8, <1>9, <1>10, <1>11, <1>12, <1>13, <1>14 DEF Next, RunStep

(* Home stays a file system, and every tree a run reads, merges or writes   *)
(* is one a file system can hold.                                           *)
THEOREM TypeTheorem == Spec => []TypeOK
<1>. QED  BY InitTypeOK, NextTypeOK, HomeInvariant, PTL DEF Spec

-----------------------------------------------------------------------------
(* The merge gives each side its changes: what one decision says of all the *)
(* paths under it, said of one of them.                                     *)

(* What leaves a side its part leaves it each path of the part.             *)
LEMMA PartsAreEqualPathByPath ==
    ASSUME NEW s, NEW t, NEW q, NEW p \in AtOrBelow(q), Part(s, q) = Part(t, q)
    PROVE  s[p] = t[p]
<1>1. Part(s, q)[p] = s[p] /\ Part(t, q)[p] = t[p]
  BY DEF Part
<1>. QED  BY <1>1

(* A path decided for whole parts has what that side has, and the other did *)
(* not change it.                                                           *)
LEMMA PartsDecide ==
    ASSUME NEW q, NEW p \in AtOrBelow(q)
    PROVE  LET parts == Trivial(Part(tree, q), Part(mark, q), Part(head, q))
           IN  /\ parts = "ours" => head[p] \in {mark[p], tree[p]}
               /\ parts = "theirs" => tree[p] = mark[p]
               /\ parts \in {"ours", "theirs", "conflict"}
<1>1. /\ Part(head, q) = Part(mark, q) => head[p] = mark[p]
      /\ Part(head, q) = Part(tree, q) => head[p] = tree[p]
      /\ Part(tree, q) = Part(mark, q) => tree[p] = mark[p]
  BY PartsAreEqualPathByPath
<1>. QED  BY <1>1 DEF Trivial

SidesAreTrees ==
    \A t \in {tree, mark, head} : t \in [Places -> Entries] /\ IsTree(t)

(* Below a place where entries and folders meet, the side that has its way  *)
(* is the one that changed what is there.                                   *)
LEMMA FolderTermsDecide ==
    ASSUME SidesAreTrees, NEW q \in Places, NEW p \in Below(q),
           {tree[q], mark[q], head[q]} # {Absent}
    PROVE  /\ SettleFolderTerms(tree, q) = "ours" /\ tree[q] = Absent /\ tree[p] = mark[p]
                 => tree[p] = head[p]
           /\ SettleFolderTerms(tree, q) = "theirs" /\ head[q] = Absent
                 => tree[p] = Absent /\ (head[p] = mark[p] => head[p] = tree[p])
<1>1. p \in Places /\ q \in Above(p)
  BY DEF Below
<1>2. \A t \in {tree, mark, head} :
         /\ t[q] # Absent => t[p] = Absent
         /\ ~IsFolder(t, q) => t[p] = Absent
  BY <1>1 DEF SidesAreTrees, IsTree, Managed, IsFolder
<1>3. Conflict # Absent
  BY EntriesAreDistinct
<1>4. ASSUME SettleFolderTerms(tree, q) = "ours", tree[q] = Absent, tree[p] = mark[p]
      PROVE  tree[p] = head[p]
  <2>1. Trivial(tree[q], mark[q], head[q]) = "ours"
           => head[q] \in {mark[q], Absent}
    BY <1>4 DEF Trivial
  <2>2. Trivial(tree[q], mark[q], head[q]) = "theirs" => mark[q] = Absent
    BY <1>4 DEF Trivial
  <2>3. ~IsFolder(head, q)
    BY <1>3, <1>4 DEF SettleFolderTerms, Trivial
  <2>4. mark[q] # Absent
    BY <1>3, <1>4, <2>1, <2>2 DEF SettleFolderTerms, Trivial
  <2>. QED  BY <1>2, <1>4, <2>3, <2>4
<1>5. ASSUME SettleFolderTerms(tree, q) = "theirs", head[q] = Absent
      PROVE  tree[p] = Absent /\ (head[p] = mark[p] => head[p] = tree[p])
  <2>1. ~IsFolder(tree, q) /\ (tree[q] = Absent \/ tree[q] = mark[q])
    BY <1>3, <1>5 DEF SettleFolderTerms, Trivial
  <2>2. mark[q] # Absent
    BY <1>5, <2>1
  <2>. QED  BY <1>2, <2>1, <2>2
<1>. QED  BY <1>4, <1>5

(* At such a place itself the entries decide, and a folder counts as none.  *)
LEMMA FolderTermsDecideHere ==
    ASSUME SidesAreTrees, NEW p \in Places
    PROVE  /\ SettleFolderTerms(tree, p) = "ours" =>
                 tree[p] = mark[p] \/ head[p] \in {mark[p], tree[p]}
           /\ SettleFolderTerms(tree, p) = "ours" /\ tree[p] = mark[p] => tree[p] = head[p]
           /\ SettleFolderTerms(tree, p) = "theirs" =>
                 tree[p] \in {mark[p], head[p]}
<1>1. \A t \in {tree, mark, head} : IsFolder(t, p) => t[p] = Absent
  BY DEF SidesAreTrees, IsTree, Managed, IsFolder, Below
<1>2. Conflict # Absent
  BY EntriesAreDistinct
<1>. QED  BY <1>1, <1>2 DEF SettleFolderTerms, Trivial

(* The two together: at p, wherever above it the decision was made.         *)
LEMMA MergeGivesEachSide ==
    ASSUME SidesAreTrees, NEW p \in Places, Merged(tree)[p] # Conflict
    PROVE  /\ tree[p] = mark[p] => InReplacedFolder(tree, p) \/ Merged(tree)[p] = head[p]
           /\ \/ InReplacedFolder(head, p)
              \/ /\ tree[p] \notin {mark[p], Absent} => Merged(tree)[p] = tree[p]
                 /\ head[p] = mark[p] => Merged(tree)[p] = tree[p]
<1>. DEFINE q     == DecidedAt(tree, p)
            parts == Trivial(Part(tree, q), Part(mark, q), Part(head, q))
<1>1. q \in Deciding(tree, p)
  BY TheHighestDecides
<1>. HIDE DEF q
<1>2. q \in Places /\ p \in AtOrBelow(q) /\ (q = p \/ (p \in Below(q) /\ q \in Above(p)))
  BY <1>1, AboveIsShorter DEF Deciding, AtOrBelow, Below
<1>3. /\ Side(tree, q) = "ours"   => Merged(tree)[p] = tree[p]
      /\ Side(tree, q) = "theirs" => Merged(tree)[p] = head[p]
      /\ Side(tree, q) = "within" => Merged(tree)[p] = Absent
      /\ Side(tree, q) \in {"ours", "theirs", "within"}
  BY DEF Merged, q
<1>4. /\ parts = "ours" => head[p] \in {mark[p], tree[p]}
      /\ parts = "theirs" => tree[p] = mark[p]
      /\ parts \in {"ours", "theirs", "conflict"}
  BY <1>2, PartsDecide
<1>5. CASE parts # "conflict"
  <2>1. Side(tree, q) = parts
    BY <1>5 DEF Side
  <2>. HIDE DEF parts
  <2>. QED  BY <1>3, <1>4, <1>5, <2>1
<1>6. CASE Side(tree, q) = "within"
  <2>1. q = p
    BY <1>1, <1>6 DEF Deciding
  <2>2. tree[p] = Absent /\ mark[p] = Absent /\ head[p] = Absent
    BY <1>6, <2>1, <1>4 DEF Side, SettleFolderTerms, Trivial
  <2>. QED  BY <1>3, <1>6, <2>2
<1>7. CASE parts = "conflict" /\ Side(tree, q) # "within"
  <2>1. Side(tree, q) = SettleFolderTerms(tree, q) /\ {tree[q], mark[q], head[q]} # {Absent}
    BY <1>3, <1>7 DEF Side
  <2>. HIDE DEF parts
  <2>2. CASE q = p
    BY <1>3, <1>7, <2>1, <2>2, FolderTermsDecideHere
  <2>3. CASE p \in Below(q) /\ q \in Above(p)
    <3>1. /\ Side(tree, q) = "ours" /\ tree[q] = Absent /\ tree[p] = mark[p]
                => tree[p] = head[p]
          /\ Side(tree, q) = "theirs" /\ head[q] = Absent
                => tree[p] = Absent /\ (head[p] = mark[p] => head[p] = tree[p])
      BY <1>2, <2>1, <2>3, FolderTermsDecide
    <3>. QED  BY <1>3, <1>7, <2>3, <3>1 DEF InReplacedFolder
  <2>. QED  BY <1>2, <2>2, <2>3
<1>. QED  BY <1>5, <1>6, <1>7

(* A sync that has picked a tree gives each side of it its changes: for     *)
(* every set of places, however deep, with a folder, a link or nothing      *)
(* where another side has a file (home.rs, settle_folder_terms).            *)
THEOREM EachSideTheorem == Spec => EachSideKeepsItsChanges
<1>. DEFINE Given == /\ phase' = "checked" /\ phase = "observed" /\ cmd = "sync"
            Kept  == \A p \in Paths :
                        /\ tree[p] = mark[p] => InReplacedFolder(tree, p) \/ goal'[p] = head[p]
                        /\ \/ InReplacedFolder(head, p)
                           \/ KeepsEdit(p) /\ (head[p] = mark[p] => goal'[p] = tree[p])
<1>1. TypeOK /\ [Next]_vars => [Given => Kept]_vars
  <2>. SUFFICES ASSUME TypeOK, Next, Given
                PROVE  Kept
    BY DEF vars, run
  <2>1. PICK paths : Decide(paths)
    BY DEF Next, RunStep, Acquire, Reads, Observe, Look, CheckOutStarts, RemoveEntry,
           WriteEntry, Reaches, EndsPartWay, CheckOutEnds, Finish, WriteFails, User,
           UserRemoves, UserPuts, UserWrites, run
  <2>2. goal' = Merged(tree) /\ ConflictsIn(Merged(tree)) = {}
    BY <2>1 DEF Decide, Goal
  <2>3. SidesAreTrees
    BY DEF TypeOK, Trees, SidesAreTrees
  <2>4. ASSUME NEW p \in Paths
        PROVE  p \in Places /\ Merged(tree)[p] # Conflict
    BY <2>2, PlacesAreClosed DEF ConflictsIn
  <2>. QED  BY <2>2, <2>3, <2>4, MergeGivesEachSide DEF KeepsEdit
<1>. QED  BY <1>1, TypeTheorem, PTL DEF Spec, EachSideKeepsItsChanges

-----------------------------------------------------------------------------
(* What can make a run fail that nobody disturbs: neither a link it does    *)
(* not know nor a folder it has not looked into, so only a file where a     *)
(* folder has to be.                                                        *)

KnowsHome ==
    phase \in {"checked", "writing"} => \A p \in Places \ probe : tree[p] = Absent

(* The links above what it reads are known to it: it reads through no other. *)
LinksRead ==
    phase \in {"acquired", "observed", "checked", "writing"} =>
        \A p \in probe : \A q \in Above(p) : disk[q] = Link => q \in probe

(* What is left under a path to be written is going to be removed first.    *)
ClearedBelow ==
    phase = "writing" => \A p \in Writes : EntriesBelow(disk, p) \subseteq Removals

UInv == KnowsHome /\ (raced = {} => LinksRead /\ ClearedBelow)

(* Of the places above one, home has a link at one at most, and what a run  *)
(* could read has none above it but a link it had written.                  *)
LEMMA ReadLinksAreKnown ==
    ASSUME HoldsTogether(disk), NEW paths \in SUBSET Places,
           Readable(tree, disk, paths), Managed(tree) \subseteq paths,
           NEW p \in paths, NEW q \in Above(p), disk[q] = Link
    PROVE  q \in paths
<1>1. q \in Places /\ Refused(disk, p)
  BY AboveIsShorter DEF Refused, LinksAbove
<1>2. PICK r \in Above(p) : tree[r] = Link /\ disk[r] = Link
  BY <1>1 DEF Readable, BeneathManagedLink
<1>3. r \in Places /\ Link # Absent /\ Link # Folder
  BY AboveIsShorter, EntriesAreDistinct
<1>4. q \notin Above(r) /\ r \notin Above(q)
  BY <1>1, <1>2, <1>3 DEF HoldsTogether
<1>5. r = q
  BY <1>4, AboveIsAChain
<1>. QED  BY <1>2, <1>3, <1>5 DEF Managed

(* Reading home makes the links above what is read known.                   *)
LEMMA ReadingKnowsItsLinks ==
    ASSUME IInv, NEW paths \in SUBSET Places, Managed(tree) \subseteq paths,
           NEW next, next \in {"acquired", "observed"},
           Reads(paths, next), disk' = disk
    PROVE  UInv'
<1>1. CASE Readable(tree, disk, paths)
  <2>1. probe' = paths /\ phase' = next
    BY <1>1 DEF Reads
  <2>2. \A p \in paths : \A q \in Above(p) : disk[q] = Link => q \in paths
    BY <1>1, ReadLinksAreKnown DEF IInv
  <2>. QED  BY <2>1, <2>2 DEF UInv, KnowsHome, LinksRead, ClearedBelow
<1>2. CASE ~Readable(tree, disk, paths)
  BY <1>2 DEF Reads, UInv, KnowsHome, LinksRead, ClearedBelow
<1>. QED  BY <1>1, <1>2

(* A removal takes its path from what is left to clear, and brings nothing. *)
LEMMA RemoveEntryKeepsUInv ==
    ASSUME IInv, UInv, NEW p \in Places, RemoveEntry(p)
    PROVE  UInv'
<1>1. /\ phase = "writing" /\ p \in todo /\ goal[p] = Absent
      /\ UNCHANGED <<tree, probe, goal, raced>>
  BY DEF RemoveEntry, Reaches, Removals
<1>2. CASE phase' = "failed"
  BY <1>1, <1>2 DEF UInv, KnowsHome, LinksRead, ClearedBelow
<1>3. CASE /\ disk' = RemovedWithFolders(disk, p)
           /\ todo' = todo \ {p} /\ phase' = phase
  <2>1. \A q \in Places : disk'[q] \in {disk[q], Absent}
    BY <1>3 DEF RemovedWithFolders
  <2>2. disk'[p] = Absent
    BY <1>3 DEF RemovedWithFolders
  <2>3. Removals' = Removals \ {p} /\ Writes' = Writes
    BY <1>1, <1>3 DEF Removals, Writes
  <2>4. \A q \in Places : EntriesBelow(disk', q) \subseteq EntriesBelow(disk, q) \ {p}
    BY <2>1, <2>2 DEF EntriesBelow, IsEntry, Below
  <2>5. ASSUME raced = {} PROVE LinksRead' /\ ClearedBelow'
    <3>1. LinksRead /\ ClearedBelow /\ Types
      BY <1>1, <2>5 DEF UInv, IInv
    <3>2. \A r \in probe : \A q \in Above(r) : q \in Places
      BY <3>1, AboveIsShorter DEF Types
    <3>3. LinksRead'
      BY <1>1, <1>3, <2>1, <3>1, <3>2, EntriesAreDistinct DEF LinksRead
    <3>4. ClearedBelow'
      BY <1>1, <1>3, <2>3, <2>4, <3>1 DEF ClearedBelow, Writes, Types
    <3>. QED  BY <3>3, <3>4
  <2>. QED  BY <1>1, <1>3, <2>5 DEF UInv, KnowsHome
<1>. QED  BY <1>2, <1>3 DEF RemoveEntry, Reaches, EndsPartWay, Leads, Refused

(* A write brings one entry, which lies under no other that is written.     *)
LEMMA WriteEntryKeepsUInv ==
    ASSUME IInv, UInv, TypeOK, NEW p \in Places, WriteEntry(p)
    PROVE  UInv'
<1>1. /\ phase = "writing" /\ p \in todo /\ goal[p] # Absent /\ Removals = {}
      /\ UNCHANGED <<tree, probe, goal, raced>>
  BY DEF WriteEntry, Reaches, Writes
<1>2. CASE phase' = "failed"
  BY <1>1, <1>2 DEF UInv, KnowsHome, LinksRead, ClearedBelow
<1>3. CASE /\ ~Refused(disk, p)
           /\ disk' = Written(Removed(disk, p), p, goal[p])
           /\ todo' = todo \ {p} /\ phase' = phase
  <2>1. disk' = Put(disk, p, goal[p])
    BY <1>3, WrittenIsPut
  <2>2. \A q \in Places \ {p} : disk'[q] \in {disk[q], Absent, Folder}
    BY <2>1 DEF Put
  <2>3. Writes' = Writes \ {p} /\ Removals' = {}
    BY <1>1, <1>3 DEF Removals, Writes
  <2>4. p \in probe
    BY <1>1 DEF IInv, ReadsAll
  <2>5. ASSUME raced = {} PROVE LinksRead' /\ ClearedBelow'
    <3>1. LinksRead /\ ClearedBelow /\ Types
      BY <1>1, <2>5 DEF UInv, IInv
    <3>2. \A r \in probe : \A q \in Above(r) : q \in Places
      BY <3>1, AboveIsShorter DEF Types
    <3>3. LinksRead'
      BY <1>1, <1>3, <2>2, <2>4, <3>1, <3>2, EntriesAreDistinct DEF LinksRead
    <3>4. ASSUME NEW q \in Writes' PROVE EntriesBelow(disk', q) = {}
      <4>1. q \in Places /\ q \in Writes /\ goal[q] # Absent
        BY <2>3, <3>1 DEF Writes, Types
      <4>2. p \notin Below(q)
        BY <1>1, <4>1 DEF TypeOK, Trees, IsTree, Managed, Below
      <4>3. EntriesBelow(disk, q) = {}
        BY <1>1, <3>1, <4>1 DEF ClearedBelow
      <4>. QED  BY <2>2, <4>2, <4>3 DEF EntriesBelow, IsEntry, Below
    <3>5. ClearedBelow'
      BY <3>4 DEF ClearedBelow
    <3>. QED  BY <3>3, <3>5
  <2>. QED  BY <1>1, <1>3, <2>5 DEF UInv, KnowsHome
<1>. QED  BY <1>2, <1>3 DEF WriteEntry, Reaches, EndsPartWay

(* A checkout starts where what is in the way of each write is to go: what  *)
(* it looked at, unless a link is above, and below a link there is nothing. *)
LEMMA CheckOutStartsKeepsUInv ==
    ASSUME IInv, UInv, CheckOutStarts
    PROVE  UInv'
<1>1. /\ phase = "checked" /\ phase' \in {"writing", "refused"}
      /\ UNCHANGED <<disk, tree, probe, goal, todo, raced>>
      /\ phase' = "writing" => \A p \in Writes : UnmanagedUnder(p) = {}
  BY DEF CheckOutStarts
<1>2. Removals' = Removals /\ Writes' = Writes
  BY <1>1 DEF Removals, Writes
<1>3. ASSUME phase' = "writing", NEW p \in Writes
      PROVE  EntriesBelow(disk, p) \subseteq Removals
  <2>1. p \in Places
    BY DEF IInv, Types, Writes
  <2>2. CASE Refused(disk, p)
    <3>1. PICK q \in Above(p) : disk[q] = Link
      BY <2>2 DEF Refused, LinksAbove
    <3>2. \A r \in Below(p) : q \in Above(r) /\ r \in Places
      BY <2>1, <3>1, AboveIsTransitive DEF Below
    <3>3. \A r \in Below(p) : disk[r] = Absent
      BY <3>1, <3>2, EntriesAreDistinct DEF IInv, HoldsTogether
    <3>. QED  BY <3>3 DEF EntriesBelow, IsEntry
  <2>3. CASE ~Refused(disk, p)
    BY <1>1, <1>3, <2>3 DEF UnmanagedUnder, Leads, Refused
  <2>. QED  BY <2>2, <2>3
<1>4. ASSUME raced = {} PROVE LinksRead' /\ ClearedBelow'
  <2>1. LinksRead'
    BY <1>1, <1>4 DEF UInv, LinksRead
  <2>2. ClearedBelow'
    BY <1>1, <1>2, <1>3 DEF ClearedBelow
  <2>. QED  BY <2>1, <2>2
<1>. QED  BY <1>1, <1>4 DEF UInv, KnowsHome

(* Every step keeps the second invariant.                                   *)
LEMMA NextKeepsUInv ==
    ASSUME IInv, TypeOK, UInv, [Next]_vars
    PROVE  UInv'
<1>1. ASSUME NEW c \in Commands, Acquire(c) PROVE UInv'
  <2>1. Managed(tree) \cup Managed(mark) \in SUBSET Places
    BY DEF Managed
  <2>. QED  BY <1>1, <2>1, ReadingKnowsItsLinks DEF Acquire
<1>2. CASE Observe
  <2>1. CASE Managed(head) \subseteq probe
    BY <1>2, <2>1 DEF Observe, UInv, KnowsHome, LinksRead, ClearedBelow
  <2>2. CASE ~(Managed(head) \subseteq probe)
    <3>1. probe \cup Managed(head) \in SUBSET Places
      BY DEF IInv, Types, Managed
    <3>2. Managed(tree) \subseteq probe
      BY <1>2 DEF Observe, IInv, ReadsAll, Managed
    <3>. QED  BY <1>2, <2>2, <3>1, <3>2, ReadingKnowsItsLinks DEF Observe
  <2>. QED  BY <2>1, <2>2
<1>3. ASSUME NEW a \in Places, Look(a) PROVE UInv'
  BY <1>3 DEF Look, Reads, UInv, KnowsHome, LinksRead, ClearedBelow
<1>4. ASSUME NEW paths, Decide(paths) PROVE UInv'
  <2>1. /\ phase = "observed" /\ phase' \in {"stopped", "checked"}
        /\ UNCHANGED <<disk, tree, probe, raced>>
    BY <1>4 DEF Decide
  <2>2. \A p \in Places \ probe : tree[p] = Absent
    BY <2>1 DEF IInv, ReadsAll
  <2>. QED  BY <2>1, <2>2 DEF UInv, KnowsHome, LinksRead, ClearedBelow
<1>5. CASE CheckOutStarts
  BY <1>5, CheckOutStartsKeepsUInv
<1>6. ASSUME NEW p \in Places, RemoveEntry(p) \/ WriteEntry(p) PROVE UInv'
  BY <1>6, RemoveEntryKeepsUInv, WriteEntryKeepsUInv
<1>7. CASE CheckOutEnds \/ WriteFails \/ Finish
  <2>1. phase' \in {"done", "failed", "idle"}
    BY <1>7 DEF CheckOutEnds, WriteFails, EndsPartWay, Finish
  <2>. QED  BY <2>1 DEF UInv, KnowsHome, LinksRead, ClearedBelow
<1>8. CASE User
  <2>1. PICK d : UserWrites(d)
    BY <1>8 DEF User, UserPuts, UserRemoves
  <2>2. /\ raced' = raced \cup {q \in Places : d[q] # disk[q]} /\ disk' = d /\ d # disk
        /\ UNCHANGED <<phase, tree, probe>>
    BY <2>1 DEF UserWrites, run
  <2>3. disk \in [Places -> Entries \cup {Folder}] /\ d \in [Places -> Entries \cup {Folder}]
    BY <1>8, <2>2, UserKeeps DEF IInv, Types
  <2>4. raced' # {}
    BY <2>2, <2>3
  <2>. QED  BY <2>2, <2>4 DEF UInv, KnowsHome
<1>9. CASE UNCHANGED vars
  BY <1>9 DEF vars, run, UInv, KnowsHome, LinksRead, ClearedBelow, Writes, Removals
<1>. QED
  BY <1>1, <1>2, <1>3, <1>4, <1>5, <1>6, <1>7, <1>8, <1>9 DEF Next, RunStep

(* A removal of what the run read there cannot fail, undisturbed.           *)
LEMMA RemovalsSucceed ==
    ASSUME IInv, raced = {}, NEW p \in Places, RemoveEntry(p)
    PROVE  phase' # "failed"
<1>1. phase = "writing" /\ p \in todo /\ goal[p] = Absent
  BY DEF RemoveEntry, Reaches, Removals
<1>2. p \in probe /\ tree[p] # Absent
  BY <1>1 DEF IInv, ReadsAll, Differ
<1>3. ReadEntry(disk, p) = tree[p]
  BY <1>1, <1>2 DEF IInv, AsRead
<1>4. disk[p] # Absent /\ disk[p] # Folder
  BY <1>2, <1>3 DEF ReadEntry, IsEntry
<1>5. ~Refused(disk, p)
  BY <1>4, EntriesAreDistinct DEF IInv, HoldsTogether, Refused, LinksAbove
<1>6. disk[Leads(disk, p)] # Folder
  BY <1>4, <1>5 DEF Leads, Refused
<1>. QED  BY <1>1, <1>5, <1>6 DEF RemoveEntry, Reaches

(* A write fails for a file above it that is in no tree the run knows.      *)
LEMMA WritesFailForAFile ==
    ASSUME IInv, UInv, TypeOK, raced = {}, NEW p \in Places, WriteEntry(p),
           phase' = "failed"
    PROVE  \E q \in Above(p) : disk[q] \in Files /\ q \notin Managed(tree)
<1>1. /\ phase = "writing" /\ p \in todo /\ goal[p] # Absent /\ Removals = {} /\ p \in Writes
  BY DEF WriteEntry, Reaches, Writes
<1>2. LinksRead /\ ClearedBelow /\ KnowsHome /\ Types
  BY DEF UInv, IInv
<1>3. p \in probe /\ todo \subseteq Places
  BY <1>1 DEF IInv, ReadsAll, Types
<1>4. \A q \in Above(p) : q \in Places /\ goal[q] = Absent
  BY <1>1, AboveIsShorter DEF TypeOK, Trees, IsTree, Managed
<1>5. \A q \in Above(p) : q \in probe => ReadEntry(disk, q) = Absent
  <2>. SUFFICES ASSUME NEW q \in Above(p), q \in probe
                PROVE  ReadEntry(disk, q) = Absent
    OBVIOUS
  <2>1. q \notin todo
    BY <1>1, <1>4 DEF Removals
  <2>. QED  BY <1>1, <1>4, <2>1 DEF IInv, AsRead
<1>6. \A q \in Above(p) : q \in probe => disk[q] \in {Absent, Folder}
  BY <1>5 DEF ReadEntry, IsEntry
<1>7. ~Refused(disk, p)
  BY <1>1, <1>2, <1>3, <1>6, EntriesAreDistinct DEF LinksRead, Refused, LinksAbove
<1>8. EntriesBelow(disk, p) = {}
  BY <1>1, <1>2 DEF ClearedBelow
<1>9. PICK q \in Above(p) : disk[q] \notin {Folder, Absent, Link}
  BY <1>1, <1>7, <1>8 DEF WriteEntry, Reaches
<1>10. disk[q] \in Files
  BY <1>2, <1>4, <1>9 DEF Types, Entries
<1>11. q \notin Managed(tree)
  BY <1>1, <1>2, <1>4, <1>6, <1>9 DEF KnowsHome, Managed
<1>. QED  BY <1>10, <1>11

(* Undisturbed, a run that looked before it wrote fails for nothing else    *)
(* than a file dotsync does not manage where a folder has to be, wherever   *)
(* links and folders are (working_copy.rs, check_out).                      *)
THEOREM OnlyFailsTheorem == Spec => OnlyAFileForAFolderFails
<1>. DEFINE Failing == phase = "writing" /\ phase' = "failed" /\ raced = {}
            ForAFile == \A p \in Places : RemoveEntry(p) \/ WriteEntry(p) =>
                           \E q \in Above(p) : disk[q] \in Files /\ q \notin Managed(tree)
<1>1. Init => UInv
  BY DEF Init, UInv, KnowsHome, LinksRead, ClearedBelow
<1>2. IInv /\ TypeOK /\ UInv => (Failing => ForAFile)
  BY RemovalsSucceed, WritesFailForAFile
<1>3. IInv /\ TypeOK /\ UInv /\ [Next]_vars => [Failing => ForAFile]_vars /\ UInv'
  BY <1>2, NextKeepsUInv
<1>. QED  BY <1>1, <1>3, HomeInvariant, TypeTheorem, PTL DEF Spec, OnlyAFileForAFolderFails

-----------------------------------------------------------------------------
(* Home is delivered a place at a time: every step of a run, folders, links *)
(* and all, is a step of Delivery or none.                                  *)

(* Home at rest is Delivery's at rest.                                      *)
LEMMA InitDelivers == Init => ByPath!Init
<1>. SUFFICES ASSUME Init PROVE ByPath!Init
  OBVIOUS
<1>1. Types /\ raced = {} /\ edits = 0 /\ ~Delivering
  BY InitIInv DEF Init, IInv, Delivering
<1>2. [p \in Places |-> ReadEntry(disk, p)] \in [Places -> Entries]
  BY <1>1, ReadEntryIsEntry DEF Types
<1>. QED
  BY <1>1, <1>2 DEF ByPath!Init, ByPath!Rests, ByPath!Trees, EmptyTree, Types

(* A reading learns of some places, and of nothing else.                    *)
LEMMA ReadsDelivers ==
    ASSUME IInv, NEW paths, NEW next, next \notin {"checked", "writing"},
           ~Delivering, Reads(paths, next),
           UNCHANGED <<disk, mark, goal, todo, edits>>
    PROVE  [ByPath!Next]_(ByPath!vars)
<1>1. Types /\ HoldsTogether(disk)
  BY DEF IInv
<1>2. ~Delivering'
  BY DEF Reads, Delivering
<1>3. CASE Readable(tree, disk, paths)
  <2>1. tree' = Snapshot(tree, disk, paths) /\ raced' = {}
    BY <1>3 DEF Reads
  <2>2. tree' \in [Places -> Entries]
    BY <1>1, <2>1, SnapshotIsTyped DEF Types
  <2>3. \A p \in Places : tree'[p] \in {tree[p], ReadEntry(disk, p)}
    <3>. TAKE p \in Places
    <3>1. p \in paths => tree'[p] = ReadEntry(disk, p)
      BY <1>1, <2>1, SnapshotReads
    <3>2. p \notin paths => tree'[p] = tree[p]
      BY <2>1 DEF Snapshot
    <3>. QED  BY <3>1, <3>2
  <2>4. ByPath!Reads
    BY <1>2, <2>1, <2>2, <2>3
    DEF ByPath!Reads, ByPath!Rests, ByPath!Trees, Delivering, EmptyTree, ReadEntry, IsEntry
  <2>. QED  BY <2>4 DEF ByPath!Next
<1>4. CASE ~Readable(tree, disk, paths)
  BY <1>2, <1>4 DEF Reads, ByPath!vars, Delivering, ReadEntry, IsEntry
<1>. QED  BY <1>3, <1>4

(* The user writes a place, and the folders that takes, in one step.        *)
LEMMA UserDelivers ==
    ASSUME IInv, User
    PROVE  ByPath!Next
<1>1. Types'
  BY UserKeeps DEF IInv
<1>2. /\ edits' = edits + 1
      /\ raced' = raced \cup {q \in Places : disk'[q] # disk[q]}
      /\ UNCHANGED <<mark, phase, tree, goal, todo>>
  BY DEF User, UserRemoves, UserPuts, UserWrites, run
<1>3. [p \in Places |-> ReadEntry(disk, p)]' \in [Places -> Entries]
  BY <1>1, ReadEntryIsEntry DEF Types, ReadEntry, IsEntry, Entries
<1>4. \A p \in Places : ReadEntry(disk, p)' # ReadEntry(disk, p) => p \in raced'
  BY <1>2 DEF ReadEntry, IsEntry
<1>5. ByPath!UserActs
  BY <1>2, <1>3, <1>4 DEF ByPath!UserActs, ByPath!Trees, Delivering
<1>. QED  BY <1>5 DEF ByPath!Next

(* A run that has picked a goal knows the places it is to change.           *)
LEMMA DecideDelivers ==
    ASSUME IInv, NEW paths, Decide(paths)
    PROVE  [ByPath!Next]_(ByPath!vars)
<1>1. /\ phase = "observed"
      /\ UNCHANGED <<disk, mark, tree, raced, edits>>
  BY DEF Decide, counters
<1>2. Types' /\ ReadsAll' /\ AsRead'
  BY DecideKeeps DEF IInv
<1>3. CASE phase' = "stopped" /\ UNCHANGED <<goal, todo>>
  BY <1>1, <1>3 DEF ByPath!vars, Delivering, ReadEntry, IsEntry
<1>4. CASE phase' = "checked" /\ todo' = Differ(tree, goal')
  <2>1. \A p \in todo' \ raced : ReadEntry(disk, p) = tree[p]
    BY <1>1, <1>2, <1>4 DEF ReadsAll, AsRead, ReadEntry, IsEntry
  <2>2. ByPath!Starts
    BY <1>1, <1>2, <1>4, <2>1
    DEF ByPath!Starts, ByPath!Rests, ByPath!Trees, Delivering, EmptyTree, Types, Differ,
        ReadEntry, IsEntry
  <2>. QED  BY <2>2 DEF ByPath!Next
<1>. QED  BY <1>3, <1>4 DEF Decide

(* A removal and a write change what home reads as at their place alone.    *)
LEMMA RemovalReads ==
    ASSUME NEW d, NEW p \in Places, d[p] # Folder, NEW q \in Places
    PROVE  ReadEntry(RemovedWithFolders(d, p), q) =
               IF q = p THEN Absent ELSE ReadEntry(d, q)
<1>1. q \in EmptiedAbove(d, p) => d[q] = Folder
  BY DEF EmptiedAbove, AtOrBelow
<1>. QED  BY <1>1 DEF RemovedWithFolders, ReadEntry, IsEntry

(* Writing a place changes how no other reads.                              *)
LEMMA WriteReads ==
    ASSUME NEW d, NEW p \in Places, NEW v \in Entries \ {Absent}, NEW q \in Places,
           ~Refused(d, p), EntriesBelow(d, p) = {},
           \A r \in Above(p) : d[r] \in {Folder, Absent, Link}
    PROVE  ReadEntry(Put(d, p, v), q) = IF q = p THEN v ELSE ReadEntry(d, q)
<1>1. q \in Above(p) => d[q] \in {Folder, Absent}
  BY DEF Refused, LinksAbove
<1>2. q \in Below(p) => d[q] \in {Folder, Absent}
  BY DEF EntriesBelow, IsEntry
<1>3. v # Folder
  BY EntriesAreDistinct DEF Entries
<1>. QED  BY <1>1, <1>2, <1>3 DEF Put, ReadEntry, IsEntry

(* A removal or write done in home is a move of its place.                  *)
LEMMA MoveDelivers ==
    ASSUME IInv, NEW p \in Places, RemoveEntry(p) \/ WriteEntry(p)
    PROVE  [ByPath!Next]_(ByPath!vars)
<1>1. /\ phase = "writing" /\ p \in todo
      /\ UNCHANGED <<mark, tree, goal, raced, edits>>
  BY DEF RemoveEntry, WriteEntry, Reaches, counters, Removals, Writes
<1>2. Types
  BY DEF IInv
<1>3. goal[p] = Absent \/ \A q \in todo : goal[q] # Absent
  BY DEF RemoveEntry, WriteEntry, Removals
<1>4. CASE phase' = "failed" /\ UNCHANGED <<disk, todo>>
  <2>1. ByPath!FallsShort
    BY <1>1, <1>4
    DEF ByPath!FallsShort, ByPath!Rests, Delivering, EmptyTree, ReadEntry, IsEntry
  <2>. QED  BY <2>1 DEF ByPath!Next
<1>5. CASE phase' = phase /\ todo' = todo \ {p}
            /\ \A q \in Places : ReadEntry(disk', q) = IF q = p THEN goal[p] ELSE ReadEntry(disk, q)
  <2>1. ByPath!Moves(p)
    BY <1>1, <1>3, <1>5 DEF ByPath!Moves, Delivering
  <2>. QED  BY <2>1 DEF ByPath!Next
<1>6. ASSUME RemoveEntry(p), phase' # "failed"
      PROVE  phase' = phase /\ todo' = todo \ {p}
            /\ \A q \in Places : ReadEntry(disk', q) = IF q = p THEN goal[p] ELSE ReadEntry(disk, q)
  <2>1. /\ goal[p] = Absent /\ disk[p] # Folder
        /\ disk' = RemovedWithFolders(disk, p)
        /\ phase' = phase /\ todo' = todo \ {p}
    BY <1>6 DEF RemoveEntry, Reaches, EndsPartWay, Leads, Refused, Removals
  <2>. QED  BY <2>1, RemovalReads
<1>7. ASSUME WriteEntry(p), phase' # "failed"
      PROVE  phase' = phase /\ todo' = todo \ {p}
            /\ \A q \in Places : ReadEntry(disk', q) = IF q = p THEN goal[p] ELSE ReadEntry(disk, q)
  <2>1. /\ goal[p] \in Entries \ {Absent}
        /\ ~Refused(disk, p) /\ EntriesBelow(disk, p) = {}
        /\ \A r \in Above(p) : disk[r] \in {Folder, Absent, Link}
        /\ disk' = Put(disk, p, goal[p])
        /\ phase' = phase /\ todo' = todo \ {p}
    BY <1>2, <1>7, WrittenIsPut DEF WriteEntry, Reaches, EndsPartWay, Writes, Types
  <2>. QED  BY <2>1, WriteReads
<1>8. phase' = "failed" => UNCHANGED <<disk, todo>>
  BY <1>1 DEF RemoveEntry, WriteEntry, Reaches, EndsPartWay
<1>. QED  BY <1>4, <1>5, <1>6, <1>7, <1>8

(* Every step of home is a step of Delivery or none.                        *)
LEMMA NextDelivers ==
    ASSUME IInv, [Next]_vars
    PROVE  [ByPath!Next]_(ByPath!vars)
<1>1. ASSUME NEW c \in Commands, Acquire(c) PROVE [ByPath!Next]_(ByPath!vars)
  <2>1. ~Delivering /\ UNCHANGED <<disk, mark, goal, todo, edits>>
        /\ Reads(Managed(tree) \cup Managed(mark), "acquired")
    BY <1>1 DEF Acquire, Delivering
  <2>. QED  BY <2>1, ReadsDelivers
<1>2. CASE Observe
  <2>1. ~Delivering /\ UNCHANGED <<disk, mark, goal, todo, edits>>
    BY <1>2 DEF Observe, Delivering, counters
  <2>2. CASE Reads(probe \cup Managed(head), "observed")
    BY <2>1, <2>2, ReadsDelivers
  <2>3. CASE phase' = "observed" /\ UNCHANGED <<tree, raced>>
    BY <2>1, <2>3 DEF ByPath!vars, Delivering, ReadEntry, IsEntry
  <2>. QED  BY <1>2, <2>2, <2>3 DEF Observe
<1>3. ASSUME NEW a \in Places, Look(a) PROVE [ByPath!Next]_(ByPath!vars)
  <2>1. ~Delivering /\ UNCHANGED <<disk, mark, goal, todo, edits>>
    BY <1>3 DEF Look, Delivering, counters
  <2>2. CASE Reads(probe \cup Untracked(a), "stopped")
    BY <2>1, <2>2, ReadsDelivers
  <2>3. CASE phase' = "stopped" /\ UNCHANGED <<tree, raced>>
    BY <2>1, <2>3 DEF ByPath!vars, Delivering, ReadEntry, IsEntry
  <2>. QED  BY <1>3, <2>2, <2>3 DEF Look
<1>4. ASSUME NEW paths, Decide(paths) PROVE [ByPath!Next]_(ByPath!vars)
  BY <1>4, DecideDelivers
<1>5. CASE CheckOutStarts
  <2>1. phase = "checked" /\ UNCHANGED <<disk, mark, tree, goal, todo, raced, edits>>
    BY <1>5 DEF CheckOutStarts, counters
  <2>2. CASE phase' = "writing"
    BY <2>1, <2>2 DEF ByPath!vars, Delivering, ReadEntry, IsEntry
  <2>3. CASE phase' = "refused"
    BY <2>1, <2>3
    DEF ByPath!Next, ByPath!FallsShort, ByPath!Rests, Delivering, EmptyTree, ReadEntry, IsEntry
  <2>. QED  BY <1>5, <2>2, <2>3 DEF CheckOutStarts
<1>6. ASSUME NEW p \in Places, RemoveEntry(p) \/ WriteEntry(p)
      PROVE  [ByPath!Next]_(ByPath!vars)
  BY <1>6, MoveDelivers
<1>7. CASE CheckOutEnds
  <2>1. /\ phase = "writing" /\ todo = {} /\ phase' = "done" /\ tree' = goal
        /\ mark' = head /\ head \in [Places -> Entries]
        /\ UNCHANGED <<disk, raced, edits>>
    BY <1>7 DEF CheckOutEnds, counters, IInv, Types
  <2>2. ByPath!Arrives
    BY <2>1
    DEF ByPath!Arrives, ByPath!Rests, ByPath!Trees, Delivering, EmptyTree, ReadEntry, IsEntry
  <2>. QED  BY <2>2 DEF ByPath!Next
<1>8. CASE WriteFails
  <2>1. /\ phase = "writing" /\ phase' = "failed"
        /\ UNCHANGED <<disk, mark, tree, raced, edits>>
    BY <1>8 DEF WriteFails, EndsPartWay, counters
  <2>. QED
    BY <2>1
    DEF ByPath!Next, ByPath!FallsShort, ByPath!Rests, Delivering, EmptyTree, ReadEntry, IsEntry
<1>9. CASE Finish
  <2>1. /\ phase \in {"done", "stopped", "refused", "failed"} /\ phase' = "idle" /\ raced' = {}
        /\ UNCHANGED <<disk, mark, tree, edits>>
    BY <1>9 DEF Finish, counters
  <2>2. ByPath!Reads
    BY <2>1
    DEF IInv, Types, ByPath!Reads, ByPath!Rests, ByPath!Trees, Delivering, EmptyTree,
        ReadEntry, IsEntry
  <2>. QED  BY <2>2 DEF ByPath!Next
<1>10. CASE User
  BY <1>10, UserDelivers
<1>11. CASE UNCHANGED vars
  BY <1>11 DEF vars, run, counters, ByPath!vars, Delivering, ReadEntry, IsEntry
<1>. QED
  BY <1>1, <1>2, <1>3, <1>4, <1>5, <1>6, <1>7, <1>8, <1>9, <1>10, <1>11 DEF Next, RunStep

(* WorkingCopy implements Delivery, whatever places there are and whatever  *)
(* stands at them.                                                          *)
THEOREM DeliveryTheorem == Spec => DeliversPathByPath
<1>. QED
  BY InitDelivers, NextDelivers, HomeInvariant, PTL DEF Spec, DeliversPathByPath, ByPath!Spec
=============================================================================
