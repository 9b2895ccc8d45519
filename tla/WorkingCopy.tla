---------------------------- MODULE WorkingCopy ----------------------------
(* Home as it is on disk: folders, links, and files dotsync does not manage *)
(* beside those it does.  Module Home takes a path for a variable of its    *)
(* own; here a path can stand in another's way, a link can lead elsewhere,  *)
(* and a run has to get from one tree to another through all of it          *)
(* (working_copy.rs, and the merge home.rs makes of such trees).            *)
(*                                                                          *)
(* A run reads home, merges it with the head, checks that home can hold the *)
(* result and writes it path by path; the user may write files between any  *)
(* two steps, and any of them may fail.  A run always ends by persisting    *)
(* what it read: runs that die instead, and their repair, are Home's.       *)
EXTENDS Integers, Sequences

CONSTANTS
    Names,      \* what a folder's members can be called
    Places,     \* the places in home: sequences of names
    Paths,      \* those of them the fleet may hold something at
    Files,      \* what a file can hold
    Link,       \* a link, to the folder Target
    Target,     \* a place that is no path
    Absent,     \* nothing
    Folder,     \* a folder: never an entry of a tree
    Conflict,   \* what a merge holds where it did not resolve
    MaxEdits,   \* bound: how many times the user writes something
    MaxRuns     \* bound: how many times dotsync runs

Entries == Files \cup {Link, Absent}

Above(p)     == {SubSeq(p, 1, n) : n \in 1..(Len(p) - 1)}
Below(p)     == {q \in Places : p \in Above(q)}
AtOrBelow(p) == {p} \cup Below(p)

ASSUME PlacesAreClosed ==
    /\ \A p \in Places : p \in Seq(Names) /\ Above(p) \subseteq Places
    /\ Paths \subseteq Places /\ Target \in Places \ Paths
    /\ \A p \in Paths : Above(p) \subseteq Paths
ASSUME EntriesAreDistinct ==
    /\ Link # Absent /\ Folder \notin {Link, Absent}
    /\ Conflict \notin {Link, Absent, Folder}
    /\ Files \cap {Link, Absent, Folder, Conflict} = {}
ASSUME BoundsAreNumbers == {MaxEdits, MaxRuns} \subseteq Nat

Managed(t) == {p \in Places : t[p] # Absent}

(* A tree holds entries only, and none beneath another. *)
IsTree(t) == \A p \in Managed(t) : Above(p) \cap Managed(t) = {}
Trees     == {t \in [Places -> Entries] : IsTree(t)}
EmptyTree == [p \in Places |-> Absent]

FleetTrees == {t \in Trees : Managed(t) \subseteq Paths}

Commands == {"sync", "discard", "continue", "abort", "status"}
Phases   == {"idle", "acquired", "observed", "checked", "writing", "done",
             "stopped", "refused", "failed"}

VARIABLES
    disk,       \* what home holds
    mark,       \* the tree of the commit home was last moved to
    head,       \* the tree of the machine scope's head
    phase,      \* where the run stands
    cmd,        \* the command it runs
    named,      \* the paths that command names
    tree,       \* what the run believes home holds
    probe,      \* the paths it reads
    goal,       \* the tree it writes into home
    todo,       \* the paths it has still to write
    before,     \* history: home when the run began to write
    raced,      \* history: places the user wrote since the run last read home
    partly,     \* history: home is as a sync left it that ended part-way
    edits, runs

run      == <<phase, cmd, named, tree, probe, goal, todo>>
counters == <<edits, runs>>
vars     == <<disk, mark, head, run, before, raced, partly, counters>>

-----------------------------------------------------------------------------
(* The file system. *)

(* The folders a tree's entries lie in, and the entries. *)
Materialized(t) ==
    [p \in Places |-> IF \E q \in Below(p) : t[q] # Absent THEN Folder ELSE t[p]]

IsEntry(d, p)       == d[p] \notin {Absent, Folder}
EntriesBelow(d, p)  == {q \in Below(p) : IsEntry(d, q)}
LinksAbove(d, p)    == {q \in Above(p) : d[q] = Link}

(* What the system would open at p: links in the way are followed. *)
Leads(d, p) ==
    IF LinksAbove(d, p) = {} THEN p
    ELSE Target \o SubSeq(p, Len(CHOOSE q \in LinksAbove(d, p) : TRUE) + 1, Len(p))

Removed(d, p) == [q \in Places |-> IF q \in AtOrBelow(p) THEN Absent ELSE d[q]]

(* p is written where it leads, with the folders it needs made. *)
Written(d, p, v) ==
    [q \in Places |-> IF q = Leads(d, p) THEN v
                      ELSE IF q \in Above(Leads(d, p)) THEN Folder
                      ELSE d[q]]

(* mutant: the folders stay *)
EmptiedStay(d, p) == {}

(* A removal takes the folders it emptied with it, from the one it was in   *)
(* up.                                                                      *)
EmptiedAbove(d, p) ==
    {q \in Above(p) : /\ \A r \in Above(p) \cap AtOrBelow(q) : d[r] = Folder
                      /\ \A r \in Below(q) \ ({p} \cup Above(p)) : d[r] = Absent}

RemovedWithFolders(d, p) ==
    [q \in Places |-> IF q \in {p} \cup EmptiedAbove(d, p) THEN Absent ELSE d[q]]

-----------------------------------------------------------------------------
(* Home holds the mark, and links beneath the place links lead to. *)
InTarget(p) == p \in Below(Target) /\ Below(p) = {}

Init ==
    /\ mark \in FleetTrees /\ head \in FleetTrees
    /\ disk = Materialized([p \in Places |-> IF InTarget(p) THEN Link ELSE mark[p]])
    /\ phase = "idle" /\ cmd = "sync" /\ named = {}
    /\ tree = mark /\ probe = {} /\ goal = EmptyTree /\ todo = {}
    /\ before = EmptyTree /\ raced = {} /\ partly = FALSE
    /\ edits = 0 /\ runs = 0

(* The user puts a file or a link at a place, making the folders to it in   *)
(* place of whatever was there, or removes what is at a place, a folder     *)
(* with all in it.                                                          *)
UserWrites(d) ==
    /\ edits < MaxEdits
    /\ disk' = d /\ d # disk
    /\ raced' = raced \cup {q \in Places : d[q] # disk[q]}
    /\ edits' = edits + 1 /\ partly' = FALSE
    /\ UNCHANGED <<mark, head, run, before, runs>>

UserPuts(p, v) ==
    UserWrites([q \in Places |-> IF q = p THEN v
                                 ELSE IF q \in Above(p) THEN Folder
                                 ELSE IF q \in Below(p) THEN Absent
                                 ELSE disk[q]])

UserRemoves(p) == UserWrites(Removed(disk, p))

-----------------------------------------------------------------------------
(* Reading home. *)

(* mutant: links are followed *)
RefusesNothing(d, p) == FALSE

(* A path is never resolved through a link. *)
Refused(d, p) == LinksAbove(d, p) # {}

(* A link dotsync wrote is what home holds there: beneath it is nothing. *)
BeneathManagedLink(t, d, p) == \E q \in Above(p) : t[q] = Link /\ d[q] = Link

Readable(t, d, paths) ==
    \A p \in paths : BeneathManagedLink(t, d, p) \/ ~Refused(d, p)

ReadEntry(d, p) == IF IsEntry(d, p) THEN d[p] ELSE Absent

Snapshot(t, d, paths) ==
    [p \in Places |-> IF p \notin paths THEN t[p]
                      ELSE IF BeneathManagedLink(t, d, p) THEN Absent
                      ELSE ReadEntry(d, p)]

Reads(paths, next) ==
    IF Readable(tree, disk, paths)
    THEN /\ tree' = Snapshot(tree, disk, paths)
         /\ probe' = paths /\ phase' = next /\ raced' = {}
    ELSE /\ phase' = "stopped"
         /\ UNCHANGED <<tree, probe, raced>>

Acquire(c) ==
    /\ phase = "idle" /\ runs < MaxRuns
    /\ cmd' = c /\ runs' = runs + 1
    /\ Reads(Managed(tree) \cup Managed(mark), "acquired")
    /\ UNCHANGED <<disk, mark, head, named, goal, todo, before, partly, edits>>

(* mutant: the head is merged without reading what home holds at its paths *)
ObserveNothing ==
    /\ phase = "acquired" /\ phase' = "observed"
    /\ UNCHANGED <<disk, mark, head, cmd, named, tree, probe, goal, todo, before,
                   raced, partly, counters>>

Observe ==
    /\ phase = "acquired"
    /\ IF Managed(head) \subseteq probe
       THEN phase' = "observed" /\ UNCHANGED <<tree, probe, raced>>
       ELSE Reads(probe \cup Managed(head), "observed")
    /\ UNCHANGED <<disk, mark, head, cmd, named, goal, todo, before, partly, counters>>

(* status is given a folder: it lists what it finds there and no tree it    *)
(* knows holds, and to compare that with the fleet's it reads it.           *)
Untracked(a) ==
    EntriesBelow(disk, Leads(disk, a)) \ (Managed(mark) \cup Managed(tree) \cup Managed(head))

Look(a) ==
    /\ phase = "observed" /\ cmd = "status"
    /\ IF Untracked(a) \subseteq probe
       THEN phase' = "stopped" /\ UNCHANGED <<tree, probe, raced>>
       ELSE Reads(probe \cup Untracked(a), "stopped")
    /\ partly' = FALSE
    /\ UNCHANGED <<disk, mark, head, cmd, named, goal, todo, before, counters>>

-----------------------------------------------------------------------------
(* The merge of home and the head, from the mark.  Trees merge from the top *)
(* down: a side that did not move yields whole, three folders merge entry   *)
(* by entry, and anything else is settled at the path itself.               *)

Part(t, p)     == [q \in AtOrBelow(p) |-> t[q]]
IsFolder(t, p) == \E q \in Below(p) : t[q] # Absent

(* mutant: sides that moved alike are in conflict *)
NeverAlike(ours, base, theirs) ==
    IF theirs = base THEN "ours" ELSE IF ours = base THEN "theirs" ELSE "conflict"

Trivial(ours, base, theirs) ==
    IF theirs \in {base, ours} THEN "ours" ELSE IF ours = base THEN "theirs"
    ELSE "conflict"

(* mutant: the folder of home wins over another *)
HomesFolderWins(home, p) ==
    LET entries == Trivial(home[p], mark[p], head[p])
        entry == CASE entries = "ours"   -> home[p]
                   [] entries = "theirs" -> head[p]
                   [] OTHER -> Conflict
    IN  IF entry # Absent THEN entries
        ELSE IF IsFolder(home, p) THEN "ours"
        ELSE IF IsFolder(head, p) THEN "theirs"
        ELSE "conflict"

(* Where a folder is one of the terms it counts for nothing: the entries    *)
(* decide, and where they leave nothing, the one side that is a folder.     *)
SettleFolderTerms(home, p) ==
    LET entries == Trivial(home[p], mark[p], head[p])
        entry == CASE entries = "ours"   -> home[p]
                   [] entries = "theirs" -> head[p]
                   [] OTHER -> Conflict
    IN  IF entry # Absent THEN entries
        ELSE IF IsFolder(home, p) /\ IsFolder(head, p) THEN "conflict"
        ELSE IF IsFolder(home, p) THEN "ours"
        ELSE IF IsFolder(head, p) THEN "theirs"
        ELSE "conflict"

Side(home, p) ==
    LET parts   == Trivial(Part(home, p), Part(mark, p), Part(head, p))
        entries == {t[p] : t \in {home, mark, head}} \ {Absent}
        folders == {t \in {home, mark, head} : IsFolder(t, p)}
    IN  IF parts # "conflict" THEN parts
        ELSE IF folders # {} /\ entries = {} THEN "within"
        ELSE IF folders # {} THEN SettleFolderTerms(home, p)
        ELSE "conflict"

(* The highest path at or above p that is not merged within decides. *)
DecidedAt(home, p) ==
    LET deciding == {q \in {p} \cup Above(p) : q = p \/ Side(home, q) # "within"}
    IN  CHOOSE q \in deciding : \A r \in deciding : Len(q) <= Len(r)

Merged(home) ==
    [p \in Places |-> LET side == Side(home, DecidedAt(home, p))
                      IN  CASE side = "ours"   -> home[p]
                            [] side = "theirs" -> head[p]
                            [] side = "within" -> Absent
                            [] OTHER -> Conflict]

ConflictsIn(t) == {p \in Places : t[p] = Conflict}

(* mutant: the head's version of a path beside an entry above it *)
HeadBeside(paths) ==
    [p \in Places |-> IF \E q \in paths : p \in AtOrBelow(q) THEN head[p] ELSE Merged(tree)[p]]

(* A run that names paths takes the head's version of them, whole, and with *)
(* it the folders that takes.                                               *)
HeadAt(paths) ==
    LET m == Merged(tree)
    IN  [p \in Places |-> IF \E q \in paths : p \in AtOrBelow(q) THEN head[p]
                          ELSE IF AtOrBelow(p) \cap paths \cap Managed(head) # {} THEN Absent
                          ELSE m[p]]

HomeAtConflicts ==
    LET m == Merged(tree) IN [p \in Places |-> IF m[p] = Conflict THEN tree[p] ELSE m[p]]

Goal(paths) ==
    CASE cmd = "sync"     -> Merged(tree)
      [] cmd = "discard"  -> HeadAt(paths)
      [] cmd = "continue" -> HomeAtConflicts
      [] cmd = "abort"    -> head

Differ(s, t) == {p \in Places : s[p] # t[p]}

(* discard is given paths with a local change; continue is for a conflict.  *)
MayName(paths) ==
    IF cmd = "discard"
    THEN paths # {} /\ paths \subseteq Differ(tree, mark) \cap Differ(tree, head)
    ELSE paths = {}

(* An abort here is one for which a merge or a commit waits, else it leaves *)
(* home as it is (pause.rs, NoPausedCascade); that is the repository's to   *)
(* say, and may be so of any home.                                          *)
Decide(paths) ==
    /\ phase = "observed" /\ cmd # "status" /\ MayName(paths)
    /\ LET next == Goal(paths)
       IN  IF \/ ConflictsIn(next) # {}
              \/ cmd = "continue" /\ ConflictsIn(Merged(tree)) = {}
              \/ mark = head /\ cmd \in {"sync", "continue"}
       THEN phase' = "stopped" /\ UNCHANGED <<named, goal, todo, before>>
       ELSE /\ named' = paths
            /\ goal' = next
            /\ todo' = Differ(tree, next)
            /\ before' = disk
            /\ phase' = "checked"
    /\ UNCHANGED <<disk, mark, head, cmd, tree, probe, raced, partly, counters>>

-----------------------------------------------------------------------------
(* Writing home. *)

Removals == {p \in todo : goal[p] = Absent}
Writes   == {p \in todo : goal[p] # Absent}

(* mutant: a folder in the way is found out when it is reached *)
FoundLater(p) == {}

(* What a folder in the way of a write holds besides what is about to go. *)
UnmanagedUnder(p) == EntriesBelow(disk, Leads(disk, p)) \ Removals

CheckOutStarts ==
    /\ phase = "checked"
    /\ phase' = IF \A p \in Writes : UnmanagedUnder(p) = {}
                THEN "writing" ELSE "refused"
    /\ UNCHANGED <<disk, mark, head, cmd, named, tree, probe, goal, todo, before,
                   raced, partly, counters>>

(* A run that ends part-way leaves the mark where it was. *)
EndsPartWay ==
    /\ phase' = "failed"
    /\ partly' = (partly \/ (cmd = "sync" /\ raced = {}))
    /\ UNCHANGED <<disk, todo>>

Reaches(p, possible, d) ==
    /\ phase = "writing" /\ p \in todo
    /\ IF possible
       THEN disk' = d /\ todo' = todo \ {p} /\ partly' = FALSE /\ UNCHANGED phase
       ELSE EndsPartWay
    /\ UNCHANGED <<mark, head, cmd, named, tree, probe, goal, before, raced, counters>>

RemoveEntry(p) ==
    /\ p \in Removals
    /\ Reaches(p, ~Refused(disk, p) /\ disk[Leads(disk, p)] # Folder,
               RemovedWithFolders(disk, Leads(disk, p)))

(* A folder in the way goes if nothing but folders is in it.  (A link above *)
(* would let the write through, were it not refused.)                       *)
WriteEntry(p) ==
    /\ Removals = {} /\ p \in Writes
    /\ Reaches(p, /\ ~Refused(disk, p)
                  /\ EntriesBelow(disk, p) = {}
                  /\ \A q \in Above(p) : disk[q] \in {Folder, Absent, Link},
               Written(Removed(disk, p), p, goal[p]))

WriteFails ==
    /\ phase = "writing" /\ EndsPartWay
    /\ UNCHANGED <<mark, head, cmd, named, tree, probe, goal, before, raced, counters>>

(* The switch is recorded, and home is on the head. *)
CheckOutEnds ==
    /\ phase = "writing" /\ todo = {}
    /\ phase' = "done" /\ tree' = goal /\ mark' = head
    /\ UNCHANGED <<disk, head, cmd, named, probe, goal, todo, before, raced, partly,
                   counters>>

(* What the run read is persisted, and the next run starts from it. *)
Finish ==
    /\ phase \in {"done", "stopped", "refused", "failed"}
    /\ phase' = "idle" /\ cmd' = "sync" /\ named' = {} /\ probe' = {}
    /\ goal' = EmptyTree /\ todo' = {} /\ before' = EmptyTree /\ raced' = {}
    /\ UNCHANGED <<disk, mark, head, tree, partly, counters>>

RunStep ==
    \/ \E c \in Commands : Acquire(c)
    \/ Observe
    \/ \E a \in Places : Look(a)
    \/ \E paths \in {{}} \cup {{p} : p \in Paths} : Decide(paths)
    \/ CheckOutStarts
    \/ \E p \in Places : RemoveEntry(p) \/ WriteEntry(p)
    \/ CheckOutEnds \/ Finish

User == \E p \in Places :
            UserRemoves(p) \/ \E v \in Files \cup {Link} : UserPuts(p, v)

Next == RunStep \/ WriteFails \/ User

Spec == Init /\ [][Next]_vars
-----------------------------------------------------------------------------
(* The type invariant; home and the trees hold together: nothing lies below *)
(* what is no folder, and no tree the run writes holds an entry below       *)
(* another, or a conflict.                                                  *)
HoldsTogether(d) ==
    \A p \in Places : d[p] # Absent => \A q \in Above(p) : d[q] = Folder

TypeOK ==
    /\ disk \in [Places -> Entries \cup {Folder}] /\ HoldsTogether(disk)
    /\ {mark, head, tree, goal} \subseteq Trees
    /\ phase \in Phases /\ cmd \in Commands
    /\ named \subseteq Paths
    /\ {probe, todo, raced} \subseteq SUBSET Places
    /\ partly \in BOOLEAN
    /\ edits \in 0..MaxEdits /\ runs \in 0..MaxRuns

ByTheRun == edits' = edits

(* A run touches nothing in home but what it set out to write: a file or    *)
(* link goes only at a path it is to change, and only if it is what the run *)
(* read there or the user put it there since; one appears only at such a    *)
(* path and is what the goal holds.  Whatever stands where, whatever the    *)
(* links lead to, whatever the user does meanwhile (working_copy.rs,        *)
(* check_out, home_disk_path).                                              *)
TouchesOnlyItsPaths ==
    [][ByTheRun =>
          \A p \in Places : disk'[p] # disk[p] =>
             /\ IsEntry(disk, p) => p \in todo /\ (disk[p] = tree[p] \/ p \in raced)
             /\ IsEntry(disk', p) => p \in todo /\ disk'[p] = goal[p]]_vars

(* When a run has written home and the user stayed out of it, reading home  *)
(* again gives the goal, and no folder is left empty that was not           *)
(* (working_copy.rs, check_out, remove_emptied_folders).                    *)
IsEmpty(d, p) == d[p] = Folder /\ \A q \in Below(p) : d[q] = Absent

HomeHoldsTheGoal ==
    (phase = "done" /\ raced = {}) =>
        /\ \A p \in probe : ReadEntry(disk, p) = goal[p]
        /\ \A p \in Places : IsEmpty(disk, p) => IsEmpty(before, p)

(* A run that checked what stands in its way fails for one reason only:     *)
(* something dotsync does not manage stands where a folder has to be.       *)
(* Everything else it finds before it writes anything (working_copy.rs,     *)
(* check_out: "so a checkout that cannot finish changes nothing").          *)
OnlyAFileForAFolderFails ==
    [][(phase = "writing" /\ phase' = "failed" /\ raced = {}) =>
          \A p \in Places : RemoveEntry(p) \/ WriteEntry(p) =>
              \E q \in Above(p) : disk[q] \in Files /\ q \notin Managed(tree)]_vars

(* The merge gives each side its changes: a path only the head changed is   *)
(* the head's, a path only home changed is home's, and what the user put at *)
(* a path stays there whatever the head did with it, unless it lies in a    *)
(* folder the other side has an entry for (home.rs, settle_folder_terms).   *)
InReplacedFolder(t, p) == \E q \in Above(p) : t[q] # Absent

KeepsEdit(p) == (tree[p] \notin {mark[p], Absent}) => goal'[p] = tree[p]

EachSideKeepsItsChanges ==
    [][(phase' = "checked" /\ phase = "observed" /\ cmd = "sync") =>
          \A p \in Paths :
             /\ tree[p] = mark[p] => InReplacedFolder(tree, p) \/ goal'[p] = head[p]
             /\ \/ InReplacedFolder(head, p)
                \/ KeepsEdit(p) /\ (head[p] = mark[p] => goal'[p] = tree[p])]_vars

(* A sync that ended part-way is taken up where it was left: while home is  *)
(* not changed, nor listed by a status, what it did write reads as the      *)
(* change the head makes, and the next sync has nothing to stop at.  Two    *)
(* changes of kind are the exception: a folder that becomes a link, beneath *)
(* which the next run refuses to read, and an entry that becomes a folder   *)
(* of several, of which home then has some (working_copy.rs, check_out;     *)
(* home.rs, switch_and_check_out, settle_folder_terms).                     *)
CannotBeTakenUp(p) ==
    \/ head[p] = Link /\ (IsFolder(mark, p) \/ IsFolder(tree, p))
    \/ mark[p] # Absent /\ \E q, r \in EntriesBelow(head, p) : q # r

TakesUpWhatWasLeft ==
    [][(phase # "stopped" /\ phase' = "stopped" /\ cmd' = "sync"
          /\ partly /\ mark # head) => \E p \in Places : CannotBeTakenUp(p)]_vars

(* For all that can stand in home, a run moves it a place at a time, and    *)
(* every place but that one reads as it did: what module Home takes for     *)
(* granted (working_copy.rs, snapshot and check_out; home.rs,               *)
(* switch_and_check_out).                                                   *)
Delivering == phase \in {"checked", "writing"}

ByPath == INSTANCE Delivery
    WITH content <- [p \in Places |-> ReadEntry(disk, p)],
         known   <- tree,
         writing <- Delivering,
         goal    <- IF Delivering THEN goal ELSE EmptyTree,
         todo    <- IF Delivering THEN todo ELSE {},
         since   <- raced

DeliversPathByPath == ByPath!Spec

-----------------------------------------------------------------------------
(* What the design says, and the code does not do. *)

(* DESIGN.md, Classification: an untracked file is "not managed; only       *)
(* `commit` cares".  So whatever dotsync was run before, no run removes or  *)
(* replaces what neither the head nor the mark holds anything at.           *)
UntrackedIsLeftAlone ==
    [][ByTheRun =>
          \A p \in Places :
             IsEntry(disk, p) /\ disk'[p] # disk[p]
                => p \in Managed(mark) \cup Managed(head)]_vars
=============================================================================
