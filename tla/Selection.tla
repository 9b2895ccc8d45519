------------------------------ MODULE Selection ------------------------------
(* Which paths a commit records (selection.rs): what the names it was given *)
(* come to in home and in the target scope, and which of those paths hold a *)
(* change of this machine's own.  Selecting changes nothing but what the    *)
(* run has read, so this module adds operators to WorkingCopy and no step:  *)
(* a commit acquires home as any run does, and the operators say what it    *)
(* would select in a state where a run has.                                 *)
(*                                                                          *)
(* target is the tree of the scope the commit is for, asked the places it   *)
(* was given, none of them for a bare commit.  Names that are no place in   *)
(* home (absolute, outside home, home itself, dotsync's own repository) are *)
(* turned down before anything is read, and left out here.                  *)
EXTENDS WorkingCopy

D == INSTANCE Drift WITH Links <- {Link}

-----------------------------------------------------------------------------
(* What one name stands for. *)

(* What is there; links above a name are followed, the name itself is not.  *)
At(a) == disk[Leads(disk, a)]

HeldBelow(target, a) == {q \in Below(a) : target[q] # Absent}

(* mutant: a link to a folder names the folder *)
FolderOrLink(target, a) == At(a) \in {Folder, Link} \/ HeldBelow(target, a) # {}

NamesAFolder(target, a) == At(a) = Folder \/ HeldBelow(target, a) # {}

(* The walk resolves the place it starts from, and follows nothing else.    *)
WalkFrom(a)  == IF At(a) = Link THEN Target ELSE Leads(disk, a)
WalkFails(a) == IsEntry(disk, WalkFrom(a))

(* mutant: a folder stands for the files in it, and not for those gone *)
OnlyWalked(target, a) == EntriesBelow(disk, WalkFrom(a))

FoundUnder(target, a) ==
    EntriesBelow(disk, WalkFrom(a)) \cup HeldBelow(target, a) \cup (Managed(target) \cap {a})

Matches(target, a) ==
    IF NamesAFolder(target, a) THEN FoundUnder(target, a)
    ELSE {a} \ {b \in {a} : At(b) = Absent /\ target[b] = Absent}

Exactly(target, asked) ==
    UNION {Matches(target, a) : a \in {b \in asked : ~NamesAFolder(target, b)}}

UnderFolders(target, asked) ==
    (UNION {Matches(target, a) : a \in {b \in asked : NamesAFolder(target, b)}})
        \ Exactly(target, asked)

Everything(target, asked) == Exactly(target, asked) \cup UnderFolders(target, asked)

(* A name nothing answers to, or a file to be walked as a folder. *)
Unusable(target, a) ==
    Matches(target, a) = {} \/ (NamesAFolder(target, a) /\ WalkFails(a))

-----------------------------------------------------------------------------
(* What of it is this machine's to record. *)

(* Home is read again if the names or the head add a path to read. *)
ReadsAgain(paths) == ~ paths \cup Managed(head) \subseteq probe
HomeRead(paths) ==
    IF ReadsAgain(paths) THEN Snapshot(tree, disk, probe \cup paths \cup Managed(head))
    ELSE tree
CanRead(paths) ==
    ReadsAgain(paths) => Readable(tree, disk, probe \cup paths \cup Managed(head))

States(home) ==
    LET merged == Merged(home)
    IN  [p \in Places |-> D!Classify(mark[p], home[p], head[p], merged[p] # Conflict)]

(* mutant: what is under a folder is taken as if it were named *)
SelectsAll(target, asked) ==
    LET states  == States(HomeRead(Everything(target, asked)))
        paths   == Everything(target, asked)
    IN  [paths |-> paths, skipped |-> {},
         refused |-> {p \in paths : states[p] \in D!BlockingStates}]

Selection(target, asked) ==
    LET under   == UnderFolders(target, asked)
        states  == States(HomeRead(Everything(target, asked)))
        blocked == {p \in Places : states[p] \in D!BlockingStates}
        changed == {p \in Places : states[p] \in D!LocalChanges}
        paths   == IF asked = {} THEN changed
                   ELSE Exactly(target, asked) \cup (under \ blocked)
    IN  [paths |-> paths, skipped |-> under \cap blocked, refused |-> paths \cap blocked]

Stops(target, asked) ==
    \/ \E a \in asked : Unusable(target, a)
    \/ ~CanRead(Everything(target, asked))
    \/ Selection(target, asked).refused # {}

-----------------------------------------------------------------------------
(* Where a commit would select, and a scope it could be for: this machine's *)
(* own as it is now, or one that holds what this machine last synced.       *)
Selecting == phase = "acquired" /\ cmd = "sync"
Scopes    == {head, mark}
Askings   == {{}, Paths} \cup {{a} : a \in Paths}

(* A name whose folder is elsewhere: a link here that is a folder in the    *)
(* target, or a name below a link.  The walk follows the link, though a     *)
(* link is an entry (selection.rs, expand_selection_paths), and finds files *)
(* by other names than the one asked for.                                   *)
WalksThroughALink(target, asked) ==
    \E a \in asked : \/ At(a) = Link /\ HeldBelow(target, a) # {}
                     \/ LinksAbove(disk, a) # {} /\ NamesAFolder(target, a)

(* A commit leaves nothing out silently.  What the user has done to a file  *)
(* under a name is recorded, or reported as left alone, or the commit       *)
(* stops; a bare commit goes for every file the machine scope or the mark   *)
(* holds.  And it takes up nothing beside what it was asked for             *)
(* (selection.rs, Selection.skipped, expand_selection_paths).               *)
AskedFor(asked) ==
    IF asked = {} THEN Managed(mark) \cup Managed(head)
    ELSE UNION {AtOrBelow(a) : a \in asked}

ChangedHere == {p \in Places \ raced : ReadEntry(disk, p) \notin {mark[p], head[p]}}

Accounted(selection) == selection.paths \cup selection.skipped

CommitTakesWhatItIsAsked ==
    Selecting =>
        LET changed == ChangedHere
        IN  \A target \in Scopes, asked \in Askings :
                LET missable == AskedFor(asked) \cap changed
                IN  \/ /\ Everything(target, asked) \subseteq AskedFor(asked)
                       /\ \/ missable = {}
                          \/ missable \subseteq Accounted(Selection(target, asked))
                    \/ WalksThroughALink(target, asked)
                    \/ Stops(target, asked)

(* Naming a folder is naming what is under it: it selects just the paths    *)
(* that a commit naming each of them would record, and leaves alone just    *)
(* those such a commit would refuse (selection.rs: "a bulk selection        *)
(* filters and says what it left out, and a path named exactly is argued    *)
(* with").  Two kinds of path are left out: a file here that is a folder in *)
(* the target, which by its own name is a folder that cannot be walked, and *)
(* what the user wrote since it was read, as naming the folder may read     *)
(* home again where naming the path does not.                               *)
ReadBefore == raced \cap probe

FolderIsWhatIsUnderIt ==
    Selecting =>
        \A target \in Scopes, a \in Paths :
            \/ ~NamesAFolder(target, a) \/ Unusable(target, a)
            \/ ~CanRead(Everything(target, {a}))
            \/ WalksThroughALink(target, {a})
            \/ LET sel == Selection(target, {a})
               IN  /\ sel.refused = {}
                   /\ \A p \in UnderFolders(target, {a}) \ ({a} \cup ReadBefore) :
                         \/ NamesAFolder(target, p)
                         \/ Stops(target, {p}) <=> p \in sel.skipped
=============================================================================
