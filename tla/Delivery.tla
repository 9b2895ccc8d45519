------------------------------ MODULE Delivery ------------------------------
(* What a run promises of home, seen a path at a time: a place holds an     *)
(* entry or nothing and none is in another's way.  A run reads some of      *)
(* them, picks a tree and moves home to it one place after the other,       *)
(* changing no other place, removals first; when all are moved the mark     *)
(* moves, and if the run ends before that it does not.                      *)
(*                                                                          *)
(* This is home as module Home has it; that real folders and links amount   *)
(* to it is what WorkingCopy is checked against.                            *)
EXTENDS Naturals

CONSTANTS Places, Entries, Absent

VARIABLES
    content,    \* what home holds at each place
    known,      \* what the run believes it holds
    mark,       \* the tree home was last moved to
    writing,    \* whether a run is moving home
    goal, todo, \* to what, and the places still to move
    since,      \* at least the places the user wrote since they were read
    edits       \* how often the user wrote

vars  == <<content, known, mark, writing, goal, todo, since, edits>>
Trees == [Places -> Entries]
Rests == writing = FALSE /\ goal = [p \in Places |-> Absent] /\ todo = {}

Init ==
    /\ {content, known, mark} \subseteq Trees
    /\ Rests /\ since = {} /\ edits = 0

(* The user may write anything anywhere, also while home is being moved. *)
UserActs ==
    /\ content' \in Trees /\ edits' = edits + 1
    /\ since \cup {p \in Places : content'[p] # content[p]} \subseteq since'
    /\ UNCHANGED <<known, mark, writing, goal, todo>>

Reads ==
    /\ Rests /\ since' = {}
    /\ known' \in Trees /\ \A p \in Places : known'[p] \in {known[p], content[p]}
    /\ UNCHANGED <<content, mark, writing, goal, todo, edits>>

(* A run is to change no place it does not know. *)
Starts ==
    /\ Rests /\ writing' = TRUE
    /\ goal' \in Trees /\ todo' = {p \in Places : known[p] # goal'[p]}
    /\ \A p \in todo' \ since : content[p] = known[p]
    /\ UNCHANGED <<content, known, mark, since, edits>>

Moves(p) ==
    /\ writing /\ p \in todo
    /\ goal[p] = Absent \/ \A q \in todo : goal[q] # Absent
    /\ content' = [content EXCEPT ![p] = goal[p]]
    /\ todo' = todo \ {p}
    /\ UNCHANGED <<known, mark, writing, goal, since, edits>>

Arrives ==
    /\ writing /\ todo = {}
    /\ known' = goal /\ mark' \in Trees /\ Rests'
    /\ UNCHANGED <<content, since, edits>>

FallsShort ==
    /\ writing /\ Rests'
    /\ UNCHANGED <<content, known, mark, since, edits>>

Next == \/ UserActs \/ Reads \/ Starts \/ Arrives \/ FallsShort
        \/ \E p \in Places : Moves(p)

Spec == Init /\ [][Next]_vars
=============================================================================
