------------------------------ MODULE History ------------------------------
(* What the machines share: commits, the merge of any number of them, and   *)
(* the position of a scope's head.                                          *)
(*                                                                          *)
(* A history H is a function from commit ids to commits; a commit is the    *)
(* set of its ancestors (itself among them), the tree it holds, and, as     *)
(* history no program reads, the paths at which a person decided what it    *)
(* holds.  A path here is a hunk: contents merge whole or conflict.         *)
EXTENDS Integers, FiniteSets

CONSTANTS
    Paths,      \* the managed paths
    Files,      \* what a path can hold
    Absent,     \* a path that holds nothing
    Gone        \* a branch that does not exist

Contents  == Files \cup {Absent}
Trees     == [Paths -> Contents]
EmptyTree == [p \in Paths |-> Absent]

-----------------------------------------------------------------------------
(* Merging trees.  An entry of a merged tree counts each content: +1 for a  *)
(* side that holds it, -1 for a base.  Equal sides and bases cancel; what   *)
(* is left is resolved when one content remains, or when every side that    *)
(* moved moved to the same content.                                         *)

Only(v)  == [w \in Contents |-> IF w = v THEN 1 ELSE 0]
Left(entry) == {v \in Contents : entry[v] # 0}
Resolved(entry) == \E v \in Contents : entry = Only(v)
ValueOf(entry)  == CHOOSE v \in Contents : entry = Only(v)

Simplify(entry) ==
    IF Cardinality(Left(entry)) = 2
    THEN Only(CHOOSE v \in Contents : entry[v] > 0)
    ELSE entry

TreeEntries(tree) == [p \in Paths |-> Only(tree[p])]

(* mutant: a merge of the two sides alone, as if they had nothing in common *)
MergeTwoWay(side, base, other) ==
    [p \in Paths |->
        Simplify([v \in Contents |-> side[p][v] - Only(Absent)[v] + other[p][v]])]

MergeEntries(side, base, other) ==
    [p \in Paths |->
        Simplify([v \in Contents |-> side[p][v] - base[p][v] + other[p][v]])]

-----------------------------------------------------------------------------
(* Ancestry. *)

AncestorsOf(H, ids) == UNION {H[c].anc : c \in ids}

HeadsOf(H, ids) == {c \in ids : \A d \in ids \ {c} : c \notin H[d].anc}

CommonAncestors(H, ids, others) ==
    HeadsOf(H, AncestorsOf(H, ids) \cap AncestorsOf(H, others))

(* The merge of a set of commits: one at a time, each against everything    *)
(* merged so far, the base being the merge of their common ancestors.       *)
MergeOf(H, ids) ==
    LET of[S \in SUBSET DOMAIN H] ==
          IF S = {} THEN TreeEntries(EmptyTree)
          ELSE LET c == CHOOSE c \in S : TRUE
               IN  IF S = {c} THEN TreeEntries(H[c].tree)
                   ELSE MergeEntries(of[S \ {c}],
                                     of[CommonAncestors(H, S \ {c}, {c})],
                                     TreeEntries(H[c].tree))
    IN  of[ids]

-----------------------------------------------------------------------------
(* The position of a scope's head on one machine: absent, one commit, or    *)
(* contested between two sides, of which one may be a deletion; a contested *)
(* head remembers the position the two sides moved from.                    *)

At(c)                 == [sides |-> {c}, base |-> Gone]
Contested(c, d, from) == [sides |-> {c, d}, base |-> from]

AddedIds(target)   == target.sides \ {Gone}
IsOne(target, c)   == target.sides = {c} /\ c # Gone
HasConflict(target) == Cardinality(target.sides) > 1
TheOne(target)     == CHOOSE c \in target.sides : TRUE

(* mutant: a head that moved on both sides stays where this machine had it *)
OursWins(H, ours, base, theirs) ==
    IF ours = base THEN At(theirs) ELSE At(ours)

(* Merging a move of the remote's branch, from base to theirs, into a head. *)
MergeTargets(H, ours, base, theirs) ==
    LET behind(c, d) == /\ Gone \notin {c, d} /\ c \in H[d].anc
                        /\ base = Gone \/ base \in H[c].anc
    IN  IF ours = theirs \/ theirs = base THEN At(ours)
        ELSE IF ours = base THEN At(theirs)
        ELSE IF behind(ours, theirs) THEN At(theirs)
        ELSE IF behind(theirs, ours) THEN At(ours)
        ELSE Contested(ours, theirs, base)

(* A fetch that finds the branch moved from seen to now.  In a contested    *)
(* head the position last seen is one of the sides and cancels.             *)
Import(H, target, seen, now) ==
    IF now = seen THEN target
    ELSE IF HasConflict(target)
    THEN MergeTargets(H, CHOOSE c \in target.sides : c # seen, target.base, now)
    ELSE MergeTargets(H, TheOne(target), seen, now)
=============================================================================
