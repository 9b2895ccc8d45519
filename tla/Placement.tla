----------------------------- MODULE Placement -----------------------------
(* move and drop: they change which scope a file's version lives on, on any *)
(* scope from any machine, with content taken from the repository           *)
(* (place.rs).  A placement is planned and laid down in one transaction: a  *)
(* pass that converges what the fetch brought, the pins read off the fleet  *)
(* that leaves, and a second pass with those pins over the same heads.      *)
EXTENDS Convergence

(* In the edit of such a run, path and scope are what is moved and the      *)
(* scope it is taken from; on holds the scope it is moved to, if there is   *)
(* one.                                                                     *)
Place(m) == run[m].edit

StartPlacement(m, cmd, p, from, onto) ==
    /\ edits < MaxEdits
    /\ Starts(m, cmd, <<"check", "fetch", "place", "publish", "home">>,
              [NoEdit EXCEPT !.scope = from, !.path = p, !.on = onto], EmptyTree)
    /\ edits' = edits + 1 /\ UNCHANGED answers

StartMove(m) ==
    \E p \in Paths, from \in Scopes, to \in Scopes :
        StartPlacement(m, "move", p, from, {to})

StartDrop(m) ==
    \E p \in Paths, from \in Scopes : StartPlacement(m, "drop", p, from, {})

-----------------------------------------------------------------------------
(* The scopes are named after the fetch, and before any pass. *)
IsValid(m) ==
    /\ {Place(m).scope} \cup Place(m).on \subseteq Members(m)
    /\ Place(m).scope \notin Place(m).on

PlacementIsInvalid(m) ==
    /\ AtStep(m, "place") /\ ~IsValid(m)
    /\ RunEnds(m)
    /\ UNCHANGED <<repo, mark, record, pass, stopped, rewound, counters>>

BeginPlacement(m) ==
    /\ AtStep(m, "place") /\ IsValid(m)
    /\ Transacts(m)

(* A merge that was already waiting: what the first pass managed is         *)
(* recorded, and the run stops there as any other does.                     *)
StopsBeforePlanning(m) ==
    /\ pass # NoPass /\ pass.stop # NoScope
    /\ PassIsRecorded(m, "place")

-----------------------------------------------------------------------------
(* The plan. *)

Table == Rows(pass.commits, pass.heads, pass.parents, Place(pass.by).path)

(* What moves is a version, so a removal has nothing to carry. *)
Placeable(standing, onto) ==
    IF onto # {} THEN standing \in {"added", "overridden"} ELSE IsOwn(standing)

(* The version of a scope may be what settles its parents' disagreement. *)
ParentsDisagree(s, p) ==
    Above(pass.commits, pass.heads, pass.parents, s, p) = Conflicted

(* mutants: the scopes with a version of their own are left to the merge,   *)
(* or get the version that moves, or the scope it is taken from keeps it    *)
PinsOfTheTwo(m) ==
    LET p    == Place(m).path
        from == Place(m).scope
        pin(s, holds) == [scope |-> s, path |-> p, holds |-> holds]
    IN  {pin(from, {})}
        \cup {pin(to, Here(pass.commits, pass.heads, from, p)) : to \in Place(m).on}

PinsWhatMoves(m) ==
    LET p    == Place(m).path
        from == Place(m).scope
        pin(s, holds) == [scope |-> s, path |-> p, holds |-> holds]
        others == {s \in DOMAIN Table : IsOwn(Table[s])} \ {from}
    IN  {pin(from, {})}
        \cup {pin(s, Here(pass.commits, pass.heads, from, p)) :
                  s \in others \cup Place(m).on}

PinsCopy(m) ==
    LET p    == Place(m).path
        held(s) == Here(pass.commits, pass.heads, s, p)
        pin(s, holds) == [scope |-> s, path |-> p, holds |-> holds]
        others == {s \in DOMAIN Table : IsOwn(Table[s])} \ Place(m).on
    IN  {pin(s, held(s)) : s \in others}
        \cup {pin(to, held(Place(m).scope)) : to \in Place(m).on}

(* from stops holding a version of its own; to holds it; every other scope  *)
(* that holds its own version keeps exactly that.                           *)
PlacementPins(m) ==
    LET p    == Place(m).path
        from == Place(m).scope
        held(s) == Here(pass.commits, pass.heads, s, p)
        pin(s, holds) == [scope |-> s, path |-> p, holds |-> holds]
        others == {s \in DOMAIN Table : IsOwn(Table[s])} \ ({from} \cup Place(m).on)
    IN  {pin(from, {})} \cup {pin(to, held(from)) : to \in Place(m).on}
        \cup {pin(s, held(s)) : s \in others}

AtPlan(m) ==
    /\ AtStep(m, "place") /\ pass # NoPass
    /\ pass.todo = <<>> /\ pass.stop = NoScope

MayPlace(m) ==
    /\ Placeable(Table[Place(m).scope], Place(m).on)
    /\ ~ParentsDisagree(Place(m).scope, Place(m).path)

PlacementRefused(m) ==
    /\ AtPlan(m) /\ ~MayPlace(m)
    /\ pass' = NoPass /\ RunEnds(m)
    /\ UNCHANGED <<repo, mark, record, stopped, rewound, counters>>

PlanPlacement(m) ==
    /\ AtPlan(m) /\ MayPlace(m)
    /\ pass' = [pass EXCEPT !.todo = CascadeOrder(pass.parents),
                            !.before = pass.heads]
    /\ run' = [run EXCEPT ![m].steps = <<"lay">> \o Tail(@),
                          ![m].pins = PlacementPins(m)]
    /\ UNCHANGED <<repo, mark, record, stopped, rewound, counters>>

(* A stop would be recomputed by passes without these pins, so the whole    *)
(* run is refused, its first pass with it.                                  *)
PlacementWouldConflict(m) ==
    /\ PassEnds(m, "lay") /\ pass.stop # NoScope
    /\ RunEnds(m)
    /\ UNCHANGED <<repo, mark, record, stopped, rewound, counters>>

PlacementIsRecorded(m) ==
    /\ pass # NoPass /\ pass.stop = NoScope
    /\ PassIsRecorded(m, "lay")

-----------------------------------------------------------------------------
PlacementStep(m) ==
    \/ pass.by = m /\ (StopsBeforePlanning(m) \/ PlacementRefused(m)
                       \/ PlanPlacement(m) \/ PlacementWouldConflict(m)
                       \/ PlacementIsRecorded(m))
    \/ Quiet /\ (PlacementIsInvalid(m) \/ BeginPlacement(m))

StartsPlacement(m) ==
    Free(m) /\ edits < MaxEdits /\ (StartMove(m) \/ StartDrop(m))

PlacementNext ==
    \/ Next
    \/ \E m \in Machines : PlacementStep(m) \/ StartsPlacement(m)

PlacementFairness ==
    /\ Fairness
    /\ \A m \in Machines : SF_vars(PlacementStep(m))

PlacementSpec == Init /\ [][PlacementNext]_vars /\ PlacementFairness
-----------------------------------------------------------------------------
(* A scope that is published stays published as it was, or is deleted: with *)
(* move and drop about, too, a branch that is there moves only to what      *)
(* holds it, unless a machine moved the scope off what it held, which only  *)
(* abort and a resumed commit do (place.rs, execute; converge.rs, publish). *)
PublishedScopesGrow ==
    [][\A s \in Scopes \ rewound :
          (remote[s] # Gone /\ remote'[s] \notin {remote[s], Gone})
             => Descends(remote'[s], remote[s])]_vars

(* The fleet before and after the pins were laid: the second pass began at  *)
(* pass.before and ended at pass.heads, in one history.                     *)
Was(s, p) == Here(pass.commits, pass.before, s, p)
Is(s, p)  == Here(pass.commits, pass.heads, s, p)
WasRows(p) == Rows(pass.commits, pass.before, pass.parents, p)
IsRows(p)  == Rows(pass.commits, pass.heads, pass.parents, p)

(* A placement changes who owns a file and nothing anybody else decided     *)
(* about it: whatever the cascade merges on the way, no other path changes  *)
(* anywhere, every other scope with a version of its own holds exactly that *)
(* version, the scope it is moved to holds the version that was moved, and  *)
(* the scope it is taken from has nothing of its own left (place.rs,        *)
(* placement_pins).                                                         *)
PlacementKeepsOtherVersions ==
    [][\A m \in Machines : PlacementIsRecorded(m) =>
          LET p == Place(m).path
              from == Place(m).scope
          IN  \A s \in DOMAIN pass.parents :
                 /\ \A q \in Paths \ {p} : Is(s, q) = Was(s, q)
                 /\ s = from => ~IsOwn(IsRows(p)[s])
                 /\ s \in Place(m).on => Is(s, p) = Was(from, p)
                 /\ (IsOwn(WasRows(p)[s]) /\ s \notin {from} \cup Place(m).on)
                       => Is(s, p) = Was(s, p)]_vars

(* A scope that has a scope above it in two ways.  The merge of its parents *)
(* and the merge of its own head with them then have several bases, which   *)
(* may disagree themselves.                                                 *)
BelowTwice(s) ==
    \E t, u \in pass.parents[s] :
        t # u /\ AncestorsAndSelf(pass.parents, t)
                    \cap AncestorsAndSelf(pass.parents, u) # {}

(* The only machines whose config a placement changes are those that had    *)
(* their version from the scope it is taken from, a removal included, and   *)
(* those that now have it from the scope it is moved to, whoever else gives *)
(* them the same; and perhaps those below a scope that is below another     *)
(* twice (DESIGN.md, Placement; place.rs, placement_pins).                  *)
PlacementReachesItsMachines ==
    [][\A m \in Machines : PlacementIsRecorded(m) =>
          LET p == Place(m).path
              from == Place(m).scope
              was == Origins(WasRows(p), pass.parents)
              is  == Origins([s \in DOMAIN pass.parents |->
                                IF s \in Place(m).on THEN "added" ELSE IsRows(p)[s]],
                             pass.parents)
          IN  \A n \in Effect(pass.commits, pass.before, pass.heads,
                              pass.parents, p) :
                 \/ from \in was[n]
                 \/ Place(m).on \cap is[n] # {}
                 \/ /\ WasRows(p)[from] = "removed" /\ WasRows(p)[n] = "none"
                    /\ n \in MachinesBelow(pass.parents, from)
                 \/ \E s \in AncestorsAndSelf(pass.parents, n) : BelowTwice(s)]_vars

(* A placement is turned down for the conflict it would leave only where a  *)
(* scope with no version of its own would be left between parents that now  *)
(* disagree: no scope that holds its own version is drawn into one; or      *)
(* where a scope is below another twice (place.rs, carry_out,               *)
(* PlacementWouldConflict).                                                 *)
TurnedDownForDisagreement ==
    [][\A m \in Machines : PlacementWouldConflict(m) =>
          LET p == Place(m).path IN
          \/ BelowTwice(pass.stop)
          \/ /\ Above(pass.commits, pass.heads, pass.parents, pass.stop, p) = Conflicted
             /\ pass.stop = Place(m).scope \/ ~IsOwn(WasRows(p)[pass.stop])]_vars

-----------------------------------------------------------------------------
(* What the design says, and the code does not do. *)

(* DESIGN.md, Placement: "`--to` holds the version `--from` held".  So when *)
(* a move is recorded, the scope it names is still one, and holds there     *)
(* what the other held (place.rs, place_in_session: both are looked up      *)
(* before the pass that accepts deletions).                                 *)
MovedVersionIsHeld ==
    [][\A m \in Machines : PlacementIsRecorded(m) =>
          \A to \in Place(m).on :
             /\ to \in MembersOf(commits', local'[m])
             /\ Is(to, Place(m).path) = Was(Place(m).scope, Place(m).path)]_vars
=============================================================================
