-------------------------- MODULE PlacementProofs --------------------------
(* Proofs about Placement: what was proved of the fleet's invariant holds   *)
(* with move and drop among its steps too, for the weaker form in which a   *)
(* deletion need not stand.  A placement plans and lays its pins in two     *)
(* passes over one transaction, and the second may leave a local branch,    *)
(* which is no scope and is not pushed, where the first accepted a          *)
(* deletion, so the stronger form is not kept by its steps.                 *)
EXTENDS Placement, ConvergenceReportProofs

Loose == "loose"

-----------------------------------------------------------------------------
(* Starting. *)

(* A placement starts as any command does.                                  *)
LEMMA StartPlacementKeeps ==
    ASSUME IInv(Loose), NEW m \in Machines, NEW cmd, NEW p \in Paths, NEW from \in Scopes,
           NEW onto \in SUBSET Scopes, StartPlacement(m, cmd, p, from, onto)
    PROVE  IInv(Loose)'
<1>. DEFINE steps == <<"check", "fetch", "place", "publish", "home">>
            edit == [NoEdit EXCEPT !.scope = from, !.path = p, !.on = onto]
<1>1. /\ edits < MaxEdits /\ Starts(m, cmd, steps, edit, EmptyTree)
      /\ edits' = edits + 1 /\ answers' = answers
  BY DEF StartPlacement
<1>2. edit \in Edits /\ edit.scope \in Scopes
  BY NoEditIsAnEdit DEF Edits
<1>3. steps \in Seq(Steps) /\ steps \in Seq(Steps \ {"resolve"}) /\ EmptyTree \in Trees
  BY NoEditIsAnEdit DEF Steps, PassSteps
<1>. HIDE DEF steps, edit
<1>4. StepsFit([steps |-> steps, edit |-> edit], record[m])
  BY <1>2, <1>3, PlainStepsFit
<1>5. /\ RepoInv' /\ HeadsInv(Loose)' /\ RecordInv' /\ RunInv' /\ PassInv(Loose)'
      /\ UNCHANGED <<mark, stopped, failures, commits>>
  BY <1>1, <1>2, <1>3, <1>4, StartsKeeps
<1>6. edits' \in 0..MaxEdits /\ answers' \in 0..MaxAnswers
  BY <1>1, BoundsAreNumbers DEF IInv, RestInv
<1>. QED  BY <1>5, <1>6 DEF IInv, RestInv

(* Neither move nor drop breaks the invariant by starting.                  *)
LEMMA StartsPlacementKeeps ==
    ASSUME IInv(Loose), NEW m \in Machines, StartsPlacement(m)
    PROVE  IInv(Loose)'
<1>1. CASE StartMove(m)
  <2>1. PICK p \in Paths, from \in Scopes, to \in Scopes :
            StartPlacement(m, "move", p, from, {to})
    BY <1>1 DEF StartMove
  <2>2. {to} \in SUBSET Scopes
    OBVIOUS
  <2>. QED  BY <2>1, <2>2, StartPlacementKeeps
<1>2. CASE StartDrop(m)
  <2>1. PICK p \in Paths, from \in Scopes : StartPlacement(m, "drop", p, from, {})
    BY <1>2 DEF StartDrop
  <2>2. {} \in SUBSET Scopes
    OBVIOUS
  <2>. QED  BY <2>1, <2>2, StartPlacementKeeps
<1>. QED  BY <1>1, <1>2 DEF StartsPlacement

-----------------------------------------------------------------------------
(* Planning. *)

(* A run that is refused changes nothing, whatever pass it had under way.   *)
LEMMA RefusalsKeep ==
    ASSUME IInv(Loose), NEW m \in Machines,
           PlacementIsInvalid(m) \/ PlacementRefused(m) \/ PlacementWouldConflict(m)
    PROVE  IInv(Loose)'
<1>1. /\ RunEnds(m) /\ (pass' = pass \/ pass' = NoPass)
      /\ UNCHANGED <<repo, mark, record, stopped, rewound, counters>>
  BY DEF PlacementIsInvalid, PlacementRefused, PlacementWouldConflict, PassEnds
<1>2. RecordInv' /\ RestInv'
  BY <1>1, RecordAndRestRest
<1>. QED  BY <1>1, <1>2, QuietStepKeeps

(* The version of a scope is a content, or unsettled.                       *)
LEMMA VersionsAreContents ==
    ASSUME NEW H, NEW heads, NEW s, NEW p
    PROVE  Here(H, heads, s, p) \subseteq Contents
<1>. DEFINE entry == MergeOf(H, AddedIds(heads[s]))[p]
<1>. HIDE DEF entry
<1>1. Resolved(entry) => ValueOf(entry) \in Contents
  BY DEF Resolved, ValueOf
<1>2. Read(entry) \subseteq Contents
  BY <1>1 DEF Read, Conflicted
<1>. QED  BY <1>2 DEF Here, entry

(* The pins of a placement name scopes, a path and contents.                *)
LEMMA PlacementPinsAreTyped ==
    ASSUME NEW m, Place(m) \in Edits, Place(m).scope \in Scopes,
           DOMAIN pass.parents \subseteq Scopes
    PROVE  PlacementPins(m) \in SUBSET Pins
<1>. DEFINE p    == Place(m).path
            from == Place(m).scope
            held(s) == Here(pass.commits, pass.heads, s, p)
            pin(s, holds) == [scope |-> s, path |-> p, holds |-> holds]
            others == {s \in DOMAIN Table : IsOwn(Table[s])} \ ({from} \cup Place(m).on)
<1>1. /\ p \in Paths /\ from \in Scopes /\ Place(m).on \subseteq Scopes
      /\ others \subseteq Scopes
  BY DEF Edits, Table, Rows
<1>2. \A s : held(s) \in SUBSET Contents
  BY VersionsAreContents
<1>3. \A s \in Scopes, holds \in SUBSET Contents : pin(s, holds) \in Pins
  BY <1>1 DEF Pins
<1>4. PlacementPins(m) = {pin(from, {})} \cup {pin(to, held(from)) : to \in Place(m).on}
                         \cup {pin(s, held(s)) : s \in others}
  BY DEF PlacementPins
<1>5. {} \in SUBSET Contents
  OBVIOUS
<1>. HIDE DEF held, pin, others, p, from
<1>. QED  BY <1>1, <1>2, <1>3, <1>4, <1>5

(* The second pass has every scope of the same graph to come, at the heads  *)
(* the first one left.                                                      *)
LEMMA PlanPlacementKeeps ==
    ASSUME IInv(Loose), NEW m \in Machines, pass.by = m, PlanPlacement(m)
    PROVE  IInv(Loose)'
<1>. DEFINE order == CascadeOrder(pass.parents)
            q == [pass EXCEPT !.todo = order, !.before = pass.heads]
            r == [run[m] EXCEPT !.steps = <<"lay">> \o Tail(@), !.pins = PlacementPins(m)]
<1>1. /\ AtStep(m, "place") /\ pass # NoPass /\ pass' = q /\ run' = [run EXCEPT ![m] = r]
      /\ UNCHANGED <<repo, mark, record, stopped, rewound, counters>>
  BY DEF PlanPlacement, AtPlan
<1>2. PassOK(Loose, pass)
  BY <1>1 DEF IInv, PassInv
<1>3. /\ order \in Seq(DOMAIN pass.parents)
      /\ \A i, j \in 1..Len(order) : order[i] = order[j] => i = j
  BY <1>2 DEF PassOK, IsDag
<1>. HIDE DEF order
<1>4. IsPass(pass)
  BY <1>2 DEF PassOK
<1>5. /\ q.by = pass.by /\ q.heads = pass.heads /\ q.parents = pass.parents
      /\ q.todo = order /\ q.stop = pass.stop /\ q.commits = pass.commits
      /\ q.written = pass.written /\ IsPass(q)
  <2>. DEFINE r1 == [pass EXCEPT !.todo = order]
              r2 == [r1 EXCEPT !.before = pass.heads]
  <2>1. q = r2
    OBVIOUS
  <2>2. /\ r1.by = pass.by /\ r1.heads = pass.heads /\ r1.parents = pass.parents
        /\ r1.todo = order /\ r1.stop = pass.stop /\ r1.commits = pass.commits
        /\ r1.written = pass.written /\ IsPass(r1)
    BY <1>4 DEF IsPass
  <2>. HIDE DEF r1
  <2>3. /\ r2.by = r1.by /\ r2.heads = r1.heads /\ r2.parents = r1.parents
        /\ r2.todo = r1.todo /\ r2.stop = r1.stop /\ r2.commits = r1.commits
        /\ r2.written = r1.written /\ IsPass(r2)
    BY <2>2 DEF IsPass
  <2>. HIDE DEF r2, q
  <2>. QED  BY <2>1, <2>2, <2>3
<1>. HIDE DEF q
<1>6. PassOK(Loose, q)
  BY <1>2, <1>3, <1>5 DEF PassOK, Loose
<1>7. PassInv(Loose)'
  <2>1. commits' = commits /\ written' = written /\ local' = local
    BY <1>1 DEF repo
  <2>2. PassOK(Loose, pass')
    BY <1>1, <1>6
  <2>. QED  BY <2>1, <2>2 DEF PassInv, PassOK
<1>8. RepoInv' /\ HeadsInv(Loose)' /\ Extends(commits', commits)
  BY <1>1, RepoRests DEF IInv
<1>9. RecordInv' /\ RestInv'
  BY <1>1, RecordAndRestRest
<1>10. RunInv'
  <2>1. /\ run[m] \in Runs(Positions(commits)) /\ run[m].steps # <<>>
        /\ run[m].steps[1] = "place" /\ 1 \in 1..Len(run[m].steps)
        /\ StepsFit(run[m], record[m]) /\ run[m].steps \in Seq(Steps)
    BY <1>1, TheFirstStep DEF IInv, Runs
  <2>2. Place(m) \in Edits /\ Place(m).scope \in Scopes
    BY <2>1 DEF StepsFit, Runs, Place
  <2>3. PlacementPins(m) \in SUBSET Pins
    BY <1>2, <2>2, PlacementPinsAreTyped DEF PassOK
  <2>. DEFINE steps == <<"lay">> \o Tail(run[m].steps)
  <2>4. /\ steps \in Seq(Steps) /\ Len(steps) = Len(run[m].steps)
        /\ steps[1] = "lay"
        /\ \A i \in 1..Len(steps) : i # 1 => steps[i] = run[m].steps[i]
    BY <2>1 DEF Steps
  <2>. HIDE DEF steps
  <2>5. r = [run[m] EXCEPT !.steps = steps, !.pins = PlacementPins(m)]
    BY DEF steps
  <2>6. r \in Runs(Positions(commits)) /\ r.steps = steps /\ r.edit = run[m].edit
    BY <2>1, <2>3, <2>4, <2>5 DEF Runs
  <2>. HIDE DEF r
  <2>7. StepsFit(r, record'[m])
    <3>1. record' = record
      BY <1>1
    <3>2. ASSUME NEW i \in 1..Len(r.steps)
          PROVE  /\ r.steps[i] \in {"plan", "create", "delete", "place"} =>
                        r.edit.scope \in Scopes
                 /\ r.steps[i] = "resolve" => i = 1 /\ record'[m].commit # NoCommit
      BY <2>1, <2>4, <2>6, <3>1 DEF StepsFit
    <3>. QED  BY <3>2 DEF StepsFit
  <2>8. commits' = commits
    BY <1>1 DEF repo
  <2>9. Goes(m, r)
    <3>1. r.steps # <<>>
      BY <2>1, <2>4, <2>6
    <3>. QED  BY <1>1, <3>1 DEF Goes
  <2>. QED  BY <1>1, <1>8, <2>6, <2>7, <2>8, <2>9, RunMoves DEF IInv
<1>. QED  BY <1>7, <1>8, <1>9, <1>10 DEF IInv

-----------------------------------------------------------------------------
(* Every step, a placement's too, keeps the invariant.                      *)
LEMMA PlacementNextKeeps ==
    ASSUME IInv(Loose), [PlacementNext]_vars
    PROVE  IInv(Loose)'
<1>1. CASE [Next]_vars
  BY <1>1, NextKeeps
<1>2. ASSUME NEW m \in Machines, PlacementStep(m)
      PROVE  IInv(Loose)'
  <2>1. CASE BeginPlacement(m)
    BY <2>1, TransactsKeeps DEF BeginPlacement
  <2>2. CASE StopsBeforePlanning(m)
    BY <2>2, PassIsRecordedKeeps DEF StopsBeforePlanning
  <2>3. CASE PlacementIsRecorded(m)
    BY <2>3, PassIsRecordedKeeps DEF PlacementIsRecorded
  <2>4. CASE PlacementIsInvalid(m) \/ PlacementRefused(m) \/ PlacementWouldConflict(m)
    BY <2>4, RefusalsKeep
  <2>5. CASE pass.by = m /\ PlanPlacement(m)
    BY <2>5, PlanPlacementKeeps
  <2>. QED  BY <1>2, <2>1, <2>2, <2>3, <2>4, <2>5 DEF PlacementStep
<1>3. ASSUME NEW m \in Machines, StartsPlacement(m)
      PROVE  IInv(Loose)'
  BY <1>3, StartsPlacementKeeps
<1>. QED  BY <1>1, <1>2, <1>3 DEF PlacementNext

(* The invariant holds of every behaviour of a fleet that moves and drops   *)
(* files.                                                                   *)
THEOREM PlacementInvariance == PlacementSpec => []IInv(Loose)
<1>1. Init => IInv(Loose)
  BY InitIInv
<1>2. IInv(Loose) /\ [PlacementNext]_vars => IInv(Loose)'
  BY PlacementNextKeeps
<1>. QED  BY <1>1, <1>2, PTL DEF PlacementSpec

(* Everything has its type, whatever is moved and dropped.                  *)
THEOREM PlacementTypeTheorem == PlacementSpec => []TypeOK
<1>1. IInv(Loose) => TypeOK
  BY TypesFollow
<1>. QED  BY <1>1, PlacementInvariance, PTL

(* A head holds what its machine saw published of it, unless the machine    *)
(* moved it back: the two passes of a placement keep to that as one does.   *)
THEOREM PlacementHeadsTheorem == PlacementSpec => []HeadsHoldWhatWasPublished
<1>1. IInv(Loose) => HeadsHoldWhatWasPublished
  BY HeadsFollow
<1>. QED  BY <1>1, PlacementInvariance, PTL

(* A branch of the remote that is there, and is not deleted, moves to a     *)
(* descendant of where it was, unless a machine had moved the scope back:   *)
(* nothing published is lost to a placement.                                *)
THEOREM PlacementGrowthTheorem == PlacementSpec => PublishedScopesGrow
<1>. DEFINE grows == \A s \in Scopes \ rewound :
                        (remote[s] # Gone /\ remote'[s] \notin {remote[s], Gone})
                           => Descends(remote'[s], remote[s])
<1>1. ASSUME PlacementNext, ~Next  PROVE remote' = remote
  <2>1. ASSUME NEW m \in Machines, PlacementStep(m)  PROVE remote' = remote
    BY <2>1 DEF PlacementStep, StopsBeforePlanning, PlacementRefused, PlanPlacement,
       PlacementWouldConflict, PlacementIsRecorded, PlacementIsInvalid, BeginPlacement,
       PassIsRecorded, Transacts, repo
  <2>2. ASSUME NEW m \in Machines, StartsPlacement(m)  PROVE remote' = remote
    BY <2>2 DEF StartsPlacement, StartMove, StartDrop, StartPlacement, Starts, repo
  <2>. QED  BY <1>1, <2>1, <2>2 DEF PlacementNext
<1>2. IInv(Loose) /\ [PlacementNext]_vars => [grows]_vars
  <2>. SUFFICES ASSUME IInv(Loose), PlacementNext, NEW s \in Scopes \ rewound,
                       remote[s] # Gone, remote'[s] \notin {remote[s], Gone}
                PROVE  Descends(remote'[s], remote[s])
    OBVIOUS
  <2>1. Next
    BY <1>1
  <2>2. commits' = commits /\ remote[s] \in commits[remote'[s]].anc
    BY <2>1, PushHolds
  <2>. QED  BY <2>2 DEF Descends
<1>. QED  BY <1>2, PlacementInvariance, PTL DEF PlacementSpec, PublishedScopesGrow

(* A pass that converges reaches every scope it passes among moves and      *)
(* drops, too: the passes that lay pins are none of these, and none of      *)
(* these brings a scope back.                                               *)
THEOREM PlacementReachTheorem == PlacementSpec => PassReachesScopes
<1>1. Init => IInv(Loose) /\ ReachInv
  BY InitIInv DEF Init, ReachInv
<1>2. ASSUME IInv(Loose), ReachInv, [PlacementNext]_vars
      PROVE  IInv(Loose)' /\ ReachInv'
  <2>1. CASE [Next]_vars
    <3>1. IInv(Loose) /\ ReachInv
      BY <1>2
    <3>2. ReachInv'
      BY <2>1, <3>1, NextReaches
    <3>. QED  BY <1>2, <3>2, PlacementNextKeeps
  <2>2. ASSUME NEW m \in Machines, PlacementStep(m)  PROVE ReachInv'
    <3>1. CASE pass.by = m /\ PlanPlacement(m)
      <4>1. /\ AtStep(m, "place") /\ pass # NoPass
            /\ pass' = [pass EXCEPT !.todo = CascadeOrder(pass.parents),
                                    !.before = pass.heads]
            /\ run' = [run EXCEPT ![m].steps = <<"lay">> \o Tail(@),
                                  ![m].pins = PlacementPins(m)]
        BY <3>1 DEF PlanPlacement, AtPlan
      <4>2. PassOK(Loose, pass)
        BY <1>2, <4>1 DEF IInv, PassInv
      <4>3. pass'.by = m
        BY <3>1, <4>1, <4>2 DEF PassOK, IsPass
      <4>4. run'[m].steps = <<"lay">> \o Tail(run[m].steps)
        BY <1>2, <4>1 DEF IInv, RunInv, Runs
      <4>5. run[m].steps \in Seq(Steps) /\ run[m].steps # <<>>
        BY <1>2, <4>1 DEF IInv, RunInv, Runs, AtStep
      <4>6. Head(run'[m].steps) = "lay"
        BY <4>4, <4>5
      <4>. QED  BY <4>3, <4>6 DEF ReachInv, AtStep
    <3>2. CASE Quiet /\ BeginPlacement(m)
      BY <1>2, <3>2, BeginsReaching DEF BeginPlacement, Quiet
    <3>3. CASE \/ StopsBeforePlanning(m) \/ PlacementRefused(m)
               \/ PlacementWouldConflict(m) \/ PlacementIsRecorded(m)
      BY <3>3 DEF StopsBeforePlanning, PlacementRefused, PlacementWouldConflict,
         PlacementIsRecorded, PassIsRecorded, PassEnds, ReachInv
    <3>4. CASE Quiet /\ PlacementIsInvalid(m)
      BY <3>4 DEF Quiet, PlacementIsInvalid, ReachInv
    <3>. QED  BY <2>2, <3>1, <3>2, <3>3, <3>4 DEF PlacementStep
  <2>3. ASSUME NEW m \in Machines, StartsPlacement(m)  PROVE ReachInv'
    <3>1. pass = NoPass /\ pass' = pass
      BY <2>3 DEF StartsPlacement, Free, Quiet, StartMove, StartDrop, StartPlacement, Starts
    <3>. QED  BY <3>1 DEF ReachInv
  <2>. QED  BY <1>2, <2>1, <2>2, <2>3, PlacementNextKeeps DEF PlacementNext
<1>3. IInv(Loose) /\ ReachInv
        => [\A m \in Machines : ConvergeEnds(m) => ReachesScopes(m)]_vars
  BY EveryPassReaches
<1>. QED  BY <1>1, <1>2, <1>3, PTL DEF PlacementSpec, PassReachesScopes
=============================================================================
