-------------------------- MODULE HomeReportProofs --------------------------
(* Proofs about HomeReport, from the inductive invariant of HomeProofs.     *)
EXTENDS HomeReport, HomeProofs

(* Classify asks which sides moved, then what is left where they moved. *)
LEMMA ClassifyBySides ==
    ASSUME NEW last \in Contents, NEW home \in Contents, NEW tip \in Contents,
           NEW merges \in BOOLEAN
    PROVE  D!Classify(last, home, tip, merges) =
              IF home = last THEN D!HomeUnmoved(last, tip)
              ELSE IF tip = last THEN D!OnlyHomeMoved(last, home)
              ELSE IF home = tip THEN D!BothMovedAlike(last, home)
              ELSE D!BothMoved(last, home, tip, merges)
<1>1. tip # Conflict
  BY ContentsDistinct DEF Contents
<1>. QED  BY <1>1 DEF D!Classify

(* What each of the four answers. *)
LEMMA SideClasses ==
    ASSUME NEW last, NEW home, NEW tip, NEW merges \in BOOLEAN
    PROVE  /\ D!HomeUnmoved(last, tip) \in
                 {"AbsentEverywhere", "InSync"} \cup D!IncomingChanges
           /\ last = tip => D!HomeUnmoved(last, tip) \notin D!IncomingChanges
           /\ D!OnlyHomeMoved(last, home) \in
                 {"UntrackedInHome", "DeletedInHome", "KindDiffersFromScope",
                  "EditedInHome"}
           /\ D!OnlyHomeMoved(last, home) = "UntrackedInHome" <=>
                 home # Absent /\ last = Absent
           /\ D!BothMovedAlike(last, home) \in
                 {"RemovedEverywhere", "IncomingNewAlreadyMatchesHome", "AlreadyApplied"}
           /\ D!BothMoved(last, home, tip, merges) \in
                 StopsSync \cup {"DivergedEditThatMerges"}
           /\ D!BothMoved(last, home, tip, merges) = "DivergedEditThatMerges" <=>
                 Absent \notin {home, tip} /\ merges
<1>1. /\ D!HomeUnmoved(last, tip) \in
            {"AbsentEverywhere", "InSync"} \cup D!IncomingChanges
      /\ last = tip => D!HomeUnmoved(last, tip) \notin D!IncomingChanges
  <2>1. CASE last = tip /\ tip = Absent
    BY <2>1 DEF D!HomeUnmoved, D!IncomingChanges
  <2>2. CASE last = tip /\ tip # Absent
    BY <2>2 DEF D!HomeUnmoved, D!IncomingChanges
  <2>3. CASE last # tip /\ last = Absent
    BY <2>3 DEF D!HomeUnmoved, D!IncomingChanges
  <2>4. CASE last # tip /\ last # Absent /\ tip = Absent
    BY <2>4 DEF D!HomeUnmoved, D!IncomingChanges
  <2>5. CASE last # tip /\ last # Absent /\ tip # Absent
    BY <2>5 DEF D!HomeUnmoved, D!IncomingChanges
  <2>. QED  BY <2>1, <2>2, <2>3, <2>4, <2>5
<1>2. /\ D!OnlyHomeMoved(last, home) \in
            {"UntrackedInHome", "DeletedInHome", "KindDiffersFromScope", "EditedInHome"}
      /\ D!OnlyHomeMoved(last, home) = "UntrackedInHome" <=> home # Absent /\ last = Absent
  BY DEF D!OnlyHomeMoved
<1>3. D!BothMovedAlike(last, home) \in
        {"RemovedEverywhere", "IncomingNewAlreadyMatchesHome", "AlreadyApplied"}
  BY DEF D!BothMovedAlike
<1>4. /\ D!BothMoved(last, home, tip, merges) \in StopsSync \cup {"DivergedEditThatMerges"}
      /\ D!BothMoved(last, home, tip, merges) = "DivergedEditThatMerges" <=>
            Absent \notin {home, tip} /\ merges
  BY DEF D!BothMoved, StopsSync
<1>. QED  BY <1>1, <1>2, <1>3, <1>4

(* The classification against the merge of the same three contents, for     *)
(* every line merge.                                                        *)
LEMMA ClassifyForetells ==
    ASSUME NEW last \in Contents, NEW home \in Contents, NEW tip \in Contents,
           NEW merged, merged = MergeEntry(home, last, tip),
           NEW merges \in BOOLEAN, merges <=> merged # Conflict
    PROVE  D!Classify(last, home, tip, merges) \in StopsSync
              <=> merged = Conflict
<1>1. Conflict \notin {tip, home, last}
  BY ContentsDistinct DEF Contents
<1>. DEFINE moved == home # last /\ tip # last /\ home # tip
<1>3. CASE ~moved
  <2>1. merged # Conflict
    BY <1>1, <1>3 DEF MergeEntry
  <2>. QED
    BY <1>3, <2>1, ClassifyBySides, SideClasses DEF StopsSync, D!IncomingChanges
<1>4. CASE moved
  <2>1. Absent \in {home, tip} => merged = Conflict
    BY <1>4 DEF MergeEntry
  <2>2. D!Classify(last, home, tip, merges)
          = D!BothMoved(last, home, tip, merges)
    BY <1>4, ClassifyBySides
  <2>3. D!BothMoved(last, home, tip, merges) = "DivergedEditThatMerges"
          <=> merges
    BY <2>1, SideClasses
  <2>4. D!BothMoved(last, home, tip, merges)
          \in StopsSync \cup {"DivergedEditThatMerges"}
    BY SideClasses
  <2>. QED  BY <2>2, <2>3, <2>4 DEF StopsSync
<1>. QED  BY <1>3, <1>4

(* A path is a local change only if home moved, and it is one if home holds *)
(* something that neither the mark nor the head does, one of which manages  *)
(* the path.                                                                *)
LEMMA LocalChangesAreHomes ==
    ASSUME NEW last \in Contents, NEW home \in Contents, NEW tip \in Contents,
           NEW merges \in BOOLEAN
    PROVE  /\ D!Classify(last, home, tip, merges) \in D!LocalChanges => home # last
           /\ (home \notin {last, tip} /\ {last, tip} # {Absent})
                 => D!Classify(last, home, tip, merges) \in D!LocalChanges
<1>1. home = last => D!Classify(last, home, tip, merges) \notin D!LocalChanges
  BY ClassifyBySides, SideClasses DEF D!LocalChanges, D!IncomingChanges
<1>2. CASE home \notin {last, tip} /\ {last, tip} # {Absent} /\ tip = last
  <2>1. last # Absent
    BY <1>2
  <2>. QED
    BY <1>2, <2>1, ClassifyBySides, SideClasses DEF D!LocalChanges
<1>3. CASE home \notin {last, tip} /\ tip # last
  BY <1>3, ClassifyBySides, SideClasses DEF D!LocalChanges, StopsSync
<1>. QED  BY <1>1, <1>2, <1>3

(* A path whose last-synced version is the head's has nothing incoming, and *)
(* is a local change only if home departs from the head and the head holds  *)
(* something there.                                                         *)
LEMMA AtTheHead ==
    ASSUME NEW home \in Contents, NEW tip \in Contents, NEW merges \in BOOLEAN
    PROVE  /\ D!Classify(tip, home, tip, merges) \notin D!IncomingChanges
           /\ D!Classify(tip, home, tip, merges) \in D!LocalChanges
                 => home # tip /\ tip # Absent
BY ClassifyBySides, SideClasses DEF D!LocalChanges, D!IncomingChanges

(* The three sides of every path, in a state of the specification. *)
LEMMA SidesType ==
    ASSUME TypeOK
    PROVE  /\ wcMark.tree \in Trees /\ wcTree \in Trees /\ head.tree \in Trees
           /\ \A p \in Paths :
                /\ wcMark.tree[p] \in Contents
                /\ wcTree[p] \in Contents
                /\ head.tree[p] \in Contents
                /\ MergeWithHead[p] = MergeEntry(wcTree[p], wcMark.tree[p], head.tree[p])
<1>1. wcMark.tree \in Trees /\ wcTree \in Trees /\ head.tree \in Trees
  BY CommitTree DEF TypeOK
<1>. QED  BY <1>1, MergeTreesType DEF Trees, MergeWithHead

-----------------------------------------------------------------------------
(* The classification and the sync's own merge agree at every path, in      *)
(* every reachable state (drift.rs, classify).                              *)
THEOREM ReportForetells == Spec => []ReportForetellsSync
<1>1. TypeOK => ReportForetellsSync
  BY SidesType, ClassifyForetells DEF ReportForetellsSync, StateOf
<1>. QED  BY TypeCorrect, <1>1, PTL

(* A report names the user's changes, and only them. *)
THEOREM ReportNames == Spec => []ReportNamesTheUsersChanges
<1>1. ASSUME IInv, phase = "observed", NEW p \in Paths
      PROVE  /\ StateOf(p) \in D!LocalChanges => p \in touched \cup torn
             /\ (/\ p \in probe \ raced
                 /\ disk[p] \notin {wcMark.tree[p], head.tree[p]}
                 /\ {wcMark.tree[p], head.tree[p]} # {Absent})
                => StateOf(p) \in D!LocalChanges
  <2>1. p \notin touched \cup torn => wcTree[p] = wcMark.tree[p]
    BY <1>1 DEF IInv, HomeFollowsMark
  <2>2. p \in probe \ raced => disk[p] = wcTree[p]
    BY <1>1 DEF IInv, ReadInv, AcquiredInv
  <2>. QED
    BY <1>1, <2>1, <2>2, SidesType, LocalChangesAreHomes DEF IInv, StateOf
<1>2. IInv => ReportNamesTheUsersChanges
  BY <1>1 DEF ReportNamesTheUsersChanges
<1>. QED  BY Inductive, <1>2, PTL

-----------------------------------------------------------------------------
(* While home is being written the goal is still what was decided: the      *)
(* head's version where the command takes its side, and elsewhere the merge *)
(* or, where there is none, what home holds.                                *)
DecidedInv ==
    phase = "writing" =>
        \A p \in Paths :
            IF p \in waived THEN goal.tree[p] = head.tree[p]
            ELSE \/ goal.tree[p] = MergeWithHead[p]
                 \/ goal.tree[p] = wcTree[p] /\ MergeWithHead[p] = Conflict

LEMMA DecidedStep ==
    ASSUME TypeOK, DecidedInv, [Next]_vars PROVE DecidedInv'
<1>. SUFFICES ASSUME phase' = "writing" PROVE DecidedInv'
  BY DEF DecidedInv
<1>1. CASE phase = "writing"
  <2>1. UNCHANGED <<wcTree, wcMark, head, goal, waived>>
    <3>1. ~Decide
      BY <1>1, DecideSteps DEF Decide, Report, SyncCarries, SyncStops, ContinueResolves,
         ContinueNothing, DiscardTakesHead, DiscardStops, AbortTakesHead, AbortStops
    <3>. QED
      BY <1>1, <3>1 DEF Next, RunStep, Acquire, UserEdit, HeadMoves, HeadRestored,
         StartRun, AcquireRefused, AcquireFresh, RepairDelivered, RepairCompletes,
         RepairRewinds, Observe, WriteFile, RepairDone, RecordSwitch, Finish,
         RunEnds, Crash, CheckOutFails, RunStops, vars, store, run
  <2>2. MergeWithHead' = MergeWithHead
    BY <2>1 DEF MergeWithHead, MergeTrees
  <2>. QED  BY <1>1, <2>1, <2>2 DEF DecidedInv
<1>2. CASE phase # "writing"
  <2>1. Decide
    BY <1>2 DEF Next, RunStep, Acquire, UserEdit, HeadMoves, HeadRestored, StartRun,
       AcquireRefused, AcquireFresh, RepairDelivered, RepairCompletes, RepairRewinds,
       Observe, WriteFile, RepairDone, RecordSwitch, Finish, RunEnds, Crash,
       CheckOutFails, RunStops, vars, run
  <2>2. PICK t, taken :
          /\ StartCheckOut(t, taken)
          /\ \A p \in Paths :
               IF p \in taken THEN t[p] = head.tree[p]
               ELSE \/ t[p] = MergeWithHead[p]
                    \/ t[p] = wcTree[p] /\ MergeWithHead[p] = Conflict
    <3>. DEFINE Decided(t, taken) ==
                  \A p \in Paths :
                     IF p \in taken THEN t[p] = head.tree[p]
                     ELSE \/ t[p] = MergeWithHead[p]
                          \/ t[p] = wcTree[p] /\ MergeWithHead[p] = Conflict
    <3>1. ~Stop
      BY DEF Stop
    <3>2. ASSUME SyncCarries
          PROVE  StartCheckOut(MergeWithHead, {}) /\ Decided(MergeWithHead, {})
      BY <3>2 DEF SyncCarries
    <3>3. ASSUME ContinueResolves
          PROVE  \E t : StartCheckOut(t, {}) /\ Decided(t, {})
      <4>. DEFINE answered == [p \in Paths |-> IF MergeWithHead[p] = Conflict
                                              THEN wcTree[p] ELSE MergeWithHead[p]]
      <4>1. StartCheckOut(answered, {})
        BY <3>3 DEF ContinueResolves
      <4>2. Decided(answered, {})
        OBVIOUS
      <4>. QED  BY <4>1, <4>2
    <3>4. ASSUME NEW paths \in SUBSET Paths, DiscardTakesHead(paths)
          PROVE  StartCheckOut(HeadWinsAt(paths), paths) /\ Decided(HeadWinsAt(paths), paths)
      BY <3>4 DEF DiscardTakesHead, HeadWinsAt
    <3>5. ASSUME AbortTakesHead
          PROVE  StartCheckOut(head.tree, Paths) /\ Decided(head.tree, Paths)
      BY <3>5 DEF AbortTakesHead
    <3>6. \/ SyncCarries \/ ContinueResolves \/ AbortTakesHead
          \/ \E paths \in SUBSET Paths : DiscardTakesHead(paths)
      BY <2>1, <3>1 DEF Decide, Report, SyncStops, ContinueNothing, DiscardStops, AbortStops
    <3>. QED  BY <3>2, <3>3, <3>4, <3>5, <3>6
  <2>3. MergeWithHead' = MergeWithHead
    BY <2>2 DEF StartCheckOut, store, MergeWithHead, MergeTrees
  <2>. QED  BY <2>2, <2>3 DEF StartCheckOut, store, DecidedInv
<1>. QED  BY <1>1, <1>2

(* Where a checkout leaves home off the head, that was a local change when  *)
(* the run decided.                                                         *)
LEMMA CarriedWasLocal ==
    ASSUME TypeOK, DecidedInv, phase = "writing", NEW p \in Paths,
           goal.tree[p] # head.tree[p], head.tree[p] # Absent
    PROVE  p \notin waived /\ StateOf(p) \in D!LocalChanges
<1>1. /\ p \notin waived
      /\ \/ goal.tree[p] = MergeWithHead[p]
         \/ goal.tree[p] = wcTree[p] /\ MergeWithHead[p] = Conflict
  BY DEF DecidedInv
<1>2. wcTree[p] \notin {wcMark.tree[p], head.tree[p]}
  BY <1>1, SidesType, ContentsDistinct DEF MergeEntry, Contents
<1>3. {wcMark.tree[p], head.tree[p]} # {Absent}
  OBVIOUS
<1>. QED  BY <1>1, <1>2, <1>3, SidesType, LocalChangesAreHomes DEF StateOf

(* What a run reported is what is true after its switch: nothing incoming,  *)
(* no new local change, none where the head's side was taken.               *)
THEOREM SwitchLeaves == Spec => SwitchLeavesWhatWasReported
<1>1. Spec => []DecidedInv
  <2>1. Init => DecidedInv
    BY DEF Init, DecidedInv
  <2>. QED  BY <2>1, DecidedStep, TypeCorrect, PTL DEF Spec
<1>2. ASSUME IInv, IInv', DecidedInv, RecordSwitch, NEW p \in Paths
      PROVE  /\ StateOf(p)' \notin D!IncomingChanges
             /\ StateOf(p)' \in D!LocalChanges =>
                   p \notin waived /\ StateOf(p) \in D!LocalChanges
  <2>1. /\ wcMark'.tree[p] = head.tree[p] /\ wcTree'[p] = goal.tree[p]
        /\ head' = head /\ phase = "writing"
    BY <1>2 DEF RecordSwitch, IInv, WritingInv
  <2>2. head.tree[p] \in Contents /\ goal.tree[p] \in Contents
    BY <1>2, SidesType DEF IInv, TypeOK, Trees
  <2>3. StateOf(p)' = D!Classify(head.tree[p], goal.tree[p], head.tree[p],
                                 (MergeWithHead[p] # Conflict)')
    BY <2>1 DEF StateOf
  <2>4. TypeOK
    BY <1>2 DEF IInv
  <2>. QED  BY <1>2, <2>1, <2>2, <2>3, <2>4, AtTheHead, CarriedWasLocal
<1>3. IInv /\ IInv' /\ DecidedInv /\ [Next]_vars =>
        [RecordSwitch =>
            \A p \in Paths :
                /\ StateOf(p)' \notin D!IncomingChanges
                /\ StateOf(p)' \in D!LocalChanges =>
                      p \notin waived /\ StateOf(p) \in D!LocalChanges]_vars
  BY <1>2
<1>. QED  BY Inductive, <1>1, <1>3, PTL DEF Spec, SwitchLeavesWhatWasReported
=============================================================================
