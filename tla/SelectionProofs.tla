-------------------------- MODULE SelectionProofs --------------------------
(* Proofs about Selection: a commit takes what it is asked, and a folder is *)
(* what is under it, in any home.                                           *)
EXTENDS Selection, WorkingCopyProofs

-----------------------------------------------------------------------------
(* Where a name is walked from, when it is not walked elsewhere.            *)

(* A link has nothing below it, so what holds something is where it is.     *)
LEMMA LeadsHere ==
    ASSUME HoldsTogether(disk), NEW p \in Places, disk[p] # Absent
    PROVE  Leads(disk, p) = p /\ At(p) = disk[p]
<1>1. LinksAbove(disk, p) = {}
  BY EntriesAreDistinct DEF HoldsTogether, LinksAbove
<1>. QED  BY <1>1 DEF Leads, At

(* A name that is walked from where it is matches no path but those below   *)
(* it, and itself.                                                          *)
LEMMA MatchesAreAskedFor ==
    ASSUME NEW target, NEW a \in Places, NamesAFolder(target, a) => WalkFrom(a) = a
    PROVE  Matches(target, a) \subseteq AtOrBelow(a)
BY DEF Matches, FoundUnder, EntriesBelow, HeldBelow, AtOrBelow

(* What the user has made of a path under a name differs from the scope's   *)
(* version, so the name finds it: what is there is walked, and what is gone *)
(* the scope holds.                                                         *)
LEMMA ChangesAreFound ==
    ASSUME HoldsTogether(disk), NEW target, NEW a \in Places, ~Unusable(target, a),
           NamesAFolder(target, a) => WalkFrom(a) = a,
           NEW p \in AtOrBelow(a), ReadEntry(disk, p) = Absent => target[p] # Absent
    PROVE  p \in Matches(target, a)
<1>1. p \in Places /\ (p = a \/ p \in Below(a))
  BY DEF AtOrBelow, Below
<1>2. CASE NamesAFolder(target, a) /\ p = a
  <2>1. ~IsEntry(disk, a)
    BY <1>2 DEF Unusable, WalkFails
  <2>. QED  BY <1>1, <1>2, <2>1 DEF Matches, FoundUnder, Managed, ReadEntry
<1>3. CASE NamesAFolder(target, a) /\ p \in Below(a)
  BY <1>3 DEF Matches, FoundUnder, EntriesBelow, HeldBelow, ReadEntry
<1>4. CASE ~NamesAFolder(target, a) /\ p = a
  BY <1>4 DEF Matches, Unusable
<1>5. CASE ~NamesAFolder(target, a) /\ p \in Below(a)
  <2>1. target[p] = Absent
    BY <1>5 DEF NamesAFolder, HeldBelow
  <2>2. IsEntry(disk, p)
    BY <2>1 DEF ReadEntry
  <2>3. disk[a] = Folder
    BY <1>1, <1>5, <2>2 DEF IsEntry, HoldsTogether, Below
  <2>4. At(a) = Folder
    BY <2>3, LeadsHere, EntriesAreDistinct
  <2>. QED  BY <1>5, <2>4 DEF NamesAFolder
<1>. QED  BY <1>1, <1>2, <1>3, <1>4, <1>5

(* A folder that no link leads away from is walked where it is named.       *)
LEMMA WalkedInPlace ==
    ASSUME NEW target, NEW asked, ~WalksThroughALink(target, asked),
           NEW a \in asked, NamesAFolder(target, a)
    PROVE  WalkFrom(a) = a
<1>1. LinksAbove(disk, a) = {} /\ (At(a) = Link => HeldBelow(target, a) = {})
  BY DEF WalksThroughALink
<1>2. Leads(disk, a) = a /\ At(a) = disk[a]
  BY <1>1 DEF Leads, At
<1>3. At(a) # Link
  BY <1>1, EntriesAreDistinct DEF NamesAFolder
<1>. QED  BY <1>2, <1>3 DEF WalkFrom

(* All that is matched is taken, exactly or under a folder.                 *)
LEMMA EverythingMatched ==
    ASSUME NEW target, NEW asked
    PROVE  Everything(target, asked) = UNION {Matches(target, a) : a \in asked}
BY DEF Everything, Exactly, UnderFolders

-----------------------------------------------------------------------------
(* What a commit takes home to hold. *)

(* A path that was to be read, and is as it was read, is taken for what it  *)
(* is, read again or not.                                                   *)
LEMMA HomeReadReads ==
    ASSUME IInv, phase = "acquired", NEW paths, CanRead(paths),
           NEW p \in Places \ ReadBefore, p \in paths \cup probe \cup Managed(head)
    PROVE  HomeRead(paths)[p] = ReadEntry(disk, p)
<1>1. HoldsTogether(disk)
  BY DEF IInv
<1>2. CASE ReadsAgain(paths)
  BY <1>1, <1>2, SnapshotReads DEF HomeRead
<1>3. CASE ~ReadsAgain(paths)
  <2>1. p \in probe
    BY <1>3 DEF ReadsAgain
  <2>2. p \in probe \ raced
    BY <2>1 DEF ReadBefore
  <2>3. ReadEntry(disk, p) = tree[p]
    BY <2>2 DEF IInv, AsRead
  <2>. QED  BY <1>3, <2>3 DEF HomeRead
<1>. QED  BY <1>2, <1>3

(* A name is read whenever a folder it is under is.                         *)
LEMMA CanReadLess ==
    ASSUME NEW paths, NEW more, paths \subseteq more, CanRead(more)
    PROVE  CanRead(paths)
BY DEF CanRead, ReadsAgain, Readable

(* A change of the user's at a path the machine scope or the mark holds is  *)
(* classified as a local change.                                            *)
LEMMA ChangesAreLocal ==
    ASSUME NEW last, NEW home, NEW tip, NEW merges, tip # Conflict,
           home \notin {last, tip}, last # Absent \/ tip # Absent
    PROVE  D!Classify(last, home, tip, merges) \in D!LocalChanges
<1>1. CASE tip = last
  <2>1. D!Classify(last, home, tip, merges) = D!OnlyHomeMoved(last, home)
    BY <1>1 DEF D!Classify
  <2>2. D!OnlyHomeMoved(last, home) \in
           {"DeletedInHome", "KindDiffersFromScope", "EditedInHome"}
    BY <1>1 DEF D!OnlyHomeMoved
  <2>. QED  BY <2>1, <2>2 DEF D!LocalChanges
<1>2. CASE tip # last
  <2>1. D!Classify(last, home, tip, merges) = D!BothMoved(last, home, tip, merges)
    BY <1>2 DEF D!Classify
  <2>2. D!BothMoved(last, home, tip, merges) \in
           {"DeletedInHomeTipAlsoChanged", "EditedInHomeButRemovedFromRepo",
            "DivergedEditThatMerges", "IncomingNewCollidesWithUntrackedHome",
            "DivergedEdit"}
    BY DEF D!BothMoved
  <2>. QED  BY <2>1, <2>2 DEF D!LocalChanges
<1>. QED  BY <1>1, <1>2

(* A bare commit goes for every change of the user's at a path the machine  *)
(* scope or the mark holds.                                                 *)
LEMMA BareCommitTakesChanges ==
    ASSUME IInv, phase = "acquired", CanRead({}), NEW p \in ChangedHere,
           p \in Managed(mark) \cup Managed(head)
    PROVE  States(HomeRead({}))[p] \in D!LocalChanges
<1>1. /\ p \in Places \ ReadBefore /\ p \in probe \cup Managed(head)
      /\ ReadEntry(disk, p) \notin {mark[p], head[p]}
      /\ mark[p] # Absent \/ head[p] # Absent
  BY DEF ChangedHere, ReadBefore, IInv, ReadsAll, Managed
<1>2. HomeRead({})[p] = ReadEntry(disk, p)
  BY <1>1, HomeReadReads
<1>3. head[p] # Conflict
  BY <1>1, EntriesAreDistinct DEF IInv, Types, Entries
<1>4. \E merges : States(HomeRead({}))[p] = D!Classify(mark[p], HomeRead({})[p], head[p], merges)
  BY <1>1 DEF States
<1>. QED  BY <1>1, <1>2, <1>3, <1>4, ChangesAreLocal

(* In any home, and for any names, a commit that does not stop takes        *)
(* nothing it was not asked for, and accounts for every change the user     *)
(* made to what it was: no folder, link or file in the way, and no path gone*)
(* or known to no tree, hides one.                                          *)
THEOREM TakesTheorem == Spec => []CommitTakesWhatItIsAsked
<1>1. ASSUME IInv, Selecting, NEW target \in Scopes, NEW asked \in Askings,
             ~WalksThroughALink(target, asked), ~Stops(target, asked)
      PROVE  /\ Everything(target, asked) \subseteq AskedFor(asked)
             /\ AskedFor(asked) \cap ChangedHere
                   \subseteq Accounted(Selection(target, asked))
  <2>1. /\ asked \subseteq Places /\ HoldsTogether(disk) /\ phase = "acquired"
        /\ \A a \in asked : /\ ~Unusable(target, a)
                            /\ NamesAFolder(target, a) => WalkFrom(a) = a
        /\ CanRead(Everything(target, asked))
    BY <1>1, PlacesAreClosed, WalkedInPlace DEF Askings, Selecting, IInv, Stops
  <2>2. CASE asked = {}
    <3>1. Everything(target, asked) = {}
      BY <2>2, EverythingMatched
    <3>2. ASSUME NEW p \in AskedFor(asked) \cap ChangedHere
          PROVE  p \in Accounted(Selection(target, asked))
      <4>1. p \in ChangedHere /\ p \in Managed(mark) \cup Managed(head)
        BY <2>2, <3>2 DEF AskedFor
      <4>2. States(HomeRead(Everything(target, asked)))[p] \in D!LocalChanges
        BY <1>1, <2>1, <3>1, <4>1, BareCommitTakesChanges
      <4>. QED  BY <2>2, <4>1, <4>2 DEF Selection, Accounted, ChangedHere
    <3>. QED  BY <3>1, <3>2
  <2>3. CASE asked # {}
    <3>1. AskedFor(asked) = UNION {AtOrBelow(a) : a \in asked}
      BY <2>3 DEF AskedFor
    <3>2. \A a \in asked : Matches(target, a) \subseteq AtOrBelow(a)
      BY <2>1, MatchesAreAskedFor
    <3>3. ASSUME NEW p \in AskedFor(asked) \cap ChangedHere
          PROVE  p \in Everything(target, asked)
      <4>1. PICK a \in asked : p \in AtOrBelow(a)
        BY <3>1, <3>3
      <4>2. ReadEntry(disk, p) = Absent => target[p] # Absent
        BY <3>3 DEF ChangedHere, Scopes
      <4>3. p \in Matches(target, a)
        BY <2>1, <4>1, <4>2, ChangesAreFound
      <4>. QED  BY <4>3, EverythingMatched
    <3>4. Everything(target, asked) \subseteq Accounted(Selection(target, asked))
      <4>1. Everything(target, asked) \subseteq Places
        BY <2>1, <3>2, EverythingMatched DEF AtOrBelow, Below
      <4>. QED  BY <2>3, <4>1 DEF Everything, Selection, Accounted
    <3>5. Everything(target, asked) \subseteq AskedFor(asked)
      BY <3>1, <3>2, EverythingMatched
    <3>. QED  BY <3>3, <3>4, <3>5
  <2>. QED  BY <2>2, <2>3
<1>2. IInv => CommitTakesWhatItIsAsked
  <2>. SUFFICES ASSUME IInv, Selecting, NEW target \in Scopes, NEW asked \in Askings
                PROVE  LET missable == AskedFor(asked) \cap ChangedHere
                       IN  \/ /\ Everything(target, asked) \subseteq AskedFor(asked)
                              /\ \/ missable = {}
                                 \/ missable \subseteq Accounted(Selection(target, asked))
                           \/ WalksThroughALink(target, asked)
                           \/ Stops(target, asked)
    BY DEF CommitTakesWhatItIsAsked
  <2>. QED  BY <1>1
<1>. QED  BY <1>2, HomeInvariant, PTL

-----------------------------------------------------------------------------
(* The classification of a path does not depend on what else was read.      *)

(* Where home and the head put different entries at a path the mark held    *)
(* nothing at, the merge is in conflict, or above it nothing is settled for *)
(* one of them.                                                             *)
LEMMA SidesWhereBothHold ==
    ASSUME NEW h \in Trees, head \in Trees, NEW p \in Places,
           h[p] # Absent, head[p] # Absent, mark[p] = Absent, h[p] # head[p]
    PROVE  /\ Side(h, p) = "conflict"
           /\ \A q \in Above(p) : Side(h, q) \in {"within", "conflict"}
<1>1. ASSUME NEW q, p \in AtOrBelow(q)
      PROVE  Trivial(Part(h, q), Part(mark, q), Part(head, q)) = "conflict"
  <2>1. /\ Part(h, q) # Part(mark, q) /\ Part(h, q) # Part(head, q)
        /\ Part(mark, q) # Part(head, q)
    BY <1>1, PartsAreEqualPathByPath
  <2>. QED  BY <2>1 DEF Trivial
<1>2. /\ Conflict # Absent
      /\ \A q \in Places : p \in Below(q) => h[q] = Absent /\ head[q] = Absent
  BY EntriesAreDistinct DEF Trees, IsTree, Managed, Below
<1>3. Side(h, p) = "conflict"
  <2>1. SettleFolderTerms(h, p) = "conflict"
    BY <1>2 DEF SettleFolderTerms, Trivial
  <2>2. {t[p] : t \in {h, mark, head}} \ {Absent} # {}
    OBVIOUS
  <2>3. p \in AtOrBelow(p)
    BY DEF AtOrBelow
  <2>. QED  BY <1>1, <2>1, <2>2, <2>3 DEF Side
<1>4. ASSUME NEW q \in Above(p)
      PROVE  Side(h, q) \in {"within", "conflict"}
  <2>1. q \in Places /\ p \in Below(q) /\ p \in AtOrBelow(q)
    BY AboveIsShorter DEF Below, AtOrBelow
  <2>2. IsFolder(h, q) /\ IsFolder(head, q)
    BY <2>1 DEF IsFolder, Below
  <2>3. SettleFolderTerms(h, q) = "conflict"
    BY <1>2, <2>1, <2>2 DEF SettleFolderTerms, Trivial
  <2>. QED  BY <1>1, <2>1, <2>3 DEF Side
<1>. QED  BY <1>3, <1>4

(* The merge is in conflict there.                                          *)
LEMMA ConflictWhereBothHold ==
    ASSUME NEW h \in Trees, head \in Trees, NEW p \in Places,
           h[p] # Absent, head[p] # Absent, mark[p] = Absent, h[p] # head[p]
    PROVE  Merged(h)[p] = Conflict
<1>. DEFINE side == Side(h, DecidedAt(h, p))
<1>1. side = "conflict"
  BY TheHighestDecides, SidesWhereBothHold DEF Deciding
<1>2. Merged(h)[p] = CASE side = "ours"   -> h[p]
                      [] side = "theirs" -> head[p]
                      [] side = "within" -> Absent
                      [] OTHER -> Conflict
  BY DEF Merged
<1>. HIDE DEF side
<1>. QED  BY <1>1, <1>2

(* Whether a path is in the way of a commit depends on the three versions   *)
(* of it, and not on its merge, but where that is in conflict.              *)
LEMMA BlockingByVersions ==
    ASSUME NEW last, NEW home, NEW tip, NEW merges, NEW others, tip # Conflict,
           (last = Absent /\ home # Absent /\ tip # Absent /\ home # tip)
              => ~merges /\ ~others
    PROVE  D!Classify(last, home, tip, merges) \in D!BlockingStates
              <=> D!Classify(last, home, tip, others) \in D!BlockingStates
<1>1. CASE home \in {last, tip} \/ tip = last
  BY <1>1 DEF D!Classify
<1>2. CASE home \notin {last, tip} /\ tip # last
  <2>1. /\ D!Classify(last, home, tip, merges) = D!BothMoved(last, home, tip, merges)
        /\ D!Classify(last, home, tip, others) = D!BothMoved(last, home, tip, others)
    BY <1>2 DEF D!Classify
  <2>2. CASE last = Absent /\ home # Absent /\ tip # Absent
    BY <1>2, <2>1, <2>2 DEF D!BothMoved
  <2>3. CASE ~(last = Absent /\ home # Absent /\ tip # Absent)
    <3>1. /\ D!BothMoved(last, home, tip, merges) \in
                {"DeletedInHomeTipAlsoChanged", "EditedInHomeButRemovedFromRepo",
                 "DivergedEditThatMerges", "DivergedEdit"}
          /\ D!BothMoved(last, home, tip, others) \in
                {"DeletedInHomeTipAlsoChanged", "EditedInHomeButRemovedFromRepo",
                 "DivergedEditThatMerges", "DivergedEdit"}
      BY <2>3 DEF D!BothMoved
    <3>. QED  BY <2>1, <3>1 DEF D!BlockingStates
  <2>. QED  BY <2>2, <2>3
<1>. QED  BY <1>1, <1>2

(* What a commit takes home to hold is a tree.                              *)
LEMMA HomeReadIsATree ==
    ASSUME IInv, TypeOK, phase = "acquired", NEW paths \in SUBSET Places
    PROVE  HomeRead(paths) \in Trees
<1>1. probe \subseteq Places /\ \A p \in Places \ probe : tree[p] = Absent
  BY DEF IInv, Types, ReadsAll
<1>2. /\ probe \cup paths \cup Managed(head) \in SUBSET Places
      /\ \A p \in Places \ (probe \cup paths \cup Managed(head)) : tree[p] = Absent
  BY <1>1 DEF Managed
<1>3. Snapshot(tree, disk, probe \cup paths \cup Managed(head)) \in Trees
  BY <1>2, SnapshotIsATree
<1>. QED  BY <1>3 DEF HomeRead, TypeOK

(* Two readings that agree at a path agree on whether it is in the way.     *)
LEMMA BlockedAlike ==
    ASSUME TypeOK, NEW h \in Trees, NEW g \in Trees, NEW p \in Places, h[p] = g[p]
    PROVE  States(h)[p] \in D!BlockingStates <=> States(g)[p] \in D!BlockingStates
<1>1. head \in Trees /\ head[p] # Conflict
  BY EntriesAreDistinct DEF TypeOK, Trees, Entries
<1>2. (mark[p] = Absent /\ h[p] # Absent /\ head[p] # Absent /\ h[p] # head[p])
         => Merged(h)[p] = Conflict /\ Merged(g)[p] = Conflict
  BY <1>1, ConflictWhereBothHold
<1>3. /\ States(h)[p] = D!Classify(mark[p], h[p], head[p], Merged(h)[p] # Conflict)
      /\ States(g)[p] = D!Classify(mark[p], h[p], head[p], Merged(g)[p] # Conflict)
  BY DEF States
<1>. DEFINE one == Merged(h)[p] # Conflict
            two == Merged(g)[p] # Conflict
<1>4. (mark[p] = Absent /\ h[p] # Absent /\ head[p] # Absent /\ h[p] # head[p]) => ~one /\ ~two
  BY <1>2
<1>5. /\ States(h)[p] = D!Classify(mark[p], h[p], head[p], one)
      /\ States(g)[p] = D!Classify(mark[p], h[p], head[p], two)
  BY <1>3
<1>. HIDE DEF one, two
<1>. QED  BY <1>1, <1>4, <1>5, BlockingByVersions

-----------------------------------------------------------------------------
(* A folder is what is under it. *)

(* A path found under a folder, named for itself, is just that path.        *)
LEMMA NamedForItself ==
    ASSUME HoldsTogether(disk), NEW target, NEW p \in Places, ~NamesAFolder(target, p),
           IsEntry(disk, p) \/ target[p] # Absent
    PROVE  /\ Matches(target, p) = {p} /\ ~Unusable(target, p)
           /\ Exactly(target, {p}) = {p} /\ UnderFolders(target, {p}) = {}
           /\ Everything(target, {p}) = {p}
<1>1. At(p) # Absent \/ target[p] # Absent
  BY LeadsHere DEF IsEntry
<1>2. Matches(target, p) = {p}
  BY <1>1 DEF Matches
<1>3. Exactly(target, {p}) = {p} /\ UnderFolders(target, {p}) = {}
  BY <1>2 DEF Exactly, UnderFolders
<1>. QED  BY <1>2, <1>3 DEF Unusable, Everything

(* A folder that is named selects what is under it.                         *)
LEMMA FolderIsNamed ==
    ASSUME NEW target, NEW a, NamesAFolder(target, a)
    PROVE  /\ Exactly(target, {a}) = {}
           /\ UnderFolders(target, {a}) = Matches(target, a)
           /\ Everything(target, {a}) = Matches(target, a)
<1>1. Exactly(target, {a}) = {} /\ UnderFolders(target, {a}) = Matches(target, a)
  BY DEF Exactly, UnderFolders
<1>. QED  BY <1>1 DEF Everything

(* In any home, naming a folder takes what naming each path under it would, *)
(* and reports as left alone what naming it would stop at.                  *)
THEOREM FolderTheorem == Spec => []FolderIsWhatIsUnderIt
<1>1. ASSUME IInv, TypeOK, Selecting, NEW target \in Scopes, NEW a \in Paths,
             NamesAFolder(target, a), CanRead(Everything(target, {a})),
             ~WalksThroughALink(target, {a})
      PROVE  /\ Selection(target, {a}).refused = {}
             /\ \A p \in UnderFolders(target, {a}) \ ({a} \cup ReadBefore) :
                   \/ NamesAFolder(target, p)
                   \/ Stops(target, {p}) <=> p \in Selection(target, {a}).skipped
  <2>. DEFINE under == UnderFolders(target, {a})
              home == HomeRead(under)
              blocked == {p \in Places : States(home)[p] \in D!BlockingStates}
  <2>1. /\ Exactly(target, {a}) = {} /\ under = Matches(target, a)
        /\ Everything(target, {a}) = under
    BY <1>1, FolderIsNamed
  <2>2. /\ Selection(target, {a}).refused = {}
        /\ Selection(target, {a}).skipped = under \cap blocked
    BY <2>1 DEF Selection
  <2>3. /\ a \in Places /\ HoldsTogether(disk) /\ WalkFrom(a) = a
        /\ phase = "acquired"
    BY <1>1, PlacesAreClosed, WalkedInPlace DEF IInv, Selecting
  <2>4. under \subseteq Places
    BY <1>1, <2>1, <2>3, MatchesAreAskedFor DEF AtOrBelow, Below
  <2>. HIDE DEF under, home
  <2>5. ASSUME NEW p \in under \ ({a} \cup ReadBefore), ~NamesAFolder(target, p)
        PROVE  Stops(target, {p}) <=> p \in under \cap blocked
    <3>1. p \in Places /\ (IsEntry(disk, p) \/ target[p] # Absent)
      BY <1>1, <2>1, <2>3, <2>4, <2>5
      DEF Matches, FoundUnder, EntriesBelow, HeldBelow
    <3>2. /\ ~Unusable(target, p) /\ Exactly(target, {p}) = {p}
          /\ Everything(target, {p}) = {p}
      BY <2>3, <2>5, <3>1, NamedForItself
    <3>3. CanRead(under) /\ CanRead({p})
      BY <1>1, <2>1, <2>5, CanReadLess
    <3>4. HomeRead({p})[p] = ReadEntry(disk, p) /\ home[p] = ReadEntry(disk, p)
      BY <1>1, <2>3, <2>5, <3>1, <3>3, HomeReadReads DEF home
    <3>5. HomeRead({p}) \in Trees /\ home \in Trees
      BY <1>1, <2>3, <2>4, <3>1, HomeReadIsATree DEF home
    <3>6. States(HomeRead({p}))[p] \in D!BlockingStates
             <=> States(home)[p] \in D!BlockingStates
      BY <1>1, <3>1, <3>4, <3>5, BlockedAlike
    <3>7. Stops(target, {p}) <=> Selection(target, {p}).refused # {}
      BY <3>2, <3>3 DEF Stops
    <3>8. Selection(target, {p}).refused
             = {p} \cap {q \in Places : States(HomeRead({p}))[q] \in D!BlockingStates}
      <4>1. UnderFolders(target, {p}) = {}
        BY <2>3, <2>5, <3>1, NamedForItself
      <4>. QED  BY <3>2, <4>1 DEF Selection
    <3>. QED  BY <2>5, <3>1, <3>6, <3>7, <3>8
  <2>. QED  BY <2>2, <2>5 DEF under
<1>2. IInv /\ TypeOK => FolderIsWhatIsUnderIt
  <2>. SUFFICES ASSUME IInv, TypeOK, Selecting, NEW target \in Scopes, NEW a \in Paths,
                       NamesAFolder(target, a), CanRead(Everything(target, {a})),
                       ~WalksThroughALink(target, {a})
                PROVE  LET sel == Selection(target, {a})
                       IN  /\ sel.refused = {}
                           /\ \A p \in UnderFolders(target, {a}) \ ({a} \cup ReadBefore) :
                                 \/ NamesAFolder(target, p)
                                 \/ Stops(target, {p}) <=> p \in sel.skipped
    BY DEF FolderIsWhatIsUnderIt
  <2>. QED  BY <1>1
<1>. QED  BY <1>2, HomeInvariant, TypeTheorem, PTL
=============================================================================
