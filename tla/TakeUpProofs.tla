---------------------------- MODULE TakeUpProofs ----------------------------
(* Proofs about WorkingCopy: a sync that ended part-way is taken up where   *)
(* it was left.                                                             *)
(*                                                                          *)
(* What it left holds, at every path, what the run read there or what it    *)
(* was to write.  Such a home merges with the head without a conflict       *)
(* whenever the home the run read did; and what the run wrote keeps the     *)
(* next run from reading nowhere but beneath a link it put in the place of  *)
(* a folder.                                                                *)
EXTENDS WorkingCopyProofs

-----------------------------------------------------------------------------
(* The merge of a home part-way between another and its merge.              *)

(* home, part-way on the way to what from merges to.                        *)
PartWay(from, home) ==
    /\ from \in Trees /\ home \in Trees
    /\ \A p \in Places : Merged(from)[p] # Conflict
    /\ \A p \in Places : home[p] \in {from[p], Merged(from)[p]}

SidesHold == {mark, head} \subseteq Trees

(* An entry that became a folder of several.                                *)
BecameAFolder(p) == mark[p] # Absent /\ \E q, r \in EntriesBelow(head, p) : q # r

(* Trees that agree at a place and below it have the same part there.       *)
LEMMA EqualPathByPath ==
    ASSUME NEW s, NEW t, NEW q, \A p \in AtOrBelow(q) : s[p] = t[p]
    PROVE  Part(s, q) = Part(t, q)
BY DEF Part

(* A tree with an entry at a place is that entry there and below.           *)
LEMMA EntryIsItsPart ==
    ASSUME NEW s \in Trees, NEW t \in Trees, NEW q \in Places,
           s[q] = t[q], ~IsFolder(s, q), ~IsFolder(t, q)
    PROVE  Part(s, q) = Part(t, q)
<1>1. \A p \in Below(q) : s[p] = Absent /\ t[p] = Absent
  BY DEF IsFolder
<1>2. \A p \in AtOrBelow(q) : s[p] = t[p]
  BY <1>1 DEF AtOrBelow
<1>. QED  BY <1>2, EqualPathByPath

(* A tree has a folder only where it has no entry.                          *)
LEMMA FoldersAreNoEntries ==
    ASSUME NEW t \in Trees, NEW q \in Places, IsFolder(t, q)
    PROVE  t[q] = Absent
BY DEF Trees, IsTree, Managed, IsFolder, Below

(* A side is one of four. *)
LEMMA SideIsOne ==
    ASSUME NEW home, NEW q
    PROVE  /\ Side(home, q) \in {"ours", "theirs", "within", "conflict"}
           /\ Trivial(Part(home, q), Part(mark, q), Part(head, q)) # "conflict"
                 => Side(home, q) = Trivial(Part(home, q), Part(mark, q), Part(head, q))
<1>1. \A x, y, z : Trivial(x, y, z) \in {"ours", "theirs", "conflict"}
  BY DEF Trivial
<1>. QED  BY <1>1 DEF Side, SettleFolderTerms

(* What stops a merge at a place: three parts that differ, and either all   *)
(* three of them entries, or folders among them that the entries leave      *)
(* undecided.                                                               *)
LEMMA ConflictMeans ==
    ASSUME NEW home, NEW q, Side(home, q) = "conflict"
    PROVE  /\ Part(home, q) # Part(mark, q) /\ Part(home, q) # Part(head, q)
           /\ Part(mark, q) # Part(head, q)
           /\ \/ ~IsFolder(home, q) /\ ~IsFolder(mark, q) /\ ~IsFolder(head, q)
              \/ /\ SettleFolderTerms(home, q) = "conflict"
                 /\ {home[q], mark[q], head[q]} # {Absent}
<1>1. Trivial(Part(home, q), Part(mark, q), Part(head, q)) = "conflict"
  BY DEF Side
<1>2. /\ Part(home, q) # Part(mark, q) /\ Part(home, q) # Part(head, q)
      /\ Part(mark, q) # Part(head, q)
  BY <1>1 DEF Trivial
<1>. DEFINE entries == {t[q] : t \in {home, mark, head}} \ {Absent}
            folders == {t \in {home, mark, head} : IsFolder(t, q)}
<1>3. /\ ~(folders # {} /\ entries = {})
      /\ folders # {} => SettleFolderTerms(home, q) = "conflict"
  BY <1>1 DEF Side
<1>4. entries = {home[q], mark[q], head[q]} \ {Absent}
  OBVIOUS
<1>5. folders = {} => ~IsFolder(home, q) /\ ~IsFolder(mark, q) /\ ~IsFolder(head, q)
  OBVIOUS
<1>6. entries # {} => {home[q], mark[q], head[q]} # {Absent}
  BY <1>4
<1>. HIDE DEF entries, folders
<1>. QED  BY <1>2, <1>3, <1>5, <1>6

(* What settles a place for the head: home's part did not move; or an entry *)
(* of the head's takes the place of folders; or the head made a folder of   *)
(* an entry that home has no more.                                          *)
LEMMA TheirsMeans ==
    ASSUME SidesHold, NEW home \in Trees, NEW q \in Places, Side(home, q) = "theirs"
    PROVE  \/ Part(home, q) = Part(mark, q)
           \/ home[q] = Absent /\ mark[q] = Absent /\ head[q] # Absent
           \/ /\ home[q] = Absent /\ ~IsFolder(home, q) /\ mark[q] # Absent
              /\ head[q] = Absent /\ IsFolder(head, q)
<1>. DEFINE parts   == Trivial(Part(home, q), Part(mark, q), Part(head, q))
            entries == {t[q] : t \in {home, mark, head}} \ {Absent}
            folders == {t \in {home, mark, head} : IsFolder(t, q)}
<1>1. CASE parts # "conflict"
  <2>1. parts = "theirs"
    BY <1>1, SideIsOne
  <2>. QED  BY <2>1 DEF Trivial
<1>2. CASE parts = "conflict"
  <2>1. /\ folders # {} /\ entries # {} /\ SettleFolderTerms(home, q) = "theirs"
        /\ Part(home, q) # Part(mark, q)
    BY <1>2 DEF Side, Trivial
  <2>2. /\ home[q] # Absent \/ mark[q] # Absent \/ head[q] # Absent
        /\ IsFolder(home, q) \/ IsFolder(mark, q) \/ IsFolder(head, q)
    BY <2>1
  <2>. HIDE DEF parts, entries, folders
  <2>3. \A t \in {home, mark, head} : IsFolder(t, q) => t[q] = Absent
    BY FoldersAreNoEntries DEF SidesHold
  <2>4. home[q] # mark[q] \/ IsFolder(home, q) \/ IsFolder(mark, q)
    BY <2>1, EntryIsItsPart DEF SidesHold
  <2>. QED
    BY <2>1, <2>2, <2>3, <2>4, EntriesAreDistinct DEF SettleFolderTerms, Trivial
<1>. QED  BY <1>1, <1>2

(* What is merged within is an entry on no side.                            *)
LEMMA WithinMeans ==
    ASSUME NEW home, NEW q, Side(home, q) = "within"
    PROVE  home[q] = Absent /\ mark[q] = Absent /\ head[q] = Absent
<1>. DEFINE parts   == Trivial(Part(home, q), Part(mark, q), Part(head, q))
            entries == {t[q] : t \in {home, mark, head}} \ {Absent}
            folders == {t \in {home, mark, head} : IsFolder(t, q)}
<1>1. parts \in {"ours", "theirs", "conflict"}
  BY DEF Trivial
<1>2. SettleFolderTerms(home, q) # "within"
  BY DEF SettleFolderTerms, Trivial
<1>3. entries = {}
  BY <1>1, <1>2 DEF Side
<1>. QED  BY <1>3

(* A folder the head made of an entry, of which home has one, is the head's *)
(* if it is a folder of one.                                                *)
LEMMA OneEntryMade ==
    ASSUME SidesHold, NEW home \in Trees, NEW q \in Places, ~BecameAFolder(q),
           mark[q] # Absent, head[q] = Absent, IsFolder(home, q),
           \A p \in Below(q) : home[p] \in {Absent, head[p]}
    PROVE  Part(home, q) = Part(head, q)
<1>1. home[q] = Absent
  BY FoldersAreNoEntries
<1>2. PICK z \in Below(q) : home[z] # Absent
  BY DEF IsFolder
<1>3. \A p \in Below(q) : head[p] # Absent => p \in EntriesBelow(head, q)
  BY EntriesAreDistinct DEF SidesHold, Trees, Entries, EntriesBelow, IsEntry, Below
<1>4. \A p \in Below(q) : head[p] # Absent => p = z
  BY <1>2, <1>3 DEF BecameAFolder
<1>5. \A p \in AtOrBelow(q) : home[p] = head[p]
  BY <1>1, <1>2, <1>4 DEF AtOrBelow
<1>. QED  BY <1>5, EqualPathByPath

(* Where home has at every path what the mark or what the head holds, there *)
(* is nothing to stop at.                                                   *)
LEMMA MixMerges ==
    ASSUME SidesHold, NEW home \in Trees, NEW q \in Places, ~BecameAFolder(q),
           \A p \in AtOrBelow(q) : home[p] \in {mark[p], head[p]}
    PROVE  Side(home, q) # "conflict"
<1>. SUFFICES ASSUME Side(home, q) = "conflict"
              PROVE  FALSE
  OBVIOUS
<1>1. /\ Part(home, q) # Part(mark, q) /\ Part(home, q) # Part(head, q)
      /\ home[q] \in {mark[q], head[q]}
  BY ConflictMeans DEF AtOrBelow
<1>2. \A t \in {home, mark, head} : IsFolder(t, q) => t[q] = Absent
  BY FoldersAreNoEntries DEF SidesHold
<1>3. CASE ~IsFolder(home, q) /\ ~IsFolder(mark, q) /\ ~IsFolder(head, q)
  BY <1>1, <1>3, EntryIsItsPart DEF SidesHold
<1>4. CASE /\ SettleFolderTerms(home, q) = "conflict"
           /\ {home[q], mark[q], head[q]} # {Absent}
  <2>1. head[q] = Absent /\ (IsFolder(home, q) <=> IsFolder(head, q))
    BY <1>1, <1>4, EntriesAreDistinct DEF SettleFolderTerms, Trivial
  <2>2. mark[q] # Absent /\ ~IsFolder(mark, q)
    BY <1>1, <1>2, <1>4, <2>1
  <2>3. IsFolder(home, q)
    BY <1>1, <2>1, <2>2, EntryIsItsPart DEF SidesHold
  <2>4. \A p \in Below(q) : home[p] \in {Absent, head[p]}
    BY <2>2 DEF AtOrBelow, IsFolder
  <2>. QED  BY <1>1, <2>1, <2>2, <2>3, <2>4, OneEntryMade
<1>. QED  BY <1>3, <1>4, ConflictMeans

(* Nor is there where the merge took the head's part, and home has at every *)
(* path what it had or what the head holds.                                 *)
LEMMA TakenPartMerges ==
    ASSUME SidesHold, NEW from \in Trees, NEW home \in Trees, NEW q \in Places,
           ~BecameAFolder(q), Side(from, q) = "theirs",
           \A p \in AtOrBelow(q) : home[p] \in {from[p], head[p]}
    PROVE  Side(home, q) # "conflict"
<1>. SUFFICES ASSUME Side(home, q) = "conflict"
              PROVE  FALSE
  OBVIOUS
<1>1. /\ Part(home, q) # Part(mark, q) /\ Part(home, q) # Part(head, q)
      /\ home[q] \in {from[q], head[q]}
  BY ConflictMeans DEF AtOrBelow
<1>2. \A t \in {home, mark, head} : IsFolder(t, q) => t[q] = Absent
  BY FoldersAreNoEntries DEF SidesHold
<1>3. CASE Part(from, q) = Part(mark, q)
  <2>1. \A p \in AtOrBelow(q) : from[p] = mark[p]
    BY <1>3, PartsAreEqualPathByPath
  <2>. QED  BY <2>1, MixMerges
<1>4. CASE from[q] = Absent /\ mark[q] = Absent /\ head[q] # Absent
  <2>1. home[q] = Absent
    BY <1>1, <1>2, <1>4, EntryIsItsPart DEF SidesHold
  <2>2. SettleFolderTerms(home, q) # "conflict"
    BY <1>4, <2>1 DEF SettleFolderTerms, Trivial
  <2>3. ~IsFolder(home, q) /\ ~IsFolder(mark, q)
    BY <2>2, ConflictMeans
  <2>. QED  BY <1>1, <1>4, <2>1, <2>3, EntryIsItsPart DEF SidesHold
<1>5. CASE /\ from[q] = Absent /\ ~IsFolder(from, q) /\ mark[q] # Absent
           /\ head[q] = Absent /\ IsFolder(head, q)
  <2>1. home[q] = Absent
    BY <1>1, <1>5
  <2>2. SettleFolderTerms(home, q) = "conflict"
    BY <1>5, ConflictMeans
  <2>3. IsFolder(home, q)
    BY <1>5, <2>1, <2>2 DEF SettleFolderTerms, Trivial
  <2>4. \A p \in Below(q) : home[p] \in {Absent, head[p]}
    BY <1>5 DEF AtOrBelow, IsFolder
  <2>. QED  BY <1>1, <1>5, <2>3, <2>4, OneEntryMade
<1>. QED  BY <1>3, <1>4, <1>5, TheirsMeans

(* What is decided above it, or there, decides what lies below.             *)
LEMMA DecidedBelow ==
    ASSUME NEW home, NEW x \in Places, NEW y, y = DecidedAt(home, x),
           Side(home, y) # "within", NEW z \in AtOrBelow(y)
    PROVE  y \in Places /\ z \in Places /\ DecidedAt(home, z) = y
<1>1. y \in {x} \cup Above(x) /\ y \in Places
  BY TheHighestDecides, AboveIsShorter DEF Deciding
<1>2. DecidedAt(home, y) = y
  <2>1. CASE y = x
    BY <2>1
  <2>2. CASE y \in Above(x)
    <3>1. DecidedAt(home, y) = y \/ Side(home, DecidedAt(home, y)) = "within"
      BY <2>2, DecidedAlike
    <3>2. DecidedAt(home, y) = y \/ Side(home, DecidedAt(home, y)) # "within"
      BY <1>1, TheHighestDecides DEF Deciding
    <3>. QED  BY <3>1, <3>2
  <2>. QED  BY <1>1, <2>1, <2>2
<1>3. CASE z = y
  BY <1>1, <1>2, <1>3
<1>4. CASE z \in Below(y)
  <2>1. z \in Places /\ y \in Above(z)
    BY <1>4 DEF Below
  <2>2. DecidedAt(home, z) = DecidedAt(home, y) \/ Side(home, DecidedAt(home, y)) = "within"
    BY <2>1, DecidedAlike
  <2>. QED  BY <1>1, <1>2, <2>1, <2>2
<1>. QED  BY <1>3, <1>4 DEF AtOrBelow

(* A side is a matter of the parts. *)
LEMMA SideIsOfParts ==
    ASSUME NEW s, NEW t, NEW q, Part(s, q) = Part(t, q), Side(t, q) = "ours"
    PROVE  Side(s, q) # "conflict" /\ Side(s, q) # "within"
<1>1. s[q] = t[q] /\ \A p \in Below(q) : s[p] = t[p]
  BY PartsAreEqualPathByPath DEF AtOrBelow
<1>2. IsFolder(s, q) <=> IsFolder(t, q)
  BY <1>1 DEF IsFolder
<1>3. SettleFolderTerms(s, q) = SettleFolderTerms(t, q)
  BY <1>1, <1>2 DEF SettleFolderTerms
<1>. DEFINE parts == Trivial(Part(t, q), Part(mark, q), Part(head, q))
<1>4. Trivial(Part(s, q), Part(mark, q), Part(head, q)) = parts
  OBVIOUS
<1>5. CASE parts # "conflict"
  <2>1. Side(s, q) = parts /\ parts \in {"ours", "theirs", "conflict"}
    BY <1>4, <1>5, SideIsOne DEF Trivial
  <2>. QED  BY <1>5, <2>1
<1>6. CASE parts = "conflict"
  <2>1. /\ SettleFolderTerms(t, q) = "ours"
        /\ ~({u[q] : u \in {t, mark, head}} \ {Absent} = {})
        /\ {u \in {t, mark, head} : IsFolder(u, q)} # {}
    BY <1>6 DEF Side
  <2>2. /\ ~({u[q] : u \in {s, mark, head}} \ {Absent} = {})
        /\ {u \in {s, mark, head} : IsFolder(u, q)} # {}
    BY <1>1, <1>2, <2>1
  <2>. QED  BY <1>3, <1>4, <1>6, <2>1, <2>2 DEF Side
<1>. QED  BY <1>5, <1>6

(* A home part-way between one that merges and its merge merges.            *)
LEMMA PartWayMerges ==
    ASSUME SidesHold, NEW from, NEW home, PartWay(from, home),
           \A p \in Places : ~BecameAFolder(p), NEW p \in Places
    PROVE  Merged(home)[p] # Conflict
<1>. DEFINE x == DecidedAt(home, p)
            y == DecidedAt(from, x)
<1>. SUFFICES ASSUME Merged(home)[p] = Conflict
              PROVE  FALSE
  OBVIOUS
<1>1. home[p] # Conflict /\ head[p] # Conflict /\ Absent # Conflict
  BY EntriesAreDistinct DEF PartWay, SidesHold, Trees, Entries
<1>2. Side(home, x) = "conflict"
  BY <1>1, SideIsOne DEF Merged
<1>3. x \in Places /\ \A r \in Above(x) : Side(home, r) = "within"
  <2>1. /\ x \in {p} \cup Above(p) /\ x \in Places
        /\ \A r \in Deciding(home, p) : Len(x) <= Len(r)
    BY TheHighestDecides, AboveIsShorter DEF Deciding
  <2>. HIDE DEF x
  <2>2. ASSUME NEW r \in Above(x), Side(home, r) # "within"
        PROVE  FALSE
    <3>1. r \in Above(p)
      BY <2>1, AboveIsTransitive
    <3>2. Len(x) <= Len(r)
      BY <2>1, <2>2, <3>1 DEF Deciding
    <3>3. Len(r) < Len(x) /\ Len(r) \in Nat /\ Len(x) \in Nat
      BY <2>1, AboveIsShorter, PlacesAreClosed
    <3>. QED  BY <3>2, <3>3
  <2>. QED  BY <2>1, <2>2
<1>. HIDE DEF x
<1>4. /\ y \in {x} \cup Above(x) /\ y \in Places
      /\ y = x \/ Side(from, y) # "within"
  BY <1>3, TheHighestDecides, AboveIsShorter DEF Deciding
<1>5. ASSUME Side(from, y) # "within", NEW z \in AtOrBelow(y)
      PROVE  /\ Side(from, y) = "ours"   => Merged(from)[z] = from[z]
             /\ Side(from, y) = "theirs" => Merged(from)[z] = head[z]
             /\ Side(from, y) = "conflict" => Merged(from)[z] = Conflict
             /\ z \in Places
  <2>1. z \in Places /\ DecidedAt(from, z) = y
    BY <1>3, <1>5, DecidedBelow
  <2>. HIDE DEF y
  <2>. QED  BY <2>1 DEF Merged
<1>6. /\ x \in AtOrBelow(y) /\ y \in AtOrBelow(y)
      /\ \A z \in AtOrBelow(x) : z \in AtOrBelow(y)
  BY <1>3, <1>4, BelowBelow DEF AtOrBelow, Below
<1>. DEFINE side == Side(from, y)
<1>7. side \in {"ours", "theirs", "within"}
  BY <1>5, <1>6, SideIsOne DEF PartWay
<1>8. CASE side = "ours"
  <2>1. \A z \in AtOrBelow(y) : home[z] = from[z]
    BY <1>5, <1>8 DEF PartWay
  <2>2. Part(home, y) = Part(from, y)
    BY <2>1, EqualPathByPath
  <2>3. Side(home, y) # "conflict" /\ Side(home, y) # "within"
    BY <1>8, <2>2, SideIsOfParts
  <2>. QED  BY <1>2, <1>3, <1>4, <2>3
<1>9. CASE side = "theirs"
  <2>1. \A z \in AtOrBelow(y) : home[z] \in {from[z], head[z]}
    BY <1>5, <1>9 DEF PartWay
  <2>2. CASE y = x
    BY <1>2, <1>3, <1>9, <2>1, <2>2, TakenPartMerges DEF PartWay
  <2>3. CASE y \in Above(x)
    <3>1. mark[y] = Absent /\ head[y] = Absent
      BY <1>3, <2>3, WithinMeans
    <3>2. Part(from, y) = Part(mark, y)
      BY <1>4, <1>9, <3>1, TheirsMeans DEF PartWay
    <3>3. \A z \in AtOrBelow(x) : home[z] \in {mark[z], head[z]}
      BY <1>6, <2>1, <3>2, PartsAreEqualPathByPath
    <3>. QED  BY <1>2, <1>3, <3>3, MixMerges DEF PartWay
  <2>. QED  BY <1>4, <2>2, <2>3
<1>10. CASE side = "within"
  <2>1. y = x
    BY <1>4, <1>10
  <2>2. from[x] = Absent /\ mark[x] = Absent /\ head[x] = Absent
    BY <1>10, <2>1, WithinMeans
  <2>3. home[x] = Absent
    BY <1>3, <2>2, MergedIsOneOf DEF PartWay
  <2>4. ~IsFolder(home, x) /\ ~IsFolder(mark, x)
    BY <1>2, <2>2, <2>3, ConflictMeans
  <2>5. Part(home, x) = Part(mark, x)
    BY <1>3, <2>2, <2>3, <2>4, EntryIsItsPart DEF PartWay, SidesHold
  <2>. QED  BY <1>2, <2>5, ConflictMeans
<1>. QED  BY <1>7, <1>8, <1>9, <1>10

-----------------------------------------------------------------------------
(* What a sync that ended part-way left, until something changes it.        *)

Known(from) == Managed(from) \cup Managed(mark) \cup Managed(head)

(* A link of the head's where the mark or home's tree has a folder.         *)
BehindALink(q) == head[q] = Link /\ (IsFolder(mark, q) \/ IsFolder(tree, q))

(* Home, and what a run believes it holds, part-way from what the sync read *)
(* to its goal, with no link in the way of reading it but the head's.       *)
LeftFrom(from) ==
    /\ PartWay(from, tree)
    /\ \A p \in Known(from) :
          /\ ReadEntry(disk, p) \in {from[p], Merged(from)[p]}
          /\ \A q \in Above(p) : disk[q] = Link => tree[q] = Link \/ BehindALink(q)
    /\ phase \in {"acquired", "observed"} => probe \subseteq Known(from)

(* What a sync writes is the merge, and it has read where any tree holds    *)
(* something.                                                               *)
WritesTheMerge ==
    phase \in {"checked", "writing"} =>
        /\ \A p \in Places \ probe : mark[p] = Absent /\ head[p] = Absent
        /\ cmd = "sync" =>
              /\ goal = Merged(tree)
              /\ \A p \in Places : Merged(tree)[p] # Conflict

TInv ==
    /\ WritesTheMerge
    /\ partly => raced = {}
    /\ partly /\ mark # head => \E from : LeftFrom(from)

(* The merge of a tree is a matter of the mark and the head.                *)
LEMMA MergedStays ==
    ASSUME UNCHANGED <<mark, head>>, NEW from
    PROVE  Merged(from)' = Merged(from)
<1>1. \A q : /\ Part(mark, q)' = Part(mark, q)
             /\ Part(head, q)' = Part(head, q)
  BY DEF Part
<1>2. \A q : SettleFolderTerms(from, q)' = SettleFolderTerms(from, q)
  BY DEF SettleFolderTerms, IsFolder
<1>3. \A q : Side(from, q)' = Side(from, q)
  BY <1>1, <1>2 DEF Side, IsFolder
<1>4. \A p : DecidedAt(from, p)' = DecidedAt(from, p)
  <2>. SUFFICES ASSUME NEW p PROVE DecidedAt(from, p)' = DecidedAt(from, p)
    OBVIOUS
  <2>. DEFINE highest(among) == CHOOSE q \in among : \A r \in among : Len(q) <= Len(r)
  <2>1. Deciding(from, p)' = Deciding(from, p)
    BY <1>3 DEF Deciding
  <2>2. DecidedAt(from, p) = highest(Deciding(from, p))
    BY DEF DecidedAt, Deciding
  <2>3. DecidedAt(from, p)' = highest(Deciding(from, p)')
    BY DEF DecidedAt, Deciding
  <2>. HIDE DEF highest
  <2>. QED  BY <2>1, <2>2, <2>3
<1>. QED  BY <1>3, <1>4 DEF Merged

(* And that of the tree a run has read, a matter of the tree as well. *)
LEMMA MergedOfTreeStays ==
    ASSUME UNCHANGED <<mark, head, tree>>
    PROVE  Merged(tree)' = Merged(tree)
<1>1. \A q : /\ Part(tree, q)' = Part(tree, q)
             /\ Part(mark, q)' = Part(mark, q)
             /\ Part(head, q)' = Part(head, q)
  BY DEF Part
<1>2. \A q : SettleFolderTerms(tree, q)' = SettleFolderTerms(tree, q)
  BY DEF SettleFolderTerms, IsFolder
<1>3. \A q : Side(tree, q)' = Side(tree, q)
  BY <1>1, <1>2 DEF Side, IsFolder
<1>4. \A p : DecidedAt(tree, p)' = DecidedAt(tree, p)
  <2>. SUFFICES ASSUME NEW p PROVE DecidedAt(tree, p)' = DecidedAt(tree, p)
    OBVIOUS
  <2>. DEFINE highest(among) == CHOOSE q \in among : \A r \in among : Len(q) <= Len(r)
  <2>1. Deciding(tree, p)' = Deciding(tree, p)
    BY <1>3 DEF Deciding
  <2>2. DecidedAt(tree, p) = highest(Deciding(tree, p))
    BY DEF DecidedAt, Deciding
  <2>3. DecidedAt(tree, p)' = highest(Deciding(tree, p)')
    BY DEF DecidedAt, Deciding
  <2>. HIDE DEF highest
  <2>. QED  BY <2>1, <2>2, <2>3
<1>. QED  BY <1>3, <1>4 DEF Merged

(* Steps that touch none of it leave it as it is.                           *)
LEMMA LeftStays ==
    ASSUME UNCHANGED <<disk, mark, head, tree>>, NEW from, LeftFrom(from),
           phase' \in {"acquired", "observed"} => probe' \subseteq Known(from)
    PROVE  LeftFrom(from)'
<1>1. Merged(from)' = Merged(from) /\ Known(from)' = Known(from)
  BY MergedStays DEF Known, Managed
<1>2. \A q : BehindALink(q)' <=> BehindALink(q)
  BY DEF BehindALink, IsFolder
<1>3. PartWay(from, tree)'
  BY <1>1 DEF LeftFrom, PartWay
<1>4. \A p : ReadEntry(disk, p)' = ReadEntry(disk, p)
  BY DEF ReadEntry, IsEntry
<1>. QED  BY <1>1, <1>2, <1>3, <1>4 DEF LeftFrom

(* Of the places above one, one at most is a link.                          *)
LEMMA OneLinkAbove ==
    ASSUME HoldsTogether(disk), NEW p \in Places, NEW q \in Above(p), NEW r \in Above(p),
           disk[q] = Link, disk[r] = Link
    PROVE  q = r
<1>1. q \in Places /\ r \in Places /\ Link # Absent /\ Link # Folder
  BY AboveIsShorter, EntriesAreDistinct
<1>2. q \notin Above(r) /\ r \notin Above(q)
  BY <1>1 DEF HoldsTogether
<1>. QED  BY <1>2, AboveIsAChain

(* What home's tree and the mark hold is known.                             *)
LEMMA TreeIsKnown ==
    ASSUME NEW from, LeftFrom(from)
    PROVE  Managed(tree) \cup Managed(mark) \subseteq Known(from)
<1>1. \A p \in Places : tree[p] \in {from[p], head[p], Absent}
  BY MergedIsOneOf DEF LeftFrom, PartWay
<1>. QED  BY <1>1 DEF Managed, Known

(* Reading it finds it part-way, as it was.                                 *)
LEMMA ReadingKeepsLeft ==
    ASSUME TypeOK, TypeOK', NEW from, LeftFrom(from), NEW paths \in SUBSET Places,
           Managed(tree) \subseteq paths, paths \subseteq Known(from),
           NEW next, Reads(paths, next), UNCHANGED <<disk, mark, head>>
    PROVE  LeftFrom(from)'
<1>1. CASE Readable(tree, disk, paths)
  <2>1. /\ tree' = Snapshot(tree, disk, paths) /\ probe' = paths
        /\ HoldsTogether(disk) /\ tree \in Trees /\ tree' \in Trees
    BY <1>1 DEF Reads, TypeOK
  <2>2. /\ \A p \in paths : tree'[p] = ReadEntry(disk, p)
        /\ \A p \in Places \ paths : tree'[p] = tree[p]
    BY <2>1, SnapshotReads DEF Snapshot
  <2>3. Merged(from)' = Merged(from) /\ Known(from)' = Known(from)
    BY MergedStays DEF Known, Managed
  <2>4. PartWay(from, tree)'
    BY <2>1, <2>2, <2>3 DEF LeftFrom, PartWay
  <2>5. ASSUME NEW p \in Known(from), NEW q \in Above(p), disk[q] = Link
        PROVE  tree'[q] = Link \/ BehindALink(q)'
    <3>1. q \in Places
      BY AboveIsShorter DEF Known, Managed
    <3>2. CASE tree[q] = Link
      <4>1. q \in paths
        BY <3>1, <3>2, EntriesAreDistinct DEF Managed
      <4>. QED  BY <2>2, <2>5, <4>1, EntriesAreDistinct DEF ReadEntry, IsEntry
    <3>3. CASE head[q] = Link /\ IsFolder(mark, q)
      BY <3>3 DEF BehindALink, IsFolder
    <3>4. CASE IsFolder(tree, q)
      <4>1. PICK r \in Below(q) : tree[r] # Absent
        BY <3>4 DEF IsFolder
      <4>2. r \in paths /\ r \in Places /\ q \in Above(r)
        BY <4>1 DEF Below, Managed
      <4>3. BeneathManagedLink(tree, disk, r)
        BY <1>1, <2>5, <4>2 DEF Readable, Refused, LinksAbove
      <4>4. tree[q] = Link
        BY <2>1, <2>5, <4>2, <4>3, OneLinkAbove DEF BeneathManagedLink
      <4>. QED  BY <3>2, <4>4
    <3>. QED  BY <2>5, <3>2, <3>3, <3>4 DEF LeftFrom, BehindALink
  <2>6. \A p : ReadEntry(disk, p)' = ReadEntry(disk, p)
    BY DEF ReadEntry, IsEntry
  <2>. QED  BY <2>1, <2>3, <2>4, <2>5, <2>6 DEF LeftFrom
<1>2. CASE ~Readable(tree, disk, paths)
  <2>1. phase' = "stopped" /\ UNCHANGED <<tree, probe>>
    BY <1>2 DEF Reads
  <2>. QED  BY <2>1, LeftStays
<1>. QED  BY <1>1, <1>2

(* A sync that ends part-way with the user out of the way leaves home so.   *)
LEMMA SyncLeaves ==
    ASSUME TypeOK, IInv, UInv, WritesTheMerge, phase = "writing", cmd = "sync", raced = {},
           NEW from, from = tree
    PROVE  LeftFrom(from)
<1>1. /\ goal = Merged(from) /\ from \in Trees /\ {mark, head} \subseteq Trees
      /\ \A p \in Places : Merged(from)[p] # Conflict
  BY DEF WritesTheMerge, TypeOK
<1>2. Known(from) \subseteq probe /\ probe \subseteq Places
  BY DEF Known, Managed, WritesTheMerge, UInv, KnowsHome, TypeOK
<1>3. \A p \in probe : ReadEntry(disk, p) \in {from[p], Merged(from)[p]}
  BY <1>1 DEF IInv, AsRead
<1>4. PartWay(from, tree)
  BY <1>1 DEF PartWay
<1>5. ASSUME NEW p \in Known(from), NEW q \in Above(p), disk[q] = Link, tree[q] # Link
      PROVE  BehindALink(q)
  <2>1. q \in probe /\ q \in Places /\ p \in Places /\ p \in Below(q)
    BY <1>2, <1>5, AboveIsShorter DEF UInv, LinksRead, Below
  <2>2. Merged(from)[q] = Link
    BY <1>3, <1>5, <2>1, EntriesAreDistinct DEF ReadEntry, IsEntry
  <2>3. head[q] = Link
    BY <1>5, <2>1, <2>2, MergedIsOneOf, EntriesAreDistinct
  <2>4. head[p] = Absent
    BY <1>1, <2>1, <2>3, FoldersAreNoEntries, EntriesAreDistinct DEF IsFolder
  <2>5. mark[p] # Absent \/ tree[p] # Absent
    BY <1>5, <2>4 DEF Known, Managed
  <2>. QED  BY <2>1, <2>3, <2>5 DEF BehindALink, IsFolder
<1>. QED  BY <1>2, <1>3, <1>4, <1>5 DEF LeftFrom

-----------------------------------------------------------------------------
(* Every step keeps it. *)

(* The part of the invariant that is about home, where no step touches it.  *)
LEMMA LeftAlone ==
    ASSUME TInv, UNCHANGED <<disk, mark, head, tree, raced, partly>>,
           \/ phase' \notin {"acquired", "observed"}
           \/ phase \in {"acquired", "observed"} /\ probe' = probe
    PROVE  /\ partly' => raced' = {}
           /\ partly' /\ mark' # head' => \E from : LeftFrom(from)'
<1>1. ASSUME NEW from, LeftFrom(from)
      PROVE  LeftFrom(from)'
  <2>1. phase' \in {"acquired", "observed"} => probe' \subseteq Known(from)
    BY <1>1 DEF LeftFrom
  <2>. QED  BY <1>1, <2>1, LeftStays
<1>. QED  BY <1>1 DEF TInv

(* Reading home, by any command.                                            *)
LEMMA ReadingKeepsTInv ==
    ASSUME TypeOK, TypeOK', TInv, NEW paths \in SUBSET Places,
           NEW next \in {"acquired", "observed"}, Reads(paths, next),
           UNCHANGED <<disk, mark, head, partly>>,
           \A from : LeftFrom(from) => Managed(tree) \subseteq paths /\ paths \subseteq Known(from)
    PROVE  TInv'
<1>1. phase' \in {"acquired", "observed", "stopped"} /\ raced' \in {{}, raced}
  BY DEF Reads
<1>2. ASSUME NEW from, LeftFrom(from)
      PROVE  LeftFrom(from)'
  BY <1>2, ReadingKeepsLeft
<1>3. partly' /\ mark' # head' => \E from : LeftFrom(from)'
  BY <1>2 DEF TInv
<1>. QED  BY <1>1, <1>3 DEF TInv, WritesTheMerge

(* A run that ends part-way.                                                *)
LEMMA EndsPartWayKeepsTInv ==
    ASSUME TypeOK, IInv, UInv, TInv, phase = "writing", EndsPartWay,
           UNCHANGED <<mark, head, tree, raced>>
    PROVE  TInv'
<1>1. /\ phase' = "failed" /\ UNCHANGED disk
      /\ partly' => partly \/ (cmd = "sync" /\ raced = {})
  BY DEF EndsPartWay
<1>2. ASSUME partly', mark' # head'
      PROVE  \E from : LeftFrom(from)
  <2>1. CASE partly
    BY <1>2, <2>1 DEF TInv
  <2>2. CASE cmd = "sync" /\ raced = {}
    <3>1. PICK from : from = tree
      OBVIOUS
    <3>2. LeftFrom(from)
      BY <2>2, <3>1, SyncLeaves DEF TInv
    <3>. QED  BY <3>2
  <2>. QED  BY <1>1, <1>2, <2>1, <2>2
<1>3. ASSUME NEW from, LeftFrom(from)
      PROVE  LeftFrom(from)'
  BY <1>1, <1>3, LeftStays
<1>. QED  BY <1>1, <1>2, <1>3 DEF TInv, WritesTheMerge

(* What is decided is the merge, if it is a sync that decides.              *)
LEMMA DecideKeepsTInv ==
    ASSUME IInv, TInv, NEW paths, Decide(paths)
    PROVE  TInv'
<1>1. /\ phase = "observed" /\ phase' \in {"stopped", "checked"}
      /\ UNCHANGED <<disk, mark, head, cmd, tree, probe, raced, partly>>
  BY DEF Decide
<1>2. \A p \in Places \ probe : mark[p] = Absent /\ head[p] = Absent
  BY <1>1 DEF IInv, ReadsAll
<1>3. ASSUME phase' = "checked", cmd = "sync"
      PROVE  goal' = Merged(tree) /\ \A p \in Places : Merged(tree)[p] # Conflict
  BY <1>1, <1>3 DEF Decide, Goal, ConflictsIn
<1>4. WritesTheMerge'
  BY <1>1, <1>2, <1>3, MergedOfTreeStays DEF WritesTheMerge
<1>. QED  BY <1>1, <1>4, LeftAlone DEF TInv

(* Every step keeps the invariant: only one that ends a sync part-way sets  *)
(* partly, and what else happens while it is set is reading.                *)
LEMMA NextKeepsTInv ==
    ASSUME TypeOK, IInv, UInv, TInv, TypeOK', [Next]_vars
    PROVE  TInv'
<1>1. ASSUME NEW c \in Commands, Acquire(c) PROVE TInv'
  <2>. DEFINE paths == Managed(tree) \cup Managed(mark)
  <2>1. paths \in SUBSET Places /\ Managed(tree) \subseteq paths
    BY DEF Managed
  <2>2. \A from : LeftFrom(from) => paths \subseteq Known(from)
    BY TreeIsKnown
  <2>3. Reads(paths, "acquired") /\ UNCHANGED <<disk, mark, head, partly>>
    BY <1>1 DEF Acquire
  <2>. HIDE DEF paths
  <2>. QED  BY <2>1, <2>2, <2>3, ReadingKeepsTInv
<1>2. CASE Observe
  <2>. DEFINE paths == probe \cup Managed(head)
  <2>1. phase = "acquired" /\ UNCHANGED <<disk, mark, head, partly>>
    BY <1>2 DEF Observe
  <2>2. CASE phase' = "observed" /\ UNCHANGED <<tree, probe, raced>>
    BY <2>1, <2>2, LeftAlone DEF TInv, WritesTheMerge
  <2>3. CASE Reads(paths, "observed")
    <3>1. paths \in SUBSET Places /\ Managed(tree) \subseteq paths
      BY <2>1 DEF TypeOK, Managed, IInv, ReadsAll
    <3>2. \A from : LeftFrom(from) => paths \subseteq Known(from)
      BY <2>1 DEF LeftFrom, Known
    <3>. HIDE DEF paths
    <3>. QED  BY <2>1, <2>3, <3>1, <3>2, ReadingKeepsTInv
  <2>. QED  BY <1>2, <2>2, <2>3 DEF Observe
<1>3. ASSUME NEW a \in Places, Look(a) PROVE TInv'
  <2>1. ~partly' /\ phase' = "stopped"
    BY <1>3 DEF Look, Reads
  <2>. QED  BY <2>1 DEF TInv, WritesTheMerge
<1>4. ASSUME NEW paths, Decide(paths) PROVE TInv'
  BY <1>4, DecideKeepsTInv
<1>5. CASE CheckOutStarts
  <2>1. /\ phase = "checked" /\ phase' \in {"writing", "refused"}
        /\ UNCHANGED <<disk, mark, head, cmd, tree, probe, goal, raced, partly>>
    BY <1>5 DEF CheckOutStarts
  <2>2. WritesTheMerge'
    BY <2>1, MergedOfTreeStays DEF TInv, WritesTheMerge
  <2>. QED  BY <2>1, <2>2, LeftAlone DEF TInv
<1>6. ASSUME NEW p \in Places, RemoveEntry(p) \/ WriteEntry(p) PROVE TInv'
  <2>1. /\ phase = "writing"
        /\ UNCHANGED <<mark, head, cmd, tree, probe, goal, raced>>
        /\ EndsPartWay \/ (~partly' /\ phase' = phase)
    BY <1>6 DEF RemoveEntry, WriteEntry, Reaches
  <2>2. CASE EndsPartWay
    BY <2>1, <2>2, EndsPartWayKeepsTInv
  <2>3. CASE ~partly' /\ phase' = phase
    BY <2>1, <2>3, MergedOfTreeStays DEF TInv, WritesTheMerge
  <2>. QED  BY <2>1, <2>2, <2>3
<1>7. CASE WriteFails
  BY <1>7, EndsPartWayKeepsTInv DEF WriteFails
<1>8. CASE CheckOutEnds
  <2>1. phase' = "done" /\ mark' = head' /\ UNCHANGED <<raced, partly>>
    BY <1>8 DEF CheckOutEnds
  <2>. QED  BY <2>1 DEF TInv, WritesTheMerge
<1>9. CASE Finish
  <2>1. /\ phase' = "idle" /\ UNCHANGED <<disk, mark, head, tree, partly>> /\ raced' = {}
    BY <1>9 DEF Finish
  <2>2. ASSUME NEW from, LeftFrom(from)
        PROVE  LeftFrom(from)'
    BY <2>1, <2>2, LeftStays
  <2>. QED  BY <2>1, <2>2 DEF TInv, WritesTheMerge
<1>10. CASE User
  <2>1. /\ ~partly' /\ UNCHANGED <<mark, head, phase, cmd, tree, probe, goal>>
    BY <1>10 DEF User, UserRemoves, UserPuts, UserWrites, run
  <2>. QED  BY <2>1, MergedOfTreeStays DEF TInv, WritesTheMerge
<1>11. CASE UNCHANGED vars
  <2>1. UNCHANGED <<disk, mark, head, phase, cmd, tree, probe, goal, raced, partly>>
    BY <1>11 DEF vars, run
  <2>2. WritesTheMerge'
    BY <2>1, MergedOfTreeStays DEF TInv, WritesTheMerge
  <2>. QED  BY <2>1, <2>2, LeftAlone DEF TInv
<1>. QED
  BY <1>1, <1>2, <1>3, <1>4, <1>5, <1>6, <1>7, <1>8, <1>9, <1>10, <1>11 DEF Next, RunStep

(* The invariant holds of every home. *)
LEMMA TakeUpInvariant == Spec => []TInv
<1>1. Init => TInv
  BY DEF Init, TInv, WritesTheMerge
<1>2. Init => UInv
  BY DEF Init, UInv, KnowsHome, LinksRead, ClearedBelow
<1>. QED
  BY <1>1, <1>2, NextKeepsTInv, NextKeepsUInv, HomeInvariant, TypeTheorem, PTL DEF Spec

-----------------------------------------------------------------------------
(* What can stop the next sync. *)

(* Home can be read, but beneath a link that was put in place of a folder.  *)
LEMMA ReadableOrBehindALink ==
    ASSUME NEW from, LeftFrom(from), NEW paths, paths \subseteq Known(from),
           ~Readable(tree, disk, paths)
    PROVE  \E p \in Places : CannotBeTakenUp(p)
<1>1. PICK p \in paths : ~BeneathManagedLink(tree, disk, p) /\ Refused(disk, p)
  BY DEF Readable
<1>2. PICK q \in Above(p) : disk[q] = Link
  BY <1>1 DEF Refused, LinksAbove
<1>3. p \in Places /\ q \in Places /\ tree[q] # Link
  BY <1>1, <1>2, AboveIsShorter DEF BeneathManagedLink, Known, Managed
<1>4. BehindALink(q)
  BY <1>1, <1>2, <1>3 DEF LeftFrom
<1>. QED  BY <1>3, <1>4 DEF CannotBeTakenUp, BehindALink

(* Whatever the fleet and home hold, and wherever a sync ended part-way,    *)
(* the next takes it up, but for the two changes of kind.                   *)
THEOREM TakesUpTheorem == Spec => TakesUpWhatWasLeft
<1>1. ASSUME TypeOK, TInv, Next, phase # "stopped", phase' = "stopped", cmd' = "sync",
             partly, mark # head
      PROVE  \E p \in Places : CannotBeTakenUp(p)
  <2>1. PICK from : LeftFrom(from)
    BY <1>1 DEF TInv
  <2>2. ASSUME NEW c, Acquire(c)
        PROVE  \E p \in Places : CannotBeTakenUp(p)
    <3>1. ~Readable(tree, disk, Managed(tree) \cup Managed(mark))
      BY <1>1, <2>2 DEF Acquire, Reads
    <3>. QED  BY <2>1, <3>1, TreeIsKnown, ReadableOrBehindALink
  <2>3. CASE Observe
    <3>1. phase = "acquired" /\ ~Readable(tree, disk, probe \cup Managed(head))
      BY <1>1, <2>3 DEF Observe, Reads
    <3>2. probe \cup Managed(head) \subseteq Known(from)
      BY <2>1, <3>1 DEF LeftFrom, Known
    <3>. QED  BY <2>1, <3>1, <3>2, ReadableOrBehindALink
  <2>4. ASSUME NEW paths, Decide(paths)
        PROVE  \E p \in Places : CannotBeTakenUp(p)
    <3>1. cmd = "sync" /\ ConflictsIn(Merged(tree)) # {}
      BY <1>1, <2>4 DEF Decide, Goal
    <3>2. PICK p \in Places : BecameAFolder(p)
      BY <1>1, <2>1, <3>1, PartWayMerges DEF ConflictsIn, LeftFrom, SidesHold, TypeOK
    <3>. QED  BY <3>2 DEF BecameAFolder, CannotBeTakenUp
  <2>5. \A a : ~Look(a)
    BY <1>1 DEF Look
  <2>6. ~CheckOutStarts /\ ~CheckOutEnds /\ ~Finish /\ ~WriteFails /\ ~User
    BY <1>1 DEF CheckOutStarts, CheckOutEnds, Finish, WriteFails, EndsPartWay, User,
                UserPuts, UserRemoves, UserWrites, run
  <2>7. \A p : ~RemoveEntry(p) /\ ~WriteEntry(p)
    BY <1>1 DEF RemoveEntry, WriteEntry, Reaches, EndsPartWay
  <2>. QED  BY <1>1, <2>2, <2>3, <2>4, <2>5, <2>6, <2>7 DEF Next, RunStep
<1>2. TypeOK /\ TInv /\ [Next]_vars
         => [(phase # "stopped" /\ phase' = "stopped" /\ cmd' = "sync"
                /\ partly /\ mark # head) => \E p \in Places : CannotBeTakenUp(p)]_vars
  BY <1>1
<1>. QED  BY <1>2, TypeTheorem, TakeUpInvariant, PTL DEF Spec, TakesUpWhatWasLeft
=============================================================================
