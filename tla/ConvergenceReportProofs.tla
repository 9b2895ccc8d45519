---------------------- MODULE ConvergenceReportProofs ----------------------
(* What runs and reports say of the fleet, proved: a fleet that reads clean *)
(* has nothing unpublished, and a pass has reached the scopes it passed.    *)
EXTENDS ConvergenceProofs

-----------------------------------------------------------------------------
(* A scope's head is the scope's: the history of what it is at holds a      *)
(* commit that created it.                                                  *)
IsOf(H, c, s) == c # Gone => \E d \in H[c].anc : H[d].creates = s

(* What a head is to what was seen, moved back or not: a resolved one moved *)
(* from nothing, a contested one is between that and another commit, and    *)
(* one that is nowhere saw nothing.                                         *)
Beside(t, seen) ==
    /\ t = [sides |-> t.sides, base |-> t.base]
    /\ ~HasConflict(t) => t.base = Gone
    /\ HasConflict(t) => \E c \in t.sides : t.sides = {seen, c} /\ c # seen /\ c # Gone
    /\ t.sides = {Gone} => seen = Gone

IsHeadOf(H, t, seen, s) ==
    /\ Beside(t, seen)
    /\ \A c \in t.sides : IsOf(H, c, s)

ScopesInv ==
    /\ \A s \in Scopes : IsOf(commits, remote[s], s)
    /\ \A m \in Machines, s \in Scopes :
          /\ IsOf(commits, tracked[m][s], s)
          /\ IsHeadOf(commits, local[m][s], tracked[m][s], s)

(* The positions a run and a record note, to go back to or to write on.     *)
RunsNote ==
    \A m \in Machines, s \in Scopes : IsOf(commits, run[m].checkpoint[s], s)

RecordsNote ==
    \A m \in Machines :
        /\ \A s \in Scopes : IsOf(commits, record[m].checkpoint[s], s)
        /\ record[m].commit # NoCommit =>
              IsOf(commits, record[m].commit.parent, record[m].commit.scope)

NamedInv == ScopesInv /\ RunsNote /\ RecordsNote

-----------------------------------------------------------------------------
(* What becomes of a head keeps it the scope's. *)

(* A longer history takes nothing from it.                                  *)
LEMMA IsOfInMore ==
    ASSUME NEW H, NEW G, IsHistory(H), Extends(G, H), NEW c \in Positions(H),
           NEW s, IsOf(H, c, s)
    PROVE  IsOf(G, c, s)
BY DEF IsOf, Extends, IsHistory, Positions

(* Nor does it change whose head a head is.                                 *)
LEMMA IsHeadOfInMore ==
    ASSUME NEW H, NEW G, IsHistory(H), Extends(G, H), NEW t, IsHead(H, t),
           NEW seen, NEW s, IsHeadOf(H, t, seen, s)
    PROVE  IsHeadOf(G, t, seen, s)
<1>1. t.sides \subseteq Positions(H)
  BY DEF IsHead
<1>. QED  BY <1>1, IsOfInMore DEF IsHeadOf

(* A head put at a commit of the scope, or nowhere where nothing was seen.  *)
LEMMA AtIsHeadOf ==
    ASSUME NEW H, NEW c \in Positions(H), NEW seen, NEW s, IsOf(H, c, s),
           c = Gone => seen = Gone
    PROVE  IsHeadOf(H, At(c), seen, s)
<1>1. /\ At(c).sides = {c} /\ ~HasConflict(At(c)) /\ At(c).base = Gone
      /\ At(c) = [sides |-> At(c).sides, base |-> At(c).base]
  BY AtIsHead DEF At
<1>. QED  BY <1>1 DEF IsHeadOf, Beside

(* A head at one commit is that beside whatever was seen.                   *)
LEMMA OneBesideAll ==
    ASSUME NEW H, NEW t, NEW c, IsOne(t, c), NEW seen, NEW s, IsHeadOf(H, t, seen, s),
           NEW now
    PROVE  IsHeadOf(H, t, now, s) /\ IsOf(H, c, s) /\ TheOne(t) = c
<1>1. ~HasConflict(t) /\ TheOne(t) = c
  BY OneSide DEF IsOne
<1>. QED  BY <1>1 DEF IsHeadOf, Beside, IsOne

(* What jj makes of a position of the machine's own and one just fetched,   *)
(* both the scope's, is a head of the scope beside the fetched one.         *)
LEMMA MergeTargetsIsHeadOf ==
    ASSUME NEW H, NEW ours \in Positions(H), NEW base, NEW now \in Positions(H), NEW s,
           IsOf(H, ours, s), IsOf(H, now, s), ours = Gone => base = Gone
    PROVE  IsHeadOf(H, MergeTargets(H, ours, base, now), now, s)
<1>. DEFINE t == MergeTargets(H, ours, base, now)
<1>1. \/ t = At(ours) /\ (ours = now \/ now = base \/ ours # Gone)
      \/ t = At(now)
      \/ t = Contested(ours, now, base) /\ ours # now /\ ours # base
  BY DEF MergeTargets
<1>. HIDE DEF t
<1>2. CASE t = At(ours) /\ (ours = now \/ now = base \/ ours # Gone)
  BY <1>2, AtIsHeadOf DEF t
<1>3. CASE t = At(now)
  BY <1>3, AtIsHeadOf DEF t
<1>4. CASE t = Contested(ours, now, base) /\ ours # now /\ ours # base
  <2>1. /\ t.sides = {now, ours} /\ ours # Gone
        /\ t = [sides |-> t.sides, base |-> t.base]
    BY <1>4 DEF Contested
  <2>2. HasConflict(t)
    BY <1>4, <2>1, TwoSides
  <2>3. Beside(t, now)
    BY <1>4, <2>1, <2>2 DEF Beside
  <2>. QED  BY <2>1, <2>3 DEF IsHeadOf, t
<1>. QED  BY <1>1, <1>2, <1>3, <1>4

(* A fetch: what the machine saw is what is published now.                  *)
LEMMA ImportIsHeadOf ==
    ASSUME NEW H, NEW t, IsHead(H, t), NEW seen, NEW now \in Positions(H), NEW s,
           IsHeadOf(H, t, seen, s), IsOf(H, now, s)
    PROVE  IsHeadOf(H, Import(H, t, seen, now), now, s)
<1>. SUFFICES ASSUME now # seen
              PROVE  IsHeadOf(H, Import(H, t, seen, now), now, s)
  BY DEF Import
<1>1. CASE HasConflict(t)
  <2>. DEFINE ours == CHOOSE c \in t.sides : c # seen
  <2>1. PICK c \in t.sides : t.sides = {seen, c} /\ c # seen /\ c # Gone
    BY <1>1 DEF IsHeadOf, Beside
  <2>2. ours = c
    BY <2>1
  <2>3. ours \in Positions(H) /\ ours # Gone /\ IsOf(H, ours, s)
    BY <2>1, <2>2 DEF IsHead, IsHeadOf
  <2>4. Import(H, t, seen, now) = MergeTargets(H, ours, t.base, now)
    BY <1>1 DEF Import
  <2>. HIDE DEF ours
  <2>. QED  BY <2>3, <2>4, MergeTargetsIsHeadOf
<1>2. CASE ~HasConflict(t)
  <2>1. PICK c \in Positions(H) : t.sides = {c} /\ TheOne(t) = c
    BY <1>2, HeadShape
  <2>2. Import(H, t, seen, now) = MergeTargets(H, c, seen, now)
    BY <1>2, <2>1 DEF Import
  <2>3. IsOf(H, c, s) /\ (c = Gone => seen = Gone)
    BY <2>1 DEF IsHeadOf, Beside
  <2>. QED  BY <2>2, <2>3, MergeTargetsIsHeadOf
<1>. QED  BY <1>1, <1>2

(* A pass, which carries every side of a head on.                           *)
LEMMA CarriesIsHeadOf ==
    ASSUME NEW H, IsHistory(H), NEW t, IsHead(H, t), NEW u, Carries("stand", H, t, u),
           NEW seen, NEW s, IsHeadOf(H, t, seen, s)
    PROVE  IsHeadOf(H, u, seen, s)
<1>1. CASE u = At(Gone) /\ HasConflict(t) /\ Gone \in t.sides
  <2>1. seen = Gone
    BY <1>1 DEF IsHeadOf, Beside
  <2>2. Gone \in Positions(H) /\ IsOf(H, Gone, s)
    BY DEF Positions, IsOf
  <2>. QED  BY <1>1, <2>1, <2>2, AtIsHeadOf
<1>2. ASSUME NEW c \in DOMAIN H, u = At(c), Gone \notin t.sides, t.sides \subseteq H[c].anc
      PROVE  IsHeadOf(H, u, seen, s)
  <2>1. PICK d \in t.sides : d \in DOMAIN H /\ d \in H[c].anc
    BY <1>2 DEF IsHead, Positions
  <2>2. d # Gone /\ IsOf(H, d, s)
    BY <1>2, <2>1 DEF IsHeadOf
  <2>3. IsOf(H, c, s) /\ c # Gone /\ c \in Positions(H)
    BY <2>1, <2>2, GoneIsNowhere DEF IsOf, IsHistory, Positions
  <2>. QED  BY <1>2, <2>3, AtIsHeadOf
<1>. QED  BY <1>1, <1>2 DEF Carries

(* What a run notes to go back to is where its machine has the scope.       *)
LEMMA CheckpointIsOf ==
    ASSUME NEW H, NEW h, NEW s \in Scopes, IsHead(H, h[s]), NEW seen,
           IsHeadOf(H, h[s], seen, s)
    PROVE  IsOf(H, Checkpoint(h)[s], s)
<1>1. Checkpoint(h)[s] = IF HasConflict(h[s]) THEN Gone ELSE TheOne(h[s])
  BY DEF Checkpoint
<1>2. CASE HasConflict(h[s])
  BY <1>1, <1>2 DEF IsOf
<1>3. CASE ~HasConflict(h[s])
  <2>1. PICK c \in Positions(H) : h[s].sides = {c} /\ TheOne(h[s]) = c
    BY <1>3, HeadShape
  <2>. QED  BY <1>1, <1>3, <2>1 DEF IsHeadOf
<1>. QED  BY <1>2, <1>3

-----------------------------------------------------------------------------
(* What the steps have in common. *)

(* History is only added to, whatever a machine does.                       *)
LEMMA CommitsStay == IInv("stand") /\ [Next]_vars => Extends(commits', commits)
<1>. SUFFICES ASSUME IInv("stand"), [Next]_vars, commits' # commits
              PROVE  Extends(commits', commits)
  BY DEF Extends
<1>1. PICK m \in Machines : ConvergeEnds(m) \/ Resolve(m) \/ Create(m)
  <2>1. commits' = commits
        \/ \E m \in Machines : PassStep(m) \/ RunStep(m) \/ Start(m) \/ Fails(m)
    BY DEF Next, vars, repo
  <2>2. PICK m \in Machines : PassStep(m) \/ RunStep(m) \/ Start(m) \/ Fails(m)
    BY <2>1
  <2>3. PassStep(m) => ConvergeEnds(m)
    BY DEF PassStep, ConvergeScope, Converges, CheckEnds, FindEnds, FoundNothing,
       ContinueSettlesHome, AbortFoundStop, ContinueFoundStop, repo
  <2>4. RunStep(m) => Resolve(m) \/ Create(m)
    BY DEF RunStep, Fetch, FetchInto, CheckRefuses, BeginPass, Transacts, Publish, Plan,
       Save, Restore, Forget, Delete, SyncHome, repo
  <2>5. ~Start(m)
    BY DEF Start, StartRead, StartSync, StartAbort, StartCommit, StartDelete, StartCreate,
       StartJoin, StartContinue, Starts, repo
  <2>6. ~Fails(m)
    BY DEF Fails, FetchUnreachable, FetchInto, PublishUnreachable, DiesAfterPush, Publish,
       Crash, repo
  <2>. QED  BY <2>2, <2>3, <2>4, <2>5, <2>6
<1>2. CASE ConvergeEnds(m)
  <2>1. pass # NoPass /\ commits' = pass.commits
    BY <1>2 DEF ConvergeEnds, PassIsRecorded, PassEnds
  <2>. QED  BY <2>1 DEF IInv, PassInv, PassOK
<1>3. CASE Resolve(m) \/ Create(m)
  <2>. DEFINE id == <<m, written[m] + 1>>
  <2>1. \E new : commits' = [i \in DOMAIN commits \cup {id} |-> IF i = id THEN new ELSE commits[i]]
    BY <1>3 DEF Resolve, Create
  <2>2. id \notin DOMAIN commits
    BY DEF IInv, RepoInv, Fresh
  <2>. QED  BY <2>1, <2>2 DEF Extends
<1>. QED  BY <1>1, <1>2, <1>3

(* The heads stay, or one machine's move, as the scope's in a history that  *)
(* grows; the remote, and what the machine saw of it, are the scope's.      *)
LEMMA ScopesMove ==
    ASSUME IInv("stand"), IInv("stand")', ScopesInv,
           Extends(commits', commits), NEW m \in Machines,
           \A n \in Machines \ {m} : local'[n] = local[n] /\ tracked'[n] = tracked[n],
           \A s \in Scopes :
              /\ \/ remote'[s] = remote[s]
                 \/ IsOf(commits', remote'[s], s)
              /\ \/ tracked'[m][s] = tracked[m][s]
                 \/ tracked'[m][s] = remote[s]
                 \/ IsOf(commits', tracked'[m][s], s)
              /\ \/ local'[m][s] = local[m][s] /\ tracked'[m][s] = tracked[m][s]
                 \/ IsHeadOf(commits', local'[m][s], tracked'[m][s], s)
    PROVE  ScopesInv'
<1>1. /\ IsHistory(commits)
      /\ \A s \in Scopes : remote[s] \in Positions(commits)
      /\ \A n \in Machines, s \in Scopes :
            IsHead(commits, local[n][s]) /\ tracked[n][s] \in Positions(commits)
  BY DEF IInv, RepoInv
<1>2. ASSUME NEW s \in Scopes
      PROVE  IsOf(commits', remote[s], s) /\ IsOf(commits', remote'[s], s)
  <2>1. IsOf(commits, remote[s], s)
    BY DEF ScopesInv
  <2>. QED  BY <1>1, <2>1, IsOfInMore
<1>3. ASSUME NEW n \in Machines, NEW s \in Scopes
      PROVE  IsOf(commits', tracked[n][s], s) /\ IsHeadOf(commits', local[n][s], tracked[n][s], s)
  <2>1. IsOf(commits, tracked[n][s], s) /\ IsHeadOf(commits, local[n][s], tracked[n][s], s)
    BY DEF ScopesInv
  <2>. QED  BY <1>1, <2>1, IsOfInMore, IsHeadOfInMore
<1>4. ASSUME NEW n \in Machines, NEW s \in Scopes
      PROVE  IsOf(commits', tracked'[n][s], s) /\ IsHeadOf(commits', local'[n][s], tracked'[n][s], s)
  <2>1. CASE n = m
    BY <1>2, <1>3, <2>1
  <2>2. CASE n # m
    BY <1>3, <2>2
  <2>. QED  BY <2>1, <2>2
<1>. QED  BY <1>2, <1>4 DEF ScopesInv

(* Where the machines stand may rest while history grows.                   *)
LEMMA ScopesRest ==
    ASSUME IInv("stand"), IInv("stand")', ScopesInv, Extends(commits', commits),
           UNCHANGED <<remote, local, tracked>>
    PROVE  ScopesInv'
<1>1. CASE Machines = {}
  <2>1. ASSUME NEW s \in Scopes  PROVE IsOf(commits', remote[s], s)
    BY IsOfInMore DEF IInv, RepoInv, ScopesInv
  <2>. QED  BY <1>1, <2>1 DEF ScopesInv
<1>2. CASE Machines # {}
  <2>1. PICK m \in Machines : TRUE
    BY <1>2
  <2>. QED  BY <2>1, ScopesMove
<1>. QED  BY <1>1, <1>2

(* What a run of m may note: what it or the record had noted, where the     *)
(* machine's heads are, or nothing.                                         *)
MayNote(m) ==
    {run[m].checkpoint, record[m].checkpoint, Checkpoint(local[m]), Checkpoint(local'[m]),
     NoCheckpoint}

(* The run of m, going on with one of the notes it may have, leaves every   *)
(* note a position of its scope.                                            *)
LEMMA RunsNoteMore ==
    ASSUME IInv("stand"), IInv("stand")', NamedInv, ScopesInv',
           Extends(commits', commits), NEW m \in Machines,
           NEW r, Goes(m, r), r.checkpoint \in MayNote(m)
    PROVE  RunsNote'
<1>1. /\ IsHistory(commits) /\ ScopesInv /\ RunsNote /\ RecordsNote
      /\ \A n \in Machines : /\ run[n].checkpoint \in [Scopes -> Positions(commits)]
                             /\ record[n].checkpoint \in [Scopes -> Positions(commits)]
  BY DEF IInv, RepoInv, RunInv, RecordInv, Runs, Records, NamedInv
<1>2. ASSUME NEW s \in Scopes, NEW note \in MayNote(m)  PROVE IsOf(commits', note[s], s)
  <2>1. \A n \in Machines : IsOf(commits', run[n].checkpoint[s], s)
    BY <1>1, IsOfInMore DEF RunsNote
  <2>2. IsOf(commits', record[m].checkpoint[s], s)
    BY <1>1, IsOfInMore DEF RecordsNote
  <2>3. IsOf(commits', Checkpoint(local'[m])[s], s)
    BY CheckpointIsOf DEF IInv, RepoInv, ScopesInv
  <2>4. IsOf(commits', Checkpoint(local[m])[s], s)
    <3>1. IsHead(commits, local[m][s]) /\ IsHeadOf(commits, local[m][s], tracked[m][s], s)
      BY DEF IInv, RepoInv, NamedInv, ScopesInv
    <3>2. IsHead(commits', local[m][s]) /\ IsHeadOf(commits', local[m][s], tracked[m][s], s)
      <4>1. IsHeadOf(commits', local[m][s], tracked[m][s], s)
        BY <1>1, <3>1, IsHeadOfInMore
      <4>2. IsHead(commits', local[m][s])
        BY <3>1, PositionsGrow DEF IsHead
      <4>. QED  BY <4>1, <4>2
    <3>. QED  BY <3>2, CheckpointIsOf
  <2>5. IsOf(commits', NoCheckpoint[s], s)
    BY DEF NoCheckpoint, IsOf
  <2>. QED  BY <2>1, <2>2, <2>3, <2>4, <2>5 DEF MayNote
<1>3. PICK q \in {r, Idle} : run' = [run EXCEPT ![m] = q]
  BY DEF Goes, RunEnds
<1>4. q.checkpoint \in MayNote(m)
  BY DEF Idle, MayNote
<1>5. \A n \in Machines : run'[n] = IF n = m THEN q ELSE run[n]
  BY <1>3 DEF IInv, RunInv
<1>6. ASSUME NEW n \in Machines, NEW s \in Scopes  PROVE IsOf(commits', run[n].checkpoint[s], s)
  <2>1. IsOf(commits, run[n].checkpoint[s], s) /\ run[n].checkpoint[s] \in Positions(commits)
    BY <1>1 DEF RunsNote
  <2>. QED  BY <1>1, <2>1, IsOfInMore
<1>. QED  BY <1>2, <1>4, <1>5, <1>6 DEF RunsNote

-----------------------------------------------------------------------------
(* The steps that move heads, or what is seen or published. *)

(* A fetch.                                                                 *)
LEMMA FetchNames ==
    ASSUME IInv("stand"), IInv("stand")', NamedInv,
           Extends(commits', commits), NEW m \in Machines,
           Fetch(m) \/ FetchUnreachable(m)
    PROVE  ScopesInv'
<1>1. PICK h : /\ FetchInto(m, h)
               /\ \/ h = Imported(m) /\ tracked' = [tracked EXCEPT ![m] = remote]
                  \/ h = local[m] /\ tracked' = tracked
  BY DEF Fetch, FetchUnreachable
<1>2. local' = [local EXCEPT ![m] = h] /\ commits' = commits /\ remote' = remote
  BY <1>1 DEF FetchInto
<1>3. /\ DOMAIN local = Machines /\ DOMAIN tracked = Machines
      /\ IsHistory(commits)
      /\ \A s \in Scopes : remote[s] \in Positions(commits) /\ IsHead(commits, local[m][s])
  BY DEF IInv, RepoInv
<1>4. ScopesInv
  BY DEF NamedInv
<1>5. CASE h = Imported(m) /\ tracked' = [tracked EXCEPT ![m] = remote]
  <2>1. ASSUME NEW s \in Scopes
        PROVE  IsHeadOf(commits, h[s], remote[s], s)
    <3>1. h[s] = Import(commits, local[m][s], tracked[m][s], remote[s])
      BY <1>5 DEF Imported
    <3>2. IsOf(commits, remote[s], s) /\ IsHeadOf(commits, local[m][s], tracked[m][s], s)
      BY <1>4 DEF ScopesInv
    <3>. QED  BY <1>3, <3>1, <3>2, ImportIsHeadOf
  <2>2. /\ local'[m] = h /\ tracked'[m] = remote
        /\ \A n \in Machines \ {m} : local'[n] = local[n] /\ tracked'[n] = tracked[n]
    BY <1>2, <1>3, <1>5
  <2>. QED  BY <1>2, <1>4, <2>1, <2>2, ScopesMove
<1>6. CASE h = local[m] /\ tracked' = tracked
  <2>1. \A n \in Machines : local'[n] = local[n] /\ tracked'[n] = tracked[n]
    BY <1>2, <1>3, <1>6
  <2>. QED  BY <1>2, <1>4, <2>1, ScopesMove
<1>. QED  BY <1>1, <1>5, <1>6

(* A push, recorded or not: what is pushed is a head at one commit.         *)
LEMMA PushNames ==
    ASSUME IInv("stand"), IInv("stand")', NamedInv,
           Extends(commits', commits), NEW m \in Machines,
           NEW taken, \A s \in taken : s \in Pending(m), remote' = PushedTo(m, taken),
           UNCHANGED <<commits, local>>,
           \/ tracked' = tracked
           \/ tracked' = [tracked EXCEPT ![m] =
                            [s \in Scopes |-> IF s \in taken THEN remote'[s] ELSE @[s]]]
    PROVE  ScopesInv'
<1>1. ScopesInv /\ DOMAIN tracked = Machines
  BY DEF NamedInv, IInv, RepoInv
<1>2. ASSUME NEW s \in Scopes
      PROVE  /\ s \in taken => /\ IsOf(commits, remote'[s], s)
                               /\ IsHeadOf(commits, local[m][s], remote'[s], s)
             /\ s \notin taken => remote'[s] = remote[s]
  <2>1. remote'[s] = IF s \in taken THEN TheOne(local[m][s]) ELSE remote[s]
    BY DEF PushedTo
  <2>2. ASSUME s \in taken
        PROVE  IsOf(commits, remote'[s], s) /\ IsHeadOf(commits, local[m][s], remote'[s], s)
    <3>1. PICK c : IsOne(local[m][s], c)
      BY <2>2 DEF Pending
    <3>2. IsHeadOf(commits, local[m][s], tracked[m][s], s)
      BY <1>1 DEF ScopesInv
    <3>. QED  BY <2>1, <2>2, <3>1, <3>2, OneBesideAll
  <2>. QED  BY <2>1, <2>2
<1>3. /\ \A n \in Machines \ {m} : tracked'[n] = tracked[n]
      /\ \A s \in Scopes : \/ tracked'[m][s] = tracked[m][s]
                           \/ s \in taken /\ tracked'[m][s] = remote'[s]
  BY <1>1
<1>. QED  BY <1>1, <1>2, <1>3, ScopesMove

(* A pass, or a stop: what it made of the heads carries what they were.     *)
LEMMA ConvergeNames ==
    ASSUME IInv("stand"), IInv("stand")', NamedInv,
           Extends(commits', commits), NEW m \in Machines, ConvergeEnds(m)
    PROVE  ScopesInv'
<1>1. /\ remote' = remote /\ tracked' = tracked /\ pass # NoPass /\ pass.by = m
      /\ \/ local' = [local EXCEPT ![m] = pass.heads] /\ commits' = pass.commits
         \/ local' = local
  BY DEF ConvergeEnds, PassIsRecorded, PassEnds
<1>2. PassOK("stand", pass) /\ ScopesInv /\ DOMAIN local = Machines /\ IsHistory(commits)
  BY <1>1 DEF IInv, PassInv, NamedInv, RepoInv
<1>3. CASE local' = local
  BY <1>1, <1>2, <1>3, ScopesRest
<1>4. CASE local' = [local EXCEPT ![m] = pass.heads] /\ commits' = pass.commits
  <2>1. ASSUME NEW s \in Scopes
        PROVE  IsHeadOf(commits', pass.heads[s], tracked[m][s], s)
    <3>1. IsHead(commits, local[m][s]) /\ IsHeadOf(commits, local[m][s], tracked[m][s], s)
      BY <1>2 DEF IInv, RepoInv, ScopesInv
    <3>2. IsHead(commits', local[m][s]) /\ IsHeadOf(commits', local[m][s], tracked[m][s], s)
      <4>1. IsHeadOf(commits', local[m][s], tracked[m][s], s)
        BY <1>2, <3>1, IsHeadOfInMore
      <4>2. IsHead(commits', local[m][s])
        BY <3>1, PositionsGrow DEF IsHead
      <4>. QED  BY <4>1, <4>2
    <3>3. IsHistory(commits') /\ Carries("stand", commits', local[m][s], pass.heads[s])
      BY <1>1, <1>2, <1>4 DEF PassOK
    <3>. QED  BY <3>2, <3>3, CarriesIsHeadOf
  <2>2. local'[m] = pass.heads /\ \A n \in Machines \ {m} : local'[n] = local[n]
    BY <1>2, <1>4
  <2>. QED  BY <1>1, <1>2, <2>1, <2>2, ScopesMove
<1>. QED  BY <1>1, <1>3, <1>4

(* A resolution is written on a parent of the scope.                        *)
LEMMA ResolveNames ==
    ASSUME IInv("stand"), IInv("stand")', NamedInv,
           Extends(commits', commits), NEW m \in Machines, Resolve(m)
    PROVE  ScopesInv'
<1>. DEFINE c == record[m].commit
            id == <<m, written[m] + 1>>
<1>1. /\ AtStep(m, "resolve") /\ remote' = remote /\ tracked' = tracked
      /\ local' = [local EXCEPT ![m][c.scope] = At(id)]
      /\ id \in DOMAIN commits' /\ commits[c.parent].anc \subseteq commits'[id].anc
  BY DEF Resolve
<1>2. c # NoCommit
  BY <1>1, TheFirstStep DEF IInv, StepsFit
<1>3. /\ c.scope \in Scopes /\ c.parent \in DOMAIN commits /\ c.parent # Gone
      /\ DOMAIN local = Machines /\ DOMAIN local[m] = Scopes
  BY <1>2 DEF IInv, RecordInv, Records, Positions, RepoInv
<1>4. ScopesInv /\ IsOf(commits, c.parent, c.scope)
  BY <1>2 DEF NamedInv, RecordsNote
<1>. HIDE DEF id, c
<1>5. IsOf(commits', id, c.scope)
  BY <1>1, <1>3, <1>4 DEF IsOf, Extends, IInv, RepoInv, IsHistory
<1>6. id # Gone /\ id \in Positions(commits')
  BY <1>1, GoneIsNowhere DEF IInv, RepoInv, Positions
<1>7. IsHeadOf(commits', At(id), tracked[m][c.scope], c.scope)
  BY <1>5, <1>6, AtIsHeadOf
<1>8. /\ local'[m][c.scope] = At(id)
      /\ \A s \in Scopes \ {c.scope} : local'[m][s] = local[m][s]
      /\ \A n \in Machines \ {m} : local'[n] = local[n]
  BY <1>1, <1>3
<1>. QED  BY <1>1, <1>4, <1>7, <1>8, ScopesMove

(* An abort goes back to positions of the scopes.                           *)
LEMMA RestoreNames ==
    ASSUME IInv("stand"), IInv("stand")', NamedInv,
           Extends(commits', commits), NEW m \in Machines, Restore(m)
    PROVE  ScopesInv'
<1>. DEFINE back == record[m].checkpoint
            h == [s \in Scopes |-> IF s \in {t \in Scopes : back[t] # Gone}
                                   THEN At(back[s]) ELSE local[m][s]]
<1>1. /\ commits' = commits /\ remote' = remote /\ tracked' = tracked
      /\ local' = [local EXCEPT ![m] = h]
  BY DEF Restore
<1>2. /\ DOMAIN local = Machines /\ ScopesInv
      /\ \A s \in Scopes : back[s] \in Positions(commits) /\ IsOf(commits, back[s], s)
  BY DEF IInv, RepoInv, RecordInv, Records, NamedInv, RecordsNote
<1>3. \A s \in Scopes : \/ h[s] = At(back[s]) /\ back[s] # Gone
                        \/ h[s] = local[m][s]
  OBVIOUS
<1>. HIDE DEF h, back
<1>4. \A s \in Scopes : h[s] = local[m][s] \/ IsHeadOf(commits, h[s], tracked[m][s], s)
  BY <1>2, <1>3, AtIsHeadOf
<1>5. local'[m] = h /\ \A n \in Machines \ {m} : local'[n] = local[n]
  BY <1>1, <1>2
<1>. QED  BY <1>1, <1>2, <1>4, <1>5, ScopesMove

(* A scope's first commit creates it.                                       *)
LEMMA CreateNames ==
    ASSUME IInv("stand"), IInv("stand")', NamedInv,
           Extends(commits', commits), NEW m \in Machines, Create(m)
    PROVE  ScopesInv'
<1>. DEFINE s == run[m].edit.scope
            id == <<m, written[m] + 1>>
<1>1. /\ AtStep(m, "create") /\ remote' = remote /\ tracked' = tracked
      /\ \/ local' = local
         \/ /\ local' = [local EXCEPT ![m][s] = At(id)]
            /\ id \in DOMAIN commits' /\ commits'[id].creates = s
  BY DEF Create
<1>2. s \in Scopes
  BY <1>1, TheFirstStep DEF IInv, StepsFit
<1>3. DOMAIN local = Machines /\ DOMAIN local[m] = Scopes /\ ScopesInv
  BY DEF IInv, RepoInv, NamedInv
<1>. HIDE DEF s, id
<1>4. CASE local' = local
  BY <1>1, <1>3, <1>4, ScopesRest
<1>5. CASE /\ local' = [local EXCEPT ![m][s] = At(id)]
           /\ id \in DOMAIN commits' /\ commits'[id].creates = s
  <2>0. IsHistory(commits')
    BY DEF IInv, RepoInv
  <2>1. id \in commits'[id].anc /\ id # Gone /\ id \in Positions(commits')
    BY <1>5, <2>0, GoneIsNowhere DEF IsHistory, Positions
  <2>2. IsHeadOf(commits', At(id), tracked[m][s], s)
    BY <1>5, <2>1, AtIsHeadOf DEF IsOf
  <2>3. /\ local'[m][s] = At(id)
        /\ \A t \in Scopes \ {s} : local'[m][t] = local[m][t]
        /\ \A n \in Machines \ {m} : local'[n] = local[n]
    BY <1>2, <1>3, <1>5
  <2>. QED  BY <1>1, <1>3, <2>2, <2>3, ScopesMove
<1>. QED  BY <1>1, <1>4, <1>5

(* A deletion, on the remote, here, or on both.                             *)
LEMMA DeleteNames ==
    ASSUME IInv("stand"), IInv("stand")', NamedInv,
           Extends(commits', commits), NEW m \in Machines, Delete(m)
    PROVE  ScopesInv'
<1>. DEFINE s == run[m].edit.scope
<1>1. /\ AtStep(m, "delete")
      /\ remote' = [remote EXCEPT ![s] = Gone] \/ remote' = remote
      /\ \/ /\ local' = [local EXCEPT ![m][s] = At(Gone)]
            /\ tracked' = [tracked EXCEPT ![m][s] = Gone]
         \/ local' = local /\ tracked' = tracked
  BY DEF Delete
<1>2. s \in Scopes
  BY <1>1, TheFirstStep DEF IInv, StepsFit
<1>3. /\ DOMAIN local = Machines /\ DOMAIN local[m] = Scopes /\ ScopesInv
      /\ DOMAIN tracked = Machines /\ DOMAIN tracked[m] = Scopes /\ DOMAIN remote = Scopes
  BY DEF IInv, RepoInv, NamedInv
<1>. HIDE DEF s
<1>4. IsOf(commits', Gone, s) /\ IsHeadOf(commits', At(Gone), Gone, s)
  BY AtIsHeadOf DEF IsOf, Positions
<1>5. \A t \in Scopes : remote'[t] = remote[t] \/ (t = s /\ remote'[t] = Gone)
  BY <1>1, <1>3
<1>6. /\ \A n \in Machines \ {m} : local'[n] = local[n] /\ tracked'[n] = tracked[n]
      /\ \A t \in Scopes : \/ local'[m][t] = local[m][t] /\ tracked'[m][t] = tracked[m][t]
                           \/ t = s /\ local'[m][t] = At(Gone) /\ tracked'[m][t] = Gone
  BY <1>1, <1>2, <1>3
<1>. QED  BY <1>3, <1>4, <1>5, <1>6, ScopesMove

(* Every step leaves heads and branches the scopes'.                        *)
LEMMA StepNames ==
    ASSUME IInv("stand"), IInv("stand")', NamedInv, Extends(commits', commits), Next
    PROVE  ScopesInv'
<1>1. ASSUME NEW m \in Machines, PassStep(m)
      PROVE  ConvergeEnds(m) \/ UNCHANGED <<remote, local, tracked>>
  BY <1>1 DEF PassStep, ConvergeScope, Converges, CheckEnds, FindEnds, FoundNothing,
     ContinueSettlesHome, AbortFoundStop, ContinueFoundStop, repo
<1>2. ASSUME NEW m \in Machines, RunStep(m)
      PROVE  \/ Fetch(m) \/ Resolve(m) \/ Restore(m) \/ Create(m) \/ Delete(m)
             \/ Publish(m, {})
             \/ UNCHANGED <<remote, local, tracked>>
  BY <1>2 DEF RunStep, CheckRefuses, BeginPass, Transacts, Plan, Save, Forget, SyncHome, repo
<1>3. ASSUME NEW m \in Machines, Start(m)  PROVE UNCHANGED <<remote, local, tracked>>
  BY <1>3 DEF Start, StartRead, StartSync, StartAbort, StartCommit, StartDelete, StartCreate,
     StartJoin, StartContinue, Starts, repo
<1>4. ASSUME NEW m \in Machines, Fails(m)
      PROVE  \/ FetchUnreachable(m) \/ DiesAfterPush(m)
             \/ \E refused \in SUBSET Scopes : Publish(m, refused)
             \/ UNCHANGED <<remote, local, tracked>>
  BY <1>4 DEF Fails, PublishUnreachable, Crash, repo
<1>5. ASSUME NEW m \in Machines, NEW refused, Publish(m, refused)
      PROVE  ScopesInv'
  <2>. DEFINE taken == {s \in Pending(m) \ refused : Leased(m, s)}
  <2>1. /\ UNCHANGED <<commits, local>> /\ remote' = PushedTo(m, taken)
        /\ tracked' = [tracked EXCEPT ![m] =
                         [s \in Scopes |-> IF s \in taken THEN remote'[s] ELSE @[s]]]
        /\ \A s \in taken : s \in Pending(m)
    BY <1>5 DEF Publish
  <2>. HIDE DEF taken
  <2>. QED  BY <2>1, PushNames
<1>6. ASSUME NEW m \in Machines, DiesAfterPush(m)
      PROVE  ScopesInv'
  <2>. DEFINE taken == {s \in Pending(m) : Leased(m, s)}
  <2>1. /\ UNCHANGED <<commits, local>> /\ remote' = PushedTo(m, taken)
        /\ tracked' = tracked /\ \A s \in taken : s \in Pending(m)
    BY <1>6 DEF DiesAfterPush
  <2>. HIDE DEF taken
  <2>. QED  BY <2>1, PushNames
<1>7. UNCHANGED <<remote, local, tracked>> => ScopesInv'
  BY ScopesRest DEF NamedInv
<1>. QED  BY <1>1, <1>2, <1>3, <1>4, <1>5, <1>6, <1>7, ConvergeNames, FetchNames,
          ResolveNames, RestoreNames, CreateNames, DeleteNames DEF Next

-----------------------------------------------------------------------------
(* The steps that note positions. *)

(* Every run goes on with what it may note, or is not touched.              *)
LEMMA RunStepNotes ==
    ASSUME IInv("stand"), Next
    PROVE  \/ run' = run
           \/ \E m \in Machines : \E r : Goes(m, r) /\ r.checkpoint \in MayNote(m)
<1>. DEFINE Notes(m) == \E r : Goes(m, r) /\ r.checkpoint \in MayNote(m)
<1>1. ASSUME NEW m \in Machines  PROVE run[m] \in Runs(Positions(commits))
  BY DEF IInv, RunInv
<1>2. ASSUME NEW m \in Machines, RunEnds(m)  PROVE Notes(m)
  <2>1. Goes(m, Idle) /\ Idle.checkpoint \in MayNote(m)
    BY <1>2 DEF Goes, Idle, MayNote
  <2>. QED  BY <2>1
<1>3. ASSUME NEW m \in Machines, NEW steps, Goes(m, [run[m] EXCEPT !.steps = steps])
      PROVE  Notes(m)
  <2>. DEFINE r == [run[m] EXCEPT !.steps = steps]
  <2>1. r.checkpoint = run[m].checkpoint
    BY <1>1 DEF Runs
  <2>. QED  BY <1>3, <2>1 DEF MayNote
<1>4. ASSUME NEW m \in Machines, NEW k, NEW steps,
             Goes(m, [run[m] EXCEPT !.attempt = k, !.steps = steps])
      PROVE  Notes(m)
  <2>. DEFINE r == [run[m] EXCEPT !.attempt = k, !.steps = steps]
  <2>1. r.checkpoint = run[m].checkpoint
    BY <1>1 DEF Runs
  <2>. QED  BY <1>4, <2>1 DEF MayNote
<1>5. ASSUME NEW m \in Machines, NEW cmd, NEW steps, NEW edit, NEW values,
             Starts(m, cmd, steps, edit, values)
      PROVE  Notes(m)
  <2>. DEFINE r == [Idle EXCEPT !.cmd = cmd, !.steps = steps, !.edit = edit,
                                !.answer.values = values]
  <2>1. r.checkpoint = NoCheckpoint /\ Goes(m, r)
    BY <1>5 DEF Idle, Starts
  <2>. QED  BY <2>1 DEF MayNote
<1>6. ASSUME NEW m \in Machines, Start(m)  PROVE Notes(m)
  <2>1. \E cmd, steps, edit, values : Starts(m, cmd, steps, edit, values)
    BY <1>6 DEF Start, StartRead, StartSync, StartAbort, StartCommit, StartDelete, StartCreate,
       StartJoin, StartContinue
  <2>. QED  BY <1>5, <2>1
<1>7. ASSUME NEW m \in Machines, PassStep(m)  PROVE run' = run \/ Notes(m)
  <2>1. CASE \E s \in Scopes : ConvergeScope(s)
    BY <2>1 DEF ConvergeScope, Converges
  <2>2. CASE CheckEnds(m) \/ FoundNothing(m) \/ AbortFoundStop(m)
    BY <1>2, <1>3, <2>2 DEF CheckEnds, FoundNothing, AbortFoundStop, Advances
  <2>3. CASE ContinueSettlesHome(m)
    <3>. DEFINE r == [run[m] EXCEPT !.steps = <<"publish">>, !.checkpoint = Checkpoint(local[m])]
    <3>1. Goes(m, r) /\ r.checkpoint = Checkpoint(local[m])
      BY <1>1, <2>3 DEF ContinueSettlesHome, Runs
    <3>. QED  BY <3>1 DEF MayNote
  <2>4. CASE ContinueFoundStop(m)
    <3>. DEFINE saved == IF record[m].saved THEN record[m].checkpoint ELSE Checkpoint(local[m])
                steps == <<"converge", "forget", "publish", "home">>
                r == [run[m] EXCEPT !.steps = steps, !.answer.scope = pass.stop,
                                    !.checkpoint = saved]
    <3>1. Goes(m, r)
      BY <2>4 DEF ContinueFoundStop
    <3>2. saved \in MayNote(m)
      BY DEF MayNote
    <3>. HIDE DEF saved, steps
    <3>3. r.checkpoint = saved
      BY <1>1 DEF Runs
    <3>. QED  BY <3>1, <3>2, <3>3
  <2>5. CASE ConvergeEnds(m)
    <3>. DEFINE steps == IF pass.stop = NoScope THEN Tail(run[m].steps) ELSE <<"save">>
                r == [run[m] EXCEPT !.steps = steps, !.pins = NoPins, !.answer = NoAnswer]
    <3>1. Goes(m, r)
      BY <2>5 DEF ConvergeEnds, PassIsRecorded
    <3>. HIDE DEF steps
    <3>2. r.checkpoint = run[m].checkpoint
      BY <1>1 DEF Runs
    <3>. QED  BY <3>1, <3>2 DEF MayNote
  <2>. QED  BY <1>7, <2>1, <2>2, <2>3, <2>4, <2>5 DEF PassStep
<1>8. ASSUME NEW m \in Machines, NEW h, FetchInto(m, h)  PROVE Notes(m)
  <2>1. CASE Advances(m)
    BY <1>3, <2>1 DEF Advances
  <2>2. CASE ~Advances(m)
    <3>. DEFINE r == [run[m] EXCEPT !.steps = Tail(@), !.checkpoint = Checkpoint(h)]
    <3>1. Goes(m, r) /\ local' = [local EXCEPT ![m] = h]
      BY <1>8, <2>2 DEF FetchInto
    <3>2. local'[m] = h
      BY <3>1 DEF IInv, RepoInv
    <3>3. r.checkpoint = Checkpoint(local'[m])
      BY <1>1, <3>2 DEF Runs
    <3>. QED  BY <3>1, <3>3 DEF MayNote
  <2>. QED  BY <2>1, <2>2
<1>9. ASSUME NEW m \in Machines, NEW refused, Publish(m, refused)  PROVE Notes(m)
  <2>1. \/ Goes(m, [run[m] EXCEPT !.attempt = @ + 1, !.steps = <<"refetch", "converge">> \o @])
        \/ Goes(m, [run[m] EXCEPT !.attempt = 1, !.steps = Tail(@)])
    BY <1>9 DEF Publish
  <2>. QED  BY <1>4, <2>1
<1>10. ASSUME NEW m \in Machines, Plan(m)  PROVE Notes(m)
  <2>1. CASE RunEnds(m)
    BY <1>2, <2>1
  <2>2. CASE ~RunEnds(m)
    <3>. DEFINE e == run[m].edit
                pins == {[scope |-> e.scope, path |-> e.path,
                          holds |-> {ValueOf(EditMerge(m, e, TheOne(local[m][e.scope])))}]}
                r == [run[m] EXCEPT !.steps = Tail(@), !.pins = pins]
    <3>1. Goes(m, r)
      BY <1>10, <2>2 DEF Plan
    <3>. HIDE DEF pins, e
    <3>2. r.checkpoint = run[m].checkpoint
      BY <1>1 DEF Runs
    <3>. QED  BY <3>1, <3>2 DEF MayNote
  <2>. QED  BY <2>1, <2>2
<1>11. ASSUME NEW m \in Machines, Resolve(m)  PROVE Notes(m)
  <2>. DEFINE r == [run[m] EXCEPT !.steps = Tail(@), !.answer = NoAnswer,
                                  !.checkpoint = record[m].checkpoint]
  <2>1. Goes(m, r)
    BY <1>11 DEF Resolve
  <2>2. r.checkpoint = record[m].checkpoint
    BY <1>1 DEF Runs
  <2>. QED  BY <2>1, <2>2 DEF MayNote
<1>12. ASSUME NEW m \in Machines,
              \/ CheckRefuses(m) \/ BeginPass(m) \/ Save(m) \/ Restore(m) \/ Forget(m)
              \/ Create(m) \/ Delete(m) \/ SyncHome(m) \/ DiesAfterPush(m) \/ Crash(m)
       PROVE  run' = run \/ Notes(m)
  <2>1. run' = run \/ RunEnds(m) \/ Advances(m)
    BY <1>12 DEF CheckRefuses, BeginPass, Transacts, Save, Restore, Forget, Create, Delete,
       SyncHome, DiesAfterPush, Crash
  <2>. QED  BY <1>2, <1>3, <2>1 DEF Advances
<1>13. ASSUME NEW m \in Machines, PublishUnreachable(m)  PROVE Notes(m)
  BY <1>4, <1>13 DEF PublishUnreachable
<1>. HIDE DEF Notes
<1>14. ASSUME NEW m \in Machines, RunStep(m)  PROVE run' = run \/ Notes(m)
  BY <1>8, <1>9, <1>10, <1>11, <1>12, <1>14 DEF RunStep, Fetch
<1>15. ASSUME NEW m \in Machines, Fails(m)  PROVE run' = run \/ Notes(m)
  BY <1>8, <1>9, <1>12, <1>13, <1>15 DEF Fails, FetchUnreachable
<1>16. run' = run \/ \E m \in Machines : Notes(m)
  BY <1>6, <1>7, <1>14, <1>15 DEF Next
<1>. QED  BY <1>16 DEF Notes

(* A record notes what the run had noted, and the head a commit stopped at. *)
LEMMA RecordStepNotes ==
    ASSUME IInv("stand"), NamedInv, Extends(commits', commits), Next
    PROVE  RecordsNote'
<1>1. /\ IsHistory(commits) /\ record \in [Machines -> Records(Positions(commits))]
      /\ \A m \in Machines : run[m] \in Runs(Positions(commits))
  BY DEF IInv, RepoInv, RecordInv, RunInv
<1>2. ASSUME NEW m \in Machines, NEW c, record' = [record EXCEPT ![m] = c],
             commits' = commits, \A s \in Scopes : IsOf(commits, c.checkpoint[s], s),
             c.commit # NoCommit => IsOf(commits, c.commit.parent, c.commit.scope)
      PROVE  RecordsNote'
  <2>1. \A n \in Machines : record'[n] = IF n = m THEN c ELSE record[n]
    BY <1>1, <1>2
  <2>. QED  BY <1>2, <2>1 DEF NamedInv, RecordsNote
<1>3. CASE record' = record
  <2>1. ASSUME NEW m \in Machines, NEW s \in Scopes  PROVE IsOf(commits', record[m].checkpoint[s], s)
    BY <1>1, IsOfInMore DEF NamedInv, RecordsNote, Records
  <2>2. ASSUME NEW m \in Machines, record[m].commit # NoCommit
        PROVE  IsOf(commits', record[m].commit.parent, record[m].commit.scope)
    BY <1>1, <2>2, IsOfInMore DEF NamedInv, RecordsNote, Records
  <2>. QED  BY <1>3, <2>1, <2>2 DEF RecordsNote
<1>4. ASSUME NEW m \in Machines, Plan(m), record' # record  PROVE RecordsNote'
  <2>. DEFINE e == run[m].edit
              head == TheOne(local[m][e.scope])
              c == [saved |-> TRUE, checkpoint |-> run[m].checkpoint,
                    commit |-> [scope |-> e.scope, path |-> e.path, parent |-> head]]
  <2>1. /\ AtStep(m, "plan") /\ commits' = commits
        /\ record' = [record EXCEPT ![m] = c]
        /\ ~HasConflict(local[m][e.scope])
    BY <1>4 DEF Plan, repo
  <2>2. e.scope \in Scopes
    BY <2>1, TheFirstStep DEF IInv, StepsFit
  <2>3. /\ IsHead(commits, local[m][e.scope])
        /\ IsHeadOf(commits, local[m][e.scope], tracked[m][e.scope], e.scope)
    BY <2>2 DEF IInv, RepoInv, NamedInv, ScopesInv
  <2>4. head \in local[m][e.scope].sides
    BY <2>1, <2>3, HeadShape
  <2>5. /\ c.checkpoint = run[m].checkpoint
        /\ c.commit.parent = head /\ c.commit.scope = e.scope
    OBVIOUS
  <2>6. \A s \in Scopes : IsOf(commits, run[m].checkpoint[s], s)
    BY DEF NamedInv, RunsNote
  <2>. HIDE DEF c, e, head
  <2>7. IsOf(commits, head, e.scope)
    BY <2>3, <2>4 DEF IsHeadOf
  <2>. QED  BY <1>2, <2>1, <2>5, <2>6, <2>7
<1>5. ASSUME NEW m \in Machines, Save(m)  PROVE RecordsNote'
  <2>. DEFINE c == [saved |-> TRUE, checkpoint |-> run[m].checkpoint, commit |-> NoCommit]
  <2>1. commits' = commits /\ record' = [record EXCEPT ![m] = c]
    BY <1>5 DEF Save, repo
  <2>2. \A s \in Scopes : IsOf(commits, run[m].checkpoint[s], s)
    BY DEF NamedInv, RunsNote
  <2>3. c.checkpoint = run[m].checkpoint /\ c.commit = NoCommit
    OBVIOUS
  <2>. HIDE DEF c
  <2>. QED  BY <1>2, <2>1, <2>2, <2>3
<1>6. ASSUME NEW m \in Machines, Forget(m)  PROVE RecordsNote'
  <2>1. commits' = commits /\ record' = [record EXCEPT ![m] = NoRecord]
    BY <1>6 DEF Forget, repo
  <2>2. NoRecord.commit = NoCommit /\ \A s \in Scopes : NoRecord.checkpoint[s] = Gone
    BY DEF NoRecord, NoCheckpoint
  <2>. QED  BY <1>2, <2>1, <2>2 DEF IsOf
<1>7. record' = record \/ \E m \in Machines : Plan(m) \/ Save(m) \/ Forget(m)
  <2>1. PICK m \in Machines : PassStep(m) \/ RunStep(m) \/ Start(m) \/ Fails(m)
    BY DEF Next
  <2>2. PassStep(m) => record' = record
    BY DEF PassStep, ConvergeScope, Converges, CheckEnds, FindEnds, FoundNothing,
       ContinueSettlesHome, AbortFoundStop, ContinueFoundStop, ConvergeEnds, PassIsRecorded
  <2>3. RunStep(m) => record' = record \/ Plan(m) \/ Save(m) \/ Forget(m)
    BY DEF RunStep, Fetch, FetchInto, CheckRefuses, BeginPass, Transacts, Publish,
       Resolve, Restore, Create, Delete, SyncHome
  <2>4. Start(m) => record' = record
    BY DEF Start, StartRead, StartSync, StartAbort, StartCommit, StartDelete, StartCreate,
       StartJoin, StartContinue, Starts
  <2>5. Fails(m) => record' = record
    BY DEF Fails, FetchUnreachable, FetchInto, PublishUnreachable, DiesAfterPush, Publish, Crash
  <2>. QED  BY <2>1, <2>2, <2>3, <2>4, <2>5
<1>. QED  BY <1>3, <1>4, <1>5, <1>6, <1>7

-----------------------------------------------------------------------------
(* At the start every scope is at its creation, or nowhere.                 *)
LEMMA InitNames == Init => NamedInv
<1>. SUFFICES ASSUME Init PROVE NamedInv
  OBVIOUS
<1>1. RepoInv
  BY InitIInv DEF IInv
<1>2. ASSUME NEW s \in Scopes  PROVE IsOf(commits, remote[s], s) /\ remote[s] \in Positions(commits)
  <2>1. remote[s] # Gone => remote[s] = <<s, 0>> /\ s \in Founded
    BY DEF Init, Creation
  <2>2. s \in Founded => commits[<<s, 0>>].creates = s /\ <<s, 0>> \in DOMAIN commits
    BY DEF Init
  <2>3. remote[s] \in Positions(commits)
    BY <1>1 DEF RepoInv
  <2>. QED  BY <1>1, <2>1, <2>2, <2>3 DEF IsOf, RepoInv, IsHistory
<1>3. ASSUME NEW m \in Machines, NEW s \in Scopes
      PROVE  IsOf(commits, tracked[m][s], s) /\ IsHeadOf(commits, local[m][s], tracked[m][s], s)
  <2>1. local[m][s] = At(remote[s]) /\ tracked[m][s] = remote[s]
    BY DEF Init
  <2>. QED  BY <1>2, <2>1, AtIsHeadOf
<1>4. \A m \in Machines, s \in Scopes : run[m].checkpoint[s] = Gone /\ record[m].checkpoint[s] = Gone
  BY DEF Init, Idle, NoRecord, NoCheckpoint
<1>5. \A m \in Machines : record[m].commit = NoCommit
  BY DEF Init, NoRecord
<1>. QED  BY <1>2, <1>3, <1>4, <1>5 DEF NamedInv, ScopesInv, RunsNote, RecordsNote, IsOf

(* Every step keeps the heads, and all that is noted of them, the scopes'.  *)
LEMMA NextNames == IInv("stand") /\ IInv("stand")' /\ NamedInv /\ [Next]_vars => NamedInv'
<1>. SUFFICES ASSUME IInv("stand"), IInv("stand")', NamedInv, [Next]_vars  PROVE NamedInv'
  OBVIOUS
<1>1. CASE UNCHANGED vars
  BY <1>1 DEF vars, repo, NamedInv, ScopesInv, RunsNote, RecordsNote
<1>2. CASE Next
  <2>1. Extends(commits', commits)
    BY CommitsStay
  <2>2. ScopesInv' /\ RecordsNote'
    BY <1>2, <2>1, StepNames, RecordStepNotes
  <2>3. CASE run' = run
    <3>1. ASSUME NEW m \in Machines, NEW s \in Scopes
          PROVE  IsOf(commits', run[m].checkpoint[s], s)
      <4>1. IsHistory(commits) /\ run[m].checkpoint[s] \in Positions(commits)
        BY DEF IInv, RepoInv, RunInv, Runs
      <4>. QED  BY <2>1, <4>1, IsOfInMore DEF NamedInv, RunsNote
    <3>2. RunsNote'
      BY <2>3, <3>1 DEF RunsNote
    <3>. QED  BY <2>2, <3>2 DEF NamedInv
  <2>4. CASE \E m \in Machines : \E r : Goes(m, r) /\ r.checkpoint \in MayNote(m)
    BY <2>1, <2>2, <2>4, RunsNoteMore DEF NamedInv
  <2>. QED  BY <1>2, <2>3, <2>4, RunStepNotes
<1>. QED  BY <1>1, <1>2

(* Every position a machine or the remote has a scope at is the scope's.    *)
THEOREM ScopesAreNamed == Spec => [](IInv("stand") /\ NamedInv)
<1>1. Spec => []IInv("stand")
  BY Invariance
<1>. QED  BY <1>1, InitNames, NextNames, PTL DEF Spec

-----------------------------------------------------------------------------
(* A machine that status names no scope for, as contested or as not pushed, *)
(* has every scope, also one that is no scope to it, where it saw the       *)
(* remote: whatever died, was refused or went back before.                  *)
THEOREM CleanTheorem == Spec => []NothingUnpublishedReadsClean
<1>1. ASSUME IInv("stand"), NamedInv, NEW m \in Machines, NEW s \in Scopes,
             Diverged(m) = {}, Pending(m) = {}
      PROVE  local[m][s] = At(tracked[m][s])
  <2>. DEFINE t == local[m][s]
              seen == tracked[m][s]
  <2>1. IsHead(commits, t) /\ IsHeadOf(commits, t, seen, s)
    BY <1>1 DEF IInv, RepoInv, NamedInv, ScopesInv
  <2>2. ASSUME NEW c \in t.sides, c # Gone  PROVE s \in Members(m)
    <3>1. PICK d \in commits[c].anc : commits[d].creates = s
      BY <2>1, <2>2 DEF IsHeadOf, IsOf
    <3>2. c \in AddedIds(t) /\ s # NoScope
      BY <2>2, NamesAreTheScopes DEF AddedIds
    <3>3. s \in Created(commits, AddedIds(t))
      BY <3>1, <3>2 DEF Created, AncestorsOf
    <3>. QED  BY <3>3 DEF Members, MembersOf
  <2>3. ~HasConflict(t)
    <3>1. SUFFICES ASSUME HasConflict(t)  PROVE FALSE
      OBVIOUS
    <3>2. PICK c \in t.sides : c # Gone
      BY <2>1, <3>1 DEF IsHeadOf, Beside
    <3>. QED  BY <1>1, <2>2, <3>1, <3>2 DEF Diverged
  <2>4. PICK c : t.sides = {c}
    BY <2>1, <2>3, HeadShape
  <2>5. seen = c
    <3>1. CASE c = Gone
      BY <2>1, <2>4, <3>1 DEF IsHeadOf, Beside
    <3>2. CASE c # Gone
      <4>1. s \notin Pending(m)
        BY <1>1
      <4>2. s \in Members(m)
        BY <2>2, <2>4, <3>2
      <4>. QED  BY <2>4, <3>2, <4>1, <4>2 DEF Pending, AddedIds, IsOne
    <3>. QED  BY <3>1, <3>2
  <2>6. t = [sides |-> {seen}, base |-> Gone]
    BY <2>1, <2>3, <2>4, <2>5 DEF IsHeadOf, Beside
  <2>. QED  BY <2>6 DEF At
<1>2. IInv("stand") /\ NamedInv => NothingUnpublishedReadsClean
  BY <1>1 DEF NothingUnpublishedReadsClean
<1>. QED  BY <1>2, ScopesAreNamed, PTL

-----------------------------------------------------------------------------
(* What a pass has reached so far.  The scopes to come are the rest of the  *)
(* cascade order, at the heads the machine has; every other scope of the    *)
(* graph is passed; and a pass that says it moved nothing has moved nothing *)
(* that recording it would record.                                          *)
ToCome(p) == {p.todo[i] : i \in 1..Len(p.todo)}

(* A scope it has passed: deleted, or at one commit that holds what it held *)
(* and what its parents do.                                                 *)
Passed(p, s) ==
    \/ p.heads[s] = At(Gone) /\ DeletedOnOneSide(local[p.by][s])
    \/ \E c \in DOMAIN p.commits :
          /\ p.heads[s].sides = {c}
          /\ AddedIds(local[p.by][s]) \subseteq p.commits[c].anc
          /\ \A t \in p.parents[s] : AddedIds(p.heads[t]) \subseteq p.commits[c].anc

(* todo is what is left of an order after its first k. *)
IsRest(todo, order, k) ==
    k + Len(todo) = Len(order) /\ \A i \in 1..Len(todo) : todo[i] = order[i + k]

ReachOK(p) ==
    /\ p.parents = Parents(p.by)
    /\ \E k \in Nat : IsRest(p.todo, CascadeOrder(p.parents), k)
    /\ \A s \in ToCome(p) : p.heads[s] = local[p.by][s]
    /\ \A s \in DOMAIN p.parents \ ToCome(p) : Passed(p, s)
    /\ ~p.moved => p.commits = commits
                   /\ \A s \in Scopes : p.heads[s].sides = local[p.by][s].sides

ReachInv == (pass # NoPass /\ AtStep(pass.by, "converge")) => ReachOK(pass)

(* The parents of a scope that is next, or passed, are passed. *)
LEMMA ParentsComeFirst ==
    ASSUME NEW del, NEW p, PassOK(del, p), ReachOK(p), NEW s \in DOMAIN p.parents,
           s \notin ToCome(p) \/ (p.todo # <<>> /\ s = p.todo[1])
    PROVE  \A t \in p.parents[s] : t \in DOMAIN p.parents /\ t \notin ToCome(p) /\ t # s
<1>. DEFINE P == p.parents
            order == CascadeOrder(P)
            todo == p.todo
<1>1. IsFiniteSet(DOMAIN P) /\ IsDag(P) /\ \A t \in P[s] : t \in DOMAIN P
  <2>1. DOMAIN P \in SUBSET Scopes /\ IsDag(P)
    BY DEF PassOK
  <2>2. IsFiniteSet(DOMAIN P)
    BY <2>1, FS_Subset, NamesAreTheScopes
  <2>3. P = Parents(p.by)
    BY DEF ReachOK
  <2>. QED  BY <2>1, <2>2, <2>3, MembersHaveHeads
<1>2. /\ order \in Seq(DOMAIN P) /\ GoesDown(P, order)
      /\ \A t \in DOMAIN P : \E i \in 1..Len(order) : order[i] = t
      /\ \A i, j \in 1..Len(order) : order[i] = order[j] => i = j
  BY <1>1, EveryScopeHasItsTurn DEF IsDag
<1>3. PICK k \in Nat : IsRest(todo, order, k)
  BY DEF ReachOK
<1>4. todo \in Seq(DOMAIN P)
  BY DEF PassOK
<1>. HIDE DEF P, order, todo
<1>5. /\ Len(todo) \in Nat /\ Len(order) \in Nat /\ k + Len(todo) = Len(order)
      /\ \A i \in 1..Len(todo) : todo[i] = order[i + k] /\ i + k \in 1..Len(order)
  <2>1. Len(todo) \in Nat /\ Len(order) \in Nat
    BY <1>2, <1>4
  <2>2. k + Len(todo) = Len(order) /\ \A i \in 1..Len(todo) : todo[i] = order[i + k]
    BY <1>3 DEF IsRest
  <2>3. ASSUME NEW i \in 1..Len(todo)  PROVE i + k \in 1..Len(order)
    BY <2>1, <2>2
  <2>. QED  BY <2>1, <2>2, <2>3
<1>6. \A i \in 1..Len(order) : i > k => i - k \in 1..Len(todo) /\ order[i] = todo[i - k]
  BY <1>5
<1>7. \A i \in 1..Len(order) : order[i] \in {todo[j] : j \in 1..Len(todo)} <=> i > k
  <2>. TAKE i \in 1..Len(order)
  <2>1. ASSUME NEW j \in 1..Len(todo), order[i] = todo[j]  PROVE i > k
    BY <1>2, <1>5, <2>1
  <2>2. ASSUME i > k  PROVE \E j \in 1..Len(todo) : order[i] = todo[j]
    BY <1>6, <2>2
  <2>. QED  BY <2>1, <2>2
<1>8. PICK i \in 1..Len(order) : order[i] = s
  BY <1>2 DEF P
<1>9. i <= k + 1
  <2>1. CASE s \notin ToCome(p)
    <3>1. s \notin {todo[j] : j \in 1..Len(todo)}
      BY <2>1 DEF ToCome, todo
    <3>2. ~(i > k)
      BY <1>7, <1>8, <3>1
    <3>. QED  BY <1>5, <3>2
  <2>2. CASE p.todo # <<>> /\ s = p.todo[1]
    <3>1. 1 \in 1..Len(todo) /\ s = todo[1]
      BY <1>4, <2>2 DEF todo
    <3>2. s = order[1 + k] /\ 1 + k \in 1..Len(order)
      BY <1>5, <3>1
    <3>. QED  BY <1>2, <1>8, <3>2
  <2>. QED  BY <2>1, <2>2
<1>. SUFFICES ASSUME NEW t \in P[s]  PROVE t \in DOMAIN P /\ t \notin ToCome(p) /\ t # s
  BY DEF P
<1>10. PICK j \in 1..Len(order) : order[j] = t
  BY <1>1, <1>2
<1>11. j < i
  BY <1>2, <1>8, <1>10 DEF GoesDown
<1>12. ~(j > k) /\ t # s
  BY <1>5, <1>8, <1>9, <1>10, <1>11, <1>2
<1>13. t \notin {todo[h] : h \in 1..Len(todo)}
  BY <1>7, <1>10, <1>12
<1>. QED  BY <1>1, <1>12, <1>13 DEF ToCome, todo

(* A scope the pass has nothing to do at holds what its parents do.         *)
LEMMA AtRestIsPassed ==
    ASSUME NEW del, NEW p, PassOK(del, p), NEW s \in DOMAIN p.parents,
           p.heads[s] = local[p.by][s], AtRest(p, s)
    PROVE  Passed(p, s)
<1>1. AddedIds(p.heads[s]) # {}
  BY DEF PassOK
<1>2. /\ Inputs(p, s) \subseteq DOMAIN p.commits
      /\ \A t \in {s} \cup p.parents[s] : \A c \in AddedIds(p.heads[t]) :
            \E d \in Inputs(p, s) : c \in p.commits[d].anc
  BY InputsReach
<1>3. PICK c : IsOne(p.heads[s], c) /\ Inputs(p, s) = {c}
  BY <1>1, <1>2 DEF AtRest
<1>4. \A t \in {s} \cup p.parents[s] : AddedIds(p.heads[t]) \subseteq p.commits[c].anc
  BY <1>2, <1>3
<1>. QED  BY <1>2, <1>3, <1>4 DEF Passed, IsOne

(* With what is left cut short, a pass has still reached what it has: all   *)
(* that is cut off is passed.                                               *)
LEMMA CutShortReaches ==
    ASSUME NEW p, IsPass(p), ReachOK(p), p.todo \in Seq(DOMAIN p.parents),
           NEW k \in 0..Len(p.todo), NEW t, 
           t = IF k = Len(p.todo) THEN <<>> ELSE SubSeq(p.todo, k + 1, Len(p.todo)),
           \A i \in 1..k : Passed(p, p.todo[i])
    PROVE  ReachOK([p EXCEPT !.todo = t])
<1>. DEFINE q == [p EXCEPT !.todo = t]
            todo == p.todo
<1>1. /\ q.by = p.by /\ q.heads = p.heads /\ q.parents = p.parents
      /\ q.todo = t /\ q.moved = p.moved /\ q.commits = p.commits
  BY DEF IsPass
<1>. HIDE DEF q
<1>2. Len(todo) \in Nat /\ k \in Nat /\ k <= Len(todo)
  OBVIOUS
<1>3. /\ Len(t) = Len(todo) - k
      /\ \A i \in 1..Len(t) : t[i] = todo[i + k] /\ i + k \in 1..Len(todo)
  <2>1. CASE k = Len(todo)
    BY <1>2, <2>1
  <2>2. CASE k # Len(todo)
    <3>1. k + 1 \in 1..Len(todo) /\ t = SubSeq(todo, k + 1, Len(todo))
      BY <1>2, <2>2
    <3>2. /\ Len(t) = Len(todo) - (k + 1) + 1
          /\ \A i \in 1..Len(t) : t[i] = todo[(k + 1) + i - 1]
      BY <3>1, RestOfSequence
    <3>3. Len(t) = Len(todo) - k
      BY <1>2, <3>2
    <3>4. ASSUME NEW i \in 1..Len(t)  PROVE t[i] = todo[i + k] /\ i + k \in 1..Len(todo)
      <4>1. (k + 1) + i - 1 = i + k
        BY <1>2
      <4>. QED  BY <1>2, <3>2, <3>3, <4>1
    <3>. QED  BY <3>3, <3>4
  <2>. QED  BY <2>1, <2>2
<1>4. \E n \in Nat : IsRest(t, CascadeOrder(p.parents), n)
  <2>1. PICK n \in Nat : IsRest(todo, CascadeOrder(p.parents), n)
    BY DEF ReachOK
  <2>2. (n + k) + Len(t) = Len(CascadeOrder(p.parents)) /\ n + k \in Nat
    <3>1. n + Len(todo) = Len(CascadeOrder(p.parents))
      BY <2>1 DEF IsRest
    <3>2. (n + k) + (Len(todo) - k) = n + Len(todo) /\ n + k \in Nat
      <4>. HIDE DEF todo
      <4>. QED  BY <1>2
    <3>. QED  BY <1>3, <3>1, <3>2
  <2>3. ASSUME NEW i \in 1..Len(t)  PROVE t[i] = CascadeOrder(p.parents)[i + (n + k)]
    <3>1. t[i] = CascadeOrder(p.parents)[(i + k) + n]
      BY <1>3, <2>1 DEF IsRest
    <3>2. (i + k) + n = i + (n + k)
      BY <1>2
    <3>. QED  BY <3>1, <3>2
  <2>4. IsRest(t, CascadeOrder(p.parents), n + k)
    BY <2>2, <2>3 DEF IsRest
  <2>. QED  BY <2>2, <2>4
<1>5. ToCome(q) \subseteq ToCome(p)
  BY <1>1, <1>3 DEF ToCome
<1>6. ASSUME NEW s \in ToCome(p), s \notin ToCome(q)  PROVE Passed(p, s)
  <2>1. PICK i \in 1..Len(todo) : s = todo[i]
    BY DEF ToCome
  <2>2. CASE i <= k
    BY <1>2, <2>1, <2>2
  <2>3. CASE i > k
    <3>1. i - k \in 1..Len(t) /\ (i - k) + k = i
      BY <1>2, <1>3, <2>3
    <3>2. t[i - k] = s
      BY <1>3, <2>1, <3>1
    <3>. QED  BY <1>1, <1>6, <3>1, <3>2 DEF ToCome
  <2>. QED  BY <1>2, <2>2, <2>3
<1>7. \A s : Passed(p, s) => Passed(q, s)
  BY <1>1 DEF Passed
<1>8. ReachOK(q)
  BY <1>1, <1>4, <1>5, <1>6, <1>7 DEF ReachOK
<1>. QED  BY <1>8 DEF q

(* A pass that goes on to the next scope due has reached what it passes.    *)
LEMMA GoesOnReaches ==
    ASSUME NEW del, NEW p, PassOK(del, p), ReachOK(p), PassGoesOn(p), UNCHANGED repo
    PROVE  ReachOK(pass)'
<1>. DEFINE due == {i \in 1..Len(p.todo) : ~AtRest(p, p.todo[i])}
            k == CHOOSE i \in due : \A j \in due : i <= j
            n == IF due = {} THEN Len(p.todo) ELSE k - 1
            t == IF due = {} THEN <<>> ELSE SubSeq(p.todo, k, Len(p.todo))
<1>1. pass' = [p EXCEPT !.todo = t]
  BY DEF PassGoesOn
<1>2. p.todo \in Seq(DOMAIN p.parents) /\ Len(p.todo) \in Nat /\ due \in SUBSET Nat /\ IsPass(p)
  BY DEF PassOK
<1>3. due # {} => k \in due /\ \A j \in due : k <= j
  <2>. HIDE DEF due
  <2>1. due # {} => \E i \in due : \A j \in due : i <= j
    BY <1>2, LeastNumber
  <2>. QED  BY <2>1
<1>4. due # {} => k \in 1..Len(p.todo)
  BY <1>3
<1>. HIDE DEF k
<1>5. n \in 0..Len(p.todo)
  BY <1>2, <1>4
<1>6. t = IF n = Len(p.todo) THEN <<>> ELSE SubSeq(p.todo, n + 1, Len(p.todo))
  <2>1. CASE due = {}
    BY <2>1
  <2>2. CASE due # {}
    <3>1. t = SubSeq(p.todo, k, Len(p.todo)) /\ n = k - 1
      BY <2>2
    <3>. HIDE DEF t, n, due
    <3>2. n # Len(p.todo) /\ n + 1 = k
      BY <1>2, <1>4, <2>2, <3>1
    <3>. QED  BY <3>1, <3>2
  <2>. QED  BY <2>1, <2>2
<1>7. ASSUME NEW i \in 1..n  PROVE Passed(p, p.todo[i])
  <2>1. i \in 1..Len(p.todo) /\ i \notin due
    <3>1. CASE due = {}
      BY <1>2, <3>1
    <3>2. CASE due # {}
      <4>1. n = k - 1 /\ k \in 1..Len(p.todo) /\ i < k
        BY <1>2, <1>4, <3>2
      <4>. QED  BY <1>2, <1>3, <3>2, <4>1
    <3>. QED  BY <3>1, <3>2
  <2>2. AtRest(p, p.todo[i])
    BY <2>1
  <2>3. p.todo[i] \in DOMAIN p.parents /\ p.heads[p.todo[i]] = local[p.by][p.todo[i]]
    BY <1>2, <2>1 DEF ReachOK, ToCome
  <2>. QED  BY <2>2, <2>3, AtRestIsPassed
<1>. HIDE DEF n, t, due
<1>8. ReachOK([p EXCEPT !.todo = t])
  BY <1>2, <1>5, <1>6, <1>7, CutShortReaches
<1>9. commits' = commits /\ local' = local
  BY DEF repo
<1>10. ReachOK(pass')
  BY <1>1, <1>8
<1>. QED  BY <1>9, <1>10 DEF ReachOK, Passed, Parents

(* What a pass has reached it has reached still while no head moves.        *)
LEMMA ReachRests ==
    ASSUME UNCHANGED <<commits, local>>, ReachOK(pass')
    PROVE  ReachOK(pass)'
BY DEF ReachOK, Passed, Parents

(* The turn of the next scope passes it, and no other.                      *)
LEMMA NextHeadReaches ==
    ASSUME NEW del, NEW s, NEW u, NEW H, NEW w, NEW q, PassOK(del, pass), ReachOK(pass),
           pass.todo # <<>>, s = Head(pass.todo), Turns(del, q, s, u, H, w)
    PROVE  ReachOK(q)
<1>. DEFINE P == pass.parents
            todo == pass.todo
            b == pass.by
            rest == Tail(todo)
<1>1. /\ q.by = b /\ q.heads = [pass.heads EXCEPT ![s] = u] /\ q.parents = P
      /\ q.todo = rest /\ q.commits = H /\ Extends(H, pass.commits)
      /\ ~q.moved => ~pass.moved /\ H = pass.commits /\ u.sides = pass.heads[s].sides
  BY DEF Turns, Moves
<1>2. /\ todo \in Seq(DOMAIN P) /\ todo # <<>> /\ s = Head(todo)
      /\ \A i, j \in 1..Len(todo) : todo[i] = todo[j] => i = j
      /\ DOMAIN P \subseteq Scopes /\ DOMAIN pass.heads = Scopes
      /\ IsHistory(pass.commits)
      /\ \A t \in Scopes : IsHead(pass.commits, pass.heads[t])
  BY DEF PassOK
<1>3. /\ P = Parents(b) /\ \A t \in ToCome(pass) : pass.heads[t] = local[b][t]
      /\ \A t \in DOMAIN P \ ToCome(pass) : Passed(pass, t)
  BY DEF ReachOK
<1>4. /\ Len(rest) = Len(todo) - 1 /\ Len(todo) \in Nat
      /\ \A i \in 1..Len(rest) : rest[i] = todo[i + 1] /\ i + 1 \in 1..Len(todo)
      /\ s = todo[1] /\ s \in DOMAIN P /\ 1 \in 1..Len(todo)
  <2>. HIDE DEF todo
  <2>1. /\ Head(todo) \in DOMAIN P
        /\ Len(Tail(todo)) = Len(todo) - 1 /\ Len(todo) \in Nat
        /\ \A i \in 1..Len(Tail(todo)) : Tail(todo)[i] = todo[i + 1]
    BY <1>2, HeadTailProperties
  <2>2. Head(todo) = todo[1] /\ 1 \in 1..Len(todo)
    BY <1>2
  <2>. QED  BY <1>2, <2>1, <2>2
<1>5. \E k \in Nat : IsRest(rest, CascadeOrder(P), k)
  <2>1. PICK k \in Nat : IsRest(todo, CascadeOrder(P), k)
    BY DEF ReachOK
  <2>2. (k + 1) + Len(rest) = Len(CascadeOrder(P)) /\ k + 1 \in Nat
    <3>1. k + Len(todo) = Len(CascadeOrder(P))
      BY <2>1 DEF IsRest
    <3>. HIDE DEF todo, rest
    <3>2. (k + 1) + (Len(todo) - 1) = k + Len(todo)
      BY <1>4
    <3>3. Len(rest) = Len(todo) - 1
      BY <1>4
    <3>. QED  BY <3>1, <3>2, <3>3
  <2>3. ASSUME NEW i \in 1..Len(rest)  PROVE rest[i] = CascadeOrder(P)[i + (k + 1)]
    <3>1. rest[i] = CascadeOrder(P)[(i + 1) + k]
      BY <1>4, <2>1 DEF IsRest
    <3>2. (i + 1) + k = i + (k + 1)
      BY <1>4
    <3>. QED  BY <3>1, <3>2
  <2>4. IsRest(rest, CascadeOrder(P), k + 1)
    BY <2>2, <2>3 DEF IsRest
  <2>. QED  BY <2>2, <2>4
<1>6. s \in ToCome(pass) /\ s \notin ToCome(q)
  <2>1. ASSUME NEW i \in 1..Len(rest), rest[i] = s  PROVE FALSE
    <3>1. todo[i + 1] = todo[1] /\ i + 1 \in 1..Len(todo) /\ i + 1 # 1
      BY <1>4, <2>1
    <3>. HIDE DEF todo, rest
    <3>. QED  BY <1>2, <1>4, <3>1
  <2>. QED  BY <1>1, <1>4, <2>1 DEF ToCome
<1>7. ASSUME NEW t  PROVE t \in ToCome(pass) <=> (t = s \/ t \in ToCome(q))
  <2>1. ASSUME NEW i \in 1..Len(todo), t = todo[i], i # 1
        PROVE  \E j \in 1..Len(rest) : t = rest[j]
    <3>1. i - 1 \in 1..Len(rest) /\ (i - 1) + 1 = i
      BY <1>4, <2>1
    <3>. QED  BY <1>4, <2>1, <3>1
  <2>2. t \in ToCome(q) => t \in ToCome(pass)
    BY <1>1, <1>4 DEF ToCome
  <2>3. t \in ToCome(pass) => t = s \/ t \in ToCome(q)
    BY <1>1, <1>4, <2>1 DEF ToCome
  <2>. QED  BY <1>6, <2>2, <2>3
<1>. HIDE DEF P, todo, rest
<1>8. \A t \in Scopes : q.heads[t] = IF t = s THEN u ELSE pass.heads[t]
  BY <1>1, <1>2
<1>9. s \in Scopes
  BY <1>2, <1>4
<1>10. \A t \in ToCome(q) : q.heads[t] = local[b][t]
  <2>. TAKE t \in ToCome(q)
  <2>1. t \in ToCome(pass) /\ t # s
    BY <1>6, <1>7
  <2>2. t \in Scopes
    BY <1>2, <2>1 DEF ToCome, todo
  <2>. QED  BY <1>3, <1>8, <2>1, <2>2
<1>11. ASSUME NEW t \in DOMAIN P, t \notin ToCome(q)  PROVE Passed(q, t)
  <2>1. \A v \in P[t] : v \in Scopes /\ q.heads[v] = pass.heads[v]
    <3>1. t \notin ToCome(pass) \/ (pass.todo # <<>> /\ t = pass.todo[1])
      BY <1>4, <1>7, <1>11 DEF todo
    <3>2. \A v \in P[t] : v \in DOMAIN P /\ v \notin ToCome(pass)
      BY <1>11, <3>1, ParentsComeFirst DEF P
    <3>. QED  BY <1>2, <1>6, <1>8, <3>2
  <2>2. CASE t = s
    <3>1. q.heads[s] = u /\ pass.heads[s] = local[b][s]
      BY <1>3, <1>6, <1>8, <1>9
    <3>2. CASE u = At(Gone) /\ DeletedOnOneSide(pass.heads[s])
      BY <1>1, <2>2, <3>1, <3>2 DEF Passed
    <3>3. ASSUME NEW c \in DOMAIN H, u = At(c),
                 \A v \in {s} \cup P[s] : AddedIds(pass.heads[v]) \subseteq H[c].anc
          PROVE  Passed(q, t)
      <4>1. q.heads[s].sides = {c}
        BY <3>1, <3>3 DEF At
      <4>2. \A v \in P[s] : AddedIds(q.heads[v]) \subseteq H[c].anc
        BY <2>1, <2>2, <3>3
      <4>3. AddedIds(local[b][s]) \subseteq H[c].anc
        BY <3>1, <3>3
      <4>. QED  BY <1>1, <2>2, <4>1, <4>2, <4>3 DEF Passed
    <3>. QED  BY <3>2, <3>3 DEF Turns, P
  <2>3. CASE t # s
    <3>1. Passed(pass, t) /\ q.heads[t] = pass.heads[t]
      BY <1>2, <1>3, <1>7, <1>8, <1>11, <2>3
    <3>2. CASE pass.heads[t] = At(Gone) /\ DeletedOnOneSide(local[b][t])
      BY <1>1, <3>1, <3>2 DEF Passed
    <3>3. ASSUME NEW c \in DOMAIN pass.commits,
                 /\ pass.heads[t].sides = {c}
                 /\ AddedIds(local[b][t]) \subseteq pass.commits[c].anc
                 /\ \A v \in P[t] : AddedIds(pass.heads[v]) \subseteq pass.commits[c].anc
          PROVE  Passed(q, t)
      <4>1. c \in DOMAIN H /\ H[c] = pass.commits[c]
        BY <1>1 DEF Extends
      <4>. QED  BY <1>1, <2>1, <3>1, <3>3, <4>1 DEF Passed
    <3>. QED  BY <3>1, <3>2, <3>3 DEF Passed, P
  <2>. QED  BY <2>2, <2>3
<1>12. ASSUME ~q.moved
       PROVE  q.commits = commits /\ \A t \in Scopes : q.heads[t].sides = local[b][t].sides
  <2>1. /\ pass.commits = commits
        /\ \A t \in Scopes : pass.heads[t].sides = local[b][t].sides
    BY <1>1, <1>12 DEF ReachOK
  <2>2. H = pass.commits /\ u.sides = pass.heads[s].sides
    BY <1>1, <1>12
  <2>. QED  BY <1>1, <1>8, <1>9, <2>1, <2>2
<1>. QED  BY <1>1, <1>3, <1>5, <1>10, <1>11, <1>12 DEF ReachOK

(* A pass that is at a scope has reached what it has after the scope's turn. *)
LEMMA ConvergeScopeReaches ==
    ASSUME NEW del, IInv(del), NEW s \in Scopes, ConvergeScope(s)
    PROVE  pass'.by = pass.by /\ (ReachOK(pass) => ReachOK(pass)')
<1>1. /\ pass # NoPass /\ pass.todo # <<>> /\ s = Head(pass.todo) /\ UNCHANGED repo
  BY DEF ConvergeScope, Converges
<1>2. PassOK(del, pass) /\ RepoInv
  BY <1>1 DEF IInv, PassInv
<1>3. ASSUME NEW q, NEW u, NEW H, NEW w, Turns(del, q, s, u, H, w), PassGoesOn(q)
      PROVE  pass'.by = pass.by /\ (ReachOK(pass) => ReachOK(pass)')
  <2>1. PassOK(del, q)
    BY <1>1, <1>2, <1>3, NextHeadMoves DEF Turns
  <2>2. ReachOK(pass) => ReachOK(q)
    BY <1>1, <1>2, <1>3, NextHeadReaches
  <2>3. pass'.by = pass.by
    BY <1>3 DEF PassGoesOn, Turns, Moves, IsPass
  <2>. QED  BY <1>1, <1>3, <2>1, <2>2, <2>3, GoesOnReaches
<1>4. CASE pass' = [pass EXCEPT !.stop = s]
  <2>. DEFINE q == [pass EXCEPT !.stop = s]
  <2>1. /\ q.by = pass.by /\ q.heads = pass.heads /\ q.parents = pass.parents
        /\ q.todo = pass.todo /\ q.moved = pass.moved /\ q.commits = pass.commits
    BY <1>2 DEF PassOK, IsPass
  <2>2. pass' = q /\ commits' = commits /\ local' = local
    BY <1>1, <1>4 DEF repo
  <2>. HIDE DEF q
  <2>3. ReachOK(pass) => ReachOK(q)
    <3>1. \A t : Passed(pass, t) => Passed(q, t)
      BY <2>1 DEF Passed
    <3>. QED  BY <2>1, <3>1 DEF ReachOK, ToCome
  <2>4. pass'.by = pass.by /\ (ReachOK(pass) => ReachOK(pass'))
    BY <2>1, <2>2, <2>3
  <2>. QED  BY <2>2, <2>4, ReachRests
<1>. QED  BY <1>3, <1>4, ScopeTurns

(* A pass that begins has all the scopes of its graph to come.              *)
LEMMA TransactsReaches ==
    ASSUME NEW del, IInv(del), NEW m \in Machines, Transacts(m), IsDag(Parents(m))
    PROVE  ReachOK(pass)'
<1>. DEFINE order == CascadeOrder(Parents(m))
            p == [by |-> m, heads |-> local[m], before |-> local[m],
                  parents |-> Parents(m), todo |-> order, moved |-> FALSE,
                  stop |-> NoScope, commits |-> commits, written |-> written[m]]
<1>1. PassGoesOn(p) /\ UNCHANGED repo
  BY DEF Transacts
<1>2. PassOK(del, p)
  BY PassBegins
<1>3. IsFiniteSet(DOMAIN Parents(m))
  BY MembersHaveHeads, FS_Subset, NamesAreTheScopes
<1>4. /\ order \in Seq(DOMAIN Parents(m))
      /\ \A s \in DOMAIN Parents(m) : \E i \in 1..Len(order) : order[i] = s
  BY <1>3, EveryScopeHasItsTurn
<1>. HIDE DEF order
<1>5. /\ p.by = m /\ p.heads = local[m] /\ p.parents = Parents(m) /\ p.todo = order
      /\ p.moved = FALSE /\ p.commits = commits
  OBVIOUS
<1>. HIDE DEF p
<1>6. IsRest(order, CascadeOrder(Parents(m)), 0)
  BY <1>4 DEF IsRest, order
<1>7. DOMAIN Parents(m) \subseteq ToCome(p)
  BY <1>4, <1>5 DEF ToCome
<1>8. ReachOK(p)
  BY <1>5, <1>6, <1>7 DEF ReachOK
<1>. QED  BY <1>1, <1>2, <1>8, GoesOnReaches

(* A pass that begins has reached what it has, or the graph was refused.    *)
LEMMA BeginsReaching ==
    ASSUME NEW del, IInv(del), pass = NoPass, NEW m \in Machines, Transacts(m)
    PROVE  ReachInv'
<1>1. CASE IsDag(Parents(m))
  BY <1>1, TransactsReaches DEF ReachInv
<1>2. CASE ~IsDag(Parents(m))
  BY <1>2 DEF Transacts, ReachInv
<1>. QED  BY <1>1, <1>2

(* Every step of the fleet keeps that of a pass that converges.             *)
LEMMA NextReaches ==
    ASSUME NEW del, IInv(del), ReachInv, [Next]_vars
    PROVE  ReachInv'
<1>1. CASE UNCHANGED vars
  <2>1. pass' = pass /\ run' = run /\ UNCHANGED <<commits, local>>
    BY <1>1 DEF vars, repo
  <2>2. pass # NoPass /\ AtStep(pass.by, "converge") => ReachOK(pass')
    BY <2>1 DEF ReachInv
  <2>. QED  BY <2>1, <2>2, ReachRests DEF ReachInv, AtStep
<1>2. ASSUME NEW m \in Machines, PassStep(m)  PROVE ReachInv'
  <2>1. ASSUME NEW s \in Scopes, ConvergeScope(s)  PROVE ReachInv'
    <3>1. pass'.by = pass.by /\ (ReachOK(pass) => ReachOK(pass)')
      BY <2>1, ConvergeScopeReaches
    <3>2. pass # NoPass /\ run' = run
      BY <2>1 DEF ConvergeScope, Converges
    <3>. QED  BY <3>1, <3>2 DEF ReachInv, AtStep
  <2>2. ASSUME NEW step, PassEnds(m, step)  PROVE ReachInv'
    BY <2>2 DEF PassEnds, ReachInv
  <2>. QED  BY <1>2, <2>1, <2>2 DEF PassStep, CheckEnds, FoundNothing, ContinueSettlesHome,
       AbortFoundStop, ContinueFoundStop, FindEnds, ConvergeEnds, PassIsRecorded
<1>3. ASSUME pass' = pass \/ pass' = NoPass, pass = NoPass  PROVE ReachInv'
  BY <1>3 DEF ReachInv
<1>4. ASSUME NEW m \in Machines, RunStep(m)  PROVE ReachInv'
  <2>1. pass = NoPass
    BY <1>4 DEF RunStep, Quiet
  <2>2. CASE BeginPass(m)
    BY <1>3, <2>1, <2>2, BeginsReaching DEF BeginPass
  <2>3. CASE ~BeginPass(m)
    <3>1. pass' = pass
      BY <1>4, <2>3 DEF RunStep, Fetch, FetchInto, CheckRefuses, Publish, Plan, Save, Resolve,
         Restore, Forget, Create, Delete, SyncHome
    <3>. QED  BY <1>3, <2>1, <3>1
  <2>. QED  BY <2>2, <2>3
<1>5. ASSUME NEW m \in Machines, Fails(m)  PROVE ReachInv'
  <2>1. pass = NoPass
    BY <1>5 DEF Fails, Quiet
  <2>2. pass' = pass
    BY <1>5 DEF Fails, FetchUnreachable, FetchInto, PublishUnreachable, DiesAfterPush,
       Publish, Crash
  <2>. QED  BY <1>3, <2>1, <2>2
<1>6. ASSUME NEW m \in Machines, Start(m)  PROVE ReachInv'
  <2>1. pass = NoPass
    BY <1>6 DEF Start, Free, Quiet
  <2>2. pass' = pass
    BY <1>6 DEF Start, StartRead, StartSync, StartAbort, StartCommit, StartDelete,
       StartCreate, StartJoin, StartContinue, Starts
  <2>. QED  BY <1>3, <2>1, <2>2
<1>. QED  BY <1>1, <1>2, <1>4, <1>5, <1>6 DEF Next

(* The pass that is recorded has reached every scope it passed.             *)
LEMMA PassReaches ==
    ASSUME NEW del, IInv(del), ReachInv, NEW m \in Machines, ConvergeEnds(m),
           NEW R, R = Reached(commits, local[m]),
           NEW above, above = IF /\ IsDag(R)
                                 /\ \A s \in DOMAIN R : local'[m][s] # At(Gone)
                              THEN R ELSE Parents(m),
           NEW s \in DOMAIN R
    PROVE  Reaches(m, s, above[s])
<1>. DEFINE P == pass.parents
            H == pass.commits
            now == local'[m]
<1>1. /\ pass # NoPass /\ pass.by = m /\ AtStep(m, "converge")
      /\ IF pass.moved THEN local' = [local EXCEPT ![m] = pass.heads] /\ commits' = H
         ELSE local' = local /\ commits' = commits
  BY DEF ConvergeEnds, PassIsRecorded, PassEnds
<1>2. PassOK(del, pass) /\ ReachOK(pass) /\ RepoInv
  BY <1>1 DEF IInv, PassInv, ReachInv
<1>3. /\ P = Parents(m) /\ \A t \in ToCome(pass) : pass.heads[t] = local[m][t]
      /\ \A t \in DOMAIN P \ ToCome(pass) : Passed(pass, t)
      /\ ~pass.moved => H = commits
                        /\ \A t \in Scopes : pass.heads[t].sides = local[m][t].sides
  BY <1>1, <1>2 DEF ReachOK
<1>4. /\ commits' = H /\ IsHistory(H)
      /\ \A t \in Scopes : now[t].sides = pass.heads[t].sides
      /\ pass.moved => now = pass.heads
      /\ ~pass.moved => now = local[m]
  BY <1>1, <1>2, <1>3 DEF PassOK, RepoInv
<1>5. /\ DOMAIN R = DOMAIN P /\ DOMAIN P \subseteq Scopes /\ IsFiniteSet(DOMAIN R)
      /\ \A t \in DOMAIN R : R[t] \subseteq DOMAIN R
      /\ \A t \in DOMAIN R : P[t] = {u \in R[t] : \A v \in R[t] \ {u} : u \notin R[v]}
  <2>1. DOMAIN R = MembersOf(commits, local[m]) /\ MembersOf(commits, local[m]) \subseteq Scopes
    BY DEF Reached, MembersOf
  <2>2. IsFiniteSet(DOMAIN R)
    BY <2>1, FS_Subset, NamesAreTheScopes
  <2>3. \A t \in DOMAIN R : R[t] \subseteq DOMAIN R
    BY <2>1 DEF Reached
  <2>4. P = [t \in DOMAIN R |-> {u \in R[t] : \A v \in R[t] \ {u} : u \notin R[v]}]
    BY <1>3 DEF Parents, ParentsOf
  <2>. QED  BY <2>1, <2>2, <2>3, <2>4
<1>. HIDE DEF P, H, now
<1>6. Gone \notin DOMAIN H
  BY <1>4, GoneIsNowhere
<1>7. CASE \E i \in 1..Len(pass.todo) : pass.todo[i] = s
  <2>1. s \in ToCome(pass)
    BY <1>7 DEF ToCome
  <2>2. now[s] = local[m][s]
    BY <1>3, <1>4, <2>1
  <2>. QED  BY <1>7, <2>2 DEF now, Reaches
<1>8. ASSUME NEW t \in DOMAIN R, pass.heads[t] = At(Gone), DeletedOnOneSide(local[m][t])
      PROVE  now[t] = At(Gone)
  <2>1. CASE pass.moved
    BY <1>4, <1>8, <2>1
  <2>2. CASE ~pass.moved
    <3>1. local[m][t].sides = {Gone}
      BY <1>3, <1>5, <1>8, <2>2 DEF At
    <3>2. ~HasConflict(local[m][t])
      BY <3>1, OneSide
    <3>. QED  BY <1>8, <3>2 DEF DeletedOnOneSide
  <2>. QED  BY <2>1, <2>2
<1>9. ASSUME s \notin ToCome(pass), ~(now[s] = At(Gone) /\ DeletedOnOneSide(local[m][s]))
      PROVE  \E c \in AddedIds(now[s]) :
                /\ IsOne(now[s], c) /\ AddedIds(local[m][s]) \subseteq commits'[c].anc
                /\ \A t \in above[s] : AddedIds(now[t]) \subseteq commits'[c].anc
  <2>. DEFINE Stands(t, c) == c \in DOMAIN H /\ pass.heads[t].sides = {c}
              Under(t, c) == AddedIds(pass.heads[t]) \subseteq H[c].anc
  <2>1. PICK c \in DOMAIN H : /\ Stands(s, c) /\ AddedIds(local[m][s]) \subseteq H[c].anc
                              /\ \A t \in P[s] : Under(t, c)
    <3>1. Passed(pass, s)
      BY <1>3, <1>5, <1>9
    <3>. QED  BY <1>1, <1>8, <1>9, <3>1 DEF Passed, P, H
  <2>2. s \in Scopes /\ c # Gone /\ IsOne(now[s], c) /\ c \in AddedIds(now[s])
    BY <1>4, <1>5, <1>6, <2>1 DEF IsOne, AddedIds
  <2>3. \A t \in Scopes : AddedIds(now[t]) = AddedIds(pass.heads[t])
    BY <1>4 DEF AddedIds
  <2>4. above[s] \subseteq Scopes
    BY <1>3, <1>5
  <2>5. \A t \in above[s] : Under(t, c)
    <3>1. CASE above = P
      BY <2>1, <3>1
    <3>2. CASE above = R /\ IsDag(R) /\ \A t \in DOMAIN R : now[t] # At(Gone)
      <4>. DEFINE passed(t) == t \notin ToCome(pass)
                  G == [x \in DOMAIN R |->
                          {y \in DOMAIN R :
                             passed(x) => /\ passed(y)
                                          /\ \E d \in DOMAIN H : Stands(x, d) /\ Under(y, d)}]
      <4>0. \A x, y \in DOMAIN R :
                y \in G[x] <=> (passed(x) => /\ passed(y)
                                             /\ \E d \in DOMAIN H : Stands(x, d) /\ Under(y, d))
        OBVIOUS
      <4>. HIDE DEF G
      <4>1. ASSUME NEW x \in DOMAIN R, NEW y \in DOMAIN R, NEW z \in DOMAIN R,
                   y \in G[x], z \in G[y]
            PROVE  z \in G[x]
        <5>1. CASE ~passed(x)
          BY <4>0, <5>1
        <5>2. CASE passed(x)
          <6>1. PICK d \in DOMAIN H : Stands(x, d) /\ Under(y, d) /\ passed(y)
            BY <4>0, <4>1, <5>2
          <6>2. PICK e \in DOMAIN H : Stands(y, e) /\ Under(z, e) /\ passed(z)
            BY <4>0, <4>1, <6>1
          <6>3. e \in H[d].anc
            BY <1>6, <6>1, <6>2 DEF AddedIds
          <6>4. Under(z, d)
            BY <1>4, <6>1, <6>2, <6>3 DEF IsHistory
          <6>. QED  BY <4>0, <6>1, <6>2, <6>4
        <5>. QED  BY <5>1, <5>2
      <4>2. ASSUME NEW x \in DOMAIN R, NEW y \in R[x], \A u \in R[x] \ {y} : y \notin R[u]
            PROVE  y \in G[x]
        <5>1. y \in P[x] /\ y \in DOMAIN R
          BY <1>5, <4>2
        <5>2. CASE ~passed(x)
          BY <4>0, <5>1, <5>2
        <5>3. CASE passed(x)
          <6>1. passed(y)
            BY <1>2, <1>5, <5>1, <5>3, ParentsComeFirst DEF P
          <6>2. Passed(pass, x)
            BY <1>3, <1>5, <5>3
          <6>3. \E d \in DOMAIN H : Stands(x, d) /\ \A t \in P[x] : Under(t, d)
            BY <1>1, <1>8, <3>2, <6>2 DEF Passed, P, H
          <6>. QED  BY <4>0, <5>1, <6>1, <6>3
        <5>. QED  BY <5>2, <5>3
      <4>3. \A t \in R[s] : t \in G[s]
        BY <1>5, <3>2, <4>1, <4>2, NearestLeadEverywhere
      <4>4. ASSUME NEW t \in R[s]  PROVE Under(t, c)
        <5>1. PICK d \in DOMAIN H : Stands(s, d) /\ Under(t, d)
          BY <1>5, <1>9, <4>0, <4>3, <4>4
        <5>2. d = c
          BY <2>1, <5>1
        <5>. QED  BY <5>1, <5>2
      <4>. QED  BY <3>2, <4>4
    <3>. QED  BY <1>3, <3>1, <3>2 DEF now
  <2>6. \A t \in above[s] : AddedIds(now[t]) \subseteq commits'[c].anc
    BY <1>4, <2>3, <2>4, <2>5
  <2>. QED  BY <1>4, <2>1, <2>2, <2>6
<1>10. ASSUME ~(\E i \in 1..Len(pass.todo) : pass.todo[i] = s)  PROVE s \notin ToCome(pass)
  BY <1>10 DEF ToCome
<1>. QED  BY <1>7, <1>9, <1>10 DEF now, Reaches

(* That is what the property says of it.                                    *)
LEMMA EveryPassReaches ==
    ASSUME NEW del, IInv(del), ReachInv, NEW m \in Machines, ConvergeEnds(m)
    PROVE  ReachesScopes(m)
<1>. DEFINE R == Reached(commits, local[m])
            above == IF IsDag(R) /\ \A s \in DOMAIN R : local'[m][s] # At(Gone)
                     THEN R ELSE Parents(m)
<1>1. ReachesScopes(m) <=> \A s \in DOMAIN R : Reaches(m, s, above[s])
  BY DEF ReachesScopes
<1>2. /\ R = Reached(commits, local[m])
      /\ above = IF IsDag(R) /\ \A s \in DOMAIN R : local'[m][s] # At(Gone)
                 THEN R ELSE Parents(m)
  OBVIOUS
<1>. HIDE DEF R, above
<1>. QED  BY <1>1, <1>2, PassReaches

(* A pass reaches every scope it passes, in the graph the code derives and  *)
(* in everything each was created below.                                    *)
THEOREM ReachTheorem == Spec => PassReachesScopes
<1>1. Init => IInv("stand") /\ ReachInv
  BY InitIInv DEF Init, ReachInv
<1>2. IInv("stand") /\ ReachInv /\ [Next]_vars => (IInv("stand") /\ ReachInv)'
  BY NextKeeps, NextReaches
<1>3. IInv("stand") /\ ReachInv
        => [\A m \in Machines : ConvergeEnds(m) => ReachesScopes(m)]_vars
  BY EveryPassReaches
<1>. QED  BY <1>1, <1>2, <1>3, PTL DEF Spec, PassReachesScopes
=============================================================================
