# dotsync, verified

TLA+ models of dotsync (`src/`), checked by TLC on small instances and proved
about with TLAPS. dotsync keeps the configuration files of several machines in
one git remote, layered by *scopes*: `all`, an operating system, one machine.
Each scope is a branch; each machine has a copy of every branch's head, merges
parents into children by a *convergence pass*, publishes by a leased push, and
materializes its own scope into the user's home directory. Nothing coordinates
the machines except the remote, and nothing coordinates a run with the user
who edits home, or with its own death, except the order of its steps. That
order is what this project is about.

## 1. The system

### Components

| component (source) | state it keeps | operations |
| --- | --- | --- |
| home (`home.rs`) | the working-copy commit and its parent, the *mark*; the state file naming the tree home was last seen to hold and the operation that said so; a lock | `acquire` (lock, snapshot, amend, repair), `observe`, `materialize` and its three variants, `record_switch`, `finish` |
| working copy (`working_copy.rs`) | the files, links and folders of home, managed or not | snapshot the paths asked for, check what a tree would replace, remove and write paths one by one with the folders they make or empty |
| sync, discard, status (`sync.rs`, `status.rs`) | none of their own | move home to the machine scope's head; drop local changes at named paths; report |
| repository and session (`repo.rs`, `session.rs`) | the hidden jj repository: commits, a bookmark per scope (absent, one commit, contested), the remote-tracking bookmarks | fetch and import, compute pending updates, leased push, delete a branch |
| convergence (`converge.rs`) | nothing between runs: one transaction | the pass over the scopes in cascade order, deletions, answers, pins, the push loop |
| pause (`pause.rs`) | one file beside the repository: the checkpoint a stopped run started from, and the commit it was making | find the waiting merge, `continue`, `abort`, refuse commits |
| commit (`commit.rs`) | none | merge home's edit into the target scope against the tree home derived from; pin; cascade |
| selection (`selection.rs`) | none | which paths a bare commit, a file, a folder or a name that is gone comes to, and which of them hold a change of this machine's own |
| scope graph (`scope_graph.rs`) | none: derived from bookmarks and creation commits | parents, ancestors, leaves, cascade order |
| bootstrap (`bootstrap.rs`, `machine.rs`) | none | `init`, join, `create-scope`, `delete-scope` |
| placement (`place.rs`) | none | `move`, `drop`: pins on many scopes in one transaction, or nothing |
| fleet view (`fleet.rs`) | none | standing of a path in every scope, whose version it is, the machines a write changes |
| drift (`drift.rs`) | none | which of nine combinations of mark, home and head a path is in |
| inspection, rendering, command line, errors | none | read trees, format, parse arguments |

### How they interact

A command opens a session (`session::in_session`), acquires home if it needs
it, fetches, runs the pass, publishes, does its own work, publishes again and
moves home. Within one machine these are calls and one file lock. Between
machines there is only the remote: a branch is read by a fetch and written by
a push that succeeds if the branch is where this machine last saw it. The user
shares home with the program and takes no lock.

### What is hard

* **Home and the user.** home is read, then decided on, then written; the user
  writes between any two of those.
* **Folders, links, other people's files.** A path the fleet holds can be in
  another's way, a link above it leads elsewhere, and what dotsync does not
  manage lies in between.
* **Deaths.** Writing home, recording the switch in jj's operation log and
  writing the state file are three steps. What a run that died left must be
  told from what the user did (`home.rs`, `repair`).
* **Forced pushes.** A push is forced; only the lease, and the machine's own
  order of fetch, import, merge and push, keep another machine's commits.
* **Half a cascade.** Branches are pushed one by one; some can be taken and
  some refused, and the run may die before it learns which.
* **Criss-cross history.** Machines converge the same scopes independently,
  so the merge base is in general a merge of several common ancestors.
* **Stops.** A pass that cannot merge stops; the checkpoint in the record and
  the parent of a stopped commit are old by the time they are used.
* **Deletion and creation.** An absent side meets a moved one. Nothing stores
  the graph: each machine reads it off the creation commits in its own copy, so
  a creation and a deletion that cross leave a graph neither machine asked for.
* **Liveness.** "The remedy is run dotsync again": from any state, mid-crash or
  half published, re-running has to settle.

### What makes each component correct

* home: no write loses what the user put there before it was read; home, the
  working-copy commit and the mark never tell different stories about a file
  nobody edited; abort restores every path; re-running settles.
* repository, convergence: published history only grows; a head holds what the
  machine saw published; a pass leaves each scope it passes holding its
  parents; no merge brings back what was decided against; the fleet settles.
* deletion: a deleted scope stays deleted.
* pause: abort and continue take back or finish what is local only.
* working copy: a run touches what it set out to and nothing else, whatever the
  links lead to; a run that ends undisturbed leaves home holding its goal; what
  cannot be written is found out before anything is; a run cut short is taken
  up by the next.
* commit: the recorded tree is the home edit and nothing older; it reaches the
  machines below its scope and no other.
* selection: what is asked for is recorded, reported as left alone, or stops
  the commit; a folder is what is under it.
* drift: a path is called a conflict exactly where a sync would stop, a local
  change exactly where the user made one, and what was reported as carried or
  dropped is true once the sync is recorded.
* graph: what a machine derives is a DAG whatever the order of creations and
  deletions, and a pass that goes by it reaches every scope.
* placement: a placement changes the version of the scopes it names and of no
  other, reaches only the machines that is for, and is turned down only for a
  conflict it would make.

## 2. The modules

| module | models | kind |
| --- | --- | --- |
| `Home` | one machine's home, run by run and step by step | specification, properties |
| `HomeProofs` | the theorems about `Home` | proofs |
| `Drift` | the classification of one path (`drift.rs`) | operators |
| `HomeReport` | what a report says in each state of `Home` | properties (extends `Home`, an instance of `Drift`) |
| `HomeReportProofs` | the theorems about `HomeReport` | proofs |
| `MCHome` | small instances of `HomeReport` | TLC |
| `WorkingCopy` | home on disk: folders, links, unmanaged files, under a run and a user | specification, properties |
| `Delivery` | what a run promises of home, one path at a time | abstract specification |
| `WorkingCopyProofs` | the theorems about `WorkingCopy`, that it implements `Delivery` among them | proofs |
| `TakeUpProofs` | that a sync which ended part-way is taken up where it was left | proofs |
| `Selection` | what a commit would select in a state of `WorkingCopy` | operators and properties (extends `WorkingCopy`, an instance of `Drift`) |
| `SelectionProofs` | the theorems about `Selection` | proofs |
| `MCWorkingCopy` | a small home | TLC |
| `History` | commits, ancestry, jj's merge of trees and of bookmark positions | operators |
| `ScopeGraph` | the graph of scopes, derived from creation commits | operators (extends `History`) |
| `Fleet` | the fleet as one table: who holds a version, who inherits it, whom a write reaches | operators (extends `ScopeGraph`) |
| `Convergence` | a fleet of machines, their heads, the remote, passes, pushes, stops, creations, deletions | specification (extends `Fleet`), properties |
| `Placement` | `move` and `drop` beside all of that | specification (extends `Convergence`), properties |
| `ConvergenceProofs` | the theorems about `Convergence` | proofs |
| `ConvergenceReportProofs` | that a fleet `status` calls clean is published, and that a pass reaches the scopes it passes | proofs |
| `PlacementProofs` | the theorems about `Placement` (extends `ConvergenceReportProofs`) | proofs |
| `MCConvergence`, `MCPlacement` | small fleets | TLC |

`PROJECT.json` maps each definition to the lines it translates. Operators
marked "mutant" in a comment are the wrong versions of the definition after
them: `PROJECT.json` lists which property fails when the one replaces the other.

### Home

The variables are the four things that outlive a run (`disk`; `wcTree` and
`wcMark`, the working-copy commit and its parent; `stTree` and `stMark`, the
state file and the mark of the operation it names; `head`, the machine scope's
head), and what a run holds in memory: its `phase`, the locked working copy's
`tree` (what it believes is on disk), the paths it reads (`probe`), what it is
writing (`goal`, `todo`, `waived`). `touched`, `torn` and `raced` are history:
which paths the user wrote, which an interrupted checkout left ahead of the
mark, which the user wrote since the run last read home.

| code | action |
| --- | --- |
| `acquire` up to the lock and the state file | `StartRun` |
| `snapshot_home`, an irregular file in the way | `AcquireRefused` |
| `amend_if_changed`, nothing interrupted | `AcquireFresh` |
| `repair`, home already as recorded / completed / rewound | `RepairDelivered`, `RepairCompletes`, `RepairRewinds` |
| `observe` | `Observe` |
| `materialize`: carry, or stop | `SyncCarries`, `SyncStops` |
| `resolve_with_home_bytes` (continue) | `ContinueResolves`, `ContinueNothing` |
| `materialize_taking_head_at` (discard) | `DiscardTakesHead`, `DiscardStops` |
| `materialize_discarding_local` (abort, init) | `AbortTakesHead`, `AbortStops` |
| `check_out`, file by file, removals first | `WriteFile`, `RepairDone`, `CheckOutFails` |
| `record_switch`, `finish` | `RecordSwitch`, `Finish` |
| everything outside | `UserEdit`, `HeadMoves`, `HeadRestored`, `Crash`, `RunStops` |

A file's bytes, kind and executable bit are one value. The line merge is the
constant `Combine`: the proofs hold for any; TLC runs one that never combines
and one over the four versions of a two-line file. The head moves to an
arbitrary tree, so `Home` holds for whatever `Convergence` makes of it.

### WorkingCopy, Delivery and Selection

`Home` takes every path for a variable of its own. `WorkingCopy` is the layer
below: `disk` says of every *place*, a sequence of names, whether it holds an
entry, a folder or nothing; `Target` is a folder that is no path of the fleet,
where links lead. A run is `idle`, `acquired`, `observed`, `checked`, `writing`
and then `done`, `stopped`, `refused` or `failed`; its `tree`, `probe`, `goal`
and `todo` are as in `Home`. `before`, `raced` and `partly` are history: home as
the run began to write, what the user wrote since it was read, home as a sync
that ended part-way left it.

| code | action or operator |
| --- | --- |
| `start_mutation`, `snapshot` of what the trees hold | `Acquire`, `Reads`, `Snapshot` |
| `observe_paths` | `Observe` |
| `status` with a folder, `untracked_under` | `Look` |
| `home_disk_path`, `beneath_managed_link` | `Refused`, `BeneathManagedLink`, `Readable` |
| `merge_trees` down the folders, `settle_folder_terms` | `Side`, `SettleFolderTerms`, `DecidedAt`, `Merged` |
| the four ways of materializing | `Goal`: `Merged`, `HeadAt`, `HomeAtConflicts`, the head |
| `check_out` up to the first write, `unmanaged_files_under` | `CheckOutStarts`, `UnmanagedUnder` |
| its two loops, `remove_emptied_folders`, `remove_empty_folder_tree`, `write_disk_entry` | `RemoveEntry`, `WriteEntry`, `EmptiedAbove`, `Removed`, `Written` |
| an error in them | the failing branch of `Reaches`, `WriteFails` |
| `switch_to`, `persist` | `CheckOutEnds`, `Finish` |
| the user | `UserPuts`, `UserRemoves` |

`Delivery` is home again as `Home` has it, reduced to what a run promises: it
reads places, sets out to change some it knows, changes those and no other one
at a time with the removals first, and moves the mark at the end or not at all.
`WorkingCopy` is checked, and proved, to implement it: the content of a place
is what reading it gives (a folder reads as nothing), the goal counts from the
decision to the end of the checkout.

`Selection` adds operators and no step: they say what a commit for a scope with
this machine's head or mark would select where a run has just acquired home.

### Drift and HomeReport

`Classify` is `drift.rs`'s `classify`, arranged by which of home and the head
moved away from the mark; its fourth argument is the answer of the sync's merge,
which the code takes from the merged tree. `StateOf(p)` reads the four from
`Home`'s state at any moment. `Convergence` uses the same module for the
refusals of `commit` (`Selects`), `Selection` for which paths are this machine's.

### History, ScopeGraph, Fleet and Convergence

A history maps commit ids to their ancestors and tree. `MergeOf` is jj's merge
of a set of commits: one at a time, the base being the merge, computed the same
way, of the common ancestors. A merged entry is a count of each content, sides
minus bases, so equal terms cancel as they do in `jj_lib::merge`; a path stands
for a hunk, which merges whole or conflicts. `Import` and `MergeTargets` are
jj's merge of a remote bookmark's move into a local bookmark. These parts of jj
are modelled from how dotsync calls them and from jj-lib's behaviour, and
are marked external.

`ScopeGraph` is `derive`, from where a machine has each head: a commit says
which scope it created, `MembersOf` are the scopes whose heads hold such a
commit of theirs, `Reached` relates creation commits by ancestry, and
`ParentsOf` keeps the nearest. `CascadeOrder` and `IsDag` are the order of a
pass and the assertion in it. In `Convergence` `Parents(m)` and `Members(m)` are
what machine `m` derives at that moment; a pass keeps the graph it started with,
as the session does, and a graph with a cycle ends the run (a panic).

In `Convergence` a machine's run is a record with the list of steps it has
left. `fetch`, `converge`, `publish`, `plan`, `home`... are the steps, and any
other machine may act between two of them. A pass is a sequence of actions, one
per scope (`ScopeIsDeleted`, `ScopeFollows`, `ScopeMerges`, `ScopeStops`), over
the transaction's own copy of the heads; nothing outside sees it before
`ConvergeEnds`, so no other machine acts in between. A dry pass (`check`,
`find`) runs the same actions and is thrown away, as in the code.

| code | steps in the model |
| --- | --- |
| any report that fetches | `fetch` |
| `dotsync` | `fetch`, `converge`, `publish`, `home` |
| `commit` | `check`, `fetch`, `converge`, `publish`, `plan`, `converge`, `publish`, `home` |
| `create-scope` | `check`, `fetch`, `create`, `push` |
| `init` on a machine whose scope was deleted | `fetch`, `create`, `push`, `home` |
| `delete-scope` | `check`, `fetch`, `delete` |
| `continue`, a scope's merge waits | `find`, `converge` with the answer, `forget`, `publish`, `home` |
| `continue`, a commit waits | `resolve`, `forget`, `converge`, `publish`, `home` |
| `abort` | `find` (unless a commit waits), `restore`, `forget`, `home` |

A push that loses the race adds `refetch`, `converge` in front of another
`publish`, three attempts in all (`PUSH_ATTEMPTS`, the code's constant); `push`
is a creation's, which is made once. Moving
home is one step here, with the outcomes module `Home` allows: the mark follows
the head, or stays because a local change is in the way.

`Fleet` is the table `fleet.rs` computes from a history and a set of heads. A
pin is a scope, a path and what the scope is to hold there, or that it is to
hold what its parents do; `commit` lays one, `move` and `drop` one on every
scope with a version of its own. In `Placement` such a run reads the fleet
after a pass over what it fetched, plans, and runs the pass again with the pins:

| code (`place.rs`) | action |
| --- | --- |
| `move`, `drop` | `StartMove`, `StartDrop` |
| a scope that is none, or the same twice | `PlacementIsInvalid` |
| the transaction, and a stop of its first pass | `BeginPlacement`, `StopsBeforePlanning` |
| `placement_pins`, refusals of what there is to place | `PlacementPins`, `PlacementRefused`, `PlanPlacement` |
| the rehearsal | `ConvergeScope`, then `PlacementWouldConflict` or `PlacementIsRecorded` |

Two histories are kept for the properties: `rewound`, the scopes some machine
set to a commit that does not hold what it held before (only `abort` and a
resumed commit do), and `wrote` on each commit, the paths at which a person
decided what it holds.

## 3. What the runs check

Bounds are constants of the specifications, and appear as guards only on what
the environment does: `MaxHeads`, `MaxEdits`, `MaxFailures` in `Home`;
`MaxEdits` (commits, creations, deletions, placements), `MaxAnswers`
(resolutions), `MaxFailures` and `MaxRuns` (machines running at once) in
`Convergence`, where a machine may start runs without bound; `MaxEdits` and
`MaxRuns` in `WorkingCopy`, where any write may fail.

| run | instance | properties | shows |
| --- | --- | --- | --- |
| `home` | 2 paths, 2 files, 2 head moves, any initial home, 1 edit, 1 failure | `TypeOK`, `HomeFollowsMark`, `WcCommitIsHome`, `KeepsEdits`, `AbortRestoresHome`, `SwitchLeavesWhatWasReported` | the consistency of home through edits and a death anywhere |
| `home_one_file` | 1 path, 4 files that merge by line, 2 moves, 1 edit, 1 failure | `CatchesUp`, `KeepsEdits`, `ReportForetellsSync`, `ReportNamesTheUsersChanges` | re-running always settles; a combined write includes the edit; reports say what a sync will do |
| `convergence_stops` | 2 machines, a name not in use; 2 commits, creations, deletions or joins, 2 answers, aborts | `HeadsHoldWhatWasPublished`, `NothingStaleReturns`, `RemoteGrows`, `DeletionStands`, `PassReachesScopes` | stops, resolutions and aborts, deletions and creations, against racing commits |
| `convergence_live` | 2 machines, 1 commit or deletion, 1 failure (a death, a refused branch, no remote) | `FleetSettles`, `HeadsHoldWhatWasPublished`, `RemoteGrows`, `NothingUnpublishedReadsClean` | the fleet settles, nothing published is lost on the way, and status does not hide what is unpublished |
| `placement` | 2 machines below one scope, one of them below another too; 3 commits, moves or drops | `TypeOK`, `HeadsHoldWhatWasPublished`, `NothingStaleReturns`, `PublishedScopesGrow`, `PassReachesScopes`, `CommitReachesItsMachines`, `PlacementKeepsOtherVersions`, `PlacementReachesItsMachines`, `TurnedDownForDisagreement` | races and cascades, and whom a commit or a placement reaches |
| `working_copy` | one name that is an entry or a folder of two, and a folder links lead to; any mark and head; 1 edit, 2 runs of any command, a failure at any write | `TypeOK`, `HomeHoldsTheGoal`, `TouchesOnlyItsPaths`, `OnlyAFileForAFolderFails`, `EachSideKeepsItsChanges`, `TakesUpWhatWasLeft`, `DeliversPathByPath`, `CommitTakesWhatItIsAsked`, `FolderIsWhatIsUnderIt` | what a run does to a home with folders and links in it, and what a commit selects there |

Six more runs are expected to find a violation; see section 5.

**Why the bounds are enough for the question.** In `Home` the repair is a
function of three trees at each path, and paths interact only through "all of
them merge, or none is written", for which two paths suffice; two head moves
allow a head that has moved again after an interrupted delivery, and one
failure an interrupted run that the next run meets (the proofs below lift all
of these). In `Convergence` two machines suffice for a race on one lease; two
commits for a conflict, and one more action for a criss-cross; two answers for
two machines that resolve the same conflict; a scope with two
parents for a merge of versions nobody decided between, and a placement after
two commits for versions to be kept on the way. One hunk (`Paths = {p1}`) is
enough for convergence because the merge is computed hunk by hunk and a stop at
one is a stop for the pass. In `WorkingCopy` one name that is an entry on one
side and a folder of two on another is the least at which entries and folders
trade places with something left over; a second run is what meets the home a
first one left. Deeper folders are the proofs' business.

Contents are compared only, hence `SYMMETRY` over them in the safety runs (over
paths in `home`, and over the two names in a folder in `working_copy`); no
liveness run uses symmetry. Three action constraints keep the instances of the
passing runs small.
`OnlyExchangesInterleave`: what a run does between two exchanges with the remote
no other machine sees and depends on nothing another does, so a run goes on to
its next exchange before another machine acts; every property of those runs is
about the remote, or one machine, or holds of each recorded commit.
`TargetIsLeftAlone`: the user does not write in the folder the links lead to,
which starts out full of links. `StatusIsFollowed`: a `status` is not the last
run, after which nothing could show. Two more only choose which counterexample a
violation run shows: `EditsBetweenRuns`, the user writes while no run is going
on, and `OwnScopesStay`, no machine's own scope is deleted.

`placement` and the two runs of `working_copy` do not check for deadlock: every
command there is bounded, so these instances really end. The others do: a user
can always start another run.

**Fairness.** `Home`: weak fairness of the run's next step (a process that is
not killed goes on) and strong fairness of starting a sync: the user who is
told to run dotsync again does, and starting is disabled only while another
run has the lock. `Convergence`: weak fairness of a pass's steps, strong
fairness of a run's steps and of starting a sync, per machine. Strong, because
the pass of another machine, uninterrupted here, disables this machine's steps
while it runs; in life the two are parallel and nothing is disabled. Failures
are unfair and bounded: liveness says what happens after the last one.

Each property of a passing run has a mutant: the code's definition with a
plausible error, under which TLC finds the property violated.

## 4. What is proved

`HomeProofs` proves, for every set of paths and files, every line merge and
every value of the bounds, from the assumptions `ContentsDistinct`,
`CombineReturns` and `BoundsAreNumbers` of `Home` only:

* `TypeCorrect`: `Spec => []TypeOK`.
* `MarkIsFollowed`: `Spec => []HomeFollowsMark`.
* `WcCommitDescribesHome`: `Spec => []WcCommitIsHome`.
* `EditsAreKept`: `Spec => KeepsEdits`.
* `AbortRestores`: `Spec => AbortRestoresHome`.

`HomeReportProofs` adds, from the same assumptions, with no assumption about
which files are symlinks:

* `ReportForetells`: `Spec => []ReportForetellsSync`.
* `ReportNames`: `Spec => []ReportNamesTheUsersChanges`.
* `SwitchLeaves`: `Spec => SwitchLeavesWhatWasReported`.

The first is an argument about the two definitions alone (`ClassifyForetells`),
the second joins the classification to `IInv`: what the user did not write is
the same in the mark and in home. The third needs `DecidedInv`, that during a
checkout the goal is still what was decided.

None of the properties is inductive. The inductive invariant `IInv` adds what
each phase knows. While `locked`, every path the state file, the working-copy
commit or the mark knows is in `probe` (`LockedInv`): otherwise a snapshot would
take an unread file for an absent one. Once acquired, the run's tree is the
working-copy commit's (`AcquiredInv`), and is what is on disk wherever it
looked and the user has not written since, and nothing where it did not look
(`ReadInv`); after `Observe` the head has nothing outside `probe`
(`ObservedInv`). During a checkout (`PendingInv`) a path still to be written
holds what the run believes and is headed for a merge of it with some other
side, one already written holds the goal, and no path outside `probe` is
written. That is what `KeepsEdits` needs: at the step that writes a path, the
content written over is the merge's own side. `WritingInv` ties the goal to the
head at every untouched path, which is `HomeFollowsMark` after `RecordSwitch`.
`DecideSteps` reduces the nine decisions to two shapes, and each further action
is one case of `StepIInv`.

`WorkingCopyProofs` proves, for every set of names and places closed under what
is above them, every set of files and every value of the bounds (the assumptions
`PlacesAreClosed`, `EntriesAreDistinct` and `BoundsAreNumbers` of `WorkingCopy`):

* `TypeTheorem`: `Spec => []TypeOK`, that home and all trees hold together.
* `GoalTheorem`: `Spec => []HomeHoldsTheGoal`.
* `TouchesTheorem`: `Spec => TouchesOnlyItsPaths`.
* `EachSideTheorem`: `Spec => EachSideKeepsItsChanges`.
* `DeliveryTheorem`: `Spec => DeliversPathByPath`.
* `OnlyFailsTheorem`: `Spec => OnlyAFileForAFolderFails`.

Its `IInv` says that home is a file system (`HoldsTogether`: nothing lies below
what is no folder, kept by removals that take emptied folders, which is the
lemma `RemovedWithFoldersHolds`), that a run has read wherever home, mark or
head may hold anything (`ReadsAll`), that what it read and the user has not
touched since reads as it did, or as the goal where it has been written
(`AsRead`), and that no folder got empty (`NoFolderEmptied`). That is inductive
and gives `GoalTheorem` at `CheckOutEnds` and `TouchesTheorem` at each write: a
path that is not `Refused` is written where it is, so `Written` is `Put`.

`TypeTheorem` needs that no merge puts an entry below another, and that is not
inductive over the paths but an argument about one decision: of a path and one
above it, either both are decided at the same place, on the same side, which is
a tree (`DecidedAlike`), or the upper one is merged within and holds nothing
(`MergedNests`); `HeadAtIsATree` and `HomeAtConflictsIsATree` carry it to
`discard` and `continue`. `EachSideTheorem` goes by where the decision for a path
was made: on whole parts, equal parts give equal paths (`PartsDecide`); where
entries and folders meet, a side that has its way above the path leaves the
other only what neither changed (`FolderTermsDecide`).

`DeliveryTheorem` maps a place to what reading it gives. The steps that matter
are `MoveDelivers` (a removal or a write, folders and all, changes how one place
reads: `RemovalReads`, `WriteReads`) and `DecideDelivers` (a run knows the places
it is to change, which is `AsRead` and `ReadsAll`).

`OnlyFailsTheorem` adds `UInv`, what an undisturbed run knows: the links that
lead to what it read are entries it read (`LinksRead`), and whatever lies under a
path still to be written as an entry is itself going to be removed
(`ClearedBelow`). Removals come first and cannot fail, so a write can only fail
for a file above it that no tree has.

`TakeUpProofs` proves, from the same assumptions, `HomeInvariant` and
`TypeTheorem`:

* `TakesUpTheorem`: `Spec => TakesUpWhatWasLeft`.

A sync that ends part-way leaves home between the tree it read and the merge it
was writing: `PartWay(from, home)`. `PartWayMerges` is that such a home merges
again without a conflict, unless an entry became a folder of several. It goes by
where the first merge decided a path and why. Where it took home's own part,
home is as it was; where it took the head's, home now has at each path
what it had or what the head has, and merges without a conflict
(`TakenPartMerges`, and `MixMerges` where home had what the mark has); where it
merged within, the parts are decided further down (`DecidedBelow`). The
invariant `TInv` ties this to the disk: while `partly` holds there is a tree
such that home and what any later run has read are part-way from it
(`LeftFrom`), that run reads nowhere but where some tree holds something, and a
link in the way of reading is home's own or one of the head's in place of a
folder (`BehindALink`). Reading keeps that, though a run that stops afterwards
has amended what it believes home holds (`ReadingKeepsLeft`), and a second sync
that ends part-way starts it anew (`SyncLeaves`). What is left are the two
exceptions of `CannotBeTakenUp`, where a sync does stop.

`SelectionProofs` proves, from the same two invariants (`HomeInvariant`,
`TypeTheorem`) and assumptions:

* `TakesTheorem`: `Spec => []CommitTakesWhatItIsAsked`.
* `FolderTheorem`: `Spec => []FolderIsWhatIsUnderIt`.

For the first, what the user changed at a path differs from the target's version
or is not there and in the target: in the one case the walk finds it, as home
holds together, in the other the target's list does (`ChangesAreFound`); and
what is found is classified from what home holds, read again or not
(`HomeReadReads`). For the second, naming a folder may make the run read more
than naming one path does, and the two then merge different trees. A path's
state can only depend on that where the head and home put different entries at
a path the mark held nothing at, and there every such merge is in conflict
(`ConflictWhereBothHold`), whatever lies beside or above it. Both properties
except a name below a link or a link named as a folder; the second also a path
that the user wrote since it was read, which only two writes in one run show,
and a file here that is a folder in the target.

`ConvergenceProofs` proves, for every finite set of scopes and machines, every
set of paths and contents and every value of the bounds:

* `TypeTheorem`: `Spec => []TypeOK`.
* `HeadsTheorem`: `Spec => []HeadsHoldWhatWasPublished`.
* `GrowthTheorem`: `Spec => RemoteGrows`.
* `DeletionTheorem`: `Spec => DeletionStands`.

The assumptions are those of `Convergence` and `History`: `FleetIsFounded`,
`NamesAreTheScopes`, `GoneIsNoCommit`, `BoundsAreNumbers` and `PathsExist`. That
the scopes a fleet starts with were created one on another is no assumption of
its own: it is what `IsDag(FoundedOn)`, a part of `FleetIsFounded`, comes to
(`AncestorsAreOrdered`).

The module opens with what is true of any finite graph of scopes, by induction
on how many scopes are left: a number the claim fails for gives a least one
(`FirstOutside`). `ScopesAreOrdered` is that the function `CascadeOrder` defines
recursively exists, as each turn leaves fewer scopes (`FewerAreLeft`);
`CascadeGoesDown` that in the order it computes no scope comes before one it
hangs off; `EveryScopeHasItsTurn` that, if `IsDag` holds, it has every scope of
the graph. `NearestLeadEverywhere` is about `derive`, which keeps only the
nearest of the scopes above one: what can be chained and holds of the nearest
holds of all.

The inductive invariant is about a head, what its machine last saw of the
branch, and what a pass has made of it so far. `Holds` says what a head owes:
if something was seen, one of its sides has it for an ancestor; if nothing was,
the head is at nothing or carries a creation of the scope other than the first
(`Anew`); and a contested head is between what was seen and a position of the
machine's own that holds what the two parted from. The third part is not in the
property and is what makes it inductive: `jj` finds the machine's own side of a
contested head again by taking away what was seen, and without it the next
fetch could merge the wrong side (`ImportHolds`, `MergeTargetsHolds`). `Carries`
says what a pass or a resolution may make of a head: the same head, a commit
that has every side for an ancestor, or the deletion of one contested with a
deletion, and `CarriesHolds` that this keeps `Holds`. `PassOK` then says of a
pass half-way that its heads carry the machine's, that its commits extend the
repository's, and that the scopes it has still to come to are as they were;
`ConvergeScopeKeeps` is one turn of it. For that a turn's new commit must be on
every side of the head it replaces, though `HeadsOf` drops the sides that are
ancestors of another: `HeadsReachAll`, by the size of the ancestries.

`RemoteGrows` and `DeletionStands` follow at the step that moves a branch. A
branch moves only with the lease (`RemoteMoves`), so what the machine saw is
what is there, and what `Holds` says of the head is said of the branch
(`PushHolds`). This covers the races: a push of part of the branches, a refusal
and a second pass, a death between the push and its being recorded, a deletion
of the one and not of the other. `Fresh` is that a machine's next commit is new
to the whole fleet, though each machine numbers its own.

`PlacementProofs` proves the same of `PlacementSpec`, whose machines move and
drop files too, as far as it holds there:

* `PlacementTypeTheorem`: `PlacementSpec => []TypeOK`.
* `PlacementHeadsTheorem`: `PlacementSpec => []HeadsHoldWhatWasPublished`.
* `PlacementGrowthTheorem`: `PlacementSpec => PublishedScopesGrow`, what
  `RemoteGrows` says of a branch that is there.

The second pass of a placement can leave a local branch of a scope whose
deletion the first one accepted (section 5, `placement_deleted`). It is none of
the machine's scopes, so it is never pushed, but it is a head where nothing was
seen and nothing was created, which the invariant above excludes. So the
invariant has a parameter, `del`. With `"stand"` it is the one above. With
anything else `Anew` asks for nothing, `Carries` has a fourth case, a commit in place of a head contested with
a deletion, and `PassOK` no longer says that the scopes a pass has still to come
to are as they were: the second pass of a placement comes to them again
(`PlanPlacementKeeps`). The lemmas about the steps of `Convergence` hold for
every `del`, and `NextKeeps` with them, so only the steps a placement adds are
left; a pass carries on from where the one before left a head (`CarriedOn`).
The graph is in `PassOK` (`IsDag`), for the second pass takes its order from it,
and a pin names a scope and contents whatever the table of the fleet says
(`PlacementPinsAreTyped`). The price is that `DeletionStands`, and what
`RemoteGrows` says of a branch that is not there, are not proved of
`PlacementSpec`; that such a branch is not pushed takes an invariant that tells
it from a scope.

`ConvergenceReportProofs` proves `CleanTheorem`: `Spec =>
[]NothingUnpublishedReadsClean`, for heads that abort or a resumed commit moved
back too, which the invariant above says nothing of. `NamedInv` adds to it that
whatever has a position of a scope, a head, what a machine saw, the remote, a
run's or a record's checkpoint, the parent a recorded commit is to be written
on, has in its history a commit that created the scope (`IsOf`), and what shape
a head has beside what was seen (`Beside`): contested only with what was seen,
and nowhere only where nothing was. That is what makes `status` complete: it
goes by the scopes it derives from the heads' histories, and a head that differs
from what was seen is at a commit, whose history makes the scope one of those.
`ScopesAreNamed` is that it holds in every reachable state.

The same module proves `ReachTheorem`: `Spec => PassReachesScopes`. `ReachOK` says
what a pass half-way has reached. A scope it has passed is deleted, or at one
commit that holds what the machine's head held and what the pass has put at its
parents (`Passed`); one it has still to come to is where the machine has it; what
is left is the rest of the cascade order (`IsRest`); and a pass that says it moved
nothing, and so records nothing, has moved nothing. A scope that is passed must
stay so while the pass goes on, so its parents must be passed before it:
`ParentsComeFirst`, by `EveryScopeHasItsTurn`. `NextHeadReaches` is one turn, and
`GoesOnReaches` the way to the next scope that needs one, for a scope without a
turn is at rest only where it holds its parents' heads already (`AtRestIsPassed`).
When the pass is recorded, `PassReaches` carries what it says of parents to all
that a scope was created below, by `NearestLeadEverywhere`: this can be chained
because each scope on the way is at one commit, which is where a deletion would
break it. The invariant is only about a run's steps called `converge`, as a pass
that lays pins comes to its scopes twice; `PlacementProofs` shows that nothing a
placement does disturbs it, `PlacementReachTheorem`: `PlacementSpec =>
PassReachesScopes`.

Only model-checked:

* `CatchesUp` and `FleetSettles`: liveness is out of this prover's reach.
* `NothingStaleReturns`, `CommitReachesItsMachines`,
  `PlacementKeepsOtherVersions`, `PlacementReachesItsMachines` and
  `TurnedDownForDisagreement`: they are about which contents the recursive
  functions `MergeOf` and `Origins` leave for every history and graph. What is
  proved of `CascadeOrder` goes by a number, the scopes left; a merge goes by the
  histories of its own bases, and the induction over those is not done.

## 5. Where the code and what is said of it part

Each of these is a run that expects TLC's counterexample.

* `home_undo`, `RepairCarriesEdits`. A run that recorded its switch dies before
  it writes the state file; the user then takes a file back to what the state
  file still names, which in the run is that there was none. The repair's merge
  has that tree for its base, so the user's change is "no change" and the
  interrupted head's version is written again (`home.rs:612`). An edit that a run
  only amended before it died can be written again in the same way; the property
  leaves that out (`wcMark = stMark`), the comment being about interrupted syncs.
* `convergence_abort`, `PublishedIsNeverLost`. `abort` restores the checkpoint
  whatever has been fetched since it was taken. In the run that is a fetch of the
  run that stops: its push lost the race, and the pass over what won stops. The
  next push replaces newer published commits: their position was just fetched,
  so the lease holds (`pause.rs:590`).
* `convergence_resume`, `ResolutionBuildsOnPublished`. `continue` writes a
  stopped commit on the parent its record names, not on the head a fetch has
  moved since, and publishes over what was fetched (`pause.rs:449`).
* `placement_deleted`, `MovedVersionIsHeld`. The first pass of a `move` accepts
  the deletion of a scope whose head is contested with one. The second, over the
  graph of before, comes to that scope again and lays the pin there, on a commit
  over its parents' heads (`place.rs:338`). No creation of the scope is in that
  commit's history, so it is no scope from then on and `push_scope_updates`
  never offers it (`repo.rs:294`): a `move` to it succeeds, takes the version off
  the scope that held it and gives it to none (`DESIGN.md:375` has "`--to` holds
  the version `--from` held"). In the run, `m1` moved `lap` by a push it died
  recording, and `m2` deletes `lap`.
* `convergence_cycle`, `GraphIsADag`. One machine creates `lap` below `m2` while
  another deletes `m2`, which has no child where it looks; `m2` joins again,
  below `lap`. The name `m2` now has two creation commits in reach, one older
  than `lap`'s and one younger, so each scope is above the other and the
  assertion of `in_cascade_order` ends every run of that machine
  (`scope_graph.rs:120`, and `:304` for what it relies on).

* `working_copy_untracked`, `UntrackedIsLeftAlone`. `status` with a folder reads
  the untracked files it lists, and what a run reads becomes the working-copy
  commit. From then on they count as written by dotsync: an `abort`, which takes
  home to the head's tree, removes them (`status.rs:180`; `DESIGN.md:216` has
  an untracked file "not managed"). It takes a merge or a commit that waits, or
  `abort` does nothing (`pause.rs:580`); the module leaves that to the repository.

More departures from what the code's comments and `DESIGN.md` say show in the
model and have no run of their own:

* Two machines resolve one conflict differently. The two resolutions have two
  common ancestors whose merge is that conflict; both sides cancel against it and
  the content from before the conflict is what is left, without a stop
  (`converge.rs:479`; `docs/SKILL.md:66` has a run stop "where two sides changed
  the same file differently"). `NothingStaleReturns` excepts this (`Crossed`);
  `convergence_stops` has the two answers it takes. It rests on `jj_lib`'s trivial
  merge as `History` models it.
* Where a scope is below another in two ways (`BelowTwice`), the merge of its
  parents can have several bases that disagree themselves. A placement further up
  can then be turned down, or change a machine below, though the versions beside
  it do not ask for that (`place.rs`, `carry_out`; `DESIGN.md`, Placement).
  `TurnedDownForDisagreement` and `PlacementReachesItsMachines` except it.
* Scopes deleted and created again across each other need not give the cycle of
  `convergence_cycle`: when only the nearest are kept the cycle can be among those
  that are not. No assertion fails then, and a pass may leave a scope without what
  one it was created below holds (`scope_graph.rs`, `derive`).
  `PassReachesScopes` promises such a fleet what the parents hold.
* A checkout that fails part-way leaves files ahead of the mark; if the head
  moves once more before the next run, such a file conflicts though nobody
  edited it (`home.rs:687` says it merges cleanly).
* A scope can lose its parent, because `delete-scope` refuses a scope with
  children only by what it fetched; the child then hangs off what the deleted
  one hung off (`bootstrap.rs:385`, "Only a scope nothing hangs off can go").
* A read-only command that finds an interrupted run completes it and so writes
  home (`DESIGN.md:266` says it never does; `AcquireFresh` and its siblings do
  not look at the command).
* A rewinding repair rewinds every path, so files the dead run had delivered
  read as edits (`home.rs:621`).
* An abort to a checkpoint from before a deletion publishes the deleted scope
  again (`converge.rs:217`, "the deletion wins").
* `commit` publishes before it plans, so a pause is not always a run that
  published nothing (`DESIGN.md:305`).
* An edit at a path another machine removed is a conflict at which the sync
  stops (`StopsSync`), where the table of the design says it is carried as any
  edit is (`DESIGN.md:209`).
* Where the head holds an entry at a folder of home, or home one at a folder of
  the head, the merge settles for one of them whole: an uncommitted edit under
  the folder goes with it, without a conflict (`settle_folder_terms`,
  `home.rs:889`; `DESIGN.md:180`). `EachSideKeepsItsChanges` excepts it
  (`InReplacedFolder`).
* A file dotsync does not manage that stands where a folder has to be is not
  looked for before the first write, so such a checkout fails half-way
  (`working_copy.rs:549`, "so a checkout that cannot finish changes nothing").
  `OnlyAFileForAFolderFails` says it is the only such case.
* A sync that ended part-way on a folder that becomes a link, one of the mark or
  one only home's tree knows, or on an entry that becomes a folder of several,
  stops when it is run again (`CannotBeTakenUp`, against `DESIGN.md:136`).
* A name that is a link here and a folder in the target scope is walked through
  the link, and so is a name below a link (`WalksThroughALink`,
  `selection.rs:216`): what is found has other names than the one asked for.
* A file under a folder that is named, which the target holds a folder at, is
  taken as a path nobody manages; by its own name the commit stops at it, as a
  folder that cannot be listed (`selection.rs:222`).
* After a `status` with a folder the next one no longer lists the files the
  first one read (`status.rs:176`, against `DESIGN.md:353`).

## 6. What is not modelled

* Two runs at once on one machine. The lock serializes those that acquire home,
  but the session is opened, and a waiting merge looked for, before it
  (`commit.rs:114`), and `create-scope` and `delete-scope` never take it. What
  happens then is jj's merge of two operations, which is not in `src/`.
* The first `init` of a fleet and a machine's first clone, joining under another
  name, and adopting a scope that exists: the modelled machines have joined.
* A placement of several paths, and dry runs: a dry run stops before the pins
  are recorded and changes nothing.
* A commit of several paths is not run through `Convergence`. `Selection` says
  which paths it would take, for a target that holds what the machine's head or
  mark does; it reads the walk and the contents at one moment. Names that lead
  out of home or into dotsync's own repository are left out.
* `WorkingCopy` has no deaths and no line merge: those are `Home`'s. Each write
  of one path is one step. Modes and contents are values. Every `abort` there is
  one for which something waits.
* That `Home` implements `Delivery` is not checked: the two share the reading,
  the decision and the order of writing, and `Home` adds repairs to them.
* The upgrade from the releases that kept `sync-state.json`.
* `inspect.rs` reads trees and prints them; `main.rs`, `render.rs`, `error.rs`
  and `paths.rs` parse and format. Marker detection in a resolution, reporting,
  JSON, exit codes: they change no state the properties are about.

## 7. Where it can go on

1. Lemmas about what one merge and one pin leave at a path, by an induction on the
   size of a history, for `CommitReachesItsMachines` and the placement's properties.
2. A commit as a run of `WorkingCopy`: it reads what it selects, and then syncs.
3. Two runs on one machine.
