---------------------------- MODULE Convergence ----------------------------
(* The fleet: machines that share a git remote, each with its own copy of   *)
(* every scope's head, moving them by the convergence pass and publishing   *)
(* them with a lease.  A run is a list of steps; between any two of them    *)
(* another machine may act, the remote may be out of reach, and the run may *)
(* die.                                                                     *)
(*                                                                          *)
(* A pass works in a transaction of its own: nothing it reads or writes is  *)
(* seen by another machine before it ends, so it runs uninterrupted here.   *)
EXTENDS Fleet

CONSTANTS
    Machines,       \* the machines, each named as its own scope is
    Founded,        \* the scopes of the fleet at the start, theirs among them
    FoundedOn,      \* the scopes each of those was created on
    Commands,       \* the commands the users of this fleet give
    MaxEdits,       \* bound: how many commits, creations, deletions they ask for
    MaxAnswers,     \* bound: how many resolutions they write
    MaxFailures,    \* bound: how many steps fail or runs die
    MaxRuns         \* bound: how many machines run dotsync at once

PUSH_ATTEMPTS == 3

ASSUME FleetIsFounded ==
    /\ Machines \subseteq Founded /\ Founded \subseteq Scopes
    /\ FoundedOn \in [Founded -> SUBSET Founded]
    /\ IsDag(FoundedOn)
    /\ \A m \in Machines : ChildrenOf(FoundedOn, m) = {}
ASSUME PathsExist == Paths # {}
ASSUME GoneIsNoCommit == Gone \notin Scopes \X Nat
ASSUME BoundsAreNumbers == {MaxEdits, MaxAnswers, MaxFailures, MaxRuns} \subseteq Nat

Ids == Scopes \X Nat
Creation(s) == <<s, 0>>

VARIABLES
    commits,    \* the history: every commit any machine recorded
    written,    \* how many commits each machine has written
    remote,     \* where the shared remote has each scope's branch
    local,      \* where each machine has each scope's head
    tracked,    \* where each machine last saw the remote's branch
    mark,       \* the commit each machine's home was last moved to
    record,     \* the file beside each repository about the run that stopped
    run,        \* the run on each machine
    pass,       \* the convergence pass under way, if there is one
    stopped,    \* history: where each machine's last convergence stopped
    rewound,    \* history: scopes a machine moved off what it held
    edits, answers, failures

repo     == <<commits, written, remote, local, tracked>>
asked    == <<edits, answers>>
counters == <<asked, failures>>
vars     == <<repo, mark, record, run, pass, stopped, rewound, counters>>

-----------------------------------------------------------------------------
NoEdit       == [scope |-> NoScope, path |-> CHOOSE p \in Paths : TRUE,
                 value |-> Absent, on |-> {}]
NoPins       == {}
NoAnswer     == [scope |-> NoScope, values |-> EmptyTree]
NoCheckpoint == [s \in Scopes |-> Gone]
NoCommit     == [scope |-> NoScope, path |-> NoEdit.path, parent |-> Gone]
NoRecord     == [saved |-> FALSE, checkpoint |-> NoCheckpoint,
                 commit |-> NoCommit]
NoPass       == [by |-> NoScope]
Idle == [cmd |-> "none", steps |-> <<>>, attempt |-> 1, edit |-> NoEdit,
         pins |-> NoPins, answer |-> NoAnswer, checkpoint |-> NoCheckpoint]

(* The graph as each machine derives it. *)
Parents(m)    == ParentsOf(commits, local[m])
Members(m)    == MembersOf(commits, local[m])

(* Where every scope stands that stands at one commit. *)
Checkpoint(heads) ==
    [s \in Scopes |-> IF HasConflict(heads[s]) THEN Gone ELSE TheOne(heads[s])]

Quiet == pass = NoPass
Free(m) == Quiet /\ run[m].steps = <<>>
AtStep(m, step) == run[m].steps # <<>> /\ Head(run[m].steps) = step

RunEnds(m)  == run' = [run EXCEPT ![m] = Idle]
Goes(m, r)  == IF r.steps = <<>> THEN RunEnds(m) ELSE run' = [run EXCEPT ![m] = r]
Advances(m) == Goes(m, [run[m] EXCEPT !.steps = Tail(@)])

Init ==
    /\ commits = [i \in Founded \X {0} |->
                    [anc     |-> {Creation(s) : s \in AncestorsAndSelf(FoundedOn, i[1])},
                     tree    |-> EmptyTree,
                     wrote   |-> {},
                     creates |-> i[1]]]
    /\ written = [m \in Machines |-> 0]
    /\ remote  = [s \in Scopes |-> IF s \in Founded THEN Creation(s) ELSE Gone]
    /\ local   = [m \in Machines |-> [s \in Scopes |-> At(remote[s])]]
    /\ tracked = [m \in Machines |-> remote]
    /\ mark    = [m \in Machines |-> Creation(m)]
    /\ record  = [m \in Machines |-> NoRecord]
    /\ run     = [m \in Machines |-> Idle]
    /\ pass = NoPass
    /\ stopped = [m \in Machines |-> NoScope]
    /\ rewound = {}
    /\ edits = 0 /\ answers = 0 /\ failures = 0

-----------------------------------------------------------------------------
(* Commands. *)

MayStart(m, cmd) ==
    /\ Free(m) /\ cmd \in Commands
    /\ Cardinality({n \in Machines : run[n].steps # <<>>}) < MaxRuns

Starts(m, cmd, steps, edit, values) ==
    /\ MayStart(m, cmd)
    /\ Goes(m, [Idle EXCEPT !.cmd = cmd, !.steps = steps, !.edit = edit,
                            !.answer.values = values])
    /\ UNCHANGED <<repo, mark, record, pass, stopped, rewound, failures>>

(* status and the other reports: they fetch *)
StartRead(m) ==
    /\ Starts(m, "read", <<"fetch">>, NoEdit, EmptyTree)
    /\ UNCHANGED asked

StartSync(m) ==
    /\ Starts(m, "sync", <<"fetch", "converge", "publish", "home">>, NoEdit,
              EmptyTree)
    /\ UNCHANGED asked

(* The user names one file of home, changed or not, and commits it to a     *)
(* scope above.                                                             *)
StartCommit(m, s, p, v) ==
    /\ edits < MaxEdits /\ MayStart(m, "commit")
    /\ s \in AncestorsAndSelf(Parents(m), m)
    /\ Starts(m, "commit",
              <<"check", "fetch", "converge", "publish", "plan", "converge",
                "publish", "home">>,
              [scope |-> s, path |-> p, value |-> v, on |-> {}], EmptyTree)
    /\ edits' = edits + 1 /\ UNCHANGED answers

(* create-scope, on scopes the user sees. *)
StartCreate(m, s, on) ==
    /\ edits < MaxEdits /\ MayStart(m, "create")
    /\ s \notin Members(m) /\ on # {} /\ on \subseteq Members(m)
    /\ Starts(m, "create", <<"check", "fetch", "create", "push">>,
              [NoEdit EXCEPT !.scope = s, !.on = on], EmptyTree)
    /\ edits' = edits + 1 /\ UNCHANGED answers

(* init on a machine whose scope another machine deleted: it joins again. *)
StartJoin(m, on) ==
    /\ edits < MaxEdits /\ MayStart(m, "join")
    /\ m \notin Members(m) /\ on # {} /\ on \subseteq Members(m)
    /\ Starts(m, "join", <<"fetch", "create", "push", "home">>,
              [NoEdit EXCEPT !.scope = m, !.on = on], EmptyTree)
    /\ edits' = edits + 1 /\ UNCHANGED answers

StartDelete(m, s) ==
    /\ edits < MaxEdits
    /\ s # m
    /\ Starts(m, "delete", <<"check", "fetch", "delete">>,
              [NoEdit EXCEPT !.scope = s], EmptyTree)
    /\ edits' = edits + 1 /\ UNCHANGED answers

(* The user has written a resolution into home: values. *)
StartContinue(m, values) ==
    /\ answers < MaxAnswers
    /\ Starts(m, "continue",
              IF record[m].commit # NoCommit
              THEN <<"resolve", "forget", "converge", "publish", "home">>
              ELSE <<"find">>,
              NoEdit, values)
    /\ answers' = answers + 1 /\ UNCHANGED edits

StartAbort(m) ==
    /\ Starts(m, "abort",
              IF record[m].commit # NoCommit
              THEN <<"restore", "forget", "home">>
              ELSE <<"find", "restore", "forget", "home">>,
              NoEdit, EmptyTree)
    /\ UNCHANGED asked

-----------------------------------------------------------------------------
(* Fetching. *)

(* mutant: a fetch that only notes where the remote stands *)
ImportsNothing(m) == local[m]

Imported(m) ==
    [s \in Scopes |-> Import(commits, local[m][s], tracked[m][s], remote[s])]

FetchInto(m, heads) ==
    /\ local' = [local EXCEPT ![m] = heads]
    /\ \/ AtStep(m, "fetch")   /\ Goes(m, [run[m] EXCEPT
                                     !.steps = Tail(@),
                                     !.checkpoint = Checkpoint(heads)])
       \/ AtStep(m, "refetch") /\ Advances(m)
    /\ UNCHANGED <<commits, written, remote, mark, record, pass, stopped,
                   rewound, asked>>

Fetch(m) ==
    /\ FetchInto(m, Imported(m))
    /\ tracked' = [tracked EXCEPT ![m] = remote]
    /\ UNCHANGED failures

(* A remote out of reach is not a stop: the run goes on with what it has.   *)
(* Only init ends there, as if it had died.                                 *)
FetchUnreachable(m) ==
    /\ failures < MaxFailures /\ run[m].cmd # "join"
    /\ FetchInto(m, local[m])
    /\ failures' = failures + 1
    /\ UNCHANGED tracked

-----------------------------------------------------------------------------
(* The convergence pass, in cascade order, one step for each scope at which *)
(* there is something to do.                                                *)

PassSteps == {"check", "find", "converge"}

(* What a scope is to hold at a path once the pass has merged it: exactly a *)
(* content, or, where holds names none, whatever its parents hold there.    *)
Pins == [scope : Scopes, path : Paths, holds : SUBSET Contents]

(* A new commit, and what looking for a paused merge is refused by: the     *)
(* record of a commit that stopped.                                         *)
CheckRefuses(m) ==
    /\ AtStep(m, "check") /\ record[m].commit # NoCommit
    /\ RunEnds(m)
    /\ UNCHANGED <<repo, mark, record, pass, stopped, rewound, counters>>

(* mutant: a pass that merges the parents as they were before it *)
StaleInputs(p, s) ==
    HeadsOf(p.commits,
            UNION {AddedIds(local[p.by][t]) : t \in {s} \cup p.parents[s]})

(* What a scope's new head has to account for: its own head's sides and its *)
(* parents' heads as this pass has left them, without what others contain.  *)
Inputs(p, s) ==
    HeadsOf(p.commits,
            UNION {AddedIds(p.heads[t]) : t \in {s} \cup p.parents[s]})

(* mutant: a pin is laid over every scope the pass merges *)
PinsEverywhere(m, s) == run[m].pins

PinsAt(m, s) == {pin \in run[m].pins : pin.scope = s}

(* The pass goes on from p, past the scopes next in turn that have nothing  *)
(* to merge, or only follow their own head: nothing changes at those.       *)
AtRest(p, s) ==
    \/ Inputs(p, s) = {}
    \/ /\ \E c \in AddedIds(p.heads[s]) : IsOne(p.heads[s], c) /\ Inputs(p, s) = {c}
       /\ PinsAt(p.by, s) = {}

PassGoesOn(p) ==
    \E q \in {p} :
        LET due == {i \in 1..Len(q.todo) : ~AtRest(q, q.todo[i])}
        IN  pass' = [q EXCEPT !.todo =
                        IF due = {} THEN <<>>
                        ELSE SubSeq(@, CHOOSE i \in due : \A j \in due : i <= j, Len(@))]

Transacts(m) ==
    /\ \E parents \in {Parents(m)} :
          IF IsDag(parents)
          THEN /\ PassGoesOn([by |-> m, heads |-> local[m], before |-> local[m],
                              parents |-> parents, todo |-> CascadeOrder(parents),
                              moved |-> FALSE, stop |-> NoScope,
                              commits |-> commits, written |-> written[m]])
               /\ UNCHANGED run
          ELSE RunEnds(m) /\ UNCHANGED pass     \* the assertion panics
    /\ UNCHANGED <<repo, mark, record, stopped, rewound, counters>>

BeginPass(m) ==
    /\ \E step \in PassSteps : AtStep(m, step)
    /\ ~(AtStep(m, "check") /\ record[m].commit # NoCommit)
    /\ Transacts(m)

Merged(s) == MergeOf(pass.commits, Inputs(pass, s))

(* The resolution, where the merge it was written for stopped. *)
AnsweredAt(s) ==
    IF run[pass.by].answer.scope = s
    THEN {p \in Paths : ~Resolved(Merged(s)[p])} ELSE {}

(* What a pin makes of its path.  A scope that is to inherit reads its      *)
(* parents as this pass has left them.                                      *)
PinnedAt(s) == {pin.path : pin \in PinsAt(pass.by, s)}
PinLays(s, p) ==
    LET pin == CHOOSE pin \in PinsAt(pass.by, s) : pin.path = p
    IN  IF pin.holds = {}
        THEN InheritedTree(pass.commits, pass.heads, pass.parents, s)[p]
        ELSE Only(CHOOSE v \in pin.holds : TRUE)

(* The merge with the answer, and then the pins, laid over it. *)
Laid(s) ==
    [p \in Paths |->
        IF p \in PinnedAt(s) THEN PinLays(s, p)
        ELSE IF p \in AnsweredAt(s) THEN Only(run[pass.by].answer.values[p])
        ELSE Merged(s)[p]]

Converges(s) ==
    /\ pass # NoPass /\ pass.stop = NoScope /\ pass.todo # <<>>
    /\ s = Head(pass.todo)
    /\ UNCHANGED <<repo, mark, record, run, stopped, rewound, counters>>

(* mutant: a deletion is one side of a merge like any other *)
DeletionIsASide(target) == FALSE

DeletedOnOneSide(target) == HasConflict(target) /\ Gone \in target.sides

ScopeIsDeleted(s) ==
    /\ DeletedOnOneSide(pass.heads[s])
    /\ PassGoesOn([pass EXCEPT !.heads[s] = At(Gone), !.todo = Tail(@),
                                   !.moved = TRUE])

(* One input reaches everything else, and no pin changes what it holds. *)
Follows(laid, inputs) ==
    \E c \in inputs : inputs = {c} /\ laid = TreeEntries(pass.commits[c].tree)

ScopeFollows(s, laid, inputs) ==
    /\ Follows(laid, inputs)
    /\ LET c == CHOOSE c \in inputs : TRUE
       IN  PassGoesOn([pass EXCEPT !.heads[s] = At(c), !.todo = Tail(@),
                                       !.moved = @ \/ ~IsOne(pass.heads[s], c)])

ScopeMerges(s, laid, inputs) ==
    /\ ~Follows(laid, inputs)
    /\ \A p \in Paths : Resolved(laid[p])
    /\ LET id == <<pass.by, pass.written + 1>>
           merged == Merged(s)
           commit == [anc   |-> {id} \cup AncestorsOf(pass.commits, inputs),
                      tree  |-> [p \in Paths |-> ValueOf(laid[p])],
                      wrote |-> {p \in PinnedAt(s) \cup AnsweredAt(s) :
                                    laid[p] # merged[p]},
                      creates |-> NoScope]
       IN  PassGoesOn([pass EXCEPT
                      !.heads[s] = At(id), !.todo = Tail(@), !.moved = TRUE,
                      !.written = @ + 1,
                      !.commits = [i \in DOMAIN @ \cup {id} |->
                                     IF i = id THEN commit ELSE @[i]]])

(* Two sides changed a path differently: the scopes above keep what they    *)
(* got, this one and those below are not reached.                           *)
ScopeStops(s, laid, inputs) ==
    /\ ~Follows(laid, inputs)
    /\ \E p \in Paths : ~Resolved(laid[p])
    /\ pass' = [pass EXCEPT !.stop = s]

ConvergeScope(s) ==
    /\ Converges(s)
    /\ \/ ScopeIsDeleted(s)
       \/ /\ ~DeletedOnOneSide(pass.heads[s])
          /\ LET laid == Laid(s)
                 inputs == Inputs(pass, s)
             IN  \/ ScopeFollows(s, laid, inputs) \/ ScopeMerges(s, laid, inputs)
                 \/ ScopeStops(s, laid, inputs)

PassEnds(m, step) ==
    /\ pass # NoPass /\ pass.by = m /\ AtStep(m, step)
    /\ pass.todo = <<>> \/ pass.stop # NoScope
    /\ pass' = NoPass

(* A commit or a deletion is refused while a merge is waiting. *)
CheckEnds(m) ==
    /\ PassEnds(m, "check")
    /\ IF pass.stop = NoScope THEN Advances(m) ELSE RunEnds(m)
    /\ UNCHANGED <<repo, mark, record, stopped, rewound, counters>>

(* continue and abort look for the merge that waits; without one, abort and *)
(* continue have nothing to do, unless what waits is home: continue then    *)
(* moves home to the head, and publishes what there is.                     *)
FindEnds(m) ==
    /\ PassEnds(m, "find")
    /\ UNCHANGED <<repo, record, stopped, rewound, counters>>

FoundNothing(m) ==
    /\ FindEnds(m) /\ pass.stop = NoScope
    /\ RunEnds(m)
    /\ UNCHANGED mark

ContinueSettlesHome(m) ==
    /\ FindEnds(m) /\ pass.stop = NoScope /\ run[m].cmd = "continue"
    /\ \E c \in AddedIds(local[m][m]) :
         IsOne(local[m][m], c) /\ c # mark[m] /\ mark' = [mark EXCEPT ![m] = c]
    /\ Goes(m, [run[m] EXCEPT !.steps = <<"publish">>,
                              !.checkpoint = Checkpoint(local[m])])

AbortFoundStop(m) ==
    /\ FindEnds(m) /\ pass.stop # NoScope /\ run[m].cmd = "abort"
    /\ Advances(m)
    /\ UNCHANGED mark

ContinueFoundStop(m) ==
    /\ FindEnds(m) /\ pass.stop # NoScope /\ run[m].cmd = "continue"
    /\ Goes(m, [run[m] EXCEPT
                  !.steps = <<"converge", "forget", "publish", "home">>,
                  !.answer.scope = pass.stop,
                  !.checkpoint = IF record[m].saved THEN record[m].checkpoint
                                 ELSE Checkpoint(local[m])])
    /\ UNCHANGED mark

(* mutant: the heads are recorded without the commits they stand at *)
ConvergeLosesCommits(m) ==
    /\ PassEnds(m, "converge")
    /\ local' = [local EXCEPT ![m] = pass.heads]
    /\ stopped' = [stopped EXCEPT ![m] = pass.stop]
    /\ Goes(m, [run[m] EXCEPT
                  !.steps = IF pass.stop = NoScope THEN Tail(@) ELSE <<"save">>,
                  !.pins = NoPins, !.answer = NoAnswer])
    /\ UNCHANGED <<commits, written, remote, tracked, mark, record, rewound,
                   counters>>

(* The transaction is recorded if it moved anything, a stop's too. *)
PassIsRecorded(m, step) ==
    /\ PassEnds(m, step)
    /\ IF pass.moved
       THEN /\ local' = [local EXCEPT ![m] = pass.heads]
            /\ commits' = pass.commits
            /\ written' = [written EXCEPT ![m] = pass.written]
       ELSE UNCHANGED <<local, commits, written>>
    /\ stopped' = [stopped EXCEPT ![m] = pass.stop]
    /\ Goes(m, [run[m] EXCEPT
                  !.steps = IF pass.stop = NoScope THEN Tail(@) ELSE <<"save">>,
                  !.pins = NoPins, !.answer = NoAnswer])
    /\ UNCHANGED <<remote, tracked, mark, record, rewound, counters>>

ConvergeEnds(m) == PassIsRecorded(m, "converge")

-----------------------------------------------------------------------------
(* Publishing. *)

(* mutant: a machine publishes the scope that is its own *)
OwnPending(m) ==
    {s \in {m} : \E c \in AddedIds(local[m][s]) :
                     IsOne(local[m][s], c) /\ tracked[m][s] # c}

(* The scopes whose head is one commit and not where the remote was seen.   *)
(* A branch that lost its creation commit is no scope, and is not offered.  *)
Pending(m) ==
    {s \in Members(m) : \E c \in AddedIds(local[m][s]) :
                           IsOne(local[m][s], c) /\ tracked[m][s] # c}

(* mutant: the push is forced without a lease *)
Forced(m, s) == TRUE

(* The remote takes a branch if it is where this machine last saw it. *)
Leased(m, s) == remote[s] = tracked[m][s]

PushedTo(m, taken) ==
    [s \in Scopes |-> IF s \in taken THEN TheOne(local[m][s]) ELSE remote[s]]

(* A creation is pushed once, without the loop. *)
AtPush(m) == AtStep(m, "publish") \/ AtStep(m, "push")

(* refused: the branches whose update the remote turns down of its own      *)
(* accord.  A push that only lost the race is converged and made again.     *)
Publish(m, refused) ==
    /\ AtPush(m)
    /\ refused \subseteq Pending(m)
    /\ refused = {} \/ failures < MaxFailures
    /\ LET taken == {s \in Pending(m) \ refused : Leased(m, s)} IN
       /\ remote' = PushedTo(m, taken)
       /\ tracked' = [tracked EXCEPT ![m] =
                        [s \in Scopes |-> IF s \in taken THEN remote'[s] ELSE @[s]]]
       /\ Goes(m, IF AtStep(m, "publish") /\ taken # Pending(m) /\ refused = {}
                     /\ run[m].attempt < PUSH_ATTEMPTS
                  THEN [run[m] EXCEPT !.attempt = @ + 1,
                                      !.steps = <<"refetch", "converge">> \o @]
                  ELSE [run[m] EXCEPT !.attempt = 1, !.steps = Tail(@)])
    /\ failures' = IF refused = {} THEN failures ELSE failures + 1
    /\ UNCHANGED <<commits, written, local, mark, record, pass, stopped,
                   rewound, asked>>

PublishUnreachable(m) ==
    /\ AtPush(m) /\ Pending(m) # {}
    /\ failures < MaxFailures
    /\ Goes(m, [run[m] EXCEPT !.attempt = 1, !.steps = Tail(@)])
    /\ failures' = failures + 1
    /\ UNCHANGED <<repo, mark, record, pass, stopped, rewound, asked>>

(* The remote took the push, and the run died before it recorded that. *)
DiesAfterPush(m) ==
    /\ AtPush(m) /\ Pending(m) # {}
    /\ failures < MaxFailures
    /\ remote' = PushedTo(m, {s \in Pending(m) : Leased(m, s)})
    /\ RunEnds(m)
    /\ failures' = failures + 1
    /\ UNCHANGED <<commits, written, local, tracked, mark, record, pass, stopped,
                   rewound, asked>>

-----------------------------------------------------------------------------
(* commit: home's edit against the scope as home last derived from it. *)

EditBase(m, e, head) ==
    LET held == MergeOf(commits, CommonAncestors(commits, {head}, {mark[m]}))
    IN  IF held[e.path] = Only(Absent) THEN held[e.path]
        ELSE Only(commits[mark[m]].tree[e.path])

EditMerge(m, e, head) ==
    Simplify([v \in Contents |-> Only(commits[head].tree[e.path])[v]
                                 - EditBase(m, e, head)[v] + Only(e.value)[v]])

(* Where a named path stands against the machine's own scope, which by now  *)
(* is one commit: recording what home holds must not undo what home has not *)
(* been given yet.                                                          *)
D == INSTANCE Drift WITH Links <- {}, Conflict <- Gone

Selects(m, e) ==
    \E c \in AddedIds(local[m][m]) :
        /\ IsOne(local[m][m], c)
        /\ D!Classify(commits[mark[m]].tree[e.path], e.value, commits[c].tree[e.path],
                      FALSE) \notin D!BlockingStates

Plan(m) ==
    /\ AtStep(m, "plan")
    /\ LET e == run[m].edit
           head == TheOne(local[m][e.scope])
           entry == EditMerge(m, e, head)
       IN  IF head = Gone \/ HasConflict(local[m][e.scope]) \/ ~Selects(m, e)
                \/ e.scope \notin AncestorsAndSelf(Parents(m), m)
                \/ entry = Only(commits[head].tree[e.path])
           THEN RunEnds(m) /\ UNCHANGED record
           ELSE IF Resolved(entry)
           THEN /\ Goes(m, [run[m] EXCEPT
                              !.steps = Tail(@),
                              !.pins = {[scope |-> e.scope, path |-> e.path,
                                         holds |-> {ValueOf(entry)}]}])
                /\ UNCHANGED record
           ELSE /\ record' = [record EXCEPT ![m] =
                      [saved |-> TRUE, checkpoint |-> run[m].checkpoint,
                       commit |-> [scope |-> e.scope, path |-> e.path,
                                   parent |-> head]]]
                /\ RunEnds(m)
    /\ UNCHANGED <<repo, mark, pass, stopped, rewound, counters>>

-----------------------------------------------------------------------------
(* A stop, and its two ways on. *)

(* The record of where this run started, for abort. *)
Save(m) ==
    /\ AtStep(m, "save")
    /\ record' = [record EXCEPT ![m] =
         [saved |-> TRUE, checkpoint |-> run[m].checkpoint, commit |-> NoCommit]]
    /\ RunEnds(m)
    /\ UNCHANGED <<repo, mark, pass, stopped, rewound, counters>>

(* The commit that stopped is written on the parent its record names. *)
Resolve(m) ==
    /\ AtStep(m, "resolve")
    /\ LET c  == record[m].commit
           id == <<m, written[m] + 1>>
           new == [anc   |-> {id} \cup commits[c.parent].anc,
                   tree  |-> [commits[c.parent].tree EXCEPT
                                ![c.path] = run[m].answer.values[c.path]],
                   wrote |-> {c.path},
                   creates |-> NoScope]
       IN  /\ commits' = [i \in DOMAIN commits \cup {id} |->
                            IF i = id THEN new ELSE commits[i]]
           /\ local' = [local EXCEPT ![m][c.scope] = At(id)]
           /\ rewound' = IF IsOne(local[m][c.scope], c.parent) THEN rewound
                         ELSE rewound \cup {c.scope}
           /\ written' = [written EXCEPT ![m] = @ + 1]
    /\ Goes(m, [run[m] EXCEPT !.steps = Tail(@), !.answer = NoAnswer,
                              !.checkpoint = record[m].checkpoint])
    /\ UNCHANGED <<remote, tracked, mark, record, pass, stopped, counters>>

(* abort: every scope of the checkpoint goes back where the run found it. *)
Restore(m) ==
    /\ AtStep(m, "restore")
    /\ LET back == {s \in Scopes : record[m].checkpoint[s] # Gone} IN
       /\ local' = [local EXCEPT ![m] =
            [s \in Scopes |-> IF s \in back THEN At(record[m].checkpoint[s])
                                            ELSE @[s]]]
       /\ rewound' = rewound \cup {s \in back : local'[m][s] # local[m][s]}
    /\ Advances(m)
    /\ UNCHANGED <<commits, written, remote, tracked, mark, record, pass, stopped,
                   counters>>

Forget(m) ==
    /\ AtStep(m, "forget")
    /\ record' = [record EXCEPT ![m] = NoRecord]
    /\ Advances(m)
    /\ UNCHANGED <<repo, mark, pass, stopped, rewound, counters>>

-----------------------------------------------------------------------------
(* create-scope and joining: a commit on the heads of the parents, which    *)
(* have to exist and to merge; a name that is taken is refused.             *)

Create(m) ==
    /\ AtStep(m, "create")
    /\ LET s    == run[m].edit.scope
           on   == {TheOne(local[m][t]) : t \in run[m].edit.on}
           tree == MergeOf(commits, on)
           id   == <<m, written[m] + 1>>
       IN  IF /\ local[m][s] = At(Gone)
              /\ \A t \in run[m].edit.on : t \in Members(m) /\ ~HasConflict(local[m][t])
              /\ \A p \in Paths : Resolved(tree[p])
           THEN /\ commits' = [i \in DOMAIN commits \cup {id} |->
                     IF i = id
                     THEN [anc     |-> {id} \cup AncestorsOf(commits, on),
                           tree    |-> [p \in Paths |-> ValueOf(tree[p])],
                           wrote   |-> {},
                           creates |-> s]
                     ELSE commits[i]]
                /\ local' = [local EXCEPT ![m][s] = At(id)]
                /\ written' = [written EXCEPT ![m] = @ + 1]
                /\ Advances(m)
           ELSE RunEnds(m) /\ UNCHANGED <<commits, local, written>>
    /\ UNCHANGED <<remote, tracked, mark, record, pass, stopped, rewound, counters>>

(* delete-scope: the remote's branch first, then this machine's own. *)

MayDelete(m, s) == s \in Members(m) /\ ChildrenOf(Parents(m), s) = {}

Delete(m) ==
    /\ AtStep(m, "delete")
    /\ LET s == run[m].edit.scope IN
       IF MayDelete(m, s) /\ (tracked[m][s] = Gone \/ Leased(m, s))
       THEN /\ remote' = IF tracked[m][s] = Gone THEN remote
                         ELSE [remote EXCEPT ![s] = Gone]
            /\ \/ /\ local' = [local EXCEPT ![m][s] = At(Gone)]
                  /\ tracked' = [tracked EXCEPT ![m][s] = Gone]
                  /\ UNCHANGED failures
               \/ /\ failures < MaxFailures     \* dies before it records it
                  /\ failures' = failures + 1
                  /\ UNCHANGED <<local, tracked>>
       ELSE UNCHANGED <<remote, local, tracked, failures>>
    /\ RunEnds(m)
    /\ UNCHANGED <<commits, written, mark, record, pass, stopped, rewound, asked>>

-----------------------------------------------------------------------------
(* Home is moved to the machine's own scope, or a local change is in the    *)
(* way (module Home); a machine whose scope is gone stops.                  *)
SyncHome(m) ==
    /\ AtStep(m, "home")
    /\ mark' \in {mark, IF \E c \in AddedIds(local[m][m]) : IsOne(local[m][m], c)
                        THEN [mark EXCEPT ![m] = TheOne(local[m][m])] ELSE mark}
    /\ RunEnds(m)
    /\ UNCHANGED <<repo, record, pass, stopped, rewound, counters>>

Crash(m) ==
    /\ run[m].steps # <<>> /\ failures < MaxFailures
    /\ RunEnds(m)
    /\ failures' = failures + 1
    /\ UNCHANGED <<repo, mark, record, pass, stopped, rewound, asked>>

-----------------------------------------------------------------------------
PassStep(m) ==
    /\ pass.by = m
    /\ \/ \E s \in Scopes : ConvergeScope(s)
       \/ CheckEnds(m) \/ FoundNothing(m) \/ ContinueSettlesHome(m)
       \/ AbortFoundStop(m) \/ ContinueFoundStop(m) \/ ConvergeEnds(m)

RunStep(m) ==
    /\ Quiet
    /\ \/ Fetch(m) \/ CheckRefuses(m) \/ BeginPass(m) \/ Publish(m, {})
       \/ Plan(m) \/ Save(m) \/ Resolve(m) \/ Restore(m) \/ Forget(m)
       \/ Create(m) \/ Delete(m) \/ SyncHome(m)

Start(m) ==
    /\ Free(m)
    /\ \/ StartRead(m) \/ StartSync(m) \/ StartAbort(m)
       \/ \E s \in Scopes, p \in Paths, v \in Contents : StartCommit(m, s, p, v)
       \/ \E s \in Scopes : StartDelete(m, s)
       \/ \E s \in Scopes, on \in SUBSET Scopes : StartCreate(m, s, on)
       \/ \E on \in SUBSET Scopes : StartJoin(m, on)
       \/ \E values \in Trees : StartContinue(m, values)

Fails(m) ==
    /\ Quiet /\ failures < MaxFailures
    /\ \/ FetchUnreachable(m) \/ PublishUnreachable(m) \/ DiesAfterPush(m)
       \/ \E refused \in (SUBSET Scopes) \ {{}} : Publish(m, refused)
       \/ Crash(m)

Next == \E m \in Machines : PassStep(m) \/ RunStep(m) \/ Start(m) \/ Fails(m)

(* A run that is not cut short goes on, and every machine's user runs       *)
(* dotsync again and again.  Only the passes of other machines, which run   *)
(* uninterrupted here and in parallel in life, disable a step now and then. *)
Fairness == \A m \in Machines : /\ WF_vars(PassStep(m)) /\ SF_vars(RunStep(m))
                                /\ SF_vars(StartSync(m))

Spec == Init /\ [][Next]_vars /\ Fairness
-----------------------------------------------------------------------------
Steps == PassSteps \cup {"fetch", "refetch", "publish", "push", "plan", "home",
                         "save", "resolve", "restore", "forget", "create", "delete",
                         "place", "lay"}      \* the last two: module Placement
Edits   == [scope : Scopes \cup {NoScope}, path : Paths, value : Contents,
            on : SUBSET Scopes]
Targets == [sides : (SUBSET (Ids \cup {Gone})) \ {{}}, base : Ids \cup {Gone}]

(* The type invariant. *)
TypeOK ==
    /\ DOMAIN commits \subseteq Ids
    /\ \A c \in DOMAIN commits :
          /\ commits[c].anc \subseteq DOMAIN commits
          /\ commits[c].tree \in Trees /\ commits[c].wrote \subseteq Paths
          /\ commits[c].creates \in Scopes \cup {NoScope}
    /\ written \in [Machines -> Nat]
    /\ remote \in [Scopes -> DOMAIN commits \cup {Gone}]
    /\ \A m \in Machines : \A s \in Scopes :
          /\ tracked[m][s] \in DOMAIN commits \cup {Gone}
          /\ local[m][s].sides \subseteq DOMAIN commits \cup {Gone}
          /\ Cardinality(local[m][s].sides) \in {1, 2}
          /\ local[m][s].base \in DOMAIN commits \cup {Gone}
    /\ mark \in [Machines -> DOMAIN commits]
    /\ \A m \in Machines :
          /\ record[m].saved \in BOOLEAN
          /\ record[m].commit.parent \in DOMAIN commits \cup {Gone}
          /\ run[m].cmd \in Commands \cup {"none"}
          /\ \A i \in 1..Len(run[m].steps) : run[m].steps[i] \in Steps
          /\ run[m].attempt \in 1..PUSH_ATTEMPTS
          /\ run[m].edit \in Edits /\ run[m].pins \subseteq Pins
    /\ stopped \in [Machines -> Scopes \cup {NoScope}]
    /\ rewound \subseteq Scopes
    /\ edits \in 0..MaxEdits /\ answers \in 0..MaxAnswers /\ failures \in 0..MaxFailures

Descends(c, from) == from \in commits'[c].anc

(* Somebody created the scope since the fleet was founded. *)
CreatedSince(s) == \E c \in DOMAIN commits' \ {Creation(s)} : commits'[c].creates = s

(* Published history is only added to: whatever races, retries, refusals    *)
(* and deaths, a branch of the remote moves to a descendant of where it     *)
(* was, or is deleted for good or until it is created again, unless a       *)
(* machine had first moved the scope off what it held, which only abort and *)
(* a resumed commit do.  The pushes are forced with a lease, so nothing but *)
(* the machine's own order of steps keeps this (repo.rs,                    *)
(* push_scope_updates; converge.rs, publish).                               *)
RemoteGrows ==
    [][\A s \in Scopes \ rewound : remote'[s] # remote[s] =>
          \/ remote'[s] = Gone
          \/ remote[s] = Gone /\ CreatedSince(s)
          \/ remote[s] # Gone /\ Descends(remote'[s], remote[s])]_vars

(* The same for one machine: a head holds everything the machine saw        *)
(* published, as one commit or as a side still to be merged, unless the     *)
(* machine moved the scope back.  This is what makes a push that wins its   *)
(* lease safe to force.                                                     *)
HeadsHoldWhatWasPublished ==
    Quiet => \A m \in Machines, s \in Scopes \ rewound :
        tracked[m][s] # Gone =>
            \E c \in AddedIds(local[m][s]) : tracked[m][s] \in commits[c].anc

(* What a recorded pass of machine m owes a scope that is to hold those in  *)
(* above, and every scope it derived.                                       *)
Reaches(m, s, above) ==
    IF \E i \in 1..Len(pass.todo) : pass.todo[i] = s
    THEN local'[m][s] = local[m][s]
    ELSE \/ local'[m][s] = At(Gone) /\ DeletedOnOneSide(local[m][s])
         \/ \E c \in AddedIds(local'[m][s]) :
              /\ IsOne(local'[m][s], c)
              /\ AddedIds(local[m][s]) \subseteq commits'[c].anc
              /\ \A t \in above : AddedIds(local'[m][t]) \subseteq commits'[c].anc

ReachesScopes(m) ==
    LET reached == Reached(commits, local[m])
        above   == IF /\ IsDag(reached)
                      /\ \A s \in DOMAIN reached : local'[m][s] # At(Gone)
                   THEN reached ELSE Parents(m)
    IN  \A s \in DOMAIN reached : Reaches(m, s, above[s])

(* A pass reaches every scope it passes: when it is recorded, the scopes    *)
(* before the one it stopped at (all of them, if it did not stop) stand at  *)
(* one commit that holds what the scope held and what its parents now hold; *)
(* indeed what every scope it was created below holds, however far up and   *)
(* whatever was deleted in between before this run, unless this pass comes  *)
(* upon a deletion or names created twice have been created across each     *)
(* other.  The scopes it did not pass are where they were (converge.rs,     *)
(* pass; scope_graph.rs, derive).                                           *)
PassReachesScopes == [][\A m \in Machines : ConvergeEnds(m) => ReachesScopes(m)]_vars

(* A commit reaches the machines below its scope and no other: the pass     *)
(* that lays it down changes what no machine elsewhere is given, and no     *)
(* other path anywhere, though it merges every scope below on the way       *)
(* (commit.rs, commit_in_session; converge.rs, pass).                       *)
CommitReachesItsMachines ==
    [][\A m \in Machines : (ConvergeEnds(m) /\ pass.stop = NoScope) =>
          \A pin \in run[m].pins, p \in Paths :
             Effect(pass.commits, pass.before, pass.heads, pass.parents, p)
                \subseteq IF p = pin.path THEN MachinesBelow(pass.parents, pin.scope)
                          ELSE {}]_vars

(* What status says of the fleet: the scopes whose head is contested, and   *)
(* those the remote has not been given.  A machine it names neither for     *)
(* stands where it last saw the remote, whatever died, was refused or was   *)
(* rolled back before: nothing unpublished reads as clean (status.rs,       *)
(* MachineState; repo.rs, unpushed_scopes).                                 *)
Diverged(m) == {s \in Members(m) : HasConflict(local[m][s])}

NothingUnpublishedReadsClean ==
    \A m \in Machines :
        (Diverged(m) = {} /\ Pending(m) = {}) =>
            \A s \in Scopes : local[m][s] = At(tracked[m][s])

(* The decisions a commit's tree can come from: those in its history that   *)
(* no later one in it had seen and made again.                              *)
LastWrites(c, p) ==
    HeadsOf(commits, {w \in commits[c].anc : p \in commits[w].wrote})

(* Two of the last decisions met over more than one common ancestor: each   *)
(* made of the same things, on its own machine.                             *)
Crossed(c, p) ==
    \E a, b \in LastWrites(c, p) : Cardinality(CommonAncestors(commits, {a}, {b})) > 1

(* No merge brings back what was decided against: every path of every       *)
(* commit holds what one of the last decisions about it in the commit's     *)
(* history was, however the history criss-crosses, unless two of those      *)
(* crossed themselves (converge.rs, merge_inputs; commit.rs, the merge of   *)
(* home's edit).                                                            *)
NothingStaleReturns ==
    Quiet => \A c \in DOMAIN commits, p \in Paths :
                LET last == LastWrites(c, p) IN
                \/ last = {} /\ commits[c].tree[p] = Absent
                \/ \E w \in last : commits[c].tree[p] = commits[w].tree[p]
                \/ Crossed(c, p)

(* A deleted scope stays deleted on the remote, whoever had moved it        *)
(* meanwhile, unless a machine moved it back or somebody created it again;  *)
(* and then what is published is the new scope (converge.rs, pass: the      *)
(* deletion wins).                                                          *)
DeletionStands ==
    [][\A s \in Scopes \ rewound : (remote[s] = Gone /\ remote'[s] # Gone) =>
          \E c \in commits'[remote'[s]].anc \ {Creation(s)} :
              commits'[c].creates = s]_vars

(* A machine is settled when it stands where the remote does, every scope   *)
(* at one commit that holds its parents' heads.                             *)
Settled(m) ==
    /\ \A s \in Scopes : local[m][s] = At(remote[s])
    /\ \A s \in Members(m), t \in Members(m) :
          t \in Parents(m)[s] => remote[t] \in commits[remote[s]].anc

(* However the machines race and whatever died on the way, running dotsync  *)
(* again brings the whole fleet to one state, or some machine to a merge    *)
(* that waits for its user (DESIGN.md, Failure model).                      *)
FleetSettles ==
    <>[]((\A m \in Machines : Settled(m)) \/ (\E m \in Machines : stopped[m] # NoScope))

-----------------------------------------------------------------------------
(* What the design says, and the code does not do. *)

(* DESIGN.md on abort: nothing published is touched.  So no branch of the   *)
(* remote ever moves off what was published on it.                          *)
PublishedIsNeverLost ==
    [][\A s \in Scopes : (remote[s] # Gone /\ remote'[s] \notin {remote[s], Gone}) =>
          Descends(remote'[s], remote[s])]_vars

(* scope_graph.rs, derive: "one of two commits is always older, so this     *)
(* relation cannot come back around"; in_cascade_order asserts it.  So no   *)
(* machine's graph ever has a cycle.                                        *)
GraphIsADag == \A m \in Machines : IsDag(Parents(m))

(* DESIGN.md: remote changes are integrated before new work builds on top   *)
(* of them.  So a resolution is written on a head that holds what this      *)
(* machine saw published (pause.rs, finish_the_paused_commit).              *)
ResolutionBuildsOnPublished ==
    [][\A m \in Machines : Resolve(m) =>
          LET s == record[m].commit.scope IN
             tracked[m][s] = Gone \/ tracked[m][s] \in commits'[TheOne(local'[m][s])].anc]_vars
=============================================================================
