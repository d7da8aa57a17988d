# A formal model of qbutler

qbutler keeps the calibrations of a quantum experiment good. A *calibration* is
a node of a dependency DAG. It can be checked (measured) and, often, fixed
(re-optimised). Walks over the DAG check or fix what needs it, an experiment
escapes to such a walk whenever its calibrations have drifted, and a monitor
controller checks a fleet of them for ever.

This directory holds TLA+ models of that machinery, TLC configurations that
check them on small instances, and TLAPS proofs of every safety property that
is checked. Source paths below are relative to the repository; `PROJECT.json`
maps every definition to the lines it models.

## 1. The system

| part (source) | state it keeps | operations | talks to |
|---|---|---|---|
| node status (`calibration.py`) | last result, its time and data, who suspects it, the UNCALIBRATED mark, when it was last optimised; a row per class in the persistent dataset `calibrations.status` | guess, record a check, record a fix, mark, suspect, publish, recall | every walk; other processes through the dataset |
| fix walk (`_drive_dag_to_ok`, `fix_state`, `fix_targets`) | attempts and blames of one walk | scan from the most basic node, attempt one fix, start over | node status, optimiser drivers, hand-over, scheduler |
| check walk (`check_state`, `check_targets`, `guess_state`, `run_once`) | verdict and data so far | look, measure, go on or return | node status, hand-over |
| optimiser drivers (`_run_optimizer`) | best point, best metric, pending pause, verification | pull a point, measure, verify, commit | optimisers, parameter datasets, scheduler, core device |
| optimisers (`optimizers.py`) | generator locals | grid, coordinate descent, zoom | drivers (send/yield) |
| measurement hand-over (`_activate`) | one slot per process, a set-up flag per node | set up, clean up, deactivate | all walks, from any thread |
| calibrated client (`client.py`, `patch_ndscan.py`) | trust in the last walk, "force used up", the escape count | consult the DAG, escape, fix, re-enter | node status, fix walk, ndscan |
| precompile pool (`precompile.py`) | specs, queue, results, errors | seed, get, drain, shut down; a worker thread | client, hand-over (which seeds) |
| monitor controller (`monitoring.py`) | a task per monitor | run, recover, stop; executor threads | check walk, scheduler |
| worker IPC lock (`worker_ipc_lock.py`) | one lock, a latch, the wrapped actions | install, transact | every thread that talks to the master |
| DAG registry and tree build (`dag.py`, `add_dependency` and `build` of `calibration.py`) | the scope being built, in module globals; of each tree its records and the graph made of them; of each calibration its registry | open, claim and close a scope, construct or share, record, raise, order | builds on any thread, walks |
| displays, scoping, pyon patch, entry points | none that matters here | publish and draw | datasets |

### What is hard about it

* **Re-planning.** The walk has no plan: after each attempt it starts again from
  the deepest node, while its own failures cast suspicion on nodes it has
  already passed, timeouts lapse under it, and suspicions are answered or
  withdrawn. That it never works on top of something known to be bad, that it
  leaves nothing undone and that it ends are three different questions.
* **Two memories.** What a node knows lives in the process and in a dataset that
  outlives it; rows are overwritten whole; a fresh process recalls lazily, and
  some paths write before they have recalled.
* **Interruption.** Every walk may be paused, terminated or killed between any
  two steps; a forced recalibration has to survive that. A kernel cannot pause,
  so a sweep is cut and re-entered.
* **Failure in the middle.** A set-up fails halfway, a dataset write is refused,
  a verification fails after the commit, a fix gives up.
* **Threads.** Checks run on executor threads, compiles on another, and all of
  them use one pipe and one set of hardware. The status dataset is read, changed
  and written back whole by everybody, and the scope in which a tree is built
  is a global of the module.
* **Searches with a memory.** An optimiser and the driver each keep a best point
  of their own, through pauses, ties and windows that overrun the range; a
  descent returns a point that no single measurement chose.
* **Counters and zeros.** A zero check timeout, a budget of one, a bound on
  escapes, `OK == 0`.

`PROJECT.json` lists each hazard at its line with the properties that cover it,
or with the reason why none does.

### What makes each part correct

* fix walk: most basic first; returns only when nothing is left; honours a force
  across processes; suspicion is justified; only a fix clears a mark; yields; ends.
* check walk: OK is backed by every node; checks lose no mark they could have
  known of; the data and the verdict are those promised.
* optimisers and their driver: each point once, whatever the pauses; none outside
  the range; both agree on the best, the best is what is kept, and it was
  measured good as a whole; the sweep ends.
* tree build: dependencies before dependents; one calibration for all who share
  it; trees apart; the scope is closed whatever happened in it.
* hand-over: one node set up at a time; set up when measured; a walk leaves
  nothing set up.
* client: settles after a fix; a force comes before science; no stale science;
  bounded escapes.
* pool: seed order; no lost wake-up; waits and joins return.
* monitors: one check of each at a time; all probed; stops.
* IPC: each thread reads its own reply; transactions end.

## 2. The modules

| module | models | built on |
|---|---|---|
| `NodeState` | one node's entry, its row, and every pure function of the two: recall, ageing, guess, record, publish, mark, suspect | — |
| `FixWalk` | fix walks, one after another, in one process after another; others may write the dataset | `NodeState` |
| `WalkContract` | what a fix walk promises: what needs work, what is ordered, and who may touch what | — |
| `WalkRefinement` | the mapping under which `FixWalk` implements `WalkContract` | `FixWalk`, instance of `WalkContract` |
| `CheckWalk` | check walks, guesses and `run_once` in a process that starts with any dataset, which others write meanwhile | `NodeState` |
| `Optimizers` | grid, coordinate descent and zoom as generators, and custom ones that propose anything | — |
| `Sweep` | fixes by the optimiser, one after another, on the host or in a resident kernel | `Optimizers` |
| `Activation` | the hand-over slot and one-time set-ups, for walks and `run_once` on several threads | — |
| `EscapeLoop` | the experiment: consult, escape, fix, re-enter | promise of `FixWalk` |
| `DependencyGraph` | the graph made of a registry's records, what is reachable in it, the walk's order | — |
| `TreeBuild` | the scope, nested builds that construct or share, several threads, any build may fail | `DependencyGraph` |
| `PoolState`, `PrecompilePool` | pool, callers, worker, one condition variable: the state with what it promises, and the actions | — |
| `MonitorState`, `Monitors` | event loop, monitor tasks, executor, divided the same way | — |
| `WorkerIpc` | lock, wrapping, pipe, threads | — |
| `NodeStateProofs`, `FixWalkProofs` | lemmas and theorems | `NodeState`; `FixWalk` and `WalkRefinement` |
| `CheckWalkProofs`, `SweepProofs`, `ActivationProofs`, `EscapeLoopProofs`, `TreeBuildProofs` | theorems | `CheckWalk`, `Sweep`, `Activation`, `EscapeLoop`, `TreeBuild` |
| `ServiceProofs` | theorems about the three services around a walk | `WorkerIpc`; `PoolState` and `MonitorState`, with instances of `PrecompilePool` and `Monitors` over them |

`MC*` modules give constants their values. Operators whose comment begins with
"A mutant" are wrong on purpose: each replaces the operator it stands before
when one asks whether a property would notice such a mistake. They occur in no
specification. Every module with actions but `WalkContract` states its types as
`TypeOK`; TLC finds each of them true on the instances below when it is added to
the configuration, but only `fixwalk_safety` spends a property on it.

### How state and actions correspond to the code

**NodeState.** A record `[res, stale, susp, mark, opt, trial]` stands both for
the private attributes of a `Calibration` and for its row. Times appear only
through the comparisons the code makes: `stale` says the check timeout has
lapsed, `opt` whether the last successful fix is missing, recent or older than
the re-optimise timeout. `res` keeps the three classes the walk distinguishes:
OK, anything with the `BAD_EXPIRED` bit, anything else. Metrics are left to
`Sweep`. Rows are keyed by node; a second instance of a class (only possible
with `create_duplicates=True`) is one of the others who write the dataset.
`RowsOf` are the rows of a node that any process may have left there.

**FixWalk.** `pc` is where `_drive_dag_to_ok` stands: `scan` before a candidate,
`check` and `recheck` inside a measurement, `fix` inside `fix_own_state`,
`stamp` before `_record_own_fix`. The loop body of the scan, with its hydration,
ageing and choice, is one action (`ScanNode`); a measurement together with what
it records and publishes is one action; so is the whole failure half of
`_attempt_one_fix` (`FailedAttempt`: record, review and suspect the
dependencies, publish, count, then spare, give up or go on). `SweepPoint`
measures a trial point and records it as the code does. `Raise`, `Terminate` and
`Restart` are the ways a walk is cut. `Lapse` and `FallDue` let time pass
anywhere. `owed` and `forced` are history: the nodes forced walks have ordered to
be re-fixed and that have not been since, and those of them whose order came from
this very process, for nodes it had a check of. `FixState` tells the two entry points
apart (only `fix_state` writes BAD_DEPS on giving up), `LossyTable` allows the
best-effort publication to fail. `OthersWrite` is somebody else, in another
process, thread or instance of a class. `_publish_status` and
`_publish_uncalibrated_marks` read the whole table, change it and write the whole
table back, with no lock, so that besides the rows it means to publish a writer
may put back or remove any other. The action rewrites one row, of any node, to any
that may be there; a write of a whole table is a run of such steps. So is one of
this process that undoes what another has written since it read the table: its
own publication, which is a single step here, followed by the old rows.

**WalkContract.** `phase`, `work` and `due` are the walk's outcome, the nodes that
are not `Settled`, and the marks still owed. A walk touches a node only if nothing
below it needs work; it may change that node, and make its direct dependencies
need work; a mark is worked off only by leaving its node good; a walk returns
only when nothing is left. There is no scan order, no memory, no dataset in it.
`Held` are the orders that are safe in the dataset: all of them, or none if
others write it too.

**CheckWalk.** `Look` is the guess; `Measure` the check, with what it records in
memory and the reading of the dataset; `Publish` the writing back of all of it,
and the decision to go on. Between the two, and anywhere else, `OthersWrite` may
rewrite any row, as in `FixWalk`. `args` are `force` and `continue_on_fail`;
`data` remembers whose measurement the returned data is; `late` is history, the
nodes that others have marked since this process last read their rows.
`GuessState` is `guess_state` as it is written, `RunOnce` a calibration run as an
experiment of its own, `EndWalk` what every end of a walk has in common. The
publication is split here because `ChecksKeepMarks` is about what this very process
writes; in `FixWalk`, what its publications undo counts among the writes of others.

**Optimizers.** A generator is a record: what it has still to propose of its
present window, the point it stands on, the best it has seen, and what it has
returned. `Sent` is `generator.send`: it takes the measurement into account
(`Learnt`) and runs to the next yield, through the end of an axis (`AxisDone`) or
a stage (`StageDone`), or returns. Lengths are integers, in a unit in which every
division of the code's floats comes out even; so windows, their clamping and
their shifting are exact, rounding is not modelled.

**Sweep.** `Start` and `Shot` pull points from the generator; a `Shot` in kernel
mode may end in a pending pause, which ends the kernel loop (`GetBest`), and
`Reenter` resumes it. `PersistOnHost`, `Verify`, `Commit` are the two orders of
commit and verification. `Prime` begins the next fix of the same calibration,
whose parameters may stand at any of `Starts`. `Kinds` are the calibrations that
are tried: where the measurement runs, and which optimiser. `Data` are the
metrics a good measurement may give; what of them is no finite number is not in
`Numbers`.

**TreeBuild.** The entry of `building()` is three steps, test, open, claim, since no
lock protects it (`TestDepth`, `OpenRegistry`, `Claim`); a build then constructs a
dependency (`Construct`, `Wire`) or shares one (`Share`), and registers itself when
it ends (`Register`). `Raise` is an exception anywhere in a build, `Unwind` its way
out through the nested scopes. `ReadGraph` is a walk that asks for the graph,
which is cached until the next record. Records are kept in order: what
`DependencyGraph` makes of them, the walk's order above all, depends on it.

**Activation.** All that happens under `_active_node_lock` is one step. Host-mode
set-up is three (read the flag, set it, return), since no lock protects it.
A thread in `scan` runs one calibration by itself (`RunOnce`): it activates it as
a walk does, but nothing deactivates it afterwards. What ndscan sets up and cleans
up of its own accord around such a run is ndscan's, and not modelled. `calm`,
`kept` and `failed` are history: since the slot was last empty with all threads
idle, no two walks or `run_once`s have overlapped and no set-up of the slot has
raised; the node that a `run_once` has made active since a walk last ended; and
the host-mode nodes whose set-up has raised.

**EscapeLoop.** `Consult*` is the RPC, `Escape*` the two loops' handlers (the
scanned one compares before the fix, the continuous one fixes first),
`Recalibrate` the walk, of which only the promise that `FixWalk` establishes is
used.

**PrecompilePool, Monitors, WorkerIpc.** A method under the condition variable,
a stretch between two awaits, and one line through the pipe, are one step each.

## 3. The runs

Passing runs:

| run | instance | what it shows |
|---|---|---|
| `fixwalk_safety` | triangle a<-b<-c, a<-c; b not fixable, a re-optimised periodically; budget 1; `fix_targets`, interruptions, restarts | most basic first; a walk that returns leaves all settled; forces are honoured across restarts; suspicion has a cause; only a fix clears a mark; the contract is kept |
| `fixwalk_shared` | two nodes, others rewrite any row at any moment | what survives: a walk re-fixes what forced walks of its own process ordered, of the nodes they knew, and keeps the contract of a walk that holds no orders |
| `fixwalk_live` | two nodes, no budgets, with fairness | a walk keeps coming back to where it can be interrupted; left alone, it ends |
| `checkwalk_safety` | b depends on a; any initial dataset, which others rewrite at any moment, also within a publication; b, which nothing marks, also run as an experiment | OK is backed by every node; checks keep all marks but those others have set since the row was last read |
| `sweep` | host and kernel, with each of the four optimisers; two parameters, two points per axis, two rounds or stages, two metrics, two places to start from, pauses anywhere, fix after fix | each point once; none outside the range; zoom agrees with the driver; the best is kept, and was measured good as a whole; the sweep ends |
| `tree_build` | three classes with a shortcut, two threads, two trees, four calibrations | walks in order; trees apart; one calibration for all who share it; the scope is closed |
| `activation_safety` | two threads, six nodes, walks and `run_once`, any set-up may raise | one node set up; a walk leaves none, and only what a `run_once` made active stays so; set up when measured, where nothing overlaps and no set-up of the slot has raised |
| `escape_safety` | two nodes, one perhaps with a zero timeout, at most two recalibrations | settles, force first, no stale science, no escape loop |
| `pool` | two callers, three kernels, a shutdown anywhere | seed order; get, drain and join return |
| `monitors` | three monitors on two threads, the check of one may hang | one check of each at a time, all probed, a request to stop ends all unless a check hangs |
| `ipc` | main, compiler and three monitor threads | own reply, transactions end |

One run ends in a violation, a disagreement between the code and what its
documents promise (quoted in `PROJECT.json` under `findings`):

| run | what happens |
|---|---|
| `fixwalk_trial` | an interrupted sweep leaves a trial point's OK as the node's state, and the next walk rests on it |

More disagreements show when a constant of a configuration is changed, or when
the property named here, which the modules state with the text it is taken from,
takes the place of those in the configuration (as an INVARIANT unless it says
PROPERTY; a PROPERTY needs the SYMMETRY line removed). All of them have been
reproduced:

| configuration, with | property that fails | what happens |
|---|---|---|
| `FixWalk_safety`, `FixState = TRUE` | `ForceHonoured`, `OnlyFixClears` (PROPERTY) | `fix_state` that gives up writes BAD_DEPS in memory only; this process then never recalls the target's row, so a persisted mark goes unseen and is overwritten (1167) |
| `FixWalk_safety`, `LossyTable = TRUE` | `ForceHonoured` | a lost write of the marks is not healed by later ones: hydration overwrites the mark in memory (1773; 430-431 promises it heals) |
| `FixWalk_shared` | `ForceHonoured`, `OnlyFixClears` (PROPERTY), `SuspicionHasCause` | the same, with no write lost: what another worker writes back overwrites the row of any node, its mark, stamp and suspicions (1548; 420-424, 1485-1488, 450-456) |
| `FixWalk_safety`, all fixable | `BlamesBeforeGivingUp` | with a budget of one, a node none of whose dependencies looks good at that moment gives up without having blamed (313; 280-282 promises the chance) |
| `FixWalk_safety`, all fixable, `BudgetTwo` | `FreshBudgetAfterBlame` | the attempt that blamed counts against the budget (285; 995-999 says "fresh") |
| `CheckWalk_safety` | `ChecksKeepAllMarks` (PROPERTY) | a check writes the row as this process remembers it, and the rest of the table as it has read it: a mark that another worker has set since is gone (1553, 1579; 1500-1501) |
| `CheckWalk_safety` | `DataIsOwn` | the data of the last node measured is returned as the target's (1110; 1087-1089) |
| `CheckWalk_safety` | `FirstBadReturned` | BAD_DEPS replaces the first bad result (1108; 1083-1084) |
| `CheckWalk_safety` | `GuessCoversAll` | `guess_state` looks at the first node of the order only: `not (state & OK)` is always true, since `OK` is 0 (1049; 1034-1038) |
| `CheckWalk_safety`, `Scanned = {a}` | `ChecksKeepMarks` (PROPERTY) | `run_once` records without having recalled, so the published row loses the mark (687; 1500-1501) |
| `Sweep_all` | `PersistedIsVerified` | the host commits before it verifies, and a failed verification leaves the values there (1977) |
| `Sweep_all`, `Data = {0, 1, NaN}` | `ZoomAgrees`, `PersistsBest` | the driver may take a NaN for its best, which nothing beats afterwards; zoom ignores it (optimizers.py 250) |
| `Sweep_all`, `Data = {None}`, `Numbers = {}` | `NothingUsableRaises` | an OK without a metric is committed although zoom counts on an error |
| `Sweep_all`, `Starts <- Outside` | `InRange` | a descent from a parameter that stands outside its range tries points outside it (optimizers.py 95-96; 66-67 says clamped) |
| `Activation_safety` | `CleanAfterAll` | `run_once` leaves its calibration set up, until the next walk ends or the caller deactivates it, as test_lifecycle.py 124-136 does (687; 157-160) |
| `Activation_safety`, `Threads <- OneThread` | `SetupHolds`, `HostReady` | a set-up that failed halfway leaves the slot claimed (1241), or the flag raised (1181): it is never repeated |
| `Activation_safety`, `Fragile <- NoNode` | `SetupHolds` | the end of one thread's walk cleans up the node another is about to measure (1112) |
| `Activation_safety`, `Fragile <- NoNode` | `HostSetupOnce` | two threads that share a never-prepared host-mode dependency both set it up (1213; 1207-1211) |
| `EscapeLoop_safety` | `FixesWithinBound` | the continuous loop fixes once more than `max_recalibrations` |
| `EscapeLoop_safety` | `GivesUpUnsettled` | a scan gives up although its calibrations settled in between (patch_ndscan.py 123) |
| `TreeBuild_all` | `NeverWelded` | two threads between the test and the claim of a scope weld two trees (dag.py 127; 97-101 says never) |
| `TreeBuild_all`, `Needs <- CyclicNeeds` | `WalksInOrder` | classes that depend on each other share a calibration: the graph has a cycle, and the order puts a dependent first |
| `TreeBuild_all`, `Classes <- LoopClasses`, `Needs <- LoopNeeds`, `Clients <- LoopClients`, `MaxObjects = 5` | `OneForAll` | of two such classes one calibration is finished before the one whose build it began in: who comes later shares the first that was registered, and two are in use |
| `PrecompilePool_all` | `NothingStartedAfterShutdown` (PROPERTY) | after `shutdown` the worker compiles all that is queued (precompile.py 230) |

### Bounds, and why they suffice

* *Three nodes in a triangle* is the smallest DAG with a chain, a shared
  dependency and a shortcut, so that one node can be suspected by two others and
  a suspicion can be cast two levels apart. The safety theorems of section 5
  hold for every DAG.
* *Budgets* are 0 (none), 1 or 2; attempts are counted to one past the budget,
  since the code compares them with nothing else.
* *Two parameters of ranges 0..8 and 0..4, two points per axis, two rounds or
  stages, a zoom of two*: a descent then turns axes within and between rounds, and
  a zoom refines around every point of the coarse grid, with windows that do
  and do not overrun an edge; all divisions come out even. A custom generator
  proposes at most `MaxPoints` = 3 points: pauses before, between and after
  improvements. Two metrics give ties and both orders. Section 5 proves all but
  `SweepEnds` for every instance.
* *Two nodes* are the smallest DAG in which others rewrite the row of one while
  the other is measured, checked or fixed (`fixwalk_shared`, `checkwalk_safety`);
  the properties of both runs are proved for any.
* *Four calibrations, two trees, two threads* in `TreeBuild`: a whole tree with a
  duplicate, next to one that is being opened; section 5 proves all four
  properties for any number of each.
* *`MaxRecalibrations` = 2*: below, at and above the bound.
* *Threads*: two contend for the slot, and a third would only wait; two executor
  threads for three monitors make checks queue; five threads share the pipe.
* `CHECK_DEADLOCK FALSE` is used for `EscapeLoop` and `Monitors` only, which
  really end. The pool's callers may for ever come back with something to do.
* Symmetry is used in `activation_safety`, over nodes and threads, and in
  `tree_build`, over threads, all of which the specification treats alike; no
  liveness is checked there.

## 4. Fairness

| specification | assumed | justified by |
|---|---|---|
| `FixWalk!FairSpec` | the walk's thread runs, a sweep ends | walks are plain sequential code; every optimiser is a finite generator |
| `Sweep!FairSpec` | measurements and pauses end; *no* assumption on how often a pause is asked for | a measurement is a finite kernel or method; the scheduler resumes a paused run |
| `EscapeLoop!FairSpec` | the kernel runs, a walk ends | what `WalkEnds` shows of walks |
| `PrecompilePool!FairSpec` | threads run, compiles end | a compile is a finite call; the condition variable wakes all (`notify_all`) |
| `Monitors!Fairness` | the event loop is fair, sleeps and the checks of healthy monitors end | asyncio's ready queue is first-in first-out |
| `WorkerIpc!FairSpec` | the master answers; a thread waiting for a lock that becomes free again and again gets it (strong fairness) | the lock is held for one exchange at a time, and the operating system does not pass over a waiter for ever |

`WalkEnds` is stated under two premises, not as fairness of the code: the walk
is left alone (`LeftAlone`: from some point nothing interrupts it and nothing
ages) and no node is hopeless (`NoneHopeless`: one tried again and again is fixed
at last). The default of unlimited attempts (calibration.py 48-70) is only
sensible on the second.

## 5. What is proved

The theorems hold for every value of the constants that satisfies the named
assumptions of the modules: `GraphAssumption`, `OrderAssumption` and
`WalkAssumption` for the fix walk, `GraphAssumption` and `CheckAssumption` for the
check walk, `SearchAssumption` and `SweepAssumption` for the sweep,
`ActivationAssumption`, `EscapeAssumption`, `BuildAssumption`, `IpcAssumption`
and `MonitorsAssumption` for the hand-over, the experiment, the tree build, the
pipe and the monitors; the pool's theorem needs none. What a theorem assumes
beyond that stands in its `ASSUME` and in the tables below.

A recursive definition is proved about through the one induction principle of
the library that takes no operator, `NatMin` (a non-empty set of numbers has a
least one): a set of numbers that holds zero and every successor holds all
(`AllNumbers`), and the functions the models use are the iterates they look
like (`Iterates`). So `Power`, `Reachable` and `TopologicalSort` are reasoned
about for every input, each by an induction over a set of its own.

### The fix walk

For every set of nodes, every acyclic dependency relation, every scan order
compatible with it and every budget, `FixWalkProofs` proves:

| theorem | states | also assumes |
|---|---|---|
| `TypeCorrect` | `Spec => []TypeOK` | |
| `MostBasicFirstHolds` | `Spec => []MostBasicFirst` | |
| `DoneMeansSettledHolds` | `Spec => []DoneMeansSettled` | |
| `ForcedWalkRefixesHolds` | `Spec => []ForcedWalkRefixes` | |
| `ForceHonouredHolds` | `Spec => []ForceHonoured` | `~FixState`, `~LossyTable`, `~Others` |
| `SuspicionHasCauseHolds` | `Spec => []SuspicionHasCause` | `~LossyTable`, `~Others` |
| `OnlyFixClearsHolds` | `Spec => OnlyFixClears` | `~FixState`, `~LossyTable`, `~Others` |
| `WalkKeepsContract` | `Spec => KeepsContract` | `~FixState`, `~LossyTable` |

`~FixState` restricts the walks to `fix_targets`, `~LossyTable` says the dataset
takes every write, `~Others` that nobody else writes it. `ForceHonoured` fails
without any of the three, `OnlyFixClears` without the first and the last,
`SuspicionHasCause` without the last (section 3). What the last two become when
a write is lost is left open.

**Most basic first.** `MostBasicFirst` is not inductive alone: to stay settled,
the nodes behind the scan must be unaffected by what is done in front of it. The
inductive invariant

    IInv == TypeOK /\ MostBasicFirst /\ DoneMeansSettled /\ CheckedNotDue

adds that a node under a check is not due a re-optimisation (otherwise a check
that passes could move the scan past a marked node). Each action preserves it for
one of three reasons: it restarts the scan at the first node, so that nothing is
claimed; it advances past a node it has just found or made settled; or it
changes only the node at hand, and takes suspicions away from the others.
Recording a check can only take suspicions away (`RecordCheckSettled`); only a
failed attempt casts them, and it leaves the walk scanning from the start.
Lapsing timeouts touch `stale` and `opt = "fresh"`, which `Settled` does not read:
a walk may well return after a timeout lapsed on a node it had already passed.

**Forced walks.** What a force is worth whatever happens to the dataset rests on
memory alone: `RefixInv` adds to `IInv` that a node in `forced` is marked in memory
and has a check there (`ForcedMarked`), so that no row is read over the mark; only
the stamp takes the mark away while the process lives. A walk that returns leaves
every node settled, hence unmarked, hence none in `forced`. For the marks of other
processes, and of nodes without a check, which are read from the dataset,

    MarkInv == IInv /\ OwedMarked /\ CurMarked

adds that every node still owed a fix carries its mark wherever a scan would read
it: in the row, and in memory unless memory would be hydrated from the row
first; and that the node being fixed keeps it until it is stamped. When the walk
returns, every node is settled, hence unmarked, hence not owed.

**Suspicion.** The invariant `SuspInv` relates memory and dataset: `Justified`
says that every suspicion, in either, was cast on a direct dependency by a node
whose *row* does not say OK; `Backed`, that nothing is OK in memory that is not
OK in its row. The second is what makes the first usable: a suspector is not OK
in memory either, so that the stamp of a fix, which publishes the node as it is
in memory, cannot make an accuser look good. A good check publishes an OK, but it
has just withdrawn what its node suspected, in memory from all it reaches
(`RecordedWithdraws`) and in the dataset from every row (`PublishedOrigins`).

**Marks and stamps.** Each publication overwrites a whole row, mark and stamp
included. `AgreeInv` says why this is harmless: memory carries the row's mark and
stamp wherever it holds a check result or there is no row (`Agree`), and for the
node in hand, which the scan has just hydrated, in any case (`InHand`).
A dependency that is suspected is hydrated first (`HydratedSame`). The exception
is the failure that `fix_state` writes into memory of a target it has not
recalled, hence `~FixState`.

**The contract.** `FixWalk` implements `WalkContract` under the mapping of `WalkRefinement`: `work` is the set of nodes
that are not settled, `due` the orders still owed, if nobody else writes the
dataset, and none otherwise (`Held`). `Init` maps to
`Init`. A look at a node changes nothing but that node, and `MostBasicFirst`
gives the guard that nothing below it needs work; a failed attempt casts doubt
one hop (`SuspectedProperties`), time passing changes no need at all
(`TimeChangesNoNeed`), and what others write changes the dataset but not the
memory that `Settled` reads. The one step that works off an order is the
stamp of a fix, and it leaves its node good because the node has just been
measured so, which `StampedGood` adds to `MarkInv`. A return with nothing owed is
`ForceHonoured` again, which is why the order is left out of the contract when
others write. TLC checks the same formula in `fixwalk_safety` and
`fixwalk_shared`.

`NodeStateProofs` holds the lemmas about the operators (types, what recalling,
recording, publishing and suspecting change and leave alone).

### The check walk

For every DAG, order and initial dataset, `CheckWalkProofs` proves
`OkMeansGoodHolds` and, where no calibration that can be fixed is also scanned
as an experiment, `ChecksKeepMarksHolds`. For the first, `PassedGood` says that
unless the verdict is bad already every node the walk has passed is good, and
that a measurement or an ageing of a later node spoils none of them
(`RecordKeeps`; the order names each node once). For the second,
`MarksRecalled` relates the dataset, and the copy of it that is being written
back, to memory: a mark in either is in memory too wherever memory would not be
read from the dataset first, and for the node in hand in any case, since a walk
looks before it measures; all but the marks in `late`. `run_once` does not look,
hence the premise; without it the property fails, and without `late` it fails for
every walk (section 3).

### The sweep

For any number of parameters, points, stages, pauses and fixes, on the host and
in a kernel, with any of the optimisers, `SweepProofs` proves

| theorem | states | also assumes |
|---|---|---|
| `EachPointOnceHolds` | `Spec => []EachPointOnce` | |
| `PersistsBestHolds` | `Spec => []PersistsBest` | `Data \subseteq Numbers` |
| `ZoomAgreesHolds` | `Spec => []ZoomAgrees` | `Data \subseteq Numbers` |
| `GoodOrUnmovedHolds` | `Spec => []GoodOrUnmoved` | `Data \subseteq Numbers` |
| `InRangeHolds` | `Spec => []InRange` | `ProperRanges`, `Starts \subseteq Box` |

The first premise says that every metric is a finite number: with a NaN, or with none,
`ZoomAgrees` fails (section 3). The invariant `IInv` follows the point at hand
(`Turn`): while one waits to be measured, it is the head of what the generator has
still to propose and the last of what it has proposed, and the generator has not
returned; a pause changes none of that. `Found` then adds three views of the best
point. `Incumbent`: the driver's is the first of the best good ones, for which
`BeatsOrder` shows that being beaten is a weak order, whatever is optimised.
`ZoomInv`: the zoom optimiser's is the same. `DescentInv`: a descent that has found
nothing in its window stands on a point that was measured good, or where it
began with nothing good yet; and if it has, then the point it stands on, moved
along this axis to the best of the window, is one of those measured, because
every point of the window differs from where it stands in this one parameter
(`OnLine`). That is why a point assembled parameter by parameter has been
measured as a whole.

The other two premises, of `InRangeHolds`, say that no range is empty and that
the parameters stand within theirs when a fix begins; without the second the
property fails (section 3). `RangeInv` says that what has been proposed lies in
`Box`, the product of the ranges, and that so does all that the generator will
build a window on (`InBox`): the window it is in, the point it stands on, the
best of it. A window is within its range by its clamping (`WindowWithin`) or
because a shift that overruns the other edge is clamped again (`RefinedWithin`);
`Linspace` stays between its ends, which is the arithmetic of a rounded-down
division (`LinspaceWithin`); and a product of axes takes each coordinate from
its axis (`ProductWithin`). The floats of the code are exact only in a suitable
unit; the argument needs no exactness, only that a quotient does not pass the
ends it divides.

### The hand-over

For every number of threads and nodes, whichever set-ups and clean-ups raise,
`ActivationProofs` proves `OneSetUpHolds`, `IdleMeansCleanHolds`,
`SetupHoldsWhenCalmHolds` and `HostReadyWhenCalmHolds`. The first two need the
slot alone (`SlotInv`): whatever a step sets up it claims (`OneSetUp`, `Owned`), the
end of every walk empties the slot, and while no walk runs only a `run_once` fills
it (`OutsideWalks`). For the other two the invariant adds that while all is
`calm` one walk or `run_once` is under way (`OneWalk`) and the hardware is as the slot says
(`InStep`), and that a host-mode node flagged as set up has been, or has
failed to be, or is being set up at this moment (`FlagAccounted`).

### The experiment

For all calibrations, walk orders, fixable and zero-timeout ones and bounds,
`EscapeLoopProofs` proves `SettlesAfterFixHolds`, `ForcedBeforeScienceHolds` and
`NoStaleScienceHolds`. The invariant says that a walk is trusted exactly until
the kernel next finds the DAG healthy (`TrustIsPristine`); that until a timeout
lapses what the walk left is good, and what is stale in it was checked since it
began (`WalkSettles`); and that an order to force is used up before the first
walk and allows no kernel without one (`ForceFirst`). The middle one is why a zero
check timeout does not escape for ever: stale nodes are trusted once.
`CountInBound` is only needed for the types. That escapes come to an end,
`NoEscapeLoop`, is liveness and stays with TLC.

### The tree build

For every number of threads, classes, experiments, calibrations and trees,
whichever builds raise and wherever threads meet, `TreeBuildProofs` proves

| theorem | states | also assumes |
|---|---|---|
| `BuildTyped` | `Spec => []TypeOK` | |
| `ScopeClosedHolds` | `Spec => []ScopeClosed` | |
| `TreesApartHolds` | `Spec => []TreesApart` | |
| `OneForAllHolds` | `Spec => []OneForAll` | `Acyclic` |
| `WalksInOrderHolds` | `Spec => []WalksInOrder` | `Acyclic` |

`Acyclic` says that classes can be ranked so that each needs only lower ones.
Nothing in the code enforces it; classes that need each other break both
properties (section 3).

**The scope.** `ScopeClosed` is about a counter that threads without a lock count
up and down. `Counted` says that its value is the number of builds under way, of
all threads together; an entry and an exit each change both by one, so the
counter is zero when the last build is left, in whatever order, and `Cleared`
that the scope is then empty, unless a thread stands between opening and
claiming it. `Waiting` adds that a build with another inside it has a use for
what that one makes, which the types of a later step rest on.

**Trees.** As long as no two threads have met in the entry (`clashed`), only one
builds, in the scope it opened (`Alone`). So what it records, finds and uses
belongs to its own tree (`OwnTree`), and `TreesApart` follows.

**One for all.** To find out that who shares uses the *first* registered of a
class one has to know that no other was registered while that one was being
built. `Declared` says that a build works through its class's declarations in
their order, `Descending` that builds inside one another are of lower and lower
classes, which takes `Acyclic`; hence no calibration of the class that is being
made to be shared is registered inside its build, and `OldestShared` is
preserved.

**Walks.** `OnRecord` says that a registry's records are exactly the dependencies
of its own calibrations, and `Cached` that a graph kept is that of the records,
since every record drops it. The rest is a lemma about graphs whose edges go
down in rank: `Reachable` is closed under dependencies and holds only what can
be reached from a target (one round for each node is enough), and Kahn's
algorithm places every node, once, after all that point to it, since among the
nodes not yet placed one of highest rank is ready. The order of nodes that are
ready together is left open.

### The services

`ServiceProofs` proves, for the pipe, the pool and the monitors,

| theorem | states |
|---|---|
| `OwnReplyHolds` | `Spec => []OwnReply`, of `WorkerIpc` |
| `SeedOrderHolds` | `Pool!Spec => []SeedOrder` |
| `OneCheckAtATimeHolds` | `Fleet!Spec => []OneCheckAtATime` |

*The pipe*, for every number of threads and of wrapped actions. The invariant
follows the life of a run: once threads run everything is wrapped (`AllWrapped`),
until then only the main thread talks (`OnlyMain`), from then on only the holder
of the lock (`OnlyHolder`); so the line in the pipe is that of whoever talks
(`OwnLine`), and the pipe is empty when nobody does (`EmptyPipe`).

*The pool*, for any callers and keys. At any moment the first so many seeds are
those with a result or an error (`Finished`), and the job at hand followed by the
queue is the rest, in order (`Lined`). A seed joins the end of both, the worker
moves the head of the queue to its hand and from there among the finished.

*The monitors*, for any number of them and of executor threads. What keeps a
second check of a monitor from being submitted is its task: one whose check is
queued, running or waiting to be reported is still awaited by a task in
`checking` (`Awaited`), and only a task in `start` or `sleeping` submits one. The
sweep that recovers monitors replaces only tasks that are done. After the
controller has begun to stop this no longer holds, but then nothing is submitted.

**Model-checked only.** Liveness, which is out of the provers' reach: `WalkEnds`
and the other temporal properties that say something happens. All safety
properties of the passing runs, invariants and action properties alike, are
proved; of the type invariants those of the fix walk and of the tree build
(the others are parts of the inductive invariants, as far as a proof needs them).

## 6. What is not modelled

* Two complete walks side by side. `FixWalk` and `CheckWalk` meet others through
  what they write to the dataset (`OthersWrite`), which is all a walk in another
  process can see of them; two walks in threads of one process also share the
  entries in memory.
* What ndscan sets up and cleans up around a calibration that is scanned.
* Rounding of the optimisers' floats.
* Target discovery, channel exclusion, float stores, the precompiled continuous
  entry, `reset_param`: sequential bookkeeping.
* `pause` for a higher-priority run inside a walk is a stutter of the walk: other
  runs may change the dataset meanwhile, as `OthersWrite` does.
* A second caller of the pool's `shutdown`, and its snapshot of devices.
* Displays, scoping of dataset keys, the pyon patch, examples and docs.

## 7. What is left

To model:

1. Two threads of one process that walk over the same instances, so that entries
   in memory are shared as well as rows.
2. Target discovery and the precompiled continuous entry of the client, if they
   ever do more than transform data once per run.
3. `PrecompilePool` with a second caller of `shutdown`.

To prove: what becomes of `SuspicionHasCause` and `OnlyFixClears` without
`~LossyTable`; `EscapeLoop`'s walk as an instance of `WalkContract`; and steps
towards liveness that are safety, such as a measure that every uninterrupted
attempt of a walk decreases.
