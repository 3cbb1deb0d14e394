# sdax in TLA+

A verification development for sdax-rs, a lifecycle engine for one async process: an author declares a
*plan* (a graph of resources, steps, services, effects and joins, with locks, pools, retries and
deadlines), and a run brings the graph up, keeps it alive and takes it down in the right order whatever
fails, times out or is cancelled on the way. The specifications are translated from the source; the
normative documents `dev-docs/SdaxContract-v1.md` and `-v2.md` are used for what the code is *supposed* to
do (the numbers INV-n, T-n, P-n and F-n below are theirs).

## The system

| Part (under `crates/`) | State it keeps | Operations | Interacts with | What makes it correct |
|---|---|---|---|---|
| Builder and terminals (`sdax/src/{builder,terminals,recovery,contracts}`) | an open plan, at most one chain borrowing it, the tables of bodies | declare, mount, bind, build | hands a declaration and its bodies to a host | an accepted plan is wholly declared and its bodies sit at their nodes |
| Validation, table (`sdax/src/validate`, `host/engine/table.rs`) | none | `check`, `flatten`, `instantiate` | declaration in, engine table out | accepted names resolve, budgets nest, the table drops no dependency |
| Engine (`sdax/src/host/engine`) | one `Slot` per node, one `ScopeRun` per scope, locks, pools, timers, the report | `begin`, `step(event)`; every handler ends in `admit`, `check_steady`, `try_cleanup` | events from the host, effects to the host | INV-1 to INV-16: grants, release order, shielding, nothing lost, bounded shutdown |
| Instances and compaction (`engine/{instances,compaction,table_compaction,history}`) | scopes and nodes appended at run time | spawn, stop, end, compact | engine tables, the host's child handles | an instance ends once; renumbering is invisible |
| Bodies (`sdax/src/host/bodies`) | value slots of a run | store, publish, export, dispose | written by the driver, read by bodies | a value outlives its dependents, is dropped once |
| Body context (`sdax/src/cx`) | one registration cell per attempt, stop signal | hold, spawn, stop | bodies on one side, the driver on the other | a completed acquisition is registered in the same poll |
| Tokio driver (`sdax-tokio/src/{driver,body}`) | message queue, live task and epoch per node, timers | handle a message, perform effects | engine, runtime, bodies | each attempt is answered exactly once, stale answers are dropped |
| Run control and scope (`sdax-tokio/src/{running,scope}`) | readiness latches, request channel, spawn snapshot | ready, shutdown, cancel, drop, spawn | driver | latches are set once and answer every waiter |
| Views, simulator, testkit, scripts | static diagrams, scripted hosts, trace checkers, release tooling | | the same engine | not modelled, see below |

The engine is a pure, sequential state machine: the host feeds it one event at a time and performs the
effects it returns. What is hard in it is not threads but *order*: bodies, cleanups, joins of aborted tasks,
value transfers and timers end in any order, each event runs a long handler to its end, and a property of a
run depends on what many such handlers left behind. Threads come in with the tokio host: tasks are aborted
while they run, the spawn gate is read by bodies while the driver publishes the next one, and the runtime
may be torn down under all of it. `PROJECT.json` lists these hazards at their lines, each with the
properties that would catch it.

## Modules

| Modules | What they model |
|---|---|
| `Plan`, `Machine`, `MachineProperties`, `MCMachine` | the engine over one scope, every kind of leaf node |
| `StageProofs`, `MachineProofs`, `LedgerProofs`, `TaskProofs`, `AdmissionProofs` | proofs about `Machine` |
| `ScopeTree`, `Scopes`, `ScopesProperties`, `MCScopes` | the engine over a tree of scopes: components, templates, instances |
| `Driver`, `DriverProperties`, `DriverProofs`, `MCDriver` | the tokio driver composed with `Machine`, shown to implement its host; proofs |
| `Acquisition`, `AcquisitionProperties`, `AcquisitionProofs` | one acquiring attempt, inside a poll; proofs |
| `RunControl`, `RunControlProperties`, `RunControlProofs`, `MCRunControl` | the handle, the latches, the report channel, the spawn gate; proofs |
| `Instances` (abstract), `Compaction`, `CompactionProperties`, `MCCompaction` | a table whose rows never move, and the one that is compacted |
| `Bodies`, `BodiesProperties`, `MCBodies` | value slots, aliases, exports, disposal by dropping |
| `Declaration`, `Validation`, `Layout`, `Builder`, `BuilderProperties`, `MCBuilder` | declarations as values, the rules, the compiled table, and the author's operations |

How they hang together: `Builder` shows that what `build` accepts is what the engine's models assume of a
plan (`EngineAccepts` in `TableIsFaithful` restates `Plan!ValidNode`); `Machine` and `Scopes` are the engine on
such plans; `Driver` replaces the part of `Machine` that stands for the host (`body`) by tasks, epochs and a
mailbox, and is shown to implement it, liveness included; `Acquisition` opens up the poll that `Driver` takes
in one step; `RunControl` and `Bodies` are what the rest of the host shares with that loop;
`Compaction` is the memory management under the engine, shown to implement `Instances`.

### `Plan`, `Machine`: one scope

`Plan` is what a built plan declares about one scope, and `ValidNode`, what the builder's types and the
validation rules refuse. `N`, `Pool` and `Plans` are the parameters; the assumptions say that the plans
are well-typed and valid, nothing else.

`Machine`'s variables are the engine's tables: `slot` (`Slot` per node), `scope` (`ScopeRun`), `ahead` (the
FIFO queue, as the set of waiters queued before each node), `report`; `body` is the host's task per node;
`due` is history: the faults, ambiguities and acquisitions that have been observed and must be accounted
for, against which the report is compared.

A handler in the code changes a slot and then runs a fixed tail. So the stages (`Settle`, `FlushFaults`,
`Enqueue`, `Start`, `CheckSteady`, `TryCleanup`, ...) are operators from machine state to machine state, and
**one action is one whole call of `Machine::step`**: `BodyReturns(n, ok)` is `NodeOk`/`NodeErr` from a body and
everything it causes, up to the starts, the settle and the end of the run it may trigger. The tail
`AfterSettle` picks the set `G` of waiters granted by a pass over the queue; `GrantPass` determines it
uniquely. The code loops until nothing starts; a second pass grants nothing in one scope, because no start
readies a need that was not ready before.

| Event or timer of the code | Action |
|---|---|
| `begin` | `Begin` |
| `ShutdownRequested`, `CancelRequested` (a drop of `Running` included) | `Request(cause)` |
| `Held` | `BodyHeld` |
| `NodeOk`, `NodeErr` from a body / from a release, compensation or recovery / from the release between two attempts | `BodyReturns` / `CleanupReturns` / `RetryReleaseReturns` |
| `NodeCancelled`, `TaskJoined` | `BodyCancelled`; `AbandonedTaskEnds` for a node given up |
| `ReadyPublished` | `Acknowledged` |
| `ServeEnded` by itself / after `StopService` | `ServingEnds` / `ServiceStops` |
| timers `Within`, `Grace`, `Backoff`, `StopDeadline`, `Budget`, `Zero` | `WithinExpires`, `GraceExpires`, `BackoffExpires`, `StopDeadline`, `BudgetExpires`, `ZeroExpires` |

`Terminated` is the run that ended and has no task left, so that deadlock checking stays on.

### `ScopeTree`, `Scopes`: components, templates, instances

Nodes are plainer here (no effects, joins, threads, deadlines or parked faults: `Machine` has them) and what
one scope does to another is kept: grants on imported resources, faults and settles that cross a boundary,
release graphs that wait for each other, budgets that nest and cap one another, instances spawned and
stopped while the rest runs. The handlers of the engine call one another and re-enter themselves across
scopes, so here they are recursive operators, one for each function, and an action is again one event. The
table of a run with instances is laid out from the start (`born` says which scopes exist yet): how rows are
appended and removed is `Compaction`'s subject.

`calls` are spawns that passed the host's gate and whose event is still queued: the scope may settle in
between, and `InstanceSpawned` must cope.

### `Driver`: the host's loop

The state is the driver's own books: `live` (epoch, context, handle), `task` (what tokio polls), `mail`, `bank`
(which attempt's value is in the slot). A message is taken, translated to an engine event or dropped by its
epoch, and the effects of the step are performed: spawn, abort and join, arm and drop timers, transfer
values. `Machine`'s `body` is what the engine asked for. `AsSeen` puts the tasks and the queued answers in its
place (`HostBody`), and `ImplementsMachine` says that the result is a behaviour of `Machine!FairSpec`.

### `Acquisition`: inside one poll

`Driver` takes a poll in one step. Here a poll is several steps: the future of `cx.hold` completes, its value
goes to the registration cell, the body returns, the guard reports a registration and then the outcome; an
abort lands between two polls and is joined from another thread. A body may hold several authorities at
once, try two of them, drop a future, or register twice.

### `RunControl`: what is shared with other tasks

Each critical section of `running.rs` and `scope.rs` is a step: the handle (`user`), the driver's position in its
loop with the effects still to perform, the readiness latch, the report channel, the snapshot that
`spawn_instance` reads (`table`), the children's latches and their inputs, a body that spawns and one that
waits. `Teardown` drops all tasks wherever they stand. The engine appears only as far as this code can tell.

### `Instances`, `Compaction`

`Compaction` names rows by position, as the code does: `Spawn` appends (`instantiate`), `End` of an instance
may start a pass of `compact_ended_instances`, which rewrites every position in the table, the slots, the
locks, the instances and the timers, and moves what must stay readable to the history. `Instances` names
rows by their raw key and never removes one. `ImplementsInstances` is the refinement, through the code's own
readers (by key, from the table or from the history): compaction changes nothing that anyone can read. The
picture by key is kept in variables that only follow the machine, so that a position is resolved once per step.

The abstract module has one action for what compaction does show: `Freed`. A lock that a stopped service of
an ended instance still holds (see Divergences, `dead_holder`) vanishes with its rows.

### `Bodies`

One slot table per scope of the static graph and one for each scope of a live instance; imported values are
copied in when an instance opens and when their owner stores; exports are published outwards; a resource
released by dropping has its aliases taken away first (`disposal.rs`). `given` is what every body, episode,
release and recovery was handed. When the engine calls for an operation is reduced to its rules: needs ready,
dependents gone, instance ended.

### `Declaration`, `Validation`, `Layout`, `Builder`

`Declaration` is `plan.rs` and mounting: a mounted plan is renamed throughout. `Validation` has one operator per
rule, in emission order; a finding keeps its rule and its nodes. `Layout` is `Table::flatten` and `instantiate` with
their silent lookups. `Builder` is the authoring surface: plan builders, the one chain under construction with
the type state that decides its methods, terminals, mounts, ports, `bind`, `build`.

## Abstractions

* A duration is only present or absent: an armed timer may fire at any later step, before or after any body.
  A service without `stop_within` gets its stop deadline from the shutdown budget and may reach it earlier
  than the budget here: more behaviours than the code, never fewer. A timer the engine forgot is ignored by
  it, so timers fire only while armed (`Driver` has the forgotten ones too). In `Builder`, where durations are
  compared, a budget is one of three values.
* `Step` stands for `TryStep` as well in the engine (its failure is a value, so its body returns well).
  `zeroWait` is the zero backoff of retry and of restart. Restart limits are finite. Panics and errors are the
  same event to the engine; `Acquisition` keeps them apart.
* Locks and pool counters are derived from `granted`; the code keeps both, in `take_grants` and
  `release_grants`, which change them together. `Scopes` has exclusive locks and a pool per scope.
* `attempt` and `restarts` are bounded by the plan, so no state constraint is needed. A parked fault is the
  number of its attempt or episode; the parked ambiguity is a set with at most one element, as the `Option` it
  models.
* An acknowledgement of a value transfer is an event like any other. The tokio driver delivers it right
  after the effects that asked for it; the engine's interface does not require that.
* A value is who made it: node, instance, attempt. Its type is left out; the builder's type parameters are
  one type.
* `Builder`'s author works on the innermost open builder, begins one child at a time, exports last and stops
  at a refusal; a menu bounds the kinds, calls and sizes. Policies (retry, backoff, deadlines) carry no rule
  between nodes and are left out there; the two ways to write a release are one. The four columns of bodies
  that `commit` extends together are one column of records: a row out of step with the declarations is
  expressible, a column out of step with the other three is not.
* Trace events, `because`, `blocked_by`, rejections of impossible events and the text of errors are left out.

## Runs

| Run | Instance | Distinct states |
|---|---|---|
| `engine` | 14 plans of 5 nodes, each under both fail policies: a retried resource below an effect (three answers to an unknown outcome), a thread with a deadline, a join above both and a step behind it; a restarting service with a deadline, terminal or not, holding a lock its neighbour wants; two readers and a writer of one resource and three takers of two slots, one of them a thread that outlives its deadline, with an unbounded shutdown | 250,643 |
| `scopes` | 8 tables of up to 6 rows and 3 scopes: a component locking what its parent owns, under each pair of fail policies, exporting or not; a component inside a component, under each pair of fail policies of the middle and the inner plan; a service spawning two instances that compete with the parent; an instance that mounts a component | 91,435 |
| `driver` | 2 nodes in 3 plans, 1 request | 52,783 |
| `run_control` | 1 spawned instance, 1 request, 1 other event, a teardown at any moment | 326,718 |
| `compaction` | 3 instances, nested or beside each other, each with a service, a component and a template, spawned and ended in any order | 28,593 |
| `acquisition` | 2 authorities, an abort | 1,104 |
| `bodies` | 2 roots: sibling instances with a component each; an instance inside an instance; in both a source is attempted again, one released by a body and one by its drop | 247,472 |
| `builder` | 5 authors: all kinds of chain; plans mounted in mounted plans; ports; budgets three mounts deep; spawn declarations | 279,811 |
| `ambiguity`, `restart_need`, `early_terminal`, `inner_policy` | statements the engine does not keep: violated | |

Deadlock is checked except in `compaction` and `builder`, which stop when their identities or their menu are
used up.

### What they show

* **`engine`** - `TypeOK`: tasks and states agree, a node only enters states of its kind. `NothingLost`: at the
  end the report holds exactly the faults that were observed and not answered, every unknown outcome, and
  every acquisition that was not released. `JoinsBeforeCleanup`: no obligation starts before every body was
  joined. `PolicyHolds`: what FailFast and Isolate skip, and that nobody waits for a need that can no longer
  come. `AttemptsBracketed`: no attempt overlaps its predecessor or its predecessor's obligation, and none
  starts after the settle, nor does a serving episode, with one exception (Divergences, `late_serve`).
  `NoUnearnedBody`: no cleanup without an acquisition, no repeated effect without leave. `GrantsAreExclusive`
  (`LockSafety` and `PoolSafety`) and `NoIdleGrant` (whoever waits lacks a need, a grant or its turn), also while
  a late thread keeps what it was granted. `NoOvertaking`: the order of the queue, through waiters that were
  refused. `Completes`: a finite run ends.
* **`scopes`** - `ReleaseOrder`: nothing is taken down under a dependent in any scope, and a component's attempt
  has ended before its release opens. `NothingOutlivesTheRun`, `AdmissionNests`, `GrantsAreExact` across scopes.
  `NothingStalls`: a run that waits for nothing has ended or is steady. `InstanceTellsItsOwn`,
  `CleanupsAreShielded`. `IsolatedFaultsStayInside`: a fault that begins under a child plan that isolates faults
  leaves it only with the export, at any depth. (A fault that climbs into such a plan from a component inside
  it does not obey the plan: Findings, `inner_policy`.) `BoundedShutdown` and `StoppedInstanceEnds`: whatever the
  bodies do, a run and an instance with a budget end.
* **`driver`** - `NothingMisplaced`: every event fed to the engine belongs to the current attempt and state, but
  for one kind (Divergences, `refused_event`). `NothingLeaks`: tasks left at the end are recorded as abandoned.
  `ValuesInPlace`: a body or release finds its values in the slots. `ImplementsMachine`: the refinement.
* **`run_control`** - `CallersAreServed`: the latches, the report, the requests and the inputs never tell a wrong
  thing. `ReportArrives`, `ChildrenAreTold`: nobody waits for ever, even through a teardown.
* **`compaction`** - `RetentionBounded`: kept rows are fewer than twice the live ones between events.
  `ImplementsInstances`.
* **`acquisition`** - `NothingUnowned`: no abort loses a completed effect. `OutcomeComesLast`, `AbortIsAnswered`.
* **`bodies`** - `GivenTheCurrent`: a body gets the current value of what its node names, in its own copy.
  `ReadyIsReadable`, `DropIsLast`: the drop in a release is the last one.
* **`builder`** - `WhollyDeclared`, `NamesResolve`, `NoLiveExport`, `BudgetsNest`, `TableIsFaithful`: an accepted
  plan is what the engine and the bodies take it for, at every level of mounting.

### Bounds

The instances are small but every node sits next to the ones it interacts with. Two attempts are enough
for every hazard that lies between attempts (a release between them, an absorbed or a parked fault, a
second ambiguity); five nodes give a chain of four for transitive skipping and for the release order, and three
takers of a pool beside a writer.
Two instances are enough for a sibling to be wrongly affected, three for one that is nested, one that ends
before and one after it in the same pass of compaction. Three mounts give a plan that is renamed twice. The
nodes are not symmetric (the declaration index breaks ties in the queue), so no symmetry is declared.

### Fairness

`HostFairness` says of timers (the shutdown budget, the zero re-check, grace and stop deadlines) and value
transfers that they do not stay pending for ever: the driver arms a timer task for each and acknowledges
transfers itself. `BoundedShutdown` and `StoppedInstanceEnds` need nothing else: their bodies may hang.
`BodyFairness` adds that bodies, cleanups, stops and backoffs end, which is an assumption about the author's
code; `Completes` uses it, and `ImplementsMachine` shows that the driver's own fairness (`DriverFairness`: tasks
are polled, mail is read, timers ring) delivers what `Machine` assumes of its host. In `Machine` and `Scopes` each
conjunct has the form `[]<>(not pending)`. Since the action that ends a pending condition is enabled all the
while the condition holds, this is weak fairness of that action, stated on the state. `RunControl` and
`Acquisition` state weak fairness of the steps of tasks the runtime polls.

### Findings

* **`ambiguity`** - `Ambiguity::Retry` may run an effect again after an attempt of unknown outcome. If that one
  ends the same way, `finish_interrupted` (`faults.rs:448`) overwrites the parked record and the report names
  only the last, against INV-9 and INV-11 (`SdaxContract-v1.md:146`, `:148`). The weaker statement the tests
  check, one entry per node, holds (`NothingLost`).
* **`restart_need`** - the comment at `admit.rs:22-25` says a node loses a need when the service fails and
  restarts, and that starting it would break INV-1. `needs_ready` latches readiness at the first
  initialization (as `SdaxContract-v2.md` has it), so the node does start.
* **`early_terminal`** - when an inner scope settles by itself before it was steady (a terminal service finishes
  early), its component stays Running: `try_cleanup` (`cleanup.rs:163`) opens the component only if its gate is
  open, its unstarted dependents hold the gate shut, and the fallback does nothing while the parent admits. A
  finite plan is left with nothing to deliver and has not ended, against `sim/simulator.rs:255-257`.
* **`inner_policy`** - `node_failed` asks `inner_fault_reaches` whether a fault inside a component reaches it. When
  the component fails, `component_faulted` applies the policy of the scope the component stands in and then
  calls itself on the component around that scope without asking (`faults.rs:401-403`), and
  `settle_or_skip_inner` (`faults.rs:395`) settles the scope. With an inner FailFast plan in a middle plan that
  isolates faults and exports nothing, a step that fails in the inner plan settles the middle scope and all that
  runs in it, against OD-INNER-POLICY (`SdaxContract-v1.md:559`: the child's policy governs its own scope, the
  component faults only when its export can no longer arrive). `InnerPolicyGoverns` says it of every fault in such
  a scope; `IsolatedFaultsStayInside`, which holds, only of those that begin there.

## Divergences

Statements of the repository that the models also refute, kept as properties with a configuration each. They
are not among the runs above; each is run by hand with the command given and ends in a counterexample.

* **`dead_holder`** (`tlc -config dead_holder.cfg MCScopes`, `NoDeadHolder`) - the arm of `on_serve_ended`
  (`faults.rs:583`) for a service that is Stopping never calls `release_grants`, as its Ready arm does; a lock
  on an imported resource stays taken by a service that is gone. The contract (`SdaxContract-v1.md:62`, `:138`)
  says a service keeps a grant while it serves and that releasing it re-admits every scope waiting for it.
* **`late_fault`** (`tlc -config late_fault.cfg MCScopes`, `NoDoomedWaiter`) - `component_faulted` of a Ready
  component under an isolating parent (`faults.rs:377`) skips only Pending and Waiting dependents; one that is
  Running or in Backoff returns to Pending later and nothing skips it then, against T4 (`:97`, `:122`).
* **`refused_event`** (`tlc -config refused_event.cfg MCDriver`, `NothingRefused`) - `on_held` (`faults.rs:64`)
  accepts a registration only from a node that is Running. A body that registers in the poll that runs while
  the budget's timer is already queued finds its node Abandoned; the engine rejects the event and the driver
  records a driver bug, which `driver/observer.rs:173-175` says cannot happen.
* **`spawn_gate`** (`tlc -config spawn_gate.cfg MCRunControl`, `OwnTemplatesKnown`) - `after()`
  (`driver.rs:268`) spawns bodies before it publishes the spawn table of that step; on a multi-threaded runtime
  a body that calls `cx.spawn` at once may be refused with ForeignTemplate for a template its node declares,
  against `cx/instances.rs:101` and `engine/instances.rs:386`.
* **`late_ready`** (`tlc -config late_ready.cfg MCRunControl`, `GoneMeansReady`) - `ready()` answers Ok for an id
  whose latch is gone, and `ended()` drops the latch of an instance that failed before it was steady, against
  `cx/instances.rs:128-129`.
* **`late_serve`** (`tlc -config late_serve.cfg MCMachine`, `NoLateEpisode`) - a service's initializer that its
  deadline has aborted is already `cancelling` when the scope settles, so `interrupt` (`settle.rs:130`) returns at
  once and never signals it. If its body outruns the abort and returns Ok, `on_ok` takes it for an ordinary
  return and `ready()` (`faults.rs:117`) starts to serve in a scope that is Settling. The contract has an
  initializer return *before the stop request* or be interrupted, its `Serving` dropped unpolled
  (`SdaxContract-v1.md:50`, `:555`). The service is stopped like any other afterwards.
* **`spawn_early`** (`tlc -config spawn_early.cfg MCBuilder`, `SpawnsCanResolve`) - V-SPAWN-SELF-IMPORT
  (`rules.rs:281`) compares only the sources the template's plan names directly with the spawner. A template
  that imports a resource which itself needs the service is accepted: the instance waits for the resource, the
  resource for the service, and a service whose initializer awaits `Child::ready()` for the instance, which
  OD-SPAWN-EARLY (`SdaxContract-v1.md:566`) says is ruled out.
* **`finding_order`** (`tlc -config finding_order.cfg MCBuilder`, `FindingsInOrder`) - `pool_starve`
  (`budgets.rs:71`) walks the pools, so a later node's finding may come before an earlier one's, against
  `validate.rs:8`.

Read in the code while modelling, without a property of its own: `flatten` removes duplicate needs only where
they are adjacent (harmless: the engine uses them as a set); two services that share a pool of one slot are
accepted, and the second waits for the first to stop; V-MODE looks only at a plan's own nodes, by decision
(`Stage0Report` 8.2), which is why `EngineAccepts` asks a resident mode of the scope that declares a service;
if the event of a spawn is handled after the spawner's own instance ended and was compacted, the engine rejects
it as from an unknown spawner and the child's latch is answered only by the end of the run.

## Proofs

| Theorem | States |
|---|---|
| `MachineProofs!TypeCorrect` | `Spec => []TypeOK` |
| `MachineProofs!GrantsHeld`, from `LocksHeld` and `PoolsHeld` | `Spec => []GrantsAreExclusive` |
| `MachineProofs!JoinsComeFirst` | `Spec => []JoinsBeforeCleanup` |
| `LedgerProofs!NothingIsLost` | `Spec => []NothingLost` |
| `LedgerProofs!AttemptsAreBracketed` | `Spec => AttemptsBracketed`, an action property |
| `LedgerProofs!BodiesAreEarned` | `Spec => NoUnearnedBody`, an action property |
| `TaskProofs!TasksFitStates` | `Spec => []AllManned(Here)` |
| `AdmissionProofs!WaitersHaveReasons` | `Spec => []NoIdleGrant` |
| `AdmissionProofs!PolicyIsKept` | `Spec => []PolicyHolds` |
| `AdmissionProofs!NobodyIsOvertaken` | `Spec => NoOvertaking`, an action property |
| `DriverProofs!EngineInside` | `DriverSpec => Spec`, the engine inside the driver is `Machine` |
| `DriverProofs!TasksAreTracked` | `DriverSpec => [](HostBody = body)` |
| `DriverProofs!EngineAsSeen` | `DriverSpec => AsSeen!Spec`, the refinement but for fairness |
| `DriverProofs!NothingIsMisplaced` | `DriverSpec => []NothingMisplaced` |
| `DriverProofs!NothingIsLeaked` | `DriverSpec => []NothingLeaks` |
| `DriverProofs!ValuesAreInPlace` | `DriverSpec => ValuesInPlace`, an action property |
| `AcquisitionProofs!EffectsAreOwned` | `Spec => []NothingUnowned` |
| `AcquisitionProofs!OneFactory` | `Spec => []OneAcquisition` |
| `AcquisitionProofs!OutcomesComeLast` | `Spec => []OutcomeComesLast` |
| `AcquisitionProofs!MisuseIsTold` | `Spec => []MisuseIsReported` |
| `RunControlProofs!CallersServed` | `Spec => []CallersAreServed` |

*`Machine`.* The theorems hold for every `N`, `Pool` and every set of valid plans: the only assumptions are
`NAssumption` and `PlansAssumption` of `Plan`, which TLC evaluates on each run. `LockSafety` and `PoolSafety` are
not inductive: a pass over the queue grants several waiters at once, and each is checked only against the
holders and the waiters *ahead of it*. Two nodes granted in the same pass could conflict if neither were ahead
of the other, and the takers of a pool could exceed its limit together though none does so against those ahead
of it. The invariant (`Locks`, in `StageProofs`) therefore adds `Ordered`: the waiters are strictly and totally
ordered by who is ahead of whom. Of two that conflict one is then measured against the other; and of the takers
of a pool that one pass serves, the last one (`LastWaiter`, by well-founded minimality over the sets of those
behind a waiter) is measured against all the others, which bounds them together (`StartLocks`). `Enqueue` keeps
the order because joiners go behind the queue and are ordered among themselves by preference (rank, then
declaration index: `PreferenceOrders`), `Start` because it removes the granted from every queue position. All
other stages are *quiet* (`Quiet` in `StageProofs`): they take no grant, queue nobody, and keep the order of those
they leave queued. Quiet changes compose and preserve the invariant (`QuietLocks`).

`JoinsBeforeCleanup` is not inductive either: it says nothing of the scope before its cleanup. `Joined` adds that
a body only runs in a node that is `Running` or `Abandoned`, whatever the state of the scope, and that where the
scope is closed (not begun, in cleanup, ended) nothing is in flight. The stages are *calm* (`Calm` in
`StageProofs`): they start no body, bring nothing into flight, and do not close the scope; a stage that takes a
node out of its state is calm because the body of the node is over (`Loose`), which the handlers of outcomes
establish first (`TaskEnds`) and the others read off the state they handle. The exceptions are the pass over the
queue, which starts bodies while the scope admits (`StartJoined`), and `TryCleanup`, which looks before it opens
the release graph (`TryCleanupJoined`). That the nodes `SkipDependents` skips have not started needs the function
`SkippedBy` recurses with to exist; `ReachFixed` shows it by the least fixpoint, with no assumption that needs
are acyclic.

So the proof of an event is: it is a quiet and calm change of the current state (`Near`) followed by one of three
tails (`EventKeeps`). There is one lemma per event (`...Keeps`) and one per stage (`...Typed`, `...Quiet`,
`...Calm`). `TypeOK` is worth proving because it says more
than the types: a node only ever enters a state of its kind, which is what the `match` arms of the handlers
rely on, and only services are served.

The three theorems of `LedgerProofs` share one inductive invariant. `NothingLost` speaks of the end only, and
nothing that could be lost is lost there: it is lost on the way. All the three properties ask of a node depends on
its slot, its task and its entries in the report and in the books `due`, so these are gathered in one record, its
`Account`, and a stage is described by what it does to accounts (`...Account`). `Ledger` says that in every state
every account is an `Entry`: it balances (`Balanced`: what was observed is parked or reported, what was acquired
is owed where it is held, and nowhere else), its task fits its state and it never got a second one (`Tasked`), an
obligation was acquired or recovers what is unknown (`Earned`), records are parked where a later attempt may still
answer them (`Parks`) and reported of a node that will not start again (`Lists`). `Told` says that a body that
still runs in a scope that was stopped was told to go, and `Rested` that a scope that ended has nothing left to
clean up, or never began. `Account` has no entry for the queue or the locks: what `LedgerProofs` shows is
independent of fairness among waiters.

An event passes through states where the books of its node do not balance: a fault is recorded before the node is
settled, a value disowned before its next attempt is decided. `Draft` is an entry but for `Parks` and `Lists`;
`Begun` says that so far only the account of one node has changed; `Path` that the books are in order again and
that what happened to every account since the event began is allowed (`Led`); `Landed` that the event may end
here. `Led` is what the action properties need of a step: which bodies it may start, in which state of the scope,
and that no node leaves the states no attempt follows (`Past`). Each event has a lemma (`...Lands`) that leads from
`Ledger` to a `Path`, through the lemmas of the stages it calls (`...Path`), and the tails lead from there
(`Lands`); `StepLanded` puts them together.

The three theorems of `AdmissionProofs` are about the queue and the policies. None follows from what it says:
`NoIdleGrant` is only restored by the pass over the queue at the end of an event, and a policy skips nodes in one
event that another event could still have started. The invariant, `Admission`, differs with the scope. Until it
is stopped (`Up`) it is `Orderly`: no deadline of the shutdown is armed, a planned scope has begun nothing, a body
was cancelled for its own deadline only and a service that is ready has its initializer done (`Unhurt`), under
FailFast nobody failed, is ambiguous or skipped and no fault is reported (`Blameless`), who was skipped has a
need that came to such an end (`Answered`), who was started has its needs ready, and they stay so (`Grounded`),
and who was not may still get all of its needs (`Hopeful`). Once the scope was stopped nobody queues
(`Unqueued`); that it then stays stopped and quiet is `Hushed` and `Onward` in `MachineProofs`. `Busy` is
`NoIdleGrant` itself, of any state on the way.

An event either stops the scope, or leaves every node as admission sees it (`Alike`), or changes one node
(`Acts`, the others `Stays`) and passes over the queue. In the first case there is nothing to show but that the
queue is dropped (`StoppedProceeds`); in the second nothing can become idle that was not (`AlikeProceeds`); in the
third the pass itself has to be right (`GivenProceeds`): `PassFares` shows that whoever it leaves behind lacks a
need, a grant or its turn, and that it starts nobody over the head of a waiter in conflict. It uses that joins
declare no grants, and that `Enqueue` keeps the order of those who queued before. Each event has a lemma
(`...Proceeds`), on top of the locks and types of `MachineProofs`.

`TaskProofs` says what the engine itself remembers of its tasks. `Manned`: outside of `Abandoned` the state of a node
determines whether it has a task and of which phase (`PhaseOf`), and an aborted task belongs to an attempt or to a
node that was given up. That is inductive over `TypeOK`, but the driver needs more than states: how one event may
change a task (`Moves`, and `Retires` for the node whose task the event reports). Stages are of two sorts. Those that may abort but start nothing (`Ease`) keep the task of a
node with its phase and its attempt; those that may start but abort nothing (`Hire`) give a task only to a node that
had none, and a cleanup only to one that owes it. Neither gives a node an acquisition or a value. Both compose, and
each event is one outcome (`TaskEnds`) followed by them.

*`Driver`.* The theorems hold for every `N`, `Pool`, set of valid plans and `MaxRequests`. The driver and the
engine each keep a record of the same tasks and no event compares the two, so everything rests on `Hosted`, which
relates them node by node:

* `OneTask`, `OneAnswer`: a node has one task at most, its answer is queued only once the task is gone, and nothing
  that it said comes after its answer.
* `Tracked`: a task is of the phase and the epoch of the current attempt and is aborted exactly when the engine asked
  for it. `Heard`: the converse, a body the engine waits for has a task or an answer in the mailbox.
* `Current`: what a queued message says is what the current attempt may still say. An `Ok` comes from a context that
  handed its value over, a `Held` from an acquisition the engine has not heard of, a `Cancelled` from a task that was
  aborted.
* `Lodged`: the registration and the handle of the attempt agree with the body, and the slot has the value: that of
  the present attempt where the engine holds an acquisition, some value wherever the node has one to give.
* `Asleep`: before the run there is nothing but requests, so that `Boot` starts from no books at all.

None of these is inductive without the others: that a message is current uses that its node could not start again
before its answer was read, which is that the engine waits for the task (`TasksFitStates`) and that there is only one
of it. The step that reads a message has a lemma for each kind (`...Handled`), and what the driver does with the
effects of any event (spawn, abort, arm, drop, transfer) is shown once (`PerformHosts`), from `Moves` and `Retires` alone. The one event that the
engine refuses is a registration that lost against the budget; that it is the only one is part of the invariant.

From `Hosted` every step of the driver is a step of the engine or leaves the engine as it is (`DriverSteps`), so
`EngineInside` carries every theorem about `Machine` over to the engine as driven. `EngineAsSeen` is the stronger
statement, without the engine's own record of what it asked for: `SeenAsAsked` shows that `HostBody` and `body` are
the same in every state, and the lemmas `Same...`, one for each stage and each handler, that `Machine` reads the same
over either. What `ImplementsMachine` adds to it is fairness. `ValuesAreInPlace` needs `Lodged` and of the engine that
a started node has its needs (`Grounded`) and keeps them (`Furnished`), and that a cleanup begins before the node is
given up (`Stored`).

*`Acquisition`.* The theorems hold for any non-empty set of authorities (`AuthorityAssumption`, `NamesAssumption`).
None of the four is inductive. `IInv` adds `CellInv`, which ties the cell to the effects, to where the task stands and
to what the guard has already said, and `OutcomeInv`, which says of the mail, of the join and of what the engine heard
which of them are still to come, and that no Ok or Err on its way is of an attempt that registered twice. The
exclusion of a second factory rests on the cell being reserved before the factory is called and never going back to
unused.

*`RunControl`.* `CallersServed` holds for every number of instances, requests and other events, and every
order in which the driver performs the effects of one engine step. Its three parts need an invariant each, over
`TypeInv`. `LatchInv`: where the driver stands in its ending tells what the readiness latch and the engine's
outcome already are, and every latch was set from a state the engine did pass through. `RequestInv`: until the
driver's first step nothing has happened, and a request made before it is still queued when the driver gets to
it. `InputInv`: an instance is announced at most once, and its input stays where the engine takes it from until
then, whether the announcement is in the mail, with the engine, or still ahead of the body that spawns.

*Only model-checked.* Liveness is out of the prover's reach, and with it `Completes`, `BoundedShutdown`,
`StoppedInstanceEnds`, `ReportArrives`, `ChildrenAreTold`, `AbortIsAnswered` and the fairness half of
`ImplementsMachine`. The handlers of `Scopes`, the lookups of `Bodies` (aliases and exports followed through the tree
of scopes), flattening and renumbering in `Compaction` and `Instances`, and the rules and the layout of the builder's
modules are recursive over trees of any depth, as the code is. The prover does not support recursive operators, and
written as recursive functions their theorems would need induction over the tree, whose rule takes an operator as
parameter, which no backend can instantiate. The properties of these modules are checked on the instances above.

## Not modelled

* **Inspection views and report rendering** (`view`, `report.rs`): pure functions from a declaration or a report
  to text, with no state; what a report holds is `NothingLost`.
* **Simulator** (`sim`): a second, deterministic host of the same engine, driven by a script. Everything it can
  do to the engine is a behaviour of `Machine` and `Scopes`, whose hosts are free to do anything.
* **Testkit, scripts**: test harnesses and release tooling. The testkit's trace checkers were read as statements
  of what the engine promises.
* **Clock operations, stop signal and its wakers** (`cx`): a stop is delivered to the task, and a task may ignore
  it; which waker carries it makes no difference to any property here.
* **Observer and harness hooks of the driver**: a recording of what the loop does, and the handling of its
  panics. The rejection of impossible events by the engine is only modelled where the driver meets it
  (`refused`).

## Plan

1. `Driver` over several scopes, with instances: the epochs of rows that compaction renumbers.
2. The lookups of `Bodies` as least fixpoints, as `SkippedBy` is treated in `StageProofs`, so that `GivenTheCurrent` can be
   proved.
3. The simulator as a second host that implements `Machine`.
