# TLA+ models of Semantiva

Semantiva runs *pipelines*: sequences of nodes, each of which processes a data
object and reads and writes a shared context. A pipeline may be run directly,
from the command line over a *run space*, or by a *job queue* of worker threads;
its runs may be traced to JSON-lines files, which an aggregator reads back.

This directory holds TLA+ modules for the parts of Semantiva whose correctness
depends on an order of events or on many cases that meet: threads that share
queues, tables and objects; code that may stop at many places and keeps state for
its next call; a command that may be killed; predictions that are made before
a run and must agree with it. TLC checks the modules on small instances, and TLAPS
proves, for instances of any size, the safety of the job queue, the transport, traced pipeline
runs, launches, the aggregator, the nodes of a pipeline and the registry. Paths below are relative to `src/semantiva/`.

| Module | Models | Builds on |
| --- | --- | --- |
| `JobService` | what a caller of the job queue may rely on (abstract) | |
| `JobQueue` | master, workers, callers, and the transport between them | `JobService` |
| `JobQueueProofs` | theorems about `JobQueue` | `JobQueue` |
| `Channels` | a set of named FIFO channels (abstract) | |
| `InMemoryTransport` | publishers and subscriptions at the grain of their locks | `Channels` |
| `InMemoryTransportProofs` | theorems about `InMemoryTransport` | `InMemoryTransport` |
| `PipelineRun` | successive traced runs of one pipeline | |
| `PipelineRunProofs` | theorems about `PipelineRun` | `PipelineRun` |
| `Enumeration` | numbers in order, products over sets (operators) | |
| `EnumerationProofs` | theorems about `Enumeration`; steps along the natural numbers | `Enumeration` |
| `RunSpace` | expansion of a run space into runs (operators) | `Enumeration` |
| `RunSpaceLaunch` | `semantiva run` over a run space, once or twice | `RunSpace`, `PipelineRun` |
| `TraceAggregator` | ingestion of records, verdicts on runs and launches | |
| `TraceAggregatorProofs` | theorems about `TraceAggregator` | `TraceAggregator` |
| `LaunchTrace` | launches, then the aggregator on what they left on disk | `RunSpaceLaunch`, `TraceAggregator` |
| `LaunchTraceProofs` | theorems about `RunSpace`, `RunSpaceLaunch` and `LaunchTrace` | `LaunchTrace`, the proofs of `PipelineRun`, `TraceAggregator` and `Enumeration` |
| `Contexts` | contexts, collections, observers (operators) | |
| `Processors` | classes that nodes run, sweeps, parameters of a call (operators) | `Contexts`, `Enumeration` |
| `Nodes` | node factory, nodes, inspection, pre-checks (operators) | `Processors` |
| `NodeRun` | a pipeline inspected, built and run; calls on a collection | `Nodes` |
| `NodeRunProofs` | theorems about the operators of nodes and about `NodeRun` | `NodeRun`, `EnumerationProofs` |
| `Registry` | classes, modules, extensions and profiles, used by threads | |
| `RegistryProofs` | theorems about `Registry` | `Registry` |
| `MC...` | instances of the above for TLC | |

`PROJECT.json` lists the components, runs, seeded bugs, source lines of each
definition, findings, hazards and theorems.

## Inventory

**Job queue** (`execution/job_queue/`). State: the master's `job_queue`,
`pending_futures`, `running`, the shared `stop_event`; a worker keeps nothing but
where it is. Operations: `enqueue`, `stop`, `run_forever`, `worker_loop`.
Master and workers talk through channels `jobs.<id>.cfg` and `jobs.<id>.status`
of a transport. In one process messages carry references, so the caller, the
worker and the master share a job's context object. Hard: workers race for jobs;
futures are cancelled under the master; a status names its job through a shared,
mutable object; failures in a worker; shutdown from three sides. Correct when no job is
lost or run twice, jobs start in order, a future resolves once with its own
result, every future is settled in the end, stop requests are honoured.

**In-memory transport** (`execution/transport/`). State: a table from channel to
deque and lock; a flag per subscription. Operations: `publish`, `subscribe`,
iteration, `close`. Callers are the job queue and `LocalSemantivaOrchestrator`,
which publishes each node's output. Hard: the table is not locked, iteration
goes through a copy of it, callbacks run in threads of their own. Correct when each
channel is a FIFO queue whose messages are delivered once.

**Orchestrator, pipeline, executor** (`execution/orchestrator/`,
`execution/executor/`, `pipeline/pipeline.py`). State kept between runs: staged
run metadata, the canonical specification. Operations: `Pipeline.process`,
`set_run_metadata`, `execute`. `execute` calls the driver's hooks, builds nodes,
runs them, and publishes outputs. Hard: every call can raise, inside or outside
two nested try statements. Correct when the trace of a run says what happened and
nothing leaks from one run to the next.

**JSONL trace driver** (`trace/drivers/jsonl.py`). State: the open file, the
run-space file, the sequence number. Operations: the hooks, `flush`, `close`.
Correct when each record is in the file of its run, and sequence numbers order the
lifecycle records.

**Run-space launch** (`cli/__init__.py`, `trace/runtime/`). State: the exit code, the
count of completed runs, the emitter's set of launches, the driver's run-space file.
`_run` expands the run space, checks the first run against the inspection, identifies
the launch by a hash of specification and files, writes `run_space_start`, runs one
pipeline many times, and writes `run_space_end`. Hard: files that are edited
meanwhile, buffers that are not on disk yet, failed, interrupted, killed and
repeated runs. Correct when each launch has one start and one end whose counts agree with
its runs, and one identity means the same runs.

**Trace aggregator** (`trace/aggregation/`). State: aggregates of runs and
launches. Operations: `ingest`, `finalize_run`, `finalize_launch`. Hard: records
arrive out of order, twice, or not at all, and finalizing writes to the
aggregates. Correct when the verdict depends on the records and not on their order,
and says no more than they do.

**Run-space expansion** (`execution/run_space.py`). Pure: blocks of value lists
become runs, by position or by product. Correct at zero, at the limit, with
duplicate keys.

**Context types and observers** (`context_processors/`). State: global and
per-item keys. Correct when a read returns what was last written, whatever
the mix of global and per-item writes and deletes, and a node writes only what it declares.

**Parameter resolution, nodes, inspection** (`pipeline/`, `inspection/`,
`data_processors/`). A parameter comes from the definition, the context or a default;
inspection predicts, without running, which context keys a pipeline needs and
leaves; the trace says where each parameter came from. Correct when the predictions agree with
the run.

**Registry** (`registry/`). Process-wide tables of classes, modules and
extensions, without locks, filled by profiles that workers apply. Hard: test and mark
are two steps; an import may fail, or be under way in another thread. Correct when
who was served finds what was promised, and a refusal has a cause.

The other parts (component contracts, loaders, reporters, logger, hashes) are pure
functions or I/O; `PROJECT.json` gives the reason for each.

## Plan

1. *(done)* `JobService`, `JobQueue`, `Channels`, `InMemoryTransport`,
   `PipelineRun`; proofs about `JobQueue`.
2. *(done)* `RunSpace`, `RunSpaceLaunch`, `TraceAggregator` and their composition
   `LaunchTrace`.
3. *(done)* `Contexts`, `Processors`, `Nodes`, `NodeRun`.
4. *(done)* `Registry`; proofs about `PipelineRun` and `Registry`.
5. *(done)* Proofs about `InMemoryTransport` and its refinement of `Channels`, about
   launches, the aggregator, their composition, and `NodeRun`; `ProfileReproduces`.
6. *(done)* `Enumeration`; what expansions and sweeps compute, and what a verdict means
   (`ExpansionExact`, `SweepExact`, `VerdictMeansOutcome`), proved for data of any size.

What is left is out of the prover's reach (liveness) or of another kind (components listed as
not modelled).

## The job queue

*State.* `JobQueue` has a program counter for the master and for each
worker, the queue and the futures, the two channel families, and the key
`job_id` of each context object. A job stands for its id, its message and
its channel. `Contexts` and `ContextOf` say which jobs were enqueued with one
and the same object: `enqueue(..., context=c)` stores the reference.

*Channels.* Each `jobs.*` channel receives exactly one message, so a family is
the sequence of its channels in order of creation and the set of those still holding
their message. An iteration looks for the first full channel in a copy of the
table; the table only grows at its end, so the length of the copy (`mview`,
`wview`) is kept in its place. A scan is one step here although the code
looks at its channels one by one, and so is a publication although `publish` enters
the channel in the table before it appends to the deque. Both are sound:

- a publication takes effect somewhere between the two steps, and the
  publications can be put in the order in which their messages are popped, because a message
  is popped before one of an earlier channel only if that one was appended after the
  copy was made or the scan had passed it;
- a longer copy never changes which channel is the first full one at the moment of the pop,
  since an earlier channel that was passed held no message and its only one had
  been taken, or had not yet taken effect.

`InMemoryTransport` has the finer grain, and its properties
`OldestChannelFirst` and `ImplementsChannels` confirm the two facts there. Only the master opens `cfg`
channels, and each `status` channel is opened by one worker, so the race that `transport_race`
shows does not arise: every channel here has a single publisher.

*Actions.* `Register` and `Put` are the two halves of `enqueue`; the other
callers' actions are `Cancel`, `Stop`, `SetStopEvent`. The master's round is
`MasterLoop`, `MasterGet`, `MasterPublish`, `MasterSubscribe`, then
`MasterReceive` or `MasterNothing`, then `MasterCheck`. `MasterReceive` joins the
pop with the reading of `job_id` and the resolution of the future: a context
may change between the pop and the read, and that is the same as a later pop,
since no other thread takes status messages. A worker polls, takes a message, then processes it or gives it up, and
replies. A pipeline's effect on data is left out; that it may raise is
not: `WorkerGiveUp` is enabled for every job and is the only way on for a
malformed one. A pipeline that itself writes `job_id`, or replaces its context
object, is outside the model, as are pipelines that never end.

*Runs.* `jobqueue_safe` has three jobs (two share a context, two have a future,
one of these may be cancelled) and two workers: the smallest instance in
which two workers overtake each other while a third status waits, and a status
message outlives the value of its context's key. Properties: `InOneHand` (a job is in exactly one
hand), `PickupIsFifo`, `AnswersMatch`, `NoStatusSwallowed`, and the refinement of `JobService`. `jobqueue_live` has the two
jobs with a future; both it and the safe run let every thread stop, so deadlock
is not an error there. `jobqueue_shared`, `jobqueue_cancel` and
`jobqueue_answered` are expected to fail and are described under *Findings*.

*Refinement.* `JobService` knows jobs, futures and answers only. Its arrival order
is the concatenation of the `cfg` channels, the job in the master's hands and
the queue; a job's phase is read off the hand it is in. Thus jobs are *started*
in the order in which they were *enqueued*, over a queue, a thread, a table and racing
workers. `JobService` lets a future resolve with another job's
result only if both jobs hold one context object.

*Fairness.* Weak fairness of the master, of each worker, and of the
second half of `enqueue`. All waits in the code are bounded (`get(timeout=0.2)`,
`sleep(poll_interval)`), no lock is held across a call, and the threads are
ordinary threads the operating system schedules. No fairness is assumed for
callers, cancellation or shutdown. The processing of a job is part of the worker's
fair steps: a pipeline is taken to return or raise.

## The transport

`InMemoryTransport` splits `publish` where a thread switch matters: `Lookup`
of the table, `Store` of a new deque on a miss (a `defaultdict` whose factory is
a Python function does not hold the interpreter lock throughout), `AppendToDeque`
under the deque's lock. A deque is named by the message whose publication
created it, so that two deques of one channel are told apart. An iteration copies the
table (`Snapshot`) and goes through the copy one channel at a time
(`Pass`, `Pop`). Copying is one step: `list(items())` runs without
giving up the interpreter lock. A subscriber is a poller, which leaves its loop
after a message or goes on and subscribes again, as master and workers do, or a
callback thread whose subscription may be closed at any time.

The run `transport` has two publishers (three messages and one) on two channels, one
of which both open, a poller on both and a callback on one. `Sole` singles out
channels with one publisher; for these the transport implements `Channels`, and
`OldestChannelFirst`, `EndsDrained` and `Delivered` hold. `NeverTwice` holds for
all. Fairness is weak for each thread; nobody is obliged to close. `seen` is a history variable.
`transport_race` drops the restriction to single publishers and fails.

## Pipeline runs

`PipelineRun` is sequential: the interest is in where a run may leave. Every
call of `execute` that can raise has an action for the case that it does:
`ResolveFails`, `StartFails`, `InstantiateFails` escape before the try;
`PrepareFails`, `NodeRaises`, `ReportFails`, `ReportErrorFails`, `PublishFails`,
`EndFails` and `CloseFails` happen inside, and go where the two `except` clauses and the
`finally` clause send them; `Interrupt` and `ProcessorExits` (a processor that calls
`sys.exit()`) are no `Exception` and pass the `except` clauses. Records keep
their kind, run, node, status, file and number. `log` is the sequence of all
records in all files; `asked` is a history variable. A hook that raises is taken
to have written nothing. Inside `execute` an interruption is taken to fall into a node, where a run
spends its time, and `SystemExit` to come from a processor; what `Launches and their trace` says of
an interrupt applies outside of `process()`. `set_run_metadata({})` and `None` are the same here, since
`configure_run_metadata` of the orchestrator is called by nobody else.

`pipeline_run` makes three runs of two nodes with two metadata dictionaries. Three
runs are what it takes for a file or metadata to be inherited and inherited
again, two nodes for an error after a success and before an unreached node. A
longer pipeline repeats the loop. The bound `MaxRuns` ends the behaviour, so
deadlock is not an error there.

## Launches and their trace

*From the command line.* `RunSpaceLaunch` follows `_run` step by step: `load`,
`build`, `expand`, `preflight`, `identify`, `start`, the loop, `end`, `exit`; each step has
the action that goes on and the ways to leave with the exit code that they have in
the code. Between `staged` and the return of `process()` the steps are those of
`PipelineRun`, by `INSTANCE`: the launch adds which metadata is staged, what an
exception or an interrupt in a run means for the launch, and that the driver flushes and
closes its run-space file with each run. `Raised` is an exception that leaves the loop: a handler
sets `exit_code`, unless none takes the exception (`SystemExit` passes both `except` clauses) or an
interrupt hits the handler first. Then `exit_code` is still `EXIT_SUCCESS` when the `finally`
clause writes the end, and `code` is `escaped`. `InterruptLoop` is an interrupt in the loop but outside of
`process()`; as `process()` returns in one step and `AfterRun` counts in another, it
may leave a run that returned uncounted. An interrupt after the start was written and before the
`try`, or within the `finally` clause, leaves an end record or none, as `EmitEnd` followed
by `Kill`, `Kill` and `EmitEndFails` do. A *plan* gives the invocations of a
behaviour in advance: the content of the source file in each of its editions, the options,
and what is wrong with them. A second invocation starts with a new driver, pipeline and
emitter, on the same file and disk. `MaxInvocations` and `MaxAttempts` bound the plans, `MaxEdits` the
edits of the source, `MaxRuns` the runs of a launch.

*The disk.* `durable` counts the records that were flushed. When the process is
killed, of each file a prefix survives that has at least these. `disk`
is the set of surviving records, with the time at which they were written, which is above 0; in a
plan that is `stepped` the clock goes back once in between.

*Identity.* A launch id is the one provided, or a fresh one, or, with an idempotency key, stands for
the hash of what goes into it: the fingerprints of the files, which are taken after the expansion
has read them, or else the specification.

*The aggregator.* `TraceAggregator` ingests a record in one step; verdicts are operators
on its tables; asking for one is an action, as it writes synthesized times into the
aggregate. `LaunchTrace` lets it read the records on disk in any order and some of them twice,
and be asked at any time.

*The run* `launch_trace` (620,329 states) has some 1,700 plans that only expand a run space
and 14 that go on. The run spaces are all those of one block over six value lists and some
twenty sources (by rows and by columns, ragged, empty, malformed, with a selection, with
a renaming that clashes), all pairs of blocks out of a smaller choice in each of the
modes, and none: every rule of the expansion meets its zero case, its limit and
a clash of keys. The executed plans have launches of one and two runs of one node, which fail at every
place of `PipelineRun`, are left by `SystemExit`, are interrupted within a run and between two, are
killed at any point, and are tried again under the same or another attempt, with one edit or deletion of the source file between its expansion
and its fingerprint or between two invocations; and one plan for each refusal. Two runs are enough for something to be inherited, left out or counted wrong;
more nodes change nothing for the launch, and `pipeline_run` has two.

- `ExpansionExact`: as many runs as the lists announce, no two alike, rows kept together.
- `PreflightCoversAll`: the check of the first run's keys covers all runs.
- `RunsAttributed`: every run carries the identity of its launch and its index.
- `SummaryHonest`: `run_space_end` counts no run that did not return; it may miss one that did,
  when an interrupt came before the count, but not when it says *failed*; and it names no
  failure only if all planned runs returned or an exception that no handler took is leaving.
- `EdgesPaired`: start and end, in memory and on disk, whatever is lost.
- `SameIdSameRuns`: with a key, one identity means the same runs, unless the file was edited
  between expansion and fingerprint.
- `VerdictsFollowRecords`: a verdict is a function of the set of records, whatever their
  order and repetition.
- `VerdictMeansOutcome`: what *complete* says of what the launches did. An invocation succeeded
  when its `_run` returned `EXIT_SUCCESS`; one that `SystemExit` left did not, whatever its status.
- `TimesHonest`: asking early never makes a run look as if it ended before it began.

A launch ends, so deadlock is not an error here.

## Pipelines from the inside

`Contexts`, `Processors` and `Nodes` are operators; `NodeRun` is the state machine
that uses them. A *class* is a record of what the framework knows of user code and of what its code
does to a context; a *definition* is what the configuration says of a node. `Factory` makes a node of it
or refuses; `Inspection` walks over the nodes as `build_pipeline_inspection` and
`validate_pipeline` do; `Process` does what the `process` of each kind of node does, in its order:
gate of the data's type, parameters, call, write, merge. Every operator gives an error with the context
as it is at that point, as the context is one object that is written in place.

The generated classes are modelled by what they do: renamers, deleters, templates, slicers, data
sources and sinks, and parameter sweeps, with the materialization of ranges, value lists and
lists out of the context, products and positions with and without broadcast. What a class does to
a context is a sequence of steps - a call of user code, a write, a deletion - and `Perform` takes one
after the other until one fails, so that what was written before a failure stays. Values are opaque scalars, lists
and None. Keys, parameters and variables are numbers. An expression of a sweep is the choice of one
variable.

*The run* `node_run` (180,758 states): every pipeline of one and of two nodes out of some fifty
definitions and of three nodes out of the eleven that are about keys, each with seven
contexts (single and collections, with None, with lists) and up to four data; and
up to three calls on three collections. Three nodes are what it takes for a key to
be needed, deleted and created in every order. Properties:

- `MissingExplained`: a validated pipeline lacks a parameter only in three listed cases.
- `TypeErrorsExplained`: wrong types meet only where the validator does not look.
- `EffectsDeclared`: a node changes no key that its class does not declare, even when it fails.
- `PreCheckForetells`: the check and the parameter sources in the trace agree with the run.
- `SweepExact`: the calls of a sweep are those its values ask for, and so is what it leaves.
  Values are compared for the variables that some expression uses; the others still count.
- `CollectionCoherent`: conflicts come from appending or from slices only, and without one all
  ways to read agree.

A pipeline ends, so deadlock is not an error here.

## The registry

`Registry` is at the grain of one access to a shared dictionary or set: `TestMarked`, `Mark`,
`Import`, `PublishClass` are steps of their own, as any other thread may come in between. Python's import lock
per module is `importing`. `register_modules` is called from four places and returns to
where `then` says. `ApplyProfile`, `ResolveSymbol`, `Clear` and `Replay` (a captured profile applied
to an empty registry) are what threads begin. `ResolveSymbol` stands for `resolve_symbol` and
`get_processor`: a name, a slice or `module:Class`.

The run `registry` (3,275,587 states) has two threads with two operations each, on four modules, two of
which define a class of one name and one of which may not import; extensions of all six
forms; five profiles. Two threads are the least for a race; a third one adds no new kind of
state, as a thread sees of the others only that a module is marked or handled. Two operations are the least for one
that finds what an earlier one left. `PromiseKept`, `RefusalsExplained` and `ProfileReproduces`
are described there, and proved as well. Operations are bounded, so deadlock is not
an error.

## Findings

Five runs are expected to fail: each states what the code's own documentation says.

- `jobqueue_shared`: with one context object in two jobs a future resolves with
  the other job's result (`queue_orchestrator.py:180`).
- `jobqueue_cancel`: cancelling a future ends the master (`queue_orchestrator.py:185`).
- `jobqueue_answered`: a job that fails in the worker never settles its future
  (`worker.py:170`).
- `transport_race`: a message published during the creation of its channel may
  be lost (`in_memory.py:151`).
- `pipeline_file`: a run that is left before the `try` of `execute` leaves the driver's file open, and
  the next run's records are written to it. In the trace `on_pipeline_start` raises once the file is
  open (`orchestrator.py:203`), as it does for a value of `run_space_context` that JSON cannot
  write, such as a date: the fallback of `jsonl.py:168-175` drops only the specification. An
  instantiation that fails (`orchestrator.py:213`) does the same.

The properties of the passing runs are stated around these: `Settles` excepts dropped
jobs and a master that has gone, `AnswersMatch` admits an answer out of a shared
context, `FileInherited` says exactly when a file is inherited.

Met while reading, and not the subject of a run:

- the canonical specification is changed in place after it was hashed, so that a second run
  of one `Pipeline` with a sweep hashes something else (`orchestrator.py:178`);
- `context_writes_realized` cannot fail (`orchestrator.py:625`), and parameters with a
  default are never named by a SER (`orchestrator.py:650`);
- unknown parameters of a swept node or a renamer are ignored
  (`_param_resolution.py:123`), and a list of two numbers in a sweep becomes a range of ten
  values (`node_preprocess.py:54`);
- the node that injects a result into the context writes keys that its class does not
  declare (`nodes.py:733`);
- after a `SystemExit` in a processor `run_space_end` has no status although planned runs are
  missing (`cli/__init__.py:886-909`), and an interrupt between the return of `process()` and the count
  leaves a run that returned out of it (`cli/__init__.py:865-868`); `SummaryHonest` states both;
- the docstring of `ContextCollectionType.set_value` says that a write removes the key from the
  items (`context_types.py:347`); it does not, and the items keep their old values;
- an unknown class in a slice is a `KeyError`, not the error of unknown processors
  (`builtin_resolvers.py:79`);
- two threads may call the `register()` of one extension twice, and an extension class that
  raises is passed over (`plugin_registry.py:119`).

## Seeded bugs

Next to some definitions stand variants marked `mutant`. They are not part of any
specification. Each replaces its neighbour in an experiment that shows that a
property notices the bug: a popped message that is only peeked at, a stack for the
queue, a `close()` outside the `finally` clause, a summary that counts any return.

## What is proved

For any sets and numbers that satisfy the assumption of the module, finite or not:

| Module | Theorem | Statement |
| --- | --- | --- |
| `JobQueueProofs` | `TypeCorrect` | `Spec => []TypeOK` |
| | `HandOverCorrect` | `Spec => []InOneHand` |
| | `PickupOrder` | `Spec => []PickupIsFifo` |
| | `AnswersCorrect` | `Spec => []AnswersMatch` |
| | `StatusesCount` | `Spec => []NoStatusSwallowed` |
| | `Refinement` | `Spec => ImplementsService` |
| `InMemoryTransportProofs` | `Invariant` | `Spec => []IInv` |
| | `TypeCorrect` | `Spec => []TypeOK` |
| | `HandedOutOnce` | `Spec => []NeverTwice` |
| | `ServedInOrder` | `Spec => []OldestChannelFirst` |
| | `NothingMissed` | `Spec => []EndsDrained` |
| | `Refinement` | `Spec => ImplementsChannels` |
| `PipelineRunProofs` | `RunInvariant` | `Spec => []IInv` |
| | `RunTypes` | `Spec => []TypeOK` |
| | `TraceInOrder` | `Spec => []WellFormedTrace` |
| | `OkIsEarned` | `Spec => []OkMeansComplete` |
| | `CausesAreTraced` | `Spec => []CauseInTrace` |
| | `MetadataStaysFresh` | `Spec => []MetadataFresh` |
| | `FilesAreInherited` | `Spec => []FileInherited` |
| `LaunchTraceProofs` | `Invariant` | `LaunchSpec => []LaunchInv` |
| | `LaunchTypeCorrect` | `LaunchSpec => []LaunchTypeOK` |
| | `Attribution` | `LaunchSpec => []RunsAttributed` |
| | `HonestSummary` | `LaunchSpec => []SummaryHonest` |
| | `PairedEdges` | `LaunchSpec => []EdgesPaired` |
| | `SameIdentity` | `LaunchSpec => []SameIdSameRuns` |
| | `ExpansionIsExact` | every run of `ExpandRunSpace(spec)` has the keys of `spec`; without an error, `IsExpansion` |
| | `FirstRunSuffices` | `LaunchSpec => []PreflightCoversAll` |
| | `ExpansionsAreExact` | `LaunchSpec => []ExpansionExact` |
| | `TraceInvariant` | `Spec => []TraceInv` |
| | `TraceTypes` | `Spec => []TypeOK` |
| | `VerdictsFromRecords` | `Spec => []VerdictsFollowRecords` |
| | `VerdictsMeanOutcomes` | `Spec => []VerdictMeansOutcome` |
| | `TimesAreHonest` | `Spec => []TimesHonest` |
| | `LaunchesAreKept` | the properties of launches, of `LaunchTrace` |
| `TraceAggregatorProofs` | `AggregatorFollows` | `AggSpec => [](TypeOK /\ VerdictsFollowRecords /\ EarlyVerdictsNeverAccuse)` |
| `NodeRunProofs` | `RunInvariant` | `Spec => []RunInv` |
| | `RunTypes` | `Spec => []TypeOK` |
| | `OnlyDeclared` | `Spec => []EffectsDeclared` |
| | `GatesForetold` | `Spec => []TypeErrorsExplained` |
| | `TraceForetells` | `Spec => []PreCheckForetells` |
| | `CollectionsCohere` | `Spec => CollectionCoherent` |
| | `MissingForetold` | `Spec => []MissingExplained` |
| | `SweepsAreExact` | `Spec => []SweepExact` |
| `RegistryProofs` | `RegistryInvariant` | `Spec => []IInv` |
| | `ServedCanRely` | `Spec => []PromiseKept` |
| | `RefusalsHaveCauses` | `Spec => RefusalsExplained` |
| | `ProfilesReproduce` | `Spec => []ProfileReproduces` |

None of the properties is inductive alone.

*Job queue.* The inductive invariant `IInv` adds what
ties the hands together: `HandsOk` (a hand is full when
its program counter says so, and no two workers hold one job), `SubmittedOk` and `StartedOk` (where
a job is between caller and `cfg` channel, and from there to its end, and that these places exclude
each other), `FuturesOk` (the entries of
`pending_futures` and the states of the futures), `ContextsOk` (the key `job_id`
of a context is that of a job with this context that has run, and is set for
each job that has) and `AnswersOk` (a resolved future has run, and its answer is a
consumed status of the same context). `PickupIsFifo` and `NoStatusSwallowed` are conjuncts themselves.
The lemma `InitInv` shows it of the initial state and `InvStep` of each action;
`Refinement` adds, for each action, the step of `JobService` it maps to or that it
stutters (`StepRefines`), from facts about phases (`PhaseFacts`,
`NextPhaseFacts`).

*Transport.* `IInv` says where each message is (`OnePlace`: still to be published, in one deque of its
channel, or taken), which deques exist (`TableOk`, `DequesMade`: a deque is made by the publication it is named after), and what a
subscription holds (`SnapshotsOk`). `SoleDeque` is the core of everything that is said of one-publisher channels: whoever holds
a deque of such a channel holds the one that is in the table, so the race of `transport_race`
cannot touch it. `SeenOk` follows the messages that waited when a subscription made its copy: each is taken once
the subscription has passed its channel. `NeverTwice` needs none of this and holds in all channels.
`Refinement` maps the append to `Publish` and the pop to `Take` for these channels, and all
other steps to stuttering.

*Pipeline runs.* `IInv` adds to the properties `FileKept` (the runs since the one that the open file is named
after all left it open), `FilesOk` (the records of the current run are in the open file),
`RecordsOk` (what a record that is on file says of where the run is: an end record means that it is
closing, a SER "error" that it is ending), `ProgressOk` (the nodes that are done have their SER, and the cause of
a run that is about to raise agrees with its records) and `StagedOk` (what the staged metadata may be). The steps are sorted
by what they leave alone (`ByKind`); each part of the invariant has its step lemma. A run that is over keeps its records and its
outcome (`LogGrows`, `PastStays`), so only the step that ends a run has to be looked at.

*Launches.* `LaunchInv` rests on the invariant of `PipelineRunProofs` (`RunOk`), whose step lemmas are used again for
the runs inside of a launch. It adds how many runs have begun and returned (`CountOk`; `Exact` says that none has returned
uncounted, which holds once an exception of a run was handled), which records of the launch
exist and what the end names (`RsOk`, `Names`), that a run that succeeded has flushed the start of the launch (`FlushedOk`), the
metadata of the runs (`AttributedOk`), and what an identity under a key stands for: the edition of the source that was fingerprinted
(`IdentityOk`, and `ExitsOk` for invocations that have ended). The proof goes with that of the composition in `LaunchTraceProofs`.

*Expansions.* `ExpansionIsExact` is a fact about `ExpandRunSpace` alone. It is proved along the code: `Cross` and `Pairwise`
of two lists of runs, `CrossAll` and `PairAll` of many, `Expand` of value lists, `Block`, `Combine`. At each stage four things are
kept: the keys of all runs (`Uniform`), their number, what they are drawn from, and that no two are alike if no list repeats
itself. The number is that of a product over a *set* of keys, whereas the code multiplies along a *sequence*; `EnumerationProofs`
bridges the two (`ProductAlong`: the product over a finite set is that along any enumeration of it, `SortedIs`: a finite set
of numbers has its sorted sequence). `Differ` is the weakest condition under which runs must differ. `PreflightCoversAll` follows from the
first part by the invariant `Covered`, which carries it to the loop; `ExpansionExact` from the second.

Functions that are defined over `0 .. n` from the value before, as folds over sequences are here, are followed by `StepByStep`: what holds of 0 and is handed on
holds of `n`. It is proved from the least element of a set of numbers (`WellFoundedInduction`),
as the induction theorems of the library cannot be instantiated.

*Aggregator.* `TraceAggregatorProofs` lets the aggregator ingest any stream of records (`RecordOk` is what the code does not ignore, and
that the clock of records is above 0) and finalize at any time. `AggInv` says that the tables are a function of the set of
records that were seen (`RunFollows`, `LaunchFollows`), and what the times of a run cover
(`RunTimes`). That a finite set of times has an earliest one is proved in the module. `LaunchTraceProofs` discharges the assumption
on records: all that is on disk satisfies `RecordOk` (`DiskOk`), and as long as the clock does not go back a
run on disk starts before it ends (`OrderOk`).

*Verdicts and outcomes.* `VerdictMeansOutcome` compares a verdict with what the invocations of a launch did, which are over by then. Two parts of the invariant remember
it. `FinishOk` says of a launch that ends with success that the runs it has begun are completed and, once it has exited, that both
its records and all of its trace are flushed. `KeptOk` says what is left of this when the process is gone (`Told`): where an invocation
succeeded, the starts and ends of all its runs are on disk, and each start that is on disk is that of a run that its invocation began. Both rest on
`StartedOk` of `PipelineRunProofs` (a run past its start, and a run with an end, has a start record). The verdict counts the runs of a launch by index and invocation, and so does
`BegunUnder`; attempts that begin the same index twice are two runs.

*Nodes.* First lemmas for each operator of `Contexts`, `Processors` and `Nodes`, up to what `Process` does for any node, data and context
(`ProcessOk`): a context stays a context, only declared keys come and go, a missing parameter is one that is neither configured, in the
context, nor has a default. Sequences of steps are followed by induction on their length (`StepByStep`). `RunInv` then says that the
nodes are what the factory makes of the definitions (`PipeOk`), how far the run is (`PlaceOk`), what the last node did
(`LastOk`), and that the data are of the type that the node before gives (`Handed`). `MissingExplained` needs two more parts, about
keys on their way through the pipeline: `Supplied` (a required key that the payload had is still there, or a node in between declares that it deletes it) and
`Written` (the same of a key that a node left), and a walk over the inspection: a key that
is not required at a node was created before it, and after the last node that deletes it.

*Sweeps.* `SweptOk` strengthens `RunInv` for `SweepExact`: what a swept node that completed has called, left in the context and
handed on comes from a sequence of steps (`SweptNode`). In a product the steps are numbers in a mixed radix, one digit for each variable:
`TakesAny` finds, for any choice of values, a number with these digits, one digit at a time (`TakesMore`), by division with remainder, so
that each combination occurs, and as their number is the product of the lengths none is left over (`Crossed`). By position,
`Aligned` follows the longest list (`Longest`). `CallsMade` follows `Perform` over a sequence none of whose steps fails, and
`AllPublished` over the writes at its end: each variable's values stay, as no two share a key.

*Registry.* `IInv` says of the registry that every marked module is *ready* - its import failed, its
classes are bound, or a thread handles it - and that what was served is marked; and of each thread where it is inside
`register_modules` and for whom (`Place`, `Resolving`), and what it knows of the extensions it could not
resolve (`Loading`). `Place` holds the core: a thread that publishes has bound all the classes it no longer has to. Each of
the twenty-two actions keeps it (one lemma for each), and the places of other threads are not touched (`Elsewhere`).

Assumed are only the named assumptions on the constants, which TLC evaluates in the runs of these
modules:

- `JobQueueAssumption`: every job has a context; no job is the mark for none.
- `TransportAssumption`: a message has a channel and is published once.
- `PipelineRunAssumption`: a number of runs, and at least one node.
- `RunSpaceLaunchAssumption`: plans are not empty, no longer than `MaxInvocations` and with attempts up to
  `MaxAttempts`; each edition of the source is a run space (`IsRunSpace`); without a source there
  is one; invocations under one key have the same configuration.
- `NodeRunAssumption`: definitions, inputs and collections are well-formed (`IsDefinition`,
  `IsInput`, `IsContext`).
- `RegistryAssumption`: modules offer names, hooks and profiles list modules; a sorted
  list has the elements of its set.

Model-checked only:

- Liveness (`Settles`, `StopsWhenAsked`, `Delivered`): it rests on fairness and is out of the prover's reach.

Every invariant and every safety property of a passing run is proved.

## Not modelled

- Distributed transports and executors: the base classes admit them, the repository has none.
- Wall-clock time: a timeout is the choice to go on. In the trace, time is the order of writing.
- The contents of data, the text of records, hashes, the summaries, the delta and the post-checks of a
  SER. Parsing: a file is the rows that it holds.
- Processor classes that override `get_required_keys`, model-fitting processors and those with
  `with_context_key`, a source with a parameter named `context`, parameters named `self` or `data`,
  string forms of processors other than names, slices and `module:Class`.
- Payload sinks and result-collector probes: from a configuration, their nodes cannot work.
- Data of another type than user code declares to return: `nodes.py` does not check it, and the
  runtime gate of the next node would refuse what the declared types admit.
- In the registry, marking a module and entering it in the history are one step (`Mark`,
  `processor_registry.py:97-98`), and a profile is captured while no thread is inside an operation
  (`Replay`): `enqueue` may capture one while workers register modules, and it may then miss a
  module that is marked but not yet in the history, or hold one whose import has not ended.
- The import of an extension's own module: an extension is one of six forms.
- A `clear()` of the registry while other threads use it: only tests call it.
- The components listed as `not_modelled` in `PROJECT.json`, each with its reason: tables that are filled once, a linter
  without state, output, loading and hashing.

## Checking

    tlc -workers 2 -config JobQueue_safe.cfg MCJobQueue
    tlapm JobQueueProofs.tla

The largest runs (`launch_trace`, `registry`) take two to three minutes. A module of proofs takes from
one to some ten minutes.
