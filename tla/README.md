# sai3-bench in TLA+

sai3-bench is a storage benchmark in Rust: a single-node command line tool and a
distributed mode in which one controller drives a benchmark on many agents over
gRPC. This directory holds TLA+ models of the parts whose correctness depends on
order, failure and concurrency, the TLC configurations that check them on small
instances, and TLAPS proofs that hold for every size.

Paths below are relative to the repository's root; `agent.rs` and `controller.rs`
are in `src/bin/`.

- [1. The system](#1-the-system)
- [2. Modules and their correspondence to the code](#2-modules-and-their-correspondence-to-the-code)
- [3. Runs](#3-runs)
- [4. Disagreements between the code and its text](#4-disagreements-between-the-code-and-its-text)
- [5. Bounds](#5-bounds)
- [6. Fairness](#6-fairness)
- [7. Proofs](#7-proofs)
- [8. What is not modelled](#8-what-is-not-modelled)
- [9. Plan](#9-plan)
- [10. How to run](#10-how-to-run)

## 1. The system

### 1.1 Inventory

| component | code | state | operations | what makes it correct |
|---|---|---|---|---|
| Agent: control reader | `agent.rs` `execute_workload` (2609 ff.) | `AgentState`: the `WorkloadState` machine, tracker, error, abort and barrier-release broadcasts, all shared by every task and every job | PING, START, ABORT, PREFLIGHT, RELEASE_BARRIER, GOODBYE, RESET, SYNC_STATE; clean-up when the stream ends | an agent is never left busy by a controller that went away; START is accepted only when idle |
| Agent: workflow | `agent.rs` `execute_stages_workflow` | stage index, `barrier_sequence`, a subscription to releases | run the stages in order, report each barrier, wait, retry, give up | no stage starts before the barrier in front of it is met |
| Agent: stats writer | `agent.rs` `execute_workload` (1973 ff.) | position in READY / resend / statistics loop, `wait_count` | READY, RUNNING, COMPLETED, ERROR | the result of the workflow always reaches the controller, once |
| Agent: RPCs | `abort_workload`, `query_agent_status`, ... | delayed reset tasks | abort, force Idle after 5 s and 15 s | a reset never hits another job |
| Controller: forwarders | `controller.rs` (3255-3560) | ready flag, broadcast cursor | START, wait for READY, relay both ways, report a lost stream | every message and every release is relayed in order |
| Controller: startup and main loop | `run_distributed_workload` | agent trackers, `LiveStatsAggregator`, stage summaries, deadline | startup deadline, status handling, disconnect and recovery after 600 s, phase switch, completion, abort | it always ends; success means that everyone finished |
| Controller: `BarrierManager` | `controller.rs` (2178-2704) | `barrier_agents[k]`, heartbeats, failed agents | `agent_at_barrier`, `check_barrier_ready`, `clear_barrier`; `wait_for_barrier` with queries and back-off | a barrier is released once, only when its policy is met |
| Metadata cache | `src/metadata_cache.rs`, `metadata_prefetch.rs` | per-endpoint key-value store, its local files, an archive of them in object storage | record created objects, coverage, flush, periodic and final checkpoint, restore | no copy of the cache claims an object that was not created, whatever crashes or arrives late |
| Prepare | `src/prepare/*` | tasks, error counters, deferred failures, created set | survey (cache or LIST), create in parallel or pool by pool, retry, threshold | every wanted object exists or is counted as failed; what is reported as ready is there; it always returns |
| Cleanup | `src/cleanup.rs`, `src/prepare/cleanup.rs` | the objects prepare reported; each agent's share of them | delete | shares are disjoint and cover everything |
| Workload engine | `src/workload.rs`, `rate_controller.rs`, `data_gen_pool.rs` | worker tasks, deadline, token pacing | choose operation, execute, record | the rate is bounded; every operation is counted once |
| Op-log | `oplog_session.rs`, `oplog_merge.rs` | the process-wide session, heap of the k-way merge | begin, finish, merge | a session belongs to one job; the merge is sorted and complete |
| Replay | `replay*.rs`, `remap.rs` | remap counters, in-flight operations | read ahead, remap, dispatch, wait | dispatch in order; sticky choices are sticky |
| Directory tree | `directory_tree.rs` | none | index arithmetic between files, directories and agents | the arithmetic agrees with the tree it describes |
| Live statistics, performance log | `live_stats.rs`, `perf_log.rs` | counters, previous sample | record, snapshot, delta, reset per stage | deltas add up to the totals across resets |
| Pre-flight and validation | `src/preflight/*`, `validation.rs` | none | checks of the environment | - |
| Configuration | `config.rs`, `config_converter.rs`, `constants.rs` | none | parse, default, convert, order stages | - |
| Deployment, reports, local tool | `ssh_*.rs`, `bin/analyze.rs`, `main.rs`, ... | none shared | external commands and files | - |

### 1.2 How the parts interact

A distributed run has two task families.

*On every agent*, one bidirectional gRPC stream is served by a **control reader**
and a **stats writer**; START spawns the **workflow**. They communicate only
through `AgentState`: the writer polls the state, the reader changes it, the
workflow changes it and listens to two broadcasts (abort, barrier release).

*On the controller*, one **forwarder** per agent moves statistics from the stream
into one channel and control messages from one broadcast of 64 slots to the
stream. `run_distributed_workload` reads the channel, first in a **startup loop**
that counts who is ready, then in a **main loop** that tracks barriers, collects
stage summaries and decides when the run is over.

*In an execute stage* `workload::run` spawns the **workers**, which share the rate
controller, the semaphores, the error tracker, the object lists and the live
statistics; the caller joins them in order, and a **performance-log thread** samples
the statistics. Replay has one **reader** instead, which spawns a task per row.

*Within a prepare stage* of any process, one **main task** surveys the pools,
spawns a **task per object** and collects their results over a bounded
concurrency; an error tracker shared by all tasks decides whether to abort, a
**progress monitor** waits for the attempts, and a **checkpoint task** archives
the metadata cache on a timer. The cache has up to four copies at a time: the
open store, its files, the archive on the storage under test, and archives whose
write is under way. The next run begins by restoring the archive.

A stage barrier takes five hops: workflow -> stream -> forwarder -> main loop
(`agent_at_barrier`, `check_barrier_ready`) -> broadcast -> forwarder -> stream ->
reader -> release broadcast -> workflow. Reports are repeated on timeouts and by
READY messages, releases are not repeated.

### 1.3 What is hard here

* three tasks of one agent that poll and change one state: a transition can fall
  between two polls, a message can overtake a subscription;
* two loops of the controller that treat the same message differently;
* a retry counter on one side compared with an index on the other;
* streams, agents and operators that go away between any two of these steps;
* a bounded broadcast with a burst as long as the number of agents;
* completion decided from the agents heard of rather than from those configured;
* the controller has no deadline of its own once it is in the main loop;
* four copies of one cache of different age, and a crash or a late write between
  any two steps that bring them up to date;
* decisions of prepare from counts where the objects themselves matter: files
  listed, entries in the cache, attempts made;
* one `AgentState`, one abort broadcast and one op-log session for all the jobs of
  an agent, and resets that were scheduled for one job and fire during the next;
* trackers, aggregator, heartbeats and the agents' own reports: four views of one
  agent, brought up to date by different messages;
* workers that share a rate counter, semaphores and an error threshold, and a
  caller that joins them one after the other against a drain deadline;
* an in-flight bound, a lag mode and a flap limit in one replay loop that must
  not leave a task behind on any of its exits;
* arithmetic that is written twice: tree and dry run, merge of processes and of
  runtimes, three reports from the same histograms.

`PROJECT.json` lists these hazards line by line with the properties that cover
them.

## 2. Modules and their correspondence to the code

| module | role |
|---|---|
| `BarrierPolicy` | `BarrierType` and the rule of `check_barrier_ready` as pure operators |
| `StageSync` | abstract specification: stages in order, each start behind a met barrier |
| `StageBarrier` | the protocol: agents, forwarders and controller of one run |
| `MCStageBarrier` | agents as model values, symmetry sets, named values of `Adversity` |
| `StageBarrierProofs` | the inductive invariant of the barrier: types, synchronisation, refinement; releases, summaries and success |
| `Prepare` | repeated runs of `prepare_objects` with the metadata cache on one storage |
| `MCPrepare` | the configurations that are checked |
| `PrepareProofs` | type correctness, soundness of the cache, accounting of the objects |
| `AgentLifecycle` | one agent through several jobs, the abort RPC, the unary RPC, the op-log session |
| `MCLifecycle` | which conditions of the environment are checked |
| `AgentLifecycleProofs` | what the tasks of one job owe each other, and what jobs do to one another |
| `ControllerRun` | the controller from deployment to `STATUS.txt`: trackers, aggregator, both barriers |
| `MCController` | the plans of stages that are checked |
| `ControllerRunProofs` | trackers, verdict, stage barriers and the phase barrier |
| `Engine` | `workload::run` and the performance log of a standalone run |
| `MCEngine` | six jobs |
| `EngineProofs` | result, counts, pools and rate of a workload |
| `Replay` | `replay_workload_streaming` and the remap rules |
| `MCReplay` | nine op-logs |
| `ReplayProofs` | exits, bound, accounting and sticky keys of a replay |
| `MetadataCache` | the caches of several endpoints: restore, record, archive, crash at every point |
| `MCMetadataCache` | kinds of storage that are checked |
| `MetadataCacheProofs` | coverage and checkpoints |
| `DirectoryTree` | the tree, its manifest, the path selectors and its creation, as operators |
| `Merging` | op-log merge and sort, summaries of child processes and of runtimes |
| `Reports` | the controller's TSV reports and live window; extends `Merging` |
| `Stages` | validation and order of stages, the converter, agents' URIs |
| `Preflight` | probes of directories and buckets, what an agent probes, the dry run's checks |
| `MCAlgorithms` | the inputs of the five modules above, and their properties as invariants |
| `AlgorithmsProofs` | those of the properties that need no induction, for every input |

`StageBarrier`, `AgentLifecycle` and `ControllerRun` look at the same distributed
run from three sides. `StageBarrier` composes all tasks of agents and controller
for one job and one stage barrier after the other. `AgentLifecycle` keeps the
tasks of one agent and lets jobs follow one another; the controllers are what they
may do to it. `ControllerRun` keeps the whole of `run_distributed_workload`; an agent
is what can be noticed of it. In the same way `Prepare` has one endpoint and all of
`prepare_objects`, `MetadataCache` several endpoints and all of the cache.

### StageBarrier

| variable | code |
|---|---|
| `wf`, `stage`, `finished`, `timeouts` | `execute_stages_workflow`: program counter, loop index, stages done, `barrier_sequence` |
| `state` | `WorkloadState`; `AtStage` with `ready_for_next` false and true are `Exec` and `AtBarrier`; `Left` stands for Aborting, Failed and Idle after a job, none of which allows a stage transition |
| `barrier_rx` | the workflow's receiver of barrier releases |
| `writer`, `polls` | the stats writer: before READY, resending READY, statistics loop, returned; `wait_count` |
| `up[a]` | gRPC stream, forwarder and `tx_stats` channel from agent to controller, one FIFO |
| `fwd`, `bcast`, `cursor` | the forwarder task, the control broadcast with all it ever carried, the receiver's position in it |
| `ctl`, `responded` | the loop `run_distributed_workload` is in or how it ended (`finished`: all completed; `closed`: channel closed; `aborted`), the trackers that are Ready |
| `ready_agents`, `released` | `BarrierState` |
| `agg`, `comp` | agents in the `LiveStatsAggregator`, and those marked completed |
| `summaries` | collected `stage_summary` messages per stage |

| actions | code |
|---|---|
| `Start`, `StartRejected` | START in the control reader, including its early returns |
| `StartStage`, `FinishStage`, `FailStage`, `EnterBarrier`, `RecvRelease`, `BarrierTimeout`, `CompleteStages` | the steps of `execute_stages_workflow` between two awaits |
| `WriterPoll`, `WriterResend`, `WriterDone` | the stats writer's three loops |
| `ForwardControl`, `ForwarderGivesUp`, `StreamLost`, `AgentCrash`, `Disconnect` | the forwarder, the end of a stream on both sides, GOODBYE and the abort RPC |
| `CtlStartup`, `StartupTimeout`, `ShutdownSignal` | the startup loop |
| `CtlMain`, `CtlRunning`, `CtlClosed` | the main loop, including `BarrierManager` and the aggregator |

*Abstractions.* Time is left out: a timer is an action. What has to be slow or
fast for a timer to matter is a named condition, and the constant `Adversity` is
the set of conditions the environment may produce: an agent's barrier timeout, a
long wait, a slow START, a first stage beyond the deadlines, a stage shorter than
the writer's poll, READY overtaking a subscription, a prepare stage in the
middle, agent ids that differ from addresses, failing stages, refused
configurations, broken streams, crashes, signals. RUNNING statistics are not
queued; `CtlRunning` is the main loop's handling of one whenever the writer may
have sent it. One broken stream loses any suffix of what was under way. What a
stage does (storage operations) is reduced to whether it ends or fails.

### Prepare

| variable | code |
|---|---|
| `config` | what of `PrepareConfig` decides the course: strategy, layout (flat names, `key_prefix_shards`, directory tree), pools, concurrency, `force_overwrite`, `skip_verification`, cleanup, cache; the same in every run |
| `pc` | the position in `prepare_objects`; `drain` is the wait for the progress monitor after an abort |
| `storage`, `archive` | the objects, and the checkpoint archive below the same base URI |
| `writes` | periodic archives handed to a blocking write |
| `disk`, `kv` | the cache directory (what is surely in its files) and the open cache, both as the set of indices held as Created |
| `surveyed` | the pool loop |
| `todo`, `running`, `arrived`, `total` | tasks not spawned, spawned, finished but not collected; `total_to_create` |
| `failed`, `consecutive`, `aborting` | `PrepareErrorTracker` and `error_result` |
| `retrying`, `permanent` | `retry_failed_objects` |
| `prepared` | `all_prepared`, the result of `prepare_objects` |

| actions | code |
|---|---|
| `Begin` | `prepare_objects` up to the strategy: `try_restore_from_checkpoint`, `EndpointCache::new` |
| `Survey`, `ListingAborted` | the head of the pool loop in `parallel.rs` and `sequential.rs`; `listing.rs` |
| `SpawnChunk`, `PutOk`, `PutFailed`, `Collect`, `EndCreate`, `Drain` | the chunk loop and its tasks; `record_created` and the error tracker |
| `RetryOk`, `RetryFailed`, `EndRetry` | `retry.rs` |
| `PeriodicArchive`, `PeriodicWritten` | the background checkpoint task |
| `MkdirFailed`, `FinalCheckpoint` | the end of `prepare_objects` |
| `Cleanup`, `Leave`, `Crash` | `cleanup_prepared_objects`, the end of the process or stage, its death |

*Abstractions.* One process, one endpoint, one `ensure_objects` entry. A cache is
the set of the file indices recorded as Created (`record_created` is the only
mark that prepare makes). Which unflushed entries have reached the files is left
open whenever it matters. The retries of one PUT are one outcome; an outcome
"failed" leaves open whether the object was stored. Restoring and opening the
cache is one step here; `MetadataCache` takes it apart. A listing loses objects only as errors below its threshold do.

### AgentLifecycle

| variable | code |
|---|---|
| `state`, `current`, `tracker` | `AgentState`: the `WorkloadState`, the job whose START was accepted last, the live statistics tracker |
| `job[j]` | one `execute_workload` call: its stream, control reader, workflow and stats writer, the broadcasts queued for the workflow, the results queued for the writer, the barriers its controller may release, what was sent |
| `rpc`, `resets` | an `abort_workload` between its look at the state and its transition; the tasks that reset the agent 5 s and 15 s later |
| `session` | `oplog_session::SESSION` |
| `unary` | `run_workload`, the RPC that looks at neither state nor job |
| `off` | jobs taken off the agent (not in the code; for the properties) |
| `synced` | SYNC_STATE has forced the state, and it was not Idle since (not in the code; for the properties) |

The actions are the commands of the control reader (`Start` with its two refusals,
`ReleaseBarrier`, `AbortCommand`, `Reset`, `SyncState`, `Goodbye`), the end of a stream in two steps
(`StreamEnds` looks, `ReaderCleansUp` acts), the steps of the workflow and the writer
between two awaits, the abort RPC in two steps and its timer, the unary RPC and
`Shutdown`. Every change of `state` goes through `CanTransition`, but for the four
forced ones of the code (RESET, both delayed resets, and SYNC_STATE, which sets any stage
and leaves the tasks alone). RESET and SYNC_STATE are accepted on any open stream, before
its START too. The repository's controller sends neither of them, nor ABORT on the stream;
they are commands of the protocol, and the agent is modelled with all of them.

*Abstractions.* A stage either ends or fails. The subscription to releases and the
first report are one step; `StageBarrier` has the gap between them. A controller is a
stream that sends what a controller would send in that position; ABORT comes after START
only, and the stage a SYNC_STATE names is one of the job's.

### ControllerRun

| variable | code |
|---|---|
| `step` | where `run_distributed_workload` is: deployment, connection, validation, startup loop, main loop, `wait_for_barrier`, GOODBYE, results, `STATUS.txt`, or how it left |
| `tracker` | `ControllerAgentState` of each agent |
| `heard`, `completed`, `last_stage` | the aggregator, and the stage of the message handled last |
| `barrier`, `summaries`, `finals` | stage barriers, stage summaries, final summaries |
| `manager` | `BarrierManager`: ready and failed agents, missed heartbeats, agents being queried |
| `files`, `verdict`, `containers` | what is left behind |
| `pos`, `pc`, `passed`, `queue` | the agents, and the messages under way |

`CanTrack` is `ControllerAgentState::can_transition`, `CheckBarrier` the function of
that name, `CanRelease` that of `BarrierPolicy`. `Progress` is the whole handling of a
message in the main loop: heartbeat, barrier, summary, recovery of a Disconnected
agent, change of phase, tracker, aggregator, completion. `cfg.known` are the agents
whose id is their address: the manager is keyed by address, messages carry the id.

*Abstractions.* Stream and forwarder are one FIFO per agent. A missed heartbeat, the
600 s of silence and the deadlines are actions. `Fault` counts what goes wrong.

### Engine

| variable | code |
|---|---|
| `wpc`, `at`, `tally`, `local` | each worker: its position, operation, object and attempt, `WorkerStats`, the operations not yet flushed |
| `permits`, `issued`, `errors` | `op_semaphores`, the rate controller's counter, the error tracker |
| `store`, `lists`, `made` | the storage, the pre-resolved lists, objects PUT by this run |
| `live`, `progress` | live statistics, the progress bar's counter |
| `joined`, `merged`, `result` | the caller's join loop |
| `lpc`, `prev`, `logged` | the performance-log thread |
| `clock`, `started` | time; operations that were let through |

A worker's loop is `Begin` (deadline, choice, pacing), `Acquire` (wait over, permit,
object), one of seven operations or `Fails`, `Retry`, `Exit`; the caller is `Join`,
`JoinFailed`, `DrainTimeout`, `Finish`.

*Abstractions.* An object is its pool and a number; sizes, contents, endpoints and
latencies are left out; of the arrival distributions the deterministic one is modelled,
which is the only one that uses the shared counter.

### Replay

`reader`, `row`, `epoch`, `mode`, `flips`, `drain_from` are the loop of
`replay_workload_streaming` with its back-pressure controller and flapping tracker;
`task`, `due`, `target` the spawned operations, `stats` the `ReplayStats`. The rows are
consumed by `SkipRow`, `RowError`, `FirstRow`, `NextRow` and `FlapExit`; results by
`CollectSuccess` and `CollectFailure`; every exit is an action (`EndOfLog`, `EmptyLog`,
`Complete`, `AbortTasks`). The hash of a key is any function of it.

### MetadataCache

`phase` and `ep` walk through the opening of each endpoint (`Fetch`, `Remove`, `Unpack`,
`Open`), the run and the final checkpoints; `mem` is what the open databases hold,
`dir` the local directories, `archive` the archives on the storage, `writing` the periodic
archives on their way. `Crash` is possible everywhere and leaves what the step under
way could leave: a half removed or half unpacked directory, a torn file. `Query` is
the coverage query of a validation stage. `promised` is what a checkpoint that was
reported holds (not in the code; for `Resumes`). Endpoints on shared storage share one
archive, and one of them is checkpointed. `archive` is what lies where a restore looks,
which is the URI, a slash and the name. A file archive is written there. An upload joins URI
and name with nothing between, so it gets there only if the URI ends in a slash (`Lands`,
`Written`); otherwise it succeeds, is reported, and changes nothing a restore can see.
`Prepare` has one place for its archive: a file system, or a URI that ends in a slash.

### DirectoryTree, Merging, Reports, Stages, Preflight

Code without state of its own is modelled by operators, and each is compared with a
reference: what the tree really contains, one process that executes everything, a
sort, YAML's own reading of the text. An operator returns a set where the code may
fail (empty) or choose at random (several). A tree's directory is the sequence of its
local indices; a histogram is the bag of its latencies; a YAML text is a sequence of
lines of which the kind and indent matter, and YAML takes those of a section that are
indented as its first key is; a URI is a sequence of names and the separators "/" and "://",
since `apply_agent_prefix`, `join_uri_path` and `resolve_uri` are about the separators. What a
file system answers to a probe is a record; a call that may fail in more than one way has an
answer for each (`space`: enough, too little, or the check itself fails).

### Names

Definitions with a comment that begins "A slip", "Variant" or "Mutant" (for example
`TrackBarrierUncleared` or `JoinFailedGoesOn`) are copies of an operation with a
plausible mistake. They are used nowhere in the specification: each is there to
show that a property notices the mistake (`PROJECT.json`, `mutants`).

## 3. Runs

Each configuration is named after its component and its question; the module is the
component's `MC` module (`Algorithms_Inputs.cfg` belongs to `MCAlgorithms`). A benchmark
ends when every task has returned, and jobs, runs and rows are bounded, so deadlock is
not an error (`CHECK_DEADLOCK FALSE`); that nothing ends too early or hangs is what the
liveness properties state.

| run | instance | properties | what it shows |
|---|---|---|---|
| `Timing` | 2 agents, 2 stages, all timing conditions | `Synchronised`, `ReleasedOnce`, `SummariesExact` | no race of the writer, the workflow and the timers lets an agent pass a barrier early, releases a barrier twice or counts a summary twice |
| `Failures` | 2 agents, 2 stages, every failure, barrier timeouts, a broadcast of two slots | `TypeOK`, `FinishedMeansAllDone`, `Refinement` | under crashes, lost streams, refusals, signals and lagging forwarders the protocol still implements `StageSync`, and success means that everyone finished |
| `FairWeather` | 2 agents, 3 stages, a prepare stage in the middle | `Finishes` | when nothing goes wrong the run succeeds, although the aggregator is reset in between |
| `BrokenStreams` | 2 agents, 2 stages; failing stages, refusals, signals, lost streams, crashes, slow START; 96 947 states | `ControllerEnds`, `AgentsFreed` | the startup loop is always left and a main loop with all its forwarders always ends; a failure seen by the statistics loop ends the run; agents are freed for good |
| `OneAtATime` | 1 agent, 2 jobs one after the other, 2 stages, an abort RPC, unary RPCs, SYNC_STATE; 534 710 states | `QueryTruthful`, `LoggedWork`, `CompletedMeansRan`, `StoppedStaysStopped`, `Freed` | aborts, resets, vanished controllers and failures at any point leave an agent that tells the truth, starts nothing for a job that was taken off it, and is free again, unless a controller forces a stage on it |
| `Verdict` | 2 agents, three plans, one fault; 113 747 states | `VerdictTruthful`, `TrackerNotAhead`, `PhaseSynchronised`, `ControllerReturns`, `CleanRunSucceeds` | whatever is lost, stalls, recovers or is forgotten, the controller returns, and says SUCCESS only and always when it should |
| `Workload` | 2 workers, six jobs; 311 602 states | `StatsAgree`, `OkMeansAllDone`, `PoolsSound`, `RateCapped`, `EngineEnds` | interleavings of workers, failures, retries, deadline and drain keep the books consistent, and everybody ends |
| `Streaming` | nine op-logs of up to 5 rows; 36 025 states | `NothingLeftRunning`, `InFlightBounded`, `Accounted`, `StickyKeys`, `ReplayReturns` | every exit of the replay leaves nothing running and accounts for every row |
| `Recovery` | 2 endpoints, 3 objects, three openings, four kinds of storage, two failed reads or writes, any crash; 380 509 states | `CoverageTruthful`, `Resumes` | no crash between two steps of restore, record or checkpoint makes the cache claim an object that is not stored, or lose a checkpoint |
| `Sound` | 3 objects in chunks of 2, two runs, seven configurations, three faults, one late archive; 908 236 states | `TypeOK`, `CacheSound`, `ReadyMeansPresent`, `ReportedArePresent`, `PrepareEnds` | no crash, restore, failed PUT, failed LIST or late checkpoint makes the cache or the report claim an object that is not there, loses one, or makes prepare hang |
| `Inputs` | 96 174 inputs of the pure code | `TreesComplete`, `MergesExact`, `ConfigurationsRun`, `ProbesSound` | the algorithms agree with their references |
| `FewWorkers` | 2 objects, 3 workers | `PrepareEnds`, violated | section 4 |

The properties in words:

* `Synchronised` - an agent is past barrier *k* only if the policy is met by
  agents that really finished stage *k+1*, not by agents that were merely counted.
* `ReleasedOnce` - no agent is sent one barrier's release twice.
* `FinishedMeansAllDone` - `all_completed` is computed from the agents heard of
  since the last reset; still the controller reports success only when all
  configured agents have finished all stages. (Under Majority the claim is not
  made: stragglers may be missing by design.)
* `SummariesExact` - no agent is twice in a stage's file; on success the files of
  every stage but the first hold everybody.
* `Refinement` - `StageSync` with `started <- stage`.
* `Finishes`, `ControllerEnds`, `AgentsFreed` - a fair run ends in success (and
  `FinishedMeansAllDone` holds in it); neither loop of the controller hangs, and a failure
  the statistics loop sees ends the run; afterwards every agent is taken off for good.
* `StoppedStaysStopped` - nothing stops the workflow of a job that was taken off the
  agent, but every transition it tries later is refused, so it starts no stage.
* `QueryTruthful` - what `query_agent_status` answers agrees with where the workflow is.
  For this property, `StoppedStaysStopped` and `Freed` the time from a SYNC_STATE until the
  agent is Idle again is excepted, because all three are false in it (section 4); what was
  forced leaves no trace afterwards, which is the part that is checked.
* `LoggedWork` - work that asked for an op-log is done while the one session of the
  process is open on the file it asked for.
* `CompletedMeansRan` - COMPLETED is sent for a job only after its own workflow went
  through every stage, and never together with ERROR.
* `Freed` - a stream that has ended does not leave the agent busy with its job for good.
* `VerdictTruthful` - SUCCESS means that every agent did every stage and said so;
  `CleanRunSucceeds` - a run without faults in which the controller sees every agent
  execute is a SUCCESS.
* `TrackerNotAhead` - Completed and Cleaning are never claimed of an agent that is not
  there yet, also after a recovery from Disconnected.
* `PhaseSynchronised` - `wait_for_barrier` goes on only when enough agents have really
  finished the prepare stage, whatever heartbeats and queries said.
* `ControllerReturns` - the startup loop ends, and so does a main loop that is entered
  before anything went wrong.
* `StatsAgree` - summary, live statistics and progress counter of a run that returns
  Ok are equal, and the performance log holds no more than was counted.
* `OkMeansAllDone` - Ok only when every worker left by itself, below the error threshold.
* `PoolsSound` - DELETE never takes an object a GET or STAT is about to read; with
  `dynamic_put_pool` what was PUT can be chosen by GET.
* `RateCapped` - never more operations than the target.
* `EngineEnds` - the run returns, and no worker waits for ever for a permit that was lost.
* `NothingLeftRunning`, `InFlightBounded`, `Accounted`, `StickyKeys`, `ReplayReturns` - no
  operation outlives the replay, the in-flight limit holds, the statistics account for
  every row and a strict replay that returns Ok had no error, one key of one rule always
  goes to one target, the replay returns.
* `CoverageTruthful` - where the caches or the query of a validation stage count as
  many objects as are wanted, all of them are stored. `Resumes` - the entries of a
  checkpoint that was reported, and written where a restore looks, are in every later
  opening, until one cannot read it.
* `CacheSound` - whatever any of the four copies of the cache holds as Created is
  on the storage. Cleanup is excepted: it deletes without telling the cache.
* `ReadyMeansPresent` - when `prepare_objects` returns `Ok`, every object of every
  pool is stored or was reported as a permanent failure: what cache coverage and
  LIST let it skip exists, and no task is lost between chunks, collection and
  retries. (`skip_verification` asks prepare to take this on trust and is excepted.)
* `ReportedArePresent` - everything in `all_prepared`, which cleanup deletes later,
  is stored, also where the report is made up from a count.
* `PrepareEnds` - every run of prepare returns or crashes.
* `TreesComplete` - estimate, generated tree, manifest and file paths agree; parents are
  created first; every selector stays in the tree and exclusive agents stay apart;
  agents that each create their share, on top of what exists, complete the tree.
* `MergesExact` - the op-log merge repeats and invents nothing, and loses nothing and sorts
  where no file but the last ones is missing; a window sort sorts. The counts, bytes, errors,
  histograms and means of processes, the counts, histograms, percentiles and the bytes of GET
  and PUT of runtimes, and the controller's three reports, are those of one worker that did
  everything. The rest is what the code takes from a part of the work: a process
  percentile is that of the smallest sizes if there are several, the runtimes' errors
  and META bytes are those of the first to finish. Concurrency is split without loss; the live
  window shows no work that was not reported.
* `ConfigurationsRun` - stages run as configured and in order; the converter's text has its
  stages where YAML reads them, and is not converted twice, exactly if the file indents by
  two; no interruption loses the original; an agent's prefix moves data and relative paths
  together, and leaves an absolute path behind.
* `ProbesSound` - a directory that passes was written in and emptied again, has not refused
  to be read nor reported too little space, and without a warning has shown both; nothing is
  left behind without a warning; an agent probes what it uses; what the dry run accepts can
  be prepared.

Each part of these four is an operator of its own beside the code it is about
(`TreeAgreesOn`, `OplogMergedOn`, ...). `LifecycleTypeOK`, `ControllerTypeOK`, `EngineTypeOK`,
`ReplayTypeOK` and `CacheTypeOK` are the type invariants of their modules; they hold in the
runs above when added to them, and are where proofs about these modules will begin.

`Sound` holds for the configurations in `MCPrepare!Sound`. Three kinds are left out
because `ReadyMeansPresent` fails for them, and section 4 says why: two pools in
sequential mode with the cache, sharded names with two pools, and a sequential
prepare of a tree, of shards or after a cleanup.

## 4. Disagreements between the code and its text

One run is expected to end in a violation. `FewWorkers` checks what the
comments of `retry.rs` (85, 88) say: what fails is retried, and then fails permanently.
But `concurrency / 4` is 0 permits for one to three workers, and the retry phase waits
for ever. The quotation with its place is under `findings` in `PROJECT.json`.

The modules have other behaviours that contradict a comment or a document. They can
be seen by adding the configuration or condition in question to an instance.

| where | claim | what happens |
|---|---|---|
| `agent.rs` 4365 | the retry count is local to the agent | after a timeout at barrier 0 every release is refused: its index, 0, is below the retry count |
| `controller.rs` 4112, `config.rs` 2240 | stragglers are excluded from the next phase | the straggler is never released, gives up, and its ERROR aborts everybody |
| `agent.rs` 2074, `docs/CHANGELOG.md` 1378 | one-stage jobs are supported | the writer never sees a stage execute again and never reports COMPLETED |
| `controller.rs` 3806, `docs/USAGE.md` 850 | both start execute together | `wait_for_barrier("prepare")` looks agents up by address, finds none of those known by an id, and aborts |
| `agent.rs` 1933, `docs/USAGE.md` 1360 | an agent is busy with one job at a time | the tasks of two streams share state and broadcasts (condition `overlap`, see below) |
| `sequential.rs` 127 | with `covers_all` it is safe to skip LIST | cache keys do not name the pool: the second pool of a sequential prepare counts as covered and is never created |
| `parallel.rs` 204, `docs/USAGE.md` 63 | a restart resumes from the checkpoint | in the parallel strategy a full cache leaves `existing_indices` empty, and everything is created again |
| `prepare/mod.rs` 411 | the background checkpoint is stopped before the final one | aborting the task does not stop a thread that writes a file, which may replace the final archive with an older one |
| `prepare/mod.rs` 225, 471 | endpoints resume from their checkpoint | endpoints on shared storage share one archive, and one of them is saved |
| `rate_controller.rs` 12, 45 | the target rate is divided among the workers | the count is shared and the interval is not: the workers together get the target divided by their number (`InterArrival`) |
| `workload.rs` 2758, `docs/USAGE.md` 716 | GET reads what PUT adds | the list's pattern must be a prefix of the new name; a glob never is |
| `metadata_cache.rs` 672, 694 | the archive is read where it was written | an upload joins URI and name with nothing between (1683, 2088), a restore with a slash (707-711): without a slash at the end of a cloud URI the checkpoint is never found (`Lands`), and the local cache is removed after it all the same |
| `config.rs` 955, 963 | prepare's base is moved to match the target, and paths resolve against the target | a path that is a URI of its own (796-798) does not resolve against the target: the data moves (973-976) and the path does not (`PrefixKeepsPathsOn`) |
| `multiprocess.rs` 142 | merged histograms give accurate percentiles | the percentile is that of the first bucket that is not empty (292-301): with several sizes, that of the smallest (`ProcessesMergedOn`) |
| `multiruntime.rs` 170 | one aggregate summary | errors and META bytes are those of the runtime that finished first (228-232; `RuntimesPooledOn`) |
| `proto/iobench.proto` 344 | SYNC_STATE re-coordinates an agent after a desynchronisation | it changes the state only: the workflow stays where it is, and the state no longer says where (see below) |
| `remap.rs` 5, 40 | round robin over the targets | every operation makes an engine of its own with its counters at 0 (`replay_streaming.rs` 651): always the first target |

`Synchronised`, `CacheSound` and `CoverageTruthful` hold in all these cases: the
disagreements are about progress, records and what prepare skips, not about the
barrier or the cache.

Further observations, met while modelling. They are behaviours of the models
unless marked with a star, and none has a run of its own.

*Distributed runs.*

* A writer that waited 60 polls at the first barrier returns, and COMPLETED is
  never sent (`longWait`, `agent.rs` 2068).
* A writer that polls before START is handled returns, and READY is never sent
  (`slowStart`, `agent.rs` 1980); the startup deadline ends the run.
* A workflow that gives up at the first barrier while its writer still resends READY is
  not noticed: its error is read by the statistics loop only. With barrier time-outs the
  main loop can so wait for ever, for a release that was lost or refused as well; this is why
  no liveness property is checked under `barrierTimeout`, `lateSubscribe` and a broadcast
  shorter than a burst, and safety alone is claimed there.
* A forwarder more than 64 entries behind the broadcast loses its own agent's
  release (`controller.rs` 3475).
* A stage 1 summary that is read by the startup loop is dropped, so that stage has
  no file (`docs/USAGE.md` 825 promises one per stage).
* With barriers disabled the agents still wait for a release, which nobody sends
  (`docs/USAGE.md` 840).

*One agent, several jobs.* (conditions `overlap`, `fastStage`, `raceEnd` of `AgentLifecycle`)

* A workflow of an abandoned job that still waits at a barrier takes the releases of
  the next job, and acts on them as far as the state lets it.
* A START that is refused because the agent is busy leaves a writer that reports the
  other job's barrier as its own READY; when the error of the refusal is handled, the
  state of the running job goes to Failed and Idle. A stream that ends before its
  START cleans up after the job that has the agent.
* The reset 15 s after an abort hits a job that was accepted meanwhile.
* A stream that ends while a release or the result is on its way can leave the
  agent in AtStage or Completed until an abort RPC or a RESET.
* RESET before the spawned workflow has read its stages makes it panic.
* After a SYNC_STATE `query_agent_status` answers with the forced stage. A job that was taken
  off by RESET starts a stage again if a SYNC_STATE names the one before it. A SYNC_STATE
  before START makes the agent refuse the START as busy, and if the stream then ends, nothing
  brings the agent back to Idle but an abort RPC or a RESET. A SYNC_STATE to a stage that
  executes is acknowledged with the code of READY (`agent.rs` 3278). (condition `sync`)
* (*) `run_get` and `run_put` with no jobs or a concurrency of 0 wait for a permit that
  does not exist.

*Controller.*

* A fault after READY during startup: the trackers refuse the forwarder's ERROR, and
  with everybody "ready" the main loop waits for an agent that is gone
  (`ControllerReturns` is about main loops entered before a fault).
* A Disconnected agent whose stream then breaks becomes Completed, because the
  forwarder's message has the completed flag set (`controller.rs` 3518): the
  `STATUS.txt` of a run that bails out can say SUCCESS.
* A FAILURE verdict still returns `Ok(())`. With ids of the form host:port
  `check_test_status` counts nobody, and every run is a FAILURE. With both kinds of ids in
  one run it counts some, and SUCCESS is not sure of the others: see `VerdictsTrue` in
  section 7.
* An execute stage too short to be seen by its tracker, followed by a cleanup, makes a
  clean run a FAILURE.
* `manager.ready` is never cleared between phases. Containers deployed by ssh are left
  running on every error but a signal in the main loop.

*Prepare.*

* When a chunk before the last one reaches an error threshold, the progress
  monitor waits for attempts that are never made and prepare hangs
  (`parallel.rs` 954; `Drain` with `todo` not empty). In `Sound` a
  threshold of 3 cannot be reached within a first chunk of 2.
* The checkpoint archive lies below the base URI and is counted as an object
  (`AlienFiles`): a sequential prepare of a tree or of shards may take one missing
  object for present.
* A cleanup leaves the archive: a later sequential prepare takes the deleted
  objects for created.
* A restore always replaces the local files, also when they are newer than the
  archive (`metadata_cache.rs` 537; `docs/CHANGELOG.md` 1034 says otherwise).
* A periodic write that outlives its task may overwrite the final checkpoint with
  an older one (`prepare/mod.rs` 411). This costs work, not `CacheSound`.
* The flat LIST pattern ends in "/" and finds nothing; a sharded LIST does not
  distinguish pools; objects that succeed in a retry are not recorded in the
  cache; after a partial resume the objects that existed are missing from
  `all_prepared`; in a tree two pools write the same URIs, and cleanup deletes all
  that is below the base URI.
* (*) A sequential prepare applies the agents' shares also to isolated storage,
  and with several endpoints sharing one checkpoint one of them is saved.

*Metadata cache.*

* A download that fails is taken for a missing archive: prepare goes on with an empty
  cache, and its final checkpoint replaces the good one.
* (*) A URI of a scheme other than file, direct, s3, az and gs cannot be checkpointed
  (`metadata_cache.rs` 1702).
* (*) A single-agent prepare writes one archive name, the validation stage asks for
  another; it compares the count of one endpoint with that of the whole; the first
  component of a path is taken for the bucket.

*Engine.*

* In tree mode DELETE and GET share the files, though separate pools are announced.
* A worker that gives up does not stop the others: they are joined in order, work on
  after the run has returned, and of those stuck at the end of the drain only the one
  waited for is aborted (`workload.rs` 3247).
* Waits for pacing or permits may end after the deadline and still issue the operation;
  a low rate can outlast the drain window, and the run fails.
* The performance log loses the operations after its last sample; its thread is not
  stopped when the run fails.
* (*) A concurrency limit of 0 makes a semaphore nobody can pass; path selectors of the
  engine always belong to agent 0.

*Replay.*

* The drain timeout of a flap exit has no effect: everything is awaited afterwards.
* The row at which the replay flaps out is counted and never executed.
* With `max_concurrent` 1 two operations are in flight; two operations on one key may
  run in the other order.
* (*) A limit of 0 spins, a speed of 0 panics.

*Pure code.*

* The op-log merge asks for the next entry by position among the files that exist, with a
  worker's number (`oplog_merge.rs` 150): after a missing file that is not the last, entries
  are lost, and the first file behind it gives one line at most; an unreadable line silently
  ends its stream.
* The runtimes' merge fails for latencies beyond 60 s. (*) The processes' percentile over
  all operations is that of GET, and their error rates are averaged.
* `results.tsv` refuses a bad histogram, the prepare report drops the buckets after it.
* The converter truncates durations below a second, writes a second `stages` key beside
  an empty one, and leaves its temporary file when parsing fails (`config_converter.rs` 240),
  as it does whenever the keys of `distributed` are not indented by two: its own line always
  is (434). Without validation such a text replaces the file.
* A target without a trailing slash, or a prefix template without one, gives paths
  with a missing or a double separator.
* A directory probe passes, with a warning, although the check of the space itself fails
  (`filesystem.rs` 172-179) or a read fails otherwise than by a refusal. It passes without a
  warning and without having read if there is no file, or having made a directory if an
  earlier probe left one (549-554).
* The directory probe goes on to write after the protected-path error; when any agent
  has a directory, object storage is not probed; a PUT that times out leaves its probe.
* The sequential strategy prefers `base_uri`, the parallel one the first endpoint.
* (*) The distributed checks are made by the dry run only.

## 5. Bounds

* *Agents* (`StageBarrier`): 2. A barrier race needs an agent that is early and one
  that is late.
* *Stages*: 2, so that there is a barrier with a stage behind it and a last one;
  3 where a prepare stage precedes an execute stage that is not the first.
* `MaxBarrierRetries` 0 or 1 instead of 5, `MaxWaitPolls` 2 instead of 60: one
  repetition is enough for a duplicate, and the limit is reached.
* `MaxInFlight` 1 or 2: READY is not sent again while as many messages are on the
  way. More copies of READY are handled like the first.
* `BroadcastCap` 64, as in the code; 2 in `Failures`, so that a forwarder can
  lag and skip entries. One release burst is a single step of the model, which
  makes no difference while a burst fits the broadcast.
* Timing conditions and failures are checked in different runs (`slowStart` and
  `barrierTimeout` in both); together they exceed a few minutes. The proofs of `Synchronised` and `Refinement` cover all of them at once.
* `OneAtATime`: `NumJobs` 2 (a second job meets all that the first can leave behind),
  `MaxRetries` 1, `MaxAborts` 1, one op-log. The conditions `vanish`, `stageFail`,
  `slowStart` and `sync` are on. `overlap`, `fastStage` and `raceEnd` are off: with them the agent
  really is left stranded as section 4 describes, so the run is about jobs that follow
  one another and about ends that do not race with a result. How often SYNC_STATE is
  sent and the unary RPC is called is not bounded.
* `Verdict`: 2 agents, `MissedThreshold` 1, `MaxQueue` 1 message of an agent under way,
  one fault, which is enough for each way out and for a stall with recovery.
* `Workload`: `Duration` 2 and `Drain` 1 units, `FlushInterval` 2, `MaxOps` 2 counted
  operations per worker: operations before and after the deadline, a full and a
  partial batch, one or two errors below and at the threshold.
* `Streaming`: 5 rows, `Window` 4, `MaxTime` 6: the replay falls behind, recovers and
  flaps within and beyond the window.
* `Recovery`: 2 endpoints with two and one of 3 objects, `MaxRuns` 3 (checkpoint, a run
  that crashes, a run that looks), `MaxFaults` 2; a file system, own and shared buckets, and
  a bucket whose URI has no slash at its end. Periodic archives of a file system are
  left out, since they may replace the final one (section 4).
* `Inputs`: trees up to width and depth 3, up to 3 agents, 3 op-log files of 2 lines,
  any of them missing, 4 lines to sort, 2 workers with up to 2 operations in 2 buckets in
  either order of finishing, 3 stages, texts of 4 lines indented by 0, 2 or 4, relative and
  absolute paths, 2 agents with up to 2 endpoints. Each code path of the operators, and each
  boundary (empty, equal keys, full window), is among them.
* *Prepare* (`Sound`): `Count` 3 with `TaskChunkSize` 2 gives a full and a partial
  chunk, and lets one, some or all objects fail; `MaxErrors` and `MaxConsecutive`
  are 3, so that `MaxFaults` 3 reaches a threshold and one or two failures go to
  the retry phase, on either side of the 80 % rule. `MaxRuns` 2: a second run
  meets everything a first can leave behind. `MaxWrites` 1: one archive late.

## 6. Fairness

`StageBarrier!FairSpec` asks for weak fairness of each task: workflow, writer, forwarder,
startup and main loop, and of the timers that bound a wait. The justification is
the tokio runtime (a task that can run is polled), timers that fire, and stages
that either end or fail. Nothing forces a fault: `FailStage`, `StartRejected`,
`StreamLost`, `AgentCrash`, `ShutdownSignal` and `CtlRunning` have no fairness,
and `BarrierTimeout` is part of the workflow's only when the condition is on.

`AgentLifecycle`: weak fairness of reader, workflow and writer of each job, of the
second half of an abort RPC and of the delayed resets, while the server runs. Nothing is
asked of controllers: no command, no release, no abort is ever sure to come.

`ControllerRun`: weak fairness of the controller's steps, of the deadline in
`wait_for_barrier` and of the agents' steps; strong fairness of the handling of each
agent's messages in the main loop, because all of them arrive through one channel that
serves its senders in order, while the loop may be inside `wait_for_barrier` in between.
Faults, stalls and signals are not forced.

`Engine`: weak fairness of the clock, the caller and each worker. An operation is sure
to end only where the code gives it a timeout, which is all but mkdir and rmdir; hence
`EngineEnds` says that all workers end only of jobs without those, and that the run
returns of all.

`Replay`: weak fairness of the reader, the clock, the collection of results and each
task. That an operation ends in the end is asked of the storage.

`Prepare` asks for weak fairness of `Progress`, the disjunction of all steps of a
running prepare: some task that can go on does, and every storage operation
returns, with a result or an error. This is weaker than fairness of each task and
enough because every step of `Progress` makes the remaining work smaller. Crashes,
aborted listings, checkpoint timers and the start of another run are not forced.

`MetadataCache` states safety only.

## 7. Proofs

Eight modules hold proofs, each about the modules it extends, and none about an instance:
the constants are arbitrary but for the named assumption of the module. Every inductive
invariant was an invariant of a TLC run before it was proved. Each proof has one lemma or step for
each action; where many actions leave a conjunct alone, one lemma says which variables they
can touch.

| module | theorems |
|---|---|
| `StageBarrierProofs` | `TypeCorrect`, `BarrierSafety`, `Implements`, `ReleasesSentOnce`, `SuccessMeansAllDone`, `SummariesCounted` |
| `PrepareProofs` | `TypeCorrect`, `CacheSafety`, `NothingLost`, `ReportsAreTrue` |
| `AgentLifecycleProofs` | `CompletedJobsRan`, `WorkIsLogged`, `QueriesAnswerTruly`, `StoppedJobsStayStopped` |
| `ControllerRunProofs` | `TrackersBehind`, `CountedAgentsDone`, `VerdictsTrue`, `ReleasesMeetPolicy`, `PhasesSynchronised` |
| `EngineProofs` | `OkWaitsForAll`, `CountsAgree`, `PoolsStayApart`, `RateIsKept` |
| `ReplayProofs` | `LeavesNothingRunning`, `KeepsItsBound`, `AccountsForEveryRow`, `StickyKeysStay` |
| `MetadataCacheProofs` | `EntriesStayWithTheirOwner`, `CountsOnlyWhatIsStored`, `CheckpointsAreKept` |
| `AlgorithmsProofs` | `TreesCompleted`, `SharesAreExact`, `StagesInserted`, `OriginalsKept`, `PrefixesKeepPaths`, `DirectoriesProbed`, `PrepareIsLocated` |

### The barrier

`StageBarrierProofs` proves, for every finite non-empty set of agents, every
number of stages, policy, retry limit, capacity and `Adversity`
(`ConstantsAssumption` is all that is assumed):

* `TypeCorrect`: `Spec => []TypeOK`
* `BarrierSafety`: `Spec => []Synchronised`
* `Implements`: `Spec => Refinement`

*Argument.* `Synchronised` is not inductive: whether an agent may pass depends on
a release that depends on a set that depends on messages under way. `IInv` states
the truth of each link: the counters follow the program counter (`WorkflowInv`);
a writer past its first poll belongs to an agent that finished stage 1
(`WriterInv`), which makes the READY it sends, a report of barrier 0, true;
reports under way are true (`ReportsTrue`); tracked agents have finished
(`TrackedTrue`); released barriers meet their policy (`ReleasedMet`), for good,
since finishers only grow and `CanRelease` is monotonic as long as nobody is
counted twice (`CanReleaseGrows`); releases under way are of released barriers
(`ReleasesTrue`); whoever is past a barrier had it released (`PassedReleased`).
Each link has its own step lemma. Two ownership lemmas (`WorkflowOwner`,
`BarrierOwner`) say which actions can disturb what. `Implements` follows from
`IInv`: a `StartStage` of the protocol is one of `StageSync` because of
`BarrierMet`.

### Releases, summaries and success

`StageBarrierProofs` also proves, from the same assumption and for every `Adversity`:

* `ReleasesSentOnce`: `Spec => []ReleasedOnce`
* `SuccessMeansAllDone`: `Spec => []FinishedMeansAllDone`
* `SummariesCounted`: `Spec => []SummariesExact`

*Argument.* That an agent is counted at a barrier does not say that its summary was
collected: the summary comes with the first report only, and the startup loop drops what
it does not look for. `RInv` follows the queue from an agent to the controller. At most
one summary of a barrier is under way or collected (`Once`), and none of a barrier the
workflow has not reported (`InTime`). Reports of later barriers exist only after a release,
hence after startup (`Later`). No report of a later barrier is ahead of its
summary, and an agent that waits there has its summary under way or collected, since a
broken stream loses a suffix and nothing in between (`SummaryFirst`). Unless a majority is
enough, a released barrier had everyone (`Everyone`), and COMPLETED comes from behind the
last barrier (`Endings`). So success means that the last barrier was released, which
everyone reported after finishing the last stage: this is why comparing completed agents
with those heard of since the last reset is enough.

### Prepare

`PrepareProofs` proves, for every number of objects, set of configurations, chunk
size, threshold, number of runs, faults and late writes (`PrepareAssumption`):

* `TypeCorrect`: `Spec => []TypeOK`
* `CacheSafety`: `Spec => []CacheSound`
* `NothingLost`: `Spec => [](Solid => ReadyMeansPresent /\ ReportedArePresent)`
* `ReportsAreTrue`: `Spec => [](Solid => ReportedArePresent)`, for a reader of that property

`Solid` are the configurations in which a prepare can know what it skips. With
`force_overwrite` it skips nothing. Else it must verify, and a LIST must tell the pools
apart, which it does not in shards; then a parallel run is sound, and a sequential one is
if it has no cache, or has one pool with flat names and no cleanup. `Solid` is exact: with
two objects per pool TLC finds both properties true in every `Solid` configuration and one
of them violated in each of the 17 others that verify (section 4 shows the main ones).

*Argument.* `TypeOK` needs `Shape`: a pool is left to survey while the run surveys,
and an open cache has a directory. `CacheSound` is not inductive: what is
collected into the cache is a PUT that succeeded some steps ago. `SoundInv` adds
that what has arrived is stored; `StorageGrows` (only cleanup deletes) and
`NotInvented` (what a copy of the cache holds after a step, some copy held before,
or it was just collected) do the rest.
`NothingLost` needs `TasksInv`: in a working run every object of every
surveyed pool is in `todo`, `running`, `arrived`, `failed` and still to retry,
`permanent`, or stored (`AccountedFor`), and what is reported is stored. `SurveyAccounts` is its
heart: whatever a LIST loses, what it does return is stored. That cleanup comes
only after `done` and a new run surveys again is why earlier runs do not matter.
A sequential survey decides by numbers, not by indices. That as many files as
objects mean all objects is a fact about cardinalities: the listed files are those of
one pool and each has an index of its own. It needs that no archive lies among them, hence
`Cacheless` (a run without a cache leaves none behind); with a cache, flat names and one
pool the archive does not match the pattern, and a cache that covers everything is right because of
`SoundInv`, which is why cleanup must be off.

The proof found a fault of the model: two guards of the `CASE` in `Existing` overlapped, so
that its value was an arbitrary choice between their branches. They are exclusive now.

### One agent, several jobs

`AgentLifecycleProofs` proves, for any number of jobs, stages, retries and aborts:

* `CompletedJobsRan`: `LifecycleSpec => []CompletedMeansRan`
* `WorkIsLogged`: `LifecycleSpec => []LoggedWork`
* `QueriesAnswerTruly`: `LifecycleSpec => []QueryTruthful`, if jobs do not overlap
* `StoppedJobsStayStopped`: `LifecycleSpec => StoppedStaysStopped`, if jobs do not overlap

SYNC_STATE is among the steps; the last two properties except the time from one of them until
the agent is Idle again.

*Argument.* The first two hold for every `Adversity`. `LifeInv` states what a job's
reader, workflow and writer have told one another (`Results`) and that, from START to the
end of the work, the session is open on the job's file (`Logging`): a session that is open
refuses every other file, and only the shutdown closes it.
The last two assume `"overlap" \notin Adversity`: no stream opens before the tasks of the
job before are over. The code does not enforce this; a controller that starts one run after
the other does it, and with overlapping jobs both properties are false (section 4). `OwnInv`
then says that at most one job is alive (`Alone`), that a job that still waits for START
never had the agent and a running one has it unless RESET cleared it (`Owner`), that the
state and the position of the workflow of the current job agree (`Answers`, `Staged`), that a
job taken off finds no stage to start (`Stops`: the state has left the stages, or its
stream is gone and with it the release it would need), and what a reader that has left its
loop may still do (`Leaving`).
SYNC_STATE breaks `Answers`, `Staged` and `Stops` at a stroke, and the theorems claim that they are
true again once the agent was Idle. So something must hold meanwhile: `CoreInv` is the part of
the invariant that does not speak of the state, and which every step keeps, a forced one
included; `AgentInv` is `CoreInv` and, unless `synced`, `OwnInv`. `IdleAgain` is the way back: from
`CoreInv` and an Idle agent `OwnInv` follows, since at Idle nothing is claimed of a job's stage and
a workflow that is left cannot start one.

### The controller

`ControllerRunProofs` proves, for every finite set of agents, any set of runs (plans of two
stages or more in any order, any policy) and any number of faults:

* `TrackersBehind`: `ControllerSpec => []TrackerNotAhead`
* `CountedAgentsDone`: `ControllerSpec => []SuccessOfTheCounted`
* `VerdictsTrue`: `ControllerSpec => []VerdictTruthful`, if in every run all agents have
  an id of their own or all go by their address
* `ReleasesMeetPolicy`: `ControllerSpec => []StagesSynchronised`: a released stage barrier
  means that all agents, more than half, or all but those given up are past the stage
* `PhasesSynchronised`: `ControllerSpec => PhaseSynchronised`, if in every plan the prepare
  stages come before the execute stages (`PrepareFirst`)

*Argument.* `CInv` says that what is in the queues is true of its sender, for good
(`HonestQueues`), that trackers are not ahead, and a Completed one has a final summary
(`Tracking`), and that an agent is where released barriers let it be (`Crossed`).
A verdict is made of trackers in one step; that it stays true needs that done agents stay
done. `CountedAgentsDone` needs no assumption, and is what the code guarantees: of the
agents `check_test_status` counts, SUCCESS is true, and every barrier was released.

`ReleasesMeetPolicy` is about the barriers in between. `BInv` says that whoever is ready at a
barrier is past its stage (`ReadyPast`, from the honesty of the reports, for good since
positions only grow), that the agents the liveness check asks or gave up are consistent
(`ManagerOK`), and that a released barrier had enough of them (`Gathered`), which lasts
because ready agents and given up ones only grow.
`PhasesSynchronised` is about the other barrier, `wait_for_barrier`, which counts heartbeats
and gives up agents. That it is sound comes from the stage barriers: the wait begins with
statistics of an execute stage, so by then somebody is past every prepare stage, whose
barriers were therefore released, and released before anybody was given up, since only
the wait gives up agents (`PInv`). So the policy was met without failures. `PrepareFirst`
is needed: where an execute stage precedes a prepare stage the property is false.

The assumption of `VerdictsTrue` was found by the proof and cannot be dropped. Let *a1*
go by its address and *a2* by an id, in a run of custom, prepare, execute. Both report the last
barrier; a statistic of *a2* that was still under way then changes the phase, and the
aggregator is emptied; *a2* completes and is all the aggregator knows, so the main loop ends,
and `check_test_status` (`controller.rs` 5147) leaves *a1* out: SUCCESS, while *a1* is still at
its barrier. TLC finds this with `known` a set of one of two agents, `MaxQueue` 2 and one
fault. With ids only, *a1*'s tracker would make it a FAILURE; with addresses only nobody is
counted and SUCCESS is never said, so the theorem's content lies in the first case.

### The engine

`EngineProofs` proves, for every number of workers, duration and drain window and every job:

* `OkWaitsForAll`: `EngineSpec => []OkMeansAllDone`
* `CountsAgree`: `EngineSpec => []StatsAgree`
* `PoolsStayApart`: `EngineSpec => []PoolsSound`
* `RateIsKept`: `EngineSpec => []RateCapped`

*Argument.* `Joining`: the workers up to `joined` have exited, and a reached error threshold
leaves a worker that failed and can never be joined. `Summed`: a sum over workers is
written as the size of a set of pairs, a worker and a number up to its count (`Grid`), which
turns "one worker counts one more" into "one element more"; live statistics are the size of the
grid of all tallies, the summary that of the joined ones, and what the progress
counter lacks is in the workers' unflushed counts, which are 0 when a worker leaves.
`Separated`: with separate pools nothing is removed from the read-only one, and every
GET or STAT under way has its object there. `Growing`: a growing list has all that was
written (the proof showed that this needs the list's pattern to be a prefix of the new
names, as the code's comparison does; `PoolsSound` now says so). `Paced`: every
operation issued by the rate controller has started or is held by a worker, and every
issue whose time lies ahead is held, so the operations that started are at most those whose
time has come.

### Replay

`ReplayProofs` proves, for every op-log, rule set and configuration:

* `LeavesNothingRunning`, `KeepsItsBound`, `AccountsForEveryRow`, `StickyKeysStay`:
  `ReplaySpec => []P` for `NothingLeftRunning`, `InFlightBounded`, `Accounted`, `StickyKeys`

*Argument.* `Room`: with a limit of two or more a reading reader finds fewer tasks in flight
than the limit, so one more fits. `Counted`: the totals are the sizes of the sets of
rows begun, and collected. `Returned` and `GivenUp`: who returned has nothing in flight, and
without a flap exit the log was read to its end. `Mapped`: an issued operation is where the
rules may send it, which for a sticky key is one place.

### The metadata cache

`MetadataCacheProofs` proves, for any number of endpoints, objects, runs and faults:

* `EntriesStayWithTheirOwner`: `CacheSpec => []CacheTypeOK`
* `CountsOnlyWhatIsStored`: `CacheSpec => []CoverageTruthful`
* `CheckpointsAreKept`: `CacheSpec => [](Cancellable => Resumes)`, where `Cancellable` means
  that no periodic archive is written by a thread that outlives its abort (object
  storage, or no periodic archive); else `Resumes` is false (section 4). `Resumes` itself is
  about archives that are written where a restore looks (`Lands`)

*Argument.* `Truthful`: every entry, wherever it is, is of a stored object that belongs to
its endpoint. Then no object is counted twice, and counting as many as there are objects means
having all of them; this is a fact about cardinalities (`Coverage` is the size of a set of
endpoint and object pairs). `OpenOnes`: which databases are open in which phase. `Kept`: at
every point of a restore what was promised is in the archive if that is whole, else in
the local directory; an archive being written has it too. It is what makes a crash
after the removal of the directory harmless.

### Pure code

`AlgorithmsProofs` proves parts of what `Inputs` checks, for every input:

* `TreesCompleted`: `TreeCompletedOn` for every tree, any number of agents, any files that
  existed, listings that fail and progress of the others. The residue classes of the file
  index cover the tree and are disjoint; it does not matter how the tree is laid out.
* `SharesAreExact`: the shares of processes and runtimes, for every concurrency; the sum is
  stated as `n * (concurrency \div n)` plus the number of runtimes that have one more.
* `StagesInserted`: `InsertedInsideOn` for every text with at most one `distributed:` key, at
  the top level: the stages are read exactly if its section is indented by two. The insertion
  point is a minimum (`MinOf`, from the well-foundedness of the naturals); `Landed` shows
  that nothing but the new line can become a stage, and that it does if the first key of the
  section has its indent.
* `OriginalsKept`: `OriginalKeptOn` for every text and every outcome of the validation.
* `PrefixesKeepPaths`: `PrefixKeepsPathsOn` for every target, every path, relative or absolute,
  and prefixes `name/`, the shape of the default `agent-{id}/`. TLC also tries prefixes with
  leading slashes.
* `DirectoriesProbed`: `DirectoryProbedOn` for everything a file system may grant, refuse or
  fail to answer.
* `PrepareIsLocated`: `PrepareLocatedOn` for any number of agents and endpoints. A list of
  endpoints has one or more: an empty one is refused (`config.rs` 403, `workload.rs` 460).

### Only model-checked

* Liveness (`Finishes`, `ControllerEnds`, `AgentsFreed`, `PrepareEnds`, `Freed`,
  `ControllerReturns`, `CleanRunSucceeds`, `EngineEnds`, `ReplayReturns`): fairness and
  `ENABLED` are outside the prover.
* The rest of `Inputs`: the layout of a tree and its creation order, selections, sorts,
  merges, reports, live windows, and the probes of buckets and of an agent's own endpoints.
  What a fold, a sort or a filter computes for inputs of any length needs induction over
  data, which the prover does not do. So `TreesComplete`, `MergesExact`,
  `ConfigurationsRun` and `ProbesSound` as wholes stay with TLC.
* `PhaseSynchronised` for plans that execute before they prepare, and `ReadyMeansPresent` and
  `ReportedArePresent` outside `Solid`, are not theorems because they are false there.

## 8. What is not modelled

* Data generation, latency histograms of the live view, file formats and column
  layouts, the performance log's TSV, warm-up flags, the single-node exporter: contents,
  not control.
* Parsing and defaults of the configuration; sizes and fill patterns.
* PING, ACKNOWLEDGE and PREFLIGHT, which answer and change no state; an ABORT before START;
  the single-operation RPCs.
* Several `ensure_objects` entries of one prepare; cleanup-only jobs and their partition
  among agents; several endpoints within one workload.
* The states of the metadata cache other than Created, its listings, endpoint map and
  seeds, and the coordinator's API: nothing in the program calls them.
* The uniform and exponential arrival distributions, which share nothing between workers.
* `replay.rs`, the older replay kept for comparison.
* SSH deployment (external commands), the populate ledger (an append), spreadsheets,
  the command line and autotune, the generated gRPC bindings.

The definitions stand for about 17 600 of the 54 600 lines of Rust, tests included.
A quarter of the lines are unit tests inside the source files; much of the rest is
parsing, messages, tables and the command line.

## 9. Plan

What is left, in order of importance.

1. Type correctness of `AgentLifecycle`, `ControllerRun`, `Engine` and `Replay` as theorems
   of their own; the proofs state the parts they need.
2. Cleanup-only jobs, several `ensure_objects` entries.

## 10. How to run

    tlc -workers 2 -config StageBarrier_Timing.cfg MCStageBarrier
    tlc -workers 2 -config AgentLifecycle_OneAtATime.cfg MCLifecycle
    tlc -workers 2 -config ControllerRun_Verdict.cfg MCController
    tlc -workers 2 -config Engine_Workload.cfg MCEngine
    tlc -workers 2 -config Replay_Streaming.cfg MCReplay
    tlc -workers 2 -config MetadataCache_Recovery.cfg MCMetadataCache
    tlc -workers 2 -config Prepare_Sound.cfg MCPrepare
    tlc -workers 2 -config Algorithms_Inputs.cfg MCAlgorithms
    tlapm StageBarrierProofs.tla
    tlapm PrepareProofs.tla
    tlapm AgentLifecycleProofs.tla
    tlapm ControllerRunProofs.tla
    tlapm EngineProofs.tla
    tlapm ReplayProofs.tla
    tlapm MetadataCacheProofs.tla
    tlapm AlgorithmsProofs.tla
