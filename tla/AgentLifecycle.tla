--------------------------- MODULE AgentLifecycle ---------------------------
(***************************************************************************)
(* One agent process through the jobs it is given.  A job is one           *)
(* ExecuteWorkload stream with three tasks (control reader, workflow,      *)
(* stats writer); the tasks of every job share one AgentState, one abort   *)
(* broadcast, one barrier-release broadcast and one op-log session.  Next  *)
(* to the streams there are the abort RPC with its delayed resets, the     *)
(* unary RunWorkload RPC and the shutdown of the process.                  *)
(*                                                                         *)
(* StageBarrier models many agents through one job; here it is one agent   *)
(* through several, so the controllers are reduced to what they may do to  *)
(* this agent: open a stream, START, release a reported barrier, GOODBYE,  *)
(* abort, or vanish.  A transition_to is one step (it holds the state's    *)
(* lock); a look at the state and the transition chosen from it are two    *)
(* steps for the reader and the abort RPC, one for the delayed resets.     *)
(***************************************************************************)
EXTENDS Naturals, Sequences, FiniteSets

CONSTANTS
    NumJobs,        \* bound: streams opened to the agent
    NumStages,      \* YAML stages of every job
    MaxRetries,     \* max_barrier_retries, 5 in the code
    MaxAborts,      \* bound: abort RPCs
    Logs,           \* base op-log paths a job may ask for
    NoLog,          \* a job without op_log_path
    Adversity       \* which of Conditions the environment may produce

Conditions ==
    { "vanish",     \* a controller disappears without GOODBYE
      "stageFail",  \* the work of a stage fails
      "slowStart",  \* START handling outlasts the writer's first poll
      "fastStage",  \* a stage falls between two polls of the writer
      "raceEnd",    \* a stream ends while a release or the result is on its way
      "sync",       \* a controller forces the agent to a stage (SYNC_STATE)
      "overlap" }   \* a stream opens before everything of the one before is over

ASSUME LifecycleAssumption ==
    /\ NumJobs \in Nat \ {0}
    /\ NumStages \in Nat \ {0}
    /\ MaxRetries \in Nat
    /\ MaxAborts \in Nat
    /\ NoLog \notin Logs
    /\ Adversity \subseteq Conditions

Jobs == 1 .. NumJobs

\* WorkloadState.  Stage 0 is the preflight pseudo-stage, YAML stages start at 1.
Plain(n) == [name |-> n, i |-> 0, rdy |-> FALSE]
AtStage(i, rdy) == [name |-> "AtStage", i |-> i, rdy |-> rdy]
Idle == Plain("Idle")
WorkloadState ==
    {Plain(n) : n \in {"Idle", "Completed", "Failed", "Aborting"}}
        \cup {AtStage(i, r) : i \in 0 .. NumStages, r \in BOOLEAN}

\* Variant: a stage may start from Aborting
CanTransitionLoose(from, to) ==
    \/ from.name = "Aborting"
    \/ from.name = "AtStage" /\ to.name = "AtStage"
    \/ from.name \in {"Idle", "Failed", "Completed"} /\ to.name \in {"Idle", "AtStage", "Aborting"}
    \/ from.name = "AtStage" /\ to.name # "Idle"
    \/ from.name = "AtStage" /\ from.rdy

\* AgentState::can_transition.  From Idle only stage 0 is reachable, from
\* Aborting only Idle, and an executing stage never goes straight to Idle.
CanTransition(from, to) ==
    \/ /\ from.name = "AtStage" /\ to.name = "AtStage"
       /\ \/ ~from.rdy /\ to.rdy /\ to.i = from.i
          \/ from.rdy /\ ~to.rdy /\ to.i = from.i + 1
          \/ ~from.rdy /\ ~to.rdy /\ from.i = 0 /\ to.i = 1
    \/ from = Idle /\ to.name = "AtStage" /\ to.i = 0
    \/ from.name = "AtStage" /\ from.rdy /\ to.name \in {"Completed", "Idle"}
    \/ from.name = "AtStage" /\ to.name = "Failed"
    \/ to.name = "Aborting"
    \/ from.name \in {"Completed", "Failed", "Aborting", "Idle"} /\ to = Idle

\* AgentState::transition_to: the state afterwards, and whether it was accepted
Accepted(from, to) == from = to \/ CanTransition(from, to)
Moved(from, to) == IF Accepted(from, to) THEN to ELSE from

\* Op-log files: the staged and the unary RPC derive different names
StagedPath(base) == <<base, "staged">>
UnaryPath(base) == <<base, "unary">>
Paths == {StagedPath(b) : b \in Logs} \cup {UnaryPath(b) : b \in Logs}

VARIABLES
    state,       \* AgentState.state
    current,     \* the job whose START was accepted last (agent_id, config, stages)
    tracker,     \* AgentState.tracker is set
    job,         \* job[j]: the tasks and channels of job j, see Job
    rpc,         \* the abort RPC under way: what it found
    resets,      \* delayed resets spawned by the abort RPC
    session,     \* oplog_session::SESSION
    unary,       \* the unary RunWorkload RPC: its progress and its op-log base
    serving,     \* the gRPC server runs
    off,         \* jobs taken off the agent (abort, disconnect, reset)
    synced       \* history: SYNC_STATE forced the state and it was not Idle since

processVars == <<rpc, resets, session, unary, serving>>
agentVars == <<state, current, tracker, job, processVars, off>>
vars == <<agentVars, synced>>

Barriers == 0 .. (NumStages - 1)

\* The tasks of one execute_workload call and the channels between them
Job == [conn : {"none", "open", "closed"},       \* the stream, seen by its controller
        reader : {"none", "wait", "read", "flush", "left", "gone"},
        seen : WorkloadState,                    \* state the reader found at its end
        workflow : {"none", "spawned", "next", "exec", "wait", "ended", "failed"},
        stage : 0 .. NumStages,                  \* YAML stages started
        timeouts : 0 .. MaxRetries,              \* barrier_sequence of the wait
        barrier_rx : Seq(Barriers),              \* releases queued for the workflow
        abort_rx : BOOLEAN,                      \* an abort signal is queued for it
        reported : SUBSET Barriers,              \* barriers its controller may release
        tx_done : Seq({"ok", "err"}),            \* results the writer has not taken
        writer : {"none", "poll", "ready", "run", "flushOk", "flushErr", "exit"},
        sent : SUBSET {"ready", "completed", "error", "aborted"}, \* told its controller, while there
        log : Logs \cup {NoLog}]                 \* op-log base the job asks for

NoSession == [status |-> "Idle", key |-> <<>>]

\* Every component of the agent keeps its type.
LifecycleTypeOK ==
    /\ state \in WorkloadState
    /\ current \in 0 .. NumJobs
    /\ tracker \in BOOLEAN
    /\ job \in [Jobs -> Job]
    /\ rpc \in {"none", "stage", "completed"}
    /\ resets \in Seq([kind : {"stage", "completed"}, phase : {"first", "second"}])
    /\ session \in [status : {"Idle", "Active", "Finalized"}, key : Paths \cup {<<>>}]
    /\ unary \in [pc : {"idle", "running"}, log : Logs \cup {NoLog}]
    /\ serving \in BOOLEAN
    /\ off \subseteq Jobs
    /\ synced \in BOOLEAN

NewJob == [conn |-> "none", reader |-> "none", seen |-> Idle, workflow |-> "none",
           stage |-> 0, timeouts |-> 0, barrier_rx |-> <<>>, abort_rx |-> FALSE,
           reported |-> {}, tx_done |-> <<>>, writer |-> "none", sent |-> {}, log |-> NoLog]

\* A job whose tasks are over; what they held is dropped with them
GoneJob == [NewJob EXCEPT !.conn = "closed", !.reader = "gone", !.workflow = "ended",
                          !.writer = "exit"]

LifecycleInit ==
    /\ state = Idle /\ current = 0 /\ tracker = FALSE
    /\ job = [j \in Jobs |-> NewJob]
    /\ rpc = "none" /\ resets = <<>>
    /\ session = NoSession
    /\ unary = [pc |-> "idle", log |-> NoLog] /\ serving = TRUE
    /\ off = {} /\ synced = FALSE
-----------------------------------------------------------------------------
(***************************************************************************)
(* The op-log session (oplog_session.rs)                                   *)
(***************************************************************************)

\* Variant: an active session is continued whatever the path
BeginSessionAnyPath(path, s) ==
    /\ session.status # "Finalized"
    /\ s = IF session.status = "Idle" THEN [status |-> "Active", key |-> path] ELSE session

\* begin: starts the session, continues it for the same path; anything else,
\* and anything after end, is an error.  s is the session afterwards.
BeginSession(path, s) ==
    \/ session.status = "Idle" /\ s = [status |-> "Active", key |-> path]
    \/ session.status = "Active" /\ session.key = path /\ s = session

\* check, and the error case of begin
SessionRefuses(path) ==
    \/ session.status = "Finalized"
    \/ session.status = "Active" /\ session.key # path
-----------------------------------------------------------------------------
(***************************************************************************)
(* Helpers                                                                 *)
(***************************************************************************)

\* Everything of the jobs and RPCs so far has come to rest
Settled ==
    /\ \A j \in Jobs : /\ job[j].workflow \in {"none", "ended", "failed"}
                       /\ job[j].writer \in {"none", "exit"}
                       /\ job[j].reader \in {"none", "gone"}
    /\ rpc = "none" /\ resets = <<>>

\* tx_stats.send: fails once the controller's end of the stream is gone
Told(b, kind) == IF b.conn = "open" THEN b.sent \cup {kind} ELSE b.sent

\* send_abort reaches the workflows that have subscribed
Signalled(jobs) ==
    [j \in Jobs |-> [jobs[j] EXCEPT !.abort_rx =
                       @ \/ jobs[j].workflow \in {"next", "exec", "wait"}]]

\* The job that has the agent is taken off it
TakeOff == off' = off \cup ({current} \ {0})

\* The workflow returns and drops what it holds; its result goes to tx_done
Return(j, result) ==
    job' = [job EXCEPT ![j].workflow = IF result = "ok" THEN "ended" ELSE "failed",
                       ![j].tx_done = Append(@, result),
                       ![j].barrier_rx = <<>>, ![j].timeouts = 0, ![j].abort_rx = FALSE,
                       ![j].log = NoLog]
-----------------------------------------------------------------------------
(***************************************************************************)
(* The control reader                                                      *)
(***************************************************************************)

\* execute_workload: the stats writer and the control reader are spawned
Connect(j) ==
    /\ job[j].conn = "none" /\ (j > 1 => job[j - 1].conn # "none")
    /\ "overlap" \in Adversity \/ Settled
    /\ job' = [i \in Jobs |->
         IF i = j THEN [NewJob EXCEPT !.conn = "open", !.reader = "wait", !.writer = "poll"]
         ELSE IF Settled /\ i < j THEN GoneJob ELSE job[i]]
    /\ UNCHANGED <<state, current, tracker, processVars, off>>

\* The stream of j brings a message while its reader is at pc
Receives(j, pc) == job[j].conn = "open" /\ job[j].reader = pc

\* START while Idle: the fields of the job replace those of the one before,
\* the op-log session starts or goes on, and the workflow task is spawned.
Start(j) ==
    /\ Receives(j, "wait") /\ state = Idle
    /\ \E log \in Logs \cup {NoLog} :
         /\ IF log = NoLog THEN UNCHANGED session ELSE BeginSession(StagedPath(log), session')
         /\ job' = [job EXCEPT ![j].reader = "read", ![j].workflow = "spawned", ![j].log = log]
    /\ state' = AtStage(0, FALSE)
    /\ current' = j
    /\ tracker' = TRUE
    /\ UNCHANGED <<rpc, resets, unary, serving, off>>

\* START refused by the op-log session: ERROR is sent by the reader itself,
\* which returns; the state was never left.
StartLogRefused(j) ==
    /\ Receives(j, "wait") /\ state = Idle
    /\ \E log \in Logs : SessionRefuses(StagedPath(log))
    /\ job' = [job EXCEPT ![j].reader = "gone", ![j].sent = Told(job[j], "error")]
    /\ current' = j
    /\ UNCHANGED <<state, tracker, processVars, off>>

\* START with a bad config (Idle to Failed is refused, so the state stays) or
\* while the agent is not Idle: an error on tx_done, and the reader returns
\* without the clean-up that follows its loop.
StartRefused(j) ==
    /\ Receives(j, "wait")
    /\ job' = [job EXCEPT ![j].reader = "gone", ![j].tx_done = Append(@, "err")]
    /\ IF state = Idle THEN current' = j /\ state' = Moved(state, Plain("Failed"))
                       ELSE UNCHANGED <<current, state>>
    /\ UNCHANGED <<tracker, processVars, off>>

\* RELEASE_BARRIER for a barrier this controller was told of (it listens to
\* barrier reports only after the agent's READY): every workflow
\* that waits at a barrier receives it, whichever job it belongs to.
ReleaseBarrier(j) ==
    /\ Receives(j, "read") /\ "ready" \in job[j].sent
    /\ \E k \in job[j].reported :
         job' = [w \in Jobs |->
           [job[w] EXCEPT !.reported = IF w = j THEN @ \ {k} ELSE @,
                          !.barrier_rx = IF job[w].workflow = "wait" THEN Append(@, k) ELSE @]]
    /\ UNCHANGED <<state, current, tracker, processVars, off>>

\* ABORT: signal, Aborting, ABORTED; Idle once the message is flushed
AbortCommand(j) ==
    /\ Receives(j, "read") /\ "aborted" \notin job[j].sent
    /\ job' = [Signalled(job) EXCEPT ![j].reader = "flush", ![j].sent = Told(job[j], "aborted")]
    /\ state' = Moved(state, Plain("Aborting"))
    /\ TakeOff
    /\ UNCHANGED <<current, tracker, processVars>>

AbortFlushed(j) ==
    /\ job[j].reader = "flush"
    /\ job' = [job EXCEPT ![j].reader = "read"]
    /\ state' = Moved(state, Idle)
    /\ UNCHANGED <<current, tracker, processVars, off>>

\* RESET, before or after START: signal, Idle whatever the state, the job's
\* fields are cleared; the acknowledgement carries the code of READY.
Reset(j) ==
    /\ Receives(j, "wait") \/ Receives(j, "read")
    /\ job' = [Signalled(job) EXCEPT ![j].sent = Told(job[j], "ready")]
    /\ state' = Idle
    /\ tracker' = FALSE
    /\ current' = 0
    /\ TakeOff
    /\ UNCHANGED processVars

\* SYNC_STATE, before or after START: the stage the controller names, by force.
\* No signal, and the job's fields and tasks are left alone; the acknowledgement
\* of an executing stage carries the code of READY.
SyncState(j) ==
    /\ "sync" \in Adversity
    /\ Receives(j, "wait") \/ Receives(j, "read")
    /\ \E i \in 0 .. NumStages, ready_for_next \in BOOLEAN :
         /\ state' = AtStage(i, ready_for_next)
         /\ job' = [job EXCEPT ![j].sent =
                      IF ready_for_next THEN @ ELSE Told(job[j], "ready")]
    /\ UNCHANGED <<current, tracker, processVars, off>>

\* GOODBYE after COMPLETED: Idle if that is a valid transition, end of the loop
Goodbye(j) ==
    /\ Receives(j, "read") /\ "completed" \in job[j].sent
    /\ state' = Moved(state, Idle)
    /\ job' = [job EXCEPT ![j].reader = "left", ![j].conn = "closed", ![j].seen = state',
                          ![j].reported = {}, ![j].sent = {}]
    /\ UNCHANGED <<current, tracker, processVars, off>>

\* A release or the result of the workflow is on its way inside the agent
InTransit(b) ==
    \/ b.barrier_rx # <<>>
    \/ b.workflow = "next" /\ b.stage > 0
    \/ "ok" \in {b.tx_done[i] : i \in DOMAIN b.tx_done}

\* The controller of j vanishes
Vanish(j) ==
    /\ "vanish" \in Adversity
    /\ "raceEnd" \in Adversity \/ ~InTransit(job[j])
    /\ job[j].conn = "open"
    /\ job' = [job EXCEPT ![j].conn = "closed", ![j].reported = {}, ![j].sent = {}]
    /\ UNCHANGED <<state, current, tracker, processVars, off>>

\* The reader notices the end of its stream (None or Err) and looks at the state
StreamEnds(j) ==
    /\ job[j].conn = "closed" /\ job[j].reader \in {"wait", "read"}
    /\ job' = [job EXCEPT ![j].reader = "left", ![j].seen = state]
    /\ UNCHANGED <<state, current, tracker, processVars, off>>

\* ... and acts on what it saw: nothing for Idle, Failed and Completed; Idle
\* for a stage at its barrier (no abort signal); an abort signal, Failed and
\* Idle for an executing stage; Failed (refused) and Idle for Aborting.
ReaderCleansUp(j) ==
    /\ job[j].reader = "left"
    /\ LET seen == job[j].seen
           left == [job EXCEPT ![j].reader = "gone", ![j].seen = Idle] IN
       \/ /\ seen.name \in {"Idle", "Failed", "Completed"}
          /\ job' = left
          /\ UNCHANGED <<state, off>>
       \/ /\ seen.name = "AtStage" /\ seen.rdy
          /\ job' = left
          /\ state' = Moved(state, Idle)
          /\ TakeOff
       \/ /\ seen.name = "AtStage" /\ ~seen.rdy
          /\ job' = Signalled(left)
          /\ state' = Moved(Moved(state, Plain("Failed")), Idle)
          /\ TakeOff
       \/ /\ seen.name = "Aborting"
          /\ job' = left
          /\ state' = Moved(Moved(state, Plain("Failed")), Idle)
          /\ TakeOff
    /\ UNCHANGED <<current, tracker, processVars>>
-----------------------------------------------------------------------------
(***************************************************************************)
(* The workflow (execute_stages_workflow)                                  *)
(***************************************************************************)

\* The spawned task reads the stages of the current job (a panic if a RESET
\* has cleared them) and subscribes to the abort broadcast.
SubscribeAbort(j) ==
    /\ job[j].workflow = "spawned"
    /\ job' = [job EXCEPT ![j].workflow = IF current = 0 THEN "failed" ELSE "next"]
    /\ UNCHANGED <<state, current, tracker, processVars, off>>

\* Variant: the stage is started without the transition that announces it
NextStageUnannounced(j) ==
    /\ job[j].workflow = "next" /\ job[j].stage < NumStages
    /\ job' = [job EXCEPT ![j].stage = @ + 1, ![j].workflow = "exec"]
    /\ UNCHANGED <<state, current, tracker, processVars, off>>

\* Top of the stage loop: a queued abort may be taken (the select picks either
\* ready branch); otherwise the next stage starts if the state allows it.
NextStage(j) ==
    /\ job[j].workflow = "next" /\ job[j].stage < NumStages
    /\ LET executing == AtStage(job[j].stage + 1, FALSE) IN
       \/ /\ job[j].abort_rx \/ ~Accepted(state, executing)
          /\ Return(j, "err")
          /\ UNCHANGED state
       \/ /\ Accepted(state, executing)
          /\ state' = executing
          /\ job' = [job EXCEPT ![j].stage = @ + 1, ![j].workflow = "exec"]
    /\ UNCHANGED <<current, tracker, processVars, off>>

\* The barrier report reaches the controller while the stream is there
Reported(b) == IF b.conn = "open" THEN b.reported \cup {b.stage - 1} ELSE b.reported

\* The work of the stage is over.  No abort signal interrupts it; whether it
\* counts is decided by the transition to ready_for_next.  (Subscribing to the
\* releases and the first report are part of the step; StageBarrier has the gap.)
StageDone(j) ==
    /\ job[j].workflow = "exec"
    /\ "fastStage" \in Adversity \/ job[j].stage = 1 \/ job[j].writer # "ready"
    /\ LET ready == AtStage(job[j].stage, TRUE) IN
       \/ /\ Accepted(state, ready)
          /\ state' = ready
          /\ job' = [job EXCEPT ![j].workflow = "wait", ![j].barrier_rx = <<>>,
                                ![j].timeouts = 0, ![j].reported = Reported(job[j])]
       \/ /\ ~Accepted(state, ready)
          /\ Return(j, "err")
          /\ UNCHANGED state
    /\ UNCHANGED <<current, tracker, processVars, off>>

\* The work of the stage fails (prepare, workload, cleanup or custom command):
\* the workflow returns Err and leaves the state as it is.
StageFails(j) ==
    /\ "stageFail" \in Adversity
    /\ job[j].workflow = "exec"
    /\ Return(j, "err")
    /\ UNCHANGED <<state, current, tracker, processVars, off>>

\* The wait at the barrier: a matching release, or a timeout and another report,
\* or the end of the retries.  The wait does not listen for an abort.
AwaitRelease(j) ==
    /\ job[j].workflow = "wait"
    /\ LET b == job[j] IN
       \/ /\ b.barrier_rx # <<>>
          /\ job' = [job EXCEPT
               ![j].barrier_rx = Tail(@),
               ![j].workflow = IF /\ Head(b.barrier_rx) = b.stage - 1
                                  /\ Head(b.barrier_rx) >= b.timeouts
                                 THEN "next" ELSE "wait"]
       \/ /\ b.barrier_rx = <<>> /\ b.timeouts < MaxRetries
          /\ job' = [job EXCEPT ![j].timeouts = @ + 1, ![j].reported = Reported(b)]
       \/ /\ b.barrier_rx = <<>> /\ b.timeouts = MaxRetries
          /\ Return(j, "err")
    /\ UNCHANGED <<state, current, tracker, processVars, off>>

\* After the last barrier: Completed if still valid, Ok in either case
AllStagesDone(j) ==
    /\ job[j].workflow = "next" /\ job[j].stage = NumStages
    /\ state' = Moved(state, Plain("Completed"))
    /\ Return(j, "ok")
    /\ UNCHANGED <<current, tracker, processVars, off>>
-----------------------------------------------------------------------------
(***************************************************************************)
(* The stats writer                                                        *)
(***************************************************************************)

WriterTo(j, from, to) == job[j].writer = from /\ job' = [job EXCEPT ![j].writer = to]

\* The poll before READY: a stage at its barrier is READY; Idle is seen before
\* START is handled only if that takes more than one poll.
WriterPolls(j) ==
    /\ \/ /\ state.name = "AtStage" /\ state.rdy
          /\ job[j].writer = "poll"
          /\ job' = [job EXCEPT
               ![j].writer = IF job[j].conn = "open" THEN "ready" ELSE "exit",
               ![j].sent = Told(job[j], "ready")]
       \/ /\ \/ state.name = "Failed"
             \/ state = Idle /\ (job[j].reader # "wait" \/ "slowStart" \in Adversity)
          /\ WriterTo(j, "poll", "exit")
    /\ UNCHANGED <<state, current, tracker, processVars, off>>

\* The one-second loop after READY
WriterWaits(j) ==
    /\ \/ /\ job[j].conn = "closed" \/ state.name \in {"Failed", "Idle", "Aborting"}
          /\ WriterTo(j, "ready", "exit")
       \/ /\ job[j].conn = "open" /\ state.name = "AtStage" /\ ~state.rdy
          /\ WriterTo(j, "ready", IF tracker THEN "run" ELSE "exit")
    /\ UNCHANGED <<state, current, tracker, processVars, off>>

\* Variant: whatever the workflow returned is reported as COMPLETED
WriterReportsCompleted(j) ==
    /\ job[j].writer = "run" /\ job[j].tx_done # <<>>
    /\ job' = [job EXCEPT ![j].tx_done = Tail(@), ![j].writer = "flushOk",
                          ![j].sent = Told(job[j], "completed")]
    /\ UNCHANGED <<state, current, tracker, processVars, off>>

\* The result arrives: COMPLETED or ERROR is sent
WriterReports(j) ==
    /\ job[j].writer = "run" /\ job[j].tx_done # <<>>
    /\ LET ok == Head(job[j].tx_done) = "ok" IN
       job' = [job EXCEPT ![j].tx_done = Tail(@),
                          ![j].writer = IF ok THEN "flushOk" ELSE "flushErr",
                          ![j].sent = Told(job[j], IF ok THEN "completed" ELSE "error")]
    /\ UNCHANGED <<state, current, tracker, processVars, off>>

\* After AGENT_ERROR_FLUSH_DELAY_SECS: Idle, through Failed after an error
WriterFlushed(j) ==
    /\ \/ /\ WriterTo(j, "flushOk", "exit")
          /\ state' = Moved(state, Idle)
       \/ /\ WriterTo(j, "flushErr", "exit")
          /\ state' = Moved(Moved(state, Plain("Failed")), Idle)
    /\ UNCHANGED <<current, tracker, processVars, off>>

\* A RUNNING message cannot be sent: the writer leaves, and nobody takes the
\* result of the workflow any more.
WriterLeaves(j) ==
    /\ job[j].conn = "closed"
    /\ WriterTo(j, "run", "exit")
    /\ UNCHANGED <<state, current, tracker, processVars, off>>
-----------------------------------------------------------------------------
(***************************************************************************)
(* The abort RPC, the unary RPC and the shutdown of the process            *)
(***************************************************************************)

\* abort_workload looks at the state: a stage, or (the catch-all arm) Completed
AbortRequested ==
    /\ rpc = "none" /\ Len(resets) < MaxAborts
    /\ state.name \in {"AtStage", "Completed"}
    /\ rpc' = IF state.name = "AtStage" THEN "stage" ELSE "completed"
    /\ UNCHANGED <<state, current, tracker, job, resets, session, unary, serving, off>>

\* Variant: no task is spawned to reset the agent
AbortWorkloadOnly ==
    /\ rpc # "none"
    /\ rpc' = "none"
    /\ state' = Moved(state, Plain("Aborting"))
    /\ job' = Signalled(job)
    /\ TakeOff
    /\ UNCHANGED <<current, tracker, resets, session, unary, serving>>

\* ... and acts: Aborting, the signal, and a task that resets the agent later
AbortWorkload ==
    /\ rpc # "none"
    /\ rpc' = "none"
    /\ state' = Moved(state, Plain("Aborting"))
    /\ job' = Signalled(job)
    /\ resets' = Append(resets, [kind |-> rpc, phase |-> "first"])
    /\ TakeOff
    /\ UNCHANGED <<current, tracker, session, unary, serving>>

\* Five seconds later: Idle if still Aborting.  Ten seconds after that: Idle by
\* force if the agent is Aborting or (for the abort of a stage) at any stage.
DelayedReset ==
    /\ resets # <<>>
    /\ LET r == Head(resets) IN
       \/ /\ r.phase = "first"
          /\ state' = IF state.name = "Aborting" THEN Idle ELSE state
          /\ resets' = [resets EXCEPT ![1].phase = "second"]
          /\ UNCHANGED off
       \/ /\ r.phase = "second"
          /\ IF state.name = "Aborting" \/ (r.kind = "stage" /\ state.name = "AtStage")
               THEN state' = Idle /\ TakeOff ELSE UNCHANGED <<state, off>>
          /\ resets' = Tail(resets)
    /\ UNCHANGED <<current, tracker, job, rpc, session, unary, serving>>

\* run_workload, as often as it is called: neither the state nor a running job is
\* looked at; only the op-log session can refuse it, and then nothing changes.
\* (Without an op-log it touches nothing here.)
UnaryBegin ==
    /\ unary.pc = "idle"
    /\ \E log \in Logs : /\ BeginSession(UnaryPath(log), session')
                         /\ unary' = [pc |-> "running", log |-> log]
    /\ UNCHANGED <<state, current, tracker, job, rpc, resets, serving, off>>

\* Prepare or listing, the workload and the clean-up are over, or one has failed
UnaryEnds ==
    /\ unary.pc = "running"
    /\ unary' = [pc |-> "idle", log |-> NoLog]
    /\ UNCHANGED <<state, current, tracker, job, rpc, resets, session, serving, off>>

\* SIGINT or SIGTERM: the server stops once its streams are over, then the
\* op-log session is finalized and the process exits; whatever still runs, and
\* all it held, goes with it.
Shutdown ==
    /\ \A j \in Jobs : \/ job[j].conn # "open"
                       \/ /\ job[j].reader = "gone" /\ job[j].writer = "exit"
                          /\ job[j].workflow \in {"none", "ended", "failed"}
    /\ unary.pc # "running"
    /\ serving' = FALSE
    /\ session' = [session EXCEPT !.status = IF @ = "Active" THEN "Finalized" ELSE @]
    /\ state' = Idle /\ current' = 0 /\ tracker' = FALSE /\ off' = {}
    /\ job' = [j \in Jobs |-> GoneJob]
    /\ rpc' = "none" /\ resets' = <<>> /\ unary' = [pc |-> "idle", log |-> NoLog]
-----------------------------------------------------------------------------
Reader(j) == StreamEnds(j) \/ ReaderCleansUp(j) \/ AbortFlushed(j)

Workflow(j) ==
    \/ SubscribeAbort(j) \/ NextStage(j) \/ StageDone(j) \/ AwaitRelease(j)
    \/ AllStagesDone(j)

Writer(j) ==
    WriterPolls(j) \/ WriterWaits(j) \/ WriterReports(j) \/ WriterFlushed(j) \/ WriterLeaves(j)

AgentStep ==
    \/ \E j \in Jobs :
         \/ Connect(j) \/ Start(j) \/ StartLogRefused(j) \/ StartRefused(j)
         \/ ReleaseBarrier(j) \/ AbortCommand(j) \/ Reset(j) \/ Goodbye(j) \/ Vanish(j)
         \/ Reader(j) \/ Workflow(j) \/ StageFails(j) \/ Writer(j)
    \/ AbortRequested \/ AbortWorkload \/ DelayedReset
    \/ UnaryBegin \/ UnaryEnds \/ Shutdown

LifecycleNext ==
    /\ serving
    /\ \/ AgentStep /\ synced' = (synced /\ state' # Idle)
       \/ (\E j \in Jobs : SyncState(j)) /\ synced' = TRUE

\* The tasks of the agent run on, and so do its timers; nothing is assumed of
\* the controllers.
LifecycleFairness ==
    /\ \A j \in Jobs : /\ WF_agentVars(serving /\ Reader(j))
                       /\ WF_agentVars(serving /\ Workflow(j))
                       /\ WF_agentVars(serving /\ Writer(j))
    /\ WF_agentVars(serving /\ AbortWorkload) /\ WF_agentVars(serving /\ DelayedReset)

LifecycleSpec == LifecycleInit /\ [][LifecycleNext]_vars /\ LifecycleFairness
-----------------------------------------------------------------------------
(***************************************************************************)
(* Properties                                                              *)
(***************************************************************************)

\* Once a job was taken off the agent (abort RPC, ABORT, RESET, a delayed reset
\* or the end of its stream), its workflow starts no further stage, although
\* nothing stops the workflow itself: every later transition is refused.  Only a
\* SYNC_STATE, which forces the agent to a stage again, lets it go on.
StoppedStaysStopped ==
    [][\A j \in off : job'[j].workflow = "exec" => job[j].workflow = "exec" \/ synced]_vars

\* What query_agent_status answers about a job that was not taken off is true:
\* at_barrier only if its workflow has finished the named stage, executing only
\* if it is in that stage (or has just failed in it).  After a SYNC_STATE the
\* answer is the stage the controller named, whatever the workflow does, until
\* the agent is Idle again; from then on answers are true again.
QueryTruthful ==
    state.name = "AtStage" /\ current # 0 /\ current \notin off /\ ~synced =>
        /\ job[current].stage = state.i
        /\ job[current].workflow \in IF state.rdy THEN {"wait", "next", "failed"}
                                     ELSE {"spawned", "next", "exec", "failed"}

\* Work of a job or of the unary RPC that asked for an op-log is done while the
\* process's one session is open on the file it asked for.
LoggedWork ==
    serving =>
      /\ \A j \in Jobs : job[j].workflow = "exec" /\ job[j].log # NoLog =>
           session = [status |-> "Active", key |-> StagedPath(job[j].log)]
      /\ unary.pc = "running" /\ unary.log # NoLog =>
           session = [status |-> "Active", key |-> UnaryPath(unary.log)]

\* COMPLETED is reported for a job only after its own workflow got through every
\* stage and returned Ok, and never together with ERROR, whatever aborts, lost
\* streams and failures of other jobs did to the state the two tasks share.
CompletedMeansRan ==
    \A j \in Jobs : "completed" \in job[j].sent =>
        /\ job[j].stage = NumStages /\ job[j].workflow = "ended"
        /\ "error" \notin job[j].sent

\* A stream that has ended frees the agent, whatever was going on: the agent is
\* never for good left busy with a job whose controller is gone, unless a
\* SYNC_STATE forced its state.
Freed ==
    []<>(current # 0 /\ job[current].conn = "closed" => state = Idle \/ synced)
=============================================================================
