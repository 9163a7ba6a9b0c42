---------------------------- MODULE ControllerRun ----------------------------
(***************************************************************************)
(* run_distributed_workload from the deployment of the agents to the       *)
(* verdict in STATUS.txt: the trackers of the agents, the aggregator, the  *)
(* two barrier mechanisms of the BarrierManager (stage barriers, and the   *)
(* phase barrier with its heartbeats and liveness queries), the 600 s      *)
(* disconnect and the recovery from it, and everything that is left behind *)
(* by each way out of the function.                                        *)
(*                                                                         *)
(* StageBarrier has the tasks inside an agent and the races of one stage   *)
(* barrier; here an agent is only what the controller can notice of it: it *)
(* executes stages, waits at barriers, sends statistics, and fails, hangs  *)
(* or loses its stream.  The stream and its forwarder are one FIFO per     *)
(* agent.  Time is left out: a timer is an action.                         *)
(***************************************************************************)
EXTENDS Naturals, Sequences, FiniteSets, BarrierPolicy

CONSTANTS
    Agents,           \* the configured agents
    Runs,             \* the runs considered: the kinds of the stages, the barrier type, and
                      \* the agents whose id is their address (host:port, not agent-1, ...)
    MissedThreshold,  \* missed heartbeats before an agent is queried
    MaxQueue,         \* bound: messages of one agent under way
    MaxFaults         \* bound: faults of a run

Kinds == {"prepare", "execute", "cleanup", "custom"}

ASSUME ControllerAssumption ==
    /\ IsFiniteSet(Agents) /\ Agents # {}
    /\ \A r \in Runs : /\ r.plan \in Seq(Kinds) /\ Len(r.plan) >= 2
                      /\ r.policy \in BarrierTypes /\ r.known \subseteq Agents
    /\ MissedThreshold \in Nat \ {0}
    /\ MaxQueue \in Nat \ {0} /\ MaxFaults \in Nat

VARIABLES
    cfg,         \* the run
    \* --- agents, as far as the controller can notice
    pos,         \* pos[a]: YAML stage the agent is in
    pc,          \* pc[a]: exec, barrier, done, failed, hung, gone
    passed,      \* passed[a]: barriers released to the agent
    queue,       \* queue[a]: LiveStats under way
    \* --- run_distributed_workload
    step,        \* where the function is
    tracker,     \* tracker[a]: ControllerAgentState
    heard, completed,  \* aggregator: agents with statistics, with the completed flag
    last_stage,  \* stage of the message handled last
    barrier,     \* barrier[k]: ready_agents and released
    summaries,   \* stage summaries collected, per stage
    finals,      \* agents whose final_summary was collected
    manager,     \* BarrierManager: ready, failed, missed, and the query under way
    \* --- what is left behind
    files,       \* result files written
    verdict,     \* STATUS.txt
    containers,  \* deployed agent containers are running
    faults       \* faults so far

agentVars  == <<pos, pc, passed, queue>>
trackVars  == <<tracker, heard, completed, last_stage>>
resultVars == <<barrier, summaries, finals>>
endVars    == <<files, verdict, containers>>
cvars == <<cfg, agentVars, step, trackVars, resultVars, manager, endVars, faults>>

Stages == UNION {DOMAIN r.plan : r \in Runs}
NumStages == Len(cfg.plan)

\* LiveStats as far as the controller reads it: status, current_stage (barrier
\* reports and READY carry none), the barrier reported and the stage summary.
\* "lost" is the ERROR a forwarder makes up for a broken stream; unlike the
\* agent's own it has the completed flag set.
Message == [status : {"ready", "running", "error", "lost", "completed"},
            stage : Kinds \cup {"unknown"}, at : Stages \cup {0}, sum : BOOLEAN]

Stats(status, kind, k, sum) == [status |-> status, stage |-> kind, at |-> k, sum |-> sum]

ControllerAgentState ==
    {"Connecting", "Validating", "Ready", "Preparing", "Running", "Cleaning",
     "Completed", "Failed", "Disconnected", "Aborting"}

\* Variant: an agent that cleans up does not complete
CanTrackStrict(from, to) ==
    \/ <<from, to>> \in {<<"Connecting", "Validating">>, <<"Validating", "Ready">>,
         <<"Ready", "Preparing">>, <<"Ready", "Running">>, <<"Preparing", "Running">>,
         <<"Running", "Cleaning">>, <<"Running", "Completed">>}
    \/ to \in {"Failed", "Disconnected", "Aborting"}

\* ControllerAgentState::can_transition
CanTrack(from, to) ==
    \/ <<from, to>> \in {<<"Connecting", "Validating">>, <<"Validating", "Ready">>,
         <<"Validating", "Failed">>, <<"Ready", "Preparing">>, <<"Ready", "Running">>,
         <<"Preparing", "Running">>, <<"Running", "Cleaning">>}
    \/ to = "Completed" /\ from \in {"Running", "Cleaning", "Aborting", "Disconnected", "Completed"}
    \/ to = "Failed" /\ from \in {"Preparing", "Running", "Cleaning", "Aborting", "Disconnected", "Failed"}
    \/ to = "Disconnected" /\ from \notin {"Completed", "Failed"}
    \/ to = "Aborting" /\ from \in {"Ready", "Preparing", "Running", "Cleaning"}
    \/ from = "Disconnected" /\ to \in {"Preparing", "Running", "Cleaning"}

\* AgentTracker::transition_to: an invalid transition is an error and no change
Tracked(from, to) == IF CanTrack(from, to) THEN to ELSE from

\* check_barrier
CheckBarrier(policy, ready, failed, total) ==
    LET alive == total - failed IN
    CASE policy = "AllOrNothing" ->
           IF failed > 0 THEN "Failed" ELSE IF ready = alive THEN "Ready" ELSE "Waiting"
      [] policy = "Majority" ->
           IF alive <= total \div 2 THEN "Failed"
           ELSE IF ready = alive /\ failed = 0 THEN "Ready"
           ELSE IF ready > total \div 2 THEN "Degraded"
           ELSE IF alive - ready < total \div 2 + 1 - ready THEN "Failed" ELSE "Waiting"
      [] policy = "BestEffort" ->
           IF alive = 0 THEN "Failed"
           ELSE IF ready = alive /\ failed = 0 THEN "Ready"
           ELSE IF ready > 0 THEN "Degraded" ELSE "Waiting"

NewManager == [ready |-> {}, failed |-> {}, missed |-> [a \in Agents |-> 0],
               asked |-> {}]

\* Everything keeps its type.
ControllerTypeOK ==
    /\ cfg \in Runs
    /\ pos \in [Agents -> Stages]
    /\ pc \in [Agents -> {"exec", "barrier", "done", "failed", "hung", "gone"}]
    /\ passed \in [Agents -> Stages \cup {0}]
    /\ \A a \in Agents : queue[a] \in Seq(Message)
    /\ step \in {"deploy", "connect", "validate", "startup", "main", "wait", "goodbye", "results",
                 "status", "stop", "returned", "bailed"}
    /\ tracker \in [Agents -> ControllerAgentState]
    /\ heard \subseteq Agents /\ completed \subseteq heard
    /\ last_stage \in Kinds \cup {"unknown"}
    /\ barrier \in [Stages -> [ready : SUBSET Agents, released : BOOLEAN]]
    /\ summaries \in [Stages -> SUBSET Agents]
    /\ finals \subseteq Agents
    /\ manager \in [ready : SUBSET Agents, failed : SUBSET Agents,
                    missed : [Agents -> 0 .. MissedThreshold], asked : SUBSET Agents]
    /\ files \subseteq {"stageTsv", "partial", "results", "ledger"}
    /\ verdict \in {"none", "success", "failure"}
    /\ containers \in BOOLEAN
    /\ faults \in 0 .. MaxFaults

ControllerInit ==
    /\ cfg \in Runs
    /\ pos = [a \in Agents |-> 1] /\ pc = [a \in Agents |-> "exec"]
    /\ passed = [a \in Agents |-> 0] /\ queue = [a \in Agents |-> <<>>]
    /\ step = "deploy"
    /\ tracker = [a \in Agents |-> "Connecting"]
    /\ heard = {} /\ completed = {} /\ last_stage = "unknown"
    /\ barrier = [k \in Stages |-> [ready |-> {}, released |-> FALSE]]
    /\ summaries = [k \in Stages |-> {}] /\ finals = {}
    /\ manager = NewManager
    /\ files = {} /\ verdict = "none" /\ containers = FALSE /\ faults = 0
-----------------------------------------------------------------------------
(***************************************************************************)
(* The agents                                                              *)
(***************************************************************************)

Streaming == step \in {"startup", "main", "wait"}

\* The stats writer sends RUNNING once it has seen a stage execute after the
\* first barrier, READY before; see StageBarrier
Writing(a) == pos[a] > 1

Post(a, m) == queue' = [queue EXCEPT ![a] = Append(@, m)]

\* The statistics of every second: READY at the first barrier, RUNNING later,
\* with the kind of the stage that was started last
SendStats(a) ==
    /\ Streaming /\ Len(queue[a]) < MaxQueue
    /\ pc[a] = "barrier" \/ (pc[a] = "exec" /\ Writing(a))
    /\ Post(a, IF Writing(a) THEN Stats("running", cfg.plan[pos[a]], 0, FALSE)
                             ELSE Stats("ready", "unknown", 1, FALSE))
    /\ UNCHANGED <<cfg, pos, pc, passed, step, trackVars, resultVars, manager, endVars, faults>>

\* A stage ends; the report carries its summary
EndStage(a) ==
    /\ Streaming
    /\ pc[a] = "exec"
    /\ pc' = [pc EXCEPT ![a] = "barrier"]
    /\ Post(a, Stats("running", "unknown", pos[a], TRUE))
    /\ UNCHANGED <<cfg, pos, passed, step, trackVars, resultVars, manager, endVars, faults>>

\* The release of its barrier lets the agent into the next stage, or complete
PassBarrier(a) ==
    /\ Streaming
    /\ pc[a] = "barrier" /\ passed[a] = pos[a]
    /\ \/ /\ pos[a] < NumStages
          /\ pos' = [pos EXCEPT ![a] = @ + 1] /\ pc' = [pc EXCEPT ![a] = "exec"]
          /\ UNCHANGED queue
       \/ /\ pos[a] = NumStages
          /\ pc' = [pc EXCEPT ![a] = "done"]
          /\ Post(a, Stats("completed", cfg.plan[pos[a]], 0, FALSE))
          /\ UNCHANGED pos
    /\ UNCHANGED <<cfg, passed, step, trackVars, resultVars, manager, endVars, faults>>

\* The agent is out; what the controller gets to know of it, if anything
Out(a, to, report) ==
    /\ pc' = [pc EXCEPT ![a] = to]
    /\ IF report = "none" THEN UNCHANGED queue ELSE Post(a, Stats(report, "unknown", 0, FALSE))
    /\ UNCHANGED <<cfg, pos, passed, step, trackVars, resultVars, manager, endVars>>

\* ERROR reaches the controller only from a writer in its statistics loop
OwnError(a) == IF Writing(a) THEN "error" ELSE "none"

\* A stage fails, the agent hangs, or its stream breaks, which the forwarder
\* reports once it has seen READY
Fault(a) ==
    /\ Streaming /\ faults < MaxFaults
    /\ faults' = faults + 1
    /\ \/ pc[a] = "exec" /\ Out(a, "failed", OwnError(a))
       \/ pc[a] = "exec" /\ Out(a, "hung", "none")
       \/ pc[a] = "exec" /\ ~Writing(a) /\ Out(a, "gone", "none")
       \/ pc[a] \in {"exec", "barrier"} /\ (Writing(a) \/ pc[a] = "barrier") /\ Out(a, "gone", "lost")

\* The stream of a hung agent breaks in the end (HTTP/2 keep-alive)
KeepAliveFails(a) ==
    /\ Streaming /\ pc[a] = "hung"
    /\ Out(a, "gone", IF Writing(a) THEN "lost" ELSE "none")
    /\ UNCHANGED faults

\* An agent whose barrier is not released gives up after its retries
GiveUp(a) ==
    /\ Streaming
    /\ pc[a] = "barrier" /\ passed[a] < pos[a]
    /\ faults > 0 \/ barrier[pos[a]].released
    /\ Out(a, "failed", OwnError(a))
    /\ UNCHANGED faults
-----------------------------------------------------------------------------
(***************************************************************************)
(* Up to the startup loop                                                  *)
(***************************************************************************)

To(s) == step' = s /\ UNCHANGED <<cfg, agentVars, trackVars, resultVars, manager, files, verdict>>

\* ssh_deploy::deploy_agents; a failure leaves at once
Deploy ==
    /\ step = "deploy"
    /\ \/ To("connect") /\ containers' = TRUE /\ UNCHANGED faults
       \/ /\ faults < MaxFaults /\ faults' = faults + 1
          /\ To("bailed") /\ UNCHANGED containers

\* A connection to every agent and the version check by ping
ConnectAll ==
    /\ step = "connect"
    /\ UNCHANGED containers
    /\ \/ To("validate") /\ UNCHANGED faults
       \/ To("bailed") /\ faults < MaxFaults /\ faults' = faults + 1

\* Distributed config, run_preflight_validation on every agent in turn, and the
\* concurrency of every agent: the first failure leaves, then START is sent
Validate ==
    /\ step = "validate"
    /\ UNCHANGED containers
    /\ \/ To("startup") /\ UNCHANGED faults
       \/ To("bailed") /\ faults < MaxFaults /\ faults' = faults + 1

\* abort_all_agents: the trackers it looks up are keyed by address
Aborted(trackers) ==
    [a \in Agents |->
       IF a \in cfg.known /\ trackers[a] \in {"Ready", "Preparing", "Running"}
       THEN Tracked(trackers[a], "Aborting") ELSE trackers[a]]

\* Leave with an error after aborting everybody; deployed containers stay
Bail ==
    /\ pc' = [a \in Agents |-> IF pc[a] \in {"exec", "barrier", "hung"} THEN "failed" ELSE pc[a]]
    /\ step' = "bailed"
    /\ UNCHANGED <<cfg, pos, passed, heard, completed, last_stage, resultVars, containers>>

\* 'startup: whatever the status, READY, a barrier report or statistics make the
\* agent Ready; an ERROR makes it Failed only from Validating
StartupState(s, m) ==
    LET validating == IF s = "Connecting" THEN Tracked(s, "Validating") ELSE s IN
    CASE m.status = "ready" -> Tracked(validating, "Ready")
      [] m.status \in {"error", "lost"} -> Tracked(validating, "Failed")
      [] OTHER -> IF validating \in {"Completed", "Failed", "Ready"} THEN validating
                  ELSE Tracked(validating, "Ready")

Startup(a) ==
    /\ step = "startup" /\ queue[a] # <<>>
    /\ queue' = [queue EXCEPT ![a] = Tail(@)]
    /\ tracker' = [tracker EXCEPT ![a] = StartupState(@, Head(queue[a]))]
    /\ LET responded == {b \in Agents : tracker'[b] \in {"Ready", "Failed"}} IN
       step' = IF responded = Agents /\ \A b \in Agents : tracker'[b] = "Ready"
               THEN "main" ELSE "startup"
    /\ UNCHANGED <<cfg, pos, pc, passed, heard, completed, last_stage, resultVars, manager,
                   endVars, faults>>

\* Everybody has responded and somebody has failed, or the deadline passes
StartupEnds ==
    /\ step = "startup"
    /\ \/ \A b \in Agents : tracker[b] \in {"Ready", "Failed"}
       \/ faults > 0
    /\ Bail /\ tracker' = Aborted(tracker)
    /\ UNCHANGED <<queue, manager, files, verdict, faults>>

\* SIGINT or SIGTERM in either loop; the main loop's handler also stops the
\* deployed containers
Signal ==
    /\ step \in {"startup", "main"} /\ faults < MaxFaults
    /\ faults' = faults + 1
    /\ pc' = [a \in Agents |-> IF pc[a] \in {"exec", "barrier", "hung"} THEN "failed" ELSE pc[a]]
    /\ tracker' = Aborted(tracker)
    /\ step' = "bailed"
    /\ containers' = (containers /\ step = "startup")
    /\ UNCHANGED <<cfg, pos, passed, queue, heard, completed, last_stage, resultVars, manager,
                   files, verdict>>
-----------------------------------------------------------------------------
(***************************************************************************)
(* The main loop                                                           *)
(***************************************************************************)

\* process_heartbeat: known only under the key the manager was built with
Heartbeat(mgr, a, arrived) ==
    IF a \notin cfg.known THEN mgr
    ELSE [mgr EXCEPT !.missed[a] = 0, !.asked = @ \ {a},
                     !.ready = IF arrived THEN @ \cup {a} ELSE @]

\* Variant: the first report releases the barrier for everybody
AtBarrierFirst(a, k) ==
    /\ barrier' = [barrier EXCEPT ![k] = [ready |-> @.ready \cup {a}, released |-> TRUE]]
    /\ passed' = [b \in Agents |-> IF passed[b] > k THEN passed[b] ELSE k]

\* agent_at_barrier, check_barrier_ready, RELEASE_BARRIER, clear_barrier
AtBarrier(a, k) ==
    LET ready == barrier[k].ready \cup {a}
        release == /\ ~barrier[k].released
                   /\ CanRelease(cfg.policy, Cardinality(ready), Cardinality(Agents),
                                 Cardinality(manager.failed))
    IN  /\ barrier' = [barrier EXCEPT ![k] = [ready |-> ready, released |-> @.released \/ release]]
        /\ passed' = IF release THEN [b \in Agents |-> IF b \in ready THEN k ELSE passed[b]]
                     ELSE passed

\* The stage summary of a report; the file is written when everyone's is there
Summarise(a, m) ==
    /\ summaries' = IF m.sum THEN [summaries EXCEPT ![m.at] = @ \cup {a}] ELSE summaries
    /\ files' = IF m.sum /\ summaries'[m.at] = Agents THEN files \cup {"stageTsv"} ELSE files

\* Variant: the end of a stage is taken for the end of the workload
RecoverAtBarrier(a, m) ==
    IF tracker[a] # "Disconnected" THEN tracker[a] ELSE IF m.at # 0 THEN "Completed" ELSE "Running"

\* Recovery of a Disconnected agent from the stage its message reports
Recover(a, m) ==
    IF tracker[a] # "Disconnected" THEN tracker[a]
    ELSE Tracked("Disconnected",
           CASE m.status \in {"completed", "lost"} -> "Completed"
             [] m.status = "running" /\ m.stage = "prepare" -> "Preparing"
             [] m.status = "running" /\ m.stage = "cleanup" -> "Cleaning"
             [] OTHER -> "Running")

\* The tracker follows the stage
FollowStage(s, kind) ==
    CASE kind = "prepare" /\ s = "Ready" -> Tracked(s, "Preparing")
      [] kind = "execute" /\ s \in {"Ready", "Preparing"} -> Tracked(s, "Running")
      [] kind = "cleanup" /\ s = "Running" -> Tracked(s, "Cleaning")
      [] OTHER -> s

\* The first statistics of an execute stage after those of a prepare stage
PhaseSwitches(m) == last_stage = "prepare" /\ m.stage = "execute"

\* The aggregator after READY or RUNNING; a switch of phase forgets the others
Update(a, m) ==
    /\ heard' = (IF PhaseSwitches(m) THEN {} ELSE heard) \cup {a}
    /\ completed' = IF PhaseSwitches(m) THEN {} ELSE completed \ {a}

\* mark_completed: only an agent the aggregator knows
MarkCompleted(a, m) ==
    /\ heard' = IF PhaseSwitches(m) THEN {} ELSE heard
    /\ completed' = (IF PhaseSwitches(m) THEN {} ELSE completed) \cup ({a} \cap heard')

AllCompleted == heard' # {} /\ heard' \subseteq completed'

\* A message in the main loop that is not an ERROR.  After a switch of phase
\* the loop waits for the phase barrier before it goes on.
Progress(a) ==
    /\ step = "main" /\ queue[a] # <<>>
    /\ LET m == Head(queue[a]) IN
       /\ m.status \notin {"error", "lost"}
       /\ queue' = [queue EXCEPT ![a] = Tail(@)]
       /\ manager' = Heartbeat(manager, a, m.at # 0 \/ m.status = "completed")
       /\ IF m.at # 0 THEN AtBarrier(a, m.at) ELSE UNCHANGED <<barrier, passed>>
       /\ Summarise(a, m)
       /\ last_stage' = m.stage
       /\ IF m.status = "completed"
            THEN /\ MarkCompleted(a, m)
                 /\ finals' = finals \cup {a}
                 /\ tracker' = [tracker EXCEPT ![a] = Tracked(FollowStage(Recover(a, m), m.stage),
                                                              "Completed")]
            ELSE /\ Update(a, m)
                 /\ tracker' = [tracker EXCEPT ![a] = FollowStage(Recover(a, m), m.stage)]
                 /\ UNCHANGED finals
       /\ step' = IF PhaseSwitches(m) THEN "wait" ELSE IF AllCompleted THEN "goodbye" ELSE "main"
    /\ UNCHANGED <<cfg, pos, pc, verdict, containers, faults>>

\* A Disconnected agent is recovered before it is Failed; from the Completed of a
\* lost stream that is not a valid transition any more
ErrorState(a, m) == Tracked(Recover(a, m), "Failed")

\* Variant: an agent that never failed counts as successful
TestStatusLenient(trackers) ==
    IF \A a \in Agents : trackers[a] \notin {"Failed", "Aborting", "Disconnected"}
    THEN "success" ELSE "failure"

\* check_test_status counts the trackers whose key has no colon
TestStatus(trackers) ==
    LET counted == Agents \ cfg.known IN
    IF counted # {} /\ \A a \in counted : trackers[a] = "Completed"
    THEN "success" ELSE "failure"

\* Variant: an ERROR only marks the agent
ErrorReceivedMarks(a) ==
    /\ step = "main" /\ queue[a] # <<>> /\ Head(queue[a]).status \in {"error", "lost"}
    /\ queue' = [queue EXCEPT ![a] = Tail(@)]
    /\ tracker' = [tracker EXCEPT ![a] = ErrorState(a, Head(queue[a]))]
    /\ UNCHANGED <<cfg, pos, pc, passed, step, heard, completed, last_stage, resultVars, manager,
                   endVars, faults>>

\* An ERROR ends the run: STATUS.txt is written, everybody aborted
ErrorReceived(a) ==
    /\ step = "main" /\ queue[a] # <<>> /\ Head(queue[a]).status \in {"error", "lost"}
    /\ LET after == [tracker EXCEPT ![a] = ErrorState(a, Head(queue[a]))] IN
       /\ verdict' = TestStatus(after)
       /\ tracker' = Aborted(after)
    /\ queue' = [queue EXCEPT ![a] = Tail(@)]
    /\ files' = files \cup {"partial"}
    /\ Bail
    /\ UNCHANGED <<manager, faults>>

\* 600 s without a message from an agent that is Preparing or Running
Stalled(a) ==
    /\ step = "main" /\ queue[a] = <<>>
    /\ tracker[a] \in {"Preparing", "Running"}
    /\ pc[a] = "hung" \/ faults < MaxFaults
    /\ faults' = IF pc[a] = "hung" THEN faults ELSE faults + 1
    /\ tracker' = [tracker EXCEPT ![a] = Tracked(@, "Disconnected")]
    /\ UNCHANGED <<cfg, agentVars, step, heard, completed, last_stage, resultVars, manager, endVars>>
-----------------------------------------------------------------------------
(***************************************************************************)
(* The phase barrier (wait_for_barrier), inside the main loop              *)
(***************************************************************************)

Status == CheckBarrier(cfg.policy, Cardinality(manager.ready), Cardinality(manager.failed),
                       Cardinality(Agents))

WaitUnchanged == UNCHANGED <<cfg, agentVars, trackVars, resultVars, endVars, faults>>

\* The barrier is met: the loop goes on (and looks for the end of the run)
BarrierMet ==
    /\ step = "wait" /\ manager.asked = {} /\ Status \in {"Ready", "Degraded"}
    /\ step' = IF heard # {} /\ heard \subseteq completed THEN "goodbye" ELSE "main"
    /\ UNCHANGED manager /\ WaitUnchanged

\* It cannot be met any more, or agent_barrier_timeout passes (reset_barrier_state)
BarrierMissed ==
    /\ step = "wait" /\ manager.asked = {}
    /\ \/ Status = "Failed" /\ UNCHANGED manager
       \/ Status = "Waiting" /\ manager' = NewManager
    /\ Bail /\ tracker' = Aborted(tracker)
    /\ UNCHANGED <<queue, files, verdict, faults>>

\* check_liveness: one more heartbeat missed by the agents not heard of lately;
\* those at the threshold are queried
CheckLiveness ==
    /\ step = "wait" /\ manager.asked = {} /\ Status = "Waiting"
    /\ \E late \in SUBSET (Agents \ manager.failed) \ {{}} :
         LET missed == [a \in Agents |-> IF a \in late THEN manager.missed[a] + 1
                                         ELSE manager.missed[a]] IN
         manager' = [manager EXCEPT !.missed = missed,
                       !.asked = {a \in late : missed[a] = MissedThreshold}]
    /\ UNCHANGED step /\ WaitUnchanged

\* query_agent_with_retry, one agent after the other: an answer is a heartbeat;
\* without a client for the key, or when every attempt fails, the agent is failed
Query(a) ==
    /\ step = "wait" /\ a \in manager.asked
    /\ manager' = IF a \in cfg.known /\ pc[a] \notin {"hung", "gone"}
                  THEN Heartbeat(manager, a, pc[a] \in {"barrier", "done"})
                  ELSE [manager EXCEPT !.asked = @ \ {a}, !.failed = @ \cup {a}]
    /\ UNCHANGED step /\ WaitUnchanged
-----------------------------------------------------------------------------
(***************************************************************************)
(* After the main loop                                                     *)
(***************************************************************************)

End(from, to) ==
    /\ step = from /\ step' = to
    /\ UNCHANGED <<cfg, agentVars, trackVars, resultVars, manager, faults>>

\* GOODBYE to everyone; with YAML stages there is no execute barrier after it
Goodbye == End("goodbye", "results") /\ UNCHANGED endVars

\* Perf logs are flushed, per-stage files are there already, the results
\* directory is finalized and the populate ledger appended
WriteResults ==
    /\ End("results", "status")
    /\ files' = files \cup {"results"} \cup 
                       (IF finals # {} /\ \E k \in 1 .. NumStages : cfg.plan[k] = "prepare"
                        THEN {"ledger"} ELSE {})
    /\ UNCHANGED <<verdict, containers>>

\* STATUS.txt after a run that came to its end
CheckTestStatus ==
    /\ End("status", "stop")
    /\ verdict' = TestStatus(tracker)
    /\ UNCHANGED <<files, containers>>

\* The analysis is run and the deployed containers are stopped; Ok whatever
\* the verdict
Finish ==
    /\ End("stop", "returned")
    /\ containers' = FALSE
    /\ UNCHANGED <<files, verdict>>
-----------------------------------------------------------------------------
AgentNext(a) == SendStats(a) \/ EndStage(a) \/ PassBarrier(a) \/ GiveUp(a)

ControllerStep ==
    \/ Deploy \/ ConnectAll \/ Validate \/ StartupEnds
    \/ \E a \in Agents : Startup(a) \/ Progress(a) \/ ErrorReceived(a)
    \/ BarrierMet \/ BarrierMissed \/ CheckLiveness
    \/ \E a \in Agents : Query(a)
    \/ Goodbye \/ WriteResults \/ CheckTestStatus \/ Finish

ControllerNext ==
    \/ ControllerStep
    \/ \E a \in Agents : AgentNext(a) \/ Fault(a) \/ Stalled(a) \/ KeepAliveFails(a)
    \/ Signal

\* The agents run on, every queue is served (recv picks no favourite for ever),
\* and the controller does not stop
ControllerFairness ==
    /\ WF_cvars(ControllerStep) /\ WF_cvars(BarrierMissed)
    /\ \A a \in Agents :
         /\ WF_cvars(AgentNext(a)) /\ WF_cvars(EndStage(a)) /\ WF_cvars(PassBarrier(a))
         /\ WF_cvars(GiveUp(a)) /\ WF_cvars(Startup(a))
         /\ SF_cvars(Progress(a)) /\ SF_cvars(ErrorReceived(a))

ControllerSpec == ControllerInit /\ [][ControllerNext]_cvars /\ ControllerFairness
-----------------------------------------------------------------------------
(***************************************************************************)
(* Properties                                                              *)
(***************************************************************************)

AllDone ==
    /\ \A a \in Agents : pc[a] = "done" /\ a \in finals
    /\ \A k \in 1 .. NumStages : barrier[k].released

\* SUCCESS at the end of a run means that every agent went through every stage
\* and said so, whatever was lost, stalled, recovered or forgotten by the
\* aggregator on the way (controller.rs:3652, 4189).
VerdictTruthful == verdict = "success" /\ step # "bailed" => AllDone

\* A tracker is never ahead of its agent while the run lasts: Cleaning means
\* that the agent has reached a cleanup stage, Completed that it is done, also
\* after a recovery from Disconnected (controller.rs:4189).
TrackerNotAhead ==
    step # "bailed" =>
    \A a \in Agents :
        /\ tracker[a] = "Completed" => pc[a] = "done"
        /\ tracker[a] = "Cleaning" => \E k \in 1 .. pos[a] : cfg.plan[k] = "cleanup"

\* When the wait for the prepare barrier lets the loop go on, enough agents
\* have really finished the prepare stage.
PhaseSynchronised ==
    [][BarrierMet =>
         LET prep == CHOOSE k \in 1 .. NumStages : cfg.plan[k] = "prepare"
             past == {a \in Agents : pos[a] > prep \/ (pos[a] = prep /\ pc[a] # "exec")} IN
         CanRelease(cfg.policy, Cardinality(past), Cardinality(Agents), 0)]_cvars

\* The startup loop ends, and a main loop that is entered before anything went
\* wrong ends too, whatever fails, hangs or is lost later and however the phase
\* barrier and its liveness queries turn out (controller.rs:2265).
ControllerReturns ==
    LET ended == step \in {"returned", "bailed"} IN
    /\ <>(step = "main" \/ ended)
    /\ [](step = "main" /\ faults = 0 => <>ended)

\* A run in which the controller sees every agent execute and nothing goes wrong
\* is a SUCCESS, unless it needs the phase barrier, which knows no agent by its id.
CleanRunSucceeds ==
    /\ cfg.known = {} /\ cfg.plan[1] = "prepare"
    /\ <>(\A a \in Agents : tracker[a] = "Running")
    => <>(faults > 0 \/ verdict = "success")
=============================================================================
