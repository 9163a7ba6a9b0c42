---------------------------- MODULE StageBarrier ----------------------------
(***************************************************************************)
(* A distributed run with YAML-driven stages: one controller, one set of   *)
(* agents, and the barrier after every stage.                              *)
(*                                                                         *)
(* Every agent runs three tasks that share one AgentState: the control     *)
(* reader (here Start, ForwardControl and Disconnect), the workflow        *)
(* (execute_stages_workflow) and the stats writer.  The controller runs    *)
(* one forwarder task per agent and one task that first collects READY     *)
(* from everyone (the startup loop) and then tracks barriers, summaries    *)
(* and completion (the main loop).                                         *)
(*                                                                         *)
(* Abstractions.  The gRPC stream, the forwarder and the controller's      *)
(* stats channel are one FIFO up[a] per agent; the forwarder's control     *)
(* direction and the agent's control reader are one step, ForwardControl.  *)
(* The periodic RUNNING statistics are not queued: CtlRunning is what the  *)
(* main loop does with one that reaches it while the writer is sending     *)
(* them.  Time is left out: a timer is an action, and what a timer needs   *)
(* to fire early is named in Adversity.                                    *)
(***************************************************************************)
EXTENDS Naturals, Sequences, FiniteSets, BarrierPolicy

CONSTANTS
    Agents,              \* the configured agents
    NumStages,           \* number of YAML stages; barrier k follows stage k+1
    BarrierType,         \* policy of the run, or NoBarrierManager
    MaxBarrierRetries,   \* max_barrier_retries, 5 in the code
    MaxWaitPolls,        \* MAX_WAIT_SECS of the stats writer, 60 in the code
    BroadcastCap,        \* capacity of the control broadcast, 64 in the code
    MaxInFlight,         \* bound: READY resends stop while this many messages queue
    Adversity            \* which of Conditions the environment may produce

\* What may go against the run.  An empty Adversity is the fair-weather run:
\* every stage outlasts the writer's one-second poll, START is handled before
\* the writer's first poll, and no timer, failure or signal interferes.
Conditions ==
    { "barrierTimeout",  \* agent_barrier_timeout passes before a release arrives
      "longWait",        \* the stats writer polls MaxWaitPolls times
      "slowStart",       \* START handling (validation) outlasts the first poll
      "slowStage",       \* stage 1 outlasts the ready and startup deadlines
      "fastStage",       \* a stage falls between two polls of the writer
      "lateSubscribe",   \* READY overtakes the workflow's barrier subscription
      "phaseSwitch",     \* an execute stage follows a prepare stage that is not the first
      "namedAgents",     \* agent ids are not the agents' addresses (the default)
      "stageFail", "reject", "streamLost", "crash", "signal" }

ASSUME ConstantsAssumption ==
    /\ IsFiniteSet(Agents)
    /\ Agents # {}
    /\ NumStages \in Nat \ {0}
    /\ BarrierType \in BarrierTypes \cup {NoBarrierManager}
    /\ MaxBarrierRetries \in Nat
    /\ MaxWaitPolls \in Nat \ {0}
    /\ BroadcastCap \in Nat \ {0}
    /\ MaxInFlight \in Nat \ {0}
    /\ Adversity \subseteq Conditions

Barriers == 0 .. (NumStages - 1)

\* LiveStats as far as the protocol reads it: the status, the barrier index of
\* an at_barrier message, and whether a stage_summary is attached.
Message == [kind : {"ready", "barrier", "completed", "error"},
            k : Barriers, sum : BOOLEAN]

Ready         == [kind |-> "ready", k |-> 0, sum |-> FALSE]
AtBarrier(k, sum) == [kind |-> "barrier", k |-> k, sum |-> sum]
Completed     == [kind |-> "completed", k |-> 0, sum |-> FALSE]
Error         == [kind |-> "error", k |-> 0, sum |-> FALSE]

VARIABLES
    \* --- agent
    wf,           \* wf[a]: program counter of the workflow task
    stage,        \* stage[a]: YAML stages the workflow has started
    finished,     \* finished[a]: YAML stages the workflow has finished
    state,        \* state[a]: the shared WorkloadState (see States)
    timeouts,     \* timeouts[a]: barrier_sequence of the current barrier wait
    barrier_rx,   \* barrier_rx[a]: releases queued for the waiting workflow
    writer,       \* writer[a]: program counter of the stats writer task
    polls,        \* polls[a]: wait_count of the stats writer
    \* --- channels
    up,           \* up[a]: LiveStats under way from a to the controller
    fwd,          \* fwd[a]: forwarder task of a: waiting for READY, run, gone
    bcast,        \* every RELEASE_BARRIER put on the control broadcast
    cursor,       \* cursor[a]: entries of bcast the forwarder of a is past
    \* --- controller
    ctl,          \* program counter of run_distributed_workload
    responded,    \* agents whose tracker is Ready in the startup loop
    ready_agents, \* ready_agents[k]: BarrierAgentState.ready_agents
    released,     \* barriers with BarrierAgentState.released set
    agg, comp,    \* agents known to / completed in the LiveStatsAggregator
    summaries     \* summaries[k]: agents whose stage_summary was collected

workflowVars   == <<wf, stage, finished, timeouts>>
writerVars     == <<writer, polls>>
controllerVars == <<responded, ready_agents, released, agg, comp, summaries>>
vars == <<wf, stage, finished, state, timeouts, barrier_rx, writer, polls,
          up, fwd, bcast, cursor, ctl, responded, ready_agents, released,
          agg, comp, summaries>>

\* WorkloadState.  Idle: no job yet.  Exec and AtBarrier: AtStage with
\* ready_for_next false and true.  Left: the agent was taken off the job
\* (Aborting, Failed, or Idle again), from where no stage transition is valid.
States == {"Idle", "Exec", "AtBarrier", "Completed", "Left"}

Terminal == {"finished", "closed", "aborted"}

TypeOK ==
    /\ wf \in [Agents -> {"idle", "next", "exec", "ready", "wait", "done", "failed"}]
    /\ stage \in [Agents -> 0 .. NumStages]
    /\ finished \in [Agents -> 0 .. NumStages]
    /\ state \in [Agents -> States]
    /\ timeouts \in [Agents -> 0 .. MaxBarrierRetries]
    /\ barrier_rx \in [Agents -> Seq(Barriers)]
    /\ writer \in [Agents -> {"poll", "ready", "run", "exit"}]
    /\ polls \in [Agents -> 0 .. MaxWaitPolls]
    /\ up \in [Agents -> Seq(Message)]
    /\ fwd \in [Agents -> {"wait", "run", "gone"}]
    /\ bcast \in Seq([agent : Agents, barrier : Barriers])
    /\ cursor \in [Agents -> Nat]
    /\ ctl \in {"startup", "main"} \cup Terminal
    /\ responded \in SUBSET Agents
    /\ ready_agents \in [Barriers -> SUBSET Agents]
    /\ released \in SUBSET Barriers
    /\ agg \in SUBSET Agents
    /\ comp \in SUBSET Agents
    /\ summaries \in [Barriers -> Seq(Agents)]

Init ==
    /\ wf = [a \in Agents |-> "idle"]
    /\ stage = [a \in Agents |-> 0]
    /\ finished = [a \in Agents |-> 0]
    /\ state = [a \in Agents |-> "Idle"]
    /\ timeouts = [a \in Agents |-> 0]
    /\ barrier_rx = [a \in Agents |-> <<>>]
    /\ writer = [a \in Agents |-> "poll"]
    /\ polls = [a \in Agents |-> 0]
    /\ up = [a \in Agents |-> <<>>]
    /\ fwd = [a \in Agents |-> "wait"]
    /\ bcast = <<>>
    /\ cursor = [a \in Agents |-> 0]
    /\ ctl = "startup"
    /\ responded = {}
    /\ ready_agents = [k \in Barriers |-> {}]
    /\ released = {}
    /\ agg = {}
    /\ comp = {}
    /\ summaries = [k \in Barriers |-> <<>>]
-----------------------------------------------------------------------------
(***************************************************************************)
(* The agent's control reader and workflow                                 *)
(***************************************************************************)

\* tx_stats.send: lost once the stream or the controller's channel is gone
Send(a, m) ==
    up' = IF fwd[a] # "gone" /\ ctl \notin Terminal
            THEN [up EXCEPT ![a] = Append(@, m)] ELSE up

Moves(a, from, to) == wf[a] = from /\ wf' = [wf EXCEPT ![a] = to]

\* START from Idle: the config is accepted, AtStage{0, preflight, executing}
\* is entered and the workflow task is spawned.
Start(a) ==
    /\ fwd[a] # "gone"
    /\ state[a] = "Idle"
    /\ Moves(a, "idle", "next")
    /\ state' = [state EXCEPT ![a] = "Exec"]
    /\ UNCHANGED <<stage, finished, timeouts, barrier_rx, writerVars, up, fwd,
                   bcast, cursor, ctl, controllerVars>>

\* START refused (YAML, prefix, validation, stages, op-log).  The state stays
\* Idle, the reader returns and the stream ends; an ERROR sent before READY
\* ends the forwarder as well, with an error nobody reads.
StartRejected(a) ==
    /\ "reject" \in Adversity
    /\ fwd[a] # "gone"
    /\ wf[a] = "idle"
    /\ writer' = [writer EXCEPT ![a] = "exit"]
    /\ fwd' = [fwd EXCEPT ![a] = "gone"]
    /\ UNCHANGED <<workflowVars, state, barrier_rx, polls, up, bcast, cursor,
                   ctl, controllerVars>>

\* Top of the stage loop: AtStage{i, executing} is a valid transition only
\* from preflight (before stage 1) or from the barrier of the stage before.
StartStage(a) ==
    /\ stage[a] < NumStages
    /\ \/ /\ state[a] = "AtBarrier" \/ (state[a] = "Exec" /\ stage[a] = 0)
          /\ Moves(a, "next", "exec")
          /\ stage' = [stage EXCEPT ![a] = @ + 1]
          /\ state' = [state EXCEPT ![a] = "Exec"]
       \/ /\ state[a] = "Left"
          /\ Moves(a, "next", "failed")
          /\ UNCHANGED <<stage, state>>
    /\ UNCHANGED <<finished, timeouts, barrier_rx, writerVars, up, fwd, bcast,
                   cursor, ctl, controllerVars>>

\* The stage's work is done: AtStage{i, ready_for_next}.  Without "fastStage"
\* the writer's poll sees every stage after the first while it executes.
FinishStage(a) ==
    /\ \/ /\ state[a] = "Exec"
          /\ "fastStage" \in Adversity \/ stage[a] = 1 \/ writer[a] # "ready"
          /\ Moves(a, "exec", "ready")
          /\ state' = [state EXCEPT ![a] = "AtBarrier"]
          /\ finished' = [finished EXCEPT ![a] = @ + 1]
       \/ /\ state[a] = "Left"
          /\ Moves(a, "exec", "failed")
          /\ UNCHANGED <<finished, state>>
    /\ UNCHANGED <<stage, timeouts, barrier_rx, writerVars, up, fwd, bcast,
                   cursor, ctl, controllerVars>>

\* The stage's work fails: the workflow returns Err, the state is not touched
FailStage(a) ==
    /\ "stageFail" \in Adversity
    /\ Moves(a, "exec", "failed")
    /\ UNCHANGED <<stage, finished, state, timeouts, barrier_rx, writerVars, up,
                   fwd, bcast, cursor, ctl, controllerVars>>

\* Subscribe to releases, then report the barrier with the stage summary
EnterBarrier(a) ==
    /\ Moves(a, "ready", "wait")
    /\ timeouts' = [timeouts EXCEPT ![a] = 0]
    /\ barrier_rx' = [barrier_rx EXCEPT ![a] = <<>>]
    /\ Send(a, AtBarrier(stage[a] - 1, TRUE))
    /\ UNCHANGED <<stage, finished, state, writerVars, fwd, bcast, cursor, ctl,
                   controllerVars>>

\* Variant: > for >= in the comparison of sequences
AcceptsLaterOnly(a, k) == k = stage[a] - 1 /\ k > timeouts[a]

\* The release carries its barrier index as sequence too, so after n timeouts
\* only a barrier with index >= n is accepted.
Accepts(a, k) == k = stage[a] - 1 /\ k >= timeouts[a]

RecvRelease(a) ==
    /\ wf[a] = "wait"
    /\ barrier_rx[a] # <<>>
    /\ barrier_rx' = [barrier_rx EXCEPT ![a] = Tail(@)]
    /\ wf' = [wf EXCEPT ![a] = IF Accepts(a, Head(barrier_rx[a])) THEN "next" ELSE @]
    /\ UNCHANGED <<stage, finished, state, timeouts, writerVars, up, fwd, bcast,
                   cursor, ctl, controllerVars>>

\* Variant: one retry too many
BarrierTimeoutExtraRetry(a) ==
    /\ "barrierTimeout" \in Adversity
    /\ barrier_rx[a] = <<>>
    /\ Moves(a, "wait", IF timeouts[a] <= MaxBarrierRetries THEN "wait" ELSE "failed")
    /\ timeouts' = [timeouts EXCEPT ![a] = @ + 1]
    /\ Send(a, AtBarrier(stage[a] - 1, FALSE))
    /\ UNCHANGED <<stage, finished, state, barrier_rx, writerVars, fwd, bcast,
                   cursor, ctl, controllerVars>>

\* Variant: the summary is attached to the repeated reports too
BarrierTimeoutWithSummary(a) ==
    /\ "barrierTimeout" \in Adversity
    /\ barrier_rx[a] = <<>>
    /\ timeouts[a] < MaxBarrierRetries
    /\ Moves(a, "wait", "wait")
    /\ timeouts' = [timeouts EXCEPT ![a] = @ + 1]
    /\ Send(a, AtBarrier(stage[a] - 1, TRUE))
    /\ UNCHANGED <<stage, finished, state, barrier_rx, writerVars, fwd, bcast,
                   cursor, ctl, controllerVars>>

\* agent_barrier_timeout: report again without the summary, or give up
BarrierTimeout(a) ==
    /\ "barrierTimeout" \in Adversity
    /\ barrier_rx[a] = <<>>
    /\ \/ /\ timeouts[a] < MaxBarrierRetries
          /\ Moves(a, "wait", "wait")
          /\ timeouts' = [timeouts EXCEPT ![a] = @ + 1]
          /\ Send(a, AtBarrier(stage[a] - 1, FALSE))
       \/ /\ timeouts[a] = MaxBarrierRetries
          /\ Moves(a, "wait", "failed")
          /\ UNCHANGED <<timeouts, up>>
    /\ UNCHANGED <<stage, finished, state, barrier_rx, writerVars, fwd, bcast,
                   cursor, ctl, controllerVars>>

\* After the last barrier: Completed if that transition is still valid, and
\* Ok on tx_done in either case.
CompleteStages(a) ==
    /\ stage[a] = NumStages
    /\ Moves(a, "next", "done")
    /\ state' = [state EXCEPT ![a] = IF @ = "AtBarrier" THEN "Completed" ELSE @]
    /\ UNCHANGED <<stage, finished, timeouts, barrier_rx, writerVars, up, fwd,
                   bcast, cursor, ctl, controllerVars>>

Workflow(a) ==
    \/ StartStage(a) \/ FinishStage(a) \/ EnterBarrier(a) \/ RecvRelease(a)
    \/ BarrierTimeout(a) \/ CompleteStages(a)
-----------------------------------------------------------------------------
(***************************************************************************)
(* The agent's stats writer                                                *)
(***************************************************************************)

WriterTo(a, from, to) == writer[a] = from /\ writer' = [writer EXCEPT ![a] = to]

\* Variant: ready_for_next is not looked at
WriterPollAnyStage(a) ==
    /\ state[a] \in {"Exec", "AtBarrier"}
    /\ WriterTo(a, "poll", "ready")
    /\ Send(a, Ready)
    /\ UNCHANGED <<workflowVars, state, barrier_rx, polls, fwd, bcast, cursor,
                   ctl, controllerVars>>

\* The 100 ms poll before READY.  It sees Idle only when START is slow, and
\* the gap between AtStage{ready} and the subscription only with lateSubscribe.
WriterPoll(a) ==
    /\ \/ /\ state[a] = "AtBarrier"
          /\ "lateSubscribe" \in Adversity \/ wf[a] # "ready"
          /\ WriterTo(a, "poll", "ready")
          /\ Send(a, Ready)
       \/ /\ state[a] = "Left" \/ (state[a] = "Idle" /\ "slowStart" \in Adversity)
          /\ WriterTo(a, "poll", "exit")
          /\ UNCHANGED up
    /\ UNCHANGED <<workflowVars, state, barrier_rx, polls, fwd, bcast, cursor,
                   ctl, controllerVars>>

\* The one-second loop after READY: READY is sent again, then the state is
\* looked at.  Completed is not one of the states that end the loop.
WriterResend(a) ==
    /\ Len(up[a]) < MaxInFlight
    /\ Send(a, Ready)
    /\ polls' = [polls EXCEPT ![a] =
                   IF "longWait" \in Adversity THEN @ + 1 ELSE @]
    /\ \/ /\ state[a] = "Exec"
          /\ WriterTo(a, "ready", "run")
       \/ /\ state[a] = "Left" \/ (state[a] # "Exec" /\ polls'[a] = MaxWaitPolls)
          /\ WriterTo(a, "ready", "exit")
       \/ /\ state[a] \in {"AtBarrier", "Completed"}
          /\ polls'[a] < MaxWaitPolls
          /\ WriterTo(a, "ready", "ready")
    /\ UNCHANGED <<workflowVars, state, barrier_rx, fwd, bcast, cursor, ctl,
                   controllerVars>>

\* Variant: a failed workflow is reported as COMPLETED
WriterDoneAlwaysCompleted(a) ==
    /\ WriterTo(a, "run", "exit")
    /\ wf[a] \in {"done", "failed"}
    /\ Send(a, Completed)
    /\ state' = [state EXCEPT ![a] = "Left"]
    /\ UNCHANGED <<workflowVars, barrier_rx, polls, fwd, bcast, cursor, ctl,
                   controllerVars>>

\* Variant: a failed workflow ends the writer without an ERROR
WriterDoneSilent(a) ==
    /\ WriterTo(a, "run", "exit")
    /\ \/ wf[a] = "done" /\ Send(a, Completed)
       \/ wf[a] = "failed" /\ UNCHANGED up
    /\ state' = [state EXCEPT ![a] = "Left"]
    /\ UNCHANGED <<workflowVars, barrier_rx, polls, fwd, bcast, cursor, ctl,
                   controllerVars>>

\* tx_done is read only by the statistics loop: COMPLETED, then back to Idle;
\* or ERROR, then Failed and Idle.
WriterDone(a) ==
    /\ WriterTo(a, "run", "exit")
    /\ \/ wf[a] = "done" /\ Send(a, Completed)
       \/ wf[a] = "failed" /\ Send(a, Error)
    /\ state' = [state EXCEPT ![a] = "Left"]
    /\ UNCHANGED <<workflowVars, barrier_rx, polls, fwd, bcast, cursor, ctl,
                   controllerVars>>

Writer(a) == WriterPoll(a) \/ WriterResend(a) \/ WriterDone(a)
-----------------------------------------------------------------------------
(***************************************************************************)
(* The forwarder of an agent                                               *)
(***************************************************************************)

\* Take the next control message off the broadcast.  A receiver more than the
\* capacity behind loses the oldest ones.  A release for this agent reaches
\* the workflow only while it is subscribed.
ForwardControl(a) ==
    /\ fwd[a] = "run"
    /\ ctl \notin Terminal
    /\ cursor[a] < Len(bcast)
    /\ \/ /\ Len(bcast) - cursor[a] > BroadcastCap
          /\ cursor' = [cursor EXCEPT ![a] = Len(bcast) - BroadcastCap]
          /\ UNCHANGED barrier_rx
       \/ /\ Len(bcast) - cursor[a] <= BroadcastCap
          /\ cursor' = [cursor EXCEPT ![a] = @ + 1]
          /\ barrier_rx' =
               IF bcast[cursor[a] + 1].agent = a /\ wf[a] = "wait"
                 THEN [barrier_rx EXCEPT ![a] = Append(@, bcast[cursor[a] + 1].barrier)]
                 ELSE barrier_rx
    /\ UNCHANGED <<workflowVars, state, writerVars, up, fwd, bcast, ctl,
                   controllerVars>>

\* What a broken stream does at both ends.  Part of what was under way is
\* lost; a forwarder past READY reports the agent with an ERROR of its own; the
\* agent's reader ends and takes an agent that is at a stage off the job.
LoseStream(a) ==
    /\ fwd[a] # "gone"
    /\ fwd' = [fwd EXCEPT ![a] = "gone"]
    /\ \E n \in 0 .. Len(up[a]) :
         LET through == SubSeq(up[a], 1, n)
             pastReady == fwd[a] = "run" \/ \E i \in 1 .. n : up[a][i].kind = "ready"
         IN  up' = [up EXCEPT ![a] = IF pastReady THEN Append(through, Error) ELSE through]

TakenOff(a) == IF state[a] \in {"Exec", "AtBarrier"} THEN "Left" ELSE state[a]

StreamLost(a) ==
    /\ "streamLost" \in Adversity
    /\ ctl \notin Terminal
    /\ LoseStream(a)
    /\ state' = [state EXCEPT ![a] = TakenOff(a)]
    /\ UNCHANGED <<workflowVars, barrier_rx, writerVars, bcast, cursor, ctl,
                   controllerVars>>

\* The agent process dies with all its tasks
AgentCrash(a) ==
    /\ "crash" \in Adversity
    /\ ctl \notin Terminal
    /\ LoseStream(a)
    /\ state' = [state EXCEPT ![a] = "Left"]
    /\ wf' = [wf EXCEPT ![a] = "failed"]
    /\ writer' = [writer EXCEPT ![a] = "exit"]
    /\ barrier_rx' = [barrier_rx EXCEPT ![a] = <<>>]
    /\ UNCHANGED <<stage, finished, timeouts, polls, bcast, cursor, ctl,
                   controllerVars>>

NoReadyUnderWay(a) == \A i \in 1 .. Len(up[a]) : up[a][i].kind # "ready"

\* agent_ready_timeout: the forwarder returns an error that nobody reads, and
\* drops the stream.
ForwarderGivesUp(a) ==
    /\ fwd[a] = "wait"
    /\ ctl \notin Terminal
    /\ NoReadyUnderWay(a)
    /\ \/ "slowStage" \in Adversity
       \/ writer[a] = "exit"
       \/ writer[a] = "poll" /\ wf[a] = "failed"
    /\ fwd' = [fwd EXCEPT ![a] = "gone"]
    /\ state' = [state EXCEPT ![a] = TakenOff(a)]
    /\ UNCHANGED <<workflowVars, barrier_rx, writerVars, up, bcast, cursor, ctl,
                   controllerVars>>

\* Variant: GOODBYE's transition to Idle, refused while a stage executes, is not
\* followed by the clean-up after the reader's loop
DisconnectKeepsExec(a) ==
    /\ ctl \in Terminal
    /\ fwd[a] # "gone"
    /\ fwd' = [fwd EXCEPT ![a] = "gone"]
    /\ state' = [state EXCEPT ![a] = IF @ \in {"Idle", "Exec"} THEN @ ELSE "Left"]
    /\ UNCHANGED <<workflowVars, barrier_rx, writerVars, up, bcast, cursor, ctl,
                   controllerVars>>

\* The controller is gone: GOODBYE or the abort RPC, then the end of the stream
Disconnect(a) ==
    /\ ctl \in Terminal
    /\ fwd[a] # "gone"
    /\ fwd' = [fwd EXCEPT ![a] = "gone"]
    /\ state' = [state EXCEPT ![a] = IF @ = "Idle" THEN @ ELSE "Left"]
    /\ UNCHANGED <<workflowVars, barrier_rx, writerVars, up, bcast, cursor, ctl,
                   controllerVars>>
-----------------------------------------------------------------------------
(***************************************************************************)
(* The controller                                                          *)
(***************************************************************************)

\* The forwarder's part in receiving m: READY starts its main loop; an ERROR
\* before READY ends it and is not passed on.
Swallowed(a, m) == fwd[a] = "wait" /\ m.kind = "error"

Receive(a, m) ==
    /\ fwd' = [fwd EXCEPT ![a] = CASE Swallowed(a, m) -> "gone"
                                   [] @ = "wait" /\ m.kind = "ready" -> "run"
                                   [] OTHER -> @]
    /\ up' = [up EXCEPT ![a] = IF Swallowed(a, m) THEN <<>> ELSE Tail(@)]

\* Startup loop: READY, and any status but ERROR, makes the tracker Ready.  An
\* ERROR from a Ready agent is refused by the tracker's state machine.  What
\* else the message carries (barrier, summary) is not looked at.
CtlStartup(a) ==
    /\ ctl = "startup"
    /\ up[a] # <<>>
    /\ LET m == Head(up[a])
           now == IF m.kind = "error" THEN responded ELSE responded \cup {a}
       IN  /\ Receive(a, m)
           /\ responded' = now
           /\ ctl' = IF now = Agents THEN "main" ELSE ctl
    /\ UNCHANGED <<workflowVars, state, barrier_rx, writerVars, bcast, cursor,
                   ready_agents, released, agg, comp, summaries>>

\* The startup deadline, 30 s + 5 s per agent
StartupTimeout ==
    /\ ctl = "startup"
    /\ \/ "slowStage" \in Adversity
       \/ \E a \in Agents \ responded :
            up[a] = <<>> /\ (fwd[a] = "gone" \/ wf[a] = "failed")
    /\ ctl' = "aborted"
    /\ UNCHANGED <<workflowVars, state, barrier_rx, writerVars, up, fwd, bcast,
                   cursor, controllerVars>>

ShutdownSignal ==
    /\ "signal" \in Adversity
    /\ ctl \notin Terminal
    /\ ctl' = "aborted"
    /\ UNCHANGED <<workflowVars, state, barrier_rx, writerVars, up, fwd, bcast,
                   cursor, controllerVars>>

\* The orders in which a HashMap may hand out its keys
Orders(S) ==
    {s \in [1 .. Cardinality(S) -> S] :
        \A i, j \in 1 .. Cardinality(S) : s[i] = s[j] => i = j}

ReleaseTo(now, k) ==
    /\ released' = released \cup {k}
    /\ \E s \in Orders(now) :
         bcast' = bcast \o [i \in 1 .. Cardinality(now) |-> [agent |-> s[i], barrier |-> k]]

\* Variant: clear_barrier forgotten
TrackBarrierUncleared(a, k) ==
    LET now == ready_agents[k] \cup {a}
    IN  /\ ready_agents' = [ready_agents EXCEPT ![k] = now]
        /\ IF CanRelease(BarrierType, Cardinality(now), Cardinality(Agents), 0)
             THEN ReleaseTo(now, k)
             ELSE UNCHANGED <<released, bcast>>

\* Variant: one set of ready agents for all barriers
TrackBarrierSharedSet(a, k) ==
    LET now == UNION {ready_agents[j] : j \in Barriers} \cup {a}
    IN  /\ ready_agents' = [ready_agents EXCEPT ![k] = now]
        /\ IF k \notin released
              /\ CanRelease(BarrierType, Cardinality(now), Cardinality(Agents), 0)
             THEN ReleaseTo(now, k)
             ELSE UNCHANGED <<released, bcast>>

\* agent_at_barrier, check_barrier_ready, the RELEASE_BARRIER broadcast to the
\* agents that are ready now, clear_barrier
TrackBarrier(a, k) ==
    LET now == ready_agents[k] \cup {a}
    IN  /\ ready_agents' = [ready_agents EXCEPT ![k] = now]
        /\ IF k \notin released
              /\ CanRelease(BarrierType, Cardinality(now), Cardinality(Agents), 0)
             THEN ReleaseTo(now, k)
             ELSE UNCHANGED <<released, bcast>>

\* Without a barrier manager neither barriers nor stage summaries are looked at
NoteBarrier(a, m) ==
    IF BarrierType # NoBarrierManager /\ m.kind \in {"ready", "barrier"}
      THEN /\ TrackBarrier(a, m.k)
           /\ summaries' = IF m.sum THEN [summaries EXCEPT ![m.k] = Append(@, a)]
                                    ELSE summaries
      ELSE UNCHANGED <<ready_agents, released, bcast, summaries>>

\* LiveStatsAggregator: mark_completed on an agent it knows, update otherwise
Aggregate(a, m) ==
    IF m.kind \in {"completed", "error"}
      THEN /\ agg' = agg
           /\ comp' = IF a \in agg THEN comp \cup {a} ELSE comp
      ELSE /\ agg' = agg \cup {a}
           /\ comp' = comp \ {a}

\* One message of the main loop; all_completed ends the run, an ERROR aborts it
CtlMain(a) ==
    /\ ctl = "main"
    /\ up[a] # <<>>
    /\ LET m == Head(up[a])
       IN  /\ Receive(a, m)
           /\ IF Swallowed(a, m)
                THEN UNCHANGED <<ready_agents, released, bcast, summaries, agg, comp, ctl>>
                ELSE /\ NoteBarrier(a, m)
                     /\ Aggregate(a, m)
                     /\ ctl' = CASE m.kind = "error" -> "aborted"
                                 [] m.kind # "error" /\ agg' # {} /\ comp' = agg' -> "finished"
                                 [] OTHER -> ctl
    /\ UNCHANGED <<workflowVars, state, barrier_rx, writerVars, cursor, responded>>

\* RUNNING statistics of the stage the agent is at: everything it sent before
\* that stage has been received
RunningReceived(a) ==
    /\ writer[a] = "run"
    /\ fwd[a] = "run"
    /\ \A i \in 1 .. Len(up[a]) :
          up[a][i].kind # "ready" /\ (up[a][i].kind = "barrier" => up[a][i].k = stage[a] - 1)

\* The first execute statistics after a prepare statistics, of this agent or of
\* one that is behind: the aggregator starts again and the main loop stops in
\* wait_for_barrier("prepare").  The barrier manager knows the agents by their
\* addresses: under other ids nobody is ever ready there and nobody can be
\* queried, so the wait fails; otherwise the stage barrier has made them ready.
PhaseSwitch(a) ==
    /\ "phaseSwitch" \in Adversity
    /\ stage[a] > 2
    /\ wf[a] = "exec" \/ \E b \in Agents : stage[b] = stage[a] - 1
    /\ agg' = {a}
    /\ comp' = {}
    /\ ctl' = IF BarrierType # NoBarrierManager /\ "namedAgents" \in Adversity
                THEN "aborted" ELSE ctl

CtlRunning(a) ==
    /\ ctl = "main"
    /\ RunningReceived(a)
    /\ \/ /\ agg' = agg \cup {a}
          /\ comp' = comp \ {a}
          /\ ctl' = ctl
       \/ PhaseSwitch(a)
    /\ UNCHANGED <<workflowVars, state, barrier_rx, writerVars, up, fwd, bcast, cursor,
                   responded, ready_agents, released, summaries>>

\* Every forwarder has ended and its messages are used up: the stats channel closes
CtlClosed ==
    /\ ctl = "main"
    /\ \A a \in Agents : fwd[a] = "gone" /\ up[a] = <<>>
    /\ ctl' = "closed"
    /\ UNCHANGED <<workflowVars, state, barrier_rx, writerVars, up, fwd, bcast,
                   cursor, controllerVars>>
-----------------------------------------------------------------------------
AgentFault(a) ==
    FailStage(a) \/ StartRejected(a) \/ StreamLost(a) \/ AgentCrash(a)

Next ==
    \/ \E a \in Agents :
         \/ Start(a) \/ Workflow(a) \/ Writer(a) \/ AgentFault(a)
         \/ ForwardControl(a) \/ ForwarderGivesUp(a) \/ Disconnect(a)
         \/ CtlStartup(a) \/ CtlMain(a) \/ CtlRunning(a)
    \/ StartupTimeout \/ ShutdownSignal \/ CtlClosed

\* Every task is scheduled again and again by its tokio runtime and every timer
\* fires; stages that do not fail end.  Nothing forces a fault to happen.
Fairness ==
    /\ \A a \in Agents :
         /\ WF_vars(Start(a))
         /\ WF_vars(Workflow(a))
         /\ WF_vars(Writer(a))
         /\ WF_vars(ForwardControl(a))
         /\ WF_vars(ForwarderGivesUp(a))
         /\ WF_vars(Disconnect(a))
         /\ WF_vars(CtlStartup(a))
         /\ WF_vars(CtlMain(a))
    /\ WF_vars(StartupTimeout)
    /\ WF_vars(CtlClosed)

Spec == Init /\ [][Next]_vars

FairSpec == Spec /\ Fairness
-----------------------------------------------------------------------------
(***************************************************************************)
(* Properties                                                              *)
(***************************************************************************)

\* Agent a has got past barrier k: it started stage k+2, or is about to
Passed(a, k) == stage[a] > k + 1 \/ (stage[a] = k + 1 /\ wf[a] \in {"next", "done"})

FinishersOf(k) == {b \in Agents : finished[b] > k}

\* Barrier safety: whatever messages are lost, repeated or late, an agent gets
\* past the barrier in execute_stages_workflow only when the policy of
\* check_barrier_ready is met by agents that really finished the stage.
Synchronised ==
    \A a \in Agents, k \in Barriers :
        Passed(a, k) =>
            CanRelease(BarrierType, Cardinality(FinishersOf(k)), Cardinality(Agents), 0)

\* clear_barrier: no agent is sent the same release twice, although READY and
\* barrier messages for the barrier keep arriving after it was released.
ReleasedOnce ==
    \A i, j \in 1 .. Len(bcast) : bcast[i] = bcast[j] => i = j

\* all_completed() compares the completed agents with the agents it has heard
\* from, not with the configured ones; still the controller reports success
\* only after every agent has finished every stage.
FinishedMeansAllDone ==
    ctl = "finished" /\ BarrierType # "Majority" =>
        \A a \in Agents : finished[a] = NumStages

\* stage_summaries: no agent is counted twice in a stage's TSV although barrier
\* reports are repeated after a timeout, and when the run succeeds the files of
\* all stages but the first hold every agent.
SummariesExact ==
    /\ \A k \in Barriers : \A i, j \in 1 .. Len(summaries[k]) :
          summaries[k][i] = summaries[k][j] => i = j
    /\ ctl = "finished" /\ BarrierType # "Majority" =>
          \A k \in Barriers \ {0} : Len(summaries[k]) = Cardinality(Agents)

\* The abstract promise: stages in order, each behind its barrier (StageSync)
Sync == INSTANCE StageSync WITH started <- stage

Refinement == Sync!Spec

\* In fair weather the controller reports success, and not before every agent has
\* completed, although a prepare stage on the way makes the aggregator forget.
Finishes == <>(ctl = "finished") /\ []FinishedMeansAllDone

\* The controller does not hang: the startup loop is left, if only by its deadline,
\* once the main loop has all its forwarders at work it ends, whichever stage,
\* stream, agent or operator stops first, and a stage that fails while the
\* statistics loop runs ends it in any case: the ERROR reaches the main loop.
ControllerEnds ==
    /\ (ctl = "startup") ~> (ctl # "startup")
    /\ (ctl = "main" /\ \A a \in Agents : fwd[a] = "run") ~> (ctl \in Terminal)
    /\ \A a \in Agents : (wf[a] = "failed" /\ writer[a] = "run") ~> (ctl \in Terminal)

\* abort_all_agents and GOODBYE: once the controller has ended, every agent is
\* taken off the job for good, whatever it was doing, and can take a new one.
AgentsFreed ==
    \A a \in Agents : (ctl \in Terminal) ~> [](state[a] \in {"Idle", "Left"})
=============================================================================
