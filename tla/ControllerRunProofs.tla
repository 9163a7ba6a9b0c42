------------------------- MODULE ControllerRunProofs -------------------------
(***************************************************************************)
(* Proofs about ControllerRun for every set of agents, every set of runs   *)
(* (plans of any length, any policy) and any number of faults: the         *)
(* trackers are never ahead of the agents, SUCCESS is told only of a run   *)
(* that every agent went through, a stage barrier is released only when    *)
(* its policy is met, and where plans prepare before they execute the loop *)
(* leaves the prepare phase only when the prepare stage is over.           *)
(***************************************************************************)
EXTENDS ControllerRun, FiniteSetTheorems, TLAPS

\* The part of ControllerTypeOK that the argument needs; a position is a stage
\* of the run's own plan
ControllerTypes ==
    /\ cfg \in Runs
    /\ pos \in [Agents -> 1 .. NumStages]
    /\ pc \in [Agents -> {"exec", "barrier", "done", "failed", "hung", "gone"}]
    /\ passed \in [Agents -> Stages \cup {0}]
    /\ queue \in [Agents -> Seq(Message)]
    /\ tracker \in [Agents -> ControllerAgentState]
    /\ barrier \in [Stages -> [ready : SUBSET Agents, released : BOOLEAN]]
    /\ finals \subseteq Agents

\* Agent a has been in a stage of the given kind
Reached(a, kind) == \E k \in 1 .. pos[a] : cfg.plan[k] = kind

\* Agent a does not execute stage k any more
Past(a, k) == pos[a] > k \/ (pos[a] = k /\ pc[a] # "exec")

\* What an agent says of itself is so
Honest(a, m) ==
    /\ m.status = "completed" => pc[a] = "done"
    /\ m.stage # "unknown" => Reached(a, m.stage)
    /\ m.at # 0 => Past(a, m.at)

HonestQueues == \A a \in Agents : \A i \in 1 .. Len(queue[a]) : Honest(a, queue[a][i])

\* What the controller made of it: TrackerNotAhead, and the final_summary
Tracking ==
    step # "bailed" =>
    \A a \in Agents :
        /\ tracker[a] = "Completed" => pc[a] = "done" /\ a \in finals
        /\ tracker[a] = "Cleaning" => Reached(a, "cleanup")

\* An agent is where released barriers let it
Crossed ==
    \A a \in Agents :
        /\ passed[a] # 0 => barrier[passed[a]].released = TRUE
        /\ \A k \in 1 .. NumStages : k < pos[a] => barrier[k].released = TRUE
        /\ pc[a] = "done" => pos[a] = NumStages /\ barrier[NumStages].released = TRUE

CInv == ControllerTypes /\ HonestQueues /\ Tracking /\ Crossed
-----------------------------------------------------------------------------
(***************************************************************************)
(* Type correctness                                                        *)
(***************************************************************************)

LEMMA PlanStages ==
    ASSUME cfg \in Runs
    PROVE  /\ cfg.plan \in Seq(Kinds) /\ NumStages \in Nat /\ NumStages >= 2
           /\ 1 .. NumStages = DOMAIN cfg.plan
           /\ 1 .. NumStages \subseteq Stages
           /\ \A k \in 1 .. NumStages : cfg.plan[k] \in Kinds
<1>1. cfg.plan \in Seq(Kinds) /\ NumStages >= 2
  BY ControllerAssumption DEF NumStages
<1>2. NumStages \in Nat /\ 1 .. NumStages = DOMAIN cfg.plan
      /\ \A k \in 1 .. NumStages : cfg.plan[k] \in Kinds
  BY <1>1 DEF NumStages
<1>3. DOMAIN cfg.plan \subseteq Stages
  BY DEF Stages
<1>4. QED
  BY <1>1, <1>2, <1>3

\* What agents and forwarders put in their messages
LEMMA StatsType ==
    ASSUME NEW status \in {"ready", "running", "error", "lost", "completed"},
           NEW kind \in Kinds \cup {"unknown"}, NEW k \in Stages \cup {0}, NEW sum \in BOOLEAN
    PROVE  Stats(status, kind, k, sum) \in Message
  BY DEF Stats, Message

LEMMA Appended ==
    ASSUME queue \in [Agents -> Seq(Message)], NEW a \in Agents, NEW m \in Message, Post(a, m)
    PROVE  /\ queue' \in [Agents -> Seq(Message)]
           /\ \A b \in Agents : \A i \in 1 .. Len(queue'[b]) :
                \/ i \in 1 .. Len(queue[b]) /\ queue'[b][i] = queue[b][i]
                \/ b = a /\ queue'[b][i] = m
<1>1. queue' = [queue EXCEPT ![a] = Append(@, m)] /\ queue[a] \in Seq(Message)
  BY DEF Post
<1>2. /\ queue'[a] = Append(queue[a], m) /\ Append(queue[a], m) \in Seq(Message)
      /\ \A b \in Agents \ {a} : queue'[b] = queue[b]
  BY <1>1
<1>3. queue' \in [Agents -> Seq(Message)]
  BY <1>1, <1>2
<1>4. \A i \in 1 .. Len(queue'[a]) :
        (i \in 1 .. Len(queue[a]) /\ queue'[a][i] = queue[a][i]) \/ queue'[a][i] = m
  BY <1>1, <1>2
<1>5. QED
  BY <1>2, <1>3, <1>4

LEMMA Taken ==
    ASSUME queue \in [Agents -> Seq(Message)], NEW a \in Agents, queue[a] # <<>>,
           queue' = [queue EXCEPT ![a] = Tail(@)]
    PROVE  /\ queue' \in [Agents -> Seq(Message)]
           /\ Head(queue[a]) \in Message /\ Head(queue[a]) = queue[a][1] /\ 1 \in 1 .. Len(queue[a])
           /\ \A b \in Agents : \A i \in 1 .. Len(queue'[b]) :
                \E j \in 1 .. Len(queue[b]) : queue'[b][i] = queue[b][j]
<1>1. queue[a] \in Seq(Message)
  OBVIOUS
<1>2. /\ Tail(queue[a]) \in Seq(Message)
      /\ Head(queue[a]) \in Message /\ Head(queue[a]) = queue[a][1] /\ 1 \in 1 .. Len(queue[a])
      /\ \A i \in 1 .. Len(Tail(queue[a])) :
           i + 1 \in 1 .. Len(queue[a]) /\ Tail(queue[a])[i] = queue[a][i + 1]
  BY <1>1
<1>3. queue'[a] = Tail(queue[a]) /\ \A b \in Agents \ {a} : queue'[b] = queue[b]
  OBVIOUS
<1>4. queue' \in [Agents -> Seq(Message)]
  BY <1>2
<1>5. \A i \in 1 .. Len(queue'[a]) : \E j \in 1 .. Len(queue[a]) : queue'[a][i] = queue[a][j]
  BY <1>2, <1>3
<1>6. QED
  BY <1>2, <1>3, <1>4, <1>5

\* The queue and the positions of the agents' own steps
LEMMA AgentPosts ==
    ASSUME ControllerTypes, NEW a \in Agents,
           SendStats(a) \/ EndStage(a) \/ PassBarrier(a) \/ GiveUp(a) \/ Fault(a) \/ KeepAliveFails(a)
    PROVE  \/ queue' = queue
           \/ \E m \in Message :
                /\ Post(a, m)
                /\ m.status = "completed" => pc'[a] = "done"
                /\ m.stage # "unknown" => cfg.plan[pos[a]] = m.stage
                /\ m.at # 0 => m.at = pos[a] /\ pos'[a] = pos[a] /\ pc'[a] # "exec"
<1>0. /\ cfg \in Runs /\ pos[a] \in 1 .. NumStages
      /\ pc \in [Agents -> {"exec", "barrier", "done", "failed", "hung", "gone"}]
  BY DEF ControllerTypes
<1>1. pos[a] \in Stages /\ 1 \in Stages /\ cfg.plan[pos[a]] \in Kinds
  <2>1. /\ NumStages \in Nat /\ NumStages >= 2 /\ 1 .. NumStages \subseteq Stages
        /\ \A k \in 1 .. NumStages : cfg.plan[k] \in Kinds
    BY <1>0, PlanStages
  <2>2. 1 \in 1 .. NumStages
    BY <2>1
  <2>3. QED
    BY <1>0, <2>1, <2>2
<1>2. CASE SendStats(a)
  <2>1. /\ Stats("running", cfg.plan[pos[a]], 0, FALSE) \in Message
        /\ Stats("ready", "unknown", 1, FALSE) \in Message
    BY <1>1, StatsType
  <2>2. \/ Post(a, Stats("running", cfg.plan[pos[a]], 0, FALSE))
        \/ /\ Post(a, Stats("ready", "unknown", 1, FALSE))
           /\ pos[a] = 1 /\ pos' = pos /\ pc[a] # "exec" /\ pc' = pc
    <3>1. NumStages \in Nat
      BY <1>0, PlanStages
    <3>2. pos[a] > 1 \/ pos[a] = 1
      BY <1>0, <3>1
    <3>3. QED
      BY <1>2, <3>2 DEF SendStats, Writing
  <2>3. QED
    BY <2>1, <2>2 DEF Stats
<1>3. CASE EndStage(a)
  <2>1. Stats("running", "unknown", pos[a], TRUE) \in Message
    BY <1>1, StatsType
  <2>2. QED
    BY <1>0, <1>3, <2>1 DEF EndStage, Stats
<1>4. CASE PassBarrier(a)
  <2>1. Stats("completed", cfg.plan[pos[a]], 0, FALSE) \in Message
    BY <1>1, StatsType
  <2>2. \/ queue' = queue
        \/ /\ pc' = [pc EXCEPT ![a] = "done"]
           /\ Post(a, Stats("completed", cfg.plan[pos[a]], 0, FALSE))
    BY <1>4 DEF PassBarrier
  <2>3. QED
    BY <1>0, <2>1, <2>2 DEF Stats
<1>5. ASSUME NEW to, NEW report \in {"none", "error", "lost"}, Out(a, to, report)
      PROVE  \/ queue' = queue
             \/ \E m \in Message :
                  /\ Post(a, m)
                  /\ m.status # "completed" /\ m.stage = "unknown" /\ m.at = 0
  <2>1. CASE report = "none"
    BY <1>5, <2>1 DEF Out
  <2>2. CASE report # "none"
    <3>1. Stats(report, "unknown", 0, FALSE) \in Message
      BY <2>2, StatsType
    <3>2. Post(a, Stats(report, "unknown", 0, FALSE))
      BY <1>5, <2>2 DEF Out
    <3>3. QED
      BY <2>2, <3>1, <3>2 DEF Stats
  <2>3. QED
    BY <2>1, <2>2
<1>6. CASE GiveUp(a)
  <2>1. Out(a, "failed", "error") \/ Out(a, "failed", "none")
    BY <1>6 DEF GiveUp, OwnError
  <2>2. QED
    BY <1>5, <2>1
<1>7. CASE Fault(a)
  <2>1. \E to \in {"failed", "hung", "gone"}, report \in {"none", "error", "lost"} : Out(a, to, report)
    BY <1>7 DEF Fault, OwnError
  <2>2. QED
    BY <1>5, <2>1
<1>8. CASE KeepAliveFails(a)
  <2>1. Out(a, "gone", "lost") \/ Out(a, "gone", "none")
    BY <1>8 DEF KeepAliveFails
  <2>2. QED
    BY <1>5, <2>1
<1>9. QED
  BY <1>2, <1>3, <1>4, <1>6, <1>7, <1>8

PcSet == {"exec", "barrier", "done", "failed", "hung", "gone"}

\* The steps of the agents themselves
AgentStep(a) ==
    SendStats(a) \/ EndStage(a) \/ PassBarrier(a) \/ GiveUp(a) \/ Fault(a) \/ KeepAliveFails(a)

\* The controller leaves the agents alone, except that it may abort them
AgentsKept ==
    /\ pos' = pos
    /\ pc' \in [Agents -> PcSet]
    /\ \A b \in Agents : pc'[b] = "done" <=> pc[b] = "done"
    /\ \A b \in Agents : pc'[b] = "exec" => pc[b] = "exec"

BarriersKept == barrier' = barrier /\ passed' = passed

\* Agent b stays, or gets past a barrier that was released to it
Passes(b) ==
    \/ /\ pos'[b] = pos[b]
       /\ (pc'[b] = "done" => pc[b] = "done") /\ (pc'[b] = "exec" => pc[b] = "exec")
    \/ /\ passed[b] = pos[b] /\ pos[b] < NumStages
       /\ pos'[b] = pos[b] + 1 /\ pc'[b] = "exec"
    \/ passed[b] = pos[b] /\ pos[b] = NumStages /\ pos'[b] = pos[b] /\ pc'[b] = "done"

LEMMA AgentStepKeeps ==
    ASSUME ControllerTypes, NEW a \in Agents, AgentStep(a)
    PROVE  /\ UNCHANGED <<cfg, passed, step, tracker, barrier, finals, verdict>>
           /\ step # "bailed"
           /\ pos' \in [Agents -> 1 .. NumStages] /\ pc' \in [Agents -> PcSet]
           /\ \A b \in Agents : Passes(b) /\ (pc[b] = "done" => pc'[b] = "done")
<1> USE DEF trackVars, resultVars, endVars
<1>1. /\ pos \in [Agents -> 1 .. NumStages] /\ pc \in [Agents -> PcSet]
      /\ NumStages \in Nat
  BY PlanStages DEF ControllerTypes, PcSet
<1>2. /\ UNCHANGED <<cfg, passed, step, tracker, barrier, finals, verdict>>
      /\ step # "bailed"
  BY DEF AgentStep, SendStats, EndStage, PassBarrier, GiveUp, Fault, KeepAliveFails, Out, Streaming
<1>3. CASE SendStats(a)
  BY <1>1, <1>2, <1>3 DEF SendStats, Passes
<1>4. CASE PassBarrier(a)
  <2>1. CASE /\ pos[a] < NumStages
             /\ pos' = [pos EXCEPT ![a] = @ + 1] /\ pc' = [pc EXCEPT ![a] = "exec"]
    <3>1. pos[a] + 1 \in 1 .. NumStages
      BY <1>1, <2>1
    <3>2. pos' \in [Agents -> 1 .. NumStages] /\ pc' \in [Agents -> PcSet]
      BY <1>1, <2>1, <3>1 DEF PcSet
    <3>3. pc[a] = "barrier" /\ passed[a] = pos[a]
      BY <1>4 DEF PassBarrier
    <3>4. ASSUME NEW b \in Agents  PROVE Passes(b) /\ (pc[b] = "done" => pc'[b] = "done")
      BY <1>1, <2>1, <3>3 DEF Passes
    <3>5. QED
      BY <1>2, <3>2, <3>4
  <2>2. CASE pos[a] = NumStages /\ pos' = pos /\ pc' = [pc EXCEPT ![a] = "done"]
    <3>1. pos' \in [Agents -> 1 .. NumStages] /\ pc' \in [Agents -> PcSet]
      BY <1>1, <2>2 DEF PcSet
    <3>2. passed[a] = pos[a]
      BY <1>4 DEF PassBarrier
    <3>3. ASSUME NEW b \in Agents  PROVE Passes(b) /\ (pc[b] = "done" => pc'[b] = "done")
      BY <1>1, <2>2, <3>2 DEF Passes
    <3>4. QED
      BY <1>2, <3>1, <3>3
  <2>3. QED
    BY <1>4, <2>1, <2>2 DEF PassBarrier
<1>5. ASSUME NEW to \in {"barrier", "failed", "hung", "gone"}, pc[a] # "done",
             pc' = [pc EXCEPT ![a] = to], pos' = pos
      PROVE  /\ pos' \in [Agents -> 1 .. NumStages] /\ pc' \in [Agents -> PcSet]
             /\ \A b \in Agents : Passes(b) /\ (pc[b] = "done" => pc'[b] = "done")
  BY <1>1, <1>5 DEF Passes, PcSet
<1>6. CASE EndStage(a)
  BY <1>2, <1>5, <1>6 DEF EndStage
<1>7. CASE GiveUp(a) \/ Fault(a) \/ KeepAliveFails(a)
  <2>1. /\ pos' = pos /\ pc[a] # "done"
        /\ \E to \in {"failed", "hung", "gone"} : pc' = [pc EXCEPT ![a] = to]
    BY <1>7 DEF GiveUp, Fault, KeepAliveFails, Out
  <2>2. QED
    BY <1>2, <1>5, <2>1
<1>8. QED
  BY <1>3, <1>4, <1>6, <1>7 DEF AgentStep

\* What the ways out of the run do to the agents
LEMMA AbortsAgents ==
    ASSUME ControllerTypes, pos' = pos,
           pc' = [a \in Agents |-> IF pc[a] \in {"exec", "barrier", "hung"} THEN "failed" ELSE pc[a]]
    PROVE  AgentsKept
  BY DEF ControllerTypes, AgentsKept, PcSet

\* The controller's steps up to the main loop, the phase barrier and the end
QuietStep ==
    \/ Deploy \/ ConnectAll \/ Validate \/ BarrierMet \/ CheckLiveness
    \/ \E a \in Agents : Query(a)
    \/ Goodbye \/ WriteResults \/ CheckTestStatus \/ Finish

AbortStep == StartupEnds \/ Signal \/ BarrierMissed

LEMMA QuietKeeps ==
    ASSUME ControllerTypes, QuietStep
    PROVE  /\ cfg' = cfg /\ AgentsKept /\ BarriersKept /\ queue' = queue /\ tracker' = tracker
           /\ finals' = finals /\ step # "bailed"
           /\ verdict' = verdict \/ CheckTestStatus
<1> USE DEF agentVars, trackVars, resultVars, endVars
<1>1. /\ UNCHANGED <<cfg, pos, pc, passed, queue, tracker, barrier, finals>> /\ step # "bailed"
      /\ verdict' = verdict \/ CheckTestStatus
  BY DEF QuietStep, Deploy, ConnectAll, Validate, BarrierMet, CheckLiveness, Query, Goodbye,
     WriteResults, CheckTestStatus, Finish, To, End, WaitUnchanged
<1>2. pc \in [Agents -> PcSet]
  BY DEF ControllerTypes, PcSet
<1>3. QED
  BY <1>1, <1>2 DEF AgentsKept, BarriersKept

LEMMA AbortKeeps ==
    ASSUME ControllerTypes, AbortStep
    PROVE  /\ cfg' = cfg /\ AgentsKept /\ BarriersKept /\ queue' = queue /\ finals' = finals
           /\ tracker' = Aborted(tracker) /\ step # "bailed" /\ step' = "bailed"
<1> USE DEF agentVars, trackVars, resultVars, endVars
<1>1. /\ UNCHANGED <<cfg, pos, passed, queue, barrier, finals>>
      /\ tracker' = Aborted(tracker) /\ step # "bailed" /\ step' = "bailed"
      /\ pc' = [a \in Agents |-> IF pc[a] \in {"exec", "barrier", "hung"} THEN "failed" ELSE pc[a]]
  BY DEF AbortStep, StartupEnds, Signal, BarrierMissed, Bail
<1>2. QED
  BY <1>1, AbortsAgents DEF BarriersKept

LEMMA StepKinds ==
    ASSUME ControllerNext
    PROVE  \/ QuietStep \/ AbortStep
           \/ \E a \in Agents :
                AgentStep(a) \/ Startup(a) \/ Progress(a) \/ ErrorReceived(a) \/ Stalled(a)
  BY DEF ControllerNext, ControllerStep, AgentNext, QuietStep, AbortStep, AgentStep

LEMMA TrackedState ==
    ASSUME NEW s \in ControllerAgentState, NEW t \in ControllerAgentState
    PROVE  Tracked(s, t) \in {s, t}
  BY DEF Tracked

LEMMA AbortedType ==
    ASSUME NEW t \in [Agents -> ControllerAgentState]
    PROVE  Aborted(t) \in [Agents -> ControllerAgentState]
<1>1. \A a \in Agents : Tracked(t[a], "Aborting") \in ControllerAgentState
  BY TrackedState DEF ControllerAgentState
<1>2. QED
  BY <1>1 DEF Aborted

\* Startup leaves Completed and Cleaning to the main loop
LEMMA StartupTracks ==
    ASSUME NEW s \in ControllerAgentState, NEW m \in Message
    PROVE  StartupState(s, m) \in {s, "Validating", "Ready", "Failed"}
  BY DEF StartupState, Tracked

\* Recovery and the stage of a message: Completed and Cleaning are what it says
LEMMA RecoverTracks ==
    ASSUME NEW s \in ControllerAgentState, NEW a \in Agents, tracker[a] = s, NEW m \in Message,
           m.status # "lost"
    PROVE  /\ Recover(a, m) \in ControllerAgentState
           /\ Recover(a, m) = "Completed" => s = "Completed" \/ m.status = "completed"
           /\ Recover(a, m) = "Cleaning" => s = "Cleaning" \/ m.stage = "cleanup"
  BY DEF Recover, Tracked, ControllerAgentState

LEMMA FollowTracks ==
    ASSUME NEW s \in ControllerAgentState, NEW kind
    PROVE  /\ FollowStage(s, kind) \in ControllerAgentState
           /\ FollowStage(s, kind) = "Completed" => s = "Completed"
           /\ FollowStage(s, kind) = "Cleaning" => s = "Cleaning" \/ kind = "cleanup"
  BY DEF FollowStage, Tracked, ControllerAgentState

LEMMA ProgressTracks ==
    ASSUME ControllerTypes, NEW a \in Agents, Progress(a)
    PROVE  LET m == Head(queue[a]) IN
           /\ m \in Message /\ m.status \notin {"error", "lost"}
           /\ queue' = [queue EXCEPT ![a] = Tail(@)] /\ queue[a] # <<>>
           /\ \E s \in ControllerAgentState :
                /\ tracker' = [tracker EXCEPT ![a] = s]
                /\ s = "Completed" => tracker[a] = "Completed" \/ m.status = "completed"
                /\ s = "Cleaning" => tracker[a] = "Cleaning" \/ m.stage = "cleanup"
           /\ finals' = IF m.status = "completed" THEN finals \cup {a} ELSE finals
           /\ IF m.at # 0 THEN AtBarrier(a, m.at) ELSE BarriersKept
           /\ UNCHANGED <<cfg, pos, pc, verdict>> /\ step # "bailed"
<1> DEFINE m == Head(queue[a])
<1>1. /\ m.status \notin {"error", "lost"} /\ queue[a] # <<>>
      /\ queue' = [queue EXCEPT ![a] = Tail(@)]
      /\ IF m.at # 0 THEN AtBarrier(a, m.at) ELSE BarriersKept
      /\ UNCHANGED <<cfg, pos, pc, verdict>> /\ step # "bailed"
  BY DEF Progress, BarriersKept
<1>2. m \in Message
  BY <1>1, Taken DEF ControllerTypes
<1>3. IF m.status = "completed"
        THEN /\ finals' = finals \cup {a}
             /\ tracker' = [tracker EXCEPT ![a] = Tracked(FollowStage(Recover(a, m), m.stage), "Completed")]
        ELSE /\ finals' = finals
             /\ tracker' = [tracker EXCEPT ![a] = FollowStage(Recover(a, m), m.stage)]
  BY DEF Progress
<1> HIDE DEF m
<1>4. tracker[a] \in ControllerAgentState
  BY DEF ControllerTypes
<1> DEFINE r == Recover(a, m)
           f == FollowStage(r, m.stage)
<1>5. /\ r \in ControllerAgentState
      /\ r = "Completed" => tracker[a] = "Completed" \/ m.status = "completed"
      /\ r = "Cleaning" => tracker[a] = "Cleaning" \/ m.stage = "cleanup"
  BY <1>1, <1>2, <1>4, RecoverTracks
<1> HIDE DEF r
<1>6. /\ f \in ControllerAgentState
      /\ f = "Completed" => r = "Completed"
      /\ f = "Cleaning" => r = "Cleaning" \/ m.stage = "cleanup"
  BY <1>5, FollowTracks
<1> HIDE DEF f
<1>7. CASE m.status = "completed"
  <2>1. Tracked(f, "Completed") \in {f, "Completed"} /\ "Completed" \in ControllerAgentState
    BY <1>6, TrackedState DEF ControllerAgentState
  <2>2. tracker' = [tracker EXCEPT ![a] = Tracked(f, "Completed")]
    BY <1>3, <1>7 DEF f, r
  <2>3. QED
    BY <1>1, <1>2, <1>3, <1>5, <1>6, <1>7, <2>1, <2>2 DEF m
<1>8. CASE m.status # "completed"
  <2>1. tracker' = [tracker EXCEPT ![a] = f]
    BY <1>3, <1>8 DEF f, r
  <2>2. QED
    BY <1>1, <1>2, <1>3, <1>5, <1>6, <1>8, <2>1 DEF m
<1>9. QED
  BY <1>7, <1>8

LEMMA ErrorKeeps ==
    ASSUME ControllerTypes, NEW a \in Agents, ErrorReceived(a)
    PROVE  /\ cfg' = cfg /\ AgentsKept /\ BarriersKept /\ finals' = finals
           /\ queue[a] # <<>> /\ queue' = [queue EXCEPT ![a] = Tail(@)]
           /\ tracker' \in [Agents -> ControllerAgentState]
           /\ step # "bailed" /\ step' = "bailed"
<1>1. /\ cfg' = cfg /\ pos' = pos /\ BarriersKept /\ finals' = finals
      /\ queue[a] # <<>> /\ queue' = [queue EXCEPT ![a] = Tail(@)]
      /\ step # "bailed" /\ step' = "bailed"
      /\ pc' = [b \in Agents |-> IF pc[b] \in {"exec", "barrier", "hung"} THEN "failed" ELSE pc[b]]
  BY DEF ErrorReceived, Bail, BarriersKept, resultVars
<1>2. AgentsKept
  BY <1>1, AbortsAgents
<1> DEFINE m == Head(queue[a])
<1>3. m \in Message
  BY <1>1, Taken DEF ControllerTypes
<1>4. ErrorState(a, m) \in ControllerAgentState
  BY <1>3 DEF ErrorState, Recover, Tracked, ControllerTypes, ControllerAgentState
<1>5. [tracker EXCEPT ![a] = ErrorState(a, m)] \in [Agents -> ControllerAgentState]
  BY <1>4 DEF ControllerTypes
<1>6. tracker' = Aborted([tracker EXCEPT ![a] = ErrorState(a, m)])
  BY DEF ErrorReceived
<1>7. tracker' \in [Agents -> ControllerAgentState]
  BY <1>5, <1>6, AbortedType
<1>8. QED
  BY <1>1, <1>2, <1>7

LEMMA StartupKeeps ==
    ASSUME ControllerTypes, NEW a \in Agents, Startup(a) \/ Stalled(a)
    PROVE  /\ UNCHANGED <<cfg, pos, pc, passed, barrier, finals, verdict>> /\ step # "bailed"
           /\ \/ queue' = queue
              \/ queue[a] # <<>> /\ queue' = [queue EXCEPT ![a] = Tail(@)]
           /\ \E s \in ControllerAgentState :
                /\ tracker' = [tracker EXCEPT ![a] = s]
                /\ s \in {"Completed", "Cleaning"} => s = tracker[a]
<1> USE DEF agentVars, trackVars, resultVars, endVars
<1>1. tracker[a] \in ControllerAgentState /\ queue \in [Agents -> Seq(Message)]
  BY DEF ControllerTypes
<1>2. CASE Startup(a)
  <2>1. /\ UNCHANGED <<cfg, pos, pc, passed, barrier, finals, verdict>> /\ step # "bailed"
        /\ queue[a] # <<>> /\ queue' = [queue EXCEPT ![a] = Tail(@)]
        /\ tracker' = [tracker EXCEPT ![a] = StartupState(tracker[a], Head(queue[a]))]
    BY <1>2 DEF Startup
  <2>2. Head(queue[a]) \in Message
    BY <1>1, <2>1, Taken
  <2>3. StartupState(tracker[a], Head(queue[a])) \in {tracker[a], "Validating", "Ready", "Failed"}
    BY <1>1, <2>2, StartupTracks
  <2>4. StartupState(tracker[a], Head(queue[a])) \in ControllerAgentState
    BY <1>1, <2>3 DEF ControllerAgentState
  <2>5. QED
    BY <2>1, <2>3, <2>4
<1>3. CASE Stalled(a)
  <2>1. /\ UNCHANGED <<cfg, pos, pc, passed, barrier, finals, verdict, queue>> /\ step # "bailed"
        /\ tracker' = [tracker EXCEPT ![a] = Tracked(tracker[a], "Disconnected")]
    BY <1>3 DEF Stalled
  <2>2. "Disconnected" \in ControllerAgentState
    BY DEF ControllerAgentState
  <2>3. Tracked(tracker[a], "Disconnected") \in {tracker[a], "Disconnected"}
    BY <1>1, <2>2, TrackedState
  <2>4. QED
    BY <1>1, <2>1, <2>2, <2>3
<1>4. QED
  BY <1>2, <1>3

\* A barrier stays released, and what is passed on is released
LEMMA AtBarrierLemma ==
    ASSUME ControllerTypes, NEW a \in Agents, NEW k \in Stages, AtBarrier(a, k)
    PROVE  /\ barrier' \in [Stages -> [ready : SUBSET Agents, released : BOOLEAN]]
           /\ passed' \in [Agents -> Stages \cup {0}]
           /\ \A j \in Stages : barrier[j].released = TRUE => barrier'[j].released = TRUE
           /\ \A b \in Agents : passed'[b] = passed[b] \/ (passed'[b] = k /\ barrier'[k].released = TRUE)
<1> DEFINE ready == barrier[k].ready \cup {a}
           release == /\ ~barrier[k].released
                      /\ CanRelease(cfg.policy, Cardinality(ready), Cardinality(Agents),
                                    Cardinality(manager.failed))
<1>1. /\ barrier \in [Stages -> [ready : SUBSET Agents, released : BOOLEAN]]
      /\ passed \in [Agents -> Stages \cup {0}]
  BY DEF ControllerTypes
<1>2. /\ barrier' = [barrier EXCEPT ![k] = [ready |-> ready, released |-> barrier[k].released \/ release]]
      /\ passed' = IF release THEN [b \in Agents |-> IF b \in ready THEN k ELSE passed[b]] ELSE passed
  BY DEF AtBarrier
<1>3. ready \in SUBSET Agents /\ release \in BOOLEAN /\ barrier[k].released \in BOOLEAN
  BY <1>1
<1> HIDE DEF ready, release
<1>4. barrier'[k].released = (barrier[k].released \/ release) /\ barrier'[k].ready = ready
  BY <1>1, <1>2
<1>5. \A j \in Stages \ {k} : barrier'[j] = barrier[j]
  BY <1>1, <1>2
<1>6. barrier' \in [Stages -> [ready : SUBSET Agents, released : BOOLEAN]]
  <2>1. [ready |-> ready, released |-> barrier[k].released \/ release]
           \in [ready : SUBSET Agents, released : BOOLEAN]
    BY <1>3
  <2>2. QED
    BY <1>1, <1>2, <2>1
<1>7. barrier[k].released = TRUE => barrier'[k].released = TRUE
  BY <1>3, <1>4
<1>8. release => barrier'[k].released = TRUE
  BY <1>3, <1>4
<1>9. /\ passed' \in [Agents -> Stages \cup {0}]
      /\ \A b \in Agents : passed'[b] = passed[b] \/ (passed'[b] = k /\ release)
  BY <1>1, <1>2
<1>10. QED
  BY <1>5, <1>6, <1>7, <1>8, <1>9
-----------------------------------------------------------------------------
(***************************************************************************)
(* The inductive invariant                                                 *)
(***************************************************************************)

LEMMA KeptPasses ==
    ASSUME ControllerTypes, AgentsKept
    PROVE  /\ pos' \in [Agents -> 1 .. NumStages] /\ pc' \in [Agents -> PcSet]
           /\ \A b \in Agents : Passes(b) /\ (pc[b] = "done" => pc'[b] = "done")
  BY DEF ControllerTypes, AgentsKept, Passes

LEMMA ProgressBarriers ==
    ASSUME ControllerTypes, NEW a \in Agents, Progress(a)
    PROVE  \/ BarriersKept
           \/ \E k \in Stages : AtBarrier(a, k)
<1>1. Head(queue[a]).at \in Stages \cup {0}
  BY ProgressTracks DEF Message
<1>2. QED
  BY <1>1, ProgressTracks

\* What every step does to agents and barriers
LEMMA Frame ==
    ASSUME ControllerTypes, ControllerNext
    PROVE  /\ cfg' = cfg /\ step # "bailed"
           /\ pos' \in [Agents -> 1 .. NumStages] /\ pc' \in [Agents -> PcSet]
           /\ \A b \in Agents : Passes(b) /\ (pc[b] = "done" => pc'[b] = "done")
           /\ barrier' \in [Stages -> [ready : SUBSET Agents, released : BOOLEAN]]
           /\ passed' \in [Agents -> Stages \cup {0}]
           /\ \A j \in Stages : barrier[j].released = TRUE => barrier'[j].released = TRUE
           /\ \A b \in Agents : passed'[b] = passed[b] \/ barrier'[passed'[b]].released = TRUE
           /\ finals \subseteq finals' /\ finals' \subseteq Agents
<1>1. /\ barrier \in [Stages -> [ready : SUBSET Agents, released : BOOLEAN]]
      /\ passed \in [Agents -> Stages \cup {0}] /\ finals \subseteq Agents
      /\ pc \in [Agents -> PcSet]
  BY DEF ControllerTypes, PcSet
<1> DEFINE Moved == /\ pos' \in [Agents -> 1 .. NumStages] /\ pc' \in [Agents -> PcSet]
                    /\ \A b \in Agents : Passes(b) /\ (pc[b] = "done" => pc'[b] = "done")
           Opened == /\ barrier' \in [Stages -> [ready : SUBSET Agents, released : BOOLEAN]]
                     /\ passed' \in [Agents -> Stages \cup {0}]
                     /\ \A j \in Stages : barrier[j].released = TRUE => barrier'[j].released = TRUE
                     /\ \A b \in Agents : passed'[b] = passed[b] \/ barrier'[passed'[b]].released = TRUE
           Rest == /\ cfg' = cfg /\ step # "bailed"
                   /\ finals \subseteq finals' /\ finals' \subseteq Agents
<1>2. AgentsKept => Moved
  BY KeptPasses
<1>3. BarriersKept => Opened
  BY <1>1 DEF BarriersKept
<1>4. CASE QuietStep \/ AbortStep
  <2>1. AgentsKept /\ BarriersKept /\ Rest
    BY <1>1, <1>4, QuietKeeps, AbortKeeps
  <2>2. QED
    BY <1>2, <1>3, <2>1
<1>5. ASSUME NEW a \in Agents, AgentStep(a)  PROVE Moved /\ Opened /\ Rest
  <2>1. Moved /\ BarriersKept /\ Rest
    BY <1>1, <1>5, AgentStepKeeps DEF BarriersKept
  <2>2. QED
    BY <1>3, <2>1
<1>6. ASSUME NEW a \in Agents, Startup(a) \/ Stalled(a) \/ ErrorReceived(a)
      PROVE  Moved /\ Opened /\ Rest
  <2>1. AgentsKept /\ BarriersKept /\ Rest
    BY <1>1, <1>6, StartupKeeps, ErrorKeeps DEF AgentsKept, BarriersKept
  <2>2. QED
    BY <1>2, <1>3, <2>1
<1>7. ASSUME NEW a \in Agents, Progress(a)  PROVE Moved /\ Opened /\ Rest
  <2>1. AgentsKept /\ Rest
    BY <1>1, <1>7, ProgressTracks DEF AgentsKept
  <2>2. ASSUME NEW k \in Stages, AtBarrier(a, k)  PROVE Opened
    BY <2>2, AtBarrierLemma
  <2>3. QED
    BY <1>2, <1>3, <1>7, <2>1, <2>2, ProgressBarriers
<1>8. QED
  BY <1>4, <1>5, <1>6, <1>7, StepKinds

LEMMA QueueStep ==
    ASSUME ControllerTypes, ControllerNext
    PROVE  /\ queue' \in [Agents -> Seq(Message)]
           /\ \A b \in Agents : \A i \in 1 .. Len(queue'[b]) :
                \/ \E j \in 1 .. Len(queue[b]) : queue'[b][i] = queue[b][j]
                \/ /\ queue'[b][i].status = "completed" => pc'[b] = "done"
                   /\ queue'[b][i].stage # "unknown" => cfg.plan[pos[b]] = queue'[b][i].stage
                   /\ queue'[b][i].at # 0 => /\ queue'[b][i].at = pos[b]
                                            /\ pos'[b] = pos[b] /\ pc'[b] # "exec"
<1>1. queue \in [Agents -> Seq(Message)]
  BY DEF ControllerTypes
<1> DEFINE Said == /\ queue' \in [Agents -> Seq(Message)]
                   /\ \A b \in Agents : \A i \in 1 .. Len(queue'[b]) :
                        \/ \E j \in 1 .. Len(queue[b]) : queue'[b][i] = queue[b][j]
                        \/ /\ queue'[b][i].status = "completed" => pc'[b] = "done"
                           /\ queue'[b][i].stage # "unknown" => cfg.plan[pos[b]] = queue'[b][i].stage
                           /\ queue'[b][i].at # 0 => /\ queue'[b][i].at = pos[b]
                                                    /\ pos'[b] = pos[b] /\ pc'[b] # "exec"
<1>2. CASE queue' = queue
  BY <1>1, <1>2
<1>3. ASSUME NEW a \in Agents, queue[a] # <<>>, queue' = [queue EXCEPT ![a] = Tail(@)]
      PROVE  Said
  BY <1>1, <1>3, Taken
<1>4. ASSUME NEW a \in Agents, AgentStep(a)  PROVE Said
  <2>1. ASSUME NEW m \in Message, Post(a, m),
               m.status = "completed" => pc'[a] = "done",
               m.stage # "unknown" => cfg.plan[pos[a]] = m.stage,
               m.at # 0 => m.at = pos[a] /\ pos'[a] = pos[a] /\ pc'[a] # "exec"
        PROVE  Said
    <3>1. /\ queue' \in [Agents -> Seq(Message)]
          /\ \A b \in Agents : \A i \in 1 .. Len(queue'[b]) :
               \/ i \in 1 .. Len(queue[b]) /\ queue'[b][i] = queue[b][i]
               \/ b = a /\ queue'[b][i] = m
      BY <1>1, <2>1, Appended
    <3>2. QED
      BY <2>1, <3>1
  <2>2. QED
    BY <1>2, <1>4, <2>1, AgentPosts DEF AgentStep
<1>5. CASE QuietStep \/ AbortStep
  BY <1>2, <1>5, QuietKeeps, AbortKeeps
<1>6. ASSUME NEW a \in Agents, Startup(a) \/ Stalled(a)  PROVE Said
  BY <1>2, <1>3, <1>6, StartupKeeps
<1>7. ASSUME NEW a \in Agents, Progress(a) \/ ErrorReceived(a)  PROVE Said
  <2>1. queue[a] # <<>> /\ queue' = [queue EXCEPT ![a] = Tail(@)]
    BY <1>7, ErrorKeeps, ProgressTracks
  <2>2. QED
    BY <1>3, <2>1
<1>8. QED
  BY <1>4, <1>5, <1>6, <1>7, StepKinds

LEMMA ReachedStays ==
    ASSUME ControllerTypes, ControllerNext, NEW a \in Agents, NEW kind
    PROVE  /\ Reached(a, kind) => Reached(a, kind)'
           /\ cfg.plan[pos[a]] = kind => Reached(a, kind)'
<1>1. /\ cfg' = cfg /\ Passes(a) /\ NumStages \in Nat
      /\ pos[a] \in 1 .. NumStages /\ pos'[a] \in 1 .. NumStages
  BY Frame, PlanStages DEF ControllerTypes
<1>2. pos[a] <= pos'[a] /\ pos[a] \in Nat /\ pos'[a] \in Nat
  BY <1>1 DEF Passes
<1>3. 1 .. pos[a] \subseteq 1 .. pos'[a] /\ pos[a] \in 1 .. pos'[a]
  BY <1>1, <1>2
<1>4. QED
  BY <1>1, <1>3 DEF Reached

LEMMA StagesNat == Stages \subseteq Nat
<1>1. ASSUME NEW r \in Runs  PROVE DOMAIN r.plan \subseteq Nat
  <2>1. r.plan \in Seq(Kinds)
    BY ControllerAssumption
  <2>2. QED
    BY <2>1
<1>2. QED
  BY <1>1 DEF Stages

\* Nobody executes a stage again
LEMMA PastStays ==
    ASSUME ControllerTypes, ControllerNext, NEW a \in Agents, NEW k \in Stages, Past(a, k)
    PROVE  Past(a, k)'
<1>1. /\ Passes(a) /\ NumStages \in Nat /\ k \in Nat
      /\ pos[a] \in 1 .. NumStages /\ pos'[a] \in 1 .. NumStages
  BY Frame, PlanStages, StagesNat DEF ControllerTypes
<1>2. pos[a] <= pos'[a] /\ pos[a] \in Nat /\ pos'[a] \in Nat
  BY <1>1 DEF Passes
<1>3. pos'[a] = pos[a] /\ pc'[a] = "exec" => pc[a] = "exec"
  BY <1>1, <1>2 DEF Passes
<1>4. QED
  BY <1>1, <1>2, <1>3 DEF Past

LEMMA HonestStep ==
    ASSUME ControllerTypes, HonestQueues, ControllerNext
    PROVE  HonestQueues'
<1>1. ASSUME NEW b \in Agents, NEW i \in 1 .. Len(queue'[b]), NEW m, m = queue'[b][i]
      PROVE  Honest(b, m)'
  <2>1. ASSUME NEW j \in 1 .. Len(queue[b]), m = queue[b][j]
        PROVE  Honest(b, m)'
    <3>1. Honest(b, m)
      BY <2>1 DEF HonestQueues
    <3>2. m \in Message
      <4>1. queue[b] \in Seq(Message)
        BY DEF ControllerTypes
      <4>2. QED
        BY <2>1, <4>1
    <3>3. m.at \in Stages \cup {0}
      BY <3>2 DEF Message
    <3>4. m.at # 0 => Past(b, m.at)'
      BY <3>1, <3>3, PastStays DEF Honest
    <3>5. m.stage # "unknown" => Reached(b, m.stage)'
      BY <3>1, ReachedStays DEF Honest
    <3>6. m.status = "completed" => pc'[b] = "done"
      BY <3>1, Frame DEF Honest
    <3>7. QED
      BY <3>4, <3>5, <3>6 DEF Honest
  <2>2. ASSUME m.status = "completed" => pc'[b] = "done",
               m.stage # "unknown" => cfg.plan[pos[b]] = m.stage,
               m.at # 0 => m.at = pos[b] /\ pos'[b] = pos[b] /\ pc'[b] # "exec"
        PROVE  Honest(b, m)'
    <3>1. m.at # 0 => Past(b, m.at)'
      BY <2>2 DEF Past
    <3>2. m.stage # "unknown" => Reached(b, m.stage)'
      BY <2>2, ReachedStays
    <3>3. QED
      BY <2>2, <3>1, <3>2 DEF Honest
  <2>3. QED
    BY <1>1, <2>1, <2>2, QueueStep
<1>2. QED
  BY <1>1 DEF HonestQueues

LEMMA HeadHonest ==
    ASSUME ControllerTypes, HonestQueues, NEW a \in Agents, queue[a] # <<>>
    PROVE  Honest(a, Head(queue[a]))
<1>1. queue[a] \in Seq(Message)
  BY DEF ControllerTypes
<1>2. Head(queue[a]) = queue[a][1] /\ 1 \in 1 .. Len(queue[a])
  BY <1>1
<1>3. QED
  BY <1>2 DEF HonestQueues

LEMMA TrackingStep ==
    ASSUME ControllerTypes, HonestQueues, Tracking, ControllerNext
    PROVE  Tracking' /\ tracker' \in [Agents -> ControllerAgentState]
<1>1. /\ tracker \in [Agents -> ControllerAgentState] /\ step # "bailed"
      /\ \A b \in Agents : pc[b] = "done" => pc'[b] = "done"
      /\ finals \subseteq finals'
      /\ \A b \in Agents : Reached(b, "cleanup") => Reached(b, "cleanup")'
  BY Frame, ReachedStays DEF ControllerTypes
<1>2. \A b \in Agents : /\ tracker[b] = "Completed" => pc[b] = "done" /\ b \in finals
                        /\ tracker[b] = "Cleaning" => Reached(b, "cleanup")
  BY <1>1 DEF Tracking
<1>3. CASE tracker' = tracker
  BY <1>1, <1>2, <1>3 DEF Tracking
<1>4. CASE AbortStep
  <2>1. tracker' = Aborted(tracker) /\ step' = "bailed"
    BY <1>4, AbortKeeps
  <2>2. QED
    BY <1>1, <2>1, AbortedType DEF Tracking
<1>5. ASSUME NEW a \in Agents, ErrorReceived(a)
      PROVE  Tracking' /\ tracker' \in [Agents -> ControllerAgentState]
  BY <1>5, ErrorKeeps DEF Tracking
<1>6. ASSUME NEW a \in Agents, NEW s \in ControllerAgentState, tracker' = [tracker EXCEPT ![a] = s],
             s = "Completed" => pc'[a] = "done" /\ a \in finals',
             s = "Cleaning" => Reached(a, "cleanup")'
      PROVE  Tracking' /\ tracker' \in [Agents -> ControllerAgentState]
  <2>1. ASSUME NEW b \in Agents
        PROVE  /\ tracker'[b] = "Completed" => pc'[b] = "done" /\ b \in finals'
               /\ tracker'[b] = "Cleaning" => Reached(b, "cleanup")'
    BY <1>1, <1>2, <1>6
  <2>2. QED
    BY <1>1, <1>6, <2>1 DEF Tracking
<1>7. ASSUME NEW a \in Agents, Startup(a) \/ Stalled(a)
      PROVE  Tracking' /\ tracker' \in [Agents -> ControllerAgentState]
  <2>1. PICK s \in ControllerAgentState :
          tracker' = [tracker EXCEPT ![a] = s] /\ (s \in {"Completed", "Cleaning"} => s = tracker[a])
    BY <1>7, StartupKeeps
  <2>2. /\ s = "Completed" => pc'[a] = "done" /\ a \in finals'
        /\ s = "Cleaning" => Reached(a, "cleanup")'
    BY <1>1, <1>2, <2>1
  <2>3. QED
    BY <1>6, <2>1, <2>2
<1>8. ASSUME NEW a \in Agents, Progress(a)
      PROVE  Tracking' /\ tracker' \in [Agents -> ControllerAgentState]
  <2> DEFINE m == Head(queue[a])
  <2>1. PICK s \in ControllerAgentState :
          /\ tracker' = [tracker EXCEPT ![a] = s]
          /\ s = "Completed" => tracker[a] = "Completed" \/ m.status = "completed"
          /\ s = "Cleaning" => tracker[a] = "Cleaning" \/ m.stage = "cleanup"
    BY <1>8, ProgressTracks
  <2>2. Honest(a, m)
    BY <1>8, ProgressTracks, HeadHonest
  <2>3. m.status = "completed" => a \in finals'
    BY <1>8, ProgressTracks
  <2> HIDE DEF m
  <2>4. /\ s = "Completed" => pc'[a] = "done" /\ a \in finals'
        /\ s = "Cleaning" => Reached(a, "cleanup")'
    BY <1>1, <1>2, <2>1, <2>2, <2>3 DEF Honest
  <2>5. QED
    BY <1>6, <2>1, <2>4
<1>9. QED
  BY <1>3, <1>4, <1>5, <1>7, <1>8, StepKinds, QuietKeeps, AgentStepKeeps

LEMMA CrossedStep ==
    ASSUME ControllerTypes, Crossed, ControllerNext
    PROVE  Crossed'
<1>1. /\ cfg' = cfg /\ NumStages' = NumStages /\ NumStages \in Nat
      /\ 1 .. NumStages \subseteq Stages /\ NumStages \in 1 .. NumStages
      /\ pos \in [Agents -> 1 .. NumStages]
      /\ passed \in [Agents -> Stages \cup {0}] /\ passed' \in [Agents -> Stages \cup {0}]
  <2>1. /\ cfg \in Runs /\ pos \in [Agents -> 1 .. NumStages]
        /\ passed \in [Agents -> Stages \cup {0}]
    BY DEF ControllerTypes
  <2>2. cfg' = cfg /\ passed' \in [Agents -> Stages \cup {0}]
    BY Frame
  <2>3. NumStages \in Nat /\ NumStages >= 2 /\ 1 .. NumStages \subseteq Stages
    BY <2>1, PlanStages
  <2>4. NumStages' = NumStages
    BY <2>2 DEF NumStages
  <2>5. QED
    BY <2>1, <2>2, <2>3, <2>4
<1>2. /\ \A j \in Stages : barrier[j].released = TRUE => barrier'[j].released = TRUE
      /\ \A b \in Agents : passed'[b] = passed[b] \/ barrier'[passed'[b]].released = TRUE
      /\ \A b \in Agents : Passes(b)
  BY Frame
<1>3. ASSUME NEW b \in Agents
      PROVE  /\ passed[b] # 0 => barrier[passed[b]].released = TRUE
             /\ \A k \in 1 .. NumStages : k < pos[b] => barrier[k].released = TRUE
             /\ pc[b] = "done" => pos[b] = NumStages /\ barrier[NumStages].released = TRUE
  BY DEF Crossed
<1>4. ASSUME NEW b \in Agents, passed'[b] # 0  PROVE barrier'[passed'[b]].released = TRUE
  BY <1>1, <1>2, <1>3, <1>4
<1>5. ASSUME NEW b \in Agents, passed[b] = pos[b]  PROVE barrier'[pos[b]].released = TRUE
  <2>1. pos[b] \in Stages /\ pos[b] # 0
    BY <1>1
  <2>2. QED
    BY <1>2, <1>3, <1>5, <2>1
<1>6. ASSUME NEW b \in Agents, NEW k \in 1 .. NumStages, k < pos'[b]
      PROVE  barrier'[k].released = TRUE
  <2>1. k \in Stages /\ pos[b] \in Nat /\ k \in Nat
    BY <1>1
  <2>2. CASE k < pos[b]
    BY <1>2, <1>3, <2>1, <2>2
  <2>3. CASE ~(k < pos[b])
    <3>1. passed[b] = pos[b] /\ k = pos[b]
      BY <1>2, <1>6, <2>1, <2>3 DEF Passes
    <3>2. QED
      BY <1>5, <3>1
  <2>4. QED
    BY <2>2, <2>3
<1>7. ASSUME NEW b \in Agents, pc'[b] = "done"
      PROVE  pos'[b] = NumStages /\ barrier'[NumStages].released = TRUE
  <2>1. CASE pos'[b] = pos[b] /\ pc[b] = "done"
    BY <1>1, <1>2, <1>3, <2>1
  <2>2. CASE passed[b] = pos[b] /\ pos[b] = NumStages /\ pos'[b] = pos[b]
    BY <1>5, <2>2
  <2>3. QED
    BY <1>2, <1>7, <2>1, <2>2 DEF Passes
<1>8. QED
  BY <1>1, <1>4, <1>6, <1>7 DEF Crossed

LEMMA TypesStep ==
    ASSUME CInv, ControllerNext
    PROVE  ControllerTypes'
<1>1. ControllerTypes /\ cfg \in Runs
  BY DEF CInv, ControllerTypes
<1>2. tracker' \in [Agents -> ControllerAgentState]
  BY TrackingStep DEF CInv
<1>3. queue' \in [Agents -> Seq(Message)]
  BY <1>1, QueueStep
<1>4. /\ cfg' = cfg
      /\ pos' \in [Agents -> 1 .. NumStages] /\ pc' \in [Agents -> PcSet]
      /\ barrier' \in [Stages -> [ready : SUBSET Agents, released : BOOLEAN]]
      /\ passed' \in [Agents -> Stages \cup {0}] /\ finals' \subseteq Agents
  BY <1>1, Frame
<1>5. NumStages' = NumStages /\ Stages' = Stages /\ Message' = Message
  BY <1>4 DEF NumStages, Stages, Message
<1>6. QED
  BY <1>1, <1>2, <1>3, <1>4, <1>5 DEF ControllerTypes, PcSet

LEMMA ControllerInitially == ControllerInit => CInv
<1> SUFFICES ASSUME ControllerInit PROVE CInv
  OBVIOUS
<1>1. cfg \in Runs /\ NumStages \in Nat /\ NumStages >= 2 /\ 1 \in 1 .. NumStages
  BY PlanStages DEF ControllerInit
<1>2. \A a \in Agents : queue[a] = <<>> /\ pc[a] = "exec" /\ tracker[a] = "Connecting"
                        /\ pos[a] = 1 /\ passed[a] = 0
  BY DEF ControllerInit
<1>3. ControllerTypes
  BY <1>1 DEF ControllerInit, ControllerTypes, ControllerAgentState
<1>4. HonestQueues
  BY <1>2 DEF HonestQueues
<1>5. Tracking
  BY <1>2 DEF Tracking
<1>6. Crossed
  BY <1>1, <1>2 DEF Crossed
<1>7. QED
  BY <1>3, <1>4, <1>5, <1>6 DEF CInv

LEMMA ControllerStepInvariant == CInv /\ [ControllerNext]_cvars => CInv'
<1> SUFFICES ASSUME CInv, [ControllerNext]_cvars PROVE CInv'
  OBVIOUS
<1>1. CASE ControllerNext
  BY <1>1, TypesStep, HonestStep, TrackingStep, CrossedStep DEF CInv
<1>2. CASE UNCHANGED cvars
  <2>1. UNCHANGED <<cfg, pos, pc, passed, queue, step, tracker, barrier, finals>>
    BY <1>2 DEF cvars, agentVars, trackVars, resultVars
  <2>2. NumStages' = NumStages /\ Stages' = Stages /\ Message' = Message
    BY <2>1 DEF NumStages, Stages, Message
  <2>3. ControllerTypes'
    BY <2>1, <2>2 DEF CInv, ControllerTypes
  <2>4. HonestQueues'
    BY <2>1 DEF CInv, HonestQueues, Honest, Reached, Past
  <2>5. Tracking'
    BY <2>1 DEF CInv, Tracking, Reached
  <2>6. Crossed'
    BY <2>1, <2>2 DEF CInv, Crossed
  <2>7. QED
    BY <2>3, <2>4, <2>5, <2>6 DEF CInv
<1>3. QED
  BY <1>1, <1>2

LEMMA ControllerInvariant == ControllerSpec => []CInv
  BY ControllerInitially, ControllerStepInvariant, PTL DEF ControllerSpec

\* The trackers of the main loop (controller.rs, the 'main loop) are never ahead
\* of their agents while the run lasts: Completed is said of an agent that is
\* done, Cleaning of one that has reached a cleanup stage, also when the tracker
\* comes back from Disconnected; for any plan, any policy, any number of faults.
THEOREM TrackersBehind == ControllerSpec => []TrackerNotAhead
<1>1. CInv => TrackerNotAhead
  BY DEF CInv, Tracking, TrackerNotAhead, Reached
<1>2. QED
  BY <1>1, ControllerInvariant, PTL
-----------------------------------------------------------------------------
(***************************************************************************)
(* The verdict                                                             *)
(***************************************************************************)

\* SUCCESS speaks of the agents that check_test_status counts, and of every
\* barrier of the plan
SuccessOfTheCounted ==
    verdict = "success" /\ step # "bailed" =>
        /\ Agents \ cfg.known # {}
        /\ \A a \in Agents \ cfg.known : pc[a] = "done" /\ a \in finals
        /\ \A k \in 1 .. NumStages : barrier[k].released

LEMMA DoneReleased ==
    ASSUME CInv, NEW a \in Agents, pc[a] = "done", NEW k \in 1 .. NumStages
    PROVE  barrier[k].released = TRUE
<1>1. pos[a] = NumStages /\ barrier[NumStages].released = TRUE
  BY DEF CInv, Crossed
<1>2. NumStages \in Nat
  BY PlanStages DEF CInv, ControllerTypes
<1>3. CASE k = NumStages
  BY <1>1, <1>3
<1>4. CASE k # NumStages
  <2>1. k < pos[a]
    BY <1>1, <1>2, <1>4
  <2>2. QED
    BY <2>1 DEF CInv, Crossed
<1>5. QED
  BY <1>3, <1>4

LEMMA VerdictStep ==
    ASSUME CInv, SuccessOfTheCounted, ControllerNext
    PROVE  SuccessOfTheCounted'
<1>1. ControllerTypes /\ cfg \in Runs
  BY DEF CInv, ControllerTypes
<1>2. /\ cfg' = cfg /\ step # "bailed"
      /\ \A b \in Agents : pc[b] = "done" => pc'[b] = "done"
      /\ \A j \in Stages : barrier[j].released = TRUE => barrier'[j].released = TRUE
      /\ finals \subseteq finals'
      /\ barrier \in [Stages -> [ready : SUBSET Agents, released : BOOLEAN]]
  BY <1>1, Frame DEF ControllerTypes
<1>3. NumStages' = NumStages /\ 1 .. NumStages \subseteq Stages
  BY <1>1, <1>2, PlanStages DEF NumStages
<1>4. ASSUME verdict' = verdict  PROVE SuccessOfTheCounted'
  <2>1. SUFFICES ASSUME verdict = "success"  PROVE SuccessOfTheCounted'
    BY <1>4 DEF SuccessOfTheCounted
  <2>2. /\ Agents \ cfg.known # {}
        /\ \A a \in Agents \ cfg.known : pc[a] = "done" /\ a \in finals
        /\ \A k \in 1 .. NumStages : barrier[k].released
    BY <1>2, <2>1 DEF SuccessOfTheCounted
  <2>3. \A k \in 1 .. NumStages : barrier[k].released = TRUE
    BY <1>2, <1>3, <2>2
  <2>4. \A k \in 1 .. NumStages : barrier'[k].released = TRUE
    BY <1>2, <1>3, <2>3
  <2>5. QED
    BY <1>2, <1>3, <2>2, <2>4 DEF SuccessOfTheCounted
<1>5. CASE CheckTestStatus
  <2>1. SUFFICES ASSUME verdict' = "success"  PROVE SuccessOfTheCounted'
    BY DEF SuccessOfTheCounted
  <2>2. Agents \ cfg.known # {} /\ \A a \in Agents \ cfg.known : tracker[a] = "Completed"
    BY <1>5, <2>1 DEF CheckTestStatus, TestStatus
  <2>3. \A a \in Agents \ cfg.known : pc[a] = "done" /\ a \in finals
    BY <1>2, <2>2 DEF CInv, Tracking
  <2>4. \A k \in 1 .. NumStages : barrier[k].released = TRUE
    BY <2>2, <2>3, DoneReleased
  <2>5. \A k \in 1 .. NumStages : barrier'[k].released = TRUE
    BY <1>2, <1>3, <2>4
  <2>6. QED
    BY <1>2, <1>3, <2>2, <2>3, <2>5 DEF SuccessOfTheCounted
<1>6. ASSUME step' = "bailed"  PROVE SuccessOfTheCounted'
  BY <1>6 DEF SuccessOfTheCounted
<1>7. QuietStep => SuccessOfTheCounted'
  BY <1>1, <1>4, <1>5, QuietKeeps
<1>8. AbortStep => SuccessOfTheCounted'
  BY <1>1, <1>6, AbortKeeps
<1>9. ASSUME NEW a \in Agents, AgentStep(a) \/ Startup(a) \/ Progress(a) \/ Stalled(a)
      PROVE  verdict' = verdict
  BY <1>1, <1>9, AgentStepKeeps, StartupKeeps, ProgressTracks
<1>10. ASSUME NEW a \in Agents, ErrorReceived(a)  PROVE SuccessOfTheCounted'
  BY <1>1, <1>6, <1>10, ErrorKeeps
<1>11. QED
  BY <1>4, <1>7, <1>8, <1>9, <1>10, StepKinds

\* check_test_status counts the agents with an id of their own only.  Of these,
\* SUCCESS at the end of a run is true: each of them is done and its summary
\* collected, and every barrier of the plan was released; for any mixture of ids.
THEOREM CountedAgentsDone == ControllerSpec => []SuccessOfTheCounted
<1>1. ControllerInit => SuccessOfTheCounted
  BY DEF ControllerInit, SuccessOfTheCounted
<1>2. CInv /\ SuccessOfTheCounted /\ [ControllerNext]_cvars => SuccessOfTheCounted'
  <2> SUFFICES ASSUME CInv, SuccessOfTheCounted, [ControllerNext]_cvars
               PROVE  SuccessOfTheCounted'
    OBVIOUS
  <2>1. CASE UNCHANGED cvars
    BY <2>1 DEF cvars, agentVars, resultVars, endVars, SuccessOfTheCounted, NumStages
  <2>2. QED
    BY <2>1, VerdictStep
<1>3. QED
  BY <1>1, <1>2, ControllerInvariant, PTL DEF ControllerSpec

\* STATUS.txt of a run whose agents all have ids of their own, or all go by their
\* addresses: SUCCESS means that every agent went through every stage and said
\* so.  With both sorts of agents in one run it does not (see the README).
THEOREM VerdictsTrue ==
    ASSUME \A r \in Runs : r.known = {} \/ r.known = Agents
    PROVE  ControllerSpec => []VerdictTruthful
<1>1. CInv /\ SuccessOfTheCounted => VerdictTruthful
  <2> SUFFICES ASSUME CInv, SuccessOfTheCounted, verdict = "success", step # "bailed"
               PROVE  AllDone
    BY DEF VerdictTruthful
  <2>1. cfg \in Runs
    BY DEF CInv, ControllerTypes
  <2>2. cfg.known = {}
    BY <2>1 DEF SuccessOfTheCounted
  <2>3. QED
    BY <2>2 DEF SuccessOfTheCounted, AllDone
<1>2. QED
  BY <1>1, ControllerInvariant, CountedAgentsDone, PTL
-----------------------------------------------------------------------------
(***************************************************************************)
(* The barriers                                                            *)
(***************************************************************************)

ReadyPast == \A k \in Stages : \A a \in barrier[k].ready : Past(a, k)

Manager == [ready : SUBSET Agents, failed : SUBSET Agents,
            missed : [Agents -> 0 .. MissedThreshold], asked : SUBSET Agents]

\* The liveness check has given up on agents of the run only; who is at the
\* threshold is being queried or was given up
ManagerOK ==
    /\ manager \in Manager
    /\ \A a \in Agents : manager.missed[a] = MissedThreshold => a \in manager.asked \cup manager.failed
    /\ manager.asked # {} => step = "wait"

\* n of the agents are enough for the policy when f of them are given up
Enough(n, f) ==
    /\ cfg.policy = "AllOrNothing" => n = Cardinality(Agents)
    /\ cfg.policy = "Majority"     => 2 * n > Cardinality(Agents)
    /\ cfg.policy = "BestEffort"   => n + f >= Cardinality(Agents)

\* Enough agents had reported a barrier that is released
Gathered ==
    step # "bailed" =>
    \A k \in Stages : barrier[k].released =>
        Enough(Cardinality(barrier[k].ready), Cardinality(manager.failed))

BInv == ReadyPast /\ ManagerOK /\ Gathered

\* What the controller promises of its stage barriers: when the barrier of stage
\* k is released, enough agents are past the stage
StagesSynchronised ==
    step # "bailed" =>
    \A k \in Stages : barrier[k].released =>
        Enough(Cardinality({a \in Agents : Past(a, k)}), Cardinality(manager.failed))

LEMMA AgentsFinite ==
    ASSUME NEW S \in SUBSET Agents
    PROVE  /\ IsFiniteSet(S) /\ Cardinality(S) \in Nat /\ Cardinality(Agents) \in Nat
           /\ Cardinality(S) <= Cardinality(Agents)
<1>1. IsFiniteSet(Agents)
  BY ControllerAssumption
<1>2. IsFiniteSet(S) /\ Cardinality(S) <= Cardinality(Agents)
  BY <1>1, FS_Subset
<1>3. QED
  BY <1>1, <1>2, FS_CardinalityType

LEMMA EnoughGrows ==
    ASSUME NEW T \in SUBSET Agents, NEW S \in SUBSET T, NEW G \in SUBSET Agents, NEW F \in SUBSET G,
           Enough(Cardinality(S), Cardinality(F))
    PROVE  Enough(Cardinality(T), Cardinality(G))
<1>1. Cardinality(S) <= Cardinality(T) /\ Cardinality(F) <= Cardinality(G)
  BY AgentsFinite, FS_Subset
<1>2. /\ Cardinality(S) \in Nat /\ Cardinality(T) \in Nat /\ Cardinality(F) \in Nat
      /\ Cardinality(G) \in Nat /\ Cardinality(Agents) \in Nat
      /\ Cardinality(T) <= Cardinality(Agents)
  BY AgentsFinite
<1>3. QED
  BY <1>1, <1>2 DEF Enough

\* check_barrier_ready releases when there are enough, and with nobody given up
\* it is the same thing
LEMMA ReleasedEnough ==
    ASSUME NEW S \in SUBSET Agents, NEW F \in SUBSET Agents, cfg \in Runs
    PROVE  /\ CanRelease(cfg.policy, Cardinality(S), Cardinality(Agents), Cardinality(F)) =>
                Enough(Cardinality(S), Cardinality(F))
           /\ Enough(Cardinality(S), 0) =>
                CanRelease(cfg.policy, Cardinality(S), Cardinality(Agents), 0)
<1>1. /\ Cardinality(S) \in Nat /\ Cardinality(F) \in Nat /\ Cardinality(Agents) \in Nat
      /\ Cardinality(S) <= Cardinality(Agents)
  BY AgentsFinite
<1>2. Cardinality(Agents) # 0
  BY ControllerAssumption, FS_EmptySet
<1>3. cfg.policy \in BarrierTypes
  BY ControllerAssumption
<1>4. QED
  BY <1>1, <1>2, <1>3 DEF CanRelease, Enough, BarrierTypes

\* Barriers change by the reports handled in the main loop only
LEMMA BarrierSteps ==
    ASSUME ControllerTypes, ControllerNext, barrier' # barrier
    PROVE  \E a \in Agents, k \in Stages :
             /\ Progress(a) /\ Head(queue[a]).at = k
             /\ barrier'[k].ready = barrier[k].ready \cup {a}
             /\ barrier'[k].released = TRUE =>
                  \/ barrier[k].released = TRUE
                  \/ CanRelease(cfg.policy, Cardinality(barrier[k].ready \cup {a}),
                                Cardinality(Agents), Cardinality(manager.failed))
             /\ \A j \in Stages \ {k} : barrier'[j] = barrier[j]
<1>1. PICK a \in Agents : Progress(a)
  BY StepKinds, QuietKeeps, AbortKeeps, AgentStepKeeps, StartupKeeps, ErrorKeeps DEF BarriersKept
<1> DEFINE k == Head(queue[a]).at
<1>2. k \in Stages \cup {0} /\ (IF k # 0 THEN AtBarrier(a, k) ELSE BarriersKept)
  BY <1>1, ProgressTracks DEF Message
<1>3. k \in Stages /\ AtBarrier(a, k)
  BY <1>2 DEF BarriersKept
<1> HIDE DEF k
<1> DEFINE ready == barrier[k].ready \cup {a}
           release == /\ ~barrier[k].released
                      /\ CanRelease(cfg.policy, Cardinality(ready), Cardinality(Agents),
                                    Cardinality(manager.failed))
<1>4. barrier' = [barrier EXCEPT ![k] = [ready |-> ready, released |-> barrier[k].released \/ release]]
  BY <1>3 DEF AtBarrier
<1>5. barrier \in [Stages -> [ready : SUBSET Agents, released : BOOLEAN]] /\ barrier[k].released \in BOOLEAN
  BY <1>3 DEF ControllerTypes
<1> HIDE DEF release
<1>6. barrier'[k].ready = ready /\ barrier'[k].released = (barrier[k].released \/ release)
  BY <1>3, <1>4, <1>5
<1>7. \A j \in Stages \ {k} : barrier'[j] = barrier[j]
  BY <1>4, <1>5
<1>8. barrier'[k].released = TRUE => barrier[k].released = TRUE \/ release
  BY <1>5, <1>6
<1>9. QED
  BY <1>1, <1>3, <1>6, <1>7, <1>8 DEF release, k

LEMMA ReadyPastStep ==
    ASSUME CInv, ReadyPast, ControllerNext
    PROVE  ReadyPast'
<1>1. ControllerTypes /\ HonestQueues
  BY DEF CInv
<1>2. ASSUME NEW j \in Stages, NEW b \in barrier'[j].ready  PROVE b \in Agents /\ Past(b, j)'
  <2>1. \A c \in barrier[j].ready : c \in Agents /\ Past(c, j)
    BY <1>1 DEF ReadyPast, ControllerTypes
  <2>2. CASE b \in barrier[j].ready
    BY <1>1, <2>1, <2>2, PastStays
  <2>3. CASE b \notin barrier[j].ready
    <3>1. barrier' # barrier
      BY <1>2, <2>3
    <3>2. PICK a \in Agents, k \in Stages :
             /\ Progress(a) /\ Head(queue[a]).at = k
             /\ barrier'[k].ready = barrier[k].ready \cup {a}
             /\ \A i \in Stages \ {k} : barrier'[i] = barrier[i]
      BY <1>1, <3>1, BarrierSteps
    <3>3. b = a /\ j = k
      BY <1>2, <2>3, <3>2
    <3>4. Honest(a, Head(queue[a]))
      BY <1>1, <3>2, ProgressTracks, HeadHonest
    <3>5. k # 0
      BY <1>1, <3>1, <3>2, ProgressTracks DEF BarriersKept
    <3>6. Past(a, k)
      BY <3>2, <3>4, <3>5 DEF Honest
    <3>7. QED
      BY <1>1, <3>3, <3>6, PastStays
  <2>4. QED
    BY <2>2, <2>3
<1>3. QED
  BY <1>2 DEF ReadyPast

\* A heartbeat takes the agent from the queried ones and starts its count anew
LEMMA HeartbeatType ==
    ASSUME NEW m \in Manager, NEW a \in Agents, NEW arrived \in BOOLEAN,
           \A b \in Agents : m.missed[b] = MissedThreshold => b \in m.asked \cup m.failed
    PROVE  LET h == Heartbeat(m, a, arrived) IN
           /\ h \in Manager /\ h.failed = m.failed /\ h.asked \subseteq m.asked
           /\ \A b \in Agents : h.missed[b] = MissedThreshold => b \in h.asked \cup h.failed
<1> DEFINE h == Heartbeat(m, a, arrived)
<1>1. MissedThreshold \in Nat /\ MissedThreshold # 0
  BY ControllerAssumption
<1>2. CASE a \notin cfg.known
  BY <1>2 DEF Heartbeat
<1>3. CASE a \in cfg.known
  <2>1. /\ h.missed = [m.missed EXCEPT ![a] = 0] /\ h.asked = m.asked \ {a} /\ h.failed = m.failed
        /\ h.ready = IF arrived THEN m.ready \cup {a} ELSE m.ready
        /\ h = [ready |-> h.ready, failed |-> h.failed, missed |-> h.missed, asked |-> h.asked]
    BY <1>3 DEF Heartbeat, Manager
  <2> HIDE DEF h
  <2>2. h.missed \in [Agents -> 0 .. MissedThreshold]
    BY <1>1, <2>1 DEF Manager
  <2>3. h.ready \in SUBSET Agents /\ h.asked \in SUBSET Agents /\ h.failed \in SUBSET Agents
    BY <2>1 DEF Manager
  <2>4. h \in Manager
    BY <2>1, <2>2, <2>3 DEF Manager
  <2>5. \A b \in Agents : h.missed[b] = MissedThreshold => b \in h.asked \cup h.failed
    BY <1>1, <2>1 DEF Manager
  <2>6. QED
    BY <2>1, <2>4, <2>5 DEF h
<1>4. QED
  BY <1>2, <1>3

\* Only the phase barrier gives agents up, and only its failure forgets that
LEMMA ManagerStep ==
    ASSUME ControllerTypes, ManagerOK, ControllerNext
    PROVE  /\ ManagerOK'
           /\ manager'.failed # manager.failed => step = "wait" /\ step' \in {"wait", "bailed"}
           /\ step' # "bailed" => manager.failed \subseteq manager'.failed
<1> DEFINE Counted(m) == \A a \in Agents : m.missed[a] = MissedThreshold => a \in m.asked \cup m.failed
<1>1. /\ manager \in Manager /\ Counted(manager) /\ (manager.asked # {} => step = "wait")
      /\ MissedThreshold \in Nat /\ MissedThreshold # 0
  BY ControllerAssumption DEF ManagerOK, Manager
<1>2. ASSUME manager' \in Manager, Counted(manager'), manager'.asked # {} => step' = "wait"
      PROVE  ManagerOK'
  BY <1>2 DEF ManagerOK, Manager
<1> USE DEF agentVars, trackVars, resultVars, endVars
<1>3. ASSUME manager' = manager, step = "wait" => step' = "wait" \/ manager.asked = {}
      PROVE  ManagerOK' /\ manager'.failed = manager.failed
  BY <1>1, <1>2, <1>3
<1>4. ASSUME NEW a \in Agents, Progress(a)
      PROVE  ManagerOK' /\ manager'.failed = manager.failed
  <2> DEFINE at == Head(queue[a]).at # 0 \/ Head(queue[a]).status = "completed"
  <2>1. manager' = Heartbeat(manager, a, at) /\ step # "wait"
    BY <1>4 DEF Progress
  <2>2. manager.asked = {} /\ at \in BOOLEAN
    BY <1>1, <2>1
  <2> HIDE DEF at
  <2>3. QED
    BY <1>1, <1>2, <2>1, <2>2, HeartbeatType
<1>5. CASE BarrierMissed
  <2>1. step = "wait" /\ manager.asked = {} /\ step' = "bailed" /\ manager' \in {manager, NewManager}
    BY <1>5 DEF BarrierMissed, Bail
  <2>2. NewManager \in Manager /\ Counted(NewManager) /\ NewManager.asked = {}
    BY <1>1 DEF NewManager, Manager
  <2>3. QED
    BY <1>1, <1>2, <2>1, <2>2
<1>6. CASE CheckLiveness
  <2>1. step = "wait" /\ step' = "wait" /\ manager.asked = {}
    BY <1>6 DEF CheckLiveness
  <2>2. PICK late \in SUBSET (Agents \ manager.failed) :
          manager' = [manager EXCEPT
             !.missed = [a \in Agents |-> IF a \in late THEN manager.missed[a] + 1 ELSE manager.missed[a]],
             !.asked = {a \in late : [b \in Agents |-> IF b \in late THEN manager.missed[b] + 1
                                                       ELSE manager.missed[b]][a] = MissedThreshold}]
    BY <1>6 DEF CheckLiveness
  <2> DEFINE missed == [a \in Agents |-> IF a \in late THEN manager.missed[a] + 1 ELSE manager.missed[a]]
             asked == {a \in late : missed[a] = MissedThreshold}
  <2>3. /\ manager'.missed = missed /\ manager'.asked = asked
        /\ manager'.failed = manager.failed /\ manager'.ready = manager.ready
        /\ manager' = [ready |-> manager.ready, failed |-> manager.failed, missed |-> missed, asked |-> asked]
    BY <1>1, <2>2 DEF Manager
  <2>4. \A a \in late : manager.missed[a] # MissedThreshold
    BY <1>1, <2>1
  <2>5. missed \in [Agents -> 0 .. MissedThreshold] /\ asked \in SUBSET Agents
    BY <1>1, <2>4 DEF Manager
  <2>6. manager' \in Manager
    BY <1>1, <2>3, <2>5 DEF Manager
  <2>7. Counted(manager')
    BY <1>1, <2>1, <2>3
  <2>8. QED
    BY <1>2, <2>1, <2>3, <2>6, <2>7
<1>7. ASSUME NEW a \in Agents, Query(a)
      PROVE  ManagerOK' /\ step = "wait" /\ step' = "wait" /\ manager.failed \subseteq manager'.failed
  <2>1. step = "wait" /\ step' = "wait" /\ a \in manager.asked
    BY <1>7 DEF Query
  <2>2. CASE manager' = Heartbeat(manager, a, pc[a] \in {"barrier", "done"})
    <3> DEFINE at == pc[a] \in {"barrier", "done"}
    <3>1. at \in BOOLEAN /\ manager' = Heartbeat(manager, a, at)
      BY <2>2
    <3> HIDE DEF at
    <3>2. QED
      BY <1>1, <1>2, <2>1, <3>1, HeartbeatType
  <2>3. CASE manager' = [manager EXCEPT !.asked = @ \ {a}, !.failed = @ \cup {a}]
    <3>1. /\ manager'.missed = manager.missed /\ manager'.asked = manager.asked \ {a}
          /\ manager'.failed = manager.failed \cup {a} /\ manager' \in Manager
      BY <1>1, <2>3 DEF Manager
    <3>2. QED
      BY <1>1, <1>2, <2>1, <3>1
  <2>4. QED
    BY <1>7, <2>2, <2>3 DEF Query
<1>8. CASE StartupEnds \/ Signal
  BY <1>1, <1>3, <1>8 DEF StartupEnds, Signal
<1>9. ASSUME NEW a \in Agents, Startup(a) \/ Stalled(a) \/ ErrorReceived(a) \/ AgentStep(a)
      PROVE  ManagerOK' /\ manager'.failed = manager.failed
  <2>1. manager' = manager /\ (step = "wait" => step' = "wait")
    BY <1>9 DEF Startup, Stalled, ErrorReceived, AgentStep, SendStats, EndStage, PassBarrier, GiveUp,
       Fault, KeepAliveFails, Out
  <2>2. QED
    BY <1>3, <2>1
<1>10. CASE Deploy \/ ConnectAll \/ Validate \/ BarrierMet \/ Goodbye \/ WriteResults
            \/ CheckTestStatus \/ Finish
  <2>1. manager' = manager /\ (step = "wait" => manager.asked = {})
    BY <1>10 DEF Deploy, ConnectAll, Validate, BarrierMet, Goodbye, WriteResults, CheckTestStatus,
       Finish, To, End
  <2>2. QED
    BY <1>3, <2>1
<1>11. QED
  BY <1>4, <1>5, <1>6, <1>7, <1>8, <1>9, <1>10, StepKinds DEF QuietStep, AbortStep

\* A report adds an agent; a barrier that opens had enough of them
LEMMA ReadyGrows ==
    ASSUME ControllerTypes, ManagerOK, ControllerNext, NEW k \in Stages
    PROVE  /\ barrier[k].ready \in SUBSET Agents /\ barrier'[k].ready \in SUBSET Agents
           /\ barrier[k].ready \subseteq barrier'[k].ready
           /\ barrier[k].released \in BOOLEAN /\ barrier'[k].released \in BOOLEAN
           /\ barrier'[k].released => \/ barrier[k].released
                                      \/ Enough(Cardinality(barrier'[k].ready), Cardinality(manager.failed))
<1>1. /\ barrier \in [Stages -> [ready : SUBSET Agents, released : BOOLEAN]]
      /\ barrier' \in [Stages -> [ready : SUBSET Agents, released : BOOLEAN]]
      /\ cfg \in Runs /\ manager.failed \in SUBSET Agents
  BY Frame DEF ControllerTypes, ManagerOK, Manager
<1>2. CASE barrier'[k] = barrier[k]
  BY <1>1, <1>2
<1>3. CASE barrier'[k] # barrier[k]
  <2>1. PICK a \in Agents :
          /\ barrier'[k].ready = barrier[k].ready \cup {a}
          /\ barrier'[k].released = TRUE =>
               \/ barrier[k].released = TRUE
               \/ CanRelease(cfg.policy, Cardinality(barrier[k].ready \cup {a}),
                             Cardinality(Agents), Cardinality(manager.failed))
    BY <1>3, BarrierSteps
  <2>2. QED
    BY <1>1, <2>1, ReleasedEnough
<1>4. QED
  BY <1>2, <1>3

LEMMA GatheredStep ==
    ASSUME ControllerTypes, ManagerOK, Gathered, ControllerNext
    PROVE  Gathered'
<1>1. SUFFICES ASSUME step' # "bailed", NEW k \in Stages, barrier'[k].released
               PROVE  Enough(Cardinality(barrier[k].ready), Cardinality(manager.failed))'
  BY DEF Gathered
<1>2. /\ step # "bailed" /\ cfg' = cfg
      /\ manager.failed \subseteq manager'.failed /\ manager'.failed \in SUBSET Agents
  BY <1>1, Frame, ManagerStep DEF ManagerOK, Manager
<1>3. CASE barrier[k].released
  <2>1. Enough(Cardinality(barrier[k].ready), Cardinality(manager.failed))
    BY <1>2, <1>3 DEF Gathered
  <2>2. Enough(Cardinality(barrier'[k].ready), Cardinality(manager'.failed))
    BY <1>2, <2>1, ReadyGrows, EnoughGrows
  <2>3. QED
    BY <1>2, <2>2 DEF Enough
<1>4. CASE ~barrier[k].released
  <2>1. Enough(Cardinality(barrier'[k].ready), Cardinality(manager.failed))
    BY <1>1, <1>4, ReadyGrows
  <2>2. Enough(Cardinality(barrier'[k].ready), Cardinality(manager'.failed))
    BY <1>2, <2>1, ReadyGrows, EnoughGrows
  <2>3. QED
    BY <1>2, <2>2 DEF Enough
<1>5. QED
  BY <1>3, <1>4

LEMMA BarriersInvariant == ControllerSpec => []BInv
<1>1. ControllerInit => BInv
  <2> SUFFICES ASSUME ControllerInit PROVE BInv
    OBVIOUS
  <2>1. \A k \in Stages : barrier[k].ready = {} /\ barrier[k].released = FALSE
    BY DEF ControllerInit
  <2>2. manager \in Manager /\ manager.asked = {} /\ \A a \in Agents : manager.missed[a] # MissedThreshold
    BY ControllerAssumption DEF ControllerInit, NewManager, Manager
  <2>3. QED
    BY <2>1, <2>2 DEF BInv, ReadyPast, ManagerOK, Gathered
<1>2. CInv /\ BInv /\ [ControllerNext]_cvars => BInv'
  <2> SUFFICES ASSUME CInv, BInv, [ControllerNext]_cvars PROVE BInv'
    OBVIOUS
  <2>1. CASE ControllerNext
    BY <2>1, ReadyPastStep, ManagerStep, GatheredStep DEF BInv, CInv
  <2>2. CASE UNCHANGED cvars
    <3>1. UNCHANGED <<cfg, pos, pc, step, barrier, manager>>
      BY <2>2 DEF cvars, agentVars, resultVars
    <3>2. ReadyPast' /\ ManagerOK' /\ Gathered'
      BY <3>1 DEF BInv, ReadyPast, Past, ManagerOK, Gathered, Enough
    <3>3. QED
      BY <3>2 DEF BInv
  <2>3. QED
    BY <2>1, <2>2
<1>3. QED
  BY <1>1, <1>2, ControllerInvariant, PTL DEF ControllerSpec

\* The barriers of the controller as a whole (agent_at_barrier,
\* check_barrier_ready, clear_barrier, with the liveness check beside them): for
\* any plan, a released stage barrier means that all agents, more than half of
\* them, or all but those the liveness check gave up, as the policy asks, are
\* really past the stage.  Late and repeated reports, trackers that are
\* disconnected and recovered, and phase barriers in between change nothing.
THEOREM ReleasesMeetPolicy == ControllerSpec => []StagesSynchronised
<1>1. CInv /\ BInv => StagesSynchronised
  <2> SUFFICES ASSUME CInv, BInv, step # "bailed", NEW k \in Stages, barrier[k].released
               PROVE  Enough(Cardinality({a \in Agents : Past(a, k)}), Cardinality(manager.failed))
    BY DEF StagesSynchronised
  <2>1. barrier[k].ready \subseteq {a \in Agents : Past(a, k)}
    BY DEF CInv, ControllerTypes, BInv, ReadyPast
  <2>2. manager.failed \in SUBSET Agents
    BY DEF BInv, ManagerOK, Manager
  <2>3. Enough(Cardinality(barrier[k].ready), Cardinality(manager.failed))
    BY DEF BInv, Gathered
  <2>4. {a \in Agents : Past(a, k)} \in SUBSET Agents
    OBVIOUS
  <2>5. QED
    BY <2>1, <2>2, <2>3, <2>4, EnoughGrows
<1>2. QED
  BY <1>1, ControllerInvariant, BarriersInvariant, PTL
-----------------------------------------------------------------------------
(***************************************************************************)
(* The phase barrier                                                       *)
(***************************************************************************)

\* Plans that prepare before they execute
PrepareFirst ==
    \A r \in Runs : \A j, k \in DOMAIN r.plan :
        r.plan[j] = "prepare" /\ r.plan[k] = "execute" => j < k

Prepares(k) == k \in 1 .. NumStages /\ cfg.plan[k] = "prepare"

\* In such a run the phase barrier comes after the barriers of the prepare
\* stages, and these were released while nobody was given up
PInv ==
    /\ last_stage = "prepare" => \E k \in Stages : Prepares(k)
    /\ step = "wait" => \E k \in Stages : Prepares(k)
    /\ step = "wait" \/ manager.failed # {} =>
         \A k \in Stages : Prepares(k) => barrier[k].released
    /\ \A k \in Stages : Prepares(k) /\ barrier[k].released =>
         Enough(Cardinality(barrier[k].ready), 0)

\* The wait begins with the statistics of an execute stage after those of a
\* prepare stage
LEMMA WaitBegins ==
    ASSUME ControllerTypes, ControllerNext
    PROVE  /\ last_stage' # last_stage =>
                \E a \in Agents : Progress(a) /\ last_stage' = Head(queue[a]).stage
           /\ step' = "wait" /\ step # "wait" =>
                \E a \in Agents : /\ Progress(a) /\ last_stage = "prepare"
                                  /\ Head(queue[a]).stage = "execute"
<1> USE DEF agentVars, trackVars, resultVars, endVars
<1>1. ASSUME NEW a \in Agents, Progress(a)
      PROVE  /\ last_stage' = Head(queue[a]).stage
             /\ step' = "wait" => last_stage = "prepare" /\ Head(queue[a]).stage = "execute"
  BY <1>1 DEF Progress, PhaseSwitches
<1>2. ASSUME NEW a \in Agents, Startup(a) \/ Stalled(a) \/ ErrorReceived(a) \/ AgentStep(a)
      PROVE  last_stage' = last_stage /\ (step' = "wait" => step = "wait")
  <2>1. CASE Startup(a) \/ Stalled(a) \/ ErrorReceived(a)
    BY <2>1 DEF Startup, Stalled, ErrorReceived, Bail
  <2>2. CASE AgentStep(a)
    BY <2>2 DEF AgentStep, SendStats, EndStage, PassBarrier, GiveUp, Fault, KeepAliveFails, Out
  <2>3. QED
    BY <1>2, <2>1, <2>2
<1>3. CASE AbortStep
  BY <1>3 DEF AbortStep, StartupEnds, Signal, BarrierMissed, Bail
<1>4. CASE QuietStep
  BY <1>4 DEF QuietStep, Deploy, ConnectAll, Validate, BarrierMet, CheckLiveness, Query, Goodbye,
     WriteResults, CheckTestStatus, Finish, To, End, WaitUnchanged
<1>5. QED
  BY <1>1, <1>2, <1>3, <1>4, StepKinds

\* Who is executing has been let past every prepare stage
LEMMA ExecutingPast ==
    ASSUME PrepareFirst, CInv, NEW a \in Agents, Reached(a, "execute"),
           NEW k \in Stages, Prepares(k)
    PROVE  barrier[k].released = TRUE
<1>1. /\ cfg \in Runs /\ pos[a] \in 1 .. NumStages /\ NumStages \in Nat
      /\ 1 .. NumStages = DOMAIN cfg.plan
  BY PlanStages DEF CInv, ControllerTypes
<1>2. PICK e \in 1 .. pos[a] : cfg.plan[e] = "execute"
  BY DEF Reached
<1>3. e \in 1 .. NumStages /\ k \in 1 .. NumStages /\ cfg.plan[k] = "prepare"
  BY <1>1, <1>2 DEF Prepares
<1>4. k < e
  BY <1>1, <1>2, <1>3 DEF PrepareFirst
<1>5. k < pos[a]
  BY <1>1, <1>2, <1>3, <1>4
<1>6. QED
  BY <1>3, <1>5 DEF CInv, Crossed

LEMMA PhaseStep ==
    ASSUME PrepareFirst, CInv, BInv, PInv, ControllerNext
    PROVE  PInv'
<1>1. /\ ControllerTypes /\ HonestQueues /\ ManagerOK /\ cfg' = cfg
      /\ \A k : Prepares(k)' <=> Prepares(k)
      /\ \A k \in Stages : barrier[k].released = TRUE => barrier'[k].released = TRUE
  <2>1. ControllerTypes /\ HonestQueues /\ ManagerOK
    BY DEF CInv, BInv
  <2>2. QED
    BY <2>1, Frame DEF Prepares, NumStages
<1>2. ASSUME NEW a \in Agents, Progress(a), NEW kind \in {"prepare", "execute"},
             Head(queue[a]).stage = kind
      PROVE  Reached(a, kind)
  BY <1>1, <1>2, ProgressTracks, HeadHonest DEF Honest
<1>3. ASSUME NEW a \in Agents, Reached(a, "prepare")  PROVE \E k \in Stages : Prepares(k)
  <2>1. /\ pos[a] \in 1 .. NumStages /\ NumStages \in Nat /\ 1 .. NumStages \subseteq Stages
    BY <1>1, PlanStages DEF ControllerTypes
  <2>2. PICK k \in 1 .. pos[a] : cfg.plan[k] = "prepare"
    BY <1>3 DEF Reached
  <2>3. k \in 1 .. NumStages
    BY <2>1, <2>2
  <2>4. QED
    BY <2>1, <2>2, <2>3 DEF Prepares
<1>4. last_stage' = "prepare" => \E k \in Stages : Prepares(k)
  BY <1>1, <1>2, <1>3, WaitBegins DEF PInv
<1>5. step' = "wait" => \E k \in Stages : Prepares(k)
  BY <1>1, WaitBegins DEF PInv
<1>6. ASSUME step' = "wait" \/ manager'.failed # {}, NEW k \in Stages, Prepares(k)
      PROVE  barrier'[k].released = TRUE
  <2>1. CASE step = "wait" \/ manager.failed # {}
    <3>1. barrier[k].released /\ barrier[k].released \in BOOLEAN
      BY <1>6, <2>1, <1>1, ReadyGrows DEF PInv
    <3>2. QED
      BY <1>1, <3>1
  <2>2. CASE step # "wait" /\ manager.failed = {}
    <3>1. step' = "wait"
      BY <1>1, <1>6, <2>2, ManagerStep
    <3>2. PICK a \in Agents : Progress(a) /\ Head(queue[a]).stage = "execute"
      BY <1>1, <2>2, <3>1, WaitBegins
    <3>3. Reached(a, "execute")
      BY <1>2, <3>2
    <3>4. QED
      BY <1>1, <1>6, <3>3, ExecutingPast
  <2>3. QED
    BY <2>1, <2>2
<1>7. ASSUME NEW k \in Stages, Prepares(k), barrier'[k].released
      PROVE  Enough(Cardinality(barrier'[k].ready), 0)
  <2>0. Cardinality({}) = 0
    BY FS_EmptySet
  <2>1. CASE barrier[k].released
    <3>1. Enough(Cardinality(barrier[k].ready), Cardinality({}))
      BY <1>7, <2>0, <2>1 DEF PInv
    <3>2. Enough(Cardinality(barrier'[k].ready), Cardinality({}))
      BY <1>1, <3>1, ReadyGrows, EnoughGrows
    <3>3. QED
      BY <2>0, <3>2
  <2>2. CASE ~barrier[k].released
    <3>1. manager.failed = {}
      BY <1>7, <2>2 DEF PInv
    <3>2. Enough(Cardinality(barrier'[k].ready), Cardinality(manager.failed))
      BY <1>1, <1>7, <2>2, ReadyGrows
    <3>3. QED
      BY <2>0, <3>1, <3>2
  <2>3. QED
    BY <2>1, <2>2
<1>8. \A k \in Stages : Prepares(k) /\ barrier'[k].released => Enough(Cardinality(barrier[k].ready), 0)'
  BY <1>1, <1>7 DEF Enough
<1>9. QED
  BY <1>1, <1>4, <1>5, <1>6, <1>8 DEF PInv

\* wait_for_barrier (controller.rs, the switch from prepare to execute): for every
\* plan in which prepare stages come before execute stages, every policy and any
\* number of faults, the loop goes on only when enough agents have really finished
\* the prepare stage, although the phase barrier itself counts heartbeats, and
\* agents whose key it does not know not at all.
THEOREM PhasesSynchronised ==
    ASSUME PrepareFirst
    PROVE  ControllerSpec => PhaseSynchronised
<1> DEFINE Met ==
      LET prep == CHOOSE k \in 1 .. NumStages : cfg.plan[k] = "prepare"
          past == {a \in Agents : pos[a] > prep \/ (pos[a] = prep /\ pc[a] # "exec")} IN
      CanRelease(cfg.policy, Cardinality(past), Cardinality(Agents), 0)
<1>1. ControllerInit => PInv
  <2> SUFFICES ASSUME ControllerInit PROVE PInv
    OBVIOUS
  <2>1. /\ last_stage # "prepare" /\ step # "wait" /\ manager.failed = {}
        /\ \A k \in Stages : barrier[k].released = FALSE
    BY DEF ControllerInit, NewManager
  <2>2. QED
    BY <2>1 DEF PInv
<1>2. CInv /\ BInv /\ PInv /\ [ControllerNext]_cvars => PInv'
  <2> SUFFICES ASSUME CInv, BInv, PInv, [ControllerNext]_cvars PROVE PInv'
    OBVIOUS
  <2>1. CASE UNCHANGED cvars
    <3>1. UNCHANGED <<cfg, step, last_stage, barrier, manager>>
      BY <2>1 DEF cvars, trackVars, resultVars
    <3>2. QED
      BY <3>1 DEF PInv, Prepares, NumStages, Enough
  <2>2. QED
    BY <2>1, PhaseStep
<1>3. CInv /\ BInv /\ PInv => (BarrierMet => Met)
  <2> SUFFICES ASSUME CInv, BInv, PInv, step = "wait" PROVE Met
    BY DEF BarrierMet
  <2> DEFINE prep == CHOOSE k \in 1 .. NumStages : cfg.plan[k] = "prepare"
             past == {a \in Agents : pos[a] > prep \/ (pos[a] = prep /\ pc[a] # "exec")}
  <2>1. prep \in 1 .. NumStages /\ cfg.plan[prep] = "prepare"
    BY DEF PInv, Prepares
  <2> HIDE DEF prep
  <2>2. prep \in Stages /\ cfg \in Runs
    BY <2>1, PlanStages DEF CInv, ControllerTypes
  <2>3. Enough(Cardinality(barrier[prep].ready), 0)
    BY <2>1, <2>2 DEF PInv, Prepares
  <2>4. barrier[prep].ready \subseteq past
    BY <2>2 DEF CInv, ControllerTypes, BInv, ReadyPast, Past
  <2>5. past \in SUBSET Agents
    OBVIOUS
  <2> HIDE DEF past
  <2>6. Cardinality({}) = 0
    BY FS_EmptySet
  <2>7. Enough(Cardinality(past), 0)
    BY <2>3, <2>4, <2>5, <2>6, EnoughGrows
  <2>8. QED
    BY <2>2, <2>5, <2>7, ReleasedEnough DEF prep, past
<1>4. QED
  BY <1>1, <1>2, <1>3, ControllerInvariant, BarriersInvariant, PTL DEF ControllerSpec, PhaseSynchronised
=============================================================================
