----------------------------- MODULE StageSync -----------------------------
(***************************************************************************)
(* What barrier synchronisation promises, with no messages, timeouts or    *)
(* controller: every agent runs the stages 1..NumStages in order, and it   *)
(* starts a stage only once the barrier after the previous stage is met,   *)
(* that is, once enough agents have finished that previous stage.          *)
(***************************************************************************)
EXTENDS Naturals, FiniteSets, BarrierPolicy

CONSTANTS
    Agents,       \* the agents of the run
    NumStages,    \* number of YAML stages
    BarrierType   \* the policy of the run's barriers

VARIABLES
    started,      \* started[a]: stages agent a has started
    finished      \* finished[a]: stages agent a has finished

vars == <<started, finished>>

\* The agents that have finished stage s
Finishers(s) == {a \in Agents : finished[a] >= s}

\* The barrier after stage s is met; there is no barrier before stage 1
BarrierMet(s) ==
    s > 0 => CanRelease(BarrierType, Cardinality(Finishers(s)), Cardinality(Agents), 0)

Init ==
    /\ started = [a \in Agents |-> 0]
    /\ finished = [a \in Agents |-> 0]

StartStage(a) ==
    /\ started[a] = finished[a]
    /\ started[a] < NumStages
    /\ BarrierMet(started[a])
    /\ started' = [started EXCEPT ![a] = @ + 1]
    /\ UNCHANGED finished

FinishStage(a) ==
    /\ started[a] = finished[a] + 1
    /\ finished' = [finished EXCEPT ![a] = @ + 1]
    /\ UNCHANGED started

Next == \E a \in Agents : StartStage(a) \/ FinishStage(a)

Spec == Init /\ [][Next]_vars
=============================================================================
