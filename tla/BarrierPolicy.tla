--------------------------- MODULE BarrierPolicy ---------------------------
(***************************************************************************)
(* The release rules of the controller's barrier manager: pure functions   *)
(* of three counts.  ready_count is the number of agents that reported the *)
(* barrier, total_count the number of configured agents and failed_count   *)
(* the number of agents the liveness check gave up on.                     *)
(***************************************************************************)
EXTENDS Naturals

\* config.rs: enum BarrierType.  "Disabled" stands for a configuration in
\* which the controller creates no BarrierManager at all: barrier_sync is
\* off and no stage carries a barrier block.
BarrierTypes == {"AllOrNothing", "Majority", "BestEffort"}

NoBarrierManager == "Disabled"

\* check_barrier_ready: may a stage barrier be released?
CanRelease(type, ready_count, total_count, failed_count) ==
    LET alive_count == total_count - failed_count
    IN  \/ /\ type = "AllOrNothing"
           /\ failed_count = 0
           /\ ready_count = alive_count
        \/ /\ type = "Majority"
           /\ 2 * ready_count > total_count
        \/ /\ type = "BestEffort"
           /\ ready_count = alive_count
           /\ alive_count > 0
=============================================================================
