--------------------------- MODULE MCStageBarrier ---------------------------
\* Model-checking instances of StageBarrier
EXTENDS StageBarrier, TLC

CONSTANTS a1, a2

TwoAgents == {a1, a2}
Swap2 == Permutations(TwoAgents)

\* Values for Adversity.  The timing conditions and the failures are checked in
\* separate runs: together they exceed what one run can visit.
Timing        == {"barrierTimeout", "fastStage", "lateSubscribe", "slowStart", "longWait"}
Failures      == {"stageFail", "reject", "streamLost", "crash", "signal", "slowStage",
                  "barrierTimeout"}
BrokenStreams == {"stageFail", "reject", "signal", "streamLost", "crash", "slowStart"}
PrepareStages == {"phaseSwitch"}
=============================================================================
