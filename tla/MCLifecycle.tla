---------------------------- MODULE MCLifecycle ----------------------------
(***************************************************************************)
(* TLC instances of AgentLifecycle.                                        *)
(***************************************************************************)
EXTENDS AgentLifecycle

\* Everything but the overlap of two jobs and the two races of one job that
\* are shown to strand the agent (README, section 4)
OneAtATime == {"vanish", "stageFail", "slowStart", "sync"}

=============================================================================
