---------------------------- MODULE MCController ----------------------------
(***************************************************************************)
(* TLC instance of ControllerRun.                                          *)
(***************************************************************************)
EXTENDS ControllerRun

\* The usual three stages; a prepare stage in the middle, which needs the phase
\* barrier, with agents known by their address and by an id
ThreeRuns ==
    {[plan |-> <<"prepare", "execute", "cleanup">>, policy |-> "AllOrNothing", known |-> {}],
     [plan |-> <<"custom", "prepare", "execute">>, policy |-> "AllOrNothing", known |-> Agents],
     [plan |-> <<"custom", "prepare", "execute">>, policy |-> "BestEffort", known |-> {}]}
=============================================================================
