------------------------------ MODULE MCEngine ------------------------------
(***************************************************************************)
(* TLC instance of Engine.                                                 *)
(***************************************************************************)
EXTENDS Engine

Job(ops, get, dynamic, tree, limit, target, attempts, max_errors, objects) ==
    [ops |-> ops, get |-> get, delete |-> get, dynamic |-> dynamic, tree |-> tree,
     limit |-> limit, target |-> target, attempts |-> attempts, max_errors |-> max_errors,
     store |-> objects]

Prepared == <<"prepared", 1>>
Deletable == <<"deletable", 1>>

\* A mixed workload with separate pools and a limit on DELETE; PUT and GET with a growing
\* pool, at a target rate; metadata operations on a tree; patterns without objects and
\* directory operations without a tree, which fail
EngineJobs ==
    {Job({"get", "delete"}, "prepared", FALSE, FALSE, [delete |-> 1], 0, 2, 3, {Prepared, Deletable}),
     Job({"put", "get"}, "prefix", TRUE, FALSE, <<>>, 1, 1, 2, {Prepared}),
     Job({"put", "stat", "mkdir"}, "prepared", FALSE, TRUE, [stat |-> 1], 0, 1, 2, {Prepared}),
     Job({"stat", "delete"}, "prepared", FALSE, FALSE, <<>>, 0, 1, 2, {Prepared}),
     Job({"list", "mkdir"}, "prepared", FALSE, FALSE, <<>>, 0, 1, 2, {}),
     Job({"list", "rmdir"}, "prepared", FALSE, TRUE, [list |-> 1], 0, 1, 2, {Prepared})}

=============================================================================
