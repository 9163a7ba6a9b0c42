----------------------------- MODULE MCPrepare -----------------------------
\* Model-checking instances of Prepare
EXTENDS Prepare

One == <<"prepared">>
Two == <<"prepared", "deletable">>

\* The defaults: parallel, flat names, one pool, 32 workers
Default == [strategy |-> "parallel", layout |-> "flat", pools |-> One, concurrency |-> 32,
            force |-> FALSE, skip |-> FALSE, cleanup |-> FALSE, cache |-> TRUE]
Sequential == [Default EXCEPT !.strategy = "sequential"]
Tree       == [Default EXCEPT !.layout = "tree"]

\* Runs that keep their promises: both strategies, every layout and option
Sound == { Default,
           Tree,
           [Tree EXCEPT !.cleanup = TRUE, !.force = TRUE],
           [Default EXCEPT !.layout = "sharded", !.cleanup = TRUE],
           Sequential,
           [Sequential EXCEPT !.skip = TRUE],
           [Sequential EXCEPT !.pools = Two, !.cache = FALSE] }

FewWorkers   == { [Default EXCEPT !.concurrency = 3] }
=============================================================================
