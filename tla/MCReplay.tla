------------------------------ MODULE MCReplay ------------------------------
(***************************************************************************)
(* TLC instance of Replay.                                                 *)
(***************************************************************************)
EXTENDS Replay

Row(start, key) == [start |-> start, bucket |-> key % 3, key |-> key]
Bad == Row(-1, 0)
Rule(buckets, targets, strategy) == [buckets |-> buckets, targets |-> targets, strategy |-> strategy]

Log(rows, strict, max_concurrent, max_flaps, rules) ==
    [rows |-> rows, strict |-> strict, max_concurrent |-> max_concurrent,
     lag |-> 1, recovery |-> 1, max_flaps |-> max_flaps, drain |-> 1, rules |-> rules]

Sticky == <<Rule({1}, 2, "sticky_key"), Rule({1, 2}, 1, "round_robin")>>

\* Rows close together and far apart, so that the replay falls behind and recovers; rows out
\* of order; unreadable rows at the beginning and between; the same key twice
ReplayLogs ==
    {Log(<<Row(1, 1), Row(1, 2), Row(5, 1), Row(5, 2)>>, strict, 2, flaps, Sticky) :
         strict \in BOOLEAN, flaps \in {0, 1}}
    \cup {Log(<<Bad, Row(2, 1), Bad, Row(1, 1), Row(3, 3)>>, strict, 3, 3, <<Rule({1}, 2, "random")>>) :
         strict \in BOOLEAN}
    \cup {Log(<<Row(0, 1), Bad, Row(0, 1)>>, TRUE, 2, 3, Sticky),
          Log(<<Row(0, 1), Row(1, 1)>>, TRUE, 1, 3, Sticky),
          Log(<<Bad>>, FALSE, 2, 3, <<>>)}

=============================================================================
