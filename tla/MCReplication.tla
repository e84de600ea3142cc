---------------------------- MODULE MCReplication ----------------------------
EXTENDS Replication

\* One master, and one replica that is told to follow nobody and to come back.
MCNode == {"m", "r"}
MCInitialMaster == [n \in MCNode |-> IF n = "r" THEN "m" ELSE NULL]
MCMayFollow == {<<"r", NULL>>, <<"r", "m">>}
MCCmdLen == [set |-> 2, select |-> 1, ping |-> 1]
MCLimit == [writes |-> 2, pings |-> 1, commands |-> 1, faults |-> 1]
\* For liveness
MCLiveLimit == [writes |-> 1, pings |-> 0, commands |-> 0, faults |-> 1]
=============================================================================
