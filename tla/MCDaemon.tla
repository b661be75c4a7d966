-------------------------------- MODULE MCDaemon --------------------------------
\* Instances of Daemon for TLC: a frequent job, and a rare one that goes first.
EXTENDS Daemon

MCPeriod == [j \in Jobs |-> j]
MCPriority == [j \in Jobs |-> 10 - j]

\* Nobody asked to be told of missed runs of the rare one.
MCMissedGap == [j \in Jobs |-> IF j = 1 THEN 2 ELSE 0]
=================================================================================
