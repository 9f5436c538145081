------------------------------- MODULE MCSummarize -------------------------------
(* Two messages at a time: a delivery and the one that supersedes it.             *)
EXTENDS Summarize, TLC

CONSTANTS i1, i2

MCIds == {i1, i2}
Alike == Permutations(Ids)

World(c, f) == [conv |-> c, faults |-> f]

Crashes == {"kill", "timeout", "gap", "redis", "lane", "early"}
Repeats == {"gap", "duplicate", "redis", "timeout", "lane", "early"}

\* Everything but a message sent twice; and that, where no worker dies.
Hard == {World("processing", Crashes), World("completed", Crashes), World("completed", Repeats)}
Calm == {World("completed", {})}
=================================================================================
