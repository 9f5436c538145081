------------------------------- MODULE MCPipeline --------------------------------
(* Three messages at a time: enough for a delivery, its duplicate or the reaper's *)
(* dispatch of the same stage, and the message they race with.                    *)
EXTENDS Pipeline, TLC

CONSTANTS i1, i2, i3

MCIds == {i1, i2, i3}
TwoIds == {i1, i2}
Alike == Permutations(Ids)
=================================================================================
