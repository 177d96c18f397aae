---------------------------- MODULE MCVideoRelay ----------------------------
(* One client, two stripe rows; a keyframe or JPEG stripe weighs two       *)
(* deltas and the budget is one keyframe, so queued deltas overflow soon.  *)
EXTENDS VideoRelay
CONSTANTS top, bottom
MCRows == {top, bottom}
MCSize == [k \in Kinds |-> IF k = "delta" THEN 1 ELSE 2]
=============================================================================
