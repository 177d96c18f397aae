------------------------------ MODULE MCPacer -------------------------------
(* One encoder, one keyframe, no data channel.                             *)
EXTENDS Pacer

MCOneKeyframe == {[keys |-> 2, dc |-> 0, turns |-> 0, failures |-> 0, closes |-> 0]}
=============================================================================
