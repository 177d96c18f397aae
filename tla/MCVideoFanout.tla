--------------------------- MODULE MCVideoFanout ---------------------------
(* Two sockets and one stripe row; two deltas, or one keyframe, fit.       *)
EXTENDS VideoFanout
CONSTANTS a, b, top
MCClients == {a, b}
MCRows == {top}
MCSize == [k \in Kinds |-> IF k = "delta" THEN 1 ELSE 2]

\* Nothing is explored after the stayer's handler ended: its view is over.
StayerPresent == phase[Stayer] # "gone"
=============================================================================
