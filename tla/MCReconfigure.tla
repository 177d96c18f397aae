--------------------------- MODULE MCReconfigure ---------------------------
(* Four tasks, so that one can hold the lock while three queue or ask; one *)
(* of them is a START_AUDIO request.                                       *)
EXTENDS Reconfigure
CONSTANTS a, b, c, audio
MCTasks == {a, b, c, audio}
=============================================================================
