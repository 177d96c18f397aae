------------------------------ MODULE MCCapture ------------------------------
(* Two pages that own or reload the display, and a viewer of it. *)
EXTENDS Capture
CONSTANTS o1, o2, watcher
=============================================================================
