----------------------------- MODULE MCSignaling -----------------------------
EXTENDS Signaling

\* A primary's controller, its reload, a player on slot 2 and a controller of
\* a second display: a run takes those it names.
CONSTANTS ctrl, reload, player, second

MCRole == [c \in Clients |-> IF c = player THEN "viewer" ELSE "controller"]
MCDisplay == [c \in Clients |-> IF c = second THEN "display2" ELSE "primary"]
MCSlot == [c \in Clients |-> IF c = player THEN 2 ELSE 1]
MCContested == {<<"slot", "primary", 1>>}
MCStrict == [c \in Clients |-> FALSE]
=============================================================================
