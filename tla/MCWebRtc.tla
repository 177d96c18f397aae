------------------------------ MODULE MCWebRtc ------------------------------
(* The signaling server and the packet pacer of the WebRTC mode, checked in *)
(* one run and explored one at a time: a behaviour picks one (part), and    *)
(* the other stays at its beginning.  The states add up, they do not        *)
(* multiply.                                                                *)
EXTENDS MCSignaling, Pacer

CONSTANTS d1, d2

VARIABLES part,
          cast   \* Signaling: who connects, and whose other end may go away

\* A primary's controller, its reload and a player; and a primary's controller
\* and one of a second display around a server that connects again.
Casts == {[who |-> {ctrl, reload, player, 1}, leave |-> {ctrl, 1}],
          [who |-> {ctrl, second, 1, 2}, leave |-> {ctrl, second}]}

Played ==
  /\ \A p \in Conn \ cast.who : pc'[p] = "new"
  /\ \A p \in Conn \ cast.leave : sock'[p] # "lost"

\* Pacer: a behaviour has two keyframes, or one among other packets and a send
\* that fails, or two data packets and the end, or a change of the bitrate.
Spare(k, d, t, f, c) ==
  [keys |-> k, dc |-> d, turns |-> t, failures |-> f, closes |-> c]
Turns == Spare(1, 0, 1, 0, 0)
MCPacerBudgets == {Spare(2, 0, 0, 0, 0), Spare(1, 1, 0, 1, 0),
                   Spare(0, 2, 0, 0, 1), Turns}

WebRtcInit ==
  /\ part \in {"signaling", "pacer"} /\ cast \in Casts
  /\ Init /\ PacerInit
  /\ part = "signaling" => spare = Turns
  /\ part = "pacer" => reload \in cast.who
  /\ spare # Turns \/ part = "signaling" => rate.encoder = 1

WebRtcNext ==
  /\ UNCHANGED <<part, cast>>
  /\ \/ part = "signaling" /\ Next /\ Played /\ UNCHANGED pacerVars
     \/ part = "pacer" /\ PacerNext /\ UNCHANGED vars

WebRtcSpec == WebRtcInit /\ [][WebRtcNext]_<<part, cast, vars, pacerVars>>
=============================================================================
