---------------------------- MODULE Backpressure ----------------------------
(***************************************************************************)
(* ACK backpressure of one display (selkies.py): the monitor compares the  *)
(* id of the last frame sent to the display's registered client with the   *)
(* last id the client acknowledged, on a circle of ids that restarts when  *)
(* the capture does, and closes or opens the gate in front of the client's *)
(* relay (backpressure_enabled FALSE: closed).  The websocket keeps the    *)
(* order of what is sent; the client acknowledges, again and again, the    *)
(* last frame it received.                                                 *)
(*                                                                         *)
(* A frame is its id and, as history, whether a reset followed it and how  *)
(* many frames were sent since.                                            *)
(***************************************************************************)
EXTENDS Integers, Sequences

CONSTANTS IdSpace,      \* number of frame ids (65536)
          Windows,      \* lags the monitor may tolerate at a check: the
                        \* allowed seconds at the client's measured rate
          StallChecks,  \* checks without an ACK after which a client stalls
          MaxBurst,     \* bound on the frames sent between two checks
          MaxFlight,    \* bound on the messages on their way to the client
          MaxAge,       \* bound on the frames sent while an ACK is on its way
          NoFrame,      \* "no ACK yet", "no frame yet" (-1)
          Reset         \* the message PIPELINE_RESETTING

ASSUME BackpressureAssumption ==
  /\ IdSpace \in Nat \ {0} /\ StallChecks \in Nat
  /\ MaxBurst \in Nat /\ MaxFlight \in Nat /\ MaxAge \in Nat
  /\ Windows \subseteq Nat
  /\ {NoFrame, Reset} \cap [id: Nat, old: BOOLEAN, age: Nat] = {}

\* What lies behind the last frame sent, when a check looks, is less than half
\* the circle behind (of 65536 ids; windows are seconds at the client's rate).
ASSUME HalfCircleAssumption ==
  \A lag \in Windows \cup {MaxFlight, MaxAge} : lag + MaxBurst <= (IdSpace - 1) \div 2

VARIABLES last_sent_frame_id,
          has_sent_any_frame,
          acknowledged_frame_id,  \* a frame, or NoFrame
          backpressure_enabled,
          silence,    \* checks since last_ack_update_time
          nextId,     \* id of the next frame the capture emits
          emitter,    \* the capture: "on"; "leaving", from the reset to the
                      \* end of its stop; "off"
          monitor,    \* the backpressure task runs
          burst,      \* frames sent since the last check
          wire,       \* frames and Resets on their way to the client
          ackWire,    \* ACKs on their way to the server
          received,   \* lastReceivedVideoFrameId of the client
          client      \* "live", "frozen" or, when its socket is dropped, "gone"

gateVars == <<last_sent_frame_id, has_sent_any_frame, acknowledged_frame_id,
              backpressure_enabled, silence>>
serverVars == <<gateVars, nextId, emitter, monitor, burst>>
pathVars == <<wire, ackWire, received, client>>
backpressureVars == <<serverVars, pathVars>>

Frame(id) == [id |-> id, old |-> FALSE, age |-> 0]
IsFrame(m) == m \notin {NoFrame, Reset}

\* Ages are told apart up to the number of ids, and until a reset.
Grown(m) ==
  IF IsFrame(m) /\ ~m.old /\ m.age < IdSpace THEN [m EXCEPT !.age = @ + 1] ELSE m
Outdated(m) == IF IsFrame(m) THEN [m EXCEPT !.old = TRUE, !.age = 0] ELSE m

\* f applied to every frame that exists.
All(f(_), path, ack) ==
  /\ wire' = [i \in DOMAIN path |-> f(path[i])]
  /\ ackWire' = [i \in DOMAIN ackWire |-> f(ackWire[i])]
  /\ received' = f(received)
  /\ acknowledged_frame_id' = f(ack)

\* A new page connects.
FreshPage ==
  /\ wire = <<>> /\ ackWire = <<>> /\ received = NoFrame /\ client = "live"

BackpressureInit ==
  /\ last_sent_frame_id = 0 /\ has_sent_any_frame = FALSE
  /\ acknowledged_frame_id = NoFrame
  /\ backpressure_enabled = TRUE
  /\ silence = 0 /\ nextId = 0 /\ burst = 0
  /\ emitter = "on" /\ monitor = TRUE
  /\ FreshPage
-----------------------------------------------------------------------------
\* The relay of the registered client sends a frame, if the gate lets it.
SendFrame ==
  /\ emitter \in {"on", "leaving"} /\ backpressure_enabled
  /\ client # "gone" /\ Len(wire) < MaxFlight /\ burst < MaxBurst
  /\ \A i \in DOMAIN ackWire : ackWire[i].old \/ ackWire[i].age < MaxAge
  /\ LET sent == Frame(nextId) IN
     /\ wire' = Append([i \in DOMAIN wire |-> Grown(wire[i])], sent)
     /\ ackWire' = [i \in DOMAIN ackWire |-> Grown(ackWire[i])]
     /\ received' = Grown(received)
     /\ acknowledged_frame_id' = Grown(acknowledged_frame_id)
  /\ last_sent_frame_id' = nextId
  /\ has_sent_any_frame' = TRUE
  /\ nextId' = (nextId + 1) % IdSpace
  /\ burst' = burst + 1
  /\ UNCHANGED <<backpressure_enabled, silence, emitter, monitor, client>>

\* A send that does not finish within a second drops the socket.
SendTimesOut ==
  /\ client = "frozen" /\ Len(wire) = MaxFlight
  /\ client' = "gone"
  /\ wire' = <<>> /\ ackWire' = <<>> /\ received' = NoFrame
  /\ UNCHANGED serverVars

Receive ==
  /\ client = "live" /\ wire # <<>>
  /\ wire' = Tail(wire)
  /\ received' = IF Head(wire) = Reset THEN NoFrame ELSE Head(wire)
  /\ UNCHANGED <<serverVars, ackWire, client>>

\* The client's timer.
SendAck ==
  /\ client = "live" /\ received # NoFrame /\ ackWire = <<>>
  /\ ackWire' = <<received>>
  /\ UNCHANGED <<serverVars, wire, received, client>>

\* CLIENT_FRAME_ACK
FrameAcked ==
  /\ client # "gone" /\ ackWire # <<>>
  /\ acknowledged_frame_id' = Head(ackWire)
  /\ silence' = 0
  /\ ackWire' = Tail(ackWire)
  /\ UNCHANGED <<last_sent_frame_id, has_sent_any_frame, backpressure_enabled,
                 nextId, emitter, monitor, burst, wire, received, client>>

Freeze ==
  /\ client = "live" /\ client' = "frozen"
  /\ UNCHANGED <<serverVars, wire, ackWire, received>>
Thaw ==
  /\ client = "frozen" /\ client' = "live"
  /\ UNCHANGED <<serverVars, wire, ackWire, received>>
-----------------------------------------------------------------------------
\* Circular distance from the acknowledged id to the sent one.
Desync_Linear == last_sent_frame_id - acknowledged_frame_id.id

Desync == (last_sent_frame_id - acknowledged_frame_id.id) % IdSpace
Suspicious == Desync > (IdSpace - 1) \div 2

\* One turn of _run_frame_backpressure_logic.
CheckGate(enabled, quiet) ==
  /\ monitor
  /\ backpressure_enabled' = enabled
  /\ silence' = quiet
  /\ burst' = 0
  /\ UNCHANGED <<last_sent_frame_id, has_sent_any_frame, acknowledged_frame_id,
                 nextId, emitter, monitor, pathVars>>

Waited == IF silence > StallChecks THEN silence ELSE silence + 1

\* No capture, or no ACK yet, or an ACK ahead of what was sent: open.
CheckOpens ==
  \/ emitter = "off" /\ CheckGate(TRUE, Waited)
  \/ emitter # "off" /\ acknowledged_frame_id = NoFrame /\ CheckGate(TRUE, 0)
  \/ /\ emitter # "off" /\ acknowledged_frame_id # NoFrame
     /\ Suspicious /\ CheckGate(TRUE, 0)

Comparable == emitter # "off" /\ acknowledged_frame_id # NoFrame /\ ~Suspicious

CheckWaits ==
  /\ Comparable /\ ~has_sent_any_frame
  /\ CheckGate(backpressure_enabled, Waited)

CheckCompares_NeverLifts(window) ==
  /\ Comparable /\ has_sent_any_frame
  /\ CheckGate(backpressure_enabled /\ Waited <= StallChecks /\ Desync <= window, Waited)

CheckCompares_NoStall(window) ==
  /\ Comparable /\ has_sent_any_frame
  /\ CheckGate(Desync <= window, Waited)

CheckCompares(window) ==
  /\ Comparable /\ has_sent_any_frame
  /\ CheckGate(Waited <= StallChecks /\ Desync <= window, Waited)

Check == CheckOpens \/ CheckWaits \/ \E w \in Windows : CheckCompares(w)
-----------------------------------------------------------------------------
\* PIPELINE_RESETTING, after which nothing the client has or will acknowledge
\* of before counts.
ResetSent(ack) == All(Outdated, Append(wire, Reset), ack)

\* Stopping a capture first stops the monitor and resets the ids; frames of
\* the old capture may still follow until the native stop is over.
CaptureLeaves ==
  /\ emitter = "on" /\ client # "gone" /\ Len(wire) < MaxFlight
  /\ emitter' = "leaving"
  /\ monitor' = FALSE /\ burst' = 0
  /\ backpressure_enabled' = TRUE
  /\ last_sent_frame_id' = 0 /\ has_sent_any_frame' = FALSE
  /\ silence' = 0
  /\ ResetSent(NoFrame)
  /\ UNCHANGED <<nextId, client>>

CaptureOff ==
  /\ emitter = "leaving" /\ emitter' = "off"
  /\ UNCHANGED <<gateVars, nextId, monitor, burst, pathVars>>

\* A capture starts, its ids with it, or fails to; the monitor starts.
CaptureOn ==
  /\ emitter = "off"
  /\ emitter' \in {"on", "off"}
  /\ nextId' = 0
  /\ monitor' = TRUE /\ burst' = 0
  /\ backpressure_enabled' = TRUE
  /\ All(Outdated, wire, acknowledged_frame_id)
  /\ UNCHANGED <<last_sent_frame_id, has_sent_any_frame, silence, client>>

\* START_VIDEO of the registered client onto a live capture restarts the
\* monitor and resets the client, but not the ids.
VideoResumed ==
  /\ emitter = "on" /\ client = "live" /\ Len(wire) < MaxFlight
  /\ burst' = 0
  /\ backpressure_enabled' = TRUE
  /\ ResetSent(acknowledged_frame_id)
  /\ UNCHANGED <<last_sent_frame_id, has_sent_any_frame, silence, nextId,
                 emitter, monitor, client>>

\* Another page takes the display over.
TakenOver ==
  /\ wire' = <<Reset>> /\ ackWire' = <<>> /\ received' = NoFrame
  /\ client' = "live"
  /\ acknowledged_frame_id' = NoFrame
  /\ silence' = 0
  /\ UNCHANGED <<last_sent_frame_id, has_sent_any_frame, backpressure_enabled,
                 nextId, emitter, monitor, burst>>

Path == SendFrame \/ SendTimesOut \/ Receive \/ SendAck \/ FrameAcked \/ Freeze \/ Thaw
Restarts == CaptureLeaves \/ CaptureOff \/ CaptureOn \/ VideoResumed \/ TakenOver

BackpressureNext == Path \/ Check \/ Restarts

\* The monitor's timer and the client's timer fire, what is sent arrives, a
\* stop ends and is followed by a start.  The scene need not change.
BackpressureFairness ==
  /\ WF_backpressureVars(Check)
  /\ WF_backpressureVars(Receive) /\ WF_backpressureVars(SendAck)
  /\ WF_backpressureVars(FrameAcked)
  /\ WF_backpressureVars(CaptureOff) /\ WF_backpressureVars(CaptureOn)

BackpressureSpec ==
  BackpressureInit /\ [][BackpressureNext]_backpressureVars /\ BackpressureFairness
-----------------------------------------------------------------------------
\* The client has no frame to acknowledge and none is on its way to it.
Mute == received = NoFrame /\ \A i \in DOMAIN wire : wire[i] = Reset

\* A closed gate opens again for a client that is alive, although no frame is
\* sent, and so nothing new acknowledged, as long as it is closed ("stuck-
\* backpressure latch", selkies.py:2307) - except for a client that was reset
\* without the ids (VideoResumed) and has nothing to acknowledge.
Unlatched == ~backpressure_enabled ~> (backpressure_enabled \/ client # "live" \/ Mute)

\* A client that has frozen is gated (or thaws, or is dropped) although nothing
\* is sent to it any more, once its last ACK is not taken for one of other ids.
StallGated ==
  (client = "frozen" /\ Comparable /\ has_sent_any_frame)
    ~> (~backpressure_enabled \/ client # "frozen" \/ ~Comparable \/ ~has_sent_any_frame)

\* Behind an open gate, the frames sent and not acknowledged are bounded by the
\* tolerated lag and what is sent between two checks, also where the ids wrap,
\* once a check has seen the ACK and if no reset followed the frame it is of.
LagBounded ==
  (/\ backpressure_enabled /\ monitor /\ silence > 0
   /\ acknowledged_frame_id # NoFrame /\ ~acknowledged_frame_id.old)
  => \E w \in Windows : acknowledged_frame_id.age <= w + MaxBurst
=============================================================================
