----------------------------- MODULE VideoRelay -----------------------------
(***************************************************************************)
(* Video delivery to one (client, display) pair of the WebSocket server:   *)
(* the encoder's chunks, the relay the fan-out keeps for this client, the  *)
(* relay's sender task, and the socket.  The fan-out contract is the one   *)
(* the relay's documentation relies on: while the client is a member of    *)
(* the fan-out every chunk is offered to its relay, or flushes it when ACK *)
(* backpressure gates the client; the first chunk that is not meant for a  *)
(* client that may come back takes its relay away.  VideoFanout models the *)
(* fan-out that has to keep this contract for every client at once.        *)
(*                                                                         *)
(* Everything runs on one asyncio loop: a step is what happens between two *)
(* awaits.  `sending` is the await of ws.send_bytes: the bytes enter the   *)
(* socket when the send starts, so `shown` moves there, and the await ends *)
(* later, in success, in a timeout or in a connection error.               *)
(***************************************************************************)
EXTENDS RelayOps

CONSTANTS Codecs,     \* subset of {"h264", "jpeg"}: the encodings explored
          MaxEvents   \* bound: chunks of a changing scene + requests of others

ASSUME CodecAssumption == Codecs \subseteq {"h264", "jpeg"}
ASSUME EventAssumption == MaxEvents \in Nat

VARIABLES codec,      \* encoding of this capture
          enc,        \* per row: number of the last chunk the encoder emitted
          idrDue,     \* rows that still owe the chunk a keyframe request ordered
          capture,    \* "starting"; "running": registered in capture_instances;
                      \* "stopping": no longer registered, still emitting
          relay,      \* the relay of this client (FreshRelay when there is none)
          attached,   \* the display's relay group holds a relay for the client
          sending,    \* that relay's task is inside ws.send_bytes
          lingering,  \* a stopped relay of this client is still in its last send
          shown,      \* per row: number of the last chunk written to the socket
          phase,      \* "member" of the fan-out, "paused" (may come back), "gone"
          gated,      \* ACK backpressure holds this client back
          stranded,   \* history: rows that lost a chunk, no keyframe on order
                      \* replaces it and the code knows no better (see Excused)
          events      \* environment events so far, at most MaxEvents

vars == <<codec, enc, idrDue, capture, relay, attached, sending, lingering, shown,
          phase, gated, stranded, events>>
encoder == <<codec, enc, idrDue, capture, events>>
tasks   == <<sending, lingering>>

SyncKind == IF codec = "h264" THEN "idr" ELSE "jpeg"
KindsOf(c) == IF c = "h264" THEN {"idr", "delta"} ELSE {"jpeg"}

Init ==
  /\ codec \in Codecs
  /\ enc = [r \in Rows |-> 0]
  /\ idrDue = Rows                      \* a capture starts with a keyframe
  /\ capture = "starting"
  /\ relay = FreshRelay /\ attached = FALSE
  /\ sending = FALSE /\ lingering = FALSE
  /\ shown = [r \in Rows |-> 0]
  /\ phase \in {"member", "paused"} /\ gated = FALSE
  /\ stranded = {}
  /\ events = 0

-----------------------------------------------------------------------------
(* The sender task leaves its relay: stop() lets a send in flight finish.   *)
Detach ==
  /\ relay' = FreshRelay
  /\ attached' = FALSE
  /\ lingering' = (lingering \/ sending)
  /\ sending' = FALSE

\* Rows whose newest chunk is neither on the socket nor in the queue.
Missing ==
  { row \in Rows : /\ shown[row] # enc[row]
                   /\ \A k \in DOMAIN relay.backlog :
                        ~(relay.backlog[k].row = row /\ relay.backlog[k].idx = enc[row]) }

\* A drop is silent within the relay's sync floor, and while no capture is
\* registered that a request could reach.
Excused(r) == r.floor \/ capture # "running"

\* do_fanout's treatment of this client for chunk ch.  due: rows owing a
\* keyframe once ch is out; othersAsk: another client's relay asks for one.
\* _schedule_idr_for_display reaches a registered capture only.
OfferIt(ch, due, othersAsk) ==
  LET r == IF attached THEN relay ELSE FreshRelay
      asks == capture = "running" /\ (WantsSync(r, ch) \/ othersAsk)
      lost == IF Excused(r) THEN LostRows(r, ch) ELSE {}
  IN  /\ phase = "member" /\ ~gated
      /\ relay' = offer(r, ch)
      /\ attached' = TRUE
      /\ idrDue' = IF asks THEN Rows ELSE due
      /\ stranded' = IF asks THEN {}
                     ELSE (stranded \ (IF ch.kind = "delta" THEN {} ELSE {ch.row}))
                            \union (lost \ due)
      /\ UNCHANGED tasks

FlushIt(ch, due, othersAsk) ==
  /\ phase = "member" /\ gated
  /\ relay' = IF attached THEN flush_for_gate(relay) ELSE relay
  /\ idrDue' = IF othersAsk /\ capture = "running" THEN Rows ELSE due
  /\ stranded' = IF othersAsk /\ capture = "running" THEN {} ELSE stranded
  /\ UNCHANGED <<attached, tasks>>

\* The chunk is not meant for this client.  A relay that is left in place then
\* has missed it, so only a client that never comes back may keep its relay.
SkipIt(ch, due, othersAsk) ==
  /\ phase # "member"
  /\ \/ Detach
     \/ phase = "gone" /\ UNCHANGED <<relay, attached, tasks>>
  /\ idrDue' = IF othersAsk /\ capture = "running" THEN Rows ELSE due
  /\ stranded' = IF othersAsk /\ capture = "running" THEN {}
                 ELSE stranded \union ((RowsOf(relay.backlog) \union {ch.row}) \ due)

Fanout(ch, due, othersAsk) ==
  /\ enc' = [enc EXCEPT ![ch.row] = ch.idx]
  /\ \/ OfferIt(ch, due, othersAsk)
     \/ FlushIt(ch, due, othersAsk)
     \/ SkipIt(ch, due, othersAsk)
  /\ UNCHANGED <<codec, capture, shown, phase, gated>>

NextChunk(row, kind) == [row |-> row, kind |-> kind, idx |-> enc[row] + 1]

\* The scene changed in a row (or the row's encoder re-initialised alone).
Emit(row, kind, othersAsk) ==
  /\ events < MaxEvents
  /\ events' = events + 1
  /\ Fanout(NextChunk(row, kind),
            IF kind = SyncKind THEN idrDue \ {row} ELSE idrDue, othersAsk)

\* The encoder honours a keyframe request: every row gets its own.  A JPEG
\* repaint can itself be dropped, so there it counts as an event.
EmitAsked(row) ==
  /\ row \in idrDue
  /\ codec = "jpeg" => events < MaxEvents
  /\ events' = IF codec = "jpeg" THEN events + 1 ELSE events
  /\ Fanout(NextChunk(row, SyncKind), idrDue \ {row}, FALSE)

\* A keyframe request from outside the relays: REQUEST_KEYFRAME, or this or
\* another client's START_VIDEO or first SETTINGS, one await after its joining.
KeyframeRequest ==
  /\ capture = "running"
  /\ events < MaxEvents
  /\ events' = events + 1
  /\ idrDue' = Rows
  /\ stranded' = {}
  /\ UNCHANGED <<codec, enc, capture, relay, attached, tasks, shown, phase, gated>>
-----------------------------------------------------------------------------
FloorElapses ==
  /\ relay.floor
  /\ relay' = [relay EXCEPT !.floor = FALSE]
  /\ UNCHANGED <<encoder, attached, tasks, shown, phase, gated, stranded>>

RunSend ==
  /\ attached /\ ~sending
  /\ relay.backlog # <<>>
  /\ sending' = TRUE
  /\ LET ch == Head(relay.backlog)
     IN  /\ relay' = Popped(relay)
         /\ shown' = [shown EXCEPT ![ch.row] = ch.idx]
  /\ UNCHANGED <<encoder, attached, lingering, phase, gated, stranded>>

RunSent ==
  /\ sending
  /\ sending' = FALSE
  /\ UNCHANGED <<encoder, relay, attached, lingering, shown, phase, gated, stranded>>

\* A send stalled past SHARED_STREAM_SEND_TIMEOUT_SECONDS or met a dead
\* socket: the relay removes itself and the client leaves the fan-out.
RunFail ==
  /\ sending
  /\ sending' = FALSE
  /\ relay' = FreshRelay
  /\ attached' = FALSE
  /\ phase' = "gone"
  /\ UNCHANGED <<encoder, lingering, shown, gated, stranded>>

\* The last send of a stopped relay ends; when it fails the client is
\* discarded although a newer relay may already serve it.
LingerEnds ==
  /\ lingering
  /\ lingering' = FALSE
  /\ phase' \in {phase, "gone"}
  /\ UNCHANGED <<encoder, relay, attached, sending, shown, gated, stranded>>
-----------------------------------------------------------------------------
\* STOP_VIDEO
Pause ==
  /\ phase = "member"
  /\ phase' = "paused"
  /\ UNCHANGED <<encoder, relay, attached, tasks, shown, gated, stranded>>

\* Disconnected, demoted to a secondary display, dropped by a broadcast.
Vanish ==
  /\ phase # "gone"
  /\ phase' = "gone"
  /\ UNCHANGED <<encoder, relay, attached, tasks, shown, gated, stranded>>

\* The socket connects, or START_VIDEO takes it out of the paused set.
Join ==
  /\ phase = "paused"
  /\ phase' = "member"
  /\ UNCHANGED <<encoder, relay, attached, tasks, shown, gated, stranded>>

CaptureStarted ==
  /\ capture = "starting"
  /\ capture' = "running"
  /\ UNCHANGED <<codec, enc, idrDue, events, relay, attached, tasks, shown, phase,
                 gated, stranded>>

CaptureStopping ==
  /\ capture = "running"
  /\ capture' = "stopping"
  /\ UNCHANGED <<codec, enc, idrDue, events, relay, attached, tasks, shown, phase,
                 gated, stranded>>

\* _close_video_relays, after a stop or a failed start; the next capture starts
\* with a keyframe of every row.
CaptureStops ==
  /\ capture # "running"
  /\ events < MaxEvents
  /\ events' = events + 1
  /\ capture' = "starting"
  /\ Detach
  /\ idrDue' = Rows
  /\ stranded' = {}
  /\ UNCHANGED <<codec, enc, shown, phase, gated>>

\* The client's handler ends and takes its relay out of every group.
HandlerEnds ==
  /\ attached
  /\ Detach
  /\ phase' = "gone"
  /\ UNCHANGED <<encoder, shown, gated, stranded>>

\* _set_backpressure_enabled(False)
GateClose ==
  /\ ~gated
  /\ gated' = TRUE
  /\ UNCHANGED <<encoder, relay, attached, tasks, shown, phase, stranded>>

\* Mutant: the lift forgets the keyframe.
GateLift_NoKeyframe ==
  /\ gated /\ capture = "running"
  /\ gated' = FALSE
  /\ UNCHANGED <<encoder, relay, attached, tasks, shown, phase, stranded>>

\* _set_backpressure_enabled(True) after False: the lift asks for a keyframe.
GateLift ==
  /\ gated /\ capture = "running"
  /\ events < MaxEvents
  /\ events' = events + 1
  /\ gated' = FALSE
  /\ idrDue' = Rows
  /\ stranded' = {}
  /\ UNCHANGED <<codec, enc, capture, relay, attached, tasks, shown, phase>>

\* The backpressure task is cancelled or restarted, or finds no registered
\* capture: the flag opens and nothing is asked for.
GateReset ==
  /\ gated
  /\ gated' = FALSE
  /\ stranded' = stranded \union (Missing \ idrDue)
  /\ UNCHANGED <<encoder, relay, attached, tasks, shown, phase>>

Next ==
  \/ \E row \in Rows, kind \in KindsOf(codec), othersAsk \in BOOLEAN :
        Emit(row, kind, othersAsk)
  \/ \E row \in Rows : EmitAsked(row)
  \/ KeyframeRequest
  \/ FloorElapses
  \/ RunSend \/ RunSent \/ RunFail \/ LingerEnds
  \/ Pause \/ Vanish \/ Join \/ HandlerEnds
  \/ CaptureStarted \/ CaptureStopping \/ CaptureStops
  \/ GateClose \/ GateLift \/ GateReset

Spec == Init /\ [][Next]_vars

\* The encoder honours requests, a ready task runs, a send is bounded by its
\* timeout, time passes.  Nothing is assumed of the scene or of the clients.
Fairness ==
  /\ \A row \in Rows : WF_vars(EmitAsked(row))
  /\ WF_vars(RunSend)
  /\ WF_vars(RunSent \/ RunFail)
  /\ WF_vars(LingerEnds)
  /\ WF_vars(FloorElapses)

FairSpec == Spec /\ Fairness
-----------------------------------------------------------------------------
(* Properties                                                               *)

\* Every variable keeps its type.
TypeOK ==
  /\ codec \in Codecs
  /\ enc \in [Rows -> Nat]
  /\ idrDue \in SUBSET Rows
  /\ capture \in {"starting", "running", "stopping"}
  /\ relay \in Relays
  /\ attached \in BOOLEAN
  /\ sending \in BOOLEAN
  /\ lingering \in BOOLEAN
  /\ shown \in [Rows -> Nat]
  /\ phase \in {"member", "paused", "gone"}
  /\ gated \in BOOLEAN
  /\ stranded \in SUBSET Rows
  /\ events \in 0..MaxEvents

\* H.264 chain safety of _VideoRelay: the next chunk of the queue, if a delta,
\* finds the chunk it decodes against as the last of its row on this socket,
\* through drops, gates, relay replacement and lone-row keyframes.
ChainSafe ==
  relay.backlog # <<>> /\ Head(relay.backlog).kind = "delta"
    => shown[Head(relay.backlog).row] = Head(relay.backlog).idx - 1

\* Bytes of the first n chunks of q.
PrefixBytes(q, n) ==
  LET sum[k \in 0..n] == IF k = 0 THEN 0 ELSE sum[k - 1] + Size[q[k].kind]
  IN  sum[n]

\* VIDEO_RELAY_BUDGET_SECONDS: the byte count is that of the queue, and only
\* keyframes (or a chunk at its head) may sit beyond the budget.
BacklogBounded ==
  LET q == relay.backlog
  IN  /\ relay.bytes = PrefixBytes(q, Len(q))
      /\ \A k \in 2..Len(q) : q[k].kind # "idr" => PrefixBytes(q, k) <= Budget

\* Once the scene settles, an H.264 member that is not held back has the
\* newest chunk of every row: every drop, overflow, gate, replaced relay and
\* restart is made good by a keyframe, except the losses the code does not
\* answer by itself (stranded).
CaughtUp ==
  <>[](codec = "h264" /\ phase = "member" /\ ~gated /\ ~sending
         => \A row \in Rows : row \in stranded \/ shown[row] = enc[row])
=============================================================================
