---------------------------- MODULE VideoFanout ----------------------------
(***************************************************************************)
(* One display's video fan-out (do_fanout in selkies.py): every encoded    *)
(* chunk goes to the relays of the display's members, and the group of     *)
(* relays follows the members as sockets connect, pause, resume, take the  *)
(* display over and die.  VideoRelay is one client's view of it, under a   *)
(* contract that this module implements (StayerImplementsRelay).  H.264.   *)
(*                                                                         *)
(* The primary display goes to every connected socket that is not paused;  *)
(* a secondary display goes to its owner, whatever self.clients says.      *)
(***************************************************************************)
EXTENDS RelayOps

CONSTANTS Clients,    \* sockets
          NoClient,   \* the display has no entry in display_clients
          Primary,    \* this display is 'primary'
          Pausers,    \* sockets whose tab may hide (STOP_VIDEO, START_VIDEO)
          Stayer,     \* a socket whose tab does not: its view is compared with
                      \* VideoRelay
          MaxEvents   \* bound: chunks of a changing scene, requests, restarts

ASSUME ClientsAssumption == IsFiniteSet(Clients) /\ NoClient \notin Clients
ASSUME PrimaryAssumption == Primary \in BOOLEAN
ASSUME PausersAssumption == Pausers \subseteq Clients /\ Stayer \in Clients \ Pausers
ASSUME EventAssumption   == MaxEvents \in Nat

VARIABLES enc,        \* per row: number of the last chunk emitted
          idrDue,     \* rows that owe a requested keyframe
          events,     \* environment events so far
          capture,    \* "off": no relay group; else as in VideoRelay
          phase,      \* per socket: see Phases
          owner,      \* the socket of the display's entry
          gated,      \* backpressure_enabled is False in that entry
          has_sent_any_frame,
          relay, attached, sending, lingering, shown,
                      \* per socket, as in VideoRelay
          stranded,   \* history, as in VideoRelay, of the stayer
          torn        \* sockets that had a send cancelled or broken off

encoder == <<enc, idrDue, events, capture>>
display == <<phase, owner, gated, has_sent_any_frame>>
pipes   == <<relay, attached, sending, lingering, shown>>
vars == <<encoder, display, pipes, stranded, torn>>

\* not connected yet; in self.clients, or also in video_paused_clients;
\* discarded from self.clients; its handler has ended
Phases == {"new", "member", "paused", "dropped", "gone"}

Init ==
  /\ enc = [r \in Rows |-> 0]
  /\ idrDue = Rows
  /\ events = 0
  /\ capture = "starting"
  /\ phase \in [Clients -> {"new", "member"}]
  /\ owner \in {NoClient} \union { c \in Clients : phase[c] = "member" }
  /\ gated = FALSE /\ has_sent_any_frame = FALSE
  /\ relay = [c \in Clients |-> FreshRelay]
  /\ attached = [c \in Clients |-> FALSE]
  /\ sending = [c \in Clients |-> FALSE]
  /\ lingering = [c \in Clients |-> FALSE]
  /\ shown = [c \in Clients |-> [r \in Rows |-> 0]]
  /\ stranded = {}
  /\ torn = {}
-----------------------------------------------------------------------------
\* How VideoRelay calls the stayer's phase.
PhaseSeen == CASE phase[Stayer] \in {"new", "paused"}   -> "paused"
               [] phase[Stayer] = "member"              -> "member"
               [] phase[Stayer] \in {"dropped", "gone"} -> "gone"

\* The stayer's view of the fan-out.
View == INSTANCE VideoRelay
          WITH Codecs <- {"h264"}, codec <- "h264", phase <- PhaseSeen,
               capture <- IF capture = "off" THEN "starting" ELSE capture,
               gated <- gated /\ owner = Stayer, relay <- relay[Stayer],
               attached <- attached[Stayer], sending <- sending[Stayer],
               lingering <- lingering[Stayer], shown <- shown[Stayer],
               stranded <- stranded

\* History: the stayer's gate opens and nobody asks for a keyframe.
NoteOpening ==
  stranded' = IF gated /\ owner = Stayer /\ ~(gated' /\ owner' = Stayer)
              THEN stranded \union (View!Missing \ idrDue) ELSE stranded
-----------------------------------------------------------------------------
Group   == { c \in Clients : attached[c] }
Members == IF Primary THEN { c \in Clients : phase[c] = "member" }
                      ELSE {owner} \ {NoClient}
HeldBack == IF gated THEN {owner} \intersect Members ELSE {}
Targets  == Members \ HeldBack

\* Mutant: a gated socket is pruned like one that left.
Pruned_Gated == Group \ Targets

\* Relays of sockets that left are looked for only when the group outnumbers
\* the members.
Pruned == IF Cardinality(Group) > Cardinality(Members) THEN Group \ Members ELSE {}

\* The relays in S are stopped and leave the group: a send in flight finishes.
Stop(S) ==
  /\ attached' = [c \in Clients |-> attached[c] /\ c \notin S]
  /\ lingering' = [c \in Clients |-> lingering[c] \/ (c \in S /\ sending[c])]
  /\ sending' = [c \in Clients |-> sending[c] /\ c \notin S]

OfferedTo(c) == IF attached[c] THEN relay[c] ELSE FreshRelay

RelayAfter(c, ch) ==
  CASE c \in Targets  -> offer(OfferedTo(c), ch)
    [] c \in HeldBack -> flush_for_gate(relay[c])
    [] c \in Pruned   -> FreshRelay
    [] OTHER          -> relay[c]

\* History: the rows the stayer lost with this chunk and that no keyframe in
\* due will bring back, as VideoRelay counts them.
StrandedAfter(ch, due) ==
  CASE Stayer \in Targets ->
         (stranded \ (IF ch.kind = "idr" THEN {ch.row} ELSE {}))
           \union (IF View!Excused(OfferedTo(Stayer))
                    THEN LostRows(OfferedTo(Stayer), ch) \ due ELSE {})
    [] Stayer \in HeldBack -> stranded
    [] OTHER -> stranded \union ((RowsOf(relay[Stayer].backlog) \union {ch.row}) \ due)

\* A chunk that finds no group is dropped; a keyframe request that finds no
\* registered capture is lost, though the relay's floor is armed by it.
do_fanout(ch, due) ==
  LET need_sync == \E c \in Targets : WantsSync(OfferedTo(c), ch)
      asked == need_sync /\ capture = "running"
  IN  /\ capture # "off"
      /\ enc' = [enc EXCEPT ![ch.row] = ch.idx]
      /\ relay' = [c \in Clients |-> RelayAfter(c, ch)]
      /\ attached' = [c \in Clients |-> c \in (Group \ Pruned) \union Targets]
      /\ lingering' = [c \in Clients |-> lingering[c] \/ (c \in Pruned /\ sending[c])]
      /\ sending' = [c \in Clients |-> sending[c] /\ c \notin Pruned]
      /\ idrDue' = IF asked THEN Rows ELSE due
      /\ stranded' = IF asked THEN {} ELSE StrandedAfter(ch, due)
      /\ UNCHANGED <<capture, display, shown, torn>>

NextChunk(row, kind) == [row |-> row, kind |-> kind, idx |-> enc[row] + 1]

\* The scene changes in a row, or the row's encoder re-initialises alone.
Emit(row, kind) ==
  /\ events < MaxEvents
  /\ events' = events + 1
  /\ do_fanout(NextChunk(row, kind),
               IF kind = "idr" THEN idrDue \ {row} ELSE idrDue)

\* The encoder honours a keyframe request.
EmitAsked(row) ==
  /\ row \in idrDue
  /\ do_fanout(NextChunk(row, "idr"), idrDue \ {row})
  /\ UNCHANGED events

\* _schedule_idr_for_display from outside the fan-out: REQUEST_KEYFRAME, or
\* START_VIDEO and SETTINGS an await after the socket joined.
AskKeyframe ==
  /\ events < MaxEvents
  /\ events' = events + 1
  /\ idrDue' = Rows
  /\ stranded' = {}

KeyframeRequest ==
  /\ capture = "running"
  /\ AskKeyframe
  /\ UNCHANGED <<enc, capture, display, pipes, torn>>

CaptureBegins ==
  /\ capture = "off"
  /\ capture' = "starting"
  /\ UNCHANGED <<enc, idrDue, events, display, pipes, stranded, torn>>

CaptureStarted ==
  /\ capture = "starting"
  /\ capture' = "running"
  /\ UNCHANGED <<enc, idrDue, events, display, pipes, stranded, torn>>

\* _stop_capture_for_display_impl: the backpressure task is stopped (GateReset),
\* the frame ids are reset, and the capture is unregistered.
CaptureStopping ==
  /\ capture = "running" /\ ~gated
  /\ capture' = "stopping"
  /\ has_sent_any_frame' = FALSE
  /\ UNCHANGED <<enc, idrDue, events, phase, owner, gated, pipes, stranded, torn>>

\* _close_video_relays, after a stop or a failed start: every relay is stopped,
\* the group is removed; the next capture starts with a keyframe.
CaptureStops ==
  /\ capture \in {"starting", "stopping"}
  /\ capture' = "off"
  /\ AskKeyframe
  /\ Stop(Clients)
  /\ relay' = [c \in Clients |-> FreshRelay]
  /\ UNCHANGED <<enc, display, shown, torn>>
-----------------------------------------------------------------------------
(* The relays' tasks                                                        *)

FloorElapses(c) ==
  /\ relay[c].floor
  /\ relay' = [relay EXCEPT ![c].floor = FALSE]
  /\ UNCHANGED <<encoder, display, attached, sending, lingering, shown, stranded, torn>>

RunSend(c) ==
  /\ attached[c] /\ ~sending[c]
  /\ relay[c].backlog # <<>>
  /\ sending' = [sending EXCEPT ![c] = TRUE]
  /\ LET ch == Head(relay[c].backlog)
     IN  /\ relay' = [relay EXCEPT ![c] = Popped(relay[c])]
         /\ shown' = [shown EXCEPT ![c][ch.row] = ch.idx]
  /\ has_sent_any_frame' = (has_sent_any_frame \/ owner = c)
  /\ UNCHANGED <<encoder, phase, owner, gated, attached, lingering, stranded, torn>>

RunSent(c) ==
  /\ sending[c]
  /\ sending' = [sending EXCEPT ![c] = FALSE]
  /\ UNCHANGED <<encoder, display, relay, attached, lingering, shown, stranded, torn>>

\* self.clients.discard: a handler that already ended stays ended.
Discard(c) ==
  phase' = [phase EXCEPT ![c] = IF phase[c] = "gone" THEN "gone" ELSE "dropped"]

\* Mutant: only the relay goes, the socket stays registered.
RunFail_KeepsClient(c) ==
  /\ sending[c]
  /\ sending' = [sending EXCEPT ![c] = FALSE]
  /\ relay' = [relay EXCEPT ![c] = FreshRelay]
  /\ attached' = [attached EXCEPT ![c] = FALSE]
  /\ torn' = torn \union {c}
  /\ UNCHANGED <<encoder, display, lingering, shown, stranded>>

\* The send stalled (its frame is torn) or met a dead socket: the socket is
\* discarded and the relay removes itself from the group.
RunFail(c) ==
  /\ sending[c]
  /\ sending' = [sending EXCEPT ![c] = FALSE]
  /\ relay' = [relay EXCEPT ![c] = FreshRelay]
  /\ attached' = [attached EXCEPT ![c] = FALSE]
  /\ Discard(c)
  /\ torn' = torn \union {c}
  /\ UNCHANGED <<encoder, owner, gated, has_sent_any_frame, lingering, shown, stranded>>

\* The last send of a stopped relay succeeds, stalls or fails.
LingerEnds(c) ==
  /\ lingering[c]
  /\ lingering' = [lingering EXCEPT ![c] = FALSE]
  /\ \/ UNCHANGED <<phase, torn>>
     \/ Discard(c) /\ torn' = torn \union {c}
  /\ UNCHANGED <<encoder, owner, gated, has_sent_any_frame, relay, attached, sending, shown, stranded>>
-----------------------------------------------------------------------------
(* The sockets                                                              *)

Move(c, from, to) ==
  /\ phase[c] \in from
  /\ phase' = [phase EXCEPT ![c] = to]
  /\ UNCHANGED <<encoder, owner, gated, has_sent_any_frame, stranded, torn>>

Join(c)   == Move(c, {"new"}, "member") /\ UNCHANGED pipes
\* STOP_VIDEO; the owner pauses only while another socket watches (otherwise
\* the capture is stopped).
Pause(c)  ==
  /\ c \in Pausers
  /\ owner = c => Members \ {c} # {}
  /\ Move(c, {"member"}, "paused")
  /\ UNCHANGED pipes
Resume(c) == Move(c, {"paused"}, "member") /\ UNCHANGED pipes
\* A broadcast drops the socket, or its handler enters its cleanup.
Leave(c)  == Move(c, {"member", "paused"}, "dropped") /\ UNCHANGED pipes

\* The cleanup, an await later: the socket's relay leaves the group.
HandlerEnds(c) ==
  /\ Move(c, {"dropped"}, "gone")
  /\ Stop({c})
  /\ relay' = [relay EXCEPT ![c] = FreshRelay]
  /\ UNCHANGED shown

\* SETTINGS registers the socket as the display's owner, or hands it the entry.
Takeover(c) ==
  /\ phase[c] = "member" /\ owner # c
  /\ owner' = c
  /\ has_sent_any_frame' = (has_sent_any_frame /\ owner # NoClient)
  /\ UNCHANGED <<encoder, phase, gated, pipes, torn>>
  /\ NoteOpening

\* The reconnect grace ends unclaimed: the entry is deleted.
GraceExpires ==
  /\ owner # NoClient /\ phase[owner] = "gone"
  /\ owner' = NoClient
  /\ gated' = FALSE
  /\ NoteOpening
  /\ UNCHANGED <<encoder, phase, has_sent_any_frame, pipes, torn>>

GateClose ==
  /\ owner # NoClient /\ ~gated
  /\ capture = "running" /\ has_sent_any_frame
  /\ gated' = TRUE
  /\ UNCHANGED <<encoder, phase, owner, has_sent_any_frame, pipes, stranded, torn>>

GateLift ==
  /\ gated /\ capture = "running"
  /\ gated' = FALSE
  /\ AskKeyframe
  /\ UNCHANGED <<enc, capture, phase, owner, has_sent_any_frame, pipes, torn>>

GateReset ==
  /\ gated
  /\ gated' = FALSE
  /\ UNCHANGED <<encoder, phase, owner, has_sent_any_frame, pipes, torn>>
  /\ NoteOpening

Next ==
  \/ \E row \in Rows : EmitAsked(row) \/ Emit(row, "idr") \/ Emit(row, "delta")
  \/ KeyframeRequest
  \/ CaptureBegins \/ CaptureStarted \/ CaptureStopping \/ CaptureStops
  \/ \E c \in Clients :
       \/ FloorElapses(c) \/ RunSend(c) \/ RunSent(c) \/ RunFail(c) \/ LingerEnds(c)
       \/ Join(c) \/ Pause(c) \/ Resume(c) \/ Leave(c) \/ HandlerEnds(c) \/ Takeover(c)
  \/ GraceExpires \/ GateClose \/ GateLift \/ GateReset

Spec == Init /\ [][Next]_vars
-----------------------------------------------------------------------------
(* Properties                                                               *)

\* A client whose tab never hides sees the contract its relay relies on: no
\* chunk passes it by, whatever the other sockets, the owner, the gate, the
\* pruning by group size and the restarts of the capture do.
StayerImplementsRelay == View!Spec

\* No relay is handed another chunk for a socket that had a frame torn by a
\* send timeout.
TornNotFed ==
  [][\A c \in torn : Len(relay'[c].backlog) <= Len(relay[c].backlog)]_vars

\* "the socket is dropped, never reused" (SHARED_STREAM_SEND_TIMEOUT_SECONDS).
NoTornReuse == [][\A c \in torn : shown'[c] = shown[c]]_vars

\* "a delivered delta otherwise decodes against a reference the client never
\* received", and "Membership churn settles within one chunk, so the size check
\* is safe": every client's queue starts on the chunk it can decode.
ChainsSafe ==
  \A c \in Clients :
    relay[c].backlog # <<>> /\ Head(relay[c].backlog).kind = "delta"
      => shown[c][Head(relay[c].backlog).row] = Head(relay[c].backlog).idx - 1
=============================================================================
