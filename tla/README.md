# TLA+ models of Selkies

Selkies streams a Linux desktop to browsers: native encoders (pixelflux for
video, pcmflux for audio) hand frames to a Python asyncio server, which fans
them out over WebSockets or negotiates WebRTC.  The interesting logic is not in
the codecs but in the server: what is queued for whom, what may be dropped, who
owns a display, what happens while a capture is being rebuilt and a page is
being reloaded at the same time.  These modules model that logic, check it with
TLC on small instances and prove the main results with TLAPS.

Paths below are relative to the repository; line numbers are of
`src/selkies/selkies.py` unless another file is named.

## 1. The system

Everything in the server runs on one asyncio loop: a step of a model is what
one task does between two awaits, and every await is a place where the other
tasks run.  Native callbacks reach the loop through `call_soon_threadsafe`.

| Component | State | Operations | What makes it correct |
|---|---|---|---|
| Video relay `_VideoRelay` (757-888) | backlog, byte count, live rows, sync floor, sender task | `offer`, `flush_for_gate`, `stop`, `_run` | no delta without its reference; backlog bounded; every loss made good by a keyframe |
| Fan-out `do_fanout` (5236-5296), relay groups | `video_relay_groups`, `clients`, `video_paused_clients`, display entries | select targets, gate, prune, create relays, offer, ask for a keyframe | every visible socket gets every chunk or a keyframe; dead and torn sockets get nothing |
| ACK backpressure (2249-2397, 3611-3652) | sent / acknowledged frame ids (uint16), RTT and fps estimates, stall timer, gate | ACK, periodic check, reset | a lagging client is gated and comes back; ids of an earlier run are not trusted |
| Capture lifecycle (4588-4615, 5069-5362, 5851-5961) | `capture_instances`, persistent modules, `_video_capture_lock` | start, stop, live retune, viewer capture, resize | one capture per display, none without an owner or viewer, none lost |
| Reconfiguration lock (4617-4664) | `_reconfigure_lock`, `_reconfigure_pending` | pass, coalesce, guarded section | passes exclude each other; no request is forgotten |
| Layout pass (4695-5066) | `display_layouts`, monitors or Wayland outputs | lay out, keep or stop captures, realize, clamp, start | layouts inside the realized screen; captures match layouts |
| Connection handler (`ws_handler`, 2950-4350) | registry, permissions, pause set, deferred rejoins, throttles, display entries | connect, SETTINGS, START/STOP_VIDEO, takeover, cleanup, grace teardown | a display has one owner; a reload keeps its capture; nothing is left behind by a dead socket |
| Client settings (2595-2936) | per-display and session settings | sanitise, diff, apply, restart | applied under the lock, followed by a pass when the layout depends on them |
| Audio pipeline (1613-1855) | pcmflux capture, shared queue and sender, RED capability per socket | start, stop, re-gate, send | RED only when every client decodes it; a slow client does not stall others |
| Tokens, input authority (5597-5634, 5963-6029) | token table, permissions per socket | replace the table, reconcile live sockets | live roles follow the latest table |
| Supervisor (`stream_server.py` 1300-1378) | active mode, service task, lock | switch, stop, service death | at most one service; a dead one is not reported |
| Uploads (`stream_server.py` 1433-1690) | transfer per path, staging file | first chunk, next chunk, finalise, discard, expire | a finalised file is the chunks of one transfer in order |
| Transfer pacing (`stream_server.py` 138-382) | shared rate, epoch, ceiling, tokens | pace, back off, probe | rate between floor and cap; the ceiling does not ratchet down |
| Signaling server (`signaling_server.py`) | peers, sessions, rooms, eviction times | hello, evict, session, room, remove | one controller per display and one holder per slot; sessions point at live peers |
| WebRTC mode (`webrtc_mode.py`, `rtc.py`, `webrtc_signaling.py`) | peer connections, a media graph per display | session start / end, closed connections, token updates, reconnect | the graph lives as long as its controller; held input is released once |
| Media pipeline (`media_pipeline.py`) | `_running`, `_is_screen_capturing`, `async_lock` | start, stop, pause, resume | it captures iff a controller is there and somebody watches |
| Packet pacer (`webrtc/pacer.py`) | credit, pace, a queue per class, GOP state, keyframe floor, drain task | send, drain, reset, resurrect, back-pressure, close | counters are the queues'; a keyframe fits the budget; only smaller video delays a data packet; dead video has a keyframe on its way |
| Input handler | pressed keys per socket, held modifiers, gamepads | parse and inject | what is pressed is released |
| Settings, probes, statistics | devices, tables | parse and execute | not concurrent in itself |

Interactions: the encoder calls `do_fanout`; `do_fanout` reads the registry and
the display entries that `ws_handler` writes, and feeds relays; a relay writes
back to the registry when its socket dies and asks the encoder for keyframes
through `capture_instances`; backpressure writes the gate `do_fanout` reads;
reconfiguration passes start and stop captures, which create and close the
relay groups, while SETTINGS, disconnects, grace teardowns, viewer starts and
audio operations contend for the two locks.

Hard behaviours, listed one by one under `hazards` in `PROJECT.json`: sockets
that leave between two chunks; a capture that is stopped across an await while
chunks still arrive; sends that time out and leave half a frame on the wire;
keyframe requests that are rate-limited, or reach no registered capture;
coalesced requests whose executor is cancelled; stale instances used after an
await; uint16 ids that wrap and restart; grace periods racing reconnects.

## 2. Modules

```
RelayOps ------> VideoRelay ------> MCVideoRelay       one client
    |                |  \---------> VideoRelayProofs
    |                | (refinement)
    \----------> VideoFanout -----> MCVideoFanout      one display, many sockets
                     \---------> VideoFanoutProofs

Reconfigure ---> MCReconfigure --\
ModeSwitch ------------------------> MCControl         three components with
Backpressure ---------------------/                    liveness, one run
    \- all three: ControlProofs

Uploads ---------------------------\
Tokens ------------------------------> MCServer        five components of the
LayoutOps -----> LayoutPass --------/|                 server, one run
    \- all but Capture: ServerProofs |
Capture -----------------------------|
    |----------> MCCapture           |
    \----------> CaptureLemmas -----> CaptureProofs
RtcPeers ----------------------------/
    \- with Pacer, Signaling: WebRtcProofs

Signaling -----> MCSignaling ------> MCWebRtc          the signaling hub and the
Pacer -----------------------------/                   packet pacer, one run
    \----------> MCPacer

NumberLemmas: induction and least numbers, for VideoRelayProofs and WebRtcProofs
```

Three MC modules put components that share no state into one run.  A behaviour
picks one of them (`part`) and the others stay at their beginning, so the
states add up and do not multiply; the next-state relation of each component is
explored whole, and each of its actions fires.  `Converges` and the other
liveness properties are not weakened by that: a component that stays at its beginning has no fair action enabled.

**RelayOps** has the data of one relay and its synchronous methods as operators
on a record (`offer`, `flush_for_gate`, `Popped`, `WantsSync`), so that both
relay modules run the same code.  A chunk is a stripe row, a kind and a number
per row; a delta decodes only against the chunk of its row with the previous
number.  Bytes are abstract sizes per kind.

**VideoRelay** is one (client, display) pair: the encoder, the relay, its
sender task, the socket, the capture's registration and the gate.  It is also
the specification of the fan-out: `Fanout` says what may happen to one client
when a chunk is emitted (`OfferIt`, `FlushIt`, `SkipIt`).  `sending` is the
await inside `_run`; `lingering` is the last send of a relay that was stopped,
which the code lets finish and which may still discard the socket.  `stranded`
is a history variable: the rows that lost a chunk in one of the ways the code
does not answer by itself (a drop within the sync floor, a keyframe request
that reached no registered capture, a gate that opened by a task restart).
Everything not in it must be made good.

**VideoFanout** is one display: sockets connect, hide (STOP_VIDEO), come back,
take the display over, are dropped by a broadcast, end their handlers; the
relay group follows through target selection and pruning exactly as
`do_fanout` computes them; the capture starts, registers, stops and closes its
group; the gate of the owner closes, lifts and is silently reset.  CONSTANT
`Primary` chooses between the broadcast of the primary display and the
owner-only stream of a secondary one.

**Reconfigure** is `_reconfigure_lock`: an asyncio.Lock with its queue and the
gap between a release and the next waiter's turn, the loop of
`reconfigure_displays`, the guard and settings sections, and the cancellation
of the tasks that run a START_AUDIO request.

**Backpressure** is one display's flow control on both ends: the server's sent
and acknowledged ids on a ring of `IdSpace`, the periodic check with all its
branches (warm-up, stall, suspicious gap, lag, hysteresis), the resets; and a
client that receives, acknowledges what it received last, freezes, comes back
or loses its socket.  A frame carries as history whether a reset followed it
and how many frames were sent since, so that `LagBounded` can compare what the
ring says with the truth.  The lag the code allows (seconds at the client's
measured rate, less the round trip) is any member of `Windows` at each check.

**Capture** is the lifecycle of the primary display's capture.  A coroutine - a
socket's handler, a deferred rejoin, a grace teardown - is the list of
operations it has still to do (`todo`), and one action runs one of them up to
its next await: `_video_capture_lock` with its queue, a native start or stop that
may fail, lose its caller and end late, a stop with its one notification, a pass with
its keep / stop / start phases, the resize, the settings restart, takeover, the
shutdown after the last client.  A rejoin can be cancelled wherever it awaits
(`CancelRejoin`): its place in the queue goes (`Unqueued`), its native call ends
later by itself (`LateStart`, `LateStop`), and where it awaits the end of the
backpressure task it takes its own cancellation for that task's and goes on,
unknown to the display (`adrift`).  What a property must except (a start that
failed, a capture the tables do not know) is recorded in `history`.

**LayoutOps** is the geometry of the desktop (`display_utils.py`):
`compute_dual_layout`, the guard against the primary's screen feeding back,
`reconcile_realized_layout`.  **LayoutPass** is `_reconfigure_displays_locked`
on an X server, action by action: publish the layout, judge which captures can
be kept, stop and fit what the new root would not cover, find or make the mode,
grow, set, move what is kept, set the monitors, clamp, start, weed out the
secondaries that did not start.  The X server and pixelflux may refuse every
one of these.  Clients resize, join, leave, pause and resume in between.

**Tokens** is the token table: `handle_tokens` replaces it and spawns
`reconcile_clients`, which walks snapshots and awaits sends, so that several
walks overlap each other, connects and departures; the input authority is the
live rule of `active_mk_token` over the permissions of the moment.

**Uploads** is `handle_upload` for one destination: two requests stream bodies
byte by byte into the staging file, chunked or plain, with resume offsets,
busy, expiry, failing bodies, size check, rename and a restart of the server.

**ModeSwitch** is the supervisor: `switch_to_mode` under its lock,
`_stop_service` with its time-out, the done callback and `stop_server`, over
services that run, clean up, die or hang.

**RtcPeers** is the WebRTC service for the primary display: the signaling
client's SESSION_START and SESSION_END, the task of a connection that closed,
`reconcile_webrtc_peers`, the loss of the signaling socket; the media graph
with its feeds; and `media_pipeline.py`'s start, stop, pause and resume under
`async_lock`, with native calls that fail or lose their caller.

**Signaling** is `WebRTCPeerManagement` (`signaling_server.py`): the registry
`peers`, the one-way `sessions`, `self.lock` with its queue, and one handler per
socket, whose place is `pc`.  A client's HELLO is one action up to the release
of the lock (`ClientHello`: refuse at once, refuse after its rivals were
evicted, or register); the notifications it deferred are flushed one by one
afterwards (`Flush`), while the evicted handlers go on in their loops.  SESSION
is three steps around its two sends, `remove_peer` two around the send or close
inside `cleanup_session`, with the lock held in between (`CleanupCloses`,
`CleanupEnds`, `CleanupRaises`, then `CleanupGoesOn`).  A reload is a new
connection with the same role, display and slot.  The other end of a socket may
go at any time (`Leave`); until the handler notices, a send to it may raise or
vanish.  The server peer is `webrtc_signaling.py`'s client, which connects
again after its socket ended; what it was told of sessions is `told`.  `why`,
`missed` and `silent` are history: why a server's connection ended, whose
session was stored after its eviction, and whether a handler ended without its
presence report.  Two details of the code are merged: the close of a refused
newcomer's own socket happens with the release of the lock, and of several
controllers of a display all are evicted where the code takes the first
(`OneHolder` says there is at most one).

**Pacer** is `RtpPacer`: packets of the data channels and of the video over one
token bucket.  `SendVideo` and `SendData` are the two ways through `send` - the
fast path, the queue, for video the dead group of pictures, the deadline and
the budget - and `DrainRuns` is a turn of the drain task, which sends what
credit covers, data channels first; it may wake at any moment, with any credit,
since a poke, the credit for the head of a queue and `DRAIN_MAX_SLEEP_S` all wake
it, so that `_poke` is no variable.  An overflow or a failed send resets the
group of pictures (`Reset_Gop`), brakes the pace (`Braked`, to whatever the
measured rate is, or half) and asks for a keyframe unless it has just done so
(`Requested`).  `Noted` is the window of keyframe sizes that holds the budget
up.  No send of the ICE stack suspends, so a frame goes through without another
task running (`Yields`).  Sizes, paces and credit are small numbers, and time
is counted in half seconds, the unit of the code's two timeouts; `due` and
`clock` are history.

## 3. Runs

| Run | Module | What is checked | Result |
|---|---|---|---|
| `relay` | MCVideoRelay | `TypeOK`, `ChainSafe`, `BacklogBounded`, `CaughtUp` | holds, about 650 000 states |
| `fanout` | MCVideoFanout | `StayerImplementsRelay`, `TornNotFed` | holds, about 960 000 states |
| `fanout_chain` | MCVideoFanout | `ChainsSafe` | violated: finding 1 |
| `fanout_torn` | MCVideoFanout | `NoTornReuse` | violated: finding 2 |
| `control` | MCControl | lock: `TypeOK`, `NothingStranded`, `Converges`; modes: `OneService`, `Tracked`, `DeadNotReported`, `SwitchAnswered`; gate: `LagBounded`, `Unlatched`, `StallGated` | holds |
| `reconfigure_cancel` | MCReconfigure | `AlwaysHonored` | violated: finding 3 |
| `webrtc` | MCWebRtc | signaling: `OneHolder`, `NoOrphan`, `ServerLives`, `SessionsEnd`, `NoStaleSession`, `Presence`, `Unblocked`; pacer: `Ledger`, `KeyframeFits`, `Prompt` | holds, about 990 000 states |
| `signaling_reaped` | MCSignaling | `Reaped` | violated: finding 4 |
| `signaling_spared` | MCSignaling | `ServerSpared` | violated: finding 5 |
| `pacer_keyframe` | MCPacer | `KeyframeToCome` | violated: finding 7 |
| `server` | MCServer | uploads: `WholeFile`, `Undisturbed`, `Banked`; tokens: `RolesReconciled`, `VerdictTold`; capture: `WantedRuns`, `Throttled`, `Registered`; layout: `DesktopRealised`, `RegionsInRoot`; WebRTC peers: `CaptureFollows`, `ViewersFollow`, `InputReleased`, `GraphKept` | holds, about 1 610 000 states |
| `capture_reset` | MCCapture | `ResetPerStop` | violated: finding 6 |

*Bounds.*  `relay`: two rows (a lone-row keyframe must not revive the other),
sizes 1 and 2 against a budget of 2 (two deltas fit, the third overflows; a
keyframe is over the budget by itself), and `MaxEvents = 2` scene changes or
outside requests on top of the keyframes the encoder owes, which are not
bounded: enough for a loss, its repair and a second loss during the repair.
`fanout`: two sockets, one row, the same sizes; one socket may hide, the other
(`Stayer`) never does and is the one compared with VideoRelay.  Two sockets are
what the pruning rule needs to go wrong (one leaves, one joins).  The constraint
`StayerPresent` stops exploring once the stayer's handler has ended, since its
view is over.
`control`: four tasks on the lock, so that one can hold it while another
queues, a third is cancelled and a fourth asks; two switchers between two modes
and `MaxStarts = 2` services, so that one switch waits for the lock while the
other stops a service that dies; a ring of 7 ids with windows of 1 and 2, one
frame per check and two messages in flight, so that ids wrap, restart and meet
ids of an earlier run within the window, and the stall timer fires after one
silent check.
`webrtc`, signaling: one of two casts.  The primary's controller, its reload and
a player are the three parties of every race over the registry (holder,
claimant, bystander), around one server, which with the controller may lose its
socket (`leave`); and the controllers of two displays, which may both leave,
around a server that connects again.  The limit
of the takeover window is 1 instead of 3, and the slot's window is full when
the run starts (`Contested`), so that a claim meets it full and, after
`Forget`, empty.
Pacer: video packets of one unit, data packets of one, of two, which fit the
burst budget and which video may overtake, and of three, wider than the budget;
paces from 1 to 5 units, keyframes of one and two packets, any number of other video
packets; the keyframes, data packets, failing sends, closes and changes of the
bitrate of a behaviour are one of four budgets (`MCPacerBudgets`), so that two
keyframes meet a window of one, two data-channel tasks meet the high water mark
and a close, and a send fails with both classes queued.
`server`, uploads: two requests of two transfers and files of two bytes, so
that a chunk can end in the middle of a file and another transfer begin;
tokens: two sockets, three tables, two replacements, so that two walks overlap;
capture: two pages that take each other over and a viewer, `MaxEvents = 3`
messages, deaths and refusals; layout: an aligned and an unaligned width, three
sides, a driver that realises a root that is too flat or too narrow, three
requests and two refusals; WebRTC peers: a page, its reload and a viewer, the
parties of every
teardown; a behaviour may pause and resume, or have a native start that fails,
or a revoked token or lost signaling socket (`Budgets`): their combinations
multiply the states and add no new pair of steps that touch one variable.

*Deadlock* is not checked where the system may really stop: the relay, the
fan-out, the hub and the composed runs come to an end when the events or
connections of the bound are used up and everyone is gone.  That nobody waits
for a lock for ever is `Unblocked` for the hub's, `Converges` for
`_reconfigure_lock` and `SwitchAnswered` for the supervisor's.

*Fairness.*  All is weak.  `VideoRelay!Fairness`: the encoder honours a keyframe
request; a relay's task with a backlog runs; a send ends, since it is wrapped in
`asyncio.wait_for` with SHARED_STREAM_SEND_TIMEOUT_SECONDS; time passes.
Nothing is assumed of clients or of the scene.  `Reconfigure!Fairness`: the
lock's next waiter runs, passes and sections end (their awaits are timeouts,
subprocesses and native calls).  `ModesFairness`: the next switcher runs, a
stopped service or the time-out of `_stop_service` ends the wait, a created
task gets its first step and a finished one its callback; nothing says that a
service ever finishes its cleanup.  `BackpressureFairness`: the check is
periodic, and a client that is live receives and acknowledges on its timer; a
frozen one does nothing and the capture need not emit.  The hub and
the pacer have no fairness: what could go wrong with the progress of the hub is
that its handlers block each other, and `Unblocked` says so as an invariant - in
no state is every handler without a step while one has a dead socket or half a
removal (`ENABLED`).  Each handler only moves forward and the connections of a
behaviour are finitely many, so that no handler is left behind.  `Prompt` counts
the half seconds the first data packet has waited since it was last overtaken,
and bounds a wait without fairness.  For that `Tick` assumes one thing of the
event loop: over half a second in which a data packet is queued throughout, the
drain task has a turn that sends something or finds the bucket full.  Its sleeps
last 50 ms at most (`DRAIN_MAX_SLEEP_S`); nothing but a send empties the bucket,
and an empty one fills in 164 ms at the slowest (`BURST_FLOOR_BYTES` at
`MIN_PACE_BPS`; packets are no wider than a datagram).

*Mutants.*  Every property of a passing run has a mutated definition beside the
original (named `<definition>_<what is wrong>`), a plausible bug of that code
under which the run fails: rows that stay live after an overflow, a budget
compared too late, a gate lift without a keyframe, gated sockets pruned, a torn
socket left registered, a plain lock where the guard is, a loop that forgets the
flag, an eviction that closes no socket or does not tell the server, a lock kept
by an exception, a walk begun with the old table, a chunk that continues another
transfer's file, a root that is grown to the union and not to the total, a
requested keyframe that does not raise the budget.

## 4. Findings

1. **Pruning by size.**  `do_fanout` (5281) looks for relays of departed
   sockets only when the group is larger than the set of members; the comment
   calls this safe.  If one socket hides while another joins between two
   chunks, the sizes are equal, the hidden socket's relay survives the chunk it
   is not offered with its rows still live, and when it shows again the next
   delta is admitted and sent against a reference it never got.  A socket whose
   tab never hides is not affected: for it `StayerImplementsRelay` holds.  The
   keyframe that START_VIDEO requests follows shortly after.
2. **Torn socket.**  The comment at 106-108 says a socket whose send timed out
   is never reused.  A secondary display's target is taken from its entry, not
   from `self.clients`: the next chunk creates a new relay for the same socket.
   What does hold on the primary display is `TornNotFed`.
3. **Cancelled re-run.**  `_reconfigure_guard` promises to honor what was
   coalesced while it held the lock, and does so in the task that held it; a
   START_AUDIO task can be cancelled in the middle of that pass.
   `NothingStranded` shows that this is the only way a request gets lost.
4. **A peer that is not removed.**  `remove_peer` sends SESSION_END in its
   first half, unguarded.  Between the moment the primary's controller closes
   the server's socket and the moment the server's handler removes the server
   peer, another client's removal raises there, and its peer stays registered
   until a later claim for its slot evicts it; presence is not reported either.
   `NoStaleSession` and `Unblocked` show that the session table and the lock
   survive.
5. **A relay that takes the server down.**  A relayed message that cannot be
   sent ends the sender's handler.  When the sender is the server, a client of
   any display whose socket has just gone ends the connection that every
   display shares, and `remove_peer` closes all clients, which the comment in
   `cleanup_session` wants to avoid for secondary displays.  `ServerLives` says
   that this, the server's own socket and the departure of a primary's
   controller are the only ways it goes down: evictions never do it.
6. **A stop without its notification.**  `_stop_capture_for_display_impl`
   promises exactly one PIPELINE_RESETTING per stop, viewer-only captures
   included.  After the owner's grace the teardown deletes the display's entry,
   the pass it asks for stops the capture of the display that is no longer
   there, and `_reset_frame_ids_and_notify` finds no entry and tells the viewer
   who is still connected nothing.

7. **A keyframe that is dropped by its own reset.**  An overflow trims the video
   queue until the newcomer fits the cap, and then halves the pace and with it
   the cap (`pacer.py` 442-450, 258-276).  The keyframe it asked for, if the
   encoder is quick, revives video and overflows the smaller cap with its first
   packets: the second reset drops the rest of it, and its request falls within
   the throttle (358) and is dropped silently, under the log line "GOP reset,
   keyframe requested".  A second later the timeout lets deltas through whose
   reference the receiver never got, with no keyframe on order; its own PLI or
   the next natural keyframe ends it.  Running `pacer.py` alone shows the same.

## 5. Proofs

`VideoRelayProofs` proves, for any set of rows, any chunk sizes, any budget and
any number of events:

* `TypeCorrect`: `Spec => []TypeOK`;
* `ChainSafety`: `Spec => []ChainSafe`.  `ChainSafe` speaks of the head of the
  queue and is not inductive.  The invariant proved is that the whole queue is
  a chain - every delta in it follows the previous chunk of its row in the
  queue, or the one last written to the socket when there is none - and that
  for every live row the newest chunk of the client's stream (queue after
  socket) is the newest one the encoder emitted.  The second half is what lets
  `offer` admit the next delta; overflow, gating and relay replacement restore
  it by emptying the live set together with the queue, and `SkipIt` by
  removing the relay of a client that may come back.

* `BudgetBounds`: `Spec => []BacklogBounded`.  The byte count of a relay is a
  sum over the queue, a recursive function.  The induction goes by the prefixes
  of the queue, as a fact about a set of numbers (`NumberLemmas!UpTo`), which a
  prover can instantiate where the library's induction takes an operator.

`VideoFanoutProofs` proves, for any sockets, rows, chunk sizes, budget and number
of events, on the primary display (a secondary one goes to its owner whatever
`self.clients` says, hence the hypothesis `Primary`):

* `StayerRefines`: `Spec => StayerImplementsRelay`.  Each fan-out step, seen by a
  socket that stays, is an offer, a flush or a skip of `VideoRelay`, in which the
  relays of the other sockets show only as somebody else's request for a
  keyframe (`othersAsk`); every change of gate and owner is one of the abstract
  gate steps or a stutter.  The invariant (`FanoutInv`) says that a socket
  without a relay has nothing queued and no send under way (`Unserved`), that the
  socket that stays is never paused (`Visible`), and that one whose send was torn
  has left `self.clients` for good (`TornLeft`);
* `TornStarved`: `Spec => TornNotFed`, from the same invariant;
* `StayerDecodes`: `Spec => []View!ChainSafe`: what `VideoRelayProofs` proves of one
  relay, carried over by the refinement to a socket among any number of others.

`ControlProofs` proves of the three loops that control the running service:

* for any set of tasks at `_reconfigure_lock`: `TypeCorrect`, one holder at a
  time; `Coalescing`: `Spec => []NothingStranded`, inductive together with
  `TypeOK`: each hand-over leaves either a queued pass or a task that is yet to
  look at the flag; `HonoredUncancelled`: if no task is cancelled,
  `AlwaysHonored` holds too, so finding 3 is due to cancellation alone;
* for any modes, services and number of switch requests: `LiveServiceTracked`,
  `AtMostOneService` and `DeadServiceForgotten`.  The invariant says who holds
  the supervisor's lock and who waits for it, which service each stopper
  awaits, and that only the holder, with no service alive, starts one.  Mode and
  task are set together and the callback of a task follows its end (`Reported`);
  a switch waits for the active service, or for one that died and whose callback
  still found it active (`Awaiting`);
* for any number of ids and any windows: `OpenGateBounds`,
  `BackpressureSpec => []LagBounded`.  The check compares a distance on the
  ring; the invariant says that for ids of the present run it is the frame's
  age, the number of frames sent since, which needs that a distance can be told
  from its complement: `HalfCircleAssumption`, each window, and the most frames
  that may be in flight or lie between an ACK and the latest frame, together
  with a burst are less than half the ids (of 65536, against some seconds of
  video).

`ServerProofs` proves of the tokens, for any sockets, grants and replaced tables,
`RolesOfLatestTable` (`RolesReconciled`) and `VerdictOfLatestTable`
(`VerdictTold`).  The invariant is an obligation of walks: a socket that is not
settled - closed, or of the latest table's role - is still to be passed by the
walk of the last replacement (`PassedSettled`).  Walks of older tables only find
it or drop it, since no step changes the role of a registered socket
(`AtSameRole`).

`ServerProofs` proves of the uploads, for any transfers, requests in progress and
file size:

* `UploadsInductive`: one writer per staging file; a request that streams holds
  the busy entry of its transfer, at the offset it started from; the staged
  bytes begin the tracked transfer's file; a plain request's own staging file
  likewise; and what reached the destination began a file, whole if a total was
  declared.  Every step keeps it, the restart included, which forgets the
  table and keeps the file: the first chunk of any transfer starts the file
  anew and a later one is refused without an entry;
* `UploadsWholeFile`, `UploadsUndisturbed`, `UploadsBanked`: the three properties of
  the run follow from it.

`ServerProofs` proves of the layout, for all sizes, sides, drivers and numbers of
requests and refusals:

* `DualLayoutSound` and `RealizedLayoutSound`: what the two layout functions return -
  displays apart, in the total; after the clamp in the root, side by side as
  before, unchanged where they already fitted, the primary never dropped;
* `LayoutInductive`, `RegionsAlwaysInRoot`, `DesktopAlwaysRealised`.  The
  properties speak of the end of a pass; the invariant says of every step of a
  pass which captures are being kept, which of those fit the root of the
  moment, which were found misplaced and are still to be moved, fitted or
  stopped (`Contained`, `Followed`), what the monitors are (`Monitored`), what
  is known of the root (`Known`) and that the published layout is side by side
  (`SideBySide`).

`CaptureProofs` proves, with the lemmas of `CaptureLemmas`, for any sockets and any
number of messages, deaths and refusals:

* `CaptureRegistered`: `CaptureSpec => []Registered`;
* `CaptureWantedRuns`: `CaptureSpec => []WantedRuns`;
* `CaptureThrottled`: `CaptureSpec => []Throttled`;

all three from one inductive invariant (`CaptureInductive`).  The properties
speak of moments when the lock is free or every coroutine has ended; the
invariant has to say what a coroutine in the middle of its list still promises.

* `Shapes`: every list is a plan - which operation may follow which, that a
  section of the lock ends in a release, that a rejoin stops the capture only to
  start it anew.  An arbitrary list could undo whatever the others promise.
* `LockInv`, `PassInv`, `Graces`, `Locals`: in the lock's queue are, once each and
  the one inside first, those at or in a section; `_reconfigure_lock` is held by
  who is in the body of a pass; a grace teardown begins when its socket's handler
  has ended; a pass keeps no capture that it is about to stop.
* `Tables`: `Registered` holds of every state in which no native call is in
  progress; during one the instance has left the table (a stop) or is not in it
  yet (a start).
* `WantedInv`: as long as a display that is wanted has no capture, or somebody
  in the queue is about to take it away (`Danger`), somebody promises a start
  (`Promise`): a pending pass, a coroutine with a start still to come outside
  the queue (`LaterFix`), or one in the queue behind which nobody only stops
  (`Served`).  A rejoin counts only once it is inside its section, since it can
  be cancelled while it waits, and from there its cancellation is a failed start.
  This is where the order of the queue matters: that the flag is written and the
  place in the queue taken without an await between (`selkies.py` 3717) is what
  makes the latest request win.
* `MonitorInv`: likewise a wanted capture without a backpressure task has a
  coroutine that will start one, or a pass pending that will.

The step of a coroutine is reduced to what it makes of its list
(`LeavesInv`, `WithinInv`, `OutsideInv`), so that each action needs only what it
does to the tables and which list follows which.

`WebRtcProofs` proves, for any packets, sizes, rates and bitrates the assumptions
allow, of the pacer: `CountersOfQueues` (`Ledger`: the byte counters are the sums
of the queues, by induction over a queue), `BudgetCoversKeyframe`
(`KeyframeFits`) and `DataPacketsPrompt` (`Prompt`).  The last rests on what a
pass that leaves the first data packet shows (`PassFlow`): the bucket was not
full, and what video it sent is smaller than that packet (`SmallerAffordable`);
and on an obligation of time (`Punctual`): a data packet that has waited half a
second is still owed such a turn (`due`).  Of the peers, for any
number of pages and graphs: `InputReleasedOnce`, `GraphOfController` and
`ViewersOfGraph` (`InputReleased`, `GraphKept`, `ViewersFollow`), from one
invariant on what each teardown in progress still has to do and to whom.  With it
`CaptureOfConsumers` (`CaptureFollows`), by an invariant on the queue of
`async_lock`: the last start or stop in it decides whether the pipeline will run,
and that is so exactly while a controller is connected, or its start has failed
(`Served`: one controller at a time, and nobody starts what is not to be stopped
before, `StopsBetween`); the last entry decides whether it will capture, and says
what the consumers call for, or a teardown in progress will ask again at its end
(`Follows`).  It needs no exception for `cut`: the flag of the pipeline follows
even then, only the native call does not follow the flag.

`WebRtcProofs` proves of the hub, for any clients, displays, slots, roles and number
of servers, with sharing on or off and any limit of the takeover window:

* `OneHolderAlways`: `Spec => []OneHolder`.  It is inductive: every step either
  shrinks the registered clients (`Registry`, `Shrinking`) or registers one
  whose rivals and controllers are evicted in the same step (`Claiming`);
* `SessionsDropped`: `Spec => []NoStaleSession`, strengthened to `Idle`: a
  handler outside its loop and its cleanup owns no entry.  This is where an
  entry stored after an eviction matters: only its own handler can drop it;
* `PresenceTrue`: `Spec => []Presence`.  The invariant is an obligation: while
  no handler has ended silently, a report that is out of date is owed by some
  handler (`Owed`), since evicted clients' handlers are never at rest
  (`Attended`) and every place a handler can be in leads to a report.

* `OrphansClosed`, `ServerSpares`, `SessionsEnded`: `NoOrphan`, `ServerLives` and
  `SessionsEnd`.  All three are about what is deferred under the lock and done
  after its release.  `HInv` says what may be deferred (closes of clients,
  SESSION_ENDs to servers), that a handler defers only when it has nothing
  deferred, and that a server, which nobody evicts, is registered while its
  handler serves; `StillDue` that a deferred call stays so until it is done.
  With these `NoOrphan` is inductive.  `ServerLives` needs its reason earlier,
  when the reply to HELLO fails (`Excused`); `SessionsEnd`, which only asks
  whether a client is registered, is strengthened to the session itself
  (`SessionOwed`): a removal that tells nobody is right only because the entry
  of `self.sessions` is there when it has to be, and that a SESSION whose client
  was evicted meanwhile is stored over no pair (`Unpaired`).

The proofs assume only the named assumptions of the modules: connections of
clients and servers are disjoint; model values differ from what they stand
beside; sizes are even and at least 2, as `parse_resize_dims` makes them; the
pacer's sizes, rates and limits are positive numbers; and
`HalfCircleAssumption`.

Only model-checked: liveness (`CaughtUp`, `Converges`,
`SwitchAnswered`, `Unlatched`, `StallGated`), which is out of the prover's reach,
and `Unblocked` (`ENABLED`).

## 6. Not modelled

`PROJECT.json` lists every component with its status.  Left out for good:
vendored WebRTC / ICE / Xlib code (more than half of the Python lines), the
browser clients and native add-ons,
device and desktop I/O, probing, statistics, parsing: they are most of the
lines and none of the protocol.  The pacing of file transfers is arithmetic over
real time and floats.  Abstracted inside the
models: pixel data, byte values, sizes of the relay budget in kbps, logging,
metrics, the wording of control messages, and time (a floor, a grace period or
a timeout elapses at any moment).  One display is modelled at a time, but for
the layout: a socket
demoted from the primary to a secondary display leaves the primary's fan-out by
`Leave`.  Of the signaling hub: rooms (nothing in the repository sends ROOM),
HELLOs that are malformed or whose token does not pass (they change nothing),
and the cancellation of handlers at shutdown.  Of the layout: Wayland outputs,
structural encoder changes.  Of WebRTC: secondary displays, negotiation.  The
input handler's outcome is in the keyboard map of the display server, which a
model would have to invent.

What the models except from their properties, or reading showed without a run:

* *Capture.*  Two restarts of a display's backpressure task can both pass the
  await of the cancellation and leave one task untracked (1996).  A resize that
  rebuilds the capture starts no backpressure task (5945-5947), and the
  shutdown after a last client, overtaken by a new connection, stops the new
  client's (1856-1881): `Throttled` excepts both.  A rejoin cancelled
  in a native call leaves the call running without the lock, and its relay
  group: a start may end after a later stop (`orphaned`), a stop after a later
  start (`overtaken`), and `Registered` excepts both.  One cancelled between the
  end of the old backpressure task and the start of a new one leaves the display
  without (`unthrottled`).  One that swallowed its cancellation goes on
  (1906-1915, 2065-2075); the model does not begin another one of the same viewer
  meanwhile.  A viewer's start may
  first await the resolution on X11 without a layout; the model starts at once.
  START_VIDEO onto a live capture resets the client but not the ids.  When the last viewer
  leaves during the restart of a pass the encoder runs without a consumer.  A
  kept capture that is gone when an X11 pass looks it up aborts the pass by
  KeyError (4860).
* *Gate.*  Stopping the task opens the gate without asking for a keyframe
  (1915), and a drop within the sync floor asks for nothing (798): `CaughtUp`
  excepts the rows in `stranded`.
* *Layout.*  START_VIDEO during a pass starts from the published layout before
  the root has it, and the start loop leaves a live capture as it is (`early`).
  The clamp (4957) overwrites a resize that arrived in the middle of the pass.
  A secondary dropped in the last loop (5058-5063) leaves its monitor and the
  primary's offset, and its handler finds no entry, so no pass follows
  (`unplaced`).  A layout of size zero or without a primary aborts with
  VIDEO_STOPPED although captures run on.  `grow_framebuffer`'s "never shrinks"
  (`display_utils.py` 723-735) does not hold when only one dimension is short.
* *Tokens.*  A walk of an older table may finish last and leave a slot of the
  older table (roles are what `RolesReconciled` is about), and a socket that
  leaves during a walk can end it by KeyError (5997-6003).
* *WebRTC.*  The task of a closed controller that has popped its peer and awaits
  its hooks tears the graph down after the reload has made its own
  (`rtc.py` 1484-1487), against `rtc.py` 309-311; a viewer whose offer is on its
  way meanwhile subscribes to the dead graph.  `GraphKept` and `ViewersFollow`
  except these (`strayed`).  A peer that closes during the native stop of its
  STOP_VIDEO leaves `_is_screen_capturing` set, and a later resume does nothing
  (`cut`).
* *Signaling.*  Two live pages that trade a slot fill the takeover window
  (`signaling_server.py` 597); that a single reload is never refused needs the
  clock of real pages and is not claimed.
* *Audio.*  The RED verdict is recomputed under `_reconfigure_guard` (4204);
  what the one sender still holds when it changes is not modelled.
* *Pacer.*  `break` leaves one class only (`pacer.py` 543): while the first data
  packet is not affordable, the same pass goes on to the video queue, whose
  smaller packets may spend the credit it waits for.  A turn with too little
  credit comes every 50 ms (587-590: 625 bytes at `MIN_PACE_BPS`), or at any pace
  with a video packet that credit covers (466-467).  So a data packet of 1200
  bytes can wait as long as such video is queued, "strict priority classes" (149)
  notwithstanding; the model has these behaviours, and `Prompt` starts its half
  second again each time.  What it says is that nothing else delays the packet
  beyond that: no brake, no budget below its size, no video as large as itself.
  A send that fails on the fast path raises to its caller and resets nothing.
* *Supervisor.*  `stop_server` does not take the supervisor's lock: a switch in
  progress may start a service after it.
* *Input handler* (read only).  A Cyrillic key held while Ctrl changes is released
  as another key (`input_handler.py` 3638-3712, 3914-3922); a digit pressed
  atomically and then again under Ctrl loses its release (6080-6083); the
  comment on the overflow of the Wayland queue (5753-5757) does not cover a
  release that has already removed the key (6069-6073).

## 7. What is left

In the order of what they would add: the keyboard of the input handler against a
model of the display server's map; the audio pipeline's single sender; file
transfer and clipboard in the connection handler; a secondary display in
`Capture` and `RtcPeers`.
