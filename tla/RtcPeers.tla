------------------------------ MODULE RtcPeers ------------------------------
(***************************************************************************)
(* The WebRTC peers of the primary display (rtc.py, webrtc_mode.py) with   *)
(* its media graph and its capture (media_pipeline.py).  The signaling     *)
(* client handles SESSION_START and SESSION_END one after the other; a     *)
(* peer connection that closes is torn down by a task of its own; a token  *)
(* update closes peers too; STOP_VIDEO and START_VIDEO come on the peer's  *)
(* channel.  All of them await the pipeline's async_lock.                  *)
(***************************************************************************)
EXTENDS Naturals, Sequences, SequencesExt

CONSTANTS Drivers,      \* the pages that drive the display, a reload is another
          Watchers,     \* its viewers
          NoPeer,
          Budgets       \* the bounds a behaviour may start with: on STOP_VIDEO
                        \* and START_VIDEO, on native starts that fail, on
                        \* revoked tokens and losses of the signaling socket

ASSUME RtcAssumption ==
  /\ Drivers \cap Watchers = {} /\ NoPeer \notin Drivers \cup Watchers
  /\ Budgets \subseteq [toggles: Nat, failures: Nat, drops: Nat]

Peers == Drivers \cup Watchers

VARIABLES peer_connections,  \* the registered peers
          conn,        \* connectionState: "none", "new", "connected", "closed"
          displays,    \* the display's graph, by the controller it was made for
          feeds,       \* per peer: the graph its tracks subscribe to
          video_paused,
          pipeline,    \* _running, _is_screen_capturing
          async_lock,  \* holder, then waiters: a task and what it does inside
          calling,     \* the holder awaits pixelflux
          at,          \* per task: its next step, for which peer
          signaled,    \* SESSION_STARTs and SESSION_ENDs handled; the signaling
                       \* socket; the peers stop_all still has to stop
          budget,      \* what is left of the bounds
          past         \* what the properties recall: whether a peer's input is
                       \* "held"; strayed: the peers that joined in the middle of a
                       \* teardown; failed: whether the last native start did;
                       \* cut: whether a native call lost its caller

rtcVars == <<peer_connections, conn, displays, feeds, video_paused, pipeline,
             async_lock, calling, at, signaled, budget, past>>
media == <<pipeline, async_lock, calling>>

Signal  == <<"signal", NoPeer>>  \* the signaling client
Hook    == <<"hook", NoPeer>>    \* reconcile_webrtc_peers
Lost(p) == <<"lost", p>>         \* on_connectionstatechange, state "closed"
Established(p) == <<"established", p>>  \* the same, state "connected"
Channel(p)     == <<"channel", p>>      \* the consumer of its data channel
Closers == {Signal, Hook} \cup {Lost(p) : p \in Peers}

Does(step, p) == [do |-> step, of |-> p, left |-> {}]

RtcInit ==
  /\ peer_connections = {} /\ displays = NoPeer
  /\ conn = [p \in Peers |-> "none"]
  /\ feeds = [p \in Peers |-> NoPeer]
  /\ video_paused = [p \in Peers |-> FALSE]
  /\ pipeline = [running |-> FALSE, capturing |-> FALSE]
  /\ async_lock = <<>> /\ calling = FALSE
  /\ at = [t \in Closers |-> Does("done", NoPeer)]
  /\ signaled = [started |-> {}, ended |-> {}, link |-> "up", doomed |-> {}]
  /\ budget \in Budgets
  /\ past = [input |-> [p \in Peers |-> "none"], strayed |-> {},
             failed |-> FALSE, cut |-> FALSE]

Free(t) == \A i \in DOMAIN async_lock : async_lock[i].task # t
Resting(t) == at[t].do = "done" /\ Free(t)
Ask(t, op) == [task |-> t, op |-> op]
-----------------------------------------------------------------------------
\* (Mutant: resume_screen_capture without the look at _running.)
CallsNative_Unstarted(op) ==
  CASE op = "start" -> ~pipeline.running /\ ~pipeline.capturing
    [] op = "resume" -> ~pipeline.capturing
    [] OTHER -> pipeline.running /\ pipeline.capturing

\* What is done under async_lock: start_media_pipeline, stop_media_pipeline,
\* pause_screen_capture and resume_screen_capture.
CallsNative(op) ==
  CASE op = "start"  -> ~pipeline.running /\ ~pipeline.capturing
    [] op = "resume" -> pipeline.running /\ ~pipeline.capturing
    [] OTHER         -> pipeline.running /\ pipeline.capturing

Runs(op) == CASE op = "start" -> TRUE [] op = "stop" -> FALSE
              [] OTHER -> pipeline.running

Acquires ==
  /\ async_lock # <<>> /\ ~calling
  /\ IF CallsNative(Head(async_lock).op)
     THEN calling' = TRUE /\ UNCHANGED <<async_lock, pipeline>>
     ELSE /\ async_lock' = Tail(async_lock)
          /\ pipeline' = [pipeline EXCEPT !.running = Runs(Head(async_lock).op)]
          /\ UNCHANGED calling
  /\ UNCHANGED <<peer_connections, conn, displays, feeds, video_paused, at,
                 signaled, budget, past>>

Releases(running, capturing) ==
  /\ calling /\ calling' = FALSE
  /\ async_lock' = Tail(async_lock)
  /\ pipeline' = [running |-> running, capturing |-> capturing]
  /\ UNCHANGED <<peer_connections, conn, displays, feeds, video_paused, at,
                 signaled>>

NativeReturns ==
  LET op == Head(async_lock).op starts == op \in {"start", "resume"} IN
  /\ Releases(Runs(op), starts)
  /\ past' = [past EXCEPT !.failed = @ /\ ~starts]
  /\ UNCHANGED budget

NativeFails ==
  LET op == Head(async_lock).op IN
  /\ calling /\ op \in {"start", "resume"} /\ budget.failures > 0
  /\ Releases(op = "resume", FALSE)
  /\ past' = [past EXCEPT !.failed = TRUE]
  /\ budget' = [budget EXCEPT !.failures = @ - 1]

\* handle_consumers_changed, by task t, when the consumers are those.
ConsumersChanged(q, t, consumers) ==
  IF consumers = {} THEN q
  ELSE Append(q, Ask(t, IF \A p \in consumers : video_paused[p] THEN "pause" ELSE "resume"))
-----------------------------------------------------------------------------
\* A connection closes: its channel's consumer is cancelled wherever it is, and
\* the handler of "closed" looks the peer up and asks for the end of the media.
\* The native call of a cancelled consumer goes on in its thread.
CutOff(p) == calling /\ Head(async_lock).task = Channel(p)

\* A task is at the lock once at most.
Without(q, t) ==
  IF \E i \in DOMAIN q : q[i].task = t
  THEN RemoveAt(q, CHOOSE i \in DOMAIN q : q[i].task = t) ELSE q

ConnectionCloses(p, stages) ==
  LET known == p \in peer_connections
      quiet == Without(async_lock, Channel(p))
  IN IF conn[p] = "closed"
     THEN at' = stages /\ UNCHANGED <<conn, async_lock, calling, past>>
     ELSE /\ conn' = [conn EXCEPT ![p] = "closed"]
          /\ at' = IF known THEN [stages EXCEPT ![Lost(p)] = Does("pop", p)] ELSE stages
          /\ async_lock' = IF known /\ p \in Drivers
                           THEN Append(quiet, Ask(Lost(p), "stop")) ELSE quiet
          /\ calling' = (calling /\ ~CutOff(p))
          /\ past' = [past EXCEPT !.cut = @ \/ CutOff(p)]

\* The other end goes, or ICE gives up: "failed" closes.
PeerVanishes(p) ==
  /\ p \in peer_connections /\ conn[p] # "closed"
  /\ ConnectionCloses(p, at)
  /\ UNCHANGED <<peer_connections, displays, feeds, video_paused, pipeline,
                 signaled, budget>>

\* _stop_rtc_pipeline by task t, up to the end of close().
ClosesPeer(t, p) ==
  IF p \in peer_connections
  THEN ConnectionCloses(p, [at EXCEPT ![t] = Does("pop", p)])
  ELSE UNCHANGED <<conn, at, async_lock, calling, past>>

\* (Mutant: every teardown of a peer runs on_peer_gone.)
Popped_Ungated(p) ==
  [past EXCEPT !.input[p] = IF @ = "held" THEN "released" ELSE "twice",
               !.strayed = @ \ {p}]

\* The consumers are reaped, the peer leaves the table: whoever popped it calls
\* on_peer_gone.  A handler of "closed" that did not pop leaves the graph.
Popped(p) ==
  IF p \in peer_connections
  THEN [past EXCEPT !.input[p] = IF @ = "held" THEN "released" ELSE "twice",
                    !.strayed = @ \ {p}]
  ELSE past

\* (Mutant: a handler of "closed" that popped nothing tears the graph down.)
TearsGraph_Always(t, p) == p \in Drivers

TearsGraph(t, p) == p \in Drivers /\ (p \in peer_connections \/ t # Lost(p))

Pops(t) ==
  LET p == at[t].of IN
  /\ at[t].do = "pop" /\ Free(t)
  /\ peer_connections' = peer_connections \ {p}
  /\ feeds' = [feeds EXCEPT ![p] = NoPeer]
  /\ video_paused' = [video_paused EXCEPT ![p] = FALSE]
  /\ past' = Popped(p)
  /\ at' = [at EXCEPT ![t].do = IF TearsGraph(t, p) THEN "tear" ELSE "notify"]
  /\ UNCHANGED <<conn, displays, media, signaled, budget>>

\* A teardown ends: _notify_consumers_changed, or stop_all returns.
Ends(t) ==
  /\ at' = [at EXCEPT ![t] = Does("done", NoPeer)]
  /\ async_lock' = IF at[t].of = NoPeer THEN async_lock
                   ELSE ConsumersChanged(async_lock, t, peer_connections)
  /\ signaled' = IF at[t].of # NoPeer THEN signaled
                 ELSE [signaled EXCEPT !.link = "up", !.ended = signaled.started]

Proceeds(t, step, viewers) ==
  /\ at' = [at EXCEPT ![t].do = step, ![t].left = viewers]
  /\ UNCHANGED <<async_lock, signaled>>

\* _teardown_display_graph: the graph of the display, whose ever it is.
Tears(t) ==
  /\ at[t].do = "tear"
  /\ displays' = NoPeer
  /\ IF displays = NoPeer THEN Ends(t) ELSE Proceeds(t, "reap", {})
  /\ UNCHANGED <<peer_connections, conn, feeds, video_paused, pipeline, calling,
                 budget, past>>

\* (Mutant: without the viewers.)
FindsViewers_LeavesThem(t) ==
  /\ at[t].do = "reap" /\ Ends(t)
  /\ UNCHANGED <<peer_connections, conn, displays, feeds, video_paused, pipeline,
                 calling, budget, past>>

\* The relay has stopped: _close_display_viewers.
FindsViewers(t) ==
  LET viewers == Watchers \cap peer_connections IN
  /\ at[t].do = "reap"
  /\ IF viewers = {} THEN Ends(t) ELSE Proceeds(t, "close", viewers)
  /\ UNCHANGED <<peer_connections, conn, displays, feeds, video_paused, pipeline,
                 calling, budget, past>>

ClosesViewer(t) ==
  /\ at[t].do = "close"
  /\ \E v \in at[t].left :
       ConnectionCloses(v, [at EXCEPT ![t].left = @ \ {v}])
  /\ UNCHANGED <<peer_connections, displays, feeds, video_paused, pipeline,
                 signaled, budget>>

Finishes(t) ==
  /\ at[t].do = "notify" \/ (at[t].do = "close" /\ at[t].left = {})
  /\ Ends(t)
  /\ UNCHANGED <<peer_connections, conn, displays, feeds, video_paused,
                 pipeline, calling, budget, past>>
-----------------------------------------------------------------------------
\* The signaling server ends an evicted controller's session before it starts
\* its successor's.
MayStart(p) ==
  /\ Resting(Signal) /\ signaled.link # "stopping" /\ p \notin signaled.started
  /\ p \in Drivers => signaled.started \cap Drivers \subseteq signaled.ended

\* A teardown of another graph is to come, and takes whatever graph it finds.
TearsLater == \E t \in {Hook} \cup {Lost(c) : c \in Drivers} :
  at[t].do = "tear" \/ (t = Hook /\ at[t].do = "pop" /\ at[t].of \in Drivers)

\* _start_rtc_pipeline up to the offer; a viewer without a graph is refused.
SessionStarts(p) ==
  LET graph == IF p \in Drivers THEN p ELSE displays IN
  /\ MayStart(p)
  /\ signaled' = [signaled EXCEPT !.started = @ \cup {p}]
  /\ displays' = graph
  /\ feeds' = [feeds EXCEPT ![p] = graph]
  /\ IF graph = NoPeer
     THEN UNCHANGED <<conn, at>>
     ELSE /\ conn' = [conn EXCEPT ![p] = "new"]
          /\ at' = [at EXCEPT ![Signal] = Does("offer", p)]
  /\ past' = IF p \in Drivers /\ TearsLater
             THEN [past EXCEPT !.strayed = @ \cup {p}] ELSE past
  /\ UNCHANGED <<peer_connections, video_paused, media, budget>>

\* The offer is out: the peer is registered.
OfferSent ==
  LET p == at[Signal].of now == peer_connections \cup {p} IN
  /\ at[Signal].do = "offer" /\ signaled.link = "up"
  /\ peer_connections' = now
  /\ at' = [at EXCEPT ![Signal] = Does("done", NoPeer)]
  /\ async_lock' = ConsumersChanged(async_lock, Signal, now)
  /\ past' = [past EXCEPT !.input[p] = "held",
                           !.strayed = IF p \in Drivers \/ feeds[p] = displays
                                       THEN @ ELSE @ \cup {p}]
  /\ UNCHANGED <<conn, displays, feeds, video_paused, pipeline, calling,
                 signaled, budget>>

\* The signaling socket is gone: close, and _cleanup_failed_start finds nothing.
OfferFails ==
  /\ at[Signal].do = "offer" /\ signaled.link = "down"
  /\ conn' = [conn EXCEPT ![at[Signal].of] = "closed"]
  /\ at' = [at EXCEPT ![Signal] = Does("done", NoPeer)]
  /\ UNCHANGED <<peer_connections, displays, feeds, video_paused, media,
                 signaled, budget, past>>

\* For a viewer that is gone it does nothing, and is left out.
SessionEnds(p) ==
  /\ Resting(Signal) /\ signaled.link # "stopping"
  /\ p \in Drivers \cup peer_connections
  /\ p \in signaled.started \ signaled.ended
  /\ signaled' = [signaled EXCEPT !.ended = @ \cup {p}]
  /\ ClosesPeer(Signal, p)
  /\ UNCHANGED <<peer_connections, displays, feeds, video_paused, pipeline, budget>>

\* The server's signaling socket drops; what it had received is handled first.
SignalingDrops ==
  /\ signaled.link = "up" /\ budget.drops > 0
  /\ signaled' = [signaled EXCEPT !.link = "down"]
  /\ budget' = [budget EXCEPT !.drops = @ - 1]
  /\ UNCHANGED <<peer_connections, conn, displays, feeds, video_paused, media,
                 at, past>>

\* stop_all_rtc_connections: the peers one by one, then the graph.
StopsAll ==
  /\ Resting(Signal) /\ signaled.link = "down"
  /\ signaled' = [signaled EXCEPT !.link = "stopping", !.doomed = peer_connections]
  /\ UNCHANGED <<peer_connections, conn, displays, feeds, video_paused, media,
                 at, budget, past>>

StopsNext ==
  /\ Resting(Signal)
  /\ \E p \in signaled.doomed :
       /\ signaled' = [signaled EXCEPT !.doomed = @ \ {p}]
       /\ ClosesPeer(Signal, p)
  /\ UNCHANGED <<peer_connections, displays, feeds, video_paused, pipeline, budget>>

StopsGraphs ==
  /\ Resting(Signal) /\ signaled.link = "stopping" /\ signaled.doomed = {}
  /\ at' = [at EXCEPT ![Signal] = Does("tear", NoPeer)]
  /\ UNCHANGED <<peer_connections, conn, displays, feeds, video_paused, media,
                 signaled, budget, past>>

\* reconcile_webrtc_peers closes a peer whose token was revoked.
TokenRevoked(p) ==
  /\ Resting(Hook) /\ p \in peer_connections /\ budget.drops > 0
  /\ budget' = [budget EXCEPT !.drops = @ - 1]
  /\ ClosesPeer(Hook, p)
  /\ UNCHANGED <<peer_connections, displays, feeds, video_paused, pipeline, signaled>>

\* State "connected": a controller's start_display_media.
Connects(p) ==
  /\ p \in peer_connections /\ conn[p] = "new"
  /\ conn' = [conn EXCEPT ![p] = "connected"]
  /\ async_lock' = IF p \in Watchers THEN async_lock
                   ELSE Append(async_lock, Ask(Established(p), "start"))
  /\ UNCHANGED <<peer_connections, displays, feeds, video_paused, pipeline,
                 calling, at, signaled, budget, past>>

\* STOP_VIDEO and START_VIDEO: handle_video_consumer_active.
VideoToggled(p) ==
  LET paused == [video_paused EXCEPT ![p] = ~@] IN
  /\ conn[p] = "connected" /\ Free(Channel(p)) /\ budget.toggles > 0
  /\ p \in peer_connections
  /\ budget' = [budget EXCEPT !.toggles = @ - 1]
  /\ video_paused' = paused
  /\ async_lock' =
       IF ~paused[p] THEN Append(async_lock, Ask(Channel(p), "resume"))
       ELSE IF \A c \in peer_connections : paused[c]
            THEN Append(async_lock, Ask(Channel(p), "pause"))
            ELSE async_lock
  /\ UNCHANGED <<peer_connections, conn, displays, feeds, pipeline, calling, at,
                 signaled, past>>

\* A lock that is free is taken before anything else happens.
LockTaken == async_lock = <<>> \/ calling

RtcNext ==
  \/ Acquires
  \/ /\ LockTaken
     /\ \/ NativeReturns \/ NativeFails \/ OfferSent \/ OfferFails
        \/ SignalingDrops \/ StopsAll \/ StopsNext \/ StopsGraphs
        \/ \E p \in Peers : \/ PeerVanishes(p) \/ SessionStarts(p) \/ SessionEnds(p)
                            \/ TokenRevoked(p) \/ Connects(p) \/ VideoToggled(p)
        \/ \E t \in Closers : \/ Pops(t) \/ Tears(t) \/ FindsViewers(t)
                              \/ ClosesViewer(t) \/ Finishes(t)

RtcSpec == RtcInit /\ [][RtcNext]_rtcVars
-----------------------------------------------------------------------------
MediaSettled == async_lock = <<>> /\ signaled.link = "up" /\ \A t \in Closers : at[t].do = "done"

\* Once every task has finished, the capture is what its consumers call for:
\* it runs while a controller is connected and a consumer is not paused, and
\* not otherwise, whatever the order in which joins, leaves, pauses and
\* the teardown took the lock.  Excepted: a native start that failed, and a
\* pause or resume cancelled in the middle of its native call.
CaptureFollows ==
  MediaSettled /\ ~past.cut =>
    /\ pipeline.capturing => pipeline.running
    /\ pipeline.running => peer_connections \cap Drivers # {}
    /\ ~past.failed =>
         /\ \A c \in peer_connections \cap Drivers :
              conn[c] = "connected" => pipeline.running
         /\ pipeline.running =>
              (pipeline.capturing <=> \E p \in peer_connections : ~video_paused[p])

\* A viewer never keeps a connection to a graph that is gone, whichever of the
\* three teardowns drops it, and however they overlap.  Excepted: one whose
\* offer was on its way meanwhile.
ViewersFollow ==
  MediaSettled => \A v \in (peer_connections \cap Watchers) \ past.strayed :
               feeds[v] = displays

\* The input a peer may hold is released once, and is not left held, although
\* the stop of its session and the close of its connection both end it.
InputReleased ==
  \A p \in Peers : /\ past.input[p] # "twice"
                   /\ past.input[p] = "held" => p \in peer_connections

\* "A display's graph is created by its first controller and torn down with it"
\* (rtc.py:309): while a controller's connection is open the display has the
\* graph made for it, although its predecessor is stopped by its session, by
\* the close of its connection and by a token update, in any order.  Excepted:
\* a controller that starts while one of these has popped the predecessor and
\* not torn the graph down yet; that one takes the successor's.
GraphKept ==
  \A c \in (peer_connections \cap Drivers) \ past.strayed :
    conn[c] # "closed" => displays = c
=============================================================================
