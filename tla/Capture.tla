------------------------------ MODULE Capture ------------------------------
(***************************************************************************)
(* The lifecycle of the primary display's capture (selkies.py): sockets'   *)
(* handlers, deferred rejoins, grace teardowns and reconfiguration passes  *)
(* start and stop it under _video_capture_lock, and await in between.  A   *)
(* coroutine is the list of the operations it has still to do (todo); an   *)
(* action runs one of them up to its next await.                           *)
(***************************************************************************)
EXTENDS Naturals, Sequences, SequencesExt

CONSTANTS Owners,     \* sockets of pages that can own the display
          Viewers,    \* sockets of shared viewers
          NoOne,      \* no entry in display_clients; no holder of a lock
          MaxEvents   \* bound on the messages, deaths and refusals

Pages == Owners \cup Viewers
Handler(s) == <<s, "handler">>
Rejoin(v)  == <<v, "rejoin">>
Grace(o)   == <<o, "grace">>
Coroutines == {Handler(s) : s \in Pages} \cup {Rejoin(v) : v \in Viewers}
              \cup {Grace(o) : o \in Owners}

\* What display_clients holds of a display.
Entries == [ws : Owners, active : BOOLEAN, task : BOOLEAN, told : BOOLEAN]

ASSUME CaptureAssumption ==
  /\ Owners \cap Viewers = {} /\ NoOne \notin Pages \cup Coroutines \cup Entries
  /\ MaxEvents \in Nat

VARIABLES clients, paused,   \* self.clients, video_paused_clients
          life,       \* per socket: "new", "open", "closed" (by a takeover,
                      \* its handler goes on), "gone"
          settled,    \* owners whose first SETTINGS was processed
          entry,      \* display_clients['primary'], or NoOne
          instance,   \* 'primary' is in capture_instances
          native,     \* the native capture: "off", "on", "dead"
          group,      \* there is a relay group
          lock,       \* _video_capture_lock: the holder, then the waiters
          pass,       \* holder of _reconfigure_lock
          pending,    \* _reconfigure_pending
          todo,       \* per coroutine: the operations still to do
          local,      \* per coroutine: its local variables
          late,       \* native calls whose coroutine was cancelled
          history,    \* see Histories
          events

registry == <<clients, paused, life, settled>>
capture == <<instance, native, group>>
control == <<lock, todo>>
captureVars == <<registry, entry, capture, control, pass, pending, local, late,
                 history, events>>

\* failed: the last start failed, or was cancelled.  orphaned: a native capture
\* was started that capture_instances does not know.  unthrottled: a resize
\* rebuilt the capture, which starts no backpressure task, or the shutdown after
\* a last client stopped the one of a client that had come since, or a rejoin
\* was cancelled before it started one.  cancelled: a start or stop was, and
\* left its relay group.  overtaken: a cancelled stop ended after a later start.
\* unreset: sockets whose stream was stopped and that were not told so.
Histories == [failed |-> FALSE, orphaned |-> FALSE, unthrottled |-> FALSE,
              cancelled |-> FALSE, overtaken |-> FALSE, unreset |-> {}]

\* keep: the pass keeps the running capture.  reset: the stop has notified.
\* same: the entry it read is still the entry.  adrift: a rejoin that swallowed
\* its cancellation, and that nobody knows of any more.
Fresh == [keep |-> FALSE, reset |-> FALSE, same |-> FALSE, adrift |-> FALSE]

\* Nobody has connected yet, or one page has and streams, to it alone or to
\* viewers who have paused.
Unvisited ==
  /\ clients = {} /\ settled = {} /\ paused = {} /\ life = [s \in Pages |-> "new"]
  /\ entry = NoOne
  /\ instance = FALSE /\ native = "off" /\ group = FALSE
Streaming(o, viewers) ==
  /\ clients = {o} \cup viewers /\ settled = {o} /\ paused = viewers
  /\ life = [s \in Pages |-> IF s \in clients THEN "open" ELSE "new"]
  /\ entry = [ws |-> o, active |-> TRUE, task |-> TRUE, told |-> FALSE]
  /\ instance = TRUE /\ native = "on" /\ group = TRUE

CaptureInit ==
  /\ \/ Unvisited
     \/ \E o \in Owners, viewers \in {{}, Viewers} : Streaming(o, viewers)
  /\ lock = <<>> /\ pass = NoOne /\ pending = FALSE
  /\ todo = [p \in Coroutines |-> <<>>]
  /\ local = [p \in Coroutines |-> Fresh]
  /\ late = {} /\ history = Histories /\ events = 0
-----------------------------------------------------------------------------
Stop  == <<"stop", "release">>
Start == <<"start", "release">>
Shutdown_Pipelines == <<"reconfigure", "guard", "bp_off", "unguard">>

\* Operations that begin by taking _video_capture_lock, without an await between
\* the code before them and the attempt; the lock is FIFO.
Locking == {"stop", "start", "judge", "relive"}

Queued(q, p, ops) ==
  IF ops # <<>> /\ Head(ops) \in Locking /\ ~Contains(q, p) THEN Append(q, p) ELSE q

Unqueued(q, p) ==
  IF Contains(q, p) THEN RemoveAt(q, CHOOSE i \in DOMAIN q : q[i] = p) ELSE q

\* Coroutine p goes on with ops; a release is not awaited.
Goes(p, ops) ==
  LET released == ops # <<>> /\ Head(ops) = "release"
      next == IF released THEN Tail(ops) ELSE ops
  IN /\ todo' = [todo EXCEPT ![p] = next]
     /\ lock' = Queued(IF released THEN Tail(lock) ELSE lock, p, next)

Rest(p) == Tail(todo[p])
At(p, op) == todo[p] # <<>> /\ Head(todo[p]) = op
Holds(p) == lock # <<>> /\ Head(lock) = p
Wanted == entry # NoOne /\ entry.active
Pending(v) == todo[Rejoin(v)] # <<>> /\ ~local[Rejoin(v)].adrift
Awake == {v \in Viewers : Pending(v)}

\* PIPELINE_RESETTING to one socket; _reset_frame_ids_and_notify sends it to
\* everybody, if there is an entry.
Told(s) == [history EXCEPT !.unreset = @ \ {s}]
Notified == IF entry = NoOne THEN history.unreset ELSE history.unreset \ clients

\* The instance leaves the table; if there is none, only the relays go.
PopInstance(p, reset, rest) ==
  /\ local' = [local EXCEPT ![p].reset = reset]
  /\ instance' = FALSE
  /\ IF instance
     THEN /\ Goes(p, <<"stop_native">> \o rest) /\ UNCHANGED group
          /\ history' = [history EXCEPT
                           !.unreset = IF reset THEN @ ELSE @ \cup (clients \ paused)]
     ELSE Goes(p, rest) /\ group' = FALSE /\ UNCHANGED history

\* _stop_capture_for_display_impl, up to the cancellation of the backpressure
\* task, which is awaited, or of the native stop.
Stops(p, rest) ==
  /\ IF entry # NoOne /\ entry.task
     THEN /\ Goes(p, <<"stop_bp">> \o rest)
          /\ local' = [local EXCEPT ![p].same = TRUE]
          /\ UNCHANGED <<instance, group, history>>
     ELSE PopInstance(p, FALSE, rest)
  /\ UNCHANGED <<registry, entry, native, pass, pending, late, events>>

StopBegins(p) == At(p, "stop") /\ Holds(p) /\ Stops(p, Rest(p))

MonitorStopped(p) ==
  /\ At(p, "stop_bp")
  /\ entry' = IF local[p].same THEN [entry EXCEPT !.task = FALSE] ELSE entry
  /\ local' = [local EXCEPT ![p].same = FALSE]
  /\ history' = [history EXCEPT !.unreset = Notified]
  /\ Goes(p, <<"stop_pop">> \o Rest(p))
  /\ UNCHANGED <<registry, capture, pass, pending, late, events>>

StopPops(p) ==
  /\ At(p, "stop_pop")
  /\ PopInstance(p, TRUE, Rest(p))
  /\ UNCHANGED <<registry, entry, native, pass, pending, late, events>>

\* The native capture has stopped.  Unless the monitor's end notified already
\* (to sockets that will see the stream's last chunks), everybody is notified.
NativeStopped(p) ==
  /\ At(p, "stop_native")
  /\ native' = "off" /\ group' = FALSE
  /\ history' = [history EXCEPT
       !.orphaned = FALSE,
       !.unreset = IF local[p].reset THEN @ ELSE Notified]
  /\ local' = [local EXCEPT ![p].reset = FALSE]
  /\ Goes(p, Rest(p))
  /\ UNCHANGED <<registry, entry, instance, pass, pending, late, events>>

\* What follows a start: the monitor, if a START_VIDEO asked for it, or a rejoin,
\* and it succeeded; a pass, if a START_VIDEO's failed.
Sequels == {"after_start", "after_rejoin"}

After_NoMonitor(ops, started) == IF Last(ops) \in Sequels THEN Front(ops) ELSE ops

After(ops, started) ==
  IF Last(ops) \notin Sequels THEN ops
  ELSE Front(ops) \o (IF started THEN <<"bp">>
                      ELSE IF Last(ops) = "after_start" THEN <<"reconfigure">> ELSE <<>>)

\* _start_capture_for_display_impl, up to the native start.
StartBegins(p) ==
  /\ At(p, "start") /\ Holds(p)
  /\ \/ /\ instance /\ native = "on"
        /\ Goes(p, After(Rest(p), TRUE)) /\ UNCHANGED group
     \/ /\ ~instance
        /\ group' = TRUE
        /\ Goes(p, <<"start_native">> \o Rest(p))
  /\ UNCHANGED <<registry, entry, instance, native, pass, pending, local, late, history, events>>

\* A stale capture is stopped first, and built anew.
Rebuilds(p) ==
  /\ At(p, "start") /\ Holds(p)
  /\ instance /\ native # "on"
  /\ Stops(p, todo[p])

NativeStarted_LeavesRelays(p) ==
  /\ At(p, "start_native")
  /\ events < MaxEvents /\ events' = events + 1
  /\ Goes(p, After(Rest(p), FALSE))
  /\ UNCHANGED <<registry, entry, capture, pass, pending, local, late, history>>

NativeStarted(p) ==
  /\ At(p, "start_native")
  /\ \/ /\ native' = "on" /\ instance' = TRUE
        /\ Goes(p, After(Rest(p), TRUE))
        /\ history' = [history EXCEPT !.failed = FALSE, !.orphaned = FALSE,
                                      !.cancelled = FALSE, !.overtaken = FALSE]
        /\ UNCHANGED <<group, events>>
     \/ /\ events < MaxEvents /\ events' = events + 1
        /\ group' = FALSE
        /\ Goes(p, After(Rest(p), FALSE))
        /\ history' = [history EXCEPT !.failed = TRUE, !.cancelled = FALSE]
        /\ UNCHANGED <<native, instance>>
  /\ UNCHANGED <<registry, entry, pass, pending, local, late>>

\* A start on the live module (Wayland), which may have left the table since
\* it was looked up.
Relive(p) ==
  /\ At(p, "relive") /\ Holds(p)
  /\ native' = "on"
  /\ history' = [history EXCEPT !.orphaned = @ \/ ~instance]
  /\ Goes(p, Rest(p))
  /\ UNCHANGED <<registry, entry, instance, group, pass, pending, local, late, events>>

\* The thread of a cancelled start comes to its end.
LateStart ==
  /\ \E r \in Coroutines : <<r, "start">> \in late /\ late' = late \ {<<r, "start">>}
  /\ native' = "on"
  /\ history' = [history EXCEPT !.orphaned = @ \/ ~instance]
  /\ UNCHANGED <<registry, entry, instance, group, control, pass, pending, local, events>>

LateStop ==
  /\ \E r \in Coroutines : <<r, "stop">> \in late /\ late' = late \ {<<r, "stop">>}
  /\ native' = "off"
  /\ history' = [history EXCEPT !.orphaned = FALSE, !.overtaken = @ \/ instance]
  /\ UNCHANGED <<registry, entry, instance, group, control, pass, pending, local, events>>

CaptureDies ==
  /\ native = "on" /\ events < MaxEvents
  /\ native' = "dead" /\ events' = events + 1
  /\ UNCHANGED <<registry, entry, instance, group, control, pass, pending, local,
                 late, history>>
-----------------------------------------------------------------------------
\* _start_backpressure_task_if_needed
StartMonitor(p) ==
  /\ At(p, "bp")
  /\ IF entry # NoOne /\ entry.task
     THEN /\ local' = [local EXCEPT ![p].same = TRUE]
          /\ Goes(p, <<"bp_again">> \o Rest(p))
          /\ UNCHANGED <<entry, history>>
     ELSE /\ entry' = IF entry = NoOne THEN NoOne ELSE [entry EXCEPT !.task = TRUE]
          /\ history' = [history EXCEPT !.unthrottled = @ /\ entry = NoOne]
          /\ Goes(p, Rest(p))
          /\ UNCHANGED local
  /\ UNCHANGED <<registry, capture, pass, pending, late, events>>

RestartMonitor(p) ==
  /\ At(p, "bp_again")
  /\ entry' = IF local[p].same THEN [entry EXCEPT !.task = TRUE] ELSE entry
  /\ local' = [local EXCEPT ![p].same = FALSE]
  /\ history' = [history EXCEPT !.unthrottled = @ /\ ~local[p].same]
  /\ Goes(p, Rest(p))
  /\ UNCHANGED <<registry, capture, pass, pending, late, events>>

\* The monitors are stopped at the end of shutdown_pipelines.
StopMonitors(p) ==
  /\ At(p, "bp_off")
  /\ IF entry # NoOne /\ entry.task
     THEN /\ entry' = [entry EXCEPT !.task = FALSE]
          /\ history' = [history EXCEPT !.unthrottled = TRUE, !.unreset = Notified]
     ELSE UNCHANGED <<entry, history>>
  /\ Goes(p, Rest(p))
  /\ UNCHANGED <<registry, capture, pass, pending, local, late, events>>

-----------------------------------------------------------------------------
\* reconfigure_displays: coalesced with the pass in progress, or a pass.
Reconfigure_Displays(p) ==
  /\ At(p, "reconfigure")
  /\ IF pass # NoOne
     THEN pending' = TRUE /\ Goes(p, Rest(p)) /\ UNCHANGED pass
     ELSE pass' = p /\ Goes(p, <<"pass">> \o Rest(p)) /\ UNCHANGED pending
  /\ UNCHANGED <<registry, entry, capture, local, late, history, events>>

\* _signal_all_displays_stopped
Abort(p) ==
  /\ events < MaxEvents /\ events' = events + 1
  /\ entry' = IF entry = NoOne THEN NoOne ELSE [entry EXCEPT !.told = TRUE]
  /\ Goes(p, <<"passed">> \o Rest(p))

BeginPass(p) ==
  /\ At(p, "pass")
  /\ pending' = FALSE
  /\ \/ /\ entry = NoOne
        /\ Goes(p, (IF instance THEN Stop ELSE <<>>) \o <<"passed">> \o Rest(p))
        /\ UNCHANGED <<entry, events>>
     \/ \* a client without a size
        entry # NoOne /\ Abort(p)
     \/ /\ entry # NoOne
        /\ Goes(p, <<"judge", "release", "outputs">> \o Rest(p))
        /\ UNCHANGED <<entry, events>>
  /\ UNCHANGED <<registry, capture, pass, local, late, history>>

\* Whether the capture follows the new layout or is stopped; it is kept only
\* if it is wanted, alive and structurally the same.
Judge(p) ==
  /\ At(p, "judge") /\ Holds(p)
  /\ \/ /\ instance /\ Wanted /\ native = "on"
        /\ local' = [local EXCEPT ![p].keep = TRUE]
        /\ Goes(p, Rest(p))
     \/ /\ instance
        /\ local' = [local EXCEPT ![p].keep = FALSE]
        /\ Goes(p, <<"stop">> \o Rest(p))
     \/ /\ ~instance
        /\ local' = [local EXCEPT ![p].keep = FALSE]
        /\ Goes(p, Rest(p))
  /\ UNCHANGED <<registry, entry, capture, pass, pending, late, history, events>>

\* The outputs are changed: a kept capture may refuse its new region or have
\* left the table (a KeyError), the X server may refuse its new mode.
Outputs(p) ==
  /\ At(p, "outputs")
  /\ \/ /\ local[p].keep /\ instance
        /\ Goes(p, Stop \o <<"start_loop">> \o Rest(p))
        /\ UNCHANGED <<entry, events>>
     \/ /\ local[p].keep /\ ~instance
        /\ Goes(p, <<"passed">> \o Rest(p))
        /\ UNCHANGED <<entry, events>>
     \/ Abort(p)
  /\ local' = [local EXCEPT ![p].keep = FALSE]
  /\ UNCHANGED <<registry, capture, pass, pending, late, history>>

\* They were changed: the capture is started or follows, or, if it has left the
\* table (a KeyError), is skipped.
StartLoop(p) ==
  /\ At(p, "outputs") \/ At(p, "start_loop")
  /\ \/ /\ Wanted /\ ~local[p].keep
        /\ Goes(p, Start \o <<"bp", "followed">> \o Rest(p))
     \/ /\ Wanted /\ local[p].keep /\ instance
        /\ \E live \in {<<>>, <<"relive", "release">>} :
             Goes(p, live \o <<"bp", "followed">> \o Rest(p))
     \/ /\ ~(Wanted /\ (local[p].keep => instance))
        /\ Goes(p, <<"passed">> \o Rest(p))
  /\ local' = [local EXCEPT ![p].keep = FALSE]
  /\ UNCHANGED <<registry, entry, capture, pass, pending, late, history, events>>

\* The end of a pass: of one that started the capture, with VIDEO_STARTED to a
\* client that was told VIDEO_STOPPED.
EndPass(p) ==
  /\ At(p, "passed") \/ At(p, "followed")
  /\ entry' = IF At(p, "followed") /\ entry # NoOne THEN [entry EXCEPT !.told = FALSE]
              ELSE entry
  /\ IF pending THEN Goes(p, <<"pass">> \o Rest(p)) /\ UNCHANGED pass
                ELSE Goes(p, Rest(p)) /\ pass' = NoOne
  /\ UNCHANGED <<registry, capture, pending, local, late, history, events>>

\* _reconfigure_guard, or the lock itself: nothing else reconfigures meanwhile.
Guard(p) ==
  /\ At(p, "guard") /\ pass = NoOne
  /\ pass' = p /\ Goes(p, Rest(p))
  /\ UNCHANGED <<registry, entry, capture, pending, local, late, history, events>>

Unguard(p) ==
  /\ At(p, "unguard")
  /\ pass' = NoOne
  /\ Goes(p, IF pending /\ Rest(p) = <<>> THEN <<"reconfigure">> ELSE Rest(p))
  /\ UNCHANGED <<registry, entry, capture, pending, local, late, history, events>>
-----------------------------------------------------------------------------
Consumers == clients \ (paused \ Awake)
ReconnectPending == entry # NoOne /\ entry.ws \notin clients

\* _stop_primary_if_unconsumed, for the remaining consumers cs.
Unconsumed(cs) == instance /\ cs = {} /\ ~ReconnectPending
Inactive_StillWanted == entry

Inactive == IF entry = NoOne THEN NoOne ELSE [entry EXCEPT !.active = FALSE]

\* A pending rejoin of socket s is cancelled, and forgotten.  Where it awaits the
\* end of the backpressure task it takes its own cancellation for that task's and
\* goes on; a native call goes on without it.
CancelRejoin(s, ops) ==
  LET r == Rejoin(s)
      cancelled == s \in Viewers /\ Pending(s)
      swallowed == cancelled /\ (At(r, "stop_bp") \/ At(r, "bp_again"))
      ends == cancelled /\ ~swallowed
      native_calls == {call \in {<<r, "start">>, <<r, "stop">>} :
                         ends /\ At(r, IF call[2] = "start" THEN "start_native" ELSE "stop_native")}
      unstarted == ends /\ (native_calls # {} \/ (At(r, "start") /\ Holds(r) /\ ~instance))
      unmonitored == ends /\ (At(r, "stop_pop") \/ At(r, "bp"))
                          /\ entry # NoOne /\ ~entry.task
  IN /\ todo' = [p \in Coroutines |->
                   IF p = Handler(s) THEN ops
                   ELSE IF ends /\ p = r THEN <<>> ELSE todo[p]]
     /\ lock' = Queued(IF ends THEN Unqueued(lock, r) ELSE lock, Handler(s), ops)
     /\ local' = IF swallowed THEN [local EXCEPT ![r].adrift = TRUE] ELSE local
     /\ late' = late \cup native_calls
     /\ history' = [history EXCEPT !.cancelled = @ \/ native_calls # {},
                                    !.failed = @ \/ unstarted,
                                    !.unthrottled = @ \/ unmonitored,
                                    !.unreset = @ \cap clients']

Ready(s) == life[s] = "open" /\ todo[Handler(s)] = <<>>
Message(s) == Ready(s) /\ events < MaxEvents /\ events' = events + 1
Owning(s) == entry # NoOne /\ entry.ws = s

Join(s) ==
  /\ life[s] = "new"
  /\ life' = [life EXCEPT ![s] = "open"]
  /\ clients' = clients \cup {s}
  /\ UNCHANGED <<paused, settled, entry, capture, control, pass, pending, local,
                 late, history, events>>

\* SETTINGS: the display is handed over before the old socket is closed, which
\* is awaited.
Settings(o) ==
  /\ Message(o)
  /\ Goes(Handler(o), <<"register">>)
  /\ IF entry # NoOne /\ entry.ws # o
     THEN /\ entry' = [entry EXCEPT !.ws = o]
          /\ life' = [life EXCEPT ![entry.ws] = IF @ = "open" THEN "closed" ELSE @]
     ELSE UNCHANGED <<entry, life>>
  /\ UNCHANGED <<clients, paused, settled, capture, pass, pending, local, late, history>>

\* The settings are applied under the reconfigure lock: the first ones, a change
\* of dimensions (a new entry has none) in a pass that follows, others live or
\* by a restart in place.
Register(p) ==
  /\ At(p, "register")
  /\ LET o == p[1] IN
     /\ entry' = IF entry = NoOne
                 THEN [ws |-> o, active |-> TRUE, task |-> FALSE, told |-> FALSE]
                 ELSE [entry EXCEPT !.ws = o, !.active = @ \/ o \notin settled]
     /\ settled' = settled \cup {o}
     /\ history' = IF entry = NoOne THEN history ELSE Told(o)
     /\ \/ Goes(p, <<"guard", "unguard", "reconfigure">>)
        \/ /\ entry # NoOne /\ o \in settled
           /\ \E how \in {<<>>, <<"restart">>} : Goes(p, <<"guard">> \o how \o <<"unguard">>)
  /\ UNCHANGED <<clients, paused, life, capture, pass, pending, local, late, events>>

\* A change that is not live restarts the capture of an active display.
RestartInPlace(p) ==
  /\ At(p, "restart")
  /\ Goes(p, (IF Wanted THEN Stop \o Start \o <<"bp">> ELSE <<>>) \o Rest(p))
  /\ UNCHANGED <<registry, entry, capture, pass, pending, local, late, history, events>>

\* START_VIDEO.  The owner's flag is written and its start attempted without an
\* await between (the comment at selkies.py:3717).
StartVideo(s) ==
  /\ Message(s)
  /\ paused' = paused \ {s}
  /\ \/ /\ Owning(s)
        /\ entry' = [entry EXCEPT !.active = TRUE]
        /\ Goes(Handler(s), Start \o <<"after_start">>)
        /\ UNCHANGED history
     \/ /\ s \in Viewers
        /\ Goes(Handler(s), IF instance THEN <<>> ELSE Start \o <<"after_start">>)
        /\ history' = Told(s)
        /\ UNCHANGED entry
  /\ UNCHANGED <<clients, life, settled, capture, pass, pending, local, late>>

\* A rapid resume of a viewer is deferred.
Throttle(v) ==
  /\ Message(v) /\ v \in paused /\ todo[Rejoin(v)] = <<>>
  /\ Goes(Rejoin(v), <<"rejoin">>)
  /\ local' = [local EXCEPT ![Rejoin(v)] = Fresh]
  /\ UNCHANGED <<registry, entry, capture, pass, pending, late, history>>

RejoinFires(p) ==
  /\ At(p, "rejoin")
  /\ LET v == p[1] IN
     IF v \in clients /\ v \in paused
     THEN paused' = paused \ {v} /\ Goes(p, <<"rejoin_told">>)
     ELSE Goes(p, <<>>) /\ UNCHANGED paused
  /\ UNCHANGED <<clients, life, settled, entry, capture, pass, pending, local, late,
                 history, events>>

RejoinTold(p) ==
  /\ At(p, "rejoin_told")
  /\ Goes(p, IF instance THEN <<>> ELSE Start \o <<"after_rejoin">>)
  /\ history' = Told(p[1])
  /\ UNCHANGED <<registry, entry, capture, pass, pending, local, late, events>>

\* STOP_VIDEO
StopVideo(s) ==
  /\ Message(s)
  /\ UNCHANGED <<clients, life, settled, capture, pass, pending>>
  /\ \/ /\ Owning(s)
        /\ IF Consumers \ {s} # {}
           THEN paused' = paused \cup {s} /\ CancelRejoin(s, <<>>) /\ UNCHANGED entry
           ELSE entry' = Inactive /\ CancelRejoin(s, Stop) /\ UNCHANGED paused
     \/ /\ s \in Viewers
        /\ paused' = paused \cup {s}
        /\ IF Unconsumed(Consumers \ {s})
           THEN entry' = Inactive /\ CancelRejoin(s, Stop)
           ELSE CancelRejoin(s, <<>>) /\ UNCHANGED entry

\* A resize: a pass, or, of the lone display of a Wayland session, a start on the
\* live capture or a rebuild.
Resize(o) ==
  /\ Message(o) /\ Owning(o)
  /\ \E how \in {<<"reconfigure">>, IF instance /\ native = "on"
                                   THEN <<"relive", "release">>
                                   ELSE Stop \o Start \o <<"resized">>} :
       Goes(Handler(o), how)
  /\ UNCHANGED <<registry, entry, capture, pass, pending, local, late, history>>

\* The rebuild has started no backpressure task.
Resized(p) ==
  /\ At(p, "resized")
  /\ history' = [history EXCEPT !.unthrottled = @ \/ (entry # NoOne /\ ~entry.task)]
  /\ Goes(p, Rest(p))
  /\ UNCHANGED <<registry, entry, capture, pass, pending, local, late, events>>

\* The end of a handler, up to its awaits.
Leave(s) ==
  /\ life[s] \in {"open", "closed"} /\ todo[Handler(s)] = <<>>
  /\ events < MaxEvents /\ events' = events + 1
  /\ life' = [life EXCEPT ![s] = "gone"]
  /\ clients' = clients \ {s} /\ paused' = paused \ {s} /\ settled' = settled \ {s}
  /\ CancelRejoin(s, <<"departed">>)
  /\ UNCHANGED <<entry, capture, pass, pending>>

StopIfUnconsumed(p, rest) ==
  IF Unconsumed(Consumers)
  THEN entry' = Inactive /\ Goes(p, Stop \o rest)
  ELSE Goes(p, rest) /\ UNCHANGED entry

\* The teardown of a display is deferred; a socket without one may have been
\* the last consumer, or the last client.
Departed(p) ==
  /\ At(p, "departed")
  /\ IF Owning(p[1])
     THEN /\ todo' = [todo EXCEPT ![p] = <<>>, ![Grace(p[1])] = <<"teardown">>]
          /\ UNCHANGED <<lock, entry>>
     ELSE StopIfUnconsumed(p, <<"last">>)
  /\ UNCHANGED <<registry, capture, pass, pending, local, late, history, events>>

\* _teardown_if_unclaimed, when the grace period is over.
Teardown(p) ==
  /\ At(p, "teardown")
  /\ IF Owning(p[1])
     THEN /\ entry' = NoOne
          /\ local' = [q \in Coroutines |-> [local[q] EXCEPT !.same = FALSE]]
          /\ Goes(p, <<"reconfigure", "unconsumed", "last">>)
     ELSE Goes(p, <<>>) /\ UNCHANGED <<entry, local>>
  /\ UNCHANGED <<registry, capture, pass, pending, late, history, events>>

AfterTeardown(p) ==
  /\ At(p, "unconsumed")
  /\ StopIfUnconsumed(p, Rest(p))
  /\ UNCHANGED <<registry, capture, pass, pending, local, late, history, events>>

LastClient(p) ==
  /\ At(p, "last")
  /\ Goes(p, IF clients = {} THEN Shutdown_Pipelines ELSE <<>>)
  /\ UNCHANGED <<registry, entry, capture, pass, pending, local, late, history, events>>
-----------------------------------------------------------------------------
LockStep(p) ==
  \/ StopBegins(p) \/ MonitorStopped(p) \/ StopPops(p) \/ NativeStopped(p)
  \/ StartBegins(p) \/ Rebuilds(p) \/ NativeStarted(p) \/ Relive(p)
MonitorStep(p) == StartMonitor(p) \/ RestartMonitor(p) \/ StopMonitors(p)
PassStep(p) ==
  \/ Reconfigure_Displays(p) \/ BeginPass(p) \/ Judge(p) \/ Outputs(p) \/ StartLoop(p)
  \/ EndPass(p) \/ Guard(p) \/ Unguard(p)
ClientStep(p) ==
  \/ Register(p) \/ RestartInPlace(p) \/ Resized(p) \/ RejoinFires(p) \/ RejoinTold(p)
  \/ Departed(p) \/ Teardown(p) \/ AfterTeardown(p) \/ LastClient(p)

Arrival(s) == Join(s) \/ StartVideo(s) \/ StopVideo(s) \/ Leave(s)

CaptureNext ==
  \/ \E p \in Coroutines : LockStep(p) \/ MonitorStep(p) \/ PassStep(p) \/ ClientStep(p)
  \/ \E s \in Pages : Arrival(s)
  \/ \E o \in Owners : Settings(o) \/ Resize(o)
  \/ \E v \in Viewers : Throttle(v)
  \/ LateStart \/ LateStop \/ CaptureDies

CaptureSpec == CaptureInit /\ [][CaptureNext]_captureVars
-----------------------------------------------------------------------------
AtRest == late = {} /\ \A p \in Coroutines : todo[p] = <<>>

\* When every coroutine has ended, a display whose owner wants its video has a
\* capture, whatever stops, starts, passes, takeovers and departures overlapped
\* - unless its start failed or its owner was told VIDEO_STOPPED.
WantedRuns ==
  (AtRest /\ Wanted /\ ~entry.told /\ ~history.failed) => instance

\* And the client of a running capture is throttled: the backpressure task of
\* its display runs - except after a resize that rebuilt the capture, the shutdown
\* of a last client that a new one overtook, or a rejoin cancelled in between.
Throttled ==
  (AtRest /\ instance /\ Wanted /\ ~entry.told /\ ~history.failed /\ ~history.unthrottled)
  => entry.task

\* While nobody holds the capture lock the tables and the native capture agree:
\* no registered capture was stopped under its entry, none runs that nobody
\* could stop, and relays exist for the registered one only - except for a
\* start on a module that had left the table, and for what the native call of a
\* cancelled rejoin leaves when it ends late.
Registered ==
  lock = <<>> =>
    /\ instance => group /\ (native # "off" \/ history.overtaken)
    /\ native # "off" => instance \/ history.orphaned
                         \/ \E r \in Coroutines : <<r, "stop">> \in late
    /\ group => instance \/ history.cancelled

\* "Guarantees exactly one PIPELINE_RESETTING per real capture stop ...
\* including when no backpressure task ran (viewer-only captures ...)"
\* (selkies.py:4596): when every coroutine has ended, no viewer is left with a
\* stream that was stopped and not told so.
ResetPerStop == AtRest => history.unreset \cap Viewers = {}
=============================================================================
