---------------------------- MODULE ModeSwitch -----------------------------
(***************************************************************************)
(* The supervisor of stream_server.py: switch_to_mode under its lock,      *)
(* _stop_service, the done callback of a service's task, and stop_server,  *)
(* which stops the service without the lock.  A service (selkies.py,       *)
(* webrtc_mode.py) clears its shutdown event when its task first runs,     *)
(* waits for the event and then cleans up; it may die at any time.         *)
(***************************************************************************)
EXTENDS Naturals, Sequences, FiniteSets

CONSTANTS Switchers,  \* the requests to /api/switch in progress at a time
          Modes,      \* the registered services
          NoMode,
          Shutdown,   \* the task that runs stop_server
          MaxStarts   \* bound on the services started in a behaviour

ASSUME ModesAssumption ==
  /\ NoMode \notin Modes /\ Shutdown \notin Switchers /\ MaxStarts \in Nat

VARIABLES current_mode,
          active_task,  \* index of the active service's task, 0 for None
          services,     \* the tasks of the services started so far
          stopEvent,    \* per mode: the service's shutdown_event
          lockQueue,    \* the supervisor's lock: its holder, then the waiters
          place,        \* per switcher and for Shutdown: "idle", "queued"
                        \* for the lock, "stopping" a service, "stopped" it
          target,       \* per switcher: the mode it asks for
          awaited       \* per switcher and for Shutdown: the task it waits for

modeVars == <<current_mode, active_task, services, stopEvent, lockQueue, place,
              target, awaited>>

Stoppers == Switchers \cup {Shutdown}

ModesInit ==
  /\ current_mode = NoMode /\ active_task = 0
  /\ services = <<>>
  /\ stopEvent = [m \in Modes |-> FALSE]
  /\ lockQueue = <<>>
  /\ place = [p \in Stoppers |-> "idle"]
  /\ target = [p \in Switchers |-> NoMode]
  /\ awaited = [p \in Stoppers |-> 0]

Done(t) == services[t].state = "done"
Died(t) == Done(t) /\ services[t].outcome = "failed"
-----------------------------------------------------------------------------
\* The service's task.  outcome says how it ended; reaped, that its done
\* callback has run.
Created(m) == [mode |-> m, state |-> "created", outcome |-> "ok", reaped |-> FALSE]

ServiceBegins(t) ==
  /\ services[t].state = "created"
  /\ services' = [services EXCEPT ![t].state = "running"]
  /\ stopEvent' = [stopEvent EXCEPT ![services[t].mode] = FALSE]
  /\ UNCHANGED <<current_mode, active_task, lockQueue, place, target, awaited>>

ServiceStops(t) ==
  /\ services[t].state = "running"
  /\ stopEvent[services[t].mode]
  /\ services' = [services EXCEPT ![t].state = "cleanup"]
  /\ UNCHANGED <<current_mode, active_task, stopEvent, lockQueue, place, target, awaited>>

ServiceEnds(t) ==
  /\ \/ services[t].state = "cleanup" /\ services' = [services EXCEPT ![t].state = "done"]
     \/ /\ services[t].state \in {"running", "cleanup"}
        /\ services' = [services EXCEPT ![t].state = "done", ![t].outcome = "failed"]
  /\ UNCHANGED <<current_mode, active_task, stopEvent, lockQueue, place, target, awaited>>

Reap_KeepsMode(t) ==
  /\ Done(t) /\ ~services[t].reaped
  /\ services' = [services EXCEPT ![t].reaped = TRUE]
  /\ UNCHANGED <<current_mode, active_task, stopEvent, lockQueue, place, target, awaited>>

\* _on_service_done: scheduled before anybody who awaits the task.
Reap(t) ==
  /\ Done(t) /\ ~services[t].reaped
  /\ services' = [services EXCEPT ![t].reaped = TRUE]
  /\ IF Died(t) /\ active_task = t
     THEN current_mode' = NoMode /\ active_task' = 0
     ELSE UNCHANGED <<current_mode, active_task>>
  /\ UNCHANGED <<stopEvent, lockQueue, place, target, awaited>>
-----------------------------------------------------------------------------
\* A request to switch asks for the lock.
Ask(p, m) ==
  /\ place[p] = "idle" /\ Len(services) < MaxStarts
  /\ place' = [place EXCEPT ![p] = "queued"]
  /\ target' = [target EXCEPT ![p] = m]
  /\ lockQueue' = Append(lockQueue, p)
  /\ UNCHANGED <<current_mode, active_task, services, stopEvent, awaited>>

\* The request is answered and the lock goes to the next waiter.
Answered(p) ==
  /\ place' = [place EXCEPT ![p] = "idle"]
  /\ lockQueue' = Tail(lockQueue)
  /\ target' = [target EXCEPT ![p] = NoMode]
  /\ awaited' = [awaited EXCEPT ![p] = 0]

StartService(m) ==
  /\ services' = Append(services, Created(m))
  /\ active_task' = Len(services) + 1
  /\ current_mode' = m

\* The top of _stop_service, when there is a service to stop.
BeginStop(p) ==
  /\ stopEvent' = [stopEvent EXCEPT ![current_mode] = TRUE]
  /\ place' = [place EXCEPT ![p] = "stopping"]
  /\ awaited' = [awaited EXCEPT ![p] = active_task]
  /\ UNCHANGED <<current_mode, active_task, services, lockQueue, target>>

Switch_NoLock(p) ==
  /\ place[p] = "queued"
  /\ \/ current_mode = target[p] /\ Answered(p)
        /\ UNCHANGED <<current_mode, active_task, services, stopEvent>>
     \/ /\ current_mode = NoMode
        /\ StartService(target[p]) /\ Answered(p)
        /\ UNCHANGED stopEvent
     \/ current_mode \notin {target[p], NoMode} /\ BeginStop(p)

\* The request has the lock.
Switch(p) ==
  /\ place[p] = "queued" /\ Head(lockQueue) = p
  /\ \/ \* already active
        current_mode = target[p] /\ Answered(p)
        /\ UNCHANGED <<current_mode, active_task, services, stopEvent>>
     \/ /\ current_mode = NoMode
        /\ StartService(target[p]) /\ Answered(p)
        /\ UNCHANGED stopEvent
     \/ \* the service died and its callback is still to run: its error
        \* leaves the switch at once
        /\ current_mode \notin {target[p], NoMode} /\ Died(active_task)
        /\ stopEvent' = [stopEvent EXCEPT ![current_mode] = TRUE]
        /\ Answered(p)
        /\ UNCHANGED <<current_mode, active_task, services>>
     \/ /\ current_mode \notin {target[p], NoMode} /\ ~Died(active_task)
        /\ BeginStop(p)

Stopped_NoWait(p) ==
  /\ place[p] = "stopping"
  /\ \/ /\ p # Shutdown
        /\ StartService(target[p]) /\ Answered(p)
     \/ /\ p = Shutdown
        /\ place' = [place EXCEPT ![p] = "stopped"]
        /\ awaited' = [awaited EXCEPT ![p] = 0]
        /\ current_mode' = NoMode /\ active_task' = 0
        /\ UNCHANGED <<services, lockQueue, target>>
  /\ UNCHANGED stopEvent

\* The awaited task has ended, and its done callback, which was registered
\* first, has run.  An error of the service leaves _stop_service and the switch.
Stopped(p) ==
  /\ place[p] = "stopping" /\ Done(awaited[p]) /\ services[awaited[p]].reaped
  /\ \/ /\ Died(awaited[p]) /\ p # Shutdown
        /\ Answered(p)
        /\ UNCHANGED <<current_mode, active_task, services>>
     \/ /\ ~Died(awaited[p]) /\ p # Shutdown
        /\ StartService(target[p]) /\ Answered(p)
     \/ /\ p = Shutdown
        /\ place' = [place EXCEPT ![p] = "stopped"]
        /\ awaited' = [awaited EXCEPT ![p] = 0]
        /\ IF Died(awaited[p]) THEN UNCHANGED <<current_mode, active_task>>
                               ELSE current_mode' = NoMode /\ active_task' = 0
        /\ UNCHANGED <<services, lockQueue, target>>
  /\ UNCHANGED stopEvent

StopTimesOut_Never(p) == FALSE

\* wait_for gives up after 15 seconds: the task is cancelled, and awaited again
\* until it has ended.
StopTimesOut(p) ==
  /\ place[p] = "stopping" /\ ~Done(awaited[p])
  /\ services' = [services EXCEPT ![awaited[p]].state = "done",
                                  ![awaited[p]].outcome = "cancelled"]
  /\ UNCHANGED <<current_mode, active_task, stopEvent, lockQueue, place, target, awaited>>

\* stop_server: the service is stopped without the lock.
StopServer ==
  /\ place[Shutdown] = "idle"
  /\ IF current_mode = NoMode
     THEN /\ place' = [place EXCEPT ![Shutdown] = "stopped"]
          /\ UNCHANGED <<current_mode, active_task, services, stopEvent, lockQueue,
                         target, awaited>>
     ELSE BeginStop(Shutdown)

Supervise(p) == Switch(p) \/ (\E m \in Modes : Ask(p, m))
ServiceStep(t) == ServiceBegins(t) \/ ServiceStops(t) \/ ServiceEnds(t) \/ Reap(t)

ModesNext ==
  \/ \E p \in Switchers : Supervise(p)
  \/ \E p \in Stoppers : Stopped(p) \/ StopTimesOut(p)
  \/ \E t \in 1..Len(services) : ServiceStep(t)
  \/ StopServer

\* Handlers that can go on do, a task that was created runs, callbacks are
\* called and 15 seconds pass.  A service need not stop by itself.
ModesFairness ==
  /\ \A p \in Switchers : WF_modeVars(Switch(p))
  /\ \A p \in Stoppers : WF_modeVars(Stopped(p)) /\ WF_modeVars(StopTimesOut(p))
  /\ WF_modeVars(\E t \in DOMAIN services : ServiceBegins(t))
  /\ WF_modeVars(\E t \in DOMAIN services : Reap(t))

ModesSpec == ModesInit /\ [][ModesNext]_modeVars /\ ModesFairness
-----------------------------------------------------------------------------
\* As long as the server is not shutting down at most one service is alive, so
\* that two transports never hold the capture together, although a switch
\* waits for the old service, or for its death, across awaits in which other
\* requests arrive (switch_to_mode, stream_server.py:803).
OneService ==
  place[Shutdown] = "idle" =>
    Cardinality({t \in 1..Len(services) : ~Done(t)}) <= 1

\* A live service is the one that is reported: the mode and the task are those
\* of the service that is alive, whoever stopped or failed before.
Tracked ==
  place[Shutdown] = "idle" =>
    \A t \in 1..Len(services) : ~Done(t) =>
      active_task = t /\ current_mode = services[t].mode

\* A service that died is reported no longer than until its done callback has
\* run, whoever was stopping or replacing it (_on_service_done).
DeadNotReported ==
  (active_task # 0 /\ Died(active_task)) => ~services[active_task].reaped

\* Every request is answered, even when its stop came before the service's
\* task first ran, which then clears the event: the lock is never kept.
SwitchAnswered == \A p \in Switchers : (place[p] # "idle") ~> (place[p] = "idle")
=============================================================================
