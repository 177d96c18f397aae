---------------------------- MODULE Reconfigure ----------------------------
(***************************************************************************)
(* _reconfigure_lock and _reconfigure_pending of the WebSocket server: the *)
(* passes of reconfigure_displays(), the direct critical sections that     *)
(* take the same lock (_reconfigure_guard around the audio pipeline,       *)
(* _apply_client_settings), and the coalescing of requests that arrive     *)
(* while the lock is held.  A step is what one asyncio task does between   *)
(* two awaits.                                                             *)
(*                                                                         *)
(* The lock is asyncio.Lock: first come first served, taken without an     *)
(* await when it is free and nobody queues; between a release and the next *)
(* waiter's turn it is not locked() although somebody queues.              *)
(***************************************************************************)
EXTENDS Naturals, Sequences

CONSTANTS Tasks,       \* the asyncio tasks that use the lock
          Cancellable  \* those that run a START_AUDIO request: a newer request
                       \* or the end of the connection cancels them

ASSUME CancellableAssumption == Cancellable \subseteq Tasks

VARIABLES pc,       \* per task: see Places
          waiters,  \* the lock's queue
          pending,  \* _reconfigure_pending
          want,     \* history: a change asked for a layout that no pass which
                    \* started later has (or is) taking into account
          lost      \* history: a re-run was cancelled, and no pass started since

vars == <<pc, waiters, pending, want, lost>>

\* A pass is _reconfigure_displays_locked(), a section any other holder's body.
Places == {"idle", "waitPass", "pass", "waitSection", "section"}

Init ==
  /\ pc = [t \in Tasks |-> "idle"]
  /\ waiters = <<>>
  /\ pending = FALSE /\ want = FALSE /\ lost = FALSE

Locked == \E t \in Tasks : pc[t] \in {"pass", "section"}
-----------------------------------------------------------------------------
\* The top of the loop of reconfigure_displays, once the lock is taken.
BeginPass(t) ==
  /\ pc' = [pc EXCEPT ![t] = "pass"]
  /\ pending' = FALSE
  /\ want' = FALSE /\ lost' = FALSE

\* `async with self._reconfigure_lock` of that loop, with the lock not locked
\* and queue q; wanted: what there is to lay out.
AcquireForPass(t, q, wanted) ==
  \/ q = <<>> /\ BeginPass(t) /\ waiters' = q
  \/ /\ q # <<>>
     /\ pc' = [pc EXCEPT ![t] = "waitPass"]
     /\ waiters' = Append(q, t)
     /\ want' = wanted
     /\ UNCHANGED <<pending, lost>>

\* Mutant: the pass is not serialized.
Request_Unserialized(t) ==
  /\ t \notin Cancellable
  /\ pc[t] = "idle"
  /\ BeginPass(t)
  /\ UNCHANGED waiters

\* reconfigure_displays() called by a task that does not hold the lock, after
\* it changed the set of displays, a size, a position or a visibility.
Request(t) ==
  /\ t \notin Cancellable
  /\ pc[t] = "idle"
  /\ \/ /\ Locked
        /\ pending' = TRUE
        /\ want' = TRUE
        /\ UNCHANGED <<pc, waiters, lost>>
     \/ ~Locked /\ AcquireForPass(t, waiters, TRUE)

\* Mutant: one pass per call, _reconfigure_pending is not looked at.
PassEnds_NoLoop(t) ==
  /\ pc[t] = "pass"
  /\ pc' = [pc EXCEPT ![t] = "idle"]
  /\ UNCHANGED <<waiters, pending, want, lost>>

\* The pass completes, aborts early or raises an Exception (which is logged):
\* the lock is released, and a coalesced request starts the next round.
PassEnds(t) ==
  /\ pc[t] = "pass"
  /\ \/ pending /\ AcquireForPass(t, waiters, want)
     \/ /\ ~pending
        /\ pc' = [pc EXCEPT ![t] = "idle"]
        /\ UNCHANGED <<waiters, pending, want, lost>>
-----------------------------------------------------------------------------
EnterSection(t) ==
  /\ pc[t] = "idle"
  /\ \/ /\ ~Locked /\ waiters = <<>>
        /\ pc' = [pc EXCEPT ![t] = "section"]
        /\ UNCHANGED waiters
     \/ /\ Locked \/ waiters # <<>>
        /\ pc' = [pc EXCEPT ![t] = "waitSection"]
        /\ waiters' = Append(waiters, t)
  /\ UNCHANGED <<pending, want, lost>>

\* Mutant: a plain `async with self._reconfigure_lock`.
SectionEnds_NoGuard(t) ==
  /\ pc[t] = "section"
  /\ pc' = [pc EXCEPT ![t] = "idle"]
  /\ UNCHANGED <<waiters, pending, want, lost>>

\* A guarded section ends, returning, raising or cancelled: what was coalesced
\* meanwhile is run by this task, outside the lock.
SectionEnds(t) ==
  /\ pc[t] = "section"
  /\ \/ pending /\ AcquireForPass(t, waiters, want)
     \/ /\ ~pending
        /\ pc' = [pc EXCEPT ![t] = "idle"]
        /\ UNCHANGED <<waiters, pending, want, lost>>

\* _apply_client_settings changed a dimension: it asks for a pass itself.
SettingsEnd(t) ==
  /\ t \notin Cancellable
  /\ pc[t] = "section"
  /\ AcquireForPass(t, waiters, TRUE)

\* The lock is free and its first waiter runs.
Granted ==
  /\ ~Locked
  /\ waiters # <<>>
  /\ waiters' = Tail(waiters)
  /\ LET t == Head(waiters)
     IN  \/ pc[t] = "waitPass" /\ BeginPass(t)
         \/ /\ pc[t] = "waitSection"
            /\ pc' = [pc EXCEPT ![t] = "section"]
            /\ UNCHANGED <<pending, want, lost>>
-----------------------------------------------------------------------------
Without(q, k) == SubSeq(q, 1, k - 1) \o SubSeq(q, k + 1, Len(q))

\* Cancelled in the queue for a section: the finally of the guard still calls
\* reconfigure_displays() when a request is pending.
CancelWait(t) ==
  /\ t \in Cancellable
  /\ pc[t] = "waitSection"
  /\ \E k \in DOMAIN waiters :
       /\ waiters[k] = t
       /\ \/ pending /\ ~Locked /\ AcquireForPass(t, Without(waiters, k), want)
          \/ /\ ~pending \/ Locked
             /\ pc' = [pc EXCEPT ![t] = "idle"]
             /\ waiters' = Without(waiters, k)
             /\ UNCHANGED <<pending, want, lost>>

\* Cancelled while it runs, or queues for, what it found pending: CancelledError
\* is no Exception, so it leaves the loop and nothing is looked at again.
CancelRerun(t) ==
  /\ t \in Cancellable
  /\ \/ pc[t] = "pass" /\ want' = TRUE /\ UNCHANGED waiters
     \/ /\ pc[t] = "waitPass" /\ UNCHANGED want
        /\ \E k \in DOMAIN waiters :
             waiters[k] = t /\ waiters' = Without(waiters, k)
  /\ pc' = [pc EXCEPT ![t] = "idle"]
  /\ lost' = TRUE
  /\ UNCHANGED pending

Next ==
  \/ Granted
  \/ \E t \in Tasks :
       \/ Request(t) \/ PassEnds(t)
       \/ EnterSection(t) \/ SectionEnds(t) \/ SettingsEnd(t)
       \/ CancelWait(t) \/ CancelRerun(t)

Spec == Init /\ [][Next]_vars

\* A ready waiter runs; passes and sections end (their awaits are bounded by
\* timeouts, subprocesses and native calls).
Fairness ==
  /\ WF_vars(Granted)
  /\ \A t \in Tasks : WF_vars(PassEnds(t)) /\ WF_vars(SectionEnds(t))

FairSpec == Spec /\ Fairness
-----------------------------------------------------------------------------
(* Properties                                                               *)

\* Types, and one holder at a time.
TypeOK ==
  /\ pc \in [Tasks -> Places]
  /\ waiters \in Seq(Tasks)
  /\ pending \in BOOLEAN /\ want \in BOOLEAN /\ lost \in BOOLEAN
  /\ \A t, u \in Tasks :
       pc[t] \in {"pass", "section"} /\ pc[u] \in {"pass", "section"} => t = u

\* Somebody will run a pass: a task queues for one, or the request is pending
\* and a task is yet to look at it.
Covered == \/ \E t \in Tasks : pc[t] = "waitPass"
           \/ pending /\ \E t \in Tasks : pc[t] # "idle"

\* The coalescing contract of reconfigure_displays and _reconfigure_guard: no
\* request is forgotten by the hand-over of the lock between passes, sections
\* and waiters, except by a cancelled re-run.
NothingStranded == want /\ ~lost => Covered

\* "honor any reconfigure that was coalesced (via _reconfigure_pending) while
\* we held it": the same without the exception.
AlwaysHonored == want => Covered

\* "state converges on the latest request": every request is followed by the
\* start of a pass.
Converges == want ~> (~want \/ lost)
=============================================================================
