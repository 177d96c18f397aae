--------------------------- MODULE CaptureLemmas ----------------------------
(***************************************************************************)
(* What the proofs about Capture rest on, for any sockets and any number   *)
(* of messages.                                                            *)
(*                                                                         *)
(* The lists of operations that the coroutines have still to do are of a   *)
(* few shapes (Plan): what an operation may follow, what is left of a list *)
(* when its head is done or replaced, and what a list still promises - to  *)
(* start the capture, to stop it, to monitor it.                           *)
(*                                                                         *)
(* The invariant, CaptureInv, says what holds between any two steps.       *)
(*   Shapes, LockInv, PassInv, Graces, Locals: the lists are sound, the    *)
(*     lock's queue is who is at or in a section of it, the pass's holder  *)
(*     is who is in the body of one, a teardown begins when the handler    *)
(*     has ended, a pass keeps no capture that it is to stop.              *)
(*   Tables: Registered is true of any state in which no native stop or    *)
(*     start is in progress, and then the instance has left the table, or  *)
(*     has not entered it.                                                 *)
(*   WantedInv: if the capture is not there, or is about to be stopped,    *)
(*     and its display wants it, somebody has promised a start: a pending  *)
(*     pass, a coroutine with a section to come that starts it (LaterFix), *)
(*     or one in the queue, now, behind which nobody only stops (Served).  *)
(*   MonitorInv: likewise, of the backpressure task of a running capture.  *)
(*                                                                         *)
(* LeavesInv, WithinInv and OutsideInv reduce the step of a coroutine to   *)
(* what it makes of its list, inside a section of the lock and outside.    *)
(***************************************************************************)
EXTENDS Capture, SequenceTheorems, TLAPS

\* Operations within a section of the capture lock, beyond the one it begins with.
Inner == {"stop_bp", "stop_pop", "stop_native", "start_native"}
Sections == Locking \cup Inner
StopOps == {"stop_bp", "stop_pop", "stop_native"}

\* Operations of a pass; those that end a list; those that come behind others.
PassOps == {"pass", "judge", "outputs", "start_loop", "passed", "followed"}
TailOps == {"guard", "bp_off", "unguard", "unconsumed", "last"}
Later == {"release", "start", "bp", "resized", "outputs", "start_loop", "passed",
          "followed", "restart", "reconfigure"} \cup Sequels \cup TailOps

\* Those that only ever come first.
Firsts == {"pass", "register", "departed", "teardown", "rejoin", "rejoin_told", "bp_again"}
Ops == Sections \cup Later \cup Firsts

\* Operations of a rejoin.
RejoinOps == {"rejoin", "rejoin_told", "start", "release", "after_rejoin", "bp", "bp_again"} \cup Inner

\* After place i a pass ends: the list does, or a shutdown or a check follows.
Ends(s, i) ==
  \/ Len(s) = i
  \/ Len(s) = i + 3 /\ s[i + 1] = "guard" /\ s[i + 2] = "bp_off" /\ s[i + 3] = "unguard"
  \/ Len(s) = i + 2 /\ s[i + 1] = "unconsumed" /\ s[i + 2] = "last"

\* What may follow, and precede, each operation of a list.
Sound(s) ==
  /\ \A i \in 2 .. Len(s) : s[i] \in Later
  /\ Len(s) > 0 => s[1] \notin {"release"} \cup Sequels
  /\ \A i \in 1 .. Len(s) :
       /\ s[i] \in Sections =>
            i < Len(s) /\ (s[i + 1] = "release" \/ (s[i + 1] = "start" /\ s[i] \in StopOps))
       /\ s[i] = "release" => i > 1 /\ s[i - 1] \in Sections
       /\ s[i] = "start" => \/ i = 1
                            \/ i = 2 /\ s[1] \in StopOps
                            \/ i = 3 /\ s[2] = "release"
       /\ s[i] \in {"start", "start_native"} =>
            i + 2 <= Len(s) /\ s[i + 2] \in {"bp", "resized"} \cup Sequels
       /\ s[i] \in Sequels => i = Len(s) /\ i > 2 /\ s[i - 2] \in {"start", "start_native"}
       /\ s[i] \in {"pass", "outputs", "start_loop", "passed", "followed"} => Ends(s, i)
       /\ s[i] = "judge" => Len(s) >= 3 /\ s[2] = "release" /\ s[3] = "outputs"
       /\ s[i] = "reconfigure" => i = Len(s) \/ (i = 1 /\ Ends(s, 1))
       /\ s[i] = "guard" =>
            \/ Len(s) = i + 1 /\ s[i + 1] = "unguard"
            \/ Len(s) = i + 2 /\ s[i + 1] \in {"restart", "bp_off"} /\ s[i + 2] = "unguard"
            \/ Len(s) = i + 2 /\ s[i + 1] = "unguard" /\ s[i + 2] = "reconfigure"
       /\ s[i] \in {"restart", "bp_off"} => Len(s) = i + 1 /\ s[i + 1] = "unguard"
       /\ s[i] = "unguard" => Len(s) = i \/ (Len(s) = i + 1 /\ s[i + 1] = "reconfigure")
       /\ s[i] = "unconsumed" => Len(s) = i + 1 /\ s[i + 1] = "last"
       /\ s[i] \in {"last", "resized", "departed", "teardown", "rejoin", "rejoin_told", "register"} => Len(s) = i
       /\ s[i] \in {"bp", "bp_again"} =>
            \/ Len(s) = i
            \/ Len(s) = i + 1 /\ s[i + 1] = "unguard"
            \/ i < Len(s) /\ s[i + 1] = "followed"
       /\ s[i] = "relive" => Len(s) = 2 \/ (Len(s) >= 4 /\ s[3] = "bp" /\ s[4] = "followed")

\* The list of a coroutine.
Plan(s) == s \in Seq(Ops) /\ Sound(s)

\* The list of the coroutine that has the pass, or a guarded part of one.
Body(s) == \/ Range(s) \cap PassOps # {}
           \/ "unguard" \in Range(s) /\ "guard" \notin Range(s)

\* The list of a rejoin: it stops the capture only to start it anew.
Rejoining(s) == /\ Range(s) \subseteq RejoinOps
                /\ s # <<>> /\ s[1] \in StopOps => s[2] = "start"

\* A pass that stops the capture it had kept, or has none.
Leading(s) == /\ Len(s) >= 1 /\ s[1] \in {"stop", "start_loop"} \cup StopOps
              /\ Range(s) \cap {"outputs", "start_loop"} # {}

\* The list starts a wanted capture in a section to come, in its present one; it
\* stops the capture and starts none; it is of a pass that told nobody it gave
\* up; it starts the backpressure task, or a pass that does.
LaterList(s, keep) ==
  \/ Range(s) \cap {"reconfigure", "pass", "start_loop"} # {}
  \/ "outputs" \in Range(s) /\ ~keep /\ s[1] # "judge"
  \/ Len(s) >= 3 /\ s[3] = "start"
NowList(s) == \/ Len(s) >= 1 /\ s[1] \in {"judge", "start", "start_native"}
              \/ Len(s) >= 2 /\ s[2] = "start"
BareList(s) == /\ Len(s) >= 1 /\ s[1] \in {"stop", "stop_bp", "stop_pop"}
               /\ Range(s) \cap {"start", "outputs", "start_loop"} = {}
AliveList(s) == Range(s) \cap {"judge", "outputs", "start_loop", "followed"} # {}
MonitorList(s) == Range(s) \cap {"bp", "after_start", "reconfigure", "pass", "judge",
                                 "outputs", "start_loop", "resized"} # {}
-----------------------------------------------------------------------------
(* The invariant *)

Frames == [keep : BOOLEAN, reset : BOOLEAN, same : BOOLEAN, adrift : BOOLEAN]
Outcomes == [failed : BOOLEAN, orphaned : BOOLEAN, unthrottled : BOOLEAN,
             cancelled : BOOLEAN, overtaken : BOOLEAN, unreset : SUBSET Pages]

\* Every variable has its type.
TypeInv ==
  /\ clients \in SUBSET Pages /\ paused \in SUBSET Pages /\ settled \in SUBSET Pages
  /\ life \in [Pages -> {"new", "open", "closed", "gone"}]
  /\ entry \in Entries \cup {NoOne}
  /\ instance \in BOOLEAN /\ native \in {"off", "on", "dead"} /\ group \in BOOLEAN
  /\ lock \in Seq(Coroutines) /\ pass \in Coroutines \cup {NoOne} /\ pending \in BOOLEAN
  /\ todo \in [Coroutines -> Seq(Ops)]
  /\ local \in [Coroutines -> Frames]
  /\ late \in SUBSET (Coroutines \X {"start", "stop"})
  /\ history \in Outcomes
  /\ events \in Nat

\* The lists are sound; a handler's end and SETTINGS are of a handler.
Shapes ==
  /\ \A p \in Coroutines : Plan(todo[p])
  /\ \A v \in Viewers : Rejoining(todo[Rejoin(v)])
  /\ \A p \in Coroutines : At(p, "departed") => \E s \in Pages : p = Handler(s)
  /\ \A p \in Coroutines : At(p, "register") => \E o \in Owners : p = Handler(o)

\* In the queue q are those at or in a section, each once, the one in it first.
LockOK(t, q) ==
  /\ \A i, j \in 1 .. Len(q) : q[i] = q[j] => i = j
  /\ \A p \in Coroutines :
       (\E i \in 1 .. Len(q) : q[i] = p) <=> (t[p] # <<>> /\ t[p][1] \in Sections)
  /\ \A p \in Coroutines : t[p] # <<>> /\ t[p][1] \in Inner => q # <<>> /\ q[1] = p
LockInv == LockOK(todo, lock)

\* The holder of _reconfigure_lock is who is in the body of a pass.
PassInv == \A p \in Coroutines : pass = p <=> Body(todo[p])

\* The grace period of a socket begins when its handler has ended.
Graces == \A o \in Owners :
  /\ todo[Grace(o)] # <<>> => life[o] = "gone" /\ todo[Handler(o)] = <<>>
  /\ At(Handler(o), "departed") => life[o] = "gone"

\* An entry that a coroutine remembers is there; a pass that stops keeps nothing.
Locals ==
  /\ \A p \in Coroutines : local[p].same => entry # NoOne
  /\ \A p \in Coroutines : Leading(todo[p]) => ~local[p].keep

\* Registered, at any time.
Consistent ==
  /\ instance => group /\ (native # "off" \/ history.overtaken)
  /\ native # "off" => instance \/ history.orphaned
                         \/ \E r \in Coroutines : <<r, "stop">> \in late
  /\ group => instance \/ history.cancelled

\* It is true but during a native stop or start.
Tables ==
  /\ lock = <<>> => Consistent
  /\ lock # <<>> =>
      LET p == lock[1] IN
      /\ todo[p][1] \in Locking \cup {"stop_bp", "stop_pop"} => Consistent
      /\ todo[p][1] \in {"stop_bp", "stop_pop"} /\ todo[p][2] = "start" => instance
      /\ At(p, "stop_native") => ~instance
      /\ At(p, "start_native") => ~instance /\ group /\ (native # "off" => history.orphaned
                         \/ \E r \in Coroutines : <<r, "stop">> \in late)

Rejoins == {Rejoin(v) : v \in Viewers}

\* q has a section to come that starts the capture, and nobody cancels q; q
\* starts it in the section it is at.
LaterFix(q) == q \notin Rejoins /\ LaterList(todo[q], local[q].keep)
NowFix(q) ==
  /\ NowList(todo[q])
  /\ q \in Rejoins => Holds(q) /\ (todo[q][1] = "start" => ~instance)

\* Who starts the capture now, who only stops it.
Nows == {c \in Coroutines : NowFix(c)}
Bares == {c \in Coroutines : BareList(todo[c])}

\* In the queue q one of F is behind all of B; one of B is in it.
Served(q, F, B) ==
  \E k \in 1 .. Len(q) : q[k] \in F /\ \A j \in (k + 1) .. Len(q) : q[j] \notin B
Bared(q, B) == \E k \in 1 .. Len(q) : q[k] \in B

\* Somebody is to start the capture.
Promise ==
  \/ pending /\ pass # NoOne
  \/ \E q \in Coroutines : LaterFix(q)
  \/ Served(lock, Nows, Bares)

\* The capture is not there, or will not be.
Danger == Bared(lock, Bares) \/ (~instance /\ ~history.failed)

\* The display wants its capture, and was not told that it gets none.
PassAlive == \E q \in Coroutines : AliveList(todo[q])
Wants == Wanted /\ (~entry.told \/ PassAlive)

\* A wanted capture that is not there is promised.
WantedInv == Danger /\ Wants => Promise

\* A wanted capture that nobody monitors will be.
Monitorer(q) ==
  \/ At(q, "stop_pop")
  \/ IF q \in Rejoins THEN At(q, "bp") ELSE MonitorList(todo[q])
MonitorInv ==
  (instance /\ Wants /\ ~history.failed /\ ~history.unthrottled /\ ~entry.task)
  => (pending /\ pass # NoOne) \/ \E q \in Coroutines : Monitorer(q)

\* The inductive invariant.
CaptureInv ==
  /\ TypeInv /\ Shapes /\ LockInv /\ PassInv /\ Graces /\ Locals
  /\ Tables /\ WantedInv /\ MonitorInv

-----------------------------------------------------------------------------
(* Sequences *)

\* A list under another head, and one put before it.
Under(h, s) == <<h>> \o Tail(s)
Onto(h, s) == <<h>> \o s

\* What a coroutine goes on with: a release is not awaited.
Kept(ops) == IF ops # <<>> /\ Head(ops) = "release" THEN Tail(ops) ELSE ops

\* A list has a length, a first operation if it is not empty, and then a
\* rest.
LEMMA Sizes ==
  ASSUME NEW S, NEW s \in Seq(S)
  PROVE  /\ Len(s) \in Nat /\ DOMAIN s = 1 .. Len(s) /\ (s = <<>> <=> Len(s) = 0)
         /\ s # <<>> => /\ Len(s) >= 1 /\ Head(s) = s[1] /\ Tail(s) \in Seq(S)
                        /\ Len(Tail(s)) = Len(s) - 1
                        /\ \A i \in 1 .. (Len(s) - 1) : Tail(s)[i] = s[i + 1]
         /\ \A i \in 1 .. Len(s) : s[i] \in S
         /\ Range(s) = {s[i] : i \in 1 .. Len(s)}
  BY DEF Range

\* What is left of a list is a list.
LEMMA Dropped ==
  ASSUME NEW s, Plan(s), NEW n \in Seq(Ops), NEW d \in {1, 2},
         Len(n) = Len(s) - d, \A i \in 1 .. Len(n) : n[i] = s[i + d],
         Len(n) > 0 => n[1] \notin {"release"} \cup Sequels,
         d = 2 => s[2] = "release"
  PROVE  Plan(n)
<1>1. Len(s) \in Nat /\ Len(n) \in Nat /\ s \in Seq(Ops)
  BY DEF Plan
<1>2. \A i \in 1 .. Len(n) : i + d \in 1 .. Len(s) /\ n[i] = s[i + d]
  BY <1>1
<1>3. \A i \in 2 .. Len(n) : n[i] \in Later
  BY <1>1, <1>2 DEF Plan, Sound
<1>4. \A i \in 1 .. Len(n) : Ends(s, i + d) => Ends(n, i)
  BY <1>1, <1>2 DEF Ends
<1>5. d \in Nat /\ (d = 1 \/ d = 2)
  OBVIOUS
<1>6. ASSUME NEW i \in 1 .. Len(n)
      PROVE  /\ n[i] \in Sections =>
                  i < Len(n) /\ (n[i + 1] = "release" \/ (n[i + 1] = "start" /\ n[i] \in StopOps))
             /\ n[i] = "release" => i > 1 /\ n[i - 1] \in Sections
  <2>1. n[i] = s[i + d] /\ i + d \in 1 .. Len(s)
    BY <1>2
  <2>2. CASE n[i] \in Sections
    <3>1. i + d < Len(s) /\ (s[i + d + 1] = "release" \/ (s[i + d + 1] = "start" /\ s[i + d] \in StopOps))
      <4>1. \A j \in 1 .. Len(s) : s[j] \in Sections =>
              j < Len(s) /\ (s[j + 1] = "release" \/ (s[j + 1] = "start" /\ s[j] \in StopOps))
        BY DEF Plan, Sound
      <4>2. i + d \in 1 .. Len(s) /\ s[i + d] \in Sections
        BY <2>1, <2>2
      <4> QED BY <4>1, <4>2
    <3>2. i + 1 \in 1 .. Len(n) /\ (i + 1) + d = i + d + 1
      BY <1>1, <1>5, <3>1
    <3>3. n[i + 1] = s[i + d + 1]
      BY <3>2
    <3>4. i < Len(n)
      BY <1>1, <3>2
    <3>5. s[i + d] = n[i]
      BY <2>1
    <3>6. n[i] # "release"
      BY <2>2 DEF Sections, Inner, Locking
    <3> QED BY <3>1, <3>3, <3>4, <3>5, <3>6
  <2>3. CASE n[i] = "release"
    <3>1. s[i + d - 1] \in Sections
      BY <2>1, <2>3 DEF Plan, Sound
    <3>2. i > 1
      BY <1>1, <2>3
    <3>3. n[i - 1] = s[i + d - 1]
      BY <1>1, <1>2, <1>5, <3>2
    <3> QED BY <2>3, <3>1, <3>2, <3>3 DEF Sections, Inner, Locking
  <2> QED BY <2>2, <2>3
<1>7. ASSUME NEW i \in 1 .. Len(n), n[i] = "start"
      PROVE  \/ i = 1
             \/ i = 2 /\ n[1] \in StopOps
             \/ i = 3 /\ n[2] = "release"
  <2>1. s[i + d] = "start" /\ i + d \in 1 .. Len(s)
    BY <1>2, <1>7
  <2>2. i + d = 1 \/ i + d = 2 \/ (i + d = 3 /\ s[2] = "release")
    BY <2>1 DEF Plan, Sound
  <2>3. i = 1 \/ (i = 2 /\ d = 1 /\ s[2] = "release")
    BY <1>1, <1>5, <2>2
  <2>4. i = 2 /\ d = 1 => n[1] = s[2]
    BY <1>1, <1>2
  <2> QED BY <1>1, <2>3, <2>4
<1>8. ASSUME NEW i \in 1 .. Len(n)
      PROVE  /\ n[i] \in {"start", "start_native"} =>
                  i + 2 <= Len(n) /\ n[i + 2] \in {"bp", "resized"} \cup Sequels
             /\ n[i] \in Sequels => i = Len(n) /\ i > 2 /\ n[i - 2] \in {"start", "start_native"}
  <2>1. n[i] = s[i + d] /\ i + d \in 1 .. Len(s)
    BY <1>2
  <2>2. CASE n[i] \in {"start", "start_native"}
    <3>1. i + d + 2 <= Len(s) /\ s[i + d + 2] \in {"bp", "resized"} \cup Sequels
      BY <2>1, <2>2 DEF Plan, Sound
    <3>2. i + 2 \in 1 .. Len(n) /\ (i + 2) + d = i + d + 2
      BY <1>1, <1>5, <3>1
    <3>3. n[i + 2] = s[i + d + 2]
      BY <3>2
    <3> QED BY <1>1, <2>1, <2>2, <3>1, <3>2, <3>3 DEF Sequels
  <2>3. CASE n[i] \in Sequels
    <3>1. i + d = Len(s) /\ i + d > 2 /\ s[i + d - 2] \in {"start", "start_native"}
      BY <2>1, <2>3 DEF Plan, Sound
    <3>2. i # 1
      BY <1>1, <2>3
    <3>3. i # 2
      <4>1. SUFFICES ASSUME i = 2 PROVE FALSE
        OBVIOUS
      <4>2. s[d] \in {"start", "start_native"} /\ d \in 1 .. Len(s) /\ s[d] \in Sections /\ s[d] \notin StopOps
        BY <1>1, <1>5, <3>1, <4>1 DEF Sections, Inner, Locking, StopOps
      <4>3. s[d + 1] = "release"
        BY <4>2 DEF Plan, Sound
      <4>4. n[1] = s[d + 1] /\ Len(n) > 0
        BY <1>1, <1>2, <1>5, <4>1
      <4> QED BY <4>3, <4>4
    <3>4. n[i - 2] = s[i + d - 2]
      BY <1>1, <1>2, <1>5, <3>2, <3>3
    <3> QED BY <1>1, <1>5, <2>3, <3>1, <3>2, <3>3, <3>4 DEF Sequels
  <2> QED BY <2>2, <2>3
<1>9. ASSUME NEW i \in 1 .. Len(n)
      PROVE  /\ n[i] \in {"pass", "outputs", "start_loop", "passed", "followed"} => Ends(n, i)
             /\ n[i] # "judge"
             /\ n[i] = "reconfigure" => i = Len(n) \/ (i = 1 /\ Ends(n, 1))
  <2>1. n[i] = s[i + d] /\ i + d \in 1 .. Len(s) /\ i + d >= 2
    BY <1>1, <1>2, <1>5
  <2>2. s[i + d] \in Later
    BY <2>1 DEF Plan, Sound
  <2>3. n[i] = "reconfigure" => i + d = Len(s)
    BY <2>1 DEF Plan, Sound
  <2>4. n[i] \in {"pass", "outputs", "start_loop", "passed", "followed"} => Ends(s, i + d)
    BY <2>1 DEF Plan, Sound
  <2> QED BY <1>1, <1>4, <2>1, <2>2, <2>3, <2>4 DEF Later, Sequels, TailOps
<1>10. ASSUME NEW i \in 1 .. Len(n)
       PROVE  /\ n[i] = "guard" =>
                   \/ Len(n) = i + 1 /\ n[i + 1] = "unguard"
                   \/ Len(n) = i + 2 /\ n[i + 1] \in {"restart", "bp_off"} /\ n[i + 2] = "unguard"
                   \/ Len(n) = i + 2 /\ n[i + 1] = "unguard" /\ n[i + 2] = "reconfigure"
              /\ n[i] \in {"restart", "bp_off"} => Len(n) = i + 1 /\ n[i + 1] = "unguard"
              /\ n[i] = "unguard" => Len(n) = i \/ (Len(n) = i + 1 /\ n[i + 1] = "reconfigure")
              /\ n[i] = "unconsumed" => Len(n) = i + 1 /\ n[i + 1] = "last"
              /\ n[i] \in {"last", "resized", "departed", "teardown", "rejoin", "rejoin_told", "register"}
                   => Len(n) = i
              /\ n[i] \in {"bp", "bp_again"} =>
                   \/ Len(n) = i
                   \/ Len(n) = i + 1 /\ n[i + 1] = "unguard"
                   \/ i < Len(n) /\ n[i + 1] = "followed"
  <2>1. n[i] = s[i + d] /\ i + d \in 1 .. Len(s)
    BY <1>2
  <2>2. i + 1 <= Len(n) => n[i + 1] = s[i + d + 1]
    BY <1>1, <1>2, <1>5
  <2>3. i + 2 <= Len(n) => n[i + 2] = s[i + d + 2]
    BY <1>1, <1>2, <1>5
  <2>4. Len(n) + d = Len(s) /\ (\A k \in 0 .. 2 : Len(s) = i + d + k <=> Len(n) = i + k) /\ (i + d < Len(s) <=> i < Len(n))
    BY <1>1, <1>5
  <2>5. n[i] = "guard" =>
           \/ Len(s) = i + d + 1 /\ s[i + d + 1] = "unguard"
           \/ Len(s) = i + d + 2 /\ s[i + d + 1] \in {"restart", "bp_off"} /\ s[i + d + 2] = "unguard"
           \/ Len(s) = i + d + 2 /\ s[i + d + 1] = "unguard" /\ s[i + d + 2] = "reconfigure"
    BY <2>1 DEF Plan, Sound
  <2>6. /\ n[i] \in {"restart", "bp_off"} => Len(s) = i + d + 1 /\ s[i + d + 1] = "unguard"
        /\ n[i] = "unguard" => Len(s) = i + d \/ (Len(s) = i + d + 1 /\ s[i + d + 1] = "reconfigure")
        /\ n[i] = "unconsumed" => Len(s) = i + d + 1 /\ s[i + d + 1] = "last"
        /\ n[i] \in {"last", "resized", "departed", "teardown", "rejoin", "rejoin_told", "register"}
             => Len(s) = i + d
    BY <2>1 DEF Plan, Sound
  <2>7. n[i] \in {"bp", "bp_again"} =>
           \/ Len(s) = i + d
           \/ Len(s) = i + d + 1 /\ s[i + d + 1] = "unguard"
           \/ i + d < Len(s) /\ s[i + d + 1] = "followed"
    BY <2>1 DEF Plan, Sound
  <2>8. n[i] = "guard" =>
                   \/ Len(n) = i + 1 /\ n[i + 1] = "unguard"
                   \/ Len(n) = i + 2 /\ n[i + 1] \in {"restart", "bp_off"} /\ n[i + 2] = "unguard"
                   \/ Len(n) = i + 2 /\ n[i + 1] = "unguard" /\ n[i + 2] = "reconfigure"
    <3>1. SUFFICES ASSUME n[i] = "guard"
                   PROVE  \/ Len(n) = i + 1 /\ n[i + 1] = "unguard"
                          \/ Len(n) = i + 2 /\ n[i + 1] \in {"restart", "bp_off"} /\ n[i + 2] = "unguard"
                          \/ Len(n) = i + 2 /\ n[i + 1] = "unguard" /\ n[i + 2] = "reconfigure"
      OBVIOUS
    <3>2. Len(s) = i + d + 1 => Len(n) = i + 1 /\ n[i + 1] = s[i + d + 1]
      BY <1>1, <1>5, <2>2
    <3>3. Len(s) = i + d + 2 => Len(n) = i + 2 /\ n[i + 1] = s[i + d + 1] /\ n[i + 2] = s[i + d + 2]
      BY <1>1, <1>5, <2>2, <2>3
    <3> QED BY <2>5, <3>1, <3>2, <3>3
  <2>9. /\ n[i] \in {"restart", "bp_off"} => Len(n) = i + 1 /\ n[i + 1] = "unguard"
        /\ n[i] = "unguard" => Len(n) = i \/ (Len(n) = i + 1 /\ n[i + 1] = "reconfigure")
        /\ n[i] = "unconsumed" => Len(n) = i + 1 /\ n[i + 1] = "last"
        /\ n[i] \in {"last", "resized", "departed", "teardown", "rejoin", "rejoin_told", "register"}
                   => Len(n) = i
    BY <1>1, <2>2, <2>4, <2>6
  <2>10. n[i] \in {"bp", "bp_again"} =>
                   \/ Len(n) = i
                   \/ Len(n) = i + 1 /\ n[i + 1] = "unguard"
                   \/ i < Len(n) /\ n[i + 1] = "followed"
    BY <1>1, <2>2, <2>4, <2>7
  <2> QED BY <2>8, <2>9, <2>10
<1>11. \A i \in 1 .. Len(n) : n[i] # "relive"
  BY <1>1, <1>2, <1>5 DEF Plan, Sound, Later, Sequels, TailOps
<1>12. Sound(n)
  BY <1>3, <1>6, <1>7, <1>8, <1>9, <1>10, <1>11 DEF Sound
<1> QED BY <1>12 DEF Plan

\* The same list under another operation of the same kind.
LEMMA Reheaded ==
  ASSUME NEW s, Plan(s), s # <<>>, NEW n \in Seq(Ops), Len(n) = Len(s),
         \A i \in 2 .. Len(s) : n[i] = s[i],
         \/ s[1] \in {"stop", "stop_bp", "stop_pop"} /\ n[1] \in StopOps
         \/ s[1] = "judge" /\ n[1] = "stop"
         \/ s[1] = "start" /\ n[1] = "start_native"
         \/ s[1] = "bp" /\ n[1] = "bp_again"
  PROVE  Plan(n)
<1>0. s \in Seq(Ops) /\ Sound(s)
  BY DEF Plan
<1>1. Len(s) \in Nat /\ Len(s) >= 1
  BY <1>0
<1>2. n[1] \in Sections \cup {"bp_again"} /\ n[1] \notin Later /\ (n[1] \in Sections <=> s[1] \in Sections)
  BY DEF Sections, Inner, Locking, StopOps, Later, Sequels, TailOps
<1>3. (\A i \in 2 .. Len(n) : n[i] \in Later) /\ (Len(n) > 0 => n[1] \notin {"release"} \cup Sequels)
  BY <1>0, <1>1, <1>2 DEF Sound, Later
<1>4. \A i \in 1 .. Len(n) : Ends(s, i) => Ends(n, i)
  BY <1>1 DEF Ends
<1>5. ASSUME NEW i \in 1 .. Len(n)
      PROVE  /\ n[i] \in Sections =>
                  i < Len(n) /\ (n[i + 1] = "release" \/ (n[i + 1] = "start" /\ n[i] \in StopOps))
             /\ n[i] = "release" => i > 1 /\ n[i - 1] \in Sections
  <2>1. CASE i = 1
    <3>1. n[1] \in Sections => 1 < Len(s) /\ (s[2] = "release" \/ (s[2] = "start" /\ s[1] \in StopOps))
      BY <1>0, <1>1, <1>2 DEF Sound
    <3>2. s[1] \in StopOps => n[1] \in StopOps
      BY DEF StopOps
    <3> QED BY <1>1, <1>2, <2>1, <3>1, <3>2 DEF Later
  <2>2. CASE i > 1
    <3>1. n[i] = s[i] /\ (i < Len(n) => n[i + 1] = s[i + 1]) /\ (i > 2 => n[i - 1] = s[i - 1])
      BY <1>1, <2>2
    <3>2. s[i] \in Sections =>
                  i < Len(n) /\ (s[i + 1] = "release" \/ (s[i + 1] = "start" /\ s[i] \in StopOps))
      BY <1>0, <1>1 DEF Sound
    <3>3. s[i] = "release" => i > 1 /\ s[i - 1] \in Sections
      BY <1>0, <1>1 DEF Sound
    <3>4. i = 2 => i - 1 = 1
      OBVIOUS
    <3>5. i = 2 \/ i > 2
      BY <2>2
    <3> QED BY <1>2, <2>2, <3>1, <3>2, <3>3, <3>4, <3>5
  <2> QED BY <2>1, <2>2
<1>6. ASSUME NEW i \in 1 .. Len(n), n[i] = "start"
      PROVE  (i = 2 /\ n[1] \in StopOps) \/ (i = 3 /\ n[2] = "release")
  <2>1. i # 1
    BY <1>6, <1>2 DEF Later
  <2>2. s[i] = "start"
    BY <1>1, <1>6, <2>1
  <2>3. (i = 2 /\ s[1] \in StopOps) \/ (i = 3 /\ s[2] = "release")
    BY <1>0, <1>1, <2>1, <2>2 DEF Sound
  <2> QED BY <1>1, <2>3 DEF StopOps
<1>7. ASSUME NEW i \in 1 .. Len(n)
      PROVE  /\ n[i] \in {"start", "start_native"} =>
                  i + 2 <= Len(n) /\ n[i + 2] \in {"bp", "resized"} \cup Sequels
             /\ n[i] \in Sequels => i = Len(n) /\ i > 2 /\ n[i - 2] \in {"start", "start_native"}
  <2>1. CASE n[i] \in {"start", "start_native"}
    <3>1. s[i] \in {"start", "start_native"}
      BY <1>1, <2>1 DEF StopOps
    <3>2. i + 2 <= Len(s) /\ s[i + 2] \in {"bp", "resized"} \cup Sequels
      BY <1>0, <1>1, <3>1 DEF Sound
    <3>3. n[i + 2] = s[i + 2]
      BY <1>1, <3>2
    <3> QED BY <1>1, <2>1, <3>2, <3>3 DEF Sequels
  <2>2. CASE n[i] \in Sequels
    <3>1. i # 1
      BY <1>3, <2>2
    <3>2. s[i] \in Sequels
      BY <1>1, <2>2, <3>1
    <3>3. i = Len(n) /\ i > 2 /\ s[i - 2] \in {"start", "start_native"}
      BY <1>0, <1>1, <3>2 DEF Sound
    <3>4. i - 2 = 1 \/ n[i - 2] = s[i - 2]
      BY <1>1, <3>3
    <3>5. s[1] \in {"start", "start_native"} => n[1] = "start_native"
      OBVIOUS
    <3> QED BY <2>2, <3>3, <3>4, <3>5 DEF Sequels
  <2> QED BY <2>1, <2>2
<1>8. ASSUME NEW i \in 2 .. Len(n)
      PROVE  /\ n[i] \in {"pass", "outputs", "start_loop", "passed", "followed"} => Ends(n, i)
             /\ n[i] \notin {"judge", "relive", "bp_again"}
             /\ n[i] = "reconfigure" => i = Len(n)
             /\ n[i] = "guard" =>
                   \/ Len(n) = i + 1 /\ n[i + 1] = "unguard"
                   \/ Len(n) = i + 2 /\ n[i + 1] \in {"restart", "bp_off"} /\ n[i + 2] = "unguard"
                   \/ Len(n) = i + 2 /\ n[i + 1] = "unguard" /\ n[i + 2] = "reconfigure"
             /\ n[i] \in {"restart", "bp_off"} => Len(n) = i + 1 /\ n[i + 1] = "unguard"
             /\ n[i] = "unguard" => Len(n) = i \/ (Len(n) = i + 1 /\ n[i + 1] = "reconfigure")
             /\ n[i] = "unconsumed" => Len(n) = i + 1 /\ n[i + 1] = "last"
             /\ n[i] \in {"last", "resized", "departed", "teardown", "rejoin", "rejoin_told", "register"}
                   => Len(n) = i
             /\ n[i] = "bp" =>
                   \/ Len(n) = i
                   \/ Len(n) = i + 1 /\ n[i + 1] = "unguard"
                   \/ i < Len(n) /\ n[i + 1] = "followed"
  <2>1. i \in 1 .. Len(n) /\ i # 1 /\ n[i] = s[i] /\ s[i] \in Later
    BY <1>0, <1>1 DEF Sound
  <2>2. (i + 1 <= Len(n) => n[i + 1] = s[i + 1]) /\ (i + 2 <= Len(n) => n[i + 2] = s[i + 2])
    BY <1>1
  <2>3. i + 1 = Len(n) \/ i + 2 = Len(n) \/ i < Len(n) => i + 1 <= Len(n)
    BY <1>1
  <2>4. i + 2 = Len(n) => i + 2 <= Len(n)
    BY <1>1
  <2>5. n[i] \in {"pass", "outputs", "start_loop", "passed", "followed"} => Ends(n, i)
    BY <1>0, <1>4, <2>1 DEF Sound
  <2>6. n[i] \notin {"judge", "relive", "bp_again"}
    BY <2>1 DEF Later, Sequels, TailOps
  <2>7. n[i] = "reconfigure" => i = Len(n)
    BY <1>0, <2>1 DEF Sound
  <2>8. s[i] = "guard" =>
           \/ Len(s) = i + 1 /\ s[i + 1] = "unguard"
           \/ Len(s) = i + 2 /\ s[i + 1] \in {"restart", "bp_off"} /\ s[i + 2] = "unguard"
           \/ Len(s) = i + 2 /\ s[i + 1] = "unguard" /\ s[i + 2] = "reconfigure"
    BY <1>0, <2>1 DEF Sound
  <2>9. /\ s[i] \in {"restart", "bp_off"} => Len(s) = i + 1 /\ s[i + 1] = "unguard"
        /\ s[i] = "unguard" => Len(s) = i \/ (Len(s) = i + 1 /\ s[i + 1] = "reconfigure")
        /\ s[i] = "unconsumed" => Len(s) = i + 1 /\ s[i + 1] = "last"
        /\ s[i] \in {"last", "resized", "departed", "teardown", "rejoin", "rejoin_told", "register"}
                   => Len(s) = i
        /\ s[i] = "bp" =>
                   \/ Len(s) = i
                   \/ Len(s) = i + 1 /\ s[i + 1] = "unguard"
                   \/ i < Len(s) /\ s[i + 1] = "followed"
    BY <1>0, <2>1 DEF Sound
  <2>10. n[i] = "guard" =>
                   \/ Len(n) = i + 1 /\ n[i + 1] = "unguard"
                   \/ Len(n) = i + 2 /\ n[i + 1] \in {"restart", "bp_off"} /\ n[i + 2] = "unguard"
                   \/ Len(n) = i + 2 /\ n[i + 1] = "unguard" /\ n[i + 2] = "reconfigure"
    BY <2>1, <2>2, <2>3, <2>4, <2>8
  <2>11. /\ n[i] \in {"restart", "bp_off"} => Len(n) = i + 1 /\ n[i + 1] = "unguard"
         /\ n[i] = "unguard" => Len(n) = i \/ (Len(n) = i + 1 /\ n[i + 1] = "reconfigure")
         /\ n[i] = "unconsumed" => Len(n) = i + 1 /\ n[i + 1] = "last"
         /\ n[i] \in {"last", "resized", "departed", "teardown", "rejoin", "rejoin_told", "register"}
                    => Len(n) = i
         /\ n[i] = "bp" =>
                    \/ Len(n) = i
                    \/ Len(n) = i + 1 /\ n[i + 1] = "unguard"
                    \/ i < Len(n) /\ n[i + 1] = "followed"
    BY <2>1, <2>2, <2>3, <2>9
  <2> QED BY <2>5, <2>6, <2>7, <2>10, <2>11
<1>9. n[1] = "bp_again" =>
         \/ Len(n) = 1
         \/ Len(n) = 2 /\ n[2] = "unguard"
         \/ 1 < Len(n) /\ n[2] = "followed"
  <2>1. n[1] = "bp_again" => s[1] = "bp"
    BY DEF StopOps
  <2>2. s[1] = "bp" =>
           \/ Len(s) = 1
           \/ Len(s) = 2 /\ s[2] = "unguard"
           \/ 1 < Len(s) /\ s[2] = "followed"
    <3>1. 1 \in 1 .. Len(s) /\ 1 + 1 = 2
      BY <1>1
    <3> QED BY ONLY <1>0, <3>1 DEF Sound
  <2> QED BY <1>1, <2>1, <2>2
<1>10. n[1] \notin {"judge", "relive", "departed", "teardown", "rejoin", "rejoin_told", "register", "pass"}
  BY DEF StopOps
<1>11. \A i \in 1 .. Len(n) : i = 1 \/ i \in 2 .. Len(n)
  BY <1>1
<1>12. Sound(n)
  <2> SUFFICES ASSUME NEW i \in 1 .. Len(n)
      PROVE
       /\ n[i] \in {"pass", "outputs", "start_loop", "passed", "followed"} => Ends(n, i)
       /\ n[i] = "judge" => Len(n) >= 3 /\ n[2] = "release" /\ n[3] = "outputs"
       /\ n[i] = "reconfigure" => i = Len(n) \/ (i = 1 /\ Ends(n, 1))
       /\ n[i] = "guard" =>
            \/ Len(n) = i + 1 /\ n[i + 1] = "unguard"
            \/ Len(n) = i + 2 /\ n[i + 1] \in {"restart", "bp_off"} /\ n[i + 2] = "unguard"
            \/ Len(n) = i + 2 /\ n[i + 1] = "unguard" /\ n[i + 2] = "reconfigure"
       /\ n[i] \in {"restart", "bp_off"} => Len(n) = i + 1 /\ n[i + 1] = "unguard"
       /\ n[i] = "unguard" => Len(n) = i \/ (Len(n) = i + 1 /\ n[i + 1] = "reconfigure")
       /\ n[i] = "unconsumed" => Len(n) = i + 1 /\ n[i + 1] = "last"
       /\ n[i] \in {"last", "resized", "departed", "teardown", "rejoin", "rejoin_told", "register"} => Len(n) = i
       /\ n[i] \in {"bp", "bp_again"} =>
            \/ Len(n) = i
            \/ Len(n) = i + 1 /\ n[i + 1] = "unguard"
            \/ i < Len(n) /\ n[i + 1] = "followed"
       /\ n[i] = "relive" => Len(n) = 2 \/ (Len(n) >= 4 /\ n[3] = "bp" /\ n[4] = "followed")
    BY <1>3, <1>5, <1>6, <1>7 DEF Sound
  <2>1. CASE i = 1
    <3>1. n[1] \notin Later
      BY <1>2
    <3> QED BY <1>9, <1>10, <2>1, <3>1 DEF Later, TailOps
  <2>2. CASE i \in 2 .. Len(n)
    BY <1>8, <2>2
  <2> QED BY <1>11, <2>1, <2>2
<1> QED BY <1>12 DEF Plan

\* What follows a pass in the lists that hold one: nothing, the shutdown of
\* the pipelines or the check of the last consumer.
Ending == {<<>>, <<"guard", "bp_off", "unguard">>, <<"unconsumed", "last">>}

\* Sizes, for the operations.
LEMMA Listed ==
  ASSUME NEW s \in Seq(Ops)
  PROVE  /\ Len(s) \in Nat
         /\ s # <<>> <=> Len(s) >= 1
         /\ Range(s) = {s[i] : i \in 1 .. Len(s)}
         /\ \A i \in 1 .. Len(s) : s[i] \in Ops
  BY Sizes

\* A list with a first place is not empty.
LEMMA Filled ==
  ASSUME NEW s \in Seq(Ops), Len(s) >= 1
  PROVE  s # <<>>
  BY Listed

\* The rest of a list is the list, shifted.
LEMMA Shifted ==
  ASSUME NEW s \in Seq(Ops), s # <<>>
  PROVE  /\ Tail(s) \in Seq(Ops) /\ Head(s) = s[1]
         /\ Len(Tail(s)) = Len(s) - 1
         /\ \A i \in 1 .. (Len(s) - 1) : Tail(s)[i] = s[i + 1]
  BY Sizes

\* What follows an operation of a pass.
LEMMA EndingOf ==
  ASSUME NEW s, Plan(s), s # <<>>, Ends(s, 1)
  PROVE  Tail(s) \in Ending
<1>0. s \in Seq(Ops)
  BY DEF Plan
<1>1. PICK t \in Seq(Ops) :
        /\ t = Tail(s) /\ Len(t) = Len(s) - 1
        /\ \A i \in 1 .. (Len(s) - 1) : t[i] = s[i + 1]
  BY <1>0, Shifted
<1>6. Len(s) \in Nat /\ Len(s) >= 1 /\ Len(t) = Len(s) - 1
      /\ \A i \in 1 .. (Len(s) - 1) : t[i] = s[i + 1]
  BY <1>0, <1>1, Listed
<1>2. CASE Len(s) = 1
  <2>1. t = <<>>
    BY <1>6, <1>2
  <2> QED BY <1>1, <2>1 DEF Ending
<1>3. CASE Len(s) = 4 /\ s[2] = "guard" /\ s[3] = "bp_off" /\ s[4] = "unguard"
  <2>1. Len(t) = 3 /\ t[1] = s[1 + 1] /\ t[2] = s[2 + 1] /\ t[3] = s[3 + 1]
    BY ONLY <1>6, <1>3
  <2>2. t = <<"guard", "bp_off", "unguard">>
    BY <1>3, <2>1
  <2> QED BY <1>1, <2>2 DEF Ending
<1>4. CASE Len(s) = 3 /\ s[2] = "unconsumed" /\ s[3] = "last"
  <2>1. Len(t) = 2 /\ t[1] = s[1 + 1] /\ t[2] = s[2 + 1]
    BY ONLY <1>6, <1>4
  <2>2. t = <<"unconsumed", "last">>
    BY <1>4, <2>1
  <2> QED BY <1>1, <2>2 DEF Ending
<1>5. \/ Len(s) = 1
      \/ Len(s) = 1 + 3 /\ s[1 + 1] = "guard" /\ s[1 + 2] = "bp_off" /\ s[1 + 3] = "unguard"
      \/ Len(s) = 1 + 2 /\ s[1 + 1] = "unconsumed" /\ s[1 + 2] = "last"
  BY DEF Ends
<1> QED BY <1>2, <1>3, <1>4, <1>5

\* The three ends are lists of tail operations.
LEMMA EndingType ==
  ASSUME NEW k \in Ending
  PROVE  /\ k \in Seq(Ops)
         /\ Range(k) \subseteq TailOps
         /\ "guard" \in Range(k) <=> "unguard" \in Range(k)
<1>1. /\ <<>> \in Seq(Ops) /\ <<"guard", "bp_off", "unguard">> \in Seq(Ops)
      /\ <<"unconsumed", "last">> \in Seq(Ops)
  BY DEF TailOps, Ops, Later
<1>2. /\ Range(<<"guard", "bp_off", "unguard">>) = {"guard", "bp_off", "unguard"}
      /\ Range(<<>>) = {}
      /\ Range(<<"unconsumed", "last">>) = {"unconsumed", "last"}
  BY DEF Range
<1> QED BY <1>1, <1>2 DEF Ending, TailOps

\* Lists joined are as long as both, the one behind the other.
LEMMA Joined ==
  ASSUME NEW a \in Seq(Ops), NEW k \in Seq(Ops)
  PROVE  /\ a \o k \in Seq(Ops) /\ Len(a \o k) = Len(a) + Len(k)
         /\ \A i \in 1 .. Len(a) : (a \o k)[i] = a[i]
         /\ \A i \in 1 .. Len(k) : (a \o k)[Len(a) + i] = k[i]
         /\ Range(a \o k) = Range(a) \cup Range(k)
<1>1. /\ a \o k \in Seq(Ops) /\ Len(a \o k) = Len(a) + Len(k) /\ Len(a) \in Nat /\ Len(k) \in Nat
      /\ \A i \in 1 .. Len(a) + Len(k) : (a \o k)[i] = IF i <= Len(a) THEN a[i] ELSE k[i - Len(a)]
  BY ConcatProperties
<1>2. \A i \in 1 .. Len(a) : i \in 1 .. Len(a) + Len(k) /\ (a \o k)[i] = a[i]
  BY <1>1
<1>3. \A i \in 1 .. Len(k) : Len(a) + i \in 1 .. Len(a) + Len(k) /\ (a \o k)[Len(a) + i] = k[i]
  <2>1. TAKE i \in 1 .. Len(k)
  <2>2. Len(a) + i \in 1 .. Len(a) + Len(k) /\ ~(Len(a) + i <= Len(a)) /\ Len(a) + i - Len(a) = i
    BY <1>1
  <2> QED BY <1>1, <2>2
<1>4. Range(a) = {a[i] : i \in 1 .. Len(a)} /\ Range(k) = {k[i] : i \in 1 .. Len(k)}
      /\ Range(a \o k) = {(a \o k)[i] : i \in 1 .. Len(a) + Len(k)}
  <2>1. Range(a) = {a[i] : i \in 1 .. Len(a)} /\ Range(k) = {k[i] : i \in 1 .. Len(k)}
    BY Listed
  <2>2. Range(a \o k) = {(a \o k)[i] : i \in 1 .. Len(a \o k)}
    BY <1>1, Listed
  <2> QED BY <1>1, <2>1, <2>2
<1>5. \A i \in 1 .. Len(a) + Len(k) : (a \o k)[i] \in Range(a) \cup Range(k)
  <2>1. TAKE i \in 1 .. Len(a) + Len(k)
  <2>2. CASE i <= Len(a)
    BY <1>1, <1>4, <2>2
  <2>3. CASE ~(i <= Len(a))
    <3>1. i - Len(a) \in 1 .. Len(k)
      BY <1>1, <2>3
    <3> QED BY <1>1, <1>4, <2>3, <3>1
  <2> QED BY <2>2, <2>3
<1>6. Range(a) \cup Range(k) \subseteq Range(a \o k)
  <2>1. ASSUME NEW i \in 1 .. Len(a) PROVE a[i] \in Range(a \o k)
    BY <1>2, <1>4
  <2>2. ASSUME NEW i \in 1 .. Len(k) PROVE k[i] \in Range(a \o k)
    BY <1>3, <1>4
  <2> QED BY <1>4, <2>1, <2>2
<1> QED BY <1>1, <1>2, <1>3, <1>4, <1>5, <1>6

\* A list and its rest.
LEMMA Heads ==
  ASSUME NEW s \in Seq(Ops), s # <<>>
  PROVE  /\ Head(s) = s[1] /\ Tail(s) \in Seq(Ops) /\ s[1] \in Range(s)
         /\ Range(s) = {s[1]} \cup Range(Tail(s))
         /\ s[1] \in Ops /\ Range(s) \subseteq Ops
<1>1. /\ Len(s) \in Nat /\ Len(s) >= 1
      /\ Range(s) = {s[i] : i \in 1 .. Len(s)} /\ \A i \in 1 .. Len(s) : s[i] \in Ops
  BY Listed
<1>0. /\ Head(s) = s[1] /\ Tail(s) \in Seq(Ops)
      /\ Len(Tail(s)) = Len(s) - 1 /\ \A i \in 1 .. (Len(s) - 1) : Tail(s)[i] = s[i + 1]
  BY Shifted
<1>2. Range(Tail(s)) = {Tail(s)[i] : i \in 1 .. (Len(s) - 1)}
  BY <1>0, Listed
<1>3. \A i \in 1 .. Len(s) : i = 1 \/ (i - 1 \in 1 .. (Len(s) - 1) /\ Tail(s)[i - 1] = s[i])
  BY <1>0, <1>1
<1>4. \A i \in 1 .. (Len(s) - 1) : Tail(s)[i] \in Range(s)
  <2>1. TAKE i \in 1 .. (Len(s) - 1)
  <2>2. i + 1 \in 1 .. Len(s)
    BY <1>1
  <2> QED BY <1>0, <1>1, <2>2
<1>5. s[1] \in Range(s) /\ Range(s) \subseteq Ops
  BY <1>1
<1>6. Range(s) \subseteq {s[1]} \cup Range(Tail(s))
  <2>1. ASSUME NEW i \in 1 .. Len(s) PROVE s[i] \in {s[1]} \cup Range(Tail(s))
    BY <1>2, <1>3
  <2> QED BY <1>1, <2>1
<1>7. Range(Tail(s)) \subseteq Range(s)
  BY <1>2, <1>4
<1> QED BY <1>0, <1>1, <1>5, <1>6, <1>7

-----------------------------------------------------------------------------
(* The rest of a sound list, and what follows its head *)

\* The rest of a list whose head takes no lock.
LEMMA Dropping ==
  ASSUME NEW s, Plan(s), s # <<>>, s[1] \notin Sections
  PROVE  /\ Plan(Tail(s)) /\ Kept(Tail(s)) = Tail(s)
         /\ Tail(s) # <<>> => Tail(s)[1] \notin Sections
         /\ "start" \notin Range(s)
<1>1. PICK n \in Seq(Ops) :
        /\ n = Tail(s) /\ Len(n) = Len(s) - 1
        /\ \A i \in 1 .. (Len(s) - 1) : n[i] = s[i + 1]
  BY Shifted DEF Plan
<1>2. Len(s) \in Nat /\ Len(s) >= 1 /\ s \in Seq(Ops) /\ Sound(s) /\ Len(n) \in Nat
  BY Listed DEF Plan
<1>3. Len(s) >= 2 => s[2] \notin {"release", "start"}
  <2>1. Len(s) >= 2 => 2 \in 1 .. Len(s)
    BY <1>2
  <2>2. "release" # "start" /\ StopOps \subseteq Sections
    BY DEF StopOps, Sections, Inner
  <2> QED BY ONLY s[1] \notin Sections, <1>2, <2>1, <2>2 DEF Sound
<1>4. Len(s) >= 2 => s[2] \in Later /\ s[2] \notin Sequels
  <2>1. Len(s) >= 2 => 2 \in 2 .. Len(s) /\ 2 \in 1 .. Len(s)
    BY <1>2
  <2> QED BY ONLY <1>2, <2>1 DEF Sound
<1>5. Len(n) > 0 => n[1] = s[2] /\ Len(s) >= 2
  <2>1. Len(n) > 0 => 1 \in 1 .. (Len(s) - 1) /\ 1 + 1 = 2
    BY <1>1, <1>2
  <2> QED BY ONLY <1>1, <1>2, <2>1
<1>6. Len(n) > 0 => n[1] \notin Sections
  <2>1. Later \cap Sections = {"start"}
    BY DEF Later, Sections, Inner, Locking, Sequels, TailOps
  <2> QED BY <1>3, <1>4, <1>5, <2>1
<1>7. Len(n) > 0 => n[1] \notin {"release"} \cup Sequels
  BY <1>3, <1>4, <1>5
<1>8. Plan(n)
  <2>1. Len(n) = Len(s) - 1 /\ \A i \in 1 .. Len(n) : n[i] = s[i + 1]
    BY <1>1
  <2> QED BY <1>7, <2>1, Dropped
<1>9. n # <<>> => Len(n) > 0 /\ Head(n) = n[1]
  BY <1>2, Listed, Shifted
<1>10. Kept(n) = n
  BY <1>7, <1>9 DEF Kept
<1>11. "start" \notin Range(s)
  <2>1. SUFFICES ASSUME NEW i \in 1 .. Len(s), s[i] = "start" PROVE FALSE
    BY <1>2, Listed
  <2>2. i # 1
    BY <2>1 DEF Sections, Locking
  <2>3. (i = 2 /\ s[1] \in StopOps) \/ (i = 3 /\ s[2] = "release")
    BY ONLY <1>2, <2>1, <2>2 DEF Sound
  <2>4. s[1] \notin StopOps
    BY DEF Sections, Inner, StopOps
  <2>5. s[2] # "release"
    BY <1>2, <1>3, <2>3
  <2> QED BY <2>3, <2>4, <2>5
<1> QED BY <1>1, <1>6, <1>8, <1>9, <1>10, <1>11

\* The head of a section, and what follows it.
LEMMA Section ==
  ASSUME NEW s, Plan(s), s # <<>>, s[1] \in Sections
  PROVE  /\ Len(s) >= 2 /\ Tail(s) # <<>> /\ Head(Tail(s)) = s[2] /\ Tail(s)[1] = s[2]
         /\ s[2] = "release" \/ (s[2] = "start" /\ s[1] \in StopOps)
<1>1. Len(s) \in Nat /\ Len(s) >= 1 /\ s \in Seq(Ops) /\ Sound(s) /\ 1 \in 1 .. Len(s) /\ 1 + 1 = 2
  BY Listed DEF Plan
<1>2. 1 < Len(s) /\ (s[2] = "release" \/ (s[2] = "start" /\ s[1] \in StopOps))
  BY ONLY s[1] \in Sections, <1>1 DEF Sound
<1>3. Tail(s) \in Seq(Ops) /\ Len(Tail(s)) >= 1 /\ Tail(s)[1] = s[2]
  <2>1. 1 \in 1 .. (Len(s) - 1)
    BY <1>1, <1>2
  <2> QED BY <1>1, <1>2, <2>1, Shifted
<1> QED BY <1>1, <1>2, <1>3, Listed, Shifted

\* The rest of a list that leaves its section.
LEMMA Leaving ==
  ASSUME NEW s, Plan(s), s # <<>>, s[1] \in Sections, s[2] = "release",
         s[1] \notin {"start", "start_native"}
  PROVE  /\ Plan(Tail(Tail(s))) /\ Kept(Tail(s)) = Tail(Tail(s))
         /\ Range(s) = {s[1], "release"} \cup Range(Tail(Tail(s)))
         /\ Len(Tail(Tail(s))) = Len(s) - 2
         /\ \A i \in 1 .. Len(Tail(Tail(s))) : Tail(Tail(s))[i] = s[i + 2]
         /\ Tail(Tail(s)) # <<>> =>
              /\ Tail(Tail(s))[1] = s[3] /\ Len(s) >= 3
              /\ Tail(Tail(s))[1] \notin Inner \cup {"stop", "judge", "relive", "release"}
<1>0. Len(s) \in Nat /\ s \in Seq(Ops) /\ Sound(s)
  BY Listed DEF Plan
<1>1. /\ Len(s) >= 2 /\ Tail(s) # <<>> /\ Head(Tail(s)) = "release" /\ Tail(s) \in Seq(Ops)
      /\ Len(Tail(s)) = Len(s) - 1 /\ \A i \in 1 .. (Len(s) - 1) : Tail(s)[i] = s[i + 1]
      /\ Tail(s)[1] = "release"
  BY <1>0, Section, Shifted
<1>2. PICK n \in Seq(Ops) :
        /\ n = Tail(Tail(s)) /\ Len(n) = Len(Tail(s)) - 1
        /\ \A i \in 1 .. (Len(Tail(s)) - 1) : n[i] = Tail(s)[i + 1]
  BY <1>1, Shifted
<1>3. Len(n) = Len(s) - 2 /\ Len(n) \in Nat
  BY <1>0, <1>1, <1>2
<1>4. \A i \in 1 .. Len(n) : n[i] = s[i + 2]
  <2>1. TAKE i \in 1 .. Len(n)
  <2>2. i \in 1 .. (Len(Tail(s)) - 1) /\ i + 1 \in 1 .. (Len(s) - 1) /\ (i + 1) + 1 = i + 2
    BY <1>0, <1>1, <1>3
  <2> QED BY <1>1, <1>2, <2>2
<1>5. Len(n) > 0 => Len(s) >= 3 /\ n[1] = s[3]
  <2>1. Len(n) > 0 => 1 \in 1 .. Len(n) /\ 1 + 2 = 3
    BY <1>3
  <2> QED BY <1>0, <1>3, <1>4, <2>1
<1>6. Len(s) >= 3 => s[3] \in Later /\ s[3] # "release" /\ s[3] \notin Sequels
  <2>1. Len(s) >= 3 => 3 \in 2 .. Len(s) /\ 3 \in 1 .. Len(s) /\ 3 - 1 = 2 /\ 3 - 2 = 1
    BY <1>0
  <2>2. "release" \notin Sections
    BY DEF Sections, Inner, Locking
  <2> QED BY ONLY <1>0, <2>1, <2>2, s[2] = "release", s[1] \notin {"start", "start_native"} DEF Sound
<1>7. Plan(n)
  <2>1. Len(n) > 0 => n[1] \notin {"release"} \cup Sequels
    BY <1>5, <1>6
  <2> QED BY <1>3, <1>4, <2>1, Dropped
<1>8. Len(n) > 0 => n[1] \notin Inner \cup {"stop", "judge", "relive", "release"}
  <2>1. Later \cap (Inner \cup {"stop", "judge", "relive"}) = {}
    BY DEF Later, Inner, Sequels, TailOps
  <2> QED BY <1>5, <1>6, <2>1
<1>9. Range(s) = {s[1], "release"} \cup Range(n)
  <2>1. s # <<>>
    BY <1>0, <1>1
  <2>2. Range(s) = {s[1]} \cup Range(Tail(s))
    BY <1>0, <2>1, Heads
  <2>3. Range(Tail(s)) = {"release"} \cup Range(n)
    BY <1>1, <1>2, Heads
  <2> QED BY <2>2, <2>3
<1>10. Kept(Tail(s)) = n
  BY <1>1, <1>2 DEF Kept
<1>11. n # <<>> => Len(n) > 0
  BY <1>3, Listed
<1> QED BY <1>2, <1>3, <1>4, <1>5, <1>7, <1>8, <1>9, <1>10, <1>11

\* The rest of a stop that a start follows.
LEMMA Following ==
  ASSUME NEW s, Plan(s), s # <<>>, s[1] \in StopOps, s[2] = "start"
  PROVE  /\ Plan(Tail(s)) /\ Kept(Tail(s)) = Tail(s) /\ Tail(s) # <<>> /\ Tail(s)[1] = "start"
         /\ Range(s) = {s[1]} \cup Range(Tail(s))
<1>0. Len(s) \in Nat /\ s \in Seq(Ops) /\ Sound(s) /\ s[1] \in Sections
  BY Listed DEF Plan, Sections, Inner, StopOps
<1>1. /\ Len(s) >= 2 /\ Tail(s) # <<>> /\ Head(Tail(s)) = "start" /\ Tail(s) \in Seq(Ops)
      /\ Len(Tail(s)) = Len(s) - 1 /\ \A i \in 1 .. (Len(s) - 1) : Tail(s)[i] = s[i + 1]
      /\ Tail(s)[1] = "start"
  BY <1>0, Section, Shifted
<1>2. Plan(Tail(s))
  <2>1. PICK n \in Seq(Ops) : n = Tail(s)
    BY <1>1
  <2>2. Len(n) = Len(s) - 1 /\ \A i \in 1 .. Len(n) : n[i] = s[i + 1]
    BY <1>1, <2>1
  <2>3. n[1] \notin {"release"} \cup Sequels
    BY <1>1, <2>1 DEF Sequels
  <2>4. Plan(n)
    BY ONLY Plan(s), <2>2, <2>3, Dropped
  <2> QED BY <2>1, <2>4
<1>3. Range(s) = {s[1]} \cup Range(Tail(s))
  BY <1>0, Heads
<1> QED BY <1>1, <1>2, <1>3 DEF Kept

\* The same list under another head.
LEMMA Heading ==
  ASSUME NEW s, Plan(s), s # <<>>, NEW h,
         \/ s[1] \in {"stop", "stop_bp", "stop_pop"} /\ h \in StopOps
         \/ s[1] = "judge" /\ h = "stop"
         \/ s[1] = "start" /\ h = "start_native"
         \/ s[1] = "bp" /\ h = "bp_again"
  PROVE  /\ Plan(<<h>> \o Tail(s)) /\ Kept(<<h>> \o Tail(s)) = <<h>> \o Tail(s)
         /\ <<h>> \o Tail(s) # <<>> /\ (<<h>> \o Tail(s))[1] = h
         /\ Len(<<h>> \o Tail(s)) = Len(s)
         /\ \A i \in 2 .. Len(s) : (<<h>> \o Tail(s))[i] = s[i]
         /\ Range(<<h>> \o Tail(s)) = {h} \cup Range(Tail(s))
<1>0. Len(s) \in Nat /\ s \in Seq(Ops) /\ Len(s) >= 1
  BY Listed DEF Plan
<1>1. /\ Tail(s) \in Seq(Ops)
      /\ Len(Tail(s)) = Len(s) - 1 /\ \A i \in 1 .. (Len(s) - 1) : Tail(s)[i] = s[i + 1]
  BY <1>0, Shifted
<1>2. h \in Ops /\ h # "release"
  BY DEF Ops, Sections, Inner, Locking, StopOps, Firsts
<1>3. <<h>> \in Seq(Ops) /\ Len(<<h>>) = 1 /\ <<h>>[1] = h /\ Range(<<h>>) = {h}
  BY <1>2 DEF Range
<1>4. PICK n \in Seq(Ops) :
        /\ n = <<h>> \o Tail(s) /\ Len(n) = 1 + Len(Tail(s)) /\ Range(n) = {h} \cup Range(Tail(s))
        /\ n[1] = h
        /\ \A i \in 1 .. Len(Tail(s)) : n[1 + i] = Tail(s)[i]
  <2>1. PICK a \in Seq(Ops) : a = <<h>> /\ Len(a) = 1 /\ a[1] = h /\ Range(a) = {h}
    BY <1>3
  <2>2. PICK t \in Seq(Ops) : t = Tail(s)
    BY <1>1
  <2>3. /\ a \o t \in Seq(Ops) /\ Len(a \o t) = Len(a) + Len(t)
        /\ \A i \in 1 .. Len(a) : (a \o t)[i] = a[i]
        /\ \A i \in 1 .. Len(t) : (a \o t)[Len(a) + i] = t[i]
        /\ Range(a \o t) = Range(a) \cup Range(t)
    BY Joined
  <2>4. 1 \in 1 .. Len(a)
    BY <2>1
  <2>5. PICK n \in Seq(Ops) : n = a \o t
    BY <2>3
  <2>6. Len(n) = 1 + Len(t) /\ n[1] = h /\ (\A i \in 1 .. Len(t) : n[1 + i] = t[i]) /\ Range(n) = {h} \cup Range(t)
    BY <2>1, <2>3, <2>4, <2>5
  <2> QED BY <2>1, <2>2, <2>5, <2>6
<1>5. Len(n) = Len(s) /\ n[1] = h
  BY <1>0, <1>1, <1>3, <1>4
<1>6. \A i \in 2 .. Len(s) : n[i] = s[i]
  <2>1. TAKE i \in 2 .. Len(s)
  <2>2. i - 1 \in 1 .. (Len(s) - 1) /\ 1 + (i - 1) = i /\ (i - 1) + 1 = i
    BY <1>0
  <2>3. n[1 + (i - 1)] = Tail(s)[i - 1]
    BY <1>1, <1>4, <2>2
  <2> QED BY <1>1, <2>2, <2>3
<1>7. Plan(n)
  BY <1>5, <1>6, Reheaded
<1>8. n # <<>> /\ Head(n) = h
  BY <1>0, <1>5, Listed, Shifted
<1> QED BY <1>2, <1>4, <1>5, <1>6, <1>7, <1>8 DEF Kept

\* And what is so is the lists joined.
LEMMA IsJoined ==
  ASSUME NEW a \in Seq(Ops), NEW k \in Seq(Ops), NEW n \in Seq(Ops), Len(n) = Len(a) + Len(k),
         \A i \in 1 .. Len(a) : n[i] = a[i], \A i \in 1 .. Len(k) : n[Len(a) + i] = k[i]
  PROVE  a \o k = n
<1>1. /\ a \o k \in Seq(Ops) /\ Len(a \o k) = Len(a) + Len(k)
      /\ \A i \in 1 .. Len(a) : (a \o k)[i] = a[i]
      /\ \A i \in 1 .. Len(k) : (a \o k)[Len(a) + i] = k[i]
  BY Joined
<1>2. Len(a) \in Nat /\ Len(k) \in Nat
  BY Listed
<1>3. ASSUME NEW i \in 1 .. Len(n) PROVE (a \o k)[i] = n[i]
  <2>1. CASE i <= Len(a)
    BY <1>1, <1>2, <2>1
  <2>2. CASE ~(i <= Len(a))
    <3>1. i - Len(a) \in 1 .. Len(k) /\ Len(a) + (i - Len(a)) = i
      BY <1>2, <2>2
    <3>2. (a \o k)[Len(a) + (i - Len(a))] = k[i - Len(a)] /\ n[Len(a) + (i - Len(a))] = k[i - Len(a)]
      BY <1>1, <3>1
    <3> QED BY <3>1, <3>2
  <2> QED BY <2>1, <2>2
<1> QED BY <1>1, <1>3, SeqEqual

\* Two operations, joined.
LEMMA Two == ASSUME NEW x \in Ops, NEW y \in Ops PROVE <<x>> \o <<y>> = <<x, y>>
<1>0. /\ <<x>> \in Seq(Ops) /\ <<y>> \in Seq(Ops) /\ <<x, y>> \in Seq(Ops)
      /\ Len(<<x>>) = 1 /\ Len(<<y>>) = 1 /\ Len(<<x, y>>) = 2
      /\ <<x>>[1] = x /\ <<y>>[1] = y /\ <<x, y>>[1] = x /\ <<x, y>>[2] = y
  OBVIOUS
<1>1. PICK a \in Seq(Ops) : a = <<x>> /\ Len(a) = 1 /\ a[1] = x
  BY <1>0
<1>2. PICK k \in Seq(Ops) : k = <<y>> /\ Len(k) = 1 /\ k[1] = y
  BY <1>0
<1>3. PICK n \in Seq(Ops) : n = <<x, y>> /\ Len(n) = 2 /\ n[1] = x /\ n[2] = y
  BY <1>0
<1>4. /\ Len(n) = Len(a) + Len(k)
      /\ \A i \in 1 .. Len(a) : n[i] = a[i]
      /\ \A i \in 1 .. Len(k) : n[Len(a) + i] = k[i]
  <2>1. Len(n) = 2 /\ Len(a) = 1 /\ Len(k) = 1 /\ n[1] = a[1] /\ n[1 + 1] = k[1]
    BY <1>1, <1>2, <1>3
  <2> QED BY ONLY <2>1
<1>5. a \o k = n
  BY ONLY <1>4, IsJoined
<1> QED BY <1>1, <1>2, <1>3, <1>5

\* The lists that start the capture, for both halves of a start.
StartPlans(h) ==
  {<<h, "release", "bp">>, <<h, "release", "bp", "unguard">>, <<h, "release", "resized">>,
   <<h, "release", "after_start">>, <<h, "release", "after_rejoin">>,
   <<h, "release", "bp", "followed">>,
   <<h, "release", "bp", "followed", "guard", "bp_off", "unguard">>,
   <<h, "release", "bp", "followed", "unconsumed", "last">>}

\* A list that begins with a start is one of a few.
LEMMA StartPlan ==
  ASSUME NEW s, Plan(s), s # <<>>, s[1] \in {"start", "start_native"}
  PROVE  s \in StartPlans(s[1])
<1>1. Len(s) \in Nat /\ Len(s) >= 1 /\ s \in Seq(Ops) /\ Sound(s) /\ 1 \in 1 .. Len(s)
      /\ 1 + 1 = 2 /\ 1 + 2 = 3
  BY Listed DEF Plan
<1>2. 3 <= Len(s) /\ s[3] \in {"bp", "resized"} \cup Sequels
  BY ONLY s[1] \in {"start", "start_native"}, <1>1 DEF Sound
<1>3. s[2] = "release"
  <2>1. s[1] \in Sections /\ s[1] \notin StopOps
    BY DEF Sections, Inner, Locking, StopOps
  <2> QED BY <1>1, <2>1, Section
<1>4. CASE s[3] \in {"resized"} \cup Sequels
  <2>1. Len(s) = 3
    <3>1. 3 \in 1 .. Len(s)
      BY <1>1, <1>2
    <3> QED BY ONLY <1>1, <3>1, <1>4 DEF Sound
  <2>2. s[3] \in {"resized", "after_start", "after_rejoin"}
    BY <1>4 DEF Sequels
  <2>3. s = <<s[1], "release", s[3]>>
    BY <1>1, <1>3, <2>1
  <2> QED BY <2>2, <2>3 DEF StartPlans
<1>5. CASE s[3] = "bp"
  <2>1. \/ Len(s) = 3
        \/ Len(s) = 4 /\ s[4] = "unguard"
        \/ 3 < Len(s) /\ s[4] = "followed"
    <3>1. 3 \in 1 .. Len(s) /\ 3 + 1 = 4
      BY <1>1, <1>2
    <3> QED BY ONLY <1>1, <3>1, <1>5 DEF Sound
  <2>2. CASE Len(s) = 3
    <3>1. s = <<s[1], "release", "bp">>
      BY <1>1, <1>3, <1>5, <2>2
    <3> QED BY <3>1 DEF StartPlans
  <2>3. CASE Len(s) = 4 /\ s[4] = "unguard"
    <3>1. s = <<s[1], "release", "bp", "unguard">>
      BY <1>1, <1>3, <1>5, <2>3
    <3> QED BY <3>1 DEF StartPlans
  <2>4. CASE 3 < Len(s) /\ s[4] = "followed"
    <3>1. Ends(s, 4)
      <4>1. 4 \in 1 .. Len(s)
        BY <1>1, <2>4
      <4> QED BY ONLY <1>1, <4>1, <2>4 DEF Sound
    <3>2. \/ Len(s) = 4
          \/ Len(s) = 7 /\ s[5] = "guard" /\ s[6] = "bp_off" /\ s[7] = "unguard"
          \/ Len(s) = 6 /\ s[5] = "unconsumed" /\ s[6] = "last"
      BY ONLY <3>1 DEF Ends
    <3>3. CASE Len(s) = 4
      <4>1. s = <<s[1], "release", "bp", "followed">>
        BY <1>1, <1>3, <1>5, <2>4, <3>3
      <4> QED BY <4>1 DEF StartPlans
    <3>4. CASE Len(s) = 7 /\ s[5] = "guard" /\ s[6] = "bp_off" /\ s[7] = "unguard"
      <4>1. s = <<s[1], "release", "bp", "followed", "guard", "bp_off", "unguard">>
        BY <1>1, <1>3, <1>5, <2>4, <3>4
      <4> QED BY <4>1 DEF StartPlans
    <3>5. CASE Len(s) = 6 /\ s[5] = "unconsumed" /\ s[6] = "last"
      <4>1. s = <<s[1], "release", "bp", "followed", "unconsumed", "last">>
        BY <1>1, <1>3, <1>5, <2>4, <3>5
      <4> QED BY <4>1 DEF StartPlans
    <3> QED BY <3>2, <3>3, <3>4, <3>5
  <2> QED BY <2>1, <2>2, <2>3, <2>4
<1> QED BY <1>2, <1>4, <1>5

\* What After makes of the list of a start that ends in a sequel x.
AfterThree(x, started) ==
  IF started THEN <<"release", "bp">>
  ELSE IF x = "after_start" THEN <<"release", "reconfigure">> ELSE <<"release">>

\* After leaves a list without a sequel alone, and answers one that is three
\* operations long.
LEMMA AfterRest ==
  ASSUME NEW s, Plan(s), s # <<>>, s[1] \in {"start", "start_native"}, NEW b \in BOOLEAN
  PROVE  /\ s[3] \notin Sequels => After(Tail(s), b) = Tail(s)
         /\ s[3] \in Sequels => Len(s) = 3 /\ After(Tail(s), b) = AfterThree(s[3], b)
<1>0. /\ Tail(s) \in Seq(Ops) /\ Len(Tail(s)) = Len(s) - 1
      /\ \A i \in 1 .. (Len(s) - 1) : Tail(s)[i] = s[i + 1]
  BY Shifted DEF Plan
<1>1. PICK t : t = Tail(s) /\ t \in Seq(Ops) /\ Len(t) = Len(s) - 1 /\ \A i \in 1 .. (Len(s) - 1) : t[i] = s[i + 1]
  BY <1>0
<1>2. Len(s) \in Nat /\ Len(s) >= 3 /\ s[2] = "release"
      /\ (s[3] \in Sequels => Len(s) = 3)
      /\ (s[3] \notin Sequels => s[Len(s)] \notin Sequels)
  <2>1. PICK h : h = s[1]
    OBVIOUS
  <2>2. s \in StartPlans(h)
    BY <2>1, StartPlan
  <2> DEFINE Facts == /\ Len(s) \in Nat /\ Len(s) >= 3 /\ s[2] = "release"
                      /\ (s[3] \in Sequels => Len(s) = 3)
                      /\ (s[3] \notin Sequels => s[Len(s)] \notin Sequels)
  <2>3. CASE s = <<h, "release", "bp">>
    BY <2>3 DEF Sequels
  <2>4. CASE s = <<h, "release", "bp", "unguard">>
    BY <2>4 DEF Sequels
  <2>5. CASE s = <<h, "release", "resized">>
    BY <2>5 DEF Sequels
  <2>6. CASE s = <<h, "release", "after_start">>
    BY <2>6 DEF Sequels
  <2>7. CASE s = <<h, "release", "after_rejoin">>
    BY <2>7 DEF Sequels
  <2>8. CASE s = <<h, "release", "bp", "followed">>
    BY <2>8 DEF Sequels
  <2>9. CASE s = <<h, "release", "bp", "followed", "guard", "bp_off", "unguard">>
    BY <2>9 DEF Sequels
  <2>10. CASE s = <<h, "release", "bp", "followed", "unconsumed", "last">>
    BY <2>10 DEF Sequels
  <2> QED BY <2>2, <2>3, <2>4, <2>5, <2>6, <2>7, <2>8, <2>9, <2>10 DEF StartPlans
<1>3. Last(t) = s[Len(s)]
  <2>1. Len(s) - 1 \in 1 .. (Len(s) - 1) /\ (Len(s) - 1) + 1 = Len(s)
    BY <1>2
  <2> QED BY <1>1, <2>1 DEF Last
<1>4. CASE s[3] \notin Sequels
  BY <1>1, <1>2, <1>3, <1>4 DEF After
<1>5. CASE s[3] \in Sequels
  <2>1. Len(s) = 3 /\ Len(t) = 2 /\ t[1] = "release" /\ t[2] = s[3] /\ Last(t) = s[3]
    BY <1>1, <1>2, <1>3, <1>5
  <2>2. Front(t) = <<"release">>
    <3>1. PICK f : f = SubSeq(t, 1, 1)
      OBVIOUS
    <3>2. f \in Seq(Ops) /\ Len(f) = 1 /\ f[1] = t[1]
      <4>1. \A i \in 1 .. 1 : t[i] \in Ops
        BY <1>1, <2>1, Listed
      <4> QED BY ONLY <3>1, <4>1, <1>1, <2>1, SubSeqProperties
    <3>3. f = <<"release">>
      BY <2>1, <3>2
    <3>4. Front(t) = SubSeq(t, 1, 1)
      <4>1. Len(t) - 1 = 1
        BY <2>1
      <4> QED BY <4>1 DEF Front
    <3> QED BY <3>1, <3>3, <3>4
  <2>3. /\ <<"release">> \o <<"bp">> = <<"release", "bp">>
        /\ <<"release">> \o <<"reconfigure">> = <<"release", "reconfigure">>
        /\ <<"release">> \o <<>> = <<"release">>
    <3>1. <<"release">> \in Seq(Ops) /\ <<"bp">> \in Seq(Ops) /\ <<"reconfigure">> \in Seq(Ops)
      BY DEF Ops, Later
    <3>3. "bp" \in Ops /\ "reconfigure" \in Ops
      BY DEF Ops, Later
    <3> QED BY <3>1, <3>3, Two
  <2> QED BY <1>1, <1>5, <2>1, <2>2, <2>3 DEF After, AfterThree
<1> QED BY <1>4, <1>5

-----------------------------------------------------------------------------
(* What goes on after a pass, a start, a stop *)

\* The list of a pass.
LEMMA PassList ==
  ASSUME NEW k \in Ending
  PROVE  /\ Plan(<<"pass">> \o k) /\ <<"pass">> \o k # <<>> /\ Head(<<"pass">> \o k) = "pass" /\ (<<"pass">> \o k)[1] = "pass"
         /\ Range(<<"pass">> \o k) = {"pass"} \cup Range(k)
         /\ Body(<<"pass">> \o k)
         /\ \A b \in BOOLEAN : LaterList(<<"pass">> \o k, b)
         /\ MonitorList(<<"pass">> \o k)
<1>1. PICK a \in Seq(Ops) : a = <<"pass">> /\ Len(a) = 1 /\ Range(a) = {"pass"}
         /\ a[1] = "pass"
  <2>1. <<"pass">> \in Seq(Ops)
    BY DEF Ops, Sections, Inner, Locking, Later, Firsts, TailOps
  <2>2. Range(<<"pass">>) = {"pass"}
    BY DEF Range
  <2> QED BY <2>1, <2>2
<1>2. PICK n \in Seq(Ops) : n = a \o k /\ Len(n) = 1 + Len(k) /\ Range(n) = {"pass"} \cup Range(k)
         /\ n[1] = "pass"
         /\ \A i \in 1 .. Len(k) : n[1 + i] = k[i]
  <2>1. k \in Seq(Ops)
    BY EndingType
  <2>2. /\ a \o k \in Seq(Ops) /\ Len(a \o k) = Len(a) + Len(k) /\ Range(a \o k) = Range(a) \cup Range(k)
        /\ \A i \in 1 .. Len(a) : (a \o k)[i] = a[i]
        /\ \A i \in 1 .. Len(k) : (a \o k)[Len(a) + i] = k[i]
    BY <2>1, Joined
  <2>3. PICK n \in Seq(Ops) : n = a \o k
    BY <2>2
  <2>4. n[1] = a[1]
    BY <1>1, <2>2, <2>3
  <2>5. \A i \in 1 .. Len(k) : n[1 + i] = k[i]
    BY <1>1, <2>2, <2>3
  <2> QED BY <1>1, <2>2, <2>3, <2>4, <2>5
<1>3. Plan(n)
  <2>1. CASE k = <<>>
    <3>1. n = <<"pass">>
      BY <1>2, <2>1
    <3> QED BY ONLY <3>1 DEF Plan, Sound, Ends, Ops, Sections, Inner, Locking, StopOps, Later, Firsts, TailOps, Sequels
  <2>2. CASE k = <<"guard", "bp_off", "unguard">>
    <3>1. Len(k) = 3 /\ k[1] = "guard" /\ k[2] = "bp_off" /\ k[3] = "unguard"
      BY <2>2
    <3>2. Len(n) = 4 /\ n[1 + 1] = k[1] /\ n[1 + 2] = k[2] /\ n[1 + 3] = k[3]
      BY ONLY <1>2, <3>1
    <3>3. n = <<"pass", "guard", "bp_off", "unguard">>
      <4>1. n \in Seq(Ops) /\ n[1] = "pass" /\ n[2] = "guard" /\ n[3] = "bp_off" /\ n[4] = "unguard" /\ Len(n) = 4
        BY <1>2, <3>1, <3>2
      <4> QED BY ONLY <4>1
    <3> QED BY ONLY <3>3 DEF Plan, Sound, Ends, Ops, Sections, Inner, Locking, StopOps, Later, Firsts, TailOps, Sequels
  <2>3. CASE k = <<"unconsumed", "last">>
    <3>1. Len(k) = 2 /\ k[1] = "unconsumed" /\ k[2] = "last"
      BY <2>3
    <3>2. Len(n) = 3 /\ n[1 + 1] = k[1] /\ n[1 + 2] = k[2]
      BY ONLY <1>2, <3>1
    <3>3. n = <<"pass", "unconsumed", "last">>
      <4>1. n \in Seq(Ops) /\ n[1] = "pass" /\ n[2] = "unconsumed" /\ n[3] = "last" /\ Len(n) = 3
        BY <1>2, <3>1, <3>2
      <4> QED BY ONLY <4>1
    <3> QED BY ONLY <3>3 DEF Plan, Sound, Ends, Ops, Sections, Inner, Locking, StopOps, Later, Firsts, TailOps, Sequels
  <2> QED BY <2>1, <2>2, <2>3 DEF Ending
<1>4. n # <<>> /\ Len(n) >= 1 /\ Head(n) = n[1]
  <2>1. Len(k) \in Nat
    BY EndingType, Listed
  <2>2. Len(n) >= 1
    BY <1>2, <2>1
  <2> QED BY <2>2, Listed, Shifted
<1>5. Range(k) \subseteq TailOps /\ ("guard" \in Range(k) <=> "unguard" \in Range(k))
  BY EndingType
<1>6. Body(n)
  BY ONLY <1>2, <1>4, <1>5 DEF Body, PassOps, TailOps
<1>7. \A b \in BOOLEAN : LaterList(n, b)
  BY ONLY <1>2, <1>4, <1>5 DEF LaterList, TailOps
<1>8. MonitorList(n)
  BY ONLY <1>2, <1>4, <1>5 DEF MonitorList, TailOps
<1> QED BY <1>1, <1>2, <1>3, <1>4, <1>6, <1>7, <1>8

\* The list of the end of a pass.
LEMMA PassedList ==
  ASSUME NEW k \in Ending
  PROVE  /\ Plan(<<"passed">> \o k) /\ <<"passed">> \o k # <<>> /\ Head(<<"passed">> \o k) = "passed" /\ (<<"passed">> \o k)[1] = "passed"
         /\ Range(<<"passed">> \o k) = {"passed"} \cup Range(k)
         /\ Body(<<"passed">> \o k)
         /\ ~AliveList(<<"passed">> \o k)
<1>1. PICK a \in Seq(Ops) : a = <<"passed">> /\ Len(a) = 1 /\ Range(a) = {"passed"}
         /\ a[1] = "passed"
  <2>1. <<"passed">> \in Seq(Ops)
    BY DEF Ops, Sections, Inner, Locking, Later, Firsts, TailOps
  <2>2. Range(<<"passed">>) = {"passed"}
    BY DEF Range
  <2> QED BY <2>1, <2>2
<1>2. PICK n \in Seq(Ops) : n = a \o k /\ Len(n) = 1 + Len(k) /\ Range(n) = {"passed"} \cup Range(k)
         /\ n[1] = "passed"
         /\ \A i \in 1 .. Len(k) : n[1 + i] = k[i]
  <2>1. k \in Seq(Ops)
    BY EndingType
  <2>2. /\ a \o k \in Seq(Ops) /\ Len(a \o k) = Len(a) + Len(k) /\ Range(a \o k) = Range(a) \cup Range(k)
        /\ \A i \in 1 .. Len(a) : (a \o k)[i] = a[i]
        /\ \A i \in 1 .. Len(k) : (a \o k)[Len(a) + i] = k[i]
    BY <2>1, Joined
  <2>3. PICK n \in Seq(Ops) : n = a \o k
    BY <2>2
  <2>4. n[1] = a[1]
    BY <1>1, <2>2, <2>3
  <2>5. \A i \in 1 .. Len(k) : n[1 + i] = k[i]
    BY <1>1, <2>2, <2>3
  <2> QED BY <1>1, <2>2, <2>3, <2>4, <2>5
<1>3. Plan(n)
  <2>1. CASE k = <<>>
    <3>1. n = <<"passed">>
      BY <1>2, <2>1
    <3> QED BY ONLY <3>1 DEF Plan, Sound, Ends, Ops, Sections, Inner, Locking, StopOps, Later, Firsts, TailOps, Sequels
  <2>2. CASE k = <<"guard", "bp_off", "unguard">>
    <3>1. Len(k) = 3 /\ k[1] = "guard" /\ k[2] = "bp_off" /\ k[3] = "unguard"
      BY <2>2
    <3>2. Len(n) = 4 /\ n[1 + 1] = k[1] /\ n[1 + 2] = k[2] /\ n[1 + 3] = k[3]
      BY ONLY <1>2, <3>1
    <3>3. n = <<"passed", "guard", "bp_off", "unguard">>
      <4>1. n \in Seq(Ops) /\ n[1] = "passed" /\ n[2] = "guard" /\ n[3] = "bp_off" /\ n[4] = "unguard" /\ Len(n) = 4
        BY <1>2, <3>1, <3>2
      <4> QED BY ONLY <4>1
    <3> QED BY ONLY <3>3 DEF Plan, Sound, Ends, Ops, Sections, Inner, Locking, StopOps, Later, Firsts, TailOps, Sequels
  <2>3. CASE k = <<"unconsumed", "last">>
    <3>1. Len(k) = 2 /\ k[1] = "unconsumed" /\ k[2] = "last"
      BY <2>3
    <3>2. Len(n) = 3 /\ n[1 + 1] = k[1] /\ n[1 + 2] = k[2]
      BY ONLY <1>2, <3>1
    <3>3. n = <<"passed", "unconsumed", "last">>
      <4>1. n \in Seq(Ops) /\ n[1] = "passed" /\ n[2] = "unconsumed" /\ n[3] = "last" /\ Len(n) = 3
        BY <1>2, <3>1, <3>2
      <4> QED BY ONLY <4>1
    <3> QED BY ONLY <3>3 DEF Plan, Sound, Ends, Ops, Sections, Inner, Locking, StopOps, Later, Firsts, TailOps, Sequels
  <2> QED BY <2>1, <2>2, <2>3 DEF Ending
<1>4. n # <<>> /\ Len(n) >= 1 /\ Head(n) = n[1]
  <2>1. Len(k) \in Nat
    BY EndingType, Listed
  <2>2. Len(n) >= 1
    BY <1>2, <2>1
  <2> QED BY <2>2, Listed, Shifted
<1>5. Range(k) \subseteq TailOps /\ ("guard" \in Range(k) <=> "unguard" \in Range(k))
  BY EndingType
<1>6. Body(n)
  BY ONLY <1>2, <1>4, <1>5 DEF Body, PassOps, TailOps
<1>7. ~AliveList(n)
  BY ONLY <1>2, <1>4, <1>5 DEF AliveList, TailOps
<1> QED BY <1>1, <1>2, <1>3, <1>4, <1>6, <1>7

\* The list of the end of a pass that stops the capture.
LEMMA StoppedList ==
  ASSUME NEW k \in Ending
  PROVE  /\ Plan(<<"stop", "release", "passed">> \o k) /\ <<"stop", "release", "passed">> \o k # <<>> /\ Head(<<"stop", "release", "passed">> \o k) = "stop" /\ (<<"stop", "release", "passed">> \o k)[1] = "stop"
         /\ Range(<<"stop", "release", "passed">> \o k) = {"stop", "release", "passed"} \cup Range(k)
         /\ Body(<<"stop", "release", "passed">> \o k)
<1>1. PICK a \in Seq(Ops) : a = <<"stop", "release", "passed">> /\ Len(a) = 3 /\ Range(a) = {"stop", "release", "passed"}
         /\ a[1] = "stop" /\ a[2] = "release" /\ a[3] = "passed"
  <2>1. <<"stop", "release", "passed">> \in Seq(Ops)
    BY DEF Ops, Sections, Inner, Locking, Later, Firsts, TailOps
  <2>2. Range(<<"stop", "release", "passed">>) = {"stop", "release", "passed"}
    BY DEF Range
  <2> QED BY <2>1, <2>2
<1>2. PICK n \in Seq(Ops) : n = a \o k /\ Len(n) = 3 + Len(k) /\ Range(n) = {"stop", "release", "passed"} \cup Range(k)
         /\ n[1] = "stop" /\ n[2] = "release" /\ n[3] = "passed"
         /\ \A i \in 1 .. Len(k) : n[3 + i] = k[i]
  <2>1. k \in Seq(Ops)
    BY EndingType
  <2>2. /\ a \o k \in Seq(Ops) /\ Len(a \o k) = Len(a) + Len(k) /\ Range(a \o k) = Range(a) \cup Range(k)
        /\ \A i \in 1 .. Len(a) : (a \o k)[i] = a[i]
        /\ \A i \in 1 .. Len(k) : (a \o k)[Len(a) + i] = k[i]
    BY <2>1, Joined
  <2>3. PICK n \in Seq(Ops) : n = a \o k
    BY <2>2
  <2>4. n[1] = a[1] /\ n[2] = a[2] /\ n[3] = a[3]
    BY <1>1, <2>2, <2>3
  <2>5. \A i \in 1 .. Len(k) : n[3 + i] = k[i]
    BY <1>1, <2>2, <2>3
  <2> QED BY <1>1, <2>2, <2>3, <2>4, <2>5
<1>3. Plan(n)
  <2>1. CASE k = <<>>
    <3>1. n = <<"stop", "release", "passed">>
      BY <1>2, <2>1
    <3> QED BY ONLY <3>1 DEF Plan, Sound, Ends, Ops, Sections, Inner, Locking, StopOps, Later, Firsts, TailOps, Sequels
  <2>2. CASE k = <<"guard", "bp_off", "unguard">>
    <3>1. Len(k) = 3 /\ k[1] = "guard" /\ k[2] = "bp_off" /\ k[3] = "unguard"
      BY <2>2
    <3>2. Len(n) = 6 /\ n[3 + 1] = k[1] /\ n[3 + 2] = k[2] /\ n[3 + 3] = k[3]
      BY ONLY <1>2, <3>1
    <3>3. n = <<"stop", "release", "passed", "guard", "bp_off", "unguard">>
      <4>1. n \in Seq(Ops) /\ n[1] = "stop" /\ n[2] = "release" /\ n[3] = "passed" /\ n[4] = "guard" /\ n[5] = "bp_off" /\ n[6] = "unguard" /\ Len(n) = 6
        BY <1>2, <3>1, <3>2
      <4> QED BY ONLY <4>1
    <3> QED BY ONLY <3>3 DEF Plan, Sound, Ends, Ops, Sections, Inner, Locking, StopOps, Later, Firsts, TailOps, Sequels
  <2>3. CASE k = <<"unconsumed", "last">>
    <3>1. Len(k) = 2 /\ k[1] = "unconsumed" /\ k[2] = "last"
      BY <2>3
    <3>2. Len(n) = 5 /\ n[3 + 1] = k[1] /\ n[3 + 2] = k[2]
      BY ONLY <1>2, <3>1
    <3>3. n = <<"stop", "release", "passed", "unconsumed", "last">>
      <4>1. n \in Seq(Ops) /\ n[1] = "stop" /\ n[2] = "release" /\ n[3] = "passed" /\ n[4] = "unconsumed" /\ n[5] = "last" /\ Len(n) = 5
        BY <1>2, <3>1, <3>2
      <4> QED BY ONLY <4>1
    <3> QED BY ONLY <3>3 DEF Plan, Sound, Ends, Ops, Sections, Inner, Locking, StopOps, Later, Firsts, TailOps, Sequels
  <2> QED BY <2>1, <2>2, <2>3 DEF Ending
<1>4. n # <<>> /\ Len(n) >= 3 /\ Head(n) = n[1]
  <2>1. Len(k) \in Nat
    BY EndingType, Listed
  <2>2. Len(n) >= 3
    BY <1>2, <2>1
  <2> QED BY <2>2, Listed, Shifted
<1>5. Range(k) \subseteq TailOps /\ ("guard" \in Range(k) <=> "unguard" \in Range(k))
  BY EndingType
<1>6. Body(n)
  BY ONLY <1>2, <1>4, <1>5 DEF Body, PassOps, TailOps
<1> QED BY <1>1, <1>2, <1>3, <1>4, <1>6

\* The list of a pass that judges the capture.
LEMMA JudgeList ==
  ASSUME NEW k \in Ending
  PROVE  /\ Plan(<<"judge", "release", "outputs">> \o k) /\ <<"judge", "release", "outputs">> \o k # <<>> /\ Head(<<"judge", "release", "outputs">> \o k) = "judge" /\ (<<"judge", "release", "outputs">> \o k)[1] = "judge"
         /\ Range(<<"judge", "release", "outputs">> \o k) = {"judge", "release", "outputs"} \cup Range(k)
         /\ Body(<<"judge", "release", "outputs">> \o k)
         /\ NowList(<<"judge", "release", "outputs">> \o k)
         /\ ~BareList(<<"judge", "release", "outputs">> \o k)
         /\ MonitorList(<<"judge", "release", "outputs">> \o k)
<1>1. PICK a \in Seq(Ops) : a = <<"judge", "release", "outputs">> /\ Len(a) = 3 /\ Range(a) = {"judge", "release", "outputs"}
         /\ a[1] = "judge" /\ a[2] = "release" /\ a[3] = "outputs"
  <2>1. <<"judge", "release", "outputs">> \in Seq(Ops)
    BY DEF Ops, Sections, Inner, Locking, Later, Firsts, TailOps
  <2>2. Range(<<"judge", "release", "outputs">>) = {"judge", "release", "outputs"}
    BY DEF Range
  <2> QED BY <2>1, <2>2
<1>2. PICK n \in Seq(Ops) : n = a \o k /\ Len(n) = 3 + Len(k) /\ Range(n) = {"judge", "release", "outputs"} \cup Range(k)
         /\ n[1] = "judge" /\ n[2] = "release" /\ n[3] = "outputs"
         /\ \A i \in 1 .. Len(k) : n[3 + i] = k[i]
  <2>1. k \in Seq(Ops)
    BY EndingType
  <2>2. /\ a \o k \in Seq(Ops) /\ Len(a \o k) = Len(a) + Len(k) /\ Range(a \o k) = Range(a) \cup Range(k)
        /\ \A i \in 1 .. Len(a) : (a \o k)[i] = a[i]
        /\ \A i \in 1 .. Len(k) : (a \o k)[Len(a) + i] = k[i]
    BY <2>1, Joined
  <2>3. PICK n \in Seq(Ops) : n = a \o k
    BY <2>2
  <2>4. n[1] = a[1] /\ n[2] = a[2] /\ n[3] = a[3]
    BY <1>1, <2>2, <2>3
  <2>5. \A i \in 1 .. Len(k) : n[3 + i] = k[i]
    BY <1>1, <2>2, <2>3
  <2> QED BY <1>1, <2>2, <2>3, <2>4, <2>5
<1>3. Plan(n)
  <2>1. CASE k = <<>>
    <3>1. n = <<"judge", "release", "outputs">>
      BY <1>2, <2>1
    <3> QED BY ONLY <3>1 DEF Plan, Sound, Ends, Ops, Sections, Inner, Locking, StopOps, Later, Firsts, TailOps, Sequels
  <2>2. CASE k = <<"guard", "bp_off", "unguard">>
    <3>1. Len(k) = 3 /\ k[1] = "guard" /\ k[2] = "bp_off" /\ k[3] = "unguard"
      BY <2>2
    <3>2. Len(n) = 6 /\ n[3 + 1] = k[1] /\ n[3 + 2] = k[2] /\ n[3 + 3] = k[3]
      BY ONLY <1>2, <3>1
    <3>3. n = <<"judge", "release", "outputs", "guard", "bp_off", "unguard">>
      <4>1. n \in Seq(Ops) /\ n[1] = "judge" /\ n[2] = "release" /\ n[3] = "outputs" /\ n[4] = "guard" /\ n[5] = "bp_off" /\ n[6] = "unguard" /\ Len(n) = 6
        BY <1>2, <3>1, <3>2
      <4> QED BY ONLY <4>1
    <3> QED BY ONLY <3>3 DEF Plan, Sound, Ends, Ops, Sections, Inner, Locking, StopOps, Later, Firsts, TailOps, Sequels
  <2>3. CASE k = <<"unconsumed", "last">>
    <3>1. Len(k) = 2 /\ k[1] = "unconsumed" /\ k[2] = "last"
      BY <2>3
    <3>2. Len(n) = 5 /\ n[3 + 1] = k[1] /\ n[3 + 2] = k[2]
      BY ONLY <1>2, <3>1
    <3>3. n = <<"judge", "release", "outputs", "unconsumed", "last">>
      <4>1. n \in Seq(Ops) /\ n[1] = "judge" /\ n[2] = "release" /\ n[3] = "outputs" /\ n[4] = "unconsumed" /\ n[5] = "last" /\ Len(n) = 5
        BY <1>2, <3>1, <3>2
      <4> QED BY ONLY <4>1
    <3> QED BY ONLY <3>3 DEF Plan, Sound, Ends, Ops, Sections, Inner, Locking, StopOps, Later, Firsts, TailOps, Sequels
  <2> QED BY <2>1, <2>2, <2>3 DEF Ending
<1>4. n # <<>> /\ Len(n) >= 3 /\ Head(n) = n[1]
  <2>1. Len(k) \in Nat
    BY EndingType, Listed
  <2>2. Len(n) >= 3
    BY <1>2, <2>1
  <2> QED BY <2>2, Listed, Shifted
<1>5. Range(k) \subseteq TailOps /\ ("guard" \in Range(k) <=> "unguard" \in Range(k))
  BY EndingType
<1>6. Body(n)
  BY ONLY <1>2, <1>4, <1>5 DEF Body, PassOps, TailOps
<1>7. NowList(n)
  BY ONLY <1>2, <1>4, <1>5 DEF NowList, TailOps
<1>8. ~BareList(n)
  BY ONLY <1>2, <1>4, <1>5 DEF BareList, TailOps
<1>9. MonitorList(n)
  BY ONLY <1>2, <1>4, <1>5 DEF MonitorList, TailOps
<1> QED BY <1>1, <1>2, <1>3, <1>4, <1>6, <1>7, <1>8, <1>9

\* The list of a pass that stops the capture and goes on.
LEMMA LoopList ==
  ASSUME NEW k \in Ending
  PROVE  /\ Plan(<<"stop", "release", "start_loop">> \o k) /\ <<"stop", "release", "start_loop">> \o k # <<>> /\ Head(<<"stop", "release", "start_loop">> \o k) = "stop" /\ (<<"stop", "release", "start_loop">> \o k)[1] = "stop"
         /\ Range(<<"stop", "release", "start_loop">> \o k) = {"stop", "release", "start_loop"} \cup Range(k)
         /\ Body(<<"stop", "release", "start_loop">> \o k)
         /\ \A b \in BOOLEAN : LaterList(<<"stop", "release", "start_loop">> \o k, b)
         /\ ~BareList(<<"stop", "release", "start_loop">> \o k)
         /\ MonitorList(<<"stop", "release", "start_loop">> \o k)
         /\ AliveList(<<"stop", "release", "start_loop">> \o k)
<1>1. PICK a \in Seq(Ops) : a = <<"stop", "release", "start_loop">> /\ Len(a) = 3 /\ Range(a) = {"stop", "release", "start_loop"}
         /\ a[1] = "stop" /\ a[2] = "release" /\ a[3] = "start_loop"
  <2>1. <<"stop", "release", "start_loop">> \in Seq(Ops)
    BY DEF Ops, Sections, Inner, Locking, Later, Firsts, TailOps
  <2>2. Range(<<"stop", "release", "start_loop">>) = {"stop", "release", "start_loop"}
    BY DEF Range
  <2> QED BY <2>1, <2>2
<1>2. PICK n \in Seq(Ops) : n = a \o k /\ Len(n) = 3 + Len(k) /\ Range(n) = {"stop", "release", "start_loop"} \cup Range(k)
         /\ n[1] = "stop" /\ n[2] = "release" /\ n[3] = "start_loop"
         /\ \A i \in 1 .. Len(k) : n[3 + i] = k[i]
  <2>1. k \in Seq(Ops)
    BY EndingType
  <2>2. /\ a \o k \in Seq(Ops) /\ Len(a \o k) = Len(a) + Len(k) /\ Range(a \o k) = Range(a) \cup Range(k)
        /\ \A i \in 1 .. Len(a) : (a \o k)[i] = a[i]
        /\ \A i \in 1 .. Len(k) : (a \o k)[Len(a) + i] = k[i]
    BY <2>1, Joined
  <2>3. PICK n \in Seq(Ops) : n = a \o k
    BY <2>2
  <2>4. n[1] = a[1] /\ n[2] = a[2] /\ n[3] = a[3]
    BY <1>1, <2>2, <2>3
  <2>5. \A i \in 1 .. Len(k) : n[3 + i] = k[i]
    BY <1>1, <2>2, <2>3
  <2> QED BY <1>1, <2>2, <2>3, <2>4, <2>5
<1>3. Plan(n)
  <2>1. CASE k = <<>>
    <3>1. n = <<"stop", "release", "start_loop">>
      BY <1>2, <2>1
    <3> QED BY ONLY <3>1 DEF Plan, Sound, Ends, Ops, Sections, Inner, Locking, StopOps, Later, Firsts, TailOps, Sequels
  <2>2. CASE k = <<"guard", "bp_off", "unguard">>
    <3>1. Len(k) = 3 /\ k[1] = "guard" /\ k[2] = "bp_off" /\ k[3] = "unguard"
      BY <2>2
    <3>2. Len(n) = 6 /\ n[3 + 1] = k[1] /\ n[3 + 2] = k[2] /\ n[3 + 3] = k[3]
      BY ONLY <1>2, <3>1
    <3>3. n = <<"stop", "release", "start_loop", "guard", "bp_off", "unguard">>
      <4>1. n \in Seq(Ops) /\ n[1] = "stop" /\ n[2] = "release" /\ n[3] = "start_loop" /\ n[4] = "guard" /\ n[5] = "bp_off" /\ n[6] = "unguard" /\ Len(n) = 6
        BY <1>2, <3>1, <3>2
      <4> QED BY ONLY <4>1
    <3> QED BY ONLY <3>3 DEF Plan, Sound, Ends, Ops, Sections, Inner, Locking, StopOps, Later, Firsts, TailOps, Sequels
  <2>3. CASE k = <<"unconsumed", "last">>
    <3>1. Len(k) = 2 /\ k[1] = "unconsumed" /\ k[2] = "last"
      BY <2>3
    <3>2. Len(n) = 5 /\ n[3 + 1] = k[1] /\ n[3 + 2] = k[2]
      BY ONLY <1>2, <3>1
    <3>3. n = <<"stop", "release", "start_loop", "unconsumed", "last">>
      <4>1. n \in Seq(Ops) /\ n[1] = "stop" /\ n[2] = "release" /\ n[3] = "start_loop" /\ n[4] = "unconsumed" /\ n[5] = "last" /\ Len(n) = 5
        BY <1>2, <3>1, <3>2
      <4> QED BY ONLY <4>1
    <3> QED BY ONLY <3>3 DEF Plan, Sound, Ends, Ops, Sections, Inner, Locking, StopOps, Later, Firsts, TailOps, Sequels
  <2> QED BY <2>1, <2>2, <2>3 DEF Ending
<1>4. n # <<>> /\ Len(n) >= 3 /\ Head(n) = n[1]
  <2>1. Len(k) \in Nat
    BY EndingType, Listed
  <2>2. Len(n) >= 3
    BY <1>2, <2>1
  <2> QED BY <2>2, Listed, Shifted
<1>5. Range(k) \subseteq TailOps /\ ("guard" \in Range(k) <=> "unguard" \in Range(k))
  BY EndingType
<1>6. Body(n)
  BY ONLY <1>2, <1>4, <1>5 DEF Body, PassOps, TailOps
<1>7. \A b \in BOOLEAN : LaterList(n, b)
  BY ONLY <1>2, <1>4, <1>5 DEF LaterList, TailOps
<1>8. ~BareList(n)
  BY ONLY <1>2, <1>4, <1>5 DEF BareList, TailOps
<1>9. MonitorList(n)
  BY ONLY <1>2, <1>4, <1>5 DEF MonitorList, TailOps
<1>10. AliveList(n)
  BY ONLY <1>2, <1>4, <1>5 DEF AliveList, TailOps
<1> QED BY <1>1, <1>2, <1>3, <1>4, <1>6, <1>7, <1>8, <1>9, <1>10

\* The list of a pass that starts the capture.
LEMMA StartList ==
  ASSUME NEW k \in Ending
  PROVE  /\ Plan(<<"start", "release", "bp", "followed">> \o k) /\ <<"start", "release", "bp", "followed">> \o k # <<>> /\ Head(<<"start", "release", "bp", "followed">> \o k) = "start" /\ (<<"start", "release", "bp", "followed">> \o k)[1] = "start"
         /\ Range(<<"start", "release", "bp", "followed">> \o k) = {"start", "release", "bp", "followed"} \cup Range(k)
         /\ Body(<<"start", "release", "bp", "followed">> \o k)
         /\ NowList(<<"start", "release", "bp", "followed">> \o k)
         /\ ~BareList(<<"start", "release", "bp", "followed">> \o k)
         /\ MonitorList(<<"start", "release", "bp", "followed">> \o k)
         /\ ~LaterList(<<"start", "release", "bp", "followed">> \o k, FALSE)
<1>1. PICK a \in Seq(Ops) : a = <<"start", "release", "bp", "followed">> /\ Len(a) = 4 /\ Range(a) = {"start", "release", "bp", "followed"}
         /\ a[1] = "start" /\ a[2] = "release" /\ a[3] = "bp" /\ a[4] = "followed"
  <2>1. <<"start", "release", "bp", "followed">> \in Seq(Ops)
    BY DEF Ops, Sections, Inner, Locking, Later, Firsts, TailOps
  <2>2. Range(<<"start", "release", "bp", "followed">>) = {"start", "release", "bp", "followed"}
    BY DEF Range
  <2> QED BY <2>1, <2>2
<1>2. PICK n \in Seq(Ops) : n = a \o k /\ Len(n) = 4 + Len(k) /\ Range(n) = {"start", "release", "bp", "followed"} \cup Range(k)
         /\ n[1] = "start" /\ n[2] = "release" /\ n[3] = "bp" /\ n[4] = "followed"
         /\ \A i \in 1 .. Len(k) : n[4 + i] = k[i]
  <2>1. k \in Seq(Ops)
    BY EndingType
  <2>2. /\ a \o k \in Seq(Ops) /\ Len(a \o k) = Len(a) + Len(k) /\ Range(a \o k) = Range(a) \cup Range(k)
        /\ \A i \in 1 .. Len(a) : (a \o k)[i] = a[i]
        /\ \A i \in 1 .. Len(k) : (a \o k)[Len(a) + i] = k[i]
    BY <2>1, Joined
  <2>3. PICK n \in Seq(Ops) : n = a \o k
    BY <2>2
  <2>4. n[1] = a[1] /\ n[2] = a[2] /\ n[3] = a[3] /\ n[4] = a[4]
    BY <1>1, <2>2, <2>3
  <2>5. \A i \in 1 .. Len(k) : n[4 + i] = k[i]
    BY <1>1, <2>2, <2>3
  <2> QED BY <1>1, <2>2, <2>3, <2>4, <2>5
<1>3. Plan(n)
  <2>1. CASE k = <<>>
    <3>1. n = <<"start", "release", "bp", "followed">>
      BY <1>2, <2>1
    <3> QED BY ONLY <3>1 DEF Plan, Sound, Ends, Ops, Sections, Inner, Locking, StopOps, Later, Firsts, TailOps, Sequels
  <2>2. CASE k = <<"guard", "bp_off", "unguard">>
    <3>1. Len(k) = 3 /\ k[1] = "guard" /\ k[2] = "bp_off" /\ k[3] = "unguard"
      BY <2>2
    <3>2. Len(n) = 7 /\ n[4 + 1] = k[1] /\ n[4 + 2] = k[2] /\ n[4 + 3] = k[3]
      BY ONLY <1>2, <3>1
    <3>3. n = <<"start", "release", "bp", "followed", "guard", "bp_off", "unguard">>
      <4>1. n \in Seq(Ops) /\ n[1] = "start" /\ n[2] = "release" /\ n[3] = "bp" /\ n[4] = "followed" /\ n[5] = "guard" /\ n[6] = "bp_off" /\ n[7] = "unguard" /\ Len(n) = 7
        BY <1>2, <3>1, <3>2
      <4> QED BY ONLY <4>1
    <3> QED BY ONLY <3>3 DEF Plan, Sound, Ends, Ops, Sections, Inner, Locking, StopOps, Later, Firsts, TailOps, Sequels
  <2>3. CASE k = <<"unconsumed", "last">>
    <3>1. Len(k) = 2 /\ k[1] = "unconsumed" /\ k[2] = "last"
      BY <2>3
    <3>2. Len(n) = 6 /\ n[4 + 1] = k[1] /\ n[4 + 2] = k[2]
      BY ONLY <1>2, <3>1
    <3>3. n = <<"start", "release", "bp", "followed", "unconsumed", "last">>
      <4>1. n \in Seq(Ops) /\ n[1] = "start" /\ n[2] = "release" /\ n[3] = "bp" /\ n[4] = "followed" /\ n[5] = "unconsumed" /\ n[6] = "last" /\ Len(n) = 6
        BY <1>2, <3>1, <3>2
      <4> QED BY ONLY <4>1
    <3> QED BY ONLY <3>3 DEF Plan, Sound, Ends, Ops, Sections, Inner, Locking, StopOps, Later, Firsts, TailOps, Sequels
  <2> QED BY <2>1, <2>2, <2>3 DEF Ending
<1>4. n # <<>> /\ Len(n) >= 4 /\ Head(n) = n[1]
  <2>1. Len(k) \in Nat
    BY EndingType, Listed
  <2>2. Len(n) >= 4
    BY <1>2, <2>1
  <2> QED BY <2>2, Listed, Shifted
<1>5. Range(k) \subseteq TailOps /\ ("guard" \in Range(k) <=> "unguard" \in Range(k))
  BY EndingType
<1>6. Body(n)
  BY ONLY <1>2, <1>4, <1>5 DEF Body, PassOps, TailOps
<1>7. NowList(n)
  BY ONLY <1>2, <1>4, <1>5 DEF NowList, TailOps
<1>8. ~BareList(n)
  BY ONLY <1>2, <1>4, <1>5 DEF BareList, TailOps
<1>9. MonitorList(n)
  BY ONLY <1>2, <1>4, <1>5 DEF MonitorList, TailOps
<1>10. ~LaterList(n, FALSE)
  BY ONLY <1>2, <1>4, <1>5 DEF LaterList, TailOps
<1> QED BY <1>1, <1>2, <1>3, <1>4, <1>6, <1>7, <1>8, <1>9, <1>10

\* The list of a pass that leaves the capture running.
LEMMA FollowList ==
  ASSUME NEW k \in Ending
  PROVE  /\ Plan(<<"bp", "followed">> \o k) /\ <<"bp", "followed">> \o k # <<>> /\ Head(<<"bp", "followed">> \o k) = "bp" /\ (<<"bp", "followed">> \o k)[1] = "bp"
         /\ Range(<<"bp", "followed">> \o k) = {"bp", "followed"} \cup Range(k)
         /\ Body(<<"bp", "followed">> \o k)
         /\ ~BareList(<<"bp", "followed">> \o k)
         /\ MonitorList(<<"bp", "followed">> \o k)
<1>1. PICK a \in Seq(Ops) : a = <<"bp", "followed">> /\ Len(a) = 2 /\ Range(a) = {"bp", "followed"}
         /\ a[1] = "bp" /\ a[2] = "followed"
  <2>1. <<"bp", "followed">> \in Seq(Ops)
    BY DEF Ops, Sections, Inner, Locking, Later, Firsts, TailOps
  <2>2. Range(<<"bp", "followed">>) = {"bp", "followed"}
    BY DEF Range
  <2> QED BY <2>1, <2>2
<1>2. PICK n \in Seq(Ops) : n = a \o k /\ Len(n) = 2 + Len(k) /\ Range(n) = {"bp", "followed"} \cup Range(k)
         /\ n[1] = "bp" /\ n[2] = "followed"
         /\ \A i \in 1 .. Len(k) : n[2 + i] = k[i]
  <2>1. k \in Seq(Ops)
    BY EndingType
  <2>2. /\ a \o k \in Seq(Ops) /\ Len(a \o k) = Len(a) + Len(k) /\ Range(a \o k) = Range(a) \cup Range(k)
        /\ \A i \in 1 .. Len(a) : (a \o k)[i] = a[i]
        /\ \A i \in 1 .. Len(k) : (a \o k)[Len(a) + i] = k[i]
    BY <2>1, Joined
  <2>3. PICK n \in Seq(Ops) : n = a \o k
    BY <2>2
  <2>4. n[1] = a[1] /\ n[2] = a[2]
    BY <1>1, <2>2, <2>3
  <2>5. \A i \in 1 .. Len(k) : n[2 + i] = k[i]
    BY <1>1, <2>2, <2>3
  <2> QED BY <1>1, <2>2, <2>3, <2>4, <2>5
<1>3. Plan(n)
  <2>1. CASE k = <<>>
    <3>1. n = <<"bp", "followed">>
      BY <1>2, <2>1
    <3> QED BY ONLY <3>1 DEF Plan, Sound, Ends, Ops, Sections, Inner, Locking, StopOps, Later, Firsts, TailOps, Sequels
  <2>2. CASE k = <<"guard", "bp_off", "unguard">>
    <3>1. Len(k) = 3 /\ k[1] = "guard" /\ k[2] = "bp_off" /\ k[3] = "unguard"
      BY <2>2
    <3>2. Len(n) = 5 /\ n[2 + 1] = k[1] /\ n[2 + 2] = k[2] /\ n[2 + 3] = k[3]
      BY ONLY <1>2, <3>1
    <3>3. n = <<"bp", "followed", "guard", "bp_off", "unguard">>
      <4>1. n \in Seq(Ops) /\ n[1] = "bp" /\ n[2] = "followed" /\ n[3] = "guard" /\ n[4] = "bp_off" /\ n[5] = "unguard" /\ Len(n) = 5
        BY <1>2, <3>1, <3>2
      <4> QED BY ONLY <4>1
    <3> QED BY ONLY <3>3 DEF Plan, Sound, Ends, Ops, Sections, Inner, Locking, StopOps, Later, Firsts, TailOps, Sequels
  <2>3. CASE k = <<"unconsumed", "last">>
    <3>1. Len(k) = 2 /\ k[1] = "unconsumed" /\ k[2] = "last"
      BY <2>3
    <3>2. Len(n) = 4 /\ n[2 + 1] = k[1] /\ n[2 + 2] = k[2]
      BY ONLY <1>2, <3>1
    <3>3. n = <<"bp", "followed", "unconsumed", "last">>
      <4>1. n \in Seq(Ops) /\ n[1] = "bp" /\ n[2] = "followed" /\ n[3] = "unconsumed" /\ n[4] = "last" /\ Len(n) = 4
        BY <1>2, <3>1, <3>2
      <4> QED BY ONLY <4>1
    <3> QED BY ONLY <3>3 DEF Plan, Sound, Ends, Ops, Sections, Inner, Locking, StopOps, Later, Firsts, TailOps, Sequels
  <2> QED BY <2>1, <2>2, <2>3 DEF Ending
<1>4. n # <<>> /\ Len(n) >= 2 /\ Head(n) = n[1]
  <2>1. Len(k) \in Nat
    BY EndingType, Listed
  <2>2. Len(n) >= 2
    BY <1>2, <2>1
  <2> QED BY <2>2, Listed, Shifted
<1>5. Range(k) \subseteq TailOps /\ ("guard" \in Range(k) <=> "unguard" \in Range(k))
  BY EndingType
<1>6. Body(n)
  BY ONLY <1>2, <1>4, <1>5 DEF Body, PassOps, TailOps
<1>7. ~BareList(n)
  BY ONLY <1>2, <1>4, <1>5 DEF BareList, TailOps
<1>8. MonitorList(n)
  BY ONLY <1>2, <1>4, <1>5 DEF MonitorList, TailOps
<1> QED BY <1>1, <1>2, <1>3, <1>4, <1>6, <1>7, <1>8

\* The list of a pass that starts the live capture again.
LEMMA ReliveList ==
  ASSUME NEW k \in Ending
  PROVE  /\ Plan(<<"relive", "release", "bp", "followed">> \o k) /\ <<"relive", "release", "bp", "followed">> \o k # <<>> /\ Head(<<"relive", "release", "bp", "followed">> \o k) = "relive" /\ (<<"relive", "release", "bp", "followed">> \o k)[1] = "relive"
         /\ Range(<<"relive", "release", "bp", "followed">> \o k) = {"relive", "release", "bp", "followed"} \cup Range(k)
         /\ Body(<<"relive", "release", "bp", "followed">> \o k)
         /\ ~BareList(<<"relive", "release", "bp", "followed">> \o k)
         /\ MonitorList(<<"relive", "release", "bp", "followed">> \o k)
<1>1. PICK a \in Seq(Ops) : a = <<"relive", "release", "bp", "followed">> /\ Len(a) = 4 /\ Range(a) = {"relive", "release", "bp", "followed"}
         /\ a[1] = "relive" /\ a[2] = "release" /\ a[3] = "bp" /\ a[4] = "followed"
  <2>1. <<"relive", "release", "bp", "followed">> \in Seq(Ops)
    BY DEF Ops, Sections, Inner, Locking, Later, Firsts, TailOps
  <2>2. Range(<<"relive", "release", "bp", "followed">>) = {"relive", "release", "bp", "followed"}
    BY DEF Range
  <2> QED BY <2>1, <2>2
<1>2. PICK n \in Seq(Ops) : n = a \o k /\ Len(n) = 4 + Len(k) /\ Range(n) = {"relive", "release", "bp", "followed"} \cup Range(k)
         /\ n[1] = "relive" /\ n[2] = "release" /\ n[3] = "bp" /\ n[4] = "followed"
         /\ \A i \in 1 .. Len(k) : n[4 + i] = k[i]
  <2>1. k \in Seq(Ops)
    BY EndingType
  <2>2. /\ a \o k \in Seq(Ops) /\ Len(a \o k) = Len(a) + Len(k) /\ Range(a \o k) = Range(a) \cup Range(k)
        /\ \A i \in 1 .. Len(a) : (a \o k)[i] = a[i]
        /\ \A i \in 1 .. Len(k) : (a \o k)[Len(a) + i] = k[i]
    BY <2>1, Joined
  <2>3. PICK n \in Seq(Ops) : n = a \o k
    BY <2>2
  <2>4. n[1] = a[1] /\ n[2] = a[2] /\ n[3] = a[3] /\ n[4] = a[4]
    BY <1>1, <2>2, <2>3
  <2>5. \A i \in 1 .. Len(k) : n[4 + i] = k[i]
    BY <1>1, <2>2, <2>3
  <2> QED BY <1>1, <2>2, <2>3, <2>4, <2>5
<1>3. Plan(n)
  <2>1. CASE k = <<>>
    <3>1. n = <<"relive", "release", "bp", "followed">>
      BY <1>2, <2>1
    <3> QED BY ONLY <3>1 DEF Plan, Sound, Ends, Ops, Sections, Inner, Locking, StopOps, Later, Firsts, TailOps, Sequels
  <2>2. CASE k = <<"guard", "bp_off", "unguard">>
    <3>1. Len(k) = 3 /\ k[1] = "guard" /\ k[2] = "bp_off" /\ k[3] = "unguard"
      BY <2>2
    <3>2. Len(n) = 7 /\ n[4 + 1] = k[1] /\ n[4 + 2] = k[2] /\ n[4 + 3] = k[3]
      BY ONLY <1>2, <3>1
    <3>3. n = <<"relive", "release", "bp", "followed", "guard", "bp_off", "unguard">>
      <4>1. n \in Seq(Ops) /\ n[1] = "relive" /\ n[2] = "release" /\ n[3] = "bp" /\ n[4] = "followed" /\ n[5] = "guard" /\ n[6] = "bp_off" /\ n[7] = "unguard" /\ Len(n) = 7
        BY <1>2, <3>1, <3>2
      <4> QED BY ONLY <4>1
    <3> QED BY ONLY <3>3 DEF Plan, Sound, Ends, Ops, Sections, Inner, Locking, StopOps, Later, Firsts, TailOps, Sequels
  <2>3. CASE k = <<"unconsumed", "last">>
    <3>1. Len(k) = 2 /\ k[1] = "unconsumed" /\ k[2] = "last"
      BY <2>3
    <3>2. Len(n) = 6 /\ n[4 + 1] = k[1] /\ n[4 + 2] = k[2]
      BY ONLY <1>2, <3>1
    <3>3. n = <<"relive", "release", "bp", "followed", "unconsumed", "last">>
      <4>1. n \in Seq(Ops) /\ n[1] = "relive" /\ n[2] = "release" /\ n[3] = "bp" /\ n[4] = "followed" /\ n[5] = "unconsumed" /\ n[6] = "last" /\ Len(n) = 6
        BY <1>2, <3>1, <3>2
      <4> QED BY ONLY <4>1
    <3> QED BY ONLY <3>3 DEF Plan, Sound, Ends, Ops, Sections, Inner, Locking, StopOps, Later, Firsts, TailOps, Sequels
  <2> QED BY <2>1, <2>2, <2>3 DEF Ending
<1>4. n # <<>> /\ Len(n) >= 4 /\ Head(n) = n[1]
  <2>1. Len(k) \in Nat
    BY EndingType, Listed
  <2>2. Len(n) >= 4
    BY <1>2, <2>1
  <2> QED BY <2>2, Listed, Shifted
<1>5. Range(k) \subseteq TailOps /\ ("guard" \in Range(k) <=> "unguard" \in Range(k))
  BY EndingType
<1>6. Body(n)
  BY ONLY <1>2, <1>4, <1>5 DEF Body, PassOps, TailOps
<1>7. ~BareList(n)
  BY ONLY <1>2, <1>4, <1>5 DEF BareList, TailOps
<1>8. MonitorList(n)
  BY ONLY <1>2, <1>4, <1>5 DEF MonitorList, TailOps
<1> QED BY <1>1, <1>2, <1>3, <1>4, <1>6, <1>7, <1>8

\* A stop before a start, in one section.
LEMMA Rebuilding ==
  ASSUME NEW s, Plan(s), s # <<>>, s[1] = "start", NEW h \in {"stop_bp", "stop_native"}
  PROVE  /\ Plan(<<h>> \o s) /\ <<h>> \o s # <<>> /\ Head(<<h>> \o s) = h
         /\ (<<h>> \o s)[1] = h /\ (<<h>> \o s)[2] = "start" /\ (<<h>> \o s)[3] = "release"
         /\ Len(<<h>> \o s) >= 3
         /\ Range(<<h>> \o s) = {h} \cup Range(s)
<1>1. s \in Seq(Ops) /\ s \in StartPlans("start")
  BY StartPlan DEF Plan
<1>2. PICK a \in Seq(Ops) : a = <<h>> /\ Len(a) = 1 /\ Range(a) = {h} /\ a[1] = h
  <2>1. <<h>> \in Seq(Ops) /\ Range(<<h>>) = {h}
    BY DEF Ops, Sections, Inner, Range
  <2> QED BY <2>1
<1>3. PICK n \in Seq(Ops) : /\ n = a \o s /\ Len(n) = 1 + Len(s) /\ Range(n) = {h} \cup Range(s) /\ n[1] = h
                             /\ \A i \in 1 .. Len(s) : n[1 + i] = s[i]
  <2>1. /\ a \o s \in Seq(Ops) /\ Len(a \o s) = Len(a) + Len(s) /\ Range(a \o s) = Range(a) \cup Range(s)
        /\ \A i \in 1 .. Len(a) : (a \o s)[i] = a[i]
        /\ \A i \in 1 .. Len(s) : (a \o s)[Len(a) + i] = s[i]
    BY <1>1, Joined
  <2>2. PICK n \in Seq(Ops) : n = a \o s
    BY <2>1
  <2>3. n[1] = a[1] /\ \A i \in 1 .. Len(s) : n[1 + i] = s[i]
    BY <1>2, <2>1, <2>2
  <2> QED BY <1>2, <2>1, <2>2, <2>3
<1>6. n \in Seq(Ops) /\ Len(n) = 1 + Len(s) /\ n[1] = h /\ \A i \in 1 .. Len(s) : n[1 + i] = s[i]
  BY <1>3
<1>4. Plan(n) /\ n[2] = "start" /\ n[3] = "release" /\ Len(n) >= 3
  <2>1. CASE s = <<"start", "release", "bp">>
    <3>1. Len(s) = 3 /\ s[1] = "start" /\ s[2] = "release" /\ s[3] = "bp"
      BY <2>1
    <3>2. Len(n) = 4 /\ n[1 + 1] = s[1] /\ n[1 + 2] = s[2] /\ n[1 + 3] = s[3]
      BY ONLY <1>6, <3>1
    <3>3. n \in Seq(Ops) /\ n[1] = h /\ n[2] = "start" /\ n[3] = "release" /\ n[4] = "bp" /\ Len(n) = 4
      BY ONLY <1>6, <3>1, <3>2
    <3>4. n = <<h, "start", "release", "bp">>
      BY ONLY <3>3
    <3>5. h \in {"stop_bp", "stop_native"}
      OBVIOUS
    <3>6. Plan(n)
      BY ONLY <3>4, <3>5 DEF Plan, Sound, Ends, Ops, Sections, Inner, Locking, StopOps, Later, Firsts, TailOps, Sequels
    <3> QED BY <3>3, <3>6
  <2>2. CASE s = <<"start", "release", "bp", "unguard">>
    <3>1. Len(s) = 4 /\ s[1] = "start" /\ s[2] = "release" /\ s[3] = "bp" /\ s[4] = "unguard"
      BY <2>2
    <3>2. Len(n) = 5 /\ n[1 + 1] = s[1] /\ n[1 + 2] = s[2] /\ n[1 + 3] = s[3] /\ n[1 + 4] = s[4]
      BY ONLY <1>6, <3>1
    <3>3. n \in Seq(Ops) /\ n[1] = h /\ n[2] = "start" /\ n[3] = "release" /\ n[4] = "bp" /\ n[5] = "unguard" /\ Len(n) = 5
      BY ONLY <1>6, <3>1, <3>2
    <3>4. n = <<h, "start", "release", "bp", "unguard">>
      BY ONLY <3>3
    <3>5. h \in {"stop_bp", "stop_native"}
      OBVIOUS
    <3>6. Plan(n)
      BY ONLY <3>4, <3>5 DEF Plan, Sound, Ends, Ops, Sections, Inner, Locking, StopOps, Later, Firsts, TailOps, Sequels
    <3> QED BY <3>3, <3>6
  <2>3. CASE s = <<"start", "release", "resized">>
    <3>1. Len(s) = 3 /\ s[1] = "start" /\ s[2] = "release" /\ s[3] = "resized"
      BY <2>3
    <3>2. Len(n) = 4 /\ n[1 + 1] = s[1] /\ n[1 + 2] = s[2] /\ n[1 + 3] = s[3]
      BY ONLY <1>6, <3>1
    <3>3. n \in Seq(Ops) /\ n[1] = h /\ n[2] = "start" /\ n[3] = "release" /\ n[4] = "resized" /\ Len(n) = 4
      BY ONLY <1>6, <3>1, <3>2
    <3>4. n = <<h, "start", "release", "resized">>
      BY ONLY <3>3
    <3>5. h \in {"stop_bp", "stop_native"}
      OBVIOUS
    <3>6. Plan(n)
      BY ONLY <3>4, <3>5 DEF Plan, Sound, Ends, Ops, Sections, Inner, Locking, StopOps, Later, Firsts, TailOps, Sequels
    <3> QED BY <3>3, <3>6
  <2>4. CASE s = <<"start", "release", "after_start">>
    <3>1. Len(s) = 3 /\ s[1] = "start" /\ s[2] = "release" /\ s[3] = "after_start"
      BY <2>4
    <3>2. Len(n) = 4 /\ n[1 + 1] = s[1] /\ n[1 + 2] = s[2] /\ n[1 + 3] = s[3]
      BY ONLY <1>6, <3>1
    <3>3. n \in Seq(Ops) /\ n[1] = h /\ n[2] = "start" /\ n[3] = "release" /\ n[4] = "after_start" /\ Len(n) = 4
      BY ONLY <1>6, <3>1, <3>2
    <3>4. n = <<h, "start", "release", "after_start">>
      BY ONLY <3>3
    <3>5. h \in {"stop_bp", "stop_native"}
      OBVIOUS
    <3>6. Plan(n)
      BY ONLY <3>4, <3>5 DEF Plan, Sound, Ends, Ops, Sections, Inner, Locking, StopOps, Later, Firsts, TailOps, Sequels
    <3> QED BY <3>3, <3>6
  <2>5. CASE s = <<"start", "release", "after_rejoin">>
    <3>1. Len(s) = 3 /\ s[1] = "start" /\ s[2] = "release" /\ s[3] = "after_rejoin"
      BY <2>5
    <3>2. Len(n) = 4 /\ n[1 + 1] = s[1] /\ n[1 + 2] = s[2] /\ n[1 + 3] = s[3]
      BY ONLY <1>6, <3>1
    <3>3. n \in Seq(Ops) /\ n[1] = h /\ n[2] = "start" /\ n[3] = "release" /\ n[4] = "after_rejoin" /\ Len(n) = 4
      BY ONLY <1>6, <3>1, <3>2
    <3>4. n = <<h, "start", "release", "after_rejoin">>
      BY ONLY <3>3
    <3>5. h \in {"stop_bp", "stop_native"}
      OBVIOUS
    <3>6. Plan(n)
      BY ONLY <3>4, <3>5 DEF Plan, Sound, Ends, Ops, Sections, Inner, Locking, StopOps, Later, Firsts, TailOps, Sequels
    <3> QED BY <3>3, <3>6
  <2>6. CASE s = <<"start", "release", "bp", "followed">>
    <3>1. Len(s) = 4 /\ s[1] = "start" /\ s[2] = "release" /\ s[3] = "bp" /\ s[4] = "followed"
      BY <2>6
    <3>2. Len(n) = 5 /\ n[1 + 1] = s[1] /\ n[1 + 2] = s[2] /\ n[1 + 3] = s[3] /\ n[1 + 4] = s[4]
      BY ONLY <1>6, <3>1
    <3>3. n \in Seq(Ops) /\ n[1] = h /\ n[2] = "start" /\ n[3] = "release" /\ n[4] = "bp" /\ n[5] = "followed" /\ Len(n) = 5
      BY ONLY <1>6, <3>1, <3>2
    <3>4. n = <<h, "start", "release", "bp", "followed">>
      BY ONLY <3>3
    <3>5. h \in {"stop_bp", "stop_native"}
      OBVIOUS
    <3>6. Plan(n)
      BY ONLY <3>4, <3>5 DEF Plan, Sound, Ends, Ops, Sections, Inner, Locking, StopOps, Later, Firsts, TailOps, Sequels
    <3> QED BY <3>3, <3>6
  <2>7. CASE s = <<"start", "release", "bp", "followed", "guard", "bp_off", "unguard">>
    <3>1. Len(s) = 7 /\ s[1] = "start" /\ s[2] = "release" /\ s[3] = "bp" /\ s[4] = "followed" /\ s[5] = "guard" /\ s[6] = "bp_off" /\ s[7] = "unguard"
      BY <2>7
    <3>2. Len(n) = 8 /\ n[1 + 1] = s[1] /\ n[1 + 2] = s[2] /\ n[1 + 3] = s[3] /\ n[1 + 4] = s[4] /\ n[1 + 5] = s[5] /\ n[1 + 6] = s[6] /\ n[1 + 7] = s[7]
      BY ONLY <1>6, <3>1
    <3>3. n \in Seq(Ops) /\ n[1] = h /\ n[2] = "start" /\ n[3] = "release" /\ n[4] = "bp" /\ n[5] = "followed" /\ n[6] = "guard" /\ n[7] = "bp_off" /\ n[8] = "unguard" /\ Len(n) = 8
      BY ONLY <1>6, <3>1, <3>2
    <3>4. n = <<h, "start", "release", "bp", "followed", "guard", "bp_off", "unguard">>
      BY ONLY <3>3
    <3>5. h \in {"stop_bp", "stop_native"}
      OBVIOUS
    <3>6. Plan(n)
      BY ONLY <3>4, <3>5 DEF Plan, Sound, Ends, Ops, Sections, Inner, Locking, StopOps, Later, Firsts, TailOps, Sequels
    <3> QED BY <3>3, <3>6
  <2>8. CASE s = <<"start", "release", "bp", "followed", "unconsumed", "last">>
    <3>1. Len(s) = 6 /\ s[1] = "start" /\ s[2] = "release" /\ s[3] = "bp" /\ s[4] = "followed" /\ s[5] = "unconsumed" /\ s[6] = "last"
      BY <2>8
    <3>2. Len(n) = 7 /\ n[1 + 1] = s[1] /\ n[1 + 2] = s[2] /\ n[1 + 3] = s[3] /\ n[1 + 4] = s[4] /\ n[1 + 5] = s[5] /\ n[1 + 6] = s[6]
      BY ONLY <1>6, <3>1
    <3>3. n \in Seq(Ops) /\ n[1] = h /\ n[2] = "start" /\ n[3] = "release" /\ n[4] = "bp" /\ n[5] = "followed" /\ n[6] = "unconsumed" /\ n[7] = "last" /\ Len(n) = 7
      BY ONLY <1>6, <3>1, <3>2
    <3>4. n = <<h, "start", "release", "bp", "followed", "unconsumed", "last">>
      BY ONLY <3>3
    <3>5. h \in {"stop_bp", "stop_native"}
      OBVIOUS
    <3>6. Plan(n)
      BY ONLY <3>4, <3>5 DEF Plan, Sound, Ends, Ops, Sections, Inner, Locking, StopOps, Later, Firsts, TailOps, Sequels
    <3> QED BY <3>3, <3>6
  <2> QED BY <1>1, <2>1, <2>2, <2>3, <2>4, <2>5, <2>6, <2>7, <2>8 DEF StartPlans
<1>5. n # <<>> /\ Head(n) = n[1]
  BY <1>6, <1>4, Listed, Shifted
<1> QED BY <1>2, <1>3, <1>4, <1>5

\* What a start leaves to do.
LEMMA Starting ==
  ASSUME NEW s, Plan(s), s # <<>>, s[1] \in {"start", "start_native"}, NEW b \in BOOLEAN,
         NEW o, o = After(Tail(s), b)
  PROVE  /\ s[2] = "release" /\ o \in Seq(Ops) /\ o # <<>> /\ Head(o) = "release"
         /\ Plan(Tail(o)) /\ (Tail(o) # <<>> => Tail(o)[1] \notin Sections)
         /\ Body(Tail(o)) <=> Body(s)
         /\ AliveList(Tail(o)) => AliveList(s)
         /\ \A k \in BOOLEAN : ~LaterList(s, k)
         /\ Range(Tail(o)) \cap {"outputs", "start_loop", "start"} = {}
         /\ MonitorList(s) => MonitorList(Tail(o)) \/ ~b
         /\ b => Tail(o) # <<>> /\ MonitorList(Tail(o))
         /\ Range(s) \subseteq RejoinOps =>
              /\ Range(Tail(o)) \subseteq RejoinOps
              /\ b => Tail(o)[1] = "bp"
<1>1. s \in Seq(Ops) /\ s \in StartPlans(s[1])
  BY StartPlan DEF Plan
<1>2. PICK h \in {"start", "start_native"} : h = s[1]
  OBVIOUS
<1>3. /\ s[3] \notin Sequels => o = Tail(s)
      /\ s[3] \in Sequels => o = AfterThree(s[3], b)
  BY AfterRest
<1>4. PICK r \in Seq(Ops) : r = Tail(s) /\ Len(r) = Len(s) - 1 /\ \A i \in 1 .. (Len(s) - 1) : r[i] = s[i + 1]
  <2>1. /\ Tail(s) \in Seq(Ops) /\ Len(Tail(s)) = Len(s) - 1
        /\ \A i \in 1 .. (Len(s) - 1) : Tail(s)[i] = s[i + 1]
    BY <1>1, Shifted
  <2> QED BY <2>1
<1>6. r \in Seq(Ops) /\ Len(r) = Len(s) - 1 /\ \A i \in 1 .. (Len(s) - 1) : r[i] = s[i + 1]
  BY <1>4
<1> DEFINE Facts(n) ==
         /\ s[2] = "release"
         /\ Plan(n) /\ (n # <<>> => n[1] \notin Sections)
         /\ Body(n) <=> Body(s)
         /\ AliveList(n) => AliveList(s)
         /\ \A k \in BOOLEAN : ~LaterList(s, k)
         /\ Range(n) \cap {"outputs", "start_loop", "start"} = {}
         /\ MonitorList(s) => MonitorList(n) \/ ~b
         /\ b => n # <<>> /\ MonitorList(n)
         /\ Range(s) \subseteq RejoinOps =>
              /\ Range(n) \subseteq RejoinOps
              /\ b => n[1] = "bp"
<1>5. \E n \in Seq(Ops) : o \in Seq(Ops) /\ o # <<>> /\ Head(o) = "release" /\ Tail(o) = n /\ Facts(n)
  <2>1. CASE s = <<h, "release", "bp">>
    <3>1. Len(s) = 3 /\ s[2] = "release" /\ s[3] = "bp"
      BY <2>1
    <3>2. Range(s) = {h, "release", "bp"}
      BY <2>1 DEF Range
    <3>3. s[3] \notin Sequels
      BY <3>1 DEF Sequels
    <3>4. b \in BOOLEAN
      OBVIOUS
    <3>5. \E n \in Seq(Ops) : o \in Seq(Ops) /\ o # <<>> /\ Head(o) = "release" /\ Tail(o) = n /\ Facts(n)
      <4>1. o \in Seq(Ops) /\ Len(o) = 2 /\ o[1] = "release" /\ o[2] = "bp"
        <5>1. o = r
          BY <1>3, <1>4, <3>3
        <5>2. r[1] = s[1 + 1] /\ r[2] = s[2 + 1]
          BY ONLY <1>6, <3>1
        <5> QED BY ONLY <1>6, <3>1, <5>1, <5>2
      <4>2. o # <<>> /\ Head(o) = "release"
        <5>1. o # <<>>
          <6>1. o \in Seq(Ops) /\ Len(o) >= 1
            BY ONLY <4>1
          <6> QED BY ONLY <6>1, Filled
        <5> QED BY <4>1, <5>1, Shifted
      <4>3. PICK n \in Seq(Ops) : n = Tail(o) /\ Len(n) = Len(o) - 1 /\ \A i \in 1 .. (Len(o) - 1) : n[i] = o[i + 1]
        <5>1. /\ Tail(o) \in Seq(Ops) /\ Len(Tail(o)) = Len(o) - 1
              /\ \A i \in 1 .. (Len(o) - 1) : Tail(o)[i] = o[i + 1]
          BY <4>1, <4>2, Shifted
        <5> QED BY <5>1
      <4>15. n \in Seq(Ops) /\ Len(n) = Len(o) - 1 /\ \A i \in 1 .. (Len(o) - 1) : n[i] = o[i + 1]
        BY <4>3
      <4>4. Len(n) = 1 /\ n[1] = o[1 + 1]
        BY ONLY <4>1, <4>15
      <4>5. n \in Seq(Ops) /\ Len(n) = 1 /\ n[1] = "bp"
        BY ONLY <4>1, <4>15, <4>4
      <4>6. n = <<"bp">>
        BY ONLY <4>5
      <4>7. Plan(n)
        BY ONLY <4>6 DEF Plan, Sound, Ends, Ops, Sections, Inner, Locking, StopOps, Later, Firsts, TailOps, Sequels
      <4>8. Range(n) = {"bp"}
        BY ONLY <4>6 DEF Range
      <4>9. n # <<>> => n[1] \notin Sections
        BY ONLY <4>5 DEF Sections, Inner, Locking
      <4>10. /\ Body(n) <=> Body(s)
             /\ AliveList(n) => AliveList(s)
        BY ONLY <1>2, <3>1, <3>2, <4>5, <4>8 DEF Body, AliveList, PassOps
      <4>11. \A k \in BOOLEAN : ~LaterList(s, k)
        BY ONLY <1>2, <3>1, <3>2, s[1] = h DEF LaterList
      <4>12. /\ Range(n) \cap {"outputs", "start_loop", "start"} = {}
             /\ MonitorList(s) => MonitorList(n) \/ ~b
             /\ b => n # <<>> /\ MonitorList(n)
        BY ONLY <1>2, <3>1, <3>2, <4>5, <4>8, <3>4 DEF MonitorList
      <4>13. Range(s) \subseteq RejoinOps => Range(n) \subseteq RejoinOps /\ (b => n[1] = "bp")
        BY ONLY <1>2, <3>1, <3>2, <4>5, <4>8, <3>4 DEF RejoinOps, Inner
      <4>14. Facts(n)
        BY ONLY <3>1, <4>7, <4>9, <4>10, <4>11, <4>12, <4>13
      <4> HIDE DEF Facts
      <4> QED BY <4>1, <4>2, <4>3, <4>14
    <3> QED BY <3>5
  <2>2. CASE s = <<h, "release", "bp", "unguard">>
    <3>1. Len(s) = 4 /\ s[2] = "release" /\ s[3] = "bp" /\ s[4] = "unguard"
      BY <2>2
    <3>2. Range(s) = {h, "release", "bp", "unguard"}
      BY <2>2 DEF Range
    <3>3. s[3] \notin Sequels
      BY <3>1 DEF Sequels
    <3>4. b \in BOOLEAN
      OBVIOUS
    <3>5. \E n \in Seq(Ops) : o \in Seq(Ops) /\ o # <<>> /\ Head(o) = "release" /\ Tail(o) = n /\ Facts(n)
      <4>1. o \in Seq(Ops) /\ Len(o) = 3 /\ o[1] = "release" /\ o[2] = "bp" /\ o[3] = "unguard"
        <5>1. o = r
          BY <1>3, <1>4, <3>3
        <5>2. r[1] = s[1 + 1] /\ r[2] = s[2 + 1] /\ r[3] = s[3 + 1]
          BY ONLY <1>6, <3>1
        <5> QED BY ONLY <1>6, <3>1, <5>1, <5>2
      <4>2. o # <<>> /\ Head(o) = "release"
        <5>1. o # <<>>
          <6>1. o \in Seq(Ops) /\ Len(o) >= 1
            BY ONLY <4>1
          <6> QED BY ONLY <6>1, Filled
        <5> QED BY <4>1, <5>1, Shifted
      <4>3. PICK n \in Seq(Ops) : n = Tail(o) /\ Len(n) = Len(o) - 1 /\ \A i \in 1 .. (Len(o) - 1) : n[i] = o[i + 1]
        <5>1. /\ Tail(o) \in Seq(Ops) /\ Len(Tail(o)) = Len(o) - 1
              /\ \A i \in 1 .. (Len(o) - 1) : Tail(o)[i] = o[i + 1]
          BY <4>1, <4>2, Shifted
        <5> QED BY <5>1
      <4>15. n \in Seq(Ops) /\ Len(n) = Len(o) - 1 /\ \A i \in 1 .. (Len(o) - 1) : n[i] = o[i + 1]
        BY <4>3
      <4>4. Len(n) = 2 /\ n[1] = o[1 + 1] /\ n[2] = o[2 + 1]
        BY ONLY <4>1, <4>15
      <4>5. n \in Seq(Ops) /\ Len(n) = 2 /\ n[1] = "bp" /\ n[2] = "unguard"
        BY ONLY <4>1, <4>15, <4>4
      <4>6. n = <<"bp", "unguard">>
        BY ONLY <4>5
      <4>7. Plan(n)
        BY ONLY <4>6 DEF Plan, Sound, Ends, Ops, Sections, Inner, Locking, StopOps, Later, Firsts, TailOps, Sequels
      <4>8. Range(n) = {"bp", "unguard"}
        BY ONLY <4>6 DEF Range
      <4>9. n # <<>> => n[1] \notin Sections
        BY ONLY <4>5 DEF Sections, Inner, Locking
      <4>10. /\ Body(n) <=> Body(s)
             /\ AliveList(n) => AliveList(s)
        BY ONLY <1>2, <3>1, <3>2, <4>5, <4>8 DEF Body, AliveList, PassOps
      <4>11. \A k \in BOOLEAN : ~LaterList(s, k)
        BY ONLY <1>2, <3>1, <3>2, s[1] = h DEF LaterList
      <4>12. /\ Range(n) \cap {"outputs", "start_loop", "start"} = {}
             /\ MonitorList(s) => MonitorList(n) \/ ~b
             /\ b => n # <<>> /\ MonitorList(n)
        BY ONLY <1>2, <3>1, <3>2, <4>5, <4>8, <3>4 DEF MonitorList
      <4>13. Range(s) \subseteq RejoinOps => Range(n) \subseteq RejoinOps /\ (b => n[1] = "bp")
        BY ONLY <1>2, <3>1, <3>2, <4>5, <4>8, <3>4 DEF RejoinOps, Inner
      <4>14. Facts(n)
        BY ONLY <3>1, <4>7, <4>9, <4>10, <4>11, <4>12, <4>13
      <4> HIDE DEF Facts
      <4> QED BY <4>1, <4>2, <4>3, <4>14
    <3> QED BY <3>5
  <2>3. CASE s = <<h, "release", "resized">>
    <3>1. Len(s) = 3 /\ s[2] = "release" /\ s[3] = "resized"
      BY <2>3
    <3>2. Range(s) = {h, "release", "resized"}
      BY <2>3 DEF Range
    <3>3. s[3] \notin Sequels
      BY <3>1 DEF Sequels
    <3>4. b \in BOOLEAN
      OBVIOUS
    <3>5. \E n \in Seq(Ops) : o \in Seq(Ops) /\ o # <<>> /\ Head(o) = "release" /\ Tail(o) = n /\ Facts(n)
      <4>1. o \in Seq(Ops) /\ Len(o) = 2 /\ o[1] = "release" /\ o[2] = "resized"
        <5>1. o = r
          BY <1>3, <1>4, <3>3
        <5>2. r[1] = s[1 + 1] /\ r[2] = s[2 + 1]
          BY ONLY <1>6, <3>1
        <5> QED BY ONLY <1>6, <3>1, <5>1, <5>2
      <4>2. o # <<>> /\ Head(o) = "release"
        <5>1. o # <<>>
          <6>1. o \in Seq(Ops) /\ Len(o) >= 1
            BY ONLY <4>1
          <6> QED BY ONLY <6>1, Filled
        <5> QED BY <4>1, <5>1, Shifted
      <4>3. PICK n \in Seq(Ops) : n = Tail(o) /\ Len(n) = Len(o) - 1 /\ \A i \in 1 .. (Len(o) - 1) : n[i] = o[i + 1]
        <5>1. /\ Tail(o) \in Seq(Ops) /\ Len(Tail(o)) = Len(o) - 1
              /\ \A i \in 1 .. (Len(o) - 1) : Tail(o)[i] = o[i + 1]
          BY <4>1, <4>2, Shifted
        <5> QED BY <5>1
      <4>15. n \in Seq(Ops) /\ Len(n) = Len(o) - 1 /\ \A i \in 1 .. (Len(o) - 1) : n[i] = o[i + 1]
        BY <4>3
      <4>4. Len(n) = 1 /\ n[1] = o[1 + 1]
        BY ONLY <4>1, <4>15
      <4>5. n \in Seq(Ops) /\ Len(n) = 1 /\ n[1] = "resized"
        BY ONLY <4>1, <4>15, <4>4
      <4>6. n = <<"resized">>
        BY ONLY <4>5
      <4>7. Plan(n)
        BY ONLY <4>6 DEF Plan, Sound, Ends, Ops, Sections, Inner, Locking, StopOps, Later, Firsts, TailOps, Sequels
      <4>8. Range(n) = {"resized"}
        BY ONLY <4>6 DEF Range
      <4>9. n # <<>> => n[1] \notin Sections
        BY ONLY <4>5 DEF Sections, Inner, Locking
      <4>10. /\ Body(n) <=> Body(s)
             /\ AliveList(n) => AliveList(s)
        BY ONLY <1>2, <3>1, <3>2, <4>5, <4>8 DEF Body, AliveList, PassOps
      <4>11. \A k \in BOOLEAN : ~LaterList(s, k)
        BY ONLY <1>2, <3>1, <3>2, s[1] = h DEF LaterList
      <4>12. /\ Range(n) \cap {"outputs", "start_loop", "start"} = {}
             /\ MonitorList(s) => MonitorList(n) \/ ~b
             /\ b => n # <<>> /\ MonitorList(n)
        BY ONLY <1>2, <3>1, <3>2, <4>5, <4>8, <3>4 DEF MonitorList
      <4>13. Range(s) \subseteq RejoinOps => Range(n) \subseteq RejoinOps /\ (b => n[1] = "bp")
        BY ONLY <1>2, <3>1, <3>2, <4>5, <4>8, <3>4 DEF RejoinOps, Inner
      <4>14. Facts(n)
        BY ONLY <3>1, <4>7, <4>9, <4>10, <4>11, <4>12, <4>13
      <4> HIDE DEF Facts
      <4> QED BY <4>1, <4>2, <4>3, <4>14
    <3> QED BY <3>5
  <2>4. CASE s = <<h, "release", "after_start">>
    <3>1. Len(s) = 3 /\ s[2] = "release" /\ s[3] = "after_start"
      BY <2>4
    <3>2. Range(s) = {h, "release", "after_start"}
      BY <2>4 DEF Range
    <3>3. CASE b = TRUE
      <4>1. o \in Seq(Ops) /\ Len(o) = 2 /\ o[1] = "release" /\ o[2] = "bp"
        <5>1. o = <<"release", "bp">>
          BY <1>3, <3>1, <3>3 DEF AfterThree, Sequels
        <5>2. o \in Seq(Ops)
          BY ONLY <5>1 DEF Ops, Later
        <5> QED BY <5>1, <5>2
      <4>2. o # <<>> /\ Head(o) = "release"
        <5>1. o # <<>>
          <6>1. o \in Seq(Ops) /\ Len(o) >= 1
            BY ONLY <4>1
          <6> QED BY ONLY <6>1, Filled
        <5> QED BY <4>1, <5>1, Shifted
      <4>3. PICK n \in Seq(Ops) : n = Tail(o) /\ Len(n) = Len(o) - 1 /\ \A i \in 1 .. (Len(o) - 1) : n[i] = o[i + 1]
        <5>1. /\ Tail(o) \in Seq(Ops) /\ Len(Tail(o)) = Len(o) - 1
              /\ \A i \in 1 .. (Len(o) - 1) : Tail(o)[i] = o[i + 1]
          BY <4>1, <4>2, Shifted
        <5> QED BY <5>1
      <4>15. n \in Seq(Ops) /\ Len(n) = Len(o) - 1 /\ \A i \in 1 .. (Len(o) - 1) : n[i] = o[i + 1]
        BY <4>3
      <4>4. Len(n) = 1 /\ n[1] = o[1 + 1]
        BY ONLY <4>1, <4>15
      <4>5. n \in Seq(Ops) /\ Len(n) = 1 /\ n[1] = "bp"
        BY ONLY <4>1, <4>15, <4>4
      <4>6. n = <<"bp">>
        BY ONLY <4>5
      <4>7. Plan(n)
        BY ONLY <4>6 DEF Plan, Sound, Ends, Ops, Sections, Inner, Locking, StopOps, Later, Firsts, TailOps, Sequels
      <4>8. Range(n) = {"bp"}
        BY ONLY <4>6 DEF Range
      <4>9. n # <<>> => n[1] \notin Sections
        BY ONLY <4>5 DEF Sections, Inner, Locking
      <4>10. /\ Body(n) <=> Body(s)
             /\ AliveList(n) => AliveList(s)
        BY ONLY <1>2, <3>1, <3>2, <4>5, <4>8 DEF Body, AliveList, PassOps
      <4>11. \A k \in BOOLEAN : ~LaterList(s, k)
        BY ONLY <1>2, <3>1, <3>2, s[1] = h DEF LaterList
      <4>12. /\ Range(n) \cap {"outputs", "start_loop", "start"} = {}
             /\ MonitorList(s) => MonitorList(n) \/ ~b
             /\ b => n # <<>> /\ MonitorList(n)
        BY ONLY <1>2, <3>1, <3>2, <4>5, <4>8, <3>3 DEF MonitorList
      <4>13. Range(s) \subseteq RejoinOps => Range(n) \subseteq RejoinOps /\ (b => n[1] = "bp")
        BY ONLY <1>2, <3>1, <3>2, <4>5, <4>8, <3>3 DEF RejoinOps, Inner
      <4>14. Facts(n)
        BY ONLY <3>1, <4>7, <4>9, <4>10, <4>11, <4>12, <4>13
      <4> HIDE DEF Facts
      <4> QED BY <4>1, <4>2, <4>3, <4>14
    <3>4. CASE b = FALSE
      <4>1. o \in Seq(Ops) /\ Len(o) = 2 /\ o[1] = "release" /\ o[2] = "reconfigure"
        <5>1. o = <<"release", "reconfigure">>
          BY <1>3, <3>1, <3>4 DEF AfterThree, Sequels
        <5>2. o \in Seq(Ops)
          BY ONLY <5>1 DEF Ops, Later
        <5> QED BY <5>1, <5>2
      <4>2. o # <<>> /\ Head(o) = "release"
        <5>1. o # <<>>
          <6>1. o \in Seq(Ops) /\ Len(o) >= 1
            BY ONLY <4>1
          <6> QED BY ONLY <6>1, Filled
        <5> QED BY <4>1, <5>1, Shifted
      <4>3. PICK n \in Seq(Ops) : n = Tail(o) /\ Len(n) = Len(o) - 1 /\ \A i \in 1 .. (Len(o) - 1) : n[i] = o[i + 1]
        <5>1. /\ Tail(o) \in Seq(Ops) /\ Len(Tail(o)) = Len(o) - 1
              /\ \A i \in 1 .. (Len(o) - 1) : Tail(o)[i] = o[i + 1]
          BY <4>1, <4>2, Shifted
        <5> QED BY <5>1
      <4>15. n \in Seq(Ops) /\ Len(n) = Len(o) - 1 /\ \A i \in 1 .. (Len(o) - 1) : n[i] = o[i + 1]
        BY <4>3
      <4>4. Len(n) = 1 /\ n[1] = o[1 + 1]
        BY ONLY <4>1, <4>15
      <4>5. n \in Seq(Ops) /\ Len(n) = 1 /\ n[1] = "reconfigure"
        BY ONLY <4>1, <4>15, <4>4
      <4>6. n = <<"reconfigure">>
        BY ONLY <4>5
      <4>7. Plan(n)
        BY ONLY <4>6 DEF Plan, Sound, Ends, Ops, Sections, Inner, Locking, StopOps, Later, Firsts, TailOps, Sequels
      <4>8. Range(n) = {"reconfigure"}
        BY ONLY <4>6 DEF Range
      <4>9. n # <<>> => n[1] \notin Sections
        BY ONLY <4>5 DEF Sections, Inner, Locking
      <4>10. /\ Body(n) <=> Body(s)
             /\ AliveList(n) => AliveList(s)
        BY ONLY <1>2, <3>1, <3>2, <4>5, <4>8 DEF Body, AliveList, PassOps
      <4>11. \A k \in BOOLEAN : ~LaterList(s, k)
        BY ONLY <1>2, <3>1, <3>2, s[1] = h DEF LaterList
      <4>12. /\ Range(n) \cap {"outputs", "start_loop", "start"} = {}
             /\ MonitorList(s) => MonitorList(n) \/ ~b
             /\ b => n # <<>> /\ MonitorList(n)
        BY ONLY <1>2, <3>1, <3>2, <4>5, <4>8, <3>4 DEF MonitorList
      <4>13. Range(s) \subseteq RejoinOps => Range(n) \subseteq RejoinOps /\ (b => n[1] = "bp")
        BY ONLY <1>2, <3>1, <3>2, <4>5, <4>8, <3>4 DEF RejoinOps, Inner
      <4>14. Facts(n)
        BY ONLY <3>1, <4>7, <4>9, <4>10, <4>11, <4>12, <4>13
      <4> HIDE DEF Facts
      <4> QED BY <4>1, <4>2, <4>3, <4>14
    <3> QED BY <3>3, <3>4
  <2>5. CASE s = <<h, "release", "after_rejoin">>
    <3>1. Len(s) = 3 /\ s[2] = "release" /\ s[3] = "after_rejoin"
      BY <2>5
    <3>2. Range(s) = {h, "release", "after_rejoin"}
      BY <2>5 DEF Range
    <3>3. CASE b = TRUE
      <4>1. o \in Seq(Ops) /\ Len(o) = 2 /\ o[1] = "release" /\ o[2] = "bp"
        <5>1. o = <<"release", "bp">>
          BY <1>3, <3>1, <3>3 DEF AfterThree, Sequels
        <5>2. o \in Seq(Ops)
          BY ONLY <5>1 DEF Ops, Later
        <5> QED BY <5>1, <5>2
      <4>2. o # <<>> /\ Head(o) = "release"
        <5>1. o # <<>>
          <6>1. o \in Seq(Ops) /\ Len(o) >= 1
            BY ONLY <4>1
          <6> QED BY ONLY <6>1, Filled
        <5> QED BY <4>1, <5>1, Shifted
      <4>3. PICK n \in Seq(Ops) : n = Tail(o) /\ Len(n) = Len(o) - 1 /\ \A i \in 1 .. (Len(o) - 1) : n[i] = o[i + 1]
        <5>1. /\ Tail(o) \in Seq(Ops) /\ Len(Tail(o)) = Len(o) - 1
              /\ \A i \in 1 .. (Len(o) - 1) : Tail(o)[i] = o[i + 1]
          BY <4>1, <4>2, Shifted
        <5> QED BY <5>1
      <4>15. n \in Seq(Ops) /\ Len(n) = Len(o) - 1 /\ \A i \in 1 .. (Len(o) - 1) : n[i] = o[i + 1]
        BY <4>3
      <4>4. Len(n) = 1 /\ n[1] = o[1 + 1]
        BY ONLY <4>1, <4>15
      <4>5. n \in Seq(Ops) /\ Len(n) = 1 /\ n[1] = "bp"
        BY ONLY <4>1, <4>15, <4>4
      <4>6. n = <<"bp">>
        BY ONLY <4>5
      <4>7. Plan(n)
        BY ONLY <4>6 DEF Plan, Sound, Ends, Ops, Sections, Inner, Locking, StopOps, Later, Firsts, TailOps, Sequels
      <4>8. Range(n) = {"bp"}
        BY ONLY <4>6 DEF Range
      <4>9. n # <<>> => n[1] \notin Sections
        BY ONLY <4>5 DEF Sections, Inner, Locking
      <4>10. /\ Body(n) <=> Body(s)
             /\ AliveList(n) => AliveList(s)
        BY ONLY <1>2, <3>1, <3>2, <4>5, <4>8 DEF Body, AliveList, PassOps
      <4>11. \A k \in BOOLEAN : ~LaterList(s, k)
        BY ONLY <1>2, <3>1, <3>2, s[1] = h DEF LaterList
      <4>12. /\ Range(n) \cap {"outputs", "start_loop", "start"} = {}
             /\ MonitorList(s) => MonitorList(n) \/ ~b
             /\ b => n # <<>> /\ MonitorList(n)
        BY ONLY <1>2, <3>1, <3>2, <4>5, <4>8, <3>3 DEF MonitorList
      <4>13. Range(s) \subseteq RejoinOps => Range(n) \subseteq RejoinOps /\ (b => n[1] = "bp")
        BY ONLY <1>2, <3>1, <3>2, <4>5, <4>8, <3>3 DEF RejoinOps, Inner
      <4>14. Facts(n)
        BY ONLY <3>1, <4>7, <4>9, <4>10, <4>11, <4>12, <4>13
      <4> HIDE DEF Facts
      <4> QED BY <4>1, <4>2, <4>3, <4>14
    <3>4. CASE b = FALSE
      <4>1. o \in Seq(Ops) /\ Len(o) = 1 /\ o[1] = "release"
        <5>1. o = <<"release">>
          BY <1>3, <3>1, <3>4 DEF AfterThree, Sequels
        <5>2. o \in Seq(Ops)
          BY ONLY <5>1 DEF Ops, Later
        <5> QED BY <5>1, <5>2
      <4>2. o # <<>> /\ Head(o) = "release"
        <5>1. o # <<>>
          <6>1. o \in Seq(Ops) /\ Len(o) >= 1
            BY ONLY <4>1
          <6> QED BY ONLY <6>1, Filled
        <5> QED BY <4>1, <5>1, Shifted
      <4>3. PICK n \in Seq(Ops) : n = Tail(o) /\ Len(n) = Len(o) - 1 /\ \A i \in 1 .. (Len(o) - 1) : n[i] = o[i + 1]
        <5>1. /\ Tail(o) \in Seq(Ops) /\ Len(Tail(o)) = Len(o) - 1
              /\ \A i \in 1 .. (Len(o) - 1) : Tail(o)[i] = o[i + 1]
          BY <4>1, <4>2, Shifted
        <5> QED BY <5>1
      <4>15. n \in Seq(Ops) /\ Len(n) = Len(o) - 1 /\ \A i \in 1 .. (Len(o) - 1) : n[i] = o[i + 1]
        BY <4>3
      <4>5. n \in Seq(Ops) /\ Len(n) = 0
        BY ONLY <4>1, <4>15
      <4>6. n = <<>>
        BY ONLY <4>5
      <4>7. Plan(n)
        BY ONLY <4>6 DEF Plan, Sound, Ends, Ops, Sections, Inner, Locking, StopOps, Later, Firsts, TailOps, Sequels
      <4>8. Range(n) = {}
        BY ONLY <4>6 DEF Range
      <4>9. n # <<>> => n[1] \notin Sections
        BY ONLY <4>5 DEF Sections, Inner, Locking
      <4>10. /\ Body(n) <=> Body(s)
             /\ AliveList(n) => AliveList(s)
        BY ONLY <1>2, <3>1, <3>2, <4>5, <4>8 DEF Body, AliveList, PassOps
      <4>11. \A k \in BOOLEAN : ~LaterList(s, k)
        BY ONLY <1>2, <3>1, <3>2, s[1] = h DEF LaterList
      <4>12. /\ Range(n) \cap {"outputs", "start_loop", "start"} = {}
             /\ MonitorList(s) => MonitorList(n) \/ ~b
             /\ b => n # <<>> /\ MonitorList(n)
        BY ONLY <1>2, <3>1, <3>2, <4>5, <4>8, <3>4 DEF MonitorList
      <4>13. Range(s) \subseteq RejoinOps => Range(n) \subseteq RejoinOps /\ (b => n[1] = "bp")
        BY ONLY <1>2, <3>1, <3>2, <4>5, <4>8, <3>4 DEF RejoinOps, Inner
      <4>14. Facts(n)
        BY ONLY <3>1, <4>7, <4>9, <4>10, <4>11, <4>12, <4>13
      <4> HIDE DEF Facts
      <4> QED BY <4>1, <4>2, <4>3, <4>14
    <3> QED BY <3>3, <3>4
  <2>6. CASE s = <<h, "release", "bp", "followed">>
    <3>1. Len(s) = 4 /\ s[2] = "release" /\ s[3] = "bp" /\ s[4] = "followed"
      BY <2>6
    <3>2. Range(s) = {h, "release", "bp", "followed"}
      BY <2>6 DEF Range
    <3>3. s[3] \notin Sequels
      BY <3>1 DEF Sequels
    <3>4. b \in BOOLEAN
      OBVIOUS
    <3>5. \E n \in Seq(Ops) : o \in Seq(Ops) /\ o # <<>> /\ Head(o) = "release" /\ Tail(o) = n /\ Facts(n)
      <4>1. o \in Seq(Ops) /\ Len(o) = 3 /\ o[1] = "release" /\ o[2] = "bp" /\ o[3] = "followed"
        <5>1. o = r
          BY <1>3, <1>4, <3>3
        <5>2. r[1] = s[1 + 1] /\ r[2] = s[2 + 1] /\ r[3] = s[3 + 1]
          BY ONLY <1>6, <3>1
        <5> QED BY ONLY <1>6, <3>1, <5>1, <5>2
      <4>2. o # <<>> /\ Head(o) = "release"
        <5>1. o # <<>>
          <6>1. o \in Seq(Ops) /\ Len(o) >= 1
            BY ONLY <4>1
          <6> QED BY ONLY <6>1, Filled
        <5> QED BY <4>1, <5>1, Shifted
      <4>3. PICK n \in Seq(Ops) : n = Tail(o) /\ Len(n) = Len(o) - 1 /\ \A i \in 1 .. (Len(o) - 1) : n[i] = o[i + 1]
        <5>1. /\ Tail(o) \in Seq(Ops) /\ Len(Tail(o)) = Len(o) - 1
              /\ \A i \in 1 .. (Len(o) - 1) : Tail(o)[i] = o[i + 1]
          BY <4>1, <4>2, Shifted
        <5> QED BY <5>1
      <4>15. n \in Seq(Ops) /\ Len(n) = Len(o) - 1 /\ \A i \in 1 .. (Len(o) - 1) : n[i] = o[i + 1]
        BY <4>3
      <4>4. Len(n) = 2 /\ n[1] = o[1 + 1] /\ n[2] = o[2 + 1]
        BY ONLY <4>1, <4>15
      <4>5. n \in Seq(Ops) /\ Len(n) = 2 /\ n[1] = "bp" /\ n[2] = "followed"
        BY ONLY <4>1, <4>15, <4>4
      <4>6. n = <<"bp", "followed">>
        BY ONLY <4>5
      <4>7. Plan(n)
        BY ONLY <4>6 DEF Plan, Sound, Ends, Ops, Sections, Inner, Locking, StopOps, Later, Firsts, TailOps, Sequels
      <4>8. Range(n) = {"bp", "followed"}
        BY ONLY <4>6 DEF Range
      <4>9. n # <<>> => n[1] \notin Sections
        BY ONLY <4>5 DEF Sections, Inner, Locking
      <4>10. /\ Body(n) <=> Body(s)
             /\ AliveList(n) => AliveList(s)
        BY ONLY <1>2, <3>1, <3>2, <4>5, <4>8 DEF Body, AliveList, PassOps
      <4>11. \A k \in BOOLEAN : ~LaterList(s, k)
        BY ONLY <1>2, <3>1, <3>2, s[1] = h DEF LaterList
      <4>12. /\ Range(n) \cap {"outputs", "start_loop", "start"} = {}
             /\ MonitorList(s) => MonitorList(n) \/ ~b
             /\ b => n # <<>> /\ MonitorList(n)
        BY ONLY <1>2, <3>1, <3>2, <4>5, <4>8, <3>4 DEF MonitorList
      <4>13. Range(s) \subseteq RejoinOps => Range(n) \subseteq RejoinOps /\ (b => n[1] = "bp")
        BY ONLY <1>2, <3>1, <3>2, <4>5, <4>8, <3>4 DEF RejoinOps, Inner
      <4>14. Facts(n)
        BY ONLY <3>1, <4>7, <4>9, <4>10, <4>11, <4>12, <4>13
      <4> HIDE DEF Facts
      <4> QED BY <4>1, <4>2, <4>3, <4>14
    <3> QED BY <3>5
  <2>7. CASE s = <<h, "release", "bp", "followed", "guard", "bp_off", "unguard">>
    <3>1. Len(s) = 7 /\ s[2] = "release" /\ s[3] = "bp" /\ s[4] = "followed" /\ s[5] = "guard" /\ s[6] = "bp_off" /\ s[7] = "unguard"
      BY <2>7
    <3>2. Range(s) = {h, "release", "bp", "followed", "guard", "bp_off", "unguard"}
      BY <2>7 DEF Range
    <3>3. s[3] \notin Sequels
      BY <3>1 DEF Sequels
    <3>4. b \in BOOLEAN
      OBVIOUS
    <3>5. \E n \in Seq(Ops) : o \in Seq(Ops) /\ o # <<>> /\ Head(o) = "release" /\ Tail(o) = n /\ Facts(n)
      <4>1. o \in Seq(Ops) /\ Len(o) = 6 /\ o[1] = "release" /\ o[2] = "bp" /\ o[3] = "followed" /\ o[4] = "guard" /\ o[5] = "bp_off" /\ o[6] = "unguard"
        <5>1. o = r
          BY <1>3, <1>4, <3>3
        <5>2. r[1] = s[1 + 1] /\ r[2] = s[2 + 1] /\ r[3] = s[3 + 1] /\ r[4] = s[4 + 1] /\ r[5] = s[5 + 1] /\ r[6] = s[6 + 1]
          BY ONLY <1>6, <3>1
        <5> QED BY ONLY <1>6, <3>1, <5>1, <5>2
      <4>2. o # <<>> /\ Head(o) = "release"
        <5>1. o # <<>>
          <6>1. o \in Seq(Ops) /\ Len(o) >= 1
            BY ONLY <4>1
          <6> QED BY ONLY <6>1, Filled
        <5> QED BY <4>1, <5>1, Shifted
      <4>3. PICK n \in Seq(Ops) : n = Tail(o) /\ Len(n) = Len(o) - 1 /\ \A i \in 1 .. (Len(o) - 1) : n[i] = o[i + 1]
        <5>1. /\ Tail(o) \in Seq(Ops) /\ Len(Tail(o)) = Len(o) - 1
              /\ \A i \in 1 .. (Len(o) - 1) : Tail(o)[i] = o[i + 1]
          BY <4>1, <4>2, Shifted
        <5> QED BY <5>1
      <4>15. n \in Seq(Ops) /\ Len(n) = Len(o) - 1 /\ \A i \in 1 .. (Len(o) - 1) : n[i] = o[i + 1]
        BY <4>3
      <4>4. Len(n) = 5 /\ n[1] = o[1 + 1] /\ n[2] = o[2 + 1] /\ n[3] = o[3 + 1] /\ n[4] = o[4 + 1] /\ n[5] = o[5 + 1]
        BY ONLY <4>1, <4>15
      <4>5. n \in Seq(Ops) /\ Len(n) = 5 /\ n[1] = "bp" /\ n[2] = "followed" /\ n[3] = "guard" /\ n[4] = "bp_off" /\ n[5] = "unguard"
        BY ONLY <4>1, <4>15, <4>4
      <4>6. n = <<"bp", "followed", "guard", "bp_off", "unguard">>
        BY ONLY <4>5
      <4>7. Plan(n)
        BY ONLY <4>6 DEF Plan, Sound, Ends, Ops, Sections, Inner, Locking, StopOps, Later, Firsts, TailOps, Sequels
      <4>8. Range(n) = {"bp", "followed", "guard", "bp_off", "unguard"}
        BY ONLY <4>6 DEF Range
      <4>9. n # <<>> => n[1] \notin Sections
        BY ONLY <4>5 DEF Sections, Inner, Locking
      <4>10. /\ Body(n) <=> Body(s)
             /\ AliveList(n) => AliveList(s)
        BY ONLY <1>2, <3>1, <3>2, <4>5, <4>8 DEF Body, AliveList, PassOps
      <4>11. \A k \in BOOLEAN : ~LaterList(s, k)
        BY ONLY <1>2, <3>1, <3>2, s[1] = h DEF LaterList
      <4>12. /\ Range(n) \cap {"outputs", "start_loop", "start"} = {}
             /\ MonitorList(s) => MonitorList(n) \/ ~b
             /\ b => n # <<>> /\ MonitorList(n)
        BY ONLY <1>2, <3>1, <3>2, <4>5, <4>8, <3>4 DEF MonitorList
      <4>13. Range(s) \subseteq RejoinOps => Range(n) \subseteq RejoinOps /\ (b => n[1] = "bp")
        BY ONLY <1>2, <3>1, <3>2, <4>5, <4>8, <3>4 DEF RejoinOps, Inner
      <4>14. Facts(n)
        BY ONLY <3>1, <4>7, <4>9, <4>10, <4>11, <4>12, <4>13
      <4> HIDE DEF Facts
      <4> QED BY <4>1, <4>2, <4>3, <4>14
    <3> QED BY <3>5
  <2>8. CASE s = <<h, "release", "bp", "followed", "unconsumed", "last">>
    <3>1. Len(s) = 6 /\ s[2] = "release" /\ s[3] = "bp" /\ s[4] = "followed" /\ s[5] = "unconsumed" /\ s[6] = "last"
      BY <2>8
    <3>2. Range(s) = {h, "release", "bp", "followed", "unconsumed", "last"}
      BY <2>8 DEF Range
    <3>3. s[3] \notin Sequels
      BY <3>1 DEF Sequels
    <3>4. b \in BOOLEAN
      OBVIOUS
    <3>5. \E n \in Seq(Ops) : o \in Seq(Ops) /\ o # <<>> /\ Head(o) = "release" /\ Tail(o) = n /\ Facts(n)
      <4>1. o \in Seq(Ops) /\ Len(o) = 5 /\ o[1] = "release" /\ o[2] = "bp" /\ o[3] = "followed" /\ o[4] = "unconsumed" /\ o[5] = "last"
        <5>1. o = r
          BY <1>3, <1>4, <3>3
        <5>2. r[1] = s[1 + 1] /\ r[2] = s[2 + 1] /\ r[3] = s[3 + 1] /\ r[4] = s[4 + 1] /\ r[5] = s[5 + 1]
          BY ONLY <1>6, <3>1
        <5> QED BY ONLY <1>6, <3>1, <5>1, <5>2
      <4>2. o # <<>> /\ Head(o) = "release"
        <5>1. o # <<>>
          <6>1. o \in Seq(Ops) /\ Len(o) >= 1
            BY ONLY <4>1
          <6> QED BY ONLY <6>1, Filled
        <5> QED BY <4>1, <5>1, Shifted
      <4>3. PICK n \in Seq(Ops) : n = Tail(o) /\ Len(n) = Len(o) - 1 /\ \A i \in 1 .. (Len(o) - 1) : n[i] = o[i + 1]
        <5>1. /\ Tail(o) \in Seq(Ops) /\ Len(Tail(o)) = Len(o) - 1
              /\ \A i \in 1 .. (Len(o) - 1) : Tail(o)[i] = o[i + 1]
          BY <4>1, <4>2, Shifted
        <5> QED BY <5>1
      <4>15. n \in Seq(Ops) /\ Len(n) = Len(o) - 1 /\ \A i \in 1 .. (Len(o) - 1) : n[i] = o[i + 1]
        BY <4>3
      <4>4. Len(n) = 4 /\ n[1] = o[1 + 1] /\ n[2] = o[2 + 1] /\ n[3] = o[3 + 1] /\ n[4] = o[4 + 1]
        BY ONLY <4>1, <4>15
      <4>5. n \in Seq(Ops) /\ Len(n) = 4 /\ n[1] = "bp" /\ n[2] = "followed" /\ n[3] = "unconsumed" /\ n[4] = "last"
        BY ONLY <4>1, <4>15, <4>4
      <4>6. n = <<"bp", "followed", "unconsumed", "last">>
        BY ONLY <4>5
      <4>7. Plan(n)
        BY ONLY <4>6 DEF Plan, Sound, Ends, Ops, Sections, Inner, Locking, StopOps, Later, Firsts, TailOps, Sequels
      <4>8. Range(n) = {"bp", "followed", "unconsumed", "last"}
        BY ONLY <4>6 DEF Range
      <4>9. n # <<>> => n[1] \notin Sections
        BY ONLY <4>5 DEF Sections, Inner, Locking
      <4>10. /\ Body(n) <=> Body(s)
             /\ AliveList(n) => AliveList(s)
        BY ONLY <1>2, <3>1, <3>2, <4>5, <4>8 DEF Body, AliveList, PassOps
      <4>11. \A k \in BOOLEAN : ~LaterList(s, k)
        BY ONLY <1>2, <3>1, <3>2, s[1] = h DEF LaterList
      <4>12. /\ Range(n) \cap {"outputs", "start_loop", "start"} = {}
             /\ MonitorList(s) => MonitorList(n) \/ ~b
             /\ b => n # <<>> /\ MonitorList(n)
        BY ONLY <1>2, <3>1, <3>2, <4>5, <4>8, <3>4 DEF MonitorList
      <4>13. Range(s) \subseteq RejoinOps => Range(n) \subseteq RejoinOps /\ (b => n[1] = "bp")
        BY ONLY <1>2, <3>1, <3>2, <4>5, <4>8, <3>4 DEF RejoinOps, Inner
      <4>14. Facts(n)
        BY ONLY <3>1, <4>7, <4>9, <4>10, <4>11, <4>12, <4>13
      <4> HIDE DEF Facts
      <4> QED BY <4>1, <4>2, <4>3, <4>14
    <3> QED BY <3>5
  <2> QED BY <1>1, <1>2, <2>1, <2>2, <2>3, <2>4, <2>5, <2>6, <2>7, <2>8 DEF StartPlans
<1> QED BY <1>5

-----------------------------------------------------------------------------
(* The lists that coroutines begin with *)

\* The list of a coroutine with nothing left to do.
LEMMA NothingList ==
  /\ <<>> \in Seq(Ops) /\ Plan(<<>>)
  /\ Range(<<>>) = {}
  /\ ~Body(<<>>)
  /\ ~MonitorList(<<>>)
  /\ ~AliveList(<<>>)
  /\ ~BareList(<<>>)
  /\ Range(<<>>) \subseteq RejoinOps
<1>1. PICK n : n = <<>>
  OBVIOUS
<1>2. n \in Seq(Ops) /\ Len(n) = 0
  BY <1>1 DEF Ops, Sections, Inner, Locking, Later, Firsts, TailOps, Sequels
<1>3. Plan(n)
  BY ONLY <1>1 DEF Plan, Sound, Ends, Ops, Sections, Inner, Locking, StopOps, Later, Firsts, TailOps, Sequels
<1>4. Range(n) = {}
  BY ONLY <1>1 DEF Range
<1>6. ~Body(n)
  BY ONLY <1>2, <1>4 DEF Body, PassOps
<1>7. ~MonitorList(n)
  BY ONLY <1>2, <1>4 DEF MonitorList
<1>8. ~AliveList(n)
  BY ONLY <1>2, <1>4 DEF AliveList
<1>9. ~BareList(n)
  BY ONLY <1>2, <1>4 DEF BareList
<1>10. Range(n) \subseteq RejoinOps
  BY ONLY <1>2, <1>4 DEF RejoinOps, Inner
<1> QED BY <1>1, <1>2, <1>3, <1>4, <1>6, <1>7, <1>8, <1>9, <1>10

\* The list of a stop of the capture.
LEMMA StopList ==
  /\ <<"stop", "release">> \in Seq(Ops) /\ Plan(<<"stop", "release">>)
  /\ <<"stop", "release">> # <<>> /\ Head(<<"stop", "release">>) = "stop" /\ <<"stop", "release">>[1] = "stop"
  /\ Range(<<"stop", "release">>) = {"stop", "release"}
  /\ ~Body(<<"stop", "release">>)
  /\ ~AliveList(<<"stop", "release">>)
<1>1. PICK n : n = <<"stop", "release">>
  OBVIOUS
<1>2. n \in Seq(Ops) /\ Len(n) = 2 /\ n[1] = "stop" /\ n[2] = "release"
  BY <1>1 DEF Ops, Sections, Inner, Locking, Later, Firsts, TailOps, Sequels
<1>3. Plan(n)
  BY ONLY <1>1 DEF Plan, Sound, Ends, Ops, Sections, Inner, Locking, StopOps, Later, Firsts, TailOps, Sequels
<1>4. Range(n) = {"stop", "release"}
  BY ONLY <1>1 DEF Range
<1>5. n # <<>> /\ Head(n) = n[1]
  <2>1. n \in Seq(Ops) /\ Len(n) >= 1
    BY ONLY <1>2
  <2>2. n # <<>>
    BY ONLY <2>1, Filled
  <2> QED BY ONLY <2>1, <2>2, Shifted
<1>6. ~Body(n)
  BY ONLY <1>2, <1>4 DEF Body, PassOps
<1>7. ~AliveList(n)
  BY ONLY <1>2, <1>4 DEF AliveList
<1> QED BY <1>1, <1>2, <1>3, <1>4, <1>5, <1>6, <1>7

\* The list of a stop before the check for the last client.
LEMMA StopLastList ==
  /\ <<"stop", "release", "last">> \in Seq(Ops) /\ Plan(<<"stop", "release", "last">>)
  /\ <<"stop", "release", "last">> # <<>> /\ Head(<<"stop", "release", "last">>) = "stop" /\ <<"stop", "release", "last">>[1] = "stop"
  /\ Range(<<"stop", "release", "last">>) = {"stop", "release", "last"}
  /\ ~Body(<<"stop", "release", "last">>)
  /\ ~AliveList(<<"stop", "release", "last">>)
<1>1. PICK n : n = <<"stop", "release", "last">>
  OBVIOUS
<1>2. n \in Seq(Ops) /\ Len(n) = 3 /\ n[1] = "stop" /\ n[2] = "release" /\ n[3] = "last"
  BY <1>1 DEF Ops, Sections, Inner, Locking, Later, Firsts, TailOps, Sequels
<1>3. Plan(n)
  BY ONLY <1>1 DEF Plan, Sound, Ends, Ops, Sections, Inner, Locking, StopOps, Later, Firsts, TailOps, Sequels
<1>4. Range(n) = {"stop", "release", "last"}
  BY ONLY <1>1 DEF Range
<1>5. n # <<>> /\ Head(n) = n[1]
  <2>1. n \in Seq(Ops) /\ Len(n) >= 1
    BY ONLY <1>2
  <2>2. n # <<>>
    BY ONLY <2>1, Filled
  <2> QED BY ONLY <2>1, <2>2, Shifted
<1>6. ~Body(n)
  BY ONLY <1>2, <1>4 DEF Body, PassOps
<1>7. ~AliveList(n)
  BY ONLY <1>2, <1>4 DEF AliveList
<1> QED BY <1>1, <1>2, <1>3, <1>4, <1>5, <1>6, <1>7

\* The list of the check for the last client.
LEMMA LastList ==
  /\ <<"last">> \in Seq(Ops) /\ Plan(<<"last">>)
  /\ <<"last">> # <<>> /\ Head(<<"last">>) = "last" /\ <<"last">>[1] = "last"
  /\ Range(<<"last">>) = {"last"}
  /\ ~Body(<<"last">>)
  /\ ~AliveList(<<"last">>)
<1>1. PICK n : n = <<"last">>
  OBVIOUS
<1>2. n \in Seq(Ops) /\ Len(n) = 1 /\ n[1] = "last"
  BY <1>1 DEF Ops, Sections, Inner, Locking, Later, Firsts, TailOps, Sequels
<1>3. Plan(n)
  BY ONLY <1>1 DEF Plan, Sound, Ends, Ops, Sections, Inner, Locking, StopOps, Later, Firsts, TailOps, Sequels
<1>4. Range(n) = {"last"}
  BY ONLY <1>1 DEF Range
<1>5. n # <<>> /\ Head(n) = n[1]
  <2>1. n \in Seq(Ops) /\ Len(n) >= 1
    BY ONLY <1>2
  <2>2. n # <<>>
    BY ONLY <2>1, Filled
  <2> QED BY ONLY <2>1, <2>2, Shifted
<1>6. ~Body(n)
  BY ONLY <1>2, <1>4 DEF Body, PassOps
<1>7. ~AliveList(n)
  BY ONLY <1>2, <1>4 DEF AliveList
<1> QED BY <1>1, <1>2, <1>3, <1>4, <1>5, <1>6, <1>7

\* The list of START_VIDEO.
LEMMA StartVideoList ==
  /\ <<"start", "release", "after_start">> \in Seq(Ops) /\ Plan(<<"start", "release", "after_start">>)
  /\ <<"start", "release", "after_start">> # <<>> /\ Head(<<"start", "release", "after_start">>) = "start" /\ <<"start", "release", "after_start">>[1] = "start"
  /\ Range(<<"start", "release", "after_start">>) = {"start", "release", "after_start"}
  /\ ~Body(<<"start", "release", "after_start">>)
  /\ NowList(<<"start", "release", "after_start">>)
  /\ ~BareList(<<"start", "release", "after_start">>)
  /\ MonitorList(<<"start", "release", "after_start">>)
  /\ ~AliveList(<<"start", "release", "after_start">>)
<1>1. PICK n : n = <<"start", "release", "after_start">>
  OBVIOUS
<1>2. n \in Seq(Ops) /\ Len(n) = 3 /\ n[1] = "start" /\ n[2] = "release" /\ n[3] = "after_start"
  BY <1>1 DEF Ops, Sections, Inner, Locking, Later, Firsts, TailOps, Sequels
<1>3. Plan(n)
  BY ONLY <1>1 DEF Plan, Sound, Ends, Ops, Sections, Inner, Locking, StopOps, Later, Firsts, TailOps, Sequels
<1>4. Range(n) = {"start", "release", "after_start"}
  BY ONLY <1>1 DEF Range
<1>5. n # <<>> /\ Head(n) = n[1]
  <2>1. n \in Seq(Ops) /\ Len(n) >= 1
    BY ONLY <1>2
  <2>2. n # <<>>
    BY ONLY <2>1, Filled
  <2> QED BY ONLY <2>1, <2>2, Shifted
<1>6. ~Body(n)
  BY ONLY <1>2, <1>4 DEF Body, PassOps
<1>7. NowList(n)
  BY ONLY <1>2, <1>4 DEF NowList
<1>8. ~BareList(n)
  BY ONLY <1>2, <1>4 DEF BareList
<1>9. MonitorList(n)
  BY ONLY <1>2, <1>4 DEF MonitorList
<1>10. ~AliveList(n)
  BY ONLY <1>2, <1>4 DEF AliveList
<1> QED BY <1>1, <1>2, <1>3, <1>4, <1>5, <1>6, <1>7, <1>8, <1>9, <1>10

\* The list of a rejoin that starts the capture.
LEMMA RejoinList ==
  /\ <<"start", "release", "after_rejoin">> \in Seq(Ops) /\ Plan(<<"start", "release", "after_rejoin">>)
  /\ <<"start", "release", "after_rejoin">> # <<>> /\ Head(<<"start", "release", "after_rejoin">>) = "start" /\ <<"start", "release", "after_rejoin">>[1] = "start"
  /\ Range(<<"start", "release", "after_rejoin">>) = {"start", "release", "after_rejoin"}
  /\ ~Body(<<"start", "release", "after_rejoin">>)
  /\ ~BareList(<<"start", "release", "after_rejoin">>)
  /\ ~AliveList(<<"start", "release", "after_rejoin">>)
  /\ Range(<<"start", "release", "after_rejoin">>) \subseteq RejoinOps
<1>1. PICK n : n = <<"start", "release", "after_rejoin">>
  OBVIOUS
<1>2. n \in Seq(Ops) /\ Len(n) = 3 /\ n[1] = "start" /\ n[2] = "release" /\ n[3] = "after_rejoin"
  BY <1>1 DEF Ops, Sections, Inner, Locking, Later, Firsts, TailOps, Sequels
<1>3. Plan(n)
  BY ONLY <1>1 DEF Plan, Sound, Ends, Ops, Sections, Inner, Locking, StopOps, Later, Firsts, TailOps, Sequels
<1>4. Range(n) = {"start", "release", "after_rejoin"}
  BY ONLY <1>1 DEF Range
<1>5. n # <<>> /\ Head(n) = n[1]
  <2>1. n \in Seq(Ops) /\ Len(n) >= 1
    BY ONLY <1>2
  <2>2. n # <<>>
    BY ONLY <2>1, Filled
  <2> QED BY ONLY <2>1, <2>2, Shifted
<1>6. ~Body(n)
  BY ONLY <1>2, <1>4 DEF Body, PassOps
<1>7. ~BareList(n)
  BY ONLY <1>2, <1>4 DEF BareList
<1>8. ~AliveList(n)
  BY ONLY <1>2, <1>4 DEF AliveList
<1>9. Range(n) \subseteq RejoinOps
  BY ONLY <1>2, <1>4 DEF RejoinOps, Inner
<1> QED BY <1>1, <1>2, <1>3, <1>4, <1>5, <1>6, <1>7, <1>8, <1>9

\* The list of a resize that rebuilds the capture.
LEMMA RebuildList ==
  /\ <<"stop", "release", "start", "release", "resized">> \in Seq(Ops) /\ Plan(<<"stop", "release", "start", "release", "resized">>)
  /\ <<"stop", "release", "start", "release", "resized">> # <<>> /\ Head(<<"stop", "release", "start", "release", "resized">>) = "stop" /\ <<"stop", "release", "start", "release", "resized">>[1] = "stop"
  /\ Range(<<"stop", "release", "start", "release", "resized">>) = {"stop", "release", "start", "resized"}
  /\ ~Body(<<"stop", "release", "start", "release", "resized">>)
  /\ ~BareList(<<"stop", "release", "start", "release", "resized">>)
  /\ \A b \in BOOLEAN : LaterList(<<"stop", "release", "start", "release", "resized">>, b)
  /\ MonitorList(<<"stop", "release", "start", "release", "resized">>)
  /\ ~AliveList(<<"stop", "release", "start", "release", "resized">>)
<1>1. PICK n : n = <<"stop", "release", "start", "release", "resized">>
  OBVIOUS
<1>2. n \in Seq(Ops) /\ Len(n) = 5 /\ n[1] = "stop" /\ n[2] = "release" /\ n[3] = "start" /\ n[4] = "release" /\ n[5] = "resized"
  BY <1>1 DEF Ops, Sections, Inner, Locking, Later, Firsts, TailOps, Sequels
<1>3. Plan(n)
  BY ONLY <1>1 DEF Plan, Sound, Ends, Ops, Sections, Inner, Locking, StopOps, Later, Firsts, TailOps, Sequels
<1>4. Range(n) = {"stop", "release", "start", "resized"}
  BY ONLY <1>1 DEF Range
<1>5. n # <<>> /\ Head(n) = n[1]
  <2>1. n \in Seq(Ops) /\ Len(n) >= 1
    BY ONLY <1>2
  <2>2. n # <<>>
    BY ONLY <2>1, Filled
  <2> QED BY ONLY <2>1, <2>2, Shifted
<1>6. ~Body(n)
  BY ONLY <1>2, <1>4 DEF Body, PassOps
<1>7. ~BareList(n)
  BY ONLY <1>2, <1>4 DEF BareList
<1>8. \A b \in BOOLEAN : LaterList(n, b)
  BY ONLY <1>2, <1>4 DEF LaterList
<1>9. MonitorList(n)
  BY ONLY <1>2, <1>4 DEF MonitorList
<1>10. ~AliveList(n)
  BY ONLY <1>2, <1>4 DEF AliveList
<1> QED BY <1>1, <1>2, <1>3, <1>4, <1>5, <1>6, <1>7, <1>8, <1>9, <1>10

\* The list of a restart in place.
LEMMA RestartList ==
  /\ <<"stop", "release", "start", "release", "bp", "unguard">> \in Seq(Ops) /\ Plan(<<"stop", "release", "start", "release", "bp", "unguard">>)
  /\ <<"stop", "release", "start", "release", "bp", "unguard">> # <<>> /\ Head(<<"stop", "release", "start", "release", "bp", "unguard">>) = "stop" /\ <<"stop", "release", "start", "release", "bp", "unguard">>[1] = "stop"
  /\ Range(<<"stop", "release", "start", "release", "bp", "unguard">>) = {"stop", "release", "start", "bp", "unguard"}
  /\ Body(<<"stop", "release", "start", "release", "bp", "unguard">>)
  /\ ~BareList(<<"stop", "release", "start", "release", "bp", "unguard">>)
  /\ \A b \in BOOLEAN : LaterList(<<"stop", "release", "start", "release", "bp", "unguard">>, b)
  /\ MonitorList(<<"stop", "release", "start", "release", "bp", "unguard">>)
  /\ ~AliveList(<<"stop", "release", "start", "release", "bp", "unguard">>)
<1>1. PICK n : n = <<"stop", "release", "start", "release", "bp", "unguard">>
  OBVIOUS
<1>2. n \in Seq(Ops) /\ Len(n) = 6 /\ n[1] = "stop" /\ n[2] = "release" /\ n[3] = "start" /\ n[4] = "release" /\ n[5] = "bp" /\ n[6] = "unguard"
  BY <1>1 DEF Ops, Sections, Inner, Locking, Later, Firsts, TailOps, Sequels
<1>3. Plan(n)
  BY ONLY <1>1 DEF Plan, Sound, Ends, Ops, Sections, Inner, Locking, StopOps, Later, Firsts, TailOps, Sequels
<1>4. Range(n) = {"stop", "release", "start", "bp", "unguard"}
  BY ONLY <1>1 DEF Range
<1>5. n # <<>> /\ Head(n) = n[1]
  <2>1. n \in Seq(Ops) /\ Len(n) >= 1
    BY ONLY <1>2
  <2>2. n # <<>>
    BY ONLY <2>1, Filled
  <2> QED BY ONLY <2>1, <2>2, Shifted
<1>6. Body(n)
  BY ONLY <1>2, <1>4 DEF Body, PassOps
<1>7. ~BareList(n)
  BY ONLY <1>2, <1>4 DEF BareList
<1>8. \A b \in BOOLEAN : LaterList(n, b)
  BY ONLY <1>2, <1>4 DEF LaterList
<1>9. MonitorList(n)
  BY ONLY <1>2, <1>4 DEF MonitorList
<1>10. ~AliveList(n)
  BY ONLY <1>2, <1>4 DEF AliveList
<1> QED BY <1>1, <1>2, <1>3, <1>4, <1>5, <1>6, <1>7, <1>8, <1>9, <1>10

\* The list of the end of a guarded section.
LEMMA UnguardList ==
  /\ <<"unguard">> \in Seq(Ops) /\ Plan(<<"unguard">>)
  /\ <<"unguard">> # <<>> /\ Head(<<"unguard">>) = "unguard" /\ <<"unguard">>[1] = "unguard"
  /\ Range(<<"unguard">>) = {"unguard"}
  /\ Body(<<"unguard">>)
  /\ ~AliveList(<<"unguard">>)
<1>1. PICK n : n = <<"unguard">>
  OBVIOUS
<1>2. n \in Seq(Ops) /\ Len(n) = 1 /\ n[1] = "unguard"
  BY <1>1 DEF Ops, Sections, Inner, Locking, Later, Firsts, TailOps, Sequels
<1>3. Plan(n)
  BY ONLY <1>1 DEF Plan, Sound, Ends, Ops, Sections, Inner, Locking, StopOps, Later, Firsts, TailOps, Sequels
<1>4. Range(n) = {"unguard"}
  BY ONLY <1>1 DEF Range
<1>5. n # <<>> /\ Head(n) = n[1]
  <2>1. n \in Seq(Ops) /\ Len(n) >= 1
    BY ONLY <1>2
  <2>2. n # <<>>
    BY ONLY <2>1, Filled
  <2> QED BY ONLY <2>1, <2>2, Shifted
<1>6. Body(n)
  BY ONLY <1>2, <1>4 DEF Body, PassOps
<1>7. ~AliveList(n)
  BY ONLY <1>2, <1>4 DEF AliveList
<1> QED BY <1>1, <1>2, <1>3, <1>4, <1>5, <1>6, <1>7

\* The list of a resize of the live capture.
LEMMA ResizeLiveList ==
  /\ <<"relive", "release">> \in Seq(Ops) /\ Plan(<<"relive", "release">>)
  /\ <<"relive", "release">> # <<>> /\ Head(<<"relive", "release">>) = "relive" /\ <<"relive", "release">>[1] = "relive"
  /\ Range(<<"relive", "release">>) = {"relive", "release"}
  /\ ~Body(<<"relive", "release">>)
  /\ ~BareList(<<"relive", "release">>)
  /\ ~AliveList(<<"relive", "release">>)
<1>1. PICK n : n = <<"relive", "release">>
  OBVIOUS
<1>2. n \in Seq(Ops) /\ Len(n) = 2 /\ n[1] = "relive" /\ n[2] = "release"
  BY <1>1 DEF Ops, Sections, Inner, Locking, Later, Firsts, TailOps, Sequels
<1>3. Plan(n)
  BY ONLY <1>1 DEF Plan, Sound, Ends, Ops, Sections, Inner, Locking, StopOps, Later, Firsts, TailOps, Sequels
<1>4. Range(n) = {"relive", "release"}
  BY ONLY <1>1 DEF Range
<1>5. n # <<>> /\ Head(n) = n[1]
  <2>1. n \in Seq(Ops) /\ Len(n) >= 1
    BY ONLY <1>2
  <2>2. n # <<>>
    BY ONLY <2>1, Filled
  <2> QED BY ONLY <2>1, <2>2, Shifted
<1>6. ~Body(n)
  BY ONLY <1>2, <1>4 DEF Body, PassOps
<1>7. ~BareList(n)
  BY ONLY <1>2, <1>4 DEF BareList
<1>8. ~AliveList(n)
  BY ONLY <1>2, <1>4 DEF AliveList
<1> QED BY <1>1, <1>2, <1>3, <1>4, <1>5, <1>6, <1>7, <1>8

\* The list of a request for a pass.
LEMMA ReconfigureList ==
  /\ <<"reconfigure">> \in Seq(Ops) /\ Plan(<<"reconfigure">>)
  /\ <<"reconfigure">> # <<>> /\ Head(<<"reconfigure">>) = "reconfigure" /\ <<"reconfigure">>[1] = "reconfigure"
  /\ Range(<<"reconfigure">>) = {"reconfigure"}
  /\ ~Body(<<"reconfigure">>)
  /\ \A b \in BOOLEAN : LaterList(<<"reconfigure">>, b)
  /\ MonitorList(<<"reconfigure">>)
  /\ ~AliveList(<<"reconfigure">>)
<1>1. PICK n : n = <<"reconfigure">>
  OBVIOUS
<1>2. n \in Seq(Ops) /\ Len(n) = 1 /\ n[1] = "reconfigure"
  BY <1>1 DEF Ops, Sections, Inner, Locking, Later, Firsts, TailOps, Sequels
<1>3. Plan(n)
  BY ONLY <1>1 DEF Plan, Sound, Ends, Ops, Sections, Inner, Locking, StopOps, Later, Firsts, TailOps, Sequels
<1>4. Range(n) = {"reconfigure"}
  BY ONLY <1>1 DEF Range
<1>5. n # <<>> /\ Head(n) = n[1]
  <2>1. n \in Seq(Ops) /\ Len(n) >= 1
    BY ONLY <1>2
  <2>2. n # <<>>
    BY ONLY <2>1, Filled
  <2> QED BY ONLY <2>1, <2>2, Shifted
<1>6. ~Body(n)
  BY ONLY <1>2, <1>4 DEF Body, PassOps
<1>7. \A b \in BOOLEAN : LaterList(n, b)
  BY ONLY <1>2, <1>4 DEF LaterList
<1>8. MonitorList(n)
  BY ONLY <1>2, <1>4 DEF MonitorList
<1>9. ~AliveList(n)
  BY ONLY <1>2, <1>4 DEF AliveList
<1> QED BY <1>1, <1>2, <1>3, <1>4, <1>5, <1>6, <1>7, <1>8, <1>9

\* The list of a SETTINGS message.
LEMMA RegisterList ==
  /\ <<"register">> \in Seq(Ops) /\ Plan(<<"register">>)
  /\ <<"register">> # <<>> /\ Head(<<"register">>) = "register" /\ <<"register">>[1] = "register"
  /\ Range(<<"register">>) = {"register"}
  /\ ~Body(<<"register">>)
  /\ ~AliveList(<<"register">>)
<1>1. PICK n : n = <<"register">>
  OBVIOUS
<1>2. n \in Seq(Ops) /\ Len(n) = 1 /\ n[1] = "register"
  BY <1>1 DEF Ops, Sections, Inner, Locking, Later, Firsts, TailOps, Sequels
<1>3. Plan(n)
  BY ONLY <1>1 DEF Plan, Sound, Ends, Ops, Sections, Inner, Locking, StopOps, Later, Firsts, TailOps, Sequels
<1>4. Range(n) = {"register"}
  BY ONLY <1>1 DEF Range
<1>5. n # <<>> /\ Head(n) = n[1]
  <2>1. n \in Seq(Ops) /\ Len(n) >= 1
    BY ONLY <1>2
  <2>2. n # <<>>
    BY ONLY <2>1, Filled
  <2> QED BY ONLY <2>1, <2>2, Shifted
<1>6. ~Body(n)
  BY ONLY <1>2, <1>4 DEF Body, PassOps
<1>7. ~AliveList(n)
  BY ONLY <1>2, <1>4 DEF AliveList
<1> QED BY <1>1, <1>2, <1>3, <1>4, <1>5, <1>6, <1>7

\* The list of a departure.
LEMMA DepartedList ==
  /\ <<"departed">> \in Seq(Ops) /\ Plan(<<"departed">>)
  /\ <<"departed">> # <<>> /\ Head(<<"departed">>) = "departed" /\ <<"departed">>[1] = "departed"
  /\ Range(<<"departed">>) = {"departed"}
  /\ ~Body(<<"departed">>)
  /\ ~AliveList(<<"departed">>)
<1>1. PICK n : n = <<"departed">>
  OBVIOUS
<1>2. n \in Seq(Ops) /\ Len(n) = 1 /\ n[1] = "departed"
  BY <1>1 DEF Ops, Sections, Inner, Locking, Later, Firsts, TailOps, Sequels
<1>3. Plan(n)
  BY ONLY <1>1 DEF Plan, Sound, Ends, Ops, Sections, Inner, Locking, StopOps, Later, Firsts, TailOps, Sequels
<1>4. Range(n) = {"departed"}
  BY ONLY <1>1 DEF Range
<1>5. n # <<>> /\ Head(n) = n[1]
  <2>1. n \in Seq(Ops) /\ Len(n) >= 1
    BY ONLY <1>2
  <2>2. n # <<>>
    BY ONLY <2>1, Filled
  <2> QED BY ONLY <2>1, <2>2, Shifted
<1>6. ~Body(n)
  BY ONLY <1>2, <1>4 DEF Body, PassOps
<1>7. ~AliveList(n)
  BY ONLY <1>2, <1>4 DEF AliveList
<1> QED BY <1>1, <1>2, <1>3, <1>4, <1>5, <1>6, <1>7

\* The list of a deferred teardown.
LEMMA TeardownList ==
  /\ <<"teardown">> \in Seq(Ops) /\ Plan(<<"teardown">>)
  /\ <<"teardown">> # <<>> /\ Head(<<"teardown">>) = "teardown" /\ <<"teardown">>[1] = "teardown"
  /\ Range(<<"teardown">>) = {"teardown"}
  /\ ~Body(<<"teardown">>)
  /\ ~AliveList(<<"teardown">>)
<1>1. PICK n : n = <<"teardown">>
  OBVIOUS
<1>2. n \in Seq(Ops) /\ Len(n) = 1 /\ n[1] = "teardown"
  BY <1>1 DEF Ops, Sections, Inner, Locking, Later, Firsts, TailOps, Sequels
<1>3. Plan(n)
  BY ONLY <1>1 DEF Plan, Sound, Ends, Ops, Sections, Inner, Locking, StopOps, Later, Firsts, TailOps, Sequels
<1>4. Range(n) = {"teardown"}
  BY ONLY <1>1 DEF Range
<1>5. n # <<>> /\ Head(n) = n[1]
  <2>1. n \in Seq(Ops) /\ Len(n) >= 1
    BY ONLY <1>2
  <2>2. n # <<>>
    BY ONLY <2>1, Filled
  <2> QED BY ONLY <2>1, <2>2, Shifted
<1>6. ~Body(n)
  BY ONLY <1>2, <1>4 DEF Body, PassOps
<1>7. ~AliveList(n)
  BY ONLY <1>2, <1>4 DEF AliveList
<1> QED BY <1>1, <1>2, <1>3, <1>4, <1>5, <1>6, <1>7

\* The list of a deferred rejoin.
LEMMA DeferredList ==
  /\ <<"rejoin">> \in Seq(Ops) /\ Plan(<<"rejoin">>)
  /\ <<"rejoin">> # <<>> /\ Head(<<"rejoin">>) = "rejoin" /\ <<"rejoin">>[1] = "rejoin"
  /\ Range(<<"rejoin">>) = {"rejoin"}
  /\ ~Body(<<"rejoin">>)
  /\ ~AliveList(<<"rejoin">>)
  /\ Range(<<"rejoin">>) \subseteq RejoinOps
<1>1. PICK n : n = <<"rejoin">>
  OBVIOUS
<1>2. n \in Seq(Ops) /\ Len(n) = 1 /\ n[1] = "rejoin"
  BY <1>1 DEF Ops, Sections, Inner, Locking, Later, Firsts, TailOps, Sequels
<1>3. Plan(n)
  BY ONLY <1>1 DEF Plan, Sound, Ends, Ops, Sections, Inner, Locking, StopOps, Later, Firsts, TailOps, Sequels
<1>4. Range(n) = {"rejoin"}
  BY ONLY <1>1 DEF Range
<1>5. n # <<>> /\ Head(n) = n[1]
  <2>1. n \in Seq(Ops) /\ Len(n) >= 1
    BY ONLY <1>2
  <2>2. n # <<>>
    BY ONLY <2>1, Filled
  <2> QED BY ONLY <2>1, <2>2, Shifted
<1>6. ~Body(n)
  BY ONLY <1>2, <1>4 DEF Body, PassOps
<1>7. ~AliveList(n)
  BY ONLY <1>2, <1>4 DEF AliveList
<1>8. Range(n) \subseteq RejoinOps
  BY ONLY <1>2, <1>4 DEF RejoinOps, Inner
<1> QED BY <1>1, <1>2, <1>3, <1>4, <1>5, <1>6, <1>7, <1>8

\* The list of a rejoin that has told its viewer.
LEMMA ToldList ==
  /\ <<"rejoin_told">> \in Seq(Ops) /\ Plan(<<"rejoin_told">>)
  /\ <<"rejoin_told">> # <<>> /\ Head(<<"rejoin_told">>) = "rejoin_told" /\ <<"rejoin_told">>[1] = "rejoin_told"
  /\ Range(<<"rejoin_told">>) = {"rejoin_told"}
  /\ ~Body(<<"rejoin_told">>)
  /\ ~AliveList(<<"rejoin_told">>)
  /\ Range(<<"rejoin_told">>) \subseteq RejoinOps
<1>1. PICK n : n = <<"rejoin_told">>
  OBVIOUS
<1>2. n \in Seq(Ops) /\ Len(n) = 1 /\ n[1] = "rejoin_told"
  BY <1>1 DEF Ops, Sections, Inner, Locking, Later, Firsts, TailOps, Sequels
<1>3. Plan(n)
  BY ONLY <1>1 DEF Plan, Sound, Ends, Ops, Sections, Inner, Locking, StopOps, Later, Firsts, TailOps, Sequels
<1>4. Range(n) = {"rejoin_told"}
  BY ONLY <1>1 DEF Range
<1>5. n # <<>> /\ Head(n) = n[1]
  <2>1. n \in Seq(Ops) /\ Len(n) >= 1
    BY ONLY <1>2
  <2>2. n # <<>>
    BY ONLY <2>1, Filled
  <2> QED BY ONLY <2>1, <2>2, Shifted
<1>6. ~Body(n)
  BY ONLY <1>2, <1>4 DEF Body, PassOps
<1>7. ~AliveList(n)
  BY ONLY <1>2, <1>4 DEF AliveList
<1>8. Range(n) \subseteq RejoinOps
  BY ONLY <1>2, <1>4 DEF RejoinOps, Inner
<1> QED BY <1>1, <1>2, <1>3, <1>4, <1>5, <1>6, <1>7, <1>8

\* The list of settings that a pass follows.
LEMMA FirstSettingsList ==
  /\ <<"guard", "unguard", "reconfigure">> \in Seq(Ops) /\ Plan(<<"guard", "unguard", "reconfigure">>)
  /\ <<"guard", "unguard", "reconfigure">> # <<>> /\ Head(<<"guard", "unguard", "reconfigure">>) = "guard" /\ <<"guard", "unguard", "reconfigure">>[1] = "guard"
  /\ Range(<<"guard", "unguard", "reconfigure">>) = {"guard", "unguard", "reconfigure"}
  /\ ~Body(<<"guard", "unguard", "reconfigure">>)
  /\ \A b \in BOOLEAN : LaterList(<<"guard", "unguard", "reconfigure">>, b)
  /\ MonitorList(<<"guard", "unguard", "reconfigure">>)
  /\ ~AliveList(<<"guard", "unguard", "reconfigure">>)
<1>1. PICK n : n = <<"guard", "unguard", "reconfigure">>
  OBVIOUS
<1>2. n \in Seq(Ops) /\ Len(n) = 3 /\ n[1] = "guard" /\ n[2] = "unguard" /\ n[3] = "reconfigure"
  BY <1>1 DEF Ops, Sections, Inner, Locking, Later, Firsts, TailOps, Sequels
<1>3. Plan(n)
  BY ONLY <1>1 DEF Plan, Sound, Ends, Ops, Sections, Inner, Locking, StopOps, Later, Firsts, TailOps, Sequels
<1>4. Range(n) = {"guard", "unguard", "reconfigure"}
  BY ONLY <1>1 DEF Range
<1>5. n # <<>> /\ Head(n) = n[1]
  <2>1. n \in Seq(Ops) /\ Len(n) >= 1
    BY ONLY <1>2
  <2>2. n # <<>>
    BY ONLY <2>1, Filled
  <2> QED BY ONLY <2>1, <2>2, Shifted
<1>6. ~Body(n)
  BY ONLY <1>2, <1>4 DEF Body, PassOps
<1>7. \A b \in BOOLEAN : LaterList(n, b)
  BY ONLY <1>2, <1>4 DEF LaterList
<1>8. MonitorList(n)
  BY ONLY <1>2, <1>4 DEF MonitorList
<1>9. ~AliveList(n)
  BY ONLY <1>2, <1>4 DEF AliveList
<1> QED BY <1>1, <1>2, <1>3, <1>4, <1>5, <1>6, <1>7, <1>8, <1>9

\* The list of settings that apply live.
LEMMA SettingsList ==
  /\ <<"guard", "unguard">> \in Seq(Ops) /\ Plan(<<"guard", "unguard">>)
  /\ <<"guard", "unguard">> # <<>> /\ Head(<<"guard", "unguard">>) = "guard" /\ <<"guard", "unguard">>[1] = "guard"
  /\ Range(<<"guard", "unguard">>) = {"guard", "unguard"}
  /\ ~Body(<<"guard", "unguard">>)
  /\ ~AliveList(<<"guard", "unguard">>)
<1>1. PICK n : n = <<"guard", "unguard">>
  OBVIOUS
<1>2. n \in Seq(Ops) /\ Len(n) = 2 /\ n[1] = "guard" /\ n[2] = "unguard"
  BY <1>1 DEF Ops, Sections, Inner, Locking, Later, Firsts, TailOps, Sequels
<1>3. Plan(n)
  BY ONLY <1>1 DEF Plan, Sound, Ends, Ops, Sections, Inner, Locking, StopOps, Later, Firsts, TailOps, Sequels
<1>4. Range(n) = {"guard", "unguard"}
  BY ONLY <1>1 DEF Range
<1>5. n # <<>> /\ Head(n) = n[1]
  <2>1. n \in Seq(Ops) /\ Len(n) >= 1
    BY ONLY <1>2
  <2>2. n # <<>>
    BY ONLY <2>1, Filled
  <2> QED BY ONLY <2>1, <2>2, Shifted
<1>6. ~Body(n)
  BY ONLY <1>2, <1>4 DEF Body, PassOps
<1>7. ~AliveList(n)
  BY ONLY <1>2, <1>4 DEF AliveList
<1> QED BY <1>1, <1>2, <1>3, <1>4, <1>5, <1>6, <1>7

\* The list of settings that restart the capture.
LEMMA RestartSettingsList ==
  /\ <<"guard", "restart", "unguard">> \in Seq(Ops) /\ Plan(<<"guard", "restart", "unguard">>)
  /\ <<"guard", "restart", "unguard">> # <<>> /\ Head(<<"guard", "restart", "unguard">>) = "guard" /\ <<"guard", "restart", "unguard">>[1] = "guard"
  /\ Range(<<"guard", "restart", "unguard">>) = {"guard", "restart", "unguard"}
  /\ ~Body(<<"guard", "restart", "unguard">>)
  /\ ~AliveList(<<"guard", "restart", "unguard">>)
<1>1. PICK n : n = <<"guard", "restart", "unguard">>
  OBVIOUS
<1>2. n \in Seq(Ops) /\ Len(n) = 3 /\ n[1] = "guard" /\ n[2] = "restart" /\ n[3] = "unguard"
  BY <1>1 DEF Ops, Sections, Inner, Locking, Later, Firsts, TailOps, Sequels
<1>3. Plan(n)
  BY ONLY <1>1 DEF Plan, Sound, Ends, Ops, Sections, Inner, Locking, StopOps, Later, Firsts, TailOps, Sequels
<1>4. Range(n) = {"guard", "restart", "unguard"}
  BY ONLY <1>1 DEF Range
<1>5. n # <<>> /\ Head(n) = n[1]
  <2>1. n \in Seq(Ops) /\ Len(n) >= 1
    BY ONLY <1>2
  <2>2. n # <<>>
    BY ONLY <2>1, Filled
  <2> QED BY ONLY <2>1, <2>2, Shifted
<1>6. ~Body(n)
  BY ONLY <1>2, <1>4 DEF Body, PassOps
<1>7. ~AliveList(n)
  BY ONLY <1>2, <1>4 DEF AliveList
<1> QED BY <1>1, <1>2, <1>3, <1>4, <1>5, <1>6, <1>7

\* The list of a teardown.
LEMMA TornDownList ==
  /\ <<"reconfigure", "unconsumed", "last">> \in Seq(Ops) /\ Plan(<<"reconfigure", "unconsumed", "last">>)
  /\ <<"reconfigure", "unconsumed", "last">> # <<>> /\ Head(<<"reconfigure", "unconsumed", "last">>) = "reconfigure" /\ <<"reconfigure", "unconsumed", "last">>[1] = "reconfigure"
  /\ Range(<<"reconfigure", "unconsumed", "last">>) = {"reconfigure", "unconsumed", "last"}
  /\ ~Body(<<"reconfigure", "unconsumed", "last">>)
  /\ \A b \in BOOLEAN : LaterList(<<"reconfigure", "unconsumed", "last">>, b)
  /\ MonitorList(<<"reconfigure", "unconsumed", "last">>)
  /\ ~AliveList(<<"reconfigure", "unconsumed", "last">>)
<1>1. PICK n : n = <<"reconfigure", "unconsumed", "last">>
  OBVIOUS
<1>2. n \in Seq(Ops) /\ Len(n) = 3 /\ n[1] = "reconfigure" /\ n[2] = "unconsumed" /\ n[3] = "last"
  BY <1>1 DEF Ops, Sections, Inner, Locking, Later, Firsts, TailOps, Sequels
<1>3. Plan(n)
  BY ONLY <1>1 DEF Plan, Sound, Ends, Ops, Sections, Inner, Locking, StopOps, Later, Firsts, TailOps, Sequels
<1>4. Range(n) = {"reconfigure", "unconsumed", "last"}
  BY ONLY <1>1 DEF Range
<1>5. n # <<>> /\ Head(n) = n[1]
  <2>1. n \in Seq(Ops) /\ Len(n) >= 1
    BY ONLY <1>2
  <2>2. n # <<>>
    BY ONLY <2>1, Filled
  <2> QED BY ONLY <2>1, <2>2, Shifted
<1>6. ~Body(n)
  BY ONLY <1>2, <1>4 DEF Body, PassOps
<1>7. \A b \in BOOLEAN : LaterList(n, b)
  BY ONLY <1>2, <1>4 DEF LaterList
<1>8. MonitorList(n)
  BY ONLY <1>2, <1>4 DEF MonitorList
<1>9. ~AliveList(n)
  BY ONLY <1>2, <1>4 DEF AliveList
<1> QED BY <1>1, <1>2, <1>3, <1>4, <1>5, <1>6, <1>7, <1>8, <1>9

\* The list of the shutdown after a last client.
LEMMA ShutdownList ==
  /\ <<"reconfigure", "guard", "bp_off", "unguard">> \in Seq(Ops) /\ Plan(<<"reconfigure", "guard", "bp_off", "unguard">>)
  /\ <<"reconfigure", "guard", "bp_off", "unguard">> # <<>> /\ Head(<<"reconfigure", "guard", "bp_off", "unguard">>) = "reconfigure" /\ <<"reconfigure", "guard", "bp_off", "unguard">>[1] = "reconfigure"
  /\ Range(<<"reconfigure", "guard", "bp_off", "unguard">>) = {"reconfigure", "guard", "bp_off", "unguard"}
  /\ ~Body(<<"reconfigure", "guard", "bp_off", "unguard">>)
  /\ \A b \in BOOLEAN : LaterList(<<"reconfigure", "guard", "bp_off", "unguard">>, b)
  /\ MonitorList(<<"reconfigure", "guard", "bp_off", "unguard">>)
  /\ ~AliveList(<<"reconfigure", "guard", "bp_off", "unguard">>)
<1>1. PICK n : n = <<"reconfigure", "guard", "bp_off", "unguard">>
  OBVIOUS
<1>2. n \in Seq(Ops) /\ Len(n) = 4 /\ n[1] = "reconfigure" /\ n[2] = "guard" /\ n[3] = "bp_off" /\ n[4] = "unguard"
  BY <1>1 DEF Ops, Sections, Inner, Locking, Later, Firsts, TailOps, Sequels
<1>3. Plan(n)
  BY ONLY <1>1 DEF Plan, Sound, Ends, Ops, Sections, Inner, Locking, StopOps, Later, Firsts, TailOps, Sequels
<1>4. Range(n) = {"reconfigure", "guard", "bp_off", "unguard"}
  BY ONLY <1>1 DEF Range
<1>5. n # <<>> /\ Head(n) = n[1]
  <2>1. n \in Seq(Ops) /\ Len(n) >= 1
    BY ONLY <1>2
  <2>2. n # <<>>
    BY ONLY <2>1, Filled
  <2> QED BY ONLY <2>1, <2>2, Shifted
<1>6. ~Body(n)
  BY ONLY <1>2, <1>4 DEF Body, PassOps
<1>7. \A b \in BOOLEAN : LaterList(n, b)
  BY ONLY <1>2, <1>4 DEF LaterList
<1>8. MonitorList(n)
  BY ONLY <1>2, <1>4 DEF MonitorList
<1>9. ~AliveList(n)
  BY ONLY <1>2, <1>4 DEF AliveList
<1> QED BY <1>1, <1>2, <1>3, <1>4, <1>5, <1>6, <1>7, <1>8, <1>9

-----------------------------------------------------------------------------
(* Lists, spelled *)

\* An empty list on the left.
LEMMA Alone == ASSUME NEW k \in Seq(Ops) PROVE <<>> \o k = k /\ k \o <<>> = k
  BY ConcatEmptySeq

\* Three, joined.
LEMMA Three == ASSUME NEW x \in Ops, NEW y \in Ops, NEW z \in Ops
               PROVE  <<x, y>> \o <<z>> = <<x, y, z>> /\ <<x>> \o <<y, z>> = <<x, y, z>>
<1>0. /\ <<x, y>> \in Seq(Ops) /\ <<z>> \in Seq(Ops) /\ <<x, y, z>> \in Seq(Ops)
      /\ <<x>> \in Seq(Ops) /\ <<y, z>> \in Seq(Ops)
  OBVIOUS
<1>3. PICK n \in Seq(Ops) : n = <<x, y, z>> /\ Len(n) = 3 /\ n[1] = x /\ n[2] = y /\ n[3] = z
  BY <1>0
<1>4. <<x, y>> \o <<z>> = n
  <2>1. PICK a \in Seq(Ops) : a = <<x, y>> /\ Len(a) = 2 /\ a[1] = x /\ a[2] = y
    BY <1>0
  <2>2. PICK k \in Seq(Ops) : k = <<z>> /\ Len(k) = 1 /\ k[1] = z
    BY <1>0
  <2>3. Len(n) = 3 /\ Len(a) = 2 /\ Len(k) = 1 /\ n[1] = a[1] /\ n[2] = a[2] /\ n[2 + 1] = k[1]
    BY <1>3, <2>1, <2>2
  <2>4. /\ Len(n) = Len(a) + Len(k)
        /\ \A i \in 1 .. Len(a) : n[i] = a[i]
        /\ \A i \in 1 .. Len(k) : n[Len(a) + i] = k[i]
    BY ONLY <2>3
  <2>5. a \o k = n
    BY ONLY <2>4, IsJoined
  <2> QED BY <2>1, <2>2, <2>5
<1>5. <<x>> \o <<y, z>> = n
  <2>1. PICK a \in Seq(Ops) : a = <<x>> /\ Len(a) = 1 /\ a[1] = x
    BY <1>0
  <2>2. PICK k \in Seq(Ops) : k = <<y, z>> /\ Len(k) = 2 /\ k[1] = y /\ k[2] = z
    BY <1>0
  <2>3. Len(n) = 3 /\ Len(a) = 1 /\ Len(k) = 2 /\ n[1] = a[1] /\ n[1 + 1] = k[1] /\ n[1 + 2] = k[2]
    BY <1>3, <2>1, <2>2
  <2>4. /\ Len(n) = Len(a) + Len(k)
        /\ \A i \in 1 .. Len(a) : n[i] = a[i]
        /\ \A i \in 1 .. Len(k) : n[Len(a) + i] = k[i]
    BY ONLY <2>3
  <2>5. a \o k = n
    BY ONLY <2>4, IsJoined
  <2> QED BY <2>1, <2>2, <2>5
<1> QED BY <1>3, <1>4, <1>5

\* Four.
LEMMA Four == ASSUME NEW x \in Ops, NEW y \in Ops, NEW z \in Ops, NEW w \in Ops
              PROVE  <<x, y>> \o <<z, w>> = <<x, y, z, w>>
<1>0. <<x, y>> \in Seq(Ops) /\ <<z, w>> \in Seq(Ops) /\ <<x, y, z, w>> \in Seq(Ops)
  OBVIOUS
<1>1. PICK a \in Seq(Ops) : a = <<x, y>> /\ Len(a) = 2 /\ a[1] = x /\ a[2] = y
  BY <1>0
<1>2. PICK k \in Seq(Ops) : k = <<z, w>> /\ Len(k) = 2 /\ k[1] = z /\ k[2] = w
  BY <1>0
<1>3. PICK n \in Seq(Ops) : n = <<x, y, z, w>> /\ Len(n) = 4 /\ n[1] = x /\ n[2] = y /\ n[3] = z /\ n[4] = w
  BY <1>0
<1>4. Len(n) = 4 /\ Len(a) = 2 /\ Len(k) = 2 /\ n[1] = a[1] /\ n[2] = a[2] /\ n[2 + 1] = k[1] /\ n[2 + 2] = k[2]
  BY <1>1, <1>2, <1>3
<1>5. /\ Len(n) = Len(a) + Len(k)
      /\ \A i \in 1 .. Len(a) : n[i] = a[i]
      /\ \A i \in 1 .. Len(k) : n[Len(a) + i] = k[i]
  BY ONLY <1>4
<1>6. a \o k = n
  BY ONLY <1>5, IsJoined
<1> QED BY <1>1, <1>2, <1>3, <1>6

\* Five.
LEMMA Five == ASSUME NEW x \in Ops, NEW y \in Ops, NEW z \in Ops, NEW w \in Ops, NEW u \in Ops
              PROVE  <<x, y, z, w>> \o <<u>> = <<x, y, z, w, u>>
<1>0. <<x, y, z, w>> \in Seq(Ops) /\ <<u>> \in Seq(Ops) /\ <<x, y, z, w, u>> \in Seq(Ops)
  OBVIOUS
<1>1. PICK a \in Seq(Ops) : a = <<x, y, z, w>> /\ Len(a) = 4 /\ a[1] = x /\ a[2] = y /\ a[3] = z /\ a[4] = w
  BY <1>0
<1>2. PICK k \in Seq(Ops) : k = <<u>> /\ Len(k) = 1 /\ k[1] = u
  BY <1>0
<1>3. PICK n \in Seq(Ops) : n = <<x, y, z, w, u>> /\ Len(n) = 5 /\ n[1] = x /\ n[2] = y /\ n[3] = z /\ n[4] = w /\ n[5] = u
  BY <1>0
<1>4. Len(n) = 5 /\ Len(a) = 4 /\ Len(k) = 1 /\ n[1] = a[1] /\ n[2] = a[2] /\ n[3] = a[3] /\ n[4] = a[4] /\ n[4 + 1] = k[1]
  BY <1>1, <1>2, <1>3
<1>5. /\ Len(n) = Len(a) + Len(k)
      /\ \A i \in 1 .. Len(a) : n[i] = a[i]
      /\ \A i \in 1 .. Len(k) : n[Len(a) + i] = k[i]
  BY ONLY <1>4
<1>6. a \o k = n
  BY ONLY <1>5, IsJoined
<1> QED BY <1>1, <1>2, <1>3, <1>6

\* Six.
LEMMA Six == ASSUME NEW x \in Ops, NEW y \in Ops, NEW z \in Ops, NEW w \in Ops, NEW u \in Ops, NEW v \in Ops
             PROVE  <<x, y, z, w, u>> \o <<v>> = <<x, y, z, w, u, v>>
<1>0. <<x, y, z, w, u>> \in Seq(Ops) /\ <<v>> \in Seq(Ops) /\ <<x, y, z, w, u, v>> \in Seq(Ops)
  OBVIOUS
<1>1. PICK a \in Seq(Ops) : a = <<x, y, z, w, u>> /\ Len(a) = 5 /\ a[1] = x /\ a[2] = y /\ a[3] = z /\ a[4] = w /\ a[5] = u
  BY <1>0
<1>2. PICK k \in Seq(Ops) : k = <<v>> /\ Len(k) = 1 /\ k[1] = v
  BY <1>0
<1>3. PICK n \in Seq(Ops) : n = <<x, y, z, w, u, v>> /\ Len(n) = 6 /\ n[1] = x /\ n[2] = y /\ n[3] = z /\ n[4] = w /\ n[5] = u /\ n[6] = v
  BY <1>0
<1>4. Len(n) = 6 /\ Len(a) = 5 /\ Len(k) = 1 /\ n[1] = a[1] /\ n[2] = a[2] /\ n[3] = a[3] /\ n[4] = a[4] /\ n[5] = a[5] /\ n[5 + 1] = k[1]
  BY <1>1, <1>2, <1>3
<1>5. /\ Len(n) = Len(a) + Len(k)
      /\ \A i \in 1 .. Len(a) : n[i] = a[i]
      /\ \A i \in 1 .. Len(k) : n[Len(a) + i] = k[i]
  BY ONLY <1>4
<1>6. a \o k = n
  BY ONLY <1>5, IsJoined
<1> QED BY <1>1, <1>2, <1>3, <1>6

\* The concatenations that the actions write, spelled out.
LEMMA Spelled ==
  /\ Stop \o <<"passed">> = <<"stop", "release", "passed">>
  /\ Stop \o <<"start_loop">> = <<"stop", "release", "start_loop">>
  /\ Stop \o <<"last">> = <<"stop", "release", "last">>
  /\ <<>> \o <<"passed">> = <<"passed">>
  /\ <<>> \o <<"unguard">> = <<"unguard">>
  /\ <<>> \o <<"bp", "followed">> = <<"bp", "followed">>
  /\ Start \o <<"bp", "followed">> = <<"start", "release", "bp", "followed">>
  /\ <<"relive", "release">> \o <<"bp", "followed">> = <<"relive", "release", "bp", "followed">>
  /\ Start \o <<"after_start">> = <<"start", "release", "after_start">>
  /\ Start \o <<"after_rejoin">> = <<"start", "release", "after_rejoin">>
  /\ Stop \o Start \o <<"resized">> = <<"stop", "release", "start", "release", "resized">>
  /\ Stop \o Start \o <<"bp">> \o <<"unguard">> = <<"stop", "release", "start", "release", "bp", "unguard">>
  /\ <<"guard">> \o <<>> \o <<"unguard">> = <<"guard", "unguard">>
  /\ <<"guard">> \o <<"restart">> \o <<"unguard">> = <<"guard", "restart", "unguard">>
<1>1. {"stop", "release", "passed", "start_loop", "last", "bp", "followed", "start", "relive",
       "after_start", "after_rejoin", "resized", "unguard", "guard", "restart"} \subseteq Ops
  BY DEF Ops, Sections, Locking, Later, Sequels, TailOps
<1>0. "stop" \in Ops /\ "release" \in Ops /\ "passed" \in Ops /\ "start_loop" \in Ops /\ "last" \in Ops /\ "bp" \in Ops /\ "followed" \in Ops /\ "start" \in Ops
      /\ "relive" \in Ops /\ "after_start" \in Ops /\ "after_rejoin" \in Ops /\ "resized" \in Ops /\ "unguard" \in Ops /\ "guard" \in Ops /\ "restart" \in Ops
  BY <1>1
<1>2. Stop = <<"stop", "release">> /\ Start = <<"start", "release">>
  BY DEF Stop, Start
<1>3. /\ Stop \o <<"passed">> = <<"stop", "release", "passed">>
      /\ Stop \o <<"start_loop">> = <<"stop", "release", "start_loop">>
      /\ Stop \o <<"last">> = <<"stop", "release", "last">>
      /\ Start \o <<"after_start">> = <<"start", "release", "after_start">>
      /\ Start \o <<"after_rejoin">> = <<"start", "release", "after_rejoin">>
  <2>1. <<"stop", "release">> \o <<"passed">> = <<"stop", "release", "passed">>
    BY ONLY <1>0, Three
  <2>2. <<"stop", "release">> \o <<"start_loop">> = <<"stop", "release", "start_loop">>
    BY ONLY <1>0, Three
  <2>3. <<"stop", "release">> \o <<"last">> = <<"stop", "release", "last">>
    BY ONLY <1>0, Three
  <2>4. <<"start", "release">> \o <<"after_start">> = <<"start", "release", "after_start">>
    BY ONLY <1>0, Three
  <2>5. <<"start", "release">> \o <<"after_rejoin">> = <<"start", "release", "after_rejoin">>
    BY ONLY <1>0, Three
  <2> QED BY ONLY <1>2, <2>1, <2>2, <2>3, <2>4, <2>5
<1>4. <<"passed">> \in Seq(Ops) /\ <<"unguard">> \in Seq(Ops) /\ <<"bp", "followed">> \in Seq(Ops) /\ <<"guard">> \in Seq(Ops)
  BY <1>1
<1>5. /\ <<>> \o <<"passed">> = <<"passed">>
      /\ <<>> \o <<"unguard">> = <<"unguard">>
      /\ <<>> \o <<"bp", "followed">> = <<"bp", "followed">>
      /\ <<"guard">> \o <<>> = <<"guard">>
  BY <1>4, Alone
<1>6. /\ Start \o <<"bp", "followed">> = <<"start", "release", "bp", "followed">>
      /\ <<"relive", "release">> \o <<"bp", "followed">> = <<"relive", "release", "bp", "followed">>
      /\ Stop \o Start = <<"stop", "release", "start", "release">>
  <2>1. <<"start", "release">> \o <<"bp", "followed">> = <<"start", "release", "bp", "followed">>
    BY ONLY <1>0, Four
  <2>2. <<"relive", "release">> \o <<"bp", "followed">> = <<"relive", "release", "bp", "followed">>
    BY ONLY <1>0, Four
  <2>3. <<"stop", "release">> \o <<"start", "release">> = <<"stop", "release", "start", "release">>
    BY ONLY <1>0, Four
  <2> QED BY ONLY <1>2, <2>1, <2>2, <2>3
<1>7. /\ Stop \o Start \o <<"resized">> = <<"stop", "release", "start", "release", "resized">>
      /\ Stop \o Start \o <<"bp">> = <<"stop", "release", "start", "release", "bp">>
  <2>1. <<"stop", "release", "start", "release">> \o <<"resized">> = <<"stop", "release", "start", "release", "resized">>
    BY ONLY <1>0, Five
  <2>2. <<"stop", "release", "start", "release">> \o <<"bp">> = <<"stop", "release", "start", "release", "bp">>
    BY ONLY <1>0, Five
  <2> QED BY ONLY <1>6, <2>1, <2>2
<1>8. Stop \o Start \o <<"bp">> \o <<"unguard">> = <<"stop", "release", "start", "release", "bp", "unguard">>
  <2>1. <<"stop", "release", "start", "release", "bp">> \o <<"unguard">> = <<"stop", "release", "start", "release", "bp", "unguard">>
    <3>1. PICK x \in Ops, y \in Ops, z \in Ops, w \in Ops :
            x = "stop" /\ y = "release" /\ z = "start" /\ w = "release"
      BY <1>0
    <3>2. PICK u \in Ops, v \in Ops : u = "bp" /\ v = "unguard"
      BY <1>0
    <3>3. <<x, y, z, w, u>> \o <<v>> = <<x, y, z, w, u, v>>
      BY Six
    <3> QED BY ONLY <3>1, <3>2, <3>3
  <2> QED BY ONLY <1>7, <2>1
<1>9. <<"guard">> \o <<>> \o <<"unguard">> = <<"guard", "unguard">>
  BY <1>1, <1>5, Two
<1>10. <<"guard">> \o <<"restart">> \o <<"unguard">> = <<"guard", "restart", "unguard">>
  <2>1. <<"guard">> \o <<"restart">> = <<"guard", "restart">>
    BY <1>1, Two
  <2>2. <<"guard", "restart">> \o <<"unguard">> = <<"guard", "restart", "unguard">>
    <3>1. "guard" \in Ops /\ "restart" \in Ops /\ "unguard" \in Ops
      BY <1>0
    <3>2. PICK x \in Ops, y \in Ops, z \in Ops : x = "guard" /\ y = "restart" /\ z = "unguard"
      BY <3>1
    <3>3. <<x, y>> \o <<z>> = <<x, y, z>>
      BY Three
    <3> QED BY ONLY <3>2, <3>3
  <2> QED BY ONLY <2>1, <2>2
<1> QED BY <1>3, <1>5, <1>6, <1>7, <1>8, <1>9, <1>10

-----------------------------------------------------------------------------
(* What the rest of a list still does *)

\* The rest of a list of a pass.
LEMMA EndingFacts ==
  ASSUME NEW s, Plan(s), s # <<>>,
         \/ s[1] \in {"pass", "outputs", "start_loop", "passed", "followed"}
         \/ s[1] = "reconfigure"
  PROVE  /\ Tail(s) \in Ending
         /\ Plan(Tail(s)) /\ Kept(Tail(s)) = Tail(s)
         /\ Tail(s) # <<>> => Tail(s)[1] \notin Sections
         /\ ~Body(Tail(s)) /\ ~MonitorList(Tail(s)) /\ ~AliveList(Tail(s))
         /\ Range(s) = {s[1]} \cup Range(Tail(s)) /\ Range(Tail(s)) \subseteq TailOps
<1>1. s \in Seq(Ops) /\ Sound(s) /\ Len(s) \in Nat /\ Len(s) >= 1 /\ 1 \in 1 .. Len(s)
  BY Listed DEF Plan
<1>2. Ends(s, 1)
  <2>1. CASE s[1] \in {"pass", "outputs", "start_loop", "passed", "followed"}
    BY ONLY <1>1, <2>1 DEF Sound
  <2>2. CASE s[1] = "reconfigure"
    <3>1. 1 = Len(s) \/ Ends(s, 1)
      BY ONLY <1>1, <2>2 DEF Sound
    <3> QED BY <3>1 DEF Ends
  <2> QED BY <2>1, <2>2
<1>3. PICK k : k = Tail(s)
  OBVIOUS
<1>4. k \in Ending /\ Range(k) \subseteq TailOps /\ ("guard" \in Range(k) <=> "unguard" \in Range(k))
  BY <1>2, <1>3, EndingOf, EndingType
<1>5. s[1] \notin Sections
  BY DEF Sections, Inner, Locking
<1>6. /\ Plan(k) /\ Kept(k) = k
      /\ k # <<>> => k[1] \notin Sections
  BY <1>3, <1>5, Dropping
<1>7. ~Body(k) /\ ~MonitorList(k) /\ ~AliveList(k)
  BY ONLY <1>4 DEF Body, MonitorList, AliveList, PassOps, TailOps
<1>8. Range(s) = {s[1]} \cup Range(k)
  BY <1>1, <1>3, Heads
<1> QED BY <1>3, <1>4, <1>6, <1>7, <1>8

\* What a list loses with a head that takes no lock.
LEMMA DroppingFacts ==
  ASSUME NEW s, Plan(s), s # <<>>, s[1] \notin Sections
  PROVE  /\ s[1] \notin PassOps \cup {"guard", "unguard"} => (Body(Tail(s)) <=> Body(s))
         /\ AliveList(Tail(s)) => AliveList(s)
         /\ \A b \in BOOLEAN : s[1] \notin {"reconfigure", "pass", "start_loop", "outputs"} /\ LaterList(s, b)
              => LaterList(Tail(s), b)
         /\ s[1] \notin {"bp", "after_start", "reconfigure", "pass", "judge", "outputs", "start_loop", "resized"}
              /\ MonitorList(s) => MonitorList(Tail(s))
         /\ Range(s) \subseteq RejoinOps => Range(Tail(s)) \subseteq RejoinOps
<1>1. s \in Seq(Ops) /\ Len(s) \in Nat
  BY Listed DEF Plan
<1>2. PICK n \in Seq(Ops) : n = Tail(s)
  BY <1>1, Shifted
<1>3. Range(s) = {s[1]} \cup Range(n) /\ s[1] \in Range(s)
  BY <1>1, <1>2, Heads
<1>4. "start" \notin Range(s) /\ (n # <<>> => n[1] \notin Sections)
  BY <1>2, Dropping
<1>5. s[1] \notin PassOps \cup {"guard", "unguard"} => (Body(n) <=> Body(s))
  BY ONLY <1>3 DEF Body
<1>6. AliveList(n) => AliveList(s)
  BY ONLY <1>3 DEF AliveList
<1>7. \A b \in BOOLEAN : s[1] \notin {"reconfigure", "pass", "start_loop", "outputs"} /\ LaterList(s, b) => LaterList(n, b)
  <2>1. ~(Len(s) >= 3 /\ s[3] = "start")
    <3>1. Len(s) >= 3 => s[3] \in Range(s)
      BY <1>1, Listed
    <3> QED BY <1>4, <3>1
  <2>2. n = <<>> => Range(n) = {}
    BY DEF Range
  <2>3. "judge" \in Sections
    BY DEF Sections, Locking
  <2> QED BY ONLY <1>3, <1>4, <2>1, <2>2, <2>3 DEF LaterList
<1>8. s[1] \notin {"bp", "after_start", "reconfigure", "pass", "judge", "outputs", "start_loop", "resized"}
        /\ MonitorList(s) => MonitorList(n)
  BY ONLY <1>3 DEF MonitorList
<1>9. Range(s) \subseteq RejoinOps => Range(n) \subseteq RejoinOps
  BY ONLY <1>3
<1> QED BY <1>2, <1>5, <1>6, <1>7, <1>8, <1>9

\* What a list loses with its section.
LEMMA LeavingFacts ==
  ASSUME NEW s, Plan(s), s # <<>>, s[1] \in {"stop", "relive", "judge"} \cup StopOps, s[2] = "release",
         NEW n, n = Tail(Tail(s))
  PROVE  /\ s[1] # "judge" => (Body(n) <=> Body(s))
         /\ s[1] = "judge" => Body(n) /\ "outputs" \in Range(n) /\ n # <<>> /\ n[1] = "outputs"
         /\ AliveList(n) => AliveList(s)
         /\ \A b \in BOOLEAN : LaterList(s, b) => LaterList(n, b) \/ n[1] = "start"
         /\ NowList(s) => s[1] = "judge"
         /\ n # <<>> /\ n[1] \in Sections => n[1] = "start" /\ NowList(n) /\ ~BareList(n)
         /\ s[1] # "judge" /\ MonitorList(s) => MonitorList(n)
         /\ Range(s) \subseteq RejoinOps => Range(n) \subseteq RejoinOps
         /\ Range(s) = {s[1], "release"} \cup Range(n)
<1>1. s \in Seq(Ops) /\ Len(s) \in Nat /\ Len(s) >= 2 /\ Sound(s)
  <2>1. s[1] \in Sections
    BY DEF Sections, Inner, Locking, StopOps
  <2> QED BY <2>1, Section, Listed DEF Plan
<1>2. s[1] \in Sections /\ s[1] \notin {"start", "start_native"}
  BY DEF Sections, Inner, Locking, StopOps
<1>3. /\ Plan(n) /\ Range(s) = {s[1], "release"} \cup Range(n) /\ Len(n) = Len(s) - 2
      /\ \A i \in 1 .. Len(n) : n[i] = s[i + 2]
      /\ n # <<>> => n[1] = s[3] /\ Len(s) >= 3 /\ n[1] \notin Inner \cup {"stop", "judge", "relive", "release"}
  BY <1>2, Leaving
<1>4. n \in Seq(Ops) /\ Len(n) \in Nat /\ (n # <<>> <=> Len(n) >= 1)
  BY <1>3, Listed DEF Plan
<1>5. s[1] # "judge" => (Body(n) <=> Body(s))
  <2>1. s[1] \notin PassOps \cup {"guard", "unguard"} \/ s[1] = "judge"
    BY DEF StopOps, PassOps
  <2>2. "release" \notin PassOps \cup {"guard", "unguard"}
    BY DEF PassOps
  <2> QED BY ONLY <1>3, <2>1, <2>2 DEF Body
<1>6. s[1] = "judge" => Body(n) /\ "outputs" \in Range(n) /\ n # <<>> /\ n[1] = "outputs"
  <2>1. SUFFICES ASSUME s[1] = "judge" PROVE Body(n) /\ "outputs" \in Range(n) /\ n # <<>> /\ n[1] = "outputs"
    OBVIOUS
  <2>2. Len(s) >= 3 /\ s[3] = "outputs"
    <3>1. 1 \in 1 .. Len(s)
      BY <1>1
    <3> QED BY ONLY <1>1, <3>1, <2>1 DEF Sound
  <2>3. n # <<>> /\ n[1] = "outputs"
    BY <1>1, <1>3, <1>4, <2>2
  <2>4. "outputs" \in Range(n)
    BY <1>4, <2>3, Heads
  <2> QED BY <2>3, <2>4 DEF Body, PassOps
<1>7. AliveList(n) => AliveList(s)
  BY ONLY <1>3 DEF AliveList
<1>8. \A b \in BOOLEAN : LaterList(s, b) => LaterList(n, b) \/ n[1] = "start"
  <2>1. Len(s) >= 3 /\ s[3] = "start" => n[1] = "start"
    BY <1>1, <1>3, <1>4
  <2>2. n = <<>> => Range(n) = {}
    BY DEF Range
  <2>3. s[1] \notin {"reconfigure", "pass", "start_loop", "outputs"}
    BY DEF StopOps
  <2> QED BY ONLY <1>3, <2>1, <2>2, <2>3 DEF LaterList
<1>9. NowList(s) => s[1] = "judge"
  BY ONLY s[1] \in {"stop", "relive", "judge"} \cup StopOps, s[2] = "release" DEF NowList, StopOps
<1>10. n # <<>> /\ n[1] \in Sections => n[1] = "start" /\ NowList(n) /\ ~BareList(n)
  <2>1. SUFFICES ASSUME n # <<>>, n[1] \in Sections PROVE n[1] = "start" /\ NowList(n) /\ ~BareList(n)
    OBVIOUS
  <2>2. n[1] = "start"
    BY <1>3, <2>1 DEF Sections, Locking
  <2> QED BY <1>4, <2>1, <2>2 DEF NowList, BareList
<1>11. s[1] # "judge" /\ MonitorList(s) => MonitorList(n)
  <2>1. s[1] # "judge" => s[1] \notin {"bp", "after_start", "reconfigure", "pass", "judge", "outputs", "start_loop", "resized"}
    BY DEF StopOps
  <2> QED BY ONLY <1>3, <2>1 DEF MonitorList
<1>12. Range(s) \subseteq RejoinOps => Range(n) \subseteq RejoinOps
  BY ONLY <1>3
<1> QED BY <1>3, <1>5, <1>6, <1>7, <1>8, <1>9, <1>10, <1>11, <1>12

\* What a list keeps under another head of its section.
LEMMA HeadingFacts ==
  ASSUME NEW s, Plan(s), s # <<>>, NEW h,
         s[1] \in {"stop", "stop_bp", "stop_pop"} /\ h \in StopOps,
         NEW n, n = Under(h, s)
  PROVE  /\ Body(n) <=> Body(s)
         /\ AliveList(n) <=> AliveList(s)
         /\ MonitorList(n) <=> MonitorList(s)
         /\ \A b \in BOOLEAN : LaterList(n, b) <=> LaterList(s, b)
         /\ NowList(n) <=> NowList(s)
         /\ BareList(n) => BareList(s)
         /\ Range(s) \subseteq RejoinOps => Range(n) \subseteq RejoinOps
         /\ \A x : x \notin StopOps \cup {"stop"} => (x \in Range(n) <=> x \in Range(s))
         /\ n[2] = s[2]
<1>1. s \in Seq(Ops) /\ Len(s) \in Nat /\ Len(s) >= 2
  <2>1. s[1] \in Sections
    BY DEF Sections, Inner, Locking
  <2> QED BY <2>1, Section, Listed DEF Plan
<1>2. /\ Plan(n) /\ Len(n) = Len(s) /\ n # <<>> /\ n[1] = h
      /\ \A i \in 2 .. Len(s) : n[i] = s[i]
      /\ Range(n) = {h} \cup Range(Tail(s))
  BY Heading DEF Under
<1>3. Range(s) = {s[1]} \cup Range(Tail(s))
  BY <1>1, Heads
<1>4. n[2] = s[2] /\ (Len(s) >= 3 => n[3] = s[3])
  BY <1>1, <1>2
<1>5. {s[1], h} \subseteq StopOps \cup {"stop"}
  BY DEF StopOps
<1>6. \A x : x \notin StopOps \cup {"stop"} => (x \in Range(n) <=> x \in Range(s))
  BY ONLY <1>2, <1>3, <1>5
<1>7. Body(n) <=> Body(s)
  BY ONLY <1>6 DEF Body, PassOps, StopOps
<1>8. AliveList(n) <=> AliveList(s)
  BY ONLY <1>6 DEF AliveList, StopOps
<1>9. MonitorList(n) <=> MonitorList(s)
  BY ONLY <1>6 DEF MonitorList, StopOps
<1>10. n[1] # "judge" /\ s[1] # "judge" /\ n[1] \notin {"start", "start_native"} /\ s[1] \notin {"start", "start_native"}
  BY <1>2 DEF StopOps
<1>11. \A b \in BOOLEAN : LaterList(n, b) <=> LaterList(s, b)
  <2>1. \A x \in {"reconfigure", "pass", "start_loop", "outputs"} : x \in Range(n) <=> x \in Range(s)
    BY ONLY <1>6 DEF StopOps
  <2>2. Len(n) = Len(s)
    BY <1>2
  <2> QED BY ONLY <2>1, <2>2, <1>4, <1>10 DEF LaterList
<1>12. NowList(n) <=> NowList(s)
  <2>1. Len(n) = Len(s)
    BY <1>2
  <2> QED BY ONLY <2>1, <1>4, <1>10 DEF NowList
<1>13. BareList(n) => BareList(s)
  <2>1. Len(n) = Len(s) /\ s[1] \in {"stop", "stop_bp", "stop_pop"}
    BY <1>2
  <2> QED BY ONLY <1>1, <2>1, <1>6 DEF BareList, StopOps
<1>14. Range(s) \subseteq RejoinOps => Range(n) \subseteq RejoinOps
  <2>1. StopOps \subseteq RejoinOps
    BY DEF StopOps, RejoinOps, Inner
  <2>2. h \in StopOps
    OBVIOUS
  <2> QED BY ONLY <1>2, <1>3, <2>1, <2>2
<1> QED BY <1>4, <1>6, <1>7, <1>8, <1>9, <1>11, <1>12, <1>13, <1>14

\* A pass stops the capture it has judged.
LEMMA JudgedFacts ==
  ASSUME NEW s, Plan(s), s # <<>>, s[1] = "judge", NEW n, n = Under("stop", s)
  PROVE  /\ Body(n) /\ "outputs" \in Range(n) /\ LaterList(n, FALSE) /\ ~BareList(n) /\ MonitorList(n) /\ AliveList(s)
<1>1. s \in Seq(Ops) /\ Len(s) \in Nat /\ Len(s) >= 1 /\ Sound(s) /\ 1 \in 1 .. Len(s)
  BY Listed DEF Plan
<1>2. Len(s) >= 3 /\ s[3] = "outputs"
  BY ONLY <1>1, s[1] = "judge" DEF Sound
<1>3. Plan(n) /\ Len(n) = Len(s) /\ n # <<>> /\ n[1] = "stop" /\ \A i \in 2 .. Len(s) : n[i] = s[i]
  BY Heading DEF Under
<1>4. n \in Seq(Ops) /\ n[3] = "outputs" /\ 3 \in 1 .. Len(n)
  BY <1>1, <1>2, <1>3 DEF Plan
<1>5. "outputs" \in Range(n)
  BY <1>4, Listed
<1>6. "judge" \in Range(s)
  BY <1>1, Listed
<1> QED BY <1>3, <1>5, <1>6 DEF Body, PassOps, LaterList, BareList, MonitorList, AliveList

\* A start goes on to its native call, a start of a task to the old one's end.
LEMMA OnwardFacts ==
  ASSUME NEW s, Plan(s), s # <<>>, NEW h,
         \/ s[1] = "start" /\ h = "start_native"
         \/ s[1] = "bp" /\ h = "bp_again",
         NEW n, n = Under(h, s)
  PROVE  /\ Body(n) <=> Body(s)
         /\ AliveList(n) <=> AliveList(s)
         /\ s[1] = "start" => (MonitorList(n) <=> MonitorList(s))
         /\ s[1] = "start" => NowList(n) /\ ~BareList(n)
         /\ \A b \in BOOLEAN : LaterList(s, b) => LaterList(n, b)
         /\ Range(s) \subseteq RejoinOps => Range(n) \subseteq RejoinOps
         /\ \A x : x \notin {"start", "start_native", "bp", "bp_again"} => (x \in Range(n) <=> x \in Range(s))
<1>1. s \in Seq(Ops) /\ Len(s) \in Nat /\ Len(s) >= 1
  BY Listed DEF Plan
<1>2. /\ Plan(n) /\ Len(n) = Len(s) /\ n # <<>> /\ n[1] = h
      /\ \A i \in 2 .. Len(s) : n[i] = s[i]
      /\ Range(n) = {h} \cup Range(Tail(s))
  BY Heading DEF Under
<1>3. Range(s) = {s[1]} \cup Range(Tail(s))
  BY <1>1, Heads
<1>4. (Len(s) >= 3 => n[3] = s[3])
  BY <1>1, <1>2
<1>6. \A x : x \notin {"start", "start_native", "bp", "bp_again"} => (x \in Range(n) <=> x \in Range(s))
  BY ONLY <1>2, <1>3, (s[1] = "start" /\ h = "start_native") \/ (s[1] = "bp" /\ h = "bp_again")
<1>7. Body(n) <=> Body(s)
  BY ONLY <1>6 DEF Body, PassOps
<1>8. AliveList(n) <=> AliveList(s)
  BY ONLY <1>6 DEF AliveList
<1>9. s[1] = "start" => (MonitorList(n) <=> MonitorList(s))
  <2>1. s[1] = "start" => h = "start_native"
    OBVIOUS
  <2> QED BY ONLY <1>2, <1>3, <2>1 DEF MonitorList
<1>10. s[1] = "start" => NowList(n) /\ ~BareList(n)
  <2>1. s[1] = "start" => n[1] = "start_native" /\ Len(n) >= 1
    BY <1>1, <1>2
  <2> QED BY ONLY <2>1 DEF NowList, BareList
<1>11. \A b \in BOOLEAN : LaterList(s, b) => LaterList(n, b)
  <2>1. \A x \in {"reconfigure", "pass", "start_loop", "outputs"} : x \in Range(n) <=> x \in Range(s)
    BY ONLY <1>6
  <2>2. Len(n) = Len(s) /\ n[1] # "judge"
    BY <1>2
  <2> QED BY ONLY <2>1, <2>2, <1>4 DEF LaterList
<1>14. Range(s) \subseteq RejoinOps => Range(n) \subseteq RejoinOps
  <2>1. {"start_native", "bp_again"} \subseteq RejoinOps /\ h \in {"start_native", "bp_again"}
    BY DEF RejoinOps, Inner
  <2> QED BY ONLY <1>2, <1>3, <2>1
<1> QED BY <1>6, <1>7, <1>8, <1>9, <1>10, <1>11, <1>14

\* A rebuild keeps the promise of its start.
LEMMA RebuildingFacts ==
  ASSUME NEW s, Plan(s), s # <<>>, s[1] = "start", NEW h \in {"stop_bp", "stop_native"},
         NEW n, n = Onto(h, s)
  PROVE  /\ Body(n) <=> Body(s)
         /\ AliveList(n) <=> AliveList(s)
         /\ MonitorList(n) <=> MonitorList(s)
         /\ NowList(n) /\ ~BareList(n)
         /\ Range(s) \subseteq RejoinOps => Range(n) \subseteq RejoinOps
         /\ \A b \in BOOLEAN : ~LaterList(s, b)
         /\ "outputs" \notin Range(n) /\ "start_loop" \notin Range(n)
<1>1. s \in Seq(Ops) /\ Len(s) \in Nat /\ Len(s) >= 1
  BY Listed DEF Plan
<1>2. /\ Plan(n) /\ n # <<>> /\ n[1] = h /\ n[2] = "start" /\ Len(n) >= 3
      /\ Range(n) = {h} \cup Range(s)
  BY Rebuilding DEF Onto
<1>3. "start" \in Range(s)
  BY <1>1, Heads
<1>4. Body(n) <=> Body(s)
  BY ONLY <1>2, h \in {"stop_bp", "stop_native"} DEF Body, PassOps
<1>5. AliveList(n) <=> AliveList(s)
  BY ONLY <1>2, h \in {"stop_bp", "stop_native"} DEF AliveList
<1>6. MonitorList(n) <=> MonitorList(s)
  BY ONLY <1>2, h \in {"stop_bp", "stop_native"} DEF MonitorList
<1>7. NowList(n) /\ ~BareList(n)
  BY ONLY <1>2, <1>3 DEF NowList, BareList
<1>8. Range(s) \subseteq RejoinOps => Range(n) \subseteq RejoinOps
  BY ONLY <1>2, h \in {"stop_bp", "stop_native"} DEF RejoinOps, Inner
<1>9. s \in StartPlans("start")
  BY StartPlan
<1>10. "outputs" \notin Range(s) /\ "start_loop" \notin Range(s)
  BY ONLY <1>9 DEF StartPlans, Range
<1>11. \A b \in BOOLEAN : ~LaterList(s, b)
  BY Starting
<1> QED BY <1>2, <1>4, <1>5, <1>6, <1>7, <1>8, <1>10, <1>11

-----------------------------------------------------------------------------
(* The queue of the capture lock *)

\* The lock's queues.
Q == Seq(Coroutines)

\* A queue has a length and coroutines in its places.
LEMMA QListed ==
  ASSUME NEW q \in Q
  PROVE  /\ Len(q) \in Nat /\ (q # <<>> <=> Len(q) >= 1)
         /\ \A i \in 1 .. Len(q) : q[i] \in Coroutines
  BY DEF Q

\* Who comes last is last, and nobody before moves.
LEMMA QAppended ==
  ASSUME NEW q \in Q, NEW p \in Coroutines
  PROVE  /\ Append(q, p) \in Q /\ Len(Append(q, p)) = Len(q) + 1
         /\ \A i \in 1 .. Len(q) : Append(q, p)[i] = q[i]
         /\ Append(q, p)[Len(q) + 1] = p
  BY DEF Q

\* When the holder leaves, everybody moves up by one.
LEMMA QTail ==
  ASSUME NEW q \in Q, q # <<>>
  PROVE  /\ Tail(q) \in Q /\ Len(Tail(q)) = Len(q) - 1 /\ Head(q) = q[1]
         /\ \A i \in 1 .. (Len(q) - 1) : Tail(q)[i] = q[i + 1]
  BY DEF Q

\* Contains is about the places of a queue.
LEMMA QContains ==
  ASSUME NEW q, NEW p
  PROVE  Contains(q, p) <=> \E i \in 1 .. Len(q) : q[i] = p
  BY DEF Contains

\* A coroutine that leaves the queue is taken out of its place.
LEMMA QRemoved ==
  ASSUME NEW q \in Q, NEW m \in 1 .. Len(q)
  PROVE  /\ RemoveAt(q, m) \in Q /\ Len(RemoveAt(q, m)) = Len(q) - 1
         /\ \A i \in 1 .. (m - 1) : RemoveAt(q, m)[i] = q[i]
         /\ \A i \in m .. (Len(q) - 1) : RemoveAt(q, m)[i] = q[i + 1]
<1>1. Len(q) \in Nat /\ m \in Nat /\ m >= 1 /\ m <= Len(q) /\ \A i \in 1 .. Len(q) : q[i] \in Coroutines
  BY QListed
<1>2. PICK a \in Q : a = SubSeq(q, 1, m - 1) /\ Len(a) = m - 1 /\ \A i \in 1 .. (m - 1) : a[i] = q[i]
  <2>1. \A i \in 1 .. (m - 1) : q[i] \in Coroutines
    BY <1>1
  <2>2. /\ SubSeq(q, 1, m - 1) \in Seq(Coroutines)
        /\ Len(SubSeq(q, 1, m - 1)) = IF 1 <= m - 1 THEN m - 1 - 1 + 1 ELSE 0
        /\ \A i \in 1 .. m - 1 - 1 + 1 : SubSeq(q, 1, m - 1)[i] = q[1 + i - 1]
    BY <1>1, <2>1, SubSeqProperties
  <2>3. Len(SubSeq(q, 1, m - 1)) = m - 1
    BY <1>1, <2>2
  <2>4. \A i \in 1 .. (m - 1) : SubSeq(q, 1, m - 1)[i] = q[i]
    BY <1>1, <2>2
  <2> QED BY <2>2, <2>3, <2>4 DEF Q
<1>3. PICK b \in Q : b = SubSeq(q, m + 1, Len(q)) /\ Len(b) = Len(q) - m /\ \A i \in 1 .. (Len(q) - m) : b[i] = q[m + i]
  <2>1. \A i \in m + 1 .. Len(q) : q[i] \in Coroutines
    BY <1>1
  <2>2. /\ SubSeq(q, m + 1, Len(q)) \in Seq(Coroutines)
        /\ Len(SubSeq(q, m + 1, Len(q))) = IF m + 1 <= Len(q) THEN Len(q) - (m + 1) + 1 ELSE 0
        /\ \A i \in 1 .. Len(q) - (m + 1) + 1 : SubSeq(q, m + 1, Len(q))[i] = q[m + 1 + i - 1]
    BY <1>1, <2>1, SubSeqProperties
  <2>3. Len(SubSeq(q, m + 1, Len(q))) = Len(q) - m
    BY <1>1, <2>2
  <2>4. \A i \in 1 .. (Len(q) - m) : SubSeq(q, m + 1, Len(q))[i] = q[m + i]
    BY <1>1, <2>2
  <2> QED BY <2>2, <2>3, <2>4 DEF Q
<1>4. PICK n : n = a \o b
  OBVIOUS
<1>5. /\ n \in Q /\ Len(n) = Len(a) + Len(b)
      /\ \A i \in 1 .. Len(a) + Len(b) : n[i] = IF i <= Len(a) THEN a[i] ELSE b[i - Len(a)]
  BY <1>4, ConcatProperties DEF Q
<1>6. Len(a) = m - 1 /\ Len(b) = Len(q) - m /\ (\A i \in 1 .. (m - 1) : a[i] = q[i])
      /\ \A i \in 1 .. (Len(q) - m) : b[i] = q[m + i]
  BY <1>2, <1>3
<1>7. Len(n) = Len(q) - 1
  BY ONLY <1>1, <1>5, <1>6
<1>8. \A i \in 1 .. (m - 1) : n[i] = q[i]
  BY ONLY <1>1, <1>5, <1>6
<1>9. \A i \in m .. (Len(q) - 1) : n[i] = q[i + 1]
  <2>1. TAKE i \in m .. (Len(q) - 1)
  <2>2. i \in 1 .. Len(a) + Len(b) /\ ~(i <= Len(a)) /\ i - Len(a) \in 1 .. (Len(q) - m) /\ m + (i - Len(a)) = i + 1
    BY <1>1, <1>6
  <2>3. n[i] = b[i - Len(a)] /\ b[i - Len(a)] = q[m + (i - Len(a))]
    BY ONLY <1>5, <1>6, <2>2
  <2> QED BY <2>2, <2>3
<1>10. RemoveAt(q, m) = n
  BY <1>2, <1>3, <1>4 DEF RemoveAt
<1> QED BY <1>5, <1>7, <1>8, <1>9, <1>10

\* The values of todo.
Todos == [Coroutines -> Seq(Ops)]

\* todo, with the list n for coroutine p.
Put(t, p, n) == [t EXCEPT ![p] = n]

\* Whether a list's head is one of a section that takes or holds the lock.
InSection(s) == s # <<>> /\ s[1] \in Sections

\* The head of a list is its first operation.
LEMMA HeadIsFirst == ASSUME NEW s \in Seq(Ops) PROVE s # <<>> => Head(s) = s[1]
  OBVIOUS

\* Everybody in the queue is there to enter, or within, a section.
LEMMA Queueing ==
  ASSUME NEW t \in Todos, NEW q \in Q, LockOK(t, q), NEW p \in Coroutines
  PROVE  Contains(q, p) <=> InSection(t[p])
  BY QContains DEF LockOK, InSection

\* A coroutine outside comes to the end of the queue, or stays outside.
LEMMA LockOutside ==
  ASSUME NEW t \in Todos, NEW q \in Q, LockOK(t, q), NEW p \in Coroutines, NEW n \in Seq(Ops),
         ~InSection(t[p]), n = <<>> \/ n[1] \notin Inner
  PROVE  /\ Put(t, p, n) \in Todos /\ Queued(q, p, n) \in Q
         /\ LockOK(Put(t, p, n), Queued(q, p, n))
         /\ \A i \in 1 .. Len(q) : q[i] # p
         /\ InSection(n) => Queued(q, p, n) = Append(q, p)
         /\ ~InSection(n) => Queued(q, p, n) = q
<1>a. PICK t2, q2 : t2 = Put(t, p, n) /\ q2 = Queued(q, p, n)
  OBVIOUS
<1>1. /\ Len(q) \in Nat /\ (q # <<>> <=> Len(q) >= 1)
      /\ \A i \in 1 .. Len(q) : q[i] \in Coroutines
  BY QListed
<1>2. /\ t2 \in Todos /\ t2[p] = n
      /\ \A c \in Coroutines : c # p => t2[c] = t[c]
  BY <1>a DEF Todos, Put
<1>3. ~Contains(q, p) /\ \A i \in 1 .. Len(q) : q[i] # p
  BY Queueing, QContains
<1>4. InSection(n) <=> n # <<>> /\ Head(n) \in Locking
  BY HeadIsFirst DEF InSection, Sections
<1>5. (InSection(n) => q2 = Append(q, p)) /\ (~InSection(n) => q2 = q)
  BY <1>a, <1>3, <1>4 DEF Queued
<1>6. CASE InSection(n)
  <2>1. PICK r \in Q : r = q2 /\ Len(r) = Len(q) + 1 /\ (\A i \in 1 .. Len(q) : r[i] = q[i]) /\ r[Len(q) + 1] = p
    BY <1>5, <1>6, QAppended
  <2>2. \A i, j \in 1 .. Len(r) : r[i] = r[j] => i = j
    <3>1. TAKE i, j \in 1 .. Len(r)
    <3>2. (i \in 1 .. Len(q) \/ i = Len(q) + 1) /\ (j \in 1 .. Len(q) \/ j = Len(q) + 1)
      BY <2>1, <1>1
    <3>3. \A a, b \in 1 .. Len(q) : q[a] = q[b] => a = b
      BY DEF LockOK
    <3> QED BY ONLY <3>2, <3>3, <2>1, <1>3
  <2>3. \A c \in Coroutines : (\E i \in 1 .. Len(r) : r[i] = c) <=> InSection(t2[c])
    <3>1. TAKE c \in Coroutines
    <3>2. CASE c = p
      <4>1. Len(q) + 1 \in 1 .. Len(r)
        BY <2>1, <1>1
      <4> QED BY <4>1, <3>2, <2>1, <1>2, <1>6
    <3>3. CASE c # p
      <4>1. (\E i \in 1 .. Len(q) : q[i] = c) <=> InSection(t[c])
        BY DEF LockOK, InSection
      <4>2. (\E i \in 1 .. Len(r) : r[i] = c) <=> (\E i \in 1 .. Len(q) : q[i] = c)
        <5>1. \A i \in 1 .. Len(r) : i \in 1 .. Len(q) \/ i = Len(q) + 1
          BY <2>1, <1>1
        <5>2. \A i \in 1 .. Len(q) : i \in 1 .. Len(r)
          BY <2>1, <1>1
        <5> QED BY <5>1, <5>2, <2>1, <3>3
      <4> QED BY <4>1, <4>2, <3>3, <1>2
    <3> QED BY <3>2, <3>3
  <2>4. \A c \in Coroutines : t2[c] # <<>> /\ t2[c][1] \in Inner => r # <<>> /\ r[1] = c
    <3>1. TAKE c \in Coroutines
    <3>2. CASE c = p
      BY <3>2, <1>2
    <3>3. CASE c # p
      <4>1. t[c] # <<>> /\ t[c][1] \in Inner => q # <<>> /\ q[1] = c
        BY DEF LockOK
      <4>2. q # <<>> => 1 \in 1 .. Len(q) /\ r # <<>> /\ r[1] = q[1]
        <5>1. q # <<>> => 1 \in 1 .. Len(q) /\ Len(r) >= 1
          BY <1>1, <2>1
        <5> QED BY <5>1, <2>1, QListed
      <4> QED BY <4>1, <4>2, <3>3, <1>2
    <3> QED BY <3>2, <3>3
  <2>5. LockOK(t2, r)
    BY <2>2, <2>3, <2>4 DEF LockOK, InSection
  <2> QED BY <1>a, <1>2, <1>3, <1>5, <1>6, <2>1, <2>5
<1>7. CASE ~InSection(n)
  <2>1. q2 = q
    BY <1>5, <1>7
  <2>2. \A c \in Coroutines : (\E i \in 1 .. Len(q) : q[i] = c) <=> InSection(t2[c])
    BY <1>2, <1>3, <1>7 DEF LockOK, InSection
  <2>3. \A c \in Coroutines : t2[c] # <<>> /\ t2[c][1] \in Inner => q # <<>> /\ q[1] = c
    BY <1>2 DEF LockOK
  <2>4. \A i, j \in 1 .. Len(q) : q[i] = q[j] => i = j
    BY DEF LockOK
  <2>5. LockOK(t2, q)
    BY <2>2, <2>3, <2>4 DEF LockOK, InSection
  <2> QED BY <1>a, <1>2, <1>3, <1>5, <1>7, <2>1, <2>5
<1> QED BY <1>a, <1>6, <1>7

\* The holder goes on within its section.
LEMMA LockWithin ==
  ASSUME NEW t \in Todos, NEW q \in Q, LockOK(t, q), NEW p \in Coroutines, NEW n \in Seq(Ops),
         InSection(t[p]), q # <<>>, q[1] = p, InSection(n)
  PROVE  /\ Put(t, p, n) \in Todos /\ Queued(q, p, n) = q
         /\ LockOK(Put(t, p, n), q)
<1>a. PICK t2 : t2 = Put(t, p, n)
  OBVIOUS
<1>1. /\ t2 \in Todos /\ t2[p] = n
      /\ \A c \in Coroutines : c # p => t2[c] = t[c]
  BY <1>a DEF Todos, Put
<1>2. Queued(q, p, n) = q
  BY Queueing DEF Queued
<1>3. \A c \in Coroutines : (\E i \in 1 .. Len(q) : q[i] = c) <=> InSection(t2[c])
  BY <1>1 DEF LockOK, InSection
<1>4. \A c \in Coroutines : t2[c] # <<>> /\ t2[c][1] \in Inner => q # <<>> /\ q[1] = c
  BY <1>1 DEF LockOK
<1>5. \A i, j \in 1 .. Len(q) : q[i] = q[j] => i = j
  BY DEF LockOK
<1> QED BY <1>a, <1>1, <1>2, <1>3, <1>4, <1>5 DEF LockOK, InSection

\* The holder lets the next one in.
LEMMA Handed ==
  ASSUME NEW t \in Todos, NEW q \in Q, LockOK(t, q), NEW p \in Coroutines, q # <<>>, q[1] = p
  PROVE  /\ Put(t, p, <<>>) \in Todos /\ Tail(q) \in Q
         /\ LockOK(Put(t, p, <<>>), Tail(q))
         /\ \A c \in Coroutines : c # p /\ InSection(t[c]) => t[c][1] \in Locking
<1>a. PICK t2 : t2 = Put(t, p, <<>>)
  OBVIOUS
<1>1. /\ Len(q) \in Nat /\ Len(q) >= 1
      /\ \A i \in 1 .. Len(q) : q[i] \in Coroutines
  BY QListed
<1>2. PICK r \in Q : r = Tail(q) /\ Len(r) = Len(q) - 1 /\ \A i \in 1 .. (Len(q) - 1) : r[i] = q[i + 1]
  BY QTail
<1>3. <<>> \in Seq(Ops)
  OBVIOUS
<1>4. /\ t2 \in Todos /\ t2[p] = <<>>
      /\ \A c \in Coroutines : c # p => t2[c] = t[c]
  BY <1>a, <1>3 DEF Todos, Put
<1>5. \A i \in 1 .. Len(r) : i + 1 \in 1 .. Len(q) /\ i + 1 # 1 /\ 1 \in 1 .. Len(q) /\ r[i] = q[i + 1]
  BY <1>1, <1>2
<1>6. \A i \in 1 .. Len(q) : i # 1 => i - 1 \in 1 .. Len(r) /\ r[i - 1] = q[i]
  <2>1. TAKE i \in 1 .. Len(q)
  <2>2. SUFFICES ASSUME i # 1 PROVE i - 1 \in 1 .. Len(r) /\ r[i - 1] = q[i]
    OBVIOUS
  <2>3. i - 1 \in 1 .. Len(r) /\ (i - 1) + 1 = i
    BY <2>2, <1>1, <1>2
  <2> QED BY <2>3, <1>2
<1>7. \A i, j \in 1 .. Len(q) : q[i] = q[j] => i = j
  BY DEF LockOK
<1>8. \A i, j \in 1 .. Len(r) : r[i] = r[j] => i = j
  <2>1. TAKE i, j \in 1 .. Len(r)
  <2>2. r[i] = r[j] => i + 1 = j + 1
    BY <1>5, <1>7
  <2> QED BY <2>2, <1>2
<1>9. \A c \in Coroutines : (\E i \in 1 .. Len(r) : r[i] = c) <=> InSection(t2[c])
  <2>1. TAKE c \in Coroutines
  <2>2. CASE c = p
    BY <2>2, <1>4, <1>5, <1>7 DEF InSection
  <2>3. CASE c # p
    <3>1. (\E i \in 1 .. Len(q) : q[i] = c) <=> InSection(t[c])
      BY DEF LockOK, InSection
    <3>2. (\E i \in 1 .. Len(r) : r[i] = c) <=> (\E i \in 1 .. Len(q) : q[i] = c)
      <4>1. ASSUME NEW i \in 1 .. Len(r), r[i] = c PROVE \E j \in 1 .. Len(q) : q[j] = c
        BY <4>1, <1>5
      <4>2. ASSUME NEW i \in 1 .. Len(q), q[i] = c PROVE \E j \in 1 .. Len(r) : r[j] = c
        <5>1. i # 1
          BY <4>2, <2>3
        <5> QED BY <4>2, <5>1, <1>6
      <4> QED BY <4>1, <4>2
    <3> QED BY <3>1, <3>2, <2>3, <1>4
  <2> QED BY <2>2, <2>3
<1>10. \A c \in Coroutines : c # p /\ InSection(t[c]) => t[c][1] \in Locking
  BY DEF LockOK, InSection, Sections
<1>11. \A c \in Coroutines : t2[c] # <<>> /\ t2[c][1] \in Inner => r # <<>> /\ r[1] = c
  BY <1>4 DEF LockOK
<1> QED BY <1>a, <1>2, <1>4, <1>8, <1>9, <1>10, <1>11 DEF LockOK, InSection

\* A holder that leaves may come to the end of the queue again.
LEMMA LockLeaves ==
  ASSUME NEW t \in Todos, NEW q \in Q, LockOK(t, q), NEW p \in Coroutines, NEW n \in Seq(Ops),
         q # <<>>, q[1] = p, n = <<>> \/ n[1] \notin Inner
  PROVE  /\ Put(t, p, n) \in Todos /\ Queued(Tail(q), p, n) \in Q
         /\ LockOK(Put(t, p, n), Queued(Tail(q), p, n))
         /\ \A i \in 1 .. Len(Tail(q)) : Tail(q)[i] # p
         /\ InSection(n) => Queued(Tail(q), p, n) = Append(Tail(q), p)
         /\ ~InSection(n) => Queued(Tail(q), p, n) = Tail(q)
         /\ \A c \in Coroutines : c # p /\ InSection(t[c]) => t[c][1] \in Locking
<1>1. PICK r : r = Tail(q)
  OBVIOUS
<1>2. PICK u : u = Put(t, p, <<>>)
  OBVIOUS
<1>3. /\ u \in Todos /\ r \in Q /\ LockOK(u, r)
      /\ \A c \in Coroutines : c # p /\ InSection(t[c]) => t[c][1] \in Locking
  BY <1>1, <1>2, Handed
<1>4. u[p] = <<>> /\ Put(t, p, n) = Put(u, p, n)
  BY <1>2 DEF Todos, Put
<1>5. ~InSection(u[p])
  BY <1>4 DEF InSection
<1>6. /\ Put(u, p, n) \in Todos /\ Queued(r, p, n) \in Q /\ LockOK(Put(u, p, n), Queued(r, p, n))
      /\ \A i \in 1 .. Len(r) : r[i] # p
      /\ InSection(n) => Queued(r, p, n) = Append(r, p)
      /\ ~InSection(n) => Queued(r, p, n) = r
  BY <1>3, <1>5, LockOutside
<1> QED BY <1>1, <1>3, <1>4, <1>6

\* A cancelled coroutine leaves the queue, wherever it is.
LEMMA Withdrawn ==
  ASSUME NEW t \in Todos, NEW q \in Q, LockOK(t, q), NEW p \in Coroutines
  PROVE  /\ Put(t, p, <<>>) \in Todos /\ Unqueued(q, p) \in Q
         /\ LockOK(Put(t, p, <<>>), Unqueued(q, p))
         /\ ~InSection(t[p]) => Unqueued(q, p) = q
         /\ InSection(t[p]) => \E m \in 1 .. Len(q) : q[m] = p /\ Unqueued(q, p) = RemoveAt(q, m)
<1>a. PICK t2 : t2 = Put(t, p, <<>>)
  OBVIOUS
<1>1. <<>> \in Seq(Ops)
  OBVIOUS
<1>2. /\ t2 \in Todos /\ t2[p] = <<>>
      /\ \A c \in Coroutines : c # p => t2[c] = t[c]
  BY <1>a, <1>1 DEF Todos, Put
<1>3. Contains(q, p) <=> InSection(t[p])
  BY Queueing
<1>4. /\ Len(q) \in Nat /\ (q # <<>> <=> Len(q) >= 1)
      /\ \A i \in 1 .. Len(q) : q[i] \in Coroutines
  BY QListed
<1>5. \A i, j \in 1 .. Len(q) : q[i] = q[j] => i = j
  BY DEF LockOK
<1>6. \A c \in Coroutines : (\E i \in 1 .. Len(q) : q[i] = c) <=> InSection(t[c])
  BY DEF LockOK, InSection
<1>7. \A c \in Coroutines : t[c] # <<>> /\ t[c][1] \in Inner => q # <<>> /\ q[1] = c
  BY DEF LockOK
<1>8. CASE ~InSection(t[p])
  <2>1. Unqueued(q, p) = q
    BY <1>3, <1>8 DEF Unqueued
  <2>2. \A c \in Coroutines : (\E i \in 1 .. Len(q) : q[i] = c) <=> InSection(t2[c])
    BY <1>2, <1>6, <1>8 DEF InSection
  <2>3. \A c \in Coroutines : t2[c] # <<>> /\ t2[c][1] \in Inner => q # <<>> /\ q[1] = c
    BY <1>2, <1>7
  <2>4. LockOK(t2, q)
    BY <1>5, <2>2, <2>3 DEF LockOK, InSection
  <2> QED BY <1>a, <1>2, <1>8, <2>1, <2>4
<1>9. CASE InSection(t[p])
  <2>1. PICK m : m = CHOOSE i \in DOMAIN q : q[i] = p
    OBVIOUS
  <2>2. DOMAIN q = 1 .. Len(q)
    BY DEF Q
  <2>3. m \in 1 .. Len(q) /\ q[m] = p
    BY <1>3, <1>9, <2>1, <2>2, QContains
  <2>4. Unqueued(q, p) = RemoveAt(q, m)
    BY <1>3, <1>9, <2>1 DEF Unqueued
  <2>5. PICK r \in Q : /\ r = RemoveAt(q, m) /\ Len(r) = Len(q) - 1
                       /\ \A i \in 1 .. (m - 1) : r[i] = q[i]
                       /\ \A i \in m .. (Len(q) - 1) : r[i] = q[i + 1]
    BY <2>3, QRemoved
  <2>6. \A i \in 1 .. Len(r) : \E k \in 1 .. Len(q) : k # m /\ r[i] = q[k] /\ k = IF i < m THEN i ELSE i + 1
    <3>1. TAKE i \in 1 .. Len(r)
    <3>2. CASE i < m
      <4>1. i \in 1 .. (m - 1) /\ i \in 1 .. Len(q) /\ i # m
        BY <3>2, <2>3, <2>5, <1>4
      <4> QED BY <4>1, <3>2, <2>5
    <3>3. CASE ~(i < m)
      <4>1. i \in m .. (Len(q) - 1) /\ i + 1 \in 1 .. Len(q) /\ i + 1 # m
        BY <3>3, <2>3, <2>5, <1>4
      <4> QED BY <4>1, <3>3, <2>5
    <3> QED BY <3>2, <3>3
  <2>7. \A k \in 1 .. Len(q) : k # m => \E i \in 1 .. Len(r) : r[i] = q[k]
    <3>1. TAKE k \in 1 .. Len(q)
    <3>2. CASE k < m
      <4>1. k \in 1 .. (m - 1) /\ k \in 1 .. Len(r)
        BY <3>2, <2>3, <2>5, <1>4
      <4> QED BY <4>1, <2>5
    <3>3. CASE k > m
      <4>1. k - 1 \in m .. (Len(q) - 1) /\ k - 1 \in 1 .. Len(r) /\ (k - 1) + 1 = k
        BY <3>3, <2>3, <2>5, <1>4
      <4> QED BY <4>1, <2>5
    <3> QED BY <3>2, <3>3, <2>3, <1>4
  <2>8. \A i, j \in 1 .. Len(r) : r[i] = r[j] => i = j
    <3>1. TAKE i, j \in 1 .. Len(r)
    <3>2. PICK k \in 1 .. Len(q) : k # m /\ r[i] = q[k] /\ k = IF i < m THEN i ELSE i + 1
      BY <2>6
    <3>3. PICK l \in 1 .. Len(q) : l # m /\ r[j] = q[l] /\ l = IF j < m THEN j ELSE j + 1
      BY <2>6
    <3>4. r[i] = r[j] => k = l
      BY <3>2, <3>3, <1>5
    <3>5. k = l => i = j
      BY <3>2, <3>3, <2>3, <2>5, <1>4
    <3> QED BY <3>4, <3>5
  <2>9. \A c \in Coroutines : (\E i \in 1 .. Len(r) : r[i] = c) <=> InSection(t2[c])
    <3>1. TAKE c \in Coroutines
    <3>2. CASE c = p
      BY <3>2, <1>2, <2>6, <2>3, <1>5 DEF InSection
    <3>3. CASE c # p
      <4>1. (\E i \in 1 .. Len(r) : r[i] = c) => \E k \in 1 .. Len(q) : q[k] = c
        BY <2>6
      <4>2. (\E k \in 1 .. Len(q) : q[k] = c) => \E i \in 1 .. Len(r) : r[i] = c
        BY ONLY <3>3, <2>3, <2>7
      <4>3. (\E k \in 1 .. Len(q) : q[k] = c) <=> InSection(t[c])
        BY <1>6
      <4>4. t2[c] = t[c]
        BY <3>3, <1>2
      <4> QED BY ONLY <4>1, <4>2, <4>3, <4>4
    <3> QED BY <3>2, <3>3
  <2>10. \A c \in Coroutines : t2[c] # <<>> /\ t2[c][1] \in Inner => r # <<>> /\ r[1] = c
    <3>1. SUFFICES ASSUME NEW c \in Coroutines, t2[c] # <<>> /\ t2[c][1] \in Inner
                   PROVE  r # <<>> /\ r[1] = c
      OBVIOUS
    <3>2. c # p /\ q # <<>> /\ q[1] = c
      BY <3>1, <1>2, <1>7
    <3>3. m # 1 /\ m > 1 /\ Len(q) >= 2
      BY <3>2, <2>3, <1>4
    <3>4. 1 \in 1 .. (m - 1) /\ Len(r) >= 1
      BY <3>3, <2>3, <2>5, <1>4
    <3>5. r[1] = q[1] /\ r # <<>>
      BY <3>4, <2>5, QListed
    <3> QED BY <3>2, <3>5
  <2>11. LockOK(t2, r)
    BY <2>8, <2>9, <2>10 DEF LockOK, InSection
  <2> QED BY <1>a, <1>2, <1>9, <2>3, <2>4, <2>5, <2>11
<1> QED BY <1>8, <1>9

\* What the queue promises, to whom it passes.
LEMMA ServedSplit ==
  ASSUME NEW q \in Q, NEW F, NEW B, q # <<>>
  PROVE  /\ Served(q, F, B) <=> (q[1] \in F /\ ~Bared(Tail(q), B)) \/ Served(Tail(q), F, B)
         /\ Bared(q, B) <=> q[1] \in B \/ Bared(Tail(q), B)
<1>1. Len(q) \in Nat /\ Len(q) >= 1
  BY QListed
<1>2. PICK r \in Q : r = Tail(q) /\ Len(r) = Len(q) - 1 /\ \A i \in 1 .. (Len(q) - 1) : r[i] = q[i + 1]
  BY QTail
<1>3. \A i \in 1 .. Len(r) : i + 1 \in 1 .. Len(q) /\ i + 1 # 1 /\ r[i] = q[i + 1]
  BY <1>1, <1>2
<1>4. \A k \in 1 .. Len(q) : k # 1 => k - 1 \in 1 .. Len(r) /\ r[k - 1] = q[k]
  <2>1. TAKE k \in 1 .. Len(q)
  <2>2. k # 1 => k - 1 \in 1 .. Len(r) /\ (k - 1) + 1 = k
    BY <1>1, <1>2
  <2> QED BY <2>2, <1>2
<1>5. 1 \in 1 .. Len(q)
  BY <1>1
<1>6. Bared(q, B) <=> q[1] \in B \/ Bared(r, B)
  BY <1>3, <1>4, <1>5 DEF Bared
<1>7. Bared(r, B) <=> \E j \in 2 .. Len(q) : q[j] \in B
  <2>1. \A j \in 2 .. Len(q) : j \in 1 .. Len(q) /\ j # 1
    BY <1>1
  <2>2. \A i \in 1 .. Len(r) : i + 1 \in 2 .. Len(q)
    BY <1>1, <1>2
  <2> QED BY <2>1, <2>2, <1>3, <1>4 DEF Bared
<1>8. Served(q, F, B) => (q[1] \in F /\ ~Bared(r, B)) \/ Served(r, F, B)
  <2>1. SUFFICES ASSUME NEW k \in 1 .. Len(q), q[k] \in F, \A j \in (k + 1) .. Len(q) : q[j] \notin B
                 PROVE  (q[1] \in F /\ ~Bared(r, B)) \/ Served(r, F, B)
    BY DEF Served
  <2>2. CASE k = 1
    BY <2>1, <2>2, <1>7
  <2>3. CASE k # 1
    <3>1. k - 1 \in 1 .. Len(r) /\ r[k - 1] \in F
      BY <2>1, <2>3, <1>4
    <3>2. \A j \in ((k - 1) + 1) .. Len(r) : r[j] \notin B
      <4>1. TAKE j \in ((k - 1) + 1) .. Len(r)
      <4>2. j \in 1 .. Len(r) /\ j + 1 \in (k + 1) .. Len(q)
        BY <1>1, <1>2
      <4> QED BY <4>2, <2>1, <1>3
    <3> QED BY <3>1, <3>2 DEF Served
  <2> QED BY <2>2, <2>3
<1>9. q[1] \in F /\ ~Bared(r, B) => Served(q, F, B)
  <2>1. 1 + 1 = 2
    OBVIOUS
  <2> QED BY <2>1, <1>5, <1>7 DEF Served
<1>10. Served(r, F, B) => Served(q, F, B)
  <2>1. SUFFICES ASSUME NEW k \in 1 .. Len(r), r[k] \in F, \A j \in (k + 1) .. Len(r) : r[j] \notin B
                 PROVE  Served(q, F, B)
    BY DEF Served
  <2>2. k + 1 \in 1 .. Len(q) /\ q[k + 1] \in F
    BY <2>1, <1>3
  <2>3. \A j \in ((k + 1) + 1) .. Len(q) : q[j] \notin B
    <3>1. TAKE j \in ((k + 1) + 1) .. Len(q)
    <3>2. j \in 1 .. Len(q) /\ j # 1 /\ j - 1 \in (k + 1) .. Len(r)
      BY <1>1, <1>2
    <3> QED BY <3>2, <2>1, <1>4
  <2> QED BY <2>2, <2>3 DEF Served
<1> QED BY <1>2, <1>6, <1>8, <1>9, <1>10

\* A queue stays served when more fix and fewer stop.
LEMMA ServedMono ==
  ASSUME NEW q \in Q, NEW F, NEW F2, NEW B, NEW B2,
         \A i \in 1 .. Len(q) : q[i] \in F => q[i] \in F2,
         \A i \in 1 .. Len(q) : q[i] \in B2 => q[i] \in B
  PROVE  /\ Served(q, F, B) => Served(q, F2, B2)
         /\ Bared(q, B2) => Bared(q, B)
<1>1. Bared(q, B2) => Bared(q, B)
  BY DEF Bared
<1>2. SUFFICES ASSUME NEW k \in 1 .. Len(q), q[k] \in F, \A j \in (k + 1) .. Len(q) : q[j] \notin B
               PROVE  Served(q, F2, B2)
  BY <1>1 DEF Served
<1>3. \A j \in (k + 1) .. Len(q) : j \in 1 .. Len(q)
  BY QListed
<1> QED BY <1>2, <1>3 DEF Served

\* A queue stays served when somebody who does not stop joins its end.
LEMMA ServedAppend ==
  ASSUME NEW q \in Q, NEW F, NEW B, NEW p \in Coroutines
  PROVE  /\ Served(q, F, B) /\ p \notin B => Served(Append(q, p), F, B)
         /\ p \in F => Served(Append(q, p), F, B)
         /\ Bared(Append(q, p), B) => Bared(q, B) \/ p \in B
<1>1. PICK r \in Q : r = Append(q, p) /\ Len(r) = Len(q) + 1 /\ (\A i \in 1 .. Len(q) : r[i] = q[i]) /\ r[Len(q) + 1] = p
  BY QAppended
<1>2. Len(q) \in Nat
  BY QListed
<1>3. \A i \in 1 .. Len(r) : i \in 1 .. Len(q) \/ i = Len(q) + 1
  BY <1>1, <1>2
<1>4. Len(q) + 1 \in 1 .. Len(r) /\ ((Len(q) + 1) + 1) .. Len(r) = {} /\ \A i \in 1 .. Len(q) : i \in 1 .. Len(r)
  BY <1>1, <1>2
<1>5. Bared(r, B) => Bared(q, B) \/ p \in B
  BY <1>1, <1>3 DEF Bared
<1>6. p \in F => Served(r, F, B)
  BY <1>1, <1>4 DEF Served
<1>7. Served(q, F, B) /\ p \notin B => Served(r, F, B)
  <2>1. SUFFICES ASSUME NEW k \in 1 .. Len(q), q[k] \in F, \A j \in (k + 1) .. Len(q) : q[j] \notin B, p \notin B
                 PROVE  Served(r, F, B)
    BY DEF Served
  <2>2. \A j \in (k + 1) .. Len(r) : r[j] \notin B
    <3>1. TAKE j \in (k + 1) .. Len(r)
    <3>2. (j \in (k + 1) .. Len(q) /\ j \in 1 .. Len(q)) \/ j = Len(q) + 1
      BY <1>1, <1>2
    <3> QED BY <3>2, <2>1, <1>1
  <2> QED BY <2>1, <2>2, <1>1, <1>4 DEF Served
<1> QED BY <1>1, <1>5, <1>6, <1>7

\* Who leaves the queue takes away no other's promise.
LEMMA ServedRemove ==
  ASSUME NEW q \in Q, NEW F, NEW B, NEW m \in 1 .. Len(q)
  PROVE  /\ Bared(RemoveAt(q, m), B) => Bared(q, B)
         /\ Served(q, F, B) => \/ Served(RemoveAt(q, m), F, B)
                               \/ q[m] \in F /\ (m = 1 => ~Bared(RemoveAt(q, m), B))
<1>1. Len(q) \in Nat /\ m \in Nat /\ m >= 1 /\ m <= Len(q)
  BY QListed
<1>2. PICK r \in Q : /\ r = RemoveAt(q, m) /\ Len(r) = Len(q) - 1
                     /\ \A i \in 1 .. (m - 1) : r[i] = q[i]
                     /\ \A i \in m .. (Len(q) - 1) : r[i] = q[i + 1]
  BY QRemoved
<1>3. \A i \in 1 .. Len(r) : i < m => i \in 1 .. Len(q) /\ r[i] = q[i]
  <2>1. TAKE i \in 1 .. Len(r)
  <2>2. i < m => i \in 1 .. (m - 1) /\ i \in 1 .. Len(q)
    BY <1>1, <1>2
  <2> QED BY <2>2, <1>2
<1>4. \A i \in 1 .. Len(r) : ~(i < m) => i + 1 \in 1 .. Len(q) /\ r[i] = q[i + 1]
  <2>1. TAKE i \in 1 .. Len(r)
  <2>2. ~(i < m) => i \in m .. (Len(q) - 1) /\ i + 1 \in 1 .. Len(q)
    BY <1>1, <1>2
  <2> QED BY <2>2, <1>2
<1>5. Bared(r, B) => Bared(q, B)
  BY <1>3, <1>4 DEF Bared
<1>6. ASSUME NEW k \in 1 .. Len(q), q[k] \in F, \A j \in (k + 1) .. Len(q) : q[j] \notin B
      PROVE  Served(r, F, B) \/ (q[m] \in F /\ (m = 1 => ~Bared(r, B)))
  <2>1. CASE k < m
    <3>1. k \in 1 .. Len(r) /\ r[k] \in F
      BY <2>1, <1>1, <1>2, <1>3, <1>6
    <3>2. \A j \in (k + 1) .. Len(r) : r[j] \notin B
      <4>1. TAKE j \in (k + 1) .. Len(r)
      <4>2. j \in 1 .. Len(r) /\ j \in (k + 1) .. Len(q) /\ j + 1 \in (k + 1) .. Len(q)
        BY <1>1, <1>2
      <4> QED BY <4>2, <1>3, <1>4, <1>6
    <3> QED BY <3>1, <3>2 DEF Served
  <2>2. CASE k = m
    <3>1. m = 1 => ~Bared(r, B)
      <4>1. SUFFICES ASSUME m = 1, NEW i \in 1 .. Len(r) PROVE r[i] \notin B
        BY DEF Bared
      <4>2. ~(i < m) /\ i + 1 \in (k + 1) .. Len(q)
        BY <4>1, <2>2, <1>1, <1>2
      <4> QED BY <4>2, <1>4, <1>6
    <3> QED BY <3>1, <2>2, <1>6
  <2>3. CASE k > m
    <3>1. k - 1 \in 1 .. Len(r) /\ ~(k - 1 < m) /\ (k - 1) + 1 = k
      BY <2>3, <1>1, <1>2
    <3>2. r[k - 1] \in F
      BY <3>1, <1>4, <1>6
    <3>3. \A j \in ((k - 1) + 1) .. Len(r) : r[j] \notin B
      <4>1. TAKE j \in ((k - 1) + 1) .. Len(r)
      <4>2. j \in 1 .. Len(r) /\ ~(j < m) /\ j + 1 \in (k + 1) .. Len(q)
        BY <2>3, <1>1, <1>2
      <4> QED BY <4>2, <1>4, <1>6
    <3> QED BY <3>1, <3>2, <3>3 DEF Served
  <2> QED BY <2>1, <2>2, <2>3, <1>1
<1>7. Served(q, F, B) => Served(r, F, B) \/ (q[m] \in F /\ (m = 1 => ~Bared(r, B)))
  BY <1>6 DEF Served
<1> QED BY <1>2, <1>5, <1>7

-----------------------------------------------------------------------------
(* The parts of the invariant, when one list changes *)

\* The queue and the lists have their types.
LEMMA Typed == TypeInv => todo \in Todos /\ lock \in Q
  BY DEF TypeInv, Todos, Q

\* Where a coroutine goes on.
LEMMA GoesTo ==
  ASSUME NEW p \in Coroutines, NEW ops, Goes(p, ops)
  PROVE  /\ todo' = Put(todo, p, Kept(ops))
         /\ ops # <<>> /\ Head(ops) = "release" => lock' = Queued(Tail(lock), p, Kept(ops))
         /\ ~(ops # <<>> /\ Head(ops) = "release") => Kept(ops) = ops /\ lock' = Queued(lock, p, ops)
  BY DEF Goes, Kept, Put

\* A sound list begins with an operation, and never with a release.
LEMMA PlanHead == ASSUME NEW n, Plan(n) PROVE /\ n \in Seq(Ops) /\ ~(n # <<>> /\ Head(n) = "release")
                                              /\ n # <<>> => Head(n) = n[1] /\ n[1] \in Ops
<1>1. n \in Seq(Ops) /\ Sound(n)
  BY DEF Plan
<1>2. n # <<>> => Len(n) > 0 /\ Head(n) = n[1] /\ n[1] \in Ops
  BY <1>1
<1>3. Len(n) > 0 => n[1] \notin {"release"}
  BY <1>1 DEF Sound
<1> QED BY <1>1, <1>2, <1>3

\* Handlers, rejoins and teardowns are different coroutines, each of one
\* socket.
LEMMA HandlerRejoin ==
  /\ \A s \in Pages, v \in Viewers : Handler(s) # Rejoin(v)
  /\ \A s \in Pages, o \in Owners : Handler(s) # Grace(o)
  /\ \A v \in Viewers, o \in Owners : Rejoin(v) # Grace(o)
  /\ \A s \in Pages : Handler(s) \in Coroutines
  /\ \A v \in Viewers : Rejoin(v) \in Coroutines
  /\ \A o \in Owners : Grace(o) \in Coroutines
  /\ Owners \subseteq Pages /\ Viewers \subseteq Pages
  /\ \A a, b \in Pages : Handler(a) = Handler(b) => a = b
  /\ \A a, b \in Viewers : Rejoin(a) = Rejoin(b) => a = b
  /\ \A a, b \in Owners : Grace(a) = Grace(b) => a = b
  /\ \A s \in Pages : Handler(s) \notin Rejoins
  /\ \A o \in Owners : Grace(o) \notin Rejoins
  /\ NoOne \notin Coroutines
  /\ \A s \in Pages : Handler(s)[1] = s
  /\ \A v \in Viewers : Rejoin(v)[1] = v
  /\ \A o \in Owners : Grace(o)[1] = o
  BY CaptureAssumption DEF Handler, Rejoin, Grace, Coroutines, Pages, Rejoins

\* The shapes of the lists, one of them changed.
LEMMA ShapesStep ==
  ASSUME todo \in Todos, Shapes, NEW p \in Coroutines, NEW n, Plan(n), todo' = Put(todo, p, n),
         n # <<>> => n[1] # "departed" /\ (n[1] = "register" => \E o \in Owners : p = Handler(o)),
         p \in Rejoins => Rejoining(n)
  PROVE  Shapes'
<1>1. /\ todo'[p] = n
      /\ \A c \in Coroutines : c # p => todo'[c] = todo[c]
  BY DEF Todos, Put
<1>2. /\ \A c \in Coroutines : Plan(todo'[c])
      /\ \A v \in Viewers : Rejoining(todo'[Rejoin(v)])
  BY <1>1, HandlerRejoin DEF Shapes, Rejoins
<1>3. n # <<>> => Head(n) = n[1]
  BY PlanHead
<1>4. \A c \in Coroutines : At(c, "departed")' => \E s \in Pages : c = Handler(s)
  BY <1>1, <1>3 DEF Shapes, At
<1>5. \A c \in Coroutines : At(c, "register")' => \E o \in Owners : c = Handler(o)
  BY <1>1, <1>3 DEF Shapes, At
<1> QED BY <1>2, <1>4, <1>5 DEF Shapes

\* A coroutine that holds no lock, and is not waiting for it, goes on.
LEMMA OutsideStep ==
  ASSUME TypeInv, Shapes, LockInv, NEW p \in Coroutines, ~InSection(todo[p]), NEW n, Plan(n), Goes(p, n),
         n # <<>> => /\ n[1] \notin Inner \cup {"departed"}
                     /\ n[1] = "register" => \E o \in Owners : p = Handler(o),
         p \in Rejoins => Rejoining(n)
  PROVE  /\ todo' = Put(todo, p, n) /\ todo' \in Todos /\ lock' \in Q
         /\ \A i \in 1 .. Len(lock) : lock[i] # p
         /\ InSection(n) => lock' = Append(lock, p)
         /\ ~InSection(n) => lock' = lock
         /\ Shapes' /\ LockInv'
<1>1. todo \in Todos /\ lock \in Q /\ LockOK(todo, lock)
  BY Typed DEF LockInv
<1>2. todo' = Put(todo, p, n) /\ lock' = Queued(lock, p, n) /\ n \in Seq(Ops)
  <2>1. n \in Seq(Ops) /\ ~(n # <<>> /\ Head(n) = "release")
    BY PlanHead
  <2> QED BY <2>1, GoesTo
<1>3. Shapes'
  BY <1>1, <1>2, ShapesStep
<1>4. /\ Put(todo, p, n) \in Todos /\ Queued(lock, p, n) \in Q
      /\ LockOK(Put(todo, p, n), Queued(lock, p, n))
      /\ \A i \in 1 .. Len(lock) : lock[i] # p
      /\ InSection(n) => Queued(lock, p, n) = Append(lock, p)
      /\ ~InSection(n) => Queued(lock, p, n) = lock
  BY <1>1, <1>2, LockOutside
<1> QED BY <1>2, <1>3, <1>4 DEF LockInv

\* The holder of the lock goes on within its section.
LEMMA WithinStep ==
  ASSUME TypeInv, Shapes, LockInv, NEW p \in Coroutines, InSection(todo[p]), lock # <<>>, lock[1] = p,
         NEW n, Plan(n), Goes(p, n), InSection(n),
         p \in Rejoins => Rejoining(n)
  PROVE  /\ todo' = Put(todo, p, n) /\ todo' \in Todos /\ lock' = lock
         /\ Shapes' /\ LockInv'
<1>1. todo \in Todos /\ lock \in Q /\ LockOK(todo, lock)
  BY Typed DEF LockInv
<1>2. todo' = Put(todo, p, n) /\ lock' = Queued(lock, p, n) /\ n \in Seq(Ops)
  BY GoesTo, PlanHead
<1>3. n[1] \notin {"departed", "register"}
  BY DEF InSection, Sections, Locking, Inner
<1>4. Shapes'
  BY <1>1, <1>2, <1>3, ShapesStep
<1>5. /\ Put(todo, p, n) \in Todos /\ Queued(lock, p, n) = lock
      /\ LockOK(Put(todo, p, n), lock)
  BY <1>1, <1>2, LockWithin
<1> QED BY <1>2, <1>4, <1>5 DEF LockInv

\* The holder of the lock releases it.
LEMMA LeavesStep ==
  ASSUME TypeInv, Shapes, LockInv, NEW p \in Coroutines, lock # <<>>, lock[1] = p,
         NEW ops, Goes(p, ops), ops # <<>>, Head(ops) = "release", NEW n, n = Kept(ops), Plan(n),
         n # <<>> => n[1] \notin Inner \cup {"departed", "register"},
         p \in Rejoins => Rejoining(n)
  PROVE  /\ todo' = Put(todo, p, n) /\ todo' \in Todos /\ lock' \in Q
         /\ \A i \in 1 .. Len(Tail(lock)) : Tail(lock)[i] # p
         /\ InSection(n) => lock' = Append(Tail(lock), p)
         /\ ~InSection(n) => lock' = Tail(lock)
         /\ \A c \in Coroutines : c # p /\ InSection(todo[c]) => todo[c][1] \in Locking
         /\ Shapes' /\ LockInv'
<1>1. todo \in Todos /\ lock \in Q /\ LockOK(todo, lock)
  BY Typed DEF LockInv
<1>2. todo' = Put(todo, p, n) /\ lock' = Queued(Tail(lock), p, n) /\ n \in Seq(Ops)
  BY GoesTo, PlanHead
<1>3. Shapes'
  BY <1>1, <1>2, ShapesStep
<1>4. /\ Put(todo, p, n) \in Todos /\ Queued(Tail(lock), p, n) \in Q
      /\ LockOK(Put(todo, p, n), Queued(Tail(lock), p, n))
      /\ \A i \in 1 .. Len(Tail(lock)) : Tail(lock)[i] # p
      /\ InSection(n) => Queued(Tail(lock), p, n) = Append(Tail(lock), p)
      /\ ~InSection(n) => Queued(Tail(lock), p, n) = Tail(lock)
      /\ \A c \in Coroutines : c # p /\ InSection(todo[c]) => todo[c][1] \in Locking
  BY <1>1, <1>2, LockLeaves
<1> QED BY <1>2, <1>3, <1>4 DEF LockInv

\* Whose body of a pass it is.
LEMMA PassStepped ==
  ASSUME todo \in Todos, PassInv, NEW p \in Coroutines, NEW n, todo' = Put(todo, p, n),
         pass' = p <=> Body(n), \A c \in Coroutines : c # p => (pass' = c <=> pass = c)
  PROVE  PassInv'
<1>1. /\ todo'[p] = n
      /\ \A c \in Coroutines : c # p => todo'[c] = todo[c]
  BY DEF Todos, Put
<1> QED BY <1>1 DEF PassInv

\* Who holds the pass, while nobody enters or leaves one.
LEMMA PassKept ==
  ASSUME todo \in Todos, PassInv, NEW p \in Coroutines, NEW n, todo' = Put(todo, p, n),
         Body(n) <=> Body(todo[p]), pass' = pass
  PROVE  PassInv'
<1>1. /\ todo'[p] = n
      /\ \A c \in Coroutines : c # p => todo'[c] = todo[c]
  BY DEF Todos, Put
<1> QED BY <1>1 DEF PassInv

\* A coroutine that has begun.
LEMMA GracesStep ==
  ASSUME todo \in Todos, Graces, NEW p \in Coroutines, NEW n \in Seq(Ops), todo' = Put(todo, p, n),
         todo[p] # <<>>, n # <<>> => n[1] # "departed", life' = life
  PROVE  Graces'
<1>1. /\ todo'[p] = n
      /\ \A c \in Coroutines : c # p => todo'[c] = todo[c]
  BY DEF Todos, Put
<1>2. SUFFICES ASSUME NEW o \in Owners
               PROVE  /\ todo'[Grace(o)] # <<>> => life'[o] = "gone" /\ todo'[Handler(o)] = <<>>
                      /\ At(Handler(o), "departed")' => life'[o] = "gone"
  BY DEF Graces
<1>3. Handler(o) \in Coroutines /\ Grace(o) \in Coroutines
  BY HandlerRejoin
<1>4. ASSUME todo'[Grace(o)] # <<>> PROVE life'[o] = "gone" /\ todo'[Handler(o)] = <<>>
  BY <1>1, <1>3, <1>4 DEF Graces
<1>5. ASSUME At(Handler(o), "departed")' PROVE life'[o] = "gone"
  <2>1. todo'[Handler(o)] # <<>> /\ Head(todo'[Handler(o)]) = "departed"
    BY <1>5 DEF At
  <2>2. Handler(o) # p
    BY <1>1, <2>1, HeadIsFirst
  <2> QED BY <1>1, <1>3, <2>1, <2>2 DEF Graces, At
<1> QED BY <1>4, <1>5

\* The teardowns, when a rejoin goes on.
LEMMA GracesOther ==
  ASSUME todo \in Todos, Graces, NEW p \in Coroutines, NEW n, todo' = Put(todo, p, n),
         p \in Rejoins, life' = life
  PROVE  Graces'
<1>1. \A c \in Coroutines : c # p => todo'[c] = todo[c]
  BY DEF Todos, Put
<1>2. \A o \in Owners : Handler(o) # p /\ Grace(o) # p /\ Handler(o) \in Coroutines /\ Grace(o) \in Coroutines
  BY HandlerRejoin DEF Rejoins
<1> QED BY <1>1, <1>2 DEF Graces, At

\* A socket that is open hears of a message.
LEMMA GracesMessage ==
  ASSUME todo \in Todos, Graces, NEW s \in Pages, NEW n \in Seq(Ops), todo' = Put(todo, Handler(s), n),
         life[s] = "open", n # <<>> => n[1] # "departed", 
         \A o \in Owners : life[o] = "gone" => life'[o] = "gone"
  PROVE  Graces'
<1>0. Handler(s) \in Coroutines
  BY HandlerRejoin
<1>1. /\ todo'[Handler(s)] = n
      /\ \A c \in Coroutines : c # Handler(s) => todo'[c] = todo[c]
  BY <1>0 DEF Todos, Put
<1>2. SUFFICES ASSUME NEW o \in Owners
               PROVE  /\ todo'[Grace(o)] # <<>> => life'[o] = "gone" /\ todo'[Handler(o)] = <<>>
                      /\ At(Handler(o), "departed")' => life'[o] = "gone"
  BY DEF Graces
<1>3. /\ Handler(o) \in Coroutines /\ Grace(o) \in Coroutines /\ Grace(o) # Handler(s)
      /\ Handler(o) = Handler(s) => o = s
  BY HandlerRejoin
<1>4. ASSUME todo'[Grace(o)] # <<>> PROVE life'[o] = "gone" /\ todo'[Handler(o)] = <<>>
  <2>1. todo[Grace(o)] # <<>> /\ life[o] = "gone" /\ o # s /\ todo[Handler(o)] = <<>>
    BY <1>1, <1>3, <1>4 DEF Graces
  <2> QED BY <2>1, <1>1, <1>3
<1>5. ASSUME At(Handler(o), "departed")' PROVE life'[o] = "gone"
  <2>1. todo'[Handler(o)] # <<>> /\ Head(todo'[Handler(o)]) = "departed"
    BY <1>5 DEF At
  <2>2. Handler(o) # Handler(s)
    BY <1>1, <2>1, HeadIsFirst
  <2> QED BY <1>1, <1>3, <2>1, <2>2 DEF Graces, At
<1> QED BY <1>4, <1>5

\* Only the list of p changes.
LEMMA PutAt ==
  ASSUME NEW t \in Todos, NEW p \in Coroutines, NEW n
  PROVE  /\ Put(t, p, n)[p] = n
         /\ \A c \in Coroutines : c # p => Put(t, p, n)[c] = t[c]
  BY DEF Put, Todos

\* Who fixes now and who stops, spelled.
LEMMA InNows == \A c \in Coroutines : /\ (c \in Nows <=> NowFix(c))
                                      /\ (c \in Bares <=> BareList(todo[c]))
  BY DEF Nows, Bares

\* And in the next state.
LEMMA InNowsNext == \A c \in Coroutines : /\ (c \in Nows' <=> NowFix(c)')
                                       /\ (c \in Bares' <=> BareList(todo'[c]))
  BY DEF Nows, Bares

\* What is fixed already, or will be.
Fixed(p, s, k) == p \notin Rejoins /\ (LaterList(s, k) \/ (InSection(s) /\ NowList(s)))

\* WantedInv when p, who was not in a section, goes on, into one or not.
LEMMA WantedOutside ==
  ASSUME TypeInv, LockInv, WantedInv, NEW p \in Coroutines, ~InSection(todo[p]), NEW n \in Seq(Ops),
         todo' = Put(todo, p, n), \A i \in 1 .. Len(lock) : lock[i] # p,
         InSection(n) => lock' = Append(lock, p), ~InSection(n) => lock' = lock,
         \A c \in Coroutines : c # p => local'[c].keep = local[c].keep,
         instance' = instance, history'.failed = history.failed,
         pending /\ pass # NoOne => (pending' /\ pass' # NoOne) \/ Fixed(p, n, local'[p].keep),
         p \notin Rejoins /\ LaterList(todo[p], local[p].keep) => Fixed(p, n, local'[p].keep),
         Wants' => Wants \/ Fixed(p, n, local'[p].keep),
         BareList(n) => ~Wants'
  PROVE  WantedInv'
<1>1. todo \in Todos /\ lock \in Q /\ LockOK(todo, lock)
  BY Typed DEF LockInv
<1>2. /\ todo'[p] = n
      /\ \A c \in Coroutines : c # p => todo'[c] = todo[c]
  BY <1>1, PutAt
<1>3. SUFFICES ASSUME Danger', Wants' PROVE Promise'
  BY DEF WantedInv
<1>4. \A i \in 1 .. Len(lock) : lock[i] \in Coroutines /\ lock[i] # p
  BY <1>1, QListed
<1>5. lock # <<>> => lock' # <<>> /\ Head(lock') = Head(lock)
  <2>1. SUFFICES ASSUME lock # <<>> PROVE lock' # <<>> /\ Head(lock') = Head(lock)
    OBVIOUS
  <2>2. PICK r \in Q : r = Append(lock, p) /\ Len(r) = Len(lock) + 1 /\ \A i \in 1 .. Len(lock) : r[i] = lock[i]
    BY <1>1, QAppended
  <2>3. Len(lock) \in Nat /\ Len(lock) >= 1
    BY <1>1, <2>1, QListed
  <2>4. 1 \in 1 .. Len(lock) /\ Len(r) >= 1
    BY <2>2, <2>3
  <2>5. r # <<>> /\ r[1] = lock[1]
    BY <2>2, <2>4, QListed
  <2>6. Head(r) = r[1] /\ Head(lock) = lock[1]
    BY <1>1, <2>1, <2>5, QTail
  <2> QED BY <2>1, <2>2, <2>5, <2>6
<1>6. \A i \in 1 .. Len(lock) : lock[i] \in Nows => lock[i] \in Nows'
  <2>1. SUFFICES ASSUME NEW i \in 1 .. Len(lock), NEW c, c = lock[i], NowFix(c) PROVE NowFix(c)'
    BY <1>4, InNows, InNowsNext
  <2>2. c \in Coroutines /\ todo'[c] = todo[c]
    BY <2>1, <1>2, <1>4
  <2>3. Holds(c) => Holds(c)'
    BY <1>5 DEF Holds
  <2> QED BY <2>1, <2>2, <2>3 DEF NowFix
<1>7. \A i \in 1 .. Len(lock) : lock[i] \in Bares' => lock[i] \in Bares
  BY <1>2, <1>4, InNows, InNowsNext
<1>8. p \notin Bares'
  BY <1>2, <1>3, InNowsNext
<1>9. Bared(lock', Bares') => Bared(lock, Bares)
  <2>1. Bared(lock', Bares') => Bared(lock, Bares')
    BY <1>1, <1>8, ServedAppend
  <2> QED BY <2>1, <1>1, <1>6, <1>7, ServedMono
<1>10. Danger
  BY <1>3, <1>9 DEF Danger
<1>11. ASSUME Fixed(p, n, local'[p].keep) PROVE Promise'
  <2>1. LaterList(n, local'[p].keep) => LaterFix(p)'
    BY <1>11, <1>2 DEF LaterFix, Fixed, Rejoins
  <2>2. ASSUME InSection(n), NowList(n) PROVE Served(lock', Nows', Bares')
    <3>1. NowFix(p)'
      BY <1>11, <1>2, <2>2 DEF NowFix, Fixed, Rejoins
    <3> QED BY <3>1, <1>1, <2>2, InNowsNext, ServedAppend
  <2> QED BY <1>11, <2>1, <2>2 DEF Fixed, Promise
<1>12. CASE Wants
  <2>1. Promise
    BY <1>10, <1>12 DEF WantedInv
  <2>2. CASE pending /\ pass # NoOne
    BY <2>2, <1>11 DEF Promise
  <2>3. ASSUME NEW c \in Coroutines, LaterFix(c) PROVE Promise'
    <3>1. CASE c = p
      BY <2>3, <3>1, <1>11 DEF LaterFix
    <3>2. CASE c # p
      <4>1. LaterFix(c)'
        BY <2>3, <3>2, <1>2 DEF LaterFix, Rejoins
      <4> QED BY <4>1 DEF Promise
    <3> QED BY <3>1, <3>2
  <2>4. CASE Served(lock, Nows, Bares)
    <3>1. Served(lock, Nows', Bares')
      BY <2>4, <1>1, <1>6, <1>7, ServedMono
    <3>2. Served(lock', Nows', Bares')
      BY <3>1, <1>1, <1>8, ServedAppend
    <3> QED BY <3>2 DEF Promise
  <2> QED BY <2>1, <2>2, <2>3, <2>4 DEF Promise
<1> QED BY <1>3, <1>11, <1>12

\* What those behind the holder of the lock promise, and threaten.
LEMMA BehindKept ==
  ASSUME TypeInv, LockInv, NEW p \in Coroutines, lock # <<>>, lock[1] = p, NEW n,
         todo' = Put(todo, p, n)
  PROVE  /\ Served(Tail(lock), Nows, Bares) => Served(Tail(lock), Nows', Bares')
         /\ Bared(Tail(lock), Bares') <=> Bared(Tail(lock), Bares)
<1>1. todo \in Todos /\ lock \in Q /\ LockOK(todo, lock)
  BY Typed DEF LockInv
<1>2. /\ todo'[p] = n
      /\ \A c \in Coroutines : c # p => todo'[c] = todo[c]
  BY <1>1, PutAt
<1>3. PICK r \in Q : r = Tail(lock) /\ Len(r) = Len(lock) - 1 /\ \A i \in 1 .. (Len(lock) - 1) : r[i] = lock[i + 1]
  BY <1>1, QTail
<1>4. Len(lock) \in Nat /\ Len(lock) >= 1 /\ \A i \in 1 .. Len(lock) : lock[i] \in Coroutines
  BY <1>1, QListed
<1>5. \A i \in 1 .. Len(r) : r[i] \in Coroutines /\ r[i] # p
  <2>1. TAKE i \in 1 .. Len(r)
  <2>2. i + 1 \in 1 .. Len(lock) /\ i + 1 # 1 /\ 1 \in 1 .. Len(lock) /\ r[i] = lock[i + 1]
    BY <1>3, <1>4
  <2>3. lock[i + 1] # lock[1]
    BY <1>1, <2>2 DEF LockOK
  <2> QED BY <2>2, <2>3, <1>4
<1>6. Head(lock) = p
  BY <1>1, QTail
<1>7. \A i \in 1 .. Len(r) : r[i] \in Nows => r[i] \in Nows'
  <2>1. SUFFICES ASSUME NEW i \in 1 .. Len(r), NEW c, c = r[i], NowFix(c) PROVE NowFix(c)'
    BY <1>5, InNows, InNowsNext
  <2>2. c \in Coroutines /\ todo'[c] = todo[c] /\ ~Holds(c)
    BY <2>1, <1>2, <1>5, <1>6 DEF Holds
  <2> QED BY <2>1, <2>2 DEF NowFix, Rejoins
<1>8. \A i \in 1 .. Len(r) : r[i] \in Bares' <=> r[i] \in Bares
  BY <1>2, <1>5, InNows, InNowsNext
<1> QED BY <1>3, <1>7, <1>8, ServedMono

\* The holder of the lock goes on within its section.
LEMMA WantedWithin ==
  ASSUME TypeInv, LockInv, WantedInv, NEW p \in Coroutines, lock # <<>>, lock[1] = p, NEW n \in Seq(Ops),
         todo' = Put(todo, p, n), lock' = lock,
         \A c \in Coroutines : c # p => local'[c].keep = local[c].keep,
         pending' = pending, pass' = pass, Wants' => Wants,
         BareList(n) => BareList(todo[p]),
         LaterFix(p) => LaterFix(p)', NowFix(p) => LaterFix(p)' \/ NowFix(p)',
         ~instance' /\ ~history'.failed =>
           (~instance /\ ~history.failed) \/ BareList(todo[p]) \/ LaterFix(p)' \/ NowFix(p)'
  PROVE  WantedInv'
<1>1. todo \in Todos /\ lock \in Q /\ LockOK(todo, lock)
  BY Typed DEF LockInv
<1>2. /\ todo'[p] = n
      /\ \A c \in Coroutines : c # p => todo'[c] = todo[c]
  BY <1>1, PutAt
<1>3. SUFFICES ASSUME Danger', Wants' PROVE Promise'
  BY DEF WantedInv
<1>4. PICK r \in Q : r = Tail(lock)
  BY <1>1, QTail
<1>5. /\ Served(r, Nows, Bares) => Served(r, Nows', Bares')
      /\ Bared(r, Bares') <=> Bared(r, Bares)
  BY <1>4, BehindKept
<1>6. \A F, B : /\ Served(lock, F, B) <=> (p \in F /\ ~Bared(r, B)) \/ Served(r, F, B)
                /\ Bared(lock, B) <=> p \in B \/ Bared(r, B)
  BY <1>1, <1>4, ServedSplit
<1>7. /\ p \in Nows <=> NowFix(p)
      /\ p \in Nows' <=> NowFix(p)'
      /\ p \in Bares' => p \in Bares
      /\ BareList(todo[p]) => p \in Bares
  BY <1>2, InNows, InNowsNext
<1>8. ASSUME NowFix(p)', ~Bared(r, Bares) PROVE Promise'
  <2>1. Served(lock, Nows', Bares')
    BY <1>5, <1>6, <1>7, <1>8
  <2> QED BY <2>1 DEF Promise
<1>9. LaterFix(p)' => Promise'
  BY DEF Promise
<1>10. ASSUME Danger PROVE Promise'
  <2>1. Promise
    BY <1>3, <1>10 DEF WantedInv
  <2>2. CASE pending /\ pass # NoOne
    BY <2>2 DEF Promise
  <2>3. ASSUME NEW c \in Coroutines, LaterFix(c) PROVE Promise'
    <3>1. CASE c = p
      BY <2>3, <3>1, <1>9
    <3>2. CASE c # p
      <4>1. LaterFix(c)'
        BY <2>3, <3>2, <1>2 DEF LaterFix, Rejoins
      <4> QED BY <4>1 DEF Promise
    <3> QED BY <3>1, <3>2
  <2>4. CASE Served(lock, Nows, Bares)
    <3>1. CASE p \in Nows /\ ~Bared(r, Bares)
      BY <3>1, <1>7, <1>8, <1>9
    <3>2. CASE Served(r, Nows, Bares)
      <4>1. Served(lock, Nows', Bares')
        BY <3>2, <1>5, <1>6
      <4> QED BY <4>1 DEF Promise
    <3> QED BY <2>4, <3>1, <3>2, <1>6
  <2> QED BY <2>1, <2>2, <2>3, <2>4 DEF Promise
<1>11. CASE Bared(lock, Bares')
  <2>1. Bared(lock, Bares)
    BY <1>11, <1>5, <1>6, <1>7
  <2> QED BY <2>1, <1>10 DEF Danger
<1>12. CASE ~instance' /\ ~history'.failed
  <2>1. CASE Bared(lock, Bares) \/ (~instance /\ ~history.failed)
    BY <2>1, <1>10 DEF Danger
  <2>2. CASE ~Bared(lock, Bares) /\ ~(~instance /\ ~history.failed)
    <3>1. ~Bared(r, Bares) /\ ~BareList(todo[p])
      BY <2>2, <1>6, <1>7
    <3>2. LaterFix(p)' \/ NowFix(p)'
      BY <3>1, <2>2, <1>12
    <3> QED BY <3>1, <3>2, <1>8, <1>9
  <2> QED BY <2>1, <2>2
<1> QED BY <1>3, <1>11, <1>12 DEF Danger

\* The holder of the lock leaves its section.
LEMMA WantedLeaves ==
  ASSUME TypeInv, LockInv, WantedInv, NEW p \in Coroutines, lock # <<>>, lock[1] = p, NEW n \in Seq(Ops),
         todo' = Put(todo, p, n),
         InSection(n) => lock' = Append(Tail(lock), p), ~InSection(n) => lock' = Tail(lock),
         \A c \in Coroutines : c # p => local'[c].keep = local[c].keep,
         pending' = pending, pass' = pass, Wants' => Wants,
         ~BareList(n),
         LaterFix(p) => Fixed(p, n, local'[p].keep),
         NowFix(p) => LaterFix(p)' \/ instance' \/ history'.failed,
         ~instance' /\ ~history'.failed => ~instance /\ ~history.failed
  PROVE  WantedInv'
<1>1. todo \in Todos /\ lock \in Q /\ LockOK(todo, lock)
  BY Typed DEF LockInv
<1>2. /\ todo'[p] = n
      /\ \A c \in Coroutines : c # p => todo'[c] = todo[c]
  BY <1>1, PutAt
<1>3. SUFFICES ASSUME Danger', Wants' PROVE Promise'
  BY DEF WantedInv
<1>4. PICK r \in Q : r = Tail(lock)
  BY <1>1, QTail
<1>5. /\ Served(r, Nows, Bares) => Served(r, Nows', Bares')
      /\ Bared(r, Bares') <=> Bared(r, Bares)
  BY <1>4, BehindKept
<1>6. \A F, B : /\ Served(lock, F, B) <=> (p \in F /\ ~Bared(r, B)) \/ Served(r, F, B)
                /\ Bared(lock, B) <=> p \in B \/ Bared(r, B)
  BY <1>1, <1>4, ServedSplit
<1>7. /\ p \in Nows <=> NowFix(p)
      /\ p \notin Bares'
  BY <1>2, InNows, InNowsNext
<1>8. /\ Bared(lock', Bares') => Bared(r, Bares)
      /\ Served(r, Nows, Bares) => Served(lock', Nows', Bares')
  BY <1>4, <1>5, <1>7, ServedAppend
<1>9. Danger
  BY <1>3, <1>6, <1>8 DEF Danger
<1>10. Promise
  BY <1>3, <1>9 DEF WantedInv
<1>11. ASSUME Fixed(p, n, local'[p].keep) PROVE Promise'
  <2>1. LaterList(n, local'[p].keep) => LaterFix(p)'
    BY <1>11, <1>2 DEF LaterFix, Fixed, Rejoins
  <2>2. ASSUME InSection(n), NowList(n) PROVE Served(lock', Nows', Bares')
    <3>1. NowFix(p)'
      BY <1>11, <1>2, <2>2 DEF NowFix, Fixed, Rejoins
    <3> QED BY <3>1, <1>4, <2>2, InNowsNext, ServedAppend
  <2> QED BY <1>11, <2>1, <2>2 DEF Fixed, Promise
<1>12. CASE pending /\ pass # NoOne
  BY <1>12 DEF Promise
<1>13. ASSUME NEW c \in Coroutines, LaterFix(c) PROVE Promise'
  <2>1. CASE c = p
    BY <1>13, <2>1, <1>11
  <2>2. CASE c # p
    <3>1. LaterFix(c)'
      BY <1>13, <2>2, <1>2 DEF LaterFix, Rejoins
    <3> QED BY <3>1 DEF Promise
  <2> QED BY <2>1, <2>2
<1>14. CASE Served(lock, Nows, Bares)
  <2>1. CASE NowFix(p) /\ ~Bared(r, Bares)
    <3>1. ~instance' /\ ~history'.failed
      BY <2>1, <1>3, <1>8 DEF Danger
    <3>2. LaterFix(p)'
      BY <2>1, <3>1
    <3> QED BY <3>2 DEF Promise
  <2>2. CASE Served(r, Nows, Bares)
    BY <2>2, <1>8 DEF Promise
  <2> QED BY <2>1, <2>2, <1>6, <1>7, <1>14
<1> QED BY <1>10, <1>12, <1>13, <1>14 DEF Promise

\* The coroutine that will start the backpressure task.
LEMMA MonitorStepped ==
  ASSUME TypeInv, MonitorInv, NEW p \in Coroutines, NEW n, todo' = Put(todo, p, n),
         pending /\ pass # NoOne => (pending' /\ pass' # NoOne) \/ Monitorer(p)',
         Monitorer(p) => Monitorer(p)' \/ ~instance' \/ ~Wants' \/ entry'.task \/ history'.unthrottled \/ history'.failed,
         instance' /\ Wants' /\ ~history'.failed /\ ~history'.unthrottled /\ ~entry'.task =>
           \/ instance /\ Wants /\ ~history.failed /\ ~history.unthrottled /\ ~entry.task
           \/ Monitorer(p)'
  PROVE  MonitorInv'
<1>1. todo \in Todos
  BY Typed
<1>2. /\ todo'[p] = n
      /\ \A c \in Coroutines : c # p => todo'[c] = todo[c]
  BY <1>1, PutAt
<1>3. \A c \in Coroutines : c # p => (Monitorer(c) => Monitorer(c)')
  BY <1>2 DEF Monitorer, At, Rejoins
<1> QED BY <1>3 DEF MonitorInv

\* No pass comes alive when a list only loses its operations.
LEMMA AliveStep ==
  ASSUME TypeInv, NEW p \in Coroutines, NEW n, todo' = Put(todo, p, n), AliveList(n) => AliveList(todo[p])
  PROVE  PassAlive' => PassAlive
<1>1. todo \in Todos
  BY Typed
<1>2. /\ todo'[p] = n
      /\ \A c \in Coroutines : c # p => todo'[c] = todo[c]
  BY <1>1, PutAt
<1> QED BY <1>2 DEF PassAlive

\* No want arises without a pass that comes alive or an entry that changes.
LEMMA WantsStep ==
  ASSUME PassAlive' => PassAlive, Wanted' => Wanted /\ (entry.told => entry'.told)
  PROVE  Wants' => Wants
  BY DEF Wants

\* Locals when only p and its local variables change.
LEMMA LocalsStep ==
  ASSUME TypeInv, Locals, NEW p \in Coroutines, NEW n, todo' = Put(todo, p, n),
         \A c \in Coroutines : c # p => /\ local'[c].keep = local[c].keep
                                        /\ local'[c].same => local[c].same,
         local'[p].same => entry' # NoOne,
         entry' = NoOne => entry = NoOne \/ \A c \in Coroutines : ~local'[c].same,
         Leading(n) => ~local'[p].keep
  PROVE  Locals'
<1>1. todo \in Todos
  BY Typed
<1>2. /\ todo'[p] = n
      /\ \A c \in Coroutines : c # p => todo'[c] = todo[c]
  BY <1>1, PutAt
<1>3. \A c \in Coroutines : local'[c].same => entry' # NoOne
  BY DEF Locals
<1>4. \A c \in Coroutines : Leading(todo'[c]) => ~local'[c].keep
  BY <1>2 DEF Locals
<1> QED BY <1>3, <1>4 DEF Locals

\* The tables while the lock stays where it is.
LEMMA TablesOutside ==
  ASSUME TypeInv, LockInv, Tables, NEW p \in Coroutines, ~InSection(todo[p]), NEW n \in Seq(Ops),
         todo' = Put(todo, p, n), \A i \in 1 .. Len(lock) : lock[i] # p,
         n # <<>> => n[1] \notin Inner,
         InSection(n) => lock' = Append(lock, p), ~InSection(n) => lock' = lock,
         capture' = capture, late' = late, history'.orphaned = history.orphaned,
         history'.cancelled = history.cancelled, history'.overtaken = history.overtaken
  PROVE  Tables'
<1>1. todo \in Todos /\ lock \in Q /\ LockOK(todo, lock)
  BY Typed DEF LockInv
<1>2. /\ todo'[p] = n
      /\ \A c \in Coroutines : c # p => todo'[c] = todo[c]
  BY <1>1, PutAt
<1>3. Consistent => Consistent'
  BY DEF Consistent, capture
<1>4. CASE lock = <<>>
  <2>1. Consistent'
    BY <1>3, <1>4 DEF Tables
  <2>2. CASE InSection(n)
    <3>1. lock' # <<>> /\ lock'[1] = p
      <4>1. PICK r \in Q : r = Append(lock, p) /\ Len(r) = Len(lock) + 1 /\ r[Len(lock) + 1] = p
        BY <1>1, QAppended
      <4>2. Len(lock) = 0 /\ Len(r) >= 1
        BY <4>1, <1>4
      <4>3. r # <<>> /\ r[1] = p
        BY <4>1, <4>2, QListed
      <4> QED BY <4>1, <4>3, <2>2
    <3>2. todo'[lock'[1]] = n /\ n # <<>> /\ n[1] \in Locking /\ Head(n) = n[1]
      BY <3>1, <2>2, <1>2, HeadIsFirst DEF InSection, Sections
    <3> QED BY <2>1, <3>1, <3>2 DEF Tables, At, Locking
  <2>3. CASE ~InSection(n)
    BY <2>1, <2>3, <1>4 DEF Tables
  <2> QED BY <2>2, <2>3
<1>5. CASE lock # <<>>
  <2>1. Len(lock) \in Nat /\ Len(lock) >= 1 /\ 1 \in 1 .. Len(lock)
    BY <1>1, <1>5, QListed
  <2>2. lock' # <<>> /\ lock'[1] = lock[1]
    <3>1. PICK r \in Q : r = Append(lock, p) /\ Len(r) = Len(lock) + 1 /\ \A i \in 1 .. Len(lock) : r[i] = lock[i]
      BY <1>1, QAppended
    <3>2. Len(r) >= 1
      BY <2>1, <3>1
    <3>3. r # <<>> /\ r[1] = lock[1]
      BY <2>1, <3>1, <3>2, QListed
    <3> QED BY <3>1, <3>3, <1>5
  <2>3. todo'[lock[1]] = todo[lock[1]]
    BY <2>1, <1>1, <1>2, QListed
  <2> QED BY <2>2, <2>3, <1>3, <1>5 DEF Tables, At, capture
<1> QED BY <1>4, <1>5

\* The tables while the holder goes on.
LEMMA TablesWithin ==
  ASSUME TypeInv, NEW p \in Coroutines, lock # <<>>, lock[1] = p, NEW n \in Seq(Ops), n # <<>>,
         todo' = Put(todo, p, n), lock' = lock,
         n[1] \in Locking \cup {"stop_bp", "stop_pop"} => Consistent',
         n[1] \in {"stop_bp", "stop_pop"} /\ n[2] = "start" => instance',
         n[1] = "stop_native" => ~instance',
         n[1] = "start_native" => ~instance' /\ group' /\ (native' # "off" => history'.orphaned
                                     \/ \E r \in Coroutines : <<r, "stop">> \in late')
  PROVE  Tables'
<1>1. todo \in Todos
  BY Typed
<1>2. todo'[p] = n
  BY <1>1, PutAt
<1>3. todo'[lock'[1]] = n /\ Head(n) = n[1]
  BY <1>2, HeadIsFirst
<1> QED BY <1>3 DEF Tables, At

\* The tables when the lock is released.
LEMMA TablesLeaves ==
  ASSUME TypeInv, NEW p \in Coroutines, NEW n \in Seq(Ops), todo' = Put(todo, p, n),
         lock' \in Q, LockInv', Consistent', n # <<>> => n[1] \notin Inner,
         \A c \in Coroutines : c # p /\ InSection(todo[c]) => todo[c][1] \in Locking
  PROVE  Tables'
<1>1. todo \in Todos
  BY Typed
<1>2. /\ todo'[p] = n
      /\ \A c \in Coroutines : c # p => todo'[c] = todo[c]
  BY <1>1, PutAt
<1>3. CASE lock' = <<>>
  BY <1>3 DEF Tables
<1>4. CASE lock' # <<>>
  <2>1. PICK c \in Coroutines : c = lock'[1] /\ 1 \in 1 .. Len(lock')
    <3>1. Len(lock') \in Nat /\ Len(lock') >= 1 /\ \A i \in 1 .. Len(lock') : lock'[i] \in Coroutines
      BY <1>4, QListed
    <3>2. 1 \in 1 .. Len(lock')
      BY <3>1
    <3> QED BY <3>1, <3>2
  <2>2. InSection(todo'[c])
    BY <2>1 DEF LockInv, LockOK, InSection
  <2>3. todo'[c][1] \in Locking /\ todo'[c] # <<>> /\ Head(todo'[c]) = todo'[c][1]
    <3>1. n # <<>> => Head(n) = n[1]
      BY HeadIsFirst
    <3>2. \A x \in Coroutines : todo[x] # <<>> => Head(todo[x]) = todo[x][1]
      BY <1>1, HeadIsFirst DEF Todos
    <3> QED BY <1>2, <2>2, <3>1, <3>2 DEF InSection, Sections
  <2> QED BY <2>1, <2>3, <1>4 DEF Tables, At, Locking
<1> QED BY <1>3, <1>4


-----------------------------------------------------------------------------
(* The invariant, when one coroutine goes on: out of its section, within it, or outside one *)

\* The coroutine at an operation within its section holds the lock.
LEMMA Within ==
  ASSUME TypeInv, Shapes, LockInv, NEW p \in Coroutines, todo[p] # <<>>,
         todo[p][1] \in Inner \/ (InSection(todo[p]) /\ Holds(p))
  PROVE  /\ lock # <<>> /\ lock[1] = p /\ Plan(todo[p]) /\ InSection(todo[p])
<1>1. todo \in Todos /\ lock \in Q /\ LockOK(todo, lock)
  BY Typed DEF LockInv
<1>2. lock # <<>> /\ lock[1] = p
  BY <1>1, QTail DEF LockOK, Holds
<1> QED BY <1>2 DEF Shapes, InSection, Sections

\* What the invariant says of the list of p and of its head.
LEMMA AtHead ==
  ASSUME TypeInv, Shapes, NEW p \in Coroutines
  PROVE  /\ Plan(todo[p]) /\ todo[p] \in Seq(Ops)
         /\ todo[p] # <<>> => Head(todo[p]) = todo[p][1] /\ Rest(p) = Tail(todo[p])
         /\ \A op : At(p, op) <=> todo[p] # <<>> /\ todo[p][1] = op
         /\ p \in Rejoins => Rejoining(todo[p])
<1>1. Plan(todo[p]) /\ todo[p] \in Seq(Ops)
  BY DEF Shapes, Plan
<1> QED BY <1>1, HeadIsFirst DEF At, Rest, Shapes, Rejoins

\* A stop under another of its names.
LEMMA StopFacts ==
  ASSUME NEW s, Plan(s), s # <<>>, s[1] \in {"stop", "stop_bp", "stop_pop"}, NEW h \in StopOps,
         NEW n, n = Under(h, s)
  PROVE  /\ Plan(n) /\ n # <<>> /\ n[1] = h /\ InSection(n) /\ n[2] = s[2]
         /\ Body(n) <=> Body(s)
         /\ AliveList(n) <=> AliveList(s)
         /\ MonitorList(n) <=> MonitorList(s)
         /\ \A b \in BOOLEAN : LaterList(n, b) <=> LaterList(s, b)
         /\ NowList(n) <=> NowList(s)
         /\ BareList(n) => BareList(s)
         /\ Rejoining(s) => Rejoining(n)
         /\ Leading(n) => Leading(s)
<1>1. /\ Plan(n) /\ n # <<>> /\ n[1] = h /\ Len(n) = Len(s)
  BY Heading DEF Under
<1>2. /\ Body(n) <=> Body(s)
      /\ AliveList(n) <=> AliveList(s)
      /\ MonitorList(n) <=> MonitorList(s)
      /\ \A b \in BOOLEAN : LaterList(n, b) <=> LaterList(s, b)
      /\ NowList(n) <=> NowList(s)
      /\ BareList(n) => BareList(s)
      /\ Range(s) \subseteq RejoinOps => Range(n) \subseteq RejoinOps
      /\ \A x : x \notin StopOps \cup {"stop"} => (x \in Range(n) <=> x \in Range(s))
      /\ n[2] = s[2]
  <2>1. Plan(s) /\ s # <<>> /\ s[1] \in {"stop", "stop_bp", "stop_pop"} /\ h \in StopOps /\ n = Under(h, s)
    OBVIOUS
  <2> QED BY ONLY <2>1, HeadingFacts
<1>3. InSection(n)
  BY <1>1 DEF InSection, Sections, Inner, StopOps
<1>4. Rejoining(s) => Rejoining(n)
  <2>1. s[1] \in Range(s) /\ s \in Seq(Ops)
    BY Heads DEF Plan
  <2>2. Range(s) \subseteq RejoinOps => s[1] \in StopOps
    BY <2>1 DEF RejoinOps, Inner, StopOps
  <2> QED BY <2>2, <1>2 DEF Rejoining
<1>5. Leading(n) => Leading(s)
  <2>1. "outputs" \notin StopOps \cup {"stop"} /\ "start_loop" \notin StopOps \cup {"stop"}
    BY DEF StopOps
  <2>2. Range(n) \cap {"outputs", "start_loop"} = Range(s) \cap {"outputs", "start_loop"}
    BY <2>1, <1>2
  <2> QED BY <1>1, <2>2 DEF Leading, StopOps
<1> QED BY <1>1, <1>2, <1>3, <1>4, <1>5

\* A stop that leaves a wanted capture stopped is followed by its start.
LEMMA Cleared ==
  ASSUME NEW s, Plan(s), s # <<>>, s[1] \in {"stop", "stop_bp", "stop_pop"}, ~BareList(s),
         NEW k \in BOOLEAN, Leading(s) => ~k
  PROVE  (NowList(s) /\ s[2] = "start") \/ LaterList(s, k)
<1>1. /\ s \in Seq(Ops) /\ Sound(s)
  BY DEF Plan
<1>2. /\ Len(s) \in Nat /\ Len(s) >= 1 /\ Range(s) = {s[i] : i \in 1 .. Len(s)}
  BY <1>1, Listed
<1>3. Range(s) \cap {"start", "outputs", "start_loop"} # {}
  BY <1>2 DEF BareList
<1>4. CASE "start" \in Range(s)
  <2>1. PICK i \in 1 .. Len(s) : s[i] = "start"
    BY <1>2, <1>4
  <2>2. i # 1
    BY <2>1
  <2>3. i = 2 \/ i = 3
    BY <1>1, <2>1, <2>2 DEF Sound
  <2> QED BY <1>2, <2>1, <2>3 DEF NowList, LaterList
<1>5. CASE Range(s) \cap {"outputs", "start_loop"} # {}
  <2>1. Leading(s)
    BY <1>2, <1>5 DEF Leading, StopOps
  <2> QED BY <2>1, <1>5 DEF LaterList
<1> QED BY <1>3, <1>4, <1>5

\* A rejoin that stops the capture does so to start it anew.
LEMMA ClearedRejoin ==
  ASSUME NEW s, Plan(s), s # <<>>, s[1] \in {"stop", "stop_bp", "stop_pop"}, Rejoining(s)
  PROVE  s[2] = "start" /\ NowList(s) /\ s[1] # "stop"
<1>1. s[1] \in Range(s) /\ s \in Seq(Ops)
  BY Heads DEF Plan
<1>2. s[1] \in StopOps
  BY <1>1 DEF Rejoining, RejoinOps, StopOps, Inner
<1>3. Len(s) >= 2
  BY Section DEF Sections, Locking, Inner
<1> QED BY <1>2, <1>3 DEF Rejoining, NowList, StopOps

\* The instance is popped, and its native stop begins.
LEMMA PopsWithin ==
  ASSUME CaptureInv, NEW p \in Coroutines, lock # <<>>, lock[1] = p, InSection(todo[p]),
         NEW n, Plan(n), n # <<>>, n[1] = "stop_native", Goes(p, n),
         Body(n) <=> Body(todo[p]), AliveList(n) => AliveList(todo[p]),
         p \in Rejoins => Rejoining(n), Leading(n) => ~local[p].keep,
         BareList(n) => BareList(todo[p]),
         p \notin Rejoins /\ LaterList(todo[p], local[p].keep) => LaterList(n, local[p].keep),
         NowList(todo[p]) => NowList(n),
         BareList(todo[p]) \/ NowList(n) \/ (p \notin Rejoins /\ LaterList(n, local[p].keep)),
         instance' = FALSE, NEW reset \in BOOLEAN, local' = [local EXCEPT ![p].reset = reset],
         NEW U, U \subseteq Pages, history' = [history EXCEPT !.unreset = U],
         UNCHANGED <<registry, entry, native, group, pass, pending, late, events>>
  PROVE  CaptureInv'
<1>0. TypeInv /\ Shapes /\ LockInv /\ PassInv /\ Graces /\ Locals /\ Tables /\ WantedInv /\ MonitorInv
  BY DEF CaptureInv
<1>1. InSection(n) /\ n \in Seq(Ops)
  BY DEF InSection, Sections, Inner, Plan
<1>2. /\ todo' = Put(todo, p, n) /\ todo' \in Todos /\ lock' = lock
      /\ Shapes' /\ LockInv'
  BY <1>0, <1>1, WithinStep
<1>3. todo \in Todos /\ todo[p] # <<>>
  BY <1>0, Typed DEF InSection
<1>4. PassInv'
  BY <1>0, <1>2, <1>3, PassKept
<1>5. Graces'
  <2>1. life' = life
    BY DEF registry
  <2> QED BY <2>1, <1>0, <1>1, <1>2, <1>3, GracesStep
<1>6. /\ \A c \in Coroutines : local'[c].keep = local[c].keep /\ local'[c].same = local[c].same
      /\ local' \in [Coroutines -> Frames]
      /\ history'.failed = history.failed
      /\ history' \in Outcomes
  <2>1. /\ local \in [Coroutines -> Frames]
        /\ history \in Outcomes
    BY <1>0 DEF TypeInv
  <2>2. \A c \in Coroutines : local'[c].keep = local[c].keep /\ local'[c].same = local[c].same
    BY ONLY <2>1, local' = [local EXCEPT ![p].reset = reset], p \in Coroutines
  <2>3. local' \in [Coroutines -> Frames]
    BY ONLY <2>1, local' = [local EXCEPT ![p].reset = reset], p \in Coroutines, reset \in BOOLEAN DEF Frames
  <2>4. history'.failed = history.failed /\ history' \in Outcomes
    BY ONLY <2>1, history' = [history EXCEPT !.unreset = U], U \subseteq Pages DEF Outcomes
  <2> QED BY <2>2, <2>3, <2>4
<1>7. Locals'
  <2>1. local[p].same => entry # NoOne
    BY <1>0 DEF Locals
  <2> QED BY <2>1, <1>0, <1>2, <1>6, LocalsStep
<1>8. Tables'
  BY <1>0, <1>1, <1>2, TablesWithin DEF Locking
<1>9. Wants' => Wants
  BY <1>0, <1>2, AliveStep, WantsStep DEF Wanted
<1>10. todo'[p] = n
  BY <1>2, <1>3, PutAt
<1>11. Head(lock) = p /\ lock \in Q
  BY <1>0, Typed, QTail
<1>12. NowList(n) => NowFix(p)'
  BY <1>2, <1>10, <1>11 DEF NowFix, Holds, Rejoins
<1>13. p \notin Rejoins /\ LaterList(n, local[p].keep) => LaterFix(p)'
  BY <1>6, <1>10 DEF LaterFix, Rejoins
<1>14. WantedInv'
  <2>1. LaterFix(p) => LaterFix(p)'
    BY <1>13 DEF LaterFix
  <2>2. NowFix(p) => NowFix(p)'
    BY <1>12 DEF NowFix
  <2>3. BareList(todo[p]) \/ LaterFix(p)' \/ NowFix(p)'
    BY <1>12, <1>13
  <2> QED BY <2>1, <2>2, <2>3, <1>0, <1>1, <1>2, <1>6, <1>9, WantedWithin
<1>15. MonitorInv'
  BY DEF MonitorInv
<1>16. TypeInv'
  BY <1>0, <1>2, <1>6 DEF TypeInv, registry, Todos
<1> QED BY <1>2, <1>4, <1>5, <1>7, <1>8, <1>14, <1>15, <1>16 DEF CaptureInv

\* Whether a list will start the backpressure task.
Watches(p, s) == \/ s # <<>> /\ s[1] = "stop_pop"
                 \/ IF p \in Rejoins THEN s # <<>> /\ s[1] = "bp" ELSE MonitorList(s)

\* Who will monitor, by the list it has.
LEMMA Watching ==
  ASSUME TypeInv, NEW p \in Coroutines
  PROVE  Monitorer(p) <=> Watches(p, todo[p])
<1>1. todo[p] \in Seq(Ops)
  BY Typed DEF Todos
<1> QED BY <1>1, HeadIsFirst DEF Monitorer, Watches, At

\* And in the next state.
LEMMA WatchingNext ==
  ASSUME TypeInv', NEW p \in Coroutines
  PROVE  Monitorer(p)' <=> Watches(p, todo'[p])
<1>1. todo'[p] \in Seq(Ops)
  BY DEF TypeInv
<1> QED BY <1>1, HeadIsFirst DEF Monitorer, Watches, At, Rejoins

\* The locals of the coroutines that take no step.
Apart(p) ==
  /\ \A c \in Coroutines : c # p => /\ local'[c].keep = local[c].keep
                                    /\ local'[c].same => local[c].same
  /\ local'[p].same => entry' # NoOne
  /\ entry' = NoOne => entry = NoOne \/ \A c \in Coroutines : ~local'[c].same

\* A capture that nobody throttles.
Loose == instance /\ Wants /\ ~history.failed /\ ~history.unthrottled /\ ~entry.task

\* A pass will follow.
Coming == pending /\ pass # NoOne

\* The invariant when p leaves its section and the lock.
LEMMA LeavesInv ==
  ASSUME CaptureInv, TypeInv', NEW p \in Coroutines, lock # <<>>, lock[1] = p, InSection(todo[p]),
         NEW ops, Goes(p, ops), ops # <<>>, Head(ops) = "release", NEW n, n = Kept(ops), Plan(n),
         n # <<>> => n[1] \notin Inner \cup {"departed", "register"},
         p \in Rejoins => Rejoining(n),
         Body(n) <=> Body(todo[p]), AliveList(n) => AliveList(todo[p]),
         Leading(n) => ~local'[p].keep, Apart(p),
         entry' = entry, pass' = pass, pending' = pending, life' = life,
         Consistent', ~BareList(n),
         p \notin Rejoins /\ LaterList(todo[p], local[p].keep) => Fixed(p, n, local'[p].keep),
         NowList(todo[p]) => \/ p \notin Rejoins /\ LaterList(n, local'[p].keep)
                             \/ instance' \/ history'.failed,
         ~instance' /\ ~history'.failed => ~instance /\ ~history.failed,
         Watches(p, todo[p]) => Watches(p, n) \/ ~Loose',
         Loose' => Loose \/ Watches(p, n)
  PROVE  CaptureInv'
<1>0. TypeInv /\ Shapes /\ LockInv /\ PassInv /\ Graces /\ Locals /\ Tables /\ WantedInv /\ MonitorInv
  BY DEF CaptureInv
<1>1. n \in Seq(Ops)
  BY DEF Plan
<1>2. /\ todo' = Put(todo, p, n) /\ todo' \in Todos /\ lock' \in Q
      /\ InSection(n) => lock' = Append(Tail(lock), p)
      /\ ~InSection(n) => lock' = Tail(lock)
      /\ \A c \in Coroutines : c # p /\ InSection(todo[c]) => todo[c][1] \in Locking
      /\ Shapes' /\ LockInv'
  BY <1>0, LeavesStep
<1>3. todo \in Todos /\ todo[p] # <<>>
  BY <1>0, Typed DEF InSection
<1>4. PassInv'
  BY <1>0, <1>2, <1>3, PassKept
<1>5. Graces'
  BY <1>0, <1>1, <1>2, <1>3, GracesStep
<1>7. Locals'
  BY <1>0, <1>2, LocalsStep DEF Apart
<1>8. Tables'
  BY <1>0, <1>1, <1>2, TablesLeaves
<1>9. Wants' => Wants
  BY <1>0, <1>2, AliveStep, WantsStep DEF Wanted
<1>10. todo'[p] = n
  BY <1>2, <1>3, PutAt
<1>14. WantedInv'
  <2>1. LaterFix(p) => Fixed(p, n, local'[p].keep)
    BY DEF LaterFix
  <2>2. NowFix(p) => LaterFix(p)' \/ instance' \/ history'.failed
    BY <1>10 DEF NowFix, LaterFix, Rejoins
  <2>3. \A c \in Coroutines : c # p => local'[c].keep = local[c].keep
    BY DEF Apart
  <2> QED BY <2>1, <2>2, <2>3, <1>0, <1>1, <1>2, <1>9, WantedLeaves
<1>15. MonitorInv'
  <2>1. Monitorer(p) <=> Watches(p, todo[p])
    BY <1>0, Watching
  <2>2. Monitorer(p)' <=> Watches(p, n)
    BY <1>10, WatchingNext
  <2>3. Monitorer(p) => Monitorer(p)' \/ ~instance' \/ ~Wants' \/ entry'.task \/ history'.unthrottled \/ history'.failed
    BY <2>1, <2>2 DEF Loose
  <2>4. Loose' => Loose \/ Monitorer(p)'
    BY <2>2
  <2> QED BY <2>3, <2>4, <1>0, <1>2, MonitorStepped DEF Loose
<1> QED BY <1>2, <1>4, <1>5, <1>7, <1>8, <1>14, <1>15 DEF CaptureInv

\* The invariant when p goes on within its section.
LEMMA WithinInv ==
  ASSUME CaptureInv, TypeInv', NEW p \in Coroutines, lock # <<>>, lock[1] = p, InSection(todo[p]),
         NEW n, Goes(p, n), Plan(n), InSection(n),
         p \in Rejoins => Rejoining(n),
         Body(n) <=> Body(todo[p]), AliveList(n) => AliveList(todo[p]),
         Leading(n) => ~local'[p].keep, Apart(p),
         Wanted' => Wanted /\ (entry.told => entry'.told), pass' = pass, pending' = pending, life' = life,
         n[1] \in Locking \cup {"stop_bp", "stop_pop"} => Consistent',
         n[1] \in {"stop_bp", "stop_pop"} /\ n[2] = "start" => instance',
         n[1] = "stop_native" => ~instance',
         n[1] = "start_native" => ~instance' /\ group' /\ (native' # "off" => history'.orphaned
                                     \/ \E r \in Coroutines : <<r, "stop">> \in late'),
         BareList(n) => BareList(todo[p]),
         p \notin Rejoins /\ LaterList(todo[p], local[p].keep) => LaterList(n, local'[p].keep),
         NowList(todo[p]) => \/ p \notin Rejoins /\ LaterList(n, local'[p].keep)
                             \/ NowList(n) /\ (p \in Rejoins /\ n[1] = "start" => ~instance'),
         instance' = instance, history'.failed = history.failed,
         Watches(p, todo[p]) => Watches(p, n) \/ ~Loose',
         Loose' => Loose \/ Watches(p, n)
  PROVE  CaptureInv'
<1>0. TypeInv /\ Shapes /\ LockInv /\ PassInv /\ Graces /\ Locals /\ Tables /\ WantedInv /\ MonitorInv
  BY DEF CaptureInv
<1>1. n \in Seq(Ops) /\ n # <<>>
  BY DEF Plan, InSection
<1>2. /\ todo' = Put(todo, p, n) /\ todo' \in Todos /\ lock' = lock
      /\ Shapes' /\ LockInv'
  BY <1>0, <1>1, WithinStep
<1>3. todo \in Todos /\ todo[p] # <<>>
  BY <1>0, Typed DEF InSection
<1>4. PassInv'
  BY <1>0, <1>2, <1>3, PassKept
<1>5. Graces'
  <2>1. n[1] # "departed"
    BY DEF InSection, Sections, Locking, Inner
  <2> QED BY <2>1, <1>0, <1>1, <1>2, <1>3, GracesStep
<1>7. Locals'
  BY <1>0, <1>2, LocalsStep DEF Apart
<1>8. Tables'
  BY <1>0, <1>1, <1>2, TablesWithin
<1>9. Wants' => Wants
  BY <1>0, <1>2, AliveStep, WantsStep
<1>10. todo'[p] = n
  BY <1>2, <1>3, PutAt
<1>11. Head(lock) = p /\ lock \in Q
  BY <1>0, Typed, QTail
<1>14. WantedInv'
  <2>1. LaterFix(p) => LaterFix(p)'
    BY <1>10 DEF LaterFix, Rejoins
  <2>2. NowFix(p) => LaterFix(p)' \/ NowFix(p)'
    BY <1>2, <1>10, <1>11 DEF NowFix, LaterFix, Rejoins, Holds
  <2>3. \A c \in Coroutines : c # p => local'[c].keep = local[c].keep
    BY DEF Apart
  <2> QED BY <2>1, <2>2, <2>3, <1>0, <1>1, <1>2, <1>9, WantedWithin
<1>15. MonitorInv'
  <2>1. Monitorer(p) <=> Watches(p, todo[p])
    BY <1>0, Watching
  <2>2. Monitorer(p)' <=> Watches(p, n)
    BY <1>10, WatchingNext
  <2>3. Monitorer(p) => Monitorer(p)' \/ ~instance' \/ ~Wants' \/ entry'.task \/ history'.unthrottled \/ history'.failed
    BY <2>1, <2>2 DEF Loose
  <2>4. Loose' => Loose \/ Monitorer(p)'
    BY <2>2
  <2> QED BY <2>3, <2>4, <1>0, <1>2, MonitorStepped DEF Loose
<1> QED BY <1>2, <1>4, <1>5, <1>7, <1>8, <1>14, <1>15 DEF CaptureInv

\* The types of what a step of a list and of the lock leaves alone.
RestTyped ==
  /\ clients \in SUBSET Pages /\ paused \in SUBSET Pages /\ settled \in SUBSET Pages
  /\ life \in [Pages -> {"new", "open", "closed", "gone"}]
  /\ entry \in Entries \cup {NoOne}
  /\ instance \in BOOLEAN /\ native \in {"off", "on", "dead"} /\ group \in BOOLEAN
  /\ pass \in Coroutines \cup {NoOne} /\ pending \in BOOLEAN
  /\ local \in [Coroutines -> Frames]
  /\ late \in SUBSET (Coroutines \X {"start", "stop"})
  /\ history \in Outcomes
  /\ events \in Nat

\* The invariant when p, who is in no section, goes on, and may queue for
\* one.
LEMMA OutsideInv ==
  ASSUME CaptureInv, RestTyped', NEW p \in Coroutines, ~InSection(todo[p]),
         NEW n, Goes(p, n), Plan(n),
         n # <<>> => /\ n[1] \notin Inner \cup {"departed"}
                     /\ n[1] = "register" => \E o \in Owners : p = Handler(o),
         p \in Rejoins => Rejoining(n),
         \/ life' = life /\ (todo[p] # <<>> \/ p \in Rejoins)
         \/ \E s \in Pages : /\ p = Handler(s) /\ life[s] = "open"
                             /\ \A o \in Owners : life[o] = "gone" => life'[o] = "gone",
         pass' = p <=> Body(n), \A c \in Coroutines : c # p => (pass' = c <=> pass = c),
         Leading(n) => ~local'[p].keep, Apart(p),
         instance' = instance, native' = native, group' = group, late' = late,
         history'.orphaned = history.orphaned, history'.failed = history.failed,
         history'.cancelled = history.cancelled, history'.overtaken = history.overtaken,
         BareList(n) => ~Wants',
         Wants' /\ ~Coming' /\ Coming => Fixed(p, n, local'[p].keep) /\ Watches(p, n),
         Wants' /\ ~Coming' /\ p \notin Rejoins /\ LaterList(todo[p], local[p].keep)
           => Fixed(p, n, local'[p].keep),
         Wants' /\ ~Coming' => Wants \/ Fixed(p, n, local'[p].keep),
         Watches(p, todo[p]) => Watches(p, n) \/ ~Loose' \/ Coming',
         Loose' => Loose \/ Watches(p, n) \/ Coming'
  PROVE  CaptureInv'
<1>0. TypeInv /\ Shapes /\ LockInv /\ PassInv /\ Graces /\ Locals /\ Tables /\ WantedInv /\ MonitorInv
  BY DEF CaptureInv
<1>1. n \in Seq(Ops)
  BY DEF Plan
<1>2. /\ todo' = Put(todo, p, n) /\ todo' \in Todos /\ lock' \in Q
      /\ \A i \in 1 .. Len(lock) : lock[i] # p
      /\ InSection(n) => lock' = Append(lock, p)
      /\ ~InSection(n) => lock' = lock
      /\ Shapes' /\ LockInv'
  BY <1>0, OutsideStep
<1>3. todo \in Todos
  BY <1>0, Typed
<1>a. TypeInv'
  BY <1>2 DEF TypeInv, RestTyped, Todos, Q
<1>4. PassInv'
  BY <1>0, <1>2, <1>3, PassStepped
<1>5. Graces'
  <2>1. CASE life' = life /\ todo[p] # <<>>
    BY <2>1, <1>0, <1>1, <1>2, <1>3, GracesStep
  <2>2. CASE life' = life /\ p \in Rejoins
    BY <2>2, <1>0, <1>2, <1>3, GracesOther
  <2>3. CASE \E s \in Pages : /\ p = Handler(s) /\ life[s] = "open"
                              /\ \A o \in Owners : life[o] = "gone" => life'[o] = "gone"
    BY <2>3, <1>0, <1>1, <1>2, <1>3, GracesMessage
  <2> QED BY <2>1, <2>2, <2>3
<1>7. Locals'
  BY <1>0, <1>2, LocalsStep DEF Apart
<1>8. Tables'
  <2>1. capture' = capture
    BY DEF capture
  <2> QED BY <2>1, <1>0, <1>1, <1>2, TablesOutside
<1>10. todo'[p] = n
  BY <1>2, <1>3, PutAt
<1>14. WantedInv'
  <2>1. CASE ~Wants' \/ Coming'
    BY <2>1 DEF WantedInv, Promise, Coming
  <2>2. CASE Wants' /\ ~Coming'
    <3>1. \A c \in Coroutines : c # p => local'[c].keep = local[c].keep
      BY DEF Apart
    <3>2. pending /\ pass # NoOne => (pending' /\ pass' # NoOne) \/ Fixed(p, n, local'[p].keep)
      BY <2>2 DEF Coming
    <3> QED BY <2>2, <3>1, <3>2, <1>0, <1>1, <1>2, WantedOutside
  <2> QED BY <2>1, <2>2
<1>15. MonitorInv'
  <2>0. CASE Coming' \/ ~Wants'
    BY <2>0 DEF MonitorInv, Coming
  <2>a. CASE ~Coming' /\ Wants'
    <3>1. Monitorer(p) <=> Watches(p, todo[p])
      BY <1>0, Watching
    <3>2. Monitorer(p)' <=> Watches(p, n)
      BY <1>a, <1>10, WatchingNext
    <3>3. Monitorer(p) => Monitorer(p)' \/ ~instance' \/ ~Wants' \/ entry'.task \/ history'.unthrottled \/ history'.failed
      BY <2>a, <3>1, <3>2 DEF Loose
    <3>4. Loose' => Loose \/ Monitorer(p)'
      BY <2>a, <3>2
    <3>5. pending /\ pass # NoOne => (pending' /\ pass' # NoOne) \/ Monitorer(p)'
      BY <2>a, <3>2 DEF Coming
    <3> QED BY <3>3, <3>4, <3>5, <1>0, <1>2, MonitorStepped DEF Loose
  <2> QED BY <2>0, <2>a
<1> QED BY <1>a, <1>2, <1>4, <1>5, <1>7, <1>8, <1>14, <1>15 DEF CaptureInv
=============================================================================
