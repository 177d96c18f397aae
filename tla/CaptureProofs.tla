--------------------------- MODULE CaptureProofs ----------------------------
(***************************************************************************)
(* Proofs about the capture's lifecycle, for any sockets and any number of *)
(* messages: Registered, WantedRuns and Throttled.  Each action keeps the  *)
(* invariant of CaptureLemmas.  At rest nobody has promised anything, so   *)
(* the capture that is wanted and its backpressure task are there.         *)
(***************************************************************************)
EXTENDS CaptureLemmas

-----------------------------------------------------------------------------
(* Stops and starts *)

\* The parts of the invariant.
LEMMA CaptureInvParts == CaptureInv => /\ TypeInv /\ Shapes /\ LockInv /\ PassInv /\ Graces
                           /\ Locals /\ Tables /\ WantedInv /\ MonitorInv
  BY DEF CaptureInv

\* The monitor of the display is cancelled: within its section, the stop waits for its end.
LEMMA StopWaits ==
  ASSUME CaptureInv, NEW p \in Coroutines, lock # <<>>, lock[1] = p, InSection(todo[p]),
         NEW n, Plan(n), n # <<>>, n[1] = "stop_bp", Goes(p, n),
         Body(n) <=> Body(todo[p]), AliveList(n) => AliveList(todo[p]),
         p \in Rejoins => Rejoining(n), Leading(n) => ~local[p].keep,
         BareList(n) => BareList(todo[p]),
         p \notin Rejoins /\ LaterList(todo[p], local[p].keep) => LaterList(n, local[p].keep),
         NowList(todo[p]) => NowList(n),
         todo[p][1] \in {"stop", "start"}, n[2] = "start" => instance,
         MonitorList(todo[p]) => MonitorList(n),
         entry # NoOne, local' = [local EXCEPT ![p].same = TRUE],
         UNCHANGED <<registry, entry, instance, native, group, pass, pending, late, history, events>>
  PROVE  CaptureInv'
<1>0. TypeInv /\ Tables
  BY CaptureInvParts
<1>1. /\ todo' = Put(todo, p, n) /\ todo' \in Todos /\ lock' = lock
  BY CaptureInvParts, WithinStep DEF InSection, Sections, Inner
<1>2. /\ \A c \in Coroutines : local'[c].keep = local[c].keep
      /\ \A c \in Coroutines : c # p => local'[c].same = local[c].same
      /\ local' \in [Coroutines -> Frames]
  <2>1. local \in [Coroutines -> Frames]
    BY <1>0 DEF TypeInv
  <2> QED BY ONLY <2>1, local' = [local EXCEPT ![p].same = TRUE], p \in Coroutines DEF Frames
<1>3. TypeInv'
  BY <1>0, <1>1, <1>2 DEF TypeInv, registry, Todos
<1>4. InSection(n)
  BY DEF InSection, Sections, Inner
<1>5. Apart(p)
  BY <1>2 DEF Apart
<1>6. Consistent' /\ (Wanted' <=> Wanted)
  <2>1. Consistent
    BY <1>0 DEF Tables, Locking
  <2> QED BY <2>1 DEF Consistent, Wanted
<1>7. Wants' => Wants
  BY <1>0, <1>1, <1>6, AliveStep, WantsStep
<1>8. Loose' => Loose
  BY <1>7 DEF Loose
<1>9. Watches(p, todo[p]) => Watches(p, n)
  BY DEF Watches
<1>10. /\ pass' = pass /\ pending' = pending /\ life' = life /\ instance' = instance
       /\ history'.failed = history.failed /\ (Wanted' => Wanted /\ (entry.told => entry'.told))
  BY <1>6 DEF registry
<1>11. Leading(n) => ~local'[p].keep
  BY <1>2
<1>12. n[1] \notin {"stop_native", "start_native", "start"}
  OBVIOUS
<1>13. p \notin Rejoins /\ LaterList(todo[p], local[p].keep) => LaterList(n, local'[p].keep)
  BY <1>2
<1> QED BY <1>3, <1>4, <1>5, <1>6, <1>8, <1>9, <1>10, <1>11, <1>12, <1>13, WithinInv

\* What is left of a list whose stop, start or judgement is done.
LEMMA LeavingRest ==
  ASSUME NEW s, Plan(s), s # <<>>, s[1] \in {"stop", "relive", "judge"} \cup StopOps, s[2] = "release",
         NEW n, n = Tail(Tail(s))
  PROVE  /\ Plan(n) /\ Kept(Tail(s)) = n /\ Tail(s) # <<>> /\ Head(Tail(s)) = "release"
         /\ n # <<>> => n[1] \notin Inner \cup {"departed", "register"}
         /\ n # <<>> => n[1] = s[3] /\ s[3] \in Later
         /\ Leading(n) => Leading(s)
         /\ ~BareList(n)
         /\ Rejoining(s) => Rejoining(n)
<1>1. /\ Plan(n) /\ Kept(Tail(s)) = n /\ Len(n) = Len(s) - 2
      /\ Range(s) = {s[1], "release"} \cup Range(n)
      /\ n # <<>> => n[1] = s[3] /\ Len(s) >= 3 /\ n[1] \notin Inner \cup {"stop", "judge", "relive", "release"}
  BY Leaving DEF Sections, Locking, Inner, StopOps
<1>2. Tail(s) # <<>> /\ Head(Tail(s)) = "release"
  BY Section DEF Sections, Locking, Inner, StopOps
<1>3. s \in Seq(Ops) /\ Sound(s) /\ n \in Seq(Ops)
  BY <1>1 DEF Plan
<1>4. Len(s) \in Nat /\ Len(s) >= 1 /\ \A i \in 1 .. Len(s) : s[i] \in Ops
  BY <1>3, Listed
<1>5. n # <<>> => s[3] \in Later
  <2>1. n # <<>> => 3 \in 2 .. Len(s)
    BY <1>1, <1>4
  <2> QED BY <2>1, <1>3 DEF Sound
<1>6. n # <<>> => n[1] \notin {"departed", "register"}
  BY <1>1, <1>5 DEF Later, Sequels, TailOps
<1>7. n # <<>> /\ n[1] \in StopOps \cup {"stop"} => FALSE
  BY <1>1 DEF StopOps, Inner
<1>8. Leading(n) => Leading(s)
  <2>1. SUFFICES ASSUME Leading(n) PROVE Leading(s)
    OBVIOUS
  <2>2. n # <<>> /\ n[1] = "start_loop" /\ s[3] = "start_loop" /\ Len(s) >= 3
    BY <2>1, <1>1, <1>3, <1>7, Filled DEF Leading
  <2>3. "start_loop" \in Range(s)
    BY <1>1, <2>1, <2>2, <1>3, Heads
  <2>4. s[1] \notin {"relive", "judge"}
    <3>1. 1 \in 1 .. Len(s)
      BY <1>4
    <3> QED BY <3>1, <2>2, <1>3 DEF Sound
  <2> QED BY <2>3, <2>4, <1>4 DEF Leading
<1>9. ~BareList(n)
  BY <1>3, <1>7, Filled DEF BareList, StopOps
<1>10. Rejoining(s) => Rejoining(n)
  BY <1>1, <1>7 DEF Rejoining
<1> QED BY <1>1, <1>2, <1>5, <1>6, <1>8, <1>9, <1>10

\* What a list that leaves its section still promises.
LEMMA LeavingPromise ==
  ASSUME NEW s, Plan(s), s # <<>>, s[1] \in {"stop", "relive", "judge"} \cup StopOps, s[2] = "release",
         NEW n, n = Tail(Tail(s)), NEW b \in BOOLEAN, LaterList(s, b)
  PROVE  LaterList(n, b) \/ (InSection(n) /\ NowList(n))
<1>1. /\ Plan(n) /\ Len(n) = Len(s) - 2 /\ Range(s) = {s[1], "release"} \cup Range(n)
      /\ n # <<>> => n[1] = s[3]
      /\ n # <<>> => n[1] \notin {"judge"}
  BY Leaving DEF Sections, Locking, Inner, StopOps
<1>2. s \in Seq(Ops) /\ n \in Seq(Ops)
  BY <1>1 DEF Plan
<1>3. /\ Len(s) \in Nat /\ Len(n) \in Nat /\ (n # <<>> <=> Len(n) >= 1)
      /\ Range(n) = {n[i] : i \in 1 .. Len(n)}
  BY <1>2, Listed
<1>4. CASE Range(s) \cap {"reconfigure", "pass", "start_loop"} # {}
  <2>1. Range(n) \cap {"reconfigure", "pass", "start_loop"} # {}
    BY <1>1, <1>4 DEF StopOps
  <2> QED BY <2>1 DEF LaterList
<1>5. CASE "outputs" \in Range(s) /\ ~b
  <2>1. "outputs" \in Range(n)
    BY <1>1, <1>5 DEF StopOps
  <2>2. n # <<>>
    <3>1. PICK i \in 1 .. Len(n) : n[i] = "outputs"
      BY <2>1, <1>3
    <3>2. Len(n) >= 1
      BY <3>1, <1>3
    <3> QED BY <3>2, <1>3
  <2> QED BY <2>1, <2>2, <1>1, <1>5 DEF LaterList
<1>6. CASE Len(s) >= 3 /\ s[3] = "start"
  <2>1. n # <<>> /\ n[1] = "start" /\ Len(n) >= 1
    BY <1>1, <1>3, <1>6
  <2> QED BY <2>1 DEF InSection, Sections, Locking, NowList
<1> QED BY <1>4, <1>5, <1>6 DEF LaterList

\* There was nothing to stop: the lock is released.
LEMMA PopsLeaves ==
  ASSUME CaptureInv, NEW p \in Coroutines, lock # <<>>, lock[1] = p, InSection(todo[p]),
         todo[p][1] \in {"stop", "stop_pop"}, todo[p][2] = "release",
         Goes(p, Tail(todo[p])), ~instance, instance' = FALSE, group' = FALSE,
         NEW reset \in BOOLEAN, local' = [local EXCEPT ![p].reset = reset],
         UNCHANGED <<registry, entry, native, pass, pending, late, history, events>>
  PROVE  CaptureInv'
<1>0. TypeInv /\ Tables /\ Shapes /\ LockInv /\ Locals
  BY CaptureInvParts
<1>1. PICK s : s = todo[p]
  OBVIOUS
<1>2. Plan(s) /\ s # <<>> /\ (p \in Rejoins => Rejoining(s))
  BY <1>0, <1>1, AtHead DEF InSection
<1>3. PICK n : n = Tail(Tail(s))
  OBVIOUS
<1>4. /\ Plan(n) /\ Kept(Tail(s)) = n /\ Tail(s) # <<>> /\ Head(Tail(s)) = "release"
      /\ n # <<>> => n[1] \notin Inner \cup {"departed", "register"}
      /\ Leading(n) => Leading(s)
      /\ ~BareList(n)
      /\ Rejoining(s) => Rejoining(n)
  BY <1>1, <1>2, <1>3, LeavingRest DEF StopOps
<1>5. /\ Body(n) <=> Body(s)
      /\ AliveList(n) => AliveList(s)
      /\ NowList(s) => s[1] = "judge"
      /\ s[1] # "judge"
  BY <1>1, <1>2, <1>3, LeavingFacts DEF StopOps
<1>6. \A b \in BOOLEAN : LaterList(s, b) => LaterList(n, b) \/ (InSection(n) /\ NowList(n))
  BY <1>1, <1>2, <1>3, LeavingPromise DEF StopOps
<1>7. /\ \A c \in Coroutines : local'[c].keep = local[c].keep /\ local'[c].same = local[c].same
      /\ local' \in [Coroutines -> Frames] /\ local[p].keep \in BOOLEAN
  <2>1. local \in [Coroutines -> Frames]
    BY <1>0 DEF TypeInv
  <2> QED BY ONLY <2>1, local' = [local EXCEPT ![p].reset = reset], p \in Coroutines, reset \in BOOLEAN DEF Frames
<1>8. /\ todo' \in Todos /\ lock' \in Q
  BY <1>0, <1>1, <1>2, <1>4, LeavesStep
<1>9. TypeInv'
  BY <1>0, <1>7, <1>8 DEF TypeInv, registry, Todos, Q
<1>10. Consistent'
  <2>1. Consistent
    BY <1>0 DEF Tables, Locking
  <2> QED BY <2>1 DEF Consistent
<1>11. Apart(p)
  BY <1>7, <1>0 DEF Apart, Locals
<1>12. Leading(n) => ~local'[p].keep
  BY <1>0, <1>1, <1>4, <1>7 DEF Locals
<1>13. p \notin Rejoins /\ LaterList(todo[p], local[p].keep) => Fixed(p, n, local'[p].keep)
  BY <1>1, <1>6, <1>7 DEF Fixed
<1>14. ~Loose'
  BY DEF Loose
<1>15. life' = life
  BY DEF registry
<1> QED BY <1>1, <1>2, <1>4, <1>5, <1>9, <1>10, <1>11, <1>12, <1>13, <1>14, <1>15, LeavesInv

\* A stop that begins keeps the invariant.
LEMMA StopBeginsInv ==
  ASSUME CaptureInv, NEW p \in Coroutines, StopBegins(p)
  PROVE  CaptureInv'
<1>0. TypeInv /\ Tables /\ Shapes /\ LockInv /\ Locals
  BY CaptureInvParts
<1>1. PICK s : s = todo[p]
  OBVIOUS
<1>2. Plan(s) /\ s # <<>> /\ s[1] = "stop" /\ Rest(p) = Tail(s) /\ Holds(p)
  BY <1>0, <1>1, AtHead DEF StopBegins
<1>3. InSection(s) /\ lock # <<>> /\ lock[1] = p
  BY <1>0, <1>1, <1>2, Within DEF InSection, Sections, Locking
<1>4. Leading(s) => ~local[p].keep
  BY <1>0, <1>1 DEF Locals
<1>5. s[2] = "release" /\ p \notin Rejoins
  BY <1>0, <1>1, <1>2, <1>3, Section, AtHead, ClearedRejoin DEF InSection, StopOps
<1>6. Stops(p, Tail(s))
  BY <1>2 DEF StopBegins
<1>7. CASE entry # NoOne /\ entry.task
  <2>1. /\ Goes(p, <<"stop_bp">> \o Tail(s))
        /\ local' = [local EXCEPT ![p].same = TRUE]
        /\ UNCHANGED <<instance, group, history>>
        /\ UNCHANGED <<registry, entry, native, pass, pending, late, events>>
    BY <1>6, <1>7 DEF Stops
  <2>2. PICK n : n = <<"stop_bp">> \o Tail(s) /\ n = Under("stop_bp", s)
    BY DEF Under
  <2>3. /\ Plan(n) /\ n # <<>> /\ n[1] = "stop_bp" /\ n[2] = s[2]
        /\ Body(n) <=> Body(s)
        /\ AliveList(n) <=> AliveList(s)
        /\ MonitorList(n) <=> MonitorList(s)
        /\ \A b \in BOOLEAN : LaterList(n, b) <=> LaterList(s, b)
        /\ NowList(n) <=> NowList(s)
        /\ BareList(n) => BareList(s)
        /\ Leading(n) => Leading(s)
    <3>1. "stop_bp" \in StopOps
      BY DEF StopOps
    <3>2. n = Under("stop_bp", s)
      BY <2>2
    <3>3. Plan(s) /\ s # <<>> /\ s[1] \in {"stop", "stop_bp", "stop_pop"}
      BY <1>2
    <3> QED BY ONLY <3>1, <3>2, <3>3, StopFacts
  <2>4. local[p].keep \in BOOLEAN
    BY <1>0 DEF TypeInv, Frames
  <2> QED BY <1>1, <1>2, <1>3, <1>4, <1>5, <1>7, <2>1, <2>2, <2>3, <2>4, StopWaits
<1>8. CASE ~(entry # NoOne /\ entry.task)
  <2>1. PopInstance(p, FALSE, Tail(s)) /\ UNCHANGED <<registry, entry, native, pass, pending, late, events>>
    BY <1>6, <1>8 DEF Stops
  <2>2. CASE instance
    <3>1. /\ Goes(p, <<"stop_native">> \o Tail(s)) /\ group' = group /\ instance' = FALSE
          /\ local' = [local EXCEPT ![p].reset = FALSE]
          /\ history' = [history EXCEPT !.unreset = history.unreset \cup (clients \ paused)]
      BY <2>1, <2>2 DEF PopInstance
    <3>2. PICK n : n = <<"stop_native">> \o Tail(s) /\ n = Under("stop_native", s)
      BY DEF Under
    <3>3. /\ Plan(n) /\ n # <<>> /\ n[1] = "stop_native"
          /\ Body(n) <=> Body(s)
          /\ AliveList(n) <=> AliveList(s)
          /\ \A b \in BOOLEAN : LaterList(n, b) <=> LaterList(s, b)
          /\ NowList(n) <=> NowList(s)
          /\ BareList(n) => BareList(s)
          /\ Leading(n) => Leading(s)
      BY <1>2, <3>2, StopFacts DEF StopOps
    <3>4. local[p].keep \in BOOLEAN /\ history.unreset \cup (clients \ paused) \subseteq Pages
      BY <1>0 DEF TypeInv, Frames, Outcomes
    <3>5. BareList(s) \/ NowList(s) \/ LaterList(s, local[p].keep)
      BY <1>2, <1>4, <3>4, Cleared
    <3>6. PICK U : U = history.unreset \cup (clients \ paused)
      OBVIOUS
    <3> QED BY <1>1, <1>3, <1>4, <1>5, <2>1, <3>1, <3>2, <3>3, <3>4, <3>5, <3>6, PopsWithin
  <2>3. CASE ~instance
    <3>1. /\ Goes(p, Tail(s)) /\ group' = FALSE /\ instance' = FALSE
          /\ local' = [local EXCEPT ![p].reset = FALSE] /\ UNCHANGED history
      BY <2>1, <2>3 DEF PopInstance
    <3> QED BY <1>1, <1>2, <1>3, <1>5, <2>1, <2>3, <3>1, PopsLeaves
  <2> QED BY <2>2, <2>3
<1> QED BY <1>7, <1>8

\* So does one that takes the instance out of the table.
LEMMA StopPopsInv ==
  ASSUME CaptureInv, NEW p \in Coroutines, StopPops(p)
  PROVE  CaptureInv'
<1>0. TypeInv /\ Tables /\ Shapes /\ LockInv /\ Locals
  BY CaptureInvParts
<1>1. PICK s : s = todo[p]
  OBVIOUS
<1>2. Plan(s) /\ s # <<>> /\ s[1] = "stop_pop" /\ Rest(p) = Tail(s) /\ (p \in Rejoins => Rejoining(s))
  BY <1>0, <1>1, AtHead DEF StopPops
<1>3. InSection(s) /\ lock # <<>> /\ lock[1] = p
  BY <1>0, <1>1, <1>2, Within DEF Inner
<1>4. Leading(s) => ~local[p].keep
  BY <1>0, <1>1 DEF Locals
<1>5. s[2] = "release" \/ s[2] = "start"
  BY <1>2, Section DEF Sections, Inner
<1>6. s[2] = "start" => instance
  BY <1>0, <1>1, <1>2, <1>3 DEF Tables
<1>7. PopInstance(p, TRUE, Tail(s)) /\ UNCHANGED <<registry, entry, native, pass, pending, late, events>>
  BY <1>2 DEF StopPops
<1>8. CASE instance
  <2>1. /\ Goes(p, <<"stop_native">> \o Tail(s)) /\ group' = group /\ instance' = FALSE
        /\ local' = [local EXCEPT ![p].reset = TRUE]
        /\ history' = [history EXCEPT !.unreset = history.unreset]
    BY <1>7, <1>8 DEF PopInstance
  <2>2. PICK n : n = <<"stop_native">> \o Tail(s) /\ n = Under("stop_native", s)
    BY DEF Under
  <2>3. /\ Plan(n) /\ n # <<>> /\ n[1] = "stop_native"
        /\ Body(n) <=> Body(s)
        /\ AliveList(n) <=> AliveList(s)
        /\ \A b \in BOOLEAN : LaterList(n, b) <=> LaterList(s, b)
        /\ NowList(n) <=> NowList(s)
        /\ BareList(n) => BareList(s)
        /\ Leading(n) => Leading(s)
        /\ Rejoining(s) => Rejoining(n)
    BY <1>2, <2>2, StopFacts DEF StopOps
  <2>4. local[p].keep \in BOOLEAN /\ history.unreset \subseteq Pages
    BY <1>0 DEF TypeInv, Frames, Outcomes
  <2>5. BareList(s) \/ NowList(s) \/ (p \notin Rejoins /\ LaterList(s, local[p].keep))
    BY <1>2, <1>4, <2>4, Cleared, ClearedRejoin
  <2>6. PICK U : U = history.unreset
    OBVIOUS
  <2> QED BY <1>1, <1>2, <1>3, <1>4, <1>7, <2>1, <2>2, <2>3, <2>4, <2>5, <2>6, PopsWithin
<1>9. CASE ~instance
  <2>1. /\ Goes(p, Tail(s)) /\ group' = FALSE /\ instance' = FALSE
        /\ local' = [local EXCEPT ![p].reset = TRUE] /\ UNCHANGED history
    BY <1>7, <1>9 DEF PopInstance
  <2> QED BY <1>1, <1>2, <1>3, <1>5, <1>6, <1>7, <1>9, <2>1, PopsLeaves
<1> QED BY <1>8, <1>9

\* What the rest of a stop that a start follows promises.
LEMMA FollowingFacts ==
  ASSUME NEW s, Plan(s), s # <<>>, s[1] \in StopOps, s[2] = "start", NEW n, n = Tail(s)
  PROVE  /\ Plan(n) /\ InSection(n) /\ n[1] = "start" /\ Kept(n) = n
         /\ Body(n) <=> Body(s)
         /\ AliveList(n) => AliveList(s)
         /\ \A b \in BOOLEAN : LaterList(s, b) => LaterList(n, b)
         /\ NowList(n) /\ ~BareList(n) /\ ~Leading(n)
         /\ Rejoining(s) => Rejoining(n)
<1>1. /\ Plan(n) /\ Kept(n) = n /\ n # <<>> /\ n[1] = "start"
      /\ Range(s) = {s[1]} \cup Range(n)
  BY Following
<1>2. s \in Seq(Ops) /\ n \in Seq(Ops)
  BY <1>1 DEF Plan
<1>3. n[2] = "release"
  BY <1>1, Section DEF Sections, Locking, StopOps
<1>4. Len(s) \in Nat /\ Len(n) = Len(s) - 1 /\ (\A i \in 1 .. (Len(s) - 1) : n[i] = s[i + 1]) /\ Len(n) >= 2
  <2>1. Len(n) >= 2
    BY <1>1, Section DEF Sections, Locking
  <2>2. Len(s) \in Nat /\ Len(n) = Len(s) - 1 /\ \A i \in 1 .. (Len(s) - 1) : n[i] = s[i + 1]
    BY <1>2, Shifted, Listed
  <2> QED BY <2>1, <2>2
<1>5. s[3] = "release"
  <2>1. 2 \in 1 .. (Len(s) - 1) /\ 2 + 1 = 3
    BY <1>4
  <2> QED BY <2>1, <1>3, <1>4
<1>6. s[1] \notin PassOps \cup {"guard", "unguard", "judge", "outputs", "start_loop", "followed", "reconfigure", "pass"}
  BY DEF StopOps, PassOps
<1>7. Body(n) <=> Body(s)
  BY <1>1, <1>6 DEF Body
<1>8. AliveList(n) => AliveList(s)
  BY <1>1 DEF AliveList
<1>9. \A b \in BOOLEAN : LaterList(s, b) => LaterList(n, b)
  <2>1. TAKE b \in BOOLEAN
  <2>2. Range(s) \cap {"reconfigure", "pass", "start_loop"} = Range(n) \cap {"reconfigure", "pass", "start_loop"}
    BY <1>1, <1>6
  <2>3. "outputs" \in Range(s) => "outputs" \in Range(n)
    BY <1>1, <1>6
  <2>4. n[1] # "judge" /\ s[3] # "start"
    BY <1>1, <1>5
  <2> QED BY <2>2, <2>3, <2>4 DEF LaterList
<1>10. NowList(n) /\ ~BareList(n) /\ ~Leading(n)
  BY <1>1, <1>4 DEF NowList, BareList, Leading, StopOps
<1>11. Rejoining(s) => Rejoining(n)
  BY <1>1 DEF Rejoining, StopOps
<1>12. InSection(n)
  BY <1>1 DEF InSection, Sections, Locking
<1> QED BY <1>1, <1>7, <1>8, <1>9, <1>10, <1>11, <1>12

\* The list of a start that stops a stale capture first.
LEMMA RebuildsFacts ==
  ASSUME NEW s, Plan(s), s # <<>>, s[1] = "start", NEW h \in {"stop_bp", "stop_native"},
         NEW n, n = Onto(h, s)
  PROVE  /\ Plan(n) /\ n # <<>> /\ n[1] = h /\ n[2] = "start"
         /\ Body(n) <=> Body(s)
         /\ AliveList(n) <=> AliveList(s)
         /\ MonitorList(n) <=> MonitorList(s)
         /\ NowList(n) /\ ~BareList(n) /\ ~Leading(n)
         /\ Rejoining(s) => Rejoining(n)
         /\ \A b \in BOOLEAN : ~LaterList(s, b)
<1>1. Plan(n) /\ n # <<>> /\ n[1] = h /\ n[2] = "start"
  BY Rebuilding DEF Onto
<1>2. /\ Body(n) <=> Body(s)
      /\ AliveList(n) <=> AliveList(s)
      /\ MonitorList(n) <=> MonitorList(s)
      /\ NowList(n) /\ ~BareList(n)
      /\ Range(s) \subseteq RejoinOps => Range(n) \subseteq RejoinOps
      /\ \A b \in BOOLEAN : ~LaterList(s, b)
      /\ "outputs" \notin Range(n) /\ "start_loop" \notin Range(n)
  BY RebuildingFacts
<1>3. ~Leading(n)
  BY <1>2 DEF Leading
<1>4. Rejoining(s) => Rejoining(n)
  BY <1>1, <1>2 DEF Rejoining
<1> QED BY <1>1, <1>2, <1>3, <1>4

\* The list of a start that has come to its native call.
LEMMA OnwardsFacts ==
  ASSUME NEW s, Plan(s), s # <<>>, s[1] = "start", NEW n, n = Under("start_native", s)
  PROVE  /\ Plan(n) /\ InSection(n) /\ n[1] = "start_native"
         /\ Body(n) <=> Body(s)
         /\ AliveList(n) <=> AliveList(s)
         /\ MonitorList(n) <=> MonitorList(s)
         /\ NowList(n) /\ ~BareList(n) /\ ~Leading(n)
         /\ Rejoining(s) => Rejoining(n)
         /\ \A b \in BOOLEAN : LaterList(s, b) => LaterList(n, b)
<1>1. Plan(n) /\ n # <<>> /\ n[1] = "start_native"
  BY Heading DEF Under
<1>2. /\ Body(n) <=> Body(s)
      /\ AliveList(n) <=> AliveList(s)
      /\ s[1] = "start" => (MonitorList(n) <=> MonitorList(s))
      /\ s[1] = "start" => NowList(n) /\ ~BareList(n)
      /\ \A b \in BOOLEAN : LaterList(s, b) => LaterList(n, b)
      /\ Range(s) \subseteq RejoinOps => Range(n) \subseteq RejoinOps
  <2>1. Plan(s) /\ s # <<>> /\ (s[1] = "start" /\ "start_native" = "start_native") /\ n = Under("start_native", s)
    OBVIOUS
  <2> QED BY ONLY <2>1, OnwardFacts
<1>3. ~Leading(n) /\ InSection(n)
  BY <1>1 DEF Leading, StopOps, InSection, Sections, Inner
<1>4. Rejoining(s) => Rejoining(n)
  BY <1>1, <1>2 DEF Rejoining, StopOps
<1> QED BY <1>1, <1>2, <1>3, <1>4

\* A start that meets a stale capture keeps it.
LEMMA RebuildsInv ==
  ASSUME CaptureInv, NEW p \in Coroutines, Rebuilds(p)
  PROVE  CaptureInv'
<1>0. TypeInv /\ Tables /\ Shapes /\ LockInv /\ Locals
  BY CaptureInvParts
<1>1. PICK s : s = todo[p]
  OBVIOUS
<1>2. Plan(s) /\ s # <<>> /\ s[1] = "start" /\ Holds(p) /\ (p \in Rejoins => Rejoining(s))
  BY <1>0, <1>1, AtHead DEF Rebuilds
<1>3. InSection(s) /\ lock # <<>> /\ lock[1] = p
  BY <1>0, <1>1, <1>2, Within DEF InSection, Sections, Locking
<1>4. Stops(p, s) /\ instance
  BY <1>1 DEF Rebuilds
<1>5. local[p].keep \in BOOLEAN
  BY <1>0 DEF TypeInv, Frames
<1>6. CASE entry # NoOne /\ entry.task
  <2>1. /\ Goes(p, <<"stop_bp">> \o s)
        /\ local' = [local EXCEPT ![p].same = TRUE]
        /\ UNCHANGED <<instance, group, history>>
        /\ UNCHANGED <<registry, entry, native, pass, pending, late, events>>
    BY <1>4, <1>6 DEF Stops
  <2>2. PICK n : n = <<"stop_bp">> \o s /\ n = Onto("stop_bp", s)
    BY DEF Onto
  <2>3. /\ Plan(n) /\ n # <<>> /\ n[1] = "stop_bp" /\ n[2] = "start"
        /\ Body(n) <=> Body(s)
        /\ AliveList(n) <=> AliveList(s)
        /\ MonitorList(n) <=> MonitorList(s)
        /\ NowList(n) /\ ~BareList(n) /\ ~Leading(n)
        /\ Rejoining(s) => Rejoining(n)
        /\ \A b \in BOOLEAN : ~LaterList(s, b)
    <3>1. n = Onto("stop_bp", s)
      BY <2>2
    <3>2. Plan(s) /\ s # <<>> /\ s[1] = "start"
      BY <1>2
    <3> QED BY ONLY <3>1, <3>2, RebuildsFacts
  <2> QED BY <1>1, <1>2, <1>3, <1>4, <1>5, <1>6, <2>1, <2>2, <2>3, StopWaits
<1>7. CASE ~(entry # NoOne /\ entry.task)
  <2>1. /\ Goes(p, <<"stop_native">> \o s) /\ group' = group /\ instance' = FALSE
        /\ local' = [local EXCEPT ![p].reset = FALSE]
        /\ history' = [history EXCEPT !.unreset = history.unreset \cup (clients \ paused)]
        /\ UNCHANGED <<registry, entry, native, pass, pending, late, events>>
    BY <1>4, <1>7 DEF Stops, PopInstance
  <2>2. PICK n : n = <<"stop_native">> \o s /\ n = Onto("stop_native", s)
    BY DEF Onto
  <2>3. /\ Plan(n) /\ n # <<>> /\ n[1] = "stop_native" /\ n[2] = "start"
        /\ Body(n) <=> Body(s)
        /\ AliveList(n) <=> AliveList(s)
        /\ NowList(n) /\ ~BareList(n) /\ ~Leading(n)
        /\ Rejoining(s) => Rejoining(n)
        /\ \A b \in BOOLEAN : ~LaterList(s, b)
    <3>1. n = Onto("stop_native", s)
      BY <2>2
    <3>2. Plan(s) /\ s # <<>> /\ s[1] = "start"
      BY <1>2
    <3> QED BY ONLY <3>1, <3>2, RebuildsFacts
  <2>4. PICK U : U = history.unreset \cup (clients \ paused)
    OBVIOUS
  <2>5. U \subseteq Pages
    BY <1>0, <2>4 DEF TypeInv, Outcomes
  <2> QED BY <1>1, <1>2, <1>3, <1>5, <2>1, <2>2, <2>3, <2>4, <2>5, PopsWithin
<1> QED BY <1>6, <1>7

\* What a step that only tells some sockets of a reset leaves of the history.
LEMMA Noted ==
  ASSUME TypeInv, NEW U, U \subseteq Pages, history' = [history EXCEPT !.unreset = U]
  PROVE  /\ history' \in Outcomes
         /\ history'.failed = history.failed /\ history'.orphaned = history.orphaned
         /\ history'.unthrottled = history.unthrottled
         /\ history'.cancelled = history.cancelled /\ history'.overtaken = history.overtaken
<1>1. history \in Outcomes
  BY DEF TypeInv
<1> QED BY ONLY <1>1, U \subseteq Pages, history' = [history EXCEPT !.unreset = U] DEF Outcomes

\* Sockets that were not told stay sockets.
LEMMA NotifiedType == TypeInv => Notified \subseteq Pages /\ \A s : history.unreset \ {s} \subseteq Pages
  BY DEF TypeInv, Notified, Outcomes

\* One variable of a coroutine is set.
LEMMA LocalSame ==
  ASSUME TypeInv, NEW p \in Coroutines, NEW b \in BOOLEAN, local' = [local EXCEPT ![p].same = b]
  PROVE  /\ local' \in [Coroutines -> Frames] /\ local'[p].same = b
         /\ \A c \in Coroutines : local'[c].keep = local[c].keep
         /\ \A c \in Coroutines : c # p => local'[c].same = local[c].same
         /\ local[p].keep \in BOOLEAN /\ local[p].same \in BOOLEAN
<1>1. local \in [Coroutines -> Frames]
  BY DEF TypeInv
<1> QED BY ONLY <1>1, local' = [local EXCEPT ![p].same = b], p \in Coroutines, b \in BOOLEAN DEF Frames

\* A reset that is noted changes nothing else.
LEMMA LocalReset ==
  ASSUME TypeInv, NEW p \in Coroutines, NEW b \in BOOLEAN, local' = [local EXCEPT ![p].reset = b]
  PROVE  /\ local' \in [Coroutines -> Frames]
         /\ \A c \in Coroutines : local'[c].keep = local[c].keep /\ local'[c].same = local[c].same
         /\ local[p].keep \in BOOLEAN
<1>1. local \in [Coroutines -> Frames]
  BY DEF TypeInv
<1> QED BY ONLY <1>1, local' = [local EXCEPT ![p].reset = b], p \in Coroutines, b \in BOOLEAN DEF Frames

\* Nor does a keep.
LEMMA LocalKeep ==
  ASSUME TypeInv, NEW p \in Coroutines, NEW b \in BOOLEAN, local' = [local EXCEPT ![p].keep = b]
  PROVE  /\ local' \in [Coroutines -> Frames] /\ local'[p].keep = b
         /\ \A c \in Coroutines : c # p => local'[c].keep = local[c].keep
         /\ \A c \in Coroutines : local'[c].same = local[c].same
         /\ local[p].keep \in BOOLEAN
<1>1. local \in [Coroutines -> Frames]
  BY DEF TypeInv
<1> QED BY ONLY <1>1, local' = [local EXCEPT ![p].keep = b], p \in Coroutines, b \in BOOLEAN DEF Frames

\* Local variables that stay.
LEMMA LocalNone ==
  ASSUME TypeInv, local' = local
  PROVE  /\ local' \in [Coroutines -> Frames]
         /\ \A c \in Coroutines : local'[c].keep = local[c].keep /\ local'[c].same = local[c].same
         /\ \A c \in Coroutines : local[c].keep \in BOOLEAN
  BY DEF TypeInv, Frames

\* An entry of which one field is changed is an entry.
LEMMA EntryTask ==
  ASSUME NEW e \in Entries, NEW b \in BOOLEAN, NEW f, f = [e EXCEPT !.task = b]
  PROVE  f \in Entries /\ f # NoOne /\ f.task = b /\ f.active = e.active /\ f.told = e.told /\ f.ws = e.ws
<1>1. f \in Entries /\ f.task = b /\ f.active = e.active /\ f.told = e.told /\ f.ws = e.ws
  BY DEF Entries
<1> QED BY <1>1, CaptureAssumption

\* An entry whose client was told changes in nothing else.
LEMMA EntryTold ==
  ASSUME NEW e \in Entries, NEW b \in BOOLEAN, NEW f, f = [e EXCEPT !.told = b]
  PROVE  f \in Entries /\ f # NoOne /\ f.task = e.task /\ f.active = e.active /\ f.told = b /\ f.ws = e.ws
<1>1. f \in Entries /\ f.task = e.task /\ f.active = e.active /\ f.told = b /\ f.ws = e.ws
  BY DEF Entries
<1> QED BY <1>1, CaptureAssumption

\* Nor does one that is activated or not.
LEMMA EntryActive ==
  ASSUME NEW e \in Entries, NEW b \in BOOLEAN, NEW f, f = [e EXCEPT !.active = b]
  PROVE  f \in Entries /\ f # NoOne /\ f.task = e.task /\ f.active = b /\ f.told = e.told /\ f.ws = e.ws
<1>1. f \in Entries /\ f.task = e.task /\ f.active = b /\ f.told = e.told /\ f.ws = e.ws
  BY DEF Entries
<1> QED BY <1>1, CaptureAssumption

\* Nor one that is handed over.
LEMMA EntryWs ==
  ASSUME NEW e \in Entries, NEW o \in Owners, NEW f, f = [e EXCEPT !.ws = o]
  PROVE  f \in Entries /\ f # NoOne /\ f.task = e.task /\ f.active = e.active /\ f.told = e.told /\ f.ws = o
<1>1. f \in Entries /\ f.task = e.task /\ f.active = e.active /\ f.told = e.told /\ f.ws = o
  BY DEF Entries
<1> QED BY <1>1, CaptureAssumption

\* The end of a backpressure task that a stop awaited keeps it.
LEMMA MonitorStoppedInv ==
  ASSUME CaptureInv, NEW p \in Coroutines, MonitorStopped(p)
  PROVE  CaptureInv'
<1>0. TypeInv /\ Tables /\ Shapes /\ LockInv /\ Locals
  BY CaptureInvParts
<1>1. PICK s : s = todo[p]
  OBVIOUS
<1>2. Plan(s) /\ s # <<>> /\ s[1] = "stop_bp" /\ Rest(p) = Tail(s) /\ (p \in Rejoins => Rejoining(s))
  BY <1>0, <1>1, AtHead DEF MonitorStopped
<1>3. InSection(s) /\ lock # <<>> /\ lock[1] = p
  BY <1>0, <1>1, <1>2, Within DEF Inner
<1>4. Consistent /\ (s[2] = "start" => instance) /\ (Leading(s) => ~local[p].keep)
  BY <1>0, <1>1, <1>2, <1>3 DEF Tables, Locals
<1>5. PICK n : n = <<"stop_pop">> \o Tail(s) /\ n = Under("stop_pop", s)
  BY DEF Under
<1>6. /\ Plan(n) /\ n # <<>> /\ n[1] = "stop_pop" /\ n[2] = s[2] /\ InSection(n)
      /\ Body(n) <=> Body(s)
      /\ AliveList(n) <=> AliveList(s)
      /\ \A b \in BOOLEAN : LaterList(n, b) <=> LaterList(s, b)
      /\ NowList(n) <=> NowList(s)
      /\ BareList(n) => BareList(s)
      /\ Rejoining(s) => Rejoining(n)
      /\ Leading(n) => Leading(s)
  <2>1. "stop_pop" \in StopOps
    BY DEF StopOps
  <2>2. Plan(s) /\ s # <<>> /\ s[1] \in {"stop", "stop_bp", "stop_pop"}
    BY <1>2
  <2>3. n = Under("stop_pop", s)
    BY <1>5
  <2> QED BY ONLY <2>1, <2>2, <2>3, StopFacts
<1>7. /\ entry' = IF local[p].same THEN [entry EXCEPT !.task = FALSE] ELSE entry
      /\ local' = [local EXCEPT ![p].same = FALSE]
      /\ history' = [history EXCEPT !.unreset = Notified]
      /\ Goes(p, n)
      /\ UNCHANGED <<registry, capture, pass, pending, late, events>>
  BY <1>2, <1>5 DEF MonitorStopped
<1>8. /\ history' \in Outcomes
      /\ history'.failed = history.failed /\ history'.orphaned = history.orphaned
      /\ history'.cancelled = history.cancelled /\ history'.overtaken = history.overtaken
  BY <1>0, <1>7, Noted, NotifiedType
<1>9. /\ local' \in [Coroutines -> Frames] /\ ~local'[p].same
      /\ \A c \in Coroutines : local'[c].keep = local[c].keep
      /\ \A c \in Coroutines : c # p => local'[c].same = local[c].same
      /\ local[p].keep \in BOOLEAN
  BY <1>0, <1>7, LocalSame
<1>10. /\ entry' \in Entries \cup {NoOne} /\ (entry # NoOne => entry' # NoOne)
       /\ Wanted' => Wanted /\ (entry.told => entry'.told)
  <2>1. CASE local[p].same
    <3>1. entry \in Entries /\ entry # NoOne /\ entry' = [entry EXCEPT !.task = FALSE]
      BY <1>0, <1>7, <2>1 DEF Locals, TypeInv
    <3>2. entry' \in Entries /\ entry' # NoOne /\ entry'.active = entry.active /\ entry'.told = entry.told
      BY <3>1, EntryTask
    <3> QED BY <3>1, <3>2 DEF Wanted
  <2>2. CASE ~local[p].same
    BY <1>0, <1>7, <2>2 DEF TypeInv, Wanted
  <2> QED BY <2>1, <2>2
<1>11. /\ todo' = Put(todo, p, n) /\ todo' \in Todos /\ lock' = lock
  BY <1>0, <1>1, <1>3, <1>2, <1>6, <1>7, WithinStep
<1>12. TypeInv'
  BY <1>0, <1>7, <1>8, <1>9, <1>10, <1>11 DEF TypeInv, registry, capture, Todos
<1>13. Consistent' /\ (n[2] = "start" => instance')
  BY <1>4, <1>6, <1>7, <1>8 DEF Consistent, capture
<1>14. Apart(p)
  BY <1>9, <1>10 DEF Apart
<1>15. Watches(p, n)
  BY <1>6 DEF Watches
<1>16. /\ pass' = pass /\ pending' = pending /\ life' = life /\ instance' = instance
  BY <1>7 DEF registry, capture
<1>17. Leading(n) => ~local'[p].keep
  BY <1>4, <1>6, <1>9
<1>18. p \notin Rejoins /\ LaterList(s, local[p].keep) => LaterList(n, local'[p].keep)
  BY <1>6, <1>9
<1>19. n[1] \notin {"stop_native", "start_native", "start"}
  BY <1>6
<1> QED BY <1>1, <1>2, <1>3, <1>6, <1>7, <1>8, <1>10, <1>12, <1>13, <1>14, <1>15, <1>16, <1>17, <1>18, <1>19, WithinInv

\* The end of a native stop keeps it.
LEMMA NativeStoppedInv ==
  ASSUME CaptureInv, NEW p \in Coroutines, NativeStopped(p)
  PROVE  CaptureInv'
<1>0. TypeInv /\ Tables /\ Shapes /\ LockInv /\ Locals
  BY CaptureInvParts
<1>1. PICK s : s = todo[p]
  OBVIOUS
<1>2. /\ Plan(s) /\ s # <<>> /\ s[1] = "stop_native" /\ Rest(p) = Tail(s) /\ (p \in Rejoins => Rejoining(s))
      /\ At(p, "stop_native")
  BY <1>0, <1>1, AtHead DEF NativeStopped
<1>3. InSection(s) /\ lock # <<>> /\ lock[1] = p
  BY <1>0, <1>1, <1>2, Within DEF Inner
<1>4. ~instance /\ (Leading(s) => ~local[p].keep)
  BY <1>0, <1>1, <1>2, <1>3 DEF Tables, Locals
<1>5. s[2] = "release" \/ s[2] = "start"
  BY <1>2, Section DEF Sections, Inner
<1>6. PICK U : /\ U \subseteq Pages
               /\ history' = [history EXCEPT !.orphaned = FALSE, !.unreset = U]
  BY <1>0, NotifiedType DEF NativeStopped, TypeInv, Outcomes
<1>7. /\ native' = "off" /\ group' = FALSE
      /\ local' = [local EXCEPT ![p].reset = FALSE]
      /\ Goes(p, Tail(s))
      /\ UNCHANGED <<registry, entry, instance, pass, pending, late, events>>
  BY <1>2 DEF NativeStopped
<1>8. /\ history' \in Outcomes /\ history'.failed = history.failed
  <2>1. history \in Outcomes
    BY <1>0 DEF TypeInv
  <2> QED BY ONLY <2>1, <1>6 DEF Outcomes
<1>9. /\ local' \in [Coroutines -> Frames]
      /\ \A c \in Coroutines : local'[c].keep = local[c].keep /\ local'[c].same = local[c].same
      /\ local[p].keep \in BOOLEAN
  BY <1>0, <1>7, LocalReset
<1>10. Consistent' /\ Apart(p) /\ ~Loose' /\ life' = life
  <2>1. local'[p].same => entry # NoOne
    BY <1>0, <1>9 DEF Locals
  <2> QED BY <2>1, <1>4, <1>7, <1>9 DEF Consistent, Apart, Loose, registry
<1>11. ~instance' /\ (Wanted' <=> Wanted) /\ entry' = entry
  BY <1>4, <1>7 DEF Wanted
<1>12. CASE s[2] = "release"
  <2>1. PICK n : n = Tail(Tail(s))
    OBVIOUS
  <2>2. /\ Plan(n) /\ Kept(Tail(s)) = n /\ Tail(s) # <<>> /\ Head(Tail(s)) = "release"
        /\ n # <<>> => n[1] \notin Inner \cup {"departed", "register"}
        /\ Leading(n) => Leading(s)
        /\ ~BareList(n)
        /\ Rejoining(s) => Rejoining(n)
    BY <1>2, <1>12, <2>1, LeavingRest DEF StopOps
  <2>3. /\ Body(n) <=> Body(s)
        /\ AliveList(n) => AliveList(s)
        /\ ~NowList(s)
    BY <1>2, <1>12, <2>1, LeavingFacts DEF StopOps
  <2>4. \A b \in BOOLEAN : LaterList(s, b) => LaterList(n, b) \/ (InSection(n) /\ NowList(n))
    BY <1>2, <1>12, <2>1, LeavingPromise DEF StopOps
  <2>5. /\ todo' \in Todos /\ lock' \in Q
    BY <1>0, <1>2, <1>3, <1>7, <2>2, LeavesStep
  <2>6. TypeInv'
    BY <1>0, <1>7, <1>8, <1>9, <2>5 DEF TypeInv, registry, Todos, Q
  <2>7. p \notin Rejoins /\ LaterList(s, local[p].keep) => Fixed(p, n, local'[p].keep)
    BY <1>9, <2>4 DEF Fixed
  <2>8. Leading(n) => ~local'[p].keep
    BY <1>4, <1>9, <2>2
  <2> QED BY <1>1, <1>2, <1>3, <1>4, <1>7, <1>8, <1>10, <1>11, <2>2, <2>3, <2>6, <2>7, <2>8, LeavesInv
<1>13. CASE s[2] = "start"
  <2>1. PICK n : n = Tail(s)
    OBVIOUS
  <2>2. /\ Plan(n) /\ InSection(n) /\ n[1] = "start"
        /\ Body(n) <=> Body(s)
        /\ AliveList(n) => AliveList(s)
        /\ \A b \in BOOLEAN : LaterList(s, b) => LaterList(n, b)
        /\ NowList(n) /\ ~BareList(n) /\ ~Leading(n)
        /\ Rejoining(s) => Rejoining(n)
    BY <1>2, <1>13, <2>1, FollowingFacts DEF StopOps
  <2>3. Goes(p, n)
    BY <1>7, <2>1
  <2>4. /\ todo' \in Todos /\ lock' = lock
    BY <1>0, <1>1, <1>2, <1>3, <2>2, <2>3, WithinStep
  <2>5. TypeInv'
    BY <1>0, <1>7, <1>8, <1>9, <2>4 DEF TypeInv, registry, Todos
  <2>6. p \notin Rejoins /\ LaterList(s, local[p].keep) => LaterList(n, local'[p].keep)
    BY <1>9, <2>2
  <2>7. n[1] \notin {"stop_native", "start_native", "stop_bp", "stop_pop"}
    BY <2>2
  <2>8. pass' = pass /\ pending' = pending /\ instance' = instance
        /\ (Wanted' => Wanted /\ (entry.told => entry'.told))
    BY <1>7, <1>11
  <2> QED BY <1>1, <1>2, <1>3, <1>8, <1>10, <1>11, <2>2, <2>3, <2>5, <2>6, <2>7, <2>8, WithinInv
<1> QED BY <1>5, <1>12, <1>13

\* What a list s has become when its start has ended, with success or not.
GoesOn(s, b, o, n) ==
  /\ o # <<>> /\ Head(o) = "release" /\ Kept(o) = n /\ Plan(n)
  /\ n # <<>> => n[1] \notin Inner \cup {"departed", "register"}
  /\ Body(n) <=> Body(s)
  /\ AliveList(n) => AliveList(s)
  /\ ~Leading(n) /\ ~BareList(n)
  /\ \A k \in BOOLEAN : ~LaterList(s, k)
  /\ Rejoining(s) => Rejoining(n)
  /\ b => n # <<>> /\ MonitorList(n) /\ (Rejoining(s) => n[1] = "bp")

\* How a list goes on that has started the capture, or failed to.
LEMMA StartedFacts ==
  ASSUME NEW s, Plan(s), s # <<>>, s[1] \in {"start", "start_native"}, NEW b \in BOOLEAN,
         NEW o, o = After(Tail(s), b), NEW n, n = Tail(o)
  PROVE  GoesOn(s, b, o, n)
<1>1. /\ s[2] = "release" /\ o \in Seq(Ops) /\ o # <<>> /\ Head(o) = "release"
      /\ Plan(n) /\ (n # <<>> => n[1] \notin Sections)
      /\ Body(n) <=> Body(s)
      /\ AliveList(n) => AliveList(s)
      /\ \A k \in BOOLEAN : ~LaterList(s, k)
      /\ Range(n) \cap {"outputs", "start_loop", "start"} = {}
      /\ b => n # <<>> /\ MonitorList(n)
      /\ Range(s) \subseteq RejoinOps =>
           /\ Range(n) \subseteq RejoinOps
           /\ b => n[1] = "bp"
  BY Starting
<1>2. Kept(o) = n
  BY <1>1 DEF Kept
<1>3. /\ s[3] \notin Sequels => o = Tail(s)
      /\ s[3] \in Sequels => o = AfterThree(s[3], b)
  BY AfterRest
<1>4. n # <<>> => n[1] \notin {"departed", "register"}
  <2>1. SUFFICES ASSUME n # <<>> PROVE n[1] \notin {"departed", "register"}
    OBVIOUS
  <2>2. CASE s[3] \notin Sequels
    <3>1. s \in Seq(Ops) /\ o = Tail(s) /\ n \in Seq(Ops)
      BY <1>1, <1>3, <2>2 DEF Plan
    <3>2. Len(s) \in Nat /\ Len(o) = Len(s) - 1 /\ \A i \in 1 .. (Len(s) - 1) : o[i] = s[i + 1]
      <4>1. Len(s) \in Nat
        BY <3>1, Listed
      <4>2. Len(Tail(s)) = Len(s) - 1 /\ \A i \in 1 .. (Len(s) - 1) : Tail(s)[i] = s[i + 1]
        BY <3>1, Shifted
      <4> QED BY <4>1, <4>2, <3>1
    <3>3. Len(n) = Len(o) - 1 /\ (\A i \in 1 .. (Len(o) - 1) : n[i] = o[i + 1]) /\ Len(n) >= 1
      BY <1>1, <3>1, <2>1, Shifted, Listed
    <3>4. 1 \in 1 .. (Len(o) - 1) /\ 1 + 1 = 2 /\ 2 \in 1 .. (Len(s) - 1) /\ 2 + 1 = 3
      BY <3>2, <3>3
    <3>5. n[1] = s[3] /\ 3 \in 2 .. Len(s)
      <4>1. n[1] = o[2] /\ o[2] = s[3]
        BY <3>2, <3>3, <3>4
      <4>2. 3 \in 2 .. Len(s)
        BY <3>2, <3>4
      <4> QED BY <4>1, <4>2
    <3>6. s[3] \in Later
      <4>1. Sound(s)
        BY DEF Plan
      <4> QED BY ONLY <3>5, <4>1 DEF Sound
    <3> QED BY <3>5, <3>6 DEF Later, Sequels, TailOps
  <2>3. CASE s[3] \in Sequels
    <3>1. o \in {<<"release", "bp">>, <<"release", "reconfigure">>, <<"release">>}
      BY <1>3, <2>3 DEF AfterThree
    <3>2. CASE o = <<"release", "bp">>
      <4>1. n[1] = "bp"
        BY ONLY <3>2, n = Tail(o)
      <4> QED BY <4>1
    <3>3. CASE o = <<"release", "reconfigure">>
      <4>1. n[1] = "reconfigure"
        BY ONLY <3>3, n = Tail(o)
      <4> QED BY <4>1
    <3>4. CASE o = <<"release">>
      <4>1. n = <<>>
        BY <3>4
      <4> QED BY <4>1, <2>1
    <3> QED BY <3>1, <3>2, <3>3, <3>4
  <2> QED BY <2>2, <2>3
<1>5. ~Leading(n) /\ ~BareList(n)
  <2>1. n \in Seq(Ops)
    BY <1>1 DEF Plan
  <2>2. Len(n) >= 1 => n # <<>>
    BY <2>1, Filled
  <2> QED BY <1>1, <2>2 DEF Leading, BareList, Sections, Locking, Inner
<1>6. Rejoining(s) => Rejoining(n)
  BY <1>1 DEF Rejoining, Sections, StopOps, Inner
<1> QED BY <1>1, <1>2, <1>4, <1>5, <1>6 DEF Sections, Rejoining, GoesOn

\* A start that begins keeps the invariant.
LEMMA StartBeginsInv ==
  ASSUME CaptureInv, NEW p \in Coroutines, StartBegins(p)
  PROVE  CaptureInv'
<1>0. TypeInv /\ Tables /\ Shapes /\ LockInv /\ Locals
  BY CaptureInvParts
<1>1. PICK s : s = todo[p]
  OBVIOUS
<1>2. /\ Plan(s) /\ s # <<>> /\ s[1] = "start" /\ Rest(p) = Tail(s) /\ (p \in Rejoins => Rejoining(s))
      /\ Holds(p)
  BY <1>0, <1>1, AtHead DEF StartBegins
<1>3. InSection(s) /\ lock # <<>> /\ lock[1] = p
  BY <1>0, <1>1, <1>2, Within DEF InSection, Sections, Locking
<1>4. Consistent
  BY <1>0, <1>1, <1>2, <1>3 DEF Tables, Locking
<1>5. UNCHANGED <<registry, entry, instance, native, pass, pending, local, late, history, events>>
  BY DEF StartBegins
<1>6. /\ local' \in [Coroutines -> Frames]
      /\ \A c \in Coroutines : local'[c].keep = local[c].keep /\ local'[c].same = local[c].same
      /\ \A c \in Coroutines : local[c].keep \in BOOLEAN
  BY <1>0, <1>5, LocalNone
<1>7. Apart(p) /\ life' = life /\ (Wanted' <=> Wanted)
  <2>1. local'[p].same => entry # NoOne
    BY <1>0, <1>6 DEF Locals
  <2> QED BY <2>1, <1>5, <1>6 DEF Apart, registry, Wanted
<1>8. CASE instance /\ native = "on" /\ Goes(p, After(Rest(p), TRUE)) /\ group' = group
  <2>b. PICK b \in BOOLEAN : b = TRUE
    OBVIOUS
  <2>1. PICK o : o = After(Tail(s), TRUE) /\ o = After(Tail(s), b)
    BY <2>b
  <2>2. PICK n : n = Tail(o)
    OBVIOUS
  <2>3. /\ o # <<>> /\ Head(o) = "release" /\ Kept(o) = n /\ Plan(n)
        /\ n # <<>> => n[1] \notin Inner \cup {"departed", "register"}
        /\ Body(n) <=> Body(s)
        /\ AliveList(n) => AliveList(s)
        /\ ~Leading(n) /\ ~BareList(n)
        /\ \A k \in BOOLEAN : ~LaterList(s, k)
        /\ Rejoining(s) => Rejoining(n)
        /\ n # <<>> /\ MonitorList(n) /\ (Rejoining(s) => n[1] = "bp")
    <3>1. Plan(s) /\ s # <<>> /\ s[1] \in {"start", "start_native"} /\ o = After(Tail(s), b)
      BY <1>2, <2>1
    <3>2. GoesOn(s, b, o, n)
      BY ONLY <2>2, <3>1, b \in BOOLEAN, StartedFacts
    <3> QED BY ONLY <3>2, <2>b DEF GoesOn
  <2>4. Goes(p, o)
    BY <1>2, <1>8, <2>1
  <2>5. /\ todo' \in Todos /\ lock' \in Q
    BY <1>0, <1>2, <1>3, <2>3, <2>4, LeavesStep
  <2>6. TypeInv'
    BY <1>0, <1>5, <1>6, <1>8, <2>5 DEF TypeInv, registry, Todos, Q
  <2>7. ~LaterList(s, local[p].keep)
    BY <1>6, <2>3
  <2>8. Watches(p, n)
    BY <1>2, <2>3 DEF Watches
  <2>9. Consistent' /\ instance'
    BY <1>4, <1>5, <1>8 DEF Consistent
  <2>10. entry' = entry /\ pass' = pass /\ pending' = pending
    BY <1>5
  <2>11. p \notin Rejoins /\ LaterList(s, local[p].keep) => Fixed(p, n, local'[p].keep)
    BY <2>7
  <2>12. InSection(todo[p]) /\ (p \in Rejoins => Rejoining(n))
    BY <1>1, <1>2, <1>3, <2>3
  <2>13. Leading(n) => ~local'[p].keep
    BY <2>3
  <2> QED BY <1>1, <1>3, <1>7, <2>3, <2>4, <2>6, <2>8, <2>9, <2>10, <2>11, <2>12, <2>13, LeavesInv
<1>9. CASE ~instance /\ group' = TRUE /\ Goes(p, <<"start_native">> \o Rest(p))
  <2>1. PICK n : n = <<"start_native">> \o Tail(s) /\ n = Under("start_native", s)
    BY DEF Under
  <2>2. /\ Plan(n) /\ InSection(n) /\ n[1] = "start_native"
        /\ Body(n) <=> Body(s)
        /\ AliveList(n) <=> AliveList(s)
        /\ NowList(n) /\ ~BareList(n) /\ ~Leading(n)
        /\ Rejoining(s) => Rejoining(n)
        /\ \A b \in BOOLEAN : LaterList(s, b) => LaterList(n, b)
    <3>1. n = Under("start_native", s)
      BY <2>1
    <3>2. Plan(s) /\ s # <<>> /\ s[1] = "start"
      BY <1>2
    <3> QED BY ONLY <3>1, <3>2, OnwardsFacts
  <2>3. Goes(p, n)
    BY <1>2, <1>9, <2>1
  <2>4. /\ todo' \in Todos /\ lock' = lock
    BY <1>0, <1>1, <1>2, <1>3, <2>2, <2>3, WithinStep
  <2>5. TypeInv'
    BY <1>0, <1>5, <1>6, <1>9, <2>4 DEF TypeInv, registry, Todos
  <2>6. p \notin Rejoins /\ LaterList(s, local[p].keep) => LaterList(n, local'[p].keep)
    BY <1>6, <2>2
  <2>7. n[1] \notin Locking \cup {"stop_native", "stop_bp", "stop_pop", "start"}
    BY <2>2 DEF Locking
  <2>8. ~instance' /\ group' /\ (native' # "off" => history'.orphaned \/ \E r \in Coroutines : <<r, "stop">> \in late')
    BY <1>4, <1>5, <1>9 DEF Consistent
  <2>9. ~Loose'
    BY <2>8 DEF Loose
  <2>10. /\ pass' = pass /\ pending' = pending /\ instance' = instance /\ history'.failed = history.failed
         /\ (Wanted' => Wanted /\ (entry.told => entry'.told))
    BY <1>5, <1>7
  <2> QED BY <1>1, <1>2, <1>3, <1>7, <2>2, <2>3, <2>5, <2>6, <2>7, <2>8, <2>9, <2>10, WithinInv
<1> QED BY <1>8, <1>9 DEF StartBegins

\* The end of a native start, which may have failed, keeps it.
LEMMA NativeStartedInv ==
  ASSUME CaptureInv, NEW p \in Coroutines, NativeStarted(p)
  PROVE  CaptureInv'
<1>0. TypeInv /\ Tables /\ Shapes /\ LockInv /\ Locals
  BY CaptureInvParts
<1>1. PICK s : s = todo[p]
  OBVIOUS
<1>2. /\ Plan(s) /\ s # <<>> /\ s[1] = "start_native" /\ Rest(p) = Tail(s) /\ (p \in Rejoins => Rejoining(s))
      /\ At(p, "start_native")
  BY <1>0, <1>1, AtHead DEF NativeStarted
<1>3. InSection(s) /\ lock # <<>> /\ lock[1] = p
  BY <1>0, <1>1, <1>2, Within DEF Inner
<1>4. ~instance /\ group /\ (native # "off" => history.orphaned \/ \E r \in Coroutines : <<r, "stop">> \in late)
  BY <1>0, <1>2, <1>3 DEF Tables
<1>5. UNCHANGED <<registry, entry, pass, pending, local, late>>
  BY DEF NativeStarted
<1>6. /\ local' \in [Coroutines -> Frames]
      /\ \A c \in Coroutines : local'[c].keep = local[c].keep /\ local'[c].same = local[c].same
      /\ \A c \in Coroutines : local[c].keep \in BOOLEAN
  BY <1>0, <1>5, LocalNone
<1>7. Apart(p) /\ life' = life
  <2>1. local'[p].same => entry # NoOne
    BY <1>0, <1>6 DEF Locals
  <2> QED BY <2>1, <1>5, <1>6 DEF Apart, registry
<1>a. history \in Outcomes /\ events \in Nat
  BY <1>0 DEF TypeInv
<1>8. CASE /\ native' = "on" /\ instance' = TRUE
           /\ Goes(p, After(Rest(p), TRUE))
           /\ history' = [history EXCEPT !.failed = FALSE, !.orphaned = FALSE,
                                         !.cancelled = FALSE, !.overtaken = FALSE]
           /\ UNCHANGED <<group, events>>
  <2>b. PICK b \in BOOLEAN : b = TRUE
    OBVIOUS
  <2>1. PICK o : o = After(Tail(s), TRUE) /\ o = After(Tail(s), b)
    BY <2>b
  <2>2. PICK n : n = Tail(o)
    OBVIOUS
  <2>3. /\ o # <<>> /\ Head(o) = "release" /\ Kept(o) = n /\ Plan(n)
        /\ n # <<>> => n[1] \notin Inner \cup {"departed", "register"}
        /\ Body(n) <=> Body(s)
        /\ AliveList(n) => AliveList(s)
        /\ ~Leading(n) /\ ~BareList(n)
        /\ \A k \in BOOLEAN : ~LaterList(s, k)
        /\ Rejoining(s) => Rejoining(n)
        /\ n # <<>> /\ MonitorList(n) /\ (Rejoining(s) => n[1] = "bp")
    <3>1. Plan(s) /\ s # <<>> /\ s[1] \in {"start", "start_native"} /\ o = After(Tail(s), b)
      BY <1>2, <2>1
    <3>2. GoesOn(s, b, o, n)
      BY ONLY <2>2, <3>1, b \in BOOLEAN, StartedFacts
    <3> QED BY ONLY <3>2, <2>b DEF GoesOn
  <2>4. Goes(p, o)
    BY <1>2, <1>8, <2>1
  <2>5. /\ todo' \in Todos /\ lock' \in Q
    BY <1>0, <1>2, <1>3, <2>3, <2>4, LeavesStep
  <2>a. history' \in Outcomes
    BY ONLY <1>a, <1>8 DEF Outcomes
  <2>6. TypeInv'
    BY <1>0, <1>5, <1>6, <1>8, <2>5, <2>a DEF TypeInv, registry, Todos, Q
  <2>7. ~LaterList(s, local[p].keep)
    BY <1>6, <2>3
  <2>8. Watches(p, n)
    BY <1>2, <2>3 DEF Watches
  <2>9. Consistent' /\ instance'
    BY <1>4, <1>8 DEF Consistent
  <2>10. entry' = entry /\ pass' = pass /\ pending' = pending
    BY <1>5
  <2>11. p \notin Rejoins /\ LaterList(s, local[p].keep) => Fixed(p, n, local'[p].keep)
    BY <2>7
  <2>12. InSection(todo[p]) /\ (p \in Rejoins => Rejoining(n))
    BY <1>1, <1>2, <1>3, <2>3
  <2>13. Leading(n) => ~local'[p].keep
    BY <2>3
  <2> QED BY <1>1, <1>3, <1>7, <2>3, <2>4, <2>6, <2>8, <2>9, <2>10, <2>11, <2>12, <2>13, LeavesInv
<1>9. CASE /\ events < MaxEvents /\ events' = events + 1
           /\ group' = FALSE
           /\ Goes(p, After(Rest(p), FALSE))
           /\ history' = [history EXCEPT !.failed = TRUE, !.cancelled = FALSE]
           /\ UNCHANGED <<native, instance>>
  <2>b. PICK b \in BOOLEAN : b = FALSE
    OBVIOUS
  <2>1. PICK o : o = After(Tail(s), FALSE) /\ o = After(Tail(s), b)
    BY <2>b
  <2>2. PICK n : n = Tail(o)
    OBVIOUS
  <2>3. /\ o # <<>> /\ Head(o) = "release" /\ Kept(o) = n /\ Plan(n)
        /\ n # <<>> => n[1] \notin Inner \cup {"departed", "register"}
        /\ Body(n) <=> Body(s)
        /\ AliveList(n) => AliveList(s)
        /\ ~Leading(n) /\ ~BareList(n)
        /\ \A k \in BOOLEAN : ~LaterList(s, k)
        /\ Rejoining(s) => Rejoining(n)
    <3>1. Plan(s) /\ s # <<>> /\ s[1] \in {"start", "start_native"} /\ o = After(Tail(s), b)
      BY <1>2, <2>1
    <3>2. GoesOn(s, b, o, n)
      BY ONLY <2>2, <3>1, b \in BOOLEAN, StartedFacts
    <3> QED BY ONLY <3>2, <2>b DEF GoesOn
  <2>4. Goes(p, o)
    BY <1>2, <1>9, <2>1
  <2>5. /\ todo' \in Todos /\ lock' \in Q
    BY <1>0, <1>2, <1>3, <2>3, <2>4, LeavesStep
  <2>a. history' \in Outcomes /\ history'.failed /\ history'.orphaned = history.orphaned
    BY ONLY <1>a, <1>9 DEF Outcomes
  <2>c. events' \in Nat
    BY <1>a, <1>9
  <2>6. TypeInv'
    BY <1>0, <1>5, <1>6, <1>9, <2>5, <2>a, <2>c DEF TypeInv, registry, Todos, Q
  <2>7. ~LaterList(s, local[p].keep)
    BY <1>6, <2>3
  <2>8. ~Loose'
    BY <1>4, <1>9 DEF Loose
  <2>9. Consistent'
    BY <1>4, <1>5, <1>9, <2>a DEF Consistent
  <2>10. entry' = entry /\ pass' = pass /\ pending' = pending
    BY <1>5
  <2>11. p \notin Rejoins /\ LaterList(s, local[p].keep) => Fixed(p, n, local'[p].keep)
    BY <2>7
  <2>12. InSection(todo[p]) /\ (p \in Rejoins => Rejoining(n))
    BY <1>1, <1>2, <1>3, <2>3
  <2>13. Leading(n) => ~local'[p].keep
    BY <2>3
  <2> QED BY <1>1, <1>3, <1>7, <2>3, <2>4, <2>6, <2>8, <2>9, <2>a, <1>4, <1>9, <2>10, <2>11, <2>12, <2>13, LeavesInv
<1> QED BY <1>8, <1>9 DEF NativeStarted

\* A rejoin has only operations of a rejoin.
LEMMA NoRejoin ==
  ASSUME NEW s, Plan(s), s # <<>>, Rejoining(s)
  PROVE  s[1] \in RejoinOps /\ Range(s) \subseteq RejoinOps
  BY Heads DEF Plan, Rejoining

\* A start on the live module keeps it.
LEMMA ReliveInv ==
  ASSUME CaptureInv, NEW p \in Coroutines, Relive(p)
  PROVE  CaptureInv'
<1>0. TypeInv /\ Tables /\ Shapes /\ LockInv /\ Locals
  BY CaptureInvParts
<1>1. PICK s : s = todo[p]
  OBVIOUS
<1>2. /\ Plan(s) /\ s # <<>> /\ s[1] = "relive" /\ Rest(p) = Tail(s) /\ (p \in Rejoins => Rejoining(s))
      /\ Holds(p)
  BY <1>0, <1>1, AtHead DEF Relive
<1>3. InSection(s) /\ lock # <<>> /\ lock[1] = p
  BY <1>0, <1>1, <1>2, Within DEF InSection, Sections, Locking
<1>4. Consistent /\ (Leading(s) => ~local[p].keep)
  BY <1>0, <1>1, <1>2, <1>3 DEF Tables, Locking, Locals
<1>5. /\ UNCHANGED <<registry, entry, instance, group, pass, pending, local, late, events>>
      /\ native' = "on" /\ history' = [history EXCEPT !.orphaned = history.orphaned \/ ~instance]
      /\ Goes(p, Tail(s))
  BY <1>2 DEF Relive
<1>6. /\ local' \in [Coroutines -> Frames]
      /\ \A c \in Coroutines : local'[c].keep = local[c].keep /\ local'[c].same = local[c].same
      /\ \A c \in Coroutines : local[c].keep \in BOOLEAN
  BY <1>0, <1>5, LocalNone
<1>7. Apart(p) /\ life' = life /\ (Wanted' <=> Wanted)
  <2>1. local'[p].same => entry # NoOne
    BY <1>0, <1>6 DEF Locals
  <2> QED BY <2>1, <1>5, <1>6 DEF Apart, registry, Wanted
<1>8. /\ history' \in Outcomes /\ history'.failed = history.failed /\ history'.unthrottled = history.unthrottled
      /\ history'.orphaned = (history.orphaned \/ ~instance) /\ history'.cancelled = history.cancelled
      /\ history'.overtaken = history.overtaken
  <2>1. history \in Outcomes /\ instance \in BOOLEAN
    BY <1>0 DEF TypeInv
  <2>2. history' = [history EXCEPT !.orphaned = history.orphaned \/ ~instance]
    BY <1>5
  <2> QED BY ONLY <2>1, <2>2 DEF Outcomes
<1>9. s[2] = "release" /\ p \notin Rejoins
  BY <1>2, Section, NoRejoin DEF Sections, Locking, StopOps, RejoinOps, Inner
<1>10. PICK n : n = Tail(Tail(s))
  OBVIOUS
<1>11. /\ Plan(n) /\ Kept(Tail(s)) = n /\ Tail(s) # <<>> /\ Head(Tail(s)) = "release"
       /\ n # <<>> => n[1] \notin Inner \cup {"departed", "register"}
       /\ Leading(n) => Leading(s)
       /\ ~BareList(n)
  BY <1>2, <1>9, <1>10, LeavingRest
<1>12. /\ Body(n) <=> Body(s)
       /\ AliveList(n) => AliveList(s)
       /\ ~NowList(s)
       /\ MonitorList(s) => MonitorList(n)
  BY <1>2, <1>9, <1>10, LeavingFacts
<1>13. \A b \in BOOLEAN : LaterList(s, b) => LaterList(n, b) \/ (InSection(n) /\ NowList(n))
  BY <1>2, <1>9, <1>10, LeavingPromise
<1>14. /\ todo' = Put(todo, p, n) /\ todo' \in Todos /\ lock' \in Q
  BY <1>0, <1>3, <1>5, <1>9, <1>11, LeavesStep
<1>15. TypeInv'
  BY <1>0, <1>5, <1>6, <1>8, <1>14 DEF TypeInv, registry, Todos, Q
<1>16. LaterList(s, local[p].keep) => Fixed(p, n, local'[p].keep)
  BY <1>6, <1>9, <1>13 DEF Fixed
<1>17. Leading(n) => ~local'[p].keep
  BY <1>4, <1>6, <1>11
<1>18. Consistent'
  BY <1>4, <1>5, <1>8 DEF Consistent
<1>19. Wants' => Wants
  BY <1>0, <1>1, <1>5, <1>7, <1>12, <1>14, AliveStep, WantsStep
<1>20. Loose' => Loose
  BY <1>5, <1>8, <1>19 DEF Loose
<1>21. Watches(p, s) => Watches(p, n)
  BY <1>2, <1>9, <1>12 DEF Watches
<1>22. entry' = entry /\ pass' = pass /\ pending' = pending /\ instance' = instance
  BY <1>5
<1>23. Goes(p, Tail(s)) /\ (~instance' /\ ~history'.failed => ~instance /\ ~history.failed)
  BY <1>5, <1>8, <1>22
<1> QED BY <1>1, <1>3, <1>7, <1>9, <1>11, <1>12, <1>15, <1>16, <1>17, <1>18, <1>20, <1>21, <1>22, <1>23, LeavesInv

\* A pass that judges the capture keeps it.
LEMMA JudgeInv ==
  ASSUME CaptureInv, NEW p \in Coroutines, Judge(p)
  PROVE  CaptureInv'
<1>0. TypeInv /\ Tables /\ Shapes /\ LockInv /\ Locals
  BY CaptureInvParts
<1>1. PICK s : s = todo[p]
  OBVIOUS
<1>2. /\ Plan(s) /\ s # <<>> /\ s[1] = "judge" /\ Rest(p) = Tail(s) /\ (p \in Rejoins => Rejoining(s))
      /\ Holds(p)
  BY <1>0, <1>1, AtHead DEF Judge
<1>3. InSection(s) /\ lock # <<>> /\ lock[1] = p
  BY <1>0, <1>1, <1>2, Within DEF InSection, Sections, Locking
<1>4. Consistent
  BY <1>0, <1>1, <1>2, <1>3 DEF Tables, Locking
<1>5. UNCHANGED <<registry, entry, capture, pass, pending, late, history, events>>
  BY DEF Judge
<1>9. s[2] = "release" /\ p \notin Rejoins /\ Body(s)
  <2>1. s[1] \in Range(s)
    <3>1. s \in Seq(Ops)
      BY <1>2 DEF Plan
    <3> QED BY <3>1, <1>2, Heads
  <2>2. s[2] = "release"
    BY <1>2, Section DEF Sections, Locking, StopOps
  <2>3. p \notin Rejoins
    BY <1>2, NoRejoin DEF RejoinOps, Inner
  <2>4. Body(s)
    BY <2>1, <1>2 DEF Body, PassOps
  <2> QED BY <2>2, <2>3, <2>4
<1>a. ASSUME NEW b \in BOOLEAN, local' = [local EXCEPT ![p].keep = b]
      PROVE  /\ local' \in [Coroutines -> Frames] /\ local'[p].keep = b
             /\ local[p].keep \in BOOLEAN /\ Apart(p)
  <2>1. /\ local' \in [Coroutines -> Frames] /\ local'[p].keep = b
        /\ \A c \in Coroutines : c # p => local'[c].keep = local[c].keep
        /\ \A c \in Coroutines : local'[c].same = local[c].same
        /\ local[p].keep \in BOOLEAN
    BY <1>0, <1>a, LocalKeep
  <2>2. local'[p].same => entry # NoOne
    BY <1>0, <2>1 DEF Locals
  <2> QED BY <2>1, <2>2, <1>5 DEF Apart
<1>b. life' = life /\ (Wanted' <=> Wanted) /\ Consistent' /\ instance' = instance
      /\ entry' = entry /\ pass' = pass /\ pending' = pending /\ history' = history
  BY <1>4, <1>5 DEF registry, capture, Wanted, Consistent
<1>10. PICK n : n = Tail(Tail(s))
  OBVIOUS
<1>11. /\ Plan(n) /\ Kept(Tail(s)) = n /\ Tail(s) # <<>> /\ Head(Tail(s)) = "release"
       /\ n # <<>> => n[1] \notin Inner \cup {"departed", "register"}
       /\ ~BareList(n)
  BY <1>2, <1>9, <1>10, LeavingRest
<1>12. /\ Body(n) /\ "outputs" \in Range(n) /\ n # <<>> /\ n[1] = "outputs"
       /\ AliveList(n) => AliveList(s)
  BY <1>2, <1>9, <1>10, LeavingFacts
<1>13. \A b \in BOOLEAN : LaterList(s, b) => LaterList(n, b) \/ (InSection(n) /\ NowList(n))
  BY <1>2, <1>9, <1>10, LeavingPromise
<1>14. ~Leading(n) /\ MonitorList(n) /\ Watches(p, n)
  BY <1>9, <1>12 DEF Leading, StopOps, MonitorList, Watches
<1>15. CASE Goes(p, Tail(s)) /\ instance /\ local' = [local EXCEPT ![p].keep = TRUE]
  <2>1. /\ local' \in [Coroutines -> Frames] /\ local'[p].keep = TRUE
        /\ local[p].keep \in BOOLEAN /\ Apart(p)
    BY <1>15, <1>a
  <2>2. todo' \in Todos /\ lock' \in Q
    BY <1>0, <1>3, <1>9, <1>11, <1>15, LeavesStep
  <2>3. TypeInv'
    BY <1>0, <1>5, <2>1, <2>2 DEF TypeInv, registry, capture, Todos, Q
  <2>4. LaterList(s, local[p].keep) => Fixed(p, n, local'[p].keep)
    <3>1. PICK k \in BOOLEAN : k = local'[p].keep
      BY <2>1
    <3>2. LaterList(s, local[p].keep) => LaterList(s, k)
      BY <1>2 DEF LaterList
    <3>3. LaterList(s, k) => Fixed(p, n, k)
      BY <1>9, <1>13 DEF Fixed
    <3> QED BY <3>1, <3>2, <3>3
  <2>5. Body(n) <=> Body(s)
    BY <1>9, <1>12
  <2>6. ~(~instance' /\ ~history'.failed) /\ instance'
    BY <1>b, <1>15
  <2> QED BY <1>1, <1>3, <1>9, <1>b, <1>11, <1>12, <1>14, <1>15, <2>1, <2>3, <2>4, <2>5, <2>6, LeavesInv
<1>16. CASE Goes(p, Tail(s)) /\ ~instance /\ local' = [local EXCEPT ![p].keep = FALSE]
  <2>1. /\ local' \in [Coroutines -> Frames] /\ local'[p].keep = FALSE
        /\ local[p].keep \in BOOLEAN /\ Apart(p)
    BY <1>16, <1>a
  <2>2. todo' \in Todos /\ lock' \in Q
    BY <1>0, <1>3, <1>9, <1>11, <1>16, LeavesStep
  <2>3. TypeInv'
    BY <1>0, <1>5, <2>1, <2>2 DEF TypeInv, registry, capture, Todos, Q
  <2>4. LaterList(n, local'[p].keep)
    BY <1>12, <2>1 DEF LaterList
  <2>a. Fixed(p, n, local'[p].keep)
    BY <1>9, <2>4 DEF Fixed
  <2>5. Body(n) <=> Body(s)
    BY <1>9, <1>12
  <2>6. ~instance' /\ history'.failed = history.failed
    BY <1>b, <1>16
  <2> QED BY <1>1, <1>3, <1>9, <1>b, <1>11, <1>12, <1>14, <1>16, <2>1, <2>3, <2>4, <2>a, <2>5, <2>6, LeavesInv
<1>17. CASE Goes(p, <<"stop">> \o Tail(s)) /\ instance /\ local' = [local EXCEPT ![p].keep = FALSE]
  <2>1. /\ local' \in [Coroutines -> Frames] /\ local'[p].keep = FALSE
        /\ local[p].keep \in BOOLEAN /\ Apart(p)
    BY <1>17, <1>a
  <2>2. PICK m : m = <<"stop">> \o Tail(s) /\ m = Under("stop", s)
    BY DEF Under
  <2>3. Plan(m) /\ m # <<>> /\ m[1] = "stop"
    <3>1. m = Under("stop", s)
      BY <2>2
    <3> QED BY ONLY <3>1, <1>2, Heading DEF Under
  <2>4. Body(m) /\ "outputs" \in Range(m) /\ LaterList(m, FALSE) /\ ~BareList(m) /\ MonitorList(m) /\ AliveList(s)
    <3>1. m = Under("stop", s)
      BY <2>2
    <3> QED BY ONLY <3>1, <1>2, JudgedFacts
  <2>5. InSection(m) /\ Watches(p, m)
    BY <1>9, <2>3, <2>4 DEF InSection, Sections, Locking, Watches
  <2>6. Goes(p, m)
    BY <1>17, <2>2
  <2>7. /\ todo' \in Todos /\ lock' = lock
    BY <1>0, <1>1, <1>3, <1>9, <2>3, <2>5, <2>6, WithinStep
  <2>8. TypeInv'
    BY <1>0, <1>5, <2>1, <2>7 DEF TypeInv, registry, capture, Todos
  <2>9. LaterList(m, local'[p].keep) /\ ~local'[p].keep
    BY <2>1, <2>4 DEF LaterList
  <2>10. m[1] \notin {"stop_bp", "stop_pop", "stop_native", "start_native"}
    BY <2>3
  <2>11. Wanted' => Wanted /\ (entry.told => entry'.told)
    BY <1>b
  <2> QED BY <1>1, <1>3, <1>9, <1>b, <2>1, <2>3, <2>4, <2>5, <2>6, <2>8, <2>9, <2>10, <2>11, WithinInv
<1> QED BY <1>2, <1>15, <1>16, <1>17 DEF Judge

-----------------------------------------------------------------------------
(* Backpressure tasks *)

\* What comes after an operation that takes no lock.
LEMMA Nexts ==
  ASSUME NEW s, Plan(s), s # <<>>, s[1] \notin Sections, NEW n, n = Tail(s)
  PROVE  n # <<>> => n[1] \in {"unguard", "followed", "guard", "bp_off", "restart",
                               "unconsumed", "last", "reconfigure"}
<1>1. s \in Seq(Ops) /\ Sound(s)
  BY DEF Plan
<1>2. Len(s) \in Nat /\ Len(s) >= 1 /\ 1 \in 1 .. Len(s) /\ s[1] \in Ops
  BY <1>1, Listed
<1>3. n \in Seq(Ops) /\ Len(n) = Len(s) - 1 /\ \A i \in 1 .. (Len(s) - 1) : n[i] = s[i + 1]
  BY <1>1, Shifted
<1>4. s[1] \notin {"release"} \cup Sequels
  BY <1>1, <1>2 DEF Sound
<1>5. SUFFICES ASSUME n # <<>>
               PROVE  n[1] \in {"unguard", "followed", "guard", "bp_off", "restart",
                                "unconsumed", "last", "reconfigure"}
  OBVIOUS
<1>6. Len(s) >= 2 /\ n[1] = s[2]
  <2>1. Len(n) >= 1
    BY <1>3, <1>5, Listed
  <2>2. Len(s) >= 2 /\ 1 \in 1 .. (Len(s) - 1) /\ 1 + 1 = 2
    BY <2>1, <1>2, <1>3
  <2> QED BY <2>2, <1>3
<1>7. CASE s[1] \in {"pass", "outputs", "start_loop", "passed", "followed", "reconfigure"}
  <2>1. n \in Ending
    BY <1>7, EndingFacts
  <2>2. <<"guard", "bp_off", "unguard">>[1] = "guard"
    OBVIOUS
  <2>3. <<"unconsumed", "last">>[1] = "unconsumed"
    OBVIOUS
  <2> QED BY ONLY <2>1, <2>2, <2>3, <1>5 DEF Ending
<1>8. CASE s[1] = "guard"
  <2>1. 1 + 1 = 2
    OBVIOUS
  <2> QED BY ONLY <1>1, <1>2, <1>6, <1>8, <2>1 DEF Sound
<1>9. CASE s[1] \in {"restart", "bp_off"}
  <2>1. 1 + 1 = 2
    OBVIOUS
  <2> QED BY ONLY <1>1, <1>2, <1>6, <1>9, <2>1 DEF Sound
<1>10. CASE s[1] = "unguard"
  <2>1. 1 + 1 = 2
    OBVIOUS
  <2> QED BY ONLY <1>1, <1>2, <1>6, <1>10, <2>1 DEF Sound
<1>11. CASE s[1] = "unconsumed"
  <2>1. 1 + 1 = 2
    OBVIOUS
  <2> QED BY ONLY <1>1, <1>2, <1>6, <1>11, <2>1 DEF Sound
<1>12. CASE s[1] \in {"last", "resized", "departed", "teardown", "rejoin", "rejoin_told", "register"}
  BY ONLY <1>1, <1>2, <1>6, <1>12 DEF Sound
<1>13. CASE s[1] \in {"bp", "bp_again"}
  <2>1. 1 + 1 = 2
    OBVIOUS
  <2> QED BY ONLY <1>1, <1>2, <1>6, <1>13, <2>1 DEF Sound
<1>14. Ops \subseteq Sections \cup {"release"} \cup Sequels
         \cup {"pass", "outputs", "start_loop", "passed", "followed", "reconfigure"}
         \cup {"guard", "restart", "bp_off", "unguard", "unconsumed"}
         \cup {"last", "resized", "departed", "teardown", "rejoin", "rejoin_told", "register"}
         \cup {"bp", "bp_again"}
  BY DEF Ops, Sections, Locking, Inner, Later, TailOps, Firsts, Sequels
<1>15. s[1] \in {"pass", "outputs", "start_loop", "passed", "followed", "reconfigure"}
         \cup {"guard", "restart", "bp_off", "unguard", "unconsumed"}
         \cup {"last", "resized", "departed", "teardown", "rejoin", "rejoin_told", "register"}
         \cup {"bp", "bp_again"}
  <2>1. s[1] \notin Sections
    OBVIOUS
  <2> QED BY ONLY <2>1, <1>2, <1>4, <1>14
<1> QED BY <1>7, <1>8, <1>9, <1>10, <1>11, <1>12, <1>13, <1>15

\* The list of a coroutine that drops an operation outside any section.
LEMMA DropFacts ==
  ASSUME NEW s, Plan(s), s # <<>>, s[1] \notin Sections, NEW n, n = Tail(s)
  PROVE  /\ Plan(n) /\ n \in Seq(Ops) /\ Kept(n) = n
         /\ n # <<>> => n[1] \notin Sections \cup {"departed", "register", "bp", "start_loop", "stop_pop"}
         /\ ~InSection(n) /\ ~Leading(n) /\ ~BareList(n) /\ ~NowList(n)
         /\ Rejoining(s) => Rejoining(n)
<1>1. /\ Plan(n) /\ Kept(n) = n
      /\ n # <<>> => n[1] \notin Sections
      /\ "start" \notin Range(s)
  BY Dropping
<1>2. n # <<>> => n[1] \in {"unguard", "followed", "guard", "bp_off", "restart",
                            "unconsumed", "last", "reconfigure"}
  BY Nexts
<1>3. n \in Seq(Ops) /\ (n # <<>> <=> Len(n) >= 1) /\ Len(n) \in Nat
  BY <1>1, Listed DEF Plan
<1>4. Range(s) = {s[1]} \cup Range(n)
  BY Heads DEF Plan
<1>5. ~InSection(n)
  BY <1>1 DEF InSection
<1>6. ~Leading(n) /\ ~BareList(n)
  BY <1>2, <1>3 DEF Leading, BareList, StopOps
<1>7. ~NowList(n)
  <2>1. Len(n) >= 2 => n[2] \in Range(n)
    <3>1. Len(n) >= 2 => 2 \in 1 .. Len(n)
      BY <1>3
    <3> QED BY <3>1, <1>3, Listed
  <2> QED BY ONLY <1>1, <1>2, <1>3, <1>4, <2>1 DEF NowList
<1>8. Rejoining(s) => Rejoining(n)
  BY <1>2, <1>4 DEF Rejoining, StopOps
<1> QED BY <1>1, <1>2, <1>3, <1>5, <1>6, <1>7, <1>8

\* The pass lives in its own body only.
LEMMA AloneAlive ==
  ASSUME TypeInv, PassInv, NEW p \in Coroutines, pass = p \/ ~PassAlive, NEW n \in Seq(Ops),
         todo' = Put(todo, p, n), ~AliveList(n)
  PROVE  ~PassAlive'
<1>1. todo \in Todos
  BY Typed
<1>2. /\ todo'[p] = n
      /\ \A c \in Coroutines : c # p => todo'[c] = todo[c]
  BY <1>1, PutAt
<1>3. \A c \in Coroutines : AliveList(todo[c]) => Body(todo[c])
  BY DEF AliveList, Body, PassOps
<1> QED BY <1>2, <1>3 DEF PassAlive, PassInv

\* Where a coroutine goes on with a sound list, the list becomes its own.
LEMMA GoesPut ==
  ASSUME NEW p \in Coroutines, NEW n, Plan(n), Goes(p, n)
  PROVE  todo' = Put(todo, p, n)
<1>1. n \in Seq(Ops) /\ ~(n # <<>> /\ Head(n) = "release")
  BY PlanHead
<1> QED BY <1>1, GoesTo

\* A coroutine goes on behind an operation that takes no lock and is not of a pass.
LEMMA OutsideDrop ==
  ASSUME CaptureInv, RestTyped', NEW p \in Coroutines, NEW s, s = todo[p], s # <<>>, s[1] \notin Sections,
         s[1] \notin PassOps \cup {"guard", "unguard", "reconfigure"},
         Goes(p, Tail(s)), Apart(p), life' = life, pass' = pass, pending' = pending,
         local'[p].keep = local[p].keep,
         instance' = instance, native' = native, group' = group, late' = late,
         history'.orphaned = history.orphaned, history'.failed = history.failed,
         history'.cancelled = history.cancelled, history'.overtaken = history.overtaken,
         Wanted' => Wanted /\ (entry.told => entry'.told),
         Watches(p, s) => Watches(p, Tail(s)) \/ ~Loose',
         Loose' => Loose \/ Watches(p, Tail(s)) \/ ~Wants
  PROVE  CaptureInv'
<1>0. TypeInv /\ Shapes /\ LockInv /\ PassInv
  BY CaptureInvParts
<1>1. Plan(s) /\ (p \in Rejoins => Rejoining(s))
  BY <1>0 DEF Shapes, Rejoins
<1>2. PICK n : n = Tail(s)
  OBVIOUS
<1>3. /\ Plan(n) /\ n \in Seq(Ops)
      /\ n # <<>> => n[1] \notin Inner \cup {"departed", "register"}
      /\ ~InSection(n) /\ ~Leading(n) /\ ~BareList(n)
      /\ Rejoining(s) => Rejoining(n)
  BY <1>1, <1>2, DropFacts DEF Sections
<1>4. /\ Body(n) <=> Body(s)
      /\ AliveList(n) => AliveList(s)
      /\ \A b \in BOOLEAN : LaterList(s, b) => LaterList(n, b)
  <2>1. s[1] \notin {"pass", "start_loop", "outputs"}
    BY DEF PassOps
  <2> QED BY <1>1, <1>2, <2>1, DroppingFacts
<1>5. local[p].keep \in BOOLEAN
  BY <1>0 DEF TypeInv, Frames
<1>6. Goes(p, n) /\ todo' = Put(todo, p, n)
  BY <1>2, <1>3, GoesPut
<1>7. Wants' => Wants
  BY <1>0, <1>4, <1>6, AliveStep, WantsStep
<1>8. p \notin Rejoins /\ LaterList(s, local[p].keep) => Fixed(p, n, local'[p].keep)
  BY <1>4, <1>5 DEF Fixed
<1>9. (pass' = p <=> Body(n)) /\ \A c \in Coroutines : c # p => (pass' = c <=> pass = c)
  BY <1>0, <1>4 DEF PassInv
<1>10. Coming' <=> Coming
  BY DEF Coming
<1>11. ~InSection(s)
  BY DEF InSection
<1>12. (Loose' => Loose \/ Watches(p, n)) /\ (Watches(p, s) => Watches(p, n) \/ ~Loose')
  BY <1>2, <1>7 DEF Loose
<1> QED BY <1>1, <1>3, <1>6, <1>7, <1>8, <1>9, <1>10, <1>11, <1>12, OutsideInv

\* What stays of the history.
LEMMA ThrottleNoted ==
  ASSUME TypeInv, NEW b \in BOOLEAN, history' = [history EXCEPT !.unthrottled = b]
  PROVE  /\ history' \in Outcomes /\ history'.unthrottled = b
         /\ history'.orphaned = history.orphaned /\ history'.failed = history.failed
         /\ history'.cancelled = history.cancelled /\ history'.overtaken = history.overtaken
<1>1. history \in Outcomes
  BY DEF TypeInv
<1> QED BY ONLY <1>1, b \in BOOLEAN, history' = [history EXCEPT !.unthrottled = b] DEF Outcomes

\* A history that stays.
LEMMA HistorySame ==
  ASSUME TypeInv, history' = history
  PROVE  /\ history' \in Outcomes /\ history'.unthrottled = history.unthrottled
         /\ history'.orphaned = history.orphaned /\ history'.failed = history.failed
         /\ history'.cancelled = history.cancelled /\ history'.overtaken = history.overtaken
  BY DEF TypeInv

\* Local variables and an entry that stay.
LEMMA LocalApart ==
  ASSUME TypeInv, Locals, NEW p \in Coroutines, local' = local, entry' = NoOne => entry = NoOne
  PROVE  /\ Apart(p) /\ local' \in [Coroutines -> Frames] /\ local'[p].keep = local[p].keep
         /\ local[p].keep \in BOOLEAN
<1>1. /\ local' \in [Coroutines -> Frames]
      /\ \A c \in Coroutines : local'[c].keep = local[c].keep /\ local'[c].same = local[c].same
      /\ \A c \in Coroutines : local[c].keep \in BOOLEAN
  BY LocalNone
<1> QED BY <1>1 DEF Apart, Locals

\* A backpressure task that is started keeps the invariant.
LEMMA StartMonitorInv ==
  ASSUME CaptureInv, NEW p \in Coroutines, StartMonitor(p)
  PROVE  CaptureInv'
<1>0. TypeInv /\ Tables /\ Shapes /\ LockInv /\ Locals /\ PassInv
  BY CaptureInvParts
<1>1. PICK s : s = todo[p]
  OBVIOUS
<1>2. Plan(s) /\ s # <<>> /\ s[1] = "bp" /\ Rest(p) = Tail(s) /\ (p \in Rejoins => Rejoining(s))
  BY <1>0, <1>1, AtHead DEF StartMonitor
<1>3. /\ registry' = registry /\ capture' = capture /\ pass' = pass /\ pending' = pending
      /\ late' = late /\ events' = events
  BY DEF StartMonitor
<1>4. s[1] \notin Sections /\ s[1] \notin PassOps \cup {"guard", "unguard", "reconfigure"}
  BY <1>2 DEF Sections, Locking, Inner, PassOps
<1>5. CASE entry # NoOne /\ entry.task
  <2>1. /\ Goes(p, <<"bp_again">> \o Tail(s)) /\ local' = [local EXCEPT ![p].same = TRUE]
        /\ entry' = entry /\ history' = history
    BY <1>2, <1>5 DEF StartMonitor
  <2>2. PICK n : n = <<"bp_again">> \o Tail(s) /\ n = Under("bp_again", s)
    BY DEF Under
  <2>3. Plan(n) /\ n # <<>> /\ n[1] = "bp_again" /\ n \in Seq(Ops)
    <3>1. n = Under("bp_again", s)
      BY <2>2
    <3> QED BY ONLY <3>1, <1>2, Heading DEF Under, Plan
  <2>4. /\ Body(n) <=> Body(s)
        /\ AliveList(n) <=> AliveList(s)
        /\ \A b \in BOOLEAN : LaterList(s, b) => LaterList(n, b)
        /\ Range(s) \subseteq RejoinOps => Range(n) \subseteq RejoinOps
    <3>1. n = Under("bp_again", s)
      BY <2>2
    <3> QED BY ONLY <3>1, <1>2, OnwardFacts
  <2>5. /\ n[1] \notin Inner \cup {"departed", "register"} /\ ~InSection(n) /\ ~Leading(n) /\ ~BareList(n)
        /\ Rejoining(s) => Rejoining(n)
    BY <2>3, <2>4 DEF Inner, InSection, Sections, Locking, Leading, StopOps, BareList, Rejoining
  <2>6. PICK b \in BOOLEAN : b = TRUE
    OBVIOUS
  <2>7. /\ local' \in [Coroutines -> Frames]
        /\ \A c \in Coroutines : local'[c].keep = local[c].keep
        /\ \A c \in Coroutines : c # p => local'[c].same = local[c].same
        /\ local[p].keep \in BOOLEAN
    BY <1>0, <2>1, <2>6, LocalSame
  <2>8. Apart(p) /\ RestTyped'
    BY <1>0, <1>3, <1>5, <2>1, <2>7 DEF Apart, RestTyped, TypeInv, registry, capture
  <2>9. Goes(p, n) /\ todo' = Put(todo, p, n)
    BY <2>1, <2>2, <2>3, GoesPut
  <2>10. Wants' => Wants
    BY <1>0, <1>1, <2>1, <2>4, <2>9, AliveStep, WantsStep DEF Wanted
  <2>11. ~Loose'
    BY <1>5, <2>1 DEF Loose
  <2>12. p \notin Rejoins /\ LaterList(s, local[p].keep) => Fixed(p, n, local'[p].keep)
    BY <2>4, <2>7 DEF Fixed
  <2>13. (pass' = p <=> Body(n)) /\ \A c \in Coroutines : c # p => (pass' = c <=> pass = c)
    BY <1>0, <1>1, <1>3, <2>4 DEF PassInv
  <2>14. (Coming' <=> Coming) /\ life' = life /\ instance' = instance /\ native' = native /\ group' = group
    BY <1>3 DEF Coming, registry, capture
  <2>15. ~InSection(s) /\ history' = history
    BY <1>4, <2>1 DEF InSection
  <2> QED BY <1>1, <1>2, <1>3, <2>3, <2>5, <2>8, <2>9, <2>10, <2>11, <2>12, <2>13, <2>14, <2>15, OutsideInv
<1>6. CASE ~(entry # NoOne /\ entry.task)
  <2>1. /\ entry' = IF entry = NoOne THEN NoOne ELSE [entry EXCEPT !.task = TRUE]
        /\ history' = [history EXCEPT !.unthrottled = history.unthrottled /\ entry = NoOne]
        /\ Goes(p, Tail(s)) /\ local' = local
    BY <1>2, <1>6 DEF StartMonitor
  <2>2. PICK b \in BOOLEAN : b = (history.unthrottled /\ entry = NoOne)
    OBVIOUS
  <2>3. /\ history' \in Outcomes /\ history'.unthrottled = b
        /\ history'.orphaned = history.orphaned /\ history'.failed = history.failed
        /\ history'.cancelled = history.cancelled /\ history'.overtaken = history.overtaken
    BY <1>0, <2>1, <2>2, ThrottleNoted
  <2>4. /\ entry' \in Entries \cup {NoOne} /\ (entry' = NoOne <=> entry = NoOne)
        /\ Wanted' => Wanted /\ (entry.told => entry'.told) /\ entry'.task
    <3>1. CASE entry = NoOne
      BY <2>1, <3>1 DEF Wanted
    <3>2. CASE entry # NoOne
      <4>1. entry \in Entries /\ entry' = [entry EXCEPT !.task = TRUE]
        BY <1>0, <2>1, <3>2 DEF TypeInv
      <4>2. entry' \in Entries /\ entry' # NoOne /\ entry'.task = TRUE /\ entry'.active = entry.active /\ entry'.told = entry.told
        BY <4>1, EntryTask
      <4> QED BY <3>2, <4>2 DEF Wanted
    <3> QED BY <3>1, <3>2
  <2>5. Apart(p) /\ local'[p].keep = local[p].keep /\ local' \in [Coroutines -> Frames]
    BY <1>0, <2>1, <2>4, LocalApart
  <2>6. RestTyped'
    BY <1>0, <1>3, <2>3, <2>4, <2>5 DEF RestTyped, TypeInv, registry, capture
  <2>7. ~Loose'
    BY <2>4 DEF Loose, Wants
  <2>8. life' = life /\ instance' = instance /\ native' = native /\ group' = group
    BY <1>3 DEF registry, capture
  <2> QED BY <1>1, <1>2, <1>3, <1>4, <2>1, <2>3, <2>4, <2>5, <2>6, <2>7, <2>8, OutsideDrop
<1> QED BY <1>5, <1>6

\* So does one that is started again.
LEMMA RestartMonitorInv ==
  ASSUME CaptureInv, NEW p \in Coroutines, RestartMonitor(p)
  PROVE  CaptureInv'
<1>0. TypeInv /\ Tables /\ Shapes /\ LockInv /\ Locals /\ PassInv
  BY CaptureInvParts
<1>1. PICK s : s = todo[p]
  OBVIOUS
<1>2. Plan(s) /\ s # <<>> /\ s[1] = "bp_again" /\ Rest(p) = Tail(s) /\ (p \in Rejoins => Rejoining(s))
  BY <1>0, <1>1, AtHead DEF RestartMonitor
<1>3. /\ registry' = registry /\ capture' = capture /\ pass' = pass /\ pending' = pending
      /\ late' = late /\ events' = events
      /\ entry' = IF local[p].same THEN [entry EXCEPT !.task = TRUE] ELSE entry
      /\ local' = [local EXCEPT ![p].same = FALSE]
      /\ history' = [history EXCEPT !.unthrottled = history.unthrottled /\ ~local[p].same]
      /\ Goes(p, Tail(s))
  BY <1>2 DEF RestartMonitor
<1>4. s[1] \notin Sections /\ s[1] \notin PassOps \cup {"guard", "unguard", "reconfigure"}
  BY <1>2 DEF Sections, Locking, Inner, PassOps
<1>5. PICK b \in BOOLEAN : b = (history.unthrottled /\ ~local[p].same)
  OBVIOUS
<1>6. /\ history' \in Outcomes /\ history'.unthrottled = b
      /\ history'.orphaned = history.orphaned /\ history'.failed = history.failed
      /\ history'.cancelled = history.cancelled /\ history'.overtaken = history.overtaken
  BY <1>0, <1>3, <1>5, ThrottleNoted
<1>7. /\ entry' \in Entries \cup {NoOne} /\ (entry' = NoOne => entry = NoOne)
      /\ (Wanted' => Wanted /\ (entry.told => entry'.told)) /\ (local[p].same => entry'.task)
      /\ ~local[p].same => entry' = entry
  <2>1. CASE ~local[p].same
    BY <1>0, <1>3, <2>1 DEF Wanted, TypeInv
  <2>2. CASE local[p].same
    <3>1. entry \in Entries /\ entry' = [entry EXCEPT !.task = TRUE]
      BY <1>0, <1>3, <2>2 DEF TypeInv, Locals
    <3>2. entry' \in Entries /\ entry' # NoOne /\ entry'.task = TRUE /\ entry'.active = entry.active /\ entry'.told = entry.told
      BY <3>1, EntryTask
    <3> QED BY <2>2, <3>1, <3>2, CaptureAssumption DEF Wanted
  <2> QED BY <2>1, <2>2
<1>8. /\ local' \in [Coroutines -> Frames]
      /\ \A c \in Coroutines : local'[c].keep = local[c].keep
      /\ \A c \in Coroutines : c # p => local'[c].same = local[c].same
      /\ ~local'[p].same
  <2>1. PICK f \in BOOLEAN : f = FALSE
    OBVIOUS
  <2> QED BY <1>0, <1>3, <2>1, LocalSame
<1>9. Apart(p) /\ RestTyped'
  BY <1>0, <1>3, <1>6, <1>7, <1>8 DEF Apart, RestTyped, TypeInv, registry, capture
<1>10. Loose' => Loose \/ ~Wants
  <2>1. SUFFICES ASSUME Loose', Wants PROVE Loose
    OBVIOUS
  <2>2. instance' /\ ~history'.failed /\ ~history'.unthrottled /\ ~entry'.task
    BY <2>1 DEF Loose
  <2>3. ~local[p].same /\ entry' = entry
    BY <2>2, <1>7, <1>8 DEF Wants
  <2>4. ~history.unthrottled
    BY <2>2, <2>3, <1>5, <1>6
  <2>5. instance' = instance
    BY <1>3 DEF capture
  <2> QED BY <2>1, <2>2, <2>3, <2>4, <2>5, <1>6 DEF Loose
<1>11. Watches(p, s) => Watches(p, Tail(s))
  <2>1. MonitorList(s) => MonitorList(Tail(s))
    BY <1>2, <1>4, DroppingFacts
  <2> QED BY <2>1, <1>2 DEF Watches
<1>12. life' = life /\ instance' = instance /\ native' = native /\ group' = group
  BY <1>3 DEF registry, capture
<1> QED BY <1>1, <1>2, <1>3, <1>4, <1>6, <1>7, <1>8, <1>9, <1>10, <1>11, <1>12, OutsideDrop

\* So does the shutdown of the monitors.
LEMMA StopMonitorsInv ==
  ASSUME CaptureInv, NEW p \in Coroutines, StopMonitors(p)
  PROVE  CaptureInv'
<1>0. TypeInv /\ Tables /\ Shapes /\ LockInv /\ Locals /\ PassInv
  BY CaptureInvParts
<1>1. PICK s : s = todo[p]
  OBVIOUS
<1>2. Plan(s) /\ s # <<>> /\ s[1] = "bp_off" /\ Rest(p) = Tail(s) /\ (p \in Rejoins => Rejoining(s))
  BY <1>0, <1>1, AtHead DEF StopMonitors
<1>3. /\ registry' = registry /\ capture' = capture /\ pass' = pass /\ pending' = pending
      /\ local' = local /\ late' = late /\ events' = events /\ Goes(p, Tail(s))
  BY <1>2 DEF StopMonitors
<1>4. s[1] \notin Sections /\ s[1] \notin PassOps \cup {"guard", "unguard", "reconfigure"}
  BY <1>2 DEF Sections, Locking, Inner, PassOps
<1>5. /\ history' \in Outcomes
      /\ history'.orphaned = history.orphaned /\ history'.failed = history.failed
      /\ history'.cancelled = history.cancelled /\ history'.overtaken = history.overtaken
      /\ \/ history'.unthrottled
         \/ entry' = entry /\ history'.unthrottled = history.unthrottled
      /\ entry' \in Entries \cup {NoOne} /\ (entry' = NoOne => entry = NoOne)
      /\ Wanted' => Wanted /\ (entry.told => entry'.told)
  <2>1. CASE entry # NoOne /\ entry.task
    <3>1. /\ entry' = [entry EXCEPT !.task = FALSE]
          /\ history' = [history EXCEPT !.unthrottled = TRUE, !.unreset = Notified]
      BY <2>1 DEF StopMonitors
    <3>2. history \in Outcomes /\ Notified \subseteq Pages /\ entry \in Entries
      BY <1>0, <2>1, NotifiedType DEF TypeInv
    <3>3. /\ history' \in Outcomes /\ history'.unthrottled
          /\ history'.orphaned = history.orphaned /\ history'.failed = history.failed
          /\ history'.cancelled = history.cancelled /\ history'.overtaken = history.overtaken
      BY ONLY <3>1, <3>2 DEF Outcomes
    <3>4. PICK f \in BOOLEAN : f = FALSE
      OBVIOUS
    <3>5. entry' \in Entries /\ entry' # NoOne /\ entry'.active = entry.active /\ entry'.told = entry.told
      BY <3>1, <3>2, <3>4, EntryTask
    <3> QED BY <2>1, <3>3, <3>5 DEF Wanted
  <2>2. CASE ~(entry # NoOne /\ entry.task)
    BY <1>0, <2>2, HistorySame DEF StopMonitors, Wanted, TypeInv
  <2> QED BY <2>1, <2>2
<1>6. Apart(p) /\ local'[p].keep = local[p].keep /\ local' \in [Coroutines -> Frames]
  BY <1>0, <1>3, <1>5, LocalApart
<1>7. RestTyped'
  BY <1>0, <1>3, <1>5, <1>6 DEF RestTyped, TypeInv, registry, capture
<1>8. Loose' => Loose \/ ~Wants
  BY <1>3, <1>5 DEF Loose, capture
<1>9. Watches(p, s) => Watches(p, Tail(s))
  <2>1. MonitorList(s) => MonitorList(Tail(s))
    BY <1>2, <1>4, DroppingFacts
  <2> QED BY <2>1, <1>2 DEF Watches
<1>10. life' = life /\ instance' = instance /\ native' = native /\ group' = group
  BY <1>3 DEF registry, capture
<1> QED BY <1>1, <1>2, <1>3, <1>4, <1>5, <1>6, <1>7, <1>8, <1>9, <1>10, OutsideDrop

\* The end of a rebuild keeps the invariant.
LEMMA ResizedInv ==
  ASSUME CaptureInv, NEW p \in Coroutines, Resized(p)
  PROVE  CaptureInv'
<1>0. TypeInv /\ Tables /\ Shapes /\ LockInv /\ Locals /\ PassInv
  BY CaptureInvParts
<1>1. PICK s : s = todo[p]
  OBVIOUS
<1>2. Plan(s) /\ s # <<>> /\ s[1] = "resized" /\ Rest(p) = Tail(s) /\ (p \in Rejoins => Rejoining(s))
  BY <1>0, <1>1, AtHead DEF Resized
<1>3. /\ registry' = registry /\ entry' = entry /\ capture' = capture /\ pass' = pass /\ pending' = pending
      /\ local' = local /\ late' = late /\ events' = events /\ Goes(p, Tail(s))
      /\ history' = [history EXCEPT !.unthrottled = history.unthrottled \/ (entry # NoOne /\ ~entry.task)]
  BY <1>2 DEF Resized
<1>4. s[1] \notin Sections /\ s[1] \notin PassOps \cup {"guard", "unguard", "reconfigure"}
  BY <1>2 DEF Sections, Locking, Inner, PassOps
<1>5. PICK b \in BOOLEAN : b = (history.unthrottled \/ (entry # NoOne /\ ~entry.task))
  OBVIOUS
<1>6. /\ history' \in Outcomes /\ history'.unthrottled = b
      /\ history'.orphaned = history.orphaned /\ history'.failed = history.failed
      /\ history'.cancelled = history.cancelled /\ history'.overtaken = history.overtaken
  BY <1>0, <1>3, <1>5, ThrottleNoted
<1>7. Apart(p) /\ local'[p].keep = local[p].keep /\ local' \in [Coroutines -> Frames]
  BY <1>0, <1>3, LocalApart
<1>8. RestTyped'
  BY <1>0, <1>3, <1>6, <1>7 DEF RestTyped, TypeInv, registry, capture
<1>9. ~Loose'
  <2>1. Wanted' => entry # NoOne
    BY <1>3 DEF Wanted
  <2> QED BY <2>1, <1>3, <1>5, <1>6 DEF Loose, Wants
<1>10. life' = life /\ instance' = instance /\ native' = native /\ group' = group
  BY <1>3 DEF registry, capture
<1>11. Wanted' => Wanted /\ (entry.told => entry'.told)
  BY <1>3 DEF Wanted
<1> QED BY <1>1, <1>2, <1>3, <1>4, <1>6, <1>7, <1>8, <1>9, <1>10, <1>11, OutsideDrop

-----------------------------------------------------------------------------
(* Passes *)

\* A list that begins with an operation of a pass is its body, and no rejoin's.
LEMMA PassBody ==
  ASSUME NEW s, Plan(s), s # <<>>, s[1] \in PassOps
  PROVE  Body(s) /\ ~Rejoining(s)
<1>1. s[1] \in Range(s)
  BY Heads DEF Plan
<1> QED BY <1>1 DEF Body, PassOps, Rejoining, RejoinOps, Inner

\* A list whose first operation is not one of these leads nothing, stops nothing.
LEMMA Plain ==
  ASSUME NEW n, n # <<>> => n[1] \notin Inner \cup {"stop", "start_loop"}, n \in Seq(Ops)
  PROVE  ~Leading(n) /\ ~BareList(n)
<1>1. Len(n) >= 1 => n # <<>>
  BY Filled
<1> QED BY <1>1 DEF Leading, BareList, StopOps, Inner

\* A call of reconfigure_displays, coalesced or not, keeps it.
LEMMA Reconfigure_DisplaysInv ==
  ASSUME CaptureInv, NEW p \in Coroutines, Reconfigure_Displays(p)
  PROVE  CaptureInv'
<1>0. TypeInv /\ Tables /\ Shapes /\ LockInv /\ Locals /\ PassInv
  BY CaptureInvParts
<1>1. PICK s : s = todo[p]
  OBVIOUS
<1>2. Plan(s) /\ s # <<>> /\ s[1] = "reconfigure" /\ Rest(p) = Tail(s) /\ (p \in Rejoins => Rejoining(s))
  BY <1>0, <1>1, AtHead DEF Reconfigure_Displays
<1>3. UNCHANGED <<registry, entry, capture, local, late, history, events>>
  BY DEF Reconfigure_Displays
<1>4. PICK k : k = Tail(s)
  OBVIOUS
<1>5. /\ k \in Ending /\ Plan(k) /\ ~Body(k) /\ ~MonitorList(k) /\ ~AliveList(k)
      /\ Range(s) = {"reconfigure"} \cup Range(k) /\ Range(k) \subseteq TailOps
  BY <1>2, <1>4, EndingFacts
<1>6. /\ k \in Seq(Ops) /\ ~InSection(k) /\ ~Leading(k) /\ ~BareList(k)
      /\ k # <<>> => k[1] \notin Inner \cup {"departed", "register"}
  <2>1. s[1] \notin Sections
    BY <1>2 DEF Sections, Locking, Inner
  <2> QED BY <1>2, <1>4, <2>1, DropFacts DEF Sections
<1>7. ~Body(s) /\ ~InSection(s) /\ p \notin Rejoins /\ pass # p
  <2>1. ("guard" \in Range(k) <=> "unguard" \in Range(k))
    BY <1>5, EndingType
  <2>2. ~Body(s)
    BY <2>1, <1>5 DEF Body, PassOps, TailOps
  <2>3. ~Rejoining(s)
    <3>1. "reconfigure" \in Range(s)
      BY <1>5
    <3>2. "reconfigure" \notin RejoinOps
      BY DEF RejoinOps, Inner
    <3> QED BY <3>1, <3>2 DEF Rejoining
  <2>4. ~InSection(s)
    BY <1>2 DEF InSection, Sections, Locking, Inner
  <2> QED BY <1>0, <1>1, <1>2, <2>2, <2>3, <2>4 DEF PassInv
<1>8. Apart(p) /\ local'[p].keep = local[p].keep /\ local' \in [Coroutines -> Frames] /\ local[p].keep \in BOOLEAN
  BY <1>0, <1>3, LocalApart
<1>9. /\ life' = life /\ instance' = instance /\ native' = native /\ group' = group /\ history' = history
      /\ (Wanted' <=> Wanted) /\ late' = late /\ entry' = entry
  BY <1>3 DEF registry, capture, Wanted
<1>10. CASE pass # NoOne
  <2>1. pending' = TRUE /\ pass' = pass /\ Goes(p, k)
    BY <1>2, <1>4, <1>10 DEF Reconfigure_Displays
  <2>2. Coming'
    BY <1>10, <2>1 DEF Coming
  <2>3. RestTyped'
    BY <1>0, <1>3, <1>8, <2>1 DEF RestTyped, TypeInv, registry, capture
  <2>4. (pass' = p <=> Body(k)) /\ \A c \in Coroutines : c # p => (pass' = c <=> pass = c)
    BY <1>5, <1>7, <2>1
  <2> QED BY <1>1, <1>2, <1>5, <1>6, <1>7, <1>8, <1>9, <2>1, <2>2, <2>3, <2>4, OutsideInv
<1>11. CASE pass = NoOne
  <2>1. pass' = p /\ pending' = pending /\ Goes(p, <<"pass">> \o k)
    BY <1>2, <1>4, <1>11 DEF Reconfigure_Displays
  <2>2. PICK n : n = <<"pass">> \o k
    OBVIOUS
  <2>3. /\ Plan(n) /\ n # <<>> /\ n[1] = "pass" /\ Body(n) /\ MonitorList(n)
        /\ \A b \in BOOLEAN : LaterList(n, b)
    BY <1>5, <2>2, PassList
  <2>4. n[1] \notin Inner \cup {"departed", "register"} /\ ~Leading(n) /\ ~BareList(n)
    BY <2>3, Plain DEF Inner, Plan
  <2>5. Fixed(p, n, local'[p].keep) /\ Watches(p, n)
    BY <1>7, <1>8, <2>3 DEF Fixed, Watches
  <2>6. RestTyped'
    BY <1>0, <1>3, <1>8, <2>1 DEF RestTyped, TypeInv, registry, capture
  <2>7. (pass' = p <=> Body(n)) /\ \A c \in Coroutines : c # p => (pass' = c <=> pass = c)
    BY <1>11, <2>1, <2>3, HandlerRejoin
  <2> QED BY <1>1, <1>2, <1>7, <1>8, <1>9, <2>1, <2>2, <2>3, <2>4, <2>5, <2>6, <2>7, OutsideInv
<1> QED BY <1>10, <1>11

\* A pass that gives up tells its clients so; it is nobody's promise.
LEMMA AbortInv ==
  ASSUME CaptureInv, NEW p \in Coroutines, NEW s, s = todo[p], s # <<>>, s[1] \in {"pass", "outputs"},
         Abort(p), NEW f, f = local'[p].keep, Apart(p), local' \in [Coroutines -> Frames],
         UNCHANGED <<registry, capture, pass, late, history>>, pending' \in BOOLEAN
  PROVE  CaptureInv'
<1>0. TypeInv /\ Tables /\ Shapes /\ LockInv /\ Locals /\ PassInv
  BY CaptureInvParts
<1>2. Plan(s) /\ Rest(p) = Tail(s) /\ (p \in Rejoins => Rejoining(s))
  BY <1>0 DEF Shapes, Rejoins, Rest
<1>3. Body(s) /\ p \notin Rejoins /\ pass = p
  BY <1>0, <1>2, PassBody DEF PassOps, PassInv
<1>4. PICK k : k = Tail(s)
  OBVIOUS
<1>5. k \in Ending /\ Range(k) \subseteq TailOps
  BY <1>2, <1>4, EndingFacts
<1>6. PICK n : n = <<"passed">> \o k
  OBVIOUS
<1>7. Plan(n) /\ n # <<>> /\ n[1] = "passed" /\ Body(n) /\ ~AliveList(n)
  BY <1>5, <1>6, PassedList
<1>8. n[1] \notin Inner \cup {"departed", "register"} /\ ~Leading(n) /\ ~BareList(n) /\ n \in Seq(Ops)
  BY <1>7, Plain DEF Inner, Plan
<1>9. Goes(p, n) /\ todo' = Put(todo, p, n) /\ events' = events + 1
  BY <1>2, <1>4, <1>6, <1>7, GoesPut DEF Abort
<1>10. ~PassAlive'
  BY <1>0, <1>3, <1>7, <1>8, <1>9, AloneAlive
<1>11. entry' \in Entries \cup {NoOne} /\ ~Wants'
  <2>1. CASE entry = NoOne
    BY <2>1 DEF Abort, Wants, Wanted
  <2>2. CASE entry # NoOne
    <3>1. PICK b \in BOOLEAN : b = TRUE
      OBVIOUS
    <3>2. entry \in Entries /\ entry' = [entry EXCEPT !.told = b]
      BY <1>0, <2>2, <3>1 DEF TypeInv, Abort
    <3>3. entry' \in Entries /\ entry'.told = b
      BY <3>2, EntryTold
    <3> QED BY <1>10, <3>1, <3>3 DEF Wants
  <2> QED BY <2>1, <2>2
<1>12. events' \in Nat
  <2>1. events \in Nat
    BY <1>0 DEF TypeInv
  <2> QED BY <2>1, <1>9
<1>13. RestTyped'
  BY <1>0, <1>11, <1>12 DEF RestTyped, TypeInv, registry, capture
<1>14. (pass' = p <=> Body(n)) /\ \A c \in Coroutines : c # p => (pass' = c <=> pass = c)
  BY <1>3, <1>7
<1>15. ~Loose' /\ ~InSection(s)
  BY <1>11 DEF Loose, InSection, Sections, Locking, Inner
<1>16. life' = life /\ instance' = instance /\ native' = native /\ group' = group /\ history' = history /\ late' = late
  BY DEF registry, capture
<1> QED BY <1>3, <1>7, <1>8, <1>9, <1>11, <1>13, <1>14, <1>15, <1>16, OutsideInv

\* A pass that begins keeps the invariant.
LEMMA BeginPassInv ==
  ASSUME CaptureInv, NEW p \in Coroutines, BeginPass(p)
  PROVE  CaptureInv'
<1>0. TypeInv /\ Tables /\ Shapes /\ LockInv /\ Locals /\ PassInv
  BY CaptureInvParts
<1>1. PICK s : s = todo[p]
  OBVIOUS
<1>2. Plan(s) /\ s # <<>> /\ s[1] = "pass" /\ Rest(p) = Tail(s) /\ (p \in Rejoins => Rejoining(s))
  BY <1>0, <1>1, AtHead DEF BeginPass
<1>3. UNCHANGED <<registry, capture, pass, local, late, history>> /\ pending' = FALSE
  BY DEF BeginPass
<1>4. PICK k : k = Tail(s)
  OBVIOUS
<1>5. k \in Ending /\ Range(k) \subseteq TailOps /\ k \in Seq(Ops)
  BY <1>2, <1>4, EndingFacts DEF Plan
<1>6. p \notin Rejoins /\ pass = p /\ ~InSection(s)
  BY <1>0, <1>1, <1>2, PassBody DEF PassOps, PassInv, InSection, Sections, Locking, Inner
<1>7. /\ life' = life /\ instance' = instance /\ native' = native /\ group' = group /\ history' = history
      /\ late' = late /\ ~Coming'
  BY <1>3 DEF registry, capture, Coming
<1>8. CASE /\ entry = NoOne /\ entry' = entry /\ events' = events
           /\ Goes(p, (IF instance THEN Stop ELSE <<>>) \o <<"passed">> \o Rest(p))
  <2>1. Apart(p) /\ local' \in [Coroutines -> Frames]
    BY <1>0, <1>3, <1>8, LocalApart
  <2>2. RestTyped'
    BY <1>0, <1>3, <1>8, <2>1 DEF RestTyped, TypeInv, registry, capture
  <2>3. ~Wants' /\ ~Loose'
    BY <1>8 DEF Wants, Wanted, Loose
  <2>4. PICK n : n = (IF instance THEN Stop ELSE <<>>) \o <<"passed">> \o Rest(p)
    OBVIOUS
  <2>5. /\ Plan(n) /\ n # <<>> /\ Body(n) /\ n[1] \in {"stop", "passed"}
        /\ Range(n) \subseteq {"stop", "release", "passed"} \cup TailOps
    <3>1. CASE instance
      <4>1. <<"stop", "release">> \o <<"passed">> = <<"stop", "release", "passed">>
        BY Three DEF Ops, Sections, Locking, Later
      <4>2. n = <<"stop", "release", "passed">> \o k
        BY <1>2, <1>4, <2>4, <3>1, <4>1 DEF Stop
      <4> QED BY <4>2, <1>5, StoppedList
    <3>2. CASE ~instance
      <4>1. <<"passed">> \in Seq(Ops)
        BY DEF Ops, Later
      <4>2. <<>> \o <<"passed">> = <<"passed">>
        BY <4>1, Alone
      <4>3. n = <<"passed">> \o k
        BY <1>2, <1>4, <2>4, <3>2, <4>2
      <4> QED BY <4>3, <1>5, PassedList
    <3> QED BY <3>1, <3>2
  <2>6. n[1] \notin Inner \cup {"departed", "register"} /\ ~Leading(n)
    BY <2>5 DEF Inner, Leading, TailOps
  <2>7. Goes(p, n) /\ ((pass' = p <=> Body(n)) /\ \A c \in Coroutines : c # p => (pass' = c <=> pass = c))
    BY <1>3, <1>6, <1>8, <2>4, <2>5
  <2> QED BY <1>1, <1>2, <1>6, <1>7, <2>1, <2>2, <2>3, <2>5, <2>6, <2>7, OutsideInv
<1>9. CASE entry # NoOne /\ Abort(p)
  <2>1. entry' = NoOne => entry = NoOne
    <3>1. PICK b \in BOOLEAN : b = TRUE
      OBVIOUS
    <3>2. entry \in Entries /\ entry' = [entry EXCEPT !.told = b]
      BY <1>0, <1>9, <3>1 DEF TypeInv, Abort
    <3> QED BY <3>2, EntryTold
  <2>2. Apart(p) /\ local' \in [Coroutines -> Frames]
    BY <1>0, <1>3, <2>1, LocalApart
  <2> QED BY <1>1, <1>2, <1>3, <1>9, <2>2, AbortInv
<1>10. CASE /\ entry # NoOne /\ entry' = entry /\ events' = events
            /\ Goes(p, <<"judge", "release", "outputs">> \o Rest(p))
  <2>1. Apart(p) /\ local' \in [Coroutines -> Frames] /\ local'[p].keep \in BOOLEAN
    BY <1>0, <1>3, <1>10, LocalApart
  <2>2. RestTyped'
    BY <1>0, <1>3, <1>10, <2>1 DEF RestTyped, TypeInv, registry, capture
  <2>3. PICK n : n = <<"judge", "release", "outputs">> \o k
    OBVIOUS
  <2>4. Plan(n) /\ n # <<>> /\ n[1] = "judge" /\ Body(n) /\ NowList(n) /\ ~BareList(n) /\ MonitorList(n)
    BY <1>5, <2>3, JudgeList
  <2>5. n[1] \notin Inner \cup {"departed", "register"} /\ ~Leading(n) /\ InSection(n)
    BY <2>4 DEF Inner, Leading, StopOps, InSection, Sections, Locking
  <2>6. Goes(p, n) /\ ((pass' = p <=> Body(n)) /\ \A c \in Coroutines : c # p => (pass' = c <=> pass = c))
    BY <1>2, <1>3, <1>4, <1>6, <1>10, <2>3, <2>4
  <2>7. Fixed(p, n, local'[p].keep) /\ Watches(p, n)
    BY <1>6, <2>4, <2>5 DEF Fixed, Watches
  <2> QED BY <1>1, <1>2, <1>6, <1>7, <2>1, <2>2, <2>4, <2>5, <2>6, <2>7, OutsideInv
<1> QED BY <1>8, <1>9, <1>10 DEF BeginPass

\* What the body of a pass that has a verdict says of the capture it keeps.
LEMMA KeptVerdict ==
  ASSUME NEW s, Plan(s), s # <<>>, s[1] \in {"outputs", "start_loop"}
  PROVE  /\ s[1] = "start_loop" => Leading(s)
         /\ s[1] = "outputs" => ~LaterList(s, TRUE)
         /\ AliveList(s)
<1>1. s \in Seq(Ops) /\ s[1] \in Range(s)
  BY Heads DEF Plan
<1>2. Len(s) \in Nat /\ Len(s) >= 1
  BY <1>1, Listed
<1>3. s[1] \notin Sections
  BY DEF Sections, Locking, Inner
<1>4. "start" \notin Range(s)
  BY <1>3, Dropping
<1>5. Len(s) >= 3 => s[3] \in Range(s)
  <2>1. Len(s) >= 3 => 3 \in 1 .. Len(s)
    BY <1>2
  <2> QED BY <2>1, <1>1, Listed
<1>6. s[1] = "outputs" => Range(s) \cap {"reconfigure", "pass", "start_loop"} = {}
  <2>1. Range(s) = {s[1]} \cup Range(Tail(s)) /\ Range(Tail(s)) \subseteq TailOps
    BY EndingFacts
  <2> QED BY ONLY <2>1 DEF TailOps
<1> QED BY <1>1, <1>2, <1>4, <1>5, <1>6 DEF Leading, LaterList, AliveList

\* One that changes the outputs and is refused keeps it.
LEMMA OutputsInv ==
  ASSUME CaptureInv, NEW p \in Coroutines, Outputs(p)
  PROVE  CaptureInv'
<1>0. TypeInv /\ Tables /\ Shapes /\ LockInv /\ Locals /\ PassInv
  BY CaptureInvParts
<1>1. PICK s : s = todo[p]
  OBVIOUS
<1>2. Plan(s) /\ s # <<>> /\ s[1] = "outputs" /\ Rest(p) = Tail(s) /\ (p \in Rejoins => Rejoining(s))
  BY <1>0, <1>1, AtHead DEF Outputs
<1>3. UNCHANGED <<registry, capture, pass, pending, late, history>> /\ local' = [local EXCEPT ![p].keep = FALSE]
  BY DEF Outputs
<1>4. PICK k : k = Tail(s)
  OBVIOUS
<1>5. k \in Ending /\ Range(k) \subseteq TailOps /\ k \in Seq(Ops)
  BY <1>2, <1>4, EndingFacts DEF Plan
<1>6. p \notin Rejoins /\ pass = p /\ ~InSection(s)
  BY <1>0, <1>1, <1>2, PassBody DEF PassOps, PassInv, InSection, Sections, Locking, Inner
<1>7. /\ life' = life /\ instance' = instance /\ native' = native /\ group' = group /\ history' = history
      /\ late' = late /\ (Coming' <=> Coming)
  BY <1>3 DEF registry, capture, Coming
<1>8. /\ local' \in [Coroutines -> Frames] /\ ~local'[p].keep
      /\ \A c \in Coroutines : c # p => local'[c].keep = local[c].keep
      /\ \A c \in Coroutines : local'[c].same = local[c].same
      /\ local[p].keep \in BOOLEAN
  <2>1. PICK f \in BOOLEAN : f = FALSE
    OBVIOUS
  <2>2. local' = [local EXCEPT ![p].keep = f]
    BY <1>3, <2>1
  <2>3. /\ local' \in [Coroutines -> Frames] /\ local'[p].keep = f
        /\ \A c \in Coroutines : c # p => local'[c].keep = local[c].keep
        /\ \A c \in Coroutines : local'[c].same = local[c].same
        /\ local[p].keep \in BOOLEAN
    BY <1>0, <2>2, LocalKeep
  <2> QED BY <2>1, <2>3
<1>9. local'[p].keep \in BOOLEAN
  BY <1>8 DEF Frames
<1>10. CASE /\ local[p].keep /\ instance /\ entry' = entry /\ events' = events
            /\ Goes(p, Stop \o <<"start_loop">> \o Rest(p))
  <2>1. Apart(p) /\ RestTyped'
    BY <1>0, <1>3, <1>8, <1>10 DEF Apart, Locals, RestTyped, TypeInv, registry, capture
  <2>2. PICK n : n = <<"stop", "release", "start_loop">> \o k
    OBVIOUS
  <2>3. /\ Plan(n) /\ n # <<>> /\ n[1] = "stop" /\ Body(n) /\ ~BareList(n) /\ MonitorList(n)
        /\ \A b \in BOOLEAN : LaterList(n, b)
    BY <1>5, <2>2, LoopList
  <2>4. <<"stop", "release">> \o <<"start_loop">> = <<"stop", "release", "start_loop">>
    BY Three DEF Ops, Sections, Locking, Later
  <2>5. Goes(p, n)
    BY <1>2, <1>4, <1>10, <2>2, <2>4 DEF Stop
  <2>6. (pass' = p <=> Body(n)) /\ \A c \in Coroutines : c # p => (pass' = c <=> pass = c)
    BY <1>3, <1>6, <2>3
  <2>7. n[1] \notin Inner \cup {"departed", "register"}
    BY <2>3 DEF Inner
  <2>8. Fixed(p, n, local'[p].keep) /\ Watches(p, n)
    BY <1>6, <1>9, <2>3 DEF Fixed, Watches
  <2> QED BY <1>1, <1>2, <1>6, <1>7, <1>8, <2>1, <2>3, <2>5, <2>6, <2>7, <2>8, OutsideInv
<1>11. CASE /\ local[p].keep /\ ~instance /\ entry' = entry /\ events' = events
            /\ Goes(p, <<"passed">> \o Rest(p))
  <2>1. Apart(p) /\ RestTyped'
    BY <1>0, <1>3, <1>8, <1>11 DEF Apart, Locals, RestTyped, TypeInv, registry, capture
  <2>2. PICK n : n = <<"passed">> \o k
    OBVIOUS
  <2>3. Plan(n) /\ n # <<>> /\ n[1] = "passed" /\ Body(n) /\ ~AliveList(n)
    BY <1>5, <2>2, PassedList
  <2>4. n[1] \notin Inner \cup {"departed", "register"} /\ ~Leading(n) /\ ~BareList(n)
    BY <2>3, Plain DEF Inner, Plan
  <2>5. Goes(p, n) /\ todo' = Put(todo, p, n)
    BY <1>2, <1>4, <1>11, <2>2, <2>3, GoesPut
  <2>6. (pass' = p <=> Body(n)) /\ \A c \in Coroutines : c # p => (pass' = c <=> pass = c)
    BY <1>3, <1>6, <2>3
  <2>7. ~LaterList(s, local[p].keep)
    <3>1. local[p].keep = TRUE
      BY <1>8, <1>11
    <3> QED BY <3>1, <1>2, KeptVerdict
  <2>8. Wants' => Wants
    BY <1>0, <1>11, <2>3, <2>5, AliveStep, WantsStep DEF Wanted
  <2>9. ~Loose'
    BY <1>7, <1>11 DEF Loose
  <2> QED BY <1>1, <1>2, <1>6, <1>7, <1>8, <2>1, <2>3, <2>4, <2>5, <2>6, <2>7, <2>8, <2>9, OutsideInv
       DEF Coming
<1>12. CASE Abort(p)
  <2>1. entry' = NoOne => entry = NoOne
    <3>1. CASE entry # NoOne
      <4>1. PICK b \in BOOLEAN : b = TRUE
        OBVIOUS
      <4>2. entry \in Entries /\ entry' = [entry EXCEPT !.told = b]
        BY <1>0, <1>12, <3>1, <4>1 DEF TypeInv, Abort
      <4> QED BY <4>2, EntryTold
    <3> QED BY <3>1
  <2>2. Apart(p)
    BY <1>0, <1>8, <2>1 DEF Apart, Locals
  <2>3. pending' \in BOOLEAN
    BY <1>0, <1>3 DEF TypeInv
  <2> QED BY <1>1, <1>2, <1>3, <1>8, <1>12, <2>2, <2>3, AbortInv
<1> QED BY <1>10, <1>11, <1>12 DEF Outputs

\* One that starts the capture, or lets it follow, keeps it.
LEMMA StartLoopInv ==
  ASSUME CaptureInv, NEW p \in Coroutines, StartLoop(p)
  PROVE  CaptureInv'
<1>0. TypeInv /\ Tables /\ Shapes /\ LockInv /\ Locals /\ PassInv
  BY CaptureInvParts
<1>1. PICK s : s = todo[p]
  OBVIOUS
<1>2. Plan(s) /\ s # <<>> /\ s[1] \in {"outputs", "start_loop"} /\ Rest(p) = Tail(s) /\ (p \in Rejoins => Rejoining(s))
  BY <1>0, <1>1, AtHead DEF StartLoop
<1>3. /\ UNCHANGED <<registry, entry, capture, pass, pending, late, history, events>>
      /\ local' = [local EXCEPT ![p].keep = FALSE]
  BY DEF StartLoop
<1>4. PICK k : k = Tail(s)
  OBVIOUS
<1>5. k \in Ending /\ Range(k) \subseteq TailOps /\ k \in Seq(Ops)
  BY <1>2, <1>4, EndingFacts DEF Plan
<1>6. p \notin Rejoins /\ pass = p /\ ~InSection(s)
  BY <1>0, <1>1, <1>2, PassBody DEF PassOps, PassInv, InSection, Sections, Locking, Inner
<1>7. /\ life' = life /\ instance' = instance /\ native' = native /\ group' = group /\ history' = history
      /\ late' = late /\ (Coming' <=> Coming) /\ (Wanted' <=> Wanted) /\ entry' = entry
  BY <1>3 DEF registry, capture, Coming, Wanted
<1>8. /\ local' \in [Coroutines -> Frames] /\ ~local'[p].keep
      /\ \A c \in Coroutines : c # p => local'[c].keep = local[c].keep
      /\ \A c \in Coroutines : local'[c].same = local[c].same
      /\ local[p].keep \in BOOLEAN
  <2>1. PICK f \in BOOLEAN : f = FALSE
    OBVIOUS
  <2>2. local' = [local EXCEPT ![p].keep = f]
    BY <1>3, <2>1
  <2>3. /\ local' \in [Coroutines -> Frames] /\ local'[p].keep = f
        /\ \A c \in Coroutines : c # p => local'[c].keep = local[c].keep
        /\ \A c \in Coroutines : local'[c].same = local[c].same
        /\ local[p].keep \in BOOLEAN
    BY <1>0, <2>2, LocalKeep
  <2> QED BY <2>1, <2>3
<1>9. Apart(p) /\ RestTyped'
  BY <1>0, <1>3, <1>8 DEF Apart, Locals, RestTyped, TypeInv, registry, capture
<1>10. local[p].keep => s[1] = "outputs" /\ ~LaterList(s, local[p].keep)
  <2>1. Leading(s) => ~local[p].keep
    BY <1>0, <1>1 DEF Locals
  <2>2. local[p].keep => s[1] = "outputs"
    BY <1>2, <2>1, KeptVerdict
  <2>3. local[p].keep => local[p].keep = TRUE
    BY <1>8
  <2> QED BY <1>2, <2>2, <2>3, KeptVerdict
<1>11. AliveList(s)
  BY <1>2, KeptVerdict
<1>12. CASE Wanted /\ ~local[p].keep /\ Goes(p, Start \o <<"bp", "followed">> \o Rest(p))
  <2>1. PICK n : n = <<"start", "release", "bp", "followed">> \o k
    OBVIOUS
  <2>2. Plan(n) /\ n # <<>> /\ n[1] = "start" /\ Body(n) /\ NowList(n) /\ ~BareList(n) /\ MonitorList(n)
    BY <1>5, <2>1, StartList
  <2>3. <<"start", "release">> \o <<"bp", "followed">> = <<"start", "release", "bp", "followed">>
    BY Four DEF Ops, Sections, Locking, Later
  <2>4. Goes(p, n)
    BY <1>2, <1>4, <1>12, <2>1, <2>3 DEF Start
  <2>5. n[1] \notin Inner \cup {"departed", "register"} /\ ~Leading(n) /\ InSection(n)
    BY <2>2 DEF Inner, Leading, StopOps, InSection, Sections, Locking
  <2>6. (pass' = p <=> Body(n)) /\ \A c \in Coroutines : c # p => (pass' = c <=> pass = c)
    BY <1>3, <1>6, <2>2
  <2>7. Fixed(p, n, local'[p].keep) /\ Watches(p, n)
    BY <1>6, <2>2, <2>5 DEF Fixed, Watches
  <2> QED BY <1>1, <1>2, <1>6, <1>7, <1>9, <2>2, <2>4, <2>5, <2>6, <2>7, OutsideInv
<1>13. CASE /\ Wanted /\ local[p].keep /\ instance
            /\ \E live \in {<<>>, <<"relive", "release">>} :
                 Goes(p, live \o <<"bp", "followed">> \o Rest(p))
  <2>1. PICK live \in {<<>>, <<"relive", "release">>} : Goes(p, live \o <<"bp", "followed">> \o Rest(p))
    BY <1>13
  <2>2. PICK n : n = live \o <<"bp", "followed">> \o Rest(p)
    OBVIOUS
  <2>3. /\ Plan(n) /\ n # <<>> /\ n[1] \in {"bp", "relive"} /\ Body(n) /\ ~BareList(n) /\ MonitorList(n)
    <3>1. CASE live = <<>>
      <4>1. <<"bp", "followed">> \in Seq(Ops)
        BY DEF Ops, Later
      <4>2. <<>> \o <<"bp", "followed">> = <<"bp", "followed">>
        BY <4>1, Alone
      <4>3. n = <<"bp", "followed">> \o k
        BY <1>2, <1>4, <2>2, <3>1, <4>2
      <4> QED BY <4>3, <1>5, FollowList
    <3>2. CASE live = <<"relive", "release">>
      <4>1. <<"relive", "release">> \o <<"bp", "followed">> = <<"relive", "release", "bp", "followed">>
        BY Four DEF Ops, Sections, Locking, Later
      <4>2. n = <<"relive", "release", "bp", "followed">> \o k
        BY <1>2, <1>4, <2>2, <3>2, <4>1
      <4> QED BY <4>2, <1>5, ReliveList
    <3> QED BY <2>1, <3>1, <3>2
  <2>4. Goes(p, n) /\ todo' = Put(todo, p, n)
    BY <2>1, <2>2, <2>3, GoesPut
  <2>5. n[1] \notin Inner \cup {"departed", "register"} /\ ~Leading(n)
    BY <2>3 DEF Inner, Leading, StopOps
  <2>6. (pass' = p <=> Body(n)) /\ \A c \in Coroutines : c # p => (pass' = c <=> pass = c)
    BY <1>3, <1>6, <2>3
  <2>7. Wants' => Wants
    BY <1>0, <1>1, <1>7, <1>11, <2>4, AliveStep, WantsStep
  <2>8. Watches(p, n)
    BY <1>6, <2>3 DEF Watches
  <2>9. ~LaterList(s, local[p].keep)
    BY <1>10, <1>13
  <2> QED BY <1>1, <1>2, <1>6, <1>7, <1>9, <2>3, <2>4, <2>5, <2>6, <2>7, <2>8, <2>9, OutsideInv DEF Coming
<1>14. CASE ~(Wanted /\ (local[p].keep => instance)) /\ Goes(p, <<"passed">> \o Rest(p))
  <2>1. PICK n : n = <<"passed">> \o k
    OBVIOUS
  <2>2. Plan(n) /\ n # <<>> /\ n[1] = "passed" /\ Body(n) /\ ~AliveList(n)
    BY <1>5, <2>1, PassedList
  <2>3. n[1] \notin Inner \cup {"departed", "register"} /\ ~Leading(n) /\ ~BareList(n)
    BY <2>2, Plain DEF Inner, Plan
  <2>4. Goes(p, n) /\ todo' = Put(todo, p, n)
    BY <1>2, <1>4, <1>14, <2>1, <2>2, GoesPut
  <2>5. (pass' = p <=> Body(n)) /\ \A c \in Coroutines : c # p => (pass' = c <=> pass = c)
    BY <1>3, <1>6, <2>2
  <2>6. Wants' => Wants
    BY <1>0, <1>7, <2>2, <2>4, AliveStep, WantsStep
  <2>7. ~Wants' \/ (local[p].keep /\ ~instance)
    BY <1>7, <1>14 DEF Wants
  <2>8. ~Loose'
    BY <1>7, <2>7 DEF Loose
  <2>9. ~LaterList(s, local[p].keep) \/ ~Wants'
    BY <1>10, <2>7
  <2> QED BY <1>1, <1>2, <1>6, <1>7, <1>9, <2>2, <2>3, <2>4, <2>5, <2>6, <2>8, <2>9, OutsideInv DEF Coming
<1> QED BY <1>12, <1>13, <1>14 DEF StartLoop

\* The end of a pass keeps it.
LEMMA EndPassInv ==
  ASSUME CaptureInv, NEW p \in Coroutines, EndPass(p)
  PROVE  CaptureInv'
<1>0. TypeInv /\ Tables /\ Shapes /\ LockInv /\ Locals /\ PassInv
  BY CaptureInvParts
<1>1. PICK s : s = todo[p]
  OBVIOUS
<1>2. /\ Plan(s) /\ s # <<>> /\ s[1] \in {"passed", "followed"} /\ Rest(p) = Tail(s) /\ (p \in Rejoins => Rejoining(s))
      /\ At(p, "followed") <=> s[1] = "followed"
  BY <1>0, <1>1, AtHead DEF EndPass
<1>3. /\ UNCHANGED <<registry, capture, pending, local, late, history, events>>
      /\ entry' = IF At(p, "followed") /\ entry # NoOne THEN [entry EXCEPT !.told = FALSE] ELSE entry
  BY DEF EndPass
<1>4. PICK k : k = Tail(s)
  OBVIOUS
<1>5. /\ k \in Ending /\ Range(k) \subseteq TailOps /\ Plan(k) /\ k \in Seq(Ops) /\ ~Body(k)
      /\ ~MonitorList(k) /\ ~AliveList(k) /\ Range(s) = {s[1]} \cup Range(k)
  BY <1>2, <1>4, EndingFacts DEF Plan
<1>6. p \notin Rejoins /\ pass = p /\ ~InSection(s)
  BY <1>0, <1>1, <1>2, PassBody DEF PassOps, PassInv, InSection, Sections, Locking, Inner
<1>7. /\ life' = life /\ instance' = instance /\ native' = native /\ group' = group /\ history' = history
      /\ late' = late
  BY <1>3 DEF registry, capture
<1>8. /\ entry' \in Entries \cup {NoOne} /\ (entry' = NoOne => entry = NoOne)
      /\ Wanted' => Wanted /\ (s[1] = "followed" \/ (entry.told => entry'.told)) /\ entry'.task = entry.task
  <2>1. CASE s[1] = "followed" /\ entry # NoOne
    <3>1. PICK b \in BOOLEAN : b = FALSE
      OBVIOUS
    <3>2. entry \in Entries /\ entry' = [entry EXCEPT !.told = b]
      BY <1>0, <1>2, <1>3, <2>1, <3>1 DEF TypeInv
    <3>3. entry' \in Entries /\ entry' # NoOne /\ entry'.active = entry.active /\ entry'.task = entry.task
      BY <3>2, EntryTold
    <3> QED BY <2>1, <3>3 DEF Wanted
  <2>2. CASE ~(s[1] = "followed" /\ entry # NoOne)
    BY <1>0, <1>2, <1>3, <2>2 DEF TypeInv, Wanted
  <2> QED BY <2>1, <2>2
<1>9. Apart(p) /\ local' \in [Coroutines -> Frames] /\ local'[p].keep = local[p].keep /\ local[p].keep \in BOOLEAN
  BY <1>0, <1>3, <1>8, LocalApart
<1>10. CASE pending /\ Goes(p, <<"pass">> \o Rest(p)) /\ pass' = pass
  <2>1. RestTyped'
    BY <1>0, <1>3, <1>8, <1>9, <1>10 DEF RestTyped, TypeInv, registry, capture
  <2>2. PICK n : n = <<"pass">> \o k
    OBVIOUS
  <2>3. Plan(n) /\ n # <<>> /\ n[1] = "pass" /\ Body(n)
    BY <1>5, <2>2, PassList
  <2>4. n[1] \notin Inner \cup {"departed", "register"} /\ ~Leading(n) /\ ~BareList(n)
    BY <2>3, Plain DEF Inner, Plan
  <2>5. (pass' = p <=> Body(n)) /\ \A c \in Coroutines : c # p => (pass' = c <=> pass = c)
    BY <1>6, <1>10, <2>3
  <2>6. Goes(p, n)
    BY <1>2, <1>4, <1>10, <2>2
  <2>7. Coming'
    BY <1>3, <1>6, <1>10, HandlerRejoin DEF Coming
  <2> QED BY <1>1, <1>2, <1>6, <1>7, <1>9, <2>1, <2>3, <2>4, <2>5, <2>6, <2>7, OutsideInv
<1>11. CASE ~pending /\ Goes(p, Rest(p)) /\ pass' = NoOne
  <2>1. RestTyped'
    BY <1>0, <1>3, <1>8, <1>9, <1>11 DEF RestTyped, TypeInv, registry, capture
  <2>2. s[1] \notin Sections
    BY <1>2 DEF Sections, Locking, Inner
  <2>3. /\ ~InSection(k) /\ ~Leading(k) /\ ~BareList(k)
        /\ k # <<>> => k[1] \notin Inner \cup {"departed", "register"}
    BY <1>2, <1>4, <2>2, DropFacts DEF Sections
  <2>4. Goes(p, k) /\ todo' = Put(todo, p, k)
    BY <1>2, <1>4, <1>5, <1>11, GoesPut
  <2>5. (pass' = p <=> Body(k)) /\ \A c \in Coroutines : c # p => (pass' = c <=> pass = c)
    BY <1>5, <1>6, <1>11, HandlerRejoin
  <2>6. Wants' => Wants
    <3>1. CASE s[1] = "followed"
      <4>1. PassAlive
        BY <1>1, <1>5, <3>1 DEF PassAlive, AliveList
      <4> QED BY <4>1, <1>8 DEF Wants
    <3>2. CASE s[1] # "followed"
      BY <3>2, <1>0, <1>5, <1>8, <2>4, AliveStep, WantsStep
    <3> QED BY <3>1, <3>2
  <2>7. Loose' => Loose
    BY <1>7, <1>8, <2>6 DEF Loose, Wants
  <2>8. Watches(p, s) => Watches(p, k)
    <3>1. MonitorList(s) => MonitorList(k)
      BY <1>2, <1>4, <2>2, DroppingFacts
    <3> QED BY <3>1, <1>2, <1>6 DEF Watches
  <2>9. LaterList(s, local[p].keep) => Fixed(p, k, local'[p].keep)
    <3>1. LaterList(s, local[p].keep) => LaterList(k, local[p].keep)
      BY <1>2, <1>4, <1>9, <2>2, DroppingFacts
    <3> QED BY <3>1, <1>6, <1>9 DEF Fixed
  <2>10. ~Coming
    BY <1>11 DEF Coming
  <2> QED BY <1>1, <1>2, <1>5, <1>6, <1>7, <1>9, <2>1, <2>3, <2>4, <2>5, <2>6, <2>7, <2>8, <2>9, <2>10, OutsideInv
<1> QED BY <1>10, <1>11 DEF EndPass

\* Behind a guard, the lock is held.
LEMMA GuardTail ==
  ASSUME NEW s, Plan(s), s # <<>>, s[1] = "guard", NEW n, n = Tail(s)
  PROVE  Body(n)
<1>1. s \in Seq(Ops) /\ Sound(s) /\ Len(s) \in Nat /\ Len(s) >= 1 /\ 1 \in 1 .. Len(s) /\ 1 + 1 = 2 /\ 1 + 2 = 3
  BY Listed DEF Plan
<1>2. n \in Seq(Ops) /\ Len(n) = Len(s) - 1 /\ \A i \in 1 .. (Len(s) - 1) : n[i] = s[i + 1]
  BY <1>1, Shifted
<1>3. \/ Len(s) = 2 /\ s[2] = "unguard"
      \/ Len(s) = 3 /\ s[2] \in {"restart", "bp_off"} /\ s[3] = "unguard"
      \/ Len(s) = 3 /\ s[2] = "unguard" /\ s[3] = "reconfigure"
  BY ONLY <1>1, s[1] = "guard" DEF Sound
<1>4. Range(n) = {n[i] : i \in 1 .. Len(n)} /\ \A i \in 1 .. Len(n) : n[i] \in Range(n)
  BY <1>2, Listed
<1>5. CASE Len(s) = 2 /\ s[2] = "unguard"
  <2>0. Len(s) - 1 = 1 /\ 1 \in 1 .. 1 /\ \A i \in 1 .. 1 : i = 1
    BY <1>5
  <2>1. Len(n) = 1 /\ n[1] = "unguard"
    <3>1. n[1] = s[1 + 1]
      BY ONLY <1>2, <2>0
    <3> QED BY ONLY <1>1, <1>2, <1>5, <2>0, <3>1
  <2>2. Range(n) = {"unguard"}
    BY ONLY <1>4, <2>0, <2>1
  <2> QED BY <2>2 DEF Body
<1>6. CASE Len(s) = 3
  <2>0. Len(s) - 1 = 2 /\ 1 \in 1 .. 2 /\ 2 \in 1 .. 2 /\ (\A i \in 1 .. 2 : i \in {1, 2}) /\ 2 + 1 = 3 /\ 1 + 1 = 2
    BY <1>6
  <2>1. Len(n) = 2 /\ n[1] = s[2] /\ n[2] = s[3]
    <3>1. n[1] = s[1 + 1] /\ n[2] = s[2 + 1]
      BY ONLY <1>2, <2>0
    <3> QED BY ONLY <1>2, <2>0, <3>1
  <2>2. Range(n) = {s[2], s[3]}
    <3>1. n[1] \in Range(n) /\ n[2] \in Range(n)
      BY ONLY <1>4, <2>0, <2>1
    <3>2. \A i \in 1 .. Len(n) : n[i] \in {s[2], s[3]}
      BY ONLY <2>0, <2>1
    <3> QED BY ONLY <1>4, <2>1, <3>1, <3>2
  <2>3. "unguard" \in {s[2], s[3]} /\ "guard" \notin {s[2], s[3]}
    BY ONLY <1>3, <1>6
  <2> QED BY <2>2, <2>3 DEF Body
<1> QED BY <1>3, <1>5, <1>6

\* The entry into a guarded part keeps the invariant.
LEMMA GuardInv ==
  ASSUME CaptureInv, NEW p \in Coroutines, Guard(p)
  PROVE  CaptureInv'
<1>0. TypeInv /\ Tables /\ Shapes /\ LockInv /\ Locals /\ PassInv
  BY CaptureInvParts
<1>1. PICK s : s = todo[p]
  OBVIOUS
<1>2. /\ Plan(s) /\ s # <<>> /\ s[1] = "guard" /\ Rest(p) = Tail(s) /\ (p \in Rejoins => Rejoining(s))
  BY <1>0, <1>1, AtHead DEF Guard
<1>3. /\ UNCHANGED <<registry, entry, capture, pending, local, late, history, events>>
      /\ pass = NoOne /\ pass' = p /\ Goes(p, Tail(s))
  BY <1>2 DEF Guard
<1>4. PICK n : n = Tail(s)
  OBVIOUS
<1>5. s[1] \notin Sections
  BY <1>2 DEF Sections, Locking, Inner
<1>6. /\ Plan(n) /\ n \in Seq(Ops) /\ ~InSection(n) /\ ~Leading(n) /\ ~BareList(n)
      /\ n # <<>> => n[1] \notin Inner \cup {"departed", "register"}
      /\ Rejoining(s) => Rejoining(n)
  BY <1>2, <1>4, <1>5, DropFacts DEF Sections
<1>7. /\ AliveList(n) => AliveList(s)
      /\ \A b \in BOOLEAN : LaterList(s, b) => LaterList(n, b)
      /\ MonitorList(s) => MonitorList(n)
  BY <1>2, <1>4, <1>5, DroppingFacts
<1>8. Body(n)
  BY <1>2, <1>4, GuardTail
<1>9. Apart(p) /\ local' \in [Coroutines -> Frames] /\ local'[p].keep = local[p].keep /\ local[p].keep \in BOOLEAN
  BY <1>0, <1>3, LocalApart
<1>10. RestTyped'
  BY <1>0, <1>3, <1>9 DEF RestTyped, TypeInv, registry, capture
<1>11. Goes(p, n) /\ todo' = Put(todo, p, n)
  BY <1>3, <1>4, <1>6, GoesPut
<1>12. (pass' = p <=> Body(n)) /\ \A c \in Coroutines : c # p => (pass' = c <=> pass = c)
  BY <1>3, <1>8, HandlerRejoin
<1>13. /\ life' = life /\ instance' = instance /\ native' = native /\ group' = group /\ history' = history
       /\ late' = late /\ (Wanted' <=> Wanted) /\ entry' = entry
  BY <1>3 DEF registry, capture, Wanted
<1>14. Wants' => Wants
  BY <1>0, <1>1, <1>7, <1>11, <1>13, AliveStep, WantsStep
<1>15. Loose' => Loose
  BY <1>13, <1>14 DEF Loose
<1>16. Watches(p, s) => Watches(p, n)
  BY <1>2, <1>7 DEF Watches
<1>17. p \notin Rejoins /\ LaterList(s, local[p].keep) => Fixed(p, n, local'[p].keep)
  BY <1>7, <1>9 DEF Fixed
<1>18. ~Coming /\ ~InSection(s)
  BY <1>3, <1>5 DEF Coming, InSection
<1> QED BY <1>1, <1>2, <1>6, <1>9, <1>10, <1>11, <1>12, <1>13, <1>14, <1>15, <1>16, <1>17, <1>18, OutsideInv

\* What comes after the lock is let go: nothing, or a pass.
LEMMA UnguardTail ==
  ASSUME NEW s, Plan(s), s # <<>>, s[1] = "unguard", NEW n, n = Tail(s)
  PROVE  (n = <<>> \/ n = <<"reconfigure">>) /\ Body(s)
<1>1. s \in Seq(Ops) /\ Sound(s) /\ Len(s) \in Nat /\ Len(s) >= 1 /\ 1 \in 1 .. Len(s) /\ 1 + 1 = 2
  BY Listed DEF Plan
<1>2. n \in Seq(Ops) /\ Len(n) = Len(s) - 1 /\ \A i \in 1 .. (Len(s) - 1) : n[i] = s[i + 1]
  BY <1>1, Shifted
<1>3. \/ Len(s) = 1
      \/ Len(s) = 2 /\ s[2] = "reconfigure"
  BY ONLY <1>1, s[1] = "unguard" DEF Sound
<1>4. Range(s) = {s[i] : i \in 1 .. Len(s)} /\ s[1] \in Range(s)
  BY <1>1, Listed
<1>5. CASE Len(s) = 1
  <2>1. Len(n) = 0
    BY <1>2, <1>5
  <2>2. n = <<>>
    BY <1>2, <2>1
  <2>3. \A i \in 1 .. Len(s) : s[i] = "unguard"
    BY <1>5
  <2> QED BY <2>2, <2>3, <1>4 DEF Body
<1>6. CASE Len(s) = 2 /\ s[2] = "reconfigure"
  <2>0. Len(s) - 1 = 1 /\ 1 \in 1 .. 1
    BY <1>6
  <2>1. Len(n) = 1 /\ n[1] = "reconfigure"
    <3>1. n[1] = s[1 + 1]
      BY ONLY <1>2, <2>0
    <3> QED BY ONLY <1>1, <1>2, <1>6, <2>0, <3>1
  <2>2. n = <<"reconfigure">>
    <3>1. n \in Seq(Ops)
      BY <1>2
    <3> QED BY ONLY <3>1, <2>1
  <2>3. \A i \in 1 .. Len(s) : s[i] \in {"unguard", "reconfigure"}
    BY <1>6
  <2> QED BY <2>2, <2>3, <1>4 DEF Body
<1> QED BY <1>3, <1>5, <1>6

\* So does its exit.
LEMMA UnguardInv ==
  ASSUME CaptureInv, NEW p \in Coroutines, Unguard(p)
  PROVE  CaptureInv'
<1>0. TypeInv /\ Tables /\ Shapes /\ LockInv /\ Locals /\ PassInv
  BY CaptureInvParts
<1>1. PICK s : s = todo[p]
  OBVIOUS
<1>2. /\ Plan(s) /\ s # <<>> /\ s[1] = "unguard" /\ Rest(p) = Tail(s) /\ (p \in Rejoins => Rejoining(s))
  BY <1>0, <1>1, AtHead DEF Unguard
<1>3. PICK n : n = IF pending /\ Tail(s) = <<>> THEN <<"reconfigure">> ELSE Tail(s)
  OBVIOUS
<1>4. /\ UNCHANGED <<registry, entry, capture, pending, local, late, history, events>>
      /\ pass' = NoOne /\ Goes(p, n)
  BY <1>2, <1>3 DEF Unguard
<1>5. s[1] \notin Sections
  BY <1>2 DEF Sections, Locking, Inner
<1>6. Body(s) /\ (n = <<>> \/ n = <<"reconfigure">>) /\ (pending => n = <<"reconfigure">>)
      /\ (n = <<>> => Tail(s) = <<>>)
  BY <1>2, <1>3, UnguardTail
<1>7. pass = p /\ p \notin Rejoins /\ ~InSection(s)
  <2>1. pass = p
    BY <1>0, <1>1, <1>6 DEF PassInv
  <2>2. ~Rejoining(s)
    <3>1. s[1] \in Range(s)
      BY <1>2, Heads DEF Plan
    <3> QED BY <3>1, <1>2 DEF Rejoining, RejoinOps, Inner
  <2> QED BY <1>2, <1>5, <2>1, <2>2 DEF InSection
<1>8. Apart(p) /\ local' \in [Coroutines -> Frames] /\ local'[p].keep = local[p].keep /\ local[p].keep \in BOOLEAN
  BY <1>0, <1>4, LocalApart
<1>9. RestTyped'
  BY <1>0, <1>4, <1>8 DEF RestTyped, TypeInv, registry, capture
<1>10. /\ life' = life /\ instance' = instance /\ native' = native /\ group' = group /\ history' = history
       /\ late' = late /\ (Wanted' <=> Wanted) /\ entry' = entry
  BY <1>4 DEF registry, capture, Wanted
<1>11. ~Body(n) /\ ~AliveList(n) /\ Plan(n) /\ n \in Seq(Ops) /\ (n # <<>> => n[1] = "reconfigure")
       /\ (n = <<"reconfigure">> => MonitorList(n) /\ \A b \in BOOLEAN : LaterList(n, b))
  <2>1. CASE n = <<>>
    BY <2>1, NothingList
  <2>2. CASE n = <<"reconfigure">>
    <3>1. <<"reconfigure">> # <<>> /\ <<"reconfigure">> \in Seq(Ops) /\ <<"reconfigure">>[1] = "reconfigure"
      BY ReconfigureList
    <3> QED BY <2>2, <3>1, ReconfigureList
  <2> QED BY <1>6, <2>1, <2>2
<1>12. Goes(p, n) /\ todo' = Put(todo, p, n)
  BY <1>4, <1>11, GoesPut
<1>13. (pass' = p <=> Body(n)) /\ \A c \in Coroutines : c # p => (pass' = c <=> pass = c)
  BY <1>4, <1>7, <1>11, HandlerRejoin
<1>14. Wants' => Wants
  BY <1>0, <1>10, <1>11, <1>12, AliveStep, WantsStep
<1>15. Loose' => Loose
  BY <1>10, <1>14 DEF Loose
<1>16. n # <<>> => Fixed(p, n, local'[p].keep) /\ Watches(p, n)
  BY <1>6, <1>7, <1>8, <1>11 DEF Fixed, Watches
<1>17. n = <<>> => ~LaterList(s, local[p].keep) /\ ~Watches(p, s)
  <2>1. SUFFICES ASSUME n = <<>> PROVE ~LaterList(s, local[p].keep) /\ ~Watches(p, s)
    OBVIOUS
  <2>2. Tail(s) = <<>>
    BY <1>6, <2>1
  <2>3. LaterList(s, local[p].keep) => LaterList(Tail(s), local[p].keep)
    BY <1>2, <1>5, <1>8, DroppingFacts
  <2>4. MonitorList(s) => MonitorList(Tail(s))
    BY <1>2, <1>5, DroppingFacts
  <2>5. ~LaterList(<<>>, local[p].keep) /\ ~MonitorList(<<>>)
    <3>1. Range(<<>>) = {} /\ Len(<<>>) = 0 /\ ~MonitorList(<<>>)
      BY NothingList
    <3> QED BY <3>1 DEF LaterList
  <2> QED BY <2>2, <2>3, <2>4, <2>5, <1>2, <1>7 DEF Watches
<1>18. n # <<>> => n[1] \notin Inner \cup {"departed", "register"}
  BY <1>11 DEF Inner
<1>19. ~Leading(n) /\ ~BareList(n)
  BY <1>11, Plain DEF Inner
<1>20. Coming => n # <<>>
  BY <1>6, <1>11, ReconfigureList DEF Coming
<1> QED BY <1>1, <1>2, <1>7, <1>8, <1>9, <1>10, <1>11, <1>12, <1>13, <1>14, <1>15, <1>16, <1>17, <1>18, <1>19, <1>20, OutsideInv

-----------------------------------------------------------------------------
(* Handlers, rejoins and teardowns *)

\* A list that promises nothing, and is of no pass.
Blank(s) ==
  /\ ~InSection(s) /\ ~Body(s) /\ ~AliveList(s) /\ ~MonitorList(s)
  /\ s # <<>> => s[1] # "stop_pop" /\ s[1] # "bp"
  /\ \A b \in BOOLEAN : ~LaterList(s, b)

\* The empty list is blank.
LEMMA BlankNone == Blank(<<>>)
<1>1. Range(<<>>) = {} /\ Len(<<>>) = 0
  BY NothingList
<1>2. ~InSection(<<>>)
  BY DEF InSection
<1>3. ~Body(<<>>) /\ ~AliveList(<<>>) /\ ~MonitorList(<<>>) /\ \A b \in BOOLEAN : ~LaterList(<<>>, b)
  BY ONLY <1>1 DEF Body, AliveList, MonitorList, LaterList
<1> QED BY <1>2, <1>3 DEF Blank

\* Operations that end their list.
Singles == {"last", "departed", "teardown", "rejoin", "rejoin_told", "register"}

\* A list of one such operation is blank, and nothing follows.
LEMMA BlankOne ==
  ASSUME NEW s, Plan(s), s # <<>>, s[1] \in Singles
  PROVE  Blank(s) /\ Tail(s) = <<>> /\ Range(s) = {s[1]}
<1>1. s \in Seq(Ops) /\ Sound(s) /\ Len(s) \in Nat /\ Len(s) >= 1 /\ 1 \in 1 .. Len(s)
      /\ Range(s) = {s[i] : i \in 1 .. Len(s)}
  BY Listed DEF Plan
<1>2. Len(s) = 1
  BY ONLY <1>1, s[1] \in Singles DEF Sound, Singles
<1>3. Range(s) = {s[1]}
  <2>1. \A i \in 1 .. Len(s) : i = 1
    BY <1>2
  <2>2. Range(s) = {s[i] : i \in 1 .. Len(s)} /\ 1 \in 1 .. Len(s)
    BY <1>1
  <2>3. \A i \in 1 .. Len(s) : s[i] = s[1]
    BY <2>1
  <2>4. PICK R : R = Range(s)
    OBVIOUS
  <2>5. s[1] \in R /\ \A x \in R : x = s[1]
    BY <2>2, <2>3, <2>4
  <2> QED BY ONLY <2>4, <2>5
<1>4. Tail(s) = <<>>
  <2>1. PICK n \in Seq(Ops) : n = Tail(s) /\ Len(n) = Len(s) - 1
    BY <1>1, Shifted
  <2>2. Len(n) = 0
    BY <1>2, <2>1
  <2>3. n = <<>>
    BY ONLY <2>2, n \in Seq(Ops)
  <2> QED BY <2>1, <2>3
<1>5. ~InSection(s)
  BY DEF InSection, Sections, Locking, Inner, Singles
<1>6. ~Body(s) /\ ~AliveList(s) /\ ~MonitorList(s) /\ \A b \in BOOLEAN : ~LaterList(s, b)
  BY ONLY <1>2, <1>3, s[1] \in Singles DEF Body, PassOps, AliveList, MonitorList, LaterList, Singles
<1>7. s[1] # "stop_pop" /\ s[1] # "bp"
  BY DEF Singles
<1> QED BY <1>3, <1>4, <1>5, <1>6, <1>7 DEF Blank

\* So is the one of a teardown after its pass.
LEMMA BlankTeardown ==
  ASSUME NEW s, Plan(s), s # <<>>, s[1] = "unconsumed"
  PROVE  Blank(s) /\ Tail(s) = <<"last">>
<1>1. s \in Seq(Ops) /\ Sound(s) /\ Len(s) \in Nat /\ Len(s) >= 1 /\ 1 \in 1 .. Len(s) /\ 1 + 1 = 2
      /\ Range(s) = {s[i] : i \in 1 .. Len(s)}
  BY Listed DEF Plan
<1>2. Len(s) = 2 /\ s[2] = "last"
  BY ONLY <1>1, s[1] = "unconsumed" DEF Sound
<1>3. PICK n \in Seq(Ops) : n = Tail(s) /\ Len(n) = Len(s) - 1 /\ \A i \in 1 .. (Len(s) - 1) : n[i] = s[i + 1]
  BY <1>1, Shifted
<1>4. Len(n) = 1 /\ n[1] = "last"
  <2>1. Len(s) - 1 = 1 /\ 1 \in 1 .. 1 /\ 1 + 1 = 2
    BY <1>2
  <2> QED BY ONLY <1>2, <1>3, <2>1
<1>5. n = <<"last">>
  <2>1. n \in Seq(Ops)
    OBVIOUS
  <2> QED BY ONLY <2>1, <1>4
<1>6. Range(s) = {"unconsumed", "last"}
  <2>1. Range(s) = {s[1]} \cup Range(n)
    BY <1>1, <1>3, Heads
  <2>2. Range(n) = {"last"}
    BY <1>5, LastList
  <2> QED BY ONLY <2>1, <2>2, s[1] = "unconsumed"
<1>7. ~InSection(s)
  BY DEF InSection, Sections, Locking, Inner
<1>8. ~Body(s) /\ ~AliveList(s) /\ ~MonitorList(s) /\ \A b \in BOOLEAN : ~LaterList(s, b)
  BY ONLY <1>2, <1>6 DEF Body, PassOps, AliveList, MonitorList, LaterList
<1> QED BY <1>3, <1>5, <1>7, <1>8 DEF Blank

\* A coroutine that has promised nothing goes on.
LEMMA ClientInv ==
  ASSUME CaptureInv, RestTyped', NEW p \in Coroutines, NEW s, s = todo[p], Blank(s),
         NEW n, Goes(p, n), Plan(n),
         n # <<>> => /\ n[1] \notin Inner \cup {"departed"}
                     /\ n[1] = "register" => \E o \in Owners : p = Handler(o),
         p \in Rejoins => Rejoining(n),
         \/ life' = life /\ (s # <<>> \/ p \in Rejoins)
         \/ \E page \in Pages : /\ p = Handler(page) /\ life[page] = "open"
                                /\ \A o \in Owners : life[o] = "gone" => life'[o] = "gone",
         ~Body(n), Leading(n) => ~local'[p].keep, Apart(p), local[p].keep \in BOOLEAN,
         capture' = capture, pass' = pass, pending' = pending, late' = late,
         history'.orphaned = history.orphaned, history'.failed = history.failed,
         history'.cancelled = history.cancelled, history'.overtaken = history.overtaken,
         BareList(n) => ~Wants',
         Wants' => Wants \/ Fixed(p, n, local'[p].keep),
         Loose' => Loose \/ Watches(p, n)
  PROVE  CaptureInv'
<1>0. PassInv
  BY CaptureInvParts
<1>1. ~InSection(s) /\ ~Body(s) /\ ~LaterList(s, local[p].keep) /\ ~Watches(p, s)
  BY DEF Blank, Watches
<1>2. instance' = instance /\ native' = native /\ group' = group
  BY DEF capture
<1>3. (pass' = p <=> Body(n)) /\ \A c \in Coroutines : c # p => (pass' = c <=> pass = c)
  BY <1>0, <1>1 DEF PassInv
<1>4. Coming' <=> Coming
  BY DEF Coming
<1> QED BY <1>1, <1>2, <1>3, <1>4, OutsideInv

\* A rejoin is at none but its own operations.
LEMMA NotRejoin ==
  ASSUME TypeInv, Shapes, NEW p \in Coroutines, todo[p] # <<>>, todo[p][1] \notin RejoinOps
  PROVE  p \notin Rejoins
<1>1. Plan(todo[p]) /\ (p \in Rejoins => Rejoining(todo[p]))
  BY AtHead
<1>2. todo[p][1] \in Range(todo[p])
  BY <1>1, Heads DEF Plan
<1> QED BY <1>1, <1>2 DEF Rejoining

\* An inactive display is not wanted.
LEMMA Inactivated ==
  ASSUME TypeInv, entry' = Inactive
  PROVE  /\ entry' \in Entries \cup {NoOne} /\ (entry' = NoOne => entry = NoOne)
         /\ ~Wanted' /\ ~Wants'
<1>1. CASE entry = NoOne
  <2>1. entry' = NoOne
    BY <1>1 DEF Inactive
  <2> QED BY <1>1, <2>1 DEF Wanted, Wants
<1>2. CASE entry # NoOne
  <2>1. entry \in Entries
    BY <1>2 DEF TypeInv
  <2>2. PICK b \in BOOLEAN : b = FALSE
    OBVIOUS
  <2>3. PICK f : f = entry' /\ f = [entry EXCEPT !.active = b]
    BY <1>2, <2>2 DEF Inactive
  <2>4. f \in Entries /\ f # NoOne /\ f.active = b
    BY <2>1, <2>3, EntryActive
  <2> QED BY <1>2, <2>2, <2>3, <2>4 DEF Wanted, Wants
<1> QED BY <1>1, <1>2

\* A coroutine goes on, and nothing that the promises rest on has changed.
LEMMA QuietInv ==
  ASSUME CaptureInv, RestTyped', NEW p \in Coroutines, NEW s, s = todo[p], Blank(s),
         NEW n, Goes(p, n), Plan(n),
         n # <<>> => /\ n[1] \notin Inner \cup {"departed"}
                     /\ n[1] = "register" => \E o \in Owners : p = Handler(o),
         p \in Rejoins => Rejoining(n),
         \/ life' = life /\ (s # <<>> \/ p \in Rejoins)
         \/ \E page \in Pages : /\ p = Handler(page) /\ life[page] = "open"
                                /\ \A o \in Owners : life[o] = "gone" => life'[o] = "gone",
         ~Body(n), ~AliveList(n), ~Leading(n), ~BareList(n),
         local' = local, Wanted' => Wanted /\ entry'.told = entry.told /\ entry'.task = entry.task,
         entry' = NoOne => entry = NoOne,
         capture' = capture, pass' = pass, pending' = pending, late' = late,
         history'.orphaned = history.orphaned, history'.failed = history.failed,
         history'.cancelled = history.cancelled, history'.overtaken = history.overtaken,
         history'.unthrottled = history.unthrottled
  PROVE  CaptureInv'
<1>0. TypeInv /\ Locals
  BY CaptureInvParts
<1>1. Apart(p) /\ local[p].keep \in BOOLEAN
  BY <1>0, LocalApart
<1>2. todo' = Put(todo, p, n)
  BY GoesPut
<1>3. Wants' => Wants
  BY <1>0, <1>2, AliveStep, WantsStep
<1>4. Loose' => Loose
  BY <1>3 DEF Loose, capture, Wants
<1> QED BY <1>1, <1>3, <1>4, ClientInv

\* The stop of a capture without consumers.
LEMMA UnconsumedInv ==
  ASSUME CaptureInv, NEW p \in Coroutines, NEW s, s = todo[p], Blank(s), s # <<>>, p \notin Rejoins,
         StopIfUnconsumed(p, <<"last">>),
         UNCHANGED <<registry, capture, pass, pending, local, late, history, events>>
  PROVE  CaptureInv'
<1>0. TypeInv /\ Locals
  BY CaptureInvParts
<1>1. /\ registry' = registry /\ capture' = capture /\ pass' = pass /\ pending' = pending
      /\ late' = late /\ events' = events /\ history' = history /\ local' = local /\ life' = life
  BY DEF registry
<1>2. /\ history' \in Outcomes /\ history'.unthrottled = history.unthrottled
      /\ history'.orphaned = history.orphaned /\ history'.failed = history.failed
      /\ history'.cancelled = history.cancelled /\ history'.overtaken = history.overtaken
  BY <1>0, <1>1, HistorySame
<1>3. CASE entry' = Inactive /\ Goes(p, Stop \o <<"last">>)
  <2>1. PICK n : n = <<"stop", "release", "last">>
    OBVIOUS
  <2>2. Goes(p, n)
    BY <1>3, <2>1, Spelled
  <2>3. Plan(n) /\ n # <<>> /\ n[1] = "stop" /\ Range(n) = {"stop", "release", "last"} /\ ~Body(n) /\ ~AliveList(n)
    BY <2>1, StopLastList
  <2>4. ~Leading(n)
    BY <2>3 DEF Leading
  <2>5. entry' \in Entries \cup {NoOne} /\ (entry' = NoOne => entry = NoOne) /\ ~Wanted' /\ ~Wants'
    BY <1>0, <1>3, Inactivated
  <2>6. Apart(p) /\ local' \in [Coroutines -> Frames] /\ local[p].keep \in BOOLEAN
    BY <1>0, <1>1, <2>5, LocalApart
  <2>7. RestTyped'
    BY <1>0, <1>1, <1>2, <2>5, <2>6 DEF RestTyped, TypeInv, registry, capture
  <2>8. ~Loose'
    BY <2>5 DEF Loose
  <2>9. n[1] \notin Inner \cup {"departed", "register"}
    BY <2>3 DEF Inner
  <2> QED BY <1>1, <1>2, <2>2, <2>3, <2>4, <2>5, <2>6, <2>7, <2>8, <2>9, ClientInv
<1>4. CASE entry' = entry /\ Goes(p, <<"last">>)
  <2>1. PICK n : n = <<"last">>
    OBVIOUS
  <2>2. Goes(p, n)
    BY <1>4, <2>1
  <2>3. Plan(n) /\ n # <<>> /\ n[1] = "last" /\ n \in Seq(Ops) /\ ~Body(n) /\ ~AliveList(n)
    BY <2>1, LastList
  <2>4. n[1] \notin Inner \cup {"departed", "register", "stop", "start_loop"}
    BY <2>3 DEF Inner
  <2>5. ~Leading(n) /\ ~BareList(n)
    BY <2>3, <2>4, Plain
  <2>6. RestTyped'
    BY <1>0, <1>1, <1>2, <1>4 DEF RestTyped, TypeInv, registry, capture
  <2>7. Wanted' <=> Wanted
    BY <1>4 DEF Wanted
  <2> QED BY <1>1, <1>2, <1>4, <2>2, <2>3, <2>4, <2>5, <2>6, <2>7, QuietInv
<1> QED BY <1>3, <1>4 DEF StopIfUnconsumed

\* The check for a last consumer after a teardown keeps the invariant.
LEMMA AfterTeardownInv ==
  ASSUME CaptureInv, NEW p \in Coroutines, AfterTeardown(p)
  PROVE  CaptureInv'
<1>0. TypeInv /\ Shapes
  BY CaptureInvParts
<1>1. PICK s : s = todo[p]
  OBVIOUS
<1>2. Plan(s) /\ s # <<>> /\ s[1] = "unconsumed" /\ Rest(p) = Tail(s)
  BY <1>0, <1>1, AtHead DEF AfterTeardown
<1>3. Blank(s) /\ Rest(p) = <<"last">>
  BY <1>2, BlankTeardown
<1>4. p \notin Rejoins
  BY <1>0, <1>1, <1>2, NotRejoin DEF RejoinOps, Inner
<1>5. StopIfUnconsumed(p, <<"last">>)
  BY <1>3 DEF AfterTeardown
<1>6. UNCHANGED <<registry, capture, pass, pending, local, late, history, events>>
  BY DEF AfterTeardown
<1> QED BY <1>1, <1>2, <1>3, <1>4, <1>5, <1>6, UnconsumedInv

\* The check for a last client keeps it.
LEMMA LastClientInv ==
  ASSUME CaptureInv, NEW p \in Coroutines, LastClient(p)
  PROVE  CaptureInv'
<1>0. TypeInv /\ Shapes
  BY CaptureInvParts
<1>1. PICK s : s = todo[p]
  OBVIOUS
<1>2. Plan(s) /\ s # <<>> /\ s[1] = "last"
  BY <1>0, <1>1, AtHead DEF LastClient
<1>3. Blank(s)
  BY <1>2, BlankOne DEF Singles
<1>4. p \notin Rejoins
  BY <1>0, <1>1, <1>2, NotRejoin DEF RejoinOps, Inner
<1>5. PICK n : n = IF clients = {} THEN Shutdown_Pipelines ELSE <<>>
  OBVIOUS
<1>6. Goes(p, n) /\ UNCHANGED <<registry, entry, capture, pass, pending, local, late, history, events>>
  BY <1>5 DEF LastClient
<1>7. Plan(n) /\ n \in Seq(Ops) /\ ~Body(n) /\ ~AliveList(n) /\ (n # <<>> => n[1] = "reconfigure")
  <2>1. n = <<>> \/ n = <<"reconfigure", "guard", "bp_off", "unguard">>
    BY <1>5 DEF Shutdown_Pipelines
  <2> QED BY <2>1, NothingList, ShutdownList
<1>8. (n # <<>> => n[1] \notin Inner \cup {"departed", "register", "stop", "start_loop"})
  BY <1>7 DEF Inner
<1>9. ~Leading(n) /\ ~BareList(n)
  BY <1>7, <1>8, Plain
<1>10. RestTyped'
  BY <1>0, <1>6 DEF RestTyped, TypeInv, registry, capture
<1>11. (Wanted' <=> Wanted) /\ entry' = entry /\ history' = history /\ life' = life
  BY <1>6 DEF Wanted, registry
<1> QED BY <1>1, <1>2, <1>3, <1>4, <1>6, <1>7, <1>8, <1>9, <1>10, <1>11, QuietInv

\* A rejoin that fires keeps it.
LEMMA RejoinFiresInv ==
  ASSUME CaptureInv, NEW p \in Coroutines, RejoinFires(p)
  PROVE  CaptureInv'
<1>0. TypeInv /\ Shapes
  BY CaptureInvParts
<1>1. PICK s : s = todo[p]
  OBVIOUS
<1>2. Plan(s) /\ s # <<>> /\ s[1] = "rejoin"
  BY <1>0, <1>1, AtHead DEF RejoinFires
<1>3. Blank(s)
  BY <1>2, BlankOne DEF Singles
<1>4. PICK n : /\ n = <<>> \/ n = <<"rejoin_told">>
               /\ Goes(p, n) /\ paused' \subseteq paused
  BY DEF RejoinFires
<1>5. UNCHANGED <<clients, life, settled, entry, capture, pass, pending, local, late, history, events>>
  BY DEF RejoinFires
<1>6. Plan(n) /\ n \in Seq(Ops) /\ ~Body(n) /\ ~AliveList(n) /\ (n # <<>> => n[1] = "rejoin_told")
      /\ Range(n) \subseteq RejoinOps
  BY <1>4, NothingList, ToldList
<1>7. (n # <<>> => n[1] \notin Inner \cup {"departed", "register", "stop", "start_loop"} \cup StopOps)
  BY <1>6 DEF Inner, StopOps
<1>8. ~Leading(n) /\ ~BareList(n) /\ Rejoining(n)
  BY <1>6, <1>7, Plain DEF Rejoining
<1>9. RestTyped'
  BY <1>0, <1>4, <1>5 DEF RestTyped, TypeInv, capture
<1>10. (Wanted' <=> Wanted) /\ entry' = entry /\ history' = history
  BY <1>5 DEF Wanted
<1> QED BY <1>1, <1>2, <1>3, <1>4, <1>5, <1>6, <1>7, <1>8, <1>9, <1>10, QuietInv

\* So does one whose viewer was told.
LEMMA RejoinToldInv ==
  ASSUME CaptureInv, NEW p \in Coroutines, RejoinTold(p)
  PROVE  CaptureInv'
<1>0. TypeInv /\ Shapes
  BY CaptureInvParts
<1>1. PICK s : s = todo[p]
  OBVIOUS
<1>2. Plan(s) /\ s # <<>> /\ s[1] = "rejoin_told"
  BY <1>0, <1>1, AtHead DEF RejoinTold
<1>3. Blank(s)
  BY <1>2, BlankOne DEF Singles
<1>4. PICK n : n = IF instance THEN <<>> ELSE <<"start", "release", "after_rejoin">>
  OBVIOUS
<1>5. Goes(p, n) /\ UNCHANGED <<registry, entry, capture, pass, pending, local, late, events>>
  BY <1>4, Spelled DEF RejoinTold
<1>6. Plan(n) /\ n \in Seq(Ops) /\ ~Body(n) /\ ~AliveList(n) /\ (n # <<>> => n[1] = "start")
      /\ Range(n) \subseteq RejoinOps
  <2>1. n = <<>> \/ n = <<"start", "release", "after_rejoin">>
    BY <1>4
  <2> QED BY <2>1, NothingList, RejoinList
<1>7. (n # <<>> => n[1] \notin Inner \cup {"departed", "register", "stop", "start_loop"} \cup StopOps)
  BY <1>6 DEF Inner, StopOps
<1>8. ~Leading(n) /\ ~BareList(n) /\ Rejoining(n)
  BY <1>6, <1>7, Plain DEF Rejoining
<1>9. /\ history' \in Outcomes /\ history'.unthrottled = history.unthrottled
      /\ history'.orphaned = history.orphaned /\ history'.failed = history.failed
      /\ history'.cancelled = history.cancelled /\ history'.overtaken = history.overtaken
  <2>1. PICK U : U = history.unreset \ {p[1]}
    OBVIOUS
  <2>2. history' = [history EXCEPT !.unreset = U] /\ U \subseteq Pages
    BY <1>0, <2>1, NotifiedType DEF RejoinTold, Told
  <2> QED BY <1>0, <2>2, Noted
<1>10. RestTyped'
  BY <1>0, <1>5, <1>9 DEF RestTyped, TypeInv, capture, registry
<1>11. (Wanted' <=> Wanted) /\ entry' = entry /\ life' = life
  BY <1>5 DEF Wanted, registry
<1> QED BY <1>1, <1>2, <1>3, <1>5, <1>6, <1>7, <1>8, <1>9, <1>10, <1>11, QuietInv

\* The settings of a display's first or next socket are applied.
LEMMA RegisterInv ==
  ASSUME CaptureInv, NEW p \in Coroutines, Register(p)
  PROVE  CaptureInv'
<1>0. TypeInv /\ Shapes /\ Locals
  BY CaptureInvParts
<1>1. PICK s : s = todo[p]
  OBVIOUS
<1>2. Plan(s) /\ s # <<>> /\ s[1] = "register"
  BY <1>0, <1>1, AtHead DEF Register
<1>3. Blank(s)
  BY <1>2, BlankOne DEF Singles
<1>4. PICK o \in Owners : p = Handler(o)
  <2>1. At(p, "register")
    BY DEF Register
  <2> QED BY <1>0, <2>1 DEF Shapes
<1>5. p[1] = o /\ o \in Pages
  BY <1>4 DEF Handler, Pages
<1>6. p \notin Rejoins
  BY <1>0, <1>1, <1>2, NotRejoin DEF RejoinOps, Inner
<1>7. /\ entry' = IF entry = NoOne
                  THEN [ws |-> o, active |-> TRUE, task |-> FALSE, told |-> FALSE]
                  ELSE [entry EXCEPT !.ws = o, !.active = @ \/ o \notin settled]
      /\ settled' = settled \cup {o}
      /\ history' = IF entry = NoOne THEN history ELSE Told(o)
      /\ UNCHANGED <<clients, paused, life, capture, pass, pending, local, late, events>>
  BY <1>5 DEF Register
<1>8. /\ entry' \in Entries /\ entry' # NoOne
      /\ entry # NoOne => entry'.told = entry.told /\ entry'.task = entry.task
                          /\ (o \in settled => entry'.active = entry.active)
  <2>1. CASE entry = NoOne
    <3>1. PICK f : f = [ws |-> o, active |-> TRUE, task |-> FALSE, told |-> FALSE]
      OBVIOUS
    <3>2. f \in Entries
      BY <3>1 DEF Entries
    <3> QED BY <1>7, <2>1, <3>1, <3>2, CaptureAssumption
  <2>2. CASE entry # NoOne
    <3>1. PICK e \in Entries : e = entry
      BY <1>0, <2>2 DEF TypeInv
    <3>2. PICK f : f = [e EXCEPT !.ws = o, !.active = @ \/ o \notin settled]
      OBVIOUS
    <3>3. PICK b \in BOOLEAN : b = (e.active \/ o \notin settled)
      OBVIOUS
    <3>4. f = [[e EXCEPT !.ws = o] EXCEPT !.active = b]
      BY ONLY <3>2, <3>3, e \in Entries DEF Entries
    <3>5. PICK g : g = [e EXCEPT !.ws = o]
      OBVIOUS
    <3>6. g \in Entries /\ g.task = e.task /\ g.active = e.active /\ g.told = e.told
      BY <3>5, EntryWs
    <3>7. f \in Entries /\ f # NoOne /\ f.task = g.task /\ f.active = b /\ f.told = g.told
      <4>1. f = [g EXCEPT !.active = b] /\ g \in Entries
        BY <3>4, <3>5, <3>6
      <4> QED BY <4>1, EntryActive
    <3>8. e.active \in BOOLEAN
      BY ONLY e \in Entries DEF Entries
    <3>9. o \in settled => b = e.active
      BY <3>3, <3>8
    <3>10. entry' = f
      BY <1>7, <2>2, <3>1, <3>2
    <3> QED BY <3>1, <3>6, <3>7, <3>9, <3>10
  <2> QED BY <2>1, <2>2
<1>9. /\ history' \in Outcomes /\ history'.unthrottled = history.unthrottled
      /\ history'.orphaned = history.orphaned /\ history'.failed = history.failed
      /\ history'.cancelled = history.cancelled /\ history'.overtaken = history.overtaken
  <2>1. CASE history' = history
    BY <1>0, <2>1, HistorySame
  <2>2. CASE history' = Told(o)
    <3>1. PICK U : U = history.unreset \ {o}
      OBVIOUS
    <3>2. history' = [history EXCEPT !.unreset = U] /\ U \subseteq Pages
      BY <1>0, <2>2, <3>1, NotifiedType DEF Told
    <3> QED BY <1>0, <3>2, Noted
  <2> QED BY <1>7, <2>1, <2>2
<1>10. Apart(p) /\ local' \in [Coroutines -> Frames] /\ local'[p].keep = local[p].keep /\ local[p].keep \in BOOLEAN
  BY <1>0, <1>7, <1>8, LocalApart
<1>11. RestTyped'
  BY <1>0, <1>5, <1>7, <1>8, <1>9, <1>10 DEF RestTyped, TypeInv, capture
<1>12. CASE Goes(p, <<"guard", "unguard", "reconfigure">>)
  <2>1. PICK n : n = <<"guard", "unguard", "reconfigure">>
    OBVIOUS
  <2>2. Goes(p, n)
    BY <1>12, <2>1
  <2>3. /\ Plan(n) /\ n \in Seq(Ops) /\ n # <<>> /\ n[1] = "guard" /\ ~Body(n) /\ MonitorList(n)
        /\ \A b \in BOOLEAN : LaterList(n, b)
    BY <2>1, FirstSettingsList
  <2>4. n[1] \notin Inner \cup {"departed", "register", "stop", "start_loop"}
    BY <2>3 DEF Inner
  <2>5. ~Leading(n) /\ ~BareList(n)
    BY <2>3, <2>4, Plain
  <2>6. Fixed(p, n, local'[p].keep) /\ Watches(p, n)
    BY <1>6, <1>10, <2>3 DEF Fixed, Watches
  <2> QED BY <1>1, <1>2, <1>3, <1>6, <1>7, <1>9, <1>10, <1>11, <2>2, <2>3, <2>4, <2>5, <2>6, ClientInv
<1>13. CASE /\ entry # NoOne /\ o \in settled
            /\ \E how \in {<<>>, <<"restart">>} : Goes(p, <<"guard">> \o how \o <<"unguard">>)
  <2>1. PICK n : /\ n = <<"guard", "unguard">> \/ n = <<"guard", "restart", "unguard">>
                 /\ Goes(p, n)
    BY <1>13, Spelled
  <2>2. Plan(n) /\ n \in Seq(Ops) /\ n # <<>> /\ n[1] = "guard" /\ ~Body(n) /\ ~AliveList(n)
    BY <2>1, SettingsList, RestartSettingsList
  <2>3. n[1] \notin Inner \cup {"departed", "register", "stop", "start_loop"}
    BY <2>2 DEF Inner
  <2>4. ~Leading(n) /\ ~BareList(n)
    BY <2>2, <2>3, Plain
  <2>5. Wanted' => Wanted /\ entry'.told = entry.told /\ entry'.task = entry.task
    BY <1>8, <1>13 DEF Wanted
  <2> QED BY <1>1, <1>2, <1>3, <1>6, <1>7, <1>8, <1>9, <1>11, <2>1, <2>2, <2>3, <2>4, <2>5, QuietInv
<1> QED BY <1>5, <1>12, <1>13 DEF Register

\* The change that the settings make is not live.
LEMMA RestartInPlaceInv ==
  ASSUME CaptureInv, NEW p \in Coroutines, RestartInPlace(p)
  PROVE  CaptureInv'
<1>0. TypeInv /\ Tables /\ Shapes /\ LockInv /\ Locals /\ PassInv
  BY CaptureInvParts
<1>1. PICK s : s = todo[p]
  OBVIOUS
<1>2. /\ Plan(s) /\ s # <<>> /\ s[1] = "restart" /\ Rest(p) = Tail(s)
  BY <1>0, <1>1, AtHead DEF RestartInPlace
<1>a. Tail(s) = <<"unguard">> /\ Body(s)
  <2>1. s \in Seq(Ops) /\ Sound(s) /\ Len(s) \in Nat /\ Len(s) >= 1 /\ 1 \in 1 .. Len(s) /\ 1 + 1 = 2
    BY <1>2, Listed DEF Plan
  <2>2. Len(s) = 2 /\ s[2] = "unguard"
    BY ONLY <2>1, <1>2 DEF Sound
  <2>3. PICK n \in Seq(Ops) : n = Tail(s) /\ Len(n) = Len(s) - 1 /\ \A i \in 1 .. (Len(s) - 1) : n[i] = s[i + 1]
    BY <1>2, <2>1, Shifted
  <2>4. Len(s) - 1 = 1 /\ 1 \in 1 .. 1
    BY <2>2
  <2>5. Len(n) = 1 /\ n[1] = "unguard"
    <3>1. n[1] = s[1 + 1]
      BY ONLY <2>3, <2>4
    <3> QED BY ONLY <2>1, <2>2, <2>3, <2>4, <3>1
  <2>6. n = <<"unguard">>
    <3>1. n \in Seq(Ops)
      OBVIOUS
    <3> QED BY ONLY <3>1, <2>5
  <2>7. Range(s) = {"restart", "unguard"}
    <3>1. Range(s) = {s[1]} \cup Range(n)
      BY <2>1, <2>3, <1>2, Heads
    <3>2. Range(n) = {"unguard"}
      BY <2>6, UnguardList
    <3> QED BY ONLY <3>1, <3>2, <1>2
  <2> QED BY <2>3, <2>6, <2>7 DEF Body
<1>3. PICK n : /\ n = IF Wanted THEN <<"stop", "release", "start", "release", "bp", "unguard">> ELSE <<"unguard">>
               /\ Goes(p, n)
  <2>1. CASE Wanted
    BY <2>1, <1>2, <1>a, Spelled DEF RestartInPlace
  <2>2. CASE ~Wanted
    BY <2>2, <1>2, <1>a, Spelled DEF RestartInPlace
  <2> QED BY <2>1, <2>2
<1>4. UNCHANGED <<registry, entry, capture, pass, pending, local, late, history, events>>
  BY DEF RestartInPlace
<1>5. s[1] \notin Sections
  BY <1>2 DEF Sections, Locking, Inner
<1>6. p \notin Rejoins
  BY <1>0, <1>1, <1>2, NotRejoin DEF RejoinOps, Inner
<1>7. Plan(n) /\ n \in Seq(Ops) /\ n # <<>> /\ Body(n) /\ n[1] \in {"stop", "unguard"}
  BY <1>3, RestartList, UnguardList
<1>8. /\ Wanted => MonitorList(n) /\ ~BareList(n) /\ \A b \in BOOLEAN : LaterList(n, b)
      /\ Range(n) \cap {"outputs", "start_loop"} = {} /\ ~AliveList(n)
  <2>1. CASE Wanted
    <3>1. /\ Range(n) = {"stop", "release", "start", "bp", "unguard"} /\ MonitorList(n) /\ ~BareList(n)
          /\ \A b \in BOOLEAN : LaterList(n, b)
      BY <1>3, <2>1, RestartList
    <3> QED BY <3>1 DEF AliveList
  <2>2. CASE ~Wanted
    <3>1. Range(n) = {"unguard"} /\ ~AliveList(n)
      BY <1>3, <2>2, UnguardList
    <3> QED BY <2>2, <3>1
  <2> QED BY <2>1, <2>2
<1>9. ~Leading(n)
  BY <1>8 DEF Leading
<1>10. Apart(p) /\ local' \in [Coroutines -> Frames] /\ local'[p].keep = local[p].keep /\ local[p].keep \in BOOLEAN
  BY <1>0, <1>4, LocalApart
<1>11. RestTyped'
  BY <1>0, <1>4, <1>10 DEF RestTyped, TypeInv, registry, capture
<1>12. todo' = Put(todo, p, n) /\ pass = p
  <2>1. pass = p
    BY <1>0, <1>1, <1>a DEF PassInv
  <2> QED BY <2>1, <1>3, <1>7, GoesPut
<1>13. /\ life' = life /\ instance' = instance /\ native' = native /\ group' = group /\ history' = history
       /\ late' = late /\ pass' = pass /\ (Wanted' <=> Wanted) /\ entry' = entry /\ (Coming' <=> Coming)
  BY <1>4 DEF registry, capture, Wanted, Coming
<1>14. (pass' = p <=> Body(n)) /\ \A c \in Coroutines : c # p => (pass' = c <=> pass = c)
  BY <1>7, <1>12, <1>13
<1>15. Wants' => Wants
  BY <1>0, <1>8, <1>12, <1>13, AliveStep, WantsStep
<1>16. Loose' => Loose
  BY <1>13, <1>15 DEF Loose
<1>17. Wants' => Wanted /\ (BareList(n) => FALSE) /\ Fixed(p, n, local'[p].keep) /\ Watches(p, n)
  <2>1. Wants' => Wanted
    BY <1>13 DEF Wants
  <2> QED BY <2>1, <1>6, <1>8, <1>10 DEF Fixed, Watches
<1>18. Loose' => Watches(p, n)
  BY <1>17 DEF Loose
<1>19. n[1] \notin Inner \cup {"departed", "register"}
  BY <1>7 DEF Inner
<1>20. ~InSection(s)
  BY <1>5 DEF InSection
<1> QED BY <1>1, <1>2, <1>3, <1>6, <1>7, <1>9, <1>10, <1>11, <1>13, <1>14, <1>15, <1>17, <1>18, <1>19, <1>20, OutsideInv

\* A display whose grace period is over is torn down.
LEMMA TeardownInv ==
  ASSUME CaptureInv, NEW p \in Coroutines, Teardown(p)
  PROVE  CaptureInv'
<1>0. TypeInv /\ Shapes
  BY CaptureInvParts
<1>1. PICK s : s = todo[p]
  OBVIOUS
<1>2. Plan(s) /\ s # <<>> /\ s[1] = "teardown"
  BY <1>0, <1>1, AtHead DEF Teardown
<1>3. Blank(s)
  BY <1>2, BlankOne DEF Singles
<1>4. p \notin Rejoins
  BY <1>0, <1>1, <1>2, NotRejoin DEF RejoinOps, Inner
<1>5. UNCHANGED <<registry, capture, pass, pending, late, history, events>>
  BY DEF Teardown
<1>6. CASE Owning(p[1])
  <2>1. PICK n : n = <<"reconfigure", "unconsumed", "last">>
    OBVIOUS
  <2>2. /\ entry' = NoOne /\ Goes(p, n)
        /\ local' = [q \in Coroutines |-> [local[q] EXCEPT !.same = FALSE]]
    BY <1>6, <2>1 DEF Teardown
  <2>3. /\ local' \in [Coroutines -> Frames]
        /\ \A c \in Coroutines : local'[c].keep = local[c].keep /\ ~local'[c].same /\ local[c].keep \in BOOLEAN
    <3>1. local \in [Coroutines -> Frames]
      BY <1>0 DEF TypeInv
    <3>2. \A c \in Coroutines : local[c] \in Frames
      BY <3>1
    <3>3. \A f \in Frames : LET g == [f EXCEPT !.same = FALSE] IN g \in Frames /\ g.keep = f.keep /\ ~g.same /\ f.keep \in BOOLEAN
      BY DEF Frames
    <3> QED BY <2>2, <3>2, <3>3
  <2>4. Apart(p)
    BY <2>3 DEF Apart
  <2>5. ~Wanted' /\ ~Wants' /\ ~Loose'
    BY <2>2 DEF Wanted, Wants, Loose
  <2>6. Plan(n) /\ n \in Seq(Ops) /\ n # <<>> /\ n[1] = "reconfigure" /\ ~Body(n)
    BY <2>1, TornDownList
  <2>7. n[1] \notin Inner \cup {"departed", "register", "stop", "start_loop"}
    BY <2>6 DEF Inner
  <2>8. ~Leading(n) /\ ~BareList(n)
    BY <2>6, <2>7, Plain
  <2>9. RestTyped'
    BY <1>0, <1>5, <2>2, <2>3 DEF RestTyped, TypeInv, registry, capture
  <2>10. life' = life /\ history' = history
    BY <1>5 DEF registry
  <2> QED BY <1>1, <1>2, <1>3, <1>4, <1>5, <2>2, <2>3, <2>4, <2>5, <2>6, <2>7, <2>8, <2>9, <2>10, ClientInv
<1>7. CASE ~Owning(p[1])
  <2>1. PICK n : n = <<>>
    OBVIOUS
  <2>2. Goes(p, n) /\ entry' = entry /\ local' = local
    BY <1>7, <2>1 DEF Teardown
  <2>3. Plan(n) /\ n \in Seq(Ops) /\ ~Body(n) /\ ~AliveList(n) /\ n = <<>>
    BY <2>1, NothingList
  <2>4. ~Leading(n) /\ ~BareList(n)
    BY <2>3, Plain
  <2>5. RestTyped'
    BY <1>0, <1>5, <2>2 DEF RestTyped, TypeInv, registry, capture
  <2>6. life' = life /\ history' = history /\ (Wanted' <=> Wanted)
    BY <1>5, <2>2 DEF registry, Wanted
  <2> QED BY <1>1, <1>2, <1>3, <1>4, <1>5, <2>2, <2>3, <2>4, <2>5, <2>6, QuietInv
<1> QED BY <1>6, <1>7

-----------------------------------------------------------------------------
(* Messages *)

\* A message comes to the handler of an open socket that waits for one.
LEMMA Messaging ==
  ASSUME CaptureInv, NEW s \in Pages, Message(s)
  PROVE  /\ Handler(s) \in Coroutines /\ Handler(s) \notin Rejoins /\ todo[Handler(s)] = <<>>
         /\ Blank(todo[Handler(s)]) /\ life[s] = "open" /\ events' \in Nat
<1>1. events' = events + 1 /\ events \in Nat
  BY CaptureInvParts DEF Message, TypeInv
<1>2. events' \in Nat
  BY <1>1
<1> QED BY <1>2, HandlerRejoin, BlankNone DEF Message, Ready

\* SETTINGS that hand the display over keep the invariant.
LEMMA SettingsInv ==
  ASSUME CaptureInv, NEW o \in Owners, Settings(o)
  PROVE  CaptureInv'
<1>0. TypeInv /\ Shapes /\ o \in Pages
  BY CaptureInvParts DEF Pages
<1>1. PICK p \in Coroutines : p = Handler(o)
  BY <1>0, HandlerRejoin
<1>2. p \notin Rejoins /\ Blank(todo[p]) /\ life[o] = "open" /\ events' \in Nat
  BY <1>0, <1>1, Messaging DEF Settings
<1>3. PICK n : n = <<"register">>
  OBVIOUS
<1>4. /\ Goes(p, n)
      /\ UNCHANGED <<clients, paused, settled, capture, pass, pending, local, late, history>>
      /\ IF entry # NoOne /\ entry.ws # o
         THEN /\ entry' = [entry EXCEPT !.ws = o]
              /\ life' = [life EXCEPT ![entry.ws] = IF @ = "open" THEN "closed" ELSE @]
         ELSE UNCHANGED <<entry, life>>
  BY <1>1, <1>3 DEF Settings
<1>5. /\ entry' \in Entries \cup {NoOne} /\ (entry' = NoOne => entry = NoOne)
      /\ Wanted' => Wanted /\ entry'.told = entry.told /\ entry'.task = entry.task
      /\ life' \in [Pages -> {"new", "open", "closed", "gone"}]
      /\ \A x \in Owners : life[x] = "gone" => life'[x] = "gone"
  <2>1. CASE entry # NoOne /\ entry.ws # o
    <3>1. PICK e \in Entries : e = entry
      BY <1>0, <2>1 DEF TypeInv
    <3>2. PICK f : f = [e EXCEPT !.ws = o]
      OBVIOUS
    <3>3. f \in Entries /\ f # NoOne /\ f.task = e.task /\ f.active = e.active /\ f.told = e.told
      BY <3>2, EntryWs
    <3>4. entry' = f /\ life' = [life EXCEPT ![e.ws] = IF @ = "open" THEN "closed" ELSE @]
      BY <1>4, <2>1, <3>1, <3>2
    <3>5. Wanted' => Wanted /\ entry'.told = entry.told /\ entry'.task = entry.task
      BY <2>1, <3>1, <3>3, <3>4 DEF Wanted
    <3>6. life \in [Pages -> {"new", "open", "closed", "gone"}] /\ Owners \subseteq Pages
      BY <1>0 DEF TypeInv, Pages
    <3>7. life' \in [Pages -> {"new", "open", "closed", "gone"}]
      BY ONLY <3>4, <3>6
    <3>8. \A x \in Owners : life[x] = "gone" => life'[x] = "gone"
      BY ONLY <3>4, <3>6
    <3> QED BY <3>3, <3>4, <3>5, <3>7, <3>8
  <2>2. CASE entry' = entry /\ life' = life
    BY <1>0, <2>2 DEF TypeInv, Wanted
  <2> QED BY <1>4, <2>1, <2>2
<1>6. Plan(n) /\ n \in Seq(Ops) /\ n # <<>> /\ n[1] = "register" /\ ~Body(n) /\ ~AliveList(n)
  BY <1>3, RegisterList
<1>7. n[1] \notin Inner \cup {"departed", "stop", "start_loop"}
  BY <1>6 DEF Inner
<1>8. ~Leading(n) /\ ~BareList(n)
  BY <1>6, <1>7, Plain
<1>9. RestTyped'
  BY <1>0, <1>2, <1>4, <1>5 DEF RestTyped, TypeInv, capture
<1>10. history' = history
  BY <1>4
<1> QED BY <1>0, <1>1, <1>2, <1>4, <1>5, <1>6, <1>7, <1>8, <1>9, <1>10, QuietInv

\* START_VIDEO keeps it.
LEMMA StartVideoInv ==
  ASSUME CaptureInv, NEW s \in Pages, StartVideo(s)
  PROVE  CaptureInv'
<1>0. TypeInv /\ Locals
  BY CaptureInvParts
<1>1. PICK p \in Coroutines : p = Handler(s)
  BY HandlerRejoin
<1>2. p \notin Rejoins /\ Blank(todo[p]) /\ life[s] = "open" /\ events' \in Nat
  BY <1>1, Messaging DEF StartVideo
<1>3. /\ UNCHANGED <<clients, life, settled, capture, pass, pending, local, late>>
      /\ paused' = paused \ {s}
  BY DEF StartVideo
<1>4. CASE /\ Owning(s)
           /\ entry' = [entry EXCEPT !.active = TRUE]
           /\ Goes(p, Start \o <<"after_start">>)
           /\ UNCHANGED history
  <2>1. PICK n : n = <<"start", "release", "after_start">>
    OBVIOUS
  <2>2. Goes(p, n)
    BY <1>4, <2>1, Spelled
  <2>3. /\ Plan(n) /\ n \in Seq(Ops) /\ n # <<>> /\ n[1] = "start" /\ ~Body(n) /\ NowList(n) /\ ~BareList(n)
        /\ MonitorList(n)
    BY <2>1, StartVideoList
  <2>4. n[1] \notin Inner \cup {"departed", "register", "stop", "start_loop"} /\ InSection(n)
    BY <2>3 DEF Inner, InSection, Sections, Locking
  <2>5. ~Leading(n)
    BY <2>3, <2>4, Plain
  <2>6. entry' \in Entries /\ entry' # NoOne
    <3>1. PICK b \in BOOLEAN : b = TRUE
      OBVIOUS
    <3>2. PICK e \in Entries : e = entry
      BY <1>0, <1>4 DEF TypeInv, Owning
    <3>3. PICK f : f = [e EXCEPT !.active = b] /\ f = entry'
      BY <1>4, <3>1, <3>2
    <3>4. f \in Entries /\ f # NoOne
      BY <3>3, EntryActive
    <3> QED BY <3>3, <3>4
  <2>7. Apart(p) /\ local' \in [Coroutines -> Frames] /\ local[p].keep \in BOOLEAN
    BY <1>0, <1>3, <2>6, LocalApart
  <2>8. RestTyped'
    BY <1>0, <1>2, <1>3, <1>4, <2>6, <2>7 DEF RestTyped, TypeInv, capture
  <2>9. Fixed(p, n, local'[p].keep) /\ Watches(p, n)
    BY <1>2, <2>3, <2>4 DEF Fixed, Watches
  <2> QED BY <1>1, <1>2, <1>3, <1>4, <2>2, <2>3, <2>4, <2>5, <2>7, <2>8, <2>9, ClientInv
<1>5. CASE /\ s \in Viewers
           /\ Goes(p, IF instance THEN <<>> ELSE Start \o <<"after_start">>)
           /\ history' = Told(s)
           /\ UNCHANGED entry
  <2>1. PICK n : n = IF instance THEN <<>> ELSE <<"start", "release", "after_start">>
    OBVIOUS
  <2>2. Goes(p, n)
    BY <1>5, <2>1, Spelled
  <2>3. /\ Plan(n) /\ n \in Seq(Ops) /\ (n # <<>> => n[1] = "start") /\ ~Body(n) /\ ~AliveList(n)
    <3>1. CASE n = <<>>
      BY <3>1, NothingList
    <3>2. CASE n = <<"start", "release", "after_start">>
      <4>1. /\ Plan(n) /\ n \in Seq(Ops) /\ n[1] = "start" /\ ~Body(n)
            /\ Range(n) = {"start", "release", "after_start"}
        BY <3>2, StartVideoList
      <4> QED BY <4>1 DEF AliveList
    <3> QED BY <2>1, <3>1, <3>2
  <2>4. n # <<>> => n[1] \notin Inner \cup {"departed", "register", "stop", "start_loop"}
    BY <2>3 DEF Inner
  <2>5. ~Leading(n) /\ ~BareList(n)
    BY <2>3, <2>4, Plain
  <2>6. /\ history' \in Outcomes /\ history'.unthrottled = history.unthrottled
        /\ history'.orphaned = history.orphaned /\ history'.failed = history.failed
        /\ history'.cancelled = history.cancelled /\ history'.overtaken = history.overtaken
    <3>1. PICK U : U = history.unreset \ {s}
      OBVIOUS
    <3>2. history' = [history EXCEPT !.unreset = U] /\ U \subseteq Pages
      BY <1>0, <1>5, <3>1, NotifiedType DEF Told
    <3> QED BY <1>0, <3>2, Noted
  <2>7. RestTyped'
    BY <1>0, <1>2, <1>3, <1>5, <2>6 DEF RestTyped, TypeInv, capture
  <2>8. Wanted' <=> Wanted
    BY <1>5 DEF Wanted
  <2> QED BY <1>1, <1>2, <1>3, <1>5, <2>2, <2>3, <2>4, <2>5, <2>6, <2>7, <2>8, QuietInv
<1> QED BY <1>1, <1>4, <1>5 DEF StartVideo

\* A resize keeps it.
LEMMA ResizeInv ==
  ASSUME CaptureInv, NEW o \in Owners, Resize(o)
  PROVE  CaptureInv'
<1>0. TypeInv /\ o \in Pages
  BY CaptureInvParts DEF Pages
<1>1. PICK p \in Coroutines : p = Handler(o)
  BY <1>0, HandlerRejoin
<1>2. p \notin Rejoins /\ Blank(todo[p]) /\ life[o] = "open" /\ events' \in Nat
  BY <1>0, <1>1, Messaging DEF Resize
<1>3. UNCHANGED <<registry, entry, capture, pass, pending, local, late, history>>
  BY DEF Resize
<1>4. PICK n : /\ n \in {<<"reconfigure">>, <<"relive", "release">>,
                         <<"stop", "release", "start", "release", "resized">>}
               /\ Goes(p, n)
  <2>1. PICK how \in {<<"reconfigure">>, IF instance /\ native = "on"
                                   THEN <<"relive", "release">>
                                   ELSE Stop \o Start \o <<"resized">>} : Goes(p, how)
    BY <1>1 DEF Resize
  <2> QED BY <2>1, Spelled
<1>5. /\ Plan(n) /\ n \in Seq(Ops) /\ n # <<>> /\ n[1] \in {"reconfigure", "relive", "stop"} /\ ~Body(n) /\ ~BareList(n)
      /\ Range(n) \cap {"judge", "outputs", "start_loop", "followed"} = {}
  <2>1. CASE n = <<"reconfigure">>
    <3>1. Plan(n) /\ n \in Seq(Ops) /\ n # <<>> /\ n[1] = "reconfigure" /\ ~Body(n) /\ Range(n) = {"reconfigure"}
      BY <2>1, ReconfigureList
    <3>2. ~BareList(n)
      BY <3>1, Plain DEF Inner
    <3> QED BY <3>1, <3>2
  <2>2. CASE n = <<"relive", "release">>
    <3>1. Plan(n) /\ n \in Seq(Ops) /\ n # <<>> /\ n[1] = "relive" /\ ~Body(n) /\ Range(n) = {"relive", "release"} /\ ~BareList(n)
      BY <2>2, ResizeLiveList
    <3> QED BY <3>1
  <2>3. CASE n = <<"stop", "release", "start", "release", "resized">>
    <3>1. Plan(n) /\ n \in Seq(Ops) /\ n # <<>> /\ n[1] = "stop" /\ ~Body(n) /\ ~BareList(n)
          /\ Range(n) = {"stop", "release", "start", "resized"}
      BY <2>3, RebuildList
    <3> QED BY <3>1
  <2> QED BY <1>4, <2>1, <2>2, <2>3
<1>6. n[1] \notin Inner \cup {"departed", "register"}
  BY <1>5 DEF Inner
<1>7. ~Leading(n) /\ ~AliveList(n)
  BY <1>5 DEF Leading, AliveList
<1>8. RestTyped'
  BY <1>0, <1>2, <1>3 DEF RestTyped, TypeInv, registry, capture
<1>9. (Wanted' <=> Wanted) /\ entry' = entry /\ history' = history /\ life' = life
  BY <1>3 DEF Wanted, registry
<1> QED BY <1>0, <1>1, <1>2, <1>3, <1>4, <1>5, <1>6, <1>7, <1>8, <1>9, QuietInv

\* A rejoin that is deferred keeps it.
LEMMA ThrottleInv ==
  ASSUME CaptureInv, NEW v \in Viewers, Throttle(v)
  PROVE  CaptureInv'
<1>0. TypeInv /\ Locals /\ v \in Pages
  BY CaptureInvParts DEF Pages
<1>1. PICK p \in Coroutines : p = Rejoin(v)
  BY HandlerRejoin
<1>2. p \in Rejoins /\ todo[p] = <<>> /\ Blank(todo[p]) /\ events' \in Nat
  BY <1>0, <1>1, Messaging, BlankNone DEF Throttle, Rejoins
<1>3. PICK n : n = <<"rejoin">>
  OBVIOUS
<1>4. /\ UNCHANGED <<registry, entry, capture, pass, pending, late, history>>
      /\ Goes(p, n) /\ local' = [local EXCEPT ![p] = Fresh]
  BY <1>1, <1>3 DEF Throttle
<1>5. /\ local' \in [Coroutines -> Frames] /\ ~local'[p].same /\ ~local'[p].keep
      /\ \A c \in Coroutines : c # p => local'[c] = local[c]
      /\ local[p].keep \in BOOLEAN
  <2>1. local \in [Coroutines -> Frames] /\ Fresh \in Frames /\ ~Fresh.same /\ ~Fresh.keep
    BY <1>0 DEF TypeInv, Fresh, Frames
  <2>2. local[p].keep \in BOOLEAN
    BY ONLY <2>1, p \in Coroutines DEF Frames
  <2> QED BY <1>4, <2>1, <2>2
<1>6. /\ life' = life /\ entry' = entry /\ history' = history /\ (Wanted' <=> Wanted)
      /\ instance' = instance
  BY <1>4 DEF registry, Wanted, capture
<1>7. Apart(p)
  BY <1>0, <1>5, <1>6 DEF Apart, Locals
<1>8. RestTyped'
  BY <1>0, <1>2, <1>4, <1>5 DEF RestTyped, TypeInv, registry, capture
<1>9. Plan(n) /\ n \in Seq(Ops) /\ n # <<>> /\ n[1] = "rejoin" /\ ~Body(n) /\ ~AliveList(n) /\ Range(n) \subseteq RejoinOps
  BY <1>3, DeferredList
<1>10. n[1] \notin Inner \cup {"departed", "register", "stop", "start_loop"} \cup StopOps
  BY <1>9 DEF Inner, StopOps
<1>11. ~Leading(n) /\ ~BareList(n) /\ Rejoining(n)
  BY <1>9, <1>10, Plain DEF Rejoining
<1>12. todo' = Put(todo, p, n)
  BY <1>4, <1>9, GoesPut
<1>13. Wants' => Wants
  BY <1>0, <1>6, <1>9, <1>12, AliveStep, WantsStep
<1>14. Loose' => Loose
  BY <1>6, <1>13 DEF Loose
<1> QED BY <1>2, <1>4, <1>5, <1>6, <1>7, <1>8, <1>9, <1>10, <1>11, <1>13, <1>14, ClientInv

-----------------------------------------------------------------------------
(* Steps of no coroutine *)

\* No coroutine moves: a socket joins, or the native capture goes its own way.
LEMMA StillInv ==
  ASSUME CaptureInv, RestTyped', todo' = todo, lock' = lock, local' = local, entry' = entry,
         instance' = instance, group' = group, pass' = pass, pending' = pending,
         \A o \in Owners : life[o] = "gone" => life'[o] = "gone",
         history'.failed = history.failed, history'.unthrottled = history.unthrottled,
         Consistent => Consistent',
         ~instance /\ native' # "off" =>
           \/ history'.orphaned \/ \E r \in Coroutines : <<r, "stop">> \in late'
           \/ native # "off" /\ ~history.orphaned /\ ~\E r \in Coroutines : <<r, "stop">> \in late
  PROVE  CaptureInv'
<1>0. TypeInv /\ Shapes /\ LockInv /\ PassInv /\ Graces /\ Locals /\ Tables /\ WantedInv /\ MonitorInv
  BY DEF CaptureInv
<1>1. TypeInv'
  BY <1>0 DEF TypeInv, RestTyped
<1>2. Shapes' /\ LockInv' /\ PassInv'
  BY <1>0 DEF Shapes, LockInv, PassInv, At
<1>3. Graces' /\ Locals'
  BY <1>0 DEF Graces, Locals, At
<1>4. Tables'
  BY <1>0 DEF Tables, At
<1>5. Wants' <=> Wants
  BY DEF Wants, Wanted, PassAlive
<1>6. \A c \in Coroutines : (LaterFix(c)' <=> LaterFix(c)) /\ (NowFix(c)' <=> NowFix(c))
  BY DEF LaterFix, NowFix, Holds, Rejoins
<1>7. Nows' = Nows /\ Bares' = Bares
  BY <1>6 DEF Nows, Bares
<1>8. WantedInv'
  BY <1>0, <1>5, <1>6, <1>7 DEF WantedInv, Danger, Promise
<1>9. \A c \in Coroutines : Monitorer(c)' <=> Monitorer(c)
  BY DEF Monitorer, At, Rejoins
<1>10. MonitorInv'
  BY <1>0, <1>5, <1>9 DEF MonitorInv
<1> QED BY <1>1, <1>2, <1>3, <1>4, <1>8, <1>10 DEF CaptureInv

\* A socket that joins keeps the invariant.
LEMMA JoinInv ==
  ASSUME CaptureInv, NEW s \in Pages, Join(s)
  PROVE  CaptureInv'
<1>0. TypeInv
  BY CaptureInvParts
<1>1. /\ UNCHANGED <<paused, settled, entry, capture, control, pass, pending, local, late, history, events>>
      /\ life[s] = "new" /\ clients' = clients \cup {s} /\ life' = [life EXCEPT ![s] = "open"]
  BY DEF Join
<1>2. life' \in [Pages -> {"new", "open", "closed", "gone"}] /\ \A o \in Owners : life[o] = "gone" => life'[o] = "gone"
  <2>1. life \in [Pages -> {"new", "open", "closed", "gone"}] /\ Owners \subseteq Pages
    BY <1>0 DEF TypeInv, Pages
  <2> QED BY ONLY <1>1, <2>1
<1>3. RestTyped'
  BY <1>0, <1>1, <1>2 DEF RestTyped, TypeInv, capture
<1>4. todo' = todo /\ lock' = lock /\ instance' = instance /\ group' = group /\ native' = native
  BY <1>1 DEF control, capture
<1>5. Consistent => Consistent'
  BY <1>1, <1>4 DEF Consistent
<1> QED BY <1>1, <1>2, <1>3, <1>4, <1>5, StillInv

\* A native capture that dies keeps it.
LEMMA CaptureDiesInv ==
  ASSUME CaptureInv, CaptureDies
  PROVE  CaptureInv'
<1>0. TypeInv
  BY CaptureInvParts
<1>1. /\ UNCHANGED <<registry, entry, instance, group, control, pass, pending, local, late, history>>
      /\ native = "on" /\ native' = "dead"
  BY DEF CaptureDies
<1>2. events' \in Nat
  <2>1. events' = events + 1 /\ events \in Nat
    BY <1>0 DEF CaptureDies, TypeInv
  <2> QED BY <2>1
<1>3. RestTyped'
  BY <1>0, <1>1, <1>2 DEF RestTyped, TypeInv, registry
<1>4. todo' = todo /\ lock' = lock /\ life' = life
  BY <1>1 DEF control, registry
<1>5. Consistent => Consistent'
  BY <1>1 DEF Consistent
<1> QED BY <1>1, <1>3, <1>4, <1>5, StillInv

\* The end of a native call whose coroutine was cancelled.
LEMMA LateNoted ==
  ASSUME TypeInv, NEW b \in BOOLEAN, NEW d \in BOOLEAN,
         history' = [history EXCEPT !.orphaned = b, !.overtaken = d]
  PROVE  /\ history' \in Outcomes /\ history'.orphaned = b /\ history'.overtaken = d
         /\ history'.unthrottled = history.unthrottled /\ history'.failed = history.failed
         /\ history'.cancelled = history.cancelled
<1>1. history \in Outcomes
  BY DEF TypeInv
<1>2. PICK h : h = [history EXCEPT !.orphaned = b, !.overtaken = d]
  OBVIOUS
<1>3. /\ h \in Outcomes /\ h.orphaned = b /\ h.overtaken = d
      /\ h.unthrottled = history.unthrottled /\ h.failed = history.failed
      /\ h.cancelled = history.cancelled
  BY ONLY <1>1, <1>2, b \in BOOLEAN, d \in BOOLEAN DEF Outcomes
<1> QED BY <1>2, <1>3

\* The end of a cancelled start keeps it.
LEMMA LateStartInv ==
  ASSUME CaptureInv, LateStart
  PROVE  CaptureInv'
<1>0. TypeInv
  BY CaptureInvParts
<1>1. /\ UNCHANGED <<registry, entry, instance, group, control, pass, pending, local, events>>
      /\ native' = "on" /\ history' = [history EXCEPT !.orphaned = @ \/ ~instance]
  BY DEF LateStart
<1>2. late' \in SUBSET (Coroutines \X {"start", "stop"})
  BY <1>0 DEF LateStart, TypeInv
<1>3. /\ history' \in Outcomes /\ history'.orphaned = (history.orphaned \/ ~instance)
      /\ history'.overtaken = history.overtaken
      /\ history'.unthrottled = history.unthrottled /\ history'.failed = history.failed
      /\ history'.cancelled = history.cancelled
  <2>1. PICK b \in BOOLEAN : b = (history.orphaned \/ ~instance)
    OBVIOUS
  <2>2. history \in Outcomes
    BY <1>0 DEF TypeInv
  <2>3. PICK d \in BOOLEAN : d = history.overtaken
    BY <2>2 DEF Outcomes
  <2>4. [history EXCEPT !.orphaned = b] = [history EXCEPT !.orphaned = b, !.overtaken = d]
    BY ONLY <2>2, <2>3 DEF Outcomes
  <2>5. history' = [history EXCEPT !.orphaned = b, !.overtaken = d]
    BY <1>1, <2>1, <2>4
  <2> QED BY <1>0, <2>1, <2>3, <2>5, LateNoted
<1>4. RestTyped'
  BY <1>0, <1>1, <1>2, <1>3 DEF RestTyped, TypeInv, registry
<1>5. todo' = todo /\ lock' = lock /\ life' = life
  BY <1>1 DEF control, registry
<1>6. Consistent => Consistent'
  BY <1>1, <1>3 DEF Consistent
<1> QED BY <1>1, <1>3, <1>4, <1>5, <1>6, StillInv

\* The end of a cancelled stop keeps it.
LEMMA LateStopInv ==
  ASSUME CaptureInv, LateStop
  PROVE  CaptureInv'
<1>0. TypeInv
  BY CaptureInvParts
<1>1. /\ UNCHANGED <<registry, entry, instance, group, control, pass, pending, local, events>>
      /\ native' = "off" /\ history' = [history EXCEPT !.orphaned = FALSE, !.overtaken = @ \/ instance]
  BY DEF LateStop
<1>2. late' \in SUBSET (Coroutines \X {"start", "stop"})
  BY <1>0 DEF LateStop, TypeInv
<1>3. /\ history' \in Outcomes /\ ~history'.orphaned
      /\ history'.overtaken = (history.overtaken \/ instance)
      /\ history'.unthrottled = history.unthrottled /\ history'.failed = history.failed
      /\ history'.cancelled = history.cancelled
  <2>1. PICK b \in BOOLEAN : b = FALSE
    OBVIOUS
  <2>2. PICK d \in BOOLEAN : d = (history.overtaken \/ instance)
    OBVIOUS
  <2>3. history' = [history EXCEPT !.orphaned = b, !.overtaken = d]
    BY <1>1, <2>1, <2>2
  <2> QED BY <1>0, <2>1, <2>2, <2>3, LateNoted
<1>4. RestTyped'
  BY <1>0, <1>1, <1>2, <1>3 DEF RestTyped, TypeInv, registry
<1>5. todo' = todo /\ lock' = lock /\ life' = life
  BY <1>1 DEF control, registry
<1>6. Consistent => Consistent'
  BY <1>1, <1>3 DEF Consistent
<1> QED BY <1>1, <1>3, <1>4, <1>5, <1>6, StillInv

-----------------------------------------------------------------------------
(* Departures and cancelled rejoins *)

\* The teardown of a display is deferred to the end of its grace period.
LEMMA DefersInv ==
  ASSUME CaptureInv, NEW o \in Owners, At(Handler(o), "departed"),
         todo' = [todo EXCEPT ![Handler(o)] = <<>>, ![Grace(o)] = <<"teardown">>], lock' = lock,
         UNCHANGED <<registry, entry, capture, pass, pending, local, late, history, events>>
  PROVE  CaptureInv'
<1>0. TypeInv /\ Shapes /\ LockInv /\ PassInv /\ Graces /\ Locals /\ Tables /\ WantedInv /\ MonitorInv
  BY DEF CaptureInv
<1>1. PICK p \in Coroutines, g \in Coroutines : p = Handler(o) /\ g = Grace(o) /\ p # g /\ p \notin Rejoins /\ g \notin Rejoins
  <2>1. o \in Pages
    BY DEF Pages
  <2> QED BY <2>1, HandlerRejoin
<1>2. todo \in Todos /\ lock \in Q /\ LockOK(todo, lock)
  BY <1>0, Typed DEF LockInv
<1>3. PICK d : d = <<"teardown">>
  OBVIOUS
<1>4. /\ Plan(d) /\ d # <<>> /\ Head(d) = "teardown" /\ d[1] = "teardown" /\ ~Body(d) /\ ~AliveList(d)
      /\ d \in Seq(Ops) /\ Blank(d)
  <2>1. Plan(d) /\ d # <<>> /\ Head(d) = "teardown" /\ d[1] = "teardown" /\ ~Body(d) /\ ~AliveList(d) /\ d \in Seq(Ops)
    BY <1>3, TeardownList
  <2>2. Blank(d)
    BY <2>1, BlankOne DEF Singles
  <2> QED BY <2>1, <2>2
<1>5. /\ todo'[p] = <<>> /\ todo'[g] = d /\ todo' \in Todos
      /\ \A c \in Coroutines : c # p /\ c # g => todo'[c] = todo[c]
  <2>1. todo' = [todo EXCEPT ![p] = <<>>, ![g] = d]
    BY <1>1, <1>3
  <2>2. <<>> \in Seq(Ops)
    OBVIOUS
  <2> QED BY ONLY <2>1, <2>2, <1>1, <1>2, <1>4 DEF Todos
<1>6. /\ todo[p] # <<>> /\ todo[p][1] = "departed" /\ life[o] = "gone" /\ todo[g] = <<>> /\ Plan(todo[p])
  <2>1. todo[p] # <<>> /\ todo[p][1] = "departed" /\ Plan(todo[p])
    BY <1>0, <1>1, AtHead
  <2>2. life[o] = "gone" /\ todo[g] = <<>>
    BY <1>0, <1>1, <2>1 DEF Graces
  <2> QED BY <2>1, <2>2
<1>7. Blank(todo[p]) /\ Blank(todo[g]) /\ Blank(todo'[p]) /\ Blank(todo'[g])
  <2>1. Blank(todo[p])
    BY <1>6, BlankOne DEF Singles
  <2> QED BY <2>1, <1>4, <1>5, <1>6, BlankNone
<1>8. /\ life' = life /\ entry' = entry /\ instance' = instance /\ native' = native /\ group' = group
      /\ pass' = pass /\ pending' = pending /\ local' = local /\ late' = late /\ history' = history
  BY DEF registry, capture
<1>9. \A c \in Coroutines : todo'[c] = todo[c] \/ (Blank(todo[c]) /\ Blank(todo'[c]) /\ c \notin Rejoins)
  BY <1>1, <1>5, <1>7
<1>10. TypeInv'
  BY <1>0, <1>5, <1>8 DEF TypeInv, Todos, registry
<1>11. Shapes'
  <2>1. \A c \in Coroutines : Plan(todo'[c])
    BY <1>0, <1>4, <1>5, NothingList DEF Shapes
  <2>2. \A v \in Viewers : Rejoining(todo'[Rejoin(v)])
    <3>1. TAKE v \in Viewers
    <3>2. Rejoin(v) \in Coroutines /\ Rejoin(v) \in Rejoins
      BY HandlerRejoin DEF Rejoins
    <3> QED BY <3>2, <1>0, <1>1, <1>5 DEF Shapes
  <2>3. \A c \in Coroutines : At(c, "departed")' => \E s \in Pages : c = Handler(s)
    BY <1>0, <1>4, <1>5 DEF Shapes, At
  <2>4. \A c \in Coroutines : At(c, "register")' => \E s \in Owners : c = Handler(s)
    BY <1>0, <1>4, <1>5 DEF Shapes, At
  <2> QED BY <2>1, <2>2, <2>3, <2>4 DEF Shapes
<1>12. \A c \in Coroutines : InSection(todo'[c]) <=> InSection(todo[c])
  BY <1>9 DEF Blank
<1>13. \A c \in Coroutines : InSection(todo[c]) => todo'[c] = todo[c]
  BY <1>9 DEF Blank
<1>14. LockInv'
  <2>1. \A c \in Coroutines : todo'[c] # <<>> /\ todo'[c][1] \in Inner => lock # <<>> /\ lock[1] = c
    <3>1. SUFFICES ASSUME NEW c \in Coroutines, todo'[c] # <<>>, todo'[c][1] \in Inner
                   PROVE  lock # <<>> /\ lock[1] = c
      OBVIOUS
    <3>2. InSection(todo'[c])
      BY <3>1 DEF InSection, Sections
    <3>3. todo'[c] = todo[c]
      BY <3>2, <1>12, <1>13
    <3> QED BY <3>1, <3>3, <1>2 DEF LockOK
  <2>2. \A c \in Coroutines : (\E i \in 1 .. Len(lock) : lock[i] = c) <=> InSection(todo'[c])
    <3>1. \A c \in Coroutines : (\E i \in 1 .. Len(lock) : lock[i] = c) <=> InSection(todo[c])
      BY <1>2 DEF LockOK, InSection
    <3> QED BY <3>1, <1>12
  <2>3. LockOK(todo', lock)
    BY <2>1, <2>2, <1>2 DEF LockOK, InSection
  <2> QED BY <2>3 DEF LockInv
<1>15. PassInv'
  BY <1>0, <1>8, <1>9 DEF PassInv, Blank
<1>16. Graces'
  <2>1. SUFFICES ASSUME NEW x \in Owners
                 PROVE  /\ todo'[Grace(x)] # <<>> => life'[x] = "gone" /\ todo'[Handler(x)] = <<>>
                        /\ At(Handler(x), "departed")' => life'[x] = "gone"
    BY DEF Graces
  <2>2. x \in Pages /\ Handler(x) \in Coroutines /\ Grace(x) \in Coroutines /\ Handler(x) # g /\ Grace(x) # p
        /\ (Handler(x) = p => x = o) /\ (Grace(x) = g => x = o)
    BY <1>1, HandlerRejoin DEF Pages
  <2>3. CASE x = o
    BY <2>3, <1>1, <1>5, <1>6, <1>8
  <2>4. CASE x # o
    BY <2>2, <2>4, <1>0, <1>5, <1>8 DEF Graces, At
  <2> QED BY <2>3, <2>4
<1>17. Locals'
  <2>1. ~Leading(<<>>) /\ ~Leading(d)
    BY <1>4, Plain, NothingList DEF Inner
  <2> QED BY <2>1, <1>0, <1>5, <1>8 DEF Locals
<1>18. lock # <<>> => lock[1] \in Coroutines /\ todo'[lock[1]] = todo[lock[1]]
  <2>1. SUFFICES ASSUME lock # <<>> PROVE lock[1] \in Coroutines /\ todo'[lock[1]] = todo[lock[1]]
    OBVIOUS
  <2>2. Len(lock) \in Nat /\ Len(lock) >= 1 /\ \A i \in 1 .. Len(lock) : lock[i] \in Coroutines
    BY <2>1, <1>2, QListed
  <2>3. 1 \in 1 .. Len(lock)
    BY <2>2
  <2>4. InSection(todo[lock[1]])
    BY <2>2, <2>3, <1>2 DEF LockOK, InSection
  <2> QED BY <2>2, <2>3, <2>4, <1>13
<1>19. Tables'
  <2>1. Consistent' <=> Consistent
    BY <1>8 DEF Consistent
  <2> QED BY <2>1, <1>0, <1>8, <1>18 DEF Tables, At
<1>20. Wants' <=> Wants
  <2>1. \A c \in Coroutines : AliveList(todo'[c]) <=> AliveList(todo[c])
    BY <1>9 DEF Blank
  <2> QED BY <2>1, <1>8 DEF Wants, Wanted, PassAlive
<1>21. \A c \in Coroutines : LaterFix(c)' <=> LaterFix(c)
  <2>1. TAKE c \in Coroutines
  <2>2. local[c].keep \in BOOLEAN
    BY <1>0 DEF TypeInv, Frames
  <2>3. CASE todo'[c] = todo[c]
    BY <2>3, <1>8 DEF LaterFix, Rejoins
  <2>4. CASE Blank(todo[c]) /\ Blank(todo'[c])
    BY <2>2, <2>4, <1>8 DEF LaterFix, Blank
  <2> QED BY <2>3, <2>4, <1>9
<1>22. \A i \in 1 .. Len(lock) : /\ lock[i] \in Nows => lock[i] \in Nows'
                                 /\ lock[i] \in Bares' => lock[i] \in Bares
  <2>1. TAKE i \in 1 .. Len(lock)
  <2>2. lock[i] \in Coroutines /\ InSection(todo[lock[i]])
    BY <1>2, QListed DEF LockOK, InSection
  <2>3. PICK c \in Coroutines : c = lock[i] /\ todo'[c] = todo[c]
    BY <2>2, <1>13
  <2>4. NowFix(c) => NowFix(c)'
    BY <2>3, <1>8 DEF NowFix, Holds, Rejoins
  <2>5. BareList(todo'[c]) => BareList(todo[c])
    BY <2>3
  <2> QED BY <2>3, <2>4, <2>5, InNows, InNowsNext
<1>23. /\ Served(lock, Nows, Bares) => Served(lock, Nows', Bares')
       /\ Bared(lock, Bares') => Bared(lock, Bares)
  BY <1>2, <1>22, ServedMono
<1>24. WantedInv'
  <2>1. Danger' => Danger
    BY <1>8, <1>23 DEF Danger
  <2>2. Promise => Promise'
    BY <1>8, <1>21, <1>23 DEF Promise
  <2> QED BY <2>1, <2>2, <1>0, <1>20 DEF WantedInv
<1>25. MonitorInv'
  <2>1. \A c \in Coroutines : Monitorer(c) => Monitorer(c)'
    <3>1. TAKE c \in Coroutines
    <3>2. Monitorer(c) <=> Watches(c, todo[c])
      BY <1>0, Watching
    <3>3. Monitorer(c)' <=> Watches(c, todo'[c])
      BY <1>10, WatchingNext
    <3>4. Blank(todo[c]) => ~Watches(c, todo[c])
      BY DEF Blank, Watches
    <3> QED BY <3>2, <3>3, <3>4, <1>9
  <2> QED BY <2>1, <1>0, <1>8, <1>20 DEF MonitorInv
<1> QED BY <1>10, <1>11, <1>14, <1>15, <1>16, <1>17, <1>19, <1>24, <1>25 DEF CaptureInv

\* The end of a handler keeps the invariant.
LEMMA DepartedInv ==
  ASSUME CaptureInv, NEW p \in Coroutines, Departed(p)
  PROVE  CaptureInv'
<1>0. TypeInv /\ Shapes
  BY CaptureInvParts
<1>1. PICK s : s = todo[p]
  OBVIOUS
<1>2. Plan(s) /\ s # <<>> /\ s[1] = "departed"
  BY <1>0, <1>1, AtHead DEF Departed
<1>3. Blank(s)
  BY <1>2, BlankOne DEF Singles
<1>4. p \notin Rejoins
  BY <1>0, <1>1, <1>2, NotRejoin DEF RejoinOps, Inner
<1>5. UNCHANGED <<registry, capture, pass, pending, local, late, history, events>> /\ At(p, "departed")
  BY DEF Departed
<1>6. PICK o \in Pages : p = Handler(o) /\ p[1] = o
  BY <1>0, <1>5, HandlerRejoin DEF Shapes
<1>7. CASE Owning(o)
  <2>1. o \in Owners
    BY <1>0, <1>7 DEF TypeInv, Owning, Entries
  <2>2. /\ todo' = [todo EXCEPT ![Handler(o)] = <<>>, ![Grace(o)] = <<"teardown">>]
        /\ UNCHANGED <<lock, entry>>
    BY <1>6, <1>7 DEF Departed
  <2> QED BY <2>1, <2>2, <1>5, <1>6, DefersInv
<1>8. CASE ~Owning(o)
  <2>1. StopIfUnconsumed(p, <<"last">>)
    BY <1>6, <1>8 DEF Departed
  <2> QED BY <2>1, <1>1, <1>2, <1>3, <1>4, <1>5, UnconsumedInv
<1> QED BY <1>7, <1>8

\* What a cancellation leaves in the history.
LEMMA CancelNoted ==
  ASSUME TypeInv, NEW a \in BOOLEAN, NEW b \in BOOLEAN, NEW d \in BOOLEAN, NEW U, U \subseteq Pages,
         history' = [history EXCEPT !.cancelled = a, !.failed = b, !.unthrottled = d, !.unreset = U]
  PROVE  /\ history' \in Outcomes /\ history'.cancelled = a /\ history'.failed = b /\ history'.unthrottled = d
         /\ history'.orphaned = history.orphaned /\ history'.overtaken = history.overtaken
<1>1. history \in Outcomes
  BY DEF TypeInv
<1>2. PICK h : h = [history EXCEPT !.cancelled = a, !.failed = b, !.unthrottled = d, !.unreset = U]
  OBVIOUS
<1>3. /\ h \in Outcomes /\ h.cancelled = a /\ h.failed = b /\ h.unthrottled = d
      /\ h.orphaned = history.orphaned /\ h.overtaken = history.overtaken
  BY ONLY <1>1, <1>2, a \in BOOLEAN, b \in BOOLEAN, d \in BOOLEAN, U \subseteq Pages DEF Outcomes
<1> QED BY <1>2, <1>3

\* The end of the rejoin, if it ends, and the handler's next operations.
Cancels(s, ends, ops) ==
  /\ ends => s \in Viewers /\ todo[Rejoin(s)] # <<>>
             /\ ~At(Rejoin(s), "stop_bp") /\ ~At(Rejoin(s), "bp_again")
  /\ todo' = Put(IF ends THEN Put(todo, Rejoin(s), <<>>) ELSE todo, Handler(s), ops)
  /\ lock' = Queued(IF ends THEN Unqueued(lock, Rejoin(s)) ELSE lock, Handler(s), ops)
  /\ local' \in [Coroutines -> Frames]
  /\ \A c \in Coroutines : local'[c].keep = local[c].keep /\ local'[c].same = local[c].same
  /\ late \subseteq late' /\ late' \in SUBSET (Coroutines \X {"start", "stop"})
  /\ history' \in Outcomes
  /\ history'.orphaned = history.orphaned /\ history'.overtaken = history.overtaken
  /\ history.cancelled => history'.cancelled
  /\ history.failed => history'.failed
  /\ history.unthrottled => history'.unthrottled
  /\ ends /\ At(Rejoin(s), "stop_native") => <<Rejoin(s), "stop">> \in late' /\ history'.cancelled /\ history'.failed
  /\ ends /\ At(Rejoin(s), "start_native") => history'.cancelled /\ history'.failed
  /\ ends /\ At(Rejoin(s), "start") /\ Holds(Rejoin(s)) /\ ~instance => history'.failed
  /\ ends /\ (At(Rejoin(s), "stop_pop") \/ At(Rejoin(s), "bp")) /\ entry # NoOne /\ ~entry.task => history'.unthrottled

\* Cancelling the rejoin of a socket either ends it, or does not.
LEMMA CancelFacts ==
  ASSUME CaptureInv, NEW s \in Pages, NEW ops \in Seq(Ops), CancelRejoin(s, ops)
  PROVE  \E ends \in BOOLEAN : Cancels(s, ends, ops)
<1>0. TypeInv
  BY CaptureInvParts
<1> DEFINE r == Rejoin(s)
           cancelled == s \in Viewers /\ Pending(s)
           swallowed == cancelled /\ (At(r, "stop_bp") \/ At(r, "bp_again"))
           ended == cancelled /\ ~swallowed
           calls == {call \in {<<r, "start">>, <<r, "stop">>} :
                       ended /\ At(r, IF call[2] = "start" THEN "start_native" ELSE "stop_native")}
           unstarted == ended /\ (calls # {} \/ (At(r, "start") /\ Holds(r) /\ ~instance))
           unmonitored == ended /\ (At(r, "stop_pop") \/ At(r, "bp")) /\ entry # NoOne /\ ~entry.task
<1>1. /\ todo' = [p \in Coroutines |->
                   IF p = Handler(s) THEN ops
                   ELSE IF ended /\ p = r THEN <<>> ELSE todo[p]]
      /\ lock' = Queued(IF ended THEN Unqueued(lock, r) ELSE lock, Handler(s), ops)
      /\ local' = IF swallowed THEN [local EXCEPT ![r].adrift = TRUE] ELSE local
      /\ late' = late \cup calls
      /\ history' = [history EXCEPT !.cancelled = @ \/ calls # {},
                                    !.failed = @ \/ unstarted,
                                    !.unthrottled = @ \/ unmonitored,
                                    !.unreset = @ \cap clients']
  BY DEF CancelRejoin
<1>2. todo \in Todos /\ Handler(s) \in Coroutines /\ (s \in Viewers => r \in Coroutines /\ r # Handler(s))
  BY <1>0, Typed, HandlerRejoin
<1>3. (cancelled => s \in Viewers /\ todo[r] # <<>>) /\ (ended => cancelled)
  BY DEF Pending
<1>4. PICK ends \in BOOLEAN : ends = ended
  OBVIOUS
<1>5. todo' = Put(IF ends THEN Put(todo, r, <<>>) ELSE todo, Handler(s), ops)
  <2>1. PICK t1 : t1 = IF ends THEN Put(todo, r, <<>>) ELSE todo
    OBVIOUS
  <2>2. /\ t1 \in [Coroutines -> Seq(Ops)]
        /\ \A p \in Coroutines : t1[p] = IF ends /\ p = r THEN <<>> ELSE todo[p]
    <3>1. CASE ends
      <4>1. t1 = [todo EXCEPT ![r] = <<>>] /\ r \in Coroutines /\ todo \in [Coroutines -> Seq(Ops)]
        BY <1>2, <1>3, <1>4, <2>1, <3>1 DEF Put, Todos
      <4>2. <<>> \in Seq(Ops)
        OBVIOUS
      <4> QED BY ONLY <3>1, <4>1, <4>2
    <3>2. CASE ~ends
      BY <1>2, <2>1, <3>2 DEF Todos
    <3> QED BY <3>1, <3>2
  <2>3. Put(t1, Handler(s), ops) = [t1 EXCEPT ![Handler(s)] = ops]
    BY DEF Put
  <2>4. PICK h \in Coroutines : h = Handler(s)
    BY <1>2
  <2>5. Put(t1, h, ops) = [p \in Coroutines |-> IF p = h THEN ops ELSE t1[p]]
    BY <2>2 DEF Put
  <2>6. todo' = [p \in Coroutines |-> IF p = h THEN ops ELSE IF ends /\ p = r THEN <<>> ELSE todo[p]]
    BY <1>1, <1>4, <2>4
  <2>7. [p \in Coroutines |-> IF p = h THEN ops ELSE IF ends /\ p = r THEN <<>> ELSE todo[p]]
          = [p \in Coroutines |-> IF p = h THEN ops ELSE t1[p]]
    BY ONLY <2>2
  <2> QED BY <2>1, <2>4, <2>5, <2>6, <2>7
<1>6. /\ local' \in [Coroutines -> Frames]
      /\ \A c \in Coroutines : local'[c].keep = local[c].keep /\ local'[c].same = local[c].same
  <2>1. local \in [Coroutines -> Frames]
    BY <1>0 DEF TypeInv
  <2>2. CASE swallowed
    <3>1. local' = [local EXCEPT ![r].adrift = TRUE] /\ r \in Coroutines
      BY <1>1, <1>2, <1>3, <2>2
    <3>2. local[r] \in Frames
      BY <2>1, <3>1
    <3>3. PICK f : f = [local[r] EXCEPT !.adrift = TRUE]
      OBVIOUS
    <3>4. f \in Frames /\ f.keep = local[r].keep /\ f.same = local[r].same
      BY ONLY <3>2, <3>3 DEF Frames
    <3>5. local' = [local EXCEPT ![r] = f]
      BY <3>1, <3>3
    <3>6. local' \in [Coroutines -> Frames]
      BY ONLY <2>1, <3>1, <3>4, <3>5
    <3>7. \A c \in Coroutines : local'[c] = IF c = r THEN f ELSE local[c]
      BY ONLY <2>1, <3>1, <3>5
    <3> QED BY <3>4, <3>6, <3>7
  <2>3. CASE ~swallowed
    BY <1>1, <2>1, <2>3
  <2> QED BY <2>2, <2>3
<1>7. late \subseteq late' /\ late' \in SUBSET (Coroutines \X {"start", "stop"})
  <2>1. calls \subseteq {<<r, "start">>, <<r, "stop">>} /\ (calls # {} => r \in Coroutines)
    BY <1>2, <1>3
  <2>2. calls \subseteq Coroutines \X {"start", "stop"}
    BY <2>1
  <2> QED BY <2>2, <1>0, <1>1 DEF TypeInv
<1>8. /\ ended /\ At(r, "stop_native") => <<r, "stop">> \in calls
      /\ ended /\ At(r, "start_native") => <<r, "start">> \in calls
  <2>1. <<r, "stop">>[2] = "stop" /\ <<r, "start">>[2] = "start"
    OBVIOUS
  <2> QED BY <2>1
<1>9. PICK a \in BOOLEAN, b \in BOOLEAN, d \in BOOLEAN :
        /\ a = (history.cancelled \/ calls # {}) /\ b = (history.failed \/ unstarted)
        /\ d = (history.unthrottled \/ unmonitored)
  OBVIOUS
<1>10. PICK U : U = history.unreset \cap clients' /\ U \subseteq Pages
  <2>1. history.unreset \subseteq Pages
    BY <1>0 DEF TypeInv, Outcomes
  <2> QED BY <2>1
<1>11. history' = [history EXCEPT !.cancelled = a, !.failed = b, !.unthrottled = d, !.unreset = U]
  BY <1>1, <1>9, <1>10
<1>12. /\ history' \in Outcomes /\ history'.cancelled = a /\ history'.failed = b /\ history'.unthrottled = d
       /\ history'.orphaned = history.orphaned /\ history'.overtaken = history.overtaken
  <2>1. TypeInv /\ U \subseteq Pages
    BY <1>0, <1>10
  <2>2. a \in BOOLEAN /\ b \in BOOLEAN /\ d \in BOOLEAN
    BY <1>9
  <2> QED BY ONLY <2>1, <2>2, <1>11, CancelNoted
<1>13. /\ history.cancelled => history'.cancelled
       /\ history.failed => history'.failed
       /\ history.unthrottled => history'.unthrottled
  BY <1>9, <1>12
<1>14. ends /\ At(r, "stop_native") => <<r, "stop">> \in late' /\ history'.cancelled /\ history'.failed
  BY <1>1, <1>4, <1>8, <1>9, <1>12
<1>15. ends /\ At(r, "start_native") => history'.cancelled /\ history'.failed
  BY <1>4, <1>8, <1>9, <1>12
<1>16. ends /\ At(r, "start") /\ Holds(r) /\ ~instance => history'.failed
  BY <1>4, <1>9, <1>12
<1>17. ends /\ (At(r, "stop_pop") \/ At(r, "bp")) /\ entry # NoOne /\ ~entry.task => history'.unthrottled
  BY <1>4, <1>9, <1>12
<1>18. ends => s \in Viewers /\ todo[r] # <<>> /\ ~At(r, "stop_bp") /\ ~At(r, "bp_again")
  BY <1>3, <1>4
<1>19. lock' = Queued(IF ends THEN Unqueued(lock, r) ELSE lock, Handler(s), ops)
  BY <1>1, <1>4
<1>20. Cancels(s, ends, ops)
  BY ONLY <1>5, <1>6, <1>7, <1>12, <1>13, <1>14, <1>15, <1>16, <1>17, <1>18, <1>19 DEF Cancels
<1> QED BY <1>20

\* A rejoin is never in the body of a pass.
LEMMA RejoinBody ==
  ASSUME NEW s, Rejoining(s)
  PROVE  ~Body(s) /\ ~AliveList(s)
<1>1. Range(s) \subseteq RejoinOps
  BY DEF Rejoining
<1> QED BY <1>1 DEF Body, AliveList, PassOps, RejoinOps, Inner

\* A handler that ends, or stops the video, cancels the rejoin of its socket.
LEMMA CancelInv ==
  ASSUME CaptureInv, RestTyped', NEW s \in Pages, todo[Handler(s)] = <<>>, life[s] \in {"open", "closed"},
         NEW n, n \in {<<>>, <<"stop", "release">>, <<"departed">>},
         NEW ends \in BOOLEAN, Cancels(s, ends, n),
         n = <<"departed">> => life'[s] = "gone" /\ \A o \in Owners : life[o] = "gone" => life'[o] = "gone",
         n # <<"departed">> => life' = life,
         entry' = entry \/ entry' = Inactive, n = <<"stop", "release">> => entry' = Inactive,
         UNCHANGED <<capture, pass, pending>>
  PROVE  CaptureInv'
<1>0. TypeInv /\ Shapes /\ LockInv /\ PassInv /\ Graces /\ Locals /\ Tables /\ WantedInv /\ MonitorInv
  BY DEF CaptureInv
<1>1. PICK h, r : h \in Coroutines /\ h = Handler(s) /\ h \notin Rejoins /\ r = Rejoin(s) /\ (s \in Viewers => r \in Rejoins /\ r \in Coroutines) /\ r # h
  <2>1. Handler(s) # Rejoin(s)
    BY DEF Handler, Rejoin
  <2> QED BY <2>1, HandlerRejoin DEF Rejoins
<1> h \in Coroutines
  BY <1>1
<1>2. todo \in Todos /\ lock \in Q /\ LockOK(todo, lock)
  BY <1>0, Typed DEF LockInv
<1>3. /\ ends => r \in Rejoins /\ r \in Coroutines /\ todo[r] # <<>> /\ ~At(r, "stop_bp") /\ ~At(r, "bp_again")
      /\ todo' = Put(IF ends THEN Put(todo, r, <<>>) ELSE todo, h, n)
      /\ lock' = Queued(IF ends THEN Unqueued(lock, r) ELSE lock, h, n)
      /\ local' \in [Coroutines -> Frames]
      /\ \A c \in Coroutines : local'[c].keep = local[c].keep /\ local'[c].same = local[c].same
      /\ late \subseteq late' /\ history'.orphaned = history.orphaned /\ history'.overtaken = history.overtaken
      /\ history.cancelled => history'.cancelled
      /\ history.failed => history'.failed
      /\ history.unthrottled => history'.unthrottled
      /\ ends /\ At(r, "stop_native") => <<r, "stop">> \in late' /\ history'.cancelled /\ history'.failed
      /\ ends /\ At(r, "start_native") => history'.cancelled /\ history'.failed
      /\ ends /\ At(r, "start") /\ Holds(r) /\ ~instance => history'.failed
      /\ ends /\ (At(r, "stop_pop") \/ At(r, "bp")) /\ entry # NoOne /\ ~entry.task => history'.unthrottled
  BY <1>1 DEF Cancels
<1>4. /\ Plan(n) /\ n \in Seq(Ops) /\ ~Body(n) /\ ~AliveList(n) /\ ~Leading(n)
      /\ n # <<>> => Head(n) = n[1] /\ n[1] \in {"stop", "departed"}
      /\ n # <<>> /\ n[1] = "departed" => n = <<"departed">>
      /\ n # <<>> /\ n[1] = "stop" => n = <<"stop", "release">>
      /\ InSection(n) => n = <<"stop", "release">>
  <2>1. CASE n = <<>>
    BY <2>1, NothingList, Plain DEF InSection
  <2>2. CASE n = <<"stop", "release">>
    <3>1. /\ Plan(n) /\ n \in Seq(Ops) /\ ~Body(n) /\ ~AliveList(n) /\ Range(n) = {"stop", "release"}
          /\ Head(n) = "stop" /\ n[1] = "stop"
      BY <2>2, StopList
    <3>2. ~Leading(n)
      BY <3>1 DEF Leading
    <3> QED BY <2>2, <3>1, <3>2
  <2>3. CASE n = <<"departed">>
    <3>1. /\ Plan(n) /\ n \in Seq(Ops) /\ ~Body(n) /\ ~AliveList(n) /\ Range(n) = {"departed"}
          /\ Head(n) = "departed" /\ n[1] = "departed"
      BY <2>3, DepartedList
    <3>2. ~Leading(n) /\ ~InSection(n)
      BY <3>1 DEF Leading, InSection, Sections, Locking, Inner
    <3> QED BY <2>3, <3>1, <3>2
  <2> QED BY <2>1, <2>2, <2>3
<1>5. PICK t1 \in Todos, q1 \in Q :
        /\ t1 = IF ends THEN Put(todo, r, <<>>) ELSE todo
        /\ q1 = IF ends THEN Unqueued(lock, r) ELSE lock
        /\ LockOK(t1, q1)
  <2>1. CASE ends
    BY <2>1, <1>2, <1>3, Withdrawn
  <2>2. CASE ~ends
    BY <2>2, <1>2
  <2> QED BY <2>1, <2>2
<1>6. /\ \A c \in Coroutines : c # r => t1[c] = todo[c]
      /\ ends => t1[r] = <<>>
      /\ ~ends => t1 = todo
  <2>1. CASE ends
    <3>1. t1 = Put(todo, r, <<>>) /\ r \in Coroutines
      BY <2>1, <1>3, <1>5
    <3> QED BY <2>1, <3>1, <1>2, PutAt
  <2>2. CASE ~ends
    BY <2>2, <1>5
  <2> QED BY <2>1, <2>2
<1>7. t1[h] = <<>> /\ todo[h] = <<>>
  BY <1>1, <1>6
<1>8. /\ todo' = Put(t1, h, n) /\ lock' = Queued(q1, h, n) /\ todo' \in Todos /\ lock' \in Q
      /\ LockOK(todo', lock')
      /\ InSection(n) => lock' = Append(q1, h)
      /\ ~InSection(n) => lock' = q1
  <2>1. todo' = Put(t1, h, n) /\ lock' = Queued(q1, h, n)
    BY <1>3, <1>5
  <2>2. ~InSection(t1[h]) /\ (n = <<>> \/ n[1] \notin Inner)
    BY <1>4, <1>7 DEF InSection, Inner
  <2> QED BY <2>1, <2>2, <1>4, <1>5, LockOutside
<1>9. /\ todo'[h] = n
      /\ \A c \in Coroutines : c # h /\ c # r => todo'[c] = todo[c]
      /\ ends => todo'[r] = <<>>
      /\ ~ends => \A c \in Coroutines : c # h => todo'[c] = todo[c]
  <2>1. todo'[h] = n /\ \A c \in Coroutines : c # h => todo'[c] = t1[c]
    BY <1>8, PutAt
  <2> QED BY <2>1, <1>1, <1>3, <1>6
<1>10. \A c \in Coroutines : \/ c = h
                             \/ c # h /\ todo'[c] = todo[c]
                             \/ c # h /\ ends /\ c = r /\ todo'[c] = <<>> /\ c \in Rejoins
  BY <1>3, <1>9
<1>11. TypeInv' /\ instance' = instance /\ native' = native /\ group' = group /\ pass' = pass /\ pending' = pending
  BY <1>8 DEF TypeInv, RestTyped, Todos, Q, capture
<1>12. Shapes'
  <2>1. \A c \in Coroutines : Plan(todo'[c])
    BY <1>0, <1>4, <1>9, <1>10, NothingList DEF Shapes
  <2>2. \A v \in Viewers : Rejoining(todo'[Rejoin(v)])
    <3>1. TAKE v \in Viewers
    <3>2. Rejoin(v) \in Coroutines /\ Rejoin(v) \in Rejoins /\ Rejoining(todo[Rejoin(v)])
      BY <1>0, HandlerRejoin DEF Rejoins, Shapes
    <3>3. Rejoining(<<>>)
      BY NothingList DEF Rejoining
    <3> QED BY <3>2, <3>3, <1>1, <1>10
  <2>3. \A c \in Coroutines : At(c, "departed")' => \E x \in Pages : c = Handler(x)
    BY <1>0, <1>1, <1>10 DEF Shapes, At
  <2>4. \A c \in Coroutines : At(c, "register")' => \E x \in Owners : c = Handler(x)
    BY <1>0, <1>4, <1>9, <1>10 DEF Shapes, At
  <2> QED BY <2>1, <2>2, <2>3, <2>4 DEF Shapes
<1>13. LockInv'
  BY <1>8 DEF LockInv
<1>14. ends => Rejoining(todo[r]) /\ Plan(todo[r]) /\ ~Body(todo[r]) /\ ~AliveList(todo[r])
  BY <1>0, <1>3, AtHead, RejoinBody
<1>15. PassInv'
  <2>1. ~Body(<<>>)
    BY NothingList
  <2> QED BY <2>1, <1>0, <1>4, <1>7, <1>9, <1>10, <1>11, <1>14 DEF PassInv
<1>16. Graces'
  <2>1. SUFFICES ASSUME NEW x \in Owners
                 PROVE  /\ todo'[Grace(x)] # <<>> => life'[x] = "gone" /\ todo'[Handler(x)] = <<>>
                        /\ At(Handler(x), "departed")' => life'[x] = "gone"
    BY DEF Graces
  <2>2. x \in Pages /\ Handler(x) \in Coroutines /\ Grace(x) \in Coroutines /\ Grace(x) # h
        /\ Handler(x) \notin Rejoins /\ Grace(x) \notin Rejoins /\ (Handler(x) = h => x = s)
    BY <1>1, HandlerRejoin DEF Pages
  <2>3. todo'[Grace(x)] = todo[Grace(x)] /\ (x # s => todo'[Handler(x)] = todo[Handler(x)])
    BY <2>2, <1>10
  <2>4. life[x] = "gone" => life'[x] = "gone"
    OBVIOUS
  <2>5. CASE x = s
    <3>1. todo[Grace(x)] = <<>>
      BY <2>5, <1>0 DEF Graces
    <3>2. At(h, "departed")' => n = <<"departed">>
      BY <1>4, <1>9 DEF At
    <3> QED BY <2>5, <3>1, <3>2, <2>3, <1>1
  <2>6. CASE x # s
    BY <2>3, <2>4, <2>6, <1>0 DEF Graces, At
  <2> QED BY <2>5, <2>6
<1>17. entry' = NoOne => entry = NoOne
  BY <1>0, Inactivated
<1>18. Locals'
  <2>1. ~Leading(<<>>)
    BY NothingList, Plain
  <2> QED BY <2>1, <1>0, <1>3, <1>4, <1>9, <1>10, <1>17 DEF Locals
<1>19. lock # <<>> => /\ Len(lock) \in Nat /\ Len(lock) >= 1 /\ 1 \in 1 .. Len(lock) /\ Head(lock) = lock[1]
                      /\ lock[1] \in Coroutines /\ InSection(todo[lock[1]]) /\ lock[1] # h
  <2>1. SUFFICES ASSUME lock # <<>>
                 PROVE  /\ Len(lock) \in Nat /\ Len(lock) >= 1 /\ 1 \in 1 .. Len(lock) /\ Head(lock) = lock[1]
                        /\ lock[1] \in Coroutines /\ InSection(todo[lock[1]]) /\ lock[1] # h
    OBVIOUS
  <2>2. Len(lock) \in Nat /\ Len(lock) >= 1 /\ Head(lock) = lock[1] /\ \A i \in 1 .. Len(lock) : lock[i] \in Coroutines
    BY <2>1, <1>2, QListed, QTail
  <2>3. 1 \in 1 .. Len(lock)
    BY <2>2
  <2>4. InSection(todo[lock[1]])
    BY <2>2, <2>3, <1>2 DEF LockOK, InSection
  <2> QED BY <2>2, <2>3, <2>4, <1>7 DEF InSection
<1>20. \/ q1 = lock
       \/ ends /\ \E m \in 1 .. Len(lock) : lock[m] = r /\ q1 = RemoveAt(lock, m)
  <2>1. CASE ends
    BY <2>1, <1>2, <1>3, <1>5, Withdrawn
  <2> QED BY <2>1, <1>5
<1>21. lock # <<>> /\ ~(ends /\ lock[1] = r) => lock' # <<>> /\ lock'[1] = lock[1] /\ Head(lock') = lock[1]
  <2>1. SUFFICES ASSUME lock # <<>>, ~(ends /\ lock[1] = r) PROVE lock' # <<>> /\ lock'[1] = lock[1] /\ Head(lock') = lock[1]
    OBVIOUS
  <2>2. q1 # <<>> /\ q1[1] = lock[1]
    <3>1. CASE q1 = lock
      BY <3>1, <2>1
    <3>2. ASSUME ends, NEW m \in 1 .. Len(lock), lock[m] = r, q1 = RemoveAt(lock, m)
          PROVE  q1 # <<>> /\ q1[1] = lock[1]
      <4>1. m # 1 /\ Len(lock) \in Nat
        BY <3>2, <2>1, <1>19
      <4>2. 1 \in 1 .. (m - 1) /\ Len(lock) - 1 >= 1
        BY <4>1
      <4>3. Len(q1) = Len(lock) - 1 /\ q1[1] = lock[1]
        BY <3>2, <4>2, <1>2, QRemoved
      <4> QED BY <4>2, <4>3, QListed
    <3> QED BY <3>1, <3>2, <1>20
  <2>3. lock' # <<>> /\ lock'[1] = q1[1]
    <3>1. CASE ~InSection(n)
      BY <3>1, <2>2, <1>8
    <3>2. CASE InSection(n)
      <4>1. PICK k \in Q : k = Append(q1, h) /\ Len(k) = Len(q1) + 1 /\ \A i \in 1 .. Len(q1) : k[i] = q1[i]
        BY QAppended
      <4>2. Len(q1) \in Nat /\ Len(q1) >= 1
        BY <2>2, QListed
      <4>3. 1 \in 1 .. Len(q1) /\ Len(k) >= 1
        BY <4>1, <4>2
      <4>4. k # <<>> /\ k[1] = q1[1]
        BY <4>1, <4>3, QListed
      <4> QED BY <4>1, <4>4, <3>2, <1>8
    <3> QED BY <3>1, <3>2
  <2>4. Head(lock') = lock'[1]
    BY <2>3, <1>8, QTail
  <2> QED BY <2>2, <2>3, <2>4
<1>22. lock' # <<>> => lock'[1] \in Coroutines /\ InSection(todo'[lock'[1]])
  <2>1. SUFFICES ASSUME lock' # <<>> PROVE lock'[1] \in Coroutines /\ InSection(todo'[lock'[1]])
    OBVIOUS
  <2>2. Len(lock') \in Nat /\ Len(lock') >= 1 /\ \A i \in 1 .. Len(lock') : lock'[i] \in Coroutines
    BY <2>1, <1>8, QListed
  <2>3. 1 \in 1 .. Len(lock')
    BY <2>2
  <2> QED BY <2>2, <2>3, <1>8 DEF LockOK, InSection
<1>23. Consistent => Consistent'
  BY <1>3, <1>11 DEF Consistent
<1>24. ASSUME lock # <<>>, ~(ends /\ lock[1] = r) PROVE Tables'
  <2>1. todo'[lock[1]] = todo[lock[1]]
    BY <1>10, <1>19, <1>24
  <2>2. ~instance /\ (native # "off" => history.orphaned \/ \E x \in Coroutines : <<x, "stop">> \in late)
        => (native' # "off" => history'.orphaned \/ \E x \in Coroutines : <<x, "stop">> \in late')
    BY <1>3, <1>11
  <2>3. Tables'
    BY <2>1, <2>2, <1>0, <1>11, <1>21, <1>23, <1>24 DEF Tables, At
  <2> QED BY <2>3
<1>25. ASSUME lock = <<>> \/ (ends /\ lock[1] = r) PROVE Tables'
  <2>1. ASSUME NEW c \in Coroutines, InSection(todo'[c]) PROVE todo'[c][1] \in Locking /\ Head(todo'[c]) = todo'[c][1]
    <3>1. Head(todo'[c]) = todo'[c][1]
      BY <1>8, <2>1, HeadIsFirst DEF Todos, InSection
    <3>2. CASE c = h
      BY <3>1, <3>2, <2>1, <1>4, <1>9 DEF InSection, Locking
    <3>3. CASE c # h
      <4>1. todo'[c] = todo[c] /\ ~(ends /\ c = r)
        BY <2>1, <3>3, <1>9, <1>10 DEF InSection
      <4>2. todo[c][1] \notin Inner
        BY <4>1, <2>1, <1>2, <1>25 DEF LockOK, InSection
      <4> QED BY <3>1, <4>1, <4>2, <2>1 DEF InSection, Sections
    <3> QED BY <3>2, <3>3
  <2>2. Consistent'
    <3>1. CASE lock = <<>>
      BY <3>1, <1>0, <1>23 DEF Tables
    <3>2. CASE lock # <<>>
      <4>1. ends /\ lock[1] = r /\ todo[r] # <<>> /\ todo[r][1] \in Sections /\ Head(todo[r]) = todo[r][1]
        BY <3>2, <1>2, <1>3, <1>19, <1>25, HeadIsFirst DEF InSection, Todos
      <4>2. todo[r][1] \in {"start"} \cup Inner
        <5>1. todo[r][1] \in RejoinOps
          <6>1. todo[r][1] \in Range(todo[r])
            BY <1>3, <1>14, <4>1, Heads DEF Plan
          <6> QED BY <6>1, <1>14, <4>1 DEF Rejoining
        <5> QED BY <5>1, <4>1 DEF RejoinOps, Sections, Locking
      <4>3. CASE todo[r][1] \in {"start", "stop_pop"}
        BY <4>1, <4>3, <3>2, <1>0, <1>23 DEF Tables, Locking
      <4>4. CASE todo[r][1] = "stop_bp"
        BY <4>1, <4>4, <1>3 DEF At
      <4>5. CASE todo[r][1] = "stop_native"
        <5>1. ~instance /\ <<r, "stop">> \in late' /\ history'.cancelled
          BY <4>1, <4>5, <3>2, <1>0, <1>3 DEF Tables, At
        <5> QED BY <5>1, <4>1, <1>3, <1>11 DEF Consistent
      <4>6. CASE todo[r][1] = "start_native"
        <5>1. ~instance /\ history'.cancelled /\ (native # "off" => history.orphaned \/ \E x \in Coroutines : <<x, "stop">> \in late)
          BY <4>1, <4>6, <3>2, <1>0, <1>3 DEF Tables, At
        <5> QED BY <5>1, <1>3, <1>11 DEF Consistent
      <4> QED BY <4>2, <4>3, <4>4, <4>5, <4>6 DEF Inner
    <3> QED BY <3>1, <3>2
  <2>3. lock' # <<>> => todo'[lock'[1]][1] \in Locking /\ Head(todo'[lock'[1]]) = todo'[lock'[1]][1]
    BY <2>1, <1>22
  <2>4. Tables'
    BY <2>2, <2>3 DEF Tables, At, Locking
  <2> QED BY <2>4
<1>26. Tables'
  BY <1>24, <1>25
<1>27. Wants' => /\ entry' = entry /\ Wants /\ ~InSection(n) /\ lock' = q1
  <2>1. SUFFICES ASSUME Wants' PROVE entry' = entry /\ Wants /\ ~InSection(n) /\ lock' = q1
    OBVIOUS
  <2>2. entry' = entry /\ ~InSection(n)
    BY <2>1, <1>0, <1>4, Inactivated
  <2>3. PassAlive' => PassAlive
    <3>1. ~AliveList(<<>>)
      BY NothingList
    <3> QED BY <3>1, <1>4, <1>9, <1>10 DEF PassAlive
  <2> QED BY <2>1, <2>2, <2>3, <1>8 DEF Wants, Wanted
<1>28. WantedInv'
  <2>1. SUFFICES ASSUME Danger', Wants' PROVE Promise'
    BY DEF WantedInv
  <2>2. Wants /\ ~InSection(n) /\ lock' = q1
    BY <2>1, <1>27
  <2>3. \A i \in 1 .. Len(q1) : q1[i] \in Coroutines /\ todo'[q1[i]] = todo[q1[i]] /\ ~(ends /\ q1[i] = r)
    <3>1. TAKE i \in 1 .. Len(q1)
    <3>2. q1[i] \in Coroutines /\ InSection(todo'[q1[i]])
      BY <1>8, <2>2, QListed DEF LockOK, InSection
    <3> QED BY <3>2, <2>2, <1>9, <1>10 DEF InSection
  <2>4. \A i \in 1 .. Len(q1) : /\ q1[i] \in Nows => q1[i] \in Nows'
                                /\ q1[i] \in Bares' => q1[i] \in Bares
    <3>1. TAKE i \in 1 .. Len(q1)
    <3>2. PICK c \in Coroutines : c = q1[i] /\ todo'[c] = todo[c] /\ ~(ends /\ c = r)
      BY <2>3
    <3>3. Holds(c) => Holds(c)'
      BY <3>2, <1>19, <1>21 DEF Holds
    <3>4. NowFix(c) => NowFix(c)'
      BY <3>2, <3>3, <1>11 DEF NowFix, Rejoins
    <3> QED BY <3>2, <3>4, InNows, InNowsNext
  <2>5. /\ Served(q1, Nows, Bares) => Served(q1, Nows', Bares')
        /\ Bared(q1, Bares') => Bared(q1, Bares)
    BY <2>4, ServedMono
  <2>6. Bared(q1, Bares) => Bared(lock, Bares)
    BY <1>2, <1>20, ServedRemove
  <2>7. Danger
    BY <2>1, <2>2, <2>5, <2>6, <1>3, <1>11 DEF Danger
  <2>8. Promise
    BY <2>2, <2>7, <1>0 DEF WantedInv
  <2>9. CASE pending /\ pass # NoOne
    BY <2>9, <1>11 DEF Promise
  <2>10. ASSUME NEW c \in Coroutines, LaterFix(c) PROVE Promise'
    <3>1. c # h
      <4>1. Range(<<>>) = {} /\ Len(<<>>) = 0
        BY NothingList
      <4> QED BY <4>1, <2>10, <1>7 DEF LaterFix, LaterList
    <3>2. c \notin Rejoins
      BY <2>10 DEF LaterFix
    <3>3. LaterFix(c)'
      BY <2>10, <3>1, <3>2, <1>3, <1>10 DEF LaterFix, Rejoins
    <3> QED BY <3>3 DEF Promise
  <2>11. CASE Served(lock, Nows, Bares)
    <3>1. CASE Served(q1, Nows, Bares)
      BY <3>1, <2>2, <2>5 DEF Promise
    <3>2. CASE ~Served(q1, Nows, Bares)
      <4>1. PICK m \in 1 .. Len(lock) : lock[m] = r /\ q1 = RemoveAt(lock, m) /\ ends
        BY <3>2, <2>11, <1>20
      <4>2. r \in Nows /\ (m = 1 => ~Bared(q1, Bares))
        BY <4>1, <3>2, <2>11, <1>2, ServedRemove
      <4>3. NowFix(r) /\ r \in Rejoins /\ r \in Coroutines
        BY <4>1, <4>2, <1>3, InNows
      <4>4. NowList(todo[r]) /\ Holds(r) /\ (todo[r][1] = "start" => ~instance) /\ lock[1] = r /\ lock # <<>>
        BY <4>3, <1>19 DEF NowFix, Holds
      <4>5. m = 1
        BY <4>1, <4>4, <1>2, <1>19 DEF LockOK
      <4>6. ~instance /\ ~history'.failed
        BY <4>2, <4>5, <2>1, <2>2, <2>5, <1>11 DEF Danger
      <4>7. todo[r] # <<>> /\ Head(todo[r]) = todo[r][1]
        BY <4>1, <4>3, <1>2, <1>3, HeadIsFirst DEF Todos
      <4>8. ~At(r, "start") /\ ~At(r, "start_native") /\ ~At(r, "stop_native") /\ ~At(r, "stop_bp")
        BY <4>1, <4>4, <4>6, <1>3
      <4>9. todo[r][1] \in {"start"} \cup Inner
        <5>1. todo[r][1] \in Range(todo[r])
          BY <4>1, <4>7, <1>14, Heads DEF Plan
        <5>2. InSection(todo[r])
          BY <4>4, <1>19
        <5> QED BY <4>1, <5>1, <5>2, <1>14 DEF Rejoining, RejoinOps, InSection, Sections, Locking
      <4>10. todo[r][1] = "stop_pop"
        BY <4>7, <4>8, <4>9 DEF At, Inner
      <4>11. todo[r][2] = "start"
        BY <4>1, <4>10, <4>7, <1>14, ClearedRejoin
      <4> QED BY <4>4, <4>6, <4>10, <4>11, <1>0 DEF Tables
    <3> QED BY <3>1, <3>2
  <2> QED BY <2>8, <2>9, <2>10, <2>11 DEF Promise
<1>29. MonitorInv'
  <2>1. SUFFICES ASSUME instance', Wants', ~history'.failed, ~history'.unthrottled, ~entry'.task
                 PROVE  (pending' /\ pass' # NoOne) \/ \E q \in Coroutines : Monitorer(q)'
    BY DEF MonitorInv
  <2>2. entry' = entry /\ Wants
    BY <2>1, <1>27
  <2>3. (pending /\ pass # NoOne) \/ \E q \in Coroutines : Monitorer(q)
    BY <2>1, <2>2, <1>0, <1>3, <1>11 DEF MonitorInv
  <2>4. CASE pending /\ pass # NoOne
    BY <2>4, <1>11
  <2>5. ASSUME NEW q \in Coroutines, Monitorer(q) PROVE \E x \in Coroutines : Monitorer(x)'
    <3>1. q # h
      BY <2>5, <1>1, <1>7, NothingList DEF Monitorer, At
    <3>2. ~(ends /\ q = r)
      <4>1. SUFFICES ASSUME ends, q = r PROVE FALSE
        OBVIOUS
      <4>2. At(r, "stop_pop") \/ At(r, "bp")
        BY <4>1, <2>5, <1>3 DEF Monitorer
      <4>3. entry # NoOne
        BY <2>2 DEF Wants, Wanted
      <4> QED BY <4>1, <4>2, <4>3, <2>1, <2>2, <1>3
    <3>3. todo'[q] = todo[q]
      BY <3>1, <3>2, <1>10
    <3>4. Monitorer(q)'
      BY <2>5, <3>3 DEF Monitorer, At, Rejoins
    <3> QED BY <3>4
  <2> QED BY <2>3, <2>4, <2>5
<1> QED BY <1>11, <1>12, <1>13, <1>15, <1>16, <1>18, <1>26, <1>28, <1>29 DEF CaptureInv

\* STOP_VIDEO keeps the invariant.
LEMMA StopVideoInv ==
  ASSUME CaptureInv, NEW s \in Pages, StopVideo(s)
  PROVE  CaptureInv'
<1>0. TypeInv
  BY CaptureInvParts
<1>1. /\ todo[Handler(s)] = <<>> /\ life[s] = "open" /\ events' \in Nat
      /\ UNCHANGED <<clients, life, settled, capture, pass, pending>>
  BY Messaging DEF StopVideo
<1>2. PICK n : /\ n \in {<<>>, <<"stop", "release">>} /\ CancelRejoin(s, n)
               /\ entry' = entry \/ entry' = Inactive
               /\ n = <<"stop", "release">> => entry' = Inactive
               /\ paused' \in {paused, paused \cup {s}}
  <2>1. PICK k : k = <<>>
    OBVIOUS
  <2>2. PICK x : x = <<"stop", "release">>
    OBVIOUS
  <2>3. x # k
    BY <2>1, <2>2, StopList
  <2>4. \/ CancelRejoin(s, k) /\ entry' = entry /\ paused' = paused \cup {s}
        \/ CancelRejoin(s, x) /\ entry' = Inactive /\ paused' \in {paused, paused \cup {s}}
    BY <2>1, <2>2 DEF StopVideo, Stop
  <2> QED BY <2>1, <2>2, <2>3, <2>4
<1>3. n \in Seq(Ops) /\ n # <<"departed">>
  <2>1. CASE n = <<>>
    BY <2>1, NothingList, DepartedList
  <2>2. CASE n = <<"stop", "release">>
    <3>1. Head(<<"stop", "release">>) # Head(<<"departed">>)
      BY StopList, DepartedList
    <3> QED BY <2>2, <3>1, StopList
  <2> QED BY <1>2, <2>1, <2>2
<1>4. PICK ends \in BOOLEAN : Cancels(s, ends, n)
  BY <1>2, <1>3, CancelFacts
<1>5. entry' \in Entries \cup {NoOne}
  BY <1>0, <1>2, Inactivated DEF TypeInv
<1>6. local' \in [Coroutines -> Frames] /\ late' \in SUBSET (Coroutines \X {"start", "stop"}) /\ history' \in Outcomes
  BY <1>4 DEF Cancels
<1>7. paused' \in SUBSET Pages
  BY <1>0, <1>2 DEF TypeInv
<1>8. RestTyped'
  BY <1>0, <1>1, <1>5, <1>6, <1>7 DEF RestTyped, TypeInv, capture
<1> QED BY <1>1, <1>2, <1>3, <1>4, <1>8, CancelInv

\* A socket that leaves keeps it.
LEMMA LeaveInv ==
  ASSUME CaptureInv, NEW s \in Pages, Leave(s)
  PROVE  CaptureInv'
<1>0. TypeInv
  BY CaptureInvParts
<1>1. /\ todo[Handler(s)] = <<>> /\ life[s] \in {"open", "closed"}
      /\ life' = [life EXCEPT ![s] = "gone"]
      /\ clients' = clients \ {s} /\ paused' = paused \ {s} /\ settled' = settled \ {s}
      /\ UNCHANGED <<entry, capture, pass, pending>>
  BY DEF Leave
<1>2. events' \in Nat
  <2>1. events' = events + 1 /\ events \in Nat
    BY <1>0 DEF Leave, TypeInv
  <2> QED BY <2>1
<1>3. PICK n : n = <<"departed">>
  OBVIOUS
<1>4. CancelRejoin(s, n) /\ n \in Seq(Ops) /\ n # <<"stop", "release">>
  <2>1. Head(<<"stop", "release">>) # Head(<<"departed">>)
    BY StopList, DepartedList
  <2> QED BY <1>3, <2>1, DepartedList DEF Leave
<1>5. PICK ends \in BOOLEAN : Cancels(s, ends, n)
  BY <1>4, CancelFacts
<1>6. local' \in [Coroutines -> Frames] /\ late' \in SUBSET (Coroutines \X {"start", "stop"}) /\ history' \in Outcomes
  BY <1>5 DEF Cancels
<1>7. /\ life' \in [Pages -> {"new", "open", "closed", "gone"}] /\ life'[s] = "gone"
      /\ \A o \in Owners : life[o] = "gone" => life'[o] = "gone"
  <2>1. life \in [Pages -> {"new", "open", "closed", "gone"}] /\ Owners \subseteq Pages
    BY <1>0 DEF TypeInv, Pages
  <2> QED BY ONLY <1>1, <2>1, s \in Pages
<1>8. RestTyped'
  BY <1>0, <1>1, <1>2, <1>6, <1>7 DEF RestTyped, TypeInv, capture
<1> QED BY <1>1, <1>3, <1>4, <1>5, <1>7, <1>8, CancelInv

-----------------------------------------------------------------------------
(* The theorems *)

\* The first states are typed.
LEMMA InitTyped == CaptureInit => TypeInv
<1> SUFFICES ASSUME CaptureInit
             PROVE  TypeInv
  OBVIOUS
<1>1. lock \in Seq(Coroutines) /\ todo \in [Coroutines -> Seq(Ops)]
  <2>1. lock = <<>> /\ todo = [p \in Coroutines |-> <<>>]
    BY DEF CaptureInit
  <2>2. <<>> \in Seq(Ops)
    BY NothingList
  <2> QED BY <2>1, <2>2
<1>2. local \in [Coroutines -> Frames]
  BY DEF CaptureInit, Fresh, Frames
<1>3. history \in Outcomes
  BY DEF CaptureInit, Histories, Outcomes
<1>4. late \in SUBSET (Coroutines \X {"start", "stop"}) /\ events \in Nat
  BY DEF CaptureInit
<1>5. pass \in Coroutines \cup {NoOne} /\ pending \in BOOLEAN
  BY DEF CaptureInit
<1>6. CASE Unvisited
  <2>1. /\ clients \in SUBSET Pages /\ paused \in SUBSET Pages /\ settled \in SUBSET Pages
        /\ life \in [Pages -> {"new", "open", "closed", "gone"}]
    BY <1>6 DEF Unvisited
  <2>2. entry \in Entries \cup {NoOne} /\ instance \in BOOLEAN /\ native \in {"off", "on", "dead"} /\ group \in BOOLEAN
    BY <1>6 DEF Unvisited
  <2> QED BY <1>1, <1>2, <1>3, <1>4, <1>5, <2>1, <2>2 DEF TypeInv
<1>7. CASE \E o \in Owners, viewers \in {{}, Viewers} : Streaming(o, viewers)
  <2>1. PICK o \in Owners, viewers \in {{}, Viewers} : Streaming(o, viewers)
    BY <1>7
  <2>2. /\ clients \in SUBSET Pages /\ paused \in SUBSET Pages /\ settled \in SUBSET Pages
        /\ life \in [Pages -> {"new", "open", "closed", "gone"}]
    BY <2>1 DEF Streaming, Pages
  <2>3. entry \in Entries \cup {NoOne} /\ instance \in BOOLEAN /\ native \in {"off", "on", "dead"} /\ group \in BOOLEAN
    BY <2>1 DEF Streaming, Entries
  <2> QED BY <1>1, <1>2, <1>3, <1>4, <1>5, <2>2, <2>3 DEF TypeInv
<1> QED BY <1>6, <1>7 DEF CaptureInit

\* A coroutine that has ended, or not begun, needs nothing and owes nothing.
LEMMA NothingTodo ==
  ASSUME NEW s, s = <<>>
  PROVE  /\ Plan(s) /\ Rejoining(s) /\ ~Body(s) /\ ~AliveList(s) /\ ~BareList(s) /\ ~MonitorList(s)
         /\ ~Leading(s) /\ ~NowList(s) /\ Len(s) = 0
         /\ \A keep \in BOOLEAN : ~LaterList(s, keep)
<1>1. Len(s) = 0 /\ Range(s) = {}
  BY NothingList
<1> QED BY <1>1, NothingList DEF Rejoining, Leading, NowList, LaterList

\* The invariant holds at first.
LEMMA InitInv == CaptureInit => CaptureInv
<1> SUFFICES ASSUME CaptureInit
             PROVE  CaptureInv
  OBVIOUS
<1>1. TypeInv
  BY InitTyped
<1>2. /\ \A p \in Coroutines : todo[p] = <<>> /\ local[p] = Fresh
      /\ lock = <<>> /\ pass = NoOne /\ pending = FALSE /\ history = Histories
  BY DEF CaptureInit
<1>3. \A p \in Coroutines : ~local[p].same /\ \A op : ~At(p, op)
  BY <1>2 DEF Fresh, At
<1>4. Shapes
  BY <1>2, <1>3, NothingTodo, HandlerRejoin DEF Shapes
<1>5. LockInv
  <2>1. Len(lock) = 0 /\ 1 .. Len(lock) = {}
    BY <1>2
  <2> QED BY <1>2, <2>1 DEF LockInv, LockOK
<1>6. PassInv
  BY <1>2, NothingTodo, HandlerRejoin DEF PassInv
<1>7. Graces
  BY <1>2, <1>3, HandlerRejoin DEF Graces
<1>8. Locals
  BY <1>2, <1>3, NothingTodo DEF Locals
<1>9. ~Bared(lock, Bares)
  <2>1. 1 .. Len(lock) = {}
    BY <1>2
  <2> QED BY <2>1 DEF Bared
<1>10. CASE Unvisited
  <2>1. entry = NoOne /\ instance = FALSE /\ native = "off" /\ group = FALSE
    BY <1>10 DEF Unvisited
  <2> QED BY <1>1, <1>2, <1>4, <1>5, <1>6, <1>7, <1>8, <2>1
          DEF CaptureInv, Tables, Consistent, WantedInv, Wants, Wanted, MonitorInv
<1>11. CASE \E o \in Owners, viewers \in {{}, Viewers} : Streaming(o, viewers)
  <2>1. entry.task /\ instance = TRUE /\ native = "on" /\ group = TRUE
    BY <1>11 DEF Streaming
  <2> QED BY <1>1, <1>2, <1>4, <1>5, <1>6, <1>7, <1>8, <1>9, <2>1
          DEF CaptureInv, Tables, Consistent, WantedInv, Danger, MonitorInv
<1> QED BY <1>10, <1>11 DEF CaptureInit

\* The steps that take, hold and release the capture lock keep the invariant.
LEMMA LockStepInv ==
  ASSUME CaptureInv, NEW p \in Coroutines, LockStep(p)
  PROVE  CaptureInv'
<1>1. CASE StopBegins(p)
  BY <1>1, StopBeginsInv
<1>2. CASE MonitorStopped(p)
  BY <1>2, MonitorStoppedInv
<1>3. CASE StopPops(p)
  BY <1>3, StopPopsInv
<1>4. CASE NativeStopped(p)
  BY <1>4, NativeStoppedInv
<1>5. CASE StartBegins(p)
  BY <1>5, StartBeginsInv
<1>6. CASE Rebuilds(p)
  BY <1>6, RebuildsInv
<1>7. CASE NativeStarted(p)
  BY <1>7, NativeStartedInv
<1>8. CASE Relive(p)
  BY <1>8, ReliveInv
<1> QED BY <1>1, <1>2, <1>3, <1>4, <1>5, <1>6, <1>7, <1>8 DEF LockStep

\* So do those of the backpressure tasks.
LEMMA MonitorStepInv ==
  ASSUME CaptureInv, NEW p \in Coroutines, MonitorStep(p)
  PROVE  CaptureInv'
<1>1. CASE StartMonitor(p)
  BY <1>1, StartMonitorInv
<1>2. CASE RestartMonitor(p)
  BY <1>2, RestartMonitorInv
<1>3. CASE StopMonitors(p)
  BY <1>3, StopMonitorsInv
<1> QED BY <1>1, <1>2, <1>3 DEF MonitorStep

\* Those of the passes.
LEMMA PassStepInv ==
  ASSUME CaptureInv, NEW p \in Coroutines, PassStep(p)
  PROVE  CaptureInv'
<1>1. CASE Reconfigure_Displays(p)
  BY <1>1, Reconfigure_DisplaysInv
<1>2. CASE BeginPass(p)
  BY <1>2, BeginPassInv
<1>3. CASE Judge(p)
  BY <1>3, JudgeInv
<1>4. CASE Outputs(p)
  BY <1>4, OutputsInv
<1>5. CASE StartLoop(p)
  BY <1>5, StartLoopInv
<1>6. CASE EndPass(p)
  BY <1>6, EndPassInv
<1>7. CASE Guard(p)
  BY <1>7, GuardInv
<1>8. CASE Unguard(p)
  BY <1>8, UnguardInv
<1> QED BY <1>1, <1>2, <1>3, <1>4, <1>5, <1>6, <1>7, <1>8 DEF PassStep

\* Those of the handlers, rejoins and teardowns.
LEMMA ClientStepInv ==
  ASSUME CaptureInv, NEW p \in Coroutines, ClientStep(p)
  PROVE  CaptureInv'
<1>1. CASE Register(p)
  BY <1>1, RegisterInv
<1>2. CASE RestartInPlace(p)
  BY <1>2, RestartInPlaceInv
<1>3. CASE Resized(p)
  BY <1>3, ResizedInv
<1>4. CASE RejoinFires(p)
  BY <1>4, RejoinFiresInv
<1>5. CASE RejoinTold(p)
  BY <1>5, RejoinToldInv
<1>6. CASE Departed(p)
  BY <1>6, DepartedInv
<1>7. CASE Teardown(p)
  BY <1>7, TeardownInv
<1>8. CASE AfterTeardown(p)
  BY <1>8, AfterTeardownInv
<1>9. CASE LastClient(p)
  BY <1>9, LastClientInv
<1> QED BY <1>1, <1>2, <1>3, <1>4, <1>5, <1>6, <1>7, <1>8, <1>9 DEF ClientStep

\* And those with which a socket comes, asks and goes.
LEMMA ArrivalInv ==
  ASSUME CaptureInv, NEW s \in Pages, Arrival(s)
  PROVE  CaptureInv'
  BY JoinInv, StartVideoInv, StopVideoInv, LeaveInv DEF Arrival

\* A step in which nothing changes keeps the invariant.
LEMMA StutterInv ==
  ASSUME CaptureInv, UNCHANGED captureVars
  PROVE  CaptureInv'
<1>1. /\ UNCHANGED <<clients, paused, life, settled, entry, instance, native, group>>
      /\ UNCHANGED <<lock, todo, pass, pending, local, late, history, events>>
  BY DEF captureVars, registry, capture, control
<1>2. TypeInv
  BY CaptureInvParts
<1>3. RestTyped'
  BY <1>1, <1>2 DEF TypeInv, RestTyped
<1>4. Consistent => Consistent'
  BY <1>1 DEF Consistent
<1> QED BY <1>1, <1>3, <1>4, StillInv

\* Every step keeps the invariant.
LEMMA NextInv ==
  ASSUME CaptureInv, [CaptureNext]_captureVars
  PROVE  CaptureInv'
<1>1. CASE \E p \in Coroutines : LockStep(p) \/ MonitorStep(p) \/ PassStep(p) \/ ClientStep(p)
  BY <1>1, LockStepInv, MonitorStepInv, PassStepInv, ClientStepInv
<1>2. CASE \E s \in Pages : Arrival(s)
  BY <1>2, ArrivalInv
<1>3. CASE \E o \in Owners : Settings(o) \/ Resize(o)
  BY <1>3, SettingsInv, ResizeInv
<1>4. CASE \E v \in Viewers : Throttle(v)
  BY <1>4, ThrottleInv
<1>5. CASE LateStart \/ LateStop \/ CaptureDies
  BY <1>5, LateStartInv, LateStopInv, CaptureDiesInv
<1>6. CASE UNCHANGED captureVars
  BY <1>6, StutterInv
<1> QED BY <1>1, <1>2, <1>3, <1>4, <1>5, <1>6 DEF CaptureNext

\* The inductive invariant holds in every state of every behaviour.
THEOREM CaptureInductive == CaptureSpec => []CaptureInv
<1>1. CaptureInit => CaptureInv
  BY InitInv
<1>2. CaptureInv /\ [CaptureNext]_captureVars => CaptureInv'
  BY NextInv
<1> QED BY <1>1, <1>2, PTL DEF CaptureSpec

\* At rest nobody holds a lock and nothing is promised.
LEMMA Resting ==
  ASSUME CaptureInv, AtRest
  PROVE  /\ lock = <<>> /\ pass = NoOne /\ ~Promise /\ ~PassAlive
         /\ \A c \in Coroutines : ~Monitorer(c)
<1>1. TypeInv /\ LockInv /\ PassInv
  BY CaptureInvParts
<1>2. \A c \in Coroutines : todo[c] = <<>>
  BY DEF AtRest
<1>3. lock = <<>>
  <2>1. SUFFICES ASSUME lock # <<>>
                 PROVE  FALSE
    OBVIOUS
  <2>2. lock \in Q
    BY <1>1, Typed
  <2>3. 1 \in 1 .. Len(lock) /\ lock[1] \in Coroutines
    BY <2>1, <2>2, QListed
  <2> QED BY <1>1, <1>2, <2>3 DEF LockInv, LockOK
<1>4. pass = NoOne
  BY <1>1, <1>2, NothingTodo DEF PassInv, TypeInv
<1>5. \A c \in Coroutines : ~LaterFix(c)
  <2>1. \A c \in Coroutines : local[c].keep \in BOOLEAN
    BY <1>1 DEF TypeInv, Frames
  <2> QED BY <1>2, <2>1, NothingTodo DEF LaterFix
<1>6. ~Served(lock, Nows, Bares)
  <2>1. 1 .. Len(lock) = {}
    BY <1>3
  <2> QED BY <2>1 DEF Served
<1>7. ~Promise /\ ~PassAlive
  BY <1>2, <1>4, <1>5, <1>6, NothingTodo DEF Promise, PassAlive
<1>8. \A c \in Coroutines : ~Monitorer(c)
  BY <1>2, NothingTodo DEF Monitorer, At
<1> QED BY <1>3, <1>4, <1>7, <1>8

\* The variables have their types.
THEOREM CaptureTyped == CaptureSpec => []TypeInv
<1>1. CaptureInv => TypeInv
  BY CaptureInvParts
<1> QED BY <1>1, CaptureInductive, PTL

\* While nobody holds the capture lock, capture_instances, the native
\* capture and its relays agree, for any sockets and however the stops,
\* starts, passes and cancellations overlapped.
THEOREM CaptureRegistered == CaptureSpec => []Registered
<1>1. CaptureInv => Registered
  BY CaptureInvParts DEF Tables, Consistent, Registered
<1> QED BY <1>1, CaptureInductive, PTL

\* When every coroutine has ended, a display whose owner wants its video has
\* a capture.
THEOREM CaptureWantedRuns == CaptureSpec => []WantedRuns
<1>1. CaptureInv => WantedRuns
  <2>1. SUFFICES ASSUME CaptureInv, AtRest, Wanted, ~entry.told, ~history.failed
                 PROVE  instance
    BY DEF WantedRuns
  <2>2. ~Promise
    BY <2>1, Resting
  <2>3. Wants
    BY <2>1 DEF Wants
  <2>4. WantedInv
    BY <2>1, CaptureInvParts
  <2> QED BY <2>1, <2>2, <2>3, <2>4 DEF WantedInv, Danger
<1> QED BY <1>1, CaptureInductive, PTL

\* And the backpressure task of a wanted capture's display runs.
THEOREM CaptureThrottled == CaptureSpec => []Throttled
<1>1. CaptureInv => Throttled
  <2>1. SUFFICES ASSUME CaptureInv, AtRest, instance, Wanted, ~entry.told, ~history.failed, ~history.unthrottled
                 PROVE  entry.task
    BY DEF Throttled
  <2>2. pass = NoOne /\ \A c \in Coroutines : ~Monitorer(c)
    BY <2>1, Resting
  <2>3. Wants
    BY <2>1 DEF Wants
  <2>4. MonitorInv
    BY <2>1, CaptureInvParts
  <2> QED BY <2>1, <2>2, <2>3, <2>4 DEF MonitorInv
<1> QED BY <1>1, CaptureInductive, PTL
=============================================================================
