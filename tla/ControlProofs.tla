---------------------------- MODULE ControlProofs ----------------------------
(***************************************************************************)
(* Proofs about the three loops that control the running service, each on  *)
(* its own (they share no state):                                          *)
(*   - Reconfigure: mutual exclusion and the coalescing contract, for any  *)
(*     tasks, any number of which may be cancelled.  Together with TypeOK, *)
(*     NothingStranded is inductive: a task that leaves the lock, or the   *)
(*     queue, either looks at _reconfigure_pending or leaves a holder      *)
(*     behind who will;                                                    *)
(*   - ModeSwitch: at most one service is alive, and it is the reported    *)
(*     one, for any number of switch requests, modes and services;         *)
(*   - Backpressure: the lag behind an open gate, for any number of ids    *)
(*     and any tolerated lag under half of them.                           *)
(***************************************************************************)
EXTENDS Reconfigure, ModeSwitch, Backpressure, FiniteSetTheorems, TLAPS

-----------------------------------------------------------------------------
(* Reconfigure *)

IInv == TypeOK /\ NothingStranded

\* Nobody but the holder is in a place where the lock is held.
Holding == {"pass", "section"}

-----------------------------------------------------------------------------
(* Types                                                                    *)

LEMMA WithoutType ==
  ASSUME NEW q \in Seq(Tasks), NEW k \in DOMAIN q
  PROVE  Without(q, k) \in Seq(Tasks)
<1>1. k \in 1..Len(q) /\ Len(q) \in Nat  OBVIOUS
<1>2. SubSeq(q, 1, k - 1) \in Seq(Tasks)  BY <1>1
<1>3. SubSeq(q, k + 1, Len(q)) \in Seq(Tasks)  BY <1>1
<1> QED BY <1>2, <1>3 DEF Without

\* Moving one task keeps the lock exclusive if that task does not take it, or
\* if no other task has it.
LEMMA MoveType ==
  ASSUME TypeOK, NEW t \in Tasks, NEW p \in Places,
         pc' = [pc EXCEPT ![t] = p],
         p \in Holding => \A u \in Tasks \ {t} : pc[u] \notin Holding
  PROVE  /\ pc' \in [Tasks -> Places]
         /\ \A u, v \in Tasks : pc'[u] \in Holding /\ pc'[v] \in Holding => u = v
<1>1. pc' \in [Tasks -> Places]  BY DEF TypeOK
<1>2. \A u \in Tasks \ {t} : pc'[u] = pc[u]  BY DEF TypeOK
<1>3. pc'[t] = p  BY DEF TypeOK
<1> QED BY <1>1, <1>2, <1>3 DEF TypeOK, Holding

LEMMA AcquireType ==
  ASSUME TypeOK, NEW t \in Tasks, NEW q \in Seq(Tasks), NEW wanted \in BOOLEAN,
         AcquireForPass(t, q, wanted),
         \A u \in Tasks \ {t} : pc[u] \notin Holding
  PROVE  TypeOK'
<1>1. PICK p \in {"pass", "waitPass"} : pc' = [pc EXCEPT ![t] = p]
  BY DEF AcquireForPass, BeginPass
<1>2. p \in Places  BY DEF Places
<1>3. /\ pc' \in [Tasks -> Places]
      /\ \A u, v \in Tasks : pc'[u] \in Holding /\ pc'[v] \in Holding => u = v
  BY <1>1, <1>2, MoveType
<1>4. waiters' \in Seq(Tasks)  BY DEF AcquireForPass
<1>5. pending' \in BOOLEAN /\ want' \in BOOLEAN /\ lost' \in BOOLEAN
  BY DEF AcquireForPass, BeginPass, TypeOK
<1> QED BY <1>3, <1>4, <1>5 DEF TypeOK, Holding

LEMMA TypeInit == Init => TypeOK
<1> SUFFICES ASSUME Init PROVE TypeOK
  OBVIOUS
<1>1. pc \in [Tasks -> Places]  BY DEF Init, Places
<1>2. \A t \in Tasks : pc[t] = "idle"  BY DEF Init
<1>3. waiters \in Seq(Tasks)  BY DEF Init
<1>4. pending \in BOOLEAN /\ want \in BOOLEAN /\ lost \in BOOLEAN  BY DEF Init
<1> QED BY <1>1, <1>2, <1>3, <1>4 DEF TypeOK

LEMMA TypeStep == TypeOK /\ [Next]_vars => TypeOK'
<1> SUFFICES ASSUME TypeOK, [Next]_vars PROVE TypeOK'
  OBVIOUS
<1>q. waiters \in Seq(Tasks)  BY DEF TypeOK
<1>h. ASSUME NEW t \in Tasks, pc[t] \in Holding
      PROVE  \A u \in Tasks \ {t} : pc[u] \notin Holding
  BY <1>h DEF TypeOK, Holding
<1>f. ASSUME ~Locked PROVE \A u \in Tasks : pc[u] \notin Holding
  BY <1>f DEF Locked, Holding
<1>1. ASSUME Granted PROVE TypeOK'
  <2>1. Head(waiters) \in Tasks /\ Tail(waiters) \in Seq(Tasks)
    BY <1>1, <1>q DEF Granted
  <2>2. PICK p \in Holding : pc' = [pc EXCEPT ![Head(waiters)] = p]
    BY <1>1 DEF Granted, BeginPass, Holding
  <2>3. p \in Places  BY <2>2 DEF Holding, Places
  <2>4. /\ pc' \in [Tasks -> Places]
        /\ \A u, v \in Tasks : pc'[u] \in Holding /\ pc'[v] \in Holding => u = v
    BY <1>1, <1>f, <2>1, <2>2, <2>3, MoveType DEF Granted
  <2>5. waiters' \in Seq(Tasks)  BY <1>1, <2>1 DEF Granted
  <2>6. pending' \in BOOLEAN /\ want' \in BOOLEAN /\ lost' \in BOOLEAN
    BY <1>1 DEF Granted, BeginPass, TypeOK
  <2> QED BY <2>4, <2>5, <2>6 DEF TypeOK, Holding
<1>2. ASSUME NEW t \in Tasks, Request(t) PROVE TypeOK'
  <2>1. CASE Locked
    BY <1>2, <2>1 DEF Request, TypeOK
  <2>2. CASE ~Locked /\ AcquireForPass(t, waiters, TRUE)
    BY <1>f, <1>q, <2>2, AcquireType
  <2> QED BY <1>2, <2>1, <2>2 DEF Request
<1>3. ASSUME NEW t \in Tasks, pc[t] \in Holding,
             \/ pending /\ AcquireForPass(t, waiters, want)
             \/ /\ pc' = [pc EXCEPT ![t] = "idle"]
                /\ UNCHANGED <<waiters, pending, want, lost>>
      PROVE  TypeOK'
  <2>1. CASE AcquireForPass(t, waiters, want)
    BY <1>3, <1>h, <1>q, <2>1, AcquireType DEF TypeOK
  <2>2. CASE /\ pc' = [pc EXCEPT ![t] = "idle"]
             /\ UNCHANGED <<waiters, pending, want, lost>>
    <3>1. "idle" \in Places /\ "idle" \notin Holding  BY DEF Places, Holding
    <3>2. /\ pc' \in [Tasks -> Places]
          /\ \A u, v \in Tasks : pc'[u] \in Holding /\ pc'[v] \in Holding => u = v
      BY <2>2, <3>1, MoveType
    <3> QED BY <2>2, <3>2 DEF TypeOK, Holding
  <2> QED BY <1>3, <2>1, <2>2
<1>4. ASSUME NEW t \in Tasks, EnterSection(t) PROVE TypeOK'
  <2>1. PICK p \in {"section", "waitSection"} :
             pc' = [pc EXCEPT ![t] = p] /\ (p = "section" => ~Locked)
    BY <1>4 DEF EnterSection
  <2>2. p \in Places  BY DEF Places
  <2>3. p \in Holding => \A u \in Tasks \ {t} : pc[u] \notin Holding
    BY <1>f, <2>1 DEF Holding
  <2>4. /\ pc' \in [Tasks -> Places]
        /\ \A u, v \in Tasks : pc'[u] \in Holding /\ pc'[v] \in Holding => u = v
    BY <2>1, <2>2, <2>3, MoveType
  <2>5. waiters' \in Seq(Tasks)  BY <1>4, <1>q DEF EnterSection
  <2> QED BY <1>4, <2>4, <2>5 DEF EnterSection, TypeOK, Holding
<1>5. ASSUME NEW t \in Tasks, SettingsEnd(t) PROVE TypeOK'
  BY <1>5, <1>h, <1>q, AcquireType DEF SettingsEnd, Holding
<1>6. ASSUME NEW t \in Tasks, CancelWait(t) PROVE TypeOK'
  <2>1. PICK k \in DOMAIN waiters :
            \/ ~Locked /\ AcquireForPass(t, Without(waiters, k), want)
            \/ /\ pc' = [pc EXCEPT ![t] = "idle"]
               /\ waiters' = Without(waiters, k)
               /\ UNCHANGED <<pending, want, lost>>
    BY <1>6 DEF CancelWait
  <2>2. Without(waiters, k) \in Seq(Tasks)  BY <1>q, WithoutType
  <2>3. CASE ~Locked /\ AcquireForPass(t, Without(waiters, k), want)
    BY <1>f, <2>2, <2>3, AcquireType DEF TypeOK
  <2>4. CASE /\ pc' = [pc EXCEPT ![t] = "idle"]
             /\ waiters' = Without(waiters, k)
             /\ UNCHANGED <<pending, want, lost>>
    <3>1. "idle" \in Places /\ "idle" \notin Holding  BY DEF Places, Holding
    <3>2. /\ pc' \in [Tasks -> Places]
          /\ \A u, v \in Tasks : pc'[u] \in Holding /\ pc'[v] \in Holding => u = v
      BY <2>4, <3>1, MoveType
    <3> QED BY <2>2, <2>4, <3>2 DEF TypeOK, Holding
  <2> QED BY <2>1, <2>3, <2>4
<1>7. ASSUME NEW t \in Tasks, CancelRerun(t) PROVE TypeOK'
  <2>1. waiters' \in Seq(Tasks)
    BY <1>7, <1>q, WithoutType DEF CancelRerun
  <2>2. "idle" \in Places /\ "idle" \notin Holding  BY DEF Places, Holding
  <2>3. /\ pc' \in [Tasks -> Places]
        /\ \A u, v \in Tasks : pc'[u] \in Holding /\ pc'[v] \in Holding => u = v
    BY <1>7, <2>2, MoveType DEF CancelRerun
  <2> QED BY <1>7, <2>1, <2>3 DEF CancelRerun, TypeOK, Holding
<1>8. ASSUME UNCHANGED vars PROVE TypeOK'
  BY <1>8 DEF vars, TypeOK
<1>9. ASSUME NEW t \in Tasks, PassEnds(t) \/ SectionEnds(t) PROVE TypeOK'
  BY <1>9, <1>3 DEF PassEnds, SectionEnds, Holding
<1> QED BY <1>1, <1>2, <1>4, <1>5, <1>6, <1>7, <1>8, <1>9 DEF Next

\* Every variable keeps its type and at most one task is inside the lock, for
\* any set of tasks.
THEOREM TypeCorrect == Spec => []TypeOK
BY TypeInit, TypeStep, PTL DEF Spec
-----------------------------------------------------------------------------
(* The coalescing contract                                                  *)

\* Taking the lock starts a pass; queueing for it is a promise of one.
LEMMA AcquireCovers ==
  ASSUME TypeOK, NEW t \in Tasks, NEW q, NEW wanted, AcquireForPass(t, q, wanted)
  PROVE  NothingStranded'
<1>1. CASE BeginPass(t)
  BY <1>1 DEF BeginPass, NothingStranded
<1>2. CASE pc' = [pc EXCEPT ![t] = "waitPass"]
  <2>1. pc'[t] = "waitPass"  BY <1>2 DEF TypeOK
  <2> QED BY <2>1 DEF NothingStranded, Covered
<1> QED BY <1>1, <1>2 DEF AcquireForPass

\* A task that was not itself the promise of a pass moves, with the request
\* looked at, or another task left to look at it.
LEMMA MoveCovers ==
  ASSUME IInv, NEW t \in Tasks, pc[t] # "waitPass", NEW p \in Places,
         pc' = [pc EXCEPT ![t] = p],
         UNCHANGED <<pending, want, lost>>,
         pending /\ p = "idle" => \E u \in Tasks \ {t} : pc[u] # "idle"
  PROVE  NothingStranded'
<1>1. \A u \in Tasks \ {t} : pc'[u] = pc[u]  BY DEF IInv, TypeOK
<1>2. pc'[t] = p  BY DEF IInv, TypeOK
<1> SUFFICES ASSUME want', ~lost' PROVE Covered'
  BY DEF NothingStranded
<1>3. Covered  BY DEF IInv, NothingStranded
<1>4. CASE \E u \in Tasks : pc[u] = "waitPass"
  BY <1>1, <1>4 DEF Covered
<1>5. CASE pending /\ \E u \in Tasks : pc[u] # "idle"
  BY <1>1, <1>2, <1>5 DEF Covered
<1> QED BY <1>3, <1>4, <1>5 DEF Covered

LEMMA StrandedStep == IInv /\ [Next]_vars => NothingStranded'
<1> SUFFICES ASSUME IInv, [Next]_vars PROVE NothingStranded'
  OBVIOUS
<1>t. TypeOK  BY DEF IInv
<1>1. ASSUME Granted PROVE NothingStranded'
  <2>1. Head(waiters) \in Tasks  BY <1>1, <1>t DEF Granted, TypeOK
  <2>2. CASE BeginPass(Head(waiters))
    BY <2>2 DEF BeginPass, NothingStranded
  <2>3. CASE /\ pc[Head(waiters)] = "waitSection"
             /\ pc' = [pc EXCEPT ![Head(waiters)] = "section"]
             /\ UNCHANGED <<pending, want, lost>>
    <3>1. "section" \in Places  BY DEF Places
    <3> QED BY <2>1, <2>3, <3>1, MoveCovers
  <2> QED BY <1>1, <2>2, <2>3 DEF Granted
<1>2. ASSUME NEW t \in Tasks, Request(t) PROVE NothingStranded'
  <2>1. CASE Locked /\ pending' = TRUE /\ UNCHANGED pc
    BY <2>1 DEF Locked, NothingStranded, Covered
  <2>2. CASE AcquireForPass(t, waiters, TRUE)  BY <1>t, <2>2, AcquireCovers
  <2> QED BY <1>2, <2>1, <2>2 DEF Request
<1>3. ASSUME NEW t \in Tasks, PassEnds(t) \/ SectionEnds(t) PROVE NothingStranded'
  <2>1. CASE AcquireForPass(t, waiters, want)  BY <1>t, <2>1, AcquireCovers
  <2>2. CASE /\ ~pending
             /\ pc[t] # "waitPass"
             /\ pc' = [pc EXCEPT ![t] = "idle"]
             /\ UNCHANGED <<pending, want, lost>>
    <3>1. "idle" \in Places  BY DEF Places
    <3> QED BY <2>2, <3>1, MoveCovers
  <2> QED BY <1>3, <2>1, <2>2 DEF PassEnds, SectionEnds
<1>4. ASSUME NEW t \in Tasks, EnterSection(t) PROVE NothingStranded'
  <2>1. PICK p \in {"section", "waitSection"} : pc' = [pc EXCEPT ![t] = p]
    BY <1>4 DEF EnterSection
  <2>2. p \in Places /\ p # "idle"  BY DEF Places
  <2>3. pc[t] # "waitPass" /\ UNCHANGED <<pending, want, lost>>
    BY <1>4 DEF EnterSection
  <2> QED BY <2>1, <2>2, <2>3, MoveCovers
<1>5. ASSUME NEW t \in Tasks, SettingsEnd(t) PROVE NothingStranded'
  BY <1>5, <1>t, AcquireCovers DEF SettingsEnd
<1>6. ASSUME NEW t \in Tasks, CancelWait(t) PROVE NothingStranded'
  <2>1. PICK k \in DOMAIN waiters :
            \/ AcquireForPass(t, Without(waiters, k), want)
            \/ /\ ~pending \/ Locked
               /\ pc' = [pc EXCEPT ![t] = "idle"]
               /\ UNCHANGED <<pending, want, lost>>
    BY <1>6 DEF CancelWait
  <2>2. CASE AcquireForPass(t, Without(waiters, k), want)
    BY <1>t, <2>2, AcquireCovers
  <2>3. CASE /\ ~pending \/ Locked
             /\ pc' = [pc EXCEPT ![t] = "idle"]
             /\ UNCHANGED <<pending, want, lost>>
    <3>1. "idle" \in Places  BY DEF Places
    <3>2. pc[t] = "waitSection"  BY <1>6 DEF CancelWait
    <3>3. Locked => \E u \in Tasks \ {t} : pc[u] # "idle"
      BY <3>2 DEF Locked
    <3> QED BY <2>3, <3>1, <3>2, <3>3, MoveCovers
  <2> QED BY <2>1, <2>2, <2>3
<1>7. ASSUME NEW t \in Tasks, CancelRerun(t) PROVE NothingStranded'
  BY <1>7 DEF CancelRerun, NothingStranded
<1>8. ASSUME UNCHANGED vars PROVE NothingStranded'
  BY <1>8 DEF vars, IInv, NothingStranded, Covered
<1> QED BY <1>1, <1>2, <1>3, <1>4, <1>5, <1>6, <1>7, <1>8 DEF Next

LEMMA Inductive == Spec => []IInv
<1>1. Init => IInv  BY TypeInit DEF Init, IInv, NothingStranded
<1>2. IInv /\ [Next]_vars => IInv'  BY TypeStep, StrandedStep DEF IInv
<1> QED BY <1>1, <1>2, PTL DEF Spec

\* No request for a reconfiguration is forgotten by reconfigure_displays, the
\* guard and the settings handler handing the lock to each other, unless the
\* task that re-runs it is cancelled; for any number of tasks.
THEOREM Coalescing == Spec => []NothingStranded
<1>1. IInv => NothingStranded  BY DEF IInv
<1> QED BY <1>1, Inductive, PTL

\* The promise of the guard's documentation holds in full where no task that
\* uses the lock is ever cancelled.
THEOREM HonoredUncancelled ==
  ASSUME Cancellable = {} PROVE Spec => []AlwaysHonored
<1>1. Init => ~lost  BY DEF Init
<1>2. ~lost /\ [Next]_vars => ~lost'
  BY DEF Next, vars, Granted, Request, PassEnds, EnterSection, SectionEnds, SettingsEnd,
         CancelWait, CancelRerun, AcquireForPass, BeginPass
<1>3. ~lost /\ NothingStranded => AlwaysHonored
  BY DEF NothingStranded, AlwaysHonored
<1> QED BY <1>1, <1>2, <1>3, Coalescing, PTL DEF Spec

-----------------------------------------------------------------------------
(* ModeSwitch *)

Services == [mode: Modes, state: {"created", "running", "cleanup", "done"},
             outcome: {"ok", "failed", "cancelled"}, reaped: BOOLEAN]

ModesTypeOK ==
  /\ current_mode \in Modes \cup {NoMode}
  /\ services \in Seq(Services)
  /\ active_task \in 0..Len(services)
  /\ stopEvent \in [Modes -> BOOLEAN]
  /\ lockQueue \in Seq(Switchers)
  /\ place \in [Stoppers -> {"idle", "queued", "stopping", "stopped"}]
  /\ target \in [Switchers -> Modes \cup {NoMode}]
  /\ awaited \in [Stoppers -> 0..Len(services)]

\* The mode and the task are set together, and a done callback follows the
\* end of its task.
Reported ==
  /\ active_task = 0 <=> current_mode = NoMode
  /\ active_task # 0 => current_mode = services[active_task].mode
  /\ \A t \in 1..Len(services) : services[t].reaped => Done(t)

\* Who waits for the lock is in its queue; who stops a service holds it.
LockHeld ==
  \A p \in Switchers :
    /\ place[p] # "idle" => target[p] \in Modes /\ \E i \in 1..Len(lockQueue) : lockQueue[i] = p
    /\ place[p] = "stopping" => Head(lockQueue) = p

\* A switch waits for the service that is active, or for one that died and
\* whose callback has found it active.
Awaiting ==
  /\ \A p \in Stoppers : place[p] = "stopping" => awaited[p] # 0
  /\ place[Shutdown] = "idle" =>
       \A p \in Switchers : place[p] = "stopping" =>
         \/ active_task = awaited[p]
         \/ active_task = 0 /\ Died(awaited[p])

ModesInv == ModesTypeOK /\ Reported /\ LockHeld /\ Awaiting /\ Tracked /\ DeadNotReported
-----------------------------------------------------------------------------
\* Replacing one element of a sequence.
LEMMA ReplaceOne ==
  ASSUME NEW S, NEW s \in Seq(S), NEW t \in 1..Len(s), NEW r \in S
  PROVE  LET n == [s EXCEPT ![t] = r]
         IN /\ n \in Seq(S) /\ Len(n) = Len(s)
            /\ n[t] = r /\ \A u \in 1..Len(s) : u # t => n[u] = s[u]
OBVIOUS

LEMMA AppendOne ==
  ASSUME NEW S, NEW s \in Seq(S), NEW r \in S
  PROVE  LET n == Append(s, r)
         IN /\ n \in Seq(S) /\ Len(n) = Len(s) + 1
            /\ n[Len(s) + 1] = r /\ \A u \in 1..Len(s) : n[u] = s[u]
OBVIOUS

\* The queue after its head has left.
LEMMA TailOne ==
  ASSUME NEW S, NEW s \in Seq(S), NEW i \in 1..Len(s), s[i] # Head(s)
  PROVE  /\ Tail(s) \in Seq(S)
         /\ \E j \in 1..Len(Tail(s)) : Tail(s)[j] = s[i]
<1>1. i # 1 /\ s # <<>>
  OBVIOUS
<1>2. i - 1 \in 1..Len(Tail(s)) /\ Tail(s)[i - 1] = s[i]
  BY <1>1
<1>3. Tail(s) \in Seq(S)
  BY <1>1
<1> QED BY <1>2, <1>3

\* A step of one service that neither reaps it nor brings it back to life.
LEMMA ServiceMoves ==
  ASSUME ModesInv, NEW t \in 1..Len(services), NEW r \in Services,
         services' = [services EXCEPT ![t] = r],
         r.mode = services[t].mode, r.reaped = services[t].reaped,
         Done(t) => r = services[t],
         stopEvent' \in [Modes -> BOOLEAN],
         UNCHANGED <<current_mode, active_task, lockQueue, place, target, awaited>>
  PROVE  ModesInv'
<1>1. ModesTypeOK /\ Reported /\ LockHeld /\ Awaiting /\ Tracked /\ DeadNotReported
  BY DEF ModesInv
<1>2. /\ services' \in Seq(Services) /\ Len(services') = Len(services)
      /\ services'[t] = r /\ \A u \in 1..Len(services) : u # t => services'[u] = services[u]
  BY <1>1, ReplaceOne DEF ModesTypeOK
<1>3. \A u \in 1..Len(services) :
        /\ services'[u].mode = services[u].mode
        /\ services'[u].reaped = services[u].reaped
        /\ Done(u) => services'[u] = services[u]
  BY <1>2
<1>4. \A u \in 1..Len(services) : Done(u) => Done(u)' /\ (Died(u)' <=> Died(u))
  BY <1>3 DEF Done, Died
<1>5. ModesTypeOK'
  BY <1>1, <1>2 DEF ModesTypeOK
<1>6. Reported'
  BY <1>1, <1>2, <1>3, <1>4 DEF Reported, ModesTypeOK
<1>7. LockHeld'
  BY <1>1 DEF LockHeld
<1>8. Awaiting'
  BY <1>1, <1>2, <1>4 DEF Awaiting, ModesTypeOK, Died, Stoppers
<1>9. Tracked'
  BY <1>1, <1>2, <1>3, <1>4 DEF Tracked
<1>10. DeadNotReported'
  BY <1>1, <1>2, <1>3, <1>4 DEF DeadNotReported, Reported, ModesTypeOK, Died
<1> QED BY <1>5, <1>6, <1>7, <1>8, <1>9, <1>10 DEF ModesInv

LEMMA BeginsKeeps ==
  ASSUME ModesInv, NEW t \in 1..Len(services), ServiceBegins(t)
  PROVE  ModesInv'
<1> DEFINE r == [services[t] EXCEPT !.state = "running"]
<1>1. services[t] \in Services /\ stopEvent \in [Modes -> BOOLEAN]
  BY DEF ModesInv, ModesTypeOK
<1>2. /\ r \in Services /\ services' = [services EXCEPT ![t] = r]
      /\ r.mode = services[t].mode /\ r.reaped = services[t].reaped
  BY <1>1 DEF Services, ServiceBegins
<1>3. ~Done(t)
  BY DEF ServiceBegins, Done
<1>4. stopEvent' \in [Modes -> BOOLEAN]
  BY <1>1 DEF ServiceBegins
<1> QED BY <1>2, <1>3, <1>4, ServiceMoves DEF ServiceBegins

LEMMA StopsKeeps ==
  ASSUME ModesInv, NEW t \in 1..Len(services), ServiceStops(t)
  PROVE  ModesInv'
<1> DEFINE r == [services[t] EXCEPT !.state = "cleanup"]
<1>1. services[t] \in Services /\ stopEvent \in [Modes -> BOOLEAN]
  BY DEF ModesInv, ModesTypeOK
<1>2. /\ r \in Services /\ services' = [services EXCEPT ![t] = r]
      /\ r.mode = services[t].mode /\ r.reaped = services[t].reaped
  BY <1>1 DEF Services, ServiceStops
<1>3. ~Done(t)
  BY DEF ServiceStops, Done
<1> QED BY <1>1, <1>2, <1>3, ServiceMoves DEF ServiceStops

LEMMA EndsKeeps ==
  ASSUME ModesInv, NEW t \in 1..Len(services), ServiceEnds(t)
  PROVE  ModesInv'
<1>1. services[t] \in Services /\ stopEvent \in [Modes -> BOOLEAN] /\ ~Done(t)
  BY DEF ModesInv, ModesTypeOK, ServiceEnds, Done
<1>2. PICK r \in {[services[t] EXCEPT !.state = "done"],
                  [services[t] EXCEPT !.state = "done", !.outcome = "failed"]} :
        services' = [services EXCEPT ![t] = r]
  BY DEF ServiceEnds
<1>3. r \in Services /\ r.mode = services[t].mode /\ r.reaped = services[t].reaped
  BY <1>1 DEF Services
<1> QED BY <1>1, <1>2, <1>3, ServiceMoves DEF ServiceEnds

LEMMA TimesOutKeeps ==
  ASSUME ModesInv, NEW p \in Stoppers, StopTimesOut(p)
  PROVE  ModesInv'
<1> DEFINE t == awaited[p]
           r == [services[t] EXCEPT !.state = "done", !.outcome = "cancelled"]
<1>1. t \in 1..Len(services) /\ ~Done(t)
  BY DEF ModesInv, ModesTypeOK, Awaiting, StopTimesOut
<1>2. services[t] \in Services /\ stopEvent \in [Modes -> BOOLEAN]
  BY <1>1 DEF ModesInv, ModesTypeOK
<1>3. /\ r \in Services /\ services' = [services EXCEPT ![t] = r]
      /\ r.mode = services[t].mode /\ r.reaped = services[t].reaped
  BY <1>2 DEF Services, StopTimesOut
<1> HIDE DEF t, r
<1> QED BY <1>1, <1>2, <1>3, ServiceMoves DEF StopTimesOut

\* The done callback: only a service that died and is active is forgotten.
LEMMA ReapKeeps ==
  ASSUME ModesInv, NEW t \in 1..Len(services), Reap(t)
  PROVE  ModesInv'
<1> DEFINE r == [services[t] EXCEPT !.reaped = TRUE]
<1>1. ModesTypeOK /\ Reported /\ LockHeld /\ Awaiting /\ Tracked /\ DeadNotReported
  BY DEF ModesInv
<1>a. services[t] \in Services /\ Done(t)
  BY <1>1 DEF Reap, ModesTypeOK
<1>2. /\ r \in Services /\ services' = [services EXCEPT ![t] = r]
      /\ r.mode = services[t].mode /\ r.reaped
      /\ r.state = services[t].state /\ r.outcome = services[t].outcome
  BY <1>a DEF Services, Reap
<1> HIDE DEF r
<1>3. /\ services' \in Seq(Services) /\ Len(services') = Len(services)
      /\ services'[t] = r /\ \A u \in 1..Len(services) : u # t => services'[u] = services[u]
  BY <1>1, <1>2, ReplaceOne DEF ModesTypeOK
<1>4. \A u \in 1..Len(services) : (Done(u)' <=> Done(u)) /\ (Died(u)' <=> Died(u))
                                  /\ services'[u].mode = services[u].mode
  BY <1>2, <1>3 DEF Done, Died
<1>6. ModesTypeOK'
  BY <1>1, <1>3 DEF ModesTypeOK, Reap
<1>7. Reported'
  BY <1>a, <1>1, <1>3, <1>4, ModesAssumption DEF Reported, ModesTypeOK, Reap
<1>8. LockHeld'
  BY <1>1 DEF LockHeld, Reap
<1>9. Awaiting'
  BY <1>1, <1>3, <1>4 DEF Awaiting, ModesTypeOK, Reap, Stoppers
<1>10. Tracked'
  BY <1>a, <1>1, <1>3, <1>4 DEF Tracked, Reap
<1>11. DeadNotReported'
  BY <1>1, <1>3, <1>4 DEF DeadNotReported, ModesTypeOK, Reap
<1> QED BY <1>6, <1>7, <1>8, <1>9, <1>10, <1>11 DEF ModesInv
-----------------------------------------------------------------------------
LEMMA AskKeeps ==
  ASSUME ModesInv, NEW p \in Switchers, NEW m \in Modes, Ask(p, m)
  PROVE  ModesInv'
<1>1. ModesTypeOK /\ Reported /\ LockHeld /\ Awaiting /\ Tracked /\ DeadNotReported
  BY DEF ModesInv
<1>2. /\ lockQueue' \in Seq(Switchers) /\ Len(lockQueue') = Len(lockQueue) + 1
      /\ lockQueue'[Len(lockQueue')] = p
      /\ \A i \in 1..Len(lockQueue) : lockQueue'[i] = lockQueue[i]
  BY <1>1, AppendOne DEF ModesTypeOK, Ask
<1>3. /\ p \in Stoppers /\ p # Shutdown /\ place[p] = "idle" /\ place'[p] = "queued"
      /\ place' \in [Stoppers -> {"idle", "queued", "stopping", "stopped"}]
      /\ \A q \in Stoppers : q # p => place'[q] = place[q]
      /\ target' \in [Switchers -> Modes \cup {NoMode}] /\ target'[p] = m
      /\ \A q \in Switchers : q # p => target'[q] = target[q]
  BY <1>1, ModesAssumption DEF ModesTypeOK, Ask, Stoppers
<1>4. ModesTypeOK'
  BY <1>1, <1>2, <1>3 DEF ModesTypeOK, Ask
<1>5. LockHeld'
  <2> SUFFICES ASSUME NEW q \in Switchers, place'[q] # "idle"
               PROVE  /\ target'[q] \in Modes
                      /\ \E i \in 1..Len(lockQueue') : lockQueue'[i] = q
                      /\ place'[q] = "stopping" => Head(lockQueue') = q
    BY DEF LockHeld
  <2>1. CASE q = p
    BY <1>1, <1>2, <1>3, <2>1 DEF ModesTypeOK
  <2>2. CASE q # p
    <3>1. place'[q] = place[q] /\ target'[q] = target[q]
      BY <1>3, <2>2 DEF Stoppers
    <3>2. PICK i \in 1..Len(lockQueue) : lockQueue[i] = q
      BY <1>1, <3>1 DEF LockHeld
    <3>3. i \in 1..Len(lockQueue') /\ lockQueue'[i] = q
      BY <1>2, <3>2
    <3>4. Head(lockQueue') = Head(lockQueue)
      BY <1>1, <1>2, <3>2 DEF ModesTypeOK
    <3> QED BY <1>1, <3>1, <3>3, <3>4 DEF LockHeld
  <2> QED BY <2>1, <2>2
<1>6. Reported' /\ DeadNotReported'
  BY <1>1 DEF Reported, DeadNotReported, Ask, Done, Died
<1>7. Tracked'
  BY <1>1, <1>3 DEF Tracked, Ask, Done, Stoppers
<1>8. Awaiting'
  BY <1>1, <1>3 DEF Awaiting, Ask, Done, Died, Stoppers
<1> QED BY <1>4, <1>5, <1>6, <1>7, <1>8 DEF ModesInv

\* The lock goes on to the next waiter, and no stop is in progress.
LEMMA AnsweredKeeps ==
  ASSUME ModesInv, NEW p \in Switchers, place[p] # "idle", Head(lockQueue) = p, Answered(p)
  PROVE  /\ lockQueue' \in Seq(Switchers)
         /\ place' \in [Stoppers -> {"idle", "queued", "stopping", "stopped"}]
         /\ target' \in [Switchers -> Modes \cup {NoMode}]
         /\ awaited' \in [Stoppers -> 0..Len(services)]
         /\ LockHeld'
         /\ place'[Shutdown] = place[Shutdown] /\ awaited'[Shutdown] = awaited[Shutdown]
         /\ \A q \in Switchers : place'[q] # "stopping"
<1>1. ModesTypeOK /\ LockHeld
  BY DEF ModesInv
<1>2. /\ p \in Stoppers /\ p # Shutdown /\ Shutdown \in Stoppers
      /\ \A q \in Stoppers : place'[q] = IF q = p THEN "idle" ELSE place[q]
      /\ \A q \in Switchers : q # p => target'[q] = target[q]
      /\ \A q \in Stoppers : awaited'[q] = IF q = p THEN 0 ELSE awaited[q]
  BY <1>1, ModesAssumption DEF ModesTypeOK, Answered, Stoppers
<1>3. PICK k \in 1..Len(lockQueue) : lockQueue[k] = p
  BY <1>1 DEF LockHeld
<1>4. lockQueue' \in Seq(Switchers)
  BY <1>1, <1>3 DEF ModesTypeOK, Answered
<1>5. /\ place' \in [Stoppers -> {"idle", "queued", "stopping", "stopped"}]
      /\ target' \in [Switchers -> Modes \cup {NoMode}]
      /\ awaited' \in [Stoppers -> 0..Len(services)]
  BY <1>1, <1>2 DEF ModesTypeOK, Answered
<1>6. \A q \in Switchers : place'[q] # "stopping"
  BY <1>1, <1>2 DEF LockHeld, Stoppers
<1>7. LockHeld'
  <2> SUFFICES ASSUME NEW q \in Switchers, place'[q] # "idle"
               PROVE  /\ target'[q] \in Modes
                      /\ \E i \in 1..Len(lockQueue') : lockQueue'[i] = q
    BY <1>6 DEF LockHeld
  <2>1. q # p /\ place[q] = place'[q] /\ target'[q] = target[q]
    BY <1>2 DEF Stoppers
  <2>2. PICK i \in 1..Len(lockQueue) : lockQueue[i] = q
    BY <1>1, <2>1 DEF LockHeld
  <2>3. \E j \in 1..Len(Tail(lockQueue)) : Tail(lockQueue)[j] = q
    BY <1>1, <2>1, <2>2, TailOne DEF ModesTypeOK
  <2> QED BY <1>1, <2>1, <2>3 DEF LockHeld, Answered
<1> QED BY <1>2, <1>4, <1>5, <1>6, <1>7

\* A request is answered, and what is reported stays.
LEMMA GivesUpKeeps ==
  ASSUME ModesInv, NEW p \in Switchers, place[p] # "idle", Head(lockQueue) = p,
         Answered(p), stopEvent' \in [Modes -> BOOLEAN],
         UNCHANGED <<current_mode, active_task, services>>
  PROVE  ModesInv'
<1>1. ModesTypeOK /\ Reported /\ Awaiting /\ Tracked /\ DeadNotReported
  BY DEF ModesInv
<1>2. /\ lockQueue' \in Seq(Switchers)
      /\ place' \in [Stoppers -> {"idle", "queued", "stopping", "stopped"}]
      /\ target' \in [Switchers -> Modes \cup {NoMode}]
      /\ awaited' \in [Stoppers -> 0..Len(services)]
      /\ LockHeld'
      /\ place'[Shutdown] = place[Shutdown] /\ awaited'[Shutdown] = awaited[Shutdown]
      /\ \A q \in Switchers : place'[q] # "stopping"
  BY AnsweredKeeps
<1>3. ModesTypeOK'
  BY <1>1, <1>2 DEF ModesTypeOK
<1>4. Reported' /\ DeadNotReported' /\ Tracked'
  BY <1>1, <1>2 DEF Reported, DeadNotReported, Tracked, Done, Died
<1>5. Awaiting'
  BY <1>1, <1>2 DEF Awaiting, Stoppers
<1> QED BY <1>2, <1>3, <1>4, <1>5 DEF ModesInv

\* A service is started when none is alive.
LEMMA StartsKeeps ==
  ASSUME ModesInv, NEW p \in Switchers, place[p] # "idle", Head(lockQueue) = p,
         StartService(target[p]), Answered(p), UNCHANGED stopEvent,
         place[Shutdown] = "idle" => \A t \in 1..Len(services) : Done(t)
  PROVE  ModesInv'
<1> DEFINE new == Created(target[p])
<1>1. ModesTypeOK /\ Reported /\ LockHeld /\ Awaiting
  BY DEF ModesInv
<1>2. /\ lockQueue' \in Seq(Switchers)
      /\ place' \in [Stoppers -> {"idle", "queued", "stopping", "stopped"}]
      /\ target' \in [Switchers -> Modes \cup {NoMode}]
      /\ awaited' \in [Stoppers -> 0..Len(services)]
      /\ LockHeld'
      /\ place'[Shutdown] = place[Shutdown] /\ awaited'[Shutdown] = awaited[Shutdown]
      /\ \A q \in Switchers : place'[q] # "stopping"
  BY AnsweredKeeps
<1>3. /\ target[p] \in Modes /\ target[p] # NoMode /\ new \in Services
      /\ new.mode = target[p] /\ new.state = "created" /\ ~new.reaped
  BY <1>1, ModesAssumption DEF LockHeld, Created, Services
<1>4. services' = Append(services, new) /\ active_task' = Len(services) + 1 /\ current_mode' = target[p]
  BY DEF StartService
<1> HIDE DEF new
<1>5. /\ services' \in Seq(Services) /\ Len(services') = Len(services) + 1
      /\ services'[Len(services) + 1] = new
      /\ \A u \in 1..Len(services) : services'[u] = services[u]
  BY <1>1, <1>3, <1>4, AppendOne DEF ModesTypeOK
<1>6. Len(services) \in Nat
  BY <1>1 DEF ModesTypeOK
<1>7. ModesTypeOK'
  <2>1. awaited' \in [Stoppers -> 0..Len(services')]
    BY <1>2, <1>5, <1>6
  <2>2. active_task' \in 0..Len(services') /\ current_mode' \in Modes
    BY <1>3, <1>4, <1>5, <1>6
  <2> QED BY <1>1, <1>2, <1>5, <2>1, <2>2 DEF ModesTypeOK
<1>8. Reported'
  BY <1>1, <1>3, <1>4, <1>5, <1>6 DEF Reported, Done
<1>9. Tracked'
  BY <1>2, <1>3, <1>4, <1>5, <1>6 DEF Tracked, Done
<1>10. DeadNotReported'
  BY <1>3, <1>4, <1>5 DEF DeadNotReported, Died, Done
<1>11. Awaiting'
  BY <1>1, <1>2 DEF Awaiting, Stoppers
<1> QED BY <1>2, <1>7, <1>8, <1>9, <1>10, <1>11 DEF ModesInv

LEMMA BeginStopKeeps ==
  ASSUME ModesInv, NEW p \in Stoppers, BeginStop(p), current_mode # NoMode,
         IF p = Shutdown THEN TRUE
         ELSE Head(lockQueue) = p /\ place[p] = "queued"
  PROVE  ModesInv'
<1>1. ModesTypeOK /\ Reported /\ LockHeld /\ Awaiting /\ Tracked /\ DeadNotReported
  BY DEF ModesInv
<1>2. /\ \A q \in Stoppers : place'[q] = IF q = p THEN "stopping" ELSE place[q]
      /\ \A q \in Stoppers : awaited'[q] = IF q = p THEN active_task ELSE awaited[q]
      /\ active_task # 0 /\ Shutdown \in Stoppers /\ Switchers \subseteq Stoppers
  BY <1>1 DEF ModesTypeOK, Reported, BeginStop, Stoppers
<1>3. ModesTypeOK'
  BY <1>1 DEF ModesTypeOK, BeginStop
<1>4. Reported' /\ DeadNotReported'
  BY <1>1 DEF Reported, DeadNotReported, BeginStop, Done, Died
<1>5. Tracked'
  BY <1>1, <1>2 DEF Tracked, BeginStop, Done
<1>6. LockHeld'
  BY <1>1, <1>2, ModesAssumption DEF LockHeld, BeginStop
<1>7. Awaiting'
  BY <1>1, <1>2 DEF Awaiting, BeginStop, Done, Died
<1> QED BY <1>3, <1>4, <1>5, <1>6, <1>7 DEF ModesInv

LEMMA SwitchKeeps ==
  ASSUME ModesInv, NEW p \in Switchers, Switch(p)
  PROVE  ModesInv'
<1>1. /\ ModesTypeOK /\ Reported /\ Tracked
      /\ place[p] = "queued" /\ Head(lockQueue) = p /\ p # Shutdown /\ p \in Stoppers
  BY ModesAssumption DEF ModesInv, Switch, Stoppers
<1>2. CASE current_mode = target[p] /\ Answered(p)
           /\ UNCHANGED <<current_mode, active_task, services, stopEvent>>
  BY <1>1, <1>2, GivesUpKeeps DEF ModesTypeOK
<1>3. CASE current_mode = NoMode /\ StartService(target[p]) /\ Answered(p) /\ UNCHANGED stopEvent
  <2>1. place[Shutdown] = "idle" => \A t \in 1..Len(services) : Done(t)
    BY <1>1, <1>3 DEF Reported, Tracked
  <2> QED BY <1>1, <1>3, <2>1, StartsKeeps
<1>4. CASE /\ stopEvent' = [stopEvent EXCEPT ![current_mode] = TRUE]
           /\ Answered(p)
           /\ UNCHANGED <<current_mode, active_task, services>>
  BY <1>1, <1>4, GivesUpKeeps DEF ModesTypeOK
<1>5. CASE current_mode # NoMode /\ BeginStop(p)
  BY <1>1, <1>5, BeginStopKeeps
<1> QED BY <1>2, <1>3, <1>4, <1>5 DEF Switch

\* The stop is over: the switch fails with the service, or starts another.
LEMMA StoppedKeeps ==
  ASSUME ModesInv, NEW p \in Stoppers, Stopped(p)
  PROVE  ModesInv'
<1>1. ModesTypeOK /\ Reported /\ LockHeld /\ Awaiting /\ Tracked /\ DeadNotReported
      /\ place[p] = "stopping" /\ Done(awaited[p])
  BY DEF ModesInv, Stopped
<1>2. CASE p # Shutdown
  <2>1. p \in Switchers /\ Head(lockQueue) = p
    BY <1>1, <1>2 DEF LockHeld, Stoppers
  <2>2. CASE Answered(p) /\ UNCHANGED <<current_mode, active_task, services>>
    BY <1>1, <2>1, <2>2, GivesUpKeeps DEF Stopped, ModesTypeOK
  <2>3. CASE ~Died(awaited[p]) /\ StartService(target[p]) /\ Answered(p)
    <3>1. place[Shutdown] = "idle" => active_task = awaited[p]
      BY <1>1, <2>1, <2>3 DEF Awaiting
    <3>2. place[Shutdown] = "idle" => \A t \in 1..Len(services) : Done(t)
      BY <1>1, <3>1 DEF Tracked
    <3> QED BY <1>1, <2>1, <2>3, <3>2, StartsKeeps DEF Stopped
  <2> QED BY <1>2, <2>2, <2>3 DEF Stopped
<1>3. CASE p = Shutdown
  <2>1. /\ UNCHANGED <<services, lockQueue, target, stopEvent>>
        /\ place' = [place EXCEPT ![p] = "stopped"]
        /\ awaited' = [awaited EXCEPT ![p] = 0]
        /\ \/ UNCHANGED <<current_mode, active_task>>
           \/ current_mode' = NoMode /\ active_task' = 0
    BY <1>3 DEF Stopped
  <2>2. /\ \A q \in Stoppers : place'[q] = IF q = p THEN "stopped" ELSE place[q]
        /\ \A q \in Stoppers : awaited'[q] = IF q = p THEN 0 ELSE awaited[q]
        /\ Shutdown \in Stoppers /\ Switchers \subseteq Stoppers /\ p \notin Switchers
    BY <1>1, <1>3, <2>1, ModesAssumption DEF ModesTypeOK, Stoppers
  <2>3. ModesTypeOK'
    BY <1>1, <2>1 DEF ModesTypeOK
  <2>4. Reported' /\ DeadNotReported'
    BY <1>1, <2>1 DEF Reported, DeadNotReported, Done, Died
  <2>5. Tracked' /\ LockHeld' /\ Awaiting'
    BY <1>1, <1>3, <2>1, <2>2 DEF Tracked, LockHeld, Awaiting
  <2> QED BY <2>3, <2>4, <2>5 DEF ModesInv
<1> QED BY <1>2, <1>3

LEMMA StopServerKeeps ==
  ASSUME ModesInv, StopServer
  PROVE  ModesInv'
<1>1. CASE current_mode = NoMode
  <2>1. ModesTypeOK /\ Reported /\ LockHeld /\ Awaiting /\ Tracked /\ DeadNotReported
    BY DEF ModesInv
  <2>2. /\ UNCHANGED <<current_mode, active_task, services, stopEvent, lockQueue,
                       target, awaited>>
        /\ place' = [place EXCEPT ![Shutdown] = "stopped"]
    BY <1>1 DEF StopServer
  <2>3. /\ \A q \in Stoppers : place'[q] = IF q = Shutdown THEN "stopped" ELSE place[q]
        /\ Shutdown \in Stoppers /\ Switchers \subseteq Stoppers /\ Shutdown \notin Switchers
    BY <2>1, <2>2, ModesAssumption DEF ModesTypeOK, Stoppers
  <2>4. ModesTypeOK'
    BY <2>1, <2>2 DEF ModesTypeOK
  <2>5. Reported' /\ DeadNotReported'
    BY <2>1, <2>2 DEF Reported, DeadNotReported, Done, Died
  <2>6. Tracked' /\ LockHeld' /\ Awaiting'
    BY <2>1, <2>2, <2>3 DEF Tracked, LockHeld, Awaiting
  <2> QED BY <2>4, <2>5, <2>6 DEF ModesInv
<1>2. CASE current_mode # NoMode
  BY <1>2, BeginStopKeeps DEF StopServer, Stoppers
<1> QED BY <1>1, <1>2
-----------------------------------------------------------------------------
LEMMA InitModesInv == ModesInit => ModesInv
<1> SUFFICES ASSUME ModesInit PROVE ModesInv
  OBVIOUS
<1>1. services = <<>> /\ Len(services) = 0 /\ lockQueue = <<>>
      /\ \A q \in Stoppers : place[q] = "idle"
  BY DEF ModesInit
<1>2. ModesTypeOK
  BY <1>1 DEF ModesInit, ModesTypeOK
<1> QED BY <1>1, <1>2, ModesAssumption
        DEF ModesInit, ModesInv, Reported, LockHeld, Awaiting, Tracked, DeadNotReported, Stoppers

LEMMA NextModesInv == ModesInv /\ [ModesNext]_modeVars => ModesInv'
<1> SUFFICES ASSUME ModesInv, [ModesNext]_modeVars PROVE ModesInv'
  OBVIOUS
<1>1. ASSUME NEW p \in Switchers, Supervise(p) PROVE ModesInv'
  BY <1>1, SwitchKeeps, AskKeeps DEF Supervise
<1>2. ASSUME NEW p \in Stoppers, Stopped(p) \/ StopTimesOut(p) PROVE ModesInv'
  BY <1>2, StoppedKeeps, TimesOutKeeps
<1>3. ASSUME NEW t \in 1..Len(services), ServiceStep(t) PROVE ModesInv'
  BY <1>3, BeginsKeeps, StopsKeeps, EndsKeeps, ReapKeeps DEF ServiceStep
<1>4. CASE UNCHANGED modeVars
  BY <1>4 DEF modeVars, ModesInv, ModesTypeOK, Reported, LockHeld, Awaiting, Tracked,
              DeadNotReported, Done, Died
<1> QED BY <1>1, <1>2, <1>3, <1>4, StopServerKeeps DEF ModesNext

LEMMA ModesInvariant == ModesSpec => []ModesInv
BY InitModesInv, NextModesInv, PTL DEF ModesSpec

\* A service that is alive is the one the supervisor reports (switch_to_mode,
\* _on_service_done), for any number of requests, modes and services.
THEOREM LiveServiceTracked == ModesSpec => []Tracked
<1>1. ModesInv => Tracked
  BY DEF ModesInv
<1> QED BY <1>1, ModesInvariant, PTL

\* Two services are never alive together while the server is up, however
\* requests, stops, time-outs and deaths overlap (switch_to_mode).
THEOREM AtMostOneService == ModesSpec => []OneService
<1>1. ModesInv => OneService
  <2> SUFFICES ASSUME ModesInv, place[Shutdown] = "idle"
               PROVE  Cardinality({t \in 1..Len(services) : ~Done(t)}) <= 1
    BY DEF OneService
  <2>1. {t \in 1..Len(services) : ~Done(t)} \subseteq {active_task}
    BY DEF ModesInv, Tracked
  <2>2. IsFiniteSet({active_task}) /\ Cardinality({active_task}) = 1
    BY FS_Singleton
  <2>3. Cardinality({t \in 1..Len(services) : ~Done(t)}) <= Cardinality({active_task})
    BY <2>1, <2>2, FS_Subset
  <2> QED BY <2>2, <2>3
<1> QED BY <1>1, ModesInvariant, PTL

\* A service that died is not reported once its done callback has run.
THEOREM DeadServiceForgotten == ModesSpec => []DeadNotReported
<1>1. ModesInv => DeadNotReported
  BY DEF ModesInv
<1> QED BY <1>1, ModesInvariant, PTL

-----------------------------------------------------------------------------
(* Backpressure *)

Frames == [id: Nat, old: BOOLEAN, age: Nat]
Half == (IdSpace - 1) \div 2
Fresh(m) == IsFrame(m) /\ ~m.old

BackpressureTypeOK ==
  /\ last_sent_frame_id \in 0 .. (IdSpace - 1) /\ nextId \in 0 .. (IdSpace - 1)
  /\ has_sent_any_frame \in BOOLEAN /\ backpressure_enabled \in BOOLEAN
  /\ monitor \in BOOLEAN /\ emitter \in {"on", "leaving", "off"}
  /\ silence \in Nat /\ burst \in 0 .. MaxBurst
  /\ wire \in Seq(Frames \cup {Reset}) /\ ackWire \in Seq(Frames)
  /\ received \in Frames \cup {NoFrame}
  /\ acknowledged_frame_id \in Frames \cup {NoFrame}

\* Every frame that either end remembers.
Known == {received, acknowledged_frame_id} \cup {wire[i] : i \in DOMAIN wire}
         \cup {ackWire[i] : i \in DOMAIN ackWire}

\* A frame no reset followed is as many ids behind the last one as frames were
\* sent since, and that is less than half the circle.
RingOK ==
  \A m \in Known : Fresh(m) =>
    /\ m.id + m.age \in {last_sent_frame_id, last_sent_frame_id + IdSpace}
    /\ m.id < IdSpace /\ m.age <= Half
    /\ has_sent_any_frame /\ nextId = (last_sent_frame_id + 1) % IdSpace
    /\ ~(emitter = "off" /\ monitor)

\* The websocket keeps the order: what was sent since a frame is still behind
\* it on its way.
FlightOK ==
  /\ \A i \in DOMAIN wire : Fresh(wire[i]) => wire[i].age = Len(wire) - i
  /\ Fresh(received) => received.age = Len(wire)
  /\ Len(wire) <= MaxFlight \/ (Len(wire) = 1 /\ ~Fresh(received))
  /\ \A i \in DOMAIN ackWire :
       Fresh(ackWire[i]) => ackWire[i].age <= MaxAge \/ ackWire[i].age <= MaxFlight

\* How far the client is behind: with an ACK no check has seen, behind an open
\* gate, behind a closed one.
LagOK ==
  Fresh(acknowledged_frame_id) =>
    \/ /\ silence = 0
       /\ \/ acknowledged_frame_id.age <= MaxAge + burst
          \/ acknowledged_frame_id.age <= MaxFlight + burst
    \/ /\ backpressure_enabled
       /\ \E w \in Windows : acknowledged_frame_id.age <= w + burst
    \/ ~backpressure_enabled

\* A capture that is stopping has stopped its monitor first.
MonitorOK == emitter = "leaving" => ~monitor

BackpressureInv == BackpressureTypeOK /\ RingOK /\ FlightOK /\ LagOK /\ MonitorOK
-----------------------------------------------------------------------------
(* The circle of ids *)

LEMMA Turned ==
  /\ \A a \in 0 .. (IdSpace - 1) : a % IdSpace = a /\ (a - IdSpace) % IdSpace = a
  /\ \A a \in 0 .. (IdSpace - 1) :
       (a + 1) % IdSpace = IF a + 1 = IdSpace THEN 0 ELSE a + 1
<1>0. IdSpace \in Nat /\ IdSpace > 0
  BY BackpressureAssumption
<1>1. \A a \in 0 .. (IdSpace - 1) : a % IdSpace = a
  BY <1>0
<1>2. \A a \in 0 .. (IdSpace - 1) : (a - IdSpace) % IdSpace = a
  BY <1>0
<1>3. IdSpace % IdSpace = 0
  BY <1>0
<1> QED BY <1>0, <1>1, <1>2, <1>3

\* Half the circle is less than the circle, and more than a check finds behind.
LEMMA HalfTurn ==
  /\ Half \in Nat /\ Half < IdSpace /\ IdSpace \in Nat \ {0}
  /\ MaxBurst \in Nat /\ StallChecks \in Nat /\ MaxAge \in Nat /\ MaxFlight \in Nat
  /\ MaxFlight + MaxBurst <= Half /\ MaxAge + MaxBurst <= Half
  /\ MaxFlight <= Half /\ MaxAge <= Half
<1>1. IdSpace \in Nat \ {0} /\ MaxBurst \in Nat /\ MaxAge \in Nat /\ MaxFlight \in Nat
      /\ StallChecks \in Nat
  BY BackpressureAssumption
<1>2. Half \in Nat /\ Half < IdSpace
  BY <1>1 DEF Half
<1>3. MaxFlight + MaxBurst <= Half /\ MaxAge + MaxBurst <= Half
  BY HalfCircleAssumption DEF Half
<1> QED BY <1>1, <1>2, <1>3

LEMMA HalfWindow == ASSUME NEW w \in Windows PROVE w \in Nat /\ w + MaxBurst <= Half
<1>1. w \in Nat
  BY BackpressureAssumption
<1>2. w + MaxBurst <= Half
  BY HalfCircleAssumption DEF Half
<1> QED BY <1>1, <1>2

LEMMA NotFrames ==
  /\ \A m \in Frames : IsFrame(m)
  /\ ~IsFrame(NoFrame) /\ ~IsFrame(Reset) /\ NoFrame \notin Frames /\ Reset \notin Frames
<1>1. {NoFrame, Reset} \cap Frames = {}
  BY BackpressureAssumption DEF Frames
<1> QED BY <1>1 DEF IsFrame

\* A frame ages by one with each frame that is sent after it.
LEMMA GrownFrame ==
  ASSUME NEW m \in Frames \cup {NoFrame, Reset}
  PROVE  /\ m \in Frames => Grown(m) \in Frames
         /\ m \notin Frames => Grown(m) = m
         /\ Fresh(Grown(m)) => Fresh(m)
         /\ Fresh(m) /\ m.age < IdSpace => Grown(m).age = m.age + 1
         /\ Fresh(m) => Grown(m).id = m.id
<1>0. IdSpace \in Nat
  BY BackpressureAssumption
<1>1. CASE m \in Frames /\ ~m.old /\ m.age < IdSpace
  <2>1. Grown(m) = [m EXCEPT !.age = m.age + 1]
    BY <1>1, NotFrames DEF Grown
  <2>2. m.age + 1 \in Nat
    BY <1>1 DEF Frames
  <2>3. Grown(m) \in Frames /\ Grown(m).age = m.age + 1 /\ Grown(m).id = m.id
        /\ Grown(m).old = m.old
    BY <1>1, <2>1, <2>2 DEF Frames
  <2> QED BY <1>1, <2>3, NotFrames DEF Fresh
<1>2. CASE ~(m \in Frames /\ ~m.old /\ m.age < IdSpace)
  <2>1. Grown(m) = m
    BY <1>2, NotFrames DEF Grown
  <2>2. m \notin Frames => ~Fresh(m)
    BY NotFrames DEF Fresh
  <2> QED BY <1>2, <2>1, <2>2 DEF Fresh
<1> QED BY <1>1, <1>2

\* A frame that a reset followed is not fresh any more.
LEMMA OutdatedFrame ==
  ASSUME NEW m \in Frames \cup {NoFrame, Reset}
  PROVE  /\ m \in Frames => Outdated(m) \in Frames
         /\ m \notin Frames => Outdated(m) = m
         /\ ~Fresh(Outdated(m))
<1>1. CASE m \in Frames
  <2> DEFINE old == [m EXCEPT !.old = TRUE]
  <2>1. Outdated(m) = [old EXCEPT !.age = 0]
    BY <1>1, NotFrames DEF Outdated
  <2>2. old \in Frames /\ old.old = TRUE
    BY <1>1 DEF Frames
  <2> HIDE DEF old
  <2>3. Outdated(m) \in Frames /\ Outdated(m).old = TRUE
    BY <2>1, <2>2 DEF Frames
  <2> QED BY <1>1, <2>3 DEF Fresh
<1>2. CASE m \notin Frames
  <2>1. Outdated(m) = m /\ ~IsFrame(m)
    BY <1>2, NotFrames DEF Outdated
  <2> QED BY <1>2, <2>1 DEF Fresh
<1> QED BY <1>1, <1>2

LEMMA BackpressureInit_Inv == BackpressureInit => BackpressureInv
<1> SUFFICES ASSUME BackpressureInit PROVE BackpressureInv
  OBVIOUS
<1>1. /\ last_sent_frame_id = 0 /\ nextId = 0 /\ has_sent_any_frame = FALSE
      /\ acknowledged_frame_id = NoFrame /\ backpressure_enabled = TRUE
      /\ silence = 0 /\ burst = 0 /\ emitter = "on" /\ monitor = TRUE
      /\ wire = <<>> /\ ackWire = <<>> /\ received = NoFrame
  BY DEF BackpressureInit, FreshPage
<1>2. BackpressureTypeOK
  <2>1. 0 \in 0 .. (IdSpace - 1) /\ 0 \in 0 .. MaxBurst
    BY HalfTurn
  <2>2. <<>> \in Seq(Frames \cup {Reset}) /\ <<>> \in Seq(Frames)
    OBVIOUS
  <2> QED BY <1>1, <2>1, <2>2 DEF BackpressureTypeOK
<1>3. RingOK
  BY <1>1, NotFrames DEF RingOK, Known, Fresh
<1>4. FlightOK
  BY <1>1, NotFrames, HalfTurn DEF FlightOK, Fresh
<1>5. LagOK
  BY <1>1, NotFrames DEF LagOK, Fresh
<1>6. MonitorOK
  BY <1>1 DEF MonitorOK
<1> QED BY <1>2, <1>3, <1>4, <1>5, <1>6 DEF BackpressureInv

LEMMA SendFrameKeeps == ASSUME BackpressureInv, SendFrame PROVE BackpressureInv'
<1>0. BackpressureTypeOK /\ RingOK /\ FlightOK /\ LagOK /\ MonitorOK
  BY DEF BackpressureInv
<1> DEFINE sent == Frame(nextId)
           grown == [i \in DOMAIN wire |-> Grown(wire[i])]
<1>1. /\ emitter \in {"on", "leaving"} /\ backpressure_enabled /\ Len(wire) < MaxFlight
      /\ burst < MaxBurst /\ \A i \in DOMAIN ackWire : ackWire[i].old \/ ackWire[i].age < MaxAge
      /\ wire' = Append(grown, sent)
      /\ ackWire' = [i \in DOMAIN ackWire |-> Grown(ackWire[i])]
      /\ received' = Grown(received) /\ acknowledged_frame_id' = Grown(acknowledged_frame_id)
      /\ last_sent_frame_id' = nextId /\ has_sent_any_frame' = TRUE
      /\ nextId' = (nextId + 1) % IdSpace /\ burst' = burst + 1
      /\ UNCHANGED <<backpressure_enabled, silence, emitter, monitor>>
  BY DEF SendFrame
<1>2. sent \in Frames /\ sent.id = nextId /\ sent.age = 0 /\ ~sent.old
  BY <1>0 DEF Frame, Frames, BackpressureTypeOK
<1>3. /\ wire \in Seq(Frames \cup {Reset}) /\ ackWire \in Seq(Frames)
      /\ received \in Frames \cup {NoFrame} /\ acknowledged_frame_id \in Frames \cup {NoFrame}
      /\ Len(wire) \in Nat /\ Len(ackWire) \in Nat
  BY <1>0 DEF BackpressureTypeOK
<1>4. \A i \in DOMAIN wire : Grown(wire[i]) \in Frames \cup {Reset}
  <2>1. \A i \in DOMAIN wire : wire[i] \in Frames \cup {Reset}
    BY <1>3
  <2> QED BY <2>1, GrownFrame
<1>5. \A i \in DOMAIN ackWire : Grown(ackWire[i]) \in Frames /\ ackWire[i] \in Frames
  <2>1. \A i \in DOMAIN ackWire : ackWire[i] \in Frames
    BY <1>3
  <2> QED BY <2>1, GrownFrame
<1>6. grown \in Seq(Frames \cup {Reset}) /\ Len(grown) = Len(wire)
  BY <1>3, <1>4
<1> HIDE DEF sent, grown
<1>7. /\ wire' \in Seq(Frames \cup {Reset}) /\ Len(wire') = Len(wire) + 1
      /\ wire'[Len(wire) + 1] = sent /\ \A i \in 1 .. Len(wire) : wire'[i] = grown[i]
  BY <1>1, <1>2, <1>6
<1>8. ASSUME NEW i \in 1 .. Len(wire)
      PROVE  wire'[i] = Grown(wire[i]) /\ wire[i] \in Known /\ wire[i] \in Frames \cup {Reset}
  <2>1. i \in DOMAIN wire
    BY <1>3
  <2>2. wire'[i] = Grown(wire[i])
    BY <1>7, <2>1 DEF grown
  <2>3. wire[i] \in Known
    BY <2>1 DEF Known
  <2>4. wire[i] \in Frames \cup {Reset}
    BY <1>3, <2>1
  <2> QED BY <2>2, <2>3, <2>4
<1>9. BackpressureTypeOK'
  <2>1. ackWire' \in Seq(Frames)
    BY <1>1, <1>3, <1>5
  <2>2. received' \in Frames \cup {NoFrame} /\ acknowledged_frame_id' \in Frames \cup {NoFrame}
    BY <1>1, <1>3, GrownFrame
  <2>3. nextId' \in 0 .. (IdSpace - 1) /\ nextId \in 0 .. (IdSpace - 1)
    BY <1>0, <1>1, Turned, HalfTurn DEF BackpressureTypeOK
  <2>4. burst' \in 0 .. MaxBurst
    BY <1>0, <1>1, HalfTurn DEF BackpressureTypeOK
  <2> QED BY <1>0, <1>1, <1>7, <2>1, <2>2, <2>3, <2>4 DEF BackpressureTypeOK
<1>10. ASSUME NEW m \in Known, Fresh(Grown(m))
       PROVE  /\ Fresh(m) /\ m \in Frames /\ m.age \in Nat /\ m.age <= Half
              /\ Grown(m).age = m.age + 1 /\ Grown(m).id = m.id
              /\ m.id + m.age \in {last_sent_frame_id, last_sent_frame_id + IdSpace}
              /\ m.id < IdSpace /\ m.id \in Nat
              /\ nextId = (last_sent_frame_id + 1) % IdSpace
  <2>1. m \in Frames \cup {NoFrame, Reset}
    BY <1>3 DEF Known
  <2>2. Fresh(m)
    BY <1>10, <2>1, GrownFrame
  <2>3. m \in Frames
    BY <2>1, <2>2, NotFrames DEF Fresh
  <2>4. m.age \in Nat /\ m.id \in Nat /\ m.age <= Half
    BY <1>0, <2>2, <2>3 DEF Frames, RingOK
  <2>5. m.age < IdSpace
    BY <2>4, HalfTurn
  <2> QED BY <1>0, <2>1, <2>2, <2>3, <2>4, <2>5, GrownFrame DEF RingOK
<1>11. FlightOK'
  <2>1. ASSUME NEW i \in DOMAIN wire', Fresh(wire'[i]) PROVE wire'[i].age = Len(wire') - i
    <3>1. CASE i = Len(wire) + 1
      BY <1>2, <1>3, <1>7, <3>1
    <3>2. CASE i # Len(wire) + 1
      <4>1. i \in 1 .. Len(wire) /\ i \in DOMAIN wire
        BY <1>3, <1>7, <3>2
      <4>2. Fresh(wire[i]) /\ wire'[i].age = wire[i].age + 1
        BY <1>8, <1>10, <2>1, <4>1
      <4>3. wire[i].age = Len(wire) - i
        BY <1>0, <4>1, <4>2 DEF FlightOK
      <4> QED BY <1>3, <1>7, <4>1, <4>2, <4>3
    <3> QED BY <3>1, <3>2
  <2>2. Fresh(received') => received'.age = Len(wire')
    <3>1. received \in Known
      BY DEF Known
    <3> QED BY <1>0, <1>1, <1>3, <1>7, <1>10, <3>1 DEF FlightOK
  <2>3. Len(wire') <= MaxFlight
    <3>1. Len(wire) < MaxFlight /\ Len(wire') = Len(wire) + 1
      BY <1>1, <1>7
    <3> QED BY <1>3, <3>1, HalfTurn
  <2>4. ASSUME NEW i \in DOMAIN ackWire', Fresh(ackWire'[i]) PROVE ackWire'[i].age <= MaxAge
    <3>1. i \in DOMAIN ackWire /\ ackWire'[i] = Grown(ackWire[i]) /\ ackWire[i] \in Known
      BY <1>1, <2>4 DEF Known
    <3>2. Fresh(ackWire[i]) /\ ackWire'[i].age = ackWire[i].age + 1 /\ ackWire[i].age \in Nat
      BY <1>10, <2>4, <3>1
    <3>3. ackWire[i].age < MaxAge
      BY <1>1, <3>1, <3>2 DEF Fresh
    <3> QED BY <3>2, <3>3, HalfTurn
  <2> QED BY <2>1, <2>2, <2>3, <2>4 DEF FlightOK
<1>12. LagOK'
  <2> SUFFICES ASSUME Fresh(acknowledged_frame_id')
               PROVE  \/ /\ silence = 0
                         /\ \/ acknowledged_frame_id'.age <= MaxAge + burst'
                            \/ acknowledged_frame_id'.age <= MaxFlight + burst'
                      \/ \E w \in Windows : acknowledged_frame_id'.age <= w + burst'
    BY <1>1 DEF LagOK
  <2>1. acknowledged_frame_id \in Known
    BY DEF Known
  <2>2. Fresh(acknowledged_frame_id) /\ acknowledged_frame_id.age \in Nat
        /\ acknowledged_frame_id'.age = acknowledged_frame_id.age + 1
    BY <1>1, <1>10, <2>1
  <2>3. burst \in Nat /\ burst' = burst + 1
    BY <1>0, <1>1 DEF BackpressureTypeOK
  <2>4. ASSUME NEW w \in Windows, acknowledged_frame_id.age <= w + burst
        PROVE  acknowledged_frame_id'.age <= w + burst'
    BY <2>2, <2>3, <2>4, HalfWindow
  <2>5. CASE silence = 0 /\ \/ acknowledged_frame_id.age <= MaxAge + burst
                            \/ acknowledged_frame_id.age <= MaxFlight + burst
    BY <2>2, <2>3, <2>5, HalfTurn
  <2> QED BY <1>0, <1>1, <2>2, <2>4, <2>5 DEF LagOK
<1>13. \A m \in Known' : m = sent \/ \E k \in Known : m = Grown(k)
  <2> SUFFICES ASSUME NEW m \in Known' PROVE m = sent \/ \E k \in Known : m = Grown(k)
    OBVIOUS
  <2>1. CASE m = received' \/ m = acknowledged_frame_id'
    BY <1>1, <2>1 DEF Known
  <2>2. CASE \E i \in DOMAIN wire' : m = wire'[i]
    BY <1>3, <1>7, <1>8, <2>2
  <2>3. CASE \E i \in DOMAIN ackWire' : m = ackWire'[i]
    BY <1>1, <2>3 DEF Known
  <2> QED BY <2>1, <2>2, <2>3 DEF Known
<1>14. RingOK'
  <2> SUFFICES ASSUME NEW m \in Known', Fresh(m)
               PROVE  /\ m.id + m.age \in {nextId, nextId + IdSpace}
                      /\ m.id < IdSpace /\ m.age <= Half
    BY <1>1 DEF RingOK
  <2>1. CASE m = sent
    <3>1. nextId \in 0 .. (IdSpace - 1)
      BY <1>0 DEF BackpressureTypeOK
    <3> QED BY <1>2, <2>1, <3>1, HalfTurn
  <2>2. CASE m # sent
    <3>1. PICK k \in Known : m = Grown(k)
      BY <1>13, <2>2
    <3>2. /\ Fresh(k) /\ k.age \in Nat /\ k.age <= Half /\ k.id \in Nat
          /\ m.age = k.age + 1 /\ m.id = k.id /\ k.id < IdSpace
          /\ k.id + k.age \in {last_sent_frame_id, last_sent_frame_id + IdSpace}
          /\ nextId = (last_sent_frame_id + 1) % IdSpace
      BY <1>10, <3>1
    <3>3. m.age <= Half
      <4>1. CASE m = acknowledged_frame_id'
        <5>1. burst' \in 0 .. MaxBurst
          BY <1>9 DEF BackpressureTypeOK
        <5>2. \/ m.age <= MaxAge + burst' \/ m.age <= MaxFlight + burst'
              \/ \E w \in Windows : m.age <= w + burst'
          BY <1>1, <1>12, <4>1 DEF LagOK
        <5>3. m.age \in Nat
          BY <3>2
        <5>4. ASSUME NEW w \in Windows, m.age <= w + burst' PROVE m.age <= Half
          BY <5>1, <5>3, <5>4, HalfWindow, HalfTurn
        <5> QED BY <5>1, <5>2, <5>3, <5>4, HalfTurn
      <4>2. CASE m = received'
        <5>1. m.age = Len(wire') /\ Len(wire') = Len(wire) + 1 /\ Len(wire) < MaxFlight
          BY <1>1, <1>7, <1>11, <4>2 DEF FlightOK
        <5> QED BY <1>3, <5>1, HalfTurn
      <4>3. CASE \E i \in DOMAIN wire' : m = wire'[i]
        <5>1. PICK i \in 1 .. (Len(wire) + 1) : m = wire'[i]
          BY <1>7, <4>3
        <5>2. m.age = Len(wire') - i
          BY <1>7, <1>11, <5>1 DEF FlightOK
        <5>3. Len(wire') = Len(wire) + 1 /\ Len(wire) < MaxFlight
          BY <1>1, <1>7
        <5> QED BY <1>3, <5>1, <5>2, <5>3, HalfTurn
      <4>4. CASE \E i \in DOMAIN ackWire' : m = ackWire'[i]
        <5>1. m.age <= MaxAge \/ m.age <= MaxFlight
          BY <1>11, <4>4 DEF FlightOK
        <5>2. m.age \in Nat
          BY <3>2
        <5> QED BY <5>1, <5>2, HalfTurn
      <4> QED BY <4>1, <4>2, <4>3, <4>4 DEF Known
    <3>4. last_sent_frame_id \in 0 .. (IdSpace - 1)
      BY <1>0 DEF BackpressureTypeOK
    <3>5. nextId = IF last_sent_frame_id + 1 = IdSpace THEN 0 ELSE last_sent_frame_id + 1
      BY <3>2, <3>4, Turned
    <3> QED BY <3>2, <3>3, <3>4, <3>5, HalfTurn
  <2> QED BY <2>1, <2>2
<1>15. MonitorOK'
  BY <1>0, <1>1 DEF MonitorOK
<1> QED BY <1>9, <1>11, <1>12, <1>14, <1>15 DEF BackpressureInv


(* Steps that leave the ids alone *)

\* No end remembers a frame it did not know, and the ids stand.
LEMMA RingStands ==
  ASSUME RingOK, Known' \subseteq Known \cup {NoFrame},
         UNCHANGED <<last_sent_frame_id, has_sent_any_frame, nextId>>,
         ~(emitter = "off" /\ monitor) => ~(emitter' = "off" /\ monitor')
  PROVE  RingOK'
<1> SUFFICES ASSUME NEW m \in Known', Fresh(m)
             PROVE  /\ m.id + m.age \in {last_sent_frame_id, last_sent_frame_id + IdSpace}
                    /\ m.id < IdSpace /\ m.age <= Half
                    /\ has_sent_any_frame /\ nextId = (last_sent_frame_id + 1) % IdSpace
                    /\ ~(emitter = "off" /\ monitor)
  BY DEF RingOK
<1>1. m \in Known
  BY NotFrames DEF Fresh
<1> QED BY <1>1 DEF RingOK

LEMMA SendTimesOutKeeps == ASSUME BackpressureInv, SendTimesOut PROVE BackpressureInv'
<1>0. BackpressureTypeOK /\ RingOK /\ FlightOK /\ LagOK /\ MonitorOK
  BY DEF BackpressureInv
<1>1. /\ wire' = <<>> /\ ackWire' = <<>> /\ received' = NoFrame
      /\ UNCHANGED <<last_sent_frame_id, has_sent_any_frame, acknowledged_frame_id,
                     backpressure_enabled, silence, nextId, emitter, monitor, burst>>
  BY DEF SendTimesOut, serverVars, gateVars
<1>2. BackpressureTypeOK'
  <2>1. <<>> \in Seq(Frames \cup {Reset}) /\ <<>> \in Seq(Frames)
    OBVIOUS
  <2> QED BY <1>0, <1>1, <2>1 DEF BackpressureTypeOK
<1>3. RingOK'
  <2>1. Known' \subseteq Known \cup {NoFrame}
    BY <1>1 DEF Known
  <2> QED BY <1>0, <1>1, <2>1, RingStands
<1>4. FlightOK'
  BY <1>1, NotFrames, HalfTurn DEF FlightOK, Fresh
<1>5. LagOK'
  BY <1>0, <1>1 DEF LagOK
<1>6. MonitorOK'
  BY <1>0, <1>1 DEF MonitorOK
<1> QED BY <1>2, <1>3, <1>4, <1>5, <1>6 DEF BackpressureInv

LEMMA ReceiveKeeps == ASSUME BackpressureInv, Receive PROVE BackpressureInv'
<1>0. BackpressureTypeOK /\ RingOK /\ FlightOK /\ LagOK /\ MonitorOK
  BY DEF BackpressureInv
<1>1. /\ wire # <<>> /\ wire' = Tail(wire) /\ ackWire' = ackWire
      /\ received' = IF Head(wire) = Reset THEN NoFrame ELSE Head(wire)
      /\ UNCHANGED <<last_sent_frame_id, has_sent_any_frame, acknowledged_frame_id,
                     backpressure_enabled, silence, nextId, emitter, monitor, burst>>
  BY DEF Receive, serverVars, gateVars
<1>2. wire \in Seq(Frames \cup {Reset}) /\ Len(wire) \in Nat /\ Len(wire) > 0
  BY <1>0, <1>1 DEF BackpressureTypeOK
<1>3. /\ wire' \in Seq(Frames \cup {Reset}) /\ Len(wire') = Len(wire) - 1
      /\ \A i \in DOMAIN wire' : i \in 1 .. (Len(wire) - 1) /\ i + 1 \in DOMAIN wire
                                 /\ wire'[i] = wire[i + 1]
  BY <1>1, <1>2
<1>4. Head(wire) = wire[1] /\ 1 \in DOMAIN wire /\ wire[1] \in Frames \cup {Reset}
  BY <1>1, <1>2
<1>5. received' \in Frames \cup {NoFrame} /\ (received' = NoFrame \/ received' = wire[1])
  BY <1>1, <1>4
<1>6. BackpressureTypeOK'
  BY <1>0, <1>1, <1>3, <1>5 DEF BackpressureTypeOK
<1>7. RingOK'
  <2>1. Known' \subseteq Known \cup {NoFrame}
    <3> SUFFICES ASSUME NEW m \in Known' PROVE m \in Known \cup {NoFrame}
      OBVIOUS
    <3>1. CASE m = received'
      BY <1>4, <1>5, <3>1 DEF Known
    <3>2. CASE \E i \in DOMAIN wire' : m = wire'[i]
      BY <1>3, <3>2 DEF Known
    <3>3. CASE m = acknowledged_frame_id' \/ \E i \in DOMAIN ackWire' : m = ackWire'[i]
      BY <1>1, <3>3 DEF Known
    <3> QED BY <3>1, <3>2, <3>3 DEF Known
  <2> QED BY <1>0, <1>1, <2>1, RingStands
<1>8. FlightOK'
  <2>1. ASSUME NEW i \in DOMAIN wire', Fresh(wire'[i]) PROVE wire'[i].age = Len(wire') - i
    <3>1. i \in 1 .. (Len(wire) - 1) /\ i + 1 \in DOMAIN wire /\ wire'[i] = wire[i + 1]
      BY <1>3
    <3>2. wire[i + 1].age = Len(wire) - (i + 1)
      BY <1>0, <2>1, <3>1 DEF FlightOK
    <3> QED BY <1>2, <1>3, <3>1, <3>2
  <2>2. Fresh(received') => received'.age = Len(wire')
    <3> SUFFICES ASSUME Fresh(received') PROVE received'.age = Len(wire')
      OBVIOUS
    <3>1. received' = wire[1]
      BY <1>5, NotFrames DEF Fresh
    <3>2. received'.age = Len(wire) - 1
      BY <1>0, <1>4, <3>1 DEF FlightOK
    <3> QED BY <1>3, <3>2
  <2>3. Len(wire') <= MaxFlight
    <3>1. Len(wire) <= MaxFlight \/ Len(wire) = 1
      BY <1>0 DEF FlightOK
    <3> QED BY <1>2, <1>3, <3>1, HalfTurn
  <2> QED BY <1>0, <1>1, <2>1, <2>2, <2>3 DEF FlightOK
<1>9. LagOK'
  BY <1>0, <1>1 DEF LagOK
<1>10. MonitorOK'
  BY <1>0, <1>1 DEF MonitorOK
<1> QED BY <1>6, <1>7, <1>8, <1>9, <1>10 DEF BackpressureInv

LEMMA SendAckKeeps == ASSUME BackpressureInv, SendAck PROVE BackpressureInv'
<1>0. BackpressureTypeOK /\ RingOK /\ FlightOK /\ LagOK /\ MonitorOK
  BY DEF BackpressureInv
<1>1. /\ received # NoFrame /\ ackWire' = <<received>>
      /\ UNCHANGED <<last_sent_frame_id, has_sent_any_frame, acknowledged_frame_id,
                     backpressure_enabled, silence, nextId, emitter, monitor, burst,
                     wire, received>>
  BY DEF SendAck, serverVars, gateVars
<1>2. received \in Frames
  BY <1>0, <1>1 DEF BackpressureTypeOK
<1>3. ackWire' \in Seq(Frames) /\ \A i \in DOMAIN ackWire' : ackWire'[i] = received
  BY <1>1, <1>2
<1>4. BackpressureTypeOK'
  BY <1>0, <1>1, <1>3 DEF BackpressureTypeOK
<1>5. RingOK'
  <2>1. Known' \subseteq Known \cup {NoFrame}
    BY <1>1, <1>3 DEF Known
  <2> QED BY <1>0, <1>1, <2>1, RingStands
<1>6. FlightOK'
  <2>1. Fresh(received) => received.age <= MaxFlight
    BY <1>0 DEF FlightOK
  <2> QED BY <1>0, <1>1, <1>3, <2>1 DEF FlightOK
<1>7. LagOK'
  BY <1>0, <1>1 DEF LagOK
<1>8. MonitorOK'
  BY <1>0, <1>1 DEF MonitorOK
<1> QED BY <1>4, <1>5, <1>6, <1>7, <1>8 DEF BackpressureInv

LEMMA FrameAckedKeeps == ASSUME BackpressureInv, FrameAcked PROVE BackpressureInv'
<1>0. BackpressureTypeOK /\ RingOK /\ FlightOK /\ LagOK /\ MonitorOK
  BY DEF BackpressureInv
<1>1. /\ ackWire # <<>> /\ acknowledged_frame_id' = Head(ackWire) /\ silence' = 0
      /\ ackWire' = Tail(ackWire)
      /\ UNCHANGED <<last_sent_frame_id, has_sent_any_frame, backpressure_enabled,
                     nextId, emitter, monitor, burst, wire, received>>
  BY DEF FrameAcked
<1>2. ackWire \in Seq(Frames) /\ burst \in Nat
  BY <1>0 DEF BackpressureTypeOK
<1>3. Head(ackWire) = ackWire[1] /\ 1 \in DOMAIN ackWire /\ ackWire[1] \in Frames
  BY <1>1, <1>2
<1>4. ackWire' \in Seq(Frames)
      /\ \A i \in DOMAIN ackWire' : i + 1 \in DOMAIN ackWire /\ ackWire'[i] = ackWire[i + 1]
  BY <1>1, <1>2
<1>5. BackpressureTypeOK'
  BY <1>0, <1>1, <1>3, <1>4 DEF BackpressureTypeOK
<1>6. RingOK'
  <2>1. Known' \subseteq Known \cup {NoFrame}
    <3> SUFFICES ASSUME NEW m \in Known' PROVE m \in Known \cup {NoFrame}
      OBVIOUS
    <3>1. CASE m = acknowledged_frame_id'
      BY <1>1, <1>3, <3>1 DEF Known
    <3>2. CASE \E i \in DOMAIN ackWire' : m = ackWire'[i]
      BY <1>4, <3>2 DEF Known
    <3>3. CASE m = received' \/ \E i \in DOMAIN wire' : m = wire'[i]
      BY <1>1, <3>3 DEF Known
    <3> QED BY <3>1, <3>2, <3>3 DEF Known
  <2> QED BY <1>0, <1>1, <2>1, RingStands
<1>7. FlightOK'
  BY <1>0, <1>1, <1>4 DEF FlightOK
<1>8. LagOK'
  <2> SUFFICES ASSUME Fresh(ackWire[1])
               PROVE  ackWire[1].age <= MaxAge + burst \/ ackWire[1].age <= MaxFlight + burst
    BY <1>1, <1>3 DEF LagOK
  <2>1. ackWire[1].age <= MaxAge \/ ackWire[1].age <= MaxFlight
    BY <1>0, <1>3 DEF FlightOK
  <2>2. ackWire[1].age \in Nat
    BY <1>3 DEF Frames
  <2> QED BY <1>2, <2>1, <2>2, HalfTurn
<1>9. MonitorOK'
  BY <1>0, <1>1 DEF MonitorOK
<1> QED BY <1>5, <1>6, <1>7, <1>8, <1>9 DEF BackpressureInv

\* Of what the invariant speaks of, only that is changed, if anything.
LEMMA StutterKeeps ==
  ASSUME BackpressureInv,
         UNCHANGED <<last_sent_frame_id, has_sent_any_frame, acknowledged_frame_id,
                     backpressure_enabled, silence, nextId, emitter, monitor, burst,
                     wire, ackWire, received>>
  PROVE  BackpressureInv'
BY DEF BackpressureInv, BackpressureTypeOK, RingOK, Known, FlightOK, LagOK, MonitorOK

LEMMA CaptureOffKeeps == ASSUME BackpressureInv, CaptureOff PROVE BackpressureInv'
<1>0. BackpressureTypeOK /\ RingOK /\ FlightOK /\ LagOK /\ MonitorOK
  BY DEF BackpressureInv
<1>1. /\ emitter = "leaving" /\ emitter' = "off"
      /\ UNCHANGED <<last_sent_frame_id, has_sent_any_frame, acknowledged_frame_id,
                     backpressure_enabled, silence, nextId, monitor, burst,
                     wire, ackWire, received>>
  BY DEF CaptureOff, gateVars, pathVars
<1>2. ~monitor
  BY <1>0, <1>1 DEF MonitorOK
<1>3. BackpressureTypeOK'
  BY <1>0, <1>1 DEF BackpressureTypeOK
<1>4. RingOK'
  <2>1. Known' = Known
    BY <1>1 DEF Known
  <2> QED BY <1>0, <1>1, <1>2, <2>1, RingStands
<1>5. FlightOK'
  BY <1>0, <1>1 DEF FlightOK
<1>6. LagOK'
  BY <1>0, <1>1 DEF LagOK
<1>7. MonitorOK'
  BY <1>1 DEF MonitorOK
<1> QED BY <1>3, <1>4, <1>5, <1>6, <1>7 DEF BackpressureInv
-----------------------------------------------------------------------------
(* The check *)

\* The circular distance to a frame no reset followed is its age.
LEMMA DesyncIsAge ==
  ASSUME BackpressureInv, Fresh(acknowledged_frame_id)
  PROVE  Desync = acknowledged_frame_id.age /\ ~Suspicious
<1>0. BackpressureTypeOK /\ RingOK
  BY DEF BackpressureInv
<1>1. acknowledged_frame_id \in Frames
  BY <1>0, NotFrames DEF BackpressureTypeOK, Fresh
<1>2. acknowledged_frame_id \in Known
  BY DEF Known
<1>3. PICK id, age : id = acknowledged_frame_id.id /\ age = acknowledged_frame_id.age
  OBVIOUS
<1>4. id \in Nat /\ age \in Nat /\ id < IdSpace /\ age <= Half
      /\ id + age \in {last_sent_frame_id, last_sent_frame_id + IdSpace}
  BY <1>0, <1>1, <1>2, <1>3 DEF Frames, RingOK
<1>5. age \in 0 .. (IdSpace - 1) /\ last_sent_frame_id \in Int
  BY <1>0, <1>4, HalfTurn DEF BackpressureTypeOK
<1>6. last_sent_frame_id - id = age \/ last_sent_frame_id - id = age - IdSpace
  BY <1>4, <1>5, HalfTurn
<1>7. (last_sent_frame_id - id) % IdSpace = age
  BY <1>5, <1>6, Turned
<1>8. Desync = age
  BY <1>3, <1>7 DEF Desync
<1>9. ~(age > Half)
  BY <1>4, HalfTurn
<1> QED BY <1>3, <1>8, <1>9 DEF Suspicious, Half

LEMMA CheckKeeps == ASSUME BackpressureInv, Check PROVE BackpressureInv'
<1>0. BackpressureTypeOK /\ RingOK /\ FlightOK /\ LagOK /\ MonitorOK
  BY DEF BackpressureInv
<1>1. Waited \in Nat
  BY <1>0 DEF Waited, BackpressureTypeOK
<1>2. PICK enabled, quiet :
        /\ CheckGate(enabled, quiet)
        /\ enabled \in BOOLEAN /\ quiet \in Nat
        /\ Fresh(acknowledged_frame_id) /\ enabled
             => \E w \in Windows : acknowledged_frame_id.age <= w
  <2> DEFINE Kept(enabled) == enabled \in BOOLEAN
                              /\ (Fresh(acknowledged_frame_id) /\ enabled
                                   => \E w \in Windows : acknowledged_frame_id.age <= w)
  <2>1. CASE CheckOpens
    <3>1. ~Fresh(acknowledged_frame_id)
      <4> SUFFICES ASSUME Fresh(acknowledged_frame_id) PROVE FALSE
        OBVIOUS
      <4>1. ~Suspicious /\ acknowledged_frame_id # NoFrame
        BY DesyncIsAge, NotFrames DEF Fresh
      <4>2. emitter = "off" /\ monitor
        BY <2>1, <4>1 DEF CheckOpens, CheckGate
      <4>3. acknowledged_frame_id \in Known
        BY DEF Known
      <4> QED BY <1>0, <4>2, <4>3 DEF RingOK
    <3>2. Kept(TRUE)
      BY <3>1
    <3>3. CheckGate(TRUE, Waited) \/ CheckGate(TRUE, 0)
      BY <2>1 DEF CheckOpens
    <3> QED BY <1>1, <3>2, <3>3
  <2>2. CASE CheckWaits
    <3>1. ~Fresh(acknowledged_frame_id)
      BY <1>0, <2>2 DEF CheckWaits, RingOK, Known
    <3>2. Kept(backpressure_enabled)
      BY <1>0, <3>1 DEF BackpressureTypeOK
    <3> QED BY <1>1, <2>2, <3>2 DEF CheckWaits
  <2>3. ASSUME NEW w \in Windows, CheckCompares(w)
        PROVE  \E enabled, quiet : CheckGate(enabled, quiet) /\ Kept(enabled) /\ quiet \in Nat
    <3> DEFINE tight == Waited <= StallChecks /\ Desync <= w
    <3>1. CheckGate(tight, Waited)
      BY <2>3 DEF CheckCompares
    <3>2. tight \in BOOLEAN
      OBVIOUS
    <3>3. Fresh(acknowledged_frame_id) /\ tight => acknowledged_frame_id.age <= w
      BY DesyncIsAge
    <3> HIDE DEF tight
    <3>4. Kept(tight)
      BY <3>2, <3>3
    <3> QED BY <1>1, <3>1, <3>4
  <2> QED BY <2>1, <2>2, <2>3 DEF Check
<1>3. /\ backpressure_enabled' = enabled /\ silence' = quiet /\ burst' = 0
      /\ UNCHANGED <<last_sent_frame_id, has_sent_any_frame, acknowledged_frame_id,
                     nextId, emitter, monitor, wire, ackWire, received>>
  BY <1>2 DEF CheckGate, pathVars
<1>4. BackpressureTypeOK'
  <2>1. 0 \in 0 .. MaxBurst
    BY HalfTurn
  <2> QED BY <1>0, <1>2, <1>3, <2>1 DEF BackpressureTypeOK
<1>5. RingOK'
  <2>1. Known' = Known
    BY <1>3 DEF Known
  <2> QED BY <1>0, <1>3, <2>1, RingStands
<1>6. FlightOK'
  BY <1>0, <1>3 DEF FlightOK
<1>7. LagOK'
  <2> SUFFICES ASSUME Fresh(acknowledged_frame_id), enabled
               PROVE  \E w \in Windows : acknowledged_frame_id.age <= w + 0
    BY <1>2, <1>3 DEF LagOK
  <2>1. PICK w \in Windows : acknowledged_frame_id.age <= w
    BY <1>2
  <2>2. w + 0 = w
    BY HalfWindow
  <2> QED BY <2>1, <2>2
<1>8. MonitorOK'
  BY <1>0, <1>3 DEF MonitorOK
<1> QED BY <1>4, <1>5, <1>6, <1>7, <1>8 DEF BackpressureInv
-----------------------------------------------------------------------------
(* The resets *)

\* Once nothing that either end remembers counts any more, any ids will do.
LEMMA NothingFresh ==
  ASSUME BackpressureTypeOK', \A m \in Known' : ~Fresh(m),
         Len(wire') <= MaxFlight \/ Len(wire') = 1,
         emitter' = "leaving" => ~monitor'
  PROVE  BackpressureInv'
<1>1. /\ ~Fresh(received') /\ ~Fresh(acknowledged_frame_id')
      /\ \A i \in DOMAIN wire' : ~Fresh(wire'[i])
      /\ \A i \in DOMAIN ackWire' : ~Fresh(ackWire'[i])
  BY DEF Known
<1>2. RingOK'
  BY DEF RingOK
<1>3. FlightOK'
  BY <1>1 DEF FlightOK
<1>4. LagOK'
  BY <1>1 DEF LagOK
<1>5. MonitorOK'
  BY DEF MonitorOK
<1> QED BY <1>2, <1>3, <1>4, <1>5 DEF BackpressureInv

\* What a reset leaves.
LEMMA AllOutdated ==
  ASSUME BackpressureTypeOK, NEW path \in Seq(Frames \cup {Reset}),
         NEW ack \in Frames \cup {NoFrame}, All(Outdated, path, ack)
  PROVE  /\ wire' \in Seq(Frames \cup {Reset}) /\ Len(wire') = Len(path)
         /\ ackWire' \in Seq(Frames)
         /\ received' \in Frames \cup {NoFrame}
         /\ acknowledged_frame_id' \in Frames \cup {NoFrame}
         /\ \A m \in Known' : ~Fresh(m)
<1>1. /\ wire' = [i \in DOMAIN path |-> Outdated(path[i])]
      /\ ackWire' = [i \in DOMAIN ackWire |-> Outdated(ackWire[i])]
      /\ received' = Outdated(received) /\ acknowledged_frame_id' = Outdated(ack)
  BY DEF All
<1>2. ackWire \in Seq(Frames) /\ received \in Frames \cup {NoFrame}
  BY DEF BackpressureTypeOK
<1>3. \A i \in DOMAIN path : Outdated(path[i]) \in Frames \cup {Reset} /\ ~Fresh(Outdated(path[i]))
  <2>1. \A i \in DOMAIN path : path[i] \in Frames \cup {Reset}
    OBVIOUS
  <2> QED BY <2>1, OutdatedFrame
<1>4. \A i \in DOMAIN ackWire : Outdated(ackWire[i]) \in Frames /\ ~Fresh(Outdated(ackWire[i]))
  <2>1. \A i \in DOMAIN ackWire : ackWire[i] \in Frames
    BY <1>2
  <2> QED BY <2>1, OutdatedFrame
<1>5. /\ received' \in Frames \cup {NoFrame} /\ ~Fresh(received')
      /\ acknowledged_frame_id' \in Frames \cup {NoFrame} /\ ~Fresh(acknowledged_frame_id')
  BY <1>1, <1>2, OutdatedFrame
<1>6. wire' \in Seq(Frames \cup {Reset}) /\ Len(wire') = Len(path)
  BY <1>1, <1>3
<1>7. ackWire' \in Seq(Frames)
  BY <1>1, <1>2, <1>4
<1>8. \A i \in DOMAIN wire' : ~Fresh(wire'[i])
  BY <1>1, <1>3
<1>9. \A i \in DOMAIN ackWire' : ~Fresh(ackWire'[i])
  BY <1>1, <1>4
<1>10. \A m \in Known' : ~Fresh(m)
  BY <1>5, <1>8, <1>9 DEF Known
<1> QED BY <1>5, <1>6, <1>7, <1>10

LEMMA ResetsKeep ==
  ASSUME BackpressureInv, CaptureLeaves \/ CaptureOn \/ VideoResumed PROVE BackpressureInv'
<1>0. BackpressureTypeOK /\ FlightOK
  BY DEF BackpressureInv
<1>1. /\ wire \in Seq(Frames \cup {Reset}) /\ Len(wire) \in Nat
      /\ acknowledged_frame_id \in Frames \cup {NoFrame}
      /\ Append(wire, Reset) \in Seq(Frames \cup {Reset})
      /\ Len(Append(wire, Reset)) = Len(wire) + 1
  BY <1>0 DEF BackpressureTypeOK
<1>2. 0 \in 0 .. (IdSpace - 1) /\ 0 \in 0 .. MaxBurst
  BY HalfTurn
<1>3. PICK path \in Seq(Frames \cup {Reset}), ack \in Frames \cup {NoFrame} :
        All(Outdated, path, ack) /\ (Len(path) <= MaxFlight \/ Len(path) = 1)
  <2>1. CASE CaptureOn
    <3>1. All(Outdated, wire, acknowledged_frame_id)
      BY <2>1 DEF CaptureOn
    <3>2. Len(wire) <= MaxFlight \/ Len(wire) = 1
      BY <1>0 DEF FlightOK
    <3> QED BY <1>1, <3>1, <3>2
  <2>2. CASE CaptureLeaves \/ VideoResumed
    <3>1. PICK ack \in Frames \cup {NoFrame} : ResetSent(ack)
      BY <1>1, <2>2 DEF CaptureLeaves, VideoResumed
    <3>2. Len(wire) < MaxFlight
      BY <2>2 DEF CaptureLeaves, VideoResumed
    <3>3. Len(Append(wire, Reset)) <= MaxFlight
      BY <1>1, <3>2, HalfTurn
    <3>4. All(Outdated, Append(wire, Reset), ack)
      BY <3>1 DEF ResetSent
    <3> QED BY <1>1, <3>3, <3>4
  <2> QED BY <2>1, <2>2
<1>4. /\ wire' \in Seq(Frames \cup {Reset}) /\ Len(wire') = Len(path)
      /\ ackWire' \in Seq(Frames) /\ received' \in Frames \cup {NoFrame}
      /\ acknowledged_frame_id' \in Frames \cup {NoFrame} /\ \A m \in Known' : ~Fresh(m)
  BY <1>0, <1>3, AllOutdated
<1>5. /\ last_sent_frame_id' \in {0, last_sent_frame_id} /\ nextId' \in {0, nextId}
      /\ has_sent_any_frame' \in BOOLEAN /\ backpressure_enabled' = TRUE
      /\ monitor' \in BOOLEAN /\ emitter' \in {"on", "leaving", "off"}
      /\ silence' \in Nat /\ burst' = 0 /\ (emitter' = "leaving" => ~monitor')
  <2>1. CASE CaptureLeaves
    BY <1>0, <2>1 DEF CaptureLeaves, BackpressureTypeOK
  <2>2. CASE CaptureOn
    BY <1>0, <2>2 DEF CaptureOn, BackpressureTypeOK
  <2>3. CASE VideoResumed
    BY <1>0, <2>3 DEF VideoResumed, BackpressureTypeOK
  <2> QED BY <2>1, <2>2, <2>3
<1>6. BackpressureTypeOK'
  <2>1. last_sent_frame_id' \in 0 .. (IdSpace - 1) /\ nextId' \in 0 .. (IdSpace - 1)
    BY <1>0, <1>2, <1>5 DEF BackpressureTypeOK
  <2> QED BY <1>2, <1>4, <1>5, <2>1 DEF BackpressureTypeOK
<1> QED BY <1>3, <1>4, <1>5, <1>6, NothingFresh

LEMMA TakenOverKeeps == ASSUME BackpressureInv, TakenOver PROVE BackpressureInv'
<1>0. BackpressureTypeOK /\ MonitorOK
  BY DEF BackpressureInv
<1>1. /\ wire' = <<Reset>> /\ ackWire' = <<>> /\ received' = NoFrame
      /\ acknowledged_frame_id' = NoFrame /\ silence' = 0
      /\ UNCHANGED <<last_sent_frame_id, has_sent_any_frame, backpressure_enabled,
                     nextId, emitter, monitor, burst>>
  BY DEF TakenOver
<1>2. /\ <<Reset>> \in Seq(Frames \cup {Reset}) /\ Len(<<Reset>>) = 1
      /\ <<>> \in Seq(Frames) /\ \A i \in DOMAIN <<Reset>> : <<Reset>>[i] = Reset
  OBVIOUS
<1>3. BackpressureTypeOK'
  BY <1>0, <1>1, <1>2 DEF BackpressureTypeOK
<1>4. \A m \in Known' : m \in {NoFrame, Reset}
  BY <1>1, <1>2 DEF Known
<1>5. \A m \in Known' : ~Fresh(m)
  BY <1>4, NotFrames DEF Fresh
<1>6. emitter' = "leaving" => ~monitor'
  BY <1>0, <1>1 DEF MonitorOK
<1> QED BY <1>1, <1>2, <1>3, <1>5, <1>6, NothingFresh

LEMMA BackpressureStep ==
  BackpressureInv /\ [BackpressureNext]_backpressureVars => BackpressureInv'
<1> SUFFICES ASSUME BackpressureInv, [BackpressureNext]_backpressureVars PROVE BackpressureInv'
  OBVIOUS
<1>1. CASE Path
  <2>1. CASE Freeze \/ Thaw
    BY <2>1, StutterKeeps DEF Freeze, Thaw, serverVars, gateVars
  <2> QED BY <1>1, <2>1, SendFrameKeeps, SendTimesOutKeeps, ReceiveKeeps, SendAckKeeps,
             FrameAckedKeeps DEF Path
<1>2. CASE Check
  BY <1>2, CheckKeeps
<1>3. CASE Restarts
  BY <1>3, ResetsKeep, CaptureOffKeeps, TakenOverKeeps DEF Restarts
<1>4. CASE UNCHANGED backpressureVars
  BY <1>4, StutterKeeps DEF backpressureVars, serverVars, gateVars, pathVars
<1> QED BY <1>1, <1>2, <1>3, <1>4 DEF BackpressureNext

\* Behind an open gate, the frames sent and not acknowledged are at most a
\* tolerated lag and what is sent between two checks, however often the 65536
\* ids have wrapped: the circular distance of _run_frame_backpressure_logic is
\* the number of frames sent since, and its "suspicious" half never hides one.
THEOREM OpenGateBounds == BackpressureSpec => []LagBounded
<1>1. BackpressureInv => LagBounded
  <2> SUFFICES ASSUME BackpressureInv, backpressure_enabled, silence > 0,
                      acknowledged_frame_id # NoFrame, ~acknowledged_frame_id.old
               PROVE  \E w \in Windows : acknowledged_frame_id.age <= w + MaxBurst
    BY DEF LagBounded
  <2>1. BackpressureTypeOK /\ LagOK
    BY DEF BackpressureInv
  <2>2. acknowledged_frame_id \in Frames
    BY <2>1 DEF BackpressureTypeOK
  <2>3. Fresh(acknowledged_frame_id)
    BY <2>2, NotFrames DEF Fresh
  <2>4. silence # 0 /\ burst \in 0 .. MaxBurst /\ silence \in Nat
    BY <2>1 DEF BackpressureTypeOK
  <2>5. PICK w \in Windows : acknowledged_frame_id.age <= w + burst
    BY <2>1, <2>3, <2>4 DEF LagOK
  <2>6. acknowledged_frame_id.age \in Nat
    BY <2>2 DEF Frames
  <2>7. acknowledged_frame_id.age <= w + MaxBurst
    BY <2>4, <2>5, <2>6, HalfTurn, HalfWindow
  <2> QED BY <2>7
<1> QED BY <1>1, BackpressureInit_Inv, BackpressureStep, PTL DEF BackpressureSpec
=============================================================================
