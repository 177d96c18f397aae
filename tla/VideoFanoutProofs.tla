------------------------- MODULE VideoFanoutProofs -------------------------
(***************************************************************************)
(* Proofs about VideoFanout, for any sockets, rows, chunk sizes, budget    *)
(* and number of events: the fan-out of the primary display keeps, for a   *)
(* socket whose tab is never hidden, the contract of VideoRelay, hence     *)
(* sends it no delta it cannot decode; and a torn socket is fed no more.   *)
(*                                                                         *)
(* The primary display is meant throughout: there self.clients says who is *)
(* a member, and a discarded socket is none.  A secondary display goes to  *)
(* its owner whatever self.clients says.                                   *)
(***************************************************************************)
EXTENDS VideoFanout, TLAPS

Captures == {"off", "starting", "running", "stopping"}

FanoutTypeOK ==
  /\ enc \in [Rows -> Nat]
  /\ idrDue \in SUBSET Rows
  /\ capture \in Captures
  /\ phase \in [Clients -> Phases]
  /\ owner \in Clients \cup {NoClient}
  /\ gated \in BOOLEAN
  /\ has_sent_any_frame \in BOOLEAN
  /\ relay \in [Clients -> Relays]
  /\ attached \in [Clients -> BOOLEAN]
  /\ sending \in [Clients -> BOOLEAN]
  /\ lingering \in [Clients -> BOOLEAN]
  /\ shown \in [Clients -> [Rows -> Nat]]
  /\ torn \in SUBSET Clients

\* A socket without a relay has nothing queued and no send, and one that never
\* connected has no relay.
Empty(c) == relay[c] = FreshRelay /\ ~sending[c]
Unserved ==
  \A c \in Clients : /\ ~attached[c] => Empty(c)
                     /\ phase[c] = "new" => ~attached[c]

\* The stayer's tab is never hidden.
Visible == phase[Stayer] # "paused"

\* A torn socket has left self.clients, and nobody comes back to it.
TornLeft == \A c \in torn : phase[c] \in {"dropped", "gone"}

FanoutInv == FanoutTypeOK /\ Unserved /\ Visible /\ TornLeft

-----------------------------------------------------------------------------
(* What the methods of a relay return is a relay.                           *)

LEMMA FreshIsRelay == FreshRelay \in Relays
  BY DEF FreshRelay, Relays

LEMMA ClearedIsRelay == ASSUME NEW r \in Relays PROVE Cleared(r) \in Relays
<1>1. r.floor \in BOOLEAN  BY DEF Relays
<1>2. <<>> \in Seq(Chunks)  OBVIOUS
<1> QED BY <1>1, <1>2 DEF Cleared, Relays

LEMMA FlushedIsRelay == ASSUME NEW r \in Relays PROVE flush_for_gate(r) \in Relays
  BY ClearedIsRelay DEF flush_for_gate

LEMMA OfferedIsRelay == ASSUME NEW r \in Relays, NEW ch \in Chunks
                        PROVE  offer(r, ch) \in Relays
<1> DEFINE r1 == AfterOverflow(r, ch)
<1>1. r1 \in Relays  BY ClearedIsRelay DEF AfterOverflow
<1>2. r1.backlog \in Seq(Chunks) /\ r1.bytes \in Int /\ r1.live \in SUBSET Rows
  BY <1>1 DEF Relays
<1>3. Size[ch.kind] \in Int /\ ch.row \in Rows
  BY SizeAssumption DEF Chunks
<1>4. Append(r1.backlog, ch) \in Seq(Chunks)  BY <1>2
<1>5. r.floor \in BOOLEAN /\ Drops(r, ch) \in BOOLEAN
  BY DEF Relays, Drops, Overflows, Gated
<1> HIDE DEF r1
<1> QED BY <1>2, <1>3, <1>4, <1>5 DEF offer, Relays, r1

LEMMA PoppedIsRelay == ASSUME NEW r \in Relays, r.backlog # <<>>
                       PROVE  /\ Popped(r) \in Relays
                              /\ Head(r.backlog) \in Chunks
                              /\ Len(Popped(r).backlog) <= Len(r.backlog)
<1>1. r.backlog \in Seq(Chunks) /\ r.bytes \in Int /\ r.live \in SUBSET Rows
      /\ r.floor \in BOOLEAN
  BY DEF Relays
<1>2. Head(r.backlog) \in Chunks /\ Tail(r.backlog) \in Seq(Chunks)
      /\ Len(Tail(r.backlog)) <= Len(r.backlog)
  BY <1>1
<1>3. Size[Head(r.backlog).kind] \in Int
  BY <1>2, SizeAssumption DEF Chunks
<1> QED BY <1>1, <1>2, <1>3 DEF Popped, Relays

-----------------------------------------------------------------------------
(* The invariant, for the primary display.                                  *)

LEMMA MembersConnected ==
  ASSUME Primary
  PROVE  /\ Members = { c \in Clients : phase[c] = "member" }
         /\ Targets \subseteq Members /\ HeldBack \subseteq Members
         /\ Pruned \subseteq Group \ Members
BY DEF Members, Targets, HeldBack, Pruned

LEMMA RelayAfterType ==
  ASSUME FanoutTypeOK, NEW c \in Clients, NEW ch \in Chunks
  PROVE  /\ OfferedTo(c) \in Relays
         /\ RelayAfter(c, ch) \in Relays
<1>1. relay[c] \in Relays  BY DEF FanoutTypeOK
<1>2. OfferedTo(c) \in Relays  BY <1>1, FreshIsRelay DEF OfferedTo
<1> QED BY <1>1, <1>2, FreshIsRelay, FlushedIsRelay, OfferedIsRelay DEF RelayAfter

LEMMA NextChunkType ==
  ASSUME FanoutTypeOK, NEW row \in Rows, NEW kind \in {"idr", "delta"}
  PROVE  NextChunk(row, kind) \in Chunks
BY DEF FanoutTypeOK, NextChunk, Chunks, Kinds

\* A chunk leaves the sockets that are not members of the primary display
\* alone: they are offered nothing.
LEMMA FanoutKeeps ==
  ASSUME Primary, FanoutInv, NEW ch \in Chunks, NEW due \in SUBSET Rows,
         do_fanout(ch, due)
  PROVE  FanoutInv'
<1>1. FanoutTypeOK'
  <2>1. enc' \in [Rows -> Nat] /\ idrDue' \in SUBSET Rows
    <3>1. ch.row \in Rows /\ ch.idx \in Nat  BY DEF Chunks
    <3>2. enc' = [enc EXCEPT ![ch.row] = ch.idx] /\ (idrDue' = Rows \/ idrDue' = due)
      BY DEF do_fanout
    <3> QED BY <3>1, <3>2 DEF FanoutInv, FanoutTypeOK
  <2>2. relay' \in [Clients -> Relays]
    BY RelayAfterType DEF FanoutInv, do_fanout
  <2>3. /\ attached' \in [Clients -> BOOLEAN] /\ sending' \in [Clients -> BOOLEAN]
        /\ lingering' \in [Clients -> BOOLEAN]
    BY DEF FanoutInv, FanoutTypeOK, do_fanout
  <2> QED BY <2>1, <2>2, <2>3 DEF FanoutInv, FanoutTypeOK, do_fanout, display
<1>2. Unserved'
  <2> SUFFICES ASSUME NEW c \in Clients
               PROVE  /\ ~attached'[c] => relay'[c] = FreshRelay /\ ~sending'[c]
                      /\ phase'[c] = "new" => ~attached'[c]
    BY DEF Unserved, Empty
  <2>1. /\ attached'[c] <=> c \in (Group \ Pruned) \cup Targets
        /\ relay'[c] = RelayAfter(c, ch)
        /\ sending'[c] = (sending[c] /\ c \notin Pruned)
        /\ phase' = phase
    BY DEF do_fanout, display
  <2>2. ~attached[c] => relay[c] = FreshRelay /\ ~sending[c]
    BY DEF FanoutInv, Unserved, Empty
  <2>3. flush_for_gate(FreshRelay) = FreshRelay
    BY DEF flush_for_gate, FreshRelay
  <2>4. ~attached'[c] => relay'[c] = FreshRelay /\ ~sending'[c]
    <3>1. CASE attached[c]
      BY <2>1, <3>1, MembersConnected DEF RelayAfter, Group
    <3>2. CASE ~attached[c]
      BY <2>1, <2>2, <2>3, <3>2 DEF RelayAfter, OfferedTo
    <3> QED BY <3>1, <3>2
  <2>5. phase'[c] = "new" => ~attached'[c]
    BY <2>1, MembersConnected DEF FanoutInv, Unserved, Group
  <2> QED BY <2>4, <2>5
<1>3. Visible' /\ TornLeft'
  BY DEF FanoutInv, Visible, TornLeft, do_fanout, display
<1> QED BY <1>1, <1>2, <1>3 DEF FanoutInv

LEMMA FanoutInvInit == Init => FanoutInv
<1> SUFFICES ASSUME Init PROVE FanoutInv  OBVIOUS
<1> USE DEF Init
<1>1. FanoutTypeOK
  BY FreshIsRelay DEF FanoutTypeOK, Phases, Captures
<1>2. Unserved /\ Visible /\ TornLeft
  BY PausersAssumption DEF Unserved, Empty, Visible, TornLeft
<1> QED BY <1>1, <1>2 DEF FanoutInv

LEMMA FanoutInvStep == ASSUME Primary, FanoutInv, [Next]_vars PROVE FanoutInv'
<1> USE DEF FanoutInv, FanoutTypeOK
<1>1. ASSUME NEW row \in Rows, EmitAsked(row)  PROVE FanoutInv'
  <2>1. idrDue \ {row} \in SUBSET Rows /\ NextChunk(row, "idr") \in Chunks
    BY NextChunkType
  <2> QED BY <1>1, <2>1, FanoutKeeps DEF EmitAsked
<1>2. ASSUME NEW row \in Rows, NEW kind \in {"idr", "delta"}, Emit(row, kind)
      PROVE  FanoutInv'
  <2>1. /\ (IF kind = "idr" THEN idrDue \ {row} ELSE idrDue) \in SUBSET Rows
        /\ NextChunk(row, kind) \in Chunks
    BY NextChunkType
  <2> QED BY <1>2, <2>1, FanoutKeeps DEF Emit
<1>3. CASE KeyframeRequest
  BY <1>3 DEF KeyframeRequest, AskKeyframe, display, pipes, Unserved, Empty, Visible,
              TornLeft
<1>4. CASE CaptureBegins \/ CaptureStarted \/ CaptureStopping
  BY <1>4 DEF CaptureBegins, CaptureStarted, CaptureStopping, display, pipes, Captures,
              Unserved, Empty, Visible, TornLeft
<1>5. CASE CaptureStops
  BY <1>5, FreshIsRelay
     DEF CaptureStops, AskKeyframe, Stop, display, Captures, Unserved, Empty, Visible,
         TornLeft
<1>6. CASE GateClose \/ GateLift \/ GateReset \/ GraceExpires
  BY <1>6 DEF GateClose, GateLift, GateReset, GraceExpires, AskKeyframe, encoder, pipes,
              Captures, Unserved, Empty, Visible, TornLeft
<1>7. ASSUME NEW c \in Clients, FloorElapses(c)  PROVE FanoutInv'
  <2>1. relay[c] \in Relays /\ relay' = [relay EXCEPT ![c] = [relay[c] EXCEPT !.floor = FALSE]]
        /\ relay[c].floor
    BY <1>7 DEF FloorElapses
  <2>2. [relay[c] EXCEPT !.floor = FALSE] \in Relays  BY <2>1 DEF Relays
  <2>3. attached[c]  BY <2>1 DEF Unserved, Empty, FreshRelay
  <2> QED BY <1>7, <2>1, <2>2, <2>3
          DEF FloorElapses, encoder, display, Unserved, Empty, Visible, TornLeft
<1>8. ASSUME NEW c \in Clients, RunSend(c)  PROVE FanoutInv'
  <2>1. relay[c] \in Relays /\ relay[c].backlog # <<>>  BY <1>8 DEF RunSend
  <2>2. PICK ch \in Chunks :
          /\ relay' = [relay EXCEPT ![c] = Popped(relay[c])]
          /\ shown' = [shown EXCEPT ![c] = [shown[c] EXCEPT ![ch.row] = ch.idx]]
    BY <1>8, <2>1, PoppedIsRelay DEF RunSend
  <2>3. [shown[c] EXCEPT ![ch.row] = ch.idx] \in [Rows -> Nat]
    BY DEF Chunks
  <2>4. Popped(relay[c]) \in Relays /\ attached[c] /\ sending' = [sending EXCEPT ![c] = TRUE]
    BY <1>8, <2>1, PoppedIsRelay DEF RunSend
  <2>5. UNCHANGED <<enc, idrDue, capture, phase, owner, gated, attached, lingering, torn>>
        /\ has_sent_any_frame' \in BOOLEAN
    BY <1>8 DEF RunSend, encoder
  <2>6. FanoutTypeOK'
    BY <2>2, <2>3, <2>4, <2>5
  <2>7. Unserved' /\ Visible' /\ TornLeft'
    BY <2>2, <2>4, <2>5 DEF Unserved, Empty, Visible, TornLeft
  <2> QED BY <2>6, <2>7
<1>9. ASSUME NEW c \in Clients, RunSent(c)  PROVE FanoutInv'
  BY <1>9 DEF RunSent, encoder, display, Unserved, Empty, Visible, TornLeft
<1>10. ASSUME NEW c \in Clients, RunFail(c) \/ LingerEnds(c)  PROVE FanoutInv'
  <2>1. /\ \/ phase' = phase /\ torn' = torn
           \/ Discard(c) /\ torn' = torn \cup {c}
        /\ UNCHANGED <<enc, idrDue, capture, owner, gated, has_sent_any_frame, shown>>
    BY <1>10, Zenon DEF RunFail, LingerEnds, encoder
  <2>2. /\ phase' \in [Clients -> Phases] /\ torn' \in SUBSET Clients
        /\ Visible' /\ TornLeft' /\ \A d \in Clients : phase'[d] = "new" => phase[d] = "new"
    <3>1. CASE phase' = phase /\ torn' = torn
      BY <3>1 DEF Visible, TornLeft
    <3>2. CASE Discard(c) /\ torn' = torn \cup {c}
      <4>1. \A d \in Clients :
              phase'[d] = IF d = c THEN IF phase[c] = "gone" THEN "gone" ELSE "dropped"
                                   ELSE phase[d]
        BY <3>2 DEF Discard
      <4>2. phase' \in [Clients -> Phases] /\ torn' \in SUBSET Clients
        BY <3>2 DEF Discard, Phases
      <4> QED BY <3>2, <4>1, <4>2, PausersAssumption DEF Visible, TornLeft
    <3> QED BY <2>1, <3>1, <3>2
  <2>3. \A d \in Clients : phase'[d] = "new" => phase[d] = "new"
    BY <2>2
  <2>4. /\ relay' \in [Clients -> Relays] /\ attached' \in [Clients -> BOOLEAN]
        /\ sending' \in [Clients -> BOOLEAN] /\ lingering' \in [Clients -> BOOLEAN]
    BY <1>10, FreshIsRelay DEF RunFail, LingerEnds
  <2>5. Unserved'
    BY <1>10, <2>3 DEF RunFail, LingerEnds, Unserved, Empty
  <2> QED BY <2>1, <2>2, <2>4, <2>5
<1>11. ASSUME NEW c \in Clients,
              Join(c) \/ Pause(c) \/ Resume(c) \/ Leave(c)
       PROVE  FanoutInv'
  BY <1>11, PausersAssumption, ZenonT(60)
     DEF Join, Pause, Resume, Leave, Move, encoder, pipes, Phases, Unserved, Empty,
         Visible, TornLeft
<1>12. ASSUME NEW c \in Clients, HandlerEnds(c)  PROVE FanoutInv'
  BY <1>12, FreshIsRelay
     DEF HandlerEnds, Move, Stop, encoder, Phases, Unserved, Empty, Visible, TornLeft
<1>13. ASSUME NEW c \in Clients, Takeover(c)  PROVE FanoutInv'
  BY <1>13 DEF Takeover, encoder, pipes, Unserved, Empty, Visible, TornLeft
<1>14. CASE UNCHANGED vars
  BY <1>14 DEF vars, encoder, display, pipes, Unserved, Empty, Visible, TornLeft
<1> QED BY <1>1, <1>2, <1>3, <1>4, <1>5, <1>6, <1>7, <1>8, <1>9, <1>10, <1>11, <1>12,
           <1>13, <1>14 DEF Next

-----------------------------------------------------------------------------
(* The stayer's view.                                                       *)

LEMMA SameRelayOps ==
  /\ View!FreshRelay = FreshRelay
  /\ \A r, ch : /\ View!offer(r, ch) = offer(r, ch)
                /\ View!WantsSync(r, ch) = WantsSync(r, ch)
                /\ View!LostRows(r, ch) = LostRows(r, ch)
                /\ View!flush_for_gate(r) = flush_for_gate(r)
                /\ View!Popped(r) = Popped(r)
  /\ \A q : View!RowsOf(q) = RowsOf(q)
BY DEF View!FreshRelay, FreshRelay, View!offer, offer, View!WantsSync, WantsSync,
       View!LostRows, LostRows, View!flush_for_gate, flush_for_gate, View!Popped, Popped,
       View!RowsOf, RowsOf, View!Drops, Drops, View!Gated, Gated, View!Overflows,
       Overflows, View!AfterOverflow, AfterOverflow, View!Cleared, Cleared

LEMMA SamePhase ==
  ASSUME FanoutInv
  PROVE  /\ PhaseSeen = "member" <=> phase[Stayer] = "member"
         /\ PhaseSeen = "paused" <=> phase[Stayer] = "new"
         /\ PhaseSeen = "gone" <=> phase[Stayer] \in {"dropped", "gone"}
<1>1. phase[Stayer] \in {"new", "member", "dropped", "gone"}
  BY PausersAssumption DEF FanoutInv, FanoutTypeOK, Phases, Visible
<1> QED BY <1>1 DEF PhaseSeen

LEMMA RefinesInit == Init => View!Init
<1> SUFFICES ASSUME Init PROVE View!Init  OBVIOUS
<1>1. PhaseSeen \in {"member", "paused"}
  BY PausersAssumption DEF Init, PhaseSeen
<1> QED BY <1>1, SameRelayOps, PausersAssumption DEF Init, View!Init

\* A chunk of the fan-out is a chunk of the view: offered to the stayer while it
\* is a member, flushing its relay while it is held back, and otherwise either
\* taking its relay away or leaving the one of a socket that does not come back.
LEMMA FanoutSeen ==
  ASSUME Primary, FanoutInv, NEW ch \in Chunks, ch.kind \in {"idr", "delta"},
         NEW due \in SUBSET Rows, do_fanout(ch, due)
  PROVE  View!Fanout(ch, due, \E c \in Targets : WantsSync(OfferedTo(c), ch))
<1> DEFINE need_sync == \E c \in Targets : WantsSync(OfferedTo(c), ch)
           asked     == need_sync /\ capture = "running"
<1>1. /\ enc' = [enc EXCEPT ![ch.row] = ch.idx]
      /\ relay'[Stayer] = RelayAfter(Stayer, ch)
      /\ attached'[Stayer] \in BOOLEAN
      /\ attached'[Stayer] <=> Stayer \in (Group \ Pruned) \cup Targets
      /\ lingering'[Stayer] = (lingering[Stayer] \/ (Stayer \in Pruned /\ sending[Stayer]))
      /\ sending'[Stayer] = (sending[Stayer] /\ Stayer \notin Pruned)
      /\ UNCHANGED <<capture, phase, owner, gated, shown>>
  <2>1. attached'[Stayer] \in BOOLEAN
    BY FanoutKeeps, PausersAssumption DEF FanoutInv, FanoutTypeOK
  <2>2. attached'[Stayer] = (Stayer \in (Group \ Pruned) \cup Targets)
    BY PausersAssumption DEF do_fanout
  <2>3. attached'[Stayer] <=> Stayer \in (Group \ Pruned) \cup Targets
    BY <2>2
  <2> QED BY <2>1, <2>3, PausersAssumption DEF do_fanout, display
<1>2. /\ capture # "off"
      /\ idrDue' = IF asked THEN Rows ELSE due
      /\ stranded' = IF asked THEN {} ELSE StrandedAfter(ch, due)
  BY DEF do_fanout
<1>3. PhaseSeen' = PhaseSeen  BY <1>1 DEF PhaseSeen
<1>4. /\ attached[Stayer] \in BOOLEAN /\ sending[Stayer] \in BOOLEAN
      /\ lingering[Stayer] \in BOOLEAN
      /\ ~attached[Stayer] => relay[Stayer] = FreshRelay /\ ~sending[Stayer]
  BY PausersAssumption DEF FanoutInv, FanoutTypeOK, Unserved, Empty
<1>5. Stayer \in Members <=> PhaseSeen = "member"
  BY SamePhase, MembersConnected, PausersAssumption
<1>6. Stayer \in HeldBack <=> Stayer \in Members /\ gated /\ owner = Stayer
  BY DEF HeldBack
<1> HIDE DEF need_sync
<1>7. CASE Stayer \in Targets
  <2>1. /\ Stayer \in Members /\ ~(gated /\ owner = Stayer)
        /\ Stayer \notin Pruned /\ Stayer \notin HeldBack
    BY <1>6, <1>7, MembersConnected DEF Targets
  <2>2. /\ relay'[Stayer] = offer(OfferedTo(Stayer), ch)
        /\ attached'[Stayer] = TRUE
        /\ lingering'[Stayer] = lingering[Stayer] /\ sending'[Stayer] = sending[Stayer]
    BY <1>1, <1>4, <1>7, <2>1 DEF RelayAfter
  <2>3. WantsSync(OfferedTo(Stayer), ch) => need_sync
    BY <1>7 DEF need_sync
  <2>4. stranded' = IF asked THEN {}
                    ELSE (stranded \ (IF ch.kind = "idr" THEN {ch.row} ELSE {}))
                           \cup (IF View!Excused(OfferedTo(Stayer))
                                 THEN LostRows(OfferedTo(Stayer), ch) \ due ELSE {})
    BY <1>2, <1>7, <2>1 DEF StrandedAfter
  <2>5. View!OfferIt(ch, due, need_sync)
    BY <1>2, <1>5, <2>1, <2>2, <2>3, <2>4, SameRelayOps
       DEF View!OfferIt, View!tasks, OfferedTo
  <2> QED BY <1>1, <1>3, <2>5 DEF View!Fanout, need_sync
<1>8. CASE Stayer \in HeldBack
  <2>1. /\ Stayer \in Members /\ gated /\ owner = Stayer
        /\ Stayer \notin Pruned /\ Stayer \notin Targets
    BY <1>6, <1>8, MembersConnected DEF Targets
  <2>2. /\ relay'[Stayer] = flush_for_gate(relay[Stayer])
        /\ attached'[Stayer] = attached[Stayer]
        /\ lingering'[Stayer] = lingering[Stayer] /\ sending'[Stayer] = sending[Stayer]
    BY <1>1, <1>4, <1>8, <2>1, PausersAssumption DEF RelayAfter, Group
  <2>3. stranded' = IF asked THEN {} ELSE stranded
    BY <1>2, <1>8, <2>1 DEF StrandedAfter
  <2>4. flush_for_gate(FreshRelay) = FreshRelay
    BY DEF flush_for_gate, FreshRelay
  <2>5. View!FlushIt(ch, due, need_sync)
    BY <1>2, <1>4, <1>5, <2>1, <2>2, <2>3, <2>4, SameRelayOps
       DEF View!FlushIt, View!tasks
  <2> QED BY <1>1, <1>3, <2>5 DEF View!Fanout, need_sync
<1>9. CASE Stayer \notin Targets /\ Stayer \notin HeldBack
  <2>1. Stayer \notin Members  BY <1>9 DEF Targets
  <2>2. stranded' = IF asked THEN {}
                    ELSE stranded \cup ((RowsOf(relay[Stayer].backlog) \cup {ch.row}) \ due)
    BY <1>2, <1>9 DEF StrandedAfter
  <2>3. \/ View!Detach
        \/ PhaseSeen = "gone" /\ UNCHANGED <<relay[Stayer], attached[Stayer],
                                             sending[Stayer], lingering[Stayer]>>
    <3>1. CASE Stayer \in Pruned
      <4>1. /\ relay'[Stayer] = FreshRelay
            /\ attached'[Stayer] = FALSE /\ sending'[Stayer] = FALSE
        <5>1. relay'[Stayer] = FreshRelay
          BY <1>1, <1>9, <3>1 DEF RelayAfter
        <5>2. attached'[Stayer] = FALSE
          BY <1>1, <1>9, <3>1
        <5>3. sending'[Stayer] = FALSE
          BY <1>1, <1>4, <3>1
        <5> QED BY <5>1, <5>2, <5>3
      <4>2. lingering'[Stayer] = (lingering[Stayer] \/ sending[Stayer])
        BY <1>1, <1>4, <3>1
      <4> QED BY <4>1, <4>2, SameRelayOps DEF View!Detach
    <3>2. CASE Stayer \notin Pruned
      <4>1. UNCHANGED <<relay[Stayer], attached[Stayer], sending[Stayer], lingering[Stayer]>>
        BY <1>1, <1>4, <1>9, <3>2, PausersAssumption DEF RelayAfter, Group
      <4>2. PhaseSeen = "gone" \/ phase[Stayer] = "new"
        BY <1>5, <2>1, SamePhase, PausersAssumption
           DEF FanoutInv, FanoutTypeOK, Phases, Visible
      <4>3. phase[Stayer] = "new" => ~attached[Stayer]
        BY PausersAssumption DEF FanoutInv, Unserved
      <4> QED BY <1>4, <4>1, <4>2, <4>3, SameRelayOps DEF View!Detach
    <3> QED BY <3>1, <3>2
  <2>4. View!SkipIt(ch, due, need_sync)
    BY <1>2, <1>5, <2>1, <2>2, <2>3, SameRelayOps DEF View!SkipIt, View!tasks
  <2> QED BY <1>1, <1>3, <2>4 DEF View!Fanout, need_sync
<1> QED BY <1>7, <1>8, <1>9

\* No relay asks for anything when it is offered a keyframe.
LEMMA KeyframeAsksNothing ==
  ASSUME NEW r, NEW ch, ch.kind = "idr" PROVE ~WantsSync(r, ch)
BY DEF WantsSync, Drops, Overflows, Gated

\* What another socket's relay or handler does is not seen.
LEMMA OthersUnseen ==
  ASSUME UNCHANGED <<enc, idrDue, events, capture, owner, gated, stranded>>,
         phase'[Stayer] = phase[Stayer],
         UNCHANGED <<relay[Stayer], attached[Stayer], sending[Stayer], lingering[Stayer],
                     shown[Stayer]>>
  PROVE  UNCHANGED View!vars
BY DEF View!vars, PhaseSeen

\* The gate's holder changes, or the gate itself, and no keyframe is asked for.
LEMMA GateSeen ==
  ASSUME FanoutInv, UNCHANGED <<encoder, phase, pipes>>, gated' \in BOOLEAN, NoteOpening
  PROVE  [View!Next]_View!vars
<1> DEFINE held == gated /\ owner = Stayer
<1>1. /\ UNCHANGED <<enc, idrDue, events, capture, phase, PhaseSeen>>
      /\ UNCHANGED <<relay, attached, sending, lingering, shown>>
  BY DEF encoder, pipes, PhaseSeen
<1>2. held \in BOOLEAN /\ held' \in BOOLEAN
  BY DEF FanoutInv, FanoutTypeOK
<1>3. stranded' = IF held /\ ~held' THEN stranded \cup (View!Missing \ idrDue) ELSE stranded
  BY DEF NoteOpening
<1>4. CASE held /\ ~held'
  <2>1. View!GateReset
    BY <1>1, <1>2, <1>3, <1>4 DEF View!GateReset, View!encoder, View!tasks
  <2> QED BY <2>1 DEF View!Next
<1>5. CASE ~held /\ held'
  <2>1. View!GateClose
    BY <1>1, <1>2, <1>3, <1>5 DEF View!GateClose, View!encoder, View!tasks
  <2> QED BY <2>1 DEF View!Next
<1>6. CASE held <=> held'
  <2>1. UNCHANGED View!vars
    BY <1>1, <1>2, <1>3, <1>6 DEF View!vars
  <2> QED BY <2>1
<1> QED BY <1>4, <1>5, <1>6

LEMMA RefinesStep ==
  ASSUME Primary, FanoutInv, [Next]_vars PROVE [View!Next]_View!vars
<1> USE PausersAssumption
<1>1. ASSUME NEW row \in Rows, EmitAsked(row)  PROVE View!Next
  <2>1. /\ NextChunk(row, "idr") \in Chunks
        /\ NextChunk(row, "idr").kind = "idr"
        /\ idrDue \ {row} \in SUBSET Rows
    BY NextChunkType DEF FanoutInv, FanoutTypeOK, NextChunk
  <2>2. View!Fanout(NextChunk(row, "idr"), idrDue \ {row},
                    \E c \in Targets : WantsSync(OfferedTo(c), NextChunk(row, "idr")))
    BY <1>1, <2>1, FanoutSeen DEF EmitAsked
  <2>3. (\E c \in Targets : WantsSync(OfferedTo(c), NextChunk(row, "idr"))) = FALSE
    BY <2>1, KeyframeAsksNothing
  <2>4. View!NextChunk(row, View!SyncKind) = NextChunk(row, "idr")
    BY DEF View!NextChunk, NextChunk, View!SyncKind
  <2>5. View!EmitAsked(row)
    BY <1>1, <2>2, <2>3, <2>4 DEF View!EmitAsked, EmitAsked
  <2> QED BY <2>5 DEF View!Next
<1>2. ASSUME NEW row \in Rows, NEW kind \in {"idr", "delta"}, Emit(row, kind)
      PROVE  View!Next
  <2> DEFINE due == IF kind = "idr" THEN idrDue \ {row} ELSE idrDue
             othersAsk == \E c \in Targets : WantsSync(OfferedTo(c), NextChunk(row, kind))
  <2>1. /\ NextChunk(row, kind) \in Chunks
        /\ NextChunk(row, kind).kind = kind
        /\ due \in SUBSET Rows
    BY NextChunkType DEF FanoutInv, FanoutTypeOK, NextChunk
  <2>2. View!Fanout(NextChunk(row, kind), due, othersAsk)
    BY <1>2, <2>1, FanoutSeen DEF Emit
  <2>3. View!NextChunk(row, kind) = NextChunk(row, kind) /\ View!SyncKind = "idr"
        /\ View!KindsOf("h264") = {"idr", "delta"}
    BY DEF View!NextChunk, NextChunk, View!SyncKind, View!KindsOf
  <2>4. othersAsk \in BOOLEAN  OBVIOUS
  <2>5. events < MaxEvents /\ events' = events + 1
    BY <1>2 DEF Emit
  <2> HIDE DEF othersAsk
  <2>6. View!Emit(row, kind, othersAsk)
    BY <2>2, <2>3, <2>5 DEF View!Emit
  <2> QED BY <2>3, <2>4, <2>6 DEF View!Next
<1>3. CASE KeyframeRequest
  <2>1. View!KeyframeRequest
    BY <1>3 DEF KeyframeRequest, AskKeyframe, display, pipes, View!KeyframeRequest,
                View!tasks, PhaseSeen
  <2> QED BY <2>1 DEF View!Next
<1>4. CASE CaptureBegins
  BY <1>4 DEF CaptureBegins, display, pipes, View!vars, PhaseSeen
<1>5. CASE CaptureStarted
  <2>1. View!CaptureStarted
    BY <1>5 DEF CaptureStarted, display, pipes, View!CaptureStarted, View!tasks, PhaseSeen
  <2> QED BY <2>1 DEF View!Next
<1>6. CASE CaptureStopping
  <2>1. View!CaptureStopping
    BY <1>6 DEF CaptureStopping, pipes, View!CaptureStopping, View!tasks, PhaseSeen
  <2> QED BY <2>1 DEF View!Next
<1>7. CASE CaptureStops
  <2>1. View!Detach
    BY <1>7, SameRelayOps DEF CaptureStops, Stop, View!Detach, FanoutInv, FanoutTypeOK
  <2>2. View!CaptureStops
    BY <1>7, <2>1
       DEF CaptureStops, AskKeyframe, display, View!CaptureStops, PhaseSeen
  <2> QED BY <2>2 DEF View!Next
<1>8. CASE GateClose \/ GateReset \/ GraceExpires \/ \E c \in Clients : Takeover(c)
  <2>1. UNCHANGED <<encoder, phase, pipes>> /\ gated' \in BOOLEAN /\ NoteOpening
    BY <1>8 DEF GateClose, GateReset, GraceExpires, Takeover, NoteOpening, FanoutInv,
                FanoutTypeOK
  <2> QED BY <2>1, GateSeen
<1>9. CASE GateLift
  <2>1. /\ gated /\ ~gated' /\ capture = "running"
        /\ UNCHANGED <<enc, capture, phase, owner, pipes>> /\ AskKeyframe
    BY <1>9 DEF GateLift
  <2>2. CASE owner = Stayer
    <3>1. View!GateLift
      BY <2>1, <2>2 DEF AskKeyframe, pipes, View!GateLift, View!tasks, PhaseSeen
    <3> QED BY <3>1 DEF View!Next
  <2>3. CASE owner # Stayer
    <3>1. View!KeyframeRequest
      BY <2>1, <2>3 DEF AskKeyframe, pipes, View!KeyframeRequest, View!tasks, PhaseSeen
    <3> QED BY <3>1 DEF View!Next
  <2> QED BY <2>2, <2>3
<1>10. ASSUME NEW c \in Clients,
              \/ FloorElapses(c) \/ RunSend(c) \/ RunSent(c) \/ RunFail(c) \/ LingerEnds(c)
              \/ Join(c) \/ Pause(c) \/ Resume(c) \/ Leave(c) \/ HandlerEnds(c)
       PROVE  [View!Next]_View!vars
  <2>1. UNCHANGED <<enc, idrDue, events, capture, owner, gated, stranded>>
    BY <1>10 DEF FloorElapses, RunSend, RunSent, RunFail, LingerEnds, Join, Pause, Resume,
                 Leave, HandlerEnds, Move, encoder, display
  <2>2. CASE c # Stayer
    <3>1. phase'[Stayer] = phase[Stayer]
      BY <1>10, <2>2 DEF FloorElapses, RunSend, RunSent, RunFail, LingerEnds, Discard, Join,
                         Pause, Resume, Leave, HandlerEnds, Move, display, FanoutInv,
                         FanoutTypeOK
    <3>2. UNCHANGED <<relay[Stayer], attached[Stayer], sending[Stayer], lingering[Stayer],
                      shown[Stayer]>>
      BY <1>10, <2>2 DEF FloorElapses, RunSend, RunSent, RunFail, LingerEnds, Join,
                         Pause, Resume, Leave, HandlerEnds, Stop, pipes, FanoutInv,
                         FanoutTypeOK
    <3> QED BY <2>1, <3>1, <3>2, OthersUnseen
  <2>3. CASE c = Stayer
    <3> USE <2>3 DEF FanoutInv, FanoutTypeOK
    <3>1. CASE FloorElapses(c)
      <4>1. View!FloorElapses
        BY <3>1 DEF FloorElapses, encoder, display, View!FloorElapses, View!encoder,
                    View!tasks, PhaseSeen
      <4> QED BY <4>1 DEF View!Next
    <3>2. CASE RunSend(c)
      <4>1. View!RunSend
        BY <3>2, SameRelayOps DEF RunSend, encoder, View!RunSend, View!encoder, PhaseSeen
      <4> QED BY <4>1 DEF View!Next
    <3>3. CASE RunSent(c)
      <4>1. View!RunSent
        BY <3>3 DEF RunSent, encoder, display, View!RunSent, View!encoder, PhaseSeen
      <4> QED BY <4>1 DEF View!Next
    <3>4. CASE RunFail(c)
      <4>1. View!RunFail
        BY <3>4, SameRelayOps, SamePhase
           DEF RunFail, Discard, encoder, View!RunFail, View!encoder, PhaseSeen
      <4> QED BY <4>1 DEF View!Next
    <3>5. CASE LingerEnds(c)
      <4>1. PhaseSeen' \in {PhaseSeen, "gone"}
        BY <3>5 DEF LingerEnds, Discard, PhaseSeen
      <4>2. View!LingerEnds
        BY <3>5, <4>1 DEF LingerEnds, encoder, View!LingerEnds, View!encoder
      <4> QED BY <4>2 DEF View!Next
    <3>6. CASE Join(c) \/ Resume(c)
      <4>1. View!Join
        BY <3>6 DEF Join, Resume, Move, encoder, pipes, View!Join, View!encoder, View!tasks,
                    PhaseSeen
      <4> QED BY <4>1 DEF View!Next
    <3>7. CASE Leave(c)
      <4>1. View!Vanish
        BY <3>7 DEF Leave, Move, encoder, pipes, View!Vanish, View!encoder, View!tasks,
                    PhaseSeen
      <4> QED BY <4>1 DEF View!Next
    <3>8. CASE HandlerEnds(c)
      <4>1. phase[Stayer] = "dropped" /\ PhaseSeen = "gone" /\ PhaseSeen' = "gone"
        BY <3>8 DEF HandlerEnds, Move, PhaseSeen
      <4>2. CASE attached[Stayer]
        <5>1. View!Detach
          BY <3>8, SameRelayOps DEF HandlerEnds, Stop, View!Detach
        <5>2. View!HandlerEnds
          BY <3>8, <4>1, <4>2, <5>1 DEF HandlerEnds, Move, encoder, View!HandlerEnds,
                                        View!encoder
        <5> QED BY <5>2 DEF View!Next
      <4>3. CASE ~attached[Stayer]
        <5>1. UNCHANGED <<relay[Stayer], attached[Stayer], sending[Stayer],
                          lingering[Stayer], shown[Stayer]>>
          BY <3>8, <4>3 DEF HandlerEnds, Stop, Unserved, Empty
        <5>2. UNCHANGED View!vars
          BY <2>1, <4>1, <5>1 DEF View!vars
        <5> QED BY <5>2
      <4> QED BY <4>2, <4>3
    <3>9. ~Pause(c)  BY DEF Pause
    <3> QED BY <1>10, <3>1, <3>2, <3>3, <3>4, <3>5, <3>6, <3>7, <3>8, <3>9
  <2> QED BY <2>2, <2>3
<1>11. CASE UNCHANGED vars
  BY <1>11 DEF vars, encoder, display, pipes, View!vars, PhaseSeen
<1> QED BY <1>1, <1>2, <1>3, <1>4, <1>5, <1>6, <1>7, <1>8, <1>9, <1>10, <1>11 DEF Next

\* The fan-out of the primary display implements, for a socket whose tab is never
\* hidden, the contract its relay relies on: no chunk passes it by.
THEOREM StayerRefines == ASSUME Primary PROVE Spec => StayerImplementsRelay
<1>1. Init => FanoutInv /\ View!Init
  BY FanoutInvInit, RefinesInit
<1>2. FanoutInv /\ [Next]_vars => FanoutInv' /\ [View!Next]_View!vars
  BY FanoutInvStep, RefinesStep
<1> QED BY <1>1, <1>2, PTL DEF Spec, StayerImplementsRelay, View!Spec

-----------------------------------------------------------------------------
(* Torn sockets.                                                            *)

LEMMA FreshStarves ==
  ASSUME NEW r \in Relays
  PROVE  /\ Len(FreshRelay.backlog) <= Len(r.backlog)
         /\ Len(flush_for_gate(r).backlog) <= Len(r.backlog)
<1>1. r.backlog \in Seq(Chunks)  BY DEF Relays
<1>2. Len(<<>>) = 0 /\ Len(r.backlog) \in Nat  BY <1>1
<1>3. flush_for_gate(r).backlog \in {r.backlog, <<>>}
  BY DEF flush_for_gate, Cleared
<1> QED BY <1>2, <1>3 DEF FreshRelay

LEMMA TornStep ==
  ASSUME Primary, FanoutInv, [Next]_vars, NEW c \in torn
  PROVE  Len(relay'[c].backlog) <= Len(relay[c].backlog)
<1>1. c \in Clients /\ phase[c] # "member" /\ relay[c] \in Relays /\ relay \in [Clients -> Relays]
  BY DEF FanoutInv, FanoutTypeOK, TornLeft
<1>2. Len(relay[c].backlog) \in Nat
  BY <1>1 DEF Relays
<1>3. ASSUME NEW ch \in Chunks, NEW due \in SUBSET Rows, do_fanout(ch, due)
      PROVE  Len(relay'[c].backlog) <= Len(relay[c].backlog)
  <2>1. c \notin Targets /\ c \notin HeldBack
    BY <1>1, MembersConnected
  <2>2. relay'[c] = RelayAfter(c, ch)
    BY <1>1, <1>3 DEF do_fanout
  <2>3. relay'[c] \in {FreshRelay, relay[c]}
    BY <2>1, <2>2 DEF RelayAfter
  <2> QED BY <1>1, <1>2, <2>3, FreshStarves
<1>4. CASE \E row \in Rows : EmitAsked(row) \/ Emit(row, "idr") \/ Emit(row, "delta")
  <2>1. PICK row \in Rows, kind \in {"idr", "delta"}, due \in SUBSET Rows :
          do_fanout(NextChunk(row, kind), due)
    BY <1>4 DEF EmitAsked, Emit, FanoutInv, FanoutTypeOK
  <2>2. NextChunk(row, kind) \in Chunks  BY NextChunkType DEF FanoutInv
  <2> QED BY <1>3, <2>1, <2>2
<1>5. CASE KeyframeRequest \/ CaptureBegins \/ CaptureStarted \/ CaptureStopping
            \/ GraceExpires \/ GateClose \/ GateLift \/ GateReset \/ UNCHANGED vars
  <2>1. relay' = relay
    BY <1>5 DEF KeyframeRequest, CaptureBegins, CaptureStarted, CaptureStopping,
                GraceExpires, GateClose, GateLift, GateReset, vars, pipes
  <2> QED BY <1>2, <2>1
<1>6. CASE CaptureStops
  BY <1>1, <1>6, FreshStarves DEF CaptureStops
<1>7. ASSUME NEW d \in Clients,
             \/ FloorElapses(d) \/ RunSend(d) \/ RunSent(d) \/ RunFail(d) \/ LingerEnds(d)
             \/ Join(d) \/ Pause(d) \/ Resume(d) \/ Leave(d) \/ HandlerEnds(d) \/ Takeover(d)
      PROVE  Len(relay'[c].backlog) <= Len(relay[c].backlog)
  <2>1. CASE FloorElapses(d)
    <3>1. relay'[c] = relay[c] \/ relay'[c] = [relay[c] EXCEPT !.floor = FALSE]
      BY <1>1, <2>1 DEF FloorElapses
    <3>2. relay'[c].backlog = relay[c].backlog
      BY <1>1, <3>1 DEF Relays
    <3> QED BY <1>2, <3>2
  <2>2. CASE RunSend(d)
    <3>1. /\ relay[d] \in Relays /\ relay[d].backlog # <<>>
          /\ relay' = [relay EXCEPT ![d] = Popped(relay[d])]
      BY <1>1, <2>2 DEF RunSend
    <3>2. relay'[c] = IF c = d THEN Popped(relay[d]) ELSE relay[c]
      BY <1>1, <3>1
    <3> QED BY <1>2, <3>1, <3>2, PoppedIsRelay
  <2>3. CASE RunFail(d) \/ HandlerEnds(d)
    <3>1. relay'[c] \in {FreshRelay, relay[c]}
      BY <1>1, <2>3 DEF RunFail, HandlerEnds
    <3> QED BY <1>1, <1>2, <3>1, FreshStarves
  <2>4. CASE \/ RunSent(d) \/ LingerEnds(d) \/ Join(d) \/ Pause(d) \/ Resume(d)
             \/ Leave(d) \/ Takeover(d)
    <3>1. relay' = relay
      BY <2>4 DEF RunSent, LingerEnds, Join, Pause, Resume, Leave, Takeover, pipes
    <3> QED BY <1>2, <3>1
  <2> QED BY <1>7, <2>1, <2>2, <2>3, <2>4
<1> QED BY <1>4, <1>5, <1>6, <1>7 DEF Next

\* A socket that had a frame torn by a send timeout leaves the fan-out of the
\* primary display for good: no relay is handed another chunk for it.
THEOREM TornStarved == ASSUME Primary PROVE Spec => TornNotFed
<1> DEFINE Starved == \A c \in torn : Len(relay'[c].backlog) <= Len(relay[c].backlog)
<1>1. Init => FanoutInv
  BY FanoutInvInit
<1>2. FanoutInv /\ [Next]_vars => FanoutInv' /\ [Starved]_vars
  BY FanoutInvStep, TornStep
<1> QED BY <1>1, <1>2, PTL DEF Spec, TornNotFed
-----------------------------------------------------------------------------
(* What is proved of the contract holds of the fan-out: the proofs about    *)
(* VideoRelay, read for the stayer's view.                                  *)

Contract == INSTANCE VideoRelayProofs
              WITH Codecs <- {"h264"}, codec <- "h264", phase <- PhaseSeen,
                   capture <- IF capture = "off" THEN "starting" ELSE capture,
                   gated <- gated /\ owner = Stayer, relay <- relay[Stayer],
                   attached <- attached[Stayer], sending <- sending[Stayer],
                   lingering <- lingering[Stayer], shown <- shown[Stayer],
                   stranded <- stranded

\* The two instances of VideoRelay are one specification.
LEMMA SameFanout ==
  ASSUME NEW ch, NEW due, NEW o
  PROVE  View!Fanout(ch, due, o) <=> Contract!Fanout(ch, due, o)
<1> USE DEF View!Excused, View!LostRows, View!Missing, View!RowsOf, View!Popped,
            View!WantsSync, View!offer, View!Drops, View!Gated, View!AfterOverflow,
            View!Overflows, View!flush_for_gate, View!Cleared, View!FreshRelay,
            View!Detach, View!tasks, View!encoder, Contract!Excused,
            Contract!LostRows, Contract!Missing, Contract!RowsOf, Contract!Popped,
            Contract!WantsSync, Contract!offer, Contract!Drops, Contract!Gated,
            Contract!AfterOverflow, Contract!Overflows, Contract!flush_for_gate,
            Contract!Cleared, Contract!FreshRelay, Contract!Detach, Contract!tasks,
            Contract!encoder
<1>1. View!OfferIt(ch, due, o) <=> Contract!OfferIt(ch, due, o)
  BY DEF View!OfferIt, Contract!OfferIt
<1>2. View!FlushIt(ch, due, o) <=> Contract!FlushIt(ch, due, o)
  BY DEF View!FlushIt, Contract!FlushIt
<1>3. View!SkipIt(ch, due, o) <=> Contract!SkipIt(ch, due, o)
  BY DEF View!SkipIt, Contract!SkipIt
<1> QED BY <1>1, <1>2, <1>3 DEF View!Fanout, Contract!Fanout

LEMMA SameNext == View!Next <=> Contract!Next
<1> USE DEF View!Excused, View!LostRows, View!Missing, View!RowsOf, View!Popped,
            View!WantsSync, View!offer, View!Drops, View!Gated, View!AfterOverflow,
            View!Overflows, View!flush_for_gate, View!Cleared, View!FreshRelay,
            View!Detach, View!tasks, View!encoder, Contract!Excused,
            Contract!LostRows, Contract!Missing, Contract!RowsOf, Contract!Popped,
            Contract!WantsSync, Contract!offer, Contract!Drops, Contract!Gated,
            Contract!AfterOverflow, Contract!Overflows, Contract!flush_for_gate,
            Contract!Cleared, Contract!FreshRelay, Contract!Detach, Contract!tasks,
            Contract!encoder
<1>1. ASSUME NEW row, NEW kind
      PROVE  View!NextChunk(row, kind) = Contract!NextChunk(row, kind)
  BY DEF View!NextChunk, Contract!NextChunk
<1>2. ASSUME NEW row, NEW kind, NEW o
      PROVE  View!Emit(row, kind, o) <=> Contract!Emit(row, kind, o)
  BY <1>1, SameFanout DEF View!Emit, Contract!Emit, View!SyncKind, Contract!SyncKind
<1>3. ASSUME NEW row
      PROVE  View!EmitAsked(row) <=> Contract!EmitAsked(row)
  BY <1>1, SameFanout
     DEF View!EmitAsked, Contract!EmitAsked, View!SyncKind, Contract!SyncKind
<1>4. View!KeyframeRequest <=> Contract!KeyframeRequest
  BY DEF View!KeyframeRequest, Contract!KeyframeRequest
<1>5. View!FloorElapses <=> Contract!FloorElapses
  BY DEF View!FloorElapses, Contract!FloorElapses
<1>6. View!RunSend <=> Contract!RunSend
  BY DEF View!RunSend, Contract!RunSend
<1>7. View!RunSent <=> Contract!RunSent
  BY DEF View!RunSent, Contract!RunSent
<1>8. View!RunFail <=> Contract!RunFail
  BY DEF View!RunFail, Contract!RunFail
<1>9. View!LingerEnds <=> Contract!LingerEnds
  BY DEF View!LingerEnds, Contract!LingerEnds
<1>10. View!Pause <=> Contract!Pause
  BY DEF View!Pause, Contract!Pause
<1>11. View!Vanish <=> Contract!Vanish
  BY DEF View!Vanish, Contract!Vanish
<1>12. View!Join <=> Contract!Join
  BY DEF View!Join, Contract!Join
<1>13. View!CaptureStarted <=> Contract!CaptureStarted
  BY DEF View!CaptureStarted, Contract!CaptureStarted
<1>14. View!CaptureStopping <=> Contract!CaptureStopping
  BY DEF View!CaptureStopping, Contract!CaptureStopping
<1>15. View!CaptureStops <=> Contract!CaptureStops
  BY DEF View!CaptureStops, Contract!CaptureStops
<1>16. View!HandlerEnds <=> Contract!HandlerEnds
  BY DEF View!HandlerEnds, Contract!HandlerEnds
<1>17. View!GateClose <=> Contract!GateClose
  BY DEF View!GateClose, Contract!GateClose
<1>18. View!GateLift <=> Contract!GateLift
  BY DEF View!GateLift, Contract!GateLift
<1>19. View!GateReset <=> Contract!GateReset
  BY DEF View!GateReset, Contract!GateReset
<1> QED BY <1>2, <1>3, <1>4, <1>5, <1>6, <1>7, <1>8, <1>9, <1>10, <1>11, <1>12, <1>13,
          <1>14, <1>15, <1>16, <1>17, <1>18, <1>19
       DEF View!Next, Contract!Next, View!KindsOf, Contract!KindsOf

\* "a delivered delta otherwise decodes against a reference the client never
\* received": for a socket whose tab is never hidden the fan-out of the primary
\* display keeps its H.264 chain whole, whatever the other sockets do.
THEOREM StayerDecodes == ASSUME Primary PROVE Spec => []View!ChainSafe
<1>1. View!Init <=> Contract!Init
  BY DEF View!Init, Contract!Init, View!FreshRelay, Contract!FreshRelay
<1>2. View!ChainSafe <=> Contract!ChainSafe
  BY DEF View!ChainSafe, Contract!ChainSafe
<1>3. Init => FanoutInv /\ Contract!IInv
  <2>1. Contract!Init => Contract!IInv
    BY Contract!ChainInit, EventAssumption, BudgetAssumption, SizeAssumption
       DEF Contract!Kinds, Kinds
  <2> QED BY <1>1, <2>1, FanoutInvInit, RefinesInit
<1>4. FanoutInv /\ Contract!IInv /\ [Next]_vars => FanoutInv' /\ Contract!IInv'
  <2>1. Contract!IInv /\ [Contract!Next]_(Contract!vars) => Contract!IInv'
    BY Contract!ChainStep, EventAssumption, BudgetAssumption, SizeAssumption
       DEF Contract!Kinds, Kinds
  <2>2. [View!Next]_(View!vars) => [Contract!Next]_(Contract!vars)
    BY SameNext DEF View!vars, Contract!vars
  <2> QED BY <2>1, <2>2, FanoutInvStep, RefinesStep
<1>5. Contract!IInv => Contract!ChainSafe
  BY Contract!ChainHolds, EventAssumption, BudgetAssumption, SizeAssumption
     DEF Contract!Kinds, Kinds
<1> QED BY <1>2, <1>3, <1>4, <1>5, PTL DEF Spec
=============================================================================
