-------------------------- MODULE VideoRelayProofs --------------------------
(***************************************************************************)
(* Type correctness, H.264 chain safety and the bound of the backlog of    *)
(* VideoRelay, for any set of rows, any chunk sizes, any budget and any    *)
(* number of events.                                                       *)
(*                                                                         *)
(* ChainSafe speaks of the head of the queue only, so it is not inductive: *)
(* sending the head makes the next chunk the head.  Chained strengthens it *)
(* to the whole queue, and adds what an append needs: a live row's newest  *)
(* chunk is at the end of this client's stream.                            *)
(***************************************************************************)
EXTENDS VideoRelay, NumberLemmas

\* Below, q is a queue and live its live rows; e and s map a row to the number
\* of its newest encoded chunk and of its last chunk on the socket.

\* Chunks of one row are queued in the order they were encoded, after those
\* already on the socket.
Ordered(q, e, s) ==
  /\ \A j, k \in DOMAIN q : j < k /\ q[j].row = q[k].row => q[j].idx < q[k].idx
  /\ \A k \in DOMAIN q : s[q[k].row] < q[k].idx /\ q[k].idx <= e[q[k].row]

\* Every queued delta has its reference on the socket or earlier in the queue.
Linked(q, s) ==
  \A k \in DOMAIN q : q[k].kind = "delta" =>
      \/ s[q[k].row] = q[k].idx - 1
      \/ \E j \in DOMAIN q : /\ j < k
                            /\ q[j].row = q[k].row
                            /\ q[j].idx = q[k].idx - 1

\* The newest chunk of a live row is the last one this client got or will get.
LiveAtTip(q, live, e, s) ==
  \A r \in live : \/ s[r] = e[r]
                  \/ \E j \in DOMAIN q : q[j].row = r /\ q[j].idx = e[r]

Chained(q, live, e, s) == Ordered(q, e, s) /\ Linked(q, s) /\ LiveAtTip(q, live, e, s)

ShownBelow == \A r \in Rows : shown[r] <= enc[r]

Detached == ~attached => relay = FreshRelay

\* A client that is gone misses chunks, and is offered none again.
TipLive == IF phase = "gone" THEN {} ELSE relay.live

ChainInv == /\ Chained(relay.backlog, TipLive, enc, shown)
            /\ ShownBelow
            /\ Detached

IInv == TypeOK /\ ChainInv

-----------------------------------------------------------------------------
(* The synchronous methods of the relay keep its type.                      *)

LEMMA FreshType == FreshRelay \in Relays
  BY DEF FreshRelay, Relays

LEMMA ClearedType == ASSUME NEW r \in Relays PROVE Cleared(r) \in Relays
<1>1. r.floor \in BOOLEAN  BY DEF Relays
<1>2. <<>> \in Seq(Chunks)  OBVIOUS
<1> QED BY <1>1, <1>2 DEF Cleared, Relays

LEMMA FlushType == ASSUME NEW r \in Relays PROVE flush_for_gate(r) \in Relays
  BY ClearedType DEF flush_for_gate

LEMMA OverflowType == ASSUME NEW r \in Relays, NEW ch \in Chunks
                      PROVE  AfterOverflow(r, ch) \in Relays
  BY ClearedType DEF AfterOverflow

LEMMA OfferType == ASSUME NEW r \in Relays, NEW ch \in Chunks
                   PROVE  offer(r, ch) \in Relays
<1> DEFINE r1 == AfterOverflow(r, ch)
<1>1. r1 \in Relays  BY OverflowType
<1>2. r1.backlog \in Seq(Chunks) /\ r1.bytes \in Int /\ r1.live \in SUBSET Rows
  BY <1>1 DEF Relays
<1>3. Size[ch.kind] \in Int /\ ch.row \in Rows
  BY SizeAssumption DEF Chunks
<1>4. Append(r1.backlog, ch) \in Seq(Chunks)  BY <1>2
<1>5. r.floor \in BOOLEAN /\ Drops(r, ch) \in BOOLEAN
  BY DEF Relays, Drops, Overflows, Gated
<1> HIDE DEF r1
<1>6. (IF ~Gated(r, ch) THEN r1.bytes + Size[ch.kind] ELSE r1.bytes) \in Int
  BY <1>2, <1>3
<1>7. (r.floor \/ Drops(r, ch)) \in BOOLEAN  BY <1>5, Zenon
<1>8. offer(r, ch) = [backlog |-> IF ~Gated(r, ch) THEN Append(r1.backlog, ch) ELSE r1.backlog,
                      bytes   |-> IF ~Gated(r, ch) THEN r1.bytes + Size[ch.kind] ELSE r1.bytes,
                      live    |-> IF ch.kind = "idr" THEN r1.live \union {ch.row} ELSE r1.live,
                      floor   |-> r.floor \/ Drops(r, ch)]
  BY DEF offer, r1
<1> QED BY <1>2, <1>3, <1>4, <1>6, <1>7, <1>8 DEF Relays

LEMMA PoppedType == ASSUME NEW r \in Relays, r.backlog # <<>>
                    PROVE  /\ Popped(r) \in Relays
                           /\ Head(r.backlog) \in Chunks
<1>1. r.backlog \in Seq(Chunks) /\ r.bytes \in Int  BY DEF Relays
<1>2. Head(r.backlog) \in Chunks /\ Tail(r.backlog) \in Seq(Chunks)  BY <1>1
<1>3. Size[Head(r.backlog).kind] \in Int  BY <1>2, SizeAssumption DEF Chunks
<1>4. r.live \in SUBSET Rows /\ r.floor \in BOOLEAN  BY DEF Relays
<1>5. r.bytes - Size[Head(r.backlog).kind] \in Int  BY <1>1, <1>3
<1> QED BY <1>4, <1>5, <1>1, <1>2, <1>3 DEF Relays, Popped

-----------------------------------------------------------------------------
(* The rows a chunk takes part in are rows.                                 *)

LEMMA RowsOfType == ASSUME NEW q \in Seq(Chunks) PROVE RowsOf(q) \in SUBSET Rows
<1>1. ASSUME NEW k \in DOMAIN q PROVE q[k].row \in Rows
  <2>1. q[k] \in Chunks  BY <1>1
  <2> QED BY <2>1 DEF Chunks
<1> QED BY <1>1 DEF RowsOf

LEMMA LostRowsType == ASSUME NEW r \in Relays, NEW ch \in Chunks
                      PROVE  LostRows(r, ch) \in SUBSET Rows
<1>1. r.backlog \in Seq(Chunks)  BY DEF Relays
<1>2. RowsOf(r.backlog) \in SUBSET Rows  BY <1>1, RowsOfType
<1>3. ch.row \in Rows  BY DEF Chunks
<1> QED BY <1>2, <1>3 DEF LostRows

LEMMA NextChunkType == ASSUME TypeOK, NEW row \in Rows, NEW kind \in Kinds
                       PROVE  NextChunk(row, kind) \in Chunks
  BY DEF TypeOK, NextChunk, Chunks

LEMMA SyncKindType == SyncKind \in Kinds /\ KindsOf(codec) \subseteq Kinds
  BY DEF SyncKind, KindsOf, Kinds

-----------------------------------------------------------------------------
(* One chunk through the fan-out, the only step that appends to a queue.    *)

LEMMA FanoutType ==
  ASSUME TypeOK, NEW ch \in Chunks, NEW due \in SUBSET Rows,
         NEW othersAsk \in BOOLEAN, Fanout(ch, due, othersAsk),
         events' \in 0..MaxEvents
  PROVE  TypeOK'
<1>1. enc' \in [Rows -> Nat] /\ codec' \in Codecs /\ shown' \in [Rows -> Nat]
      /\ phase' \in {"member", "paused", "gone"} /\ gated' \in BOOLEAN
      /\ capture' \in {"starting", "running", "stopping"}
  BY DEF TypeOK, Fanout, Chunks
<1>2. /\ RowsOf(relay.backlog) \in SUBSET Rows
      /\ ch.row \in Rows
  BY RowsOfType DEF TypeOK, Relays, Chunks
<1>3. idrDue' \in SUBSET Rows
  BY DEF Fanout, OfferIt, FlushIt, SkipIt
<1>4. CASE OfferIt(ch, due, othersAsk)
  <2> DEFINE r == IF attached THEN relay ELSE FreshRelay
  <2>1. r \in Relays  BY FreshType DEF TypeOK
  <2>2. relay' \in Relays  BY <1>4, <2>1, OfferType DEF OfferIt
  <2>3. LostRows(r, ch) \in SUBSET Rows  BY <2>1, LostRowsType
  <2>4. stranded' \in SUBSET Rows
    BY <1>4, <2>3, <1>2 DEF OfferIt, TypeOK
  <2>5. attached' \in BOOLEAN /\ sending' \in BOOLEAN /\ lingering' \in BOOLEAN
    BY <1>4 DEF OfferIt, tasks, TypeOK
  <2> QED BY <1>1, <1>3, <2>2, <2>4, <2>5 DEF TypeOK
<1>5. CASE FlushIt(ch, due, othersAsk)
  <2>1. relay' \in Relays  BY <1>5, FlushType DEF FlushIt, TypeOK
  <2>2. stranded' \in SUBSET Rows  BY <1>5, <1>2 DEF FlushIt, TypeOK
  <2>3. attached' \in BOOLEAN /\ sending' \in BOOLEAN /\ lingering' \in BOOLEAN
    BY <1>5 DEF FlushIt, tasks, TypeOK
  <2> QED BY <1>1, <1>3, <2>1, <2>2, <2>3 DEF TypeOK
<1>6. CASE SkipIt(ch, due, othersAsk)
  <2>1. relay' \in Relays  BY <1>6, FreshType DEF SkipIt, Detach, TypeOK
  <2>2. stranded' \in SUBSET Rows  BY <1>6, <1>2 DEF SkipIt, TypeOK
  <2>3. attached' \in BOOLEAN /\ sending' \in BOOLEAN /\ lingering' \in BOOLEAN
    BY <1>6, Zenon DEF SkipIt, Detach, tasks, TypeOK
  <2> QED BY <1>1, <1>3, <2>1, <2>2, <2>3 DEF TypeOK
<1> QED BY <1>4, <1>5, <1>6 DEF Fanout

-----------------------------------------------------------------------------
LEMMA TypeInit == Init => TypeOK
<1> SUFFICES ASSUME Init PROVE TypeOK  OBVIOUS
<1>1. relay \in Relays  BY FreshType DEF Init
<1>2. enc \in [Rows -> Nat] /\ shown \in [Rows -> Nat]  BY DEF Init
<1>3. events \in 0..MaxEvents  BY EventAssumption DEF Init
<1>4. codec \in Codecs /\ idrDue \in SUBSET Rows /\ stranded \in SUBSET Rows
  BY DEF Init
<1>5. /\ attached \in BOOLEAN /\ sending \in BOOLEAN /\ lingering \in BOOLEAN
      /\ phase \in {"member", "paused", "gone"} /\ gated \in BOOLEAN
      /\ capture \in {"starting", "running", "stopping"}
  BY DEF Init
<1> QED BY <1>1, <1>2, <1>3, <1>4, <1>5 DEF TypeOK

LEMMA TypeStep == TypeOK /\ [Next]_vars => TypeOK'
<1> SUFFICES ASSUME TypeOK, [Next]_vars PROVE TypeOK'  OBVIOUS
<1> USE DEF encoder, tasks
<1>1. ASSUME NEW row \in Rows, NEW kind \in KindsOf(codec), NEW othersAsk \in BOOLEAN,
             Emit(row, kind, othersAsk)
      PROVE  TypeOK'
  <2> DEFINE ch == NextChunk(row, kind)
             due == IF kind = SyncKind THEN idrDue \ {row} ELSE idrDue
  <2>1. ch \in Chunks  BY SyncKindType, NextChunkType
  <2>2. due \in SUBSET Rows  BY DEF TypeOK
  <2>3. events' \in 0..MaxEvents  BY <1>1, EventAssumption DEF Emit, TypeOK
  <2>4. Fanout(ch, due, othersAsk)  BY <1>1 DEF Emit
  <2> QED BY <2>1, <2>2, <2>3, <2>4, FanoutType
<1>2. ASSUME NEW row \in Rows, EmitAsked(row) PROVE TypeOK'
  <2>1. NextChunk(row, SyncKind) \in Chunks  BY SyncKindType, NextChunkType
  <2>2. idrDue \ {row} \in SUBSET Rows  BY DEF TypeOK
  <2>3. events' \in 0..MaxEvents  BY <1>2, EventAssumption DEF EmitAsked, TypeOK
  <2>4. Fanout(NextChunk(row, SyncKind), idrDue \ {row}, FALSE)  BY <1>2 DEF EmitAsked
  <2> QED BY <2>1, <2>2, <2>3, <2>4, FanoutType
<1>3. CASE KeyframeRequest
  BY <1>3, EventAssumption DEF KeyframeRequest, TypeOK
<1>4. CASE FloorElapses
  <2>1. relay' \in Relays  BY <1>4 DEF FloorElapses, TypeOK, Relays
  <2> QED BY <1>4, <2>1 DEF FloorElapses, TypeOK
<1>5. CASE RunSend
  <2>1. Popped(relay) \in Relays /\ Head(relay.backlog) \in Chunks
    BY <1>5, PoppedType DEF RunSend, TypeOK
  <2>2. shown' \in [Rows -> Nat]  BY <1>5, <2>1 DEF RunSend, TypeOK, Chunks
  <2> QED BY <1>5, <2>1, <2>2 DEF RunSend, TypeOK
<1>6. CASE RunSent  BY <1>6 DEF RunSent, TypeOK
<1>7. CASE RunFail  BY <1>7, FreshType DEF RunFail, TypeOK
<1>8. CASE LingerEnds  BY <1>8 DEF LingerEnds, TypeOK
<1>9. CASE Pause \/ Vanish  BY <1>9 DEF Pause, Vanish, TypeOK
<1>10. CASE Join  BY <1>10 DEF Join, TypeOK
<1>11. CASE CaptureStops
  <2>1. lingering' \in BOOLEAN  BY <1>11, Zenon DEF CaptureStops, Detach, TypeOK
  <2>2. events' \in 0..MaxEvents  BY <1>11, EventAssumption DEF CaptureStops, TypeOK
  <2>3. idrDue' \in SUBSET Rows /\ stranded' \in SUBSET Rows
    BY <1>11 DEF CaptureStops
  <2> QED BY <1>11, <2>1, <2>2, <2>3, FreshType DEF CaptureStops, Detach, TypeOK
<1>12. CASE HandlerEnds
  <2>1. lingering' \in BOOLEAN  BY <1>12, Zenon DEF HandlerEnds, Detach, TypeOK
  <2> QED BY <1>12, <2>1, FreshType DEF HandlerEnds, Detach, TypeOK
<1>13. CASE GateClose  BY <1>13 DEF GateClose, TypeOK
<1>14. CASE GateLift
  <2>1. events' \in 0..MaxEvents  BY <1>14, EventAssumption DEF GateLift, TypeOK
  <2>2. idrDue' \in SUBSET Rows /\ stranded' \in SUBSET Rows /\ gated' \in BOOLEAN
    BY <1>14 DEF GateLift
  <2> QED BY <1>14, <2>1, <2>2 DEF GateLift, TypeOK
<1>15. CASE GateReset
  <2>1. stranded' \in SUBSET Rows  BY <1>15 DEF GateReset, Missing, TypeOK
  <2> QED BY <1>15, <2>1 DEF GateReset, TypeOK
<1>16. CASE CaptureStarted \/ CaptureStopping
  BY <1>16 DEF CaptureStarted, CaptureStopping, TypeOK
<1>17. CASE UNCHANGED vars  BY <1>17 DEF vars, TypeOK
<1> QED BY <1>1, <1>2, <1>3, <1>4, <1>5, <1>6, <1>7, <1>8, <1>9, <1>10, <1>11,
           <1>12, <1>13, <1>14, <1>15, <1>16, <1>17 DEF Next

\* Every variable of the relay pair keeps its type, whatever the rows, sizes,
\* budget and number of events of selkies.py's _VideoRelay.
THEOREM TypeCorrect == Spec => []TypeOK
<1> QED BY TypeInit, TypeStep, PTL DEF Spec

-----------------------------------------------------------------------------
(* What appending to a queue and popping its head keep.                     *)

LEMMA EmptyChained ==
  ASSUME NEW e, NEW s PROVE Chained(<<>>, {}, e, s)
  BY DEF Chained, Ordered, Linked, LiveAtTip

LEMMA AppendChained ==
  ASSUME NEW q \in Seq(Chunks), NEW live \in SUBSET Rows, NEW ch \in Chunks,
         NEW e \in [Rows -> Nat], NEW s \in [Rows -> Nat],
         \A r \in Rows : s[r] <= e[r],
         Chained(q, live, e, s),
         ch.idx = e[ch.row] + 1, ch.kind # "delta" \/ ch.row \in live,
         NEW live2 \in SUBSET Rows, live2 \subseteq live \union {ch.row}
  PROVE  Chained(Append(q, ch), live2, [e EXCEPT ![ch.row] = ch.idx], s)
<1> DEFINE n == Len(q)
           p == Append(q, ch)
           f == [e EXCEPT ![ch.row] = ch.idx]
<1>1. n \in Nat /\ DOMAIN q = 1..n /\ DOMAIN p = 1..(n + 1)
  OBVIOUS
<1>1a. \A k \in 1..n : p[k] = q[k]
  OBVIOUS
<1>1b. p[n + 1] = ch
  OBVIOUS
<1>2. ch.row \in Rows /\ ch.idx \in Nat /\ e[ch.row] \in Nat /\ s[ch.row] \in Nat
  BY DEF Chunks
<1>3. ASSUME NEW k \in 1..n PROVE q[k].row \in Rows /\ q[k].idx \in Nat
  <2>1. q[k] \in Chunks  BY <1>1
  <2> QED BY <2>1 DEF Chunks
<1>4. \A r \in Rows : f[r] = IF r = ch.row THEN e[r] + 1 ELSE e[r]  BY <1>2
<1>5. ASSUME NEW r \in Rows PROVE f[r] \in Nat /\ e[r] \in Nat /\ e[r] <= f[r]
  <2>1. e[r] \in Nat /\ f[r] = IF r = ch.row THEN e[r] + 1 ELSE e[r]  BY <1>4
  <2> QED BY <2>1
<1>6. \A k \in 1..n : q[k].row = ch.row => q[k].idx <= e[ch.row]
  BY <1>1, <1>3 DEF Chained, Ordered
<1> HIDE DEF n, p, f
<1>7. Ordered(p, f, s)
  <2>1. ASSUME NEW j \in 1..(n + 1), NEW k \in 1..(n + 1), j < k, p[j].row = p[k].row
        PROVE  p[j].idx < p[k].idx
    <3>1. j \in 1..n /\ p[j] = q[j]  BY <2>1, <1>1, <1>1a
    <3>2. CASE k \in 1..n
      <4>1. p[k] = q[k]  BY <3>2, <1>1a
      <4> QED BY <2>1, <3>1, <3>2, <4>1, <1>1 DEF Chained, Ordered
    <3>3. CASE k = n + 1
      <4>1. p[k] = ch  BY <3>3, <1>1b
      <4> QED BY <2>1, <3>1, <4>1, <1>3, <1>6, <1>2
    <3> QED BY <3>2, <3>3, <1>1
  <2>2. ASSUME NEW k \in 1..(n + 1)
        PROVE  s[p[k].row] < p[k].idx /\ p[k].idx <= f[p[k].row]
    <3>1. CASE k \in 1..n
      <4>1. p[k] = q[k] /\ q[k].row \in Rows /\ q[k].idx \in Nat  BY <3>1, <1>1a, <1>3
      <4>2. s[q[k].row] < q[k].idx /\ q[k].idx <= e[q[k].row]
        BY <3>1, <1>1 DEF Chained, Ordered
      <4>3. f[q[k].row] \in Nat /\ e[q[k].row] \in Nat /\ e[q[k].row] <= f[q[k].row]
        BY <4>1, <1>4, <1>5
      <4> QED BY <4>1, <4>2, <4>3
    <3>2. CASE k = n + 1
      <4>1. p[k] = ch  BY <3>2, <1>1b
      <4>2. f[ch.row] = e[ch.row] + 1  BY <1>2, <1>4
      <4>3. s[ch.row] <= e[ch.row]  BY <1>2
      <4> QED BY <4>1, <4>2, <4>3, <1>2
    <3> QED BY <3>1, <3>2, <1>1
  <2> QED BY <2>1, <2>2, <1>1 DEF Ordered
<1>8. Linked(p, s)
  <2> SUFFICES ASSUME NEW k \in 1..(n + 1), p[k].kind = "delta"
               PROVE  \/ s[p[k].row] = p[k].idx - 1
                      \/ \E j \in 1..(n + 1) : /\ j < k
                                               /\ p[j].row = p[k].row
                                               /\ p[j].idx = p[k].idx - 1
    BY <1>1 DEF Linked
  <2>1. CASE k \in 1..n
    <3>1. p[k] = q[k]  BY <2>1, <1>1a
    <3>2. CASE s[q[k].row] = q[k].idx - 1  BY <3>1, <3>2
    <3>3. CASE \E j \in 1..n : j < k /\ q[j].row = q[k].row /\ q[j].idx = q[k].idx - 1
      <4>1. PICK j \in 1..n : j < k /\ q[j].row = q[k].row /\ q[j].idx = q[k].idx - 1
        BY <3>3
      <4>2. p[j] = q[j] /\ j \in 1..(n + 1)  BY <1>1, <1>1a
      <4> QED BY <3>1, <4>1, <4>2
    <3> QED BY <3>1, <3>2, <3>3, <2>1, <1>1 DEF Chained, Linked
  <2>2. CASE k = n + 1
    <3>1. p[k] = ch  BY <2>2, <1>1b
    <3>2. ch.row \in live /\ ch.idx - 1 = e[ch.row]
      <4>1. ch.kind = "delta"  BY <3>1
      <4>2. ch.row \in live  BY <4>1
      <4>3. ch.idx - 1 = e[ch.row]  BY <1>2
      <4> QED BY <4>2, <4>3
    <3>3. CASE s[ch.row] = e[ch.row]  BY <3>1, <3>2, <3>3
    <3>4. CASE \E j \in 1..n : q[j].row = ch.row /\ q[j].idx = e[ch.row]
      <4>1. PICK j \in 1..n : q[j].row = ch.row /\ q[j].idx = e[ch.row]  BY <3>4
      <4>2. p[j] = q[j] /\ j \in 1..(n + 1) /\ j < k  BY <2>2, <1>1, <1>1a
      <4> QED BY <3>1, <3>2, <4>1, <4>2
    <3> QED BY <3>2, <3>3, <3>4, <1>1 DEF Chained, LiveAtTip
  <2> QED BY <2>1, <2>2, <1>1
<1>9. LiveAtTip(p, live2, f, s)
  <2> SUFFICES ASSUME NEW r \in live2
               PROVE  s[r] = f[r] \/ \E j \in 1..(n + 1) : p[j].row = r /\ p[j].idx = f[r]
    BY <1>1 DEF LiveAtTip
  <2>1. CASE r = ch.row
    <3>1. n + 1 \in 1..(n + 1)  BY <1>1
    <3>2. p[n + 1].idx = f[r]  BY <2>1, <1>1b, <1>2, <1>4
    <3> QED BY <2>1, <3>1, <3>2, <1>1b
  <2>2. CASE r # ch.row
    <3>1. r \in live /\ f[r] = e[r]  BY <2>2, <1>4
    <3>2. CASE s[r] = e[r]  BY <3>1, <3>2
    <3>3. CASE \E j \in 1..n : q[j].row = r /\ q[j].idx = e[r]
      <4>1. PICK j \in 1..n : q[j].row = r /\ q[j].idx = e[r]  BY <3>3
      <4>2. p[j] = q[j] /\ j \in 1..(n + 1)  BY <1>1, <1>1a
      <4> QED BY <3>1, <4>1, <4>2
    <3> QED BY <3>1, <3>2, <3>3, <1>1 DEF Chained, LiveAtTip
  <2> QED BY <2>1, <2>2
<1> QED BY <1>7, <1>8, <1>9 DEF Chained, p, f

\* A chunk that is not queued leaves a queue in which its row is not live.
LEMMA AdvanceChained ==
  ASSUME NEW q \in Seq(Chunks), NEW live \in SUBSET Rows, NEW ch \in Chunks,
         NEW e \in [Rows -> Nat], NEW s \in [Rows -> Nat],
         Chained(q, live, e, s), ch.idx = e[ch.row] + 1, ch.row \notin live
  PROVE  Chained(q, live, [e EXCEPT ![ch.row] = ch.idx], s)
<1> DEFINE f == [e EXCEPT ![ch.row] = ch.idx]
<1>1. \A r \in Rows : f[r] = IF r = ch.row THEN e[r] + 1 ELSE e[r]  BY DEF Chunks
<1>2. ASSUME NEW r \in Rows PROVE f[r] \in Nat /\ e[r] \in Nat /\ e[r] <= f[r]
  <2>1. e[r] \in Nat /\ f[r] = IF r = ch.row THEN e[r] + 1 ELSE e[r]  BY <1>1
  <2> QED BY <2>1
<1> HIDE DEF f
<1>3. Ordered(q, f, s)
  <2>1. ASSUME NEW k \in DOMAIN q PROVE s[q[k].row] < q[k].idx /\ q[k].idx <= f[q[k].row]
    <3>1. q[k] \in Chunks  OBVIOUS
    <3>2. q[k].row \in Rows /\ q[k].idx \in Nat  BY <3>1 DEF Chunks
    <3>3. s[q[k].row] < q[k].idx /\ q[k].idx <= e[q[k].row]  BY DEF Chained, Ordered
    <3> QED BY <3>2, <3>3, <1>2
  <2> QED BY <2>1 DEF Chained, Ordered
<1>4. LiveAtTip(q, live, f, s)
  <2>1. \A r \in live : f[r] = e[r]  BY <1>1
  <2> QED BY <2>1 DEF Chained, LiveAtTip
<1> QED BY <1>3, <1>4 DEF Chained, f

\* Sending the head of the queue.
LEMMA PopChained ==
  ASSUME NEW q \in Seq(Chunks), q # <<>>, NEW live \in SUBSET Rows,
         NEW e \in [Rows -> Nat], NEW s \in [Rows -> Nat],
         Chained(q, live, e, s)
  PROVE  Chained(Tail(q), live, e, [s EXCEPT ![Head(q).row] = Head(q).idx])
<1> DEFINE n == Len(q)
           p == Tail(q)
           h == Head(q)
           t == [s EXCEPT ![h.row] = h.idx]
<1>1. n \in Nat /\ n >= 1 /\ DOMAIN q = 1..n /\ DOMAIN p = 1..(n - 1)
  OBVIOUS
<1>2. \A k \in 1..(n - 1) : p[k] = q[k + 1] /\ k + 1 \in 1..n
  OBVIOUS
<1>3. h = q[1] /\ 1 \in 1..n /\ h \in Chunks
  OBVIOUS
<1>4. h.row \in Rows /\ h.idx \in Nat  BY <1>3 DEF Chunks
<1>5. ASSUME NEW k \in 1..n PROVE q[k].row \in Rows /\ q[k].idx \in Nat
  <2>1. q[k] \in Chunks  BY <1>1
  <2> QED BY <2>1 DEF Chunks
<1>6. \A r \in Rows : t[r] = IF r = h.row THEN h.idx ELSE s[r]  BY <1>4
<1>7. \A j, k \in 1..n : j < k /\ q[j].row = q[k].row => q[j].idx < q[k].idx
  BY <1>1 DEF Chained, Ordered
<1>8. \A k \in 1..n : s[q[k].row] < q[k].idx /\ q[k].idx <= e[q[k].row]
  BY <1>1 DEF Chained, Ordered
<1> HIDE DEF n, p, h, t
<1>9. Ordered(p, e, t)
  <2>1. ASSUME NEW j \in 1..(n - 1), NEW k \in 1..(n - 1), j < k, p[j].row = p[k].row
        PROVE  p[j].idx < p[k].idx
    <3>1. j + 1 \in 1..n /\ k + 1 \in 1..n /\ j + 1 < k + 1  BY <2>1, <1>1
    <3> QED BY <2>1, <3>1, <1>2, <1>7
  <2>2. ASSUME NEW k \in 1..(n - 1) PROVE t[p[k].row] < p[k].idx /\ p[k].idx <= e[p[k].row]
    <3>1. k + 1 \in 1..n /\ 1 < k + 1 /\ p[k] = q[k + 1]  BY <1>1, <1>2
    <3>2. q[k + 1].row \in Rows  BY <3>1, <1>5
    <3>3. q[k + 1].idx <= e[q[k + 1].row] /\ s[q[k + 1].row] < q[k + 1].idx
      BY <3>1, <1>8
    <3>4. t[q[k + 1].row] < q[k + 1].idx
      <4>1. CASE q[k + 1].row = h.row
        <5>1. q[1].idx < q[k + 1].idx  BY <4>1, <3>1, <1>3, <1>7
        <5> QED BY <5>1, <4>1, <1>3, <1>4, <1>6
      <4>2. CASE q[k + 1].row # h.row  BY <4>2, <3>2, <3>3, <1>6
      <4> QED BY <4>1, <4>2
    <3> QED BY <3>1, <3>3, <3>4
  <2> QED BY <2>1, <2>2, <1>1 DEF Ordered
<1>10. Linked(p, t)
  <2> SUFFICES ASSUME NEW k \in 1..(n - 1), p[k].kind = "delta"
               PROVE  \/ t[p[k].row] = p[k].idx - 1
                      \/ \E j \in 1..(n - 1) : /\ j < k
                                               /\ p[j].row = p[k].row
                                               /\ p[j].idx = p[k].idx - 1
    BY <1>1 DEF Linked
  <2>1. k + 1 \in 1..n /\ p[k] = q[k + 1] /\ 1 < k + 1  BY <1>1, <1>2
  <2>2. q[k + 1].row \in Rows /\ q[k + 1].idx \in Nat  BY <2>1, <1>5
  <2>3. CASE s[q[k + 1].row] = q[k + 1].idx - 1
    <3>1. q[k + 1].row # h.row
      <4> SUFFICES ASSUME q[k + 1].row = h.row PROVE FALSE  OBVIOUS
      <4>1. q[1].idx < q[k + 1].idx  BY <2>1, <1>3, <1>7
      <4>2. s[h.row] < q[1].idx  BY <1>3, <1>8
      <4>3. q[1].idx \in Nat /\ s[h.row] \in Nat  BY <1>3, <1>4, <1>5
      <4> QED BY <4>1, <4>2, <4>3, <2>2, <2>3
    <3> QED BY <3>1, <2>1, <2>2, <2>3, <1>6
  <2>4. CASE \E j \in 1..n : /\ j < k + 1
                            /\ q[j].row = q[k + 1].row
                            /\ q[j].idx = q[k + 1].idx - 1
    <3>1. PICK j \in 1..n : /\ j < k + 1
                            /\ q[j].row = q[k + 1].row
                            /\ q[j].idx = q[k + 1].idx - 1
      BY <2>4
    <3>2. CASE j = 1  BY <3>1, <3>2, <2>1, <2>2, <1>3, <1>6
    <3>3. CASE j # 1
      <4>1. j - 1 \in 1..(n - 1) /\ j - 1 < k /\ (j - 1) + 1 = j  BY <3>1, <3>3, <1>1
      <4>2. p[j - 1] = q[j]  BY <4>1, <1>2
      <4> QED BY <3>1, <4>1, <4>2, <2>1
    <3> QED BY <3>2, <3>3
  <2> QED BY <2>1, <2>3, <2>4, <1>1 DEF Chained, Linked
<1>11. LiveAtTip(p, live, e, t)
  <2> SUFFICES ASSUME NEW r \in live
               PROVE  t[r] = e[r] \/ \E j \in 1..(n - 1) : p[j].row = r /\ p[j].idx = e[r]
    BY <1>1 DEF LiveAtTip
  <2>1. CASE s[r] = e[r]
    <3>1. r # h.row
      <4> SUFFICES ASSUME r = h.row PROVE FALSE  OBVIOUS
      <4>1. s[h.row] < h.idx /\ h.idx <= e[h.row]  BY <1>3, <1>8
      <4> QED BY <4>1, <2>1, <1>4
    <3> QED BY <3>1, <2>1, <1>6
  <2>2. CASE \E j \in 1..n : q[j].row = r /\ q[j].idx = e[r]
    <3>1. PICK j \in 1..n : q[j].row = r /\ q[j].idx = e[r]  BY <2>2
    <3>2. CASE j = 1  BY <3>1, <3>2, <1>3, <1>6
    <3>3. CASE j # 1
      <4>1. j - 1 \in 1..(n - 1) /\ (j - 1) + 1 = j  BY <3>1, <3>3, <1>1
      <4>2. p[j - 1] = q[j]  BY <4>1, <1>2
      <4> QED BY <3>1, <4>1, <4>2
    <3> QED BY <3>2, <3>3
  <2> QED BY <2>1, <2>2, <1>1 DEF Chained, LiveAtTip
<1> QED BY <1>9, <1>10, <1>11 DEF Chained, p, t, h

-----------------------------------------------------------------------------
(* The steps.                                                               *)

LEMMA ChainInit == Init => IInv
<1> SUFFICES ASSUME Init PROVE IInv  OBVIOUS
<1>1. TypeOK  BY TypeInit
<1>2. relay.backlog = <<>> /\ relay.live = {}  BY DEF Init, FreshRelay
<1>3. Chained(relay.backlog, TipLive, enc, shown)  BY <1>2, EmptyChained DEF TipLive
<1>4. ShownBelow /\ Detached  BY DEF Init, ShownBelow, Detached
<1> QED BY <1>1, <1>3, <1>4 DEF IInv, ChainInv

\* Whatever the fan-out does with a chunk, the queue stays chained.
LEMMA FanoutChain ==
  ASSUME IInv, NEW ch \in Chunks, ch.idx = enc[ch.row] + 1, NEW due, NEW othersAsk,
         Fanout(ch, due, othersAsk)
  PROVE  ChainInv'
<1>1. /\ enc' = [enc EXCEPT ![ch.row] = ch.idx] /\ shown' = shown
      /\ enc \in [Rows -> Nat] /\ shown \in [Rows -> Nat] /\ relay \in Relays
      /\ Chained(relay.backlog, TipLive, enc, shown) /\ phase' = phase
      /\ \A r \in Rows : shown[r] <= enc[r]
  BY DEF IInv, TypeOK, ChainInv, ShownBelow, Fanout
<1>2. ShownBelow'
  <2>1. ASSUME NEW r \in Rows PROVE shown[r] <= enc'[r]
    <3>1. enc[r] \in Nat /\ shown[r] \in Nat /\ shown[r] <= enc[r]  BY <1>1
    <3>2. enc'[r] = enc[r] \/ enc'[r] = enc[r] + 1  BY <1>1
    <3> QED BY <3>1, <3>2
  <2> QED BY <2>1, <1>1 DEF ShownBelow
<1>3. CASE OfferIt(ch, due, othersAsk)
  <2> DEFINE r == IF attached THEN relay ELSE FreshRelay
             r1 == AfterOverflow(r, ch)
  <2>1. r \in Relays /\ r1 \in Relays  BY <1>1, FreshType, OverflowType
  <2>2. r1.backlog \in Seq(Chunks) /\ r1.live \in SUBSET Rows  BY <2>1 DEF Relays
  <2>3. Chained(r.backlog, r.live, enc, shown) /\ TipLive' = relay'.live
    BY <1>1, <1>3, EmptyChained DEF FreshRelay, TipLive, OfferIt
  <2>4. Chained(r1.backlog, r1.live, enc, shown)
    BY <2>3, EmptyChained DEF AfterOverflow, Cleared
  <2>5. relay' = offer(r, ch) /\ attached' = TRUE  BY <1>3 DEF OfferIt
  <2>6. ch.row \in Rows  BY DEF Chunks
  <2>7. CASE Gated(r, ch)
    <3>1. ch.kind = "delta" /\ ch.row \notin r1.live  BY <2>7 DEF Gated
    <3>2. relay'.backlog = r1.backlog /\ relay'.live = r1.live
      BY <2>5, <2>7, <3>1 DEF offer
    <3> HIDE DEF r1
    <3>3. Chained(r1.backlog, r1.live, enc', shown)
      BY <1>1, <2>2, <2>4, <3>1, AdvanceChained
    <3> QED BY <1>1, <1>2, <2>3, <2>5, <3>2, <3>3 DEF ChainInv, Detached
  <2>8. CASE ~Gated(r, ch)
    <3>1. ch.kind # "delta" \/ ch.row \in r1.live  BY <2>8 DEF Gated
    <3>2. /\ relay'.backlog = Append(r1.backlog, ch)
          /\ relay'.live = IF ch.kind = "idr" THEN r1.live \union {ch.row} ELSE r1.live
      BY <2>5, <2>8 DEF offer
    <3> HIDE DEF r1
    <3>3. relay'.live \in SUBSET Rows /\ relay'.live \subseteq r1.live \union {ch.row}
      BY <2>2, <2>6, <3>2
    <3>4. Chained(Append(r1.backlog, ch), relay'.live, enc', shown)
      BY <1>1, <2>2, <2>4, <3>1, <3>3, AppendChained
    <3> QED BY <1>1, <1>2, <2>3, <2>5, <3>2, <3>4 DEF ChainInv, Detached
  <2> QED BY <2>7, <2>8
<1>4. ASSUME relay'.backlog = <<>>, relay'.live = {}, Detached' PROVE ChainInv'
  BY <1>1, <1>2, <1>4, EmptyChained DEF ChainInv, TipLive
<1>5. CASE FlushIt(ch, due, othersAsk)
  <2>1. relay'.backlog = <<>> /\ relay'.live = {}
    BY <1>5 DEF FlushIt, flush_for_gate, Cleared, IInv, ChainInv, Detached, FreshRelay
  <2>2. Detached'
    BY <1>5 DEF FlushIt, IInv, ChainInv, Detached
  <2> QED BY <2>1, <2>2, <1>4
<1>6. CASE SkipIt(ch, due, othersAsk)
  <2>1. CASE Detach
    BY <2>1, <1>4 DEF Detach, Detached, FreshRelay
  <2>2. CASE phase = "gone" /\ relay' = relay /\ attached' = attached
    <3>1. Chained(relay.backlog, {}, enc, shown)  BY <1>1, <2>2 DEF TipLive
    <3>2. relay.backlog \in Seq(Chunks)  BY <1>1 DEF Relays
    <3>3. Chained(relay.backlog, {}, enc', shown)
      BY <1>1, <3>1, <3>2, AdvanceChained
    <3> QED BY <1>1, <1>2, <2>2, <3>3 DEF ChainInv, TipLive, Detached, IInv
  <2> QED BY <1>6, <2>1, <2>2 DEF SkipIt
<1> QED BY <1>3, <1>5, <1>6 DEF Fanout

LEMMA ChainStep == IInv /\ [Next]_vars => IInv'
<1> SUFFICES ASSUME IInv, [Next]_vars PROVE ChainInv'
  BY TypeStep DEF IInv
<1> USE DEF encoder, tasks
<1>1. ASSUME NEW row \in Rows, NEW kind \in KindsOf(codec), NEW othersAsk \in BOOLEAN,
             Emit(row, kind, othersAsk)
      PROVE  ChainInv'
  <2>1. NextChunk(row, kind) \in Chunks /\ NextChunk(row, kind).row = row
        /\ NextChunk(row, kind).idx = enc[row] + 1
    BY SyncKindType, NextChunkType DEF NextChunk, IInv
  <2> QED BY <1>1, <2>1, FanoutChain DEF Emit
<1>2. ASSUME NEW row \in Rows, EmitAsked(row) PROVE ChainInv'
  <2>1. NextChunk(row, SyncKind) \in Chunks /\ NextChunk(row, SyncKind).row = row
        /\ NextChunk(row, SyncKind).idx = enc[row] + 1
    BY SyncKindType, NextChunkType DEF NextChunk, IInv
  <2> QED BY <1>2, <2>1, FanoutChain DEF EmitAsked
\* A step that leaves queue, live rows, encoder and socket alone, and does not
\* bring back a client that was gone.
<1>3. ASSUME relay' = relay, attached' = attached, enc' = enc, shown' = shown,
             phase = "gone" => phase' = "gone"
      PROVE  ChainInv'
  <2>1. CASE TipLive' = TipLive
    BY <1>3, <2>1 DEF IInv, ChainInv, ShownBelow, Detached
  <2>2. CASE TipLive' = {}
    BY <1>3, <2>2 DEF IInv, ChainInv, ShownBelow, Detached, Chained, LiveAtTip
  <2> QED BY <1>3, <2>1, <2>2 DEF TipLive
\* A step that takes the relay away.
<1>4. ASSUME relay' = FreshRelay, enc' = enc, shown' = shown PROVE ChainInv'
  BY <1>4, EmptyChained DEF IInv, ChainInv, TipLive, ShownBelow, Detached, FreshRelay
<1>5. CASE FloorElapses
  <2>1. relay'.backlog = relay.backlog /\ relay'.live = relay.live
    BY <1>5 DEF FloorElapses, IInv, TypeOK, Relays
  <2>2. attached
    BY <1>5 DEF FloorElapses, IInv, ChainInv, Detached, FreshRelay
  <2> QED BY <1>5, <2>1, <2>2 DEF FloorElapses, IInv, ChainInv, TipLive, ShownBelow, Detached
<1>6. CASE RunSend
  <2> DEFINE h == Head(relay.backlog)
  <2>1. /\ relay \in Relays /\ relay.backlog \in Seq(Chunks) /\ relay.backlog # <<>>
        /\ TipLive \in SUBSET Rows /\ attached
        /\ enc \in [Rows -> Nat] /\ shown \in [Rows -> Nat]
        /\ Chained(relay.backlog, TipLive, enc, shown)
    BY <1>6 DEF RunSend, IInv, TypeOK, ChainInv, TipLive, Relays
  <2>2. /\ relay' = Popped(relay) /\ enc' = enc /\ attached' = attached
        /\ shown' = [shown EXCEPT ![h.row] = h.idx]
    BY <1>6 DEF RunSend
  <2>3. relay'.backlog = Tail(relay.backlog) /\ TipLive' = TipLive
    BY <1>6, <2>2 DEF RunSend, Popped, TipLive
  <2>4. Chained(relay'.backlog, TipLive', enc', shown')
    <3>1. Chained(Tail(relay.backlog), TipLive, enc, [shown EXCEPT ![h.row] = h.idx])
      BY <2>1, PopChained
    <3> QED BY <3>1, <2>2, <2>3
  <2>5. h \in Chunks /\ h.idx <= enc[h.row]
    <3>1. 1 \in DOMAIN relay.backlog /\ h = relay.backlog[1] /\ h \in Chunks  BY <2>1
    <3> QED BY <3>1, <2>1 DEF Chained, Ordered
  <2>6. ShownBelow'
    BY <2>1, <2>2, <2>5 DEF ShownBelow, IInv, ChainInv, Chunks
  <2> QED BY <2>1, <2>2, <2>4, <2>6 DEF ChainInv, Detached
<1>7. CASE KeyframeRequest  BY <1>7, <1>3 DEF KeyframeRequest
<1>8. CASE RunSent  BY <1>8, <1>3 DEF RunSent
<1>9. CASE RunFail  BY <1>9, <1>4 DEF RunFail
<1>10. CASE LingerEnds  BY <1>10, <1>3 DEF LingerEnds
<1>11. CASE Pause \/ Vanish  BY <1>11, <1>3 DEF Pause, Vanish
<1>12. CASE Join  BY <1>12, <1>3 DEF Join
<1>13. CASE CaptureStops  BY <1>13, <1>4 DEF CaptureStops, Detach
<1>14. CASE HandlerEnds  BY <1>14, <1>4 DEF HandlerEnds, Detach
<1>15. CASE GateClose  BY <1>15, <1>3 DEF GateClose
<1>16. CASE GateLift  BY <1>16, <1>3 DEF GateLift
<1>17. CASE GateReset  BY <1>17, <1>3 DEF GateReset
<1>18. CASE CaptureStarted \/ CaptureStopping
  BY <1>18, <1>3 DEF CaptureStarted, CaptureStopping
<1>19. CASE UNCHANGED vars  BY <1>19, <1>3 DEF vars
<1> QED BY <1>1, <1>2, <1>5, <1>6, <1>7, <1>8, <1>9, <1>10, <1>11, <1>12, <1>13,
           <1>14, <1>15, <1>16, <1>17, <1>18, <1>19 DEF Next

\* The head of a chained queue has nothing in front of it.
LEMMA ChainHolds == IInv => ChainSafe
<1> SUFFICES ASSUME IInv, relay.backlog # <<>>, Head(relay.backlog).kind = "delta"
             PROVE  shown[Head(relay.backlog).row] = Head(relay.backlog).idx - 1
  BY DEF ChainSafe
<1>1. relay.backlog \in Seq(Chunks)  BY DEF IInv, TypeOK, Relays
<1>2. Head(relay.backlog) = relay.backlog[1] /\ 1 \in DOMAIN relay.backlog
      /\ ~\E j \in DOMAIN relay.backlog : j < 1
  BY <1>1
<1> QED BY <1>2 DEF IInv, ChainInv, Chained, Linked

\* H.264 chain safety of the documentation of _VideoRelay: a delta is never
\* sent unless the chunk it decodes against was the last of its row on that
\* socket, for every number of rows, chunk size and budget.
THEOREM ChainSafety == Spec => []ChainSafe
BY ChainHolds, ChainInit, ChainStep, PTL DEF Spec
-----------------------------------------------------------------------------
(* The bytes of a backlog.  PrefixBytes is a recursive function of the      *)
(* place in the queue: it is what any function with its recursion counts.   *)

LEMMA SizesCount == ASSUME NEW q \in Seq(Chunks), NEW n \in 1 .. Len(q)
                    PROVE  Size[q[n].kind] \in Nat
<1>1. q[n] \in Chunks  OBVIOUS
<1>2. q[n].kind \in Kinds  BY <1>1 DEF Chunks
<1> QED BY <1>2, SizeAssumption

LEMMA PrefixCounted ==
  ASSUME NEW q \in Seq(Chunks), NEW b \in 0 .. Len(q), NEW f, f[0] = 0,
         \A n \in 1 .. b : f[n] = f[n - 1] + Size[q[n].kind]
  PROVE  PrefixBytes(q, b) = f[b]
<1> DEFINE sum == CHOOSE g : g = [k \in 0 .. b |->
                                    IF k = 0 THEN 0 ELSE g[k - 1] + Size[q[k].kind]]
           h == [k \in 0 .. b |-> f[k]]
<1>0. b \in Nat  OBVIOUS
<1>1. h = [k \in 0 .. b |-> IF k = 0 THEN 0 ELSE h[k - 1] + Size[q[k].kind]]
  <2> SUFFICES ASSUME NEW k \in 0 .. b
               PROVE  f[k] = IF k = 0 THEN 0 ELSE h[k - 1] + Size[q[k].kind]
    OBVIOUS
  <2>1. k # 0 => k \in 1 .. b /\ k - 1 \in 0 .. b  BY <1>0
  <2> QED BY <2>1
<1>2. sum = [k \in 0 .. b |-> IF k = 0 THEN 0 ELSE sum[k - 1] + Size[q[k].kind]]
  <2> HIDE DEF h
  <2> QED BY <1>1
<1>3. PrefixBytes(q, b) = sum[b]  BY DEF PrefixBytes
<1> HIDE DEF sum
<1> DEFINE H == {k \in 0 .. b : sum[k] = f[k]}
<1>4. 0 \in H  BY <1>0, <1>2
<1>5. ASSUME NEW k \in 1 .. b, k - 1 \in H PROVE k \in H
  <2>1. k \in 0 .. b /\ k # 0 /\ sum[k - 1] = f[k - 1]  BY <1>0, <1>5
  <2>2. sum[k] = sum[k - 1] + Size[q[k].kind]  BY <1>2, <2>1
  <2> QED BY <2>1, <2>2
<1>6. H \in SUBSET Nat  OBVIOUS
<1>7. 0 .. b \subseteq H
  <2> HIDE DEF H
  <2> QED BY <1>0, <1>4, <1>5, <1>6, UpTo
<1>8. b \in H  BY <1>0, <1>7
<1> QED BY <1>3, <1>8

LEMMA PrefixSums ==
  ASSUME NEW q \in Seq(Chunks)
  PROVE  /\ PrefixBytes(q, 0) = 0
         /\ \A n \in 0 .. Len(q) : PrefixBytes(q, n) \in Nat
         /\ \A n \in 1 .. Len(q) :
              PrefixBytes(q, n) = PrefixBytes(q, n - 1) + Size[q[n].kind]
<1> DEFINE counts(b, f) == f[0] = 0 /\ \A n \in 1 .. b : f[n] = f[n - 1] + Size[q[n].kind]
           H == {b \in 0 .. Len(q) : \E f \in [0 .. b -> Nat] : counts(b, f)}
<1>0. Len(q) \in Nat  OBVIOUS
<1>1. 0 \in H
  <2> DEFINE f == [k \in 0 .. 0 |-> 0]
  <2>1. f \in [0 .. 0 -> Nat] /\ f[0] = 0  OBVIOUS
  <2> HIDE DEF f
  <2>2. counts(0, f)  BY <2>1
  <2>3. 0 \in 0 .. Len(q)  BY <1>0
  <2> HIDE DEF counts
  <2> QED BY <2>1, <2>2, <2>3
<1>2. ASSUME NEW b \in 1 .. Len(q), b - 1 \in H PROVE b \in H
  <2>1. PICK f \in [0 .. b - 1 -> Nat] : counts(b - 1, f)  BY <1>2
  <2> DEFINE g == [k \in 0 .. b |-> IF k < b THEN f[k] ELSE f[b - 1] + Size[q[b].kind]]
  <2>2. Size[q[b].kind] \in Nat /\ b - 1 \in 0 .. b - 1 /\ b \in Nat
    BY <1>0, SizesCount
  <2>3. g \in [0 .. b -> Nat]
    <3> SUFFICES ASSUME NEW k \in 0 .. b
                 PROVE  (IF k < b THEN f[k] ELSE f[b - 1] + Size[q[b].kind]) \in Nat
      OBVIOUS
    <3>1. k < b => k \in 0 .. b - 1  BY <2>2
    <3> QED BY <2>2, <3>1
  <2>4. ASSUME NEW n \in 1 .. b PROVE g[n] = g[n - 1] + Size[q[n].kind]
    <3>1. n \in 0 .. b /\ n - 1 \in 0 .. b /\ n - 1 < b  BY <2>2
    <3>2. CASE n = b  BY <3>1, <3>2
    <3>3. CASE n # b
      <4>1. n < b /\ n \in 1 .. b - 1  BY <2>2, <3>3
      <4> QED BY <2>1, <3>1, <4>1
    <3> QED BY <3>2, <3>3
  <2>5. g[0] = 0  BY <2>1, <2>2
  <2> HIDE DEF g
  <2>6. counts(b, g)  BY <2>4, <2>5
  <2>7. b \in 0 .. Len(q)  BY <1>0
  <2> HIDE DEF counts
  <2> QED BY <2>3, <2>6, <2>7
<1>3. PICK f \in [0 .. Len(q) -> Nat] : counts(Len(q), f)
  <2>1. H \in SUBSET Nat  OBVIOUS
  <2>2. 0 .. Len(q) \subseteq H
    <3> HIDE DEF H
    <3> QED BY <1>0, <1>1, <1>2, <2>1, UpTo
  <2>3. Len(q) \in H
    <3> HIDE DEF H
    <3> QED BY <1>0, <2>2
  <2> QED BY <2>3
<1>4. ASSUME NEW n \in 0 .. Len(q) PROVE PrefixBytes(q, n) = f[n]
  <2>1. \A k \in 1 .. n : k \in 1 .. Len(q)  BY <1>0
  <2> QED BY <1>3, <2>1, PrefixCounted
<1>5. \A n \in 1 .. Len(q) : n \in 0 .. Len(q) /\ n - 1 \in 0 .. Len(q)  BY <1>0
<1>6. 0 \in 0 .. Len(q)  BY <1>0
<1> QED BY <1>3, <1>4, <1>5, <1>6

\* Appending a chunk leaves the bytes in front of it as they are.
LEMMA PrefixOfAppend ==
  ASSUME NEW q \in Seq(Chunks), NEW ch \in Chunks
  PROVE  /\ \A n \in 0 .. Len(q) : PrefixBytes(Append(q, ch), n) = PrefixBytes(q, n)
         /\ PrefixBytes(Append(q, ch), Len(q) + 1)
              = PrefixBytes(q, Len(q)) + Size[ch.kind]
<1> DEFINE p == Append(q, ch)
           f == [n \in 0 .. Len(q) |-> PrefixBytes(q, n)]
<1>1. p \in Seq(Chunks) /\ Len(p) = Len(q) + 1 /\ Len(q) \in Nat /\ p[Len(q) + 1] = ch
      /\ \A n \in 1 .. Len(q) : p[n] = q[n]
  OBVIOUS
<1> HIDE DEF p
<1>2. ASSUME NEW b \in 0 .. Len(q) PROVE PrefixBytes(p, b) = PrefixBytes(q, b)
  <2>1. f[0] = 0 /\ b \in 0 .. Len(p)  BY <1>1, PrefixSums
  <2>2. ASSUME NEW n \in 1 .. b PROVE f[n] = f[n - 1] + Size[p[n].kind]
    <3>1. n \in 1 .. Len(q) /\ n \in 0 .. Len(q) /\ n - 1 \in 0 .. Len(q)  BY <1>1
    <3> QED BY <1>1, <3>1, PrefixSums
  <2>3. f[b] = PrefixBytes(q, b)  OBVIOUS
  <2> HIDE DEF f
  <2> QED BY <1>1, <2>1, <2>2, <2>3, PrefixCounted
<1>3. Len(q) + 1 \in 1 .. Len(p) /\ (Len(q) + 1) - 1 = Len(q) /\ Len(q) \in 0 .. Len(q)
  BY <1>1
<1>4. PrefixBytes(p, Len(q) + 1) = PrefixBytes(p, Len(q)) + Size[ch.kind]
  BY <1>1, <1>3, PrefixSums
<1> QED BY <1>2, <1>3, <1>4 DEF p

\* Sending the head takes its bytes off every place behind it.
LEMMA PrefixOfTail ==
  ASSUME NEW q \in Seq(Chunks), q # <<>>, NEW n \in 0 .. (Len(q) - 1)
  PROVE  PrefixBytes(Tail(q), n) = PrefixBytes(q, n + 1) - Size[Head(q).kind]
<1> DEFINE p == Tail(q)
           f == [k \in 0 .. (Len(q) - 1) |-> PrefixBytes(q, k + 1) - Size[Head(q).kind]]
<1>1. p \in Seq(Chunks) /\ Len(p) = Len(q) - 1 /\ Len(q) \in Nat \ {0} /\ Head(q) = q[1]
      /\ \A k \in 1 .. Len(p) : p[k] = q[k + 1]
  OBVIOUS
<1> HIDE DEF p
<1>2. PrefixBytes(q, 1) = Size[Head(q).kind] /\ Size[Head(q).kind] \in Nat
  <2>1. 1 \in 1 .. Len(q) /\ 1 - 1 = 0  BY <1>1
  <2>2. Size[q[1].kind] \in Nat  BY <2>1, SizesCount
  <2> QED BY <1>1, <2>1, <2>2, PrefixSums, SMTT(30)
<1>3. f[0] = 0
  <2>1. 0 \in 0 .. (Len(q) - 1) /\ 0 + 1 = 1  BY <1>1
  <2>2. f[0] = PrefixBytes(q, 0 + 1) - Size[Head(q).kind]  BY <2>1
  <2> QED BY <1>2, <2>1, <2>2
<1>4. ASSUME NEW k \in 1 .. n PROVE f[k] = f[k - 1] + Size[p[k].kind]
  <2>1. k \in 0 .. (Len(q) - 1) /\ k - 1 \in 0 .. (Len(q) - 1) /\ (k - 1) + 1 = k
        /\ k + 1 \in 1 .. Len(q) /\ k \in 1 .. Len(p) /\ (k + 1) - 1 = k
        /\ k + 1 \in 0 .. Len(q) /\ k \in 0 .. Len(q)
    BY <1>1
  <2>2. PrefixBytes(q, k + 1) = PrefixBytes(q, k) + Size[q[k + 1].kind]
        /\ PrefixBytes(q, k) \in Nat /\ Size[q[k + 1].kind] \in Nat
    BY <2>1, PrefixSums, SizesCount
  <2>3. f[k] = PrefixBytes(q, k + 1) - Size[Head(q).kind]  BY <2>1
  <2>4. f[k - 1] = PrefixBytes(q, k) - Size[Head(q).kind]  BY <2>1
  <2>5. p[k] = q[k + 1]  BY <1>1, <2>1
  <2> HIDE DEF f
  <2> QED BY <1>2, <2>2, <2>3, <2>4, <2>5
<1>5. f[n] = PrefixBytes(q, n + 1) - Size[Head(q).kind] /\ n \in 0 .. Len(p)
  BY <1>1
<1> HIDE DEF f
<1> QED BY <1>1, <1>3, <1>4, <1>5, PrefixCounted DEF p

-----------------------------------------------------------------------------
(* The budget                                                               *)

\* BacklogBounded of any relay.
Backlogged(r) ==
  /\ r.bytes = PrefixBytes(r.backlog, Len(r.backlog))
  /\ \A k \in 2 .. Len(r.backlog) :
       r.backlog[k].kind # "idr" => PrefixBytes(r.backlog, k) <= Budget

BudgetInv == TypeOK /\ Backlogged(relay)

LEMMA EmptyBacklogged ==
  ASSUME NEW r, r.backlog = <<>>, r.bytes = 0 PROVE Backlogged(r)
<1>1. <<>> \in Seq(Chunks) /\ Len(<<>>) = 0  OBVIOUS
<1>2. PrefixBytes(<<>>, 0) = 0  BY <1>1, PrefixSums
<1> QED BY <1>1, <1>2 DEF Backlogged

\* A chunk is queued within the budget, or is a keyframe, or has nothing in
\* front of it.
LEMMA OfferBacklogged ==
  ASSUME NEW r \in Relays, Backlogged(r), NEW ch \in Chunks
  PROVE  Backlogged(offer(r, ch))
<1> DEFINE r1 == AfterOverflow(r, ch)
<1>1. r1 \in Relays /\ r1.backlog \in Seq(Chunks) /\ Len(r1.backlog) \in Nat
      /\ r1.bytes \in Int
  BY OverflowType DEF Relays
<1>2. Backlogged(r1)
  BY EmptyBacklogged DEF AfterOverflow, Cleared
<1>3. ch.kind # "idr" /\ r1.backlog # <<>> => r1.bytes + Size[ch.kind] <= Budget
  <2> SUFFICES ASSUME ch.kind # "idr", r1.backlog # <<>>
               PROVE  r1.bytes + Size[ch.kind] <= Budget
    OBVIOUS
  <2>1. ~Overflows(r, ch) /\ r1 = r  BY DEF AfterOverflow, Cleared
  <2>2. ~(r.bytes + Size[ch.kind] > Budget)  BY <2>1 DEF Overflows
  <2>3. r.bytes \in Int /\ Size[ch.kind] \in Nat /\ Budget \in Nat
    BY SizeAssumption, BudgetAssumption DEF Relays, Chunks
  <2> QED BY <2>1, <2>2, <2>3
<1>4. CASE Gated(r, ch)
  <2>1. offer(r, ch).backlog = r1.backlog /\ offer(r, ch).bytes = r1.bytes
    BY <1>4 DEF offer
  <2> HIDE DEF r1
  <2> QED BY <1>2, <2>1 DEF Backlogged
<1>5. CASE ~Gated(r, ch)
  <2>1. offer(r, ch).backlog = Append(r1.backlog, ch)
        /\ offer(r, ch).bytes = r1.bytes + Size[ch.kind]
    BY <1>5 DEF offer
  <2> HIDE DEF r1
  <2> DEFINE q == r1.backlog
             n == Len(q)
  <2>2. /\ \A k \in 0 .. n : PrefixBytes(Append(q, ch), k) = PrefixBytes(q, k)
        /\ PrefixBytes(Append(q, ch), n + 1) = PrefixBytes(q, n) + Size[ch.kind]
    BY <1>1, PrefixOfAppend
  <2>3. Len(Append(q, ch)) = n + 1 /\ Append(q, ch)[n + 1] = ch
        /\ \A k \in 1 .. n : Append(q, ch)[k] = q[k]
    BY <1>1
  <2>4. r1.bytes = PrefixBytes(q, n)  BY <1>2 DEF Backlogged
  <2>5. ASSUME NEW k \in 2 .. (n + 1), Append(q, ch)[k].kind # "idr"
        PROVE  PrefixBytes(Append(q, ch), k) <= Budget
    <3>1. CASE k = n + 1
      <4>1. q # <<>>  BY <1>1, <3>1
      <4> QED BY <1>3, <2>2, <2>3, <2>4, <2>5, <3>1, <4>1
    <3>2. CASE k # n + 1
      <4>1. k \in 2 .. n /\ k \in 0 .. n /\ k \in 1 .. n  BY <1>1, <3>2
      <4> QED BY <1>2, <2>2, <2>3, <2>5, <4>1 DEF Backlogged
    <3> QED BY <3>1, <3>2
  <2> QED BY <2>1, <2>2, <2>3, <2>4, <2>5 DEF Backlogged
<1> QED BY <1>4, <1>5

LEMMA PopBacklogged ==
  ASSUME NEW r \in Relays, Backlogged(r), r.backlog # <<>>
  PROVE  Backlogged(Popped(r))
<1> DEFINE q == r.backlog
           n == Len(q)
           head == Size[Head(q).kind]
<1>1. q \in Seq(Chunks) /\ n \in Nat \ {0} /\ Len(Tail(q)) = n - 1 /\ Head(q) = q[1]
      /\ \A k \in 1 .. (n - 1) : Tail(q)[k] = q[k + 1]
  BY DEF Relays
<1>2. head \in Nat  BY <1>1, SizesCount
<1>3. \A k \in 0 .. (n - 1) : PrefixBytes(Tail(q), k) = PrefixBytes(q, k + 1) - head
  BY <1>1, PrefixOfTail
<1>4. PrefixBytes(Tail(q), n - 1) = r.bytes - head
  <2>1. n - 1 \in 0 .. (n - 1) /\ (n - 1) + 1 = n  BY <1>1
  <2>2. r.bytes = PrefixBytes(q, n)  BY DEF Backlogged
  <2> QED BY <1>3, <2>1, <2>2
<1>5. ASSUME NEW k \in 2 .. (n - 1), Tail(q)[k].kind # "idr"
      PROVE  PrefixBytes(Tail(q), k) <= Budget
  <2>1. k \in 1 .. (n - 1) /\ k \in 0 .. (n - 1) /\ k + 1 \in 2 .. n /\ k + 1 \in 0 .. n
    BY <1>1
  <2>2. q[k + 1].kind # "idr"  BY <1>1, <1>5, <2>1
  <2>3. PrefixBytes(q, k + 1) <= Budget  BY <2>1, <2>2 DEF Backlogged
  <2>4. PrefixBytes(q, k + 1) \in Nat  BY <1>1, <2>1, PrefixSums
  <2> QED BY <1>2, <1>3, <2>1, <2>3, <2>4, BudgetAssumption
<1>6. Popped(r).backlog = Tail(q) /\ Popped(r).bytes = r.bytes - head
  BY DEF Popped
<1> HIDE DEF head
<1> QED BY <1>1, <1>4, <1>5, <1>6 DEF Backlogged

LEMMA FanoutBacklogged ==
  ASSUME BudgetInv, NEW ch \in Chunks, NEW due, NEW othersAsk, Fanout(ch, due, othersAsk)
  PROVE  Backlogged(relay')
<1>1. relay \in Relays /\ Backlogged(relay)  BY DEF BudgetInv, TypeOK
<1>2. Backlogged(FreshRelay)  BY EmptyBacklogged DEF FreshRelay
<1>3. CASE OfferIt(ch, due, othersAsk)
  <2> DEFINE r == IF attached THEN relay ELSE FreshRelay
  <2>1. r \in Relays /\ Backlogged(r)  BY <1>1, <1>2, FreshType
  <2>2. relay' = offer(r, ch)  BY <1>3 DEF OfferIt
  <2> HIDE DEF r
  <2> QED BY <2>1, <2>2, OfferBacklogged
<1>4. CASE FlushIt(ch, due, othersAsk)
  <2>1. relay' = relay \/ relay' = Cleared(relay)  BY <1>4 DEF FlushIt, flush_for_gate
  <2>2. Backlogged(Cleared(relay))  BY EmptyBacklogged DEF Cleared
  <2> QED BY <1>1, <2>1, <2>2
<1>5. CASE SkipIt(ch, due, othersAsk)
  BY <1>1, <1>2, <1>5 DEF SkipIt, Detach
<1> QED BY <1>3, <1>4, <1>5 DEF Fanout

LEMMA BudgetStep == BudgetInv /\ [Next]_vars => BudgetInv'
<1> SUFFICES ASSUME BudgetInv, [Next]_vars PROVE Backlogged(relay')
  BY TypeStep DEF BudgetInv, Backlogged
<1>0. TypeOK /\ relay \in Relays /\ Backlogged(relay)  BY DEF BudgetInv, TypeOK
<1>1. ASSUME NEW row \in Rows, NEW kind \in KindsOf(codec), NEW othersAsk \in BOOLEAN,
             Emit(row, kind, othersAsk)
      PROVE  Backlogged(relay')
  <2>1. NextChunk(row, kind) \in Chunks  BY <1>0, SyncKindType, NextChunkType
  <2> QED BY <1>1, <2>1, FanoutBacklogged DEF Emit
<1>2. ASSUME NEW row \in Rows, EmitAsked(row) PROVE Backlogged(relay')
  <2>1. NextChunk(row, SyncKind) \in Chunks  BY <1>0, SyncKindType, NextChunkType
  <2> QED BY <1>2, <2>1, FanoutBacklogged DEF EmitAsked
<1>3. ASSUME relay' = FreshRelay PROVE Backlogged(relay')
  BY <1>3, EmptyBacklogged DEF FreshRelay
<1>4. ASSUME UNCHANGED relay PROVE Backlogged(relay')
  BY <1>0, <1>4
<1>5. CASE FloorElapses
  <2>1. relay'.backlog = relay.backlog /\ relay'.bytes = relay.bytes
    BY <1>0, <1>5 DEF FloorElapses, Relays
  <2> QED BY <1>0, <2>1 DEF Backlogged
<1>6. CASE RunSend
  BY <1>0, <1>6, PopBacklogged DEF RunSend
<1>7. CASE RunFail \/ CaptureStops \/ HandlerEnds
  BY <1>3, <1>7 DEF RunFail, CaptureStops, HandlerEnds, Detach
<1>8. CASE KeyframeRequest \/ RunSent \/ LingerEnds \/ Pause \/ Vanish \/ Join
           \/ CaptureStarted \/ CaptureStopping \/ GateClose \/ GateLift \/ GateReset
  BY <1>4, <1>8 DEF KeyframeRequest, RunSent, LingerEnds, Pause, Vanish, Join,
                    CaptureStarted, CaptureStopping, GateClose, GateLift, GateReset
<1>9. CASE UNCHANGED vars  BY <1>4, <1>9 DEF vars
<1> QED BY <1>1, <1>2, <1>5, <1>6, <1>7, <1>8, <1>9 DEF Next

\* VIDEO_RELAY_BUDGET_SECONDS: the bytes a relay counts are those of its queue,
\* and only keyframes, or a chunk with nothing in front of it, sit beyond the
\* budget, through drops, flushes, sends and replaced relays.
THEOREM BudgetBounds == Spec => []BacklogBounded
<1>1. Init => BudgetInv
  BY TypeInit, EmptyBacklogged DEF Init, FreshRelay, BudgetInv
<1>2. BudgetInv => BacklogBounded
  BY DEF BudgetInv, Backlogged, BacklogBounded
<1> QED BY <1>1, <1>2, BudgetStep, PTL DEF Spec
=============================================================================
