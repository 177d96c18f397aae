---------------------------- MODULE WebRtcProofs ----------------------------
(***************************************************************************)
(* Proofs about the WebRTC transport, its three parts each on its own:     *)
(*   - Pacer: the counters are those of the queues, the budget covers a    *)
(*     keyframe, and a data packet is out in time, for any packets, rates  *)
(*     and intervals the assumptions allow;                                *)
(*   - RtcPeers: a peer's input is released once, a controller has the     *)
(*     graph that was made for it, a viewer feeds from the display's       *)
(*     present graph, and the capture is what the consumers call for, for  *)
(*     any number of pages and graphs;                                     *)
(*   - Signaling: OneHolder, NoStaleSession, Presence, NoOrphan,           *)
(*     ServerLives and SessionsEnd, for any number of clients, servers,    *)
(*     displays and slots, with sharing on or off.                         *)
(***************************************************************************)
EXTENDS Signaling, Pacer, RtcPeers, NumberLemmas, TLAPS

-----------------------------------------------------------------------------
(* The bytes of a queue *)

\* The recursion that Bytes counts with is one that a function satisfies.
LEMMA RunningBytes ==
  ASSUME NEW q \in Seq(Nat)
  PROVE  \E f \in [0 .. Len(q) -> Nat] :
           /\ f[0] = 0
           /\ \A n \in 1 .. Len(q) : f[n] = f[n - 1] + q[n]
           /\ Bytes(q) = f[Len(q)]
<1> DEFINE step(f, n) == IF n = 0 THEN 0 ELSE f[n - 1] + q[n]
           counts(m) == \E f \in [0 .. m -> Nat] :
                          \A n \in 0 .. m : f[n] = step(f, n)
           H == {m \in 0 .. Len(q) : counts(m)}
<1>0. Len(q) \in Nat /\ \A n \in 1 .. Len(q) : q[n] \in Nat
  OBVIOUS
<1>1. 0 \in H
  <2>1. [n \in 0 .. 0 |-> 0] \in [0 .. 0 -> Nat] /\ [n \in 0 .. 0 |-> 0][0] = 0
    OBVIOUS
  <2>2. PICK g \in [0 .. 0 -> Nat] : g[0] = 0
    BY <2>1, Zenon
  <2>3. counts(0)
    BY <2>2
  <2> HIDE DEF counts
  <2> QED BY <1>0, <2>3
<1>2. ASSUME NEW m \in 1 .. Len(q), m - 1 \in H PROVE m \in H
  <2>0. counts(m - 1)
    BY <1>2
  <2>1. PICK f \in [0 .. m - 1 -> Nat] : \A n \in 0 .. m - 1 : f[n] = step(f, n)
    BY <2>0
  <2> DEFINE g == [n \in 0 .. m |-> IF n < m THEN f[n] ELSE f[m - 1] + q[m]]
  <2>2. m - 1 \in 0 .. m - 1 /\ q[m] \in Nat
    BY <1>0
  <2>3. g \in [0 .. m -> Nat]
    <3> SUFFICES ASSUME NEW n \in 0 .. m
                 PROVE  (IF n < m THEN f[n] ELSE f[m - 1] + q[m]) \in Nat
      OBVIOUS
    <3>1. n < m => n \in 0 .. m - 1
      OBVIOUS
    <3> QED BY <2>2, <3>1
  <2>4. ASSUME NEW n \in 0 .. m PROVE g[n] = step(g, n)
    <3>1. CASE n = m
      BY <2>2, <3>1
    <3>2. CASE n # m
      <4>1. n \in 0 .. m - 1 /\ (n # 0 => n - 1 \in 0 .. m - 1)
        BY <3>2
      <4> QED BY <2>1, <3>2, <4>1
    <3> QED BY <3>1, <3>2
  <2> HIDE DEF g
  <2>5. counts(m)
    BY <2>3, <2>4
  <2>6. m \in 0 .. Len(q)
    BY <1>0
  <2> HIDE DEF counts
  <2> QED BY <2>5, <2>6
<1>3. Len(q) \in H
  <2> HIDE DEF H
  <2>1. 0 .. Len(q) \subseteq H
    BY <1>0, <1>1, <1>2, UpTo DEF H
  <2> QED BY <1>0, <2>1
<1>4. PICK f \in [0 .. Len(q) -> Nat] : \A n \in 0 .. Len(q) : f[n] = step(f, n)
  BY <1>3
<1>5. f = [n \in 0 .. Len(q) |-> IF n = 0 THEN 0 ELSE f[n - 1] + q[n]]
  BY <1>4
<1> DEFINE upto == CHOOSE g : g = [n \in 0 .. Len(q) |->
                                     IF n = 0 THEN 0 ELSE g[n - 1] + q[n]]
<1>6. upto = [n \in 0 .. Len(q) |-> IF n = 0 THEN 0 ELSE upto[n - 1] + q[n]]
  BY <1>5
<1>7. Bytes(q) = upto[Len(q)]
  BY DEF Bytes
<1> HIDE DEF upto
<1>8. upto[0] = 0 /\ \A n \in 1 .. Len(q) : upto[n] = upto[n - 1] + q[n]
  <2>1. \A n \in 0 .. Len(q) : upto[n] = IF n = 0 THEN 0 ELSE upto[n - 1] + q[n]
    BY <1>6
  <2>2. \A n \in 1 .. Len(q) : n \in 0 .. Len(q) /\ n # 0
    BY <1>0
  <2>3. 0 \in 0 .. Len(q)
    BY <1>0
  <2> QED BY <2>1, <2>2, <2>3
<1>9. upto \in [0 .. Len(q) -> Nat]
  <2> DEFINE K == {m \in 0 .. Len(q) : upto[m] \in Nat}
  <2>1. 0 \in K
    BY <1>0, <1>8
  <2>2. ASSUME NEW m \in 1 .. Len(q), m - 1 \in K PROVE m \in K
    <3>1. upto[m] = upto[m - 1] + q[m] /\ q[m] \in Nat /\ upto[m - 1] \in Nat
      BY <1>0, <1>8, <2>2
    <3> QED BY <1>0, <3>1
  <2>3. 0 .. Len(q) \subseteq K
    <3> HIDE DEF K
    <3>1. K \subseteq Nat
      BY DEF K
    <3> QED BY <1>0, <2>1, <2>2, <3>1, UpTo
  <2>4. \A m \in 0 .. Len(q) : upto[m] \in Nat
    BY <2>3
  <2> QED BY <1>6, <2>4
<1> QED BY <1>7, <1>8, <1>9

\* Bytes is what any such function counts up to.
LEMMA BytesCounted ==
  ASSUME NEW q \in Seq(Nat), NEW f, f[0] = 0,
         \A n \in 1 .. Len(q) : f[n] = f[n - 1] + q[n]
  PROVE  Bytes(q) = f[Len(q)]
<1>1. PICK g \in [0 .. Len(q) -> Nat] :
        /\ g[0] = 0
        /\ \A n \in 1 .. Len(q) : g[n] = g[n - 1] + q[n]
        /\ Bytes(q) = g[Len(q)]
  BY RunningBytes
<1> DEFINE H == {n \in 0 .. Len(q) : f[n] = g[n]}
<1>2. 0 \in H /\ \A n \in 1 .. Len(q) : n - 1 \in H => n \in H
  BY <1>1
<1>3. Len(q) \in Nat /\ H \in SUBSET Nat
  OBVIOUS
<1>4. 0 .. Len(q) \subseteq H
  <2> HIDE DEF H
  <2> QED BY <1>2, <1>3, UpTo
<1> QED BY <1>1, <1>3, <1>4

\* No packets have no bytes, one more adds its size, and they are a number that
\* is positive when there is a packet and packets have a size.
LEMMA BytesOfQueue ==
  /\ Bytes(<<>>) = 0
  /\ \A q \in Seq(Nat) : Bytes(q) \in Nat
  /\ \A q \in Seq(Nat), n \in Nat : Bytes(Append(q, n)) = Bytes(q) + n
  /\ \A q \in Seq(Nat \ {0}) : q # <<>> => Bytes(q) > 0
<1>1. Bytes(<<>>) = 0
  <2>1. <<>> \in Seq(Nat) /\ Len(<<>>) = 0
    OBVIOUS
  <2> QED BY <2>1, RunningBytes
<1>2. ASSUME NEW q \in Seq(Nat) PROVE Bytes(q) \in Nat
  BY RunningBytes
<1>3. ASSUME NEW q \in Seq(Nat), NEW n \in Nat PROVE Bytes(Append(q, n)) = Bytes(q) + n
  <2>1. PICK f \in [0 .. Len(q) + 1 -> Nat] :
          /\ f[0] = 0
          /\ \A k \in 1 .. Len(q) + 1 : f[k] = f[k - 1] + Append(q, n)[k]
          /\ Bytes(Append(q, n)) = f[Len(q) + 1]
    <3>1. Append(q, n) \in Seq(Nat) /\ Len(Append(q, n)) = Len(q) + 1
      OBVIOUS
    <3> QED BY <3>1, RunningBytes
  <2>2. Len(q) \in Nat /\ \A k \in 1 .. Len(q) : Append(q, n)[k] = q[k]
    OBVIOUS
  <2>3. \A k \in 1 .. Len(q) : f[k] = f[k - 1] + q[k]
    BY <2>1, <2>2
  <2>4. Bytes(q) = f[Len(q)]
    BY <2>1, <2>3, BytesCounted
  <2>5. f[Len(q) + 1] = f[Len(q)] + n
    <3>1. Len(q) + 1 \in 1 .. Len(q) + 1 /\ (Len(q) + 1) - 1 = Len(q)
      BY <2>2
    <3>2. Append(q, n)[Len(q) + 1] = n
      OBVIOUS
    <3> QED BY <2>1, <3>1, <3>2
  <2> QED BY <2>1, <2>4, <2>5
<1>4. ASSUME NEW q \in Seq(Nat \ {0}), q # <<>> PROVE Bytes(q) > 0
  <2>1. q \in Seq(Nat) /\ Len(q) \in Nat
    OBVIOUS
  <2>2. Len(q) # 0
    BY <1>4
  <2>3. PICK f \in [0 .. Len(q) -> Nat] :
          /\ \A n \in 1 .. Len(q) : f[n] = f[n - 1] + q[n]
          /\ Bytes(q) = f[Len(q)]
    BY <2>1, RunningBytes
  <2>4. Len(q) \in 1 .. Len(q) /\ Len(q) - 1 \in 0 .. Len(q)
    BY <2>1, <2>2
  <2>5. q[Len(q)] \in Nat \ {0} /\ f[Len(q) - 1] \in Nat
    <3>1. \A k \in 1 .. Len(q) : q[k] \in Nat \ {0}
      OBVIOUS
    <3> QED BY <2>3, <2>4, <3>1
  <2>6. Bytes(q) = f[Len(q) - 1] + q[Len(q)]
    BY <2>3, <2>4
  <2>7. \A k \in Nat, n \in Nat \ {0} : k + n > 0
    OBVIOUS
  <2> QED BY <2>5, <2>6, <2>7
<1> QED BY <1>1, <1>2, <1>3, <1>4
-----------------------------------------------------------------------------
(* The queues of the pacer *)

Packets == Nat \ {0}
Rates == [encoder: Packets, pace: Nat, overflowed: BOOLEAN, credit: Int, quiet: 0 .. 2]
Groups == [dead: BOOLEAN, since: 0 .. 2, asked: 0 .. 1, floor: Nat,
           idr_sizes: Seq(Packets), due: BOOLEAN]

\* The newest packets of a queue are a queue, the shorter the fewer they are.
LEMMA NewestOfQueue ==
  ASSUME NEW q \in Seq(Packets), NEW n \in Nat
  PROVE  /\ Newest(q, n) \in Seq(Packets)
         /\ n <= Len(q) => Len(Newest(q, n)) = n
<1>1. CASE n <= Len(q)
  <2>1. Newest(q, n) = SubSeq(q, Len(q) - n + 1, Len(q))
    BY <1>1 DEF Newest, AtLeast
  <2>2. Len(q) - n + 1 \in 1 .. Len(q) + 1 /\ Len(q) \in 0 .. Len(q)
    BY <1>1
  <2>3. SubSeq(q, Len(q) - n + 1, Len(q)) \in Seq(Packets)
    BY <2>2
  <2>4. Len(SubSeq(q, Len(q) - n + 1, Len(q))) = n
    BY <1>1, <2>2
  <2> QED BY <2>1, <2>3, <2>4
<1>2. CASE ~(n <= Len(q))
  <2>1. Newest(q, n) = SubSeq(q, 1, Len(q))
    BY <1>2 DEF Newest, AtLeast
  <2> QED BY <1>2, <2>1
<1> QED BY <1>1, <1>2

LEMMA BytesOfPackets == \A q \in Seq(Packets) : Bytes(q) \in Nat
<1>1. Seq(Packets) \subseteq Seq(Nat)
  BY DEF Packets
<1> QED BY <1>1, BytesOfQueue

LEMMA PrefixOfQueue ==
  ASSUME NEW q \in Seq(Packets), NEW n \in 0 .. Len(q)
  PROVE  SubSeq(q, 1, n) \in Seq(Packets)
<1>1. \A i \in 1 .. Len(q) : q[i] \in Packets
  OBVIOUS
<1>2. n \in Nat /\ \A i \in 1 .. n : i \in 1 .. Len(q)
  OBVIOUS
<1> QED BY <1>1, <1>2

\* What is kept of a queue that is over its budget are newest packets of it.
LEMMA TrimmedQueue ==
  ASSUME NEW q \in Seq(Packets), NEW room \in Int, room >= 0
  PROVE  Trimmed(q, room) \in Seq(Packets)
<1> DEFINE fits(n) == /\ Bytes(Newest(q, n)) <= room
                      /\ n < Len(q) => Bytes(Newest(q, n + 1)) > room
           T == {n \in 0 .. Len(q) : n < Len(q) => Bytes(Newest(q, n + 1)) > room}
<1>1. Len(q) \in Nat
  OBVIOUS
<1>2. Bytes(Newest(q, 0)) = 0
  <2>1. Newest(q, 0) = <<>>
    BY NewestOfQueue
  <2> QED BY <2>1, BytesOfQueue
<1>3. PICK n \in T : \A m \in T : n <= m
  <2>1. Len(q) \in T /\ T \in SUBSET Nat
    BY <1>1
  <2> HIDE DEF T
  <2> QED BY <2>1, LeastNumber
<1>4. Bytes(Newest(q, n)) <= room
  <2>1. CASE n = 0
    BY <1>2, <2>1
  <2>2. CASE n # 0
    <3>1. n - 1 \in 0 .. Len(q) /\ n - 1 \notin T /\ (n - 1) + 1 = n
      <4>1. n \in Nat /\ n <= Len(q) /\ n >= 1
        BY <1>1, <2>2
      <4> HIDE DEF T
      <4> QED BY <1>1, <1>3, <4>1
    <3>2. ~ (Bytes(Newest(q, n)) > room)
      BY <3>1
    <3>3. Bytes(Newest(q, n)) \in Nat
      <4>1. Newest(q, n) \in Seq(Packets)
        BY <3>1, NewestOfQueue
      <4>2. Newest(q, n) \in Seq(Nat)
        BY <4>1 DEF Packets
      <4> QED BY <4>2, BytesOfQueue
    <3> QED BY <3>2, <3>3
  <2> QED BY <2>1, <2>2
<1>5. \E k \in 0 .. Len(q) : fits(k)
  BY <1>3, <1>4
<1>6. PICK k \in 0 .. Len(q) : Trimmed(q, room) = Newest(q, k)
  BY <1>5 DEF Trimmed
<1> QED BY <1>6, NewestOfQueue

-----------------------------------------------------------------------------
(* Rates and groups of pictures *)

\* Every change of a rate gives a rate.
LEMMA RatesKept ==
  ASSUME NEW r \in Rates
  PROVE  /\ BurstCap(r) \in Nat /\ Accrued(r) \subseteq Rates
         /\ \A n \in Nat : Paced(r, n) \in Rates
         /\ Recovered(r) \in Rates /\ Braked(r) \subseteq Rates
         /\ \A bps \in Packets : Refreshed(r, bps) \in Rates
         /\ \A n \in Int : Spent(r, n) \in Rates
<1>1. \A x \in Nat, y \in Packets : x \div y \in Nat
  BY DEF Packets
<1>2. \A x \in Rates : BurstCap(x) \in Nat /\ Ceiling(x) \in Nat /\ DepthFloor(x) \in Nat
  <2> SUFFICES ASSUME NEW x \in Rates
               PROVE  BurstCap(x) \in Nat /\ Ceiling(x) \in Nat /\ DepthFloor(x) \in Nat
    OBVIOUS
  <2>1. x.pace \in Nat /\ x.encoder \in Nat
    BY DEF Rates, Packets
  <2>2. BurstFloor \in Nat /\ MinPace \in Nat /\ PacePerBurst \in Packets
    BY PacerAssumption DEF Packets
  <2>3. x.pace \div PacePerBurst \in Nat
    BY <1>1, <2>1, <2>2
  <2>4. (5 * x.encoder) \div 2 \in Nat /\ (35 * x.encoder) \div 100 \in Nat
    BY <2>1
  <2> QED BY <2>2, <2>3, <2>4 DEF BurstCap, Ceiling, DepthFloor, AtLeast
<1>3. \A x \in Rates, n \in Nat : Paced(x, n) \in Rates
  <2> SUFFICES ASSUME NEW x \in Rates, NEW n \in Nat PROVE Paced(x, n) \in Rates
    OBVIOUS
  <2>1. [x EXCEPT !.pace = n] \in Rates
    BY DEF Rates
  <2> DEFINE paced == [x EXCEPT !.pace = n]
  <2>2. BurstCap(paced) \in Nat /\ paced.credit \in Int
    BY <1>2, <2>1 DEF Rates
  <2>3. AtMost(paced.credit, BurstCap(paced)) \in Int
    BY <2>2 DEF AtMost
  <2>4. Paced(x, n) = [paced EXCEPT !.credit = AtMost(paced.credit, BurstCap(paced))]
    BY DEF Paced
  <2> HIDE DEF paced
  <2> QED BY <2>1, <2>3, <2>4 DEF Rates, paced
<1>4. Accrued(r) \subseteq Rates
  BY <1>2 DEF Accrued, Rates
<1>5. Recovered(r) \in Rates
  <2>1. [r EXCEPT !.quiet = 0] \in Rates
    BY DEF Rates
  <2>2. r.pace + 1 \in Nat /\ r.pace \in Nat
    BY DEF Rates
  <2> QED BY <1>3, <2>1, <2>2 DEF Recovered
<1>6. Braked(r) \subseteq Rates
  <2> SUFFICES ASSUME NEW t \in {r.pace \div 2} \cup (MinPace .. Ceiling(r))
               PROVE  Paced([r EXCEPT !.overflowed = TRUE, !.quiet = 0],
                            AtMost(r.pace, AtLeast(t, DepthFloor(r)))) \in Rates
    BY DEF Braked
  <2>1. [r EXCEPT !.overflowed = TRUE, !.quiet = 0] \in Rates
    <3>1. [r EXCEPT !.overflowed = TRUE] \in Rates
      BY DEF Rates
    <3>2. \A x \in Rates : [x EXCEPT !.quiet = 0] \in Rates
      BY DEF Rates
    <3>3. [r EXCEPT !.overflowed = TRUE, !.quiet = 0]
            = [[r EXCEPT !.overflowed = TRUE] EXCEPT !.quiet = 0]
      OBVIOUS
    <3> QED BY <3>1, <3>2, <3>3
  <2>2. r.pace \in Nat /\ t \in Nat
    BY <1>2, PacerAssumption DEF Rates
  <2>3. AtMost(r.pace, AtLeast(t, DepthFloor(r))) \in Nat
    BY <1>2, <2>2 DEF AtMost, AtLeast
  <2> QED BY <1>3, <2>1, <2>3
<1>7. ASSUME NEW bps \in Packets PROVE Refreshed(r, bps) \in Rates
  <2> DEFINE set == [r EXCEPT !.encoder = bps]
             pace == IF r.overflowed THEN AtMost(r.pace, Ceiling(set)) ELSE Ceiling(set)
  <2>1. set \in Rates
    BY DEF Rates
  <2>2. r.pace \in Nat /\ Ceiling(set) \in Nat /\ MinPace \in Nat
    BY <1>2, <2>1, PacerAssumption DEF Rates
  <2>3. pace \in Nat
    BY <2>2 DEF AtMost
  <2>4. AtLeast(pace, MinPace) \in Nat
    BY <2>2, <2>3 DEF AtLeast
  <2>5. Refreshed(r, bps) = Paced(set, AtLeast(pace, MinPace))
    BY DEF Refreshed
  <2> HIDE DEF set, pace
  <2> QED BY <1>3, <2>1, <2>4, <2>5
<1>8. ASSUME NEW n \in Int PROVE Spent(r, n) \in Rates
  BY DEF Spent, Rates
<1> QED BY <1>2, <1>3, <1>4, <1>5, <1>6, <1>7, <1>8

\* A full bucket affords every packet, and a packet that is affordable when
\* another is not is smaller.
LEMMA SmallerAffordable ==
  ASSUME NEW r \in Rates, NEW m \in Packets, ~Affordable(r, m)
  PROVE  r.credit < BurstCap(r) /\ \A n \in Packets : Affordable(r, n) => n < m
<1>1. BurstCap(r) \in Nat /\ r.credit \in Int
  BY RatesKept DEF Rates
<1> HIDE DEF BurstCap
<1> QED BY <1>1 DEF Affordable, Packets

\* The first packet of a queue is sent with the credit there is.
LEMMA FirstOfQueue ==
  ASSUME NEW q \in Seq(Packets), NEW r \in Rates, q # <<>>
  PROVE  /\ Head(q) \in Packets
         /\ Affordable(Spent(r, Bytes(SubSeq(q, 1, 1 - 1))), q[1]) <=> Affordable(r, Head(q))
<1>1. SubSeq(q, 1, 1 - 1) = <<>> /\ Head(q) = q[1] /\ Head(q) \in Packets
  OBVIOUS
<1>2. Spent(r, 0) = r
  BY DEF Spent, Rates
<1>3. Bytes(SubSeq(q, 1, 1 - 1)) = 0
  BY <1>1, BytesOfQueue
<1>4. Spent(r, Bytes(SubSeq(q, 1, 1 - 1))) = r
  BY <1>2, <1>3
<1> QED BY <1>1, <1>4

\* A pass of the drain sends packets of a queue in their order, as long as they
\* are affordable.
LEMMA SentOfQueue ==
  ASSUME NEW q \in Seq(Packets), NEW r \in Rates
  PROVE  /\ Sends(r, q) \in 0 .. Len(q)
         /\ q # <<>> => (Sends(r, q) # 0 <=> Affordable(r, Head(q)))
<1> DEFINE leaves(i) == Affordable(Spent(r, Bytes(SubSeq(q, 1, i - 1))), q[i])
           lasts(n) == /\ \A i \in 1 .. n : leaves(i)
                       /\ n < Len(q) => ~leaves(n + 1)
           T == {n \in 0 .. Len(q) : n < Len(q) => ~leaves(n + 1)}
<1>1. Len(q) \in Nat
  OBVIOUS
<1> HIDE DEF leaves
<1>2. PICK n \in T : \A m \in T : n <= m
  <2>1. Len(q) \in T /\ T \in SUBSET Nat
    BY <1>1
  <2> HIDE DEF T
  <2> QED BY <2>1, LeastNumber
<1>3. ASSUME NEW i \in 1 .. n PROVE leaves(i)
  <2>1. i - 1 \in 0 .. Len(q) /\ ~(n <= i - 1)
    BY <1>1
  <2>2. i - 1 \notin T
    BY <1>2, <2>1
  <2>3. leaves((i - 1) + 1)
    BY <2>1, <2>2
  <2>4. (i - 1) + 1 = i
    OBVIOUS
  <2> QED BY <2>3, <2>4
<1>4. \E k \in 0 .. Len(q) : lasts(k)
  BY <1>2, <1>3
<1>5. Sends(r, q) = CHOOSE k \in 0 .. Len(q) : lasts(k)
  BY DEF Sends, leaves
<1>6. Sends(r, q) \in 0 .. Len(q) /\ lasts(Sends(r, q))
  BY <1>4, <1>5
<1>7. ASSUME q # <<>> PROVE Sends(r, q) # 0 <=> Affordable(r, Head(q))
  <2>1. leaves(1) <=> Affordable(r, Head(q))
    BY <1>7, FirstOfQueue DEF leaves
  <2>2. 0 < Len(q) /\ 0 + 1 = 1
    BY <1>7
  <2>3. ASSUME Sends(r, q) = 0 PROVE ~leaves(1)
    BY <1>6, <2>2, <2>3
  <2>4. ASSUME Sends(r, q) # 0 PROVE leaves(1)
    <3>1. 1 \in 1 .. Sends(r, q)
      BY <1>6, <2>4
    <3> QED BY <1>6, <3>1
  <2> QED BY <2>1, <2>3, <2>4
<1> QED BY <1>6, <1>7

\* A group that is reset or revived keeps the floor of the budget.
LEMMA GroupsKept ==
  ASSUME NEW g \in Groups
  PROVE  /\ Alive(g) \in Groups /\ Alive(g).floor = g.floor
         /\ Reset_Gop(g) \in Groups /\ Reset_Gop(g).floor = g.floor
         /\ Reset_Gop(Alive(g)) \in Groups /\ Reset_Gop(Alive(g)).floor = g.floor
<1> DEFINE keeps(x, y) == y \in Groups /\ y.floor = x.floor
<1>1. \A x \in Groups, b \in BOOLEAN : keeps(x, [x EXCEPT !.dead = b])
  BY DEF Groups
<1>2. \A x \in Groups : keeps(x, [x EXCEPT !.since = 0])
  BY DEF Groups
<1>3. \A x \in Groups : keeps(x, [x EXCEPT !.asked = 0])
  BY DEF Groups
<1>4. \A x \in Groups : keeps(x, [x EXCEPT !.due = TRUE])
  BY DEF Groups
<1>5. \A x : /\ [x EXCEPT !.dead = FALSE, !.since = 0]
                   = [[x EXCEPT !.dead = FALSE] EXCEPT !.since = 0]
             /\ [x EXCEPT !.dead = TRUE, !.since = 0]
                   = [[x EXCEPT !.dead = TRUE] EXCEPT !.since = 0]
             /\ [x EXCEPT !.asked = 0, !.due = TRUE]
                   = [[x EXCEPT !.asked = 0] EXCEPT !.due = TRUE]
  OBVIOUS
<1> HIDE DEF keeps
<1>6. \A x, y, z \in Groups : keeps(x, y) /\ keeps(y, z) => keeps(x, z)
  BY DEF keeps
<1>7. \A x \in Groups, b \in BOOLEAN : [x EXCEPT !.dead = b] \in Groups
  BY <1>1 DEF keeps
<1>8. \A x \in Groups : [x EXCEPT !.asked = 0] \in Groups /\ keeps(x, x)
  BY <1>3 DEF keeps
<1>9. \A x \in Groups : keeps(x, Alive(x))
  <2> SUFFICES ASSUME NEW x \in Groups PROVE keeps(x, Alive(x))
    OBVIOUS
  <2>1. keeps(x, [x EXCEPT !.dead = FALSE])
    BY <1>1
  <2>2. keeps([x EXCEPT !.dead = FALSE], Alive(x))
    BY <1>2, <1>5, <1>7 DEF Alive
  <2> QED BY <2>1, <2>2 DEF keeps
<1>10. \A x \in Groups : keeps(x, Requested(x))
  <2> SUFFICES ASSUME NEW x \in Groups PROVE keeps(x, Requested(x))
    OBVIOUS
  <2>1. keeps(x, [x EXCEPT !.asked = 0])
    BY <1>3
  <2>2. keeps([x EXCEPT !.asked = 0], [x EXCEPT !.asked = 0, !.due = TRUE])
    BY <1>4, <1>5, <1>8
  <2>3. keeps(x, [x EXCEPT !.asked = 0, !.due = TRUE])
    BY <2>1, <2>2 DEF keeps
  <2> QED BY <1>8, <2>3 DEF Requested
<1>11. \A x \in Groups : keeps(x, Reset_Gop(x))
  <2> SUFFICES ASSUME NEW x \in Groups PROVE keeps(x, Reset_Gop(x))
    OBVIOUS
  <2> DEFINE y == [x EXCEPT !.dead = TRUE, !.since = 0]
  <2>1. keeps(x, [x EXCEPT !.dead = TRUE])
    BY <1>1
  <2>2. keeps([x EXCEPT !.dead = TRUE], y)
    BY <1>2, <1>5, <1>7
  <2>3. keeps(x, y) /\ y \in Groups
    BY <2>1, <2>2 DEF keeps
  <2>4. keeps(y, Requested(y))
    BY <1>10, <2>3
  <2>5. Reset_Gop(x) = IF x.dead THEN x ELSE Requested(y)
    BY DEF Reset_Gop
  <2> HIDE DEF y
  <2>6. keeps(x, Requested(y))
    BY <2>3, <2>4 DEF keeps
  <2> QED BY <1>8, <2>5, <2>6
<1> QED BY <1>9, <1>11 DEF keeps

\* Of the sizes of a window there is a largest.
LEMMA LargestSize ==
  ASSUME NEW q \in Seq(Packets), q # <<>>
  PROVE  Max(ToSet(q)) \in Nat /\ \A x \in ToSet(q) : x <= Max(ToSet(q))
<1> DEFINE bounds(m, b) == \A i \in 1 .. m : q[i] <= b
           H == {m \in 0 .. Len(q) : \E b \in Nat : bounds(m, b)}
           T == {b \in Nat : bounds(Len(q), b)}
<1>1. Len(q) \in Nat /\ Len(q) # 0 /\ \A i \in 1 .. Len(q) : q[i] \in Nat
  BY DEF Packets
<1>2. 0 \in H
  BY <1>1
<1>3. ASSUME NEW m \in 1 .. Len(q), m - 1 \in H PROVE m \in H
  <2>1. PICK b \in Nat : bounds(m - 1, b)
    BY <1>3
  <2>2. q[m] \in Nat
    BY <1>1
  <2>3. AtLeast(b, q[m]) \in Nat /\ b <= AtLeast(b, q[m]) /\ q[m] <= AtLeast(b, q[m])
    BY <2>2 DEF AtLeast
  <2>4. bounds(m, AtLeast(b, q[m]))
    <3> SUFFICES ASSUME NEW i \in 1 .. m PROVE q[i] <= AtLeast(b, q[m])
      OBVIOUS
    <3>1. CASE i = m
      BY <2>3, <3>1
    <3>2. CASE i # m
      <4>1. i \in 1 .. m - 1 /\ q[i] \in Nat
        BY <1>1, <3>2
      <4>2. q[i] <= b
        BY <2>1, <4>1
      <4> QED BY <2>3, <4>1, <4>2
    <3> QED BY <3>1, <3>2
  <2>5. m \in 0 .. Len(q)
    BY <1>1
  <2> QED BY <2>3, <2>4, <2>5
<1>4. Len(q) \in H
  <2>1. H \in SUBSET Nat
    OBVIOUS
  <2>2. Len(q) \in 0 .. Len(q)
    BY <1>1
  <2> HIDE DEF H
  <2> QED BY <1>1, <1>2, <1>3, <2>1, <2>2, UpTo
<1>5. PICK b \in T : \A c \in T : b <= c
  <2>1. T # {} /\ T \in SUBSET Nat
    BY <1>4
  <2> HIDE DEF T
  <2> QED BY <2>1, LeastNumber
<1>6. b \in ToSet(q)
  <2> SUFFICES ASSUME \A i \in 1 .. Len(q) : q[i] # b PROVE FALSE
    BY DEF ToSet
  <2>1. \A i \in 1 .. Len(q) : q[i] <= b - 1
    BY <1>1, <1>5
  <2>2. 1 \in 1 .. Len(q)
    BY <1>1
  <2>3. b - 1 \in Nat
    BY <1>1, <1>5, <2>1, <2>2
  <2>4. b - 1 \in T /\ ~(b <= b - 1)
    BY <2>1, <2>3
  <2> QED BY <1>5, <2>4
<1>7. \A x \in ToSet(q) : x <= b /\ b >= x
  BY <1>1, <1>5 DEF ToSet
<1>8. Max(ToSet(q)) \in ToSet(q) /\ \A x \in ToSet(q) : Max(ToSet(q)) >= x
  BY <1>6, <1>7 DEF Max
<1>9. ToSet(q) \subseteq Nat
  BY <1>1 DEF ToSet
<1> QED BY <1>8, <1>9

\* The packet that came last is among the newest.
LEMMA LastAmongNewest ==
  ASSUME NEW q \in Seq(Packets), NEW size \in Packets, NEW n \in Packets
  PROVE  /\ Newest(Append(q, size), n) \in Seq(Packets)
         /\ Newest(Append(q, size), n) # <<>>
         /\ size \in ToSet(Newest(Append(q, size), n))
<1> DEFINE all == Append(q, size)
           from == AtLeast(0, Len(all) - n) + 1
<1>1. all \in Seq(Packets) /\ Len(all) = Len(q) + 1 /\ Len(q) \in Nat
      /\ all[Len(q) + 1] = size
  OBVIOUS
<1>2. n \in Nat /\ n > 0
  BY DEF Packets
<1>3. from \in 1 .. Len(all)
  BY <1>1, <1>2 DEF AtLeast
<1>4. Newest(all, n) = SubSeq(all, from, Len(all))
  BY DEF Newest
<1> HIDE DEF all, from
<1>5. Len(SubSeq(all, from, Len(all))) = Len(all) - from + 1
      /\ \A i \in 1 .. Len(all) - from + 1 :
           SubSeq(all, from, Len(all))[i] = all[from + i - 1]
  BY <1>1, <1>3
<1> DEFINE newest == Newest(all, n)
           last == Len(all) - from + 1
<1>6. newest \in Seq(Packets)
  BY <1>1, <1>2, NewestOfQueue
<1>7. last \in 1 .. Len(newest) /\ newest[last] = size
  <2>1. last \in 1 .. last /\ from + last - 1 = Len(all) /\ Len(newest) = last
    BY <1>1, <1>3, <1>4, <1>5
  <2>2. newest[last] = all[Len(all)]
    BY <1>4, <1>5, <2>1
  <2> QED BY <1>1, <2>1, <2>2 DEF all
<1> HIDE DEF newest, last
<1>8. size \in ToSet(newest) /\ newest # <<>>
  <2>1. DOMAIN newest = 1 .. Len(newest)
    BY <1>6
  <2>2. newest # <<>>
    BY <1>7
  <2> QED BY <1>7, <2>1, <2>2 DEF ToSet
<1> QED BY <1>6, <1>8 DEF newest, all

\* The floor of the budget covers a keyframe that was noted.
LEMMA NotedGroup ==
  ASSUME NEW g \in Groups, NEW size \in Packets
  PROVE  Noted(g, size) \in Groups /\ size <= Noted(g, size).floor
<1> DEFINE fits(n) == (22 * n) \div 10
           window == Newest(Append(g.idr_sizes, size), IdrWindow)
           alive == Alive(g)
<1>1. \A n \in Nat : fits(n) \in Nat /\ n <= fits(n)
  OBVIOUS
<1>2. g.idr_sizes \in Seq(Packets) /\ IdrWindow \in Packets /\ size \in Nat
  BY PacerAssumption DEF Groups, Packets
<1>3. window \in Seq(Packets) /\ window # <<>> /\ size \in ToSet(window)
  BY <1>2, LastAmongNewest
<1>4. alive \in Groups /\ alive.floor \in Nat
  BY GroupsKept DEF Groups
<1> DEFINE largest == Max(ToSet(window))
<1> HIDE DEF window, alive
<1>5. largest \in Nat /\ size <= largest
  BY <1>3, LargestSize
<1>6. Noted(g, size) = IF g.asked < 1
                       THEN [alive EXCEPT !.floor = AtLeast(@, fits(size))]
                       ELSE [alive EXCEPT !.idr_sizes = window, !.floor = fits(largest)]
  BY DEF Noted, window, alive
<1> HIDE DEF largest
<1>7. CASE g.asked < 1
  <2>1. AtLeast(alive.floor, fits(size)) \in Nat /\ size <= AtLeast(alive.floor, fits(size))
    BY <1>1, <1>2, <1>4 DEF AtLeast
  <2> HIDE DEF fits
  <2> DEFINE raised == AtLeast(alive.floor, fits(size))
  <2>2. Noted(g, size) = [alive EXCEPT !.floor = raised]
    BY <1>6, <1>7
  <2> HIDE DEF raised
  <2> QED BY <1>4, <2>1, <2>2 DEF Groups, raised
<1>8. CASE ~(g.asked < 1)
  <2>1. fits(largest) \in Nat /\ size <= fits(largest)
    <3>1. \A x, y, z \in Nat : x <= y /\ y <= z => x <= z
      OBVIOUS
    <3> QED BY <1>1, <1>2, <1>5, <3>1
  <2> HIDE DEF fits
  <2>2. [alive EXCEPT !.idr_sizes = window] \in Groups
    BY <1>3, <1>4 DEF Groups
  <2>3. Noted(g, size) = [[alive EXCEPT !.idr_sizes = window] EXCEPT !.floor = fits(largest)]
    BY <1>6, <1>8
  <2> QED BY <2>1, <2>2, <2>3 DEF Groups
<1> QED BY <1>7, <1>8
-----------------------------------------------------------------------------
(* The invariant of the pacer *)

\* What the tasks that send and the drain leave to one another.
FlowOK ==
  /\ packets \in [Classes -> Seq(Packets)]
  /\ rate \in Rates /\ gop \in Groups
  /\ drain \in BOOLEAN
  /\ Ledger

PacerTypeOK ==
  /\ parked \in [Channels -> [size: Nat, waits: BOOLEAN]]
  /\ picture \in Nat /\ stopped \in BOOLEAN
  /\ clock \in [due: BOOLEAN, waited: 0 .. 2]

\* A data packet that has waited is owed a turn of the drain.
Punctual ==
  /\ clock.waited > 0 => packets["dc"] # <<>> /\ clock.due
  /\ Prompt

PacerInv == FlowOK /\ PacerTypeOK /\ picture <= gop.floor /\ Punctual

\* The counters are numbers, and nothing is queued when they are 0.
LEMMA LedgerCounts ==
  ASSUME FlowOK
  PROVE  /\ packets["dc"] \in Seq(Packets) /\ packets["video"] \in Seq(Packets)
         /\ Bytes(packets["dc"]) \in Nat /\ Bytes(packets["video"]) \in Nat
         /\ bytes_queued \in Nat /\ video_bytes \in Nat
         /\ bytes_queued = 0 => packets["dc"] = <<>>
<1>1. packets["dc"] \in Seq(Packets) /\ packets["video"] \in Seq(Packets)
  BY DEF FlowOK, Classes
<1>2. \A q \in Seq(Packets) : Bytes(q) \in Nat
  BY BytesOfPackets
<1>3. bytes_queued = Bytes(packets["dc"]) + Bytes(packets["video"])
      /\ video_bytes = Bytes(packets["video"])
  BY DEF FlowOK, Ledger
<1>4. packets["dc"] # <<>> => Bytes(packets["dc"]) > 0
  BY <1>1, BytesOfQueue DEF Packets
<1> QED BY <1>1, <1>2, <1>3, <1>4

\* A packet is queued behind what is kept of its class.
LEMMA EnqueuedFlow ==
  ASSUME FlowOK, NEW c \in Classes, NEW kept \in Seq(Packets), NEW size \in Packets,
         NEW r \in Rates, Enqueued(c, kept, size, r), gop' \in Groups
  PROVE  FlowOK' /\ packets' = [packets EXCEPT ![c] = Append(kept, size)]
<1>1. packets' = [packets EXCEPT ![c] = Append(kept, size)]
      /\ drain' = TRUE /\ rate' = r
  BY DEF Enqueued, Kicks
<1>2. Append(kept, size) \in Seq(Packets) /\ Bytes(Append(kept, size)) = Bytes(kept) + size
      /\ Bytes(kept) \in Nat /\ size \in Nat
  <2>1. kept \in Seq(Nat) /\ size \in Nat
    BY DEF Packets
  <2> QED BY <2>1, BytesOfQueue
<1>3. packets' \in [Classes -> Seq(Packets)]
  BY <1>1, <1>2 DEF FlowOK
<1>4. bytes_queued' = Bytes(packets'["dc"]) + Bytes(packets'["video"])
      /\ video_bytes' = Bytes(packets'["video"])
  <2> DEFINE lost == Bytes(packets[c]) - Bytes(kept)
  <2>1. bytes_queued' = bytes_queued - lost + size
        /\ video_bytes' = IF c = "video" THEN video_bytes - lost + size ELSE video_bytes
    BY DEF Enqueued
  <2>2. packets'[c] = Append(kept, size) /\ \A k \in Classes \ {c} : packets'[k] = packets[k]
    BY <1>1 DEF FlowOK
  <2>3. bytes_queued = Bytes(packets["dc"]) + Bytes(packets["video"])
        /\ video_bytes = Bytes(packets["video"])
    BY DEF FlowOK, Ledger
  <2>4. CASE c = "dc"
    <3>1. Bytes(packets'["dc"]) = Bytes(kept) + size
          /\ Bytes(packets'["video"]) = Bytes(packets["video"])
      BY <1>2, <2>2, <2>4 DEF Classes
    <3> QED BY <1>2, <2>1, <2>3, <2>4, <3>1, LedgerCounts
  <2>5. CASE c = "video"
    <3>1. Bytes(packets'["video"]) = Bytes(kept) + size
          /\ Bytes(packets'["dc"]) = Bytes(packets["dc"])
      BY <1>2, <2>2, <2>5 DEF Classes
    <3> QED BY <1>2, <2>1, <2>3, <2>5, <3>1, LedgerCounts
  <2> QED BY <2>4, <2>5 DEF Classes
<1> QED BY <1>1, <1>3, <1>4 DEF FlowOK, Ledger

\* Video is purged.
LEMMA PurgedFlow ==
  ASSUME FlowOK, Purged, rate' \in Rates, gop' \in Groups, UNCHANGED stopped
  PROVE  FlowOK' /\ packets'["dc"] = packets["dc"]
<1>1. packets' = [packets EXCEPT !["video"] = <<>>] /\ UNCHANGED drain
      /\ bytes_queued' = bytes_queued - video_bytes /\ video_bytes' = 0
  BY DEF Purged
<1>2. <<>> \in Seq(Packets) /\ Bytes(<<>>) = 0
  BY BytesOfQueue
<1>3. packets' \in [Classes -> Seq(Packets)] /\ packets'["video"] = <<>>
      /\ packets'["dc"] = packets["dc"]
  BY <1>1, <1>2 DEF FlowOK, Classes
<1>4. bytes_queued = Bytes(packets["dc"]) + Bytes(packets["video"])
      /\ video_bytes = Bytes(packets["video"])
      /\ (bytes_queued > 0 /\ ~stopped => drain)
  BY DEF FlowOK, Ledger
<1>5. bytes_queued' = Bytes(packets'["dc"]) + Bytes(packets'["video"])
      /\ video_bytes' = Bytes(packets'["video"])
      /\ bytes_queued' <= bytes_queued /\ bytes_queued' \in Nat
  BY <1>1, <1>2, <1>3, <1>4, LedgerCounts
<1>6. bytes_queued' > 0 /\ ~stopped' => drain'
  BY <1>1, <1>4, <1>5, LedgerCounts
<1> QED BY <1>1, <1>3, <1>5, <1>6 DEF FlowOK, Ledger

\* A packet that goes straight out leaves the queues as they are.
LEMMA FastPathFlow ==
  ASSUME FlowOK, NEW r \in Rates, NEW size \in Packets, FastPath(r, size),
         gop' \in Groups, UNCHANGED stopped
  PROVE  FlowOK' /\ packets' = packets
<1>1. [r EXCEPT !.credit = @ - size] \in Rates
  <2>1. size \in Int
    BY DEF Packets
  <2> QED BY <2>1, RatesKept DEF Spent
<1> QED BY <1>1 DEF FlowOK, FastPath, Ledger

\* A packet of video, sent, queued or dropped, leaves the data packets and the
\* floor of the video budget alone.
LEMMA SendVideoFlow ==
  ASSUME FlowOK, NEW size \in Packets, SendVideo(size), UNCHANGED stopped
  PROVE  FlowOK' /\ packets'["dc"] = packets["dc"] /\ gop'.floor = gop.floor
<1> DEFINE g == Alive(gop)
<1>1. gop \in Groups /\ rate \in Rates /\ Recovered(rate) \in Rates
  BY RatesKept DEF FlowOK
<1>2. g \in Groups /\ g.floor = gop.floor
      /\ Reset_Gop(g) \in Groups /\ Reset_Gop(g).floor = gop.floor
  BY <1>1, GroupsKept
<1>3. packets["video"] \in Seq(Packets) /\ "video" \in Classes /\ "dc" \in Classes
  BY LedgerCounts DEF Classes
<1> HIDE DEF g
<1>4. CASE gop.dead /\ gop.since < 2
  BY <1>1, <1>4 DEF SendVideo, FlowOK, Ledger
<1>5. CASE ~(gop.dead /\ gop.since < 2)
  <2>1. CASE gop' = Reset_Gop(g) /\ rate' \in Braked(Recovered(rate)) /\ Purged
    <3>1. rate' \in Rates
      BY <1>1, <2>1, RatesKept
    <3> QED BY <1>2, <2>1, <3>1, PurgedFlow
  <2>2. ASSUME NEW r \in Accrued(Recovered(rate)), Covered_By(r, size), gop' = g,
               FastPath(r, size)
        PROVE  FlowOK' /\ packets'["dc"] = packets["dc"] /\ gop'.floor = gop.floor
    <3>1. r \in Rates
      BY <1>1, RatesKept
    <3> QED BY <1>2, <2>2, <3>1, FastPathFlow
  <2>3. ASSUME NEW r \in Accrued(Recovered(rate)), QueuedVideo(size, r, g)
        PROVE  FlowOK' /\ packets'["dc"] = packets["dc"] /\ gop'.floor = gop.floor
    <3>1. r \in Rates
      BY <1>1, RatesKept
    <3>2. gop' \in Groups /\ gop'.floor = gop.floor
      BY <1>2, <2>3 DEF QueuedVideo
    <3>3. ASSUME NEW kept \in Seq(Packets), NEW x \in Rates, Enqueued("video", kept, size, x)
          PROVE  FlowOK' /\ packets'["dc"] = packets["dc"]
      <4>1. FlowOK' /\ packets' = [packets EXCEPT !["video"] = Append(kept, size)]
        BY <1>3, <3>2, <3>3, EnqueuedFlow
      <4> QED BY <1>3, <4>1 DEF FlowOK
    <3> DEFINE room == VideoCap(r, g) - size
    <3>4. room \in Int
      BY <1>2, <3>1 DEF VideoCap, AtLeast, Rates, Groups, Packets
    <3>5. CASE video_bytes <= room
      BY <1>3, <2>3, <3>1, <3>2, <3>3, <3>5 DEF QueuedVideo
    <3>6. CASE ~(video_bytes <= room)
      <4>1. PICK x \in Braked(r) :
              IF room >= 0 THEN Enqueued("video", Trimmed(packets["video"], room), size, x)
              ELSE rate' = x /\ Purged
        BY <2>3, <3>6 DEF QueuedVideo
      <4>2. x \in Rates
        BY <3>1, RatesKept
      <4> HIDE DEF room
      <4>3. CASE room >= 0
        <5>1. Trimmed(packets["video"], room) \in Seq(Packets)
          BY <1>3, <3>4, <4>3, TrimmedQueue
        <5> QED BY <3>2, <3>3, <4>1, <4>2, <4>3, <5>1
      <4>4. CASE ~(room >= 0)
        BY <3>2, <4>1, <4>2, <4>4, PurgedFlow
      <4> QED BY <4>3, <4>4
    <3> QED BY <3>5, <3>6
  <2> QED BY <1>5, <2>1, <2>2, <2>3 DEF SendVideo, g
<1> QED BY <1>4, <1>5

\* A packet of a data channel is sent or queued last.
LEMMA SendDataFlow ==
  ASSUME FlowOK, NEW size \in Packets, NEW refreshed \in Rates,
         SendData(size, refreshed), UNCHANGED stopped
  PROVE  /\ FlowOK' /\ gop' = gop
         /\ packets["dc"] # <<>> => packets'["dc"] # <<>>
<1>1. gop' = gop /\ gop \in Groups /\ packets["dc"] \in Seq(Packets) /\ "dc" \in Classes
  BY LedgerCounts DEF SendData, FlowOK, Classes
<1>2. PICK r \in Accrued(refreshed) :
        IF Covered_By(r, size) THEN FastPath(r, size)
        ELSE Enqueued("dc", packets["dc"], size, r)
  BY DEF SendData
<1>3. r \in Rates
  BY RatesKept
<1>4. CASE Covered_By(r, size)
  BY <1>1, <1>2, <1>3, <1>4, FastPathFlow
<1>5. CASE ~Covered_By(r, size)
  <2>1. FlowOK' /\ packets' = [packets EXCEPT !["dc"] = Append(packets["dc"], size)]
    BY <1>1, <1>2, <1>3, <1>5, EnqueuedFlow
  <2>2. packets'["dc"] = Append(packets["dc"], size)
    BY <1>1, <2>1 DEF FlowOK
  <2>3. Append(packets["dc"], size) # <<>>
    BY <1>1
  <2> QED BY <1>1, <2>1, <2>2, <2>3
<1> QED BY <1>4, <1>5

\* A pass leaves the packets it did not send.  It leaves the first data packet
\* only while the bucket is not full, and then sends only smaller video.
LEMMA PassFlow ==
  ASSUME FlowOK, NEW r \in Rates, Pass(r)
  PROVE  /\ packets' \in [Classes -> Seq(Packets)] /\ rate' \in Rates
         /\ bytes_queued' = Bytes(packets'["dc"]) + Bytes(packets'["video"])
         /\ video_bytes' = Bytes(packets'["video"])
         /\ packets["dc"] = <<>> => packets'["dc"] = <<>>
         /\ packets["dc"] # <<>> /\ packets'["dc"] = packets["dc"] =>
              /\ r.credit < BurstCap(r)
              /\ packets' # packets => Head(packets["video"]) \in 1 .. Head(packets["dc"]) - 1
<1> DEFINE dc == packets["dc"]
           video == packets["video"]
           ofDc == Sends(r, dc)
           afterDc == Spent(r, Bytes(SubSeq(dc, 1, ofDc)))
           ofVideo == Sends(afterDc, video)
           keptDc == Newest(dc, Len(dc) - ofDc)
           keptVideo == Newest(video, Len(video) - ofVideo)
<1>1. dc \in Seq(Packets) /\ video \in Seq(Packets) /\ Bytes(dc) \in Nat /\ Bytes(video) \in Nat
  BY LedgerCounts
<1>2. Seq(Packets) \subseteq Seq(Nat)
  BY DEF Packets
<1>3. ofDc \in 0 .. Len(dc) /\ (dc # <<>> => (ofDc # 0 <=> Affordable(r, Head(dc))))
  BY <1>1, SentOfQueue
<1>4. afterDc \in Rates
  <2>1. SubSeq(dc, 1, ofDc) \in Seq(Packets)
    <3> HIDE DEF dc, ofDc
    <3> QED BY <1>1, <1>3, PrefixOfQueue
  <2>2. Bytes(SubSeq(dc, 1, ofDc)) \in Int
    <3>1. Bytes(SubSeq(dc, 1, ofDc)) \in Nat
      BY <2>1, BytesOfPackets
    <3> QED BY <3>1
  <2> QED BY <2>2, RatesKept
<1>5. ofVideo \in 0 .. Len(video)
      /\ (video # <<>> => (ofVideo # 0 <=> Affordable(afterDc, Head(video))))
  BY <1>1, <1>4, SentOfQueue
<1>6. keptDc \in Seq(Packets) /\ Len(keptDc) = Len(dc) - ofDc /\ keptVideo \in Seq(Packets)
  <2>1. Len(dc) - ofDc \in Nat /\ Len(dc) - ofDc <= Len(dc) /\ Len(video) - ofVideo \in Nat
    BY <1>1, <1>3, <1>5
  <2> HIDE DEF ofDc, ofVideo
  <2> QED BY <1>1, <2>1, NewestOfQueue
<1>7. packets' = [packets EXCEPT !["dc"] = keptDc, !["video"] = keptVideo]
      /\ video_bytes' = video_bytes - (video_bytes - Bytes(packets'["video"]))
      /\ bytes_queued' = bytes_queued - (Bytes(dc) - Bytes(packets'["dc"]))
                                      - (video_bytes - Bytes(packets'["video"]))
      /\ rate' = Spent(afterDc, video_bytes - Bytes(packets'["video"]))
  BY DEF Pass
<1>8. ofDc = 0 => afterDc = r
  <2>1. SubSeq(dc, 1, 0) = <<>> /\ Bytes(<<>>) = 0
    BY <1>1, BytesOfQueue
  <2>2. Spent(r, 0) = r
    BY DEF Spent, Rates
  <2> HIDE DEF dc, ofDc
  <2> QED BY <2>1, <2>2
<1>9. ofVideo = 0 => keptVideo = video
  BY <1>1 DEF Newest, AtLeast
<1> HIDE DEF ofDc, ofVideo, afterDc, keptDc, keptVideo
<1>10. packets'["dc"] = keptDc /\ packets'["video"] = keptVideo
      /\ packets' \in [Classes -> Seq(Packets)]
  BY <1>6, <1>7 DEF FlowOK, Classes
<1>11. Bytes(keptDc) \in Nat /\ Bytes(keptVideo) \in Nat
  BY <1>2, <1>6, BytesOfQueue
<1>12. bytes_queued = Bytes(dc) + Bytes(video) /\ video_bytes = Bytes(video)
  BY DEF FlowOK, Ledger
<1>13. rate' \in Rates
  <2>1. video_bytes - Bytes(packets'["video"]) \in Int
    BY <1>1, <1>10, <1>11, <1>12
  <2> QED BY <1>4, <1>7, <2>1, RatesKept
<1>14. bytes_queued' = Bytes(packets'["dc"]) + Bytes(packets'["video"])
       /\ video_bytes' = Bytes(packets'["video"])
  BY <1>1, <1>7, <1>10, <1>11, <1>12
<1>15. Len(keptDc) = Len(dc) - ofDc /\ Len(dc) \in Nat /\ (dc = <<>> => Len(dc) = 0)
       /\ (keptDc # <<>> => Len(keptDc) # 0)
  BY <1>1, <1>6
<1>16. dc = <<>> => keptDc = <<>>
  BY <1>3, <1>15
<1>17. ASSUME dc # <<>>, packets'["dc"] = dc
       PROVE  /\ r.credit < BurstCap(r)
              /\ packets' # packets => Head(video) \in 1 .. Head(dc) - 1
  <2>1. ofDc = 0
    BY <1>3, <1>10, <1>15, <1>17
  <2>2. Head(dc) \in Packets /\ ~Affordable(r, Head(dc))
    BY <1>1, <1>3, <1>17, <2>1
  <2>3. r.credit < BurstCap(r) /\ \A n \in Packets : Affordable(r, n) => n < Head(dc)
    BY <2>2, SmallerAffordable
  <2>4. ASSUME packets' # packets PROVE Head(video) \in 1 .. Head(dc) - 1
    <3>1. packets'["video"] # video
      BY <1>7, <1>10, <1>17, <2>4 DEF FlowOK, Classes
    <3>2. ofVideo # 0 /\ video # <<>>
      BY <1>1, <1>5, <1>10, <1>9, <3>1
    <3>3. Head(video) \in Packets /\ Affordable(r, Head(video))
      BY <1>1, <1>5, <1>8, <2>1, <3>2
    <3> QED BY <2>2, <2>3, <3>3 DEF Packets
  <2> QED BY <2>3, <2>4
<1> QED BY <1>10, <1>13, <1>14, <1>16, <1>17

LEMMA PacerInitInv == PacerInit => PacerInv
<1> SUFFICES ASSUME PacerInit PROVE PacerInv
  OBVIOUS
<1>1. packets = [c \in Classes |-> <<>>] /\ bytes_queued = 0 /\ video_bytes = 0
      /\ gop = [dead |-> FALSE, since |-> 0, asked |-> 1, floor |-> 0,
                idr_sizes |-> <<>>, due |-> FALSE]
      /\ drain = FALSE /\ picture = 0 /\ stopped = FALSE
      /\ parked = [d \in Channels |-> NoPacket] /\ clock = [due |-> FALSE, waited |-> 0]
  BY DEF PacerInit
<1>2. packets \in [Classes -> Seq(Packets)] /\ packets["dc"] = <<>> /\ packets["video"] = <<>>
  <2>1. <<>> \in Seq(Packets) /\ "dc" \in Classes /\ "video" \in Classes
    BY DEF Classes
  <2>2. \A c \in Classes : packets[c] = <<>>
    BY <1>1
  <2> QED BY <1>1, <2>1, <2>2
<1>3. rate \in Rates
  <2>1. PICK bps \in Encoders :
          rate = Refreshed([encoder |-> bps, pace |-> MinPace, overflowed |-> FALSE,
                            credit |-> 0, quiet |-> 2], bps)
    BY DEF PacerInit
  <2>2. bps \in Packets /\ MinPace \in Nat
    BY PacerAssumption DEF Packets
  <2>3. [encoder |-> bps, pace |-> MinPace, overflowed |-> FALSE,
         credit |-> 0, quiet |-> 2] \in Rates
    BY <2>2 DEF Rates
  <2> QED BY <2>1, <2>2, <2>3, RatesKept
<1>4. gop \in Groups
  BY <1>1 DEF Groups
<1>5. parked \in [Channels -> [size: Nat, waits: BOOLEAN]]
      /\ clock \in [due: BOOLEAN, waited: 0 .. 2]
  BY <1>1 DEF NoPacket
<1>6. FlowOK
  <2>1. drain \in BOOLEAN
    BY <1>1
  <2>2. Ledger
    BY <1>1, <1>2, BytesOfQueue DEF Ledger
  <2> QED BY <1>2, <1>3, <1>4, <2>1, <2>2 DEF FlowOK
<1>7. picture <= gop.floor
  BY <1>1
<1>8. clock.waited = 0 /\ picture \in Nat /\ stopped \in BOOLEAN
  BY <1>1
<1>9. Punctual
  BY <1>8 DEF Punctual, Prompt
<1> QED BY <1>5, <1>6, <1>7, <1>8, <1>9 DEF PacerInv, PacerTypeOK

\* The steps that send a packet of video.
LEMMA VideoStep ==
  ASSUME PacerInv, SendVideo(1), picture' \in Nat, picture' <= picture,
         UNCHANGED <<parked, stopped, clock>>
  PROVE  PacerInv'
<1>1. FlowOK /\ 1 \in Packets /\ picture <= gop.floor /\ picture \in Nat /\ gop.floor \in Nat
  BY DEF PacerInv, PacerTypeOK, FlowOK, Groups, Packets
<1>2. FlowOK' /\ packets'["dc"] = packets["dc"] /\ gop'.floor = gop.floor
  BY <1>1, SendVideoFlow
<1>3. picture' <= gop'.floor
  BY <1>1, <1>2
<1> QED BY <1>2, <1>3 DEF PacerInv, PacerTypeOK, Punctual, Prompt

\* The steps that send a packet of a data channel.
LEMMA DataStep ==
  ASSUME PacerInv, NEW size \in Packets, NEW refreshed \in Rates,
         SendData(size, refreshed), parked' \in [Channels -> [size: Nat, waits: BOOLEAN]],
         UNCHANGED <<picture, stopped, clock>>
  PROVE  PacerInv'
<1>1. FlowOK' /\ gop' = gop /\ (packets["dc"] # <<>> => packets'["dc"] # <<>>)
  BY SendDataFlow DEF PacerInv
<1> QED BY <1>1 DEF PacerInv, PacerTypeOK, Punctual, Prompt

LEMMA DrainStep == ASSUME PacerInv, DrainRuns PROVE PacerInv'
<1>1. PICK r \in Accrued(Recovered(rate)) :
        /\ Awakes /\ Pass(r)
        /\ parked' = IF bytes_queued' <= LowWater THEN LetThrough ELSE parked
        /\ drain' = (bytes_queued' # 0)
        /\ clock' = [due |-> clock.due /\ packets' = packets /\ r.credit < BurstCap(r),
                     waited |-> IF PassedOver THEN clock.waited ELSE 0]
        /\ UNCHANGED <<gop, stopped, spare>>
  BY DEF DrainRuns
<1>2. FlowOK /\ r \in Rates
  BY RatesKept DEF PacerInv, FlowOK
<1>3. /\ packets' \in [Classes -> Seq(Packets)] /\ rate' \in Rates
      /\ bytes_queued' = Bytes(packets'["dc"]) + Bytes(packets'["video"])
      /\ video_bytes' = Bytes(packets'["video"])
      /\ packets["dc"] = <<>> => packets'["dc"] = <<>>
      /\ packets["dc"] # <<>> /\ packets'["dc"] = packets["dc"] =>
           /\ r.credit < BurstCap(r)
           /\ packets' # packets => Head(packets["video"]) \in 1 .. Head(packets["dc"]) - 1
  BY <1>1, <1>2, PassFlow
<1>4. picture' = picture
  BY <1>1 DEF Awakes, Yields
<1>5. FlowOK'
  <2>1. bytes_queued' > 0 => drain'
    <3>1. bytes_queued' # 0 => drain'
      BY <1>1, Zenon
    <3> QED BY <3>1
  <2>2. drain' \in BOOLEAN /\ gop' \in Groups
    BY <1>1, <1>2 DEF FlowOK
  <2> QED BY <1>3, <2>1, <2>2 DEF FlowOK, Ledger
<1>6. PacerTypeOK'
  <2>1. LetThrough \in [Channels -> [size: Nat, waits: BOOLEAN]]
    BY DEF LetThrough, PacerInv, PacerTypeOK
  <2>2. parked' \in [Channels -> [size: Nat, waits: BOOLEAN]]
    BY <1>1, <2>1 DEF PacerInv, PacerTypeOK
  <2>3. (clock.due /\ packets' = packets /\ r.credit < BurstCap(r)) \in BOOLEAN
    BY Zenon
  <2>4. clock' \in [due: BOOLEAN, waited: 0 .. 2]
    BY <1>1, <2>3 DEF PacerInv, PacerTypeOK
  <2> QED BY <1>1, <1>4, <2>2, <2>4 DEF PacerInv, PacerTypeOK
<1>7. Punctual'
  <2>1. clock.waited \in 0 .. 2 /\ Punctual
    BY DEF PacerInv, PacerTypeOK
  <2>2. CASE PassedOver /\ clock.waited > 0
    <3>1. packets["dc"] # <<>> /\ clock.due /\ clock.waited <= 1
      BY <2>1, <2>2 DEF Punctual, Prompt
    <3>2. packets'["dc"] = packets["dc"]
      BY <2>2 DEF PassedOver
    <3>3. Head(packets["dc"]) \in Packets
      BY <3>1, LedgerCounts, <1>2
    <3>4. packets' = packets
      <4>1. CASE packets' # packets
        <5>1. Head(packets["video"]) >= Head(packets["dc"])
          BY <2>2, <4>1 DEF PassedOver
        <5>2. Head(packets["video"]) \in 1 .. Head(packets["dc"]) - 1
          BY <1>3, <3>1, <3>2, <4>1
        <5> QED BY <3>3, <5>1, <5>2 DEF Packets
      <4> QED BY <4>1
    <3>5. r.credit < BurstCap(r)
      BY <1>3, <3>1, <3>2
    <3>6. clock'.due /\ clock'.waited = clock.waited
      BY <1>1, <2>2, <3>1, <3>4, <3>5
    <3> QED BY <2>1, <3>1, <3>2, <3>6 DEF Punctual, Prompt
  <2>3. CASE ~(PassedOver /\ clock.waited > 0)
    <3>1. clock'.waited = 0
      BY <1>1, <2>1, <2>3
    <3> QED BY <3>1 DEF Punctual, Prompt
  <2> QED BY <2>2, <2>3
<1> QED BY <1>1, <1>4, <1>5, <1>6, <1>7 DEF PacerInv

LEMMA SendFailsStep == ASSUME PacerInv, SendFails PROVE PacerInv'
<1>1. PICK r \in Accrued(Recovered(rate)), sent \in Seq(Packets), n \in Nat :
        /\ rate' \in IF gop.dead THEN {Spent(r, Bytes(SubSeq(sent, 1, n)))}
                     ELSE Braked(Spent(r, Bytes(SubSeq(sent, 1, n))))
        /\ n \in 1 .. Len(sent) /\ Awakes
  <2>1. PICK r \in Accrued(Recovered(rate)) :
          LET dc == packets["dc"]
              video == packets["video"]
              ofDc == Sends(r, dc)
              ofVideo == Sends(Spent(r, Bytes(SubSeq(dc, 1, ofDc))), video)
              sent == SubSeq(dc, 1, ofDc) \o SubSeq(video, 1, ofVideo) IN
          /\ Awakes
          /\ \E n \in 1 .. Len(sent) :
               LET failed == Spent(r, Bytes(SubSeq(sent, 1, n))) IN
               rate' \in IF gop.dead THEN {failed} ELSE Braked(failed)
    BY DEF SendFails
  <2> DEFINE dc == packets["dc"]
             video == packets["video"]
             ofDc == Sends(r, dc)
             ofVideo == Sends(Spent(r, Bytes(SubSeq(dc, 1, ofDc))), video)
             sent == SubSeq(dc, 1, ofDc) \o SubSeq(video, 1, ofVideo)
  <2>2. dc \in Seq(Packets) /\ video \in Seq(Packets) /\ r \in Rates
    BY LedgerCounts, RatesKept DEF PacerInv, FlowOK
  <2>3. SubSeq(dc, 1, ofDc) \in Seq(Packets)
    BY <2>2, SentOfQueue, PrefixOfQueue
  <2>4. Bytes(SubSeq(dc, 1, ofDc)) \in Int
    <3>1. Bytes(SubSeq(dc, 1, ofDc)) \in Nat
      BY <2>3, BytesOfPackets
    <3> QED BY <3>1
  <2>5. Spent(r, Bytes(SubSeq(dc, 1, ofDc))) \in Rates
    BY <2>2, <2>4, RatesKept
  <2>6. SubSeq(video, 1, ofVideo) \in Seq(Packets)
    BY <2>2, <2>5, SentOfQueue, PrefixOfQueue
  <2>7. sent \in Seq(Packets)
    BY <2>3, <2>6
  <2>8. \E n \in 1 .. Len(sent) :
          rate' \in IF gop.dead THEN {Spent(r, Bytes(SubSeq(sent, 1, n)))}
                    ELSE Braked(Spent(r, Bytes(SubSeq(sent, 1, n))))
    BY <2>1
  <2> HIDE DEF sent
  <2>9. \A n \in 1 .. Len(sent) : n \in Nat
    OBVIOUS
  <2> QED BY <2>1, <2>7, <2>8, <2>9
<1>2. rate' \in Rates
  <2>1. SubSeq(sent, 1, n) \in Seq(Packets)
    BY <1>1, PrefixOfQueue
  <2>2. Bytes(SubSeq(sent, 1, n)) \in Nat
    BY <2>1, BytesOfPackets
  <2>3. r \in Rates /\ Bytes(SubSeq(sent, 1, n)) \in Int
    BY <2>2, RatesKept DEF PacerInv, FlowOK
  <2>4. Spent(r, Bytes(SubSeq(sent, 1, n))) \in Rates
    BY <2>3, RatesKept
  <2> QED BY <1>1, <2>4, RatesKept
<1>3. gop' \in Groups /\ gop'.floor = gop.floor
  BY GroupsKept DEF SendFails, PacerInv, FlowOK
<1>4. packets' = [c \in Classes |-> <<>>] /\ bytes_queued' = 0 /\ video_bytes' = 0
      /\ parked' = LetThrough /\ drain' = FALSE /\ UNCHANGED stopped
      /\ clock' = [due |-> FALSE, waited |-> 0]
  BY DEF SendFails
<1>5. picture' = picture
  BY <1>1 DEF Awakes, Yields
<1>6. packets' \in [Classes -> Seq(Packets)] /\ packets'["dc"] = <<>> /\ packets'["video"] = <<>>
  <2>1. <<>> \in Seq(Packets) /\ "dc" \in Classes /\ "video" \in Classes
    BY DEF Classes
  <2>2. \A c \in Classes : packets'[c] = <<>>
    BY <1>4
  <2> QED BY <1>4, <2>1, <2>2
<1>7. FlowOK'
  <2>1. drain' \in BOOLEAN
    BY <1>4
  <2>2. Ledger'
    BY <1>4, <1>6, BytesOfQueue DEF Ledger
  <2> QED BY <1>2, <1>3, <1>6, <2>1, <2>2 DEF FlowOK
<1>8. LetThrough \in [Channels -> [size: Nat, waits: BOOLEAN]]
  BY DEF LetThrough, PacerInv, PacerTypeOK
<1>9. clock' \in [due: BOOLEAN, waited: 0 .. 2] /\ clock'.waited = 0
  BY <1>4 DEF PacerInv, PacerTypeOK
<1> QED BY <1>3, <1>4, <1>5, <1>7, <1>8, <1>9 DEF PacerInv, PacerTypeOK, Punctual, Prompt

LEMMA TickStep == ASSUME PacerInv, Tick PROVE PacerInv'
<1>1. UNCHANGED <<packets, bytes_queued, video_bytes, drain, parked, stopped, picture>>
      /\ ~clock.due
      /\ clock' = [due |-> packets["dc"] # <<>>,
                   waited |-> IF packets["dc"] = <<>> THEN 0 ELSE AtMost(clock.waited + 1, 2)]
  BY DEF Tick, Yields
<1>2. clock.waited \in 0 .. 2 /\ gop \in Groups /\ rate \in Rates /\ FlowOK
  BY DEF PacerInv, PacerTypeOK, FlowOK
<1>3. rate' \in Rates
  <2>1. rate.quiet \in 0 .. 2
    BY <1>2 DEF Rates
  <2>2. AtMost(rate.quiet + 1, 2) \in 0 .. 2
    BY <2>1 DEF AtMost
  <2> QED BY <1>2, <2>2 DEF Tick, Rates
<1>4. gop' \in Groups /\ gop'.floor = gop.floor
  <2> DEFINE asked == [gop EXCEPT !.asked = 1]
             since == IF gop.dead THEN AtMost(gop.since + 1, 2) ELSE gop.since
  <2>1. gop.since \in 0 .. 2
    BY <1>2 DEF Groups
  <2>2. since \in 0 .. 2
    BY <2>1 DEF AtMost
  <2>3. asked \in Groups /\ asked.floor = gop.floor
    BY <1>2 DEF Groups
  <2>4. gop' = [asked EXCEPT !.since = since]
    BY DEF Tick
  <2> HIDE DEF asked, since
  <2> QED BY <2>2, <2>3, <2>4 DEF Groups
<1>5. FlowOK'
  BY <1>1, <1>2, <1>3, <1>4 DEF FlowOK, Ledger
<1>6. clock.waited = 0
  BY <1>1, <1>2 DEF PacerInv, Punctual
<1>7. clock'.waited \in 0 .. 1
      /\ (clock'.waited > 0 => packets["dc"] # <<>> /\ clock'.due)
  <2>1. clock'.waited = IF packets["dc"] = <<>> THEN 0 ELSE AtMost(0 + 1, 2)
    BY <1>1, <1>6
  <2>2. clock'.waited = IF packets["dc"] = <<>> THEN 0 ELSE 1
    BY <2>1 DEF AtMost
  <2>3. packets["dc"] # <<>> => clock'.due
    BY <1>1, Zenon
  <2> QED BY <2>2, <2>3
<1>8. (packets["dc"] # <<>>) \in BOOLEAN
  BY Zenon
<1>9. clock' \in [due: BOOLEAN, waited: 0 .. 2]
  BY <1>1, <1>7, <1>8
<1> QED BY <1>1, <1>4, <1>5, <1>7, <1>9
        DEF PacerInv, PacerTypeOK, Punctual, Prompt

LEMMA PacerStep == PacerInv /\ [PacerNext]_pacerVars => PacerInv'
<1> SUFFICES ASSUME PacerInv, [PacerNext]_pacerVars PROVE PacerInv'
  OBVIOUS
<1>0. /\ FlowOK /\ gop \in Groups /\ rate \in Rates /\ Recovered(rate) \in Rates
      /\ picture \in Nat /\ picture <= gop.floor /\ gop.floor \in Nat
      /\ parked \in [Channels -> [size: Nat, waits: BOOLEAN]]
      /\ LetThrough \in [Channels -> [size: Nat, waits: BOOLEAN]]
  BY RatesKept DEF PacerInv, PacerTypeOK, FlowOK, Groups, LetThrough
<1>1. ASSUME NEW size \in KeySizes, Keyframe(size) PROVE PacerInv'
  <2>1. size \in Packets /\ size \in Nat
    BY PacerAssumption DEF Packets
  <2>2. UNCHANGED <<packets, bytes_queued, video_bytes, rate, drain, parked,
                    stopped, clock>> /\ picture' = size
    BY <1>1 DEF Keyframe
  <2>3. gop' \in Groups /\ size <= gop'.floor
    <3> DEFINE noted == Noted(gop, size)
    <3>1. noted \in Groups /\ size <= noted.floor
      BY <1>0, <2>1, NotedGroup
    <3>2. PICK answers \in {FALSE, gop.due} :
            gop' = [noted EXCEPT !.due = @ /\ ~answers]
      BY <1>1 DEF Keyframe
    <3> HIDE DEF noted
    <3>3. (noted.due /\ ~answers) \in BOOLEAN
      BY <3>1, Zenon DEF Groups
    <3> QED BY <3>1, <3>2, <3>3 DEF Groups
  <2>4. FlowOK'
    BY <1>0, <2>2, <2>3 DEF FlowOK, Ledger
  <2> QED BY <2>1, <2>2, <2>3, <2>4 DEF PacerInv, PacerTypeOK, Punctual, Prompt
<1>2. CASE KeyframePacket
  <2>1. picture' = picture - 1 /\ picture > 0 /\ SendVideo(1)
        /\ UNCHANGED <<parked, stopped, clock>>
    BY <1>2 DEF KeyframePacket
  <2>2. picture' \in Nat /\ picture' <= picture
    BY <1>0, <2>1
  <2> QED BY <2>1, <2>2, VideoStep
<1>3. CASE DeltaFrame
  BY <1>0, <1>3, VideoStep DEF DeltaFrame, Yields
<1>4. ASSUME NEW d \in Channels, NEW size \in DcSizes, DataPacket(d, size) PROVE PacerInv'
  <2>1. size \in Packets /\ size \in Nat
    BY PacerAssumption DEF Packets
  <2>2. UNCHANGED <<picture, stopped, clock>>
    BY <1>4 DEF DataPacket, Yields
  <2>3. CASE bytes_queued >= HighWater
    <3>1. parked' = [parked EXCEPT ![d] = [size |-> size, waits |-> TRUE]]
          /\ rate' = Recovered(rate) /\ drain' = TRUE
          /\ UNCHANGED <<packets, bytes_queued, video_bytes, gop>>
      BY <1>4, <2>3 DEF DataPacket, Kicks
    <3>2. parked' \in [Channels -> [size: Nat, waits: BOOLEAN]]
      BY <1>0, <2>1, <3>1
    <3>3. FlowOK'
      BY <1>0, <3>1 DEF FlowOK, Ledger
    <3> QED BY <2>2, <3>1, <3>2, <3>3 DEF PacerInv, PacerTypeOK, Punctual, Prompt
  <2>4. CASE ~(bytes_queued >= HighWater)
    <3>1. SendData(size, Recovered(rate)) /\ UNCHANGED parked
      BY <1>4, <2>4 DEF DataPacket
    <3> QED BY <1>0, <2>1, <2>2, <3>1, DataStep
  <2> QED BY <2>3, <2>4
<1>5. ASSUME NEW d \in Channels, WaitTimesOut(d) PROVE PacerInv'
  <2>1. parked' \in [Channels -> [size: Nat, waits: BOOLEAN]]
    BY <1>0, <1>5 DEF WaitTimesOut
  <2> QED BY <1>5, <2>1 DEF WaitTimesOut, Yields, flowVars, PacerInv, FlowOK, PacerTypeOK,
                            Ledger, Punctual, Prompt
<1>6. ASSUME NEW d \in Channels, Resumes(d) PROVE PacerInv'
  <2>1. UNCHANGED <<picture, stopped, clock>> /\ parked[d].size \in Packets
    BY <1>0, <1>6 DEF Resumes, Yields, Packets
  <2>2. parked' \in [Channels -> [size: Nat, waits: BOOLEAN]]
    BY <1>0, <1>6 DEF Resumes, NoPacket
  <2>3. CASE stopped
    BY <1>6, <2>1, <2>2, <2>3 DEF Resumes, flowVars, PacerInv, FlowOK, PacerTypeOK,
                                  Ledger, Punctual, Prompt
  <2>4. CASE ~stopped
    <3>1. SendData(parked[d].size, rate)
      BY <1>6, <2>4 DEF Resumes
    <3> QED BY <1>0, <2>1, <2>2, <3>1, DataStep
  <2> QED BY <2>3, <2>4
<1>7. ASSUME NEW bps \in Encoders, SetEncoder(bps) PROVE PacerInv'
  <2>1. bps \in Packets
    BY PacerAssumption DEF Packets
  <2>2. rate' \in Rates
    BY <1>0, <1>7, <2>1, RatesKept DEF SetEncoder
  <2> QED BY <1>7, <2>2 DEF SetEncoder, Yields, PacerInv, FlowOK, PacerTypeOK, Ledger,
                            Punctual, Prompt
<1>8. CASE CloseDown
  <2>1. UNCHANGED <<packets, bytes_queued, video_bytes, rate, gop, clock, picture>>
        /\ stopped' = TRUE /\ parked' = LetThrough /\ drain' = FALSE
    BY <1>8 DEF CloseDown, Yields
  <2> QED BY <1>0, <2>1 DEF PacerInv, FlowOK, PacerTypeOK, Ledger, Punctual, Prompt
<1>9. CASE UNCHANGED pacerVars
  BY <1>9 DEF pacerVars, flowVars, PacerInv, FlowOK, PacerTypeOK, Ledger, Punctual, Prompt
<1> QED BY <1>1, <1>2, <1>3, <1>4, <1>5, <1>6, <1>7, <1>8, <1>9,
           DrainStep, SendFailsStep, TickStep DEF PacerNext

LEMMA PacerInvariant == PacerSpec => []PacerInv
<1> QED BY PacerInitInv, PacerStep, PTL DEF PacerSpec

\* Whatever is sent, trimmed, purged or lost with a failed send, the counters the
\* pacer decides by are those of its queues, and a queue that is not empty has a
\* drain task: for all sizes, bitrates and budgets.
THEOREM CountersOfQueues == PacerSpec => []Ledger
<1>1. PacerInv => Ledger
  BY DEF PacerInv, FlowOK
<1> QED BY <1>1, PacerInvariant, PTL

\* The video budget covers what is left of a keyframe, after any brake, change of
\* the bitrate and smaller keyframe: Noted raises the floor to what the keyframe
\* being sent needs, and no other step lowers it.
THEOREM BudgetCoversKeyframe == PacerSpec => []KeyframeFits
<1>1. PacerInv => KeyframeFits
  <2> SUFFICES ASSUME PacerInv PROVE picture <= AtLeast(rate.pace, gop.floor)
    BY DEF KeyframeFits, VideoCap
  <2>1. picture \in Nat /\ gop.floor \in Nat /\ rate.pace \in Nat /\ picture <= gop.floor
    BY DEF PacerInv, PacerTypeOK, FlowOK, Groups, Rates
  <2> QED BY <2>1 DEF AtLeast
<1> QED BY <1>1, PacerInvariant, PTL

\* No whole half second passes over a data-channel packet, however wide and
\* whatever the brakes do, in which it neither leaves nor is overtaken by a smaller
\* packet of video: a bucket that is full sends it, and credit that does not cover
\* it covers only smaller packets.
THEOREM DataPacketsPrompt == PacerSpec => []Prompt
<1>1. PacerInv => Prompt
  BY DEF PacerInv, Punctual
<1> QED BY <1>1, PacerInvariant, PTL
-----------------------------------------------------------------------------
(* The invariant of the peers *)

Steps == {"done", "pop", "tear", "reap", "close", "notify", "offer"}
Stages == [do: Steps, of: Peers \cup {NoPeer}, left: SUBSET Watchers]

RtcTypeOK ==
  /\ peer_connections \subseteq Peers
  /\ conn \in [Peers -> {"none", "new", "connected", "closed"}]
  /\ displays \in Drivers \cup {NoPeer}
  /\ feeds \in [Peers -> Drivers \cup {NoPeer}]
  /\ at \in [Closers -> Stages]
  /\ signaled \in [started: SUBSET Peers, ended: SUBSET Peers,
                   link: {"up", "down", "stopping"}, doomed: SUBSET Peers]
  /\ past \in [input: [Peers -> {"none", "held", "released", "twice"}],
               strayed: SUBSET Peers, failed: BOOLEAN, cut: BOOLEAN]
  /\ calling \in BOOLEAN

Offered(p) == at[Signal].do = "offer" /\ at[Signal].of = p
InPlay(p) == p \in peer_connections \/ Offered(p)
LivePeer(c) == InPlay(c) /\ conn[c] # "closed"

\* A handler of "closed" is about its own peer, a token update about one.
HandlersOK ==
  /\ \A p \in Peers : at[Lost(p)].do # "done" =>
       /\ at[Lost(p)].of = p /\ conn[p] = "closed" /\ at[Lost(p)].do # "offer"
       /\ p \in signaled.started
  /\ at[Hook].do # "done" => at[Hook].of \in Peers /\ at[Hook].do # "offer"

OfferOK ==
  at[Signal].do = "offer" => /\ at[Signal].of \in signaled.started \ signaled.ended
                             /\ at[Signal].of \notin peer_connections
                             /\ conn[at[Signal].of] = "new"

\* Only stop_all tears a graph down for no peer, when none is left.
StopsAllOK ==
  at[Signal].do # "done" /\ at[Signal].of = NoPeer =>
    /\ peer_connections = {} /\ signaled.link = "stopping"
    /\ at[Signal].do \in {"tear", "reap", "close", "notify"}
    /\ at[Signal].do # "tear" => displays = NoPeer

\* A peer that is to be popped, or a viewer that is to be closed, was registered
\* before.
TeardownsOK ==
  \A t \in Closers :
    /\ at[t].do = "pop" => at[t].of \in signaled.started /\ conn[at[t].of] = "closed"
    /\ at[t].do \in {"tear", "reap", "close"} => at[t].of \in Drivers \cup {NoPeer}
    /\ \A v \in at[t].left : v \in signaled.started /\ ~Offered(v)

\* A controller that was succeeded is gone, or being popped by the client that
\* ended its session: one controller at a time is registered or offered.
SessionsOK ==
  /\ peer_connections \subseteq signaled.started /\ signaled.ended \subseteq signaled.started
  /\ \A c \in Drivers \cap signaled.ended :
       c \in peer_connections => at[Signal].do = "pop" /\ at[Signal].of = c
  /\ \A c, d \in Drivers : InPlay(c) /\ InPlay(d) => c = d
  /\ signaled.link = "stopping" =>
       /\ at[Signal].do # "offer"
       /\ \A p \in peer_connections \ signaled.doomed :
            at[Signal].do = "pop" /\ at[Signal].of = p

\* A teardown that takes whatever graph it finds leaves a controller without
\* one only when it had begun before that controller's session.
GraphOK ==
  /\ \A c \in Drivers : LivePeer(c) /\ c \notin past.strayed => displays = c
  /\ \A t \in Closers :
       at[t].do = "tear" \/ (t \in {Signal, Hook} /\ at[t].do = "pop" /\ at[t].of \in Drivers)
         => \A c \in Drivers : LivePeer(c) => c \in past.strayed

InputOK ==
  \A p \in Peers : /\ past.input[p] # "twice"
                   /\ past.input[p] = "held" <=> p \in peer_connections

\* A graph is going to be torn down.
TearPending ==
  \E t \in Closers :
    \/ at[t].do = "tear"
    \/ /\ at[t].do = "pop" /\ at[t].of \in Drivers
       /\ at[t].of \in peer_connections \/ t # Lost(at[t].of)

\* A viewer is going to be popped.
Doomed(v) ==
  \E t \in Closers : \/ at[t].do = "reap"
                     \/ at[t].do = "close" /\ v \in at[t].left
                     \/ at[t].do = "pop" /\ at[t].of = v

ViewersOK ==
  /\ \A p \in peer_connections : conn[p] = "closed" => at[Lost(p)].do = "pop"
  /\ \A v \in Watchers : InPlay(v) => feeds[v] # NoPeer
  /\ signaled.link = "up" /\ displays # NoPeer => InPlay(displays) \/ TearPending
  /\ signaled.link = "up" =>
       \A v \in (peer_connections \cap Watchers) \ past.strayed :
         feeds[v] = displays \/ Doomed(v) \/ (TearPending /\ displays # NoPeer)

TasksOK == HandlersOK /\ OfferOK /\ StopsAllOK /\ TeardownsOK
RtcInv == RtcTypeOK /\ TasksOK /\ SessionsOK /\ GraphOK /\ InputOK /\ ViewersOK

\* The closers are different tasks, none of them of two peers.
LEMMA ClosersDiffer ==
  /\ Signal \in Closers /\ Hook \in Closers /\ \A p \in Peers : Lost(p) \in Closers
  /\ Signal # Hook /\ \A p \in Peers : Lost(p) # Signal /\ Lost(p) # Hook
  /\ \A p, q \in Peers : Lost(p) = Lost(q) => p = q
  /\ \A t \in Closers : t = Signal \/ t = Hook \/ \E p \in Peers : t = Lost(p)
  /\ NoPeer \notin Peers /\ Drivers \subseteq Peers /\ Watchers \subseteq Peers
  /\ Drivers \cap Watchers = {} /\ \A p \in Peers : p \in Drivers \/ p \in Watchers
<1>1. Signal \in Closers /\ Hook \in Closers /\ \A p \in Peers : Lost(p) \in Closers
  BY DEF Closers
<1>2. Signal # Hook /\ \A p \in Peers : Lost(p) # Signal /\ Lost(p) # Hook
  BY DEF Signal, Hook, Lost
<1>3. \A p, q \in Peers : Lost(p) = Lost(q) => p = q
  BY DEF Lost
<1>4. \A t \in Closers : t = Signal \/ t = Hook \/ \E p \in Peers : t = Lost(p)
  BY DEF Closers
<1>5. NoPeer \notin Peers /\ Drivers \subseteq Peers /\ Watchers \subseteq Peers
      /\ Drivers \cap Watchers = {} /\ \A p \in Peers : p \in Drivers \/ p \in Watchers
  BY RtcAssumption DEF Peers
<1> QED BY <1>1, <1>2, <1>3, <1>4, <1>5

LEMMA RtcInitInv == RtcInit => RtcInv
<1> SUFFICES ASSUME RtcInit PROVE RtcInv
  OBVIOUS
<1>1. /\ peer_connections = {} /\ displays = NoPeer
      /\ conn = [p \in Peers |-> "none"] /\ feeds = [p \in Peers |-> NoPeer]
      /\ calling = FALSE
      /\ at = [t \in Closers |-> Does("done", NoPeer)]
      /\ signaled = [started |-> {}, ended |-> {}, link |-> "up", doomed |-> {}]
      /\ past = [input |-> [p \in Peers |-> "none"], strayed |-> {},
                 failed |-> FALSE, cut |-> FALSE]
  BY DEF RtcInit
<1>2. \A t \in Closers : at[t] \in Stages /\ at[t].do = "done" /\ at[t].left = {}
  BY <1>1 DEF Does, Stages, Steps
<1>3. /\ signaled.started = {} /\ signaled.ended = {} /\ signaled.link = "up"
      /\ past.strayed = {} /\ \A p \in Peers : past.input[p] = "none"
  BY <1>1
<1>4. RtcTypeOK
  BY <1>1, <1>2 DEF RtcTypeOK
<1>5. at[Signal].do = "done" /\ at[Hook].do = "done" /\ \A p \in Peers : at[Lost(p)].do = "done"
  BY <1>2, ClosersDiffer
<1>6. TasksOK
  BY <1>1, <1>2, <1>5 DEF TasksOK, HandlersOK, OfferOK, StopsAllOK, TeardownsOK, Offered
<1>7. SessionsOK
  BY <1>1, <1>3, <1>5 DEF SessionsOK, InPlay, Offered
<1>8. GraphOK
  BY <1>1, <1>2, <1>5 DEF GraphOK, LivePeer, InPlay, Offered
<1>9. InputOK
  BY <1>1, <1>3 DEF InputOK
<1>10. ViewersOK
  BY <1>1, <1>2, <1>5 DEF ViewersOK, InPlay, Offered
<1> QED BY <1>4, <1>6, <1>7, <1>8, <1>9, <1>10 DEF RtcInv

\* The steps of the lock and of the channels leave the peers as they are.
LEMMA PeersKept ==
  ASSUME RtcInv, calling' \in BOOLEAN,
         past' \in [input: [Peers -> {"none", "held", "released", "twice"}],
                    strayed: SUBSET Peers, failed: BOOLEAN, cut: BOOLEAN],
         past'.input = past.input, past'.strayed = past.strayed,
         UNCHANGED <<peer_connections, conn, displays, feeds, at, signaled>>
  PROVE  RtcInv'
<1>1. UNCHANGED <<peer_connections, conn, displays, feeds, at, signaled>>
  OBVIOUS
<1>2. RtcTypeOK'
  BY <1>1 DEF RtcInv, RtcTypeOK
<1>3. TasksOK' /\ SessionsOK'
  BY <1>1 DEF RtcInv, TasksOK, HandlersOK, OfferOK, StopsAllOK, TeardownsOK, SessionsOK,
                InPlay, Offered
<1>4. GraphOK' /\ InputOK'
  BY <1>1 DEF RtcInv, GraphOK, InputOK, LivePeer, InPlay, Offered
<1>5. ViewersOK'
  BY <1>1 DEF RtcInv, ViewersOK, InPlay, Offered, TearPending, Doomed
<1> QED BY <1>2, <1>3, <1>4, <1>5 DEF RtcInv

\* A connection that closes is closed, and its handler is to pop a peer that was
\* registered and not closed yet.
LEMMA Closing ==
  ASSUME RtcInv, NEW p \in Peers, NEW stages \in [Closers -> Stages],
         ConnectionCloses(p, stages), stages[Lost(p)] = at[Lost(p)]
  PROVE  /\ conn' \in [Peers -> {"none", "new", "connected", "closed"}]
         /\ conn'[p] = "closed" /\ \A q \in Peers \ {p} : conn'[q] = conn[q]
         /\ at' \in [Closers -> Stages] /\ \A t \in Closers \ {Lost(p)} : at'[t] = stages[t]
         /\ at'[Lost(p)] = IF p \in peer_connections THEN at'[Lost(p)] ELSE at[Lost(p)]
         /\ p \in peer_connections => at'[Lost(p)].do = "pop" /\ at'[Lost(p)].of = p
                                      /\ at'[Lost(p)].left \subseteq at[Lost(p)].left
         /\ at[Lost(p)].do # "done" => at'[Lost(p)] = at[Lost(p)]
         /\ past' \in [input: [Peers -> {"none", "held", "released", "twice"}],
                       strayed: SUBSET Peers, failed: BOOLEAN, cut: BOOLEAN]
         /\ past'.input = past.input /\ past'.strayed = past.strayed
         /\ calling' \in BOOLEAN
<1>1. RtcTypeOK /\ Lost(p) \in Closers
  BY ClosersDiffer DEF RtcInv
<1>2. p \in peer_connections /\ conn[p] = "closed" => at[Lost(p)].do = "pop" /\ at[Lost(p)].of = p
  BY DEF RtcInv, ViewersOK, TasksOK, HandlersOK
<1>3. CASE conn[p] = "closed"
  BY <1>1, <1>2, <1>3 DEF ConnectionCloses, RtcTypeOK
<1>4. CASE conn[p] # "closed"
  <2>1. conn' = [conn EXCEPT ![p] = "closed"]
        /\ at' = (IF p \in peer_connections THEN [stages EXCEPT ![Lost(p)] = Does("pop", p)]
                  ELSE stages)
        /\ past' = [past EXCEPT !.cut = @ \/ CutOff(p)]
        /\ calling' = (calling /\ ~CutOff(p))
    BY <1>4 DEF ConnectionCloses
  <2>2. (past.cut \/ CutOff(p)) \in BOOLEAN /\ (calling /\ ~CutOff(p)) \in BOOLEAN
    BY <1>1, Zenon DEF RtcTypeOK, CutOff
  <2>3. /\ past' \in [input: [Peers -> {"none", "held", "released", "twice"}],
                      strayed: SUBSET Peers, failed: BOOLEAN, cut: BOOLEAN]
        /\ past'.input = past.input /\ past'.strayed = past.strayed
    BY <1>1, <2>1, <2>2 DEF RtcTypeOK
  <2>4. Does("pop", p) \in Stages /\ Does("pop", p).do = "pop" /\ Does("pop", p).of = p
        /\ Does("pop", p).left = {}
    BY DEF Does, Stages, Steps
  <2>5. at[Lost(p)].do = "done"
    BY <1>4 DEF RtcInv, TasksOK, HandlersOK
  <2>6. conn' \in [Peers -> {"none", "new", "connected", "closed"}]
        /\ conn'[p] = "closed" /\ \A q \in Peers \ {p} : conn'[q] = conn[q]
    BY <1>1, <2>1 DEF RtcTypeOK
  <2>7. at' \in [Closers -> Stages] /\ (\A t \in Closers \ {Lost(p)} : at'[t] = stages[t])
        /\ (p \in peer_connections => at'[Lost(p)] = Does("pop", p))
        /\ (p \notin peer_connections => at'[Lost(p)] = at[Lost(p)])
    BY <1>1, <2>1, <2>4
  <2> QED BY <2>1, <2>2, <2>3, <2>4, <2>5, <2>6, <2>7
<1> QED BY <1>3, <1>4

\* PeerVanishes
LEMMA VanishStep ==
  ASSUME RtcInv, NEW p \in Peers, PeerVanishes(p)
  PROVE  RtcInv'
<1>1. p \in peer_connections /\ conn[p] # "closed" /\ ConnectionCloses(p, at)
      /\ UNCHANGED <<peer_connections, displays, feeds, signaled>>
  BY DEF PeerVanishes
<1>2. /\ conn' \in [Peers -> {"none", "new", "connected", "closed"}]
      /\ conn'[p] = "closed" /\ \A q \in Peers \ {p} : conn'[q] = conn[q]
      /\ at' \in [Closers -> Stages] /\ \A t \in Closers \ {Lost(p)} : at'[t] = at[t]
      /\ at'[Lost(p)].do = "pop" /\ at'[Lost(p)].of = p
      /\ at'[Lost(p)].left \subseteq at[Lost(p)].left
      /\ past' \in [input: [Peers -> {"none", "held", "released", "twice"}],
                    strayed: SUBSET Peers, failed: BOOLEAN, cut: BOOLEAN]
      /\ past'.input = past.input /\ past'.strayed = past.strayed
      /\ calling' \in BOOLEAN
  BY <1>1, Closing DEF RtcInv, RtcTypeOK
<1>3. at[Lost(p)].do = "done"
  BY <1>1 DEF RtcInv, TasksOK, HandlersOK
<1>4. at'[Signal] = at[Signal] /\ at'[Hook] = at[Hook]
      /\ (\A q \in Peers \ {p} : at'[Lost(q)] = at[Lost(q)]) /\ ~Offered(p)
  BY <1>1, <1>2, ClosersDiffer DEF RtcInv, TasksOK, OfferOK, Offered
<1>5. RtcTypeOK'
  BY <1>1, <1>2 DEF RtcInv, RtcTypeOK
<1>6. TasksOK'
  <2>1. HandlersOK'
    BY <1>1, <1>2, <1>4 DEF RtcInv, TasksOK, HandlersOK, SessionsOK
  <2>2. OfferOK' /\ StopsAllOK'
    BY <1>1, <1>2, <1>4 DEF RtcInv, TasksOK, OfferOK, StopsAllOK, Offered, RtcTypeOK
  <2>3. TeardownsOK'
    <3>1. p \in signaled.started
      BY <1>1 DEF RtcInv, SessionsOK
    <3> QED BY <1>1, <1>2, <1>4, <3>1, ClosersDiffer
            DEF RtcInv, TasksOK, TeardownsOK, Offered, RtcTypeOK
  <2> QED BY <2>1, <2>2, <2>3 DEF TasksOK
<1>7. SessionsOK' /\ InputOK'
  BY <1>1, <1>2, <1>4, ClosersDiffer DEF RtcInv, SessionsOK, InputOK, InPlay, Offered
<1>8. GraphOK'
  BY <1>1, <1>2, <1>4, ClosersDiffer DEF RtcInv, GraphOK, LivePeer, InPlay, Offered
<1>9. TearPending => TearPending'
  BY <1>1, <1>2, <1>3 DEF TearPending
<1>10. \A v : Doomed(v) => Doomed(v)'
  BY <1>1, <1>2, <1>3 DEF Doomed
<1>11. ViewersOK'
  BY <1>1, <1>2, <1>4, <1>9, <1>10, ClosersDiffer DEF RtcInv, ViewersOK, InPlay, Offered, RtcTypeOK
<1> QED BY <1>5, <1>6, <1>7, <1>8, <1>11 DEF RtcInv

\* _stop_rtc_pipeline, by the signaling client or for a token update, of a peer
\* that is registered.
LEMMA ClosesPeerStep ==
  ASSUME RtcInv, NEW t \in {Signal, Hook}, NEW p \in peer_connections,
         at[t].do = "done", ClosesPeer(t, p),
         UNCHANGED <<peer_connections, displays, feeds>>,
         signaled' \in [started: SUBSET Peers, ended: SUBSET Peers,
                        link: {"up", "down", "stopping"}, doomed: SUBSET Peers],
         signaled'.started = signaled.started, signaled'.link = signaled.link,
         signaled'.ended \ signaled.ended \subseteq {p},
         signaled.doomed \ signaled'.doomed \subseteq {p},
         t = Hook => signaled' = signaled
  PROVE  RtcInv'
<1>0. p \in Peers /\ t \in Closers /\ t # Lost(p) /\ RtcTypeOK /\ Lost(p) \in Closers
  BY ClosersDiffer DEF RtcInv, RtcTypeOK
<1> DEFINE stages == [at EXCEPT ![t] = Does("pop", p)]
<1>1. stages \in [Closers -> Stages] /\ stages[Lost(p)] = at[Lost(p)]
      /\ stages[t] = Does("pop", p) /\ \A u \in Closers \ {t} : stages[u] = at[u]
  BY <1>0 DEF Does, Stages, Steps, RtcTypeOK
<1>2. ConnectionCloses(p, stages)
  BY DEF ClosesPeer
<1> HIDE DEF stages
<1>3. /\ conn' \in [Peers -> {"none", "new", "connected", "closed"}]
      /\ conn'[p] = "closed" /\ \A q \in Peers \ {p} : conn'[q] = conn[q]
      /\ at' \in [Closers -> Stages] /\ \A u \in Closers \ {Lost(p)} : at'[u] = stages[u]
      /\ at'[Lost(p)].do = "pop" /\ at'[Lost(p)].of = p
      /\ at'[Lost(p)].left \subseteq at[Lost(p)].left
      /\ at[Lost(p)].do # "done" => at'[Lost(p)] = at[Lost(p)]
      /\ past' \in [input: [Peers -> {"none", "held", "released", "twice"}],
                    strayed: SUBSET Peers, failed: BOOLEAN, cut: BOOLEAN]
      /\ past'.input = past.input /\ past'.strayed = past.strayed
      /\ calling' \in BOOLEAN
  BY <1>0, <1>1, <1>2, Closing
<1>4. at'[t].do = "pop" /\ at'[t].of = p /\ at'[t].left = {}
      /\ \A u \in Closers \ {t, Lost(p)} : at'[u] = at[u]
  BY <1>0, <1>1, <1>3 DEF Does
<1>5. /\ t = Hook => at'[Signal] = at[Signal]
      /\ t = Signal => at'[Hook] = at[Hook]
      /\ \A q \in Peers \ {p} : at'[Lost(q)] = at[Lost(q)]
  BY <1>0, <1>4, ClosersDiffer
<1>6. (\A q : Offered(q)' => Offered(q)) /\ ~Offered(p) /\ (t = Signal => \A q : ~Offered(q))
      /\ (t = Hook => \A q : Offered(q)' <=> Offered(q))
  BY <1>4, <1>5 DEF Offered, RtcInv, TasksOK, OfferOK
<1>7. \A q : LivePeer(q)' => LivePeer(q) /\ q # p
  BY <1>0, <1>3, <1>6 DEF LivePeer, InPlay, RtcInv, RtcTypeOK, TasksOK, OfferOK, Offered
<1>8. RtcTypeOK'
  BY <1>0, <1>3 DEF RtcTypeOK
<1>9. TasksOK'
  <2>1. HandlersOK'
    BY <1>0, <1>3, <1>4, <1>5 DEF RtcInv, TasksOK, HandlersOK, SessionsOK
  <2>2. OfferOK'
    BY <1>0, <1>3, <1>4, <1>5 DEF RtcInv, TasksOK, OfferOK, RtcTypeOK
  <2>3. StopsAllOK'
    BY <1>0, <1>4, <1>5, ClosersDiffer DEF RtcInv, TasksOK, StopsAllOK
  <2>4. TeardownsOK'
    <3>1. p \in signaled.started
      BY DEF RtcInv, SessionsOK
    <3> QED BY <1>0, <1>3, <1>4, <1>6, <3>1 DEF RtcInv, TasksOK, TeardownsOK, RtcTypeOK
  <2> QED BY <2>1, <2>2, <2>3, <2>4 DEF TasksOK
<1>10. SessionsOK'
  <2>1. CASE t = Signal
    BY <1>0, <1>4, <1>6, <2>1 DEF RtcInv, SessionsOK, InPlay, RtcTypeOK
  <2>2. CASE t = Hook
    BY <1>0, <1>5, <1>6, <2>2 DEF RtcInv, SessionsOK, InPlay, RtcTypeOK
  <2> QED BY <2>1, <2>2
<1>11. InputOK'
  BY <1>3 DEF RtcInv, InputOK
<1>12. GraphOK'
  <2>1. p \in Drivers => \A c \in Drivers : ~LivePeer(c)'
    BY <1>7 DEF RtcInv, SessionsOK, LivePeer, InPlay
  <2>2. \A c \in Drivers : LivePeer(c)' /\ c \notin past'.strayed => displays' = c
    BY <1>3, <1>7 DEF RtcInv, GraphOK
  <2>3. \A u \in Closers \ {t, Lost(p)} : at'[u] = at[u]
    BY <1>4
  <2> QED BY <1>3, <1>4, <1>7, <2>1, <2>2, <2>3, ClosersDiffer DEF RtcInv, GraphOK
<1>13. TearPending => TearPending'
  <2>1. ASSUME NEW u \in Closers, at[u].do # "done" PROVE at'[u] = at[u]
    BY <1>3, <1>4, <2>1
  <2> QED BY <2>1 DEF TearPending
<1>14. \A v : Doomed(v) => Doomed(v)'
  <2>1. ASSUME NEW u \in Closers, at[u].do # "done" PROVE at'[u] = at[u]
    BY <1>3, <1>4, <2>1
  <2> QED BY <2>1 DEF Doomed
<1>15. ViewersOK'
  <2>1. \A q \in peer_connections' : conn'[q] = "closed" => at'[Lost(q)].do = "pop"
    BY <1>0, <1>3, <1>5 DEF RtcInv, ViewersOK, RtcTypeOK
  <2>2. \A q : InPlay(q)' => InPlay(q)
    BY <1>6 DEF InPlay
  <2>3. signaled'.link = "up" /\ displays' # NoPeer => InPlay(displays)' \/ TearPending'
    BY <1>4, <1>6, <1>13 DEF RtcInv, ViewersOK, InPlay
  <2> QED BY <1>3, <1>13, <1>14, <2>1, <2>2, <2>3 DEF RtcInv, ViewersOK
<1> QED BY <1>8, <1>9, <1>10, <1>11, <1>12, <1>15 DEF RtcInv

\* A session that ends for a peer that is gone already changes what is signaled
\* and nothing else.
LEMMA SignaledStep ==
  ASSUME RtcInv, at[Signal].do = "done",
         UNCHANGED <<peer_connections, conn, displays, feeds, at, past, calling>>,
         signaled' \in [started: SUBSET Peers, ended: SUBSET Peers,
                        link: {"up", "down", "stopping"}, doomed: SUBSET Peers],
         signaled'.started = signaled.started,
         signaled'.link = "up" => signaled.link = "up",
         signaled'.ended \subseteq signaled.started,
         \A p \in signaled'.ended \ signaled.ended : p \notin peer_connections,
         signaled'.link = "stopping" => peer_connections \subseteq signaled'.doomed
  PROVE  RtcInv'
<1>1. UNCHANGED <<peer_connections, conn, displays, feeds, at, past, calling>>
  OBVIOUS
<1>2. RtcTypeOK'
  BY <1>1 DEF RtcInv, RtcTypeOK
<1>3. TasksOK'
  BY <1>1 DEF RtcInv, TasksOK, HandlersOK, OfferOK, StopsAllOK, TeardownsOK, Offered
<1>4. SessionsOK'
  BY <1>1 DEF RtcInv, SessionsOK, InPlay, Offered
<1>5. GraphOK' /\ InputOK'
  BY <1>1 DEF RtcInv, GraphOK, InputOK, LivePeer, InPlay, Offered
<1>6. ViewersOK'
  BY <1>1 DEF RtcInv, ViewersOK, InPlay, Offered, TearPending, Doomed
<1> QED BY <1>2, <1>3, <1>4, <1>5, <1>6 DEF RtcInv

LEMMA SessionEndsStep == ASSUME RtcInv, NEW p \in Peers, SessionEnds(p) PROVE RtcInv'
<1>1. /\ at[Signal].do = "done" /\ signaled.link # "stopping"
      /\ p \in signaled.started
      /\ signaled' = [signaled EXCEPT !.ended = @ \cup {p}]
      /\ ClosesPeer(Signal, p) /\ UNCHANGED <<peer_connections, displays, feeds>>
  BY DEF SessionEnds, Resting
<1>2. /\ signaled' \in [started: SUBSET Peers, ended: SUBSET Peers,
                        link: {"up", "down", "stopping"}, doomed: SUBSET Peers]
      /\ signaled'.started = signaled.started /\ signaled'.link = signaled.link
      /\ signaled'.ended = signaled.ended \cup {p} /\ signaled'.doomed = signaled.doomed
  BY <1>1 DEF RtcInv, RtcTypeOK
<1>3. CASE p \in peer_connections
  BY <1>1, <1>2, <1>3, ClosesPeerStep, ClosersDiffer
<1>4. CASE p \notin peer_connections
  <2>1. UNCHANGED <<conn, at, past, calling>>
    BY <1>1, <1>4 DEF ClosesPeer
  <2>2. signaled.ended \subseteq signaled.started
    BY DEF RtcInv, SessionsOK
  <2> QED BY <1>1, <1>2, <1>4, <2>1, <2>2, SignaledStep
<1> QED BY <1>3, <1>4

LEMMA StopsNextStep == ASSUME RtcInv, StopsNext PROVE RtcInv'
<1>1. PICK p \in signaled.doomed :
        /\ signaled' = [signaled EXCEPT !.doomed = @ \ {p}]
        /\ ClosesPeer(Signal, p)
  BY DEF StopsNext
<1>2. at[Signal].do = "done" /\ UNCHANGED <<peer_connections, displays, feeds>>
  BY DEF StopsNext, Resting
<1>3. /\ signaled' \in [started: SUBSET Peers, ended: SUBSET Peers,
                        link: {"up", "down", "stopping"}, doomed: SUBSET Peers]
      /\ signaled'.started = signaled.started /\ signaled'.link = signaled.link
      /\ signaled'.ended = signaled.ended /\ signaled'.doomed = signaled.doomed \ {p}
  BY <1>1 DEF RtcInv, RtcTypeOK
<1>4. CASE p \in peer_connections
  BY <1>1, <1>2, <1>3, <1>4, ClosesPeerStep, ClosersDiffer
<1>5. CASE p \notin peer_connections
  <2>1. UNCHANGED <<conn, at, past, calling>>
    BY <1>1, <1>5 DEF ClosesPeer
  <2>2. signaled.ended \subseteq signaled.started
        /\ (signaled.link = "stopping" => peer_connections \subseteq signaled.doomed)
    BY <1>2 DEF RtcInv, SessionsOK
  <2> QED BY <1>2, <1>3, <1>5, <2>1, <2>2, SignaledStep
<1> QED BY <1>4, <1>5

LEMMA TokenRevokedStep == ASSUME RtcInv, NEW p \in Peers, TokenRevoked(p) PROVE RtcInv'
<1>1. /\ at[Hook].do = "done" /\ p \in peer_connections /\ ClosesPeer(Hook, p)
      /\ UNCHANGED <<peer_connections, displays, feeds, signaled>>
  BY DEF TokenRevoked, Resting
<1> QED BY <1>1, ClosesPeerStep, ClosersDiffer DEF RtcInv, RtcTypeOK

LEMMA SignalingStep ==
  ASSUME RtcInv, SignalingDrops \/ StopsAll
  PROVE  RtcInv'
<1>1. CASE SignalingDrops
  <2>1. UNCHANGED <<peer_connections, conn, displays, feeds, at, past, calling>>
        /\ signaled' = [signaled EXCEPT !.link = "down"]
    BY <1>1 DEF SignalingDrops, media
  <2>2. /\ signaled' \in [started: SUBSET Peers, ended: SUBSET Peers,
                          link: {"up", "down", "stopping"}, doomed: SUBSET Peers]
        /\ signaled'.started = signaled.started /\ signaled'.link = "down"
        /\ signaled'.ended = signaled.ended
    BY <2>1 DEF RtcInv, RtcTypeOK
  <2>3. signaled.link = "up"
    BY <1>1 DEF SignalingDrops
  <2>4. RtcTypeOK'
    BY <2>1, <2>2 DEF RtcInv, RtcTypeOK
  <2>5. TasksOK'
    BY <2>1, <2>2, <2>3 DEF RtcInv, TasksOK, HandlersOK, OfferOK, StopsAllOK, TeardownsOK, Offered
  <2>6. SessionsOK' /\ GraphOK' /\ InputOK'
    BY <2>1, <2>2, <2>3 DEF RtcInv, SessionsOK, GraphOK, InputOK, LivePeer, InPlay, Offered
  <2>7. ViewersOK'
    BY <2>1, <2>2 DEF RtcInv, ViewersOK, InPlay, Offered
  <2> QED BY <2>4, <2>5, <2>6, <2>7 DEF RtcInv
<1>2. CASE StopsAll
  <2>1. UNCHANGED <<peer_connections, conn, displays, feeds, at, past, calling>>
        /\ at[Signal].do = "done"
        /\ signaled' = [signaled EXCEPT !.link = "stopping", !.doomed = peer_connections]
    BY <1>2 DEF StopsAll, media, Resting
  <2>2. /\ signaled'.started = signaled.started /\ signaled'.link = "stopping"
        /\ signaled'.ended = signaled.ended /\ signaled'.doomed = peer_connections
    BY <2>1 DEF RtcInv, RtcTypeOK
  <2>3. signaled' \in [started: SUBSET Peers, ended: SUBSET Peers,
                       link: {"up", "down", "stopping"}, doomed: SUBSET Peers]
    <3>1. [signaled EXCEPT !.link = "stopping"]
             \in [started: SUBSET Peers, ended: SUBSET Peers,
                  link: {"up", "down", "stopping"}, doomed: SUBSET Peers]
      BY DEF RtcInv, RtcTypeOK
    <3>2. signaled' = [[signaled EXCEPT !.link = "stopping"] EXCEPT !.doomed = peer_connections]
      BY <2>1
    <3>3. peer_connections \in SUBSET Peers
      BY DEF RtcInv, RtcTypeOK
    <3> QED BY <3>1, <3>2, <3>3
  <2>4. signaled.ended \subseteq signaled.started
    BY DEF RtcInv, SessionsOK
  <2> QED BY <2>1, <2>2, <2>3, <2>4, SignaledStep
<1> QED BY <1>1, <1>2

\* _close_display_viewers closes the next of the viewers it found.
LEMMA ClosesViewerStep == ASSUME RtcInv, NEW t \in Closers, ClosesViewer(t) PROVE RtcInv'
<1>0. at[t].do = "close" /\ RtcTypeOK
      /\ UNCHANGED <<peer_connections, displays, feeds, signaled>>
  BY DEF ClosesViewer, RtcInv
<1>1. PICK v \in at[t].left : ConnectionCloses(v, [at EXCEPT ![t].left = @ \ {v}])
  BY DEF ClosesViewer
<1>2. v \in Watchers /\ v \in Peers /\ ~Offered(v) /\ v \notin Drivers
  BY <1>0, ClosersDiffer DEF RtcTypeOK, Stages, RtcInv, TasksOK, TeardownsOK
<1>3. t # Lost(v) /\ Lost(v) \in Closers
  <2>1. at[t].of \in Drivers \cup {NoPeer}
    BY <1>0 DEF RtcInv, TasksOK, TeardownsOK
  <2>2. t = Lost(v) => at[t].of = v
    BY <1>0, <1>2 DEF RtcInv, TasksOK, HandlersOK
  <2> QED BY <1>2, <2>1, <2>2, ClosersDiffer
<1> DEFINE stages == [at EXCEPT ![t].left = @ \ {v}]
<1>4. stages \in [Closers -> Stages] /\ stages[Lost(v)] = at[Lost(v)]
      /\ (\A u \in Closers \ {t} : stages[u] = at[u])
      /\ stages[t].do = "close" /\ stages[t].of = at[t].of /\ stages[t].left = at[t].left \ {v}
  BY <1>0, <1>3 DEF RtcTypeOK, Stages
<1>5. ConnectionCloses(v, stages)
  BY <1>1
<1> HIDE DEF stages
<1>6. /\ conn' \in [Peers -> {"none", "new", "connected", "closed"}]
      /\ conn'[v] = "closed" /\ \A q \in Peers \ {v} : conn'[q] = conn[q]
      /\ at' \in [Closers -> Stages] /\ \A u \in Closers \ {Lost(v)} : at'[u] = stages[u]
      /\ v \notin peer_connections => at'[Lost(v)] = at[Lost(v)]
      /\ v \in peer_connections => at'[Lost(v)].do = "pop" /\ at'[Lost(v)].of = v
                                   /\ at'[Lost(v)].left \subseteq at[Lost(v)].left
      /\ at[Lost(v)].do # "done" => at'[Lost(v)] = at[Lost(v)]
      /\ past' \in [input: [Peers -> {"none", "held", "released", "twice"}],
                    strayed: SUBSET Peers, failed: BOOLEAN, cut: BOOLEAN]
      /\ past'.input = past.input /\ past'.strayed = past.strayed
      /\ calling' \in BOOLEAN
  BY <1>2, <1>4, <1>5, Closing
<1>7. /\ at'[t].do = "close" /\ at'[t].of = at[t].of /\ at'[t].left = at[t].left \ {v}
      /\ \A u \in Closers \ {t, Lost(v)} : at'[u] = at[u]
  BY <1>3, <1>4, <1>6
<1>8. /\ at'[Signal].do = at[Signal].do /\ at'[Signal].of = at[Signal].of
      /\ at'[Hook].do = at[Hook].do /\ at'[Hook].of = at[Hook].of
      /\ \A q \in Peers \ {v} : at'[Lost(q)].do = at[Lost(q)].do /\ at'[Lost(q)].of = at[Lost(q)].of
  BY <1>0, <1>2, <1>7, ClosersDiffer
<1>9. \A q : (Offered(q)' <=> Offered(q)) /\ (InPlay(q)' <=> InPlay(q))
  BY <1>0, <1>8 DEF Offered, InPlay
<1>10. RtcTypeOK'
  BY <1>0, <1>6 DEF RtcTypeOK
<1>11. TasksOK'
  <2>1. HandlersOK'
    BY <1>0, <1>2, <1>6, <1>8 DEF RtcInv, TasksOK, HandlersOK, SessionsOK
  <2>2. OfferOK'
    BY <1>0, <1>2, <1>6, <1>8 DEF RtcInv, TasksOK, OfferOK, Offered, RtcTypeOK
  <2>3. StopsAllOK'
    BY <1>0, <1>8 DEF RtcInv, TasksOK, StopsAllOK
  <2>4. TeardownsOK'
    <3>1. v \in signaled.started
      BY <1>0 DEF RtcInv, TasksOK, TeardownsOK
    <3> QED BY <1>0, <1>2, <1>3, <1>6, <1>7, <1>9, <3>1
            DEF RtcInv, TasksOK, TeardownsOK, RtcTypeOK
  <2> QED BY <2>1, <2>2, <2>3, <2>4 DEF TasksOK
<1>12. SessionsOK' /\ InputOK'
  BY <1>0, <1>6, <1>8, <1>9 DEF RtcInv, SessionsOK, InputOK
<1>13. GraphOK'
  <2>1. \A c \in Drivers : LivePeer(c)' <=> LivePeer(c)
    BY <1>2, <1>6, <1>9, ClosersDiffer DEF LivePeer
  <2>2. ASSUME NEW u \in Closers,
               at'[u].do = "tear" \/ (u \in {Signal, Hook} /\ at'[u].do = "pop" /\ at'[u].of \in Drivers)
        PROVE  at[u].do = "tear" \/ (u \in {Signal, Hook} /\ at[u].do = "pop" /\ at[u].of \in Drivers)
    BY <1>2, <1>3, <1>6, <1>7, <2>2, ClosersDiffer
  <2> QED BY <1>0, <1>6, <2>1, <2>2 DEF RtcInv, GraphOK
<1>14. TearPending => TearPending'
  <2>1. ASSUME NEW u \in Closers, at[u].do # "done" PROVE at'[u].do = at[u].do /\ at'[u].of = at[u].of
    BY <1>0, <1>6, <1>7, <2>1
  <2> QED BY <1>0, <2>1 DEF TearPending
<1>15. \A w : Doomed(w) /\ w # v => Doomed(w)'
  <2>1. ASSUME NEW u \in Closers, at[u].do # "done"
        PROVE  at'[u].do = at[u].do /\ at'[u].of = at[u].of /\ at[u].left \ {v} \subseteq at'[u].left
    BY <1>0, <1>6, <1>7, <2>1
  <2> QED BY <2>1 DEF Doomed
<1>16. v \in peer_connections => Doomed(v)'
  BY <1>3, <1>6 DEF Doomed
<1>17. ViewersOK'
  <2>1. \A q \in peer_connections' : conn'[q] = "closed" => at'[Lost(q)].do = "pop"
    BY <1>0, <1>2, <1>6, <1>8 DEF RtcInv, ViewersOK, RtcTypeOK
  <2> QED BY <1>0, <1>6, <1>9, <1>14, <1>15, <1>16, <2>1 DEF RtcInv, ViewersOK
<1> QED BY <1>10, <1>11, <1>12, <1>13, <1>17 DEF RtcInv

\* A task pops a peer; it goes on with the graph when it popped a controller, or
\* when it is not the handler of "closed".
LEMMA PopsStep == ASSUME RtcInv, NEW t \in Closers, Pops(t) PROVE RtcInv'
<1>1. PICK p \in Peers : /\ at[t].of = p /\ at[t].do = "pop" /\ conn[p] = "closed"
                         /\ RtcTypeOK
  BY DEF Pops, RtcInv, TasksOK, TeardownsOK, RtcTypeOK
<1>2. PICK next \in {"tear", "notify"} :
        /\ next = IF TearsGraph(t, p) THEN "tear" ELSE "notify"
        /\ next = "tear" <=> TearsGraph(t, p)
  OBVIOUS
<1>3. /\ peer_connections' = peer_connections \ {p}
      /\ feeds' = [feeds EXCEPT ![p] = NoPeer]
      /\ past' = Popped(p) /\ at' = [at EXCEPT ![t].do = next]
      /\ UNCHANGED <<conn, displays, calling, signaled>>
  BY <1>1, <1>2 DEF Pops, media
<1>4. TearsGraph(t, p) <=> p \in Drivers /\ (p \in peer_connections \/ t # Lost(p))
  BY DEF TearsGraph
<1>5. /\ at' \in [Closers -> Stages] /\ at'[t].do = next /\ at'[t].of = p
      /\ at'[t].left = at[t].left /\ \A u \in Closers \ {t} : at'[u] = at[u]
  BY <1>1, <1>3 DEF RtcTypeOK, Stages, Steps
<1>6. /\ past' \in [input: [Peers -> {"none", "held", "released", "twice"}],
                    strayed: SUBSET Peers, failed: BOOLEAN, cut: BOOLEAN]
      /\ p \in peer_connections => /\ past'.input[p] = "released"
                                   /\ past'.strayed = past.strayed \ {p}
      /\ p \notin peer_connections => past' = past
      /\ \A q \in Peers \ {p} : past'.input[q] = past.input[q]
  <2>1. CASE p \notin peer_connections
    BY <1>1, <1>3, <2>1 DEF Popped, RtcTypeOK
  <2>2. CASE p \in peer_connections
    <3>1. past.input[p] = "held"
      BY <1>1, <2>2 DEF RtcInv, InputOK
    <3> DEFINE released == [past EXCEPT !.input[p] = "released"]
    <3>2. past' = [released EXCEPT !.strayed = past.strayed \ {p}]
      BY <1>3, <2>2, <3>1 DEF Popped
    <3>3. released \in [input: [Peers -> {"none", "held", "released", "twice"}],
                        strayed: SUBSET Peers, failed: BOOLEAN, cut: BOOLEAN]
          /\ released.input[p] = "released"
          /\ \A q \in Peers \ {p} : released.input[q] = past.input[q]
      BY <1>1 DEF RtcTypeOK
    <3> HIDE DEF released
    <3>4. past.strayed \ {p} \in SUBSET Peers
      BY <1>1 DEF RtcTypeOK
    <3> QED BY <2>2, <3>2, <3>3, <3>4
  <2> QED BY <2>1, <2>2
<1>7. /\ t # Signal => at'[Signal] = at[Signal]
      /\ t # Hook => at'[Hook] = at[Hook]
      /\ \A q \in Peers : t # Lost(q) => at'[Lost(q)] = at[Lost(q)]
  BY <1>5, ClosersDiffer
<1>8. \A q : (Offered(q)' <=> Offered(q)) /\ (InPlay(q)' => InPlay(q))
  BY <1>1, <1>3, <1>5, <1>7, <1>2 DEF Offered, InPlay
<1>9. ~Offered(p) /\ ~InPlay(p)' /\ ~LivePeer(p)
  <2>1. ~Offered(p) /\ ~LivePeer(p)
    BY <1>1 DEF RtcInv, TasksOK, OfferOK, Offered, LivePeer
  <2>2. p \notin peer_connections' /\ ~Offered(p)'
    BY <1>3, <1>8, <2>1
  <2> QED BY <2>1, <2>2 DEF InPlay
<1>10. RtcTypeOK'
  BY <1>1, <1>3, <1>5, <1>6 DEF RtcTypeOK
<1>11. TasksOK'
  <2>1. HandlersOK'
    BY <1>1, <1>3, <1>5, <1>7, <1>2 DEF RtcInv, TasksOK, HandlersOK
  <2>2. OfferOK'
    BY <1>1, <1>3, <1>5, <1>7, <1>2 DEF RtcInv, TasksOK, OfferOK
  <2>3. StopsAllOK'
    BY <1>1, <1>3, <1>5, <1>7, <1>2, ClosersDiffer DEF RtcInv, TasksOK, StopsAllOK
  <2>4. TeardownsOK'
    BY <1>1, <1>3, <1>4, <1>5, <1>2, <1>8 DEF RtcInv, TasksOK, TeardownsOK
  <2> QED BY <2>1, <2>2, <2>3, <2>4 DEF TasksOK
<1>12. SessionsOK'
  BY <1>1, <1>3, <1>5, <1>7, <1>2, <1>8 DEF RtcInv, SessionsOK
<1>13. InputOK'
  BY <1>1, <1>3, <1>6 DEF RtcInv, InputOK
<1>14. \A c : LivePeer(c)' => LivePeer(c) /\ c # p
  BY <1>3, <1>8, <1>9 DEF LivePeer
<1>15. \A c \in Drivers : LivePeer(c)' /\ c \in past.strayed => c \in past'.strayed
  BY <1>6, <1>14
<1>16. past'.strayed \subseteq past.strayed
       /\ \A q \in Peers : q \notin past'.strayed => q = p \/ q \notin past.strayed
  BY <1>6
<1>17. GraphOK'
  <2>1. \A c \in Drivers : LivePeer(c)' /\ c \notin past'.strayed => displays' = c
    BY <1>3, <1>14, <1>15 DEF RtcInv, GraphOK
  <2>2. TearsGraph(t, p) => \A c \in Drivers : LivePeer(c)' => c \in past'.strayed
    <3> SUFFICES ASSUME TearsGraph(t, p), NEW c \in Drivers, LivePeer(c)' PROVE c \in past'.strayed
      OBVIOUS
    <3>1. CASE p \in peer_connections
      BY <1>4, <1>14, <3>1 DEF RtcInv, SessionsOK, LivePeer, InPlay
    <3>2. CASE p \notin peer_connections
      <4>1. t \in {Signal, Hook}
        BY <1>1, <1>4, <3>2, ClosersDiffer DEF RtcInv, TasksOK, HandlersOK
      <4>2. p \in Drivers
        BY <1>4
      <4> QED BY <1>1, <1>14, <1>15, <4>1, <4>2 DEF RtcInv, GraphOK
    <3> QED BY <3>1, <3>2
  <2>3. ASSUME NEW u \in Closers \ {t}, NEW c \in Drivers, LivePeer(c)',
               at'[u].do = "tear" \/ (u \in {Signal, Hook} /\ at'[u].do = "pop" /\ at'[u].of \in Drivers)
        PROVE  c \in past'.strayed
    BY <1>5, <1>14, <1>15, <2>3 DEF RtcInv, GraphOK
  <2> QED BY <1>5, <1>2, <2>1, <2>2, <2>3 DEF GraphOK
<1>18. TearPending => TearPending'
  <2>1. CASE TearsGraph(t, p)
    BY <1>5, <1>2, <2>1 DEF TearPending
  <2>2. CASE ~TearsGraph(t, p)
    <3> SUFFICES ASSUME NEW u \in Closers,
                        \/ at[u].do = "tear"
                        \/ /\ at[u].do = "pop" /\ at[u].of \in Drivers
                           /\ at[u].of \in peer_connections \/ u # Lost(at[u].of)
                 PROVE  TearPending'
      BY DEF TearPending
    <3>1. u # t /\ at'[u] = at[u]
      BY <1>1, <1>4, <1>5, <2>2
    <3>2. at[u].of \in Drivers /\ at[u].of \in peer_connections => at[u].of # p
      BY <1>4, <2>2
    <3> QED BY <1>3, <3>1, <3>2 DEF TearPending
  <2> QED BY <2>1, <2>2
<1>19. \A v : Doomed(v) /\ v # p => Doomed(v)'
  BY <1>1, <1>5 DEF Doomed
<1>20. ViewersOK'
  <2>1. \A q \in peer_connections' : conn'[q] = "closed" => at'[Lost(q)].do = "pop"
    <3> SUFFICES ASSUME NEW q \in peer_connections', conn'[q] = "closed"
                 PROVE  at'[Lost(q)].do = "pop"
      OBVIOUS
    <3>1. q \in peer_connections /\ q # p /\ q \in Peers
      BY <1>1, <1>3 DEF RtcTypeOK
    <3>2. at[Lost(q)].do = "pop" /\ at[Lost(q)].of = q
      BY <1>3, <3>1 DEF RtcInv, ViewersOK, TasksOK, HandlersOK
    <3>3. t # Lost(q)
      BY <1>1, <3>1, <3>2
    <3> QED BY <1>7, <3>1, <3>2, <3>3
  <2>2. \A v \in Watchers : InPlay(v)' => feeds'[v] # NoPeer
    <3> SUFFICES ASSUME NEW v \in Watchers, InPlay(v)' PROVE feeds'[v] # NoPeer
      OBVIOUS
    <3>1. v # p /\ InPlay(v) /\ v \in Peers
      BY <1>8, <1>9, ClosersDiffer
    <3>2. feeds'[v] = feeds[v]
      BY <1>1, <1>3, <3>1 DEF RtcTypeOK
    <3> QED BY <3>1, <3>2 DEF RtcInv, ViewersOK
  <2>3. signaled'.link = "up" /\ displays' # NoPeer => InPlay(displays)' \/ TearPending'
    <3> SUFFICES ASSUME signaled.link = "up", displays # NoPeer
                 PROVE  InPlay(displays)' \/ TearPending'
      BY <1>3
    <3>1. InPlay(displays) \/ TearPending
      BY DEF RtcInv, ViewersOK
    <3>2. CASE InPlay(displays) /\ displays = p
      <4>1. displays \in Drivers
        BY <1>1 DEF RtcTypeOK
      <4>2. TearsGraph(t, p)
        BY <1>4, <1>9, <3>2, <4>1 DEF InPlay
      <4> QED BY <1>5, <1>2, <4>2 DEF TearPending
    <3>3. CASE InPlay(displays) /\ displays # p
      BY <1>3, <1>8, <3>3 DEF InPlay
    <3> QED BY <1>18, <3>1, <3>2, <3>3
  <2>4. \A v \in (peer_connections' \cap Watchers) \ past'.strayed :
          v # p /\ v \in (peer_connections \cap Watchers) \ past.strayed /\ feeds'[v] = feeds[v]
    BY <1>1, <1>3, <1>16, ClosersDiffer DEF RtcTypeOK
  <2> QED BY <1>3, <1>18, <1>19, <2>1, <2>2, <2>3, <2>4 DEF RtcInv, ViewersOK
<1> QED BY <1>10, <1>11, <1>12, <1>13, <1>17, <1>20 DEF RtcInv

\* A teardown ends; the end of stop_all opens the signaling again.
LEMMA EndsStep ==
  ASSUME RtcInv, NEW t \in Closers, at[t].do \in {"tear", "reap", "close", "notify"},
         at[t].do = "tear" => displays = NoPeer,
         at[t].do = "reap" => Watchers \cap peer_connections = {},
         at[t].do = "close" => at[t].left = {},
         Ends(t), UNCHANGED <<peer_connections, conn, displays, feeds, calling, past>>
  PROVE  RtcInv'
<1>0. RtcTypeOK /\ UNCHANGED <<peer_connections, conn, displays, feeds, calling, past>>
  BY DEF RtcInv
<1>1. /\ at' \in [Closers -> Stages] /\ at'[t].do = "done" /\ at'[t].left = {}
      /\ \A u \in Closers \ {t} : at'[u] = at[u]
  BY <1>0 DEF Ends, RtcTypeOK, Does, Stages, Steps
<1>2. /\ t # Signal => at'[Signal] = at[Signal]
      /\ t # Hook => at'[Hook] = at[Hook]
      /\ \A q \in Peers : t # Lost(q) => at'[Lost(q)] = at[Lost(q)]
  BY <1>1, ClosersDiffer
<1>3. at[t].of = NoPeer => /\ t = Signal /\ peer_connections = {} /\ displays = NoPeer
                           /\ signaled.link = "stopping"
  <2> SUFFICES ASSUME at[t].of = NoPeer
               PROVE  /\ t = Signal /\ peer_connections = {} /\ displays = NoPeer
                      /\ signaled.link = "stopping"
    OBVIOUS
  <2>1. t = Signal
    BY ClosersDiffer DEF RtcInv, TasksOK, HandlersOK
  <2> QED BY <2>1 DEF RtcInv, TasksOK, StopsAllOK
<1>4. /\ signaled' \in [started: SUBSET Peers, ended: SUBSET Peers,
                        link: {"up", "down", "stopping"}, doomed: SUBSET Peers]
      /\ signaled'.started = signaled.started
      /\ at[t].of # NoPeer => signaled' = signaled
      /\ at[t].of = NoPeer => signaled'.link = "up" /\ signaled'.ended = signaled.started
  <2>1. CASE at[t].of # NoPeer
    BY <1>0, <2>1 DEF Ends, RtcTypeOK
  <2>2. CASE at[t].of = NoPeer
    <3> DEFINE opened == [signaled EXCEPT !.link = "up"]
    <3>1. opened \in [started: SUBSET Peers, ended: SUBSET Peers,
                      link: {"up", "down", "stopping"}, doomed: SUBSET Peers]
          /\ opened.started = signaled.started /\ opened.link = "up"
      BY <1>0 DEF RtcTypeOK
    <3>2. signaled' = [opened EXCEPT !.ended = signaled.started]
      BY <2>2 DEF Ends
    <3>3. signaled.started \in SUBSET Peers
      BY <1>0 DEF RtcTypeOK
    <3> HIDE DEF opened
    <3> QED BY <2>2, <3>1, <3>2, <3>3
  <2> QED BY <2>1, <2>2
<1>5. \A q : (Offered(q)' <=> Offered(q)) /\ (InPlay(q)' <=> InPlay(q)) /\ (LivePeer(q)' <=> LivePeer(q))
  BY <1>0, <1>1, <1>2 DEF Offered, InPlay, LivePeer
<1>6. RtcTypeOK'
  BY <1>0, <1>1, <1>4 DEF RtcTypeOK
<1>7. TasksOK'
  <2>1. HandlersOK'
    BY <1>0, <1>1, <1>2, <1>4 DEF RtcInv, TasksOK, HandlersOK
  <2>2. OfferOK'
    BY <1>0, <1>1, <1>2, <1>3, <1>4 DEF RtcInv, TasksOK, OfferOK
  <2>3. StopsAllOK'
    BY <1>0, <1>1, <1>2, <1>3, <1>4 DEF RtcInv, TasksOK, StopsAllOK
  <2>4. TeardownsOK'
    BY <1>0, <1>1, <1>4, <1>5 DEF RtcInv, TasksOK, TeardownsOK
  <2> QED BY <2>1, <2>2, <2>3, <2>4 DEF TasksOK
<1>8. SessionsOK'
  <2>1. CASE at[t].of = NoPeer
    BY <1>0, <1>3, <1>4, <1>5, <2>1 DEF RtcInv, SessionsOK
  <2>2. CASE at[t].of # NoPeer
    BY <1>0, <1>1, <1>2, <1>4, <1>5, <2>2 DEF RtcInv, SessionsOK
  <2> QED BY <2>1, <2>2
<1>9. InputOK'
  BY <1>0 DEF RtcInv, InputOK
<1>10. GraphOK'
  BY <1>0, <1>1, <1>5 DEF RtcInv, GraphOK
<1>11. TearPending => TearPending' \/ displays = NoPeer
  <2>1. ASSUME NEW u \in Closers, u # t PROVE at'[u] = at[u]
    BY <1>1, <2>1
  <2> QED BY <1>0, <2>1 DEF TearPending
<1>12. \A v \in Watchers \cap peer_connections : Doomed(v) => Doomed(v)'
  <2>1. ASSUME NEW u \in Closers, u # t PROVE at'[u] = at[u]
    BY <1>1, <2>1
  <2> QED BY <2>1 DEF Doomed
<1>13. ViewersOK'
  <2>1. \A q \in peer_connections' : conn'[q] = "closed" => at'[Lost(q)].do = "pop"
    BY <1>0, <1>2 DEF RtcInv, ViewersOK, RtcTypeOK
  <2> QED BY <1>0, <1>3, <1>4, <1>5, <1>11, <1>12, <2>1 DEF RtcInv, ViewersOK
<1> QED BY <1>6, <1>7, <1>8, <1>9, <1>10, <1>13 DEF RtcInv

\* A teardown that found a graph goes on to the viewers, and those it finds.
LEMMA ProceedsStep ==
  ASSUME RtcInv, NEW t \in Closers, at[t].do \in {"tear", "reap"},
         NEW step \in {"reap", "close"}, NEW viewers \in SUBSET Watchers,
         Proceeds(t, step, viewers),
         UNCHANGED <<peer_connections, conn, feeds, calling, past>>,
         step = "reap" => at[t].do = "tear" /\ displays' = NoPeer /\ viewers = {},
         step = "close" => /\ at[t].do = "reap" /\ UNCHANGED displays
                           /\ viewers = Watchers \cap peer_connections
  PROVE  RtcInv'
<1>0. RtcTypeOK /\ UNCHANGED <<peer_connections, conn, feeds, calling, past, signaled>>
  BY DEF RtcInv, Proceeds
<1>1. /\ at' \in [Closers -> Stages] /\ at'[t].do = step /\ at'[t].of = at[t].of
      /\ at'[t].left = viewers /\ \A u \in Closers \ {t} : at'[u] = at[u]
  <2> DEFINE moved == [at[t] EXCEPT !.do = step]
  <2>1. at' = [at EXCEPT ![t] = [moved EXCEPT !.left = viewers]]
    BY <1>0 DEF Proceeds, RtcTypeOK
  <2>2. moved \in Stages /\ moved.do = step /\ moved.of = at[t].of
    BY <1>0 DEF RtcTypeOK, Stages, Steps
  <2> HIDE DEF moved
  <2>3. [moved EXCEPT !.left = viewers] \in Stages
        /\ [moved EXCEPT !.left = viewers].do = step
        /\ [moved EXCEPT !.left = viewers].of = at[t].of
        /\ [moved EXCEPT !.left = viewers].left = viewers
    BY <2>2 DEF Stages
  <2> QED BY <1>0, <2>1, <2>3 DEF RtcTypeOK
<1>2. /\ t # Signal => at'[Signal] = at[Signal]
      /\ t # Hook => at'[Hook] = at[Hook]
      /\ \A q \in Peers : t # Lost(q) => at'[Lost(q)] = at[Lost(q)]
  BY <1>1, ClosersDiffer
<1>3. \A q : (Offered(q)' <=> Offered(q)) /\ (InPlay(q)' <=> InPlay(q)) /\ (LivePeer(q)' <=> LivePeer(q))
  BY <1>0, <1>1, <1>2 DEF Offered, InPlay, LivePeer
<1>4. displays' = NoPeer \/ displays' = displays
  OBVIOUS
<1>5. RtcTypeOK'
  BY <1>0, <1>1, <1>4 DEF RtcTypeOK
<1>6. TasksOK'
  <2>1. HandlersOK'
    BY <1>0, <1>1, <1>2 DEF RtcInv, TasksOK, HandlersOK
  <2>2. OfferOK'
    BY <1>0, <1>1, <1>2 DEF RtcInv, TasksOK, OfferOK
  <2>3. StopsAllOK'
    BY <1>0, <1>1, <1>2, <1>4 DEF RtcInv, TasksOK, StopsAllOK
  <2>4. \A v \in viewers : v \in signaled'.started /\ ~Offered(v)'
    BY <1>0, <1>3 DEF RtcInv, TasksOK, OfferOK, SessionsOK, Offered
  <2>5. TeardownsOK'
    BY <1>0, <1>1, <1>3, <2>4 DEF RtcInv, TasksOK, TeardownsOK
  <2> QED BY <2>1, <2>2, <2>3, <2>5 DEF TasksOK
<1>7. SessionsOK' /\ InputOK'
  BY <1>0, <1>1, <1>2, <1>3 DEF RtcInv, SessionsOK, InputOK
<1>8. GraphOK'
  <2>1. at[t].do = "tear" => \A c \in Drivers : LivePeer(c) => c \in past.strayed
    BY DEF RtcInv, GraphOK
  <2> QED BY <1>0, <1>1, <1>3, <2>1 DEF RtcInv, GraphOK
<1>9. TearPending => TearPending' \/ displays' = NoPeer
  <2>1. ASSUME NEW u \in Closers, u # t PROVE at'[u] = at[u]
    BY <1>1, <2>1
  <2> QED BY <1>0, <2>1 DEF TearPending
<1>10. ViewersOK'
  <2>1. \A q \in peer_connections' : conn'[q] = "closed" => at'[Lost(q)].do = "pop"
    BY <1>0, <1>2 DEF RtcInv, ViewersOK, RtcTypeOK
  <2>2. \A v \in Watchers \cap peer_connections : Doomed(v)'
    BY <1>1 DEF Doomed
  <2> QED BY <1>0, <1>3, <1>4, <1>9, <2>1, <2>2 DEF RtcInv, ViewersOK
<1> QED BY <1>5, <1>6, <1>7, <1>8, <1>10 DEF RtcInv

\* The steps of a teardown after its peer was popped.
LEMMA TeardownStep ==
  ASSUME RtcInv, NEW t \in Closers, Tears(t) \/ FindsViewers(t) \/ Finishes(t)
  PROVE  RtcInv'
<1>1. CASE Tears(t)
  <2>1. at[t].do = "tear" /\ displays' = NoPeer
        /\ UNCHANGED <<peer_connections, conn, feeds, calling, past>>
        /\ IF displays = NoPeer THEN Ends(t) ELSE Proceeds(t, "reap", {})
    BY <1>1 DEF Tears
  <2>2. CASE displays = NoPeer
    <3>1. UNCHANGED <<peer_connections, conn, displays, feeds, calling, past>>
      BY <2>1, <2>2
    <3> QED BY <2>1, <2>2, <3>1, EndsStep
  <2>3. CASE displays # NoPeer
    BY <2>1, <2>3, ProceedsStep
  <2> QED BY <2>2, <2>3
<1>2. CASE FindsViewers(t)
  <2>1. at[t].do = "reap"
        /\ UNCHANGED <<peer_connections, conn, displays, feeds, calling, past>>
        /\ IF Watchers \cap peer_connections = {} THEN Ends(t)
           ELSE Proceeds(t, "close", Watchers \cap peer_connections)
    BY <1>2 DEF FindsViewers
  <2>2. CASE Watchers \cap peer_connections = {}
    BY <2>1, <2>2, EndsStep
  <2>3. CASE Watchers \cap peer_connections # {}
    BY <2>1, <2>3, ProceedsStep
  <2> QED BY <2>2, <2>3
<1>3. CASE Finishes(t)
  BY <1>3, EndsStep DEF Finishes
<1> QED BY <1>1, <1>2, <1>3

\* A session starts.  A controller's predecessor is gone, so that the graph that
\* is made for it is the display's; one that a teardown may still take is strayed.
LEMMA SessionStartsStep == ASSUME RtcInv, NEW p \in Peers, SessionStarts(p) PROVE RtcInv'
<1>1. PICK graph \in Drivers \cup {NoPeer} :
        /\ graph = IF p \in Drivers THEN p ELSE displays
        /\ displays' = graph /\ feeds' = [feeds EXCEPT ![p] = graph]
        /\ IF graph = NoPeer THEN UNCHANGED <<conn, at>>
           ELSE /\ conn' = [conn EXCEPT ![p] = "new"]
                /\ at' = [at EXCEPT ![Signal] = Does("offer", p)]
  BY DEF SessionStarts, RtcInv, RtcTypeOK
<1>2. /\ RtcTypeOK /\ at[Signal].do = "done" /\ p \notin signaled.started
      /\ p \in Drivers => signaled.started \cap Drivers \subseteq signaled.ended
      /\ signaled' = [signaled EXCEPT !.started = @ \cup {p}]
      /\ signaled.link # "stopping"
      /\ UNCHANGED <<peer_connections, calling>>
      /\ past' = IF p \in Drivers /\ TearsLater
                 THEN [past EXCEPT !.strayed = @ \cup {p}] ELSE past
  BY DEF SessionStarts, MayStart, Resting, media, RtcInv
<1>3. /\ signaled' \in [started: SUBSET Peers, ended: SUBSET Peers,
                        link: {"up", "down", "stopping"}, doomed: SUBSET Peers]
      /\ signaled'.started = signaled.started \cup {p} /\ signaled'.ended = signaled.ended
      /\ signaled'.link = signaled.link /\ signaled'.doomed = signaled.doomed
  BY <1>2 DEF RtcTypeOK
<1>4. /\ past' \in [input: [Peers -> {"none", "held", "released", "twice"}],
                    strayed: SUBSET Peers, failed: BOOLEAN, cut: BOOLEAN]
      /\ past'.input = past.input /\ past.strayed \subseteq past'.strayed
      /\ p \in Drivers /\ TearsLater => p \in past'.strayed
      /\ past'.strayed \subseteq past.strayed \cup {p}
  BY <1>2 DEF RtcTypeOK
<1>5. p \notin peer_connections /\ p \notin signaled.ended
      /\ (p \in Drivers => \A c \in Drivers : ~InPlay(c))
      /\ \A q : InPlay(q) <=> q \in peer_connections
  BY <1>2 DEF RtcInv, SessionsOK, InPlay, Offered
<1>6. p # NoPeer /\ (p \in Drivers => graph # NoPeer)
  BY <1>1, ClosersDiffer
<1>7. /\ at' \in [Closers -> Stages] /\ \A u \in Closers \ {Signal} : at'[u] = at[u]
      /\ graph # NoPeer => at'[Signal].do = "offer" /\ at'[Signal].of = p /\ at'[Signal].left = {}
      /\ graph = NoPeer => at'[Signal] = at[Signal]
  <2>1. Does("offer", p) \in Stages /\ Does("offer", p).do = "offer"
        /\ Does("offer", p).of = p /\ Does("offer", p).left = {}
    BY DEF Does, Stages, Steps
  <2>2. at \in [Closers -> Stages] /\ Signal \in Closers
    BY <1>2, ClosersDiffer DEF RtcTypeOK
  <2>3. IF graph = NoPeer THEN at' = at ELSE at' = [at EXCEPT ![Signal] = Does("offer", p)]
    BY <1>1
  <2> QED BY <2>1, <2>2, <2>3
<1>8. /\ conn' \in [Peers -> {"none", "new", "connected", "closed"}]
      /\ \A q \in Peers \ {p} : conn'[q] = conn[q]
      /\ graph # NoPeer => conn'[p] = "new"
      /\ graph = NoPeer => conn' = conn
  BY <1>1, <1>2 DEF RtcTypeOK
<1>9. at'[Hook] = at[Hook] /\ \A q \in Peers : at'[Lost(q)] = at[Lost(q)]
  BY <1>7, ClosersDiffer
<1>10. \A q : /\ Offered(q)' => q = p /\ graph # NoPeer
              /\ InPlay(q)' => q \in peer_connections \/ q = p
  BY <1>2, <1>7 DEF Offered, InPlay
<1>11. \A t \in Closers : at[t].do # "done" => t # Signal /\ at'[t] = at[t]
  BY <1>2, <1>7
<1>12. \A t \in Closers : at'[t].do \notin {"done", "offer"} => t # Signal /\ at'[t] = at[t]
  BY <1>2, <1>7
<1>13. RtcTypeOK'
  BY <1>1, <1>2, <1>3, <1>4, <1>7, <1>8 DEF RtcTypeOK
<1>14. TasksOK'
  <2>1. HandlersOK'
    BY <1>2, <1>3, <1>8, <1>9 DEF RtcInv, TasksOK, HandlersOK
  <2>2. OfferOK' /\ StopsAllOK'
    BY <1>2, <1>3, <1>5, <1>6, <1>7, <1>8 DEF OfferOK, StopsAllOK
  <2>3. \A t \in Closers : at'[t].do \in {"pop", "tear", "reap", "close"} =>
          at'[t] = at[t]
    BY <1>12
  <2>4. \A t \in Closers : at'[t].left \subseteq at[t].left
    BY <1>7
  <2>5. \A v \in signaled.started : ~Offered(v)' /\ v \in signaled'.started
    BY <1>2, <1>3, <1>10
  <2>6. \A q \in signaled.started : conn'[q] = conn[q] /\ q \in signaled'.started
    BY <1>2, <1>3, <1>8 DEF RtcTypeOK
  <2>7. TeardownsOK'
    BY <2>3, <2>4, <2>5, <2>6 DEF RtcInv, TasksOK, TeardownsOK
  <2> QED BY <2>1, <2>2, <2>7 DEF TasksOK
<1>15. SessionsOK'
  <2>1. \A c, d \in Drivers : InPlay(c)' /\ InPlay(d)' => c = d
    BY <1>5, <1>10 DEF RtcInv, SessionsOK
  <2>2. \A c \in Drivers \cap signaled.ended : c \notin peer_connections
    BY <1>2 DEF RtcInv, SessionsOK
  <2> QED BY <1>2, <1>3, <2>1, <2>2 DEF RtcInv, SessionsOK
<1>16. InputOK'
  BY <1>2, <1>4 DEF RtcInv, InputOK
<1>17. \A c \in Drivers : LivePeer(c)' => LivePeer(c) \/ c = p
  BY <1>5, <1>8, <1>10, ClosersDiffer DEF LivePeer, InPlay
<1>18. GraphOK'
  <2>1. CASE p \in Drivers
    <3>1. \A c \in Drivers : LivePeer(c)' => c = p
      BY <1>5, <1>17, <2>1 DEF LivePeer
    <3>2. ASSUME NEW t \in Closers,
                 at'[t].do = "tear"
                 \/ (t \in {Signal, Hook} /\ at'[t].do = "pop" /\ at'[t].of \in Drivers)
          PROVE  TearsLater
      <4>1. t # Signal /\ at'[t] = at[t]
        BY <1>12, <3>2
      <4>2. at[t].do = "tear" => at[t].of \in Drivers \cup {NoPeer}
        BY DEF RtcInv, TasksOK, TeardownsOK
      <4>3. \A q \in Peers : t = Lost(q) /\ at[t].do = "tear" => q \in Drivers
        BY <4>2, ClosersDiffer DEF RtcInv, TasksOK, HandlersOK
      <4>4. CASE t = Hook
        BY <3>2, <4>1, <4>4 DEF TearsLater
      <4>5. CASE t # Hook
        <5>1. PICK q \in Peers : t = Lost(q)
          BY <4>1, <4>5, ClosersDiffer
        <5> QED BY <3>2, <4>1, <4>3, <4>5, <5>1 DEF TearsLater
      <4> QED BY <4>4, <4>5
    <3> QED BY <1>1, <1>4, <2>1, <3>1, <3>2 DEF GraphOK
  <2>2. CASE p \notin Drivers
    <3>1. displays' = displays /\ past' = past
      BY <1>1, <1>2, <2>2
    <3>2. \A c \in Drivers : LivePeer(c)' => LivePeer(c)
      BY <1>17, <2>2
    <3>3. \A t \in Closers :
            at'[t].do = "tear"
            \/ (t \in {Signal, Hook} /\ at'[t].do = "pop" /\ at'[t].of \in Drivers)
              => at'[t] = at[t]
      BY <1>12
    <3> QED BY <3>1, <3>2, <3>3 DEF RtcInv, GraphOK
  <2> QED BY <2>1, <2>2
<1>19. TearPending => TearPending'
  BY <1>2, <1>11 DEF TearPending
<1>20. \A v : Doomed(v) => Doomed(v)'
  BY <1>11 DEF Doomed
<1>21. \A q : InPlay(q) => InPlay(q)' /\ q # p
  BY <1>2, <1>5 DEF InPlay
<1>22. ViewersOK'
  <2>1. \A q \in peer_connections' : conn'[q] = "closed" => at'[Lost(q)].do = "pop"
    BY <1>2, <1>5, <1>8, <1>9 DEF RtcInv, ViewersOK, RtcTypeOK
  <2>2. \A v \in Watchers : InPlay(v)' => feeds'[v] # NoPeer
    <3> SUFFICES ASSUME NEW v \in Watchers, InPlay(v)' PROVE feeds'[v] # NoPeer
      OBVIOUS
    <3>1. v \in Peers /\ feeds \in [Peers -> Drivers \cup {NoPeer}]
      BY <1>2, ClosersDiffer DEF RtcTypeOK
    <3>2. CASE v = p
      <4>1. Offered(v)'
        BY <1>2, <1>5, <3>2 DEF InPlay
      <4> QED BY <1>1, <1>10, <3>1, <3>2, <4>1
    <3>3. CASE v # p
      <4>1. InPlay(v)
        BY <1>5, <1>10, <3>3
      <4> QED BY <1>1, <3>1, <3>3, <4>1 DEF RtcInv, ViewersOK
    <3> QED BY <3>2, <3>3
  <2>3. signaled'.link = "up" /\ displays' # NoPeer => InPlay(displays)' \/ TearPending'
    <3>1. CASE p \in Drivers
      <4>1. displays' = p /\ at'[Signal].do = "offer" /\ at'[Signal].of = p
        BY <1>1, <1>6, <1>7, <3>1
      <4> QED BY <4>1 DEF InPlay, Offered
    <3>2. CASE p \notin Drivers
      <4>1. displays' = displays
        BY <1>1, <3>2
      <4>2. signaled.link = "up" /\ displays # NoPeer => InPlay(displays) \/ TearPending
        BY DEF RtcInv, ViewersOK
      <4>3. InPlay(displays) => InPlay(displays)'
        BY <1>2, <1>5, <4>1 DEF InPlay
      <4> QED BY <1>3, <1>19, <4>1, <4>2, <4>3
    <3> QED BY <3>1, <3>2
  <2>4. ASSUME NEW v \in (peer_connections' \cap Watchers) \ past'.strayed, signaled'.link = "up"
        PROVE  feeds'[v] = displays' \/ Doomed(v)' \/ (TearPending' /\ displays' # NoPeer)
    <3>1. v \in (peer_connections \cap Watchers) \ past.strayed /\ v # p /\ signaled.link = "up"
          /\ v \in Peers
      BY <1>2, <1>3, <1>4, <1>5, <2>4, ClosersDiffer
    <3>2. feeds'[v] = feeds[v] /\ feeds[v] # NoPeer
      BY <1>1, <1>2, <3>1 DEF RtcInv, ViewersOK, RtcTypeOK, InPlay
    <3>3. feeds[v] = displays \/ Doomed(v) \/ (TearPending /\ displays # NoPeer)
      BY <3>1 DEF RtcInv, ViewersOK
    <3>4. CASE p \in Drivers
      <4>1. displays' = p /\ displays' # NoPeer
        BY <1>1, <1>6, <3>4
      <4>2. displays # NoPeer => ~InPlay(displays)
        BY <1>2, <1>5, <3>4 DEF RtcTypeOK
      <4>3. feeds[v] = displays => TearPending
        BY <3>1, <3>2, <4>2 DEF RtcInv, ViewersOK
      <4> QED BY <1>19, <1>20, <3>3, <4>1, <4>3
    <3>5. CASE p \notin Drivers
      <4>1. displays' = displays
        BY <1>1, <3>5
      <4> QED BY <1>19, <1>20, <3>2, <3>3, <4>1
    <3> QED BY <3>4, <3>5
  <2> QED BY <2>1, <2>2, <2>3, <2>4 DEF ViewersOK
<1> QED BY <1>13, <1>14, <1>15, <1>16, <1>18, <1>22 DEF RtcInv

\* The offer is out: the peer is registered, its input held.
LEMMA OfferSentStep == ASSUME RtcInv, OfferSent PROVE RtcInv'
<1>1. PICK p \in Peers :
        /\ at[Signal].of = p /\ at[Signal].do = "offer" /\ p \in signaled.started
        /\ p \notin signaled.ended /\ p \notin peer_connections /\ conn[p] = "new"
        /\ RtcTypeOK
  BY DEF OfferSent, RtcInv, TasksOK, OfferOK, RtcTypeOK
<1>2. PICK now \in SUBSET Peers :
        now = IF p \in Drivers \/ feeds[p] = displays THEN past.strayed
              ELSE past.strayed \cup {p}
  BY <1>1 DEF RtcTypeOK
<1>3. /\ peer_connections' = peer_connections \cup {p}
      /\ at' = [at EXCEPT ![Signal] = Does("done", NoPeer)]
      /\ past' = [[past EXCEPT !.input[p] = "held"] EXCEPT !.strayed = now]
      /\ signaled.link = "up"
      /\ UNCHANGED <<conn, displays, feeds, calling, signaled>>
  BY <1>1, <1>2 DEF OfferSent
<1>4. /\ past' \in [input: [Peers -> {"none", "held", "released", "twice"}],
                    strayed: SUBSET Peers, failed: BOOLEAN, cut: BOOLEAN]
      /\ past'.input[p] = "held" /\ past'.strayed = now
      /\ \A q \in Peers \ {p} : past'.input[q] = past.input[q]
  <2> DEFINE held == [past EXCEPT !.input[p] = "held"]
  <2>1. held \in [input: [Peers -> {"none", "held", "released", "twice"}],
                  strayed: SUBSET Peers, failed: BOOLEAN, cut: BOOLEAN]
        /\ held.input[p] = "held"
        /\ \A q \in Peers \ {p} : held.input[q] = past.input[q]
    BY <1>1 DEF RtcTypeOK
  <2>2. past' = [held EXCEPT !.strayed = now]
    BY <1>3
  <2> HIDE DEF held
  <2> QED BY <2>1, <2>2
<1>5. /\ at' \in [Closers -> Stages] /\ \A u \in Closers \ {Signal} : at'[u] = at[u]
      /\ at'[Signal].do = "done" /\ at'[Signal].left = {}
  <2>1. Does("done", NoPeer) \in Stages /\ Does("done", NoPeer).do = "done"
        /\ Does("done", NoPeer).left = {}
    BY DEF Does, Stages, Steps
  <2> QED BY <1>1, <1>3, <2>1, ClosersDiffer DEF RtcTypeOK
<1>6. at'[Hook] = at[Hook] /\ \A q \in Peers : at'[Lost(q)] = at[Lost(q)]
  BY <1>5, ClosersDiffer
<1>7. \A q : /\ ~Offered(q)' /\ (Offered(q) <=> q = p)
             /\ (InPlay(q)' <=> InPlay(q)) /\ (LivePeer(q)' <=> LivePeer(q))
  BY <1>1, <1>3, <1>5 DEF Offered, InPlay, LivePeer
<1>8. \A t \in Closers : at[t].do \notin {"done", "offer"} => at'[t] = at[t]
  BY <1>1, <1>5
<1>9. \A t \in Closers : at'[t].do # "done" => at'[t] = at[t]
  BY <1>5
<1>10. RtcTypeOK'
  BY <1>1, <1>3, <1>4, <1>5 DEF RtcTypeOK
<1>11. TasksOK'
  <2>1. HandlersOK'
    BY <1>3, <1>6 DEF RtcInv, TasksOK, HandlersOK
  <2>2. OfferOK' /\ StopsAllOK'
    BY <1>5 DEF OfferOK, StopsAllOK
  <2>3. \A t \in Closers : at'[t].left \subseteq at[t].left
    BY <1>5
  <2>4. TeardownsOK'
    BY <1>3, <1>7, <1>9, <2>3 DEF RtcInv, TasksOK, TeardownsOK
  <2> QED BY <2>1, <2>2, <2>4 DEF TasksOK
<1>12. SessionsOK'
  <2>1. \A c \in Drivers \cap signaled.ended : c \notin peer_connections /\ c # p
    BY <1>1 DEF RtcInv, SessionsOK
  <2>2. \A c, d \in Drivers : InPlay(c)' /\ InPlay(d)' => c = d
    BY <1>7 DEF RtcInv, SessionsOK
  <2> QED BY <1>1, <1>3, <2>1, <2>2 DEF RtcInv, SessionsOK
<1>13. InputOK'
  BY <1>1, <1>3, <1>4 DEF RtcInv, InputOK, RtcTypeOK
<1>14. past.strayed \subseteq now /\ \A c \in Drivers : c \in now => c \in past.strayed
  BY <1>2
<1>15. GraphOK'
  <2>1. \A c \in Drivers : LivePeer(c)' /\ c \notin past'.strayed => displays' = c
    BY <1>3, <1>4, <1>7, <1>14 DEF RtcInv, GraphOK
  <2>2. ASSUME NEW t \in Closers,
               at'[t].do = "tear"
               \/ (t \in {Signal, Hook} /\ at'[t].do = "pop" /\ at'[t].of \in Drivers),
               NEW c \in Drivers, LivePeer(c)'
        PROVE  c \in past'.strayed
    BY <1>4, <1>7, <1>9, <1>14, <2>2 DEF RtcInv, GraphOK
  <2> QED BY <2>1, <2>2 DEF GraphOK
<1>16. TearPending => TearPending'
  BY <1>3, <1>8 DEF TearPending
<1>17. \A v : Doomed(v) => Doomed(v)'
  BY <1>8 DEF Doomed
<1>18. ViewersOK'
  <2>1. \A q \in peer_connections' : conn'[q] = "closed" => at'[Lost(q)].do = "pop"
    BY <1>1, <1>3, <1>6 DEF RtcInv, ViewersOK, RtcTypeOK
  <2>2. \A v \in Watchers : InPlay(v)' => feeds'[v] # NoPeer
    BY <1>3, <1>7 DEF RtcInv, ViewersOK
  <2>3. displays # NoPeer => InPlay(displays)' \/ TearPending'
    BY <1>3, <1>7, <1>16 DEF RtcInv, ViewersOK
  <2>4. ASSUME NEW v \in (peer_connections' \cap Watchers) \ past'.strayed
        PROVE  feeds'[v] = displays' \/ Doomed(v)' \/ (TearPending' /\ displays' # NoPeer)
    <3>1. CASE v = p
      <4>1. p \notin Drivers /\ p \notin now
        BY <1>4, <2>4, <3>1, ClosersDiffer
      <4> QED BY <1>2, <1>3, <3>1, <4>1
    <3>2. CASE v # p
      <4>1. v \in (peer_connections \cap Watchers) \ past.strayed
        BY <1>3, <1>4, <1>14, <2>4, <3>2
      <4>2. feeds[v] = displays \/ Doomed(v) \/ (TearPending /\ displays # NoPeer)
        BY <1>3, <4>1 DEF RtcInv, ViewersOK
      <4> QED BY <1>3, <1>16, <1>17, <4>2
    <3> QED BY <3>1, <3>2
  <2>5. displays' = displays /\ signaled' = signaled
    BY <1>3
  <2>6. signaled'.link = "up" /\ displays' # NoPeer => InPlay(displays)' \/ TearPending'
    BY <2>3, <2>5
  <2> QED BY <2>1, <2>2, <2>4, <2>6 DEF ViewersOK
<1> QED BY <1>10, <1>11, <1>12, <1>13, <1>15, <1>18 DEF RtcInv

\* The signaling socket is gone before the offer: the peer is not registered.
LEMMA OfferFailsStep == ASSUME RtcInv, OfferFails PROVE RtcInv'
<1>1. PICK p \in Peers :
        /\ at[Signal].of = p /\ at[Signal].do = "offer" /\ p \in signaled.started
        /\ p \notin peer_connections /\ conn[p] = "new"
        /\ RtcTypeOK
  BY DEF OfferFails, RtcInv, TasksOK, OfferOK, RtcTypeOK
<1>2. /\ conn' = [conn EXCEPT ![p] = "closed"]
      /\ at' = [at EXCEPT ![Signal] = Does("done", NoPeer)]
      /\ signaled.link = "down"
      /\ UNCHANGED <<peer_connections, displays, feeds, calling, signaled, past>>
  BY <1>1 DEF OfferFails, media
<1>3. /\ at' \in [Closers -> Stages] /\ \A u \in Closers \ {Signal} : at'[u] = at[u]
      /\ at'[Signal].do = "done" /\ at'[Signal].left = {}
  <2>1. Does("done", NoPeer) \in Stages /\ Does("done", NoPeer).do = "done"
        /\ Does("done", NoPeer).left = {}
    BY DEF Does, Stages, Steps
  <2> QED BY <1>1, <1>2, <2>1, ClosersDiffer DEF RtcTypeOK
<1>4. /\ conn' \in [Peers -> {"none", "new", "connected", "closed"}]
      /\ conn'[p] = "closed" /\ \A q \in Peers \ {p} : conn'[q] = conn[q]
  BY <1>1, <1>2 DEF RtcTypeOK
<1>5. at'[Hook] = at[Hook] /\ \A q \in Peers : at'[Lost(q)] = at[Lost(q)]
  BY <1>3, ClosersDiffer
<1>6. \A q : ~Offered(q)' /\ (InPlay(q)' <=> q \in peer_connections)
  BY <1>2, <1>3 DEF Offered, InPlay
<1>7. \A q : (InPlay(q)' => InPlay(q)) /\ (LivePeer(q)' => LivePeer(q))
  BY <1>1, <1>4, <1>6 DEF LivePeer, InPlay, RtcTypeOK
<1>8. \A t \in Closers : at'[t].do # "done" => at'[t] = at[t]
  BY <1>3
<1>9. RtcTypeOK'
  BY <1>1, <1>2, <1>3, <1>4 DEF RtcTypeOK
<1>10. TasksOK'
  <2>1. HandlersOK'
    BY <1>2, <1>4, <1>5 DEF RtcInv, TasksOK, HandlersOK
  <2>2. OfferOK' /\ StopsAllOK'
    BY <1>3 DEF OfferOK, StopsAllOK
  <2>3. \A t \in Closers : at'[t].left \subseteq at[t].left
    BY <1>3
  <2>4. \A q \in signaled.started : conn[q] = "closed" => conn'[q] = "closed"
    BY <1>1, <1>4 DEF RtcTypeOK
  <2>5. TeardownsOK'
    BY <1>2, <1>6, <1>8, <2>3, <2>4 DEF RtcInv, TasksOK, TeardownsOK
  <2> QED BY <2>1, <2>2, <2>5 DEF TasksOK
<1>11. SessionsOK'
  <2>1. \A c \in Drivers \cap signaled.ended : c \notin peer_connections
    BY <1>1 DEF RtcInv, SessionsOK
  <2>2. \A c, d \in Drivers : InPlay(c)' /\ InPlay(d)' => c = d
    BY <1>7 DEF RtcInv, SessionsOK
  <2> QED BY <1>2, <2>1, <2>2 DEF RtcInv, SessionsOK
<1>12. InputOK'
  BY <1>2 DEF RtcInv, InputOK
<1>13. GraphOK'
  BY <1>2, <1>7, <1>8 DEF RtcInv, GraphOK
<1>14. ViewersOK'
  <2>1. \A q \in peer_connections' : conn'[q] = "closed" => at'[Lost(q)].do = "pop"
    BY <1>1, <1>2, <1>4, <1>5 DEF RtcInv, ViewersOK, RtcTypeOK
  <2>2. \A v \in Watchers : InPlay(v)' => feeds'[v] # NoPeer
    BY <1>2, <1>7 DEF RtcInv, ViewersOK
  <2> QED BY <1>2, <2>1, <2>2 DEF ViewersOK
<1> QED BY <1>9, <1>10, <1>11, <1>12, <1>13, <1>14 DEF RtcInv

\* A connection is established: a peer that is to be popped is closed already.
LEMMA ConnectsStep == ASSUME RtcInv, NEW p \in Peers, Connects(p) PROVE RtcInv'
<1>1. /\ p \in peer_connections /\ conn[p] = "new"
      /\ conn' = [conn EXCEPT ![p] = "connected"]
      /\ UNCHANGED <<peer_connections, displays, feeds, calling, at, signaled, past>>
  BY DEF Connects
<1>2. /\ conn' \in [Peers -> {"none", "new", "connected", "closed"}]
      /\ \A q \in Peers : conn'[q] = "closed" <=> conn[q] = "closed"
      /\ \A q \in Peers \ {p} : conn'[q] = conn[q]
  BY <1>1 DEF RtcInv, RtcTypeOK
<1>3. \A q \in Peers : (Offered(q)' <=> Offered(q)) /\ (InPlay(q)' <=> InPlay(q)) /\ (LivePeer(q)' <=> LivePeer(q))
  BY <1>1, <1>2 DEF Offered, InPlay, LivePeer
<1>4. RtcTypeOK'
  BY <1>1, <1>2 DEF RtcInv, RtcTypeOK
<1>5. TasksOK'
  <2>1. HandlersOK'
    BY <1>1, <1>2 DEF RtcInv, TasksOK, HandlersOK
  <2>2. OfferOK' /\ StopsAllOK'
    BY <1>1, <1>2 DEF RtcInv, TasksOK, OfferOK, StopsAllOK, RtcTypeOK
  <2>3. TeardownsOK'
    BY <1>1, <1>2 DEF RtcInv, TasksOK, TeardownsOK, RtcTypeOK, Offered
  <2> QED BY <2>1, <2>2, <2>3 DEF TasksOK
<1>6. SessionsOK' /\ InputOK'
  BY <1>1 DEF RtcInv, SessionsOK, InputOK, InPlay, Offered
<1>7. GraphOK'
  BY <1>1, <1>3, ClosersDiffer DEF RtcInv, GraphOK
<1>8. ViewersOK'
  BY <1>1, <1>2 DEF RtcInv, ViewersOK, RtcTypeOK, InPlay, Offered, TearPending, Doomed
<1> QED BY <1>4, <1>5, <1>6, <1>7, <1>8 DEF RtcInv

\* stop_all has stopped the last peer and goes on with the graph.
LEMMA StopsGraphsStep == ASSUME RtcInv, StopsGraphs PROVE RtcInv'
<1>1. /\ at[Signal].do = "done" /\ signaled.link = "stopping" /\ signaled.doomed = {}
      /\ at' = [at EXCEPT ![Signal] = Does("tear", NoPeer)]
      /\ UNCHANGED <<peer_connections, conn, displays, feeds, calling, signaled, past>>
      /\ RtcTypeOK
  BY DEF StopsGraphs, Resting, media, RtcInv
<1>2. /\ at' \in [Closers -> Stages] /\ \A u \in Closers \ {Signal} : at'[u] = at[u]
      /\ at'[Signal].do = "tear" /\ at'[Signal].of = NoPeer /\ at'[Signal].left = {}
  <2>1. Does("tear", NoPeer) \in Stages /\ Does("tear", NoPeer).do = "tear"
        /\ Does("tear", NoPeer).left = {} /\ Does("tear", NoPeer).of = NoPeer
    BY DEF Does, Stages, Steps
  <2> QED BY <1>1, <2>1, ClosersDiffer DEF RtcTypeOK
<1>3. peer_connections = {}
  BY <1>1 DEF RtcInv, SessionsOK
<1>4. at'[Hook] = at[Hook] /\ \A q \in Peers : at'[Lost(q)] = at[Lost(q)]
  BY <1>2, ClosersDiffer
<1>5. \A q : ~Offered(q)' /\ ~InPlay(q)' /\ ~LivePeer(q)'
  BY <1>1, <1>2, <1>3 DEF Offered, InPlay, LivePeer
<1>6. RtcTypeOK'
  BY <1>1, <1>2 DEF RtcTypeOK
<1>7. TasksOK'
  <2>1. HandlersOK'
    BY <1>1, <1>4 DEF RtcInv, TasksOK, HandlersOK
  <2>2. OfferOK' /\ StopsAllOK'
    BY <1>1, <1>2, <1>3 DEF OfferOK, StopsAllOK
  <2>3. TeardownsOK'
    BY <1>1, <1>2, <1>5 DEF RtcInv, TasksOK, TeardownsOK
  <2> QED BY <2>1, <2>2, <2>3 DEF TasksOK
<1>8. SessionsOK' /\ InputOK' /\ GraphOK'
  BY <1>1, <1>2, <1>3, <1>5 DEF RtcInv, SessionsOK, InputOK, GraphOK
<1>9. ViewersOK'
  BY <1>1, <1>3, <1>5 DEF ViewersOK
<1> QED BY <1>6, <1>7, <1>8, <1>9 DEF RtcInv

\* The steps of the lock and of the channels.
LEMMA LockStep ==
  ASSUME RtcInv, Acquires \/ NativeReturns \/ NativeFails \/ \E p \in Peers : VideoToggled(p)
  PROVE  RtcInv'
<1>0. past \in [input: [Peers -> {"none", "held", "released", "twice"}],
                strayed: SUBSET Peers, failed: BOOLEAN, cut: BOOLEAN]
      /\ calling \in BOOLEAN
  BY DEF RtcInv, RtcTypeOK
<1>1. CASE Acquires
  <2>1. UNCHANGED <<peer_connections, conn, displays, feeds, at, signaled, past>>
        /\ calling' \in BOOLEAN
    BY <1>0, <1>1 DEF Acquires
  <2> QED BY <1>0, <2>1, PeersKept
<1>2. CASE NativeReturns
  <2>1. UNCHANGED <<peer_connections, conn, displays, feeds, at, signaled>> /\ calling' = FALSE
    BY <1>2 DEF NativeReturns, Releases
  <2>2. PICK failed \in BOOLEAN : past' = [past EXCEPT !.failed = failed]
    <3> DEFINE failed == past.failed /\ ~(Head(async_lock).op \in {"start", "resume"})
    <3>1. failed \in BOOLEAN
      BY <1>0, Zenon
    <3>2. past' = [past EXCEPT !.failed = failed]
      BY <1>2 DEF NativeReturns
    <3> QED BY <3>1, <3>2
  <2> QED BY <1>0, <2>1, <2>2, PeersKept
<1>3. CASE NativeFails
  <2>1. UNCHANGED <<peer_connections, conn, displays, feeds, at, signaled>> /\ calling' = FALSE
        /\ past' = [past EXCEPT !.failed = TRUE]
    BY <1>3 DEF NativeFails, Releases
  <2> QED BY <1>0, <2>1, PeersKept
<1>4. CASE \E p \in Peers : VideoToggled(p)
  <2>1. UNCHANGED <<peer_connections, conn, displays, feeds, at, signaled, past, calling>>
    BY <1>4 DEF VideoToggled
  <2> QED BY <1>0, <2>1, PeersKept
<1> QED BY <1>1, <1>2, <1>3, <1>4

LEMMA RtcStep == RtcInv /\ [RtcNext]_rtcVars => RtcInv'
<1> SUFFICES ASSUME RtcInv, [RtcNext]_rtcVars PROVE RtcInv'
  OBVIOUS
<1>1. CASE \E p \in Peers : PeerVanishes(p) \/ SessionStarts(p) \/ SessionEnds(p)
                            \/ TokenRevoked(p) \/ Connects(p) \/ VideoToggled(p)
  BY <1>1, VanishStep, SessionStartsStep, SessionEndsStep, TokenRevokedStep, ConnectsStep, LockStep
<1>2. CASE \E t \in Closers : Pops(t) \/ Tears(t) \/ FindsViewers(t) \/ ClosesViewer(t) \/ Finishes(t)
  BY <1>2, PopsStep, TeardownStep, ClosesViewerStep
<1>3. CASE OfferSent \/ OfferFails \/ SignalingDrops \/ StopsAll \/ StopsNext \/ StopsGraphs
  BY <1>3, OfferSentStep, OfferFailsStep, SignalingStep, StopsNextStep, StopsGraphsStep
<1>4. CASE UNCHANGED rtcVars
  <2>1. UNCHANGED <<peer_connections, conn, displays, feeds, at, signaled, past, calling>>
    BY <1>4 DEF rtcVars
  <2>2. past \in [input: [Peers -> {"none", "held", "released", "twice"}],
                  strayed: SUBSET Peers, failed: BOOLEAN, cut: BOOLEAN]
        /\ calling \in BOOLEAN
    BY DEF RtcInv, RtcTypeOK
  <2> QED BY <2>1, <2>2, PeersKept
<1>5. CASE Acquires \/ NativeReturns \/ NativeFails
  BY <1>5, LockStep
<1> QED BY <1>1, <1>2, <1>3, <1>4, <1>5 DEF RtcNext

LEMMA RtcInvariant == RtcSpec => []RtcInv
<1> QED BY RtcInitInv, RtcStep, PTL DEF RtcSpec

(***************************************************************************)
(* The input a peer may hold is held exactly while the peer is registered  *)
(* and is released once, by whichever of the tasks that tear the peer down *)
(* pops it (_stop_rtc_pipeline and on_peer_gone, rtc.py).                  *)
(***************************************************************************)
THEOREM InputReleasedOnce == RtcSpec => []InputReleased
<1>1. RtcInv => InputReleased
  BY DEF RtcInv, InputOK, InputReleased
<1> QED BY <1>1, RtcInvariant, PTL

(***************************************************************************)
(* A controller whose connection is open has the graph that was made for   *)
(* it, whatever tears its predecessor down and however often, unless it    *)
(* started in the middle of such a teardown (_start_rtc_pipeline,          *)
(* _teardown_display_graph).                                               *)
(***************************************************************************)
THEOREM GraphOfController == RtcSpec => []GraphKept
<1>1. RtcInv => GraphKept
  BY DEF RtcInv, GraphOK, GraphKept, LivePeer, InPlay
<1> QED BY <1>1, RtcInvariant, PTL

(***************************************************************************)
(* Once every teardown has finished, a viewer feeds from the display's     *)
(* present graph: the three teardowns of a graph close its viewers,        *)
(* however they overlap (_close_display_viewers).                          *)
(***************************************************************************)
THEOREM ViewersOfGraph == RtcSpec => []ViewersFollow
<1>1. ASSUME RtcInv, MediaSettled,
             NEW v \in (peer_connections \cap Watchers) \ past.strayed
      PROVE  feeds[v] = displays
  <2>1. ~Doomed(v) /\ ~TearPending /\ signaled.link = "up"
    BY <1>1 DEF MediaSettled, Doomed, TearPending
  <2> QED BY <1>1, <2>1 DEF RtcInv, ViewersOK
<1>2. RtcInv => ViewersFollow
  BY <1>1 DEF ViewersFollow
<1> QED BY <1>2, RtcInvariant, PTL
-----------------------------------------------------------------------------
(* The queue of async_lock *)

Tasks == Closers \cup {Established(p) : p \in Peers} \cup {Channel(p) : p \in Peers}
Pausing == {"pause", "resume"}
Asks == [task: Tasks, op: {"start", "stop"} \cup Pausing]

\* Whether the pipeline runs once the tasks of a queue have had the lock.
RunsAfter(q, run) ==
  \/ run /\ \A i \in 1 .. Len(q) : q[i].op # "stop"
  \/ \E i \in 1 .. Len(q) : /\ q[i].op = "start"
                            /\ \A j \in i .. Len(q) : q[j].op # "stop"

\* Nobody starts what already runs.
StopsBetween(q, run) ==
  \A i \in 1 .. Len(q) : q[i].op = "start" =>
    /\ run => \E j \in 1 .. (i - 1) : q[j].op = "stop"
    /\ \A k \in 1 .. (i - 1) : q[k].op = "start" =>
         \E j \in k .. (i - 1) : q[j].op = "stop"

\* A page's channel is at the lock once, while the page is registered and open.
ChannelsOnce(q, pages) ==
  \A p \in Peers : \A i, j \in 1 .. Len(q) : q[i].task = Channel(p) =>
    /\ p \in pages /\ q[i].op \in Pausing
    /\ q[j].task = Channel(p) => i = j

QueueOK(q, run, pages) == StopsBetween(q, run) /\ ChannelsOnce(q, pages)

LEMMA ChannelsDiffer ==
  /\ \A p, r \in Peers : Channel(p) = Channel(r) => p = r
  /\ \A p \in Peers, t \in Closers : t # Channel(p)
  /\ \A p, r \in Peers : Established(p) # Channel(r)
BY DEF Channel, Established, Closers, Signal, Hook, Lost

LEMMA Appended ==
  ASSUME NEW q \in Seq(Asks), NEW e \in Asks, NEW run \in BOOLEAN, NEW pages,
         QueueOK(q, run, pages),
         \A p \in Peers : e.task = Channel(p) =>
           p \in pages /\ e.op \in Pausing /\ \A i \in 1 .. Len(q) : q[i].task # e.task
  PROVE  /\ Append(q, e) \in Seq(Asks) /\ Append(q, e) # <<>>
         /\ Append(q, e)[Len(Append(q, e))] = e
         /\ q # <<>> => Head(Append(q, e)) = Head(q)
         /\ ChannelsOnce(Append(q, e), pages)
         /\ e.op \in Pausing => /\ RunsAfter(Append(q, e), run) <=> RunsAfter(q, run)
                                /\ QueueOK(Append(q, e), run, pages)
         /\ e.op = "stop" => ~RunsAfter(Append(q, e), run) /\ QueueOK(Append(q, e), run, pages)
         /\ e.op = "start" /\ ~RunsAfter(q, run) =>
              RunsAfter(Append(q, e), run) /\ QueueOK(Append(q, e), run, pages)
<1> DEFINE a == Append(q, e)  n == Len(q)
<1>1. /\ n \in Nat /\ a \in Seq(Asks) /\ Len(a) = n + 1 /\ a[n + 1] = e /\ a # <<>>
      /\ \A i \in 1 .. n : a[i] = q[i]
      /\ q # <<>> => Head(a) = Head(q)
  OBVIOUS
<1> HIDE DEF a, n
<1>2. ChannelsOnce(a, pages)
  <2>1. \A i \in 1 .. Len(a) : i \in 1 .. n \/ i = n + 1
    BY <1>1
  <2> SUFFICES ASSUME NEW p \in Peers, NEW i \in 1 .. Len(a), NEW j \in 1 .. Len(a),
                      a[i].task = Channel(p)
               PROVE  /\ p \in pages /\ a[i].op \in Pausing
                      /\ a[j].task = Channel(p) => i = j
    BY DEF ChannelsOnce
  <2>2. CASE i \in 1 .. n /\ j \in 1 .. n
    BY <1>1, <2>2 DEF QueueOK, ChannelsOnce, n
  <2>3. CASE i = n + 1 /\ j \in 1 .. n
    BY <1>1, <2>3 DEF n
  <2>4. CASE i \in 1 .. n /\ j = n + 1
    <3>1. p \in pages /\ a[i].op \in Pausing
      BY <1>1, <2>4 DEF QueueOK, ChannelsOnce, n
    <3> QED BY <1>1, <2>4, <3>1 DEF n
  <2>5. CASE i = n + 1 /\ j = n + 1
    BY <1>1, <2>5 DEF n
  <2> QED BY <2>1, <2>2, <2>3, <2>4, <2>5
<1>3. ASSUME e.op # "start" PROVE StopsBetween(a, run)
  BY <1>1, <1>3 DEF QueueOK, StopsBetween, n
<1>4. ASSUME e.op \in Pausing PROVE RunsAfter(a, run) <=> RunsAfter(q, run)
  BY <1>1, <1>4 DEF RunsAfter, Pausing, n
<1>5. ASSUME e.op = "stop" PROVE ~RunsAfter(a, run)
  BY <1>1, <1>5 DEF RunsAfter
<1>6. ASSUME e.op = "start", ~RunsAfter(q, run)
      PROVE  RunsAfter(a, run) /\ StopsBetween(a, run)
  <2>1. RunsAfter(a, run)
    BY <1>1, <1>6 DEF RunsAfter
  <2>2. /\ run => \E j \in 1 .. n : q[j].op = "stop"
        /\ \A k \in 1 .. n : q[k].op = "start" => \E j \in k .. n : q[j].op = "stop"
    BY <1>6 DEF RunsAfter, n
  <2>3. /\ run => \E j \in 1 .. n : a[j].op = "stop"
        /\ \A k \in 1 .. n : a[k].op = "start" => \E j \in k .. n : a[j].op = "stop"
    BY <1>1, <2>2
  <2>4. \A i \in 1 .. n : a[i].op = "start" =>
          /\ run => \E j \in 1 .. (i - 1) : a[j].op = "stop"
          /\ \A k \in 1 .. (i - 1) : a[k].op = "start" =>
               \E j \in k .. (i - 1) : a[j].op = "stop"
    BY <1>1 DEF QueueOK, StopsBetween, n
  <2>5. \A i \in 1 .. Len(a) : i \in 1 .. n \/ (i = n + 1 /\ i - 1 = n)
    BY <1>1
  <2> QED BY <2>1, <2>3, <2>4, <2>5 DEF StopsBetween
<1> QED BY <1>1, <1>2, <1>3, <1>4, <1>5, <1>6 DEF QueueOK, Pausing, a

\* The first of the queue has had the lock, and has left the pipeline running
\* or not; or its start failed.
LEMMA Dequeued ==
  ASSUME NEW q \in Seq(Asks), NEW run \in BOOLEAN, NEW pages, q # <<>>,
         QueueOK(q, run, pages),
         NEW now \in BOOLEAN,
         Head(q).op = "stop" => ~now,
         Head(q).op \in Pausing => now = run
  PROVE  /\ Tail(q) \in Seq(Asks) /\ Head(q) \in Asks /\ Head(q) = q[1]
         /\ Tail(q) # <<>> => Tail(q)[Len(Tail(q))] = q[Len(q)]
         /\ Tail(q) = <<>> => Head(q) = q[Len(q)]
         /\ QueueOK(Tail(q), now, pages)
         /\ RunsAfter(Tail(q), now) => RunsAfter(q, run)
         /\ Head(q).op = "start" => ~run
         /\ Head(q).op = "start" /\ ~now /\ RunsAfter(q, run) /\ ~RunsAfter(Tail(q), now) =>
              \A i \in 1 .. Len(Tail(q)) : Tail(q)[i].op \in Pausing
         /\ Head(q).op # "start" \/ now => (RunsAfter(q, run) => RunsAfter(Tail(q), now))
<1> DEFINE b == Tail(q)  n == Len(q)
<1>0. n \in Nat /\ n >= 1 /\ Head(q) = q[1] /\ \A i \in 1 .. n : q[i] \in Asks
  OBVIOUS
<1>1. /\ n \in Nat /\ n >= 1 /\ b \in Seq(Asks) /\ Len(b) = n - 1
      /\ \A i \in 1 .. (n - 1) : b[i] = q[i + 1]
      /\ Head(q) = q[1] /\ q[1] \in Asks
      /\ b = <<>> => n = 1
  <2>1. b \in Seq(Asks) /\ Len(b) = n - 1
    OBVIOUS
  <2>2. \A i \in 1 .. (n - 1) : b[i] = q[i + 1]
    OBVIOUS
  <2>3. q[1] \in Asks
    BY <1>0
  <2> HIDE DEF b, n
  <2>4. b = <<>> => Len(b) = 0
    OBVIOUS
  <2> QED BY <1>0, <2>1, <2>2, <2>3, <2>4
<1>2. /\ \A i \in 1 .. n : q[i].op \in {"start", "stop"} \cup Pausing
      /\ q[1].op \in {"start", "stop"} \cup Pausing
      /\ q[1].op = "stop" => ~now
      /\ q[1].op \in Pausing => now = run
  BY <1>0, <1>1 DEF Asks
<1>3. \A i \in 2 .. n : q[i] = b[i - 1]
  BY <1>1
<1> HIDE DEF b, n
<1>4. b # <<>> => b[Len(b)] = q[n]
  <2>1. b # <<>> => n - 1 \in 1 .. (n - 1)
    BY <1>1
  <2> QED BY <1>1, <2>1
<1>5. ChannelsOnce(b, pages)
  BY <1>1 DEF QueueOK, ChannelsOnce, n
<1>6. q[1].op = "start" => ~run
  BY <1>1 DEF QueueOK, StopsBetween, n
<1>7. StopsBetween(b, now)
  <2> SUFFICES ASSUME NEW i \in 1 .. Len(b), b[i].op = "start"
               PROVE  /\ now => \E j \in 1 .. (i - 1) : b[j].op = "stop"
                      /\ \A k \in 1 .. (i - 1) : b[k].op = "start" =>
                           \E j \in k .. (i - 1) : b[j].op = "stop"
    BY DEF StopsBetween
  <2>1. i + 1 \in 1 .. n /\ q[i + 1].op = "start" /\ (i + 1) - 1 = i
    BY <1>1
  <2>2. /\ run => \E j \in 1 .. i : q[j].op = "stop"
        /\ \A k \in 1 .. i : q[k].op = "start" => \E j \in k .. i : q[j].op = "stop"
    BY <2>1 DEF QueueOK, StopsBetween, n
  <2>3. ASSUME NEW k \in 1 .. (i - 1), b[k].op = "start"
        PROVE  \E j \in k .. (i - 1) : b[j].op = "stop"
    <3>1. k + 1 \in 1 .. i /\ q[k + 1].op = "start"
      BY <1>1, <2>3
    <3>2. PICK j \in (k + 1) .. i : q[j].op = "stop"
      BY <2>2, <3>1
    <3>3. j - 1 \in k .. (i - 1) /\ b[j - 1] = q[j]
      BY <1>1, <3>1, <3>2
    <3> QED BY <3>2, <3>3
  <2>4. ASSUME now PROVE \E j \in 1 .. (i - 1) : b[j].op = "stop"
    <3>1. PICK j \in 1 .. i : q[j].op = "stop"
      <4>1. 1 \in 1 .. i
        BY <1>1
      <4>2. q[1].op = "start" \/ run
        BY <1>2, <2>4
      <4> QED BY <2>2, <4>1, <4>2
    <3>2. j # 1
      BY <1>2, <2>4, <3>1
    <3>3. j - 1 \in 1 .. (i - 1) /\ b[j - 1] = q[j]
      BY <1>1, <3>1, <3>2
    <3> QED BY <3>1, <3>3
  <2> QED BY <2>3, <2>4
<1>8. ASSUME RunsAfter(b, now) PROVE RunsAfter(q, run)
  <2>1. CASE now /\ \A i \in 1 .. Len(b) : b[i].op # "stop"
    <3>1. \A i \in 1 .. n : q[i].op # "stop"
      <4>1. \A i \in 2 .. n : i - 1 \in 1 .. Len(b) /\ q[i] = b[i - 1]
        BY <1>1, <1>3
      <4>2. \A i \in 1 .. n : i = 1 \/ i \in 2 .. n
        BY <1>1
      <4> QED BY <1>2, <2>1, <4>1, <4>2
    <3>2. CASE q[1].op = "start"
      <4>1. 1 \in 1 .. n /\ \A j \in 1 .. n : j \in 1 .. n
        BY <1>1
      <4> QED BY <3>1, <3>2, <4>1 DEF RunsAfter, n
    <3>3. CASE q[1].op # "start"
      BY <1>2, <2>1, <3>1, <3>3 DEF RunsAfter, n
    <3> QED BY <3>2, <3>3
  <2>2. CASE \E i \in 1 .. Len(b) : b[i].op = "start" /\ \A j \in i .. Len(b) : b[j].op # "stop"
    <3>1. PICK i \in 1 .. Len(b) : b[i].op = "start" /\ \A j \in i .. Len(b) : b[j].op # "stop"
      BY <2>2
    <3>2. i + 1 \in 1 .. n /\ q[i + 1].op = "start"
      BY <1>1, <3>1
    <3>3. \A j \in (i + 1) .. n : j - 1 \in i .. Len(b) /\ q[j] = b[j - 1]
      BY <1>1, <1>3
    <3> QED BY <3>1, <3>2, <3>3 DEF RunsAfter, n
  <2> QED BY <1>8, <2>1, <2>2 DEF RunsAfter
<1>9. ASSUME RunsAfter(q, run), q[1].op # "start" \/ now PROVE RunsAfter(b, now)
  <2>1. CASE run /\ \A i \in 1 .. n : q[i].op # "stop"
    <3>1. now
      <4>1. 1 \in 1 .. n
        BY <1>1
      <4> QED BY <1>2, <1>9, <2>1, <4>1
    <3> QED BY <1>1, <2>1, <3>1 DEF RunsAfter
  <2>2. CASE \E i \in 1 .. n : q[i].op = "start" /\ \A j \in i .. n : q[j].op # "stop"
    <3>1. PICK i \in 1 .. n : q[i].op = "start" /\ \A j \in i .. n : q[j].op # "stop"
      BY <2>2
    <3>2. CASE i = 1
      BY <1>1, <1>9, <3>1, <3>2 DEF RunsAfter
    <3>3. CASE i # 1
      <4>1. i - 1 \in 1 .. Len(b) /\ b[i - 1].op = "start"
        BY <1>1, <1>3, <3>1, <3>3
      <4>2. \A j \in (i - 1) .. Len(b) : j + 1 \in i .. n /\ b[j] = q[j + 1]
        BY <1>1, <3>3
      <4> QED BY <3>1, <4>1, <4>2 DEF RunsAfter
    <3> QED BY <3>2, <3>3
  <2> QED BY <1>9, <2>1, <2>2 DEF RunsAfter, n
<1>10. ASSUME q[1].op = "start", RunsAfter(q, run), ~RunsAfter(b, now)
       PROVE  \A i \in 1 .. Len(b) : b[i].op \in Pausing
  <2>1. PICK i \in 1 .. n : q[i].op = "start" /\ \A j \in i .. n : q[j].op # "stop"
    BY <1>6, <1>10 DEF RunsAfter, n
  <2>2. i = 1
    <3> SUFFICES ASSUME i # 1 PROVE FALSE
      OBVIOUS
    <3>1. i - 1 \in 1 .. Len(b) /\ b[i - 1].op = "start"
      BY <1>1, <1>3, <2>1
    <3>2. \A j \in (i - 1) .. Len(b) : j + 1 \in i .. n /\ b[j] = q[j + 1]
      BY <1>1
    <3> QED BY <1>10, <2>1, <3>1, <3>2 DEF RunsAfter
  <2>3. \A j \in 1 .. Len(b) : b[j].op # "stop"
    <3>1. \A j \in 1 .. Len(b) : j + 1 \in i .. n /\ b[j] = q[j + 1]
      BY <1>1, <2>2
    <3> QED BY <2>1, <3>1
  <2>4. \A j \in 1 .. Len(b) : b[j].op # "start"
    <3> SUFFICES ASSUME NEW j \in 1 .. Len(b), b[j].op = "start" PROVE FALSE
      OBVIOUS
    <3> QED BY <1>10, <2>3 DEF RunsAfter
  <2> QED BY <1>1, <1>2, <2>3, <2>4
<1> QED BY <1>1, <1>4, <1>5, <1>6, <1>7, <1>8, <1>9, <1>10 DEF QueueOK, b, n

LEMMA Joined ==
  ASSUME NEW S, NEW l \in Seq(S), NEW r \in Seq(S)
  PROVE  /\ l \o r \in Seq(S) /\ Len(l \o r) = Len(l) + Len(r)
         /\ \A i \in 1 .. Len(l \o r) :
              (l \o r)[i] = IF i <= Len(l) THEN l[i] ELSE r[i - Len(l)]
<1>1. l \o r \in Seq(S)
  OBVIOUS
<1>2. Len(l \o r) = Len(l) + Len(r)
  OBVIOUS
<1>3. \A i \in 1 .. Len(l \o r) :
        (l \o r)[i] = IF i <= Len(l) THEN l[i] ELSE r[i - Len(l)]
  OBVIOUS
<1> QED BY ONLY <1>1, <1>2, <1>3

\* The consumer of a channel that is cancelled leaves the queue.
LEMMA Withdrawn ==
  ASSUME NEW q \in Seq(Asks), NEW run \in BOOLEAN, NEW pages, NEW p \in Peers,
         QueueOK(q, run, pages)
  PROVE  /\ Without(q, Channel(p)) \in Seq(Asks)
         /\ QueueOK(Without(q, Channel(p)), run, pages \ {p})
         /\ p \notin pages => Without(q, Channel(p)) = q
         /\ RunsAfter(Without(q, Channel(p)), run) <=> RunsAfter(q, run)
         /\ (\A i \in 1 .. Len(q) : q[i].op \in Pausing) =>
              \A i \in 1 .. Len(Without(q, Channel(p))) : Without(q, Channel(p))[i].op \in Pausing
         /\ q # <<>> /\ Head(q).task # Channel(p) =>
              /\ Without(q, Channel(p)) # <<>>
              /\ Head(Without(q, Channel(p))) = Head(q)
<1>0. Len(q) \in Nat /\ DOMAIN q = 1 .. Len(q) /\ \A i \in 1 .. Len(q) : q[i] \in Asks
  OBVIOUS
<1>1. CASE ~\E i \in 1 .. Len(q) : q[i].task = Channel(p)
  <2>1. Without(q, Channel(p)) = q
    BY <1>0, <1>1 DEF Without
  <2>2. ChannelsOnce(q, pages \ {p})
    BY <1>1 DEF QueueOK, ChannelsOnce
  <2> QED BY <2>1, <2>2 DEF QueueOK
<1>2. CASE \E i \in 1 .. Len(q) : q[i].task = Channel(p)
  <2>1. PICK m \in 1 .. Len(q) : /\ q[m].task = Channel(p)
                                 /\ Without(q, Channel(p)) = RemoveAt(q, m)
    BY <1>0, <1>2 DEF Without
  <2> DEFINE w == RemoveAt(q, m)  n == Len(q)
  <2>2. /\ w \in Seq(Asks) /\ Len(w) = n - 1
        /\ \A i \in 1 .. (n - 1) : w[i] = IF i < m THEN q[i] ELSE q[i + 1]
    <3>1. SubSeq(q, 1, m - 1) \in Seq(Asks) /\ Len(SubSeq(q, 1, m - 1)) = m - 1
          /\ \A i \in 1 .. (m - 1) : SubSeq(q, 1, m - 1)[i] = q[i]
      BY <1>0
    <3>2. SubSeq(q, m + 1, n) \in Seq(Asks) /\ Len(SubSeq(q, m + 1, n)) = n - m
          /\ \A i \in 1 .. (n - m) : SubSeq(q, m + 1, n)[i] = q[m + i]
      <4>1. n \in Nat /\ m \in Nat /\ m >= 1 /\ m <= n
        BY <1>0
      <4> HIDE DEF n
      <4>2. \A i \in (m + 1) .. n : q[i] \in Asks
        BY <1>0, <4>1 DEF n
      <4>3. SubSeq(q, m + 1, n) \in Seq(Asks)
        BY <4>1, <4>2
      <4>4. Len(SubSeq(q, m + 1, n)) = n - m
        BY <4>1
      <4>5. \A i \in 1 .. (n - m) : SubSeq(q, m + 1, n)[i] = q[m + i]
        BY <4>1
      <4> QED BY <4>3, <4>4, <4>5
    <3> DEFINE l == SubSeq(q, 1, m - 1)  r == SubSeq(q, m + 1, n)
    <3>3. w = l \o r
      BY DEF RemoveAt
    <3>4. l \in Seq(Asks) /\ r \in Seq(Asks) /\ Len(l) = m - 1 /\ Len(r) = n - m
          /\ (\A i \in 1 .. (m - 1) : l[i] = q[i]) /\ \A i \in 1 .. (n - m) : r[i] = q[m + i]
      BY <3>1, <3>2
    <3> HIDE DEF l, r, w, n
    <3>5. w \in Seq(Asks) /\ Len(w) = Len(l) + Len(r)
          /\ \A i \in 1 .. Len(w) : w[i] = IF i <= Len(l) THEN l[i] ELSE r[i - Len(l)]
      BY ONLY <3>3, <3>4, Joined
    <3>6. n \in Nat /\ m \in Nat /\ m >= 1 /\ m <= n
      BY <1>0 DEF n
    <3>7. w \in Seq(Asks) /\ Len(w) = n - 1
      BY <3>4, <3>5, <3>6
    <3>8. ASSUME NEW i \in 1 .. (n - 1) PROVE w[i] = IF i < m THEN q[i] ELSE q[i + 1]
      <4>1. CASE i < m
        <5>1. i \in 1 .. (m - 1) /\ i <= Len(l) /\ i \in 1 .. Len(w)
          BY <3>4, <3>6, <3>7, <4>1
        <5>2. w[i] = l[i]
          BY <3>5, <5>1
        <5> QED BY <3>4, <4>1, <5>1, <5>2
      <4>2. CASE i >= m
        <5>1. /\ ~(i <= Len(l)) /\ ~(i < m) /\ i \in 1 .. Len(w)
              /\ i - Len(l) \in 1 .. (n - m) /\ m + (i - Len(l)) = i + 1
          BY <3>4, <3>6, <3>7, <4>2
        <5>2. w[i] = r[i - Len(l)]
          BY <3>5, <5>1
        <5>3. r[i - Len(l)] = q[m + (i - Len(l))]
          BY <3>4, <5>1
        <5> QED BY <5>1, <5>2, <5>3
      <4> QED BY <3>6, <4>1, <4>2
    <3> QED BY <3>7, <3>8
  <2> HIDE DEF w
  <2>3. n \in Nat /\ m \in 1 .. n /\ p \in pages /\ q[m].op \in Pausing
        /\ \A i \in 1 .. n : q[i].task = Channel(p) => i = m
    BY <1>0, <2>1 DEF QueueOK, ChannelsOnce
  <2> HIDE DEF n
  \* The same entries, but for the one.
  <2>4. \A i \in 1 .. (n - 1) : \/ i < m /\ w[i] = q[i]
                                \/ i >= m /\ i + 1 \in 1 .. n /\ w[i] = q[i + 1]
    BY <2>2, <2>3
  <2>5. \A i \in 1 .. n : \/ i < m /\ i \in 1 .. (n - 1) /\ w[i] = q[i]
                          \/ i = m
                          \/ i > m /\ i - 1 \in 1 .. (n - 1) /\ w[i - 1] = q[i]
    BY <2>2, <2>3
  <2>6. q[m].op # "stop" /\ q[m].op # "start"
    BY <2>3 DEF Pausing
  <2>7. ChannelsOnce(w, pages \ {p})
    <3>0. n - 1 \in Int /\ Len(w) = n - 1
      BY <2>2, <2>3
    <3>1. \A i \in 1 .. (n - 1) : w[i].task # Channel(p)
      <4> SUFFICES ASSUME NEW i \in 1 .. (n - 1)
                   PROVE  w[i].task # Channel(p)
        OBVIOUS
      <4>1. CASE i < m /\ w[i] = q[i]
        BY <2>3, <4>1
      <4>2. CASE i >= m /\ i + 1 \in 1 .. n /\ w[i] = q[i + 1]
        <5>1. i + 1 # m
          BY <2>3, <4>2
        <5> QED BY <2>3, <4>2, <5>1
      <4> QED BY <2>4, <4>1, <4>2
    <3> SUFFICES ASSUME NEW r \in Peers, NEW i \in 1 .. (n - 1), NEW j \in 1 .. (n - 1),
                        w[i].task = Channel(r)
                 PROVE  /\ r \in pages \ {p} /\ w[i].op \in Pausing
                        /\ w[j].task = Channel(r) => i = j
      BY <3>0, Zenon DEF ChannelsOnce
    <3>2. PICK a \in 1 .. n : a = (IF i < m THEN i ELSE i + 1) /\ w[i] = q[a]
      BY <2>2, <2>3, <2>4
    <3>3. PICK b \in 1 .. n : b = (IF j < m THEN j ELSE j + 1) /\ w[j] = q[b]
      BY <2>2, <2>3, <2>4
    <3>4. a = b => i = j
      BY <2>3, <3>2, <3>3
    <3>5. r \in pages /\ q[a].op \in Pausing /\ (q[b].task = Channel(r) => a = b)
      BY <3>2, <3>3 DEF QueueOK, ChannelsOnce, n
    <3> QED BY <3>1, <3>2, <3>3, <3>4, <3>5
  <2>8. StopsBetween(w, run)
    <3> SUFFICES ASSUME NEW i \in 1 .. (n - 1), w[i].op = "start"
                 PROVE  /\ run => \E j \in 1 .. (i - 1) : w[j].op = "stop"
                        /\ \A k \in 1 .. (i - 1) : w[k].op = "start" =>
                             \E j \in k .. (i - 1) : w[j].op = "stop"
      BY <2>2 DEF StopsBetween
    <3>1. PICK a \in 1 .. n : a = (IF i < m THEN i ELSE i + 1) /\ q[a].op = "start"
      BY <2>3, <2>4
    \* A stop between two entries is between them in the shorter queue.
    <3>2. ASSUME NEW k \in 1 .. i, NEW b \in 1 .. n, b = (IF k < m THEN k ELSE k + 1),
                 NEW j \in b .. (a - 1), q[j].op = "stop"
          PROVE  \E h \in k .. (i - 1) : w[h].op = "stop"
      <4>1. j \in 1 .. n /\ j # m
        BY <2>3, <2>6, <3>1, <3>2
      <4>2. CASE j < m
        BY <2>3, <2>5, <3>1, <3>2, <4>1, <4>2
      <4>3. CASE j > m
        <5>1. j - 1 \in k .. (i - 1) /\ w[j - 1] = q[j]
          BY <2>3, <2>5, <3>1, <3>2, <4>1, <4>3
        <5> QED BY <3>2, <5>1
      <4> QED BY <2>3, <4>1, <4>2, <4>3
    <3>3. ASSUME run PROVE \E j \in 1 .. (i - 1) : w[j].op = "stop"
      <4>1. PICK j \in 1 .. (a - 1) : q[j].op = "stop"
        BY <3>1, <3>3 DEF QueueOK, StopsBetween, n
      <4>2. j \in 1 .. n /\ j # m
        BY <2>3, <2>6, <3>1, <4>1
      <4>3. CASE j < m
        BY <2>3, <2>5, <3>1, <4>1, <4>2, <4>3
      <4>4. CASE j > m
        <5>1. j - 1 \in 1 .. (i - 1) /\ w[j - 1] = q[j]
          BY <2>3, <2>5, <3>1, <4>1, <4>2, <4>4
        <5> QED BY <4>1, <5>1
      <4> QED BY <2>3, <4>2, <4>3, <4>4
    <3>4. ASSUME NEW k \in 1 .. (i - 1), w[k].op = "start"
          PROVE  \E j \in k .. (i - 1) : w[j].op = "stop"
      <4>1. PICK b \in 1 .. n : b = (IF k < m THEN k ELSE k + 1) /\ q[b].op = "start"
        BY <2>3, <2>4, <3>4
      <4>2. b \in 1 .. (a - 1)
        BY <2>3, <3>1, <4>1
      <4>3. \A x \in 1 .. n : q[x].op = "start" => \A y \in 1 .. (x - 1) :
              q[y].op = "start" => \E j \in y .. (x - 1) : q[j].op = "stop"
        BY DEF QueueOK, StopsBetween, n
      <4>4. PICK j \in b .. (a - 1) : q[j].op = "stop"
        BY <3>1, <4>1, <4>2, <4>3
      <4>5. k \in 1 .. i /\ b = IF k < m THEN k ELSE k + 1
        BY <2>3, <4>1
      <4> QED BY ONLY <3>2, <4>4, <4>5
    <3> QED BY <3>3, <3>4
  <2>9. RunsAfter(w, run) <=> RunsAfter(q, run)
    <3>1. (\A i \in 1 .. (n - 1) : w[i].op # "stop") <=> \A i \in 1 .. n : q[i].op # "stop"
      <4>1. ASSUME \A i \in 1 .. (n - 1) : w[i].op # "stop", NEW i \in 1 .. n PROVE q[i].op # "stop"
        <5>1. CASE i < m
          BY <2>5, <4>1, <5>1
        <5>2. CASE i = m
          BY <2>6, <5>2
        <5>3. CASE i > m
          <6>1. i - 1 \in 1 .. (n - 1) /\ w[i - 1] = q[i]
            BY <2>3, <2>5, <5>3
          <6> QED BY <4>1, <6>1
        <5> QED BY <2>3, <5>1, <5>2, <5>3
      <4>2. ASSUME \A i \in 1 .. n : q[i].op # "stop", NEW i \in 1 .. (n - 1) PROVE w[i].op # "stop"
        BY <2>3, <2>4, <4>2
      <4> QED BY <4>1, <4>2
    <3>2. ASSUME NEW i \in 1 .. (n - 1), w[i].op = "start", \A j \in i .. (n - 1) : w[j].op # "stop"
          PROVE  RunsAfter(q, run)
      <4>1. PICK a \in 1 .. n : a = (IF i < m THEN i ELSE i + 1) /\ q[a].op = "start"
        BY <2>3, <2>4, <3>2
      <4>2. \A j \in a .. n : q[j].op # "stop"
        BY <2>3, <2>5, <2>6, <3>2, <4>1
      <4> QED BY <4>1, <4>2 DEF RunsAfter, n
    <3>3. ASSUME NEW a \in 1 .. n, q[a].op = "start", \A j \in a .. n : q[j].op # "stop"
          PROVE  RunsAfter(w, run)
      <4>1. PICK i \in 1 .. (n - 1) : i = (IF a < m THEN a ELSE a - 1) /\ w[i].op = "start"
        BY <2>3, <2>5, <2>6, <3>3
      <4>2. \A j \in i .. (n - 1) : w[j].op # "stop"
        BY <2>3, <2>4, <3>3, <4>1
      <4> QED BY <2>2, <4>1, <4>2 DEF RunsAfter
    <3> QED BY <2>2, <3>1, <3>2, <3>3 DEF RunsAfter, n
  <2>10. ASSUME q # <<>>, Head(q).task # Channel(p) PROVE w # <<>> /\ Head(w) = Head(q)
    <3>1. Head(q) = q[1] /\ m # 1
      BY <1>0, <2>1, <2>10
    <3>2. 1 < m /\ n - 1 >= 1 /\ w[1] = q[1]
      BY <2>3, <2>4, <3>1
    <3>3. w # <<>> /\ Head(w) = w[1]
      <4>1. Len(w) >= 1 /\ w \in Seq(Asks)
        BY <2>2, <3>2
      <4> QED BY ONLY <4>1
    <3> QED BY <3>1, <3>2, <3>3
  <2>11. ASSUME \A i \in 1 .. n : q[i].op \in Pausing, NEW i \in 1 .. Len(w)
         PROVE  w[i].op \in Pausing
    <3>1. i \in 1 .. (n - 1)
      BY <2>2, <2>3
    <3>2. i \in 1 .. n
      BY <2>3, <3>1
    <3>3. w[i] = q[i] \/ (i + 1 \in 1 .. n /\ w[i] = q[i + 1])
      BY <2>4, <3>1
    <3> QED BY <2>11, <3>2, <3>3
  <2>12. Without(q, Channel(p)) = w
    BY <2>1 DEF w
  <2>13. QueueOK(w, run, pages \ {p})
    BY <2>7, <2>8 DEF QueueOK
  <2> QED BY <2>2, <2>3, <2>9, <2>10, <2>11, <2>12, <2>13 DEF n
<1> QED BY <1>0, <1>1, <1>2
-----------------------------------------------------------------------------
(* The invariant of the capture *)

Running == RunsAfter(async_lock, pipeline.running)
Talking == {p \in peer_connections : conn[p] = "connected"}

MediaTypeOK ==
  /\ async_lock \in Seq(Asks)
  /\ pipeline \in [running: BOOLEAN, capturing: BOOLEAN]
  /\ video_paused \in [Peers -> BOOLEAN]

PausedOK == \A p \in Peers : video_paused[p] => p \in peer_connections /\ conn[p] # "new"

CallOK ==
  /\ calling => async_lock # <<>> /\ CallsNative(Head(async_lock).op)
  /\ pipeline.capturing => pipeline.running

\* The pipeline runs, or will, for a controller that is connected, and for none
\* else; unless its start failed, and nothing is left that could start it.
Served ==
  /\ Running => Drivers \cap Talking # {}
  /\ Drivers \cap Talking # {} =>
       \/ Running
       \/ /\ past.failed /\ ~pipeline.running
          /\ \A i \in 1 .. Len(async_lock) : async_lock[i].op \in Pausing

\* A task tears a peer down, and asks what the consumers call for at its end.
Reviews(stage) == stage.do \notin {"done", "offer"} /\ stage.of # NoPeer
Reviewed == \E t \in Closers : Reviews(at[t])
Wanted == \E p \in peer_connections : ~video_paused[p]

\* The last word in the queue is what the consumers call for, or a teardown in
\* progress will have it.
Follows ==
  ~Reviewed /\ Running =>
    IF async_lock = <<>> THEN past.failed \/ (pipeline.capturing <=> Wanted)
    ELSE async_lock[Len(async_lock)].op # "pause" <=> Wanted

MediaInv ==
  /\ MediaTypeOK /\ PausedOK /\ CallOK /\ Served /\ Follows
  /\ QueueOK(async_lock, pipeline.running, Talking)

LEMMA MediaInitInv == RtcInit => MediaInv
<1> SUFFICES ASSUME RtcInit PROVE MediaInv
  OBVIOUS
<1>1. /\ async_lock = <<>> /\ pipeline.running = FALSE /\ pipeline.capturing = FALSE
      /\ calling = FALSE /\ peer_connections = {} /\ Len(async_lock) = 0
      /\ video_paused = [p \in Peers |-> FALSE]
      /\ pipeline = [running |-> FALSE, capturing |-> FALSE]
  BY DEF RtcInit
<1>2. ~Running /\ QueueOK(async_lock, pipeline.running, Talking)
  BY <1>1 DEF Running, RunsAfter, QueueOK, StopsBetween, ChannelsOnce
<1>3. MediaTypeOK
  BY <1>1 DEF MediaTypeOK
<1> QED BY <1>1, <1>2, <1>3 DEF MediaInv, PausedOK, CallOK, Served, Follows, Talking

\* What every step starts from.
LEMMA MediaFacts ==
  ASSUME RtcInv, MediaInv
  PROVE  /\ async_lock \in Seq(Asks) /\ Len(async_lock) \in Nat
         /\ pipeline.running \in BOOLEAN /\ pipeline.capturing \in BOOLEAN
         /\ video_paused \in [Peers -> BOOLEAN]
         /\ QueueOK(async_lock, pipeline.running, Talking)
         /\ Talking \subseteq Peers /\ peer_connections \subseteq Peers
         /\ past.failed \in BOOLEAN /\ calling \in BOOLEAN
         /\ conn \in [Peers -> {"none", "new", "connected", "closed"}]
         /\ at \in [Closers -> Stages]
BY DEF MediaInv, MediaTypeOK, RtcInv, RtcTypeOK, Talking

\* A step that leaves the capture, the queue and the registered peers alone.
LEMMA CaptureKept ==
  ASSUME RtcInv, MediaInv,
         UNCHANGED <<async_lock, pipeline, calling, video_paused, peer_connections>>,
         \A p \in peer_connections : conn'[p] = conn[p],
         past'.failed = past.failed,
         Reviewed => Reviewed' \/ peer_connections = {}
  PROVE  MediaInv'
<1>1. UNCHANGED <<async_lock, pipeline, calling, video_paused, peer_connections>>
  OBVIOUS
<1>2. Talking' = Talking
  BY <1>1 DEF Talking
<1>3. (Running' <=> Running) /\ (Wanted' <=> Wanted)
  BY <1>1 DEF Running, RunsAfter, Wanted
<1>4. MediaTypeOK' /\ PausedOK' /\ CallOK'
  BY <1>1 DEF MediaInv, MediaTypeOK, PausedOK, CallOK, CallsNative
<1>5. Served' /\ QueueOK(async_lock, pipeline.running, Talking)'
  BY <1>1, <1>2, <1>3 DEF MediaInv, Served
<1>6. Follows'
  <2>1. Running => peer_connections # {}
    BY DEF MediaInv, Served, Talking
  <2> QED BY <1>1, <1>3, <2>1 DEF MediaInv, Follows
<1> QED BY <1>4, <1>5, <1>6 DEF MediaInv

\* One controller at a time is registered, so its end is the end of all.
LEMMA OneController ==
  ASSUME RtcInv, NEW c \in Drivers \cap peer_connections
  PROVE  \A d \in Drivers \cap peer_connections : d = c
BY DEF RtcInv, SessionsOK, InPlay

\* A connection closes, of a peer that is looked up or not.
LEMMA MediaClosing ==
  ASSUME RtcInv, MediaInv, NEW p \in Peers, NEW stages \in [Closers -> Stages],
         ConnectionCloses(p, stages), stages[Lost(p)] = at[Lost(p)],
         \A t \in Closers : Reviews(at[t]) => Reviews(stages[t]) \/ peer_connections = {},
         UNCHANGED <<peer_connections, pipeline, video_paused>>
  PROVE  MediaInv'
<1>1. /\ conn' \in [Peers -> {"none", "new", "connected", "closed"}]
      /\ conn'[p] = "closed" /\ \A q \in Peers \ {p} : conn'[q] = conn[q]
      /\ \A t \in Closers \ {Lost(p)} : at'[t] = stages[t]
      /\ p \notin peer_connections => at'[Lost(p)] = at[Lost(p)]
      /\ p \in peer_connections => at'[Lost(p)].do = "pop" /\ at'[Lost(p)].of = p
  BY Closing
<1>2. Lost(p) \in Closers /\ p # NoPeer
  BY ClosersDiffer
<1>3. p \in peer_connections => Reviewed'
  BY <1>1, <1>2 DEF Reviewed, Reviews
<1>4. Reviewed => Reviewed' \/ peer_connections = {}
  <2> SUFFICES ASSUME NEW t \in Closers, Reviews(at[t]), peer_connections # {}
               PROVE  Reviewed'
    BY DEF Reviewed
  <2>1. CASE t = Lost(p) /\ p \notin peer_connections
    BY <1>1, <1>2, <2>1 DEF Reviewed, Reviews
  <2>2. CASE t # Lost(p)
    BY <1>1, <2>2 DEF Reviewed, Reviews
  <2> QED BY <1>3, <2>1, <2>2
<1>5. past'.failed = past.failed
  BY DEF ConnectionCloses, RtcInv, RtcTypeOK
<1>6. CASE conn[p] = "closed"
  <2>1. UNCHANGED <<async_lock, pipeline, calling, video_paused, peer_connections, conn>>
    BY <1>6 DEF ConnectionCloses
  <2> QED BY <1>4, <1>5, <2>1, CaptureKept
<1>7. CASE conn[p] # "closed"
  <2> DEFINE quiet == Without(async_lock, Channel(p))
  <2>1. /\ async_lock' = IF p \in peer_connections /\ p \in Drivers
                         THEN Append(quiet, Ask(Lost(p), "stop")) ELSE quiet
        /\ calling' = (calling /\ ~CutOff(p))
    BY <1>7 DEF ConnectionCloses
  <2>2. /\ quiet \in Seq(Asks) /\ QueueOK(quiet, pipeline.running, Talking \ {p})
        /\ p \notin Talking => quiet = async_lock
        /\ RunsAfter(quiet, pipeline.running) <=> Running
        /\ async_lock # <<>> /\ Head(async_lock).task # Channel(p) =>
             quiet # <<>> /\ Head(quiet) = Head(async_lock)
        /\ (\A i \in 1 .. Len(async_lock) : async_lock[i].op \in Pausing) =>
             \A i \in 1 .. Len(quiet) : quiet[i].op \in Pausing
    <3>1. /\ async_lock \in Seq(Asks) /\ pipeline.running \in BOOLEAN
          /\ QueueOK(async_lock, pipeline.running, Talking)
      BY MediaFacts
    <3>2. PICK q : q = async_lock
      OBVIOUS
    <3>3. PICK run : run = pipeline.running
      OBVIOUS
    <3>4. PICK pages : pages = Talking
      OBVIOUS
    <3>5. q \in Seq(Asks) /\ run \in BOOLEAN /\ QueueOK(q, run, pages)
      BY <3>1, <3>2, <3>3, <3>4
    <3> DEFINE less == Without(q, Channel(p))
    <3>6. /\ less \in Seq(Asks) /\ QueueOK(less, run, pages \ {p})
          /\ p \notin pages => less = q
          /\ RunsAfter(less, run) <=> RunsAfter(q, run)
          /\ q # <<>> /\ Head(q).task # Channel(p) => less # <<>> /\ Head(less) = Head(q)
          /\ (\A i \in 1 .. Len(q) : q[i].op \in Pausing) =>
               \A i \in 1 .. Len(less) : less[i].op \in Pausing
      BY ONLY <3>5, Withdrawn, ZenonT(60), p \in Peers
    <3>7. less = quiet
      BY <3>2
    <3> HIDE DEF less, quiet
    <3> QED BY <3>2, <3>3, <3>4, <3>6, <3>7 DEF Running
  <2>3. Talking' = Talking \ {p}
    BY <1>1, MediaFacts DEF Talking
  <2>4. p \notin Talking /\ p \notin peer_connections => MediaInv'
    <3> SUFFICES ASSUME p \notin peer_connections PROVE MediaInv'
      OBVIOUS
    <3>1. quiet = async_lock /\ async_lock' = quiet
      BY <2>1, <2>2 DEF Talking
    <3>2. ~CutOff(p) \/ ~calling
      <4>1. calling => Head(async_lock) = async_lock[1] /\ 1 \in 1 .. Len(async_lock)
        BY MediaFacts DEF MediaInv, CallOK
      <4> QED BY <4>1, MediaFacts DEF CutOff, QueueOK, ChannelsOnce, Talking
    <3>3. calling' = calling
      BY <2>1, <3>2, MediaFacts
    <3>4. \A q \in peer_connections : conn'[q] = conn[q]
      BY <1>1, MediaFacts
    <3> QED BY <1>4, <1>5, <3>1, <3>3, <3>4, CaptureKept
  <2>5. CASE p \in peer_connections
    <3> DEFINE e == Ask(Lost(p), "stop")
    <3>1. /\ e \in Asks /\ e.op = "stop" /\ e.task = Lost(p)
          /\ \A r \in Peers : e.task # Channel(r)
      BY <1>2, ChannelsDiffer DEF Ask, Asks, Tasks
    <3> HIDE DEF e, quiet
    <3>2. /\ Append(quiet, e) \in Seq(Asks) /\ Append(quiet, e) # <<>>
          /\ quiet # <<>> => Head(Append(quiet, e)) = Head(quiet)
          /\ ~RunsAfter(Append(quiet, e), pipeline.running)
          /\ QueueOK(Append(quiet, e), pipeline.running, Talking \ {p})
      BY <2>2, <3>1, MediaFacts, Appended
    <3>3. /\ async_lock' \in Seq(Asks) /\ QueueOK(async_lock', pipeline.running, Talking')
          /\ calling' => async_lock' # <<>> /\ Head(async_lock') = Head(async_lock)
          /\ p \in Drivers => ~RunsAfter(async_lock', pipeline.running)
          /\ p \notin Drivers => async_lock' = quiet
      <4>1. async_lock' = IF p \in Drivers THEN Append(quiet, e) ELSE quiet
        BY <2>1, <2>5 DEF e, quiet
      <4>2. calling' => async_lock # <<>> /\ Head(async_lock).task # Channel(p)
        BY <2>1 DEF CutOff, MediaInv, CallOK
      <4> QED BY <2>2, <2>3, <3>2, <4>1, <4>2
    <3>4. MediaTypeOK' /\ PausedOK'
      BY <1>1, <3>3 DEF MediaInv, MediaTypeOK, PausedOK
    <3>5. CallOK'
      BY <2>1, <3>3 DEF MediaInv, CallOK, CallsNative
    <3>6. Served'
      <4>1. CASE p \in Drivers
        <5>1. Drivers \cap Talking' = {}
          BY <2>3, <2>5, <4>1, OneController DEF Talking
        <5> QED BY <3>3, <4>1, <5>1 DEF Served, Running
      <4>2. CASE p \notin Drivers
        <5>1. Drivers \cap Talking' = Drivers \cap Talking
          BY <2>3, <4>2
        <5>2. Running' <=> Running
          BY <2>2, <3>3, <4>2 DEF Running
        <5> QED BY <1>5, <2>2, <3>3, <4>2, <5>1, <5>2 DEF MediaInv, Served
      <4> QED BY <4>1, <4>2
    <3>7. Follows'
      BY <1>3, <2>5 DEF Follows
    <3> QED BY <3>3, <3>4, <3>5, <3>6, <3>7 DEF MediaInv
  <2> QED BY <2>4, <2>5 DEF Talking
<1> QED BY <1>6, <1>7

LEMMA MediaVanishes == ASSUME RtcInv, MediaInv, NEW p \in Peers, PeerVanishes(p) PROVE MediaInv'
<1>1. ConnectionCloses(p, at) /\ UNCHANGED <<peer_connections, pipeline, video_paused>>
  BY DEF PeerVanishes
<1> QED BY <1>1, MediaFacts, MediaClosing

LEMMA MediaClosesPeer ==
  ASSUME RtcInv, MediaInv, NEW t \in {Signal, Hook}, NEW p \in Peers, at[t].do = "done",
         ClosesPeer(t, p), UNCHANGED <<peer_connections, pipeline, video_paused>>
  PROVE  MediaInv'
<1>1. CASE p \in peer_connections
  <2> DEFINE stages == [at EXCEPT ![t] = Does("pop", p)]
  <2>1. ConnectionCloses(p, stages)
    BY <1>1 DEF ClosesPeer
  <2>2. stages \in [Closers -> Stages] /\ stages[Lost(p)] = at[Lost(p)]
        /\ \A u \in Closers : u # t => stages[u] = at[u]
    BY ClosersDiffer, MediaFacts DEF Does, Stages, Steps
  <2> HIDE DEF stages
  <2>3. \A u \in Closers : Reviews(at[u]) => Reviews(stages[u])
    BY <2>2 DEF Reviews
  <2> QED BY <2>1, <2>2, <2>3, MediaClosing
<1>2. CASE p \notin peer_connections
  <2>1. UNCHANGED <<conn, at, async_lock, calling, past>>
    BY <1>2 DEF ClosesPeer
  <2>2. Reviewed' <=> Reviewed
    BY <2>1 DEF Reviewed
  <2> QED BY <2>1, <2>2, CaptureKept
<1> QED BY <1>1, <1>2

LEMMA MediaClosesViewer ==
  ASSUME RtcInv, MediaInv, NEW t \in Closers, ClosesViewer(t)
  PROVE  MediaInv'
<1>1. at[t].do = "close" /\ UNCHANGED <<peer_connections, pipeline, video_paused>>
  BY DEF ClosesViewer
<1>2. PICK v \in at[t].left : ConnectionCloses(v, [at EXCEPT ![t].left = @ \ {v}])
  BY DEF ClosesViewer
<1> DEFINE stages == [at EXCEPT ![t].left = @ \ {v}]
<1>3. v \in Watchers /\ v \in Peers /\ v \notin Drivers /\ v # NoPeer
  BY ClosersDiffer, MediaFacts DEF Stages
<1>4. t # Lost(v)
  <2>1. at[t].of \in Drivers \cup {NoPeer}
    BY <1>1 DEF RtcInv, TasksOK, TeardownsOK
  <2>2. t = Lost(v) => at[t].of = v
    BY <1>1, <1>3 DEF RtcInv, TasksOK, HandlersOK
  <2> QED BY <1>3, <2>1, <2>2
<1>5. stages \in [Closers -> Stages] /\ stages[Lost(v)] = at[Lost(v)]
      /\ (\A u \in Closers \ {t} : stages[u] = at[u])
      /\ stages[t].do = at[t].do /\ stages[t].of = at[t].of
  BY <1>3, <1>4, ClosersDiffer, MediaFacts DEF Stages
<1>6. ConnectionCloses(v, stages)
  BY <1>2
<1> HIDE DEF stages
<1>7. \A u \in Closers : Reviews(at[u]) => Reviews(stages[u])
  BY <1>5 DEF Reviews
<1> QED BY <1>1, <1>3, <1>5, <1>6, <1>7, MediaClosing

\* A peer that is popped was closed: it is nobody's consumer any more.
LEMMA MediaPops == ASSUME RtcInv, MediaInv, NEW t \in Closers, Pops(t) PROVE MediaInv'
<1>1. PICK p \in Peers :
        /\ at[t].of = p /\ conn[p] = "closed"
        /\ peer_connections' = peer_connections \ {p}
        /\ video_paused' = [video_paused EXCEPT ![p] = FALSE]
        /\ at' = [at EXCEPT ![t].do = IF TearsGraph(t, p) THEN "tear" ELSE "notify"]
        /\ past' = Popped(p)
        /\ UNCHANGED <<conn, pipeline, async_lock, calling>>
  <2>1. at[t].do = "pop" /\ at[t].of \in signaled.started /\ conn[at[t].of] = "closed"
    BY DEF Pops, RtcInv, TasksOK, TeardownsOK
  <2>2. at[t].of \in Peers
    BY <2>1 DEF RtcInv, RtcTypeOK
  <2> QED BY <2>1, <2>2 DEF Pops, media
<1>2. Talking' = Talking
  BY <1>1 DEF Talking
<1>3. past'.failed = past.failed
  BY <1>1 DEF Popped, RtcInv, RtcTypeOK
<1>4. Running' <=> Running
  BY <1>1 DEF Running
<1>5. Reviewed'
  <2>1. at'[t].do \in {"tear", "notify"} /\ at'[t].of = p
    BY <1>1, MediaFacts DEF Stages
  <2> QED BY <2>1, ClosersDiffer DEF Reviewed, Reviews
<1>6. MediaTypeOK' /\ PausedOK' /\ CallOK'
  BY <1>1, MediaFacts DEF MediaInv, MediaTypeOK, PausedOK, CallOK, CallsNative
<1>7. Served' /\ Follows' /\ QueueOK(async_lock, pipeline.running, Talking)'
  BY <1>1, <1>2, <1>3, <1>4, <1>5 DEF MediaInv, Served, Follows
<1> QED BY <1>6, <1>7 DEF MediaInv

\* handle_consumers_changed asks for what the consumers call for.
LEMMA Reviewing ==
  ASSUME RtcInv, MediaInv, NEW t \in Closers, NEW consumers \in SUBSET Peers,
         consumers # {},
         peer_connections' = consumers, peer_connections \subseteq consumers,
         \A p \in consumers \ peer_connections : conn[p] # "connected",
         async_lock' = ConsumersChanged(async_lock, t, consumers),
         UNCHANGED <<conn, video_paused, pipeline, calling>>,
         past'.failed = past.failed
  PROVE  MediaInv'
<1> DEFINE e == Ask(t, IF \A p \in consumers : video_paused[p] THEN "pause" ELSE "resume")
<1>1. async_lock' = Append(async_lock, e)
  BY DEF ConsumersChanged
<1>2. /\ e \in Asks /\ e.op \in Pausing /\ e.task = t
      /\ e.op # "pause" <=> \E p \in consumers : ~video_paused[p]
  BY DEF Ask, Asks, Tasks, Pausing
<1>3. \A p \in Peers : e.task # Channel(p)
  BY <1>2, ChannelsDiffer
<1> HIDE DEF e
<1>4. /\ async_lock' \in Seq(Asks) /\ async_lock' # <<>>
      /\ async_lock'[Len(async_lock')] = e
      /\ async_lock # <<>> => Head(async_lock') = Head(async_lock)
      /\ RunsAfter(async_lock', pipeline.running) <=> Running
      /\ QueueOK(async_lock', pipeline.running, Talking)
  <2>1. /\ async_lock \in Seq(Asks) /\ pipeline.running \in BOOLEAN
        /\ QueueOK(async_lock, pipeline.running, Talking)
    BY MediaFacts
  <2> QED BY ONLY <1>1, <1>2, <1>3, <2>1, Appended DEF Running
<1>5. Talking' = Talking
  BY DEF Talking
<1>6. MediaTypeOK' /\ PausedOK' /\ CallOK'
  BY <1>4 DEF MediaInv, MediaTypeOK, PausedOK, CallOK, CallsNative
<1>7. Served'
  <2>1. (\A i \in 1 .. Len(async_lock) : async_lock[i].op \in Pausing) =>
          \A i \in 1 .. Len(async_lock') : async_lock'[i].op \in Pausing
    <3>1. async_lock \in Seq(Asks)
      BY MediaFacts
    <3> QED BY ONLY <1>1, <1>2, <3>1
  <2> QED BY <1>4, <1>5, <2>1 DEF MediaInv, Served, Running
<1>8. Follows'
  BY <1>2, <1>4 DEF Follows, Wanted
<1> QED BY <1>4, <1>5, <1>6, <1>7, <1>8 DEF MediaInv

LEMMA MediaEnds ==
  ASSUME RtcInv, MediaInv, NEW t \in Closers, at[t].do \notin {"done", "offer"}, Ends(t),
         UNCHANGED <<peer_connections, conn, video_paused, pipeline, calling, past>>
  PROVE  MediaInv'
<1>1. CASE at[t].of = NoPeer
  <2>1. t = Signal
    BY <1>1, ClosersDiffer DEF RtcInv, TasksOK, HandlersOK
  <2>2. peer_connections = {}
    BY <1>1, <2>1 DEF RtcInv, TasksOK, StopsAllOK
  <2>3. async_lock' = async_lock
    BY <1>1 DEF Ends
  <2> QED BY <2>2, <2>3, CaptureKept
<1>2. CASE at[t].of # NoPeer /\ peer_connections = {}
  <2>1. async_lock' = async_lock
    BY <1>2 DEF Ends, ConsumersChanged
  <2> QED BY <1>2, <2>1, CaptureKept
<1>3. CASE at[t].of # NoPeer /\ peer_connections # {}
  <2>1. async_lock' = ConsumersChanged(async_lock, t, peer_connections)
    BY <1>3 DEF Ends
  <2> QED BY <1>3, <2>1, Reviewing, MediaFacts
<1> QED BY <1>1, <1>2, <1>3

LEMMA MediaProceeds ==
  ASSUME RtcInv, MediaInv, NEW t \in Closers, at[t].do \notin {"done", "offer"},
         NEW step \in {"reap", "close"}, NEW viewers, Proceeds(t, step, viewers),
         UNCHANGED <<peer_connections, conn, video_paused, pipeline, calling, past>>
  PROVE  MediaInv'
<1>1. at' = [at EXCEPT ![t].do = step, ![t].left = viewers] /\ async_lock' = async_lock
  BY DEF Proceeds
<1>2. /\ at'[t].do = step /\ at'[t].of = at[t].of
      /\ \A u \in Closers : u # t => at'[u] = at[u]
  BY <1>1, MediaFacts DEF Stages
<1>3. Reviewed => Reviewed'
  BY <1>2 DEF Reviewed, Reviews
<1> QED BY <1>1, <1>3, CaptureKept

LEMMA MediaTeardown ==
  ASSUME RtcInv, MediaInv, NEW t \in Closers, Tears(t) \/ FindsViewers(t) \/ Finishes(t)
  PROVE  MediaInv'
<1>1. CASE Tears(t)
  BY <1>1, MediaEnds, MediaProceeds DEF Tears
<1>2. CASE FindsViewers(t)
  BY <1>2, MediaEnds, MediaProceeds DEF FindsViewers
<1>3. CASE Finishes(t)
  BY <1>3, MediaEnds DEF Finishes
<1> QED BY <1>1, <1>2, <1>3

LEMMA MediaStarts == ASSUME RtcInv, MediaInv, NEW p \in Peers, SessionStarts(p) PROVE MediaInv'
<1>1. /\ at[Signal].do = "done" /\ p \notin signaled.started
      /\ UNCHANGED <<peer_connections, video_paused, async_lock, pipeline, calling>>
      /\ conn' = conn \/ conn' = [conn EXCEPT ![p] = "new"]
      /\ at' = at \/ at' = [at EXCEPT ![Signal] = Does("offer", p)]
      /\ past' = [past EXCEPT !.strayed = @ \cup {p}] \/ past' = past
  BY DEF SessionStarts, MayStart, Resting, media
<1>2. p \notin peer_connections
  BY <1>1 DEF RtcInv, SessionsOK
<1>3. \A q \in peer_connections : conn'[q] = conn[q]
  BY <1>1, <1>2, MediaFacts
<1>4. past'.failed = past.failed
  BY <1>1 DEF RtcInv, RtcTypeOK
<1>5. \A u \in Closers : Reviews(at[u]) => at'[u] = at[u]
  BY <1>1, MediaFacts DEF Reviews
<1>6. Reviewed => Reviewed'
  BY <1>5 DEF Reviewed
<1> QED BY <1>1, <1>3, <1>4, <1>6, CaptureKept

LEMMA MediaOfferSent == ASSUME RtcInv, MediaInv, OfferSent PROVE MediaInv'
<1>1. PICK p \in Peers : /\ p = at[Signal].of /\ at[Signal].do = "offer"
                         /\ conn[p] = "new"
  <2>1. at[Signal].do = "offer"
    BY DEF OfferSent
  <2>2. at[Signal].of \in signaled.started /\ conn[at[Signal].of] = "new"
    BY <2>1 DEF RtcInv, TasksOK, OfferOK
  <2> QED BY <2>1, <2>2 DEF RtcInv, RtcTypeOK
<1> DEFINE now == peer_connections \cup {p}
<1>2. /\ peer_connections' = now
      /\ async_lock' = ConsumersChanged(async_lock, Signal, now)
      /\ UNCHANGED <<conn, video_paused, pipeline, calling>>
      /\ past' = [past EXCEPT !.input[p] = "held",
                              !.strayed = IF p \in Drivers \/ feeds[p] = displays
                                          THEN @ ELSE @ \cup {p}]
  BY <1>1 DEF OfferSent
<1>3. past'.failed = past.failed
  BY <1>2 DEF RtcInv, RtcTypeOK
<1>4. now \in SUBSET Peers /\ now # {} /\ peer_connections \subseteq now
      /\ \A q \in now \ peer_connections : conn[q] # "connected"
  BY <1>1, MediaFacts
<1>5. Signal \in Closers
  BY ClosersDiffer
<1> HIDE DEF now
<1> QED BY <1>2, <1>3, <1>4, <1>5, Reviewing

LEMMA MediaSignaling ==
  ASSUME RtcInv, MediaInv, OfferFails \/ SignalingDrops \/ StopsAll \/ StopsGraphs
  PROVE  MediaInv'
<1>1. CASE OfferFails
  <2>1. /\ at[Signal].do = "offer" /\ conn' = [conn EXCEPT ![at[Signal].of] = "closed"]
        /\ at' = [at EXCEPT ![Signal] = Does("done", NoPeer)]
        /\ UNCHANGED <<peer_connections, video_paused, async_lock, pipeline, calling, past>>
    BY <1>1 DEF OfferFails, media
  <2>2. at[Signal].of \notin peer_connections
    BY <2>1 DEF RtcInv, TasksOK, OfferOK
  <2>3. \A q \in peer_connections : conn'[q] = conn[q]
    BY <2>1, <2>2, MediaFacts
  <2>4. \A u \in Closers : Reviews(at[u]) => at'[u] = at[u]
    BY <2>1, MediaFacts DEF Reviews
  <2>5. Reviewed => Reviewed'
    BY <2>4 DEF Reviewed
  <2> QED BY <2>1, <2>3, <2>5, CaptureKept
<1>2. CASE SignalingDrops \/ StopsAll
  <2>1. UNCHANGED <<peer_connections, conn, video_paused, async_lock, pipeline, calling, at, past>>
    BY <1>2 DEF SignalingDrops, StopsAll, media
  <2>2. Reviewed => Reviewed'
    BY <2>1 DEF Reviewed
  <2> QED BY <2>1, <2>2, CaptureKept
<1>3. CASE StopsGraphs
  <2>1. /\ signaled.link = "stopping" /\ signaled.doomed = {} /\ at[Signal].do = "done"
        /\ UNCHANGED <<peer_connections, conn, video_paused, async_lock, pipeline, calling, past>>
    BY <1>3 DEF StopsGraphs, Resting, media
  <2>2. peer_connections = {}
    BY <2>1 DEF RtcInv, SessionsOK
  <2> QED BY <2>1, <2>2, CaptureKept
<1> QED BY <1>1, <1>2, <1>3

\* start_display_media is asked for once per controller, after the stop of the
\* one before.
LEMMA MediaConnects == ASSUME RtcInv, MediaInv, NEW p \in Peers, Connects(p) PROVE MediaInv'
<1>1. /\ p \in peer_connections /\ conn[p] = "new"
      /\ conn' = [conn EXCEPT ![p] = "connected"]
      /\ async_lock' = IF p \in Watchers THEN async_lock
                       ELSE Append(async_lock, Ask(Established(p), "start"))
      /\ UNCHANGED <<peer_connections, video_paused, pipeline, calling, at, past>>
  BY DEF Connects
<1>2. Talking' = Talking \cup {p} /\ p \notin Talking
  BY <1>1, MediaFacts DEF Talking
<1>3. PausedOK' /\ ~video_paused[p]
  BY <1>1, MediaFacts DEF MediaInv, PausedOK
<1>4. Reviewed' <=> Reviewed
  BY <1>1 DEF Reviewed
<1>5. Wanted' <=> Wanted
  BY <1>1 DEF Wanted
<1>6. CASE p \in Watchers
  <2>1. async_lock' = async_lock /\ Drivers \cap Talking' = Drivers \cap Talking
    BY <1>1, <1>2, <1>6, ClosersDiffer
  <2>2. Running' <=> Running
    BY <1>1, <2>1 DEF Running
  <2>3. MediaTypeOK' /\ CallOK'
    BY <1>1, <2>1 DEF MediaInv, MediaTypeOK, CallOK, CallsNative
  <2>4. Served' /\ Follows'
    BY <1>1, <1>4, <1>5, <2>1, <2>2 DEF MediaInv, Served, Follows
  <2>5. QueueOK(async_lock, pipeline.running, Talking)'
    BY <1>1, <1>2, <2>1 DEF MediaInv, QueueOK, ChannelsOnce
  <2> QED BY <1>3, <2>3, <2>4, <2>5 DEF MediaInv
<1>7. CASE p \notin Watchers
  <2>1. p \in Drivers
    BY <1>7, ClosersDiffer
  <2>2. ~Running
    BY <1>1, <2>1, OneController DEF MediaInv, Served, Talking
  <2> DEFINE e == Ask(Established(p), "start")
  <2>3. e \in Asks /\ e.op = "start" /\ \A r \in Peers : e.task # Channel(r)
    BY ChannelsDiffer DEF Ask, Asks, Tasks
  <2> HIDE DEF e
  <2>4. async_lock' = Append(async_lock, e)
    BY <1>1, <1>7 DEF e
  <2>5. /\ async_lock' \in Seq(Asks) /\ async_lock' # <<>>
        /\ async_lock'[Len(async_lock')] = e
        /\ async_lock # <<>> => Head(async_lock') = Head(async_lock)
        /\ RunsAfter(async_lock', pipeline.running)
        /\ QueueOK(async_lock', pipeline.running, Talking)
    <3>1. /\ async_lock \in Seq(Asks) /\ pipeline.running \in BOOLEAN
          /\ QueueOK(async_lock, pipeline.running, Talking)
      BY MediaFacts
    <3> QED BY ONLY <2>2, <2>3, <2>4, <3>1, Appended DEF Running
  <2>6. MediaTypeOK' /\ CallOK'
    BY <1>1, <2>5 DEF MediaInv, MediaTypeOK, CallOK, CallsNative
  <2>7. Served'
    BY <1>1, <1>2, <2>1, <2>5 DEF Served, Running
  <2>8. Follows'
    BY <1>1, <1>3, <2>3, <2>5 DEF Follows, Wanted
  <2>9. QueueOK(async_lock', pipeline.running, Talking')
    BY <1>2, <2>5 DEF QueueOK, ChannelsOnce
  <2> QED BY <1>1, <1>3, <2>6, <2>7, <2>8, <2>9 DEF MediaInv
<1> QED BY <1>6, <1>7

\* A page that pauses or resumes asks for what its viewers together want.
LEMMA MediaToggles == ASSUME RtcInv, MediaInv, NEW p \in Peers, VideoToggled(p) PROVE MediaInv'
<1> DEFINE paused == [video_paused EXCEPT ![p] = ~@]
<1>1. /\ conn[p] = "connected" /\ p \in peer_connections /\ Free(Channel(p))
      /\ video_paused' = paused
      /\ async_lock' =
           IF ~paused[p] THEN Append(async_lock, Ask(Channel(p), "resume"))
           ELSE IF \A c \in peer_connections : paused[c]
                THEN Append(async_lock, Ask(Channel(p), "pause"))
                ELSE async_lock
      /\ UNCHANGED <<peer_connections, conn, pipeline, calling, at, past>>
  BY DEF VideoToggled
<1>2. paused \in [Peers -> BOOLEAN] /\ (paused[p] <=> ~video_paused[p])
      /\ \A q \in Peers \ {p} : paused[q] = video_paused[q]
  BY MediaFacts
<1> HIDE DEF paused
<1>3. Talking' = Talking /\ p \in Talking
  BY <1>1 DEF Talking
<1>4. Reviewed' <=> Reviewed
  BY <1>1 DEF Reviewed
<1>5. PausedOK'
  BY <1>1, <1>2 DEF MediaInv, PausedOK
<1>6. CASE async_lock' = async_lock /\ paused[p] /\ ~\A c \in peer_connections : paused[c]
  <2>1. Wanted /\ Wanted'
    BY <1>1, <1>2, <1>6 DEF Wanted
  <2>2. Running' <=> Running
    BY <1>1, <1>6 DEF Running
  <2>3. MediaTypeOK' /\ CallOK'
    BY <1>1, <1>2, <1>6 DEF MediaInv, MediaTypeOK, CallOK, CallsNative
  <2>4. Served' /\ Follows' /\ QueueOK(async_lock, pipeline.running, Talking)'
    BY <1>1, <1>3, <1>4, <1>6, <2>1, <2>2 DEF MediaInv, Served, Follows
  <2> QED BY <1>5, <2>3, <2>4 DEF MediaInv
<1>7. ASSUME NEW op \in Pausing, async_lock' = Append(async_lock, Ask(Channel(p), op)),
             op # "pause" <=> \E c \in peer_connections : ~paused[c]
      PROVE  MediaInv'
  <2> DEFINE e == Ask(Channel(p), op)
  <2>1. e \in Asks /\ e.op = op /\ e.task = Channel(p)
    BY <1>7 DEF Ask, Asks, Tasks
  <2>2. \A i \in 1 .. Len(async_lock) : async_lock[i].task # Channel(p)
    BY <1>1, MediaFacts DEF Free
  <2>3. \A r \in Peers : e.task = Channel(r) => r = p
    BY <2>1, ChannelsDiffer
  <2> HIDE DEF e
  <2>4. /\ async_lock' \in Seq(Asks) /\ async_lock' # <<>>
        /\ async_lock'[Len(async_lock')] = e
        /\ async_lock # <<>> => Head(async_lock') = Head(async_lock)
        /\ RunsAfter(async_lock', pipeline.running) <=> Running
        /\ QueueOK(async_lock', pipeline.running, Talking)
    <3>1. /\ async_lock \in Seq(Asks) /\ pipeline.running \in BOOLEAN
          /\ QueueOK(async_lock, pipeline.running, Talking)
      BY MediaFacts
    <3>2. async_lock' = Append(async_lock, e)
      BY <1>7 DEF e
    <3>3. p \in Talking /\ e.op \in Pausing
      BY <1>3, <1>7, <2>1
    <3> QED BY ONLY <2>1, <2>2, <2>3, <3>1, <3>2, <3>3, Appended DEF Running
  <2>5. MediaTypeOK' /\ CallOK'
    BY <1>1, <1>2, <2>4 DEF MediaInv, MediaTypeOK, CallOK, CallsNative
  <2>6. Served'
    <3>1. (\A i \in 1 .. Len(async_lock) : async_lock[i].op \in Pausing) =>
            \A i \in 1 .. Len(async_lock') : async_lock'[i].op \in Pausing
      <4>1. async_lock \in Seq(Asks) /\ async_lock' = Append(async_lock, e) /\ e.op \in Pausing
        BY <1>7, <2>1, MediaFacts DEF e
      <4> QED BY ONLY <4>1
    <3> QED BY <1>1, <1>3, <2>4, <3>1 DEF MediaInv, Served, Running
  <2>7. Follows'
    BY <1>1, <1>7, <2>1, <2>4 DEF Follows, Wanted
  <2> QED BY <1>1, <1>3, <1>5, <2>4, <2>5, <2>6, <2>7 DEF MediaInv
<1>8. CASE ~paused[p]
  BY <1>1, <1>7, <1>8 DEF Pausing
<1>9. CASE paused[p] /\ \A c \in peer_connections : paused[c]
  BY <1>1, <1>7, <1>9 DEF Pausing
<1> QED BY <1>1, <1>6, <1>8, <1>9

LEMMA EmptyQueue == \A run : RunsAfter(<<>>, run) => run
BY DEF RunsAfter

\* The first in the queue has had the lock, with or without a call of pixelflux.
LEMMA LockReleased ==
  ASSUME RtcInv, MediaInv, async_lock # <<>>, async_lock' = Tail(async_lock),
         pipeline' \in [running: BOOLEAN, capturing: BOOLEAN], ~calling',
         UNCHANGED <<peer_connections, conn, video_paused, at>>,
         pipeline'.capturing => pipeline'.running,
         Head(async_lock).op = "stop" => ~pipeline'.running,
         Head(async_lock).op \in Pausing => pipeline'.running = pipeline.running,
         Head(async_lock).op = "start" => pipeline'.running \/ past'.failed,
         past'.failed \/ pipeline'.capturing \/ past'.failed = past.failed,
         past'.failed \in BOOLEAN,
         \* It has done what it was there for, or failed.
         \/ past'.failed
         \/ pipeline'.running =>
              (pipeline'.capturing <=> Head(async_lock).op # "pause")
  PROVE  MediaInv'
<1> DEFINE q == async_lock  run == pipeline.running  now == pipeline'.running  e == Head(q)
<1>1. /\ q \in Seq(Asks) /\ run \in BOOLEAN /\ now \in BOOLEAN
      /\ QueueOK(q, run, Talking)
  BY MediaFacts
<1>2. /\ Tail(q) \in Seq(Asks) /\ e \in Asks
      /\ Tail(q) # <<>> => Tail(q)[Len(Tail(q))] = q[Len(q)]
      /\ Tail(q) = <<>> => e = q[Len(q)]
      /\ QueueOK(Tail(q), now, Talking)
      /\ RunsAfter(Tail(q), now) => RunsAfter(q, run)
      /\ e.op = "start" => ~run
      /\ e.op = "start" /\ ~now /\ RunsAfter(q, run) /\ ~RunsAfter(Tail(q), now) =>
           \A i \in 1 .. Len(Tail(q)) : Tail(q)[i].op \in Pausing
      /\ e.op # "start" \/ now => (RunsAfter(q, run) => RunsAfter(Tail(q), now))
  BY <1>1, Dequeued
<1>3. e.op \in {"start", "stop"} \cup Pausing /\ "start" \notin Pausing /\ "stop" \notin Pausing
  BY <1>2 DEF Asks, Pausing
<1>4. Talking' = Talking /\ (Reviewed' <=> Reviewed) /\ (Wanted' <=> Wanted)
  BY DEF Talking, Reviewed, Wanted
<1>5. (Running <=> RunsAfter(q, run)) /\ (Running' <=> RunsAfter(Tail(q), now))
  BY DEF Running
<1>6. MediaTypeOK' /\ PausedOK' /\ CallOK'
  BY <1>2 DEF MediaInv, MediaTypeOK, PausedOK, CallOK
<1>7. Served'
  <2>1. Running' => Drivers \cap Talking' # {}
    BY <1>2, <1>4, <1>5 DEF MediaInv, Served
  <2>2. ASSUME Drivers \cap Talking # {}, ~Running'
        PROVE  past'.failed /\ ~now /\ \A i \in 1 .. Len(Tail(q)) : Tail(q)[i].op \in Pausing
    <3>1. CASE Running
      <4>1. e.op = "start" /\ ~now
        BY <1>2, <1>5, <2>2, <3>1
      <4> QED BY <1>2, <1>5, <2>2, <3>1, <4>1
    <3>2. CASE ~Running
      <4>1. /\ past.failed /\ ~run
            /\ \A i \in 1 .. Len(q) : q[i].op \in Pausing
        BY <2>2, <3>2 DEF MediaInv, Served
      <4>2. e = q[1] /\ 1 \in 1 .. Len(q)
        BY ONLY <1>1, async_lock # <<>>
      <4>3. e.op \in Pausing
        BY <4>1, <4>2
      <4>4. ~now
        BY <4>1, <4>3
      <4>5. past'.failed
        BY <4>1, <4>4
      <4>6. \A i \in 1 .. Len(Tail(q)) : i + 1 \in 1 .. Len(q) /\ Tail(q)[i] = q[i + 1]
        BY ONLY <1>1, async_lock # <<>>
      <4> QED BY <4>1, <4>4, <4>5, <4>6
    <3> QED BY <3>1, <3>2
  <2> QED BY <1>4, <2>1, <2>2 DEF Served
<1>8. Follows'
  <2> SUFFICES ASSUME ~Reviewed, Running'
               PROVE  IF Tail(q) = <<>> THEN past'.failed \/ (pipeline'.capturing <=> Wanted)
                      ELSE Tail(q)[Len(Tail(q))].op # "pause" <=> Wanted
    BY <1>4 DEF Follows
  <2>1. q[Len(q)].op # "pause" <=> Wanted
    BY <1>2, <1>5 DEF MediaInv, Follows
  <2>2. CASE Tail(q) # <<>>
    BY <1>2, <2>1, <2>2
  <2>3. CASE Tail(q) = <<>>
    <3>1. now
      BY <1>5, <2>3, EmptyQueue
    <3> QED BY <1>2, <2>1, <2>3, <3>1
  <2> QED BY <2>2, <2>3
<1> QED BY <1>2, <1>4, <1>6, <1>7, <1>8 DEF MediaInv

LEMMA MediaAcquires == ASSUME RtcInv, MediaInv, Acquires PROVE MediaInv'
<1>1. /\ async_lock # <<>> /\ ~calling
      /\ UNCHANGED <<peer_connections, conn, video_paused, at, past>>
  BY DEF Acquires
<1>2. CASE CallsNative(Head(async_lock).op)
  <2>1. calling' /\ UNCHANGED <<async_lock, pipeline>>
    BY <1>2 DEF Acquires
  <2>2. Talking' = Talking /\ (Reviewed' <=> Reviewed) /\ (Wanted' <=> Wanted)
        /\ (Running' <=> Running)
    BY <1>1, <2>1 DEF Talking, Reviewed, Wanted, Running
  <2>3. MediaTypeOK' /\ PausedOK' /\ CallOK'
    BY <1>1, <1>2, <2>1 DEF MediaInv, MediaTypeOK, PausedOK, CallOK, CallsNative
  <2> QED BY <1>1, <2>1, <2>2, <2>3 DEF MediaInv, Served, Follows
<1>3. CASE ~CallsNative(Head(async_lock).op)
  <2> DEFINE op == Head(async_lock).op
  <2>1. /\ async_lock' = Tail(async_lock) /\ calling' = calling
        /\ pipeline' = [pipeline EXCEPT !.running = Runs(op)]
    BY <1>3 DEF Acquires
  <2>2. op \in {"start", "stop"} \cup Pausing /\ (op = "start" => ~pipeline.running)
    <3>1. Head(async_lock) \in Asks /\ (op = "start" => ~pipeline.running)
      <4>1. /\ async_lock \in Seq(Asks) /\ pipeline.running \in BOOLEAN
            /\ QueueOK(async_lock, pipeline.running, Talking)
        BY MediaFacts
      <4>2. pipeline.running => StopsBetween(async_lock, TRUE)
        BY <4>1 DEF QueueOK
      <4>3. 1 \in 1 .. Len(async_lock) /\ Head(async_lock) = async_lock[1]
            /\ Head(async_lock) \in Asks
        BY ONLY <1>1, <4>1
      <4>4. ~\E j \in 1 .. (1 - 1) : async_lock[j].op = "stop"
        OBVIOUS
      <4> QED BY <4>2, <4>3, <4>4 DEF StopsBetween
    <3> QED BY <3>1 DEF Asks
  <2> HIDE DEF op
  <2>3. pipeline.capturing => pipeline.running
    BY DEF MediaInv, CallOK
  <2>4. op # "start"
    BY <1>3, <2>2, <2>3 DEF CallsNative, op
  <2>5. Runs(op) = (IF op = "stop" THEN FALSE ELSE pipeline.running)
    BY <2>4 DEF Runs
  <2>6. /\ pipeline'.running = Runs(op) /\ pipeline'.capturing = pipeline.capturing
        /\ pipeline' \in [running: BOOLEAN, capturing: BOOLEAN]
    BY <2>1, <2>5, MediaFacts DEF MediaInv, MediaTypeOK
  <2>7. CASE op = "resume"
    <3>1. ~pipeline.running \/ pipeline.capturing
      BY <1>3, <2>7 DEF CallsNative, op
    <3>2. pipeline'.running => (pipeline'.capturing <=> op # "pause")
      BY <2>5, <2>6, <2>7, <3>1, MediaFacts
    <3> QED BY <1>1, <2>1, <2>3, <2>5, <2>6, <2>7, <3>2, MediaFacts, LockReleased DEF op, Pausing
  <2>8. CASE op # "resume"
    <3>1. ~pipeline.running \/ ~pipeline.capturing
      BY <1>3, <2>2, <2>4, <2>8 DEF CallsNative, op, Pausing
    <3>2. ~pipeline.capturing
      BY <2>3, <3>1
    <3>3. pipeline'.running => (pipeline'.capturing <=> op # "pause")
      BY <2>2, <2>4, <2>5, <2>6, <2>8, <3>2, MediaFacts DEF Pausing
    <3> QED BY <1>1, <2>1, <2>3, <2>4, <2>5, <2>6, <3>2, <3>3, MediaFacts, LockReleased DEF op, Pausing
  <2> QED BY <2>7, <2>8
<1> QED BY <1>2, <1>3

LEMMA MediaNative == ASSUME RtcInv, MediaInv, NativeReturns \/ NativeFails PROVE MediaInv'
<1> DEFINE op == Head(async_lock).op
<1>1. /\ calling /\ async_lock # <<>> /\ CallsNative(op)
      /\ async_lock' = Tail(async_lock) /\ calling' = FALSE
      /\ UNCHANGED <<peer_connections, conn, video_paused, at>>
  BY DEF NativeReturns, NativeFails, Releases, MediaInv, CallOK
<1>2. op \in {"start", "stop"} \cup Pausing
  <2>1. async_lock \in Seq(Asks)
    BY MediaFacts
  <2>2. Head(async_lock) \in Asks
    BY ONLY <1>1, <2>1
  <2> QED BY <2>2 DEF Asks
<1> HIDE DEF op
<1>3. CASE NativeReturns
  <2>1. /\ pipeline' = [running |-> Runs(op), capturing |-> op \in {"start", "resume"}]
        /\ past' = [past EXCEPT !.failed = @ /\ ~(op \in {"start", "resume"})]
    BY <1>3 DEF NativeReturns, Releases, op
  <2>2. past'.failed = (past.failed /\ op \notin {"start", "resume"})
    BY <2>1 DEF RtcInv, RtcTypeOK
  <2>3. op \in Pausing => pipeline.running
    BY <1>1 DEF CallsNative, Pausing
  <2>4. Runs(op) = (op # "stop")
    BY <1>2, <2>3, MediaFacts DEF Runs, Pausing
  <2>5. pipeline' \in [running: BOOLEAN, capturing: BOOLEAN]
        /\ (pipeline'.running <=> op # "stop") /\ (pipeline'.capturing <=> op \in {"start", "resume"})
    <3>1. PICK run \in BOOLEAN : run = Runs(op) /\ (run <=> op # "stop")
      BY <2>4, Zenon
    <3> DEFINE capture == op \in {"start", "resume"}
    <3>2. capture \in BOOLEAN
      BY SMT
    <3>3. pipeline' = [running |-> run, capturing |-> capture]
      BY <2>1, <3>1
    <3>4. capture <=> op \in {"start", "resume"}
      OBVIOUS
    <3> HIDE DEF capture
    <3> QED BY <3>1, <3>2, <3>3, <3>4
  <2>6. past'.failed \in BOOLEAN /\ (op \notin {"start", "resume"} => past'.failed = past.failed)
    BY <2>2, MediaFacts
  <2> QED BY <1>1, <1>2, <2>3, <2>5, <2>6, MediaFacts, LockReleased DEF op, Pausing
<1>4. CASE NativeFails
  <2>1. /\ op \in {"start", "resume"} /\ past' = [past EXCEPT !.failed = TRUE]
        /\ pipeline' = [running |-> op = "resume", capturing |-> FALSE]
    BY <1>4 DEF NativeFails, Releases, op
  <2>2. past'.failed = TRUE
    BY <2>1 DEF RtcInv, RtcTypeOK
  <2>3. op = "resume" => pipeline.running
    BY <1>1 DEF CallsNative
  <2>4. pipeline' \in [running: BOOLEAN, capturing: BOOLEAN]
        /\ (pipeline'.running <=> op = "resume") /\ ~pipeline'.capturing
    BY <2>1
  <2> QED BY <1>1, <2>1, <2>2, <2>3, <2>4, MediaFacts, LockReleased DEF op, Pausing
<1> QED BY <1>3, <1>4

LEMMA MediaStep == RtcInv /\ MediaInv /\ [RtcNext]_rtcVars => MediaInv'
<1> SUFFICES ASSUME RtcInv, MediaInv, [RtcNext]_rtcVars PROVE MediaInv'
  OBVIOUS
<1>1. CASE \E p \in Peers : PeerVanishes(p) \/ SessionStarts(p) \/ Connects(p) \/ VideoToggled(p)
  BY <1>1, MediaVanishes, MediaStarts, MediaConnects, MediaToggles
<1>2. CASE \E p \in Peers : SessionEnds(p) \/ TokenRevoked(p)
  BY <1>2, MediaClosesPeer DEF SessionEnds, TokenRevoked, Resting
<1>3. CASE StopsNext
  <2>1. PICK p \in signaled.doomed : ClosesPeer(Signal, p)
    BY <1>3 DEF StopsNext
  <2>2. p \in Peers /\ at[Signal].do = "done"
        /\ UNCHANGED <<peer_connections, pipeline, video_paused>>
    BY <1>3 DEF StopsNext, Resting, RtcInv, RtcTypeOK
  <2> QED BY <2>1, <2>2, MediaClosesPeer
<1>4. CASE \E t \in Closers : Pops(t) \/ Tears(t) \/ FindsViewers(t) \/ ClosesViewer(t) \/ Finishes(t)
  BY <1>4, MediaPops, MediaTeardown, MediaClosesViewer
<1>5. CASE OfferSent \/ OfferFails \/ SignalingDrops \/ StopsAll \/ StopsGraphs
  BY <1>5, MediaOfferSent, MediaSignaling
<1>6. CASE Acquires \/ NativeReturns \/ NativeFails
  BY <1>6, MediaAcquires, MediaNative
<1>7. CASE UNCHANGED rtcVars
  <2>1. UNCHANGED <<async_lock, pipeline, calling, video_paused, peer_connections, conn, past, at>>
    BY <1>7 DEF rtcVars
  <2>2. Reviewed' <=> Reviewed
    BY <2>1 DEF Reviewed
  <2> QED BY <2>1, <2>2, CaptureKept
<1> QED BY <1>1, <1>2, <1>3, <1>4, <1>5, <1>6, <1>7 DEF RtcNext

(***************************************************************************)
(* Once every task has finished, the capture is what its consumers call    *)
(* for, in whatever order joins, leaves, pauses and teardowns had taken    *)
(* the lock (start_media_pipeline, stop_media_pipeline and                 *)
(* handle_consumers_changed).                                              *)
(***************************************************************************)
THEOREM CaptureOfConsumers == RtcSpec => []CaptureFollows
<1>1. RtcInv /\ MediaInv => CaptureFollows
  <2> SUFFICES ASSUME RtcInv, MediaInv, MediaSettled
               PROVE  /\ pipeline.capturing => pipeline.running
                      /\ pipeline.running => peer_connections \cap Drivers # {}
                      /\ ~past.failed =>
                           /\ \A c \in peer_connections \cap Drivers :
                                conn[c] = "connected" => pipeline.running
                           /\ pipeline.running =>
                                (pipeline.capturing <=> \E p \in peer_connections : ~video_paused[p])
    BY DEF CaptureFollows
  <2>1. async_lock = <<>> /\ Len(async_lock) = 0 /\ ~Reviewed
    BY DEF MediaSettled, Reviewed, Reviews
  <2>2. Running <=> pipeline.running
    BY <2>1, MediaFacts DEF Running, RunsAfter
  <2> QED BY <2>1, <2>2 DEF MediaInv, CallOK, Served, Follows, Wanted, Talking
<1> QED BY <1>1, RtcInvariant, RtcStep, MediaInitInv, MediaStep, PTL DEF RtcSpec

-----------------------------------------------------------------------------
(***************************************************************************)
(* The registry of the signaling server.                                   *)
(*                                                                         *)
(* OneHolder is inductive by itself.  NoStaleSession is strengthened to    *)
(* every place where a handler holds no session (Idle), Presence to what   *)
(* the handlers that are not at rest still owe a report.  The other three  *)
(* are about what is deferred under the lock and done after it: HInv says  *)
(* what a deferred call is and where a handler with some may be, StillDue  *)
(* that it stays until it is done, and then NoOrphan is inductive          *)
(* relative to HInv, ServerLives by also looking at a server whose HELLO   *)
(* failed (Excused), SessionsEnd by naming the session itself              *)
(* (SessionOwed).                                                          *)
(***************************************************************************)

\* The places in which a handler may own an entry of self.sessions.
Serving == {"loop", "ok", "start", "ending"}

\* What the arguments below need of the types.
Shape ==
  /\ pc \in [Conn -> Places]
  /\ sessions = [c \in Clients |-> sessions[c]]

LEMMA Kinds == Clients \cap Servers = {} /\ None \notin Conn /\ None \notin Servers
  BY ClientsAssumption DEF Servers, Conn, None

-----------------------------------------------------------------------------
(* Who holds what                                                           *)

\* Removing peers, or adding a server, cannot break OneHolder.
LEMMA Shrinking ==
  ASSUME OneHolder, peers' \cap Clients \subseteq peers \cap Clients
  PROVE  OneHolder'
  BY DEF OneHolder

\* The newcomer's claim: whoever would stand in its way is evicted.
LEMMA Claiming ==
  ASSUME OneHolder, NEW c \in Clients,
         Register(c, Rivals(c), IF Role[c] = "controller" THEN Controllers(c) ELSE {})
  PROVE  OneHolder'
  <1> DEFINE E == Rivals(c) \cup (IF Role[c] = "controller" THEN Controllers(c) ELSE {})
  <1>1. peers' = (peers \ E) \cup {c}
    BY DEF Register
  <1>2. ASSUME NEW d \in (peers \ E) \cap Clients, d # c, Display[d] = Display[c]
        PROVE  /\ EnableSharing
               /\ ~(Role[c] = "controller" /\ Role[d] = "controller")
               /\ Slot[c] = NoSlot \/ Slot[c] # Slot[d]
               /\ Slot[d] = NoSlot \/ Slot[d] # Slot[c]
    BY <1>2 DEF Rivals, Controllers
  <1>3. SUFFICES ASSUME NEW x \in peers' \cap Clients, NEW y \in peers' \cap Clients,
                        x # y, Display[x] = Display[y]
                 PROVE  /\ EnableSharing
                        /\ ~(Role[x] = "controller" /\ Role[y] = "controller")
                        /\ Slot[x] = NoSlot \/ Slot[x] # Slot[y]
    BY DEF OneHolder
  <1>4. CASE x = c
    <2>1. y \in (peers \ E) \cap Clients
      BY <1>1, <1>3, <1>4
    <2> QED BY <1>2, <1>3, <1>4, <2>1
  <1>5. CASE y = c
    <2>1. x \in (peers \ E) \cap Clients
      BY <1>1, <1>3, <1>5
    <2> QED BY <1>2, <1>3, <1>5, <2>1
  <1>6. CASE x # c /\ y # c
    BY <1>1, <1>3, <1>6 DEF OneHolder
  <1> QED BY <1>4, <1>5, <1>6

\* Whatever a step does to the registered clients is one of the two.
LEMMA Registry ==
  ASSUME [Next]_vars
  PROVE  \/ peers' \cap Clients \subseteq peers \cap Clients
         \/ \E c \in Clients :
              Register(c, Rivals(c), IF Role[c] = "controller" THEN Controllers(c) ELSE {})
  <1>1. CASE UNCHANGED vars
    BY <1>1 DEF vars
  <1>2. ASSUME NEW p \in Conn,
               \/ Connect(p) \/ Leave(p) \/ Flush(p) \/ Notice(p) \/ Unknown(p)
               \/ Greet(p) \/ GreetFails(p) \/ Pop(p) \/ HandshakeFailed(p)
               \/ CleanupQuiet(p) \/ Departed(p)
        PROVE  peers' \cap Clients \subseteq peers \cap Clients
    BY <1>2 DEF Connect, Leave, Flush, Notice, Unknown, Greet, GreetFails, Pop,
                HandshakeFailed, CleanupQuiet, Departed, LoopEnds, Removed
  <1>3. ASSUME NEW s \in Servers, ServerHello(s) \/ ServerRelayFails(s)
        PROVE  peers' \cap Clients \subseteq peers \cap Clients
    BY <1>3, Kinds DEF ServerHello, ServerRelayFails, LoopEnds
  <1>4. ASSUME NEW c \in Clients, ClientHello(c)
        PROVE  \/ peers' \cap Clients \subseteq peers \cap Clients
               \/ Register(c, Rivals(c),
                           IF Role[c] = "controller" THEN Controllers(c) ELSE {})
    BY <1>4 DEF ClientHello, Refuse
  <1>5. ASSUME NEW c \in Clients,
               \/ ClientRelayFails(c) \/ SessionAsked(c) \/ SessionOk(c)
               \/ SessionFails(c) \/ SessionStored(c) \/ CleanupCloses(c)
               \/ CleanupEnds(c) \/ CleanupRaises(c) \/ CleanupGoesOn(c)
        PROVE  peers' \cap Clients \subseteq peers \cap Clients
    BY <1>5 DEF ClientRelayFails, SessionAsked, SessionOk, SessionFails, SessionStored,
                CleanupCloses, CleanupEnds, CleanupRaises, CleanupGoesOn, LoopEnds, Removed
  <1>6. ASSUME NEW k \in Keys, Forget(k)
        PROVE  peers' \cap Clients \subseteq peers \cap Clients
    BY <1>6 DEF Forget
  <1> QED BY <1>1, <1>2, <1>3, <1>4, <1>5, <1>6 DEF Next

\* Theorem: two registered clients of a display never both control it nor share
\* a slot, and without sharing a display has one client, for any set of
\* clients.
THEOREM OneHolderAlways == Spec => []OneHolder
  <1>1. Init => OneHolder
    BY DEF Init, OneHolder
  <1>2. OneHolder /\ [Next]_vars => OneHolder'
    BY Registry, Shrinking, Claiming
  <1> QED BY <1>1, <1>2, PTL DEF Spec

-----------------------------------------------------------------------------
(* Sessions                                                                 *)

\* A handler that is not serving owns no session.
Idle == \A c \in Clients : pc[c] \notin Serving => sessions[c] = None

SInv == Shape /\ Idle

LEMMA SStart == Init => SInv
  BY DEF Init, SInv, Shape, Idle, Places

\* Handshakes and evictions: sessions only disappear, nobody stops serving.
LEMMA SHandshake ==
  ASSUME SInv,
         \/ \E p \in Conn : \/ Connect(p) \/ Leave(p) \/ Flush(p) \/ Greet(p)
                            \/ GreetFails(p) \/ Pop(p) \/ HandshakeFailed(p)
         \/ \E s \in Servers : ServerHello(s)
         \/ \E c \in Clients : ClientHello(c)
         \/ \E k \in Keys : Forget(k)
  PROVE  SInv'
  <1> USE DEF SInv, Shape, Idle, Places, Serving, Conn, hub
  <1>1. ASSUME NEW p \in Conn, Connect(p) \/ Leave(p) \/ Flush(p)
        PROVE  SInv'
    BY <1>1 DEF Connect, Leave, Flush
  <1>2. ASSUME NEW p \in Conn, Greet(p) \/ GreetFails(p) \/ Pop(p) \/ HandshakeFailed(p)
        PROVE  SInv'
    BY <1>2 DEF Greet, GreetFails, Pop, HandshakeFailed, Returns
  <1>3. ASSUME NEW s \in Servers, ServerHello(s) PROVE SInv'
    BY <1>3 DEF ServerHello
  <1>4. ASSUME NEW c \in Clients, ClientHello(c) PROVE SInv'
    BY <1>4 DEF ClientHello, Refuse, Register, Evict
  <1>5. ASSUME NEW k \in Keys, Forget(k) PROVE SInv'
    BY <1>5 DEF Forget
  <1> QED BY <1>1, <1>2, <1>3, <1>4, <1>5

\* The message loop: a session is stored by a handler that goes on serving.
LEMMA SServe ==
  ASSUME SInv,
         \/ \E p \in Conn : Notice(p) \/ Unknown(p)
         \/ \E s \in Servers : ServerRelayFails(s)
         \/ \E c \in Clients : \/ ClientRelayFails(c) \/ SessionAsked(c)
                               \/ SessionOk(c) \/ SessionFails(c) \/ SessionStored(c)
  PROVE  SInv'
  <1> USE DEF SInv, Shape, Idle, Places, Serving, Conn, hub, LoopEnds
  <1>1. ASSUME NEW p \in Conn, Notice(p) \/ Unknown(p) PROVE SInv'
    BY <1>1 DEF Notice, Unknown
  <1>2. ASSUME NEW s \in Servers, ServerRelayFails(s) PROVE SInv'
    BY <1>2 DEF ServerRelayFails
  <1>3. ASSUME NEW c \in Clients, \/ ClientRelayFails(c) \/ SessionAsked(c)
                                  \/ SessionOk(c) \/ SessionFails(c)
        PROVE  SInv'
    BY <1>3 DEF ClientRelayFails, SessionAsked, SessionOk, SessionFails
  <1>4. ASSUME NEW c \in Clients, SessionStored(c) PROVE SInv'
    BY <1>4 DEF SessionStored
  <1> QED BY <1>1, <1>2, <1>3, <1>4

\* The way out: the session is dropped before anything else is done.
LEMMA SCleanup ==
  ASSUME SInv,
         \/ \E p \in Conn : CleanupQuiet(p) \/ Departed(p)
         \/ \E c \in Clients : \/ CleanupCloses(c) \/ CleanupEnds(c)
                               \/ CleanupRaises(c) \/ CleanupGoesOn(c)
  PROVE  SInv'
  <1> USE DEF SInv, Shape, Idle, Places, Serving, Conn, hub, Removed, SessionDropped, Returns
  <1>1. ASSUME NEW p \in Conn, CleanupQuiet(p) PROVE SInv'
    BY <1>1 DEF CleanupQuiet
  <1>2. ASSUME NEW p \in Conn, Departed(p) PROVE SInv'
    BY <1>2 DEF Departed
  <1>3. ASSUME NEW c \in Clients, CleanupCloses(c) \/ CleanupEnds(c) PROVE SInv'
    BY <1>3 DEF CleanupCloses, CleanupEnds
  <1>4. ASSUME NEW c \in Clients, CleanupRaises(c) \/ CleanupGoesOn(c) PROVE SInv'
    BY <1>4 DEF CleanupRaises, CleanupGoesOn
  <1> QED BY <1>1, <1>2, <1>3, <1>4

LEMMA SAlways == Spec => []SInv
  <1>1. SInv /\ [Next]_vars => SInv'
    <2> SUFFICES ASSUME SInv, [Next]_vars PROVE SInv'
      OBVIOUS
    <2>1. CASE UNCHANGED vars
      BY <2>1 DEF vars, SInv, Shape, Idle
    <2>2. CASE Next
      BY <2>2, SHandshake, SServe, SCleanup DEF Next
    <2> QED BY <2>1, <2>2
  <1> QED BY SStart, <1>1, PTL DEF Spec

\* Theorem: the session table does not outlive the handlers it is about, even
\* those that were evicted while they stored their entry or whose cleanup
\* raised.
THEOREM SessionsDropped == Spec => []NoStaleSession
  <1>1. SInv => NoStaleSession
    BY DEF SInv, Idle, Serving, NoStaleSession
  <1> QED BY SAlways, <1>1, PTL

-----------------------------------------------------------------------------
(* Presence                                                                 *)

\* The places where no registered client's handler is.
Outside == {"new", "hello", "refused", "closing"}

\* A handler that will report, or be recorded as `silent`, before it rests.
Owes(p) == \/ pc[p] \in {"flush", "popping", "ok", "start", "ending", "cleanup", "closing"}
           \/ pc[p] = "loop" /\ p \notin peers

Exact == presence = (peers \cap Clients # {})

\* Nobody is served under a report of absence; a client is registered only
\* while its handler is at work; and a report that is out of date is owed.
PeersServed == \A c \in peers \cap Clients : pc[c] \in {"loop", "ok", "start"} => presence
Attended == \A c \in peers \cap Clients :
              pc[c] \notin Outside /\ (pc[c] = "done" => silent)
Owed == ~silent /\ ~Exact => \E p \in Conn : Owes(p)

PInv == Shape /\ presence \in BOOLEAN /\ PeersServed /\ Attended /\ Owed

LEMMA PStart == Init => PInv
  BY DEF Init, PInv, Shape, Places, PeersServed, Attended, Owed, Exact

\* Steps that move one handler and change neither the registry nor the report.
LEMMA PMove ==
  ASSUME PInv, Shape', peers' = peers, presence' = presence, silent' = silent,
         NEW p \in Conn, NEW to \in Places, pc' = [pc EXCEPT ![p] = to],
         p \in peers \cap Clients =>
           /\ to \notin Outside \cup {"done"}
           /\ to \in {"loop", "ok", "start"} => pc[p] \in {"loop", "ok", "start"},
         \/ pc[p] \in {"new", "hello", "refused"}
         \/ pc[p] = "loop" /\ p \in peers
         \/ to \in {"flush", "popping", "ok", "start", "ending", "cleanup", "closing"}
         \/ to = "loop" /\ p \notin peers
         \/ to = "loop" /\ p \in Clients /\ pc[p] \in {"ok", "start"}
  PROVE  PInv'
  <1> USE DEF PInv, Shape
  <1>1. pc'[p] = to /\ \A q \in Conn : q # p => pc'[q] = pc[q]
    OBVIOUS
  <1>2. Clients \subseteq Conn
    BY DEF Conn
  <1>3. PeersServed'
    BY <1>1, <1>2 DEF PeersServed
  <1>4. Attended'
    BY <1>1, <1>2 DEF Attended
  <1>5. Owed'
    <2> SUFFICES ASSUME ~silent', ~Exact' PROVE (\E q \in Conn : Owes(q))'
      BY DEF Owed
    <2>1. ~silent /\ ~Exact
      BY DEF Exact
    <2>2. PICK q \in Conn : Owes(q)
      BY <2>1 DEF Owed
    <2>3. CASE q # p
      BY <1>1, <2>2, <2>3 DEF Owes
    <2>4. CASE q = p
      <3>1. CASE to = "loop" /\ p \in Clients /\ pc[p] \in {"ok", "start"} /\ p \in peers
        <4>1. presence
          BY <3>1 DEF PeersServed
        <4>2. peers \cap Clients # {}
          BY <3>1
        <4> QED BY <2>1, <4>1, <4>2 DEF Exact
      <3>2. CASE ~(to = "loop" /\ p \in Clients /\ pc[p] \in {"ok", "start"} /\ p \in peers)
        BY <1>1, <2>2, <2>4, <3>2 DEF Owes
      <3> QED BY <3>1, <3>2
    <2> QED BY <2>3, <2>4
  <1> QED BY <1>3, <1>4, <1>5

\* Steps that move no handler.
LEMMA PStill ==
  ASSUME PInv, Shape', peers' = peers, presence' = presence, silent' = silent, pc' = pc
  PROVE  PInv'
  BY DEF PInv, PeersServed, Attended, Owed, Exact, Owes

\* Registry and report together: the last thing a handler does before it rests.
LEMMA PReport ==
  ASSUME PInv, Shape', peers' = peers, Report, silent' = silent,
         NEW p \in Conn, NEW to \in {"loop", "done"}, pc' = [pc EXCEPT ![p] = to],
         to = "done" => pc[p] = "closing"
  PROVE  PInv'
  <1> USE DEF PInv, Shape
  <1>1. pc'[p] = to /\ \A q \in Conn : q # p => pc'[q] = pc[q]
    OBVIOUS
  <1>2. Clients \subseteq Conn
    BY DEF Conn
  <1>3. Exact' /\ presence' \in BOOLEAN
    BY DEF Report, Exact
  <1>4. PeersServed'
    <2> SUFFICES ASSUME NEW c \in peers' \cap Clients PROVE presence'
      BY DEF PeersServed
    <2>1. peers \cap Clients # {}
      OBVIOUS
    <2> QED BY <2>1 DEF Report
  <1>5. Attended'
    BY <1>1, <1>2 DEF Attended, Outside
  <1>6. Owed'
    BY <1>3 DEF Owed
  <1> QED BY <1>3, <1>4, <1>5, <1>6

\* Removal of the peer, the report to follow.
LEMMA PRemoved ==
  ASSUME PInv, Shape', NEW p \in Conn, Removed(p), presence' = presence, silent' = silent
  PROVE  PInv'
  <1> USE DEF PInv, Shape
  <1>1. pc'[p] = "closing" /\ \A q \in Conn : q # p => pc'[q] = pc[q]
    BY DEF Removed, Places
  <1>2. Clients \subseteq Conn /\ peers' = peers \ {p}
    BY DEF Conn, Removed
  <1>3. PeersServed' /\ Attended'
    BY <1>1, <1>2 DEF PeersServed, Attended
  <1>4. Owed'
    BY <1>1 DEF Owed, Owes
  <1> QED BY <1>3, <1>4

\* A peer is popped, or left behind, by a handler that ends without a report.
LEMMA PSilent ==
  ASSUME PInv, Shape', NEW p \in Conn, Returns(p), presence' = presence, silent',
         peers' \subseteq peers
  PROVE  PInv'
  <1> USE DEF PInv, Shape
  <1>1. pc'[p] = "done" /\ \A q \in Conn : q # p => pc'[q] = pc[q]
    BY DEF Returns, Places
  <1>2. Clients \subseteq Conn
    BY DEF Conn
  <1>3. PeersServed' /\ Attended'
    BY <1>1, <1>2 DEF PeersServed, Attended, Outside
  <1>4. Owed'
    BY DEF Owed
  <1> QED BY <1>3, <1>4

\* hello_peer of a client: the handlers of those it evicts are still to report.
LEMMA PHello ==
  ASSUME PInv, Shape', NEW c \in Clients, ClientHello(c)
  PROVE  PInv'
  <1> USE DEF PInv, Shape
  <1>1. /\ pc[c] = "hello" /\ presence' = presence /\ silent' = silent
        /\ \A q \in Conn : q # c => pc'[q] = pc[q]
    BY DEF ClientHello, Refuse, Register, Evict, Conn
  <1>2. \/ pc'[c] = "flush"
        \/ pc'[c] = "refused" /\ peers' \subseteq peers
    BY DEF ClientHello, Refuse, Register, Conn
  <1>3. peers' \subseteq peers \cup {c}
    BY DEF ClientHello, Refuse, Register
  <1>4. c \notin peers
    BY <1>1 DEF Attended, Outside
  <1>5. Clients \subseteq Conn
    BY DEF Conn
  <1>6. PeersServed' /\ Attended'
    BY <1>1, <1>2, <1>3, <1>4, <1>5 DEF PeersServed, Attended, Outside
  <1>7. Owed'
    <2> SUFFICES ASSUME ~silent', ~Exact' PROVE (\E q \in Conn : Owes(q))'
      BY DEF Owed
    <2>1. CASE pc'[c] = "flush"
      BY <1>5, <2>1 DEF Owes
    <2>2. CASE peers' \subseteq peers /\ pc'[c] = "refused"
      <3>1. CASE peers' \cap Clients = peers \cap Clients
        <4>1. ~Exact
          BY <1>1, <3>1 DEF Exact
        <4>2. PICK q \in Conn : Owes(q)
          BY <1>1, <4>1 DEF Owed
        <4>3. q # c
          BY <1>1, <4>2 DEF Owes
        <4>4. Owes(q)'
          BY <1>1, <2>2, <4>2, <4>3 DEF Owes
        <4> QED BY <4>4
      <3>2. CASE peers' \cap Clients # peers \cap Clients
        <4>1. PICK e \in peers \cap Clients : e \notin peers'
          BY <2>2, <3>2
        <4>2. e # c /\ e \in Conn /\ pc[e] \notin Outside \cup {"done"}
          BY <1>1, <1>4, <1>5, <4>1 DEF Attended
        <4>3. pc'[e] = pc[e] /\ pc[e] \in Places
          BY <1>1, <4>2
        <4>4. Owes(e)'
          BY <4>1, <4>2, <4>3 DEF Owes, Places, Outside
        <4> QED BY <4>2, <4>4
      <3> QED BY <3>1, <3>2
    <2> QED BY <1>2, <2>1, <2>2
  <1> QED BY <1>1, <1>6, <1>7

LEMMA PServerHello ==
  ASSUME PInv, Shape', NEW s \in Servers, ServerHello(s)
  PROVE  PInv'
  <1> USE DEF PInv, Shape
  <1>1. /\ presence' = presence /\ silent' = silent /\ pc'[s] = "flush"
        /\ \A q \in Conn : q # s => pc'[q] = pc[q]
    BY DEF ServerHello, Conn
  <1>2. peers' \cap Clients = peers \cap Clients /\ s \notin Clients /\ s \in Conn
    BY Kinds DEF ServerHello, Conn
  <1>3. Clients \subseteq Conn
    BY DEF Conn
  <1>4. PeersServed' /\ Attended'
    BY <1>1, <1>2, <1>3 DEF PeersServed, Attended
  <1>5. Owed'
    BY <1>1, <1>2 DEF Owed, Owes
  <1> QED BY <1>1, <1>4, <1>5

\* A handler connects, or leaves its handshake.
LEMMA PHandshake ==
  ASSUME PInv, Shape', NEW p \in Conn,
         Connect(p) \/ Greet(p) \/ GreetFails(p) \/ Pop(p) \/ HandshakeFailed(p)
  PROVE  PInv'
  <1> USE DEF hub
  <1>1. CASE Connect(p)
    <2>1. pc[p] = "new" /\ pc' = [pc EXCEPT ![p] = "hello"]
      BY <1>1 DEF Connect
    <2>2. p \notin peers \cap Clients
      BY <2>1 DEF PInv, Attended, Outside
    <2> QED BY <1>1, <2>1, <2>2, PMove DEF Connect, Places
  <1>2. CASE Greet(p)
    BY <1>2, PReport DEF Greet
  <1>3. CASE GreetFails(p)
    <2>1. "popping" \in Places /\ "popping" \notin Outside \cup {"done"}
      BY DEF Places, Outside
    <2> QED BY <1>3, <2>1, PMove DEF GreetFails
  <1>4. CASE Pop(p)
    <2>1. peers' \subseteq peers /\ Returns(p) /\ silent' /\ presence' = presence
      BY <1>4 DEF Pop
    <2> QED BY <2>1, PSilent
  <1>5. CASE HandshakeFailed(p)
    <2>1. pc[p] = "refused" /\ pc' = [pc EXCEPT ![p] = "done"]
      BY <1>5 DEF HandshakeFailed, Returns
    <2>2. p \notin peers \cap Clients
      BY <2>1 DEF PInv, Attended, Outside
    <2> QED BY <1>5, <2>1, <2>2, PMove DEF HandshakeFailed, Places
  <1> QED BY <1>1, <1>2, <1>3, <1>4, <1>5

\* A handler leaves its message loop.
LEMMA PLoopEnds ==
  ASSUME PInv, Shape', NEW p \in Conn, LoopEnds(p)
  PROVE  PInv'
  <1>1. "ending" \in Places /\ "ending" \notin Outside \cup {"done", "loop", "ok", "start"}
    BY DEF Places, Outside
  <1> QED BY <1>1, PMove DEF LoopEnds

\* A handler serves a SESSION request.
LEMMA PSession ==
  ASSUME PInv, Shape', NEW c \in Clients,
         SessionAsked(c) \/ SessionOk(c) \/ SessionStored(c)
  PROVE  PInv'
  <1>1. c \in Conn
    BY DEF Conn
  <1>2. {"loop", "ok", "start"} \subseteq Places \ (Outside \cup {"done"})
    BY DEF Places, Outside
  <1>3. /\ pc[c] \in {"loop", "ok", "start"}
        /\ \E to \in {"loop", "ok", "start"} :
             /\ pc' = [pc EXCEPT ![c] = to]
             /\ to = "loop" => pc[c] \in {"ok", "start"}
        /\ peers' = peers /\ presence' = presence /\ silent' = silent
    BY DEF SessionAsked, SessionOk, SessionStored
  <1> QED BY <1>1, <1>2, <1>3, PMove

\* A handler cleans up.
LEMMA PCleanup ==
  ASSUME PInv, Shape', NEW p \in Conn,
         \/ CleanupQuiet(p) \/ Departed(p) \/ CleanupCloses(p)
         \/ CleanupEnds(p) \/ CleanupRaises(p) \/ CleanupGoesOn(p)
  PROVE  PInv'
  <1> USE DEF hub
  <1>1. CASE CleanupQuiet(p) \/ CleanupGoesOn(p)
    BY <1>1, PRemoved DEF CleanupQuiet, CleanupGoesOn
  <1>2. CASE Departed(p)
    BY <1>2, PReport DEF Departed, Returns
  <1>3. CASE CleanupCloses(p) \/ CleanupEnds(p)
    <2>1. "cleanup" \in Places /\ "cleanup" \notin Outside \cup {"done", "loop", "ok", "start"}
      BY DEF Places, Outside
    <2>2. /\ pc' = [pc EXCEPT ![p] = "cleanup"]
          /\ peers' = peers /\ presence' = presence /\ silent' = silent
      BY <1>3 DEF CleanupCloses, CleanupEnds
    <2> QED BY <2>1, <2>2, PMove
  <1>4. CASE CleanupRaises(p)
    <2>1. peers' \subseteq peers /\ Returns(p) /\ silent' /\ presence' = presence
      BY <1>4 DEF CleanupRaises
    <2> QED BY <2>1, PSilent
  <1> QED BY <1>1, <1>2, <1>3, <1>4

LEMMA PStep ==
  ASSUME PInv, Shape', [Next]_vars
  PROVE  PInv'
  <1>0. Clients \subseteq Conn /\ Servers \subseteq Conn
    BY DEF Conn
  <1>1. CASE UNCHANGED vars
    BY <1>1, PStill DEF vars
  <1>2. ASSUME NEW p \in Conn, Leave(p) \/ Flush(p) PROVE PInv'
    BY <1>2, PStill DEF Leave, Flush
  <1>3. ASSUME NEW k \in Keys, Forget(k) PROVE PInv'
    BY <1>3, PStill DEF Forget
  <1>4. ASSUME NEW p \in Conn, Notice(p) \/ Unknown(p) PROVE PInv'
    BY <1>4, PLoopEnds DEF Notice, Unknown
  <1>5. ASSUME NEW s \in Servers, ServerHello(s) \/ ServerRelayFails(s) PROVE PInv'
    BY <1>0, <1>5, PLoopEnds, PServerHello DEF ServerRelayFails
  <1>6. ASSUME NEW c \in Clients, ClientRelayFails(c) \/ SessionFails(c) PROVE PInv'
    BY <1>0, <1>6, PLoopEnds DEF ClientRelayFails, SessionFails
  <1> QED BY <1>0, <1>1, <1>2, <1>3, <1>4, <1>5, <1>6, PHandshake, PHello, PSession,
             PCleanup DEF Next

\* Theorem: a client in its message loop has been reported present, and once
\* every handler is at rest the reported presence is the truth unless a handler
\* ended without its report, for any number of clients and servers.
THEOREM PresenceTrue == Spec => []Presence
  <1>1. PInv => Presence
    <2> SUFFICES ASSUME PInv PROVE Presence
      OBVIOUS
    <2>1. (\E c \in peers \cap Clients : pc[c] = "loop") => presence
      BY DEF PInv, PeersServed
    <2>2. ASSUME ~silent, \A p \in Conn : AtRest(p) PROVE Exact
      BY <2>2 DEF PInv, Owed, Owes, AtRest
    <2> QED BY <2>1, <2>2 DEF Presence, Exact
  <1>2. SInv => Shape
    BY DEF SInv
  <1>3. PInv /\ Shape' /\ [Next]_vars => PInv'
    BY PStep
  <1> QED BY SAlways, PStart, <1>1, <1>2, <1>3, PTL DEF Spec

-----------------------------------------------------------------------------
(* Deferred calls                                                           *)

\* A finite set is listed whole.
LEMMA Listed ==
  ASSUME NEW S, IsFiniteSet(S)
  PROVE  /\ Cardinality(S) \in Nat
         /\ SetToSeq(S) \in [1..Cardinality(S) -> S]
         /\ \A x \in S : \E i \in 1..Cardinality(S) : SetToSeq(S)[i] = x
<1> DEFINE n == Cardinality(S)
<1>1. n \in Nat /\ ExistsBijection(1..n, S)
  BY FS_CardinalityType
<1>2. PICK b : b \in [1..n -> S] /\ IsInjective(b)
  BY <1>1 DEF ExistsBijection, Bijection, Injection
<1>3. SetToSeq(S) \in [1..n -> S] /\ IsInjective(SetToSeq(S))
  BY <1>2 DEF SetToSeq
<1>4. IsFiniteSet(1..n) /\ Cardinality(1..n) = n
  BY <1>1, FS_Interval
<1>5. SetToSeq(S) \in Injection(1..n, S)
  BY <1>3 DEF Injection
<1> HIDE DEF n
<1>6. SetToSeq(S) \in Surjection(1..n, S)
  BY <1>4, <1>5, FS_Injection DEF n
<1>7. \A x \in S : \E i \in 1..n : SetToSeq(S)[i] = x
  BY <1>6 DEF Surjection
<1> QED BY <1>1, <1>3, <1>7 DEF n

LEMMA CallJoined ==
  ASSUME NEW X, NEW s \in Seq(X), NEW t \in Seq(X)
  PROVE  s \o t \in Seq(X) /\ ToSet(s \o t) = ToSet(s) \cup ToSet(t)
<1>1. s \o t \in Seq(X) /\ Len(s) \in Nat /\ Len(t) \in Nat /\ Len(s \o t) = Len(s) + Len(t)
  OBVIOUS
<1>2. \A i \in 1..Len(s) : (s \o t)[i] = s[i] /\ i \in DOMAIN (s \o t)
  BY <1>1
<1>3. \A i \in 1..Len(t) : (s \o t)[Len(s) + i] = t[i] /\ Len(s) + i \in DOMAIN (s \o t)
  BY <1>1
<1>4. ASSUME NEW i \in DOMAIN (s \o t) PROVE (s \o t)[i] \in ToSet(s) \cup ToSet(t)
  <2>1. i \in 1..Len(s) \/ i - Len(s) \in 1..Len(t)
    BY <1>1
  <2>2. CASE i \in 1..Len(s)
    BY <1>2, <2>2 DEF ToSet
  <2>3. CASE i - Len(s) \in 1..Len(t)
    <3>1. (s \o t)[i] = t[i - Len(s)]
      BY <1>1, <2>3
    <3> QED BY <2>3, <3>1 DEF ToSet
  <2> QED BY <2>1, <2>2, <2>3
<1>5. ASSUME NEW x \in ToSet(s) \cup ToSet(t) PROVE x \in ToSet(s \o t)
  <2>1. CASE x \in ToSet(s)
    <3>1. PICK i \in 1..Len(s) : x = s[i]
      BY <2>1 DEF ToSet
    <3> QED BY <1>2, <3>1 DEF ToSet
  <2>2. CASE x \in ToSet(t)
    <3>1. PICK i \in 1..Len(t) : x = t[i]
      BY <2>2 DEF ToSet
    <3> QED BY <1>3, <3>1 DEF ToSet
  <2> QED BY <2>1, <2>2
<1> QED BY <1>1, <1>4, <1>5 DEF ToSet

\* Sequences are joined whole.
LEMMA Flattened ==
  ASSUME NEW X, NEW ss \in Seq(Seq(X))
  PROVE  /\ FlattenSeq(ss) \in Seq(X)
         /\ \A i \in 1..Len(ss) : ToSet(ss[i]) \subseteq ToSet(FlattenSeq(ss))
<1>0. Len(ss) \in Nat /\ \A i \in 1..Len(ss) : ss[i] \in Seq(X)
  OBVIOUS
<1>1. CASE Len(ss) = 0
  BY <1>0, <1>1 DEF FlattenSeq
<1>2. CASE Len(ss) # 0
  <2> DEFINE step(f, i) == IF i = 1 THEN ss[i] ELSE f[i - 1] \o ss[i]
             joins(m) == \E f \in [1..m -> Seq(X)] : \A i \in 1..m : f[i] = step(f, i)
             H == {m \in 0..Len(ss) : joins(m)}
  <2>1. 0 \in H
    <3>1. [i \in 1..0 |-> <<>>] \in [1..0 -> Seq(X)]
      OBVIOUS
    <3>2. PICK g \in [1..0 -> Seq(X)] : TRUE
      BY <3>1
    <3>3. joins(0)
      <4>1. \A i \in 1..0 : g[i] = step(g, i)
        OBVIOUS
      <4> HIDE DEF step
      <4> QED BY <3>2, <4>1
    <3> HIDE DEF joins
    <3> QED BY <1>0, <3>3
  <2>2. ASSUME NEW m \in 1..Len(ss), m - 1 \in H PROVE m \in H
    <3>0. joins(m - 1)
      BY <2>2
    <3>1. PICK g \in [1..(m - 1) -> Seq(X)] : \A i \in 1..(m - 1) : g[i] = step(g, i)
      BY <3>0
    <3>2. step(g, m) \in Seq(X)
      <4>1. ss[m] \in Seq(X)
        BY <1>0
      <4>2. CASE m = 1
        BY <4>1, <4>2
      <4>3. CASE m # 1
        <5>1. g[m - 1] \in Seq(X)
          BY <1>0, <3>1, <4>3
        <5>2. g[m - 1] \o ss[m] \in Seq(X)
          BY <4>1, <5>1
        <5> QED BY <4>3, <5>2
      <4> QED BY <4>2, <4>3
    <3> DEFINE h == [i \in 1..m |-> IF i = m THEN step(g, m) ELSE g[i]]
    <3>3. h \in [1..m -> Seq(X)]
      BY <1>0, <3>1, <3>2
    <3>4. \A i \in 1..m : h[i] = step(h, i)
      <4> SUFFICES ASSUME NEW i \in 1..m PROVE h[i] = step(h, i)
        OBVIOUS
      <4>1. i # 1 => i - 1 \in 1..m /\ i - 1 # m /\ h[i - 1] = g[i - 1]
        BY <1>0
      <4>2. step(h, i) = step(g, i)
        BY <4>1
      <4>3. CASE i = m
        BY <4>2, <4>3
      <4>4. CASE i # m
        <5>1. i \in 1..(m - 1) /\ h[i] = g[i]
          BY <1>0, <4>4
        <5> QED BY <3>1, <4>2, <5>1
      <4> QED BY <4>3, <4>4
    <3>5. joins(m)
      <4> HIDE DEF h
      <4> QED BY <3>3, <3>4
    <3> HIDE DEF joins
    <3> QED BY <1>0, <3>5
  <2>3. Len(ss) \in H
    <3>1. H \in SUBSET Nat
      OBVIOUS
    <3> HIDE DEF H
    <3>2. 0..Len(ss) \subseteq H
      BY <1>0, <2>1, <2>2, <3>1, UpTo
    <3> QED BY <1>0, <3>2
  <2>4. PICK f \in [1..Len(ss) -> Seq(X)] : \A i \in 1..Len(ss) : f[i] = step(f, i)
    BY <2>3
  <2> DEFINE flatten == CHOOSE g : g = [i \in 1..Len(ss) |->
                                          IF i = 1 THEN ss[i] ELSE g[i - 1] \o ss[i]]
  <2>5. flatten = [i \in 1..Len(ss) |-> IF i = 1 THEN ss[i] ELSE flatten[i - 1] \o ss[i]]
    <3>1. f = [i \in 1..Len(ss) |-> IF i = 1 THEN ss[i] ELSE f[i - 1] \o ss[i]]
      BY <2>4
    <3> QED BY <3>1
  <2>6. FlattenSeq(ss) = flatten[Len(ss)]
    BY <1>2 DEF FlattenSeq
  <2>7. \A i \in 1..Len(ss) : flatten[i] = step(flatten, i)
    BY <2>5
  <2> HIDE DEF flatten
  <2> DEFINE G == {m \in 0..Len(ss) : m = 0 \/
                     /\ flatten[m] \in Seq(X)
                     /\ \A i \in 1..m : ToSet(ss[i]) \subseteq ToSet(flatten[m])}
  <2>8. 0 \in G
    BY <1>0
  <2>9. ASSUME NEW m \in 1..Len(ss), m - 1 \in G PROVE m \in G
    <3>0. ss[m] \in Seq(X)
      BY <1>0
    <3>1. CASE m = 1
      <4>1. flatten[m] = ss[m]
        BY <2>7, <3>1
      <4>2. \A i \in 1..m : i = m
        BY <3>1
      <4>3. \A i \in 1..m : ToSet(ss[i]) \subseteq ToSet(flatten[m])
        BY <4>1, <4>2
      <4>4. m \in 0..Len(ss) /\ flatten[m] \in Seq(X)
        BY <1>0, <3>0, <4>1
      <4> QED BY <4>3, <4>4
    <3>2. CASE m # 1
      <4>1. m - 1 # 0 /\ m - 1 \in 1..Len(ss)
        BY <1>0, <3>2
      <4>2. /\ flatten[m - 1] \in Seq(X)
            /\ \A i \in 1..(m - 1) : ToSet(ss[i]) \subseteq ToSet(flatten[m - 1])
        BY <2>9, <4>1
      <4>3. flatten[m] = flatten[m - 1] \o ss[m]
        BY <2>7, <3>2
      <4>4. /\ flatten[m] \in Seq(X)
            /\ ToSet(flatten[m]) = ToSet(flatten[m - 1]) \cup ToSet(ss[m])
        BY <3>0, <4>2, <4>3, CallJoined
      <4>5. \A i \in 1..m : i = m \/ i \in 1..(m - 1)
        BY <1>0
      <4>6. \A i \in 1..m : ToSet(ss[i]) \subseteq ToSet(flatten[m])
        BY <4>2, <4>4, <4>5
      <4> QED BY <1>0, <4>4, <4>6
    <3> QED BY <3>1, <3>2
  <2>10. Len(ss) \in G
    <3>1. G \in SUBSET Nat
      OBVIOUS
    <3> HIDE DEF G
    <3>2. 0..Len(ss) \subseteq G
      BY <1>0, <2>8, <2>9, <3>1, UpTo
    <3> QED BY <1>0, <3>2
  <2> QED BY <1>2, <2>6, <2>10
<1> QED BY <1>1, <1>2

\* What a deferred call is: no eviction and no removal closes a server.
Deferred == [do: {"close"}, to: Clients, of: Clients]
              \cup [do: {"end"}, to: Servers, of: Clients]

\* The reasons for which the server's connection may end.
Reasons == {Left, Relay} \cup {c \in Clients : Role[c] = "controller" /\ Display[c] = Primary}

HubTypeOK ==
  /\ sock \in [Conn -> {"none", "open", "lost", "closed"}]
  /\ peers \in SUBSET Conn /\ IsFiniteSet(peers)
  /\ pc \in [Conn -> Places]
  /\ sessions \in [Clients -> Servers \cup {None}]
  /\ callee \in [Clients -> Servers \cup {None}]
  /\ paired \in SUBSET Conn
  /\ todo \in [Conn -> Seq(Deferred)]
  /\ told \in [Servers -> SUBSET Clients]
  /\ why \in [Servers -> Reasons \cup {None}]

\* Who is where: a deferred call is flushed before its handler goes on; a
\* registered client has said HELLO; and a server, which nobody evicts, is
\* registered for as long as its handler serves.
Posted ==
  /\ \A p \in Conn : pc[p] \notin {"flush", "refused", "closing"} => todo[p] = <<>>
  /\ \A p \in Conn : sock[p] = "none" => pc[p] = "new"
  /\ \A p \in peers : pc[p] \notin {"new", "hello"}
  /\ \A s \in Servers : /\ pc[s] \notin {"refused", "ok", "start", "cleanup"}
                        /\ pc[s] \in {"flush", "popping", "loop"} => s \in peers

HInv == HubTypeOK /\ Posted

\* A server's handler does not go to pop it before its socket is gone.
Excused ==
  \A s \in Servers :
    (sock[s] \in {"lost", "closed"} \/ pc[s] \in {"popping", "ending", "closing", "done"})
      => why[s] \in Reasons

\* A client whose SESSION is being served is not paired yet, and a server was
\* told of nobody before it registered.
Unpaired ==
  /\ \A c \in Clients : pc[c] \in {"ok", "start"} => c \notin paired
  /\ \A s \in Servers : pc[s] \in {"new", "hello"} => told[s] = {}

\* Whom a server with an open socket was told of: the client it is about to be
\* in a session with, one it is in a session with, one whose SESSION_END is
\* deferred, or one that was evicted too early.
SessionOwed ==
  \A s \in peers \cap Servers : sock[s] = "open" =>
    \A c \in told[s] :
      \/ c \in missed
      \/ pc[c] = "start" /\ callee[c] = s
      \/ c \in peers \cap paired /\ sessions[c] = s
      \/ \E q \in Conn : End(s, c) \in ToSet(todo[q])

LEMMA One ==
  ASSUME NEW X, NEW x \in X
  PROVE  <<x>> \in Seq(X) /\ x \in ToSet(<<x>>)
<1>1. <<x>>[1] = x /\ 1 \in DOMAIN <<x>>
  OBVIOUS
<1> QED BY <1>1 DEF ToSet

LEMMA DeferredCalls ==
  /\ \A d \in Deferred : d.do \in {"close", "end"} /\ d.of \in Clients
  /\ \A d \in Deferred : d.do = "close" => d.to \in Clients
  /\ \A d \in Deferred : d.do = "end" => d.to \in Servers
  /\ \A p \in Clients : Close(p) \in Deferred
  /\ \A s \in Servers, c \in Clients : End(s, c) \in Deferred
BY DEF Deferred, Close, End

LEMMA FarewellOf ==
  ASSUME HubTypeOK, NEW p \in Clients
  PROVE  /\ Farewell(p) \in Seq(Deferred)
         /\ sock[p] # "closed" => Close(p) \in ToSet(Farewell(p))
         /\ sessions[p] \in peers => End(sessions[p], p) \in ToSet(Farewell(p))
<1> DEFINE closes == IF p \in Live({p}) THEN <<Close(p)>> ELSE <<>>
           ends == IF sessions[p] \in peers THEN <<End(sessions[p], p)>> ELSE <<>>
<1>1. closes \in Seq(Deferred) /\ (sock[p] # "closed" => Close(p) \in ToSet(closes))
  <2>1. Close(p) \in Deferred
    BY DeferredCalls
  <2>2. CASE p \in Live({p})
    <3>1. closes = <<Close(p)>>
      BY <2>2
    <3> QED BY <2>1, <3>1, One, Zenon
  <2>3. CASE p \notin Live({p})
    BY <2>3 DEF Live
  <2> QED BY <2>2, <2>3
<1>2. ends \in Seq(Deferred) /\ (sessions[p] \in peers => End(sessions[p], p) \in ToSet(ends))
  <2>1. CASE sessions[p] \in peers
    <3>1. sessions[p] \in Servers
      BY <2>1, Kinds DEF HubTypeOK
    <3>2. End(sessions[p], p) \in Deferred
      BY <3>1, DeferredCalls
    <3>3. ends = <<End(sessions[p], p)>>
      BY <2>1
    <3> QED BY <3>2, <3>3, One, Zenon
  <2>2. CASE sessions[p] \notin peers
    BY <2>2
  <2> QED BY <2>1, <2>2
<1>3. Farewell(p) = closes \o ends
  BY DEF Farewell
<1> HIDE DEF closes, ends
<1>4. Farewell(p) \in Seq(Deferred) /\ ToSet(Farewell(p)) = ToSet(closes) \cup ToSet(ends)
  BY <1>1, <1>2, <1>3, CallJoined
<1> QED BY <1>1, <1>2, <1>4

LEMMA FarewellsOf ==
  ASSUME HubTypeOK, NEW E \in SUBSET (peers \cap Clients)
  PROVE  /\ Farewells(E) \in Seq(Deferred)
         /\ \A p \in E : sock[p] # "closed" => Close(p) \in ToSet(Farewells(E))
         /\ \A p \in E : sessions[p] \in peers => End(sessions[p], p) \in ToSet(Farewells(E))
<1> DEFINE n == Cardinality(E)
           list == SetToSeq(E)
           each == [i \in 1..n |-> Farewell(list[i])]
<1>1. IsFiniteSet(E)
  BY FS_Subset DEF HubTypeOK
<1>2. n \in Nat /\ list \in [1..n -> E] /\ \A p \in E : \E i \in 1..n : list[i] = p
  BY <1>1, Listed
<1>3. \A i \in 1..n : Farewell(list[i]) \in Seq(Deferred)
  BY <1>2, FarewellOf
<1>4. each \in Seq(Seq(Deferred)) /\ Len(each) = n
  BY <1>2, <1>3
<1>5. Farewells(E) = FlattenSeq(each)
  BY DEF Farewells
<1>6. \A i \in 1..n : each[i] = Farewell(list[i])
  BY <1>2
<1> HIDE DEF each, list, n
<1>7. /\ Farewells(E) \in Seq(Deferred)
      /\ \A i \in 1..n : ToSet(each[i]) \subseteq ToSet(Farewells(E))
  BY <1>4, <1>5, Flattened
<1>8. ASSUME NEW p \in E PROVE ToSet(Farewell(p)) \subseteq ToSet(Farewells(E))
  BY <1>2, <1>6, <1>7
<1> QED BY <1>7, <1>8, FarewellOf

\* hello_peer of a client that is over: whom it evicted, what it deferred.
LEMMA Hello ==
  ASSUME HInv, NEW c \in Clients, ClientHello(c)
  PROVE  \E E \in SUBSET (peers \cap Clients), list \in Seq(Deferred) :
           /\ pc[c] = "hello" /\ todo' = [todo EXCEPT ![c] = list]
           /\ \A p \in E : sock[p] # "closed" => Close(p) \in ToSet(list)
           /\ \A p \in E : sessions[p] \in peers => End(sessions[p], p) \in ToSet(list)
           /\ sessions' = [x \in Clients |-> IF x \in E THEN None ELSE sessions[x]]
           /\ paired' = paired \ E
           /\ UNCHANGED <<callee, told, missed, why>>
           /\ \/ /\ peers' = peers \ E /\ sock' = [sock EXCEPT ![c] = "closed"]
                 /\ pc' = [pc EXCEPT ![c] = "refused"]
              \/ /\ peers' = (peers \ E) \cup {c} /\ sock' = sock
                 /\ pc' = [pc EXCEPT ![c] = "flush"]
<1>1. pc[c] = "hello"
  BY DEF ClientHello
<1>2. /\ Rivals(c) \in SUBSET (peers \cap Clients)
      /\ Controllers(c) \in SUBSET (peers \cap Clients)
      /\ DeadControllers(c) \in SUBSET (peers \cap Clients)
  BY DEF Rivals, Controllers, DeadControllers
<1>3. PICK E1 \in SUBSET (peers \cap Clients), E2 \in SUBSET (peers \cap Clients) :
        Refuse(c, E1, E2) \/ Register(c, E1, E2)
  <2>1. CASE Refuse(c, {}, {})
    BY <2>1
  <2>2. CASE Refuse(c, Rivals(c), IF Role[c] = "viewer" /\ ~StrictRefused(c)
                                  THEN DeadControllers(c) ELSE {})
    BY <1>2, <2>2
  <2>3. CASE Register(c, Rivals(c), IF Role[c] = "controller" THEN Controllers(c) ELSE {})
    BY <1>2, <2>3
  <2> QED BY <2>1, <2>2, <2>3 DEF ClientHello
<1>4. Evict(c, E1, E2)
  BY <1>3 DEF Refuse, Register
<1>5. PICK E : E = E1 \cup E2
  OBVIOUS
<1>6. PICK list : list = Farewells(E1) \o Farewells(E2)
  OBVIOUS
<1>7. HubTypeOK
  BY DEF HInv
<1>8. /\ list \in Seq(Deferred)
      /\ ToSet(list) = ToSet(Farewells(E1)) \cup ToSet(Farewells(E2))
  BY <1>6, <1>7, FarewellsOf, CallJoined
<1>9. \A p \in E : /\ sock[p] # "closed" => Close(p) \in ToSet(list)
                   /\ sessions[p] \in peers => End(sessions[p], p) \in ToSet(list)
  <2>1. \A p \in E1 : /\ sock[p] # "closed" => Close(p) \in ToSet(Farewells(E1))
                      /\ sessions[p] \in peers => End(sessions[p], p) \in ToSet(Farewells(E1))
    BY <1>7, FarewellsOf
  <2>2. \A p \in E2 : /\ sock[p] # "closed" => Close(p) \in ToSet(Farewells(E2))
                      /\ sessions[p] \in peers => End(sessions[p], p) \in ToSet(Farewells(E2))
    BY <1>7, FarewellsOf
  <2> QED BY <1>5, <1>8, <2>1, <2>2
<1>10. /\ todo' = [todo EXCEPT ![c] = list]
       /\ sessions' = [x \in Clients |-> IF x \in E THEN None ELSE sessions[x]]
       /\ paired' = paired \ E
       /\ UNCHANGED <<callee, told, missed, why>>
  BY <1>4, <1>5, <1>6 DEF Evict
<1>11. \/ /\ peers' = peers \ E /\ sock' = [sock EXCEPT ![c] = "closed"]
          /\ pc' = [pc EXCEPT ![c] = "refused"]
       \/ /\ peers' = (peers \ E) \cup {c} /\ sock' = sock
          /\ pc' = [pc EXCEPT ![c] = "flush"]
  BY <1>3, <1>5 DEF Refuse, Register
<1>12. E \in SUBSET (peers \cap Clients)
  BY <1>5
<1> QED BY <1>1, <1>8, <1>9, <1>10, <1>11, <1>12

\* The second half of remove_peer defers closes only.
LEMMA RemovedIs ==
  ASSUME HInv, NEW p \in Conn, Removed(p)
  PROVE  \E list \in Seq(Deferred) :
           /\ todo' = [todo EXCEPT ![p] = list]
           /\ peers' = peers \ {p} /\ paired' = paired \ {p}
           /\ pc' = [pc EXCEPT ![p] = "closing"]
<1> DEFINE closes == [i \in 1..Cardinality(peers \cap Clients) |->
                        Close(SetToSeq(peers \cap Clients)[i])]
<1>1. closes \in Seq(Deferred)
  <2>1. IsFiniteSet(peers \cap Clients)
    BY FS_Subset DEF HInv, HubTypeOK
  <2>2. PICK n, all : n = Cardinality(peers \cap Clients) /\ all = SetToSeq(peers \cap Clients)
    OBVIOUS
  <2>3. n \in Nat /\ all \in [1..n -> peers \cap Clients]
    BY <2>1, <2>2, Listed
  <2>4. \A i \in 1..n : Close(all[i]) \in Deferred
    BY <2>3, DeferredCalls
  <2>5. closes = [i \in 1..n |-> Close(all[i])]
    BY <2>2
  <2>6. [i \in 1..n |-> Close(all[i])] \in Seq(Deferred)
    BY <2>3, <2>4
  <2> QED BY <2>5, <2>6, Zenon
<1>2. <<>> \in Seq(Deferred)
  OBVIOUS
<1>3. p \notin Servers => <<Close(p)>> \in Seq(Deferred)
  <2> SUFFICES ASSUME p \notin Servers PROVE <<Close(p)>> \in Seq(Deferred)
    OBVIOUS
  <2>1. Close(p) \in Deferred
    BY DeferredCalls DEF Conn
  <2> QED BY <2>1, One
<1>4. /\ todo' = [todo EXCEPT ![p] = IF p \notin peers THEN <<>>
                                     ELSE IF p \in Servers THEN closes ELSE <<Close(p)>>]
      /\ peers' = peers \ {p} /\ paired' = paired \ {p}
      /\ pc' = [pc EXCEPT ![p] = "closing"]
  BY DEF Removed
<1> HIDE DEF closes
<1> QED BY <1>1, <1>2, <1>3, <1>4

-----------------------------------------------------------------------------
(* Where connections, servers and deferred calls are                        *)

LEMMA StillFinite ==
  ASSUME HubTypeOK, NEW c \in Conn, peers' \subseteq peers \cup {c}
  PROVE  peers' \in SUBSET Conn /\ IsFiniteSet(peers')
<1>1. IsFiniteSet(peers \cup {c})
  BY FS_AddElement DEF HubTypeOK
<1>2. IsFiniteSet(peers')
  BY <1>1, FS_Subset
<1> QED BY <1>2 DEF HubTypeOK

LEMMA HStart == Init => HInv
<1> SUFFICES ASSUME Init PROVE HInv
  OBVIOUS
<1>1. IsFiniteSet({}) /\ <<>> \in Seq(Deferred)
  BY FS_EmptySet
<1>2. HubTypeOK
  BY <1>1 DEF Init, HubTypeOK, Places
<1>3. Posted
  BY Kinds DEF Init, Posted, Conn
<1> QED BY <1>2, <1>3 DEF HInv

\* A handler is moved, nothing else of what HInv speaks of.
LEMMA HMove ==
  ASSUME HInv, NEW p \in Conn, NEW to \in Places, pc' = [pc EXCEPT ![p] = to],
         UNCHANGED <<sock, peers, todo>>,
         sessions' \in [Clients -> Servers \cup {None}],
         callee' \in [Clients -> Servers \cup {None}],
         paired' \in SUBSET Conn,
         told' \in [Servers -> SUBSET Clients],
         why' \in [Servers -> Reasons \cup {None}],
         pc[p] \in {"flush", "popping", "loop", "ok", "start", "ending", "cleanup", "closing"},
         to \in {"popping", "loop", "ok", "start", "ending", "cleanup"},
         todo[p] = <<>>,
         p \in Servers => /\ to \in {"popping", "loop", "ending"}
                          /\ pc[p] = "flush" \/ to = "ending"
  PROVE  HInv'
<1>1. HubTypeOK'
  BY DEF HInv, HubTypeOK
<1>2. Posted'
  BY DEF HInv, HubTypeOK, Posted, Conn
<1> QED BY <1>1, <1>2 DEF HInv

LEMMA HHandshake ==
  ASSUME HInv, NEW p \in Conn,
         Connect(p) \/ Leave(p) \/ Flush(p) \/ Greet(p) \/ GreetFails(p) \/ Pop(p)
           \/ HandshakeFailed(p)
  PROVE  HInv'
<1>0. HubTypeOK /\ Posted
  BY DEF HInv
<1>1. CASE Connect(p)
  <2>1. /\ pc[p] = "new" /\ sock' = [sock EXCEPT ![p] = "open"]
        /\ pc' = [pc EXCEPT ![p] = "hello"]
        /\ UNCHANGED <<peers, sessions, callee, paired, told, todo, why>>
    BY <1>1 DEF Connect, hub
  <2>2. HubTypeOK'
    BY <1>0, <2>1 DEF HubTypeOK, Places
  <2>3. Posted'
    BY <1>0, <2>1, Kinds DEF HubTypeOK, Posted, Conn
  <2> QED BY <2>2, <2>3 DEF HInv
<1>2. CASE Leave(p)
  <2>1. /\ sock[p] = "open" /\ sock' = [sock EXCEPT ![p] = "lost"]
        /\ why' = IF p \in Servers /\ why[p] = None THEN [why EXCEPT ![p] = Left] ELSE why
        /\ UNCHANGED <<peers, pc, sessions, callee, paired, told, todo>>
    BY <1>2 DEF Leave, hub
  <2>2. HubTypeOK'
    BY <1>0, <2>1 DEF HubTypeOK, Reasons
  <2>3. Posted'
    BY <1>0, <2>1 DEF HubTypeOK, Posted
  <2> QED BY <2>2, <2>3 DEF HInv
<1>3. CASE Flush(p)
  <2>1. PICK d : d = Head(todo[p])
    OBVIOUS
  <2>2. /\ todo[p] # <<>> /\ pc[p] \in {"flush", "refused", "closing"}
        /\ sock' = IF d.do = "close" THEN [sock EXCEPT ![d.to] = "closed"] ELSE sock
        /\ told' = IF d.do = "end" /\ Passes(d.to)
                   THEN [told EXCEPT ![d.to] = @ \ {d.of}] ELSE told
        /\ todo' = [todo EXCEPT ![p] = Tail(@)]
        /\ UNCHANGED <<peers, pc, sessions, callee, paired, why>>
    BY <1>3, <2>1 DEF Flush
  <2>3. todo[p] \in Seq(Deferred) /\ d \in Deferred /\ Tail(todo[p]) \in Seq(Deferred)
    BY <1>0, <2>1, <2>2 DEF HubTypeOK
  <2>4. sock' \in [Conn -> {"none", "open", "lost", "closed"}]
        /\ \A q \in Conn : sock'[q] = "none" => sock[q] = "none"
    BY <1>0, <2>2 DEF HubTypeOK
  <2>5. told' \in [Servers -> SUBSET Clients]
    BY <1>0, <2>2 DEF HubTypeOK
  <2>6. todo' \in [Conn -> Seq(Deferred)] /\ \A q \in Conn : q # p => todo'[q] = todo[q]
    BY <1>0, <2>2, <2>3 DEF HubTypeOK
  <2>7. HubTypeOK'
    BY <1>0, <2>2, <2>4, <2>5, <2>6 DEF HubTypeOK
  <2>8. Posted'
    BY <1>0, <2>2, <2>4, <2>6 DEF Posted
  <2> QED BY <2>7, <2>8 DEF HInv
<1>4. CASE Greet(p) \/ GreetFails(p)
  <2>1. todo[p] = <<>> /\ pc[p] = "flush"
    BY <1>4 DEF Greet, GreetFails
  <2>2. "loop" \in Places /\ "popping" \in Places
    BY DEF Places
  <2>3. UNCHANGED <<sock, peers, todo, sessions, callee, paired, told, why>>
    BY <1>4 DEF Greet, GreetFails, hub
  <2> QED BY <1>0, <1>4, <2>1, <2>2, <2>3, HMove DEF Greet, GreetFails, HubTypeOK
<1>5. CASE Pop(p)
  <2>1. /\ pc[p] = "popping" /\ peers' = peers \ {p} /\ paired' = paired \ {p}
        /\ pc' = [pc EXCEPT ![p] = "done"] /\ sock' = [sock EXCEPT ![p] = "closed"]
        /\ UNCHANGED <<sessions, callee, told, todo, why>>
    BY <1>5 DEF Pop, Returns
  <2>2. IsFiniteSet(peers') /\ peers' \in SUBSET Conn
    BY <1>0, <2>1, StillFinite
  <2>3. HubTypeOK'
    BY <1>0, <2>1, <2>2 DEF HubTypeOK, Places
  <2>4. Posted'
    BY <1>0, <2>1 DEF HubTypeOK, Posted, Conn
  <2> QED BY <2>3, <2>4 DEF HInv
<1>6. CASE HandshakeFailed(p)
  <2>1. /\ pc[p] = "refused" /\ todo[p] = <<>>
        /\ pc' = [pc EXCEPT ![p] = "done"] /\ sock' = [sock EXCEPT ![p] = "closed"]
        /\ UNCHANGED <<peers, sessions, callee, paired, told, todo, why>>
    BY <1>6 DEF HandshakeFailed, Returns, hub
  <2>2. HubTypeOK'
    BY <1>0, <2>1 DEF HubTypeOK, Places
  <2>3. Posted'
    BY <1>0, <2>1 DEF HubTypeOK, Posted, Conn
  <2> QED BY <2>2, <2>3 DEF HInv
<1> QED BY <1>1, <1>2, <1>3, <1>4, <1>5, <1>6

LEMMA HHello ==
  ASSUME HInv, \/ \E c \in Clients : ClientHello(c)
               \/ \E s \in Servers : ServerHello(s)
               \/ \E k \in Keys : Forget(k)
               \/ UNCHANGED vars
  PROVE  HInv'
<1>0. HubTypeOK /\ Posted
  BY DEF HInv
<1>1. ASSUME NEW c \in Clients, ClientHello(c) PROVE HInv'
  <2>1. PICK E \in SUBSET (peers \cap Clients), list \in Seq(Deferred) :
          /\ pc[c] = "hello" /\ todo' = [todo EXCEPT ![c] = list]
          /\ sessions' = [x \in Clients |-> IF x \in E THEN None ELSE sessions[x]]
          /\ paired' = paired \ E
          /\ UNCHANGED <<callee, told, missed, why>>
          /\ \/ /\ peers' = peers \ E /\ sock' = [sock EXCEPT ![c] = "closed"]
                /\ pc' = [pc EXCEPT ![c] = "refused"]
             \/ /\ peers' = (peers \ E) \cup {c} /\ sock' = sock
                /\ pc' = [pc EXCEPT ![c] = "flush"]
    BY <1>1, Hello
  <2>2. c \in Conn
    BY DEF Conn
  <2>3. IsFiniteSet(peers') /\ peers' \in SUBSET Conn
    BY <1>0, <2>1, <2>2, StillFinite
  <2>4. HubTypeOK'
    <3>1. sessions' \in [Clients -> Servers \cup {None}]
      BY <1>0, <2>1 DEF HubTypeOK
    <3>2. sock' \in [Conn -> {"none", "open", "lost", "closed"}] /\ pc' \in [Conn -> Places]
      BY <1>0, <2>1 DEF HubTypeOK, Places
    <3>3. todo' \in [Conn -> Seq(Deferred)] /\ paired' \in SUBSET Conn
      BY <1>0, <2>1 DEF HubTypeOK
    <3> QED BY <1>0, <2>1, <2>3, <3>1, <3>2, <3>3 DEF HubTypeOK
  <2>5. /\ \A q \in Conn \ {c} : pc'[q] = pc[q] /\ todo'[q] = todo[q]
        /\ pc'[c] \in {"flush", "refused"} /\ c \notin Servers
        /\ \A q \in Conn : sock'[q] = "none" => sock[q] = "none"
        /\ peers' \subseteq peers \cup {c} /\ (c \in peers' => pc'[c] = "flush")
    <3>1. c \notin Servers /\ c \notin peers
      BY <1>0, <2>1, Kinds DEF Posted
    <3> QED BY <1>0, <2>1, <2>2, <3>1 DEF HubTypeOK
  <2>6. \A s \in Servers : s \in peers => s \in peers'
    BY <2>1, Kinds
  <2>7. Posted'
    <3>1. /\ \A q \in Conn : pc[q] \notin {"flush", "refused", "closing"} => todo[q] = <<>>
          /\ \A q \in Conn : sock[q] = "none" => pc[q] = "new"
          /\ \A q \in peers : pc[q] \notin {"new", "hello"}
      BY <1>0 DEF Posted
    <3>2. \A q \in Conn : pc'[q] \notin {"flush", "refused", "closing"} => todo'[q] = <<>>
      BY <2>5, <3>1
    <3>3. \A q \in Conn : sock'[q] = "none" => pc'[q] = "new"
      <4>1. sock[c] # "none"
        BY <2>1, <2>2, <3>1
      <4> QED BY <2>5, <3>1, <4>1
    <3>4. \A q \in peers' : pc'[q] \notin {"new", "hello"}
      BY <2>3, <2>5, <3>1
    <3>5. \A s \in Servers : /\ pc'[s] \notin {"refused", "ok", "start", "cleanup"}
                             /\ pc'[s] \in {"flush", "popping", "loop"} => s \in peers'
      <4>1. \A s \in Servers : s \in Conn \ {c}
        BY <2>5 DEF Conn
      <4> QED BY <1>0, <2>5, <2>6, <4>1 DEF Posted
    <3> QED BY <3>2, <3>3, <3>4, <3>5 DEF Posted
  <2> QED BY <2>4, <2>7 DEF HInv
<1>2. ASSUME NEW s \in Servers, ServerHello(s) PROVE HInv'
  <2>1. /\ pc[s] = "hello" /\ peers' = peers \cup {s} /\ pc' = [pc EXCEPT ![s] = "flush"]
        /\ UNCHANGED <<sock, sessions, callee, paired, told, todo, why>>
    BY <1>2 DEF ServerHello, hub
  <2>2. s \in Conn
    BY DEF Conn
  <2>3. IsFiniteSet(peers') /\ peers' \in SUBSET Conn
    BY <1>0, <2>1, <2>2, StillFinite
  <2>4. HubTypeOK'
    BY <1>0, <2>1, <2>3 DEF HubTypeOK, Places
  <2>5. Posted'
    BY <1>0, <2>1, <2>2 DEF HubTypeOK, Posted, Conn
  <2> QED BY <2>4, <2>5 DEF HInv
<1>3. ASSUME UNCHANGED <<sock, peers, pc, sessions, callee, paired, told, todo, why>>
      PROVE  HInv'
  BY <1>0, <1>3 DEF HInv, HubTypeOK, Posted
<1> QED BY <1>1, <1>2, <1>3 DEF Forget, hub, vars

\* The message loop.
LEMMA HServe ==
  ASSUME HInv,
         \/ \E p \in Conn : Notice(p) \/ Unknown(p)
         \/ \E s \in Servers : ServerRelayFails(s)
         \/ \E c \in Clients : \/ ClientRelayFails(c) \/ SessionAsked(c)
                               \/ SessionOk(c) \/ SessionFails(c) \/ SessionStored(c)
  PROVE  HInv'
<1>0. HubTypeOK /\ Posted
  BY DEF HInv
<1>1. ASSUME NEW p \in Conn, LoopEnds(p), pc[p] \in {"loop", "ok"},
             why' \in [Servers -> Reasons \cup {None}], sock' = sock
      PROVE  HInv'
  <2>1. todo[p] = <<>> /\ "ending" \in Places
    BY <1>0, <1>1 DEF Posted, Places
  <2>2. UNCHANGED <<peers, todo, sessions, callee, paired, told>>
        /\ pc' = [pc EXCEPT ![p] = "ending"]
    BY <1>1 DEF LoopEnds, hub
  <2> QED BY <1>0, <1>1, <2>1, <2>2, HMove DEF HubTypeOK
<1>2. ASSUME NEW p \in Conn, Notice(p) PROVE HInv'
  <2>1. /\ pc[p] = "loop" /\ sock' = [sock EXCEPT ![p] = "closed"]
        /\ pc' = [pc EXCEPT ![p] = "ending"]
        /\ UNCHANGED <<peers, sessions, callee, paired, told, todo, why>>
    BY <1>2 DEF Notice, LoopEnds, hub
  <2>2. HubTypeOK'
    BY <1>0, <2>1 DEF HubTypeOK, Places
  <2>3. Posted'
    BY <1>0, <2>1 DEF HubTypeOK, Posted, Conn
  <2> QED BY <2>2, <2>3 DEF HInv
<1>3. ASSUME NEW p \in Conn, Unknown(p) PROVE HInv'
  BY <1>0, <1>1, <1>3 DEF Unknown, HubTypeOK
<1>4. ASSUME NEW s \in Servers, ServerRelayFails(s) PROVE HInv'
  <2>1. why' \in [Servers -> Reasons \cup {None}]
    BY <1>0, <1>4 DEF ServerRelayFails, HubTypeOK, Reasons
  <2> QED BY <1>1, <1>4, <2>1 DEF ServerRelayFails, Conn
<1>5. ASSUME NEW c \in Clients, ClientRelayFails(c) \/ SessionFails(c) PROVE HInv'
  BY <1>0, <1>1, <1>5 DEF ClientRelayFails, SessionFails, HubTypeOK, Conn
<1>6. ASSUME NEW c \in Clients, SessionAsked(c) \/ SessionOk(c) \/ SessionStored(c)
      PROVE  HInv'
  <2>1. PICK to \in {"loop", "ok", "start"} : pc' = [pc EXCEPT ![c] = to]
    BY <1>6 DEF SessionAsked, SessionOk, SessionStored
  <2>2. /\ pc[c] \in {"loop", "ok", "start"} /\ c \in Conn /\ c \notin Servers
        /\ todo[c] = <<>> /\ to \in Places
    <3>1. c \in Conn /\ c \notin Servers
      BY Kinds DEF Conn
    <3>2. pc[c] \in {"loop", "ok", "start"}
      BY <1>6 DEF SessionAsked, SessionOk, SessionStored
    <3> QED BY <1>0, <2>1, <3>1, <3>2 DEF Posted, Places
  <2>3. UNCHANGED <<sock, peers, todo, why>>
    BY <1>6 DEF SessionAsked, SessionOk, SessionStored
  <2>4. callee' \in [Clients -> Servers \cup {None}]
    <3>1. CASE SessionAsked(c)
      <4>1. peers \cap Servers # {} /\ callee' = [callee EXCEPT ![c] = Min(peers \cap Servers)]
        BY <3>1 DEF SessionAsked
      <4>2. peers \cap Servers \in SUBSET Nat
        BY DEF Servers
      <4>3. \E n \in peers \cap Servers : \A m \in peers \cap Servers : n <= m
        BY <4>1, <4>2, LeastNumber
      <4>4. Min(peers \cap Servers) \in Servers
        BY <4>3 DEF Min
      <4> QED BY <1>0, <4>1, <4>4 DEF HubTypeOK
    <3>2. CASE ~SessionAsked(c)
      BY <1>0, <1>6, <3>2 DEF SessionOk, SessionStored, HubTypeOK
    <3> QED BY <3>1, <3>2
  <2>5. /\ sessions' \in [Clients -> Servers \cup {None}]
        /\ paired' \in SUBSET Conn /\ told' \in [Servers -> SUBSET Clients]
    <3>1. CASE SessionAsked(c)
      BY <1>0, <3>1 DEF SessionAsked, HubTypeOK
    <3>2. CASE SessionOk(c)
      <4>1. UNCHANGED <<sessions, paired>>
        BY <3>2 DEF SessionOk
      <4>2. CASE callee[c] \notin peers
        BY <1>0, <3>2, <4>1, <4>2 DEF SessionOk, HubTypeOK
      <4>3. CASE callee[c] \in peers
        <5>1. callee[c] \in Servers
          BY <1>0, <4>3, Kinds DEF HubTypeOK
        <5>2. told' = [told EXCEPT ![callee[c]] = told[callee[c]] \cup {c}]
          BY <3>2, <4>3 DEF SessionOk
        <5> QED BY <1>0, <4>1, <5>1, <5>2 DEF HubTypeOK
      <4> QED BY <4>2, <4>3
    <3>3. CASE SessionStored(c)
      <4>1. /\ sessions' = [sessions EXCEPT ![c] = callee[c]]
            /\ paired' = paired \cup ({c, callee[c]} \cap peers) /\ told' = told
        BY <3>3 DEF SessionStored
      <4>2. callee[c] \in Servers \cup {None}
        BY <1>0 DEF HubTypeOK
      <4> QED BY <1>0, <4>1, <4>2 DEF HubTypeOK
    <3> QED BY <1>6, <3>1, <3>2, <3>3
  <2> QED BY <1>0, <2>1, <2>2, <2>3, <2>4, <2>5, HMove DEF HubTypeOK
<1> QED BY <1>2, <1>3, <1>4, <1>5, <1>6

\* The way out.
LEMMA HCleanup ==
  ASSUME HInv,
         \/ \E p \in Conn : CleanupQuiet(p) \/ Departed(p)
         \/ \E c \in Clients : \/ CleanupCloses(c) \/ CleanupEnds(c)
                               \/ CleanupRaises(c) \/ CleanupGoesOn(c)
  PROVE  HInv'
<1>0. HubTypeOK /\ Posted
  BY DEF HInv
<1>1. ASSUME NEW p \in Conn, SessionDropped(p)
      PROVE  sessions' \in [Clients -> Servers \cup {None}]
  BY <1>0, <1>1 DEF SessionDropped, HubTypeOK
<1>2. ASSUME NEW p \in Conn, Removed(p), UNCHANGED <<sock, callee, told, why>>,
             sessions' \in [Clients -> Servers \cup {None}],
             pc[p] \in {"ending", "cleanup"}
      PROVE  HInv'
  <2>1. PICK list \in Seq(Deferred) :
          /\ todo' = [todo EXCEPT ![p] = list]
          /\ peers' = peers \ {p} /\ paired' = paired \ {p}
          /\ pc' = [pc EXCEPT ![p] = "closing"]
    BY <1>2, RemovedIs
  <2>2. IsFiniteSet(peers') /\ peers' \in SUBSET Conn
    BY <1>0, <2>1, StillFinite
  <2>3. HubTypeOK'
    BY <1>0, <1>2, <2>1, <2>2 DEF HubTypeOK, Places
  <2>4. Posted'
    BY <1>0, <1>2, <2>1 DEF HubTypeOK, Posted, Conn
  <2> QED BY <2>3, <2>4 DEF HInv
<1>3. ASSUME NEW p \in Conn, CleanupQuiet(p) PROVE HInv'
  BY <1>1, <1>2, <1>3 DEF CleanupQuiet
<1>4. ASSUME NEW p \in Conn, Departed(p) PROVE HInv'
  <2>1. /\ pc[p] = "closing" /\ todo[p] = <<>>
        /\ pc' = [pc EXCEPT ![p] = "done"] /\ sock' = [sock EXCEPT ![p] = "closed"]
        /\ UNCHANGED <<peers, sessions, callee, paired, told, todo, why>>
    BY <1>4 DEF Departed, Returns, hub
  <2>2. HubTypeOK'
    BY <1>0, <2>1 DEF HubTypeOK, Places
  <2>3. Posted'
    BY <1>0, <2>1 DEF HubTypeOK, Posted, Conn
  <2> QED BY <2>2, <2>3 DEF HInv
<1>5. ASSUME NEW c \in Clients, CleanupCloses(c) \/ CleanupEnds(c) PROVE HInv'
  <2>1. c \in Conn /\ c \notin Servers /\ Partner(c) \in Servers
    BY <1>0, <1>5, Kinds DEF CleanupCloses, CleanupEnds, Partner, HubTypeOK, Conn
  <2>2. /\ pc[c] = "ending" /\ pc' = [pc EXCEPT ![c] = "cleanup"]
        /\ UNCHANGED <<peers, callee, paired, todo>> /\ SessionDropped(c)
    BY <1>5 DEF CleanupCloses, CleanupEnds
  <2>3. /\ sock' \in [Conn -> {"none", "open", "lost", "closed"}]
        /\ \A q \in Conn : sock'[q] = "none" => sock[q] = "none"
    BY <1>0, <1>5 DEF CleanupCloses, CleanupEnds, HubTypeOK
  <2>4. told' \in [Servers -> SUBSET Clients]
    <3>1. CASE CleanupCloses(c)
      BY <1>0, <3>1 DEF CleanupCloses, HubTypeOK
    <3>2. CASE CleanupEnds(c)
      <4>1. told' = [told EXCEPT ![Partner(c)] = told[Partner(c)] \ {c}]
        BY <3>2 DEF CleanupEnds
      <4> QED BY <1>0, <2>1, <4>1 DEF HubTypeOK
    <3> QED BY <1>5, <3>1, <3>2
  <2>5. why' \in [Servers -> Reasons \cup {None}]
    <3>1. CASE CleanupCloses(c)
      <4>1. c \in Reasons
        BY <3>1 DEF CleanupCloses, PrimaryController, Reasons
      <4> QED BY <1>0, <3>1, <4>1 DEF CleanupCloses, HubTypeOK
    <3>2. CASE CleanupEnds(c)
      BY <1>0, <3>2 DEF CleanupEnds, HubTypeOK
    <3> QED BY <1>5, <3>1, <3>2
  <2>6. HubTypeOK'
    <3>1. sessions' \in [Clients -> Servers \cup {None}]
      BY <1>1, <2>1, <2>2
    <3> QED BY <1>0, <2>2, <2>3, <2>4, <2>5, <3>1 DEF HubTypeOK, Places
  <2>7. Posted'
    BY <1>0, <2>1, <2>2, <2>3 DEF HubTypeOK, Posted, Conn
  <2> QED BY <2>6, <2>7 DEF HInv
<1>6. ASSUME NEW c \in Clients, CleanupRaises(c) PROVE HInv'
  <2>1. /\ pc[c] = "ending" /\ SessionDropped(c) /\ c \in Conn /\ c \notin Servers
        /\ pc' = [pc EXCEPT ![c] = "done"] /\ sock' = [sock EXCEPT ![c] = "closed"]
        /\ UNCHANGED <<peers, callee, paired, told, todo, why>>
    BY <1>6, Kinds DEF CleanupRaises, Returns, Conn
  <2>2. HubTypeOK'
    BY <1>0, <1>1, <2>1 DEF HubTypeOK, Places
  <2>3. Posted'
    BY <1>0, <2>1 DEF HubTypeOK, Posted, Conn
  <2> QED BY <2>2, <2>3 DEF HInv
<1>7. ASSUME NEW c \in Clients, CleanupGoesOn(c) PROVE HInv'
  <2>1. sessions' = sessions /\ c \in Conn
    BY <1>7 DEF CleanupGoesOn, Conn
  <2> QED BY <1>0, <1>2, <1>7, <2>1 DEF CleanupGoesOn, HubTypeOK
<1> QED BY <1>3, <1>4, <1>5, <1>6, <1>7

LEMMA HStep == HInv /\ [Next]_vars => HInv'
<1> SUFFICES ASSUME HInv, [Next]_vars PROVE HInv'
  OBVIOUS
<1>1. CASE UNCHANGED vars
  BY <1>1, HHello
<1>2. CASE Next
  BY <1>2, HHandshake, HHello, HServe, HCleanup DEF Next
<1> QED BY <1>1, <1>2

LEMMA HAlways == Spec => []HInv
<1> QED BY HStart, HStep, PTL DEF Spec

-----------------------------------------------------------------------------
(* Orphans                                                                  *)

Due(d) == \E q \in Conn : d \in ToSet(todo[q])

\* A handler only defers calls when it has none.
LEMMA Deferring ==
  ASSUME HInv, [Next]_vars
  PROVE  \/ todo' = todo
         \/ \E p \in Conn : Flush(p)
         \/ \E p \in Conn : \E list : todo[p] = <<>> /\ todo' = [todo EXCEPT ![p] = list]
<1>0. Posted
  BY DEF HInv
<1>1. ASSUME NEW p \in Conn, CleanupQuiet(p) \/ (p \in Clients /\ CleanupGoesOn(p))
      PROVE  \E list : todo[p] = <<>> /\ todo' = [todo EXCEPT ![p] = list]
  <2>1. pc[p] \in {"ending", "cleanup"} /\ Removed(p)
    BY <1>1 DEF CleanupQuiet, CleanupGoesOn
  <2>2. PICK list : todo' = [todo EXCEPT ![p] = list]
    BY <2>1, RemovedIs
  <2> QED BY <1>0, <2>1, <2>2 DEF Posted
<1>2. ASSUME NEW c \in Clients, ClientHello(c)
      PROVE  c \in Conn /\ \E list : todo[c] = <<>> /\ todo' = [todo EXCEPT ![c] = list]
  <2>1. PICK list : pc[c] = "hello" /\ todo' = [todo EXCEPT ![c] = list]
    BY <1>2, Hello
  <2> QED BY <1>0, <2>1 DEF Posted, Conn
<1>3. ASSUME NEW p \in Conn,
             \/ Connect(p) \/ Leave(p) \/ Notice(p) \/ Unknown(p) \/ Greet(p)
             \/ GreetFails(p) \/ Pop(p) \/ HandshakeFailed(p) \/ Departed(p)
      PROVE  todo' = todo
  BY <1>3 DEF Connect, Leave, Notice, Unknown, Greet, GreetFails, Pop, HandshakeFailed,
              Departed, LoopEnds
<1>4. ASSUME NEW s \in Servers, ServerHello(s) \/ ServerRelayFails(s) PROVE todo' = todo
  BY <1>4 DEF ServerHello, ServerRelayFails, LoopEnds
<1>5. ASSUME NEW c \in Clients,
             \/ ClientRelayFails(c) \/ SessionAsked(c) \/ SessionOk(c) \/ SessionFails(c)
             \/ SessionStored(c) \/ CleanupCloses(c) \/ CleanupEnds(c) \/ CleanupRaises(c)
      PROVE  todo' = todo
  BY <1>5 DEF ClientRelayFails, SessionAsked, SessionOk, SessionFails, SessionStored,
              CleanupCloses, CleanupEnds, CleanupRaises, LoopEnds
<1>6. ASSUME NEW c \in Clients, CleanupGoesOn(c) PROVE c \in Conn
  BY DEF Conn
<1> QED BY <1>1, <1>2, <1>3, <1>4, <1>5, <1>6 DEF Next, Forget, vars

\* What is deferred stays deferred until it is done.
LEMMA StillDue ==
  ASSUME HInv, [Next]_vars, NEW d, Due(d)
  PROVE  Due(d)' \/ \E p \in Conn : Flush(p) /\ d = Head(todo[p])
<1>0. HubTypeOK
  BY DEF HInv
<1>1. PICK q \in Conn : d \in ToSet(todo[q])
  BY DEF Due
<1>2. CASE todo' = todo
  BY <1>1, <1>2 DEF Due
<1>3. ASSUME NEW p \in Conn, NEW list, todo[p] = <<>>, todo' = [todo EXCEPT ![p] = list]
      PROVE  Due(d)'
  <2>1. q # p
    BY <1>1, <1>3 DEF ToSet
  <2>2. todo'[q] = todo[q]
    BY <1>0, <1>3, <2>1 DEF HubTypeOK
  <2> QED BY <1>1, <2>2 DEF Due
<1>4. ASSUME NEW p \in Conn, Flush(p), d # Head(todo[p]) PROVE Due(d)'
  <2>1. todo[p] # <<>> /\ todo' = [todo EXCEPT ![p] = Tail(todo[p])]
    BY <1>4 DEF Flush
  <2>2. CASE q # p
    <3>1. todo'[q] = todo[q]
      BY <1>0, <2>1, <2>2 DEF HubTypeOK
    <3> QED BY <1>1, <3>1 DEF Due
  <2>3. CASE q = p
    <3>1. todo[p] \in Seq(Deferred)
      BY <1>0 DEF HubTypeOK
    <3>2. PICK i \in 1..Len(todo[p]) : d = todo[p][i]
      BY <1>1, <2>3, <3>1 DEF ToSet
    <3>3. i # 1 /\ i - 1 \in 1..Len(Tail(todo[p])) /\ Tail(todo[p])[i - 1] = d
      BY <1>4, <2>1, <3>1, <3>2
    <3>4. todo'[p] = Tail(todo[p])
      BY <1>0, <2>1 DEF HubTypeOK
    <3>5. d \in ToSet(Tail(todo[p]))
      <4>1. PICK t : t = Tail(todo[p])
        OBVIOUS
      <4>2. t \in Seq(Deferred)
        BY <2>1, <3>1, <4>1
      <4>3. i - 1 \in DOMAIN t /\ t[i - 1] = d
        BY <3>3, <4>1, <4>2
      <4> QED BY <4>1, <4>3, Zenon DEF ToSet
    <3>6. d \in ToSet(todo'[p])
      BY <3>4, <3>5, Zenon
    <3> QED BY <3>6 DEF Due
  <2> QED BY <2>2, <2>3
<1> QED BY <1>2, <1>3, <1>4, Deferring

\* What a step may do to a connection: only a new one is opened; the handler of
\* an open one that leaves the registry is on its way out, or the close is
\* deferred.
Fate(p) ==
  /\ sock'[p] = "open" => sock[p] = "open" \/ pc'[p] = "hello"
  /\ p \in peers \ peers' => \/ pc'[p] = "closing" \/ sock'[p] # "open"
                             \/ Due(Close(p))'
  /\ pc[p] \in {"ending", "closing", "cleanup"} =>
       pc'[p] \in {"ending", "closing", "cleanup"} \/ sock'[p] # "open"
  /\ pc[p] \in {"new", "hello"} => \/ pc'[p] \in {"new", "hello"} \/ p \in peers'
                                   \/ sock'[p] # "open"

LEMMA FateHandshake ==
  ASSUME HInv, NEW p \in Conn, NEW q \in Conn,
         Connect(q) \/ Leave(q) \/ Flush(q) \/ Greet(q) \/ GreetFails(q) \/ Pop(q)
           \/ HandshakeFailed(q)
  PROVE  Fate(p)
<1>0. HubTypeOK
  BY DEF HInv
<1>1. CASE Connect(q)
  <2>1. /\ pc[q] = "new" /\ pc' = [pc EXCEPT ![q] = "hello"]
        /\ sock' = [sock EXCEPT ![q] = "open"] /\ peers' = peers
    BY <1>1 DEF Connect
  <2> QED BY <1>0, <2>1 DEF Fate, HubTypeOK
<1>2. CASE Leave(q)
  BY <1>0, <1>2 DEF Leave, Fate, HubTypeOK
<1>3. CASE Flush(q)
  <2>1. PICK d : d = Head(todo[q])
    OBVIOUS
  <2>2. /\ sock' = IF d.do = "close" THEN [sock EXCEPT ![d.to] = "closed"] ELSE sock
        /\ UNCHANGED <<peers, pc>>
    BY <1>3, <2>1 DEF Flush
  <2> QED BY <1>0, <2>2 DEF Fate, HubTypeOK
<1>4. CASE Greet(q) \/ GreetFails(q)
  <2>1. /\ pc[q] = "flush" /\ UNCHANGED <<peers, sock>>
        /\ pc' = [pc EXCEPT ![q] = "loop"] \/ pc' = [pc EXCEPT ![q] = "popping"]
    BY <1>4 DEF Greet, GreetFails
  <2> QED BY <1>0, <2>1 DEF Fate, HubTypeOK
<1>5. CASE Pop(q) \/ HandshakeFailed(q)
  <2>1. /\ pc[q] \in {"popping", "refused"} /\ peers \ {q} \subseteq peers'
        /\ pc' = [pc EXCEPT ![q] = "done"] /\ sock' = [sock EXCEPT ![q] = "closed"]
    BY <1>5 DEF Pop, HandshakeFailed, Returns
  <2> QED BY <1>0, <2>1 DEF Fate, HubTypeOK
<1> QED BY <1>1, <1>2, <1>3, <1>4, <1>5

LEMMA FateHello ==
  ASSUME HInv, NEW p \in Conn,
         \/ \E c \in Clients : ClientHello(c)
         \/ \E s \in Servers : ServerHello(s)
  PROVE  Fate(p)
<1>0. HubTypeOK
  BY DEF HInv
<1>1. ASSUME NEW c \in Clients, ClientHello(c) PROVE Fate(p)
  <2>1. PICK E \in SUBSET (peers \cap Clients), list \in Seq(Deferred) :
          /\ pc[c] = "hello" /\ todo' = [todo EXCEPT ![c] = list]
          /\ \A q \in E : sock[q] # "closed" => Close(q) \in ToSet(list)
          /\ \/ /\ peers' = peers \ E /\ sock' = [sock EXCEPT ![c] = "closed"]
                /\ pc' = [pc EXCEPT ![c] = "refused"]
             \/ /\ peers' = (peers \ E) \cup {c} /\ sock' = sock
                /\ pc' = [pc EXCEPT ![c] = "flush"]
    BY <1>1, Hello
  <2>2. c \in Conn
    BY DEF Conn
  <2>3. todo'[c] = list
    BY <1>0, <2>1, <2>2 DEF HubTypeOK
  <2>4. p \in peers \ peers' => sock'[p] # "open" \/ Due(Close(p))'
    <3>1. SUFFICES ASSUME p \in peers \ peers', sock'[p] = "open" PROVE Due(Close(p))'
      OBVIOUS
    <3>2. p \in E
      BY <2>1, <3>1
    <3>3. sock[p] # "closed"
      BY <1>0, <2>1, <3>1 DEF HubTypeOK
    <3>4. Close(p) \in ToSet(todo'[c])
      BY <2>1, <2>3, <3>2, <3>3
    <3>5. Close(p)' = Close(p)
      BY DEF Close
    <3> QED BY <2>2, <3>4, <3>5 DEF Due
  <2>5. /\ sock'[p] = "open" => sock[p] = "open"
        /\ pc[p] \in {"ending", "closing", "cleanup"} => pc'[p] = pc[p]
        /\ pc[p] \in {"new", "hello"} => \/ pc'[p] \in {"new", "hello"} \/ p \in peers'
                                         \/ sock'[p] # "open"
    BY <1>0, <2>1, <2>2 DEF HubTypeOK
  <2> QED BY <2>4, <2>5 DEF Fate
<1>2. ASSUME NEW s \in Servers, ServerHello(s) PROVE Fate(p)
  BY <1>0, <1>2 DEF ServerHello, Fate, HubTypeOK, Conn
<1> QED BY <1>1, <1>2

LEMMA FateServe ==
  ASSUME HInv, NEW p \in Conn,
         \/ \E q \in Conn : Notice(q) \/ Unknown(q)
         \/ \E s \in Servers : ServerRelayFails(s)
         \/ \E c \in Clients : \/ ClientRelayFails(c) \/ SessionAsked(c)
                               \/ SessionOk(c) \/ SessionFails(c) \/ SessionStored(c)
  PROVE  Fate(p)
<1>0. HubTypeOK
  BY DEF HInv
<1>1. ASSUME NEW q \in Conn, NEW to, pc' = [pc EXCEPT ![q] = to],
             pc[q] \in {"loop", "ok", "start"}, peers' = peers,
             sock' = sock \/ sock' = [sock EXCEPT ![q] = "closed"]
      PROVE  Fate(p)
  BY <1>0, <1>1 DEF Fate, HubTypeOK
<1>2. ASSUME NEW q \in Conn, Notice(q) \/ Unknown(q) PROVE Fate(p)
  BY <1>1, <1>2 DEF Notice, Unknown, LoopEnds
<1>3. ASSUME NEW s \in Servers, ServerRelayFails(s) PROVE Fate(p)
  BY <1>1, <1>3 DEF ServerRelayFails, LoopEnds, Conn
<1>4. ASSUME NEW c \in Clients, ClientRelayFails(c) \/ SessionFails(c) PROVE Fate(p)
  BY <1>1, <1>4 DEF ClientRelayFails, SessionFails, LoopEnds, Conn
<1>5. ASSUME NEW c \in Clients, SessionAsked(c) \/ SessionOk(c) \/ SessionStored(c)
      PROVE  Fate(p)
  BY <1>1, <1>5 DEF SessionAsked, SessionOk, SessionStored, Conn
<1> QED BY <1>2, <1>3, <1>4, <1>5

LEMMA FateCleanup ==
  ASSUME HInv, NEW p \in Conn,
         \/ \E q \in Conn : CleanupQuiet(q) \/ Departed(q)
         \/ \E c \in Clients : \/ CleanupCloses(c) \/ CleanupEnds(c)
                               \/ CleanupRaises(c) \/ CleanupGoesOn(c)
  PROVE  Fate(p)
<1>0. HubTypeOK
  BY DEF HInv
<1>1. ASSUME NEW q \in Conn, pc[q] \in {"ending", "closing", "cleanup"},
             \/ /\ pc' = [pc EXCEPT ![q] = "cleanup"] /\ peers' = peers
                /\ sock' = sock \/ \E x : sock' = [sock EXCEPT ![x] = "closed"]
             \/ /\ pc' = [pc EXCEPT ![q] = "closing"] /\ peers' = peers \ {q}
                /\ sock' = sock
             \/ /\ pc' = [pc EXCEPT ![q] = "done"] /\ peers' = peers
                /\ sock' = [sock EXCEPT ![q] = "closed"]
      PROVE  Fate(p)
  BY <1>0, <1>1 DEF Fate, HubTypeOK
<1>2. ASSUME NEW q \in Conn, CleanupQuiet(q) \/ Departed(q) PROVE Fate(p)
  BY <1>1, <1>2 DEF CleanupQuiet, Departed, Removed, Returns
<1>3. ASSUME NEW c \in Clients, CleanupCloses(c) \/ CleanupEnds(c) PROVE Fate(p)
  BY <1>1, <1>3 DEF CleanupCloses, CleanupEnds, Conn
<1>4. ASSUME NEW c \in Clients, CleanupRaises(c) \/ CleanupGoesOn(c) PROVE Fate(p)
  BY <1>1, <1>4 DEF CleanupRaises, CleanupGoesOn, Removed, Returns, Conn
<1> QED BY <1>2, <1>3, <1>4

LEMMA Fates ==
  ASSUME HInv, [Next]_vars, NEW p \in Conn
  PROVE  Fate(p)
<1>1. CASE UNCHANGED vars \/ \E k \in Keys : Forget(k)
  BY <1>1 DEF vars, Forget, Fate
<1>2. CASE ~(UNCHANGED vars \/ \E k \in Keys : Forget(k))
  BY <1>2, FateHandshake, FateHello, FateServe, FateCleanup DEF Next
<1> QED BY <1>1, <1>2

LEMMA OrphanStep == HInv /\ NoOrphan /\ [Next]_vars => NoOrphan'
<1> SUFFICES ASSUME HInv, NoOrphan, [Next]_vars, NEW p \in Conn,
                    pc'[p] \notin {"new", "hello"}, sock'[p] = "open", p \notin peers'
             PROVE  pc'[p] \in {"ending", "closing", "cleanup"} \/ Due(Close(p))'
  BY DEF NoOrphan, Due, Close
<1>1. Fate(p)
  BY Fates
<1>2. sock[p] = "open"
  BY <1>1 DEF Fate
<1>3. pc[p] \notin {"new", "hello"}
  BY <1>1 DEF Fate
<1>4. CASE p \in peers
  BY <1>1, <1>4 DEF Fate
<1>5. CASE p \notin peers
  <2>1. pc[p] \in {"ending", "closing", "cleanup"} \/ Due(Close(p))
    BY <1>2, <1>3, <1>5 DEF NoOrphan, Due
  <2>2. CASE pc[p] \in {"ending", "closing", "cleanup"}
    BY <1>1, <2>2 DEF Fate
  <2>3. ASSUME NEW q \in Conn, Flush(q), Close(p) = Head(todo[q]) PROVE FALSE
    <3>1. sock' = [sock EXCEPT ![p] = "closed"]
      <4>1. Close(p).do = "close" /\ Close(p).to = p
        BY DEF Close
      <4>2. PICK d : d = Head(todo[q])
        OBVIOUS
      <4>3. sock' = IF d.do = "close" THEN [sock EXCEPT ![d.to] = "closed"] ELSE sock
        BY <2>3, <4>2 DEF Flush
      <4> QED BY <2>3, <4>1, <4>2, <4>3
    <3>2. sock'[p] = "closed"
      BY <3>1 DEF HInv, HubTypeOK
    <3> QED BY <3>2
  <2>4. CASE Due(Close(p))
    BY <2>3, <2>4, StillDue DEF Close, Due
  <2> QED BY <2>1, <2>2, <2>4
<1> QED BY <1>4, <1>5

\* Theorem: a superseded or orphaned page never keeps a working socket, for any
\* clients, servers and roles.
THEOREM OrphansClosed == Spec => []NoOrphan
<1>1. Init => NoOrphan
  BY DEF Init, NoOrphan
<1> QED BY <1>1, HAlways, OrphanStep, PTL DEF Spec

-----------------------------------------------------------------------------
(* The server's connection                                                  *)

LEMMA ReasonKinds == None \notin Reasons /\ Left \in Reasons /\ Relay \in Reasons
<1>1. MaxServers \in Nat /\ Clients \cap Nat = {}
  BY ClientsAssumption
<1>2. None \in Nat /\ Left # None /\ Relay # None
  BY <1>1 DEF None, Left, Relay
<1> QED BY <1>1, <1>2 DEF Reasons

\* The first reason of a server stays.
LEMMA ReasonStays ==
  ASSUME HubTypeOK, NEW s \in Servers, NEW t, NEW r \in Reasons, why[s] \in Reasons,
         why' = IF why[t] = None THEN [why EXCEPT ![t] = r] ELSE why
  PROVE  why'[s] \in Reasons
BY ReasonKinds DEF HubTypeOK

\* A reason there is none yet for is recorded.
LEMMA ReasonGiven ==
  ASSUME HubTypeOK, NEW s \in Servers, NEW r \in Reasons,
         why' = IF why[s] = None THEN [why EXCEPT ![s] = r] ELSE why
  PROVE  why'[s] \in Reasons
BY ReasonKinds DEF HubTypeOK

Gone(s) == sock[s] \in {"lost", "closed"} \/ pc[s] \in {"popping", "ending", "closing", "done"}

LEMMA ExcusedHandshake ==
  ASSUME HInv, Excused, NEW s \in Servers, Gone(s)', NEW p \in Conn,
         Connect(p) \/ Leave(p) \/ Flush(p) \/ Greet(p) \/ GreetFails(p) \/ Pop(p)
           \/ HandshakeFailed(p)
  PROVE  why'[s] \in Reasons
<1>0. HubTypeOK /\ Posted /\ s \in Conn
  BY DEF HInv, Conn
<1>1. Gone(s) => why[s] \in Reasons
  BY DEF Excused, Gone
<1>2. CASE Connect(p)
  BY <1>0, <1>1, <1>2 DEF Connect, Gone, HubTypeOK
<1>3. CASE Leave(p)
  <2>1. /\ sock' = [sock EXCEPT ![p] = "lost"] /\ pc' = pc
        /\ why' = IF p \in Servers /\ why[p] = None THEN [why EXCEPT ![p] = Left] ELSE why
    BY <1>3 DEF Leave
  <2>2. CASE s = p
    <3>1. why' = IF why[s] = None THEN [why EXCEPT ![s] = Left] ELSE why
      BY <2>1, <2>2
    <3> QED BY <1>0, <3>1, ReasonGiven, ReasonKinds
  <2>3. CASE s # p
    <3>1. why'[s] = why[s] /\ Gone(s)
      BY <1>0, <2>1, <2>3 DEF Gone, HubTypeOK
    <3> QED BY <1>1, <3>1
  <2> QED BY <2>2, <2>3
<1>4. CASE Flush(p)
  <2>1. PICK d : d = Head(todo[p])
    OBVIOUS
  <2>2. /\ todo[p] # <<>> /\ pc' = pc /\ why' = why
        /\ sock' = IF d.do = "close" THEN [sock EXCEPT ![d.to] = "closed"] ELSE sock
    BY <1>4, <2>1 DEF Flush
  <2>3. d \in Deferred
    BY <1>0, <2>1, <2>2 DEF HubTypeOK
  <2>4. d.do = "close" => d.to # s
    BY <2>3, DeferredCalls, Kinds
  <2>5. sock'[s] = sock[s]
    BY <1>0, <2>2, <2>4 DEF HubTypeOK
  <2> QED BY <1>1, <2>2, <2>5 DEF Gone
<1>5. CASE Greet(p) \/ GreetFails(p)
  <2>1. /\ pc[p] = "flush" /\ sock' = sock /\ why' = why
        /\ \/ pc' = [pc EXCEPT ![p] = "loop"]
           \/ pc' = [pc EXCEPT ![p] = "popping"] /\ sock[p] # "open"
    BY <1>5 DEF Greet, GreetFails, Raises
  <2>2. sock[p] # "none"
    BY <1>0, <2>1 DEF Posted
  <2>3. Gone(s)
    BY <1>0, <2>1, <2>2 DEF Gone, HubTypeOK
  <2> QED BY <1>1, <2>1, <2>3
<1>6. CASE Pop(p) \/ HandshakeFailed(p)
  <2>1. /\ pc[p] \in {"popping", "refused"} /\ why' = why
        /\ pc' = [pc EXCEPT ![p] = "done"] /\ sock' = [sock EXCEPT ![p] = "closed"]
    BY <1>6 DEF Pop, HandshakeFailed, Returns, hub
  <2>2. pc[s] # "refused"
    BY <1>0 DEF Posted
  <2>3. Gone(s)
    BY <1>0, <2>1, <2>2 DEF Gone, HubTypeOK
  <2> QED BY <1>1, <2>1, <2>3
<1> QED BY <1>2, <1>3, <1>4, <1>5, <1>6

LEMMA ExcusedHello ==
  ASSUME HInv, Excused, NEW s \in Servers, Gone(s)',
         \/ \E c \in Clients : ClientHello(c)
         \/ \E t \in Servers : ServerHello(t)
  PROVE  why'[s] \in Reasons
<1>0. HubTypeOK /\ s \in Conn
  BY DEF HInv, Conn
<1>1. Gone(s) => why[s] \in Reasons
  BY DEF Excused, Gone
<1>2. ASSUME NEW c \in Clients, ClientHello(c) PROVE why'[s] \in Reasons
  <2>1. /\ why' = why
        /\ \/ sock' = [sock EXCEPT ![c] = "closed"] /\ pc' = [pc EXCEPT ![c] = "refused"]
           \/ sock' = sock /\ pc' = [pc EXCEPT ![c] = "flush"]
    BY <1>2, Hello
  <2>2. s # c
    BY Kinds
  <2>3. Gone(s)
    BY <1>0, <2>1, <2>2 DEF Gone, HubTypeOK
  <2> QED BY <1>1, <2>1, <2>3
<1>3. ASSUME NEW t \in Servers, ServerHello(t) PROVE why'[s] \in Reasons
  BY <1>0, <1>1, <1>3 DEF ServerHello, Gone, HubTypeOK
<1> QED BY <1>2, <1>3

LEMMA ExcusedServe ==
  ASSUME HInv, Excused, NEW s \in Servers, Gone(s)',
         \/ \E p \in Conn : Notice(p) \/ Unknown(p)
         \/ \E t \in Servers : ServerRelayFails(t)
         \/ \E c \in Clients : \/ ClientRelayFails(c) \/ SessionAsked(c)
                               \/ SessionOk(c) \/ SessionFails(c) \/ SessionStored(c)
  PROVE  why'[s] \in Reasons
<1>0. HubTypeOK /\ Posted /\ s \in Conn
  BY DEF HInv, Conn
<1>1. Gone(s) => why[s] \in Reasons
  BY DEF Excused, Gone
<1>2. ASSUME NEW p \in Conn, Notice(p) PROVE why'[s] \in Reasons
  <2>1. /\ sock[p] \in {"lost", "closed"} /\ why' = why
        /\ sock' = [sock EXCEPT ![p] = "closed"] /\ pc' = [pc EXCEPT ![p] = "ending"]
    BY <1>2 DEF Notice, LoopEnds
  <2>2. Gone(s)
    BY <1>0, <2>1 DEF Gone, HubTypeOK
  <2> QED BY <1>1, <2>1, <2>2
<1>3. ASSUME NEW p \in Conn, Unknown(p) PROVE why'[s] \in Reasons
  <2>1. /\ pc[p] = "loop" /\ p \notin peers /\ UNCHANGED <<sock, why>>
        /\ pc' = [pc EXCEPT ![p] = "ending"]
    BY <1>3 DEF Unknown, LoopEnds
  <2>2. p # s
    BY <1>0, <2>1 DEF Posted
  <2>3. Gone(s)
    BY <1>0, <2>1, <2>2 DEF Gone, HubTypeOK
  <2> QED BY <1>1, <2>1, <2>3
<1>4. ASSUME NEW t \in Servers, ServerRelayFails(t) PROVE why'[s] \in Reasons
  <2>1. /\ sock' = sock /\ pc' = [pc EXCEPT ![t] = "ending"]
        /\ why' = IF why[t] = None THEN [why EXCEPT ![t] = Relay] ELSE why
    BY <1>4 DEF ServerRelayFails, LoopEnds
  <2>2. CASE t = s
    BY <1>0, <2>1, <2>2, ReasonGiven, ReasonKinds
  <2>3. CASE t # s
    <3>1. Gone(s) /\ why'[s] = why[s]
      BY <1>0, <2>1, <2>3 DEF Gone, HubTypeOK
    <3> QED BY <1>1, <3>1
  <2> QED BY <2>2, <2>3
<1>5. ASSUME NEW c \in Clients,
             \/ ClientRelayFails(c) \/ SessionAsked(c) \/ SessionOk(c) \/ SessionFails(c)
             \/ SessionStored(c)
      PROVE  why'[s] \in Reasons
  <2>1. PICK to : sock' = sock /\ pc' = [pc EXCEPT ![c] = to] /\ why' = why
    BY <1>5 DEF ClientRelayFails, SessionAsked, SessionOk, SessionFails, SessionStored, LoopEnds
  <2>2. s # c
    BY Kinds
  <2>3. Gone(s)
    BY <1>0, <2>1, <2>2 DEF Gone, HubTypeOK
  <2> QED BY <1>1, <2>1, <2>3
<1> QED BY <1>2, <1>3, <1>4, <1>5

LEMMA ExcusedCleanup ==
  ASSUME HInv, Excused, NEW s \in Servers, Gone(s)',
         \/ \E p \in Conn : CleanupQuiet(p) \/ Departed(p)
         \/ \E c \in Clients : \/ CleanupCloses(c) \/ CleanupEnds(c)
                               \/ CleanupRaises(c) \/ CleanupGoesOn(c)
  PROVE  why'[s] \in Reasons
<1>0. HubTypeOK /\ s \in Conn
  BY DEF HInv, Conn
<1>1. Gone(s) => why[s] \in Reasons
  BY DEF Excused, Gone
<1>2. ASSUME NEW p \in Conn, CleanupQuiet(p) \/ Departed(p) PROVE why'[s] \in Reasons
  <2>1. /\ pc[p] \in {"ending", "closing"} /\ why' = why
        /\ pc' = [pc EXCEPT ![p] = "closing"] \/ pc' = [pc EXCEPT ![p] = "done"]
        /\ sock' = sock \/ sock' = [sock EXCEPT ![p] = "closed"]
    BY <1>2 DEF CleanupQuiet, Departed, Removed, Returns
  <2>2. Gone(s)
    BY <1>0, <2>1 DEF Gone, HubTypeOK
  <2> QED BY <1>1, <2>1, <2>2
<1>3. ASSUME NEW c \in Clients, CleanupCloses(c) PROVE why'[s] \in Reasons
  <2>1. PICK t : t = Partner(c)
    OBVIOUS
  <2>2. /\ sock' = [sock EXCEPT ![t] = "closed"] /\ pc' = [pc EXCEPT ![c] = "cleanup"]
        /\ why' = IF why[t] = None THEN [why EXCEPT ![t] = c] ELSE why
    BY <1>3, <2>1 DEF CleanupCloses
  <2>3. c \in Reasons
    BY <1>3 DEF CleanupCloses, PrimaryController, Reasons
  <2>4. CASE t = s
    BY <1>0, <2>2, <2>3, <2>4, ReasonGiven
  <2>5. CASE t # s
    <3>1. s # c
      BY Kinds
    <3>2. Gone(s) /\ why'[s] = why[s]
      BY <1>0, <2>2, <2>5, <3>1 DEF Gone, HubTypeOK
    <3> QED BY <1>1, <3>2
  <2> QED BY <2>4, <2>5
<1>4. ASSUME NEW c \in Clients, CleanupEnds(c) \/ CleanupRaises(c) \/ CleanupGoesOn(c)
      PROVE  why'[s] \in Reasons
  <2>1. PICK to : /\ pc' = [pc EXCEPT ![c] = to] /\ why' = why
                  /\ sock' = sock \/ sock' = [sock EXCEPT ![c] = "closed"]
    BY <1>4 DEF CleanupEnds, CleanupRaises, CleanupGoesOn, Removed, Returns
  <2>2. s # c
    BY Kinds
  <2>3. Gone(s)
    BY <1>0, <2>1, <2>2 DEF Gone, HubTypeOK
  <2> QED BY <1>1, <2>1, <2>3
<1> QED BY <1>2, <1>3, <1>4

LEMMA ExcusedStep == HInv /\ Excused /\ [Next]_vars => Excused'
<1> SUFFICES ASSUME HInv, Excused, [Next]_vars, NEW s \in Servers, Gone(s)'
             PROVE  why'[s] \in Reasons
  BY DEF Excused, Gone, Reasons
<1>1. CASE UNCHANGED vars \/ \E k \in Keys : Forget(k)
  BY <1>1 DEF vars, Forget, Excused, Gone
<1>2. CASE ~(UNCHANGED vars \/ \E k \in Keys : Forget(k))
  BY <1>2, ExcusedHandshake, ExcusedHello, ExcusedServe, ExcusedCleanup DEF Next
<1> QED BY <1>1, <1>2

\* Theorem: the server's connection ends only for the reasons ServerLives names,
\* for any clients and roles: no eviction, no viewer and no secondary
\* controller takes it down.
THEOREM ServerSpares == Spec => []ServerLives
<1>1. Init => Excused
  BY DEF Init, Excused, Conn
<1>2. Excused => ServerLives
  BY DEF Excused, ServerLives, Reasons
<1> QED BY <1>1, <1>2, HAlways, ExcusedStep, PTL DEF Spec

-----------------------------------------------------------------------------
(* Whom the server was told of                                              *)

Told(s, c) == c \in peers \cap paired /\ sessions[c] = s
Starting(s, c) == pc[c] = "start" /\ callee[c] = s

\* What a step may do to the session of a client with a server.
Course(s, c) ==
  /\ (Told(s, c) /\ s \in peers /\ sock[s] = "open") =>
       \/ Told(s, c)' \/ Due(End(s, c))'
       \/ sock'[s] # "open" \/ c \notin told'[s]
  /\ Starting(s, c) => Starting(s, c)' \/ Told(s, c)' \/ c \in missed'
  /\ c \in told'[s] => c \in told[s] \/ Starting(s, c)'
  /\ missed \subseteq missed'
  /\ (pc'[c] \in {"ok", "start"} /\ c \in paired') =>
       pc[c] \in {"ok", "start"} /\ c \in paired
  /\ pc'[s] \in {"new", "hello"} =>
       pc[s] \in {"new", "hello"} /\ told'[s] \subseteq told[s]

SessionsInv == HInv /\ Idle /\ Unpaired

\* No session is touched, and a handler moves that was not starting one.
LEMMA CourseMove ==
  ASSUME SessionsInv, NEW s \in Servers, NEW c \in Clients, NEW q \in Conn, NEW to,
         UNCHANGED hub, peers \subseteq peers',
         pc' = pc \/ pc' = [pc EXCEPT ![q] = to],
         pc' # pc => /\ to \notin {"ok", "start"} /\ pc[q] # "start"
                     /\ to \in {"new", "hello"} => pc[q] = "new"
  PROVE  Course(s, c)
<1>0. HubTypeOK /\ s \in Conn /\ c \in Conn
  BY DEF SessionsInv, HInv, Conn
<1>1. UNCHANGED <<sessions, paired, callee, told, missed>>
  BY DEF hub
<1>2. /\ pc'[c] \in {"ok", "start"} => pc[c] \in {"ok", "start"}
      /\ pc[c] = "start" => pc'[c] = "start"
      /\ pc'[s] \in {"new", "hello"} => pc[s] \in {"new", "hello"}
  BY <1>0 DEF HubTypeOK
<1> QED BY <1>1, <1>2 DEF Course, Told, Starting

LEMMA CourseHandshake ==
  ASSUME SessionsInv, NEW s \in Servers, NEW c \in Clients, NEW p \in Conn,
         Connect(p) \/ Leave(p) \/ Flush(p) \/ Greet(p) \/ GreetFails(p) \/ Pop(p)
           \/ HandshakeFailed(p)
  PROVE  Course(s, c)
<1>0. HubTypeOK /\ s \in Conn /\ c \in Conn
  BY DEF SessionsInv, HInv, Conn
<1>1. CASE Connect(p) \/ Leave(p) \/ Greet(p) \/ GreetFails(p) \/ HandshakeFailed(p)
  <2>1. PICK to : /\ pc' = pc \/ pc' = [pc EXCEPT ![p] = to]
                  /\ pc' # pc => /\ to \notin {"ok", "start"} /\ pc[p] # "start"
                                 /\ to \in {"new", "hello"} => pc[p] = "new"
    BY <1>1 DEF Connect, Leave, Greet, GreetFails, HandshakeFailed, Returns
  <2>2. UNCHANGED hub /\ peers' = peers
    BY <1>1 DEF Connect, Leave, Greet, GreetFails, HandshakeFailed
  <2> QED BY <2>1, <2>2, CourseMove
<1>2. CASE Flush(p)
  <2>1. PICK d : d = Head(todo[p])
    OBVIOUS
  <2>2. /\ UNCHANGED <<peers, pc, sessions, paired, callee, missed>>
        /\ told' = IF d.do = "end" /\ Passes(d.to)
                   THEN [told EXCEPT ![d.to] = told[d.to] \ {d.of}] ELSE told
    BY <1>2, <2>1 DEF Flush
  <2>3. told'[s] \subseteq told[s]
    BY <1>0, <2>2 DEF HubTypeOK
  <2> QED BY <2>2, <2>3 DEF Course, Told, Starting
<1>3. CASE Pop(p)
  <2>1. /\ pc[p] = "popping" /\ peers' = peers \ {p} /\ paired' = paired \ {p}
        /\ pc' = [pc EXCEPT ![p] = "done"]
        /\ UNCHANGED <<sessions, callee, told, missed>>
    BY <1>3 DEF Pop, Returns
  <2>2. Told(s, c) => p # c
    BY <2>1, Kinds DEF SessionsInv, Idle, Serving, Told
  <2>3. /\ pc'[c] \in {"ok", "start"} => pc'[c] = pc[c]
        /\ pc[c] = "start" => pc'[c] = "start"
        /\ pc'[s] \in {"new", "hello"} => pc'[s] = pc[s]
    BY <1>0, <2>1 DEF HubTypeOK
  <2> QED BY <2>1, <2>2, <2>3 DEF Course, Told, Starting
<1> QED BY <1>1, <1>2, <1>3

LEMMA CourseHello ==
  ASSUME SessionsInv, NEW s \in Servers, NEW c \in Clients,
         \/ \E d \in Clients : ClientHello(d)
         \/ \E t \in Servers : ServerHello(t)
  PROVE  Course(s, c)
<1>0. HInv /\ HubTypeOK /\ s \in Conn /\ c \in Conn
  BY DEF SessionsInv, HInv, Conn
<1>1. ASSUME NEW d \in Clients, ClientHello(d) PROVE Course(s, c)
  <2>1. PICK E \in SUBSET (peers \cap Clients), list \in Seq(Deferred) :
          /\ pc[d] = "hello" /\ todo' = [todo EXCEPT ![d] = list]
          /\ \A q \in E : sessions[q] \in peers => End(sessions[q], q) \in ToSet(list)
          /\ sessions' = [x \in Clients |-> IF x \in E THEN None ELSE sessions[x]]
          /\ paired' = paired \ E
          /\ UNCHANGED <<callee, told, missed>>
          /\ peers \ E \subseteq peers'
          /\ pc' = [pc EXCEPT ![d] = "refused"] \/ pc' = [pc EXCEPT ![d] = "flush"]
    <3>1. PICK E \in SUBSET (peers \cap Clients), list \in Seq(Deferred) :
            /\ pc[d] = "hello" /\ todo' = [todo EXCEPT ![d] = list]
            /\ \A q \in E : sessions[q] \in peers => End(sessions[q], q) \in ToSet(list)
            /\ sessions' = [x \in Clients |-> IF x \in E THEN None ELSE sessions[x]]
            /\ paired' = paired \ E
            /\ UNCHANGED <<callee, told, missed, why>>
            /\ \/ /\ peers' = peers \ E /\ sock' = [sock EXCEPT ![d] = "closed"]
                  /\ pc' = [pc EXCEPT ![d] = "refused"]
               \/ /\ peers' = (peers \ E) \cup {d} /\ sock' = sock
                  /\ pc' = [pc EXCEPT ![d] = "flush"]
      BY <1>0, <1>1, Hello
    <3> QED BY <3>1
  <2>2. d \in Conn
    BY DEF Conn
  <2>3. (Told(s, c) /\ s \in peers) => Told(s, c)' \/ Due(End(s, c))'
    <3>1. CASE c \in E
      <4>1. SUFFICES ASSUME Told(s, c), s \in peers PROVE Due(End(s, c))'
        OBVIOUS
      <4>2. End(s, c) \in ToSet(list)
        BY <2>1, <3>1, <4>1 DEF Told
      <4>3. todo'[d] = list
        BY <1>0, <2>1, <2>2 DEF HubTypeOK
      <4> QED BY <2>2, <4>2, <4>3 DEF Due, End
    <3>2. CASE c \notin E
      BY <2>1, <3>2 DEF Told
    <3> QED BY <3>1, <3>2
  <2>4. /\ pc'[c] \in {"ok", "start"} => pc'[c] = pc[c]
        /\ pc[c] = "start" => pc'[c] = "start"
        /\ pc'[s] \in {"new", "hello"} => pc'[s] = pc[s]
    BY <1>0, <2>1, <2>2 DEF HubTypeOK
  <2> QED BY <2>1, <2>3, <2>4 DEF Course, Starting
<1>2. ASSUME NEW t \in Servers, ServerHello(t) PROVE Course(s, c)
  <2>1. /\ pc[t] = "hello" /\ pc' = [pc EXCEPT ![t] = "flush"]
        /\ UNCHANGED hub /\ peers \subseteq peers'
    BY <1>2 DEF ServerHello
  <2>2. t \in Conn
    BY DEF Conn
  <2> QED BY <2>1, <2>2, CourseMove
<1> QED BY <1>1, <1>2

LEMMA CourseServe ==
  ASSUME SessionsInv, NEW s \in Servers, NEW c \in Clients,
         \/ \E p \in Conn : Notice(p) \/ Unknown(p)
         \/ \E t \in Servers : ServerRelayFails(t)
         \/ \E d \in Clients : \/ ClientRelayFails(d) \/ SessionAsked(d)
                               \/ SessionOk(d) \/ SessionFails(d) \/ SessionStored(d)
  PROVE  Course(s, c)
<1>0. HubTypeOK /\ Posted /\ Unpaired /\ s \in Conn /\ c \in Conn
  BY DEF SessionsInv, HInv, Conn
<1>1. ASSUME NEW q \in Conn, LoopEnds(q), pc[q] # "start" PROVE Course(s, c)
  <2>1. pc' = [pc EXCEPT ![q] = "ending"] /\ UNCHANGED hub /\ peers' = peers
    BY <1>1 DEF LoopEnds
  <2> QED BY <1>1, <2>1, CourseMove
<1>2. ASSUME NEW q \in Conn, Notice(q) \/ Unknown(q) PROVE Course(s, c)
  BY <1>1, <1>2 DEF Notice, Unknown
<1>3. ASSUME NEW t \in Servers, ServerRelayFails(t) PROVE Course(s, c)
  BY <1>1, <1>3 DEF ServerRelayFails, Conn
<1>4. ASSUME NEW d \in Clients, ClientRelayFails(d) \/ SessionFails(d) PROVE Course(s, c)
  BY <1>1, <1>4 DEF ClientRelayFails, SessionFails, Conn
<1>5. ASSUME NEW d \in Clients, SessionAsked(d) PROVE Course(s, c)
  <2>1. /\ pc[d] = "loop" /\ d \notin paired /\ pc' = [pc EXCEPT ![d] = "ok"]
        /\ UNCHANGED <<peers, sessions, paired, told, missed>>
    BY <1>5 DEF SessionAsked
  <2>2. pc[c] = "start" => callee'[c] = callee[c]
    <3>1. PICK x : callee' = [callee EXCEPT ![d] = x]
      BY <1>5 DEF SessionAsked
    <3> QED BY <1>0, <2>1, <3>1 DEF HubTypeOK
  <2>3. /\ (pc'[c] \in {"ok", "start"} /\ c \in paired) => pc'[c] = pc[c]
        /\ pc[c] = "start" => pc'[c] = "start"
        /\ pc'[s] \in {"new", "hello"} => pc'[s] = pc[s]
    BY <1>0, <2>1 DEF HubTypeOK
  <2> QED BY <2>1, <2>2, <2>3 DEF Course, Told, Starting
<1>6. ASSUME NEW d \in Clients, SessionOk(d) PROVE Course(s, c)
  <2>1. /\ pc[d] = "ok" /\ d \in Conn
        /\ UNCHANGED <<peers, sessions, paired, callee, missed>>
    BY <1>6 DEF SessionOk, Conn
  <2>2. CASE callee[d] \notin peers
    <3>1. pc' = [pc EXCEPT ![d] = "loop"] /\ told' = told
      BY <1>6, <2>2 DEF SessionOk
    <3>2. /\ pc'[c] \in {"ok", "start"} => pc'[c] = pc[c]
          /\ pc[c] = "start" => pc'[c] = "start"
          /\ pc'[s] \in {"new", "hello"} => pc'[s] = pc[s]
      BY <1>0, <2>1, <3>1 DEF HubTypeOK
    <3> QED BY <2>1, <3>1, <3>2 DEF Course, Told, Starting
  <2>3. CASE callee[d] \in peers
    <3>1. /\ pc' = [pc EXCEPT ![d] = "start"]
          /\ told' = [told EXCEPT ![callee[d]] = told[callee[d]] \cup {d}]
      BY <1>6, <2>3 DEF SessionOk
    <3>2. /\ pc'[c] \in {"ok", "start"} => pc[c] \in {"ok", "start"}
          /\ pc[c] = "start" => pc'[c] = "start"
          /\ pc'[d] = "start"
          /\ pc'[s] \in {"new", "hello"} => pc'[s] = pc[s]
      BY <1>0, <2>1, <3>1 DEF HubTypeOK
    <3>3. c \in told'[s] => c \in told[s] \/ (c = d /\ callee[c] = s)
      BY <1>0, <3>1 DEF HubTypeOK
    <3>4. pc[s] \in {"new", "hello"} => told'[s] = told[s]
      <4>1. SUFFICES ASSUME pc[s] \in {"new", "hello"} PROVE callee[d] # s
        BY <1>0, <3>1 DEF HubTypeOK
      <4> QED BY <1>0, <2>3, <4>1 DEF Posted
    <3> QED BY <2>1, <3>2, <3>3, <3>4 DEF Course, Told, Starting
  <2> QED BY <2>2, <2>3
<1>7. ASSUME NEW d \in Clients, SessionStored(d) PROVE Course(s, c)
  <2>1. /\ pc[d] = "start" /\ d \in Conn
        /\ sessions' = [sessions EXCEPT ![d] = callee[d]]
        /\ paired' = paired \cup ({d, callee[d]} \cap peers)
        /\ missed' = IF d \in peers THEN missed ELSE missed \cup {d}
        /\ pc' = [pc EXCEPT ![d] = "loop"]
        /\ UNCHANGED <<peers, callee, told>>
    BY <1>7 DEF SessionStored, Conn
  <2>2. d \notin paired
    BY <1>0, <2>1 DEF Unpaired
  <2>3. callee[d] # c
    BY <1>0, Kinds DEF HubTypeOK, Conn
  <2>4. /\ pc'[c] \in {"ok", "start"} => pc'[c] = pc[c] /\ c # d
        /\ (pc[c] = "start" /\ c # d) => pc'[c] = "start"
        /\ pc'[s] \in {"new", "hello"} => pc'[s] = pc[s]
    BY <1>0, <2>1 DEF HubTypeOK
  <2>5. /\ c # d => sessions'[c] = sessions[c]
        /\ sessions'[d] = callee[d]
    BY <1>0, <2>1 DEF HubTypeOK
  <2>6. Told(s, c) => Told(s, c)'
    BY <2>1, <2>2, <2>5 DEF Told
  <2>7. Starting(s, c) => Starting(s, c)' \/ Told(s, c)' \/ c \in missed'
    BY <2>1, <2>4, <2>5 DEF Starting, Told
  <2> QED BY <2>1, <2>3, <2>4, <2>6, <2>7 DEF Course
<1> QED BY <1>2, <1>3, <1>4, <1>5, <1>6, <1>7

LEMMA CourseCleanup ==
  ASSUME SessionsInv, NEW s \in Servers, NEW c \in Clients,
         \/ \E p \in Conn : CleanupQuiet(p) \/ Departed(p)
         \/ \E d \in Clients : \/ CleanupCloses(d) \/ CleanupEnds(d)
                               \/ CleanupRaises(d) \/ CleanupGoesOn(d)
  PROVE  Course(s, c)
<1>0. HubTypeOK /\ s \in Conn /\ c \in Conn
  BY DEF SessionsInv, HInv, Conn
<1>1. ASSUME NEW d \in Conn, SessionDropped(d), d # c PROVE sessions'[c] = sessions[c]
  BY <1>0, <1>1 DEF SessionDropped, HubTypeOK
<1>2. Told(s, c) /\ s \in peers => Partner(c) = s /\ Partner(c) # None
  BY Kinds DEF Told, Partner
<1>3. ASSUME NEW d \in Conn, NEW to, pc' = [pc EXCEPT ![d] = to],
             pc[d] \in {"ending", "cleanup", "closing"},
             to \in {"closing", "cleanup", "done"},
             peers \ {d} \subseteq peers', paired \ {d} \subseteq paired',
             paired' \subseteq paired,
             told'[s] \subseteq told[s], UNCHANGED <<callee, missed>>,
             c # d => sessions'[c] = sessions[c],
             (Told(s, c) /\ c = d /\ s \in peers /\ sock[s] = "open") =>
               sock'[s] # "open" \/ c \notin told'[s]
      PROVE  Course(s, c)
  <2>1. /\ pc'[c] \in {"ok", "start"} => pc'[c] = pc[c]
        /\ pc[c] = "start" => pc'[c] = "start"
        /\ pc'[s] \in {"new", "hello"} => pc'[s] = pc[s]
    BY <1>0, <1>3 DEF HubTypeOK
  <2>2. (Told(s, c) /\ c # d) => Told(s, c)'
    BY <1>3 DEF Told
  <2> QED BY <1>3, <2>1, <2>2 DEF Course, Starting
<1>4. ASSUME NEW d \in Conn, CleanupQuiet(d) PROVE Course(s, c)
  <2>1. /\ pc' = [pc EXCEPT ![d] = "closing"] /\ pc[d] = "ending"
        /\ peers' = peers \ {d} /\ paired' = paired \ {d}
        /\ UNCHANGED <<callee, missed, told>> /\ SessionDropped(d)
        /\ Partner(d) = None
    BY <1>4 DEF CleanupQuiet, Removed
  <2> QED BY <1>1, <1>2, <1>3, <2>1
<1>5. ASSUME NEW d \in Conn, Departed(d) PROVE Course(s, c)
  <2>1. /\ pc' = [pc EXCEPT ![d] = "done"] /\ pc[d] = "closing"
        /\ UNCHANGED hub /\ peers' = peers
    BY <1>5 DEF Departed, Returns
  <2> QED BY <2>1, CourseMove
<1>6. ASSUME NEW d \in Clients, CleanupCloses(d) PROVE Course(s, c)
  <2>1. /\ pc' = [pc EXCEPT ![d] = "cleanup"] /\ pc[d] = "ending" /\ d \in Conn
        /\ UNCHANGED <<peers, paired, callee, missed, told>> /\ SessionDropped(d)
        /\ sock' = [sock EXCEPT ![Partner(d)] = "closed"]
    BY <1>6 DEF CleanupCloses, Conn
  <2>2. (Told(s, c) /\ c = d /\ s \in peers) => sock'[s] = "closed"
    BY <1>0, <1>2, <2>1 DEF HubTypeOK
  <2> QED BY <1>1, <1>3, <2>1, <2>2
<1>7. ASSUME NEW d \in Clients, CleanupEnds(d) PROVE Course(s, c)
  <2>1. /\ pc' = [pc EXCEPT ![d] = "cleanup"] /\ pc[d] = "ending" /\ d \in Conn
        /\ UNCHANGED <<peers, paired, callee, missed>> /\ SessionDropped(d)
        /\ told' = [told EXCEPT ![Partner(d)] = told[Partner(d)] \ {d}]
    BY <1>7 DEF CleanupEnds, Conn
  <2>2. told'[s] \subseteq told[s]
    BY <1>0, <2>1 DEF HubTypeOK
  <2>3. (Told(s, c) /\ c = d /\ s \in peers) => c \notin told'[s]
    BY <1>0, <1>2, <2>1 DEF HubTypeOK
  <2> QED BY <1>1, <1>3, <2>1, <2>2, <2>3
<1>8. ASSUME NEW d \in Clients, CleanupRaises(d) PROVE Course(s, c)
  <2>1. /\ pc' = [pc EXCEPT ![d] = "done"] /\ pc[d] = "ending" /\ d \in Conn
        /\ UNCHANGED <<peers, paired, callee, missed, told>> /\ SessionDropped(d)
        /\ sock[Partner(d)] # "open"
    BY <1>8 DEF CleanupRaises, Returns, Raises, Conn
  <2>2. (Told(s, c) /\ c = d /\ s \in peers) => sock[s] # "open"
    BY <1>2, <2>1
  <2> QED BY <1>1, <1>3, <2>1, <2>2
<1>9. ASSUME NEW d \in Clients, CleanupGoesOn(d) PROVE Course(s, c)
  <2>1. /\ pc' = [pc EXCEPT ![d] = "closing"] /\ pc[d] = "cleanup" /\ d \in Conn
        /\ peers' = peers \ {d} /\ paired' = paired \ {d}
        /\ UNCHANGED <<callee, missed, told, sessions>>
    BY <1>9 DEF CleanupGoesOn, Removed, Conn
  <2>2. Told(s, c) => c # d
    BY <2>1, Kinds DEF SessionsInv, Idle, Serving, Told
  <2> QED BY <1>3, <2>1, <2>2
<1> QED BY <1>4, <1>5, <1>6, <1>7, <1>8, <1>9

LEMMA Courses ==
  ASSUME SessionsInv, [Next]_vars, NEW s \in Servers, NEW c \in Clients
  PROVE  Course(s, c)
<1>1. CASE UNCHANGED vars \/ \E k \in Keys : Forget(k)
  BY <1>1 DEF vars, Forget, hub, Course, Told, Starting
<1>2. CASE ~(UNCHANGED vars \/ \E k \in Keys : Forget(k))
  BY <1>2, CourseHandshake, CourseHello, CourseServe, CourseCleanup DEF Next
<1> QED BY <1>1, <1>2

\* A server that a step registers was told of nobody.
LEMMA ToldBefore ==
  ASSUME SessionsInv, [Next]_vars, NEW s \in Servers, s \in peers', told'[s] # {}
  PROVE  s \in peers
<1>0. SUFFICES ASSUME s \notin peers PROVE told'[s] = {}
  OBVIOUS
<1>1. \E t \in Servers : ServerHello(t) /\ t = s
  <2>1. ASSUME NEW p \in Conn,
               \/ Connect(p) \/ Leave(p) \/ Flush(p) \/ Notice(p) \/ Unknown(p)
               \/ Greet(p) \/ GreetFails(p) \/ Pop(p) \/ HandshakeFailed(p)
               \/ CleanupQuiet(p) \/ Departed(p)
        PROVE  peers' \subseteq peers
    BY <2>1 DEF Connect, Leave, Flush, Notice, Unknown, Greet, GreetFails, Pop,
                HandshakeFailed, CleanupQuiet, Departed, LoopEnds, Removed
  <2>2. ASSUME NEW t \in Servers, ServerRelayFails(t) PROVE peers' \subseteq peers
    BY <2>2 DEF ServerRelayFails, LoopEnds
  <2>3. ASSUME NEW c \in Clients,
               \/ ClientRelayFails(c) \/ SessionAsked(c) \/ SessionOk(c)
               \/ SessionFails(c) \/ SessionStored(c) \/ CleanupCloses(c)
               \/ CleanupEnds(c) \/ CleanupRaises(c) \/ CleanupGoesOn(c)
        PROVE  peers' \subseteq peers
    BY <2>3 DEF ClientRelayFails, SessionAsked, SessionOk, SessionFails, SessionStored,
                CleanupCloses, CleanupEnds, CleanupRaises, CleanupGoesOn, LoopEnds, Removed
  <2>4. ASSUME NEW c \in Clients, ClientHello(c) PROVE peers' \subseteq peers \cup {c}
    BY <2>4, Hello DEF SessionsInv
  <2>5. ASSUME NEW t \in Servers, ServerHello(t) PROVE peers' \subseteq peers \cup {t}
    BY <2>5 DEF ServerHello
  <2>6. s \notin Clients
    BY Kinds
  <2> QED BY <1>0, <2>1, <2>2, <2>3, <2>4, <2>5, <2>6 DEF Next, Forget, vars
<1> QED BY <1>1 DEF ServerHello, SessionsInv, Unpaired, hub

LEMMA UnpairedStep == SessionsInv /\ [Next]_vars => Unpaired'
<1> SUFFICES ASSUME SessionsInv, [Next]_vars PROVE Unpaired'
  OBVIOUS
<1>1. ASSUME NEW c \in Clients, pc'[c] \in {"ok", "start"}, c \in paired' PROVE FALSE
  <2>1. PICK s \in Servers : TRUE
    BY ClientsAssumption DEF Servers
  <2>2. Course(s, c)
    BY <2>1, Courses
  <2> QED BY <1>1, <2>2 DEF Course, SessionsInv, Unpaired
<1>2. ASSUME NEW s \in Servers, pc'[s] \in {"new", "hello"}, NEW c \in told'[s] PROVE FALSE
  <2>1. HubTypeOK'
    BY HStep DEF SessionsInv, HInv
  <2>2. c \in Clients
    BY <1>2, <2>1 DEF HubTypeOK
  <2>3. Course(s, c)
    BY <2>2, Courses
  <2> QED BY <1>2, <2>3 DEF Course, SessionsInv, Unpaired
<1> QED BY <1>1, <1>2 DEF Unpaired

LEMMA OwedStep == SessionsInv /\ SessionOwed /\ [Next]_vars => SessionOwed'
<1> SUFFICES ASSUME SessionsInv, SessionOwed, [Next]_vars,
                    NEW s \in peers' \cap Servers, sock'[s] = "open", NEW c \in told'[s]
             PROVE  c \in missed' \/ Starting(s, c)' \/ Told(s, c)' \/ Due(End(s, c))'
  BY DEF SessionOwed, Starting, Told, Due, End
<1>0. HInv /\ HInv' /\ HubTypeOK /\ s \in Conn
  BY HStep DEF SessionsInv, HInv, Conn
<1>1. c \in Clients
  BY <1>0 DEF HInv, HubTypeOK
<1>2. Course(s, c)
  BY <1>1, Courses
<1>3. s \in peers
  BY ToldBefore
<1>4. sock[s] = "open"
  <2>1. Fate(s)
    BY <1>0, Fates
  <2>2. pc'[s] # "hello"
    BY <1>0 DEF HInv, Posted
  <2> QED BY <2>1, <2>2 DEF Fate
<1>5. CASE c \in told[s]
  <2>1. c \in missed \/ Starting(s, c) \/ Told(s, c) \/ Due(End(s, c))
    BY <1>3, <1>4, <1>5 DEF SessionOwed, Starting, Told, Due
  <2>2. ASSUME NEW q \in Conn, Flush(q), End(s, c) = Head(todo[q]) PROVE FALSE
    <3>1. End(s, c).do = "end" /\ End(s, c).to = s /\ End(s, c).of = c
      BY DEF End
    <3>2. PICK d : d = Head(todo[q])
      OBVIOUS
    <3>3. told' = IF d.do = "end" /\ Passes(d.to)
                  THEN [told EXCEPT ![d.to] = told[d.to] \ {d.of}] ELSE told
      BY <2>2, <3>2 DEF Flush
    <3>4. told' = [told EXCEPT ![s] = told[s] \ {c}]
      BY <1>4, <2>2, <3>1, <3>2, <3>3 DEF Passes
    <3>5. c \notin told'[s]
      BY <1>0, <3>4 DEF HubTypeOK
    <3> QED BY <3>5
  <2>3. CASE Due(End(s, c))
    <3>1. PICK d : d = End(s, c)
      OBVIOUS
    <3>2. Due(d)'
      BY <1>0, <2>2, <2>3, <3>1, StillDue
    <3> QED BY <3>1, <3>2 DEF Due, End
  <2> QED BY <1>2, <1>3, <1>4, <2>1, <2>3 DEF Course
<1>6. CASE c \notin told[s]
  BY <1>2, <1>6 DEF Course
<1> QED BY <1>5, <1>6

\* Theorem: the server peer is not left with the session of a client that is
\* gone, for any clients, servers and roles.
THEOREM SessionsEnded == Spec => []SessionsEnd
<1>1. Init => Unpaired /\ SessionOwed
  BY DEF Init, Unpaired, SessionOwed, Conn
<1>2. SessionOwed => SessionsEnd
  BY DEF SessionOwed, SessionsEnd
<1>3. HInv /\ SInv /\ Unpaired => SessionsInv
  BY DEF SessionsInv, SInv
<1> QED BY <1>1, <1>2, <1>3, HAlways, SAlways, UnpairedStep, OwedStep, PTL DEF Spec

=============================================================================
