-------------------------------- MODULE Pacer --------------------------------
(***************************************************************************)
(* The packet pacer of a WebRTC transport (webrtc/pacer.py): packets of    *)
(* the data channels ("dc") and of the video ("video": media, repair and   *)
(* retransmitted packets) share the credit of a token bucket.  A packet    *)
(* goes straight out when nothing is queued and credit covers it;          *)
(* otherwise it is queued and the drain task sends it, data channels       *)
(* first.  Video is the only class that is dropped: a queue over its       *)
(* budget resets the group of pictures (GOP).  RTCP and audio bypass the   *)
(* pacer's state and are left out.                                         *)
(*                                                                         *)
(* No send of the ICE stack waits (a datagram, or a task, takes the        *)
(* packet), so a frame, and a pass of the drain, is done without yielding. *)
(* A packet is its size.  Time passes in half seconds (Tick) for the       *)
(* timeouts; the milliseconds in which credit accrues are the choices of   *)
(* Accrued.  A sleep of the drain may end at any moment: a poke, the       *)
(* credit for a head and DRAIN_MAX_SLEEP_S wake it with any credit.        *)
(***************************************************************************)
EXTENDS Integers, Sequences, FiniteSetsExt, SequencesExt

CONSTANTS Channels,      \* the tasks that send on data channels
          DcSizes,       \* sizes of their packets (one packet or more of
                         \* video is the unit)
          KeySizes,      \* packets of a keyframe
          Encoders,      \* the bitrates an encoder may be set to
          MinPace,       \* MIN_PACE_BPS
          BurstFloor,    \* BURST_FLOOR_BYTES
          PacePerBurst,  \* pace per unit of DEBT_WINDOW_S
          IdrWindow,     \* IDR_WINDOW
          HighWater, LowWater,  \* DC_HIGH_WATER_BYTES, DC_LOW_WATER_BYTES
          Deadline,      \* the deadline of queued video is set (VIDEO_STALE_S)
          PacerBudgets   \* bounds: keys, dc (packets), turns (of the encoder's
                         \* bitrate), failures (of a send), closes

ASSUME PacerAssumption ==
  /\ DcSizes \subseteq Nat \ {0} /\ KeySizes \subseteq Nat \ {0}
  /\ Encoders \subseteq Nat \ {0} /\ MinPace \in Nat \ {0}
  /\ BurstFloor \in Nat \ {0} /\ PacePerBurst \in Nat \ {0}
  /\ IdrWindow \in Nat \ {0} /\ LowWater \in Nat /\ HighWater \in Nat
  /\ Deadline \in BOOLEAN

VARIABLES packets,       \* _queues: the sizes queued, by class
          bytes_queued,
          video_bytes,
          rate,          \* encoder, pace, overflowed (_ever_overflowed), credit
                         \* and quiet, half seconds since _last_pace_update_at
          gop,           \* dead, since (_gop_dead_at), asked (_last_keyreq), the
                         \* floor of the video budget and the idr_sizes behind it;
                         \* as history, due: a requested keyframe is still to come
          drain,         \* _drain_task: there is one
          parked,        \* per data-channel task: the packet it could not
                         \* send yet (0: none), and whether it waits (_drained)
          picture,       \* packets of a keyframe its sender still has to send
          stopped,
          clock,         \* history of the data channels: waited, half seconds
                         \* since the first packet queued got its turn or a
                         \* smaller one of video took it; due, it was queued
                         \* all the half second, without a turn of the drain
                         \* that sent something or found the bucket full
          spare          \* what is left of one of PacerBudgets

flowVars == <<packets, bytes_queued, video_bytes, rate, gop, drain>>
pacerVars == <<flowVars, parked, picture, stopped, clock, spare>>

Classes == {"dc", "video"}
AtMost(m, n) == IF m <= n THEN m ELSE n
AtLeast(m, n) == IF m <= n THEN n ELSE m
Bytes(q) ==
  LET upto[n \in 0 .. Len(q)] == IF n = 0 THEN 0 ELSE upto[n - 1] + q[n] IN
  upto[Len(q)]
-----------------------------------------------------------------------------
(* Rates *)

Ceiling(r) == (5 * r.encoder) \div 2            \* PACE_FACTOR
DepthFloor(r) == AtLeast(MinPace, (35 * r.encoder) \div 100)  \* AIMD_FLOOR_FACTOR
BurstCap(r) == AtLeast(BurstFloor, r.pace \div PacePerBurst)

\* A pace is applied: the burst budget clamps the credit.
Paced(r, pace) ==
  LET paced == [r EXCEPT !.pace = pace] IN
  [paced EXCEPT !.credit = AtMost(@, BurstCap(paced))]

\* The brake, to the measured rate of the link or to half the pace.
Braked(r) ==
  LET braked == [r EXCEPT !.overflowed = TRUE, !.quiet = 0]
      targets == {r.pace \div 2} \cup (MinPace .. Ceiling(r)) IN
  {Paced(braked, AtMost(r.pace, AtLeast(t, DepthFloor(r)))) : t \in targets}

Recovered(r) ==
  IF r.quiet < 2 THEN r
  ELSE Paced([r EXCEPT !.quiet = 0],
             IF r.pace < Ceiling(r) THEN r.pace + 1 ELSE r.pace)

Refreshed(r, bps) ==
  LET set == [r EXCEPT !.encoder = bps]
      pace == IF r.overflowed THEN AtMost(r.pace, Ceiling(set)) ELSE Ceiling(set) IN
  Paced(set, AtLeast(pace, MinPace))

\* Time has passed since the credit was last counted.
Accrued(r) == {[r EXCEPT !.credit = c] : c \in r.credit .. BurstCap(r)}

VideoCap(r, g) == AtLeast(r.pace, g.floor)
-----------------------------------------------------------------------------
(* The group of pictures *)

\* request_keyframe_once: half a second must have passed since the last one.
Requested(g) ==
  IF g.asked < 1 THEN g ELSE [g EXCEPT !.asked = 0, !.due = TRUE]

\* _reset_gop, of a GOP that is alive.
Reset_Gop(g) ==
  IF g.dead THEN g ELSE Requested([g EXCEPT !.dead = TRUE, !.since = 0])

\* The n newest packets of q; as many of them as fit.
Newest(q, n) == SubSeq(q, AtLeast(0, Len(q) - n) + 1, Len(q))
Trimmed(q, room) ==
  Newest(q, CHOOSE n \in 0 .. Len(q) :
              /\ Bytes(Newest(q, n)) <= room
              /\ n < Len(q) => Bytes(Newest(q, n + 1)) > room)

Alive(g) == [g EXCEPT !.dead = FALSE, !.since = 0]

\* Mutant: a requested keyframe only resurrects.
Noted_ForcedIgnored(g, size) ==
  LET window == Newest(Append(g.idr_sizes, size), IdrWindow) IN
  IF g.asked < 1 THEN Alive(g)
  ELSE [Alive(g) EXCEPT !.idr_sizes = window,
                        !.floor = (22 * Max(ToSet(window))) \div 10]

\* note_keyframe: a natural one enters the window, a requested one may only
\* raise the floor; 2.2 times the size must fit.
Noted(g, size) ==
  LET fits(n) == (22 * n) \div 10
      window == Newest(Append(g.idr_sizes, size), IdrWindow)
      alive == Alive(g) IN
  IF g.asked < 1
  THEN [alive EXCEPT !.floor = AtLeast(@, fits(size))]
  ELSE [alive EXCEPT !.idr_sizes = window, !.floor = fits(Max(ToSet(window)))]
-----------------------------------------------------------------------------
NoPacket == [size |-> 0, waits |-> FALSE]

PacerInit ==
  /\ packets = [c \in Classes |-> <<>>] /\ bytes_queued = 0 /\ video_bytes = 0
  /\ \E bps \in Encoders :
       rate = Refreshed([encoder |-> bps, pace |-> MinPace, overflowed |-> FALSE,
                         credit |-> 0, quiet |-> 2], bps)
  /\ gop = [dead |-> FALSE, since |-> 0, asked |-> 1, floor |-> 0,
            idr_sizes |-> <<>>, due |-> FALSE]
  /\ drain = FALSE
  /\ parked = [d \in Channels |-> NoPacket]
  /\ picture = 0 /\ stopped = FALSE /\ spare \in PacerBudgets
  /\ clock = [due |-> FALSE, waited |-> 0]

\* _kick, _release_senders
Kicks == drain' = TRUE
LetThrough == [d \in Channels |-> [parked[d] EXCEPT !.waits = FALSE]]

Spends(what) ==
  /\ spare[what] > 0
  /\ spare' = [spare EXCEPT ![what] = @ - 1]
-----------------------------------------------------------------------------
(* send *)

\* Mutant: what is trimmed is not taken off the total.
Enqueued_KeepsBytes(c, kept, size, r) ==
  LET lost == Bytes(packets[c]) - Bytes(kept) IN
  /\ packets' = [packets EXCEPT ![c] = Append(kept, size)]
  /\ bytes_queued' = bytes_queued + size
  /\ video_bytes' = IF c = "video" THEN video_bytes - lost + size ELSE video_bytes
  /\ Kicks /\ rate' = r

\* Behind what is kept of its class.
Enqueued(c, kept, size, r) ==
  LET lost == Bytes(packets[c]) - Bytes(kept) IN
  /\ packets' = [packets EXCEPT ![c] = Append(kept, size)]
  /\ bytes_queued' = bytes_queued - lost + size
  /\ video_bytes' = IF c = "video" THEN video_bytes - lost + size ELSE video_bytes
  /\ Kicks /\ rate' = r

Purged ==
  /\ packets' = [packets EXCEPT !["video"] = <<>>]
  /\ bytes_queued' = bytes_queued - video_bytes
  /\ video_bytes' = 0
  /\ UNCHANGED drain

\* Over the video budget the GOP is reset, and the oldest packets leave until
\* the newcomer fits; one that does not fit at all is dropped with them.
QueuedVideo(size, r, g) ==
  LET room == VideoCap(r, g) - size
      video == packets["video"] IN
  IF video_bytes <= room
  THEN gop' = g /\ Enqueued("video", video, size, r)
  ELSE /\ gop' = Reset_Gop(g)
       /\ \E braked \in Braked(r) :
            IF room >= 0 THEN Enqueued("video", Trimmed(video, room), size, braked)
            ELSE rate' = braked /\ Purged

\* Straight out, when nothing is queued and credit covers it.
Covered_By(r, size) == bytes_queued = 0 /\ size <= r.credit

FastPath(r, size) ==
  /\ rate' = [r EXCEPT !.credit = @ - size]
  /\ UNCHANGED <<packets, bytes_queued, video_bytes, drain>>

\* A dead GOP takes nothing, for a second.  With a deadline, video found to be
\* late is purged with the newcomer.
SendVideo(size) ==
  LET g == Alive(gop) IN
  IF gop.dead /\ gop.since < 2
  THEN /\ rate' = Recovered(rate)
       /\ UNCHANGED <<packets, bytes_queued, video_bytes, gop, drain>>
  ELSE \/ /\ Deadline /\ packets["video"] # <<>>
          /\ gop' = Reset_Gop(g) /\ rate' \in Braked(Recovered(rate)) /\ Purged
       \/ \E r \in Accrued(Recovered(rate)) :
            IF Covered_By(r, size) THEN gop' = g /\ FastPath(r, size)
            ELSE QueuedVideo(size, r, g)

SendData(size, refreshed) ==
  /\ UNCHANGED gop
  /\ \E r \in Accrued(refreshed) :
       IF Covered_By(r, size) THEN FastPath(r, size)
       ELSE Enqueued("dc", packets["dc"], size, r)
-----------------------------------------------------------------------------
(* The callers *)

\* The video sender is not in the middle of a keyframe: the others may run.
Yields == picture = 0 /\ UNCHANGED picture

\* The sender reports a keyframe - one that was requested, or another - and
\* sends its packets.
Keyframe(size) ==
  /\ ~stopped /\ picture = 0 /\ Spends("keys")
  /\ picture' = size
  /\ \E answers \in {FALSE, gop.due} :
       gop' = [Noted(gop, size) EXCEPT !.due = @ /\ ~answers]
  /\ UNCHANGED <<packets, bytes_queued, video_bytes, rate, drain, parked,
                 stopped, clock>>

KeyframePacket ==
  /\ picture > 0
  /\ picture' = picture - 1
  /\ SendVideo(1)
  /\ UNCHANGED <<parked, stopped, clock, spare>>

\* A frame that decodes against the one before it, or a retransmission.
DeltaFrame ==
  /\ ~stopped /\ Yields
  /\ SendVideo(1)
  /\ UNCHANGED <<parked, stopped, clock, spare>>

\* Above the high water mark a data-channel task waits for the backlog.
DataPacket(d, size) ==
  /\ ~stopped /\ Yields /\ parked[d] = NoPacket /\ Spends("dc")
  /\ IF bytes_queued >= HighWater
     THEN /\ parked' = [parked EXCEPT ![d] = [size |-> size, waits |-> TRUE]]
          /\ rate' = Recovered(rate) /\ Kicks
          /\ UNCHANGED <<packets, bytes_queued, video_bytes, gop>>
     ELSE SendData(size, Recovered(rate)) /\ UNCHANGED parked
  /\ UNCHANGED <<stopped, clock>>

WaitTimesOut(d) ==
  /\ Yields /\ parked[d].waits
  /\ parked' = [parked EXCEPT ![d].waits = FALSE]
  /\ UNCHANGED <<flowVars, stopped, clock, spare>>

\* A task that was let through sends, or raises on a pacer that was stopped.
Resumes(d) ==
  /\ Yields /\ parked[d].size > 0 /\ ~parked[d].waits
  /\ parked' = [parked EXCEPT ![d] = NoPacket]
  /\ IF stopped THEN UNCHANGED flowVars ELSE SendData(parked[d].size, rate)
  /\ UNCHANGED <<stopped, clock, spare>>
-----------------------------------------------------------------------------
(* The drain task *)

\* Mutant: a packet leaves when credit covers it, and only then.
Affordable_Covered(r, size) == size <= r.credit

\* A packet wider than the burst budget leaves on a full bucket.
Affordable(r, size) ==
  \/ size <= r.credit
  \/ size > BurstCap(r) /\ r.credit >= BurstCap(r)

Spent(r, n) == [r EXCEPT !.credit = @ - n]

\* How many packets of q a pass sends, one by one as credit lasts.
Sends(r, q) ==
  LET leaves(i) == Affordable(Spent(r, Bytes(SubSeq(q, 1, i - 1))), q[i]) IN
  CHOOSE n \in 0 .. Len(q) :
    (\A i \in 1 .. n : leaves(i)) /\ (n < Len(q) => ~leaves(n + 1))

Awakes == Yields /\ drain

\* A pass sends what credit covers: data channels, then video.  A data packet
\* that is not affordable yet does not hold back the video behind it.
Pass(r) ==
  LET dc == packets["dc"]
      video == packets["video"]
      ofDc == Sends(r, dc)
      afterDc == Spent(r, Bytes(SubSeq(dc, 1, ofDc)))
      ofVideo == Sends(afterDc, video)
      left == [packets EXCEPT !["dc"] = Newest(dc, Len(dc) - ofDc),
                              !["video"] = Newest(video, Len(video) - ofVideo)]
      sentVideo == video_bytes - Bytes(left["video"]) IN
  /\ packets' = left
  /\ video_bytes' = video_bytes - sentVideo
  /\ bytes_queued' = bytes_queued - (Bytes(dc) - Bytes(left["dc"])) - sentVideo
  /\ rate' = Spent(afterDc, sentVideo)

\* The pass left the first data packet where it was: nothing was sent, or
\* video no smaller than that packet.
PassedOver ==
  \/ packets' = packets
  \/ /\ packets'["dc"] = packets["dc"] /\ packets["dc"] # <<>>
     /\ Head(packets["video"]) >= Head(packets["dc"])

DrainRuns ==
  \E r \in Accrued(Recovered(rate)) :
    /\ Awakes /\ Pass(r)
    /\ parked' = IF bytes_queued' <= LowWater THEN LetThrough ELSE parked
    /\ drain' = (bytes_queued' # 0)
    /\ clock' = [due |-> clock.due /\ packets' = packets /\ r.credit < BurstCap(r),
                 waited |-> IF PassedOver THEN clock.waited ELSE 0]
    /\ UNCHANGED <<gop, stopped, spare>>

\* The n-th send of a pass fails: all that is queued is dropped, and the GOP.
SendFails ==
  /\ Spends("failures")
  /\ \E r \in Accrued(Recovered(rate)) :
       LET dc == packets["dc"]
           video == packets["video"]
           ofDc == Sends(r, dc)
           ofVideo == Sends(Spent(r, Bytes(SubSeq(dc, 1, ofDc))), video)
           sent == SubSeq(dc, 1, ofDc) \o SubSeq(video, 1, ofVideo) IN
       /\ Awakes
       /\ \E n \in 1 .. Len(sent) :
            LET failed == Spent(r, Bytes(SubSeq(sent, 1, n))) IN
            rate' \in IF gop.dead THEN {failed} ELSE Braked(failed)
  /\ gop' = Reset_Gop(gop)
  /\ packets' = [c \in Classes |-> <<>>] /\ bytes_queued' = 0 /\ video_bytes' = 0
  /\ parked' = LetThrough /\ drain' = FALSE
  /\ clock' = [due |-> FALSE, waited |-> 0]
  /\ UNCHANGED stopped
-----------------------------------------------------------------------------
SetEncoder(bps) ==
  /\ ~stopped /\ Yields /\ bps # rate.encoder /\ Spends("turns")
  /\ rate' = Refreshed(rate, bps)
  /\ UNCHANGED <<packets, bytes_queued, video_bytes, gop, drain, parked,
                 stopped, clock>>

CloseDown ==
  /\ ~stopped /\ Yields /\ Spends("closes")
  /\ stopped' = TRUE /\ parked' = LetThrough /\ drain' = FALSE
  /\ UNCHANGED <<packets, bytes_queued, video_bytes, rate, gop, clock>>

\* Half a second passes.  A sleep of the drain lasts DRAIN_MAX_SLEEP_S (50 ms)
\* at most, and what is sent is all that empties the bucket: it fills in 164 ms
\* at the slowest (BURST_FLOOR_BYTES at MIN_PACE_BPS).  With a packet queued all
\* the while, the drain has had a turn in which it sent something or found the
\* bucket full.
Tick ==
  /\ ~stopped /\ Yields /\ ~clock.due
  /\ clock' = [due |-> packets["dc"] # <<>>,
               waited |-> IF packets["dc"] = <<>> THEN 0
                          ELSE AtMost(clock.waited + 1, 2)]
  /\ rate' = [rate EXCEPT !.quiet = AtMost(@ + 1, 2)]
  /\ gop' = [gop EXCEPT !.asked = 1,
                        !.since = IF gop.dead THEN AtMost(@ + 1, 2) ELSE @]
  /\ UNCHANGED <<packets, bytes_queued, video_bytes, drain, parked,
                 stopped, spare>>

PacerNext ==
  \/ \E size \in KeySizes : Keyframe(size)
  \/ KeyframePacket \/ DeltaFrame
  \/ \E d \in Channels :
       (\E size \in DcSizes : DataPacket(d, size)) \/ WaitTimesOut(d) \/ Resumes(d)
  \/ DrainRuns \/ SendFails
  \/ \E bps \in Encoders : SetEncoder(bps)
  \/ CloseDown \/ Tick

PacerSpec == PacerInit /\ [][PacerNext]_pacerVars
-----------------------------------------------------------------------------
(* Properties *)

\* Whatever is sent, trimmed, purged or lost with a failed send, the counters
\* the pacer decides by are those of its queues, and a queue that is not empty
\* has a drain task.
Ledger ==
  /\ bytes_queued = Bytes(packets["dc"]) + Bytes(packets["video"])
  /\ video_bytes = Bytes(packets["video"])
  /\ bytes_queued > 0 /\ ~stopped => drain

\* The video budget covers what is left of a keyframe, after any brake, change
\* of bitrate and smaller keyframe (IDR_FLOOR_FACTOR, IDR_WINDOW).
KeyframeFits == picture <= VideoCap(rate, gop)

\* The first data packet leaves within the half second, one wider than the burst
\* budget too and whatever the brakes do to the budget, unless a smaller packet
\* of video takes the credit it waits for: only a smaller one can.  Each of those
\* starts the half second again, so that while there is such video the wait has
\* no bound.
Prompt == clock.waited <= 1

\* "GOP reset, keyframe requested": while video is dead a keyframe is to come.
KeyframeToCome == gop.dead => gop.due
=============================================================================
