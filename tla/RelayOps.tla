------------------------------ MODULE RelayOps ------------------------------
(***************************************************************************)
(* The data of one _VideoRelay (src/src/selkies/selkies.py) and what its   *)
(* synchronous methods do to it: the bounded backlog between the encoder's *)
(* fan-out and one client's socket.  Pure operators on a relay record, so  *)
(* that the single relay (VideoRelay) and the whole fan-out (VideoFanout)  *)
(* run the same code.                                                      *)
(*                                                                         *)
(* An encoded chunk is a stripe ROW of one captured frame.  "idr" and      *)
(* "delta" are the two H.264 picture types of the wire header, "jpeg" a    *)
(* self-contained stripe.  idx numbers the chunks of one row; a delta      *)
(* decodes only against the chunk of its row with the previous number.     *)
(***************************************************************************)
EXTENDS Integers, Sequences, FiniteSets

CONSTANTS Rows,    \* stripe rows of the captured picture
          Size,    \* bytes of a chunk of each kind
          Budget   \* skip-ahead bound of a backlog, in the same unit

Kinds == {"idr", "delta", "jpeg"}

ASSUME SizeAssumption   == Size \in [Kinds -> Nat \ {0}]
ASSUME BudgetAssumption == Budget \in Nat

Chunks == [row : Rows, kind : Kinds, idx : Nat]

\* floor stands for `time.monotonic() < _next_sync_req`: a keyframe was asked
\* for less than VIDEO_RELAY_SYNC_FLOOR_SECONDS ago.
Relays == [backlog : Seq(Chunks), bytes : Int, live : SUBSET Rows, floor : BOOLEAN]

\* A relay starts with nothing queued and every row gated.
FreshRelay == [backlog |-> <<>>, bytes |-> 0, live |-> {}, floor |-> FALSE]

\* Mutant: the queue is dropped but its rows stay live.
Cleared_KeepsLive(r) == [FreshRelay EXCEPT !.live = r.live, !.floor = r.floor]

Cleared(r) == [backlog |-> <<>>, bytes |-> 0, live |-> {}, floor |-> r.floor]

flush_for_gate(r) == IF r.backlog # <<>> \/ r.live # {} THEN Cleared(r) ELSE r

\* Mutant: the budget is compared before the chunk is counted.
Overflows_Late(r, ch) == /\ ch.kind # "idr"
                         /\ r.backlog # <<>>
                         /\ r.bytes > Budget

\* A chunk that does not fit behind a queue empties the queue; keyframes are
\* exempt, and so is a chunk with nothing in front of it.
Overflows(r, ch) == /\ ch.kind # "idr"
                    /\ r.backlog # <<>>
                    /\ r.bytes + Size[ch.kind] > Budget

AfterOverflow(r, ch) == IF Overflows(r, ch) THEN Cleared(r) ELSE r

\* A delta of a row whose keyframe is not in this client's stream.
Gated(r, ch) == ch.kind = "delta" /\ ch.row \notin AfterOverflow(r, ch).live

Drops(r, ch) == Overflows(r, ch) \/ Gated(r, ch)

\* _want_sync, consulted only for a drop
WantsSync(r, ch) == Drops(r, ch) /\ ~r.floor

\* Mutant: the row is read at the wrong offset of the wire header.
offer_WrongByte(r, ch) ==
  [backlog |-> IF Gated(r, ch) THEN r.backlog ELSE Append(AfterOverflow(r, ch).backlog, ch),
   bytes   |-> AfterOverflow(r, ch).bytes + (IF Gated(r, ch) THEN 0 ELSE Size[ch.kind]),
   live    |-> IF ch.kind = "idr" THEN r.live \union {ch.kind} ELSE AfterOverflow(r, ch).live,
   floor   |-> r.floor \/ Drops(r, ch)]

offer(r, ch) ==
  LET r1 == AfterOverflow(r, ch)
      admitted == ~Gated(r, ch)
  IN  [backlog |-> IF admitted THEN Append(r1.backlog, ch) ELSE r1.backlog,
       bytes   |-> IF admitted THEN r1.bytes + Size[ch.kind] ELSE r1.bytes,
       live    |-> IF ch.kind = "idr" THEN r1.live \union {ch.row} ELSE r1.live,
       floor   |-> r.floor \/ Drops(r, ch)]

\* The pop at the top of the sender task's loop.
Popped(r) == [backlog |-> Tail(r.backlog),
              bytes   |-> r.bytes - Size[Head(r.backlog).kind],
              live    |-> r.live,
              floor   |-> r.floor]

RowsOf(q) == { q[k].row : k \in DOMAIN q }

\* Rows that lose a chunk when ch is offered.
LostRows(r, ch) == (IF Overflows(r, ch) THEN RowsOf(r.backlog) ELSE {})
                     \union (IF Gated(r, ch) THEN {ch.row} ELSE {})
=============================================================================
