---------------------------- MODULE ServerProofs ----------------------------
(***************************************************************************)
(* Proofs about what the requests, sockets and clients of a server share.  *)
(*                                                                         *)
(* Uploads: the destination only ever holds the bytes of one transfer, for *)
(* any transfers, requests and file size.                                  *)
(*                                                                         *)
(* Tokens: overlapping walks of reconcile_clients leave every socket with  *)
(* the role of the latest table and told who has the input, for any        *)
(* sockets, grants and number of replacements.                             *)
(*                                                                         *)
(* LayoutPass: the geometry is sound for every size, and the passes keep   *)
(* the layout, the root, the monitors and the captures together for any    *)
(* clients, sizes, sides, roots and refusals.                              *)
(***************************************************************************)
EXTENDS Uploads, Tokens, LayoutPass, TLAPS

-----------------------------------------------------------------------------
(* Uploads.                                                                 *)

Staging == Requests \cup {Part}
Content == Seq(Ids \X Nat)

UploadsTypeOK ==
  /\ tracked \in [id: Ids \cup {NoId}, offset: Nat, busy: BOOLEAN, aged: BOOLEAN]
  /\ disk \in [Staging -> Content \cup {NoFile}]
  /\ dest \in [bytes: Content \cup {NoFile}, total: Nat \cup {NoTotal}]
  /\ req \in [Requests -> [id: Ids \cup {NoId}, staging: Staging, offset: Nat,
                           written: Nat, total: Nat \cup {NoTotal},
                           final: BOOLEAN]]
  /\ tracked.id = NoId => ~tracked.busy

\* What every request in progress has staged: its own file, or its part of the
\* shared one, is the beginning of its transfer's file.
Streaming ==
  \A r \in Requests : ~Idle(r) =>
    /\ req[r].staging \in {r, Part}
    /\ disk[req[r].staging] # NoFile
    /\ BeginningOf(disk[req[r].staging], req[r].id)
    /\ Len(disk[req[r].staging]) = req[r].offset + req[r].written
    /\ ~Chunked(r) => req[r].offset = 0 /\ req[r].total = FileSize

UploadsInv == UploadsTypeOK /\ Streaming /\ WholeFile /\ Undisturbed /\ Banked

\* Appending the next byte of a transfer to a beginning of its file.
LEMMA AppendNext ==
  ASSUME NEW u \in Ids, NEW s \in Content, BeginningOf(s, u)
  PROVE  LET t == Append(s, <<u, Len(s) + 1>>)
         IN t \in Content /\ BeginningOf(t, u) /\ Len(t) = Len(s) + 1
<1>1. <<u, Len(s) + 1>> \in Ids \X Nat
  BY DEF Content
<1> QED BY <1>1 DEF Content, BeginningOf

LEMMA EmptySeq == ASSUME NEW B PROVE <<>> \in Seq(B)
OBVIOUS

LEMMA EmptyContent == <<>> \in Content /\ <<>> # NoFile
BY EmptySeq, UploadsAssumption DEF Content

LEMMA InitUploadsInv == UploadsInit => UploadsInv
BY UploadsAssumption
   DEF UploadsInit, UploadsInv, UploadsTypeOK, Streaming, WholeFile, Undisturbed,
       Banked, NoEntry, NoDest, IdleRequest, Idle, Chunked, Staging
\* A chunk's opening: refused, a new transfer, a continuation or a discard.
LEMMA ChunkKeeps ==
  ASSUME UploadsInv, NEW r \in Requests, NEW u \in Ids, NEW o \in Nat,
         NEW t \in {NoTotal, FileSize}, NEW f \in BOOLEAN, Chunk(r, u, o, t, f)
  PROVE  UploadsInv'
<1> DEFINE entry == IF Expired THEN NoEntry ELSE tracked
           part == IF Expired THEN NoFile ELSE disk[Part]
           begin == [id |-> u, staging |-> Part, offset |-> o, written |-> 0,
                     total |-> t, final |-> f]
<1>1. /\ UploadsTypeOK /\ Streaming /\ WholeFile /\ Undisturbed /\ Banked
      /\ Idle(r) /\ dest' = dest
  BY DEF UploadsInv, Chunk
<1>2. WholeFile'
  BY <1>1 DEF WholeFile
<1>3. CASE entry.busy /\ tracked' = entry /\ disk' = [disk EXCEPT ![Part] = part] /\ req' = req
  <2>1. ~Expired
    BY <1>3 DEF NoEntry
  <2>2. tracked' = tracked /\ disk' = disk /\ req' = req
    BY <1>1, <1>3, <2>1 DEF UploadsTypeOK
  <2> QED BY <1>1, <1>2, <2>2
          DEF UploadsInv, UploadsTypeOK, Streaming, Undisturbed, Banked, Idle, Chunked,
              BeginningOf
<1>4. CASE /\ ~entry.busy
           /\ tracked' = [NoEntry EXCEPT !.id = u, !.busy = TRUE]
           /\ disk' = [disk EXCEPT ![Part] = <<>>]
           /\ req' = [req EXCEPT ![r] = begin]
           /\ o = 0
  <2>1. ~tracked.busy
    BY <1>4 DEF Expired
  <2>2. \A q \in Requests : Idle(q) \/ ~Chunked(q)
    BY <1>1, <2>1 DEF Undisturbed
  <2>a. /\ tracked' = [id |-> u, offset |-> 0, busy |-> TRUE, aged |-> FALSE]
        /\ disk'[Part] = <<>> /\ req'[r] = begin /\ o = 0
    BY <1>1, <1>4 DEF UploadsTypeOK, NoEntry, Staging
  <2>b. /\ begin.staging = Part /\ begin.id = u /\ begin.offset = 0 /\ begin.written = 0
        /\ begin \in [id: Ids \cup {NoId}, staging: Staging, offset: Nat,
                      written: Nat, total: Nat \cup {NoTotal}, final: BOOLEAN]
    BY <2>a, UploadsAssumption DEF Staging
  <2>c. <<>> \in Content /\ <<>> # NoFile
    BY EmptyContent
  <2> HIDE DEF begin, entry, part
  <2>3. UploadsTypeOK'
    <3>1. tracked' \in [id: Ids \cup {NoId}, offset: Nat, busy: BOOLEAN, aged: BOOLEAN]
      BY <2>a
    <3>2. tracked'.id # NoId
      BY <2>a, UploadsAssumption
    <3>3. disk' \in [Staging -> Content \cup {NoFile}]
      BY <1>1, <1>4, <2>c DEF UploadsTypeOK
    <3>4. req' \in [Requests -> [id: Ids \cup {NoId}, staging: Staging, offset: Nat,
                      written: Nat, total: Nat \cup {NoTotal}, final: BOOLEAN]]
      BY <1>1, <1>4, <2>b DEF UploadsTypeOK
    <3> QED BY <1>1, <3>1, <3>2, <3>3, <3>4 DEF UploadsTypeOK
  <2>4. Streaming'
    <3> SUFFICES ASSUME NEW q \in Requests, ~Idle(q)'
                 PROVE  /\ req[q].staging' \in {q, Part}
                        /\ disk[req[q].staging]' # NoFile
                        /\ BeginningOf(disk[req[q].staging]', req[q].id')
                        /\ Len(disk[req[q].staging]') = req[q].offset' + req[q].written'
                        /\ ~Chunked(q)' => req[q].offset' = 0 /\ req[q].total' = FileSize
      BY DEF Streaming, Idle, Chunked
    <3>1. CASE q = r
      BY <3>1, <2>a, <2>b, <2>c DEF Chunked, BeginningOf
    <3>2. CASE q # r
      <4>1. req[q]' = req[q] /\ ~Idle(q) /\ ~Chunked(q) /\ req[q].staging = q
        BY <1>1, <1>4, <2>2, <3>2 DEF UploadsTypeOK, Idle, Chunked, Streaming
      <4>2. disk[q]' = disk[q]
        BY <1>1, <1>4, UploadsAssumption DEF UploadsTypeOK, Staging
      <4> QED BY <1>1, <4>1, <4>2 DEF Streaming, Idle, Chunked
    <3> QED BY <3>1, <3>2
  <2>d. \A q \in Requests : q # r => req'[q] = req[q]
    BY <1>1, <1>4 DEF UploadsTypeOK
  <2>5. Undisturbed'
    BY <2>2, <2>a, <2>b, <2>c, <2>d DEF Undisturbed, Idle, Chunked
  <2>6. Banked'
    BY <2>a DEF Banked
  <2> QED BY <1>2, <2>3, <2>4, <2>5, <2>6 DEF UploadsInv
<1>5. CASE /\ ~entry.busy
           /\ o > 0
           /\ Continues(u, o, entry, part)
           /\ tracked' = [entry EXCEPT !.busy = TRUE]
           /\ disk' = [disk EXCEPT ![Part] = part]
           /\ req' = [req EXCEPT ![r] = begin]
  <2>1. ~Expired
    BY <1>5, UploadsAssumption DEF NoEntry, Continues
  <2>2. /\ ~tracked.busy /\ tracked.id = u /\ tracked.offset = o /\ disk' = disk
        /\ tracked' = [tracked EXCEPT !.busy = TRUE]
        /\ disk[Part] # NoFile /\ Len(disk[Part]) = o
    BY <1>1, <1>5, <2>1 DEF UploadsTypeOK, Continues
  <2>3. \A q \in Requests : Idle(q) \/ ~Chunked(q)
    BY <1>1, <2>2 DEF Undisturbed
  <2>4. BeginningOf(disk[Part], u)
    BY <1>1, <2>2, UploadsAssumption DEF Banked
  <2>a. /\ begin.staging = Part /\ begin.id = u /\ begin.offset = o /\ begin.written = 0
        /\ begin \in [id: Ids \cup {NoId}, staging: Staging, offset: Nat,
                      written: Nat, total: Nat \cup {NoTotal}, final: BOOLEAN]
        /\ req'[r] = begin
    BY <1>1, <1>5, UploadsAssumption DEF Staging, UploadsTypeOK
  <2> HIDE DEF begin, entry, part
  <2>5. UploadsTypeOK'
    <3>1. tracked' \in [id: Ids \cup {NoId}, offset: Nat, busy: BOOLEAN, aged: BOOLEAN]
      BY <1>1, <2>2 DEF UploadsTypeOK
    <3>2. tracked'.id # NoId
      BY <1>1, <2>2, UploadsAssumption DEF UploadsTypeOK
    <3>3. req' \in [Requests -> [id: Ids \cup {NoId}, staging: Staging, offset: Nat,
                      written: Nat, total: Nat \cup {NoTotal}, final: BOOLEAN]]
      BY <1>1, <1>5, <2>a DEF UploadsTypeOK
    <3> QED BY <1>1, <2>2, <3>1, <3>2, <3>3 DEF UploadsTypeOK
  <2>b. \A q \in Requests : q # r => req'[q] = req[q]
    BY <1>1, <1>5 DEF UploadsTypeOK
  <2>c. tracked'.id = u /\ tracked'.busy /\ tracked'.offset = o
    BY <1>1, <2>2 DEF UploadsTypeOK
  <2>6. Streaming'
    <3> SUFFICES ASSUME NEW q \in Requests, ~Idle(q)'
                 PROVE  /\ req[q].staging' \in {q, Part}
                        /\ disk[req[q].staging]' # NoFile
                        /\ BeginningOf(disk[req[q].staging]', req[q].id')
                        /\ Len(disk[req[q].staging]') = req[q].offset' + req[q].written'
                        /\ ~Chunked(q)' => req[q].offset' = 0 /\ req[q].total' = FileSize
      BY DEF Streaming, Idle, Chunked
    <3>1. CASE q = r
      BY <3>1, <2>2, <2>4, <2>a DEF Chunked
    <3>2. CASE q # r
      BY <1>1, <2>2, <2>b, <3>2 DEF Streaming, Idle, Chunked
    <3> QED BY <3>1, <3>2
  <2>7. Undisturbed'
    BY <2>2, <2>3, <2>a, <2>b, <2>c DEF Undisturbed, Idle, Chunked
  <2>8. Banked'
    BY <2>c DEF Banked
  <2> QED BY <1>2, <2>5, <2>6, <2>7, <2>8 DEF UploadsInv
<1>6. CASE /\ ~entry.busy
           /\ tracked' = NoEntry
           /\ disk' = [disk EXCEPT ![Part] = NoFile]
           /\ req' = req
  <2>1. ~tracked.busy
    BY <1>6 DEF Expired
  <2>2. \A q \in Requests : Idle(q) \/ ~Chunked(q)
    BY <1>1, <2>1 DEF Undisturbed
  <2>3. UploadsTypeOK'
    BY <1>1, <1>6 DEF UploadsTypeOK, NoEntry
  <2>4. Streaming'
    BY <1>1, <1>6, <2>2, UploadsAssumption
       DEF UploadsTypeOK, Streaming, Idle, Chunked, Staging
  <2>5. Undisturbed' /\ Banked'
    BY <1>6, <2>2 DEF Undisturbed, Banked, Idle, Chunked, NoEntry
  <2> QED BY <1>2, <2>3, <2>4, <2>5 DEF UploadsInv
<1> QED BY <1>3, <1>4, <1>5, <1>6 DEF Chunk

\* The step of every other action, given what it does to the request itself:
\* others keep their files, since a plain request's is its own and there is one
\* chunk in progress at most.
LEMMA OthersKeep ==
  ASSUME UploadsInv, NEW r \in Requests, ~Idle(r), UploadsTypeOK',
         \A q \in Requests : q # r => req'[q] = req[q],
         \A s \in Staging : s # req[r].staging => disk'[s] = disk[s],
         NEW q \in Requests, q # r, ~Idle(q)
  PROVE  /\ req'[q] = req[q] /\ disk'[req[q].staging] = disk[req[q].staging]
         /\ Chunked(q) => ~Chunked(r)
BY UploadsAssumption
   DEF UploadsInv, UploadsTypeOK, Streaming, Undisturbed, Idle, Chunked, Staging

\* The request is answered, and its staging file with its tracked transfer is
\* gone or banked.
LEMMA AnswerKeeps ==
  ASSUME UploadsInv, NEW r \in Requests, ~Idle(r), Answer(r), UploadsTypeOK', WholeFile',
         \A s \in Staging : s # req[r].staging => disk'[s] = disk[s],
         ~Chunked(r) => tracked' = tracked,
         Chunked(r) => ~tracked'.busy,
         Chunked(r) => Banked'
  PROVE  UploadsInv'
<1>1. /\ req'[r] = IdleRequest
      /\ \A q \in Requests : q # r => req'[q] = req[q]
  BY DEF Answer, UploadsInv, UploadsTypeOK
<1>2. Idle(r)'
  BY <1>1 DEF Idle, IdleRequest
<1>3. \A q \in Requests : ~Idle(q)' =>
        /\ q # r /\ ~Idle(q) /\ req'[q] = req[q]
        /\ disk'[req[q].staging] = disk[req[q].staging]
        /\ Chunked(q) => ~Chunked(r)
  <2> SUFFICES ASSUME NEW q \in Requests, ~Idle(q)'
               PROVE  /\ q # r /\ ~Idle(q) /\ req'[q] = req[q]
                      /\ disk'[req[q].staging] = disk[req[q].staging]
                      /\ Chunked(q) => ~Chunked(r)
    OBVIOUS
  <2>1. q # r
    BY <1>2
  <2>2. ~Idle(q)
    BY <1>1, <2>1 DEF Idle
  <2> QED BY <1>1, <2>1, <2>2, OthersKeep
<1>4. Streaming'
  BY <1>3 DEF UploadsInv, Streaming, Idle, Chunked
<1>5. Undisturbed'
  <2> SUFFICES ASSUME NEW q \in Requests, ~Idle(q)', Chunked(q)'
               PROVE  /\ tracked'.id = req'[q].id /\ tracked'.busy
                      /\ tracked'.offset = req'[q].offset
                      /\ disk'[Part] # NoFile
                      /\ Len(disk'[Part]) = req'[q].offset + req'[q].written
                      /\ \A p \in Requests : ~Idle(p)' /\ Chunked(p)' => p = q
    BY DEF Undisturbed, Idle, Chunked
  <2>1. ~Idle(q) /\ Chunked(q) /\ req'[q] = req[q] /\ disk'[Part] = disk[Part] /\ tracked' = tracked
    BY <1>3 DEF Chunked
  <2>2. \A p \in Requests : ~Idle(p)' /\ Chunked(p)' => ~Idle(p) /\ Chunked(p)
    BY <1>3 DEF Chunked
  <2> QED BY <2>1, <2>2 DEF UploadsInv, Undisturbed
<1>6. Banked'
  <2>1. CASE ~Chunked(r)
    <3>1. disk'[Part] = disk[Part]
      BY <2>1 DEF Chunked, Staging
    <3> QED BY <2>1, <3>1 DEF UploadsInv, Banked
  <2> QED BY <2>1
<1> QED BY <1>4, <1>5, <1>6 DEF UploadsInv

LEMMA BodyFailsKeeps ==
  ASSUME UploadsInv, NEW r \in Requests, BodyFails(r)
  PROVE  UploadsInv'
<1>1. UploadsTypeOK'
  BY UploadsAssumption
     DEF UploadsInv, UploadsTypeOK, BodyFails, Answer, IdleRequest, NoEntry, Staging
<1>2. \A s \in Staging : s # req[r].staging => disk'[s] = disk[s]
  BY DEF BodyFails, UploadsInv, UploadsTypeOK
<1> QED BY <1>1, <1>2, AnswerKeeps
        DEF BodyFails, UploadsInv, WholeFile, Banked, NoEntry

\* What Finalise puts in the destination: a beginning of the transfer's file,
\* as long as the size declared if that is what was received.
LEMMA FinaliseKeeps ==
  ASSUME UploadsInv, NEW r \in Requests, ~Idle(r), Finalise(r), Answer(r),
         req[r].total \in {NoTotal, req[r].offset + req[r].written}
  PROVE  UploadsInv'
<1>1. /\ req[r].id \in Ids /\ req[r].staging \in Staging
      /\ req[r].total \in Nat \cup {NoTotal}
      /\ disk[req[r].staging] \in Content
  BY DEF UploadsInv, UploadsTypeOK, Streaming, Idle
<1>2. UploadsTypeOK'
  <2>1. dest' \in [bytes: Content \cup {NoFile}, total: Nat \cup {NoTotal}]
    BY <1>1 DEF Finalise, UploadsInv, UploadsTypeOK
  <2>2. /\ tracked' \in [id: Ids \cup {NoId}, offset: Nat, busy: BOOLEAN, aged: BOOLEAN]
        /\ tracked'.id = NoId => ~tracked'.busy
    BY DEF Finalise, UploadsInv, UploadsTypeOK, NoEntry
  <2> QED BY <2>1, <2>2, UploadsAssumption
          DEF Finalise, UploadsInv, UploadsTypeOK, Answer, IdleRequest, Staging
<1>3. WholeFile'
  <2>1. CASE dest' = dest
    BY <2>1 DEF UploadsInv, WholeFile
  <2>2. CASE dest' = [bytes |-> disk[req[r].staging], total |-> req[r].total]
    BY <1>1, <2>2 DEF UploadsInv, Streaming, WholeFile
  <2> QED BY <2>1, <2>2 DEF Finalise
<1>4. \A s \in Staging : s # req[r].staging => disk'[s] = disk[s]
  BY DEF Finalise, UploadsInv, UploadsTypeOK
<1> QED BY <1>2, <1>3, <1>4, AnswerKeeps DEF Finalise, Banked, NoEntry

LEMMA PlainEndsKeeps ==
  ASSUME UploadsInv, NEW r \in Requests, PlainEnds(r)
  PROVE  UploadsInv'
<1>1. req[r].total = req[r].offset + req[r].written
  BY UploadsAssumption DEF PlainEnds, UploadsInv, UploadsTypeOK, Streaming
<1> QED BY <1>1, FinaliseKeeps DEF PlainEnds

LEMMA ChunkEndsKeeps ==
  ASSUME UploadsInv, NEW r \in Requests, ChunkEnds(r)
  PROVE  UploadsInv'
<1> DEFINE received == req[r].offset + req[r].written
<1>1. ~Idle(r) /\ Chunked(r) /\ Answer(r) /\ req[r].staging = Part
  BY DEF ChunkEnds, Chunked
<1>2. CASE /\ tracked' = [tracked EXCEPT !.busy = FALSE, !.offset = received, !.aged = FALSE]
           /\ disk' = disk /\ dest' = dest
  <2>1. UploadsTypeOK'
    <3>1. received \in Nat
      BY DEF UploadsInv, UploadsTypeOK
    <3>2. /\ tracked' \in [id: Ids \cup {NoId}, offset: Nat, busy: BOOLEAN, aged: BOOLEAN]
          /\ tracked'.id = NoId => ~tracked'.busy
      BY <1>2, <3>1 DEF UploadsInv, UploadsTypeOK
    <3> QED BY <1>1, <1>2, <3>2, UploadsAssumption
            DEF UploadsInv, UploadsTypeOK, Answer, IdleRequest, Staging
  <2>2. /\ ~tracked'.busy /\ tracked'.offset = received
        /\ tracked'.id = tracked.id
    BY <1>2 DEF UploadsInv, UploadsTypeOK
  <2>3. Banked'
    BY <1>1, <1>2, <2>2 DEF UploadsInv, Streaming, Undisturbed, Banked
  <2> QED BY <1>1, <1>2, <2>1, <2>2, <2>3, AnswerKeeps DEF UploadsInv, WholeFile
<1>3. CASE req[r].total \in {NoTotal, received} /\ Finalise(r)
  BY <1>1, <1>3, FinaliseKeeps
<1>4. CASE /\ tracked' = NoEntry /\ disk' = [disk EXCEPT ![Part] = NoFile]
           /\ dest' = dest
  <2>1. UploadsTypeOK'
    BY <1>1, <1>4, UploadsAssumption
       DEF UploadsInv, UploadsTypeOK, Answer, IdleRequest, NoEntry, Staging
  <2>2. \A s \in Staging : s # req[r].staging => disk'[s] = disk[s]
    BY <1>1, <1>4 DEF UploadsInv, UploadsTypeOK
  <2> QED BY <1>1, <1>4, <2>1, <2>2, AnswerKeeps DEF UploadsInv, WholeFile, Banked, NoEntry
<1> QED BY <1>2, <1>3, <1>4 DEF ChunkEnds

LEMMA WriteByteKeeps ==
  ASSUME UploadsInv, NEW r \in Requests, WriteByte(r)
  PROVE  UploadsInv'
<1> DEFINE staging == req[r].staging
           old == disk[staging]
           new == Append(old, <<req[r].id, Len(old) + 1>>)
<1>1. /\ UploadsTypeOK /\ Streaming /\ Undisturbed /\ ~Idle(r) /\ req[r].id \in Ids
      /\ staging \in Staging /\ old \in Content /\ BeginningOf(old, req[r].id)
      /\ Len(old) = req[r].offset + req[r].written
      /\ Len(old) \in Nat
  BY DEF UploadsInv, WriteByte, UploadsTypeOK, Streaming, Idle
<1>2. disk' = [disk EXCEPT ![staging] = new]
  BY <1>1 DEF WriteByte
<1>3. /\ new \in Content /\ BeginningOf(new, req[r].id) /\ Len(new) = Len(old) + 1
      /\ new # NoFile
  BY <1>1, AppendNext, UploadsAssumption DEF Content
<1> HIDE DEF new, old
<1>4. /\ req'[r] = [req[r] EXCEPT !.written = @ + 1]
      /\ \A q \in Requests : q # r => req'[q] = req[q]
      /\ disk'[staging] = new
      /\ \A s \in Staging : s # staging => disk'[s] = disk[s]
  BY <1>1, <1>2 DEF WriteByte, UploadsTypeOK
<1>5. /\ req'[r].id = req[r].id /\ req'[r].staging = staging /\ req'[r].total = req[r].total
      /\ req'[r].offset = req[r].offset /\ req'[r].written = req[r].written + 1
  BY <1>1, <1>4 DEF UploadsTypeOK
<1>6. UploadsTypeOK'
  <2>1. disk' \in [Staging -> Content \cup {NoFile}]
    BY <1>1, <1>2, <1>3 DEF UploadsTypeOK
  <2>2. req' \in [Requests -> [id: Ids \cup {NoId}, staging: Staging, offset: Nat,
                      written: Nat, total: Nat \cup {NoTotal}, final: BOOLEAN]]
    <3>1. [req[r] EXCEPT !.written = @ + 1] \in
            [id: Ids \cup {NoId}, staging: Staging, offset: Nat, written: Nat,
             total: Nat \cup {NoTotal}, final: BOOLEAN]
      <4>1. req[r] \in [id: Ids \cup {NoId}, staging: Staging, offset: Nat, written: Nat,
                        total: Nat \cup {NoTotal}, final: BOOLEAN]
        BY <1>1 DEF UploadsTypeOK
      <4>2. req[r].written + 1 \in Nat
        BY <4>1
      <4> QED BY <4>1, <4>2
    <3>2. req' = [req EXCEPT ![r] = [req[r] EXCEPT !.written = @ + 1]]
      BY <1>1 DEF WriteByte, UploadsTypeOK
    <3> QED BY <1>1, <3>1, <3>2 DEF UploadsTypeOK
  <2> QED BY <1>1, <2>1, <2>2 DEF WriteByte, UploadsTypeOK
<1>7. \A q \in Requests : ~Idle(q)' => ~Idle(q)
  BY <1>4, <1>5 DEF Idle
<1>8. \A q \in Requests : q # r /\ ~Idle(q) =>
        /\ disk'[req[q].staging] = disk[req[q].staging]
        /\ Chunked(q) => ~Chunked(r)
  BY <1>1, <1>4, <1>6, OthersKeep
<1>9. Streaming'
  <2> SUFFICES ASSUME NEW q \in Requests, ~Idle(q)'
               PROVE  /\ req'[q].staging \in {q, Part}
                      /\ disk'[req'[q].staging] # NoFile
                      /\ BeginningOf(disk'[req'[q].staging], req'[q].id)
                      /\ Len(disk'[req'[q].staging]) = req'[q].offset + req'[q].written
                      /\ ~Chunked(q)' => req'[q].offset = 0 /\ req'[q].total = FileSize
    BY DEF Streaming, Idle, Chunked
  <2>1. CASE q = r
    <3>1. req[r].offset \in Nat /\ req[r].written \in Nat
      BY <1>1 DEF UploadsTypeOK
    <3>2. Len(new) = req'[r].offset + req'[r].written
      BY <1>1, <1>3, <1>5, <3>1
    <3>3. /\ staging \in {r, Part}
          /\ staging # Part => req[r].offset = 0 /\ req[r].total = FileSize
      BY <1>1 DEF Streaming, Chunked
    <3> QED BY <1>3, <1>4, <1>5, <2>1, <3>2, <3>3 DEF Chunked
  <2>2. CASE q # r
    BY <1>1, <1>4, <1>7, <1>8, <2>2 DEF Streaming, Chunked
  <2> QED BY <2>1, <2>2
<1>10. Undisturbed'
  <2> SUFFICES ASSUME NEW q \in Requests, ~Idle(q)', Chunked(q)'
               PROVE  /\ tracked'.id = req'[q].id /\ tracked'.busy
                      /\ tracked'.offset = req'[q].offset
                      /\ disk'[Part] # NoFile
                      /\ Len(disk'[Part]) = req'[q].offset + req'[q].written
                      /\ \A p \in Requests : ~Idle(p)' /\ Chunked(p)' => p = q
    BY DEF Undisturbed, Idle, Chunked
  <2>1. tracked' = tracked
    BY DEF WriteByte
  <2>2. \A p \in Requests : ~Idle(p)' /\ Chunked(p)' => ~Idle(p) /\ Chunked(p)
    BY <1>4, <1>5, <1>7 DEF Chunked
  <2>3. disk'[Part] # NoFile /\ Len(disk'[Part]) = req'[q].offset + req'[q].written
    BY <1>9 DEF Streaming, Chunked
  <2>4. req'[q].id = req[q].id /\ req'[q].offset = req[q].offset
    BY <1>4, <1>5
  <2> QED BY <1>1, <2>1, <2>2, <2>3, <2>4 DEF Undisturbed
<1>11. Banked'
  <2>1. tracked' = tracked
    BY DEF WriteByte
  <2>2. CASE tracked.busy
    BY <2>1, <2>2 DEF Banked
  <2>3. CASE ~tracked.busy
    <3>1. staging # Part
      BY <1>1, <2>3 DEF Undisturbed, Chunked
    <3>2. disk'[Part] = disk[Part]
      BY <1>4, <3>1 DEF Staging
    <3> QED BY <2>1, <3>2 DEF UploadsInv, Banked
  <2> QED BY <2>2, <2>3
<1> QED BY <1>6, <1>9, <1>10, <1>11 DEF UploadsInv, WriteByte, WholeFile

LEMMA PlainUploadKeeps ==
  ASSUME UploadsInv, NEW r \in Requests, NEW u \in Ids, PlainUpload(r, u)
  PROVE  UploadsInv'
<1> DEFINE begin == [IdleRequest EXCEPT !.id = u, !.staging = r, !.total = FileSize]
<1>1. /\ UploadsTypeOK /\ Streaming /\ Undisturbed /\ Banked /\ WholeFile /\ Idle(r)
      /\ r \in Staging /\ r # Part
  BY UploadsAssumption DEF UploadsInv, PlainUpload, Staging
<1>2. /\ begin.id = u /\ begin.staging = r /\ begin.offset = 0 /\ begin.written = 0
      /\ begin.total = FileSize
      /\ begin \in [id: Ids \cup {NoId}, staging: Staging, offset: Nat,
                    written: Nat, total: Nat \cup {NoTotal}, final: BOOLEAN]
  BY <1>1, UploadsAssumption DEF IdleRequest
<1>3. disk' = [disk EXCEPT ![r] = <<>>] /\ req' = [req EXCEPT ![r] = begin]
  BY DEF PlainUpload
<1> HIDE DEF begin
<1>4. /\ req'[r] = begin /\ disk'[r] = <<>>
      /\ \A q \in Requests : q # r => req'[q] = req[q]
      /\ \A s \in Staging : s # r => disk'[s] = disk[s]
      /\ disk'[Part] = disk[Part]
  BY <1>1, <1>3 DEF UploadsTypeOK, Staging
<1>5. UploadsTypeOK'
  <2>1. disk' \in [Staging -> Content \cup {NoFile}]
    BY <1>1, <1>3, EmptyContent DEF UploadsTypeOK
  <2>2. req' \in [Requests -> [id: Ids \cup {NoId}, staging: Staging, offset: Nat,
                      written: Nat, total: Nat \cup {NoTotal}, final: BOOLEAN]]
    BY <1>1, <1>2, <1>3 DEF UploadsTypeOK
  <2> QED BY <1>1, <2>1, <2>2 DEF PlainUpload, UploadsTypeOK
<1>6. Streaming'
  <2> SUFFICES ASSUME NEW q \in Requests, ~Idle(q)'
               PROVE  /\ req'[q].staging \in {q, Part}
                      /\ disk'[req'[q].staging] # NoFile
                      /\ BeginningOf(disk'[req'[q].staging], req'[q].id)
                      /\ Len(disk'[req'[q].staging]) = req'[q].offset + req'[q].written
                      /\ ~Chunked(q)' => req'[q].offset = 0 /\ req'[q].total = FileSize
    BY DEF Streaming, Idle, Chunked
  <2>1. CASE q = r
    BY <1>2, <1>4, <2>1, EmptyContent DEF BeginningOf
  <2>2. CASE q # r
    <3>1. req'[q] = req[q] /\ ~Idle(q) /\ req[q].staging \in {q, Part}
      BY <1>1, <1>4, <2>2 DEF Idle, Streaming
    <3>2. disk'[req[q].staging] = disk[req[q].staging]
      BY <1>1, <1>4, <2>2, <3>1 DEF Staging
    <3> QED BY <1>1, <3>1, <3>2 DEF Streaming, Chunked
  <2> QED BY <2>1, <2>2
<1>7. Undisturbed'
  <2>1. \A q \in Requests : ~Idle(q)' /\ Chunked(q)' => ~Idle(q) /\ Chunked(q) /\ req'[q] = req[q]
    BY <1>1, <1>2, <1>4 DEF Idle, Chunked
  <2>2. tracked' = tracked
    BY DEF PlainUpload
  <2> QED BY <1>1, <1>4, <2>1, <2>2 DEF Undisturbed, Idle, Chunked
<1> QED BY <1>1, <1>4, <1>5, <1>6, <1>7 DEF UploadsInv, PlainUpload, WholeFile, Banked

LEMMA AgeKeeps == UploadsInv /\ Age => UploadsInv'
<1> SUFFICES ASSUME UploadsInv, Age PROVE UploadsInv'
  OBVIOUS
<1>1. /\ tracked' \in [id: Ids \cup {NoId}, offset: Nat, busy: BOOLEAN, aged: BOOLEAN]
      /\ tracked'.id = tracked.id /\ tracked'.busy = tracked.busy
      /\ tracked'.offset = tracked.offset
      /\ disk' = disk /\ dest' = dest /\ req' = req
  BY DEF Age, UploadsInv, UploadsTypeOK
<1>2. UploadsTypeOK'
  BY <1>1 DEF UploadsInv, UploadsTypeOK
<1> QED BY <1>1, <1>2
        DEF UploadsInv, Streaming, WholeFile, Undisturbed, Banked, Idle, Chunked, BeginningOf

LEMMA RestartKeeps == UploadsInv /\ Restart => UploadsInv'
<1> SUFFICES ASSUME UploadsInv, Restart PROVE UploadsInv'
  OBVIOUS
<1>1. UploadsTypeOK'
  BY UploadsAssumption
     DEF Restart, UploadsInv, UploadsTypeOK, NoEntry, IdleRequest, Staging
<1>2. \A r \in Requests : Idle(r)'
  BY DEF Restart, Idle, IdleRequest
<1> QED BY <1>1, <1>2
        DEF Restart, UploadsInv, Streaming, WholeFile, Undisturbed, Banked, Idle, NoEntry

THEOREM UploadsInductive == UploadsSpec => []UploadsInv
<1>1. UploadsInv /\ [UploadsNext]_uploadVars => UploadsInv'
  <2> SUFFICES ASSUME UploadsInv, [UploadsNext]_uploadVars PROVE UploadsInv'
    OBVIOUS
  <2>1. ASSUME NEW r \in Requests, UploadStep(r) PROVE UploadsInv'
    <3>1. \A o \in 0..FileSize : o \in Nat
      BY UploadsAssumption
    <3> QED BY <2>1, <3>1, PlainUploadKeeps, ChunkKeeps, WriteByteKeeps, BodyFailsKeeps,
               PlainEndsKeeps, ChunkEndsKeeps DEF UploadStep
  <2>2. CASE UNCHANGED uploadVars
    <3>1. tracked' = tracked /\ disk' = disk /\ dest' = dest /\ req' = req
      BY <2>2 DEF uploadVars
    <3>2. UploadsTypeOK' /\ Streaming'
      BY <3>1 DEF UploadsInv, UploadsTypeOK, Streaming, Idle, Chunked, BeginningOf
    <3>3. WholeFile' /\ Undisturbed' /\ Banked'
      BY <3>1 DEF UploadsInv, WholeFile, Undisturbed, Banked, Idle, Chunked, BeginningOf
    <3> QED BY <3>2, <3>3 DEF UploadsInv
  <2> QED BY <2>1, <2>2, AgeKeeps, RestartKeeps DEF UploadsNext
<1> QED BY <1>1, InitUploadsInv, PTL DEF UploadsSpec

\* For any transfers, any number of requests and any file size, the
\* destination holds the beginning of one transfer's file, complete if its
\* size was declared.
THEOREM UploadsWholeFile == UploadsSpec => []WholeFile
<1>1. UploadsInv => WholeFile
  BY DEF UploadsInv
<1> QED BY <1>1, UploadsInductive, PTL

\* Nobody takes the transfer, its entry or its staging file from a chunk whose
\* body is being streamed, whatever expires, retries or starts meanwhile.
THEOREM UploadsUndisturbed == UploadsSpec => []Undisturbed
<1>1. UploadsInv => Undisturbed
  BY DEF UploadsInv
<1> QED BY <1>1, UploadsInductive, PTL

\* What a client was told is banked is what is staged for its transfer.
THEOREM UploadsBanked == UploadsSpec => []Banked
<1>1. UploadsInv => Banked
  BY DEF UploadsInv
<1> QED BY <1>1, UploadsInductive, PTL

-----------------------------------------------------------------------------
(* Tokens.                                                                  *)

Granted == Grants \cup {NoGrant}

WalkRecords ==
  [place: {"none", "spawned", "ended"}]
    \cup [place: {"walking"}, tokens: [Sockets -> Granted],
          at: Sockets \cup {NoSocket}, left: SUBSET Sockets]

TokensTypeOK ==
  /\ user_tokens \in [Sockets -> Granted]
  /\ active_mk_token \in Sockets \cup {NoSocket}
  /\ client_permissions \in [Sockets -> Granted]
  /\ opened \in SUBSET Sockets
  /\ told \in [Sockets -> {"new", "untold", "owed", "yes", "no"}]
  /\ walks \in [1..MaxReplaces -> WalkRecords]
  /\ replaced \in 0..MaxReplaces
  /\ aborted \in BOOLEAN

\* An open socket has an entry in client_permissions, and a socket that never
\* connected has none.
Entered ==
  /\ \A c \in opened : client_permissions[c] # NoGrant
  /\ \A c \in Sockets : told[c] = "new" => client_permissions[c] = NoGrant

\* A walk in the middle of a ROLE_UPDATE is at a socket it was still to pass,
\* whose role is the one its snapshot grants: a role never changes while the
\* entry is there, whoever else updates the slot.
AtSameRole ==
  \A w \in 1..MaxReplaces :
    walks[w].place = "walking" /\ walks[w].at # NoSocket =>
      LET c == walks[w].at IN
      /\ c \in walks[w].left /\ told[c] # "new"
      /\ walks[w].tokens[c] # NoGrant
      /\ client_permissions[c] # NoGrant =>
           client_permissions[c].role = walks[w].tokens[c].role

\* The walk of the last replacement has the table that is in force.
NewestWalks ==
  (replaced # 0 /\ walks[replaced].place = "walking") =>
    walks[replaced].tokens = user_tokens

\* The walk of the last replacement is still to pass c.
ToPass(c) ==
  /\ replaced # 0
  /\ \/ walks[replaced].place = "spawned"
     \/ walks[replaced].place = "walking" /\ c \in walks[replaced].left

InForce(c) ==
  /\ user_tokens[c] # NoGrant
  /\ user_tokens[c].role = client_permissions[c].role

Informed(c) == told[c] \in {"untold", Verdict(c, client_permissions[c])}

\* What the walk of the last replacement does not pass any more is settled.
PassedSettled == ~aborted => \A c \in opened : ToPass(c) \/ (InForce(c) /\ Informed(c))

TokensInv ==
  TokensTypeOK /\ Entered /\ AtSameRole /\ NewestWalks /\ PassedSettled
-----------------------------------------------------------------------------
LEMMA WalkTypes ==
  ASSUME TokensTypeOK, NEW w \in 1..MaxReplaces, walks[w].place = "walking"
  PROVE  /\ walks[w] \in [place: {"walking"}, tokens: [Sockets -> Granted],
                          at: Sockets \cup {NoSocket}, left: SUBSET Sockets]
         /\ walks[w].tokens \in [Sockets -> Granted]
         /\ walks[w].at \in Sockets \cup {NoSocket}
         /\ walks[w].left \in SUBSET Sockets
BY DEF TokensTypeOK, WalkRecords

\* A walk that has passed a socket.
LEMMA PassedWalks ==
  ASSUME TokensTypeOK, NEW w \in 1..MaxReplaces, walks[w].place = "walking",
         NEW c \in Sockets, walks' = Passed(w, c)
  PROVE  /\ walks' \in [1..MaxReplaces -> WalkRecords]
         /\ walks'[w].place = "walking" /\ walks'[w].at = NoSocket
         /\ walks'[w].tokens = walks[w].tokens
         /\ walks'[w].left = walks[w].left \ {c}
         /\ \A v \in 1..MaxReplaces : v # w => walks'[v] = walks[v]
<1> DEFINE r == [walks[w] EXCEPT !.left = walks[w].left \ {c}, !.at = NoSocket]
<1>1. walks[w] \in [place: {"walking"}, tokens: [Sockets -> Granted],
                    at: Sockets \cup {NoSocket}, left: SUBSET Sockets]
  BY WalkTypes
<1>2. walks[w].left \ {c} \in SUBSET Sockets
  BY <1>1
<1>3. r \in WalkRecords
  BY <1>1, <1>2 DEF WalkRecords
<1>4. walks' = [walks EXCEPT ![w] = r]
  BY DEF Passed, TokensTypeOK
<1>5. /\ r.place = "walking" /\ r.at = NoSocket /\ r.tokens = walks[w].tokens
      /\ r.left = walks[w].left \ {c}
  BY <1>1
<1> HIDE DEF r
<1> QED BY <1>3, <1>4, <1>5 DEF TokensTypeOK

\* A walk replaced by another record.
LEMMA OtherWalks ==
  ASSUME TokensTypeOK, NEW w \in 1..MaxReplaces, NEW r \in WalkRecords,
         walks' = [walks EXCEPT ![w] = r]
  PROVE  /\ walks' \in [1..MaxReplaces -> WalkRecords] /\ walks'[w] = r
         /\ \A v \in 1..MaxReplaces : v # w => walks'[v] = walks[v]
BY DEF TokensTypeOK

LEMMA EndedRecord ==
  \A p \in {"none", "spawned", "ended"} :
    LET r == [place |-> p] IN r \in WalkRecords /\ r.place = p
BY DEF WalkRecords

\* The verdict depends on the role only.
LEMMA VerdictOfRole ==
  ASSUME NEW c, NEW a, NEW b, a # NoGrant, b # NoGrant, a.role = b.role
  PROVE  Verdict(c, a) = Verdict(c, b)
BY DEF Verdict, HoldsAuthority

LEMMA VerdictKinds == \A c, g : Verdict(c, g) \in {"yes", "no"}
BY DEF Verdict

LEMMA NewestIndex ==
  ASSUME TokensTypeOK, replaced # 0 PROVE replaced \in 1..MaxReplaces
BY TokensAssumption DEF TokensTypeOK
-----------------------------------------------------------------------------
LEMMA ConnectKeeps ==
  ASSUME TokensInv, NEW c \in Sockets, Connect(c)
  PROVE  TokensInv'
<1>1. TokensTypeOK /\ Entered /\ AtSameRole /\ NewestWalks /\ PassedSettled
  BY DEF TokensInv
<1>2. /\ UNCHANGED <<user_tokens, active_mk_token, walks, replaced, aborted>>
      /\ told[c] = "new" /\ user_tokens[c] # NoGrant
      /\ client_permissions'[c] = user_tokens[c] /\ told'[c] = "untold"
      /\ \A d \in Sockets : d # c => /\ client_permissions'[d] = client_permissions[d]
                                     /\ told'[d] = told[d]
      /\ opened' = opened \cup {c}
  BY <1>1 DEF TokensTypeOK, Connect
<1>3. TokensTypeOK'
  BY <1>1 DEF TokensTypeOK, Connect
<1>4. Entered'
  BY <1>1, <1>2 DEF Entered, TokensTypeOK
<1>5. AtSameRole'
  <2> SUFFICES ASSUME NEW w \in 1..MaxReplaces, walks[w].place = "walking", walks[w].at # NoSocket
               PROVE  LET d == walks[w].at IN
                      /\ d \in walks[w].left /\ told'[d] # "new"
                      /\ walks[w].tokens[d] # NoGrant
                      /\ client_permissions'[d] # NoGrant =>
                           client_permissions'[d].role = walks[w].tokens[d].role
    BY <1>2 DEF AtSameRole
  <2>1. walks[w].at \in Sockets /\ walks[w].at # c
    BY <1>1, <1>2, WalkTypes DEF AtSameRole
  <2> QED BY <1>1, <1>2, <2>1 DEF AtSameRole
<1>6. NewestWalks'
  BY <1>1, <1>2 DEF NewestWalks
<1>7. PassedSettled'
  <2> SUFFICES ASSUME ~aborted, NEW d \in opened', ~ToPass(d)
               PROVE  InForce(d)' /\ Informed(d)'
    BY <1>2 DEF PassedSettled, ToPass
  <2>1. CASE d = c
    BY <1>2, <2>1 DEF InForce, Informed
  <2>2. CASE d # c
    BY <1>1, <1>2, <2>2 DEF PassedSettled, InForce, Informed, Verdict, HoldsAuthority, TokensTypeOK
  <2> QED BY <2>1, <2>2
<1> QED BY <1>3, <1>4, <1>5, <1>6, <1>7 DEF TokensInv

LEMMA ClosesKeeps ==
  ASSUME TokensInv, NEW c \in Sockets, SocketCloses(c)
  PROVE  TokensInv'
BY DEF TokensInv, TokensTypeOK, Entered, AtSameRole, NewestWalks, PassedSettled, SocketCloses,
       ToPass, InForce, Informed, Verdict, HoldsAuthority

LEMMA HandlerKeeps ==
  ASSUME TokensInv, NEW c \in Sockets, HandlerEnds(c)
  PROVE  TokensInv'
<1>1. TokensTypeOK /\ Entered /\ AtSameRole /\ NewestWalks /\ PassedSettled
  BY DEF TokensInv
<1>2. /\ UNCHANGED <<user_tokens, active_mk_token, walks, opened, told, replaced, aborted>>
      /\ c \notin opened /\ client_permissions'[c] = NoGrant
      /\ \A d \in Sockets : d # c => client_permissions'[d] = client_permissions[d]
  BY <1>1 DEF TokensTypeOK, HandlerEnds
<1>3. TokensTypeOK'
  BY <1>1 DEF TokensTypeOK, HandlerEnds, Granted
<1>4. Entered'
  BY <1>1, <1>2 DEF Entered, TokensTypeOK
<1>5. AtSameRole'
  BY <1>1, <1>2, WalkTypes DEF AtSameRole
<1>6. NewestWalks'
  BY <1>1, <1>2 DEF NewestWalks
<1>7. PassedSettled'
  BY <1>1, <1>2 DEF PassedSettled, ToPass, InForce, Informed, Verdict, HoldsAuthority, TokensTypeOK
<1> QED BY <1>3, <1>4, <1>5, <1>6, <1>7 DEF TokensInv

\* Every open socket is to be passed by the walk that is spawned.
LEMMA ReplaceKeeps ==
  ASSUME TokensInv, NEW table \in Tables, NEW mk \in MkOwners(table), ReplaceTable(table, mk)
  PROVE  TokensInv'
<1> DEFINE spawned == [place |-> "spawned"]
<1>1. TokensTypeOK /\ Entered /\ AtSameRole /\ NewestWalks /\ PassedSettled
  BY DEF TokensInv
<1>2. replaced + 1 \in 1..MaxReplaces /\ replaced' = replaced + 1
  BY <1>1, TokensAssumption DEF TokensTypeOK, ReplaceTable
<1>3. /\ walks' \in [1..MaxReplaces -> WalkRecords] /\ walks'[replaced'].place = "spawned"
      /\ \A v \in 1..MaxReplaces : v # replaced' => walks'[v] = walks[v]
  BY <1>1, <1>2, OtherWalks, EndedRecord DEF ReplaceTable
<1>4. /\ table \in [Sockets -> Granted] /\ mk \in Sockets \cup {NoSocket}
  BY TokensAssumption DEF MkOwners, Granted
<1>5. TokensTypeOK'
  BY <1>1, <1>2, <1>3, <1>4 DEF TokensTypeOK, ReplaceTable
<1>6. Entered'
  BY <1>1 DEF Entered, TokensTypeOK, ReplaceTable
<1>7. AtSameRole'
  <2> SUFFICES ASSUME NEW w \in 1..MaxReplaces, walks'[w].place = "walking", walks'[w].at # NoSocket
               PROVE  LET d == walks'[w].at IN
                      /\ d \in walks'[w].left /\ told'[d] # "new"
                      /\ walks'[w].tokens[d] # NoGrant
                      /\ client_permissions[d] # NoGrant =>
                           client_permissions[d].role = walks'[w].tokens[d].role
    BY DEF AtSameRole, ReplaceTable
  <2>1. w # replaced' /\ walks'[w] = walks[w]
    BY <1>3
  <2>2. walks[w].at \in Sockets
    BY <1>1, <2>1, WalkTypes
  <2>3. told[walks[w].at] # "new" => told'[walks[w].at] # "new"
    BY <2>2 DEF ReplaceTable
  <2> QED BY <1>1, <2>1, <2>3 DEF AtSameRole
<1>8. NewestWalks'
  BY <1>3 DEF NewestWalks
<1>9. PassedSettled'
  BY <1>1, <1>2, <1>3 DEF PassedSettled, ToPass, TokensTypeOK
<1> QED BY <1>5, <1>6, <1>7, <1>8, <1>9 DEF TokensInv

\* A walk begins: it has every open socket before it.
LEMMA BeginKeeps ==
  ASSUME TokensInv, NEW w \in 1..MaxReplaces, BeginWalk(w)
  PROVE  TokensInv'
<1> DEFINE r == [place |-> "walking", tokens |-> user_tokens, at |-> NoSocket,
                 left |-> {c \in Sockets : client_permissions[c] # NoGrant}]
<1>1. TokensTypeOK /\ Entered /\ AtSameRole /\ NewestWalks /\ PassedSettled
  BY DEF TokensInv
<1>2. r \in WalkRecords
  BY <1>1 DEF WalkRecords, TokensTypeOK
<1>3. /\ walks' \in [1..MaxReplaces -> WalkRecords] /\ walks'[w] = r
      /\ \A v \in 1..MaxReplaces : v # w => walks'[v] = walks[v]
  BY <1>1, <1>2, OtherWalks DEF BeginWalk
<1>4. /\ UNCHANGED <<user_tokens, active_mk_token, client_permissions, opened, told,
                     replaced, aborted>>
      /\ walks[w].place = "spawned"
  BY DEF BeginWalk
<1>5. TokensTypeOK' /\ Entered'
  BY <1>1, <1>3, <1>4 DEF TokensTypeOK, Entered
<1>6. AtSameRole'
  BY <1>1, <1>3, <1>4 DEF AtSameRole
<1>7. NewestWalks'
  BY <1>1, <1>3, <1>4, NewestIndex DEF NewestWalks
<1>8. PassedSettled'
  <2>1. \A c \in opened : ToPass(c) => ToPass(c)'
    BY <1>1, <1>3, <1>4, NewestIndex DEF ToPass, Entered, TokensTypeOK
  <2> QED BY <1>1, <1>4, <2>1 DEF PassedSettled, InForce, Informed, Verdict, HoldsAuthority
<1> QED BY <1>5, <1>6, <1>7, <1>8 DEF TokensInv

\* A walk has done with a socket: what is left of the invariant to show is that
\* the walk of the last replacement leaves it settled.
LEMMA PassKeeps ==
  ASSUME TokensInv, NEW w \in 1..MaxReplaces, walks[w].place = "walking",
         NEW c \in Sockets, walks' = Passed(w, c),
         UNCHANGED <<user_tokens, active_mk_token, replaced, aborted>>,
         client_permissions' \in [Sockets -> Granted],
         opened' \in SUBSET opened,
         told' \in [Sockets -> {"new", "untold", "owed", "yes", "no"}],
         \A d \in Sockets : d # c => /\ client_permissions'[d] = client_permissions[d]
                                     /\ told'[d] = told[d],
         told'[c] = "new" <=> told[c] = "new",
         client_permissions[c] = NoGrant <=> client_permissions'[c] = NoGrant,
         client_permissions[c] # NoGrant =>
           client_permissions'[c].role = client_permissions[c].role,
         c \in opened' /\ Informed(c) => Informed(c)',
         w = replaced /\ c \in opened' => InForce(c)' /\ Informed(c)'
  PROVE  TokensInv'
<1>1. TokensTypeOK /\ Entered /\ AtSameRole /\ NewestWalks /\ PassedSettled
  BY DEF TokensInv
<1>2. /\ walks' \in [1..MaxReplaces -> WalkRecords]
      /\ walks'[w].place = "walking" /\ walks'[w].at = NoSocket
      /\ walks'[w].tokens = walks[w].tokens
      /\ walks'[w].left = walks[w].left \ {c}
      /\ \A v \in 1..MaxReplaces : v # w => walks'[v] = walks[v]
  BY <1>1, PassedWalks
<1>3. TokensTypeOK' /\ Entered'
  BY <1>1, <1>2 DEF TokensTypeOK, Entered
<1>4. AtSameRole'
  <2> SUFFICES ASSUME NEW v \in 1..MaxReplaces, walks'[v].place = "walking", walks'[v].at # NoSocket
               PROVE  LET d == walks'[v].at IN
                      /\ d \in walks'[v].left /\ told'[d] # "new"
                      /\ walks'[v].tokens[d] # NoGrant
                      /\ client_permissions'[d] # NoGrant =>
                           client_permissions'[d].role = walks'[v].tokens[d].role
    BY DEF AtSameRole
  <2>1. v # w /\ walks'[v] = walks[v]
    BY <1>2
  <2>2. walks[v].at \in Sockets
    BY <1>1, <2>1, WalkTypes
  <2>3. /\ told'[walks[v].at] = "new" <=> told[walks[v].at] = "new"
        /\ client_permissions'[walks[v].at] # NoGrant =>
             /\ client_permissions[walks[v].at] # NoGrant
             /\ client_permissions'[walks[v].at].role = client_permissions[walks[v].at].role
    BY <2>2
  <2> QED BY <1>1, <2>1, <2>3 DEF AtSameRole
<1>5. NewestWalks'
  BY <1>1, <1>2, NewestIndex DEF NewestWalks
<1>6. PassedSettled'
  <2> SUFFICES ASSUME ~aborted, NEW d \in opened', ~ToPass(d)'
               PROVE  InForce(d)' /\ Informed(d)'
    BY DEF PassedSettled
  <2>1. d \in Sockets /\ d \in opened
    BY <1>1 DEF TokensTypeOK
  <2>2. CASE d # c
    <3>1. ~ToPass(d)
      BY <1>1, <1>2, <2>2, NewestIndex DEF ToPass
    <3>2. InForce(d) /\ Informed(d)
      BY <1>1, <2>1, <3>1 DEF PassedSettled
    <3> QED BY <2>1, <2>2, <3>2 DEF InForce, Informed, Verdict, HoldsAuthority
  <2>3. CASE d = c /\ w # replaced
    <3>1. ~ToPass(c)
      BY <1>1, <1>2, <2>3, NewestIndex DEF ToPass
    <3>2. InForce(c) /\ Informed(c) /\ client_permissions[c] # NoGrant
      BY <1>1, <2>1, <2>3, <3>1 DEF PassedSettled, Entered
    <3> QED BY <2>3, <3>2 DEF InForce
  <2>4. CASE d = c /\ w = replaced
    BY <2>4
  <2> QED BY <2>2, <2>3, <2>4
<1> QED BY <1>3, <1>4, <1>5, <1>6 DEF TokensInv

\* A walk comes to a socket.
LEMMA VisitKeeps ==
  ASSUME TokensInv, NEW w \in 1..MaxReplaces, NEW c \in Sockets, Visit(w, c)
  PROVE  TokensInv'
<1> DEFINE old == client_permissions[c]
           new == walks[w].tokens[c]
<1>1. TokensTypeOK /\ Entered /\ AtSameRole /\ NewestWalks /\ PassedSettled
  BY DEF TokensInv
<1>2. /\ walks[w].place = "walking" /\ walks[w].at = NoSocket /\ c \in walks[w].left
      /\ UNCHANGED <<user_tokens, active_mk_token, client_permissions, replaced, aborted>>
  BY DEF Visit, Between
<1>3. w = replaced => walks[w].tokens = user_tokens
  BY <1>1, <1>2, TokensAssumption DEF NewestWalks
<1>4. /\ client_permissions \in [Sockets -> Granted] /\ opened \in SUBSET Sockets
      /\ told \in [Sockets -> {"new", "untold", "owed", "yes", "no"}]
  BY <1>1 DEF TokensTypeOK
<1>5. CASE /\ c \notin opened \/ old = NoGrant
           /\ walks' = Passed(w, c) /\ UNCHANGED <<opened, told>>
  <2>1. c \notin opened
    BY <1>1, <1>5 DEF Entered
  <2> QED BY <1>2, <1>4, <1>5, <2>1, PassKeeps
<1>6. CASE opened' = opened \ {c} /\ walks' = Passed(w, c) /\ UNCHANGED told
  BY <1>2, <1>4, <1>6, PassKeeps
<1>7. CASE /\ c \in opened /\ old # NoGrant /\ SameRole(new, old)
           /\ walks' = [walks EXCEPT ![w].at = c]
           /\ UNCHANGED <<opened, told>>
  <2> DEFINE r == [walks[w] EXCEPT !.at = c]
  <2>1. /\ r \in WalkRecords /\ walks' = [walks EXCEPT ![w] = r]
        /\ r.place = "walking" /\ r.at = c /\ r.left = walks[w].left
        /\ r.tokens = walks[w].tokens
    BY <1>1, <1>2, <1>7, WalkTypes DEF WalkRecords
  <2> HIDE DEF r
  <2>2. /\ walks' \in [1..MaxReplaces -> WalkRecords] /\ walks'[w] = r
        /\ \A v \in 1..MaxReplaces : v # w => walks'[v] = walks[v]
    BY <1>1, <2>1, OtherWalks
  <2>3. TokensTypeOK' /\ Entered'
    BY <1>1, <1>2, <1>7, <2>2 DEF TokensTypeOK, Entered
  <2>4. told[c] # "new"
    BY <1>1, <1>7 DEF Entered
  <2>5. AtSameRole'
    BY <1>1, <1>2, <1>7, <2>1, <2>2, <2>4 DEF AtSameRole, SameRole
  <2>6. NewestWalks'
    BY <1>1, <1>2, <2>1, <2>2, NewestIndex DEF NewestWalks
  <2>7. \A d : ToPass(d)' <=> ToPass(d)
    BY <1>1, <1>2, <2>1, <2>2, NewestIndex DEF ToPass
  <2>8. PassedSettled'
    BY <1>1, <1>2, <1>7, <2>7 DEF PassedSettled, InForce, Informed, Verdict, HoldsAuthority
  <2> QED BY <2>3, <2>5, <2>6, <2>8 DEF TokensInv
<1>8. CASE /\ c \in opened /\ old # NoGrant /\ old = new
           /\ told' = [told EXCEPT ![c] = Verdict(c, new)]
           /\ walks' = Passed(w, c) /\ UNCHANGED opened
  <2>1. told'[c] = Verdict(c, old) /\ told' \in [Sockets -> {"new", "untold", "owed", "yes", "no"}]
        /\ \A d \in Sockets : d # c => told'[d] = told[d]
    BY <1>4, <1>8, VerdictKinds
  <2>2. told[c] # "new" /\ told'[c] # "new"
    BY <1>1, <1>8, <2>1, VerdictKinds DEF Entered
  <2>3. Informed(c)'
    BY <1>2, <2>1 DEF Informed, Verdict, HoldsAuthority
  <2>4. w = replaced => InForce(c)'
    BY <1>2, <1>3, <1>8 DEF InForce
  <2> QED BY <1>2, <1>4, <1>8, <2>1, <2>2, <2>3, <2>4, PassKeeps
<1> QED BY <1>2, <1>5, <1>6, <1>7, <1>8 DEF Visit

\* The ROLE_UPDATE was sent or raised.
LEMMA RoleUpdatedKeeps ==
  ASSUME TokensInv, NEW w \in 1..MaxReplaces, RoleUpdated(w)
  PROVE  TokensInv'
<1>1. TokensTypeOK /\ Entered /\ AtSameRole /\ NewestWalks /\ PassedSettled
  BY DEF TokensInv
<1>2. /\ walks[w].place = "walking" /\ walks[w].at # NoSocket
      /\ UNCHANGED <<user_tokens, active_mk_token, opened, replaced>>
  BY DEF RoleUpdated
<1>3. PICK c \in Sockets : c = walks[w].at
  BY <1>1, <1>2, WalkTypes
<1>a. PICK new \in Granted : new = walks[w].tokens[c]
  BY <1>1, <1>2, <1>3, WalkTypes
<1>4. /\ told[c] # "new" /\ new # NoGrant
      /\ client_permissions[c] # NoGrant => client_permissions[c].role = new.role
  BY <1>1, <1>2, <1>3, <1>a DEF AtSameRole
<1>5. w = replaced => walks[w].tokens = user_tokens
  BY <1>1, <1>2, TokensAssumption DEF NewestWalks
<1>6. /\ client_permissions \in [Sockets -> Granted] /\ opened \in SUBSET Sockets
      /\ told \in [Sockets -> {"new", "untold", "owed", "yes", "no"}]
  BY <1>1 DEF TokensTypeOK
<1>7. CASE /\ client_permissions[c] # NoGrant
           /\ client_permissions' = [client_permissions EXCEPT ![c] = new]
           /\ walks' = Passed(w, c)
           /\ told' = [told EXCEPT ![c] = Verdict(c, new)]
           /\ UNCHANGED aborted
  <2>1. /\ client_permissions'[c] = new /\ told'[c] = Verdict(c, new)
        /\ told' \in [Sockets -> {"new", "untold", "owed", "yes", "no"}]
        /\ client_permissions' \in [Sockets -> Granted]
        /\ \A d \in Sockets : d # c => /\ told'[d] = told[d]
                                       /\ client_permissions'[d] = client_permissions[d]
    BY <1>6, <1>7, VerdictKinds
  <2>2. told'[c] # "new"
    BY <2>1, VerdictKinds
  <2>3. Informed(c)'
    BY <1>2, <2>1 DEF Informed, Verdict, HoldsAuthority
  <2>4. w = replaced => InForce(c)'
    BY <1>2, <1>4, <1>5, <1>a, <2>1 DEF InForce
  <2> QED BY <1>2, <1>4, <1>6, <1>7, <2>1, <2>2, <2>3, <2>4, PassKeeps
<1>8. CASE /\ c \notin opened /\ walks' = Passed(w, c)
           /\ UNCHANGED <<client_permissions, told, aborted>>
  BY <1>2, <1>6, <1>8, PassKeeps
<1>9. CASE /\ walks' = [walks EXCEPT ![w] = [place |-> "ended"]] /\ aborted' = TRUE
           /\ UNCHANGED <<client_permissions, told>>
  <2>1. /\ walks' \in [1..MaxReplaces -> WalkRecords] /\ walks'[w].place = "ended"
        /\ \A v \in 1..MaxReplaces : v # w => walks'[v] = walks[v]
    BY <1>1, <1>9, OtherWalks, EndedRecord
  <2>2. TokensTypeOK' /\ Entered'
    BY <1>1, <1>2, <1>9, <2>1 DEF TokensTypeOK, Entered
  <2>3. AtSameRole'
    BY <1>1, <1>9, <2>1 DEF AtSameRole
  <2>4. NewestWalks'
    BY <1>1, <1>2, <2>1, NewestIndex DEF NewestWalks
  <2> QED BY <1>9, <2>2, <2>3, <2>4 DEF TokensInv, PassedSettled
<1> QED BY <1>3, <1>a, <1>7, <1>8, <1>9 DEF RoleUpdated

LEMMA EndKeeps ==
  ASSUME TokensInv, NEW w \in 1..MaxReplaces, EndWalk(w)
  PROVE  TokensInv'
<1>1. TokensTypeOK /\ Entered /\ AtSameRole /\ NewestWalks /\ PassedSettled
  BY DEF TokensInv
<1>2. /\ walks' \in [1..MaxReplaces -> WalkRecords] /\ walks'[w].place = "ended"
      /\ \A v \in 1..MaxReplaces : v # w => walks'[v] = walks[v]
  BY <1>1, OtherWalks, EndedRecord DEF EndWalk
<1>3. /\ UNCHANGED <<user_tokens, active_mk_token, client_permissions, opened, told,
                     replaced, aborted>>
      /\ walks[w].place = "walking" /\ walks[w].left = {}
  BY DEF EndWalk, Between
<1>4. TokensTypeOK' /\ Entered'
  BY <1>1, <1>2, <1>3 DEF TokensTypeOK, Entered
<1>5. AtSameRole'
  BY <1>1, <1>2, <1>3 DEF AtSameRole
<1>6. NewestWalks'
  BY <1>1, <1>2, <1>3, NewestIndex DEF NewestWalks
<1>7. \A d : ToPass(d) => ToPass(d)'
  BY <1>1, <1>2, <1>3, NewestIndex DEF ToPass
<1>8. PassedSettled'
  BY <1>1, <1>3, <1>7 DEF PassedSettled, InForce, Informed, Verdict, HoldsAuthority
<1> QED BY <1>4, <1>5, <1>6, <1>8 DEF TokensInv
-----------------------------------------------------------------------------
LEMMA InitTokensInv == TokensInit => TokensInv
<1> SUFFICES ASSUME TokensInit PROVE TokensInv
  OBVIOUS
<1>1. user_tokens \in [Sockets -> Granted] /\ active_mk_token \in Sockets \cup {NoSocket}
  BY TokensAssumption DEF TokensInit, MkOwners, Granted
<1>2. /\ client_permissions \in [Sockets -> Granted] /\ opened = {} /\ replaced = 0
      /\ told \in [Sockets -> {"new", "untold", "owed", "yes", "no"}]
      /\ \A c \in Sockets : client_permissions[c] = NoGrant
      /\ aborted \in BOOLEAN
  BY DEF TokensInit, Granted
<1>3. walks \in [1..MaxReplaces -> WalkRecords] /\ \A w \in 1..MaxReplaces : walks[w].place = "none"
  BY EndedRecord DEF TokensInit
<1> QED BY <1>1, <1>2, <1>3, TokensAssumption
        DEF TokensInv, TokensTypeOK, Entered, AtSameRole, NewestWalks, PassedSettled

LEMMA NextTokensInv == TokensInv /\ [TokensNext]_tokenVars => TokensInv'
<1> SUFFICES ASSUME TokensInv, [TokensNext]_tokenVars PROVE TokensInv'
  OBVIOUS
<1>1. ASSUME NEW c \in Sockets, Socket(c) PROVE TokensInv'
  BY <1>1, ConnectKeeps, ClosesKeeps, HandlerKeeps DEF Socket
<1>2. ASSUME NEW w \in 1..MaxReplaces, Walk(w) PROVE TokensInv'
  BY <1>2, BeginKeeps, VisitKeeps, RoleUpdatedKeeps, EndKeeps DEF Walk
<1>3. CASE UNCHANGED tokenVars
  BY <1>3 DEF tokenVars, TokensInv, TokensTypeOK, Entered, AtSameRole, NewestWalks,
              PassedSettled, ToPass, InForce, Informed, Verdict, HoldsAuthority
<1> QED BY <1>1, <1>2, <1>3, ReplaceKeeps DEF TokensNext

LEMMA TokensInvariant == TokensSpec => []TokensInv
BY InitTokensInv, NextTokensInv, PTL DEF TokensSpec

\* When no walk is in progress nobody is to be passed.
LEMMA SettledPassed == TokensTypeOK /\ Settled => \A c : ~ToPass(c)
BY NewestIndex DEF Settled, ToPass

\* Once the walks have ended, every open socket has a token in the table, with
\* the role it was given, for any overlap of replacements, walks, connects and
\* departures (reconcile_clients).
THEOREM RolesOfLatestTable == TokensSpec => []RolesReconciled
<1>1. TokensInv => RolesReconciled
  BY SettledPassed DEF TokensInv, PassedSettled, InForce, RolesReconciled
<1> QED BY <1>1, TokensInvariant, PTL

\* And it was told who holds the input as the rule in force decides it, although
\* walks with older tables told it too.
THEOREM VerdictOfLatestTable == TokensSpec => []VerdictTold
<1>1. TokensInv => VerdictTold
  BY SettledPassed DEF TokensInv, PassedSettled, Informed, VerdictTold
<1> QED BY <1>1, TokensInvariant, PTL

-----------------------------------------------------------------------------
(* The desktop: LayoutPass.                                                 *)

\* The rectangles of a layout: even, and at least 2 by 2.
EvenRects == {r \in Rects : r.x % 2 = 0 /\ r.y % 2 = 0 /\ Size(r.w, r.h) \in Sized}

IsLayout(f) == DOMAIN f \subseteq Displays /\ f \in [DOMAIN f -> EvenRects]

LEMMA RectType ==
  ASSUME NEW s \in Sized, NEW x \in Nat, NEW y \in Nat
  PROVE  /\ Rect(x, y, s) \in Rects
         /\ Rect(x, y, s).x = x /\ Rect(x, y, s).y = y
         /\ Rect(x, y, s).w = s.w /\ Rect(x, y, s).h = s.h
BY DEF Rect, Rects, Sized

LEMMA AlignedUp ==
  ASSUME NEW n \in Nat
  PROVE  Aligned(n) \in Nat /\ Aligned(n) >= n /\ Aligned(n) < n + 8 /\ Aligned(n) % 2 = 0
<1>1. /\ (n + 7) \div 8 \in Nat
      /\ n + 7 = 8 * ((n + 7) \div 8) + ((n + 7) % 8)
      /\ (n + 7) % 8 \in 0..7
  OBVIOUS
<1> QED BY <1>1 DEF Aligned

LEMMA EvenDown ==
  ASSUME NEW n \in Int
  PROVE  Even(n) \in Int /\ Even(n) <= n /\ n <= Even(n) + 1 /\ Even(n) % 2 = 0
<1>1. n % 2 \in 0..1
  OBVIOUS
<1>2. n = 2 * (n \div 2) + (n % 2) /\ n \div 2 \in Int
  OBVIOUS
<1> QED BY <1>1, <1>2 DEF Even

LEMMA FittedIn ==
  ASSUME NEW r \in EvenRects, NEW size \in Sized, r.x < size.w, r.y < size.h
  PROVE  /\ Fitted(r, size) \in EvenRects /\ Covers(size, Fitted(r, size))
         /\ Fitted(r, size).x = r.x /\ Fitted(r, size).y = r.y
         /\ Fitted(r, size).w <= r.w /\ Fitted(r, size).h <= r.h
         /\ Covers(size, r) => Fitted(r, size) = r
<1>0. r \in Rects /\ r.x % 2 = 0 /\ r.y % 2 = 0 /\ r.w \in Nat /\ r.h \in Nat
      /\ r.w >= 2 /\ r.h >= 2 /\ r.w % 2 = 0 /\ r.h % 2 = 0
      /\ r.x \in Nat /\ r.y \in Nat
  BY DEF EvenRects, Sized, Size, Rects
<1>a. size.w \in Nat /\ size.h \in Nat /\ size.w % 2 = 0 /\ size.h % 2 = 0
  BY DEF Sized
<1> DEFINE fw == Larger(2, Even(Smaller(r.w, size.w - r.x)))
           fh == Larger(2, Even(Smaller(r.h, size.h - r.y)))
<1>1. fw \in Nat /\ fw >= 2 /\ fw % 2 = 0 /\ fw <= r.w /\ r.x + fw <= size.w
      /\ (r.x + r.w <= size.w => fw = r.w)
  BY <1>0, <1>a, EvenDown, SMTT(40) DEF Larger, Smaller, Even
<1>2. fh \in Nat /\ fh >= 2 /\ fh % 2 = 0 /\ fh <= r.h /\ r.y + fh <= size.h
      /\ (r.y + r.h <= size.h => fh = r.h)
  BY <1>0, <1>a, EvenDown, SMTT(40) DEF Larger, Smaller, Even
<1>3. Fitted(r, size) = [x |-> r.x, y |-> r.y, w |-> fw, h |-> fh]
  <2>1. r = [x |-> r.x, y |-> r.y, w |-> r.w, h |-> r.h]
    BY <1>0 DEF Rects
  <2>2. Fitted(r, size) = [r EXCEPT !.w = fw, !.h = fh]
    BY Zenon DEF Fitted
  <2> HIDE DEF fw, fh
  <2> QED BY <1>0, <2>1, <2>2 DEF Rects
<1> QED BY <1>0, <1>1, <1>2, <1>3 DEF EvenRects, Rects, Sized, Size, Covers
-----------------------------------------------------------------------------
LEMMA EvenRectParts ==
  ASSUME NEW r \in EvenRects
  PROVE  /\ r = [x |-> r.x, y |-> r.y, w |-> r.w, h |-> r.h]
         /\ r.x \in Nat /\ r.y \in Nat /\ r.w \in Nat /\ r.h \in Nat
         /\ r.x % 2 = 0 /\ r.y % 2 = 0 /\ r.w % 2 = 0 /\ r.h % 2 = 0
         /\ r.w >= 2 /\ r.h >= 2
BY DEF EvenRects, Rects, Size, Sized

LEMMA SizedParts ==
  ASSUME NEW s \in Sized
  PROVE  /\ s = [w |-> s.w, h |-> s.h] /\ s.w \in Nat /\ s.h \in Nat
         /\ s.w % 2 = 0 /\ s.h % 2 = 0 /\ s.w >= 2 /\ s.h >= 2
BY DEF Sized

LEMMA SizedFrom ==
  ASSUME NEW w \in Nat, NEW h \in Nat, w >= 2, h >= 2, w % 2 = 0, h % 2 = 0
  PROVE  Size(w, h) \in Sized
BY DEF Size, Sized

LEMMA EvenRectFrom ==
  ASSUME NEW x \in Nat, NEW y \in Nat, x % 2 = 0, y % 2 = 0, NEW s \in Sized
  PROVE  /\ Rect(x, y, s) \in EvenRects
         /\ Rect(x, y, s).x = x /\ Rect(x, y, s).y = y
         /\ Rect(x, y, s).w = s.w /\ Rect(x, y, s).h = s.h
BY SizedParts DEF Rect, EvenRects, Rects, Size

LEMMA TwoBeside ==
  ASSUME NEW a \in Sized, NEW b \in Sized, NEW total \in [w : Nat, h : Nat],
         total.w >= a.w + b.w, total.h >= a.h, total.h >= b.h
  PROVE  LET r == Rect(0, 0, a)  s == Rect(a.w, 0, b)
         IN /\ r \in EvenRects /\ s \in EvenRects /\ Apart(r, s) /\ Apart(s, r)
            /\ Covers(total, r) /\ Covers(total, s)
<1> DEFINE r == Rect(0, 0, a)  s == Rect(a.w, 0, b)
<1>1. a.w \in Nat /\ a.h \in Nat /\ b.w \in Nat /\ b.h \in Nat /\ a.w % 2 = 0 /\ 0 % 2 = 0
  BY SizedParts
<1>2. r \in EvenRects /\ r.x = 0 /\ r.y = 0 /\ r.w = a.w /\ r.h = a.h
  BY <1>1, EvenRectFrom
<1>3. s \in EvenRects /\ s.x = a.w /\ s.y = 0 /\ s.w = b.w /\ s.h = b.h
  BY <1>1, EvenRectFrom
<1> HIDE DEF r, s
<1>4. Apart(r, s) /\ Apart(s, r) /\ Covers(total, r) /\ Covers(total, s)
  BY <1>1, <1>2, <1>3 DEF Apart, Covers
<1> QED BY <1>2, <1>3, <1>4 DEF r, s

LEMMA TwoAbove ==
  ASSUME NEW a \in Sized, NEW b \in Sized, NEW total \in [w : Nat, h : Nat],
         total.h >= a.h + b.h, total.w >= a.w, total.w >= b.w
  PROVE  LET r == Rect(0, 0, a)  s == Rect(0, a.h, b)
         IN /\ r \in EvenRects /\ s \in EvenRects /\ Apart(r, s) /\ Apart(s, r)
            /\ Covers(total, r) /\ Covers(total, s)
<1> DEFINE r == Rect(0, 0, a)  s == Rect(0, a.h, b)
<1>1. a.w \in Nat /\ a.h \in Nat /\ b.w \in Nat /\ b.h \in Nat /\ a.h % 2 = 0 /\ 0 % 2 = 0
  BY SizedParts
<1>2. r \in EvenRects /\ r.x = 0 /\ r.y = 0 /\ r.w = a.w /\ r.h = a.h
  BY <1>1, EvenRectFrom
<1>3. s \in EvenRects /\ s.x = 0 /\ s.y = a.h /\ s.w = b.w /\ s.h = b.h
  BY <1>1, EvenRectFrom
<1> HIDE DEF r, s
<1>4. Apart(r, s) /\ Apart(s, r) /\ Covers(total, r) /\ Covers(total, s)
  BY <1>1, <1>2, <1>3 DEF Apart, Covers
<1> QED BY <1>2, <1>3, <1>4 DEF r, s

\* Two displays laid out beside or above one another do not overlap, and the
\* total, whose width is a multiple of 8, holds both.
THEOREM DualLayoutSound ==
  ASSUME NEW p \in Sized, NEW s \in Sized, NEW position \in Positions
  PROVE  LET dual == compute_dual_layout(p, s, position)
         IN /\ dual \in [Displays -> EvenRects]
            /\ \A d, e \in Displays : d # e => Apart(dual[d], dual[e])
            /\ \A d \in Displays : Covers(dual_total(p, s, position), dual[d])
<1> DEFINE dual == compute_dual_layout(p, s, position)
           size == [d \in Displays |-> IF d = Primary THEN p ELSE s]
           first == First(position)
           other == IF first = Primary THEN Secondary ELSE Primary
           a == size[first]
           b == size[other]
           total == dual_total(p, s, position)
<1>1. first \in Displays /\ other \in Displays /\ first # other /\ Displays = {first, other}
  BY DEF First, Displays, Primary, Secondary
<1>2. a \in Sized /\ b \in Sized /\ {a, b} = {p, s}
  BY <1>1 DEF Displays
<1>3. /\ dual = [d \in Displays |-> dual[d]] /\ dual[first] = Rect(0, 0, a)
      /\ Beside(position) => dual[other] = Rect(a.w, 0, b)
      /\ ~Beside(position) => dual[other] = Rect(0, a.h, b)
  BY <1>1 DEF compute_dual_layout
<1> HIDE DEF dual, size, first, other, a, b
<1>4. /\ dual[first] \in EvenRects /\ dual[other] \in EvenRects
      /\ Apart(dual[first], dual[other]) /\ Apart(dual[other], dual[first])
      /\ Covers(total, dual[first]) /\ Covers(total, dual[other])
  <2>0. /\ a.w \in Nat /\ a.h \in Nat /\ b.w \in Nat /\ b.h \in Nat
        /\ p.w \in Nat /\ p.h \in Nat /\ s.w \in Nat /\ s.h \in Nat
    BY <1>2, SizedParts
  <2>1. CASE Beside(position)
    <3>1. total = Size(Aligned(p.w + s.w), Larger(p.h, s.h))
      BY <2>1 DEF dual_total
    <3>2. Aligned(p.w + s.w) \in Nat /\ Aligned(p.w + s.w) >= p.w + s.w
      <4>1. p.w + s.w \in Nat
        BY <2>0
      <4> QED BY <4>1, AlignedUp
    <3>3. /\ total \in [w : Nat, h : Nat]
          /\ total.w >= a.w + b.w /\ total.h >= a.h /\ total.h >= b.h
      BY <1>2, <2>0, <3>1, <3>2 DEF Size, Larger
    <3> HIDE DEF total
    <3> QED BY <1>2, <1>3, <2>1, <3>3, TwoBeside
  <2>2. CASE ~Beside(position)
    <3>1. total = Size(Aligned(Larger(p.w, s.w)), p.h + s.h)
      BY <2>2 DEF dual_total
    <3>2. Aligned(Larger(p.w, s.w)) \in Nat /\ Aligned(Larger(p.w, s.w)) >= Larger(p.w, s.w)
      BY <2>0, AlignedUp DEF Larger
    <3>3. /\ total \in [w : Nat, h : Nat]
          /\ total.h >= a.h + b.h /\ total.w >= a.w /\ total.w >= b.w
      BY <1>2, <2>0, <3>1, <3>2 DEF Size, Larger
    <3> HIDE DEF total
    <3> QED BY <1>2, <1>3, <2>2, <3>3, TwoAbove
  <2> QED BY <2>1, <2>2
<1> QED BY <1>1, <1>3, <1>4 DEF dual

\* A primary that reports at least the whole extent along the axis of the
\* layout keeps its size; any other report is taken as it is.
LEMMA FeedbackSized ==
  ASSUME NEW p \in Sized, NEW f, IsLayout(f), NEW position \in Positions
  PROVE  clamp_primary_feedback(p, f, position) \in Sized
<1>1. Primary \in DOMAIN f => Size(f[Primary].w, f[Primary].h) \in Sized
  BY EvenRectParts, SizedFrom DEF IsLayout
<1> QED BY <1>1 DEF clamp_primary_feedback

LEMMA TotalCovers ==
  ASSUME IsLayout(display_layouts), Primary \in DOMAIN display_layouts
  PROVE  /\ Total \in Sized
         /\ \A d \in DOMAIN display_layouts : Covers(Total, display_layouts[d])
<1> DEFINE dl == display_layouts
           right(d)  == IF d \in DOMAIN dl THEN dl[d].x + dl[d].w ELSE 0
           bottom(d) == IF d \in DOMAIN dl THEN dl[d].y + dl[d].h ELSE 0
           w == Larger(right(Primary), right(Secondary))
           h == Larger(bottom(Primary), bottom(Secondary))
<1>1. \A d \in DOMAIN dl : dl[d] \in EvenRects
  BY DEF IsLayout
<1>2. \A d \in Displays : /\ right(d) \in Nat /\ right(d) % 2 = 0
                         /\ bottom(d) \in Nat /\ bottom(d) % 2 = 0
  BY <1>1, EvenRectParts
<1>3. right(Primary) >= 2 /\ bottom(Primary) >= 2
  BY <1>1, EvenRectParts
<1>4. /\ w \in Nat /\ w >= 2 /\ h \in Nat /\ h >= 2 /\ h % 2 = 0
      /\ \A d \in Displays : right(d) <= w /\ bottom(d) <= h
  <2>1. Primary \in Displays /\ Secondary \in Displays /\ Displays = {Primary, Secondary}
    BY DEF Displays
  <2> HIDE DEF right, bottom
  <2> QED BY <1>2, <1>3, <2>1 DEF Larger
<1>5. Total = Size(Aligned(w), h)
  BY DEF Total, layout_extent, Size
<1>6. Aligned(w) \in Nat /\ Aligned(w) >= w /\ Aligned(w) % 2 = 0
  BY <1>4, AlignedUp
<1>7. Total \in Sized
  <2> HIDE DEF w, h
  <2> QED BY <1>4, <1>5, <1>6, SizedFrom
<1>8. ASSUME NEW d \in DOMAIN dl PROVE Covers(Total, dl[d])
  <2>1. d \in Displays /\ right(d) = dl[d].x + dl[d].w /\ bottom(d) = dl[d].y + dl[d].h
    BY DEF IsLayout
  <2>2. right(d) \in Nat /\ bottom(d) \in Nat /\ right(d) <= w /\ bottom(d) <= h
    BY <1>2, <1>4, <2>1
  <2> HIDE DEF right, bottom, w, h
  <2> QED BY <1>4, <1>5, <1>6, <2>1, <2>2 DEF Covers, Size
<1> QED BY <1>7, <1>8

LEMMA AtOrigin ==
  ASSUME NEW r \in EvenRects
  PROVE  LET s == [r EXCEPT !.x = 0, !.y = 0] IN s \in EvenRects /\ s.x = 0 /\ s.y = 0
<1> DEFINE s == [r EXCEPT !.x = 0, !.y = 0]
<1>1. r \in Rects /\ Size(r.w, r.h) \in Sized
  BY DEF EvenRects
<1>2. s \in Rects /\ s.x = 0 /\ s.y = 0 /\ s.w = r.w /\ s.h = r.h
  BY <1>1 DEF Rects
<1> HIDE DEF s
<1>3. s.x % 2 = 0 /\ s.y % 2 = 0
  BY <1>2
<1> QED BY <1>1, <1>2, <1>3 DEF EvenRects, s

\* A smaller rectangle at the same place is as far apart.
LEMMA ShrunkApart ==
  ASSUME NEW r \in EvenRects, NEW s \in EvenRects, NEW t \in EvenRects, NEW u \in EvenRects,
         Apart(r, s), t.x = r.x, t.y = r.y, t.w <= r.w, t.h <= r.h,
         u.x = s.x, u.y = s.y, u.w <= s.w, u.h <= s.h
  PROVE  Apart(t, u)
BY EvenRectParts DEF Apart

LEMMA PlacedIn ==
  ASSUME NEW f, IsLayout(f), NEW size \in Sized, NEW d \in DOMAIN f \ Dropped(f, size)
  PROVE  LET r == Placed(f, size, d)
         IN /\ r \in EvenRects /\ r.x < size.w /\ r.y < size.h
            /\ (d = Primary /\ Reanchored(f, size)) \/ r = f[d]
<1>1. f[d] \in EvenRects
  BY DEF IsLayout
<1>2. CASE d = Primary /\ Reanchored(f, size)
  <2>1. Placed(f, size, d) = [f[d] EXCEPT !.x = 0, !.y = 0]
    BY <1>2 DEF Placed
  <2>2. Placed(f, size, d) \in EvenRects /\ Placed(f, size, d).x = 0 /\ Placed(f, size, d).y = 0
    BY <1>1, <2>1, AtOrigin
  <2> QED BY <1>2, <2>2, SizedParts
<1>3. CASE d = Primary /\ ~Reanchored(f, size)
  BY <1>1, <1>3, EvenRectParts, SizedParts DEF Placed, Reanchored
<1>4. CASE d # Primary
  BY <1>1, <1>4, EvenRectParts, SizedParts DEF Placed, Dropped
<1> QED BY <1>2, <1>3, <1>4

\* Whatever root the X server realises, what remains of the layout lies in it,
\* side by side as before, with sizes an encoder accepts; the primary remains;
\* and a display that was neither dropped, moved nor clamped is unchanged.
THEOREM RealizedLayoutSound ==
  ASSUME NEW f, IsLayout(f), NEW size \in Sized
  PROVE  LET g == reconcile_realized_layout(f, size)
         IN /\ IsLayout(g) /\ DOMAIN g = DOMAIN f \ Dropped(f, size)
            /\ Primary \in DOMAIN f => Primary \in DOMAIN g
            /\ \A d \in DOMAIN g : Covers(size, g[d])
            /\ (\A d, e \in DOMAIN f : d # e => Apart(f[d], f[e]))
                 => \A d, e \in DOMAIN g : d # e => Apart(g[d], g[e])
            /\ Clamped(f, size) \subseteq DOMAIN g
            /\ \A d \in DOMAIN g \ Clamped(f, size) :
                 (d = Primary /\ Reanchored(f, size)) \/ g[d] = f[d]
<1> DEFINE g == reconcile_realized_layout(f, size)
<1>1. DOMAIN g = DOMAIN f \ Dropped(f, size) /\ DOMAIN f \subseteq Displays
  BY DEF reconcile_realized_layout, IsLayout
<1>2. g = [d \in DOMAIN g |-> Fitted(Placed(f, size, d), size)]
  BY DEF reconcile_realized_layout
<1> HIDE DEF g
<1>3. ASSUME NEW d \in DOMAIN g
      PROVE  /\ g[d] \in EvenRects /\ Covers(size, g[d])
             /\ g[d].x = Placed(f, size, d).x /\ g[d].y = Placed(f, size, d).y
             /\ g[d].w <= Placed(f, size, d).w /\ g[d].h <= Placed(f, size, d).h
  BY <1>1, <1>2, PlacedIn, FittedIn
<1>4. Primary \in DOMAIN f => Primary \in DOMAIN g
  BY <1>1 DEF Dropped
<1>5. ASSUME \A d, e \in DOMAIN f : d # e => Apart(f[d], f[e]),
             NEW d \in DOMAIN g, NEW e \in DOMAIN g, d # e
      PROVE  Apart(g[d], g[e])
  <2>1. ~Reanchored(f, size)
    BY <1>1, <1>5 DEF Dropped, Displays
  <2>2. Placed(f, size, d) = f[d] /\ Placed(f, size, e) = f[e]
    BY <2>1 DEF Placed
  <2>3. f[d] \in EvenRects /\ f[e] \in EvenRects /\ Apart(f[d], f[e])
    BY <1>1, <1>5 DEF IsLayout
  <2> QED BY <1>3, <2>2, <2>3, ShrunkApart
<1>6. Clamped(f, size) \subseteq DOMAIN g
  BY <1>1 DEF Clamped
<1>7. ASSUME NEW d \in DOMAIN g \ Clamped(f, size)
      PROVE  (d = Primary /\ Reanchored(f, size)) \/ g[d] = f[d]
  <2>1. Fitted(Placed(f, size, d), size) = Placed(f, size, d)
    BY <1>1 DEF Clamped
  <2> QED BY <1>1, <1>2, <2>1, PlacedIn
<1>8. IsLayout(g)
  BY <1>1, <1>2, <1>3 DEF IsLayout
<1> QED BY <1>1, <1>3, <1>4, <1>5, <1>6, <1>7, <1>8 DEF g

\* pixelflux keeps a region inside the root, and one that fits as it is.
LEMMA PinnedIn ==
  ASSUME root \in Sized, NEW r \in EvenRects
  PROVE  /\ Pinned(r) \in EvenRects /\ Covers(root, Pinned(r))
         /\ Covers(root, r) => Pinned(r) = r
<1> DEFINE x == Smaller(r.x, root.w - 2)
           y == Smaller(r.y, root.h - 2)
           s == [r EXCEPT !.x = x, !.y = y]
<1>1. /\ x \in Nat /\ x % 2 = 0 /\ x < root.w
      /\ y \in Nat /\ y % 2 = 0 /\ y < root.h
  <2>1. /\ r.x \in Nat /\ r.x % 2 = 0 /\ r.y \in Nat /\ r.y % 2 = 0
        /\ root.w \in Nat /\ root.w >= 2 /\ root.w % 2 = 0
        /\ root.h \in Nat /\ root.h >= 2 /\ root.h % 2 = 0
    BY EvenRectParts, SizedParts
  <2>2. /\ root.w - 2 \in Nat /\ (root.w - 2) % 2 = 0
        /\ root.h - 2 \in Nat /\ (root.h - 2) % 2 = 0
    BY <2>1
  <2> QED BY <2>1, <2>2 DEF Smaller
<1>2. Pinned(r) = IF Covers(root, r) THEN r ELSE Fitted(s, root)
  BY DEF Pinned
<1> HIDE DEF x, y
<1>3. s \in EvenRects /\ s.x = x /\ s.y = y
  <2>1. r \in Rects /\ Size(r.w, r.h) \in Sized
    BY DEF EvenRects
  <2>2. s \in Rects /\ s.x = x /\ s.y = y /\ s.w = r.w /\ s.h = r.h
    BY <1>1, <2>1 DEF Rects
  <2> HIDE DEF s
  <2> QED BY <1>1, <2>1, <2>2 DEF EvenRects
<1> HIDE DEF s
<1>4. Fitted(s, root) \in EvenRects /\ Covers(root, Fitted(s, root))
  BY <1>1, <1>3, FittedIn
<1> QED BY <1>2, <1>4

-----------------------------------------------------------------------------
\* The captures that are where a pass put them.
AtTheirPlace == Live \ odd.early

Steps == {"idle", "judge", "mode", "grow", "shed", "move", "swap", "set", "fit",
          "stop", "start", "weed"}

Passes == [step : Steps, todo : SUBSET Displays, keep : SUBSET Displays,
           moved : SUBSET Displays, ahead : SUBSET Displays, found : [w : Nat, h : Nat]]

\* The last pass has realised its layout, or is about to start its captures.
Fitting == \/ pass_at.step \in {"stop", "start", "weed"}
           \/ pass_at.step = "idle" /\ ~odd.aborted

LayoutTypeOK ==
  /\ DOMAIN screens \subseteq Displays /\ Primary \in DOMAIN screens
  /\ screens \in [DOMAIN screens -> [size : Sized, active : BOOLEAN, side : Positions]]
  /\ IsLayout(display_layouts)
  /\ root \in Sized
  /\ regions \in [Displays -> EvenRects \cup {NoRegion}]
  /\ asked \in [Displays -> EvenRects \cup {NoRegion, StopRequest}]
  /\ pass_at \in Passes
  /\ odd \in [early : SUBSET Displays, aborted : BOOLEAN, unplaced : BOOLEAN]

SideBySide ==
  \A d, e \in DOMAIN display_layouts : d # e => Apart(display_layouts[d], display_layouts[e])

Contained == Fitting => \A d \in DOMAIN display_layouts : Covers(root, display_layouts[d])

Monitored ==
  \/ pass_at.step \in {"set", "fit", "start", "weed"}
  \/ pass_at.step = "idle" /\ ~odd.aborted /\ ~odd.unplaced
  => selkies_monitors = display_layouts

\* What the pass's sets of displays hold.
Known ==
  /\ pass_at.step \in {"judge", "mode", "grow", "shed", "move", "swap", "set", "fit"} =>
       pass_at.keep \subseteq DOMAIN display_layouts
  /\ pass_at.step # "idle" => Primary \in DOMAIN display_layouts
  /\ pass_at.step = "grow" => pass_at.found = root
  /\ pass_at.step = "shed" =>
       \A d \in pass_at.keep \ pass_at.todo : Covers(root, display_layouts[d])
  /\ pass_at.step = "move" => \A d \in pass_at.keep : Covers(root, display_layouts[d])
  /\ pass_at.step = "stop" => pass_at.moved \subseteq DOMAIN display_layouts
  /\ pass_at.step = "start" => pass_at.todo \subseteq DOMAIN display_layouts

\* Where the captures are, as the pass proceeds.
OnLayout(d) == d \in DOMAIN display_layouts /\ regions[d] = display_layouts[d]

Followed ==
  /\ pass_at.step = "judge" => AtTheirPlace \subseteq pass_at.keep \cup pass_at.todo
  /\ pass_at.step \in {"mode", "grow", "shed", "move"} => AtTheirPlace \subseteq pass_at.keep
  /\ pass_at.step \in {"swap", "set", "fit"} =>
       \A d \in AtTheirPlace : d \in pass_at.keep /\ OnLayout(d)
  /\ Fitting => \A d \in AtTheirPlace :
       \/ OnLayout(d)
       \/ pass_at.step = "stop" /\ (d \in pass_at.todo \/ d \in pass_at.moved \cap pass_at.keep)

LayoutInv == /\ LayoutTypeOK /\ SideBySide /\ Contained /\ Monitored /\ Known /\ Followed
             /\ RegionsInRoot

-----------------------------------------------------------------------------
\* What a client's request changes matters to no part but the types.
LEMMA RequestsKeep ==
  ASSUME LayoutInv,
         UNCHANGED <<display_layouts, root, selkies_monitors, regions, pass_at, odd>>,
         DOMAIN screens' \subseteq Displays, Primary \in DOMAIN screens',
         screens' \in [DOMAIN screens' -> [size : Sized, active : BOOLEAN, side : Positions]],
         asked' \in [Displays -> EvenRects \cup {NoRegion, StopRequest}]
  PROVE  LayoutInv'
BY DEF LayoutInv, LayoutTypeOK, SideBySide, Contained, Monitored, Known, Followed,
       RegionsInRoot, Fitting, OnLayout, AtTheirPlace, Live

LEMMA RegistersKeeps ==
  ASSUME LayoutInv, NEW d \in Displays, d = Primary \/ Primary \in DOMAIN screens,
         NEW e \in [size : Sized, active : BOOLEAN, side : Positions], Registers(d, e)
  PROVE  LayoutInv'
BY RequestsKeep DEF LayoutInv, LayoutTypeOK, Registers, Changes

LEMMA ResizesKeeps == ASSUME LayoutInv, NEW d \in Displays, Resizes(d) PROVE LayoutInv'
<1>1. PICK s \in Sizes \cup {root} : Registers(d, [screens[d] EXCEPT !.size = s])
  BY DEF Resizes
<1>2. s \in Sized /\ d \in DOMAIN screens /\ Primary \in DOMAIN screens
  BY LayoutAssumption DEF LayoutInv, LayoutTypeOK, Resizes
<1>3. [screens[d] EXCEPT !.size = s] \in [size : Sized, active : BOOLEAN, side : Positions]
  BY <1>2 DEF LayoutInv, LayoutTypeOK
<1> QED BY <1>1, <1>2, <1>3, RegistersKeeps

LEMMA JoinsKeeps == ASSUME LayoutInv, Joins PROVE LayoutInv'
<1>1. PICK s \in Sizes, side \in Sides :
        Registers(Secondary, [size |-> s, active |-> TRUE, side |-> side])
  BY DEF Joins
<1>2. [size |-> s, active |-> TRUE, side |-> side]
        \in [size : Sized, active : BOOLEAN, side : Positions]
  BY LayoutAssumption
<1> QED BY <1>1, <1>2, RegistersKeeps DEF LayoutInv, LayoutTypeOK, Displays

LEMMA LeavesKeeps == ASSUME LayoutInv, Leaves PROVE LayoutInv'
BY RequestsKeep, ZenonT(40) DEF LayoutInv, LayoutTypeOK, Leaves, Changes, Displays

LEMMA StopsVideoKeeps == ASSUME LayoutInv, NEW d \in Displays, StopsVideo(d) PROVE LayoutInv'
BY RequestsKeep, ZenonT(40) DEF LayoutInv, LayoutTypeOK, StopsVideo, Streams, Changes

LEMMA StartsVideoKeeps == ASSUME LayoutInv, NEW d \in Displays, StartsVideo(d) PROVE LayoutInv'
<1>1. d \in DOMAIN display_layouts => display_layouts[d] \in EvenRects
  BY DEF LayoutInv, LayoutTypeOK, IsLayout
<1> QED BY <1>1, RequestsKeep, ZenonT(40)
        DEF LayoutInv, LayoutTypeOK, StartsVideo, Streams, Changes

LEMMA StoppedOrStartedKeeps ==
  ASSUME LayoutInv, NEW d \in Displays, StoppedOrStarted(d) PROVE LayoutInv'
BY PinnedIn, SMTT(40) DEF LayoutInv, LayoutTypeOK, SideBySide, Contained, Monitored, Known,
                Followed, RegionsInRoot, Fitting, OnLayout, AtTheirPlace, Live, Passes,
                Steps, requests, StoppedOrStarted, Silenced, Realised

LEMMA JudgesKeeps == ASSUME LayoutInv, NEW d \in Displays, Judges(d) PROVE LayoutInv'
<1> USE DEF LayoutInv, requests
<1>1. LayoutTypeOK'
  <2>1. pass_at' \in Passes
    BY DEF LayoutTypeOK, Passes, Steps, IsLayout, Judges, Silenced, Streams
  <2>2. regions' \in [Displays -> EvenRects \cup {NoRegion}]
    BY PinnedIn DEF LayoutTypeOK, IsLayout, Known, Judges, Silenced, Streams
  <2>3. odd' \in [early : SUBSET Displays, aborted : BOOLEAN, unplaced : BOOLEAN]
    BY DEF LayoutTypeOK, Judges, Silenced, Streams
  <2> QED BY <2>1, <2>2, <2>3 DEF LayoutTypeOK, IsLayout, Judges, Silenced, Streams
<1>2. SideBySide' /\ Contained' /\ Monitored'
  BY DEF LayoutTypeOK, SideBySide, Contained, Monitored, Fitting, Judges,
         Silenced, Streams
<1>3. Known'
  BY DEF LayoutTypeOK, IsLayout, Known, Judges, Silenced, Streams
<1>4. Followed'
  BY PinnedIn DEF LayoutTypeOK, IsLayout, Known, Contained, Followed, Fitting,
                  OnLayout, AtTheirPlace, Live, Judges, Silenced, Streams
<1>5. RegionsInRoot'
  BY PinnedIn DEF LayoutTypeOK, IsLayout, Known, Followed, Contained,
                  RegionsInRoot, Fitting, OnLayout, AtTheirPlace, Live, Judges,
                  Silenced, Streams
<1> QED BY <1>1, <1>2, <1>3, <1>4, <1>5

LEMMA ModeUnmadeKeeps == ASSUME LayoutInv, ModeUnmade PROVE LayoutInv'
<1> USE DEF LayoutInv, requests
<1>1. LayoutTypeOK'
  <2>1. pass_at' \in Passes
    BY DEF LayoutTypeOK, Passes, Steps, IsLayout, ModeUnmade, Aborts, Refuses,
           NoPass, Size
  <2>2. regions' \in [Displays -> EvenRects \cup {NoRegion}]
    BY PinnedIn DEF LayoutTypeOK, IsLayout, Known, ModeUnmade, Aborts, Refuses,
                    NoPass, Size
  <2>3. odd' \in [early : SUBSET Displays, aborted : BOOLEAN, unplaced : BOOLEAN]
    BY DEF LayoutTypeOK, ModeUnmade, Aborts, Refuses, NoPass, Size
  <2> QED BY <2>1, <2>2, <2>3 DEF LayoutTypeOK, IsLayout, ModeUnmade, Aborts,
       Refuses, NoPass, Size
<1>2. SideBySide' /\ Contained' /\ Monitored'
  BY DEF LayoutTypeOK, SideBySide, Contained, Monitored, Fitting, ModeUnmade,
         Aborts, Refuses, NoPass, Size
<1>3. Known'
  BY DEF LayoutTypeOK, IsLayout, Known, ModeUnmade, Aborts, Refuses, NoPass, Size
<1>4. Followed'
  BY PinnedIn DEF LayoutTypeOK, IsLayout, Known, Contained, Followed, Fitting,
                  OnLayout, AtTheirPlace, Live, ModeUnmade, Aborts, Refuses, NoPass, Size
<1>5. RegionsInRoot'
  BY PinnedIn DEF LayoutTypeOK, IsLayout, Known, Followed, Contained,
                  RegionsInRoot, Fitting, OnLayout, AtTheirPlace, Live, ModeUnmade,
                  Aborts, Refuses, NoPass, Size
<1> QED BY <1>1, <1>2, <1>3, <1>4, <1>5

LEMMA FindsModeKeeps == ASSUME LayoutInv, FindsMode PROVE LayoutInv'
<1> USE DEF LayoutInv, requests
<1>1. LayoutTypeOK'
  <2>1. pass_at' \in Passes
    <3>1. root \in [w : Nat, h : Nat]
      BY DEF LayoutTypeOK, Sized
    <3> QED BY <3>1 DEF LayoutTypeOK, Passes, Steps, FindsMode
  <2>2. regions' \in [Displays -> EvenRects \cup {NoRegion}]
    BY PinnedIn DEF LayoutTypeOK, IsLayout, Known, FindsMode
  <2>3. odd' \in [early : SUBSET Displays, aborted : BOOLEAN, unplaced : BOOLEAN]
    BY DEF LayoutTypeOK, FindsMode
  <2> QED BY <2>1, <2>2, <2>3 DEF LayoutTypeOK, IsLayout, FindsMode
<1>2. SideBySide' /\ Contained' /\ Monitored'
  BY DEF LayoutTypeOK, SideBySide, Contained, Monitored, Fitting, FindsMode
<1>3. Known'
  BY DEF LayoutTypeOK, IsLayout, Known, FindsMode
<1>4. Followed'
  BY PinnedIn DEF LayoutTypeOK, IsLayout, Known, Contained, Followed, Fitting,
                  OnLayout, AtTheirPlace, Live, FindsMode
<1>5. RegionsInRoot'
  BY PinnedIn DEF LayoutTypeOK, IsLayout, Known, Followed, Contained,
                  RegionsInRoot, Fitting, OnLayout, AtTheirPlace, Live, FindsMode
<1> QED BY <1>1, <1>2, <1>3, <1>4, <1>5

\* The root grows to cover what is live and what is coming.
LEMMA GrowsKeeps == ASSUME LayoutInv, Grows PROVE LayoutInv'
<1> USE DEF LayoutInv, requests, Grows, Enters
<1>1. /\ pass_at' \in Passes /\ pass_at'.step = "move" /\ pass_at'.keep = pass_at.keep
      /\ root \in Sized /\ pass_at.found = root /\ IsLayout(display_layouts)
      /\ Primary \in DOMAIN display_layouts /\ pass_at.keep \subseteq DOMAIN display_layouts
  BY DEF LayoutTypeOK, Passes, Steps, Known
<1>2. Total \in Sized /\ \A d \in DOMAIN display_layouts : Covers(Total, display_layouts[d])
  BY <1>1, TotalCovers
<1>3. /\ root' \in Sized /\ root'.w >= root.w /\ root'.h >= root.h
      /\ root'.w >= Total.w /\ root'.h >= Total.h
  <2>1. root' = Size(Larger(root.w, Total.w), Larger(root.h, Total.h))
    BY <1>1 DEF Union
  <2> QED BY <1>1, <1>2, <2>1, SizedParts, SizedFrom DEF Larger, Size
<1>4. ASSUME NEW r \in EvenRects, Covers(root, r) \/ Covers(Total, r) PROVE Covers(root', r)
  BY <1>1, <1>2, <1>3, <1>4, EvenRectParts, SizedParts DEF Covers
<1>5. LayoutTypeOK'
  BY <1>1, <1>3 DEF LayoutTypeOK, IsLayout
<1>6. SideBySide' /\ Contained' /\ Monitored'
  BY <1>1 DEF SideBySide, Contained, Monitored, Fitting
<1>7. Known'
  BY <1>1, <1>2, <1>4 DEF Known, IsLayout
<1>8. Followed'
  BY <1>1 DEF Followed, Fitting, AtTheirPlace, Live
<1>9. RegionsInRoot'
  BY <1>1, <1>4 DEF RegionsInRoot, LayoutTypeOK, Live
<1> QED BY <1>5, <1>6, <1>7, <1>8, <1>9

LEMMA GrowRefusedKeeps == ASSUME LayoutInv, GrowRefused PROVE LayoutInv'
BY PinnedIn DEF LayoutInv, LayoutTypeOK, SideBySide, Contained, Monitored, Known,
                Followed, RegionsInRoot, Fitting, OnLayout, AtTheirPlace, Live, Passes,
                Steps, requests, GrowRefused, Refuses

\* A capture that is stopped is none of a pass's any more.
LEMMA SilencesKeeps ==
  ASSUME LayoutInv, pass_at.step \in {"shed", "stop"}, NEW d \in pass_at.todo,
         Silenced({d}), pass_at' = [pass_at EXCEPT !.todo = @ \ {d}, !.keep = @ \ {d}],
         UNCHANGED <<requests, display_layouts, root, selkies_monitors>>
  PROVE  LayoutInv'
<1> USE DEF LayoutInv, requests
<1>0. /\ d \in Displays /\ pass_at'.step = pass_at.step /\ pass_at'.moved = pass_at.moved
      /\ pass_at'.todo = pass_at.todo \ {d} /\ pass_at'.keep = pass_at.keep \ {d}
      /\ pass_at' \in Passes
  BY DEF LayoutTypeOK, Passes
<1>1. LayoutTypeOK'
  <2>1. regions' \in [Displays -> EvenRects \cup {NoRegion}]
    BY DEF LayoutTypeOK, Silenced
  <2>2. odd' \in [early : SUBSET Displays, aborted : BOOLEAN, unplaced : BOOLEAN]
    BY DEF LayoutTypeOK, Silenced
  <2> QED BY <1>0, <2>1, <2>2 DEF LayoutTypeOK, IsLayout
<1>2. Live' = Live \ {d} /\ AtTheirPlace' = AtTheirPlace \ {d}
      /\ \A e \in Live' : regions'[e] = regions[e]
  BY <1>0 DEF LayoutTypeOK, Silenced, Live, AtTheirPlace
<1>3. SideBySide' /\ Contained' /\ Monitored'
  BY <1>0 DEF SideBySide, Contained, Monitored, Fitting, Silenced, LayoutTypeOK
<1>4. Known'
  BY <1>0 DEF Known, LayoutTypeOK, Silenced
<1>5. Followed'
  BY <1>0, <1>2 DEF Followed, Fitting, OnLayout, LayoutTypeOK, Silenced, AtTheirPlace
<1>6. RegionsInRoot'
  BY <1>0, <1>2 DEF RegionsInRoot, AtTheirPlace
<1> QED BY <1>1, <1>3, <1>4, <1>5, <1>6

LEMMA ShedsKeeps == ASSUME LayoutInv, Sheds PROVE LayoutInv'
<1>1. CASE \E d \in pass_at.todo :
               /\ Silenced({d})
               /\ pass_at' = [pass_at EXCEPT !.todo = @ \ {d}, !.keep = @ \ {d}]
  BY <1>1, SilencesKeeps DEF Sheds
<1>2. CASE pass_at.todo = {} /\ Enters("move") /\ UNCHANGED <<regions, odd>>
  BY <1>2 DEF LayoutInv, LayoutTypeOK, SideBySide, Contained, Monitored, Known,
              Followed, RegionsInRoot, Fitting, OnLayout, AtTheirPlace, Live, Passes,
              Steps, requests, Sheds, Enters
<1> QED BY <1>1, <1>2 DEF Sheds

LEMMA MovesKeeps == ASSUME LayoutInv, Moves PROVE LayoutInv'
<1> USE DEF LayoutInv, requests
<1>1. LayoutTypeOK'
  <2>1. pass_at' \in Passes
    BY DEF LayoutTypeOK, Passes, Steps, IsLayout, Moves, Enters
  <2>2. regions' \in [Displays -> EvenRects \cup {NoRegion}]
    BY PinnedIn DEF LayoutTypeOK, IsLayout, Known, Moves, Enters
  <2>3. odd' \in [early : SUBSET Displays, aborted : BOOLEAN, unplaced : BOOLEAN]
    BY DEF LayoutTypeOK, Moves, Enters
  <2> QED BY <2>1, <2>2, <2>3 DEF LayoutTypeOK, IsLayout, Moves, Enters
<1>2. SideBySide' /\ Contained' /\ Monitored'
  BY DEF LayoutTypeOK, SideBySide, Contained, Monitored, Fitting, Moves, Enters
<1>3. Known'
  BY DEF LayoutTypeOK, IsLayout, Known, Moves, Enters
<1>4. Followed'
  BY PinnedIn DEF LayoutTypeOK, IsLayout, Known, Contained, Followed, Fitting,
                  OnLayout, AtTheirPlace, Live, Moves, Enters
<1>5. RegionsInRoot'
  BY PinnedIn DEF LayoutTypeOK, IsLayout, Known, Followed, Contained,
                  RegionsInRoot, Fitting, OnLayout, AtTheirPlace, Live, Moves, Enters
<1> QED BY <1>1, <1>2, <1>3, <1>4, <1>5

LEMMA MovesNoMoreKeeps == ASSUME LayoutInv, MovesNoMore PROVE LayoutInv'
<1> USE DEF LayoutInv, requests
<1>1. LayoutTypeOK'
  <2>1. pass_at' \in Passes
    BY DEF LayoutTypeOK, Passes, Steps, IsLayout, MovesNoMore, Aborts, NoPass, Size
  <2>2. regions' \in [Displays -> EvenRects \cup {NoRegion}]
    BY PinnedIn DEF LayoutTypeOK, IsLayout, Known, MovesNoMore, Aborts, NoPass, Size
  <2>3. odd' \in [early : SUBSET Displays, aborted : BOOLEAN, unplaced : BOOLEAN]
    BY DEF LayoutTypeOK, MovesNoMore, Aborts, NoPass, Size
  <2> QED BY <2>1, <2>2, <2>3 DEF LayoutTypeOK, IsLayout, MovesNoMore, Aborts,
       NoPass, Size
<1>2. SideBySide' /\ Contained' /\ Monitored'
  BY DEF LayoutTypeOK, SideBySide, Contained, Monitored, Fitting, MovesNoMore,
         Aborts, NoPass, Size
<1>3. Known'
  BY DEF LayoutTypeOK, IsLayout, Known, MovesNoMore, Aborts, NoPass, Size
<1>4. Followed'
  BY PinnedIn DEF LayoutTypeOK, IsLayout, Known, Contained, Followed, Fitting,
                  OnLayout, AtTheirPlace, Live, MovesNoMore, Aborts, NoPass, Size
<1>5. RegionsInRoot'
  BY PinnedIn DEF LayoutTypeOK, IsLayout, Known, Followed, Contained,
                  RegionsInRoot, Fitting, OnLayout, AtTheirPlace, Live, MovesNoMore,
                  Aborts, NoPass, Size
<1> QED BY <1>1, <1>2, <1>3, <1>4, <1>5

LEMMA MoveFailsKeeps == ASSUME LayoutInv, MoveFails PROVE LayoutInv'
BY PinnedIn, SMTT(40) DEF LayoutInv, LayoutTypeOK, SideBySide, Contained, Monitored, Known,
                Followed, RegionsInRoot, Fitting, OnLayout, AtTheirPlace, Live, Passes,
                Steps, requests, MoveFails, Silenced, Refuses

LEMMA SwapsKeeps == ASSUME LayoutInv, Swaps PROVE LayoutInv'
BY PinnedIn DEF LayoutInv, LayoutTypeOK, SideBySide, Contained, Monitored, Known,
                Followed, RegionsInRoot, Fitting, OnLayout, AtTheirPlace, Live, Passes,
                Steps, requests, Swaps, Enters

LEMMA SetsKeeps == ASSUME LayoutInv, Sets PROVE LayoutInv'
<1> USE DEF LayoutInv, requests
<1>1. LayoutTypeOK'
  <2>1. pass_at' \in Passes
    BY DEF LayoutTypeOK, Passes, Steps, IsLayout, Sets, Enters, Refuses
  <2>2. regions' \in [Displays -> EvenRects \cup {NoRegion}]
    BY PinnedIn DEF LayoutTypeOK, IsLayout, Known, Sets, Enters, Refuses
  <2>3. odd' \in [early : SUBSET Displays, aborted : BOOLEAN, unplaced : BOOLEAN]
    BY DEF LayoutTypeOK, Sets, Enters, Refuses
  <2>4. root' \in Sized
    <3>1. Total \in Sized
      BY TotalCovers DEF LayoutTypeOK, Known, Sets
    <3> QED BY <3>1, LayoutAssumption DEF LayoutTypeOK, Sets
  <2> QED BY <2>1, <2>2, <2>3, <2>4 DEF LayoutTypeOK, IsLayout, Sets, Enters,
       Refuses
<1>2. SideBySide' /\ Contained' /\ Monitored'
  BY DEF LayoutTypeOK, SideBySide, Contained, Monitored, Fitting, Sets, Enters,
         Refuses
<1>3. Known'
  BY DEF LayoutTypeOK, IsLayout, Known, Sets, Enters, Refuses
<1>4. Followed'
  BY PinnedIn DEF LayoutTypeOK, IsLayout, Known, Contained, Followed, Fitting,
                  OnLayout, AtTheirPlace, Live, Sets, Enters, Refuses
<1>5. RegionsInRoot'
  BY PinnedIn DEF LayoutTypeOK, IsLayout, Known, Followed, Contained,
                  RegionsInRoot, Fitting, OnLayout, AtTheirPlace, Live, Sets, Enters,
                  Refuses
<1> QED BY <1>1, <1>2, <1>3, <1>4, <1>5

LEMMA StopsMisplacedKeeps == ASSUME LayoutInv, StopsMisplaced PROVE LayoutInv'
BY SilencesKeeps DEF StopsMisplaced

LEMMA ClampsKeeps == ASSUME LayoutInv, Clamps PROVE LayoutInv'
<1> USE DEF LayoutInv, requests
<1>1. LayoutTypeOK'
  <2>1. pass_at' \in Passes
    BY DEF LayoutTypeOK, Passes, Steps, IsLayout, Clamps
  <2>2. regions' \in [Displays -> EvenRects \cup {NoRegion}]
    BY PinnedIn DEF LayoutTypeOK, IsLayout, Known, Clamps
  <2>3. odd' \in [early : SUBSET Displays, aborted : BOOLEAN, unplaced : BOOLEAN]
    BY DEF LayoutTypeOK, Clamps
  <2>4. \A d \in pass_at.moved : Size(display_layouts[d].w, display_layouts[d].h) \in Sized
    BY EvenRectParts, SizedFrom DEF LayoutTypeOK, IsLayout, Known, Clamps
  <2>5. /\ DOMAIN screens' = DOMAIN screens
        /\ screens' \in [DOMAIN screens' -> [size : Sized, active : BOOLEAN, side : Positions]]
    BY <2>4 DEF LayoutTypeOK, Clamps
  <2> QED BY <2>1, <2>2, <2>3, <2>5 DEF LayoutTypeOK, IsLayout, Clamps
<1>2. SideBySide' /\ Contained' /\ Monitored'
  BY DEF LayoutTypeOK, SideBySide, Contained, Monitored, Fitting, Clamps
<1>3. Known'
  BY DEF LayoutTypeOK, IsLayout, Known, Clamps
<1>4. Followed'
  BY PinnedIn DEF LayoutTypeOK, IsLayout, Known, Contained, Followed, Fitting,
                  OnLayout, AtTheirPlace, Live, Clamps
<1>5. RegionsInRoot'
  BY PinnedIn DEF LayoutTypeOK, IsLayout, Known, Followed, Contained,
                  RegionsInRoot, Fitting, OnLayout, AtTheirPlace, Live, Clamps
<1> QED BY <1>1, <1>2, <1>3, <1>4, <1>5

LEMMA StartsKeeps == ASSUME LayoutInv, NEW d \in Displays, Starts(d) PROVE LayoutInv'
<1> USE DEF LayoutInv, requests
<1>1. LayoutTypeOK'
  <2>1. pass_at' \in Passes
    BY DEF LayoutTypeOK, Passes, Steps, IsLayout, Starts, Streams, Refuses
  <2>2. regions' \in [Displays -> EvenRects \cup {NoRegion}]
    BY PinnedIn DEF LayoutTypeOK, IsLayout, Known, Starts, Streams, Refuses
  <2>3. odd' \in [early : SUBSET Displays, aborted : BOOLEAN, unplaced : BOOLEAN]
    BY DEF LayoutTypeOK, Starts, Streams, Refuses
  <2> QED BY <2>1, <2>2, <2>3 DEF LayoutTypeOK, IsLayout, Starts, Streams, Refuses
<1>2. SideBySide' /\ Contained' /\ Monitored'
  BY DEF LayoutTypeOK, SideBySide, Contained, Monitored, Fitting, Starts, Streams,
         Refuses
<1>3. Known'
  BY DEF LayoutTypeOK, IsLayout, Known, Starts, Streams, Refuses
<1>4. Followed'
  BY PinnedIn DEF LayoutTypeOK, IsLayout, Known, Contained, Followed, Fitting,
                  OnLayout, AtTheirPlace, Live, Starts, Streams, Refuses
<1>5. RegionsInRoot'
  BY PinnedIn DEF LayoutTypeOK, IsLayout, Known, Followed, Contained,
                  RegionsInRoot, Fitting, OnLayout, AtTheirPlace, Live, Starts,
                  Streams, Refuses
<1> QED BY <1>1, <1>2, <1>3, <1>4, <1>5

LEMMA WeedsKeeps == ASSUME LayoutInv, Weeds PROVE LayoutInv'
<1> USE DEF LayoutInv, requests
<1>1. LayoutTypeOK'
  <2>1. pass_at' \in Passes
    BY DEF LayoutTypeOK, Passes, Steps, IsLayout, Weeds, Streams, NoPass, Size
  <2>2. regions' \in [Displays -> EvenRects \cup {NoRegion}]
    BY PinnedIn DEF LayoutTypeOK, IsLayout, Known, Weeds, Streams, NoPass, Size
  <2>3. odd' \in [early : SUBSET Displays, aborted : BOOLEAN, unplaced : BOOLEAN]
    BY DEF LayoutTypeOK, Weeds, Streams, NoPass, Size
  <2>4. IsLayout(display_layouts')
    BY DEF LayoutTypeOK, IsLayout, Weeds
  <2>5. /\ DOMAIN screens' \subseteq Displays /\ Primary \in DOMAIN screens'
        /\ screens' \in [DOMAIN screens' -> [size : Sized, active : BOOLEAN, side : Positions]]
    BY DEF LayoutTypeOK, Weeds, Primary, Secondary
  <2>6. asked' \in [Displays -> EvenRects \cup {NoRegion, StopRequest}]
    BY DEF LayoutTypeOK, Weeds
  <2> QED BY <2>1, <2>2, <2>3, <2>4, <2>5, <2>6 DEF LayoutTypeOK, IsLayout, Weeds,
       Streams, NoPass, Size
<1>2. SideBySide' /\ Contained' /\ Monitored'
  BY DEF LayoutTypeOK, SideBySide, Contained, Monitored, Fitting, Weeds, Streams,
         NoPass, Size
<1>3. Known'
  BY DEF LayoutTypeOK, IsLayout, Known, Weeds, Streams, NoPass, Size
<1>4. Followed'
  BY PinnedIn DEF LayoutTypeOK, IsLayout, Known, Contained, Followed, Fitting,
                  OnLayout, AtTheirPlace, Live, Weeds, Streams, NoPass, Size
<1>5. RegionsInRoot'
  BY PinnedIn DEF LayoutTypeOK, IsLayout, Known, Followed, Contained,
                  RegionsInRoot, Fitting, OnLayout, AtTheirPlace, Live, Weeds, Streams,
                  NoPass, Size
<1> QED BY <1>1, <1>2, <1>3, <1>4, <1>5

\* What a pass lays out from the clients.
LEMMA LaidOutSound ==
  ASSUME LayoutInv
  PROVE  /\ IsLayout(LaidOut) /\ Primary \in DOMAIN LaidOut
         /\ \A d, e \in DOMAIN LaidOut : d # e => Apart(LaidOut[d], LaidOut[e])
<1>1. \A d \in DOMAIN screens : screens[d].size \in Sized /\ screens[d].side \in Positions
  BY DEF LayoutInv, LayoutTypeOK
<1>2. CASE Secondary \notin DOMAIN screens
  <2>1. LaidOut = [d \in {Primary} |-> Rect(0, 0, screens[Primary].size)]
    BY <1>2 DEF LaidOut
  <2>2. Rect(0, 0, screens[Primary].size) \in EvenRects
    <3>1. screens[Primary].size \in Sized /\ 0 \in Nat /\ 0 % 2 = 0
      BY <1>1 DEF LayoutInv, LayoutTypeOK
    <3> QED BY <3>1, EvenRectFrom
  <2> QED BY <2>1, <2>2 DEF IsLayout, Displays
<1>3. CASE Secondary \in DOMAIN screens
  <2> DEFINE p == clamp_primary_feedback(screens[Primary].size, display_layouts, Side)
             s == screens[Secondary].size
  <2>1. LaidOut = compute_dual_layout(p, s, Side)
    BY <1>3 DEF LaidOut
  <2>2. p \in Sized /\ s \in Sized /\ Side \in Positions
    BY <1>1, <1>3, FeedbackSized DEF LayoutInv, LayoutTypeOK, Side
  <2> HIDE DEF p, s
  <2>3. /\ LaidOut \in [Displays -> EvenRects]
        /\ \A d, e \in Displays : d # e => Apart(LaidOut[d], LaidOut[e])
    BY <2>1, <2>2, DualLayoutSound
  <2> QED BY <2>3 DEF IsLayout, Displays
<1> QED BY <1>2, <1>3

LEMMA BeginsKeeps == ASSUME LayoutInv, Begins PROVE LayoutInv'
<1> USE DEF LayoutInv, requests, Begins
<1>1. /\ IsLayout(display_layouts') /\ Primary \in DOMAIN display_layouts'
      /\ SideBySide'
  BY LaidOutSound DEF SideBySide
<1>2. /\ pass_at'.step = "judge" /\ pass_at'.todo = Displays /\ pass_at'.keep = {}
      /\ pass_at' \in Passes
  BY DEF NoPass, Passes, Steps, Size
<1>3. odd' \in [early : SUBSET Displays, aborted : BOOLEAN, unplaced : BOOLEAN]
      /\ odd'.early = odd.early
  BY DEF LayoutTypeOK
<1>4. LayoutTypeOK'
  BY <1>1, <1>2, <1>3 DEF LayoutTypeOK
<1>5. Contained' /\ Monitored' /\ Known'
  BY <1>1, <1>2 DEF Contained, Monitored, Known, Fitting
<1>6. Followed'
  BY <1>2 DEF Followed, Fitting, AtTheirPlace, Live
<1>7. RegionsInRoot'
  BY <1>2, <1>3 DEF RegionsInRoot, Live
<1> QED BY <1>1, <1>4, <1>5, <1>6, <1>7

\* The realized root is the total, or the layout is fitted to it.
LEMMA FitsKeeps == ASSUME LayoutInv, Fits PROVE LayoutInv'
<1> USE DEF LayoutInv, requests
<1>1. /\ IsLayout(display_layouts) /\ Primary \in DOMAIN display_layouts /\ root \in Sized
      /\ pass_at.step = "fit" /\ pass_at.keep \subseteq DOMAIN display_layouts
      /\ UNCHANGED <<requests, root, selkies_monitors, regions, left, odd>>
  BY DEF LayoutTypeOK, Known, Fits
<1>2. \A d \in AtTheirPlace : d \in pass_at.keep /\ regions[d] = display_layouts[d]
  BY <1>1 DEF Followed, OnLayout
<1>3. Live' = Live /\ AtTheirPlace' = AtTheirPlace
  BY <1>1 DEF Live, AtTheirPlace
<1>4. CASE root = Total
  <2>1. /\ pass_at' = [pass_at EXCEPT !.step = "start", !.todo = DOMAIN display_layouts]
        /\ UNCHANGED display_layouts
    BY <1>4 DEF Fits
  <2>2. /\ pass_at' \in Passes /\ pass_at'.step = "start"
        /\ pass_at'.todo = DOMAIN display_layouts
    BY <1>1, <2>1 DEF LayoutTypeOK, Passes, Steps, IsLayout
  <2>3. \A d \in DOMAIN display_layouts : Covers(root, display_layouts[d])
    BY <1>1, <1>4, TotalCovers
  <2>4. LayoutTypeOK' /\ SideBySide'
    BY <1>1, <2>1, <2>2 DEF LayoutTypeOK, SideBySide
  <2>5. Contained' /\ Monitored' /\ Known'
    BY <1>1, <2>1, <2>2, <2>3 DEF Contained, Monitored, Known
  <2>6. Followed'
    BY <1>1, <1>2, <1>3, <2>1, <2>2 DEF Followed, OnLayout
  <2>7. RegionsInRoot'
    BY <1>1, <1>2, <1>3, <2>1, <2>3 DEF RegionsInRoot, AtTheirPlace
  <2> QED BY <2>4, <2>5, <2>6, <2>7
<1>5. CASE root # Total
  <2> DEFINE g == reconcile_realized_layout(display_layouts, root)
             again == Reanchored(display_layouts, root)
             moved == Clamped(display_layouts, root)
             gone == Dropped(display_layouts, root)
             todo == gone \cup (IF again THEN {Primary} \cap pass_at.keep ELSE {})
  <2>1. /\ display_layouts' = g
        /\ pass_at' = [pass_at EXCEPT !.step = "stop", !.moved = moved, !.todo = todo]
    BY <1>5 DEF Fits
  <2>2. /\ IsLayout(g) /\ DOMAIN g = DOMAIN display_layouts \ gone /\ Primary \in DOMAIN g
        /\ \A d \in DOMAIN g : Covers(root, g[d])
        /\ \A d, e \in DOMAIN g : d # e => Apart(g[d], g[e])
        /\ moved \subseteq DOMAIN g
        /\ \A d \in DOMAIN g \ moved : (d = Primary /\ again) \/ g[d] = display_layouts[d]
    BY <1>1, RealizedLayoutSound DEF SideBySide
  <2>3. gone \subseteq Displays
    BY <1>1 DEF Dropped, IsLayout
  <2> HIDE DEF g, again, moved, gone
  <2>4. /\ pass_at' \in Passes /\ pass_at'.step = "stop" /\ pass_at'.keep = pass_at.keep
        /\ pass_at'.moved = moved /\ pass_at'.todo = todo
    BY <1>1, <2>1, <2>2, <2>3 DEF LayoutTypeOK, Passes, Steps, IsLayout
  <2>5. LayoutTypeOK' /\ SideBySide'
    BY <1>1, <2>1, <2>2, <2>4 DEF LayoutTypeOK, SideBySide
  <2>6. Contained' /\ Monitored' /\ Known'
    BY <1>1, <2>1, <2>2, <2>4 DEF Contained, Monitored, Known
  <2>7. Followed'
    <3>1. ASSUME NEW d \in AtTheirPlace
          PROVE  \/ d \in DOMAIN g /\ regions[d] = g[d]
                 \/ d \in todo \/ d \in moved \cap pass_at.keep
      BY <1>1, <1>2, <2>2
    <3> QED BY <1>1, <1>3, <2>1, <2>4, <3>1 DEF Followed, OnLayout
  <2>8. RegionsInRoot'
    BY <2>4 DEF RegionsInRoot
  <2> QED BY <2>5, <2>6, <2>7, <2>8
<1> QED BY <1>4, <1>5

LEMMA InitLayoutInv == LayoutInit => LayoutInv
<1> SUFFICES ASSUME LayoutInit PROVE LayoutInv
  OBVIOUS
<1>1. PICK s \in Sizes :
        /\ screens = [d \in {Primary} |-> [size |-> s, active |-> TRUE, side |-> "right"]]
        /\ root = s
  BY DEF LayoutInit
<1>2. s \in Sized
  BY LayoutAssumption
<1>3. pass_at \in Passes /\ pass_at.step = "idle"
  BY DEF LayoutInit, NoPass, Passes, Steps, Size
<1>4. Live = {} /\ AtTheirPlace = {} /\ DOMAIN display_layouts = {}
  BY DEF LayoutInit, Live, AtTheirPlace, Nothing
<1>5. LayoutTypeOK
  BY <1>1, <1>2, <1>3, <1>4 DEF LayoutInit, LayoutTypeOK, IsLayout, Displays,
       Positions
<1> QED BY <1>3, <1>4, <1>5
     DEF LayoutInit, LayoutInv, SideBySide, Contained, Monitored, Known, Followed,
         RegionsInRoot
-----------------------------------------------------------------------------
\* The layout, the root, the monitors and the captures agree as far as the
\* pass has come, for any sizes, sides, roots and number of requests.
THEOREM LayoutInductive == LayoutSpec => []LayoutInv
<1>1. ASSUME LayoutInv, [LayoutNext]_layoutVars PROVE LayoutInv'
  <2> USE <1>1
  <2>1. CASE Joins
    BY <2>1, JoinsKeeps
  <2>2. CASE Leaves
    BY <2>2, LeavesKeeps
  <2>3. CASE Begins
    BY <2>3, BeginsKeeps
  <2>4. CASE ModeUnmade
    BY <2>4, ModeUnmadeKeeps
  <2>5. CASE FindsMode
    BY <2>5, FindsModeKeeps
  <2>6. CASE Grows
    BY <2>6, GrowsKeeps
  <2>7. CASE GrowRefused
    BY <2>7, GrowRefusedKeeps
  <2>8. CASE Sheds
    BY <2>8, ShedsKeeps
  <2>9. CASE Moves
    BY <2>9, MovesKeeps
  <2>10. CASE MovesNoMore
    BY <2>10, MovesNoMoreKeeps
  <2>11. CASE MoveFails
    BY <2>11, MoveFailsKeeps
  <2>12. CASE Swaps
    BY <2>12, SwapsKeeps
  <2>13. CASE Sets
    BY <2>13, SetsKeeps
  <2>14. CASE Fits
    BY <2>14, FitsKeeps
  <2>15. CASE StopsMisplaced
    BY <2>15, StopsMisplacedKeeps
  <2>16. CASE Clamps
    BY <2>16, ClampsKeeps
  <2>17. CASE Weeds
    BY <2>17, WeedsKeeps
  <2>18. ASSUME NEW d \in Displays,
                \/ Resizes(d) \/ StopsVideo(d) \/ StartsVideo(d)
                \/ StoppedOrStarted(d) \/ Judges(d) \/ Starts(d)
         PROVE  LayoutInv'
    BY <2>18, ResizesKeeps, StopsVideoKeeps, StartsVideoKeeps, StoppedOrStartedKeeps,
       JudgesKeeps, StartsKeeps
  <2>19. CASE UNCHANGED layoutVars
    BY <2>19, RequestsKeep DEF layoutVars, LayoutInv, LayoutTypeOK
  <2> QED BY <2>1, <2>2, <2>3, <2>4, <2>5, <2>6, <2>7, <2>8, <2>9, <2>10, <2>11, <2>12,
             <2>13, <2>14, <2>15, <2>16, <2>17, <2>18, <2>19 DEF LayoutNext
<1> QED BY <1>1, InitLayoutInv, PTL DEF LayoutSpec

\* No capture grabs a region outside the root.
THEOREM RegionsAlwaysInRoot == LayoutSpec => []RegionsInRoot
<1>1. LayoutInv => RegionsInRoot
  BY DEF LayoutInv
<1> QED BY <1>1, LayoutInductive, PTL

\* Once the passes are over, the desktop is as it was announced.
THEOREM DesktopAlwaysRealised == LayoutSpec => []DesktopRealised
<1>1. LayoutInv => DesktopRealised
  <2> SUFFICES ASSUME LayoutInv, LayoutSettled PROVE DesktopRealised
    BY DEF DesktopRealised
  <2>1. pass_at.step = "idle" /\ ~odd.aborted /\ Fitting
    BY DEF LayoutSettled, Fitting
  <2> QED BY <2>1 DEF LayoutInv, SideBySide, Contained, Monitored, Followed,
                      OnLayout,
                  AtTheirPlace, DesktopRealised
<1> QED BY <1>1, LayoutInductive, PTL

=============================================================================
