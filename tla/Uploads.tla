------------------------------ MODULE Uploads ------------------------------
(***************************************************************************)
(* handle_upload of the HTTP server (stream_server.py) for one destination *)
(* path: requests stream their bodies into staging files through an        *)
(* executor, so that others run between two writes.  A plain request has a *)
(* staging file of its own and is renamed onto the destination; chunked    *)
(* requests share the one staging file the path derives and the entry of   *)
(* _chunked_uploads.  A byte is <<transfer, position>>: what the client of *)
(* that transfer sends for that position of its file.                      *)
(*                                                                         *)
(* Several destinations have nothing in common but the expiry that every   *)
(* chunked request starts with.                                            *)
(***************************************************************************)
EXTENDS Naturals, Sequences

CONSTANTS Ids,       \* X-Upload-Id of the transfers (a plain upload has one too)
          Requests,  \* the HTTP requests that can be in progress at a time
          FileSize,  \* bytes of the file every transfer carries
          Part,      \* the staging file of chunked transfers
          NoFile,    \* content of a file that does not exist
          NoId,      \* id of no entry, and of an idle request
          NoTotal    \* a request without X-Upload-Total

ASSUME UploadsAssumption ==
  /\ FileSize \in Nat
  /\ Part \notin Requests
  /\ NoId \notin Ids
  /\ NoTotal \notin Nat
  /\ NoFile \notin Seq(Ids \X Nat)

VARIABLES tracked,   \* _chunked_uploads[dest]
          disk,      \* content of the staging files: the shared one, and one
                     \* with a random name per plain request (a request that
                     \* follows another has a new name, and the old file, if
                     \* a restart left it behind, is nobody's)
          dest,      \* content of the destination
          req        \* per request: what it asked and how far its body is

uploadVars == <<tracked, disk, dest, req>>

\* aged: idle for longer than UPLOAD_PART_TTL_SECONDS.
NoEntry == [id |-> NoId, offset |-> 0, busy |-> FALSE, aged |-> FALSE]
IdleRequest ==
  [id |-> NoId, staging |-> Part, offset |-> 0, written |-> 0,
   total |-> NoTotal, final |-> FALSE]

\* The destination remembers, as history, the size the finaliser declared.
NoDest == [bytes |-> NoFile, total |-> NoTotal]

UploadsInit ==
  /\ tracked = NoEntry
  /\ disk = [s \in Requests \cup {Part} |-> NoFile]
  /\ dest = NoDest
  /\ req = [r \in Requests |-> IdleRequest]

Idle(r) == req[r].id = NoId
Chunked(r) == req[r].staging = Part

\* The request is answered.
Answer(r) == req' = [req EXCEPT ![r] = IdleRequest]
-----------------------------------------------------------------------------
\* A plain upload: the body goes to a staging file only this request knows.
PlainUpload(r, u) ==
  /\ Idle(r)
  /\ disk' = [disk EXCEPT ![r] = <<>>]
  /\ req' = [req EXCEPT ![r] = [IdleRequest EXCEPT !.id = u, !.staging = r,
                                                   !.total = FileSize]]
  /\ UNCHANGED <<tracked, dest>>

Expired_EvenBusy == tracked.aged

\* _expire_stale_chunked_uploads: an idle transfer past its time to live.
Expired == tracked.aged /\ ~tracked.busy

Continues_AnyTransfer(u, o, entry, part) ==
  /\ entry.id # NoId
  /\ entry.offset = o
  /\ part # NoFile
  /\ Len(part) = o

\* Whether a chunk at offset o exactly continues the tracked transfer.
Continues(u, o, entry, part) ==
  /\ entry.id = u
  /\ entry.offset = o
  /\ part # NoFile
  /\ Len(part) = o

\* A chunked request up to the first byte of its body.
Chunk(r, u, o, total, final) ==
  /\ Idle(r)
  /\ LET entry == IF Expired THEN NoEntry ELSE tracked
         part == IF Expired THEN NoFile ELSE disk[Part]
         begin == [id |-> u, staging |-> Part, offset |-> o, written |-> 0,
                   total |-> total, final |-> final]
     IN \/ \* 409: another chunk is in flight
           /\ entry.busy
           /\ tracked' = entry
           /\ disk' = [disk EXCEPT ![Part] = part]
           /\ UNCHANGED req
        \/ \* a new transfer replaces whatever was there
           /\ ~entry.busy
           /\ o = 0
           /\ tracked' = [NoEntry EXCEPT !.id = u, !.busy = TRUE]
           /\ disk' = [disk EXCEPT ![Part] = <<>>]
           /\ req' = [req EXCEPT ![r] = begin]
        \/ /\ ~entry.busy
           /\ o > 0
           /\ Continues(u, o, entry, part)
           /\ tracked' = [entry EXCEPT !.busy = TRUE]
           /\ disk' = [disk EXCEPT ![Part] = part]
           /\ req' = [req EXCEPT ![r] = begin]
        \/ \* 409: out of sequence, the transfer is discarded
           /\ ~entry.busy
           /\ o > 0
           /\ ~Continues(u, o, entry, part)
           /\ tracked' = NoEntry
           /\ disk' = [disk EXCEPT ![Part] = NoFile]
           /\ UNCHANGED req
  /\ UNCHANGED dest

\* One turn of the loop of _stream_upload_body: the next byte of the body is
\* written by an executor thread.  (Bytes written to a file that was removed
\* under its writer are lost; Undisturbed says that does not happen.)
WriteByte(r) ==
  /\ ~Idle(r)
  /\ req[r].offset + req[r].written < FileSize
  /\ disk[req[r].staging] # NoFile
  /\ disk' = [disk EXCEPT ![req[r].staging] =
                Append(@, <<req[r].id, req[r].offset + req[r].written + 1>>)]
  /\ req' = [req EXCEPT ![r].written = @ + 1]
  /\ UNCHANGED <<tracked, dest>>

\* The body ends with an error, or exceeds its declared length: the staging
\* file goes, and with it the tracked transfer if it is a chunk.
BodyFails(r) ==
  /\ ~Idle(r)
  /\ disk' = [disk EXCEPT ![req[r].staging] = NoFile]
  /\ tracked' = IF Chunked(r) THEN NoEntry ELSE tracked
  /\ Answer(r)
  /\ UNCHANGED dest

\* os.replace of the staging file onto the destination; it may also fail, in
\* which case the staging file is removed.
Finalise(r) ==
  LET staging == req[r].staging
  IN /\ \/ dest' = [bytes |-> disk[staging], total |-> req[r].total]
        \/ UNCHANGED dest
     /\ disk' = [disk EXCEPT ![staging] = NoFile]
     /\ tracked' = IF Chunked(r) THEN NoEntry ELSE tracked

\* The body of a plain upload has ended as long as it was declared.
PlainEnds(r) ==
  /\ ~Idle(r) /\ ~Chunked(r)
  /\ req[r].written = FileSize
  /\ Finalise(r)
  /\ Answer(r)

ChunkEnds_Unbanked(r) ==
  /\ ~Idle(r) /\ Chunked(r)
  /\ tracked' = [tracked EXCEPT !.busy = FALSE, !.offset = req[r].written,
                                !.aged = FALSE]
  /\ Answer(r)
  /\ UNCHANGED <<disk, dest>>

\* The body of a chunk has ended, of whatever length.
ChunkEnds(r) ==
  /\ ~Idle(r) /\ Chunked(r)
  /\ LET received == req[r].offset + req[r].written
     IN \/ /\ ~req[r].final
           /\ tracked' = [tracked EXCEPT !.busy = FALSE, !.offset = received,
                                         !.aged = FALSE]
           /\ UNCHANGED <<disk, dest>>
        \/ /\ req[r].final
           /\ req[r].total \in {NoTotal, received}
           /\ Finalise(r)
        \/ \* size mismatch: discarded
           /\ req[r].final
           /\ req[r].total \notin {NoTotal, received}
           /\ tracked' = NoEntry
           /\ disk' = [disk EXCEPT ![Part] = NoFile]
           /\ UNCHANGED dest
  /\ Answer(r)

\* UPLOAD_PART_TTL_SECONDS pass.
Age ==
  /\ tracked.id # NoId
  /\ tracked' = [tracked EXCEPT !.aged = TRUE]
  /\ UNCHANGED <<disk, dest, req>>

\* The server ends and is started again: the table and the requests are gone,
\* the files stay.
Restart ==
  /\ tracked' = NoEntry
  /\ req' = [r \in Requests |-> IdleRequest]
  /\ UNCHANGED <<disk, dest>>

UploadStep(r) ==
  \/ \E u \in Ids : PlainUpload(r, u)
  \/ \E u \in Ids, o \in 0..FileSize, t \in {NoTotal, FileSize}, f \in BOOLEAN :
       Chunk(r, u, o, t, f)
  \/ WriteByte(r)
  \/ BodyFails(r)
  \/ PlainEnds(r)
  \/ ChunkEnds(r)

UploadsNext == (\E r \in Requests : UploadStep(r)) \/ Age \/ Restart

UploadsSpec == UploadsInit /\ [][UploadsNext]_uploadVars
-----------------------------------------------------------------------------
\* s is the beginning of the file transfer u carries.
BeginningOf(s, u) == \A k \in 1..Len(s) : s[k] = <<u, k>>

\* The destination is only ever replaced by the bytes of one transfer, in
\* order and from the first one on, and by all of them when the finaliser
\* declared a total: no interleaving of chunks, retries, expiries, failures
\* and restarts mixes two transfers (_chunked_uploads, os.replace).
WholeFile ==
  dest.bytes # NoFile =>
    /\ \E u \in Ids : BeginningOf(dest.bytes, u)
    /\ dest.total # NoTotal => Len(dest.bytes) = dest.total

\* While the body of a chunk is streamed nobody else takes the transfer, its
\* staging file or its entry away, though the table may change at every await
\* of the loop: the file holds what was banked before and what this request
\* wrote, and no second request streams into it.
Undisturbed ==
  \A r \in Requests : ~Idle(r) /\ Chunked(r) =>
    /\ tracked.id = req[r].id /\ tracked.busy /\ tracked.offset = req[r].offset
    /\ disk[Part] # NoFile
    /\ Len(disk[Part]) = req[r].offset + req[r].written
    /\ \A q \in Requests : ~Idle(q) /\ Chunked(q) => q = r

\* What a client was told is banked is what is staged: of an idle transfer the
\* tracked offset is the size of the staging file, and its bytes are those of
\* that transfer.
Banked ==
  tracked.id # NoId /\ ~tracked.busy =>
    /\ disk[Part] # NoFile
    /\ Len(disk[Part]) = tracked.offset
    /\ BeginningOf(disk[Part], tracked.id)
=============================================================================
