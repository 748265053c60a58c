----------------------------- MODULE FrameReader -----------------------------
(***************************************************************************)
(* The receive side of one connection (handler.c 436-697 and              *)
(* buffer_decompress, buffer.c 236-278): recvbuf is filled from the       *)
(* socket, as plain bytes for a user or unregistered connection and       *)
(* through inflate for a server link, and every complete frame in it is   *)
(* dispatched, after which the unprocessed rest is moved to the front.    *)
(*                                                                         *)
(* The peer's plaintext is a stream of frames, each a 4-byte header and   *)
(* a payload; only payload lengths are kept.  recvbuf holds stream bytes  *)
(* base + 1 .. base + datasize, so its contents need not be stored.  Its  *)
(* consumed offset is 0 between calls (the compaction at the end resets   *)
(* it), so it lives only inside a call.  For a server link, "arrived"     *)
(* counts the plaintext bytes whose compressed form is in the socket, and *)
(* a read of compressed bytes yields some of them from inflate.           *)
(***************************************************************************)
EXTENDS Naturals, Sequences, SequencesExt

CONSTANTS
  MaxLen,     \* Max_Command_Length
  Grow,       \* the 2048 bytes buffer_decompress adds to recvbuf at a time
  Lens,       \* payload lengths the peer sends
  MaxFrames   \* bound: frames in the peer's stream

VARIABLES
  cls,        \* "user" (or unregistered) or "server": which path reads
  stream,     \* payload lengths of the frames the peer writes, in order
  arrived,    \* stream bytes that have reached the socket
  closed,     \* the peer has closed its end
  rd,         \* stream bytes read (user) or inflated (server) into recvbuf
  hasBuf,     \* con->recvbuf exists
  base,       \* stream offset of recvbuf->data[0]
  datasize,   \* recvbuf->datasize
  datamax,    \* recvbuf->datamax
  alloc,      \* bytes allocated for recvbuf->data
  pc,         \* server read loop: "idle" or "read" (inside the do-while)
  dispatched, \* the frames dispatched, as [off, len, end, ok]
  destroyed,  \* destroy_connection was called
  why         \* why: "none", "eof", "toolong" or "inflate"

vars == <<cls, stream, arrived, closed, rd, hasBuf, base, datasize, datamax,
          alloc, pc, dispatched, destroyed, why>>

Min2(a, b) == IF a < b THEN a ELSE b

(* Stream offset where frame j starts, and the length of the stream. *)
Start(j) == FoldLeft(LAMBDA a, l : a + 4 + l, 0, SubSeq(stream, 1, j - 1))
Total == Start(Len(stream) + 1)

(* The payload length in the header at stream offset o (the memcpy of len *)
(* and BSWAP16); 0 where no header starts, which the properties rule out. *)
LenAt(o) ==
  IF \E j \in 1..Len(stream) : Start(j) = o
  THEN stream[CHOOSE j \in 1..Len(stream) : Start(j) = o]
  ELSE 0

(* The frame loop of handle_connection (handler.c 601-680) from offset c *)
(* of a buffer holding ds bytes: stop without a complete header or body; *)
(* otherwise dispatch_command, whose sentinel write at pkt + len must lie *)
(* inside the allocation, and consumed += 4 + len.  The result is the     *)
(* final consumed offset and the frames dispatched.                       *)
RECURSIVE Scan(_, _, _, _)
Scan(c, ds, al, acc) ==
  IF ds - c < 4 THEN [c |-> c, fs |-> acc]
  ELSE LET l == LenAt(base + c)
       IN  IF c + 4 + l > ds THEN [c |-> c, fs |-> acc]
           ELSE Scan(c + 4 + l, ds, al,
                     Append(acc, [off |-> base + c, len |-> l,
                                  end |-> c + 4 + l, ok |-> c + 4 + l < al]))

(* Mutant: the unprocessed rest is not moved down to data[0]. *)
ScanAndCompactNoShift(ds, al) ==
  LET s == Scan(0, ds, al, <<>>)
  IN  /\ dispatched' = dispatched \o s.fs
      /\ base' = base
      /\ datasize' = ds - s.c

(* Scan a buffer of ds bytes and move what is left to the front          *)
(* (handler.c 683-697).                                                   *)
ScanAndCompact(ds, al) ==
  LET s == Scan(0, ds, al, <<>>)
  IN  /\ dispatched' = dispatched \o s.fs
      /\ base' = base + s.c
      /\ datasize' = ds - s.c

Readable == arrived > rd \/ closed

Destroy(w) == destroyed' = TRUE /\ why' = w

TypeOK ==
  /\ cls \in {"user", "server"}
  /\ stream \in Seq(Lens) /\ Len(stream) <= MaxFrames
  /\ arrived \in 0..Total /\ rd \in 0..arrived /\ closed \in BOOLEAN
  /\ hasBuf \in BOOLEAN /\ base \in 0..Total
  /\ datasize \in Nat /\ datamax \in Nat /\ alloc \in Nat
  /\ pc \in {"idle", "read"}
  /\ dispatched \in Seq([off : Nat, len : Nat, end : Nat, ok : BOOLEAN])
  /\ destroyed \in BOOLEAN /\ why \in {"none", "eof", "toolong", "inflate"}

(* A user connection starts without recvbuf.  A server link was an        *)
(* unregistered connection first, whose recvbuf the user path created     *)
(* (4 bytes, 5 allocated) and grew to 4 + len + 1 for its frames.         *)
Init ==
  /\ stream \in BoundedSeq(Lens, MaxFrames)
  /\ cls \in {"user", "server"}
  /\ arrived = 0 /\ closed = FALSE /\ rd = 0 /\ base = 0 /\ datasize = 0
  /\ pc = "idle" /\ dispatched = <<>> /\ destroyed = FALSE /\ why = "none"
  /\ IF cls = "user"
       THEN hasBuf = FALSE /\ datamax = 0 /\ alloc = 0
       ELSE /\ hasBuf = TRUE
            /\ datamax \in {4 + l : l \in 0..MaxLen}
            /\ alloc = datamax + 1

-----------------------------------------------------------------------------
(* Plaintext the peer's socket can still deliver, and the number of 2048- *)
(* byte growths buffer_decompress makes for k bytes of output when free   *)
(* bytes are left: it grows whenever the output space is used up, before  *)
(* the first inflate too.                                                  *)
Avail == arrived - rd

Growths(free, k) == IF free > k THEN 0 ELSE (k - free) \div Grow + 1

(* inflate returns Z_BUF_ERROR when it can make no progress: after a call *)
(* whose output filled the space exactly and consumed the input (the sync *)
(* flush marker carries no output), the loop grows the buffer and calls   *)
(* inflate again with nothing to do.  Any result but Z_OK is fatal.        *)
InflateFails(free, k) == k > 0 /\ k >= free /\ (k - free) % Grow = 0

(* Mutant: the realloc leaves no room for the \0 of dispatch_command. *)
RecvAllocNoNul(l) == 4 + l

(* The size the user path reallocates recvbuf->data to for a body of l   *)
(* bytes: one more than datamax, for the \0 (handler.c 544-556).          *)
RecvAlloc(l) == 4 + l + 1

(* The user path of handle_connection (handler.c 496-596) and the frame   *)
(* loop and compaction after it: create recvbuf, read the missing header *)
(* bytes, refuse a length above Max_Command_Length, grow recvbuf to      *)
(* 4 + len (+1 for the \0), read at most the rest of the body, and       *)
(* dispatch the frame once it is complete.  A read that finds nothing    *)
(* returns (EWOULDBLOCK) or, after the peer closed, destroys (EOF).      *)
HandleUser ==
  /\ cls = "user" /\ ~destroyed /\ Readable
  /\ LET dm0  == IF hasBuf THEN datamax ELSE 4
         al0  == IF hasBuf THEN alloc ELSE 5
         h    == IF datasize < 4 THEN Min2(4 - datasize, Avail) ELSE 0
         ds1  == datasize + h
         l    == LenAt(base)
         body == ds1 >= 4 /\ l > 0 /\ l <= MaxLen
         grow == body /\ dm0 < 4 + l
         dm1  == IF grow THEN 4 + l ELSE dm0
         al1  == IF grow THEN RecvAlloc(l) ELSE al0
         b    == IF body THEN Min2(4 + l - ds1, Avail - h) ELSE 0
         ds2  == ds1 + b
         stop == ds1 < 4 \/ (body /\ b = 0)
     IN  /\ hasBuf' = TRUE /\ datamax' = dm1 /\ alloc' = al1
         /\ rd' = rd + h + b
         /\ CASE ds1 >= 4 /\ l > MaxLen ->
                   Destroy("toolong") /\ UNCHANGED <<base, datasize, dispatched>>
              [] stop /\ closed ->
                   Destroy("eof") /\ UNCHANGED <<base, datasize, dispatched>>
              [] stop ->
                   datasize' = ds2 /\ UNCHANGED <<base, dispatched, destroyed, why>>
              [] OTHER ->
                   ScanAndCompact(ds2, al1) /\ UNCHANGED <<destroyed, why>>
  /\ UNCHANGED <<cls, stream, arrived, closed, pc>>

(* Mutant: EWOULDBLOCK returns from handle_connection instead of leaving *)
(* the read loop, so what earlier passes inflated is not processed.      *)
WouldBlockReturn == UNCHANGED <<base, datasize, dispatched, destroyed, why>>

(* EWOULDBLOCK ends the server read loop (handler.c 456-463): the frames *)
(* inflated so far are processed.                                         *)
WouldBlock == ScanAndCompact(datasize, alloc) /\ UNCHANGED <<destroyed, why>>

(* One pass of the server read loop (handler.c 446-494): READ up to      *)
(* sizeof(Buf) compressed bytes, which inflate to k plaintext bytes, and *)
(* buffer_decompress them (buffer.c 236-278).  A read that does not fill *)
(* Buf took all the socket held and ends the loop; so does EWOULDBLOCK;  *)
(* EOF destroys the link.  After the loop come the frame loop and the    *)
(* compaction.                                                            *)
ServerRead(k, full) ==
  /\ cls = "server" /\ ~destroyed /\ (pc = "read" \/ Readable)
  /\ IF Avail = 0
       THEN /\ k = 0 /\ ~full
            /\ IF closed
                 THEN Destroy("eof") /\ UNCHANGED <<base, datasize, dispatched>>
                 ELSE WouldBlock
            /\ pc' = "idle"
            /\ UNCHANGED <<rd, datamax, alloc>>
       ELSE LET free == datamax - datasize
                g    == Growths(free, k)
                dm   == datamax + g * Grow
                al   == IF g > 0 THEN dm + 1 ELSE alloc
            IN  /\ k \in (IF full THEN 1 ELSE Avail)..Avail
                /\ IF InflateFails(free, k)
                     THEN /\ Destroy("inflate") /\ pc' = "idle"
                          /\ UNCHANGED <<rd, base, datasize, datamax, alloc, dispatched>>
                     ELSE /\ rd' = rd + k /\ datamax' = dm /\ alloc' = al
                          /\ IF full
                               THEN /\ pc' = "read" /\ datasize' = datasize + k
                                    /\ UNCHANGED <<base, dispatched>>
                               ELSE /\ pc' = "idle"
                                    /\ ScanAndCompact(datasize + k, al)
                          /\ UNCHANGED <<destroyed, why>>
  /\ UNCHANGED <<cls, stream, arrived, closed, hasBuf>>

(* The peer's bytes reach the socket in chunks of any size. *)
Arrive(n) ==
  /\ ~closed /\ arrived + n <= Total
  /\ arrived' = arrived + n
  /\ UNCHANGED <<cls, stream, closed, rd, hasBuf, base, datasize, datamax,
                 alloc, pc, dispatched, destroyed, why>>

(* The peer closes its end, at any point of the stream. *)
PeerClose ==
  /\ ~closed
  /\ closed' = TRUE
  /\ UNCHANGED <<cls, stream, arrived, rd, hasBuf, base, datasize, datamax,
                 alloc, pc, dispatched, destroyed, why>>

ServerStep == \E k \in 0..Total, full \in BOOLEAN : ServerRead(k, full)

Next ==
  \/ HandleUser
  \/ ServerStep
  \/ \E n \in 1..Total : Arrive(n)
  \/ PeerClose

(* The poll loop calls handle_connection while the socket is readable,   *)
(* and the server loop continues while it last read a full Buf.          *)
Fairness == WF_vars(HandleUser) /\ WF_vars(ServerStep)

Spec == Init /\ [][Next]_vars /\ Fairness

-----------------------------------------------------------------------------
(* However the peer's bytes are split into reads (and, for a server link, *)
(* into inflate outputs), the frames dispatched are the frames sent, in   *)
(* order, each read from where its header really starts: the header of   *)
(* the user path at data[0], the frame loop at data + consumed, and the  *)
(* compaction moving the rest to the front (spec 8).                     *)
FramesInOrder ==
  \A i \in DOMAIN dispatched :
     /\ i <= Len(stream)
     /\ dispatched[i].off = Start(i)
     /\ dispatched[i].len = stream[i]

(* dispatch_command writes a \0 at pkt + len, one byte past the frame;   *)
(* both paths keep that byte inside the allocation (the +1 of the user   *)
(* path's realloc, the 2049 of buffer_decompress), and recvbuf never     *)
(* holds more than datamax bytes.                                         *)
SentinelInBounds ==
  /\ \A i \in DOMAIN dispatched : dispatched[i].ok
  /\ hasBuf => datasize <= datamax /\ datamax < alloc

(* Every frame that has wholly reached the socket is eventually          *)
(* dispatched, unless the connection is destroyed: no complete frame is  *)
(* left in recvbuf waiting for more input that may never come.           *)
ArrivedFramesDispatched ==
  \A j \in 1..MaxFrames :
     (j <= Len(stream) /\ arrived >= Start(j + 1))
       ~> (Len(dispatched) >= j \/ destroyed)

(* A link is destroyed only when its peer closed or sent a command longer *)
(* than Max_Command_Length, never when its data was well-formed: spec    *)
(* 4.2 grows the output buffer only while input remains to inflate.      *)
NoSpuriousClose ==
  destroyed => why \in {"eof", "toolong"}
==============================================================================
