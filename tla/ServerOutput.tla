---------------------------- MODULE ServerOutput ----------------------------
(***************************************************************************)
(* Output to a peer server link (buffer.c): queue_data appends plaintext  *)
(* to con->sopt->outbuf; send_queued_data, called by flush_server_data    *)
(* each pass of the main loop and when the socket is writable, runs       *)
(* buffer_compress over the head node of outbuf while the compressed      *)
(* con->sendbuf holds less than 16384 bytes, then writes sendbuf out and  *)
(* checks Server_Queue_Length.                                            *)
(*                                                                         *)
(* zlib's deflate is abstract.  Each call consumes some input, owes a     *)
(* number of compressed bytes, and hands out up to avail_out of them.     *)
(* Compressed bytes are numbered in the order deflate produced them, so   *)
(* the wire shows any loss or reordering.  Plaintext bytes are all alike; *)
(* only their count matters to the chain.                                 *)
(***************************************************************************)
EXTENDS Naturals, Sequences, SequencesExt

CONSTANTS
  NodeSize,           \* BUFFER_SIZE
  MaxPlain,           \* bound: plaintext bytes queued over the run
  MaxOut,             \* bound: compressed bytes one deflate call adds
  SendTarget,         \* the 16384 of send_queued_data
  ServerChunk,        \* Server_Chunk
  ServerQueueLength   \* Server_Queue_Length

VARIABLES
  outbuf,     \* con->sopt->outbuf, plaintext chain
  sendbuf,    \* con->sendbuf, compressed chain
  wire,       \* compressed bytes written to the socket
  emitted,    \* compressed bytes deflate has handed out so far
  pend,       \* compressed bytes deflate owes (input taken, output not yet given)
  pc,         \* "idle", or where send_queued_data is
  destroyed,  \* send_queued_data returned -1 or buffer_queue failed
  writeI,     \* POLLOUT interest
  queued      \* plaintext bytes queued so far

vars == <<outbuf, sendbuf, wire, emitted, pend, pc, destroyed, writeI, queued>>

Plain == "p"
BC == INSTANCE BufferChain WITH chain <- outbuf, Data <- {Plain}, MaxBytes <- MaxPlain

(* Compressed bytes from + 1 .. from + n, as deflate numbers them. *)
Seg(from, n) == [i \in 1..n |-> from + i]

TypeOK ==
  /\ outbuf \in Seq(BC!Node)
  /\ sendbuf \in Seq([data : Seq(Nat), consumed : 0..NodeSize])
  /\ \A i \in DOMAIN sendbuf : Len(sendbuf[i].data) <= NodeSize
  /\ wire \in Seq(Nat) /\ emitted \in Nat /\ pend \in Nat
  /\ pc \in {"idle", "compress", "write"}
  /\ destroyed \in BOOLEAN /\ writeI \in BOOLEAN
  /\ queued \in 0..MaxPlain

Init ==
  /\ outbuf = <<>> /\ sendbuf = <<>> /\ wire = <<>>
  /\ emitted = 0 /\ pend = 0 /\ pc = "idle"
  /\ destroyed = FALSE /\ writeI = FALSE /\ queued = 0

(* queue_data for a server (buffer.c 447-455): always append to outbuf;  *)
(* a failed buffer_queue has dropped the chain and the link is closed.   *)
QueueData(n) ==
  /\ pc = "idle" /\ queued + n <= MaxPlain
  /\ queued' = queued + n
  /\ \/ /\ outbuf' = BC!Fill(outbuf, [i \in 1..n |-> Plain])
        /\ UNCHANGED destroyed
     \/ /\ BC!NeedsNode(outbuf, [i \in 1..n |-> Plain])
        /\ outbuf' = <<>> /\ destroyed' = TRUE
  /\ UNCHANGED <<sendbuf, wire, emitted, pend, pc, writeI>>

(* send_queued_data is entered (flush_server_data, main.c 888-895, or    *)
(* the WRITABLE branch of the client loop, main.c 1127-1140); a link     *)
(* already marked is left alone and reported again (buffer.c 341-347).   *)
Flush ==
  /\ pc = "idle"
  /\ IF destroyed THEN writeI' = FALSE /\ UNCHANGED pc
                  ELSE pc' = "compress" /\ UNCHANGED writeI
  /\ UNCHANGED <<outbuf, sendbuf, wire, emitted, pend, destroyed, queued>>

(* Mutant: the output is not split at the node size. *)
OutUncut(n) == <<[data |-> Seg(emitted, n), consumed |-> 0]>>

(* The compressed chain buffer_compress builds from n bytes: full nodes   *)
(* and a last one cut down by avail_out (buffer.c 178-213).              *)
Out(n) == BC!Fill(<<>>, Seg(emitted, n))

(* Z_SYNC_FLUSH on the last node: deflate is called while it fills the   *)
(* node it was given, so everything owed comes out.  zlib never ends     *)
(* such a run with an empty node: after a flush that exactly fills        *)
(* avail_out it sets last_flush = -1, and the next call emits one more    *)
(* empty stored block.  The totals a run can hand out are therefore those *)
(* that leave bytes in the last node.                                    *)
SyncTotals == {t \in (pend + 1)..(pend + MaxOut) : t % NodeSize # 0}

(* Mutant: every node is compressed with Z_NO_FLUSH. *)
CompressOnceNoSync ==
  /\ pc = "compress" /\ outbuf # <<>> /\ BC!Size(sendbuf) < SendTarget
  /\ \E a \in 0..BC!HeadLeft(outbuf), o \in 0..NodeSize :
       \E g \in (IF a = 0 THEN {0} ELSE 0..MaxOut) :
         /\ o <= pend + g
         /\ o < NodeSize => a = BC!HeadLeft(outbuf)
         /\ outbuf' = BC!Consumed(outbuf, a)
         /\ pend' = pend + g - o /\ emitted' = emitted + o
         /\ IF o = 0 THEN pc' = "write" /\ UNCHANGED sendbuf
                     ELSE sendbuf' = sendbuf \o Out(o) /\ UNCHANGED pc
  /\ UNCHANGED <<wire, destroyed, writeI, queued>>

(* Mutant: a node deflate left empty is returned and appended. *)
CompressOnceKeepEmpty ==
  /\ pc = "compress" /\ outbuf # <<>> /\ BC!Size(sendbuf) < SendTarget
  /\ IF Len(outbuf) = 1
       THEN \E t \in SyncTotals :
              /\ sendbuf' = sendbuf \o Out(t)
              /\ emitted' = emitted + t /\ pend' = 0
              /\ outbuf' = Tail(outbuf)
       ELSE \E a \in 0..BC!HeadLeft(outbuf), o \in 0..NodeSize :
              \E g \in (IF a = 0 THEN {0} ELSE 0..MaxOut) :
                /\ o <= pend + g
                /\ o < NodeSize => a = BC!HeadLeft(outbuf)
                /\ outbuf' = BC!Consumed(outbuf, a)
                /\ pend' = pend + g - o /\ emitted' = emitted + o
                /\ sendbuf' = sendbuf \o <<[data |-> Seg(emitted, o), consumed |-> 0]>>
  /\ UNCHANGED <<pc, wire, destroyed, writeI, queued>>

(* Mutant: buffer_append with its arguments swapped. *)
CompressOnceSwapped ==
  /\ pc = "compress" /\ outbuf # <<>> /\ BC!Size(sendbuf) < SendTarget
  /\ IF Len(outbuf) = 1
       THEN \E t \in SyncTotals :
              /\ sendbuf' = Out(t) \o sendbuf
              /\ emitted' = emitted + t /\ pend' = 0
              /\ outbuf' = Tail(outbuf)
              /\ UNCHANGED pc
       ELSE \E a \in 0..BC!HeadLeft(outbuf), o \in 0..NodeSize :
              \E g \in (IF a = 0 THEN {0} ELSE 0..MaxOut) :
                /\ o <= pend + g
                /\ o < NodeSize => a = BC!HeadLeft(outbuf)
                /\ outbuf' = BC!Consumed(outbuf, a)
                /\ pend' = pend + g - o /\ emitted' = emitted + o
                /\ IF o = 0 THEN pc' = "write" /\ UNCHANGED sendbuf
                            ELSE sendbuf' = Out(o) \o sendbuf /\ UNCHANGED pc
  /\ UNCHANGED <<wire, destroyed, writeI, queued>>

(* One pass of the compress loop of send_queued_data (buffer.c 355-364):  *)
(* buffer_compress of the head node (buffer.c 160-228), then              *)
(* buffer_append of what it returned to sendbuf.  Not the last node: one  *)
(* deflate call with Z_NO_FLUSH into one node; the input is all taken     *)
(* unless the node filled, and if nothing came out the node is freed and  *)
(* 0 returned, which ends the loop.                                        *)
CompressOnce ==
  /\ pc = "compress" /\ outbuf # <<>> /\ BC!Size(sendbuf) < SendTarget
  /\ IF Len(outbuf) = 1
       THEN \E t \in SyncTotals :
              /\ sendbuf' = sendbuf \o Out(t)
              /\ emitted' = emitted + t /\ pend' = 0
              /\ outbuf' = Tail(outbuf)
              /\ UNCHANGED pc
       ELSE \E a \in 0..BC!HeadLeft(outbuf), o \in 0..NodeSize :
              \E g \in (IF a = 0 THEN {0} ELSE 0..MaxOut) :
                /\ o <= pend + g
                /\ o < NodeSize => a = BC!HeadLeft(outbuf)
                /\ outbuf' = BC!Consumed(outbuf, a)
                /\ pend' = pend + g - o /\ emitted' = emitted + o
                /\ IF o = 0 THEN pc' = "write" /\ UNCHANGED sendbuf
                            ELSE sendbuf' = sendbuf \o Out(o) /\ UNCHANGED pc
  /\ UNCHANGED <<wire, destroyed, writeI, queued>>

(* The compress loop ends when outbuf is empty or sendbuf holds 16384. *)
CompressDone ==
  /\ pc = "compress" /\ (outbuf = <<>> \/ BC!Size(sendbuf) >= SendTarget)
  /\ pc' = "write"
  /\ UNCHANGED <<outbuf, sendbuf, wire, emitted, pend, destroyed, writeI, queued>>

(* The write loop takes w bytes off the head of sendbuf, node by node. *)
RECURSIVE Drained(_, _)
Drained(ch, w) ==
  IF w = 0 THEN ch
  ELSE LET k == IF w < BC!HeadLeft(ch) THEN w ELSE BC!HeadLeft(ch)
       IN  Drained(BC!Consumed(ch, k), w - k)

(* The rest of send_queued_data for a server (buffer.c 366-440): with     *)
(* Server_Chunk set and less than that compressed, write interest is     *)
(* dropped and 0 returned at once.  Otherwise writes go out until the    *)
(* socket would block (w bytes) or fails (closed); then an uncompressed   *)
(* backlog over Server_Queue_Length closes the link, and write interest  *)
(* follows whether anything is left.                                      *)
WriteOut ==
  /\ pc = "write"
  /\ pc' = "idle"
  /\ IF ServerChunk > 0 /\ BC!Size(sendbuf) < ServerChunk
       THEN writeI' = FALSE /\ UNCHANGED <<sendbuf, wire, destroyed>>
       ELSE \E w \in 0..BC!Size(sendbuf), fails \in BOOLEAN :
              /\ wire' = wire \o SubSeq(BC!Contents(sendbuf), 1, w)
              /\ sendbuf' = Drained(sendbuf, w)
              /\ destroyed' = (fails \/ BC!Size(outbuf) > ServerQueueLength)
              /\ writeI' = IF destroyed' THEN writeI
                            ELSE sendbuf' # <<>> \/ outbuf # <<>>
  /\ UNCHANGED <<outbuf, emitted, pend, queued>>

Next ==
  \/ \E n \in 1..NodeSize : QueueData(n)
  \/ Flush
  \/ CompressOnce
  \/ CompressDone
  \/ WriteOut

(* flush_server_data runs on every pass of the main loop, and           *)
(* send_queued_data runs to its end once entered: weak fairness.  The     *)
(* peer server keeps reading, so a write that empties sendbuf is taken    *)
(* whenever it is offered infinitely often: strong fairness on it.        *)
WriteAll == WriteOut /\ wire' = wire \o BC!Contents(sendbuf)

Fairness ==
  /\ WF_vars(Flush) /\ WF_vars(CompressOnce) /\ WF_vars(CompressDone)
  /\ WF_vars(WriteOut) /\ SF_vars(WriteAll)

Spec == Init /\ [][Next]_vars /\ Fairness

-----------------------------------------------------------------------------
(* Every node of sendbuf holds bytes: buffer_compress frees the node a     *)
(* deflate call left empty instead of returning it (buffer.c 214-224).    *)
(* An empty node at the head would make the write loop WRITE 0 bytes and  *)
(* stop for good ("wrote 0 bytes", buffer.c 397-401).                     *)
SendbufValid ==
  \A i \in DOMAIN sendbuf :
    /\ 0 < Len(sendbuf[i].data)
    /\ sendbuf[i].consumed < Len(sendbuf[i].data)
    /\ i > 1 => sendbuf[i].consumed = 0

(* The compressed stream reaches the peer whole and in order: what was    *)
(* written followed by what sendbuf still holds is exactly what deflate   *)
(* has handed out (spec 4.2; the inflate of the peer fails otherwise).    *)
StreamIntact == wire \o BC!Contents(sendbuf) = Seg(0, emitted)

(* With Server_Chunk = 0, plaintext queued for a link is eventually       *)
(* compressed, sync-flushed and written, unless the link is closed: the   *)
(* last node is compressed with Z_SYNC_FLUSH (buffer.c 173).              *)
AllSent ==
  (outbuf # <<>> \/ pend > 0) ~>
    (destroyed \/ (outbuf = <<>> /\ pend = 0 /\ sendbuf = <<>>))

(* Spec 4.5: after each flush the queued-byte ceiling is enforced: a      *)
(* send_queued_data that returns with more than Server_Queue_Length bytes *)
(* in outbuf has closed the link (buffer.c 417-424).                      *)
BacklogChecked ==
  [][pc = "write" /\ pc' = "idle" /\ BC!Size(outbuf) > ServerQueueLength => destroyed']_vars
====
