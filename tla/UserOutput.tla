----------------------------- MODULE UserOutput -----------------------------
(***************************************************************************)
(* Output to a user (or unregistered) connection (buffer.c): queue_data   *)
(* writes at once when nothing is queued and queues what the socket did   *)
(* not take in con->sendbuf, asking for write interest; the WRITABLE      *)
(* branch of the client loop (main.c 1121-1141) then calls               *)
(* send_queued_data, which writes until the socket would block and        *)
(* closes a connection whose queue is over Client_Queue_Length.          *)
(*                                                                         *)
(* Bytes are numbered in the order the handlers send them, so the peer's  *)
(* stream shows any loss or reordering.  A write takes any number of the *)
(* bytes offered, or fails; EWOULDBLOCK is a write of none.  The server  *)
(* runs one thread, so each call is one step.                             *)
(***************************************************************************)
EXTENDS Naturals, Sequences, SequencesExt

CONSTANTS
  NodeSize,           \* BUFFER_SIZE
  MaxBytes,           \* bound: bytes the handlers send over the run
  ClientQueueLength   \* Client_Queue_Length

VARIABLES
  sendbuf,    \* con->sendbuf, a chain of numbered bytes
  wire,       \* the bytes the socket has taken, in order
  sent,       \* bytes handed to queue_data so far
  writeI,     \* POLLOUT interest of the fd
  destroyed   \* con->destroy

vars == <<sendbuf, wire, sent, writeI, destroyed>>

BC == INSTANCE BufferChain WITH chain <- sendbuf, Data <- 1..MaxBytes, MaxBytes <- MaxBytes

Seg(from, n) == [i \in 1..n |-> from + i]

TypeOK ==
  /\ sendbuf \in Seq(BC!Node) /\ wire \in Seq(1..MaxBytes)
  /\ sent \in 0..MaxBytes /\ writeI \in BOOLEAN /\ destroyed \in BOOLEAN

Init == sendbuf = <<>> /\ wire = <<>> /\ sent = 0 /\ writeI = FALSE /\ destroyed = FALSE

(* destroy_connection: marked, and the fd taken out of the poll set. *)
Destroy == destroyed' = TRUE /\ writeI' = FALSE

(* buffer_queue of s (buffer.c 47-97): appended, or, when a new node     *)
(* cannot be allocated, the chain freed and NULL returned, on which      *)
(* queue_data destroys the connection.                                    *)
Enqueue(s) ==
  \/ sendbuf' = BC!Fill(sendbuf, s)
  \/ BC!NeedsNode(sendbuf, s) /\ sendbuf' = <<>> /\ Destroy

(* Mutant: a partial direct write does not ask for write interest. *)
QueueDataNoSetWrite(n) ==
  LET s == Seg(sent, n)
  IN  /\ sent + n <= MaxBytes
      /\ sent' = sent + n
      /\ IF destroyed THEN UNCHANGED <<sendbuf, wire, writeI, destroyed>>
         ELSE IF sendbuf # <<>>
         THEN Enqueue(s) /\ UNCHANGED wire /\ (sendbuf' # <<>> => UNCHANGED <<writeI, destroyed>>)
         ELSE \/ Destroy /\ UNCHANGED <<sendbuf, wire>>
              \/ wire' = wire \o s /\ UNCHANGED <<sendbuf, writeI, destroyed>>
              \/ \E w \in 0..(n - 1) :
                   /\ wire' = wire \o SubSeq(s, 1, w)
                   /\ Enqueue(SubSeq(s, w + 1, n))
                   /\ sendbuf' # <<>> => UNCHANGED <<writeI, destroyed>>

(* Mutant: the data is written at once even when some is queued. *)
QueueDataDirect(n) ==
  LET s == Seg(sent, n)
  IN  /\ sent + n <= MaxBytes
      /\ sent' = sent + n
      /\ IF destroyed THEN UNCHANGED <<sendbuf, wire, writeI, destroyed>>
         ELSE \/ Destroy /\ UNCHANGED <<sendbuf, wire>>
              \/ wire' = wire \o s /\ UNCHANGED <<sendbuf, writeI, destroyed>>
              \/ \E w \in 0..(n - 1) :
                   /\ wire' = wire \o SubSeq(s, 1, w)
                   /\ Enqueue(SubSeq(s, w + 1, n))
                   /\ sendbuf' # <<>> => writeI' = TRUE /\ UNCHANGED destroyed

(* queue_data of n bytes to a user (buffer.c 443-496, without            *)
(* ALWAYS_QUEUE): nothing for a connection being destroyed; with an      *)
(* empty queue a WRITE first: a failure other than EWOULDBLOCK destroys, *)
(* all written ends it, and the rest, with write interest set, is        *)
(* queued; with data queued, the bytes are queued behind it.             *)
QueueData(n) ==
  LET s == Seg(sent, n)
  IN  /\ sent + n <= MaxBytes
      /\ sent' = sent + n
      /\ IF destroyed THEN UNCHANGED <<sendbuf, wire, writeI, destroyed>>
         ELSE IF sendbuf # <<>>
         THEN Enqueue(s) /\ UNCHANGED wire /\ (sendbuf' # <<>> => UNCHANGED <<writeI, destroyed>>)
         ELSE \/ Destroy /\ UNCHANGED <<sendbuf, wire>>
              \/ wire' = wire \o s /\ UNCHANGED <<sendbuf, writeI, destroyed>>
              \/ \E w \in 0..(n - 1) :
                   /\ wire' = wire \o SubSeq(s, 1, w)
                   /\ Enqueue(SubSeq(s, w + 1, n))
                   /\ sendbuf' # <<>> => writeI' = TRUE /\ UNCHANGED destroyed

(* The write loop takes w bytes off the head of the chain, node by node. *)
RECURSIVE Drained(_, _)
Drained(ch, w) ==
  IF w = 0 THEN ch
  ELSE LET k == IF w < BC!HeadLeft(ch) THEN w ELSE BC!HeadLeft(ch)
       IN  Drained(BC!Consumed(ch, k), w - k)

(* The WRITABLE branch for a user (main.c 1121-1141): with nothing       *)
(* queued write interest is dropped; send_queued_data (buffer.c 335-440) *)
(* writes w bytes until the socket would block, or fails; a failure or a *)
(* queue left over Client_Queue_Length returns -1 and the loop destroys  *)
(* the connection; otherwise write interest follows whether bytes are    *)
(* left.                                                                   *)
SendQueued ==
  /\ writeI /\ ~destroyed
  /\ \E w \in 0..BC!Size(sendbuf), fails \in BOOLEAN :
       /\ wire' = wire \o SubSeq(BC!Contents(sendbuf), 1, w)
       /\ sendbuf' = Drained(sendbuf, w)
       /\ IF fails \/ BC!Size(sendbuf') > ClientQueueLength
            THEN Destroy
            ELSE writeI' = (sendbuf' # <<>>) /\ UNCHANGED destroyed
  /\ UNCHANGED sent

Next ==
  \/ \E n \in 1..NodeSize : QueueData(n)
  \/ SendQueued

(* The loop visits the connection on every pass and the peer keeps       *)
(* reading, so a write that takes bytes stays possible while data is      *)
(* queued and write interest is set (a write of none changes nothing):    *)
(* weak fairness on it.                                                   *)
SendSome == SendQueued /\ Len(wire') > Len(wire)

Fairness == WF_vars(SendSome)

Spec == Init /\ [][Next]_vars /\ Fairness

-----------------------------------------------------------------------------
(* The user's stream is the handlers' output, whole and in order: what   *)
(* the socket took followed by what is queued is every byte sent so far, *)
(* however direct writes, partial writes and queued writes interleave;   *)
(* once the connection is being destroyed, it is a prefix of them.       *)
UserStreamInOrder ==
  IF destroyed THEN IsPrefix(wire \o BC!Contents(sendbuf), Seg(0, sent))
               ELSE wire \o BC!Contents(sendbuf) = Seg(0, sent)

(* Bytes queued for a user whose client keeps reading are eventually    *)
(* written, or the connection is closed: a partial direct write in        *)
(* queue_data must leave write interest set.                              *)
UserOutputDrains == sendbuf # <<>> ~> (sendbuf = <<>> \/ destroyed)
==============================================================================
