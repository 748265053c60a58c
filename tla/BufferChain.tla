----------------------------- MODULE BufferChain -----------------------------
(***************************************************************************)
(* The output buffer chain of buffer.c (buffer_new, buffer_queue,          *)
(* buffer_consume, buffer_append, buffer_size, buffer_free): a list of     *)
(* BUFFER_SIZE nodes, each with its bytes and a consumed offset.  Bytes   *)
(* are symbols of Data and BUFFER_SIZE is NodeSize; the chain is shown to *)
(* implement the FIFO of ByteQueue.                                       *)
(***************************************************************************)
EXTENDS Naturals, Sequences, SequencesExt

CONSTANTS
  Data,      \* byte values
  NodeSize,  \* BUFFER_SIZE
  MaxBytes   \* bound: bytes queued at any time

ASSUME NodeSize \in Nat \ {0} /\ MaxBytes \in Nat

VARIABLE chain   \* the BUFFER list: <<[data, consumed], ...>>, head first

Node == [data : BoundedSeq(Data, NodeSize), consumed : 0..NodeSize]

(* buffer_new (buffer.c 23-45): an empty node of BUFFER_SIZE bytes. *)
NewNode == [data |-> <<>>, consumed |-> 0]

Room(nd) == NodeSize - Len(nd.data)

(* Mutant: the copy loop writes into the first node with room instead of *)
(* walking to the tail first.                                            *)
RECURSIVE FillHead(_, _)
FillHead(ch, s) ==
  IF s = <<>> THEN ch
  ELSE IF \A i \in DOMAIN ch : Room(ch[i]) = 0
       THEN FillHead(Append(ch, NewNode), s)
       ELSE LET i == CHOOSE j \in DOMAIN ch : Room(ch[j]) > 0
                k == IF Len(s) < Room(ch[i]) THEN Len(s) ELSE Room(ch[i])
            IN  FillHead([ch EXCEPT ![i].data = @ \o SubSeq(s, 1, k)],
                         SubSeq(s, k + 1, Len(s)))

(* Mutant: the copy is not cut to the room left in the tail node. *)
RECURSIVE FillOverflow(_, _)
FillOverflow(ch, s) ==
  IF s = <<>> THEN ch
  ELSE IF ch = <<>> \/ Room(Last(ch)) = 0
       THEN FillOverflow(Append(ch, NewNode), s)
       ELSE [ch EXCEPT ![Len(ch)].data = @ \o s]

(* The copy loop of buffer_queue (buffer.c 55-81): fill the tail node,   *)
(* then start a new one when it is full.                                 *)
RECURSIVE Fill(_, _)
Fill(ch, s) ==
  IF s = <<>> THEN ch
  ELSE IF ch = <<>> \/ Room(Last(ch)) = 0
       THEN Fill(Append(ch, NewNode), s)
       ELSE LET k == IF Len(s) < Room(Last(ch)) THEN Len(s) ELSE Room(Last(ch))
            IN  Fill([ch EXCEPT ![Len(ch)].data = @ \o SubSeq(s, 1, k)],
                     SubSeq(s, k + 1, Len(s)))

(* buffer_queue needs buffer_new when the tail cannot hold all of s. *)
NeedsNode(ch, s) == IF ch = <<>> THEN TRUE ELSE Room(Last(ch)) < Len(s)

(* buffer_size (buffer.c 118-127). *)
Size(ch) == FoldLeft(LAMBDA n, nd : n + Len(nd.data) - nd.consumed, 0, ch)

(* The unconsumed bytes of the chain, in order. *)
Contents(ch) ==
  FlattenSeq([i \in DOMAIN ch |-> SubSeq(ch[i].data, ch[i].consumed + 1, Len(ch[i].data))])

TypeOK == chain \in Seq(Node)

Init == chain = <<>>

(* buffer_queue (buffer.c 48-83) of a non-empty s. *)
Queue(s) ==
  /\ Size(chain) + Len(s) <= MaxBytes
  /\ chain' = Fill(chain, s)

(* buffer_queue when a buffer_new fails: the whole chain, old nodes      *)
(* included, is freed and 0 returned (buffer.c 65-71).                   *)
QueueFails(s) ==
  /\ Size(chain) + Len(s) <= MaxBytes
  /\ NeedsNode(chain, s)
  /\ chain' = <<>>

(* Mutant: a node is freed only once consumed passes datasize. *)
ConsumedLate(ch, n) ==
  LET c == Head(ch).consumed + n
  IN  IF c > Len(Head(ch).data) THEN Tail(ch) ELSE [ch EXCEPT ![1].consumed = c]

(* buffer_consume (buffer.c 86-101): n more bytes of the head node are    *)
(* consumed; the node is freed once consumed reaches datasize.            *)
Consumed(ch, n) ==
  LET c == Head(ch).consumed + n
  IN  IF c >= Len(Head(ch).data) THEN Tail(ch) ELSE [ch EXCEPT ![1].consumed = c]

(* Left of the head node. *)
HeadLeft(ch) == Len(Head(ch).data) - Head(ch).consumed

(* A call of buffer_consume.  The callers never pass more than the head   *)
(* holds: the write of the head node (buffer.c 394-405) and the input     *)
(* deflate took (buffer.c 205-206), possibly 0.                           *)
Consume(n) ==
  /\ chain # <<>>
  /\ n <= HeadLeft(chain)
  /\ chain' = Consumed(chain, n)

(* buffer_append (buffer.c 103-116) of the chain buffer_compress returns: *)
(* full nodes and a last one holding the rest.                           *)
AppendChain(s) ==
  /\ Size(chain) + Len(s) <= MaxBytes
  /\ chain' = chain \o Fill(<<>>, s)

(* buffer_free (buffer.c 129-142), from remove_connection. *)
Free == chain' = <<>>

Chunks == BoundedSeq(Data, MaxBytes) \ {<<>>}

Next ==
  \/ \E s \in Chunks : Queue(s) \/ QueueFails(s) \/ AppendChain(s)
  \/ \E n \in 0..NodeSize : Consume(n)
  \/ Free

Spec == Init /\ [][Next]_chain

-----------------------------------------------------------------------------
(* Every node satisfies buffer_validate (buffer.c 144-158): no more than  *)
(* BUFFER_SIZE bytes and, once consumption started, bytes left; only the  *)
(* head is ever partly consumed, since send_queued_data writes from       *)
(* head->data + head->consumed.                                           *)
NodesValid ==
  \A i \in DOMAIN chain :
    /\ Len(chain[i].data) <= NodeSize
    /\ chain[i].consumed < Len(chain[i].data)
    /\ i > 1 => chain[i].consumed = 0

(* The chain implements a FIFO of bytes (spec 8, buffer chain            *)
(* conservation): queue appends, consume removes from the front, a       *)
(* failed queue empties it.                                               *)
BQ == INSTANCE ByteQueue WITH q <- Contents(chain)
ImplementsByteQueue == BQ!Spec
==============================================================================
