----------------------------- MODULE MCTransport -----------------------------
(* The byte-level components checked side by side: the buffer chain      *)
(* (BufferChain), a server link's compressed output (ServerOutput), the  *)
(* receive side of a connection (FrameReader), the poll table of the     *)
(* main loop (PollTable) and a user's output (UserOutput).  The initial  *)
(* state                                                                  *)
(* picks the component a behaviour exercises; the others stay in their   *)
(* initial states, so the state spaces add up rather than multiply.      *)
EXTENDS Naturals, Sequences, TLC

VARIABLES
  mode,
  chain,
  outbuf, sendbuf, wire, emitted, pend, pc, destroyed, writeI, queued,
  cls, stream, arrived, closed, rd, hasBuf, base, datasize, datamax, alloc,
  rpc, dispatched, rdestroyed, why,
  fdmap, maxFd, poll, pollNum, clients, cid, open,
  usendbuf, uwire, usent, uwriteI, udestroyed

(* Two byte values, nodes of two bytes and at most four bytes queued:    *)
(* chunks that span a node boundary and a chain of three nodes with a    *)
(* partial node in the middle (after buffer_append).                     *)
Chain == INSTANCE BufferChain WITH Data <- {"x", "y"}, NodeSize <- 2, MaxBytes <- 4

(* Nodes of two bytes, deflate adding at most three compressed bytes a   *)
(* call, four plaintext bytes over the run: a chunk spanning two nodes,  *)
(* compressed output spanning two nodes, and a sync flush that exactly   *)
(* fills a node.                                                          *)
Out == INSTANCE ServerOutput WITH NodeSize <- 2, MaxPlain <- 4, MaxOut <- 3,
                                  SendTarget <- 4, ServerChunk <- 0,
                                  ServerQueueLength <- 2

(* Two frames of payload 0, 1 or 3 bytes; Max_Command_Length 2, so a     *)
(* 3-byte payload is too long for a user and fine for a server link;     *)
(* recvbuf grows 2 bytes at a time, so frames cross growth boundaries.   *)
Reader == INSTANCE FrameReader WITH MaxLen <- 2, Grow <- 2, Lens <- {0, 1, 3},
                                    MaxFrames <- 2, pc <- rpc,
                                    destroyed <- rdestroyed

(* Descriptors 0..3 with one listening socket, 1: accepted sockets take  *)
(* 0, then 2 and 3, which grow fdmap; CLICK 2 makes the poll array grow  *)
(* on the second and the fourth descriptor; removals move slots and      *)
(* connections, and reaped descriptors are reused.                        *)
Poll == INSTANCE PollTable WITH Fds <- 0..3, Listen <- {1}, Click <- 2

(* Nodes of two bytes and four bytes sent over the run, Client_Queue_   *)
(* Length 2: direct writes, partial writes queued behind a node boundary,*)
(* and a queue that outgrows the limit when the client does not read.   *)
User == INSTANCE UserOutput WITH NodeSize <- 2, MaxBytes <- 4, ClientQueueLength <- 2,
                                 sendbuf <- usendbuf, wire <- uwire, sent <- usent,
                                 writeI <- uwriteI, destroyed <- udestroyed

chainVars  == <<chain>>
outVars    == <<outbuf, sendbuf, wire, emitted, pend, pc, destroyed, writeI, queued>>
readerVars == <<cls, stream, arrived, closed, rd, hasBuf, base, datasize,
                datamax, alloc, rpc, dispatched, rdestroyed, why>>
pollVars   == <<fdmap, maxFd, poll, pollNum, clients, cid, open>>
userVars   == <<usendbuf, uwire, usent, uwriteI, udestroyed>>
vars == <<mode, chainVars, outVars, readerVars, pollVars, userVars>>

Init ==
  /\ mode \in {"chain", "output", "reader", "poll", "user"}
  /\ Chain!Init /\ Out!Init /\ Reader!Init /\ Poll!Init /\ User!Init
  /\ mode # "reader" => stream = <<>> /\ cls = "user"

InChain(A)  == mode = "chain" /\ A /\ UNCHANGED <<outVars, readerVars, pollVars, userVars, mode>>
InOutput(A) == mode = "output" /\ A /\ UNCHANGED <<chainVars, readerVars, pollVars, userVars, mode>>
InReader(A) == mode = "reader" /\ A /\ UNCHANGED <<chainVars, outVars, pollVars, userVars, mode>>
InPoll(A)   == mode = "poll" /\ A /\ UNCHANGED <<chainVars, outVars, readerVars, userVars, mode>>
InUser(A)   == mode = "user" /\ A /\ UNCHANGED <<chainVars, outVars, readerVars, pollVars, mode>>

Next ==
  \/ InChain(Chain!Next)
  \/ InOutput(Out!Next)
  \/ InReader(Reader!Next)
  \/ InPoll(Poll!Next)
  \/ InUser(User!Next)

(* The fairness of ServerOutput, FrameReader and UserOutput, for the     *)
(* behaviours that exercise them.                                         *)
Fairness ==
  /\ WF_vars(InOutput(Out!Flush)) /\ WF_vars(InOutput(Out!CompressOnce))
  /\ WF_vars(InOutput(Out!CompressDone)) /\ WF_vars(InOutput(Out!WriteOut))
  /\ SF_vars(InOutput(Out!WriteAll))
  /\ WF_vars(InReader(Reader!HandleUser)) /\ WF_vars(InReader(Reader!ServerStep))
  /\ WF_vars(InUser(User!SendSome))

Spec == Init /\ [][Next]_vars /\ Fairness

-----------------------------------------------------------------------------
(* The chain, both buffers of a server link and the poll table have their *)
(* types (BufferChain, ServerOutput, PollTable).                          *)
TypeOK == Chain!TypeOK /\ Out!TypeOK /\ Poll!TypeOK

(* Every node of the chain satisfies buffer_validate (BufferChain).       *)
NodesValid == Chain!NodesValid

(* The chain behaves as a queue of bytes (BufferChain refines ByteQueue). *)
ImplementsByteQueue == Chain!ImplementsByteQueue

(* Every node of sendbuf holds bytes (ServerOutput).                      *)
SendbufValid == Out!SendbufValid

(* What was written, then what sendbuf still holds, is exactly the        *)
(* compressed stream deflate handed out (ServerOutput).                  *)
StreamIntact == Out!StreamIntact

(* Plaintext queued for a link is eventually compressed, flushed and      *)
(* written, unless the link is closed (ServerOutput).                    *)
AllSent == Out!AllSent

(* Frames are dispatched as sent, however split into reads (FrameReader).  *)
FramesInOrder == Reader!FramesInOrder

(* The \0 of dispatch_command stays inside recvbuf (FrameReader).         *)
SentinelInBounds == Reader!SentinelInBounds

(* Every frame that arrived is dispatched or the link destroyed          *)
(* (FrameReader).                                                         *)
ArrivedFramesDispatched == Reader!ArrivedFramesDispatched
(* The DEBUG check of the poll array holds before every poll()          *)
(* (PollTable).                                                           *)
PollKosher == Poll!PollKosher

(* Every connection's id is its index in global.clients (PollTable).     *)
ClientsIndexed == Poll!ClientsIndexed

(* The poll table keeps, per descriptor, the events set for it: it       *)
(* implements PollInterest (PollTable).                                   *)
ImplementsInterest == Poll!ImplementsInterest

(* What a user's socket took, then what is queued for it, is every byte  *)
(* the handlers sent, in order, however direct, partial and queued      *)
(* writes of queue_data and send_queued_data interleave (UserOutput).    *)
UserStreamInOrder == User!UserStreamInOrder

(* Output queued for a user who keeps reading is eventually written or  *)
(* the connection closed (UserOutput).                                   *)
UserOutputDrains == User!UserOutputDrains
==============================================================================
