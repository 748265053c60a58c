----------------------------- MODULE Dispatcher -----------------------------
(***************************************************************************)
(* The table lookup of dispatch_command (handler.c 118-434): the sorted    *)
(* Protocol[] table of the default build (ROUTING_ONLY undefined, the     *)
(* "#if 0" entry left out), the binary search of find_handler, and the    *)
(* per-entry statistics dispatch_command keeps.  Handlers are abstracted  *)
(* to the entry they are called through.  Entries are indexed from 0, as  *)
(* in C.                                                                  *)
(***************************************************************************)
EXTENDS Naturals, Integers, Sequences, SequencesExt

CONSTANTS
  Frames,     \* the frames that may be dispatched, as [tag, len]
  MaxFrames   \* bound: frames dispatched in one behaviour

VARIABLES
  stats,      \* Protocol[l].count and .bytes, and unknown_numeric
  dispatched  \* the frames dispatched so far, in order

(* The message numbers of Protocol[] (handler.c 118-270), in table order. *)
Protocol ==
  <<0, 2, 4, 6, 7, 11, 14, 100, 102, 110, 200, 203,
    205, 207, 208, 211, 214, 215, 218, 219, 220, 221, 300, 303,
    320, 322, 323, 326, 400, 401, 402, 403, 404, 410, 420, 422,
    423, 424, 500, 600, 603, 606, 607, 608, 610, 611, 612, 613,
    614, 615, 617, 619, 621, 622, 623, 625, 626, 627, 628, 640,
    641, 652, 700, 701, 702, 703, 750, 751, 752, 753, 800, 801,
    810, 820, 821, 822, 823, 824, 826, 827, 829, 830, 831, 870,
    920, 10000, 10010, 10011, 10012, 10014, 10015, 10016, 10017, 10018,
    10019, 10020, 10021, 10022, 10023, 10024, 10100, 10101, 10110, 10111,
    10112, 10115, 10117, 10118, 10119, 10120, 10121, 10122, 10123, 10200,
    10203, 10204, 10205, 10208, 10209, 10210, 10211, 10212, 10213, 10214,
    10250, 10251, 10252, 10253, 10254, 10255, 10256, 10257, 10258, 10259,
    10260, 10261, 10300>>

ProtocolSize == Len(Protocol)

Entry(l) == Protocol[l + 1]

NotFound == -1

(* Mutant: the min == max test comes before the comparison, so the last  *)
(* remaining candidate is never compared.                                *)
RECURSIVE SearchMinMaxFirst(_, _, _)
SearchMinMaxFirst(tag, min, max) ==
  LET try == (max + min) \div 2
  IN  IF min = max THEN NotFound
      ELSE IF tag = Entry(try) THEN try
      ELSE IF tag < Entry(try)
           THEN IF try = min THEN NotFound ELSE SearchMinMaxFirst(tag, min, try - 1)
           ELSE IF try = max THEN NotFound ELSE SearchMinMaxFirst(tag, try + 1, max)

(* One pass of the loop of find_handler (handler.c 306-333) on the range  *)
(* min..max, and the passes after it.                                     *)
RECURSIVE Search(_, _, _)
Search(tag, min, max) ==
  LET try == (max + min) \div 2
  IN  IF tag = Entry(try) THEN try
      ELSE IF min = max THEN NotFound
      ELSE IF tag < Entry(try)
           THEN IF try = min THEN NotFound ELSE Search(tag, min, try - 1)
           ELSE IF try = max THEN NotFound ELSE Search(tag, try + 1, max)

(* find_handler: the loop runs while no signal has been caught; once the *)
(* handler of SIGINT, SIGHUP or SIGTERM set SigCaught, every tag is       *)
(* reported as not found.                                                  *)
FindHandler(tag, sigCaught) ==
  IF sigCaught THEN NotFound ELSE Search(tag, 0, ProtocolSize - 1)

(* The statistics of dispatch_command (handler.c 392-403): the count and  *)
(* bytes of each entry, and unknown_numeric, which keeps the last unknown *)
(* tag and the count and bytes of all of them.                            *)
NoStats ==
  [count   |-> [l \in 0..ProtocolSize - 1 |-> 0],
   bytes   |-> [l \in 0..ProtocolSize - 1 |-> 0],
   unknown |-> [message |-> 0, count |-> 0, bytes |-> 0]]

(* dispatch_command (handler.c 336-434) of a frame with the given tag and *)
(* payload length: the statistics after the handler ran, or after the    *)
(* "Unknown command code" reply.                                         *)
Account(st, tag, len, sigCaught) ==
  LET l == FindHandler(tag, sigCaught)
  IN  IF l # NotFound
      THEN [st EXCEPT !.count[l] = @ + 1, !.bytes[l] = @ + len]
      ELSE [st EXCEPT !.unknown = [message |-> tag,
                                   count   |-> @.count + 1,
                                   bytes   |-> @.bytes + len]]

(* The entry a linear scan of the table finds for tag, or NotFound. *)
LinearFind(tag) ==
  IF \E l \in 0..ProtocolSize - 1 : Entry(l) = tag
  THEN CHOOSE l \in 0..ProtocolSize - 1 : Entry(l) = tag
  ELSE NotFound

-----------------------------------------------------------------------------
Init == stats = NoStats /\ dispatched = <<>>

(* handle_connection hands a complete frame to dispatch_command. *)
DispatchCommand(f) ==
  /\ Len(dispatched) < MaxFrames
  /\ stats' = Account(stats, f.tag, f.len, FALSE)
  /\ dispatched' = Append(dispatched, f)

Next == \E f \in Frames : DispatchCommand(f)

Spec == Init /\ [][Next]_<<stats, dispatched>>

-----------------------------------------------------------------------------
(* The statistics the histogram command (handler.c 279-303) reports agree *)
(* with the frames dispatched: each entry counts the frames and payload  *)
(* bytes of its own tag, found by the binary search of find_handler, and *)
(* unknown_numeric those of tags not in the table, with the last of them *)
(* as its message (spec 8, the concrete scenario of tag 2).              *)
StatsAgree ==
  LET Of(l)   == {i \in DOMAIN dispatched : dispatched[i].tag = Entry(l)}
      Unk     == {i \in DOMAIN dispatched : LinearFind(dispatched[i].tag) = NotFound}
      BytesOf(S) == FoldSet(LAMBDA i, n : n + dispatched[i].len, 0, S)
  IN  /\ \A l \in 0..ProtocolSize - 1 :
           /\ stats.count[l] = Cardinality(Of(l))
           /\ stats.bytes[l] = BytesOf(Of(l))
      /\ stats.unknown.count = Cardinality(Unk)
      /\ stats.unknown.bytes = BytesOf(Unk)
      /\ Unk # {} => stats.unknown.message = dispatched[Max(Unk)].tag
==============================================================================
