------------------------- MODULE MCAlgorithms -------------------------
(* The pure algorithms of the project, the client tokenizer               *)
(* (ClientTokenizer) and the table lookup of the dispatcher (Dispatcher), *)
(* checked side by side with the client's threads (Client), the hash    *)
(* table of hash.c (HashTable) and the server's parsers and base64       *)
(* coding (ServerParse).  The initial  *)
(* state picks the client or the algorithms; a step of the algorithms     *)
(* either receives a message in the tokenizer or dispatches frames, each  *)
(* input from the initial state, so the state spaces add up rather than   *)
(* multiply.                                                               *)
EXTENDS Naturals, Sequences, SequencesExt, TLC

CONSTANTS Messages, Frames, MaxFrames

VARIABLES
  mode,
  fields, stats, dispatched,
  mainPc, answered, down, nfreq, listed, dataUp, known, accepted, conn, served,
  bucket, dbsize, nextId, it, start, visited,
  input

Tok == INSTANCE ClientTokenizer
Disp == INSTANCE Dispatcher

(* The tokenizer's characters and the dispatch table, from instances that *)
(* do not take the inputs chosen below from them.                         *)
Chars == INSTANCE ClientTokenizer WITH Messages <- {}
Table == INSTANCE Dispatcher WITH Frames <- {}, MaxFrames <- 0

(* Two peers and one connection slot; a shared file, a file outside      *)
(* shared/ and a path without the prefix; GET arguments arrive in up to  *)
(* two pieces; one FREQ from the tracker.                                 *)
Cl == INSTANCE Client WITH Peers <- {"p1", "p2"}, Shared <- {"f1"},
                           Outside <- {"o1"}, NoPrefix <- {"n1"}, Slots <- {1},
                           ArgBytes <- 2, MaxFreq <- 1,
                           NoPeer <- "nopeer", NoPath <- "nopath"

(* Bare fields: one or two letters.  Quoted fields: up to three letters *)
(* or spaces, the empty text included: enough for a space inside a     *)
(* quoted name with text on both sides of it. *)
MCBare == {[quoted |-> FALSE, text |-> t] : t \in BoundedSeq({"a", "b"}, 2) \ {<<>>}}
MCQuoted == {[quoted |-> TRUE, text |-> t] : t \in BoundedSeq({"a", Chars!Space}, 3)}

(* Every message of up to three fields. *)
MCAllMessages == BoundedSeq(MCBare \cup MCQuoted, 3)

(* The shapes the client is sent: a nick first (the FREQ of the server,  *)
(* the GET of a peer), quoted file names that are not empty.             *)
MCClientMessages ==
  {fs \in MCAllMessages :
     /\ fs # <<>> => ~fs[1].quoted
     /\ \A i \in DOMAIN fs : fs[i].quoted => fs[i].text # <<>>}

(* Tags to dispatch: every tag of the table, the tag just above each of   *)
(* them (a gap, or the next entry), the tag below the first one's         *)
(* neighbour, and the largest 16-bit tag.                                 *)
MCTags ==
  LET T == ToSet(Table!Protocol) IN T \cup {t + 1 : t \in T} \cup {1, 65535}

(* Each tag with a 10-byte payload, and tag 2 (login) with an empty one.  *)
MCFrames == [tag : MCTags, len : {10}] \cup [tag : {2}, len : {0}]

(* Four nicks, "u", "U", "x" and "v" (character codes 117, 85, 120,    *)
(* 118): "u" and "U" are equal but for case; with three buckets the      *)
(* folding hash puts "u" or "U" and "x" on one chain of two in bucket 0, *)
(* so a callback of hash_foreach can remove an entry with another after  *)
(* it or before it, and "v" alone in bucket 1.  A hash that did not fold *)
(* case would put "U" in bucket 1.  Three entries fill the table.        *)
Hash == INSTANCE HashTable WITH Keys <- {<<117>>, <<85>>, <<120>>, <<118>>}, Data <- {1},
                                NumBuckets <- 3, MaxIds <- 3

(* Lines of up to three fields, as many as split_line is asked for: bare *)
(* fields of one or two letters, quoted ones of up to two letters or     *)
(* blanks, empty included.  Byte strings of one to four bytes (a full   *)
(* group and one of each length after it) over bytes with every bit     *)
(* pattern a 6-bit split can meet at either end.                          *)
MCFields == {[quoted |-> FALSE, text |-> t] : t \in {<<97>>, <<97, 97>>}}
            \cup {[quoted |-> TRUE, text |-> t] : t \in BoundedSeq({97, 32}, 2)}
Parse == INSTANCE ServerParse WITH FieldLists <- BoundedSeq(MCFields, 3), MaxFields <- 3,
                                   Hashes <- BoundedSeq({0, 85, 128, 170, 255}, 4) \ {<<>>}

algoVars == <<fields, stats, dispatched>>
clientVars == <<mainPc, answered, down, nfreq, listed, dataUp, known, accepted, conn, served>>
hashVars == <<bucket, dbsize, nextId, it, start, visited>>
vars == <<mode, algoVars, clientVars, hashVars, input>>

Init == /\ mode \in {"algorithms", "client", "hash", "parse"}
        /\ Tok!Init /\ Disp!Init /\ Cl!Init /\ Hash!Init /\ Parse!Init

Initial == fields = <<>> /\ dispatched = <<>>

(* The next input is checked from the initial state: a message arrives  *)
(* at a fresh tokenizer, or a new run of the server dispatches frames.  *)
NextInput ==
  /\ ~Initial
  /\ fields' = <<>> /\ stats' = Disp!NoStats /\ dispatched' = <<>>

InAlgorithms(A) == mode = "algorithms" /\ A /\ UNCHANGED <<clientVars, hashVars, input, mode>>
InClient(A) == mode = "client" /\ A /\ UNCHANGED <<algoVars, hashVars, input, mode>>
InHash(A) == mode = "hash" /\ A /\ UNCHANGED <<algoVars, clientVars, input, mode>>
InParse(A) == mode = "parse" /\ A /\ UNCHANGED <<algoVars, clientVars, hashVars, mode>>

Next ==
  \/ InAlgorithms(Initial /\ Tok!Next /\ UNCHANGED <<stats, dispatched>>)
  \/ InAlgorithms(fields = <<>> /\ Disp!Next /\ UNCHANGED fields)
  \/ InAlgorithms(NextInput)
  \/ InClient(Cl!Next)
  \/ InHash(Hash!Next)
  \/ InParse(Parse!Next)

(* The fairness of Client, for the behaviours that exercise it. *)
Fairness ==
  /\ WF_vars(InClient(Cl!MainStep))
  /\ \A s \in {1} : WF_vars(InClient(Cl!ThreadStep(s)))
  /\ WF_vars(InClient(\E t \in Cl!MsgTypes, w \in BOOLEAN : Cl!Answer(t, w)))
  /\ WF_vars(InClient(Cl!Arrive))
  /\ \A s \in {1} : WF_vars(InClient(\E k \in 1..Cl!ReqBytes : Cl!PeerSend(s, k)))

Spec == Init /\ [][Next]_vars /\ Fairness

-----------------------------------------------------------------------------
(* count_msg_fields and tokenize_msg agree on every prefix of a message  *)
(* and count its fields on the whole of it (ClientTokenizer).             *)
CountAgrees == Tok!CountAgrees

(* Once count_msg_fields reaches the field count on the bytes read so    *)
(* far, every field but the last is complete (ClientTokenizer, the peer   *)
(* loop of client/main.c 355-371).                                        *)
PrefixKeepsFields == Tok!PrefixKeepsFields

(* get_msg_field_str returns field i of a tokenized message              *)
(* (ClientTokenizer).                                                     *)
FieldsMatch == Tok!FieldsMatch

(* The per-entry statistics of dispatch_command agree with the frames     *)
(* dispatched, as a linear scan of Protocol[] finds them (Dispatcher).     *)
StatsAgree == Disp!StatsAgree

(* The client's threads have their types (Client). *)
ClientTypeOK == Cl!TypeOK

(* Files go only to peers named in an accepted request (Client). *)
OnlyAcceptedPeersServed == Cl!OnlyAcceptedPeersServed

(* An accepted peer that sends its GET is served (Client). *)
ServedWhenAsked == Cl!ServedWhenAsked

(* The table's chains, ids and dbsize agree after any sequence of adds,  *)
(* removes and removals from inside hash_foreach (HashTable).            *)
TableConsistent == Hash!TableConsistent

(* hash_foreach gives its callback each entry once, and never a freed    *)
(* one, when the callback removes what it is given (HashTable).          *)
ForeachExact == Hash!ForeachExact

(* The Users table is a case-blind dictionary (HashTable). *)
ImplementsDictionary == Hash!ImplementsDictionary

(* split_line and next_arg give back the fields of a line as peers build *)
(* it (ServerParse).                                                      *)
LinesRoundTrip == Parse!LinesRoundTrip

(* check_pass decodes what generate_pass encoded (ServerParse). *)
PassRoundTrip == Parse!PassRoundTrip
==========================================================================
