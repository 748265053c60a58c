--------------------------- MODULE ClientTokenizer ---------------------------
(***************************************************************************)
(* The message tokenizer of the nooopster client (client/main.c 209-305): *)
(* count_msg_fields, tokenize_msg and get_msg_field_str, as operators on *)
(* a NUL-terminated buffer.  A buffer is a sequence of characters: Nul,   *)
(* Quote, Space and two ordinary letters.  The operators are checked      *)
(* against a reference: messages are built from a list of fields, bare or *)
(* quoted, joined by single spaces, as the comment on tokenize_msg        *)
(* describes them.                                                        *)
(***************************************************************************)
EXTENDS Naturals, Sequences, SequencesExt

CONSTANT Messages   \* the messages that may arrive, each a list of [quoted, text]

Nul == "0"
Quote == "q"
Space == "s"

VARIABLE fields   \* the fields of the message last received

(* The bytes of a message: bare fields as they are, quoted fields between *)
(* quotes, separated by one space.                                        *)
Encode(f) == IF f.quoted THEN <<Quote>> \o f.text \o <<Quote>> ELSE f.text
Msg(fs) ==
  IF fs = <<>> THEN <<>>
  ELSE FoldLeft(LAMBDA acc, f : acc \o <<Space>> \o Encode(f), Encode(Head(fs)), Tail(fs))

(* The buffer as the C code sees it: the bytes, then the terminating NUL. *)
Buf(s) == s \o <<Nul>>

(* strchr(p, ch) for ch # NUL: the first index from p holding ch before   *)
(* the terminating NUL, or 0 for NULL.                                    *)
RECURSIVE StrChr(_, _, _)
StrChr(b, p, ch) ==
  IF b[p] = ch THEN p ELSE IF b[p] = Nul THEN 0 ELSE StrChr(b, p + 1, ch)

(* Mutant: an unterminated quoted field is scanned on as a bare one. *)
RECURSIVE CountFieldsOpenQuote(_, _, _)
CountFieldsOpenQuote(b, p, n) ==
  IF b[p] = Nul THEN n
  ELSE LET q  == IF b[p] = Quote /\ StrChr(b, p + 1, Quote) # 0
                 THEN StrChr(b, p + 1, Quote) ELSE p
           sp == StrChr(b, q, Space)
       IN  IF sp = 0 THEN n + 1 ELSE CountFieldsOpenQuote(b, sp + 1, n + 1)

(* Mutant: the closing quote is searched for from the opening one. *)
RECURSIVE CountFieldsSelfQuote(_, _, _)
CountFieldsSelfQuote(b, p, n) ==
  IF b[p] = Nul THEN n
  ELSE LET q  == IF b[p] = Quote THEN StrChr(b, p, Quote) ELSE p
           sp == IF q = 0 THEN 0 ELSE StrChr(b, q, Space)
       IN  IF q = 0 \/ sp = 0 THEN n + 1 ELSE CountFieldsSelfQuote(b, sp + 1, n + 1)

(* count_msg_fields (main.c 209-238) from index p with n fields so far:  *)
(* a field starts at p; a quoted one runs to the next quote (none: stop), *)
(* then the field ends at the next space (none: stop).                    *)
RECURSIVE CountFields(_, _, _)
CountFields(b, p, n) ==
  IF b[p] = Nul THEN n
  ELSE LET q  == IF b[p] = Quote THEN StrChr(b, p + 1, Quote) ELSE p
           sp == IF q = 0 THEN 0 ELSE StrChr(b, q, Space)
       IN  IF q = 0 \/ sp = 0 THEN n + 1 ELSE CountFields(b, sp + 1, n + 1)

CountMsgFields(s) == CountFields(Buf(s), 1, 0)

(* tokenize_msg (main.c 240-280): the same walk, writing NUL over the     *)
(* opening and closing quote and over each separating space.  The result *)
(* is the rewritten buffer and the number of fields.                      *)
RECURSIVE Tokenize(_, _, _)
Tokenize(b, p, n) ==
  IF b[p] = Nul THEN <<b, n>>
  ELSE LET b1 == IF b[p] = Quote THEN [b EXCEPT ![p] = Nul] ELSE b
           q  == IF b[p] = Quote THEN StrChr(b1, p + 1, Quote) ELSE p
           b2 == IF b[p] = Quote /\ q # 0 THEN [b1 EXCEPT ![q] = Nul] ELSE b1
           sp == IF q = 0 THEN 0 ELSE StrChr(b2, IF b[p] = Quote THEN q + 1 ELSE q, Space)
       IN  IF q = 0 \/ sp = 0 THEN <<b2, n + 1>>
           ELSE Tokenize([b2 EXCEPT ![sp] = Nul], sp + 1, n + 1)

TokenizeMsg(s) == Tokenize(Buf(s), 1, 0)

(* Past the end of the buffer: memory get_msg_field_str reads but the     *)
(* message did not write.                                                 *)
Beyond == "beyond"

(* The index of the first NUL from p. *)
RECURSIVE StrEnd(_, _)
StrEnd(b, p) == IF b[p] = Nul THEN p ELSE StrEnd(b, p + 1)

(* Mutant: only one NUL is skipped between tokens. *)
RECURSIVE FieldStartOneNul(_, _)
FieldStartOneNul(b, k) ==
  IF k = 0 THEN 1
  ELSE LET e == StrEnd(b, FieldStartOneNul(b, k - 1))
       IN  IF e + 1 > Len(b) THEN Len(b) + 1 ELSE e + 1

(* get_msg_field_str (main.c 282-300): skip k tokens, each by running to *)
(* its NUL and then past the run of NULs that follows.  The index where   *)
(* field k starts, or Len(b) + 1 once the walk leaves the buffer.         *)
RECURSIVE FieldStart(_, _)
FieldStart(b, k) ==
  IF k = 0 THEN 1
  ELSE LET RECURSIVE SkipNul(_)
           SkipNul(i) == IF i > Len(b) THEN i ELSE IF b[i] = Nul THEN SkipNul(i + 1) ELSE i
           s == FieldStart(b, k - 1)
       IN  IF s > Len(b) THEN s ELSE SkipNul(StrEnd(b, s))

(* The string get_msg_field_str returns for field k of a tokenized buffer. *)
GetField(b, k) ==
  LET s == FieldStart(b, k)
  IN  IF s > Len(b) THEN Beyond ELSE SubSeq(b, s, StrEnd(b, s) - 1)

-----------------------------------------------------------------------------
Init == fields = <<>>

(* A message with any fields arrives (nap_recv_msg or the peer's recv). *)
Receive(fs) == fields' = fs

Next == \E fs \in Messages : Receive(fs)

Spec == Init /\ [][Next]_fields

-----------------------------------------------------------------------------
(* count_msg_fields and tokenize_msg count the same fields on every       *)
(* prefix of a message, and both count the message's fields on the whole *)
(* of it: the peer loop (main.c 355-371) stops reading on                *)
(* count_msg_fields and then requires tokenize_msg to find exactly 3.    *)
CountAgrees ==
  LET s == Msg(fields)
  IN  /\ CountMsgFields(s) = Len(fields)
      /\ \A k \in 0..Len(s) :
           CountMsgFields(SubSeq(s, 1, k)) = TokenizeMsg(SubSeq(s, 1, k))[2]

(* Once count_msg_fields on the bytes read so far reaches the message's   *)
(* field count, every field but the last is complete: the peer loop's     *)
(* comment says only the final parameter can be cut short.               *)
PrefixKeepsFields ==
  LET s == Msg(fields)
  IN  \A k \in 0..Len(s) :
        CountMsgFields(SubSeq(s, 1, k)) >= Len(fields) =>
          \A i \in 1..(Len(fields) - 1) :
            GetField(TokenizeMsg(SubSeq(s, 1, k))[1], i - 1) = fields[i].text

(* After tokenize_msg, get_msg_field_str(s, i) returns the text of field *)
(* i, quotes removed, for every field of the message.                    *)
FieldsMatch ==
  LET t == TokenizeMsg(Msg(fields))[1]
  IN  \A i \in 1..Len(fields) : GetField(t, i - 1) = fields[i].text
==============================================================================
