---------------------------- MODULE ServerParse ----------------------------
(***************************************************************************)
(* The server's parsers of util.c as operators: split_line, which every  *)
(* handler with a fixed argument list uses, and next_arg, which the      *)
(* others and pop_user_server use; and the base64 coding of stored       *)
(* passwords, b64_encode in generate_pass and b64_decode in check_pass.  *)
(* Strings are sequences of character codes; the NUL terminator and the  *)
(* NUL bytes the parsers write are the ends of the sequences.            *)
(*                                                                         *)
(* The state is the input in hand, one of the bounded inputs the model   *)
(* chooses, so that TLC checks each against a reference: the line a      *)
(* peer builds from fields (send_cmd formats with plain and quoted      *)
(* fields joined by spaces) and the hash generate_pass encodes.          *)
(***************************************************************************)
EXTENDS Integers, Sequences, SequencesExt, Bitwise

CONSTANTS
  FieldLists,   \* field lists, each field [quoted |-> BOOLEAN, text |-> codes]
  Hashes,       \* byte strings to encode
  MaxFields     \* templatecount: the size of the caller's av[]

Quote == 34
SP == 32
Space == {9, 10, 11, 12, 13, 32}   \* isspace
Delim == {32, 9, 13, 10}           \* the strpbrk set " \t\r\n"
Pad == 61                          \* '='

VARIABLE input   \* [kind |-> "none"], a line's fields, or a hash

TypeOK == input \in {[kind |-> "none"]} \cup [kind : {"line"}, fields : FieldLists]
                                        \cup [kind : {"hash"}, bytes : Hashes]

Init == input = [kind |-> "none"]

(* An input to parse or encode, each checked on its own. *)
Take(x) == input = [kind |-> "none"] /\ input' = x

Next == \E x \in [kind : {"line"}, fields : FieldLists] \cup [kind : {"hash"}, bytes : Hashes] :
          Take(x)

Spec == Init /\ [][Next]_input

-----------------------------------------------------------------------------
RECURSIVE SkipSpace(_)
(* The loop that skips isspace characters at pkt. *)
SkipSpace(s) == IF s # <<>> /\ Head(s) \in Space THEN SkipSpace(Tail(s)) ELSE s

(* strchr and strpbrk (util.c 60, 74): the index of the first         *)
(* character of s in C, 0 for none; and what follows index k.           *)
FirstIn(s, C) ==
  LET hits == {i \in DOMAIN s : s[i] \in C}
  IN  IF hits = {} THEN 0 ELSE CHOOSE i \in hits : \A j \in hits : i <= j
After(s, k) == SubSeq(s, k + 1, Len(s))

Bogus == [ok |-> FALSE, fields |-> <<>>]
Done(acc) == [ok |-> TRUE, fields |-> acc]

(* Mutant: the closing quote is overwritten but not stepped over. *)
RECURSIVE SplitNoAdvance(_, _, _)
SplitNoAdvance(s, acc, max) ==
  IF s = <<>> \/ Len(acc) >= max THEN Done(acc)
  ELSE IF Head(s) = Quote
  THEN LET r == Tail(s)
           k == FirstIn(r, {Quote})
       IN  IF k = 0 THEN Bogus ELSE Done(Append(acc, SubSeq(r, 1, k - 1)))
  ELSE LET k == FirstIn(s, Delim)
       IN  IF k = 0 THEN Done(Append(acc, s))
           ELSE SplitNoAdvance(SkipSpace(After(s, k)), Append(acc, SubSeq(s, 1, k - 1)), max)

RECURSIVE Split(_, _, _)
(* The loop of split_line (util.c 53-84) from a field's first character, *)
(* with the fields acc found so far: a quoted field runs to the next     *)
(* quote, which must exist, and one character after it is skipped; a     *)
(* bare one runs to the next delimiter; blanks are skipped after each.   *)
Split(s, acc, max) ==
  IF s = <<>> \/ Len(acc) >= max THEN Done(acc)
  ELSE IF Head(s) = Quote
  THEN LET r == Tail(s)
           k == FirstIn(r, {Quote})
       IN  IF k = 0 THEN Bogus
           ELSE IF k = Len(r) THEN Done(Append(acc, SubSeq(r, 1, k - 1)))
           ELSE Split(SkipSpace(After(r, k + 1)), Append(acc, SubSeq(r, 1, k - 1)), max)
  ELSE LET k == FirstIn(s, Delim)
       IN  IF k = 0 THEN Done(Append(acc, s))
           ELSE Split(SkipSpace(After(s, k)), Append(acc, SubSeq(s, 1, k - 1)), max)

(* split_line (util.c 45-86) of a line into at most max fields: the     *)
(* fields, or not ok for the -1 of an unterminated quote.               *)
SplitLine(pkt, max) == Split(SkipSpace(pkt), <<>>, max)

(* One call of next_arg (util.c 281-308) on a rest with a non-blank      *)
(* character: the argument; whether *s is left non-NULL (more); the new  *)
(* rest.  A quoted argument runs to the next quote or to the end.        *)
NextArg(r) ==
  LET Rest(t) == [more |-> SkipSpace(t) # <<>>, rest |-> SkipSpace(t)]
      Arg(a, k) == [arg |-> SubSeq(a, 1, k - 1)] @@ Rest(After(a, k))
  IN  IF Head(r) = Quote
      THEN LET k == FirstIn(Tail(r), {Quote})
           IN  IF k = 0 THEN [arg |-> Tail(r), more |-> FALSE, rest |-> <<>>]
               ELSE Arg(Tail(r), k)
      ELSE LET k == FirstIn(r, Delim)
           IN  IF k = 0 THEN [arg |-> r, more |-> FALSE, rest |-> <<>>]
               ELSE Arg(r, k)

RECURSIVE NextArgs(_)
(* The arguments next_arg returns, called until it returns NULL. *)
NextArgs(s) ==
  LET r == SkipSpace(s)
      a == NextArg(r)
  IN  IF r = <<>> THEN <<>>
      ELSE <<a.arg>> \o (IF a.more THEN NextArgs(a.rest) ELSE <<>>)

-----------------------------------------------------------------------------
(* alphabet[] (util.c 344-345): the character of a 6-bit value. *)
Alphabet(i) ==
  CASE i < 26 -> 65 + i
    [] i < 52 -> 97 + i - 26
    [] i < 62 -> 48 + i - 52
    [] i = 62 -> 43
    [] OTHER  -> 47

(* b64_lookup[] (util.c 396-407): the value of a character, -1 stored   *)
(* in an unsigned char (255) for a character not in the alphabet.       *)
Lookup(c) == IF \E i \in 0..63 : Alphabet(i) = c
             THEN CHOOSE i \in 0..63 : Alphabet(i) = c ELSE 255

RECURSIVE B64Encode(_)
(* b64_encode (util.c 349-394): each group of up to three bytes gives   *)
(* four characters, '=' for the missing ones; 0xff marks a missing 6-bit *)
(* value.  The masks make the sign of a char byte irrelevant.           *)
B64Encode(in) ==
  IF in = <<>> THEN <<>>
  ELSE LET n == Len(in)
           a == in[1] \div 4
           b == (in[1] % 4) * 16 + (IF n >= 2 THEN in[2] \div 16 ELSE 0)
           c == IF n >= 2 THEN (in[2] % 16) * 4 + (IF n >= 3 THEN in[3] \div 64 ELSE 0)
                ELSE 255
           d == IF n >= 3 THEN in[3] % 64 ELSE 255
           tail == IF c # 255 THEN <<Alphabet(c), IF d # 255 THEN Alphabet(d) ELSE Pad>>
                   ELSE <<Pad, Pad>>
       IN  <<Alphabet(a), Alphabet(b)>> \o tail \o B64Encode(SubSeq(in, 4, n))

(* Mutant: the second byte's low bits are shifted by two, not four. *)
RECURSIVE B64DecodeShift(_)
B64DecodeShift(in) ==
  IF in = <<>> THEN <<>>
  ELSE LET a  == Lookup(in[1])
           b  == IF Len(in) >= 2 THEN Lookup(in[2]) ELSE 255
           o1 == ((a * 4) | (b \div 16)) % 256
           b2 == (b * 4) % 256
           r  == SubSeq(in, 3, Len(in))
       IN  IF r = <<>> \/ r[1] = Pad THEN <<o1>>
           ELSE LET c == Lookup(r[1])
                    o2 == b2 | (c \div 4)
                    b3 == (c * 64) % 256
                    r2 == Tail(r)
                IN  IF r2 = <<>> \/ r2[1] = Pad THEN <<o1, o2>>
                    ELSE <<o1, o2, b3 | Lookup(r2[1])>> \o B64DecodeShift(Tail(r2))

RECURSIVE B64Decode(_)
(* b64_decode (util.c 410-442): two characters give a byte; a third and *)
(* a fourth, unless at the end or '=', give one more each, else the      *)
(* decoding stops.  The bytes are unsigned chars: shifts are taken mod   *)
(* 256.                                                                   *)
B64Decode(in) ==
  IF in = <<>> THEN <<>>
  ELSE LET a  == Lookup(in[1])
           b  == IF Len(in) >= 2 THEN Lookup(in[2]) ELSE 255
           o1 == ((a * 4) | (b \div 16)) % 256
           b2 == (b * 16) % 256
           r  == SubSeq(in, 3, Len(in))
       IN  IF r = <<>> \/ r[1] = Pad THEN <<o1>>
           ELSE LET c == Lookup(r[1])
                    o2 == b2 | (c \div 4)
                    b3 == (c * 64) % 256
                    r2 == Tail(r)
                IN  IF r2 = <<>> \/ r2[1] = Pad THEN <<o1, o2>>
                    ELSE <<o1, o2, b3 | Lookup(r2[1])>> \o B64Decode(Tail(r2))

-----------------------------------------------------------------------------
(* The line a peer sends for a field list: a bare field as it is, a      *)
(* quoted one between quotes, separated by single spaces.                *)
RECURSIVE Render(_)
Render(fs) ==
  LET enc(f) == IF f.quoted THEN <<Quote>> \o f.text \o <<Quote>> ELSE f.text
  IN  IF Len(fs) <= 1 THEN IF fs = <<>> THEN <<>> ELSE enc(fs[1])
      ELSE enc(fs[1]) \o <<SP>> \o Render(Tail(fs))

Texts(fs) == [i \in DOMAIN fs |-> fs[i].text]

(* split_line and next_arg both give back the fields of a line built the *)
(* way peers and clients build them, quoted fields with blanks inside    *)
(* and empty ones included: a handler reading its arguments either way   *)
(* sees what was sent.                                                    *)
LinesRoundTrip ==
  input.kind = "line" =>
    LET l == Render(input.fields)
    IN  /\ SplitLine(l, MaxFields) = Done(Texts(input.fields))
        /\ NextArgs(l) = Texts(input.fields)

(* check_pass accepts what generate_pass stored: b64_decode gives back   *)
(* the bytes b64_encode was given, with the padding, and for hashes of   *)
(* 3k+1 bytes (the 16 of an MD5 digest) also with the trailing padding  *)
(* that generate_pass strips (util.c 493-494).                            *)
PassRoundTrip ==
  input.kind = "hash" =>
    LET e == B64Encode(input.bytes)
    IN  /\ B64Decode(e) = input.bytes
        /\ Len(input.bytes) % 3 = 1 => B64Decode(SubSeq(e, 1, Len(e) - 2)) = input.bytes
==============================================================================
