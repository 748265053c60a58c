----------------------------- MODULE HashTable -----------------------------
(***************************************************************************)
(* A hash table of hash.c as the user table Users uses it (init.c 302):  *)
(* hash_string, which folds case, and hash_compare_string_insensitive.   *)
(* An entry is pushed on the front of the chain of its bucket; lookup    *)
(* and remove take the first entry of that chain whose key is equal but  *)
(* for case.  Callers look a key up before they add it (login.c 500-514, *)
(* 531-576), so an add here is of a key not in the table.  hash_foreach  *)
(* calls its callback once per entry, bucket by bucket, and the callback *)
(* may remove the entry it is given, as server_split (remove_connection.c *)
(* 20-38) and expire_whowas_cb (whois.c 278-287) do; the loop is taken   *)
(* step by step, with nothing else running meanwhile.                    *)
(*                                                                         *)
(* A key is a string of character codes.  An entry is a record with an   *)
(* id standing for its address.                                          *)
(***************************************************************************)
EXTENDS Integers, Sequences, SequencesExt, Bitwise

CONSTANTS
  Keys,        \* the keys callers use, as sequences of character codes
  Data,        \* the data stored, positive numbers
  NumBuckets,  \* h->numbuckets
  MaxIds       \* bound: entries allocated in one behaviour

VARIABLES
  bucket,      \* bucket[b]: the chain of bucket b, first entry first
  dbsize,      \* h->dbsize
  nextId,      \* entries allocated so far
  it,          \* the hash_foreach in progress, or Idle
  start,       \* ids in the table when the last hash_foreach began
  visited      \* ids the callback of that hash_foreach was given, in order

vars == <<bucket, dbsize, nextId, it, start, visited>>

Nil == -1   \* NULL, as hash_lookup returns it; data are positive
Idle == [idle |-> TRUE]
Null == 0
Buckets == 0..(NumBuckets - 1)
Entry == [id : 1..MaxIds, key : Keys, data : Data]

(* tolower of a character code. *)
ToLower(c) == IF c \in 65..90 THEN c + 32 ELSE c

(* The key with every letter in lower case: equal keys but for case have *)
(* the same fold.                                                         *)
Fold(k) == [i \in DOMAIN k |-> ToLower(k[i])]

(* Mutant: the hash does not fold case. *)
HashStringNoFold(k) ==
  LET step(h, c) ==
        LET h1 == h * 16 + c
            g  == h1 \div 268435456
        IN  IF g # 0 THEN (h1 ^^ (g * 16)) - g * 268435456 ELSE h1
  IN  FoldLeft(step, 0, k)

(* hash_string (hash.c 63-78): h = (h << 4) + tolower(c); the top nibble *)
(* g, bits 28-31, is folded into bits 4-7 and cleared.  h is below 2^28  *)
(* before each shift, so h1 is below 2^32 + 256: g is h1's bits from 28  *)
(* up, and the result fits the unsigned int it is returned as.  (TLC's   *)
(* integers hold h1 for keys of up to 6 characters.)                      *)
HashString(k) ==
  LET step(h, c) ==
        LET h1 == h * 16 + ToLower(c)
            g  == h1 \div 268435456
        IN  IF g # 0 THEN (h1 ^^ (g * 16)) - g * 268435456 ELSE h1
  IN  FoldLeft(step, 0, k)

(* The bucket of key k: hash_key(key) % numbuckets (hash.c 116, 132). *)
Sum(k) == HashString(k) % NumBuckets

(* The position in chain ch of the first entry whose key equals k but   *)
(* for case, 0 when none (hash_compare_string_insensitive, hash.c 29-33). *)
Find(ch, k) == SelectInSeq(ch, LAMBDA e : Fold(e.key) = Fold(k))

(* hash_lookup (hash.c 123-141): the datum of that entry, or Nil. *)
Lookup(k) ==
  LET i == Find(bucket[Sum(k)], k)
  IN  IF i = 0 THEN Nil ELSE bucket[Sum(k)][i].data

(* The entries in the table, and their ids. *)
InTable == UNION {Range(bucket[b]) : b \in Buckets}
Ids == {e.id : e \in InTable}

TypeOK ==
  /\ bucket \in [Buckets -> Seq(Entry)] /\ dbsize \in Nat
  /\ nextId \in 0..MaxIds /\ start \subseteq 1..MaxIds /\ visited \in Seq(1..MaxIds)

(* hash_init (hash.c 37-54): every bucket empty. *)
Init ==
  /\ bucket = [b \in Buckets |-> <<>>] /\ dbsize = 0 /\ nextId = 0
  /\ it = Idle /\ start = {} /\ visited = <<>>

-----------------------------------------------------------------------------
(* hash_add (hash.c 103-121) of a key the caller found absent: a new     *)
(* entry at the front of its bucket's chain.                              *)
HashAdd(k, d) ==
  /\ it = Idle /\ nextId < MaxIds /\ Lookup(k) = Nil
  /\ nextId' = nextId + 1
  /\ bucket' = [bucket EXCEPT ![Sum(k)] = <<[id |-> nextId + 1, key |-> k, data |-> d]>> \o @]
  /\ dbsize' = dbsize + 1
  /\ UNCHANGED <<it, start, visited>>

(* Mutant: hash_remove does not count the entry out. *)
UnlinkNoCount(k) ==
  LET i == Find(bucket[Sum(k)], k)
  IN  IF i = 0 THEN UNCHANGED <<bucket, dbsize>>
      ELSE bucket' = [bucket EXCEPT ![Sum(k)] = RemoveAt(@, i)] /\ UNCHANGED dbsize

(* hash_remove (hash.c 143-166): the first entry of k's chain whose key  *)
(* equals k is unlinked, its datum destroyed and the size counted down;  *)
(* a key not in the table changes nothing.                                *)
Unlink(k) ==
  LET i == Find(bucket[Sum(k)], k)
  IN  IF i = 0 THEN UNCHANGED <<bucket, dbsize>>
      ELSE bucket' = [bucket EXCEPT ![Sum(k)] = RemoveAt(@, i)] /\ dbsize' = dbsize - 1

HashRemove(k) == it = Idle /\ Unlink(k) /\ UNCHANGED <<nextId, it, start, visited>>

(* The first entry of bucket b, and the entry after entry id in its      *)
(* chain (he->next), Null for none.                                       *)
HeadOf(b) == IF bucket[b] = <<>> THEN Null ELSE bucket[b][1].id
EntryOf(id) == CHOOSE e \in InTable : e.id = id
NextOf(id) ==
  LET ch == bucket[Sum(EntryOf(id).key)]
      i  == SelectInSeq(ch, LAMBDA e : e.id = id)
  IN  IF i = Len(ch) THEN Null ELSE ch[i + 1].id

(* hash_foreach (hash.c 192-211) begins at the first entry of bucket 0. *)
ForeachBegin ==
  /\ it = Idle
  /\ it' = [i |-> 0, he |-> HeadOf(0)]
  /\ start' = Ids /\ visited' = <<>>
  /\ UNCHANGED <<bucket, dbsize, nextId>>

(* Mutant: after a callback that removed its entry the loop starts the   *)
(* bucket again from its head.                                            *)
ForeachStepRescan(rm) ==
  /\ it # Idle
  /\ IF it.he = Null
       THEN /\ it' = IF it.i + 1 < NumBuckets THEN [i |-> it.i + 1, he |-> HeadOf(it.i + 1)]
                     ELSE Idle
            /\ UNCHANGED <<bucket, dbsize, visited>>
       ELSE /\ visited' = Append(visited, it.he)
            /\ IF rm THEN /\ Unlink(EntryOf(it.he).key)
                          /\ it' = [it EXCEPT !.he = LET ch == bucket'[it.i]
                                                     IN IF ch = <<>> THEN Null ELSE ch[1].id]
                     ELSE /\ it' = [it EXCEPT !.he = NextOf(it.he)]
                          /\ UNCHANGED <<bucket, dbsize>>
  /\ UNCHANGED <<nextId, start>>

(* One turn of hash_foreach: at the end of a chain, on to the next       *)
(* bucket or done; else the next entry is saved before the callback is   *)
(* given the current one, which it may remove (rm) with hash_remove of   *)
(* its key.                                                               *)
ForeachStep(rm) ==
  /\ it # Idle
  /\ IF it.he = Null
       THEN /\ it' = IF it.i + 1 < NumBuckets THEN [i |-> it.i + 1, he |-> HeadOf(it.i + 1)]
                     ELSE Idle
            /\ UNCHANGED <<bucket, dbsize, visited>>
       ELSE /\ it' = [it EXCEPT !.he = NextOf(it.he)]
            /\ visited' = Append(visited, it.he)
            /\ IF rm THEN Unlink(EntryOf(it.he).key) ELSE UNCHANGED <<bucket, dbsize>>
  /\ UNCHANGED <<nextId, start>>

Next ==
  \/ \E k \in Keys : HashRemove(k) \/ \E d \in Data : HashAdd(k, d)
  \/ ForeachBegin
  \/ \E rm \in BOOLEAN : ForeachStep(rm)

Spec == Init /\ [][Next]_vars

-----------------------------------------------------------------------------
Entries == UNION {{<<b, i>> : i \in DOMAIN bucket[b]} : b \in Buckets}

(* Every entry is on the chain of its key's bucket, entries have one     *)
(* address each, no two keys are equal but for case, and dbsize, which   *)
(* update_stats and the expiry logs report, counts the entries, after    *)
(* any adds, removes and removals from inside hash_foreach.              *)
TableConsistent ==
  /\ \A e \in Entries : Sum(bucket[e[1]][e[2]].key) = e[1]
  /\ \A e, f \in Entries :
       e # f => /\ bucket[e[1]][e[2]].id # bucket[f[1]][f[2]].id
                /\ Fold(bucket[e[1]][e[2]].key) # Fold(bucket[f[1]][f[2]].key)
  /\ dbsize = Cardinality(Entries)

(* hash_foreach gives its callback every entry that was in the table     *)
(* when it began, exactly once, even when the callback removes the entry *)
(* it is given (the temporary pointer of hash.c 203-207), and never an   *)
(* entry that has been freed.                                             *)
ForeachExact ==
  /\ it # Idle => it.he \in Ids \cup {Null}
  /\ IsInjective(visited)
  /\ it = Idle => Range(visited) = start

(* Looked at through hash_lookup, the table is a map from keys to data   *)
(* in which keys equal but for case are one key: a key added under one   *)
(* spelling is found, and removed, under every other.  It implements     *)
(* Dictionary.                                                            *)
D == INSTANCE Dictionary WITH Canon <- Fold, dict <- [k \in Keys |-> Lookup(k)]

ImplementsDictionary == D!Spec
==============================================================================
