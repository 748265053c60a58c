----------------------------- MODULE Dictionary -----------------------------
(* What a hash table of hash.c gives its callers when, as they all do,   *)
(* they look a key up before they add it: a partial map from keys to     *)
(* data in which keys that Canon makes equal (for Users, keys equal but  *)
(* for case) are one key, whichever way it is spelt.                     *)
CONSTANTS
  Keys,      \* the keys, as callers spell them
  Canon(_),  \* the class of a key
  Data,      \* the data
  Nil        \* no datum

VARIABLE dict   \* dict[k]: the datum stored under k, or Nil

(* The keys of k's class. *)
Class(k) == {x \in Keys : Canon(x) = Canon(k)}

Put(k, d) ==
  /\ dict[k] = Nil
  /\ dict' = [x \in Keys |-> IF x \in Class(k) THEN d ELSE dict[x]]

Delete(k) ==
  /\ dict[k] # Nil
  /\ dict' = [x \in Keys |-> IF x \in Class(k) THEN Nil ELSE dict[x]]

Next == \E k \in Keys : Delete(k) \/ \E d \in Data : Put(k, d)

Spec == dict = [k \in Keys |-> Nil] /\ [][Next]_dict
==============================================================================
