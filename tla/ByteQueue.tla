------------------------------ MODULE ByteQueue ------------------------------
(* What a connection's byte queue promises (spec 3 and 4.1): bytes come   *)
(* out in the order they went in, size() is the number queued, and an     *)
(* append that cannot allocate drops the whole queue, which the caller    *)
(* answers by closing the connection.                                     *)
EXTENDS Sequences, SequencesExt, Naturals

CONSTANTS Data, MaxBytes

VARIABLE q

Put(s) == /\ Len(q) + Len(s) <= MaxBytes
          /\ q' = q \o s

Take(n) == /\ 1 <= n /\ n <= Len(q)
           /\ q' = SubSeq(q, n + 1, Len(q))

Clear == q' = <<>>

Next == \/ \E s \in BoundedSeq(Data, MaxBytes) \ {<<>>} : Put(s)
        \/ \E n \in 1..MaxBytes : Take(n)
        \/ Clear

Spec == q = <<>> /\ [][Next]_q
==============================================================================
