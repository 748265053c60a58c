---------------------------- MODULE MCUserLevels ----------------------------
(* UserLevels on one server with a registered local moderator a and a     *)
(* registered elite b, extended by a history variable: the level each     *)
(* online nick was last given by a level command that passed the          *)
(* permission check.                                                      *)
EXTENDS UserLevels, TLC

VARIABLE commanded  \* commanded[u]: that level, or None

MCDbInit == [u \in Nicks |-> IF u = "a" THEN MODERATOR ELSE ELITE]

(* A step keeps what a nick was commanded while it stays online at the  *)
(* same level; a level command that passes the check records its level.  *)
Kept == [u \in Nicks |->
           IF u \in online /\ u \in online' /\ level'[u] = level[u]
             THEN commanded[u] ELSE None]

MCInit == Init /\ commanded = [u \in Nicks |-> None]

MCNext ==
  \/ Next /\ commanded' = Kept
  \/ \E s \in Nicks \cup {Server}, t \in Nicks, l \in Levels :
       /\ SetLevel(s, t, l)
       /\ commanded' = IF t \in online THEN [Kept EXCEPT ![t] = l] ELSE Kept

MCSpec == MCInit /\ [][MCNext]_<<vars, commanded>>

(* A level command that passes the permission check leaves its target,   *)
(* when online, at the commanded level: the handler returns with          *)
(* "already set" (level.c 177-180) only when the level is set.  The       *)
(* check compares the registration (db->level), which register_user and   *)
(* reginfo change while the user is online without touching user->level. *)
LevelCommandHonoured ==
  \A u \in online : commanded[u] # None => level[u] = commanded[u]
==============================================================================
