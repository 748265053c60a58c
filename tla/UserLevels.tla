----------------------------- MODULE UserLevels -----------------------------
(***************************************************************************)
(* User levels on one server: the level of each user online (USER.level), *)
(* the level of each registered nick (USERDB.level, the User_Db table),   *)
(* the cloak flag, and the list Mods of local connections whose user is   *)
(* moderator or above, to which notify_mods sends.  The handlers that     *)
(* change them: login (the level part), remove_user, level, nuke, cloak,  *)
(* register_user and reginfo.  A command comes from a user online, local  *)
(* or on a peer, or with the name of a peer server as sender (no USER).   *)
(* Passwords, e-mail, timestamps and the messages sent are left out: a    *)
(* login whose password does not match, an invalid level or nick, are     *)
(* rejected with no change and are not steps here.                        *)
(***************************************************************************)
EXTENDS Integers, Sequences, SequencesExt, FiniteSets

CONSTANTS
  Nicks,    \* the nicks
  Local,    \* the nicks that log in on this server; the others via a peer
  DbInit,   \* the levels userdb_init loaded from the user file, or None
  Server    \* the name of a peer server, as the sender of a command

None == -1
LEECH == 0
USER == 1
MODERATOR == 2
ADMIN == 3
ELITE == 4
Levels == LEECH..ELITE

VARIABLES
  online,   \* the nicks in Users
  level,    \* level[u]: user->level of u while online
  cloaked,  \* cloaked[u]: user->cloaked
  db,       \* db[u]: the level of u's User_Db entry, or None
  mods      \* Mods, first element first, as nicks

vars == <<online, level, cloaked, db, mods>>

TypeOK ==
  /\ online \subseteq Nicks /\ level \in [Nicks -> Levels]
  /\ cloaked \in [Nicks -> BOOLEAN] /\ db \in [Nicks -> Levels \cup {None}]
  /\ mods \in Seq(Local)

Init ==
  /\ online = {} /\ level = [u \in Nicks |-> USER]
  /\ cloaked = [u \in Nicks |-> FALSE] /\ db = DbInit /\ mods = <<>>

(* The senders of a command: a user online, or a peer server. *)
Senders == online \cup {Server}

(* list_push of a new cell (list.c 124-129) and list_delete of the first *)
(* cell holding the connection (list.c 26-45).                            *)
Push(l, u) == <<u>> \o l
Delete(l, u) == LET i == SelectInSeq(l, LAMBDA x : x = u)
                IN  IF i = 0 THEN l ELSE RemoveAt(l, i)

-----------------------------------------------------------------------------
(* login (login.c 660-667, 725-757) of a nick not online, once its        *)
(* password has been checked: the level defaults to User and becomes     *)
(* that of the nick's registration when that is not User; a local user    *)
(* that is then moderator or above is pushed on Mods.  A new USER is not  *)
(* cloaked.                                                               *)
Login(u) ==
  LET lv == IF db[u] # None /\ db[u] # USER THEN db[u] ELSE USER
  IN  /\ u \notin online
      /\ online' = online \cup {u}
      /\ level' = [level EXCEPT ![u] = lv]
      /\ cloaked' = [cloaked EXCEPT ![u] = FALSE]
      /\ mods' = IF u \in Local /\ lv >= MODERATOR THEN Push(mods, u) ELSE mods
      /\ UNCHANGED db

(* A user leaves: remove_user (remove_connection.c 41-55) takes a local   *)
(* moderator+ off Mods before the user is removed from Users; a remote    *)
(* user's quit (client_quit.c 12-34) only removes it.                     *)
Logout(u) ==
  /\ u \in online
  /\ online' = online \ {u}
  /\ mods' = IF u \in Local /\ level[u] >= MODERATOR THEN Delete(mods, u) ELSE mods
  /\ UNCHANGED <<level, cloaked, db>>

(* The permission check of the level handler (level.c 112-161) for a     *)
(* sender below Elite: no level at or above the sender's own, and no     *)
(* known target at or above the sender's level, unless a moderator+ is   *)
(* lowering itself.  The target's level is read from its registration    *)
(* first.                                                                 *)
LevelDenied(s, t, l) ==
  LET cur == IF db[t] # None THEN db[t] ELSE level[t]
  IN  /\ s # Server /\ level[s] < ELITE
      /\ \/ l >= level[s]
         \/ /\ db[t] # None \/ t \in online
            /\ level[s] <= cur
            /\ s # t \/ cur < MODERATOR

(* Mutant: a user reaching moderator is pushed on Mods whatever its old  *)
(* level.                                                                 *)
ModsAfterNoOld(l, u, old, new) ==
  IF new >= MODERATOR THEN Push(l, u)
  ELSE IF old >= MODERATOR THEN Delete(l, u) ELSE l

(* Mods after a local user's level goes from old to new (level.c        *)
(* 207-219): pushed on rising to moderator, deleted on falling below.    *)
ModsAfter(l, u, old, new) ==
  IF new >= MODERATOR /\ old < MODERATOR THEN Push(l, u)
  ELSE IF new < MODERATOR /\ old >= MODERATOR THEN Delete(l, u) ELSE l

(* The level handler (level.c 56-247), once the permission check passed: *)
(* an online target without a registration gets one with its level       *)
(* (create_db, userdb.c 235-265); a registration already at the level    *)
(* ends the handler; otherwise the registration and, when online, the    *)
(* user take the level, Mods follows a local user's level, and a user    *)
(* below moderator is decloaked.                                          *)
SetLevel(s, t, l) ==
  LET d1 == IF db[t] = None /\ t \in online THEN level[t] ELSE db[t]
  IN  /\ s \in Senders
      /\ ~LevelDenied(s, t, l)
      /\ d1 # None
      /\ db' = [db EXCEPT ![t] = l]
      /\ IF d1 # l /\ t \in online
           THEN /\ level' = [level EXCEPT ![t] = l]
                /\ mods' = IF t \in Local THEN ModsAfter(mods, t, level[t], l) ELSE mods
                /\ cloaked' = [cloaked EXCEPT ![t] = @ /\ l >= MODERATOR]
           ELSE UNCHANGED <<level, mods, cloaked>>
      /\ UNCHANGED online

(* nuke (change.c 328-427): a sender below moderator is refused; one     *)
(* below Elite may not nuke a known nick at or above its level but its   *)
(* own.  The registration is removed; a user online is taken off Mods    *)
(* when local and moderator+, set to User and decloaked.                  *)
Nuke(s, t) ==
  LET lv == IF t \in online THEN level[t] ELSE db[t]
  IN  /\ s \in Senders
      /\ s # Server => level[s] >= MODERATOR
      /\ s # Server /\ level[s] < ELITE /\ (db[t] # None \/ t \in online)
           => level[s] > lv \/ s = t
      /\ db' = [db EXCEPT ![t] = None]
      /\ IF t \in online
           THEN /\ mods' = IF level[t] >= MODERATOR /\ t \in Local THEN Delete(mods, t) ELSE mods
                /\ level' = [level EXCEPT ![t] = USER]
                /\ cloaked' = [cloaked EXCEPT ![t] = FALSE]
           ELSE UNCHANGED <<mods, level, cloaked>>
      /\ UNCHANGED online

(* Mutant: cloaking without the level check. *)
CloakNoLevel(s, bit) ==
  LET b == IF bit = -1 THEN ~cloaked[s] ELSE bit = 1
  IN  /\ s \in online
      /\ b # cloaked[s]
      /\ cloaked' = [cloaked EXCEPT ![s] = b]
      /\ UNCHANGED <<online, level, db, mods>>

(* cloak (change.c 429-492) from a user online, toggling (bit -1) or     *)
(* setting: cloaking needs moderator+; no change ends the handler.        *)
Cloak(s, bit) ==
  LET b == IF bit = -1 THEN ~cloaked[s] ELSE bit = 1
  IN  /\ s \in online
      /\ b => level[s] >= MODERATOR
      /\ b # cloaked[s]
      /\ cloaked' = [cloaked EXCEPT ![s] = b]
      /\ UNCHANGED <<online, level, db, mods>>

(* register_user (login.c 935-1028): a sender below Admin is refused;    *)
(* with a level given (l # None), one below Elite may not register at or *)
(* above its own; without, the level is User.  A nick already registered *)
(* ends the handler; else it is registered.  A user online keeps its     *)
(* level.                                                                 *)
RegisterUser(s, t, l) ==
  /\ s \in Senders
  /\ s # Server => level[s] >= ADMIN
  /\ s # Server /\ level[s] < ELITE /\ l # None => l < level[s]
  /\ db[t] = None
  /\ db' = [db EXCEPT ![t] = IF l = None THEN USER ELSE l]
  /\ UNCHANGED <<online, level, cloaked, mods>>

(* reginfo (login.c 837-933) from a peer: a registration of ours older   *)
(* than the peer's (newer = FALSE) is kept and sent back; otherwise the  *)
(* peer's level is taken.  A user online keeps its level.                *)
Reginfo(t, l, newer) ==
  /\ db[t] = None \/ newer
  /\ db' = [db EXCEPT ![t] = l]
  /\ UNCHANGED <<online, level, cloaked, mods>>

Next ==
  \/ \E u \in Nicks : Login(u) \/ Logout(u)
  \/ \E s \in Nicks \cup {Server}, t \in Nicks, l \in Levels :
       SetLevel(s, t, l) \/ RegisterUser(s, t, l)
  \/ \E s \in Nicks \cup {Server}, t \in Nicks : Nuke(s, t) \/ RegisterUser(s, t, None)
  \/ \E s \in Nicks, bit \in {-1, 0, 1} : Cloak(s, bit)
  \/ \E t \in Nicks, l \in Levels, newer \in BOOLEAN : Reginfo(t, l, newer)

Spec == Init /\ [][Next]_vars

-----------------------------------------------------------------------------
(* Mods holds every local user online at moderator or above exactly once *)
(* and nothing else, through logins, level changes, nukes and logouts:   *)
(* a user missing from it is not told what notify_mods reports, and a    *)
(* user left on it after logout is a dangling connection.                *)
ModsExact ==
  \A u \in Nicks :
    Cardinality({i \in DOMAIN mods : mods[i] = u})
      = IF u \in online \cap Local /\ level[u] >= MODERATOR THEN 1 ELSE 0

(* Only a moderator or above is cloaked (hidden from whois and channel   *)
(* lists): demotion by level or nuke decloaks, and cloak needs the level. *)
CloakedOnlyMods == \A u \in online : cloaked[u] => level[u] >= MODERATOR
==============================================================================
