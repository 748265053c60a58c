------------------------------ MODULE PrivMsg ------------------------------
(***************************************************************************)
(* Private messages and ignore lists across linked servers (privmsg.c):  *)
(* a user's privmsg is looked up case-blind in the user table, refused    *)
(* with a notice when the recipient's server finds it not taking messages *)
(* or ignoring the sender, delivered otherwise, and sent once on user->con *)
(* when the recipient is remote.  Notices to a remote sender are          *)
(* encapsulated by send_user and routed by the encapsulated handler       *)
(* (handler.c).  The ignore, unignore and clear_ignore handlers keep the  *)
(* ignore list of a local user.                                           *)
(*                                                                         *)
(* Nicks are spellings; Fold maps each to its case-blind class, the class *)
(* of an online user being the user.  Users stay online on their home     *)
(* servers; links are FIFO and the servers form a tree.  The text of a   *)
(* message, its truncation to 180 bytes and the operserv, chanserv and    *)
(* nickserv diversions are left out; a message is known by an id.         *)
(***************************************************************************)
EXTENDS Integers, Sequences, SequencesExt

CONSTANTS
  Servers,    \* server names
  Topology,   \* the links, as two-element sets; a tree
  Users,      \* online users, each its own nick class
  Home,       \* Home[u]: the server user u is connected to
  Spellings,  \* nicks as typed
  Fold,       \* Fold[n]: the class strcasecmp puts spelling n in
  Accepting,  \* users whose usermode has MSGLOG_MODE
  Max_Ignore, \* Max_Ignore
  MaxMsgs     \* bound: privmsgs sent in one behaviour

Neighbors(s) == {p \in Servers : {s, p} \in Topology}
Pairs == {<<s, p>> \in Servers \X Servers : {s, p} \in Topology}
Ids == 1..MaxMsgs

RECURSIVE Reach(_, _)
Reach(n, from) == {n} \cup UNION {Reach(m, n) : m \in Neighbors(n) \ {from}}

(* user->con of a user homed at t, seen from server s # t. *)
NextHop(s, t) == CHOOSE n \in Neighbors(s) : t \in Reach(n, s)

VARIABLES
  chan,      \* chan[<<s, p>>]: messages in flight from s to p
  ignore,    \* ignore[u]: con->uopt->ignore, newest first
  acked,     \* acked[u]: the classes u was told it ignores (history)
  nmsgs,     \* privmsgs sent so far
  verdicts,  \* what was decided for each message: [id, res, acked]
  told       \* told[id]: notices about message id that reached its sender

vars == <<chan, ignore, acked, nmsgs, verdicts, told>>

Msg == [k : {"privmsg"}, from : Users, to : Users, id : Ids]
       \cup [k : {"encap"}, to : Users, id : Ids]
Res == {"delivered", "unavailable", "ignoring", "nosuch"}

TypeOK ==
  /\ chan \in [Pairs -> Seq(Msg)]
  /\ ignore \in [Users -> Seq(Spellings)]
  /\ acked \in [Users -> SUBSET Range(Fold)]
  /\ nmsgs \in 0..MaxMsgs
  /\ verdicts \subseteq [id : Ids, res : Res, acked : BOOLEAN]
  /\ told \in [Ids -> Nat]

Init ==
  /\ chan = [e \in Pairs |-> <<>>] /\ ignore = [u \in Users |-> <<>>]
  /\ acked = [u \in Users |-> {}] /\ nmsgs = 0 /\ verdicts = {}
  /\ told = [i \in Ids |-> 0]

(* is_ignoring (serverlib.c 314-320): a case-blind match in the list. *)
IsIgnoring(list, n) == \E i \in DOMAIN list : Fold[list[i]] = Fold[n]

(* A decision on message id from u to r, with whether r was told it    *)
(* ignores u.                                                             *)
Decide(id, u, r, res) == verdicts' = verdicts \cup {[id |-> id, res |-> res, acked |-> u \in acked[r]]}

-----------------------------------------------------------------------------
(* The recipient's server s decides message id from sender u to r (the   *)
(* local-recipient branch of privmsg, privmsg.c 392-414): a notice if r *)
(* does not take messages or ignores u, which send_user (serverlib.c     *)
(* 58-90) delivers if u is local and sends on u's link otherwise.        *)
Notify(s, c, u, id) ==
  IF Home[u] = s
  THEN told' = [told EXCEPT ![id] = @ + 1] /\ chan' = c
  ELSE chan' = [c EXCEPT ![<<s, NextHop(s, Home[u])>>] = Append(@, [k |-> "encap", to |-> u, id |-> id])]
       /\ UNCHANGED told

DecideLocal(s, c, u, r, id) ==
  CASE r \notin Accepting       -> Decide(id, u, r, "unavailable") /\ Notify(s, c, u, id)
    [] IsIgnoring(ignore[r], u) -> Decide(id, u, r, "ignoring") /\ Notify(s, c, u, id)
    [] OTHER                    -> Decide(id, u, r, "delivered") /\ chan' = c /\ UNCHANGED told

(* privmsg (privmsg.c 334-424) from local user u to the nick spelt t.     *)
Privmsg(u, t) ==
  LET s  == Home[u]
      r  == Fold[t]
      id == nmsgs + 1
  IN  /\ nmsgs < MaxMsgs /\ nmsgs' = id
      /\ IF r \notin Users
           THEN Decide(id, u, u, "nosuch") /\ told' = [told EXCEPT ![id] = @ + 1] /\ UNCHANGED chan
         ELSE IF Home[r] = s
           THEN DecideLocal(s, chan, u, r, id)
         ELSE /\ chan' = [chan EXCEPT ![<<s, NextHop(s, Home[r])>>] =
                            Append(@, [k |-> "privmsg", from |-> u, to |-> r, id |-> id])]
              /\ UNCHANGED <<verdicts, told>>
      /\ UNCHANGED <<ignore, acked>>

(* privmsg at server s for a message from peer p: pop_user drops one    *)
(* whose sender is local; a local recipient decides, a remote one gets   *)
(* it on user->con.                                                       *)
RecvPrivmsg(s, p) ==
  LET m == Head(chan[<<p, s>>])
      c == [chan EXCEPT ![<<p, s>>] = Tail(@)]
  IN  /\ chan[<<p, s>>] # <<>> /\ m.k = "privmsg"
      /\ \/ Home[m.from] = s /\ chan' = c /\ UNCHANGED <<verdicts, told>>
         \/ /\ Home[m.from] # s /\ Home[m.to] = s
            /\ DecideLocal(s, c, m.from, m.to, m.id)
         \/ /\ Home[m.from] # s /\ Home[m.to] # s
            /\ chan' = [c EXCEPT ![<<s, NextHop(s, Home[m.to])>>] = Append(@, m)]
            /\ UNCHANGED <<verdicts, told>>
      /\ UNCHANGED <<ignore, acked, nmsgs>>

(* encapsulated (handler.c 37-85) at s from p: a local target gets the  *)
(* notice; for a remote one it is passed to every peer but p.           *)
RecvEncap(s, p) ==
  LET m == Head(chan[<<p, s>>])
      c == [chan EXCEPT ![<<p, s>>] = Tail(@)]
  IN  /\ chan[<<p, s>>] # <<>> /\ m.k = "encap"
      /\ IF Home[m.to] = s
           THEN told' = [told EXCEPT ![m.id] = @ + 1] /\ chan' = c
           ELSE chan' = [e \in Pairs |-> IF e[1] = s /\ e[2] # p THEN Append(c[e], m) ELSE c[e]]
                /\ UNCHANGED told
      /\ UNCHANGED <<ignore, acked, nmsgs, verdicts>>

(* Mutant: the duplicate check compares case-sensitively. *)
IgnoreCaseSensitive(u, t) ==
  /\ \/ /\ \E i \in DOMAIN ignore[u] : ignore[u][i] = t
        /\ acked' = [acked EXCEPT ![u] = @ \cup {Fold[t]}] /\ UNCHANGED ignore
     \/ /\ ~\E i \in DOMAIN ignore[u] : ignore[u][i] = t
        /\ Max_Ignore > 0 /\ Len(ignore[u]) > Max_Ignore
        /\ UNCHANGED <<ignore, acked>>
     \/ /\ ~\E i \in DOMAIN ignore[u] : ignore[u][i] = t
        /\ ~(Max_Ignore > 0 /\ Len(ignore[u]) > Max_Ignore)
        /\ ignore' = [ignore EXCEPT ![u] = <<t>> \o @]
        /\ acked' = [acked EXCEPT ![u] = @ \cup {Fold[t]}]
  /\ UNCHANGED <<chan, nmsgs, verdicts, told>>

(* ignore (privmsg.c 443-474) of the nick spelt t by local user u: "already *)
(* ignored" for a case-blind match; refused once the list holds more than *)
(* Max_Ignore; else pushed at the front and acknowledged.                 *)
Ignore(u, t) ==
  /\ \/ /\ IsIgnoring(ignore[u], t)
        /\ acked' = [acked EXCEPT ![u] = @ \cup {Fold[t]}] /\ UNCHANGED ignore
     \/ /\ ~IsIgnoring(ignore[u], t)
        /\ Max_Ignore > 0 /\ Len(ignore[u]) > Max_Ignore
        /\ UNCHANGED <<ignore, acked>>
     \/ /\ ~IsIgnoring(ignore[u], t)
        /\ ~(Max_Ignore > 0 /\ Len(ignore[u]) > Max_Ignore)
        /\ ignore' = [ignore EXCEPT ![u] = <<t>> \o @]
        /\ acked' = [acked EXCEPT ![u] = @ \cup {Fold[t]}]
  /\ UNCHANGED <<chan, nmsgs, verdicts, told>>

(* unignore (privmsg.c 477-503): the first case-blind match is removed   *)
(* and acknowledged; with none, "not ignored".                            *)
Unignore(u, t) ==
  /\ \/ /\ IsIgnoring(ignore[u], t)
        /\ LET i == SelectInSeq(ignore[u], LAMBDA n : Fold[n] = Fold[t])
           IN  ignore' = [ignore EXCEPT ![u] = RemoveAt(@, i)]
        /\ acked' = [acked EXCEPT ![u] = @ \ {Fold[t]}]
     \/ ~IsIgnoring(ignore[u], t) /\ acked' = [acked EXCEPT ![u] = @ \ {Fold[t]}] /\ UNCHANGED ignore
  /\ UNCHANGED <<chan, nmsgs, verdicts, told>>

(* clear_ignore (privmsg.c 506-519): the list freed, its count sent. *)
ClearIgnore(u) ==
  /\ ignore' = [ignore EXCEPT ![u] = <<>>] /\ acked' = [acked EXCEPT ![u] = {}]
  /\ UNCHANGED <<chan, nmsgs, verdicts, told>>

Next ==
  \/ \E u \in Users, t \in Spellings : Privmsg(u, t) \/ Ignore(u, t) \/ Unignore(u, t)
  \/ \E u \in Users : ClearIgnore(u)
  \/ \E e \in Pairs : RecvPrivmsg(e[2], e[1]) \/ RecvEncap(e[2], e[1])

Spec == Init /\ [][Next]_vars

-----------------------------------------------------------------------------
(* A recipient's server refuses a message as "ignoring you" exactly when *)
(* the recipient was last told, by the replies of ignore, unignore and    *)
(* clear_ignore, that it ignores the sender, whatever case either nick    *)
(* was typed in and however those commands interleave with messages      *)
(* crossing the links.                                                    *)
IgnoreHonoured ==
  \A v \in verdicts : v.res \in {"delivered", "ignoring"} => ((v.res = "ignoring") = v.acked)
==============================================================================
