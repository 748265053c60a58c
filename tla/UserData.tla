------------------------------ MODULE UserData ------------------------------
(***************************************************************************)
(* A user's data port, line speed and password across linked servers      *)
(* (change.c): the user's own changes (change_data_port, change_speed,    *)
(* change_pass) and a moderator's or admin's (alter_port, alter_speed,    *)
(* alter_pass).  Each server keeps its own copy of every user's port and  *)
(* speed (USER) and of the password of the records in its part of the     *)
(* user database (USERDB); a handler sets its server's copy and passes     *)
(* the command to every peer but the one it came from (pass_message).     *)
(* change_email is compiled out (EMAIL is not defined) and changes        *)
(* nothing.                                                               *)
(*                                                                         *)
(* Users stay online on their home servers; links are FIFO and the        *)
(* servers form a tree.  Replies to the client (errors, 613 to the user   *)
(* whose port an admin altered) and notify_mods are left out.  A password *)
(* is named by the text it was set from: generate_pass is a digest,      *)
(* injective on the few texts here.  The origins and last value of the   *)
(* updates of each field are history kept for the properties.            *)
(***************************************************************************)
EXTENDS Integers, Sequences, FiniteSets

CONSTANTS
  Servers,     \* server names
  Topology,    \* the links, as two-element sets; a tree
  Users,       \* users, online from the start
  Home,        \* Home[u]: the server user u is connected to
  Level,       \* Level[u]: u's user level, the same on every server
  Registered,  \* Registered[s]: users with a USERDB record on server s
  Ports,       \* the integers a port argument may carry
  Speeds,      \* the integers a speed argument may carry
  Passwords,   \* the password texts a command may carry; "" is none
  MaxCmds      \* bound: commands issued in one behaviour

MODERATOR == 2
ADMIN == 3
Client == "client"   \* the connection a command came by, when not a peer
Fields == {"port", "speed", "pass"}

Pairs == {<<s, p>> \in Servers \X Servers : {s, p} \in Topology}

VARIABLES
  chan,   \* chan[<<s, p>>]: commands in flight from s to p
  view,   \* view[s][u][f]: server s's copy of field f of user u
  hist,   \* hist[u][f]: servers where an update of f began, and its value
  ncmds   \* commands issued so far

vars == <<chan, view, hist, ncmds>>

Init ==
  /\ chan = [e \in Pairs |-> <<>>]
  /\ view = [s \in Servers |-> [u \in Users |-> [port |-> 0, speed |-> 0, pass |-> "p0"]]]
  /\ hist = [u \in Users |-> [f \in Fields |-> [origins |-> {}, last |-> view[Home[u]][u][f]]]]
  /\ ncmds = 0

-----------------------------------------------------------------------------
(* pass_message (serverlib.c 112-119): queue m on every link of s but    *)
(* the one to p.                                                           *)
PassMessage(c, s, p, m) == [e \in Pairs |-> IF e[1] = s /\ e[2] # p THEN Append(c[e], m) ELSE c[e]]

(* A handler that accepts the command: it sets field f of u on s (when   *)
(* set), passes m on, and, on the server the command was issued to,       *)
(* the update is recorded.                                                *)
Accept(s, c, p, u, f, v, set, m) ==
  /\ view' = IF set THEN [view EXCEPT ![s][u][f] = v] ELSE view
  /\ chan' = PassMessage(c, s, p, m)
  /\ hist' = IF p = Client
               THEN [hist EXCEPT ![u][f] = [origins |-> @.origins \cup {s}, last |-> v]]
               ELSE hist

(* A handler that returns early: an error to a client, or nothing.       *)
Refuse(c) == chan' = c /\ UNCHANGED <<view, hist>>

(* change_data_port (change.c 18-40): a port in 0..65535 is set and     *)
(* passed on; another draws "invalid data port".                         *)
ChangeDataPort(s, c, p, u, v) ==
  IF v \in 0..65535
    THEN Accept(s, c, p, u, "port", v, TRUE, [k |-> "port", from |-> u, to |-> u, v |-> v])
    ELSE Refuse(c)

(* change_speed (change.c 44-62): a speed in 0..10. *)
ChangeSpeed(s, c, p, u, v) ==
  IF v \in 0..10
    THEN Accept(s, c, p, u, "speed", v, TRUE, [k |-> "speed", from |-> u, to |-> u, v |-> v])
    ELSE Refuse(c)

(* change_pass (change.c 66-94): passed on whether or not the record is  *)
(* here, then set in a local record.                                      *)
ChangePass(s, c, p, u, v) ==
  IF v = "" THEN Refuse(c)
  ELSE Accept(s, c, p, u, "pass", v, u \in Registered[s], [k |-> "pass", from |-> u, to |-> u, pw |-> v])

(* alter_port (change.c 134-194) by a: moderators and above; a valid     *)
(* port is set (logged only when it differs) and always passed on.       *)
AlterPort(s, c, p, a, u, v) ==
  IF Level[a] < MODERATOR \/ v \notin 0..65535 THEN Refuse(c)
  ELSE Accept(s, c, p, u, "port", v, TRUE, [k |-> "alterport", from |-> a, to |-> u, v |-> v])

(* alter_pass (change.c 198-272) by a: admins and above, against an      *)
(* online target below a; passed on before the record's level is checked *)
(* and the record set.                                                    *)
AlterPass(s, c, p, a, u, v) ==
  IF Level[a] < ADMIN \/ v = "" \/ Level[u] >= Level[a] THEN Refuse(c)
  ELSE Accept(s, c, p, u, "pass", v, u \in Registered[s] /\ Level[u] < Level[a],
              [k |-> "alterpass", from |-> a, to |-> u, pw |-> v])

(* Mutant: the speed is stored before the "already" test, which then    *)
(* always ends the command.                                               *)
AlterSpeedSetFirst(s, c, p, a, u, v) ==
  IF Level[a] < MODERATOR \/ v \notin 0..10 THEN Refuse(c)
  ELSE view' = [view EXCEPT ![s][u].speed = v] /\ chan' = c /\ UNCHANGED hist

(* alter_speed (change.c 276-324) by a: moderators and above; a speed    *)
(* the user already has here ends the command, which is then not passed  *)
(* on.                                                                    *)
AlterSpeed(s, c, p, a, u, v) ==
  IF Level[a] < MODERATOR \/ v \notin 0..10 \/ view[s][u].speed = v THEN Refuse(c)
  ELSE Accept(s, c, p, u, "speed", v, TRUE, [k |-> "alterspeed", from |-> a, to |-> u, v |-> v])

(* The handler of command kind k from a about u with argument v, at s,   *)
(* received from p.                                                       *)
Handle(s, c, p, k, a, u, v) ==
  CASE k = "port"       -> ChangeDataPort(s, c, p, a, v)
    [] k = "speed"      -> ChangeSpeed(s, c, p, a, v)
    [] k = "pass"       -> ChangePass(s, c, p, a, v)
    [] k = "alterport"  -> AlterPort(s, c, p, a, u, v)
    [] k = "alterpass"  -> AlterPass(s, c, p, a, u, v)
    [] k = "alterspeed" -> AlterSpeed(s, c, p, a, u, v)

-----------------------------------------------------------------------------
(* A client's command: a's own port, speed or password, or an alter of   *)
(* u's, handled by a's server.                                            *)
Command(a, k, u, v) ==
  /\ ncmds < MaxCmds /\ ncmds' = ncmds + 1
  /\ k \in {"port", "speed", "pass"} => u = a
  /\ Handle(Home[a], chan, Client, k, a, u, v)

(* The command at the head of the link from p, at s.  pop_user           *)
(* (serverlib.c 231-271) drops one whose sender is local to s;           *)
(* alter_pass takes its sender with pop_user_server, which does not.     *)
Receive(s, p) ==
  LET m == Head(chan[<<p, s>>])
      c == [chan EXCEPT ![<<p, s>>] = Tail(@)]
  IN  /\ chan[<<p, s>>] # <<>>
      /\ IF Home[m.from] = s /\ m.k # "alterpass" THEN Refuse(c)
         ELSE Handle(s, c, p, m.k, m.from, m.to, IF "pw" \in DOMAIN m THEN m.pw ELSE m.v)
      /\ UNCHANGED ncmds

Next ==
  \/ \E a, u \in Users :
       \/ \E v \in Ports : Command(a, "port", u, v) \/ Command(a, "alterport", u, v)
       \/ \E v \in Speeds : Command(a, "speed", u, v) \/ Command(a, "alterspeed", u, v)
       \/ \E v \in Passwords : Command(a, "pass", u, v) \/ Command(a, "alterpass", u, v)
  \/ \E e \in Pairs : Receive(e[2], e[1])

Spec == Init /\ [][Next]_vars

-----------------------------------------------------------------------------
Quiet == \A e \in Pairs : chan[e] = <<>>

(* Where f is kept on server s: a USERDB record for the password. *)
Kept(s, u, f) == f # "pass" \/ u \in Registered[s]

(* Once the links are drained, every server's copy of a field that was  *)
(* only ever changed through one server holds the last value set there:  *)
(* each handler sets its copy before passing the command on, the links   *)
(* keep the commands in order, and alter_speed stops passing one on only *)
(* where the speed already is that value.                                *)
SingleOriginSettles ==
  Quiet => \A u \in Users, f \in Fields :
             Cardinality(hist[u][f].origins) = 1 =>
               \A s \in Servers : Kept(s, u, f) => view[s][u][f] = hist[u][f].last

(* Once the links are drained, all servers agree on every user's port,   *)
(* speed and password.                                                    *)
SettingsAgree ==
  Quiet => \A u \in Users, f \in Fields, s, t \in Servers :
             Kept(s, u, f) /\ Kept(t, u, f) => view[s][u][f] = view[t][u][f]
==============================================================================
