------------------------------- MODULE Login -------------------------------
(***************************************************************************)
(* The user table (Users) of linked servers, kept in step by the LOGIN,   *)
(* KILL and QUIT relays: HANDLER(login) of login.c for a local client and *)
(* for a login a peer relays, HANDLER(kill_user) and kill_user_internal   *)
(* of kill_user.c, HANDLER(client_quit) of client_quit.c, and the QUIT    *)
(* free_user sends when a local user leaves.                              *)
(*                                                                         *)
(* A user is a nick, the server it is connected to and the time it        *)
(* logged in there (user->connected).  A local login of a nick the server *)
(* already knows is refused (the ghost check is compiled out).  A relayed *)
(* login of a known nick is a nick collision: the login with the older    *)
(* timestamp wins, the existing user is killed and the KILL relayed,      *)
(* otherwise the relayed login is dropped.                                *)
(*                                                                         *)
(* Links form a tree and are FIFO.  A link breaks at once for both ends,  *)
(* and each end notices on its own later (remove_connection): the users   *)
(* behind it are removed and a QUIT for each passed on (server_split).    *)
(* Messages sent on a broken link are lost.  When both ends have noticed, *)
(* the link may be made again; each end then sends the other a login for  *)
(* every user it knows (synch_server).  The servers' clocks are one clock *)
(* (global.current_time in seconds): two logins in the same second have   *)
(* the same timestamp.  The checks of a login that depend on data the     *)
(* model leaves out (bans, clones, passwords, registration, speed and     *)
(* port fields) are taken to pass; for a local login they only refuse it, *)
(* which changes no state modelled here.                                  *)
(***************************************************************************)
EXTENDS Naturals, Sequences, SequencesExt, Graphs

CONSTANTS
  Servers,     \* the servers (model values)
  Topology,    \* the links, as 2-element sets: a tree
  Nicks,       \* the nicks clients log in with
  MaxTime,     \* bound: the clock's last second
  MaxLogins,   \* bound: local logins in one behaviour
  MaxSplits    \* bound: link splits in one behaviour

VARIABLES
  links,       \* the links that carry bytes
  srv,         \* srv[s]: the peers on s's Servers list
  splits,      \* link splits so far
  users,       \* users[s][n]: s's USER for nick n, or None
  chan,        \* chan[<<s, p>>]: messages from s to p, in order
  now,         \* global.current_time
  logins,      \* local logins so far
  born,        \* logins accepted at the user's own server (history)
  killed,      \* local users killed by a KILL or a collision (history)
  dying        \* dying[s]: local users of s a KILL disconnected, still in
               \* Users until s reaps its destroyed connections

vars == <<links, srv, splits, users, chan, now, logins, born, killed, dying>>
netVars == <<links, srv, splits>>

None == [home |-> "none"]
Times == 0..MaxTime
Pairs == {<<s, p>> \in Servers \X Servers : {s, p} \in Topology}
Peers(s) == {p \in Servers : {s, p} \in Topology}

(* A USER: its server (user->server), its timestamp (user->connected)    *)
(* and its connection (user->con): s itself for a local client, else the *)
(* link it was learnt over.                                               *)
User == [home : Servers, ts : Times, con : Servers]
Login == [nick : Nicks, home : Servers, ts : Times]
Msg == [k : {"login"}, nick : Nicks, home : Servers, ts : Times]
       \cup [k : {"kill", "quit"}, nick : Nicks]

IsLocal(s, n) == users[s][n] # None /\ users[s][n].con = s

(* pass_message_args(con, ...): msg queued for every server on s's       *)
(* Servers list but "except"; lost on a broken link.                     *)
SendTo(c, s, peers, msg) ==
  [e \in DOMAIN c |-> IF e[1] = s /\ e[2] \in peers /\ {s, e[2]} \in links
                      THEN Append(c[e], msg) ELSE c[e]]

Pass(c, s, except, msg) == SendTo(c, s, srv[s] \ {except}, msg)

(* The local user n of s, as the login that created it. *)
AsLogin(s, n) == [nick |-> n, home |-> s, ts |-> users[s][n].ts]

TypeOK ==
  /\ links \subseteq Topology /\ srv \in [Servers -> SUBSET Servers]
  /\ splits \in 0..MaxSplits
  /\ users \in [Servers -> [Nicks -> User \cup {None}]]
  /\ chan \in [Pairs -> Seq(Msg)]
  /\ now \in Times /\ logins \in 0..MaxLogins
  /\ born \subseteq Login /\ killed \subseteq Login
  /\ dying \in [Servers -> SUBSET Nicks]

Init ==
  /\ links = Topology /\ srv = [s \in Servers |-> Peers(s)] /\ splits = 0
  /\ users = [s \in Servers |-> [n \in Nicks |-> None]]
  /\ chan = [e \in Pairs |-> <<>>]
  /\ now = 0 /\ logins = 0 /\ born = {} /\ killed = {}
  /\ dying = [s \in Servers |-> {}]

-----------------------------------------------------------------------------
(* HANDLER(login) for a client of s (login.c 198-804): refused when the *)
(* nick is in use (login.c 500-514), else the user is added with the     *)
(* current time and the login passed to every peer (login.c 733-757).    *)
LocalLogin(s, n) ==
  /\ logins < MaxLogins
  /\ logins' = logins + 1
  /\ IF users[s][n] # None
     THEN UNCHANGED <<users, chan, born>>
     ELSE LET u == [home |-> s, ts |-> now, con |-> s] IN
          /\ users' = [users EXCEPT ![s][n] = u]
          /\ chan' = Pass(chan, s, s,
                          [k |-> "login", nick |-> n, home |-> s, ts |-> now])
          /\ born' = born \cup {[nick |-> n, home |-> s, ts |-> now]}
  /\ UNCHANGED <<netVars, now, killed, dying>>

(* A local client quits: remove_user frees the USER and free_user sends  *)
(* QUIT to every peer (free_user.c 27-31).                                *)
LocalQuit(s, n) ==
  /\ IsLocal(s, n) /\ n \notin dying[s]
  /\ users' = [users EXCEPT ![s][n] = None]
  /\ chan' = Pass(chan, s, s, [k |-> "quit", nick |-> n])
  /\ UNCHANGED <<netVars, now, logins, born, killed, dying>>

(* The clock advances a second.  Every server reaps its destroyed       *)
(* connections at the end of the loop turn, before it reads the clock     *)
(* again (main.c 1235).                                                   *)
Tick ==
  /\ now < MaxTime /\ \A s \in Servers : dying[s] = {}
  /\ now' = now + 1
  /\ UNCHANGED <<netVars, users, chan, logins, born, killed, dying>>

-----------------------------------------------------------------------------
(* s handles the message at the head of p's link (handle_connection,     *)
(* dispatch_command); "rest" is the links without it.                    *)
Head1(s, p) == Head(chan[<<p, s>>])
Rest(s, p) == [chan EXCEPT ![<<p, s>>] = Tail(@)]

(* A local user removed by a kill, as history. *)
KillLocal(s, n) == killed' = killed \cup (IF IsLocal(s, n) THEN {AsLogin(s, n)} ELSE {})

(* Mutant: a relayed user's connection is taken to be its server. *)
RemoteLoginConIsHome(s, p) ==
  LET m == Head1(s, p)
      e == users[s][m.nick]
      u == [home |-> m.home, ts |-> m.ts, con |-> m.home]
  IN  /\ chan[<<p, s>>] # <<>> /\ m.k = "login"
      /\ \/ /\ e = None
            /\ users' = [users EXCEPT ![s][m.nick] = u]
            /\ chan' = Pass(Rest(s, p), s, p, m)
            /\ UNCHANGED <<killed, dying>>
         \/ /\ e # None /\ m.ts < e.ts
            /\ users' = [users EXCEPT ![s][m.nick] = u]
            /\ chan' = Pass(Pass(Rest(s, p), s, p, [k |-> "kill", nick |-> m.nick]), s, p, m)
            /\ KillLocal(s, m.nick)
            /\ dying' = [dying EXCEPT ![s] = @ \ {m.nick}]
         \/ /\ e # None /\ m.ts >= e.ts
            /\ chan' = Rest(s, p)
            /\ UNCHANGED <<users, killed, dying>>
      /\ UNCHANGED <<netVars, now, logins, born>>

(* HANDLER(login) for a login peer p relays (login.c 198-804).  A known  *)
(* nick is a collision (login.c 531-576): the older timestamp wins; when  *)
(* the relayed login is older, the KILL goes to every peer but p, the     *)
(* existing user is zapped (local) or removed, and the login proceeds;    *)
(* else it is dropped without a reply.  A login that proceeds adds the    *)
(* user with the relayed timestamp and server, and is passed to every     *)
(* peer but p (login.c 748-757).                                          *)
RemoteLogin(s, p) ==
  LET m == Head1(s, p)
      e == users[s][m.nick]
      u == [home |-> m.home, ts |-> m.ts, con |-> p]
  IN  /\ chan[<<p, s>>] # <<>> /\ m.k = "login"
      /\ \/ /\ e = None
            /\ users' = [users EXCEPT ![s][m.nick] = u]
            /\ chan' = Pass(Rest(s, p), s, p, m)
            /\ UNCHANGED <<killed, dying>>
         \/ /\ e # None /\ m.ts < e.ts
            /\ users' = [users EXCEPT ![s][m.nick] = u]
            /\ chan' = Pass(Pass(Rest(s, p), s, p, [k |-> "kill", nick |-> m.nick]), s, p, m)
            /\ KillLocal(s, m.nick)
            /\ dying' = [dying EXCEPT ![s] = @ \ {m.nick}]
         \/ /\ e # None /\ m.ts >= e.ts
            /\ chan' = Rest(s, p)
            /\ UNCHANGED <<users, killed, dying>>
      /\ UNCHANGED <<netVars, now, logins, born>>

(* HANDLER(kill_user) for a KILL peer p relays (kill_user.c 48-94) and   *)
(* kill_user_internal (kill_user.c 96-147): a nick s does not know is     *)
(* ignored; else the KILL goes to every peer but p, and a remote user is  *)
(* removed, while a local one is only disconnected (no QUIT): its         *)
(* connection goes on the Destroy list (destroy_connection, main.c        *)
(* 746-793) and the user stays in Users until the reap.                   *)
KillUser(s, p) ==
  LET m == Head1(s, p) IN
  /\ chan[<<p, s>>] # <<>> /\ m.k = "kill"
  /\ IF users[s][m.nick] = None
     THEN chan' = Rest(s, p) /\ UNCHANGED <<users, killed, dying>>
     ELSE /\ chan' = Pass(Rest(s, p), s, p, m)
          /\ KillLocal(s, m.nick)
          /\ IF IsLocal(s, m.nick)
               THEN dying' = [dying EXCEPT ![s] = @ \cup {m.nick}] /\ UNCHANGED users
               ELSE users' = [users EXCEPT ![s][m.nick] = None] /\ UNCHANGED dying
  /\ UNCHANGED <<netVars, now, logins, born>>

(* HANDLER(client_quit) for a QUIT peer p relays (client_quit.c 12-36):  *)
(* a remote user of that nick is removed and the QUIT passed to every     *)
(* peer but p; an unknown nick or a local user is only logged.            *)
ClientQuit(s, p) ==
  LET m == Head1(s, p) IN
  /\ chan[<<p, s>>] # <<>> /\ m.k = "quit"
  /\ IF users[s][m.nick] = None \/ IsLocal(s, m.nick)
     THEN chan' = Rest(s, p) /\ UNCHANGED users
     ELSE /\ users' = [users EXCEPT ![s][m.nick] = None]
          /\ chan' = Pass(Rest(s, p), s, p, m)
  /\ UNCHANGED <<netVars, now, logins, born, killed, dying>>

Receive(s, p) == RemoteLogin(s, p) \/ KillUser(s, p) \/ ClientQuit(s, p)

(* The link between x and y breaks: what is on it is lost. *)
Split(x, y) ==
  /\ {x, y} \in links /\ splits < MaxSplits
  /\ links' = links \ {{x, y}}
  /\ chan' = [chan EXCEPT ![<<x, y>>] = <<>>, ![<<y, x>>] = <<>>]
  /\ splits' = splits + 1
  /\ UNCHANGED <<srv, users, now, logins, born, killed, dying>>

(* x notices that its link to y is gone: remove_connection               *)
(* (remove_connection.c 99-147) takes y off Servers, then server_split    *)
(* (remove_connection.c 20-38) removes every user behind y and passes a   *)
(* QUIT for it to the other peers.                                        *)
Detect(x, y) ==
  LET behind == {n \in Nicks : users[x][n] # None /\ users[x][n].con = y}
      srv1 == [srv EXCEPT ![x] = @ \ {y}]
      quit(n, c) == SendTo(c, x, srv1[x], [k |-> "quit", nick |-> n])
  IN  /\ y \in srv[x] /\ {x, y} \notin links
      /\ srv' = srv1
      /\ users' = [users EXCEPT ![x] = [n \in Nicks |-> IF n \in behind THEN None ELSE @[n]]]
      /\ chan' = FoldSet(quit, chan, behind)
      /\ UNCHANGED <<links, splits, now, logins, born, killed, dying>>

(* synch_server (synch.c 147-169): a login for every user x knows, with  *)
(* its server and timestamp (sync_user, synch.c 25-67).                   *)
Synch(x) ==
  SetToSeq({[k |-> "login", nick |-> n, home |-> users[x][n].home, ts |-> users[x][n].ts] :
              n \in {n \in Nicks : users[x][n] # None}})

(* Both ends have removed the broken link, and it is made again: each    *)
(* end registers the other and synchs it.                                 *)
Relink(x, y) ==
  /\ {x, y} \in Topology \ links
  /\ y \notin srv[x] /\ x \notin srv[y]
  /\ links' = links \cup {{x, y}}
  /\ srv' = [srv EXCEPT ![x] = @ \cup {y}, ![y] = @ \cup {x}]
  /\ chan' = [chan EXCEPT ![<<x, y>>] = Synch(x), ![<<y, x>>] = Synch(y)]
  /\ UNCHANGED <<splits, users, now, logins, born, killed, dying>>

(* reap_connections (main.c 848-860), the last step of s's loop turn:    *)
(* reap_dead_connection closes each destroyed connection and              *)
(* remove_connection frees its user (remove_user, remove_connection.c     *)
(* 42-111); con->killed is set, so free_user sends no QUIT.               *)
Reap(s) ==
  /\ dying[s] # {}
  /\ users' = [users EXCEPT ![s] = [n \in Nicks |-> IF n \in dying[s] THEN None ELSE @[n]]]
  /\ dying' = [dying EXCEPT ![s] = {}]
  /\ UNCHANGED <<netVars, chan, now, logins, born, killed>>

Next ==
  \/ \E s \in Servers, n \in Nicks : LocalLogin(s, n) \/ LocalQuit(s, n)
  \/ Tick
  \/ \E s \in Servers : Reap(s)
  \/ \E e \in Pairs : Receive(e[2], e[1]) \/ Split(e[1], e[2]) \/ Detect(e[1], e[2])
                      \/ Relink(e[1], e[2])

(* Every server reads its links: a message queued is eventually handled, *)
(* and every end of a broken link eventually sees EOF.                    *)
Fairness == /\ \A e \in Pairs : WF_vars(Receive(e[2], e[1])) /\ WF_vars(Detect(e[1], e[2]))
            /\ \A s \in Servers : WF_vars(Reap(s))

Spec == Init /\ [][Next]_vars /\ Fairness

-----------------------------------------------------------------------------
Quiet == (\A e \in Pairs : chan[e] = <<>>) /\ \A s \in Servers : dying[s] = {}

View(s, n) == IF users[s][n] = None THEN None
              ELSE [home |-> users[s][n].home, ts |-> users[s][n].ts]

(* Once every relay is handled, all servers agree on who is logged in     *)
(* under each nick, and when (the purpose of the collision check of       *)
(* login.c 531-576 and the QUIT and KILL relays).                         *)
Agreement == Quiet => \A s, t \in Servers, n \in Nicks : View(s, n) = View(t, n)

(* A user is only killed because a login of the same nick with an older  *)
(* timestamp was made ("the last one to connect gets killed",            *)
(* login.c 533-535).                                                      *)
KilledHadOlderRival ==
  \A k \in killed : \E b \in born : b.nick = k.nick /\ b.ts < k.ts

(* The peer of s on the tree path to server h. *)
NextHop(s, h) ==
  LET G == [node |-> Servers \ {s},
            edge |-> {<<x, y>> \in Pairs : s \notin {x, y}}]
  IN  CHOOSE p \in Peers(s) : ConnectionsIn(G)[p, h]

(* The connection of every remote user is the link towards its server,   *)
(* the one send_user routes its messages over (serverlib.c 57-80),        *)
(* whatever kills, quits and collisions the relays went through.         *)
RoutedTowardHome ==
  \A s \in Servers, n \in Nicks :
    users[s][n] # None /\ ~IsLocal(s, n) => users[s][n].con = NextHop(s, users[s][n].home)
==============================================================================
