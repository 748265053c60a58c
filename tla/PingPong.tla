------------------------------ MODULE PingPong ------------------------------
(***************************************************************************)
(* Server pings across linked servers (server_links.c): a user's ping of  *)
(* a server (ping_server), relayed with pass_message_args to every link  *)
(* but the one it came on until it reaches that server, which answers    *)
(* with a server pong on the link the ping came in by; and lag_detect,   *)
(* which pings every peer of a server.  server_pong routes a pong to a   *)
(* user through user->con (the user if local, else the link towards its *)
(* server), takes one addressed to this server as a lag measurement, and *)
(* relays one for another server to every link but the one it came on.   *)
(*                                                                         *)
(* Links are FIFO (TCP); the servers form a tree, as the OpenNap network *)
(* must.  Users stay online, and every name is known everywhere.  The    *)
(* timestamps a ping carries are left out; a ping is known by an id.     *)
(***************************************************************************)
EXTENDS Integers, Sequences, FiniteSets

CONSTANTS
  Servers,    \* server names
  Topology,   \* the links, as two-element sets; a tree
  Users,      \* user nicks
  Home,       \* Home[u]: the server user u is connected to
  MaxPings    \* bound: pings issued in one behaviour

Neighbors(s) == {p \in Servers : {s, p} \in Topology}
Pairs == {<<s, p>> \in Servers \X Servers : {s, p} \in Topology}
Ids == 1..MaxPings

RECURSIVE Reach(_, _)
(* The servers reached from n without going back to from. *)
Reach(n, from) == {n} \cup UNION {Reach(m, n) : m \in Neighbors(n) \ {from}}

(* The link of server s towards server t: user->con of a remote user. *)
NextHop(s, t) == CHOOSE n \in Neighbors(s) : t \in Reach(n, s)

VARIABLES
  chan,     \* chan[<<s, p>>]: messages in flight from s to p
  pings,    \* the pings issued, in order: [by, recip, lag]
  ans       \* ans[id][r]: pongs from server r delivered for ping id

vars == <<chan, pings, ans>>

Ping == [k : {"ping"}, sender : Users \cup Servers, recip : Servers, id : Ids]
Pong == [k : {"pong"}, server : Servers, nick : Users \cup Servers, id : Ids]

TypeOK ==
  /\ chan \in [Pairs -> Seq(Ping \cup Pong)]
  /\ pings \in Seq([by : Users \cup Servers, recip : Servers, lag : BOOLEAN])
  /\ ans \in [Ids -> [Servers -> Nat]]

Init ==
  /\ chan = [e \in Pairs |-> <<>>] /\ pings = <<>>
  /\ ans = [i \in Ids |-> [r \in Servers |-> 0]]

(* send_cmd of m on the links from s to each server of T. *)
Send(c, s, T, m) == [e \in Pairs |-> IF e[1] = s /\ e[2] \in T THEN Append(c[e], m) ELSE c[e]]

(* A pong is delivered to the pinging user or taken as a lag measure. *)
Deliver(id, r) == ans' = [ans EXCEPT ![id][r] = @ + 1]

-----------------------------------------------------------------------------
(* ping_server (server_links.c 77-113) from local user u for server r:   *)
(* its own server answers at once; another is pinged through every link. *)
UserPing(u, r) ==
  LET id == Len(pings) + 1
      s  == Home[u]
  IN  /\ Len(pings) < MaxPings
      /\ pings' = Append(pings, [by |-> u, recip |-> r, lag |-> FALSE])
      /\ IF r = s
           THEN Deliver(id, r) /\ UNCHANGED chan
           ELSE chan' = Send(chan, s, Neighbors(s),
                             [k |-> "ping", sender |-> u, recip |-> r, id |-> id])
                /\ UNCHANGED ans

(* lag_detect (server_links.c 181-202), on its timer or ping_all_servers *)
(* (207-220): each peer p is pinged for p itself.  One id per call.      *)
LagDetect(s) ==
  LET id == Len(pings) + 1
  IN  /\ Len(pings) < MaxPings /\ Neighbors(s) # {}
      /\ pings' = Append(pings, [by |-> s, recip |-> s, lag |-> TRUE])
      /\ chan' = [e \in Pairs |->
                    IF e[1] = s
                    THEN Append(chan[e], [k |-> "ping", sender |-> s, recip |-> e[2], id |-> id])
                    ELSE chan[e]]
      /\ UNCHANGED ans

(* Mutant: the ping is relayed on the link it came by as well. *)
RecvPingNoExcept(s, p) ==
  LET m == Head(chan[<<p, s>>])
      c == [chan EXCEPT ![<<p, s>>] = Tail(@)]
  IN  /\ chan[<<p, s>>] # <<>> /\ m.k = "ping"
      /\ chan' = IF m.recip = s
                 THEN Send(c, s, {p}, [k |-> "pong", server |-> s, nick |-> m.sender, id |-> m.id])
                 ELSE Send(c, s, Neighbors(s), m)
      /\ UNCHANGED <<pings, ans>>

(* ping_server at server s for a ping from peer p: for s, a server pong  *)
(* back on p's link to the sender; for another server, relayed to every  *)
(* link but p's.                                                          *)
RecvPing(s, p) ==
  LET m == Head(chan[<<p, s>>])
      c == [chan EXCEPT ![<<p, s>>] = Tail(@)]
  IN  /\ chan[<<p, s>>] # <<>> /\ m.k = "ping"
      /\ chan' = IF m.recip = s
                 THEN Send(c, s, {p}, [k |-> "pong", server |-> s, nick |-> m.sender, id |-> m.id])
                 ELSE Send(c, s, Neighbors(s) \ {p}, m)
      /\ UNCHANGED <<pings, ans>>

(* Mutant: a remote user's pong is sent back on the link it came by. *)
RecvPongToSender(s, p) ==
  LET m == Head(chan[<<p, s>>])
      c == [chan EXCEPT ![<<p, s>>] = Tail(@)]
  IN  /\ chan[<<p, s>>] # <<>> /\ m.k = "pong"
      /\ \/ /\ m.nick \in Users /\ Home[m.nick] = s
            /\ Deliver(m.id, m.server) /\ chan' = c
         \/ /\ m.nick \in Users /\ Home[m.nick] # s
            /\ chan' = Send(c, s, {p}, m) /\ UNCHANGED ans
         \/ /\ m.nick = s
            /\ Deliver(m.id, m.server) /\ chan' = c
         \/ /\ m.nick \in Servers \ {s}
            /\ chan' = Send(c, s, Neighbors(s) \ {p}, m) /\ UNCHANGED ans
      /\ UNCHANGED pings

(* server_pong (server_links.c 118-176) at s for a pong from peer p:     *)
(* for a user, delivered if local or sent on user->con; for s, a lag     *)
(* measure; for another server, relayed to every link but p's.           *)
RecvPong(s, p) ==
  LET m == Head(chan[<<p, s>>])
      c == [chan EXCEPT ![<<p, s>>] = Tail(@)]
  IN  /\ chan[<<p, s>>] # <<>> /\ m.k = "pong"
      /\ \/ /\ m.nick \in Users /\ Home[m.nick] = s
            /\ Deliver(m.id, m.server) /\ chan' = c
         \/ /\ m.nick \in Users /\ Home[m.nick] # s
            /\ chan' = Send(c, s, {NextHop(s, Home[m.nick])}, m) /\ UNCHANGED ans
         \/ /\ m.nick = s
            /\ Deliver(m.id, m.server) /\ chan' = c
         \/ /\ m.nick \in Servers \ {s}
            /\ chan' = Send(c, s, Neighbors(s) \ {p}, m) /\ UNCHANGED ans
      /\ UNCHANGED pings

Next ==
  \/ \E u \in Users, r \in Servers : UserPing(u, r)
  \/ \E s \in Servers : LagDetect(s)
  \/ \E e \in Pairs : RecvPing(e[2], e[1]) \/ RecvPong(e[2], e[1])

(* The reactor serves every link with input in turn. *)
Fairness == \A e \in Pairs : WF_vars(RecvPing(e[2], e[1])) /\ WF_vars(RecvPong(e[2], e[1]))

Spec == Init /\ [][Next]_vars /\ Fairness

-----------------------------------------------------------------------------
(* The servers a ping expects an answer from: the pinged server, or      *)
(* every peer of a lag_detect.                                            *)
Expected(id) == IF pings[id].lag THEN Neighbors(pings[id].by) ELSE {pings[id].recip}

(* However pings and pongs interleave on the links, a ping's sender gets *)
(* at most one pong from each server it expects one from and none from   *)
(* any other: relays never copy a ping or pong onto a second path.       *)
PongsExact ==
  \A id \in DOMAIN pings : \A r \in Servers :
    ans[id][r] <= (IF r \in Expected(id) THEN 1 ELSE 0)

(* Every ping is answered: each expected pong reaches the user or the    *)
(* server that sent the ping.                                             *)
PongsArrive ==
  <>[](\A id \in DOMAIN pings : \A r \in Expected(id) : ans[id][r] = 1)
==============================================================================
