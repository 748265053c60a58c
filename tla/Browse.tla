------------------------------- MODULE Browse -------------------------------
(***************************************************************************)
(* Browsing another user's files across linked servers (browse.c): the   *)
(* server-side browse (211), which the target's server answers with the  *)
(* results and an end-of-list (213) sent back with send_user, and the    *)
(* direct browse (640), which asks the target's client to connect, with  *)
(* its accept (641).  A request for a user on another server is relayed  *)
(* on user->con; replies to a remote requester are encapsulated and      *)
(* routed by the encapsulated handler (handler.c).  Users sign off while *)
(* requests are in flight: free_user passes the quit to the peers and     *)
(* client_quit relays it on.                                             *)
(*                                                                         *)
(* Files are counted, not named; a reply is its kind and the request it  *)
(* answers.  The request numbers are history kept for the properties.    *)
(***************************************************************************)
EXTENDS Integers, Sequences, FiniteSets

CONSTANTS
  Servers,            \* server names
  Topology,           \* the links, as two-element sets; a tree
  Users,              \* users, online from the start
  Home,               \* Home[u]: the server user u is connected to
  Files,              \* Files[u]: the number of files u shares
  Firewalled,         \* users whose data port is 0
  Ignores,            \* pairs <<t, u>>: t's ignore list holds u
  Max_Browse_Result,  \* Max_Browse_Result
  RemoteBrowse,       \* option ON_REMOTE_BROWSE
  Args,               \* the integers a browse may give as its <max>
  MaxReqs             \* bound: requests in one behaviour

NoArg == <<>>   \* a browse with no <max>; <<n>> gives n

Neighbors(s) == {p \in Servers : {s, p} \in Topology}
Pairs == {<<s, p>> \in Servers \X Servers : {s, p} \in Topology}

RECURSIVE Reach(_, _)
Reach(n, from) == {n} \cup UNION {Reach(m, n) : m \in Neighbors(n) \ {from}}

(* user->con of a user homed at t, seen from server s # t. *)
NextHop(s, t) == CHOOSE n \in Neighbors(s) : t \in Reach(n, s)

(* An int stored in a short (BROWSE.max), two's complement. *)
Short(n) == ((n + 32768) % 65536) - 32768

VARIABLES
  chan,      \* chan[<<s, p>>]: messages in flight from s to p
  online,    \* online[s]: the users in server s's Users table
  reqs,      \* the requests made, in order: request i is reqs[i]
  got,       \* got[u]: the replies u's client has received, in order
  asked,     \* asked[t]: the direct browses delivered to t's client
  accepted   \* the direct browses whose target has sent its accept

vars == <<chan, online, reqs, got, asked, accepted>>

Ids == 1..MaxReqs
Rep(i, r) == [id |-> i, r |-> r]

-----------------------------------------------------------------------------
(* The <max> relayed with a browse (browse.c 91-98): none or 0 means    *)
(* Max_Browse_Result, and so does one above it.                          *)
RelayMax(a) ==
  IF a = NoArg \/ a[1] = 0 \/ (Max_Browse_Result > 0 /\ a[1] > Max_Browse_Result)
    THEN Max_Browse_Result ELSE a[1]

(* data.max of a local browse (browse.c 115-117): atoi(pkt) stored in a  *)
(* short, 0 without <max>, then cut to Max_Browse_Result.                 *)
LocalMax(a) ==
  LET m == IF a = NoArg THEN 0 ELSE Short(a[1])
  IN  IF Max_Browse_Result > 0 /\ m > Max_Browse_Result THEN Max_Browse_Result ELSE m

(* Mutant: the callback sends while count <= max. *)
NumResultsOneMore(n, m) ==
  IF m = 0 THEN n ELSE IF m < 0 THEN 0 ELSE IF n < m + 1 THEN n ELSE m + 1

(* The results browse_callback sends over hash_foreach of n files        *)
(* (browse.c 28-47): while max is 0 or count < max.                      *)
NumResults(n, m) ==
  IF m = 0 THEN n ELSE IF m < 0 THEN 0 ELSE IF n < m THEN n ELSE m

(* send_user (serverlib.c 58-90) of the replies rs to u from server s,   *)
(* on the channels c: straight to a local client, else encapsulated on   *)
(* u's link.                                                              *)
SendUser(s, c, u, rs) ==
  IF Home[u] = s
    THEN got' = [got EXCEPT ![u] = @ \o rs] /\ chan' = c
    ELSE /\ chan' = [c EXCEPT ![<<s, NextHop(s, Home[u])>>] =
                       @ \o [j \in DOMAIN rs |-> [k |-> "encap", to |-> u, rep |-> rs[j]]]]
         /\ UNCHANGED got

Relay(s, c, t, m) == chan' = [c EXCEPT ![<<s, NextHop(s, Home[t])>>] = Append(@, m)] /\ UNCHANGED got
Drop(c) == chan' = c /\ UNCHANGED got

-----------------------------------------------------------------------------
(* Mutant: the end-of-list is queued before the results. *)
BrowseAtEndFirst(s, c, u, t, a, local, i) ==
  CASE t \notin online[s] ->
         IF local THEN SendUser(s, c, u, <<Rep(i, "gone"), Rep(i, "end")>>) ELSE Drop(c)
    [] ~RemoteBrowse /\ (Home[u] # s \/ Home[t] # s) -> SendUser(s, c, u, <<Rep(i, "end")>>)
    [] Home[t] = s ->
         SendUser(s, c, u, <<Rep(i, "end")>>
                             \o [j \in 1..NumResults(Files[t], LocalMax(a)) |-> Rep(i, "resp")])
    [] OTHER -> Relay(s, c, t, [k |-> "browse", from |-> u, to |-> t, max |-> <<RelayMax(a)>>, id |-> i])

(* The browse handler at server s for request i from u of t's files with *)
(* <max> a (browse.c 51-138); local says the request came from u's own   *)
(* connection rather than a peer.  An unknown target draws a sign-off    *)
(* and an end only for a local requester; with remote browsing off, a    *)
(* browse across a link ends at once; a local target's files are sent,  *)
(* then the end; a remote target's server gets the request.              *)
BrowseAt(s, c, u, t, a, local, i) ==
  CASE t \notin online[s] ->
         IF local THEN SendUser(s, c, u, <<Rep(i, "gone"), Rep(i, "end")>>) ELSE Drop(c)
    [] ~RemoteBrowse /\ (Home[u] # s \/ Home[t] # s) -> SendUser(s, c, u, <<Rep(i, "end")>>)
    [] Home[t] = s ->
         SendUser(s, c, u, [j \in 1..NumResults(Files[t], LocalMax(a)) |-> Rep(i, "resp")]
                             \o <<Rep(i, "end")>>)
    [] OTHER -> Relay(s, c, t, [k |-> "browse", from |-> u, to |-> t, max |-> <<RelayMax(a)>>, id |-> i])

(* browse_direct at s (browse.c 337-402).  Only a request from a local   *)
(* connection is checked for both ends firewalled and for a target       *)
(* sharing nothing, and only such a request is told of an unknown        *)
(* target.  A local target gets the request unless it ignores the        *)
(* sender; the "not online" error goes back on the connection the request *)
(* came by, which for a relayed request is the peer link, where it is an *)
(* unknown tag (handler.c 400-406).                                      *)
DirectAt(s, c, u, t, local, i) ==
  CASE t \notin online[s] ->
         (IF local THEN SendUser(s, c, u, <<Rep(i, "nosuch")>>) ELSE Drop(c)) /\ UNCHANGED asked
    [] local /\ (({u, t} \subseteq Firewalled) \/ Files[t] = 0) ->
         SendUser(s, c, u, <<Rep(i, "err")>>) /\ UNCHANGED asked
    [] Home[t] = s /\ <<t, u>> \notin Ignores ->
         asked' = [asked EXCEPT ![t] = @ \cup {i}] /\ Drop(c)
    [] Home[t] = s ->
         (IF local THEN SendUser(s, c, u, <<Rep(i, "err")>>) ELSE Drop(c)) /\ UNCHANGED asked
    [] OTHER -> Relay(s, c, t, [k |-> "direct", from |-> u, to |-> t, id |-> i]) /\ UNCHANGED asked

(* browse_direct_ok at s from t to u (browse.c 406-434). *)
OkAt(s, c, t, u, local, i) ==
  CASE u \notin online[s] -> IF local THEN SendUser(s, c, t, <<Rep(i, "nosuch")>>) ELSE Drop(c)
    [] Home[u] = s -> got' = [got EXCEPT ![u] = Append(@, Rep(i, "ok"))] /\ chan' = c
    [] OTHER -> Relay(s, c, u, [k |-> "ok", from |-> t, to |-> u, id |-> i])

-----------------------------------------------------------------------------
(* A client online sends a browse of t's files (211) or a direct browse  *)
(* (640); the request is numbered.                                        *)
Browse(u, t, a) ==
  /\ Len(reqs) < MaxReqs /\ u \in online[Home[u]]
  /\ reqs' = Append(reqs, [k |-> "browse", from |-> u, to |-> t, arg |-> a])
  /\ BrowseAt(Home[u], chan, u, t, a, TRUE, Len(reqs) + 1)
  /\ UNCHANGED <<online, asked, accepted>>

Direct(u, t) ==
  /\ Len(reqs) < MaxReqs /\ u \in online[Home[u]]
  /\ reqs' = Append(reqs, [k |-> "direct", from |-> u, to |-> t, arg |-> NoArg])
  /\ DirectAt(Home[u], chan, u, t, TRUE, Len(reqs) + 1)
  /\ UNCHANGED <<online, accepted>>

(* The target's client accepts a direct browse it was sent (641). *)
DirectOk(t, i) ==
  /\ i \in asked[t] \ accepted /\ t \in online[Home[t]]
  /\ accepted' = accepted \cup {i}
  /\ OkAt(Home[t], chan, t, reqs[i].from, TRUE, i)
  /\ UNCHANGED <<online, reqs, asked>>

(* encapsulated (handler.c 37-85) at s for reply m from p: a local      *)
(* target gets it; for a remote one it is passed to every peer but p.    *)
Encapsulated(s, p, m, c) ==
  CASE m.to \notin online[s] -> Drop(c)
    [] Home[m.to] = s -> got' = [got EXCEPT ![m.to] = Append(@, m.rep)] /\ chan' = c
    [] OTHER ->
         /\ chan' = [e \in Pairs |-> IF e[1] = s /\ e[2] # p THEN Append(c[e], m) ELSE c[e]]
         /\ UNCHANGED got

(* client_quit (client_quit.c 12-34) at s for the quit m from p: a remote *)
(* user is passed on to the other peers and removed; an unknown or local *)
(* one is only logged.                                                    *)
ClientQuit(s, p, m, c) ==
  IF m.u \in online[s] /\ Home[m.u] # s
    THEN /\ online' = [online EXCEPT ![s] = @ \ {m.u}]
         /\ chan' = [e \in Pairs |-> IF e[1] = s /\ e[2] # p THEN Append(c[e], m) ELSE c[e]]
    ELSE chan' = c /\ UNCHANGED online

(* The handler at s for the message at the head of the link from p.      *)
(* pop_user (serverlib.c 231-271) drops a browse whose sender is unknown *)
(* or local; pop_user_server (193-228) drops a direct browse or accept   *)
(* whose sender is unknown.                                               *)
Receive(s, p) ==
  LET m == Head(chan[<<p, s>>])
      c == [chan EXCEPT ![<<p, s>>] = Tail(@)]
  IN  /\ chan[<<p, s>>] # <<>>
      /\ CASE m.k = "browse" ->
                /\ IF m.from \notin online[s] \/ Home[m.from] = s THEN Drop(c)
                   ELSE BrowseAt(s, c, m.from, m.to, m.max, FALSE, m.id)
                /\ UNCHANGED <<online, asked>>
           [] m.k = "direct" ->
                IF m.from \notin online[s] THEN Drop(c) /\ UNCHANGED <<online, asked>>
                ELSE DirectAt(s, c, m.from, m.to, FALSE, m.id) /\ UNCHANGED online
           [] m.k = "ok" ->
                /\ IF m.from \notin online[s] THEN Drop(c)
                   ELSE OkAt(s, c, m.from, m.to, FALSE, m.id)
                /\ UNCHANGED <<online, asked>>
           [] m.k = "encap" -> Encapsulated(s, p, m, c) /\ UNCHANGED <<online, asked>>
           [] m.k = "quit" -> ClientQuit(s, p, m, c) /\ UNCHANGED <<got, asked>>
      /\ UNCHANGED <<reqs, accepted>>

(* A local user signs off: remove_user takes it out of Users, and        *)
(* free_user (free_user.c 27-31) passes the quit to every peer server.   *)
Quit(u) ==
  LET s == Home[u]
  IN  /\ u \in online[s]
      /\ online' = [online EXCEPT ![s] = @ \ {u}]
      /\ chan' = [e \in Pairs |-> IF e[1] = s THEN Append(chan[e], [k |-> "quit", u |-> u]) ELSE chan[e]]
      /\ UNCHANGED <<reqs, got, asked, accepted>>

Init ==
  /\ chan = [e \in Pairs |-> <<>>]
  /\ online = [s \in Servers |-> Users]
  /\ reqs = <<>> /\ got = [u \in Users |-> <<>>]
  /\ asked = [u \in Users |-> {}] /\ accepted = {}

Next ==
  \/ \E u, t \in Users : Direct(u, t) \/ \E a \in {<<n>> : n \in Args} \cup {NoArg} : Browse(u, t, a)
  \/ \E t \in Users, i \in Ids : DirectOk(t, i)
  \/ \E e \in Pairs : Receive(e[2], e[1])
  \/ \E u \in Users : Quit(u)

Spec == Init /\ [][Next]_vars

-----------------------------------------------------------------------------
Replies(u, i, r) == {j \in DOMAIN got[u] : got[u][j].id = i /\ got[u][j].r = r}

(* Nothing reaches a client about a browse after that browse's          *)
(* end-of-list, which arrives at most once: the results and the end are *)
(* queued in order on one route (send_user, encapsulated), whatever      *)
(* relays and sign-offs interleave.                                      *)
EndIsLast ==
  \A u \in Users : \A j, n \in DOMAIN got[u] :
    j < n /\ got[u][j].id = got[u][n].id => got[u][j].r # "end"

(* A browse that gives a positive <max> gets at most that many results,  *)
(* on this server or through relays that recompute the limit.           *)
ResultsWithinMax ==
  \A i \in DOMAIN reqs :
    reqs[i].k = "browse" /\ reqs[i].arg # NoArg /\ reqs[i].arg[1] > 0
      => Cardinality(Replies(reqs[i].from, i, "resp")) <= reqs[i].arg[1]

(* Once every link is drained, each request of a client still online has *)
(* been answered: a browse with its end-of-list ("always terminate the    *)
(* list", browse.c 75), a direct browse by reaching its target or with an *)
(* error to the requester.                                               *)
Quiet == \A e \in Pairs : chan[e] = <<>>
Answered(i) ==
  LET u == reqs[i].from
  IN  IF reqs[i].k = "browse" THEN Replies(u, i, "end") # {}
      ELSE i \in asked[reqs[i].to] \/ Replies(u, i, "err") # {} \/ Replies(u, i, "nosuch") # {}
BrowseAnswered ==
  Quiet => \A i \in DOMAIN reqs : reqs[i].from \in online[Home[reqs[i].from]] => Answered(i)
==============================================================================
