------------------------------- MODULE Search -------------------------------
(***************************************************************************)
(* Distributed search across linked servers (search.c, with the           *)
(* cancel_search call of remove_connection.c).  A search a local user     *)
(* issues, or a remote search a peer relays, that the local files do not  *)
(* satisfy is kept in Remote_Search as a DSEARCH entry and relayed to     *)
(* every other linked server; the entry waits for one                     *)
(* REMOTE_SEARCH_END per server it was sent to (count against             *)
(* numServers) before it ends the search towards where it came from: a    *)
(* SEARCH_END to the user, or a REMOTE_SEARCH_END to the peer.  A link    *)
(* that goes away cancels entries, and expire_searches ends the old ones. *)
(*                                                                         *)
(* Links form a tree (pass_message relays to every other link, so a       *)
(* cycle would loop).  A link breaks at once for both ends, and each end  *)
(* notices on its own later (remove_connection).  Messages on a link are  *)
(* FIFO; what is sent on a broken link is lost.  Search results travel    *)
(* the same way as the ends but change no search state, and are left out; *)
(* whether the local files satisfy a search is a nondeterministic choice. *)
(* Whether a relayed search's user is known (hash_lookup of Users) is     *)
(* whether the user's server is reachable over registered links, which   *)
(* the login and quit relays keep the user table in step with.            *)
(***************************************************************************)
EXTENDS Naturals, FiniteSets, Sequences, SequencesExt, Graphs

CONSTANTS
  Servers,      \* the servers (model values)
  Topology,     \* the links that may exist, as 2-element sets: a tree
  Users,        \* the users (model values)
  Home,         \* Home[u]: the server user u is connected to
  Max_Searches, \* pending searches a user may have
  MaxIds,       \* bound: searches issued in one behaviour
  MaxSplits     \* bound: link splits in one behaviour

VARIABLES
  links,        \* the links that carry bytes
  srv,          \* srv[s]: the peers on s's Servers list
  chan,         \* chan[<<s, p>>]: messages from s to p, in order
  pending,      \* pending[s]: Remote_Search of s, oldest first
  searches,     \* searches[u]: con->uopt->searches of u
  online,       \* online[u]: u's connection exists
  nextId,       \* search ids issued so far (generate_search_id)
  splits,       \* link splits so far
  early         \* ids ended towards the requester while a server that
                \* was sent the search had still to answer (history)

vars == <<links, srv, chan, pending, searches, online, nextId, splits, early>>

Ids == 1..MaxIds
Pairs == {<<s, p>> : s, p \in Servers}
Msg == [k : {"search"}, id : Ids, nick : Users] \cup [k : {"end", "result"}, id : Ids]

(* A DSEARCH entry; "asked" is history: the servers it was sent to that  *)
(* have neither answered nor gone away.                                  *)
Entry == [con : Servers \cup Users, id : Ids, count : Int,
          numServers : Int, asked : SUBSET Servers]

Up(s, p) == {s, p} \in links

(* Users reachable from s over registered links. *)
Known(s, u) ==
  LET G == [node |-> Servers, edge |-> {<<x, y>> \in Servers \X Servers : y \in srv[x]}]
  IN  online[u] /\ ConnectionsIn(G)[s, Home[u]]

(* queue_data of msg on s's link to p: lost when the link is broken. *)
Send(c, s, p, msg) ==
  IF Up(s, p) THEN [c EXCEPT ![<<s, p>>] = Append(@, msg)] ELSE c

(* search_end of the entries es at s, in order (search.c 45-62): a user  *)
(* gets SEARCH_END and its pending count goes down (never below 0), a    *)
(* server gets REMOTE_SEARCH_END with the id.                             *)
AckChan(c, s, es) ==
  FoldLeft(LAMBDA cc, d : IF d.con \in Users THEN cc
                          ELSE Send(cc, s, d.con, [k |-> "end", id |-> d.id]),
           c, es)

AckSearches(sr, es) ==
  [u \in Users |->
     LET n == Cardinality({i \in DOMAIN es : es[i].con = u})
     IN  IF sr[u] - n < 0 THEN 0 ELSE sr[u] - n]

(* Ids of entries es ended by their reply count while still waiting. *)
EarlyIds(es) == {es[i].id : i \in {i \in DOMAIN es : es[i].asked # {}}}

TypeOK ==
  /\ links \subseteq Topology
  /\ srv \in [Servers -> SUBSET Servers]
  /\ chan \in [Pairs -> Seq(Msg)]
  /\ pending \in [Servers -> Seq(Entry)]
  /\ searches \in [Users -> Nat] /\ online \in [Users -> BOOLEAN]
  /\ nextId \in 0..MaxIds /\ splits \in 0..MaxSplits /\ early \subseteq Ids

Init ==
  /\ links = Topology
  /\ srv = [s \in Servers |-> {p \in Servers : {s, p} \in Topology}]
  /\ chan = [e \in Pairs |-> <<>>]
  /\ pending = [s \in Servers |-> <<>>]
  /\ searches = [u \in Users |-> 0]
  /\ online = [u \in Users |-> TRUE]
  /\ nextId = 0 /\ splits = 0 /\ early = {}

-----------------------------------------------------------------------------
(* Mutant: unlink_search is always called with send_ack 0. *)
CancelNoAck(es, con, isServer) ==
  FoldLeft(LAMBDA a, d :
             LET d1 == IF isServer
                       THEN [d EXCEPT !.numServers = @ - 1, !.asked = @ \ {con}]
                       ELSE d
             IN  IF d1.con = con \/ d1.count >= d1.numServers
                 THEN a
                 ELSE [a EXCEPT !.keep = Append(@, d1)],
           [keep |-> <<>>, acks |-> <<>>], es)

(* Mutant: only the entries that came from con are unlinked. *)
CancelOwnOnly(es, con, isServer) ==
  FoldLeft(LAMBDA a, d :
             LET d1 == IF isServer
                       THEN [d EXCEPT !.numServers = @ - 1, !.asked = @ \ {con}]
                       ELSE d
             IN  IF d1.con = con
                 THEN a
                 ELSE [a EXCEPT !.keep = Append(@, d1)],
           [keep |-> <<>>, acks |-> <<>>], es)

(* cancel_search (search.c 1159-1182) at a server, for a connection con  *)
(* that is going away: each entry, in list order, expects one reply less *)
(* when con is a server; an entry that came from con is dropped without  *)
(* an answer, and one whose count has reached numServers is ended.  The  *)
(* result: the entries kept and those ended towards their requester.     *)
Cancel(es, con, isServer) ==
  FoldLeft(LAMBDA a, d :
             LET d1 == IF isServer
                       THEN [d EXCEPT !.numServers = @ - 1, !.asked = @ \ {con}]
                       ELSE d
             IN  IF d1.con = con \/ d1.count >= d1.numServers
                 THEN [a EXCEPT !.acks = IF d1.con # con THEN Append(@, d1) ELSE @]
                 ELSE [a EXCEPT !.keep = Append(@, d1)],
           [keep |-> <<>>, acks |-> <<>>], es)

(* find_search (search.c 969-982): the index of the first entry of s    *)
(* with the id, 0 when there is none.                                     *)
FindSearch(s, id) == SelectInSeq(pending[s], LAMBDA d : d.id = id)

(* The replies an entry waits for: one per server on the Servers list,   *)
(* less the one the search came from (dsearch_alloc, search.c 146-152).  *)
NumServers(s, con) == Cardinality(srv[s]) - (IF con \in Servers THEN 1 ELSE 0)

(* dsearch_alloc (search.c 102-172): the DSEARCH entry for a search from *)
(* con, which pass_message_args relays to every linked server but con.   *)
DsearchAlloc(s, con, id) ==
  [con |-> con, id |-> id, count |-> 0,
   numServers |-> NumServers(s, con), asked |-> srv[s] \ {con}]

(* Mutant: the relay goes to every linked server, con included. *)
SearchInternalNoExcept(s, con, id, nick, fwd, c0, sr) ==
  IF fwd /\ NumServers(s, con) > 0
    THEN /\ pending' = [pending EXCEPT ![s] = Append(@, DsearchAlloc(s, con, id))]
         /\ chan' = FoldSet(LAMBDA q, c : Send(c, s, q, [k |-> "search", id |-> id, nick |-> nick]),
                            c0, srv[s])
         /\ searches' = sr
    ELSE /\ chan' = AckChan(c0, s, <<[con |-> con, id |-> id]>>)
         /\ searches' = AckSearches(sr, <<[con |-> con, id |-> id]>>)
         /\ UNCHANGED pending

(* search_internal (search.c 704-918) at s for a search from con: fwd is *)
(* whether the request is valid, not local_only, and the local files     *)
(* (fdb_search) gave fewer than max_results; then, when a server is left *)
(* to ask, dsearch_alloc keeps an entry and relays the search.  Otherwise *)
(* search_end answers con at once (search.c 45-63): SEARCH_END to a user, *)
(* whose pending count goes down, or REMOTE_SEARCH_END to a server.  sr  *)
(* is the users' pending counts as the caller left them.                 *)
SearchInternal(s, con, id, nick, fwd, c0, sr) ==
  IF fwd /\ NumServers(s, con) > 0
    THEN /\ pending' = [pending EXCEPT ![s] = Append(@, DsearchAlloc(s, con, id))]
         /\ chan' = FoldSet(LAMBDA q, c : Send(c, s, q, [k |-> "search", id |-> id, nick |-> nick]),
                            c0, srv[s] \ {con})
         /\ searches' = sr
    ELSE /\ chan' = AckChan(c0, s, <<[con |-> con, id |-> id]>>)
         /\ searches' = AckSearches(sr, <<[con |-> con, id |-> id]>>)
         /\ UNCHANGED pending

(* The search handler (search.c 920-965) for user u: refused at the      *)
(* Max_Searches limit, otherwise counted and passed to search_internal,  *)
(* which takes a new id (generate_search_id) when it relays the search.  *)
UserSearch(u, fwd) ==
  LET s  == Home[u]
      id == nextId + 1
  IN  /\ online[u] /\ nextId < MaxIds
      /\ searches[u] < Max_Searches
      /\ SearchInternal(s, u, id, u, fwd, chan, [searches EXCEPT ![u] = @ + 1])
      /\ nextId' = IF fwd /\ NumServers(s, u) > 0 THEN id ELSE nextId
      /\ UNCHANGED <<links, srv, online, splits, early>>

(* remote_search (search.c 984-1035) at s of a search relayed by p: a    *)
(* search for a user s does not know is answered with REMOTE_SEARCH_END  *)
(* at once; otherwise search_internal runs, and the local files may have *)
(* a match (hit), which fdb_search sends back to p as a                  *)
(* REMOTE_SEARCH_RESULT before anything else.                            *)
RemoteSearch(s, p, fwd, hit) ==
  LET m  == Head(chan[<<p, s>>])
      c0 == [chan EXCEPT ![<<p, s>>] = Tail(@)]
  IN  /\ chan[<<p, s>>] # <<>> /\ m.k = "search"
      /\ IF Known(s, m.nick)
           THEN SearchInternal(s, p, m.id, m.nick, fwd,
                               IF hit THEN Send(c0, s, p, [k |-> "result", id |-> m.id])
                                      ELSE c0,
                               searches)
           ELSE /\ chan' = Send(c0, s, p, [k |-> "end", id |-> m.id])
                /\ UNCHANGED <<pending, searches>>
      /\ UNCHANGED <<links, srv, online, nextId, splits, early>>

(* remote_search_result (search.c 1037-1089) at s of a match from p: the *)
(* match of a search s has no entry for is logged and dropped; one for a *)
(* local user is delivered to it; one for a server's search is passed    *)
(* back to that server.                                                   *)
RemoteSearchResult(s, p) ==
  LET m == Head(chan[<<p, s>>])
      i == FindSearch(s, m.id)
      c0 == [chan EXCEPT ![<<p, s>>] = Tail(@)]
  IN  /\ chan[<<p, s>>] # <<>> /\ m.k = "result"
      /\ chan' = IF i # 0 /\ pending[s][i].con \in Servers
                    THEN Send(c0, s, pending[s][i].con, m)
                    ELSE c0
      /\ UNCHANGED <<links, srv, pending, searches, online, nextId, splits, early>>

(* remote_search_end (search.c 1121-1155) at s of an end from p: the     *)
(* first entry with the id counts one more reply, and is ended towards   *)
(* its requester once count equals numServers.  An unknown id is logged. *)
RemoteSearchEnd(s, p) ==
  LET m == Head(chan[<<p, s>>])
      i == FindSearch(s, m.id)
      d == [pending[s][i] EXCEPT !.count = @ + 1, !.asked = @ \ {p}]
      c0 == [chan EXCEPT ![<<p, s>>] = Tail(@)]
  IN  /\ chan[<<p, s>>] # <<>> /\ m.k = "end"
      /\ IF i = 0
           THEN chan' = c0 /\ UNCHANGED <<pending, searches, early>>
         ELSE IF d.count = d.numServers
           THEN /\ pending' = [pending EXCEPT ![s] = RemoveAt(@, i)]
                /\ chan' = AckChan(c0, s, <<d>>)
                /\ searches' = AckSearches(searches, <<d>>)
                /\ early' = early \cup EarlyIds(<<d>>)
           ELSE /\ pending' = [pending EXCEPT ![s][i] = d]
                /\ chan' = c0 /\ UNCHANGED <<searches, early>>
      /\ UNCHANGED <<links, srv, online, nextId, splits>>

(* A link breaks: whatever is in flight on it is lost. *)
Split(x, y) ==
  /\ {x, y} \in links /\ splits < MaxSplits
  /\ links' = links \ {{x, y}}
  /\ chan' = [chan EXCEPT ![<<x, y>>] = <<>>, ![<<y, x>>] = <<>>]
  /\ splits' = splits + 1
  /\ UNCHANGED <<srv, pending, searches, online, nextId, early>>

(* x notices that its link to y is gone: remove_connection               *)
(* (remove_connection.c 99-147) cancels the searches (cancel_search)     *)
(* before it takes y off Servers.                                        *)
Detect(x, y) ==
  LET r == Cancel(pending[x], y, TRUE)
  IN  /\ y \in srv[x] /\ {x, y} \notin links
      /\ pending' = [pending EXCEPT ![x] = r.keep]
      /\ chan' = AckChan(chan, x, r.acks)
      /\ searches' = AckSearches(searches, r.acks)
      /\ early' = early \cup EarlyIds(r.acks)
      /\ srv' = [srv EXCEPT ![x] = @ \ {y}]
      /\ UNCHANGED <<links, online, nextId, splits>>

(* Both ends have removed the broken link, and it is made again. *)
Relink(x, y) ==
  /\ {x, y} \in Topology \ links
  /\ y \notin srv[x] /\ x \notin srv[y]
  /\ links' = links \cup {{x, y}}
  /\ srv' = [srv EXCEPT ![x] = @ \cup {y}, ![y] = @ \cup {x}]
  /\ UNCHANGED <<chan, pending, searches, online, nextId, splits, early>>

(* A user's connection goes away: cancel_search drops its entries        *)
(* without an answer.                                                     *)
UserQuit(u) ==
  LET s == Home[u]
      r == Cancel(pending[s], u, FALSE)
  IN  /\ online[u]
      /\ online' = [online EXCEPT ![u] = FALSE]
      /\ pending' = [pending EXCEPT ![s] = r.keep]
      /\ chan' = AckChan(chan, s, r.acks)
      /\ searches' = AckSearches(searches, r.acks)
      /\ UNCHANGED <<links, srv, nextId, splits, early>>

(* expire_searches (search.c 1184-1205), called from the main loop: the  *)
(* k oldest entries have reached Search_Timeout and are ended.            *)
ExpireSearches(s, k) ==
  LET es == SubSeq(pending[s], 1, k)
  IN  /\ k \in 1..Len(pending[s])
      /\ pending' = [pending EXCEPT ![s] = SubSeq(@, k + 1, Len(@))]
      /\ chan' = AckChan(chan, s, es)
      /\ searches' = AckSearches(searches, es)
      /\ UNCHANGED <<links, srv, online, nextId, splits, early>>

Next ==
  \/ \E u \in Users : (\E fwd \in BOOLEAN : UserSearch(u, fwd)) \/ UserQuit(u)
  \/ \E s, p \in Servers :
        \/ \E fwd, hit \in BOOLEAN : RemoteSearch(s, p, fwd, hit)
        \/ RemoteSearchEnd(s, p) \/ RemoteSearchResult(s, p)
        \/ Split(s, p) \/ Detect(s, p) \/ Relink(s, p)
  \/ \E s \in Servers, k \in 1..MaxIds : ExpireSearches(s, k)

(* Every message that reaches a server is eventually handled, and every  *)
(* end of a broken link eventually sees EOF.  Nothing forces a timeout:  *)
(* the properties hold without expire_searches.                          *)
Fairness ==
  \A s, p \in Servers :
     /\ WF_vars(\E fwd, hit \in BOOLEAN : RemoteSearch(s, p, fwd, hit))
     /\ WF_vars(RemoteSearchEnd(s, p)) /\ WF_vars(RemoteSearchResult(s, p))
     /\ WF_vars(Detect(s, p))

Spec == Init /\ [][Next]_vars /\ Fairness

-----------------------------------------------------------------------------
(* A user's count of pending searches, which the search handler checks   *)
(* against Max_Searches, is the number of its entries in Remote_Search:  *)
(* every way an entry ends (all replies, a link split, a timeout) sends  *)
(* the SEARCH_END that takes it off.                                      *)
SearchesCounted ==
  \A u \in Users :
     online[u] =>
       searches[u] = Cardinality({i \in DOMAIN pending[Home[u]] :
                                    pending[Home[u]][i].con = u})

(* Every search entry is eventually ended or dropped, at every server,   *)
(* even when no search ever times out: replies and link splits alone     *)
(* bring numServers and count together.  As the searches a behaviour     *)
(* issues are bounded, this is Remote_Search of every server draining    *)
(* for good.                                                              *)
SearchEnds == <>[](\A s \in Servers : pending[s] = <<>>)

(* A search is ended towards its requester, other than by timeout, only  *)
(* when every server it was relayed to has answered or gone away: the    *)
(* DSEARCH comment says numServers is how many servers were connected    *)
(* when the search was issued.                                            *)
NoEarlyEnd == early = {}

(* A match is never passed back to the server it came from: no match is  *)
(* on its way from p to s for a search that s keeps on p's behalf, which *)
(* is what the ASSERT (con != search->con) of remote_search_result        *)
(* (search.c 1084-1085) relies on.  It takes pass_message leaving out the *)
(* server a search came from, and ids that name one search.               *)
ResultsNotBounced ==
  \A s, p \in Servers :
     \A j \in DOMAIN chan[<<p, s>>] :
        chan[<<p, s>>][j].k = "result" =>
          \A i \in DOMAIN pending[s] :
             pending[s][i].id = chan[<<p, s>>][j].id => pending[s][i].con # p
==============================================================================
