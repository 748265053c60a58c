----------------------------- MODULE PollTable -----------------------------
(***************************************************************************)
(* The poll table of the server's main loop (main.c, HAVE_POLL): the     *)
(* array global.poll of pollfd slots, of which the first poll_num are in *)
(* use and poll_max are allocated, the map global.fdmap from a            *)
(* descriptor to its slot (-1 for none) sized by global.max_fd, and the   *)
(* connection array global.clients, in which con->id is a connection's    *)
(* index.  Both arrays keep their used part dense: removing an entry     *)
(* moves the last one into the hole.                                      *)
(*                                                                         *)
(* A connection is known by its descriptor.  The kernel gives a new       *)
(* socket the lowest descriptor not open; a descriptor stays open from    *)
(* destroy_connection (remove_fd) until reap_dead_connection closes it.   *)
(* revents, which poll() fills in, is left out.                           *)
(***************************************************************************)
EXTENDS Integers, Sequences, FiniteSets, SequencesExt

CONSTANTS
  Fds,      \* the descriptor numbers, 0..n
  Listen,   \* the listening sockets (args), open from the start
  Click     \* CLICK: the step the poll array grows by

Events == {"in", "out"}

VARIABLES
  fdmap,    \* global.fdmap, over 0..max_fd
  maxFd,    \* global.max_fd
  poll,     \* global.poll, over 0..poll_max-1: [fd, events]
  pollNum,  \* global.poll_num
  clients,  \* global.clients[0..clients_num-1], as descriptors
  cid,      \* cid[fd]: con->id of the connection on fd
  open      \* the descriptors the process has open

vars == <<fdmap, maxFd, poll, pollNum, clients, cid, open>>

Unused == [fd |-> -1, events |-> {}]
PollMax == Cardinality(DOMAIN poll)
MaxOf(S) == CHOOSE x \in S : \A y \in S : y <= x
MinOf(S) == CHOOSE x \in S : \A y \in S : x <= y

(* The descriptors with a slot. *)
Registered == {fd \in 0..maxFd : fdmap[fd] # -1}

TypeOK ==
  /\ maxFd \in Fds /\ fdmap \in [0..maxFd -> -1..Cardinality(Fds)]
  /\ poll \in [0..(PollMax - 1) -> [fd : Fds \cup {-1}, events : SUBSET Events]]
  /\ pollNum \in 0..PollMax
  /\ clients \in Seq(Fds) /\ cid \in [Fds -> Nat] /\ open \subseteq Fds

(* The rank of a listening socket among them. *)
Rank(l) == Cardinality({k \in Listen : k < l})

(* main (main.c 959-982): poll_max = max_fd + 1 slots, all unused, and   *)
(* fdmap -1 up to max_fd; then each listening socket takes the next slot *)
(* waiting for input, in the order args opened them, here ascending.     *)
Init ==
  /\ maxFd = MaxOf(Listen)
  /\ fdmap = [x \in 0..MaxOf(Listen) |-> IF x \in Listen THEN Rank(x) ELSE -1]
  /\ poll = [i \in 0..MaxOf(Listen) |->
              IF i < Cardinality(Listen)
              THEN [fd |-> CHOOSE l \in Listen : Rank(l) = i, events |-> {"in"}]
              ELSE Unused]
  /\ pollNum = Cardinality(Listen)
  /\ clients = <<>> /\ cid = [fd \in Fds |-> 0]
  /\ open = Listen

-----------------------------------------------------------------------------
(* add_fd (main.c 185-227): a full poll array grows by CLICK unused      *)
(* slots; a descriptor above max_fd grows fdmap with -1 up to it; fd     *)
(* takes the next slot, waiting for nothing.  The result as a record.    *)
AddFd(fd) ==
  LET p1 == IF PollMax = pollNum
            THEN [i \in 0..(PollMax + Click - 1) |-> IF i < PollMax THEN poll[i] ELSE Unused]
            ELSE poll
      m1 == IF fd > maxFd THEN fd ELSE maxFd
      f1 == [x \in 0..m1 |-> IF x <= maxFd THEN fdmap[x] ELSE -1]
  IN  [fdmap |-> [f1 EXCEPT ![fd] = pollNum], maxFd |-> m1,
       poll |-> [p1 EXCEPT ![pollNum] = [fd |-> fd, events |-> {}]],
       pollNum |-> pollNum + 1]

(* set_write or set_read (main.c 143-171) on slot off of the poll array  *)
(* p.                                                                     *)
SetEv(p, off, e) == [p EXCEPT ![off].events = @ \cup {e}]

(* add_client (main.c 269-305) for the new socket of accept_connection   *)
(* (main.c 423-503) or of try_connect (server_connect.c 22-79): the      *)
(* lowest descriptor not open, appended to clients with its index as id, *)
(* added to the poll table, and waiting for input, or, for a server link *)
(* being connected, for the socket to become writable.                   *)
AddClient(isServer) ==
  LET fd == MinOf(Fds \ open)
      r  == AddFd(fd)
  IN  /\ open # Fds
      /\ open' = open \cup {fd}
      /\ clients' = Append(clients, fd)
      /\ cid' = [cid EXCEPT ![fd] = Len(clients)]
      /\ fdmap' = r.fdmap /\ maxFd' = r.maxFd /\ pollNum' = r.pollNum
      /\ poll' = SetEv(r.poll, r.fdmap[fd], IF isServer THEN "out" ELSE "in")

(* A connection's descriptor is in the poll table while it is live. *)
Live == {fd \in Registered : \E i \in DOMAIN clients : clients[i] = fd}

(* The main loop and the handlers turn the events of a live connection   *)
(* on and off: set_write when output is queued, clear_write when it has  *)
(* been sent or a connect completed, clear_read and set_read around       *)
(* flood suspension (main.c 143-181).                                     *)
SetWrite(fd) ==
  /\ fd \in Live
  /\ poll' = [poll EXCEPT ![fdmap[fd]].events = @ \cup {"out"}]
  /\ UNCHANGED <<fdmap, maxFd, pollNum, clients, cid, open>>

ClearWrite(fd) ==
  /\ fd \in Live
  /\ poll' = [poll EXCEPT ![fdmap[fd]].events = @ \ {"out"}]
  /\ UNCHANGED <<fdmap, maxFd, pollNum, clients, cid, open>>

SetRead(fd) ==
  /\ fd \in Live
  /\ poll' = [poll EXCEPT ![fdmap[fd]].events = @ \cup {"in"}]
  /\ UNCHANGED <<fdmap, maxFd, pollNum, clients, cid, open>>

ClearRead(fd) ==
  /\ fd \in Live
  /\ poll' = [poll EXCEPT ![fdmap[fd]].events = @ \ {"in"}]
  /\ UNCHANGED <<fdmap, maxFd, pollNum, clients, cid, open>>

(* Mutant: the slot moved into the hole keeps its descriptor but not its *)
(* events.                                                                *)
RemoveFdNoEvents(fd) ==
  LET off  == fdmap[fd]
      last == poll[pollNum - 1].fd
      p1   == IF off < pollNum - 1 THEN [poll EXCEPT ![off] = [fd |-> last, events |-> {}]] ELSE poll
      f1   == IF off < pollNum - 1 THEN [fdmap EXCEPT ![last] = off] ELSE fdmap
  IN  /\ fd \in Live
      /\ fdmap' = [f1 EXCEPT ![fd] = -1]
      /\ pollNum' = pollNum - 1
      /\ poll' = [p1 EXCEPT ![pollNum - 1] = Unused]
      /\ UNCHANGED <<maxFd, clients, cid, open>>

(* Mutant: the moved descriptor's fdmap entry is not updated. *)
RemoveFdNoRemap(fd) ==
  LET off  == fdmap[fd]
      p1   == IF off < pollNum - 1 THEN [poll EXCEPT ![off] = poll[pollNum - 1]] ELSE poll
  IN  /\ fd \in Live
      /\ fdmap' = [fdmap EXCEPT ![fd] = -1]
      /\ pollNum' = pollNum - 1
      /\ poll' = [p1 EXCEPT ![pollNum - 1] = Unused]
      /\ UNCHANGED <<maxFd, clients, cid, open>>

(* remove_fd (main.c 229-267), which destroy_connection (main.c 746-793) *)
(* calls for a live connection: unless fd has the last slot in use, the  *)
(* last slot is copied into fd's and its descriptor's fdmap entry moved; *)
(* fd's entry becomes -1 and the last slot in use is reset.              *)
RemoveFd(fd) ==
  LET off  == fdmap[fd]
      last == poll[pollNum - 1].fd
      p1   == IF off < pollNum - 1 THEN [poll EXCEPT ![off] = poll[pollNum - 1]] ELSE poll
      f1   == IF off < pollNum - 1 THEN [fdmap EXCEPT ![last] = off] ELSE fdmap
  IN  /\ fd \in Live
      /\ fdmap' = [f1 EXCEPT ![fd] = -1]
      /\ pollNum' = pollNum - 1
      /\ poll' = [p1 EXCEPT ![pollNum - 1] = Unused]
      /\ UNCHANGED <<maxFd, clients, cid, open>>

(* Mutant: the connection moved into the hole keeps its old id. *)
ReapNoId(fd) ==
  LET id   == cid[fd]
      last == clients[Len(clients)]
  IN  /\ fd \in Range(clients) /\ fd \notin Registered
      /\ clients' = IF id < Len(clients) - 1
                     THEN Front([clients EXCEPT ![id + 1] = last]) ELSE Front(clients)
      /\ open' = open \ {fd}
      /\ UNCHANGED <<fdmap, maxFd, poll, pollNum, cid>>

(* reap_dead_connection (main.c 796-845) of a destroyed connection: its  *)
(* descriptor has no slot; unless it is the last connection, the last    *)
(* one moves into its place and takes its id; the descriptor is closed.  *)
Reap(fd) ==
  LET id   == cid[fd]
      last == clients[Len(clients)]
  IN  /\ fd \in Range(clients) /\ fd \notin Registered
      /\ clients' = IF id < Len(clients) - 1
                     THEN Front([clients EXCEPT ![id + 1] = last]) ELSE Front(clients)
      /\ cid' = IF id < Len(clients) - 1 THEN [cid EXCEPT ![last] = id] ELSE cid
      /\ open' = open \ {fd}
      /\ UNCHANGED <<fdmap, maxFd, poll, pollNum>>

Next ==
  \/ \E isServer \in BOOLEAN : AddClient(isServer)
  \/ \E fd \in Fds : \/ SetWrite(fd) \/ ClearWrite(fd) \/ SetRead(fd) \/ ClearRead(fd)
                    \/ RemoveFd(fd) \/ Reap(fd)

Spec == Init /\ [][Next]_vars

-----------------------------------------------------------------------------
(* The check main runs before every poll() when built with DEBUG         *)
(* (main.c 1028-1041): each slot in use holds a descriptor whose fdmap   *)
(* entry is that slot, and every slot past poll_num is reset.  Here also *)
(* the converse: a descriptor's fdmap entry, when not -1, is a slot in   *)
(* use that holds it, which set_read and the others rely on.             *)
PollKosher ==
  /\ \A i \in 0..(pollNum - 1) : poll[i].fd # -1 /\ fdmap[poll[i].fd] = i
  /\ \A i \in pollNum..(PollMax - 1) : poll[i] = Unused
  /\ \A fd \in Registered : fdmap[fd] < pollNum /\ poll[fdmap[fd]].fd = fd

(* Every connection's id is its index in global.clients, which           *)
(* handle_connection and reap_dead_connection index by, however          *)
(* connections were added and reaped.                                     *)
ClientsIndexed == \A i \in DOMAIN clients : cid[clients[i]] = i - 1

(* The poll table implements PollInterest: removing one descriptor, and  *)
(* the slot moves that come with it, never change what another           *)
(* descriptor waits for.                                                  *)
PI == INSTANCE PollInterest WITH interest <- [fd \in Registered |-> poll[fdmap[fd]].events],
                                 Start <- [l \in Listen |-> {"in"}]

ImplementsInterest == PI!Spec
==============================================================================
