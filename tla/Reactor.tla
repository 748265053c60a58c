------------------------------ MODULE Reactor ------------------------------
(***************************************************************************)
(* The opennap main event loop (main.c, main) and the connection life     *)
(* cycle it drives: poll, the pre-read of server links, the per-client    *)
(* loop (hang-up, handle_connection, login timeout), accept, flood_expire *)
(* and reap_connections, with destroy_connection deferring every close to *)
(* the reap at the end of the iteration.  Dispatch (handler.c,            *)
(* dispatch_command) is modelled down to its flood-control accounting and *)
(* to what the handlers do to connection life cycles: login promotes an   *)
(* unregistered connection, kill/disconnect destroys a connection, a      *)
(* rejected login destroys its own connection.                            *)
(*                                                                         *)
(* Frames are abstracted to the kind of handler they reach; the byte-level *)
(* framing is the subject of the FrameReader module.  Time is kept as the *)
(* age of each timestamp, capped just past the bound it is compared with, *)
(* so the clock is unbounded while the state space is not.                *)
(***************************************************************************)
EXTENDS Integers, Sequences, SequencesExt, FiniteSets

CONSTANTS
  Conns,          \* connection slots (entries of global.clients[])
  Frames,         \* the frame kinds peers may send, a subset of Kinds
  FloodCommands,  \* Flood_Commands
  FloodTime,      \* Flood_Time in seconds; > 0 enables flood control
  LoginTimeout,   \* Login_Timeout in seconds
  MaxSends        \* bound: frames a peer sends over one connection

(* Frame kinds, each standing for the tags whose handlers act alike:      *)
(*  login  MSG_CLIENT_LOGIN (2), allow-listed for unregistered links      *)
(*  slogin MSG_SERVER_LOGIN (10010), allow-listed                         *)
(*  plain  a NORMAL table entry with no life-cycle effect (privmsg, 205)  *)
(*  exempt an EXEMPT table entry (add_file, 100)                          *)
(*  kill   MSG_CLIENT_KILL (610) / MSG_CLIENT_DISCONNECT (10101): the     *)
(*         handler destroys a user or server connection                   *)
(*  bogus  a tag that is not in Protocol[]                                *)
Kinds == {"login", "slogin", "plain", "exempt", "kill", "bogus"}

ASSUME Frames \subseteq Kinds
ASSUME FloodCommands \in Nat \ {0} /\ FloodTime \in Nat \ {0}
ASSUME LoginTimeout \in Nat /\ MaxSends \in Nat

Classes == {"free", "unknown", "user", "server"}
Phases  == {"poll", "servers", "clients", "timeout", "accept", "expire", "reap"}
NoConn  == "none"

VARIABLES
  cls,        \* con->class, "free" once the slot is reaped
  destroy,    \* con->destroy
  Destroy,    \* the Destroy list (list_push adds at the head)
  numReaped,  \* num_reaped
  polled,     \* the fd has an entry in global.poll[] (fdmap[fd] != -1)
  readI,      \* POLLIN is set in the fd's poll events
  strayBits,  \* set_read wrote POLLIN through fdmap[fd] = -1
  Flooders,   \* the Flooders list
  floodAge,   \* now - con->flood_start, capped at FloodTime + 1
  floodCmds,  \* con->flood_commands
  loginAge,   \* now - con->timer, capped at LoginTimeout + 1
  inbox,      \* complete frames the peer has sent and the server not read
  sent,       \* frames the peer has sent on this connection
  hup,        \* the peer has closed or reset its end
  phase,      \* where the main loop is
  todo,       \* connections the current loop has still to visit
  cur,        \* connection whose handle_connection is in progress
  batch,      \* frames read from a server link still to be dispatched
  ready       \* revents returned by poll() for each connection

vars == <<cls, destroy, Destroy, numReaped, polled, readI, strayBits,
          Flooders, floodAge, floodCmds, loginAge, inbox, sent, hup,
          phase, todo, cur, batch, ready>>

Live(c)  == cls[c] # "free"
Cap(n, m) == IF n > m THEN m ELSE n
Ready(c, e) == polled[c] /\ e \in ready[c]

TypeOK ==
  /\ cls \in [Conns -> Classes]
  /\ destroy \in [Conns -> BOOLEAN]
  /\ Destroy \in Seq(Conns)
  /\ numReaped \in Nat
  /\ polled \in [Conns -> BOOLEAN] /\ readI \in [Conns -> BOOLEAN]
  /\ strayBits \in BOOLEAN
  /\ Flooders \in Seq(Conns)
  /\ floodAge \in [Conns -> 0..FloodTime + 1]
  /\ floodCmds \in [Conns -> Nat]
  /\ loginAge \in [Conns -> 0..LoginTimeout + 1]
  /\ inbox \in [Conns -> Seq(Frames)]
  /\ sent \in [Conns -> 0..MaxSends]
  /\ hup \in [Conns -> BOOLEAN]
  /\ phase \in Phases /\ todo \subseteq Conns
  /\ cur \in Conns \cup {NoConn} /\ batch \in Seq(Frames)
  /\ ready \in [Conns -> SUBSET {"in", "hup"}]

Init ==
  /\ cls = [c \in Conns |-> "free"]
  /\ destroy = [c \in Conns |-> FALSE]
  /\ Destroy = <<>> /\ numReaped = 0
  /\ polled = [c \in Conns |-> FALSE] /\ readI = [c \in Conns |-> FALSE]
  /\ strayBits = FALSE
  /\ Flooders = <<>>
  /\ floodAge = [c \in Conns |-> FloodTime + 1]
  /\ floodCmds = [c \in Conns |-> 0]
  /\ loginAge = [c \in Conns |-> 0]
  /\ inbox = [c \in Conns |-> <<>>] /\ sent = [c \in Conns |-> 0]
  /\ hup = [c \in Conns |-> FALSE]
  /\ phase = "poll" /\ todo = {} /\ cur = NoConn /\ batch = <<>>
  /\ ready = [c \in Conns |-> {}]

-----------------------------------------------------------------------------
(* Mutant: destroy_connection without its list_find on Destroy. *)
DestroyAndSuspendNoFind(D, Q) ==
  /\ destroy' = [t \in Conns |-> destroy[t] \/ t \in D]
  /\ Destroy' = SetToSeq(D) \o Destroy
  /\ numReaped' = numReaped + Cardinality(D)
  /\ polled' = [t \in Conns |-> polled[t] /\ t \notin D]
  /\ readI' = [t \in Conns |-> readI[t] /\ t \notin D \cup Q]

(* The effect of destroy_connection on every connection of D (main.c      *)
(* 746-793): a connection already marked is found on Destroy and left     *)
(* alone; any other is pushed on Destroy, counted in num_reaped, marked   *)
(* and removed from the poll set.  Q are connections whose POLLIN the     *)
(* same step clears (clear_read of a flooding user).                      *)
DestroyAndSuspend(D, Q) ==
  LET N == {t \in D : ~destroy[t]}
  IN  /\ destroy' = [t \in Conns |-> destroy[t] \/ t \in N]
      /\ Destroy' = SetToSeq(N) \o Destroy
      /\ numReaped' = numReaped + Cardinality(N)
      /\ polled' = [t \in Conns |-> polled[t] /\ t \notin N]
      /\ readI' = [t \in Conns |-> readI[t] /\ t \notin N \cup Q]

(* Tags an unregistered connection may send (handler.c 616-621). *)
Allowed == {"login", "slogin"}
Gated(c, k) == cls[c] = "unknown" /\ k \notin Allowed

(* Flood accounting applies to users, for table entries not flagged       *)
(* F_EXEMPT (handler.c 360); a window has expired when                    *)
(* flood_start + Flood_Time < current_time (handler.c 363).               *)
FloodControlled(c, k) == FloodTime > 0 /\ k \notin {"exempt", "bogus"} /\ cls[c] = "user"
Expired(c) == floodAge[c] > FloodTime
Suspends(c, k) ==
  FloodControlled(c, k) /\ ~Expired(c) /\ floodCmds[c] + 1 >= FloodCommands

(* A server link being promoted by server_login; that handler is not part *)
(* of the sources, its outcome is taken from the specification: the link *)
(* becomes a peer server or is rejected and closed.                      *)
SLoginOutcomes(c) ==
  {[cls |-> "server", kill |-> {}], [cls |-> "unknown", kill |-> {c}]}

(* What the handler reached by a frame of kind k does to connection life  *)
(* cycles.  login on an unregistered link either sets CLASS_USER         *)
(* (login.c 685) or fails and destroys the link (login.c 229-512); on a  *)
(* registered link it only answers.  kill_user and server_disconnect      *)
(* destroy a local user or server link, possibly the sender itself, or    *)
(* refuse (kill_user.c 131, server_connect.c 288-296).                   *)
Outcomes(c, k) ==
  CASE k = "login" /\ cls[c] = "unknown" ->
         {[cls |-> "user", kill |-> {}], [cls |-> "unknown", kill |-> {c}]}
    [] k = "slogin" /\ cls[c] = "unknown" -> SLoginOutcomes(c)
    [] k = "kill" ->
         {[cls |-> cls[c], kill |-> {t}] : t \in {u \in Conns : cls[u] \in {"user", "server"}}}
           \cup {[cls |-> cls[c], kill |-> {}]}
    [] OTHER -> {[cls |-> cls[c], kill |-> {}]}

(* Mutant: the suspended connection is not pushed on Flooders. *)
DispatchUntracked(c, k) ==
  LET fc  == FloodControlled(c, k)
      sus == Suspends(c, k)
  IN  /\ floodAge' = IF fc /\ Expired(c) THEN [floodAge EXCEPT ![c] = 0] ELSE floodAge
      /\ floodCmds' = IF fc THEN [floodCmds EXCEPT ![c] = IF Expired(c) THEN 0 ELSE @ + 1]
                            ELSE floodCmds
      /\ UNCHANGED Flooders
      /\ \E o \in Outcomes(c, k) :
           /\ cls' = [cls EXCEPT ![c] = o.cls]
           /\ DestroyAndSuspend(o.kill, IF sus THEN {c} ELSE {})

(* dispatch_command (handler.c 336-434): flood accounting, then the      *)
(* handler.  An unknown tag only draws an error reply.                    *)
Dispatch(c, k) ==
  LET fc  == FloodControlled(c, k)
      sus == Suspends(c, k)
  IN  /\ floodAge' = IF fc /\ Expired(c) THEN [floodAge EXCEPT ![c] = 0] ELSE floodAge
      /\ floodCmds' = IF fc THEN [floodCmds EXCEPT ![c] = IF Expired(c) THEN 0 ELSE @ + 1]
                            ELSE floodCmds
      /\ Flooders' = IF sus THEN <<c>> \o Flooders ELSE Flooders
      /\ \E o \in Outcomes(c, k) :
           /\ cls' = [cls EXCEPT ![c] = o.cls]
           /\ DestroyAndSuspend(o.kill, IF sus THEN {c} ELSE {})

NoDispatch == UNCHANGED <<cls, Flooders, floodAge, floodCmds>>

(* handle_connection for a user or unregistered link (handler.c 496-697): *)
(* one complete frame is read; an unregistered link sending a tag off the *)
(* allow-list gets an error and is destroyed (handler.c 616-641); a read  *)
(* returning 0 or a hard error destroys the link.                         *)
ReadClient(c) ==
  /\ UNCHANGED batch
  /\ \/ /\ inbox[c] # <<>>
        /\ inbox' = [inbox EXCEPT ![c] = Tail(@)]
        /\ IF Gated(c, Head(inbox[c]))
             THEN DestroyAndSuspend({c}, {}) /\ NoDispatch
             ELSE Dispatch(c, Head(inbox[c]))
     \/ /\ inbox[c] = <<>> /\ hup[c]
        /\ DestroyAndSuspend({c}, {}) /\ NoDispatch
        /\ UNCHANGED inbox

(* handle_connection for a server link (handler.c 444-495): everything    *)
(* available is read and decompressed, so any number of complete frames  *)
(* may be waiting; they are dispatched one after the other by             *)
(* DispatchNext.  A read reaching EOF or an error destroys the link and   *)
(* returns at once, dropping what was read before it.                     *)
ReadServer(c) ==
  \/ /\ inbox[c] # <<>>
     /\ \E n \in 1..Len(inbox[c]) :
          /\ batch' = SubSeq(inbox[c], 1, n)
          /\ inbox' = [inbox EXCEPT ![c] = SubSeq(@, n + 1, Len(@))]
     /\ UNCHANGED <<destroy, Destroy, numReaped, polled, readI>> /\ NoDispatch
  \/ /\ hup[c]
     /\ DestroyAndSuspend({c}, {}) /\ NoDispatch
     /\ UNCHANGED <<inbox, batch>>
  \/ /\ inbox[c] = <<>> /\ ~hup[c]       \* EWOULDBLOCK: the pre-read took it all
     /\ UNCHANGED <<destroy, Destroy, numReaped, polled, readI, inbox, batch>>
     /\ NoDispatch

NoRead == UNCHANGED <<destroy, Destroy, numReaped, polled, readI, inbox, batch>> /\ NoDispatch

-----------------------------------------------------------------------------
(* Mutant: the ages are not capped, the timestamps read as unbounded. *)
PollUncapped(d) ==
  /\ phase = "poll"
  /\ floodAge' = [c \in Conns |-> floodAge[c] + d]
  /\ loginAge' = [c \in Conns |-> loginAge[c] + d]
  /\ \E H \in SUBSET {c \in Conns : polled[c] /\ hup[c]} :
       ready' = [c \in Conns |->
                   (IF polled[c] /\ readI[c] /\ (inbox[c] # <<>> \/ hup[c])
                      THEN {"in"} ELSE {})
                   \cup (IF c \in H THEN {"hup"} ELSE {})]
  /\ phase' = "servers"
  /\ todo' = {c \in Conns : cls[c] = "server"}
  /\ UNCHANGED <<cls, destroy, Destroy, numReaped, polled, readI, strayBits,
                 Flooders, floodCmds, inbox, sent, hup, cur, batch>>

(* Top of the main loop (main.c 1017-1069): current_time advances by d   *)
(* seconds, poll() reports POLLIN for registered fds with data or EOF     *)
(* pending and POLLHUP/POLLERR for some of the fds whose peer is gone.    *)
Poll(d) ==
  /\ phase = "poll"
  /\ floodAge' = [c \in Conns |-> Cap(floodAge[c] + d, FloodTime + 1)]
  /\ loginAge' = [c \in Conns |-> Cap(loginAge[c] + d, LoginTimeout + 1)]
  /\ \E H \in SUBSET {c \in Conns : polled[c] /\ hup[c]} :
       ready' = [c \in Conns |->
                   (IF polled[c] /\ readI[c] /\ (inbox[c] # <<>> \/ hup[c])
                      THEN {"in"} ELSE {})
                   \cup (IF c \in H THEN {"hup"} ELSE {})]
  /\ phase' = "servers"
  /\ todo' = {c \in Conns : cls[c] = "server"}
  /\ UNCHANGED <<cls, destroy, Destroy, numReaped, polled, readI, strayBits,
                 Flooders, floodCmds, inbox, sent, hup, cur, batch>>

(* server_input over the Servers list (main.c 907-923, 1072-1078).  It    *)
(* does not look at con->destroy; a link destroyed earlier in this pass   *)
(* has left the poll set and reads as not ready.                          *)
ServerInput(c) ==
  /\ phase = "servers" /\ c \in todo /\ batch = <<>>
  /\ todo' = todo \ {c}
  /\ cur' = c
  /\ IF Ready(c, "in") THEN ReadServer(c) ELSE NoRead
  /\ UNCHANGED <<strayBits, loginAge, sent, hup, phase, ready>>

(* The loop of handle_connection over the frames of a server read        *)
(* (handler.c 601-685): nothing re-checks con->destroy between frames.    *)
DispatchNext ==
  /\ batch # <<>>
  /\ batch' = Tail(batch)
  /\ Dispatch(cur, Head(batch))
  /\ UNCHANGED <<strayBits, loginAge, inbox, sent, hup, phase, todo, cur, ready>>

EndServers ==
  /\ phase = "servers" /\ todo = {} /\ batch = <<>>
  /\ phase' = "clients"
  /\ todo' = {c \in Conns : Live(c)}
  /\ cur' = NoConn
  /\ UNCHANGED <<cls, destroy, Destroy, numReaped, polled, readI, strayBits,
                 Flooders, floodAge, floodCmds, loginAge, inbox, sent, hup,
                 batch, ready>>

(* Mutant: a hang-up is skipped over without destroy_connection. *)
ClientStepHupSkips(c) ==
  /\ phase = "clients" /\ c \in todo
  /\ todo' = todo \ {c}
  /\ \/ /\ Ready(c, "hup")
        /\ UNCHANGED <<destroy, Destroy, numReaped, polled, readI>>
        /\ UNCHANGED <<inbox, batch, phase, cur>> /\ NoDispatch
     \/ /\ ~Ready(c, "hup")
        /\ phase' = "timeout" /\ cur' = c
        /\ IF Ready(c, "in") /\ ~destroy[c]
             THEN IF cls[c] = "server" THEN ReadServer(c) ELSE ReadClient(c)
             ELSE NoRead
  /\ UNCHANGED <<strayBits, loginAge, sent, hup, ready>>

(* One pass of the client loop (main.c 1083-1143): a hang-up destroys the *)
(* connection and skips the rest; otherwise a readable connection that is *)
(* not marked is handled.                                                 *)
ClientStep(c) ==
  /\ phase = "clients" /\ c \in todo
  /\ todo' = todo \ {c}
  /\ \/ /\ Ready(c, "hup")
        /\ DestroyAndSuspend({c}, {})
        /\ UNCHANGED <<inbox, batch, phase, cur>> /\ NoDispatch
     \/ /\ ~Ready(c, "hup")
        /\ phase' = "timeout" /\ cur' = c
        /\ IF Ready(c, "in") /\ ~destroy[c]
             THEN IF cls[c] = "server" THEN ReadServer(c) ELSE ReadClient(c)
             ELSE NoRead
  /\ UNCHANGED <<strayBits, loginAge, sent, hup, ready>>

(* The login timeout at the end of the pass (main.c 1148-1157). *)
CheckLoginTimeout ==
  /\ phase = "timeout" /\ batch = <<>>
  /\ IF cls[cur] = "unknown" /\ loginAge[cur] > LoginTimeout
       THEN DestroyAndSuspend({cur}, {})
       ELSE UNCHANGED <<destroy, Destroy, numReaped, polled, readI>>
  /\ phase' = "clients" /\ cur' = NoConn
  /\ UNCHANGED <<cls, strayBits, Flooders, floodAge, floodCmds, loginAge,
                 inbox, sent, hup, todo, batch, ready>>

EndClients ==
  /\ phase = "clients" /\ todo = {}
  /\ phase' = "accept"
  /\ UNCHANGED <<cls, destroy, Destroy, numReaped, polled, readI, strayBits,
                 Flooders, floodAge, floodCmds, loginAge, inbox, sent, hup,
                 todo, cur, batch, ready>>

(* accept_connection and add_client (main.c 423-503, 269-304): a zeroed  *)
(* CONNECTION (flood_start = 0, so its window has long expired), class   *)
(* CLASS_UNKNOWN, login timer started, fd added to the poll set with      *)
(* POLLIN.                                                                *)
Accept(c) ==
  /\ phase = "accept" /\ cls[c] = "free"
  /\ cls' = [cls EXCEPT ![c] = "unknown"]
  /\ polled' = [polled EXCEPT ![c] = TRUE]
  /\ readI' = [readI EXCEPT ![c] = TRUE]
  /\ loginAge' = [loginAge EXCEPT ![c] = 0]
  /\ floodAge' = [floodAge EXCEPT ![c] = FloodTime + 1]
  /\ floodCmds' = [floodCmds EXCEPT ![c] = 0]
  /\ inbox' = [inbox EXCEPT ![c] = <<>>]
  /\ sent' = [sent EXCEPT ![c] = 0]
  /\ hup' = [hup EXCEPT ![c] = FALSE]
  /\ UNCHANGED <<destroy, Destroy, numReaped, strayBits, Flooders,
                 phase, todo, cur, batch, ready>>

EndAccept ==
  /\ phase = "accept"
  /\ phase' = "expire"
  /\ UNCHANGED <<cls, destroy, Destroy, numReaped, polled, readI, strayBits,
                 Flooders, floodAge, floodCmds, loginAge, inbox, sent, hup,
                 todo, cur, batch, ready>>

(* Mutant: flood_expire unlinks every entry it visits. *)
FloodExpireDropAll ==
  /\ phase = "expire"
  /\ LET E == {c \in ToSet(Flooders) : Expired(c)}
     IN  /\ readI' = [c \in Conns |-> readI[c] \/ (c \in E /\ polled[c])]
         /\ strayBits' = (strayBits \/ \E c \in E : ~polled[c])
  /\ Flooders' = <<>>
  /\ phase' = "reap"
  /\ UNCHANGED <<cls, destroy, Destroy, numReaped, polled, floodCmds, floodAge,
                 loginAge, inbox, sent, hup, todo, cur, batch, ready>>

(* flood_expire (main.c 862-882): every listed connection whose window   *)
(* has expired gets POLLIN back (set_read) and leaves the list.  set_read *)
(* indexes global.poll[] through fdmap[fd], which is -1 for an fd that    *)
(* destroy_connection has already removed.                               *)
FloodExpire ==
  /\ phase = "expire"
  /\ LET E == {c \in ToSet(Flooders) : Expired(c)}
     IN  /\ readI' = [c \in Conns |-> readI[c] \/ (c \in E /\ polled[c])]
         /\ strayBits' = (strayBits \/ \E c \in E : ~polled[c])
  /\ Flooders' = SelectSeq(Flooders, LAMBDA c : ~Expired(c))
  /\ phase' = "reap"
  /\ UNCHANGED <<cls, destroy, Destroy, numReaped, polled, floodAge, floodCmds,
                 loginAge, inbox, sent, hup, todo, cur, batch, ready>>

(* reap_connections and reap_dead_connection (main.c 795-860), the last   *)
(* step of the iteration: every connection on Destroy is closed, taken    *)
(* off Flooders by list_delete (first match only) and freed.              *)
Reap ==
  /\ phase = "reap"
  /\ LET R == ToSet(Destroy)
     IN  /\ cls' = [c \in Conns |-> IF c \in R THEN "free" ELSE cls[c]]
         /\ destroy' = [c \in Conns |-> destroy[c] /\ c \notin R]
         /\ inbox' = [c \in Conns |-> IF c \in R THEN <<>> ELSE inbox[c]]
  /\ Flooders' = FoldLeft(LAMBDA acc, c : RemoveFirst(acc, c), Flooders, Destroy)
  /\ numReaped' = numReaped - Len(Destroy)
  /\ Destroy' = <<>>
  /\ phase' = "poll"
  /\ UNCHANGED <<polled, readI, strayBits, floodAge, floodCmds, loginAge,
                 sent, hup, todo, cur, batch, ready>>

-----------------------------------------------------------------------------
(* Remote peers act concurrently with the loop: they send frames and      *)
(* close their end.  Their steps are taken while the loop waits in poll;  *)
(* a frame arriving later in an iteration is read by the same calls in    *)
(* the next one.                                                          *)
PeerSend(c, k) ==
  /\ phase = "poll"
  /\ Live(c) /\ ~destroy[c] /\ ~hup[c] /\ sent[c] < MaxSends
  /\ inbox' = [inbox EXCEPT ![c] = Append(@, k)]
  /\ sent' = [sent EXCEPT ![c] = @ + 1]
  /\ UNCHANGED <<cls, destroy, Destroy, numReaped, polled, readI, strayBits,
                 Flooders, floodAge, floodCmds, loginAge, hup, phase, todo,
                 cur, batch, ready>>

PeerClose(c) ==
  /\ phase = "poll"
  /\ Live(c) /\ ~destroy[c] /\ ~hup[c]
  /\ hup' = [hup EXCEPT ![c] = TRUE]
  /\ UNCHANGED <<cls, destroy, Destroy, numReaped, polled, readI, strayBits,
                 Flooders, floodAge, floodCmds, loginAge, inbox, sent, phase,
                 todo, cur, batch, ready>>

MaxJump == IF FloodTime > LoginTimeout THEN FloodTime + 1 ELSE LoginTimeout + 1

ReactorStep ==
  \/ \E d \in 0..MaxJump : Poll(d)
  \/ \E c \in Conns : ServerInput(c)
  \/ DispatchNext
  \/ EndServers
  \/ \E c \in Conns : ClientStep(c)
  \/ CheckLoginTimeout
  \/ EndClients
  \/ \E c \in Conns : Accept(c)
  \/ EndAccept
  \/ FloodExpire
  \/ Reap

PeerStep == \E c \in Conns : PeerClose(c) \/ \E k \in Frames : PeerSend(c, k)

Next == ReactorStep \/ PeerStep

(* The loop never blocks for good: poll() always has a timeout            *)
(* (next_timer, cut to Flood_Time while Flooders is not empty), so the    *)
(* loop is weakly fair; the wall clock read by time(0) keeps advancing,   *)
(* so a poll that finds a later time recurs (strong fairness, as it is    *)
(* enabled only at the top of each iteration).                           *)
Fairness ==
  /\ WF_vars(ReactorStep)
  /\ SF_vars(\E d \in 1..MaxJump : Poll(d))

Spec == Init /\ [][Next]_vars /\ Fairness

-----------------------------------------------------------------------------
(* destroy_connection is idempotent and the Destroy list is exact: a      *)
(* connection is marked iff it is on Destroy, it is there once, and        *)
(* num_reaped counts the list.  A connection listed twice would be        *)
(* reaped, closed and freed twice (main.c 847-860).                       *)
DestroyListConsistent ==
  /\ IsInjective(Destroy)
  /\ \A c \in Conns : destroy[c] <=> c \in ToSet(Destroy)
  /\ numReaped = Len(Destroy)

(* A connection the loop has stopped reading (clear_read in              *)
(* dispatch_command) is on Flooders, so flood_expire will resume it;      *)
(* Flooders lists a connection at most once (list_delete at reap removes  *)
(* only the first match) and never a freed one.                           *)
SuspendedIsTracked ==
  /\ IsInjective(Flooders)
  /\ \A c \in ToSet(Flooders) : Live(c)
  /\ \A c \in Conns : Live(c) /\ ~destroy[c] /\ ~readI[c] => c \in ToSet(Flooders)

(* A user suspended by flood control is eventually read from again, or   *)
(* is gone (flood_expire after the window, main.c 862-882).              *)
FloodResumes ==
  \A c \in Conns : (cls[c] = "user" /\ ~readI[c]) ~> (readI[c] \/ cls[c] = "free")

(* An unregistered connection does not linger: it eventually logs in,    *)
(* becomes a server link or is destroyed (login timeout, main.c 1148).   *)
UnregisteredLeaves ==
  \A c \in Conns : (cls[c] = "unknown") ~> (cls[c] # "unknown" \/ destroy[c])

(* Spec 4.4 step 3: once a user has issued Flood_Commands non-exempt     *)
(* commands within one Flood_Time window, reads from it stop until the    *)
(* window expires (dispatch_command, handler.c 360-391).  The commands of *)
(* an open window are the one that opened it and flood_commands more.    *)
FloodSuspendsAtThreshold ==
  \A c \in Conns :
    cls[c] = "user" /\ ~destroy[c] /\ ~Expired(c) /\ floodCmds[c] + 1 >= FloodCommands
      => ~readI[c]

(* destroy_connection removes the fd from the poll set because "we don't *)
(* want to read/write anything furthur to this fd": no later set_read may *)
(* write through its fdmap entry of -1 (flood_expire, main.c 874).       *)
NoStrayPollWrite == ~strayBits

(* server_input asserts that a link the pre-read visits is still in the  *)
(* poll set (ASSERT fdmap[fd] != -1, main.c 912): no frame dispatched     *)
(* earlier in the pre-read has destroyed a link still to be visited.      *)
PreReadLinksRegistered ==
  phase = "servers" => \A c \in todo : polled[c]

(* Spec 4.4, re-entrancy rule: no frame is dispatched on a connection    *)
(* already marked for destruction (the receive loop of handle_connection *)
(* over a server read, handler.c 601-685; the client loop tests          *)
(* con->destroy before reading, main.c 1107).                            *)
NoDispatchAfterDestroy ==
  [][batch # <<>> /\ batch' = Tail(batch) => ~destroy[cur]]_vars

(* The client loop reads each connection's poll entry through POFF(fd),   *)
(* "the offset into global.poll[] for the given file descriptor"          *)
(* (main.c 40-41, 1084-1114): a connection the loop visits still has an   *)
(* entry, as server_input asserts of the links it visits (main.c 912).    *)
(* A connection destroyed earlier in the same iteration (a link that hung *)
(* up in the pre-read, a user killed by another's command) has none.      *)
NoStaleRevents ==
  [][phase = "clients" => \A c \in todo \ todo' : polled[c]]_vars

=============================================================================
