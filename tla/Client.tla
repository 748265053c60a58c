------------------------------- MODULE Client -------------------------------
(***************************************************************************)
(* The nooopster client (client/main.c).  Three kinds of thread:          *)
(*  - the main thread logs in to the tracker (nap_send_msg, nap_recv_msg), *)
(*    shares the files of shared/, then polls the tracker link and answers *)
(*    each upload request (NAP_FREQ) by remembering the peer              *)
(*    (add_known_peer) and accepting (NAP_GFR);                            *)
(*  - data_server_main accepts connections on the data port and starts a  *)
(*    thread per connection;                                               *)
(*  - handle_peer_connection sends "1", reads the 3-byte command and the  *)
(*    arguments, checks them and sends the file.                           *)
(* The tracker and the downloading peers are the environment.  Bytes of a *)
(* peer's request are counted, not spelled: the command is 3 bytes, the   *)
(* arguments ArgBytes more, and the third argument (the offset) is their  *)
(* last byte, so count_msg_fields reaches 3 once all of them are read.    *)
(***************************************************************************)
EXTENDS Naturals, Sequences, FiniteSets

CONSTANTS
  Peers,      \* nicks of downloading peers
  Shared,     \* paths "\shared\<name>" of the regular files in shared/
  Outside,    \* paths "\shared\<rel>" naming readable files outside shared/
  NoPrefix,   \* paths without the "\shared\" prefix
  Slots,      \* bound: data connections over a run, one thread each
  ArgBytes,   \* bytes of the GET arguments
  MaxFreq,    \* bound: upload requests the tracker sends
  NoPeer,     \* no nick: a connection slot not yet used
  NoPath      \* no path

Paths == Shared \cup Outside \cup NoPrefix
ReqBytes == 3 + ArgBytes

VARIABLES
  mainPc,    \* where the main thread is: "mkuser", "login", "share", "loop", "exit"
  answered,  \* the tracker has answered the main thread's last request
  down,      \* tracker -> client messages: [type, who, path, whole]
  nfreq,     \* upload requests the tracker has sent
  listed,    \* paths the client announced with NAP_SFILE
  dataUp,    \* data_server_main is running
  known,     \* the known_peers list
  accepted,  \* <<peer, path>> pairs the client accepted with NAP_GFR
  conn,      \* per data connection: its thread and its peer
  served     \* <<peer, path>> pairs whose file was sent

vars == <<mainPc, answered, down, nfreq, listed, dataUp, known, accepted, conn, served>>

MsgTypes == {"UNOK", "UNTK", "LOGSUCCESS", "LOGERROR", "FREQ"}
FreeConn == [pc |-> "free", who |-> NoPeer, path |-> NoPath, sent |-> 0,
             got |-> 0, cmd |-> 0, closed |-> FALSE, out |-> "none"]

TypeOK ==
  /\ mainPc \in {"mkuser", "login", "share", "loop", "exit"}
  /\ answered \in BOOLEAN /\ dataUp \in BOOLEAN
  /\ \A i \in DOMAIN down :
       down[i] \in [type : MsgTypes, who : Peers \cup {NoPeer},
                    path : Paths \cup {NoPath}, whole : BOOLEAN]
  /\ nfreq \in 0..MaxFreq
  /\ listed \subseteq Paths /\ known \subseteq Peers
  /\ accepted \subseteq Peers \X Paths /\ served \subseteq Peers \X Paths
  /\ \A s \in Slots :
       /\ conn[s].pc \in {"free", "hello", "cmd", "args", "check", "send", "done"}
       /\ conn[s].sent \in 0..ReqBytes
       /\ conn[s].got \in 0..conn[s].sent
       /\ conn[s].cmd \in 0..5
       /\ conn[s].out \in {"none", "served", "invalid", "dropped"}

(* main (main.c 525-551): nap_connect, then NAP_MKUSER is sent. *)
Init ==
  /\ mainPc = "mkuser" /\ answered = FALSE /\ down = <<>> /\ nfreq = 0
  /\ listed = {} /\ dataUp = FALSE /\ known = {} /\ accepted = {}
  /\ conn = [s \in Slots |-> FreeConn] /\ served = {}

-----------------------------------------------------------------------------
(* The main thread. *)

(* nap_recv_msg (main.c 169-207): recv of the 4-byte header, then of the *)
(* body; a recv that returns fewer bytes than asked exits the client.    *)
(* A message the tracker wrote in two pieces, the second not yet here,   *)
(* is such a short read.                                                  *)
ShortRead == ~Head(down).whole

Exit == mainPc' = "exit"

(* The answer to NAP_MKUSER (main.c 550-555): NAP_UNOK sends NAP_LOGIN;   *)
(* anything else exits.                                                   *)
RecvMkuser ==
  /\ mainPc = "mkuser" /\ down # <<>>
  /\ IF ShortRead \/ Head(down).type # "UNOK" THEN Exit /\ UNCHANGED answered
     ELSE mainPc' = "login" /\ answered' = FALSE
  /\ down' = Tail(down)
  /\ UNCHANGED <<nfreq, listed, dataUp, known, accepted, conn, served>>

(* The answer to NAP_LOGIN (main.c 557-569): NAP_LOGSUCCESS starts the    *)
(* data server thread; anything else exits.                               *)
RecvLogin ==
  /\ mainPc = "login" /\ down # <<>>
  /\ IF ShortRead \/ Head(down).type # "LOGSUCCESS" THEN Exit /\ UNCHANGED dataUp
     ELSE mainPc' = "share" /\ dataUp' = TRUE
  /\ down' = Tail(down)
  /\ UNCHANGED <<answered, nfreq, listed, known, accepted, conn, served>>

(* The readdir loop (main.c 571-610) sends NAP_SFILE for every regular,  *)
(* readable file of shared/ with the "\shared\" prefix; then the client   *)
(* joins the chat room (main.c 612-616).                                  *)
Share ==
  /\ mainPc = "share"
  /\ listed' = Shared /\ mainPc' = "loop"
  /\ UNCHANGED <<answered, down, nfreq, dataUp, known, accepted, conn, served>>

(* poll times out after 10 s with nothing to read: the announcement      *)
(* branch (main.c 627-670) says a line in the room and changes nothing    *)
(* the model keeps.                                                        *)
Timeout ==
  /\ mainPc = "loop" /\ down = <<>>
  /\ UNCHANGED vars

(* A message in the loop (main.c 672-697): NAP_FREQ with two fields adds *)
(* the peer to known_peers and accepts with NAP_GFR; others are ignored. *)
RecvLoop ==
  /\ mainPc = "loop" /\ down # <<>>
  /\ down' = Tail(down)
  /\ IF ShortRead THEN Exit /\ UNCHANGED <<known, accepted>>
     ELSE IF Head(down).type = "FREQ"
          THEN /\ known' = known \cup {Head(down).who}
               /\ accepted' = accepted \cup {<<Head(down).who, Head(down).path>>}
               /\ UNCHANGED mainPc
          ELSE UNCHANGED <<mainPc, known, accepted>>
  /\ UNCHANGED <<answered, nfreq, listed, dataUp, conn, served>>

-----------------------------------------------------------------------------
(* The data server and the connection threads.  Every step is guarded by *)
(* the process still running: exit() ends every thread.                  *)

Running == mainPc # "exit"

Upd(s, r) == conn' = [conn EXCEPT ![s] = r]

(* data_server_main (main.c 457-523): accept, then pthread_create of     *)
(* handle_peer_connection.  Anyone may connect, with any request.        *)
Accept(s, x, p) ==
  /\ Running /\ dataUp /\ conn[s].pc = "free"
  /\ Upd(s, [FreeConn EXCEPT !.pc = "hello", !.who = x, !.path = p])
  /\ UNCHANGED <<mainPc, answered, down, nfreq, listed, dataUp, known, accepted, served>>

Avail(s) == conn[s].sent - conn[s].got

(* Mutant: the command read takes the 3 bytes it asks for, whether sent *)
(* or not.                                                               *)
ReadCmdFull(s) ==
  /\ Running /\ conn[s].pc = "cmd" /\ Avail(s) > 0
  /\ Upd(s, [conn[s] EXCEPT !.got = @ + 3, !.cmd = @ + 3,
                            !.pc = IF conn[s].cmd + 3 >= 3 THEN "args" ELSE "cmd"])
  /\ UNCHANGED <<mainPc, answered, down, nfreq, listed, dataUp, known, accepted, served>>

(* The first steps of handle_peer_connection (main.c 313-341): send "1"  *)
(* (it fails only once the peer has gone), then the command loop: while  *)
(* fewer than 3 bytes are in, recv(&buf[p], 3) takes up to 3 more, so a  *)
(* command that came in pieces pulls argument bytes into buf[3..4]; a    *)
(* recv of 0 (peer closed) shuts down.                                    *)
Hello(s) ==
  /\ Running /\ conn[s].pc = "hello"
  /\ \/ Upd(s, [conn[s] EXCEPT !.pc = "cmd"])
     \/ conn[s].closed /\ Upd(s, [conn[s] EXCEPT !.pc = "done", !.out = "dropped"])
  /\ UNCHANGED <<mainPc, answered, down, nfreq, listed, dataUp, known, accepted, served>>

ReadCmd(s) ==
  /\ Running /\ conn[s].pc = "cmd"
  /\ IF Avail(s) > 0
       THEN LET k == IF Avail(s) < 3 THEN Avail(s) ELSE 3
            IN  Upd(s, [conn[s] EXCEPT !.got = @ + k, !.cmd = @ + k,
                                       !.pc = IF conn[s].cmd + k >= 3 THEN "args" ELSE "cmd"])
       ELSE conn[s].closed /\ Upd(s, [conn[s] EXCEPT !.pc = "done", !.out = "dropped"])
  /\ UNCHANGED <<mainPc, answered, down, nfreq, listed, dataUp, known, accepted, served>>

(* Argument bytes the command loop swallowed. *)
Lost(s) == conn[s].cmd - 3

(* Mutant: the argument loop has no count_msg_fields test and reads on  *)
(* until the peer closes.                                                *)
ReadArgsNoCount(s) ==
  /\ Running /\ conn[s].pc = "args"
  /\ IF Avail(s) > 0
       THEN Upd(s, [conn[s] EXCEPT !.got = conn[s].sent])
       ELSE conn[s].closed /\ Upd(s, [conn[s] EXCEPT !.pc = "done", !.out = "dropped"])
  /\ UNCHANGED <<mainPc, answered, down, nfreq, listed, dataUp, known, accepted, served>>

(* The argument loop of a GET (main.c 346-371): each recv takes all that *)
(* has come (the 255-byte buffer is never the limit here); the loop ends *)
(* when count_msg_fields finds 3 fields, i.e. once the offset's byte is   *)
(* in, and a recv of 0 shuts down.                                         *)
ReadArgs(s) ==
  /\ Running /\ conn[s].pc = "args"
  /\ IF Avail(s) > 0
       THEN Upd(s, [conn[s] EXCEPT !.got = conn[s].sent,
                                   !.pc = IF conn[s].sent = ReqBytes THEN "check" ELSE "args"])
       ELSE conn[s].closed /\ Upd(s, [conn[s] EXCEPT !.pc = "done", !.out = "dropped"])
  /\ UNCHANGED <<mainPc, answered, down, nfreq, listed, dataUp, known, accepted, served>>

(* Mutant: the peer name is not looked up in known_peers. *)
CheckNoKnown(s) ==
  /\ Running /\ conn[s].pc = "check"
  /\ IF Lost(s) > 0 \/ conn[s].path \notin Shared \cup Outside
       THEN Upd(s, [conn[s] EXCEPT !.pc = "done", !.out = "invalid"])
       ELSE Upd(s, [conn[s] EXCEPT !.pc = "send"])
  /\ UNCHANGED <<mainPc, answered, down, nfreq, listed, dataUp, known, accepted, served>>

(* The checks of main.c 373-416: tokenize_msg must find 3 fields, the    *)
(* first a known peer, the second starting with "\shared\", naming after *)
(* the prefix a regular file that opens.  Bytes lost to the command loop *)
(* are the first bytes of the peer's nick, which then is not known.  Any *)
(* failure answers "INVALID REQUEST".  Nothing compares the path with    *)
(* what the tracker asked for, and the rest of it is opened as a path    *)
(* relative to shared/.                                                   *)
Check(s) ==
  /\ Running /\ conn[s].pc = "check"
  /\ IF \/ Lost(s) > 0
        \/ conn[s].who \notin known
        \/ conn[s].path \notin Shared \cup Outside
       THEN Upd(s, [conn[s] EXCEPT !.pc = "done", !.out = "invalid"])
       ELSE Upd(s, [conn[s] EXCEPT !.pc = "send"])
  /\ UNCHANGED <<mainPc, answered, down, nfreq, listed, dataUp, known, accepted, served>>

(* The transfer (main.c 418-441): the size, then sendfile until all of   *)
(* it is out; a failed send or sendfile (the peer has gone) ends it.     *)
Serve(s) ==
  /\ Running /\ conn[s].pc = "send"
  /\ IF conn[s].closed
       THEN Upd(s, [conn[s] EXCEPT !.pc = "done", !.out = "dropped"]) /\ UNCHANGED served
       ELSE /\ Upd(s, [conn[s] EXCEPT !.pc = "done", !.out = "served"])
            /\ served' = served \cup {<<conn[s].who, conn[s].path>>}
  /\ UNCHANGED <<mainPc, answered, down, nfreq, listed, dataUp, known, accepted>>

-----------------------------------------------------------------------------
(* The environment: the tracker and the downloading peers. *)

(* The tracker answers the main thread's request, whole or in two pieces *)
(* (the write of send_queued_data can stop at any byte, buffer.c 383).   *)
Answer(t, w) ==
  /\ mainPc \in {"mkuser", "login"} /\ ~answered
  /\ t \in (IF mainPc = "mkuser" THEN {"UNOK", "UNTK"} ELSE {"LOGSUCCESS", "LOGERROR"})
  /\ down' = Append(down, [type |-> t, who |-> NoPeer, path |-> NoPath, whole |-> w])
  /\ answered' = TRUE
  /\ UNCHANGED <<mainPc, nfreq, listed, dataUp, known, accepted, conn, served>>

(* A peer asks the tracker for a file the client listed; the tracker     *)
(* passes it on as NAP_FREQ "<nick> \"<path>\"".                          *)
Freq(x, p, w) ==
  /\ p \in listed /\ nfreq < MaxFreq
  /\ nfreq' = nfreq + 1
  /\ down' = Append(down, [type |-> "FREQ", who |-> x, path |-> p, whole |-> w])
  /\ UNCHANGED <<mainPc, answered, listed, dataUp, known, accepted, conn, served>>

(* The rest of a message written in two pieces arrives. *)
Arrive ==
  /\ down # <<>> /\ ~Head(down).whole
  /\ down' = [down EXCEPT ![1].whole = TRUE]
  /\ UNCHANGED <<mainPc, answered, nfreq, listed, dataUp, known, accepted, conn, served>>

(* A peer sends the next k bytes of its request. *)
PeerSend(s, k) ==
  /\ conn[s].pc # "free" /\ ~conn[s].closed
  /\ conn[s].sent + k <= ReqBytes
  /\ Upd(s, [conn[s] EXCEPT !.sent = @ + k])
  /\ UNCHANGED <<mainPc, answered, down, nfreq, listed, dataUp, known, accepted, served>>

(* A peer hangs up. *)
PeerClose(s) ==
  /\ conn[s].pc # "free" /\ ~conn[s].closed
  /\ Upd(s, [conn[s] EXCEPT !.closed = TRUE])
  /\ UNCHANGED <<mainPc, answered, down, nfreq, listed, dataUp, known, accepted, served>>

-----------------------------------------------------------------------------
MainStep == RecvMkuser \/ RecvLogin \/ Share \/ Timeout \/ RecvLoop

ThreadStep(s) == Hello(s) \/ ReadCmd(s) \/ ReadArgs(s) \/ Check(s) \/ Serve(s)

Tracker ==
  \/ \E t \in MsgTypes, w \in BOOLEAN : Answer(t, w)
  \/ \E x \in Peers, p \in Paths, w \in BOOLEAN : Freq(x, p, w)
  \/ Arrive

Next ==
  \/ MainStep
  \/ \E s \in Slots : ThreadStep(s)
  \/ \E s \in Slots, x \in Peers, p \in Paths : Accept(s, x, p)
  \/ Tracker
  \/ \E s \in Slots : PeerClose(s) \/ \E k \in 1..ReqBytes : PeerSend(s, k)

(* The threads are scheduled fairly; the tracker answers and completes   *)
(* what it writes; a peer sends the whole of its request.  Closing and   *)
(* new requests are not forced.                                           *)
Fairness ==
  /\ WF_vars(MainStep)
  /\ \A s \in Slots : WF_vars(ThreadStep(s))
  /\ WF_vars(\E t \in MsgTypes, w \in BOOLEAN : Answer(t, w)) /\ WF_vars(Arrive)
  /\ \A s \in Slots : WF_vars(\E k \in 1..ReqBytes : PeerSend(s, k))

Spec == Init /\ [][Next]_vars /\ Fairness

-----------------------------------------------------------------------------
(* A file goes only to a peer the tracker named in an upload request the *)
(* client accepted: is_peer_known (main.c 386-389) in a connection thread *)
(* reads the list add_known_peer of the main thread builds (main.c 685). *)
OnlyAcceptedPeersServed ==
  \A e \in served : \E q \in Paths : <<e[1], q>> \in accepted

(* A peer whose request the client accepted, and which sends its GET and *)
(* waits, gets the file, unless it hangs up, the client has exited, or   *)
(* the command loop swallowed bytes of its nick.                         *)
ServedWhenAsked ==
  \A s \in Slots :
    (conn[s].pc = "hello" /\ <<conn[s].who, conn[s].path>> \in accepted) ~>
      (conn[s].out = "served" \/ conn[s].closed \/ conn[s].cmd > 3 \/ mainPc = "exit")

(* The same without the exception for a command read in pieces: the     *)
(* peer loop assumes the command arrives on its own (main.c 332, 343).   *)
GetServed ==
  \A s \in Slots :
    (conn[s].pc = "hello" /\ <<conn[s].who, conn[s].path>> \in accepted) ~>
      (conn[s].out = "served" \/ conn[s].closed \/ mainPc = "exit")

(* The comment at main.c 379-384: a file is sent for exactly what the    *)
(* tracker asked for, the peer and the path of an accepted NAP_FREQ.     *)
ServedWasRequested == served \subseteq accepted

(* The client leaves only when the tracker refuses it (main.c 550-569):  *)
(* never on a message it would have accepted.                             *)
ExitsOnlyOnRefusal ==
  [][mainPc # "exit" /\ mainPc' = "exit" => Head(down).type \in {"UNTK", "LOGERROR"}]_vars
==============================================================================
