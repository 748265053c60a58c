---------------------------- MODULE MCReactor ----------------------------
(* Instantiation of Reactor for TLC: two connection slots given *)
(* as model values, one-second windows and short peer sessions.          *)
EXTENDS Reactor, TLC

CONSTANTS c1, c2

MCConns2 == {c1, c2}

(* One slot for the liveness run: the progress of one link does not     *)
(* depend on another, which only shares the loop with it.             *)
MCConns1 == {c1}

(* Frames of users and server links side by side: a login, a server     *)
(* login, an ordinary command and a kill (of a user, or of a link).      *)
MCAllFrames == {"login", "slogin", "plain", "kill"}

(* Frames for the liveness run: a login and an ordinary command, enough  *)
(* to register a user and make it flood.                                 *)
MCLiveFrames == {"login", "plain"}
==========================================================================
