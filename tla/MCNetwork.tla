------------------------------ MODULE MCNetwork ------------------------------
(* The protocols linked servers run with one another, checked side by    *)
(* side: distributed search (Search) and the user table kept by the       *)
(* login, kill and quit relays (Login).  The initial state picks the      *)
(* protocol a behaviour exercises; the others stay in their initial      *)
(* states, so the state spaces add up rather than multiply.  The user    *)
(* levels of one server (UserLevels), which the level, nuke and reginfo  *)
(* relays carry between servers, the server pings (PingPong) and private *)
(* messages with ignore lists (PrivMsg), browsing (Browse) and the       *)
(* relayed changes of a user's port, speed and password (UserData) are   *)
(* checked beside them.                                                   *)
(*                                                                         *)
(* Both run on three servers in a line, a - b - c: a message from an end  *)
(* server is relayed twice, and the middle server relays both ways.       *)
EXTENDS Integers, TLC

VARIABLES
  mode,
  links, srv, chan, pending, searches, online, nextId, splits, early,
  llinks, lsrv, lsplits, users, lchan, now, logins, born, killed, dying,
  lvOnline, level, cloaked, db, mods,
  pchan, pings, ans,
  mchan, ignore, acked, nmsgs, verdicts, told,
  bchan, bOnline, reqs, got, asked, accepted,
  dchan, view, hist, ncmds

NetServers == {"a", "b", "c"}
NetTopology == {{"a", "b"}, {"b", "c"}}

(* A user on an end server and one on the middle one; two searches in    *)
(* all, one pending per user (Max_Searches), one link split.             *)
S == INSTANCE Search WITH Servers <- NetServers, Topology <- NetTopology,
                          Users <- {"u1", "u2"},
                          Home <- ("u1" :> "a") @@ ("u2" :> "b"),
                          Max_Searches <- 1, MaxIds <- 2, MaxSplits <- 1

(* One nick, two local logins over two seconds: logins at the same       *)
(* and at different seconds on every server, quits and re-logins; one    *)
(* link split, noticed, and the link made again with both sides synched. *)
L == INSTANCE Login WITH Servers <- NetServers, Topology <- NetTopology,
                         Nicks <- {"u"}, MaxTime <- 1, MaxLogins <- 2, MaxSplits <- 1,
                         chan <- lchan, links <- llinks, srv <- lsrv, splits <- lsplits

(* Nick "a", registered as Admin, logs in here; "b", not registered,     *)
(* logs in on a peer.  Commands come from either or from a peer server.  *)
Lv == INSTANCE UserLevels WITH online <- lvOnline, Nicks <- {"a", "b"}, Local <- {"a"},
                               DbInit <- [u \in {"a", "b"} |-> IF u = "a" THEN 3 ELSE -1], Server <- "srv"

(* u1 on an end server, u2 on the middle one; three pings in all, user  *)
(* pings of near and far servers and lag_detect rounds interleaved.      *)
P == INSTANCE PingPong WITH Servers <- NetServers, Topology <- NetTopology,
                            Users <- {"u1", "u2"}, Home <- ("u1" :> "a") @@ ("u2" :> "b"),
                            MaxPings <- 3, chan <- pchan

(* u1 on an end server takes messages, u2 on the other end does not;    *)
(* u2 is also typed U2, and x is a nick nobody uses.  Two messages, and  *)
(* Max_Ignore 1, so the list may reach two entries.                       *)
M == INSTANCE PrivMsg WITH Servers <- NetServers, Topology <- NetTopology,
                           Users <- {"u1", "u2"}, Home <- ("u1" :> "a") @@ ("u2" :> "c"),
                           Spellings <- {"u1", "u2", "U2", "x"},
                           Fold <- ("u1" :> "u1") @@ ("u2" :> "u2") @@ ("U2" :> "u2") @@ ("x" :> "x"),
                           Accepting <- {"u1"}, Max_Ignore <- 1, MaxMsgs <- 2, chan <- mchan

(* u1 on an end server, firewalled and sharing nothing; u2 on the other *)
(* end sharing two files and ignoring u1.  Max_Browse_Result 1, and      *)
(* <max> 1 or 40000 (a short of -25536); two requests in all.            *)
B == INSTANCE Browse WITH Servers <- NetServers, Topology <- NetTopology,
                          Users <- {"u1", "u2"}, Home <- ("u1" :> "a") @@ ("u2" :> "c"),
                          Files <- ("u1" :> 0) @@ ("u2" :> 2), Firewalled <- {"u1"},
                          Ignores <- {<<"u2", "u1">>}, Max_Browse_Result <- 1,
                          RemoteBrowse <- TRUE, Args <- {1, 40000}, MaxReqs <- 2,
                          chan <- bchan, online <- bOnline

(* u1, an admin, on an end server with its record there; u2, a user, on  *)
(* the other end with its record on the middle server only.  Ports and  *)
(* speeds with one out of range, a password or none; three commands.   *)
D == INSTANCE UserData WITH Servers <- NetServers, Topology <- NetTopology,
                            Users <- {"u1", "u2"}, Home <- ("u1" :> "a") @@ ("u2" :> "c"),
                            Level <- ("u1" :> 3) @@ ("u2" :> 1),
                            Registered <- ("a" :> {"u1"}) @@ ("b" :> {"u2"}) @@ ("c" :> {}),
                            Ports <- {0, 6699, 70000}, Speeds <- {0, 10, 11}, Passwords <- {"", "p1"},
                            MaxCmds <- 3, chan <- dchan

searchVars == <<links, srv, chan, pending, searches, online, nextId, splits, early>>
loginVars == <<llinks, lsrv, lsplits, users, lchan, now, logins, born, killed, dying>>
levelVars == <<lvOnline, level, cloaked, db, mods>>
pingVars == <<pchan, pings, ans>>
msgVars == <<mchan, ignore, acked, nmsgs, verdicts, told>>
browseVars == <<bchan, bOnline, reqs, got, asked, accepted>>
dataVars == <<dchan, view, hist, ncmds>>
vars == <<mode, searchVars, loginVars, levelVars, pingVars, msgVars, browseVars, dataVars>>

Init ==
  /\ mode \in {"search", "login", "levels", "ping", "msg", "browse", "data"}
  /\ S!Init /\ L!Init /\ Lv!Init /\ P!Init /\ M!Init /\ B!Init /\ D!Init

InSearch(A) == mode = "search" /\ A /\ UNCHANGED <<loginVars, levelVars, pingVars, msgVars, browseVars, dataVars, mode>>
InLogin(A) == mode = "login" /\ A /\ UNCHANGED <<searchVars, levelVars, pingVars, msgVars, browseVars, dataVars, mode>>
InLevels(A) == mode = "levels" /\ A /\ UNCHANGED <<searchVars, loginVars, pingVars, msgVars, browseVars, dataVars, mode>>
InPing(A) == mode = "ping" /\ A /\ UNCHANGED <<searchVars, loginVars, levelVars, msgVars, browseVars, dataVars, mode>>
InMsg(A) == mode = "msg" /\ A /\ UNCHANGED <<searchVars, loginVars, levelVars, pingVars, browseVars, dataVars, mode>>
InData(A) == mode = "data" /\ A /\ UNCHANGED <<searchVars, loginVars, levelVars, pingVars, msgVars, browseVars, mode>>
InBrowse(A) == mode = "browse" /\ A /\ UNCHANGED <<searchVars, loginVars, levelVars, pingVars, msgVars, dataVars, mode>>

Next ==
  \/ InSearch(S!Next) \/ InLogin(L!Next) \/ InLevels(Lv!Next) \/ InPing(P!Next)
  \/ InMsg(M!Next) \/ InBrowse(B!Next) \/ InData(D!Next)

(* The fairness of Search, Login and PingPong, for the behaviours that exercise    *)
(* them.                                                                   *)
Fairness ==
  /\ \A s, p \in NetServers :
       /\ WF_vars(InSearch(\E fwd, hit \in BOOLEAN : S!RemoteSearch(s, p, fwd, hit)))
       /\ WF_vars(InSearch(S!RemoteSearchEnd(s, p)))
       /\ WF_vars(InSearch(S!RemoteSearchResult(s, p)))
       /\ WF_vars(InSearch(S!Detect(s, p)))
  /\ \A e \in L!Pairs : /\ WF_vars(InLogin(L!Receive(e[2], e[1])))
                        /\ WF_vars(InLogin(L!Detect(e[1], e[2])))
  /\ \A s \in NetServers : WF_vars(InLogin(L!Reap(s)))
  /\ \A e \in P!Pairs : /\ WF_vars(InPing(P!RecvPing(e[2], e[1])))
                        /\ WF_vars(InPing(P!RecvPong(e[2], e[1])))

Spec == Init /\ [][Next]_vars /\ Fairness

-----------------------------------------------------------------------------
(* A user's pending-search count matches its Remote_Search entries       *)
(* (Search).                                                              *)
SearchesCounted == S!SearchesCounted

(* Every search entry is eventually ended, with no timeout (Search).      *)
SearchEnds == S!SearchEnds

(* No search match is passed back to the server it came from (Search).  *)
ResultsNotBounced == S!ResultsNotBounced

(* A remote user's connection is the link towards its server (Login).    *)
RoutedTowardHome == L!RoutedTowardHome

(* Mods lists each local moderator+ online exactly once (UserLevels). *)
ModsExact == Lv!ModsExact

(* Only moderators and above are cloaked (UserLevels). *)
CloakedOnlyMods == Lv!CloakedOnlyMods

(* No ping is answered twice, or by a server it was not for (PingPong). *)
PongsExact == P!PongsExact

(* Every ping is eventually answered (PingPong). *)
PongsArrive == P!PongsArrive

(* A message is refused as ignored exactly when its recipient was told  *)
(* it ignores the sender (PrivMsg).                                      *)
IgnoreHonoured == M!IgnoreHonoured

(* Nothing about a browse reaches the requester after its end-of-list    *)
(* (Browse).                                                              *)
EndIsLast == B!EndIsLast

(* A browse with a positive <max> gets at most that many results         *)
(* (Browse).                                                              *)
ResultsWithinMax == B!ResultsWithinMax

(* Once the links are drained, every request of a client still online   *)
(* has been answered (Browse).                                           *)
BrowseAnswered == B!BrowseAnswered

(* Once the links are drained, a user's port, speed or password changed *)
(* through one server only is the same everywhere as the last value set *)
(* there (UserData).                                                      *)
SingleOriginSettles == D!SingleOriginSettles

(* Once the links are drained, all servers agree on every user's port,  *)
(* speed and password (UserData).                                        *)
SettingsAgree == D!SettingsAgree
==============================================================================
