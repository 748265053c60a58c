------------------------------ MODULE MCSearch ------------------------------
(* Three servers in a line, a - b - c, a user on an end server and one on *)
(* the middle one: a search from a is relayed twice, one from b goes two *)
(* ways and waits for two answers.                                        *)
EXTENDS Search, TLC

CONSTANTS a, b, c, u1, u2

MCServers == {a, b, c}
MCTopology == {{a, b}, {b, c}}
MCUsers == {u1, u2}
MCHome == (u1 :> a) @@ (u2 :> b)
==============================================================================
