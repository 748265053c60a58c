------------------------------ MODULE MCLogin ------------------------------
(* One nick on three servers in a line, a - b - c. *)
EXTENDS Login, TLC

CONSTANTS a, b, c, u

MCServers == {a, b, c}
MCTopology == {{a, b}, {b, c}}
==============================================================================
