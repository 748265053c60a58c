--------------------------- MODULE MCServerOutput ---------------------------
(* Nodes of two bytes, deflate adding at most three compressed bytes a   *)
(* call, four plaintext bytes over the run: enough for a chunk spanning   *)
(* two nodes, compressed output spanning two nodes, and a sync flush      *)
(* that exactly fills a node.                                             *)
EXTENDS ServerOutput
==============================================================================
