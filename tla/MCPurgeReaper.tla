--------------------------- MODULE MCPurgeReaper ---------------------------
(* Two entries, two sites and a batch of one.                              *)
EXTENDS PurgeReaper

ids == {1, 2}
=============================================================================
