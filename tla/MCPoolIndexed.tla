--------------------------- MODULE MCPoolIndexed ---------------------------
(***************************************************************************)
(* Small instances of one pool with the subgraph's picture of it.          *)
(***************************************************************************)
EXTENDS MCPool, RiskMonitor
=============================================================================
