----------------------------- MODULE MCChainInfos -----------------------------
(***************************************************************************)
(* A chain that comes with the wallet and one that is suggested, updated   *)
(* and removed, and two callers: one changes a chain while the other waits *)
(* for the same fill of the cache, for the user or for a node.             *)
(***************************************************************************)
EXTENDS ChainInfos, TLC
=============================================================================
