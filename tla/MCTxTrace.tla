------------------------------ MODULE MCTxTrace ------------------------------
(***************************************************************************)
(* Two transactions, each broadcast by the background or traced by a page: *)
(* both ways of tracing at once, and two traces of the one object.         *)
(***************************************************************************)
EXTENDS TxTrace, TLC
=============================================================================
