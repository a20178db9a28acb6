----------------------------- MODULE MCLedgerInit -----------------------------
(***************************************************************************)
(* Three calls of useLedger(), the second while the first waits for its    *)
(* dialog and the third while there is data of both.                       *)
(***************************************************************************)
EXTENDS LedgerInit
=============================================================================
