----------------------------- MODULE MCTxConfig -----------------------------
(***************************************************************************)
(* The chain's own currency, which pays the fees, and a token of a         *)
(* contract, which uses more gas.  A transaction that pays a fee uses more *)
(* gas than one that does not; the node is not exact.  A fee may be free.  *)
(***************************************************************************)
EXTENDS TxConfig, TLC

CONSTANTS fet, tok, native, cw20, free, average

MCKeyOf == (fet :> native) @@ (tok :> cw20)
MCUses == (native :> [paid \in BOOLEAN |-> IF paid THEN {108, 110} ELSE {100}])
       @@ (cw20 :> [paid \in BOOLEAN |-> {300}])
MCBalances == (fet :> {15, 40}) @@ (tok :> {40})
MCDefaultGas == (fet :> 80) @@ (tok :> 150)
MCPrice == (free :> 0) @@ (average :> 1)
=============================================================================
