----------------------------- MODULE MCSigning -----------------------------
(* Instances of Signing: a chain whose coin type the user may choose, and  *)
(* one with the coin type that is fixed.                                   *)
EXTENDS Signing, TLC

CONSTANTS r1, r2, r3, m, l, hub, beta, c118, c60

Kinds2 == m :> "mnemonic" @@ l :> "ledger"
CoinTypes2 == hub :> c118 @@ beta :> c60
Selectable2 == hub :> {c60} @@ beta :> {}
Asks3 == r1 :> [op |-> "sign", chains |-> <<hub>>]
      @@ r2 :> [op |-> "ethereum", chains |-> <<beta>>]
      @@ r3 :> [op |-> "icns", chains |-> <<hub, hub, beta>>]
=============================================================================
