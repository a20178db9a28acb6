---------------------------- MODULE MCPermission ----------------------------
(* Instances of Permission: a chain of the wallet and a suggested one.     *)
EXTENDS Permission

CONSTANTS fetchhub, beta, dapp, hub, wallet

Dapp == [o \in Origins |-> IF o = dapp THEN Messages ELSE {"access"}]
OfCalls == Permutations(Calls)
Both == {<<fetchhub>>, <<beta>>, <<beta, fetchhub>>}
=============================================================================
