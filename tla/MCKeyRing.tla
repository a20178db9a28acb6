----------------------------- MODULE MCKeyRing -----------------------------
(***************************************************************************)
(* Small instances of KeyRing.  The slot u runs what the pages of the      *)
(* wallet ask for, one operation at a time; the slot w runs what the other *)
(* services of the background do on their own: coin types that are set when *)
(* a chain is first used and removed with the chain.  The auto-lock may    *)
(* lock the wallet between any two steps.                                  *)
(***************************************************************************)
EXTENDS KeyRing

CONSTANTS u, w, v, m1, m2, x1, l1, l2, k1, p, q

MCKindOf ==
    [k \in Keys |-> CASE k \in {m1, m2} -> "mnemonic"
                      [] k = x1 -> "privateKey"
                      [] k \in {l1, l2} -> "ledger"
                      [] k = k1 -> "keystone"]

ByServices == {"setCoinType", "removeCoinTypes"}
ByPages == Operations \ ByServices

(* Pages that wait for the answer of one operation before the next.        *)
OnePage == [c \in Slots |-> IF c = u THEN ByPages \ {"initLedgerApp"} ELSE ByServices]

(* One page on its own, with a Ledger or a Keystone plugged in: no chain is *)
(* used or removed.                                                        *)
WithDevices == [c \in Slots |-> ByPages]

Vault(store, list, n) == [store |-> store, multi |-> list, number |-> n]
Store(id, k, typed, old) == [id |-> id, key |-> k, pw |-> p, typed |-> typed, old |-> old]

Installed == Vault(NoStore, Absent, 0)

(* Installed anew, or updated from a version that kept a single key store. *)
NewOrSingle == {Installed, Vault(Store(0, m1, TRUE, TRUE), Absent, 0)}

(* Updated from a version that kept a list of key stores of version 1.1.   *)
NewOrList ==
    {Installed, Vault(Store(1, l1, TRUE, TRUE), <<Store(1, l1, TRUE, TRUE), Store(2, k1, TRUE, TRUE)>>, 2)}
=============================================================================
