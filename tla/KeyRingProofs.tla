--------------------------- MODULE KeyRingProofs ---------------------------
(***************************************************************************)
(* Theorems about KeyRing, for every set of calls, keys and passwords, and *)
(* about LedgerInit, the service it calls for the keys of a Ledger, for    *)
(* any number of calls.                                                    *)
(***************************************************************************)
EXTENDS KeyRing, LedgerInit, SequenceTheorems, WellFoundedInduction, TLAPS

(* The calls that load the key ring and what they wait for meanwhile.      *)
Loaders == {"restore", "enable", "create"}
Loading == {"getStore", "getMulti", "adoptNumber", "setNumber", "adoptStore", "adoptMulti",
            "upgradeStore", "upgradeMulti", "check"}

(* What the locals of a call hold at each await: the part of the inductive *)
(* invariant that typing alone does not give.                              *)
LocalsOK(r) ==
    /\ r.op \in {"create", "add", "initLedgerApp"} => r.key \in Keys
    /\ r.op \in {"delete", "updatePassword"} => r.list \in Seq(Stores)
    /\ r.pc \in {"adoptNumber", "setNumber", "decrypt", "reopen", "reencrypt"} => r.store \in Stores
    /\ r.pc = "encrypt" /\ r.op = "initLedgerApp" => r.store \in Stores
    /\ r.pc = "reopen" => r.op = "delete" /\ r.list # <<>>
    /\ r.pc = "reencrypt" => r.op = "updatePassword"
    /\ r.pc \in Loading => r.op \in Loaders
    /\ r.pc = "check" => r.op = "create"
    /\ r.pc = "getNumber" => r.op \in {"create", "add"}

CallsOK == \A c \in Slots : LocalsOK(call[c])

Typed == TypeOK /\ CallsOK

(* A record that a call may be set to.                                     *)
GoodCall(r) == r \in Calls /\ LocalsOK(r)

-----------------------------------------------------------------------------
(* Lemmas about the helpers of KeyRing.                                    *)

(* The record of an idle slot is one of a call.                            *)
LEMMA IdleGood == GoodCall(Idle)
  BY DEF GoodCall, Idle, Calls, LocalsOK, Operations, Points, Loading

(* The setters of the secrets hold secrets.                                *)
LEMMA HoldingTyped ==
  ASSUME TypeOK, NEW k \in Keys
  PROVE  Holding(k) \in SUBSET Keys
  BY DEF TypeOK, Holding

(* Writing one call keeps the others.                                      *)
LEMMA OneCall ==
  ASSUME Typed, NEW c \in Slots, NEW r, GoodCall(r), call' = [call EXCEPT ![c] = r]
  PROVE  call' \in [Slots -> Calls] /\ CallsOK'
  BY DEF Typed, TypeOK, CallsOK, GoodCall

(* A call that moves on keeps its locals in order, unless it moves to a    *)
(* point that asks more of them.                                           *)
LEMMA GotoGood ==
  ASSUME Typed, NEW c \in Slots,
         NEW to \in Points \ {"adoptNumber", "setNumber", "getNumber", "decrypt", "reopen", "reencrypt", "encrypt"},
         to \in Loading => call[c].op \in Loaders, to = "check" => call[c].op = "create"
  PROVE  GoodCall([call[c] EXCEPT !.pc = to])
  BY DEF Typed, TypeOK, CallsOK, GoodCall, LocalsOK, Calls

(* Detaching the loops of updatePassword() keeps every call in order.      *)
LEMMA DetachedGood ==
  ASSUME Typed, NEW c \in Slots
  PROVE  /\ Detached(c) \in [Slots -> Calls]
         /\ \A d \in Slots : LocalsOK(Detached(c)[d])
         /\ Detached(c)[c] = call[c]
  <1>1. ASSUME NEW d \in Slots PROVE Detached(c)[d] \in Calls /\ LocalsOK(Detached(c)[d])
    <2>1. call[d] \in Calls /\ LocalsOK(call[d]) /\ multi \in Seq(Stores)
      BY DEF Typed, TypeOK, CallsOK
    <2> DEFINE r == [call[d] EXCEPT !.live = FALSE, !.src = multi]
    <2>2. /\ r \in Calls /\ r.pc = call[d].pc /\ r.op = call[d].op /\ r.key = call[d].key
          /\ r.store = call[d].store /\ r.list = call[d].list /\ r.num = call[d].num
          /\ r.pw = call[d].pw /\ r.new = call[d].new
      BY <2>1 DEF Calls
    <2>3. LocalsOK(r)
      <3> HIDE DEF r
      <3> QED BY <2>1, <2>2 DEF LocalsOK
    <2> QED BY <2>1, <2>2, <2>3 DEF Detached
  <1> QED BY <1>1 DEF Detached

(* The same for a step that detaches and writes its own call.              *)
LEMMA DetachedCall ==
  ASSUME Typed, NEW c \in Slots, NEW r, GoodCall(r), call' = [Detached(c) EXCEPT ![c] = r]
  PROVE  call' \in [Slots -> Calls] /\ CallsOK'
  <1>1. /\ Detached(c) \in [Slots -> Calls]
        /\ \A d \in Slots : LocalsOK(Detached(c)[d])
    BY DetachedGood
  <1> QED BY <1>1 DEF CallsOK, GoodCall

(* Upgrading key stores keeps them key stores.                             *)
LEMMA UpgradedTyped ==
  ASSUME NEW s \in Stores \cup {NoStore}
  PROVE  Upgraded(s) \in Stores \cup {NoStore} /\ (s # NoStore => Upgraded(s) \in Stores)
  BY DEF Upgraded, Stores

LEMMA UpgradedListTyped ==
  ASSUME NEW list \in Seq(Stores)
  PROVE  [i \in DOMAIN list |-> Upgraded(list[i])] \in Seq(Stores)
  <1>1. \A i \in 1..Len(list) : Upgraded(list[i]) \in Stores
    <2>1. SUFFICES ASSUME NEW i \in 1..Len(list) PROVE Upgraded(list[i]) \in Stores OBVIOUS
    <2>2. list[i] \in Stores BY ElementOfSeq
    <2> QED BY <2>2, UpgradedTyped, SentinelAssumption
  <1> QED BY <1>1, IsASeq, LenProperties

-----------------------------------------------------------------------------
(* The end of restore() and the upgrade of the key stores it may need.     *)
LEMMA LoadedByTyped ==
  ASSUME Typed, NEW c \in Slots, LoadedBy(c, Detached(c)) \/ LoadedBy(c, call)
  PROVE  loaded' \in BOOLEAN /\ page' \in BOOLEAN /\ call' \in [Slots -> Calls] /\ CallsOK'
  <1> DEFINE r == IF call[c].op = "create" THEN [call[c] EXCEPT !.pc = "check"] ELSE Idle
  <1>1. GoodCall(r)
    BY GotoGood, IdleGood DEF Points, Loaders
  <1>2. CASE LoadedBy(c, call)
    <2>1. call' = [call EXCEPT ![c] = r]
      BY <1>2 DEF LoadedBy, Typed, TypeOK
    <2> HIDE DEF r
    <2> QED BY <1>1, <1>2, <2>1, OneCall DEF LoadedBy, Typed, TypeOK
  <1>3. CASE LoadedBy(c, Detached(c))
    <2>1. call' = [Detached(c) EXCEPT ![c] = r]
      BY <1>3, DetachedGood DEF LoadedBy
    <2> HIDE DEF r
    <2> QED BY <1>1, <1>3, <2>1, DetachedCall DEF LoadedBy, Typed, TypeOK
  <1> QED BY <1>2, <1>3

LEMMA UpgradeTyped ==
  ASSUME Typed, NEW c \in Slots, NEW list \in Seq(Stores),
         Upgrade(c, list, Detached(c)) \/ Upgrade(c, list, call), call[c].pc \in Loading
  PROVE  /\ loaded' \in BOOLEAN /\ page' \in BOOLEAN
         /\ keyStore' \in Stores \cup {NoStore} /\ multi' \in Seq(Stores)
         /\ vault' \in Vaults
         /\ call' \in [Slots -> Calls] /\ CallsOK'
  <1>1. keyStore' \in Stores \cup {NoStore} /\ multi' \in Seq(Stores)
    BY UpgradedTyped, UpgradedListTyped DEF Upgrade, Typed, TypeOK
  <1>2. CASE LoadedBy(c, Detached(c)) /\ UNCHANGED vault
    BY <1>1, <1>2, LoadedByTyped DEF Typed, TypeOK
  <1>3. CASE LoadedBy(c, call) /\ UNCHANGED vault
    BY <1>1, <1>3, LoadedByTyped DEF Typed, TypeOK
  <1> DEFINE r == [call[c] EXCEPT !.pc = "upgradeStore"]
  <1>4. GoodCall(r)
    BY GotoGood DEF Points, Typed, CallsOK, LocalsOK
  <1>5. ASSUME vault' = [vault EXCEPT !.store = keyStore'], UNCHANGED <<loaded, page>>,
               call' = [call EXCEPT ![c].pc = "upgradeStore"] \/ call' = [Detached(c) EXCEPT ![c].pc = "upgradeStore"]
        PROVE  /\ loaded' \in BOOLEAN /\ page' \in BOOLEAN /\ vault' \in Vaults
               /\ call' \in [Slots -> Calls] /\ CallsOK'
    <2>1. vault' \in Vaults
      BY <1>1, <1>5 DEF Typed, TypeOK, Vaults
    <2>2. call' = [call EXCEPT ![c] = r] \/ call' = [Detached(c) EXCEPT ![c] = r]
      BY <1>5, DetachedGood
    <2> HIDE DEF r
    <2> QED BY <1>4, <1>5, <2>1, <2>2, OneCall, DetachedCall DEF Typed, TypeOK
  <1> QED BY <1>1, <1>2, <1>3, <1>5 DEF Upgrade

(* restore() keeps the types.                                              *)
LEMMA RestoreTyped ==
  ASSUME Typed, NEW c \in Slots, Restore(c)
  PROVE  Typed'
  <1> USE DEF Typed
  <1>0. /\ call[c] \in Calls /\ LocalsOK(call[c])
        /\ call[c].pc \in Loading => call[c].op \in Loaders
    BY DEF TypeOK, CallsOK, LocalsOK
  <1>1. ASSUME NEW op \in {"restore", "enable"}, call' = [call EXCEPT ![c] = Restoring(c, op)],
               UNCHANGED <<memory, vault, page, crashes>>
        PROVE  Typed'
    <2>1. GoodCall(Restoring(c, op))
      BY IdleGood DEF GoodCall, Restoring, Idle, Calls, LocalsOK, Operations, Points, TypeOK, Vaults,
            Loaders, Loading
    <2> QED BY <1>1, <2>1, OneCall DEF memory, TypeOK
  <1>2. CASE BeginRestore(c) \/ BeginEnable(c)
    BY <1>1, <1>2 DEF BeginRestore, BeginEnable
  <1>3. CASE GotStore(c)
    <2> DEFINE r == [call[c] EXCEPT !.pc = "getMulti", !.list = vault.multi]
    <2>1. GoodCall(r)
      BY <1>0, <1>3 DEF GotStore, At, GoodCall, Calls, LocalsOK, Points, TypeOK, Vaults,
                             Loading, Loaders
    <2> QED BY <1>0, <1>3, <2>1, OneCall DEF GotStore, TypeOK, Calls
  <1>4. CASE GotMulti(c)
    <2>1. call[c].list \in Seq(Stores)
      BY <1>0, <1>4 DEF GotMulti, Calls
    <2> QED BY <1>4, <2>1, UpgradeTyped DEF GotMulti, At, TypeOK, Loading
  <1>5. CASE GotNoMulti(c)
    <2>1. CASE call[c].store = NoStore
      <3> DEFINE r == [call[c] EXCEPT !.pc = "adoptStore"]
      <3>1. GoodCall(r)
        BY <1>0, <1>5, GotoGood DEF GotNoMulti, At, Points, Loading
      <3>2. call' = [Detached(c) EXCEPT ![c] = r]
        BY <1>5, <2>1, DetachedGood DEF GotNoMulti
      <3>3. <<>> \in Seq(Stores)
        OBVIOUS
      <3> HIDE DEF r
      <3> QED BY <1>5, <2>1, <3>1, <3>2, <3>3, DetachedCall DEF GotNoMulti, TypeOK, Vaults
    <2>2. CASE call[c].store # NoStore
      <3> DEFINE r == [call[c] EXCEPT !.pc = "adoptNumber", !.num = vault.number + 1]
      <3>1. call[c].store \in Stores /\ vault.number + 1 \in Nat /\ call[c].op \in Loaders
        BY <1>0, <1>5, <2>2 DEF GotNoMulti, At, Calls, TypeOK, Vaults, Loading
      <3>2. r \in Calls
        BY <1>0, <3>1 DEF Calls, Points
      <3>3. /\ r.op = call[c].op /\ r.key = call[c].key /\ r.list = call[c].list
            /\ r.pc = "adoptNumber" /\ r.store = call[c].store
        BY <1>0 DEF Calls
      <3>4. GoodCall(r)
        BY <1>0, <3>1, <3>2, <3>3 DEF GoodCall, LocalsOK, Loaders, Loading
      <3> QED BY <1>5, <2>2, <3>4, OneCall DEF GotNoMulti, TypeOK
    <2> QED BY <2>1, <2>2
  <1>6. CASE AdoptSingleStore(c)
    <2> DEFINE s == [call[c].store EXCEPT !.id = call[c].num]
               r == [call[c] EXCEPT !.pc = "adoptStore"]
    <2>1. s \in Stores
      BY <1>0, <1>6 DEF AdoptSingleStore, At, LocalsOK, Calls, Stores
    <2>2. <<s>> \in Seq(Stores)
      BY <2>1
    <2>3. GoodCall(r)
      BY <1>0, <1>6, GotoGood DEF AdoptSingleStore, At, Points, Loading
    <2>4. call' = [Detached(c) EXCEPT ![c] = r]
      BY <1>6, DetachedGood DEF AdoptSingleStore
    <2> HIDE DEF r
    <2> QED BY <1>6, <2>1, <2>2, <2>3, <2>4, DetachedCall DEF AdoptSingleStore, TypeOK, Vaults
  <1>7. CASE AdoptedStoreSaved(c) \/ UpgradeStoreSaved(c)
    <2> DEFINE r(to) == [call[c] EXCEPT !.pc = to]
    <2>1. GoodCall(r("adoptMulti")) /\ GoodCall(r("upgradeMulti"))
      BY <1>0, <1>7, GotoGood DEF AdoptedStoreSaved, UpgradeStoreSaved, At, Points, Loading
    <2>2. call' = [call EXCEPT ![c] = r("adoptMulti")] \/ call' = [call EXCEPT ![c] = r("upgradeMulti")]
      BY <1>7 DEF AdoptedStoreSaved, UpgradeStoreSaved, Goto
    <2> HIDE DEF r
    <2> QED BY <1>7, <2>1, <2>2, OneCall DEF AdoptedStoreSaved, UpgradeStoreSaved, memory, TypeOK, Vaults
  <1>8. CASE AdoptedListSaved(c)
    BY <1>8, UpgradeTyped DEF AdoptedListSaved, At, TypeOK, Loading
  <1>9. CASE UpgradeListSaved(c)
    BY <1>9, LoadedByTyped DEF UpgradeListSaved, TypeOK
  <1> QED BY <1>2, <1>3, <1>4, <1>5, <1>6, <1>7, <1>8, <1>9 DEF Restore

-----------------------------------------------------------------------------
(* create*() and add*() keep the types.                                    *)
LEMMA CreateCheckedTyped ==
  ASSUME Typed, NEW c \in Slots, NEW create, GoodCall(create),
         create.op = "create", create.store = NoStore,
         CreateChecked(c, create), UNCHANGED <<page, crashes>>
  PROVE  Typed'
  <1> USE DEF Typed
  <1>1. create \in Calls /\ create.key \in Keys
    BY DEF GoodCall, LocalsOK
  <1>2. vault.number + 1 \in Nat /\ vault \in Vaults
    BY DEF TypeOK, Vaults
  <1>3. CASE Return(c) /\ UNCHANGED <<memory, vault>>
    BY <1>3, IdleGood, OneCall DEF Return, memory, TypeOK
  <1>4. GoodCall([create EXCEPT !.pc = "device"])
    BY <1>1 DEF GoodCall, LocalsOK, Calls, Points, Loading
  <1>5. GoodCall([create EXCEPT !.pc = "getNumber", !.num = vault.number + 1])
    <2> DEFINE r == [create EXCEPT !.pc = "getNumber", !.num = vault.number + 1]
    <2>1. "getNumber" \in Points
      BY DEF Points, Loading
    <2>2. r \in Calls
      BY <1>1, <1>2, <2>1 DEF Calls
    <2>3. /\ r.pc = "getNumber" /\ r.op = "create" /\ r.key = create.key
          /\ r.store = NoStore /\ r.list = create.list
      BY <1>1 DEF Calls
    <2> HIDE DEF r
    <2>4. LocalsOK(r)
      BY <1>1, <2>3 DEF LocalsOK, Loading
    <2> QED BY <2>2, <2>4 DEF GoodCall, r
  <1>6. CASE UNCHANGED <<memory, vault>> /\ call' = [call EXCEPT ![c] = [create EXCEPT !.pc = "device"]]
    BY <1>4, <1>6, OneCall DEF memory, TypeOK
  <1>7. CASE /\ secret' = Holding(create.key)
             /\ call' = [call EXCEPT ![c] = [create EXCEPT !.pc = "getNumber", !.num = vault.number + 1]]
             /\ UNCHANGED <<loaded, keyStore, multi, password, vault>>
    BY <1>1, <1>5, <1>7, OneCall, HoldingTyped DEF TypeOK
  <1> QED BY <1>3, <1>6, <1>7 DEF CreateChecked

(* Encrypting a key makes a key store.                                     *)
LEMMA CiphertextTyped ==
  ASSUME NEW id \in Nat, NEW k \in Keys, NEW p \in Passwords \cup {NoPassword}
  PROVE  Ciphertext(id, k, p) \in Stores
  BY DEF Ciphertext, Stores

LEMMA CreateOrAddTyped ==
  ASSUME Typed, NEW c \in Slots, CreateOrAdd(c)
  PROVE  Typed'
  <1> USE DEF Typed
  <1>0. /\ call[c] \in Calls /\ LocalsOK(call[c])
        /\ call[c].pc \in Loading => call[c].op \in Loaders
        /\ vault \in Vaults /\ vault.number + 1 \in Nat
    BY DEF TypeOK, CallsOK, LocalsOK, Vaults
  <1>1. ASSUME NEW k \in Keys, NEW p \in Passwords, BeginCreate(c, k, p)
        PROVE  Typed'
    <2> DEFINE create == [Idle EXCEPT !.op = "create", !.key = k, !.pw = p]
               r == [create EXCEPT !.pc = "getStore", !.store = vault.store]
    <2>1. create \in Calls /\ create.op = "create" /\ create.key = k /\ create.pc = "idle"
      BY IdleGood DEF GoodCall, Calls, Operations, Idle
    <2>2. create.store = NoStore
      BY DEF Idle
    <2>3. GoodCall(create)
      BY <2>1 DEF GoodCall, LocalsOK, Loading
    <2>4. r \in Calls /\ r.op = "create" /\ r.key = k /\ r.pc = "getStore"
      <3> HIDE DEF create
      <3>1. "getStore" \in Points /\ vault.store \in Stores \cup {NoStore}
        BY <1>0 DEF Points, Vaults
      <3> QED BY <2>1, <3>1 DEF Calls
    <2>5. GoodCall(r)
      BY <2>4 DEF GoodCall, LocalsOK, Loading, Loaders
    <2>6. CASE CreateChecked(c, create)
      <3> HIDE DEF create
      <3> QED BY <1>1, <2>1, <2>2, <2>3, <2>6, CreateCheckedTyped DEF BeginCreate
    <2>7. CASE call' = [call EXCEPT ![c] = r] /\ UNCHANGED <<memory, vault>>
      <3> HIDE DEF r
      <3> QED BY <1>1, <2>5, <2>7, OneCall DEF BeginCreate, memory, TypeOK
    <2> QED BY <1>1, <2>6, <2>7 DEF BeginCreate
  <1>2. CASE CheckCreate(c)
    <2> DEFINE create == [call[c] EXCEPT !.store = NoStore, !.list = <<>>]
    <2>1. call[c].op = "create" /\ call[c].pc = "check" /\ call[c].key \in Keys
      BY <1>0, <1>2 DEF CheckCreate, At, LocalsOK
    <2>2. /\ create \in Calls /\ create.op = "create" /\ create.store = NoStore
          /\ create.pc = "check" /\ create.key \in Keys
      <3>1. <<>> \in Seq(Stores) \cup {Absent}
        OBVIOUS
      <3> QED BY <1>0, <2>1, <3>1 DEF Calls
    <2>3. GoodCall(create)
      BY <2>2 DEF GoodCall, LocalsOK, Loading, Loaders
    <2> QED BY <1>2, <2>2, <2>3, CreateCheckedTyped DEF CheckCreate
  <1>3. CASE WriteNumber(c)
    <2> DEFINE to == IF At(c, "getNumber") THEN "encrypt" ELSE "setNumber"
               r == [call[c] EXCEPT !.pc = to]
    <2>1. r \in Calls
      BY <1>0 DEF Calls, Points
    <2>2. /\ r.op = call[c].op /\ r.key = call[c].key /\ r.list = call[c].list
          /\ r.pc = to /\ r.store = call[c].store
      BY <1>0 DEF Calls
    <2>3. GoodCall(r)
      BY <1>0, <1>3, <2>1, <2>2 DEF WriteNumber, At, GoodCall, LocalsOK, Loading, Loaders
    <2>4. vault' \in Vaults /\ call' = [call EXCEPT ![c] = r]
      BY <1>0, <1>3 DEF WriteNumber, Goto, Calls, Vaults
    <2> HIDE DEF r
    <2> QED BY <1>3, <2>3, <2>4, OneCall DEF WriteNumber, memory, TypeOK
  <1>4. ASSUME NEW k \in Keys, BeginAdd(c, k)
        PROVE  Typed'
    <2> DEFINE add == [Idle EXCEPT !.op = "add", !.key = k]
               r1 == [add EXCEPT !.pc = "device"]
               r2 == [add EXCEPT !.pc = "getNumber", !.pw = password, !.num = vault.number + 1]
    <2>1. add \in Calls /\ add.op = "add" /\ add.key = k
      BY IdleGood DEF GoodCall, Calls, Operations, Idle
    <2>2. "device" \in Points /\ "getNumber" \in Points /\ password \in Passwords \cup {NoPassword}
      BY DEF Points, TypeOK
    <2> HIDE DEF add
    <2>3. r1 \in Calls /\ r1.op = "add" /\ r1.key = k /\ r1.pc = "device"
      BY <2>1, <2>2 DEF Calls
    <2>4. r2 \in Calls /\ r2.op = "add" /\ r2.key = k /\ r2.pc = "getNumber"
      BY <1>0, <2>1, <2>2 DEF Calls
    <2> HIDE DEF r1, r2
    <2>5. GoodCall(r1) /\ GoodCall(r2)
      BY <2>3, <2>4 DEF GoodCall, LocalsOK, Loading
    <2>6. call' = [call EXCEPT ![c] = r1] \/ call' = [call EXCEPT ![c] = r2]
      BY <1>4 DEF BeginAdd, add, r1, r2
    <2> QED BY <1>4, <2>5, <2>6, OneCall DEF BeginAdd, memory, TypeOK
  <1>5. CASE DeviceAnswers(c)
    <2> DEFINE pw == IF call[c].op = "add" THEN password ELSE call[c].pw
               r == [call[c] EXCEPT !.pc = "getNumber", !.num = vault.number + 1, !.pw = pw]
    <2>1. "getNumber" \in Points /\ pw \in Passwords \cup {NoPassword}
      BY <1>0 DEF Points, TypeOK, Calls
    <2>2. call' = [call EXCEPT ![c] = r]
      BY <1>5 DEF DeviceAnswers
    <2> HIDE DEF pw
    <2>3. r \in Calls /\ r.op = call[c].op /\ r.key = call[c].key /\ r.pc = "getNumber" /\ r.list = call[c].list
      BY <1>0, <2>1 DEF Calls
    <2> HIDE DEF r
    <2>4. GoodCall(r)
      BY <1>0, <1>5, <2>3 DEF DeviceAnswers, GoodCall, LocalsOK, Loading
    <2> QED BY <1>5, <2>2, <2>4, OneCall DEF DeviceAnswers, memory, TypeOK
  <1>6. CASE DeviceFails(c)
    BY <1>6, IdleGood, OneCall DEF DeviceFails, Return, memory, TypeOK
  <1>7. CASE FinishCreate(c) \/ FinishAdd(c)
    <2> DEFINE r == [call[c] EXCEPT !.pc = "setStore"]
    <2>1. call[c].key \in Keys
      BY <1>0, <1>7 DEF FinishCreate, FinishAdd, LocalsOK
    <2>2. Encrypted(c) \in Stores
      BY <1>0, <2>1, CiphertextTyped DEF Encrypted, Calls
    <2>3. Pushed(c) \in Seq(Stores)
      BY <2>2 DEF Pushed, TypeOK
    <2>4. GoodCall(r) /\ call' = [call EXCEPT ![c] = r]
      BY <1>7, GotoGood DEF Points, Loading, FinishCreate, FinishAdd, Saving
    <2> HIDE DEF r
    <2>5. call' \in [Slots -> Calls] /\ CallsOK'
      BY <2>4, OneCall
    <2>6. CASE FinishCreate(c)
      BY <1>0, <2>1, <2>2, <2>3, <2>5, <2>6, HoldingTyped DEF FinishCreate, TypeOK, Vaults, Calls
    <2>7. CASE FinishAdd(c)
      BY <1>0, <2>3, <2>5, <2>7 DEF FinishAdd, TypeOK, Vaults
    <2> QED BY <1>7, <2>6, <2>7
  <1> QED BY <1>1, <1>2, <1>3, <1>4, <1>5, <1>6, <1>7 DEF CreateOrAdd

-----------------------------------------------------------------------------
(* Loading the secret of a key store that opened keeps the types.          *)
LEMMA OpenTyped ==
  ASSUME Typed, NEW c \in Slots, NEW s \in Stores, Open(c, s)
  PROVE  secret' \in SUBSET Keys /\ password' \in Passwords \cup {NoPassword}
  BY HoldingTyped DEF Open, Typed, TypeOK, Calls, Stores

LEMMA SavingGood ==
  ASSUME Typed, NEW c \in Slots, call' = Saving(call, c) \/ call' = Saving(Detached(c), c)
  PROVE  call' \in [Slots -> Calls] /\ CallsOK'
  <1> DEFINE r == [call[c] EXCEPT !.pc = "setStore"]
  <1>1. GoodCall(r)
    BY GotoGood DEF Points, Loading
  <1>2. call' = [call EXCEPT ![c] = r] \/ call' = [Detached(c) EXCEPT ![c] = r]
    BY DetachedGood DEF Saving
  <1> HIDE DEF r
  <1> QED BY <1>1, <1>2, OneCall, DetachedCall

LEMMA ReturnGood ==
  ASSUME Typed, NEW c \in Slots, Return(c)
  PROVE  call' \in [Slots -> Calls] /\ CallsOK'
  BY IdleGood, OneCall DEF Return

(* A list without one of its key stores is a list of key stores.           *)
LEMMA RemoveAtTyped ==
  ASSUME NEW list \in Seq(Stores), NEW i \in DOMAIN list
  PROVE  RemoveAt(list, i) \in Seq(Stores)
  <1>1. i \in 1..Len(list) /\ Len(list) \in Nat
    BY LenProperties
  <1>2. SubSeq(list, 1, i - 1) \in Seq(Stores) /\ SubSeq(list, i + 1, Len(list)) \in Seq(Stores)
    BY <1>1, SubSeqProperties
  <1> QED BY <1>2, ConcatProperties DEF RemoveAt

LEMMA DeleteFromTyped ==
  ASSUME Typed, NEW c \in Slots, call[c].list \in Seq(Stores),
         NEW selected \in Stores \cup {NoStore}, DeleteFrom(c, selected)
  PROVE  /\ keyStore' \in Stores \cup {NoStore} /\ multi' \in Seq(Stores) /\ vault' \in Vaults
         /\ call' \in [Slots -> Calls] /\ CallsOK'
  BY SavingGood DEF DeleteFrom, Typed, TypeOK, Vaults

(* unlock(), the change, the deletion and the renaming of an account keep  *)
(* the types.                                                              *)
LEMMA SelectTyped ==
  ASSUME Typed, NEW c \in Slots, Select(c)
  PROVE  Typed'
  <1> USE DEF Typed
  <1>0. /\ call[c] \in Calls /\ LocalsOK(call[c])
        /\ vault \in Vaults /\ multi \in Seq(Stores) /\ keyStore \in Stores \cup {NoStore}
        /\ password \in Passwords \cup {NoPassword}
        /\ call[c].pc \in {"decrypt", "reopen"} => call[c].store \in Stores
        /\ call[c].op = "delete" => call[c].list \in Seq(Stores)
    BY DEF TypeOK, CallsOK, LocalsOK
  <1>a. \A i \in DOMAIN multi : multi[i] \in Stores
    BY <1>0, ElementOfSeq, LenProperties
  <1> DEFINE r(op, pw, s) == [Idle EXCEPT !.op = op, !.pc = "decrypt", !.store = s, !.pw = pw]
  <1>b. ASSUME NEW op \in {"unlock", "change"}, NEW pw \in Passwords \cup {NoPassword}, NEW s \in Stores
        PROVE  GoodCall(r(op, pw, s))
    <2>1. "decrypt" \in Points /\ op \in Operations /\ Idle \in Calls
      BY IdleGood DEF Points, Operations, GoodCall
    <2>2. r(op, pw, s) \in Calls
      BY <2>1 DEF Calls
    <2>3. r(op, pw, s).op = op /\ r(op, pw, s).pc = "decrypt" /\ r(op, pw, s).store = s
      BY DEF Idle
    <2> HIDE DEF r
    <2> QED BY <2>2, <2>3 DEF GoodCall, LocalsOK, Loading
  <1>1. ASSUME NEW p \in Passwords, BeginUnlock(c, p)
        PROVE  Typed'
    <2>1. call' = [call EXCEPT ![c] = r("unlock", p, keyStore)] /\ keyStore \in Stores
      BY <1>0, <1>1 DEF BeginUnlock
    <2>2. GoodCall(r("unlock", p, keyStore))
      BY <1>b, <2>1
    <2> HIDE DEF r
    <2> QED BY <1>1, <2>1, <2>2, OneCall DEF BeginUnlock, memory, TypeOK
  <1>2. ASSUME NEW i \in DOMAIN multi, BeginChange(c, i)
        PROVE  Typed'
    <2>1. call' = [call EXCEPT ![c] = r("change", password, multi[i])]
      BY <1>2 DEF BeginChange
    <2>2. GoodCall(r("change", password, multi[i]))
      BY <1>0, <1>a, <1>b
    <2> HIDE DEF r
    <2> QED BY <1>a, <1>2, <2>1, <2>2, OneCall DEF BeginChange, TypeOK
  <1>3. ASSUME NEW i \in DOMAIN multi, BeginDelete(c, i)
        PROVE  Typed'
    <2> DEFINE del == [Idle EXCEPT !.op = "delete", !.pc = "decrypt", !.pw = password,
                                   !.store = multi[i], !.list = RemoveAt(multi, i)]
    <2>1. /\ "decrypt" \in Points /\ "delete" \in Operations /\ Idle \in Calls
          /\ RemoveAt(multi, i) \in Seq(Stores) /\ multi[i] \in Stores
      BY <1>0, <1>a, IdleGood, RemoveAtTyped DEF Points, Operations, GoodCall
    <2>2. del \in Calls
      BY <1>0, <2>1 DEF Calls
    <2>3. del.op = "delete" /\ del.pc = "decrypt" /\ del.store = multi[i] /\ del.list = RemoveAt(multi, i)
      BY DEF Idle
    <2>4. call' = [call EXCEPT ![c] = del]
      BY <1>3 DEF BeginDelete
    <2> HIDE DEF del
    <2>5. GoodCall(del)
      BY <2>1, <2>2, <2>3 DEF GoodCall, LocalsOK, Loading
    <2> QED BY <1>3, <2>4, <2>5, OneCall DEF BeginDelete, memory, TypeOK
  <1>4. ASSUME NEW i \in DOMAIN multi, Rename(c, i)
        PROVE  Typed'
    <2> DEFINE ren == [Idle EXCEPT !.op = "rename", !.pc = "setStore"]
    <2>1. "setStore" \in Points /\ "rename" \in Operations /\ Idle \in Calls
      BY IdleGood DEF Points, Operations, GoodCall
    <2>2. ren \in Calls /\ ren.op = "rename" /\ ren.pc = "setStore"
      BY <2>1 DEF Calls
    <2>3. call' = [call EXCEPT ![c] = ren]
      BY <1>4 DEF Rename
    <2> HIDE DEF ren
    <2>4. GoodCall(ren)
      BY <2>2 DEF GoodCall, LocalsOK, Loading
    <2>5. Reselected(multi[i]) \in Stores \cup {NoStore}
      BY <1>0, <1>a DEF Reselected
    <2> QED BY <1>0, <1>4, <2>3, <2>4, <2>5, OneCall DEF Rename, TypeOK, Vaults
  <1>5. CASE FinishUnlock(c)
    BY <1>0, <1>5, OpenTyped, ReturnGood DEF FinishUnlock, At, TypeOK
  <1>6. CASE FinishChange(c)
    BY <1>0, <1>6, OpenTyped, ReturnGood, SavingGood DEF FinishChange, At, TypeOK, Vaults
  <1>7. CASE FinishDelete(c)
    <2>0. call[c].list \in Seq(Stores)
      BY <1>0, <1>7 DEF FinishDelete
    <2>1. CASE DeleteOther(c)
      BY <1>0, <1>7, <2>0, <2>1, DeleteFromTyped DEF FinishDelete, DeleteOther, TypeOK
    <2>2. CASE DeleteLast(c)
      BY <1>0, <1>7, <2>0, <2>2, DeleteFromTyped DEF FinishDelete, DeleteLast, TypeOK
    <2>3. CASE DeleteSelected(c)
      <3>1. CASE Return(c) /\ UNCHANGED <<keyStore, secret, password>>
        BY <1>7, <2>3, <3>1, ReturnGood DEF FinishDelete, DeleteSelected, TypeOK
      <3>2. CASE secret' = {} /\ password' = NoPassword /\ keyStore' = Head(call[c].list) /\ Goto(c, "reopen")
        <4> DEFINE re == [call[c] EXCEPT !.pc = "reopen"]
        <4>1. Head(call[c].list) \in Stores
          BY <2>0, <2>3, HeadTailProperties DEF DeleteSelected
        <4>2. "reopen" \in Points
          BY DEF Points
        <4>3. /\ re \in Calls /\ re.op = "delete" /\ re.pc = "reopen" /\ re.store \in Stores
              /\ re.list \in Seq(Stores) /\ re.list # <<>>
          BY <1>0, <1>7, <2>0, <2>3, <4>2 DEF FinishDelete, DeleteSelected, At, Calls
        <4>4. call' = [call EXCEPT ![c] = re]
          BY <3>2 DEF Goto
        <4> HIDE DEF re
        <4>5. GoodCall(re)
          BY <4>3 DEF GoodCall, LocalsOK, Loading
        <4> QED BY <1>7, <2>3, <3>2, <4>1, <4>4, <4>5, OneCall DEF FinishDelete, DeleteSelected, TypeOK
      <3> QED BY <2>3, <3>1, <3>2 DEF DeleteSelected
    <2>4. CASE DeleteRefused(c)
      BY <1>7, <2>4, ReturnGood DEF FinishDelete, DeleteRefused, TypeOK
    <2> QED BY <1>7, <2>1, <2>2, <2>3, <2>4 DEF FinishDelete
  <1>8. CASE ReopenAfterDelete(c)
    <2>1. call[c].list \in Seq(Stores) /\ Head(call[c].list) \in Stores
      BY <1>0, <1>8, HeadTailProperties DEF ReopenAfterDelete, At, LocalsOK
    <2>2. CASE Open(c, Head(call[c].list)) /\ DeleteFrom(c, keyStore)
      BY <1>0, <1>8, <2>1, <2>2, OpenTyped, DeleteFromTyped DEF ReopenAfterDelete, TypeOK
    <2>3. CASE DeleteRefused(c)
      BY <1>8, <2>3, ReturnGood DEF ReopenAfterDelete, DeleteRefused, TypeOK
    <2> QED BY <1>8, <2>2, <2>3 DEF ReopenAfterDelete
  <1> QED BY <1>1, <1>2, <1>3, <1>4, <1>5, <1>6, <1>7, <1>8 DEF Select

-----------------------------------------------------------------------------
(* Every nonempty set of natural numbers has a least element.              *)
LEMMA LeastNatural ==
  ASSUME NEW T \in SUBSET Nat, T # {}
  PROVE  \E x \in T : \A y \in T : x <= y
  <1>1. \E x \in T : \A y \in T : ~ (<<y, x>> \in OpToRel(<, Nat))
    BY WFMin, NatLessThanWellFounded, Zenon
  <1>2. \A x, y \in T : y < x => <<y, x>> \in OpToRel(<, Nat)
    BY DEF OpToRel
  <1>3. PICK x \in T : \A y \in T : ~ (y < x)
    BY <1>1, <1>2, Zenon
  <1> QED BY <1>3

(* The next key store that updatePassword() visits is one of the list.     *)
LEMMA NextTypedInList ==
  ASSUME NEW list \in Seq(Stores), NEW from \in Nat \ {0}, NextTyped(list, from) # 0
  PROVE  NextTyped(list, from) \in 1..Len(list) /\ list[NextTyped(list, from)] \in Stores
  <1> DEFINE typed == {i \in from..Len(list) : list[i].typed}
  <1>1. typed # {}
    BY DEF NextTyped
  <1>2. Len(list) \in Nat /\ typed \subseteq 1..Len(list)
    BY LenProperties
  <1>3. \E i \in typed : \A j \in typed : i <= j
    <2> HIDE DEF typed
    <2> QED BY <1>1, <1>2, LeastNatural
  <1>4. NextTyped(list, from) \in typed
    BY <1>1, <1>3 DEF NextTyped
  <1> QED BY <1>2, <1>4, ElementOfSeq

(* What the end of updatePassword() writes.                                *)
LEMMA PasswordReplacedTyped ==
  ASSUME Typed, NEW c \in Slots, NEW list \in Seq(Stores), NEW new \in Passwords \cup {NoPassword},
         keyStore' \in Stores \cup {NoStore}, PasswordReplaced(c, list, new)
  PROVE  /\ multi' \in Seq(Stores) /\ password' \in Passwords \cup {NoPassword} /\ vault' \in Vaults
         /\ call' \in [Slots -> Calls] /\ CallsOK'
  <1> DEFINE r == [Idle EXCEPT !.op = "updatePassword", !.pc = "setStore"]
  <1>1. "setStore" \in Points /\ "updatePassword" \in Operations /\ Idle \in Calls /\ <<>> \in Seq(Stores)
    BY IdleGood DEF Points, Operations, GoodCall
  <1>2. r \in Calls /\ r.op = "updatePassword" /\ r.pc = "setStore" /\ r.list = <<>>
    BY <1>1 DEF Calls, Idle
  <1>3. call' = [Detached(c) EXCEPT ![c] = r]
    BY DEF PasswordReplaced
  <1> HIDE DEF r
  <1>4. GoodCall(r)
    BY <1>1, <1>2 DEF GoodCall, LocalsOK, Loading
  <1> QED BY <1>3, <1>4, DetachedCall DEF PasswordReplaced, Typed, TypeOK, Vaults

(* updatePassword(), initializeNonDefaultLedgerApp() and the calls that    *)
(* only save keep the types.                                               *)
LEMMA RewriteTyped ==
  ASSUME Typed, NEW c \in Slots, Rewrite(c)
  PROVE  Typed'
  <1> USE DEF Typed
  <1>0. /\ call[c] \in Calls /\ LocalsOK(call[c])
        /\ vault \in Vaults /\ multi \in Seq(Stores) /\ keyStore \in Stores \cup {NoStore}
        /\ password \in Passwords \cup {NoPassword}
    BY DEF TypeOK, CallsOK
  <1>a. ASSUME NEW op \in {"setCoinType", "removeCoinTypes"}, vault' = [vault EXCEPT !.store = keyStore],
               call' = [call EXCEPT ![c] = [Idle EXCEPT !.op = op, !.pc = "setStore"]],
               UNCHANGED <<memory, page, crashes>>
        PROVE  Typed'
    <2> DEFINE r == [Idle EXCEPT !.op = op, !.pc = "setStore"]
    <2>1. "setStore" \in Points /\ op \in Operations /\ Idle \in Calls
      BY IdleGood DEF Points, Operations, GoodCall
    <2>2. r \in Calls /\ r.op = op /\ r.pc = "setStore"
      BY <2>1 DEF Calls
    <2>3. call' = [call EXCEPT ![c] = r]
      BY <1>a
    <2> HIDE DEF r
    <2>4. GoodCall(r)
      BY <2>2 DEF GoodCall, LocalsOK, Loading
    <2> QED BY <1>0, <1>a, <2>3, <2>4, OneCall DEF memory, TypeOK, Vaults
  <1>1. CASE SetCoinType(c) \/ RemoveCoinTypes(c)
    BY <1>1, <1>a DEF SetCoinType, RemoveCoinTypes
  <1>2. CASE StoreSaved(c)
    BY <1>0, <1>2, ReturnGood DEF StoreSaved, memory, TypeOK, Vaults
  <1>3. ASSUME NEW new \in Passwords, BeginUpdatePassword(c, new)
        PROVE  Typed'
    <2> DEFINE i == NextTyped(multi, 1)
               r == [Idle EXCEPT !.op = "updatePassword", !.pc = "reencrypt", !.pw = password,
                                 !.new = new, !.num = i, !.store = multi[i], !.live = TRUE]
    <2>1. CASE i = 0
      <3>1. PasswordReplaced(c, <<>>, new) /\ <<>> \in Seq(Stores)
        BY <1>3, <2>1 DEF BeginUpdatePassword
      <3> QED BY <1>3, <3>1, PasswordReplacedTyped DEF BeginUpdatePassword, TypeOK
    <2>2. CASE i # 0
      <3>1. i \in Nat /\ multi[i] \in Stores
        <4>1. i \in 1..Len(multi) /\ multi[i] \in Stores
          BY <1>0, <2>2, NextTypedInList
        <4> QED BY <1>0, <4>1, LenProperties
      <3>2. /\ "reencrypt" \in Points /\ "updatePassword" \in Operations /\ Idle \in Calls
            /\ TRUE \in BOOLEAN
        BY IdleGood DEF Points, Operations, GoodCall
      <3>3. call' = [call EXCEPT ![c] = r] /\ UNCHANGED <<multi, password, vault>>
        BY <1>3, <2>2 DEF BeginUpdatePassword
      <3> HIDE DEF i
      <3>4. r \in Calls
        BY <1>0, <3>1, <3>2 DEF Calls
      <3>5. /\ r.op = "updatePassword" /\ r.pc = "reencrypt" /\ r.store = multi[i]
            /\ r.list = <<>> /\ <<>> \in Seq(Stores)
        BY DEF Idle
      <3> HIDE DEF r
      <3>6. GoodCall(r)
        BY <3>1, <3>4, <3>5 DEF GoodCall, LocalsOK, Loading
      <3> QED BY <1>3, <3>3, <3>6, OneCall DEF BeginUpdatePassword, TypeOK
    <2> QED BY <2>1, <2>2
  <1>4. CASE Reencrypt(c)
    <2> DEFINE new == [call[c].store EXCEPT !.pw = call[c].new]
               list == Append(call[c].list, new)
               i == NextTyped(Iterated(c), call[c].num + 1)
    <2>1. call[c].store \in Stores /\ call[c].list \in Seq(Stores) /\ call[c].op = "updatePassword"
      BY <1>0, <1>4 DEF Reencrypt, At, LocalsOK
    <2>2. new \in Stores
      BY <1>0, <2>1 DEF Calls, Stores
    <2>3. list \in Seq(Stores)
      BY <2>1, <2>2, AppendProperties
    <2>4. Reselected(new) \in Stores \cup {NoStore}
      BY <1>0, <2>2 DEF Reselected
    <2>5. Iterated(c) \in Seq(Stores) /\ call[c].num + 1 \in Nat \ {0} /\ call[c].new \in Passwords \cup {NoPassword}
      BY <1>0 DEF Iterated, Calls
    <2>6. CASE Return(c) /\ UNCHANGED <<keyStore, multi, password, vault>>
      BY <1>4, <2>6, ReturnGood DEF Reencrypt, TypeOK
    <2>7. CASE keyStore' = Reselected(new) /\ PasswordReplaced(c, list, call[c].new)
      <3> HIDE DEF new, list
      <3> QED BY <1>4, <2>3, <2>4, <2>5, <2>7, PasswordReplacedTyped DEF Reencrypt, TypeOK
    <2>8. CASE /\ i # 0 /\ keyStore' = Reselected(new) /\ UNCHANGED <<multi, password, vault>>
               /\ call' = [call EXCEPT ![c].list = list, ![c].num = i, ![c].store = Iterated(c)[i]]
      <3> DEFINE r == [call[c] EXCEPT !.list = list, !.num = i, !.store = Iterated(c)[i]]
      <3>1. i \in Nat /\ Iterated(c)[i] \in Stores
        <4>1. i \in 1..Len(Iterated(c)) /\ Iterated(c)[i] \in Stores
          BY <2>5, <2>8, NextTypedInList
        <4> QED BY <2>5, <4>1, LenProperties
      <3>2. call' = [call EXCEPT ![c] = r]
        BY <2>8
      <3> HIDE DEF new, list, i
      <3>3. /\ r \in Calls /\ r.op = "updatePassword" /\ r.pc = call[c].pc
            /\ r.list = list /\ r.store = Iterated(c)[i]
        BY <1>0, <2>1, <2>3, <3>1 DEF Calls
      <3> HIDE DEF r
      <3>4. GoodCall(r)
        BY <1>0, <1>4, <2>3, <3>1, <3>3 DEF Reencrypt, At, GoodCall, LocalsOK, Loading
      <3> QED BY <1>4, <2>4, <2>8, <3>2, <3>4, OneCall DEF Reencrypt, TypeOK
    <2> HIDE DEF new, list, i
    <2> QED BY <1>4, <2>6, <2>7, <2>8 DEF Reencrypt, new, list, i
  <1>5. CASE BeginInitLedgerApp(c)
    <2> DEFINE r == [Idle EXCEPT !.op = "initLedgerApp", !.pc = "device", !.key = keyStore.key]
    <2>1. /\ "device" \in Points /\ "initLedgerApp" \in Operations /\ Idle \in Calls
          /\ keyStore.key \in Keys
      BY <1>0, <1>5, IdleGood DEF BeginInitLedgerApp, Points, Operations, GoodCall, Stores
    <2>2. r \in Calls /\ r.op = "initLedgerApp" /\ r.pc = "device" /\ r.key = keyStore.key
      BY <2>1 DEF Calls
    <2>3. call' = [call EXCEPT ![c] = r]
      BY <1>5 DEF BeginInitLedgerApp
    <2> HIDE DEF r
    <2>4. GoodCall(r)
      BY <2>1, <2>2 DEF GoodCall, LocalsOK, Loading
    <2> QED BY <1>5, <2>3, <2>4, OneCall DEF BeginInitLedgerApp, memory, TypeOK
  <1>6. CASE LedgerAppAnswers(c)
    <2>1. CASE Return(c)
      BY <1>6, <2>1, ReturnGood DEF LedgerAppAnswers, memory, TypeOK
    <2>2. CASE keyStore # NoStore
      <3> DEFINE k == JoinedWith(call[c].key)
                 s == Ciphertext(keyStore.id, k, password)
                 r == [call[c] EXCEPT !.pc = "encrypt", !.key = k, !.store = s]
      <3>1. call[c].key \in Keys /\ secret \in SUBSET Keys
        BY <1>0, <1>6 DEF LedgerAppAnswers, LocalsOK, TypeOK
      <3>2. k \in Keys
        BY <3>1 DEF JoinedWith
      <3> HIDE DEF k
      <3>3. s \in Stores
        BY <1>0, <2>2, <3>2, CiphertextTyped DEF Stores
      <3> HIDE DEF s
      <3>4. "encrypt" \in Points
        BY DEF Points
      <3>5. /\ r \in Calls /\ r.op = "initLedgerApp" /\ r.pc = "encrypt" /\ r.key \in Keys
            /\ r.store \in Stores
        BY <1>0, <1>6, <3>2, <3>3, <3>4 DEF LedgerAppAnswers, Calls
      <3>6. call' = [call EXCEPT ![c] = r]
        BY <1>6, <2>2 DEF LedgerAppAnswers, k, s
      <3> HIDE DEF r
      <3>7. GoodCall(r)
        BY <3>5 DEF GoodCall, LocalsOK, Loading
      <3> QED BY <1>6, <3>6, <3>7, OneCall DEF LedgerAppAnswers, memory, TypeOK
    <2> QED BY <1>6, <2>1, <2>2 DEF LedgerAppAnswers
  <1>7. CASE FinishInitLedgerApp(c)
    <2>1. CASE Return(c) /\ UNCHANGED <<keyStore, multi, secret, vault>>
      BY <1>7, <2>1, ReturnGood DEF FinishInitLedgerApp, TypeOK
    <2>2. ASSUME NEW i \in DOMAIN multi, multi' = [multi EXCEPT ![i] = call[c].store],
                 secret' = Holding(call[c].key), keyStore' = call[c].store,
                 vault' = [vault EXCEPT !.store = call[c].store], call' = Saving(call, c)
          PROVE  Typed'
      <3>1. call[c].store \in Stores /\ call[c].key \in Keys
        BY <1>0, <1>7 DEF FinishInitLedgerApp, At, LocalsOK
      <3>2. multi' \in Seq(Stores)
        BY <1>0, <2>2, <3>1, ExceptSeq, LenProperties
      <3> QED BY <1>0, <1>7, <2>2, <3>1, <3>2, HoldingTyped, SavingGood DEF FinishInitLedgerApp, TypeOK, Vaults
    <2> QED BY <1>7, <2>1, <2>2 DEF FinishInitLedgerApp
  <1>8. CASE \E p \in Passwords : BeginUpdatePassword(c, p)
    BY <1>3, <1>8
  <1> QED BY <1>1, <1>2, <1>4, <1>5, <1>6, <1>7, <1>8 DEF Rewrite

-----------------------------------------------------------------------------
LEMMA InitTyped == Init => Typed
  <1> SUFFICES ASSUME Init PROVE Typed
    OBVIOUS
  <1>1. call \in [Slots -> Calls] /\ CallsOK
    BY IdleGood DEF Init, GoodCall, CallsOK
  <1>2. <<>> \in Seq(Stores)
    OBVIOUS
  <1> QED BY <1>1, <1>2, VaultAssumption DEF Init, Typed, TypeOK

LEMMA StepTyped == Typed /\ [Next]_vars => Typed'
  <1> SUFFICES ASSUME Typed, [Next]_vars PROVE Typed'
    OBVIOUS
  <1>1. ASSUME NEW c \in Slots, Restore(c) \/ CreateOrAdd(c) \/ Select(c) \/ Rewrite(c)
        PROVE  Typed'
    BY <1>1, RestoreTyped, CreateOrAddTyped, SelectTyped, RewriteTyped
  <1>2. CASE Lock
    BY <1>2 DEF Lock, Typed, TypeOK, CallsOK
  <1>3. CASE Crash
    <2>1. call' \in [Slots -> Calls] /\ CallsOK'
      BY <1>3, IdleGood DEF Crash, GoodCall, CallsOK
    <2>2. <<>> \in Seq(Stores) /\ FALSE \in BOOLEAN /\ page' \in BOOLEAN /\ crashes' \in Nat
      BY <1>3, BoundAssumption DEF Crash, Typed, TypeOK
    <2> QED BY <1>3, <2>1, <2>2 DEF Crash, Typed, TypeOK
  <1>4. CASE UNCHANGED vars
    BY <1>4 DEF vars, Typed, TypeOK, CallsOK
  <1> QED BY <1>1, <1>2, <1>3, <1>4 DEF Next

(* Every reachable state has the types that the code declares, and every   *)
(* call finds in its locals what the code after its await reads: a key to  *)
(* encrypt, a key store to decrypt, a list to write.                       *)
THEOREM TypeCorrect == Spec => []TypeOK
  <1>1. Spec => []Typed
    BY InitTyped, StepTyped, PTL DEF Spec
  <1>2. Typed => TypeOK
    BY DEF Typed
  <1> QED BY <1>1, <1>2, PTL

-----------------------------------------------------------------------------
(***************************************************************************)
(* A wallet that is unlocked remembers its password, however many calls    *)
(* overlap, if only one slot loads or creates the key ring and no further  *)
(* Ledger app is initialised.  Both conditions are needed: an answer of a  *)
(* Ledger after a lock unlocks the wallet without a password.              *)
(***************************************************************************)

(* The only calls that load the key ring are those of slot u: the page     *)
(* that is opened first, or that registers the first account.              *)
OneLoader(u) ==
    /\ u \in Slots
    /\ \A c \in Slots : "initLedgerApp" \notin Allowed[c]
    /\ \A c \in Slots \ {u} : Allowed[c] \cap Loaders = {}

(* A call carries a password that somebody typed to where it becomes the   *)
(* password of the wallet.                                                 *)
CarriesPassword(c, r) ==
    /\ r.op \in Allowed[c] \cup {"none"}
    /\ r.op \in {"create", "unlock", "change", "delete"} => r.pw \in Passwords
    /\ r.op = "updatePassword" /\ r.pc = "reencrypt" => r.new \in Passwords

Carried == \A c \in Slots : CarriesPassword(c, call[c])

(* The one state in which a secret is held and no password is: create*()   *)
(* has loaded the secret and still encrypts it.                            *)
Creating(u) == keyStore = NoStore /\ call[u].op = "create" /\ call[u].pc \in {"getNumber", "encrypt"}

Held(u) == secret # {} => password \in Passwords \/ Creating(u)

Remembers(u) == Typed /\ Carried /\ Held(u)

-----------------------------------------------------------------------------
LEMMA IdleCarries ==
  ASSUME NEW c \in Slots
  PROVE  CarriesPassword(c, Idle)
  BY DEF CarriesPassword, Idle

(* A step writes the record of one call and leaves the others where they   *)
(* wait.                                                                   *)
LEMMA OneCarried ==
  ASSUME Typed, Carried, NEW c \in Slots, NEW r, CarriesPassword(c, r),
         call' = [call EXCEPT ![c] = r] \/ call' = [Detached(c) EXCEPT ![c] = r]
  PROVE  /\ Carried' /\ call'[c] = r
         /\ \A d \in Slots \ {c} : call'[d].op = call[d].op /\ call'[d].pc = call[d].pc
  <1>0. call \in [Slots -> Calls] /\ Detached(c) \in [Slots -> Calls]
    BY DetachedGood DEF Typed, TypeOK
  <1>1. \A d \in Slots : /\ Detached(c)[d].op = call[d].op /\ Detached(c)[d].pc = call[d].pc
                         /\ Detached(c)[d].pw = call[d].pw /\ Detached(c)[d].new = call[d].new
    <2>1. ASSUME NEW d \in Slots
          PROVE  LET r0 == [call[d] EXCEPT !.live = FALSE, !.src = multi]
                 IN  r0.op = call[d].op /\ r0.pc = call[d].pc /\ r0.pw = call[d].pw /\ r0.new = call[d].new
      BY <1>0 DEF Calls
    <2> QED BY <2>1 DEF Detached
  <1> QED BY <1>0, <1>1 DEF Carried, CarriesPassword

(* A call that moves on carries the same password.                         *)
LEMMA GotoCarries ==
  ASSUME Typed, Carried, NEW c \in Slots, NEW to \in Points \ {"reencrypt"}
  PROVE  CarriesPassword(c, [call[c] EXCEPT !.pc = to])
  BY DEF Typed, TypeOK, Calls, Carried, CarriesPassword

(* Whatever loads the key ring runs in slot u.                             *)
LEMMA LoaderIs ==
  ASSUME NEW u, OneLoader(u), Typed, Carried, NEW c \in Slots,
         call[c].pc \in Loading \/ call[c].op \in Loaders
  PROVE  c = u
  <1>1. call[c].op \in Loaders
    BY DEF Typed, CallsOK, LocalsOK
  <1>2. call[c].op \in Allowed[c]
    BY <1>1 DEF Carried, CarriesPassword, Loaders
  <1> QED BY <1>1, <1>2 DEF OneLoader

(* The ways in which a step keeps Held: it takes the secret away, it sets  *)
(* a password, or it changes neither and the call of u stays a creation.   *)
LEMMA HeldKept ==
  ASSUME NEW u, Held(u),
         \/ secret' = {}
         \/ password' \in Passwords
         \/ UNCHANGED <<secret, password>> /\ (Creating(u) => Creating(u)')
  PROVE  Held(u)'
  BY DEF Held

-----------------------------------------------------------------------------
LEMMA LoadedByCarries ==
  ASSUME Typed, Carried, NEW c \in Slots, LoadedBy(c, Detached(c)) \/ LoadedBy(c, call)
  PROVE  Carried'
  <1> DEFINE r == IF call[c].op = "create" THEN [call[c] EXCEPT !.pc = "check"] ELSE Idle
  <1>1. CarriesPassword(c, r)
    BY GotoCarries, IdleCarries DEF Points
  <1>2. call' = [call EXCEPT ![c] = r] \/ call' = [Detached(c) EXCEPT ![c] = r]
    BY DetachedGood DEF LoadedBy, Typed, TypeOK
  <1> HIDE DEF r
  <1> QED BY <1>1, <1>2, OneCarried

(* restore() runs in slot u and touches neither secret nor password.       *)
LEMMA RestoreRemembers ==
  ASSUME NEW u, OneLoader(u), Remembers(u), NEW c \in Slots, Restore(c)
  PROVE  Carried' /\ Held(u)'
  <1> USE DEF Remembers
  <1>0. call[c] \in Calls
    BY DEF Typed, TypeOK
  <1>1. c = u /\ ~Creating(u)
    <2>1. CASE BeginRestore(c) \/ BeginEnable(c)
      BY <2>1 DEF BeginRestore, BeginEnable, May, At, OneLoader, Loaders, Creating
    <2>2. CASE call[c].pc \in Loading
      BY <2>2, LoaderIs DEF Creating, Loading
    <2> QED BY <2>1, <2>2 DEF Restore, GotStore, GotMulti, GotNoMulti, AdoptSingleStore, AdoptedStoreSaved,
              AdoptedListSaved, UpgradeStoreSaved, UpgradeListSaved, At, Loading
  <1>2. UNCHANGED <<secret, password>>
    BY DEF Restore, BeginRestore, BeginEnable, GotStore, GotMulti, GotNoMulti, AdoptSingleStore,
           AdoptedStoreSaved, AdoptedListSaved, UpgradeStoreSaved, UpgradeListSaved, memory
  <1>3. Held(u)'
    BY <1>1, <1>2, HeldKept
  <1> SUFFICES Carried'
    BY <1>3
  <1>4. ASSUME NEW op \in {"restore", "enable"}, op \in Allowed[c], call' = [call EXCEPT ![c] = Restoring(c, op)]
        PROVE  Carried'
    <2>1. CarriesPassword(c, Restoring(c, op))
      BY <1>4 DEF CarriesPassword, Restoring, Idle
    <2> QED BY <1>4, <2>1, OneCarried
  <1>5. CASE BeginRestore(c) \/ BeginEnable(c)
    BY <1>4, <1>5 DEF BeginRestore, BeginEnable, May
  <1>6. CASE GotStore(c)
    <2> DEFINE r == [call[c] EXCEPT !.pc = "getMulti", !.list = vault.multi]
    <2>1. CarriesPassword(c, r)
      BY <1>0 DEF Calls, Carried, CarriesPassword
    <2>2. call' = [call EXCEPT ![c] = r]
      BY <1>6 DEF GotStore
    <2> HIDE DEF r
    <2> QED BY <2>1, <2>2, OneCarried
  <1>7. ASSUME NEW to \in {"adoptStore", "adoptMulti", "upgradeStore", "upgradeMulti"},
               \/ call' = [call EXCEPT ![c].pc = to]
               \/ call' = [Detached(c) EXCEPT ![c].pc = to]
        PROVE  Carried'
    <2> DEFINE r == [call[c] EXCEPT !.pc = to]
    <2>1. CarriesPassword(c, r)
      BY GotoCarries DEF Points
    <2>2. call' = [call EXCEPT ![c] = r] \/ call' = [Detached(c) EXCEPT ![c] = r]
      BY <1>7, DetachedGood
    <2> HIDE DEF r
    <2> QED BY <2>1, <2>2, OneCarried
  <1>8. CASE GotNoMulti(c)
    <2> DEFINE r == [call[c] EXCEPT !.pc = "adoptNumber", !.num = vault.number + 1]
    <2>1. CarriesPassword(c, r)
      BY <1>0 DEF Calls, Carried, CarriesPassword
    <2>2. CASE call' = [call EXCEPT ![c] = r]
      <3> HIDE DEF r
      <3> QED BY <2>1, <2>2, OneCarried
    <2> QED BY <1>7, <1>8, <2>2 DEF GotNoMulti
  <1>9. CASE GotMulti(c) \/ AdoptedListSaved(c)
    BY <1>7, <1>9, LoadedByCarries DEF GotMulti, AdoptedListSaved, Upgrade
  <1>10. CASE AdoptSingleStore(c) \/ AdoptedStoreSaved(c) \/ UpgradeStoreSaved(c)
    BY <1>7, <1>10 DEF AdoptSingleStore, AdoptedStoreSaved, UpgradeStoreSaved, Goto
  <1>11. CASE UpgradeListSaved(c)
    BY <1>11, LoadedByCarries DEF UpgradeListSaved
  <1> QED BY <1>5, <1>6, <1>8, <1>9, <1>10, <1>11 DEF Restore

-----------------------------------------------------------------------------
(* A step that leaves secret, password and an empty selection alone and is *)
(* not the creation of slot u giving up.                                   *)
LEMMA QuietStep ==
  ASSUME NEW u, u \in Slots, Remembers(u), NEW c \in Slots, NEW r, CarriesPassword(c, r),
         call' = [call EXCEPT ![c] = r] \/ call' = [Detached(c) EXCEPT ![c] = r],
         UNCHANGED <<secret, password>>, keyStore = NoStore => keyStore' = NoStore,
         c = u /\ Creating(u) => r.op = "create" /\ r.pc \in {"getNumber", "encrypt"}
  PROVE  Carried' /\ Held(u)'
  <1>1. /\ Carried' /\ call'[c] = r
        /\ \A d \in Slots \ {c} : call'[d].op = call[d].op /\ call'[d].pc = call[d].pc
    BY OneCarried DEF Remembers
  <1>2. Creating(u) => Creating(u)'
    BY <1>1 DEF Creating
  <1> QED BY <1>1, <1>2, HeldKept DEF Remembers

(* A step that sets the password or takes the secret away.                 *)
LEMMA LoudStep ==
  ASSUME NEW u, Remembers(u), NEW c \in Slots, NEW r, CarriesPassword(c, r),
         call' = [call EXCEPT ![c] = r] \/ call' = [Detached(c) EXCEPT ![c] = r],
         secret' = {} \/ password' \in Passwords
  PROVE  Carried' /\ Held(u)'
  BY OneCarried, HeldKept DEF Remembers

LEMMA CreateCheckedRemembers ==
  ASSUME NEW u, OneLoader(u), Remembers(u), ~Creating(u), NEW create \in Calls,
         CarriesPassword(u, create), create.op = "create", CreateChecked(u, create)
  PROVE  Carried' /\ Held(u)'
  <1>0. u \in Slots
    BY DEF OneLoader
  <1>1. CASE Return(u) /\ UNCHANGED <<memory, vault>>
    BY <1>0, <1>1, IdleCarries, QuietStep DEF Return, memory
  <1>2. CASE UNCHANGED <<memory, vault>> /\ call' = [call EXCEPT ![u] = [create EXCEPT !.pc = "device"]]
    <2>1. CarriesPassword(u, [create EXCEPT !.pc = "device"])
      BY DEF CarriesPassword, Calls
    <2> QED BY <1>0, <1>2, <2>1, QuietStep DEF memory
  <1>3. ASSUME Status = "EMPTY", UNCHANGED keyStore,
               call' = [call EXCEPT ![u] = [create EXCEPT !.pc = "getNumber", !.num = vault.number + 1]]
        PROVE  Carried' /\ Held(u)'
    <2> DEFINE r == [create EXCEPT !.pc = "getNumber", !.num = vault.number + 1]
    <2>1. CarriesPassword(u, r) /\ r.op = "create" /\ r.pc = "getNumber"
      BY DEF CarriesPassword, Calls
    <2>2. call' = [call EXCEPT ![u] = r]
      BY <1>3
    <2> HIDE DEF r
    <2>3. Carried' /\ call'[u] = r
      BY <1>0, <2>1, <2>2, OneCarried DEF Remembers
    <2>4. keyStore = NoStore
      BY <1>3 DEF Status
    <2> QED BY <1>3, <2>1, <2>3, <2>4 DEF Held, Creating
  <1> QED BY <1>1, <1>2, <1>3 DEF CreateChecked

(* create*() and add*().                                                   *)
LEMMA CreateOrAddRemembers ==
  ASSUME NEW u, OneLoader(u), Remembers(u), NEW c \in Slots, CreateOrAdd(c)
  PROVE  Carried' /\ Held(u)'
  <1>0. call[c] \in Calls /\ CarriesPassword(c, call[c]) /\ u \in Slots /\ Typed /\ Carried
    BY DEF Remembers, Typed, TypeOK, Carried, OneLoader
  <1>1. ASSUME NEW k \in Keys, NEW p \in Passwords, BeginCreate(c, k, p)
        PROVE  Carried' /\ Held(u)'
    <2> DEFINE create == [Idle EXCEPT !.op = "create", !.key = k, !.pw = p]
               r == [create EXCEPT !.pc = "getStore", !.store = vault.store]
    <2>1. c = u /\ ~Creating(u) /\ "create" \in Allowed[c]
      BY <1>1 DEF BeginCreate, May, At, OneLoader, Loaders, Creating
    <2>2. create \in Calls /\ create.op = "create" /\ create.pw = p
      BY IdleGood DEF GoodCall, Calls, Operations, Idle
    <2>3. CarriesPassword(c, create)
      BY <2>1, <2>2 DEF CarriesPassword
    <2>4. CarriesPassword(c, r)
      <3> HIDE DEF create
      <3> QED BY <2>1, <2>2 DEF CarriesPassword, Calls
    <2>5. CASE CreateChecked(c, create)
      <3> HIDE DEF create
      <3> QED BY <2>1, <2>2, <2>3, <2>5, CreateCheckedRemembers
    <2>6. CASE call' = [call EXCEPT ![c] = r] /\ UNCHANGED <<memory, vault>>
      <3> HIDE DEF r
      <3> QED BY <1>0, <2>1, <2>4, <2>6, QuietStep DEF memory
    <2> QED BY <1>1, <2>5, <2>6 DEF BeginCreate
  <1>2. CASE CheckCreate(c)
    <2> DEFINE create == [call[c] EXCEPT !.store = NoStore, !.list = <<>>]
    <2>1. call[c].pc = "check" /\ call[c].op = "create"
      BY <1>0, <1>2 DEF CheckCreate, At, Typed, CallsOK, LocalsOK
    <2>2. c = u /\ ~Creating(u)
      BY <1>0, <2>1, LoaderIs DEF Loading, Creating
    <2>3. create \in Calls /\ create.op = "create" /\ create.pw = call[c].pw
      <3>1. <<>> \in Seq(Stores) \cup {Absent}
        OBVIOUS
      <3> QED BY <1>0, <2>1, <3>1 DEF Calls
    <2>4. CarriesPassword(c, create)
      BY <1>0, <2>1, <2>3 DEF CarriesPassword
    <2> HIDE DEF create
    <2> QED BY <1>2, <2>2, <2>3, <2>4, CreateCheckedRemembers DEF CheckCreate, create
  <1>3. CASE WriteNumber(c)
    <2> DEFINE to == IF At(c, "getNumber") THEN "encrypt" ELSE "setNumber"
               r == [call[c] EXCEPT !.pc = to]
    <2>1. CarriesPassword(c, r)
      BY <1>0, GotoCarries DEF Points
    <2>2. call[c].pc = "getNumber" => r.pc = "encrypt"
      BY <1>0 DEF At, Calls
    <2>3. r.op = call[c].op /\ call' = [call EXCEPT ![c] = r]
      BY <1>0, <1>3 DEF Calls, WriteNumber, Goto
    <2> HIDE DEF r
    <2> QED BY <1>0, <1>3, <2>1, <2>2, <2>3, QuietStep DEF WriteNumber, At, Creating, memory
  <1>4. ASSUME NEW k \in Keys, BeginAdd(c, k)
        PROVE  Carried' /\ Held(u)'
    <2> DEFINE add == [Idle EXCEPT !.op = "add", !.key = k]
               r1 == [add EXCEPT !.pc = "device"]
               r2 == [add EXCEPT !.pc = "getNumber", !.pw = password, !.num = vault.number + 1]
    <2>1. CarriesPassword(c, r1) /\ CarriesPassword(c, r2)
      BY <1>4 DEF CarriesPassword, BeginAdd, May, Idle
    <2>2. call' = [call EXCEPT ![c] = r1] \/ call' = [call EXCEPT ![c] = r2]
      BY <1>4 DEF BeginAdd
    <2> HIDE DEF r1, r2
    <2>3. c = u => ~Creating(u)
      BY <1>4 DEF BeginAdd, May, At, Creating
    <2> QED BY <1>0, <1>4, <2>1, <2>2, <2>3, QuietStep DEF BeginAdd, memory
  <1>5. CASE DeviceAnswers(c)
    <2> DEFINE r == [call[c] EXCEPT !.pc = "getNumber", !.num = vault.number + 1,
                                    !.pw = IF call[c].op = "add" THEN password ELSE @]
    <2>1. CarriesPassword(c, r)
      BY <1>0, <1>5 DEF DeviceAnswers, CarriesPassword, Calls
    <2>2. call' = [call EXCEPT ![c] = r]
      BY <1>5 DEF DeviceAnswers
    <2> HIDE DEF r
    <2>3. c = u => ~Creating(u)
      BY <1>5 DEF DeviceAnswers, At, Creating
    <2> QED BY <1>0, <1>5, <2>1, <2>2, <2>3, QuietStep DEF DeviceAnswers, memory
  <1>6. CASE DeviceFails(c)
    <2>1. c = u => ~Creating(u)
      BY <1>6 DEF DeviceFails, At, Creating
    <2> QED BY <1>0, <1>6, <2>1, IdleCarries, QuietStep DEF DeviceFails, Return, memory
  <1>7. CASE FinishCreate(c) \/ FinishAdd(c)
    <2> DEFINE r == [call[c] EXCEPT !.pc = "setStore"]
    <2>1. CarriesPassword(c, r) /\ call' = [call EXCEPT ![c] = r]
      BY <1>0, <1>7, GotoCarries DEF Points, FinishCreate, FinishAdd, Saving
    <2> HIDE DEF r
    <2>2. CASE FinishCreate(c)
      <3>1. password' \in Passwords
        BY <1>0, <2>2 DEF FinishCreate, CarriesPassword
      <3> QED BY <2>1, <3>1, LoudStep
    <2>3. CASE FinishAdd(c)
      <3>1. c = u => ~Creating(u)
        BY <2>3 DEF FinishAdd, Creating
      <3> QED BY <1>0, <2>1, <2>3, <3>1, QuietStep DEF FinishAdd
    <2> QED BY <1>7, <2>2, <2>3
  <1> QED BY <1>1, <1>2, <1>3, <1>4, <1>5, <1>6, <1>7 DEF CreateOrAdd

-----------------------------------------------------------------------------
(* unlock() and the change, deletion and renaming of an account.           *)
LEMMA SelectRemembers ==
  ASSUME NEW u, OneLoader(u), Remembers(u), NEW c \in Slots, Select(c)
  PROVE  Carried' /\ Held(u)'
  <1>0. /\ call[c] \in Calls /\ CarriesPassword(c, call[c]) /\ u \in Slots /\ Typed /\ Carried
        /\ CarriesPassword(c, Idle)
        /\ password # NoPassword => password \in Passwords
    BY IdleCarries DEF Remembers, Typed, TypeOK, Carried, OneLoader
  <1> DEFINE saved == [call[c] EXCEPT !.pc = "setStore"]
  <1>a. CarriesPassword(c, saved)
    BY <1>0, GotoCarries DEF Points
  <1>b. /\ Saving(call, c) = [call EXCEPT ![c] = saved]
        /\ Saving(Detached(c), c) = [Detached(c) EXCEPT ![c] = saved]
    BY <1>0, DetachedGood DEF Saving
  <1> HIDE DEF saved
  <1>c. call[c].pc \notin {"getNumber", "encrypt"} => (c = u => ~Creating(u))
    BY DEF Creating
  <1>1. ASSUME NEW p \in Passwords, BeginUnlock(c, p)
        PROVE  Carried' /\ Held(u)'
    <2> DEFINE r == [Idle EXCEPT !.op = "unlock", !.pc = "decrypt", !.store = keyStore, !.pw = p]
    <2>1. CarriesPassword(c, r)
      BY <1>1 DEF CarriesPassword, BeginUnlock, May, Idle
    <2>2. call' = [call EXCEPT ![c] = r]
      BY <1>1 DEF BeginUnlock
    <2> HIDE DEF r
    <2> QED BY <1>0, <1>c, <1>1, <2>1, <2>2, QuietStep DEF BeginUnlock, May, At, memory
  <1>2. ASSUME NEW i \in DOMAIN multi, BeginChange(c, i)
        PROVE  Carried' /\ Held(u)'
    <2> DEFINE r == [Idle EXCEPT !.op = "change", !.pc = "decrypt", !.store = multi[i], !.pw = password]
    <2>1. CarriesPassword(c, r)
      BY <1>0, <1>2 DEF CarriesPassword, BeginChange, May, Idle
    <2>2. call' = [call EXCEPT ![c] = r] /\ keyStore # NoStore
      BY <1>2 DEF BeginChange, Status
    <2> HIDE DEF r
    <2> QED BY <1>0, <1>c, <1>2, <2>1, <2>2, QuietStep DEF BeginChange, May, At
  <1>3. ASSUME NEW i \in DOMAIN multi, BeginDelete(c, i)
        PROVE  Carried' /\ Held(u)'
    <2> DEFINE r == [Idle EXCEPT !.op = "delete", !.pc = "decrypt", !.pw = password,
                                 !.store = multi[i], !.list = RemoveAt(multi, i)]
    <2>1. CarriesPassword(c, r)
      BY <1>0, <1>3 DEF CarriesPassword, BeginDelete, May, Idle
    <2>2. call' = [call EXCEPT ![c] = r]
      BY <1>3 DEF BeginDelete
    <2> HIDE DEF r
    <2> QED BY <1>0, <1>c, <1>3, <2>1, <2>2, QuietStep DEF BeginDelete, May, At, memory
  <1>4. ASSUME NEW i \in DOMAIN multi, Rename(c, i)
        PROVE  Carried' /\ Held(u)'
    <2> DEFINE r == [Idle EXCEPT !.op = "rename", !.pc = "setStore"]
    <2>1. CarriesPassword(c, r)
      BY <1>4 DEF CarriesPassword, Rename, May, Idle
    <2>2. call' = [call EXCEPT ![c] = r] /\ keyStore # NoStore
      BY <1>4 DEF Rename, Status
    <2> HIDE DEF r
    <2> QED BY <1>0, <1>c, <1>4, <2>1, <2>2, QuietStep DEF Rename, May, At
  <1>5. ASSUME NEW s, Open(c, s), call[c].op \in {"unlock", "change", "delete"},
               NEW r, CarriesPassword(c, r),
               call' = [call EXCEPT ![c] = r] \/ call' = [Detached(c) EXCEPT ![c] = r]
        PROVE  Carried' /\ Held(u)'
    <2>1. password' \in Passwords
      BY <1>0, <1>5 DEF Open, CarriesPassword
    <2> QED BY <1>5, <2>1, LoudStep
  <1>6. ASSUME Return(c), call[c].pc \notin {"getNumber", "encrypt"},
               UNCHANGED <<keyStore, secret, password>>
        PROVE  Carried' /\ Held(u)'
    BY <1>0, <1>c, <1>6, QuietStep DEF Return
  <1>7. CASE FinishUnlock(c)
    BY <1>0, <1>5, <1>6, <1>7 DEF FinishUnlock, At, Return
  <1>8. CASE FinishChange(c)
    BY <1>a, <1>b, <1>5, <1>6, <1>8 DEF FinishChange, At
  <1>9. CASE FinishDelete(c)
    <2>1. call[c].pc = "decrypt" /\ call[c].op = "delete"
      BY <1>9 DEF FinishDelete, At
    <2>2. CASE DeleteOther(c)
      <3>1. call' = [Detached(c) EXCEPT ![c] = saved] /\ UNCHANGED <<keyStore, secret, password>>
        BY <1>b, <2>2 DEF DeleteOther, DeleteFrom
      <3> QED BY <1>0, <1>a, <1>c, <2>1, <3>1, QuietStep
    <2>3. CASE DeleteLast(c)
      <3>1. call' = [Detached(c) EXCEPT ![c] = saved] /\ secret' = {}
        BY <1>b, <2>3 DEF DeleteLast, DeleteFrom
      <3> QED BY <1>a, <3>1, LoudStep
    <2>4. CASE DeleteSelected(c)
      <3> DEFINE r == [call[c] EXCEPT !.pc = "reopen"]
      <3>1. CarriesPassword(c, r)
        BY <1>0, GotoCarries DEF Points
      <3>2. CASE secret' = {} /\ call' = [call EXCEPT ![c] = r]
        <4> HIDE DEF r
        <4> QED BY <3>1, <3>2, LoudStep
      <3> QED BY <1>6, <2>1, <2>4, <3>2 DEF DeleteSelected, Goto
    <2>5. CASE DeleteRefused(c)
      BY <1>6, <2>1, <2>5 DEF DeleteRefused
    <2> QED BY <1>9, <2>2, <2>3, <2>4, <2>5 DEF FinishDelete
  <1>10. CASE ReopenAfterDelete(c)
    <2>1. call[c].pc = "reopen" /\ call[c].op = "delete"
      BY <1>0, <1>10 DEF ReopenAfterDelete, At, Typed, CallsOK, LocalsOK
    <2>2. CASE Open(c, Head(call[c].list)) /\ DeleteFrom(c, keyStore)
      BY <1>a, <1>b, <1>5, <2>1, <2>2 DEF DeleteFrom
    <2>3. CASE DeleteRefused(c)
      BY <1>6, <2>1, <2>3 DEF DeleteRefused
    <2> QED BY <1>10, <2>2, <2>3 DEF ReopenAfterDelete
  <1> QED BY <1>1, <1>2, <1>3, <1>4, <1>7, <1>8, <1>9, <1>10 DEF Select

(* updatePassword() and the calls that only save.                          *)
LEMMA RewriteRemembers ==
  ASSUME NEW u, OneLoader(u), Remembers(u), NEW c \in Slots, Rewrite(c)
  PROVE  Carried' /\ Held(u)'
  <1>0. /\ call[c] \in Calls /\ CarriesPassword(c, call[c]) /\ u \in Slots /\ Typed /\ Carried
        /\ CarriesPassword(c, Idle)
    BY IdleCarries DEF Remembers, Typed, TypeOK, Carried, OneLoader
  <1>c. call[c].pc \notin {"getNumber", "encrypt"} => (c = u => ~Creating(u))
    BY DEF Creating
  <1>1. CASE SetCoinType(c) \/ RemoveCoinTypes(c)
    <2> DEFINE r(op) == [Idle EXCEPT !.op = op, !.pc = "setStore"]
    <2>1. ASSUME NEW op \in {"setCoinType", "removeCoinTypes"}, op \in Allowed[c],
                 call' = [call EXCEPT ![c] = r(op)]
          PROVE  Carried' /\ Held(u)'
      <3>1. CarriesPassword(c, r(op))
        BY <2>1 DEF CarriesPassword, Idle
      <3> HIDE DEF r
      <3> QED BY <1>0, <1>c, <1>1, <2>1, <3>1, QuietStep DEF SetCoinType, RemoveCoinTypes, May, At, memory
    <2> QED BY <1>1, <2>1 DEF SetCoinType, RemoveCoinTypes, May
  <1>2. CASE StoreSaved(c)
    BY <1>0, <1>c, <1>2, QuietStep DEF StoreSaved, At, Return, memory
  <1>3. ASSUME NEW list, NEW new \in Passwords, PasswordReplaced(c, list, new), "updatePassword" \in Allowed[c]
        PROVE  Carried' /\ Held(u)'
    <2> DEFINE r == [Idle EXCEPT !.op = "updatePassword", !.pc = "setStore"]
    <2>1. CarriesPassword(c, r)
      BY <1>3 DEF CarriesPassword, Idle
    <2>2. call' = [Detached(c) EXCEPT ![c] = r] /\ password' \in Passwords
      BY <1>3 DEF PasswordReplaced
    <2> HIDE DEF r
    <2> QED BY <2>1, <2>2, LoudStep
  <1>4. ASSUME NEW new \in Passwords, BeginUpdatePassword(c, new)
        PROVE  Carried' /\ Held(u)'
    <2> DEFINE i == NextTyped(multi, 1)
               r == [Idle EXCEPT !.op = "updatePassword", !.pc = "reencrypt", !.pw = password,
                                 !.new = new, !.num = i, !.store = multi[i], !.live = TRUE]
    <2>1. CASE PasswordReplaced(c, <<>>, new)
      BY <1>3, <1>4, <2>1 DEF BeginUpdatePassword, May
    <2>2. CASE call' = [call EXCEPT ![c] = r] /\ UNCHANGED password
      <3>1. CarriesPassword(c, r)
        BY <1>4 DEF CarriesPassword, BeginUpdatePassword, May, Idle
      <3> HIDE DEF r
      <3> QED BY <1>0, <1>c, <1>4, <2>2, <3>1, QuietStep DEF BeginUpdatePassword, May, At
    <2> QED BY <1>4, <2>1, <2>2 DEF BeginUpdatePassword
  <1>5. CASE Reencrypt(c)
    <2> DEFINE new == [call[c].store EXCEPT !.pw = call[c].new]
               list == Append(call[c].list, new)
               i == NextTyped(Iterated(c), call[c].num + 1)
               r == [call[c] EXCEPT !.list = list, !.num = i, !.store = Iterated(c)[i]]
    <2>1. call[c].pc = "reencrypt" /\ call[c].op = "updatePassword"
      BY <1>0, <1>5 DEF Reencrypt, At, Typed, CallsOK, LocalsOK
    <2>2. call[c].new \in Passwords /\ "updatePassword" \in Allowed[c]
      BY <1>0, <2>1 DEF CarriesPassword
    <2>3. CASE Return(c) /\ UNCHANGED <<keyStore, password>>
      BY <1>0, <1>c, <1>5, <2>1, <2>3, QuietStep DEF Reencrypt, Return
    <2>4. CASE PasswordReplaced(c, list, call[c].new)
      BY <1>3, <2>2, <2>4
    <2>5. CASE keyStore' = Reselected(new) /\ UNCHANGED password /\ call' = [call EXCEPT ![c] = r]
      <3>1. CarriesPassword(c, r)
        <4> HIDE DEF list, i
        <4> QED BY <1>0 DEF CarriesPassword, Calls
      <3>2. keyStore = NoStore => keyStore' = NoStore
        BY <2>5 DEF Reselected, IsSelected
      <3> HIDE DEF r
      <3> QED BY <1>0, <1>c, <1>5, <2>1, <2>5, <3>1, <3>2, QuietStep DEF Reencrypt
    <2>6. CASE /\ keyStore' = Reselected(new) /\ UNCHANGED password
               /\ call' = [call EXCEPT ![c].list = list, ![c].num = i, ![c].store = Iterated(c)[i]]
      BY <2>5, <2>6
    <2> HIDE DEF new, list, i, r
    <2> QED BY <1>5, <2>3, <2>4, <2>6 DEF Reencrypt, new, list, i
  <1>6. ~(BeginInitLedgerApp(c) \/ LedgerAppAnswers(c) \/ FinishInitLedgerApp(c))
    BY <1>0 DEF OneLoader, BeginInitLedgerApp, LedgerAppAnswers, FinishInitLedgerApp, May, CarriesPassword
  <1> QED BY <1>1, <1>2, <1>4, <1>5, <1>6 DEF Rewrite

-----------------------------------------------------------------------------
LEMMA InitRemembers ==
  ASSUME NEW u, OneLoader(u), Init
  PROVE  Remembers(u)
  BY InitTyped, IdleCarries DEF Init, Remembers, Carried, Held

LEMMA StepRemembers ==
  ASSUME NEW u, OneLoader(u), Remembers(u), [Next]_vars
  PROVE  Remembers(u)'
  <1>1. Typed'
    BY StepTyped DEF Remembers
  <1> SUFFICES Carried' /\ Held(u)'
    BY <1>1 DEF Remembers
  <1>2. ASSUME NEW c \in Slots, Restore(c) \/ CreateOrAdd(c) \/ Select(c) \/ Rewrite(c)
        PROVE  Carried' /\ Held(u)'
    BY <1>2, RestoreRemembers, CreateOrAddRemembers, SelectRemembers, RewriteRemembers
  <1>3. CASE Lock
    BY <1>3 DEF Lock, Remembers, Carried, CarriesPassword, Held
  <1>4. CASE Crash
    BY <1>4, IdleCarries DEF Crash, Carried, Held
  <1>5. CASE UNCHANGED vars
    BY <1>5 DEF vars, Remembers, Carried, CarriesPassword, Held, Creating
  <1> QED BY <1>2, <1>3, <1>4, <1>5 DEF Next

(* An unlocked wallet has its password: whatever calls overlap with each   *)
(* other, with locks and with restarts, as long as one slot does the       *)
(* loading and no Ledger app is initialised.                               *)
THEOREM UnlockedRemembersPassword ==
  ASSUME NEW CONSTANT u, OneLoader(u)
  PROVE  Spec => []UnlockedHasPassword
  <1>1. Init => Remembers(u)
    BY InitRemembers
  <1>2. Remembers(u) /\ [Next]_vars => Remembers(u)'
    BY StepRemembers
  <1>3. Remembers(u) => UnlockedHasPassword
    BY SentinelAssumption DEF Remembers, Held, Creating, UnlockedHasPassword, Status
  <1> QED BY <1>1, <1>2, <1>3, PTL DEF Spec

-----------------------------------------------------------------------------
(* Lemmas about lists of key stores.                                       *)

(* Two key stores of a list have different ids.                            *)
DistinctIds(list) == \A i, j \in DOMAIN list : list[i].id = list[j].id => i = j

(* The account of a key store is what its encryption does not change.      *)
Account(s) == <<s.id, s.key>>
AccountsOf(s) == IF s = NoStore THEN {} ELSE {Account(s)}
AccountsIn(list) == IF list = Absent THEN {} ELSE {Account(list[i]) : i \in DOMAIN list}

(* What is left of a list without one of its elements.                     *)
LEMMA RemoveAtElements ==
  ASSUME NEW S, NEW list \in Seq(S), NEW i \in DOMAIN list
  PROVE  /\ RemoveAt(list, i) \in Seq(S) /\ DOMAIN RemoveAt(list, i) = 1..(Len(list) - 1)
         /\ \A j \in 1..(Len(list) - 1) : RemoveAt(list, i)[j] = list[IF j < i THEN j ELSE j + 1]
  <1> DEFINE front == SubSeq(list, 1, i - 1)
             back == SubSeq(list, i + 1, Len(list))
  <1>1. i \in 1..Len(list) /\ Len(list) \in Nat /\ DOMAIN list = 1..Len(list)
    BY LenProperties
  <1>2. front \in Seq(S) /\ Len(front) = i - 1 /\ \A j \in 1..(i - 1) : front[j] = list[j]
    BY <1>1, SubSeqProperties
  <1>3. back \in Seq(S) /\ Len(back) = Len(list) - i /\ \A j \in 1..(Len(list) - i) : back[j] = list[i + j]
    BY <1>1, SubSeqProperties
  <1>4. RemoveAt(list, i) = front \o back
    BY DEF RemoveAt
  <1> HIDE DEF front, back
  <1>5. /\ front \o back \in Seq(S) /\ Len(front \o back) = Len(list) - 1
        /\ \A j \in 1..(Len(list) - 1) : (front \o back)[j] = IF j <= i - 1 THEN front[j] ELSE back[j - (i - 1)]
    <2>1. front \o back \in Seq(S) /\ Len(front \o back) = Len(front) + Len(back)
      BY <1>2, <1>3, ConcatProperties
    <2>2. Len(front) + Len(back) = Len(list) - 1
      BY <1>1, <1>2, <1>3
    <2>3. \A j \in 1..(Len(front) + Len(back)) :
            (front \o back)[j] = IF j <= Len(front) THEN front[j] ELSE back[j - Len(front)]
      BY <1>2, <1>3, ConcatProperties
    <2> QED BY <1>2, <2>1, <2>2, <2>3
  <1>6. ASSUME NEW j \in 1..(Len(list) - 1)
        PROVE  (front \o back)[j] = list[IF j < i THEN j ELSE j + 1]
    <2>1. CASE j < i
      BY <1>1, <1>2, <1>5, <2>1
    <2>2. CASE ~(j < i)
      <3>1. j - (i - 1) \in 1..(Len(list) - i) /\ i + (j - (i - 1)) = j + 1
        BY <1>1, <2>2
      <3> QED BY <1>1, <1>3, <1>5, <2>2, <3>1
    <2> QED BY <2>1, <2>2
  <1> QED BY <1>4, <1>5, <1>6, LenProperties

(* The accounts of a list, and of the lists that the calls make from it.   *)
LEMMA AccountOfElement ==
  ASSUME NEW list \in Seq(Stores), NEW i \in DOMAIN list
  PROVE  list[i] \in Stores /\ Account(list[i]) \in AccountsIn(list)
  <1>1. list[i] \in Stores /\ list # Absent
    BY ElementOfSeq, LenProperties, SentinelAssumption
  <1> QED BY <1>1 DEF AccountsIn

LEMMA ShorterList ==
  ASSUME NEW list \in Seq(Stores), NEW i \in DOMAIN list
  PROVE  /\ AccountsIn(RemoveAt(list, i)) \subseteq AccountsIn(list)
         /\ DistinctIds(list) => DistinctIds(RemoveAt(list, i))
  <1>1. /\ RemoveAt(list, i) \in Seq(Stores) /\ DOMAIN RemoveAt(list, i) = 1..(Len(list) - 1)
        /\ \A j \in 1..(Len(list) - 1) : RemoveAt(list, i)[j] = list[IF j < i THEN j ELSE j + 1]
        /\ Len(list) \in Nat /\ DOMAIN list = 1..Len(list)
    BY RemoveAtElements, LenProperties
  <1>2. \A j \in 1..(Len(list) - 1) : (IF j < i THEN j ELSE j + 1) \in DOMAIN list
    BY <1>1
  <1>3. AccountsIn(RemoveAt(list, i)) \subseteq AccountsIn(list)
    BY <1>1, <1>2, SentinelAssumption DEF AccountsIn
  <1>4. DistinctIds(list) => DistinctIds(RemoveAt(list, i))
    <2> DEFINE at(j) == IF j < i THEN j ELSE j + 1
    <2>1. \A j, k \in 1..(Len(list) - 1) : at(j) = at(k) => j = k
      BY <1>1
    <2>2. \A j \in 1..(Len(list) - 1) : RemoveAt(list, i)[j] = list[at(j)] /\ at(j) \in DOMAIN list
      BY <1>1, <1>2
    <2> HIDE DEF at
    <2> QED BY <1>1, <2>1, <2>2 DEF DistinctIds
  <1> QED BY <1>3, <1>4

LEMMA LongerList ==
  ASSUME NEW list \in Seq(Stores), NEW s \in Stores
  PROVE  /\ AccountsIn(Append(list, s)) = AccountsIn(list) \cup {Account(s)}
         /\ DistinctIds(list) /\ (\A i \in DOMAIN list : list[i].id # s.id) => DistinctIds(Append(list, s))
  <1>1. /\ Append(list, s) \in Seq(Stores) /\ DOMAIN Append(list, s) = 1..(Len(list) + 1)
        /\ \A j \in 1..Len(list) : Append(list, s)[j] = list[j]
        /\ Append(list, s)[Len(list) + 1] = s
        /\ Len(list) \in Nat /\ DOMAIN list = 1..Len(list)
    BY AppendProperties, LenProperties
  <1>2. 1..(Len(list) + 1) = 1..Len(list) \cup {Len(list) + 1}
    BY <1>1
  <1>3. AccountsIn(Append(list, s)) = AccountsIn(list) \cup {Account(s)}
    BY <1>1, <1>2, SentinelAssumption DEF AccountsIn
  <1>4. DistinctIds(list) /\ (\A i \in DOMAIN list : list[i].id # s.id) => DistinctIds(Append(list, s))
    BY <1>1, <1>2 DEF DistinctIds
  <1> QED BY <1>3, <1>4

LEMMA RewrittenList ==
  ASSUME NEW list \in Seq(Stores), NEW i \in DOMAIN list, NEW s \in Stores, s.id = list[i].id
  PROVE  /\ AccountsIn([list EXCEPT ![i] = s]) \subseteq AccountsIn(list) \cup {Account(s)}
         /\ DistinctIds(list) => DistinctIds([list EXCEPT ![i] = s])
  <1> DEFINE new == [list EXCEPT ![i] = s]
  <1>1. new \in Seq(Stores) /\ DOMAIN new = DOMAIN list /\ \A j \in DOMAIN list : new[j] = IF j = i THEN s ELSE list[j]
    BY ExceptSeq, LenProperties
  <1> HIDE DEF new
  <1>2. AccountsIn(new) \subseteq AccountsIn(list) \cup {Account(s)}
    BY <1>1, SentinelAssumption DEF AccountsIn
  <1>3. DistinctIds(list) => DistinctIds(new)
    BY <1>1 DEF DistinctIds
  <1> QED BY <1>2, <1>3 DEF new

LEMMA UpgradedAccount ==
  ASSUME NEW s \in Stores \cup {NoStore}
  PROVE  /\ AccountsOf(Upgraded(s)) = AccountsOf(s)
         /\ s # NoStore => Upgraded(s) \in Stores /\ Account(Upgraded(s)) = Account(s) /\ Upgraded(s).id = s.id
  BY SentinelAssumption DEF Upgraded, Stores, AccountsOf, Account

LEMMA UpgradedList ==
  ASSUME NEW list \in Seq(Stores)
  PROVE  LET new == [i \in DOMAIN list |-> Upgraded(list[i])]
         IN  AccountsIn(new) = AccountsIn(list) /\ (DistinctIds(list) => DistinctIds(new))
  <1> DEFINE new == [i \in DOMAIN list |-> Upgraded(list[i])]
  <1>1. new \in Seq(Stores) /\ new # Absent /\ list # Absent
    BY UpgradedListTyped, SentinelAssumption
  <1>2. ASSUME NEW i \in DOMAIN list
        PROVE  Account(new[i]) = Account(list[i]) /\ new[i].id = list[i].id
    BY AccountOfElement, UpgradedAccount, SentinelAssumption
  <1>3. DOMAIN new = DOMAIN list
    OBVIOUS
  <1> HIDE DEF new
  <1>4. AccountsIn(new) = AccountsIn(list)
    BY <1>1, <1>2, <1>3 DEF AccountsIn
  <1>5. DistinctIds(list) => DistinctIds(new)
    BY <1>2, <1>3 DEF DistinctIds
  <1> QED BY <1>4, <1>5 DEF new

-----------------------------------------------------------------------------
(***************************************************************************)
(* Ids.  One slot runs what the pages of the wallet ask for, whatever that  *)
(* is; the others run what the services of the background do on their own, *)
(* which only saves.  Restarts may happen at any time.                     *)
(***************************************************************************)
Services == {"setCoinType", "removeCoinTypes"}
Adding == {"create", "add"}

OneUser(u) == u \in Slots /\ \A c \in Slots \ {u} : Allowed[c] \subseteq Services

(* What an earlier version of the wallet left has distinct ids, and its    *)
(* counter has reached them.                                               *)
OldIdsOK ==
    \A f \in FirstVaults :
        /\ f.multi # Absent => DistinctIds(f.multi)
        /\ \A a \in AccountsOf(f.store) \cup AccountsIn(f.multi) : a[1] <= f.number

(* Every account that is in memory, in the store, or in the locals of u.   *)
Accounts(u) ==
    AccountsOf(keyStore) \cup AccountsIn(multi) \cup AccountsOf(vault.store) \cup AccountsIn(vault.multi)
        \cup AccountsOf(call[u].store) \cup AccountsIn(call[u].list)

Others(u) ==
    \A c \in Slots \ {u} : /\ call[c].op \in Services \cup {"none"}
                           /\ call[c].pc \in {"idle", "setStore"}

Distinct(u) ==
    /\ DistinctIds(multi)
    /\ vault.multi # Absent => DistinctIds(vault.multi)
    /\ call[u].list # Absent => DistinctIds(call[u].list)

(* The call has counted, and its number is that of no account yet.         *)
Taken(r) == r.pc = "setNumber" \/ (r.pc = "encrypt" /\ r.op \in Adding)

Numbers(u) ==
    /\ \A a \in Accounts(u) : a[1] <= vault.number
    /\ call[u].pc \in {"getNumber", "adoptNumber"} => call[u].num = vault.number + 1
    /\ Taken(call[u]) => call[u].num = vault.number /\ \A a \in Accounts(u) : a[1] < call[u].num

(* A new Ledger app goes to the selected account; updatePassword() has the *)
(* list before it, and behind it what it has encrypted of that.            *)
Locals(u) ==
    /\ call[u].pc = "encrypt" /\ call[u].op = "initLedgerApp" =>
        keyStore # NoStore /\ call[u].store.id = keyStore.id
    /\ call[u].pc = "encrypt" => call[u].op \in Adding \cup {"initLedgerApp"}
    /\ call[u].pc = "reencrypt" =>
        /\ call[u].live
        /\ call[u].num \in DOMAIN multi
        /\ Account(call[u].store) = Account(multi[call[u].num])
        /\ \A k \in DOMAIN call[u].list : \E j \in 1..(call[u].num - 1) : call[u].list[k].id = multi[j].id

IdsInv(u) == Typed /\ Others(u) /\ Numbers(u) /\ Distinct(u) /\ Locals(u)

-----------------------------------------------------------------------------
StoreIn(K, s) == AccountsOf(s) \subseteq K
ListIn(K, list) == AccountsIn(list) \subseteq K /\ (list # Absent => DistinctIds(list))

LEMMA KnownAccounts ==
  ASSUME NEW u, IdsInv(u)
  PROVE  LET K == Accounts(u)
         IN  /\ StoreIn(K, keyStore) /\ ListIn(K, multi) /\ StoreIn(K, vault.store) /\ ListIn(K, vault.multi)
             /\ StoreIn(K, call[u].store) /\ ListIn(K, call[u].list)
             /\ StoreIn(K, NoStore) /\ ListIn(K, <<>>)
             /\ \A a \in K : a[1] <= vault.number
  <1>1. <<>> # Absent /\ DistinctIds(<<>>) /\ AccountsIn(<<>>) = {}
    <2>1. <<>> \in Seq(Stores) /\ DOMAIN <<>> = {}
      OBVIOUS
    <2> QED BY <2>1, SentinelAssumption DEF DistinctIds, AccountsIn
  <1>2. AccountsOf(NoStore) = {}
    BY DEF AccountsOf
  <1> QED BY <1>1, <1>2 DEF IdsInv, Numbers, Distinct, Accounts, StoreIn, ListIn

(* An element of a known list is a known store.                            *)
LEMMA KnownElement ==
  ASSUME NEW K, NEW list \in Seq(Stores), ListIn(K, list), NEW i \in DOMAIN list
  PROVE  list[i] \in Stores /\ Account(list[i]) \in K /\ StoreIn(K, list[i])
  BY AccountOfElement, SentinelAssumption DEF ListIn, StoreIn, AccountsOf

(* Ids are numbers.                                                        *)
LEMMA KnownIds ==
  ASSUME NEW u \in Slots, Typed
  PROVE  \A a \in Accounts(u) : a[1] \in Nat
  <1>1. keyStore \in Stores \cup {NoStore} /\ multi \in Seq(Stores) /\ vault.store \in Stores \cup {NoStore}
        /\ vault.multi \in Seq(Stores) \cup {Absent} /\ call[u].store \in Stores \cup {NoStore}
        /\ call[u].list \in Seq(Stores) \cup {Absent}
    BY DEF Typed, TypeOK, Vaults, Calls
  <1>2. \A s \in Stores \cup {NoStore} : \A a \in AccountsOf(s) : a[1] \in Nat
    BY DEF AccountsOf, Account, Stores
  <1>3. ASSUME NEW list \in Seq(Stores) \cup {Absent}, NEW a \in AccountsIn(list)
        PROVE  a[1] \in Nat
    <2>1. list \in Seq(Stores) /\ \E i \in DOMAIN list : a = Account(list[i])
      BY <1>3 DEF AccountsIn
    <2>2. PICK i \in DOMAIN list : a = Account(list[i])
      BY <2>1
    <2>3. list[i] \in Stores
      BY <2>1, AccountOfElement
    <2> QED BY <2>2, <2>3 DEF Account, Stores
  <1> QED BY <1>1, <1>2, <1>3 DEF Accounts

(* What u writes into its own record leaves the others where they are.     *)
LEMMA OthersKept ==
  ASSUME Typed, NEW u \in Slots, Others(u), NEW r,
         call' = [call EXCEPT ![u] = r] \/ call' = [Detached(u) EXCEPT ![u] = r]
  PROVE  Others(u)' /\ call'[u] = r
  <1>0. call \in [Slots -> Calls] /\ Detached(u) \in [Slots -> Calls]
    BY DetachedGood DEF Typed, TypeOK
  <1>1. \A d \in Slots : Detached(u)[d].op = call[d].op /\ Detached(u)[d].pc = call[d].pc
    <2>1. ASSUME NEW d \in Slots
          PROVE  LET r0 == [call[d] EXCEPT !.live = FALSE, !.src = multi]
                 IN  r0.op = call[d].op /\ r0.pc = call[d].pc
      BY <1>0 DEF Calls
    <2> QED BY <2>1 DEF Detached
  <1> QED BY <1>0, <1>1 DEF Others

(* A step of u: the accounts that there are afterwards are of a set K, and *)
(* the numbers and the locals are in order.                                *)
LEMMA UserStep ==
  ASSUME NEW u \in Slots, IdsInv(u), Typed', NEW r, NEW K,
         call' = [call EXCEPT ![u] = r] \/ call' = [Detached(u) EXCEPT ![u] = r],
         StoreIn(K, keyStore'), ListIn(K, multi'), StoreIn(K, vault'.store), ListIn(K, vault'.multi),
         StoreIn(K, r.store), ListIn(K, r.list),
         \A a \in K : a[1] <= vault'.number,
         r.pc \in {"getNumber", "adoptNumber"} => r.num = vault'.number + 1,
         Taken(r) => r.num = vault'.number /\ \A a \in K : a[1] < r.num,
         call'[u] = r => Locals(u)'
  PROVE  IdsInv(u)' /\ Accounts(u)' \subseteq K /\ call'[u] = r
  <1>1. Others(u)' /\ call'[u] = r
    BY OthersKept DEF IdsInv
  <1>2. Accounts(u)' \subseteq K
    BY <1>1 DEF Accounts, StoreIn, ListIn
  <1>3. multi' # Absent
    BY SentinelAssumption DEF Typed, TypeOK
  <1>4. Distinct(u)'
    BY <1>1, <1>3 DEF ListIn, Distinct
  <1>5. Numbers(u)'
    BY <1>1, <1>2 DEF Numbers
  <1> QED BY <1>1, <1>2, <1>4, <1>5 DEF IdsInv

(* A step of u after which no account is there that was not before, and u  *)
(* neither has a number of its own nor goes through the list.              *)
LEMMA PlainStep ==
  ASSUME NEW u \in Slots, IdsInv(u), Typed', NEW r,
         call' = [call EXCEPT ![u] = r] \/ call' = [Detached(u) EXCEPT ![u] = r],
         StoreIn(Accounts(u), keyStore'), ListIn(Accounts(u), multi'),
         StoreIn(Accounts(u), vault'.store), ListIn(Accounts(u), vault'.multi),
         StoreIn(Accounts(u), r.store), ListIn(Accounts(u), r.list),
         vault'.number = vault.number,
         r.pc \in {"getNumber", "adoptNumber"} => r.num = vault.number + 1,
         r.pc \notin {"setNumber", "encrypt", "reencrypt"}
  PROVE  IdsInv(u)' /\ Accounts(u)' \subseteq Accounts(u)
  <1>1. \A a \in Accounts(u) : a[1] <= vault'.number
    BY KnownAccounts
  <1>2. ~Taken(r)
    BY DEF Taken
  <1>3. call'[u] = r => Locals(u)'
    BY DEF Locals
  <1> QED BY <1>1, <1>2, <1>3, UserStep

(* The services save what is there.                                        *)
LEMMA ServiceStep ==
  ASSUME NEW u, OneUser(u), Typed, Others(u), NEW c \in Slots \ {u},
         Restore(c) \/ CreateOrAdd(c) \/ Select(c) \/ Rewrite(c)
  PROVE  /\ Others(u)' /\ call'[u] = call[u] /\ UNCHANGED <<memory, page, crashes>>
         /\ \/ vault' = [vault EXCEPT !.store = keyStore]
            \/ vault' = [vault EXCEPT !.multi = multi] /\ call[c].pc = "setStore"
         /\ page \/ Status = "UNLOCKED" \/ call[c].pc = "setStore"
  <1>0. /\ call[c] \in Calls /\ LocalsOK(call[c]) /\ call \in [Slots -> Calls] /\ u \in Slots
        /\ call[c].op \in Services \cup {"none"} /\ call[c].pc \in {"idle", "setStore"}
        /\ Allowed[c] \subseteq Services
    BY DEF Typed, TypeOK, CallsOK, Others, OneUser
  <1>1. SetCoinType(c) \/ RemoveCoinTypes(c) \/ StoreSaved(c)
    <2>1. ~Restore(c)
      BY <1>0 DEF Restore, BeginRestore, BeginEnable, GotStore, GotMulti, GotNoMulti, AdoptSingleStore,
            AdoptedStoreSaved, AdoptedListSaved, UpgradeStoreSaved, UpgradeListSaved, At, May, Services
    <2>2. ~CreateOrAdd(c)
      BY <1>0 DEF CreateOrAdd, BeginCreate, BeginAdd, CheckCreate, WriteNumber, DeviceAnswers, DeviceFails,
            FinishCreate, FinishAdd, At, May, Services
    <2>3. ~Select(c)
      BY <1>0 DEF Select, BeginUnlock, BeginChange, BeginDelete, Rename, FinishUnlock, FinishChange,
            FinishDelete, ReopenAfterDelete, At, May, Services
    <2> QED BY <1>0, <2>1, <2>2, <2>3 DEF Rewrite, BeginUpdatePassword, Reencrypt, BeginInitLedgerApp,
              LedgerAppAnswers, FinishInitLedgerApp, At, May, Services
  <1>2. CASE SetCoinType(c) \/ RemoveCoinTypes(c)
    <2>1. PICK op \in Services : call' = [call EXCEPT ![c] = [Idle EXCEPT !.op = op, !.pc = "setStore"]]
      BY <1>2 DEF SetCoinType, RemoveCoinTypes, Services
    <2>2. call'[c].op = op /\ call'[c].pc = "setStore" /\ \A d \in Slots \ {c} : call'[d] = call[d]
      BY <1>0, <2>1 DEF Idle
    <2> QED BY <1>0, <1>2, <2>2 DEF SetCoinType, RemoveCoinTypes, Others, Status
  <1>3. CASE StoreSaved(c)
    <2>1. call'[c].op = "none" /\ call'[c].pc = "idle" /\ \A d \in Slots \ {c} : call'[d] = call[d]
      BY <1>0, <1>3 DEF StoreSaved, Return, Idle
    <2> QED BY <1>0, <1>3, <2>1 DEF StoreSaved, At, Others
  <1> QED BY <1>1, <1>2, <1>3

-----------------------------------------------------------------------------
(* The accounts that a step may bring: one with the number that the call   *)
(* has taken, or the selected one with the keys of a new Ledger app.       *)
Grows(u) ==
    \/ Accounts(u)' \subseteq Accounts(u)
    \/ Taken(call[u]) /\ \E a : Accounts(u)' \subseteq Accounts(u) \cup {a} /\ a[1] = call[u].num
    \/ /\ LedgerAppAnswers(u) /\ keyStore # NoStore
       /\ Accounts(u)' \subseteq Accounts(u) \cup {<<keyStore.id, JoinedWith(call[u].key)>>}

(* The end of restore().                                                   *)
LEMMA LoadedByIds ==
  ASSUME NEW u \in Slots, IdsInv(u), Typed', LoadedBy(u, Detached(u)) \/ LoadedBy(u, call),
         StoreIn(Accounts(u), keyStore'), ListIn(Accounts(u), multi'), UNCHANGED vault
  PROVE  IdsInv(u)' /\ Grows(u)
  <1> DEFINE r == IF call[u].op = "create" THEN [call[u] EXCEPT !.pc = "check"] ELSE Idle
  <1>1. call' = [call EXCEPT ![u] = r] \/ call' = [Detached(u) EXCEPT ![u] = r]
    BY DetachedGood DEF LoadedBy, IdsInv, Typed, TypeOK
  <1>2. /\ r.pc \in {"check", "idle"}
        /\ r.store \in {call[u].store, NoStore} /\ r.list \in {call[u].list, <<>>}
    BY DEF IdsInv, Typed, TypeOK, Calls, Idle
  <1> HIDE DEF r
  <1> QED BY <1>1, <1>2, KnownAccounts, PlainStep DEF Grows

LEMMA UpgradeIds ==
  ASSUME NEW u \in Slots, IdsInv(u), Typed', NEW list \in Seq(Stores), ListIn(Accounts(u), list),
         Upgrade(u, list, Detached(u)) \/ Upgrade(u, list, call)
  PROVE  IdsInv(u)' /\ Grows(u)
  <1>1. /\ StoreIn(Accounts(u), keyStore') /\ ListIn(Accounts(u), multi')
    <2>1. keyStore' = Upgraded(keyStore) /\ multi' = [i \in DOMAIN list |-> Upgraded(list[i])]
      BY DEF Upgrade
    <2>2. keyStore \in Stores \cup {NoStore} /\ list # Absent
      BY SentinelAssumption DEF IdsInv, Typed, TypeOK
    <2> QED BY <2>1, <2>2, KnownAccounts, UpgradedAccount, UpgradedList DEF StoreIn, ListIn
  <1>2. CASE (LoadedBy(u, Detached(u)) \/ LoadedBy(u, call)) /\ UNCHANGED vault
    BY <1>1, <1>2, LoadedByIds
  <1>3. CASE /\ vault' = [vault EXCEPT !.store = keyStore']
             /\ \/ call' = [call EXCEPT ![u].pc = "upgradeStore"]
                \/ call' = [Detached(u) EXCEPT ![u].pc = "upgradeStore"]
    <2> DEFINE r == [call[u] EXCEPT !.pc = "upgradeStore"]
    <2>1. call' = [call EXCEPT ![u] = r] \/ call' = [Detached(u) EXCEPT ![u] = r]
      BY <1>3, DetachedGood DEF IdsInv
    <2>2. r.pc = "upgradeStore" /\ r.store = call[u].store /\ r.list = call[u].list
      BY DEF IdsInv, Typed, TypeOK, Calls
    <2>3. vault'.store = keyStore' /\ vault'.multi = vault.multi /\ vault'.number = vault.number
      BY <1>3 DEF IdsInv, Typed, TypeOK, Vaults
    <2> HIDE DEF r
    <2> QED BY <1>1, <2>1, <2>2, <2>3, KnownAccounts, PlainStep DEF Grows
  <1> QED BY <1>2, <1>3 DEF Upgrade

(* A single key store of an earlier version gets an id that is new.        *)
LEMMA AdoptIds ==
  ASSUME NEW u \in Slots, IdsInv(u), Typed', AdoptSingleStore(u)
  PROVE  IdsInv(u)' /\ Grows(u)
  <1> DEFINE s == [call[u].store EXCEPT !.id = call[u].num]
             r == [call[u] EXCEPT !.pc = "adoptStore"]
             K == Accounts(u) \cup {Account(s)}
  <1>0. /\ call[u] \in Calls /\ LocalsOK(call[u]) /\ call[u].pc = "setNumber" /\ vault \in Vaults
        /\ Taken(call[u]) /\ call[u].num = vault.number /\ call[u].num \in Nat
    BY DEF IdsInv, Typed, TypeOK, CallsOK, AdoptSingleStore, At, Taken, Numbers, Calls
  <1>1. call[u].store \in Stores
    BY <1>0 DEF LocalsOK
  <1>2. s \in Stores /\ s.id = call[u].num
    BY <1>0, <1>1 DEF Stores
  <1>3. call' = [Detached(u) EXCEPT ![u] = r]
    BY DetachedGood DEF AdoptSingleStore, IdsInv
  <1>4. r.pc = "adoptStore" /\ r.store = call[u].store /\ r.list = call[u].list
    BY <1>0 DEF Calls
  <1>5. multi' = <<s>> /\ keyStore' \in {s, keyStore} /\ vault' = [vault EXCEPT !.store = keyStore']
    BY DEF AdoptSingleStore
  <1> HIDE DEF s, r
  <1>6. ListIn(K, multi')
    <2>1. <<s>> \in Seq(Stores) /\ DOMAIN <<s>> = {1} /\ <<s>>[1] = s
      BY <1>2
    <2>2. AccountsIn(<<s>>) \subseteq {Account(s)} /\ DistinctIds(<<s>>)
      BY <2>1 DEF AccountsIn, DistinctIds
    <2> QED BY <1>5, <2>2 DEF ListIn
  <1>7. StoreIn(K, keyStore') /\ StoreIn(K, call[u].store) /\ ListIn(K, call[u].list) /\ ListIn(K, vault.multi)
    BY <1>5, KnownAccounts DEF StoreIn, ListIn, AccountsOf
  <1>8. vault'.store = keyStore' /\ vault'.multi = vault.multi /\ vault'.number = vault.number
    BY <1>0, <1>5 DEF Vaults
  <1>9. \A a \in K : a[1] <= vault'.number
    BY <1>0, <1>2, <1>8, KnownAccounts DEF Account
  <1>10. call'[u] = r => Locals(u)'
    BY <1>4 DEF Locals
  <1>11. IdsInv(u)' /\ Accounts(u)' \subseteq K
    <2> HIDE DEF K
    <2>1. ~Taken(r)
      BY <1>4 DEF Taken
    <2> QED BY <1>3, <1>4, <1>6, <1>7, <1>8, <1>9, <1>10, <2>1, UserStep
  <1>12. Account(s)[1] = call[u].num
    BY <1>2 DEF Account
  <1> QED BY <1>0, <1>11, <1>12 DEF Grows

(* restore().                                                              *)
LEMMA RestoreIds ==
  ASSUME NEW u \in Slots, IdsInv(u), Typed', Restore(u)
  PROVE  IdsInv(u)' /\ Grows(u)
  <1>0. call[u] \in Calls /\ vault \in Vaults /\ multi \in Seq(Stores)
    BY DEF IdsInv, Typed, TypeOK
  <1>1. ASSUME NEW op, call' = [call EXCEPT ![u] = Restoring(u, op)], UNCHANGED <<memory, vault>>
        PROVE  IdsInv(u)' /\ Grows(u)
    <2> DEFINE r == Restoring(u, op)
    <2>1. r.pc = "getStore" /\ r.store = vault.store /\ r.list = <<>>
      BY DEF Restoring, Idle
    <2>2. call' = [call EXCEPT ![u] = r] /\ UNCHANGED <<keyStore, multi, vault>>
      BY <1>1 DEF memory
    <2> HIDE DEF r
    <2> QED BY <2>1, <2>2, KnownAccounts, PlainStep DEF Grows
  <1>2. CASE BeginRestore(u) \/ BeginEnable(u)
    BY <1>1, <1>2 DEF BeginRestore, BeginEnable
  <1>3. CASE GotStore(u)
    <2> DEFINE r == [call[u] EXCEPT !.pc = "getMulti", !.list = vault.multi]
    <2>1. r.pc = "getMulti" /\ r.store = call[u].store /\ r.list = vault.multi
      BY <1>0 DEF Calls
    <2>2. call' = [call EXCEPT ![u] = r] /\ keyStore' = call[u].store /\ UNCHANGED <<multi, vault>>
      BY <1>3 DEF GotStore
    <2> HIDE DEF r
    <2> QED BY <2>1, <2>2, KnownAccounts, PlainStep DEF Grows
  <1>4. CASE GotMulti(u)
    <2>1. call[u].list \in Seq(Stores)
      BY <1>0, <1>4 DEF GotMulti, Calls
    <2> QED BY <1>4, <2>1, KnownAccounts, UpgradeIds DEF GotMulti
  <1>5. CASE GotNoMulti(u)
    <2>1. CASE call[u].store = NoStore
      <3> DEFINE r == [call[u] EXCEPT !.pc = "adoptStore"]
      <3>1. r.pc = "adoptStore" /\ r.store = call[u].store /\ r.list = call[u].list
        BY <1>0 DEF Calls
      <3>2. /\ call' = [Detached(u) EXCEPT ![u] = r]
            /\ keyStore' = keyStore /\ multi' = <<>> /\ vault' = [vault EXCEPT !.store = keyStore]
        BY <1>5, <2>1, DetachedGood DEF GotNoMulti, IdsInv
      <3>3. vault'.store = keyStore /\ vault'.multi = vault.multi /\ vault'.number = vault.number
        BY <1>0, <3>2 DEF Vaults
      <3> HIDE DEF r
      <3> QED BY <3>1, <3>2, <3>3, KnownAccounts, PlainStep DEF Grows
    <2>2. CASE call[u].store # NoStore
      <3> DEFINE r == [call[u] EXCEPT !.pc = "adoptNumber", !.num = vault.number + 1]
      <3>1. r.pc = "adoptNumber" /\ r.store = call[u].store /\ r.list = call[u].list /\ r.num = vault.number + 1
        BY <1>0 DEF Calls
      <3>2. call' = [call EXCEPT ![u] = r] /\ UNCHANGED <<keyStore, multi, vault>>
        BY <1>5, <2>2 DEF GotNoMulti
      <3> HIDE DEF r
      <3> QED BY <3>1, <3>2, KnownAccounts, PlainStep DEF Grows
    <2> QED BY <2>1, <2>2
  <1>6. CASE AdoptSingleStore(u)
    BY <1>6, AdoptIds
  <1>7. CASE AdoptedStoreSaved(u) \/ UpgradeStoreSaved(u)
    <2> DEFINE r(to) == [call[u] EXCEPT !.pc = to]
    <2>1. PICK to \in {"adoptMulti", "upgradeMulti"} : call' = [call EXCEPT ![u] = r(to)]
      BY <1>7 DEF AdoptedStoreSaved, UpgradeStoreSaved, Goto
    <2>2. r(to).pc = to /\ r(to).store = call[u].store /\ r(to).list = call[u].list
      BY <1>0 DEF Calls
    <2>3. UNCHANGED <<keyStore, multi>> /\ vault' = [vault EXCEPT !.multi = multi]
      BY <1>7 DEF AdoptedStoreSaved, UpgradeStoreSaved, memory
    <2>4. vault'.store = vault.store /\ vault'.multi = multi /\ vault'.number = vault.number
      BY <1>0, <2>3 DEF Vaults
    <2> HIDE DEF r
    <2> QED BY <2>1, <2>2, <2>3, <2>4, KnownAccounts, PlainStep DEF Grows
  <1>8. CASE AdoptedListSaved(u)
    BY <1>0, <1>8, KnownAccounts, UpgradeIds DEF AdoptedListSaved
  <1>9. CASE UpgradeListSaved(u)
    BY <1>9, KnownAccounts, LoadedByIds DEF UpgradeListSaved
  <1> QED BY <1>2, <1>3, <1>4, <1>5, <1>6, <1>7, <1>8, <1>9 DEF Restore

-----------------------------------------------------------------------------
(* A step that writes the record of u, and no more than a save of what is   *)
(* there.                                                                  *)
LEMMA RecordStep ==
  ASSUME NEW u \in Slots, IdsInv(u), Typed', NEW r, call' = [call EXCEPT ![u] = r],
         UNCHANGED <<keyStore, multi>>,
         vault' \in {vault, [vault EXCEPT !.store = keyStore], [vault EXCEPT !.multi = multi]},
         r.store \in {NoStore, keyStore, vault.store, call[u].store}, r.list \in {<<>>, call[u].list},
         r.pc \in {"getNumber", "adoptNumber"} => r.num = vault.number + 1,
         r.pc \notin {"setNumber", "encrypt", "reencrypt"}
  PROVE  IdsInv(u)' /\ Grows(u)
  <1>1. /\ vault'.store \in {vault.store, keyStore} /\ vault'.multi \in {vault.multi, multi}
        /\ vault'.number = vault.number
    BY DEF IdsInv, Typed, TypeOK, Vaults
  <1>2. IdsInv(u)' /\ Accounts(u)' \subseteq Accounts(u)
    BY <1>1, KnownAccounts, PlainStep
  <1> QED BY <1>2 DEF Grows

LEMMA CreateCheckedIds ==
  ASSUME NEW u \in Slots, IdsInv(u), Typed', NEW create \in Calls, CreateChecked(u, create),
         create.store = NoStore, create.list = <<>>
  PROVE  IdsInv(u)' /\ Grows(u)
  <1>1. CASE Return(u) /\ UNCHANGED <<memory, vault>>
    BY <1>1, RecordStep DEF Return, memory, Idle
  <1>2. CASE UNCHANGED <<memory, vault>> /\ call' = [call EXCEPT ![u] = [create EXCEPT !.pc = "device"]]
    <2> DEFINE r == [create EXCEPT !.pc = "device"]
    <2>1. r.pc = "device" /\ r.store = NoStore /\ r.list = <<>>
      BY DEF Calls
    <2>2. call' = [call EXCEPT ![u] = r] /\ UNCHANGED <<keyStore, multi, vault>>
      BY <1>2 DEF memory
    <2> HIDE DEF r
    <2> QED BY <2>1, <2>2, RecordStep
  <1>3. CASE /\ call' = [call EXCEPT ![u] = [create EXCEPT !.pc = "getNumber", !.num = vault.number + 1]]
             /\ UNCHANGED <<keyStore, multi, vault>>
    <2> DEFINE r == [create EXCEPT !.pc = "getNumber", !.num = vault.number + 1]
    <2>1. r.pc = "getNumber" /\ r.store = NoStore /\ r.list = <<>> /\ r.num = vault.number + 1
      BY DEF Calls
    <2> HIDE DEF r
    <2> QED BY <1>3, <2>1, RecordStep DEF r
  <1> QED BY <1>1, <1>2, <1>3 DEF CreateChecked

(* The counter is written: the number is that of no account.               *)
LEMMA WriteNumberIds ==
  ASSUME NEW u \in Slots, IdsInv(u), Typed', WriteNumber(u)
  PROVE  IdsInv(u)' /\ Grows(u)
  <1> DEFINE to == IF At(u, "getNumber") THEN "encrypt" ELSE "setNumber"
             r == [call[u] EXCEPT !.pc = to]
  <1>0. /\ call[u] \in Calls /\ LocalsOK(call[u]) /\ vault \in Vaults
        /\ call[u].num = vault.number + 1 /\ vault.number \in Nat
    BY DEF IdsInv, Typed, TypeOK, CallsOK, WriteNumber, At, Numbers, Vaults
  <1>1. /\ r.pc = to /\ r.op = call[u].op /\ r.store = call[u].store /\ r.list = call[u].list
        /\ r.num = call[u].num
    BY <1>0 DEF Calls
  <1>2. to \in {"encrypt", "setNumber"} /\ (to = "encrypt" => r.op \in Adding)
    BY <1>0, <1>1 DEF At, LocalsOK, Adding
  <1>3. /\ call' = [call EXCEPT ![u] = r] /\ UNCHANGED <<keyStore, multi>>
        /\ vault'.store = vault.store /\ vault'.multi = vault.multi /\ vault'.number = vault.number + 1
    BY <1>0 DEF WriteNumber, Goto, memory, Vaults
  <1> HIDE DEF r, to
  <1>4. \A a \in Accounts(u) : a[1] \in Nat /\ a[1] <= vault.number
    BY KnownIds, KnownAccounts DEF IdsInv
  <1>5. \A a \in Accounts(u) : a[1] <= vault'.number /\ a[1] < r.num
    BY <1>0, <1>1, <1>3, <1>4
  <1>6. call'[u] = r => Locals(u)'
    BY <1>1, <1>2 DEF Locals, Adding
  <1>7. IdsInv(u)' /\ Accounts(u)' \subseteq Accounts(u)
    <2> DEFINE K == Accounts(u)
    <2>1. /\ StoreIn(K, keyStore') /\ ListIn(K, multi') /\ StoreIn(K, vault'.store) /\ ListIn(K, vault'.multi)
          /\ StoreIn(K, r.store) /\ ListIn(K, r.list)
      BY <1>1, <1>3, KnownAccounts
    <2>2. \A a \in K : a[1] <= vault'.number /\ a[1] < r.num
      BY <1>5
    <2>3. r.num = vault'.number /\ r.pc \notin {"getNumber", "adoptNumber"}
      BY <1>0, <1>1, <1>2, <1>3
    <2> HIDE DEF K
    <2>4. IdsInv(u)' /\ Accounts(u)' \subseteq K
      BY <1>3, <1>6, <2>1, <2>2, <2>3, UserStep
    <2> QED BY <2>4 DEF K
  <1> QED BY <1>7 DEF Grows

(* create*() and add*() give the new account its number.                   *)
LEMMA FinishIds ==
  ASSUME NEW u \in Slots, IdsInv(u), Typed', FinishCreate(u) \/ FinishAdd(u)
  PROVE  IdsInv(u)' /\ Grows(u)
  <1> DEFINE s == Encrypted(u)
             r == [call[u] EXCEPT !.pc = "setStore"]
             K == Accounts(u) \cup {Account(s)}
  <1>0. /\ call[u] \in Calls /\ LocalsOK(call[u]) /\ vault \in Vaults /\ multi \in Seq(Stores)
        /\ Taken(call[u]) /\ call[u].num = vault.number /\ call[u].num \in Nat
        /\ \A a \in Accounts(u) : a[1] < call[u].num
    BY DEF IdsInv, Typed, TypeOK, CallsOK, FinishCreate, FinishAdd, At, Taken, Adding, Numbers, Calls
  <1>1. s \in Stores /\ s.id = call[u].num
    <2>1. call[u].key \in Keys
      BY <1>0 DEF FinishCreate, FinishAdd, LocalsOK
    <2> QED BY <1>0, <2>1, CiphertextTyped DEF Encrypted, Ciphertext, Calls
  <1>2. call' = [call EXCEPT ![u] = r]
    BY DEF FinishCreate, FinishAdd, Saving
  <1>3. r.pc = "setStore" /\ r.store = call[u].store /\ r.list = call[u].list
    BY <1>0 DEF Calls
  <1>4. multi' = Append(multi, s) /\ keyStore' \in {s, keyStore} /\ vault' = [vault EXCEPT !.store = keyStore']
    BY DEF FinishCreate, FinishAdd, Pushed
  <1> HIDE DEF s, r
  <1>5. ListIn(K, multi')
    <2>1. ASSUME NEW i \in DOMAIN multi PROVE multi[i].id # s.id
      <3>1. Account(multi[i]) \in Accounts(u) /\ multi[i] \in Stores
        BY <1>0, KnownAccounts, KnownElement
      <3> QED BY <1>0, <1>1, <3>1 DEF Account, Stores
    <2>2. AccountsIn(multi') \subseteq K /\ DistinctIds(multi')
      BY <1>0, <1>1, <1>4, <2>1, KnownAccounts, LongerList, SentinelAssumption DEF ListIn
    <2> QED BY <2>2 DEF ListIn
  <1>6. StoreIn(K, keyStore') /\ StoreIn(K, call[u].store) /\ ListIn(K, call[u].list) /\ ListIn(K, vault.multi)
    BY <1>4, KnownAccounts DEF StoreIn, ListIn, AccountsOf
  <1>7. vault'.store = keyStore' /\ vault'.multi = vault.multi /\ vault'.number = vault.number
    BY <1>0, <1>4 DEF Vaults
  <1>8. \A a \in K : a[1] <= vault'.number
    BY <1>0, <1>1, <1>7, KnownAccounts DEF Account
  <1>9. call'[u] = r => Locals(u)'
    BY <1>3 DEF Locals
  <1>10. IdsInv(u)' /\ Accounts(u)' \subseteq K
    <2> HIDE DEF K
    <2>1. ~Taken(r)
      BY <1>3 DEF Taken
    <2> QED BY <1>2, <1>3, <1>5, <1>6, <1>7, <1>8, <1>9, <2>1, UserStep
  <1>11. Account(s)[1] = call[u].num
    BY <1>1 DEF Account
  <1> QED BY <1>0, <1>10, <1>11 DEF Grows

LEMMA CreateOrAddIds ==
  ASSUME NEW u \in Slots, IdsInv(u), Typed', CreateOrAdd(u)
  PROVE  IdsInv(u)' /\ Grows(u)
  <1>0. call[u] \in Calls
    BY DEF IdsInv, Typed, TypeOK
  <1>1. ASSUME NEW k \in Keys, NEW p \in Passwords, BeginCreate(u, k, p)
        PROVE  IdsInv(u)' /\ Grows(u)
    <2> DEFINE create == [Idle EXCEPT !.op = "create", !.key = k, !.pw = p]
               r == [create EXCEPT !.pc = "getStore", !.store = vault.store]
    <2>1. create \in Calls /\ create.store = NoStore /\ create.list = <<>>
      BY IdleGood DEF GoodCall, Calls, Operations, Idle
    <2>2. r.pc = "getStore" /\ r.store = vault.store /\ r.list = <<>>
      BY DEF Idle
    <2>3. CASE CreateChecked(u, create)
      <3> HIDE DEF create
      <3> QED BY <2>1, <2>3, CreateCheckedIds
    <2>4. CASE call' = [call EXCEPT ![u] = r] /\ UNCHANGED <<memory, vault>>
      <3> HIDE DEF r
      <3> QED BY <2>2, <2>4, RecordStep DEF memory
    <2> QED BY <1>1, <2>3, <2>4 DEF BeginCreate
  <1>2. CASE CheckCreate(u)
    <2> DEFINE create == [call[u] EXCEPT !.store = NoStore, !.list = <<>>]
    <2>1. create \in Calls /\ create.store = NoStore /\ create.list = <<>>
      <3>1. <<>> \in Seq(Stores) \cup {Absent}
        OBVIOUS
      <3> QED BY <1>0, <3>1 DEF Calls
    <2> HIDE DEF create
    <2> QED BY <1>2, <2>1, CreateCheckedIds DEF CheckCreate, create
  <1>3. CASE WriteNumber(u)
    BY <1>3, WriteNumberIds
  <1>4. ASSUME NEW k \in Keys, BeginAdd(u, k)
        PROVE  IdsInv(u)' /\ Grows(u)
    <2> DEFINE add == [Idle EXCEPT !.op = "add", !.key = k]
               r1 == [add EXCEPT !.pc = "device"]
               r2 == [add EXCEPT !.pc = "getNumber", !.pw = password, !.num = vault.number + 1]
    <2>1. /\ r1.pc = "device" /\ r1.store = NoStore /\ r1.list = <<>>
          /\ r2.pc = "getNumber" /\ r2.store = NoStore /\ r2.list = <<>> /\ r2.num = vault.number + 1
      BY DEF Idle
    <2>2. call' = [call EXCEPT ![u] = r1] \/ call' = [call EXCEPT ![u] = r2]
      BY <1>4 DEF BeginAdd
    <2>3. UNCHANGED <<keyStore, multi, vault>>
      BY <1>4 DEF BeginAdd, memory
    <2> HIDE DEF r1, r2
    <2> QED BY <2>1, <2>2, <2>3, RecordStep
  <1>5. CASE DeviceAnswers(u)
    <2> DEFINE r == [call[u] EXCEPT !.pc = "getNumber", !.num = vault.number + 1,
                                    !.pw = IF call[u].op = "add" THEN password ELSE @]
    <2>1. r.pc = "getNumber" /\ r.store = call[u].store /\ r.list = call[u].list /\ r.num = vault.number + 1
      BY <1>0 DEF Calls
    <2>2. call' = [call EXCEPT ![u] = r] /\ UNCHANGED <<keyStore, multi, vault>>
      BY <1>5 DEF DeviceAnswers, memory
    <2> HIDE DEF r
    <2> QED BY <2>1, <2>2, RecordStep
  <1>6. CASE DeviceFails(u)
    BY <1>6, RecordStep DEF DeviceFails, Return, memory, Idle
  <1>7. CASE FinishCreate(u) \/ FinishAdd(u)
    BY <1>7, FinishIds
  <1> QED BY <1>1, <1>2, <1>3, <1>4, <1>5, <1>6, <1>7 DEF CreateOrAdd

-----------------------------------------------------------------------------
LEMMA DeleteFromIds ==
  ASSUME NEW u \in Slots, IdsInv(u), Typed', NEW selected, DeleteFrom(u, selected),
         call[u].list \in Seq(Stores), StoreIn(Accounts(u), selected)
  PROVE  IdsInv(u)' /\ Grows(u)
  <1> DEFINE r == [call[u] EXCEPT !.pc = "setStore"]
  <1>1. call' = [Detached(u) EXCEPT ![u] = r]
    BY DetachedGood DEF DeleteFrom, Saving, IdsInv
  <1>2. r.pc = "setStore" /\ r.store = call[u].store /\ r.list = call[u].list
    BY DEF IdsInv, Typed, TypeOK, Calls
  <1>3. /\ multi' = call[u].list /\ keyStore' = selected
        /\ vault'.store = selected /\ vault'.multi = vault.multi /\ vault'.number = vault.number
    BY DEF DeleteFrom, IdsInv, Typed, TypeOK, Vaults
  <1> HIDE DEF r
  <1> QED BY <1>1, <1>2, <1>3, KnownAccounts, PlainStep DEF Grows

(* unlock() and the change, deletion and renaming of an account.           *)
LEMMA SelectIds ==
  ASSUME NEW u \in Slots, IdsInv(u), Typed', Select(u)
  PROVE  IdsInv(u)' /\ Grows(u)
  <1>0. /\ call[u] \in Calls /\ LocalsOK(call[u]) /\ multi \in Seq(Stores) /\ vault \in Vaults
        /\ ListIn(Accounts(u), multi)
    BY KnownAccounts DEF IdsInv, Typed, TypeOK, CallsOK
  <1>a. ASSUME NEW i \in DOMAIN multi PROVE StoreIn(Accounts(u), multi[i])
    BY <1>0, KnownElement
  <1> DEFINE saved == [call[u] EXCEPT !.pc = "setStore"]
  <1>b. saved.pc = "setStore" /\ saved.store = call[u].store /\ saved.list = call[u].list
    BY <1>0 DEF Calls
  <1>c. Saving(call, u) = [call EXCEPT ![u] = saved]
    BY DEF Saving
  <1> HIDE DEF saved
  <1>1. ASSUME NEW p \in Passwords, BeginUnlock(u, p)
        PROVE  IdsInv(u)' /\ Grows(u)
    <2> DEFINE r == [Idle EXCEPT !.op = "unlock", !.pc = "decrypt", !.store = keyStore, !.pw = p]
    <2>1. r.pc = "decrypt" /\ r.store = keyStore /\ r.list = <<>>
      BY DEF Idle
    <2>2. call' = [call EXCEPT ![u] = r] /\ UNCHANGED <<keyStore, multi, vault>>
      BY <1>1 DEF BeginUnlock, memory
    <2> HIDE DEF r
    <2> QED BY <2>1, <2>2, RecordStep
  <1>2. ASSUME NEW i \in DOMAIN multi, BeginChange(u, i)
        PROVE  IdsInv(u)' /\ Grows(u)
    <2> DEFINE r == [Idle EXCEPT !.op = "change", !.pc = "decrypt", !.store = multi[i], !.pw = password]
    <2>1. r.pc = "decrypt" /\ r.store = multi[i] /\ r.list = <<>>
      BY DEF Idle
    <2>2. call' = [call EXCEPT ![u] = r] /\ keyStore' = multi[i] /\ UNCHANGED <<multi, vault>>
      BY <1>2 DEF BeginChange
    <2> HIDE DEF r
    <2> QED BY <1>a, <2>1, <2>2, KnownAccounts, PlainStep DEF Grows
  <1>3. ASSUME NEW i \in DOMAIN multi, BeginDelete(u, i)
        PROVE  IdsInv(u)' /\ Grows(u)
    <2> DEFINE r == [Idle EXCEPT !.op = "delete", !.pc = "decrypt", !.pw = password,
                                 !.store = multi[i], !.list = RemoveAt(multi, i)]
    <2>1. r.pc = "decrypt" /\ r.store = multi[i] /\ r.list = RemoveAt(multi, i)
      BY DEF Idle
    <2>2. call' = [call EXCEPT ![u] = r] /\ UNCHANGED <<keyStore, multi, vault>>
      BY <1>3 DEF BeginDelete, memory
    <2>3. ListIn(Accounts(u), RemoveAt(multi, i))
      BY <1>0, ShorterList, SentinelAssumption DEF ListIn
    <2> HIDE DEF r
    <2> QED BY <1>a, <2>1, <2>2, <2>3, KnownAccounts, PlainStep DEF Grows
  <1>4. ASSUME NEW i \in DOMAIN multi, Rename(u, i)
        PROVE  IdsInv(u)' /\ Grows(u)
    <2> DEFINE r == [Idle EXCEPT !.op = "rename", !.pc = "setStore"]
    <2>1. r.pc = "setStore" /\ r.store = NoStore /\ r.list = <<>>
      BY DEF Idle
    <2>2. call' = [call EXCEPT ![u] = r] /\ keyStore' \in {multi[i], keyStore} /\ multi' = multi
      BY <1>4 DEF Rename, Reselected
    <2>3. vault'.store = keyStore' /\ vault'.multi = vault.multi /\ vault'.number = vault.number
      BY <1>0, <1>4 DEF Rename, Vaults
    <2> HIDE DEF r
    <2> QED BY <1>a, <2>1, <2>2, <2>3, KnownAccounts, PlainStep DEF Grows
  <1>5. CASE FinishUnlock(u)
    BY <1>5, RecordStep DEF FinishUnlock, Return, Idle
  <1>6. CASE FinishChange(u)
    BY <1>b, <1>c, <1>6, RecordStep DEF FinishChange, Return, Idle
  <1>7. CASE DeleteRefused(u)
    BY <1>7, RecordStep DEF DeleteRefused, Return, Idle
  <1>8. CASE FinishDelete(u)
    <2>0. call[u].list \in Seq(Stores)
      BY <1>0, <1>8 DEF FinishDelete, LocalsOK
    <2>1. CASE DeleteOther(u) \/ DeleteLast(u)
      BY <2>0, <2>1, KnownAccounts, DeleteFromIds DEF DeleteOther, DeleteLast
    <2>2. CASE DeleteSelected(u)
      <3>1. CASE Return(u) /\ UNCHANGED keyStore
        BY <2>2, <3>1, RecordStep DEF DeleteSelected, Return, Idle
      <3>2. CASE keyStore' = Head(call[u].list) /\ Goto(u, "reopen")
        <4> DEFINE r == [call[u] EXCEPT !.pc = "reopen"]
        <4>1. r.pc = "reopen" /\ r.store = call[u].store /\ r.list = call[u].list
          BY <1>0 DEF Calls
        <4>2. call' = [call EXCEPT ![u] = r] /\ UNCHANGED <<multi, vault>>
          BY <2>2, <3>2 DEF Goto, DeleteSelected
        <4>3. 1 \in DOMAIN call[u].list /\ Head(call[u].list) = call[u].list[1]
          BY <2>0, <2>2, LenProperties, HeadTailProperties DEF DeleteSelected
        <4>4. StoreIn(Accounts(u), Head(call[u].list))
          BY <2>0, <4>3, KnownAccounts, KnownElement
        <4> HIDE DEF r
        <4> QED BY <3>2, <4>1, <4>2, <4>4, KnownAccounts, PlainStep DEF Grows
      <3> QED BY <2>2, <3>1, <3>2 DEF DeleteSelected
    <2> QED BY <1>7, <1>8, <2>1, <2>2 DEF FinishDelete
  <1>9. CASE ReopenAfterDelete(u)
    <2>1. call[u].list \in Seq(Stores)
      BY <1>0, <1>9 DEF ReopenAfterDelete, At, LocalsOK
    <2> QED BY <1>7, <1>9, <2>1, KnownAccounts, DeleteFromIds DEF ReopenAfterDelete
  <1> QED BY <1>1, <1>2, <1>3, <1>4, <1>5, <1>6, <1>8, <1>9 DEF Select

-----------------------------------------------------------------------------
(* What updatePassword() has encrypted, with the one it encrypts next.     *)
LEMMA ReencryptedList ==
  ASSUME NEW u \in Slots, IdsInv(u), call[u].pc = "reencrypt", NEW new \in Stores,
         Account(new) = Account(call[u].store)
  PROVE  /\ ListIn(Accounts(u), Append(call[u].list, new))
         /\ \A k \in DOMAIN Append(call[u].list, new) :
              \E j \in 1..call[u].num : Append(call[u].list, new)[k].id = multi[j].id
  <1>0. /\ call[u] \in Calls /\ LocalsOK(call[u]) /\ multi \in Seq(Stores)
        /\ call[u].list \in Seq(Stores) /\ call[u].num \in DOMAIN multi /\ call[u].store \in Stores
        /\ \A k \in DOMAIN call[u].list : \E j \in 1..(call[u].num - 1) : call[u].list[k].id = multi[j].id
        /\ Account(call[u].store) = Account(multi[call[u].num]) /\ DistinctIds(multi)
    BY DEF IdsInv, Typed, TypeOK, CallsOK, LocalsOK, Locals, Distinct
  <1>1. call[u].num \in 1..Len(multi) /\ Len(multi) \in Nat /\ DOMAIN multi = 1..Len(multi)
    BY <1>0, LenProperties
  <1>2. new.id = multi[call[u].num].id
    BY <1>0 DEF Account
  <1>3. \A k \in DOMAIN call[u].list : call[u].list[k].id # new.id
    <2>1. ASSUME NEW k \in DOMAIN call[u].list, call[u].list[k].id = new.id
          PROVE  FALSE
      <3>1. PICK j \in 1..(call[u].num - 1) : call[u].list[k].id = multi[j].id
        BY <1>0
      <3>2. j \in DOMAIN multi /\ j # call[u].num
        BY <1>1
      <3> QED BY <1>0, <1>2, <2>1, <3>1, <3>2 DEF DistinctIds
    <2> QED BY <2>1
  <1>4. ListIn(Accounts(u), Append(call[u].list, new))
    <2>1. ListIn(Accounts(u), call[u].list) /\ StoreIn(Accounts(u), call[u].store) /\ call[u].list # Absent
      BY <1>0, KnownAccounts, SentinelAssumption
    <2>2. Account(new) \in Accounts(u)
      BY <1>0, <2>1, SentinelAssumption DEF StoreIn, AccountsOf
    <2>3. /\ AccountsIn(Append(call[u].list, new)) = AccountsIn(call[u].list) \cup {Account(new)}
          /\ DistinctIds(call[u].list) => DistinctIds(Append(call[u].list, new))
      BY <1>0, <1>3, LongerList
    <2> QED BY <2>1, <2>2, <2>3 DEF ListIn
  <1>5. ASSUME NEW k \in DOMAIN Append(call[u].list, new)
        PROVE  \E j \in 1..call[u].num : Append(call[u].list, new)[k].id = multi[j].id
    <2>1. k \in 1..(Len(call[u].list) + 1) /\ Len(call[u].list) \in Nat
      BY <1>0, AppendProperties, LenProperties
    <2>2. CASE k = Len(call[u].list) + 1
      <3>1. Append(call[u].list, new)[k] = new
        BY <1>0, <2>2, AppendProperties
      <3>2. call[u].num \in 1..call[u].num
        BY <1>1
      <3> QED BY <1>2, <3>1, <3>2
    <2>3. CASE k # Len(call[u].list) + 1
      <3>1. k \in 1..Len(call[u].list) /\ k \in DOMAIN call[u].list
        BY <1>0, <2>1, <2>3, LenProperties
      <3>2. PICK j \in 1..(call[u].num - 1) : call[u].list[k].id = multi[j].id
        BY <1>0, <3>1
      <3>3. j \in 1..call[u].num /\ Append(call[u].list, new)[k] = call[u].list[k]
        BY <1>0, <1>1, <3>1, AppendProperties
      <3> QED BY <3>2, <3>3
    <2> QED BY <2>2, <2>3
  <1> QED BY <1>4, <1>5

LEMMA PasswordReplacedIds ==
  ASSUME NEW u \in Slots, IdsInv(u), Typed', NEW list \in Seq(Stores), NEW new,
         PasswordReplaced(u, list, new), ListIn(Accounts(u), list), StoreIn(Accounts(u), keyStore')
  PROVE  IdsInv(u)' /\ Grows(u)
  <1> DEFINE r == [Idle EXCEPT !.op = "updatePassword", !.pc = "setStore"]
  <1>1. call' = [Detached(u) EXCEPT ![u] = r] /\ multi' = list
    BY DEF PasswordReplaced
  <1>2. r.pc = "setStore" /\ r.store = NoStore /\ r.list = <<>>
    BY DEF Idle
  <1>3. vault'.store = keyStore' /\ vault'.multi = vault.multi /\ vault'.number = vault.number
    BY DEF PasswordReplaced, IdsInv, Typed, TypeOK, Vaults
  <1> HIDE DEF r
  <1> QED BY <1>1, <1>2, <1>3, KnownAccounts, PlainStep DEF Grows

(* updatePassword() goes on with the key store at i of the list.           *)
LEMMA IteratesIds ==
  ASSUME NEW u \in Slots, IdsInv(u), Typed', NEW r, call' = [call EXCEPT ![u] = r],
         r.pc = "reencrypt", r.live, r.num \in DOMAIN multi, r.store = multi[r.num],
         ListIn(Accounts(u), r.list),
         \A k \in DOMAIN r.list : \E j \in 1..(r.num - 1) : r.list[k].id = multi[j].id,
         UNCHANGED <<multi, vault>>, StoreIn(Accounts(u), keyStore')
  PROVE  IdsInv(u)' /\ Grows(u)
  <1> DEFINE K == Accounts(u)
  <1>1. multi \in Seq(Stores) /\ ~Taken(r)
    BY DEF Taken, IdsInv, Typed, TypeOK
  <1>2. StoreIn(K, r.store)
    BY <1>1, KnownAccounts, KnownElement
  <1>3. call'[u] = r => Locals(u)'
    BY DEF Locals
  <1>4. /\ StoreIn(K, keyStore') /\ ListIn(K, multi') /\ StoreIn(K, vault'.store) /\ ListIn(K, vault'.multi)
        /\ ListIn(K, r.list) /\ \A a \in K : a[1] <= vault'.number
    BY KnownAccounts
  <1> HIDE DEF K
  <1>5. IdsInv(u)' /\ Accounts(u)' \subseteq K
    BY <1>1, <1>2, <1>3, <1>4, UserStep
  <1> QED BY <1>5 DEF K, Grows

(* A new Ledger app: the account is the selected one.                      *)
LEMMA LedgerAppIds ==
  ASSUME NEW u \in Slots, IdsInv(u), Typed', LedgerAppAnswers(u), keyStore # NoStore
  PROVE  IdsInv(u)' /\ Grows(u)
  <1> DEFINE k == JoinedWith(call[u].key)
             s == Ciphertext(keyStore.id, k, password)
             r == [call[u] EXCEPT !.pc = "encrypt", !.key = k, !.store = s]
             K == Accounts(u) \cup {<<keyStore.id, k>>}
  <1>0. /\ call[u] \in Calls /\ call[u].op = "initLedgerApp" /\ keyStore \in Stores
        /\ StoreIn(Accounts(u), keyStore)
    BY KnownAccounts DEF IdsInv, Typed, TypeOK, LedgerAppAnswers
  <1>1. call' = [call EXCEPT ![u] = r] /\ UNCHANGED <<keyStore, multi, vault>>
    BY DEF LedgerAppAnswers, memory
  <1>2. r.pc = "encrypt" /\ r.op = "initLedgerApp" /\ r.store = s /\ r.list = call[u].list
    BY <1>0 DEF Calls
  <1>3. s.id = keyStore.id /\ Account(s) = <<keyStore.id, k>>
    BY DEF Ciphertext, Account
  <1>4. keyStore.id <= vault.number
    <2>1. Account(keyStore) \in Accounts(u)
      BY <1>0 DEF StoreIn, AccountsOf
    <2> QED BY <2>1, KnownAccounts DEF Account
  <1> HIDE DEF k, s, r
  <1>5. \A a \in K : a[1] <= vault'.number
    BY <1>1, <1>4, KnownAccounts
  <1>6. /\ StoreIn(K, keyStore') /\ ListIn(K, multi') /\ StoreIn(K, vault'.store) /\ ListIn(K, vault'.multi)
        /\ StoreIn(K, r.store) /\ ListIn(K, r.list)
    BY <1>1, <1>2, <1>3, KnownAccounts DEF StoreIn, ListIn, AccountsOf
  <1>7. call'[u] = r => Locals(u)'
    BY <1>1, <1>2, <1>3 DEF Locals
  <1>8. ~Taken(r)
    BY <1>2 DEF Taken, Adding
  <1>9. IdsInv(u)' /\ Accounts(u)' \subseteq K
    <2> HIDE DEF K
    <2> QED BY <1>1, <1>2, <1>5, <1>6, <1>7, <1>8, UserStep
  <1> QED BY <1>9 DEF Grows, k

LEMMA FinishLedgerAppIds ==
  ASSUME NEW u \in Slots, IdsInv(u), Typed', FinishInitLedgerApp(u)
  PROVE  IdsInv(u)' /\ Grows(u)
  <1>0. /\ call[u] \in Calls /\ LocalsOK(call[u]) /\ multi \in Seq(Stores) /\ call[u].store \in Stores
        /\ call[u].store.id = keyStore.id /\ vault \in Vaults
    BY DEF IdsInv, Typed, TypeOK, CallsOK, FinishInitLedgerApp, At, LocalsOK, Locals
  <1>1. CASE Return(u) /\ UNCHANGED <<keyStore, multi, secret, vault>>
    BY <1>1, RecordStep DEF Return, Idle
  <1>2. ASSUME NEW i \in DOMAIN multi, IsSelected(multi[i]), multi' = [multi EXCEPT ![i] = call[u].store],
               keyStore' = call[u].store, vault' = [vault EXCEPT !.store = call[u].store],
               call' = Saving(call, u)
        PROVE  IdsInv(u)' /\ Grows(u)
    <2> DEFINE r == [call[u] EXCEPT !.pc = "setStore"]
    <2>1. call' = [call EXCEPT ![u] = r]
      BY <1>2 DEF Saving
    <2>2. r.pc = "setStore" /\ r.store = call[u].store /\ r.list = call[u].list
      BY <1>0 DEF Calls
    <2>3. ListIn(Accounts(u), multi')
      <3>1. call[u].store.id = multi[i].id
        BY <1>0, <1>2 DEF IsSelected
      <3>2. Account(call[u].store) \in Accounts(u) /\ multi # Absent
        BY <1>0, KnownAccounts, SentinelAssumption DEF StoreIn, AccountsOf
      <3> QED BY <1>0, <1>2, <3>1, <3>2, KnownAccounts, RewrittenList DEF ListIn
    <2>4. vault'.store = keyStore' /\ vault'.multi = vault.multi /\ vault'.number = vault.number
      BY <1>0, <1>2 DEF Vaults
    <2> HIDE DEF r
    <2> QED BY <1>2, <2>1, <2>2, <2>3, <2>4, KnownAccounts, PlainStep DEF Grows
  <1> QED BY <1>1, <1>2 DEF FinishInitLedgerApp

LEMMA RewriteIds ==
  ASSUME NEW u \in Slots, IdsInv(u), Typed', Rewrite(u)
  PROVE  IdsInv(u)' /\ Grows(u)
  <1>0. /\ call[u] \in Calls /\ LocalsOK(call[u]) /\ multi \in Seq(Stores) /\ vault \in Vaults
        /\ keyStore \in Stores \cup {NoStore} /\ password \in Passwords \cup {NoPassword}
    BY DEF IdsInv, Typed, TypeOK, CallsOK
  <1>1. CASE SetCoinType(u) \/ RemoveCoinTypes(u)
    BY <1>1, RecordStep DEF SetCoinType, RemoveCoinTypes, memory, Idle
  <1>2. CASE StoreSaved(u)
    BY <1>2, RecordStep DEF StoreSaved, Return, memory, Idle
  <1>3. ASSUME NEW new \in Passwords, BeginUpdatePassword(u, new)
        PROVE  IdsInv(u)' /\ Grows(u)
    <2> DEFINE i == NextTyped(multi, 1)
               r == [Idle EXCEPT !.op = "updatePassword", !.pc = "reencrypt", !.pw = password,
                                 !.new = new, !.num = i, !.store = multi[i], !.live = TRUE]
    <2>1. CASE PasswordReplaced(u, <<>>, new)
      <3>1. <<>> \in Seq(Stores) /\ keyStore' = keyStore
        BY <1>3 DEF BeginUpdatePassword
      <3> QED BY <2>1, <3>1, KnownAccounts, PasswordReplacedIds
    <2>2. CASE i # 0 /\ call' = [call EXCEPT ![u] = r] /\ UNCHANGED <<multi, vault>>
      <3>1. i \in 1..Len(multi) /\ DOMAIN multi = 1..Len(multi)
        BY <1>0, <2>2, NextTypedInList, LenProperties
      <3>2. /\ r.pc = "reencrypt" /\ r.live /\ r.num = i /\ r.store = multi[i]
            /\ r.list = <<>> /\ DOMAIN <<>> = {}
        BY DEF Idle
      <3>3. keyStore' = keyStore
        BY <1>3 DEF BeginUpdatePassword
      <3> HIDE DEF r, i
      <3> QED BY <2>2, <3>1, <3>2, <3>3, KnownAccounts, IteratesIds
    <2> HIDE DEF r
    <2> QED BY <1>3, <2>1, <2>2 DEF BeginUpdatePassword, r
  <1>4. CASE Reencrypt(u)
    <2> DEFINE new == [call[u].store EXCEPT !.pw = call[u].new]
               list == Append(call[u].list, new)
               i == NextTyped(Iterated(u), call[u].num + 1)
               r == [call[u] EXCEPT !.list = list, !.num = i, !.store = Iterated(u)[i]]
    <2>0. /\ call[u].pc = "reencrypt" /\ call[u].store \in Stores /\ call[u].list \in Seq(Stores)
          /\ Iterated(u) = multi /\ call[u].num \in DOMAIN multi /\ call[u].live
      BY <1>0, <1>4 DEF Reencrypt, At, LocalsOK, IdsInv, Locals, Iterated
    <2>1. new \in Stores /\ Account(new) = Account(call[u].store)
      BY <1>0, <2>0 DEF Calls, Stores, Account
    <2> HIDE DEF new
    <2>2. list \in Seq(Stores)
      BY <2>0, <2>1, AppendProperties
    <2>3. /\ ListIn(Accounts(u), list)
          /\ \A k \in DOMAIN list : \E j \in 1..call[u].num : list[k].id = multi[j].id
      BY <2>0, <2>1, ReencryptedList
    <2>4. StoreIn(Accounts(u), Reselected(new)) /\ StoreIn(Accounts(u), keyStore)
      BY <1>0, <2>0, <2>1, KnownAccounts, SentinelAssumption DEF Reselected, StoreIn, AccountsOf
    <2>5. CASE Return(u) /\ UNCHANGED <<keyStore, multi, vault>>
      BY <2>5, RecordStep DEF Return, Idle
    <2>6. CASE keyStore' = Reselected(new) /\ PasswordReplaced(u, list, call[u].new)
      <3> HIDE DEF list
      <3> QED BY <2>2, <2>3, <2>4, <2>6, PasswordReplacedIds
    <2>7. CASE /\ i # 0 /\ keyStore' = Reselected(new) /\ UNCHANGED <<multi, vault>>
               /\ call' = [call EXCEPT ![u] = r]
      <3>1. call[u].num \in Nat /\ Len(multi) \in Nat /\ DOMAIN multi = 1..Len(multi)
        BY <1>0, <2>0, LenProperties
      <3>2. i \in 1..Len(multi) /\ i > call[u].num
        <4> DEFINE typed == {j \in (call[u].num + 1)..Len(multi) : multi[j].typed}
        <4>1. typed # {} /\ typed \in SUBSET Nat
          BY <2>0, <2>7, <3>1 DEF NextTyped
        <4>2. \E j \in typed : \A k \in typed : j <= k
          <5> HIDE DEF typed
          <5> QED BY <4>1, LeastNatural
        <4>3. i \in typed
          BY <2>0, <4>1, <4>2 DEF NextTyped
        <4> QED BY <3>1, <4>3
      <3> HIDE DEF list, i
      <3>3. /\ r.pc = "reencrypt" /\ r.live /\ r.num = i /\ r.store = multi[i] /\ r.list = list
        BY <1>0, <2>0 DEF Calls
      <3> HIDE DEF r
      <3>4. \A k \in DOMAIN r.list : \E j \in 1..(r.num - 1) : r.list[k].id = multi[j].id
        <4>1. \A j \in 1..call[u].num : j \in 1..(i - 1)
          BY <3>1, <3>2
        <4> QED BY <2>3, <3>3, <4>1
      <3>5. r.num \in DOMAIN multi
        BY <3>1, <3>2, <3>3
      <3> QED BY <2>3, <2>4, <2>7, <3>3, <3>4, <3>5, IteratesIds
    <2>8. CASE /\ i # 0 /\ keyStore' = Reselected(new) /\ UNCHANGED <<multi, vault>>
               /\ call' = [call EXCEPT ![u].list = list, ![u].num = i, ![u].store = Iterated(u)[i]]
      BY <2>7, <2>8
    <2> HIDE DEF list, i, r
    <2> QED BY <1>4, <2>5, <2>6, <2>8 DEF Reencrypt, new, list, i
  <1>5. CASE BeginInitLedgerApp(u)
    <2> DEFINE r == [Idle EXCEPT !.op = "initLedgerApp", !.pc = "device", !.key = keyStore.key]
    <2>1. r.pc = "device" /\ r.store = NoStore /\ r.list = <<>>
      BY DEF Idle
    <2>2. call' = [call EXCEPT ![u] = r] /\ UNCHANGED <<keyStore, multi, vault>>
      BY <1>5 DEF BeginInitLedgerApp, memory
    <2> HIDE DEF r
    <2> QED BY <2>1, <2>2, RecordStep
  <1>6. CASE LedgerAppAnswers(u)
    BY <1>6, LedgerAppIds, RecordStep DEF LedgerAppAnswers, Return, memory, Idle
  <1>7. CASE FinishInitLedgerApp(u)
    BY <1>7, FinishLedgerAppIds
  <1> QED BY <1>1, <1>2, <1>3, <1>4, <1>5, <1>6, <1>7 DEF Rewrite

-----------------------------------------------------------------------------
LEMMA InitAccounts ==
  ASSUME NEW u \in Slots, Init
  PROVE  Accounts(u) = AccountsOf(vault.store) \cup AccountsIn(vault.multi)
  <1>1. <<>> \in Seq(Stores) /\ DOMAIN <<>> = {}
    OBVIOUS
  <1>2. AccountsIn(<<>>) = {} /\ AccountsOf(NoStore) = {}
    BY <1>1, SentinelAssumption DEF AccountsIn, AccountsOf
  <1>3. keyStore = NoStore /\ multi = <<>> /\ call[u].store = NoStore /\ call[u].list = <<>>
    BY DEF Init, Idle
  <1> QED BY <1>2, <1>3 DEF Accounts

LEMMA InitIds ==
  ASSUME NEW u, OneUser(u), OldIdsOK, Init
  PROVE  IdsInv(u)
  <1>1. Typed /\ vault \in FirstVaults /\ keyStore = NoStore /\ multi = <<>> /\ \A c \in Slots : call[c] = Idle
    BY InitTyped DEF Init
  <1>2. u \in Slots /\ <<>> # Absent /\ DOMAIN <<>> = {}
    <2>1. <<>> \in Seq(Stores) /\ DOMAIN <<>> = {}
      OBVIOUS
    <2> QED BY <2>1, SentinelAssumption DEF OneUser
  <1>3. DistinctIds(<<>>)
    BY <1>2 DEF DistinctIds
  <1>4. Idle.op = "none" /\ Idle.pc = "idle" /\ Idle.store = NoStore /\ Idle.list = <<>>
    BY DEF Idle
  <1>5. Accounts(u) = AccountsOf(vault.store) \cup AccountsIn(vault.multi)
    BY <1>2, InitAccounts
  <1>6. Numbers(u)
    BY <1>1, <1>2, <1>4, <1>5 DEF OldIdsOK, Numbers, Taken
  <1>7. Distinct(u)
    BY <1>1, <1>2, <1>3, <1>4 DEF OldIdsOK, Distinct
  <1>8. Others(u) /\ Locals(u)
    BY <1>1, <1>2, <1>4 DEF Others, Locals, Services
  <1> QED BY <1>1, <1>6, <1>7, <1>8 DEF IdsInv

(* A step that leaves the call of u alone, and what it had is a set that   *)
(* holds all that there is.                                                *)
LEMMA AsideIds ==
  ASSUME NEW u \in Slots, IdsInv(u), Typed', Others(u)', call'[u] = call[u], UNCHANGED <<keyStore, multi>>,
         vault' \in {vault, [vault EXCEPT !.store = keyStore], [vault EXCEPT !.multi = multi]}
  PROVE  IdsInv(u)' /\ Accounts(u)' \subseteq Accounts(u)
  <1>1. /\ vault'.store \in {vault.store, keyStore} /\ vault'.multi \in {vault.multi, multi}
        /\ vault'.number = vault.number
    BY DEF IdsInv, Typed, TypeOK, Vaults
  <1>2. Accounts(u)' \subseteq Accounts(u)
    BY <1>1 DEF Accounts
  <1>3. Numbers(u)'
    BY <1>1, <1>2 DEF IdsInv, Numbers
  <1>4. Distinct(u)' /\ Locals(u)'
    BY <1>1 DEF IdsInv, Distinct, Locals
  <1> QED BY <1>2, <1>3, <1>4 DEF IdsInv

LEMMA CrashIds ==
  ASSUME NEW u \in Slots, IdsInv(u), Typed', Crash
  PROVE  IdsInv(u)' /\ Accounts(u)' \subseteq Accounts(u)
  <1>1. /\ keyStore' = NoStore /\ multi' = <<>> /\ vault' = vault
        /\ \A c \in Slots : call'[c] = Idle
    BY DEF Crash
  <1>2. Idle.op = "none" /\ Idle.pc = "idle" /\ Idle.store = NoStore /\ Idle.list = <<>>
    BY DEF Idle
  <1>3. AccountsIn(<<>>) = {} /\ DistinctIds(<<>>) /\ AccountsOf(NoStore) = {}
    BY KnownAccounts, SentinelAssumption DEF DistinctIds, AccountsIn, AccountsOf
  <1>4. Accounts(u)' \subseteq Accounts(u)
    BY <1>1, <1>2, <1>3 DEF Accounts
  <1>5. Numbers(u)'
    BY <1>1, <1>2, <1>4 DEF IdsInv, Numbers, Taken
  <1>6. Others(u)' /\ Distinct(u)' /\ Locals(u)'
    BY <1>1, <1>2, <1>3 DEF IdsInv, Distinct, Locals, Others, Services
  <1> QED BY <1>4, <1>5, <1>6 DEF IdsInv

LEMMA StepIds ==
  ASSUME NEW u, OneUser(u), IdsInv(u), [Next]_vars
  PROVE  IdsInv(u)' /\ Grows(u)
  <1>0. Typed' /\ u \in Slots
    BY StepTyped DEF IdsInv, OneUser
  <1>1. CASE Restore(u) \/ CreateOrAdd(u) \/ Select(u) \/ Rewrite(u)
    BY <1>0, <1>1, RestoreIds, CreateOrAddIds, SelectIds, RewriteIds
  <1>2. ASSUME NEW c \in Slots \ {u}, Restore(c) \/ CreateOrAdd(c) \/ Select(c) \/ Rewrite(c)
        PROVE  IdsInv(u)' /\ Grows(u)
    <2>1. Typed /\ Others(u)
      BY DEF IdsInv
    <2>2. /\ Others(u)' /\ call'[u] = call[u] /\ UNCHANGED <<keyStore, multi>>
          /\ vault' \in {[vault EXCEPT !.store = keyStore], [vault EXCEPT !.multi = multi]}
      BY <1>2, <2>1, ServiceStep DEF memory
    <2> QED BY <1>0, <2>2, AsideIds DEF Grows
  <1>3. CASE Lock
    <2>1. Others(u)' /\ call'[u] = call[u]
      BY <1>3 DEF Lock, IdsInv, Others
    <2> QED BY <1>0, <1>3, <2>1, AsideIds DEF Lock, Grows
  <1>4. CASE Crash
    BY <1>0, <1>4, CrashIds DEF Grows
  <1>5. CASE UNCHANGED vars
    <2>1. Others(u)' /\ call'[u] = call[u]
      BY <1>5 DEF vars, IdsInv, Others
    <2> QED BY <1>0, <1>5, <2>1, AsideIds DEF vars, Grows
  <1> QED BY <1>1, <1>2, <1>3, <1>4, <1>5 DEF Next

(* An id of the list names one account: when the calls of the pages run    *)
(* one after the other, whatever the services save meanwhile, and however  *)
(* often the background is stopped, also between the number and its use.   *)
THEOREM IdsAreUnique ==
  ASSUME NEW CONSTANT u, OneUser(u), OldIdsOK
  PROVE  Spec => []IdsUnique
  <1>1. Init => IdsInv(u)
    BY InitIds
  <1>2. IdsInv(u) /\ [Next]_vars => IdsInv(u)'
    BY StepIds
  <1>3. IdsInv(u) => IdsUnique
    BY DEF IdsInv, Distinct, DistinctIds, IdsUnique
  <1> QED BY <1>1, <1>2, <1>3, PTL DEF Spec

-----------------------------------------------------------------------------
(***************************************************************************)
(* Ledger apps.  With one Ledger, an account's id tells its key, and a new  *)
(* Ledger app is of the account that is selected when it is stored.        *)
(***************************************************************************)
OneLedger == \A j, k \in Keys : KindOf[j] = "ledger" /\ KindOf[k] = "ledger" => j = k

SameKey(K) == \A a, b \in K : a[1] = b[1] => a[2] = b[2]

OldKeysOK == \A f \in FirstVaults : SameKey(AccountsOf(f.store) \cup AccountsIn(f.multi))

LedgerLocals(u) ==
    call[u].op = "initLedgerApp" =>
        /\ KindOf[call[u].key] = "ledger"
        /\ call[u].pc \in {"device", "encrypt"} /\ keyStore # NoStore => keyStore.key = call[u].key
        /\ call[u].pc = "encrypt" => call[u].store.key = call[u].key

KeysInv(u) == IdsInv(u) /\ SameKey(Accounts(u)) /\ LedgerLocals(u)

(* No step but those of initializeNonDefaultLedgerApp() leaves its call in  *)
(* progress.                                                               *)
LEMMA OtherOperations ==
  ASSUME Typed, NEW c \in Slots, Restore(c) \/ CreateOrAdd(c) \/ Select(c) \/ Rewrite(c),
         ~BeginInitLedgerApp(c), ~LedgerAppAnswers(c), ~FinishInitLedgerApp(c)
  PROVE  call'[c].op # "initLedgerApp"
  <1>0. /\ call \in [Slots -> Calls] /\ call[c] \in Calls /\ LocalsOK(call[c])
        /\ Detached(c) \in [Slots -> Calls] /\ Detached(c)[c] = call[c]
        /\ Idle.op = "none"
    BY DetachedGood DEF Typed, TypeOK, CallsOK, Idle
  <1>1. ASSUME NEW calls, calls \in {call, Detached(c)}, LoadedBy(c, calls)
        PROVE  call'[c].op # "initLedgerApp"
    BY <1>0, <1>1 DEF LoadedBy, Calls
  <1>2. ASSUME NEW calls, calls \in {call, Detached(c)}, NEW list, Upgrade(c, list, calls), At(c, "getMulti") \/ At(c, "adoptMulti")
        PROVE  call'[c].op # "initLedgerApp"
    <2>1. CASE LoadedBy(c, calls)
      BY <1>1, <1>2, <2>1
    <2>2. CASE call' = [calls EXCEPT ![c].pc = "upgradeStore"]
      <3>1. call'[c].op = call[c].op
        BY <1>0, <1>2, <2>2 DEF Calls
      <3> QED BY <1>0, <1>2, <3>1 DEF At, LocalsOK, Loading, Loaders
    <2> QED BY <1>2, <2>1, <2>2 DEF Upgrade
  <1>3. CASE Restore(c)
    <2>1. CASE GotMulti(c) \/ AdoptedListSaved(c) \/ UpgradeListSaved(c)
      BY <1>1, <1>2, <2>1 DEF GotMulti, AdoptedListSaved, UpgradeListSaved
    <2>2. CASE BeginRestore(c) \/ BeginEnable(c)
      BY <1>0, <2>2 DEF BeginRestore, BeginEnable, Restoring, Idle
    <2>3. CASE \/ GotStore(c) \/ GotNoMulti(c) \/ AdoptSingleStore(c) \/ AdoptedStoreSaved(c)
               \/ UpgradeStoreSaved(c)
      BY <1>0, <2>3 DEF GotStore, GotNoMulti, AdoptSingleStore, AdoptedStoreSaved, UpgradeStoreSaved,
            At, Goto, Calls, LocalsOK, Loading, Loaders
    <2> QED BY <1>3, <2>1, <2>2, <2>3 DEF Restore
  <1>4. ASSUME NEW create \in Calls, CreateChecked(c, create), create.op = "create"
        PROVE  call'[c].op # "initLedgerApp"
    <2>1. /\ [create EXCEPT !.pc = "device"].op = "create"
          /\ [create EXCEPT !.pc = "getNumber", !.num = vault.number + 1].op = "create"
      BY <1>4 DEF Calls
    <2> QED BY <1>0, <1>4, <2>1 DEF CreateChecked, Return
  <1>5. CASE CreateOrAdd(c)
    <2>1. ASSUME NEW k \in Keys, NEW p \in Passwords, BeginCreate(c, k, p)
          PROVE  call'[c].op # "initLedgerApp"
      <3> DEFINE create == [Idle EXCEPT !.op = "create", !.key = k, !.pw = p]
                 r == [create EXCEPT !.pc = "getStore", !.store = vault.store]
      <3>1. create \in Calls /\ create.op = "create" /\ r.op = "create"
        BY IdleGood DEF GoodCall, Calls, Operations, Idle
      <3>2. CreateChecked(c, create) \/ call' = [call EXCEPT ![c] = r]
        BY <2>1 DEF BeginCreate
      <3> HIDE DEF create, r
      <3> QED BY <1>0, <1>4, <3>1, <3>2
    <2>2. CASE CheckCreate(c)
      <3> DEFINE create == [call[c] EXCEPT !.store = NoStore, !.list = <<>>]
      <3>1. create.op = "create"
        BY <1>0, <2>2 DEF CheckCreate, At, LocalsOK, Calls
      <3>2. create \in Calls
        <4>1. <<>> \in Seq(Stores) \cup {Absent}
          OBVIOUS
        <4> QED BY <1>0, <4>1 DEF Calls
      <3> HIDE DEF create
      <3> QED BY <1>4, <2>2, <3>1, <3>2 DEF CheckCreate, create
    <2>3. ASSUME NEW k \in Keys, BeginAdd(c, k)
          PROVE  call'[c].op # "initLedgerApp"
      BY <1>0, <2>3 DEF BeginAdd, Idle
    <2>4. CASE WriteNumber(c) \/ DeviceAnswers(c)
      <3>1. call'[c].op = call[c].op
        BY <1>0, <2>4 DEF WriteNumber, DeviceAnswers, Goto, Calls
      <3> QED BY <1>0, <2>4, <3>1 DEF WriteNumber, DeviceAnswers, At, LocalsOK, Loading, Loaders
    <2>5. CASE DeviceFails(c)
      BY <1>0, <2>5 DEF DeviceFails, Return
    <2>6. CASE FinishCreate(c) \/ FinishAdd(c)
      <3>1. call' = Saving(call, c) /\ call[c].op \in {"create", "add"}
        BY <2>6 DEF FinishCreate, FinishAdd
      <3> QED BY <1>0, <3>1 DEF Saving, Calls
    <2> QED BY <1>5, <2>1, <2>2, <2>3, <2>4, <2>5, <2>6 DEF CreateOrAdd
  <1>6. CASE Select(c)
    <2>1. ASSUME Saving(call, c) = call' \/ Saving(Detached(c), c) = call' \/ Goto(c, "reopen"),
                 call[c].op # "initLedgerApp"
          PROVE  call'[c].op # "initLedgerApp"
      BY <1>0, <2>1 DEF Saving, Goto, Calls
    <2>2. ASSUME Return(c) PROVE call'[c].op # "initLedgerApp"
      BY <1>0, <2>2 DEF Return
    <2>3. CASE (\E p \in Passwords : BeginUnlock(c, p)) \/ \E i \in DOMAIN multi : Rename(c, i)
      BY <1>0, <2>3 DEF BeginUnlock, Rename, Idle
    <2>4. CASE \E i \in DOMAIN multi : BeginChange(c, i) \/ BeginDelete(c, i)
      BY <1>0, <2>4 DEF BeginChange, BeginDelete, Idle
    <2>5. CASE FinishUnlock(c) \/ FinishChange(c)
      BY <2>1, <2>2, <2>5 DEF FinishUnlock, FinishChange
    <2>6. CASE FinishDelete(c)
      BY <2>1, <2>2, <2>6 DEF FinishDelete, DeleteOther, DeleteLast, DeleteSelected, DeleteRefused, DeleteFrom
    <2>7. CASE ReopenAfterDelete(c)
      BY <1>0, <2>1, <2>2, <2>7 DEF ReopenAfterDelete, DeleteRefused, DeleteFrom, At, LocalsOK
    <2> QED BY <1>6, <2>3, <2>4, <2>5, <2>6, <2>7 DEF Select
  <1>7. CASE Rewrite(c)
    <2>1. CASE Reencrypt(c)
      <3> DEFINE list == Append(call[c].list, [call[c].store EXCEPT !.pw = call[c].new])
                 i == NextTyped(Iterated(c), call[c].num + 1)
      <3>1. CASE Return(c) \/ PasswordReplaced(c, list, call[c].new)
        BY <1>0, <3>1 DEF Return, PasswordReplaced, Idle
      <3>2. CASE call' = [call EXCEPT ![c].list = list, ![c].num = i, ![c].store = Iterated(c)[i]]
        <4> HIDE DEF list, i
        <4>1. call'[c].op = call[c].op
          BY <1>0, <3>2 DEF Calls
        <4> QED BY <1>0, <2>1, <4>1 DEF Reencrypt, At, LocalsOK
      <3> HIDE DEF list, i
      <3> QED BY <2>1, <3>1, <3>2 DEF Reencrypt, list, i
    <2>2. CASE \E new \in Passwords : BeginUpdatePassword(c, new)
      BY <1>0, <2>2 DEF BeginUpdatePassword, PasswordReplaced, Idle
    <2>3. CASE SetCoinType(c) \/ RemoveCoinTypes(c) \/ StoreSaved(c)
      BY <1>0, <2>3 DEF SetCoinType, RemoveCoinTypes, StoreSaved, Return, Idle
    <2> QED BY <1>7, <2>1, <2>2, <2>3 DEF Rewrite
  <1> QED BY <1>3, <1>5, <1>6, <1>7

(* The keys of a new Ledger app join those of the same Ledger.             *)
LEMMA JoinedWithItself ==
  ASSUME OneLedger, secret \in SUBSET Keys, NEW k \in Keys, KindOf[k] = "ledger"
  PROVE  JoinedWith(k) = k
  BY DEF OneLedger, JoinedWith

LEMMA LedgerLocalsKept ==
  ASSUME NEW u, OneUser(u), OneLedger, KeysInv(u), [Next]_vars
  PROVE  LedgerLocals(u)'
  <1>0. /\ u \in Slots /\ call \in [Slots -> Calls] /\ call[u] \in Calls /\ LocalsOK(call[u]) /\ Typed
        /\ Others(u) /\ LedgerLocals(u) /\ secret \in SUBSET Keys /\ keyStore \in Stores \cup {NoStore}
    BY DEF KeysInv, IdsInv, Typed, TypeOK, CallsOK, OneUser
  <1>1. ASSUME call'[u] = call[u], keyStore' = keyStore PROVE LedgerLocals(u)'
    BY <1>0, <1>1 DEF LedgerLocals
  <1>2. CASE BeginInitLedgerApp(u)
    <2> DEFINE r == [Idle EXCEPT !.op = "initLedgerApp", !.pc = "device", !.key = keyStore.key]
    <2>1. r.pc = "device" /\ r.key = keyStore.key
      BY DEF Idle
    <2>2. call'[u] = r /\ keyStore' = keyStore /\ KindOf[keyStore.key] = "ledger"
      BY <1>0, <1>2 DEF BeginInitLedgerApp, memory
    <2> HIDE DEF r
    <2> QED BY <2>1, <2>2 DEF LedgerLocals
  <1>3. CASE LedgerAppAnswers(u)
    <2>1. CASE Return(u)
      BY <1>0, <2>1 DEF Return, Idle, LedgerLocals
    <2>2. CASE ~Return(u)
      <3> DEFINE s == Ciphertext(keyStore.id, call[u].key, password)
                 r == [call[u] EXCEPT !.pc = "encrypt", !.store = s]
      <3>1. call[u].key \in Keys /\ KindOf[call[u].key] = "ledger" /\ keyStore # NoStore
        BY <1>0, <1>3, <2>2 DEF LedgerAppAnswers, LocalsOK, LedgerLocals
      <3>2. JoinedWith(call[u].key) = call[u].key
        BY <1>0, <3>1, JoinedWithItself
      <3>3. call' = [call EXCEPT ![u].pc = "encrypt", ![u].key = JoinedWith(@), ![u].store = s]
        BY <1>3, <3>1, <3>2 DEF LedgerAppAnswers
      <3>4. call'[u].key = call[u].key /\ call'[u].store = s
        <4> HIDE DEF s
        <4> QED BY <1>0, <3>2, <3>3 DEF Calls
      <3>5. s.key = call[u].key
        BY DEF Ciphertext
      <3>6. keyStore' = keyStore /\ keyStore.key = call[u].key
        BY <1>0, <1>3, <3>1 DEF LedgerAppAnswers, memory, At, LedgerLocals
      <3> HIDE DEF s
      <3> QED BY <3>1, <3>4, <3>5, <3>6 DEF LedgerLocals
    <2> QED BY <2>1, <2>2
  <1>4. CASE FinishInitLedgerApp(u)
    <2>1. CASE Return(u)
      BY <1>0, <2>1 DEF Return, Idle, LedgerLocals
    <2>2. CASE call' = Saving(call, u)
      <3>1. call'[u].pc = "setStore" /\ call'[u].key = call[u].key
        BY <1>0, <2>2 DEF Saving, Calls
      <3> QED BY <1>0, <1>4, <3>1 DEF FinishInitLedgerApp, LedgerLocals
    <2> QED BY <1>4, <2>1, <2>2 DEF FinishInitLedgerApp
  <1>5. CASE Restore(u) \/ CreateOrAdd(u) \/ Select(u) \/ Rewrite(u)
    BY <1>0, <1>2, <1>3, <1>4, <1>5, OtherOperations DEF LedgerLocals
  <1>6. ASSUME NEW c \in Slots \ {u}, Restore(c) \/ CreateOrAdd(c) \/ Select(c) \/ Rewrite(c)
        PROVE  LedgerLocals(u)'
    BY <1>0, <1>1, <1>6, ServiceStep DEF memory
  <1>7. CASE Lock
    BY <1>1, <1>7 DEF Lock
  <1>8. CASE Crash
    BY <1>0, <1>8 DEF Crash, LedgerLocals, Idle
  <1>9. CASE UNCHANGED vars
    BY <1>1, <1>9 DEF vars
  <1> QED BY <1>5, <1>6, <1>7, <1>8, <1>9 DEF Next

LEMMA StepKeys ==
  ASSUME NEW u, OneUser(u), OneLedger, KeysInv(u), [Next]_vars
  PROVE  KeysInv(u)'
  <1>1. IdsInv(u)' /\ Grows(u)
    BY StepIds DEF KeysInv
  <1>2. LedgerLocals(u)'
    BY LedgerLocalsKept
  <1>3. SameKey(Accounts(u)')
    <2>1. CASE Accounts(u)' \subseteq Accounts(u)
      BY <2>1 DEF KeysInv, SameKey
    <2>2. CASE Taken(call[u]) /\ \E a : Accounts(u)' \subseteq Accounts(u) \cup {a} /\ a[1] = call[u].num
      <3>1. PICK a : Accounts(u)' \subseteq Accounts(u) \cup {a} /\ a[1] = call[u].num
        BY <2>2
      <3>2. \A b \in Accounts(u) : b[1] < call[u].num /\ call[u].num \in Nat
        BY <2>2 DEF KeysInv, IdsInv, Numbers, Typed, TypeOK, Calls, OneUser
      <3>3. \A b \in Accounts(u) : b[1] # a[1]
        BY <3>1, <3>2, KnownIds DEF KeysInv, IdsInv, OneUser
      <3> QED BY <3>1, <3>3 DEF KeysInv, SameKey
    <2>3. CASE /\ LedgerAppAnswers(u) /\ keyStore # NoStore
               /\ Accounts(u)' \subseteq Accounts(u) \cup {<<keyStore.id, JoinedWith(call[u].key)>>}
      <3>1. /\ call[u].key \in Keys /\ KindOf[call[u].key] = "ledger" /\ keyStore.key = call[u].key
            /\ secret \in SUBSET Keys
        BY <2>3 DEF KeysInv, IdsInv, Typed, TypeOK, CallsOK, LocalsOK, LedgerLocals, LedgerAppAnswers, At, OneUser
      <3>2. <<keyStore.id, JoinedWith(call[u].key)>> = Account(keyStore)
        BY <3>1, JoinedWithItself DEF Account
      <3>3. Account(keyStore) \in Accounts(u)
        BY <2>3, KnownAccounts DEF KeysInv, StoreIn, AccountsOf
      <3> QED BY <2>3, <3>2, <3>3 DEF KeysInv, SameKey
    <2> QED BY <1>1, <2>1, <2>2, <2>3 DEF Grows
  <1> QED BY <1>1, <1>2, <1>3 DEF KeysInv, SameKey

LEMMA LedgerAppKeeps ==
  ASSUME NEW u, OneUser(u), KeysInv(u), NEW c \in Slots, FinishInitLedgerApp(c), NEW i \in DOMAIN multi
  PROVE  multi'[i].id = multi[i].id /\ multi'[i].key = multi[i].key
  <1>1. c = u /\ u \in Slots
    BY DEF OneUser, KeysInv, IdsInv, Others, Services, FinishInitLedgerApp
  <1>2. CASE multi' = multi
    BY <1>2
  <1>3. ASSUME NEW j \in DOMAIN multi, IsSelected(multi[j]), multi' = [multi EXCEPT ![j] = call[u].store]
        PROVE  multi'[i].id = multi[i].id /\ multi'[i].key = multi[i].key
    <2>1. call[u].store.id = multi[j].id
      BY <1>1, <1>3 DEF IsSelected, KeysInv, IdsInv, Locals, FinishInitLedgerApp, At
    <2>2. call[u].store.key = keyStore.key
      BY <1>1, <1>3 DEF IsSelected, KeysInv, LedgerLocals, FinishInitLedgerApp, At
    <2>3. Account(keyStore) \in Accounts(u)
      BY <1>3, KnownAccounts DEF KeysInv, StoreIn, AccountsOf, IsSelected
    <2>4. Account(multi[j]) \in Accounts(u)
      BY KnownAccounts, KnownElement DEF KeysInv, IdsInv, Typed, TypeOK
    <2>5. keyStore.key = multi[j].key
      BY <1>3, <2>3, <2>4 DEF KeysInv, SameKey, Account, IsSelected
    <2> QED BY <1>3, <2>1, <2>2, <2>5
  <1> QED BY <1>1, <1>2, <1>3 DEF FinishInitLedgerApp

LEMMA InitKeys ==
  ASSUME NEW u, OneUser(u), OldIdsOK, OldKeysOK, Init
  PROVE  KeysInv(u)
  <1>1. IdsInv(u) /\ u \in Slots
    BY InitIds DEF OneUser
  <1>2. /\ vault \in FirstVaults /\ Accounts(u) = AccountsOf(vault.store) \cup AccountsIn(vault.multi)
        /\ call[u].op = "none"
    BY <1>1, InitAccounts DEF Init, Idle
  <1> QED BY <1>1, <1>2 DEF OldKeysOK, KeysInv, LedgerLocals

(* A new Ledger app leaves every account with its id and its key, when the *)
(* calls of the pages run one after the other and there is one Ledger:     *)
(* whatever is locked, selected or restarted while the device is asked.    *)
THEOREM LedgerAppIsOfItsAccount ==
  ASSUME NEW CONSTANT u, OneUser(u), OldIdsOK, OldKeysOK, OneLedger
  PROVE  Spec => LedgerAppKeepsAccounts
  <1> DEFINE Keeps == \A c \in Slots : FinishInitLedgerApp(c) =>
                        \A i \in DOMAIN multi : multi'[i].id = multi[i].id /\ multi'[i].key = multi[i].key
  <1>1. Init => KeysInv(u)
    BY InitKeys
  <1>2. KeysInv(u) /\ [Next]_vars => KeysInv(u)'
    BY StepKeys
  <1>3. KeysInv(u) /\ [Next]_vars => [Keeps]_vars
    BY LedgerAppKeeps
  <1> QED BY <1>1, <1>2, <1>3, PTL DEF Spec, LedgerAppKeepsAccounts

-----------------------------------------------------------------------------
(***************************************************************************)
(* Accounts that stay.  The calls of the pages alone: what is saved last    *)
(* holds what was saved before, but for the account that is deleted, those  *)
(* whose key stores name no type in updatePassword(), and those of the id   *)
(* to which a new Ledger app is given.                                     *)
(***************************************************************************)
Solo(u) == Slots = {u} /\ Allowed[u] \cap Services = {}

TypedStore(s) == s # NoStore => s.typed
TypedList(list) == list # Absent => \A i \in DOMAIN list : list[i].typed

OldTyped == \A f \in FirstVaults : TypedStore(f.store) /\ TypedList(f.multi)

(* All that is in memory, in the store and in the locals of u names its    *)
(* type, if all that an earlier version left does.                         *)
Names(s) == OldTyped => TypedStore(s)
NamesAll(list) == OldTyped => TypedList(list)

AllTyped(u) ==
    /\ Names(keyStore) /\ NamesAll(multi)
    /\ Names(vault.store) /\ NamesAll(vault.multi)
    /\ Names(call[u].store) /\ NamesAll(call[u].list)

(* Before restore() has completed nothing else runs.                       *)
NotLoaded(u) ==
    ~loaded =>
        /\ secret = {} /\ password = NoPassword
        /\ call[u].pc \in {"idle"} \cup (Loading \ {"check"})
        /\ call[u].pc = "idle" => keyStore = NoStore

(* The keys of the saved list that a call may take out of it.               *)
Gone(r, list) ==
    {k \in StoredKeys(list) :
        \/ r.op = "delete" /\ r.store.key = k
        \/ r.op = "updatePassword" /\ \E i \in DOMAIN list : ~list[i].typed /\ list[i].key = k
        \/ r.op = "initLedgerApp" /\ \E i \in DOMAIN list : list[i].id = r.store.id /\ list[i].key = k}

(* What changes in the list is saved before the call ends.                 *)
SavedKept(u) ==
    /\ loaded /\ call[u].pc \notin {"setStore", "upgradeStore"} => vault.multi = multi
    /\ call[u].pc \in {"upgradeMulti", "adoptMulti"} => vault.multi = multi
    /\ call[u].pc = "upgradeStore" => StoredKeys(vault.multi) \subseteq StoredKeys(multi)
    /\ call[u].pc = "setStore" => StoredKeys(vault.multi) \subseteq StoredKeys(multi) \cup Gone(call[u], vault.multi)
    /\ call[u].pc = "setStore" /\ call[u].op = "initLedgerApp" =>
        call[u].store # NoStore /\ call[u].store.key \in StoredKeys(multi)

ListKept(u) ==
    /\ call[u].pc = "getMulti" => call[u].list = vault.multi
    /\ call[u].pc \in {"adoptNumber", "setNumber", "adoptStore"} => vault.multi = Absent
    /\ call[u].op = "delete" /\ call[u].pc \in {"decrypt", "reopen"} =>
        StoredKeys(multi) \subseteq StoredKeys(call[u].list) \cup {call[u].store.key}
    /\ call[u].pc = "reencrypt" =>
        \A j \in 1..(call[u].num - 1) : multi[j].typed => multi[j].key \in StoredKeys(call[u].list)

KeptInv(u) == AllTyped(u) /\ NotLoaded(u) /\ SavedKept(u) /\ ListKept(u)

-----------------------------------------------------------------------------
LEMMA TypedElement ==
  ASSUME NEW list \in Seq(Stores), NEW i \in DOMAIN list
  PROVE  (TypedList(list) => TypedStore(list[i]) /\ list[i].typed) /\ list[i].key \in StoredKeys(list)
  BY SentinelAssumption DEF TypedList, TypedStore, StoredKeys

LEMMA TypedShorter ==
  ASSUME NEW list \in Seq(Stores), NEW i \in DOMAIN list
  PROVE  /\ TypedList(list) => TypedList(RemoveAt(list, i))
         /\ StoredKeys(list) \subseteq StoredKeys(RemoveAt(list, i)) \cup {list[i].key}
  <1>1. /\ RemoveAt(list, i) \in Seq(Stores) /\ DOMAIN RemoveAt(list, i) = 1..(Len(list) - 1)
        /\ \A j \in 1..(Len(list) - 1) : RemoveAt(list, i)[j] = list[IF j < i THEN j ELSE j + 1]
        /\ Len(list) \in Nat /\ DOMAIN list = 1..Len(list)
    BY RemoveAtElements, LenProperties
  <1>2. list # Absent /\ RemoveAt(list, i) # Absent
    BY <1>1, SentinelAssumption
  <1>3. TypedList(list) => TypedList(RemoveAt(list, i))
    <2>1. \A j \in 1..(Len(list) - 1) : (IF j < i THEN j ELSE j + 1) \in DOMAIN list
      BY <1>1
    <2> QED BY <1>1, <1>2, <2>1 DEF TypedList
  <1>4. ASSUME NEW j \in DOMAIN list, j # i
        PROVE  list[j].key \in StoredKeys(RemoveAt(list, i))
    <2>1. PICK k \in 1..(Len(list) - 1) : (IF k < i THEN k ELSE k + 1) = j
      <3>1. CASE j < i
        <4>1. j \in 1..(Len(list) - 1) BY <1>1, <3>1
        <4> QED BY <3>1, <4>1
      <3>2. CASE j > i
        <4>1. j - 1 \in 1..(Len(list) - 1) /\ ~(j - 1 < i) /\ (j - 1) + 1 = j BY <1>1, <3>2
        <4> QED BY <4>1
      <3> QED BY <1>1, <1>4, <3>1, <3>2
    <2>2. RemoveAt(list, i)[k] = list[j] /\ k \in DOMAIN RemoveAt(list, i)
      BY <1>1, <2>1
    <2> QED BY <1>2, <2>2 DEF StoredKeys
  <1> QED BY <1>2, <1>3, <1>4 DEF StoredKeys

LEMMA TypedLonger ==
  ASSUME NEW list \in Seq(Stores), NEW s \in Stores
  PROVE  (TypedList(list) /\ s.typed => TypedList(Append(list, s))) /\ StoredKeys(Append(list, s)) = StoredKeys(list) \cup {s.key}
  <1>1. /\ Append(list, s) \in Seq(Stores) /\ DOMAIN Append(list, s) = 1..(Len(list) + 1)
        /\ \A j \in 1..Len(list) : Append(list, s)[j] = list[j]
        /\ Append(list, s)[Len(list) + 1] = s
        /\ Len(list) \in Nat /\ DOMAIN list = 1..Len(list)
    BY AppendProperties, LenProperties
  <1>2. 1..(Len(list) + 1) = 1..Len(list) \cup {Len(list) + 1}
    BY <1>1
  <1>3. list # Absent /\ Append(list, s) # Absent
    BY <1>1, SentinelAssumption
  <1> QED BY <1>1, <1>2, <1>3 DEF TypedList, StoredKeys

LEMMA TypedUpgrade ==
  ASSUME NEW list \in Seq(Stores)
  PROVE  LET new == [i \in DOMAIN list |-> Upgraded(list[i])]
         IN  (TypedList(list) => TypedList(new)) /\ StoredKeys(new) = StoredKeys(list)
  <1> DEFINE new == [i \in DOMAIN list |-> Upgraded(list[i])]
  <1>1. new # Absent /\ list # Absent
    BY UpgradedListTyped, SentinelAssumption
  <1>2. ASSUME NEW i \in DOMAIN list
        PROVE  new[i].key = list[i].key /\ new[i].typed = list[i].typed
    <2>1. list[i] \in Stores
      BY ElementOfSeq, LenProperties
    <2>2. Upgraded(list[i]).key = list[i].key /\ Upgraded(list[i]).typed = list[i].typed
      BY <2>1 DEF Upgraded, Stores
    <2> QED BY <2>2
  <1>3. DOMAIN new = DOMAIN list
    OBVIOUS
  <1> HIDE DEF new
  <1>4. (TypedList(list) => TypedList(new)) /\ StoredKeys(new) = StoredKeys(list)
    BY <1>1, <1>2, <1>3 DEF TypedList, StoredKeys
  <1> QED BY <1>4 DEF new

(* With a type in every key store, updatePassword() skips none.            *)
LEMMA NextOfTyped ==
  ASSUME NEW list \in Seq(Stores), TypedList(list), NEW from \in 1..(Len(list) + 1)
  PROVE  NextTyped(list, from) = IF from <= Len(list) THEN from ELSE 0
  <1> DEFINE typed == {i \in from..Len(list) : list[i].typed}
  <1>1. Len(list) \in Nat /\ DOMAIN list = 1..Len(list) /\ list # Absent
    BY LenProperties, SentinelAssumption
  <1>2. typed = from..Len(list)
    BY <1>1 DEF TypedList
  <1>3. NextTyped(list, from) = IF typed = {} THEN 0 ELSE CHOOSE i \in typed : \A j \in typed : i <= j
    BY DEF NextTyped
  <1> HIDE DEF typed
  <1>4. CASE from <= Len(list)
    <2>1. from \in typed /\ \A j \in typed : from <= j
      BY <1>1, <1>2, <1>4
    <2>2. \A i \in typed : (\A j \in typed : i <= j) => i = from
      BY <1>1, <1>2, <2>1
    <2>3. (CHOOSE i \in typed : \A j \in typed : i <= j) = from
      BY <2>1, <2>2
    <2> QED BY <1>3, <1>4, <2>1, <2>3
  <1>5. CASE ~(from <= Len(list))
    BY <1>1, <1>2, <1>3, <1>5
  <1> QED BY <1>4, <1>5

(* It skips no other.                                                      *)
LEMMA NextSkips ==
  ASSUME NEW list \in Seq(Stores), NEW from \in Nat \ {0}
  PROVE  LET n == NextTyped(list, from)
         IN  /\ n = 0 => \A j \in from..Len(list) : ~list[j].typed
             /\ n # 0 => n \in from..Len(list) /\ \A j \in from..(n - 1) : ~list[j].typed
  <1> DEFINE typed == {i \in from..Len(list) : list[i].typed}
             n == NextTyped(list, from)
  <1>1. Len(list) \in Nat /\ typed \subseteq Nat \ {0}
    BY LenProperties
  <1>2. n = IF typed = {} THEN 0 ELSE CHOOSE i \in typed : \A j \in typed : i <= j
    BY DEF NextTyped
  <1>3. \A j \in from..Len(list) : list[j].typed => j \in typed
    OBVIOUS
  <1>4. typed \subseteq from..Len(list)
    OBVIOUS
  <1> HIDE DEF typed, n
  <1>5. CASE typed = {}
    BY <1>2, <1>3, <1>5 DEF n
  <1>6. CASE typed # {}
    <2>1. \E i \in typed : \A j \in typed : i <= j
      BY <1>1, <1>6, LeastNatural
    <2>2. n \in typed /\ \A j \in typed : n <= j
      BY <1>2, <1>6, <2>1
    <2>3. n \in from..Len(list) /\ n # 0
      BY <1>1, <1>4, <2>2
    <2>4. \A j \in from..(n - 1) : j \in from..Len(list) /\ ~(n <= j)
      BY <1>1, <2>3
    <2>5. \A j \in from..(n - 1) : ~list[j].typed
      BY <1>3, <2>2, <2>4
    <2> QED BY <2>3, <2>5 DEF n
  <1> QED BY <1>5, <1>6

-----------------------------------------------------------------------------
(* What the step lemmas below start from.                                  *)
LEMMA KeptFacts ==
  ASSUME NEW u \in Slots, IdsInv(u), KeptInv(u)
  PROVE  /\ call \in [Slots -> Calls] /\ call[u] \in Calls /\ LocalsOK(call[u])
         /\ Detached(u) \in [Slots -> Calls] /\ Detached(u)[u] = call[u]
         /\ keyStore \in Stores \cup {NoStore} /\ multi \in Seq(Stores) /\ vault \in Vaults
         /\ Names(keyStore) /\ NamesAll(multi) /\ Names(vault.store) /\ NamesAll(vault.multi)
         /\ Names(call[u].store) /\ NamesAll(call[u].list)
         /\ Names(NoStore) /\ NamesAll(<<>>) /\ StoredKeys(Absent) = {}
         /\ call[u].pc \notin {"idle"} \cup (Loading \ {"check"}) => loaded
         /\ loaded /\ call[u].pc \notin {"setStore", "upgradeStore"} => vault.multi = multi
         /\ Status = "UNLOCKED" => loaded /\ keyStore # NoStore
         /\ password # NoPassword => loaded
         /\ call[u].pc = "idle" /\ keyStore # NoStore => loaded
  <1>1. Names(NoStore) /\ NamesAll(<<>>) /\ StoredKeys(Absent) = {}
    <2>1. DOMAIN <<>> = {}
      OBVIOUS
    <2> QED BY <2>1 DEF Names, NamesAll, TypedStore, TypedList, StoredKeys
  <1>2. Detached(u) \in [Slots -> Calls] /\ Detached(u)[u] = call[u]
    BY DetachedGood DEF IdsInv
  <1>3. NotLoaded(u) /\ AllTyped(u) /\ SavedKept(u)
    BY DEF KeptInv
  <1> QED BY <1>1, <1>2, <1>3 DEF IdsInv, Typed, TypeOK, CallsOK, AllTyped, NotLoaded, SavedKept, Status

(* The names of what the lists below hold.                                 *)
LEMMA NamesElement ==
  ASSUME NEW list \in Seq(Stores), NamesAll(list), NEW i \in DOMAIN list
  PROVE  Names(list[i]) /\ list[i] \in Stores /\ list[i].key \in StoredKeys(list)
  BY TypedElement, ElementOfSeq, LenProperties DEF Names, NamesAll

(* A step after which the call of u waits for a device or for nothing, and *)
(* the saved list is the one in memory.                                    *)
LEMMA RestingKept ==
  ASSUME NEW u, AllTyped(u)', loaded', vault'.multi = multi',
         call'[u].pc \notin {"getMulti", "adoptNumber", "setNumber", "adoptStore", "upgradeStore",
                             "decrypt", "reopen", "reencrypt", "setStore"}
  PROVE  KeptInv(u)'
  BY DEF KeptInv, NotLoaded, SavedKept, ListKept

(* A step after which it waits for a save, which takes out what it may.    *)
LEMMA SavingKept ==
  ASSUME NEW u, AllTyped(u)', loaded', call'[u].pc = "setStore",
         StoredKeys(vault'.multi) \subseteq StoredKeys(multi') \cup Gone(call'[u], vault'.multi),
         call'[u].op = "initLedgerApp" => call'[u].store # NoStore /\ call'[u].store.key \in StoredKeys(multi')
  PROVE  KeptInv(u)'
  BY DEF KeptInv, NotLoaded, SavedKept, ListKept

(* The same when the lists stay as they are.                               *)
LEMMA QuietKept ==
  ASSUME NEW u \in Slots, IdsInv(u), KeptInv(u), UNCHANGED <<loaded, multi>>, loaded,
         vault' \in {vault, [vault EXCEPT !.store = keyStore'], [vault EXCEPT !.multi = multi]},
         Names(keyStore'), Names(call'[u].store), NamesAll(call'[u].list),
         call[u].pc \in {"setStore", "upgradeStore"} => vault'.multi = multi,
         call'[u].pc = "setStore" => call'[u].op # "initLedgerApp",
         call'[u].pc \notin {"getMulti", "adoptNumber", "setNumber", "adoptStore", "upgradeStore",
                             "decrypt", "reopen", "reencrypt"}
  PROVE  KeptInv(u)'
  <1>1. vault'.store \in {vault.store, keyStore'} /\ vault'.multi = multi
    BY KeptFacts DEF Vaults
  <1>2. AllTyped(u)'
    BY <1>1, KeptFacts DEF AllTyped, Names, NamesAll
  <1> QED BY <1>1, <1>2, RestingKept, SavingKept

(* The end of restore(), with the list that it has loaded.                 *)
LEMMA UpgradeKept ==
  ASSUME NEW u \in Slots, IdsInv(u), KeptInv(u), NEW list \in Seq(Stores), vault.multi = list,
         Upgrade(u, list, Detached(u)) \/ Upgrade(u, list, call), UNCHANGED <<secret, password>>
  PROVE  KeptInv(u)'
  <1>1. Names(keyStore') /\ NamesAll(multi') /\ StoredKeys(multi') = StoredKeys(list)
    <2>1. keyStore' = Upgraded(keyStore) /\ multi' = [i \in DOMAIN list |-> Upgraded(list[i])]
      BY DEF Upgrade
    <2>2. Names(Upgraded(keyStore))
      BY KeptFacts, SentinelAssumption DEF Names, TypedStore, Upgraded, Stores
    <2>3. NamesAll(list)
      BY KeptFacts
    <2> QED BY <2>1, <2>2, <2>3, TypedUpgrade DEF NamesAll
  <1>2. CASE (LoadedBy(u, Detached(u)) \/ LoadedBy(u, call)) /\ UNCHANGED vault /\ multi' = list
    <2>1. /\ loaded' /\ call'[u].pc \in {"check", "idle"}
          /\ call'[u].store \in {call[u].store, NoStore} /\ call'[u].list \in {call[u].list, <<>>}
      BY <1>2, KeptFacts DEF LoadedBy, Calls, Idle
    <2>2. AllTyped(u)'
      BY <1>1, <1>2, <2>1, KeptFacts DEF AllTyped, Names, NamesAll
    <2> QED BY <1>2, <2>1, <2>2, RestingKept
  <1>3. CASE /\ vault' = [vault EXCEPT !.store = keyStore'] /\ UNCHANGED loaded
             /\ \/ call' = [call EXCEPT ![u].pc = "upgradeStore"]
                \/ call' = [Detached(u) EXCEPT ![u].pc = "upgradeStore"]
    <2>1. call'[u].pc = "upgradeStore" /\ call'[u].store = call[u].store /\ call'[u].list = call[u].list
      BY <1>3, KeptFacts DEF Calls
    <2>2. vault'.store = keyStore' /\ vault'.multi = vault.multi
      BY <1>3, KeptFacts DEF Vaults
    <2>3. AllTyped(u)'
      BY <1>1, <2>1, <2>2, KeptFacts DEF AllTyped, Names, NamesAll
    <2>4. NotLoaded(u)'
      BY <1>3, <2>1 DEF KeptInv, NotLoaded, Loading
    <2> QED BY <1>1, <1>3, <2>1, <2>2, <2>3, <2>4 DEF KeptInv, SavedKept, ListKept
  <1> QED BY <1>2, <1>3 DEF Upgrade

LEMMA RestoreKept ==
  ASSUME NEW u \in Slots, IdsInv(u), KeptInv(u), Restore(u)
  PROVE  KeptInv(u)'
  <1>0. /\ call \in [Slots -> Calls] /\ call[u] \in Calls /\ vault \in Vaults /\ multi \in Seq(Stores)
        /\ Detached(u) \in [Slots -> Calls] /\ Detached(u)[u] = call[u] /\ multi # Absent
        /\ AllTyped(u) /\ NotLoaded(u) /\ SavedKept(u) /\ ListKept(u)
    BY KeptFacts, SentinelAssumption DEF KeptInv
  <1>1. CASE BeginRestore(u) \/ BeginEnable(u)
    <2>1. call'[u].pc = "getStore" /\ call'[u].store = vault.store /\ call'[u].list = <<>> /\ call[u].pc = "idle"
      BY <1>0, <1>1 DEF BeginRestore, BeginEnable, Restoring, Idle, May, At
    <2>2. UNCHANGED <<loaded, keyStore, multi, password, secret, vault>>
      BY <1>1 DEF BeginRestore, BeginEnable, memory
    <2>3. AllTyped(u)'
      BY <2>1, <2>2, KeptFacts DEF AllTyped, Names, NamesAll
    <2> QED BY <1>0, <2>1, <2>2, <2>3 DEF KeptInv, NotLoaded, SavedKept, ListKept, Loading
  <1>2. CASE GotStore(u)
    <2>1. /\ call'[u].pc = "getMulti" /\ call'[u].store = call[u].store /\ call'[u].list = vault.multi
          /\ call[u].pc = "getStore"
      BY <1>0, <1>2 DEF GotStore, At, Calls
    <2>2. keyStore' = call[u].store /\ UNCHANGED <<loaded, multi, password, secret, vault>>
      BY <1>2 DEF GotStore
    <2>3. AllTyped(u)'
      BY <2>1, <2>2, KeptFacts DEF AllTyped, Names, NamesAll
    <2> QED BY <1>0, <2>1, <2>2, <2>3 DEF KeptInv, NotLoaded, SavedKept, ListKept, Loading
  <1>3. CASE GotMulti(u)
    <2>1. call[u].list \in Seq(Stores) /\ vault.multi = call[u].list
      BY <1>0, <1>3 DEF GotMulti, At, ListKept, Calls
    <2> QED BY <1>3, <2>1, UpgradeKept DEF GotMulti
  <1>4. CASE GotNoMulti(u)
    <2>1. call[u].pc = "getMulti" /\ vault.multi = Absent /\ ~loaded
      BY <1>0, <1>4 DEF GotNoMulti, At, ListKept, SavedKept
    <2>2. /\ call'[u].pc \in {"adoptStore", "adoptNumber"}
          /\ call'[u].store = call[u].store /\ call'[u].list = call[u].list
      BY <1>0, <1>4 DEF GotNoMulti, Calls
    <2>3. multi' \in {multi, <<>>} /\ vault'.multi = vault.multi /\ vault'.store \in {vault.store, keyStore}
      BY <1>0, <1>4 DEF GotNoMulti, Vaults
    <2>4. UNCHANGED <<loaded, keyStore, password, secret>>
      BY <1>4 DEF GotNoMulti
    <2>5. AllTyped(u)'
      BY <2>2, <2>3, <2>4, KeptFacts DEF AllTyped, Names, NamesAll
    <2> QED BY <1>0, <2>1, <2>2, <2>3, <2>4, <2>5 DEF KeptInv, NotLoaded, SavedKept, ListKept, Loading
  <1>5. CASE AdoptSingleStore(u)
    <2> DEFINE s == [call[u].store EXCEPT !.id = call[u].num]
    <2>1. call[u].pc = "setNumber" /\ vault.multi = Absent /\ ~loaded /\ call[u].store \in Stores
      BY <1>0, <1>5, KeptFacts DEF AdoptSingleStore, At, ListKept, SavedKept, LocalsOK
    <2>2. OldTyped => s.typed
      BY <1>0, <2>1, SentinelAssumption DEF AllTyped, Names, TypedStore, Stores
    <2>3. call'[u].pc = "adoptStore" /\ call'[u].store = call[u].store /\ call'[u].list = call[u].list
      BY <1>0, <1>5 DEF AdoptSingleStore, Calls
    <2>4. multi' = <<s>> /\ keyStore' \in {s, keyStore} /\ vault' = [vault EXCEPT !.store = keyStore']
      BY <1>5 DEF AdoptSingleStore
    <2>5. UNCHANGED <<loaded, password, secret>>
      BY <1>5 DEF AdoptSingleStore
    <2>6. vault'.store = keyStore' /\ vault'.multi = vault.multi
      BY <1>0, <2>4 DEF Vaults
    <2>7. Names(s) /\ NamesAll(<<s>>)
      <3> HIDE DEF s
      <3>1. DOMAIN <<s>> = {1} /\ <<s>>[1] = s
        OBVIOUS
      <3> QED BY <2>2, <3>1 DEF Names, NamesAll, TypedStore, TypedList
    <2> HIDE DEF s
    <2>8. AllTyped(u)'
      BY <2>3, <2>4, <2>6, <2>7, KeptFacts DEF AllTyped, Names, NamesAll
    <2> QED BY <1>0, <2>1, <2>3, <2>5, <2>6, <2>8 DEF KeptInv, NotLoaded, SavedKept, ListKept, Loading
  <1>6. CASE AdoptedStoreSaved(u) \/ UpgradeStoreSaved(u)
    <2>1. /\ call'[u].pc \in {"adoptMulti", "upgradeMulti"}
          /\ call'[u].store = call[u].store /\ call'[u].list = call[u].list
          /\ call[u].pc \in {"adoptStore", "upgradeStore"}
      BY <1>0, <1>6 DEF AdoptedStoreSaved, UpgradeStoreSaved, Goto, At, Calls
    <2>2. UNCHANGED <<loaded, keyStore, multi, password, secret>> /\ vault' = [vault EXCEPT !.multi = multi]
      BY <1>6 DEF AdoptedStoreSaved, UpgradeStoreSaved, memory
    <2>3. vault'.store = vault.store /\ vault'.multi = multi
      BY <1>0, <2>2 DEF Vaults
    <2>4. AllTyped(u)'
      BY <2>1, <2>2, <2>3, KeptFacts DEF AllTyped, Names, NamesAll
    <2> QED BY <1>0, <2>1, <2>2, <2>3, <2>4 DEF KeptInv, NotLoaded, SavedKept, ListKept, Loading
  <1>7. CASE AdoptedListSaved(u)
    <2>1. vault.multi = multi
      BY <1>0, <1>7 DEF AdoptedListSaved, At, SavedKept
    <2> QED BY <1>0, <1>7, <2>1, UpgradeKept DEF AdoptedListSaved
  <1>8. CASE UpgradeListSaved(u)
    <2>1. /\ loaded' /\ call'[u].pc \in {"check", "idle"}
          /\ call'[u].store \in {call[u].store, NoStore} /\ call'[u].list \in {call[u].list, <<>>}
      BY <1>0, <1>8 DEF UpgradeListSaved, LoadedBy, Calls, Idle
    <2>2. vault.multi = multi /\ UNCHANGED <<keyStore, multi, vault>>
      BY <1>0, <1>8 DEF UpgradeListSaved, At, SavedKept
    <2>3. AllTyped(u)'
      BY <2>1, <2>2, KeptFacts DEF AllTyped, Names, NamesAll
    <2> QED BY <2>1, <2>2, <2>3, RestingKept
  <1> QED BY <1>1, <1>2, <1>3, <1>4, <1>5, <1>6, <1>7, <1>8 DEF Restore

(* create*() and add*().                                                   *)
LEMMA CreateOrAddKept ==
  ASSUME NEW u \in Slots, IdsInv(u), KeptInv(u), CreateOrAdd(u)
  PROVE  KeptInv(u)'
  <1>0. /\ call \in [Slots -> Calls] /\ call[u] \in Calls /\ vault \in Vaults /\ multi \in Seq(Stores)
        /\ AllTyped(u) /\ NotLoaded(u) /\ SavedKept(u) /\ ListKept(u) /\ LocalsOK(call[u])
    BY KeptFacts DEF KeptInv
  <1>a. ASSUME NEW create \in Calls, create.store = NoStore, create.list = <<>>, CreateChecked(u, create), loaded,
               call[u].pc \in {"idle", "check"}
        PROVE  KeptInv(u)'
    <2>1. call'[u].pc \in {"idle", "device", "getNumber"} /\ call'[u].store = NoStore /\ call'[u].list = <<>>
      <3>1. CASE Return(u)
        BY <1>0, <3>1 DEF Return, Idle
      <3>2. CASE call' = [call EXCEPT ![u] = [create EXCEPT !.pc = "device"]]
        BY <1>0, <1>a, <3>2 DEF Calls
      <3>3. CASE call' = [call EXCEPT ![u] = [create EXCEPT !.pc = "getNumber", !.num = vault.number + 1]]
        BY <1>0, <1>a, <3>3 DEF Calls
      <3> QED BY <1>a, <3>1, <3>2, <3>3 DEF CreateChecked
    <2>2. UNCHANGED <<loaded, keyStore, multi, vault>>
      BY <1>a DEF CreateChecked, memory
    <2> QED BY <1>a, <2>1, <2>2, KeptFacts, QuietKept
  <1>1. ASSUME NEW k \in Keys, NEW p \in Passwords, BeginCreate(u, k, p)
        PROVE  KeptInv(u)'
    <2> DEFINE create == [Idle EXCEPT !.op = "create", !.key = k, !.pw = p]
               r == [create EXCEPT !.pc = "getStore", !.store = vault.store]
    <2>1. create \in Calls /\ create.store = NoStore /\ create.list = <<>>
      BY IdleGood DEF GoodCall, Calls, Operations, Idle
    <2>2. r.pc = "getStore" /\ r.store = vault.store /\ r.list = <<>>
      BY DEF Idle
    <2>3. call[u].pc = "idle"
      BY <1>1 DEF BeginCreate, May, At
    <2>4. CASE loaded /\ CreateChecked(u, create)
      <3> HIDE DEF create
      <3> QED BY <1>a, <2>1, <2>3, <2>4
    <2>5. CASE call' = [call EXCEPT ![u] = r] /\ UNCHANGED <<memory, vault>>
      <3>1. call'[u] = r
        BY <1>0, <2>5
      <3>2. UNCHANGED <<loaded, keyStore, multi, password, secret, vault>>
        BY <2>5 DEF memory
      <3> HIDE DEF r
      <3>3. AllTyped(u)'
        BY <2>2, <3>1, <3>2, KeptFacts DEF AllTyped, Names, NamesAll
      <3> QED BY <1>0, <2>2, <2>3, <3>1, <3>2, <3>3 DEF KeptInv, NotLoaded, SavedKept, ListKept, Loading
    <2> HIDE DEF r, create
    <2> QED BY <1>1, <2>4, <2>5 DEF BeginCreate, Status, create, r
  <1>2. CASE CheckCreate(u)
    <2> DEFINE create == [call[u] EXCEPT !.store = NoStore, !.list = <<>>]
    <2>1. create \in Calls /\ create.store = NoStore /\ create.list = <<>>
      <3>1. <<>> \in Seq(Stores) \cup {Absent}
        OBVIOUS
      <3> QED BY <1>0, <3>1 DEF Calls
    <2>2. loaded /\ call[u].pc = "check"
      BY <1>0, <1>2 DEF CheckCreate, At, NotLoaded
    <2> HIDE DEF create
    <2> QED BY <1>a, <1>2, <2>1, <2>2 DEF CheckCreate, create
  <1>3. CASE WriteNumber(u)
    <2>1. /\ call'[u].pc \in {"encrypt", "setNumber"} /\ (call'[u].pc = "setNumber" => call[u].pc = "adoptNumber")
          /\ call[u].pc \in {"getNumber", "adoptNumber"} /\ (call'[u].pc = "encrypt" => call[u].pc = "getNumber")
          /\ call'[u].store = call[u].store /\ call'[u].list = call[u].list /\ call'[u].op = call[u].op
      BY <1>0, <1>3 DEF WriteNumber, Goto, At, Calls
    <2>2. /\ UNCHANGED <<loaded, keyStore, multi, password, secret>>
          /\ vault'.store = vault.store /\ vault'.multi = vault.multi
      BY <1>0, <1>3 DEF WriteNumber, memory, Vaults
    <2>3. AllTyped(u)'
      BY <2>1, <2>2, KeptFacts DEF AllTyped, Names, NamesAll
    <2> QED BY <1>0, <2>1, <2>2, <2>3 DEF KeptInv, NotLoaded, SavedKept, ListKept, Loading
  <1>4. ASSUME NEW k \in Keys, BeginAdd(u, k)
        PROVE  KeptInv(u)'
    <2>1. call'[u].pc \in {"device", "getNumber"} /\ call'[u].store = NoStore /\ call'[u].list = <<>>
      BY <1>0, <1>4 DEF BeginAdd, Idle
    <2>2. UNCHANGED <<loaded, keyStore, multi, vault>> /\ call[u].pc = "idle" /\ loaded
      BY <1>4, KeptFacts DEF BeginAdd, memory, May, At
    <2> QED BY <2>1, <2>2, KeptFacts, QuietKept
  <1>5. CASE DeviceAnswers(u) \/ DeviceFails(u)
    <2>1. /\ call'[u].pc \in {"getNumber", "idle"} /\ call'[u].store \in {call[u].store, NoStore}
          /\ call'[u].list \in {call[u].list, <<>>}
      BY <1>0, <1>5 DEF DeviceAnswers, DeviceFails, Return, Idle, Calls
    <2>2. UNCHANGED <<loaded, keyStore, multi, vault>> /\ call[u].pc = "device" /\ loaded
      BY <1>0, <1>5 DEF DeviceAnswers, DeviceFails, memory, At, NotLoaded, Loading
    <2>3. Names(call'[u].store) /\ NamesAll(call'[u].list)
      BY <2>1, KeptFacts DEF Names, NamesAll
    <2> QED BY <2>1, <2>2, <2>3, KeptFacts, QuietKept
  <1>6. CASE FinishCreate(u) \/ FinishAdd(u)
    <2> DEFINE s == Encrypted(u)
    <2>1. s \in Stores /\ s.typed
      <3>1. call[u].key \in Keys /\ call[u].num \in Nat /\ call[u].pw \in Passwords \cup {NoPassword}
        BY <1>0, <1>6 DEF FinishCreate, FinishAdd, LocalsOK, Calls
      <3> QED BY <3>1, CiphertextTyped DEF Encrypted, Ciphertext
    <2>2. /\ multi' = Append(multi, s) /\ keyStore' \in {s, keyStore} /\ vault' = [vault EXCEPT !.store = keyStore']
          /\ UNCHANGED loaded
      BY <1>6 DEF FinishCreate, FinishAdd, Pushed
    <2>3. loaded /\ vault.multi = multi
      BY <1>0, <1>6 DEF FinishCreate, FinishAdd, At, NotLoaded, SavedKept, Loading
    <2>4. /\ call'[u].pc = "setStore" /\ call'[u].store = call[u].store /\ call'[u].list = call[u].list
          /\ call'[u].op # "initLedgerApp"
      <3>1. call[u].op \in {"create", "add"} /\ call' = Saving(call, u)
        BY <1>6 DEF FinishCreate, FinishAdd
      <3> QED BY <1>0, <3>1 DEF Saving, Calls
    <2> HIDE DEF s
    <2>5. NamesAll(multi') /\ StoredKeys(multi') = StoredKeys(multi) \cup {s.key} /\ Names(s)
      BY <1>0, <2>1, <2>2, TypedLonger DEF AllTyped, Names, NamesAll, TypedStore
    <2>6. vault'.store = keyStore' /\ vault'.multi = vault.multi
      BY <1>0, <2>2 DEF Vaults
    <2>7. AllTyped(u)'
      BY <2>2, <2>4, <2>5, <2>6, KeptFacts DEF AllTyped, Names, NamesAll
    <2> QED BY <2>2, <2>3, <2>4, <2>5, <2>6, <2>7, SavingKept
  <1> QED BY <1>1, <1>2, <1>3, <1>4, <1>5, <1>6 DEF CreateOrAdd

-----------------------------------------------------------------------------
(* unlock() and the change, deletion and renaming of an account.           *)
LEMMA DeleteFromKept ==
  ASSUME NEW u \in Slots, IdsInv(u), KeptInv(u), NEW selected, DeleteFrom(u, selected),
         Names(selected), call[u].op = "delete", call[u].pc \in {"decrypt", "reopen"}, UNCHANGED loaded
  PROVE  KeptInv(u)'
  <1>1. /\ call'[u].pc = "setStore" /\ call'[u].store = call[u].store /\ call'[u].list = call[u].list
        /\ call'[u].op = "delete"
    BY KeptFacts DEF DeleteFrom, Saving, Calls
  <1>2. multi' = call[u].list /\ keyStore' = selected /\ vault'.store = selected /\ vault'.multi = vault.multi
    BY KeptFacts DEF DeleteFrom, Vaults
  <1>3. /\ StoredKeys(multi) \subseteq StoredKeys(call[u].list) \cup {call[u].store.key}
        /\ vault.multi = multi /\ loaded
    BY DEF KeptInv, ListKept, SavedKept, NotLoaded, Loading
  <1>4. StoredKeys(vault'.multi) \subseteq StoredKeys(multi') \cup Gone(call'[u], vault'.multi)
    BY <1>1, <1>2, <1>3 DEF Gone
  <1>5. AllTyped(u)'
    BY <1>1, <1>2, KeptFacts DEF AllTyped, Names, NamesAll
  <1> QED BY <1>1, <1>3, <1>4, <1>5, SavingKept

LEMMA SelectKept ==
  ASSUME NEW u \in Slots, IdsInv(u), KeptInv(u), Select(u)
  PROVE  KeptInv(u)'
  <1>0. /\ call \in [Slots -> Calls] /\ call[u] \in Calls /\ vault \in Vaults /\ multi \in Seq(Stores)
        /\ AllTyped(u) /\ NotLoaded(u) /\ SavedKept(u) /\ ListKept(u) /\ LocalsOK(call[u])
    BY KeptFacts DEF KeptInv
  <1>a. ASSUME Return(u), UNCHANGED <<loaded, keyStore, multi, vault>>, call[u].pc \in {"decrypt", "reopen"}
        PROVE  KeptInv(u)'
    <2>1. call'[u].pc = "idle" /\ call'[u].store = NoStore /\ call'[u].list = <<>>
      BY <1>0, <1>a DEF Return, Idle
    <2>2. loaded
      BY <1>0, <1>a DEF NotLoaded, Loading
    <2> QED BY <1>a, <2>1, <2>2, KeptFacts, QuietKept
  <1>b. ASSUME NEW i \in DOMAIN multi
        PROVE  Names(multi[i])
    BY <1>0, NamesElement DEF AllTyped
  <1>c. loaded /\ call[u].pc \notin {"setStore", "upgradeStore"} => vault.multi = multi
    BY <1>0 DEF SavedKept
  <1>1. ASSUME NEW p \in Passwords, BeginUnlock(u, p)
        PROVE  KeptInv(u)'
    <2>1. call'[u].pc = "decrypt" /\ call'[u].op = "unlock" /\ call'[u].store = keyStore /\ call'[u].list = <<>>
      BY <1>0, <1>1 DEF BeginUnlock, Idle
    <2>2. UNCHANGED <<loaded, keyStore, multi, vault>> /\ call[u].pc = "idle" /\ loaded
      BY <1>1, KeptFacts DEF BeginUnlock, memory, May, At
    <2>3. AllTyped(u)'
      BY <2>1, <2>2, KeptFacts DEF AllTyped, Names, NamesAll
    <2> QED BY <1>c, <2>1, <2>2, <2>3 DEF KeptInv, NotLoaded, SavedKept, ListKept
  <1>2. ASSUME NEW i \in DOMAIN multi, BeginChange(u, i)
        PROVE  KeptInv(u)'
    <2>1. call'[u].pc = "decrypt" /\ call'[u].op = "change" /\ call'[u].store = multi[i] /\ call'[u].list = <<>>
      BY <1>0, <1>2 DEF BeginChange, Idle
    <2>2. UNCHANGED <<loaded, multi, vault>> /\ keyStore' = multi[i] /\ call[u].pc = "idle" /\ loaded
      BY <1>2, KeptFacts DEF BeginChange, May, At
    <2>3. AllTyped(u)'
      BY <1>b, <2>1, <2>2, KeptFacts DEF AllTyped, Names, NamesAll
    <2> QED BY <1>c, <2>1, <2>2, <2>3 DEF KeptInv, NotLoaded, SavedKept, ListKept
  <1>3. ASSUME NEW i \in DOMAIN multi, BeginDelete(u, i)
        PROVE  KeptInv(u)'
    <2>1. /\ call'[u].pc = "decrypt" /\ call'[u].op = "delete" /\ call'[u].store = multi[i]
          /\ call'[u].list = RemoveAt(multi, i)
      BY <1>0, <1>3 DEF BeginDelete, Idle
    <2>2. UNCHANGED <<loaded, keyStore, multi, vault>> /\ call[u].pc = "idle" /\ loaded
      BY <1>3, KeptFacts DEF BeginDelete, memory, May, At
    <2>3. /\ NamesAll(RemoveAt(multi, i))
          /\ StoredKeys(multi) \subseteq StoredKeys(RemoveAt(multi, i)) \cup {multi[i].key}
      BY <1>0, TypedShorter DEF AllTyped, NamesAll
    <2>4. AllTyped(u)'
      BY <1>b, <2>1, <2>2, <2>3, KeptFacts DEF AllTyped, Names, NamesAll
    <2> QED BY <1>c, <2>1, <2>2, <2>3, <2>4 DEF KeptInv, NotLoaded, SavedKept, ListKept
  <1>4. ASSUME NEW i \in DOMAIN multi, Rename(u, i)
        PROVE  KeptInv(u)'
    <2>1. call'[u].pc = "setStore" /\ call'[u].op = "rename" /\ call'[u].store = NoStore /\ call'[u].list = <<>>
      BY <1>0, <1>4 DEF Rename, Idle
    <2>2. /\ UNCHANGED <<loaded, multi>> /\ keyStore' \in {multi[i], keyStore} /\ call[u].pc = "idle" /\ loaded
          /\ vault' = [vault EXCEPT !.store = keyStore']
      BY <1>4, KeptFacts DEF Rename, Reselected, May, At
    <2> QED BY <1>b, <2>1, <2>2, KeptFacts, QuietKept
  <1>5. CASE FinishUnlock(u)
    BY <1>a, <1>5 DEF FinishUnlock, At
  <1>6. CASE FinishChange(u)
    <2>1. CASE Return(u) /\ UNCHANGED vault
      BY <1>a, <1>6, <2>1 DEF FinishChange, At
    <2>2. CASE call' = Saving(call, u) /\ vault' = [vault EXCEPT !.store = keyStore]
      <3>1. /\ call'[u].pc = "setStore" /\ call'[u].store = call[u].store /\ call'[u].list = call[u].list
            /\ call'[u].op = "change" /\ call[u].pc = "decrypt" /\ loaded
        BY <1>0, <1>6, <2>2 DEF FinishChange, Saving, At, Calls, NotLoaded, Loading
      <3> QED BY <1>6, <2>2, <3>1, KeptFacts, QuietKept DEF FinishChange
    <2> QED BY <1>6, <2>1, <2>2 DEF FinishChange
  <1>7. CASE FinishDelete(u)
    <2>0. call[u].op = "delete" /\ call[u].pc = "decrypt" /\ UNCHANGED loaded /\ call[u].list \in Seq(Stores)
      BY <1>0, <1>7 DEF FinishDelete, At, LocalsOK
    <2>1. CASE DeleteOther(u) \/ DeleteLast(u)
      BY <2>0, <2>1, KeptFacts, DeleteFromKept DEF DeleteOther, DeleteLast
    <2>2. CASE DeleteSelected(u)
      <3>1. CASE Return(u) /\ UNCHANGED keyStore
        BY <1>a, <2>0, <2>2, <3>1 DEF DeleteSelected
      <3>2. CASE keyStore' = Head(call[u].list) /\ Goto(u, "reopen")
        <4>1. /\ call'[u].pc = "reopen" /\ call'[u].store = call[u].store /\ call'[u].list = call[u].list
              /\ call'[u].op = "delete"
          BY <1>0, <2>0, <3>2 DEF Goto, Calls
        <4>2. 1 \in DOMAIN call[u].list /\ Head(call[u].list) = call[u].list[1]
          BY <2>0, <2>2, LenProperties, HeadTailProperties DEF DeleteSelected
        <4>3. Names(keyStore')
          BY <1>0, <2>0, <3>2, <4>2, NamesElement DEF AllTyped
        <4>4. UNCHANGED <<loaded, multi, vault>> /\ loaded
          BY <1>0, <2>0, <2>2 DEF DeleteSelected, NotLoaded, Loading
        <4>5. AllTyped(u)'
          BY <4>1, <4>3, <4>4, KeptFacts DEF AllTyped, Names, NamesAll
        <4> QED BY <1>0, <1>c, <2>0, <4>1, <4>4, <4>5 DEF KeptInv, NotLoaded, SavedKept, ListKept
      <3> QED BY <2>2, <3>1, <3>2 DEF DeleteSelected
    <2>3. CASE DeleteRefused(u)
      BY <1>a, <2>0, <2>3 DEF DeleteRefused
    <2> QED BY <1>7, <2>1, <2>2, <2>3 DEF FinishDelete
  <1>8. CASE ReopenAfterDelete(u)
    <2>1. call[u].op = "delete" /\ call[u].pc = "reopen" /\ UNCHANGED loaded
      BY <1>0, <1>8 DEF ReopenAfterDelete, At, LocalsOK
    <2>2. CASE DeleteFrom(u, keyStore)
      BY <2>1, <2>2, KeptFacts, DeleteFromKept
    <2>3. CASE DeleteRefused(u)
      BY <1>a, <2>1, <2>3 DEF DeleteRefused
    <2> QED BY <1>8, <2>2, <2>3 DEF ReopenAfterDelete
  <1> QED BY <1>1, <1>2, <1>3, <1>4, <1>5, <1>6, <1>7, <1>8 DEF Select

-----------------------------------------------------------------------------
(* updatePassword(), a new Ledger app and the saves.                       *)
LEMMA PasswordReplacedKept ==
  ASSUME NEW u \in Slots, IdsInv(u), KeptInv(u), NEW list, NEW new, PasswordReplaced(u, list, new),
         NamesAll(list), Names(keyStore'), loaded, UNCHANGED loaded,
         call[u].pc \in {"idle", "reencrypt"},
         \A j \in DOMAIN multi : multi[j].typed => multi[j].key \in StoredKeys(list)
  PROVE  KeptInv(u)'
  <1>1. /\ call'[u].pc = "setStore" /\ call'[u].op = "updatePassword"
        /\ call'[u].store = NoStore /\ call'[u].list = <<>>
    BY KeptFacts DEF PasswordReplaced, Idle
  <1>2. multi' = list /\ vault'.store = keyStore' /\ vault'.multi = multi
    BY KeptFacts DEF PasswordReplaced, Vaults
  <1>3. ASSUME NEW k \in StoredKeys(multi), k \notin StoredKeys(list)
        PROVE  k \in Gone(call'[u], multi)
    <2>1. PICK j \in DOMAIN multi : multi[j].key = k
      BY <1>3, KeptFacts, SentinelAssumption DEF StoredKeys
    <2>2. ~multi[j].typed
      BY <1>3, <2>1
    <2> QED BY <1>1, <1>3, <2>1, <2>2 DEF Gone
  <1>4. AllTyped(u)'
    BY <1>1, <1>2, KeptFacts DEF AllTyped, Names, NamesAll
  <1> QED BY <1>1, <1>2, <1>3, <1>4, SavingKept

LEMMA ReencryptKept ==
  ASSUME NEW u \in Slots, IdsInv(u), KeptInv(u), Reencrypt(u)
  PROVE  KeptInv(u)'
  <1> DEFINE new == [call[u].store EXCEPT !.pw = call[u].new]
             list == Append(call[u].list, new)
             i == NextTyped(Iterated(u), call[u].num + 1)
  <1>0. /\ call \in [Slots -> Calls] /\ call[u] \in Calls /\ vault \in Vaults /\ multi \in Seq(Stores)
        /\ AllTyped(u) /\ NotLoaded(u) /\ SavedKept(u) /\ ListKept(u) /\ LocalsOK(call[u])
    BY KeptFacts DEF KeptInv
  <1>1. /\ call[u].pc = "reencrypt" /\ call[u].store \in Stores /\ call[u].list \in Seq(Stores)
        /\ Iterated(u) = multi /\ call[u].num \in DOMAIN multi /\ loaded /\ UNCHANGED loaded
        /\ call[u].store.key = multi[call[u].num].key /\ vault.multi = multi
    BY <1>0 DEF Reencrypt, At, LocalsOK, IdsInv, Locals, Iterated, Account, NotLoaded, SavedKept, Loading
  <1>2. new \in Stores /\ new.key = multi[call[u].num].key /\ new.typed = call[u].store.typed
    BY <1>0, <1>1 DEF Calls, Stores
  <1> HIDE DEF new
  <1>3. /\ NamesAll(list) /\ StoredKeys(list) = StoredKeys(call[u].list) \cup {new.key}
        /\ Names(Reselected(new))
    BY <1>0, <1>1, <1>2, TypedLonger, SentinelAssumption DEF AllTyped, Names, NamesAll, TypedStore, Reselected
  <1> HIDE DEF list
  <1>4. call[u].num \in 1..Len(multi) /\ Len(multi) \in Nat /\ DOMAIN multi = 1..Len(multi)
    BY <1>0, <1>1, LenProperties
  <1>5. /\ i = 0 => \A j \in (call[u].num + 1)..Len(multi) : ~multi[j].typed
        /\ i # 0 => /\ i \in (call[u].num + 1)..Len(multi)
                    /\ \A j \in (call[u].num + 1)..(i - 1) : ~multi[j].typed
    <2>1. call[u].num + 1 \in Nat \ {0}
      BY <1>4
    <2> QED BY <1>0, <1>1, <2>1, NextSkips
  <1> HIDE DEF i
  <1>6. ASSUME NEW j \in 1..call[u].num, multi[j].typed
        PROVE  multi[j].key \in StoredKeys(list)
    <2>1. CASE j = call[u].num
      BY <1>2, <1>3, <2>1
    <2>2. CASE j # call[u].num
      <3>1. j \in 1..(call[u].num - 1)
        BY <1>4, <2>2
      <3> QED BY <1>0, <1>1, <1>3, <1>6, <3>1 DEF ListKept
    <2> QED BY <2>1, <2>2
  <1>7. CASE Return(u) /\ UNCHANGED <<keyStore, multi, vault>>
    <2>1. call'[u].pc = "idle" /\ call'[u].store = NoStore /\ call'[u].list = <<>>
      BY <1>0, <1>7 DEF Return, Idle
    <2> QED BY <1>1, <1>7, <2>1, KeptFacts, QuietKept
  <1>8. CASE keyStore' = Reselected(new) /\ i = 0 /\ PasswordReplaced(u, list, call[u].new)
    <2>1. ASSUME NEW j \in DOMAIN multi, multi[j].typed
          PROVE  multi[j].key \in StoredKeys(list)
      <3>1. j \in 1..call[u].num \/ j \in (call[u].num + 1)..Len(multi)
        BY <1>4
      <3> QED BY <1>5, <1>6, <1>8, <2>1, <3>1
    <2> QED BY <1>1, <1>3, <1>8, <2>1, PasswordReplacedKept
  <1>9. CASE /\ keyStore' = Reselected(new) /\ i # 0 /\ UNCHANGED <<multi, vault>>
             /\ call' = [call EXCEPT ![u].list = list, ![u].num = i, ![u].store = Iterated(u)[i]]
    <2>1. i \in DOMAIN multi
      BY <1>4, <1>5, <1>9
    <2>2. /\ call'[u].pc = "reencrypt" /\ call'[u].list = list /\ call'[u].num = i
          /\ call'[u].store = multi[i] /\ call'[u].op = call[u].op
      BY <1>0, <1>1, <1>9 DEF Calls
    <2>3. Names(multi[i])
      BY <1>0, <2>1, NamesElement DEF AllTyped
    <2>4. ASSUME NEW j \in 1..(i - 1), multi[j].typed
          PROVE  multi[j].key \in StoredKeys(list)
      <3>1. j \in 1..call[u].num \/ j \in (call[u].num + 1)..(i - 1)
        BY <1>4, <1>5, <1>9
      <3> QED BY <1>5, <1>6, <1>9, <2>4, <3>1
    <2>5. AllTyped(u)'
      BY <1>3, <1>9, <2>2, <2>3, KeptFacts DEF AllTyped, Names, NamesAll
    <2> QED BY <1>0, <1>1, <1>9, <2>2, <2>4, <2>5 DEF KeptInv, NotLoaded, SavedKept, ListKept
  <1> QED BY <1>7, <1>8, <1>9 DEF Reencrypt, new, list, i

LEMMA RewriteKept ==
  ASSUME NEW u, Solo(u), IdsInv(u), KeptInv(u), Rewrite(u)
  PROVE  KeptInv(u)'
  <1>0. /\ call \in [Slots -> Calls] /\ call[u] \in Calls /\ vault \in Vaults /\ multi \in Seq(Stores)
        /\ AllTyped(u) /\ NotLoaded(u) /\ SavedKept(u) /\ ListKept(u) /\ LocalsOK(call[u])
        /\ u \in Slots
    BY KeptFacts DEF KeptInv, Solo
  <1>1. ~SetCoinType(u) /\ ~RemoveCoinTypes(u)
    BY DEF Solo, SetCoinType, RemoveCoinTypes, May, Services
  <1>2. CASE StoreSaved(u)
    <2>1. /\ call'[u].pc = "idle" /\ call'[u].store = NoStore /\ call'[u].list = <<>>
          /\ loaded /\ vault' = [vault EXCEPT !.multi = multi]
      BY <1>0, <1>2 DEF StoreSaved, Return, Idle, At, NotLoaded, Loading
    <2>2. UNCHANGED <<loaded, keyStore, multi>>
      BY <1>2 DEF StoreSaved, memory
    <2>3. vault'.multi = multi
      BY <1>0, <2>1 DEF Vaults
    <2> QED BY <1>0, <2>1, <2>2, <2>3, KeptFacts, QuietKept
  <1>3. ASSUME NEW new \in Passwords, BeginUpdatePassword(u, new)
        PROVE  KeptInv(u)'
    <2> DEFINE i == NextTyped(multi, 1)
               r == [Idle EXCEPT !.op = "updatePassword", !.pc = "reencrypt", !.pw = password,
                                 !.new = new, !.num = i, !.store = multi[i], !.live = TRUE]
    <2>0. loaded /\ UNCHANGED loaded /\ call[u].pc = "idle" /\ keyStore' = keyStore /\ vault.multi = multi
      BY <1>0, <1>3, KeptFacts DEF BeginUpdatePassword, May, At
    <2>1. /\ Len(multi) \in Nat /\ DOMAIN multi = 1..Len(multi)
          /\ i = 0 => \A j \in 1..Len(multi) : ~multi[j].typed
          /\ i # 0 => i \in 1..Len(multi) /\ \A j \in 1..(i - 1) : ~multi[j].typed
      <3>1. Len(multi) \in Nat /\ DOMAIN multi = 1..Len(multi) /\ 1 \in Nat \ {0}
        BY <1>0, LenProperties
      <3> QED BY <1>0, <3>1, NextSkips
    <2>2. CASE i = 0 /\ PasswordReplaced(u, <<>>, new)
      <3>1. \A j \in DOMAIN multi : ~multi[j].typed
        BY <2>1, <2>2
      <3> QED BY <1>0, <2>0, <2>2, <3>1, KeptFacts, PasswordReplacedKept
    <2>3. CASE i # 0 /\ call' = [call EXCEPT ![u] = r] /\ UNCHANGED <<multi, vault>>
      <3>1. i \in DOMAIN multi
        BY <2>1, <2>3
      <3>2. r.pc = "reencrypt" /\ r.list = <<>> /\ r.num = i /\ r.store = multi[i] /\ r.op = "updatePassword"
        BY DEF Idle
      <3>3. call'[u] = r
        BY <1>0, <2>3
      <3> HIDE DEF r, i
      <3>4. Names(multi[i])
        BY <1>0, <3>1, NamesElement DEF AllTyped
      <3>5. AllTyped(u)'
        BY <1>0, <2>0, <2>3, <3>2, <3>3, <3>4, KeptFacts DEF AllTyped, Names, NamesAll
      <3> QED BY <2>0, <2>1, <2>3, <3>2, <3>3, <3>5 DEF KeptInv, NotLoaded, SavedKept, ListKept
    <2> HIDE DEF r, i
    <2> QED BY <1>3, <2>2, <2>3 DEF BeginUpdatePassword, r, i
  <1>4. CASE Reencrypt(u)
    BY <1>0, <1>4, ReencryptKept
  <1>5. CASE BeginInitLedgerApp(u) \/ LedgerAppAnswers(u)
    <2>1. CASE BeginInitLedgerApp(u)
      <3>1. call'[u].pc = "device" /\ call'[u].store = NoStore /\ call'[u].list = <<>>
        BY <1>0, <2>1 DEF BeginInitLedgerApp, Idle
      <3>2. UNCHANGED <<loaded, keyStore, multi, vault>> /\ call[u].pc = "idle" /\ loaded
        BY <1>0, <2>1, KeptFacts DEF BeginInitLedgerApp, memory, May, At
      <3> QED BY <1>0, <3>1, <3>2, KeptFacts, QuietKept
    <2>2. CASE LedgerAppAnswers(u)
      <3> DEFINE s == Ciphertext(keyStore.id, JoinedWith(call[u].key), password)
      <3>1. call'[u].pc \in {"idle", "encrypt"} /\ call'[u].store \in {NoStore, s} /\ call'[u].list \in {<<>>, call[u].list}
        <4>1. CASE Return(u)
          BY <1>0, <4>1 DEF Return, Idle
        <4>2. CASE call' = [call EXCEPT ![u].pc = "encrypt", ![u].key = JoinedWith(@), ![u].store = s]
          <5> HIDE DEF s
          <5> QED BY <1>0, <4>2 DEF Calls
        <4> QED BY <2>2, <4>1, <4>2 DEF LedgerAppAnswers
      <3>2. UNCHANGED <<loaded, keyStore, multi, vault>> /\ call[u].pc = "device" /\ loaded
        BY <1>0, <2>2 DEF LedgerAppAnswers, memory, At, NotLoaded, Loading
      <3>3. Names(s)
        BY DEF Names, TypedStore, Ciphertext
      <3> HIDE DEF s
      <3>4. Names(call'[u].store) /\ NamesAll(call'[u].list)
        BY <1>0, <3>1, <3>3, KeptFacts DEF Names, NamesAll
      <3> QED BY <1>0, <3>1, <3>2, <3>4, KeptFacts, QuietKept
    <2> QED BY <1>5, <2>1, <2>2
  <1>6. CASE FinishInitLedgerApp(u)
    <2>0. /\ call[u].pc = "encrypt" /\ call[u].op = "initLedgerApp" /\ call[u].store \in Stores
          /\ loaded /\ UNCHANGED loaded /\ vault.multi = multi
          /\ keyStore # NoStore /\ call[u].store.id = keyStore.id
      BY <1>0, <1>6 DEF FinishInitLedgerApp, At, LocalsOK, NotLoaded, SavedKept, Loading, IdsInv, Locals
    <2>1. CASE Return(u) /\ UNCHANGED <<keyStore, multi, vault>>
      <3>1. call'[u].pc = "idle" /\ call'[u].store = NoStore /\ call'[u].list = <<>>
        BY <1>0, <2>1 DEF Return, Idle
      <3> QED BY <1>0, <2>0, <2>1, <3>1, KeptFacts, QuietKept
    <2>2. ASSUME NEW i \in DOMAIN multi, IsSelected(multi[i]), multi' = [multi EXCEPT ![i] = call[u].store],
                 keyStore' = call[u].store, vault' = [vault EXCEPT !.store = call[u].store],
                 call' = Saving(call, u)
          PROVE  KeptInv(u)'
      <3>1. /\ call'[u].pc = "setStore" /\ call'[u].store = call[u].store /\ call'[u].list = call[u].list
            /\ call'[u].op = "initLedgerApp"
        BY <1>0, <2>0, <2>2 DEF Saving, Calls
      <3>2. /\ multi' \in Seq(Stores) /\ DOMAIN multi' = DOMAIN multi /\ multi # Absent /\ multi' # Absent
            /\ multi'[i] = call[u].store /\ \A j \in DOMAIN multi \ {i} : multi'[j] = multi[j]
        BY <1>0, <2>0, <2>2, ExceptSeq, LenProperties, SentinelAssumption
      <3>3. call[u].store # NoStore /\ call[u].store.key \in StoredKeys(multi')
        BY <2>0, <3>2, SentinelAssumption DEF StoredKeys
      <3>4. vault'.store = call[u].store /\ vault'.multi = multi
        BY <1>0, <2>0, <2>2 DEF Vaults
      <3>5. ASSUME NEW k \in StoredKeys(multi), k \notin StoredKeys(multi')
            PROVE  k \in Gone(call'[u], multi)
        <4>1. PICK j \in DOMAIN multi : multi[j].key = k
          BY <3>2, <3>5 DEF StoredKeys
        <4>2. j = i
          BY <3>2, <3>5, <4>1 DEF StoredKeys
        <4>3. multi[i].id = call'[u].store.id
          BY <2>0, <2>2, <3>1 DEF IsSelected
        <4> QED BY <3>1, <3>5, <4>1, <4>2, <4>3 DEF Gone
      <3>6. OldTyped => call[u].store.typed
        BY <1>0, <2>0, SentinelAssumption DEF AllTyped, Names, TypedStore
      <3>7. NamesAll(multi')
        BY <1>0, <3>2, <3>6 DEF AllTyped, NamesAll, TypedList
      <3>8. AllTyped(u)'
        BY <1>0, <2>2, <3>1, <3>4, <3>7, KeptFacts DEF AllTyped, Names, NamesAll
      <3> QED BY <2>0, <3>1, <3>3, <3>4, <3>5, <3>8, SavingKept
    <2> QED BY <1>6, <2>1, <2>2 DEF FinishInitLedgerApp
  <1> QED BY <1>1, <1>2, <1>3, <1>4, <1>5, <1>6 DEF Rewrite

-----------------------------------------------------------------------------
LEMMA StepKept ==
  ASSUME NEW u, Solo(u), IdsInv(u), KeptInv(u), [Next]_vars
  PROVE  KeptInv(u)'
  <1>0. /\ u \in Slots /\ \A c \in Slots : c = u
        /\ AllTyped(u) /\ NotLoaded(u) /\ SavedKept(u) /\ ListKept(u)
    BY DEF Solo, KeptInv
  <1>1. ASSUME NEW c \in Slots, Restore(c) \/ CreateOrAdd(c) \/ Select(c) \/ Rewrite(c)
        PROVE  KeptInv(u)'
    BY <1>0, <1>1, RestoreKept, CreateOrAddKept, SelectKept, RewriteKept
  <1>2. CASE Lock
    <2>1. loaded /\ UNCHANGED <<loaded, keyStore, multi, vault, call>>
      BY <1>0, <1>2, KeptFacts DEF Lock
    <2> QED BY <1>0, <2>1 DEF KeptInv, AllTyped, Names, NamesAll, NotLoaded, SavedKept, ListKept
  <1>3. CASE Crash
    <2>1. /\ ~loaded' /\ keyStore' = NoStore /\ multi' = <<>> /\ vault' = vault
          /\ secret' = {} /\ password' = NoPassword /\ call'[u] = Idle
      BY <1>0, <1>3 DEF Crash
    <2>2. Idle.pc = "idle" /\ Idle.store = NoStore /\ Idle.list = <<>>
      BY DEF Idle
    <2>3. AllTyped(u)'
      BY <1>0, <2>1, <2>2, KeptFacts DEF AllTyped, Names, NamesAll
    <2> QED BY <2>1, <2>2, <2>3 DEF KeptInv, NotLoaded, SavedKept, ListKept
  <1>4. CASE UNCHANGED vars
    BY <1>0, <1>4 DEF vars, KeptInv, AllTyped, Names, NamesAll, NotLoaded, SavedKept, ListKept
  <1> QED BY <1>1, <1>2, <1>3, <1>4 DEF Next

LEMMA InitKept ==
  ASSUME NEW u, Solo(u), Init
  PROVE  KeptInv(u)
  <1>1. /\ vault \in FirstVaults /\ keyStore = NoStore /\ multi = <<>> /\ call[u] = Idle /\ ~loaded
        /\ secret = {} /\ password = NoPassword
    BY DEF Init, Solo
  <1>2. Idle.pc = "idle" /\ Idle.store = NoStore /\ Idle.list = <<>> /\ DOMAIN <<>> = {}
    BY DEF Idle
  <1>3. AllTyped(u)
    BY <1>1, <1>2 DEF OldTyped, AllTyped, Names, NamesAll, TypedStore, TypedList
  <1> QED BY <1>1, <1>2, <1>3 DEF KeptInv, NotLoaded, SavedKept, ListKept

(* The saved list is written by save() and by restore() alone.             *)
LEMMA SavedListWriters ==
  ASSUME Typed, NEW c \in Slots, Restore(c) \/ CreateOrAdd(c) \/ Select(c) \/ Rewrite(c)
  PROVE  \/ AdoptedStoreSaved(c) \/ UpgradeStoreSaved(c) \/ StoreSaved(c)
         \/ vault'.multi = vault.multi
  <1>0. /\ vault' = vault => vault'.multi = vault.multi
        /\ vault' = [vault EXCEPT !.store = keyStore'] => vault'.multi = vault.multi
        /\ vault' = [vault EXCEPT !.number = call[c].num] => vault'.multi = vault.multi
    BY DEF Typed, TypeOK, Vaults
  <1>1. CASE Restore(c)
    <2>1. CASE BeginRestore(c) \/ BeginEnable(c) \/ GotStore(c) \/ UpgradeListSaved(c)
      BY <1>0, <2>1 DEF BeginRestore, BeginEnable, GotStore, UpgradeListSaved
    <2>2. CASE GotNoMulti(c) \/ AdoptSingleStore(c)
      BY <1>0, <2>2 DEF GotNoMulti, AdoptSingleStore
    <2>3. ASSUME NEW list, NEW calls, Upgrade(c, list, calls)
          PROVE  vault'.multi = vault.multi
      BY <1>0, <2>3 DEF Upgrade
    <2> QED BY <1>1, <2>1, <2>2, <2>3 DEF Restore, GotMulti, AdoptedListSaved
  <1>2. CASE CreateOrAdd(c)
    <2>1. ASSUME NEW create, CreateChecked(c, create)
          PROVE  vault'.multi = vault.multi
      BY <1>0, <2>1 DEF CreateChecked
    <2>2. ASSUME NEW k \in Keys, NEW p \in Passwords, BeginCreate(c, k, p)
          PROVE  vault'.multi = vault.multi
      BY <1>0, <2>1, <2>2 DEF BeginCreate
    <2>3. CASE \E k \in Keys : BeginAdd(c, k)
      BY <1>0, <2>3 DEF BeginAdd
    <2>4. CASE CheckCreate(c)
      BY <2>1, <2>4 DEF CheckCreate
    <2>5. CASE DeviceAnswers(c) \/ DeviceFails(c)
      BY <1>0, <2>5 DEF DeviceAnswers, DeviceFails
    <2>6. CASE WriteNumber(c)
      BY <1>0, <2>6 DEF WriteNumber
    <2>7. CASE FinishCreate(c) \/ FinishAdd(c)
      BY <1>0, <2>7 DEF FinishCreate, FinishAdd
    <2> QED BY <1>2, <2>2, <2>3, <2>4, <2>5, <2>6, <2>7 DEF CreateOrAdd
  <1>3. CASE Select(c)
    <2>1. CASE \/ \E p \in Passwords : BeginUnlock(c, p)
               \/ \E i \in DOMAIN multi : BeginChange(c, i) \/ BeginDelete(c, i) \/ Rename(c, i)
      BY <1>0, <2>1 DEF BeginUnlock, BeginChange, BeginDelete, Rename
    <2>2. CASE FinishUnlock(c) \/ FinishChange(c)
      BY <1>0, <2>2 DEF FinishUnlock, FinishChange
    <2>3. ASSUME NEW s, DeleteFrom(c, s) PROVE vault'.multi = vault.multi
      BY <1>0, <2>3 DEF DeleteFrom
    <2>4. CASE FinishDelete(c) \/ ReopenAfterDelete(c)
      BY <1>0, <2>3, <2>4 DEF FinishDelete, ReopenAfterDelete, DeleteOther, DeleteLast, DeleteSelected, DeleteRefused
    <2> QED BY <1>3, <2>1, <2>2, <2>4 DEF Select
  <1>4. CASE Rewrite(c)
    <2>1. ASSUME NEW list, NEW new, PasswordReplaced(c, list, new)
          PROVE  vault'.multi = vault.multi
      BY <1>0, <2>1 DEF PasswordReplaced
    <2>2. CASE (\E p \in Passwords : BeginUpdatePassword(c, p)) \/ Reencrypt(c)
      BY <1>0, <2>1, <2>2 DEF BeginUpdatePassword, Reencrypt
    <2>3. CASE BeginInitLedgerApp(c) \/ LedgerAppAnswers(c) \/ FinishInitLedgerApp(c)
      BY <1>0, <2>3 DEF BeginInitLedgerApp, LedgerAppAnswers, FinishInitLedgerApp
    <2>4. CASE SetCoinType(c) \/ RemoveCoinTypes(c)
      BY <1>0, <2>4 DEF SetCoinType, RemoveCoinTypes, memory
    <2> QED BY <1>4, <2>2, <2>3, <2>4 DEF Rewrite
  <1> QED BY <1>1, <1>2, <1>3, <1>4

(* A step that changes the saved list takes out of it what Gone says.      *)
LEMMA LeavesAsGone ==
  ASSUME NEW u, Solo(u), IdsInv(u), KeptInv(u), Next,
         NEW k \in StoredKeys(vault.multi) \ StoredKeys(vault'.multi)
  PROVE  call[u].pc = "setStore" /\ k \in Gone(call[u], vault.multi) \ StoredKeys(multi)
  <1>0. u \in Slots /\ \A c \in Slots : c = u
    BY DEF Solo
  <1>1. vault'.multi # vault.multi
    OBVIOUS
  <1>2. AdoptedStoreSaved(u) \/ UpgradeStoreSaved(u) \/ StoreSaved(u)
    <2>1. ~Lock /\ ~Crash
      BY <1>1 DEF Lock, Crash
    <2> QED BY <1>0, <1>1, <2>1, SavedListWriters DEF Next, IdsInv
  <1>3. vault'.multi = multi /\ k \notin StoredKeys(multi)
    BY <1>2 DEF AdoptedStoreSaved, UpgradeStoreSaved, StoreSaved, IdsInv, Typed, TypeOK, Vaults
  <1>4. ~AdoptedStoreSaved(u)
    BY DEF AdoptedStoreSaved, At, KeptInv, ListKept, StoredKeys
  <1>5. ~UpgradeStoreSaved(u)
    BY <1>3 DEF UpgradeStoreSaved, At, KeptInv, SavedKept
  <1> QED BY <1>2, <1>3, <1>4, <1>5 DEF StoreSaved, At, KeptInv, SavedKept

(* Why a key leaves the saved list: the account is deleted; updatePassword() *)
(* is running and a key store of it names no type (keyring.ts:1364 goes on  *)
(* to the next then, though decryptedLegacy() of crypto.ts reads such key   *)
(* stores); or a new Ledger app was stored under the id of its account,     *)
(* from the Ledger that was unlocked by then.                              *)
KeysLeaveForAReason ==
    [][\A k \in StoredKeys(vault.multi) \ StoredKeys(vault'.multi) :
          \E c \in Slots :
              \/ call[c].op = "delete" /\ call[c].store.key = k
              \/ /\ call[c].op = "updatePassword"
                 /\ \E i \in DOMAIN vault.multi : ~vault.multi[i].typed /\ vault.multi[i].key = k
              \/ /\ call[c].op = "initLedgerApp"
                 /\ \E i \in DOMAIN vault.multi : vault.multi[i].id = call[c].store.id /\ vault.multi[i].key = k]_vars

(* No key leaves what is saved but for one of the three reasons, when the   *)
(* pages wait for each other and no service writes: whatever old vault the  *)
(* wallet starts from, how many Ledgers there are, and whatever is locked,  *)
(* answered by a device or restarted between two steps.                    *)
THEOREM KeysLeaveForThreeReasons ==
  ASSUME NEW CONSTANT u, Solo(u), OldIdsOK
  PROVE  Spec => KeysLeaveForAReason
  <1> DEFINE Leaves == \A k \in StoredKeys(vault.multi) \ StoredKeys(vault'.multi) :
               \E c \in Slots :
                   \/ call[c].op = "delete" /\ call[c].store.key = k
                   \/ /\ call[c].op = "updatePassword"
                      /\ \E i \in DOMAIN vault.multi : ~vault.multi[i].typed /\ vault.multi[i].key = k
                   \/ /\ call[c].op = "initLedgerApp"
                      /\ \E i \in DOMAIN vault.multi : vault.multi[i].id = call[c].store.id /\ vault.multi[i].key = k
             I == IdsInv(u) /\ KeptInv(u)
  <1>0. OneUser(u) /\ u \in Slots
    BY DEF OneUser, Solo
  <1>1. Init => I
    BY <1>0, InitIds, InitKept
  <1>2. I /\ [Next]_vars => I'
    BY <1>0, StepIds, StepKept
  <1>3. I /\ [Next]_vars => [Leaves]_vars
    BY <1>0, LeavesAsGone DEF Gone
  <1> QED BY <1>1, <1>2, <1>3, PTL DEF Spec, KeysLeaveForAReason

(* No key leaves what is saved but the one that deleteKeyRing() takes out:  *)
(* under the conditions of the theorem above, and where the other reasons  *)
(* cannot arise, because every key store of an old vault names its type,    *)
(* no two of its accounts share an id, and there is one Ledger.            *)
THEOREM OnlyDeletionLosesKeys ==
  ASSUME NEW CONSTANT u, Solo(u), OldIdsOK, OldKeysOK, OneLedger, OldTyped
  PROVE  Spec => OnlyDeletedKeysLeave
  <1> DEFINE Stays == \A k \in StoredKeys(vault.multi) \ StoredKeys(vault'.multi) :
                        \E c \in Slots : call[c].op = "delete" /\ call[c].store.key = k
             I == KeysInv(u) /\ KeptInv(u)
  <1>0. OneUser(u) /\ u \in Slots
    BY DEF OneUser, Solo
  <1>1. Init => I
    BY <1>0, InitKeys, InitKept
  <1>2. I /\ [Next]_vars => I'
    BY <1>0, StepKeys, StepKept DEF KeysInv
  <1>3. I /\ [Next]_vars => [Stays]_vars
    <2> SUFFICES ASSUME I, Next, NEW k \in StoredKeys(vault.multi) \ StoredKeys(vault'.multi)
                 PROVE  call[u].op = "delete" /\ call[u].store.key = k
      BY <1>0
    <2>1. call[u].pc = "setStore" /\ k \in Gone(call[u], vault.multi) \ StoredKeys(multi)
      BY LeavesAsGone DEF KeysInv
    <2>2. \A i \in DOMAIN vault.multi : vault.multi[i].typed
      BY <2>1 DEF KeptInv, AllTyped, NamesAll, TypedList, Gone, StoredKeys
    <2>3. ASSUME call[u].op = "initLedgerApp",
                 NEW i \in DOMAIN vault.multi, vault.multi[i].id = call[u].store.id, vault.multi[i].key = k
          PROVE  FALSE
      <3>1. call[u].store # NoStore /\ call[u].store.key \in StoredKeys(multi)
        BY <2>1, <2>3 DEF KeptInv, SavedKept
      <3>2. vault.multi \in Seq(Stores)
        BY <2>1 DEF KeysInv, IdsInv, Typed, TypeOK, Vaults, Gone, StoredKeys
      <3>3. Account(vault.multi[i]) \in Accounts(u)
        BY <3>2, KnownAccounts, KnownElement DEF KeysInv
      <3>4. Account(call[u].store) \in Accounts(u)
        BY <3>1, KnownAccounts DEF KeysInv, StoreIn, AccountsOf
      <3>5. call[u].store.key = k
        BY <2>3, <3>3, <3>4 DEF KeysInv, SameKey, Account
      <3> QED BY <2>1, <3>1, <3>5
    <2> QED BY <2>1, <2>2, <2>3 DEF Gone
  <1> QED BY <1>0, <1>1, <1>2, <1>3, PTL DEF Spec, OnlyDeletedKeysLeave

-----------------------------------------------------------------------------
(***************************************************************************)
(* One page at a time.  No hardware and no restart: what is selected, what  *)
(* is listed, what is saved and what is decrypted agree, whatever the       *)
(* services save and whenever the wallet is locked.                        *)
(***************************************************************************)
NoDevices == (\A k \in Keys : KindOf[k] \notin Hardware) /\ \A c \in Slots : "initLedgerApp" \notin Allowed[c]

OnePassword(list) == \A i, j \in DOMAIN list : list[i].pw = list[j].pw
OpenedBy(list, p) == \A i \in DOMAIN list : list[i].pw = p
Current(list) == \A i \in DOMAIN list : ~list[i].old

(* The selected key store is of the list, and one password opens them all. *)
Agreed(s, list) ==
    /\ TypedList(list) /\ OnePassword(list)
    /\ IF s = NoStore THEN list = <<>> ELSE \E i \in DOMAIN list : list[i] = s

(* What an earlier version of the wallet leaves.                           *)
GoodVault(f) == IF f.multi = Absent THEN TypedStore(f.store) ELSE Agreed(f.store, f.multi)
OldVaultsOK == \A f \in FirstVaults : GoodVault(f)

LEMMA AgreedStore ==
  ASSUME NEW list \in Seq(Stores), NEW s, Agreed(s, list), s # NoStore
  PROVE  /\ s \in Stores /\ s.typed /\ OpenedBy(list, s.pw)
         /\ \A p : OpenedBy(list, p) => s.pw = p
         /\ Current(list) => ~s.old /\ Upgraded(s) = s
  <1>1. PICK i \in DOMAIN list : list[i] = s
    BY DEF Agreed
  <1>2. s \in Stores /\ s.typed
    BY <1>1, ElementOfSeq, LenProperties, SentinelAssumption DEF Agreed, TypedList
  <1>3. OpenedBy(list, s.pw) /\ \A p : OpenedBy(list, p) => s.pw = p
    BY <1>1 DEF Agreed, OnePassword, OpenedBy
  <1>4. Current(list) => ~s.old
    BY <1>1 DEF Current
  <1>5. ~s.old => Upgraded(s) = s
    BY <1>2 DEF Upgraded, Stores
  <1> QED BY <1>2, <1>3, <1>4, <1>5

LEMMA AgreedElement ==
  ASSUME NEW list \in Seq(Stores), NEW s, Agreed(s, list), NEW i \in DOMAIN list
  PROVE  Agreed(list[i], list) /\ list[i] \in Stores /\ list[i] # NoStore /\ s # NoStore
  <1>1. list[i] \in Stores /\ list[i] # NoStore
    BY ElementOfSeq, LenProperties, SentinelAssumption
  <1>2. s # NoStore
    <2>1. DOMAIN <<>> = {}
      OBVIOUS
    <2> QED BY <2>1 DEF Agreed
  <1> QED BY <1>1, <1>2 DEF Agreed

LEMMA AgreedEmpty ==
  /\ Agreed(NoStore, <<>>) /\ Current(<<>>) /\ \A p : OpenedBy(<<>>, p)
  <1>1. DOMAIN <<>> = {}
    OBVIOUS
  <1> QED BY <1>1 DEF Agreed, TypedList, OnePassword, Current, OpenedBy

(* Without one of its key stores.                                          *)
LEMMA AgreedShorter ==
  ASSUME NEW list \in Seq(Stores), NEW s, Agreed(s, list), NEW i \in DOMAIN list
  PROVE  LET rest == RemoveAt(list, i)
         IN  /\ rest \in Seq(Stores)
             /\ Current(list) => Current(rest)
             /\ \A p : OpenedBy(list, p) => OpenedBy(rest, p)
             /\ s.id # list[i].id => Agreed(s, rest)
             /\ rest # <<>> => Agreed(Head(rest), rest) /\ Agreed(Head(rest), list) /\ Head(rest) \in Stores
  <1> DEFINE rest == RemoveAt(list, i)
             at(j) == IF j < i THEN j ELSE j + 1
  <1>1. /\ rest \in Seq(Stores) /\ DOMAIN rest = 1..(Len(list) - 1)
        /\ \A j \in 1..(Len(list) - 1) : rest[j] = list[at(j)]
        /\ Len(list) \in Nat /\ DOMAIN list = 1..Len(list)
    BY RemoveAtElements, LenProperties
  <1>2. \A j \in 1..(Len(list) - 1) : at(j) \in DOMAIN list
    BY <1>1
  <1>3. TypedList(rest)
    BY TypedShorter DEF Agreed
  <1>4. s.id # list[i].id => \E j \in DOMAIN rest : rest[j] = s
    <2> SUFFICES ASSUME s.id # list[i].id PROVE \E j \in DOMAIN rest : rest[j] = s
      OBVIOUS
    <2>1. PICK k \in DOMAIN list : list[k] = s
      BY AgreedElement DEF Agreed
    <2>2. k # i
      BY <2>1
    <2>3. CASE k < i
      <3>1. k \in 1..(Len(list) - 1) /\ at(k) = k BY <1>1, <2>3
      <3> QED BY <1>1, <2>1, <3>1
    <2>4. CASE k > i
      <3>1. k - 1 \in 1..(Len(list) - 1) /\ at(k - 1) = k BY <1>1, <2>4
      <3> QED BY <1>1, <2>1, <3>1
    <2> QED BY <1>1, <2>2, <2>3, <2>4
  <1>5. rest # <<>> => 1 \in DOMAIN rest /\ Head(rest) = rest[1]
    <2> HIDE DEF rest
    <2> QED BY <1>1, LenProperties, HeadTailProperties
  <1> HIDE DEF rest, at
  <1>6. OnePassword(rest)
    BY <1>1, <1>2 DEF Agreed, OnePassword
  <1>7. (Current(list) => Current(rest)) /\ \A p : OpenedBy(list, p) => OpenedBy(rest, p)
    BY <1>1, <1>2 DEF Current, OpenedBy
  <1>8. s # NoStore
    BY AgreedElement
  <1>9. s.id # list[i].id => Agreed(s, rest)
    BY <1>3, <1>4, <1>6, <1>8 DEF Agreed
  <1>10. rest # <<>> => Agreed(Head(rest), rest) /\ Agreed(Head(rest), list) /\ Head(rest) \in Stores
    <2> SUFFICES ASSUME rest # <<>> PROVE Agreed(Head(rest), rest) /\ Agreed(Head(rest), list) /\ Head(rest) \in Stores
      OBVIOUS
    <2>1. at(1) \in DOMAIN list /\ Head(rest) = list[at(1)] /\ 1 \in DOMAIN rest /\ Head(rest) = rest[1]
      BY <1>1, <1>2, <1>5
    <2>2. Agreed(Head(rest), list) /\ Head(rest) \in Stores /\ Head(rest) # NoStore
      BY <2>1, AgreedElement
    <2> QED BY <1>3, <1>6, <2>1, <2>2 DEF Agreed
  <1> QED BY <1>1, <1>7, <1>9, <1>10 DEF rest

(* With a key store behind the others.                                     *)
LEMMA AgreedLonger ==
  ASSUME NEW list \in Seq(Stores), NEW s, Agreed(s, list), Current(list), NEW new \in Stores, new.typed, ~new.old,
         s # NoStore => s.pw = new.pw
  PROVE  /\ Agreed(new, Append(list, new)) /\ Current(Append(list, new))
         /\ s # NoStore => Agreed(s, Append(list, new))
         /\ OpenedBy(Append(list, new), new.pw)
  <1> DEFINE longer == Append(list, new)
  <1>1. /\ longer \in Seq(Stores) /\ DOMAIN longer = 1..(Len(list) + 1)
        /\ \A j \in 1..Len(list) : longer[j] = list[j]
        /\ longer[Len(list) + 1] = new
        /\ Len(list) \in Nat /\ DOMAIN list = 1..Len(list)
    BY AppendProperties, LenProperties
  <1>2. 1..(Len(list) + 1) = 1..Len(list) \cup {Len(list) + 1}
    BY <1>1
  <1>3. TypedList(longer)
    BY TypedLonger DEF Agreed
  <1> HIDE DEF longer
  <1>4. OpenedBy(list, new.pw)
    <2>1. CASE s = NoStore
      BY <2>1, AgreedEmpty DEF Agreed
    <2>2. CASE s # NoStore
      BY <2>2, AgreedStore
    <2> QED BY <2>1, <2>2
  <1>5. OpenedBy(longer, new.pw) /\ Current(longer)
    BY <1>1, <1>2, <1>4 DEF OpenedBy, Current
  <1>6. OnePassword(longer)
    BY <1>5 DEF OnePassword, OpenedBy
  <1>7. new # NoStore /\ Len(list) + 1 \in DOMAIN longer
    BY <1>1, SentinelAssumption
  <1>8. Agreed(new, longer)
    BY <1>1, <1>3, <1>6, <1>7 DEF Agreed
  <1>9. s # NoStore => Agreed(s, longer)
    BY <1>1, <1>2, <1>3, <1>6 DEF Agreed
  <1> QED BY <1>5, <1>8, <1>9 DEF longer

(* The upgrade of restore(), and that it leaves current key stores alone.  *)
LEMMA AgreedUpgrade ==
  ASSUME NEW list \in Seq(Stores), NEW s \in Stores \cup {NoStore}, Agreed(s, list)
  PROVE  LET new == [i \in DOMAIN list |-> Upgraded(list[i])]
         IN  /\ Agreed(Upgraded(s), new) /\ Current(new)
             /\ Current(list) => new = list /\ Upgraded(s) = s
  <1> DEFINE new == [i \in DOMAIN list |-> Upgraded(list[i])]
  <1>1. new \in Seq(Stores) /\ DOMAIN new = DOMAIN list /\ TypedList(new)
    BY UpgradedListTyped, TypedUpgrade DEF Agreed
  <1>2. ASSUME NEW i \in DOMAIN list
        PROVE  /\ list[i] \in Stores /\ new[i] = Upgraded(list[i])
               /\ new[i].pw = list[i].pw /\ ~new[i].old /\ (~list[i].old => new[i] = list[i])
    <2>1. list[i] \in Stores /\ list[i] # NoStore
      BY ElementOfSeq, LenProperties, SentinelAssumption
    <2>2. /\ Upgraded(list[i]).pw = list[i].pw /\ ~Upgraded(list[i]).old
          /\ ~list[i].old => Upgraded(list[i]) = list[i]
      BY <2>1 DEF Upgraded, Stores
    <2> QED BY <2>1, <2>2
  <1>3. Current(list) => new = list
    <2>1. new = [i \in DOMAIN list |-> new[i]]
      BY <1>2
    <2>2. list = [i \in DOMAIN list |-> list[i]]
      BY LenProperties
    <2> QED BY <1>2, <2>1, <2>2 DEF Current
  <1> HIDE DEF new
  <1>4. OnePassword(new) /\ Current(new)
    BY <1>1, <1>2 DEF Agreed, OnePassword, Current
  <1>5. Agreed(Upgraded(s), new)
    <2>1. CASE s = NoStore
      <3>1. DOMAIN list = {} /\ Upgraded(s) = NoStore
        BY <2>1 DEF Agreed, Upgraded
      <3>2. new = <<>>
        BY <1>1, <3>1, EmptySeq, LenProperties
      <3> QED BY <1>1, <1>4, <3>1, <3>2 DEF Agreed
    <2>2. CASE s # NoStore
      <3>1. PICK i \in DOMAIN list : list[i] = s
        BY <2>2 DEF Agreed
      <3>2. new[i] = Upgraded(s) /\ i \in DOMAIN new
        BY <1>1, <1>2, <3>1
      <3>3. Upgraded(s) # NoStore
        BY <2>2, UpgradedTyped, SentinelAssumption
      <3> QED BY <1>1, <1>4, <3>2, <3>3 DEF Agreed
    <2> QED BY <2>1, <2>2
  <1>6. Current(list) => Upgraded(s) = s
    BY AgreedStore DEF Upgraded
  <1> QED BY <1>3, <1>4, <1>5, <1>6 DEF new

(* A list whose key stores are those of another under a new password.      *)
Reencrypted(s, p) == [s EXCEPT !.pw = p]

LEMMA AgreedRewritten ==
  ASSUME NEW list \in Seq(Stores), TypedList(list), Current(list), NEW p \in Passwords \cup {NoPassword},
         NEW new \in Seq(Stores), Len(new) = Len(list),
         \A j \in DOMAIN list : new[j] = Reencrypted(list[j], p), NEW i \in DOMAIN list
  PROVE  Agreed(Reencrypted(list[i], p), new) /\ Current(new) /\ OpenedBy(new, p)
  <1>1. DOMAIN new = DOMAIN list /\ new # Absent /\ list # Absent
    BY LenProperties, SentinelAssumption
  <1>2. ASSUME NEW j \in DOMAIN list
        PROVE  new[j] \in Stores /\ new[j].pw = p /\ new[j].typed /\ ~new[j].old
    <2>1. list[j] \in Stores /\ list[j].typed /\ ~list[j].old
      BY <1>1, ElementOfSeq, LenProperties DEF TypedList, Current
    <2> QED BY <2>1 DEF Reencrypted, Stores
  <1>3. TypedList(new) /\ OnePassword(new) /\ Current(new) /\ OpenedBy(new, p)
    BY <1>1, <1>2 DEF TypedList, OnePassword, Current, OpenedBy
  <1>4. new[i] = Reencrypted(list[i], p) /\ new[i] # NoStore
    BY <1>2, SentinelAssumption
  <1> QED BY <1>1, <1>3, <1>4 DEF Agreed

-----------------------------------------------------------------------------
Saved == vault.store = keyStore /\ vault.multi = multi

(* While restore() runs first, no page has loaded and nothing else runs.   *)
LoadingOK(u) ==
    ~loaded =>
        /\ secret = {} /\ password = NoPassword /\ ~page
        /\ \A c \in Slots \ {u} : call[c].pc = "idle"
        /\ call[u].op \in {"none", "restore", "enable"}
        /\ call[u].pc \in {"idle"} \cup (Loading \ {"check"})
        /\ call[u].pc \in {"idle", "getStore"} => keyStore = NoStore /\ multi = <<>>
        /\ call[u].pc \in {"idle", "getStore", "getMulti"} => GoodVault(vault)
        /\ call[u].pc = "getStore" => call[u].store = vault.store
        /\ call[u].pc = "getMulti" =>
             keyStore = vault.store /\ call[u].list = vault.multi /\ call[u].store = keyStore
        /\ call[u].pc \in {"adoptNumber", "setNumber"} =>
             call[u].store = keyStore /\ keyStore # NoStore /\ keyStore.typed
        /\ call[u].pc \in {"adoptStore", "adoptMulti", "upgradeStore", "upgradeMulti"} =>
             Agreed(keyStore, multi) /\ vault.store = keyStore
        /\ call[u].pc \in {"upgradeStore", "upgradeMulti"} => Current(multi)
        /\ call[u].pc \in {"adoptMulti", "upgradeMulti"} => vault.multi = multi

(* The calls that have changed what is in memory, or are going to.         *)
Unsaved(r) ==
    r.pc \in {"reopen", "reencrypt", "setStore"} \/ (r.op = "change" /\ r.pc = "decrypt") \/ r.op = "create"

Changing(r) == r.op = "change" /\ r.pc = "decrypt"

LoadedOK(u) ==
    loaded =>
        /\ call[u].pc # "reencrypt" => Agreed(keyStore, multi)
        /\ Current(multi)
        /\ call[u].pc \in Loading =>
             call[u].pc \in {"getStore", "getMulti"} /\ call[u].op = "restore" /\ call[u].store = keyStore
        /\ call[u].pc = "getMulti" => call[u].list = multi
        /\ ~Unsaved(call[u]) => Saved
        /\ call[u].pc = "setStore" => vault.store = keyStore
        /\ call[u].pc # "device"
        /\ call[u].pc = "idle" => call[u].op = "none"
        /\ call[u].pc = "decrypt" => call[u].op \in {"unlock", "change", "delete"}
        /\ secret # {} /\ keyStore # NoStore /\ ~Changing(call[u]) => keyStore.key \in secret
        /\ password # NoPassword /\ call[u].pc # "reencrypt" => OpenedBy(multi, password)

SelectingOK(u) ==
    /\ call[u].pc = "decrypt" /\ call[u].op \in {"unlock", "change"} => call[u].store = keyStore
    /\ Changing(call[u]) => call[u].pw = keyStore.pw
    /\ call[u].pc = "decrypt" /\ call[u].op = "delete" =>
        \E i \in DOMAIN multi :
            call[u].store = multi[i] /\ call[u].list = RemoveAt(multi, i) /\ call[u].pw = multi[i].pw
    /\ call[u].pc = "reopen" =>
        /\ keyStore = Head(call[u].list) /\ Agreed(keyStore, call[u].list) /\ Current(call[u].list)
        /\ call[u].pw = keyStore.pw /\ secret = {} /\ password = NoPassword
    /\ call[u].pc \in {"getNumber", "encrypt"} /\ call[u].op = "add" =>
        keyStore # NoStore /\ keyStore.pw = call[u].pw
    /\ call[u].pc \in {"getNumber", "encrypt"} /\ call[u].op = "create" =>
        keyStore = NoStore /\ call[u].key \in secret

(* updatePassword(): behind it everything has the new password.            *)
RewritingOK(u) ==
    call[u].pc = "reencrypt" =>
        /\ TypedList(multi) /\ OpenedBy(multi, call[u].pw)
        /\ password \in {NoPassword, call[u].pw}
        /\ call[u].store = multi[call[u].num]
        /\ Len(call[u].list) = call[u].num - 1
        /\ \A j \in DOMAIN call[u].list : call[u].list[j] = Reencrypted(multi[j], call[u].new)
        /\ \E i \in DOMAIN multi :
             keyStore = IF i < call[u].num THEN Reencrypted(multi[i], call[u].new) ELSE multi[i]

SerialOK(u) ==
    /\ crashes = 0
    /\ call[u].pc \notin {"idle"} \cup Loading => loaded
    /\ LoadingOK(u) /\ LoadedOK(u) /\ SelectingOK(u) /\ RewritingOK(u)

Serial(u) == OneUser(u) /\ NoDevices /\ MaxCrashes = 0

SerialInv(u) == IdsInv(u) /\ Carried /\ SerialOK(u)

-----------------------------------------------------------------------------
LEMMA SerialFacts ==
  ASSUME NEW u, Serial(u), SerialInv(u)
  PROVE  /\ u \in Slots /\ call \in [Slots -> Calls] /\ call[u] \in Calls /\ LocalsOK(call[u])
         /\ Detached(u) \in [Slots -> Calls] /\ Detached(u)[u] = call[u]
         /\ \A d \in Slots : Detached(u)[d].op = call[d].op /\ Detached(u)[d].pc = call[d].pc
         /\ keyStore \in Stores \cup {NoStore} /\ multi \in Seq(Stores) /\ vault \in Vaults
         /\ secret \in SUBSET Keys /\ password \in Passwords \cup {NoPassword}
         /\ Others(u) /\ Typed
         /\ crashes = 0 /\ LoadingOK(u) /\ LoadedOK(u) /\ SelectingOK(u) /\ RewritingOK(u)
         /\ call[u].pc \notin {"idle"} \cup Loading => loaded
         /\ Status = "UNLOCKED" => loaded /\ keyStore # NoStore /\ secret # {}
         /\ password # NoPassword => loaded
         /\ call[u].pc = "idle" /\ keyStore # NoStore => loaded
         /\ CarriesPassword(u, call[u])
  <1>1. u \in Slots /\ Typed /\ Others(u) /\ SerialOK(u) /\ Carried
    BY DEF Serial, OneUser, SerialInv, IdsInv
  <1>2. Detached(u) \in [Slots -> Calls] /\ Detached(u)[u] = call[u]
    BY <1>1, DetachedGood
  <1>3. ASSUME NEW d \in Slots
        PROVE  Detached(u)[d].op = call[d].op /\ Detached(u)[d].pc = call[d].pc
    <2>1. call[d] \in Calls
      BY <1>1 DEF Typed, TypeOK
    <2>2. LET r == [call[d] EXCEPT !.live = FALSE, !.src = multi] IN r.op = call[d].op /\ r.pc = call[d].pc
      BY <2>1 DEF Calls
    <2> QED BY <2>2 DEF Detached
  <1>4. /\ Status = "UNLOCKED" => loaded /\ keyStore # NoStore /\ secret # {}
        /\ password # NoPassword => loaded
        /\ call[u].pc = "idle" /\ keyStore # NoStore => loaded
    BY <1>1 DEF SerialOK, LoadingOK, Status
  <1> QED BY <1>1, <1>2, <1>3, <1>4 DEF Typed, TypeOK, CallsOK, SerialOK, Carried

(* A hardware key is none of the keys.                                     *)
LEMMA SoftwareSecret ==
  ASSUME NoDevices, secret \in SUBSET Keys, NEW k \in Keys
  PROVE  k \in Holding(k) /\ KindOf[k] \notin Hardware
  BY DEF NoDevices, Holding

(* A step of a loaded key ring after which u only saves, or rests.         *)
LEMMA RestStep ==
  ASSUME NEW u, crashes' = 0, loaded', Agreed(keyStore', multi'), Current(multi'),
         secret' # {} /\ keyStore' # NoStore => keyStore'.key \in secret',
         password' # NoPassword => OpenedBy(multi', password'),
         call'[u].pc \in {"idle", "setStore"}, call'[u].op # "create" \/ call'[u].pc = "setStore",
         call'[u].pc = "idle" => call'[u].op = "none" /\ Saved',
         call'[u].pc = "setStore" => vault'.store = keyStore'
  PROVE  SerialOK(u)'
  BY DEF SerialOK, LoadingOK, LoadedOK, SelectingOK, RewritingOK, Unsaved, Changing, Loading

(* The end of restore().                                                   *)
LEMMA UpgradeSerial ==
  ASSUME NEW u, Serial(u), SerialInv(u), NEW list \in Seq(Stores), Agreed(keyStore, list), ~loaded,
         vault.store = keyStore, vault.multi = list, call[u].pc \in {"getMulti", "adoptMulti"},
         Upgrade(u, list, Detached(u)) \/ Upgrade(u, list, call), UNCHANGED <<secret, password, crashes>>
  PROVE  SerialOK(u)'
  <1>1. keyStore' = Upgraded(keyStore) /\ multi' = [i \in DOMAIN list |-> Upgraded(list[i])]
    BY DEF Upgrade
  <1>2. Agreed(keyStore', multi') /\ Current(multi')
    BY <1>1, SerialFacts, AgreedUpgrade
  <1>3. secret = {} /\ password = NoPassword /\ ~page /\ call[u].op \in {"none", "restore", "enable"}
        /\ \A c \in Slots \ {u} : call[c].pc = "idle"
    BY SerialFacts DEF LoadingOK
  <1>4. CASE (LoadedBy(u, Detached(u)) \/ LoadedBy(u, call)) /\ UNCHANGED vault /\ keyStore' = keyStore /\ multi' = list
    <2>1. loaded' /\ call'[u].pc = "idle" /\ call'[u].op = "none"
      BY <1>3, <1>4, SerialFacts DEF LoadedBy, Idle
    <2> QED BY <1>2, <1>3, <1>4, <2>1, SerialFacts, RestStep DEF Saved
  <1>5. CASE /\ vault' = [vault EXCEPT !.store = keyStore'] /\ UNCHANGED <<loaded, page>>
             /\ \/ call' = [call EXCEPT ![u].pc = "upgradeStore"]
                \/ call' = [Detached(u) EXCEPT ![u].pc = "upgradeStore"]
    <2>1. /\ call'[u].pc = "upgradeStore" /\ call'[u].op = call[u].op
          /\ \A c \in Slots \ {u} : call'[c].pc = "idle"
      BY <1>3, <1>5, SerialFacts DEF Calls
    <2>2. vault'.store = keyStore'
      BY <1>5, SerialFacts DEF Vaults
    <2> QED BY <1>2, <1>3, <1>5, <2>1, <2>2, SerialFacts
          DEF SerialOK, LoadingOK, LoadedOK, SelectingOK, RewritingOK, Changing, Loading
  <1> QED BY <1>4, <1>5 DEF Upgrade

(* restore() of a page that is opened later finds what it had loaded.      *)
LEMMA ReloadSerial ==
  ASSUME NEW u, Serial(u), SerialInv(u), loaded, Restore(u)
  PROVE  SerialOK(u)'
  <1>0. /\ call \in [Slots -> Calls] /\ call[u] \in Calls /\ Typed /\ LoadedOK(u) /\ crashes = 0 /\ u \in Slots
        /\ vault \in Vaults /\ keyStore \in Stores \cup {NoStore} /\ multi \in Seq(Stores)
        /\ Detached(u) \in [Slots -> Calls] /\ Detached(u)[u] = call[u]
    BY SerialFacts
  <1>1. CASE BeginRestore(u)
    <2>1. call'[u].pc = "getStore" /\ call'[u].op = "restore" /\ call'[u].store = vault.store /\ call[u].pc = "idle"
      BY <1>0, <1>1 DEF BeginRestore, Restoring, Idle, May, At
    <2>2. UNCHANGED <<loaded, keyStore, multi, password, secret, vault, page, crashes>>
      BY <1>1 DEF BeginRestore, memory
    <2>3. Saved
      BY <1>0, <2>1 DEF LoadedOK, Unsaved
    <2> QED BY <1>0, <2>1, <2>2, <2>3 DEF SerialOK, LoadingOK, LoadedOK, SelectingOK, RewritingOK,
              Unsaved, Saved, Changing, Loading
  <1>2. CASE GotStore(u)
    <2>1. /\ call'[u].pc = "getMulti" /\ call'[u].op = "restore" /\ call'[u].store = keyStore
          /\ call'[u].list = vault.multi /\ call[u].pc = "getStore" /\ call[u].store = keyStore /\ call[u].op = "restore"
      BY <1>0, <1>2 DEF GotStore, At, Calls, LoadedOK, Loading
    <2>2. UNCHANGED <<loaded, keyStore, multi, password, secret, vault, page, crashes>>
      BY <1>2, <2>1 DEF GotStore
    <2>3. Saved
      BY <1>0, <2>1 DEF LoadedOK, Unsaved
    <2> QED BY <1>0, <2>1, <2>2, <2>3 DEF SerialOK, LoadingOK, LoadedOK, SelectingOK, RewritingOK,
              Unsaved, Saved, Changing, Loading
  <1>3. CASE GotMulti(u)
    <2>1. /\ call[u].list = multi /\ call[u].op = "restore" /\ call[u].pc = "getMulti" /\ Saved
          /\ Agreed(keyStore, multi) /\ Current(multi)
      BY <1>0, <1>3 DEF GotMulti, At, LoadedOK, Unsaved, Loading
    <2>2. keyStore' = keyStore /\ multi' = multi /\ LoadedBy(u, Detached(u)) /\ UNCHANGED vault
      BY <1>0, <1>3, <2>1, AgreedUpgrade DEF GotMulti, Upgrade
    <2>3. loaded' /\ call'[u].pc = "idle" /\ call'[u].op = "none"
      BY <1>0, <2>1, <2>2 DEF LoadedBy, Idle
    <2>4. UNCHANGED <<password, secret, crashes>>
      BY <1>3 DEF GotMulti
    <2> QED BY <1>0, <2>1, <2>2, <2>3, <2>4, RestStep DEF Saved, LoadedOK, Changing
  <1>4. ~GotNoMulti(u)
    BY <1>0, SentinelAssumption DEF GotNoMulti, At, LoadedOK, Loading
  <1>5. ~BeginEnable(u)
    BY DEF BeginEnable, Status
  <1> QED BY <1>0, <1>1, <1>2, <1>3, <1>4, <1>5 DEF Restore, AdoptSingleStore, AdoptedStoreSaved, AdoptedListSaved,
            UpgradeStoreSaved, UpgradeListSaved, At, LoadedOK, Loading

(* The first restore().                                                    *)
LEMMA FirstRestoreSerial ==
  ASSUME NEW u, Serial(u), SerialInv(u), ~loaded, Restore(u)
  PROVE  SerialOK(u)'
  <1>0. /\ call \in [Slots -> Calls] /\ call[u] \in Calls /\ Typed /\ LoadingOK(u) /\ crashes = 0 /\ u \in Slots
        /\ vault \in Vaults /\ keyStore \in Stores \cup {NoStore} /\ multi \in Seq(Stores)
        /\ Detached(u) \in [Slots -> Calls] /\ Detached(u)[u] = call[u]
        /\ \A d \in Slots : Detached(u)[d].op = call[d].op /\ Detached(u)[d].pc = call[d].pc
    BY SerialFacts
  <1>a. /\ secret = {} /\ password = NoPassword /\ ~page /\ \A c \in Slots \ {u} : call[c].pc = "idle"
        /\ call[u].op \in {"none", "restore", "enable"}
    BY <1>0 DEF LoadingOK
  <1>1. CASE BeginRestore(u) \/ BeginEnable(u)
    <2>1. /\ call'[u].pc = "getStore" /\ call'[u].op \in {"restore", "enable"} /\ call'[u].store = vault.store
          /\ call[u].pc = "idle" /\ \A c \in Slots \ {u} : call'[c].pc = "idle"
      BY <1>0, <1>a, <1>1 DEF BeginRestore, BeginEnable, Restoring, Idle, May, At
    <2>2. UNCHANGED <<loaded, keyStore, multi, password, secret, vault, page, crashes>>
      BY <1>1 DEF BeginRestore, BeginEnable, memory
    <2> QED BY <1>0, <1>a, <2>1, <2>2 DEF SerialOK, LoadingOK, LoadedOK, SelectingOK, RewritingOK, Changing, Loading
  <1>2. CASE GotStore(u)
    <2>1. /\ call'[u].pc = "getMulti" /\ call'[u].op = call[u].op /\ call'[u].store = call[u].store
          /\ call'[u].list = vault.multi /\ call[u].pc = "getStore" /\ call[u].store = vault.store
          /\ \A c \in Slots \ {u} : call'[c].pc = "idle"
      BY <1>0, <1>a, <1>2 DEF GotStore, At, Calls, LoadingOK
    <2>2. keyStore' = call[u].store /\ UNCHANGED <<loaded, multi, password, secret, vault, page, crashes>>
      BY <1>2 DEF GotStore
    <2> QED BY <1>0, <1>a, <2>1, <2>2 DEF SerialOK, LoadingOK, LoadedOK, SelectingOK, RewritingOK, Changing, Loading
  <1>3. CASE GotMulti(u)
    <2>1. /\ call[u].list \in Seq(Stores) /\ call[u].list = vault.multi /\ vault.store = keyStore
          /\ call[u].pc = "getMulti" /\ Agreed(keyStore, call[u].list)
      BY <1>0, <1>3 DEF GotMulti, At, LoadingOK, GoodVault, Calls
    <2> QED BY <1>3, <2>1, UpgradeSerial DEF GotMulti
  <1>4. CASE GotNoMulti(u)
    <2>1. /\ call[u].pc = "getMulti" /\ call[u].store = keyStore /\ vault.store = keyStore /\ TypedStore(keyStore)
      BY <1>0, <1>4 DEF GotNoMulti, At, LoadingOK, GoodVault
    <2>2. CASE call[u].store = NoStore
      <3>1. /\ call'[u].pc = "adoptStore" /\ call'[u].op = call[u].op
            /\ \A c \in Slots \ {u} : call'[c].pc = "idle"
        BY <1>0, <1>a, <1>4, <2>2 DEF GotNoMulti, Calls
      <3>2. /\ multi' = <<>> /\ vault'.store = keyStore
            /\ UNCHANGED <<loaded, keyStore, password, secret, page, crashes>>
        BY <1>0, <1>4, <2>2 DEF GotNoMulti, Vaults
      <3> QED BY <1>0, <1>a, <2>1, <2>2, <3>1, <3>2, AgreedEmpty
            DEF SerialOK, LoadingOK, LoadedOK, SelectingOK, RewritingOK, Changing, Loading
    <2>3. CASE call[u].store # NoStore
      <3>1. /\ call'[u].pc = "adoptNumber" /\ call'[u].op = call[u].op /\ call'[u].store = call[u].store
            /\ \A c \in Slots \ {u} : call'[c].pc = "idle"
        BY <1>0, <1>a, <1>4, <2>3 DEF GotNoMulti, Calls
      <3>2. UNCHANGED <<loaded, keyStore, multi, vault, password, secret, page, crashes>>
        BY <1>0, <1>4, <2>3 DEF GotNoMulti
      <3> QED BY <1>0, <1>a, <2>1, <2>3, <3>1, <3>2
            DEF SerialOK, LoadingOK, LoadedOK, SelectingOK, RewritingOK, Changing, Loading, TypedStore
    <2> QED BY <2>2, <2>3
  <1>5. CASE AdoptSingleStore(u)
    <2> DEFINE s == [call[u].store EXCEPT !.id = call[u].num]
    <2>1. call[u].pc = "setNumber" /\ call[u].store = keyStore /\ keyStore \in Stores /\ keyStore.typed
      BY <1>0, <1>5 DEF AdoptSingleStore, At, LoadingOK
    <2>2. s \in Stores /\ s.typed
      BY <1>0, <2>1 DEF Stores, Calls
    <2>3. /\ multi' = <<s>> /\ keyStore' = s /\ vault' = [vault EXCEPT !.store = keyStore']
          /\ UNCHANGED <<loaded, password, secret, page, crashes>>
      BY <1>5, <2>1 DEF AdoptSingleStore
    <2>4. /\ call'[u].pc = "adoptStore" /\ call'[u].op = call[u].op
          /\ \A c \in Slots \ {u} : call'[c].pc = "idle"
      BY <1>0, <1>a, <1>5 DEF AdoptSingleStore, Calls
    <2> HIDE DEF s
    <2>5. Agreed(s, <<s>>)
      <3>1. DOMAIN <<s>> = {1} /\ <<s>>[1] = s
        OBVIOUS
      <3> QED BY <2>2, <3>1, SentinelAssumption DEF Agreed, TypedList, OnePassword
    <2>6. vault'.store = keyStore'
      BY <1>0, <2>3 DEF Vaults
    <2> QED BY <1>0, <1>a, <2>3, <2>4, <2>5, <2>6
          DEF SerialOK, LoadingOK, LoadedOK, SelectingOK, RewritingOK, Changing, Loading
  <1>6. CASE AdoptedStoreSaved(u) \/ UpgradeStoreSaved(u)
    <2>1. /\ \/ call[u].pc = "adoptStore" /\ call'[u].pc = "adoptMulti"
             \/ call[u].pc = "upgradeStore" /\ call'[u].pc = "upgradeMulti"
          /\ call'[u].op = call[u].op /\ \A c \in Slots \ {u} : call'[c].pc = "idle"
      BY <1>0, <1>a, <1>6 DEF AdoptedStoreSaved, UpgradeStoreSaved, Goto, At, Calls
    <2>2. UNCHANGED <<loaded, keyStore, multi, password, secret, page, crashes>> /\ vault' = [vault EXCEPT !.multi = multi]
      BY <1>6 DEF AdoptedStoreSaved, UpgradeStoreSaved, memory
    <2>3. vault'.store = vault.store /\ vault'.multi = multi
      BY <1>0, <2>2 DEF Vaults
    <2> QED BY <1>0, <1>a, <2>1, <2>2, <2>3
          DEF SerialOK, LoadingOK, LoadedOK, SelectingOK, RewritingOK, Changing, Loading
  <1>7. CASE AdoptedListSaved(u)
    <2>1. Agreed(keyStore, multi) /\ vault.store = keyStore /\ vault.multi = multi /\ call[u].pc = "adoptMulti"
      BY <1>0, <1>7 DEF AdoptedListSaved, At, LoadingOK
    <2> QED BY <1>0, <1>7, <2>1, UpgradeSerial DEF AdoptedListSaved
  <1>8. CASE UpgradeListSaved(u)
    <2>1. Agreed(keyStore, multi) /\ Current(multi) /\ Saved
      BY <1>0, <1>8 DEF UpgradeListSaved, At, LoadingOK, Saved
    <2>2. loaded' /\ call'[u].pc = "idle" /\ call'[u].op = "none"
      BY <1>0, <1>a, <1>8 DEF UpgradeListSaved, LoadedBy, Idle
    <2> QED BY <1>0, <1>a, <1>8, <2>1, <2>2, RestStep DEF UpgradeListSaved, Saved
  <1> QED BY <1>1, <1>2, <1>3, <1>4, <1>5, <1>6, <1>7, <1>8 DEF Restore

-----------------------------------------------------------------------------
(* create*() and add*().                                                   *)
LEMMA CreateOrAddSerial ==
  ASSUME NEW u, Serial(u), SerialInv(u), CreateOrAdd(u)
  PROVE  SerialOK(u)'
  <1>0. /\ u \in Slots /\ call \in [Slots -> Calls] /\ call[u] \in Calls /\ LocalsOK(call[u])
        /\ vault \in Vaults /\ keyStore \in Stores \cup {NoStore} /\ multi \in Seq(Stores)
        /\ LoadingOK(u) /\ LoadedOK(u) /\ SelectingOK(u) /\ crashes = 0 /\ NoDevices
        /\ call[u].pc \notin {"idle"} \cup Loading => loaded
    BY SerialFacts DEF Serial
  <1>1. ASSUME NEW k \in Keys, NEW p \in Passwords, BeginCreate(u, k, p)
        PROVE  SerialOK(u)'
    <2> DEFINE create == [Idle EXCEPT !.op = "create", !.key = k, !.pw = p]
               r == [create EXCEPT !.pc = "getNumber", !.num = vault.number + 1]
    <2>1. /\ loaded /\ call[u].pc = "idle" /\ call[u].op = "none" /\ Saved
          /\ KindOf[k] \notin Hardware /\ create.key = k /\ UNCHANGED <<page, crashes>>
      BY <1>0, <1>1 DEF BeginCreate, May, At, LoadingOK, LoadedOK, Unsaved, NoDevices, Idle
    <2>2. CreateChecked(u, create)
      BY <1>1, <2>1 DEF BeginCreate, Status
    <2>3. CASE Return(u) /\ UNCHANGED <<memory, vault>>
      <3>1. call'[u].pc = "idle" /\ call'[u].op = "none"
        BY <1>0, <2>3 DEF Return, Idle
      <3> QED BY <1>0, <2>1, <2>3, <3>1, RestStep DEF memory, Saved, LoadedOK, Changing
    <2>4. CASE /\ Status = "EMPTY" /\ secret' = Holding(k) /\ call' = [call EXCEPT ![u] = r]
               /\ UNCHANGED <<loaded, keyStore, multi, password, vault>>
      <3>1. call'[u] = r
        BY <1>0, <2>4
      <3>2. r.pc = "getNumber" /\ r.op = "create" /\ r.key = k
        BY DEF Idle
      <3> HIDE DEF r, create
      <3>3. keyStore = NoStore /\ k \in Holding(k)
        BY <2>1, <2>4 DEF Status, Holding
      <3> QED BY <1>0, <2>1, <2>4, <3>1, <3>2, <3>3
            DEF SerialOK, LoadingOK, LoadedOK, SelectingOK, RewritingOK, Unsaved, Changing, Loading
    <2> QED BY <2>1, <2>2, <2>3, <2>4 DEF CreateChecked
  <1>2. ASSUME NEW k \in Keys, BeginAdd(u, k)
        PROVE  SerialOK(u)'
    <2> DEFINE r == [[Idle EXCEPT !.op = "add", !.key = k]
                       EXCEPT !.pc = "getNumber", !.pw = password, !.num = vault.number + 1]
    <2>1. /\ loaded /\ call[u].pc = "idle" /\ call[u].op = "none" /\ Saved /\ keyStore # NoStore
          /\ password # NoPassword /\ UNCHANGED <<memory, vault, page, crashes>>
      BY <1>0, <1>2 DEF BeginAdd, May, At, LoadingOK, LoadedOK, Unsaved, Status
    <2>2. call'[u] = r
      BY <1>0, <1>2 DEF BeginAdd, NoDevices, Idle
    <2>3. r.pc = "getNumber" /\ r.op = "add" /\ r.pw = password
      BY DEF Idle
    <2> HIDE DEF r
    <2>4. keyStore.pw = password
      BY <1>0, <2>1, AgreedStore DEF LoadedOK
    <2> QED BY <1>0, <2>1, <2>2, <2>3, <2>4
          DEF SerialOK, LoadingOK, LoadedOK, SelectingOK, RewritingOK, Unsaved, Changing, Loading, Saved, memory
  <1>3. ~CheckCreate(u) /\ ~DeviceAnswers(u) /\ ~DeviceFails(u)
    BY <1>0 DEF CheckCreate, DeviceAnswers, DeviceFails, At, LoadingOK, LoadedOK, Loading
  <1>4. CASE WriteNumber(u)
    <2>1. /\ call'[u].pc = IF call[u].pc = "getNumber" THEN "encrypt" ELSE "setNumber"
          /\ call'[u].op = call[u].op /\ call'[u].store = call[u].store /\ call'[u].list = call[u].list
          /\ call'[u].pw = call[u].pw /\ call'[u].key = call[u].key
          /\ \A c \in Slots \ {u} : call'[c] = call[c]
      BY <1>0, <1>4 DEF WriteNumber, Goto, At, Calls
    <2>2. /\ UNCHANGED <<loaded, keyStore, multi, password, secret, page, crashes>>
          /\ vault'.store = vault.store /\ vault'.multi = vault.multi
      BY <1>0, <1>4 DEF WriteNumber, memory, Vaults
    <2>3. CASE call[u].pc = "getNumber"
      BY <1>0, <2>1, <2>2, <2>3
          DEF SerialOK, LoadingOK, LoadedOK, SelectingOK, RewritingOK, Unsaved, Changing, Loading, Saved
    <2>4. CASE call[u].pc = "adoptNumber"
      BY <1>0, <2>1, <2>2, <2>4
          DEF SerialOK, LoadingOK, LoadedOK, SelectingOK, RewritingOK, Unsaved, Changing, Loading, Saved
    <2> QED BY <1>4, <2>3, <2>4 DEF WriteNumber, At
  <1>5. ASSUME call[u].pc = "encrypt", call' = Saving(call, u), UNCHANGED <<page, crashes>>
        PROVE  call'[u].pc = "setStore" /\ crashes' = 0 /\ loaded
    BY <1>0, <1>5 DEF Saving, Calls, Loading
  <1> DEFINE new == Encrypted(u)
  <1>6. ASSUME call[u].op \in {"create", "add"}
        PROVE  /\ new \in Stores /\ new.typed /\ ~new.old /\ new.pw = call[u].pw
               /\ new.key = call[u].key /\ call[u].key \in Keys
    BY <1>0, <1>6, CiphertextTyped DEF Encrypted, Ciphertext, LocalsOK, Calls
  <1> HIDE DEF new
  <1>7. CASE FinishCreate(u)
    <2>1. /\ call[u].pc = "encrypt" /\ call[u].op = "create" /\ keyStore = NoStore /\ call[u].key \in secret
          /\ call' = Saving(call, u) /\ UNCHANGED <<loaded, page, crashes>>
      BY <1>0, <1>7 DEF FinishCreate, At, SelectingOK
    <2>2. /\ keyStore' = new /\ multi' = Append(multi, new) /\ password' = new.pw /\ secret' = secret
          /\ vault' = [vault EXCEPT !.store = keyStore']
      BY <1>0, <1>6, <1>7, <2>1 DEF FinishCreate, Pushed, NoDevices, new
    <2>3. vault'.store = keyStore'
      BY <1>0, <2>2 DEF Vaults
    <2>4. Agreed(NoStore, multi) /\ Current(multi)
      BY <1>0, <1>5, <2>1 DEF LoadedOK
    <2>5. Agreed(new, multi') /\ Current(multi') /\ OpenedBy(multi', new.pw)
      BY <1>0, <1>6, <2>1, <2>2, <2>4, AgreedLonger
    <2> QED BY <1>5, <1>6, <2>1, <2>2, <2>3, <2>5, RestStep
  <1>8. CASE FinishAdd(u)
    <2>1. /\ call[u].pc = "encrypt" /\ call[u].op = "add" /\ keyStore # NoStore /\ keyStore.pw = new.pw
          /\ call' = Saving(call, u) /\ UNCHANGED <<loaded, keyStore, password, secret, page, crashes>>
      BY <1>0, <1>6, <1>8 DEF FinishAdd, At, SelectingOK
    <2>2. multi' = Append(multi, new) /\ vault' = [vault EXCEPT !.store = keyStore]
      BY <1>8 DEF FinishAdd, Pushed, new
    <2>3. vault'.store = keyStore'
      BY <1>0, <2>1, <2>2 DEF Vaults
    <2>4. Agreed(keyStore, multi) /\ Current(multi) /\ (password # NoPassword => OpenedBy(multi, password))
      BY <1>0, <1>5, <2>1 DEF LoadedOK
    <2>5. /\ Agreed(keyStore', multi') /\ Current(multi') /\ OpenedBy(multi', new.pw)
          /\ password # NoPassword => password = new.pw
      BY <1>0, <1>6, <2>1, <2>2, <2>4, AgreedLonger, AgreedStore
    <2>6. secret # {} => keyStore.key \in secret
      BY <1>0, <1>5, <2>1 DEF LoadedOK, Changing
    <2> QED BY <1>5, <2>1, <2>3, <2>5, <2>6, RestStep
  <1> QED BY <1>1, <1>2, <1>3, <1>4, <1>7, <1>8 DEF CreateOrAdd

-----------------------------------------------------------------------------
(* unlock() and the change, deletion and renaming of an account.           *)
LEMMA SelectSerial ==
  ASSUME NEW u, Serial(u), SerialInv(u), Select(u)
  PROVE  SerialOK(u)'
  <1>0. /\ u \in Slots /\ call \in [Slots -> Calls] /\ call[u] \in Calls /\ LocalsOK(call[u])
        /\ Detached(u) \in [Slots -> Calls] /\ Detached(u)[u] = call[u]
        /\ vault \in Vaults /\ keyStore \in Stores \cup {NoStore} /\ multi \in Seq(Stores)
        /\ LoadingOK(u) /\ LoadedOK(u) /\ SelectingOK(u) /\ crashes = 0 /\ NoDevices
        /\ call[u].pc \notin {"idle"} \cup Loading => loaded
    BY SerialFacts DEF Serial
  <1>a. UNCHANGED <<loaded, page, crashes>>
    BY DEF Select, BeginUnlock, BeginChange, BeginDelete, Rename, FinishUnlock, FinishChange, FinishDelete,
           ReopenAfterDelete, memory
  <1>b. ASSUME call[u].pc = "idle", page
        PROVE  /\ loaded /\ call[u].op = "none" /\ Saved /\ Agreed(keyStore, multi) /\ Current(multi)
               /\ secret # {} /\ keyStore # NoStore => keyStore.key \in secret
               /\ password # NoPassword => OpenedBy(multi, password)
    BY <1>0, <1>b DEF LoadingOK, LoadedOK, Unsaved, Changing
  <1>c. ASSUME call[u].pc \in {"decrypt", "reopen"}
        PROVE  /\ loaded /\ Agreed(keyStore, multi) /\ Current(multi)
               /\ secret # {} /\ keyStore # NoStore /\ ~Changing(call[u]) => keyStore.key \in secret
               /\ password # NoPassword => OpenedBy(multi, password)
               /\ call[u].pc = "decrypt" /\ call[u].op # "change" => Saved
    BY <1>0, <1>c DEF LoadedOK, Unsaved, Loading
  <1>d. ASSUME Return(u)
        PROVE  call'[u].pc = "idle" /\ call'[u].op = "none"
    BY <1>0, <1>d DEF Return, Idle
  <1>e. ASSUME NEW k \in Keys
        PROVE  k \in Holding(k)
    BY DEF Holding
  <1>1. ASSUME NEW p \in Passwords, BeginUnlock(u, p)
        PROVE  SerialOK(u)'
    <2> DEFINE r == [Idle EXCEPT !.op = "unlock", !.pc = "decrypt", !.store = keyStore, !.pw = p]
    <2>1. call[u].pc = "idle" /\ page /\ UNCHANGED <<memory, vault>> /\ call'[u] = r
      BY <1>0, <1>1 DEF BeginUnlock, May, At
    <2>2. r.pc = "decrypt" /\ r.op = "unlock" /\ r.store = keyStore
      BY DEF Idle
    <2> HIDE DEF r
    <2> QED BY <1>0, <1>a, <1>b, <2>1, <2>2
          DEF SerialOK, LoadingOK, LoadedOK, SelectingOK, RewritingOK, Unsaved, Changing, Loading, Saved, memory
  <1>2. ASSUME NEW i \in DOMAIN multi, BeginChange(u, i)
        PROVE  SerialOK(u)'
    <2> DEFINE r == [Idle EXCEPT !.op = "change", !.pc = "decrypt", !.store = multi[i], !.pw = password]
    <2>1. /\ call[u].pc = "idle" /\ page /\ UNCHANGED <<multi, password, secret, vault>> /\ call'[u] = r
          /\ keyStore' = multi[i] /\ password # NoPassword
      BY <1>0, <1>2 DEF BeginChange, May, At
    <2>2. r.pc = "decrypt" /\ r.op = "change" /\ r.store = multi[i] /\ r.pw = password
      BY DEF Idle
    <2>3. Agreed(keyStore', multi) /\ keyStore'.pw = password
      BY <1>0, <1>b, <2>1, AgreedElement DEF OpenedBy
    <2> HIDE DEF r
    <2> QED BY <1>0, <1>a, <1>b, <2>1, <2>2, <2>3
          DEF SerialOK, LoadingOK, LoadedOK, SelectingOK, RewritingOK, Unsaved, Changing, Loading
  <1>3. ASSUME NEW i \in DOMAIN multi, BeginDelete(u, i)
        PROVE  SerialOK(u)'
    <2> DEFINE r == [Idle EXCEPT !.op = "delete", !.pc = "decrypt", !.pw = password,
                                 !.store = multi[i], !.list = RemoveAt(multi, i)]
    <2>1. /\ call[u].pc = "idle" /\ page /\ UNCHANGED <<memory, vault>> /\ call'[u] = r
          /\ password # NoPassword
      BY <1>0, <1>3 DEF BeginDelete, May, At
    <2>2. /\ r.pc = "decrypt" /\ r.op = "delete" /\ r.store = multi[i] /\ r.list = RemoveAt(multi, i)
          /\ r.pw = password
      BY DEF Idle
    <2>3. multi[i].pw = password
      BY <1>b, <2>1 DEF OpenedBy
    <2> HIDE DEF r
    <2> QED BY <1>0, <1>a, <1>b, <2>1, <2>2, <2>3
          DEF SerialOK, LoadingOK, LoadedOK, SelectingOK, RewritingOK, Unsaved, Changing, Loading, Saved, memory
  <1>4. ASSUME NEW i \in DOMAIN multi, Rename(u, i)
        PROVE  SerialOK(u)'
    <2> DEFINE r == [Idle EXCEPT !.op = "rename", !.pc = "setStore"]
    <2>1. /\ call[u].pc = "idle" /\ page /\ UNCHANGED <<multi, password, secret>> /\ call'[u] = r
          /\ keyStore' = Reselected(multi[i]) /\ vault' = [vault EXCEPT !.store = keyStore']
      BY <1>0, <1>4 DEF Rename, May, At
    <2>2. r.pc = "setStore" /\ r.op = "rename"
      BY DEF Idle
    <2> HIDE DEF r
    <2>3. keyStore' = keyStore
      <3>1. CASE IsSelected(multi[i])
        <4>1. PICK j \in DOMAIN multi : multi[j] = keyStore
          BY <1>b, <2>1, <3>1 DEF IsSelected, Agreed
        <4>2. DistinctIds(multi)
          BY DEF SerialInv, IdsInv, Distinct
        <4>3. i = j
          BY <3>1, <4>1, <4>2 DEF IsSelected, DistinctIds
        <4> QED BY <2>1, <3>1, <4>1, <4>3 DEF Reselected
      <3>2. CASE ~IsSelected(multi[i])
        BY <2>1, <3>2 DEF Reselected
      <3> QED BY <3>1, <3>2
    <2>4. vault'.store = keyStore'
      BY <1>0, <2>1 DEF Vaults
    <2> QED BY <1>0, <1>a, <1>b, <2>1, <2>2, <2>3, <2>4, RestStep
  <1>5. CASE FinishUnlock(u)
    <2>1. /\ call[u].pc = "decrypt" /\ call[u].op = "unlock" /\ call[u].store = keyStore /\ keyStore \in Stores
          /\ UNCHANGED <<keyStore, multi, vault>> /\ Return(u)
      BY <1>0, <1>5 DEF FinishUnlock, At, SelectingOK, LocalsOK
    <2>2. CASE ~Opens(u, call[u].store)
      <3>1. UNCHANGED <<secret, password>>
        BY <1>5, <2>2 DEF FinishUnlock
      <3> QED BY <1>0, <1>a, <1>c, <1>d, <2>1, <3>1, RestStep DEF Changing, Saved
    <2>3. CASE Opens(u, call[u].store)
      <3>1. secret' = Holding(keyStore.key) /\ password' = keyStore.pw
        BY <1>5, <2>1, <2>3 DEF FinishUnlock, Open, Opens
      <3>2. keyStore.key \in secret' /\ OpenedBy(multi, password')
        BY <1>0, <1>c, <1>e, <2>1, <3>1, SentinelAssumption, AgreedStore DEF Stores
      <3> QED BY <1>0, <1>a, <1>c, <1>d, <2>1, <3>2, RestStep DEF Saved
    <2> QED BY <2>2, <2>3
  <1>6. CASE FinishChange(u)
    <2>1. /\ call[u].pc = "decrypt" /\ call[u].op = "change" /\ call[u].store = keyStore /\ keyStore \in Stores
          /\ UNCHANGED <<keyStore, multi>> /\ call[u].pw = keyStore.pw /\ Opens(u, call[u].store)
      BY <1>0, <1>6 DEF FinishChange, At, SelectingOK, LocalsOK, Changing, Opens
    <2>2. /\ secret' = Holding(keyStore.key) /\ password' = keyStore.pw
          /\ vault' = [vault EXCEPT !.store = keyStore] /\ call' = Saving(call, u)
      BY <1>6, <2>1 DEF FinishChange, Open
    <2>3. keyStore.key \in secret' /\ OpenedBy(multi, password')
      BY <1>0, <1>c, <1>e, <2>1, <2>2, SentinelAssumption, AgreedStore DEF Stores
    <2>4. vault'.store = keyStore' /\ call'[u].pc = "setStore"
      BY <1>0, <2>1, <2>2 DEF Saving, Vaults, Calls
    <2> QED BY <1>0, <1>a, <1>c, <2>1, <2>3, <2>4, RestStep
  <1>7. ASSUME NEW s, DeleteFrom(u, s), loaded, Agreed(s, call[u].list), Current(call[u].list),
               secret' # {} /\ s # NoStore => s.key \in secret',
               password' # NoPassword => OpenedBy(call[u].list, password')
        PROVE  SerialOK(u)'
    <2>1. call'[u].pc = "setStore" /\ multi' = call[u].list /\ keyStore' = s /\ vault'.store = s
      BY <1>0, <1>7 DEF DeleteFrom, Saving, Vaults, Calls
    <2> QED BY <1>0, <1>a, <1>7, <2>1, RestStep
  <1>8. CASE FinishDelete(u)
    <2>1. /\ call[u].pc = "decrypt" /\ call[u].op = "delete" /\ call[u].list \in Seq(Stores)
      BY <1>0, <1>8 DEF FinishDelete, At, LocalsOK
    <2>2. PICK i \in DOMAIN multi :
            call[u].store = multi[i] /\ call[u].list = RemoveAt(multi, i) /\ call[u].pw = multi[i].pw
      BY <1>0, <2>1 DEF SelectingOK
    <2>3. /\ Current(call[u].list) /\ keyStore # NoStore
          /\ \A p : OpenedBy(multi, p) => OpenedBy(call[u].list, p)
          /\ keyStore.id # multi[i].id => Agreed(keyStore, call[u].list)
          /\ call[u].list # <<>> =>
               LET first == Head(call[u].list)
               IN  Agreed(first, call[u].list) /\ Agreed(first, multi) /\ first \in Stores
      BY <1>0, <1>c, <2>1, <2>2, AgreedShorter, AgreedElement
    <2>4. Opens(u, call[u].store)
      BY <2>2 DEF Opens
    <2>5. CASE DeleteOther(u)
      BY <1>7, <1>c, <2>1, <2>2, <2>3, <2>5 DEF DeleteOther, IsSelected, Changing
    <2>6. CASE DeleteLast(u)
      BY <1>7, <1>c, <2>1, <2>6, AgreedEmpty DEF DeleteLast
    <2>7. CASE DeleteSelected(u) /\ Status # "UNLOCKED"
      BY <1>0, <1>a, <1>c, <1>d, <2>1, <2>7, RestStep DEF DeleteSelected, Changing, Saved
    <2>8. CASE DeleteSelected(u) /\ Status = "UNLOCKED"
      <3> DEFINE first == Head(call[u].list)
      <3>1. /\ secret' = {} /\ password' = NoPassword /\ keyStore' = first /\ UNCHANGED <<multi, vault>>
            /\ Goto(u, "reopen") /\ call[u].list # <<>>
        BY <2>8 DEF DeleteSelected
      <3>2. /\ call'[u].pc = "reopen" /\ call'[u].op = "delete" /\ call'[u].list = call[u].list
            /\ call'[u].pw = call[u].pw
        BY <1>0, <2>1, <3>1 DEF Goto, Calls
      <3>3. Agreed(first, call[u].list) /\ Agreed(first, multi) /\ first # NoStore
        BY <2>3, <3>1, SentinelAssumption
      <3>4. first.pw = call[u].pw
        BY <1>0, <2>2, <3>3, AgreedStore DEF OpenedBy
      <3>5. keyStore' = Head(call'[u].list)
        BY <3>1, <3>2
      <3> HIDE DEF first
      <3> QED BY <1>0, <1>a, <1>c, <2>1, <2>3, <3>1, <3>2, <3>3, <3>4, <3>5
            DEF SerialOK, LoadingOK, LoadedOK, SelectingOK, RewritingOK, Unsaved, Changing, Loading
    <2> QED BY <1>8, <2>4, <2>5, <2>6, <2>7, <2>8 DEF FinishDelete
  <1>9. CASE ReopenAfterDelete(u)
    <2>1. /\ call[u].pc = "reopen" /\ call[u].op = "delete" /\ call[u].list \in Seq(Stores)
          /\ keyStore = Head(call[u].list) /\ Agreed(keyStore, call[u].list) /\ Current(call[u].list)
          /\ call[u].pw = keyStore.pw /\ Opens(u, Head(call[u].list)) /\ keyStore # NoStore
      <3>1. call[u].pc = "reopen" /\ call[u].op = "delete" /\ call[u].list \in Seq(Stores) /\ call[u].list # <<>>
        BY <1>0, <1>9 DEF ReopenAfterDelete, At, LocalsOK
      <3>2. keyStore # NoStore
        BY <1>0, <3>1 DEF SelectingOK, Agreed
      <3> QED BY <1>0, <3>1, <3>2 DEF SelectingOK, Opens
    <2>2. secret' = Holding(keyStore.key) /\ password' = keyStore.pw /\ DeleteFrom(u, keyStore)
      BY <1>9, <2>1 DEF ReopenAfterDelete, Open
    <2>3. keyStore.key \in secret' /\ OpenedBy(call[u].list, password')
      BY <1>0, <1>e, <2>1, <2>2, AgreedStore DEF Stores
    <2> QED BY <1>7, <1>c, <2>1, <2>2, <2>3
  <1> QED BY <1>1, <1>2, <1>3, <1>4, <1>5, <1>6, <1>8, <1>9 DEF Select

-----------------------------------------------------------------------------
(* updatePassword() and the saves.                                         *)
LEMMA ReencryptSerial ==
  ASSUME NEW u, Serial(u), SerialInv(u), Reencrypt(u)
  PROVE  SerialOK(u)'
  <1> DEFINE p == call[u].new
             new == Reencrypted(multi[call[u].num], p)
             list == Append(call[u].list, new)
             i == NextTyped(Iterated(u), call[u].num + 1)
  <1>0. /\ u \in Slots /\ call \in [Slots -> Calls] /\ call[u] \in Calls /\ LocalsOK(call[u])
        /\ Detached(u) \in [Slots -> Calls] /\ Detached(u)[u] = call[u]
        /\ vault \in Vaults /\ keyStore \in Stores \cup {NoStore} /\ multi \in Seq(Stores)
        /\ LoadedOK(u) /\ RewritingOK(u) /\ crashes = 0
        /\ call[u].pc \notin {"idle"} \cup Loading => loaded
    BY SerialFacts
  <1>1. /\ call[u].pc = "reencrypt" /\ loaded /\ Current(multi) /\ call[u].list \in Seq(Stores)
        /\ secret # {} /\ keyStore # NoStore => keyStore.key \in secret
        /\ UNCHANGED <<loaded, secret, page, crashes>>
        /\ call[u].num \in DOMAIN multi /\ Iterated(u) = multi /\ p \in Passwords \cup {NoPassword}
    <2>1. Locals(u)
      BY DEF SerialInv, IdsInv
    <2> QED BY <1>0, <2>1 DEF Reencrypt, At, Locals, Iterated, LoadedOK, LocalsOK, Changing, Loading, Calls
  <1>2. /\ TypedList(multi) /\ OpenedBy(multi, call[u].pw) /\ call[u].store = multi[call[u].num]
        /\ password \in {NoPassword, call[u].pw}
        /\ Len(call[u].list) = call[u].num - 1 /\ \A j \in DOMAIN call[u].list : call[u].list[j] = Reencrypted(multi[j], p)
    BY <1>0, <1>1 DEF RewritingOK
  <1>3. PICK k \in DOMAIN multi : keyStore = IF k < call[u].num THEN Reencrypted(multi[k], p) ELSE multi[k]
    BY <1>0, <1>1 DEF RewritingOK
  <1>4. /\ call[u].num \in 1..Len(multi) /\ Len(multi) \in Nat /\ DOMAIN multi = 1..Len(multi)
        /\ k \in 1..Len(multi) /\ DOMAIN call[u].list = 1..(call[u].num - 1)
    BY <1>0, <1>1, <1>2, LenProperties
  <1>5. i = IF call[u].num < Len(multi) THEN call[u].num + 1 ELSE 0
    <2>1. call[u].num + 1 \in 1..(Len(multi) + 1) /\ (call[u].num + 1 <= Len(multi) <=> call[u].num < Len(multi))
      BY <1>4
    <2>2. NextTyped(multi, call[u].num + 1) = IF call[u].num + 1 <= Len(multi) THEN call[u].num + 1 ELSE 0
      BY <1>0, <1>2, <2>1, NextOfTyped
    <2> QED BY <1>1, <2>1, <2>2
  <1>6. /\ multi[k] \in Stores /\ multi[call[u].num] \in Stores /\ new \in Stores
        /\ new.id = multi[call[u].num].id /\ new.key = multi[call[u].num].key
        /\ keyStore \in Stores /\ keyStore.id = multi[k].id /\ keyStore.key = multi[k].key
    <2>1. multi[k] \in Stores /\ multi[call[u].num] \in Stores
      BY <1>0, <1>1, <1>3, ElementOfSeq, LenProperties
    <2> QED BY <1>1, <1>3, <2>1 DEF Reencrypted, Stores
  <1>7. Opens(u, call[u].store) /\ [call[u].store EXCEPT !.pw = call[u].new] = new
    BY <1>1, <1>2 DEF Opens, OpenedBy, Reencrypted
  <1>8. /\ list \in Seq(Stores) /\ Len(list) = call[u].num
        /\ \A j \in 1..call[u].num : list[j] = Reencrypted(multi[j], p)
    <2> HIDE DEF new
    <2>1. /\ list \in Seq(Stores) /\ Len(list) = Len(call[u].list) + 1 /\ list[Len(list)] = new
          /\ \A j \in 1..Len(call[u].list) : list[j] = call[u].list[j]
      BY <1>1, <1>6, AppendProperties
    <2>2. ASSUME NEW j \in 1..call[u].num PROVE list[j] = Reencrypted(multi[j], p)
      <3>1. CASE j = call[u].num
        BY <1>2, <1>4, <2>1, <3>1 DEF new
      <3>2. CASE j # call[u].num
        BY <1>2, <1>4, <2>1, <3>2
      <3> QED BY <3>1, <3>2
    <2> QED BY <1>2, <1>4, <2>1, <2>2
  <1>9. /\ keyStore' = IF k < call[u].num + 1 THEN Reencrypted(multi[k], p) ELSE multi[k]
        /\ keyStore'.key = keyStore.key /\ keyStore' # NoStore /\ keyStore # NoStore
    <2>1. keyStore' = Reselected(new)
      BY <1>7 DEF Reencrypt
    <2>2. IsSelected(new) <=> k = call[u].num
      <3>1. DistinctIds(multi)
        BY DEF SerialInv, IdsInv, Distinct
      <3>2. IsSelected(new) <=> multi[k].id = multi[call[u].num].id
        BY <1>6, SentinelAssumption DEF IsSelected
      <3> QED BY <1>1, <3>1, <3>2 DEF DistinctIds
    <2>3. CASE k = call[u].num
      BY <1>4, <1>6, <2>1, <2>2, <2>3, SentinelAssumption DEF Reselected
    <2>4. CASE k # call[u].num
      <3>1. k < call[u].num <=> k < call[u].num + 1
        BY <1>4, <2>4
      <3> QED BY <1>3, <1>6, <2>1, <2>2, <2>4, <3>1, SentinelAssumption DEF Reselected
    <2> QED BY <2>3, <2>4
  <1> HIDE DEF new, list, i
  <1>10. CASE i = 0 /\ PasswordReplaced(u, list, p)
    <2>1. call[u].num = Len(multi)
      BY <1>4, <1>5, <1>10
    <2>2. keyStore' = Reencrypted(multi[k], p)
      BY <1>4, <1>9, <2>1
    <2>3. Agreed(keyStore', list) /\ Current(list) /\ OpenedBy(list, p)
      BY <1>0, <1>1, <1>2, <1>4, <1>8, <2>1, <2>2, AgreedRewritten
    <2>4. /\ multi' = list /\ password' = p /\ vault'.store = keyStore'
          /\ call'[u].pc = "setStore" /\ call'[u].op = "updatePassword"
      BY <1>0, <1>10 DEF PasswordReplaced, Vaults, Idle
    <2> QED BY <1>0, <1>1, <1>9, <2>3, <2>4, RestStep
  <1>11. CASE /\ i # 0 /\ UNCHANGED <<multi, password, vault>>
              /\ call' = [call EXCEPT ![u].list = list, ![u].num = i, ![u].store = Iterated(u)[i]]
    <2>1. i = call[u].num + 1 /\ i \in DOMAIN multi
      BY <1>4, <1>5, <1>11
    <2>2. /\ call'[u].pc = "reencrypt" /\ call'[u].op = call[u].op /\ call'[u].list = list /\ call'[u].num = i
          /\ call'[u].store = multi[i] /\ call'[u].pw = call[u].pw /\ call'[u].new = p
      BY <1>0, <1>1, <1>11 DEF Calls
    <2>3. Len(list) = i - 1 /\ \A j \in DOMAIN list : list[j] = Reencrypted(multi[j], p)
      <3>1. i - 1 = call[u].num /\ DOMAIN list = 1..call[u].num
        BY <1>4, <1>8, <2>1, LenProperties
      <3> QED BY <1>8, <3>1
    <2>4. RewritingOK(u)'
      BY <1>2, <1>9, <1>11, <2>1, <2>2, <2>3 DEF RewritingOK
    <2> QED BY <1>0, <1>1, <1>9, <1>11, <2>2, <2>4
          DEF SerialOK, LoadingOK, LoadedOK, SelectingOK, Unsaved, Changing, Loading
  <1> QED BY <1>7, <1>9, <1>10, <1>11 DEF Reencrypt, list, i

LEMMA RewriteSerial ==
  ASSUME NEW u, Serial(u), SerialInv(u), Rewrite(u)
  PROVE  SerialOK(u)'
  <1>0. /\ u \in Slots /\ call \in [Slots -> Calls] /\ call[u] \in Calls /\ LocalsOK(call[u])
        /\ Detached(u) \in [Slots -> Calls] /\ Detached(u)[u] = call[u] /\ CarriesPassword(u, call[u])
        /\ vault \in Vaults /\ keyStore \in Stores \cup {NoStore} /\ multi \in Seq(Stores)
        /\ LoadingOK(u) /\ LoadedOK(u) /\ crashes = 0 /\ NoDevices
        /\ call[u].pc \notin {"idle"} \cup Loading => loaded
        /\ Status = "UNLOCKED" => loaded
    BY SerialFacts DEF Serial
  <1>a. ASSUME call[u].pc = "idle", page \/ Status = "UNLOCKED"
        PROVE  /\ loaded /\ Saved /\ Agreed(keyStore, multi) /\ Current(multi)
               /\ secret # {} /\ keyStore # NoStore => keyStore.key \in secret
               /\ password # NoPassword => OpenedBy(multi, password)
    BY <1>0, <1>a DEF LoadingOK, LoadedOK, Unsaved, Changing
  <1>1. CASE SetCoinType(u) \/ RemoveCoinTypes(u)
    <2>1. PICK op \in Services : call' = [call EXCEPT ![u] = [Idle EXCEPT !.op = op, !.pc = "setStore"]]
      BY <1>1 DEF SetCoinType, RemoveCoinTypes, Services
    <2>2. call'[u].pc = "setStore" /\ call'[u].op = op /\ op # "create"
      BY <1>0, <2>1 DEF Idle, Services
    <2>3. /\ UNCHANGED <<memory, page, crashes>> /\ vault' = [vault EXCEPT !.store = keyStore]
          /\ call[u].pc = "idle" /\ (page \/ Status = "UNLOCKED")
      BY <1>1 DEF SetCoinType, RemoveCoinTypes, May, At
    <2>4. vault'.store = keyStore'
      BY <1>0, <2>3 DEF Vaults, memory
    <2> QED BY <1>0, <1>a, <2>2, <2>3, <2>4, RestStep DEF memory
  <1>2. CASE StoreSaved(u)
    <2>1. /\ call[u].pc = "setStore" /\ loaded /\ vault.store = keyStore
          /\ Agreed(keyStore, multi) /\ Current(multi)
          /\ secret # {} /\ keyStore # NoStore => keyStore.key \in secret
          /\ password # NoPassword => OpenedBy(multi, password)
      BY <1>0, <1>2 DEF StoreSaved, At, LoadedOK, Changing, Loading
    <2>2. /\ UNCHANGED <<memory, page, crashes>> /\ vault' = [vault EXCEPT !.multi = multi]
          /\ call'[u].pc = "idle" /\ call'[u].op = "none"
      BY <1>0, <1>2 DEF StoreSaved, Return, Idle
    <2>3. Saved'
      BY <1>0, <2>1, <2>2 DEF Vaults, memory, Saved
    <2> QED BY <1>0, <2>1, <2>2, <2>3, RestStep DEF memory
  <1>3. ASSUME NEW new \in Passwords, BeginUpdatePassword(u, new)
        PROVE  SerialOK(u)'
    <2> DEFINE i == NextTyped(multi, 1)
               r == [Idle EXCEPT !.op = "updatePassword", !.pc = "reencrypt", !.pw = password,
                                 !.new = new, !.num = i, !.store = multi[i], !.live = TRUE]
    <2>1. /\ call[u].pc = "idle" /\ page /\ UNCHANGED <<keyStore, loaded, secret, page, crashes>>
          /\ password # NoPassword
      BY <1>3 DEF BeginUpdatePassword, May, At
    <2>2. TypedList(multi)
      BY <1>a, <2>1 DEF Agreed
    <2>3. /\ Len(multi) \in Nat /\ DOMAIN multi = 1..Len(multi)
          /\ i = IF 1 <= Len(multi) THEN 1 ELSE 0
      <3>1. Len(multi) \in Nat /\ DOMAIN multi = 1..Len(multi) /\ 1 \in 1..(Len(multi) + 1)
        BY <1>0, LenProperties
      <3> QED BY <1>0, <2>2, <3>1, NextOfTyped
    <2>4. CASE i = 0 /\ PasswordReplaced(u, <<>>, new)
      <3>1. multi = <<>> /\ keyStore = NoStore
        <4>1. Len(multi) = 0 /\ DOMAIN multi = {}
          BY <2>3, <2>4
        <4> QED BY <1>0, <1>a, <2>1, <4>1, EmptySeq DEF Agreed
      <3>2. /\ multi' = <<>> /\ vault'.store = keyStore'
            /\ call'[u].pc = "setStore" /\ call'[u].op = "updatePassword"
        BY <1>0, <2>4 DEF PasswordReplaced, Vaults, Idle
      <3> QED BY <1>0, <1>a, <2>1, <3>1, <3>2, AgreedEmpty, RestStep
    <2>5. CASE i # 0 /\ call' = [call EXCEPT ![u] = r] /\ UNCHANGED <<multi, password, vault>>
      <3>1. i = 1 /\ 1 \in DOMAIN multi
        BY <2>3, <2>5
      <3>2. /\ r.pc = "reencrypt" /\ r.list = <<>> /\ r.num = i /\ r.store = multi[i]
            /\ r.op = "updatePassword" /\ r.pw = password /\ r.new = new
        BY DEF Idle
      <3>3. call'[u] = r
        BY <1>0, <2>5
      <3> HIDE DEF r, i
      <3>4. PICK k \in DOMAIN multi : multi[k] = keyStore
        <4>1. keyStore # NoStore
          BY <1>0, <1>a, <2>1, <3>1, AgreedElement
        <4> QED BY <1>a, <2>1, <4>1 DEF Agreed
      <3>5. ~(k < 1) /\ Len(<<>>) = 1 - 1 /\ DOMAIN <<>> = {}
        BY <2>3
      <3>6. RewritingOK(u)'
        BY <1>a, <2>1, <2>2, <2>5, <3>1, <3>2, <3>3, <3>4, <3>5 DEF RewritingOK
      <3> QED BY <1>0, <1>a, <2>1, <2>5, <3>2, <3>3, <3>6
            DEF SerialOK, LoadingOK, LoadedOK, SelectingOK, Unsaved, Changing, Loading
    <2> HIDE DEF r, i
    <2> QED BY <1>3, <2>4, <2>5 DEF BeginUpdatePassword, r, i
  <1>4. CASE Reencrypt(u)
    BY <1>4, ReencryptSerial
  <1>5. ~BeginInitLedgerApp(u) /\ ~LedgerAppAnswers(u) /\ ~FinishInitLedgerApp(u)
    BY <1>0 DEF BeginInitLedgerApp, LedgerAppAnswers, FinishInitLedgerApp, May, At, NoDevices, LoadedOK,
          CarriesPassword, Loading
  <1> QED BY <1>1, <1>2, <1>3, <1>4, <1>5 DEF Rewrite

-----------------------------------------------------------------------------
(* The services save what is selected or what is listed.                   *)
LEMMA ServiceSerial ==
  ASSUME NEW u, Serial(u), SerialInv(u), NEW c \in Slots \ {u},
         Restore(c) \/ CreateOrAdd(c) \/ Select(c) \/ Rewrite(c)
  PROVE  SerialOK(u)'
  <1>0. /\ LoadingOK(u) /\ LoadedOK(u) /\ SelectingOK(u) /\ RewritingOK(u) /\ crashes = 0 /\ vault \in Vaults
        /\ call[u].pc \notin {"idle"} \cup Loading => loaded
        /\ Status = "UNLOCKED" => loaded
    BY SerialFacts
  <1>1. /\ call'[u] = call[u] /\ UNCHANGED <<memory, page, crashes>>
        /\ \/ vault' = [vault EXCEPT !.store = keyStore]
           \/ vault' = [vault EXCEPT !.multi = multi]
        /\ page \/ Status = "UNLOCKED" \/ call[c].pc = "setStore"
    BY SerialFacts, ServiceStep DEF Serial
  <1>2. loaded
    BY <1>0, <1>1 DEF LoadingOK
  <1>3. \/ vault'.store = keyStore /\ vault'.multi = vault.multi
        \/ vault'.store = vault.store /\ vault'.multi = multi
    BY <1>0, <1>1 DEF Vaults
  <1> QED BY <1>0, <1>1, <1>2, <1>3
        DEF SerialOK, LoadingOK, LoadedOK, SelectingOK, RewritingOK, Unsaved, Changing, Saved, memory

LEMMA LockSerial ==
  ASSUME NEW u, Serial(u), SerialInv(u), Lock
  PROVE  SerialOK(u)'
  <1>0. /\ LoadedOK(u) /\ SelectingOK(u) /\ RewritingOK(u) /\ crashes = 0
        /\ Status = "UNLOCKED" => loaded /\ keyStore # NoStore
    BY SerialFacts
  <1> QED BY <1>0 DEF Lock, SerialOK, LoadingOK, LoadedOK, SelectingOK, RewritingOK, Unsaved, Changing, Saved

LEMMA InitSerial ==
  ASSUME NEW u, Serial(u), OldIdsOK, OldVaultsOK, Init
  PROVE  SerialInv(u)
  <1>1. IdsInv(u) /\ u \in Slots
    BY InitIds DEF Serial, OneUser
  <1>2. /\ ~loaded /\ keyStore = NoStore /\ multi = <<>> /\ password = NoPassword /\ secret = {} /\ ~page
        /\ crashes = 0 /\ \A c \in Slots : call[c] = Idle
    BY DEF Init
  <1>3. Idle.op = "none" /\ Idle.pc = "idle"
    BY DEF Idle
  <1>4. GoodVault(vault)
    BY DEF Init, OldVaultsOK
  <1>5. Carried
    BY <1>2, IdleCarries DEF Carried
  <1>6. SerialOK(u)
    BY <1>1, <1>2, <1>3, <1>4 DEF SerialOK, LoadingOK, LoadedOK, SelectingOK, RewritingOK, Changing, Loading
  <1> QED BY <1>1, <1>5, <1>6 DEF SerialInv

LEMMA StepSerial ==
  ASSUME NEW u, Serial(u), SerialInv(u), Remembers(u), [Next]_vars
  PROVE  SerialInv(u)' /\ Remembers(u)'
  <1>0. OneUser(u) /\ OneLoader(u) /\ IdsInv(u) /\ SerialOK(u) /\ crashes = 0 /\ MaxCrashes = 0
    BY DEF Serial, OneUser, NoDevices, OneLoader, Services, Loaders, SerialInv, SerialOK
  <1>1. IdsInv(u)' /\ Remembers(u)'
    BY <1>0, StepIds, StepRemembers
  <1> SUFFICES SerialOK(u)'
    BY <1>1 DEF SerialInv, Remembers
  <1>2. CASE Restore(u) \/ CreateOrAdd(u) \/ Select(u) \/ Rewrite(u)
    BY <1>2, ReloadSerial, FirstRestoreSerial, CreateOrAddSerial, SelectSerial, RewriteSerial
  <1>3. ASSUME NEW c \in Slots \ {u}, Restore(c) \/ CreateOrAdd(c) \/ Select(c) \/ Rewrite(c)
        PROVE  SerialOK(u)'
    BY <1>3, ServiceSerial
  <1>4. CASE Lock
    BY <1>4, LockSerial
  <1>5. ~Crash
    BY <1>0 DEF Crash
  <1>6. CASE UNCHANGED vars
    BY <1>0, <1>6 DEF vars, SerialOK, LoadingOK, LoadedOK, SelectingOK, RewritingOK, Saved
  <1> QED BY <1>2, <1>3, <1>4, <1>5, <1>6 DEF Next

(* What the theorems below rest on.                                        *)
LEMMA SerialSteps ==
  ASSUME NEW u, Serial(u), OldIdsOK, OldVaultsOK
  PROVE  /\ Init => SerialInv(u) /\ Remembers(u)
         /\ SerialInv(u) /\ Remembers(u) /\ [Next]_vars => SerialInv(u)' /\ Remembers(u)'
  <1>1. OneLoader(u)
    BY DEF Serial, OneUser, NoDevices, OneLoader, Services, Loaders
  <1> QED BY <1>1, InitSerial, InitRemembers, StepSerial

(* The operation of a call other than u is that of a service.              *)
LEMMA NotRunning ==
  ASSUME NEW u, SerialInv(u), NEW op, ~Running(op), u \in Slots
  PROVE  call[u].op # op
  BY DEF Running

(* Signing and addresses come from the account that is selected, except    *)
(* while the selection is changed: however the services save and whenever  *)
(* the wallet is locked between two steps of the pages.                    *)
THEOREM SecretIsOfTheSelected ==
  ASSUME NEW CONSTANT u, Serial(u), OldIdsOK, OldVaultsOK
  PROVE  Spec => []SecretMatchesSelection
  <1>1. Init => SerialInv(u) /\ Remembers(u)
    BY SerialSteps
  <1>2. SerialInv(u) /\ Remembers(u) /\ [Next]_vars => SerialInv(u)' /\ Remembers(u)'
    BY SerialSteps
  <1>3. SerialInv(u) => SecretMatchesSelection
    <2> SUFFICES ASSUME SerialInv(u), Status = "UNLOCKED", ~Running("change")
                 PROVE  keyStore.key \in secret
      BY DEF SecretMatchesSelection
    <2>1. LoadedOK(u) /\ u \in Slots /\ loaded /\ keyStore # NoStore /\ secret # {}
      BY SerialFacts
    <2>2. ~Changing(call[u])
      BY <2>1, NotRunning DEF Changing
    <2> QED BY <2>1, <2>2 DEF LoadedOK
  <1> QED BY <1>1, <1>2, <1>3, PTL DEF Spec

(* The password that unlocked the wallet opens every account of it, except *)
(* while updatePassword() goes through them.                               *)
THEOREM OnePasswordOpensAll ==
  ASSUME NEW CONSTANT u, Serial(u), OldIdsOK, OldVaultsOK
  PROVE  Spec => []PasswordOpensAll
  <1>1. Init => SerialInv(u) /\ Remembers(u)
    BY SerialSteps
  <1>2. SerialInv(u) /\ Remembers(u) /\ [Next]_vars => SerialInv(u)' /\ Remembers(u)'
    BY SerialSteps
  <1>3. SerialInv(u) /\ Remembers(u) => PasswordOpensAll
    <2> SUFFICES ASSUME SerialInv(u), Remembers(u), Status = "UNLOCKED", ~Running("updatePassword")
                 PROVE  keyStore.pw = password /\ \A i \in DOMAIN multi : multi[i].pw = password
      BY DEF PasswordOpensAll
    <2>1. /\ LoadedOK(u) /\ u \in Slots /\ loaded /\ keyStore # NoStore /\ secret # {} /\ multi \in Seq(Stores)
          /\ LocalsOK(call[u])
      BY SerialFacts
    <2>2. password # NoPassword
      BY <2>1, SentinelAssumption DEF Remembers, Held, Creating
    <2>3. call[u].pc # "reencrypt"
      BY <2>1, NotRunning DEF LocalsOK
    <2>4. Agreed(keyStore, multi) /\ OpenedBy(multi, password)
      BY <2>1, <2>2, <2>3 DEF LoadedOK
    <2>5. keyStore.pw = password
      BY <2>1, <2>4, AgreedStore
    <2> QED BY <2>4, <2>5 DEF OpenedBy
  <1> QED BY <1>1, <1>2, <1>3, PTL DEF Spec

(* The selected key store is one of the list, ciphertext and all, except   *)
(* while updatePassword() goes through them.                               *)
THEOREM TheSelectedIsListed ==
  ASSUME NEW CONSTANT u, Serial(u), OldIdsOK, OldVaultsOK
  PROVE  Spec => []SelectedIsListed
  <1>1. Init => SerialInv(u) /\ Remembers(u)
    BY SerialSteps
  <1>2. SerialInv(u) /\ Remembers(u) /\ [Next]_vars => SerialInv(u)' /\ Remembers(u)'
    BY SerialSteps
  <1>3. SerialInv(u) => SelectedIsListed
    <2> SUFFICES ASSUME SerialInv(u), loaded, keyStore # NoStore, ~Running("updatePassword")
                 PROVE  \E i \in DOMAIN multi : multi[i] = keyStore
      BY DEF SelectedIsListed
    <2>1. LoadedOK(u) /\ u \in Slots /\ LocalsOK(call[u])
      BY SerialFacts
    <2>2. call[u].pc # "reencrypt"
      BY <2>1, NotRunning DEF LocalsOK
    <2> QED BY <2>1, <2>2 DEF LoadedOK, Agreed
  <1> QED BY <1>1, <1>2, <1>3, PTL DEF Spec

(* When nothing is in progress, memory and store agree: no operation that  *)
(* is refused, fails or is overtaken by a lock leaves them apart.          *)
THEOREM SettledIsPersisted ==
  ASSUME NEW CONSTANT u, Serial(u), OldIdsOK, OldVaultsOK
  PROVE  Spec => []SettledPersisted
  <1>1. Init => SerialInv(u) /\ Remembers(u)
    BY SerialSteps
  <1>2. SerialInv(u) /\ Remembers(u) /\ [Next]_vars => SerialInv(u)' /\ Remembers(u)'
    BY SerialSteps
  <1>3. SerialInv(u) => SettledPersisted
    BY SerialFacts DEF SettledPersisted, LoadedOK, Unsaved, Saved, At
  <1> QED BY <1>1, <1>2, <1>3, PTL DEF Spec

-----------------------------------------------------------------------------
(***************************************************************************)
(* The Ledger service, which the key ring calls: for any number of calls   *)
(* of useLedger() and of failures, a call that waits for its dialog has one *)
(* that can be answered; and one call is connected at a time, when nobody  *)
(* asks for the device while a call is connected to it.                    *)
(***************************************************************************)
Trying(r) == pc[r] \in {"mode", "connecting", "dialog"}

(* Where calls wait for each other there is one that is not over, and its  *)
(* abort() is at hand until it has the device.                             *)
OneLive ==
    Calm => \A r \in Requests :
        /\ Trying(r) => previousInitAborter = r
        /\ \A o \in Requests : pc[r] = "using" /\ (Trying(o) \/ pc[o] = "using") => r = o

(* The bound on failures is one on dialogs.                                *)
DialogsBounded == \A r \in Requests : pc[r] = "dialog" => retryCount[r] < MaxFailures

LedgerInv == LTypeOK /\ OneLive /\ DialogsBounded /\ DialogIsAnswerable

-----------------------------------------------------------------------------
(* The names of dialogs.                                                   *)
LEMMA DialogTyped ==
  ASSUME LTypeOK, NEW r \in Requests
  PROVE  Dialog(r) \in Dialogs /\ Dialog(r).of = r
  BY DEF LTypeOK, Dialog, Dialogs

LEMMA LedgerInitOK == LInit => LedgerInv
  BY LedgerAssumption DEF LInit, NoLoop, Verdicts, Dialogs, LedgerInv, LTypeOK, OneLive, Trying, DialogsBounded, DialogIsAnswerable

(* A new call: the one before, if there is one, waits for its dialog or,   *)
(* where calls do not wait for each other, goes on.                        *)
LEMMA UseLedgerStep ==
  ASSUME LedgerInv, NEW r \in Requests, UseLedger(r)
  PROVE  LedgerInv'
<1>1. LTypeOK'
  BY DEF LedgerInv, LTypeOK, UseLedger
<1>2. \A o \in Requests : pc'[o] = "dialog" => pc[o] = "dialog"
  BY DEF UseLedger, LedgerInv, LTypeOK
<1>3. OneLive'
  <2>1. CASE Calm
    <3>1. \A o \in Requests : pc[o] = "dialog" => o = previousInitAborter
      BY <2>1 DEF LedgerInv, OneLive, Trying
    <3>2. \A o \in Requests : o # r => pc'[o] \notin {"mode", "connecting", "dialog", "using"}
      BY <2>1, <3>1 DEF UseLedger, OnDevice, LedgerInv, LTypeOK
    <3>3. QED
      BY <3>2 DEF OneLive, Trying, UseLedger
  <2>2. QED
    BY <2>1 DEF OneLive
<1>4. DialogIsAnswerable'
  BY <1>2 DEF DialogIsAnswerable, Dialog, UseLedger, LedgerInv, LTypeOK
<1>5. DialogsBounded'
  BY <1>2 DEF DialogsBounded, UseLedger, LedgerInv, LTypeOK
<1>6. QED
  BY <1>1, <1>3, <1>4, <1>5 DEF LedgerInv

(* The other steps of a call.                                              *)
LEMMA CallStep ==
  ASSUME LedgerInv, NEW r \in Requests, GotMode(r) \/ Connects(r) \/ InitFails(r) \/ TimesOut(r) \/ Used(r)
  PROVE  LedgerInv'
<1>1. LTypeOK'
  <2>1. CASE InitFails(r)
    BY <2>1, DialogTyped DEF LedgerInv, LTypeOK, InitFails
  <2>2. CASE GotMode(r) \/ Connects(r) \/ TimesOut(r) \/ Used(r)
    BY <2>2 DEF LedgerInv, LTypeOK, GotMode, Connects, TimesOut, Used
  <2>3. QED
    BY <2>1, <2>2
<1>2. OneLive'
  BY DEF LedgerInv, LTypeOK, OneLive, Trying, GotMode, Connects, InitFails, TimesOut, Used
<1>3. DialogIsAnswerable'
  BY DEF LedgerInv, LTypeOK, DialogIsAnswerable, Dialog, GotMode, Connects, InitFails, TimesOut, Used
<1>4. DialogsBounded'
  BY DEF LedgerInv, LTypeOK, DialogsBounded, GotMode, Connects, InitFails, TimesOut, Used
<1>5. QED
  BY <1>1, <1>2, <1>3, <1>4 DEF LedgerInv

(* The pages send a verdict on a dialog and forget its data.               *)
LEMMA SendsStep ==
  ASSUME LedgerInv, NEW v \in Verdicts, NEW d \in Dialogs, Sends(v, d)
  PROVE  LedgerInv'
<1>1. /\ sweeps' = [sweeps EXCEPT ![v] = [left |-> sweeps[v].left \ {d}, sent |-> {d}]]
      /\ datas' = datas \ {d} /\ UNCHANGED <<pc, retryCount, previousInitAborter, coming>>
      /\ sweeps[v].sent = {}
  BY DEF Sends, LedgerInv, LTypeOK
<1>2. LTypeOK'
  BY <1>1 DEF LedgerInv, LTypeOK
<1>3. OneLive'
  BY <1>1 DEF LedgerInv, OneLive, Trying
<1>4. /\ datas \subseteq datas' \cup {d} /\ d \in sweeps'[v].sent
      /\ \A w \in Verdicts : sweeps[w].sent \subseteq sweeps'[w].sent
  BY <1>1 DEF LedgerInv, LTypeOK
<1>5. DialogIsAnswerable'
  BY <1>1, <1>4 DEF LedgerInv, LTypeOK, DialogIsAnswerable, Dialog, Verdicts
<1>6. DialogsBounded'
  BY <1>1 DEF LedgerInv, DialogsBounded
<1>7. QED
  BY <1>2, <1>3, <1>5, <1>6 DEF LedgerInv

(* The background hears the verdict: the dialog is over, or was before.    *)
LEMMA ApproveStep ==
  ASSUME LedgerInv, NEW v \in Verdicts, NEW d \in Dialogs, Approve(v, d)
  PROVE  LedgerInv'
<1> DEFINE answered == pc[d.of] = "dialog" /\ d = Dialog(d.of)
<1>1. /\ sweeps' = [sweeps EXCEPT ![v].sent = sweeps[v].sent \ {d}]
      /\ UNCHANGED <<previousInitAborter, coming, datas>> /\ d.of \in Requests /\ d \in sweeps[v].sent
  BY DEF Approve, LedgerInv, LTypeOK, Dialogs
<1>2. /\ sweeps' \in [Verdicts -> [left : SUBSET Dialogs, sent : SUBSET Dialogs]]
      /\ \A w \in Verdicts : \A a, b \in sweeps'[w].sent : a = b
      /\ \A w \in Verdicts : sweeps[w].sent \subseteq sweeps'[w].sent \cup {d}
  BY <1>1 DEF LedgerInv, LTypeOK
<1>3. CASE answered
  <2>1. /\ pc' = [pc EXCEPT ![d.of] = IF v = "abort" THEN "failed" ELSE "mode"]
        /\ retryCount' = IF v = "resume" THEN [retryCount EXCEPT ![d.of] = @ + 1] ELSE retryCount
    BY <1>3 DEF Approve
  <2>2. retryCount[d.of] + 1 \in 0..MaxFailures
    BY <1>1, <1>3, LedgerAssumption DEF LedgerInv, LTypeOK, DialogsBounded
  <2>3. LTypeOK'
    BY <1>1, <1>2, <2>1, <2>2 DEF LedgerInv, LTypeOK
  <2>4. OneLive'
    BY <1>1, <1>3, <2>1 DEF LedgerInv, LTypeOK, OneLive, Trying
  <2>5. \A r \in Requests : pc'[r] = "dialog" => r # d.of /\ pc[r] = "dialog" /\ retryCount'[r] = retryCount[r]
    BY <1>1, <2>1 DEF LedgerInv, LTypeOK
  <2>6. DialogsBounded'
    BY <2>5 DEF LedgerInv, DialogsBounded
  <2>7. DialogIsAnswerable'
    <3>1. ASSUME NEW r \in Requests, pc'[r] = "dialog"
          PROVE  Dialog(r)' \in (coming \cup datas \cup sweeps["resume"].sent \cup sweeps["abort"].sent)'
      <4>1. Dialog(r)' = Dialog(r) /\ Dialog(r) # d
        BY <2>5, <3>1, DialogTyped DEF Dialog, LedgerInv
      <4>2. QED
        BY <1>1, <1>2, <2>5, <3>1, <4>1 DEF LedgerInv, DialogIsAnswerable, Verdicts
    <3>2. QED
      BY <3>1 DEF DialogIsAnswerable
  <2>8. QED
    BY <2>3, <2>4, <2>6, <2>7 DEF LedgerInv
<1>4. CASE ~answered
  <2>1. pc' = pc /\ retryCount' = retryCount
    BY <1>4 DEF Approve
  <2>2. LTypeOK' /\ OneLive' /\ DialogsBounded'
    BY <1>1, <1>2, <2>1 DEF LedgerInv, LTypeOK, OneLive, Trying, DialogsBounded
  <2>3. ASSUME NEW r \in Requests, pc[r] = "dialog"
        PROVE  Dialog(r)' \in (coming \cup datas \cup sweeps["resume"].sent \cup sweeps["abort"].sent)'
    <3>1. Dialog(r)' = Dialog(r) /\ Dialog(r) # d
      BY <1>4, <2>1, <2>3, DialogTyped DEF Dialog, LedgerInv
    <3>2. QED
      BY <1>1, <1>2, <2>3, <3>1 DEF LedgerInv, DialogIsAnswerable, Verdicts
  <2>4. QED
    BY <2>1, <2>2, <2>3 DEF LedgerInv, DialogIsAnswerable
<1>5. QED
  BY <1>3, <1>4

LEMMA LedgerStep ==
  ASSUME LedgerInv, [LNext]_lvars
  PROVE  LedgerInv'
<1>1. ASSUME NEW d \in coming, OnInteractionDataReceived(d)
      PROVE  LedgerInv'
  BY <1>1 DEF LedgerInv, LTypeOK, OneLive, Trying, DialogsBounded, DialogIsAnswerable, Dialog, OnInteractionDataReceived
<1>2. ASSUME NEW v \in Verdicts, ForAll(v)
      PROVE  LedgerInv'
  <2>1. sweeps' = [sweeps EXCEPT ![v].left = datas] /\ UNCHANGED <<pc, retryCount, previousInitAborter, coming, datas>>
    BY <1>2 DEF ForAll
  <2>2. /\ sweeps' \in [Verdicts -> [left : SUBSET Dialogs, sent : SUBSET Dialogs]]
        /\ \A w \in Verdicts : sweeps'[w].sent = sweeps[w].sent
    BY <2>1 DEF LedgerInv, LTypeOK
  <2>3. QED
    BY <2>1, <2>2 DEF LedgerInv, LTypeOK, OneLive, Trying, DialogsBounded, DialogIsAnswerable, Dialog, Verdicts
<1>3. CASE UNCHANGED lvars
  BY <1>3 DEF lvars, LedgerInv, LTypeOK, OneLive, Trying, DialogsBounded, DialogIsAnswerable, Dialog
<1>4. QED
  BY <1>1, <1>2, <1>3, UseLedgerStep, CallStep, SendsStep, ApproveStep DEF LNext, Stopped

(* The invariant is one of the specification.                              *)
LEMMA LedgerInvariant == LSpec => []LedgerInv
<1>1. LedgerInv /\ [LNext]_lvars => LedgerInv'
  BY LedgerStep
<1>2. QED
  BY <1>1, LedgerInitOK, PTL DEF LSpec

(* No two calls are connected to the device at a time, if nobody asks for  *)
(* it while another call is connected: the code does not ensure that.      *)
THEOREM DeviceIsNotShared ==
  ASSUME Calm = TRUE
  PROVE  LSpec => []OneConnection
<1>1. LedgerInv => OneConnection
  BY DEF LedgerInv, OneLive, Trying, OneConnection, OnDevice
<1>2. QED
  BY <1>1, LedgerInvariant, PTL

(* Whoever waits for the user can be answered, also when calls are made    *)
(* while others are connected.                                             *)
THEOREM WaitingCallsAreShown == LSpec => []DialogIsAnswerable
<1>1. LedgerInv => DialogIsAnswerable
  BY DEF LedgerInv
<1>2. QED
  BY <1>1, LedgerInvariant, PTL

(* The variables of the Ledger service have their types: no call fails     *)
(* more often than it may, and a loop over the dialogs has at most one     *)
(* verdict on its way.                                                     *)
THEOREM LedgerTypeCorrect == LSpec => []LTypeOK
<1>1. LedgerInv => LTypeOK
  BY DEF LedgerInv
<1>2. QED
  BY <1>1, LedgerInvariant, PTL
=============================================================================
