------------------------------ MODULE KeyRing ------------------------------
(***************************************************************************)
(* The vault of the wallet: packages/background/src/keyring/keyring.ts.    *)
(*                                                                         *)
(* KeyRing keeps the key stores (encrypted accounts) in memory and in two  *)
(* entries of a key-value store, and the decrypted secret of the selected  *)
(* one while the wallet is unlocked.  Its methods are async and nothing    *)
(* serialises them: each message handler is a call that gives way at every *)
(* await, and every other call may run there.  A call is one of Slots; an  *)
(* action below is the code of one method between two awaits, and the pc   *)
(* of a call names what it is waiting for.                                 *)
(*                                                                         *)
(* A secret is the Keys value it decrypts to, a ciphertext is the pair of  *)
(* that value and the password it was made with: decrypting succeeds iff   *)
(* the passwords agree (the mac of crypto.ts).  Names, BIP44 paths and coin  *)
(* types are left out; the calls that only write them are the save they    *)
(* end in.                                                                 *)
(***************************************************************************)
EXTENDS Integers, SequencesExt

CONSTANTS
    Slots,        \* calls the background can have in progress
    Allowed,      \* Allowed[c]: the operations slot c may run
    Keys,         \* secrets: mnemonics, private keys, hardware public keys
    KindOf,       \* KindOf[k]: the type of key store made for k
    Passwords,    \* what a user may type
    NoPassword,   \* the empty string
    NoKey, NoStore, Absent,
    FirstVaults,  \* contents of the key-value store when the wallet is installed or updated
    MaxNumber,    \* bound on the incremental number of key store ids
    PagesSurvive, \* a restart stops only the service worker, not the browser
    MaxCrashes    \* bound on restarts of the background

Kinds == {"mnemonic", "privateKey", "ledger", "keystone"}
Hardware == {"ledger", "keystone"}

Operations ==
    {"restore", "enable", "create", "unlock", "add", "change", "delete",
     "rename", "updatePassword", "setCoinType", "removeCoinTypes", "initLedgerApp"}

Points ==
    {"idle", "getStore", "getMulti", "adoptNumber", "setNumber", "adoptStore", "adoptMulti",
     "upgradeStore", "upgradeMulti", "check", "device", "getNumber", "encrypt", "decrypt", "reopen",
     "reencrypt", "setStore"}

(* A key store: its `__id__` (0 when it has none), its ciphertext, whether *)
(* it names its type (the first versions did not) and whether its version  *)
(* is one that restore() moves to 1.2.                                     *)
Stores == [id: Nat, key: Keys, pw: Passwords \cup {NoPassword}, typed: BOOLEAN, old: BOOLEAN]

Vaults == [store: Stores \cup {NoStore}, multi: Seq(Stores) \cup {Absent}, number: Nat]

ASSUME KindAssumption == KindOf \in [Keys -> Kinds]
ASSUME AllowedAssumption == Allowed \in [Slots -> SUBSET Operations]
ASSUME SentinelAssumption ==
    NoPassword \notin Passwords /\ NoKey \notin Keys /\ NoStore \notin Stores /\ Absent \notin Seq(Stores)
ASSUME VaultAssumption == FirstVaults \subseteq Vaults
ASSUME BoundAssumption == MaxNumber \in Nat /\ MaxCrashes \in Nat /\ PagesSurvive \in BOOLEAN

VARIABLES
    loaded,    \* restore() has completed
    keyStore,  \* the selected key store, or NoStore
    multi,     \* multiKeyStore, the list of all key stores
    password,  \* the password the wallet was unlocked with
    secret,    \* the decrypted secrets held: _privateKey, _mnemonicMasterSeed, ...
    vault,     \* the persisted entries: key-store, key-multi-store, incrementalNumber
    call,      \* call[c]: the operation slot c runs and where it waits
    page,      \* a page of the wallet has loaded
    crashes

vars == <<loaded, keyStore, multi, password, secret, vault, call, page, crashes>>
memory == <<loaded, keyStore, multi, password, secret>>

(* What a call keeps in its locals across an await.                        *)
Idle == [op |-> "none", pc |-> "idle", key |-> NoKey, pw |-> NoPassword, new |-> NoPassword,
         store |-> NoStore, list |-> <<>>, src |-> <<>>, live |-> FALSE, num |-> 0]

Status ==
    IF ~loaded THEN "NOTLOADED"
    ELSE IF keyStore = NoStore THEN "EMPTY"
    ELSE IF secret = {} THEN "LOCKED" ELSE "UNLOCKED"

(* The setters of the four secrets: each forgets the others, but the       *)
(* ledger's leaves the keystone data alone.                                *)
Holding(k) ==
    {k} \cup IF KindOf[k] = "ledger" THEN {j \in secret : KindOf[j] = "keystone"} ELSE {}

(* loadPrivKey(): the secret of the selected store's type is loaded.       *)
CanLoadKey == \E k \in secret : KindOf[k] = KindOf[keyStore.key]

IsSelected(s) == keyStore # NoStore /\ keyStore.id = s.id

(* The selected store when s has been written in its place in the list.    *)
SelectedWhatever(s) == s
NotReselected(s) == keyStore
Reselected(s) == IF IsSelected(s) THEN s ELSE keyStore

At(c, pc) == call[c].pc = pc
May(c, op) == At(c, "idle") /\ op \in Allowed[c]
Goto(c, pc) == call' = [call EXCEPT ![c].pc = pc]
Return(c) == call' = [call EXCEPT ![c] = Idle]

(* updatePassword() iterates over the array multiKeyStore was when it      *)
(* began: the loops of the other calls keep the old array when call c      *)
(* assigns a new one, and see what is pushed to it while it is the same.   *)
Detached(c) ==
    [d \in Slots |-> IF d # c /\ call[d].live
                     THEN [call[d] EXCEPT !.live = FALSE, !.src = multi]
                     ELSE call[d]]

Init ==
    /\ loaded = FALSE
    /\ keyStore = NoStore
    /\ multi = <<>>
    /\ password = NoPassword
    /\ secret = {}
    /\ vault \in FirstVaults
    /\ call = [c \in Slots |-> Idle]
    /\ page = FALSE
    /\ crashes = 0

-----------------------------------------------------------------------------
(* restore(), from a page that loads (RestoreKeyRingMsg), from enable() and *)
(* from create*() while nothing is loaded.                                 *)

Upgraded(s) == IF s = NoStore THEN s ELSE [s EXCEPT !.old = FALSE]

Restoring(c, op) == [Idle EXCEPT !.op = op, !.pc = "getStore", !.store = vault.store]

BeginRestore(c) ==
    /\ May(c, "restore")
    /\ call' = [call EXCEPT ![c] = Restoring(c, "restore")]
    /\ UNCHANGED <<memory, vault, page, crashes>>

BeginEnable(c) ==
    /\ May(c, "enable")
    /\ Status = "NOTLOADED"
    /\ call' = [call EXCEPT ![c] = Restoring(c, "enable")]
    /\ UNCHANGED <<memory, vault, page, crashes>>

GotStore(c) ==
    /\ At(c, "getStore")
    /\ keyStore' = call[c].store
    /\ call' = [call EXCEPT ![c].pc = "getMulti", ![c].list = vault.multi]
    /\ UNCHANGED <<loaded, multi, password, secret, vault, page, crashes>>

(* The end of restore(): a create() goes on to its check.                  *)
LoadedBy(c, calls) ==
    /\ loaded' = TRUE
    /\ page' = (page \/ call[c].op = "restore")
    /\ call' = [calls EXCEPT ![c] = IF @.op = "create" THEN [@ EXCEPT !.pc = "check"] ELSE Idle]

(* Legacy key stores are moved to the current version and saved.           *)
Upgrade(c, list, calls) ==
    /\ keyStore' = Upgraded(keyStore)
    /\ multi' = [i \in DOMAIN list |-> Upgraded(list[i])]
    /\ IF keyStore' = keyStore /\ multi' = list
       THEN LoadedBy(c, calls) /\ UNCHANGED vault
       ELSE /\ vault' = [vault EXCEPT !.store = keyStore']
            /\ call' = [calls EXCEPT ![c].pc = "upgradeStore"]
            /\ UNCHANGED <<loaded, page>>

GotMulti(c) ==
    /\ At(c, "getMulti")
    /\ call[c].list # Absent
    /\ Upgrade(c, call[c].list, Detached(c))
    /\ UNCHANGED <<password, secret, crashes>>

(* No list was ever saved: the one of a version without it starts here.    *)
GotNoMulti(c) ==
    /\ At(c, "getMulti")
    /\ call[c].list = Absent
    /\ IF call[c].store = NoStore
       THEN /\ multi' = <<>>
            /\ vault' = [vault EXCEPT !.store = keyStore]
            /\ call' = [Detached(c) EXCEPT ![c].pc = "adoptStore"]
       ELSE /\ vault.number < MaxNumber
            /\ call' = [call EXCEPT ![c].pc = "adoptNumber", ![c].num = vault.number + 1]
            /\ UNCHANGED <<multi, vault>>
    /\ UNCHANGED <<loaded, keyStore, password, secret, page, crashes>>

(* getIncrementalNumber() read the counter when the call began to wait.    *)
NumberNotWritten(c) ==
    /\ At(c, "getNumber") \/ At(c, "adoptNumber")
    /\ Goto(c, IF At(c, "getNumber") THEN "encrypt" ELSE "setNumber")
    /\ UNCHANGED <<memory, vault, page, crashes>>

WriteNumber(c) ==
    /\ At(c, "getNumber") \/ At(c, "adoptNumber")
    /\ vault' = [vault EXCEPT !.number = call[c].num]
    /\ Goto(c, IF At(c, "getNumber") THEN "encrypt" ELSE "setNumber")
    /\ UNCHANGED <<memory, page, crashes>>

AdoptSingleStore(c) ==
    /\ At(c, "setNumber")
    /\ LET s == [call[c].store EXCEPT !.id = call[c].num]
       IN  /\ keyStore' = IF keyStore = call[c].store THEN s ELSE keyStore
           /\ multi' = <<s>>
           /\ vault' = [vault EXCEPT !.store = keyStore']
    /\ call' = [Detached(c) EXCEPT ![c].pc = "adoptStore"]
    /\ UNCHANGED <<loaded, password, secret, page, crashes>>

AdoptedStoreSaved(c) ==
    /\ At(c, "adoptStore")
    /\ vault' = [vault EXCEPT !.multi = multi]
    /\ Goto(c, "adoptMulti")
    /\ UNCHANGED <<memory, page, crashes>>

AdoptedListSaved(c) ==
    /\ At(c, "adoptMulti")
    /\ Upgrade(c, multi, call)
    /\ UNCHANGED <<password, secret, crashes>>

UpgradeStoreSaved(c) ==
    /\ At(c, "upgradeStore")
    /\ vault' = [vault EXCEPT !.multi = multi]
    /\ Goto(c, "upgradeMulti")
    /\ UNCHANGED <<memory, page, crashes>>

UpgradeListSaved(c) ==
    /\ At(c, "upgradeMulti")
    /\ LoadedBy(c, call)
    /\ UNCHANGED <<keyStore, multi, password, secret, vault, crashes>>

-----------------------------------------------------------------------------
(* save() waits for the write of the selected store, then writes the list. *)
Saving(calls, c) == [calls EXCEPT ![c].pc = "setStore"]

ListNotSaved(c) ==
    /\ At(c, "setStore")
    /\ Return(c)
    /\ UNCHANGED <<memory, vault, page, crashes>>

StoreSaved(c) ==
    /\ At(c, "setStore")
    /\ vault' = [vault EXCEPT !.multi = multi]
    /\ Return(c)
    /\ UNCHANGED <<memory, page, crashes>>

(* create*(): a mnemonic or a private key is loaded before it is encrypted, *)
(* hardware keys when the key store is there.                              *)
CreateChecked(c, create) ==
    IF Status # "EMPTY"
    THEN Return(c) /\ UNCHANGED <<memory, vault>>
    ELSE IF KindOf[create.key] \in Hardware
    THEN /\ call' = [call EXCEPT ![c] = [create EXCEPT !.pc = "device"]]
         /\ UNCHANGED <<memory, vault>>
    ELSE /\ vault.number < MaxNumber
         /\ secret' = Holding(create.key)
         /\ call' = [call EXCEPT ![c] = [create EXCEPT !.pc = "getNumber", !.num = vault.number + 1]]
         /\ UNCHANGED <<loaded, keyStore, multi, password, vault>>

CreateUnrestored(c, k, p) ==
    /\ page /\ May(c, "create")
    /\ LET create == [Idle EXCEPT !.op = "create", !.key = k, !.pw = p]
       IN  IF Status \notin {"NOTLOADED", "EMPTY"}
           THEN Return(c) /\ UNCHANGED <<memory, vault>>
           ELSE /\ vault.number < MaxNumber
                /\ secret' = Holding(k)
                /\ call' = [call EXCEPT ![c] = [create EXCEPT !.pc = "getNumber", !.num = vault.number + 1]]
                /\ UNCHANGED <<loaded, keyStore, multi, password, vault>>
    /\ UNCHANGED <<page, crashes>>

BeginCreate(c, k, p) ==
    /\ page /\ May(c, "create")
    /\ LET create == [Idle EXCEPT !.op = "create", !.key = k, !.pw = p]
       IN  IF Status = "NOTLOADED"
           THEN /\ call' = [call EXCEPT ![c] = [create EXCEPT !.pc = "getStore", !.store = vault.store]]
                /\ UNCHANGED <<memory, vault>>
           ELSE CreateChecked(c, create)
    /\ UNCHANGED <<page, crashes>>

CheckCreate(c) ==
    /\ At(c, "check")
    /\ CreateChecked(c, [call[c] EXCEPT !.store = NoStore, !.list = <<>>])
    /\ UNCHANGED <<page, crashes>>

(* The key store that encrypting the key of call c under pw gives.         *)
Ciphertext(id, k, p) == [id |-> id, key |-> k, pw |-> p, typed |-> TRUE, old |-> FALSE]
Encrypted(c) == Ciphertext(call[c].num, call[c].key, call[c].pw)

(* multiKeyStore.push(): the array stays the same.                         *)
PushedBeforeSelected(c) == Append(multi, keyStore)
NotPushed(c) == multi
Pushed(c) == Append(multi, Encrypted(c))

FinishCreate(c) ==
    /\ At(c, "encrypt") /\ call[c].op = "create"
    /\ keyStore' = Encrypted(c)
    /\ multi' = Pushed(c)
    /\ password' = call[c].pw
    /\ secret' = IF KindOf[call[c].key] \in Hardware THEN Holding(call[c].key) ELSE secret
    /\ vault' = [vault EXCEPT !.store = keyStore']
    /\ call' = Saving(call, c)
    /\ UNCHANGED <<loaded, page, crashes>>

(* add*(): a hardware key asks the device first and reads the password     *)
(* when the device has answered.                                           *)
BeginAdd(c, k) ==
    /\ page /\ May(c, "add")
    /\ Status = "UNLOCKED" /\ password # NoPassword
    /\ LET add == [Idle EXCEPT !.op = "add", !.key = k]
       IN  IF KindOf[k] \in Hardware
           THEN call' = [call EXCEPT ![c] = [add EXCEPT !.pc = "device"]]
           ELSE /\ vault.number < MaxNumber
                /\ call' = [call EXCEPT ![c] = [add EXCEPT !.pc = "getNumber", !.pw = password,
                                                          !.num = vault.number + 1]]
    /\ UNCHANGED <<memory, vault, page, crashes>>

DeviceAnswers(c) ==
    /\ At(c, "device") /\ call[c].op \in {"create", "add"}
    /\ vault.number < MaxNumber
    /\ call' = [call EXCEPT ![c].pc = "getNumber", ![c].num = vault.number + 1,
                            ![c].pw = IF call[c].op = "add" THEN password ELSE @]
    /\ UNCHANGED <<memory, vault, page, crashes>>

DeviceFails(c) ==
    /\ At(c, "device")
    /\ Return(c)
    /\ UNCHANGED <<memory, vault, page, crashes>>

FinishAdd(c) ==
    /\ At(c, "encrypt") /\ call[c].op = "add"
    /\ multi' = Pushed(c)
    /\ vault' = [vault EXCEPT !.store = keyStore]
    /\ call' = Saving(call, c)
    /\ UNCHANGED <<loaded, keyStore, password, secret, page, crashes>>

-----------------------------------------------------------------------------
Lock ==
    /\ Status = "UNLOCKED"
    /\ secret' = {}
    /\ password' = NoPassword
    /\ UNCHANGED <<loaded, keyStore, multi, vault, call, page, crashes>>

(* unlock() checks no status: it decrypts the store selected when called.  *)
BeginUnlock(c, p) ==
    /\ page /\ May(c, "unlock")
    /\ keyStore # NoStore
    /\ call' = [call EXCEPT ![c] = [Idle EXCEPT !.op = "unlock", !.pc = "decrypt",
                                                !.store = keyStore, !.pw = p]]
    /\ UNCHANGED <<memory, vault, page, crashes>>

Opens(c, s) == s.pw = call[c].pw

OpenKeepsPassword(c, s) == secret' = Holding(s.key) /\ UNCHANGED password

Open(c, s) ==
    /\ secret' = Holding(s.key)
    /\ password' = call[c].pw

FinishUnlock(c) ==
    /\ At(c, "decrypt") /\ call[c].op = "unlock"
    /\ IF Opens(c, call[c].store) THEN Open(c, call[c].store) ELSE UNCHANGED <<secret, password>>
    /\ Return(c)
    /\ UNCHANGED <<loaded, keyStore, multi, vault, page, crashes>>

(* changeKeyStoreFromMultiKeyStore() selects first and decrypts then.      *)
BeginChange(c, i) ==
    /\ page /\ May(c, "change")
    /\ Status = "UNLOCKED" /\ password # NoPassword
    /\ keyStore' = multi[i]
    /\ call' = [call EXCEPT ![c] = [Idle EXCEPT !.op = "change", !.pc = "decrypt",
                                                !.store = multi[i], !.pw = password]]
    /\ UNCHANGED <<loaded, multi, password, secret, vault, page, crashes>>

FinishChange(c) ==
    /\ At(c, "decrypt") /\ call[c].op = "change"
    /\ IF Opens(c, call[c].store)
       THEN /\ Open(c, call[c].store)
            /\ vault' = [vault EXCEPT !.store = keyStore]
            /\ call' = Saving(call, c)
       ELSE Return(c) /\ UNCHANGED <<secret, password, vault>>
    /\ UNCHANGED <<loaded, keyStore, multi, page, crashes>>

(* deleteKeyRing() computes the remaining list before it waits.            *)
BeginDelete(c, i) ==
    /\ page /\ May(c, "delete")
    /\ Status = "UNLOCKED" /\ password # NoPassword
    /\ call' = [call EXCEPT ![c] = [Idle EXCEPT !.op = "delete", !.pc = "decrypt", !.pw = password,
                                                !.store = multi[i], !.list = RemoveAt(multi, i)]]
    /\ UNCHANGED <<memory, vault, page, crashes>>

DeleteFrom(c, selected) ==
    /\ multi' = call[c].list
    /\ keyStore' = selected
    /\ vault' = [vault EXCEPT !.store = selected]
    /\ call' = Saving(Detached(c), c)

DeleteOther(c) ==
    /\ ~IsSelected(call[c].store)
    /\ DeleteFrom(c, keyStore)
    /\ UNCHANGED <<secret, password>>

DeleteLast(c) ==
    /\ IsSelected(call[c].store)
    /\ call[c].list = <<>>
    /\ secret' = {}
    /\ DeleteFrom(c, NoStore)
    /\ UNCHANGED password

(* The selected store: lock(), which throws when locked meanwhile, then    *)
(* select the first of the others and unlock() it.                         *)
DeleteSelected(c) ==
    /\ IsSelected(call[c].store)
    /\ call[c].list # <<>>
    /\ IF Status # "UNLOCKED"
       THEN Return(c) /\ UNCHANGED <<keyStore, secret, password>>
       ELSE /\ secret' = {}
            /\ password' = NoPassword
            /\ keyStore' = Head(call[c].list)
            /\ Goto(c, "reopen")
    /\ UNCHANGED <<multi, vault>>

DeleteRefused(c) == Return(c) /\ UNCHANGED <<keyStore, multi, secret, password, vault>>

FinishDelete(c) ==
    /\ At(c, "decrypt") /\ call[c].op = "delete"
    /\ IF Opens(c, call[c].store)
       THEN DeleteOther(c) \/ DeleteLast(c) \/ DeleteSelected(c)
       ELSE DeleteRefused(c)
    /\ UNCHANGED <<loaded, page, crashes>>

ReopenAfterDelete(c) ==
    /\ At(c, "reopen")
    /\ IF Opens(c, Head(call[c].list))
       THEN /\ Open(c, Head(call[c].list))
            /\ DeleteFrom(c, keyStore)
       ELSE DeleteRefused(c)
    /\ UNCHANGED <<loaded, page, crashes>>

(* updateNameKeyRing(): the selected store becomes the one of the list.    *)
Rename(c, i) ==
    /\ page /\ May(c, "rename")
    /\ Status = "UNLOCKED"
    /\ keyStore' = Reselected(multi[i])
    /\ vault' = [vault EXCEPT !.store = keyStore']
    /\ call' = [call EXCEPT ![c] = [Idle EXCEPT !.op = "rename", !.pc = "setStore"]]
    /\ UNCHANGED <<loaded, multi, password, secret, page, crashes>>

(* sign() with the first use of a coin type, or setKeyStoreCoinType().     *)
SetCoinType(c) ==
    /\ May(c, "setCoinType")
    /\ page \/ Status = "UNLOCKED"
    /\ keyStore # NoStore
    /\ vault' = [vault EXCEPT !.store = keyStore]
    /\ call' = [call EXCEPT ![c] = [Idle EXCEPT !.op = "setCoinType", !.pc = "setStore"]]
    /\ UNCHANGED <<memory, page, crashes>>

(* removeAllKeyStoreCoinType(), when a chain is removed, in any status.    *)
RemoveCoinTypes(c) ==
    /\ page /\ May(c, "removeCoinTypes")
    /\ vault' = [vault EXCEPT !.store = keyStore]
    /\ call' = [call EXCEPT ![c] = [Idle EXCEPT !.op = "removeCoinTypes", !.pc = "setStore"]]
    /\ UNCHANGED <<memory, page, crashes>>

-----------------------------------------------------------------------------
(* updatePassword(): one key store after the other is decrypted and        *)
(* encrypted again; those without a type are skipped.                      *)
Iterated(c) == IF call[c].live THEN multi ELSE call[c].src

NextTyped(s, from) ==
    LET typed == {i \in from..Len(s) : s[i].typed}
    IN  IF typed = {} THEN 0 ELSE CHOOSE i \in typed : \A j \in typed : i <= j

PasswordReplaced(c, list, new) ==
    /\ multi' = list
    /\ password' = new
    /\ vault' = [vault EXCEPT !.store = keyStore']
    /\ call' = [Detached(c) EXCEPT ![c] = [Idle EXCEPT !.op = "updatePassword", !.pc = "setStore"]]

BeginUpdatePassword(c, new) ==
    /\ page /\ May(c, "updatePassword")
    /\ password # NoPassword /\ new # password
    /\ UNCHANGED keyStore
    /\ LET i == NextTyped(multi, 1)
       IN  IF i = 0
           THEN PasswordReplaced(c, <<>>, new)
           ELSE /\ call' = [call EXCEPT ![c] =
                             [Idle EXCEPT !.op = "updatePassword", !.pc = "reencrypt", !.pw = password,
                                          !.new = new, !.num = i, !.store = multi[i], !.live = TRUE]]
                /\ UNCHANGED <<multi, password, vault>>
    /\ UNCHANGED <<loaded, secret, page, crashes>>

Reencrypt(c) ==
    /\ At(c, "reencrypt")
    /\ LET new  == [call[c].store EXCEPT !.pw = call[c].new]
           list == Append(call[c].list, new)
           i    == NextTyped(Iterated(c), call[c].num + 1)
       IN  IF ~Opens(c, call[c].store)
           THEN Return(c) /\ UNCHANGED <<keyStore, multi, password, vault>>
           ELSE /\ keyStore' = Reselected(new)
                /\ IF i = 0
                   THEN PasswordReplaced(c, list, call[c].new)
                   ELSE /\ call' = [call EXCEPT ![c].list = list, ![c].num = i,
                                                ![c].store = Iterated(c)[i]]
                        /\ UNCHANGED <<multi, password, vault>>
    /\ UNCHANGED <<loaded, secret, page, crashes>>

-----------------------------------------------------------------------------
(* initializeNonDefaultLedgerApp() stores one more public key of the       *)
(* selected Ledger; everything but the device is read when it answers: the *)
(* new key joins those of the Ledger unlocked by then, if there is one.    *)
JoinedWith(k) ==
    IF \E j \in secret : KindOf[j] = "ledger" THEN CHOOSE j \in secret : KindOf[j] = "ledger" ELSE k

BeginInitLedgerApp(c) ==
    /\ page /\ May(c, "initLedgerApp")
    /\ keyStore # NoStore /\ KindOf[keyStore.key] = "ledger" /\ CanLoadKey
    /\ call' = [call EXCEPT ![c] = [Idle EXCEPT !.op = "initLedgerApp", !.pc = "device",
                                                !.key = keyStore.key]]
    /\ UNCHANGED <<memory, vault, page, crashes>>

NewIdLedgerAppAnswers(c) ==
    /\ At(c, "device") /\ call[c].op = "initLedgerApp"
    /\ IF keyStore = NoStore
       THEN Return(c)
       ELSE call' = [call EXCEPT ![c].pc = "encrypt",
                                 ![c].store = Ciphertext(0, call[c].key, password)]
    /\ UNCHANGED <<memory, vault, page, crashes>>

LedgerAppAnswers(c) ==
    /\ At(c, "device") /\ call[c].op = "initLedgerApp"
    /\ IF keyStore = NoStore
       THEN Return(c)
       ELSE call' = [call EXCEPT ![c].pc = "encrypt", ![c].key = JoinedWith(@),
                                 ![c].store = Ciphertext(keyStore.id, JoinedWith(call[c].key), password)]
    /\ UNCHANGED <<memory, vault, page, crashes>>

FinishInitLedgerApp(c) ==
    /\ At(c, "encrypt") /\ call[c].op = "initLedgerApp"
    /\ LET same == {i \in DOMAIN multi : IsSelected(multi[i])}
           new  == call[c].store
       IN  IF same = {}
           THEN Return(c) /\ UNCHANGED <<keyStore, multi, secret, vault>>
           ELSE /\ secret' = Holding(call[c].key)
                /\ keyStore' = new
                /\ \E i \in same : /\ \A j \in same : j <= i
                                   /\ multi' = [multi EXCEPT ![i] = new]
                /\ vault' = [vault EXCEPT !.store = new]
                /\ call' = Saving(call, c)
    /\ UNCHANGED <<loaded, password, page, crashes>>

-----------------------------------------------------------------------------
(* The background is stopped and started again: with the browser, or alone *)
(* as a service worker is, and then the pages stay as they are.            *)
Crash ==
    /\ crashes < MaxCrashes
    /\ crashes' = crashes + 1
    /\ loaded' = FALSE
    /\ keyStore' = NoStore
    /\ multi' = <<>>
    /\ password' = NoPassword
    /\ secret' = {}
    /\ call' = [c \in Slots |-> Idle]
    /\ page' = (page /\ PagesSurvive)
    /\ UNCHANGED vault

Restore(c) ==
    \/ BeginRestore(c) \/ BeginEnable(c) \/ GotStore(c) \/ GotMulti(c) \/ GotNoMulti(c)
    \/ AdoptSingleStore(c) \/ AdoptedStoreSaved(c) \/ AdoptedListSaved(c)
    \/ UpgradeStoreSaved(c) \/ UpgradeListSaved(c)

CreateOrAdd(c) ==
    \/ \E k \in Keys, p \in Passwords : BeginCreate(c, k, p)
    \/ \E k \in Keys : BeginAdd(c, k)
    \/ CheckCreate(c) \/ WriteNumber(c) \/ DeviceAnswers(c) \/ DeviceFails(c)
    \/ FinishCreate(c) \/ FinishAdd(c)

Select(c) ==
    \/ \E p \in Passwords : BeginUnlock(c, p)
    \/ \E i \in DOMAIN multi : BeginChange(c, i) \/ BeginDelete(c, i) \/ Rename(c, i)
    \/ FinishUnlock(c) \/ FinishChange(c) \/ FinishDelete(c) \/ ReopenAfterDelete(c)

Rewrite(c) ==
    \/ \E p \in Passwords : BeginUpdatePassword(c, p)
    \/ Reencrypt(c)
    \/ BeginInitLedgerApp(c) \/ LedgerAppAnswers(c) \/ FinishInitLedgerApp(c)
    \/ SetCoinType(c) \/ RemoveCoinTypes(c) \/ StoreSaved(c)

Next ==
    \/ \E c \in Slots : Restore(c) \/ CreateOrAdd(c) \/ Select(c) \/ Rewrite(c)
    \/ Lock
    \/ Crash

Spec == Init /\ [][Next]_vars

-----------------------------------------------------------------------------
Calls == [op: Operations \cup {"none"}, pc: Points, key: Keys \cup {NoKey},
          pw: Passwords \cup {NoPassword}, new: Passwords \cup {NoPassword},
          store: Stores \cup {NoStore}, list: Seq(Stores) \cup {Absent}, src: Seq(Stores),
          live: BOOLEAN, num: Nat]

TypeOK ==
    /\ loaded \in BOOLEAN
    /\ keyStore \in Stores \cup {NoStore}
    /\ multi \in Seq(Stores)
    /\ password \in Passwords \cup {NoPassword}
    /\ secret \in SUBSET Keys
    /\ vault \in Vaults
    /\ call \in [Slots -> Calls]
    /\ page \in BOOLEAN
    /\ crashes \in Nat

Running(op) == \E c \in Slots : call[c].op = op

(* A wallet that is unlocked remembers the password: add*() and the change *)
(* of account encrypt and decrypt with it.  checkPassword() tells a locked *)
(* wallet by the missing password.                                         *)
UnlockedHasPassword == Status = "UNLOCKED" => password # NoPassword

(* Signing and addresses come from the account that is shown as selected,  *)
(* except while changeKeyStoreFromMultiKeyStore() is decrypting.           *)
SecretMatchesSelection ==
    Status = "UNLOCKED" /\ ~Running("change") => keyStore.key \in secret

(* The password that unlocked the wallet opens every account of it: no     *)
(* interleaving of add, delete, change, lock and updatePassword leaves a   *)
(* key store behind under another password.                                *)
PasswordOpensAll ==
    Status = "UNLOCKED" /\ ~Running("updatePassword") =>
        /\ keyStore.pw = password
        /\ \A i \in DOMAIN multi : multi[i].pw = password

(* The selected key store is one of the list, with the same ciphertext:    *)
(* the two copies that save() persists never drift apart.                  *)
SelectedIsListed ==
    loaded /\ keyStore # NoStore /\ ~Running("updatePassword")
      => \E i \in DOMAIN multi : multi[i] = keyStore

(* getKeyStoreId() identifies a key store.                                 *)
IdsUnique == \A i, j \in DOMAIN multi : multi[i].id = multi[j].id => i = j

(* When nothing is in progress, what is persisted is what is in memory,    *)
(* also after operations that failed or were overtaken by a lock.          *)
SettledPersisted ==
    loaded /\ (\A c \in Slots : At(c, "idle")) => vault.store = keyStore /\ vault.multi = multi

StoredKeys(list) == IF list = Absent THEN {} ELSE {list[i].key : i \in DOMAIN list}

(* A key that was saved is gone from the saved list only when the user     *)
(* deletes that account.                                                   *)
OnlyDeletedKeysLeave ==
    [][\A k \in StoredKeys(vault.multi) \ StoredKeys(vault'.multi) :
          \E c \in Slots : call[c].op = "delete" /\ call[c].store.key = k]_vars

(* initializeNonDefaultLedgerApp(): "Create a new keystore that is         *)
(* equivalent in all ways, except for the ciphertext".                     *)
LedgerAppKeepsAccounts ==
    [][\A c \in Slots : FinishInitLedgerApp(c) =>
          \A i \in DOMAIN multi : multi'[i].id = multi[i].id /\ multi'[i].key = multi[i].key]_vars
=============================================================================
