# ASI Alliance Wallet: specifications

TLA+ specifications of the wallet's background services and of the pages that
talk to them. TLC checks them on small instances; TLAPS proves theorems about
them for every instance. Paths below are relative to the repository's root
(`packages/...`).

Contents: [1 The system](#1-the-system) · [2 The modules](#2-the-modules) ·
[3 The background](#3-the-background) (`KeyRing`, `Interaction`, `Permission`, `Signing`, `ChainInfos`, `LedgerInit`) ·
[4 The pages](#4-the-pages) (`ObservableQuery`, `TxTrace`, `TxConfig`) ·
[5 Bounds and assumptions](#5-bounds-and-assumptions) ·
[6 Fairness](#6-fairness) · [7 The runs](#7-the-runs) · [8 Theorems](#8-theorems) ·
[9 What disagrees with the documents](#9-what-disagrees-with-the-documents) ·
[10 Behaviours seen](#10-behaviours-seen) ·
[11 Not modelled](#11-not-modelled) · [12 The plan](#12-the-plan)

## 1 The system

The wallet is a browser extension (`fetch-extension`) and a mobile app
(`mobile`) around one *background* (`packages/background`), which holds the keys
and serves messages. Web pages reach it through a provider that is injected
into them (`provider`), the wallet's own pages directly. `router` carries the
messages: it waits until the background is initialised, runs the guards, and
calls the handler of the message. Handlers are async functions of one thread.
**Nothing serialises them**: each gives way at every `await`, and any other
handler may run there. In the extension the background is a service worker,
which the browser stops and starts at will; what survives is what was written
to the key-value store.

| Component | State it keeps | Operations | Talks to | What is hard | What makes it correct |
|---|---|---|---|---|---|
| Key ring, `keyring/keyring.ts`, `crypto.ts` | selected key store, list of key stores, password, decrypted secrets; two entries and a counter in the store | restore, enable, create, lock, unlock, add, change, delete, rename, update the password, coin types, Ledger apps | store, Ledger, Keystone, chains service, pages | methods that wait several times and read their state again; two writes to save; restarts; a device that answers late | the secret in use is that of the account that is shown; the password opens every account; no account is lost; ids are unique; memory and store agree |
| Interaction service, `interaction/service.ts`, `router-extension/src/env`, `popup`, `stores/src/core/interaction` | requests that wait, their resolvers; the queue of popup openings; each page's store | waitApprove, approve, reject, open or replace a page, push, rejectAll | every service that asks the user; the popup window and the side panel | one popup for requests that overlap; pages that are closed, left, replaced; loops over several requests | a promise is settled once, by the first verdict; every request is answered |
| Permission service, `permission/service.ts` | two maps in memory and in the store | ask, grant, check, disable, list, remove; handlers of a removed chain | key ring (enable), interaction, chains | what is missing is computed before the user is asked; two writes to save; entries of removed chains | nobody holds what the user did not approve; a grant is kept until it is removed |
| Signing requests, `keyring/service.ts` | nothing of their own | amino, direct, EIP-712, ICNS | key ring, interaction, sign store | the key is read before the approval, the signature made after it | the signature is of the key that was returned and shown; the page hears of the end |
| Chains service, `chains/service.ts` | suggested chains in the store, a cache of all chain infos, the selected chain | getChainInfos, suggest, add, remove, set endpoints | updater, permission, interaction | a cache that is filled over several awaits; read-change-write of a list; a removal in three writes | the cache is what the store says; no chain is listed twice; what pages are told changes at one moment per message |
| Chain updater, `updater/service.ts` | updated chain properties in the store | tryUpdateChainInfo, putUpdatedPropertyToChainInfo, clear | chains, nodes, a repository | writes after a fetch | what was learnt of a chain goes with it |
| Tokens, `tokens/service.ts` | tokens per chain and per account | suggestToken, addToken, removeToken, clearTokens | key ring, chains, permission, interaction | the account may change between read and write | tokens stay with their account |
| Auto lock, `auto-lock-account/service.ts` | a timer, its duration | start, stop, lock | key ring | timers that outlive the unlocking they belong to | an idle wallet locks, a fresh one does not |
| Ledger, `ledger/service.ts`, `ledger.ts`, `stores/src/core/interaction/ledger.ts` | web USB/HID or bluetooth connection, an aborter; the dialogs of the pages | useLedger with retries, getPublicKey, sign; resumeAll, abortAll | interaction, device | a dialog with a time limit; a new request aborts the one before; dialogs of calls that are over | one call uses the device at a time; whoever waits for the user can be answered; every call ends |
| Keystone, `keystone/service.ts` | nothing | getPubkey, sign by QR codes | interaction | — | — |
| Secret wasm, `secret-wasm/service.ts` | cached seeds, a debouncer | getPubkey, encrypt, decrypt | key ring, interaction | the account may change between the address and the signature | a seed belongs to its address |
| Transactions, `tx/service.ts`, `cosmos/src/tx-tracer`, `stores/src/account/cosmos-tx-tracer.ts` | a web socket and the promises that wait for it; a timer and a poll | sendTx, traceTx, startPolling, close | nodes | a transaction that gets into a block between a query and a subscription; a socket that closes; a poll that is under way at the time limit | a trace is settled with a transaction that is in a block, and leaves nothing open |
| Address book, phishing list, persistent memory, analytics, side panel, messaging | small lists, switches and caches | reads and writes | — | — | — |
| Router, `router`, `router-extension` | registered handlers, guards | handle, listen | all | messages before the initialisation | no handler runs before it |
| Providers, WalletConnect | promises of the web page | one per message | router | — | — |
| Queries of the pages, `stores/src/common/query/query.ts` | the response shown, calls of `fetch()` that are not over, saved responses | start, stop, fetch, setUrl, waitFreshResponse | nodes, store | each fetch cancels the one before; urls change under requests; `onStart()` and the controller make it wait | one request at a time; no response under another url; whoever waits gets an answer |
| Transaction hooks, `hooks/src/tx` | what is typed; the gas simulator's state for each kind of currency | amounts, fees, gas; simulations | nodes, store | amount, fee, gas and simulation depend on each other; answers for what is not shown any more | the gas is that of what will be sent; the maximum can be paid; it comes to rest |
| Account and activity stores, `stores/src/account`, `activity` | state of the pages | sending, listing | nodes, background | — | — |
| Numbers, `unit` | none | decimals of 18 places | — | rounding, negative numbers, formatting | arithmetic |
| Crypto, chain ids, addresses | none | values | — | — | — |
| User interfaces | React state | — | background | — | — |

Shared state is the key-value store (one prefix per service); the services call
each other directly and through callbacks (`addChainRemovedHandler` is how the
key ring, the permission service, tokens and the updater hear of a removed
chain). The hazards of this code, each at its line, are in `PROJECT.json`. A hazard without properties there is one
that no run catches: it is outside the model, or shows only outside the conditions of section 5, and then section 10 has it.

## 2 The modules

| Module | What it is | Composes or extends |
|---|---|---|
| `KeyRing` | the vault, its methods from await to await, its store, restarts | |
| `MCKeyRing` | instances: which slot runs what, contents of the store when the wallet is installed or updated | `KeyRing` |
| `KeyRingProofs` | all safety properties of the vault, and of the Ledger's dialogs | `KeyRing`, `LedgerInit` |
| `Approval` | abstract: what `waitApprove()` promises | |
| `Interaction` | the service, the way to the page, the page's store, users | refines `Approval` |
| `MCInteraction` | instances: which request is of which kind | `Interaction` |
| `InteractionProofs` | the refinement and type correctness | `Interaction` |
| `Permission` | the permission service and what it needs of chains and users | |
| `MCPermission` | instances: origins and what they may send | `Permission` |
| `PermissionProofs` | type correctness, and both safety properties | `Permission` |
| `Signing` | the signing requests from the key they read to the signature, and the pages that wait for its end | |
| `MCSigning` | instances: what each request asks for, accounts and chains | `Signing` |
| `SigningProofs` | type correctness, and that signatures are of the signer | `Signing` |
| `ChainRegister` | abstract: what the chains service promises to the pages | |
| `ChainInfos` | chains service and updater, their store and cache, restarts | refines `ChainRegister` |
| `MCChainInfos` | instances | `ChainInfos` |
| `ChainInfosProofs` | the refinement, type correctness, and the three safety properties | `ChainInfos` |
| `LedgerInit` | the calls of `useLedger()` on a phone and the dialogs of the pages | |
| `MCLedgerInit` | instances | `LedgerInit` |
| `ObservableQuery` | a query, the pages that look at it, its requests and the saved responses | |
| `MCObservableQuery` | instances | `ObservableQuery` |
| `ObservableQueryProofs` | type correctness of every behaviour; the three safety properties under named conditions | `ObservableQuery` |
| `TxTrace` | a transaction on its way into a block, who traces it, and the node | |
| `MCTxTrace` | instances | `TxTrace` |
| `TxTraceProofs` | type correctness, both safety properties, and that no block is missed | `TxTrace` |
| `TxConfig` | amount, gas, fee and gas simulator of a page that sends | |
| `MCTxConfig` | instances: currencies, prices, what the node answers | `TxConfig` |
| `TxConfigProofs` | type correctness, keys of estimates, the maximum, and the gas of the transaction | `TxConfig` |

Conventions. An async method is cut at its awaits: each piece is an action, the
`pc` of a call says what it waits for and the record of a call holds the locals
that the code after the await reads. Everything between two awaits happens in
one action, because nothing else can run there. `set()` of the key-value store
takes its value when it is called and its reply comes later; so the first
`set()` of a save is in the action before it, the second in the action that
receives the first reply, and a restart may come between them. Operators whose
name is that of no code (`NotPushed`, `LastVerdictWins`, `AddDetached`, ...)
are the mutants: forms of the operator after them with a plausible mistake, for
showing that a property notices it. No action uses them. In the pages, a reaction
of MobX runs before the call that changed something returns, and a microtask before
any click, timer or reply: both belong to the step that caused them.

## 3 The background

### KeyRing

**State.** `keyStore` and `multi` are `this.keyStore` and `this.multiKeyStore`;
`password` is `this.password`; `secret` is the set of secrets held in
`_privateKey`, `_mnemonicMasterSeed`, `_ledgerPublicKeyCache` and
`_keystonePublicKey`; `loaded` is `this.loaded`; `vault` is the store
(`key-store`, `key-multi-store`, `incrementalNumber`). `Status` is the getter of
that name, `CanLoadKey` the checks of `loadPrivKey()`. A key store is its id,
the secret it decrypts to and the password it was encrypted with; decrypting
succeeds iff the passwords agree, which is what the mac of `crypto.ts` decides.
Whether a key store names its type and whether its version is one that
`restore()` moves on are kept, because `restore()` and `updatePassword()` depend
on them.

**Actions.** `BeginRestore` ... `UpgradeListSaved` are `restore()` piece by
piece, with the list made from a single key store and the move of old
versions; `BeginCreate`, `CheckCreate`, `WriteNumber`, `DeviceAnswers`,
`FinishCreate` are `createMnemonicKey()`, `createPrivateKey()`,
`createLedgerKey()`, `createKeystoneKey()`, and with `BeginAdd` and `FinishAdd` the four
`add*()`; `Lock` is `lock()`, which the auto-lock, the device's lock event
and the user call at any moment; `BeginUnlock`/`FinishUnlock`,
`BeginChange`/`FinishChange`, `BeginDelete`/`FinishDelete`/`ReopenAfterDelete`,
`Rename`, `BeginUpdatePassword`/`Reencrypt`, `SetCoinType`, `RemoveCoinTypes`,
`BeginInitLedgerApp`/`LedgerAppAnswers`/`FinishInitLedgerApp` are the methods of
those names; `StoreSaved` is the second half of every `save()`. `Crash` is a
restart of the browser or of the service worker alone (`PagesSurvive`).
JavaScript's arrays matter in one place: `updatePassword()` iterates over the
array that `multiKeyStore` was when it began, which other calls may have
replaced (`Detached`) or pushed to (`live`).

**Properties.** `UnlockedHasPassword`, `SecretMatchesSelection`,
`PasswordOpensAll`, `SelectedIsListed`, `IdsUnique`,
`SettledPersisted` relate the parts of the state to each other;
`OnlyDeletedKeysLeave` and `LedgerAppKeepsAccounts` say what a step may never do. Three of them except the operation that breaks them on
its way (`Running("change")`, `Running("updatePassword")`): the code selects
before it decrypts and re-encrypts one key store after the other, and the
properties ask that it has put things right when it returns.

### Interaction and Approval

**State.** `waitingMap` and `resolverMap` are the service's maps, `answer` the
promise that `waitApprove()` returned; `queue` is `openPopupQueue`, `stage` how
far `requestInteraction()` of a request has come; `route`, `loaded`, `datas` are
what the popup window and the side panel show, whether their tab is complete
and the data of their `InteractionStore`; `sweeps` are loops such as
`rejectAll()` that send one message and wait for its reply before the next;
`signing` and `closer` are the requests whose page waits for the end of the
signing, or closes itself after the reply. `mail` is what the pages sent and
the background has not handled. `decision` is history.

**Actions.** `WaitApprove` and `ApproveOrReject` are the service;
`OpenWindow`, `ReplacePage`, `TabComplete`, `PushData` are the way to the page
(`openPopupWindow`, `requestInteraction`, the queue that opens one window at a
time); `Approve`, `GrantOrDeny`, `Unlock` are the sign, access and lock page;
`SweepNext` a step of a loop; `SignEnds`, `ClosesItself`, `StaysOpen` what
follows a verdict; `Leave` and `CloseWindow` the user going away. Showing another
page starts the clean-up of the one before (`Show`); closing a window starts
the clean-up and stops it after the first message (`Vanish`).

**Approval** states the promise: a request is decided once, by the first
verdict that a page sends, and the promise is settled at most once, with that
decision. `Interaction` implements it with `decision` and `answer` as they are
(`SettledOnceByFirstVerdict == Promise!Spec`). That needs an argument: two
loops may have both sent a verdict, a page that approved rejects on its way
out, and the one that settles the promise must be the one that was sent first.

### Permission

**State.** `permissionMap` is the map of that name for the one type of
permission that the background asks for: its keys and their order (`before`, which
decides what a loop over `Object.keys()` meets first), those whose entry
is `undefined`, and the pairs of chain and origin granted.
`globalPermissionMap` is the set of origins under `get-chain-infos`, `stored` the
two entries of the store, `registered` the chains that `ChainsService` knows.
`approved` and `kept` are history: what the user approved and did not take back, and what was granted
and saved and not removed since.

**Actions.** `Request` to `Check` are `EnableAccessMsg` and
`getChainInfosWithoutEndpoints`: `enable()` of the key ring, what is missing, the chain
infos, the dialog (`Grant`, `Fail`), the two writes of `save()`, and the check of each
chain; `AskForChain`, `Register` are suggesting and switching to a chain, which
grant too; `Disable`, `DisableAll`, `DisableGlobal` are `disable()` with and
without chain ids; `AddOrigin`, `RemoveOrigin`, `RemoveGlobalOrigin` are the
settings page; `RemoveChain` is the handler of a removed chain; `Restart` is
`restore()` in a new service worker. `restore()` is one step, since
`Router.listen()` waits for `initFn()`, which awaits two reads made
after those of `restore()`, and the store answers in order.

What is taken back by a call counts as taken back when the call has returned
(`revokes`), since until then its effects may be on their way; what is granted
counts as kept when its save has returned (`grants`).

### Signing

**State.** `request` holds for each request of a web page where it stands
(`pc`) and its locals: the signer it names, the keys it has read, the chains
whose key it still has to read (`toRead`) or that it still has to sign for
(`toSign`), the key a device was given (`by`). `signatures` are what it made
so far: the key that is returned, and the key that signed. `selected`,
`unlocked` and `coinTypeForChain` are what signing needs of the key ring. `page`
is `SignInteractionStore` in each document of the wallet: `datas`, `loading`, whether an
event `request-sign-end` is there (`ended`), the approvals whose reply is
awaited (`sent`), and who is in `waitEnd()` (`waiters`).
A *key* is an account and what is derived from: the coin type for a mnemonic or a
Keystone, the application for a Ledger, nothing for a private key. That is
all by which two keys of this wallet can differ, so an address, a public key and
a signature are the key they belong to.

**Actions.** `Request`, `ReadKey`, `Refuse` are what the four methods of
`KeyRingService` do before they ask (amino, direct and EIP-712 read one key, ICNS one
of the owner and one for each chain); `Push` is the data reaching a page and the autorun that
rejects all but the first; `Approve`, `GetReply`, `Told` are `approveAndWaitEnd()` and
`waitEnd()`; `Leave` and `Close` the user going away; `Sign`, `Saved` are `sign()`, which sets
the coin type of the chain and waits for the save, or `signEthereum()`, with a secret in
memory; `AskDevice`, `DeviceAnswers`, `DeviceFails` the same with a Ledger or a
Keystone; `Ends` is the `finally` that dispatches the event. ICNS has no such `finally` and its page
does not wait. `Select`, `SetCoinType`, `RemoveCoinTypes`, `LockOrUnlock` are other pages and services.
An event reaches every page at the moment it is dispatched.

**Properties.** `SignatureIsOfSigner`: the key is read before the approval and found
again after it, from the account, the coin type and the kind; that the two agree,
and are of the signer, depends on what `sign()` itself and others change
meanwhile. `PageIsReleased`: a page that approved stops waiting.

### ChainInfos and ChainRegister

**State.** `chainInfos` is the list of suggested chains in the chains service's store, as a bag (no handler looks at
its order; that a chain might be in it twice is what `NoDuplicates` is about); `saved`
holds for each chain the three entries of the updater's store: what the community repository
said, what was learnt of the node, the endpoints that a user set. `cachedChainInfos` is the cache, `fill` the one
promise of `getChainInfos()` that all callers share, with how far it has come for each chain. A
chain info is the sources it is put together from, since every property is about which of them are in it.

**Actions.** `GetChainInfos`, `FillList`, `FillReads`, `FillDone` are `getChainInfos()`;
`Approve`, `Reject`, `WriteAdded` a suggestion, from the look at the chain infos before the dialog to
the one after it; `WriteRemoved`, `SkipLocal`, `ClearLocal`, `ClearUpdated` the writes of a removal;
`Fetched` to `WriteFeatures` are `tryUpdateChainInfo()`, which asks the repository and then the node;
`SetEndpoints`, `ClearAndLook` the settings page; `KeepCache`, `Clear` what each of them does with the cache.
`Restart` is a new service worker between any two writes.

**Properties.** `CacheAgrees`: when nothing is being changed, the cache is what the store
says. `NoDuplicates`, `NoLeftovers`: suggestions wait for the user and updates for a node while chains come
and go. `ImplementsRegister`: `ChainRegister` says what pages are told, the cache or, if there
is none, the store; it changes at one moment for each message, and only as that message says.
All messages that wait for one computation of the cache are answered in one step of the register, since its promise
resolves for all of them at once.

### LedgerInit

**State.** `pc` and `retryCount` are each call's, `previousInitAborter` the call whose `abort()`
the service keeps; `coming` and `datas` are the dialogs that are on their way to, or in, the
`InteractionStore`; `sweeps` are the loops `resumeAll()` and `abortAll()`, which take away all data and send
one answer after the other.

**Actions.** `UseLedger` begins a call and aborts the one before, if that waits for its dialog;
`GotMode`, `Connects`, `InitFails`, `TimesOut`, `Used` are `initLedgerMobile()` up to the
end of what the device was wanted for; `OnInteractionDataReceived`, `ForAll`, `Approve` the pages. The
data of calls that are over stays there, as in the code. Names that `KeyRing` has too begin with an L (`LInit`,
`LNext`, `LTypeOK`), because one module proves theorems of both.

## 4 The pages

### ObservableQuery

**State.** `query` is the object: its url, whether it can be fetched, whether it is started and in
`onStart()`, `isFetching`, the response with `staled`, an error, and the calls of `fetch()` that are not over
(`flows`), each of which waits for the controller, is about to send, has sent, or was cancelled and goes
on in a microtask. `pages` are observers and those in `waitFreshResponse()`; `loads` are the
replies of the store; `saved` are the responses in it, at the beginning those of an earlier run.

**Actions.** `Come`, `Leave` start and stop the query with its first and last observer; `SetUrl`, `Refresh`,
`IntervalFetch`, `OnStartDone` fetch; `Request` is the microtask in which a request is sent, `CancelledEnds`
the `finally` of one that was cancelled; `Ready`, `GoesOn` are the controller; `Answer`, `StrangeAnswer`, `Fails`,
`StaledResponse` the replies.

**Properties.** `OneAtATime`, `ResponsesAreOfUrl` and `WaitGetsFresh` say that no old
answer gets in between, though cancelling is a matter of who resumes first, the key of a response is
computed after the answer, and `isFetching` is set by one call and reset by another; `WaitEnds` that a
wait ends.

### TxTrace

**State.** `committed` are the transactions in a block; `trace` is the promise of each `traceTx()`; `socket`, `waiting`,
`polling` are the web socket, what waits for it, and the loop of `startPolling()`. `toNode`, `toWallet`, `subscribed`
are the connection and the node's end of it, both ways in order. `tmTracer`, `pollTimer`, `closed` are the fields of the one
`CosmosTxTracer`: the *last* tracer and timer only.

**Actions.** `SendTx` and `Notify` are the background, which traces what it broadcasts; `TraceTx`, `FoundWebSocket`,
`NoWebSocket`, `StartPolling`, `Poll`, `PollSucceeds`, `PollFails`, `Timeout`, `Resolve`, `Close` the pages;
`Connect`, `OnOpen`, `OnMessage`, `Lose` the socket; `Commit`, `NodeAnswers` the node.

**Properties.** `CommittedIsFound`: a transaction that gets into a block before, between or after the
question and the subscription is not missed. `ResolvedIsCommitted`: nothing else ends a trace with a
result. `NothingLeftOpen`: a trace that ends closes what it opened. The last two
are about a trace that has the object for itself (`Lonely`); section 10 says what happens otherwise.

### TxConfig

**State.** `form` is what was typed and chosen and the gas, `states` the `GasSimulatorState` of each key,
`flights` the simulations that are not answered, `reads` and `stored` the key-value store of
estimates, `balance` what the queries know. `failed` is history. Amount, gas, fee and their errors
are operators (`Amount`, `Gas`, `Fee`, `AmountError`, `FeeError`), as they are computed values in the code;
`React` is what the five `autorun`s of `GasSimulator` do with a change, in their order.

**Actions.** `SetAmount`, `ToggleIsMax`, `SetFeeType`, `TypeGasAndFee`, `ToggleAuto`, `SelectCurrency` are the user,
the last in the three steps of a render (currency, key, simulator on); `BalanceArrives`, `LoadSaved`,
`Succeed` and `Fail` are the answers.

**Properties.** `GasIsOfLatestTx`: at rest the gas is that of the transaction which would be sent now.
`EstimatesAreOfTheirKey`: no estimate of a contract is used or saved for the native currency. `MaxLeavesTheFee`: the maximum and its fee
can be paid, whatever the fee becomes. `SimulationsEnd`: gas, fee, maximum amount and simulation do not chase
each other for ever.

The pages differ in what they use of this. Transfers over IBC and the bridges have `toggleIsMax()` and one
key for all currencies; the send page has a key for each and computes its maximum itself. The model has all of it at once.

## 5 Bounds and assumptions

**Bounds.** `Slots`/`Calls`/`Callers`: two calls are what every race in this
code needs, one that waits and one that runs meanwhile; in `keyring_serial`
one is a page, the other the services. `Keys` (of `KeyRing`): three, so that an account is
selected, another is listed and one is added or deleted between them; `keyring_restarts`
has one secret of each kind that `Holding` tells apart. `Passwords`:
two, the current and another (wrong, or new). `MaxNumber`: as many ids as the
instance has key stores, so that an id may be reused if the counter is wrong.
`MaxCrashes`: two, so that a restart may hit the repair of the first.
In `signing_pages` one request of each kind: a page is told of another's end, a second
request is rejected by the autorun, and ICNS signs after it has set a coin type. The ICNS list names
the first chain twice, which is the address of the owner that needs no signature.
`MaxOutstanding`: three requests overlap in the crowd, so that a loop has a
middle. `ChainLists`: a single chain of each kind and both in the order in
which the entry that is `undefined` comes first.
`chain_infos` has a chain of each kind, two callers and one restart: a fill that is shared, a removal that is cut in
two, and a suggestion of what was removed. `ledger_init` has three calls, so that the data of two that are over is
beside the one that waits. `observable_query` has three calls of `fetch()`: one under way, the one it
cancelled, the next. `tx_trace` has two transactions: that of the object and one that the background traces. `tx_config`
has three inputs; its safety was also checked with four (834 000 states).
`OfCalls` is a sound symmetry: calls are interchangeable, and no liveness is checked under it.
Every property of a passing run is broken by a mutant of the code under the
bounds of that run (`PROJECT.json`, "mutants"), so the interesting states are in reach.
Where `CHECK_DEADLOCK` is off the system really stops: the bounds on ids, inputs and
requests are used up, or nobody asks for anything.

**Assumptions.** Some hazards are real, and no document says that they cannot bite; then a constant says
what the properties assume, and section 10 what happens without it:

| Constant | Assumes | Why it may be assumed |
|---|---|---|
| `OnePage` in `keyring_serial` | pages wait for the reply of an operation before the next | the forms of the wallet disable themselves until the reply |
| `Calm` of `Interaction` | a user does not close or leave a page that is being opened or is in the middle of a loop; no request comes while a popup is about to close itself | asked of liveness only; safety is checked without it |
| `DisableAfterRemoval = FALSE` | `disable()` without chain ids is not called after a chain was removed | section 9 |
| `AccountStays`, `Calm` of `Signing` | nobody changes the account or its coin types during a request; nobody leaves a page that waits for the end | locking is always allowed |
| `Serial` of `ChainInfos` | one call at a time changes chains; endpoints are not set during a fill of the cache | one page shows one dialog; anything may read meanwhile |
| `Calm` of `LedgerInit` | nobody asks for the device while another call is *connected* to it | nothing in the code ensures it; while the other waits for its dialog, anybody may ask. Types and `DialogIsAnswerable` are proved without it |
| `Calm` of `ObservableQuery` | a query is not started again before its calls of `fetch()` are over | nothing in the code ensures it: a page may come back in the task in which it left, and calls wait for the controller for as long as it takes. The theorems split it into two weaker conditions and say which property needs which |
| `Ordered` of `TxConfig` | a node answers the simulations of one key in their order | one connection to one node; section 10 has what an older answer does |

## 6 Fairness

Weak fairness of each step of the machinery is assumed: replies of the background, the store and
the event loop come, timers expire, tabs load. Beyond that:

* `Interaction`: a user who sees a request decides (`Decide(p)`: some verdict, never a particular
  one); without it no dialog is ever answered. `WaitApprove`, `Leave` and `CloseWindow` have no fairness.
* `Signing`: a device answers or fails, at the latest by its time limit. Users have none: `PageIsReleased`
  is about what follows an approval.
* `LedgerInit`: connecting succeeds or fails, and the five minutes end. Users have none, so `RequestEnds` does not
  depend on their answers.
* `ObservableQuery`: a node answers or the request fails; `onStart()` ends, one way or the other; the controller
  becomes ready. Nobody must refresh.
* `TxTrace`: an open connection carries what is sent. `PollSucceeds` has strong fairness: of polls
  that are made again and again some gets through. Time limits and lost sockets have none, so a
  trace must not live on them.
* `TxConfig`: a simulation is answered or fails, in any mixture.

## 7 The runs

| Run | Instance | Distinct states | What it shows |
|---|---|---|---|
| `keyring_serial` | one page, two mnemonics, a private key, two passwords, three ids; coin types set and removed by other services; auto-lock at any moment; installed anew or updated from a single key store | 57 900 | the vault is consistent if the pages wait for one operation before the next |
| `keyring_restarts` | one page that goes on over two restarts of the service worker between any two steps; a mnemonic, a Ledger that answers late or fails, a Keystone, Ledger apps; auto-lock; installed anew or updated from a list of old key stores | 1 944 000 | ids stay unique, no account is lost but by a deletion, a Ledger app changes no account but its own |
| `interaction_calm` | four requests of all kinds, one of them of the side panel, one at a time; `FairSpec`, `Calm` | 13 700 | every `waitApprove()` is settled |
| `interaction_crowd` | two signatures and two unlocks, three at a time, not calm | 299 800 | refinement of `Approval`, type correctness |
| `permission_pages` | two calls at a time; a web page that sends everything, a privileged one, the wallet's; an embedded and a suggested chain; restarts | 1 001 000 | nobody holds what was not approved, grants are kept |
| `signing_pages` | three requests (amino, Ethereum, ICNS for three chains) of a mnemonic and a Ledger, a chain whose coin type can be chosen and one where it is fixed, two pages; `FairSpec` | 322 000 | signatures are of the signer, pages are released |
| `chain_infos` | an embedded and a suggested chain, two callers, one restart | 1 130 000 | the cache agrees with the store, no duplicates, no leftovers, refinement of `ChainRegister` |
| `ledger_init` | three calls of `useLedger()`, two failures each, loops over the dialogs | 312 800 | one connection, answerable dialogs, every call ends |
| `observable_query` | two pages, two urls, three calls of `fetch()`, `onStart()` of both kinds, a controller that gets ready late | 72 800 | one request at a time, responses of their url, waits that end well and end |
| `tx_trace` | two transactions, broadcast by the background or traced by the pages, with or without a web socket that may break | 32 000 | a block is not missed, nothing is made up, nothing is left open |
| `tx_config` | the chain's currency and a token, two balances, two prices, a node that is not exact, three inputs | 102 700 | the gas is of the transaction shown, keys are kept apart, the maximum is payable, simulations end |
| `disable_after_removal` | the smallest instance in which it appears | 353 400, up to the violation | section 9 |

## 8 Theorems

All leaves are checked by `tlapm` (Z3, Zenon, LS4).

* **`KeyRingProofs!TypeCorrect`**: `Spec => []TypeOK`, for all sets of slots, keys and
  passwords, with restarts. `TypeOK` alone is not inductive: `Ciphertext`
  needs a key, decryption a key store, the result of `delete` a list, and these
  come out of a call's locals. The invariant is `Typed == TypeOK /\ CallsOK`, where `LocalsOK`
  says for each `pc` which locals the code after that await may rely on.
* **`KeyRingProofs!UnlockedRemembersPassword`**: in every behaviour
  `UnlockedHasPassword` holds, whatever overlaps, if one slot does the loading
  and creating (`OneLoader`) and no Ledger app is initialised. The invariant
  `Remembers` adds to `Typed` that every call carries a typed password to where it
  becomes `this.password` (`Carried`), and that a secret is held with a password
  or by the one `create` in progress (`Held`, `Creating`): `create*()` sets the secret
  before it encrypts, and the status is EMPTY meanwhile, for which there must be nobody who
  loads a key store under it; hence `OneLoader`. The second assumption is needed
  (section 10, the first).
* **`KeyRingProofs!IdsAreUnique`**: `IdsUnique`, if the pages' calls run one after the other (`OneUser(u)`: one slot
  `u` for them; the services may save in the others at any time), with any number of restarts. Ids
  alone are not inductive: a deletion and a restart may bring back an old list. `IdsInv(u)` therefore looks at every place
  an account can be read from again, in memory, in the store and in the locals of the call (`Accounts`): none of their ids
  is above the counter (`Numbers`), none is the number that a call has taken and not used yet (`Taken`), and
  no list in any of these places has an id twice (`Distinct`).
* **`KeyRingProofs!LedgerAppIsOfItsAccount`**: `LedgerAppKeepsAccounts`, with any number of restarts and locks while the
  device answers. `KeysInv(u)` adds to `IdsInv(u)` that one id never names two keys (`SameKey`), nor the
  Ledger's key another account than the call was made for. It needs `OneLedger`; section 10 has what two of them do.
* **`KeyRingProofs!KeysLeaveForThreeReasons`**: why a key may leave the list that is saved (`KeysLeaveForAReason`), for
  any number of restarts, locks, Ledgers and late devices, and an old vault of which only the ids are in order (`OldIdsOK`),
  if nobody saves beside the call of the pages (`Solo(u)`: a service that saves in a fresh service worker saves nothing over
  the accounts, section 10). The account is deleted; or `updatePassword()` is running and a key store of it names no type;
  or a new Ledger app is stored under the id of its account. The code has the last two as losses (section 10), and each
  clause is needed: TLC finds a key that leaves for it alone. `KeptInv(u)` says that the saved list is the one in memory
  unless the call is about to save, and what it then holds less than the saved one is `Gone` for one of the reasons
  (`SavedKept`), of which the call carries the rest (`ListKept`).
* **`KeyRingProofs!OnlyDeletionLosesKeys`**: `OnlyDeletedKeysLeave` follows where the last two reasons cannot arise: the key
  stores of an old vault all name their type (`OldTyped`), and there is one Ledger, with ids that tell keys apart
  (`OneLedger`, `OldKeysOK`; then `KeysInv(u)` gives a new app to its own account). All three are hypotheses of the theorem, since
  the code does not ensure them.
* **`KeyRingProofs!SecretIsOfTheSelected`**, **`OnePasswordOpensAll`**, **`TheSelectedIsListed`** and **`SettledIsPersisted`**:
  the four invariants that relate secret, password, selection, list and store, for pages that wait
  (`Serial(u)`: one user, no device, no restart, as in `keyring_serial`; section 10 has what devices and restarts break), with the auto-lock and
  the services anywhere. One invariant proves all four, `SerialInv(u)`, with a part for each phase of a call:
  while the vault is read and repaired (`LoadingOK`), when it is loaded (`LoadedOK`: selection and list agree, and the store
  has what memory has unless the call is about to save), while a selection changes (`SelectingOK`), and while
  `updatePassword()` is half way (`RewritingOK`: what is before the index has the new password, the rest the old one).
  None of the four is inductive without the others: that a ciphertext opens depends on the selection being listed, that
  it is saved on which of them the call holds.
* **`InteractionProofs!ImplementsApproval`**: `Spec => Promise!Spec`, for any
  set of requests, any overlap, calm or not. The invariant is `IInv == TypeOK /\ Carried /\
  Promised`: only requests that were asked travel to the pages (`Carried`); the
  resolvers are those of the pending promises, and the head of a pending request's mail
  is its decision (`FirstInMail`). Every page action then is a `PageStep`: it leaves the background
  alone and sends at most one message (`AtMostSends`), which is either
  `Approval!Decide` or a stutter; `ApproveOrReject` is `Settle` or a stutter.
* **`InteractionProofs!InteractionTypeCorrect`**: `Spec => []TypeOK`, from the same invariant.
* **`PermissionProofs!PermissionTypeCorrect`**: `Spec => []TypeOK`. The invariant is
  `Typed`: `TypeOK` and, for each `pc`, which locals of a call are there
  (`LocalsOK`): an origin, no grant but in a call that saves, nothing to take
  back but in `disable()`.
* **`PermissionProofs!HoldersAreApproved`** and **`GrantsAreKept`**: `OnlyWhatUserApproved`
  and `GrantIsKept` hold in every behaviour, for any calls, chains, origins and
  lists, if `DisableAfterRemoval = FALSE` (needed, as `disable_after_removal`
  shows). The invariant `Safe` adds to both that the first entry of the store is what
  `save()` makes of the map in memory, so that a restart loses nothing of it, and
  what calls in progress carry (`CallSafe`): what a call granted is held until its save
  is complete or somebody removes it, and what a call has taken back so far (`Done`) is
  held by nobody, unless somebody approved it anew. The proof first
  reduces each action to one of nine shapes (`Quiet`, `Adds`, `AddsGlobal`, `Takes`,
  `TakesGlobal`, ...; `StepShape`), so that `Safe` is argued once per shape.

* **`SigningProofs!SigningTypeCorrect`**: `Spec => []TypeOK`, from `Typed`: what each
  `pc` finds in the locals (`LocalsOK`), above all that the key of each chain that
  is not to be read any more has been read.
* **`SigningProofs!SignaturesAreOfSigner`**: `SignatureIsOfSigner` in every behaviour, if
  `AccountStays`. The invariant `IInv` adds to `Typed` that the keys a request carries are those that
  the account has now (`Carries`). It survives `sign()` setting the coin type, because that
  writes what `computeKeyStoreCoinType()` already gives (`KeysStay`), and it makes
  the signing key and the returned key agree (`NextKey`), or differ only by the
  application of a Ledger (`Unlike`).
* **`ObservableQueryProofs`**, for any pages, urls and number of calls of `fetch()`. `QueryTypeCorrect` holds in every
  behaviour. The safety properties do not (section 10), and `Calm` assumes more than they need, so the theorems are about
  behaviours: `Unhurried` says that nobody leaves a query that is being fetched and comes back before the cancelled `fetch()` has
  ended, `Undeferred` that no query with an asynchronous `onStart()` is started again while a call waits for the controller.
  `WaitersGetFresh` and `OneRequestAtMost` (one request, of a query that is started and shown to be fetched) need the
  first, `OneRequestAtATime` and `ResponsesAreOfTheUrl` both. The code ensures neither; of the queries of the wallet those
  of prices and of Secret's contracts have an `onStart()` that returns a promise and sets the url (`stores/src/price/index.ts:216`,
  `stores/src/query/secret-wasm/contract-query.ts:37`), and calls wait only until the controller is ready. `CalmPagesWait` shows that `Calm` gives both, so that the theorems cover the run.
  The invariant `IInv` has `Base`, which
  also holds *between* the pieces of one step (a stop, a new url, a start), when a
  request is for the url before; and `OfUrl`, which holds at the end of each: a step is a chain of operators
  from `query` to `query'`, and lemmas say of each of them (`Cancel`, `Proceed`, `Defer`, `Fetch`, `Start`, `Stop`) what it
  preserves. `Awaited` (whoever waits, waits for something) makes `WaitGetsFresh` an
  action property of the same invariant. Both take a parameter: whether `Undeferred` is assumed too.
* **`TxTraceProofs`**: `TypeOK`, `ResolvedIsCommitted` and `NothingLeftOpen`, for any set of transactions. The
  invariants add that messages on the wire are true (`AnswersAreTrue`), that a trace which has not begun has
  nothing (`Fresh`), and which of object and trace owns the socket and the timer (`Own`).
  `NothingIsMissed` is the safety half of `CommittedIsFound`: a trace that nobody disturbs, of a transaction that is in a
  block, has lost its connection or has something under way that tells it so, a connection or a poll, the query, or a
  result that it still waits for (`OnItsWay`). The invariant `Awake` says why the block cannot fall between
  the question and the subscription: the two are answered in the order they were sent, so whoever gets in a block
  after the answer has an event (`Watched`), and a trace without a socket has a timer (`Going`). `NothingMissed` and
  `Awake` were checked with TLC on the instance of `tx_trace` before; no run repeats what the theorem says.
* **`ChainInfosProofs!ChainsTypeCorrect`**: `Spec => []TypeOK`, however calls overlap. `CallOK` says for each `pc`
  what a call has looked up before its await.
* **`ChainInfosProofs!ChainsAreARegister`**: `Spec => Register!Spec`, for any chains, any number of readers and one call that
  writes (`Serial`), with restarts. `Shown`, the register that pages see, is the cache, or the store if there is none; the
  work is in showing that computing or clearing the cache does not change it. The invariant `SerialInv`: one call at a
  time changes something (`OneChange`); while it is between its read and its write the cache is there (`CacheThere`), so that the
  write is not seen before the cache is cleared; a cache or a half computed one differs from the store at most at the
  chain of that call (`OnlyTheChangedIsStale`, `FillAgrees`), and what the call remembers is what the store still has (`Knows`).
* **`ChainInfosProofs!CacheIsTheStore`**, **`EachChainIsListedOnce`**, **`RemovalForgets`**: `CacheAgrees`, `NoDuplicates` and
  `NoLeftovers` from the same invariant (`Cleared` for the last).
* **`KeyRingProofs!WaitingCallsAreShown`**, **`LedgerTypeCorrect`** and **`DeviceIsNotShared`**, of `LedgerInit`: for any
  number of calls and failures. The first two, `DialogIsAnswerable` and types, hold in every behaviour, also when calls are made while
  another is connected. The third, `OneConnection`, needs `Calm`, which the code does not ensure (section 10): then one
  call is not over, and its `abort()` is at hand until it has the device (`OneLive`); the loops over the dialogs can only wake that one.
* **`TxConfigProofs`**: `TxConfigTypeCorrect`, `EstimatesKeepTheirKey` and `MaximumIsPayable`, for any currencies, prices, balances
  and orders of answers, `Ordered` or not. The invariant says that each transaction, estimate and simulation is
  kept under the key of its own currency (`OwnStates`, `OwnFlights`). In the middle of a render the key is that of the
  currency before; nothing is simulated then, because another currency has no amount (`Keyed`).
* **`TxConfigProofs!GasFollowsTheTransaction`**: `GasIsOfLatestTx`, for any number of inputs, if `Ordered`. The property
  speaks of a moment when no simulation is on its way; `GasInv` says what holds before that. For each key the last
  simulation on its way is of the transaction and the fee that its state has, and when there is none, and the last did
  not fail, the estimate is within two hundredths of what the node says of them (`Followed`); and after the reactions, the
  transaction, the fee and the gas of the key are those of the form (`Settled`). The reactions are two rounds, since the gas that the first
  sets changes the fee and the maximum; `ReactSettles` shows that the second is enough.

The assumptions are those named in the modules (`KindAssumption`,
`SentinelAssumption`, `VaultAssumption`, `RequestsAssumption`, ...): types of
constants, sentinels that are no values, bounds that are numbers, and of the node of `TxConfig` that it
is exact within two hundredths. TLC evaluates them in every run.

Only model-checked: liveness (`EveryRequestIsAnswered`, `PageIsReleased`, `RequestEnds`, `WaitEnds`,
`CommittedIsFound`, `SimulationsEnd`), which needs fairness and `ENABLED` and is out of the prover's reach
(of `CommittedIsFound` the safety half is the theorem `NothingIsMissed`). Every
invariant, action property and refinement of a passing run is also a theorem, for all values of the constants and any
bounds. The theorems assume what their runs assume (section 5), or less. For the vault the runs assume it by their instance, so the
theorems say it as hypotheses: which slots the pages have (`OneUser`, `OneLoader`, `Solo`, `Serial`), at
most one Ledger (`OneLedger`), and that what an earlier version left in the store is in order
(`OldIdsOK`, `OldKeysOK`, `OldTyped`, `OldVaultsOK`). What fails without the
first two kinds and without `OldTyped` is in section 10.

## 9 What disagrees with the documents

`disable_after_removal`: `removeAllTypePermission()` returns at the first
`undefined` entry (`permission/service.ts:412`), so after a chain was removed
`disable()` without chain ids does not "remove all permissions granted to
origin" (`:98`). TLC finds the run violated by what the code does, and it stays so until
the code or the document changes. `permission_pages` therefore has `DisableAfterRemoval = FALSE`.

## 10 Behaviours seen

Exploring other instances, or reading, showed these; no run is kept for them. Those marked *
disagree with a comment, a name or a test of the repository, as quoted.

**Key ring**

* \* `initializeNonDefaultLedgerApp()` loads the public
  key when the device answers, without looking at the status: a lock meanwhile is
  undone, the wallet is unlocked with the password `""`, and the key store is
  saved under it (`keyring.ts:1711`; `:1341` takes a missing password for locked).
* \* The same method reads `this.keyStore` again
  (`:1682`): an account selected meanwhile is replaced by a Ledger key store, though
  the new one is to be "equivalent in all ways, except for the ciphertext" (`:1680`).
* `removeAllKeyStoreCoinType()` saves in every status
  (`:687`): in a fresh service worker it saves nothing over the accounts.
  `setKeyStoreCoinType()` does so during a `restore()` that has not read the list yet.
* With two Ledgers the same method overwrites the account of one with the keys of the other. A second Ledger account is
  added; the auto-lock strikes before the device answers, so its public key is encrypted under no password
  (TLC: 24 states). Selecting it fails at decryption after it became `this.keyStore`, with the other Ledger's
  secret still loaded; a new app then puts that secret into it. Hence `OneLedger` of section 8.
* Calls of two pages that overlap break `SecretMatchesSelection`,
  `PasswordOpensAll`, `IdsUnique`, `SettledPersisted` and `OnlyDeletedKeysLeave`:
  `change` selects before it decrypts, `getIncrementalNumber()` is a
  read-change-write, `delete` writes the list it computed before it waited.
  The pages of the wallet wait for each reply, which `keyring_serial` models.
* A stop between the two writes of `save()` leaves a selected key store and a
  list of different moments; `restore()` repairs only an empty list. Ids stay unique (proved), but
  with one restart each of the four invariants of `Serial(u)` fails (TLC: 13 to 22 states). The longest: the last account
  is deleted, the stop leaves it in the list, the wallet is empty and created anew under another password; then selecting the old
  account fails at decryption, after it was selected and with the secret of the new one loaded.
* A hardware key added while the wallet is being locked is encrypted under `""`;
  a later `updatePassword()` then fails half-way.
* \* `updatePassword()` re-encrypts `if (keyStore.type)` (`keyring.ts:1364`): a key store of the first
  version, which names no type and is "considered as mnemonic" (`crypto.ts:20`), is left out of the
  list it saves.

**Interaction**

* \* `rejectAll()` awaits each reply
  (`stores/src/core/interaction/interaction.ts:127`), so a window that closes on two requests rejects the first only;
  `useInteractionInfo` says "Execute the clean-up function when closing window".
* A popup that is closed while it is being loaded loses its request: the push fails, nobody hears
  of it and the caller waits. A second request navigates the popup away before the data
  of the first arrives. The access page closes a popup that another request was just given.
* The lock page may go while it approves one request to unlock after the other:
  the wallet is unlocked and the rest is rejected.
* Access that is approved to a chain that was removed meanwhile is there when the chain is suggested
  again.

**Signing**

* If the user changes the account, or the coin type of the chain, while a request for
  a signature waits for the approval, the signature is of the new key and is returned with the old
  one (`AccountStays = FALSE` in `MCSigning`).
* \* `waitEnd()` returns at once if an event of an earlier signing is there, and an
  event reaches every page: a page may remove its data before its own signing has
  ended, though "this method is used for the sign interaction to wait the actual signing ends"
  (`stores/src/core/interaction/interaction.ts:101`). `PageIsReleased` asks for some end only.
* A page that is left while it waits for an end, and approves again, has two waiters for
  one event; with three requests the last may wait for ever (`Calm = FALSE`).

**Chains** (`Serial = FALSE`)

* Endpoints that are set during a `getChainInfos()` clear a cache that is not there yet; the
  fill then caches what it read before. The cache stays stale until something else clears it.
* Two suggestions of one chain that overlap add it twice. A removal while
  `tryUpdateChainInfo()` fetches leaves an update of a chain that is gone.
* Removing a chain does not remove the endpoints that were set for it, so they are there when it is suggested again.
* `replaceChainInfo()` pushes features and currencies into arrays of the chain infos that come with the wallet, where they
  stay until the service worker ends.

**Ledger**

* \* While a call reads the mode or connects, `abort()` does nothing: two calls are connected at once after
  three steps, though "This ensures that the ledger connection is not executed concurrently"
  (`ledger/service.ts:320`). A call that succeeds clears the aborter, whoever's it is.
* The data of a call that was aborted or timed out stays in the store: the modal stays open, and
  resuming it does nothing.

**Queries of the pages**

* A query that is stopped and started in one task has a new request in flight when the `finally` of the cancelled one
  clears `isFetching`.
* \* A call that waited for the controller looks at `isStarted` only: if the query was left and came back meanwhile, it
  sends its request before an asynchronous `onStart()` has ended, against the comment in `query.spec.ts:1698` and the
  test at `:1913`. If `onStart()` then sets the url, the response is saved under another url's key.
* `isFetching` stays set, and waiters wait, if `canFetch()` is false after `onStart()` or the controller, or `onStart()` throws.
* `onStop()` adds the listener for refreshes again instead of removing it.
* A load of the saved response of the url before may be shown, as staled.

**Tracing transactions**

* A web socket that is lost settles nothing: the tracer does not fall back to polling, a page waits
  for its time limit and `sendTx()` of the background for ever.
* Two traces of the one `CosmosTxTracer`: the first that ends closes the tracer and the timer of the latest; the other
  ends by its time limit only, with a rejection nobody handles.
* A poll that is being fetched at the time limit goes on and starts the next. `close()` during
  the look for a web socket leaves the socket open.
* An event that comes before its transaction can be asked for ends the trace before a query would. The random ids of two requests may be the same.

**Sending**

* Simulations are not numbered: without `Ordered` an older answer overwrites a newer one and stays.
* `isSimulating` is one flag: it is false while a second simulation is in flight after the first has been answered. The
  button to review the transaction is not disabled by it.
* The send page has two simulators on the same configs (`pages-new/send/index.tsx:117`, `send-phase-2.tsx:92`); turning one off
  lets the other overwrite gas that was typed.
* A link to the send page with a currency, an address and an amount sets all three before the key is rendered:
  the estimate of a contract's token is then saved under "native". The model begins after that.
* The page for transfers over IBC uses the key "native" for every currency (`more/ibc-transfer/index.tsx:72`), so a token is shown the
  estimate of another until its own simulation ends.
* After the currency was changed, and until a simulation ends, the gas is that of the currency before.

**Numbers** (read, not modelled)

* \* `Dec.chopPrecisionAndRound()` says "bankers rounding" and tests `quotient.divide(2).equals(0)`: 1.5 becomes 1 and 2.5
  becomes 3.
* \* `CoinUtils.concat()` pushes a second coin of the same currency, though "If duplicated coin exists, add the amount
  to duplicated one". `CoinUtils.exclude()` keeps the coins of the first denom it is given to leave out (`indexOf === 0`).

## 11 Not modelled

In modelled components: deriving keys and signing as computations (what
they need of the state is `CanLoadKey` in `KeyRing` and `Derived` in `Signing`), documents,
chains with Ethereum addresses, `sign()` without a dialog, reading methods, names, BIP44 paths
and, in `KeyRing`, coin types as data; events other than `request-sign-end`,
`dispatchEventAndData()`, several popup
channels and a restart of the background during a dialog;
`checkOrGrantPermission()`, which has no caller. The side panel and the popup of `Interaction`
stand for all pages of their kind; mobile, which has one web view and no popup, is not in it.
In `ChainInfos` the contents of a chain info; in `LedgerInit` the single attempt of the extension, which throws; in
`ObservableQuery` `cacheMaxAge`, which no query sets, and that `canFetch()` may become false again; in `TxConfig` recipients, memos and channels
(checks of one value), taxes of Terra Classic, fee tokens of Osmosis, fees of EVM chains, a simulator that is
disabled by force, and rounding of decimals.

Other components are in `PROJECT.json` with their reasons: some are next in
the plan, some are lists that are read and written, some compute values
(cryptography, formatting), some are React pages.

Most lines of the repository are none of this: configurations of chains and bridges, generated
encoders of messages (`proto-types-gen`), texts in the languages of the wallet, examples, and React components of two user
interfaces. They have no state that several actors share, and no module here stands for them.

## 12 The plan

Done: the vault, the approvals, the permissions, the signing requests; the chains service with its
updater and their abstract specification; the Ledger's dialogs on a phone; queries, traces and the
configuration of transactions in the pages; the theorems of section 8.

Next, in this order:

1. **`Tokens`**: tokens per account while accounts change; composed with the selection of `KeyRing`.
2. **`AutoLock`**, **`SecretSeeds`**: timers against unlocks; the debouncer and the account.
3. **`Activity`**: the list of activities per account, composed with `TxTrace`.
4. **`Decimals`**: `unit/src/decimal.ts` as operators against rational arithmetic.

Theorems to prove next: for `Signing` that a request is composed with `Approval` (today the dialog is its own), so that
what `InteractionProofs` shows of a dialog carries over; of the vault, what is left of the four invariants of
`Serial(u)` after a restart (every account still opens with *some* typed password). At most one violation run is kept per
disagreement, and runs are merged where two ask the same question of the
same instance.
