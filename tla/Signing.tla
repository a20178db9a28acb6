------------------------------ MODULE Signing ------------------------------
(***************************************************************************)
(* Signing: the requests of KeyRingService that read a public key, ask the *)
(* user and then sign (amino, direct, EIP-712 and the signatures for ICNS) *)
(* and SignInteractionStore of the wallet's pages, which shows a request   *)
(* and waits for the event request-sign-end.                               *)
(*                                                                         *)
(* A key is the account and what the account derives it from: the coin     *)
(* type, the application of a Ledger, or nothing for a private key.        *)
(* Chains here have no Ethereum features; "ethereum" is a request with an  *)
(* ethSignType.  Documents and addresses are left out: an address is that  *)
(* of its key.                                                             *)
(***************************************************************************)
EXTENDS Naturals, Sequences

CONSTANTS
    Requests,
    Asks,            \* what a request is: its op and its chains
    Accounts, KindOf,
    Chains, DefaultCoinType,
    CoinTypes,
    FixedCoinType,   \* 60: a chain with it has no other
    Selectable,      \* the coin types that the user may choose for a chain
    NotSet,          \* no coin type, no key
    Pages,           \* the documents of the wallet that can show a request
    AccountStays,    \* nobody changes the account or its coin types during a request
    Calm             \* nobody leaves or closes a page that waits for the end of a signing

Ops == {"sign", "ethereum", "icns"}
Kinds == {"mnemonic", "privateKey", "keystone", "ledger"}
Paths == CoinTypes \cup {"Cosmos", "Ethereum", "none"}
Keys == [account : Accounts, path : Paths]

ASSUME SigningAssumption ==
    /\ Asks \in [Requests -> [op : Ops, chains : Seq(Chains)]]
    /\ \A r \in Requests : /\ Asks[r].chains # <<>>
                           /\ Asks[r].op # "icns" => Len(Asks[r].chains) = 1
    /\ KindOf \in [Accounts -> Kinds]
    /\ DefaultCoinType \in [Chains -> CoinTypes]
    /\ Selectable \in [Chains -> SUBSET CoinTypes]
    /\ NotSet \notin CoinTypes \cup Keys
    /\ AccountStays \in BOOLEAN /\ Calm \in BOOLEAN

VARIABLES
    selected, unlocked,  \* the account in use, and whether its secret is there
    coinTypeForChain,    \* of each account
    request,             \* what each request has read and waits for
    signatures,          \* of each request: the key returned with it, the key that signed
    page                 \* SignInteractionStore of each page

account == <<selected, unlocked, coinTypeForChain>>
vars == <<account, request, signatures, page>>

NoRequest == [pc |-> "idle", signer |-> NotSet, keys |-> [i \in Chains |-> NotSet],
              toRead |-> <<>>, toSign |-> <<>>, by |-> NotSet]

Fresh == [datas |-> {}, loading |-> FALSE, ended |-> FALSE, sent |-> <<>>, waiters |-> <<>>]

Init ==
    /\ selected \in Accounts /\ unlocked = TRUE
    /\ coinTypeForChain = [a \in Accounts |-> [i \in Chains |-> NotSet]]
    /\ request = [r \in Requests |-> NoRequest]
    /\ signatures = [r \in Requests |-> {}]
    /\ page = [p \in Pages |-> Fresh]

At(r, pc) == request[r].pc = pc
Is(r, op) == Asks[r].op = op
Over(r) == [NoRequest EXCEPT !.pc = "done", !.signer = request[r].signer]
Open(r) == request[r].pc \notin {"idle", "done"}

-----------------------------------------------------------------------------
(* Keys.                                                                   *)
CoinType(a, i) ==
    IF DefaultCoinType[i] = FixedCoinType \/ coinTypeForChain[a][i] = NotSet
    THEN DefaultCoinType[i]
    ELSE coinTypeForChain[a][i]

Derived(a, app, coinType) ==
    [account |-> a, path |-> CASE KindOf[a] = "privateKey" -> "none"
                               [] KindOf[a] = "ledger" -> app
                               [] OTHER -> coinType]

KeyOf(a, i) == Derived(a, "Cosmos", CoinType(a, i))

AppOf(r) == IF Is(r, "ethereum") THEN "Ethereum" ELSE "Cosmos"

DefaultSigner(r, i) == Derived(selected, AppOf(r), DefaultCoinType[i])

SigningKey(r, i) == Derived(selected, AppOf(r), CoinType(selected, i))

Mine(a) == KindOf[a] \in {"mnemonic", "privateKey"}

-----------------------------------------------------------------------------
(* The account.                                                            *)
Settled == AccountStays => \A r \in Requests : ~Open(r)

Select(a) ==
    /\ unlocked /\ Settled
    /\ selected' = a
    /\ UNCHANGED <<unlocked, coinTypeForChain, request, signatures, page>>

(* A page of the wallet sets the coin type of a chain, once.               *)
SetCoinType(i, coinType) ==
    /\ Settled /\ coinTypeForChain[selected][i] = NotSet /\ coinType \in Selectable[i]
    /\ coinTypeForChain' = [coinTypeForChain EXCEPT ![selected][i] = coinType]
    /\ UNCHANGED <<selected, unlocked, request, signatures, page>>

(* A chain is removed, and may be suggested again.                         *)
RemoveCoinTypes(i) ==
    /\ Settled /\ \E a \in Accounts : coinTypeForChain[a][i] # NotSet
    /\ coinTypeForChain' = [a \in Accounts |-> [coinTypeForChain[a] EXCEPT ![i] = NotSet]]
    /\ UNCHANGED <<selected, unlocked, request, signatures, page>>

LockOrUnlock ==
    /\ unlocked' = ~unlocked
    /\ UNCHANGED <<selected, coinTypeForChain, request, signatures, page>>

-----------------------------------------------------------------------------
(* What an event request-sign-end does in a page: the first that waits for *)
(* it takes it, and without one it stays.                                  *)
Finished(pg, r) == [pg EXCEPT !.datas = @ \ {r}, !.loading = FALSE]

Told(pg) ==
    IF pg.waiters = <<>>
    THEN [pg EXCEPT !.ended = TRUE]
    ELSE Finished([pg EXCEPT !.waiters = Tail(@)], Head(pg.waiters))

(* The `finally` around the signature; ICNS dispatches no event.           *)
Ends(r) ==
    /\ request' = [request EXCEPT ![r] = Over(r)]
    /\ page' = IF Is(r, "icns") THEN page ELSE [p \in Pages |-> Told(page[p])]

-----------------------------------------------------------------------------
(* A web page asks for a signature of an account that it knows.            *)
Request(r, a) ==
    /\ At(r, "idle")
    /\ request' = [request EXCEPT ![r] =
           [NoRequest EXCEPT !.pc = "reading", !.signer = KeyOf(a, Asks[r].chains[1]),
                             !.toRead = Asks[r].chains]]
    /\ UNCHANGED <<account, signatures, page>>

(* getKey() of a chain; the first has to be the key of the signer, and     *)
(* anything can be wrong with the chain or the document.                   *)
ReadKey(r) ==
    /\ At(r, "reading")
    /\ LET i == Head(request[r].toRead)
           key == KeyOf(selected, i)
           rest == Tail(request[r].toRead)
       IN  /\ unlocked
           /\ request[r].toRead = Asks[r].chains => key = request[r].signer
           /\ request' = [request EXCEPT ![r].keys[i] = key, ![r].toRead = rest,
                                         ![r].pc = IF rest = <<>> THEN "asking" ELSE "reading"]
    /\ UNCHANGED <<account, signatures, page>>

Refuse(r) ==
    /\ At(r, "reading")
    /\ request' = [request EXCEPT ![r] = Over(r)]
    /\ UNCHANGED <<account, signatures, page>>

PushBeside(r, p) ==
    /\ At(r, "asking") /\ ~Is(r, "icns")
    /\ page' = [page EXCEPT ![p].datas = @ \cup {r}]
    /\ request' = [request EXCEPT ![r].pc = "waiting"]
    /\ UNCHANGED <<account, signatures>>

(* The data of the request comes to a page, whose store rejects all but    *)
(* the first at once.                                                      *)
Push(r, p) ==
    /\ At(r, "asking") /\ ~Is(r, "icns")
    /\ IF page[p].datas = {}
       THEN /\ page' = [page EXCEPT ![p].datas = {r}]
            /\ request' = [request EXCEPT ![r].pc = "waiting"]
       ELSE /\ request' = [request EXCEPT ![r] = Over(r)]
            /\ UNCHANGED page
    /\ UNCHANGED <<account, signatures>>

Approved(r) ==
    [request EXCEPT ![r].pc = "approved",
                    ![r].toSign = IF Is(r, "icns") THEN Tail(Asks[r].chains) ELSE Asks[r].chains]

(* The page for ICNS has a store of its own that waits for nothing.        *)
AnswerICNS(r, approves) ==
    /\ At(r, "asking") /\ Is(r, "icns")
    /\ request' = IF approves THEN Approved(r) ELSE [request EXCEPT ![r] = Over(r)]
    /\ UNCHANGED <<account, signatures, page>>

(* approveAndWaitEnd(): approve, wait for the reply, wait for the end.     *)
Approve(p, r) ==
    /\ r \in page[p].datas /\ ~page[p].loading
    /\ page' = [page EXCEPT ![p].loading = TRUE, ![p].sent = Append(@, r)]
    /\ request' = IF At(r, "waiting") THEN Approved(r) ELSE request
    /\ UNCHANGED <<account, signatures>>

GetReply(p) ==
    /\ page[p].sent # <<>>
    /\ LET pg == [page[p] EXCEPT !.sent = Tail(@)]
           r == Head(page[p].sent)
       IN  page' = [page EXCEPT ![p] = IF pg.ended THEN Finished(pg, r)
                                       ELSE [pg EXCEPT !.waiters = Append(@, r)]]
    /\ UNCHANGED <<account, request, signatures>>

(* The user goes elsewhere in the document, or closes it: what it shows is *)
(* rejected.                                                               *)
Rejected(p) ==
    [r \in Requests |-> IF r \in page[p].datas /\ At(r, "waiting")
                        THEN Over(r) ELSE request[r]]

Leave(p) ==
    /\ page[p].datas # {} /\ (Calm => ~page[p].loading)
    /\ request' = Rejected(p)
    /\ page' = [page EXCEPT ![p].datas = {}, ![p].loading = FALSE]
    /\ UNCHANGED <<account, signatures>>

Close(p) ==
    /\ page[p] # Fresh /\ (Calm => ~page[p].loading)
    /\ request' = Rejected(p)
    /\ page' = [page EXCEPT ![p] = Fresh]
    /\ UNCHANGED <<account, signatures>>

-----------------------------------------------------------------------------
NextChain(r) == Head(request[r].toSign)

GoesOn(r) ==
    IF Tail(request[r].toSign) = <<>>
    THEN Ends(r)
    ELSE /\ request' = [request EXCEPT ![r].pc = "approved", ![r].toSign = Tail(@)]
         /\ UNCHANGED page

(* For ICNS the address of the owner needs no signature.                   *)
SameAsOwner(r) == Is(r, "icns") /\ request[r].keys[NextChain(r)] = request[r].signer

NothingToSign(r) ==
    /\ At(r, "approved")
    /\ \/ request[r].toSign = <<>> /\ Ends(r)
       \/ request[r].toSign # <<>> /\ SameAsOwner(r) /\ GoesOn(r)
    /\ UNCHANGED <<account, signatures>>

FailsUntold(r) ==
    /\ At(r, "approved") /\ request[r].toSign # <<>> /\ ~SameAsOwner(r)
    /\ ~unlocked \/ ~Is(r, "sign") \/ ~Mine(selected)
    /\ request' = [request EXCEPT ![r] = Over(r)]
    /\ UNCHANGED <<account, signatures, page>>

(* The key ring is locked, or the document, the chain or the device does   *)
(* not allow it.                                                           *)
SignFails(r) ==
    /\ At(r, "approved") /\ request[r].toSign # <<>> /\ ~SameAsOwner(r)
    /\ ~unlocked \/ ~Is(r, "sign") \/ ~Mine(selected)
    /\ Ends(r)
    /\ UNCHANGED <<account, signatures>>

AddSignature(r, by) ==
    signatures' = [signatures EXCEPT ![r] = @ \cup {[key |-> request[r].keys[NextChain(r)], by |-> by]}]

(* sign() and signEthereum() with a secret that the key ring has; sign()   *)
(* sets the coin type of the chain and waits until that is saved.          *)
Sign(r) ==
    /\ At(r, "approved") /\ request[r].toSign # <<>> /\ ~SameAsOwner(r)
    /\ unlocked /\ Mine(selected)
    /\ AddSignature(r, SigningKey(r, NextChain(r)))
    /\ coinTypeForChain' =
           IF Is(r, "ethereum") \/ coinTypeForChain[selected][NextChain(r)] # NotSet
           THEN coinTypeForChain
           ELSE [coinTypeForChain EXCEPT ![selected][NextChain(r)] = CoinType(selected, NextChain(r))]
    /\ request' = [request EXCEPT ![r].pc = "saving"]
    /\ UNCHANGED <<selected, unlocked, page>>

Saved(r) ==
    /\ At(r, "saving")
    /\ GoesOn(r)
    /\ UNCHANGED <<account, signatures>>

(* A Ledger or a Keystone is given the key that is to sign, and waited for. *)
AskDevice(r) ==
    /\ At(r, "approved") /\ request[r].toSign # <<>> /\ ~SameAsOwner(r)
    /\ unlocked /\ ~Mine(selected)
    /\ request' = [request EXCEPT ![r].pc = "device", ![r].by = SigningKey(r, NextChain(r))]
    /\ UNCHANGED <<account, signatures, page>>

DeviceAnswers(r) ==
    /\ At(r, "device")
    /\ AddSignature(r, request[r].by)
    /\ GoesOn(r)
    /\ UNCHANGED account

DeviceFails(r) ==
    /\ At(r, "device")
    /\ Ends(r)
    /\ UNCHANGED <<account, signatures>>

-----------------------------------------------------------------------------
Background(r) ==
    \/ ReadKey(r) \/ Refuse(r) \/ \E p \in Pages : Push(r, p)
    \/ NothingToSign(r) \/ SignFails(r) \/ Sign(r) \/ Saved(r)
    \/ AskDevice(r) \/ DeviceAnswers(r) \/ DeviceFails(r)

User ==
    \/ \E a \in Accounts : Select(a)
    \/ \E i \in Chains : RemoveCoinTypes(i) \/ \E coinType \in CoinTypes : SetCoinType(i, coinType)
    \/ LockOrUnlock
    \/ \E r \in Requests, approves \in BOOLEAN : AnswerICNS(r, approves)
    \/ \E p \in Pages : Leave(p) \/ Close(p) \/ \E r \in Requests : Approve(p, r)

Next ==
    \/ \E r \in Requests : Background(r) \/ \E a \in Accounts : Request(r, a)
    \/ \E p \in Pages : GetReply(p)
    \/ User

Spec == Init /\ [][Next]_vars

(* The event loop runs what is ready, and a device answers or fails, at    *)
(* the latest after its time limit.                                        *)
FairSpec ==
    /\ Spec
    /\ \A r \in Requests : WF_vars(Background(r))
    /\ \A p \in Pages : WF_vars(GetReply(p))

-----------------------------------------------------------------------------
RequestRecords ==
    [pc : {"idle", "reading", "asking", "waiting", "approved", "saving", "device", "done"},
     signer : Keys \cup {NotSet}, keys : [Chains -> Keys \cup {NotSet}],
     toRead : Seq(Chains), toSign : Seq(Chains), by : Keys \cup {NotSet}]

PageRecords ==
    [datas : SUBSET Requests, loading : BOOLEAN, ended : BOOLEAN,
     sent : Seq(Requests), waiters : Seq(Requests)]

(* Every variable has its type, and a page shows one request at a time:    *)
(* "This interaction can have only one interaction at once".               *)
TypeOK ==
    /\ selected \in Accounts /\ unlocked \in BOOLEAN
    /\ coinTypeForChain \in [Accounts -> [Chains -> CoinTypes \cup {NotSet}]]
    /\ request \in [Requests -> RequestRecords]
    /\ signatures \in [Requests -> SUBSET [key : Keys, by : Keys]]
    /\ page \in [Pages -> PageRecords]
    /\ \A p \in Pages : \A q, r \in page[p].datas : q = r

(* A signature is made with the key that is returned with it, which is of  *)
(* the account of the signer, though the key is read before the approval   *)
(* and found again after it, requests overlap, sign() sets the coin type   *)
(* and the wallet may be locked and unlocked meanwhile.  The public key    *)
(* beside the Ethereum signature of a Ledger is that of another            *)
(* application.                                                            *)
SignatureIsOfSigner ==
    \A r \in Requests : \A s \in signatures[r] :
        /\ s.key.account = request[r].signer.account
        /\ s.by.account = s.key.account
        /\ s.by # s.key => Is(r, "ethereum") /\ KindOf[s.by.account] = "ledger"

(* A page that approved stops waiting: however the signing goes, its end   *)
(* is dispatched, and no other page or request takes it away.              *)
PageIsReleased == \A p \in Pages : page[p].loading ~> ~page[p].loading
=============================================================================
