--------------------------- MODULE SigningProofs ---------------------------
(***************************************************************************)
(* Proofs about Signing: its type correctness, and that a signature is of  *)
(* the signer as long as the account stays during a request.               *)
(***************************************************************************)
EXTENDS Signing, TLAPS

Elements(s) == {s[n] : n \in 1..Len(s)}

(* What the code after each wait finds in the locals of a request: a chain *)
(* to read, a chain to sign for, the key of each chain that was read.      *)
LocalsOK(r, q) ==
    /\ q.pc = "reading" => q.toRead # <<>>
    /\ q.pc \in {"saving", "device"} => q.toSign # <<>>
    /\ q.pc = "device" => q.by \in Keys
    /\ q.pc \notin {"idle", "done"} =>
          /\ q.signer \in Keys
          /\ \A i \in Elements(Asks[r].chains) \ Elements(q.toRead) : q.keys[i] # NotSet
    /\ q.pc \notin {"idle", "done", "reading"} => q.toRead = <<>>
    /\ Elements(q.toSign) \subseteq Elements(Asks[r].chains)

Typed == TypeOK /\ \A r \in Requests : LocalsOK(r, request[r])

-----------------------------------------------------------------------------
(* Sequences and keys.                                                     *)
LEMMA Parts ==
    ASSUME NEW S, NEW s \in Seq(S), s # <<>>
    PROVE  /\ Head(s) \in S /\ Tail(s) \in Seq(S)
           /\ Head(s) \in Elements(s)
           /\ Elements(Tail(s)) \subseteq Elements(s)
           /\ Elements(s) \subseteq {Head(s)} \cup Elements(Tail(s))
<1>1. Head(s) \in S /\ Tail(s) \in Seq(S) /\ Head(s) = s[1] /\ Len(s) \in Nat \ {0}
  OBVIOUS
<1>2. Len(Tail(s)) = Len(s) - 1 /\ \A n \in 1..Len(Tail(s)) : Tail(s)[n] = s[n + 1]
  OBVIOUS
<1>3. Head(s) \in Elements(s)
  BY <1>1 DEF Elements
<1>4. Elements(Tail(s)) \subseteq Elements(s)
  <2> SUFFICES ASSUME NEW n \in 1..Len(Tail(s)) PROVE Tail(s)[n] \in Elements(s)
    BY DEF Elements
  <2>1. n + 1 \in 1..Len(s)
    BY <1>1, <1>2
  <2> QED BY <1>2, <2>1 DEF Elements
<1>5. Elements(s) \subseteq {Head(s)} \cup Elements(Tail(s))
  <2> SUFFICES ASSUME NEW n \in 1..Len(s), n # 1 PROVE s[n] \in Elements(Tail(s))
    BY <1>1 DEF Elements
  <2>1. n - 1 \in 1..Len(Tail(s)) /\ (n - 1) + 1 = n
    BY <1>1, <1>2
  <2>2. Tail(s)[n - 1] = s[n]
    BY <1>2, <2>1
  <2> QED BY <2>1, <2>2 DEF Elements
<1> QED BY <1>1, <1>3, <1>4, <1>5

LEMMA InSet == ASSUME NEW S, NEW s \in Seq(S) PROVE Elements(s) \subseteq S
BY DEF Elements

LEMMA NoneLeft == Elements(<<>>) = {}
BY DEF Elements

LEMMA DerivedTyped ==
    ASSUME NEW a \in Accounts, NEW app \in {"Cosmos", "Ethereum"}, NEW t \in CoinTypes
    PROVE  Derived(a, app, t) \in Keys /\ Derived(a, app, t).account = a
BY DEF Derived, Keys, Paths

LEMMA KeysTyped ==
    ASSUME TypeOK, NEW a \in Accounts, NEW i \in Chains, NEW r \in Requests
    PROVE  /\ CoinType(a, i) \in CoinTypes
           /\ KeyOf(a, i) \in Keys /\ KeyOf(a, i).account = a
           /\ SigningKey(r, i) \in Keys /\ SigningKey(r, i).account = selected
<1>1. \A b \in Accounts : CoinType(b, i) \in CoinTypes
  BY SigningAssumption DEF CoinType, TypeOK
<1>2. AppOf(r) \in {"Cosmos", "Ethereum"} /\ selected \in Accounts
  BY DEF AppOf, TypeOK
<1> QED BY <1>1, <1>2, DerivedTyped DEF KeyOf, SigningKey

-----------------------------------------------------------------------------
(* Requests.                                                               *)
LEMMA NoRequestTyped == NoRequest \in RequestRecords
<1>1. <<>> \in Seq(Chains)
  OBVIOUS
<1> QED BY <1>1 DEF NoRequest, RequestRecords

LEMMA OverTyped ==
    ASSUME NEW r \in Requests, request[r] \in RequestRecords
    PROVE  Over(r) \in RequestRecords /\ LocalsOK(r, Over(r))
<1>1. Over(r) \in RequestRecords
  BY NoRequestTyped DEF Over, RequestRecords
<1>2. Over(r).pc = "done" /\ Over(r).toSign = <<>>
  BY DEF Over, NoRequest
<1> QED BY <1>1, <1>2, NoneLeft DEF LocalsOK

LEMMA RequestTyped ==
    ASSUME Typed, NEW r \in Requests, NEW q \in RequestRecords, LocalsOK(r, q),
           request' = [request EXCEPT ![r] = q]
    PROVE  request' \in [Requests -> RequestRecords] /\ \A s \in Requests : LocalsOK(s, request'[s])
BY DEF Typed, TypeOK

LEMMA ToldTyped ==
    ASSUME NEW pg \in PageRecords
    PROVE  Told(pg) \in PageRecords /\ Told(pg).datas \subseteq pg.datas
<1>1. CASE pg.waiters = <<>>
  BY <1>1 DEF Told, PageRecords
<1>2. CASE pg.waiters # <<>>
  <2>1. pg.waiters \in Seq(Requests)
    BY DEF PageRecords
  <2>2. Tail(pg.waiters) \in Seq(Requests)
    BY <1>2, <2>1, Parts
  <2>3. Told(pg) = [pg EXCEPT !.waiters = Tail(@), !.datas = @ \ {Head(pg.waiters)}, !.loading = FALSE]
    BY <1>2 DEF Told, Finished, PageRecords
  <2> QED BY <2>2, <2>3 DEF PageRecords
<1> QED BY <1>1, <1>2

PagesOK == page \in [Pages -> PageRecords] /\ \A p \in Pages : \A q, r \in page[p].datas : q = r

LEMMA AllTold ==
    ASSUME PagesOK, page' = [p \in Pages |-> Told(page[p])]
    PROVE  PagesOK'
BY ToldTyped DEF PagesOK

LEMMA EndsTyped ==
    ASSUME Typed, NEW r \in Requests, Ends(r)
    PROVE  /\ request' \in [Requests -> RequestRecords] /\ \A s \in Requests : LocalsOK(s, request'[s])
           /\ PagesOK'
<1>1. request[r] \in RequestRecords /\ PagesOK
  BY DEF Typed, TypeOK, PagesOK
<1>2. request' = [request EXCEPT ![r] = Over(r)]
  BY DEF Ends
<1>3. PagesOK'
  <2>1. CASE page' = page
    BY <1>1, <2>1 DEF PagesOK
  <2>2. CASE page' = [p \in Pages |-> Told(page[p])]
    BY <1>1, <2>2, AllTold
  <2> QED BY <2>1, <2>2 DEF Ends
<1> QED BY <1>1, <1>2, <1>3, OverTyped, RequestTyped

(* The request goes on with the next chain, or ends.                       *)
LEMMA GoesOnTyped ==
    ASSUME Typed, NEW r \in Requests, GoesOn(r), Open(r), ~At(r, "reading"), request[r].toSign # <<>>
    PROVE  /\ request' \in [Requests -> RequestRecords] /\ \A s \in Requests : LocalsOK(s, request'[s])
           /\ PagesOK'
<1>1. CASE Tail(request[r].toSign) = <<>>
  BY <1>1, EndsTyped DEF GoesOn
<1>2. CASE Tail(request[r].toSign) # <<>>
  <2> DEFINE q == [request[r] EXCEPT !.pc = "approved", !.toSign = Tail(@)]
  <2>1. request[r] \in RequestRecords /\ LocalsOK(r, request[r])
    BY DEF Typed, TypeOK
  <2>2. request[r].toSign \in Seq(Chains)
    BY <2>1 DEF RequestRecords
  <2>3. /\ Tail(request[r].toSign) \in Seq(Chains)
        /\ Elements(Tail(request[r].toSign)) \subseteq Elements(request[r].toSign)
    BY <2>2, Parts
  <2>4. q \in RequestRecords
    BY <2>1, <2>3 DEF RequestRecords
  <2>5. LocalsOK(r, q)
    BY <2>1, <2>3 DEF LocalsOK, RequestRecords, Open, At
  <2>6. request' = [request EXCEPT ![r] = q] /\ UNCHANGED page
    BY <1>2 DEF GoesOn
  <2>7. PagesOK'
    BY <2>6 DEF Typed, TypeOK, PagesOK
  <2> QED BY <2>4, <2>5, <2>6, <2>7, RequestTyped
<1> QED BY <1>1, <1>2

-----------------------------------------------------------------------------
(* Type correctness.                                                       *)
LEMMA TypedInit == ASSUME Init PROVE Typed
<1>1. <<>> \in Seq(Requests)
  OBVIOUS
<1>2. Fresh \in PageRecords
  BY <1>1 DEF Fresh, PageRecords
<1>3. request \in [Requests -> RequestRecords]
  BY NoRequestTyped DEF Init
<1>4. page \in [Pages -> PageRecords] /\ \A p \in Pages : page[p].datas = {}
  BY <1>2 DEF Init, Fresh
<1>5. TypeOK
  BY <1>3, <1>4 DEF Init, TypeOK
<1>6. \A r \in Requests : LocalsOK(r, request[r])
  BY NoneLeft DEF Init, NoRequest, LocalsOK
<1> QED BY <1>5, <1>6 DEF Typed

AccountTyped ==
    /\ selected \in Accounts /\ unlocked \in BOOLEAN
    /\ coinTypeForChain \in [Accounts -> [Chains -> CoinTypes \cup {NotSet}]]

SignaturesTyped == signatures \in [Requests -> SUBSET [key : Keys, by : Keys]]

RequestsTyped == request \in [Requests -> RequestRecords] /\ \A r \in Requests : LocalsOK(r, request[r])

LEMMA TypedParts ==
    ASSUME AccountTyped', SignaturesTyped', RequestsTyped', PagesOK'
    PROVE  Typed'
BY DEF Typed, TypeOK, AccountTyped, SignaturesTyped, RequestsTyped, PagesOK

LEMMA SignatureAdded ==
    ASSUME Typed, NEW r \in Requests, Open(r), ~At(r, "reading"), request[r].toSign # <<>>,
           NEW by \in Keys, AddSignature(r, by)
    PROVE  /\ SignaturesTyped'
           /\ NextChain(r) \in Chains /\ request[r].keys[NextChain(r)] \in Keys
<1>1. request[r] \in RequestRecords /\ LocalsOK(r, request[r])
  BY DEF Typed, TypeOK
<1>2. NextChain(r) \in Chains /\ NextChain(r) \in Elements(request[r].toSign)
  BY <1>1, Parts DEF NextChain, RequestRecords
<1>3. request[r].keys[NextChain(r)] # NotSet
  BY <1>1, <1>2, NoneLeft DEF LocalsOK, Open, At
<1>4. request[r].keys[NextChain(r)] \in Keys
  BY <1>1, <1>2, <1>3 DEF RequestRecords
<1> QED BY <1>2, <1>4 DEF AddSignature, SignaturesTyped, Typed, TypeOK

LEMMA TypedAccount ==
    ASSUME Typed, User, UNCHANGED <<request, signatures, page>>
    PROVE  Typed'
<1>1. AccountTyped'
  <2>1. CASE UNCHANGED account
    BY <2>1 DEF Typed, TypeOK, AccountTyped, account
  <2>2. ASSUME NEW a \in Accounts, Select(a) PROVE AccountTyped'
    BY <2>2 DEF Select, Typed, TypeOK, AccountTyped
  <2>3. ASSUME NEW i \in Chains, RemoveCoinTypes(i) PROVE AccountTyped'
    BY <2>3 DEF RemoveCoinTypes, Typed, TypeOK, AccountTyped
  <2>4. ASSUME NEW i \in Chains, NEW t \in CoinTypes, SetCoinType(i, t) PROVE AccountTyped'
    BY <2>4 DEF SetCoinType, Typed, TypeOK, AccountTyped
  <2>5. CASE LockOrUnlock
    BY <2>5 DEF LockOrUnlock, Typed, TypeOK, AccountTyped
  <2> QED BY <2>1, <2>2, <2>3, <2>4, <2>5 DEF User, AnswerICNS, Leave, Close, Approve
<1>2. SignaturesTyped' /\ RequestsTyped' /\ PagesOK'
  BY DEF Typed, TypeOK, SignaturesTyped, RequestsTyped, PagesOK
<1> QED BY <1>1, <1>2, TypedParts

(* One request takes a step, and the account and the signatures stay.      *)
LEMMA TypedStep ==
    ASSUME Typed, NEW r \in Requests, NEW q \in RequestRecords, LocalsOK(r, q),
           request' = [request EXCEPT ![r] = q],
           UNCHANGED <<account, signatures>>, PagesOK'
    PROVE  Typed'
<1>1. RequestsTyped'
  BY RequestTyped DEF RequestsTyped
<1>2. AccountTyped' /\ SignaturesTyped'
  BY DEF Typed, TypeOK, AccountTyped, SignaturesTyped, account
<1> QED BY <1>1, <1>2, TypedParts

LEMMA PagesStay == ASSUME Typed, UNCHANGED page PROVE PagesOK'
BY DEF Typed, TypeOK, PagesOK

LEMMA OnePage ==
    ASSUME Typed, NEW p \in Pages, NEW pg \in PageRecords, \A q, r \in pg.datas : q = r,
           page' = [page EXCEPT ![p] = pg]
    PROVE  PagesOK'
BY DEF Typed, TypeOK, PagesOK

LEMMA TypedRequest ==
    ASSUME Typed, NEW r \in Requests, NEW a \in Accounts, Request(r, a)
    PROVE  Typed'
<1> DEFINE q == [NoRequest EXCEPT !.pc = "reading", !.signer = KeyOf(a, Asks[r].chains[1]),
                                  !.toRead = Asks[r].chains]
<1>1. Asks[r].chains \in Seq(Chains) /\ Asks[r].chains # <<>>
  BY SigningAssumption
<1>2. Asks[r].chains[1] \in Chains
  BY <1>1
<1>3. KeyOf(a, Asks[r].chains[1]) \in Keys
  BY <1>2, KeysTyped DEF Typed
<1>4. q \in RequestRecords
  BY <1>1, <1>3, NoRequestTyped DEF RequestRecords
<1>5. LocalsOK(r, q)
  BY <1>1, <1>3, NoneLeft DEF LocalsOK, NoRequest
<1>6. request' = [request EXCEPT ![r] = q] /\ UNCHANGED <<account, signatures, page>>
  BY DEF Request
<1> QED BY <1>4, <1>5, <1>6, PagesStay, TypedStep

LEMMA TypedReadKey ==
    ASSUME Typed, NEW r \in Requests, ReadKey(r)
    PROVE  Typed'
<1> DEFINE i == Head(request[r].toRead)
           rest == Tail(request[r].toRead)
           q == [request[r] EXCEPT !.keys[i] = KeyOf(selected, i), !.toRead = rest,
                                   !.pc = IF rest = <<>> THEN "asking" ELSE "reading"]
<1>1. request[r] \in RequestRecords /\ LocalsOK(r, request[r]) /\ selected \in Accounts
  BY DEF Typed, TypeOK
<1>2. request[r].toRead \in Seq(Chains) /\ request[r].toRead # <<>>
  BY <1>1 DEF RequestRecords, LocalsOK, ReadKey, At
<1>3. /\ i \in Chains /\ rest \in Seq(Chains)
      /\ Elements(request[r].toRead) \subseteq {i} \cup Elements(rest)
  BY <1>2, Parts
<1>4. KeyOf(selected, i) \in Keys /\ KeyOf(selected, i) # NotSet
  BY <1>1, <1>3, KeysTyped, SigningAssumption DEF Typed
<1>5. q \in RequestRecords
  BY <1>1, <1>3, <1>4 DEF RequestRecords
<1>6. LocalsOK(r, q)
  <2>1. q.pc \in {"asking", "reading"} /\ (q.pc = "reading" <=> rest # <<>>) /\ q.toRead = rest
        /\ q.signer = request[r].signer /\ q.toSign = request[r].toSign
    BY <1>1 DEF RequestRecords
  <2>2. request[r].signer \in Keys /\ request[r].pc = "reading"
    BY <1>1 DEF LocalsOK, ReadKey, At
  <2>3. ASSUME NEW j \in Elements(Asks[r].chains) \ Elements(rest) PROVE q.keys[j] # NotSet
    <3>1. j \in Chains
      BY InSet, SigningAssumption
    <3>2. q.keys = [request[r].keys EXCEPT ![i] = KeyOf(selected, i)] /\ request[r].keys \in [Chains -> Keys \cup {NotSet}]
      BY <1>1 DEF RequestRecords
    <3>3. CASE j = i
      BY <3>1, <3>2, <3>3, <1>4
    <3>4. CASE j # i
      <4>1. request[r].keys[j] # NotSet
        BY <3>4, <1>1, <1>3, <2>2 DEF LocalsOK
      <4> QED BY <4>1, <3>1, <3>2, <3>4
    <3> QED BY <3>3, <3>4
  <2> QED BY <1>1, <2>1, <2>2, <2>3 DEF LocalsOK
<1>7. request' = [request EXCEPT ![r] = q] /\ UNCHANGED <<account, signatures, page>>
  BY DEF ReadKey
<1> QED BY <1>5, <1>6, <1>7, PagesStay, TypedStep

LEMMA TypedOver ==
    ASSUME Typed, NEW r \in Requests, request' = [request EXCEPT ![r] = Over(r)],
           UNCHANGED <<account, signatures>>, PagesOK'
    PROVE  Typed'
<1>1. request[r] \in RequestRecords
  BY DEF Typed, TypeOK
<1>2. Over(r) \in RequestRecords /\ LocalsOK(r, Over(r))
  BY <1>1, OverTyped
<1> QED BY <1>2, TypedStep

LEMMA TypedPush ==
    ASSUME Typed, NEW r \in Requests, NEW p \in Pages, Push(r, p)
    PROVE  Typed'
<1>1. request[r] \in RequestRecords /\ LocalsOK(r, request[r]) /\ request[r].pc = "asking"
  BY DEF Typed, TypeOK, Push, At
<1>2. CASE page[p].datas = {}
  <2>1. page' = [page EXCEPT ![p].datas = {r}] /\ request' = [request EXCEPT ![r].pc = "waiting"]
    BY <1>2 DEF Push
  <2>2. PagesOK'
    <3>1. page[p] \in PageRecords
      BY DEF Typed, TypeOK
    <3>2. [page[p] EXCEPT !.datas = {r}] \in PageRecords /\ [page[p] EXCEPT !.datas = {r}].datas = {r}
      BY <3>1 DEF PageRecords
    <3>3. page' = [page EXCEPT ![p] = [page[p] EXCEPT !.datas = {r}]]
      BY <2>1
    <3> QED BY <3>2, <3>3, OnePage
  <2>3. [request[r] EXCEPT !.pc = "waiting"] \in RequestRecords
    BY <1>1 DEF RequestRecords
  <2>4. LocalsOK(r, [request[r] EXCEPT !.pc = "waiting"])
    BY <1>1 DEF LocalsOK, RequestRecords
  <2> QED BY <2>1, <2>2, <2>3, <2>4, TypedStep DEF Push
<1>3. CASE page[p].datas # {}
  BY <1>3, TypedOver, PagesStay DEF Push
<1> QED BY <1>2, <1>3

(* The approval of a request that waits for it.                            *)
LEMMA TypedApproved ==
    ASSUME Typed, NEW r \in Requests, request[r].pc \in {"asking", "waiting"}, request' = Approved(r),
           UNCHANGED <<account, signatures>>, PagesOK'
    PROVE  Typed'
<1> DEFINE all == Asks[r].chains
           q == [request[r] EXCEPT !.pc = "approved", !.toSign = IF Is(r, "icns") THEN Tail(all) ELSE all]
<1>1. request[r] \in RequestRecords /\ LocalsOK(r, request[r])
  BY DEF Typed, TypeOK
<1>2. all \in Seq(Chains) /\ Tail(all) \in Seq(Chains) /\ Elements(Tail(all)) \subseteq Elements(all)
  BY SigningAssumption, Parts
<1>3. q \in RequestRecords
  BY <1>1, <1>2 DEF RequestRecords
<1>4. LocalsOK(r, q)
  BY <1>1, <1>2 DEF LocalsOK, RequestRecords
<1>5. request' = [request EXCEPT ![r] = q]
  BY DEF Approved
<1> QED BY <1>3, <1>4, <1>5, TypedStep

LEMMA TypedApprove ==
    ASSUME Typed, NEW p \in Pages, NEW r \in Requests, Approve(p, r)
    PROVE  Typed'
<1> DEFINE pg == [page[p] EXCEPT !.loading = TRUE, !.sent = Append(@, r)]
<1>1. page[p] \in PageRecords /\ \A q, s \in page[p].datas : q = s
  BY DEF Typed, TypeOK
<1>2. Append(page[p].sent, r) \in Seq(Requests)
  BY <1>1 DEF PageRecords
<1>3. pg \in PageRecords /\ pg.datas = page[p].datas
  BY <1>1, <1>2 DEF PageRecords
<1>4. page' = [page EXCEPT ![p] = pg]
  BY DEF Approve
<1>5. PagesOK'
  <2>1. \A q, s \in pg.datas : q = s
    BY <1>1, <1>3
  <2> HIDE DEF pg
  <2> QED BY <1>3, <1>4, <2>1, OnePage
<1>6. CASE At(r, "waiting")
  BY <1>5, <1>6, TypedApproved DEF Approve, At
<1>7. CASE ~At(r, "waiting")
  <2>1. AccountTyped' /\ SignaturesTyped' /\ RequestsTyped'
    BY <1>7 DEF Approve, Typed, TypeOK, AccountTyped, SignaturesTyped, RequestsTyped, account
  <2> QED BY <1>5, <2>1, TypedParts
<1> QED BY <1>6, <1>7

LEMMA TypedGetReply ==
    ASSUME Typed, NEW p \in Pages, GetReply(p)
    PROVE  Typed'
<1> DEFINE r == Head(page[p].sent)
           pg == [page[p] EXCEPT !.sent = Tail(@)]
           after == IF pg.ended THEN Finished(pg, r) ELSE [pg EXCEPT !.waiters = Append(@, r)]
<1>1. page[p] \in PageRecords /\ \A q, s \in page[p].datas : q = s
  BY DEF Typed, TypeOK
<1>2. page[p].sent \in Seq(Requests) /\ page[p].sent # <<>>
  BY <1>1 DEF PageRecords, GetReply
<1>3. r \in Requests /\ Tail(page[p].sent) \in Seq(Requests)
  BY <1>2, Parts
<1>4. pg \in PageRecords /\ pg.datas = page[p].datas
  BY <1>1, <1>3 DEF PageRecords
<1>5. Append(pg.waiters, r) \in Seq(Requests)
  BY <1>3, <1>4 DEF PageRecords
<1>6. after \in PageRecords /\ after.datas \subseteq page[p].datas
  <2> HIDE DEF pg, r
  <2> QED BY <1>4, <1>5 DEF PageRecords, Finished
<1>7. page' = [page EXCEPT ![p] = after]
  BY DEF GetReply
<1>8. PagesOK'
  <2>1. \A q, s \in after.datas : q = s
    BY <1>1, <1>6
  <2> HIDE DEF after
  <2> QED BY <1>6, <1>7, <2>1, OnePage
<1>9. AccountTyped' /\ SignaturesTyped' /\ RequestsTyped'
  BY DEF GetReply, Typed, TypeOK, AccountTyped, SignaturesTyped, RequestsTyped, account
<1> QED BY <1>8, <1>9, TypedParts

(* What a page shows is rejected, as it is left or closed.                 *)
LEMMA TypedGone ==
    ASSUME Typed, NEW p \in Pages, Leave(p) \/ Close(p)
    PROVE  Typed'
<1>1. page[p] \in PageRecords
  BY DEF Typed, TypeOK
<1>2. <<>> \in Seq(Requests)
  OBVIOUS
<1>3. Fresh \in PageRecords /\ Fresh.datas = {}
  BY <1>2 DEF Fresh, PageRecords
<1>4. [page[p] EXCEPT !.datas = {}, !.loading = FALSE] \in PageRecords
  BY <1>1 DEF PageRecords
<1>5. [page[p] EXCEPT !.datas = {}, !.loading = FALSE].datas = {}
  BY <1>1 DEF PageRecords
<1>6. PagesOK'
  <2>1. CASE Close(p)
    BY <1>3, <2>1, OnePage DEF Close
  <2>2. CASE Leave(p)
    <3>1. page' = [page EXCEPT ![p] = [page[p] EXCEPT !.datas = {}, !.loading = FALSE]]
      BY <2>2 DEF Leave
    <3> QED BY <1>4, <1>5, <3>1, OnePage
  <2> QED BY <2>1, <2>2
<1>7. RequestsTyped'
  <2>1. \A r \in Requests : request[r] \in RequestRecords /\ LocalsOK(r, request[r])
    BY DEF Typed, TypeOK
  <2>2. \A r \in Requests : Over(r) \in RequestRecords /\ LocalsOK(r, Over(r))
    BY <2>1, OverTyped
  <2>3. request' = Rejected(p)
    BY DEF Leave, Close
  <2> QED BY <2>1, <2>2, <2>3 DEF Rejected, RequestsTyped
<1>8. AccountTyped' /\ SignaturesTyped'
  BY DEF Leave, Close, Typed, TypeOK, AccountTyped, SignaturesTyped, account
<1> QED BY <1>6, <1>7, <1>8, TypedParts

(* The steps after the approval.                                           *)
LEMMA TypedSigning ==
    ASSUME Typed, NEW r \in Requests,
           \/ NothingToSign(r) \/ SignFails(r) \/ Saved(r) \/ DeviceFails(r)
           \/ Sign(r) \/ AskDevice(r) \/ DeviceAnswers(r)
    PROVE  Typed'
<1>0. request[r] \in RequestRecords /\ LocalsOK(r, request[r]) /\ selected \in Accounts
  BY DEF Typed, TypeOK
<1>1. ASSUME Ends(r), UNCHANGED <<account, signatures>> PROVE Typed'
  <2>1. RequestsTyped' /\ PagesOK'
    BY <1>1, EndsTyped DEF RequestsTyped
  <2>2. AccountTyped' /\ SignaturesTyped'
    BY <1>1 DEF Typed, TypeOK, AccountTyped, SignaturesTyped, account
  <2> QED BY <2>1, <2>2, TypedParts
<1>2. ASSUME GoesOn(r), Open(r), ~At(r, "reading"), request[r].toSign # <<>>,
             UNCHANGED account, SignaturesTyped'
      PROVE  Typed'
  <2>1. RequestsTyped' /\ PagesOK'
    BY <1>2, GoesOnTyped DEF RequestsTyped
  <2>2. AccountTyped'
    BY <1>2 DEF Typed, TypeOK, AccountTyped, account
  <2> QED BY <1>2, <2>1, <2>2, TypedParts
<1>3. UNCHANGED signatures => SignaturesTyped'
  BY DEF Typed, TypeOK, SignaturesTyped
<1>4. CASE request[r].toSign # <<>> /\ Open(r) /\ ~At(r, "reading")
  <2>1. NextChain(r) \in Chains
    BY <1>0, <1>4, Parts DEF NextChain, RequestRecords
  <2>2. /\ CoinType(selected, NextChain(r)) \in CoinTypes
        /\ SigningKey(r, NextChain(r)) \in Keys
    BY <1>0, <2>1, KeysTyped DEF Typed
  <2>3. CASE Sign(r)
    <3>1. SignaturesTyped'
      BY <1>4, <2>2, <2>3, SignatureAdded DEF Sign
    <3>2. AccountTyped'
      BY <2>1, <2>2, <2>3 DEF Sign, Typed, TypeOK, AccountTyped
    <3>3. [request[r] EXCEPT !.pc = "saving"] \in RequestRecords
      BY <1>0 DEF RequestRecords
    <3>4. LocalsOK(r, [request[r] EXCEPT !.pc = "saving"])
      BY <1>0, <1>4 DEF LocalsOK, RequestRecords, Open, At
    <3>5. request' = [request EXCEPT ![r] = [request[r] EXCEPT !.pc = "saving"]] /\ UNCHANGED page
      BY <2>3 DEF Sign
    <3>6. RequestsTyped' /\ PagesOK'
      BY <3>3, <3>4, <3>5, RequestTyped, PagesStay DEF RequestsTyped
    <3> QED BY <3>1, <3>2, <3>6, TypedParts
  <2>4. CASE AskDevice(r)
    <3> DEFINE q == [request[r] EXCEPT !.pc = "device", !.by = SigningKey(r, NextChain(r))]
    <3>1. q \in RequestRecords
      BY <1>0, <2>2 DEF RequestRecords
    <3>2. LocalsOK(r, q)
      BY <1>0, <1>4, <2>2 DEF LocalsOK, RequestRecords, Open, At
    <3>3. request' = [request EXCEPT ![r] = q] /\ UNCHANGED <<account, signatures, page>>
      BY <2>4 DEF AskDevice
    <3> QED BY <3>1, <3>2, <3>3, PagesStay, TypedStep
  <2>5. CASE DeviceAnswers(r)
    <3>1. request[r].by \in Keys
      BY <1>0, <2>5 DEF LocalsOK, DeviceAnswers, At
    <3>2. SignaturesTyped'
      BY <1>4, <2>5, <3>1, SignatureAdded DEF DeviceAnswers
    <3> QED BY <1>2, <1>4, <2>5, <3>2 DEF DeviceAnswers
  <2>6. CASE NothingToSign(r) \/ SignFails(r) \/ Saved(r) \/ DeviceFails(r)
    BY <1>1, <1>2, <1>3, <1>4, <2>6 DEF NothingToSign, SignFails, Saved, DeviceFails
  <2> QED BY <2>3, <2>4, <2>5, <2>6
<1>5. CASE request[r].toSign = <<>> \/ ~Open(r) \/ At(r, "reading")
  <2>1. At(r, "approved") \/ At(r, "saving") \/ At(r, "device")
    BY DEF NothingToSign, SignFails, Saved, DeviceFails, Sign, AskDevice, DeviceAnswers
  <2>2. request[r].toSign = <<>> /\ At(r, "approved")
    BY <1>0, <1>5, <2>1 DEF Open, At, LocalsOK
  <2>3. NothingToSign(r)
    BY <2>2 DEF SignFails, Saved, DeviceFails, Sign, AskDevice, DeviceAnswers, At
  <2> QED BY <1>1, <2>2, <2>3 DEF NothingToSign
<1> QED BY <1>4, <1>5

LEMMA TypedNext == Typed /\ [Next]_vars => Typed'
<1> SUFFICES ASSUME Typed, [Next]_vars PROVE Typed'
  OBVIOUS
<1>1. ASSUME NEW r \in Requests, Background(r) PROVE Typed'
  <2>1. CASE Refuse(r)
    BY <2>1, TypedOver, PagesStay DEF Refuse
  <2>2. ASSUME NEW p \in Pages, Push(r, p) PROVE Typed'
    BY <2>2, TypedPush
  <2> QED BY <1>1, <2>1, <2>2, TypedReadKey, TypedSigning DEF Background
<1>2. ASSUME NEW r \in Requests, NEW a \in Accounts, Request(r, a) PROVE Typed'
  BY <1>2, TypedRequest
<1>3. ASSUME NEW p \in Pages, GetReply(p) PROVE Typed'
  BY <1>3, TypedGetReply
<1>4. CASE User
  <2>1. ASSUME NEW r \in Requests, NEW approves \in BOOLEAN, AnswerICNS(r, approves) PROVE Typed'
    BY <2>1, TypedApproved, TypedOver, PagesStay DEF AnswerICNS, At
  <2>2. ASSUME NEW p \in Pages, Leave(p) \/ Close(p) \/ \E r \in Requests : Approve(p, r) PROVE Typed'
    BY <2>2, TypedGone, TypedApprove
  <2>3. CASE UNCHANGED <<request, signatures, page>>
    BY <1>4, <2>3, TypedAccount
  <2> QED BY <1>4, <2>1, <2>2, <2>3 DEF User, Select, SetCoinType, RemoveCoinTypes, LockOrUnlock
<1>5. CASE UNCHANGED vars
  BY <1>5 DEF Typed, TypeOK, vars, account
<1> QED BY <1>1, <1>2, <1>3, <1>4, <1>5 DEF Next

(* Each variable has its type in every behaviour, and a page of the wallet *)
(* shows one signing request at a time, as the autorun of                  *)
(* SignInteractionStore promises.                                          *)
THEOREM SigningTypeCorrect == Spec => []TypeOK
<1>1. Typed => TypeOK
  BY DEF Typed
<1> QED BY <1>1, TypedInit, TypedNext, PTL DEF Spec

-----------------------------------------------------------------------------
(* Signatures.                                                             *)
OfSigner(r, signer, s) ==
    /\ s.key.account = signer.account
    /\ s.by.account = s.key.account
    /\ s.by # s.key => Is(r, "ethereum") /\ KindOf[s.by.account] = "ledger"

(* What a request carries is of the account that is selected, once its     *)
(* first key has been read.                                                *)
Carries(r, q) ==
    /\ q.pc = "reading" => q.toRead = Asks[r].chains \/ q.signer.account = selected
    /\ q.pc \notin {"idle", "done", "reading"} => q.signer.account = selected
    /\ q.pc \notin {"idle", "done"} => \A i \in Chains : q.keys[i] \in {NotSet, KeyOf(selected, i)}
    /\ q.pc = "device" => q.by = SigningKey(r, Head(q.toSign))

SignedOK(r) ==
    /\ At(r, "idle") => signatures[r] = {}
    /\ \A s \in signatures[r] : OfSigner(r, request[r].signer, s)

Faithful == \A r \in Requests : Carries(r, request[r]) /\ SignedOK(r)

IInv == Typed /\ Faithful

(* The keys of the selected account are what they were.                    *)
KeysStay == selected' = selected /\ \A i \in Chains : CoinType(selected, i)' = CoinType(selected, i)

LEMMA Unlike ==
    ASSUME Typed, NEW r \in Requests, NEW i \in Chains, SigningKey(r, i) # KeyOf(selected, i)
    PROVE  Is(r, "ethereum") /\ KindOf[SigningKey(r, i).account] = "ledger"
<1>1. SigningKey(r, i).account = selected
  <2>1. TypeOK /\ selected \in Accounts
    BY DEF Typed, TypeOK
  <2> QED BY <2>1, KeysTyped
<1>2. KindOf[selected] = "ledger"
  BY DEF SigningKey, KeyOf, Derived
<1>3. Is(r, "ethereum")
  BY DEF SigningKey, KeyOf, AppOf
<1> QED BY <1>1, <1>2, <1>3

LEMMA AccountKept == UNCHANGED account => KeysStay
BY DEF account, KeysStay, CoinType

LEMMA CarriesKept ==
    ASSUME KeysStay, Typed, NEW r \in Requests, NEW q, Carries(r, q), LocalsOK(r, q), q \in RequestRecords
    PROVE  Carries(r, q)'
<1>1. \A i \in Chains : KeyOf(selected, i)' = KeyOf(selected, i) /\ SigningKey(r, i)' = SigningKey(r, i)
  BY DEF KeysStay, KeyOf, SigningKey, Derived, AppOf
<1>2. q.pc = "device" => Head(q.toSign) \in Chains
  BY Parts DEF LocalsOK, RequestRecords
<1> QED BY <1>1, <1>2 DEF Carries, KeysStay

(* One request takes a step; the others are as they were.                  *)
LEMMA FaithfulStep ==
    ASSUME IInv, KeysStay, NEW r \in Requests, NEW q, request' = [request EXCEPT ![r] = q],
           Carries(r, q)', SignedOK(r)', \A o \in Requests \ {r} : signatures'[o] = signatures[o]
    PROVE  Faithful'
<1> SUFFICES ASSUME NEW o \in Requests PROVE Carries(o, request[o])' /\ SignedOK(o)'
  BY DEF Faithful
<1>1. request[o] \in RequestRecords /\ LocalsOK(o, request[o]) /\ Carries(o, request[o]) /\ SignedOK(o)
  BY DEF IInv, Typed, TypeOK, Faithful
<1>2. CASE o = r
  BY <1>2 DEF IInv, Typed, TypeOK
<1>3. CASE o # r
  <2>1. request'[o] = request[o] /\ signatures'[o] = signatures[o]
    BY <1>3
  <2>2. Carries(o, request[o])'
    BY <1>1, <2>1, CarriesKept DEF IInv
  <2>3. SignedOK(o)'
    BY <1>1, <2>1 DEF SignedOK, At
  <2> QED BY <2>2, <2>3
<1> QED BY <1>2, <1>3

LEMMA OverCarries ==
    ASSUME NEW r \in Requests
    PROVE  /\ Carries(r, Over(r)) /\ Over(r).pc = "done" /\ Over(r).signer = request[r].signer
BY DEF Over, NoRequest, Carries

(* The signatures of other requests stay, those of r are of its signer.    *)
Signs(r) ==
    /\ \A o \in Requests \ {r} : signatures'[o] = signatures[o]
    /\ \A s \in signatures'[r] : OfSigner(r, request[r].signer, s)

LEMMA SignsNothing == ASSUME IInv, UNCHANGED signatures, NEW r \in Requests PROVE Signs(r)
BY DEF IInv, Faithful, SignedOK, Signs

(* The signer of a request that goes on is the one of before.              *)
LEMMA StillSigned ==
    ASSUME NEW r \in Requests, Signs(r), request'[r].pc # "idle", request'[r].signer = request[r].signer
    PROVE  SignedOK(r)'
BY DEF Signs, SignedOK, At, OfSigner

LEMMA FaithfulOver ==
    ASSUME IInv, UNCHANGED account, NEW r \in Requests, Signs(r), request' = [request EXCEPT ![r] = Over(r)]
    PROVE  Faithful'
<1>0. PICK q : q = Over(r)
  OBVIOUS
<1>1. q.pc = "done" /\ q.signer = request[r].signer
  BY <1>0, OverCarries
<1>2. Carries(r, q)'
  BY <1>1 DEF Carries
<1>3. request' = [request EXCEPT ![r] = q] /\ request'[r] = q
  BY <1>0 DEF IInv, Typed, TypeOK
<1>4. SignedOK(r)'
  BY <1>1, <1>3, StillSigned
<1> QED BY <1>2, <1>3, <1>4, AccountKept, FaithfulStep DEF Signs

LEMMA FaithfulInit == ASSUME Init PROVE Faithful
BY DEF Init, Faithful, NoRequest, Carries, SignedOK

LEMMA RequestParts ==
    ASSUME IInv, NEW r \in Requests
    PROVE  /\ request[r] \in RequestRecords /\ LocalsOK(r, request[r])
           /\ Carries(r, request[r]) /\ SignedOK(r)
           /\ selected \in Accounts /\ TypeOK /\ request = [request EXCEPT ![r] = request[r]]
BY DEF IInv, Typed, TypeOK, Faithful

(* While no request is open, the account may change.                       *)
LEMMA FaithfulAccount ==
    ASSUME IInv, AccountStays = TRUE, User, UNCHANGED <<request, signatures, page>>
    PROVE  Faithful'
<1>1. CASE KeysStay
  <2> SUFFICES ASSUME NEW r \in Requests PROVE Carries(r, request[r])' /\ SignedOK(r)'
    BY DEF Faithful
  <2>1. Carries(r, request[r])'
    BY <1>1, RequestParts, CarriesKept DEF IInv
  <2>2. SignedOK(r)'
    BY RequestParts DEF SignedOK, At
  <2> QED BY <2>1, <2>2
<1>2. CASE \A r \in Requests : ~Open(r)
  BY <1>2 DEF IInv, Faithful, Carries, SignedOK, At, Open
<1>3. KeysStay \/ \A r \in Requests : ~Open(r)
  <2>1. CASE UNCHANGED account
    BY <2>1, AccountKept
  <2>2. CASE LockOrUnlock
    BY <2>2 DEF LockOrUnlock, account, KeysStay, CoinType
  <2>3. CASE Settled
    BY <2>3 DEF Settled
  <2> QED BY <2>1, <2>2, <2>3 DEF User, Select, SetCoinType, RemoveCoinTypes, AnswerICNS, Leave, Close, Approve
<1> QED BY <1>1, <1>2, <1>3

LEMMA FaithfulRequest ==
    ASSUME IInv, NEW r \in Requests, NEW a \in Accounts, Request(r, a)
    PROVE  Faithful'
<1>0. PICK q : q = [NoRequest EXCEPT !.pc = "reading", !.signer = KeyOf(a, Asks[r].chains[1]),
                                     !.toRead = Asks[r].chains]
  OBVIOUS
<1>1. /\ q.pc = "reading" /\ q.toRead = Asks[r].chains /\ q.keys = [i \in Chains |-> NotSet]
      /\ q.signer = KeyOf(a, Asks[r].chains[1])
  BY <1>0 DEF NoRequest
<1>2. request' = [request EXCEPT ![r] = q] /\ signatures[r] = {} /\ UNCHANGED <<account, signatures>>
  BY <1>0, RequestParts DEF Request, SignedOK
<1>3. Carries(r, q)'
  BY <1>1 DEF Carries
<1>4. SignedOK(r)'
  BY <1>2 DEF SignedOK
<1> QED BY <1>2, <1>3, <1>4, AccountKept, FaithfulStep

LEMMA FaithfulReadKey ==
    ASSUME IInv, NEW r \in Requests, ReadKey(r)
    PROVE  Faithful'
<1> DEFINE i == Head(request[r].toRead)
           rest == Tail(request[r].toRead)
<1>0. PICK q : q = [request[r] EXCEPT !.keys[i] = KeyOf(selected, i), !.toRead = rest,
                                      !.pc = IF rest = <<>> THEN "asking" ELSE "reading"]
  OBVIOUS
<1>1. /\ request[r] \in RequestRecords /\ LocalsOK(r, request[r]) /\ Carries(r, request[r])
      /\ request[r].pc = "reading" /\ selected \in Accounts /\ TypeOK
  BY RequestParts DEF ReadKey, At
<1>2. request[r].toRead \in Seq(Chains) /\ request[r].toRead # <<>>
  BY <1>1 DEF RequestRecords, LocalsOK
<1>3. i \in Chains
  BY <1>2, Parts
<1>4. request[r].signer.account = selected
  <2>1. CASE request[r].toRead = Asks[r].chains
    BY <1>1, <1>3, <2>1, KeysTyped DEF ReadKey
  <2>2. CASE request[r].toRead # Asks[r].chains
    BY <1>1, <2>2 DEF Carries
  <2> QED BY <2>1, <2>2
<1>5. /\ q.pc \in {"asking", "reading"} /\ q.signer = request[r].signer
      /\ q.keys = [request[r].keys EXCEPT ![i] = KeyOf(selected, i)]
      /\ request[r].keys \in [Chains -> Keys \cup {NotSet}]
  BY <1>0, <1>1 DEF RequestRecords
<1>6. Carries(r, q)
  <2>1. \A j \in Chains : q.keys[j] \in {NotSet, KeyOf(selected, j)}
    BY <1>1, <1>3, <1>5 DEF Carries
  <2> QED BY <1>4, <1>5, <2>1 DEF Carries
<1>7. request' = [request EXCEPT ![r] = q] /\ UNCHANGED <<account, signatures>>
  BY <1>0 DEF ReadKey
<1>8. SignedOK(r)'
  BY <1>1, <1>5, <1>7, RequestParts DEF SignedOK, At
<1>9. Carries(r, q)'
  <2>1. KeysStay /\ \A j \in Chains : KeyOf(selected, j)' = KeyOf(selected, j)
    BY <1>7, AccountKept DEF KeysStay, KeyOf, Derived
  <2> QED BY <1>5, <1>6, <2>1 DEF Carries, KeysStay
<1> QED BY <1>7, <1>8, <1>9, AccountKept, FaithfulStep

(* A step within the same request that reads no key.                       *)
Passing(q) == q.pc \notin {"idle", "reading", "done"}

LEMMA FaithfulQuiet ==
    ASSUME IInv, UNCHANGED account, NEW r \in Requests, Signs(r),
           Passing(request[r]), NEW q, Passing(q), q.pc # "device",
           q.signer = request[r].signer, q.keys = request[r].keys,
           request' = [request EXCEPT ![r] = q]
    PROVE  Faithful'
<1>1. Carries(r, request[r])
  BY RequestParts
<1>2. KeysStay /\ \A j \in Chains : KeyOf(selected, j)' = KeyOf(selected, j)
  BY AccountKept DEF KeysStay, KeyOf, Derived
<1>3. Carries(r, q)'
  BY <1>1, <1>2 DEF Carries, KeysStay, Passing
<1>4. request'[r] = q
  BY DEF IInv, Typed, TypeOK
<1>5. SignedOK(r)'
  BY <1>4, StillSigned DEF Passing
<1> QED BY <1>2, <1>3, <1>5, FaithfulStep DEF Signs

LEMMA FaithfulGone ==
    ASSUME IInv, NEW p \in Pages, Leave(p) \/ Close(p)
    PROVE  Faithful'
<1> SUFFICES ASSUME NEW r \in Requests PROVE Carries(r, request[r])' /\ SignedOK(r)'
  BY DEF Faithful
<1>1. request' = Rejected(p) /\ UNCHANGED <<account, signatures>> /\ KeysStay
  BY AccountKept DEF Leave, Close
<1>2. CASE request'[r] = request[r]
  <2>1. Carries(r, request[r])'
    BY <1>1, <1>2, RequestParts, CarriesKept DEF IInv
  <2>2. SignedOK(r)'
    BY <1>1, <1>2, RequestParts DEF SignedOK, At
  <2> QED BY <2>1, <2>2
<1>3. CASE request'[r] = Over(r)
  <2>1. request'[r].pc = "done" /\ request'[r].signer = request[r].signer
    BY <1>3, OverCarries
  <2>2. Carries(r, request[r])'
    BY <2>1 DEF Carries
  <2>3. SignedOK(r)'
    BY <1>1, <2>1, RequestParts DEF SignedOK, At
  <2> QED BY <2>2, <2>3
<1> QED BY <1>1, <1>2, <1>3 DEF Rejected

LEMMA FaithfulApproved ==
    ASSUME IInv, NEW r \in Requests, request[r].pc \in {"asking", "waiting"}, request' = Approved(r),
           UNCHANGED <<account, signatures>>
    PROVE  Faithful'
<1> DEFINE toSign == IF Is(r, "icns") THEN Tail(Asks[r].chains) ELSE Asks[r].chains
<1>1. PICK q : q = [request[r] EXCEPT !.pc = "approved", !.toSign = toSign]
  OBVIOUS
<1>2. /\ Passing(request[r]) /\ Passing(q) /\ q.pc # "device"
      /\ q.signer = request[r].signer /\ q.keys = request[r].keys
  BY <1>1, RequestParts DEF RequestRecords, Passing
<1>3. request' = [request EXCEPT ![r] = q]
  BY <1>1 DEF Approved
<1> QED BY <1>2, <1>3, FaithfulQuiet, SignsNothing

LEMMA FaithfulGoesOn ==
    ASSUME IInv, NEW r \in Requests, request[r].pc \in {"approved", "saving", "device"},
           GoesOn(r), UNCHANGED account, Signs(r)
    PROVE  Faithful'
<1>1. CASE Tail(request[r].toSign) = <<>>
  BY <1>1, FaithfulOver DEF GoesOn, Ends
<1>2. CASE Tail(request[r].toSign) # <<>>
  <2>1. PICK q : q = [request[r] EXCEPT !.pc = "approved", !.toSign = Tail(@)]
    OBVIOUS
  <2>2. /\ Passing(request[r]) /\ Passing(q) /\ q.pc # "device"
        /\ q.signer = request[r].signer /\ q.keys = request[r].keys
    BY <2>1, RequestParts DEF RequestRecords, Passing
  <2>3. request' = [request EXCEPT ![r] = q]
    BY <1>2, <2>1 DEF GoesOn
  <2> QED BY <2>2, <2>3, FaithfulQuiet
<1> QED BY <1>1, <1>2

(* The key of the chain that is signed for is that of the account.         *)
LEMMA NextKey ==
    ASSUME IInv, NEW r \in Requests, request[r].pc \in {"approved", "device"}, request[r].toSign # <<>>
    PROVE  /\ NextChain(r) \in Chains
           /\ request[r].keys[NextChain(r)] = KeyOf(selected, NextChain(r))
           /\ OfSigner(r, request[r].signer,
                       [key |-> request[r].keys[NextChain(r)], by |-> SigningKey(r, NextChain(r))])
<1> DEFINE i == NextChain(r)
<1>1. /\ request[r] \in RequestRecords /\ LocalsOK(r, request[r]) /\ Carries(r, request[r])
      /\ selected \in Accounts /\ TypeOK
  BY RequestParts
<1>2. i \in Chains /\ i \in Elements(Asks[r].chains)
  BY <1>1, Parts DEF NextChain, RequestRecords, LocalsOK
<1>3. request[r].keys[i] = KeyOf(selected, i)
  BY <1>1, <1>2, NoneLeft DEF LocalsOK, Carries
<1>4. KeyOf(selected, i).account = selected /\ SigningKey(r, i).account = selected
  BY <1>1, <1>2, KeysTyped
<1>5. request[r].signer.account = selected
  BY <1>1 DEF Carries
<1>6. SigningKey(r, i) # KeyOf(selected, i) => Is(r, "ethereum") /\ KindOf[selected] = "ledger"
  BY <1>2, <1>4, Unlike DEF IInv
<1> HIDE DEF i
<1>7. OfSigner(r, request[r].signer, [key |-> request[r].keys[i], by |-> SigningKey(r, i)])
  BY <1>3, <1>4, <1>5, <1>6 DEF OfSigner
<1> QED BY <1>2, <1>3, <1>7 DEF i

LEMMA SignatureOfSigner ==
    ASSUME IInv, NEW r \in Requests, request[r].pc \in {"approved", "device"}, request[r].toSign # <<>>,
           AddSignature(r, SigningKey(r, NextChain(r)))
    PROVE  Signs(r)
<1> DEFINE added == [key |-> request[r].keys[NextChain(r)], by |-> SigningKey(r, NextChain(r))]
<1>1. signatures' = [signatures EXCEPT ![r] = @ \cup {added}] /\ SignedOK(r) /\ TypeOK
  BY RequestParts DEF AddSignature
<1>2. OfSigner(r, request[r].signer, added)
  BY NextKey
<1> HIDE DEF added
<1> QED BY <1>1, <1>2 DEF Signs, SignedOK, TypeOK

LEMMA FaithfulSign ==
    ASSUME IInv, NEW r \in Requests, Sign(r)
    PROVE  Faithful'
<1>0. PICK q : q = [request[r] EXCEPT !.pc = "saving"]
  OBVIOUS
<1>1. request[r] \in RequestRecords /\ Carries(r, request[r]) /\ SignedOK(r) /\ TypeOK /\ selected \in Accounts
  BY RequestParts
<1>2. request[r].pc = "approved" /\ request[r].toSign # <<>>
  BY DEF Sign, At
<1>3. q.pc = "saving" /\ q.signer = request[r].signer /\ q.keys = request[r].keys
  BY <1>0, <1>1 DEF RequestRecords
<1>4. KeysStay
  <2>1. selected' = selected /\ NextChain(r) \in Chains
    BY <1>2, NextKey DEF Sign
  <2>2. CASE coinTypeForChain' = coinTypeForChain
    BY <2>1, <2>2 DEF KeysStay, CoinType
  <2>3. CASE /\ coinTypeForChain[selected][NextChain(r)] = NotSet
             /\ coinTypeForChain' = [coinTypeForChain EXCEPT ![selected][NextChain(r)] = CoinType(selected, NextChain(r))]
    <3>1. CoinType(selected, NextChain(r)) = DefaultCoinType[NextChain(r)]
      BY <2>3 DEF CoinType
    <3>2. coinTypeForChain \in [Accounts -> [Chains -> CoinTypes \cup {NotSet}]]
      BY <1>1 DEF TypeOK
    <3>3. \A i \in Chains : coinTypeForChain'[selected][i] =
             IF i = NextChain(r) THEN DefaultCoinType[i] ELSE coinTypeForChain[selected][i]
      BY <1>1, <2>1, <2>3, <3>1, <3>2
    <3> QED BY <2>1, <2>3, <3>3 DEF KeysStay, CoinType
  <2> QED BY <2>2, <2>3 DEF Sign
<1>5. \A j \in Chains : KeyOf(selected, j)' = KeyOf(selected, j)
  BY <1>4 DEF KeysStay, KeyOf, Derived
<1>6. Carries(r, q)'
  BY <1>1, <1>2, <1>3, <1>4, <1>5 DEF Carries, KeysStay
<1>7. request' = [request EXCEPT ![r] = q] /\ request'[r] = q
  BY <1>0 DEF Sign, IInv, Typed, TypeOK
<1>8. Signs(r)
  BY <1>2, NextKey, SignatureOfSigner DEF Sign
<1>9. SignedOK(r)'
  BY <1>3, <1>7, <1>8, StillSigned
<1> QED BY <1>4, <1>6, <1>7, <1>8, <1>9, FaithfulStep DEF Signs

LEMMA FaithfulDevice ==
    ASSUME IInv, NEW r \in Requests, AskDevice(r) \/ DeviceAnswers(r) \/ DeviceFails(r)
    PROVE  Faithful'
<1>1. CASE AskDevice(r)
  <2>0. PICK q : q = [request[r] EXCEPT !.pc = "device", !.by = SigningKey(r, NextChain(r))]
    OBVIOUS
  <2>1. request[r] \in RequestRecords /\ Carries(r, request[r]) /\ request[r].pc = "approved"
    BY <1>1, RequestParts DEF AskDevice, At
  <2>2. /\ q.pc = "device" /\ q.signer = request[r].signer /\ q.keys = request[r].keys
        /\ q.toSign = request[r].toSign /\ q.by = SigningKey(r, Head(request[r].toSign))
    BY <2>0, <2>1 DEF RequestRecords, NextChain
  <2>3. Carries(r, q)
    BY <2>1, <2>2 DEF Carries
  <2>4. request' = [request EXCEPT ![r] = q] /\ request'[r] = q /\ UNCHANGED <<account, signatures>>
    BY <1>1, <2>0 DEF AskDevice, IInv, Typed, TypeOK
  <2>5. q \in RequestRecords /\ LocalsOK(r, q)
    <3>1. request[r].toSign # <<>> /\ NextChain(r) \in Chains /\ selected \in Accounts /\ TypeOK
      BY <1>1, <2>1, NextKey, RequestParts DEF AskDevice
    <3>2. SigningKey(r, NextChain(r)) \in Keys /\ LocalsOK(r, request[r])
      BY <3>1, KeysTyped, RequestParts
    <3> QED BY <2>0, <2>1, <2>2, <3>1, <3>2 DEF LocalsOK, RequestRecords
  <2>6. Carries(r, q)'
    BY <2>3, <2>4, <2>5, AccountKept, CarriesKept DEF IInv
  <2>7. SignedOK(r)' /\ Signs(r)
    BY <2>2, <2>4, SignsNothing, StillSigned
  <2> QED BY <2>4, <2>6, <2>7, AccountKept, FaithfulStep DEF Signs
<1>2. CASE DeviceAnswers(r)
  <2>1. request[r].pc = "device" /\ LocalsOK(r, request[r]) /\ Carries(r, request[r])
    BY <1>2, RequestParts DEF DeviceAnswers, At
  <2>2. request[r].by = SigningKey(r, NextChain(r)) /\ request[r].toSign # <<>>
    BY <2>1 DEF Carries, LocalsOK, NextChain
  <2>3. Signs(r)
    BY <1>2, <2>1, <2>2, SignatureOfSigner DEF DeviceAnswers
  <2> QED BY <1>2, <2>1, <2>3, FaithfulGoesOn DEF DeviceAnswers
<1>3. CASE DeviceFails(r)
  BY <1>3, FaithfulOver, SignsNothing DEF DeviceFails, Ends
<1> QED BY <1>1, <1>2, <1>3

LEMMA FaithfulNext ==
    ASSUME IInv, AccountStays = TRUE, [Next]_vars
    PROVE  Faithful'
<1>1. ASSUME NEW r \in Requests, Background(r) PROVE Faithful'
  <2>1. CASE Refuse(r)
    BY <2>1, FaithfulOver, SignsNothing DEF Refuse
  <2>2. ASSUME NEW p \in Pages, Push(r, p) PROVE Faithful'
    <3>1. CASE page[p].datas = {}
      <4>1. PICK q : q = [request[r] EXCEPT !.pc = "waiting"]
        OBVIOUS
      <4>2. request[r].pc = "asking" /\ UNCHANGED <<account, signatures>>
        BY <2>2 DEF Push, At
      <4>3. /\ Passing(request[r]) /\ Passing(q) /\ q.pc # "device"
            /\ q.signer = request[r].signer /\ q.keys = request[r].keys
        BY <4>1, <4>2, RequestParts DEF RequestRecords, Passing
      <4>4. request' = [request EXCEPT ![r] = q]
        BY <2>2, <3>1, <4>1 DEF Push
      <4> QED BY <4>2, <4>3, <4>4, FaithfulQuiet, SignsNothing
    <3>2. CASE page[p].datas # {}
      BY <2>2, <3>2, FaithfulOver, SignsNothing DEF Push
    <3> QED BY <3>1, <3>2
  <2>3. CASE NothingToSign(r)
    BY <2>3, FaithfulOver, FaithfulGoesOn, SignsNothing DEF NothingToSign, Ends, At
  <2>4. CASE SignFails(r)
    BY <2>4, FaithfulOver, SignsNothing DEF SignFails, Ends
  <2>5. CASE Saved(r)
    BY <2>5, FaithfulGoesOn, SignsNothing DEF Saved, At
  <2> QED BY <1>1, <2>1, <2>2, <2>3, <2>4, <2>5, FaithfulReadKey, FaithfulSign, FaithfulDevice DEF Background
<1>2. ASSUME NEW r \in Requests, NEW a \in Accounts, Request(r, a) PROVE Faithful'
  BY <1>2, FaithfulRequest
<1>3. ASSUME UNCHANGED <<account, request, signatures>> PROVE Faithful'
  <2> SUFFICES ASSUME NEW r \in Requests PROVE Carries(r, request[r])' /\ SignedOK(r)'
    BY DEF Faithful
  <2>1. Carries(r, request[r])'
    BY <1>3, RequestParts, AccountKept, CarriesKept DEF IInv
  <2>2. SignedOK(r)'
    BY <1>3, RequestParts DEF SignedOK, At
  <2> QED BY <2>1, <2>2
<1>4. CASE User
  <2>1. ASSUME NEW r \in Requests, NEW approves \in BOOLEAN, AnswerICNS(r, approves) PROVE Faithful'
    BY <2>1, FaithfulApproved, FaithfulOver, SignsNothing DEF AnswerICNS, At
  <2>2. ASSUME NEW p \in Pages, NEW r \in Requests, Approve(p, r) PROVE Faithful'
    BY <1>3, <2>2, FaithfulApproved DEF Approve, At
  <2>3. ASSUME NEW p \in Pages, Leave(p) \/ Close(p) PROVE Faithful'
    BY <2>3, FaithfulGone
  <2>4. CASE UNCHANGED <<request, signatures, page>>
    BY <1>4, <2>4, FaithfulAccount
  <2> QED BY <1>4, <2>1, <2>2, <2>3, <2>4 DEF User, Select, SetCoinType, RemoveCoinTypes, LockOrUnlock
<1>5. CASE \E p \in Pages : GetReply(p)
  BY <1>3, <1>5 DEF GetReply
<1>6. CASE UNCHANGED vars
  BY <1>3, <1>6 DEF vars
<1> QED BY <1>1, <1>2, <1>4, <1>5, <1>6 DEF Next

(* As long as nobody changes the account or its coin types during a        *)
(* request, each signature that KeyRingService returns is made with the    *)
(* key returned with it, an Ethereum signature of a Ledger with the same   *)
(* account, whatever overlaps and however often the wallet is locked.      *)
THEOREM SignaturesAreOfSigner ==
    ASSUME AccountStays = TRUE PROVE Spec => []SignatureIsOfSigner
<1>1. Init => IInv
  BY TypedInit, FaithfulInit DEF IInv
<1>2. IInv /\ [Next]_vars => IInv'
  BY TypedNext, FaithfulNext DEF IInv
<1>3. IInv => SignatureIsOfSigner
  BY DEF IInv, Faithful, SignedOK, OfSigner, SignatureIsOfSigner
<1> QED BY <1>1, <1>2, <1>3, PTL DEF Spec
=============================================================================
