--------------------------- MODULE ChainInfosProofs ---------------------------
(***************************************************************************)
(* Theorems about ChainInfos, for any number of callers, of chains, of     *)
(* what may be said of them and of restarts.  Types hold however many      *)
(* calls change chains at a time; what the cache, the list and the pages   *)
(* tell, when one does (Serial).                                           *)
(***************************************************************************)
EXTENDS ChainInfos, TLAPS

-----------------------------------------------------------------------------
(* What a message holds at each of its awaits.                             *)
OfUpdate == {"update", "check", "fetch", "compare", "recheck", "rpc", "writeChainId", "features", "writeFeatures"}
OfRemoval == {"remove", "removeWrite", "clearLocal", "clearUpdated"}
OfSuggestion == {"suggest", "ask", "add", "addWrite"}

CallOK(call) ==
    /\ call.op = "none" => call = Idle
    /\ call.op # "none" => call.pc # "idle" /\ call.chain \in Chains
    /\ call.op = "look" => call.pc = "look"
    /\ call.pc \in OfSuggestion => call.op = "suggest"
    /\ call.pc \in OfRemoval => call.op = "remove"
    /\ call.pc \in OfUpdate => call.op = "update"
    /\ call.pc = "clear" => call.op \in {"suggest", "remove", "update"}
    /\ call.pc = "clearAndLook" => call.op = "endpoints"
    /\ call.pc = "addWrite" => call.chain \in Suggested

(* The chains that come with the wallet are among those that are told, and *)
(* those that are being told.                                              *)
EmbeddedTold ==
    /\ cachedChainInfos # Undefined => Embedded \subseteq DOMAIN cachedChainInfos
    /\ fill.pc # "idle" => Embedded \subseteq fill.chains

TypeInv == TypeOK /\ (\A s \in Callers : CallOK(calls[s])) /\ EmbeddedTold

-----------------------------------------------------------------------------
(* The invariant of one change at a time.                                  *)
Changes(call) == call.op \notin {"none", "look"} /\ call.pc \notin {"suggest", "ask"}

(* A call that has the chain infos, and is between reading and writing.    *)
Busy(call) ==
    \/ call.pc \in {"addWrite", "clear"} \/ call.pc \in OfRemoval \ {"remove"}
    \/ call.pc \in OfUpdate \ {"update", "check"}

(* It has written, and the cache is not cleared yet.                       *)
Dirty(call) ==
    \/ call.pc \in {"clearLocal", "clearUpdated", "clear", "recheck", "clearAndLook"}
    \/ call.pc \in {"features", "writeFeatures"} /\ call.changed

OneChange == \A s, t \in Callers : Changing(s) /\ Changing(t) => s = t

(* The cache is there while a call is busy, and while it is not computed.  *)
CacheThere ==
    /\ cachedChainInfos # Undefined => fill.pc = "idle"
    /\ \A s \in Callers : Busy(calls[s]) => cachedChainInfos # Undefined

(* What the fill has read is what the store has.                           *)
FillAgrees ==
    /\ fill.pc # "idle" => fill.chains = Registered
    /\ fill.pc = "infos" => \A c \in fill.chains :
        /\ fill.at[c] \in 1..4
        /\ fill.infos[c].updated = saved[c].updated
        /\ fill.at[c] > 1 => fill.infos[c].local = saved[c].local
        /\ fill.at[c] > 2 => fill.infos[c].endpoints = saved[c].endpoints

(* What the cache says of chain c is what the store says.                  *)
Same(c) ==
    /\ c \in DOMAIN cachedChainInfos <=> c \in Registered
    /\ c \in Registered => cachedChainInfos[c] = saved[c]

OnlyTheChangedIsStale ==
    cachedChainInfos # Undefined => \A c \in Chains :
        Same(c) \/ \E s \in Callers :
            /\ Dirty(calls[s]) /\ calls[s].chain = c
            /\ calls[s].op = "endpoints" => (c \in DOMAIN cachedChainInfos <=> c \in Registered)

(* What a busy call knows of its chain.                                    *)
Knows(call) ==
    LET c == call.chain
        told == c \in DOMAIN cachedChainInfos
    IN  /\ call.pc = "addWrite" => c \notin Registered /\ ~told /\ call.list = chainInfos
        /\ call.pc = "removeWrite" => c \in Registered \ Embedded /\ told /\ call.list = chainInfos
        /\ call.pc = "clear" /\ call.op = "suggest" => c \in Registered /\ ~told
        /\ call.pc \in {"clearLocal", "clearUpdated", "clear"} /\ call.op = "remove" =>
                c \notin Registered /\ c \in Suggested /\ told
        /\ call.pc = "clearUpdated" => saved[c].local = {}
        /\ call.pc = "clear" /\ call.op = "remove" => saved[c].local = {} /\ saved[c].updated = Nothing
        /\ Busy(call) /\ call.op = "update" => c \in Registered /\ told

Cleared ==
    restarts = 0 => \A c \in Suggested \ Registered :
        \/ saved[c].local = {} /\ saved[c].updated = Nothing
        \/ \E s \in Callers :
            /\ calls[s].chain = c
            /\ calls[s].pc \in {"clearLocal", "clearUpdated"}

SerialInv ==
    /\ OneChange /\ CacheThere /\ FillAgrees /\ OnlyTheChangedIsStale
    /\ \A s \in Callers : Knows(calls[s])
    /\ NoDuplicates /\ Cleared

-----------------------------------------------------------------------------
(* Types, for any number of calls that change chains.                      *)
GoodCall(call) == call \in CallRecords(call.list) /\ IsList(call.list) /\ CallOK(call)

Told == UNION {[S -> Infos] : S \in SUBSET Chains}

LEMMA TypeInvIs ==
  TypeInv <=> /\ IsList(chainInfos) /\ saved \in [Chains -> Infos] /\ cachedChainInfos \in Told
              /\ fill \in FillRecords /\ restarts \in 0..MaxRestarts
              /\ DOMAIN calls = Callers /\ (\A s \in Callers : GoodCall(calls[s]))
              /\ EmbeddedTold
  BY DEF TypeInv, TypeOK, GoodCall, Told

LEMMA TypeInvNext ==
  ASSUME IsList(chainInfos)', (saved \in [Chains -> Infos])', (cachedChainInfos \in Told)',
         (fill \in FillRecords)', (restarts \in 0..MaxRestarts)',
         DOMAIN calls' = Callers, \A s \in Callers : GoodCall(calls'[s]),
         EmbeddedTold'
  PROVE  TypeInv'
  BY DEF TypeInv, TypeOK, GoodCall, Told

LEMMA EmptyList == IsList(EmptyBag)
  BY DEF IsList, EmptyBag, SetToBag, IsABag, BagToSet

LEMMA IdleIsGood == GoodCall(Idle)
  BY EmptyList DEF GoodCall, Idle, CallRecords, CallOK, OfSuggestion, OfRemoval, OfUpdate

(* What is told of the chains is not Undefined, which is told of none.     *)
LEMMA ToldIsDefined ==
  ASSUME NEW infos \in Told, Embedded \subseteq DOMAIN infos
  PROVE  infos # Undefined
  BY ChainsAssumption DEF Undefined

LEMMA UndefinedIsTold == Undefined \in Told
  <1>1. Undefined \in [{} -> Infos]
    BY DEF Undefined
  <1> QED BY <1>1 DEF Told

LEMMA ContinueTyped ==
  ASSUME NEW call, GoodCall(call), call.pc \in Waiting, IsList(chainInfos),
         NEW infos \in Told, Embedded \subseteq DOMAIN infos
  PROVE  GoodCall(Continue(call, infos))
  <1> DEFINE known == call.chain \in DOMAIN infos
             next(to) == [call EXCEPT !.pc = to]
  <1>0. /\ call \in CallRecords(call.list) /\ IsList(call.list) /\ CallOK(call)
        /\ call.op # "none" /\ call.chain \in Chains
    BY DEF GoodCall, CallOK, Waiting, Idle
  <1>1. CASE call.pc = "suggest" /\ ~known
    <2>1. Continue(call, infos) = next("ask")
      BY <1>1 DEF Continue
    <2> QED BY <1>0, <1>1, <2>1 DEF GoodCall, CallRecords, CallOK, OfSuggestion, OfRemoval, OfUpdate
  <1>2. CASE call.pc = "add" /\ ~known
    <2>1. Continue(call, infos) = [call EXCEPT !.pc = "addWrite", !.list = chainInfos]
      BY <1>2 DEF Continue
    <2>2. call.chain \in Suggested
      BY <1>0, <1>2 DEF Chains
    <2> QED BY <1>0, <1>2, <2>1, <2>2 DEF GoodCall, CallRecords, CallOK, OfSuggestion, OfRemoval, OfUpdate
  <1>3. CASE call.pc = "remove" /\ known /\ call.chain \notin Embedded
    <2>1. Continue(call, infos) = [call EXCEPT !.pc = "removeWrite", !.list = chainInfos]
      BY <1>3 DEF Continue
    <2> QED BY <1>0, <1>3, <2>1 DEF GoodCall, CallRecords, CallOK, OfSuggestion, OfRemoval, OfUpdate
  <1>4. CASE call.pc = "update" /\ known
    <2>1. Continue(call, infos) = next("fetch")
      BY <1>4 DEF Continue
    <2> QED BY <1>0, <1>4, <2>1 DEF GoodCall, CallRecords, CallOK, OfSuggestion, OfRemoval, OfUpdate
  <1>5. CASE call.pc = "check" /\ known
    <2>1. Continue(call, infos) = [call EXCEPT !.pc = "rpc", !.local = infos[call.chain].local]
      BY <1>5 DEF Continue
    <2>2. infos[call.chain].local \in SUBSET Learnt
      BY <1>5 DEF Told, Infos
    <2> QED BY <1>0, <1>5, <2>1, <2>2 DEF GoodCall, CallRecords, CallOK, OfSuggestion, OfRemoval, OfUpdate
  <1>6. CASE /\ ~(call.pc = "suggest" /\ ~known) /\ ~(call.pc = "add" /\ ~known)
             /\ ~(call.pc = "remove" /\ known /\ call.chain \notin Embedded)
             /\ ~(call.pc = "update" /\ known) /\ ~(call.pc = "check" /\ known)
    <2>1. Continue(call, infos) = Idle
      BY <1>6 DEF Continue
    <2> QED BY <2>1, IdleIsGood
  <1> QED BY <1>1, <1>2, <1>3, <1>4, <1>5, <1>6

LEMMA GoesTyped ==
  ASSUME TypeInv, NEW s \in Callers, NEW call, GoodCall(call), Goes(s, call)
  PROVE  DOMAIN calls' = Callers /\ \A t \in Callers : GoodCall(calls'[t]) /\ calls'[t] = IF t = s THEN call ELSE calls[t]
  <1>1. DOMAIN calls = Callers /\ calls' = [calls EXCEPT ![s] = call]
    BY DEF TypeInv, TypeOK, Goes
  <1>2. \A t \in Callers : calls'[t] = IF t = s THEN call ELSE calls[t]
    BY <1>1
  <1> QED BY <1>1, <1>2, TypeInvIs

LEMMA NewFillTyped ==
  ASSUME TypeInv
  PROVE  NewFill \in FillRecords /\ NoFill \in FillRecords /\ Embedded \subseteq NewFill.chains /\ NoFill.pc = "idle"
  <1>1. Registered \in SUBSET Chains
    BY DEF TypeInv, TypeOK, IsList, Registered, Chains
  <1>2. Plain \in Infos
    BY DEF Plain, Infos
  <1>3. /\ [c \in Chains |-> 0] \in [Chains -> 0..4]
        /\ [c \in Chains |-> Plain] \in [Chains -> Infos]
    BY <1>2
  <1>4. NoFill \in FillRecords /\ NoFill.pc = "idle"
    BY <1>3 DEF NoFill, FillRecords
  <1>5. NewFill \in FillRecords /\ NewFill.chains = Registered
    BY <1>1, <1>4 DEF NewFill, FillRecords
  <1> QED BY <1>4, <1>5 DEF Registered

(* A step that asks for the chain infos, when they are there or not.       *)
LEMMA GetTyped ==
  ASSUME TypeInv, NEW s \in Callers, NEW call, GoodCall(call), call.pc \in Waiting,
         NEW cache \in {cachedChainInfos, Undefined}, GetChainInfos(s, call, cache),
         UNCHANGED <<chainInfos, saved, restarts>>
  PROVE  TypeInv'
  <1>1. CASE cache # Undefined
    <2>1. /\ cache = cachedChainInfos /\ cache \in Told /\ Embedded \subseteq DOMAIN cache
          /\ IsList(chainInfos)
      BY <1>1, TypeInvIs DEF EmbeddedTold
    <2>2. Goes(s, Continue(call, cache)) /\ fill' = fill /\ cachedChainInfos' = cachedChainInfos
      BY <1>1, <2>1 DEF GetChainInfos, Goes
    <2>3. GoodCall(Continue(call, cache))
      BY <2>1, ContinueTyped
    <2>4. DOMAIN calls' = Callers /\ \A t \in Callers : GoodCall(calls'[t])
      BY <2>2, <2>3, GoesTyped
    <2>5. EmbeddedTold'
      BY <2>2, TypeInvIs DEF EmbeddedTold
    <2> QED BY <2>2, <2>4, <2>5, TypeInvIs, TypeInvNext
  <1>2. CASE cache = Undefined
    <2>1. /\ Goes(s, call) /\ cachedChainInfos' = Undefined
          /\ fill' = IF fill.pc = "idle" THEN NewFill ELSE fill
      BY <1>2 DEF GetChainInfos, Goes
    <2>2. DOMAIN calls' = Callers /\ \A t \in Callers : GoodCall(calls'[t])
      BY <2>1, GoesTyped
    <2>3. fill' \in FillRecords /\ EmbeddedTold'
      BY <2>1, NewFillTyped, TypeInvIs DEF EmbeddedTold
    <2> QED BY <2>1, <2>2, <2>3, UndefinedIsTold, TypeInvIs, TypeInvNext
  <1> QED BY <1>1, <1>2

LEMMA FillTyped ==
  ASSUME TypeInv, Fill
  PROVE  TypeInv'
  <1>0. TypeOK /\ EmbeddedTold /\ fill \in FillRecords
    BY TypeInvIs DEF TypeInv
  <1>1. CASE FillList
    <2> DEFINE at == [c \in Chains |-> IF c \in fill.chains THEN 1 ELSE 0]
               infos == [c \in Chains |-> [Plain EXCEPT !.updated = saved[c].updated]]
    <2>1. \A c \in Chains : [Plain EXCEPT !.updated = saved[c].updated] \in Infos
      BY <1>0 DEF TypeOK, Plain, Infos
    <2>2. at \in [Chains -> 0..4] /\ infos \in [Chains -> Infos]
      BY <2>1
    <2>3. /\ fill.pc = "list" /\ fill' = [fill EXCEPT !.pc = "infos", !.at = at, !.infos = infos]
          /\ UNCHANGED <<chainInfos, saved, cachedChainInfos, calls, restarts>>
      BY <1>1 DEF FillList
    <2> HIDE DEF at, infos
    <2>4. fill' \in FillRecords /\ fill'.chains = fill.chains
      BY <1>0, <2>2, <2>3 DEF FillRecords
    <2>5. EmbeddedTold'
      BY <1>0, <2>3, <2>4 DEF EmbeddedTold
    <2> QED BY <2>3, <2>4, <2>5, TypeInvIs, TypeInvNext
  <1>2. ASSUME NEW c \in Chains, FillReads(c) PROVE TypeInv'
    <2> DEFINE info == IF fill.at[c] = 1 THEN [fill.infos[c] EXCEPT !.local = saved[c].local]
                       ELSE [fill.infos[c] EXCEPT !.endpoints = saved[c].endpoints]
    <2>1. /\ fill.pc = "infos" /\ fill.at[c] \in {1, 2}
          /\ fill' = [fill EXCEPT !.at[c] = fill.at[c] + 1, !.infos[c] = info]
          /\ UNCHANGED <<chainInfos, saved, cachedChainInfos, calls, restarts>>
      BY <1>2 DEF FillReads
    <2>2. info \in Infos
      BY <1>0 DEF TypeOK, FillRecords, Infos
    <2> HIDE DEF info
    <2>3. [fill.at EXCEPT ![c] = fill.at[c] + 1] \in [Chains -> 0..4] /\ [fill.infos EXCEPT ![c] = info] \in [Chains -> Infos]
      BY <1>0, <2>1, <2>2 DEF FillRecords
    <2>4. fill' \in FillRecords /\ fill'.chains = fill.chains /\ fill'.pc = fill.pc
      BY <1>0, <2>1, <2>3 DEF FillRecords
    <2>5. EmbeddedTold'
      BY <1>0, <2>1, <2>4 DEF EmbeddedTold
    <2> QED BY <2>1, <2>4, <2>5, TypeInvIs, TypeInvNext
  <1>3. ASSUME NEW c \in Chains, FillDone(c) PROVE TypeInv'
    <2> DEFINE infos == [d \in fill.chains |-> fill.infos[d]]
               last == \A d \in fill.chains \ {c} : fill.at[d] = 4
    <2>1. /\ fill.pc = "infos" /\ fill.at[c] = 3
          /\ fill' = IF last THEN NoFill ELSE [fill EXCEPT !.at[c] = 4]
          /\ cachedChainInfos' = IF last THEN infos ELSE cachedChainInfos
          /\ calls' = [s \in Callers |-> IF last /\ calls[s].pc \in Waiting THEN Continue(calls[s], infos) ELSE calls[s]]
          /\ UNCHANGED <<chainInfos, saved, restarts>>
      BY <1>3 DEF FillDone
    <2>2. infos \in Told /\ Embedded \subseteq DOMAIN infos
      <3>1. fill.chains \in SUBSET Chains /\ \A d \in fill.chains : fill.infos[d] \in Infos
        BY <1>0 DEF FillRecords
      <3>2. infos \in [fill.chains -> Infos]
        BY <3>1
      <3> QED BY <1>0, <2>1, <3>1, <3>2 DEF Told, EmbeddedTold
    <2> HIDE DEF infos, last
    <2>3. DOMAIN calls' = Callers /\ \A s \in Callers : GoodCall(calls'[s])
      BY <2>1, <2>2, ContinueTyped, TypeInvIs
    <2>4. [fill EXCEPT !.at[c] = 4] \in FillRecords /\ [fill EXCEPT !.at[c] = 4].chains = fill.chains
      <3>1. [fill.at EXCEPT ![c] = 4] \in [Chains -> 0..4]
        BY <1>0 DEF FillRecords
      <3> QED BY <1>0, <3>1 DEF FillRecords
    <2>5. fill' \in FillRecords /\ (fill'.pc # "idle" => fill'.chains = fill.chains)
      BY <2>1, <2>4, NewFillTyped
    <2>6. cachedChainInfos' \in Told /\ (cachedChainInfos' # Undefined => Embedded \subseteq DOMAIN cachedChainInfos')
      BY <2>1, <2>2, TypeInvIs DEF EmbeddedTold
    <2>7. EmbeddedTold'
      BY <1>0, <2>1, <2>5, <2>6 DEF EmbeddedTold
    <2> QED BY <2>1, <2>3, <2>5, <2>6, <2>7, TypeInvIs, TypeInvNext
  <1> QED BY <1>1, <1>2, <1>3 DEF Fill

(* The call that asks for the answer of a message.                         *)
Asks(call) == [call EXCEPT !.pc = "look", !.local = {}, !.changed = FALSE]

LEMMA AsksTyped ==
  ASSUME NEW call, GoodCall(call), call.op # "none"
  PROVE  GoodCall(Asks(call)) /\ Asks(call).pc \in Waiting
  BY DEF GoodCall, Asks, CallRecords, CallOK, OfSuggestion, OfRemoval, OfUpdate, Waiting

(* Another place in the code, and nothing else.                            *)
LEMMA MovesTyped ==
  ASSUME NEW call, GoodCall(call),
         NEW to \in {"add", "clear", "clearLocal", "clearUpdated", "check", "recheck"},
         to = "add" => call.op = "suggest",
         to = "clear" => call.op \in {"suggest", "remove", "update"},
         to \in {"clearLocal", "clearUpdated"} => call.op = "remove",
         to \in {"check", "recheck"} => call.op = "update"
  PROVE  GoodCall([call EXCEPT !.pc = to])
  BY DEF GoodCall, CallRecords, CallOK, OfSuggestion, OfRemoval, OfUpdate, Waiting, Idle

LEMMA GoodPC ==
  ASSUME TypeInv, NEW s \in Callers
  PROVE  /\ GoodCall(calls[s]) /\ calls[s] \in CallRecords(calls[s].list) /\ CallOK(calls[s])
         /\ IsList(calls[s].list)
         /\ calls[s].pc # "idle" => calls[s].op # "none" /\ calls[s].chain \in Chains
         /\ calls[s].op = "none" => calls[s] = Idle
  BY TypeInvIs DEF GoodCall, CallOK, Idle

LEMMA ChangeListTyped ==
  ASSUME TypeInv, NEW s \in Callers, ChangeList(s)
  PROVE  TypeInv'
  <1> DEFINE call == calls[s]
  <1>0. TypeOK /\ EmbeddedTold /\ GoodCall(call) /\ call \in CallRecords(call.list) /\ CallOK(call)
    BY GoodPC DEF TypeInv
  <1>1. CASE Approve(s)
    <2>1. GetChainInfos(s, [call EXCEPT !.pc = "add"], cachedChainInfos) /\ call.op = "suggest"
      BY <1>0, <1>1 DEF Approve, CallOK, OfSuggestion
    <2>2. GoodCall([call EXCEPT !.pc = "add"]) /\ [call EXCEPT !.pc = "add"].pc \in Waiting
      BY <1>0, <2>1, MovesTyped DEF CallRecords, Waiting
    <2> QED BY <1>1, <2>1, <2>2, GetTyped DEF Approve
  <1>2. CASE Reject(s)
    <2>1. DOMAIN calls' = Callers /\ \A t \in Callers : GoodCall(calls'[t])
      BY <1>2, IdleIsGood, GoesTyped DEF Reject
    <2> QED BY <1>0, <1>2, <2>1, TypeInvIs, TypeInvNext DEF Reject, EmbeddedTold
  <1>3. CASE WriteAdded(s)
    <2> DEFINE next == [call EXCEPT !.pc = "clear", !.list = EmptyBag]
    <2>1. /\ call.op = "suggest" /\ call.chain \in Suggested /\ IsList(call.list)
      BY <1>0, <1>3 DEF WriteAdded, CallOK, OfSuggestion, GoodCall
    <2>2. GoodCall(next)
      BY <1>0, <2>1, EmptyList DEF GoodCall, CallRecords, CallOK, OfSuggestion, OfRemoval, OfUpdate
    <2>3. IsList(BagAdd(call.list, call.chain))
      BY <2>1 DEF IsList, IsABag, BagToSet, BagAdd
    <2> HIDE DEF next
    <2>4. DOMAIN calls' = Callers /\ \A t \in Callers : GoodCall(calls'[t])
      BY <1>3, <2>2, GoesTyped DEF WriteAdded, next
    <2> QED BY <1>0, <1>3, <2>3, <2>4, TypeInvIs, TypeInvNext DEF WriteAdded, EmbeddedTold
  <1>4. CASE WriteRemoved(s)
    <2> DEFINE next == [call EXCEPT !.pc = "clearLocal", !.list = EmptyBag]
    <2>1. call.op = "remove" /\ IsList(call.list)
      BY <1>0, <1>4 DEF WriteRemoved, CallOK, OfRemoval, GoodCall
    <2>2. GoodCall(next)
      BY <1>0, <2>1, EmptyList DEF GoodCall, CallRecords, CallOK, OfSuggestion, OfRemoval, OfUpdate
    <2>3. IsList(BagRemoveAll(call.list, call.chain))
      BY <2>1 DEF IsList, IsABag, BagToSet, BagRemoveAll
    <2> HIDE DEF next
    <2>4. DOMAIN calls' = Callers /\ \A t \in Callers : GoodCall(calls'[t])
      BY <1>4, <2>2, GoesTyped DEF WriteRemoved, next
    <2> QED BY <1>0, <1>4, <2>3, <2>4, TypeInvIs, TypeInvNext DEF WriteRemoved, EmbeddedTold
  <1>5. CASE ClearLocal(s)
    <2>1. call.op = "remove" /\ call.chain \in Chains
      BY <1>0, <1>5 DEF ClearLocal, CallOK, OfRemoval
    <2>2. saved' \in [Chains -> Infos]
      BY <1>0, <1>5, <2>1 DEF ClearLocal, TypeOK, Infos
    <2>3. DOMAIN calls' = Callers /\ \A t \in Callers : GoodCall(calls'[t])
      BY <1>0, <1>5, <2>1, MovesTyped, GoesTyped DEF ClearLocal
    <2> QED BY <1>0, <1>5, <2>2, <2>3, TypeInvIs, TypeInvNext DEF ClearLocal, EmbeddedTold
  <1>6. CASE ClearUpdated(s)
    <2>1. call.op = "remove" /\ call.chain \in Chains
      BY <1>0, <1>6 DEF ClearUpdated, CallOK, OfRemoval
    <2>2. saved' \in [Chains -> Infos]
      BY <1>0, <1>6, <2>1 DEF ClearUpdated, TypeOK, Infos
    <2>3. DOMAIN calls' = Callers /\ \A t \in Callers : GoodCall(calls'[t])
      BY <1>0, <1>6, <2>1, MovesTyped, GoesTyped DEF ClearUpdated
    <2> QED BY <1>0, <1>6, <2>2, <2>3, TypeInvIs, TypeInvNext DEF ClearUpdated, EmbeddedTold
  <1>7. CASE Clear(s)
    <2>1. call.op # "none"
      BY <1>0, <1>7 DEF Clear, CallOK, Idle
    <2>2. CASE call.op = "suggest"
      <3>1. Goes(s, Idle) /\ cachedChainInfos' = Undefined /\ UNCHANGED <<fill, chainInfos, saved, restarts>>
        BY <1>7, <2>2 DEF Clear
      <3>2. DOMAIN calls' = Callers /\ \A t \in Callers : GoodCall(calls'[t])
        BY <3>1, IdleIsGood, GoesTyped
      <3> QED BY <1>0, <3>1, <3>2, UndefinedIsTold, TypeInvIs, TypeInvNext DEF EmbeddedTold
    <2>3. CASE call.op # "suggest"
      <3>1. GetChainInfos(s, Asks(call), Undefined) /\ UNCHANGED <<chainInfos, saved, restarts>>
        BY <1>7, <2>3 DEF Clear, Answer, Asks
      <3> QED BY <1>0, <2>1, <3>1, AsksTyped, GetTyped
    <2> QED BY <2>2, <2>3
  <1> QED BY <1>1, <1>2, <1>3, <1>4, <1>5, <1>6, <1>7 DEF ChangeList

LEMMA UpdateTyped ==
  ASSUME TypeInv, NEW s \in Callers, Update(s)
  PROVE  TypeInv'
  <1> DEFINE call == calls[s]
  <1>0. TypeOK /\ EmbeddedTold /\ GoodCall(call) /\ call \in CallRecords(call.list) /\ CallOK(call)
    BY GoodPC DEF TypeInv
  <1>1. ASSUME call.pc \in OfUpdate PROVE call.op = "update" /\ call.chain \in Chains
    BY <1>0, <1>1 DEF CallOK
  <1>2. ASSUME NEW r, GoodCall(r), Goes(s, r), UNCHANGED <<chainInfos, cachedChainInfos, fill, restarts>>,
               saved' \in [Chains -> Infos]
        PROVE  TypeInv'
    <2>1. DOMAIN calls' = Callers /\ \A t \in Callers : GoodCall(calls'[t])
      BY <1>2, GoesTyped
    <2> QED BY <1>0, <1>2, <2>1, TypeInvIs, TypeInvNext DEF EmbeddedTold
  <1>3. saved \in [Chains -> Infos] /\ UNCHANGED saved => saved' \in [Chains -> Infos]
    OBVIOUS
  <1>4. saved \in [Chains -> Infos]
    BY <1>0 DEF TypeOK
  <1>5. ASSUME NEW v \in Versions, Fetched(s, v) PROVE TypeInv'
    <2> DEFINE r == [call EXCEPT !.pc = "compare", !.found = v, !.changed = saved[call.chain].updated # v]
    <2>1. GoodCall(r)
      BY <1>0, <1>5 DEF Fetched, GoodCall, CallRecords, CallOK, OfSuggestion, OfRemoval, OfUpdate
    <2> HIDE DEF r
    <2> QED BY <1>2, <1>4, <1>5, <2>1 DEF Fetched, r
  <1>6. CASE NoNews(s)
    <2> DEFINE r == [call EXCEPT !.pc = "check", !.found = Nothing, !.changed = FALSE]
    <2>1. GoodCall(r) /\ r.pc \in Waiting
      BY <1>0, <1>6 DEF NoNews, GoodCall, CallRecords, CallOK, OfSuggestion, OfRemoval, OfUpdate, Waiting
    <2> HIDE DEF r
    <2> QED BY <1>6, <2>1, GetTyped DEF NoNews, r
  <1>7. CASE GiveUp(s)
    <2>1. GetChainInfos(s, Asks(call), cachedChainInfos) /\ UNCHANGED <<chainInfos, saved, restarts>> /\ call.op # "none"
      BY <1>0, <1>1, <1>7 DEF GiveUp, Answer, Asks, OfUpdate
    <2> QED BY <1>0, <2>1, AsksTyped, GetTyped
  <1>8. CASE WriteUpdated(s)
    <2> DEFINE r == [call EXCEPT !.pc = "recheck", !.found = Nothing, !.changed = FALSE]
    <2>1. GoodCall(r)
      BY <1>0, <1>8 DEF WriteUpdated, GoodCall, CallRecords, CallOK, OfSuggestion, OfRemoval, OfUpdate
    <2> HIDE DEF r
    <2>2. call.chain \in Chains /\ call.found \in Versions \cup {Nothing}
      BY <1>0, <1>1, <1>8 DEF WriteUpdated, OfUpdate, CallRecords
    <2>3. saved' \in [Chains -> Infos]
      BY <1>4, <1>8, <2>2 DEF WriteUpdated, Infos
    <2> QED BY <1>2, <1>8, <2>1, <2>3 DEF WriteUpdated, r
  <1>9. CASE ClearAndCheck(s)
    <2>1. GoodCall([call EXCEPT !.pc = "check"]) /\ [call EXCEPT !.pc = "check"].pc \in Waiting
      BY <1>0, <1>1, <1>9, MovesTyped DEF ClearAndCheck, OfUpdate, CallRecords, Waiting
    <2> QED BY <1>9, <2>1, GetTyped DEF ClearAndCheck
  <1>10. CASE NodeUpgraded(s)
    <2> DEFINE r == [call EXCEPT !.pc = "writeChainId", !.local = saved[call.chain].local]
    <2>1. saved[call.chain].local \in SUBSET Learnt
      BY <1>1, <1>4, <1>10 DEF NodeUpgraded, OfUpdate, Infos
    <2>2. GoodCall(r)
      BY <1>0, <1>10, <2>1 DEF NodeUpgraded, GoodCall, CallRecords, CallOK, OfSuggestion, OfRemoval, OfUpdate
    <2> HIDE DEF r
    <2> QED BY <1>2, <1>4, <1>10, <2>2 DEF NodeUpgraded, r
  <1>11. CASE NodeSame(s)
    <2> DEFINE r == [call EXCEPT !.pc = "features", !.changed = FALSE]
    <2>1. GoodCall(r)
      BY <1>0, <1>11 DEF NodeSame, GoodCall, CallRecords, CallOK, OfSuggestion, OfRemoval, OfUpdate
    <2> HIDE DEF r
    <2> QED BY <1>2, <1>4, <1>11, <2>1 DEF NodeSame, r
  <1>12. CASE WriteChainId(s)
    <2> DEFINE r == [call EXCEPT !.pc = "features", !.changed = TRUE]
    <2>1. GoodCall(r)
      BY <1>0, <1>12 DEF WriteChainId, GoodCall, CallRecords, CallOK, OfSuggestion, OfRemoval, OfUpdate
    <2> HIDE DEF r
    <2>2. call.chain \in Chains /\ call.local \in SUBSET Learnt
      BY <1>0, <1>1, <1>12 DEF WriteChainId, OfUpdate, CallRecords
    <2>3. saved' \in [Chains -> Infos]
      BY <1>4, <1>12, <2>2 DEF WriteChainId, Infos, Learnt
    <2> QED BY <1>2, <1>12, <2>1, <2>3 DEF WriteChainId, r
  <1>13. CASE FeaturesFound(s)
    <2> DEFINE r == [call EXCEPT !.pc = "writeFeatures", !.local = saved[call.chain].local]
    <2>1. saved[call.chain].local \in SUBSET Learnt
      BY <1>1, <1>4, <1>13 DEF FeaturesFound, OfUpdate, Infos
    <2>2. GoodCall(r)
      BY <1>0, <1>13, <2>1 DEF FeaturesFound, GoodCall, CallRecords, CallOK, OfSuggestion, OfRemoval, OfUpdate
    <2> HIDE DEF r
    <2> QED BY <1>2, <1>4, <1>13, <2>2 DEF FeaturesFound, r
  <1>14. CASE NoFeatures(s)
    <2>1. \E cache \in {cachedChainInfos, Undefined} : GetChainInfos(s, Asks(call), cache)
      BY <1>14 DEF NoFeatures, Answer, Asks
    <2>2. UNCHANGED <<chainInfos, saved, restarts>> /\ call.op # "none"
      BY <1>0, <1>1, <1>14 DEF NoFeatures, OfUpdate
    <2> QED BY <1>0, <2>1, <2>2, AsksTyped, GetTyped
  <1>15. CASE WriteFeatures(s)
    <2>1. call.op = "update" /\ call.chain \in Chains /\ call.local \in SUBSET Learnt
      BY <1>0, <1>1, <1>15 DEF WriteFeatures, OfUpdate, CallRecords
    <2>2. GoodCall([call EXCEPT !.pc = "clear"])
      BY <1>0, <2>1, MovesTyped
    <2>3. saved' \in [Chains -> Infos]
      BY <1>4, <1>15, <2>1 DEF WriteFeatures, Infos, Learnt
    <2> QED BY <1>2, <1>15, <2>2, <2>3 DEF WriteFeatures
  <1> QED BY <1>5, <1>6, <1>7, <1>8, <1>9, <1>10, <1>11, <1>12, <1>13, <1>14, <1>15 DEF Update

(* The record of a message that begins.                                    *)
LEMMA BeginsTyped ==
  ASSUME NEW op \in {"look", "suggest", "remove", "update"}, NEW c \in Chains
  PROVE  LET r == [Idle EXCEPT !.op = op, !.pc = op, !.chain = c]
         IN  GoodCall(r) /\ r.pc \in Waiting /\ r.op = op /\ r.pc = op /\ r.chain = c
  BY EmptyList DEF GoodCall, Idle, CallRecords, CallOK, OfSuggestion, OfRemoval, OfUpdate, Waiting

LEMMA SetsTyped ==
  ASSUME NEW c \in Chains
  PROVE  LET r == [Idle EXCEPT !.op = "endpoints", !.pc = "clearAndLook", !.chain = c]
         IN  GoodCall(r) /\ r.op = "endpoints" /\ r.pc = "clearAndLook" /\ r.chain = c
  BY EmptyList DEF GoodCall, Idle, CallRecords, CallOK, OfSuggestion, OfRemoval, OfUpdate, Waiting

LEMMA TypedInit == Init => TypeInv
  <1> SUFFICES ASSUME Init PROVE TypeInv
    OBVIOUS
  <1>1. Plain \in Infos
    BY DEF Plain, Infos
  <1>2. IsList(chainInfos) /\ saved \in [Chains -> Infos] /\ cachedChainInfos \in Told
    BY <1>1, EmptyList, UndefinedIsTold DEF Init
  <1>3. fill \in FillRecords /\ fill.pc = "idle"
    <2>1. [c \in Chains |-> 0] \in [Chains -> 0..4] /\ [c \in Chains |-> Plain] \in [Chains -> Infos]
      BY <1>1
    <2> QED BY <2>1 DEF Init, NoFill, FillRecords
  <1>4. restarts \in 0..MaxRestarts /\ DOMAIN calls = Callers /\ \A s \in Callers : GoodCall(calls[s])
    BY IdleIsGood, ChainsAssumption DEF Init
  <1>5. EmbeddedTold
    BY <1>3 DEF EmbeddedTold, Init
  <1> QED BY <1>2, <1>3, <1>4, <1>5, TypeInvIs

LEMMA StepTyped ==
  ASSUME TypeInv, [Next]_vars
  PROVE  TypeInv'
  <1>0. TypeOK /\ EmbeddedTold
    BY TypeInvIs DEF TypeInv
  <1>1. CASE Restart
    <2>1. /\ restarts' \in 0..MaxRestarts
          /\ DOMAIN calls' = Callers /\ \A s \in Callers : GoodCall(calls'[s])
          /\ cachedChainInfos' = Undefined /\ fill' = NoFill /\ UNCHANGED <<chainInfos, saved>>
      BY <1>0, <1>1, IdleIsGood, ChainsAssumption DEF Restart, TypeOK
    <2> QED BY <2>1, UndefinedIsTold, NewFillTyped, TypeInvIs, TypeInvNext DEF EmbeddedTold
  <1>2. ASSUME NEW s \in Callers, NEW op \in {"look", "suggest", "remove", "update"}, NEW c \in Chains, Begin(s, op, c)
        PROVE  TypeInv'
    BY <1>2, BeginsTyped, GetTyped DEF Begin
  <1>3. ASSUME NEW s \in Callers, NEW c \in Chains, NEW n \in Nodes \cup {Nothing}, SetEndpoints(s, c, n)
        PROVE  TypeInv'
    <2>1. saved' \in [Chains -> Infos]
      BY <1>0, <1>3 DEF SetEndpoints, TypeOK, Infos
    <2>2. DOMAIN calls' = Callers /\ \A t \in Callers : GoodCall(calls'[t])
      BY <1>3, SetsTyped, GoesTyped DEF SetEndpoints
    <2> QED BY <1>0, <1>3, <2>1, <2>2, TypeInvIs, TypeInvNext DEF SetEndpoints, EmbeddedTold
  <1>4. ASSUME NEW s \in Callers, ClearAndLook(s) PROVE TypeInv'
    <2>1. GoodCall(calls[s]) /\ calls[s].op # "none"
      BY <1>4, GoodPC DEF ClearAndLook, Idle
    <2>2. GetChainInfos(s, Asks(calls[s]), Undefined) /\ UNCHANGED <<chainInfos, saved, restarts>>
      BY <1>4 DEF ClearAndLook, Answer, Asks
    <2> QED BY <2>1, <2>2, AsksTyped, GetTyped
  <1>5. CASE UNCHANGED vars
    BY <1>0, <1>5, TypeInvIs, TypeInvNext DEF vars, EmbeddedTold
  <1> QED BY <1>1, <1>2, <1>3, <1>4, <1>5, FillTyped, ChangeListTyped, UpdateTyped DEF Next

(* The chains service and the updater keep their types, however many calls *)
(* change chains at a time.                                                *)
THEOREM ChainsTypeCorrect == Spec => []TypeOK
  <1>1. TypeInv => TypeOK
    BY DEF TypeInv
  <1> QED BY <1>1, TypedInit, StepTyped, PTL DEF Spec

-----------------------------------------------------------------------------
(* One change at a time.                                                   *)
Inv == TypeInv /\ SerialInv

LEMMA BusyChanges ==
  ASSUME NEW call, GoodCall(call)
  PROVE  /\ Busy(call) => Changes(call) /\ call.op # "endpoints"
         /\ Dirty(call) => Changes(call) /\ (Busy(call) \/ call.pc = "clearAndLook")
         /\ call.pc \in Waiting => ~Busy(call) /\ ~Dirty(call)
         /\ call.op = "none" => ~Changes(call)
  BY DEF GoodCall, CallOK, Busy, Dirty, Changes, OfUpdate, OfRemoval, OfSuggestion, Waiting, Idle

LEMMA Alike == \A s : Changing(s) <=> Changes(calls[s])
  BY DEF Changing, Changes

(* Who may change chains is the only one that is busy.                     *)
LEMMA OthersRest ==
  ASSUME Inv, NEW s \in Callers, \A t \in Callers \ {s} : ~Changes(calls[t])
  PROVE  \A t \in Callers \ {s} : ~Busy(calls[t]) /\ ~Dirty(calls[t])
  BY BusyChanges, TypeInvIs DEF Inv

LEMMA OnlyOne ==
  ASSUME Inv, NEW s \in Callers, Changes(calls[s])
  PROVE  \A t \in Callers \ {s} : ~Changes(calls[t]) /\ ~Busy(calls[t]) /\ ~Dirty(calls[t])
  <1>1. \A t \in Callers \ {s} : ~Changes(calls[t])
    BY Alike DEF Inv, SerialInv, OneChange
  <1> QED BY <1>1, OthersRest

LEMMA IdleRests == ~Changes(Idle) /\ ~Busy(Idle) /\ ~Dirty(Idle)
  BY DEF Idle, Changes, Busy, Dirty, OfUpdate, OfRemoval

(* Only who is busy knows something that others could make wrong.          *)
LEMMA RestingKnows ==
  /\ \A call : ~Busy(call) => Knows(call)
  /\ \A call : (~Busy(call) => Knows(call))'
  BY DEF Busy, Knows, OfUpdate, OfRemoval

(* What a call does next depends on what is told of its chain.             *)
LEMMA ContinueForms ==
  ASSUME NEW call, GoodCall(call), call.pc \in Waiting, NEW infos
  PROVE  LET next == Continue(call, infos)
             known == call.chain \in DOMAIN infos
         IN  /\ next.pc \in {"idle", "ask", "addWrite", "removeWrite", "fetch", "rpc"}
             /\ next = Idle \/ (next.op = call.op /\ next.chain = call.chain)
             /\ Changes(next) => Changes(call)
             /\ next.pc = "addWrite" => ~known /\ next.list = chainInfos
             /\ next.pc = "removeWrite" => known /\ call.chain \notin Embedded /\ next.list = chainInfos
             /\ next.pc \in {"fetch", "rpc"} => known
  <1> DEFINE known == call.chain \in DOMAIN infos
             next == Continue(call, infos)
  <1>0. call \in CallRecords(call.list) /\ CallOK(call)
    BY DEF GoodCall
  <1>1. CASE call.pc = "suggest" /\ ~known
    <2>1. next = [call EXCEPT !.pc = "ask"]
      BY <1>1 DEF Continue
    <2> QED BY <1>0, <1>1, <2>1 DEF CallRecords, Changes
  <1>2. CASE call.pc = "add" /\ ~known
    <2>1. next = [call EXCEPT !.pc = "addWrite", !.list = chainInfos]
      BY <1>2 DEF Continue
    <2> QED BY <1>0, <1>2, <2>1 DEF CallRecords, Changes
  <1>3. CASE call.pc = "remove" /\ known /\ call.chain \notin Embedded
    <2>1. next = [call EXCEPT !.pc = "removeWrite", !.list = chainInfos]
      BY <1>3 DEF Continue
    <2> QED BY <1>0, <1>3, <2>1 DEF CallRecords, Changes
  <1>4. CASE call.pc = "update" /\ known
    <2>1. next = [call EXCEPT !.pc = "fetch"]
      BY <1>4 DEF Continue
    <2> QED BY <1>0, <1>4, <2>1 DEF CallRecords, Changes
  <1>5. CASE call.pc = "check" /\ known
    <2>1. next = [call EXCEPT !.pc = "rpc", !.local = infos[call.chain].local]
      BY <1>5 DEF Continue
    <2> QED BY <1>0, <1>5, <2>1 DEF CallRecords, Changes
  <1>6. CASE /\ ~(call.pc = "suggest" /\ ~known) /\ ~(call.pc = "add" /\ ~known)
             /\ ~(call.pc = "remove" /\ known /\ call.chain \notin Embedded)
             /\ ~(call.pc = "update" /\ known) /\ ~(call.pc = "check" /\ known)
    <2>1. next = Idle
      BY <1>6 DEF Continue
    <2> QED BY <2>1 DEF Idle, Changes
  <1> QED BY <1>1, <1>2, <1>3, <1>4, <1>5, <1>6

(* When all that is told is what the store says, the call knows what it    *)
(* has to know.                                                            *)
LEMMA ContinueKnows ==
  ASSUME NEW call, GoodCall(call), call.pc \in Waiting, NEW infos,
         NEW next, next = Continue(call, infos), GoodCall(next),
         DOMAIN infos = Registered, cachedChainInfos' = infos, UNCHANGED <<chainInfos, saved>>
  PROVE  Knows(next)'
  <1> DEFINE c == call.chain
  <1>1. /\ next.pc \in {"idle", "ask", "addWrite", "removeWrite", "fetch", "rpc"}
        /\ next = Idle \/ (next.op = call.op /\ next.chain = c)
        /\ next.pc = "addWrite" => c \notin DOMAIN infos /\ next.list = chainInfos
        /\ next.pc = "removeWrite" => c \in DOMAIN infos /\ c \notin Embedded /\ next.list = chainInfos
        /\ next.pc \in {"fetch", "rpc"} => c \in DOMAIN infos
    BY ContinueForms
  <1>2. next # Idle => next.chain = c
    BY <1>1
  <1>3. Idle.pc = "idle"
    BY DEF Idle
  <1>4. Registered' = Registered
    BY DEF Registered
  <1>5. CallOK(next)
    BY DEF GoodCall
  <1>6. next.pc \in {"idle", "ask"} => ~Busy(next)
    BY DEF Busy, OfUpdate, OfRemoval
  <1>7. CASE next.pc \in {"idle", "ask"}
    BY <1>6, <1>7, RestingKnows
  <1>8. CASE next.pc = "addWrite"
    <2>1. next.op = "suggest" /\ next.chain = c
      BY <1>2, <1>3, <1>5, <1>8 DEF CallOK, OfSuggestion
    <2> QED BY <1>1, <1>4, <1>8, <2>1 DEF Knows
  <1>9. CASE next.pc = "removeWrite"
    <2>1. next.op = "remove" /\ next.chain = c
      BY <1>2, <1>3, <1>5, <1>9 DEF CallOK, OfRemoval
    <2> QED BY <1>1, <1>4, <1>9, <2>1 DEF Knows
  <1>10. CASE next.pc \in {"fetch", "rpc"}
    <2>1. next.op = "update" /\ next.chain = c
      BY <1>2, <1>3, <1>5, <1>10 DEF CallOK, OfUpdate
    <2> QED BY <1>1, <1>4, <1>10, <2>1 DEF Knows
  <1> QED BY <1>1, <1>7, <1>8, <1>9, <1>10

-----------------------------------------------------------------------------
(* What the pages see of it.                                               *)
Job(call) == [op |-> call.op, chain |-> call.chain]
Jobs == [s \in Callers |-> Job(calls[s])]
Shown == IF cachedChainInfos # Undefined THEN cachedChainInfos ELSE InStore

LEMMA KnowsWith ==
  ASSUME NEW s \in Callers, NEW r, \A t \in Callers : calls'[t] = IF t = s THEN r ELSE calls[t],
         \A t \in Callers \ {s} : ~Busy(calls[t]), Knows(r)'
  PROVE  (\A t \in Callers : Knows(calls[t]))'
  <1>1. ASSUME NEW t \in Callers PROVE Knows(calls[t])'
    <2>1. CASE t = s
      <3>1. calls'[t] = r
        BY <2>1
      <3> QED BY <3>1 DEF Knows
    <2>2. CASE t # s
      <3>1. calls'[t] = calls[t] /\ ~Busy(calls[t])
        BY <2>2
      <3> QED BY <3>1 DEF Knows, Busy, OfUpdate, OfRemoval
    <2> QED BY <2>1, <2>2
  <1> QED BY <1>1

LEMMA ClearedKept ==
  ASSUME Cleared, UNCHANGED restarts, Registered \subseteq Registered',
         \A c \in Suggested \ Registered' : saved'[c].local = saved[c].local /\ saved'[c].updated = saved[c].updated,
         \A t \in Callers : calls[t].pc \in {"clearLocal", "clearUpdated"} => calls'[t] = calls[t]
  PROVE  Cleared'
  BY DEF Cleared

LEMMA OneChangeKept ==
  ASSUME OneChange, NEW s \in Callers, NEW r, \A t \in Callers : calls'[t] = IF t = s THEN r ELSE calls[t],
         Changes(r) => \A t \in Callers \ {s} : ~Changes(calls[t])
  PROVE  OneChange'
  BY DEF OneChange, Changing, Changes

(* A busy call goes on: it writes, or looks at something else.             *)
LEMMA WriteSafe ==
  ASSUME Inv, NEW s \in Callers, Busy(calls[s]),
         NEW r, GoodCall(r), Busy(r), Job(r) = Job(calls[s]), Goes(s, r),
         UNCHANGED <<cachedChainInfos, fill>>,
         \A d \in Chains \ {r.chain} : saved'[d] = saved[d] /\ (d \in Registered' <=> d \in Registered),
         Dirty(r) \/ (~Dirty(calls[s]) /\ UNCHANGED <<saved, chainInfos>>),
         Knows(r)', NoDuplicates', Cleared'
  PROVE  SerialInv' /\ UNCHANGED <<Shown, Jobs>>
  <1>0. TypeInv /\ SerialInv /\ GoodCall(calls[s]) /\ Changes(calls[s])
    BY GoodPC, BusyChanges DEF Inv
  <1>1. \A t \in Callers : calls'[t] = IF t = s THEN r ELSE calls[t]
    BY <1>0, GoesTyped
  <1>2. \A t \in Callers \ {s} : ~Changes(calls[t]) /\ ~Busy(calls[t]) /\ ~Dirty(calls[t])
    BY <1>0, OnlyOne
  <1>3. OneChange'
    BY <1>0, <1>1, <1>2, OneChangeKept DEF SerialInv
  <1>4. cachedChainInfos # Undefined /\ fill.pc = "idle"
    BY <1>0 DEF SerialInv, CacheThere
  <1>5. CacheThere' /\ FillAgrees'
    BY <1>4 DEF CacheThere, FillAgrees
  <1>6. OnlyTheChangedIsStale'
    <2>1. ASSUME NEW d \in Chains
          PROVE  Same(d)' \/ \E t \in Callers : Dirty(calls'[t]) /\ calls'[t].chain = d /\ calls'[t].op # "endpoints"
      <3>1. CASE d = r.chain /\ Dirty(r)
        BY <1>1, <3>1, BusyChanges
      <3>2. CASE d # r.chain \/ ~Dirty(r)
        <4>1. \A t \in Callers : ~(Dirty(calls[t]) /\ calls[t].chain = d)
          BY <1>2, <3>2 DEF Job
        <4>2. Same(d)
          BY <1>0, <1>4, <4>1 DEF SerialInv, OnlyTheChangedIsStale
        <4>3. saved'[d] = saved[d] /\ (d \in Registered' <=> d \in Registered)
          BY <3>2 DEF Registered
        <4> QED BY <4>2, <4>3 DEF Same
      <3> QED BY <3>1, <3>2
    <2> QED BY <2>1 DEF OnlyTheChangedIsStale
  <1>7. (\A t \in Callers : Knows(calls[t]))'
    BY <1>1, <1>2, KnowsWith
  <1>8. Shown' = Shown
    BY <1>4 DEF Shown
  <1>9. Jobs' = Jobs
    BY <1>1 DEF Jobs
  <1> QED BY <1>3, <1>5, <1>6, <1>7, <1>8, <1>9 DEF SerialInv

(* A call asks for the chain infos, and has changed nothing that the cache *)
(* does not tell.                                                          *)
LEMMA AskSafe ==
  ASSUME Inv, NEW s \in Callers, ~Dirty(calls[s]), calls[s].pc \notin {"clearLocal", "clearUpdated"},
         NEW r, GoodCall(r), r.pc \in Waiting, GetChainInfos(s, r, cachedChainInfos),
         UNCHANGED <<chainInfos, saved, restarts>>,
         Changes(r) => \A t \in Callers \ {s} : ~Changes(calls[t])
  PROVE  /\ SerialInv' /\ Shown' = Shown
         /\ Jobs' \in {[Jobs EXCEPT ![s] = Job(r)], [Jobs EXCEPT ![s] = Job(Idle)]}
  <1>0. TypeInv /\ SerialInv /\ DOMAIN calls = Callers /\ IsList(chainInfos)
    BY TypeInvIs DEF Inv
  <1>1. cachedChainInfos' = cachedChainInfos /\ Registered' = Registered
    BY DEF GetChainInfos, Registered
  <1>2. Shown' = Shown
    BY <1>1 DEF Shown, InStore
  <1>3. ASSUME NEW next, GoodCall(next), \A t \in Callers : calls'[t] = IF t = s THEN next ELSE calls[t],
               next.pc \in Waiting \cup {"idle", "ask", "addWrite", "removeWrite", "fetch", "rpc"},
               Changes(next) => Changes(r), Knows(next)',
               Busy(next) => \A t \in Callers \ {s} : ~Busy(calls[t]),
               CacheThere', FillAgrees'
        PROVE  SerialInv'
    <2>1. OneChange'
      BY <1>0, <1>3, OneChangeKept DEF SerialInv
    <2>2. ~Dirty(next)
      BY <1>3 DEF Dirty, Waiting
    <2>3. OnlyTheChangedIsStale'
      <3>1. ASSUME NEW c \in Chains, cachedChainInfos # Undefined
            PROVE  Same(c)' \/ \E t \in Callers :
                      /\ Dirty(calls'[t]) /\ calls'[t].chain = c
                      /\ calls'[t].op = "endpoints" => (c \in DOMAIN cachedChainInfos' <=> c \in Registered')
        <4>1. CASE Same(c)
          BY <1>1, <4>1 DEF Same
        <4>2. CASE ~Same(c)
          <5>1. PICK t \in Callers :
                    /\ Dirty(calls[t]) /\ calls[t].chain = c
                    /\ calls[t].op = "endpoints" => (c \in DOMAIN cachedChainInfos <=> c \in Registered)
            BY <1>0, <3>1, <4>2 DEF SerialInv, OnlyTheChangedIsStale
          <5>2. calls'[t] = calls[t]
            BY <1>3, <5>1
          <5> QED BY <1>1, <5>1, <5>2
        <4> QED BY <4>1, <4>2
      <3> QED BY <1>1, <3>1 DEF OnlyTheChangedIsStale
    <2>4. \A t \in Callers : Knows(calls[t])'
      <3>1. ASSUME NEW t \in Callers PROVE Knows(calls[t])'
        <4>1. CASE t = s
          <5>1. calls'[t] = next
            BY <1>3, <4>1
          <5> QED BY <1>3, <5>1 DEF Knows
        <4>2. CASE t # s
          <5>1. Knows(calls[t]) /\ calls'[t] = calls[t]
            BY <1>0, <1>3, <4>2 DEF SerialInv
          <5> QED BY <1>1, <5>1 DEF Knows
        <4> QED BY <4>1, <4>2
      <3> QED BY <3>1
    <2>5. Cleared'
      BY <1>0, <1>1, <1>3, ClearedKept DEF SerialInv
    <2>6. NoDuplicates'
      BY <1>0 DEF SerialInv, NoDuplicates
    <2> QED BY <1>3, <2>1, <2>3, <2>4, <2>5, <2>6 DEF SerialInv
  <1>4. CASE cachedChainInfos # Undefined
    <2>0. PICK next : next = Continue(r, cachedChainInfos)
      OBVIOUS
    <2>1. Goes(s, next) /\ fill' = fill
      BY <1>4, <2>0 DEF GetChainInfos, Goes
    <2>2. GoodCall(next)
      BY <1>0, <1>4, <2>0, ContinueTyped, TypeInvIs DEF EmbeddedTold
    <2>3. \A t \in Callers : calls'[t] = IF t = s THEN next ELSE calls[t]
      BY <1>0, <2>1, <2>2, GoesTyped
    <2>4. /\ next.pc \in {"idle", "ask", "addWrite", "removeWrite", "fetch", "rpc"}
          /\ next = Idle \/ Job(next) = Job(r)
          /\ Changes(next) => Changes(r)
      BY <2>0, ContinueForms DEF Job
    <2>5. CacheThere' /\ FillAgrees'
      <3>1. fill.pc = "idle"
        BY <1>0, <1>4 DEF SerialInv, CacheThere
      <3> QED BY <1>1, <1>4, <2>1, <3>1 DEF CacheThere, FillAgrees
    <2>6. Busy(next) => \A t \in Callers \ {s} : ~Changes(calls[t]) /\ ~Busy(calls[t]) /\ ~Dirty(calls[t])
      BY <2>2, <2>4, BusyChanges, OthersRest
    <2>7. Knows(next)'
      <3>1. CASE ~Busy(next)
        BY <3>1, RestingKnows
      <3>2. CASE Busy(next)
        <4>1. \A t \in Callers : ~Dirty(calls[t])
          BY <2>6, <3>2
        <4>2. \A c \in Chains : Same(c)
          BY <1>0, <1>4, <4>1 DEF SerialInv, OnlyTheChangedIsStale
        <4>3. DOMAIN cachedChainInfos \subseteq Chains /\ Registered \subseteq Chains
          BY <1>0, TypeInvIs DEF Told, IsList, Registered, Chains
        <4>4. DOMAIN cachedChainInfos = Registered
          BY <4>2, <4>3 DEF Same
        <4> QED BY <1>1, <2>0, <2>2, <4>4, ContinueKnows
      <3> QED BY <3>1, <3>2
    <2>8. SerialInv'
      BY <1>3, <2>2, <2>3, <2>4, <2>5, <2>6, <2>7
    <2>9. Jobs' = [Jobs EXCEPT ![s] = Job(next)]
      BY <2>3 DEF Jobs
    <2> QED BY <1>2, <2>4, <2>8, <2>9
  <1>5. CASE cachedChainInfos = Undefined
    <2>1. Goes(s, r) /\ fill' = IF fill.pc = "idle" THEN NewFill ELSE fill
      BY <1>5 DEF GetChainInfos, Goes
    <2>2. \A t \in Callers : calls'[t] = IF t = s THEN r ELSE calls[t]
      BY <1>0, <2>1, GoesTyped
    <2>3. ~Busy(r)
      BY BusyChanges
    <2>4. \A t \in Callers : ~Busy(calls[t])
      BY <1>0, <1>5 DEF SerialInv, CacheThere
    <2>5. CacheThere'
      BY <1>1, <1>5, <2>2, <2>3, <2>4 DEF CacheThere
    <2>6. FillAgrees'
      BY <1>0, <1>1, <2>1 DEF SerialInv, FillAgrees, NewFill, NoFill
    <2>7. Knows(r)'
      BY <2>3, RestingKnows
    <2>8. SerialInv'
      BY <1>3, <2>2, <2>3, <2>5, <2>6, <2>7
    <2>9. Jobs' = [Jobs EXCEPT ![s] = Job(r)]
      BY <2>2 DEF Jobs
    <2> QED BY <1>2, <2>8, <2>9
  <1> QED BY <1>4, <1>5

(* The one call that changes chains clears the cache.                      *)
LEMMA ClearSafe ==
  ASSUME Inv, NEW s \in Callers, Changes(calls[s]), calls[s].pc \notin {"clearLocal", "clearUpdated"},
         NEW r, GoodCall(r), r.pc \in Waiting, Job(r) = Job(calls[s]), GetChainInfos(s, r, Undefined),
         UNCHANGED <<chainInfos, saved, restarts>>
  PROVE  /\ SerialInv' /\ UNCHANGED Jobs /\ Shown' = InStore
         /\ cachedChainInfos # Undefined => \A c \in Chains \ {r.chain} : Same(c)
         /\ cachedChainInfos # Undefined /\ r.op = "endpoints" =>
                (r.chain \in DOMAIN cachedChainInfos <=> r.chain \in Registered)
  <1>0. TypeInv /\ SerialInv
    BY DEF Inv
  <1>1. /\ Goes(s, r) /\ cachedChainInfos' = Undefined
        /\ fill' = IF fill.pc = "idle" THEN NewFill ELSE fill
    BY DEF GetChainInfos, Goes
  <1>2. \A t \in Callers : calls'[t] = IF t = s THEN r ELSE calls[t]
    BY <1>0, <1>1, GoesTyped
  <1>3. /\ \A t \in Callers \ {s} : ~Changes(calls[t]) /\ ~Busy(calls[t]) /\ ~Dirty(calls[t])
        /\ ~Busy(r)
    BY OnlyOne, BusyChanges
  <1>4. Registered' = Registered
    BY DEF Registered
  <1>5. OneChange'
    BY <1>0, <1>2, <1>3, OneChangeKept DEF SerialInv
  <1>6. CacheThere'
    BY <1>1, <1>2, <1>3 DEF CacheThere
  <1>7. FillAgrees'
    BY <1>0, <1>1, <1>4 DEF SerialInv, FillAgrees, NewFill, NoFill
  <1>8. OnlyTheChangedIsStale'
    BY <1>1 DEF OnlyTheChangedIsStale
  <1>9. (\A t \in Callers : Knows(calls[t]))'
    BY <1>2, <1>3, RestingKnows, KnowsWith
  <1>10. Cleared' /\ NoDuplicates'
    BY <1>0, <1>2, <1>4, ClearedKept DEF SerialInv, NoDuplicates
  <1>11. UNCHANGED Jobs /\ Shown' = InStore
    BY <1>1, <1>2, <1>4 DEF Jobs, Shown, InStore
  <1>12. ASSUME cachedChainInfos # Undefined, NEW c \in Chains \ {r.chain} PROVE Same(c)
    <2>1. \A t \in Callers : ~(Dirty(calls[t]) /\ calls[t].chain = c)
      BY <1>3 DEF Job
    <2> QED BY <1>0, <1>12, <2>1 DEF SerialInv, OnlyTheChangedIsStale
  <1>13. ASSUME cachedChainInfos # Undefined, r.op = "endpoints"
         PROVE  r.chain \in DOMAIN cachedChainInfos <=> r.chain \in Registered
    <2>1. r.chain \in Chains
      BY <1>13 DEF GoodCall, CallOK
    <2>2. CASE Same(r.chain)
      BY <2>2 DEF Same
    <2>3. CASE ~Same(r.chain)
      <3>1. PICK t \in Callers :
                /\ Dirty(calls[t]) /\ calls[t].chain = r.chain
                /\ calls[t].op = "endpoints" =>
                        (r.chain \in DOMAIN cachedChainInfos <=> r.chain \in Registered)
        BY <1>0, <1>13, <2>1, <2>3 DEF SerialInv, OnlyTheChangedIsStale
      <3>2. t = s
        BY <1>3, <3>1
      <3>3. calls[t].op = "endpoints"
        BY <1>13, <3>2 DEF Job
      <3> QED BY <3>1, <3>3
    <2> QED BY <2>2, <2>3
  <1> QED BY <1>5, <1>6, <1>7, <1>8, <1>9, <1>10, <1>11, <1>12, <1>13 DEF SerialInv

(* The fill reads, and nothing is written while it does.                   *)
LEMMA FillSafe ==
  ASSUME Inv, Fill
  PROVE  /\ SerialInv' /\ Shown' = Shown
         /\ \E answered \in SUBSET Callers :
                Jobs' = [s \in Callers |-> IF s \in answered THEN Job(Idle) ELSE Jobs[s]]
  <1>0. TypeInv /\ SerialInv /\ TypeOK /\ fill \in FillRecords
    BY TypeInvIs DEF Inv, TypeInv
  <1>1. ASSUME UNCHANGED <<chainInfos, saved, cachedChainInfos, calls, restarts>>, fill.pc # "idle", FillAgrees'
        PROVE  /\ SerialInv' /\ Shown' = Shown
               /\ UNCHANGED Jobs
    <2>1. Registered' = Registered
      BY <1>1 DEF Registered
    <2>2. OneChange' /\ CacheThere' /\ NoDuplicates'
      BY <1>0, <1>1 DEF SerialInv, OneChange, CacheThere, NoDuplicates, Changing
    <2>3. OnlyTheChangedIsStale' /\ (\A s \in Callers : Knows(calls[s]))' /\ Cleared'
      BY <1>0, <1>1, <2>1 DEF SerialInv, OnlyTheChangedIsStale, Same, Knows, Cleared
    <2>4. Shown' = Shown /\ Jobs' = Jobs
      BY <1>1, <2>1 DEF Shown, InStore, Jobs
    <2> QED BY <1>1, <2>2, <2>3, <2>4 DEF SerialInv
  <1>2. ASSUME FillList
        PROVE  SerialInv' /\ Shown' = Shown /\ UNCHANGED Jobs
    <2>1. /\ fill.pc = "list" /\ UNCHANGED <<chainInfos, saved, cachedChainInfos, calls, restarts>>
          /\ fill'.pc = "infos" /\ fill'.chains = fill.chains
          /\ \A c \in Chains : fill'.at[c] = IF c \in fill.chains THEN 1 ELSE 0
          /\ \A c \in Chains : fill'.infos[c].updated = saved[c].updated
      BY <1>0, <1>2 DEF FillList, FillRecords, Plain
    <2>2. fill.chains \subseteq Chains /\ fill.chains = Registered /\ Registered' = Registered
      BY <1>0, <2>1 DEF SerialInv, FillAgrees, FillRecords, Registered
    <2>3. FillAgrees'
      BY <2>1, <2>2 DEF FillAgrees
    <2> QED BY <1>1, <2>1, <2>3
  <1>3. ASSUME NEW c \in Chains, FillReads(c)
        PROVE  /\ SerialInv' /\ Shown' = Shown
               /\ UNCHANGED Jobs
    <2> DEFINE info == IF fill.at[c] = 1 THEN [fill.infos[c] EXCEPT !.local = saved[c].local]
                       ELSE [fill.infos[c] EXCEPT !.endpoints = saved[c].endpoints]
    <2>1. /\ fill.pc = "infos" /\ fill.at[c] \in {1, 2}
          /\ fill' = [fill EXCEPT !.at[c] = fill.at[c] + 1, !.infos[c] = info]
          /\ UNCHANGED <<chainInfos, saved, cachedChainInfos, calls, restarts>>
      BY <1>3 DEF FillReads
    <2>2. /\ info.updated = fill.infos[c].updated
          /\ fill.at[c] = 1 => info.local = saved[c].local
          /\ fill.at[c] = 2 => info.local = fill.infos[c].local /\ info.endpoints = saved[c].endpoints
      BY <1>0, <2>1 DEF TypeOK, FillRecords, Infos
    <2> HIDE DEF info
    <2>3. /\ fill'.pc = "infos" /\ fill'.chains = fill.chains
          /\ \A d \in Chains : fill'.at[d] = IF d = c THEN fill.at[c] + 1 ELSE fill.at[d]
          /\ \A d \in Chains : fill'.infos[d] = IF d = c THEN info ELSE fill.infos[d]
      BY <1>0, <2>1 DEF FillRecords
    <2>4. fill.chains \subseteq Chains /\ fill.chains = Registered /\ Registered' = Registered
      BY <1>0, <2>1 DEF SerialInv, FillAgrees, FillRecords, Registered
    <2>5. ASSUME NEW d \in fill.chains
          PROVE  /\ fill'.at[d] \in 1..4
                 /\ fill'.infos[d].updated = saved[d].updated
                 /\ fill'.at[d] > 1 => fill'.infos[d].local = saved[d].local
                 /\ fill'.at[d] > 2 => fill'.infos[d].endpoints = saved[d].endpoints
      <3>1. /\ fill.at[d] \in 1..4
            /\ fill.infos[d].updated = saved[d].updated
            /\ fill.at[d] > 1 => fill.infos[d].local = saved[d].local
            /\ fill.at[d] > 2 => fill.infos[d].endpoints = saved[d].endpoints
        BY <1>0, <2>1 DEF SerialInv, FillAgrees
      <3>2. CASE d # c
        BY <2>3, <2>4, <3>1, <3>2
      <3>3. CASE d = c
        BY <2>1, <2>2, <2>3, <2>4, <3>1, <3>3
      <3> QED BY <3>2, <3>3
    <2>6. FillAgrees'
      BY <2>1, <2>3, <2>4, <2>5 DEF FillAgrees
    <2> QED BY <1>1, <2>1, <2>6
  <1>4. ASSUME NEW c \in Chains, FillDone(c), ~\A d \in fill.chains \ {c} : fill.at[d] = 4
        PROVE  /\ SerialInv' /\ Shown' = Shown
               /\ UNCHANGED Jobs
    <2>1. /\ fill.pc = "infos" /\ fill.at[c] = 3
          /\ fill' = [fill EXCEPT !.at[c] = 4] /\ UNCHANGED <<chainInfos, saved, cachedChainInfos, restarts>>
          /\ calls' = [s \in Callers |-> calls[s]]
      BY <1>4 DEF FillDone
    <2>2. /\ fill'.pc = "infos" /\ fill'.chains = fill.chains /\ fill'.infos = fill.infos
          /\ \A d \in Chains : fill'.at[d] = IF d = c THEN 4 ELSE fill.at[d]
      BY <1>0, <2>1 DEF FillRecords
    <2>3. fill.chains \subseteq Chains /\ Registered' = Registered
      BY <1>0, <2>1 DEF FillRecords, Registered
    <2>4. FillAgrees'
      BY <1>0, <2>1, <2>2, <2>3 DEF SerialInv, FillAgrees
    <2>5. \A s \in Callers : calls'[s] = calls[s]
      BY <2>1
    <2>6. OneChange' /\ CacheThere' /\ NoDuplicates'
      BY <1>0, <2>1, <2>2, <2>5 DEF SerialInv, OneChange, CacheThere, NoDuplicates, Changing
    <2>7. OnlyTheChangedIsStale' /\ (\A s \in Callers : Knows(calls[s]))' /\ Cleared'
      BY <1>0, <2>1, <2>3, <2>5 DEF SerialInv, OnlyTheChangedIsStale, Same, Knows, Cleared
    <2>8. Shown' = Shown /\ UNCHANGED Jobs
      BY <2>1, <2>3, <2>5 DEF Shown, InStore, Jobs
    <2> QED BY <2>4, <2>6, <2>7, <2>8 DEF SerialInv
  <1>5. ASSUME NEW c \in Chains, FillDone(c), \A d \in fill.chains \ {c} : fill.at[d] = 4
        PROVE  /\ SerialInv' /\ Shown' = Shown
               /\ \E answered \in SUBSET Callers :
                    Jobs' = [s \in Callers |-> IF s \in answered THEN Job(Idle) ELSE Jobs[s]]
    <2>0. PICK infos : infos = [d \in fill.chains |-> fill.infos[d]]
      OBVIOUS
    <2>1. /\ fill.pc = "infos" /\ fill.at[c] = 3 /\ fill' = NoFill /\ cachedChainInfos' = infos
          /\ calls' = [s \in Callers |-> IF calls[s].pc \in Waiting THEN Continue(calls[s], infos) ELSE calls[s]]
          /\ UNCHANGED <<chainInfos, saved, restarts>>
      BY <1>5, <2>0 DEF FillDone
    <2>2. fill.chains = Registered /\ Registered' = Registered /\ Registered \subseteq Chains
      BY <1>0, <2>1 DEF SerialInv, FillAgrees, FillRecords, Registered
    <2>3. \A d \in Registered : infos[d] = saved[d]
      <3>1. ASSUME NEW d \in Registered PROVE fill.infos[d] = saved[d]
        <4>1. fill.at[d] \in {3, 4}
          BY <1>5, <2>1, <2>2
        <4>2. /\ fill.infos[d].updated = saved[d].updated /\ fill.infos[d].local = saved[d].local
              /\ fill.infos[d].endpoints = saved[d].endpoints
          BY <1>0, <2>1, <2>2, <4>1 DEF SerialInv, FillAgrees
        <4>3. fill.infos[d] \in Infos /\ saved[d] \in Infos
          BY <1>0, <2>2 DEF TypeOK, FillRecords
        <4> QED BY <4>2, <4>3 DEF Infos
      <3> QED BY <2>0, <2>2, <3>1
    <2>4. DOMAIN infos = Registered /\ infos = InStore
      BY <2>0, <2>2, <2>3 DEF InStore
    <2>5. infos \in Told /\ Embedded \subseteq DOMAIN infos
      <3>1. saved \in [Chains -> Infos]
        BY <1>0 DEF TypeOK
      <3>2. infos \in [Registered -> Infos]
        BY <2>2, <2>4, <3>1 DEF InStore
      <3> QED BY <2>2, <2>4, <3>2 DEF Told, Registered
    <2>6. cachedChainInfos = Undefined /\ cachedChainInfos' # Undefined
      BY <1>0, <2>1, <2>5, ToldIsDefined DEF SerialInv, CacheThere
    <2>7. \A s \in Callers : GoodCall(calls[s]) /\ ~Busy(calls[s])
      BY <1>0, <2>6, TypeInvIs DEF SerialInv, CacheThere
    <2>8. \A s \in Callers :
            /\ calls[s].pc \notin Waiting => calls'[s] = calls[s]
            /\ calls[s].pc \in Waiting =>
                /\ calls'[s] = Continue(calls[s], infos) /\ GoodCall(calls'[s])
                /\ calls'[s] = Idle \/ Job(calls'[s]) = Job(calls[s])
                /\ Changes(calls'[s]) => Changes(calls[s])
      <3>1. IsList(chainInfos)
        BY <1>0, TypeInvIs
      <3> QED BY <2>1, <2>5, <2>7, <3>1, ContinueTyped, ContinueForms DEF Job
    <2>9. OneChange'
      BY <1>0, <2>8 DEF SerialInv, OneChange, Changing, Changes
    <2>10. CacheThere' /\ FillAgrees'
      BY <2>1, <2>6 DEF CacheThere, FillAgrees, NoFill
    <2>11. OnlyTheChangedIsStale'
      <3>1. \A d \in Chains : Same(d)'
        BY <2>1, <2>2, <2>3, <2>4 DEF Same
      <3> QED BY <3>1 DEF OnlyTheChangedIsStale
    <2>12. (\A s \in Callers : Knows(calls[s]))'
      <3>1. ASSUME NEW s \in Callers PROVE Knows(calls[s])'
        <4>1. PICK next : next = calls'[s]
          OBVIOUS
        <4>2. CASE calls[s].pc \in Waiting
          <5>1. Knows(next)'
            BY <2>1, <2>4, <2>7, <2>8, <4>1, <4>2, ContinueKnows
          <5> QED BY <4>1, <5>1 DEF Knows
        <4>3. CASE calls[s].pc \notin Waiting
          <5>1. ~Busy(next)
            BY <2>7, <2>8, <4>1, <4>3
          <5>2. Knows(next)'
            BY <5>1, RestingKnows
          <5> QED BY <4>1, <5>2 DEF Knows
        <4> QED BY <4>2, <4>3
      <3> QED BY <3>1
    <2>13. Cleared' /\ NoDuplicates'
      <3>1. \A t \in Callers : calls[t].pc \in {"clearLocal", "clearUpdated"} => calls'[t] = calls[t]
        BY <2>8 DEF Waiting
      <3> QED BY <1>0, <2>1, <2>2, <3>1, ClearedKept DEF SerialInv, NoDuplicates
    <2>14. Shown' = Shown
      BY <2>1, <2>4, <2>6 DEF Shown
    <2>15. \E answered \in SUBSET Callers :
              Jobs' = [s \in Callers |-> IF s \in answered THEN Job(Idle) ELSE Jobs[s]]
      <3> DEFINE answered == {s \in Callers : Job(calls'[s]) # Job(calls[s])}
      <3>1. \A s \in Callers : Job(calls'[s]) = IF s \in answered THEN Job(Idle) ELSE Job(calls[s])
        BY <2>8
      <3>2. Jobs' = [s \in Callers |-> IF s \in answered THEN Job(Idle) ELSE Jobs[s]]
        BY <3>1 DEF Jobs
      <3>3. answered \in SUBSET Callers
        OBVIOUS
      <3> QED BY <3>2, <3>3
    <2> QED BY <2>9, <2>10, <2>11, <2>12, <2>13, <2>14, <2>15 DEF SerialInv
  <1>6. ASSUME UNCHANGED Jobs
        PROVE  \E answered \in SUBSET Callers :
                    Jobs' = [s \in Callers |-> IF s \in answered THEN Job(Idle) ELSE Jobs[s]]
    <2>1. Jobs' = [s \in Callers |-> IF s \in {} THEN Job(Idle) ELSE Jobs[s]]
      BY <1>6 DEF Jobs
    <2>2. {} \in SUBSET Callers
      OBVIOUS
    <2> QED BY <2>1, <2>2
  <1> QED BY <1>2, <1>3, <1>4, <1>5, <1>6 DEF Fill

-----------------------------------------------------------------------------
(* The steps of the register.                                              *)
LEMMA Stutters ==
  ASSUME UNCHANGED <<Shown, Jobs>>
  PROVE  [Register!Next]_Register!vars
  BY DEF Register!vars, Shown, Jobs, Job

LEMMA Answers ==
  ASSUME Shown' = Shown, NEW answered \in SUBSET Callers,
         Jobs' = [s \in Callers |-> IF s \in answered THEN Job(Idle) ELSE Jobs[s]]
  PROVE  Register!Next
  <1>1. Register!End(answered)
    BY DEF Register!End, Shown, Jobs, Job, Idle
  <1> QED BY <1>1 DEF Register!Next

(* A call asks, and either waits, goes on or is answered.                  *)
LEMMA AskImplements ==
  ASSUME NEW s \in Callers, Shown' = Shown, NEW r, Job(r) = Jobs[s],
         Jobs' \in {[Jobs EXCEPT ![s] = Job(r)], [Jobs EXCEPT ![s] = Job(Idle)]}
  PROVE  [Register!Next]_Register!vars
  <1>0. Jobs = [t \in Callers |-> Jobs[t]]
    BY DEF Jobs
  <1>1. CASE Jobs' = [Jobs EXCEPT ![s] = Job(r)]
    <2>1. Jobs' = Jobs
      BY <1>0, <1>1
    <2> QED BY <2>1, Stutters
  <1>2. CASE Jobs' = [Jobs EXCEPT ![s] = Job(Idle)]
    <2>1. Jobs' = [t \in Callers |-> IF t \in {s} THEN Job(Idle) ELSE Jobs[t]]
      BY <1>0, <1>2
    <2> QED BY <2>1, Answers
  <1> QED BY <1>1, <1>2

LEMMA ShownFacts ==
  ASSUME Inv
  PROVE  /\ Registered \subseteq Chains /\ Embedded \subseteq Registered
         /\ saved \in [Chains -> Infos] /\ \A c \in Registered : saved[c] \in Infos
         /\ cachedChainInfos # Undefined =>
                /\ DOMAIN cachedChainInfos \subseteq Chains
                /\ cachedChainInfos = [d \in DOMAIN cachedChainInfos |-> cachedChainInfos[d]]
  BY TypeInvIs DEF Inv, IsList, Registered, Chains, Told

(* The cache is cleared by who has changed the chain.                      *)
LEMMA ChangeImplements ==
  ASSUME Inv, NEW s \in Callers, NEW c \in Chains, Jobs[s].chain = c, Jobs[s].op \in {"update", "endpoints"},
         UNCHANGED Jobs, Shown' = InStore,
         cachedChainInfos # Undefined => \A d \in Chains \ {c} : Same(d),
         cachedChainInfos # Undefined => (c \in DOMAIN cachedChainInfos <=> c \in Registered)
  PROVE  [Register!Next]_Register!vars
  <1>1. CASE cachedChainInfos = Undefined
    <2>1. Shown' = Shown
      BY <1>1 DEF Shown
    <2> QED BY <2>1, Stutters
  <1>2. CASE cachedChainInfos # Undefined
    <2>1. Shown = cachedChainInfos /\ DOMAIN cachedChainInfos = Registered
      BY <1>2, ShownFacts DEF Shown, Same
    <2>2. \A d \in Registered \ {c} : cachedChainInfos[d] = saved[d]
      BY <1>2, ShownFacts DEF Same
    <2>3. CASE c \notin Registered
      <3>1. Shown' = Shown
        BY <1>2, <2>1, <2>2, <2>3, ShownFacts DEF InStore
      <3> QED BY <3>1, Stutters
    <2>4. CASE c \in Registered
      <3>1. InStore = [Shown EXCEPT ![c] = saved[c]] /\ saved[c] \in Infos
        BY <1>2, <2>1, <2>2, <2>4, ShownFacts DEF InStore
      <3>2. Register!Change(s, c)
        BY <2>1, <2>4, <3>1 DEF Register!Change, Register!Known, Register!Job, Shown, Jobs, Job
      <3> QED BY <3>2 DEF Register!Next, Register!Chains, Chains
    <2> QED BY <2>3, <2>4
  <1> QED BY <1>1, <1>2

LEMMA RemoveImplements ==
  ASSUME Inv, NEW s \in Callers, NEW c \in Suggested, Jobs[s].chain = c, Jobs[s].op = "remove",
         UNCHANGED Jobs, Shown' = InStore, cachedChainInfos # Undefined,
         \A d \in Chains \ {c} : Same(d), c \in DOMAIN cachedChainInfos, c \notin Registered
  PROVE  [Register!Next]_Register!vars
  <1>1. Shown = cachedChainInfos /\ DOMAIN cachedChainInfos = Registered \cup {c}
    BY ShownFacts DEF Shown, Same, Chains
  <1>2. \A d \in Registered : cachedChainInfos[d] = saved[d]
    BY ShownFacts DEF Same
  <1>3. InStore = [d \in DOMAIN Shown \ {c} |-> Shown[d]]
    BY <1>1, <1>2 DEF InStore
  <1>4. Register!Remove(s, c)
    BY <1>1, <1>3, ChainsAssumption DEF Register!Remove, Register!Known, Register!Job, Shown, Jobs, Job
  <1> QED BY <1>4 DEF Register!Next, Register!Chains, Chains

LEMMA AddImplements ==
  ASSUME Inv, NEW s \in Callers, NEW c \in Suggested, Jobs[s].chain = c, Jobs[s].op = "suggest",
         Jobs' = [Jobs EXCEPT ![s] = Job(Idle)], Shown' = InStore, cachedChainInfos # Undefined,
         \A d \in Chains \ {c} : Same(d), c \notin DOMAIN cachedChainInfos, c \in Registered
  PROVE  [Register!Next]_Register!vars
  <1>1. Shown = cachedChainInfos /\ Registered = DOMAIN cachedChainInfos \cup {c}
    BY ShownFacts DEF Shown, Same, Chains
  <1>2. \A d \in Registered \ {c} : cachedChainInfos[d] = saved[d]
    BY ShownFacts DEF Same
  <1>3. InStore = [d \in DOMAIN Shown \cup {c} |-> IF d = c THEN saved[c] ELSE Shown[d]] /\ saved[c] \in Infos
    BY <1>1, <1>2, ShownFacts DEF InStore
  <1>4. Register!Add(s, c)
    BY <1>1, <1>3 DEF Register!Add, Register!Known, Register!Job, Shown, Jobs, Job, Idle
  <1> QED BY <1>4 DEF Register!Next, Register!Chains, Chains

-----------------------------------------------------------------------------
(* Each step keeps the invariant and is one of the register.               *)
LEMMA BusyFacts ==
  ASSUME Inv, NEW s \in Callers
  PROVE  /\ GoodCall(calls[s]) /\ calls[s] \in CallRecords(calls[s].list) /\ CallOK(calls[s])
         /\ Knows(calls[s]) /\ TypeOK /\ SerialInv /\ NoDuplicates /\ Cleared
         /\ Jobs[s] = Job(calls[s]) /\ Jobs[s].op = calls[s].op /\ Jobs[s].chain = calls[s].chain
         /\ calls[s].pc # "idle" => calls[s].op # "none" /\ calls[s].chain \in Chains
  BY GoodPC DEF Inv, SerialInv, TypeInv, Jobs, Job

(* Nothing that is not registered is written to.                           *)
LEMMA BusyNext ==
  ASSUME Inv, NEW s \in Callers, Busy(calls[s]), calls[s].pc \notin {"clearLocal", "clearUpdated"},
         NEW r, GoodCall(r), Busy(r), Job(r) = Job(calls[s]), Goes(s, r),
         UNCHANGED <<chainInfos, cachedChainInfos, fill, restarts>>,
         \/ UNCHANGED saved /\ (Dirty(r) \/ ~Dirty(calls[s]))
         \/ Dirty(r) /\ \E info \in Infos : saved' = [saved EXCEPT ![calls[s].chain] = info],
         calls[s].op = "update"
  PROVE  SerialInv' /\ [Register!Next]_Register!vars
  <1> DEFINE c == calls[s].chain
  <1>0. /\ SerialInv /\ NoDuplicates /\ Cleared /\ TypeOK /\ c \in Registered /\ c \in DOMAIN cachedChainInfos
        /\ r.chain = c /\ r.op = "update" /\ CallOK(r)
    BY BusyFacts DEF Knows, Job, GoodCall
  <1>1. Registered' = Registered /\ NoDuplicates'
    BY <1>0 DEF Registered, NoDuplicates
  <1>2. saved \in [Chains -> Infos]
    BY <1>0 DEF TypeOK
  <1>3. \A d \in Chains \ {c} : saved'[d] = saved[d]
    BY <1>2
  <1>4. Knows(r)'
    BY <1>0, <1>1 DEF Knows, CallOK, OfRemoval, OfSuggestion
  <1>5. \A t \in Callers : calls[t].pc \in {"clearLocal", "clearUpdated"} => calls'[t] = calls[t]
    BY GoesTyped DEF Inv
  <1>6. Registered \subseteq Chains
    BY ShownFacts
  <1>7. Cleared'
    <2>1. \A d \in Suggested \ Registered' : saved'[d] = saved[d]
      BY <1>0, <1>1, <1>3 DEF Chains
    <2> QED BY <1>0, <1>1, <1>5, <2>1, ClearedKept
  <1>8. SerialInv' /\ UNCHANGED <<Shown, Jobs>>
    BY <1>0, <1>1, <1>3, <1>4, <1>7, WriteSafe
  <1> QED BY <1>8, Stutters

LEMMA ChangeListSafe ==
  ASSUME Inv, Serial, NEW s \in Callers, ChangeList(s)
  PROVE  SerialInv' /\ [Register!Next]_Register!vars
  <1> DEFINE call == calls[s]
             c == calls[s].chain
  <1>0. /\ GoodCall(call) /\ call \in CallRecords(call.list) /\ CallOK(call) /\ Knows(call) /\ TypeOK
        /\ NoDuplicates /\ Cleared /\ Jobs[s] = Job(call) /\ Jobs[s].op = call.op /\ Jobs[s].chain = c
        /\ SerialInv /\ saved \in [Chains -> Infos] /\ TypeInv
    BY BusyFacts DEF TypeOK, Inv
  <1>1. CASE Approve(s)
    <2>0. PICK r : r = [call EXCEPT !.pc = "add"]
      OBVIOUS
    <2>1. /\ call.pc = "ask" /\ call.op = "suggest" /\ GetChainInfos(s, r, cachedChainInfos)
          /\ UNCHANGED <<chainInfos, saved, restarts>>
          /\ \A t \in Callers \ {s} : ~Changes(calls[t])
      BY <1>0, <1>1, <2>0, Alike DEF Approve, Alone, CallOK, OfSuggestion
    <2>2. GoodCall(r) /\ r.pc \in Waiting /\ Job(r) = Job(call)
      BY <1>0, <2>0, <2>1, MovesTyped DEF CallRecords, Waiting, Job
    <2>3. ~Dirty(call)
      BY <2>1 DEF Dirty
    <2>4. SerialInv' /\ Shown' = Shown /\ Jobs' \in {[Jobs EXCEPT ![s] = Job(r)], [Jobs EXCEPT ![s] = Job(Idle)]}
      BY <2>1, <2>2, <2>3, AskSafe
    <2> QED BY <1>0, <2>2, <2>4, AskImplements
  <1>2. CASE Reject(s)
    <2>1. /\ call.pc = "ask" /\ Goes(s, Idle) /\ UNCHANGED <<chainInfos, saved, cachedChainInfos, fill, restarts>>
      BY <1>2 DEF Reject
    <2>2. \A t \in Callers : calls'[t] = IF t = s THEN Idle ELSE calls[t]
      BY <1>0, <2>1, GoesTyped, IdleIsGood
    <2>3. Registered' = Registered /\ ~Dirty(call)
      BY <2>1 DEF Registered, Dirty
    <2>4. OneChange'
      BY <1>0, <2>2, IdleRests, OneChangeKept DEF SerialInv
    <2>5. CacheThere' /\ FillAgrees' /\ NoDuplicates'
      BY <1>0, <2>1, <2>2, <2>3, IdleRests DEF SerialInv, CacheThere, FillAgrees, NoDuplicates
    <2>6. OnlyTheChangedIsStale'
      <3>1. \A t \in Callers : Dirty(calls[t]) => calls'[t] = calls[t]
        BY <2>2, <2>3
      <3> QED BY <1>0, <2>1, <2>3, <3>1 DEF SerialInv, OnlyTheChangedIsStale, Same
    <2>7. (\A t \in Callers : Knows(calls[t]))'
      <3>1. ASSUME NEW t \in Callers PROVE Knows(calls[t])'
        <4>1. CASE t = s
          <5>1. calls'[t] = Idle
            BY <2>2, <4>1
          <5> QED BY <5>1, IdleRests DEF Knows, Idle
        <4>2. CASE t # s
          <5>1. Knows(calls[t]) /\ calls'[t] = calls[t]
            BY <1>0, <2>2, <4>2 DEF SerialInv
          <5> QED BY <2>1, <2>3, <5>1 DEF Knows
        <4> QED BY <4>1, <4>2
      <3> QED BY <3>1
    <2>8. Cleared'
      BY <1>0, <2>1, <2>2, <2>3, ClearedKept
    <2>9. Shown' = Shown /\ Jobs' = [t \in Callers |-> IF t \in {s} THEN Job(Idle) ELSE Jobs[t]]
      BY <2>1, <2>2, <2>3 DEF Shown, InStore, Jobs
    <2> QED BY <2>4, <2>5, <2>6, <2>7, <2>8, <2>9, Answers DEF SerialInv
  <1>3. CASE WriteAdded(s)
    <2>0. PICK r : r = [call EXCEPT !.pc = "clear", !.list = EmptyBag]
      OBVIOUS
    <2>1. /\ call.pc = "addWrite" /\ call.op = "suggest" /\ c \in Suggested /\ Goes(s, r)
          /\ UNCHANGED <<saved, cachedChainInfos, fill, restarts>>
          /\ chainInfos' = BagAdd(call.list, c)
      BY <1>0, <1>3, <2>0 DEF WriteAdded, CallOK, OfSuggestion
    <2>2. GoodCall(r) /\ Job(r) = Job(call) /\ r.pc = "clear" /\ r.op = "suggest" /\ r.chain = c
      BY <1>0, <2>0, <2>1, EmptyList DEF GoodCall, CallRecords, CallOK, OfSuggestion, OfRemoval, OfUpdate, Job
    <2>3. c \notin Registered /\ c \notin DOMAIN cachedChainInfos /\ call.list = chainInfos
      BY <1>0, <2>1 DEF Knows
    <2>4. BagToSet(chainInfos)' = BagToSet(chainInfos) \cup {c} /\ Registered' = Registered \cup {c}
      BY <2>1, <2>3 DEF BagAdd, BagToSet, Registered
    <2>5. NoDuplicates'
      <3>1. c \notin BagToSet(chainInfos)
        BY <2>3 DEF Registered
      <3>2. \A d \in BagToSet(chainInfos)' : chainInfos'[d] = 1
        BY <1>0, <2>1, <2>3, <3>1 DEF NoDuplicates, BagAdd, BagToSet
      <3> QED BY <1>0, <2>1, <2>4, <3>2, ChainsAssumption DEF NoDuplicates
    <2>6. Knows(r)'
      BY <2>1, <2>2, <2>3, <2>4 DEF Knows
    <2>7. Busy(call) /\ Busy(r) /\ Dirty(r)
      BY <2>1, <2>2 DEF Busy, Dirty
    <2>8. \A t \in Callers : calls[t].pc \in {"clearLocal", "clearUpdated"} => calls'[t] = calls[t]
      BY <1>0, <2>1, <2>2, GoesTyped
    <2>9. Cleared'
      BY <1>0, <2>1, <2>4, <2>8, ClearedKept
    <2> QED BY <1>0, <2>1, <2>2, <2>4, <2>5, <2>6, <2>7, <2>9, WriteSafe, Stutters
  <1>4. CASE WriteRemoved(s)
    <2>0. PICK r : r = [call EXCEPT !.pc = "clearLocal", !.list = EmptyBag]
      OBVIOUS
    <2>1. /\ call.pc = "removeWrite" /\ call.op = "remove" /\ Goes(s, r)
          /\ UNCHANGED <<saved, cachedChainInfos, fill, restarts>>
          /\ chainInfos' = BagRemoveAll(call.list, c)
      BY <1>0, <1>4, <2>0 DEF WriteRemoved, CallOK, OfRemoval
    <2>2. GoodCall(r) /\ Job(r) = Job(call) /\ r.pc = "clearLocal" /\ r.op = "remove" /\ r.chain = c
      BY <1>0, <2>0, <2>1, EmptyList DEF GoodCall, CallRecords, CallOK, OfSuggestion, OfRemoval, OfUpdate, Job
    <2>3. c \in Registered \ Embedded /\ c \in DOMAIN cachedChainInfos /\ call.list = chainInfos
      BY <1>0, <2>1 DEF Knows
    <2>4. BagToSet(chainInfos)' = BagToSet(chainInfos) \ {c} /\ Registered' = Registered \ {c}
      BY <2>1, <2>3 DEF BagRemoveAll, BagToSet, Registered
    <2>5. NoDuplicates'
      BY <1>0, <2>1, <2>3, <2>4 DEF NoDuplicates, BagRemoveAll, BagToSet
    <2>6. Registered \subseteq Chains /\ c \in Suggested
      BY <2>3, ShownFacts DEF Chains
    <2>7. Knows(r)'
      BY <2>1, <2>2, <2>3, <2>4, <2>6 DEF Knows
    <2>8. Busy(call) /\ Busy(r) /\ Dirty(r)
      BY <2>1, <2>2 DEF Busy, Dirty, OfRemoval
    <2>9. \A t \in Callers : calls'[t] = IF t = s THEN r ELSE calls[t]
      BY <1>0, <2>1, <2>2, GoesTyped
    <2>10. Cleared'
      <3>1. ASSUME restarts' = 0, NEW d \in Suggested \ Registered'
            PROVE  \/ saved'[d].local = {} /\ saved'[d].updated = Nothing
                   \/ \E t \in Callers : calls'[t].chain = d /\ calls'[t].pc \in {"clearLocal", "clearUpdated"}
        <4>1. CASE d = c
          BY <2>2, <2>9, <4>1
        <4>2. CASE d # c
          <5>1. \/ saved[d].local = {} /\ saved[d].updated = Nothing
                \/ \E t \in Callers : calls[t].chain = d /\ calls[t].pc \in {"clearLocal", "clearUpdated"}
            BY <1>0, <2>1, <2>4, <3>1, <4>2 DEF Cleared
          <5> QED BY <2>1, <2>9, <5>1
        <4> QED BY <4>1, <4>2
      <3> QED BY <3>1 DEF Cleared
    <2> QED BY <1>0, <2>1, <2>2, <2>4, <2>5, <2>7, <2>8, <2>10, WriteSafe, Stutters
  <1>5. CASE ClearLocal(s)
    <2>0. PICK r : r = [call EXCEPT !.pc = "clearUpdated"]
      OBVIOUS
    <2>1. /\ call.pc = "clearLocal" /\ call.op = "remove" /\ Goes(s, r) /\ c \in Chains
          /\ UNCHANGED <<chainInfos, cachedChainInfos, fill, restarts>>
          /\ saved' = [saved EXCEPT ![c].local = {}]
      BY <1>0, <1>5, <2>0 DEF ClearLocal, CallOK, OfRemoval
    <2>2. GoodCall(r) /\ Job(r) = Job(call) /\ r.pc = "clearUpdated" /\ r.op = "remove" /\ r.chain = c
      BY <1>0, <2>0, <2>1, MovesTyped DEF CallRecords, Job
    <2>3. c \notin Registered /\ c \in Suggested /\ c \in DOMAIN cachedChainInfos
      BY <1>0, <2>1 DEF Knows
    <2>4. Registered' = Registered /\ NoDuplicates'
      BY <1>0, <2>1 DEF Registered, NoDuplicates
    <2>5. saved'[c].local = {} /\ \A d \in Chains \ {c} : saved'[d] = saved[d]
      BY <1>0, <2>1 DEF Infos
    <2>6. Knows(r)'
      BY <2>1, <2>2, <2>3, <2>4, <2>5 DEF Knows
    <2>7. Busy(call) /\ Busy(r) /\ Dirty(r)
      BY <2>1, <2>2 DEF Busy, Dirty, OfRemoval
    <2>8. \A t \in Callers : calls'[t] = IF t = s THEN r ELSE calls[t]
      BY <1>0, <2>1, <2>2, GoesTyped
    <2>9. Cleared'
      BY <1>0, <2>1, <2>2, <2>4, <2>5, <2>8 DEF Cleared, Chains
    <2> QED BY <1>0, <2>1, <2>2, <2>4, <2>5, <2>6, <2>7, <2>9, WriteSafe, Stutters
  <1>6. CASE ClearUpdated(s)
    <2>0. PICK r : r = [call EXCEPT !.pc = "clear"]
      OBVIOUS
    <2>1. /\ call.pc = "clearUpdated" /\ call.op = "remove" /\ Goes(s, r) /\ c \in Chains
          /\ UNCHANGED <<chainInfos, cachedChainInfos, fill, restarts>>
          /\ saved' = [saved EXCEPT ![c].updated = Nothing]
      BY <1>0, <1>6, <2>0 DEF ClearUpdated, CallOK, OfRemoval
    <2>2. GoodCall(r) /\ Job(r) = Job(call) /\ r.pc = "clear" /\ r.op = "remove" /\ r.chain = c
      BY <1>0, <2>0, <2>1, MovesTyped DEF CallRecords, Job
    <2>3. c \notin Registered /\ c \in Suggested /\ c \in DOMAIN cachedChainInfos /\ saved[c].local = {}
      BY <1>0, <2>1 DEF Knows
    <2>4. Registered' = Registered /\ NoDuplicates'
      BY <1>0, <2>1 DEF Registered, NoDuplicates
    <2>5. saved'[c].local = {} /\ saved'[c].updated = Nothing /\ \A d \in Chains \ {c} : saved'[d] = saved[d]
      BY <1>0, <2>1, <2>3 DEF Infos
    <2>6. Knows(r)'
      BY <2>1, <2>2, <2>3, <2>4, <2>5 DEF Knows, Busy, OfUpdate, OfRemoval
    <2>7. Busy(call) /\ Busy(r) /\ Dirty(r)
      BY <2>1, <2>2 DEF Busy, Dirty, OfRemoval
    <2>8. \A t \in Callers : calls'[t] = IF t = s THEN r ELSE calls[t]
      BY <1>0, <2>1, <2>2, GoesTyped
    <2>9. Cleared'
      BY <1>0, <2>1, <2>2, <2>4, <2>5, <2>8 DEF Cleared, Chains
    <2> QED BY <1>0, <2>1, <2>2, <2>4, <2>5, <2>6, <2>7, <2>9, WriteSafe, Stutters
  <1>7. CASE Clear(s) /\ call.op = "suggest"
    <2>1. /\ call.pc = "clear" /\ cachedChainInfos' = Undefined /\ Goes(s, Idle)
          /\ UNCHANGED <<fill, chainInfos, saved, restarts>>
      BY <1>7 DEF Clear
    <2>2. /\ c \in Registered /\ c \notin DOMAIN cachedChainInfos /\ Busy(call) /\ Changes(call)
      BY <1>0, <1>7, <2>1, BusyChanges DEF Knows, Busy
    <2>3. \A t \in Callers : calls'[t] = IF t = s THEN Idle ELSE calls[t]
      BY <1>0, <2>1, GoesTyped, IdleIsGood
    <2>4. \A t \in Callers \ {s} : ~Changes(calls[t]) /\ ~Busy(calls[t]) /\ ~Dirty(calls[t])
      BY <2>2, OnlyOne
    <2>5. cachedChainInfos # Undefined /\ fill.pc = "idle"
      BY <1>0, <2>2 DEF SerialInv, CacheThere
    <2>6. Registered' = Registered
      BY <2>1 DEF Registered
    <2>7. OneChange'
      BY <1>0, <2>3, IdleRests, OneChangeKept DEF SerialInv
    <2>8. CacheThere' /\ FillAgrees' /\ OnlyTheChangedIsStale'
      BY <2>1, <2>3, <2>4, <2>5, IdleRests DEF CacheThere, FillAgrees, OnlyTheChangedIsStale
    <2>9. (\A t \in Callers : Knows(calls[t]))'
      BY <2>3, <2>4, IdleRests, RestingKnows, KnowsWith
    <2>10. Cleared' /\ NoDuplicates'
      BY <1>0, <2>1, <2>3, <2>6, ClearedKept DEF NoDuplicates
    <2>11. Jobs' = [Jobs EXCEPT ![s] = Job(Idle)] /\ Shown' = InStore
      BY <2>1, <2>3, <2>6 DEF Jobs, Shown, InStore
    <2>12. \A d \in Chains \ {c} : Same(d)
      BY <1>0, <2>4, <2>5 DEF SerialInv, OnlyTheChangedIsStale
    <2>13. c \in Suggested
      <3>1. /\ Embedded \subseteq DOMAIN cachedChainInfos /\ c \in Chains
        BY <1>0, <2>2, <2>5, ShownFacts DEF TypeInv, EmbeddedTold
      <3> QED BY <2>2, <3>1 DEF Chains
    <2>14. [Register!Next]_Register!vars
      BY <1>0, <1>7, <2>2, <2>5, <2>11, <2>12, <2>13, AddImplements
    <2> QED BY <2>7, <2>8, <2>9, <2>10, <2>14 DEF SerialInv
  <1>8. CASE Clear(s) /\ call.op # "suggest"
    <2>0. PICK r : r = Asks(call)
      OBVIOUS
    <2>1. call.pc = "clear" /\ GetChainInfos(s, r, Undefined) /\ UNCHANGED <<chainInfos, saved, restarts>>
      BY <1>8, <2>0 DEF Clear, Answer, Asks
    <2>2. call.op \in {"remove", "update"} /\ Busy(call) /\ Changes(call) /\ c \in Chains
      BY <1>0, <1>8, <2>1, BusyChanges DEF CallOK, Busy
    <2>3. GoodCall(r) /\ r.pc \in Waiting /\ Job(r) = Job(call) /\ r.chain = c
      BY <1>0, <2>0, <2>2, AsksTyped DEF Asks, CallRecords, Job
    <2>4. /\ SerialInv' /\ UNCHANGED Jobs /\ Shown' = InStore
          /\ cachedChainInfos # Undefined => \A d \in Chains \ {c} : Same(d)
      BY <2>1, <2>2, <2>3, ClearSafe
    <2>5. cachedChainInfos # Undefined
      BY <1>0, <2>2 DEF SerialInv, CacheThere
    <2>6. CASE call.op = "remove"
      <3>1. c \notin Registered /\ c \in Suggested /\ c \in DOMAIN cachedChainInfos
        BY <1>0, <2>1, <2>6 DEF Knows
      <3> QED BY <1>0, <2>4, <2>5, <2>6, <3>1, RemoveImplements
    <2>7. CASE call.op = "update"
      <3>1. c \in Registered /\ c \in DOMAIN cachedChainInfos
        BY <1>0, <2>2, <2>7 DEF Knows
      <3> QED BY <1>0, <2>2, <2>4, <2>7, <3>1, ChangeImplements
    <2> QED BY <2>2, <2>6, <2>7
  <1> QED BY <1>1, <1>2, <1>3, <1>4, <1>5, <1>6, <1>7, <1>8 DEF ChangeList

LEMMA UpdateSafe ==
  ASSUME Inv, Serial, NEW s \in Callers, Update(s)
  PROVE  SerialInv' /\ [Register!Next]_Register!vars
  <1> DEFINE call == calls[s]
             c == calls[s].chain
  <1>0. /\ GoodCall(call) /\ call \in CallRecords(call.list) /\ CallOK(call) /\ Knows(call) /\ TypeOK
        /\ Jobs[s] = Job(call) /\ Jobs[s].op = call.op /\ Jobs[s].chain = c
        /\ SerialInv /\ saved \in [Chains -> Infos] /\ TypeInv
    BY BusyFacts DEF TypeOK, Inv
  <1>1. /\ call.pc \in {"fetch", "compare", "recheck", "rpc", "writeChainId", "features", "writeFeatures"}
        /\ Busy(call) /\ Changes(call) /\ call.op = "update" /\ c \in Chains
    <2>1. call.pc \in {"fetch", "compare", "recheck", "rpc", "writeChainId", "features", "writeFeatures"}
      BY DEF Update, Fetched, NoNews, GiveUp, WriteUpdated, ClearAndCheck, NodeUpgraded, NodeSame,
             WriteChainId, FeaturesFound, NoFeatures, WriteFeatures
    <2> QED BY <1>0, <2>1, BusyChanges DEF Busy, CallOK, OfUpdate
  <1>2. /\ c \in Registered /\ c \in DOMAIN cachedChainInfos /\ cachedChainInfos # Undefined
        /\ \A t \in Callers \ {s} : ~Changes(calls[t])
    BY <1>0, <1>1, OnlyOne DEF Knows, SerialInv, CacheThere
  <1>3. ASSUME NEW r, GoodCall(r), r.pc \in Waiting, Job(r) = Job(call), ~Dirty(call),
               GetChainInfos(s, r, cachedChainInfos), UNCHANGED <<chainInfos, saved, restarts>>
        PROVE  SerialInv' /\ [Register!Next]_Register!vars
    <2>1. SerialInv' /\ Shown' = Shown /\ Jobs' \in {[Jobs EXCEPT ![s] = Job(r)], [Jobs EXCEPT ![s] = Job(Idle)]}
      BY <1>1, <1>2, <1>3, AskSafe
    <2> QED BY <1>0, <1>3, <2>1, AskImplements
  <1>4. ASSUME NEW r, GoodCall(r), r.pc \in Waiting, Job(r) = Job(call), r.chain = c,
               GetChainInfos(s, r, Undefined), UNCHANGED <<chainInfos, saved, restarts>>
        PROVE  SerialInv' /\ [Register!Next]_Register!vars
    <2>1. /\ SerialInv' /\ UNCHANGED Jobs /\ Shown' = InStore
          /\ cachedChainInfos # Undefined => \A d \in Chains \ {c} : Same(d)
      BY <1>1, <1>4, ClearSafe
    <2> QED BY <1>0, <1>1, <1>2, <2>1, ChangeImplements
  <1>5. ASSUME NEW v \in Versions, Fetched(s, v) PROVE SerialInv' /\ [Register!Next]_Register!vars
    <2>0. PICK r : r = [call EXCEPT !.pc = "compare", !.found = v, !.changed = saved[c].updated # v]
      OBVIOUS
    <2>1. /\ GoodCall(r) /\ Job(r) = Job(call) /\ Busy(r) /\ ~Dirty(call)
      BY <1>0, <1>1, <1>5, <2>0 DEF Fetched, GoodCall, CallRecords, CallOK, OfSuggestion, OfRemoval, OfUpdate, Job, Busy, Dirty
    <2> QED BY <1>1, <1>5, <2>0, <2>1, BusyNext DEF Fetched
  <1>6. CASE NoNews(s)
    <2>0. PICK r : r = [call EXCEPT !.pc = "check", !.found = Nothing, !.changed = FALSE]
      OBVIOUS
    <2>1. GoodCall(r) /\ r.pc \in Waiting /\ Job(r) = Job(call) /\ ~Dirty(call)
      BY <1>0, <1>6, <2>0 DEF NoNews, GoodCall, CallRecords, CallOK, OfSuggestion, OfRemoval, OfUpdate, Waiting, Job, Dirty
    <2> QED BY <1>3, <1>6, <2>0, <2>1 DEF NoNews
  <1>7. CASE GiveUp(s)
    <2>0. PICK r : r = Asks(call)
      OBVIOUS
    <2>1. GetChainInfos(s, r, cachedChainInfos) /\ UNCHANGED <<chainInfos, saved, restarts>>
      BY <1>7, <2>0 DEF GiveUp, Answer, Asks
    <2>2. GoodCall(r) /\ r.pc \in Waiting
      BY <1>0, <1>1, <2>0, AsksTyped
    <2>3. Job(r) = Job(call) /\ ~Dirty(call)
      BY <1>0, <1>7, <2>0 DEF GiveUp, Asks, CallRecords, Job, Dirty
    <2> QED BY <1>3, <2>1, <2>2, <2>3
  <1>8. CASE WriteUpdated(s)
    <2>0. PICK r : r = [call EXCEPT !.pc = "recheck", !.found = Nothing, !.changed = FALSE]
      OBVIOUS
    <2>1. GoodCall(r) /\ Job(r) = Job(call) /\ Busy(r) /\ Dirty(r)
      BY <1>0, <1>8, <2>0 DEF WriteUpdated, GoodCall, CallRecords, CallOK, OfSuggestion, OfRemoval, OfUpdate, Job, Busy, Dirty
    <2>2. \E info \in Infos : saved' = [saved EXCEPT ![c] = info]
      <3>1. [saved[c] EXCEPT !.updated = call.found] \in Infos
        BY <1>0, <1>1 DEF Infos, CallRecords
      <3> QED BY <1>8, <3>1 DEF WriteUpdated
    <2> QED BY <1>1, <1>8, <2>0, <2>1, <2>2, BusyNext DEF WriteUpdated
  <1>9. CASE ClearAndCheck(s)
    <2>0. PICK r : r = [call EXCEPT !.pc = "check"]
      OBVIOUS
    <2>1. GoodCall(r) /\ r.pc \in Waiting /\ Job(r) = Job(call) /\ r.chain = c
      BY <1>0, <1>1, <2>0, MovesTyped DEF CallRecords, Waiting, Job
    <2> QED BY <1>4, <1>9, <2>0, <2>1 DEF ClearAndCheck
  <1>10. CASE NodeUpgraded(s)
    <2>0. PICK r : r = [call EXCEPT !.pc = "writeChainId", !.local = saved[c].local]
      OBVIOUS
    <2>1. saved[c].local \in SUBSET Learnt
      BY <1>0, <1>1 DEF Infos
    <2>2. GoodCall(r) /\ Job(r) = Job(call) /\ Busy(r) /\ ~Dirty(call)
      BY <1>0, <1>10, <2>0, <2>1 DEF NodeUpgraded, GoodCall, CallRecords, CallOK, OfSuggestion, OfRemoval, OfUpdate, Job, Busy, Dirty
    <2> QED BY <1>1, <1>10, <2>0, <2>2, BusyNext DEF NodeUpgraded
  <1>11. CASE NodeSame(s)
    <2>0. PICK r : r = [call EXCEPT !.pc = "features", !.changed = FALSE]
      OBVIOUS
    <2>1. GoodCall(r) /\ Job(r) = Job(call) /\ Busy(r) /\ ~Dirty(call)
      BY <1>0, <1>11, <2>0 DEF NodeSame, GoodCall, CallRecords, CallOK, OfSuggestion, OfRemoval, OfUpdate, Job, Busy, Dirty
    <2> QED BY <1>1, <1>11, <2>0, <2>1, BusyNext DEF NodeSame
  <1>12. CASE WriteChainId(s)
    <2>0. PICK r : r = [call EXCEPT !.pc = "features", !.changed = TRUE]
      OBVIOUS
    <2>1. GoodCall(r) /\ Job(r) = Job(call) /\ Busy(r) /\ Dirty(r)
      BY <1>0, <1>12, <2>0 DEF WriteChainId, GoodCall, CallRecords, CallOK, OfSuggestion, OfRemoval, OfUpdate, Job, Busy, Dirty
    <2>2. \E info \in Infos : saved' = [saved EXCEPT ![c] = info]
      <3>1. [saved[c] EXCEPT !.local = call.local \cup {"chainId"}] \in Infos
        BY <1>0, <1>1 DEF Infos, CallRecords, Learnt
      <3> QED BY <1>12, <3>1 DEF WriteChainId
    <2> QED BY <1>1, <1>12, <2>0, <2>1, <2>2, BusyNext DEF WriteChainId
  <1>13. CASE FeaturesFound(s)
    <2>0. PICK r : r = [call EXCEPT !.pc = "writeFeatures", !.local = saved[c].local]
      OBVIOUS
    <2>1. saved[c].local \in SUBSET Learnt
      BY <1>0, <1>1 DEF Infos
    <2>2. GoodCall(r) /\ Job(r) = Job(call) /\ Busy(r) /\ (Dirty(r) \/ ~Dirty(call))
      BY <1>0, <1>13, <2>0, <2>1 DEF FeaturesFound, GoodCall, CallRecords, CallOK, OfSuggestion, OfRemoval, OfUpdate, Job, Busy, Dirty
    <2> QED BY <1>1, <1>13, <2>0, <2>2, BusyNext DEF FeaturesFound
  <1>14. CASE NoFeatures(s)
    <2>0. PICK r : r = Asks(call)
      OBVIOUS
    <2>1. /\ GetChainInfos(s, r, IF call.changed THEN Undefined ELSE cachedChainInfos)
          /\ UNCHANGED <<chainInfos, saved, restarts>>
      BY <1>14, <2>0 DEF NoFeatures, Answer, Asks
    <2>2. GoodCall(r) /\ r.pc \in Waiting
      BY <1>0, <1>1, <2>0, AsksTyped
    <2>3. Job(r) = Job(call) /\ r.chain = c
      BY <1>0, <2>0 DEF Asks, CallRecords, Job
    <2>4. CASE call.changed
      BY <1>4, <2>1, <2>2, <2>3, <2>4
    <2>5. CASE ~call.changed
      <3>1. ~Dirty(call)
        BY <1>14, <2>5 DEF NoFeatures, Dirty
      <3> QED BY <1>3, <2>1, <2>2, <2>3, <2>5, <3>1
    <2> QED BY <2>4, <2>5
  <1>15. CASE WriteFeatures(s)
    <2>0. PICK r : r = [call EXCEPT !.pc = "clear"]
      OBVIOUS
    <2>1. GoodCall(r) /\ Job(r) = Job(call) /\ Busy(r) /\ Dirty(r)
      BY <1>0, <1>1, <2>0, MovesTyped DEF CallRecords, Job, Busy, Dirty
    <2>2. \E info \in Infos : saved' = [saved EXCEPT ![c] = info]
      <3>1. [saved[c] EXCEPT !.local = call.local \cup {"features"}] \in Infos
        BY <1>0, <1>1 DEF Infos, CallRecords, Learnt
      <3> QED BY <1>15, <3>1 DEF WriteFeatures
    <2> QED BY <1>1, <1>15, <2>0, <2>1, <2>2, BusyNext DEF WriteFeatures
  <1> QED BY <1>5, <1>6, <1>7, <1>8, <1>9, <1>10, <1>11, <1>12, <1>13, <1>14, <1>15 DEF Update

LEMMA BeginSafe ==
  ASSUME Inv, Serial, NEW s \in Callers, NEW op \in {"look", "suggest", "remove", "update"}, NEW c \in Chains,
         Begin(s, op, c)
  PROVE  SerialInv' /\ [Register!Next]_Register!vars
  <1>0. PICK r : r = [Idle EXCEPT !.op = op, !.pc = op, !.chain = c]
    OBVIOUS
  <1>1. /\ calls[s] = Idle /\ GetChainInfos(s, r, cachedChainInfos) /\ UNCHANGED <<chainInfos, saved, restarts>>
        /\ op \notin {"look", "suggest"} => \A t \in Callers \ {s} : ~Changes(calls[t])
    BY <1>0, Alike DEF Begin, Alone
  <1>2. GoodCall(r) /\ r.pc \in Waiting /\ r.op = op /\ r.pc = op /\ r.chain = c
    <2>1. /\ GoodCall([Idle EXCEPT !.op = op, !.pc = op, !.chain = c])
          /\ [Idle EXCEPT !.op = op, !.pc = op, !.chain = c].pc \in Waiting
      BY BeginsTyped
    <2> QED BY <1>0, <2>1 DEF Idle
  <1>3. Changes(r) => \A t \in Callers \ {s} : ~Changes(calls[t])
    BY <1>1, <1>2 DEF Changes
  <1>4. ~Dirty(calls[s]) /\ calls[s].pc \notin {"clearLocal", "clearUpdated"} /\ Jobs[s] = Job(Idle)
    BY <1>1, IdleRests DEF Idle, Jobs
  <1>5. SerialInv' /\ Shown' = Shown /\ Jobs' \in {[Jobs EXCEPT ![s] = Job(r)], [Jobs EXCEPT ![s] = Job(Idle)]}
    BY <1>1, <1>2, <1>3, <1>4, AskSafe
  <1>6. CASE Jobs' = [Jobs EXCEPT ![s] = Job(r)]
    <2>1. Register!Begin(s, Register!Job(op, c))
      BY <1>2, <1>4, <1>5, <1>6 DEF Register!Begin, Register!Job, Shown, Jobs, Job, Idle
    <2> QED BY <1>5, <2>1 DEF Register!Next, Register!Ops, Register!Chains, Chains
  <1>7. CASE Jobs' = [Jobs EXCEPT ![s] = Job(Idle)]
    <2>1. Jobs' = Jobs
      BY <1>4, <1>7 DEF Jobs
    <2> QED BY <1>5, <2>1, Stutters
  <1> QED BY <1>5, <1>6, <1>7

LEMMA SetSafe ==
  ASSUME Inv, Serial, NEW s \in Callers, NEW c \in Chains, NEW n \in Nodes \cup {Nothing}, SetEndpoints(s, c, n)
  PROVE  SerialInv' /\ [Register!Next]_Register!vars
  <1>0. PICK r : r = [Idle EXCEPT !.op = "endpoints", !.pc = "clearAndLook", !.chain = c]
    OBVIOUS
  <1>1. /\ calls[s] = Idle /\ fill.pc = "idle" /\ Goes(s, r)
        /\ saved' = [saved EXCEPT ![c].endpoints = n]
        /\ UNCHANGED <<chainInfos, cachedChainInfos, fill, restarts>>
        /\ \A t \in Callers \ {s} : ~Changes(calls[t])
    BY <1>0, Alike DEF SetEndpoints, Alone
  <1>2. GoodCall(r) /\ r.op = "endpoints" /\ r.pc = "clearAndLook" /\ r.chain = c
    BY <1>0, SetsTyped
  <1>3. SerialInv /\ TypeInv /\ saved \in [Chains -> Infos] /\ Registered \subseteq Chains
    BY ShownFacts DEF Inv
  <1>4. \A t \in Callers : calls'[t] = IF t = s THEN r ELSE calls[t]
    BY <1>1, <1>2, <1>3, GoesTyped
  <1>5. Registered' = Registered
    BY <1>1 DEF Registered
  <1>6. \A t \in Callers : ~Busy(calls[t]) /\ ~Dirty(calls[t])
    BY <1>1, OthersRest, IdleRests
  <1>7. ~Busy(r) /\ Dirty(r)
    BY <1>2 DEF Busy, Dirty, OfUpdate, OfRemoval
  <1>8. /\ saved'[c].local = saved[c].local /\ saved'[c].updated = saved[c].updated
        /\ \A d \in Chains \ {c} : saved'[d] = saved[d]
        /\ saved' = [saved EXCEPT ![c] = saved'[c]] /\ saved'[c] \in Infos
    BY <1>1, <1>3 DEF Infos
  <1>9. cachedChainInfos # Undefined => \A d \in Chains : Same(d)
    BY <1>3, <1>6 DEF SerialInv, OnlyTheChangedIsStale
  <1>10. OneChange'
    BY <1>1, <1>3, <1>4, OneChangeKept DEF SerialInv
  <1>11. CacheThere' /\ FillAgrees' /\ NoDuplicates'
    BY <1>1, <1>3, <1>4, <1>6, <1>7 DEF SerialInv, CacheThere, FillAgrees, NoDuplicates
  <1>12. OnlyTheChangedIsStale'
    <2>1. ASSUME NEW d \in Chains, cachedChainInfos # Undefined
          PROVE  Same(d)' \/ (d = c /\ (d \in DOMAIN cachedChainInfos' <=> d \in Registered'))
      BY <1>1, <1>5, <1>8, <1>9, <2>1 DEF Same
    <2>2. Dirty(calls'[s]) /\ calls'[s].chain = c
      BY <1>2, <1>4, <1>7
    <2> QED BY <1>1, <2>1, <2>2 DEF OnlyTheChangedIsStale
  <1>13. (\A t \in Callers : Knows(calls[t]))'
    BY <1>4, <1>6, <1>7, RestingKnows, KnowsWith
  <1>14. Cleared'
    <2>1. \A d \in Suggested : saved'[d].local = saved[d].local /\ saved'[d].updated = saved[d].updated
      BY <1>8 DEF Chains
    <2>2. \A t \in Callers : calls[t].pc \in {"clearLocal", "clearUpdated"} => calls'[t] = calls[t]
      BY <1>1, <1>4 DEF Idle
    <2> QED BY <1>1, <1>3, <1>5, <2>1, <2>2, ClearedKept DEF SerialInv
  <1>15. Jobs' = [Jobs EXCEPT ![s] = Register!Job("endpoints", c)] /\ Jobs[s] = Job(Idle)
    BY <1>1, <1>2, <1>4 DEF Jobs, Job, Register!Job
  <1>16. Shown' = Shown \/ (c \in DOMAIN Shown /\ Shown' = [Shown EXCEPT ![c] = saved'[c]])
    <2>1. CASE cachedChainInfos # Undefined
      BY <1>1, <2>1 DEF Shown
    <2>2. CASE cachedChainInfos = Undefined
      <3>1. Shown = [d \in Registered |-> saved[d]] /\ Shown' = [d \in Registered |-> saved'[d]]
        BY <1>1, <1>5, <2>2 DEF Shown, InStore
      <3> QED BY <1>3, <1>8, <3>1
    <2> QED BY <2>1, <2>2
  <1>17. Register!Set(s, c)
    BY <1>8, <1>15, <1>16 DEF Register!Set, Register!Job, Register!Known, Shown, Jobs, Job, Idle
  <1> QED BY <1>10, <1>11, <1>12, <1>13, <1>14, <1>17 DEF SerialInv, Register!Next, Register!Chains, Chains

LEMMA LookSafe ==
  ASSUME Inv, NEW s \in Callers, ClearAndLook(s)
  PROVE  SerialInv' /\ [Register!Next]_Register!vars
  <1>0. PICK r : r = Asks(calls[s])
    OBVIOUS
  <1>1. /\ calls[s].pc = "clearAndLook" /\ GetChainInfos(s, r, Undefined)
        /\ UNCHANGED <<chainInfos, saved, restarts>>
    BY <1>0 DEF ClearAndLook, Answer, Asks
  <1>2. /\ GoodCall(calls[s]) /\ calls[s] \in CallRecords(calls[s].list) /\ calls[s].op = "endpoints"
        /\ calls[s].chain \in Chains /\ Jobs[s].op = calls[s].op /\ Jobs[s].chain = calls[s].chain
    BY <1>1, BusyFacts DEF CallOK
  <1>3. GoodCall(r) /\ r.pc \in Waiting /\ Job(r) = Job(calls[s]) /\ r.chain = calls[s].chain /\ r.op = "endpoints"
    BY <1>0, <1>2, AsksTyped DEF Asks, CallRecords, Job
  <1>4. Changes(calls[s]) /\ calls[s].pc \notin {"clearLocal", "clearUpdated"}
    BY <1>1, <1>2 DEF Changes
  <1>5. /\ SerialInv' /\ UNCHANGED Jobs /\ Shown' = InStore
        /\ cachedChainInfos # Undefined => \A d \in Chains \ {r.chain} : Same(d)
        /\ cachedChainInfos # Undefined => (r.chain \in DOMAIN cachedChainInfos <=> r.chain \in Registered)
    BY <1>1, <1>3, <1>4, ClearSafe
  <1> QED BY <1>2, <1>3, <1>5, ChangeImplements

LEMMA RestartSafe ==
  ASSUME Inv, Restart
  PROVE  SerialInv' /\ [Register!Next]_Register!vars
  <1>0. SerialInv /\ TypeInv /\ TypeOK
    BY DEF Inv, TypeInv
  <1>1. /\ restarts' = restarts + 1 /\ cachedChainInfos' = Undefined /\ fill' = NoFill
        /\ calls' = [s \in Callers |-> Idle] /\ UNCHANGED <<chainInfos, saved>>
    BY DEF Restart
  <1>2. \A s \in Callers : calls'[s] = Idle
    BY <1>1
  <1>3. restarts' # 0
    BY <1>0, <1>1 DEF TypeOK
  <1>4. OneChange'
    BY <1>2, IdleRests DEF OneChange, Changing, Changes
  <1>5. CacheThere' /\ FillAgrees' /\ OnlyTheChangedIsStale'
    BY <1>1, <1>2, IdleRests DEF CacheThere, FillAgrees, OnlyTheChangedIsStale, NoFill
  <1>6. (\A s \in Callers : Knows(calls[s]))'
    <2>1. ASSUME NEW s \in Callers PROVE Knows(calls[s])'
      BY <1>2 DEF Knows, Busy, Idle, OfUpdate, OfRemoval
    <2> QED BY <2>1
  <1>7. Cleared' /\ NoDuplicates'
    BY <1>0, <1>1, <1>3 DEF SerialInv, Cleared, NoDuplicates
  <1>8. Jobs' = [s \in Callers |-> Job(Idle)] /\ Shown' = InStore
    BY <1>1, <1>2 DEF Jobs, Shown, InStore, Registered
  <1> DEFINE touched == {Jobs[s].chain : s \in {t \in Callers : Jobs[t].op \notin {"none", "look"}}}
  <1>9. ASSUME NEW c \in Chains \ touched
        PROVE  /\ c \in Registered <=> c \in DOMAIN Shown
               /\ c \in DOMAIN Shown => saved[c] = Shown[c]
    <2>1. CASE cachedChainInfos = Undefined
      BY <2>1 DEF Shown, InStore
    <2>2. CASE cachedChainInfos # Undefined
      <3>1. \A s \in Callers : Dirty(calls[s]) => calls[s].op \notin {"none", "look"}
        BY <1>0, BusyChanges, TypeInvIs DEF Changes
      <3>2. \A s \in Callers : ~(Dirty(calls[s]) /\ calls[s].chain = c)
        BY <3>1 DEF Jobs, Job
      <3>3. Same(c)
        BY <1>0, <2>2, <3>2 DEF SerialInv, OnlyTheChangedIsStale
      <3> QED BY <2>2, <3>3 DEF Same, Shown
    <2> QED BY <2>1, <2>2
  <1>10. Embedded \subseteq DOMAIN InStore
    BY ShownFacts DEF InStore
  <1>11. Register!Restart
    BY <1>8, <1>9, <1>10 DEF Register!Restart, Register!Known, Register!Chains, Chains, Shown, Jobs, Job, Idle, InStore
  <1> QED BY <1>4, <1>5, <1>6, <1>7, <1>11 DEF SerialInv, Register!Next

LEMMA SerialInit == Init => SerialInv /\ Register!Init
  <1> SUFFICES ASSUME Init PROVE SerialInv /\ Register!Init
    OBVIOUS
  <1>1. /\ cachedChainInfos = Undefined /\ fill.pc = "idle" /\ \A s \in Callers : calls[s] = Idle
        /\ BagToSet(chainInfos) = {} /\ Registered = Embedded
    BY DEF Init, NoFill, Registered, EmptyBag, SetToBag, BagToSet
  <1>2. OneChange /\ CacheThere /\ FillAgrees /\ OnlyTheChangedIsStale
    BY <1>1, IdleRests, Alike DEF OneChange, CacheThere, FillAgrees, OnlyTheChangedIsStale
  <1>3. (\A s \in Callers : Knows(calls[s])) /\ NoDuplicates
    BY <1>1, IdleRests, RestingKnows DEF NoDuplicates
  <1>4. Cleared
    BY DEF Init, Cleared, Chains, Plain
  <1>5. Shown = [c \in Embedded |-> Plain] /\ Jobs = [s \in Callers |-> Job(Idle)]
    <2>1. Shown = [c \in Embedded |-> saved[c]]
      BY <1>1 DEF Shown, InStore
    <2> QED BY <1>1, <2>1 DEF Init, Chains, Jobs
  <1>6. Register!Init
    BY <1>5 DEF Register!Init, Shown, Jobs, Job, Idle
  <1> QED BY <1>2, <1>3, <1>4, <1>6 DEF SerialInv

LEMMA SerialStep ==
  ASSUME Inv, Serial, [Next]_vars
  PROVE  Inv' /\ [Register!Next]_Register!vars
  <1>0. TypeInv /\ TypeInv' /\ SerialInv
    BY StepTyped DEF Inv
  <1>1. CASE Fill
    <2>1. SerialInv' /\ Shown' = Shown
      BY <1>1, FillSafe
    <2>2. PICK answered \in SUBSET Callers : Jobs' = [s \in Callers |-> IF s \in answered THEN Job(Idle) ELSE Jobs[s]]
      BY <1>1, FillSafe
    <2> QED BY <1>0, <2>1, <2>2, Answers DEF Inv
  <1>2. CASE UNCHANGED vars
    <2>1. SerialInv'
      BY <1>0, <1>2 DEF vars, SerialInv, OneChange, Changing, CacheThere, FillAgrees, OnlyTheChangedIsStale, Same,
                        Registered, Knows, NoDuplicates, Cleared
    <2>2. UNCHANGED <<Shown, Jobs>>
      BY <1>2 DEF vars, Shown, Jobs, InStore, Registered
    <2> QED BY <1>0, <2>1, <2>2, Stutters DEF Inv
  <1> QED BY <1>0, <1>1, <1>2, RestartSafe, BeginSafe, SetSafe, ChangeListSafe, UpdateSafe, LookSafe DEF Next, Inv

-----------------------------------------------------------------------------
(* The chains service implements the register: whoever fills the cache and *)
(* wherever the service worker stops, what the pages are told changes at   *)
(* one moment per message.                                                 *)
THEOREM ChainsAreARegister ==
  ASSUME Serial = TRUE
  PROVE  Spec => ImplementsRegister
  <1>1. Init => Inv /\ Register!Init
    BY TypedInit, SerialInit DEF Inv
  <1>2. Inv /\ [Next]_vars => Inv' /\ [Register!Next]_Register!vars
    BY SerialStep
  <1> QED BY <1>1, <1>2, PTL DEF Spec, ImplementsRegister, Register!Spec

LEMMA SerialInvariant ==
  ASSUME Serial = TRUE
  PROVE  Spec => []Inv
  <1>1. Init => Inv
    BY TypedInit, SerialInit DEF Inv
  <1>2. Inv /\ [Next]_vars => Inv'
    BY SerialStep
  <1> QED BY <1>1, <1>2, PTL DEF Spec

(* When nothing is being changed, the cache is what the store says.        *)
THEOREM CacheIsTheStore ==
  ASSUME Serial = TRUE
  PROVE  Spec => []CacheAgrees
  <1>1. Inv => CacheAgrees
    <2> SUFFICES ASSUME Inv, Quiet, cachedChainInfos # Undefined
                 PROVE  cachedChainInfos = InStore
      BY DEF CacheAgrees
    <2>1. \A s \in Callers : ~Dirty(calls[s])
      BY Alike, BusyChanges, TypeInvIs DEF Quiet, Inv
    <2>2. \A c \in Chains : Same(c)
      BY <2>1 DEF Inv, SerialInv, OnlyTheChangedIsStale
    <2>3. DOMAIN cachedChainInfos = Registered
      BY <2>2, ShownFacts DEF Same
    <2>4. \A c \in Registered : cachedChainInfos[c] = saved[c]
      BY <2>2, ShownFacts DEF Same
    <2> QED BY <2>3, <2>4, ShownFacts DEF InStore
  <1> QED BY <1>1, SerialInvariant, PTL

(* The saved list names each chain once, and none that comes with the      *)
(* wallet.                                                                 *)
THEOREM EachChainIsListedOnce ==
  ASSUME Serial = TRUE
  PROVE  Spec => []NoDuplicates
  <1>1. Inv => NoDuplicates
    BY DEF Inv, SerialInv
  <1> QED BY <1>1, SerialInvariant, PTL

(* Unless the service worker stops within a removal, nothing that was      *)
(* learnt of a chain outlives it.                                          *)
THEOREM RemovalForgets ==
  ASSUME Serial = TRUE
  PROVE  Spec => []NoLeftovers
  <1>1. Inv => NoLeftovers
    BY DEF Inv, SerialInv, Cleared, NoLeftovers
  <1> QED BY <1>1, SerialInvariant, PTL
=============================================================================
