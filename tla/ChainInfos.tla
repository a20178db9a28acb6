----------------------------- MODULE ChainInfos -----------------------------
(***************************************************************************)
(* ChainsService and ChainUpdaterService: the chains that users and web    *)
(* pages add to those that come with the wallet, what the updater learns   *)
(* about a chain, the endpoints that a user sets, and the cache of all     *)
(* that.  Each message is a call; an action is the code between two        *)
(* awaits.  A get() and a set() of the key-value store take effect when    *)
(* they are called, and their replies come later.                          *)
(*                                                                         *)
(* A chain is the identifier of its chain id.  Of a chain info only the    *)
(* sources that it is put together from are kept, and of the list of       *)
(* suggested chains what is in it, and how often: a bag.                   *)
(***************************************************************************)
EXTENDS Naturals, Bags, BagsExt

CONSTANTS
    Callers,     \* messages that the background handles at a time
    Embedded,    \* the chains that come with the wallet
    Suggested,   \* chains that may be added
    Versions,    \* what the community repository may say of a chain
    Nodes,       \* the endpoints that a user may set
    Nothing,
    Serial,      \* one call at a time changes chains
    MaxRestarts

Chains == Embedded \cup Suggested
Learnt == {"chainId", "features"}

ASSUME ChainsAssumption ==
    /\ Embedded # {} /\ Embedded \cap Suggested = {}
    /\ Nothing \notin Versions \cup Nodes
    /\ Serial \in BOOLEAN /\ MaxRestarts \in Nat

VARIABLES
    chainInfos,       \* the list of the chains service's store
    saved,            \* the entries of the updater's store, per chain
    cachedChainInfos, \* what is known of each chain, or Undefined
    fill,             \* the promise that getChainInfos() shares
    calls,            \* what each message has come to
    restarts

vars == <<chainInfos, saved, cachedChainInfos, fill, calls, restarts>>

Infos == [updated : Versions \cup {Nothing}, local : SUBSET Learnt, endpoints : Nodes \cup {Nothing}]
Plain == [updated |-> Nothing, local |-> {}, endpoints |-> Nothing]

Idle == [op |-> "none", pc |-> "idle", chain |-> Nothing, list |-> EmptyBag, local |-> {}, found |-> Nothing,
         changed |-> FALSE]

(* What is cached is never empty: there are chains that come with the wallet. *)
Undefined == <<>>

NoFill == [pc |-> "idle", chains |-> {}, at |-> [c \in Chains |-> 0], infos |-> [c \in Chains |-> Plain]]

Registered == Embedded \cup BagToSet(chainInfos)

Init ==
    /\ chainInfos = EmptyBag
    /\ saved = [c \in Chains |-> Plain]
    /\ cachedChainInfos = Undefined
    /\ fill = NoFill
    /\ calls = [s \in Callers |-> Idle]
    /\ restarts = 0

-----------------------------------------------------------------------------
(* getChainInfos().  A call whose pc is one of these waits for its result. *)
Waiting == {"look", "suggest", "add", "remove", "update", "check"}

(* A bug: a chain is added whether it is registered or not.                *)
ContinueUnchecked(call, infos) ==
    LET known == call.chain \in DOMAIN infos
    IN  CASE call.pc = "suggest" -> [call EXCEPT !.pc = "ask"]
          [] call.pc = "add" -> [call EXCEPT !.pc = "addWrite", !.list = chainInfos]
          [] call.pc = "remove" /\ known /\ call.chain \notin Embedded ->
                [call EXCEPT !.pc = "removeWrite", !.list = chainInfos]
          [] call.pc = "update" /\ known -> [call EXCEPT !.pc = "fetch"]
          [] call.pc = "check" /\ known ->
                [call EXCEPT !.pc = "rpc", !.local = infos[call.chain].local]
          [] OTHER -> Idle

(* What a call does when it has the chain infos.                           *)
Continue(call, infos) ==
    LET known == call.chain \in DOMAIN infos
    IN  CASE call.pc = "suggest" /\ ~known -> [call EXCEPT !.pc = "ask"]
          [] call.pc = "add" /\ ~known -> [call EXCEPT !.pc = "addWrite", !.list = chainInfos]
          [] call.pc = "remove" /\ known /\ call.chain \notin Embedded ->
                [call EXCEPT !.pc = "removeWrite", !.list = chainInfos]
          [] call.pc = "update" /\ known -> [call EXCEPT !.pc = "fetch"]
          [] call.pc = "check" /\ known ->
                [call EXCEPT !.pc = "rpc", !.local = infos[call.chain].local]
          [] OTHER -> Idle

NewFill == [NoFill EXCEPT !.pc = "list", !.chains = Registered]

(* Caller s asks for the chain infos, in the state where they are cached, *)
(* or are not.                                                             *)
GetChainInfos(s, call, cache) ==
    /\ cachedChainInfos' = cache
    /\ IF cache # Undefined
       THEN calls' = [calls EXCEPT ![s] = Continue(call, cache)] /\ UNCHANGED fill
       ELSE /\ calls' = [calls EXCEPT ![s] = call]
            /\ fill' = IF fill.pc = "idle" THEN NewFill ELSE fill

FillList ==
    /\ fill.pc = "list"
    /\ fill' = [fill EXCEPT !.pc = "infos",
                            !.at = [c \in Chains |-> IF c \in fill.chains THEN 1 ELSE 0],
                            !.infos = [c \in Chains |-> [Plain EXCEPT !.updated = saved[c].updated]]]
    /\ UNCHANGED <<chainInfos, saved, cachedChainInfos, calls, restarts>>

(* replaceChainInfo() of one chain reads what the repository said, what the *)
(* node said, the endpoints; it runs for all chains at a time.             *)
FillReads(c) ==
    /\ fill.pc = "infos" /\ fill.at[c] \in {1, 2}
    /\ fill' = [fill EXCEPT !.at[c] = @ + 1,
                            !.infos[c] = IF fill.at[c] = 1 THEN [@ EXCEPT !.local = saved[c].local]
                                         ELSE [@ EXCEPT !.endpoints = saved[c].endpoints]]
    /\ UNCHANGED <<chainInfos, saved, cachedChainInfos, calls, restarts>>

FillDone(c) ==
    LET infos == [d \in fill.chains |-> fill.infos[d]]
        last == \A d \in fill.chains \ {c} : fill.at[d] = 4
    IN  /\ fill.pc = "infos" /\ fill.at[c] = 3
        /\ fill' = IF last THEN NoFill ELSE [fill EXCEPT !.at[c] = 4]
        /\ cachedChainInfos' = IF last THEN infos ELSE cachedChainInfos
        /\ calls' = [s \in Callers |->
                        IF last /\ calls[s].pc \in Waiting THEN Continue(calls[s], infos)
                        ELSE calls[s]]
        /\ UNCHANGED <<chainInfos, saved, restarts>>

-----------------------------------------------------------------------------
(* Messages.  Those that remove or update a chain, or set endpoints, answer *)
(* with the chain infos.                                                   *)
Goes(s, call) == calls' = [calls EXCEPT ![s] = call]

Answer(s, cache) == GetChainInfos(s, [calls[s] EXCEPT !.pc = "look", !.local = {}, !.changed = FALSE], cache)

(* A suggestion that waits for the user changes nothing yet.               *)
Changing(t) == calls[t].op \notin {"none", "look"} /\ calls[t].pc \notin {"suggest", "ask"}

Alone(s) == Serial => \A t \in Callers \ {s} : ~Changing(t)

Begin(s, op, c) ==
    /\ calls[s] = Idle
    /\ op \notin {"look", "suggest"} => Alone(s)
    /\ GetChainInfos(s, [Idle EXCEPT !.op = op, !.pc = op, !.chain = c], cachedChainInfos)
    /\ UNCHANGED <<chainInfos, saved, restarts>>

(* suggestChainInfo() after the dialog, addChainInfo().                    *)
Approve(s) ==
    /\ calls[s].pc = "ask" /\ Alone(s)
    /\ GetChainInfos(s, [calls[s] EXCEPT !.pc = "add"], cachedChainInfos)
    /\ UNCHANGED <<chainInfos, saved, restarts>>

Reject(s) ==
    /\ calls[s].pc = "ask"
    /\ Goes(s, Idle)
    /\ UNCHANGED <<chainInfos, saved, cachedChainInfos, fill, restarts>>

WriteAdded(s) ==
    /\ calls[s].pc = "addWrite"
    /\ chainInfos' = BagAdd(calls[s].list, calls[s].chain)
    /\ Goes(s, [calls[s] EXCEPT !.pc = "clear", !.list = EmptyBag])
    /\ UNCHANGED <<saved, cachedChainInfos, fill, restarts>>

(* removeChainInfo(), with clearUpdatedProperty() of the updater.          *)
WriteRemoved(s) ==
    /\ calls[s].pc = "removeWrite"
    /\ chainInfos' = BagRemoveAll(calls[s].list, calls[s].chain)
    /\ Goes(s, [calls[s] EXCEPT !.pc = "clearLocal", !.list = EmptyBag])
    /\ UNCHANGED <<saved, cachedChainInfos, fill, restarts>>

(* A bug: only what the repository said is cleared.                        *)
SkipLocal(s) ==
    /\ calls[s].pc = "clearLocal"
    /\ Goes(s, [calls[s] EXCEPT !.pc = "clearUpdated"])
    /\ UNCHANGED <<chainInfos, saved, cachedChainInfos, fill, restarts>>

ClearLocal(s) ==
    /\ calls[s].pc = "clearLocal"
    /\ saved' = [saved EXCEPT ![calls[s].chain].local = {}]
    /\ Goes(s, [calls[s] EXCEPT !.pc = "clearUpdated"])
    /\ UNCHANGED <<chainInfos, cachedChainInfos, fill, restarts>>

ClearUpdated(s) ==
    /\ calls[s].pc = "clearUpdated"
    /\ saved' = [saved EXCEPT ![calls[s].chain].updated = Nothing]
    /\ Goes(s, [calls[s] EXCEPT !.pc = "clear"])
    /\ UNCHANGED <<chainInfos, cachedChainInfos, fill, restarts>>

(* A bug: the cache outlives the change.                                   *)
KeepCache(s) ==
    /\ calls[s].pc = "clear"
    /\ IF calls[s].op = "suggest"
       THEN Goes(s, Idle) /\ UNCHANGED <<cachedChainInfos, fill>>
       ELSE Answer(s, cachedChainInfos)
    /\ UNCHANGED <<chainInfos, saved, restarts>>

(* The reply to the last set(): clearCachedChainInfos().                   *)
Clear(s) ==
    /\ calls[s].pc = "clear"
    /\ IF calls[s].op = "suggest"
       THEN cachedChainInfos' = Undefined /\ Goes(s, Idle) /\ UNCHANGED fill
       ELSE Answer(s, Undefined)
    /\ UNCHANGED <<chainInfos, saved, restarts>>

-----------------------------------------------------------------------------
(* tryUpdateChainInfo().                                                   *)
Fetched(s, v) ==
    /\ calls[s].pc = "fetch"
    /\ Goes(s, [calls[s] EXCEPT !.pc = "compare", !.found = v,
                                !.changed = saved[calls[s].chain].updated # v])
    /\ UNCHANGED <<chainInfos, saved, cachedChainInfos, fill, restarts>>

(* The repository cannot be reached, says nothing new, or nothing valid.   *)
NoNews(s) ==
    /\ calls[s].pc \in {"fetch", "compare"}
    /\ GetChainInfos(s, [calls[s] EXCEPT !.pc = "check", !.found = Nothing, !.changed = FALSE],
                     cachedChainInfos)
    /\ UNCHANGED <<chainInfos, saved, restarts>>

WriteUpdated(s) ==
    /\ calls[s].pc = "compare" /\ calls[s].changed
    /\ saved' = [saved EXCEPT ![calls[s].chain].updated = calls[s].found]
    /\ Goes(s, [calls[s] EXCEPT !.pc = "recheck", !.found = Nothing, !.changed = FALSE])
    /\ UNCHANGED <<chainInfos, cachedChainInfos, fill, restarts>>

(* A bug: the update is written, and the cache is left.                    *)
CheckOnly(s) ==
    /\ calls[s].pc = "recheck"
    /\ GetChainInfos(s, [calls[s] EXCEPT !.pc = "check"], cachedChainInfos)
    /\ UNCHANGED <<chainInfos, saved, restarts>>

ClearAndCheck(s) ==
    /\ calls[s].pc = "recheck"
    /\ GetChainInfos(s, [calls[s] EXCEPT !.pc = "check"], Undefined)
    /\ UNCHANGED <<chainInfos, saved, restarts>>

(* The repository or the node speaks of another chain, or the node does    *)
(* not answer.                                                             *)
GiveUp(s) ==
    /\ calls[s].pc \in {"fetch", "rpc"}
    /\ Answer(s, cachedChainInfos)
    /\ UNCHANGED <<chainInfos, saved, restarts>>

(* The node's chain id is new, and is written over what was read, or it is *)
(* the one that is known.                                                  *)
NodeUpgraded(s) ==
    /\ calls[s].pc = "rpc" /\ "chainId" \notin calls[s].local
    /\ Goes(s, [calls[s] EXCEPT !.pc = "writeChainId", !.local = saved[calls[s].chain].local])
    /\ UNCHANGED <<chainInfos, saved, cachedChainInfos, fill, restarts>>

NodeSame(s) ==
    /\ calls[s].pc = "rpc"
    /\ Goes(s, [calls[s] EXCEPT !.pc = "features", !.changed = FALSE])
    /\ UNCHANGED <<chainInfos, saved, cachedChainInfos, fill, restarts>>

WriteChainId(s) ==
    /\ calls[s].pc = "writeChainId"
    /\ saved' = [saved EXCEPT ![calls[s].chain].local = calls[s].local \cup {"chainId"}]
    /\ Goes(s, [calls[s] EXCEPT !.pc = "features", !.changed = TRUE])
    /\ UNCHANGED <<chainInfos, cachedChainInfos, fill, restarts>>

(* checkChainFeatures() finds features that were not known, or none.       *)
FeaturesFound(s) ==
    /\ calls[s].pc = "features" /\ "features" \notin calls[s].local
    /\ Goes(s, [calls[s] EXCEPT !.pc = "writeFeatures", !.local = saved[calls[s].chain].local])
    /\ UNCHANGED <<chainInfos, saved, cachedChainInfos, fill, restarts>>

NoFeatures(s) ==
    /\ calls[s].pc = "features"
    /\ Answer(s, IF calls[s].changed THEN Undefined ELSE cachedChainInfos)
    /\ UNCHANGED <<chainInfos, saved, restarts>>

WriteFeatures(s) ==
    /\ calls[s].pc = "writeFeatures"
    /\ saved' = [saved EXCEPT ![calls[s].chain].local = calls[s].local \cup {"features"}]
    /\ Goes(s, [calls[s] EXCEPT !.pc = "clear"])
    /\ UNCHANGED <<chainInfos, cachedChainInfos, fill, restarts>>

-----------------------------------------------------------------------------
(* setChainEndpoints(), resetChainEndpoints().                             *)
SetEndpoints(s, c, n) ==
    /\ calls[s] = Idle /\ Alone(s)
    /\ Serial => fill.pc = "idle"
    /\ saved' = [saved EXCEPT ![c].endpoints = n]
    /\ Goes(s, [Idle EXCEPT !.op = "endpoints", !.pc = "clearAndLook", !.chain = c])
    /\ UNCHANGED <<chainInfos, cachedChainInfos, fill, restarts>>

ClearAndLook(s) ==
    /\ calls[s].pc = "clearAndLook"
    /\ Answer(s, Undefined)
    /\ UNCHANGED <<chainInfos, saved, restarts>>

(* The service worker stops and starts again.                              *)
Restart ==
    /\ restarts < MaxRestarts
    /\ restarts' = restarts + 1
    /\ cachedChainInfos' = Undefined /\ fill' = NoFill
    /\ calls' = [s \in Callers |-> Idle]
    /\ UNCHANGED <<chainInfos, saved>>

-----------------------------------------------------------------------------
Fill == FillList \/ \E c \in Chains : FillReads(c) \/ FillDone(c)

ChangeList(s) == Approve(s) \/ Reject(s) \/ WriteAdded(s) \/ WriteRemoved(s) \/ ClearLocal(s)
                 \/ ClearUpdated(s) \/ Clear(s)

Update(s) ==
    \/ \E v \in Versions : Fetched(s, v)
    \/ NoNews(s) \/ GiveUp(s) \/ WriteUpdated(s) \/ ClearAndCheck(s)
    \/ NodeUpgraded(s) \/ NodeSame(s) \/ WriteChainId(s)
    \/ FeaturesFound(s) \/ NoFeatures(s) \/ WriteFeatures(s)

Next ==
    \/ Fill \/ Restart
    \/ \E s \in Callers :
        \/ \E op \in {"look", "suggest", "remove", "update"}, c \in Chains : Begin(s, op, c)
        \/ \E c \in Chains, n \in Nodes \cup {Nothing} : SetEndpoints(s, c, n)
        \/ ChangeList(s) \/ Update(s) \/ ClearAndLook(s)

Spec == Init /\ [][Next]_vars
-----------------------------------------------------------------------------
IsList(bag) == IsABag(bag) /\ BagToSet(bag) \subseteq Suggested

FillRecords ==
    [pc : {"idle", "list", "infos"}, chains : SUBSET Chains, at : [Chains -> 0..4], infos : [Chains -> Infos]]

CallRecords(list) ==
    [op : {"none", "look", "suggest", "remove", "update", "endpoints"},
     pc : Waiting \cup {"idle", "ask", "addWrite", "removeWrite", "clearLocal", "clearUpdated", "clear",
                        "fetch", "compare", "recheck", "rpc", "writeChainId", "features",
                        "writeFeatures", "clearAndLook"},
     chain : Chains \cup {Nothing}, list : {list}, local : SUBSET Learnt,
     found : Versions \cup {Nothing}, changed : BOOLEAN]

TypeOK ==
    /\ IsList(chainInfos)
    /\ saved \in [Chains -> Infos]
    /\ cachedChainInfos \in UNION {[S -> Infos] : S \in SUBSET Chains}
    /\ fill \in FillRecords
    /\ DOMAIN calls = Callers
    /\ \A s \in Callers : calls[s] \in CallRecords(calls[s].list) /\ IsList(calls[s].list)
    /\ restarts \in 0..MaxRestarts

Quiet == \A s \in Callers : ~Changing(s)

InStore == [c \in Registered |-> saved[c]]

(* When no chain is being changed, the cached chain infos are those of the *)
(* store, although getChainInfos() reads the store in several steps and    *)
(* four places clear the cache.                                            *)
CacheAgrees == Quiet /\ cachedChainInfos # Undefined => cachedChainInfos = InStore

(* The list of suggested chains names no chain twice, and no embedded one: *)
(* suggestions wait for the user while chains come and go.                 *)
NoDuplicates ==
    /\ \A c \in BagToSet(chainInfos) : chainInfos[c] = 1
    /\ BagToSet(chainInfos) \cap Embedded = {}

(* What was learnt of a chain goes with it: a chain that is suggested anew *)
(* starts from what the suggestion says.                                   *)
NoLeftovers ==
    restarts = 0 => \A c \in Suggested :
        c \notin Registered /\ (\A s \in Callers : calls[s].chain # c)
            => saved[c].updated = Nothing /\ saved[c].local = {}

(* The service implements the register: what the pages are told changes at *)
(* one moment per message, and only as that message says, whoever fills    *)
(* the cache meanwhile and wherever the service worker stops.              *)
Register == INSTANCE ChainRegister WITH
    register <- IF cachedChainInfos # Undefined THEN cachedChainInfos ELSE InStore,
    doing <- [s \in Callers |-> [op |-> calls[s].op, chain |-> calls[s].chain]],
    NoJob <- [op |-> "none", chain |-> Nothing]

ImplementsRegister == Register!Spec
=============================================================================
