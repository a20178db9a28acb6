----------------------------- MODULE Permission -----------------------------
(***************************************************************************)
(* PermissionService: which origins (web sites) may use which chain, and   *)
(* which may read the list of chains.  Its maps live in memory and in two  *)
(* entries of a key-value store.  Calls are async: a call is one of Calls, *)
(* an action is the code of a method between two awaits.  set() of the     *)
(* store captures and writes its value when it is called, and the caller   *)
(* goes on when the reply comes.                                           *)
(*                                                                         *)
(* A chain is the identifier that ChainIdHelper.parse() gives, all that    *)
(* the service uses of a chain id; and a chain has one type of permission, *)
(* basic access, the one that the background asks for.                     *)
(***************************************************************************)
EXTENDS Naturals, SequencesExt

CONSTANTS
    Calls,         \* calls the background can have in progress
    Chains,
    Embedded,      \* the chains that come with the wallet
    ChainLists,    \* the lists of chains that pages name in a call
    Origins,
    Privileged,    \* origins that the wallet trusts
    Internal,      \* the origins of the wallet's own pages
    NoOrigin,
    MaySend,       \* what the page of an origin may send, and whether the user manages it
    DisableAfterRemoval \* a page may disable everything after a chain was removed

Global == "get-chain-infos"
Messages == {"access", "global", "disable", "suggest", "switch", "managed"}
Items == (Chains \cup {Global}) \X Origins

ASSUME ChainsAssumption ==
    /\ Global \notin Chains /\ NoOrigin \notin Origins
    /\ Embedded \subseteq Chains
    /\ \A list \in ChainLists : /\ list \in Seq(Chains) /\ list # <<>>
                                /\ \A m, n \in DOMAIN list : list[m] = list[n] => m = n
    /\ Privileged \subseteq Origins /\ Internal \subseteq Origins
    /\ MaySend \in [Origins -> SUBSET Messages]
    /\ DisableAfterRemoval \in BOOLEAN

VARIABLES
    permissionMap,       \* its keys, their order, those set to undefined, the permissions
    globalPermissionMap, \* the origins under get-chain-infos
    stored,              \* the two entries of the key-value store
    registered,          \* the chains that ChainsService knows
    call,                \* what each call does and waits for
    approved,            \* what the user approved and did not take back (history)
    kept                 \* what is granted and saved and was not removed (history)

maps == <<permissionMap, globalPermissionMap>>
vars == <<maps, stored, registered, call, approved, kept>>

Idle == [pc |-> "idle", then |-> "idle", op |-> "none", origin |-> NoOrigin, chains |-> <<>>,
         ungranted |-> {}, left |-> {}, grants |-> {}, revokes |-> {}]

CallRecords ==
    [pc: {"idle", "enable", "chainInfo", "ask", "check", "register", "saveGlobal",
          "disable", "disableGlobal", "return"},
     then: {"idle", "check", "register", "return", "disable", "disableGlobal"},
     op: (Messages \ {"managed"}) \cup {"none"}, origin: Origins \cup {NoOrigin}, chains: Seq(Chains),
     ungranted: SUBSET Chains, left: SUBSET Chains, grants: SUBSET Items, revokes: SUBSET Items]

MapRecords == [keys : SUBSET Chains, before : SUBSET (Chains \X Chains),
               undefined : SUBSET Chains, granted : SUBSET (Chains \X Origins)]

NoPermission == [keys |-> {}, before |-> {}, undefined |-> {}, granted |-> {}]

Over(chains, o) == chains \X {o}

Live(map) == map.keys \ map.undefined

(* What a map grants: the entries set to undefined are not looked into.    *)
Grants(map, global) ==
    {item \in map.granted : item[1] \in Live(map)} \cup ({Global} \X global)

Held == Grants(permissionMap, globalPermissionMap)
StoredHeld == Grants(stored.permissionMap, stored.globalPermissionMap)

HasPermission(item) == item[2] \in Privileged \/ item \in Held

Init ==
    /\ permissionMap = NoPermission /\ globalPermissionMap = {}
    /\ stored = [permissionMap |-> NoPermission, globalPermissionMap |-> {}]
    /\ registered = Embedded
    /\ call = [c \in Calls |-> Idle]
    /\ approved = {} /\ kept = {}

-----------------------------------------------------------------------------
(* New keys come after the others, in the order of the list they are in.   *)
Extended(before, keys, new, list) ==
    before \cup (keys \X new)
           \cup {p \in new \X new : \E m, n \in DOMAIN list : m < n /\ p = <<list[m], list[n]>>}

WithKeys(map, chains, list) ==
    [map EXCEPT !.keys = @ \cup chains,
                !.before = Extended(@, map.keys, chains \ map.keys, list)]

AddDetached(map, list, chains, o) ==
    [WithKeys(map, chains, list) EXCEPT !.granted = @ \cup Over(chains, o)]

AddPermission(map, list, chains, o) ==
    [WithKeys(map, chains, list) EXCEPT !.undefined = @ \ chains,
                                        !.granted = @ \cup Over(chains, o)]

MarkRemoved(map, i) ==
    [WithKeys(map, {i}, <<i>>) EXCEPT !.undefined = @ \cup {i}]

RemoveAll(map, i) ==
    [WithKeys(map, {i}, <<i>>) EXCEPT !.undefined = @ \cup {i},
                                      !.granted = @ \ ({i} \X Origins)]

Without(map, items) == [map EXCEPT !.granted = @ \ items]

(* The first of the two set()s of save(), which leaves out what is undefined. *)
Saved(map) ==
    [keys |-> Live(map), before |-> map.before \cap (Live(map) \X Live(map)),
     undefined |-> {}, granted |-> map.granted]

Save(map) ==
    /\ permissionMap' = map
    /\ stored' = [stored EXCEPT !.permissionMap = Saved(map)]

(* What is left of a call that only waits for save().                      *)
Saving(grants, revokes) ==
    [Idle EXCEPT !.pc = "saveGlobal", !.then = "return", !.grants = grants, !.revokes = revokes]

(* Call c goes on as `next`, and `items` are approved, or removed.         *)
Goes(c, next) == call' = [call EXCEPT ![c] = next]

Approves(c, next, items) ==
    /\ approved' = approved \cup items
    /\ call' = [d \in Calls |->
                   IF d = c THEN next ELSE [call[d] EXCEPT !.revokes = @ \ items]]

Removes(c, next, items) ==
    /\ kept' = kept \ items
    /\ call' = [d \in Calls |->
                   IF d = c THEN next ELSE [call[d] EXCEPT !.grants = @ \ items]]

-----------------------------------------------------------------------------
(* Messages of web pages: keyRingService.enable() comes first.             *)
Request(c, op, o, list) ==
    /\ call[c] = Idle
    /\ op = "access" => list # <<>>
    /\ op = "global" => list = <<>>
    /\ Goes(c, [Idle EXCEPT !.pc = "enable", !.op = op, !.origin = o, !.chains = list])
    /\ UNCHANGED <<maps, stored, registered, approved, kept>>

(* A page suggests a new chain, or switches to a known one.                *)
AskForChain(c, op, o, i) ==
    /\ call[c] = Idle
    /\ op = "suggest" <=> i \notin registered
    /\ Goes(c, [Idle EXCEPT !.pc = "ask", !.op = op, !.origin = o, !.chains = <<i>>,
                            !.ungranted = {i}])
    /\ UNCHANGED <<maps, stored, registered, approved, kept>>

(* enable() fails, or the user rejects: the caller gets an error.          *)
Fail(c) ==
    /\ call[c].pc \in {"enable", "ask"}
    /\ Goes(c, Idle)
    /\ UNCHANGED <<maps, stored, registered, approved, kept>>

Enabled(c, op) == call[c].pc = "enable" /\ call[c].op = op

(* The loops over a list of chains: i is the first of those left.          *)
IsNext(c, left, i) ==
    \E n \in DOMAIN call[c].chains :
        /\ call[c].chains[n] = i
        /\ \A m \in 1..(n - 1) : call[c].chains[m] \notin left

EnabledAccess(c) ==
    /\ Enabled(c, "access")
    /\ LET chains == ToSet(call[c].chains)
           ungranted == {i \in chains : ~HasPermission(<<i, call[c].origin>>)}
       IN  IF ungranted = {}
           THEN Goes(c, [call[c] EXCEPT !.pc = "check", !.left = chains])
           ELSE Goes(c, [call[c] EXCEPT !.pc = "chainInfo", !.ungranted = ungranted, !.left = ungranted])
    /\ UNCHANGED <<maps, stored, registered, approved, kept>>

(* getChainInfo() of a chain to grant; then grantPermission(), which does  *)
(* nothing for the wallet's own pages.                                     *)
ChainInfo(c) ==
    /\ call[c].pc = "chainInfo"
    /\ \E i \in call[c].left :
        LET rest == call[c].left \ {i}
        IN  /\ IsNext(c, call[c].left, i)
            /\ CASE i \notin registered -> Goes(c, Idle)
                 [] i \in registered /\ rest # {} -> Goes(c, [call[c] EXCEPT !.left = rest])
                 [] i \in registered /\ rest = {} /\ call[c].origin \notin Internal ->
                       Goes(c, [call[c] EXCEPT !.pc = "ask", !.left = {}])
                 [] OTHER -> Goes(c, [call[c] EXCEPT !.pc = "check", !.left = ToSet(call[c].chains)])
    /\ UNCHANGED <<maps, stored, registered, approved, kept>>

EnabledGlobal(c) ==
    /\ Enabled(c, "global")
    /\ IF HasPermission(<<Global, call[c].origin>>) \/ call[c].origin \in Internal
       THEN Goes(c, Idle)
       ELSE Goes(c, [call[c] EXCEPT !.pc = "ask"])
    /\ UNCHANGED <<maps, stored, registered, approved, kept>>

AfterGrant == [access |-> "check", suggest |-> "register", switch |-> "return"]

(* The user approves: addPermission().                                     *)
Grant(c) ==
    /\ call[c].pc = "ask" /\ call[c].op # "global"
    /\ LET items == Over(call[c].ungranted, call[c].origin)
       IN  /\ Save(AddPermission(permissionMap, call[c].chains, call[c].ungranted, call[c].origin))
           /\ Approves(c, [call[c] EXCEPT !.pc = "saveGlobal", !.then = AfterGrant[call[c].op],
                                          !.left = ToSet(call[c].chains), !.grants = items], items)
    /\ UNCHANGED <<globalPermissionMap, registered, kept>>

(* The user approves: addGlobalPermission(); the check after it has no     *)
(* await before it.                                                        *)
GrantGlobal(c) ==
    /\ call[c].pc = "ask" /\ call[c].op = "global"
    /\ LET items == {<<Global, call[c].origin>>}
       IN  /\ globalPermissionMap' = globalPermissionMap \cup {call[c].origin}
           /\ Save(permissionMap)
           /\ Approves(c, Saving(items, {}), items)
    /\ UNCHANGED <<registered, kept>>

(* The second set() of save().                                             *)
SaveGlobal(c) ==
    /\ call[c].pc = "saveGlobal"
    /\ stored' = [stored EXCEPT !.globalPermissionMap = globalPermissionMap]
    /\ kept' = kept \cup call[c].grants
    /\ Goes(c, [call[c] EXCEPT !.pc = call[c].then, !.then = "idle", !.grants = {}])
    /\ UNCHANGED <<maps, registered, approved>>

(* checkBasicAccessPermission(): a chain at a time, or the call throws.    *)
Check(c) ==
    /\ call[c].pc = "check"
    /\ \E i \in call[c].left :
        LET rest == call[c].left \ {i}
            passes == i \in registered /\ (call[c].origin \in Internal \/ HasPermission(<<i, call[c].origin>>))
        IN  /\ IsNext(c, call[c].left, i)
            /\ Goes(c, IF passes /\ rest # {} THEN [call[c] EXCEPT !.left = rest] ELSE Idle)
    /\ UNCHANGED <<maps, stored, registered, approved, kept>>

(* addChainInfo() of the suggested chain, unless it is known by now.       *)
Register(c) ==
    /\ call[c].pc = "register"
    /\ registered' = registered \cup ToSet(call[c].chains)
    /\ Goes(c, Idle)
    /\ UNCHANGED <<maps, stored, approved, kept>>

-----------------------------------------------------------------------------
(* disable() of the chains named: removeAllTypePermissionToChainId() of    *)
(* each; nothing is saved for a chain that has no entry.                   *)
DisableChain(c, left, revokes) ==
    \E i \in left :
        LET items == {<<i, call[c].origin>>}
            rest == left \ {i}
            pc == IF rest = {} THEN "return" ELSE "disable"
            next == [call[c] EXCEPT !.left = rest, !.pc = pc, !.revokes = revokes]
        IN  /\ IsNext(c, left, i)
            /\ IF i \in Live(permissionMap)
               THEN /\ Save(Without(permissionMap, items))
                    /\ Removes(c, [next EXCEPT !.pc = "saveGlobal", !.then = pc], items)
               ELSE Goes(c, next) /\ UNCHANGED <<permissionMap, stored, kept>>

Disable(c) ==
    /\ \/ /\ Enabled(c, "disable") /\ call[c].chains # <<>>
          /\ DisableChain(c, ToSet(call[c].chains), Over(ToSet(call[c].chains), call[c].origin))
       \/ call[c].pc = "disable" /\ DisableChain(c, call[c].left, call[c].revokes)
    /\ UNCHANGED <<globalPermissionMap, registered, approved>>

(* disable() of an empty list: removeAllTypePermission(), whose loop ends, *)
(* and saves nothing, at the first key that is undefined.                  *)
Reached(map) ==
    {i \in Live(map) : \A j \in map.undefined : <<i, j>> \in map.before}

DisableAll(c) ==
    /\ Enabled(c, "disable") /\ call[c].chains = <<>>
    /\ DisableAfterRemoval \/ permissionMap.undefined = {}
    /\ LET items == Reached(permissionMap) \X {call[c].origin}
           next == [call[c] EXCEPT !.pc = "disableGlobal",
                                   !.revokes = (Chains \cup {Global}) \X {call[c].origin}]
       IN  IF permissionMap.undefined = {}
           THEN /\ Save(Without(permissionMap, items))
                /\ Removes(c, [next EXCEPT !.pc = "saveGlobal", !.then = "disableGlobal"], items)
           ELSE /\ permissionMap' = Without(permissionMap, items)
                /\ Removes(c, next, items)
                /\ UNCHANGED stored
    /\ UNCHANGED <<globalPermissionMap, registered, approved>>

(* removeAllTypeGlobalPermission()                                         *)
DisableGlobal(c) ==
    /\ call[c].pc = "disableGlobal"
    /\ globalPermissionMap' = globalPermissionMap \ {call[c].origin}
    /\ Save(permissionMap)
    /\ Removes(c, Saving({}, call[c].revokes), {<<Global, call[c].origin>>})
    /\ UNCHANGED <<registered, approved>>

Return(c) ==
    /\ call[c].pc = "return"
    /\ approved' = approved \ call[c].revokes
    /\ Goes(c, Idle)
    /\ UNCHANGED <<maps, stored, registered, kept>>

-----------------------------------------------------------------------------
(* Messages of the wallet's own pages.                                     *)
AddOrigin(c, i, o) ==
    /\ call[c] = Idle
    /\ Save(AddPermission(permissionMap, <<i>>, {i}, o))
    /\ Approves(c, Saving({<<i, o>>}, {}), {<<i, o>>})
    /\ UNCHANGED <<globalPermissionMap, registered, kept>>

RemoveInMemory(c, i, o) ==
    /\ call[c] = Idle
    /\ permissionMap' = Without(permissionMap, {<<i, o>>})
    /\ Removes(c, Idle, {<<i, o>>})
    /\ approved' = approved \ {<<i, o>>}
    /\ UNCHANGED <<stored, globalPermissionMap, registered>>

(* removePermission(): returns at once if the chain has no entry.          *)
RemoveOrigin(c, i, o) ==
    /\ call[c] = Idle
    /\ IF i \in Live(permissionMap)
       THEN /\ Save(Without(permissionMap, {<<i, o>>}))
            /\ Removes(c, Saving({}, {<<i, o>>}), {<<i, o>>})
            /\ UNCHANGED approved
       ELSE /\ approved' = approved \ {<<i, o>>}
            /\ UNCHANGED <<permissionMap, stored, call, kept>>
    /\ UNCHANGED <<globalPermissionMap, registered>>

RemoveGlobalOrigin(c, o) ==
    /\ call[c] = Idle
    /\ globalPermissionMap' = globalPermissionMap \ {o}
    /\ Save(permissionMap)
    /\ Removes(c, Saving({}, {<<Global, o>>}), {<<Global, o>>})
    /\ UNCHANGED <<registered, approved>>

(* removeChainInfo() runs the handlers of a removed chain, here            *)
(* removeAllPermissions(), and does not wait for them.                     *)
RemoveChain(c, i) ==
    /\ call[c] = Idle
    /\ i \in registered \ Embedded
    /\ registered' = registered \ {i}
    /\ Save(RemoveAll(permissionMap, i))
    /\ Removes(c, Saving({}, {i} \X Origins), {i} \X Origins)
    /\ UNCHANGED <<globalPermissionMap, approved>>

(* The background restarts: calls are gone, restore() reads the store.     *)
Restart ==
    /\ permissionMap' = stored.permissionMap
    /\ globalPermissionMap' = stored.globalPermissionMap
    /\ call' = [c \in Calls |-> Idle]
    /\ UNCHANGED <<stored, registered, approved, kept>>

-----------------------------------------------------------------------------
FromPage(c) ==
    \E o \in Origins :
        \/ \E op \in {"access", "global", "disable"} \cap MaySend[o], list \in ChainLists \cup {<<>>} : Request(c, op, o, list)
        \/ \E op \in {"suggest", "switch"} \cap MaySend[o], i \in Chains : AskForChain(c, op, o, i)

GoesOn(c) ==
    \/ EnabledAccess(c) \/ ChainInfo(c) \/ EnabledGlobal(c)
    \/ SaveGlobal(c) \/ Check(c) \/ Register(c)
    \/ Disable(c) \/ DisableAll(c) \/ DisableGlobal(c) \/ Return(c)

FromUser(c) ==
    \/ Fail(c) \/ Grant(c) \/ GrantGlobal(c)
    \/ \E o \in Origins : /\ "managed" \in MaySend[o]
                          /\ RemoveGlobalOrigin(c, o) \/ \E i \in Chains : AddOrigin(c, i, o) \/ RemoveOrigin(c, i, o)
    \/ \E i \in Chains : RemoveChain(c, i)

Next == Restart \/ \E c \in Calls : FromPage(c) \/ GoesOn(c) \/ FromUser(c)

Spec == Init /\ [][Next]_vars

-----------------------------------------------------------------------------
MapOK(map) ==
    /\ map \in MapRecords
    /\ map.undefined \subseteq map.keys
    /\ \A item \in map.granted : item[1] \in Live(map)

(* Every variable has its type, and there are permissions only under keys  *)
(* that are not undefined.                                                 *)
TypeOK ==
    /\ MapOK(permissionMap)
    /\ stored \in [permissionMap : MapRecords, globalPermissionMap : SUBSET Origins]
    /\ MapOK(stored.permissionMap)
    /\ stored.permissionMap.undefined = {}
    /\ globalPermissionMap \subseteq Origins
    /\ registered \subseteq Chains /\ Embedded \subseteq registered
    /\ call \in [Calls -> CallRecords]
    /\ approved \subseteq Items /\ kept \subseteq Items

(* An origin holds nothing, in memory or in the store, that the user did   *)
(* not approve, nor what was taken from it by a call that has returned:    *)
(* the prompts of grantPermission(), and disable() "remove all permissions *)
(* granted to origin", whatever calls overlap and the background restarts. *)
OnlyWhatUserApproved == Held \cup StoredHeld \subseteq approved

(* What was approved and saved is held until it is removed, however saves  *)
(* of other calls, removals of chains and restarts interleave: save(),     *)
(* addPermission() and restore().                                          *)
GrantIsKept == kept \subseteq Held \cap StoredHeld
=============================================================================
