-------------------------- MODULE PermissionProofs --------------------------
(***************************************************************************)
(* Theorems about Permission, for every set of calls, chains and origins.  *)
(***************************************************************************)
EXTENDS Permission, TLAPS

(* What a call goes on with: a call that waits for save() has done the     *)
(* rest of its step.                                                       *)
Stage(r) == IF r.pc = "saveGlobal" THEN r.then ELSE r.pc

(* What the code after an await relies on in the locals of a call.         *)
LocalsOK(r) ==
    /\ r.pc \in {"chainInfo", "ask"} => r.op \in {"access", "global", "suggest", "switch"}
    /\ r.pc # "saveGlobal" => r.grants = {}
    /\ Stage(r) \notin {"idle", "return"} => r.origin \in Origins
    /\ Stage(r) \notin {"disable", "disableGlobal", "return"} => r.revokes = {}
    /\ Stage(r) = "disable" => r.revokes \subseteq Chains \X Origins

GoodCall(r) == r \in CallRecords /\ LocalsOK(r)

Typed == TypeOK /\ \A c \in Calls : LocalsOK(call[c])

-----------------------------------------------------------------------------
(* Lemmas about maps.                                                      *)
LEMMA WithKeysTyped ==
  ASSUME NEW map \in MapRecords, NEW chains \in SUBSET Chains, NEW list
  PROVE  /\ WithKeys(map, chains, list) \in MapRecords
         /\ WithKeys(map, chains, list).keys = map.keys \cup chains
         /\ WithKeys(map, chains, list).undefined = map.undefined
         /\ WithKeys(map, chains, list).granted = map.granted
<1> DEFINE new == chains \ map.keys
           pairs == {p \in new \X new : \E m, n \in DOMAIN list : m < n /\ p = <<list[m], list[n]>>}
<1>1. /\ pairs \subseteq Chains \X Chains
      /\ map.keys \X new \subseteq Chains \X Chains
      /\ map.before \subseteq Chains \X Chains
  BY DEF MapRecords
<1>2. Extended(map.before, map.keys, new, list) \in SUBSET (Chains \X Chains)
  BY <1>1 DEF Extended
<1> HIDE DEF new
<1>3. WithKeys(map, chains, list) = [map EXCEPT !.keys = @ \cup chains,
                                               !.before = Extended(@, map.keys, new, list)]
  BY DEF WithKeys, new
<1> QED
  BY <1>2, <1>3 DEF MapRecords

LEMMA AddPermissionTyped ==
  ASSUME NEW map, MapOK(map), NEW chains \in SUBSET Chains, NEW o \in Origins, NEW list
  PROVE  /\ MapOK(AddPermission(map, list, chains, o))
         /\ AddPermission(map, list, chains, o).granted = map.granted \cup Over(chains, o)
<1> DEFINE w == WithKeys(map, chains, list)
<1>1. w \in MapRecords /\ w.keys = map.keys \cup chains /\ w.undefined = map.undefined /\ w.granted = map.granted
  BY WithKeysTyped DEF MapOK
<1>2. AddPermission(map, list, chains, o) = [w EXCEPT !.undefined = @ \ chains, !.granted = @ \cup Over(chains, o)]
  BY DEF AddPermission
<1> HIDE DEF w
<1>3. Over(chains, o) \subseteq Chains \X Origins /\ \A item \in Over(chains, o) : item[1] \in chains
  BY DEF Over
<1> QED
  BY <1>1, <1>2, <1>3 DEF MapOK, MapRecords, Live

LEMMA RemoveAllTyped ==
  ASSUME NEW map, MapOK(map), NEW i \in Chains
  PROVE  /\ MapOK(RemoveAll(map, i))
         /\ RemoveAll(map, i).granted = map.granted \ ({i} \X Origins)
<1> DEFINE w == WithKeys(map, {i}, <<i>>)
<1>1. w \in MapRecords /\ w.keys = map.keys \cup {i} /\ w.undefined = map.undefined /\ w.granted = map.granted
  BY WithKeysTyped DEF MapOK
<1>2. RemoveAll(map, i) = [w EXCEPT !.undefined = @ \cup {i}, !.granted = @ \ ({i} \X Origins)]
  BY DEF RemoveAll
<1> HIDE DEF w
<1>3. map.granted \subseteq Chains \X Origins
  BY DEF MapOK, MapRecords
<1> DEFINE rest == map.granted \ ({i} \X Origins)
<1>4. rest \subseteq Chains \X Origins /\ \A item \in rest : item[1] # i /\ item[1] \in Live(map)
  BY <1>3 DEF MapOK
<1>5. RemoveAll(map, i) = [w EXCEPT !.undefined = @ \cup {i}, !.granted = rest]
  BY <1>1, <1>2
<1> HIDE DEF rest
<1>6. /\ RemoveAll(map, i) \in MapRecords
      /\ RemoveAll(map, i).keys = map.keys \cup {i} /\ RemoveAll(map, i).undefined = map.undefined \cup {i}
      /\ RemoveAll(map, i).granted = rest
  BY <1>1, <1>4, <1>5 DEF MapOK, MapRecords
<1> QED
  BY <1>4, <1>6 DEF MapOK, Live, rest

LEMMA WithoutTyped ==
  ASSUME NEW map, MapOK(map), NEW items
  PROVE  /\ MapOK(Without(map, items))
         /\ Without(map, items).granted = map.granted \ items
  BY DEF Without, MapOK, MapRecords, Live

LEMMA SavedTyped ==
  ASSUME NEW map, MapOK(map)
  PROVE  /\ MapOK(Saved(map)) /\ Saved(map).undefined = {}
         /\ Saved(map).granted = map.granted
         /\ Saved(Saved(map)) = Saved(map)
  BY DEF Saved, MapOK, MapRecords, Live

LEMMA SaveTyped ==
  ASSUME Typed, NEW map, MapOK(map), Save(map)
  PROVE  /\ MapOK(permissionMap)' /\ MapOK(stored.permissionMap)'
         /\ stored'.permissionMap.undefined = {}
         /\ stored' \in [permissionMap : MapRecords, globalPermissionMap : SUBSET Origins]
         /\ stored'.globalPermissionMap = stored.globalPermissionMap
<1>1. stored' = [stored EXCEPT !.permissionMap = Saved(map)] /\ permissionMap' = map
  BY DEF Save
<1>2. MapOK(Saved(map)) /\ Saved(map).undefined = {} /\ Saved(map) \in MapRecords
  BY SavedTyped DEF MapOK
<1>3. stored \in [permissionMap : MapRecords, globalPermissionMap : SUBSET Origins]
  BY DEF Typed, TypeOK
<1>4. stored'.permissionMap = Saved(map)
  BY <1>1, <1>3
<1> QED
  BY <1>1, <1>2, <1>3, <1>4 DEF MapOK, Live

-----------------------------------------------------------------------------
(* Lemmas about calls: one goes on, and the others forget at most grants   *)
(* and revokes.                                                            *)
CallsGood == call \in [Calls -> CallRecords] /\ \A c \in Calls : LocalsOK(call[c])

LEMMA IdleGood == GoodCall(Idle)
  BY DEF GoodCall, Idle, CallRecords, LocalsOK, Stage

LEMMA GoesGood ==
  ASSUME CallsGood, NEW c \in Calls, NEW r, GoodCall(r), Goes(c, r)
  PROVE  CallsGood'
  BY DEF CallsGood, GoodCall, Goes

LEMMA ApprovesGood ==
  ASSUME CallsGood, NEW c \in Calls, NEW r, GoodCall(r), NEW items, Approves(c, r, items)
  PROVE  CallsGood'
<1>1. ASSUME NEW d \in Calls
      PROVE  GoodCall([call[d] EXCEPT !.revokes = @ \ items])
  BY DEF CallsGood, GoodCall, CallRecords, LocalsOK, Stage
<1>2. \A d \in Calls : GoodCall(call'[d])
  BY <1>1 DEF Approves
<1> QED
  BY <1>2 DEF CallsGood, GoodCall, Approves

LEMMA RemovesGood ==
  ASSUME CallsGood, NEW c \in Calls, NEW r, GoodCall(r), NEW items, Removes(c, r, items)
  PROVE  CallsGood'
<1>1. ASSUME NEW d \in Calls
      PROVE  GoodCall([call[d] EXCEPT !.grants = @ \ items])
  BY DEF CallsGood, GoodCall, CallRecords, LocalsOK, Stage
<1>2. \A d \in Calls : GoodCall(call'[d])
  BY <1>1 DEF Removes
<1> QED
  BY <1>2 DEF CallsGood, GoodCall, Removes

LEMMA SavingGood ==
  ASSUME NEW grants \in SUBSET Items, NEW revokes \in SUBSET Items
  PROVE  GoodCall(Saving(grants, revokes))
<1>1. Idle \in CallRecords
  BY IdleGood DEF GoodCall
<1>2. Saving(grants, revokes) \in CallRecords
  BY <1>1 DEF Saving, CallRecords
<1> QED
  BY <1>2 DEF GoodCall, Saving, Idle, LocalsOK, Stage

-----------------------------------------------------------------------------
(* Type correctness, an action after the other.                            *)
MapsTyped ==
    /\ MapOK(permissionMap) /\ MapOK(stored.permissionMap)
    /\ stored.permissionMap.undefined = {}
    /\ stored \in [permissionMap : MapRecords, globalPermissionMap : SUBSET Origins]
    /\ globalPermissionMap \subseteq Origins
    /\ registered \subseteq Chains /\ Embedded \subseteq registered

HistoryTyped == approved \subseteq Items /\ kept \subseteq Items

LEMMA TypedParts == Typed <=> MapsTyped /\ HistoryTyped /\ CallsGood
  BY DEF Typed, TypeOK, MapsTyped, HistoryTyped, CallsGood

(* A step that only moves its call on, which neither grants nor revokes.   *)
Quiet(c) ==
    /\ \E r : GoodCall(r) /\ r.grants = {} /\ r.revokes = {} /\ Goes(c, r)
    /\ registered \subseteq registered' /\ registered' \subseteq Chains
    /\ UNCHANGED <<maps, stored, approved, kept>>

LEMMA QuietTyped ==
  ASSUME Typed, NEW c \in Calls, Quiet(c)
  PROVE  Typed'
<1>1. CallsGood'
  BY TypedParts, GoesGood DEF Quiet
<1>2. MapsTyped' /\ HistoryTyped'
  BY TypedParts DEF Quiet, MapsTyped, HistoryTyped, maps
<1> QED
  BY <1>1, <1>2 DEF Typed, TypeOK, MapsTyped, HistoryTyped, CallsGood

LEMMA PageQuiet ==
  ASSUME Typed, NEW c \in Calls, FromPage(c)
  PROVE  Quiet(c)
<1>1. ASSUME NEW o \in Origins, NEW op \in {"access", "global", "disable"},
             NEW list \in ChainLists \cup {<<>>}, Request(c, op, o, list)
      PROVE  Quiet(c)
  <2> DEFINE r == [Idle EXCEPT !.pc = "enable", !.op = op, !.origin = o, !.chains = list]
  <2>1. list \in Seq(Chains)
    <3>1. <<>> \in Seq(Chains)
      OBVIOUS
    <3>2. \A l \in ChainLists : l \in Seq(Chains)
      BY ChainsAssumption
    <3> QED
      BY <3>1, <3>2
  <2>2. r \in CallRecords
    BY <2>1, IdleGood DEF GoodCall, CallRecords, Messages
  <2>3. GoodCall(r) /\ r.grants = {} /\ r.revokes = {}
    BY <2>2 DEF GoodCall, LocalsOK, Stage, Idle
  <2> QED
    BY <1>1, <2>3, TypedParts DEF Request, Quiet, MapsTyped
<1>2. ASSUME NEW o \in Origins, NEW op \in {"suggest", "switch"}, NEW i \in Chains, AskForChain(c, op, o, i)
      PROVE  Quiet(c)
  <2> DEFINE r == [Idle EXCEPT !.pc = "ask", !.op = op, !.origin = o, !.chains = <<i>>, !.ungranted = {i}]
  <2>1. <<i>> \in Seq(Chains)
    OBVIOUS
  <2>2. r \in CallRecords
    BY <2>1, IdleGood DEF GoodCall, CallRecords, Messages
  <2>3. GoodCall(r) /\ r.grants = {} /\ r.revokes = {}
    BY <2>2 DEF GoodCall, LocalsOK, Stage, Idle
  <2> QED
    BY <1>2, <2>3, TypedParts DEF AskForChain, Quiet, MapsTyped
<1> QED
  BY <1>1, <1>2 DEF FromPage

LEMMA LocalsHere ==
  ASSUME Typed, NEW c \in Calls
  PROVE  GoodCall(call[c]) /\ call[c] \in CallRecords /\ ToSet(call[c].chains) \in SUBSET Chains
  BY DEF Typed, TypeOK, GoodCall, CallRecords, ToSet

LEMMA IdleQuiet == Idle.grants = {} /\ Idle.revokes = {}
  BY DEF Idle

LEMMA GoesOnQuiet ==
  ASSUME Typed, NEW c \in Calls,
         Fail(c) \/ EnabledAccess(c) \/ ChainInfo(c) \/ EnabledGlobal(c) \/ Check(c) \/ Register(c)
  PROVE  Quiet(c)
<1> USE LocalsHere
<1>1. registered \subseteq Chains
  BY DEF Typed, TypeOK
<1>2. CASE Fail(c)
  BY <1>1, <1>2, IdleGood, IdleQuiet DEF Fail, Quiet
<1>3. CASE EnabledAccess(c)
  <2> DEFINE chains == ToSet(call[c].chains)
             ungranted == {i \in chains : ~HasPermission(<<i, call[c].origin>>)}
             check == [call[c] EXCEPT !.pc = "check", !.left = chains]
             info == [call[c] EXCEPT !.pc = "chainInfo", !.ungranted = ungranted, !.left = ungranted]
  <2>1. call[c].pc = "enable" /\ call[c].op = "access" /\ (Goes(c, check) \/ Goes(c, info))
    BY <1>3 DEF EnabledAccess, Enabled
  <2>2. ungranted \in SUBSET Chains /\ chains \in SUBSET Chains
    OBVIOUS
  <2> HIDE DEF ungranted, chains
  <2>3. GoodCall(check) /\ check.grants = {} /\ check.revokes = {}
    BY <2>1, <2>2 DEF GoodCall, CallRecords, LocalsOK, Stage
  <2>4. GoodCall(info) /\ info.grants = {} /\ info.revokes = {}
    BY <2>1, <2>2 DEF GoodCall, CallRecords, LocalsOK, Stage
  <2> QED
    BY <1>1, <1>3, <2>1, <2>3, <2>4 DEF EnabledAccess, Quiet
<1>4. CASE ChainInfo(c)
  <2>1. PICK i \in call[c].left :
          \/ Goes(c, Idle)
          \/ Goes(c, [call[c] EXCEPT !.left = call[c].left \ {i}])
          \/ Goes(c, [call[c] EXCEPT !.pc = "ask", !.left = {}])
          \/ Goes(c, [call[c] EXCEPT !.pc = "check", !.left = ToSet(call[c].chains)])
    BY <1>4 DEF ChainInfo
  <2> DEFINE next == [call[c] EXCEPT !.left = call[c].left \ {i}]
             ask == [call[c] EXCEPT !.pc = "ask", !.left = {}]
             check == [call[c] EXCEPT !.pc = "check", !.left = ToSet(call[c].chains)]
  <2>2. call[c].pc = "chainInfo"
    BY <1>4 DEF ChainInfo
  <2>3. GoodCall(next) /\ next.grants = {} /\ next.revokes = {}
    BY <2>2 DEF GoodCall, CallRecords, LocalsOK, Stage
  <2>4. GoodCall(ask) /\ ask.grants = {} /\ ask.revokes = {}
    BY <2>2 DEF GoodCall, CallRecords, LocalsOK, Stage
  <2>5. GoodCall(check) /\ check.grants = {} /\ check.revokes = {}
    BY <2>2 DEF GoodCall, CallRecords, LocalsOK, Stage
  <2> QED
    BY <1>1, <1>4, <2>1, <2>3, <2>4, <2>5, IdleGood, IdleQuiet DEF ChainInfo, Quiet
<1>5. CASE EnabledGlobal(c)
  <2> DEFINE ask == [call[c] EXCEPT !.pc = "ask"]
  <2>1. call[c].pc = "enable" /\ call[c].op = "global" /\ (Goes(c, Idle) \/ Goes(c, ask))
    BY <1>5 DEF EnabledGlobal, Enabled
  <2>2. GoodCall(ask) /\ ask.grants = {} /\ ask.revokes = {}
    BY <2>1 DEF GoodCall, CallRecords, LocalsOK, Stage
  <2> QED
    BY <1>1, <1>5, <2>1, <2>2, IdleGood, IdleQuiet DEF EnabledGlobal, Quiet
<1>6. CASE Check(c)
  <2>1. PICK i \in call[c].left :
          Goes(c, [call[c] EXCEPT !.left = call[c].left \ {i}]) \/ Goes(c, Idle)
    BY <1>6 DEF Check
  <2> DEFINE next == [call[c] EXCEPT !.left = call[c].left \ {i}]
  <2>2. call[c].pc = "check"
    BY <1>6 DEF Check
  <2>3. GoodCall(next) /\ next.grants = {} /\ next.revokes = {}
    BY <2>2 DEF GoodCall, CallRecords, LocalsOK, Stage
  <2> QED
    BY <1>1, <1>6, <2>1, <2>3, IdleGood, IdleQuiet DEF Check, Quiet
<1>7. CASE Register(c)
  BY <1>1, <1>7, IdleGood, IdleQuiet DEF Register, Quiet
<1> QED
  BY <1>2, <1>3, <1>4, <1>5, <1>6, <1>7

-----------------------------------------------------------------------------
(* The other steps, by what they do to the permissions held.               *)

(* What call r revokes and has not removed yet.                            *)
Undone(r) ==
    CASE Stage(r) = "disable" -> r.left \X {r.origin}
      [] Stage(r) = "disableGlobal" -> {<<Global, r.origin>>}
      [] OTHER -> {}

Done(r) == r.revokes \ Undone(r)

Adds(c) ==
    \E map, r, items :
        /\ MapOK(map) /\ map.granted = permissionMap.granted \cup items
        /\ items \subseteq Chains \X Origins
        /\ Save(map) /\ Approves(c, r, items)
        /\ GoodCall(r) /\ r.grants = items /\ r.revokes = {}
        /\ UNCHANGED <<globalPermissionMap, registered, kept>>

AddsGlobal(c) ==
    \E o \in Origins : \E r :
        /\ globalPermissionMap' = globalPermissionMap \cup {o}
        /\ Save(permissionMap) /\ Approves(c, r, {<<Global, o>>})
        /\ GoodCall(r) /\ r.grants = {<<Global, o>>} /\ r.revokes = {}
        /\ UNCHANGED <<registered, kept>>

Takes(c) ==
    \E map, r, items :
        /\ MapOK(map) /\ map.granted = permissionMap.granted \ items
        /\ items \subseteq Chains \X Origins
        /\ Save(map) /\ Removes(c, r, items)
        /\ GoodCall(r) /\ r.grants = {} /\ r.pc = "saveGlobal"
        /\ Done(r) \subseteq Done(call[c]) \cup items \cup ((Chains \X Origins) \ permissionMap.granted)
        /\ Embedded \subseteq registered' /\ registered' \subseteq Chains
        /\ UNCHANGED <<globalPermissionMap, approved>>

TakesGlobal(c) ==
    \E o \in Origins : \E r :
        /\ globalPermissionMap' = globalPermissionMap \ {o}
        /\ Save(permissionMap) /\ Removes(c, r, {<<Global, o>>})
        /\ GoodCall(r) /\ r.grants = {} /\ r.pc = "saveGlobal"
        /\ Done(r) \subseteq Done(call[c]) \cup {<<Global, o>>}
        /\ UNCHANGED <<registered, approved>>

(* Nothing is to be removed for the chain: it has no entry.                *)
Skips(c) ==
    /\ \E r : /\ Goes(c, r) /\ GoodCall(r) /\ r.grants = {}
              /\ r.pc = "return" => r.revokes \subseteq Chains \X Origins
              /\ Done(r) \subseteq Done(call[c]) \cup ((Chains \X Origins) \ permissionMap.granted)
    /\ UNCHANGED <<maps, stored, registered, approved, kept>>

LEMMA HereTyped ==
  ASSUME Typed
  PROVE  /\ MapOK(permissionMap) /\ permissionMap.granted \subseteq Chains \X Origins
         /\ globalPermissionMap \subseteq Origins
         /\ Global \notin Chains /\ Items = (Chains \cup {Global}) \X Origins
  BY ChainsAssumption DEF Typed, TypeOK, MapOK, MapRecords, Items

LEMMA AddsTyped ==
  ASSUME Typed, NEW c \in Calls, Adds(c) \/ AddsGlobal(c)
  PROVE  Typed'
<1>1. CallsGood'
  BY TypedParts, ApprovesGood DEF Adds, AddsGlobal
<1>2. MapsTyped'
  BY TypedParts, SaveTyped, HereTyped DEF Adds, AddsGlobal, MapsTyped
<1>3. HistoryTyped'
  BY TypedParts, HereTyped DEF Adds, AddsGlobal, HistoryTyped, Approves
<1> QED
  BY <1>1, <1>2, <1>3 DEF Typed, TypeOK, MapsTyped, HistoryTyped, CallsGood

LEMMA TakesTyped ==
  ASSUME Typed, NEW c \in Calls, Takes(c) \/ TakesGlobal(c)
  PROVE  Typed'
<1>1. CallsGood'
  BY TypedParts, RemovesGood DEF Takes, TakesGlobal
<1>2. MapsTyped'
  BY TypedParts, SaveTyped, HereTyped DEF Takes, TakesGlobal, MapsTyped
<1>3. HistoryTyped'
  BY TypedParts DEF Takes, TakesGlobal, HistoryTyped, Removes
<1> QED
  BY <1>1, <1>2, <1>3 DEF Typed, TypeOK, MapsTyped, HistoryTyped, CallsGood

LEMMA SkipsTyped ==
  ASSUME Typed, NEW c \in Calls, Skips(c)
  PROVE  Typed'
<1>1. CallsGood'
  BY TypedParts, GoesGood DEF Skips
<1>2. MapsTyped' /\ HistoryTyped'
  BY TypedParts DEF Skips, MapsTyped, HistoryTyped, maps
<1> QED
  BY <1>1, <1>2 DEF Typed, TypeOK, MapsTyped, HistoryTyped, CallsGood

LEMMA GrantAdds ==
  ASSUME Typed, NEW c \in Calls, Grant(c)
  PROVE  Adds(c)
<1> DEFINE items == Over(call[c].ungranted, call[c].origin)
           map == AddPermission(permissionMap, call[c].chains, call[c].ungranted, call[c].origin)
           then == AfterGrant[call[c].op]
           r == [call[c] EXCEPT !.pc = "saveGlobal", !.then = then,
                                !.left = ToSet(call[c].chains), !.grants = items]
<1>1. call[c].pc = "ask" /\ call[c].op \in {"access", "suggest", "switch"}
  BY LocalsHere DEF Grant, GoodCall, LocalsOK
<1>2. then \in {"check", "register", "return"}
  BY <1>1 DEF AfterGrant
<1>3. call[c].origin \in Origins /\ call[c].revokes = {}
  BY <1>1, LocalsHere DEF GoodCall, LocalsOK, Stage
<1>4. call[c].ungranted \in SUBSET Chains
  BY LocalsHere DEF CallRecords
<1>5. MapOK(map) /\ map.granted = permissionMap.granted \cup items
  <2>1. \A chains \in SUBSET Chains, o \in Origins : \A list :
           /\ MapOK(AddPermission(permissionMap, list, chains, o))
           /\ AddPermission(permissionMap, list, chains, o).granted = permissionMap.granted \cup Over(chains, o)
    BY HereTyped, AddPermissionTyped
  <2> QED
    BY <1>3, <1>4, <2>1
<1>6. items \subseteq Chains \X Origins /\ items \in SUBSET Items
  BY <1>3, <1>4, HereTyped DEF Over
<1>7. Save(map) /\ Approves(c, r, items) /\ UNCHANGED <<globalPermissionMap, registered, kept>>
  BY DEF Grant
<1> HIDE DEF items, then, map
<1>8. GoodCall(r) /\ r.grants = items /\ r.revokes = {}
  BY <1>2, <1>3, <1>6, LocalsHere DEF GoodCall, CallRecords, LocalsOK, Stage
<1> QED
  BY <1>5, <1>6, <1>7, <1>8 DEF Adds

LEMMA SavingHolds ==
  ASSUME NEW grants \in SUBSET Items, NEW revokes \in SUBSET Items
  PROVE  LET r == Saving(grants, revokes)
         IN  GoodCall(r) /\ r.grants = grants /\ r.revokes = revokes /\ r.pc = "saveGlobal" /\ Done(r) = revokes
<1> DEFINE r == Saving(grants, revokes)
<1>1. r.grants = grants /\ r.revokes = revokes /\ r.pc = "saveGlobal" /\ r.then = "return"
  BY DEF Saving, Idle
<1>2. GoodCall(r)
  BY SavingGood
<1> HIDE DEF r
<1>3. Undone(r) = {}
  BY <1>1 DEF Undone, Stage
<1> QED
  BY <1>1, <1>2, <1>3 DEF Done, r

LEMMA AddOriginAdds ==
  ASSUME Typed, NEW c \in Calls, NEW i \in Chains, NEW o \in Origins, AddOrigin(c, i, o)
  PROVE  Adds(c)
<1> DEFINE items == {<<i, o>>}
           map == AddPermission(permissionMap, <<i>>, {i}, o)
           r == Saving(items, {})
<1>1. MapOK(map) /\ map.granted = permissionMap.granted \cup Over({i}, o)
  BY HereTyped, AddPermissionTyped
<1>2. Over({i}, o) = items /\ items \subseteq Chains \X Origins /\ items \in SUBSET Items /\ {} \in SUBSET Items
  BY HereTyped DEF Over
<1>3. Save(map) /\ Approves(c, r, items) /\ UNCHANGED <<globalPermissionMap, registered, kept>>
  BY DEF AddOrigin
<1>4. GoodCall(r) /\ r.grants = items /\ r.revokes = {}
  BY <1>2, SavingHolds
<1> QED
  BY <1>1, <1>2, <1>3, <1>4 DEF Adds

LEMMA GrantGlobalAdds ==
  ASSUME Typed, NEW c \in Calls, GrantGlobal(c)
  PROVE  AddsGlobal(c)
<1> DEFINE o == call[c].origin
           items == {<<Global, o>>}
           r == Saving(items, {})
<1>1. o \in Origins
  BY LocalsHere DEF GrantGlobal, GoodCall, LocalsOK, Stage
<1>2. items \in SUBSET Items /\ {} \in SUBSET Items
  BY <1>1, HereTyped
<1>3. GoodCall(r) /\ r.grants = items /\ r.revokes = {}
  BY <1>2, SavingHolds
<1>4. /\ globalPermissionMap' = globalPermissionMap \cup {o}
      /\ Save(permissionMap) /\ Approves(c, r, items)
      /\ UNCHANGED <<registered, kept>>
  BY DEF GrantGlobal
<1> QED
  BY <1>1, <1>3, <1>4 DEF AddsGlobal

LEMMA DisableTakes ==
  ASSUME Typed, NEW c \in Calls, Disable(c)
  PROVE  Takes(c) \/ Skips(c)
<1>1. PICK left \in SUBSET Chains, revokes \in SUBSET (Chains \X Origins) :
        /\ DisableChain(c, left, revokes)
        /\ revokes \ (left \X {call[c].origin}) \subseteq Done(call[c])
  <2>1. CASE Enabled(c, "disable") /\ DisableChain(c, ToSet(call[c].chains), Over(ToSet(call[c].chains), call[c].origin))
    <3>1. ToSet(call[c].chains) \in SUBSET Chains /\ call[c].origin \in Origins
      BY <2>1, LocalsHere DEF Enabled, GoodCall, LocalsOK, Stage
    <3> QED
      BY <2>1, <3>1 DEF Over
  <2>2. CASE call[c].pc = "disable" /\ DisableChain(c, call[c].left, call[c].revokes)
    <3>1. call[c].revokes \subseteq Chains \X Origins /\ Undone(call[c]) = call[c].left \X {call[c].origin}
      BY <2>2, LocalsHere DEF GoodCall, LocalsOK, Stage, Undone
    <3>2. call[c].left \in SUBSET Chains
      BY LocalsHere DEF CallRecords
    <3> QED
      BY <2>2, <3>1, <3>2 DEF Done
  <2> QED
    BY <2>1, <2>2 DEF Disable
<1> DEFINE o == call[c].origin
<1>2. /\ o \in Origins /\ call[c].grants = {}
      /\ UNCHANGED <<globalPermissionMap, registered, approved>>
  BY LocalsHere DEF Disable, Enabled, GoodCall, LocalsOK, Stage
<1>3. PICK i \in left :
        LET items == {<<i, o>>}
            rest == left \ {i}
            pc == IF rest = {} THEN "return" ELSE "disable"
            next == [call[c] EXCEPT !.left = rest, !.pc = pc, !.revokes = revokes]
        IN  IF i \in Live(permissionMap)
            THEN /\ Save(Without(permissionMap, items))
                 /\ Removes(c, [next EXCEPT !.pc = "saveGlobal", !.then = pc], items)
            ELSE Goes(c, next) /\ UNCHANGED <<permissionMap, stored, kept>>
  BY <1>1 DEF DisableChain
<1> DEFINE items == {<<i, o>>}
           rest == left \ {i}
           pc == IF rest = {} THEN "return" ELSE "disable"
           next == [call[c] EXCEPT !.left = rest, !.pc = pc, !.revokes = revokes]
           saving == [next EXCEPT !.pc = "saveGlobal", !.then = pc]
<1>4. /\ items \subseteq Chains \X Origins /\ rest \in SUBSET Chains /\ pc \in {"return", "disable"}
      /\ revokes \in SUBSET Items
      /\ pc = "return" => rest = {}
  BY <1>2, HereTyped
<1>5. revokes \ (rest \X {o}) \subseteq Done(call[c]) \cup items
  BY <1>1
<1> HIDE DEF rest, pc
<1>6. GoodCall(next) /\ next.grants = {} /\ Stage(next) = pc /\ next.left = rest /\ next.origin = o /\ next.revokes = revokes
  BY <1>2, <1>4, LocalsHere DEF GoodCall, CallRecords, LocalsOK, Stage
<1>7. /\ GoodCall(saving) /\ saving.grants = {} /\ Stage(saving) = pc /\ saving.left = rest
      /\ saving.origin = o /\ saving.revokes = revokes /\ saving.pc = "saveGlobal"
  BY <1>2, <1>4, LocalsHere DEF GoodCall, CallRecords, LocalsOK, Stage
<1>8. ASSUME NEW r, Stage(r) = pc, r.left = rest, r.origin = o, r.revokes = revokes
      PROVE  Done(r) \subseteq Done(call[c]) \cup items
  BY <1>4, <1>5, <1>8 DEF Done, Undone
<1>9. CASE i \in Live(permissionMap)
  <2>1. Save(Without(permissionMap, items)) /\ Removes(c, saving, items)
    BY <1>3, <1>9 DEF rest, pc
  <2>2. MapOK(Without(permissionMap, items)) /\ Without(permissionMap, items).granted = permissionMap.granted \ items
    BY HereTyped, WithoutTyped
  <2>3. Embedded \subseteq registered' /\ registered' \subseteq Chains
    BY <1>2 DEF Typed, TypeOK
  <2>4. Done(saving) \subseteq Done(call[c]) \cup items
    BY <1>7, <1>8
  <2> HIDE DEF saving, items
  <2> QED
    BY <1>2, <1>4, <1>7, <2>1, <2>2, <2>3, <2>4 DEF Takes
<1>10. CASE i \notin Live(permissionMap)
  <2>1. Goes(c, next) /\ UNCHANGED <<permissionMap, stored, kept>>
    BY <1>3, <1>10 DEF rest, pc
  <2>2. items \subseteq (Chains \X Origins) \ permissionMap.granted
    BY <1>4, <1>10, HereTyped DEF MapOK
  <2>3. Done(next) \subseteq Done(call[c]) \cup items
    BY <1>6, <1>8
  <2> HIDE DEF next, items
  <2> QED
    BY <1>2, <1>1, <1>6, <2>1, <2>2, <2>3 DEF Skips, maps
<1> QED
  BY <1>9, <1>10

LEMMA DisableAllTakes ==
  ASSUME Typed, NEW c \in Calls, DisableAll(c), permissionMap.undefined = {}
  PROVE  Takes(c)
<1> DEFINE o == call[c].origin
           items == Reached(permissionMap) \X {o}
           map == Without(permissionMap, items)
           revokes == (Chains \cup {Global}) \X {o}
           next == [call[c] EXCEPT !.pc = "disableGlobal", !.revokes = revokes]
           r == [next EXCEPT !.pc = "saveGlobal", !.then = "disableGlobal"]
<1>1. o \in Origins /\ call[c].grants = {}
  BY LocalsHere DEF DisableAll, Enabled, GoodCall, LocalsOK, Stage
<1>2. /\ Save(map) /\ Removes(c, r, items)
      /\ UNCHANGED <<globalPermissionMap, registered, approved>>
  BY DEF DisableAll
<1>3. Reached(permissionMap) = Live(permissionMap) /\ Live(permissionMap) \subseteq Chains
  BY HereTyped DEF Reached, Live, MapOK, MapRecords
<1>4. MapOK(map) /\ map.granted = permissionMap.granted \ items
  BY HereTyped, WithoutTyped
<1>5. items \subseteq Chains \X Origins /\ revokes \in SUBSET Items
  BY <1>1, <1>3, HereTyped
<1>6. Chains \X {o} \subseteq items \cup ((Chains \X Origins) \ permissionMap.granted)
  BY <1>1, <1>3, HereTyped DEF MapOK
<1>7. revokes \ {<<Global, o>>} \subseteq Chains \X {o}
  OBVIOUS
<1> HIDE DEF revokes
<1>8. /\ GoodCall(r) /\ r.grants = {} /\ r.pc = "saveGlobal" /\ Stage(r) = "disableGlobal"
      /\ r.revokes = revokes /\ r.origin = o
  BY <1>1, <1>5, LocalsHere DEF GoodCall, CallRecords, LocalsOK, Stage
<1> HIDE DEF r
<1>9. Done(r) = revokes \ {<<Global, o>>}
  BY <1>8 DEF Done, Undone
<1>10. Embedded \subseteq registered' /\ registered' \subseteq Chains
  BY <1>2 DEF Typed, TypeOK
<1> HIDE DEF map, items
<1> QED
  BY <1>2, <1>4, <1>5, <1>6, <1>7, <1>8, <1>9, <1>10 DEF Takes

LEMMA DisableGlobalTakes ==
  ASSUME Typed, NEW c \in Calls, DisableGlobal(c)
  PROVE  TakesGlobal(c)
<1> DEFINE o == call[c].origin
           r == Saving({}, call[c].revokes)
<1>1. o \in Origins /\ call[c].revokes \in SUBSET Items /\ Undone(call[c]) = {<<Global, o>>}
  BY LocalsHere DEF DisableGlobal, GoodCall, CallRecords, LocalsOK, Stage, Undone
<1>2. GoodCall(r) /\ r.grants = {} /\ r.pc = "saveGlobal" /\ Done(r) = call[c].revokes
  BY <1>1, SavingHolds
<1>3. /\ globalPermissionMap' = globalPermissionMap \ {o}
      /\ Save(permissionMap) /\ Removes(c, r, {<<Global, o>>})
      /\ UNCHANGED <<registered, approved>>
  BY DEF DisableGlobal
<1> HIDE DEF r
<1> QED
  BY <1>1, <1>2, <1>3 DEF TakesGlobal, Done

LEMMA RemoveGlobalOriginTakes ==
  ASSUME Typed, NEW c \in Calls, NEW o \in Origins, RemoveGlobalOrigin(c, o)
  PROVE  TakesGlobal(c)
<1> DEFINE items == {<<Global, o>>}
           r == Saving({}, items)
<1>1. items \in SUBSET Items /\ {} \in SUBSET Items
  BY HereTyped
<1>2. GoodCall(r) /\ r.grants = {} /\ r.pc = "saveGlobal" /\ Done(r) = items
  BY <1>1, SavingHolds
<1>3. /\ globalPermissionMap' = globalPermissionMap \ {o}
      /\ Save(permissionMap) /\ Removes(c, r, items)
      /\ UNCHANGED <<registered, approved>>
  BY DEF RemoveGlobalOrigin
<1> HIDE DEF r
<1> QED
  BY <1>2, <1>3 DEF TakesGlobal

LEMMA RemoveOriginTakes ==
  ASSUME Typed, NEW c \in Calls, NEW i \in Live(permissionMap), NEW o \in Origins, RemoveOrigin(c, i, o)
  PROVE  Takes(c)
<1> DEFINE items == {<<i, o>>}
           map == Without(permissionMap, items)
           r == Saving({}, items)
<1>1. items \subseteq Chains \X Origins /\ items \in SUBSET Items /\ {} \in SUBSET Items
  BY HereTyped DEF Live, MapOK, MapRecords
<1>2. GoodCall(r) /\ r.grants = {} /\ r.pc = "saveGlobal" /\ Done(r) = items
  BY <1>1, SavingHolds
<1>3. /\ Save(map) /\ Removes(c, r, items)
      /\ UNCHANGED <<globalPermissionMap, registered, approved>>
  BY DEF RemoveOrigin
<1>4. MapOK(map) /\ map.granted = permissionMap.granted \ items
  BY HereTyped, WithoutTyped
<1>5. Embedded \subseteq registered' /\ registered' \subseteq Chains
  BY <1>3 DEF Typed, TypeOK
<1> HIDE DEF r, map, items
<1> QED
  BY <1>1, <1>2, <1>3, <1>4, <1>5 DEF Takes

LEMMA RemoveChainTakes ==
  ASSUME Typed, NEW c \in Calls, NEW i \in Chains, RemoveChain(c, i)
  PROVE  Takes(c)
<1> DEFINE items == {i} \X Origins
           map == RemoveAll(permissionMap, i)
           r == Saving({}, items)
<1>1. items \subseteq Chains \X Origins /\ items \in SUBSET Items /\ {} \in SUBSET Items
  BY HereTyped
<1>2. GoodCall(r) /\ r.grants = {} /\ r.pc = "saveGlobal" /\ Done(r) = items
  BY <1>1, SavingHolds
<1>3. /\ Save(map) /\ Removes(c, r, items)
      /\ UNCHANGED <<globalPermissionMap, approved>>
      /\ i \in registered \ Embedded /\ registered' = registered \ {i}
  BY DEF RemoveChain
<1>4. MapOK(map) /\ map.granted = permissionMap.granted \ items
  BY HereTyped, RemoveAllTyped
<1>5. Embedded \subseteq registered' /\ registered' \subseteq Chains
  BY <1>3 DEF Typed, TypeOK
<1> HIDE DEF r, map, items
<1> QED
  BY <1>1, <1>2, <1>3, <1>4, <1>5 DEF Takes

LEMMA SaveGlobalTyped ==
  ASSUME Typed, NEW c \in Calls, SaveGlobal(c)
  PROVE  Typed'
<1> DEFINE r == [call[c] EXCEPT !.pc = call[c].then, !.then = "idle", !.grants = {}]
<1>1. Goes(c, r) /\ call[c].pc = "saveGlobal"
  BY DEF SaveGlobal
<1>2. GoodCall(r)
  BY <1>1, LocalsHere DEF GoodCall, CallRecords, LocalsOK, Stage
<1> HIDE DEF r
<1>3. CallsGood'
  BY <1>1, <1>2, TypedParts, GoesGood
<1>4. stored' \in [permissionMap : MapRecords, globalPermissionMap : SUBSET Origins]
      /\ stored'.permissionMap = stored.permissionMap
  BY DEF SaveGlobal, Typed, TypeOK
<1>5. MapsTyped'
  BY <1>4, TypedParts DEF SaveGlobal, MapsTyped, maps, MapOK, Live
<1>6. call[c].grants \subseteq Items
  BY LocalsHere DEF CallRecords
<1>7. HistoryTyped'
  BY <1>6, TypedParts DEF SaveGlobal, HistoryTyped
<1> QED
  BY <1>3, <1>5, <1>7 DEF Typed, TypeOK, MapsTyped, HistoryTyped, CallsGood

LEMMA ReturnTyped ==
  ASSUME Typed, NEW c \in Calls, Return(c)
  PROVE  Typed'
<1>1. CallsGood'
  BY TypedParts, GoesGood, IdleGood DEF Return
<1>2. MapsTyped' /\ HistoryTyped'
  BY TypedParts DEF Return, MapsTyped, HistoryTyped, maps
<1> QED
  BY <1>1, <1>2 DEF Typed, TypeOK, MapsTyped, HistoryTyped, CallsGood

(* removeAllTypePermission() that ends at an undefined entry.              *)
LEMMA DisableSomeTyped ==
  ASSUME Typed, NEW c \in Calls, DisableAll(c), permissionMap.undefined # {}
  PROVE  Typed'
<1> DEFINE o == call[c].origin
           items == Reached(permissionMap) \X {o}
           revokes == (Chains \cup {Global}) \X {o}
           next == [call[c] EXCEPT !.pc = "disableGlobal", !.revokes = revokes]
<1>1. o \in Origins /\ call[c].grants = {}
  BY LocalsHere DEF DisableAll, Enabled, GoodCall, LocalsOK, Stage
<1>2. /\ permissionMap' = Without(permissionMap, items) /\ Removes(c, next, items)
      /\ UNCHANGED <<stored, globalPermissionMap, registered, approved>>
  BY DEF DisableAll
<1>3. revokes \in SUBSET Items
  BY <1>1, HereTyped
<1> HIDE DEF revokes, items
<1>4. GoodCall(next)
  BY <1>1, <1>3, LocalsHere DEF GoodCall, CallRecords, LocalsOK, Stage
<1> HIDE DEF next
<1>5. CallsGood'
  BY <1>2, <1>4, TypedParts, RemovesGood
<1>6. MapOK(permissionMap')
  BY <1>2, HereTyped, WithoutTyped
<1>7. MapsTyped'
  BY <1>2, <1>6, TypedParts DEF MapsTyped, MapOK, Live
<1>8. HistoryTyped'
  BY <1>2, TypedParts DEF HistoryTyped, Removes
<1> QED
  BY <1>5, <1>7, <1>8 DEF Typed, TypeOK, MapsTyped, HistoryTyped, CallsGood

(* The user takes a permission back that is not there.                     *)
Forgets ==
    /\ \E items \in SUBSET ((Chains \X Origins) \ permissionMap.granted) : approved' = approved \ items
    /\ UNCHANGED <<maps, stored, registered, call, kept>>

LEMMA RemoveOriginForgets ==
  ASSUME Typed, NEW c \in Calls, NEW i \in Chains, NEW o \in Origins, RemoveOrigin(c, i, o),
         i \notin Live(permissionMap)
  PROVE  Forgets
<1>1. <<i, o>> \in (Chains \X Origins) \ permissionMap.granted
  BY HereTyped DEF MapOK
<1> QED
  BY <1>1 DEF RemoveOrigin, Forgets, maps

LEMMA ForgetsTyped ==
  ASSUME Typed, Forgets
  PROVE  Typed'
<1>1. MapsTyped' /\ HistoryTyped' /\ CallsGood'
  BY TypedParts DEF Forgets, MapsTyped, HistoryTyped, CallsGood, maps
<1> QED
  BY <1>1 DEF Typed, TypeOK, MapsTyped, HistoryTyped, CallsGood

LEMMA RestartTyped ==
  ASSUME Typed, Restart
  PROVE  Typed'
<1>1. CallsGood'
  BY IdleGood DEF Restart, CallsGood, GoodCall
<1>2. MapOK(stored.permissionMap) /\ stored.globalPermissionMap \subseteq Origins
  BY DEF Typed, TypeOK
<1>3. MapsTyped'
  BY <1>2, TypedParts DEF Restart, MapsTyped, MapOK, Live
<1>4. HistoryTyped'
  BY TypedParts DEF Restart, HistoryTyped
<1> QED
  BY <1>1, <1>3, <1>4 DEF Typed, TypeOK, MapsTyped, HistoryTyped, CallsGood

(* Every step has one of the shapes above.                                 *)
LEMMA StepShape ==
  ASSUME Typed, NEW c \in Calls, FromPage(c) \/ GoesOn(c) \/ FromUser(c)
  PROVE  \/ Quiet(c) \/ Adds(c) \/ AddsGlobal(c) \/ Takes(c) \/ TakesGlobal(c) \/ Skips(c)
         \/ SaveGlobal(c) \/ Return(c) \/ Forgets
         \/ DisableAll(c) /\ permissionMap.undefined # {}
<1>1. CASE FromPage(c)
  BY <1>1, PageQuiet
<1>2. CASE GoesOn(c)
  BY <1>2, GoesOnQuiet, DisableTakes, DisableAllTakes, DisableGlobalTakes DEF GoesOn
<1>3. CASE FromUser(c)
  <2>1. ASSUME NEW o \in Origins, RemoveGlobalOrigin(c, o) PROVE TakesGlobal(c)
    BY <2>1, RemoveGlobalOriginTakes
  <2>2. ASSUME NEW o \in Origins, NEW i \in Chains, AddOrigin(c, i, o) PROVE Adds(c)
    BY <2>2, AddOriginAdds
  <2>3. ASSUME NEW o \in Origins, NEW i \in Chains, RemoveOrigin(c, i, o) PROVE Takes(c) \/ Forgets
    BY <2>3, RemoveOriginTakes, RemoveOriginForgets
  <2>4. ASSUME NEW i \in Chains, RemoveChain(c, i) PROVE Takes(c)
    BY <2>4, RemoveChainTakes
  <2> QED
    BY <1>3, <2>1, <2>2, <2>3, <2>4, GoesOnQuiet, GrantAdds, GrantGlobalAdds DEF FromUser
<1> QED
  BY <1>1, <1>2, <1>3

LEMMA InitTyped == Init => Typed
<1> SUFFICES ASSUME Init PROVE Typed
  OBVIOUS
<1>1. MapOK(NoPermission) /\ NoPermission \in MapRecords /\ NoPermission.undefined = {}
  BY DEF NoPermission, MapOK, MapRecords, Live
<1>2. MapsTyped
  BY <1>1, ChainsAssumption DEF Init, MapsTyped
<1>3. CallsGood
  BY IdleGood DEF Init, CallsGood, GoodCall
<1>4. HistoryTyped
  BY DEF Init, HistoryTyped
<1> QED
  BY <1>2, <1>3, <1>4, TypedParts

LEMMA StepTyped == Typed /\ [Next]_vars => Typed'
<1> SUFFICES ASSUME Typed, [Next]_vars PROVE Typed'
  OBVIOUS
<1>1. CASE Restart
  BY <1>1, RestartTyped
<1>2. ASSUME NEW c \in Calls, FromPage(c) \/ GoesOn(c) \/ FromUser(c)
      PROVE  Typed'
  BY <1>2, StepShape, QuietTyped, AddsTyped, TakesTyped, SkipsTyped, SaveGlobalTyped, ReturnTyped,
     ForgetsTyped, DisableSomeTyped
<1>3. CASE UNCHANGED vars
  BY <1>3 DEF vars, maps, Typed, TypeOK, MapOK, Live
<1> QED
  BY <1>1, <1>2, <1>3 DEF Next

(* Type correctness of the permission service, for every set of calls,     *)
(* chains and origins: permissions are kept only under keys that are not   *)
(* undefined, in memory and in the store.                                  *)
THEOREM PermissionTypeCorrect == Spec => []TypeOK
<1>1. Typed => TypeOK
  BY DEF Typed
<1> QED
  BY <1>1, InitTyped, StepTyped, PTL DEF Spec

-----------------------------------------------------------------------------
(* Nobody holds what was not approved, and grants are kept, if no page     *)
(* disables everything after a chain was removed.                          *)

(* What a call has removed stays removed, and what it has granted is held. *)
CallSafe(r) ==
    /\ r.grants \subseteq Held
    /\ Done(r) \cap Held = {}
    /\ r.pc = "return" => r.revokes \cap StoredHeld = {}

Safe ==
    /\ stored.permissionMap = Saved(permissionMap)
    /\ OnlyWhatUserApproved
    /\ GrantIsKept
    /\ \A c \in Calls : CallSafe(call[c])

LEMMA GrantsIs ==
  ASSUME NEW map, MapOK(map), NEW global
  PROVE  Grants(map, global) = map.granted \cup ({Global} \X global)
  BY DEF Grants, MapOK

LEMMA HeldIs ==
  ASSUME Typed
  PROVE  /\ Held = permissionMap.granted \cup ({Global} \X globalPermissionMap)
         /\ StoredHeld = stored.permissionMap.granted \cup ({Global} \X stored.globalPermissionMap)
         /\ permissionMap.granted \subseteq Chains \X Origins
         /\ MapOK(permissionMap) /\ MapOK(stored.permissionMap)
  BY GrantsIs DEF Held, StoredHeld, Typed, TypeOK, MapOK, MapRecords

LEMMA HeldNext ==
  ASSUME Typed'
  PROVE  /\ Held' = permissionMap'.granted \cup ({Global} \X globalPermissionMap')
         /\ StoredHeld' = stored'.permissionMap.granted \cup ({Global} \X stored'.globalPermissionMap)
  BY GrantsIs DEF Held, StoredHeld, Typed, TypeOK

LEMMA SaveIs ==
  ASSUME Typed, NEW map, MapOK(map), Save(map)
  PROVE  /\ permissionMap' = map
         /\ stored'.permissionMap = Saved(permissionMap')
         /\ stored'.permissionMap.granted = map.granted
         /\ stored'.globalPermissionMap = stored.globalPermissionMap
  BY SavedTyped DEF Save, Typed, TypeOK

LEMMA StoredGranted ==
  ASSUME Typed, Safe
  PROVE  stored.permissionMap.granted = permissionMap.granted
  BY HeldIs, SavedTyped DEF Safe

LEMMA DoneLess ==
  ASSUME NEW r \in CallRecords, NEW items
  PROVE  /\ Done([r EXCEPT !.revokes = @ \ items]) = Done(r) \ items
         /\ Done([r EXCEPT !.grants = @ \ items]) = Done(r)
<1> DEFINE a == [r EXCEPT !.revokes = @ \ items]
           b == [r EXCEPT !.grants = @ \ items]
<1>1. /\ a.revokes = r.revokes \ items /\ b.revokes = r.revokes
      /\ a.pc = r.pc /\ b.pc = r.pc /\ a.then = r.then /\ b.then = r.then
      /\ a.left = r.left /\ b.left = r.left /\ a.origin = r.origin /\ b.origin = r.origin
  BY DEF CallRecords
<1> HIDE DEF a, b
<1>2. Undone(a) = Undone(r) /\ Undone(b) = Undone(r)
  BY <1>1 DEF Undone, Stage
<1> QED
  BY <1>1, <1>2 DEF Done, a, b

(* CallSafe of a record after the step.                                    *)
SafeNext(r) ==
    /\ r.grants \subseteq Held'
    /\ Done(r) \cap Held' = {}
    /\ r.pc = "return" => r.revokes \cap StoredHeld' = {}

LEMMA NextIsSafe ==
  ASSUME \A d \in Calls : SafeNext(call'[d])
  PROVE  (\A d \in Calls : CallSafe(call[d]))'
  BY DEF SafeNext, CallSafe, Done, Undone, Stage

LEMMA ApprovesSafe ==
  ASSUME Typed, Safe, NEW c \in Calls, NEW r, NEW items, Approves(c, r, items),
         r.grants \subseteq Held', r.revokes = {},
         Held' = Held \cup items, StoredHeld' \subseteq StoredHeld \cup items
  PROVE  (\A d \in Calls : CallSafe(call[d]))'
<1>1. SafeNext(r)
  BY DEF SafeNext, Done
<1>2. ASSUME NEW d \in Calls
      PROVE  SafeNext([call[d] EXCEPT !.revokes = @ \ items])
  <2> DEFINE s == [call[d] EXCEPT !.revokes = @ \ items]
  <2>1. s.grants = call[d].grants /\ s.pc = call[d].pc /\ s.revokes = call[d].revokes \ items
    BY LocalsHere DEF CallRecords
  <2>2. Done(s) = Done(call[d]) \ items
    BY LocalsHere, DoneLess
  <2>3. CallSafe(call[d])
    BY DEF Safe
  <2> HIDE DEF s
  <2>4. SafeNext(s)
    BY <2>1, <2>2, <2>3 DEF CallSafe, SafeNext
  <2> QED
    BY <2>4 DEF s
<1>3. ASSUME NEW d \in Calls
      PROVE  SafeNext(call'[d])
  BY <1>1, <1>2 DEF Approves
<1> QED
  BY <1>3, NextIsSafe

LEMMA RemovesSafe ==
  ASSUME Typed, Safe, NEW c \in Calls, NEW r, NEW items, Removes(c, r, items),
         r.grants = {}, r.pc # "return", Done(r) \cap Held' = {},
         Held' = Held \ items, StoredHeld' \subseteq StoredHeld
  PROVE  (\A d \in Calls : CallSafe(call[d]))'
<1>1. SafeNext(r)
  BY DEF SafeNext
<1>2. ASSUME NEW d \in Calls
      PROVE  SafeNext([call[d] EXCEPT !.grants = @ \ items])
  <2> DEFINE s == [call[d] EXCEPT !.grants = @ \ items]
  <2>1. s.grants = call[d].grants \ items /\ s.pc = call[d].pc /\ s.revokes = call[d].revokes
    BY LocalsHere DEF CallRecords
  <2>2. Done(s) = Done(call[d])
    BY LocalsHere, DoneLess
  <2>3. CallSafe(call[d])
    BY DEF Safe
  <2> HIDE DEF s
  <2>4. SafeNext(s)
    BY <2>1, <2>2, <2>3 DEF CallSafe, SafeNext
  <2> QED
    BY <2>4 DEF s
<1>3. ASSUME NEW d \in Calls
      PROVE  SafeNext(call'[d])
  BY <1>1, <1>2 DEF Removes
<1> QED
  BY <1>3, NextIsSafe

LEMMA GoesSafe ==
  ASSUME Typed, Safe, NEW c \in Calls, NEW r, Goes(c, r), SafeNext(r),
         Held' = Held, StoredHeld' \subseteq StoredHeld \/ StoredHeld' \subseteq Held,
         \A d \in Calls : call[d].pc = "return" => call[d].revokes \cap Held = {}
  PROVE  (\A d \in Calls : CallSafe(call[d]))'
<1>1. ASSUME NEW d \in Calls
      PROVE  SafeNext(call[d])
  BY DEF Safe, CallSafe, SafeNext
<1>2. ASSUME NEW d \in Calls
      PROVE  SafeNext(call'[d])
  BY <1>1 DEF Goes, Typed, TypeOK
<1> QED
  BY <1>2, NextIsSafe

LEMMA ReturnDone ==
  ASSUME Typed, Safe, NEW d \in Calls, call[d].pc = "return"
  PROVE  Done(call[d]) = call[d].revokes /\ call[d].revokes \cap (Held \cup StoredHeld) = {}
  BY DEF Safe, CallSafe, Done, Undone, Stage

-----------------------------------------------------------------------------
(* Each shape of a step keeps Safe.                                        *)
LEMMA QuietSafe ==
  ASSUME Typed, Safe, NEW c \in Calls, Quiet(c), Typed'
  PROVE  Safe'
<1>1. Held' = Held /\ StoredHeld' = StoredHeld /\ UNCHANGED <<permissionMap, stored, approved, kept>>
  BY DEF Quiet, maps, Held, StoredHeld, Grants, Live
<1>2. (\A d \in Calls : CallSafe(call[d]))'
  BY <1>1, GoesSafe, ReturnDone DEF Quiet, SafeNext, Done
<1> QED
  BY <1>1, <1>2 DEF Safe, OnlyWhatUserApproved, GrantIsKept, Saved, Live

LEMMA AddsSafe ==
  ASSUME Typed, Safe, NEW c \in Calls, Adds(c), Typed'
  PROVE  Safe'
<1>1. PICK map, r, items :
        /\ MapOK(map) /\ map.granted = permissionMap.granted \cup items
        /\ Save(map) /\ Approves(c, r, items)
        /\ r.grants = items /\ r.revokes = {}
        /\ UNCHANGED <<globalPermissionMap, registered, kept>>
  BY DEF Adds
<1>2. /\ stored'.permissionMap = Saved(permissionMap')
      /\ permissionMap'.granted = permissionMap.granted \cup items
      /\ stored'.permissionMap.granted = permissionMap.granted \cup items
      /\ stored'.globalPermissionMap = stored.globalPermissionMap
  BY <1>1, SaveIs
<1>3. Held' = Held \cup items /\ StoredHeld' = StoredHeld \cup items
  BY <1>1, <1>2, HeldIs, HeldNext, StoredGranted
<1>4. (\A d \in Calls : CallSafe(call[d]))'
  BY <1>1, <1>3, ApprovesSafe
<1>5. OnlyWhatUserApproved' /\ GrantIsKept'
  BY <1>1, <1>3 DEF Safe, OnlyWhatUserApproved, GrantIsKept, Approves
<1>6. (stored.permissionMap = Saved(permissionMap))'
  BY <1>2 DEF Saved, Live
<1> QED
  BY <1>4, <1>5, <1>6 DEF Safe

LEMMA GlobalItems ==
  ASSUME NEW global, NEW o
  PROVE  /\ {Global} \X (global \cup {o}) = ({Global} \X global) \cup {<<Global, o>>}
         /\ {Global} \X (global \ {o}) = ({Global} \X global) \ {<<Global, o>>}
<1>1. \A x, y : <<Global, x>> = <<Global, y>> <=> x = y
  OBVIOUS
<1> QED
  BY <1>1

LEMMA AddsGlobalSafe ==
  ASSUME Typed, Safe, NEW c \in Calls, AddsGlobal(c), Typed'
  PROVE  Safe'
<1>0. PICK o \in Origins : \E r :
        /\ globalPermissionMap' = globalPermissionMap \cup {o}
        /\ Save(permissionMap) /\ Approves(c, r, {<<Global, o>>})
        /\ r.grants = {<<Global, o>>} /\ r.revokes = {}
        /\ UNCHANGED <<registered, kept>>
  BY DEF AddsGlobal
<1>1. PICK r :
        /\ globalPermissionMap' = globalPermissionMap \cup {o}
        /\ Save(permissionMap) /\ Approves(c, r, {<<Global, o>>})
        /\ r.grants = {<<Global, o>>} /\ r.revokes = {}
        /\ UNCHANGED <<registered, kept>>
  BY <1>0
<1> DEFINE items == {<<Global, o>>}
<1>2. /\ stored'.permissionMap = Saved(permissionMap')
      /\ permissionMap'.granted = permissionMap.granted
      /\ stored'.permissionMap.granted = permissionMap.granted
      /\ stored'.globalPermissionMap = stored.globalPermissionMap
  BY <1>1, SaveIs, HeldIs
<1>3. Held' = Held \cup items /\ StoredHeld' = StoredHeld
  <2>1. {Global} \X globalPermissionMap' = ({Global} \X globalPermissionMap) \cup items
    BY <1>1, GlobalItems
  <2> HIDE DEF items
  <2> QED
    BY <2>1, <1>2, HeldIs, HeldNext, StoredGranted
<1>4. (\A d \in Calls : CallSafe(call[d]))'
  BY <1>1, <1>3, ApprovesSafe
<1>5. OnlyWhatUserApproved' /\ GrantIsKept'
  BY <1>1, <1>3 DEF Safe, OnlyWhatUserApproved, GrantIsKept, Approves
<1>6. (stored.permissionMap = Saved(permissionMap))'
  BY <1>2 DEF Saved, Live
<1> QED
  BY <1>4, <1>5, <1>6 DEF Safe

LEMMA TakesSafe ==
  ASSUME Typed, Safe, NEW c \in Calls, Takes(c), Typed'
  PROVE  Safe'
<1>1. PICK map, r, items :
        /\ MapOK(map) /\ map.granted = permissionMap.granted \ items
        /\ items \subseteq Chains \X Origins
        /\ Save(map) /\ Removes(c, r, items)
        /\ r.grants = {} /\ r.pc = "saveGlobal"
        /\ Done(r) \subseteq Done(call[c]) \cup items \cup ((Chains \X Origins) \ permissionMap.granted)
        /\ UNCHANGED <<globalPermissionMap, approved>>
  BY DEF Takes
<1>2. /\ stored'.permissionMap = Saved(permissionMap')
      /\ permissionMap'.granted = permissionMap.granted \ items
      /\ stored'.permissionMap.granted = permissionMap.granted \ items
      /\ stored'.globalPermissionMap = stored.globalPermissionMap
  BY <1>1, SaveIs
<1>3. Held' = Held \ items /\ StoredHeld' = StoredHeld \ items
  BY <1>1, <1>2, HeldIs, HeldNext, HereTyped, StoredGranted
<1>4. Done(r) \cap Held' = {}
  <2>1. Done(call[c]) \cap Held = {}
    BY DEF Safe, CallSafe
  <2>2. ((Chains \X Origins) \ permissionMap.granted) \cap Held = {}
    BY HeldIs, HereTyped
  <2> QED
    BY <1>1, <1>3, <2>1, <2>2
<1>5. (\A d \in Calls : CallSafe(call[d]))'
  BY <1>1, <1>3, <1>4, RemovesSafe
<1>6. OnlyWhatUserApproved' /\ GrantIsKept'
  BY <1>1, <1>3 DEF Safe, OnlyWhatUserApproved, GrantIsKept, Removes
<1>7. (stored.permissionMap = Saved(permissionMap))'
  BY <1>2 DEF Saved, Live
<1> QED
  BY <1>5, <1>6, <1>7 DEF Safe

LEMMA TakesGlobalSafe ==
  ASSUME Typed, Safe, NEW c \in Calls, TakesGlobal(c), Typed'
  PROVE  Safe'
<1>1. PICK o \in Origins : \E r :
        /\ globalPermissionMap' = globalPermissionMap \ {o}
        /\ Save(permissionMap) /\ Removes(c, r, {<<Global, o>>})
        /\ r.grants = {} /\ r.pc = "saveGlobal"
        /\ Done(r) \subseteq Done(call[c]) \cup {<<Global, o>>}
        /\ UNCHANGED <<registered, approved>>
  BY DEF TakesGlobal
<1> DEFINE items == {<<Global, o>>}
<1>2. PICK r :
        /\ globalPermissionMap' = globalPermissionMap \ {o}
        /\ Save(permissionMap) /\ Removes(c, r, items)
        /\ r.grants = {} /\ r.pc = "saveGlobal"
        /\ Done(r) \subseteq Done(call[c]) \cup items
        /\ UNCHANGED <<registered, approved>>
  BY <1>1
<1>3. /\ stored'.permissionMap = Saved(permissionMap')
      /\ permissionMap'.granted = permissionMap.granted
      /\ stored'.permissionMap.granted = permissionMap.granted
      /\ stored'.globalPermissionMap = stored.globalPermissionMap
  BY <1>2, SaveIs, HeldIs
<1>4. Held' = Held \ items /\ StoredHeld' = StoredHeld
  <2>1. {Global} \X globalPermissionMap' = ({Global} \X globalPermissionMap) \ items
    BY <1>2, GlobalItems
  <2>2. permissionMap.granted \cap items = {}
    BY HeldIs, ChainsAssumption
  <2> HIDE DEF items
  <2> QED
    BY <2>1, <2>2, <1>3, HeldIs, HeldNext, StoredGranted
<1>5. Done(r) \cap Held' = {}
  BY <1>2, <1>4 DEF Safe, CallSafe
<1>6. (\A d \in Calls : CallSafe(call[d]))'
  BY <1>2, <1>4, <1>5, RemovesSafe
<1>7. OnlyWhatUserApproved' /\ GrantIsKept'
  BY <1>2, <1>4 DEF Safe, OnlyWhatUserApproved, GrantIsKept, Removes
<1>8. (stored.permissionMap = Saved(permissionMap))'
  BY <1>3 DEF Saved, Live
<1> QED
  BY <1>6, <1>7, <1>8 DEF Safe

LEMMA SkipsSafe ==
  ASSUME Typed, Safe, NEW c \in Calls, Skips(c), Typed'
  PROVE  Safe'
<1>1. Held' = Held /\ StoredHeld' = StoredHeld /\ UNCHANGED <<permissionMap, stored, approved, kept>>
  BY DEF Skips, maps, Held, StoredHeld, Grants, Live
<1>2. PICK r :
        /\ Goes(c, r) /\ r.grants = {}
        /\ r.pc = "return" => r.revokes \subseteq Chains \X Origins
        /\ Done(r) \subseteq Done(call[c]) \cup ((Chains \X Origins) \ permissionMap.granted)
  BY DEF Skips
<1>3. Done(r) \cap Held = {}
  <2>1. Done(call[c]) \cap Held = {}
    BY DEF Safe, CallSafe
  <2>2. ((Chains \X Origins) \ permissionMap.granted) \cap Held = {}
    BY HeldIs, HereTyped
  <2> QED
    BY <1>2, <2>1, <2>2
<1>4. r.pc = "return" => r.revokes \cap StoredHeld = {}
  <2>1. (Chains \X Origins) \cap StoredHeld \subseteq Held
    BY HeldIs, HereTyped, StoredGranted
  <2>2. r.pc = "return" => Done(r) = r.revokes
    BY DEF Done, Undone, Stage
  <2> QED
    BY <1>2, <1>3, <2>1, <2>2
<1>5. SafeNext(r)
  BY <1>1, <1>2, <1>3, <1>4 DEF SafeNext
<1>6. (\A d \in Calls : CallSafe(call[d]))'
  BY <1>1, <1>2, <1>5, GoesSafe, ReturnDone
<1> QED
  BY <1>1, <1>6 DEF Safe, OnlyWhatUserApproved, GrantIsKept, Saved, Live

LEMMA SaveGlobalSafe ==
  ASSUME Typed, Safe, NEW c \in Calls, SaveGlobal(c), Typed'
  PROVE  Safe'
<1> DEFINE r == [call[c] EXCEPT !.pc = call[c].then, !.then = "idle", !.grants = {}]
<1>1. /\ Goes(c, r) /\ call[c].pc = "saveGlobal" /\ kept' = kept \cup call[c].grants
      /\ UNCHANGED <<permissionMap, globalPermissionMap, approved>>
  BY DEF SaveGlobal, maps
<1>2. /\ stored'.permissionMap = stored.permissionMap
      /\ stored'.globalPermissionMap = globalPermissionMap
  BY DEF SaveGlobal, Typed, TypeOK
<1>3. Held' = Held /\ StoredHeld' = Held
  BY <1>1, <1>2, HeldIs, HeldNext, StoredGranted
<1>4. /\ r.pc = call[c].then /\ r.grants = {} /\ r.revokes = call[c].revokes
      /\ r.left = call[c].left /\ r.origin = call[c].origin
  BY LocalsHere DEF CallRecords
<1>5. call[c].then # "saveGlobal" /\ CallSafe(call[c])
  BY LocalsHere DEF CallRecords, Safe
<1> HIDE DEF r
<1>6. Done(r) = Done(call[c])
  BY <1>1, <1>4, <1>5 DEF Done, Undone, Stage
<1>7. r.pc = "return" => Done(r) = r.revokes
  BY DEF Done, Undone, Stage
<1>8. SafeNext(r)
  BY <1>3, <1>4, <1>5, <1>6, <1>7 DEF SafeNext, CallSafe
<1>9. (\A d \in Calls : CallSafe(call[d]))'
  BY <1>1, <1>3, <1>8, GoesSafe, ReturnDone
<1>10. OnlyWhatUserApproved' /\ GrantIsKept'
  BY <1>1, <1>3, <1>5 DEF Safe, CallSafe, OnlyWhatUserApproved, GrantIsKept
<1>11. (stored.permissionMap = Saved(permissionMap))'
  BY <1>1, <1>2 DEF Safe, Saved, Live
<1> QED
  BY <1>9, <1>10, <1>11 DEF Safe

LEMMA ReturnSafe ==
  ASSUME Typed, Safe, NEW c \in Calls, Return(c), Typed'
  PROVE  Safe'
<1>1. /\ Goes(c, Idle) /\ call[c].pc = "return" /\ approved' = approved \ call[c].revokes
      /\ UNCHANGED <<permissionMap, globalPermissionMap, stored, kept>>
  BY DEF Return, maps
<1>2. Held' = Held /\ StoredHeld' = StoredHeld
  BY <1>1 DEF Held, StoredHeld, Grants, Live
<1>3. call[c].revokes \cap (Held \cup StoredHeld) = {}
  BY <1>1, ReturnDone
<1>4. SafeNext(Idle)
  BY IdleQuiet DEF SafeNext, Done
<1>5. (\A d \in Calls : CallSafe(call[d]))'
  BY <1>1, <1>2, <1>4, GoesSafe, ReturnDone
<1>6. OnlyWhatUserApproved' /\ GrantIsKept'
  BY <1>1, <1>2, <1>3 DEF Safe, OnlyWhatUserApproved, GrantIsKept
<1> QED
  BY <1>1, <1>5, <1>6 DEF Safe, Saved, Live

LEMMA ForgetsSafe ==
  ASSUME Typed, Safe, Forgets
  PROVE  Safe'
<1>1. PICK items \in SUBSET ((Chains \X Origins) \ permissionMap.granted) : approved' = approved \ items
  BY DEF Forgets
<1>2. UNCHANGED <<permissionMap, globalPermissionMap, stored, call, kept>>
  BY DEF Forgets, maps
<1>3. Held' = Held /\ StoredHeld' = StoredHeld
  BY <1>2 DEF Held, StoredHeld, Grants, Live
<1>4. items \cap (Held \cup StoredHeld) = {}
  BY HeldIs, HereTyped, StoredGranted
<1>5. OnlyWhatUserApproved' /\ GrantIsKept'
  BY <1>1, <1>2, <1>3, <1>4 DEF Safe, OnlyWhatUserApproved, GrantIsKept
<1>6. (\A d \in Calls : CallSafe(call[d]))'
  BY <1>2, <1>3 DEF Safe, CallSafe, Done, Undone, Stage
<1> QED
  BY <1>2, <1>5, <1>6 DEF Safe, Saved, Live

LEMMA RestartSafe ==
  ASSUME Typed, Safe, Restart, Typed'
  PROVE  Safe'
<1>1. /\ permissionMap' = stored.permissionMap /\ globalPermissionMap' = stored.globalPermissionMap
      /\ call' = [d \in Calls |-> Idle]
      /\ UNCHANGED <<stored, approved, kept>>
  BY DEF Restart
<1>2. Held' = StoredHeld /\ StoredHeld' = StoredHeld
  BY <1>1, HeldIs, HeldNext
<1>3. SafeNext(Idle)
  BY IdleQuiet DEF SafeNext, Done
<1>4. (\A d \in Calls : CallSafe(call[d]))'
  BY <1>1, <1>3, NextIsSafe
<1>5. OnlyWhatUserApproved' /\ GrantIsKept'
  BY <1>1, <1>2 DEF Safe, OnlyWhatUserApproved, GrantIsKept
<1>6. Saved(stored.permissionMap) = stored.permissionMap
  BY HeldIs, SavedTyped DEF Safe
<1>7. (stored.permissionMap = Saved(permissionMap))'
  BY <1>1, <1>6 DEF Saved, Live
<1> QED
  BY <1>4, <1>5, <1>7 DEF Safe

LEMMA InitSafe == Init => Safe
<1> SUFFICES ASSUME Init PROVE Safe
  OBVIOUS
<1>1. Saved(NoPermission) = NoPermission
  BY DEF Saved, NoPermission, Live
<1>2. Held = {} /\ StoredHeld = {}
  BY DEF Init, Held, StoredHeld, Grants, NoPermission, Live
<1>3. CallSafe(Idle)
  BY IdleQuiet DEF CallSafe, Done
<1> QED
  BY <1>1, <1>2, <1>3 DEF Init, Safe, OnlyWhatUserApproved, GrantIsKept

LEMMA StepSafe ==
  ASSUME DisableAfterRemoval = FALSE
  PROVE  Typed /\ Safe /\ [Next]_vars => Safe'
<1> SUFFICES ASSUME Typed, Safe, [Next]_vars PROVE Safe'
  OBVIOUS
<1>1. Typed'
  BY StepTyped
<1>2. CASE Restart
  BY <1>1, <1>2, RestartSafe
<1>3. ASSUME NEW c \in Calls, FromPage(c) \/ GoesOn(c) \/ FromUser(c)
      PROVE  Safe'
  <2>1. DisableAll(c) => permissionMap.undefined = {}
    BY DEF DisableAll
  <2> QED
    BY <1>1, <1>3, <2>1, StepShape, QuietSafe, AddsSafe, AddsGlobalSafe, TakesSafe, TakesGlobalSafe,
       SkipsSafe, SaveGlobalSafe, ReturnSafe, ForgetsSafe
<1>4. CASE UNCHANGED vars
  <2>1. UNCHANGED <<permissionMap, globalPermissionMap, stored, call, approved, kept>>
    BY <1>4 DEF vars, maps
  <2>2. Held' = Held /\ StoredHeld' = StoredHeld
    BY <2>1 DEF Held, StoredHeld, Grants, Live
  <2>3. (\A d \in Calls : CallSafe(call[d]))'
    BY <2>1, <2>2 DEF Safe, CallSafe, Done, Undone, Stage
  <2> QED
    BY <2>1, <2>2, <2>3 DEF Safe, OnlyWhatUserApproved, GrantIsKept, Saved, Live
<1> QED
  BY <1>2, <1>3, <1>4 DEF Next

(* However many calls overlap and the background restarts, no origin holds *)
(* a permission that the user did not approve, in memory or in the store:  *)
(* if no page disables everything after a chain was removed.               *)
THEOREM HoldersAreApproved ==
  ASSUME DisableAfterRemoval = FALSE
  PROVE  Spec => []OnlyWhatUserApproved
<1>1. Init => Typed /\ Safe
  BY InitTyped, InitSafe
<1>2. Typed /\ Safe /\ [Next]_vars => (Typed /\ Safe)'
  BY StepTyped, StepSafe
<1>3. Safe => OnlyWhatUserApproved
  BY DEF Safe
<1> QED
  BY <1>1, <1>2, <1>3, PTL DEF Spec

(* Under the same condition a grant whose save() has returned is held and  *)
(* stored until it is removed.                                             *)
THEOREM GrantsAreKept ==
  ASSUME DisableAfterRemoval = FALSE
  PROVE  Spec => []GrantIsKept
<1>1. Init => Typed /\ Safe
  BY InitTyped, InitSafe
<1>2. Typed /\ Safe /\ [Next]_vars => (Typed /\ Safe)'
  BY StepTyped, StepSafe
<1>3. Safe => GrantIsKept
  BY DEF Safe
<1> QED
  BY <1>1, <1>2, <1>3, PTL DEF Spec
=============================================================================
