---------------------------- MODULE Interaction ----------------------------
(***************************************************************************)
(* The approval dialogs of the extension: InteractionService in the        *)
(* background (waitingMap, resolverMap), the way a request takes to a page *)
(* (the queue of popup openings, the popup window, the side panel), the    *)
(* InteractionStore of that page and what its pages do with it.            *)
(*                                                                         *)
(* External requests come from web pages and are shown in the one popup    *)
(* window of their channel; internal ones come from the wallet's own side  *)
(* panel and are shown there.                                              *)
(***************************************************************************)
EXTENDS Naturals, Sequences, FiniteSets

CONSTANTS
    Requests,       \* the ids that the random generator gives
    KindOf,         \* the type of a request, and the page that shows it
    Internal,       \* the requests of the side panel
    MaxOutstanding, \* how many requests may wait at a time
    Calm            \* users and web pages wait for what is under way

Kinds == {"request-sign", "permission", "unlock"}
Pages == {"popup", "panel"}
Verdicts == {"approve", "reject"}
PageOf(r) == IF r \in Internal THEN "panel" ELSE "popup"

(* The wallet's own pages ask for signatures; permissions are not asked of *)
(* them, and they are not shown while the wallet is locked.                *)
ASSUME RequestsAssumption ==
    /\ KindOf \in [Requests -> Kinds]
    /\ Internal \subseteq {r \in Requests : KindOf[r] = "request-sign"}
    /\ MaxOutstanding \in Nat
    /\ Calm \in BOOLEAN

VARIABLES
    waitingMap,     \* the background's requests
    resolverMap,    \* those whose promise is not settled
    answer,         \* the promise of each request
    mail,           \* what the pages sent about a request and is not handled
    stage,          \* how far requestInteraction() has come
    queue,          \* openPopupQueue
    route,          \* what a page shows
    loaded,         \* its tab is complete
    datas,          \* its InteractionStore
    sweeps,         \* its loops over several requests
    signing,        \* requests whose approval waits for the end of the signing
    closer,         \* requests after whose verdict the popup may close itself
    decision        \* what was sent first about a request (history)

background == <<waitingMap, resolverMap, answer>>
sent == <<mail, decision>>
env == <<stage, queue>>
tab == <<route, loaded>>
vars == <<background, sent, env, tab, datas, sweeps, signing, closer>>

Elements(list) == {list[i] : i \in DOMAIN list}

(* Array.remove() of the store.                                            *)
Without(list, r) ==
    IF r \notin Elements(list) THEN list
    ELSE LET at == CHOOSE i \in DOMAIN list : list[i] = r
         IN  [i \in 1..(Len(list) - 1) |-> IF i < at THEN list[i] ELSE list[i + 1]]

Shown(p) == IF route[p] \in Kinds THEN datas[p][route[p]] ELSE <<>>
RemoveData(p, r) == datas' = [datas EXCEPT ![p][KindOf[r]] = Without(@, r)]

Init ==
    /\ waitingMap = {} /\ resolverMap = {}
    /\ answer = [r \in Requests |-> "unasked"]
    /\ mail = [r \in Requests |-> <<>>]
    /\ stage = [r \in Requests |-> "idle"]
    /\ queue = <<>>
    /\ route = [p \in Pages |-> IF p = "panel" THEN "home" ELSE "closed"]
    /\ loaded = [p \in Pages |-> p = "panel"]
    /\ datas = [p \in Pages |-> [k \in Kinds |-> <<>>]]
    /\ sweeps = [p \in Pages |-> {}]
    /\ signing = {} /\ closer = {}
    /\ decision = [r \in Requests |-> "none"]

-----------------------------------------------------------------------------
(* The background.                                                         *)
WaitApprove(r) ==
    /\ stage[r] = "idle"
    /\ r \in Internal => route["panel"] # "closed"
    /\ Cardinality(resolverMap) < MaxOutstanding
    /\ Calm => signing = {} /\ \A x \in closer : KindOf[x] = "unlock"
    /\ waitingMap' = waitingMap \cup {r}
    /\ resolverMap' = resolverMap \cup {r}
    /\ answer' = [answer EXCEPT ![r] = "pending"]
    /\ IF r \in Internal
       THEN stage' = [stage EXCEPT ![r] = "replacing"] /\ UNCHANGED queue
       ELSE stage' = [stage EXCEPT ![r] = "queued"] /\ queue' = Append(queue, r)
    /\ UNCHANGED <<sent, tab, datas, sweeps, signing, closer>>

LastVerdictWins(r) ==
    /\ mail[r] # <<>>
    /\ mail' = [mail EXCEPT ![r] = Tail(@)]
    /\ answer' = [answer EXCEPT ![r] = Head(mail[r])]
    /\ resolverMap' = resolverMap \ {r}
    /\ waitingMap' = waitingMap \ {r}
    /\ UNCHANGED <<env, tab, datas, sweeps, signing, closer, decision>>

(* approve() and reject(): only the first finds a resolver.                *)
ApproveOrReject(r) ==
    /\ mail[r] # <<>>
    /\ mail' = [mail EXCEPT ![r] = Tail(@)]
    /\ answer' = IF r \in resolverMap THEN [answer EXCEPT ![r] = Head(mail[r])] ELSE answer
    /\ resolverMap' = resolverMap \ {r}
    /\ waitingMap' = waitingMap \ {r}
    /\ UNCHANGED <<env, tab, datas, sweeps, signing, closer, decision>>

-----------------------------------------------------------------------------
(* A page sends a verdict; the first one decides (history).                *)
Send(r, v) ==
    /\ mail' = [mail EXCEPT ![r] = Append(@, v)]
    /\ decision' = [decision EXCEPT ![r] = IF @ = "none" THEN v ELSE @]

(* A loop of page p over `list`: the first message is sent at once, the    *)
(* next ones after each reply.                                             *)
Sweep(p, v, list) ==
    IF list = <<>> THEN UNCHANGED <<datas, sweeps, sent>>
    ELSE /\ RemoveData(p, Head(list))
         /\ sweeps' = [sweeps EXCEPT ![p] = @ \cup {[verdict |-> v, left |-> list]}]
         /\ Send(Head(list), v)

SweepEnds(p, s) ==
    /\ sweeps' = [sweeps EXCEPT ![p] = @ \ {s}]
    /\ closer' = IF s.verdict = "approve" THEN closer \cup {Head(s.left)} ELSE closer
    /\ UNCHANGED <<datas, sent>>

SweepGoesOn(p, s) ==
    LET rest == Tail(s.left)
    IN  /\ sweeps' = [sweeps EXCEPT ![p] = (@ \ {s}) \cup {[s EXCEPT !.left = rest]}]
        /\ RemoveData(p, Head(rest))
        /\ Send(Head(rest), s.verdict)
        /\ UNCHANGED closer

SweepNeverEnds(p) ==
    /\ \E s \in sweeps[p] :
        /\ mail[Head(s.left)] = <<>>
        /\ sweeps' = [sweeps EXCEPT ![p] = (@ \ {s}) \cup {[s EXCEPT !.left = Tail(@)]}]
        /\ UNCHANGED <<datas, sent, closer>>
    /\ UNCHANGED <<background, env, tab, signing>>

SweepNext(p) ==
    /\ \E s \in sweeps[p] :
        /\ mail[Head(s.left)] = <<>>
        /\ IF Tail(s.left) = <<>> THEN SweepEnds(p, s) ELSE SweepGoesOn(p, s)
    /\ UNCHANGED <<background, env, tab, signing>>

(* Another page is shown: the one shown before rejects what it showed.     *)
FocusOnly(p, kind) ==
    /\ route' = [route EXCEPT ![p] = IF @ = "closed" THEN kind ELSE @]
    /\ UNCHANGED <<datas, sweeps, sent>>

Show(p, kind) ==
    /\ route' = [route EXCEPT ![p] = kind]
    /\ Sweep(p, "reject", IF route[p] = kind THEN <<>> ELSE Shown(p))

(* The page goes: its clean-up starts to reject the requests in `shown`,   *)
(* and nothing that it still had to do is done.                            *)
Vanish(p, shown) ==
    /\ route' = [route EXCEPT ![p] = "closed"]
    /\ loaded' = [loaded EXCEPT ![p] = FALSE]
    /\ datas' = [datas EXCEPT ![p] = [k \in Kinds |-> <<>>]]
    /\ sweeps' = [sweeps EXCEPT ![p] = {}]
    /\ signing' = {r \in signing : PageOf(r) # p}
    /\ closer' = {r \in closer : PageOf(r) # p}
    /\ stage' = [r \in Requests |->
                    IF PageOf(r) = p /\ stage[r] \in {"opened", "replacing"} THEN "failed"
                    ELSE stage[r]]
    /\ IF shown = <<>> THEN UNCHANGED sent
       ELSE Send(Head(shown), "reject")

-----------------------------------------------------------------------------
(* The way to the page.                                                    *)
OpenWindow ==
    /\ queue # <<>>
    /\ stage' = [stage EXCEPT ![Head(queue)] = "opened"]
    /\ Show("popup", KindOf[Head(queue)])
    /\ queue' = Tail(queue)
    /\ UNCHANGED <<background, loaded, signing, closer>>

ReplacePage(r) ==
    /\ stage[r] = "replacing"
    /\ stage' = [stage EXCEPT ![r] = "opened"]
    /\ Show("panel", KindOf[r])
    /\ UNCHANGED <<background, queue, loaded, signing, closer>>

TabComplete(p) ==
    /\ route[p] # "closed" /\ ~loaded[p]
    /\ loaded' = [loaded EXCEPT ![p] = TRUE]
    /\ UNCHANGED <<background, sent, env, route, datas, sweeps, signing, closer>>

(* onInteractionDataReceived(), and the autorun of the sign store, which   *)
(* rejects every request but the first.                                    *)
PushData(r) ==
    LET p == PageOf(r)
        second == KindOf[r] = "request-sign" /\ datas[p]["request-sign"] # <<>>
    IN  /\ stage[r] = "opened" /\ loaded[p]
        /\ stage' = [stage EXCEPT ![r] = "delivered"]
        /\ IF second
           THEN Send(r, "reject") /\ UNCHANGED datas
           ELSE /\ datas' = [datas EXCEPT ![p][KindOf[r]] = Append(@, r)]
                /\ UNCHANGED sent
        /\ UNCHANGED <<background, queue, tab, sweeps, signing, closer>>

-----------------------------------------------------------------------------
(* The user, in front of page p.                                           *)
Approve(p) ==
    /\ route[p] = "request-sign" /\ Shown(p) # <<>>
    /\ LET r == Head(Shown(p))
       IN  /\ r \notin signing
           /\ signing' = signing \cup {r}
           /\ Send(r, "approve")
    /\ UNCHANGED <<background, env, tab, datas, sweeps, closer>>

(* request-sign-end arrives: the data goes, and the popup closes itself.   *)
SignEnds(r) ==
    /\ r \in signing /\ answer[r] = "approve"
    /\ IF PageOf(r) = "popup"
       THEN /\ Vanish("popup", IF route["popup"] = "request-sign" THEN Without(Shown("popup"), r)
                               ELSE Shown("popup"))
            /\ UNCHANGED queue
       ELSE /\ RemoveData("panel", r)
            /\ signing' = signing \ {r}
            /\ UNCHANGED <<env, sent, tab, sweeps, closer>>
    /\ UNCHANGED background

GrantOrDeny(p, v) ==
    /\ route[p] = "permission" /\ Shown(p) # <<>>
    /\ LET r == Head(Shown(p))
       IN  /\ RemoveData(p, r)
           /\ closer' = closer \cup {r}
           /\ Send(r, v)
    /\ UNCHANGED <<background, env, tab, sweeps, signing>>

(* The right password: every request to unlock is approved.                *)
Unlock(p) ==
    /\ route[p] = "unlock" /\ Shown(p) # <<>>
    /\ Sweep(p, "approve", Shown(p))
    /\ UNCHANGED <<background, env, tab, signing, closer>>

(* After the reply to the verdict the popup closes itself: the access page *)
(* when it has no more requests, the lock page if it is still shown.       *)
ClosesItself(r) ==
    /\ r \in closer /\ mail[r] = <<>>
    /\ IF KindOf[r] = "unlock" THEN route["popup"] = "unlock"
       ELSE datas["popup"]["permission"] = <<>>
    /\ Vanish("popup", Shown("popup"))
    /\ UNCHANGED <<background, queue>>

StaysOpen(r) ==
    /\ r \in closer /\ mail[r] = <<>>
    /\ IF KindOf[r] = "unlock" THEN route["popup"] # "unlock"
       ELSE datas["popup"]["permission"] # <<>>
    /\ closer' = closer \ {r}
    /\ UNCHANGED <<background, sent, env, tab, datas, sweeps, signing>>

Arriving(p) == \E r \in Requests : PageOf(r) = p /\ stage[r] \in {"queued", "opened", "replacing"}

CloseWindow(p) ==
    /\ route[p] # "closed"
    /\ Calm => ~Arriving(p) /\ sweeps[p] = {} /\ Len(Shown(p)) <= 1
    /\ Vanish(p, Shown(p))
    /\ UNCHANGED <<background, queue>>

Leave(p) ==
    /\ route[p] \in Kinds /\ loaded[p]
    /\ Calm => ~Arriving(p)
    /\ Show(p, "home")
    /\ UNCHANGED <<background, env, loaded, signing, closer>>

-----------------------------------------------------------------------------
Service == \E r \in Requests : WaitApprove(r) \/ ApproveOrReject(r)

Arrive ==
    \/ OpenWindow
    \/ \E r \in Requests : ReplacePage(r) \/ PushData(r)
    \/ \E p \in Pages : TabComplete(p)

Decide(p) == Approve(p) \/ Unlock(p) \/ \E v \in Verdicts : GrantOrDeny(p, v)

GoOn ==
    \/ \E r \in Requests : SignEnds(r) \/ ClosesItself(r) \/ StaysOpen(r)
    \/ \E p \in Pages : SweepNext(p)

GoAway == \E p \in Pages : Leave(p) \/ CloseWindow(p)

Next == Service \/ Arrive \/ (\E p \in Pages : Decide(p)) \/ GoOn \/ GoAway

Spec == Init /\ [][Next]_vars

(* The machinery moves on, and a user who sees a request decides it.       *)
Fairness ==
    /\ WF_vars(OpenWindow)
    /\ \A r \in Requests :
        /\ WF_vars(ApproveOrReject(r)) /\ WF_vars(ReplacePage(r)) /\ WF_vars(PushData(r))
        /\ WF_vars(SignEnds(r)) /\ WF_vars(ClosesItself(r)) /\ WF_vars(StaysOpen(r))
    /\ \A p \in Pages : WF_vars(TabComplete(p)) /\ WF_vars(SweepNext(p)) /\ WF_vars(Decide(p))

FairSpec == Spec /\ Fairness

-----------------------------------------------------------------------------
(* Every variable has its type.                                            *)
TypeOK ==
    /\ waitingMap \subseteq Requests /\ resolverMap \subseteq Requests
    /\ answer \in [Requests -> Verdicts \cup {"unasked", "pending"}]
    /\ mail \in [Requests -> Seq(Verdicts)]
    /\ stage \in [Requests -> {"idle", "queued", "replacing", "opened", "delivered", "failed"}]
    /\ queue \in Seq(Requests)
    /\ route \in [Pages -> Kinds \cup {"closed", "home"}]
    /\ loaded \in [Pages -> BOOLEAN]
    /\ datas \in [Pages -> [Kinds -> Seq(Requests)]]
    /\ sweeps \in [Pages -> SUBSET [verdict : Verdicts, left : Seq(Requests) \ {<<>>}]]
    /\ signing \subseteq Requests /\ closer \subseteq Requests
    /\ decision \in [Requests -> Verdicts \cup {"none"}]

Promise == INSTANCE Approval

(* However requests, pages that change and pages that close follow each    *)
(* other, a promise is settled at most once, and with the first verdict    *)
(* that any page sent: approve() and reject() of the service.              *)
SettledOnceByFirstVerdict == Promise!Spec

(* waitApprove() has no timeout: what it waits for comes, if one request   *)
(* waits at a time and nobody closes a page that is being opened.          *)
EveryRequestIsAnswered ==
    \A r \in Requests : answer[r] = "pending" ~> answer[r] \in Verdicts
=============================================================================
