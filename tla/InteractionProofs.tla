-------------------------- MODULE InteractionProofs --------------------------
(***************************************************************************)
(* Interaction implements Approval, for every set of requests of any kind, *)
(* any number of them at a time, and users and web pages that wait or not. *)
(***************************************************************************)
EXTENDS Interaction, TLAPS

Asked == {r \in Requests : answer[r] # "unasked"}

Sweeps == [verdict : Verdicts, left : Seq(Asked) \ {<<>>}]

(* Only requests that were asked travel to the pages.                      *)
Carried ==
    /\ queue \in Seq(Asked)
    /\ datas \in [Pages -> [Kinds -> Seq(Asked)]]
    /\ sweeps \in [Pages -> SUBSET Sweeps]

(* The first message about a request is in the mail until it settles the   *)
(* promise, and it is the decision.                                        *)
FirstInMail(r) ==
    /\ answer[r] = "unasked" => mail[r] = <<>> /\ decision[r] = "none"
    /\ answer[r] = "pending" => \/ mail[r] = <<>> /\ decision[r] = "none"
                                \/ mail[r] # <<>> /\ decision[r] = Head(mail[r])
    /\ answer[r] \in Verdicts => decision[r] = answer[r]

Promised ==
    /\ resolverMap = {r \in Requests : answer[r] = "pending"}
    /\ \A r \in Requests : stage[r] = "idle" <=> answer[r] = "unasked"
    /\ \A r \in Requests : FirstInMail(r)

IInv == TypeOK /\ Carried /\ Promised

-----------------------------------------------------------------------------
(* A sequence over a set is one over a larger set.                         *)
LEMMA SeqMonotone ==
  ASSUME NEW S, NEW T, S \subseteq T
  PROVE  Seq(S) \subseteq Seq(T)
  <1>1. SUFFICES ASSUME NEW s \in Seq(S) PROVE s \in Seq(T)
    OBVIOUS
  <1>2. s \in [1..Len(s) -> S] /\ Len(s) \in Nat
    OBVIOUS
  <1> QED BY <1>2

(* Removing an element of a sequence leaves one over the same set.         *)
LEMMA WithoutTyped ==
  ASSUME NEW S, NEW list \in Seq(S), NEW r
  PROVE  Without(list, r) \in Seq(S)
  <1>1. CASE r \notin Elements(list)
    BY <1>1 DEF Without
  <1>2. CASE r \in Elements(list)
    <2> DEFINE at == CHOOSE i \in DOMAIN list : list[i] = r
    <2>1. at \in DOMAIN list
      BY <1>2 DEF Elements
    <2>2. /\ Len(list) \in Nat /\ DOMAIN list = 1..Len(list)
          /\ \A i \in 1..Len(list) : list[i] \in S
      OBVIOUS
    <2>3. Len(list) - 1 \in Nat
      BY <2>1, <2>2
    <2> DEFINE rest == [i \in 1..(Len(list) - 1) |-> IF i < at THEN list[i] ELSE list[i + 1]]
    <2>4. \A i \in 1..(Len(list) - 1) : rest[i] \in S
      BY <2>1, <2>2
    <2>5. rest \in Seq(S)
      BY <2>3, <2>4
    <2> QED BY <1>2, <2>5 DEF Without
  <1> QED BY <1>1, <1>2

(* What a page shows is a sequence of requests that were asked.            *)
LEMMA ShownTyped ==
  ASSUME IInv, NEW p \in Pages
  PROVE  Shown(p) \in Seq(Asked)
  BY DEF IInv, Carried, Shown

-----------------------------------------------------------------------------
(* A step that sends at most one verdict, about a request that was asked,  *)
(* and leaves the background alone.                                        *)
AtMostSends ==
    /\ UNCHANGED <<answer, resolverMap>>
    /\ \A r \in Requests : stage'[r] = "idle" <=> stage[r] = "idle"
    /\ \/ UNCHANGED sent
       \/ \E r \in Asked, v \in Verdicts : Send(r, v)

LEMMA SendTyped ==
  ASSUME IInv, AtMostSends
  PROVE  /\ mail' \in [Requests -> Seq(Verdicts)]
         /\ decision' \in [Requests -> Verdicts \cup {"none"}]
         /\ Promised' /\ Asked' = Asked
  <1> USE DEF IInv
  <1>1. Asked' = Asked /\ Asked \subseteq Requests
    BY DEF AtMostSends, Asked
  <1>2. CASE UNCHANGED sent
    BY <1>1, <1>2 DEF AtMostSends, TypeOK, Promised, FirstInMail, sent
  <1>3. ASSUME NEW r \in Asked, NEW v \in Verdicts, Send(r, v)
        PROVE  /\ mail' \in [Requests -> Seq(Verdicts)]
               /\ decision' \in [Requests -> Verdicts \cup {"none"}]
               /\ Promised'
    <2>1. /\ r \in Requests /\ answer[r] # "unasked"
          /\ mail \in [Requests -> Seq(Verdicts)]
          /\ decision \in [Requests -> Verdicts \cup {"none"}]
          /\ answer \in [Requests -> Verdicts \cup {"unasked", "pending"}]
      BY DEF Asked, TypeOK
    <2>2. /\ mail' = [mail EXCEPT ![r] = Append(@, v)]
          /\ decision' = [decision EXCEPT ![r] = IF @ = "none" THEN v ELSE @]
      BY <1>3 DEF Send
    <2>3. /\ mail' \in [Requests -> Seq(Verdicts)]
          /\ decision' \in [Requests -> Verdicts \cup {"none"}]
      BY <2>1, <2>2
    <2>4. ASSUME NEW x \in Requests, x # r PROVE FirstInMail(x)'
      BY <2>1, <2>2, <2>4 DEF Promised, FirstInMail, AtMostSends
    <2>5. /\ mail'[r] # <<>>
          /\ mail[r] = <<>> => Head(mail'[r]) = v
          /\ mail[r] # <<>> => Head(mail'[r]) = Head(mail[r])
      BY <2>1, <2>2
    <2>6. FirstInMail(r)'
      BY <2>1, <2>2, <2>5 DEF Promised, FirstInMail, AtMostSends, Verdicts
    <2> QED BY <2>3, <2>4, <2>6 DEF Promised, AtMostSends
  <1> QED BY <1>1, <1>2, <1>3 DEF AtMostSends

(* To Approval, it is a decision or nothing.                               *)
LEMMA SendDecides ==
  ASSUME IInv, AtMostSends
  PROVE  [Promise!Next]_Promise!vars
  <1>1. CASE UNCHANGED sent
    BY <1>1 DEF AtMostSends, sent, Promise!vars
  <1>2. ASSUME NEW r \in Asked, NEW v \in Verdicts, Send(r, v)
        PROVE  [Promise!Next]_Promise!vars
    <2>1. /\ r \in Requests /\ answer[r] # "unasked"
          /\ decision \in [Requests -> Verdicts \cup {"none"}]
          /\ answer[r] \in Verdicts \cup {"unasked", "pending"}
          /\ FirstInMail(r)
      BY DEF Asked, IInv, TypeOK, Promised
    <2>2. CASE decision[r] # "none"
      BY <1>2, <2>1, <2>2 DEF Send, AtMostSends, Promise!vars
    <2>3. CASE decision[r] = "none"
      <3>1. answer[r] = "pending"
        BY <2>1, <2>3 DEF FirstInMail, Verdicts
      <3>2. Promise!Decide(r, v)
        BY <1>2, <2>1, <2>3, <3>1 DEF Send, AtMostSends, Promise!Decide
      <3> QED BY <2>1, <3>2 DEF Promise!Next, Promise!Verdicts, Verdicts
    <2> QED BY <2>2, <2>3
  <1> QED BY <1>1, <1>2 DEF AtMostSends

-----------------------------------------------------------------------------
(* What the parts of an action do to the stores and loops of the pages.    *)
PagesTyped ==
    /\ datas \in [Pages -> [Kinds -> Seq(Asked)]]
    /\ sweeps \in [Pages -> SUBSET Sweeps]

LEMMA RemoveTyped ==
  ASSUME IInv, NEW p \in Pages, NEW r \in Requests, RemoveData(p, r)
  PROVE  datas' \in [Pages -> [Kinds -> Seq(Asked)]]
  <1>1. KindOf[r] \in Kinds
    BY RequestsAssumption
  <1>2. datas \in [Pages -> [Kinds -> Seq(Asked)]]
    BY DEF IInv, Carried
  <1>3. Without(datas[p][KindOf[r]], r) \in Seq(Asked)
    BY <1>1, <1>2, WithoutTyped
  <1> QED BY <1>1, <1>2, <1>3 DEF RemoveData

(* A store of which one list is replaced by another over the same set.     *)
LEMMA StoreTyped ==
  ASSUME NEW S, datas \in [Pages -> [Kinds -> Seq(S)]],
         NEW p \in Pages, NEW k \in Kinds, NEW list \in Seq(S),
         UNCHANGED datas \/ datas' = [datas EXCEPT ![p][k] = list]
  PROVE  datas' \in [Pages -> [Kinds -> Seq(S)]]
  <1>1. datas[p] \in [Kinds -> Seq(S)]
    OBVIOUS
  <1>2. [datas[p] EXCEPT ![k] = list] \in [Kinds -> Seq(S)]
    BY <1>1
  <1> QED BY <1>2

LEMMA SweepTyped ==
  ASSUME IInv, NEW p \in Pages, NEW v \in Verdicts, NEW list \in Seq(Asked),
         Sweep(p, v, list), Asked' = Asked
  PROVE  /\ PagesTyped'
         /\ UNCHANGED sent \/ \E r \in Asked, w \in Verdicts : Send(r, w)
  <1>1. CASE list = <<>>
    BY <1>1 DEF Sweep, Sweeps, IInv, Carried, TypeOK, PagesTyped
  <1>2. CASE list # <<>>
    <2>1. Head(list) \in Asked /\ Head(list) \in Requests
      BY <1>2 DEF Asked
    <2>2. /\ RemoveData(p, Head(list)) /\ Send(Head(list), v)
          /\ sweeps' = [sweeps EXCEPT ![p] = @ \cup {[verdict |-> v, left |-> list]}]
      BY <1>2 DEF Sweep
    <2>3. datas' \in [Pages -> [Kinds -> Seq(Asked)]]
      BY <2>1, <2>2, RemoveTyped
    <2>4. [verdict |-> v, left |-> list] \in Sweeps
      BY <1>2 DEF Sweeps
    <2>5. sweeps' \in [Pages -> SUBSET Sweeps]
      BY <2>2, <2>4 DEF IInv, Carried
    <2>6. Sweeps' = Sweeps
      BY DEF Sweeps
    <2> QED BY <2>1, <2>2, <2>3, <2>5, <2>6 DEF PagesTyped
  <1> QED BY <1>1, <1>2

-----------------------------------------------------------------------------
(* Every step of a page or on the way to it sends at most one verdict, and *)
(* keeps the invariant.                                                    *)
PageStep ==
    /\ AtMostSends
    /\ PagesTyped' /\ queue' \in Seq(Asked)
    /\ stage' \in [Requests -> {"idle", "queued", "replacing", "opened", "delivered", "failed"}]
    /\ route' \in [Pages -> Kinds \cup {"closed", "home"}]
    /\ loaded' \in [Pages -> BOOLEAN]
    /\ signing' \subseteq Requests /\ closer' \subseteq Requests
    /\ waitingMap' \subseteq Requests

LEMMA PageStepKeeps ==
  ASSUME IInv, PageStep
  PROVE  IInv' /\ [Promise!Next]_Promise!vars
  <1>1. /\ mail' \in [Requests -> Seq(Verdicts)]
        /\ decision' \in [Requests -> Verdicts \cup {"none"}]
        /\ Promised' /\ Asked' = Asked
    BY SendTyped DEF PageStep
  <1>2. [Promise!Next]_Promise!vars
    BY SendDecides DEF PageStep
  <1>3. /\ answer' = answer /\ resolverMap' = resolverMap
        /\ PagesTyped' /\ queue' \in Seq(Asked')
    BY <1>1 DEF PageStep, AtMostSends
  <1>4. Carried'
    BY <1>3 DEF Carried, PagesTyped
  <1>5. Seq(Asked') \subseteq Seq(Requests)
    BY <1>1, SeqMonotone DEF Asked
  <1>6. Sweeps' \subseteq [verdict : Verdicts, left : Seq(Requests) \ {<<>>}]
    BY <1>5 DEF Sweeps
  <1>7. /\ datas' \in [Pages -> [Kinds -> Seq(Requests)]]
        /\ sweeps' \in [Pages -> SUBSET [verdict : Verdicts, left : Seq(Requests) \ {<<>>}]]
        /\ queue' \in Seq(Requests)
    BY <1>3, <1>5, <1>6 DEF PagesTyped
  <1>8. TypeOK'
    BY <1>1, <1>3, <1>7 DEF TypeOK, PageStep, PagesTyped, IInv
  <1> QED BY <1>1, <1>2, <1>4, <1>8 DEF IInv

LEMMA NothingAsked ==
  ASSUME UNCHANGED background
  PROVE  Asked' = Asked
  BY DEF Asked, background

LEMMA ShowTyped ==
  ASSUME IInv, NEW p \in Pages, NEW kind \in Kinds \cup {"home"}, Show(p, kind), UNCHANGED background
  PROVE  /\ PagesTyped'
         /\ route' \in [Pages -> Kinds \cup {"closed", "home"}]
         /\ UNCHANGED sent \/ \E r \in Asked, v \in Verdicts : Send(r, v)
  <1> DEFINE list == IF route[p] = kind THEN <<>> ELSE Shown(p)
  <1>1. list \in Seq(Asked)
    BY ShownTyped
  <1>2. Sweep(p, "reject", list) /\ "reject" \in Verdicts /\ Asked' = Asked
    BY NothingAsked DEF Show, Verdicts
  <1> HIDE DEF list
  <1>3. PagesTyped' /\ (UNCHANGED sent \/ \E r \in Asked, v \in Verdicts : Send(r, v))
    BY <1>1, <1>2, SweepTyped
  <1>4. route' \in [Pages -> Kinds \cup {"closed", "home"}]
    BY DEF Show, IInv, TypeOK
  <1> QED BY <1>3, <1>4

LEMMA VanishStep ==
  ASSUME IInv, NEW p \in Pages, NEW shown \in Seq(Asked), Vanish(p, shown),
         UNCHANGED <<background, queue>>
  PROVE  PageStep
  <1> USE DEF IInv
  <1>1. Asked' = Asked
    BY NothingAsked
  <1>2. UNCHANGED sent \/ \E r \in Asked, v \in Verdicts : Send(r, v)
    <2>1. shown # <<>> => Head(shown) \in Asked
      OBVIOUS
    <2> QED BY <2>1 DEF Vanish, Verdicts
  <1>3. datas' \in [Pages -> [Kinds -> Seq(Asked)]]
    <2>1. [k \in Kinds |-> <<>>] \in [Kinds -> Seq(Asked)]
      OBVIOUS
    <2> QED BY <2>1 DEF Vanish, Carried
  <1>4. sweeps' \in [Pages -> SUBSET Sweeps] /\ Sweeps' = Sweeps
    BY <1>1 DEF Vanish, Carried, Sweeps
  <1>5. PagesTyped'
    BY <1>1, <1>3, <1>4 DEF PagesTyped
  <1>6. \A r \in Requests :
          /\ stage'[r] = "idle" <=> stage[r] = "idle"
          /\ stage'[r] \in {"idle", "queued", "replacing", "opened", "delivered", "failed"}
    BY DEF Vanish, TypeOK
  <1>7. /\ stage' \in [Requests -> {"idle", "queued", "replacing", "opened", "delivered", "failed"}]
        /\ route' \in [Pages -> Kinds \cup {"closed", "home"}]
        /\ loaded' \in [Pages -> BOOLEAN]
        /\ signing' \subseteq Requests /\ closer' \subseteq Requests
    <2>1. DOMAIN stage' = Requests /\ stage' = [r \in Requests |-> stage'[r]]
      BY DEF Vanish
    <2> QED BY <1>6, <2>1 DEF Vanish, TypeOK
  <1> QED BY <1>2, <1>5, <1>6, <1>7 DEF PageStep, AtMostSends, Carried, TypeOK, background

-----------------------------------------------------------------------------
(* The actions.                                                            *)
LEMMA ArriveStep ==
  ASSUME IInv, Arrive
  PROVE  PageStep
  <1> USE DEF IInv
  <1>0. UNCHANGED background
    BY DEF Arrive, OpenWindow, ReplacePage, PushData, TabComplete
  <1>1. Asked' = Asked
    BY <1>0, NothingAsked
  <1>2. CASE OpenWindow
    <2>1. Head(queue) \in Asked /\ Tail(queue) \in Seq(Asked) /\ Head(queue) \in Requests
      BY <1>2 DEF OpenWindow, Carried, Asked
    <2>2. KindOf[Head(queue)] \in Kinds
      BY <2>1, RequestsAssumption
    <2>3. /\ PagesTyped'
          /\ route' \in [Pages -> Kinds \cup {"closed", "home"}]
          /\ UNCHANGED sent \/ \E r \in Asked, v \in Verdicts : Send(r, v)
      BY <1>0, <1>2, <2>2, ShowTyped DEF OpenWindow, Pages
    <2>4. stage[Head(queue)] # "idle"
      BY <2>1 DEF Asked, Promised
    <2>5. /\ \A r \in Requests : stage'[r] = "idle" <=> stage[r] = "idle"
          /\ stage' \in [Requests -> {"idle", "queued", "replacing", "opened", "delivered", "failed"}]
      BY <1>2, <2>1, <2>4 DEF OpenWindow, TypeOK
    <2> QED BY <1>2, <2>1, <2>3, <2>5 DEF OpenWindow, PageStep, AtMostSends, TypeOK, background
  <1>3. ASSUME NEW r \in Requests, ReplacePage(r)
        PROVE  PageStep
    <2>1. KindOf[r] \in Kinds
      BY RequestsAssumption
    <2>2. /\ PagesTyped'
          /\ route' \in [Pages -> Kinds \cup {"closed", "home"}]
          /\ UNCHANGED sent \/ \E x \in Asked, v \in Verdicts : Send(x, v)
      BY <1>0, <1>3, <2>1, ShowTyped DEF ReplacePage, Pages
    <2>3. /\ \A x \in Requests : stage'[x] = "idle" <=> stage[x] = "idle"
          /\ stage' \in [Requests -> {"idle", "queued", "replacing", "opened", "delivered", "failed"}]
      BY <1>3 DEF ReplacePage, TypeOK
    <2> QED BY <1>3, <2>2, <2>3 DEF ReplacePage, PageStep, AtMostSends, TypeOK, Carried, background
  <1>4. ASSUME NEW r \in Requests, PushData(r)
        PROVE  PageStep
    <2>1. PageOf(r) \in Pages /\ KindOf[r] \in Kinds /\ "reject" \in Verdicts
      BY RequestsAssumption DEF PageOf, Pages, Verdicts
    <2>2. r \in Asked
      BY <1>4 DEF PushData, Asked, Promised
    <2>3. /\ \A x \in Requests : stage'[x] = "idle" <=> stage[x] = "idle"
          /\ stage' \in [Requests -> {"idle", "queued", "replacing", "opened", "delivered", "failed"}]
      BY <1>4 DEF PushData, TypeOK
    <2>4. UNCHANGED sent \/ \E x \in Asked, v \in Verdicts : Send(x, v)
      BY <1>4, <2>1, <2>2 DEF PushData
    <2>5. Append(datas[PageOf(r)][KindOf[r]], r) \in Seq(Asked)
      BY <2>1, <2>2 DEF Carried
    <2>6. datas' \in [Pages -> [Kinds -> Seq(Asked)]]
      <3>1. datas \in [Pages -> [Kinds -> Seq(Asked)]]
        BY DEF Carried
      <3>2. \/ UNCHANGED datas
            \/ datas' = [datas EXCEPT ![PageOf(r)][KindOf[r]] = Append(datas[PageOf(r)][KindOf[r]], r)]
        BY <1>4, <2>1, <3>1 DEF PushData
      <3> QED BY <2>1, <2>5, <3>1, <3>2, StoreTyped
    <2>7. PagesTyped'
      BY <1>1, <1>4, <2>6 DEF PushData, PagesTyped, Carried, Sweeps
    <2> QED BY <1>4, <2>3, <2>4, <2>7 DEF PushData, PageStep, AtMostSends, TypeOK, Carried, background, tab
  <1>5. ASSUME NEW p \in Pages, TabComplete(p)
        PROVE  PageStep
    BY <1>1, <1>5 DEF TabComplete, PageStep, AtMostSends, PagesTyped, Sweeps, TypeOK, Carried, background, env
  <1> QED BY <1>2, <1>3, <1>4, <1>5 DEF Arrive

LEMMA DecideStep ==
  ASSUME IInv, NEW p \in Pages, Decide(p)
  PROVE  PageStep
  <1> USE DEF IInv
  <1>0. UNCHANGED background
    BY DEF Decide, Approve, GrantOrDeny, Unlock
  <1>1. Asked' = Asked
    BY <1>0, NothingAsked
  <1>2. Shown(p) \in Seq(Asked) /\ (Shown(p) # <<>> => Head(Shown(p)) \in Asked)
    BY ShownTyped
  <1>3. Asked \subseteq Requests /\ Verdicts = {"approve", "reject"}
    BY DEF Asked, Verdicts
  <1>4. CASE Approve(p)
    <2>1. \E r \in Asked, v \in Verdicts : Send(r, v) /\ signing' = signing \cup {r}
      BY <1>2, <1>3, <1>4 DEF Approve
    <2> QED BY <1>1, <1>3, <1>4, <2>1
            DEF Approve, PageStep, AtMostSends, PagesTyped, Sweeps, TypeOK, Carried, background, env, tab
  <1>5. ASSUME NEW w \in Verdicts, GrantOrDeny(p, w)
        PROVE  PageStep
    <2>1. \E r \in Asked : Send(r, w) /\ RemoveData(p, r) /\ closer' = closer \cup {r}
      BY <1>2, <1>3, <1>5 DEF GrantOrDeny
    <2>2. datas' \in [Pages -> [Kinds -> Seq(Asked)]]
      BY <1>3, <2>1, RemoveTyped
    <2> QED BY <1>1, <1>3, <1>5, <2>1, <2>2
            DEF GrantOrDeny, PageStep, AtMostSends, PagesTyped, Sweeps, TypeOK, Carried, background, env, tab
  <1>6. CASE Unlock(p)
    <2>1. Sweep(p, "approve", Shown(p))
      BY <1>6 DEF Unlock
    <2>2. PagesTyped' /\ (UNCHANGED sent \/ \E r \in Asked, v \in Verdicts : Send(r, v))
      BY <1>1, <1>2, <1>3, <2>1, SweepTyped
    <2> QED BY <1>6, <2>2 DEF Unlock, PageStep, AtMostSends, TypeOK, Carried, background, env, tab
  <1> QED BY <1>4, <1>5, <1>6 DEF Decide

LEMMA SweepNextStep ==
  ASSUME IInv, NEW p \in Pages, SweepNext(p)
  PROVE  PageStep
  <1> USE DEF IInv
  <1>1. UNCHANGED background /\ Asked' = Asked
    BY NothingAsked DEF SweepNext
  <1>2. PICK s \in sweeps[p] : IF Tail(s.left) = <<>> THEN SweepEnds(p, s) ELSE SweepGoesOn(p, s)
    BY DEF SweepNext
  <1>3. s \in Sweeps /\ s.verdict \in Verdicts /\ s.left \in Seq(Asked) /\ s.left # <<>>
    BY DEF Carried, Sweeps
  <1>4. Head(s.left) \in Asked /\ Tail(s.left) \in Seq(Asked) /\ Asked \subseteq Requests
    BY <1>3 DEF Asked
  <1>5. CASE SweepEnds(p, s)
    <2>1. sweeps' \in [Pages -> SUBSET Sweeps]
      BY <1>5 DEF SweepEnds, Carried
    <2> QED BY <1>1, <1>4, <1>5, <2>1
            DEF SweepNext, SweepEnds, PageStep, AtMostSends, PagesTyped, Sweeps, TypeOK, Carried, background, env, tab
  <1>6. CASE Tail(s.left) # <<>> /\ SweepGoesOn(p, s)
    <2>1. Head(Tail(s.left)) \in Asked
      BY <1>4, <1>6
    <2>2. datas' \in [Pages -> [Kinds -> Seq(Asked)]]
      BY <1>4, <1>6, <2>1, RemoveTyped DEF SweepGoesOn
    <2>3. [s EXCEPT !.left = Tail(s.left)] \in Sweeps
      BY <1>3, <1>4, <1>6 DEF Sweeps
    <2>4. sweeps' \in [Pages -> SUBSET Sweeps]
      BY <1>6, <2>3 DEF SweepGoesOn, Carried
    <2>5. Send(Head(Tail(s.left)), s.verdict)
      BY <1>6 DEF SweepGoesOn
    <2> QED BY <1>1, <1>3, <1>6, <2>1, <2>2, <2>4, <2>5
            DEF SweepNext, SweepGoesOn, PageStep, AtMostSends, PagesTyped, Sweeps, TypeOK, Carried, background, env, tab
  <1> QED BY <1>2, <1>5, <1>6

LEMMA GoOnStep ==
  ASSUME IInv, GoOn
  PROVE  PageStep
  <1> USE DEF IInv
  <1>1. ASSUME NEW r \in Requests, SignEnds(r) PROVE PageStep
    <2>1. CASE PageOf(r) = "popup"
      <3> DEFINE shown == IF route["popup"] = "request-sign" THEN Without(Shown("popup"), r) ELSE Shown("popup")
      <3>1. shown \in Seq(Asked)
        BY ShownTyped, WithoutTyped DEF Pages
      <3>2. Vanish("popup", shown) /\ UNCHANGED <<background, queue>>
        BY <1>1, <2>1 DEF SignEnds
      <3> HIDE DEF shown
      <3> QED BY <3>1, <3>2, VanishStep DEF Pages
    <2>2. CASE PageOf(r) # "popup"
      <3>1. RemoveData("panel", r) /\ UNCHANGED background
        BY <1>1, <2>2 DEF SignEnds
      <3>2. datas' \in [Pages -> [Kinds -> Seq(Asked)]] /\ Asked' = Asked
        BY <3>1, RemoveTyped, NothingAsked DEF Pages
      <3> QED BY <1>1, <2>2, <3>2
              DEF SignEnds, PageStep, AtMostSends, PagesTyped, Sweeps, TypeOK, Carried, background, env, tab
    <2> QED BY <2>1, <2>2
  <1>2. ASSUME NEW r \in Requests, ClosesItself(r) PROVE PageStep
    BY <1>2, VanishStep, ShownTyped DEF ClosesItself, Pages
  <1>3. ASSUME NEW r \in Requests, StaysOpen(r) PROVE PageStep
    <2>1. Asked' = Asked
      BY <1>3, NothingAsked DEF StaysOpen
    <2> QED BY <1>3, <2>1 DEF StaysOpen, PageStep, AtMostSends, PagesTyped, Sweeps, TypeOK, Carried, background, env, tab
  <1> QED BY <1>1, <1>2, <1>3, SweepNextStep DEF GoOn

LEMMA GoAwayStep ==
  ASSUME IInv, GoAway
  PROVE  PageStep
  <1> USE DEF IInv
  <1>1. ASSUME NEW p \in Pages, CloseWindow(p) PROVE PageStep
    BY <1>1, VanishStep, ShownTyped DEF CloseWindow
  <1>2. ASSUME NEW p \in Pages, Leave(p) PROVE PageStep
    <2>1. /\ PagesTyped'
          /\ route' \in [Pages -> Kinds \cup {"closed", "home"}]
          /\ UNCHANGED sent \/ \E r \in Asked, v \in Verdicts : Send(r, v)
      BY <1>2, ShowTyped DEF Leave
    <2> QED BY <1>2, <2>1 DEF Leave, PageStep, AtMostSends, TypeOK, Carried, background, env
  <1> QED BY <1>1, <1>2 DEF GoAway

-----------------------------------------------------------------------------
(* waitApprove() asks: from then on the request may travel.                *)
LEMMA WaitApproveStep ==
  ASSUME IInv, NEW r \in Requests, WaitApprove(r)
  PROVE  IInv' /\ Promise!Ask(r)
  <1> USE DEF IInv
  <1>1. /\ answer[r] = "unasked" /\ answer' = [answer EXCEPT ![r] = "pending"]
        /\ resolverMap' = resolverMap \cup {r} /\ waitingMap' = waitingMap \cup {r}
        /\ UNCHANGED <<mail, decision, route, loaded, datas, sweeps, signing, closer>>
    BY DEF WaitApprove, Promised, sent, tab
  <1>2. Promise!Ask(r)
    BY <1>1 DEF Promise!Ask
  <1>3. Asked' = Asked \cup {r}
    BY <1>1 DEF Asked, TypeOK
  <1>4. Seq(Asked) \subseteq Seq(Asked')
    BY <1>3, SeqMonotone
  <1>5. /\ queue' \in Seq(Asked') /\ queue' \in Seq(Requests)
        /\ \A x \in Requests : stage'[x] = "idle" <=> stage[x] = "idle" /\ x # r
        /\ stage' \in [Requests -> {"idle", "queued", "replacing", "opened", "delivered", "failed"}]
    <2>1. queue \in Seq(Asked') /\ queue \in Seq(Requests) /\ r \in Asked'
      BY <1>3, <1>4 DEF TypeOK, Carried
    <2>2. Append(queue, r) \in Seq(Asked') /\ Append(queue, r) \in Seq(Requests)
      BY <2>1
    <2>3. queue' = queue \/ queue' = Append(queue, r)
      BY DEF WaitApprove
    <2>4. \/ stage' = [stage EXCEPT ![r] = "replacing"]
          \/ stage' = [stage EXCEPT ![r] = "queued"]
      BY DEF WaitApprove
    <2>5. stage \in [Requests -> {"idle", "queued", "replacing", "opened", "delivered", "failed"}]
      BY DEF TypeOK
    <2>6. \A x \in Requests : stage'[x] = "idle" <=> stage[x] = "idle" /\ x # r
      BY <2>4, <2>5
    <2>7. stage' \in [Requests -> {"idle", "queued", "replacing", "opened", "delivered", "failed"}]
      BY <2>4, <2>5
    <2> QED BY <2>1, <2>2, <2>3, <2>6, <2>7
  <1>6. Carried'
    <2>1. Sweeps \subseteq Sweeps'
      BY <1>4 DEF Sweeps
    <2>2. datas' \in [Pages -> [Kinds -> Seq(Asked')]]
      BY <1>1, <1>4 DEF Carried
    <2> QED BY <1>1, <1>5, <2>1, <2>2 DEF Carried
  <1>7. Promised'
    BY <1>1, <1>5 DEF Promised, FirstInMail, TypeOK, Verdicts
  <1>8. TypeOK'
    BY <1>1, <1>5 DEF TypeOK
  <1> QED BY <1>2, <1>6, <1>7, <1>8

(* approve() and reject() settle the promise with the first message.       *)
LEMMA ApproveOrRejectStep ==
  ASSUME IInv, NEW r \in Requests, ApproveOrReject(r)
  PROVE  IInv' /\ [Promise!Next]_Promise!vars
  <1> USE DEF IInv
  <1>1. /\ mail \in [Requests -> Seq(Verdicts)] /\ mail[r] # <<>>
        /\ mail' = [mail EXCEPT ![r] = Tail(mail[r])]
        /\ answer \in [Requests -> Verdicts \cup {"unasked", "pending"}]
        /\ UNCHANGED <<decision, stage, queue, datas, sweeps, route, loaded, signing, closer>>
        /\ resolverMap' = resolverMap \ {r} /\ waitingMap' = waitingMap \ {r}
        /\ answer' = IF r \in resolverMap THEN [answer EXCEPT ![r] = Head(mail[r])] ELSE answer
        /\ answer[r] # "unasked" /\ FirstInMail(r)
    BY DEF ApproveOrReject, TypeOK, Promised, FirstInMail, env, tab
  <1>2. Head(mail[r]) \in Verdicts /\ Tail(mail[r]) \in Seq(Verdicts)
    BY <1>1
  <1>3. answer' \in [Requests -> Verdicts \cup {"unasked", "pending"}] /\ Asked' = Asked
    BY <1>1, <1>2 DEF Asked, Verdicts
  <1>4. Carried'
    BY <1>1, <1>3 DEF Carried, Sweeps
  <1>5. mail' \in [Requests -> Seq(Verdicts)]
    BY <1>1, <1>2
  <1>6. TypeOK'
    BY <1>1, <1>3, <1>5 DEF TypeOK
  <1>7. CASE r \in resolverMap
    <2>1. answer[r] = "pending" /\ decision[r] = Head(mail[r]) /\ answer'[r] = decision[r]
      BY <1>1, <1>7 DEF Promised, FirstInMail
    <2>2. Promise!Settle(r)
      BY <1>1, <1>2, <1>7, <2>1 DEF Promise!Settle, Verdicts
    <2>3. Promised'
      <3>1. resolverMap' = {x \in Requests : answer'[x] = "pending"}
        BY <1>1, <1>2, <1>7 DEF Promised, Verdicts
      <3>2. \A x \in Requests : stage'[x] = "idle" <=> answer'[x] = "unasked"
        BY <1>1, <1>2, <1>7 DEF Promised, Verdicts
      <3>3. FirstInMail(r)'
        BY <1>1, <1>2, <2>1 DEF FirstInMail, Verdicts
      <3>4. ASSUME NEW x \in Requests, x # r PROVE FirstInMail(x)'
        BY <1>1, <1>7, <3>4 DEF Promised, FirstInMail
      <3> QED BY <3>1, <3>2, <3>3, <3>4 DEF Promised
    <2> QED BY <1>4, <1>6, <2>2, <2>3 DEF Promise!Next
  <1>8. CASE r \notin resolverMap
    <2>1. answer[r] \in Verdicts /\ UNCHANGED answer
      BY <1>1, <1>8 DEF Promised
    <2>2. \A x \in Requests : FirstInMail(x)'
      BY <1>1, <2>1 DEF Promised, FirstInMail, Verdicts
    <2>3. Promised'
      BY <1>1, <1>8, <2>1, <2>2 DEF Promised
    <2> QED BY <1>1, <1>4, <1>6, <2>1, <2>3 DEF Promise!vars
  <1> QED BY <1>7, <1>8

-----------------------------------------------------------------------------
LEMMA Start ==
  Init => IInv /\ Promise!Init
  <1> SUFFICES ASSUME Init PROVE IInv /\ Promise!Init
    OBVIOUS
  <1>1. TypeOK
    BY DEF Init, TypeOK, Pages, Kinds, Verdicts
  <1>2. Carried
    BY DEF Init, Carried, Sweeps
  <1>3. Promised
    BY DEF Init, Promised, FirstInMail, Verdicts
  <1> QED BY <1>1, <1>2, <1>3 DEF Init, IInv, Promise!Init

LEMMA Step ==
  ASSUME IInv, [Next]_vars
  PROVE  IInv' /\ [Promise!Next]_Promise!vars
  <1>1. CASE Service
    BY <1>1, WaitApproveStep, ApproveOrRejectStep DEF Service, Promise!Next
  <1>2. CASE Arrive
    BY <1>2, ArriveStep, PageStepKeeps
  <1>3. CASE \E p \in Pages : Decide(p)
    BY <1>3, DecideStep, PageStepKeeps
  <1>4. CASE GoOn
    BY <1>4, GoOnStep, PageStepKeeps
  <1>5. CASE GoAway
    BY <1>5, GoAwayStep, PageStepKeeps
  <1>6. CASE UNCHANGED vars
    BY <1>6 DEF vars, background, sent, env, tab, IInv, TypeOK, Carried, Sweeps, Asked, Promised,
                FirstInMail, Promise!vars
  <1> QED BY <1>1, <1>2, <1>3, <1>4, <1>5, <1>6 DEF Next

(* The interaction service keeps its promise: whatever pages do, each      *)
(* waitApprove() is settled at most once, with the first verdict sent.     *)
THEOREM ImplementsApproval == Spec => SettledOnceByFirstVerdict
  <1>1. Init => IInv /\ Promise!Init
    BY Start
  <1>2. IInv /\ [Next]_vars => IInv' /\ [Promise!Next]_Promise!vars
    BY Step
  <1> QED BY <1>1, <1>2, PTL DEF Spec, SettledOnceByFirstVerdict, Promise!Spec

(* And every variable keeps its type.                                      *)
THEOREM InteractionTypeCorrect == Spec => []TypeOK
  <1>1. Init => IInv
    BY Start
  <1>2. IInv /\ [Next]_vars => IInv'
    BY Step
  <1>3. IInv => TypeOK
    BY DEF IInv
  <1> QED BY <1>1, <1>2, <1>3, PTL DEF Spec
=============================================================================
