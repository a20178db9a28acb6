------------------------ MODULE ObservableQueryProofs ------------------------
(***************************************************************************)
(* Proofs about ObservableQuery, for any pages, urls and number of calls   *)
(* of fetch(), calm or not.  What the object is made of holds of every     *)
(* behaviour.  The rest is false of some, and is proved of those in which  *)
(* the query is not started again while calls of the time before are left  *)
(* that spoil it: Unhurried and Undeferred say which, and the code sees to *)
(* neither.                                                                *)
(***************************************************************************)
EXTENDS ObservableQuery, TLAPS

Begins == ~query.started /\ query'.started

(* Nobody leaves a query that is being fetched and comes back before the   *)
(* fetch() that leaving cancelled has ended: its finally would show that   *)
(* nothing is fetched although the new one is under way.                   *)
Unhurried == [][Begins => \A f \in Flows : query.flows[f].pc # "stop"]_vars

(* A query whose onStart() is asynchronous is not started again while a    *)
(* call of fetch() waits for the controller: it would go on before         *)
(* onStart() has set the url.                                              *)
Undeferred == [][Begins /\ query'.asyncStart => \A f \in Flows : query.flows[f].pc # "deferred"]_vars

(* Both, of a state in which the query is started; the second if d.        *)
Quiet(d) ==
    ~query.started => \A f \in Flows : /\ query.flows[f].pc # "stop"
                                       /\ d /\ query.asyncStart => query.flows[f].pc # "deferred"

-----------------------------------------------------------------------------
(* The type of the object, with what it needs: whatever was asked for has  *)
(* a url.                                                                  *)
UrlsAsked(q) == \A f \in Flows : q.flows[f].pc = "requested" => q.flows[f].url \in Urls

TypeInv == TypeOK /\ UrlsAsked(query)

Flow == [pc : {"over", "deferred", "asked", "requested", "next", "stop"}, url : Urls \cup {Nothing}, again : BOOLEAN]

LEMMA TypedCancel ==
  ASSUME NEW q \in Queries, UrlsAsked(q), NEW why \in {"next", "stop"}
  PROVE  /\ Cancel(q, why) \in Queries /\ UrlsAsked(Cancel(q, why))
         /\ Cancel(q, why).started = q.started /\ Cancel(q, why).asyncStart = q.asyncStart
         /\ Cancel(q, why).response = q.response
BY DEF Cancel, InFlight, Queries, UrlsAsked, Over

LEMMA TypedProceed ==
  ASSUME NEW q \in Queries, UrlsAsked(q), NEW f
  PROVE  /\ Proceed(q, f) \in Queries /\ UrlsAsked(Proceed(q, f))
         /\ Proceed(q, f).started = q.started /\ Proceed(q, f).asyncStart = q.asyncStart
<1> DEFINE alone == IF q.isFetching THEN Cancel(q, "next") ELSE q
           response == IF q.response = Nothing THEN Nothing ELSE [q.response EXCEPT !.staled = TRUE]
           flows == [alone.flows EXCEPT ![f] = [Over EXCEPT !.pc = "asked"]]
<1>1. /\ alone \in Queries /\ UrlsAsked(alone)
      /\ alone.started = q.started /\ alone.asyncStart = q.asyncStart
  BY TypedCancel
<1>2. response \in Responses \cup {Nothing}
  BY DEF Queries, Responses
<1> HIDE DEF alone
<1>3. flows \in [Flows -> Flow] /\ \A g \in Flows : flows[g] = alone.flows[g] \/ flows[g].pc # "requested"
  BY <1>1 DEF Queries, Flow, Over
<1>4. Proceed(q, f) = [alone EXCEPT !.flows = flows, !.isFetching = TRUE, !.response = response]
  BY DEF Proceed, alone
<1> DEFINE r == [alone EXCEPT !.flows = flows, !.isFetching = TRUE, !.response = response]
<1> HIDE DEF response, flows
<1>5. r \in Queries /\ UrlsAsked(r) /\ r.started = alone.started /\ r.asyncStart = alone.asyncStart
  BY <1>1, <1>2, <1>3 DEF Queries, UrlsAsked, Flow
<1>6. Proceed(q, f) = r
  BY <1>4
<1> HIDE DEF r
<1>7. QED
  BY <1>1, <1>5, <1>6

LEMMA TypedFetch ==
  ASSUME NEW q \in Queries, UrlsAsked(q)
  PROVE  /\ Fetch(q) \in Queries /\ UrlsAsked(Fetch(q))
         /\ Fetch(q).started = q.started /\ Fetch(q).asyncStart = q.asyncStart
<1>1. \A f : /\ Defer(q, f) \in Queries /\ UrlsAsked(Defer(q, f))
             /\ Defer(q, f).started = q.started /\ Defer(q, f).asyncStart = q.asyncStart
  BY DEF Defer, Queries, UrlsAsked, Over
<1>2. QED
  BY <1>1, TypedProceed DEF Fetch

LEMMA TypedStart ==
  ASSUME NEW q \in Queries, UrlsAsked(q)
  PROVE  /\ Start(q) \in Queries /\ UrlsAsked(Start(q))
         /\ Start(q).started /\ Start(q).asyncStart = q.asyncStart
<1>1. CASE q.asyncStart
  BY <1>1 DEF Start, Queries, UrlsAsked
<1>2. CASE ~q.asyncStart
  <2> DEFINE now == [q EXCEPT !.started = TRUE]
  <2>1. now \in Queries /\ UrlsAsked(now) /\ now.started /\ now.asyncStart = q.asyncStart
    BY DEF Queries, UrlsAsked
  <2>2. Start(q) = Fetch(now)
    BY <1>2 DEF Start
  <2> HIDE DEF now
  <2>3. QED
    BY <2>1, <2>2, TypedFetch
<1>3. QED
  BY <1>1, <1>2

LEMMA TypedStop ==
  ASSUME NEW q \in Queries, UrlsAsked(q)
  PROVE  Stop(q) \in Queries /\ UrlsAsked(Stop(q)) /\ ~Stop(q).started
<1> DEFINE calm == IF q.isFetching THEN Cancel(q, "stop") ELSE q
<1>1. calm \in Queries /\ UrlsAsked(calm)
  BY TypedCancel
<1>2. Stop(q) = [calm EXCEPT !.started = FALSE, !.onStart = "none", !.isFetching = FALSE]
  BY DEF Stop
<1> HIDE DEF calm
<1>3. QED
  BY <1>1, <1>2 DEF Queries, UrlsAsked

(* What a step makes of the object, of which only its type is known.       *)
LEMMA TypedBecomes ==
  ASSUME TypeInv, NEW q \in Queries, UrlsAsked(q),
         NEW at \in [Pages -> {"away", "watching", "waiting", "resolved"}],
         Becomes(q, at), UNCHANGED <<saved, ready>>
  PROVE  TypeInv'
<1>1. query' = q /\ pages' = Settled(q, at) /\ loads' = Loads(q) /\ saved' = saved /\ ready' = ready
  BY DEF Becomes
<1>2. Loads(q) \subseteq Responses /\ Settled(q, at) \in [Pages -> {"away", "watching", "waiting", "resolved"}]
  BY DEF Loads, Settled, TypeInv, TypeOK, Queries
<1>3. QED
  BY <1>1, <1>2 DEF TypeInv, TypeOK, UrlsAsked

(* A query is started by a page that comes, with the flows that it has,    *)
(* and by nothing else.                                                    *)
LEMMA TypeStep ==
  ASSUME TypeInv, [Next]_vars
  PROVE  /\ TypeInv'
         /\ Begins => \E p \in Pages, what \in {"watching", "waiting"} : Come(p, what)
         /\ (\E p \in Pages, what \in {"watching", "waiting"} : Come(p, what)) /\ ~query.started
              => query'.started /\ query'.asyncStart = query.asyncStart
<1>1. query \in Queries /\ UrlsAsked(query) /\ pages \in [Pages -> {"away", "watching", "waiting", "resolved"}]
  BY DEF TypeInv, TypeOK
<1>2. ASSUME NEW p \in Pages, NEW what \in {"watching", "waiting"}, Come(p, what)
      PROVE  TypeInv' /\ (~query.started => query'.started /\ query'.asyncStart = query.asyncStart)
  <2> DEFINE began == IF query.started THEN query ELSE Start(query)
             fetched == IF what = "waiting" /\ ~began.isFetching THEN Fetch(began) ELSE began
             at == [pages EXCEPT ![p] = what]
  <2>1. began \in Queries /\ UrlsAsked(began) /\ began.started /\ began.asyncStart = query.asyncStart
    BY <1>1, TypedStart
  <2> HIDE DEF began
  <2>2. fetched \in Queries /\ UrlsAsked(fetched) /\ fetched.started /\ fetched.asyncStart = query.asyncStart
    BY <2>1, TypedFetch
  <2>3. Becomes(fetched, at) /\ UNCHANGED <<saved, ready>>
    BY <1>2 DEF Come, began
  <2>4. at \in [Pages -> {"away", "watching", "waiting", "resolved"}]
    BY <1>1
  <2> HIDE DEF fetched, at
  <2>5. QED
    BY <2>2, <2>3, <2>4, TypedBecomes DEF Becomes
<1>3. ASSUME NEW p \in Pages, Leave(p)
      PROVE  TypeInv' /\ ~Begins
  <2> DEFINE q == IF \A o \in Pages \ {p} : pages[o] = "away" THEN Stop(query) ELSE query
             at == [pages EXCEPT ![p] = "away"]
  <2>1. q \in Queries /\ UrlsAsked(q) /\ (q.started => query.started)
    BY <1>1, TypedStop
  <2>2. Becomes(q, at) /\ UNCHANGED <<saved, ready>>
    BY <1>3 DEF Leave
  <2>3. at \in [Pages -> {"away", "watching", "waiting", "resolved"}]
    BY <1>1
  <2> HIDE DEF q, at
  <2>4. QED
    BY <2>1, <2>2, <2>3, TypedBecomes DEF Becomes, Begins
<1>4. ASSUME NEW u \in Urls, SetUrl(u)
      PROVE  TypeInv' /\ ~Begins
  <2> DEFINE q == [query EXCEPT !.url = u, !.canFetch = TRUE]
  <2>1. q \in Queries /\ UrlsAsked(q) /\ q.started = query.started
    BY <1>1 DEF Queries, UrlsAsked
  <2>2. Becomes(Fetch(q), pages) /\ UNCHANGED <<saved, ready>>
    BY <1>4 DEF SetUrl
  <2> HIDE DEF q
  <2>3. QED
    BY <1>1, <2>1, <2>2, TypedFetch, TypedBecomes DEF Becomes, Begins
<1>5. ASSUME Refresh \/ IntervalFetch
      PROVE  TypeInv' /\ ~Begins
  <2>1. Becomes(Fetch(query), pages) /\ UNCHANGED <<saved, ready>>
    BY <1>5 DEF Refresh, IntervalFetch
  <2>2. QED
    BY <1>1, <2>1, TypedFetch, TypedBecomes DEF Becomes, Begins
<1>6. ASSUME NEW f \in Flows, Request(f)
      PROVE  TypeInv' /\ ~Begins
  <2> DEFINE flow == [query.flows[f] EXCEPT !.pc = "requested", !.url = query.url]
  <2>1. flow \in Flow /\ flow.url \in Urls
    BY <1>1 DEF Queries, Flow
  <2>2. query' = [query EXCEPT !.flows[f] = flow] /\ UNCHANGED <<pages, loads, saved, ready>>
    BY <1>1, <1>6 DEF Request, Queries
  <2> HIDE DEF flow
  <2>3. query' \in Queries /\ UrlsAsked(query)' /\ query'.started = query.started
    BY <1>1, <2>1, <2>2 DEF Queries, UrlsAsked, Flow
  <2>4. QED
    BY <2>2, <2>3 DEF TypeInv, TypeOK, Begins
<1>7. ASSUME NEW f \in Flows, CancelledEnds(f)
      PROVE  TypeInv' /\ ~Begins
  <2> DEFINE q == [query EXCEPT !.flows[f] = Over, !.isFetching = @ /\ query.flows[f].pc = "next"]
  <2>1. q \in Queries /\ UrlsAsked(q) /\ q.started = query.started
    BY <1>1 DEF Queries, UrlsAsked, Over
  <2>2. Becomes(q, pages) /\ UNCHANGED <<saved, ready>>
    BY <1>7 DEF CancelledEnds
  <2> HIDE DEF q
  <2>3. QED
    BY <1>1, <2>1, <2>2, TypedBecomes DEF Becomes, Begins
<1>8. ASSUME NEW f \in Flows, GoesOn(f)
      PROVE  TypeInv' /\ ~Begins
  <2> DEFINE over == [query EXCEPT !.flows[f] = Over]
             q == IF query.started /\ query.canFetch THEN Proceed(over, f) ELSE over
  <2>1. over \in Queries /\ UrlsAsked(over) /\ over.started = query.started
    BY <1>1 DEF Queries, UrlsAsked, Over
  <2> HIDE DEF over
  <2>2. q \in Queries /\ UrlsAsked(q) /\ q.started = query.started
    BY <2>1, TypedProceed
  <2>3. Becomes(q, pages) /\ UNCHANGED <<saved, ready>>
    BY <1>8 DEF GoesOn, over
  <2> HIDE DEF q
  <2>4. QED
    BY <1>1, <2>2, <2>3, TypedBecomes DEF Becomes, Begins
<1>9. ASSUME OnStartDone
      PROVE  TypeInv' /\ ~Begins
  <2> DEFINE q == [query EXCEPT !.onStart = "none"]
  <2>1. q \in Queries /\ UrlsAsked(q) /\ q.started = query.started
    BY <1>1 DEF Queries, UrlsAsked
  <2>2. Becomes(Fetch(q), pages) /\ UNCHANGED <<saved, ready>>
    BY <1>9 DEF OnStartDone
  <2> HIDE DEF q
  <2>3. QED
    BY <1>1, <2>1, <2>2, TypedFetch, TypedBecomes DEF Becomes, Begins
<1>10. ASSUME OnStartFails
       PROVE  TypeInv' /\ ~Begins
  BY <1>1, <1>10 DEF OnStartFails, TypeInv, TypeOK, Queries, UrlsAsked, Begins
<1>11. ASSUME Ready
       PROVE  TypeInv' /\ ~Begins
  BY <1>1, <1>11 DEF Ready, TypeInv, TypeOK, UrlsAsked, Begins
<1>12. ASSUME NEW r \in loads, StaledResponse(r)
       PROVE  TypeInv' /\ ~Begins
  <2> DEFINE old == [r EXCEPT !.staled = TRUE]
  <2>1. old \in Responses
    BY DEF Responses, TypeInv, TypeOK
  <2>2. /\ query' = IF query.response = Nothing THEN [query EXCEPT !.response = old] ELSE query
        /\ loads' \subseteq loads /\ UNCHANGED <<pages, saved, ready>>
    BY <1>12 DEF StaledResponse
  <2> HIDE DEF old
  <2>3. query' \in Queries /\ UrlsAsked(query)' /\ query'.started = query.started
    BY <1>1, <2>1, <2>2 DEF Queries, UrlsAsked
  <2>4. QED
    BY <2>2, <2>3 DEF TypeInv, TypeOK, Begins
<1>13. ASSUME NEW f \in Flows, query.flows[f].pc = "requested"
       PROVE  Ends(f) \in Queries /\ UrlsAsked(Ends(f)) /\ Ends(f).started = query.started
  BY <1>1 DEF Ends, Queries, UrlsAsked, Over
<1>14. ASSUME NEW f \in Flows, Answer(f)
       PROVE  TypeInv' /\ ~Begins
  <2> DEFINE o == Ends(f)
             response == [url |-> query.flows[f].url, staled |-> FALSE]
             q == [o EXCEPT !.response = response, !.error = FALSE]
  <2>1. o \in Queries /\ UrlsAsked(o) /\ o.started = query.started /\ response \in Responses
    BY <1>1, <1>13, <1>14 DEF Answer, UrlsAsked, Responses
  <2>2. Becomes(q, pages) /\ saved' = [saved EXCEPT ![query.url] = response] /\ ready' = ready
    BY <1>14 DEF Answer
  <2> HIDE DEF o, response
  <2>3. q \in Queries /\ UrlsAsked(q) /\ q.started = query.started
    BY <2>1 DEF Queries, UrlsAsked
  <2> HIDE DEF q
  <2>4. Loads(q) \subseteq Responses /\ Settled(q, pages) \in [Pages -> {"away", "watching", "waiting", "resolved"}]
    BY <1>1, <2>3 DEF Loads, Settled, TypeInv, TypeOK, Queries
  <2>5. saved' \in [Urls -> Responses \cup {Nothing}]
    BY <2>1, <2>2 DEF TypeInv, TypeOK
  <2>6. QED
    BY <2>2, <2>3, <2>4, <2>5 DEF Becomes, TypeInv, TypeOK, UrlsAsked, Begins
<1>15. ASSUME NEW f \in Flows, StrangeAnswer(f)
       PROVE  TypeInv' /\ ~Begins
  <2> DEFINE flow == [Over EXCEPT !.pc = "asked", !.again = TRUE]
  <2>1. flow \in Flow /\ flow.pc = "asked"
    BY DEF Flow, Over
  <2>2. query' = [query EXCEPT !.flows[f] = flow] /\ UNCHANGED <<pages, loads, saved, ready>>
    BY <1>15 DEF StrangeAnswer
  <2> HIDE DEF flow
  <2>3. query' \in Queries /\ UrlsAsked(query)' /\ query'.started = query.started
    BY <1>1, <2>1, <2>2 DEF Queries, UrlsAsked, Flow
  <2>4. QED
    BY <2>2, <2>3 DEF TypeInv, TypeOK, Begins
<1>16. ASSUME NEW f \in Flows, Fails(f)
       PROVE  TypeInv' /\ ~Begins
  <2> DEFINE o == Ends(f)
             q == [o EXCEPT !.error = TRUE]
  <2>1. o \in Queries /\ UrlsAsked(o) /\ o.started = query.started
    BY <1>13, <1>16 DEF Fails
  <2>2. Becomes(q, pages) /\ UNCHANGED <<saved, ready>>
    BY <1>16 DEF Fails
  <2> HIDE DEF o
  <2>3. q \in Queries /\ UrlsAsked(q) /\ q.started = query.started
    BY <2>1 DEF Queries, UrlsAsked
  <2> HIDE DEF q
  <2>4. QED
    BY <1>1, <2>2, <2>3, TypedBecomes DEF Becomes, Begins
<1>17. CASE UNCHANGED vars
  <2>1. UNCHANGED <<query, pages, loads, saved, ready>>
    BY <1>17 DEF vars
  <2>2. TypeInv' /\ ~Begins /\ (~query.started => ~query'.started)
    BY <2>1 DEF TypeInv, TypeOK, UrlsAsked, Begins
  <2>3. \A p \in Pages, what \in {"watching", "waiting"} : Come(p, what) => query'.started \/ query.started
    BY <1>2
  <2>4. QED
    BY <2>2, <2>3
<1>18. QED
  BY <1>2, <1>3, <1>4, <1>5, <1>6, <1>7, <1>8, <1>9, <1>10, <1>11, <1>12, <1>14, <1>15, <1>16, <1>17 DEF Next

LEMMA TypeInvariant == Spec => []TypeInv
<1>1. Init => TypeInv
  BY QueryAssumption DEF Init, TypeInv, TypeOK, Queries, UrlsAsked, Over, Responses
<1>2. TypeInv /\ [Next]_vars => TypeInv'
  BY TypeStep
<1>3. QED
  BY <1>1, <1>2, PTL DEF Spec

-----------------------------------------------------------------------------
(* What is proved under these conditions: what depends on the second one   *)
(* is asked for only if d.                                                 *)

(* Nothing shown is fresh.                                                 *)
Stale(q) == q.response = Nothing \/ q.response.staled

(* What holds of the object while the code that changes it runs: it may    *)
(* have got a new url, or just have been started.                          *)
Base(q, d) ==
    /\ \A f, g \in InFlight(q) : f = g
    /\ InFlight(q) # {} => q.isFetching /\ q.started /\ ready /\ q.canFetch
    /\ q.started => \A f \in Flows : q.flows[f].pc # "stop"
    /\ q.onStart # "none" => q.asyncStart /\ q.started
    /\ d /\ q.onStart # "none" =>
        /\ q.isFetching /\ InFlight(q) = {}
        /\ \A f \in Flows : q.flows[f].pc # "deferred"
    /\ ~ready => Stale(q)
    /\ ~q.canFetch => q.response = Nothing

(* What is asked for and what is shown is of the url.                      *)
OfUrl(q, d) ==
    d => /\ \A f \in Flows : q.flows[f].pc = "requested" => q.flows[f].url = q.url
         /\ q.started /\ q.onStart = "none" /\ ready => Stale(q) \/ q.response.url = q.url

(* Who comes while onStart() is under way finds something to wait for, or  *)
(* what a call that waited for the controller has brought.                 *)
Occupied(q) == q.onStart # "none" => q.isFetching \/ Fresh(q) \/ q.error

(* Whoever waits, waits for something.                                     *)
Awaited(q, at) ==
    \A p \in Pages : /\ at[p] # "away" => q.started
                     /\ at[p] = "waiting" => q.isFetching

IInv(d) ==
    /\ TypeOK /\ Base(query, d) /\ OfUrl(query, d) /\ Occupied(query) /\ Awaited(query, pages)
    /\ d => SavedUnderItsUrl
    /\ ~query.canFetch => loads = {}

(* What WaitGetsFresh says of a step.                                      *)
Gets ==
    \A p \in Pages : pages[p] # "resolved" /\ pages'[p] = "resolved"
        => Fresh(query)' \/ query'.error \/ ~query'.canFetch

-----------------------------------------------------------------------------
(* What cancel() leaves of an object.                                      *)
LEMMA Cancelled ==
  ASSUME NEW q \in Queries, NEW why \in {"next", "stop"}
  PROVE  /\ Cancel(q, why) \in Queries
         /\ InFlight(Cancel(q, why)) = {}
         /\ Cancel(q, why) = [q EXCEPT !.flows = Cancel(q, why).flows]
         /\ \A f \in Flows : Cancel(q, why).flows[f].pc = q.flows[f].pc \/ Cancel(q, why).flows[f].pc = why
  BY DEF Cancel, InFlight, Queries, Over

(* A request is asked for: it is the only one.                             *)
LEMMA Proceeds ==
  ASSUME NEW d \in BOOLEAN, NEW q \in Queries, NEW f \in Flows, Base(q, d), ready, q.started, q.canFetch,
         d => q.onStart = "none",
         q.flows[f] = Over \/ q.flows[f].pc = "deferred"
  PROVE  Proceed(q, f) \in Queries /\ Base(Proceed(q, f), d) /\ OfUrl(Proceed(q, f), d) /\ Proceed(q, f).isFetching
<1> DEFINE alone == IF q.isFetching THEN Cancel(q, "next") ELSE q
<1>1. alone \in Queries /\ InFlight(alone) = {} /\ alone = [q EXCEPT !.flows = alone.flows]
  BY Cancelled DEF Base, Queries
<1>2. \A g \in Flows : alone.flows[g].pc # "stop"
  BY Cancelled DEF Base
<1> DEFINE response == IF q.response = Nothing THEN Nothing ELSE [q.response EXCEPT !.staled = TRUE]
           r == Proceed(q, f)
<1>3. response = Nothing \/ (response \in Responses /\ response.staled)
  BY DEF Queries, Responses
<1>4. r = [alone EXCEPT !.flows[f] = [Over EXCEPT !.pc = "asked"], !.isFetching = TRUE, !.response = response]
  BY DEF Proceed
<1>5. /\ r.flows = [alone.flows EXCEPT ![f] = [Over EXCEPT !.pc = "asked"]]
      /\ r.isFetching = TRUE /\ r.response = response
      /\ r.started = q.started /\ r.canFetch = q.canFetch /\ r.onStart = q.onStart
      /\ r.url = q.url /\ r.asyncStart = q.asyncStart /\ r.error = q.error
  <2> HIDE DEF response, alone
  <2>1. QED
    BY <1>1, <1>4 DEF Queries
<1>6. r \in Queries
  <2> HIDE DEF response, alone
  <2>1. [Over EXCEPT !.pc = "asked"] \in [pc : {"asked"}, url : Urls \cup {Nothing}, again : BOOLEAN]
    BY DEF Over
  <2>2. r.flows \in [Flows -> [pc : {"over", "deferred", "asked", "requested", "next", "stop"},
                              url : Urls \cup {Nothing}, again : BOOLEAN]]
    BY <1>1, <1>5, <2>1 DEF Queries
  <2>3. r = [alone EXCEPT !.flows = r.flows, !.isFetching = TRUE, !.response = response]
    BY <1>4
  <2>4. ASSUME NEW o \in Queries, NEW n \in Responses \cup {Nothing},
               NEW flows \in [Flows -> [pc : {"over", "deferred", "asked", "requested", "next", "stop"},
                                       url : Urls \cup {Nothing}, again : BOOLEAN]]
        PROVE  [o EXCEPT !.flows = flows, !.isFetching = TRUE, !.response = n] \in Queries
    BY DEF Queries
  <2>5. response \in Responses \cup {Nothing}
    BY <1>3
  <2> HIDE DEF r
  <2>6. [alone EXCEPT !.flows = r.flows, !.isFetching = TRUE, !.response = response] \in Queries
    BY <1>1, <2>2, <2>4, <2>5, Zenon
  <2>7. QED
    BY <2>3, <2>6, Zenon
<1>7. InFlight(r) = {f} /\ \A g \in Flows : r.flows[g].pc \notin {"requested", "stop"}
  <2> HIDE DEF response, alone, r
  <2>1. QED
    BY <1>1, <1>2, <1>5 DEF InFlight, Queries, Over
<1>8. QED
  <2> HIDE DEF response, alone, r
  <2>1. r \in Queries /\ Base(r, d) /\ OfUrl(r, d) /\ r.isFetching
    BY <1>3, <1>5, <1>6, <1>7 DEF Base, OfUrl, Stale
  <2>2. QED
    BY <2>1 DEF r

(* fetch() keeps what holds of the object, and gives it what depends on    *)
(* the url, whatever the url was before.                                   *)
LEMMA Fetches ==
  ASSUME NEW d \in BOOLEAN, NEW q \in Queries, Base(q, d), Occupied(q), \E f \in Flows : q.flows[f] = Over
  PROVE  /\ Fetch(q) \in Queries /\ Base(Fetch(q), d) /\ OfUrl(Fetch(q), d) /\ Occupied(Fetch(q))
         /\ q.started => Fetch(q).isFetching \/ Fresh(Fetch(q)) \/ Fetch(q).error \/ ~q.canFetch
         /\ q.isFetching => Fetch(q).isFetching
         /\ Fetch(q).started = q.started /\ Fetch(q).canFetch = q.canFetch
<1>1. NewFlow(q) \in Flows /\ q.flows[NewFlow(q)] = Over
  BY DEF NewFlow
<1>2. CASE ~q.started \/ q.onStart # "none"
  BY <1>2 DEF Fetch, Base, OfUrl, Occupied, InFlight
<1>3. CASE q.started /\ q.onStart = "none" /\ ~ready
  BY <1>1, <1>3 DEF Fetch, Defer, Base, OfUrl, Occupied, InFlight, Queries, Over, Stale
<1>4. CASE q.started /\ q.onStart = "none" /\ ready /\ q.canFetch
  <2>1. Fetch(q) = Proceed(q, NewFlow(q))
    BY <1>4 DEF Fetch
  <2>2. Proceed(q, NewFlow(q)).started = q.started /\ Proceed(q, NewFlow(q)).canFetch = q.canFetch
    BY Cancelled DEF Proceed, Queries
  <2>3. QED
    BY <1>1, <1>4, <2>1, <2>2, Proceeds DEF Occupied
<1>5. CASE q.started /\ q.onStart = "none" /\ ready /\ ~q.canFetch
  BY <1>5 DEF Fetch, Base, OfUrl, Occupied, InFlight, Stale
<1>6. QED
  BY <1>2, <1>3, <1>4, <1>5

(* A query that is started when nothing is left of the last time.          *)
LEMMA StartsClean ==
  ASSUME NEW d \in BOOLEAN, NEW q \in Queries, Base(q, d), ~q.started, \E f \in Flows : q.flows[f] = Over,
         \A f \in Flows : q.flows[f].pc # "stop" /\ (d /\ q.asyncStart => q.flows[f].pc # "deferred"),
         q.onStart = "none"
  PROVE  /\ Start(q) \in Queries /\ Base(Start(q), d) /\ OfUrl(Start(q), d) /\ Occupied(Start(q))
         /\ Start(q).started /\ Start(q).canFetch = q.canFetch
         /\ \/ Start(q).isFetching
            \/ ~q.asyncStart /\ (Fresh(Start(q)) \/ Start(q).error \/ ~q.canFetch)
<1> DEFINE now == [q EXCEPT !.started = TRUE]
<1>1. now \in Queries /\ Base(now, d) /\ Occupied(now) /\ InFlight(now) = {} /\ now.started /\ now.canFetch = q.canFetch /\ now.flows = q.flows
  BY DEF Queries, Base, Occupied, InFlight, Stale
<1>2. CASE q.asyncStart
  BY <1>2 DEF Start, Queries, Base, OfUrl, Occupied, InFlight, Stale
<1>3. CASE ~q.asyncStart
  <2>1. Start(q) = Fetch(now)
    BY <1>3 DEF Start
  <2> HIDE DEF now
  <2>2. QED
    BY <1>1, <1>3, <2>1, Fetches
<1>4. QED
  BY <1>2, <1>3

(* What a step makes of the object and of the pages.                       *)
LEMMA Kept ==
  ASSUME NEW d \in BOOLEAN, IInv(d), NEW q \in Queries, Base(q, d), OfUrl(q, d), Occupied(q), query.canFetch => q.canFetch,
         NEW at \in [Pages -> {"away", "watching", "waiting", "resolved"}],
         \A p \in Pages : /\ at[p] # "away" => q.started
                          /\ at[p] = "waiting" => q.isFetching \/ Fresh(q) \/ q.error \/ ~q.canFetch
                          /\ at[p] = "resolved" => pages[p] = "resolved",
         Becomes(q, at), UNCHANGED <<saved, ready>>
  PROVE  IInv(d)' /\ Gets
<1>1. query' = q /\ pages' = Settled(q, at) /\ loads' = Loads(q) /\ saved' = saved /\ ready' = ready
  BY DEF Becomes
<1>2. Loads(q) \subseteq Responses /\ (~q.canFetch => Loads(q) = {})
  BY DEF Loads, IInv, TypeOK, Base, Queries
<1>3. Settled(q, at) \in [Pages -> {"away", "watching", "waiting", "resolved"}] /\ Awaited(q, Settled(q, at))
  BY DEF Settled, Awaited
<1>4. TypeOK'
  BY <1>1, <1>2, <1>3 DEF IInv, TypeOK
<1>5. Base(query, d)' /\ OfUrl(query, d)' /\ Occupied(query)'
  BY <1>1 DEF Base, OfUrl, Occupied, InFlight, Stale, Fresh
<1>6. Awaited(query, pages)'
  BY <1>1, <1>3 DEF Awaited
<1>7. (d => SavedUnderItsUrl)'
  BY <1>1 DEF IInv, SavedUnderItsUrl
<1>8. Gets
  BY <1>1 DEF Gets, Settled, Fresh
<1>9. QED
  BY <1>1, <1>2, <1>4, <1>5, <1>6, <1>7, <1>8 DEF IInv

-----------------------------------------------------------------------------
(* Whatever calls fetch() on the object.                                   *)
LEMMA FetchStep ==
  ASSUME NEW d \in BOOLEAN, IInv(d), NEW q \in Queries, Base(q, d), Occupied(q), \E f \in Flows : q.flows[f] = Over, q.started = query.started,
         query.canFetch => q.canFetch, query.isFetching => q.isFetching \/ q.canFetch,
         Becomes(Fetch(q), pages), UNCHANGED <<saved, ready>>
  PROVE  IInv(d)' /\ Gets
<1>1. \A p \in Pages : pages[p] # "away" => Fetch(q).started
  BY Fetches DEF IInv, Awaited
<1>2. \A p \in Pages : pages[p] = "waiting"
        => Fetch(q).isFetching \/ Fresh(Fetch(q)) \/ Fetch(q).error \/ ~Fetch(q).canFetch
  BY Fetches, <1>1
<1>3. pages \in [Pages -> {"away", "watching", "waiting", "resolved"}]
  BY DEF IInv, TypeOK
<1>4. QED
  BY <1>1, <1>2, <1>3, Fetches, Kept

LEMMA ComeStep ==
  ASSUME NEW d \in BOOLEAN, IInv(d), NEW p \in Pages, NEW what \in {"watching", "waiting"}, Come(p, what), Quiet(d)
  PROVE  IInv(d)' /\ Gets
<1> DEFINE began == IF query.started THEN query ELSE Start(query)
           fetched == IF what = "waiting" /\ ~began.isFetching THEN Fetch(began) ELSE began
           at == [pages EXCEPT ![p] = what]
<1>1. query \in Queries /\ Base(query, d) /\ pages[p] = "away" /\ Room /\ Occupied(query)
  BY DEF IInv, TypeOK, Come
<1>2. /\ began \in Queries /\ Base(began, d) /\ began.started /\ began.canFetch = query.canFetch
      /\ OfUrl(began, d) /\ Occupied(began)
  <2>1. CASE query.started
    BY <1>1, <2>1 DEF IInv
  <2>2. CASE ~query.started
    BY <1>1, <2>2, StartsClean DEF Quiet, Room, Base, Queries
  <2>3. QED
    BY <2>1, <2>2
<1>3. IF what = "waiting" /\ ~began.isFetching
      THEN fetched = Fetch(began) /\ \E f \in Flows : began.flows[f] = Over
      ELSE fetched = began
  <2>1. ASSUME what = "waiting", ~began.isFetching
        PROVE  \E f \in Flows : began.flows[f] = Over
    <3>1. CASE query.started
      BY <1>1, <3>1 DEF Room
    <3>2. CASE ~query.started
      <4>1. PICK f \in Flows : query.flows[f] = Over
        BY <1>1 DEF Room
      <4>2. began = Start(query) /\ ~query.asyncStart
        BY <2>1, <3>2, <1>1, <4>1 DEF Start, Queries
      <4>3. QED
        BY <2>1, <3>2, <4>1, <4>2, <1>1 DEF Start, Fetch, Defer, Proceed, Queries
    <3>3. QED
      BY <3>1, <3>2
  <2>2. QED
    BY <2>1
<1>4. what = "waiting" => fetched.isFetching \/ Fresh(fetched) \/ fetched.error \/ ~fetched.canFetch
  <2>1. CASE began.isFetching
    BY <2>1
  <2>2. CASE what = "waiting" /\ ~began.isFetching
    <3>1. fetched = Fetch(began)
      BY <2>2
    <3>2. \E f \in Flows : began.flows[f] = Over
      BY <1>3, <2>2, <3>1
    <3> HIDE DEF began, fetched
    <3>3. QED
      BY <1>2, <3>1, <3>2, Fetches
  <2>3. QED
    BY <2>1, <2>2
<1>5. fetched \in Queries /\ Base(fetched, d) /\ OfUrl(fetched, d) /\ Occupied(fetched) /\ fetched.started /\ fetched.canFetch = query.canFetch
  BY <1>2, <1>3, Fetches
<1>6. at \in [Pages -> {"away", "watching", "waiting", "resolved"}]
  BY DEF IInv, TypeOK
<1>7. \A o \in Pages : /\ at[o] = "waiting" => fetched.isFetching \/ Fresh(fetched) \/ fetched.error \/ ~fetched.canFetch
                       /\ at[o] = "resolved" => pages[o] = "resolved"
  <2>1. \A o \in Pages \ {p} : at[o] = "waiting" => query.started /\ query.isFetching
    BY DEF IInv, Awaited, TypeOK
  <2>2. query.started /\ query.isFetching => fetched.isFetching
    BY <1>3
  <2>3. QED
    BY <1>4, <1>6, <2>1, <2>2 DEF IInv, TypeOK
<1>8. Becomes(fetched, at) /\ UNCHANGED <<saved, ready>>
  BY DEF Come
<1>9. QED
  <2> HIDE DEF fetched, at
  <2>1. QED
    BY <1>5, <1>6, <1>7, <1>8, Kept

LEMMA LeaveStep ==
  ASSUME NEW d \in BOOLEAN, IInv(d), NEW p \in Pages, Leave(p)
  PROVE  IInv(d)' /\ Gets
<1> DEFINE last == \A o \in Pages \ {p} : pages[o] = "away"
           q == IF last THEN Stop(query) ELSE query
           at == [pages EXCEPT ![p] = "away"]
<1>1. query \in Queries /\ Base(query, d) /\ OfUrl(query, d) /\ pages \in [Pages -> {"away", "watching", "waiting", "resolved"}]
  BY DEF IInv, TypeOK
<1>2. Becomes(q, at) /\ UNCHANGED <<saved, ready>>
  BY DEF Leave
<1>3. CASE last
  <2> DEFINE calm == IF query.isFetching THEN Cancel(query, "stop") ELSE query
  <2>1. calm \in Queries /\ InFlight(calm) = {} /\ calm = [query EXCEPT !.flows = calm.flows]
    BY <1>1, Cancelled DEF Base, Queries
  <2>2. \A f \in Flows : calm.flows[f].pc = "requested" => FALSE
    BY <2>1 DEF InFlight
  <2>3. Stop(query) = [calm EXCEPT !.started = FALSE, !.onStart = "none", !.isFetching = FALSE]
    BY DEF Stop
  <2> HIDE DEF calm
  <2>4. /\ Stop(query) \in Queries /\ Stop(query).flows = calm.flows /\ ~Stop(query).started
        /\ Stop(query).onStart = "none" /\ Stop(query).canFetch = query.canFetch
        /\ Stop(query).response = query.response /\ InFlight(Stop(query)) = {}
    BY <2>1, <2>3 DEF Queries, InFlight
  <2>5. Base(Stop(query), d) /\ OfUrl(Stop(query), d) /\ Occupied(Stop(query))
    BY <1>1, <2>2, <2>4 DEF Base, OfUrl, Occupied, Stale
  <2>6. at \in [Pages -> {"away"}]
    BY <1>1, <1>3
  <2>7. QED
    BY <1>2, <1>3, <2>4, <2>5, <2>6, Kept
<1>4. CASE ~last
  <2>1. at \in [Pages -> {"away", "watching", "waiting", "resolved"}]
    BY <1>1
  <2>2. \A o \in Pages : /\ at[o] # "away" => query.started
                         /\ at[o] = "waiting" => query.isFetching
                         /\ at[o] = "resolved" => pages[o] = "resolved"
    BY <1>1 DEF IInv, Awaited
  <2>3. QED
    BY <1>1, <1>2, <1>4, <2>1, <2>2, Kept DEF IInv
<1>5. QED
  BY <1>3, <1>4

(* Microtasks.                                                             *)
LEMMA RequestStep ==
  ASSUME NEW d \in BOOLEAN, IInv(d), NEW f \in Flows, Request(f)
  PROVE  IInv(d)' /\ Gets
<1>1. query \in Queries /\ Base(query, d) /\ OfUrl(query, d) /\ query.flows[f].pc = "asked"
  BY DEF IInv, TypeOK, Request
<1>2. query' \in Queries /\ UNCHANGED <<pages, loads, saved, ready>>
  <2> DEFINE flow == [query.flows[f] EXCEPT !.pc = "requested", !.url = query.url]
  <2>1. flow \in [pc : {"requested"}, url : Urls \cup {Nothing}, again : BOOLEAN]
    BY <1>1 DEF Queries
  <2>2. query' = [query EXCEPT !.flows[f] = flow] /\ UNCHANGED <<pages, loads, saved, ready>>
    BY <1>1 DEF Request, Queries
  <2> HIDE DEF flow
  <2>3. QED
    BY <1>1, <2>1, <2>2 DEF Queries
<1>3. Base(query, d)' /\ OfUrl(query, d)' /\ Occupied(query)'
  BY <1>1 DEF Request, IInv, Base, OfUrl, Occupied, Fresh, InFlight, Stale, Queries
<1>4. QED
  BY <1>1, <1>2, <1>3 DEF Request, IInv, TypeOK, Awaited, SavedUnderItsUrl, Gets, Queries

Without(f, busy) == [query EXCEPT !.flows[f] = Over, !.isFetching = busy]

(* A call of fetch() that is over leaves the object as it was, or the      *)
(* object is stopped.                                                      *)
LEMMA OverKept ==
  ASSUME NEW d \in BOOLEAN, IInv(d), NEW f \in Flows, query.flows[f].pc \notin {"asked", "requested"},
         NEW busy \in BOOLEAN, query.started /\ query.isFetching => busy
  PROVE  LET q == Without(f, busy) IN
         /\ q \in Queries /\ Base(q, d) /\ OfUrl(q, d) /\ Occupied(q) /\ q.canFetch = query.canFetch
         /\ q.started = query.started /\ q.flows[f] = Over /\ q.isFetching = busy
<1> DEFINE q == Without(f, busy)
<1>1. query \in Queries /\ Base(query, d) /\ OfUrl(query, d) /\ Occupied(query)
  BY DEF IInv, TypeOK
<1>2. /\ q.flows = [query.flows EXCEPT ![f] = Over] /\ q.isFetching = busy /\ q.started = query.started
      /\ q.canFetch = query.canFetch /\ q.onStart = query.onStart /\ q.asyncStart = query.asyncStart
      /\ q.response = query.response /\ q.url = query.url /\ q.error = query.error
  BY <1>1 DEF Queries, Without
<1>3. q \in Queries
  BY <1>1 DEF Queries, Over, Without
<1> HIDE DEF q
<1>4. InFlight(q) = InFlight(query) /\ \A g \in Flows : q.flows[g] = query.flows[g] \/ q.flows[g] = Over
  BY <1>1, <1>2 DEF InFlight, Queries, Over
<1>5. \A g \in Flows : q.flows[g].pc \in {"requested", "stop", "deferred"} => q.flows[g] = query.flows[g]
  BY <1>4 DEF Over
<1>6. Base(q, d)
  BY <1>1, <1>2, <1>4, <1>5 DEF Base, Stale
<1>7. OfUrl(q, d)
  BY <1>1, <1>2, <1>5 DEF OfUrl, Stale
<1>8. Occupied(q)
  BY <1>1, <1>2 DEF Occupied, Base, Fresh
<1>9. QED
  BY <1>1, <1>2, <1>3, <1>6, <1>7, <1>8 DEF Queries, q

LEMMA CancelledStep ==
  ASSUME NEW d \in BOOLEAN, IInv(d), NEW f \in Flows, CancelledEnds(f)
  PROVE  IInv(d)' /\ Gets
<1> DEFINE busy == query.isFetching /\ query.flows[f].pc = "next"
           q == Without(f, busy)
<1>1. query \in Queries /\ Base(query, d) /\ query.flows[f].pc \in {"next", "stop"}
  BY DEF IInv, TypeOK, CancelledEnds
<1>2. busy \in BOOLEAN /\ (query.started => busy = query.isFetching)
  BY <1>1 DEF Base, Queries
<1>3. Becomes(q, pages) /\ UNCHANGED <<saved, ready>>
  BY <1>1 DEF CancelledEnds, Queries, Without
<1>4. /\ q \in Queries /\ Base(q, d) /\ OfUrl(q, d) /\ Occupied(q) /\ q.canFetch = query.canFetch
      /\ q.started = query.started /\ q.isFetching = busy
  <2> HIDE DEF busy
  <2>1. QED
    BY <1>1, <1>2, OverKept
<1>5. \A p \in Pages : /\ pages[p] # "away" => q.started
                       /\ pages[p] = "waiting" => q.isFetching
  BY <1>2, <1>4 DEF IInv, Awaited
<1>6. QED
  <2> HIDE DEF q
  <2>1. QED
    BY <1>3, <1>4, <1>5, Kept DEF IInv, TypeOK

LEMMA GoesOnStep ==
  ASSUME NEW d \in BOOLEAN, IInv(d), NEW f \in Flows, GoesOn(f)
  PROVE  IInv(d)' /\ Gets
<1> DEFINE over == [query EXCEPT !.flows[f] = Over]
           q == IF query.started /\ query.canFetch THEN Proceed(over, f) ELSE over
<1>1. query \in Queries /\ Base(query, d) /\ query.flows[f].pc = "deferred" /\ ready
      /\ (d => query.onStart = "none")
  BY DEF IInv, TypeOK, GoesOn, Base, Queries
<1>2. over = Without(f, query.isFetching)
  BY <1>1 DEF Queries, Without
<1>3. /\ over \in Queries /\ Base(over, d) /\ OfUrl(over, d) /\ Occupied(over) /\ over.canFetch = query.canFetch
      /\ over.started = query.started /\ over.flows[f] = Over /\ over.isFetching = query.isFetching
  <2> HIDE DEF over
  <2>1. query.isFetching \in BOOLEAN
    BY <1>1 DEF Queries
  <2>2. query.flows[f].pc \notin {"asked", "requested"}
    BY <1>1
  <2>3. QED
    BY <1>2, <2>1, <2>2, OverKept
<1>4. d => over.onStart = "none"
  BY <1>1 DEF Queries
<1>5. /\ q \in Queries /\ Base(q, d) /\ OfUrl(q, d) /\ Occupied(q) /\ q.canFetch = query.canFetch
      /\ q.started = query.started
      /\ query.isFetching => q.isFetching
  <2> HIDE DEF over
  <2>1. CASE query.started /\ query.canFetch
    <3>1. q = Proceed(over, f)
      BY <2>1
    <3>2. Proceed(over, f).started = over.started /\ Proceed(over, f).canFetch = over.canFetch
      BY Cancelled, <1>3 DEF Proceed, Queries
    <3>3. QED
      BY <1>1, <1>3, <1>4, <2>1, <3>1, <3>2, Proceeds DEF Occupied
  <2>2. CASE ~(query.started /\ query.canFetch)
    BY <1>3, <2>2
  <2>3. QED
    BY <2>1, <2>2
<1>6. Becomes(q, pages) /\ UNCHANGED <<saved, ready>>
  BY DEF GoesOn
<1>7. QED
  <2> HIDE DEF q
  <2>1. \A p \in Pages : /\ pages[p] # "away" => q.started
                         /\ pages[p] = "waiting" => q.isFetching
    BY <1>5 DEF IInv, Awaited
  <2>2. QED
    BY <1>5, <1>6, <2>1, Kept DEF IInv, TypeOK

(* The end of onStart().                                                   *)
LEMMA OnStartStep ==
  ASSUME NEW d \in BOOLEAN, IInv(d), OnStartDone \/ OnStartFails
  PROVE  IInv(d)' /\ Gets
<1>1. query \in Queries /\ Base(query, d) /\ OfUrl(query, d) /\ Occupied(query) /\ query.onStart = "running"
  BY DEF IInv, TypeOK, OnStartDone, OnStartFails
<1>2. CASE OnStartDone
  <2> DEFINE q == [query EXCEPT !.onStart = "none"]
  <2>1. /\ q \in Queries /\ Base(q, d) /\ Occupied(q) /\ q.started = query.started /\ q.canFetch = query.canFetch
        /\ q.flows = query.flows /\ q.isFetching = query.isFetching
    BY <1>1 DEF Base, Occupied, InFlight, Stale, Queries
  <2>2. Becomes(Fetch(q), pages) /\ UNCHANGED <<saved, ready>> /\ \E f \in Flows : query.flows[f] = Over
    BY <1>2 DEF OnStartDone, Room
  <2> HIDE DEF q
  <2>3. QED
    BY <2>1, <2>2, FetchStep
<1>3. CASE OnStartFails
  <2>1. query' = [query EXCEPT !.onStart = "failed"] /\ UNCHANGED <<pages, loads, saved, ready>>
    BY <1>3 DEF OnStartFails
  <2>2. query' \in Queries /\ Base(query, d)' /\ OfUrl(query, d)' /\ Occupied(query)'
    BY <1>1, <2>1 DEF Base, OfUrl, Occupied, Fresh, InFlight, Stale, Queries
  <2>3. QED
    BY <1>1, <2>1, <2>2 DEF IInv, TypeOK, Awaited, SavedUnderItsUrl, Gets, Queries
<1>4. QED
  BY <1>2, <1>3

-----------------------------------------------------------------------------
(* The request that is under way ends: nothing is under way.               *)
LEMMA Ended ==
  ASSUME NEW d \in BOOLEAN, IInv(d), NEW f \in Flows, query.flows[f].pc = "requested"
  PROVE  LET q == Ends(f) IN
         /\ q \in Queries /\ Base(q, d) /\ OfUrl(q, d) /\ InFlight(q) = {} /\ ~q.isFetching
         /\ q.started /\ q.canFetch /\ q.url = query.url /\ ready
         /\ d => q.onStart = "none" /\ query.flows[f].url = query.url
<1> DEFINE q == Ends(f)
<1>1. query \in Queries /\ Base(query, d) /\ OfUrl(query, d) /\ f \in InFlight(query)
  BY DEF IInv, TypeOK, InFlight
<1>2. /\ q.flows = [query.flows EXCEPT ![f] = Over] /\ ~q.isFetching /\ q.started = query.started
      /\ q.canFetch = query.canFetch /\ q.onStart = query.onStart /\ q.asyncStart = query.asyncStart
      /\ q.response = query.response /\ q.url = query.url
  BY <1>1 DEF Ends, Queries
<1>3. q \in Queries
  BY <1>1 DEF Queries, Ends, Over
<1>4. query.started /\ query.canFetch /\ ready /\ (d => query.onStart = "none")
  BY <1>1 DEF Base, Queries
<1> HIDE DEF q
<1>5. InFlight(q) = {}
  BY <1>1, <1>2 DEF Base, InFlight, Queries, Over
<1>6. \A g \in Flows : q.flows[g].pc \in {"requested", "stop"} => q.flows[g] = query.flows[g]
  BY <1>1, <1>2 DEF Queries, Over
<1>7. Base(q, d) /\ OfUrl(q, d)
  BY <1>1, <1>2, <1>4, <1>5, <1>6 DEF Base, OfUrl, Stale
<1>8. d => query.flows[f].url = query.url
  BY <1>1 DEF OfUrl
<1>9. QED
  BY <1>2, <1>3, <1>4, <1>5, <1>7, <1>8 DEF q

LEMMA AnswerStep ==
  ASSUME NEW d \in BOOLEAN, IInv(d), UrlsAsked(query), NEW f \in Flows, Answer(f)
  PROVE  IInv(d)' /\ Gets
<1> DEFINE response == [url |-> query.flows[f].url, staled |-> FALSE]
           o == Ends(f)
           q == [o EXCEPT !.response = response, !.error = FALSE]
<1>1. /\ o \in Queries /\ Base(o, d) /\ OfUrl(o, d) /\ InFlight(o) = {} /\ ~o.isFetching
      /\ o.started /\ o.canFetch /\ o.url = query.url /\ ready
      /\ d => o.onStart = "none" /\ query.flows[f].url = query.url
  BY Ended DEF Answer
<1>2. /\ Becomes(q, pages) /\ saved' = [saved EXCEPT ![query.url] = response] /\ ready' = ready
  BY <1>1 DEF Answer
<1>3. response \in Responses /\ query.url \in Urls
  BY DEF Responses, IInv, TypeOK, Queries, UrlsAsked, Answer
<1> HIDE DEF o
<1>4. q \in Queries /\ Base(q, d) /\ OfUrl(q, d) /\ InFlight(q) = {} /\ q.started /\ q.canFetch /\ Fresh(q)
  <2>1. /\ q.flows = o.flows /\ q.response = response /\ q.started = o.started /\ q.canFetch = o.canFetch
        /\ q.onStart = o.onStart /\ q.url = o.url /\ q.isFetching = o.isFetching /\ q.asyncStart = o.asyncStart
    BY <1>1 DEF Queries
  <2>2. q \in Queries
    BY <1>1, <1>3 DEF Queries
  <2>3. response # Nothing /\ ~response.staled /\ (d => response.url = query.url)
    BY <1>1, <1>3, QueryAssumption
  <2> HIDE DEF q, response
  <2>4. InFlight(q) = {} /\ Base(q, d) /\ OfUrl(q, d)
    BY <1>1, <2>1, <2>3 DEF Base, OfUrl, InFlight, Stale
  <2>5. QED
    BY <1>1, <2>1, <2>2, <2>3, <2>4 DEF Fresh
<1> HIDE DEF q
<1>5. loads' = loads /\ query' = q /\ pages' = Settled(q, pages)
  BY <1>2, <1>4 DEF Becomes, Loads
<1>6. Awaited(q, Settled(q, pages)) /\ Settled(q, pages) \in [Pages -> {"away", "watching", "waiting", "resolved"}]
  BY <1>4 DEF Settled, Awaited, IInv, TypeOK
<1>7. TypeOK'
  BY <1>2, <1>3, <1>4, <1>5, <1>6 DEF IInv, TypeOK
<1>8. (d => SavedUnderItsUrl)'
  <2>1. d => response.url = query.url
    BY <1>1
  <2> HIDE DEF response
  <2>2. QED
    BY <1>2, <2>1 DEF SavedUnderItsUrl, IInv, TypeOK
<1> HIDE DEF response
<1>9. Base(query, d)' /\ OfUrl(query, d)' /\ Occupied(query)' /\ Awaited(query, pages)'
  BY <1>2, <1>4, <1>5, <1>6 DEF Base, OfUrl, Occupied, Fresh, InFlight, Stale, Awaited
<1>10. Gets /\ query'.canFetch
  BY <1>4, <1>5 DEF Gets, Fresh
<1>11. QED
  BY <1>7, <1>8, <1>9, <1>10 DEF IInv

LEMMA FailsStep ==
  ASSUME NEW d \in BOOLEAN, IInv(d), NEW f \in Flows, Fails(f)
  PROVE  IInv(d)' /\ Gets
<1> DEFINE o == Ends(f)
           q == [o EXCEPT !.error = TRUE]
<1>1. /\ o \in Queries /\ Base(o, d) /\ OfUrl(o, d) /\ InFlight(o) = {} /\ ~o.isFetching
      /\ o.started /\ o.canFetch
  BY Ended DEF Fails
<1>2. Becomes(q, pages) /\ UNCHANGED <<saved, ready>>
  BY DEF Fails
<1> HIDE DEF o
<1>3. q \in Queries /\ Base(q, d) /\ OfUrl(q, d) /\ Occupied(q) /\ q.started /\ q.canFetch /\ q.error
  BY <1>1 DEF Queries, Base, OfUrl, Occupied, InFlight, Stale
<1> HIDE DEF q
<1>4. QED
  BY <1>2, <1>3, Kept DEF IInv, TypeOK

LEMMA StrangeStep ==
  ASSUME NEW d \in BOOLEAN, IInv(d), NEW f \in Flows, StrangeAnswer(f)
  PROVE  IInv(d)' /\ Gets
<1> DEFINE flow == [Over EXCEPT !.pc = "asked", !.again = TRUE]
<1>1. query \in Queries /\ Base(query, d) /\ OfUrl(query, d) /\ query.flows[f].pc = "requested"
  BY DEF IInv, TypeOK, StrangeAnswer
<1>2. query' = [query EXCEPT !.flows[f] = flow] /\ UNCHANGED <<pages, loads, saved, ready>>
  BY DEF StrangeAnswer
<1>3. flow \in [pc : {"asked"}, url : Urls \cup {Nothing}, again : BOOLEAN]
  BY DEF Over
<1> HIDE DEF flow
<1>4. query' \in Queries
  BY <1>1, <1>2, <1>3 DEF Queries
<1>5. Base(query, d)' /\ OfUrl(query, d)' /\ Occupied(query)'
  BY <1>1, <1>2, <1>3 DEF IInv, Base, OfUrl, Occupied, Fresh, InFlight, Stale, Queries
<1>6. QED
  BY <1>1, <1>2, <1>4, <1>5 DEF IInv, TypeOK, Awaited, SavedUnderItsUrl, Gets, Queries

LEMMA StaledStep ==
  ASSUME NEW d \in BOOLEAN, IInv(d), NEW r \in loads, StaledResponse(r)
  PROVE  IInv(d)' /\ Gets
<1>1. query \in Queries /\ Base(query, d) /\ OfUrl(query, d) /\ r \in Responses /\ query.canFetch
  BY DEF IInv, TypeOK
<1>2. loads' = loads \ {r} /\ UNCHANGED <<pages, saved, ready>>
  BY DEF StaledResponse
<1>3. CASE query.response # Nothing
  BY <1>1, <1>2, <1>3 DEF StaledResponse, IInv, TypeOK, Base, OfUrl, Occupied, Fresh, InFlight, Stale, Awaited, SavedUnderItsUrl, Gets
<1>4. CASE query.response = Nothing
  <2> DEFINE old == [r EXCEPT !.staled = TRUE]
  <2>1. old \in Responses /\ old.staled
    BY <1>1 DEF Responses
  <2>2. query' = [query EXCEPT !.response = old]
    BY <1>4 DEF StaledResponse
  <2> HIDE DEF old
  <2>3. query' \in Queries /\ Base(query, d)' /\ OfUrl(query, d)' /\ Occupied(query)'
    BY <1>1, <1>2, <1>4, <2>1, <2>2 DEF IInv, Base, OfUrl, Occupied, Fresh, InFlight, Stale, Queries
  <2>4. QED
    BY <1>1, <1>2, <2>2, <2>3 DEF IInv, TypeOK, Awaited, SavedUnderItsUrl, Gets, Queries
<1>5. QED
  BY <1>3, <1>4

LEMMA ReadyStep ==
  ASSUME NEW d \in BOOLEAN, IInv(d), Ready
  PROVE  IInv(d)' /\ Gets
BY DEF Ready, IInv, TypeOK, Base, OfUrl, Occupied, Fresh, InFlight, Stale, Awaited, SavedUnderItsUrl, Gets

(* Every step keeps the invariant.                                         *)
LEMMA EveryStep ==
  ASSUME NEW d \in BOOLEAN, IInv(d), UrlsAsked(query), [Next]_vars,
         Begins => Quiet(d)
  PROVE  IInv(d)' /\ Gets
<1>1. query \in Queries /\ Base(query, d) /\ OfUrl(query, d) /\ Occupied(query)
  BY DEF IInv, TypeOK
<1>2. ASSUME NEW u \in Urls, SetUrl(u)
      PROVE  IInv(d)' /\ Gets
  <2> DEFINE q == [query EXCEPT !.url = u, !.canFetch = TRUE]
  <2>1. /\ q \in Queries /\ Base(q, d) /\ Occupied(q) /\ q.started = query.started /\ q.canFetch /\ q.flows = query.flows
        /\ q.isFetching = query.isFetching
    BY <1>1 DEF Base, Occupied, Fresh, InFlight, Stale, Queries
  <2>2. Becomes(Fetch(q), pages) /\ UNCHANGED <<saved, ready>> /\ \E f \in Flows : query.flows[f] = Over
    BY <1>2 DEF SetUrl, Room
  <2> HIDE DEF q
  <2>3. QED
    BY <2>1, <2>2, FetchStep
<1>3. ASSUME Refresh \/ IntervalFetch
      PROVE  IInv(d)' /\ Gets
  <2>1. Becomes(Fetch(query), pages) /\ UNCHANGED <<saved, ready>> /\ \E f \in Flows : query.flows[f] = Over
    BY <1>3 DEF Refresh, IntervalFetch, Room
  <2>2. QED
    BY <1>1, <2>1, FetchStep
<1>4. CASE UNCHANGED vars
  BY <1>4 DEF vars, IInv, TypeOK, Base, OfUrl, Occupied, Fresh, InFlight, Stale, Awaited, SavedUnderItsUrl, Gets
<1>5. ASSUME NEW p \in Pages, NEW what \in {"watching", "waiting"}, Come(p, what)
      PROVE  IInv(d)' /\ Gets
  <2>1. ~query.started => Begins
    BY <1>5, TypeStep DEF Begins, TypeInv, IInv
  <2>2. Quiet(d)
    BY <2>1 DEF Quiet
  <2>3. QED
    BY <1>5, <2>2, ComeStep
<1>6. QED
  BY <1>2, <1>3, <1>4, <1>5, LeaveStep, RequestStep, CancelledStep, GoesOnStep, OnStartStep, AnswerStep,
     FailsStep, StrangeStep, StaledStep, ReadyStep DEF Next

LEMMA InitOK ==
  ASSUME NEW d \in BOOLEAN, Init
  PROVE  IInv(d)
<1>1. PICK u \in Urls, can \in BOOLEAN, async \in AsyncStart :
        query = [url |-> u, canFetch |-> can, asyncStart |-> async, started |-> FALSE, onStart |-> "none",
                 isFetching |-> FALSE, response |-> Nothing, error |-> FALSE, flows |-> [f \in Flows |-> Over]]
  BY DEF Init
<1>2. query \in Queries
  BY <1>1, QueryAssumption DEF Queries, Over
<1>3. Base(query, d) /\ OfUrl(query, d) /\ Occupied(query)
  BY <1>1 DEF Base, OfUrl, Occupied, InFlight, Over, Stale
<1>4. PICK old \in SUBSET Urls : saved = [v \in Urls |-> IF v \in old THEN [url |-> v, staled |-> FALSE] ELSE Nothing]
  BY DEF Init
<1>5. \A v \in Urls : [url |-> v, staled |-> FALSE] \in Responses /\ [url |-> v, staled |-> FALSE].url = v
  BY DEF Responses
<1>6. saved \in [Urls -> Responses \cup {Nothing}] /\ SavedUnderItsUrl
  BY <1>4, <1>5 DEF SavedUnderItsUrl
<1>7. QED
  BY <1>1, <1>2, <1>3, <1>6 DEF Init, IInv, TypeOK, Awaited

-----------------------------------------------------------------------------
(* The invariant is one of the behaviours in which nobody comes back too   *)
(* early.                                                                  *)
LEMMA UnhurriedInvariant == Spec /\ Unhurried => []IInv(FALSE)
<1>1. Init => IInv(FALSE)
  BY InitOK
<1>2. ASSUME IInv(FALSE), TypeInv, [Next]_vars, [Begins => \A f \in Flows : query.flows[f].pc # "stop"]_vars
      PROVE  IInv(FALSE)'
  <2>1. Begins => Quiet(FALSE)
    BY <1>2 DEF Begins, Quiet, vars
  <2>2. QED
    BY <1>2, <2>1, EveryStep DEF TypeInv
<1>3. QED
  BY <1>1, <1>2, TypeInvariant, PTL DEF Spec, Unhurried

LEMMA Invariant == Spec /\ Unhurried /\ Undeferred => []IInv(TRUE)
<1>1. Init => IInv(TRUE)
  BY InitOK
<1>2. ASSUME IInv(TRUE), TypeInv, [Next]_vars, [Begins => \A f \in Flows : query.flows[f].pc # "stop"]_vars,
             [Begins /\ query'.asyncStart => \A f \in Flows : query.flows[f].pc # "deferred"]_vars
      PROVE  IInv(TRUE)'
  <2>1. ASSUME Begins
        PROVE  Quiet(TRUE)
    <3>1. query'.asyncStart = query.asyncStart
      BY <1>2, <2>1, TypeStep DEF Begins
    <3>2. QED
      BY <1>2, <2>1, <3>1 DEF Begins, Quiet, vars
  <2>2. QED
    BY <1>2, <2>1, EveryStep DEF TypeInv
<1>3. QED
  BY <1>1, <1>2, TypeInvariant, PTL DEF Spec, Unhurried, Undeferred

(* What the object and the pages are made of, in every behaviour.          *)
THEOREM QueryTypeCorrect == Spec => []TypeOK
<1>1. TypeInv => TypeOK
  BY DEF TypeInv
<1>2. QED
  BY <1>1, TypeInvariant, PTL

(* The pages of the run that checks this module are so: Calm is enough for *)
(* both conditions.                                                        *)
THEOREM CalmPagesWait ==
  ASSUME Calm = TRUE
  PROVE  Spec => Unhurried /\ Undeferred
<1>1. ASSUME TypeInv, [Next]_vars
      PROVE  /\ [Begins => \A f \in Flows : query.flows[f].pc # "stop"]_vars
             /\ [Begins /\ query'.asyncStart => \A f \in Flows : query.flows[f].pc # "deferred"]_vars
  <2>1. ASSUME Begins
        PROVE  ~Left /\ ~query.started /\ query'.asyncStart = query.asyncStart
    <3>1. PICK p \in Pages, what \in {"watching", "waiting"} : Come(p, what)
      BY <1>1, <2>1, TypeStep
    <3>2. ~Left
      BY <3>1 DEF Come
    <3>3. ~query.started /\ query'.asyncStart = query.asyncStart
      BY <1>1, <2>1, <3>1, TypeStep DEF Begins
    <3>4. QED
      BY <3>2, <3>3
  <2>2. QED
    BY <2>1 DEF Left
<1>2. QED
  BY <1>1, TypeInvariant, PTL DEF Spec, Unhurried, Undeferred

(* As long as nobody comes back before a cancelled fetch() has ended, one  *)
(* request is under way at a time, of a query that is started and shown to *)
(* be fetched: whatever waits for the controller, and whenever onStart()   *)
(* ends.                                                                   *)
OneRequest ==
    /\ \A f, g \in InFlight(query) : f = g
    /\ InFlight(query) # {} => query.isFetching /\ query.started

THEOREM OneRequestAtMost == Spec /\ Unhurried => []OneRequest
<1>1. IInv(FALSE) => OneRequest
  BY DEF IInv, Base, OneRequest
<1>2. QED
  BY <1>1, UnhurriedInvariant, PTL

(* If moreover nobody comes back to a query with an asynchronous onStart() *)
(* while a call waits for the controller, nothing is under way before      *)
(* onStart() has ended.                                                    *)
THEOREM OneRequestAtATime == Spec /\ Unhurried /\ Undeferred => []OneAtATime
<1>1. IInv(TRUE) => OneAtATime
  BY DEF IInv, Base, OneAtATime
<1>2. QED
  BY <1>1, Invariant, PTL

(* Under the same two conditions what is shown as fresh is of the url, and *)
(* what is saved is saved under its own.                                   *)
THEOREM ResponsesAreOfTheUrl == Spec /\ Unhurried /\ Undeferred => []ResponsesAreOfUrl
<1>1. IInv(TRUE) => ResponsesAreOfUrl
  BY DEF IInv, OfUrl, Stale, FreshIsOfUrl, ResponsesAreOfUrl
<1>2. QED
  BY <1>1, Invariant, PTL

(* As long as nobody comes back before a cancelled fetch() has ended,      *)
(* whoever waits gets a fresh response, an error, or a query that cannot   *)
(* be made.                                                                *)
THEOREM WaitersGetFresh == Spec /\ Unhurried => WaitGetsFresh
<1> DEFINE Get == \A p \in Pages : pages[p] # "resolved" /\ pages'[p] = "resolved"
                     => Fresh(query)' \/ query'.error \/ ~query'.canFetch
<1>1. ASSUME IInv(FALSE), TypeInv, [Next]_vars, [Begins => \A f \in Flows : query.flows[f].pc # "stop"]_vars
      PROVE  [Get]_vars
  <2>1. Begins => Quiet(FALSE)
    BY <1>1 DEF Begins, Quiet, vars
  <2>2. QED
    BY <1>1, <2>1, EveryStep DEF TypeInv, Gets
<1>2. QED
  BY <1>1, UnhurriedInvariant, TypeInvariant, PTL DEF Spec, Unhurried, WaitGetsFresh
=============================================================================
