--------------------------- MODULE ObservableQuery ---------------------------
(***************************************************************************)
(* ObservableQuery, from which everything is made that the pages show of a *)
(* chain: a query is started when the first page looks at it and stopped   *)
(* when the last one looks away; it is fetched when it starts, when its url *)
(* changes, at an interval and on demand, and each fetch() cancels the one *)
(* before.  What a fetch() does between two yields is an action.           *)
(*                                                                         *)
(* A flow that was cancelled, or that will send its request, goes on in a  *)
(* microtask: before any reply, timer or click is handled, and after the   *)
(* rest of what made it so.                                                *)
(*                                                                         *)
(* No query of the wallet has a cacheMaxAge, so there is none here.        *)
(***************************************************************************)
EXTENDS Naturals, FiniteSets

CONSTANTS
    Pages,       \* what looks at the query or waits for it
    Urls,
    Flows,       \* at most so many calls of fetch() are not over: a bound
    Nothing,
    AsyncStart,  \* whether onStart() returns a promise: either is possible, or one
    Calm         \* a query is not started again before its calls of fetch() are over

Responses == [url : Urls, staled : BOOLEAN]

ASSUME QueryAssumption ==
    /\ Flows # {} /\ Nothing \notin Urls \cup Responses
    /\ AsyncStart \subseteq BOOLEAN /\ Calm \in BOOLEAN

VARIABLES
    query,   \* the object: its fields and the calls of fetch() that are not over
    pages,   \* what each page does with it
    loads,   \* replies of loadStaledResponse() that are on their way
    saved,   \* the key-value store
    ready    \* DeferInitialQueryController.isReady

vars == <<query, pages, loads, saved, ready>>

Over == [pc |-> "over", url |-> Nothing, again |-> FALSE]

Init ==
    /\ \E u \in Urls, can \in BOOLEAN, async \in AsyncStart :
         query = [url |-> u, canFetch |-> can, asyncStart |-> async, started |-> FALSE, onStart |-> "none",
                  isFetching |-> FALSE, response |-> Nothing, error |-> FALSE,
                  flows |-> [f \in Flows |-> Over]]
    /\ pages = [p \in Pages |-> "away"]
    /\ loads = {}
    /\ \E old \in SUBSET Urls :  \* saved when the wallet ran before
         saved = [u \in Urls |-> IF u \in old THEN [url |-> u, staled |-> FALSE] ELSE Nothing]
    /\ ready \in BOOLEAN

InFlight(q) == {f \in Flows : q.flows[f].pc \in {"asked", "requested"}}
Room == \E f \in Flows : query.flows[f] = Over
NewFlow(q) == CHOOSE f \in Flows : q.flows[f] = Over

-----------------------------------------------------------------------------
(* fetch(), up to its first yield and after that of the controller.        *)

(* A bug: a request that is not sent yet is not cancelled.                 *)
CancelSent(q, why) ==
    [q EXCEPT !.flows = [f \in Flows |-> IF q.flows[f].pc = "requested" THEN [Over EXCEPT !.pc = why] ELSE q.flows[f]]]

(* FlowCanceler.cancel().                                                  *)
Cancel(q, why) ==
    [q EXCEPT !.flows = [f \in Flows |-> IF f \in InFlight(q) THEN [Over EXCEPT !.pc = why] ELSE q.flows[f]]]

(* A bug: the response that is there is left as it is.                     *)
ProceedFresh(q, f) ==
    LET alone == IF q.isFetching THEN Cancel(q, "next") ELSE q
    IN  [alone EXCEPT !.flows[f] = [Over EXCEPT !.pc = "asked"], !.isFetching = TRUE]

(* A bug: the fetch before goes on.                                        *)
ProceedBeside(q, f) ==
    [q EXCEPT !.flows[f] = [Over EXCEPT !.pc = "asked"],
              !.isFetching = TRUE,
              !.response = IF q.response = Nothing THEN Nothing ELSE [q.response EXCEPT !.staled = TRUE]]

Proceed(q, f) ==
    LET alone == IF q.isFetching THEN Cancel(q, "next") ELSE q
    IN  [alone EXCEPT !.flows[f] = [Over EXCEPT !.pc = "asked"],
                      !.isFetching = TRUE,
                      !.response = IF q.response = Nothing THEN Nothing ELSE [q.response EXCEPT !.staled = TRUE]]

Defer(q, f) ==
    [q EXCEPT !.isFetching = TRUE,
              !.flows = [g \in Flows |-> IF g = f THEN [Over EXCEPT !.pc = "deferred"]
                                         ELSE IF q.flows[g].pc = "deferred" THEN Over ELSE q.flows[g]]]

Fetch(q) ==
    IF ~q.started \/ q.onStart # "none" THEN q
    ELSE IF ~ready THEN Defer(q, NewFlow(q))
    ELSE IF q.canFetch THEN Proceed(q, NewFlow(q)) ELSE q

(* A bug: it does not matter whether anything was saved.                   *)
LoadsWhatever(q) ==
    IF q.response = Nothing /\ InFlight(q) \ InFlight(query) # {} THEN loads \cup {saved[q.url]} ELSE loads

(* What is saved is loaded while the first request is under way.           *)
Loads(q) ==
    IF q.response = Nothing /\ InFlight(q) \ InFlight(query) # {} /\ saved[q.url] # Nothing
    THEN loads \cup {saved[q.url]} ELSE loads

Start(q) ==
    IF q.asyncStart THEN [q EXCEPT !.started = TRUE, !.onStart = "running", !.isFetching = TRUE]
    ELSE Fetch([q EXCEPT !.started = TRUE])

Stop(q) ==
    [IF q.isFetching THEN Cancel(q, "stop") ELSE q EXCEPT
        !.started = FALSE, !.onStart = "none", !.isFetching = FALSE]

(* waitResponse() and waitFreshResponse() end when nothing is fetched.     *)
Settled(q, at) == [p \in Pages |-> IF at[p] = "waiting" /\ ~q.isFetching THEN "resolved" ELSE at[p]]

Becomes(q, at) ==
    /\ query' = q
    /\ pages' = Settled(q, at)
    /\ loads' = Loads(q)

-----------------------------------------------------------------------------
(* What pages do.  A task may do several of these.  A query that is        *)
(* stopped may have calls of fetch() that are not over: those that it      *)
(* cancelled, and those that wait for the controller.                      *)
Left ==
    /\ ~query.started
    /\ \E f \in Flows : query.flows[f].pc = "stop" \/ (query.flows[f].pc = "deferred" /\ query.asyncStart)

Come(p, what) ==
    /\ pages[p] = "away" /\ Room
    /\ Calm => ~Left
    /\ LET started == IF query.started THEN query ELSE Start(query)
           fetched == IF what = "waiting" /\ ~started.isFetching THEN Fetch(started) ELSE started
       IN  Becomes(fetched, [pages EXCEPT ![p] = what])
    /\ UNCHANGED <<saved, ready>>

Leave(p) ==
    /\ pages[p] \in {"watching", "resolved"}
    /\ LET last == \A o \in Pages \ {p} : pages[o] = "away"
       IN  Becomes(IF last THEN Stop(query) ELSE query, [pages EXCEPT ![p] = "away"])
    /\ UNCHANGED <<saved, ready>>

(* What makes a query possible sets its url, too.                          *)
SetUrl(u) ==
    /\ query.url # u /\ Room
    /\ Becomes(Fetch([query EXCEPT !.url = u, !.canFetch = TRUE]), pages)
    /\ UNCHANGED <<saved, ready>>

(* A page, or whoever refreshes all queries that are observed.             *)
Refresh ==
    /\ query.started /\ Room
    /\ Becomes(Fetch(query), pages)
    /\ UNCHANGED <<saved, ready>>

-----------------------------------------------------------------------------
(* Microtasks.                                                             *)
Request(f) ==
    /\ query.flows[f].pc = "asked"
    /\ query' = [query EXCEPT !.flows[f].pc = "requested", !.flows[f].url = query.url]
    /\ UNCHANGED <<pages, loads, saved, ready>>

(* A bug: a fetch() that was cancelled by the next one ends the fetching.  *)
CancelledStops(f) ==
    /\ query.flows[f].pc \in {"next", "stop"}
    /\ Becomes([query EXCEPT !.flows[f] = Over, !.isFetching = FALSE], pages)
    /\ UNCHANGED <<saved, ready>>

(* The finally of a fetch() that was cancelled.                            *)
CancelledEnds(f) ==
    /\ query.flows[f].pc \in {"next", "stop"}
    /\ LET ended == [query EXCEPT !.flows[f] = Over,
                                  !.isFetching = @ /\ query.flows[f].pc = "next"]
       IN  Becomes(ended, pages)
    /\ UNCHANGED <<saved, ready>>

(* The controller has let the fetch go on.                                 *)
GoesOn(f) ==
    /\ query.flows[f].pc = "deferred" /\ ready
    /\ LET over == [query EXCEPT !.flows[f] = Over]
       IN  Becomes(IF query.started /\ query.canFetch THEN Proceed(over, f) ELSE over, pages)
    /\ UNCHANGED <<saved, ready>>

Drained ==
    /\ \A f \in Flows : query.flows[f].pc \in {"over", "requested"} \/ (query.flows[f].pc = "deferred" /\ ~ready)
    /\ \A p \in Pages : pages[p] # "resolved"

-----------------------------------------------------------------------------
(* Tasks: what comes from outside.                                         *)
Ready ==
    /\ ~ready /\ Drained
    /\ ready' = TRUE
    /\ UNCHANGED <<query, pages, loads, saved>>

(* A bug: nothing is fetched when onStart() has ended.                     *)
OnStartOnly ==
    /\ query.onStart = "running" /\ Drained
    /\ query' = [query EXCEPT !.onStart = "none"]
    /\ UNCHANGED <<pages, loads, saved, ready>>

OnStartDone ==
    /\ query.onStart = "running" /\ Drained /\ Room
    /\ Becomes(Fetch([query EXCEPT !.onStart = "none"]), pages)
    /\ UNCHANGED <<saved, ready>>

OnStartFails ==
    /\ query.onStart = "running" /\ Drained
    /\ query' = [query EXCEPT !.onStart = "failed"]
    /\ UNCHANGED <<pages, loads, saved, ready>>

IntervalFetch ==
    /\ query.started /\ query.onStart = "none" /\ ~query.isFetching /\ Drained /\ Room
    /\ Becomes(Fetch(query), pages)
    /\ UNCHANGED <<saved, ready>>

(* A response that was saved comes, and is of use if there is none yet.    *)
StaledResponse(r) ==
    /\ r \in loads /\ Drained
    /\ loads' = loads \ {r}
    /\ query' = IF query.response = Nothing THEN [query EXCEPT !.response = [r EXCEPT !.staled = TRUE]] ELSE query
    /\ UNCHANGED <<pages, saved, ready>>

Ends(f) == [query EXCEPT !.flows[f] = Over, !.isFetching = FALSE]

Answer(f) ==
    /\ query.flows[f].pc = "requested" /\ Drained
    /\ LET response == [url |-> query.flows[f].url, staled |-> FALSE]
       IN  /\ Becomes([Ends(f) EXCEPT !.response = response, !.error = FALSE], pages)
           /\ saved' = [saved EXCEPT ![query.url] = response]
    /\ UNCHANGED ready

(* What looks like a broken answer is asked for again, once.               *)
StrangeAnswer(f) ==
    /\ query.flows[f].pc = "requested" /\ Drained
    /\ ~query.flows[f].again
    /\ query' = [query EXCEPT !.flows[f] = [Over EXCEPT !.pc = "asked", !.again = TRUE]]
    /\ UNCHANGED <<pages, loads, saved, ready>>

Fails(f) ==
    /\ query.flows[f].pc = "requested" /\ Drained
    /\ Becomes([Ends(f) EXCEPT !.error = TRUE], pages)
    /\ UNCHANGED <<saved, ready>>

-----------------------------------------------------------------------------
Next ==
    \/ \E p \in Pages : Come(p, "watching") \/ Come(p, "waiting") \/ Leave(p)
    \/ \E u \in Urls : SetUrl(u)
    \/ Refresh
    \/ \E f \in Flows : Request(f) \/ CancelledEnds(f) \/ GoesOn(f)
    \/ Ready \/ OnStartDone \/ OnStartFails \/ IntervalFetch
    \/ \E r \in loads : StaledResponse(r)
    \/ \E f \in Flows : Answer(f) \/ StrangeAnswer(f) \/ Fails(f)

Spec == Init /\ [][Next]_vars

(* Microtasks run, the controller gets ready, nodes answer.                *)
Fairness ==
    /\ WF_vars(Ready) /\ WF_vars(OnStartDone \/ OnStartFails)
    /\ \A p \in Pages : WF_vars(pages[p] = "resolved" /\ Leave(p))
    /\ \A f \in Flows :
        /\ WF_vars(Request(f)) /\ WF_vars(CancelledEnds(f)) /\ WF_vars(GoesOn(f))
        /\ WF_vars(Answer(f) \/ Fails(f))

FairSpec == Spec /\ Fairness
-----------------------------------------------------------------------------
Queries ==
    [url : Urls, canFetch : BOOLEAN, asyncStart : BOOLEAN, started : BOOLEAN,
     onStart : {"none", "running", "failed"}, isFetching : BOOLEAN,
     response : Responses \cup {Nothing}, error : BOOLEAN,
     flows : [Flows -> [pc : {"over", "deferred", "asked", "requested", "next", "stop"},
                        url : Urls \cup {Nothing}, again : BOOLEAN]]]

TypeOK ==
    /\ query \in Queries
    /\ pages \in [Pages -> {"away", "watching", "waiting", "resolved"}]
    /\ loads \subseteq Responses
    /\ saved \in [Urls -> Responses \cup {Nothing}]
    /\ ready \in BOOLEAN

(* One request is under way at a time, whatever the order of urls, pages   *)
(* and refreshes, and while it is the pages show that something is fetched: *)
(* otherwise an old answer could overwrite a new one.  Nothing is asked    *)
(* for before onStart() has ended, which may set the url.                  *)
OneAtATime ==
    /\ \A f, g \in InFlight(query) : f = g
    /\ InFlight(query) # {} => query.isFetching /\ query.started /\ query.onStart = "none"

(* What a page is shown as fresh is of the url that the query has now.     *)
FreshIsOfUrl ==
    LET r == query.response
    IN  query.started /\ query.onStart = "none" /\ ready /\ r # Nothing /\ ~r.staled => r.url = query.url

(* The response of one url is never saved as that of another, although the *)
(* key is computed when the answer is there.                               *)
SavedUnderItsUrl == \A u \in Urls : saved[u] # Nothing => saved[u].url = u

(* A url that changes while a request, a load or a wait for the controller *)
(* is under way mixes up no two responses, on the page or in the store.    *)
ResponsesAreOfUrl == FreshIsOfUrl /\ SavedUnderItsUrl

Fresh(q) == q.response # Nothing /\ ~q.response.staled

(* Whoever waits for a response gets a fresh one, or there is an error, or *)
(* the query cannot be made: nobody else's cancellation ends the wait.     *)
WaitGetsFresh ==
    [][\A p \in Pages : pages[p] # "resolved" /\ pages'[p] = "resolved"
        => Fresh(query)' \/ query'.error \/ ~query'.canFetch]_vars

(* Whoever waits for a response gets an answer, unless the query is made   *)
(* anew for ever, cannot be made, or does not start.                       *)
WaitEnds ==
    []<><<Refresh \/ IntervalFetch \/ \E u \in Urls : SetUrl(u)>>_vars \/
    \A p \in Pages : pages[p] = "waiting"
        ~> pages[p] # "waiting" \/ ~query.canFetch \/ query.onStart = "failed"
=============================================================================
