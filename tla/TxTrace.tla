------------------------------- MODULE TxTrace -------------------------------
(***************************************************************************)
(* The wait for a transaction to be in a block: TendermintTxTracer, which  *)
(* asks for the transaction and subscribes to it over one web socket,      *)
(* CosmosTxTracer, which looks whether there is a web socket at all, asks  *)
(* again and again if there is none and gives up after a time, and         *)
(* BackgroundTxService, which uses the first without the second.           *)
(*                                                                         *)
(* There is one CosmosTxTracer object, which may trace several             *)
(* transactions, and a TendermintTxTracer for each of its traces and for   *)
(* each transaction that sendTx() broadcasts.                              *)
(* Random ids are taken to be different from each other and from zero; an  *)
(* answer is told by what it answers.                                      *)
(***************************************************************************)
EXTENDS Naturals, Sequences, FiniteSets

CONSTANTS Txs, Nothing

ASSUME TxsAssumption == Nothing \notin Txs

VARIABLES
    committed,  \* the transactions that are in a block
    trace,      \* the promise of traceTx()
    broadcast,  \* the transactions that sendTx() traces
    socket,     \* the web socket of each TendermintTxTracer
    waiting,    \* pendingQueries and txSubscribes of each TendermintTxTracer
    toNode, toWallet, subscribed,    \* a connection, and the node's end of it
    polling,    \* the loops of startPolling()
    tmTracer, pollTimer, closed      \* what the CosmosTxTracer has

tracer == <<tmTracer, pollTimer, closed>>
wires == <<toNode, toWallet, subscribed>>
vars == <<committed, trace, broadcast, socket, waiting, wires, polling, tracer>>

Init ==
    /\ committed = {} /\ broadcast = {} /\ subscribed = {}
    /\ trace = [t \in Txs |-> "none"]
    /\ socket = [t \in Txs |-> "none"]
    /\ waiting = [t \in Txs |-> {}]
    /\ toNode = [t \in Txs |-> <<>>] /\ toWallet = [t \in Txs |-> <<>>]
    /\ polling = [t \in Txs |-> "off"]
    /\ tmTracer = Nothing /\ pollTimer = Nothing /\ closed = FALSE

Pending(t) == trace[t] \in {"probing", "tracing", "found"}

-----------------------------------------------------------------------------
(* The node.  A transaction that is in a block can be asked for.           *)
Commit(t) ==
    /\ t \notin committed
    /\ committed' = committed \cup {t}
    /\ toWallet' = IF t \in subscribed /\ socket[t] = "open"
                   THEN [toWallet EXCEPT ![t] = Append(@, "event")] ELSE toWallet
    /\ UNCHANGED <<trace, broadcast, socket, waiting, toNode, subscribed, polling, tracer>>

NodeAnswers(t) ==
    /\ socket[t] = "open" /\ toNode[t] # <<>>
    /\ toNode' = [toNode EXCEPT ![t] = Tail(@)]
    /\ subscribed' = IF Head(toNode[t]) = "subscribe" THEN subscribed \cup {t} ELSE subscribed
    /\ toWallet' = [toWallet EXCEPT ![t] = Append(@,
            IF Head(toNode[t]) = "subscribe" THEN "subscribed"
            ELSE IF t \in committed THEN "tx" ELSE "error")]
    /\ UNCHANGED <<committed, trace, broadcast, socket, waiting, polling, tracer>>

DisconnectHere(s, how) ==
    /\ socket' = [t \in Txs |-> IF t \in s /\ socket[t] \in {"connecting", "open"} THEN how ELSE socket[t]]
    /\ UNCHANGED wires

(* The connections of s end; what is on its way is dropped.                *)
Disconnect(s, how) ==
    /\ socket' = [t \in Txs |-> IF t \in s /\ socket[t] \in {"connecting", "open"} THEN how ELSE socket[t]]
    /\ toNode' = [t \in Txs |-> IF t \in s THEN <<>> ELSE toNode[t]]
    /\ toWallet' = [t \in Txs |-> IF t \in s THEN <<>> ELSE toWallet[t]]
    /\ subscribed' = subscribed \ s

(* The connection breaks, or never comes to be.                            *)
Lose(t) ==
    /\ socket[t] \in {"connecting", "open"}
    /\ Disconnect({t}, "lost")
    /\ UNCHANGED <<committed, trace, broadcast, waiting, polling, tracer>>

-----------------------------------------------------------------------------
(* TendermintTxTracer.  traceTx() comes right after the constructor: both  *)
(* requests wait until the socket is open.                                 *)
Connect(t) ==
    /\ socket' = [socket EXCEPT ![t] = "connecting"]
    /\ waiting' = [waiting EXCEPT ![t] = {"query", "subscription"}]

QueryFirst(t) ==
    /\ socket[t] = "connecting"
    /\ socket' = [socket EXCEPT ![t] = "open"]
    /\ toNode' = [toNode EXCEPT ![t] = <<"query", "subscribe">>]
    /\ UNCHANGED <<committed, trace, broadcast, waiting, toWallet, subscribed, polling, tracer>>

OnOpen(t) ==
    /\ socket[t] = "connecting"
    /\ socket' = [socket EXCEPT ![t] = "open"]
    /\ toNode' = [toNode EXCEPT ![t] = <<"subscribe", "query">>]
    /\ UNCHANGED <<committed, trace, broadcast, waiting, toWallet, subscribed, polling, tracer>>

AnyAnswer(t) ==
    LET message == Head(toWallet[t])
        resolves == message \in {"tx", "error", "event"}
    IN  /\ socket[t] = "open" /\ toWallet[t] # <<>>
        /\ toWallet' = [toWallet EXCEPT ![t] = Tail(@)]
        /\ waiting' = [waiting EXCEPT ![t] = {}]
        /\ trace' = IF resolves /\ trace[t] = "tracing" THEN [trace EXCEPT ![t] = "found"] ELSE trace
        /\ UNCHANGED <<committed, broadcast, socket, toNode, subscribed, polling, tracer>>

(* A query's error is swallowed, and what acknowledges a subscription      *)
(* answers no query.                                                       *)
OnMessage(t) ==
    LET message == Head(toWallet[t])
        answers == CASE message = "tx" -> {"query"}
                     [] message = "error" -> {"query"}
                     [] message = "event" -> {"subscription"}
                     [] OTHER -> {}
        resolves == message \in {"tx", "event"} /\ answers \subseteq waiting[t]
    IN  /\ socket[t] = "open" /\ toWallet[t] # <<>>
        /\ toWallet' = [toWallet EXCEPT ![t] = Tail(@)]
        /\ waiting' = [waiting EXCEPT ![t] = @ \ answers]
        /\ trace' = IF resolves /\ trace[t] = "tracing" THEN [trace EXCEPT ![t] = "found"] ELSE trace
        /\ UNCHANGED <<committed, broadcast, socket, toNode, subscribed, polling, tracer>>

-----------------------------------------------------------------------------
(* BackgroundTxService.sendTx() after the broadcast, and what it does with *)
(* the result.                                                             *)
SendTx(t) ==
    /\ trace[t] = "none"
    /\ broadcast' = broadcast \cup {t}
    /\ trace' = [trace EXCEPT ![t] = "tracing"]
    /\ Connect(t)
    /\ UNCHANGED <<committed, wires, polling, tracer>>

Notify(t) ==
    /\ t \in broadcast /\ trace[t] = "found"
    /\ trace' = [trace EXCEPT ![t] = "resolved"]
    /\ Disconnect({t}, "closed")
    /\ UNCHANGED <<committed, broadcast, waiting, polling, tracer>>

-----------------------------------------------------------------------------
(* CosmosTxTracer.                                                         *)
TraceTx(t) ==
    /\ trace[t] = "none" /\ ~closed
    /\ trace' = [trace EXCEPT ![t] = "probing"]
    /\ UNCHANGED <<committed, broadcast, socket, waiting, wires, polling, tracer>>

(* checkRPCWebSocket() ends; the time limit of the trace may be over.      *)
FoundWebSocket(t) ==
    /\ trace[t] = "probing"
    /\ trace' = [trace EXCEPT ![t] = "tracing"]
    /\ Connect(t)
    /\ tmTracer' = t
    /\ UNCHANGED <<committed, broadcast, wires, polling, pollTimer, closed>>

StartPolling(t) ==
    /\ polling' = [polling EXCEPT ![t] = "timer"]
    /\ pollTimer' = t

NoWebSocket(t) ==
    /\ trace[t] = "probing"
    /\ trace' = [trace EXCEPT ![t] = "tracing"]
    /\ StartPolling(t)
    /\ UNCHANGED <<committed, broadcast, socket, waiting, wires, tmTracer, closed>>

StopPolling ==
    /\ UNCHANGED <<socket, wires>>
    /\ polling' = [t \in Txs |-> IF t = pollTimer /\ polling[t] = "timer" THEN "off" ELSE polling[t]]

(* The socket of the last trace is closed, and the last timer is cleared.  *)
Cleanup ==
    /\ Disconnect({tmTracer}, "closed")
    /\ polling' = [t \in Txs |-> IF t = pollTimer /\ polling[t] = "timer" THEN "off" ELSE polling[t]]

Resolve(t) ==
    /\ t \notin broadcast /\ trace[t] = "found"
    /\ trace' = [trace EXCEPT ![t] = "resolved"]
    /\ Cleanup
    /\ UNCHANGED <<committed, broadcast, waiting, tracer>>

(* The hard timeout, which is longer than that of checkRPCWebSocket().     *)
Timeout(t) ==
    /\ t \notin broadcast /\ trace[t] \in {"tracing", "found"}
    /\ trace' = [trace EXCEPT ![t] = "rejected"]
    /\ Cleanup
    /\ UNCHANGED <<committed, broadcast, waiting, tracer>>

Poll(t) ==
    /\ polling[t] = "timer"
    /\ polling' = [polling EXCEPT ![t] = IF closed THEN "off" ELSE "fetch"]
    /\ UNCHANGED <<committed, trace, broadcast, socket, waiting, wires, tracer>>

PollFails(t) ==
    /\ polling[t] = "fetch"
    /\ StartPolling(t)
    /\ UNCHANGED <<committed, trace, broadcast, socket, waiting, wires, tmTracer, closed>>

(* onSuccess(): a trace that timed out stays rejected.                     *)
PollSucceeds(t) ==
    /\ polling[t] = "fetch" /\ t \in committed
    /\ IF trace[t] = "tracing"
       THEN /\ trace' = [trace EXCEPT ![t] = "resolved"]
            /\ Disconnect({tmTracer}, "closed")
       ELSE UNCHANGED <<trace, socket, wires>>
    /\ polling' = [u \in Txs |->
            IF u = t \/ (trace[t] = "tracing" /\ u = pollTimer /\ polling[u] = "timer") THEN "off"
            ELSE polling[u]]
    /\ UNCHANGED <<committed, broadcast, waiting, tracer>>

(* The account store closes the tracer when it has a result, a page when   *)
(* it goes away.                                                           *)
Close ==
    /\ ~closed
    /\ closed' = TRUE
    /\ Cleanup
    /\ UNCHANGED <<committed, trace, broadcast, waiting, tmTracer, pollTimer>>

-----------------------------------------------------------------------------
Next ==
    \/ Close
    \/ \E t \in Txs :
        \/ Commit(t) \/ NodeAnswers(t) \/ Lose(t) \/ OnOpen(t) \/ OnMessage(t)
        \/ SendTx(t) \/ Notify(t)
        \/ TraceTx(t) \/ FoundWebSocket(t) \/ NoWebSocket(t) \/ Resolve(t) \/ Timeout(t)
        \/ Poll(t) \/ PollFails(t) \/ PollSucceeds(t)

(* The node answers, timers fire and handlers run.  Nothing is assumed of  *)
(* the hard timeout, nor that a transaction ever is in a block.            *)
Fairness ==
    \A t \in Txs :
        /\ WF_vars(NodeAnswers(t)) /\ WF_vars(OnOpen(t)) /\ WF_vars(OnMessage(t))
        /\ WF_vars(FoundWebSocket(t) \/ NoWebSocket(t))
        /\ WF_vars(Notify(t)) /\ WF_vars(Resolve(t))
        /\ WF_vars(Poll(t)) /\ SF_vars(PollSucceeds(t))

Spec == Init /\ [][Next]_vars /\ Fairness
-----------------------------------------------------------------------------
Messages == {"subscribed", "tx", "error", "event"}

TypeOK ==
    /\ {committed, broadcast, subscribed} \subseteq SUBSET Txs
    /\ trace \in [Txs -> {"none", "probing", "tracing", "found", "resolved", "rejected"}]
    /\ socket \in [Txs -> {"none", "connecting", "open", "closed", "lost"}]
    /\ waiting \in [Txs -> SUBSET {"query", "subscription"}]
    /\ toNode \in [Txs -> Seq({"subscribe", "query"})] /\ toWallet \in [Txs -> Seq(Messages)]
    /\ \A t \in Txs : t \in subscribed \/ toNode[t] # <<>> \/ toWallet[t] # <<>> => socket[t] = "open"
    /\ polling \in [Txs -> {"off", "timer", "fetch"}]
    /\ {tmTracer, pollTimer} \subseteq Txs \cup {Nothing} /\ closed \in BOOLEAN

(* No other transaction was traced with the same object.                   *)
Lonely(t) == t \in broadcast \/ \A u \in Txs \ ({t} \cup broadcast) : trace[u] = "none"

(* What is told to be in a block is in a block.                            *)
ResolvedIsCommitted == \A t \in Txs : trace[t] \in {"found", "resolved"} => t \in committed

(* Whoever has a result keeps no socket and no timer: each page and each   *)
(* sent transaction would leave one behind.                                *)
NothingLeftOpen ==
    \A t \in Txs : trace[t] = "resolved" /\ Lonely(t)
        => socket[t] \in {"none", "closed", "lost"} /\ polling[t] = "off"

(* A transaction in a block is not missed between the question for it and  *)
(* the subscription to it, whenever the block comes: the wait ends without *)
(* the hard timeout, if the connection lasts and the tracer has nothing    *)
(* else to do and is not closed.                                           *)
CommittedIsFound ==
    \A t \in Txs :
        Pending(t) /\ t \in committed
            ~> ~Pending(t) \/ socket[t] = "lost" \/ ~Lonely(t) \/ (t \notin broadcast /\ closed)
=============================================================================
