---------------------------- MODULE TxTraceProofs ----------------------------
(***************************************************************************)
(* Proofs about TxTrace: a transaction that is told to be in a block is in *)
(* a block, whoever has a result keeps neither a socket nor a timer, and a *)
(* trace that nobody disturbs does not miss its block.                     *)
(***************************************************************************)
EXTENDS TxTrace, TLAPS

(* Only what is in a block is answered with a result, or has an event.     *)
AnswersAreTrue ==
    \A t \in Txs : \A i \in 1..Len(toWallet[t]) : toWallet[t][i] \in {"tx", "event"} => t \in committed

Truth == ResolvedIsCommitted /\ AnswersAreTrue

(* A trace that has not begun has nothing.                                 *)
Fresh == \A t \in Txs : trace[t] \in {"none", "probing"} => socket[t] = "none" /\ polling[t] = "off"

Typed == TypeOK /\ Fresh

(* A trace that has the object for itself has at most the object's socket  *)
(* or the object's timer, and not both.                                    *)
Own(t) ==
    /\ trace[t] = "probing" => t \notin broadcast
    /\ t \in broadcast => trace[t] # "none" /\ polling[t] = "off"
    /\ Lonely(t) /\ t \notin broadcast =>
        /\ socket[t] \in {"connecting", "open"} => tmTracer = t
        /\ polling[t] = "timer" => pollTimer = t
    /\ socket[t] # "none" => polling[t] = "off"
    /\ trace[t] = "found" => polling[t] = "off"
    /\ trace[t] = "resolved" /\ Lonely(t) => socket[t] \in {"none", "closed", "lost"} /\ polling[t] = "off"

Owned == \A t \in Txs : Own(t)

-----------------------------------------------------------------------------
(* The empty sequence is a sequence of anything.                           *)
LEMMA EmptyTyped == \A S : <<>> \in Seq(S)
  OBVIOUS

(* At the beginning nothing is traced.                                     *)
LEMMA InitTyped == Init => Typed
<1> SUFFICES ASSUME Init PROVE Typed
  OBVIOUS
<1>1. /\ toNode \in [Txs -> Seq({"subscribe", "query"})]
      /\ toWallet \in [Txs -> Seq(Messages)]
  BY EmptyTyped DEF Init
<1>2. /\ {committed, broadcast, subscribed} \subseteq SUBSET Txs
      /\ trace \in [Txs -> {"none", "probing", "tracing", "found", "resolved", "rejected"}]
      /\ socket \in [Txs -> {"none", "connecting", "open", "closed", "lost"}]
      /\ waiting \in [Txs -> SUBSET {"query", "subscription"}]
      /\ polling \in [Txs -> {"off", "timer", "fetch"}]
      /\ {tmTracer, pollTimer} \subseteq Txs \cup {Nothing} /\ closed \in BOOLEAN
  BY DEF Init
<1>3. Fresh /\ \A t \in Txs : t \in subscribed \/ toNode[t] # <<>> \/ toWallet[t] # <<>> => socket[t] = "open"
  BY DEF Init, Fresh
<1>4. QED
  BY <1>1, <1>2, <1>3 DEF Typed, TypeOK

(* What a connection that ends leaves.                                     *)
LEMMA Disconnected ==
  ASSUME TypeOK, NEW s, NEW how \in {"lost", "closed"}, Disconnect(s, how)
  PROVE  /\ subscribed' \subseteq Txs
         /\ socket' \in [Txs -> {"none", "connecting", "open", "closed", "lost"}]
         /\ toNode' \in [Txs -> Seq({"subscribe", "query"})]
         /\ toWallet' \in [Txs -> Seq(Messages)]
         /\ \A t \in Txs : t \in subscribed' \/ toNode'[t] # <<>> \/ toWallet'[t] # <<>> => socket'[t] = "open"
         /\ \A t \in Txs : socket[t] = "none" <=> socket'[t] = "none"
<1>1. toNode' \in [Txs -> Seq({"subscribe", "query"})] /\ toWallet' \in [Txs -> Seq(Messages)]
  BY EmptyTyped DEF TypeOK, Disconnect
<1>2. subscribed' \subseteq Txs
  BY DEF TypeOK, Disconnect
<1>3. /\ socket' \in [Txs -> {"none", "connecting", "open", "closed", "lost"}]
      /\ \A t \in Txs : socket[t] = "none" <=> socket'[t] = "none"
  BY DEF TypeOK, Disconnect
<1>4. \A t \in Txs : t \in subscribed' \/ toNode'[t] # <<>> \/ toWallet'[t] # <<>> => socket'[t] = "open"
  BY DEF TypeOK, Disconnect
<1>5. QED
  BY <1>1, <1>2, <1>3, <1>4

(* Every step keeps the types.                                             *)
LEMMA TypedStep == Typed /\ [Next]_vars => Typed'
<1> SUFFICES ASSUME Typed, [Next]_vars PROVE Typed'
  OBVIOUS
<1> USE DEF Typed, TypeOK, Fresh, Messages
<1>1. CASE UNCHANGED vars
  BY <1>1 DEF vars, wires, tracer
<1>2. CASE Close
  BY <1>2, Disconnected DEF Close, Cleanup
<1>3. ASSUME NEW t \in Txs PROVE Commit(t) => Typed'
  BY DEF Commit, tracer
<1>4. ASSUME NEW t \in Txs PROVE NodeAnswers(t) => Typed'
  BY DEF NodeAnswers, tracer
<1>5. ASSUME NEW t \in Txs PROVE Lose(t) => Typed'
  BY Disconnected DEF Lose, tracer
<1>6. ASSUME NEW t \in Txs PROVE OnOpen(t) => Typed'
  BY DEF OnOpen, tracer
<1>7. ASSUME NEW t \in Txs PROVE OnMessage(t) => Typed'
  BY DEF OnMessage, tracer
<1>8. ASSUME NEW t \in Txs PROVE SendTx(t) => Typed'
  BY DEF SendTx, Connect, wires, tracer
<1>9. ASSUME NEW t \in Txs PROVE Notify(t) => Typed'
  BY Disconnected DEF Notify, tracer
<1>10. ASSUME NEW t \in Txs PROVE TraceTx(t) => Typed'
  BY DEF TraceTx, wires, tracer
<1>11. ASSUME NEW t \in Txs PROVE FoundWebSocket(t) => Typed'
  BY DEF FoundWebSocket, Connect, wires
<1>12. ASSUME NEW t \in Txs PROVE NoWebSocket(t) => Typed'
  BY DEF NoWebSocket, StartPolling, wires
<1>13. ASSUME NEW t \in Txs PROVE Resolve(t) => Typed'
  BY Disconnected DEF Resolve, Cleanup, tracer
<1>14. ASSUME NEW t \in Txs PROVE Timeout(t) => Typed'
  BY Disconnected DEF Timeout, Cleanup, tracer
<1>15. ASSUME NEW t \in Txs PROVE Poll(t) => Typed'
  BY DEF Poll, wires, tracer
<1>16. ASSUME NEW t \in Txs PROVE PollFails(t) => Typed'
  BY DEF PollFails, StartPolling, wires
<1>17. ASSUME NEW t \in Txs, PollSucceeds(t) PROVE Typed'
  <2>1. CASE trace[t] = "tracing"
    <3>1. Disconnect({tmTracer}, "closed")
      BY <1>17, <2>1 DEF PollSucceeds
    <3>2. /\ polling' \in [Txs -> {"off", "timer", "fetch"}]
          /\ \A u \in Txs : polling[u] = "off" => polling'[u] = "off"
      BY <1>17 DEF PollSucceeds
    <3>3. trace' = [trace EXCEPT ![t] = "resolved"]
      BY <1>17, <2>1 DEF PollSucceeds
    <3>4. UNCHANGED <<committed, broadcast, waiting, tracer>>
      BY <1>17 DEF PollSucceeds
    <3>5. QED
      BY <3>1, <3>2, <3>3, <3>4, Disconnected DEF tracer
  <2>2. CASE trace[t] # "tracing"
    BY <1>17, <2>2 DEF PollSucceeds, wires, tracer
  <2>3. QED
    BY <2>1, <2>2
<1>18. QED
  BY <1>1, <1>2, <1>3, <1>4, <1>5, <1>6, <1>7, <1>8, <1>9, <1>10, <1>11, <1>12, <1>13, <1>14, <1>15,
     <1>16, <1>17 DEF Next

(* TypeOK: Fresh is what makes it inductive, because what is connected was *)
(* not connected before.                                                   *)
THEOREM TxTraceTypeCorrect == Spec => []TypeOK
<1>1. Typed => TypeOK
  BY DEF Typed
<1>2. QED
  BY <1>1, InitTyped, TypedStep, PTL DEF Spec

-----------------------------------------------------------------------------
(* A result that is found has come in a message of the node, or of a poll. *)
LEMMA TruthStep == Typed /\ Truth /\ [Next]_vars => Truth'
<1> SUFFICES ASSUME Typed, Truth, [Next]_vars PROVE Truth'
  OBVIOUS
<1> USE DEF Typed, TypeOK, Messages, Truth, ResolvedIsCommitted, AnswersAreTrue
<1>1. CASE UNCHANGED vars
  BY <1>1 DEF vars, wires, tracer
<1>2. ASSUME NEW s, NEW how, Disconnect(s, how), committed' = committed PROVE AnswersAreTrue'
  BY <1>2 DEF Disconnect
<1>3. CASE Close
  BY <1>2, <1>3 DEF Close, Cleanup
<1>4. ASSUME NEW t \in Txs, Commit(t) PROVE Truth'
  <2>1. committed' = committed \cup {t} /\ trace' = trace
    BY <1>4 DEF Commit
  <2>2. \A u \in Txs \ {t} : toWallet'[u] = toWallet[u]
    BY <1>4 DEF Commit
  <2>3. QED
    BY <2>1, <2>2
<1>5. ASSUME NEW t \in Txs, NodeAnswers(t) PROVE Truth'
  <2>1. committed' = committed /\ trace' = trace
    BY <1>5 DEF NodeAnswers
  <2>2. \A u \in Txs \ {t} : toWallet'[u] = toWallet[u]
    BY <1>5 DEF NodeAnswers
  <2>3. PICK m : (m \in {"tx", "event"} => t \in committed) /\ toWallet'[t] = Append(toWallet[t], m)
    BY <1>5 DEF NodeAnswers
  <2>4. \A i \in 1..Len(toWallet'[t]) :
          toWallet'[t][i] = m \/ (i \in 1..Len(toWallet[t]) /\ toWallet'[t][i] = toWallet[t][i])
    <3>1. toWallet[t] \in Seq(Messages)
      OBVIOUS
    <3>2. QED
      BY <2>3, <3>1
  <2>5. ResolvedIsCommitted'
    BY <2>1
  <2>6. QED
    BY <2>1, <2>2, <2>3, <2>4, <2>5
<1>6. ASSUME NEW t \in Txs, Lose(t) PROVE Truth'
  BY <1>2, <1>6 DEF Lose
<1>7. ASSUME NEW t \in Txs, OnOpen(t) PROVE Truth'
  BY <1>7 DEF OnOpen
<1>8. ASSUME NEW t \in Txs, OnMessage(t) PROVE Truth'
  <2>1. committed' = committed /\ toWallet[t] # <<>> /\ toWallet' = [toWallet EXCEPT ![t] = Tail(@)]
    BY <1>8 DEF OnMessage
  <2>2. AnswersAreTrue'
    BY <2>1
  <2>3. Head(toWallet[t]) \in {"tx", "event"} => t \in committed
    BY <2>1
  <2>4. \A u \in Txs : trace'[u] = trace[u] \/ (u = t /\ Head(toWallet[t]) \in {"tx", "event"})
    BY <1>8 DEF OnMessage
  <2>5. QED
    BY <2>1, <2>2, <2>3, <2>4
<1>9. ASSUME NEW t \in Txs, SendTx(t) PROVE Truth'
  BY <1>9 DEF SendTx, Connect, wires
<1>10. ASSUME NEW t \in Txs, Notify(t) PROVE Truth'
  BY <1>2, <1>10 DEF Notify
<1>11. ASSUME NEW t \in Txs, TraceTx(t) PROVE Truth'
  BY <1>11 DEF TraceTx, wires
<1>12. ASSUME NEW t \in Txs, FoundWebSocket(t) PROVE Truth'
  BY <1>12 DEF FoundWebSocket, Connect, wires
<1>13. ASSUME NEW t \in Txs, NoWebSocket(t) PROVE Truth'
  BY <1>13 DEF NoWebSocket, wires
<1>14. ASSUME NEW t \in Txs, Resolve(t) PROVE Truth'
  BY <1>2, <1>14 DEF Resolve, Cleanup
<1>15. ASSUME NEW t \in Txs, Timeout(t) PROVE Truth'
  BY <1>2, <1>15 DEF Timeout, Cleanup
<1>16. ASSUME NEW t \in Txs, Poll(t) PROVE Truth'
  BY <1>16 DEF Poll, wires
<1>17. ASSUME NEW t \in Txs, PollFails(t) PROVE Truth'
  BY <1>17 DEF PollFails, wires
<1>18. ASSUME NEW t \in Txs, PollSucceeds(t) PROVE Truth'
  <2>1. CASE trace[t] = "tracing"
    BY <1>2, <1>18, <2>1 DEF PollSucceeds
  <2>2. CASE trace[t] # "tracing"
    BY <1>18, <2>2 DEF PollSucceeds, wires
  <2>3. QED
    BY <2>1, <2>2
<1>19. QED
  BY <1>1, <1>3, <1>4, <1>5, <1>6, <1>7, <1>8, <1>9, <1>10, <1>11, <1>12, <1>13, <1>14, <1>15, <1>16,
     <1>17, <1>18 DEF Next

(* Nobody is told that a transaction is in a block when it is not,         *)
(* whatever the node answers, in whatever order it comes.                  *)
THEOREM ResultsAreTrue == Spec => []ResolvedIsCommitted
<1>1. Init => Truth
  BY DEF Init, Truth, ResolvedIsCommitted, AnswersAreTrue
<1>2. Truth => ResolvedIsCommitted
  BY DEF Truth
<1>3. QED
  BY <1>1, <1>2, InitTyped, TypedStep, TruthStep, PTL DEF Spec

-----------------------------------------------------------------------------
(* A step that takes sockets and timers away, and settles nobody.          *)
LEMMA OwnedLess ==
  ASSUME Owned, broadcast' = broadcast, tmTracer' = tmTracer, pollTimer' = pollTimer,
         \A u \in Txs : /\ socket'[u] = socket[u] \/ (socket[u] # "none" /\ socket'[u] \in {"closed", "lost"})
                        /\ polling'[u] = polling[u] \/ polling'[u] = "off"
                        /\ trace'[u] = trace[u] \/ (trace[u] # "probing" /\ trace'[u] = "rejected")
                        /\ trace'[u] = "none" => trace[u] = "none"
  PROVE  Owned'
<1> SUFFICES ASSUME NEW t \in Txs PROVE Own(t)'
  BY DEF Owned
<1>1. Lonely(t)' => Lonely(t)
  BY DEF Lonely
<1>2. Own(t)
  BY DEF Owned
<1>3. /\ socket'[t] = socket[t] \/ (socket[t] # "none" /\ socket'[t] \in {"closed", "lost"})
      /\ polling'[t] = polling[t] \/ polling'[t] = "off"
      /\ trace'[t] = trace[t] \/ (trace[t] # "probing" /\ trace'[t] = "rejected")
  OBVIOUS
<1>4. QED
  BY <1>1, <1>2, <1>3 DEF Own

(* Every step keeps what each trace has to itself.                         *)
LEMMA OwnedStep == Typed /\ Owned /\ [Next]_vars => Owned'
<1> SUFFICES ASSUME Typed, Owned, [Next]_vars PROVE Owned'
  OBVIOUS
<1> USE DEF Typed, TypeOK, Fresh
<1>1. CASE UNCHANGED vars
  BY <1>1 DEF vars, wires, tracer, Owned, Own, Lonely
<1>2. CASE Close
  BY <1>2, OwnedLess DEF Close, Cleanup, Disconnect
<1>3. ASSUME NEW t \in Txs, Commit(t) \/ NodeAnswers(t) PROVE Owned'
  BY <1>3, OwnedLess DEF Commit, NodeAnswers, tracer
<1>4. ASSUME NEW t \in Txs, Lose(t) PROVE Owned'
  BY <1>4, OwnedLess DEF Lose, Disconnect, tracer
<1>5. ASSUME NEW t \in Txs, OnOpen(t) PROVE Owned'
  BY <1>5 DEF OnOpen, tracer, Owned, Own, Lonely
<1>6. ASSUME NEW t \in Txs, OnMessage(t) PROVE Owned'
  <2>1. /\ trace' = trace \/ (trace[t] = "tracing" /\ trace' = [trace EXCEPT ![t] = "found"])
        /\ UNCHANGED <<broadcast, socket, polling, tmTracer, pollTimer>>
        /\ socket[t] = "open"
    BY <1>6 DEF OnMessage, tracer
  <2>2. QED
    BY <2>1 DEF Owned, Own, Lonely
<1>7. ASSUME NEW t \in Txs, SendTx(t) PROVE Owned'
  BY <1>7 DEF SendTx, Connect, wires, tracer, Owned, Own, Lonely
<1>8. ASSUME NEW t \in Txs, Notify(t) PROVE Owned'
  BY <1>8 DEF Notify, Disconnect, tracer, Owned, Own, Lonely
<1>9. ASSUME NEW t \in Txs, TraceTx(t) PROVE Owned'
  BY <1>9 DEF TraceTx, wires, tracer, Owned, Own, Lonely
<1>10. ASSUME NEW t \in Txs, FoundWebSocket(t) PROVE Owned'
  BY <1>10 DEF FoundWebSocket, Connect, wires, Owned, Own, Lonely
<1>11. ASSUME NEW t \in Txs, NoWebSocket(t) PROVE Owned'
  BY <1>11 DEF NoWebSocket, StartPolling, wires, Owned, Own, Lonely
<1>12. ASSUME NEW t \in Txs, Resolve(t) PROVE Owned'
  BY <1>12 DEF Resolve, Cleanup, Disconnect, tracer, Owned, Own, Lonely
<1>13. ASSUME NEW t \in Txs, Timeout(t) PROVE Owned'
  BY <1>13, OwnedLess DEF Timeout, Cleanup, Disconnect, tracer
<1>14. ASSUME NEW t \in Txs, Poll(t) PROVE Owned'
  BY <1>14 DEF Poll, wires, tracer, Owned, Own, Lonely
<1>15. ASSUME NEW t \in Txs, PollFails(t) PROVE Owned'
  BY <1>15 DEF PollFails, StartPolling, wires, Owned, Own, Lonely
<1>16. ASSUME NEW t \in Txs, PollSucceeds(t) PROVE Owned'
  BY <1>16 DEF PollSucceeds, Disconnect, wires, tracer, Owned, Own, Lonely
<1>17. QED
  BY <1>1, <1>2, <1>3, <1>4, <1>5, <1>6, <1>7, <1>8, <1>9, <1>10, <1>11, <1>12, <1>13, <1>14, <1>15,
     <1>16 DEF Next

(* Whoever has a result, and traced alone, keeps no socket and no timer:   *)
(* the object's last socket and timer are its own, and it never had both.  *)
THEOREM NothingIsLeftOpen == Spec => []NothingLeftOpen
<1>1. Init => Owned
  BY DEF Init, Owned, Own, Lonely
<1>2. Owned => NothingLeftOpen
  BY DEF Owned, Own, NothingLeftOpen
<1>3. QED
  BY <1>1, <1>2, InitTyped, TypedStep, OwnedStep, PTL DEF Spec

-----------------------------------------------------------------------------
(* What a trace waits for.                                                 *)
Requests == <<"subscribe", "query">>
Answers == {"tx", "error"}

(* The two requests of a connection are answered in their order, the query *)
(* once.  Who is in a block when the query is answered has its result; who *)
(* gets there later was subscribed to before.                              *)
Watched(t) ==
    /\ socket[t] = "connecting" => waiting[t] = {"query", "subscription"}
    /\ trace[t] = "tracing" /\ socket[t] = "open" =>
        /\ "subscription" \in waiting[t]
        /\ toNode[t] \in {Requests, <<"query">>, <<>>}
        /\ toNode[t] # <<>> => "query" \in waiting[t]
        /\ toNode[t] # Requests => t \in subscribed
        /\ \A i, j \in 1..Len(toWallet[t]) : {toWallet[t][i], toWallet[t][j]} \subseteq Answers => i = j
        /\ \A i \in 1..Len(toWallet[t]) :
             toWallet[t][i] \in Answers => toNode[t] = <<>> /\ "query" \in waiting[t]
        /\ t \in committed /\ toNode[t] = <<>> =>
             \E i \in 1..Len(toWallet[t]) : toWallet[t][i] \in {"tx", "event"}

(* A trace that nobody disturbs has a socket or a timer.                   *)
Undisturbed(t) == Lonely(t) /\ (t \in broadcast \/ ~closed)
Going(t) ==
    trace[t] = "tracing" /\ Undisturbed(t) =>
        socket[t] \in {"connecting", "open", "lost"} \/ polling[t] # "off"

(* The object's tracer is that of a page's trace.                          *)
OfPages == tmTracer # Nothing => tmTracer \notin broadcast /\ trace[tmTracer] \notin {"none", "probing"}

Awake == OfPages /\ \A t \in Txs : Watched(t) /\ Going(t)

(* What ends the trace of a transaction in a block, in one step or more of *)
(* those that are fair: a connection or a poll that goes on, a query that  *)
(* will be answered, or a result on its way that somebody waits for.       *)
OnItsWay(t) ==
    \/ socket[t] = "connecting" \/ polling[t] # "off"
    \/ /\ socket[t] = "open"
       /\ \/ "query" \in waiting[t] /\ \E i \in 1..Len(toNode[t]) : toNode[t][i] = "query"
          \/ "query" \in waiting[t] /\ \E i \in 1..Len(toWallet[t]) : toWallet[t][i] = "tx"
          \/ "subscription" \in waiting[t] /\ \E i \in 1..Len(toWallet[t]) : toWallet[t][i] = "event"

NothingMissed ==
    \A t \in Txs : trace[t] = "tracing" /\ t \in committed /\ Undisturbed(t)
        => socket[t] = "lost" \/ OnItsWay(t)

(* What a step does not touch goes on being watched.                       *)
LEMMA WatchedFrame ==
  ASSUME NEW t \in Txs, Watched(t),
         trace'[t] = trace[t], socket'[t] = socket[t], waiting'[t] = waiting[t],
         toNode'[t] = toNode[t], toWallet'[t] = toWallet[t],
         t \in subscribed' <=> t \in subscribed, t \in committed' <=> t \in committed
  PROVE  Watched(t)'
BY DEF Watched

(* Nobody waits on a connection that is gone, or for a trace that is over. *)
LEMMA WatchedOff ==
  ASSUME NEW t \in Txs, socket'[t] # "connecting", trace'[t] # "tracing" \/ socket'[t] # "open"
  PROVE  Watched(t)'
BY DEF Watched

(* A connection that ends takes what it carried along; others are left.    *)
LEMMA WatchedDisconnect ==
  ASSUME Typed, NEW t \in Txs, Watched(t), NEW s, NEW how \in {"lost", "closed"}, Disconnect(s, how),
         trace'[t] = trace[t] \/ (socket[t] # "connecting" /\ trace'[t] # "tracing")
                             \/ trace'[t] # "tracing",
         waiting'[t] = waiting[t], committed' = committed
  PROVE  Watched(t)'
<1>1. CASE t \in s
  BY <1>1, WatchedOff DEF Disconnect, Typed, TypeOK
<1>2. CASE t \notin s
  <2>1. /\ socket'[t] = socket[t] /\ toNode'[t] = toNode[t] /\ toWallet'[t] = toWallet[t]
        /\ t \in subscribed' <=> t \in subscribed
    BY <1>2 DEF Disconnect
  <2>2. CASE trace'[t] = trace[t]
    BY <2>1, <2>2, WatchedFrame
  <2>3. CASE trace'[t] # "tracing"
    BY <2>1, <2>3 DEF Watched
  <2>4. QED
    BY <2>2, <2>3
<1>3. QED
  BY <1>1, <1>2

(* What is left of a wire when its first message is taken.                 *)
LEMMA TailIs ==
  ASSUME NEW S, NEW w \in Seq(S), w # <<>>
  PROVE  /\ Len(w) \in Nat \ {0} /\ Head(w) = w[1] /\ Len(Tail(w)) = Len(w) - 1
         /\ \A i \in 1..Len(Tail(w)) : i + 1 \in 1..Len(w) /\ Tail(w)[i] = w[i + 1]
OBVIOUS

(* What a wire carries when a message is added.                            *)
LEMMA AppendIs ==
  ASSUME NEW S, NEW w \in Seq(S), NEW m \in S
  PROVE  /\ Len(w) \in Nat /\ Len(Append(w, m)) = Len(w) + 1 /\ Append(w, m)[Len(w) + 1] = m
         /\ \A i \in 1..Len(w) : Append(w, m)[i] = w[i]
OBVIOUS

(* The node sends a block's transaction to who is subscribed.              *)
LEMMA CommitWatched ==
  ASSUME Typed, NEW t \in Txs, Watched(t), Commit(t)
  PROVE  Watched(t)'
<1>1. /\ trace' = trace /\ socket' = socket /\ waiting' = waiting /\ toNode' = toNode
      /\ subscribed' = subscribed /\ t \in committed'
  BY DEF Commit
<1>2. SUFFICES ASSUME trace[t] = "tracing", socket[t] = "open" PROVE Watched(t)'
  BY <1>1, WatchedOff DEF Watched
<1>3. toWallet[t] \in Seq(Messages)
  BY DEF Typed, TypeOK
<1>4. CASE t \in subscribed
  <2>1. toWallet'[t] = Append(toWallet[t], "event")
    BY <1>2, <1>4 DEF Commit, Typed, TypeOK
  <2> DEFINE L == Len(toWallet[t])
             w == toWallet'[t]
  <2>2. /\ L \in Nat /\ Len(w) = L + 1 /\ w[L + 1] = "event"
        /\ \A i \in 1..L : w[i] = toWallet[t][i]
    BY <1>3, <2>1, AppendIs DEF Messages
  <2>3. \A i \in 1..Len(w) : w[i] \in Answers => i \in 1..L /\ w[i] = toWallet[t][i]
    BY <2>2 DEF Answers
  <2>4. L + 1 \in 1..Len(w)
    BY <2>2
  <2> HIDE DEF L, w
  <2>5. \A i, j \in 1..Len(w) : {w[i], w[j]} \subseteq Answers => i = j
    BY <1>2, <2>3 DEF Watched, L
  <2>6. \A i \in 1..Len(w) : w[i] \in Answers => toNode[t] = <<>> /\ "query" \in waiting[t]
    BY <1>2, <2>3 DEF Watched, L
  <2>7. \E i \in 1..Len(w) : w[i] \in {"tx", "event"}
    BY <2>2, <2>4
  <2>8. QED
    BY <1>1, <1>2, <2>5, <2>6, <2>7 DEF Watched, w
<1>5. CASE t \notin subscribed
  <2>1. toWallet' = toWallet /\ toNode[t] = Requests
    BY <1>2, <1>5 DEF Commit, Watched
  <2>2. toNode[t] # <<>>
    BY <2>1 DEF Requests
  <2>3. QED
    BY <1>1, <1>2, <2>1, <2>2 DEF Watched
<1>6. QED
  BY <1>4, <1>5

(* The subscription is acknowledged, then the query answered.              *)
LEMMA NodeAnswersWatched ==
  ASSUME Typed, NEW t \in Txs, Watched(t), NodeAnswers(t)
  PROVE  Watched(t)'
<1>1. /\ trace' = trace /\ socket' = socket /\ waiting' = waiting /\ committed' = committed
      /\ socket[t] = "open" /\ toNode[t] # <<>> /\ toNode'[t] = Tail(toNode[t])
  BY DEF NodeAnswers, Typed, TypeOK
<1>2. SUFFICES ASSUME trace[t] = "tracing" PROVE Watched(t)'
  BY <1>1, WatchedOff
<1>3. toWallet[t] \in Seq(Messages)
  BY DEF Typed, TypeOK
<1>4. \A i \in 1..Len(toWallet[t]) : toWallet[t][i] \notin Answers
  BY <1>1, <1>2 DEF Watched
<1>5. "subscription" \in waiting[t] /\ "query" \in waiting[t]
  BY <1>1, <1>2 DEF Watched
<1> DEFINE L == Len(toWallet[t])
           w == toWallet'[t]
<1>6. CASE toNode[t] = Requests
  <2>1. /\ toNode'[t] = <<"query">> /\ t \in subscribed'
        /\ w = Append(toWallet[t], "subscribed")
    BY <1>1, <1>6 DEF NodeAnswers, Requests, Typed, TypeOK
  <2>2. /\ L \in Nat /\ Len(w) = L + 1 /\ w[L + 1] = "subscribed"
        /\ \A i \in 1..L : w[i] = toWallet[t][i]
    BY <1>3, <2>1, AppendIs DEF Messages
  <2>3. \A i \in 1..Len(w) : w[i] \notin Answers
    BY <1>4, <2>2 DEF Answers
  <2>4. <<"query">> # <<>>
    OBVIOUS
  <2> HIDE DEF w
  <2>5. QED
    BY <1>1, <1>2, <1>5, <2>1, <2>3, <2>4 DEF Watched, w
<1>7. CASE toNode[t] = <<"query">>
  <2>1. /\ toNode'[t] = <<>> /\ t \in subscribed'
        /\ w = Append(toWallet[t], IF t \in committed THEN "tx" ELSE "error")
    <3>1. t \in subscribed /\ Head(toNode[t]) = "query" /\ Tail(toNode[t]) = <<>>
      BY <1>1, <1>2, <1>7 DEF Watched, Requests
    <3>2. QED
      BY <1>1, <3>1 DEF NodeAnswers, Typed, TypeOK
  <2> DEFINE m == IF t \in committed THEN "tx" ELSE "error"
  <2>2. /\ L \in Nat /\ Len(w) = L + 1 /\ w[L + 1] = m
        /\ \A i \in 1..L : w[i] = toWallet[t][i]
    BY <1>3, <2>1, AppendIs DEF Messages
  <2>3. \A i \in 1..Len(w) : w[i] \in Answers => i = L + 1
    BY <1>4, <2>2
  <2>4. L + 1 \in 1..Len(w)
    BY <2>2
  <2> HIDE DEF w, L
  <2>5. \A i, j \in 1..Len(w) : {w[i], w[j]} \subseteq Answers => i = j
    BY <2>3
  <2>6. t \in committed => \E i \in 1..Len(w) : w[i] \in {"tx", "event"}
    BY <2>2, <2>4
  <2>7. QED
    BY <1>1, <1>2, <1>5, <2>1, <2>5, <2>6 DEF Watched, w
<1>8. QED
  BY <1>1, <1>2, <1>6, <1>7 DEF Watched

(* A message is taken from the wire.  One that ends the wait is not waited *)
(* for in vain; the error of a query leaves the subscription.              *)
LEMMA OnMessageWatched ==
  ASSUME Typed, NEW t \in Txs, Watched(t), OnMessage(t)
  PROVE  Watched(t)'
<1> DEFINE w == toWallet[t]
           m == Head(w)
<1>1. /\ socket' = socket /\ toNode' = toNode /\ subscribed' = subscribed /\ committed' = committed
      /\ socket[t] = "open" /\ w # <<>> /\ toWallet'[t] = Tail(w) /\ w \in Seq(Messages)
      /\ waiting[t] \in SUBSET {"query", "subscription"}
  BY DEF OnMessage, Typed, TypeOK
<1>2. /\ Len(w) \in Nat \ {0} /\ m = w[1] /\ Len(Tail(w)) = Len(w) - 1
      /\ \A i \in 1..Len(Tail(w)) : i + 1 \in 1..Len(w) /\ Tail(w)[i] = w[i + 1]
      /\ 1 \in 1..Len(w)
  BY <1>1, TailIs
<1>3. SUFFICES ASSUME trace'[t] = "tracing" PROVE Watched(t)'
  BY <1>1, WatchedOff
<1>4. trace[t] = "tracing"
  BY <1>3 DEF OnMessage, Typed, TypeOK
<1>5. m \in {"subscribed", "error"}
  <2>1. m \in Messages
    BY <1>1, <1>2
  <2>2. m # "tx"
    <3>1. m = "tx" => "query" \in waiting[t]
      BY <1>1, <1>2, <1>4 DEF Watched, Answers
    <3>2. QED
      BY <1>3, <1>4, <3>1 DEF OnMessage, Typed, TypeOK
  <2>3. m # "event"
    <3>1. "subscription" \in waiting[t]
      BY <1>1, <1>4 DEF Watched
    <3>2. QED
      BY <1>3, <1>4, <3>1 DEF OnMessage, Typed, TypeOK
  <2>4. QED
    BY <2>1, <2>2, <2>3 DEF Messages
<1>6. waiting'[t] = IF m = "error" THEN waiting[t] \ {"query"} ELSE waiting[t]
  BY <1>5 DEF OnMessage, Typed, TypeOK
<1>7. /\ m = "error" => toNode[t] = <<>> /\ \A i \in 1..Len(Tail(w)) : Tail(w)[i] \notin Answers
      /\ \A i, j \in 1..Len(Tail(w)) : {Tail(w)[i], Tail(w)[j]} \subseteq Answers => i = j
      /\ \A i \in 1..Len(Tail(w)) : Tail(w)[i] \in Answers => toNode[t] = <<>> /\ "query" \in waiting[t]
  <2>1. /\ \A i, j \in 1..Len(w) : {w[i], w[j]} \subseteq Answers => i = j
        /\ \A i \in 1..Len(w) : w[i] \in Answers => toNode[t] = <<>> /\ "query" \in waiting[t]
    BY <1>1, <1>4 DEF Watched
  <2>2. m = "error" => w[1] \in Answers
    BY <1>2 DEF Answers
  <2> HIDE DEF w, m
  <2>3. \A i \in 1..Len(Tail(w)) : i # 0 /\ i + 1 # 1
    BY <1>2
  <2>4. ASSUME NEW i \in 1..Len(Tail(w)), m = "error" PROVE Tail(w)[i] \notin Answers
    <3>1. Tail(w)[i] = w[i + 1] /\ i + 1 \in 1..Len(w) /\ 1 \in 1..Len(w)
      BY <1>2
    <3>2. {w[1], w[i + 1]} \subseteq Answers => 1 = i + 1
      BY <3>1, <2>1
    <3>3. QED
      BY <2>2, <2>3, <2>4, <3>1, <3>2
  <2>5. \A i, j \in 1..Len(Tail(w)) : {Tail(w)[i], Tail(w)[j]} \subseteq Answers => i = j
    BY <1>2, <2>1
  <2>6. \A i \in 1..Len(Tail(w)) : Tail(w)[i] \in Answers => toNode[t] = <<>> /\ "query" \in waiting[t]
    BY <1>2, <2>1
  <2>7. QED
    BY <1>2, <2>1, <2>2, <2>4, <2>5, <2>6
<1>8. ASSUME t \in committed, toNode[t] = <<>>
      PROVE  \E i \in 1..Len(Tail(w)) : Tail(w)[i] \in {"tx", "event"}
  <2>1. PICK i \in 1..Len(w) : w[i] \in {"tx", "event"}
    BY <1>1, <1>4, <1>8 DEF Watched
  <2>2. i # 1
    BY <1>2, <1>5, <2>1
  <2>3. i - 1 \in 1..Len(Tail(w)) /\ (i - 1) + 1 = i
    BY <1>2, <2>1, <2>2
  <2>4. QED
    BY <1>2, <2>1, <2>3
<1>9. "subscription" \in waiting'[t] /\ (toNode[t] # <<>> => "query" \in waiting'[t])
  BY <1>1, <1>4, <1>6, <1>7 DEF Watched
<1>10. \A i \in 1..Len(Tail(w)) : Tail(w)[i] \in Answers => toNode[t] = <<>> /\ "query" \in waiting'[t]
  BY <1>6, <1>7
<1> HIDE DEF w, m
<1>11. QED
  BY <1>1, <1>3, <1>4, <1>7, <1>8, <1>9, <1>10 DEF Watched

(* Both requests are sent when the socket opens.                           *)
LEMMA OnOpenWatched ==
  ASSUME Typed, NEW t \in Txs, Watched(t), OnOpen(t)
  PROVE  Watched(t)'
<1>1. /\ socket'[t] = "open" /\ toNode'[t] = Requests /\ toWallet'[t] = <<>> /\ waiting' = waiting
      /\ waiting[t] = {"query", "subscription"}
  BY DEF OnOpen, Typed, TypeOK, Watched, Requests
<1>2. Requests # <<>> /\ Len(<<>>) = 0
  BY DEF Requests
<1>3. \A i \in 1..Len(<<>>) : FALSE
  BY <1>2
<1>4. QED
  BY <1>1, <1>2, <1>3 DEF Watched

(* Every step keeps what a connection waits for.                           *)
LEMMA WatchedStep ==
  ASSUME Typed, [Next]_vars, NEW t \in Txs, Watched(t)
  PROVE  Watched(t)'
<1> USE DEF Typed, TypeOK, Fresh
<1>1. CASE UNCHANGED vars
  BY <1>1, WatchedFrame DEF vars, wires, tracer
<1>2. CASE Close
  BY <1>2, WatchedDisconnect DEF Close, Cleanup
<1>3. ASSUME NEW u \in Txs, Commit(u) PROVE Watched(t)'
  <2>1. CASE u = t
    BY <1>3, <2>1, CommitWatched
  <2>2. CASE u # t
    BY <1>3, <2>2, WatchedFrame DEF Commit
  <2>3. QED
    BY <2>1, <2>2
<1>4. ASSUME NEW u \in Txs, NodeAnswers(u) PROVE Watched(t)'
  <2>1. CASE u = t
    BY <1>4, <2>1, NodeAnswersWatched
  <2>2. CASE u # t
    BY <1>4, <2>2, WatchedFrame DEF NodeAnswers
  <2>3. QED
    BY <2>1, <2>2
<1>5. ASSUME NEW u \in Txs, Lose(u) PROVE Watched(t)'
  BY <1>5, WatchedDisconnect DEF Lose
<1>6. ASSUME NEW u \in Txs, OnOpen(u) PROVE Watched(t)'
  <2>1. CASE u = t
    BY <1>6, <2>1, OnOpenWatched
  <2>2. CASE u # t
    BY <1>6, <2>2, WatchedFrame DEF OnOpen
  <2>3. QED
    BY <2>1, <2>2
<1>7. ASSUME NEW u \in Txs, OnMessage(u) PROVE Watched(t)'
  <2>1. CASE u = t
    BY <1>7, <2>1, OnMessageWatched
  <2>2. CASE u # t
    BY <1>7, <2>2, WatchedFrame DEF OnMessage
  <2>3. QED
    BY <2>1, <2>2
<1>8. ASSUME NEW u \in Txs, SendTx(u) \/ FoundWebSocket(u) PROVE Watched(t)'
  <2>1. CASE u = t
    BY <1>8, <2>1 DEF SendTx, FoundWebSocket, Connect, Watched
  <2>2. CASE u # t
    BY <1>8, <2>2, WatchedFrame DEF SendTx, FoundWebSocket, Connect, wires
  <2>3. QED
    BY <2>1, <2>2
<1>9. ASSUME NEW u \in Txs, Notify(u) PROVE Watched(t)'
  BY <1>9, WatchedDisconnect DEF Notify
<1>10. ASSUME NEW u \in Txs, Resolve(u) \/ Timeout(u) PROVE Watched(t)'
  BY <1>10, WatchedDisconnect DEF Resolve, Timeout, Cleanup
<1>11. ASSUME NEW u \in Txs, TraceTx(u) \/ NoWebSocket(u) PROVE Watched(t)'
  <2>1. CASE u = t
    BY <1>11, <2>1, WatchedOff DEF TraceTx, NoWebSocket, wires
  <2>2. CASE u # t
    BY <1>11, <2>2, WatchedFrame DEF TraceTx, NoWebSocket, wires
  <2>3. QED
    BY <2>1, <2>2
<1>12. ASSUME NEW u \in Txs, Poll(u) \/ PollFails(u) PROVE Watched(t)'
  BY <1>12, WatchedFrame DEF Poll, PollFails, wires
<1>13. ASSUME NEW u \in Txs, PollSucceeds(u) PROVE Watched(t)'
  <2>1. CASE trace[u] = "tracing"
    BY <1>13, <2>1, WatchedDisconnect DEF PollSucceeds
  <2>2. CASE trace[u] # "tracing"
    BY <1>13, <2>2, WatchedFrame DEF PollSucceeds, wires
  <2>3. QED
    BY <2>1, <2>2
<1>14. QED
  BY <1>1, <1>2, <1>3, <1>4, <1>5, <1>6, <1>7, <1>8, <1>9, <1>10, <1>11, <1>12, <1>13 DEF Next

-----------------------------------------------------------------------------
(* Every step: only a page takes the tracer of the object.                 *)
LEMMA OfPagesStep ==
  ASSUME Typed, Owned, OfPages, [Next]_vars
  PROVE  OfPages'
<1> USE DEF Typed, TypeOK, OfPages
<1>1. CASE UNCHANGED vars
  BY <1>1 DEF vars, tracer
<1>2. CASE Close
  BY <1>2 DEF Close
<1>3. ASSUME NEW t \in Txs, Commit(t) \/ NodeAnswers(t) \/ Lose(t) \/ OnOpen(t) PROVE OfPages'
  BY <1>3 DEF Commit, NodeAnswers, Lose, OnOpen, tracer
<1>4. ASSUME NEW t \in Txs, OnMessage(t) PROVE OfPages'
  <2>1. /\ trace' = trace \/ (trace[t] = "tracing" /\ trace' = [trace EXCEPT ![t] = "found"])
        /\ UNCHANGED <<broadcast, tmTracer>>
    BY <1>4 DEF OnMessage, tracer
  <2>2. QED
    BY <2>1
<1>5. ASSUME NEW t \in Txs, SendTx(t) \/ Notify(t) \/ TraceTx(t) PROVE OfPages'
  BY <1>5 DEF SendTx, Notify, TraceTx, tracer
<1>6. ASSUME NEW t \in Txs, FoundWebSocket(t) PROVE OfPages'
  BY <1>6 DEF FoundWebSocket, Owned, Own
<1>7. ASSUME NEW t \in Txs, NoWebSocket(t) PROVE OfPages'
  BY <1>7 DEF NoWebSocket
<1>8. ASSUME NEW t \in Txs, Resolve(t) \/ Timeout(t) PROVE OfPages'
  BY <1>8 DEF Resolve, Timeout, tracer
<1>9. ASSUME NEW t \in Txs, Poll(t) \/ PollFails(t) \/ PollSucceeds(t) PROVE OfPages'
  BY <1>9 DEF Poll, PollFails, PollSucceeds, tracer
<1>10. QED
  BY <1>1, <1>2, <1>3, <1>4, <1>5, <1>6, <1>7, <1>8, <1>9 DEF Next

(* A step that leaves a trace's socket and timer, or takes them of others. *)
LEMMA GoingFrame ==
  ASSUME NEW t \in Txs, Going(t), trace'[t] = "tracing" => trace[t] = "tracing",
         Undisturbed(t)' => Undisturbed(t),
         trace'[t] = "tracing" /\ Undisturbed(t)' =>
            /\ socket'[t] = socket[t] \/ socket'[t] \in {"open", "lost"}
            /\ polling'[t] = polling[t] \/ polling'[t] # "off"
  PROVE  Going(t)'
BY DEF Going

(* What ends a trace of the object leaves those that are undisturbed.      *)
LEMMA CleanupLeaves ==
  ASSUME Typed, Owned, OfPages, NEW t \in Txs, NEW u \in Txs \ broadcast,
         trace[u] # "none", trace'[t] = "tracing", trace'[u] # "tracing", Undisturbed(t)', broadcast' = broadcast,
         \A v \in Txs : trace'[v] = "none" => trace[v] = "none"
  PROVE  t \in broadcast /\ t # tmTracer /\ polling[t] = "off"
<1>1. t # u
  OBVIOUS
<1>2. t \in broadcast
  BY <1>1 DEF Undisturbed, Lonely
<1>3. QED
  BY <1>2, TxsAssumption DEF Owned, Own, OfPages

(* Every step: an undisturbed trace keeps its socket or its timer.         *)
LEMMA GoingStep ==
  ASSUME Typed, Owned, OfPages, [Next]_vars, NEW t \in Txs, Going(t)
  PROVE  Going(t)'
<1> USE DEF Typed, TypeOK, Fresh
<1>0. ASSUME broadcast' = broadcast, closed' = closed, \A v \in Txs : trace'[v] = "none" => trace[v] = "none"
      PROVE  Undisturbed(t)' => Undisturbed(t)
  BY <1>0 DEF Undisturbed, Lonely
<1>1. CASE UNCHANGED vars
  BY <1>1 DEF vars, tracer, Going, Undisturbed, Lonely
<1>2. CASE Close
  <2>1. /\ trace' = trace /\ broadcast' = broadcast /\ closed' = TRUE
        /\ t # tmTracer => socket'[t] = socket[t]
    BY <1>2 DEF Close, Cleanup, Disconnect
  <2>2. SUFFICES ASSUME trace[t] = "tracing", t \in broadcast
                 PROVE  socket'[t] \in {"connecting", "open", "lost"}
    BY <2>1 DEF Going, Undisturbed
  <2>3. t # tmTracer /\ polling[t] = "off" /\ Undisturbed(t)
    BY <2>2, TxsAssumption DEF OfPages, Owned, Own, Undisturbed, Lonely
  <2>4. QED
    BY <2>1, <2>2, <2>3 DEF Going
<1>3. ASSUME NEW u \in Txs, Commit(u) \/ NodeAnswers(u) \/ Lose(u) \/ OnOpen(u) PROVE Going(t)'
  BY <1>0, <1>3, GoingFrame DEF Commit, NodeAnswers, Lose, OnOpen, Disconnect, tracer
<1>4. ASSUME NEW u \in Txs, OnMessage(u) PROVE Going(t)'
  <2>1. /\ trace' = trace \/ (trace[u] = "tracing" /\ trace' = [trace EXCEPT ![u] = "found"])
        /\ UNCHANGED <<broadcast, socket, polling, closed>>
    BY <1>4 DEF OnMessage, tracer
  <2>2. \A v \in Txs : trace'[v] = "none" => trace[v] = "none"
    BY <2>1
  <2>3. trace'[t] = "tracing" => trace[t] = "tracing"
    BY <2>1
  <2>4. QED
    BY <1>0, <2>1, <2>2, <2>3, GoingFrame
<1>5. ASSUME NEW u \in Txs, SendTx(u) PROVE Going(t)'
  <2>1. CASE u = t
    BY <1>5, <2>1 DEF SendTx, Connect, Going
  <2>2. CASE u # t
    <3>1. Undisturbed(t)' => Undisturbed(t)
      BY <1>5, <2>2 DEF SendTx, tracer, Undisturbed, Lonely
    <3>2. QED
      BY <1>5, <2>2, <3>1, GoingFrame DEF SendTx, Connect
  <2>3. QED
    BY <2>1, <2>2
<1>6. ASSUME NEW u \in Txs, Notify(u) PROVE Going(t)'
  BY <1>0, <1>6, GoingFrame DEF Notify, Disconnect, tracer
<1>7. ASSUME NEW u \in Txs, TraceTx(u) PROVE Going(t)'
  BY <1>0, <1>7, GoingFrame DEF TraceTx, tracer
<1>8. ASSUME NEW u \in Txs, FoundWebSocket(u) PROVE Going(t)'
  <2>1. CASE u = t
    BY <1>8, <2>1 DEF FoundWebSocket, Connect, Going
  <2>2. CASE u # t
    BY <1>0, <1>8, <2>2, GoingFrame DEF FoundWebSocket, Connect
  <2>3. QED
    BY <2>1, <2>2
<1>9. ASSUME NEW u \in Txs, NoWebSocket(u) PROVE Going(t)'
  <2>1. CASE u = t
    BY <1>9, <2>1 DEF NoWebSocket, StartPolling, Going
  <2>2. CASE u # t
    BY <1>0, <1>9, <2>2, GoingFrame DEF NoWebSocket, StartPolling
  <2>3. QED
    BY <2>1, <2>2
<1>10. ASSUME NEW u \in Txs, Resolve(u) \/ Timeout(u) PROVE Going(t)'
  <2>1. /\ u \notin broadcast /\ trace[u] # "none" /\ trace'[u] # "tracing"
        /\ broadcast' = broadcast /\ closed' = closed
        /\ \A v \in Txs : trace'[v] = "none" => trace[v] = "none"
        /\ trace'[t] = "tracing" => trace[t] = "tracing"
        /\ t # tmTracer => socket'[t] = socket[t]
    BY <1>10 DEF Resolve, Timeout, Cleanup, Disconnect, tracer
  <2>2. polling[t] = "off" => polling'[t] = "off"
    BY <1>10 DEF Resolve, Timeout, Cleanup
  <2>3. QED
    BY <1>0, <2>1, <2>2, CleanupLeaves, GoingFrame
<1>11. ASSUME NEW u \in Txs, Poll(u) PROVE Going(t)'
  <2>1. /\ UNCHANGED <<trace, broadcast, socket, closed>>
        /\ polling'[t] = polling[t] \/ (t = u /\ polling[t] # "off" /\ (~closed => polling'[t] = "fetch"))
    BY <1>11 DEF Poll, wires, tracer
  <2>2. t = u => t \notin broadcast
    BY <1>11 DEF Poll, Owned, Own
  <2>3. QED
    BY <2>1, <2>2 DEF Going, Undisturbed, Lonely
<1>12. ASSUME NEW u \in Txs, PollFails(u) PROVE Going(t)'
  <2>1. /\ UNCHANGED <<trace, broadcast, socket, closed>>
        /\ polling'[t] = polling[t] \/ polling'[t] = "timer"
    BY <1>12 DEF PollFails, StartPolling
  <2>2. QED
    BY <1>0, <2>1, GoingFrame
<1>13. ASSUME NEW u \in Txs, PollSucceeds(u) PROVE Going(t)'
  <2>0. /\ broadcast' = broadcast /\ closed' = closed /\ u \notin broadcast /\ trace[u] # "none"
        /\ \A v \in Txs : trace'[v] = "none" => trace[v] = "none"
        /\ trace'[u] # "tracing" /\ (trace'[t] = "tracing" => trace[t] = "tracing")
    BY <1>13 DEF PollSucceeds, tracer, Owned, Own
  <2>1. CASE trace[u] = "tracing"
    <3>0. Disconnect({tmTracer}, "closed")
      BY <1>13, <2>1 DEF PollSucceeds
    <3>1. t # tmTracer => socket'[t] = socket[t]
      BY <3>0 DEF Disconnect
    <3>2. polling[t] = "off" => polling'[t] = "off"
      BY <1>13 DEF PollSucceeds
    <3>3. QED
      BY <1>0, <2>0, <3>1, <3>2, CleanupLeaves, GoingFrame
  <2>2. CASE trace[u] # "tracing"
    <3>1. socket' = socket /\ (t # u => polling'[t] = polling[t]) /\ trace' = trace
      BY <1>13, <2>2 DEF PollSucceeds
    <3>2. QED
      BY <1>0, <2>0, <2>2, <3>1, GoingFrame
  <2>3. QED
    BY <2>1, <2>2
<1>14. QED
  BY <1>1, <1>2, <1>3, <1>4, <1>5, <1>6, <1>7, <1>8, <1>9, <1>10, <1>11, <1>12, <1>13 DEF Next

(* The safety half of CommittedIsFound: when a transaction is in a block,  *)
(* whenever the block came, whoever traces it alone has something under    *)
(* way that will tell, until its connection is lost; the block does not    *)
(* fall between TendermintTxTracer's question and its subscription.        *)
THEOREM NothingIsMissed == Spec => []NothingMissed
<1>1. Init => Typed /\ Owned /\ Awake
  <2>1. Init => Owned /\ Awake
    BY DEF Init, Owned, Own, Lonely, Awake, OfPages, Watched, Going
  <2>2. QED
    BY <2>1, InitTyped
<1>2. Typed /\ Owned /\ Awake /\ [Next]_vars => Typed' /\ Owned' /\ Awake'
  BY TypedStep, OwnedStep, OfPagesStep, WatchedStep, GoingStep DEF Awake
<1>3. Typed /\ Awake => NothingMissed
  <2>1. SUFFICES ASSUME Typed, NEW t \in Txs, Watched(t), Going(t), trace[t] = "tracing", t \in committed,
                        Undisturbed(t), socket[t] = "open", polling[t] = "off"
                 PROVE  OnItsWay(t)
    BY DEF Awake, NothingMissed, OnItsWay, Going
  <2>2. CASE toNode[t] = Requests
    <3>1. 2 \in 1..Len(toNode[t]) /\ toNode[t][2] = "query"
      BY <2>2 DEF Requests
    <3>2. "query" \in waiting[t]
      BY <2>1, <2>2 DEF Watched, Requests
    <3>3. QED
      BY <2>1, <3>1, <3>2 DEF OnItsWay
  <2>3. CASE toNode[t] = <<"query">>
    <3>1. 1 \in 1..Len(toNode[t]) /\ toNode[t][1] = "query"
      BY <2>3
    <3>2. "query" \in waiting[t]
      BY <2>1, <2>3 DEF Watched
    <3>3. QED
      BY <2>1, <3>1, <3>2 DEF OnItsWay
  <2>4. CASE toNode[t] = <<>>
    <3>1. PICK i \in 1..Len(toWallet[t]) : toWallet[t][i] \in {"tx", "event"}
      BY <2>1, <2>4 DEF Watched
    <3>2. toWallet[t][i] = "tx" => "query" \in waiting[t]
      BY <2>1 DEF Watched, Answers
    <3>3. "subscription" \in waiting[t]
      BY <2>1 DEF Watched
    <3>4. QED
      BY <2>1, <3>1, <3>2, <3>3 DEF OnItsWay
  <2>5. QED
    BY <2>1, <2>2, <2>3, <2>4 DEF Watched
<1>4. QED
  BY <1>1, <1>2, <1>3, PTL DEF Spec
=============================================================================
