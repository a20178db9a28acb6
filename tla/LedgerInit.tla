------------------------------ MODULE LedgerInit ------------------------------
(***************************************************************************)
(* The calls of useLedger() on a phone: each connects to the device and,   *)
(* when it cannot, asks the user for one in a dialog and tries again, for  *)
(* five minutes at most.  A new call aborts the one before, if that waits  *)
(* for its dialog.  The dialogs are data of one InteractionStore, which    *)
(* resumeAll() and abortAll() go through one after the other.              *)
(*                                                                         *)
(* Background and pages share a process there: what they send arrives.     *)
(* Dialogs are kept in sets: any order of them is possible.                *)
(*                                                                         *)
(* The names with an L are those of the other modules without it:          *)
(* KeyRingProofs extends this module and KeyRing.                          *)
(***************************************************************************)
EXTENDS Naturals

CONSTANTS
    Requests,    \* calls of useLedger()
    Nothing,
    MaxFailures, \* how often the device fails for one call: a bound
    Calm         \* nobody asks for the device while another call is connected to it

ASSUME LedgerAssumption ==
    /\ Nothing \notin Requests
    /\ MaxFailures \in Nat /\ Calm \in BOOLEAN

VARIABLES
    pc,         \* where each call is
    retryCount,
    previousInitAborter,  \* whose abort() is there
    coming,     \* dialogs that are on their way to the pages
    datas,      \* the "ledger-init" data of the InteractionStore
    sweeps      \* resumeAll() and abortAll(): what is left, and what was sent

lvars == <<pc, retryCount, previousInitAborter, coming, datas, sweeps>>

(* The n-th dialog of a call.                                              *)
Dialogs == [of : Requests, turn : 0..MaxFailures]
Dialog(r) == [of |-> r, turn |-> retryCount[r]]
Verdicts == {"resume", "abort"}
NoLoop == [left |-> {}, sent |-> {}]

LInit ==
    /\ pc = [r \in Requests |-> "idle"]
    /\ retryCount = [r \in Requests |-> 0]
    /\ previousInitAborter = Nothing
    /\ coming = {} /\ datas = {}
    /\ sweeps = [v \in Verdicts |-> NoLoop]

-----------------------------------------------------------------------------
(* initLedgerMobile().                                                     *)
OnDevice(r) == pc[r] \in {"mode", "connecting", "using"}

(* A bug: the call before goes on.                                         *)
UseLedgerToo(r) ==
    /\ pc[r] = "idle"
    /\ Calm => \A o \in Requests : ~OnDevice(o)
    /\ pc' = [pc EXCEPT ![r] = "mode"]
    /\ previousInitAborter' = r
    /\ UNCHANGED <<retryCount, coming, datas, sweeps>>

(* abort() is of use while the call before waits in its race, and only     *)
(* then.                                                                   *)
UseLedger(r) ==
    /\ pc[r] = "idle"
    /\ Calm => \A o \in Requests : ~OnDevice(o)
    /\ pc' = [o \in Requests |-> IF o = r THEN "mode"
                                 ELSE IF o = previousInitAborter /\ pc[o] = "dialog" THEN "failed" ELSE pc[o]]
    /\ previousInitAborter' = r
    /\ UNCHANGED <<retryCount, coming, datas, sweeps>>

(* getMode() reads the store.                                              *)
GotMode(r) ==
    /\ pc[r] = "mode"
    /\ pc' = [pc EXCEPT ![r] = "connecting"]
    /\ UNCHANGED <<retryCount, previousInitAborter, coming, datas, sweeps>>

Connects(r) ==
    /\ pc[r] = "connecting"
    /\ pc' = [pc EXCEPT ![r] = "using"]
    /\ previousInitAborter' = Nothing
    /\ UNCHANGED <<retryCount, coming, datas, sweeps>>

(* Ledger.init() has closed the transport.  waitApprove() makes an id and  *)
(* sends the data.                                                         *)
InitFails(r) ==
    /\ pc[r] = "connecting" /\ retryCount[r] < MaxFailures
    /\ pc' = [pc EXCEPT ![r] = "dialog"]
    /\ coming' = coming \cup {Dialog(r)}
    /\ UNCHANGED <<retryCount, previousInitAborter, datas, sweeps>>

(* A bug: only the first dialog has a timer.                               *)
TimesOutOnce(r) ==
    /\ pc[r] = "dialog" /\ retryCount[r] = 0
    /\ pc' = [pc EXCEPT ![r] = "failed"]
    /\ UNCHANGED <<retryCount, previousInitAborter, coming, datas, sweeps>>

(* After five minutes.  The data stays where it is.                        *)
TimesOut(r) ==
    /\ pc[r] = "dialog"
    /\ pc' = [pc EXCEPT ![r] = "failed"]
    /\ UNCHANGED <<retryCount, previousInitAborter, coming, datas, sweeps>>

(* The function that was given the device, and close().                    *)
Used(r) ==
    /\ pc[r] = "using"
    /\ \E how \in {"done", "failed"} : pc' = [pc EXCEPT ![r] = how]
    /\ UNCHANGED <<retryCount, previousInitAborter, coming, datas, sweeps>>

-----------------------------------------------------------------------------
(* The pages.                                                              *)
(* The data comes, whatever has become of the call.                        *)
OnInteractionDataReceived(d) ==
    /\ d \in coming
    /\ coming' = coming \ {d}
    /\ datas' = datas \cup {d}
    /\ UNCHANGED <<pc, retryCount, previousInitAborter, sweeps>>

(* The modal is resumed with a device, or closed; it is there while there  *)
(* is data.  getDatas() is a copy.                                         *)
ForAll(verdict) ==
    /\ datas # {} /\ sweeps[verdict] = NoLoop
    /\ sweeps' = [sweeps EXCEPT ![verdict].left = datas]
    /\ UNCHANGED <<pc, retryCount, previousInitAborter, coming, datas>>

(* A bug: the data of a type goes with one of it.                          *)
SendsForgetting(verdict, d) ==
    /\ d \in sweeps[verdict].left /\ sweeps[verdict].sent = {}
    /\ datas' = {}
    /\ sweeps' = [sweeps EXCEPT ![verdict] = [left |-> @.left \ {d}, sent |-> {d}]]
    /\ UNCHANGED <<pc, retryCount, previousInitAborter, coming>>

(* A bug: the loop does not wait for the reply.                            *)
SendsUnawaited(verdict, d) ==
    /\ d \in sweeps[verdict].left
    /\ datas' = datas \ {d}
    /\ sweeps' = [sweeps EXCEPT ![verdict] = [left |-> @.left \ {d}, sent |-> @.sent \cup {d}]]
    /\ UNCHANGED <<pc, retryCount, previousInitAborter, coming>>

Sends(verdict, d) ==
    /\ d \in sweeps[verdict].left /\ sweeps[verdict].sent = {}
    /\ datas' = datas \ {d}
    /\ sweeps' = [sweeps EXCEPT ![verdict] = [left |-> @.left \ {d}, sent |-> {d}]]
    /\ UNCHANGED <<pc, retryCount, previousInitAborter, coming>>

(* InteractionService.approve(), its reply, and the loop of the call whose *)
(* promise it resolves, if that is still in the race.                      *)
Approve(verdict, d) ==
    LET answered == pc[d.of] = "dialog" /\ d = Dialog(d.of)
    IN  /\ d \in sweeps[verdict].sent
        /\ sweeps' = [sweeps EXCEPT ![verdict].sent = @ \ {d}]
        /\ pc' = IF ~answered THEN pc ELSE [pc EXCEPT ![d.of] = IF verdict = "abort" THEN "failed" ELSE "mode"]
        /\ retryCount' = IF answered /\ verdict = "resume" THEN [retryCount EXCEPT ![d.of] = @ + 1] ELSE retryCount
        /\ UNCHANGED <<previousInitAborter, coming, datas>>

-----------------------------------------------------------------------------
Over(r) == pc[r] \in {"done", "failed"}

Stopped ==
    /\ \A r \in Requests : Over(r)
    /\ coming = {} /\ datas = {} /\ \A v \in Verdicts : sweeps[v] = NoLoop
    /\ UNCHANGED lvars

LNext ==
    \/ \E r \in Requests : \/ UseLedger(r) \/ GotMode(r) \/ Connects(r) \/ InitFails(r)
                           \/ TimesOut(r) \/ Used(r)
    \/ \E d \in coming : OnInteractionDataReceived(d)
    \/ \E v \in Verdicts : ForAll(v) \/ \E d \in Dialogs : Sends(v, d) \/ Approve(v, d)
    \/ Stopped

LSpec == LInit /\ [][LNext]_lvars

(* The store, the device and the timers answer; the user may do nothing.   *)
LFairness ==
    \A r \in Requests :
        WF_lvars(GotMode(r)) /\ WF_lvars(Connects(r) \/ InitFails(r)) /\ WF_lvars(TimesOut(r)) /\ WF_lvars(Used(r))

LFairSpec == LSpec /\ LFairness
-----------------------------------------------------------------------------
LTypeOK ==
    /\ pc \in [Requests -> {"idle", "mode", "connecting", "dialog", "using", "done", "failed"}]
    /\ retryCount \in [Requests -> 0..MaxFailures]
    /\ previousInitAborter \in Requests \cup {Nothing}
    /\ {coming, datas} \subseteq SUBSET Dialogs
    /\ sweeps \in [Verdicts -> [left : SUBSET Dialogs, sent : SUBSET Dialogs]]
    /\ \A v \in Verdicts : \A d, e \in sweeps[v].sent : d = e

(* "This ensures that the ledger connection is not executed concurrently": *)
(* a call that waits for its dialog is given up for a new one, and cannot  *)
(* be resumed beside it by whoever goes through all dialogs.               *)
OneConnection == \A r, o \in Requests : OnDevice(r) /\ OnDevice(o) => r = o

(* A call that waits for its dialog has one that the user can answer, or   *)
(* will have, or the answer is on its way: however many others were there  *)
(* and what loops go through them.                                         *)
DialogIsAnswerable ==
    \A r \in Requests : pc[r] = "dialog" =>
        Dialog(r) \in coming \cup datas \cup sweeps["resume"].sent \cup sweeps["abort"].sent

(* Every call comes to an end, whether the user answers or not.            *)
RequestEnds == \A r \in Requests : pc[r] # "idle" ~> Over(r)
=============================================================================
