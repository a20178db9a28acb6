---------------------------- MODULE ChainRegister ----------------------------
(***************************************************************************)
(* What the chains service promises to the pages: a register of the chains *)
(* and of what is known of each.  A message that adds or removes a chain   *)
(* does so at one moment before its reply; one that updates a chain, or    *)
(* sets its endpoints, changes that chain only; reading changes nothing.   *)
(* Messages that wait for the same computation of the register are         *)
(* answered at one moment.                                                 *)
(***************************************************************************)
CONSTANTS Callers, Embedded, Suggested, Infos, Plain, NoJob

VARIABLES
    register,   \* what is known of each registered chain
    doing       \* the message that each caller waits for

vars == <<register, doing>>

Chains == Embedded \cup Suggested
Ops == {"look", "suggest", "remove", "update", "endpoints"}
Job(op, c) == [op |-> op, chain |-> c]

Known == DOMAIN register

Init ==
    /\ register = [c \in Embedded |-> Plain]
    /\ doing = [s \in Callers |-> NoJob]

Begin(s, job) ==
    /\ doing[s] = NoJob
    /\ doing' = [doing EXCEPT ![s] = job]
    /\ UNCHANGED register

End(answered) ==
    /\ doing' = [s \in Callers |-> IF s \in answered THEN NoJob ELSE doing[s]]
    /\ UNCHANGED register

Add(s, c) ==
    /\ doing[s] = Job("suggest", c) /\ c \notin Known
    /\ \E info \in Infos :
        register' = [d \in Known \cup {c} |-> IF d = c THEN info ELSE register[d]]
    /\ doing' = [doing EXCEPT ![s] = NoJob]

Remove(s, c) ==
    /\ doing[s] = Job("remove", c) /\ c \in Known \ Embedded
    /\ register' = [d \in Known \ {c} |-> register[d]]
    /\ UNCHANGED doing

Change(s, c) ==
    /\ doing[s] \in {Job("update", c), Job("endpoints", c)} /\ c \in Known
    /\ \E info \in Infos : register' = [register EXCEPT ![c] = info]
    /\ UNCHANGED doing

(* An answer that comes at once.                                           *)
Set(s, c) ==
    /\ doing[s] = NoJob
    /\ doing' = [doing EXCEPT ![s] = Job("endpoints", c)]
    /\ \/ UNCHANGED register
       \/ c \in Known /\ \E info \in Infos : register' = [register EXCEPT ![c] = info]

(* A restart of the service worker answers nobody.  What was being done is *)
(* done, or it is not.                                                     *)
Restart ==
    LET touched == {doing[s].chain : s \in {t \in Callers : doing[t].op \notin {"none", "look"}}}
    IN  /\ doing' = [s \in Callers |-> NoJob]
        /\ Embedded \subseteq DOMAIN register'
        /\ \A c \in Chains \ touched :
            /\ c \in DOMAIN register' <=> c \in Known
            /\ c \in Known => register'[c] = register[c]

Next ==
    \/ Restart
    \/ \E answered \in SUBSET Callers : End(answered)
    \/ \E s \in Callers :
        \/ \E op \in Ops, c \in Chains : Begin(s, Job(op, c))
        \/ \E c \in Chains : Add(s, c) \/ Remove(s, c) \/ Change(s, c) \/ Set(s, c)

Spec == Init /\ [][Next]_vars
=============================================================================
