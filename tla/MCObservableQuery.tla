------------------------- MODULE MCObservableQuery -------------------------
(***************************************************************************)
(* One query that two pages look at or wait for, with two urls and three   *)
(* calls of fetch() that are not over: one under way, the one it cancelled *)
(* and the next.                                                           *)
(***************************************************************************)
EXTENDS ObservableQuery
=============================================================================
