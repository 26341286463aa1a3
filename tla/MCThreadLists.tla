---------------------------- MODULE MCThreadLists ----------------------------
(***************************************************************************)
(* ThreadListsProperties for TLC: the threads and the semaphores have      *)
(* their places, the second mutex overruns its list, also when the first   *)
(* one has been deleted.                                                   *)
(***************************************************************************)
EXTENDS ThreadListsProperties
MCPlaces == [thread |-> 3, sem |-> 2, mutex |-> 1]
=============================================================================
