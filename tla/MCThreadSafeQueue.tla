------------------------- MODULE MCThreadSafeQueue -------------------------
(***************************************************************************)
(* Two producers and three consumers cover both queues of the daemon: two  *)
(* sleepers to choose from, a consumer that arrives between a notification *)
(* and the notified thread's turn, and a second push before either.  No    *)
(* symmetry is declared, since the run checks a liveness property.         *)
(***************************************************************************)
EXTENDS ThreadSafeQueue
=============================================================================
