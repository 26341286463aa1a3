-------------------------- MODULE MCStateSubscriber --------------------------
(* The subscriber with a few states; sessions are not bounded.             *)
EXTENDS StateSubscriberProperties
=============================================================================
