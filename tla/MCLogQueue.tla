----------------------------- MODULE MCLogQueue -----------------------------
(* A small instance of the log queue for TLC.                              *)
EXTENDS LogQueueProperties

CONSTANTS p1, p2

TwoProducers == {p1, p2}
Wrapped == {"wrapped"}

=============================================================================
