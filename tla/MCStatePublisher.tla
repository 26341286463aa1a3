-------------------------- MODULE MCStatePublisher --------------------------
(* StatePublisher on small instances: no queue, one place, no limit.       *)
EXTENDS StatePublisherProperties

AllSizes == {-1, 0, 1}
=============================================================================
