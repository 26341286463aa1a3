------------------------------ MODULE MCOutputs ------------------------------
(***************************************************************************)
(* Outputs for TLC.                                                        *)
(***************************************************************************)
EXTENDS Outputs
MCVectors == {<<1, 3>>, <<3, 3, 1>>}
=============================================================================
