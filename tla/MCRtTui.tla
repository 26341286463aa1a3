------------------------------- MODULE MCRtTui -------------------------------
(***************************************************************************)
(* RtTuiProperties for TLC.                                                *)
(***************************************************************************)
EXTENDS RtTuiProperties
=============================================================================
