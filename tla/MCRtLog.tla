------------------------------- MODULE MCRtLog ------------------------------
(* RtLog on small instances: the main thread, and one that logs.           *)
EXTENDS RtLogProperties

CONSTANTS main, rt1, default, raw, keep

OneApp     == {main}
TwoApps    == {main, rt1}
OnePattern == {default}
LineKinds  == {"line"}
ChunkKinds == {"line", "part", "end"}
=============================================================================
