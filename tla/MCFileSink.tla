----------------------------- MODULE MCFileSink -----------------------------
(* FileSink on small instances: messages below, at and above the sizes of  *)
(* the buffer and of a file.                                               *)
EXTENDS FileSinkProperties

AllSizes == {1, 3, 5}
=============================================================================
