----------------------------- MODULE StateStream -----------------------------
(***************************************************************************)
(* What a subscriber of a topic is promised: its handler is called with    *)
(* published states only, each at most once and in the order in which they *)
(* were published.  States may be missed, before, between and after        *)
(* connections, but none comes twice and none comes late.                  *)
(***************************************************************************)
EXTENDS Naturals, Sequences

VARIABLES
  published,   (* the number of states published                           *)
  handled      (* the states given to the handler                          *)

vars == <<published, handled>>

Last == IF handled = <<>> THEN 0 ELSE handled[Len(handled)]

Init == published = 0 /\ handled = <<>>

Publish == published' = published + 1 /\ UNCHANGED handled

Handle ==
  /\ \E m \in (Last + 1)..published : handled' = Append(handled, m)
  /\ UNCHANGED published

Next == Publish \/ Handle

Spec == Init /\ [][Next]_vars
=============================================================================
