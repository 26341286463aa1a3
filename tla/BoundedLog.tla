----------------------------- MODULE BoundedLog -----------------------------
(***************************************************************************)
(* What the log queue promises to its users: a bounded FIFO log shared by  *)
(* several producers and one consumer.  An entry is put in the log in two  *)
(* steps, a reservation that fixes its place in the order and a            *)
(* publication that makes it visible.  The consumer takes the entries in   *)
(* the order of the reservations and waits for the next one to be visible. *)
(* An entry is refused only when Capacity reserved entries have not been   *)
(* taken yet.                                                              *)
(***************************************************************************)
EXTENDS Integers, Sequences

CONSTANTS
  Entries,   (* the entries that may be pushed                             *)
  Capacity   (* the number of entries the log holds                        *)

VARIABLES
  log,       (* the entries reserved so far, in order                      *)
  visible,   (* the positions of log whose entry is published              *)
  delivered, (* the entries taken by the consumer, in order                *)
  refused    (* the entries refused because the log was full               *)

vars == <<log, visible, delivered, refused>>

Full == Len(log) - Len(delivered) = Capacity

(* An entry is pushed once, and accepted or refused.                       *)
Fresh(e) == e \notin refused /\ \A i \in 1..Len(log) : log[i] # e

Init ==
  /\ log = <<>>
  /\ visible = {}
  /\ delivered = <<>>
  /\ refused = {}

Reserve(e) ==
  /\ Fresh(e)
  /\ ~Full
  /\ log' = Append(log, e)
  /\ UNCHANGED <<visible, delivered, refused>>

Publish(i) ==
  /\ i \notin visible
  /\ visible' = visible \union {i}
  /\ UNCHANGED <<log, delivered, refused>>

Pop ==
  /\ Len(delivered) + 1 \in visible
  /\ delivered' = Append(delivered, log[Len(delivered) + 1])
  /\ UNCHANGED <<log, visible, refused>>

Refuse(e) ==
  /\ Fresh(e)
  /\ Full
  /\ refused' = refused \union {e}
  /\ UNCHANGED <<log, visible, delivered>>

Next ==
  \/ \E e \in Entries : Reserve(e) \/ Refuse(e)
  \/ \E i \in 1..Len(log) : Publish(i)
  \/ Pop

Spec == Init /\ [][Next]_vars

=============================================================================
