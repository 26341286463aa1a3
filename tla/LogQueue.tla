------------------------------ MODULE LogQueue ------------------------------
(***************************************************************************)
(* The multi-producer single-consumer ring of dtLog/dtLogQueue.hpp, one    *)
(* action per access to shared memory.                                     *)
(*                                                                         *)
(* m_head, m_tail and Slot::seq are uint32_t.  The variables keep the      *)
(* unwrapped counters and the code sees only their residues: every         *)
(* comparison below goes through Word or Diffs.  Capacity divides Modulus, *)
(* so masking a word or the counter it stands for selects the same slot.   *)
(*                                                                         *)
(* The message of a slot is copied by many machine instructions.  A write  *)
(* and a read of Slot::data are two steps each: between the steps of a     *)
(* write the slot holds Torn, and a read whose steps see different         *)
(* contents returns Torn.                                                  *)
(***************************************************************************)
EXTENDS Integers, Sequences

CONSTANTS
  Producers, (* the threads that call TryPush                              *)
  MaxCalls,  (* bound: the number of TryPush calls of one producer         *)
  Capacity,  (* template parameter m_capacity                              *)
  Modulus,   (* the number of values of a uint32_t                         *)
  SignRules, (* how the build evaluates (int32_t)seq - (int32_t)head when  *)
             (* the subtraction overflows, see Diffs                       *)
  Torn,      (* the contents of a message that is being overwritten        *)
  Empty      (* the contents of a slot that was never written              *)

(* Line 28 asserts that m_capacity is a power of two; what matters of it   *)
(* is that it divides the number of counter values.                        *)
ASSUME LogQueueAssumption ==
  /\ Capacity \in Nat \ {0}
  /\ Modulus \in Nat \ {0}
  /\ Modulus % Capacity = 0
  /\ Modulus % 2 = 0
  /\ Modulus > 2 * Capacity
  /\ SignRules \subseteq {"wrapped", "exact"}
  /\ SignRules # {}
  /\ MaxCalls \in Nat
  /\ Torn # Empty

(* The n-th message of producer p.                                         *)
Entries == Producers \X (1..MaxCalls)

VARIABLES
  head,      (* m_head                                                     *)
  tail,      (* m_tail                                                     *)
  seq,       (* m_slots[i].seq                                             *)
  data,      (* m_slots[i].data                                            *)
  pc,        (* where each producer is in TryPush                          *)
  ph,        (* the local variable head of each TryPush                    *)
  calls,     (* the number of TryPush calls each producer has started      *)
  cpc,       (* where the consumer is in TryPop                            *)
  out,       (* the consumer's output argument                             *)
  accepted,  (* history: the entries whose CAS succeeded, in order         *)
  delivered, (* history: what TryPop returned, in order                    *)
  refused    (* history: the entries for which TryPush returned false      *)

producerVars == <<pc, ph, calls>>
consumerVars == <<tail, cpc, out>>
history == <<accepted, delivered, refused>>
vars == <<head, seq, data, producerVars, consumerVars, history>>

Slots == 0..(Capacity - 1)
SlotOf(n) == n % Capacity
Word(n) == n % Modulus

(* Next to some definitions stands a variant of theirs that is wrong, the  *)
(* way the code could be: the runs of MCLogQueue must tell them apart.     *)

-----------------------------------------------------------------------------
(* The comparison of two words by the sign of their difference as int32_t. *)

Signed(w) == IF w < Modulus \div 2 THEN w ELSE w - Modulus

(* The subtraction of two int32_t may overflow, which C++ leaves           *)
(* undefined: a build subtracts the words and looks at the sign bit        *)
(* ("wrapped"), or compares the two operands ("exact").                    *)
DiffsUnsigned(s, h) == {Word(s) - Word(h)}
Diffs(s, h) ==
  (IF "wrapped" \in SignRules THEN {Signed(Word(s - h))} ELSE {})
  \union
  (IF "exact" \in SignRules THEN {Signed(Word(s)) - Signed(Word(h))} ELSE {})

-----------------------------------------------------------------------------
Init ==
  /\ head = 0
  /\ tail = 0
  /\ seq = [i \in Slots |-> i]
  /\ data = [i \in Slots |-> Empty]
  /\ pc = [p \in Producers |-> "idle"]
  /\ ph = [p \in Producers |-> 0]
  /\ calls = [p \in Producers |-> 0]
  /\ cpc = "idle"
  /\ out = Empty
  /\ accepted = <<>>
  /\ delivered = <<>>
  /\ refused = {}

-----------------------------------------------------------------------------
(* TryPush *)

Entry(p) == <<p, calls[p]>>

(* A call starts: head = m_head.load().                                    *)
LoadHead(p) ==
  /\ pc[p] = "idle"
  /\ calls[p] < MaxCalls
  /\ calls' = [calls EXCEPT ![p] = @ + 1]
  /\ ph' = [ph EXCEPT ![p] = head]
  /\ pc' = [pc EXCEPT ![p] = "read"]
  /\ UNCHANGED <<head, seq, data, consumerVars, history>>

(* The slot is free for this head, the queue is full, or the head is stale. *)
Outcome(diff) ==
  IF diff = 0 THEN "cas" ELSE IF diff < 0 THEN "idle" ELSE "reload"

(* The slot's sequence number is loaded and compared with the local head:  *)
(* try to claim the slot, return false, or load m_head again.              *)
ReadSeq(p) ==
  /\ pc[p] = "read"
  /\ \E diff \in Diffs(seq[SlotOf(ph[p])], ph[p]) :
       /\ pc' = [pc EXCEPT ![p] = Outcome(diff)]
       /\ refused' = IF Outcome(diff) = "idle" THEN refused \union {Entry(p)}
                                              ELSE refused
  /\ UNCHANGED <<head, seq, data, ph, calls, consumerVars, accepted, delivered>>

ReloadHead(p) ==
  /\ pc[p] = "reload"
  /\ ph' = [ph EXCEPT ![p] = head]
  /\ pc' = [pc EXCEPT ![p] = "read"]
  /\ UNCHANGED <<head, seq, data, calls, consumerVars, history>>

(* Bound: a producer is not suspended between its load of m_head and its   *)
(* CAS while the others push Modulus \div 2 - Capacity entries.            *)
StallBound ==
  \A q \in Producers :
    pc[q] \in {"read", "cas"} => head - ph[q] < Modulus \div 2 - Capacity

CasBlind(p) == TRUE
CasWins(p) == Word(head) = Word(ph[p])

(* compare_exchange_strong succeeds: the producer owns the slot.           *)
CasSucceeds(p) ==
  /\ pc[p] = "cas"
  /\ CasWins(p)
  /\ StallBound
  /\ head' = head + 1
  /\ accepted' = Append(accepted, Entry(p))
  /\ pc' = [pc EXCEPT ![p] = "write"]
  /\ UNCHANGED <<seq, data, ph, calls, consumerVars, delivered, refused>>

(* compare_exchange_strong fails: it stores m_head in the local head.      *)
CasFails(p) ==
  /\ pc[p] = "cas"
  /\ ~CasWins(p)
  /\ ph' = [ph EXCEPT ![p] = head]
  /\ pc' = [pc EXCEPT ![p] = "read"]
  /\ UNCHANGED <<head, seq, data, calls, consumerVars, history>>

BeginWritePublished(p) ==
  /\ pc[p] = "write"
  /\ data' = [data EXCEPT ![SlotOf(ph[p])] = Torn]
  /\ seq' = [seq EXCEPT ![SlotOf(ph[p])] = ph[p] + 1]
  /\ pc' = [pc EXCEPT ![p] = "writing"]
  /\ UNCHANGED <<head, ph, calls, consumerVars, history>>

(* slot.data = entry                                                       *)
BeginWrite(p) ==
  /\ pc[p] = "write"
  /\ data' = [data EXCEPT ![SlotOf(ph[p])] = Torn]
  /\ pc' = [pc EXCEPT ![p] = "writing"]
  /\ UNCHANGED <<head, seq, ph, calls, consumerVars, history>>

EndWrite(p) ==
  /\ pc[p] = "writing"
  /\ data' = [data EXCEPT ![SlotOf(ph[p])] = Entry(p)]
  /\ pc' = [pc EXCEPT ![p] = "publish"]
  /\ UNCHANGED <<head, seq, ph, calls, consumerVars, history>>

PublishedSeqSame(n) == n
PublishedSeq(n) == n + 1

(* The release store of the sequence number; TryPush returns true.         *)
Publish(p) ==
  /\ pc[p] = "publish"
  /\ seq' = [seq EXCEPT ![SlotOf(ph[p])] = PublishedSeq(ph[p])]
  /\ pc' = [pc EXCEPT ![p] = "idle"]
  /\ UNCHANGED <<head, data, ph, calls, consumerVars, history>>

-----------------------------------------------------------------------------
(* TryPop.  A call that finds no published entry at m_tail returns false   *)
(* and changes nothing.                                                    *)

FindEntry ==
  /\ cpc = "idle"
  /\ 0 \in Diffs(seq[SlotOf(tail)], tail + 1)
  /\ cpc' = "copy"
  /\ UNCHANGED <<head, seq, data, producerVars, tail, out, history>>

BeginCopy ==
  /\ cpc = "copy"
  /\ out' = data[SlotOf(tail)]
  /\ cpc' = "copying"
  /\ UNCHANGED <<head, seq, data, producerVars, tail, history>>

EndCopy ==
  /\ cpc = "copying"
  /\ out' = IF data[SlotOf(tail)] = out THEN out ELSE Torn
  /\ cpc' = "advance"
  /\ UNCHANGED <<head, seq, data, producerVars, tail, history>>

AdvanceTail ==
  /\ cpc = "advance"
  /\ tail' = tail + 1
  /\ cpc' = "release"
  /\ UNCHANGED <<head, seq, data, producerVars, out, history>>

FreeSeq(n) == n + Capacity

(* The release store that frees the slot for the ticket one lap later;     *)
(* TryPop returns true.  The store uses the tail loaded by the call.       *)
ReleaseSlot ==
  /\ cpc = "release"
  /\ seq' = [seq EXCEPT ![SlotOf(tail - 1)] = FreeSeq(tail - 1)]
  /\ delivered' = Append(delivered, out)
  /\ cpc' = "idle"
  /\ UNCHANGED <<head, data, producerVars, tail, out, accepted, refused>>

-----------------------------------------------------------------------------
TryPush(p) ==
  \/ LoadHead(p) \/ ReadSeq(p) \/ ReloadHead(p) \/ CasSucceeds(p)
  \/ CasFails(p) \/ BeginWrite(p) \/ EndWrite(p) \/ Publish(p)

TryPop ==
  FindEntry \/ BeginCopy \/ EndCopy \/ AdvanceTail \/ ReleaseSlot

Next == (\E p \in Producers : TryPush(p)) \/ TryPop

Spec == Init /\ [][Next]_vars

(* A thread that has started a call keeps running; whether it starts       *)
(* another one is up to the program.  Nothing is assumed of the consumer,  *)
(* which a busy machine may starve.                                        *)
ContinuePush(p) == pc[p] # "idle" /\ TryPush(p)

FairSpec == Spec /\ \A p \in Producers : WF_vars(ContinuePush(p))

=============================================================================
