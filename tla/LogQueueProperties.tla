-------------------------- MODULE LogQueueProperties --------------------------
(***************************************************************************)
(* What the ring of LogQueue must guarantee, and its inductive invariant.  *)
(***************************************************************************)
EXTENDS LogQueue, FiniteSets

(* A producer that owns a slot: its CAS succeeded and its release store is *)
(* still to come.                                                          *)
Owns(p) == pc[p] \in {"write", "writing", "publish"}

(* The number of entries whose slot the consumer has given back.           *)
Released == IF cpc = "release" THEN tail - 1 ELSE tail

(* The ticket n is claimed and its entry is not published yet.             *)
Claimed(n) == \E p \in Producers : Owns(p) /\ ph[p] = n

-----------------------------------------------------------------------------
(* Every variable has its type.                                            *)
TypeOK ==
  /\ head \in Nat
  /\ tail \in Nat
  /\ seq \in [Slots -> Nat]
  /\ data \in [Slots -> Entries \union {Torn, Empty}]
  /\ pc \in [Producers ->
               {"idle", "read", "reload", "cas", "write", "writing", "publish"}]
  /\ ph \in [Producers -> Nat]
  /\ calls \in [Producers -> 0..MaxCalls]
  /\ \A p \in Producers : pc[p] # "idle" => calls[p] > 0
  /\ cpc \in {"idle", "copy", "copying", "advance", "release"}
  /\ out \in Entries \union {Torn, Empty}
  /\ accepted \in Seq(Entries)
  /\ delivered \in Seq(Entries \union {Torn, Empty})
  /\ refused \in SUBSET Entries

-----------------------------------------------------------------------------
(* No entry is lost, duplicated, reordered or torn: what TryPop returned   *)
(* is a prefix of what TryPush accepted, in the order of the CASes.  It    *)
(* rests on the order of the two stores of TryPush (107-108) and of the    *)
(* three steps of TryPop (143-145).                                        *)
DeliveredPrefix ==
  /\ Len(delivered) <= Len(accepted)
  /\ \A i \in 1..Len(delivered) : delivered[i] = accepted[i]

(* Slot::data is written by at most one thread at a time and never while   *)
(* the consumer reads it: the sequence numbers are the only lock.          *)
SlotExclusive ==
  \A p \in Producers : Owns(p) =>
    /\ \A q \in Producers \ {p} : Owns(q) => SlotOf(ph[q]) # SlotOf(ph[p])
    /\ cpc \in {"copy", "copying", "advance"} => SlotOf(ph[p]) # SlotOf(tail)

(* The ring never holds more than Capacity entries that the consumer has   *)
(* not taken: a push into a full queue is refused (line 93).               *)
NeverOverfull == Len(accepted) - Len(delivered) <= Capacity

(* Two messages of one thread are popped in the order it pushed them.      *)
ProducerOrder ==
  \A i, j \in 1..Len(delivered) :
    /\ i < j
    /\ {delivered[i], delivered[j]} \subseteq Entries
    /\ delivered[i][1] = delivered[j][1]
    => delivered[i][2] < delivered[j][2]

(* TryPush returns false only if the queue is full when it reads the slot  *)
(* (lines 113-117).                                                        *)
RefusedOnlyWhenFull ==
  [][ refused' # refused => head - Released = Capacity ]_vars

-----------------------------------------------------------------------------
(* The inductive invariant.                                                *)

(* The counters and the histories move together.                           *)
CountersInv ==
  /\ cpc = "release" => tail > 0
  /\ tail <= head
  /\ head <= Released + Capacity
  /\ Len(accepted) = head
  /\ Len(delivered) = Released

(* What the slot of ticket n holds, for the Capacity tickets from Released *)
(* on: free or claimed, its sequence number is n, published it is n + 1.   *)
SlotInv(n) ==
  IF n < head /\ ~Claimed(n)
  THEN /\ seq[SlotOf(n)] = n + 1
       /\ data[SlotOf(n)] = accepted[n + 1]
  ELSE seq[SlotOf(n)] = n

RingInv == \A n \in Released..(Released + Capacity - 1) : SlotInv(n)

OwnerInv ==
  \A p \in Producers : Owns(p) =>
    /\ ph[p] >= Released
    /\ ph[p] < head
    /\ accepted[ph[p] + 1] = Entry(p)
    /\ pc[p] = "publish" => data[SlotOf(ph[p])] = Entry(p)
    /\ \A q \in Producers \ {p} : Owns(q) => ph[q] # ph[p]

(* A producer about to CAS read a free slot if its head is still current.  *)
CasInv ==
  \A p \in Producers :
    /\ pc[p] \in {"read", "cas"} =>
         /\ ph[p] <= head
         /\ head - ph[p] <= Modulus \div 2 - Capacity
    /\ pc[p] = "cas" /\ ph[p] = head => head < Released + Capacity

ConsumerInv ==
  /\ cpc \in {"copy", "copying", "advance"} => tail < head /\ ~Claimed(tail)
  /\ cpc = "release" => ~Claimed(tail - 1)
  /\ cpc \in {"copying", "advance"} => out = accepted[tail + 1]
  /\ cpc = "release" => out = accepted[tail]

RingCorrect ==
  CountersInv /\ RingInv /\ OwnerInv /\ CasInv /\ ConsumerInv /\ DeliveredPrefix

IInv == TypeOK /\ RingCorrect

(* A producer's messages enter the log in the order of its calls, and each *)
(* call ends with its message either accepted or refused.                  *)
OrderInv ==
  /\ \A i \in 1..Len(accepted) :
       /\ accepted[i][2] <= calls[accepted[i][1]]
       /\ pc[accepted[i][1]] \in {"read", "reload", "cas"} =>
            accepted[i][2] < calls[accepted[i][1]]
  /\ \A i, j \in 1..Len(accepted) :
       i < j /\ accepted[i][1] = accepted[j][1] => accepted[i][2] < accepted[j][2]
  /\ \A e \in refused :
       /\ e[2] <= calls[e[1]]
       /\ pc[e[1]] # "idle" => e[2] < calls[e[1]]

-----------------------------------------------------------------------------
(* The queue implements the bounded log: the CAS reserves, the release     *)
(* store of the producer publishes, the one of the consumer pops.          *)

Visible == {i \in 1..Len(accepted) : ~Claimed(i - 1)}

Log == INSTANCE BoundedLog WITH log <- accepted, visible <- Visible

ImplementsBoundedLog == Log!Spec

-----------------------------------------------------------------------------
(* If the consumer keeps polling (dtRtLog.cpp, PollLogQueue), every entry  *)
(* a producer got accepted is popped in the end: no order of the stores    *)
(* leaves the slot at m_tail unreadable.                                   *)
EveryEntryPopped ==
  WF_vars(TryPop) =>
    \A n \in 1..(MaxCalls * Cardinality(Producers)) :
      Len(accepted) >= n ~> Len(delivered) >= n

=============================================================================
